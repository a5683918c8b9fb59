---------------------------- MODULE MCCompileTables ----------------------------
(* A small batch: a file with a function, a class and a constant, a dependency *)
(* with a class and a constant, and a file that only declares functions.       *)
EXTENDS CompileTables

CONSTANTS a, b, c

Symbols(fs, cs, ks) == [k \in Kind |-> CASE k = "function" -> fs
                                        [] k = "class" -> cs
                                        [] k = "constant" -> ks]

Batch == [f \in Files |->
    CASE f = a -> Symbols(<<"fa">>, <<"A">>, <<"KA">>)
      [] f = b -> Symbols(<<>>, <<"B">>, <<"KB">>)
      [] f = c -> Symbols(<<"fc1", "fc2">>, <<>>, <<>>)]

Engine == [k \in Kind |-> <<"internal">>]
===============================================================================
