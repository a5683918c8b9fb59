---------------------------- MODULE MCScriptRuntime ----------------------------
(* Small instances of ScriptRuntime for TLC. *)
EXTENDS ScriptRuntime

CONSTANTS m, c1

TwoProcs == {m, c1}
OnlyMaster == {m}

\* Two files that declare the same function, constant and class, and "main" in one;
\* the class that one of them has besides extends the shared one.
AppFiles == {"app", "lib"}
SharedNames == [f \in AppFiles |->
                  IF f = "app" THEN {"main", "f", "C", "P", "D"} ELSE {"f", "C", "P"}]
AppNeeds == [n \in {"P", "D"} |-> IF n = "D" THEN {"P"} ELSE {}]
AppLine == [n \in {"P", "D"} |-> IF n = "D" THEN 1 ELSE 2]

\* The same without classes.
NoClassNames == [f \in AppFiles |-> SharedNames[f] \ {"P", "D"}]
NoNeeds == [n \in {} |-> {}]
NoLine == [n \in {} |-> 0]

\* A class in one file that extends one of the other.
ChildFiles == {"app", "lib"}
ChildNames == [f \in ChildFiles |-> IF f = "app" THEN {"D"} ELSE {"P"}]
===============================================================================
