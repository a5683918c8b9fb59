----------------------------- MODULE CompileTables -----------------------------
(***************************************************************************)
(* Compiling a batch of sources in one process (opkit_compile_file of      *)
(* src/src/opkit_compile.c, the moves of src/src/opkit_util_funcs.c,       *)
(* opkit_globals_mark and opkit_globals_cleanup): how a file's symbols get *)
(* from the engine's global tables into its script, by counting buckets,   *)
(* while phpc's autoloader puts other files' symbols into the same tables. *)
(*                                                                         *)
(* A table is the engine's: an array of buckets with holes where entries   *)
(* were deleted.  An insertion that finds the array full closes the holes, *)
(* if there are more than one per 32 entries, and doubles it otherwise.    *)
(***************************************************************************)
EXTENDS Integers, Sequences

CONSTANTS
    Files,
    Symbol,         \* names of functions, classes and constants
    Declares,       \* Declares[f][k]: names of kind k in f, in their order
    Internal,       \* Internal[k]: what is in the tables before the batch
    FirstSize,      \* the tables' allocated size then
    MaxCompiles,    \* bound: compilations in the batch
    None

Kind == {"function", "class", "constant"}

ASSUME FileAssumption ==
    /\ None \notin Files
    /\ \A f \in Files : \A k \in Kind : Declares[f][k] \in Seq(Symbol)
ASSUME InternalAssumption ==
    \A k \in Kind :
        /\ Internal[k] \in Seq(Symbol)
        /\ \A i, j \in DOMAIN Internal[k] : Internal[k][i] = Internal[k][j] => i = j
ASSUME SizeAssumption ==
    /\ FirstSize \in Nat \ {0} /\ MaxCompiles \in Nat
    /\ \A k \in Kind : Len(Internal[k]) <= FirstSize

\* A bucket: the key of an entry, the file it is from, and the flag
\* CONST_OWNED_BY_PERSISTENT_SCRIPT.  A class whose name is taken gets a
\* run-time definition key, which has its file's name in it.
Bucket(name, rtd, f) == [key |-> <<name, rtd>>, file |-> f, owned |-> FALSE]
Hole == [key |-> <<>>, file |-> None, owned |-> FALSE]

VARIABLES
    pc,         \* start, idle, consts, resolve, bailout or done
    tab,        \* tab[k]: a table, [used, size]; its nNumUsed is Len(used)
    cur,        \* the file that is compiled
    todo,       \* its DECLARE_CONST opcodes that are still to be registered
    orig,       \* nNumUsed of each table when the compilation began
    marked,     \* nNumUsed of each table at opkit_globals_mark
    thrown,     \* EG(exception)
    included,   \* files the autoloader has required
    compiles,   \* compilations so far
    script,     \* the last compilation's result, [file, items], or None
    before,     \* observer: entries when the last compilation began
    atMark      \* observer: entries at opkit_globals_mark

vars == <<pc, tab, cur, todo, orig, marked, thrown, included, compiles, script,
          before, atMark>>

Entries(t) == {t.used[i] : i \in DOMAIN t.used} \ {Hole}
Has(t, key) == \E b \in Entries(t) : b.key = key
AllEntries == [k \in Kind |-> Entries(tab[k])]
NumUsed == [k \in Kind |-> Len(tab[k].used)]

-------------------------------------------------------------------------------
\* The engine's tables, as far as the counts depend on them.
Compacted(t) ==
    LET kept[n \in 0 .. Len(t.used)] ==
          IF n = 0 THEN <<>>
          ELSE IF t.used[n] = Hole THEN kept[n - 1]
          ELSE Append(kept[n - 1], t.used[n])
    IN kept[Len(t.used)]

Resized(t) ==
    LET n == Len(Compacted(t)) IN
    IF Len(t.used) < t.size THEN t
    ELSE IF Len(t.used) > n + n \div 32 THEN [t EXCEPT !.used = Compacted(t)]
    ELSE [t EXCEPT !.size = 2 * @]

AddedTwice(t, b) == [Resized(t) EXCEPT !.used = Append(@, b)]   \* mutant of Added

\* zend_hash_add: a key that is there stays as it is.
Added(t, b) ==
    IF Has(t, b.key) THEN t ELSE [Resized(t) EXCEPT !.used = Append(@, b)]

\* A name of f: its own key, or another one for a class that opkit compiles (rtd)
\* and whose name is taken.
Declared(t, n, f, rtd) ==
    Bucket(n, IF rtd /\ Has(t, <<n, None>>) THEN f ELSE None, f)

With(t, f, names, rtd) ==
    LET with[n \in 0 .. Len(names)] ==
          IF n = 0 THEN t
          ELSE Added(with[n - 1], Declared(with[n - 1], names[n], f, rtd))
    IN with[Len(names)]

\* The tables with the first i functions and the first j classes of f.
Compiled(f, i, j) ==
    [tab EXCEPT
        !["function"] = With(@, f, SubSeq(Declares[f]["function"], 1, i), FALSE),
        !["class"] = With(@, f, SubSeq(Declares[f]["class"], 1, j), TRUE)]

\* None of f's first n names of kind k is taken.
Free(k, f, n) == \A i \in 1 .. n : ~Has(tab[k], <<Declares[f][k][i], None>>)

Count(k, f) == Len(Declares[f][k])

\* zend_hash_del_bucket of each position in S: deleting the last entry gives up
\* the holes before it too.
Deleted(t, S) ==
    LET holed == [i \in DOMAIN t.used |-> IF i \in S THEN Hole ELSE t.used[i]]
        last == CHOOSE n \in 0 .. Len(holed) :
                   /\ n = 0 \/ holed[n] # Hole
                   /\ \A i \in n + 1 .. Len(holed) : holed[i] = Hole
    IN [t EXCEPT !.used =
          IF Len(t.used) \in S THEN SubSeq(holed, 1, last) ELSE holed]

-------------------------------------------------------------------------------
Init ==
    /\ pc = "start"
    /\ tab = [k \in Kind |->
                [used |-> [i \in DOMAIN Internal[k] |->
                             Bucket(Internal[k][i], None, None)],
                 size |-> FirstSize]]
    /\ cur = None /\ todo = <<>> /\ script = None
    /\ orig = [k \in Kind |-> 0] /\ marked = orig
    /\ thrown = FALSE /\ included = {} /\ compiles = 0
    /\ before = AllEntries /\ atMark = before

\* opkit_globals_mark: phpc calls it once, before it compiles anything.
Mark ==
    /\ pc = "start"
    /\ pc' = "idle"
    /\ marked' = NumUsed
    /\ atMark' = AllEntries
    /\ UNCHANGED <<tab, cur, todo, orig, thrown, included, compiles, script, before>>

\* zend_compile_file of f declares its functions and classes, all of them or
\* those before an error; no PHP code runs.  A function whose name is taken is
\* an error.
Begin(f) ==
    /\ pc = "idle"
    /\ compiles < MaxCompiles
    /\ compiles' = compiles + 1
    /\ cur' = f
    /\ orig' = NumUsed
    /\ before' = AllEntries
    /\ thrown' = FALSE
    /\ \E i \in 0 .. Count("function", f), j \in 0 .. Count("class", f) :
          /\ Free("function", f, i)
          /\ tab' = Compiled(f, i, j)
          /\ \/ pc' = "bailout"
             \/ i = Count("function", f) /\ j = Count("class", f) /\ pc' = "consts"
    /\ todo' = Declares[f]["constant"]
    /\ UNCHANGED <<marked, included, script, atMark>>

\* A DECLARE_CONST opcode; zend_hash_add_ptr's result is not looked at.
RegisterConst ==
    /\ pc = "consts"
    /\ todo # <<>>
    /\ tab' = [tab EXCEPT !["constant"] = Added(@, Bucket(Head(todo), None, cur))]
    /\ todo' = Tail(todo)
    /\ UNCHANGED <<pc, cur, orig, marked, thrown, included, compiles, script,
                   before, atMark>>

Flagged(b) == IF b = Hole THEN b ELSE [b EXCEPT !.owned = TRUE]

\* Every constant behind the count taken at the beginning is flagged.
FlagConstants ==
    /\ pc = "consts"
    /\ todo = <<>>
    /\ tab' = [tab EXCEPT !["constant"].used =
                 [i \in DOMAIN @ |->
                    IF i > orig["constant"] THEN Flagged(@[i]) ELSE @[i]]]
    /\ pc' = "resolve"
    /\ UNCHANGED <<cur, todo, orig, marked, thrown, included, compiles, script,
                   before, atMark>>

\* Evaluating an expression, of a constant of the file or in one of its
\* functions and classes afterwards, runs PHP code.
Evaluating == pc = "resolve" \/ (pc = "consts" /\ todo # <<>>)

\* It needs a class that is not there: phpc's autoloader requires the file
\* once, and the engine compiles and executes it.  An error in that ends the
\* compilation of cur too.
Autoload(g) ==
    /\ Evaluating
    /\ g \notin included \cup {cur}
    /\ \E i \in 1 .. Count("class", g) :
          ~Has(tab["class"], <<Declares[g]["class"][i], None>>)
    /\ included' = included \cup {g}
    /\ \/ /\ \A k \in {"function", "class"} : Free(k, g, Count(k, g))
          /\ tab' = [k \in Kind |-> With(tab[k], g, Declares[g][k], FALSE)]
          /\ UNCHANGED pc
       \/ /\ \E i \in 0 .. Count("function", g), j \in 0 .. Count("class", g) :
                Free("function", g, i) /\ tab' = Compiled(g, i, j)
          /\ pc' = "bailout"
    /\ UNCHANGED <<cur, todo, orig, marked, thrown, compiles, script, before, atMark>>

\* It throws, for instance because the class's file has been required before
\* and is not any more in the table.
Throw ==
    /\ Evaluating
    /\ thrown' = TRUE
    /\ UNCHANGED <<pc, tab, cur, todo, orig, marked, included, compiles, script,
                   before, atMark>>

-------------------------------------------------------------------------------
AnyFile(k, b) == k # "constant" \/ b.owned    \* mutant of Moves

\* What a move takes: functions and classes by their file, constants by the flag.
Moves(k, b) == IF k = "constant" THEN b.owned ELSE b.file = cur

\* The last `count' buckets, of which there are none if the table is shorter
\* than it was: the unsigned difference is then greater than nNumUsed.
Moved(k) ==
    LET n == Len(tab[k].used) IN
    {i \in orig[k] + 1 .. n : tab[k].used[i] # Hole /\ Moves(k, tab[k].used[i])}

\* The three zend_accel_move_user_*; after an exception the script is freed.
Finish ==
    /\ pc = "resolve"
    /\ pc' = "idle"
    /\ tab' = [k \in Kind |-> Deleted(tab[k], Moved(k))]
    /\ script' = IF thrown THEN None
                 ELSE [file |-> cur,
                       items |-> [k \in Kind |-> {tab[k].used[i] : i \in Moved(k)}]]
    /\ cur' = None
    /\ UNCHANGED <<todo, orig, marked, thrown, included, compiles, before, atMark>>

\* mutants of Truncated: one bucket too many, and one too few
TruncatedShort(t, n) ==
    IF Len(t.used) > n THEN [t EXCEPT !.used = SubSeq(@, 1, n - 1)] ELSE t
TruncatedLong(t, n) ==
    IF Len(t.used) > n THEN [t EXCEPT !.used = SubSeq(@, 1, n + 1)] ELSE t

\* The buckets behind a count are deleted, from the last one down.
Truncated(t, n) ==
    IF Len(t.used) > n THEN [t EXCEPT !.used = SubSeq(@, 1, n)] ELSE t

\* The compilation failed: what it has added goes.
Discard ==
    /\ pc = "bailout"
    /\ pc' = "idle"
    /\ tab' = [k \in Kind |-> Truncated(tab[k], orig[k])]
    /\ script' = None
    /\ todo' = <<>>
    /\ cur' = None
    /\ UNCHANGED <<orig, marked, thrown, included, compiles, before, atMark>>

\* opkit_globals_cleanup: what dependencies have left in the tables goes.
Cleanup ==
    /\ pc = "idle"
    /\ pc' = "done"
    /\ tab' = [k \in Kind |-> Truncated(tab[k], marked[k])]
    /\ UNCHANGED <<cur, todo, orig, marked, thrown, included, compiles, script,
                   before, atMark>>

Next ==
    \/ Mark \/ RegisterConst \/ FlagConstants \/ Throw
    \/ Finish \/ Discard \/ Cleanup
    \/ \E f \in Files : Begin(f) \/ Autoload(f)

Spec == Init /\ [][Next]_vars

-------------------------------------------------------------------------------
\* Every variable has its type, a table is no longer than its memory and has no
\* key twice.
TypeOK ==
    /\ pc \in {"start", "idle", "consts", "resolve", "bailout", "done"}
    /\ \A k \in Kind :
          /\ Len(tab[k].used) <= tab[k].size
          /\ \A i, j \in DOMAIN tab[k].used :
                /\ tab[k].used[i] = Hole \/ tab[k].used[i].file \in Files \cup {None}
                /\ tab[k].used[i] = tab[k].used[j] => i = j \/ tab[k].used[i] = Hole
                /\ tab[k].used[i].key = tab[k].used[j].key =>
                      i = j \/ tab[k].used[i] = Hole
    /\ cur \in Files \cup {None} /\ (cur = None <=> pc \in {"start", "idle", "done"})
    /\ included \subseteq Files
    /\ compiles \in 0 .. MaxCompiles
    /\ script = None \/ script.file \in Files

\* No function and no class of another file gets into a script, whatever the
\* autoloader has put behind the count, and wherever closing holes has moved it.
OwnOnly ==
    script # None =>
        \A k \in {"function", "class"} : \A b \in script.items[k] : b.file = script.file

\* A compilation takes nothing away that was in the tables when it began: not
\* by moving, not by discarding, not after holes were closed under its counts.
OthersKept == pc # "done" => \A k \in Kind : before[k] \subseteq Entries(tab[k])

\* After the cleanup the tables hold what they held at the mark, although
\* compilations failed, dependencies stayed and buckets were moved since.
CleanupRestores == pc = "done" => AllEntries = atMark

Names(k, f) == {Declares[f][k][i] : i \in DOMAIN Declares[f][k]}
ItemNames(k) == {b.key[1] : b \in script.items[k]}

\* While no dependency has been loaded, each compilation, good or bad, leaves
\* the tables as they were, and a script has its file's symbols and no other.
AloneExact ==
    included = {} =>
        /\ pc = "idle" => AllEntries = before
        /\ script # None => \A k \in Kind : ItemNames(k) = Names(k, script.file)

\* opkit_compile.c:1672: "Clean holes from previous compilations in global
\* tables to ensure a clean state".  So that the counts stay good: a script has
\* all the functions and classes of its file.
SymbolsComplete ==
    script # None =>
        \A k \in {"function", "class"} : ItemNames(k) = Names(k, script.file)
===============================================================================
