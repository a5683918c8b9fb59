----------------------------- MODULE ScriptRuntime -----------------------------
(***************************************************************************)
(* The runtime half of opkit (src/src/opkit_module.c): the loaded_scripts  *)
(* list of each process, the engine's symbol tables it registers scripts   *)
(* in, opkit_boot, and everything that takes scripts away again.           *)
(*                                                                         *)
(* A process is a single thread of PHP code.  What processes share is the  *)
(* memory of the scripts in the segment; opkit writes one pointer into it  *)
(* after the load: the run-time cache of a script's top-level code, which  *)
(* the engine allocates on the heap of whoever executes it first.          *)
(*                                                                         *)
(* Booted code is PHP code: it may call opkit again.                       *)
(***************************************************************************)
EXTENDS Integers, Sequences

CONSTANTS
    Proc, Master,
    Files,          \* the .phpc files
    Funcs,          \* names of functions; "main" may be one
    Consts,         \* names of global constants
    Classes,        \* names of classes
    ByName,         \* key of what is found by its name
    Declares,       \* Declares[f]: the names file f declares
    Line,           \* Line[n]: where in its file class n is declared
    Needs,          \* Needs[n]: parent, interfaces and traits of class n
    Placement,      \* may a load get a block of the segment? \subseteq BOOLEAN
    Booters,        \* processes whose code calls opkit_boot
    InCode,         \* what booted code calls: \subseteq {"load", "drop"}
    MaxCalls,       \* bound: loads, boots and resets per process
    MaxBoots        \* bound: boots per process

Names == Funcs \cup Consts \cup Classes

ASSUME NameAssumption ==
    /\ Declares \in [Files -> SUBSET Names]
    /\ Needs \in [Classes -> SUBSET Classes]
    /\ Line \in [Classes -> Nat]
    /\ (Funcs \cup Consts) \cap Classes = {}
    /\ ByName \notin Files
    /\ Placement \subseteq BOOLEAN
    /\ InCode \subseteq {"load", "drop"}
ASSUME BoundAssumption == MaxCalls \in Nat /\ MaxBoots \in Nat

Shared == "segment"      \* where the script of a shared block keeps its cache

ASSUME ProcAssumption ==
    Master \in Proc /\ Booters \subseteq Proc /\ Shared \notin Proc

Load == Proc \X (1 .. MaxCalls)     \* a load, by who made it and when
NoLoad == <<Master, 0>>
Cache == Proc \X (0 .. MaxCalls) \X Load
NoCache == <<Master, 0, NoLoad>>

\* ZEND_COMPILE_WITHOUT_EXECUTION: the compiler links no class, also none without
\* parent.  The script has it under its run-time definition key, which names the file
\* too; it gets its name when it is linked.
Key == (Names \X {ByName}) \cup (Classes \X Files)
KeyOf(n, f) == IF n \in Classes THEN <<n, f>> ELSE <<n, ByName>>

\* What a table entry points to: the item inside the memory of a load, or the
\* copy of it that linking made in the compiler's arena.
Entry == [load : Load, clone : BOOLEAN]
Item(id) == [load |-> id, clone |-> FALSE]
Clone(id) == [load |-> id, clone |-> TRUE]
NoEntry == Item(NoLoad)

\* The place of an unlinked class in the class table: when its key was added.
Place == (0 .. MaxBoots) \X Nat \X Nat     \* boot, node on the list, class in the file
Beginning == <<0, 0, 0>>

\* boot is an observer: the process's boot that was the node's first, or 0.
Node == [load : Load, file : Files, shm : BOOLEAN, executed : BOOLEAN, boot : 0 .. MaxBoots]

VARIABLES
    pc,          \* pc[p]: unborn, idle, link, boot, code, main or dead
    list,        \* list[p]: loaded_scripts, the newest first
    tab,         \* tab[p]: the function, class and constant tables
    place,       \* place[p][k]: where in the class table unlinked class k is
    walk,        \* walk[p]: the place to which opkit_link_classes has come
    cursor,      \* cursor[p]: the scripts opkit_boot still has to execute
    entry,       \* entry[p]: the load whose "main" is the entry function
    cache,       \* cache[h][id]: run_time_cache pointer of id's main_op_array
    live,        \* live[p]: caches that are allocated on p's heap
    calls,       \* calls[p]: calls p has made
    boots        \* boots[p]: boots of p and of those it was forked from

classes == <<place, walk>>
vars == <<pc, list, tab, place, walk, cursor, entry, cache, live, calls, boots>>

Loads(p) == {list[p][i].load : i \in DOMAIN list[p]}
Alive == {p \in Proc : pc[p] \notin {"unborn", "dead"}}
NodeOf(p, id) == list[p][CHOOSE i \in DOMAIN list[p] : list[p][i].load = id]
Home(p, node) == IF node.shm THEN Shared ELSE p

-------------------------------------------------------------------------------
Init ==
    /\ pc = [p \in Proc |-> IF p = Master THEN "idle" ELSE "unborn"]
    /\ list = [p \in Proc |-> <<>>]
    /\ tab = [p \in Proc |-> [k \in Key |-> NoEntry]]
    /\ place = [p \in Proc |-> [k \in Classes \X Files |-> Beginning]]
    /\ walk = [p \in Proc |-> Beginning]
    /\ cursor = [p \in Proc |-> <<>>]
    /\ entry = [p \in Proc |-> NoLoad]
    /\ cache = [h \in Proc \cup {Shared} |-> [id \in Load |-> NoCache]]
    /\ live = [p \in Proc |-> {}]
    /\ calls = [p \in Proc |-> 0]
    /\ boots = [p \in Proc |-> 0]

Goto(p, label) == pc' = [pc EXCEPT ![p] = label]

\* PHP code of p calls an opkit function of the given kind.
Call(p, kind) ==
    /\ pc[p] = "idle" \/ (pc[p] \in {"code", "main"} /\ kind \in InCode)
    /\ calls[p] < MaxCalls
    /\ calls' = [calls EXCEPT ![p] = @ + 1]

\* opkit_keep_memory: the newest script is the head of the list.
KeepMemory(p, node) == list' = [list EXCEPT ![p] = <<node>> \o @]

\* opkit_compile_script_load registers the script's constants at once.
RegisterConstants(p, id, f) ==
    tab' = [tab EXCEPT ![p] =
              [k \in Key |-> IF \E n \in Declares[f] \cap Consts : k = KeyOf(n, f)
                               THEN Item(id) ELSE tab[p][k]]]

LoadFile(p, f) ==
    /\ Call(p, "load")
    /\ \E shm \in Placement :
          LET id == <<p, calls[p] + 1>> IN
          /\ KeepMemory(p, [load |-> id, file |-> f, shm |-> shm,
                            executed |-> FALSE, boot |-> 0])
          /\ RegisterConstants(p, id, f)
    /\ UNCHANGED <<pc, classes, cursor, entry, cache, live, boots>>

\* opkit_load, or one file of opkit_load_multi's.
OpkitLoad(p) == \E f \in Files : LoadFile(p, f)

-------------------------------------------------------------------------------
LatestIn(S) == CHOOSE i \in S : \A j \in S : i <= j

EarliestIn(S) == CHOOSE i \in S : \A j \in S : j <= i

\* The scripts on the list that have an item with key k.
Having(p, k) ==
    {i \in DOMAIN list[p] : \E n \in Declares[list[p][i].file] : k = KeyOf(n, list[p][i].file)}

\* Phase 1 of opkit_boot goes through the list from its head and overwrites:
\* the entry that stays is that of the script loaded first.
Registered(p) ==
    [k \in Key |->
        IF Having(p, k) # {}
          THEN Item(list[p][EarliestIn(Having(p, k))].load)
          ELSE tab[p][k]]

\* A key that is not in the table is added behind all others, for the script
\* loaded last; a key that is stays where it is.
Placed(p) ==
    [k \in Classes \X Files |->
        IF Having(p, k) # {} /\ tab[p][k] = NoEntry
          THEN <<boots[p] + 1, LatestIn(Having(p, k)), Line[k[1]]>>
          ELSE place[p][k]]

MainOf(t) == IF "main" \in Funcs THEN t[<<"main", ByName>>].load ELSE NoLoad

Booted(node, b) == [node EXCEPT !.boot = IF @ = 0 THEN b ELSE @]

\* An empty list throws.  A "main" that exists before registration is the
\* entry function, whatever phase 1 does to the name.
BootStart(p) ==
    /\ p \in Booters
    /\ pc[p] = "idle"
    /\ list[p] # <<>>
    /\ boots[p] < MaxBoots
    /\ Call(p, "boot")
    /\ boots' = [boots EXCEPT ![p] = @ + 1]
    /\ Goto(p, "link")
    /\ entry' = [entry EXCEPT ![p] = MainOf(tab[p])]
    /\ tab' = [tab EXCEPT ![p] = Registered(p)]
    /\ place' = [place EXCEPT ![p] = Placed(p)]
    /\ walk' = [walk EXCEPT ![p] = Beginning]
    /\ cursor' = [cursor EXCEPT ![p] = [i \in DOMAIN list[p] |-> list[p][i].load]]
    /\ list' = [list EXCEPT ![p] = [i \in DOMAIN @ |-> Booted(@[i], boots[p] + 1)]]
    /\ UNCHANGED <<cache, live>>

-------------------------------------------------------------------------------
\* opkit_link_classes.  A class that is registered but not linked is linked if no
\* class has its name and all it depends on is in the table.  (That linking may
\* fail is in ClassLink.)
InTable(p) == {n \in Classes : tab[p][<<n, ByName>>] # NoEntry}

Linkable(p) ==
    {k \in Classes \X Files : /\ tab[p][k] # NoEntry
                              /\ k[1] \notin InTable(p)
                              /\ Needs[k[1]] \subseteq InTable(p)}

Follows(a, b) ==    \* mutant of Precedes: the table is walked from its end
    \/ a[1] > b[1]
    \/ a[1] = b[1] /\ a[2] > b[2]
    \/ a[1] = b[1] /\ a[2] = b[2] /\ a[3] > b[3]

Precedes(a, b) ==
    \/ a[1] < b[1]
    \/ a[1] = b[1] /\ a[2] < b[2]
    \/ a[1] = b[1] /\ a[2] = b[2] /\ a[3] < b[3]

\* The classes this pass will come to; if there are none, those of the next pass.
Ahead(p) == {k \in Linkable(p) : ~Precedes(place[p][k], walk[p])}
Turn(p) == IF Ahead(p) # {} THEN Ahead(p) ELSE Linkable(p)

\* The next one gets its name as key.  zend_do_link_class returns a copy of the class,
\* which replaces the entry.
LinkClass(p) ==
    /\ pc[p] = "link"
    /\ \E k \in Turn(p) :
          /\ \A j \in Turn(p) : ~Precedes(place[p][j], place[p][k])
          /\ tab' = [tab EXCEPT ![p][k] = NoEntry,
                                ![p][<<k[1], ByName>>] = Clone(tab[p][k].load)]
          /\ walk' = [walk EXCEPT ![p] = place[p][k]]
    /\ UNCHANGED <<pc, list, place, cursor, entry, cache, live, calls, boots>>

\* A pass that links nothing is the last one.
LinkDone(p) ==
    /\ pc[p] = "link"
    /\ Linkable(p) = {}
    /\ Goto(p, "boot")
    /\ UNCHANGED <<list, tab, classes, cursor, entry, cache, live, calls, boots>>

-------------------------------------------------------------------------------
\* zend_execute of the next script's top-level code.
RunScript(p) ==
    /\ pc[p] = "boot"
    /\ cursor[p] # <<>>
    /\ Goto(p, "code")
    /\ LET id == Head(cursor[p])
           home == Home(p, NodeOf(p, id))
           new == <<p, calls[p], id>>
       IN IF cache[home][id] = NoCache
            THEN /\ cache' = [cache EXCEPT ![home][id] = new]
                 /\ live' = [live EXCEPT ![p] = @ \cup {new}]
            ELSE UNCHANGED <<cache, live>>
    /\ UNCHANGED <<list, tab, classes, cursor, entry, calls, boots>>

\* mutant of Marked: what was executed in an earlier boot is forgotten
MarkedNow(node, ids) == [node EXCEPT !.executed = node.load \in ids]

Marked(node, ids) == [node EXCEPT !.executed = @ \/ node.load \in ids]

MarkExecuted(p, ids) ==
    list' = [list EXCEPT ![p] = [i \in DOMAIN @ |-> Marked(@[i], ids)]]

Running(p) == IF pc[p] = "code" THEN Head(cursor[p]) ELSE entry[p]

\* The script's code returns; the boot loop goes on with node->next.
ScriptDone(p) ==
    /\ pc[p] = "code"
    /\ Running(p) \in Loads(p)
    /\ Goto(p, "boot")
    /\ MarkExecuted(p, {Running(p)})
    /\ cursor' = [cursor EXCEPT ![p] = Tail(@)]
    /\ UNCHANGED <<tab, classes, entry, cache, live, calls, boots>>

EntryKept(p) == cursor' = [cursor EXCEPT ![p] = <<>>] /\ UNCHANGED entry  \* mutant of Unwound

\* The frame of opkit_boot is gone.
Unwound(p) ==
    /\ cursor' = [cursor EXCEPT ![p] = <<>>]
    /\ entry' = [entry EXCEPT ![p] = NoLoad]

\* It throws: with an exception pending zend_execute does nothing, so the
\* remaining scripts are only marked, and the entry function is not called.
ScriptThrows(p) ==
    /\ pc[p] = "code"
    /\ Running(p) \in Loads(p)
    /\ Goto(p, "idle")
    /\ MarkExecuted(p, {cursor[p][i] : i \in DOMAIN cursor[p]})
    /\ Unwound(p)
    /\ UNCHANGED <<tab, classes, cache, live, calls, boots>>

\* All scripts have run: the entry function, if there is one.
EnterMain(p) ==
    /\ pc[p] = "boot"
    /\ cursor[p] = <<>>
    /\ entry' = [entry EXCEPT ![p] = IF @ # NoLoad THEN @ ELSE MainOf(tab[p])]
    /\ Goto(p, IF entry'[p] # NoLoad THEN "main" ELSE "idle")
    /\ UNCHANGED <<list, tab, classes, cursor, cache, live, calls, boots>>

MainDone(p) ==
    /\ pc[p] = "main"
    /\ Running(p) \in Loads(p)
    /\ Goto(p, "idle")
    /\ Unwound(p)
    /\ UNCHANGED <<list, tab, classes, cache, live, calls, boots>>

-------------------------------------------------------------------------------
KeepSymbols(p) == tab[p]    \* mutant of Cleaned

\* opkit_clean_script_items of every script on the list: an entry goes if it
\* still points to that script's item.
Cleaned(p) ==
    [k \in Key |->
        IF \E i \in DOMAIN list[p] :
              /\ \E n \in Declares[list[p][i].file] : k \in {KeyOf(n, list[p][i].file), <<n, ByName>>}
              /\ tab[p][k] = Item(list[p][i].load)
          THEN NoEntry ELSE tab[p][k]]

\* The nodes whose run-time cache opkit_reset_script frees.
Spent(p) ==
    {i \in DOMAIN list[p] :
        /\ list[p][i].executed
        /\ cache[Home(p, list[p][i])][list[p][i].load] # NoCache}

\* Every node goes, and each cache of an executed script that is not NULL.
DropList(p) ==
    /\ cache' = [h \in DOMAIN cache |-> [id \in Load |->
                   IF \E i \in Spent(p) : /\ h = Home(p, list[p][i])
                                          /\ id = list[p][i].load
                     THEN NoCache ELSE cache[h][id]]]
    /\ list' = [list EXCEPT ![p] = <<>>]

\* opkit_reset_script.
ResetScript(p) ==
    /\ DropList(p)
    /\ tab' = [tab EXCEPT ![p] = Cleaned(p)]
    /\ live' = [live EXCEPT ![p] =
                  @ \ {cache[Home(p, list[p][i])][list[p][i].load] : i \in Spent(p)}]

\* opkit_shm_reset; what it does to the segment is in SharedAlloc.
ShmReset(p) ==
    /\ Call(p, "drop")
    /\ ResetScript(p)
    /\ UNCHANGED <<pc, classes, cursor, entry, boots>>

\* opkit_compile_file and opkit_compile_dir end with opkit_reset_script too.
CompileFile(p) ==
    /\ Call(p, "drop")
    /\ ResetScript(p)
    /\ UNCHANGED <<pc, classes, cursor, entry, boots>>

\* RSHUTDOWN, after which the engine empties its tables and releases the
\* request's heap.  A fatal error gets there from wherever PHP code runs.
EndRequest(p) ==
    /\ pc[p] \in {"idle", "code", "main"}
    /\ Goto(p, "idle")
    /\ DropList(p)
    /\ tab' = [tab EXCEPT ![p] = [k \in Key |-> NoEntry]]
    /\ live' = [live EXCEPT ![p] = {}]
    /\ Unwound(p)
    /\ UNCHANGED <<classes, calls, boots>>

CacheForgotten(p, c) == UNCHANGED live    \* mutant of InheritHeap

\* All private memory is copied, the heap at the same addresses.
InheritHeap(p, c) == live' = [live EXCEPT ![c] = live[p]]

\* pcntl_fork in the calling script, in the top-level code that opkit_boot executes or in
\* the entry function, fork of a server: all private state is copied, and the child
\* goes on where its parent is.
Fork(p, c) ==
    /\ pc[p] \in {"idle", "code", "main"}
    /\ pc[c] = "unborn"
    /\ Goto(c, pc[p])
    /\ list' = [list EXCEPT ![c] = list[p]]
    /\ tab' = [tab EXCEPT ![c] = tab[p]]
    /\ place' = [place EXCEPT ![c] = place[p]]
    /\ walk' = [walk EXCEPT ![c] = walk[p]]
    /\ cursor' = [cursor EXCEPT ![c] = cursor[p]]
    /\ entry' = [entry EXCEPT ![c] = entry[p]]
    /\ cache' = [cache EXCEPT ![c] = cache[p]]
    /\ InheritHeap(p, c)
    /\ boots' = [boots EXCEPT ![c] = boots[p]]
    /\ UNCHANGED calls

\* The process is killed, or goes wrong on a script that is no longer there:
\* RSHUTDOWN does not run.
Exit(p) ==
    /\ p \in Alive
    /\ Goto(p, "dead")
    /\ list' = [list EXCEPT ![p] = <<>>]
    /\ tab' = [tab EXCEPT ![p] = [k \in Key |-> NoEntry]]
    /\ Unwound(p)
    /\ cache' = [cache EXCEPT ![p] = [id \in Load |-> NoCache]]
    /\ live' = [live EXCEPT ![p] = {}]
    /\ UNCHANGED <<classes, calls, boots>>

Next ==
    \/ \E p \in Proc :
          \/ OpkitLoad(p)
          \/ BootStart(p)
          \/ LinkClass(p)
          \/ LinkDone(p)
          \/ RunScript(p)
          \/ ScriptDone(p)
          \/ ScriptThrows(p)
          \/ EnterMain(p)
          \/ MainDone(p)
          \/ ShmReset(p)
          \/ CompileFile(p)
          \/ EndRequest(p)
          \/ Exit(p)
    \/ \E p, c \in Proc : Fork(p, c)

Spec == Init /\ [][Next]_vars

-------------------------------------------------------------------------------
\* Every variable has its type, and a boot leaves nothing behind of what it was at.
TypeOK ==
    /\ pc \in [Proc -> {"unborn", "idle", "link", "boot", "code", "main", "dead"}]
    /\ \A p \in Proc : \A i \in DOMAIN list[p] : list[p][i] \in Node
    /\ tab \in [Proc -> [Key -> Entry \cup {NoEntry}]]
    /\ place \in [Proc -> [Classes \X Files -> Place]]
    /\ walk \in [Proc -> Place]
    /\ \A p \in Proc : \A i \in DOMAIN cursor[p] : cursor[p][i] \in Load
    /\ entry \in [Proc -> Load \cup {NoLoad}]
    /\ cache \in [Proc \cup {Shared} -> [Load -> Cache \cup {NoCache}]]
    /\ live \in [Proc -> SUBSET Cache]
    /\ calls \in [Proc -> 0 .. MaxCalls]
    /\ boots \in [Proc -> 0 .. MaxBoots]
    /\ \A p \in Proc : /\ cursor[p] # <<>> => pc[p] \in {"link", "boot", "code"}
                       /\ entry[p] # NoLoad => pc[p] \in {"link", "boot", "code", "main"}

\* opkit_clean_script_items leaves no entry that points into memory of a
\* script that is gone: whatever was loaded, overwritten by another script's
\* item of that name, booted, reset, forked or ended, in any order.
NoDanglingSymbol ==
    \A p \in Alive : \A k \in Key :
        tab[p][k] # NoEntry => tab[p][k].load \in Loads(p)

\* It does so for all entries that are items of scripts, not copies that linking has
\* made: functions, constants, classes that are not linked.
ItemsLoaded ==
    \A p \in Alive : \A k \in Key :
        tab[p][k] # NoEntry /\ ~tab[p][k].clone => tab[p][k].load \in Loads(p)

\* The run-time cache a process executes with, or will free, is one that is
\* allocated on its own heap.
CacheIsOwn ==
    \A p \in Alive : \A i \in DOMAIN list[p] :
        LET node == list[p][i]
            ptr == cache[Home(p, node)][node.load]
        IN node.executed \/ (pc[p] = "code" /\ Running(p) = node.load) =>
              ptr \in live[p] \cup {NoCache}

\* And none is lost: each run-time cache on a process's heap is that of a script on its
\* list that is marked as executed, so that a reset frees it, or is executed now.
NoCacheLost ==
    \A p \in Alive : \A c \in live[p] : \E i \in DOMAIN list[p] :
        LET node == list[p][i]
        IN /\ cache[Home(p, node)][node.load] = c
           /\ node.executed \/ (pc[p] = "code" /\ Running(p) = node.load)

Declaring(p, n) == {i \in DOMAIN list[p] : n \in Declares[list[p][i].file]}
BootedDeclaring(p, n) == {i \in Declaring(p, n) : list[p][i].boot # 0}
Points(p, n, i) == tab[p][<<n, ByName>>] = Item(list[p][i].load)

\* Which of several scripts the name of a function or constant means.  It is the one
\* loaded first among those that a boot has seen.  For a constant it is that
\* too, unless a script loaded since declares it: then it is the newest one's.
NamesResolve ==
    \A p \in Alive : \A n \in Funcs \cup Consts :
        LET all == Declaring(p, n)
            old == BootedDeclaring(p, n)
            new == all \ old
        IN /\ n \in Consts /\ new # {} =>
                 \E i \in new : Points(p, n, i) /\ \A j \in new : i <= j
           /\ old # {} /\ (n \notin Consts \/ new = {}) =>
                 \E i \in old : Points(p, n, i) /\ \A j \in old : j <= i
           /\ old = {} /\ (n \notin Consts \/ new = {}) =>
                 tab[p][<<n, ByName>>] = NoEntry

\* The scripts that declare class n among those of the first boot that saw one.
FirstBooted(p, n) ==
    {i \in BootedDeclaring(p, n) :
        \A j \in BootedDeclaring(p, n) : list[p][i].boot <= list[p][j].boot}

\* And of a class that depends on no other, once a boot has linked: if the class that
\* has the name is of a script on the list, it is of the first boot that saw
\* the name, there of the file loaded last, and of that file's loads the first.
ClassesResolve ==
    \A p \in Alive : \A n \in Classes :
        LET bound == tab[p][<<n, ByName>>]
            first == FirstBooted(p, n)
        IN Needs[n] = {} /\ pc[p] # "link" =>
             /\ first # {} => bound # NoEntry
             /\ bound # NoEntry /\ bound.load \in Loads(p) =>
                  \E i, j \in first :
                     /\ \A other \in first : i <= other
                     /\ list[p][j].file = list[p][i].file /\ bound = Clone(list[p][j].load)
                     /\ \A other \in first : list[p][other].file = list[p][i].file =>
                                              other <= j
===============================================================================
