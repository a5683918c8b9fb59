------------------------- MODULE ScriptRuntime_proofs -------------------------
(***************************************************************************)
(* Proofs about the run-time half of opkit, for any number of processes,   *)
(* files, names and calls, and for whatever the files declare.             *)
(***************************************************************************)
EXTENDS ScriptRuntime, WellFoundedInduction, SequenceTheorems, TLAPS

-------------------------------------------------------------------------------
\* A bounded set of numbers that is not empty has a largest element.
LEMMA LargestExists ==
    ASSUME NEW n \in Nat, NEW S \in SUBSET (0 .. n), S # {}
    PROVE  \E m \in S : \A j \in S : j <= m
<1> DEFINE R == {ss \in Nat \X Nat : ss[1] < ss[2]}
           T == {n - i : i \in S}
<1>1. IsWellFoundedOn(R, Nat)
    BY NatLessThanWellFounded DEF OpToRel
<1>2. T \subseteq Nat /\ T # {}
    <2>1. \A i \in S : i \in Nat /\ n - i \in Nat
        OBVIOUS
    <2> QED
        BY <2>1
<1>3. PICK x \in T : \A y \in T : <<y, x>> \notin R
    <2> HIDE DEF R, T
    <2> QED
        BY <1>1, <1>2, WFMin
<1>4. PICK m \in S : x = n - m
    OBVIOUS
<1>5. ASSUME NEW j \in S PROVE j <= m
    <2>1. n - j \in T /\ n - j \in Nat /\ x \in Nat /\ j \in Nat /\ m \in Nat
        BY <1>2, <1>4
    <2>2. ~ (n - j < x)
        BY <1>3, <2>1
    <2> QED
        BY <1>4, <2>1, <2>2
<1> QED
    BY <1>5

\* And a smallest.
LEMMA SmallestExists ==
    ASSUME NEW n \in Nat, NEW S \in SUBSET (0 .. n), S # {}
    PROVE  \E m \in S : \A j \in S : m <= j
<1> DEFINE T == {n - i : i \in S}
<1>1. T \in SUBSET (0 .. n) /\ T # {}
    <2>1. \A i \in S : i \in Nat /\ n - i \in 0 .. n
        OBVIOUS
    <2> QED
        BY <2>1
<1>2. PICK x \in T : \A y \in T : y <= x
    <2> HIDE DEF T
    <2> QED
        BY <1>1, LargestExists
<1>3. PICK m \in S : x = n - m
    OBVIOUS
<1>4. ASSUME NEW j \in S PROVE m <= j
    <2>1. n - j \in T /\ j \in Nat /\ m \in Nat
        OBVIOUS
    <2>2. n - j <= x
        BY <1>2, <2>1
    <2> QED
        BY <1>3, <2>1, <2>2
<1> QED
    BY <1>4

-------------------------------------------------------------------------------
\* What TypeOK leaves open: that a list and what is left of a boot are sequences.
DataOK ==
    /\ pc \in [Proc -> {"unborn", "idle", "link", "boot", "code", "main", "dead"}]
    /\ list \in [Proc -> Seq(Node)]
    /\ tab \in [Proc -> [Key -> Entry \cup {NoEntry}]]
    /\ place \in [Proc -> [Classes \X Files -> Place]]
    /\ walk \in [Proc -> Place]
    /\ cursor \in [Proc -> Seq(Load)]
    /\ entry \in [Proc -> Load \cup {NoLoad}]
    /\ cache \in [Proc \cup {Shared} -> [Load -> Cache \cup {NoCache}]]
    /\ live \in [Proc -> SUBSET Cache]
    /\ calls \in [Proc -> 0 .. MaxCalls]
    /\ boots \in [Proc -> 0 .. MaxBoots]
    /\ \A p \in Proc : /\ cursor[p] # <<>> => pc[p] \in {"link", "boot", "code"}
                       /\ entry[p] # NoLoad => pc[p] \in {"link", "boot", "code", "main"}
                       /\ pc[p] = "code" => cursor[p] # <<>>

FromScript(p, k) ==
    \E i \in DOMAIN list[p] :
        /\ tab[p][k] = Item(list[p][i].load)
        /\ \E n \in Declares[list[p][i].file] : k = KeyOf(n, list[p][i].file)

\* A class that was linked: nothing on the list leads to the copy.
Copied(p, k) == k[1] \in Classes /\ k[2] = ByName /\ tab[p][k].clone

\* Every other entry points to an item of a script on the list that declares it.
Origins ==
    \A p \in Proc : \A k \in Key : tab[p][k] = NoEntry \/ Copied(p, k) \/ FromScript(p, k)

\* Loads are numbered in their process: one to come is nowhere yet.
Made(id) == id[2] <= calls[id[1]]
Numbered ==
    /\ \A p \in Proc : /\ \A i \in DOMAIN list[p] : Made(list[p][i].load)
                       /\ \A i \in DOMAIN cursor[p] : Made(cursor[p][i])
                       /\ \A k \in Key : tab[p][k] # NoEntry => Made(tab[p][k].load)
    /\ \A h \in Proc \cup {Shared} : \A id \in Load : cache[h][id] # NoCache => Made(id)

\* With scripts in private memory each script's cache is on the heap of its process.
OwnCaches ==
    \A p \in Proc : \A i \in DOMAIN list[p] :
        /\ list[p][i].shm = FALSE
        /\ cache[p][list[p][i].load] \in live[p] \cup {NoCache}

-------------------------------------------------------------------------------
\* The parts of a node, of a load, of a cache and of a key.
LEMMA NodeParts ==
    /\ \A d \in Node : /\ d.load \in Load /\ d.file \in Files /\ d.shm \in BOOLEAN
                       /\ d.executed \in BOOLEAN /\ d.boot \in 0 .. MaxBoots
    /\ \A id \in Load : id[1] \in Proc /\ id[2] \in 1 .. MaxCalls
    /\ NoLoad \notin Load
BY DEF Node, Load, NoLoad

LEMMA CacheParts == NoCache \notin Cache
BY NodeParts DEF NoCache, Cache

LEMMA KeyParts ==
    /\ \A k \in Classes \X Files : k \in Key /\ k[1] \in Classes /\ k[2] \in Files
    /\ \A n \in Names : <<n, ByName>> \in Key
    /\ \A n \in Names : \A f \in Files : KeyOf(n, f) \in Key
    /\ \A n \in Classes : \A f \in Files : KeyOf(n, f) = <<n, f>>
    /\ \A n \in Funcs \cup Consts : \A f \in Files : KeyOf(n, f) = <<n, ByName>>
BY NameAssumption DEF Key, KeyOf, Names

\* What has the name of a class as key was not registered under it.
LEMMA NameKeys ==
    /\ \A n \in Classes, m \in Names : \A f \in Files : <<n, ByName>> # KeyOf(m, f)
    /\ \A n \in Funcs \cup Consts, m \in Names : \A f \in Files :
          <<n, ByName>> = KeyOf(m, f) <=> n = m
    /\ \A n \in Classes, m \in Names : \A f, g \in Files :
          <<n, f>> = KeyOf(m, g) <=> n = m /\ f = g
BY NameAssumption DEF KeyOf, Names

LEMMA DeclaredNames == \A f \in Files : Declares[f] \subseteq Names
BY NameAssumption

LEMMA EntryParts ==
    /\ \A id \in Load : Item(id) \in Entry /\ Clone(id) \in Entry
    /\ \A id : Item(id).load = id /\ Clone(id).load = id
    /\ \A id \in Load : Item(id) # NoEntry /\ Clone(id) # NoEntry
    /\ \A id : Item(id).clone = FALSE /\ Clone(id).clone = TRUE
    /\ \A e \in Entry : e.load \in Load
    /\ NoEntry.load = NoLoad /\ NoEntry.clone = FALSE
BY NodeParts DEF Entry, Item, Clone, NoEntry

LEMMA FcnIsSeq ==
    ASSUME NEW S, NEW n \in Nat, NEW f \in [1 .. n -> S]
    PROVE  f \in Seq(S) /\ Len(f) = n
OBVIOUS

LEMMA NodeLoads ==
    ASSUME DataOK, NEW p \in Proc, NEW i \in DOMAIN list[p]
    PROVE  /\ list[p][i] \in Node /\ list[p][i].load \in Load /\ list[p][i].file \in Files
           /\ list[p][i].boot \in 0 .. MaxBoots
<1>1. list[p] \in Seq(Node)
    BY DEF DataOK
<1> QED
    BY <1>1, NodeParts

\* What a load, a boot and the end of a script's code do to the list.
LEMMA KeptList ==
    ASSUME DataOK, NEW p \in Proc, NEW d \in Node, KeepMemory(p, d)
    PROVE  /\ list' \in [Proc -> Seq(Node)]
           /\ Len(list'[p]) = Len(list[p]) + 1 /\ list'[p][1] = d
           /\ \A i \in 1 .. Len(list[p]) : list'[p][i + 1] = list[p][i]
           /\ \A q \in Proc \ {p} : list'[q] = list[q]
<1>1. list[p] \in Seq(Node) /\ <<d>> \in Seq(Node) /\ Len(<<d>>) = 1
    BY DEF DataOK
<1>2. /\ <<d>> \o list[p] \in Seq(Node)
      /\ Len(<<d>> \o list[p]) = Len(list[p]) + 1
      /\ (<<d>> \o list[p])[1] = d
      /\ \A i \in 1 .. Len(list[p]) : (<<d>> \o list[p])[i + 1] = list[p][i]
    BY <1>1
<1>3. list'[p] = <<d>> \o list[p]
    BY DEF KeepMemory, DataOK
<1> QED
    BY <1>2, <1>3 DEF KeepMemory, DataOK

LEMMA LoadedNode ==
    ASSUME DataOK, NEW p \in Proc, NEW f \in Files, LoadFile(p, f)
    PROVE  \E d \in Node : /\ KeepMemory(p, d)
                           /\ d.load = <<p, calls[p] + 1>> /\ d.file = f /\ d.shm \in Placement
                           /\ d.executed = FALSE /\ d.boot = 0
<1>1. PICK shm \in Placement :
         KeepMemory(p, [load |-> <<p, calls[p] + 1>>, file |-> f, shm |-> shm,
                        executed |-> FALSE, boot |-> 0])
    BY DEF LoadFile
<1>2. <<p, calls[p] + 1>> \in Load
    BY BoundAssumption DEF LoadFile, Call, DataOK, Load
<1>3. shm \in BOOLEAN /\ 0 \in 0 .. MaxBoots
    BY NameAssumption, BoundAssumption
<1>4. [load |-> <<p, calls[p] + 1>>, file |-> f, shm |-> shm,
       executed |-> FALSE, boot |-> 0] \in Node
    BY <1>2, <1>3, Zenon DEF Node
<1> QED
    BY <1>1, <1>4

\* What Marked and Booted leave alone.
SameNode(d, e) == e.load = d.load /\ e.file = d.file /\ e.shm = d.shm

LEMMA MarkedList ==
    ASSUME DataOK, NEW p \in Proc, NEW ids, MarkExecuted(p, ids)
    PROVE  /\ list' \in [Proc -> Seq(Node)]
           /\ Len(list'[p]) = Len(list[p])
           /\ \A i \in 1 .. Len(list[p]) :
                 /\ SameNode(list[p][i], list'[p][i]) /\ list'[p][i].boot = list[p][i].boot
                 /\ list'[p][i].executed <=> list[p][i].executed \/ list[p][i].load \in ids
           /\ \A q \in Proc \ {p} : list'[q] = list[q]
<1>1. list[p] \in Seq(Node)
    BY DEF DataOK
<1>2. ASSUME NEW d \in Node
      PROVE  /\ Marked(d, ids) \in Node /\ SameNode(d, Marked(d, ids))
             /\ Marked(d, ids).boot = d.boot
             /\ Marked(d, ids).executed <=> d.executed \/ d.load \in ids
    <2>1. (d.executed \/ d.load \in ids) \in BOOLEAN
        BY Zenon
    <2> QED
        BY <2>1 DEF Node, Marked, SameNode
<1>3. list'[p] = [i \in 1 .. Len(list[p]) |-> Marked(list[p][i], ids)]
    BY <1>1 DEF MarkExecuted, DataOK
<1>4. [i \in 1 .. Len(list[p]) |-> Marked(list[p][i], ids)] \in [1 .. Len(list[p]) -> Node]
    BY <1>1, <1>2
<1> QED
    BY <1>1, <1>2, <1>3, <1>4, FcnIsSeq DEF MarkExecuted, DataOK

LEMMA BootedList ==
    ASSUME DataOK, NEW p \in Proc, BootStart(p)
    PROVE  /\ list' \in [Proc -> Seq(Node)]
           /\ Len(list'[p]) = Len(list[p])
           /\ \A i \in 1 .. Len(list[p]) :
                 /\ SameNode(list[p][i], list'[p][i])
                 /\ list'[p][i].boot = IF list[p][i].boot = 0 THEN boots[p] + 1
                                                              ELSE list[p][i].boot
                 /\ list'[p][i].executed = list[p][i].executed
           /\ \A q \in Proc \ {p} : list'[q] = list[q]
<1>1. list[p] \in Seq(Node)
    BY DEF DataOK
<1>2. boots[p] + 1 \in 0 .. MaxBoots
    BY BoundAssumption DEF DataOK, BootStart
<1>3. ASSUME NEW d \in Node
      PROVE  /\ Booted(d, boots[p] + 1) \in Node /\ SameNode(d, Booted(d, boots[p] + 1))
             /\ Booted(d, boots[p] + 1).boot = IF d.boot = 0 THEN boots[p] + 1 ELSE d.boot
             /\ Booted(d, boots[p] + 1).executed = d.executed
    BY <1>2 DEF Node, Booted, SameNode
<1>4. list'[p] = [i \in 1 .. Len(list[p]) |-> Booted(list[p][i], boots[p] + 1)]
    BY <1>1 DEF BootStart, DataOK
<1>5. [i \in 1 .. Len(list[p]) |-> Booted(list[p][i], boots[p] + 1)] \in [1 .. Len(list[p]) -> Node]
    BY <1>1, <1>3
<1> QED
    BY <1>1, <1>3, <1>4, <1>5, FcnIsSeq DEF BootStart, DataOK

\* The scripts loaded first and last of some that are on the list.
LEMMA EarliestIsIn ==
    ASSUME DataOK, NEW p \in Proc, NEW at \in SUBSET DOMAIN list[p], at # {}
    PROVE  /\ EarliestIn(at) \in at /\ \A j \in at : j <= EarliestIn(at)
           /\ LatestIn(at) \in at /\ \A j \in at : LatestIn(at) <= j
<1>1. Len(list[p]) \in Nat /\ DOMAIN list[p] = 1 .. Len(list[p])
    BY DEF DataOK
<1>2. at \in SUBSET (0 .. Len(list[p]))
    BY <1>1
<1>3. /\ \E i \in at : \A j \in at : j <= i
      /\ \E i \in at : \A j \in at : i <= j
    BY <1>1, <1>2, LargestExists, SmallestExists
<1> QED
    BY <1>3 DEF EarliestIn, LatestIn

\* The scripts that have an item with a key.
LEMMA HavingParts ==
    ASSUME DataOK, NEW p \in Proc
    PROVE  /\ \A k \in Key : Having(p, k) \in SUBSET DOMAIN list[p]
           /\ \A n \in Funcs \cup Consts : Having(p, <<n, ByName>>) = Declaring(p, n)
           /\ \A n \in Classes : Having(p, <<n, ByName>>) = {}
           /\ \A n \in Classes : \A f \in Files :
                 Having(p, <<n, f>>) = {i \in Declaring(p, n) : list[p][i].file = f}
<1>1. \A k \in Key : Having(p, k) \in SUBSET DOMAIN list[p]
    BY DEF Having
<1>2. ASSUME NEW n \in Funcs \cup Consts PROVE Having(p, <<n, ByName>>) = Declaring(p, n)
    <2>1. ASSUME NEW i \in DOMAIN list[p]
          PROVE  (\E m \in Declares[list[p][i].file] : <<n, ByName>> = KeyOf(m, list[p][i].file))
                    <=> n \in Declares[list[p][i].file]
        BY NodeLoads, NameKeys, DeclaredNames
    <2> QED
        BY <2>1 DEF Having, Declaring
<1>3. ASSUME NEW n \in Classes PROVE Having(p, <<n, ByName>>) = {}
    <2>1. ASSUME NEW i \in DOMAIN list[p], NEW m \in Declares[list[p][i].file]
          PROVE  <<n, ByName>> # KeyOf(m, list[p][i].file)
        BY NodeLoads, NameKeys, DeclaredNames
    <2> QED
        BY <2>1 DEF Having
<1>4. ASSUME NEW n \in Classes, NEW f \in Files
      PROVE  Having(p, <<n, f>>) = {i \in Declaring(p, n) : list[p][i].file = f}
    <2>1. ASSUME NEW i \in DOMAIN list[p]
          PROVE  (\E m \in Declares[list[p][i].file] : <<n, f>> = KeyOf(m, list[p][i].file))
                    <=> n \in Declares[list[p][i].file] /\ list[p][i].file = f
        BY NodeLoads, NameKeys, DeclaredNames
    <2> QED
        BY <2>1 DEF Having, Declaring
<1> QED
    BY <1>1, <1>2, <1>3, <1>4

ControlOK ==
    /\ pc \in [Proc -> {"unborn", "idle", "link", "boot", "code", "main", "dead"}]
    /\ calls \in [Proc -> 0 .. MaxCalls]
    /\ boots \in [Proc -> 0 .. MaxBoots]

\* Where a process is, and how many calls it has made.
LEMMA ControlStep == DataOK /\ [Next]_vars => ControlOK'
<1> SUFFICES ASSUME DataOK, [Next]_vars PROVE ControlOK'
    OBVIOUS
<1> USE BoundAssumption DEF ControlOK, DataOK
<1>1. ASSUME NEW p \in Proc, NEW f \in Files, LoadFile(p, f) PROVE ControlOK'
    BY <1>1 DEF LoadFile, Call
<1>2. ASSUME NEW p \in Proc, BootStart(p) PROVE ControlOK'
    BY <1>2 DEF BootStart, Call, Goto
<1>3. ASSUME NEW p \in Proc, RunScript(p) PROVE ControlOK'
    BY <1>3 DEF RunScript, Goto
<1>4. ASSUME NEW p \in Proc, ScriptDone(p) PROVE ControlOK'
    BY <1>4 DEF ScriptDone, Goto
<1>5. ASSUME NEW p \in Proc, ScriptThrows(p) PROVE ControlOK'
    BY <1>5 DEF ScriptThrows, Goto
<1>6. ASSUME NEW p \in Proc, EnterMain(p) PROVE ControlOK'
    BY <1>6 DEF EnterMain, Goto
<1>7. ASSUME NEW p \in Proc, MainDone(p) PROVE ControlOK'
    BY <1>7 DEF MainDone, Goto
<1>8. ASSUME NEW p \in Proc, ShmReset(p) PROVE ControlOK'
    BY <1>8 DEF ShmReset, Call
<1>9. ASSUME NEW p \in Proc, CompileFile(p) PROVE ControlOK'
    BY <1>9 DEF CompileFile, Call
<1>10. ASSUME NEW p \in Proc, EndRequest(p) PROVE ControlOK'
    BY <1>10 DEF EndRequest, Goto
<1>11. ASSUME NEW p \in Proc, Exit(p) PROVE ControlOK'
    BY <1>11 DEF Exit, Goto
<1>12. ASSUME NEW p \in Proc, NEW c \in Proc, Fork(p, c) PROVE ControlOK'
    BY <1>12 DEF Fork, Goto
<1>13. ASSUME NEW p \in Proc, LinkClass(p) PROVE ControlOK'
    BY <1>13 DEF LinkClass
<1>14. ASSUME NEW p \in Proc, LinkDone(p) PROVE ControlOK'
    BY <1>14 DEF LinkDone, Goto
<1>15. CASE UNCHANGED vars
    BY <1>15 DEF vars
<1> QED
    BY <1>1, <1>2, <1>3, <1>4, <1>5, <1>6, <1>7, <1>8, <1>9, <1>10, <1>11, <1>12, <1>13, <1>14, <1>15 DEF Next, OpkitLoad

ListOK == list \in [Proc -> Seq(Node)]

\* The list.
LEMMA ListStep == DataOK /\ [Next]_vars => ListOK'
<1> SUFFICES ASSUME DataOK, [Next]_vars PROVE ListOK'
    OBVIOUS
<1> USE DEF ListOK
<1>1. ASSUME NEW p \in Proc, NEW f \in Files, LoadFile(p, f) PROVE ListOK'
    BY <1>1, LoadedNode, KeptList
<1>2. ASSUME NEW p \in Proc, BootStart(p) PROVE ListOK'
    BY <1>2, BootedList
<1>3. ASSUME NEW p \in Proc, RunScript(p) PROVE ListOK'
    BY <1>3 DEF RunScript, DataOK
<1>4. ASSUME NEW p \in Proc, ScriptDone(p) PROVE ListOK'
    BY <1>4, MarkedList DEF ScriptDone
<1>5. ASSUME NEW p \in Proc, ScriptThrows(p) PROVE ListOK'
    BY <1>5, MarkedList DEF ScriptThrows
<1>6. ASSUME NEW p \in Proc, EnterMain(p) PROVE ListOK'
    BY <1>6 DEF EnterMain, DataOK
<1>7. ASSUME NEW p \in Proc, MainDone(p) PROVE ListOK'
    BY <1>7 DEF MainDone, DataOK
<1>8. ASSUME NEW p \in Proc, ShmReset(p) PROVE ListOK'
    BY <1>8 DEF ShmReset, ResetScript, DropList, DataOK
<1>9. ASSUME NEW p \in Proc, CompileFile(p) PROVE ListOK'
    BY <1>9 DEF CompileFile, ResetScript, DropList, DataOK
<1>10. ASSUME NEW p \in Proc, EndRequest(p) PROVE ListOK'
    BY <1>10 DEF EndRequest, DropList, DataOK
<1>11. ASSUME NEW p \in Proc, Exit(p) PROVE ListOK'
    BY <1>11 DEF Exit, DataOK
<1>12. ASSUME NEW p \in Proc, NEW c \in Proc, Fork(p, c) PROVE ListOK'
    BY <1>12 DEF Fork, DataOK
<1>13. ASSUME NEW p \in Proc, LinkClass(p) PROVE ListOK'
    BY <1>13 DEF LinkClass, DataOK
<1>14. ASSUME NEW p \in Proc, LinkDone(p) PROVE ListOK'
    BY <1>14 DEF LinkDone, DataOK
<1>15. CASE UNCHANGED vars
    BY <1>15 DEF vars, DataOK
<1> QED
    BY <1>1, <1>2, <1>3, <1>4, <1>5, <1>6, <1>7, <1>8, <1>9, <1>10, <1>11, <1>12, <1>13, <1>14, <1>15 DEF Next, OpkitLoad

\* Registering and linking keep the tables' type.
LEMMA RegisteredType ==
    ASSUME DataOK, NEW p \in Proc
    PROVE  Registered(p) \in [Key -> Entry \cup {NoEntry}]
<1> SUFFICES ASSUME NEW k \in Key PROVE Registered(p)[k] \in Entry \cup {NoEntry}
    BY DEF Registered
<1>1. CASE Having(p, k) # {}
    <2>1. EarliestIn(Having(p, k)) \in DOMAIN list[p]
        BY <1>1, HavingParts, EarliestIsIn
    <2> QED
        BY <1>1, <2>1, NodeLoads, EntryParts DEF Registered
<1>2. CASE Having(p, k) = {}
    BY <1>2 DEF Registered, DataOK
<1> QED
    BY <1>1, <1>2

\* What LinkClass does to the table, for the class that it links.
Links(p, k) ==
    /\ k \in Turn(p) /\ \A j \in Turn(p) : ~Precedes(place[p][j], place[p][k])
    /\ tab' = [tab EXCEPT ![p][k] = NoEntry, ![p][<<k[1], ByName>>] = Clone(tab[p][k].load)]
    /\ walk' = [walk EXCEPT ![p] = place[p][k]]

LEMMA LinkedOne ==
    ASSUME DataOK, NEW p \in Proc, LinkClass(p)
    PROVE  \E k \in Classes \X Files :
              /\ Links(p, k) /\ k \in Linkable(p) /\ k \in Key
              /\ tab[p][k] \in Entry /\ tab[p][k] # NoEntry
              /\ k[1] \in Classes /\ k[2] \in Files /\ k # <<k[1], ByName>>
              /\ tab' \in [Proc -> [Key -> Entry \cup {NoEntry}]]
              /\ tab'[p][k] = NoEntry /\ tab'[p][<<k[1], ByName>>] = Clone(tab[p][k].load)
              /\ \A j \in Key : j # k /\ j # <<k[1], ByName>> => tab'[p][j] = tab[p][j]
              /\ \A q \in Proc \ {p} : tab'[q] = tab[q]
<1>1. PICK k \in Turn(p) : Links(p, k)
    BY DEF LinkClass, Links
<1>2. k \in Linkable(p) /\ k \in Classes \X Files /\ tab[p][k] # NoEntry
    BY DEF Turn, Ahead, Linkable
<1>3. k \in Key /\ k[1] \in Classes /\ k[2] \in Files /\ <<k[1], ByName>> \in Key
    BY <1>2, KeyParts DEF Names
<1>4. k # <<k[1], ByName>>
    BY <1>3, NameAssumption
<1>5. tab[p][k] \in Entry
    BY <1>2, <1>3 DEF DataOK
<1>6. Clone(tab[p][k].load) \in Entry
    BY <1>5, EntryParts
<1> DEFINE new == Clone(tab[p][k].load)
           named == <<k[1], ByName>>
<1>7. tab' = [tab EXCEPT ![p][k] = NoEntry, ![p][named] = new]
    BY <1>1 DEF Links
<1> HIDE DEF new, named
<1>8. /\ tab' \in [Proc -> [Key -> Entry \cup {NoEntry}]]
      /\ tab'[p][k] = NoEntry /\ tab'[p][named] = new
      /\ \A j \in Key : j # k /\ j # named => tab'[p][j] = tab[p][j]
      /\ \A q \in Proc \ {p} : tab'[q] = tab[q]
    <2>1. tab \in [Proc -> [Key -> Entry \cup {NoEntry}]] /\ new \in Entry
        BY <1>6 DEF DataOK, new
    <2>2. k \in Key /\ named \in Key /\ k # named
        BY <1>3, <1>4 DEF named
    <2> QED
        BY <1>7, <2>1, <2>2
<1> QED
    BY <1>1, <1>2, <1>3, <1>4, <1>5, <1>8 DEF new, named

TabOK == tab \in [Proc -> [Key -> Entry \cup {NoEntry}]]

\* The symbol tables.
LEMMA TabStep == DataOK /\ [Next]_vars => TabOK'
<1> SUFFICES ASSUME DataOK, [Next]_vars PROVE TabOK'
    OBVIOUS
<1> USE DEF TabOK
<1>0. \A p \in Proc : Cleaned(p) \in [Key -> Entry \cup {NoEntry}]
    BY DEF Cleaned, DataOK
<1>1. ASSUME NEW p \in Proc, NEW f \in Files, LoadFile(p, f) PROVE TabOK'
    <2>1. <<p, calls[p] + 1>> \in Load
        BY <1>1, BoundAssumption DEF LoadFile, Call, DataOK, Load
    <2>2. RegisterConstants(p, <<p, calls[p] + 1>>, f)
        BY <1>1 DEF LoadFile
    <2> QED
        BY <2>1, <2>2, EntryParts DEF RegisterConstants, DataOK
<1>2. ASSUME NEW p \in Proc, BootStart(p) PROVE TabOK'
    BY <1>2, RegisteredType DEF BootStart, DataOK
<1>3. ASSUME NEW p \in Proc, RunScript(p) PROVE TabOK'
    BY <1>3 DEF RunScript, DataOK
<1>4. ASSUME NEW p \in Proc, ScriptDone(p) PROVE TabOK'
    BY <1>4 DEF ScriptDone, DataOK
<1>5. ASSUME NEW p \in Proc, ScriptThrows(p) PROVE TabOK'
    BY <1>5 DEF ScriptThrows, DataOK
<1>6. ASSUME NEW p \in Proc, EnterMain(p) PROVE TabOK'
    BY <1>6 DEF EnterMain, DataOK
<1>7. ASSUME NEW p \in Proc, MainDone(p) PROVE TabOK'
    BY <1>7 DEF MainDone, DataOK
<1>8. ASSUME NEW p \in Proc, ShmReset(p) PROVE TabOK'
    BY <1>0, <1>8 DEF ShmReset, ResetScript, DataOK
<1>9. ASSUME NEW p \in Proc, CompileFile(p) PROVE TabOK'
    BY <1>0, <1>9 DEF CompileFile, ResetScript, DataOK
<1>10. ASSUME NEW p \in Proc, EndRequest(p) PROVE TabOK'
    BY <1>10 DEF EndRequest, DataOK
<1>11. ASSUME NEW p \in Proc, Exit(p) PROVE TabOK'
    BY <1>11 DEF Exit, DataOK
<1>12. ASSUME NEW p \in Proc, NEW c \in Proc, Fork(p, c) PROVE TabOK'
    BY <1>12 DEF Fork, DataOK
<1>13. ASSUME NEW p \in Proc, LinkClass(p) PROVE TabOK'
    BY <1>13, LinkedOne
<1>14. ASSUME NEW p \in Proc, LinkDone(p) PROVE TabOK'
    BY <1>14 DEF LinkDone, DataOK
<1>15. CASE UNCHANGED vars
    BY <1>15 DEF vars, DataOK
<1> QED
    BY <1>1, <1>2, <1>3, <1>4, <1>5, <1>6, <1>7, <1>8, <1>9, <1>10, <1>11, <1>12, <1>13, <1>14, <1>15 DEF Next, OpkitLoad

PlaceOK ==
    /\ place \in [Proc -> [Classes \X Files -> Place]]
    /\ walk \in [Proc -> Place]

LEMMA PlacedType ==
    ASSUME DataOK, NEW p \in Proc, BootStart(p)
    PROVE  Placed(p) \in [Classes \X Files -> Place]
<1> SUFFICES ASSUME NEW k \in Classes \X Files PROVE Placed(p)[k] \in Place
    BY DEF Placed
<1>1. CASE Having(p, k) # {} /\ tab[p][k] = NoEntry
    <2>1. LatestIn(Having(p, k)) \in DOMAIN list[p]
        BY <1>1, KeyParts, HavingParts, EarliestIsIn
    <2>2. LatestIn(Having(p, k)) \in Nat
        BY <2>1 DEF DataOK
    <2>3. boots[p] + 1 \in 0 .. MaxBoots
        BY BoundAssumption DEF DataOK, BootStart
    <2>4. Line[k[1]] \in Nat
        BY KeyParts, NameAssumption
    <2> QED
        BY <1>1, <2>2, <2>3, <2>4 DEF Placed, Place
<1>2. CASE ~(Having(p, k) # {} /\ tab[p][k] = NoEntry)
    BY <1>2 DEF Placed, DataOK
<1> QED
    BY <1>1, <1>2

LEMMA BeginningIsPlace == Beginning \in Place
BY BoundAssumption DEF Beginning, Place

\* Where classes are in the table, and how far linking has come.
LEMMA PlaceStep == DataOK /\ [Next]_vars => PlaceOK'
<1> SUFFICES ASSUME DataOK, [Next]_vars PROVE PlaceOK'
    OBVIOUS
<1> USE DEF PlaceOK, classes
<1>1. ASSUME NEW p \in Proc, NEW f \in Files, LoadFile(p, f) PROVE PlaceOK'
    BY <1>1 DEF LoadFile, DataOK
<1>2. ASSUME NEW p \in Proc, BootStart(p) PROVE PlaceOK'
    BY <1>2, PlacedType, BeginningIsPlace DEF BootStart, DataOK
<1>3. ASSUME NEW p \in Proc, RunScript(p) PROVE PlaceOK'
    BY <1>3 DEF RunScript, DataOK
<1>4. ASSUME NEW p \in Proc, ScriptDone(p) PROVE PlaceOK'
    BY <1>4 DEF ScriptDone, DataOK
<1>5. ASSUME NEW p \in Proc, ScriptThrows(p) PROVE PlaceOK'
    BY <1>5 DEF ScriptThrows, DataOK
<1>6. ASSUME NEW p \in Proc, EnterMain(p) PROVE PlaceOK'
    BY <1>6 DEF EnterMain, DataOK
<1>7. ASSUME NEW p \in Proc, MainDone(p) PROVE PlaceOK'
    BY <1>7 DEF MainDone, DataOK
<1>8. ASSUME NEW p \in Proc, ShmReset(p) PROVE PlaceOK'
    BY <1>8 DEF ShmReset, DataOK
<1>9. ASSUME NEW p \in Proc, CompileFile(p) PROVE PlaceOK'
    BY <1>9 DEF CompileFile, DataOK
<1>10. ASSUME NEW p \in Proc, EndRequest(p) PROVE PlaceOK'
    BY <1>10 DEF EndRequest, DataOK
<1>11. ASSUME NEW p \in Proc, Exit(p) PROVE PlaceOK'
    BY <1>11 DEF Exit, DataOK
<1>12. ASSUME NEW p \in Proc, NEW c \in Proc, Fork(p, c) PROVE PlaceOK'
    BY <1>12 DEF Fork, DataOK
<1>13. ASSUME NEW p \in Proc, LinkClass(p) PROVE PlaceOK'
    <2>1. PICK k \in Classes \X Files : Links(p, k)
        BY <1>13, LinkedOne
    <2>2. place' = place
        BY <1>13 DEF LinkClass
    <2>3. walk' = [walk EXCEPT ![p] = place[p][k]]
        BY <2>1 DEF Links
    <2> QED
        BY <2>2, <2>3 DEF DataOK
<1>14. ASSUME NEW p \in Proc, LinkDone(p) PROVE PlaceOK'
    BY <1>14 DEF LinkDone, DataOK
<1>15. CASE UNCHANGED vars
    BY <1>15 DEF vars, DataOK
<1> QED
    BY <1>1, <1>2, <1>3, <1>4, <1>5, <1>6, <1>7, <1>8, <1>9, <1>10, <1>11, <1>12, <1>13, <1>14, <1>15 DEF Next, OpkitLoad

RunOK ==
    /\ cursor \in [Proc -> Seq(Load)]
    /\ entry \in [Proc -> Load \cup {NoLoad}]
    /\ \A p \in Proc : /\ cursor[p] # <<>> => pc[p] \in {"link", "boot", "code"}
                       /\ entry[p] # NoLoad => pc[p] \in {"link", "boot", "code", "main"}
                       /\ pc[p] = "code" => cursor[p] # <<>>

LEMMA MainIsLoad ==
    ASSUME DataOK, NEW p \in Proc
    PROVE  MainOf(tab[p]) \in Load \cup {NoLoad}
<1>1. "main" \in Funcs => <<"main", ByName>> \in Key
    BY KeyParts DEF Names
<1> QED
    BY <1>1, EntryParts DEF MainOf, DataOK

\* What a boot has still to execute, and its entry function.
LEMMA RunStep == DataOK /\ [Next]_vars => RunOK'
<1> SUFFICES ASSUME DataOK, [Next]_vars PROVE RunOK'
    OBVIOUS
<1> USE DEF RunOK
<1>1. ASSUME NEW p \in Proc, NEW f \in Files, LoadFile(p, f) PROVE RunOK'
    BY <1>1 DEF LoadFile, Call, DataOK
<1>2. ASSUME NEW p \in Proc, BootStart(p) PROVE RunOK'
    <2>1. list[p] \in Seq(Node) /\ \A i \in 1 .. Len(list[p]) : list[p][i].load \in Load
        BY NodeParts DEF DataOK
    <2>2. [i \in DOMAIN list[p] |-> list[p][i].load] \in Seq(Load)
        BY <2>1
    <2> QED
        BY <1>2, <2>2, MainIsLoad DEF BootStart, Goto, DataOK
<1>3. ASSUME NEW p \in Proc, RunScript(p) PROVE RunOK'
    BY <1>3 DEF RunScript, Goto, DataOK
<1>4. ASSUME NEW p \in Proc, ScriptDone(p) PROVE RunOK'
    <2>1. cursor[p] \in Seq(Load) /\ cursor[p] # <<>>
        BY <1>4 DEF ScriptDone, DataOK
    <2>2. Tail(cursor[p]) \in Seq(Load)
        BY <2>1
    <2> QED
        BY <1>4, <2>2 DEF ScriptDone, Goto, DataOK
<1>5. ASSUME NEW p \in Proc, ScriptThrows(p) PROVE RunOK'
    BY <1>5 DEF ScriptThrows, Goto, Unwound, DataOK
<1>6. ASSUME NEW p \in Proc, EnterMain(p) PROVE RunOK'
    BY <1>6, MainIsLoad DEF EnterMain, Goto, DataOK
<1>7. ASSUME NEW p \in Proc, MainDone(p) PROVE RunOK'
    BY <1>7 DEF MainDone, Goto, Unwound, DataOK
<1>8. ASSUME NEW p \in Proc, ShmReset(p) PROVE RunOK'
    BY <1>8 DEF ShmReset, DataOK
<1>9. ASSUME NEW p \in Proc, CompileFile(p) PROVE RunOK'
    BY <1>9 DEF CompileFile, DataOK
<1>10. ASSUME NEW p \in Proc, EndRequest(p) PROVE RunOK'
    BY <1>10 DEF EndRequest, Goto, Unwound, DataOK
<1>11. ASSUME NEW p \in Proc, Exit(p) PROVE RunOK'
    BY <1>11 DEF Exit, Goto, Unwound, DataOK
<1>12. ASSUME NEW p \in Proc, NEW c \in Proc, Fork(p, c) PROVE RunOK'
    BY <1>12 DEF Fork, Goto, DataOK
<1>13. ASSUME NEW p \in Proc, LinkClass(p) PROVE RunOK'
    BY <1>13 DEF LinkClass, DataOK
<1>14. ASSUME NEW p \in Proc, LinkDone(p) PROVE RunOK'
    BY <1>14 DEF LinkDone, Goto, DataOK
<1>15. CASE UNCHANGED vars
    BY <1>15 DEF vars, DataOK
<1> QED
    BY <1>1, <1>2, <1>3, <1>4, <1>5, <1>6, <1>7, <1>8, <1>9, <1>10, <1>11, <1>12, <1>13, <1>14, <1>15 DEF Next, OpkitLoad

HeapOK ==
    /\ cache \in [Proc \cup {Shared} -> [Load -> Cache \cup {NoCache}]]
    /\ live \in [Proc -> SUBSET Cache]

\* The first execution of a script allocates its cache.
LEMMA RunCache ==
    ASSUME DataOK, NEW p \in Proc, RunScript(p)
    PROVE  \E home \in {p, Shared}, id \in Load, new \in Cache :
              /\ id = Head(cursor[p]) /\ home = Home(p, NodeOf(p, id)) /\ new[3] = id
              /\ IF cache[home][id] = NoCache
                   THEN /\ cache' = [cache EXCEPT ![home][id] = new]
                        /\ live' = [live EXCEPT ![p] = @ \cup {new}]
                   ELSE UNCHANGED <<cache, live>>
<1> DEFINE id == Head(cursor[p])
           home == Home(p, NodeOf(p, id))
           new == <<p, calls[p], id>>
<1>1. id \in Load
    BY DEF RunScript, DataOK
<1>2. new \in Cache /\ new[3] = id
    <2> HIDE DEF id
    <2> QED
        BY <1>1 DEF DataOK, Cache
<1>3. home \in {p, Shared}
    BY Zenon DEF Home
<1>4. IF cache[home][id] = NoCache
        THEN /\ cache' = [cache EXCEPT ![home][id] = new]
             /\ live' = [live EXCEPT ![p] = @ \cup {new}]
        ELSE UNCHANGED <<cache, live>>
    BY DEF RunScript
<1> HIDE DEF id, home, new
<1>5. id = Head(cursor[p]) /\ home = Home(p, NodeOf(p, id))
    BY DEF id, home
<1> QED
    BY <1>1, <1>2, <1>3, <1>4, <1>5

\* The run-time caches.
LEMMA HeapStep == DataOK /\ [Next]_vars => HeapOK'
<1> SUFFICES ASSUME DataOK, [Next]_vars PROVE HeapOK'
    OBVIOUS
<1> USE DEF HeapOK
<1>1. ASSUME NEW p \in Proc, NEW f \in Files, LoadFile(p, f) PROVE HeapOK'
    BY <1>1 DEF LoadFile, DataOK
<1>2. ASSUME NEW p \in Proc, BootStart(p) PROVE HeapOK'
    BY <1>2 DEF BootStart, DataOK
<1>3. ASSUME NEW p \in Proc, RunScript(p) PROVE HeapOK'
    <2>1. PICK home \in {p, Shared}, id \in Load, new \in Cache :
              \/ UNCHANGED <<cache, live>>
              \/ /\ cache' = [cache EXCEPT ![home][id] = new]
                 /\ live' = [live EXCEPT ![p] = @ \cup {new}]
        BY <1>3, RunCache
    <2>2. /\ cache \in [Proc \cup {Shared} -> [Load -> Cache \cup {NoCache}]]
          /\ live \in [Proc -> SUBSET Cache]
        BY DEF DataOK
    <2>3. home \in Proc \cup {Shared}
        BY <2>1
    <2>4. CASE /\ cache' = [cache EXCEPT ![home][id] = new]
               /\ live' = [live EXCEPT ![p] = @ \cup {new}]
        <3>1. cache' \in [Proc \cup {Shared} -> [Load -> Cache \cup {NoCache}]]
            BY <2>2, <2>3, <2>4
        <3>2. live' \in [Proc -> SUBSET Cache]
            BY <2>2, <2>4
        <3> QED
            BY <3>1, <3>2
    <2> QED
        BY <2>1, <2>2, <2>4
<1>4. ASSUME NEW p \in Proc, ScriptDone(p) PROVE HeapOK'
    BY <1>4 DEF ScriptDone, DataOK
<1>5. ASSUME NEW p \in Proc, ScriptThrows(p) PROVE HeapOK'
    BY <1>5 DEF ScriptThrows, DataOK
<1>6. ASSUME NEW p \in Proc, EnterMain(p) PROVE HeapOK'
    BY <1>6 DEF EnterMain, DataOK
<1>7. ASSUME NEW p \in Proc, MainDone(p) PROVE HeapOK'
    BY <1>7 DEF MainDone, DataOK
<1>8. ASSUME NEW p \in Proc, ShmReset(p) PROVE HeapOK'
    BY <1>8 DEF ShmReset, ResetScript, DropList, DataOK
<1>9. ASSUME NEW p \in Proc, CompileFile(p) PROVE HeapOK'
    BY <1>9 DEF CompileFile, ResetScript, DropList, DataOK
<1>10. ASSUME NEW p \in Proc, EndRequest(p) PROVE HeapOK'
    BY <1>10 DEF EndRequest, DropList, DataOK
<1>11. ASSUME NEW p \in Proc, Exit(p) PROVE HeapOK'
    BY <1>11 DEF Exit, DataOK
<1>12. ASSUME NEW p \in Proc, NEW c \in Proc, Fork(p, c) PROVE HeapOK'
    BY <1>12 DEF Fork, InheritHeap, DataOK
<1>13. ASSUME NEW p \in Proc, LinkClass(p) PROVE HeapOK'
    BY <1>13 DEF LinkClass, DataOK
<1>14. ASSUME NEW p \in Proc, LinkDone(p) PROVE HeapOK'
    BY <1>14 DEF LinkDone, DataOK
<1>15. CASE UNCHANGED vars
    BY <1>15 DEF vars, DataOK
<1> QED
    BY <1>1, <1>2, <1>3, <1>4, <1>5, <1>6, <1>7, <1>8, <1>9, <1>10, <1>11, <1>12, <1>13, <1>14, <1>15 DEF Next, OpkitLoad

LEMMA DataStep == DataOK /\ [Next]_vars => DataOK'
BY ControlStep, ListStep, TabStep, PlaceStep, RunStep, HeapStep
   DEF DataOK, ControlOK, ListOK, TabOK, PlaceOK, RunOK, HeapOK

LEMMA InitData == Init => DataOK
<1> SUFFICES ASSUME Init PROVE DataOK
    OBVIOUS
<1>1. ControlOK /\ ListOK /\ TabOK /\ PlaceOK
    BY BoundAssumption, ProcAssumption, BeginningIsPlace
       DEF Init, ControlOK, ListOK, TabOK, PlaceOK
<1>2. RunOK /\ HeapOK
    BY DEF Init, RunOK, HeapOK
<1> QED
    BY <1>1, <1>2 DEF DataOK, ControlOK, ListOK, TabOK, PlaceOK, RunOK, HeapOK

LEMMA DataType == DataOK => TypeOK
<1> SUFFICES ASSUME DataOK PROVE TypeOK
    OBVIOUS
<1>1. \A p \in Proc : list[p] \in Seq(Node) /\ cursor[p] \in Seq(Load)
    BY DEF DataOK
<1>2. \A p \in Proc : /\ \A i \in DOMAIN list[p] : list[p][i] \in Node
                      /\ \A i \in DOMAIN cursor[p] : cursor[p][i] \in Load
    <2>1. /\ \A s \in Seq(Node) : \A i \in DOMAIN s : s[i] \in Node
          /\ \A s \in Seq(Load) : \A i \in DOMAIN s : s[i] \in Load
        OBVIOUS
    <2> QED
        BY <1>1, <2>1, Zenon
<1> QED
    BY <1>2, Zenon DEF DataOK, TypeOK

\* The run-time part of opkit: every variable keeps its type, whatever is loaded,
\* booted, reset, forked or killed when, and no boot that is over, thrown out of or cut
\* off by a fatal error leaves scripts to execute or an entry function behind.
THEOREM TypeCorrect == Spec => []TypeOK
<1>1. DataOK /\ [Next]_vars => DataOK'
    BY DataStep
<1> QED
    BY <1>1, InitData, DataType, PTL DEF Spec

-------------------------------------------------------------------------------
\* What a step can do to the list and the tables of a process.

\* Nothing has changed on q's list but that scripts were executed, nothing in its tables.
SameLoads(q) ==
    /\ DOMAIN list'[q] = DOMAIN list[q]
    /\ \A i \in DOMAIN list[q] : SameNode(list[q][i], list'[q][i])

Unmoved(q) ==
    /\ SameLoads(q)
    /\ \A i \in DOMAIN list[q] : list'[q][i].boot = list[q][i].boot
    /\ tab'[q] = tab[q] /\ place'[q] = place[q] /\ walk'[q] = walk[q] /\ boots'[q] = boots[q]

Quiet(q) == Unmoved(q) /\ (pc'[q] = "link" <=> pc[q] = "link")

\* All scripts go, and what the tables have of them.
Empties(q) ==
    /\ list'[q] = <<>> /\ pc'[q] # "link"
    /\ \/ tab'[q] = Cleaned(q)
       \/ tab'[q] = [k \in Key |-> NoEntry]

\* q is a copy of p.
Copies(p, q) ==
    /\ pc'[q] = pc[p] /\ pc[p] # "link"
    /\ list'[q] = list[p] /\ tab'[q] = tab[p] /\ boots'[q] = boots[p]

LEMMA SameUnmoved ==
    ASSUME NEW q \in Proc, list'[q] = list[q], tab'[q] = tab[q], place'[q] = place[q],
           walk'[q] = walk[q], boots'[q] = boots[q]
    PROVE  Unmoved(q)
BY DEF Unmoved, SameLoads, SameNode

LEMMA MarkedLoads ==
    ASSUME DataOK, NEW p \in Proc, NEW ids, MarkExecuted(p, ids), NEW q \in Proc,
           UNCHANGED <<tab, classes, boots>>
    PROVE  Unmoved(q)
<1>1. /\ list' \in [Proc -> Seq(Node)] /\ list \in [Proc -> Seq(Node)]
      /\ Len(list'[p]) = Len(list[p])
      /\ \A i \in 1 .. Len(list[p]) :
            /\ SameNode(list[p][i], list'[p][i]) /\ list'[p][i].boot = list[p][i].boot
      /\ \A r \in Proc \ {p} : list'[r] = list[r]
    BY MarkedList DEF DataOK
<1>2. DOMAIN list[p] = 1 .. Len(list[p]) /\ DOMAIN list'[p] = 1 .. Len(list[p])
    BY <1>1
<1>3. UNCHANGED <<tab, place, walk, boots>>
    BY DEF classes
<1>4. CASE q = p
    BY <1>1, <1>2, <1>3, <1>4 DEF Unmoved, SameLoads
<1>5. CASE q # p
    BY <1>1, <1>3, <1>5, SameUnmoved
<1> QED
    BY <1>4, <1>5

LEMMA StepKinds ==
    ASSUME DataOK, [Next]_vars, NEW q \in Proc
    PROVE  \/ Quiet(q)
           \/ \E f \in Files : LoadFile(q, f)
           \/ BootStart(q)
           \/ LinkClass(q)
           \/ LinkDone(q) /\ Unmoved(q)
           \/ Empties(q)
           \/ \E p \in Proc : Copies(p, q)
<1>0. ASSUME NEW p \in Proc, UNCHANGED <<list, tab, classes, boots>>,
             \A r \in Proc : pc'[r] = "link" <=> pc[r] = "link"
      PROVE  Quiet(q)
    BY <1>0, SameUnmoved DEF Quiet, classes
<1>1. ASSUME NEW p \in Proc, NEW f \in Files, LoadFile(p, f), p # q PROVE Quiet(q)
    <2>1. /\ list'[q] = list[q] /\ tab'[q] = tab[q] /\ UNCHANGED <<pc, boots, place, walk>>
        BY <1>1, LoadedNode DEF LoadFile, KeepMemory, RegisterConstants, classes, DataOK
    <2> QED
        BY <2>1, SameUnmoved DEF Quiet
<1>2. ASSUME NEW p \in Proc, BootStart(p), p # q PROVE Quiet(q)
    <2>1. /\ list'[q] = list[q] /\ tab'[q] = tab[q] /\ place'[q] = place[q]
          /\ walk'[q] = walk[q] /\ boots'[q] = boots[q] /\ pc'[q] = pc[q]
        BY <1>2 DEF BootStart, Goto, DataOK
    <2> QED
        BY <2>1, SameUnmoved DEF Quiet
<1>3. ASSUME NEW p \in Proc, RunScript(p) PROVE Quiet(q)
    <2>1. \A r \in Proc : pc'[r] = "link" <=> pc[r] = "link"
        BY <1>3 DEF RunScript, Goto, DataOK
    <2> QED
        BY <1>0, <1>3, <2>1 DEF RunScript
<1>4. ASSUME NEW p \in Proc, ScriptDone(p) PROVE Quiet(q)
    <2>1. pc'[q] = "link" <=> pc[q] = "link"
        BY <1>4 DEF ScriptDone, Goto, DataOK
    <2>2. MarkExecuted(p, {Running(p)}) /\ UNCHANGED <<tab, classes, boots>>
        BY <1>4 DEF ScriptDone
    <2> QED
        BY <2>1, <2>2, MarkedLoads DEF Quiet
<1>5. ASSUME NEW p \in Proc, ScriptThrows(p) PROVE Quiet(q)
    <2>1. pc'[q] = "link" <=> pc[q] = "link"
        BY <1>5 DEF ScriptThrows, Goto, DataOK
    <2>2. /\ MarkExecuted(p, {cursor[p][i] : i \in DOMAIN cursor[p]})
          /\ UNCHANGED <<tab, classes, boots>>
        BY <1>5 DEF ScriptThrows
    <2> QED
        BY <2>1, <2>2, MarkedLoads DEF Quiet
<1>6. ASSUME NEW p \in Proc, EnterMain(p) PROVE Quiet(q)
    <2>1. \A r \in Proc : pc'[r] = "link" <=> pc[r] = "link"
        BY <1>6 DEF EnterMain, Goto, DataOK
    <2> QED
        BY <1>0, <1>6, <2>1 DEF EnterMain
<1>7. ASSUME NEW p \in Proc, MainDone(p) PROVE Quiet(q)
    <2>1. \A r \in Proc : pc'[r] = "link" <=> pc[r] = "link"
        BY <1>7 DEF MainDone, Goto, DataOK
    <2> QED
        BY <1>0, <1>7, <2>1 DEF MainDone
<1>8. ASSUME NEW p \in Proc, ShmReset(p) \/ CompileFile(p) PROVE Quiet(q) \/ Empties(q)
    <2>1. /\ UNCHANGED <<pc, place, walk, boots>> /\ ResetScript(p)
          /\ pc[p] # "link"
        BY <1>8 DEF ShmReset, CompileFile, Call, classes
    <2>2. /\ list'[p] = <<>> /\ tab'[p] = Cleaned(p)
          /\ q # p => list'[q] = list[q] /\ tab'[q] = tab[q]
        BY <2>1 DEF ResetScript, DropList, DataOK
    <2> QED
        BY <2>1, <2>2, SameUnmoved DEF Quiet, Empties
<1>9. ASSUME NEW p \in Proc, EndRequest(p) \/ Exit(p) PROVE Quiet(q) \/ Empties(q)
    <2>1. /\ list'[p] = <<>> /\ tab'[p] = [k \in Key |-> NoEntry] /\ pc'[p] # "link"
          /\ q # p => list'[q] = list[q] /\ tab'[q] = tab[q] /\ pc'[q] = pc[q]
          /\ UNCHANGED <<place, walk, boots>>
        BY <1>9 DEF EndRequest, Exit, Goto, DropList, classes, DataOK
    <2> QED
        BY <2>1, SameUnmoved DEF Quiet, Empties
<1>10. ASSUME NEW p \in Proc, NEW c \in Proc, Fork(p, c) PROVE Quiet(q) \/ Copies(p, q)
    <2>1. /\ pc'[c] = pc[p] /\ pc[p] # "link"
          /\ list'[c] = list[p] /\ tab'[c] = tab[p] /\ boots'[c] = boots[p]
          /\ q # c => /\ list'[q] = list[q] /\ tab'[q] = tab[q] /\ place'[q] = place[q]
                      /\ walk'[q] = walk[q] /\ boots'[q] = boots[q] /\ pc'[q] = pc[q]
        BY <1>10 DEF Fork, Goto, DataOK
    <2> QED
        BY <2>1, SameUnmoved DEF Quiet, Copies
<1>11. ASSUME NEW p \in Proc, LinkClass(p), p # q PROVE Quiet(q)
    <2>1. PICK k \in Classes \X Files : Links(p, k)
        BY <1>11, LinkedOne
    <2>2. UNCHANGED <<pc, list, place, boots>>
        BY <1>11 DEF LinkClass
    <2>3. tab'[q] = tab[q] /\ walk'[q] = walk[q]
        BY <1>11, <2>1 DEF Links, DataOK
    <2> QED
        BY <2>2, <2>3, SameUnmoved DEF Quiet
<1>12. ASSUME NEW p \in Proc, LinkDone(p) PROVE Quiet(q) \/ (p = q /\ Unmoved(q))
    <2>1. Unmoved(q) /\ (q # p => pc'[q] = pc[q])
        BY <1>12, SameUnmoved DEF LinkDone, Goto, classes, DataOK
    <2> QED
        BY <2>1 DEF Quiet
<1>13. CASE UNCHANGED vars
    BY <1>13, SameUnmoved DEF vars, Quiet
<1> QED
    BY <1>1, <1>2, <1>3, <1>4, <1>5, <1>6, <1>7, <1>8, <1>9, <1>10, <1>11, <1>12, <1>13 DEF Next, OpkitLoad

LEMMA BootedLoads ==
    ASSUME DataOK, NEW p \in Proc, BootStart(p)
    PROVE  SameLoads(p)
<1>1. /\ list' \in [Proc -> Seq(Node)] /\ list \in [Proc -> Seq(Node)]
      /\ Len(list'[p]) = Len(list[p])
      /\ \A i \in 1 .. Len(list[p]) : SameNode(list[p][i], list'[p][i])
    BY BootedList DEF DataOK
<1> QED
    BY <1>1 DEF SameLoads

-------------------------------------------------------------------------------
OriginsOf(p) == \A k \in Key : tab[p][k] = NoEntry \/ Copied(p, k) \/ FromScript(p, k)

\* A load leaves the scripts that are there on the list.
LEMMA KeptFrom ==
    ASSUME DataOK, NEW p \in Proc, NEW d \in Node, KeepMemory(p, d)
    PROVE  /\ 1 \in DOMAIN list'[p] /\ list'[p][1] = d
           /\ \A i \in DOMAIN list[p] : i + 1 \in DOMAIN list'[p] /\ list'[p][i + 1] = list[p][i]
           /\ \A j \in DOMAIN list'[p] :
                 j = 1 \/ \E i \in DOMAIN list[p] : j = i + 1 /\ list'[p][j] = list[p][i]
           /\ \A q \in Proc \ {p} : list'[q] = list[q]
<1>1. /\ list' \in [Proc -> Seq(Node)] /\ list \in [Proc -> Seq(Node)]
      /\ Len(list'[p]) = Len(list[p]) + 1 /\ list'[p][1] = d
      /\ \A i \in 1 .. Len(list[p]) : list'[p][i + 1] = list[p][i]
      /\ \A r \in Proc \ {p} : list'[r] = list[r]
    BY KeptList DEF DataOK
<1>2. /\ DOMAIN list[p] = 1 .. Len(list[p]) /\ DOMAIN list'[p] = 1 .. Len(list[p]) + 1
      /\ Len(list[p]) \in Nat
    BY <1>1
<1>3. \A i \in 1 .. Len(list[p]) : i + 1 \in 1 .. Len(list[p]) + 1
    BY <1>2
<1>4. ASSUME NEW j \in DOMAIN list'[p], j # 1
      PROVE  \E i \in DOMAIN list[p] : j = i + 1 /\ list'[p][j] = list[p][i]
    <2>1. j - 1 \in 1 .. Len(list[p]) /\ j = (j - 1) + 1
        BY <1>2, <1>4
    <2>2. list'[p][(j - 1) + 1] = list[p][j - 1]
        BY <1>1, <2>1
    <2> QED
        BY <1>2, <2>1, <2>2
<1> QED
    BY <1>1, <1>2, <1>3, <1>4

LEMMA LoadTab ==
    ASSUME DataOK, NEW p \in Proc, NEW f \in Files, LoadFile(p, f), NEW k \in Key
    PROVE  tab'[p][k] = IF \E n \in Declares[f] \cap Consts : k = KeyOf(n, f)
                          THEN Item(<<p, calls[p] + 1>>) ELSE tab[p][k]
BY DEF LoadFile, RegisterConstants, DataOK

LEMMA LoadOrigins ==
    ASSUME DataOK, Origins, NEW p \in Proc, NEW f \in Files, LoadFile(p, f)
    PROVE  OriginsOf(p)'
<1>1. PICK d \in Node : KeepMemory(p, d) /\ d.load = <<p, calls[p] + 1>> /\ d.file = f
    BY LoadedNode
<1>2. /\ 1 \in DOMAIN list'[p] /\ list'[p][1] = d
      /\ \A i \in DOMAIN list[p] : i + 1 \in DOMAIN list'[p] /\ list'[p][i + 1] = list[p][i]
    BY <1>1, KeptFrom
<1> SUFFICES ASSUME NEW k \in Key
             PROVE  tab'[p][k] = NoEntry \/ Copied(p, k)' \/ FromScript(p, k)'
    BY DEF OriginsOf
<1>3. CASE \E n \in Declares[f] \cap Consts : k = KeyOf(n, f)
    <2>1. tab'[p][k] = Item(list'[p][1].load)
        BY <1>1, <1>2, <1>3, LoadTab
    <2> QED
        BY <1>1, <1>2, <1>3, <2>1 DEF FromScript
<1>4. CASE ~\E n \in Declares[f] \cap Consts : k = KeyOf(n, f)
    <2>1. tab'[p][k] = tab[p][k]
        BY <1>4, LoadTab
    <2>2. CASE FromScript(p, k)
        <3>1. PICK i \in DOMAIN list[p] :
                     /\ tab[p][k] = Item(list[p][i].load)
                     /\ \E n \in Declares[list[p][i].file] : k = KeyOf(n, list[p][i].file)
            BY <2>2 DEF FromScript
        <3>2. i + 1 \in DOMAIN list'[p] /\ list'[p][i + 1] = list[p][i]
            BY <1>2
        <3> QED
            BY <2>1, <3>1, <3>2 DEF FromScript
    <2>3. CASE tab[p][k] = NoEntry \/ Copied(p, k)
        BY <2>1, <2>3 DEF Copied
    <2> QED
        BY <2>2, <2>3 DEF Origins
<1> QED
    BY <1>3, <1>4

\* Phase 1 registers what the list declares.
LEMMA RegisteredOf ==
    ASSUME DataOK, Origins, NEW p \in Proc, NEW k \in Key
    PROVE  \/ Registered(p)[k] = NoEntry
           \/ Copied(p, k) /\ Registered(p)[k] = tab[p][k]
           \/ \E i \in DOMAIN list[p] :
                 /\ Registered(p)[k] = Item(list[p][i].load)
                 /\ \E n \in Declares[list[p][i].file] : k = KeyOf(n, list[p][i].file)
<1>1. CASE Having(p, k) # {}
    <2>1. EarliestIn(Having(p, k)) \in Having(p, k)
        BY <1>1, HavingParts, EarliestIsIn
    <2> QED
        BY <1>1, <2>1 DEF Registered, Having
<1>2. CASE Having(p, k) = {}
    BY <1>2 DEF Registered, Origins, FromScript
<1> QED
    BY <1>1, <1>2

LEMMA CleanedOf ==
    ASSUME Origins, NEW p \in Proc, NEW k \in Key
    PROVE  Cleaned(p)[k] = NoEntry \/ (Copied(p, k) /\ Cleaned(p)[k] = tab[p][k])
<1>1. CASE FromScript(p, k)
    BY <1>1 DEF Cleaned, FromScript
<1>2. CASE ~FromScript(p, k)
    BY <1>2 DEF Cleaned, Origins
<1> QED
    BY <1>1, <1>2

\* An entry goes no later than the script that it points into.
LEMMA OriginsStep == DataOK /\ Origins /\ [Next]_vars => Origins'
<1> SUFFICES ASSUME DataOK, Origins, [Next]_vars, NEW q \in Proc PROVE OriginsOf(q)'
    BY DEF Origins, OriginsOf
<1>1. CASE Unmoved(q)
    <2> SUFFICES ASSUME NEW k \in Key
                 PROVE  tab'[q][k] = NoEntry \/ Copied(q, k)' \/ FromScript(q, k)'
        BY DEF OriginsOf
    <2>1. tab'[q][k] = tab[q][k]
        BY <1>1 DEF Unmoved
    <2>2. CASE FromScript(q, k)
        <3>1. PICK i \in DOMAIN list[q] :
                     /\ tab[q][k] = Item(list[q][i].load)
                     /\ \E n \in Declares[list[q][i].file] : k = KeyOf(n, list[q][i].file)
            BY <2>2 DEF FromScript
        <3>2. i \in DOMAIN list'[q] /\ SameNode(list[q][i], list'[q][i])
            BY <1>1 DEF Unmoved, SameLoads
        <3> QED
            BY <2>1, <3>1, <3>2 DEF SameNode, FromScript
    <2>3. CASE tab[q][k] = NoEntry \/ Copied(q, k)
        BY <2>1, <2>3 DEF Copied
    <2> QED
        BY <2>2, <2>3 DEF Origins
<1>2. ASSUME NEW f \in Files, LoadFile(q, f) PROVE OriginsOf(q)'
    BY <1>2, LoadOrigins
<1>3. CASE BootStart(q)
    <2>1. tab'[q] = Registered(q) /\ SameLoads(q)
        BY <1>3, BootedLoads DEF BootStart, DataOK
    <2> QED
        BY <2>1, RegisteredOf DEF SameLoads, SameNode, OriginsOf, Copied, FromScript
<1>4. CASE LinkClass(q)
    <2>1. PICK k \in Classes \X Files :
             /\ k[1] \in Classes /\ tab'[q][k] = NoEntry
             /\ tab'[q][<<k[1], ByName>>] = Clone(tab[q][k].load)
             /\ \A j \in Key : j # k /\ j # <<k[1], ByName>> => tab'[q][j] = tab[q][j]
        BY <1>4, LinkedOne
    <2>2. list' = list
        BY <1>4 DEF LinkClass
    <2>3. Copied(q, <<k[1], ByName>>)'
        BY <2>1, EntryParts DEF Copied
    <2>4. ASSUME NEW j \in Key, j # k, j # <<k[1], ByName>>
          PROVE  tab'[q][j] = NoEntry \/ Copied(q, j)' \/ FromScript(q, j)'
        <3>1. tab'[q][j] = tab[q][j]
            BY <2>1, <2>4
        <3>2. tab[q][j] = NoEntry \/ Copied(q, j) \/ FromScript(q, j)
            BY DEF Origins
        <3> QED
            BY <2>2, <3>1, <3>2 DEF Copied, FromScript
    <2> QED
        BY <2>1, <2>3, <2>4 DEF OriginsOf
<1>5. CASE Empties(q)
    BY <1>5, CleanedOf DEF Empties, OriginsOf, Copied
<1>6. ASSUME NEW p \in Proc, Copies(p, q) PROVE OriginsOf(q)'
    BY <1>6 DEF Copies, Origins, OriginsOf, Copied, FromScript
<1> QED
    BY <1>1, <1>2, <1>3, <1>4, <1>5, <1>6, StepKinds DEF Quiet

LEMMA OriginsAlways == Spec => [](DataOK /\ Origins)
<1>1. Init => Origins
    BY ProcAssumption DEF Init, Origins
<1>2. DataOK /\ Origins /\ [Next]_vars => (DataOK /\ Origins)'
    BY DataStep, OriginsStep
<1> QED
    BY <1>1, <1>2, InitData, PTL DEF Spec

\* opkit_clean_script_items leaves no function, constant or class behind that is an item
\* of a script that is gone, in any process, whatever was loaded, overwritten, booted,
\* linked, reset, forked or ended before.  (The copies that linking makes stay.)
THEOREM ItemsAlwaysLoaded == Spec => []ItemsLoaded
<1>1. DataOK /\ Origins => ItemsLoaded
    <2> SUFFICES ASSUME DataOK, Origins, NEW p \in Alive, NEW k \in Key,
                        tab[p][k] # NoEntry, ~tab[p][k].clone
                 PROVE  tab[p][k].load \in Loads(p)
        BY DEF ItemsLoaded
    <2>1. p \in Proc
        BY DEF Alive
    <2>2. PICK i \in DOMAIN list[p] : tab[p][k] = Item(list[p][i].load)
        BY <2>1 DEF Origins, Copied, FromScript
    <2> QED
        BY <2>2, EntryParts DEF Loads
<1> QED
    BY <1>1, OriginsAlways, PTL

-------------------------------------------------------------------------------
LEMMA CursorLoads ==
    ASSUME DataOK, NEW p \in Proc, NEW i \in DOMAIN cursor[p]
    PROVE  cursor[p][i] \in Load
<1>1. cursor[p] \in Seq(Load)
    BY DEF DataOK
<1> QED
    BY <1>1

\* Made of the next state, for a load that is a value of this one.
MadeNext(id) == id[2] <= calls'[id[1]]

LEMMA CallsGrow ==
    ASSUME DataOK, [Next]_vars, NEW id \in Load, Made(id)
    PROVE  MadeNext(id)
<1>1. id[1] \in Proc /\ id[2] \in Nat
    BY NodeParts, BoundAssumption
<1>2. UNCHANGED calls \/ \E p \in Proc : calls' = [calls EXCEPT ![p] = @ + 1]
    <2>1. ASSUME NEW p \in Proc, NEW f \in Files, LoadFile(p, f)
          PROVE  calls' = [calls EXCEPT ![p] = @ + 1]
        BY <2>1 DEF LoadFile, Call
    <2>2. ASSUME NEW p \in Proc, BootStart(p) \/ ShmReset(p) \/ CompileFile(p)
          PROVE  calls' = [calls EXCEPT ![p] = @ + 1]
        BY <2>2 DEF BootStart, ShmReset, CompileFile, Call
    <2>3. ASSUME NEW p \in Proc, \/ RunScript(p) \/ ScriptDone(p) \/ ScriptThrows(p)
                               \/ EnterMain(p) \/ MainDone(p) \/ EndRequest(p) \/ Exit(p)
                               \/ LinkClass(p) \/ LinkDone(p)
          PROVE  UNCHANGED calls
        BY <2>3 DEF RunScript, ScriptDone, ScriptThrows, EnterMain, MainDone, EndRequest, Exit,
                    LinkClass, LinkDone
    <2>4. ASSUME NEW p \in Proc, NEW c \in Proc, Fork(p, c) PROVE UNCHANGED calls
        BY <2>4 DEF Fork
    <2>5. CASE UNCHANGED vars
        BY <2>5 DEF vars
    <2> QED
        BY <2>1, <2>2, <2>3, <2>4, <2>5 DEF Next, OpkitLoad
<1>3. \A p \in Proc : calls[p] \in Nat /\ calls'[p] \in Nat /\ calls[p] <= calls'[p]
    <2>1. calls \in [Proc -> Nat]
        BY BoundAssumption DEF DataOK
    <2> QED
        BY <1>2, <2>1
<1> QED
    BY <1>1, <1>3 DEF Made, MadeNext

\* What one process has of scripts: on its list and in its tables.
NumberedIn(p) ==
    /\ \A i \in DOMAIN list[p] : Made(list[p][i].load)
    /\ \A k \in Key : tab[p][k] # NoEntry => Made(tab[p][k].load)

LEMMA NumberedInStep ==
    ASSUME DataOK, Origins, Numbered, [Next]_vars, NEW q \in Proc
    PROVE  NumberedIn(q)'
<1> SUFFICES /\ \A i \in DOMAIN list'[q] : MadeNext(list'[q][i].load)
             /\ \A k \in Key : tab'[q][k] # NoEntry => MadeNext(tab'[q][k].load)
    BY DEF NumberedIn, Made, MadeNext
<1>1. ASSUME NEW p \in Proc
      PROVE  /\ \A i \in DOMAIN list[p] : MadeNext(list[p][i].load)
             /\ \A k \in Key : tab[p][k] # NoEntry => MadeNext(tab[p][k].load)
    <2>1. \A k \in Key : tab[p][k] # NoEntry => tab[p][k].load \in Load
        BY EntryParts DEF DataOK
    <2>2. \A i \in DOMAIN list[p] : list[p][i].load \in Load
        BY NodeLoads
    <2> QED
        BY <2>1, <2>2, CallsGrow DEF Numbered
<1>2. CASE Unmoved(q)
    BY <1>1, <1>2 DEF Unmoved, SameLoads, SameNode
<1>3. ASSUME NEW f \in Files, LoadFile(q, f)
      PROVE  /\ \A i \in DOMAIN list'[q] : MadeNext(list'[q][i].load)
             /\ \A k \in Key : tab'[q][k] # NoEntry => MadeNext(tab'[q][k].load)
    <2>1. PICK d \in Node : KeepMemory(q, d) /\ d.load = <<q, calls[q] + 1>>
        BY <1>3, LoadedNode
    <2>2. MadeNext(<<q, calls[q] + 1>>)
        BY <1>3 DEF LoadFile, Call, MadeNext, DataOK
    <2>3. \A j \in DOMAIN list'[q] : MadeNext(list'[q][j].load)
        BY <1>1, <2>1, <2>2, KeptFrom
    <2>4. \A k \in Key : tab'[q][k] \in {Item(<<q, calls[q] + 1>>), tab[q][k]}
        BY <1>3, LoadTab
    <2>5. Item(<<q, calls[q] + 1>>).load = <<q, calls[q] + 1>>
        BY EntryParts
    <2> QED
        BY <1>1, <2>2, <2>3, <2>4, <2>5
<1>4. CASE BootStart(q)
    <2>1. tab'[q] = Registered(q) /\ SameLoads(q)
        BY <1>4, BootedLoads DEF BootStart, DataOK
    <2>2. \A k \in Key : Registered(q)[k] # NoEntry => MadeNext(Registered(q)[k].load)
        BY <1>1, RegisteredOf, EntryParts
    <2> QED
        BY <1>1, <2>1, <2>2 DEF SameLoads, SameNode
<1>5. CASE LinkClass(q)
    <2>1. PICK k \in Classes \X Files :
             /\ k \in Key /\ tab[q][k] # NoEntry /\ tab'[q][k] = NoEntry
             /\ tab'[q][<<k[1], ByName>>] = Clone(tab[q][k].load)
             /\ \A j \in Key : j # k /\ j # <<k[1], ByName>> => tab'[q][j] = tab[q][j]
        BY <1>5, LinkedOne
    <2>2. list' = list
        BY <1>5 DEF LinkClass
    <2>3. tab'[q][<<k[1], ByName>>].load = tab[q][k].load
        BY <2>1, EntryParts
    <2> QED
        BY <1>1, <2>1, <2>2, <2>3
<1>6. CASE Empties(q)
    BY <1>1, <1>6, CleanedOf DEF Empties
<1>7. ASSUME NEW p \in Proc, Copies(p, q)
      PROVE  /\ \A i \in DOMAIN list'[q] : MadeNext(list'[q][i].load)
             /\ \A k \in Key : tab'[q][k] # NoEntry => MadeNext(tab'[q][k].load)
    BY <1>1, <1>7 DEF Copies
<1> QED
    BY <1>2, <1>3, <1>4, <1>5, <1>6, <1>7, StepKinds DEF Quiet

\* What a boot has still to execute, and what has a cache.
NumberedLeft ==
    /\ \A p \in Proc : \A i \in DOMAIN cursor[p] : Made(cursor[p][i])
    /\ \A h \in Proc \cup {Shared} : \A id \in Load : cache[h][id] # NoCache => Made(id)

LEMMA NumberedLeftStep == DataOK /\ Numbered /\ [Next]_vars => NumberedLeft'
<1> SUFFICES ASSUME DataOK, Numbered, [Next]_vars
             PROVE  /\ \A p \in Proc : \A i \in DOMAIN cursor'[p] : MadeNext(cursor'[p][i])
                    /\ \A h \in Proc \cup {Shared} : \A id \in Load :
                          cache'[h][id] # NoCache => MadeNext(id)
    BY DEF NumberedLeft, Made, MadeNext
<1> DEFINE Cursors == \A p \in Proc : \A i \in DOMAIN cursor'[p] : MadeNext(cursor'[p][i])
           Caches == \A h \in Proc \cup {Shared} : \A id \in Load :
                        cache'[h][id] # NoCache => MadeNext(id)
<1>0. /\ \A id \in Load : Made(id) => MadeNext(id)
      /\ \A p \in Proc : \A i \in DOMAIN cursor[p] : MadeNext(cursor[p][i])
      /\ \A h \in Proc \cup {Shared} : \A id \in Load : cache[h][id] # NoCache => MadeNext(id)
      /\ \A p \in Proc : \A i \in DOMAIN list[p] : MadeNext(list[p][i].load)
    <2>1. \A id \in Load : Made(id) => MadeNext(id)
        BY CallsGrow
    <2> QED
        BY <2>1, CursorLoads, NodeLoads DEF Numbered
<1>a. UNCHANGED cursor => Cursors
    BY <1>0
<1>b. UNCHANGED cache => Caches
    BY <1>0
<1>c. ASSUME NEW p \in Proc, cursor' = [cursor EXCEPT ![p] = <<>>] PROVE Cursors
    <2>1. cursor'[p] = <<>> /\ \A q \in Proc \ {p} : cursor'[q] = cursor[q]
        BY <1>c DEF DataOK
    <2> QED
        BY <1>0, <2>1
<1>d. ASSUME NEW p \in Proc, DropList(p) PROVE Caches
    <2>1. \A h \in Proc \cup {Shared} : \A id \in Load : cache'[h][id] \in {NoCache, cache[h][id]}
        BY <1>d DEF DropList, DataOK
    <2> QED
        BY <1>0, <2>1
<1> HIDE DEF Cursors, Caches
<1>1. ASSUME NEW p \in Proc, NEW f \in Files, LoadFile(p, f) PROVE Cursors /\ Caches
    BY <1>1, <1>a, <1>b DEF LoadFile
<1>2. ASSUME NEW p \in Proc, BootStart(p) PROVE Cursors /\ Caches
    <2>1. /\ cursor'[p] = [i \in DOMAIN list[p] |-> list[p][i].load]
          /\ \A q \in Proc \ {p} : cursor'[q] = cursor[q]
          /\ UNCHANGED cache
        BY <1>2 DEF BootStart, DataOK
    <2>2. \A i \in DOMAIN cursor'[p] : MadeNext(cursor'[p][i])
        BY <1>0, <2>1
    <2> QED
        BY <1>0, <1>b, <2>1, <2>2 DEF Cursors
<1>3. ASSUME NEW p \in Proc, RunScript(p) PROVE Cursors /\ Caches
    <2>1. PICK home \in {p, Shared}, id \in Load, new \in Cache :
             /\ id = Head(cursor[p])
             /\ \/ UNCHANGED <<cache, live>>
                \/ cache' = [cache EXCEPT ![home][id] = new]
        BY <1>3, RunCache
    <2>2. UNCHANGED cursor /\ cursor[p] # <<>> /\ cursor[p] \in Seq(Load)
        BY <1>3 DEF RunScript, DataOK
    <2>3. MadeNext(id)
        <3>1. 1 \in DOMAIN cursor[p] /\ id = cursor[p][1]
            BY <2>1, <2>2
        <3> QED
            BY <1>0, <3>1
    <2>4. \A h \in Proc \cup {Shared} : \A lo \in Load : lo # id => cache'[h][lo] = cache[h][lo]
        BY <2>1 DEF DataOK
    <2> QED
        BY <1>0, <1>a, <2>2, <2>3, <2>4 DEF Caches
<1>4. ASSUME NEW p \in Proc, ScriptDone(p) PROVE Cursors /\ Caches
    <2>1. UNCHANGED cache /\ cursor' = [cursor EXCEPT ![p] = Tail(@)]
        BY <1>4 DEF ScriptDone
    <2>2. cursor[p] \in Seq(Load) /\ cursor[p] # <<>>
        BY <1>4 DEF ScriptDone, DataOK
    <2>3. \A i \in DOMAIN Tail(cursor[p]) : /\ i + 1 \in DOMAIN cursor[p]
                                            /\ Tail(cursor[p])[i] = cursor[p][i + 1]
        BY <2>2
    <2>4. cursor'[p] = Tail(cursor[p]) /\ \A q \in Proc \ {p} : cursor'[q] = cursor[q]
        BY <2>1 DEF DataOK
    <2> QED
        BY <1>0, <1>b, <2>1, <2>3, <2>4 DEF Cursors
<1>5. ASSUME NEW p \in Proc, ScriptThrows(p) PROVE Cursors /\ Caches
    BY <1>5, <1>b, <1>c DEF ScriptThrows, Unwound
<1>6. ASSUME NEW p \in Proc, EnterMain(p) PROVE Cursors /\ Caches
    BY <1>6, <1>a, <1>b DEF EnterMain
<1>7. ASSUME NEW p \in Proc, MainDone(p) PROVE Cursors /\ Caches
    BY <1>7, <1>b, <1>c DEF MainDone, Unwound
<1>8. ASSUME NEW p \in Proc, ShmReset(p) PROVE Cursors /\ Caches
    BY <1>8, <1>a, <1>d DEF ShmReset, ResetScript
<1>9. ASSUME NEW p \in Proc, CompileFile(p) PROVE Cursors /\ Caches
    BY <1>9, <1>a, <1>d DEF CompileFile, ResetScript
<1>10. ASSUME NEW p \in Proc, EndRequest(p) PROVE Cursors /\ Caches
    BY <1>10, <1>c, <1>d DEF EndRequest, Unwound
<1>11. ASSUME NEW p \in Proc, Exit(p) PROVE Cursors /\ Caches
    <2>1. \A h \in Proc \cup {Shared} : \A id \in Load : cache'[h][id] \in {NoCache, cache[h][id]}
        BY <1>11 DEF Exit, DataOK
    <2> QED
        BY <1>11, <1>0, <1>c, <2>1 DEF Exit, Unwound, Caches
<1>12. ASSUME NEW p \in Proc, NEW c \in Proc, Fork(p, c) PROVE Cursors /\ Caches
    <2>1. /\ cursor'[c] = cursor[p] /\ \A q \in Proc \ {c} : cursor'[q] = cursor[q]
          /\ cache'[c] = cache[p]
          /\ \A h \in (Proc \cup {Shared}) \ {c} : cache'[h] = cache[h]
        BY <1>12 DEF Fork, DataOK
    <2> QED
        BY <1>0, <2>1 DEF Cursors, Caches
<1>13. ASSUME NEW p \in Proc, LinkClass(p) \/ LinkDone(p) PROVE Cursors /\ Caches
    BY <1>13, <1>a, <1>b DEF LinkClass, LinkDone
<1>14. ASSUME UNCHANGED vars PROVE Cursors /\ Caches
    BY <1>14, <1>a, <1>b DEF vars
<1>15. Cursors /\ Caches
    BY <1>1, <1>2, <1>3, <1>4, <1>5, <1>6, <1>7, <1>8, <1>9, <1>10, <1>11, <1>12, <1>13, <1>14 DEF Next, OpkitLoad
<1> QED
    BY <1>15 DEF Cursors, Caches

\* Numbers are given out once.
LEMMA NumberedStep == DataOK /\ Origins /\ Numbered /\ [Next]_vars => Numbered'
<1> SUFFICES ASSUME DataOK, Origins, Numbered, [Next]_vars PROVE Numbered'
    OBVIOUS
<1>1. \A q \in Proc : NumberedIn(q)'
    BY NumberedInStep
<1>2. NumberedLeft'
    BY NumberedLeftStep
<1> QED
    BY <1>1, <1>2 DEF Numbered, NumberedIn, NumberedLeft

LEMMA NumberedAlways == Spec => [](DataOK /\ Origins /\ Numbered)
<1>1. Init => Numbered
    <2>1. Init => /\ \A p \in Proc : list[p] = <<>> /\ cursor[p] = <<>>
                  /\ \A p \in Proc : \A k \in Key : tab[p][k] = NoEntry
                  /\ \A h \in Proc \cup {Shared} : \A id \in Load : cache[h][id] = NoCache
        BY DEF Init
    <2> QED
        BY <2>1 DEF Numbered
<1>2. DataOK /\ Origins /\ Numbered /\ [Next]_vars => (DataOK /\ Origins /\ Numbered)'
    BY DataStep, OriginsStep, NumberedStep
<1> QED
    BY <1>1, <1>2, OriginsAlways, PTL DEF Spec

-------------------------------------------------------------------------------
OwnOf(p) ==
    \A i \in DOMAIN list[p] :
        /\ list[p][i].shm = FALSE
        /\ cache[p][list[p][i].load] \in live[p] \cup {NoCache}

LEMMA OwnKept ==
    ASSUME NEW p \in Proc, OwnOf(p), SameLoads(p), cache'[p] = cache[p], live'[p] = live[p]
    PROVE  OwnOf(p)'
BY DEF OwnOf, SameLoads, SameNode

LEMMA OwnHome ==
    ASSUME OwnCaches, NEW p \in Proc, NEW i \in DOMAIN list[p]
    PROVE  Home(p, list[p][i]) = p
BY DEF OwnCaches, Home

\* What DropList does to the caches of one process.
LEMMA DroppedCaches ==
    ASSUME DataOK, NEW p \in Proc, DropList(p)
    PROVE  /\ list'[p] = <<>>
           /\ \A q \in Proc \ {p} : list'[q] = list[q] /\ cache'[q] = cache[q]
<1>1. list'[p] = <<>> /\ \A q \in Proc \ {p} : list'[q] = list[q]
    BY DEF DropList, DataOK
<1>2. ASSUME NEW q \in Proc \ {p} PROVE cache'[q] = cache[q]
    <2>1. \A i \in Spent(p) : Home(p, list[p][i]) # q
        <3>1. \A node : Home(p, node) \in {p, Shared}
            BY Zenon DEF Home
        <3> QED
            BY <3>1, ProcAssumption
    <2>2. cache[q] \in [Load -> Cache \cup {NoCache}] /\ DOMAIN cache = Proc \cup {Shared}
        BY DEF DataOK
    <2>3. cache'[q] = [id \in Load |-> cache[q][id]]
        BY <2>1, <2>2 DEF DropList
    <2> QED
        BY <2>2, <2>3
<1> QED
    BY <1>1, <1>2

\* A new load finds no cache: its number was never given out.
LEMMA OwnStep ==
    ASSUME Placement \subseteq {FALSE}, DataOK, Numbered, OwnCaches, [Next]_vars
    PROVE  OwnCaches'
<1>0. \A q \in Proc : OwnOf(q)
    BY DEF OwnCaches, OwnOf
<1> SUFFICES ASSUME NEW q \in Proc PROVE OwnOf(q)'
    BY DEF OwnCaches, OwnOf
<1>a. ASSUME list'[q] = list[q], cache'[q] = cache[q], live'[q] = live[q] PROVE OwnOf(q)'
    BY <1>0, <1>a, OwnKept DEF SameLoads, SameNode
<1>b. ASSUME Unmoved(q), cache'[q] = cache[q], live'[q] = live[q] PROVE OwnOf(q)'
    BY <1>0, <1>b, OwnKept DEF Unmoved
<1>c. ASSUME list'[q] = <<>> PROVE OwnOf(q)'
    BY <1>c DEF OwnOf
<1>1. ASSUME NEW p \in Proc, NEW f \in Files, LoadFile(p, f) PROVE OwnOf(q)'
    <2>0. PICK d \in Node : /\ KeepMemory(p, d)
                            /\ d.load = <<p, calls[p] + 1>> /\ d.shm \in Placement
        BY <1>1, LoadedNode
    <2>1. KeepMemory(p, d) /\ d.load = <<p, calls[p] + 1>> /\ d.shm = FALSE
        BY <2>0, Zenon
    <2>2. UNCHANGED <<cache, live>>
        BY <1>1 DEF LoadFile
    <2>3. cache[p][d.load] = NoCache
        <3>1. d.load \in Load
            BY NodeParts
        <3>2. ~Made(d.load)
            BY <2>1, BoundAssumption DEF Made, DataOK
        <3> QED
            BY <3>1, <3>2 DEF Numbered
    <2>4. CASE q = p
        <3>1. /\ 1 \in DOMAIN list'[p] /\ list'[p][1] = d
              /\ \A j \in DOMAIN list'[p] : j = 1 \/ \E i \in DOMAIN list[p] : list'[p][j] = list[p][i]
            BY <2>1, KeptFrom
        <3>2. ASSUME NEW j \in DOMAIN list'[p]
              PROVE  /\ list'[p][j].shm = FALSE
                     /\ cache[p][list'[p][j].load] \in live[p] \cup {NoCache}
            BY <1>0, <2>1, <2>3, <3>1 DEF OwnOf
        <3> QED
            BY <2>2, <2>4, <3>2 DEF OwnOf
    <2>5. CASE q # p
        BY <2>1, <2>2, <2>5, <1>a, KeptFrom
    <2> QED
        BY <2>4, <2>5
<1>2. ASSUME NEW p \in Proc, BootStart(p) PROVE OwnOf(q)'
    <2>1. UNCHANGED <<cache, live>> /\ (q # p => list'[q] = list[q])
        BY <1>2 DEF BootStart, DataOK
    <2> QED
        BY <1>0, <1>2, <1>a, <2>1, BootedLoads, OwnKept
<1>3. ASSUME NEW p \in Proc, RunScript(p) PROVE OwnOf(q)'
    <2>1. PICK home \in {p, Shared}, id \in Load, new \in Cache :
             \/ UNCHANGED <<cache, live>>
             \/ /\ cache' = [cache EXCEPT ![home][id] = new]
                /\ live' = [live EXCEPT ![p] = @ \cup {new}]
        BY <1>3, RunCache
    <2>2. list' = list
        BY <1>3 DEF RunScript
    <2>3. CASE q # p
        <3>1. cache'[q] = cache[q] /\ live'[q] = live[q]
            BY <2>1, <2>3, ProcAssumption DEF DataOK
        <3> QED
            BY <1>a, <2>2, <3>1
    <2>4. CASE q = p
        <3>1. \A lo \in Load : \/ cache'[p][lo] = cache[p][lo]
                               \/ cache'[p][lo] \in live'[p]
            <4>1. CASE UNCHANGED <<cache, live>>
                BY <4>1
            <4>2. CASE /\ cache' = [cache EXCEPT ![home][id] = new]
                       /\ live' = [live EXCEPT ![p] = @ \cup {new}]
                <5>1. new \in live'[p]
                    BY <4>2 DEF DataOK
                <5>2. cache \in [Proc \cup {Shared} -> [Load -> Cache \cup {NoCache}]]
                    BY DEF DataOK
                <5>3. cache[p] \in [Load -> Cache \cup {NoCache}]
                    BY <5>2
                <5>4. cache'[p] \in {cache[p], [cache[p] EXCEPT ![id] = new]}
                    BY <2>1, <4>2, <5>2, ProcAssumption
                <5> QED
                    BY <5>1, <5>3, <5>4
            <4> QED
                BY <2>1, <4>1, <4>2
        <3>2. live[p] \subseteq live'[p]
            BY <2>1 DEF DataOK
        <3> QED
            BY <1>0, <2>2, <2>4, <3>1, <3>2, NodeLoads DEF OwnOf
    <2> QED
        BY <2>3, <2>4
<1>4. ASSUME NEW p \in Proc, ScriptDone(p) PROVE OwnOf(q)'
    <2>1. Unmoved(q)
        BY <1>4, MarkedLoads DEF ScriptDone
    <2> QED
        BY <1>4, <1>b, <2>1 DEF ScriptDone
<1>5. ASSUME NEW p \in Proc, ScriptThrows(p) PROVE OwnOf(q)'
    <2>1. Unmoved(q)
        BY <1>5, MarkedLoads DEF ScriptThrows
    <2> QED
        BY <1>5, <1>b, <2>1 DEF ScriptThrows
<1>6. ASSUME NEW p \in Proc, EnterMain(p) PROVE OwnOf(q)'
    BY <1>6, <1>a DEF EnterMain
<1>7. ASSUME NEW p \in Proc, MainDone(p) PROVE OwnOf(q)'
    BY <1>7, <1>a DEF MainDone
<1>8. ASSUME NEW p \in Proc, ShmReset(p) \/ CompileFile(p) \/ EndRequest(p) PROVE OwnOf(q)'
    <2>1. DropList(p) /\ (q # p => live'[q] = live[q])
        BY <1>8 DEF ShmReset, CompileFile, EndRequest, ResetScript, DataOK
    <2> QED
        BY <1>a, <1>c, <2>1, DroppedCaches
<1>9. ASSUME NEW p \in Proc, Exit(p) PROVE OwnOf(q)'
    <2>1. /\ list'[p] = <<>>
          /\ q # p => list'[q] = list[q] /\ cache'[q] = cache[q] /\ live'[q] = live[q]
        BY <1>9 DEF Exit, DataOK
    <2> QED
        BY <1>a, <1>c, <2>1
<1>10. ASSUME NEW p \in Proc, NEW c \in Proc, Fork(p, c) PROVE OwnOf(q)'
    <2>1. /\ list'[c] = list[p] /\ cache'[c] = cache[p] /\ live'[c] = live[p]
          /\ q # c => list'[q] = list[q] /\ cache'[q] = cache[q] /\ live'[q] = live[q]
        BY <1>10 DEF Fork, InheritHeap, DataOK
    <2> QED
        BY <1>0, <1>a, <2>1 DEF OwnOf
<1>11. ASSUME NEW p \in Proc, LinkClass(p) \/ LinkDone(p) PROVE OwnOf(q)'
    BY <1>11, <1>a DEF LinkClass, LinkDone
<1>12. CASE UNCHANGED vars
    BY <1>12, <1>a DEF vars
<1> QED
    BY <1>1, <1>2, <1>3, <1>4, <1>5, <1>6, <1>7, <1>8, <1>9, <1>10, <1>11, <1>12 DEF Next, OpkitLoad

LEMMA OwnAlways ==
    ASSUME Placement \subseteq {FALSE}
    PROVE  Spec => [](DataOK /\ Origins /\ Numbered /\ OwnCaches)
<1>1. Init => OwnCaches
    BY DEF Init, OwnCaches
<1>2. DataOK /\ Numbered /\ OwnCaches /\ [Next]_vars => OwnCaches'
    BY OwnStep
<1> QED
    BY <1>1, <1>2, NumberedAlways, PTL DEF Spec

\* When scripts are kept in private memory, the run-time cache that a process executes
\* a script with, or frees on a reset, is allocated on its own heap: also in a child that
\* was forked from the middle of a script's top-level code, after nested loads and resets,
\* exceptions and second boots.
THEOREM OwnCacheOnly ==
    ASSUME Placement \subseteq {FALSE}
    PROVE  Spec => []CacheIsOwn
<1>1. OwnCaches => CacheIsOwn
    BY DEF OwnCaches, CacheIsOwn, Home, Alive
<1> QED
    BY <1>1, OwnAlways, PTL

-------------------------------------------------------------------------------
\* What a boot has still to execute is on the list.
RunningOf(p) == \A i \in DOMAIN cursor[p] : cursor[p][i] \in Loads(p)
RunningLoaded == \A p \in Proc : RunningOf(p)

LEMMA RunningKept ==
    ASSUME NEW p \in Proc, RunningOf(p), cursor'[p] = cursor[p] \/ cursor'[p] = <<>>,
           \A i \in DOMAIN list[p] : \E j \in DOMAIN list'[p] : list'[p][j].load = list[p][i].load
    PROVE  RunningOf(p)'
BY DEF RunningOf, Loads

LEMMA RunningUnmoved ==
    ASSUME NEW p \in Proc, RunningOf(p), cursor'[p] = cursor[p] \/ cursor'[p] = <<>>, SameLoads(p)
    PROVE  RunningOf(p)'
BY RunningKept DEF SameLoads, SameNode

LEMMA RunningNone ==
    ASSUME NEW p \in Proc, cursor'[p] = <<>>
    PROVE  RunningOf(p)'
BY DEF RunningOf

\* It is only taken away by code that is not booted code.
LEMMA RunningStep ==
    ASSUME "drop" \notin InCode, DataOK, RunningLoaded, [Next]_vars
    PROVE  RunningLoaded'
<1> SUFFICES ASSUME NEW q \in Proc PROVE RunningOf(q)'
    BY DEF RunningLoaded
<1>0. RunningOf(q)
    BY DEF RunningLoaded
<1>a. ASSUME list'[q] = list[q], cursor'[q] = cursor[q] \/ cursor'[q] = <<>> PROVE RunningOf(q)'
    BY <1>0, <1>a, RunningUnmoved DEF SameLoads, SameNode
<1>1. ASSUME NEW p \in Proc, NEW f \in Files, LoadFile(p, f) PROVE RunningOf(q)'
    <2>1. PICK d \in Node : KeepMemory(p, d)
        BY <1>1, LoadedNode
    <2>2. UNCHANGED cursor
        BY <1>1 DEF LoadFile
    <2>3. CASE q = p
        <3>1. \A i \in DOMAIN list[p] : i + 1 \in DOMAIN list'[p] /\ list'[p][i + 1] = list[p][i]
            BY <2>1, KeptFrom
        <3>2. \A i \in DOMAIN list[p] : \E j \in DOMAIN list'[p] :
                 list'[p][j].load = list[p][i].load
            BY <3>1
        <3> QED
            BY <1>0, <2>2, <2>3, <3>2, RunningKept
    <2>4. CASE q # p
        BY <2>1, <2>2, <2>4, <1>a, KeptFrom
    <2> QED
        BY <2>3, <2>4
<1>2. ASSUME NEW p \in Proc, BootStart(p) PROVE RunningOf(q)'
    <2>1. CASE q = p
        <3>1. cursor'[p] = [i \in DOMAIN list[p] |-> list[p][i].load] /\ SameLoads(p)
            BY <1>2, BootedLoads DEF BootStart, DataOK
        <3> QED
            BY <2>1, <3>1 DEF RunningOf, Loads, SameLoads, SameNode
    <2>2. CASE q # p
        <3>1. cursor'[q] = cursor[q] /\ list'[q] = list[q]
            BY <1>2, <2>2 DEF BootStart, DataOK
        <3> QED
            BY <1>a, <3>1
    <2> QED
        BY <2>1, <2>2
<1>3. ASSUME NEW p \in Proc, \/ RunScript(p) \/ EnterMain(p) \/ MainDone(p)
                             \/ LinkClass(p) \/ LinkDone(p)
      PROVE  RunningOf(q)'
    <2>1. list'[q] = list[q] /\ (cursor'[q] = cursor[q] \/ cursor'[q] = <<>>)
        BY <1>3 DEF RunScript, EnterMain, MainDone, LinkClass, LinkDone, Unwound, DataOK
    <2> QED
        BY <1>a, <2>1
<1>4. ASSUME NEW p \in Proc, ScriptDone(p) PROVE RunningOf(q)'
    <2>1. Unmoved(q) /\ cursor' = [cursor EXCEPT ![p] = Tail(@)]
        BY <1>4, MarkedLoads DEF ScriptDone
    <2>2. CASE q = p
        <3>1. cursor[p] \in Seq(Load) /\ cursor[p] # <<>>
            BY <1>4 DEF ScriptDone, DataOK
        <3>2. \A i \in DOMAIN Tail(cursor[p]) : /\ i + 1 \in DOMAIN cursor[p]
                                                /\ Tail(cursor[p])[i] = cursor[p][i + 1]
            BY <3>1
        <3>3. cursor'[p] = Tail(cursor[p])
            BY <2>1 DEF DataOK
        <3>4. \A id \in Loads(p) : id \in Loads(p)'
            BY <2>1, <2>2 DEF Unmoved, SameLoads, SameNode, Loads
        <3> QED
            BY <1>0, <2>2, <3>2, <3>3, <3>4 DEF RunningOf
    <2>3. CASE q # p
        <3>1. cursor'[q] = cursor[q]
            BY <2>1, <2>3 DEF DataOK
        <3> QED
            BY <1>0, <2>1, <3>1, RunningUnmoved DEF Unmoved
    <2> QED
        BY <2>2, <2>3
<1>5. ASSUME NEW p \in Proc, ScriptThrows(p) PROVE RunningOf(q)'
    <2>1. Unmoved(q) /\ cursor' = [cursor EXCEPT ![p] = <<>>]
        BY <1>5, MarkedLoads DEF ScriptThrows, Unwound
    <2>2. cursor'[q] = cursor[q] \/ cursor'[q] = <<>>
        BY <2>1 DEF DataOK
    <2> QED
        BY <1>0, <2>1, <2>2, RunningUnmoved DEF Unmoved
<1>6. ASSUME NEW p \in Proc, ShmReset(p) \/ CompileFile(p) PROVE RunningOf(q)'
    <2>1. pc[p] = "idle" /\ UNCHANGED cursor /\ DropList(p)
        BY <1>6 DEF ShmReset, CompileFile, Call, ResetScript
    <2>2. cursor[p] = <<>>
        BY <2>1 DEF DataOK
    <2> QED
        BY <1>a, <2>1, <2>2, DroppedCaches, RunningNone
<1>7. ASSUME NEW p \in Proc, EndRequest(p) \/ Exit(p) PROVE RunningOf(q)'
    <2>1. /\ cursor'[p] = <<>>
          /\ q # p => cursor'[q] = cursor[q] /\ list'[q] = list[q]
        BY <1>7 DEF EndRequest, Exit, Unwound, DropList, DataOK
    <2> QED
        BY <1>a, <2>1, RunningNone
<1>8. ASSUME NEW p \in Proc, NEW c \in Proc, Fork(p, c) PROVE RunningOf(q)'
    <2>1. /\ cursor'[c] = cursor[p] /\ list'[c] = list[p]
          /\ q # c => cursor'[q] = cursor[q] /\ list'[q] = list[q]
        BY <1>8 DEF Fork, DataOK
    <2> QED
        BY <1>a, <2>1 DEF RunningLoaded, RunningOf, Loads
<1>9. CASE UNCHANGED vars
    BY <1>9, <1>a DEF vars
<1> QED
    BY <1>1, <1>2, <1>3, <1>4, <1>5, <1>6, <1>7, <1>8, <1>9 DEF Next, OpkitLoad

-------------------------------------------------------------------------------
\* A cache that will be freed: that of a script that is marked, or will be when it is done.
KeptBy(p, c, i) ==
    /\ cache[p][list[p][i].load] = c
    /\ list[p][i].executed \/ (pc[p] = "code" /\ Head(cursor[p]) = list[p][i].load)
Held(p) == \A c \in live[p] : \E i \in DOMAIN list[p] : KeptBy(p, c, i)
AllHeld == \A p \in Proc : Held(p)

LEMMA HeldKept ==
    ASSUME NEW p \in Proc, Held(p), list'[p] = list[p], cache'[p] = cache[p],
           live'[p] \subseteq live[p], cursor'[p] = cursor[p],
           pc'[p] = "code" <=> pc[p] = "code"
    PROVE  Held(p)'
BY DEF Held, KeptBy

\* What was executed is still marked.
LEMMA HeldMarked ==
    ASSUME NEW p \in Proc, Held(p), SameLoads(p), cache'[p] = cache[p], live'[p] = live[p],
           \A i \in DOMAIN list[p] :
              list[p][i].executed \/ (pc[p] = "code" /\ Head(cursor[p]) = list[p][i].load)
                 => list'[p][i].executed
    PROVE  Held(p)'
BY DEF Held, KeptBy, SameLoads, SameNode

LEMMA HeldRun ==
    ASSUME DataOK, OwnCaches, RunningLoaded, NEW p \in Proc, Held(p), RunScript(p)
    PROVE  Held(p)' /\ \A q \in Proc \ {p} : cache'[q] = cache[q]
<1>1. PICK home \in {p, Shared}, id \in Load, new \in Cache :
         /\ id = Head(cursor[p]) /\ home = Home(p, NodeOf(p, id)) /\ new[3] = id
         /\ IF cache[home][id] = NoCache
              THEN /\ cache' = [cache EXCEPT ![home][id] = new]
                   /\ live' = [live EXCEPT ![p] = @ \cup {new}]
              ELSE UNCHANGED <<cache, live>>
    BY RunCache
<1>2. id \in Loads(p)
    <2>1. cursor[p] \in Seq(Load) /\ cursor[p] # <<>>
        BY DEF RunScript, DataOK
    <2>2. 1 \in DOMAIN cursor[p] /\ id = cursor[p][1]
        BY <1>1, <2>1
    <2> QED
        BY <2>2 DEF RunningLoaded, RunningOf
<1>3. home = p
    <2>1. \E i \in DOMAIN list[p] : list[p][i].load = id
        BY <1>2 DEF Loads
    <2>2. \E i \in DOMAIN list[p] : NodeOf(p, id) = list[p][i]
        BY <2>1 DEF NodeOf
    <2> QED
        BY <1>1, <2>2, OwnHome
<1>4. PICK i \in DOMAIN list[p] : list[p][i].load = id
    BY <1>2 DEF Loads
<1>5. /\ list' = list /\ cursor' = cursor /\ pc[p] = "boot" /\ pc'[p] = "code"
    BY DEF RunScript, Goto, DataOK
<1>6. CASE cache[p][id] # NoCache
    <2>1. UNCHANGED <<cache, live>>
        BY <1>1, <1>3, <1>6
    <2>2. Held(p)'
        BY <1>5, <2>1 DEF Held, KeptBy
    <2> QED
        BY <2>1, <2>2
<1>7. CASE cache[p][id] = NoCache
    <2>1. cache' = [cache EXCEPT ![p][id] = new] /\ live' = [live EXCEPT ![p] = @ \cup {new}]
        BY <1>1, <1>3, <1>7
    <2>2. /\ cache'[p][id] = new /\ \A lo \in Load : lo # id => cache'[p][lo] = cache[p][lo]
          /\ \A q \in Proc \ {p} : cache'[q] = cache[q]
        <3>1. cache \in [Proc \cup {Shared} -> [Load -> Cache \cup {NoCache}]]
            BY DEF DataOK
        <3>2. cache[p] \in [Load -> Cache \cup {NoCache}]
            BY <3>1
        <3>3. /\ cache'[p] = [cache[p] EXCEPT ![id] = new]
              /\ \A q \in Proc \ {p} : cache'[q] = cache[q]
            BY <2>1, <3>1
        <3> QED
            BY <3>2, <3>3
    <2>3. live'[p] = live[p] \cup {new}
        BY <2>1 DEF DataOK
    <2>4. KeptBy(p, new, i)'
        BY <1>1, <1>4, <1>5, <2>2 DEF KeptBy
    <2>5. ASSUME NEW c \in live[p] PROVE \E j \in DOMAIN list'[p] : KeptBy(p, c, j)'
        <3>1. PICK j \in DOMAIN list[p] : KeptBy(p, c, j)
            BY DEF Held
        <3>2. c # NoCache
            BY CacheParts DEF DataOK
        <3>3. list[p][j].load # id /\ list[p][j].load \in Load
            BY <1>7, <3>1, <3>2, NodeLoads DEF KeptBy
        <3> QED
            BY <1>5, <2>2, <3>1, <3>3 DEF KeptBy
    <2>6. Held(p)'
        BY <1>5, <2>3, <2>4, <2>5 DEF Held
    <2> QED
        BY <2>2, <2>6
<1> QED
    BY <1>6, <1>7

\* A reset that no booted code has called frees every cache of the process.
LEMMA HeldReset ==
    ASSUME DataOK, OwnCaches, NEW p \in Proc, Held(p), pc[p] = "idle", ResetScript(p)
    PROVE  live'[p] = {}
<1>1. live'[p] = live[p] \ {cache[Home(p, list[p][i])][list[p][i].load] : i \in Spent(p)}
    BY DEF ResetScript, DataOK
<1>2. ASSUME NEW c \in live[p]
      PROVE  c \in {cache[Home(p, list[p][i])][list[p][i].load] : i \in Spent(p)}
    <2>1. PICK i \in DOMAIN list[p] : KeptBy(p, c, i)
        BY DEF Held
    <2>2. c # NoCache
        BY CacheParts DEF DataOK
    <2>3. Home(p, list[p][i]) = p
        BY OwnHome
    <2>4. i \in Spent(p)
        BY <2>1, <2>2, <2>3 DEF KeptBy, Spent
    <2> QED
        BY <2>1, <2>3, <2>4 DEF KeptBy
<1> QED
    BY <1>1, <1>2

LEMMA HeldStep ==
    ASSUME "drop" \notin InCode, DataOK, OwnCaches, RunningLoaded, AllHeld, [Next]_vars
    PROVE  AllHeld'
<1> SUFFICES ASSUME NEW q \in Proc PROVE Held(q)'
    BY DEF AllHeld
<1>0. Held(q)
    BY DEF AllHeld
<1>a. ASSUME list'[q] = list[q], cache'[q] = cache[q], live'[q] = live[q],
             cursor'[q] = cursor[q], pc'[q] = pc[q]
      PROVE  Held(q)'
    BY <1>0, <1>a, HeldKept
<1>b. ASSUME live'[q] = {} PROVE Held(q)'
    BY <1>b DEF Held
<1>1. ASSUME NEW p \in Proc, NEW f \in Files, LoadFile(p, f) PROVE Held(q)'
    <2>1. PICK d \in Node : KeepMemory(p, d)
        BY <1>1, LoadedNode
    <2>2. UNCHANGED <<cache, live, cursor, pc>>
        BY <1>1 DEF LoadFile
    <2>3. CASE q = p
        <3>1. \A i \in DOMAIN list[p] : i + 1 \in DOMAIN list'[p] /\ list'[p][i + 1] = list[p][i]
            BY <2>1, KeptFrom
        <3>2. ASSUME NEW c \in live[p] PROVE \E j \in DOMAIN list'[p] : KeptBy(p, c, j)'
            <4>1. PICK i \in DOMAIN list[p] : KeptBy(p, c, i)
                BY <1>0, <2>3 DEF Held
            <4> QED
                BY <2>2, <3>1, <4>1 DEF KeptBy
        <3> QED
            BY <2>2, <2>3, <3>2 DEF Held
    <2>4. CASE q # p
        BY <2>1, <2>2, <2>4, <1>a, KeptFrom
    <2> QED
        BY <2>3, <2>4
<1>2. ASSUME NEW p \in Proc, BootStart(p) PROVE Held(q)'
    <2>1. CASE q = p
        <3>1. /\ SameLoads(p) /\ pc[p] # "code" /\ UNCHANGED <<cache, live>>
            BY <1>2, BootedLoads DEF BootStart
        <3>2. \A i \in DOMAIN list[p] : list'[p][i].executed = list[p][i].executed
            <4>1. DOMAIN list[p] = 1 .. Len(list[p])
                BY DEF DataOK
            <4> QED
                BY <1>2, <4>1, BootedList
        <3> QED
            BY <1>0, <2>1, <3>1, <3>2, HeldMarked
    <2>2. CASE q # p
        <3>1. /\ list'[q] = list[q] /\ cursor'[q] = cursor[q] /\ pc'[q] = pc[q]
              /\ UNCHANGED <<cache, live>>
            BY <1>2, <2>2 DEF BootStart, Goto, DataOK
        <3> QED
            BY <1>a, <3>1
    <2> QED
        BY <2>1, <2>2
<1>3. ASSUME NEW p \in Proc, RunScript(p) PROVE Held(q)'
    <2>1. CASE q = p
        BY <1>0, <1>3, <2>1, HeldRun
    <2>2. CASE q # p
        <3>1. cache'[q] = cache[q]
            BY <1>3, <2>2, HeldRun DEF AllHeld
        <3>2. PICK new : UNCHANGED live \/ live' = [live EXCEPT ![p] = @ \cup {new}]
            BY <1>3, RunCache
        <3>3. /\ list' = list /\ cursor' = cursor /\ pc'[q] = pc[q] /\ live'[q] = live[q]
            BY <1>3, <2>2, <3>2 DEF RunScript, Goto, DataOK
        <3> QED
            BY <1>a, <3>1, <3>3
    <2> QED
        BY <2>1, <2>2
<1>4. ASSUME NEW p \in Proc, NEW ids, MarkExecuted(p, ids), pc[p] = "code",
             Head(cursor[p]) \in ids, UNCHANGED <<cache, live>>,
             q # p => cursor'[q] = cursor[q] /\ pc'[q] = pc[q]
      PROVE  Held(q)'
    <2>1. /\ list' \in [Proc -> Seq(Node)] /\ list \in [Proc -> Seq(Node)]
          /\ Len(list'[p]) = Len(list[p])
          /\ \A i \in 1 .. Len(list[p]) :
                /\ SameNode(list[p][i], list'[p][i])
                /\ list'[p][i].executed <=> list[p][i].executed \/ list[p][i].load \in ids
          /\ \A r \in Proc \ {p} : list'[r] = list[r]
        BY <1>4, MarkedList DEF DataOK
    <2>2. DOMAIN list[p] = 1 .. Len(list[p]) /\ DOMAIN list'[p] = 1 .. Len(list[p])
        BY <2>1
    <2>3. SameLoads(p)
        BY <2>1, <2>2 DEF SameLoads
    <2>4. ASSUME NEW i \in DOMAIN list[p],
                 list[p][i].executed \/ (pc[p] = "code" /\ Head(cursor[p]) = list[p][i].load)
          PROVE  list'[p][i].executed
        <3>1. list[p][i].executed \/ list[p][i].load \in ids
            BY <1>4, <2>4
        <3>2. list'[p][i].executed <=> list[p][i].executed \/ list[p][i].load \in ids
            BY <2>1, <2>2
        <3> QED
            BY <3>1, <3>2
    <2>5. CASE q = p
        BY <1>0, <1>4, <2>3, <2>4, <2>5, HeldMarked
    <2>6. CASE q # p
        BY <1>4, <1>a, <2>1, <2>6
    <2> QED
        BY <2>5, <2>6
<1>5. ASSUME NEW p \in Proc, ScriptDone(p) PROVE Held(q)'
    <2>1. /\ MarkExecuted(p, {Head(cursor[p])}) /\ pc[p] = "code" /\ UNCHANGED <<cache, live>>
          /\ q # p => cursor'[q] = cursor[q] /\ pc'[q] = pc[q]
        BY <1>5 DEF ScriptDone, Goto, Running, DataOK
    <2> QED
        BY <1>4, <2>1
<1>6. ASSUME NEW p \in Proc, ScriptThrows(p) PROVE Held(q)'
    <2>1. /\ MarkExecuted(p, {cursor[p][i] : i \in DOMAIN cursor[p]}) /\ pc[p] = "code"
          /\ UNCHANGED <<cache, live>>
          /\ q # p => cursor'[q] = cursor[q] /\ pc'[q] = pc[q]
        BY <1>6 DEF ScriptThrows, Goto, Unwound, DataOK
    <2>2. cursor[p] \in Seq(Load) /\ cursor[p] # <<>>
        BY <2>1 DEF DataOK
    <2>3. 1 \in DOMAIN cursor[p] /\ Head(cursor[p]) = cursor[p][1]
        BY <2>2
    <2>4. Head(cursor[p]) \in {cursor[p][i] : i \in DOMAIN cursor[p]}
        BY <2>3
    <2> QED
        BY <1>4, <2>1, <2>4
<1>7. ASSUME NEW p \in Proc, \/ EnterMain(p) \/ MainDone(p) \/ LinkClass(p) \/ LinkDone(p)
      PROVE  Held(q)'
    <2>1. /\ list' = list /\ UNCHANGED <<cache, live>>
          /\ pc[p] # "code" /\ (q # p => cursor'[q] = cursor[q] /\ pc'[q] = pc[q])
        BY <1>7 DEF EnterMain, MainDone, LinkClass, LinkDone, Goto, Unwound, DataOK
    <2>2. CASE q = p
        BY <1>0, <2>1, <2>2, HeldMarked DEF SameLoads, SameNode
    <2>3. CASE q # p
        BY <1>a, <2>1, <2>3
    <2> QED
        BY <2>2, <2>3
<1>8. ASSUME NEW p \in Proc, ShmReset(p) \/ CompileFile(p) PROVE Held(q)'
    <2>1. /\ pc[p] = "idle" /\ ResetScript(p) /\ DropList(p) /\ UNCHANGED <<pc, cursor>>
          /\ q # p => live'[q] = live[q]
        BY <1>8 DEF ShmReset, CompileFile, Call, ResetScript, DataOK
    <2> QED
        BY <1>0, <1>a, <1>b, <2>1, HeldReset, DroppedCaches
<1>9. ASSUME NEW p \in Proc, EndRequest(p) PROVE Held(q)'
    <2>1. /\ DropList(p) /\ live'[p] = {}
          /\ q # p => live'[q] = live[q] /\ pc'[q] = pc[q] /\ cursor'[q] = cursor[q]
        BY <1>9 DEF EndRequest, Goto, Unwound, DataOK
    <2> QED
        BY <1>a, <1>b, <2>1, DroppedCaches
<1>10. ASSUME NEW p \in Proc, Exit(p) PROVE Held(q)'
    <2>1. /\ live'[p] = {}
          /\ q # p => /\ list'[q] = list[q] /\ cache'[q] = cache[q] /\ live'[q] = live[q]
                      /\ pc'[q] = pc[q] /\ cursor'[q] = cursor[q]
        BY <1>10 DEF Exit, Goto, Unwound, DataOK
    <2> QED
        BY <1>a, <1>b, <2>1
<1>11. ASSUME NEW p \in Proc, NEW c \in Proc, Fork(p, c) PROVE Held(q)'
    <2>1. /\ list'[c] = list[p] /\ cache'[c] = cache[p] /\ live'[c] = live[p]
          /\ cursor'[c] = cursor[p] /\ pc'[c] = pc[p]
          /\ q # c => /\ list'[q] = list[q] /\ cache'[q] = cache[q] /\ live'[q] = live[q]
                      /\ pc'[q] = pc[q] /\ cursor'[q] = cursor[q]
        BY <1>11 DEF Fork, Goto, InheritHeap, DataOK
    <2>2. Held(p)
        BY DEF AllHeld
    <2>3. Held(c)'
        BY <2>1, <2>2 DEF Held, KeptBy
    <2> QED
        BY <1>a, <2>1, <2>3
<1>12. CASE UNCHANGED vars
    BY <1>12, <1>a DEF vars
<1> QED
    BY <1>1, <1>2, <1>3, <1>5, <1>6, <1>7, <1>8, <1>9, <1>10, <1>11, <1>12 DEF Next, OpkitLoad

\* With scripts in private memory, and if booted code calls no function that drops all
\* scripts, no run-time cache is lost: each one on a process's heap is that of a script
\* on its list, which is marked, so that a reset frees it, or is executing; after nested
\* loads, second boots, exceptions and forks in the middle of a script's code.
THEOREM NoCacheIsLost ==
    ASSUME Placement \subseteq {FALSE}, "drop" \notin InCode
    PROVE  Spec => []NoCacheLost
<1>1. Init => RunningLoaded /\ AllHeld
    BY DEF Init, RunningLoaded, RunningOf, AllHeld, Held
<1>2. DataOK /\ OwnCaches /\ RunningLoaded /\ AllHeld /\ [Next]_vars => (RunningLoaded /\ AllHeld)'
    BY RunningStep, HeldStep
<1>3. OwnCaches /\ AllHeld => NoCacheLost
    <2> SUFFICES ASSUME OwnCaches, AllHeld, NEW p \in Alive, NEW c \in live[p]
                 PROVE  \E i \in DOMAIN list[p] :
                           /\ cache[Home(p, list[p][i])][list[p][i].load] = c
                           /\ \/ list[p][i].executed
                              \/ pc[p] = "code" /\ Running(p) = list[p][i].load
        BY DEF NoCacheLost
    <2>1. p \in Proc
        BY DEF Alive
    <2>2. PICK i \in DOMAIN list[p] : KeptBy(p, c, i)
        BY <2>1 DEF AllHeld, Held
    <2>3. Home(p, list[p][i]) = p
        BY <2>1, OwnHome
    <2> QED
        BY <2>2, <2>3 DEF KeptBy, Running
<1> QED
    BY <1>1, <1>2, <1>3, OwnAlways, PTL DEF Spec

-------------------------------------------------------------------------------
\* NamesResolve for one name of one process.
Resolves(p, n) ==
    LET old == BootedDeclaring(p, n)
        new == Declaring(p, n) \ old
    IN /\ n \in Consts /\ new # {} =>
             \E i \in new : Points(p, n, i) /\ \A j \in new : i <= j
       /\ old # {} /\ (n \notin Consts \/ new = {}) =>
             \E i \in old : Points(p, n, i) /\ \A j \in old : j <= i
       /\ old = {} /\ (n \notin Consts \/ new = {}) => tab[p][<<n, ByName>>] = NoEntry

Direct == Funcs \cup Consts

LEMMA ResolvesAll == NamesResolve <=> \A p \in Alive : \A n \in Direct : Resolves(p, n)
BY DEF NamesResolve, Resolves, Direct

LEMMA DirectKey ==
    ASSUME NEW n \in Direct
    PROVE  /\ n \in Names /\ n \notin Classes /\ <<n, ByName>> \in Key
           /\ \A f \in Files : KeyOf(n, f) = <<n, ByName>>
BY KeyParts, NameAssumption DEF Direct, Names

\* Declaring of the next state when q's list is the same but for marks.
LEMMA SameDeclaring ==
    ASSUME NEW q \in Proc, NEW n, SameLoads(q)
    PROVE  Declaring(q, n)' = Declaring(q, n)
BY DEF Declaring, SameLoads, SameNode

LEMMA UnmovedDeclaring ==
    ASSUME NEW q \in Proc, NEW n, Unmoved(q)
    PROVE  /\ Declaring(q, n)' = Declaring(q, n)
           /\ BootedDeclaring(q, n)' = BootedDeclaring(q, n)
<1>1. Declaring(q, n)' = Declaring(q, n)
    BY SameDeclaring DEF Unmoved
<1>2. \A i \in Declaring(q, n) : list'[q][i].boot = list[q][i].boot
    BY DEF Unmoved, Declaring
<1> QED
    BY <1>1, <1>2 DEF BootedDeclaring

\* A load moves every script on by one; what it loads no boot has seen.
LEMMA LoadDeclaring ==
    ASSUME DataOK, NEW p \in Proc, NEW f \in Files, LoadFile(p, f), NEW n
    PROVE  /\ Declaring(p, n) \subseteq Nat
           /\ Declaring(p, n)' = {i + 1 : i \in Declaring(p, n)} \cup {i \in {1} : n \in Declares[f]}
           /\ BootedDeclaring(p, n)' = {i + 1 : i \in BootedDeclaring(p, n)}
<1>1. PICK d \in Node : KeepMemory(p, d) /\ d.file = f /\ d.boot = 0
    BY LoadedNode
<1>2. /\ 1 \in DOMAIN list'[p] /\ list'[p][1] = d
      /\ \A i \in DOMAIN list[p] : i + 1 \in DOMAIN list'[p] /\ list'[p][i + 1] = list[p][i]
      /\ \A j \in DOMAIN list'[p] :
            j = 1 \/ \E i \in DOMAIN list[p] : j = i + 1 /\ list'[p][j] = list[p][i]
    BY <1>1, KeptFrom
<1>3. DOMAIN list[p] \subseteq Nat \ {0}
    BY DEF DataOK
<1>4. Declaring(p, n) \subseteq Nat
    BY <1>3 DEF Declaring
<1>5. ASSUME NEW i \in DOMAIN list[p]
      PROVE  /\ i + 1 \in Declaring(p, n)' <=> i \in Declaring(p, n)
             /\ i + 1 \in BootedDeclaring(p, n)' <=> i \in BootedDeclaring(p, n)
    BY <1>2 DEF Declaring, BootedDeclaring
<1>6. 1 \in Declaring(p, n)' <=> n \in Declares[f]
    BY <1>1, <1>2 DEF Declaring
<1>7. 1 \notin BootedDeclaring(p, n)'
    BY <1>1, <1>2 DEF BootedDeclaring
<1>8. /\ Declaring(p, n) \subseteq DOMAIN list[p] /\ BootedDeclaring(p, n) \subseteq DOMAIN list[p]
      /\ Declaring(p, n)' \subseteq DOMAIN list'[p]
      /\ BootedDeclaring(p, n)' \subseteq DOMAIN list'[p]
    BY DEF Declaring, BootedDeclaring
<1>9. \A j \in DOMAIN list'[p] : j = 1 \/ \E i \in DOMAIN list[p] : j = i + 1
    BY <1>2
<1> DEFINE A == Declaring(p, n)
           B == BootedDeclaring(p, n)
           AA == Declaring(p, n)'
           BB == BootedDeclaring(p, n)'
           D == DOMAIN list[p]
           DD == DOMAIN list'[p]
<1>10. /\ A \subseteq D /\ B \subseteq D /\ AA \subseteq DD /\ BB \subseteq DD
       /\ \A j \in DD : j = 1 \/ \E i \in D : j = i + 1
       /\ \A i \in D : (i + 1 \in AA <=> i \in A) /\ (i + 1 \in BB <=> i \in B)
       /\ 1 \in AA <=> n \in Declares[f]
       /\ 1 \notin BB
    BY <1>5, <1>6, <1>7, <1>8, <1>9
<1> HIDE DEF A, B, AA, BB, D, DD
<1>11. AA = {i + 1 : i \in A} \cup {i \in {1} : n \in Declares[f]}
    <2>1. AA \subseteq {i + 1 : i \in A} \cup {i \in {1} : n \in Declares[f]}
        BY <1>10
    <2>2. {i + 1 : i \in A} \cup {i \in {1} : n \in Declares[f]} \subseteq AA
        BY <1>10
    <2> QED
        BY <2>1, <2>2
<1>12. BB = {i + 1 : i \in B}
    <2>1. BB \subseteq {i + 1 : i \in B}
        BY <1>10
    <2>2. {i + 1 : i \in B} \subseteq BB
        BY <1>10
    <2> QED
        BY <2>1, <2>2
<1> QED
    BY <1>4, <1>11, <1>12 DEF A, B, AA, BB

LEMMA ResolvesKept ==
    ASSUME NEW p \in Proc, NEW n \in Direct, Resolves(p, n), Unmoved(p)
    PROVE  Resolves(p, n)'
<1>1. /\ Declaring(p, n)' = Declaring(p, n)
      /\ BootedDeclaring(p, n)' = BootedDeclaring(p, n)
    BY UnmovedDeclaring
<1>2. \A i \in Declaring(p, n) : Points(p, n, i)' <=> Points(p, n, i)
    BY DEF Points, Declaring, Unmoved, SameLoads, SameNode
<1>3. BootedDeclaring(p, n) \subseteq Declaring(p, n)
    BY DEF BootedDeclaring
<1>4. tab'[p][<<n, ByName>>] = tab[p][<<n, ByName>>]
    BY DEF Unmoved
<1> QED
    BY <1>1, <1>2, <1>3, <1>4 DEF Resolves

LEMMA ResolvesEmpty ==
    ASSUME NEW p \in Proc, NEW n \in Direct, list'[p] = <<>>, tab'[p][<<n, ByName>>] = NoEntry
    PROVE  Resolves(p, n)'
<1>1. Declaring(p, n)' = {} /\ BootedDeclaring(p, n)' = {}
    BY DEF Declaring, BootedDeclaring
<1> QED
    BY <1>1 DEF Resolves

\* A load defines the constants that its file declares.
LEMMA ResolvesLoad ==
    ASSUME DataOK, NEW p \in Proc, NEW f \in Files, LoadFile(p, f),
           NEW n \in Direct, Resolves(p, n)
    PROVE  Resolves(p, n)'
<1> DEFINE id == <<p, calls[p] + 1>>
           all == Declaring(p, n)
           old == BootedDeclaring(p, n)
<1>1. PICK d \in Node : KeepMemory(p, d) /\ d.load = id /\ d.file = f
    BY LoadedNode
<1>2. tab'[p][<<n, ByName>>] = IF n \in Declares[f] \cap Consts
                                 THEN Item(id) ELSE tab[p][<<n, ByName>>]
    <2>1. <<n, ByName>> \in Key /\ n \in Names
        BY DirectKey
    <2>2. tab'[p][<<n, ByName>>] = IF \E m \in Declares[f] \cap Consts : <<n, ByName>> = KeyOf(m, f)
                                     THEN Item(id) ELSE tab[p][<<n, ByName>>]
        BY <2>1, LoadTab
    <2>3. (\E m \in Declares[f] \cap Consts : <<n, ByName>> = KeyOf(m, f))
             <=> n \in Declares[f] \cap Consts
        BY NameKeys, DeclaredNames DEF Direct
    <2> QED
        BY <2>2, <2>3
<1>3. /\ 1 \in DOMAIN list'[p] /\ list'[p][1].load = id
      /\ \A i \in DOMAIN list[p] : i + 1 \in DOMAIN list'[p] /\ list'[p][i + 1] = list[p][i]
    BY <1>1, KeptFrom
<1>4. \A i \in all : Points(p, n, i + 1)' <=> tab'[p][<<n, ByName>>] = Item(list[p][i].load)
    BY <1>3 DEF Points, Declaring
<1>5. Points(p, n, 1)' <=> tab'[p][<<n, ByName>>] = Item(id)
    BY <1>3 DEF Points
<1>6. /\ all \subseteq Nat /\ old \subseteq all
      /\ Declaring(p, n)' = {i + 1 : i \in all} \cup {i \in {1} : n \in Declares[f]}
      /\ BootedDeclaring(p, n)' = {i + 1 : i \in old}
    BY LoadDeclaring DEF BootedDeclaring
<1> HIDE DEF id, all, old
<1>7. CASE n \in Declares[f] \cap Consts
    <2>1. 0 \notin old
        <3>1. DOMAIN list[p] \subseteq Nat \ {0}
            BY DEF DataOK
        <3> QED
            BY <3>1 DEF old, BootedDeclaring, Declaring
    <2>2. 1 \in Declaring(p, n)' \ BootedDeclaring(p, n)'
        BY <1>6, <1>7, <2>1
    <2>3. Points(p, n, 1)'
        BY <1>2, <1>5, <1>7
    <2>4. \A j \in Declaring(p, n)' : 1 <= j
        BY <1>6
    <2> QED
        BY <1>7, <2>2, <2>3, <2>4 DEF Resolves
<1>8. CASE n \notin Declares[f] \cap Consts
    <2>1. tab'[p][<<n, ByName>>] = tab[p][<<n, ByName>>]
        BY <1>2, <1>8
    <2>2. \A i \in all : Points(p, n, i + 1)' <=> Points(p, n, i)
        BY <1>4, <2>1 DEF Points
    <2>3. n \in Consts => Declaring(p, n)' \ BootedDeclaring(p, n)' = {i + 1 : i \in all \ old}
        <3>1. n \in Consts => Declaring(p, n)' = {i + 1 : i \in all}
            BY <1>6, <1>8
        <3> QED
            BY <1>6, <3>1
    <2>4. ASSUME n \in Consts, Declaring(p, n)' \ BootedDeclaring(p, n)' # {}
          PROVE  \E i \in Declaring(p, n)' \ BootedDeclaring(p, n)' :
                    /\ Points(p, n, i)'
                    /\ \A j \in Declaring(p, n)' \ BootedDeclaring(p, n)' : i <= j
        <3>1. all \ old # {}
            BY <2>3, <2>4
        <3>2. PICK i \in all \ old : Points(p, n, i) /\ \A j \in all \ old : i <= j
            BY <2>4, <3>1 DEF Resolves, all, old
        <3>3. i + 1 \in Declaring(p, n)' \ BootedDeclaring(p, n)' /\ Points(p, n, i + 1)'
            BY <2>2, <2>3, <2>4, <3>2
        <3>4. ASSUME NEW j \in Declaring(p, n)' \ BootedDeclaring(p, n)' PROVE i + 1 <= j
            <4>1. PICK m \in all \ old : j = m + 1
                BY <2>3, <2>4, <3>4
            <4>2. i <= m /\ i \in Nat /\ m \in Nat
                BY <1>6, <3>2
            <4> QED
                BY <4>1, <4>2
        <3> QED
            BY <3>3, <3>4
    <2>5. ASSUME BootedDeclaring(p, n)' # {},
                 n \notin Consts \/ Declaring(p, n)' \ BootedDeclaring(p, n)' = {}
          PROVE  \E i \in BootedDeclaring(p, n)' :
                    Points(p, n, i)' /\ \A j \in BootedDeclaring(p, n)' : j <= i
        <3>1. old # {} /\ (n \notin Consts \/ all \ old = {})
            BY <1>6, <2>3, <2>5
        <3>2. PICK i \in old : Points(p, n, i) /\ \A j \in old : j <= i
            BY <3>1 DEF Resolves, all, old
        <3>3. i + 1 \in BootedDeclaring(p, n)' /\ Points(p, n, i + 1)'
            BY <1>6, <2>2, <3>2
        <3>4. ASSUME NEW j \in BootedDeclaring(p, n)' PROVE j <= i + 1
            <4>1. PICK m \in old : j = m + 1
                BY <1>6, <3>4
            <4>2. m <= i /\ i \in Nat /\ m \in Nat
                BY <1>6, <3>2
            <4> QED
                BY <4>1, <4>2
        <3> QED
            BY <3>3, <3>4
    <2>6. ASSUME BootedDeclaring(p, n)' = {},
                 n \notin Consts \/ Declaring(p, n)' \ BootedDeclaring(p, n)' = {}
          PROVE  tab'[p][<<n, ByName>>] = NoEntry
        <3>1. old = {} /\ (n \notin Consts \/ all \ old = {})
            BY <1>6, <2>3, <2>6
        <3> QED
            BY <2>1, <3>1 DEF Resolves, all, old
    <2> QED
        BY <2>4, <2>5, <2>6 DEF Resolves
<1> QED
    BY <1>7, <1>8

\* After a boot all scripts on the list have been seen by one.
LEMMA BootDeclaring ==
    ASSUME DataOK, NEW p \in Proc, BootStart(p), NEW n
    PROVE  /\ SameLoads(p)
           /\ Declaring(p, n)' = Declaring(p, n) /\ BootedDeclaring(p, n)' = Declaring(p, n)
           /\ \A i \in Declaring(p, n) :
                 list'[p][i].boot = IF list[p][i].boot = 0 THEN boots[p] + 1 ELSE list[p][i].boot
<1>1. SameLoads(p)
    BY BootedLoads
<1>2. Declaring(p, n)' = Declaring(p, n)
    BY <1>1, SameDeclaring
<1>3. \A i \in DOMAIN list[p] :
         list'[p][i].boot = IF list[p][i].boot = 0 THEN boots[p] + 1 ELSE list[p][i].boot
    <2>1. DOMAIN list[p] = 1 .. Len(list[p])
        BY DEF DataOK
    <2> QED
        BY <2>1, BootedList
<1>4. boots[p] + 1 # 0
    BY BoundAssumption DEF DataOK
<1>5. Declaring(p, n) \subseteq DOMAIN list[p]
    BY DEF Declaring
<1> QED
    BY <1>1, <1>2, <1>3, <1>4, <1>5 DEF BootedDeclaring

\* A boot registers what the whole list declares, the oldest script last.
LEMMA ResolvesBoot ==
    ASSUME DataOK, NEW p \in Proc, BootStart(p), NEW n \in Direct, Resolves(p, n)
    PROVE  Resolves(p, n)'
<1> DEFINE all == Declaring(p, n)
<1>1. SameLoads(p) /\ Declaring(p, n)' = all /\ BootedDeclaring(p, n)' = all
    BY BootDeclaring
<1>2. tab'[p][<<n, ByName>>] = IF all # {} THEN Item(list[p][EarliestIn(all)].load)
                                ELSE tab[p][<<n, ByName>>]
    <2>1. <<n, ByName>> \in Key /\ Having(p, <<n, ByName>>) = all
        BY DirectKey, HavingParts DEF Direct
    <2>2. tab'[p] = Registered(p)
        BY DEF BootStart, DataOK
    <2> QED
        BY <2>1, <2>2 DEF Registered
<1>3. all \in SUBSET DOMAIN list[p]
    BY DEF Declaring
<1> HIDE DEF all
<1>4. CASE all # {}
    <2>1. EarliestIn(all) \in all /\ \A j \in all : j <= EarliestIn(all)
        BY <1>3, <1>4, EarliestIsIn
    <2>2. PICK first \in all : first = EarliestIn(all) /\ \A j \in all : j <= first
        BY <2>1
    <2>3. list'[p][first].load = list[p][first].load
        BY <1>1, <1>3 DEF SameLoads, SameNode
    <2>4. Points(p, n, first)'
        BY <1>2, <1>4, <2>2, <2>3 DEF Points
    <2> QED
        BY <1>1, <1>4, <2>2, <2>4 DEF Resolves
<1>5. CASE all = {}
    <2>1. BootedDeclaring(p, n) = {} /\ Declaring(p, n) = {}
        BY <1>5 DEF BootedDeclaring, all
    <2>2. tab[p][<<n, ByName>>] = NoEntry
        BY <2>1 DEF Resolves
    <2> QED
        BY <1>1, <1>2, <1>5, <2>2 DEF Resolves
<1> QED
    BY <1>4, <1>5

ResolvesNow == \A q \in Proc : \A n \in Direct : Resolves(q, n)

LEMMA ResolvesStep == DataOK /\ Origins /\ ResolvesNow /\ [Next]_vars => ResolvesNow'
<1> SUFFICES ASSUME DataOK, Origins, ResolvesNow, [Next]_vars, NEW q \in Proc, NEW n \in Direct
             PROVE  Resolves(q, n)'
    BY DEF ResolvesNow
<1>0. Resolves(q, n)
    BY DEF ResolvesNow
<1>1. CASE Unmoved(q)
    BY <1>0, <1>1, ResolvesKept
<1>2. ASSUME NEW f \in Files, LoadFile(q, f) PROVE Resolves(q, n)'
    BY <1>0, <1>2, ResolvesLoad
<1>3. CASE BootStart(q)
    BY <1>0, <1>3, ResolvesBoot
<1>4. CASE LinkClass(q)
    <2>1. PICK k \in Classes \X Files :
             /\ k[1] \in Classes /\ k[2] \in Files
             /\ \A j \in Key : j # k /\ j # <<k[1], ByName>> => tab'[q][j] = tab[q][j]
        BY <1>4, LinkedOne
    <2>2. <<n, ByName>> \in Key /\ <<n, ByName>> # k /\ <<n, ByName>> # <<k[1], ByName>>
        BY <2>1, DirectKey, NameAssumption
    <2>3. tab'[q][<<n, ByName>>] = tab[q][<<n, ByName>>] /\ list' = list
        BY <1>4, <2>1, <2>2 DEF LinkClass
    <2> QED
        BY <1>0, <2>3 DEF Resolves, Declaring, BootedDeclaring, Points
<1>5. CASE Empties(q)
    <2>1. <<n, ByName>> \in Key /\ n \notin Classes
        BY DirectKey
    <2>2. list'[q] = <<>> /\ tab'[q][<<n, ByName>>] = NoEntry
        BY <1>5, <2>1, CleanedOf DEF Empties, Copied
    <2> QED
        BY <2>2, ResolvesEmpty
<1>6. ASSUME NEW p \in Proc, Copies(p, q) PROVE Resolves(q, n)'
    <2>1. list'[q] = list[p] /\ tab'[q] = tab[p] /\ Resolves(p, n)
        BY <1>6 DEF Copies, ResolvesNow
    <2> QED
        BY <2>1 DEF Resolves, Declaring, BootedDeclaring, Points
<1> QED
    BY <1>1, <1>2, <1>3, <1>4, <1>5, <1>6, StepKinds DEF Quiet

\* A function means the one of the script loaded first among those a boot has seen, a
\* constant that of the script loaded last, until a boot gives it, too, to the script
\* loaded first: for every list that loads, boots, resets, forks and exceptions produce.
THEOREM NamesAlwaysResolve == Spec => []NamesResolve
<1>1. Init => ResolvesNow
    <2> SUFFICES ASSUME Init, NEW p \in Proc, NEW n \in Direct PROVE Resolves(p, n)
        BY DEF ResolvesNow
    <2>1. list[p] = <<>> /\ tab[p][<<n, ByName>>] = NoEntry
        BY DirectKey DEF Init
    <2>2. Declaring(p, n) = {} /\ BootedDeclaring(p, n) = {}
        BY <2>1 DEF Declaring, BootedDeclaring
    <2> QED
        BY <2>1, <2>2 DEF Resolves
<1>2. DataOK /\ Origins /\ ResolvesNow /\ [Next]_vars => ResolvesNow'
    BY ResolvesStep
<1>3. ResolvesNow => NamesResolve
    BY ResolvesAll DEF ResolvesNow, Alive
<1> QED
    BY <1>1, <1>2, <1>3, OriginsAlways, PTL DEF Spec


-------------------------------------------------------------------------------
\* ClassesResolve for one class that depends on no other.
Free == {n \in Classes : Needs[n] = {}}
Bound(p, n) == tab[p][<<n, ByName>>]

BoundWell(p, n) ==
    \E i, j \in FirstBooted(p, n) :
       /\ \A other \in FirstBooted(p, n) : i <= other
       /\ list[p][j].file = list[p][i].file /\ Bound(p, n) = Clone(list[p][j].load)
       /\ \A other \in FirstBooted(p, n) : list[p][other].file = list[p][i].file => other <= j

\* While a boot links, a class of file f that has not its name yet is where phase 1 has
\* put it, and the walk is not past it.
WaitingFor(p, n, f) ==
    LET having == Having(p, <<n, f>>)
    IN IF having = {}
         THEN tab[p][<<n, f>>] = NoEntry
         ELSE /\ tab[p][<<n, f>>] = Item(list[p][EarliestIn(having)].load)
              /\ place[p][<<n, f>>] = <<boots[p], LatestIn(having), Line[n]>>
              /\ ~Precedes(place[p][<<n, f>>], walk[p])

Waiting(p, n) ==
    /\ boots[p] # 0
    /\ \A i \in Declaring(p, n) : list[p][i].boot = boots[p]
    /\ \A f \in Files : WaitingFor(p, n, f)

Unseen(p, n) ==
    BootedDeclaring(p, n) = {} /\ \A f \in Files : tab[p][<<n, f>>] = NoEntry

ClassOf(p, n) ==
    /\ Bound(p, n) # NoEntry /\ Bound(p, n).load \in Loads(p) => BoundWell(p, n)
    /\ Bound(p, n) = NoEntry => IF pc[p] = "link" THEN Waiting(p, n) ELSE Unseen(p, n)

\* Boots are numbered too.
BootsNumbered == \A p \in Proc : \A i \in DOMAIN list[p] : list[p][i].boot <= boots[p]

ClassesNow == \A p \in Proc : \A n \in Free : ClassOf(p, n)

LEMMA BootsNumberedStep == DataOK /\ BootsNumbered /\ [Next]_vars => BootsNumbered'
<1> SUFFICES ASSUME DataOK, BootsNumbered, [Next]_vars, NEW q \in Proc
             PROVE  \A i \in DOMAIN list'[q] : list'[q][i].boot <= boots'[q]
    BY DEF BootsNumbered
<1>0. \A i \in DOMAIN list[q] : list[q][i].boot <= boots[q]
    BY DEF BootsNumbered
<1>1. CASE Unmoved(q)
    BY <1>0, <1>1 DEF Unmoved, SameLoads
<1>2. ASSUME NEW f \in Files, LoadFile(q, f)
      PROVE  \A i \in DOMAIN list'[q] : list'[q][i].boot <= boots'[q]
    <2>1. PICK d \in Node : KeepMemory(q, d) /\ d.boot = 0
        BY <1>2, LoadedNode
    <2>2. boots'[q] = boots[q] /\ 0 <= boots[q]
        BY <1>2, BoundAssumption DEF LoadFile, DataOK
    <2> QED
        BY <1>0, <2>1, <2>2, KeptFrom
<1>3. CASE BootStart(q)
    <2>1. boots'[q] = boots[q] + 1 /\ boots[q] \in Nat
        BY <1>3, BoundAssumption DEF BootStart, DataOK
    <2>2. /\ list[q] \in Seq(Node) /\ list' \in [Proc -> Seq(Node)]
          /\ Len(list'[q]) = Len(list[q])
          /\ \A i \in 1 .. Len(list[q]) :
                list'[q][i].boot = IF list[q][i].boot = 0 THEN boots[q] + 1 ELSE list[q][i].boot
        BY <1>3, BootedList DEF DataOK
    <2>3. DOMAIN list'[q] = 1 .. Len(list[q]) /\ DOMAIN list[q] = 1 .. Len(list[q])
        BY <2>2
    <2>4. ASSUME NEW i \in DOMAIN list[q] PROVE list'[q][i].boot <= boots'[q]
        <3>1. list[q][i].boot \in Nat /\ list[q][i].boot <= boots[q]
            BY <1>0, NodeLoads, BoundAssumption
        <3> QED
            BY <2>1, <2>2, <2>3, <3>1
    <2> QED
        BY <2>3, <2>4
<1>4. CASE LinkClass(q)
    BY <1>0, <1>4 DEF LinkClass
<1>5. CASE Empties(q)
    BY <1>5 DEF Empties
<1>6. ASSUME NEW p \in Proc, Copies(p, q)
      PROVE  \A i \in DOMAIN list'[q] : list'[q][i].boot <= boots'[q]
    BY <1>6 DEF Copies, BootsNumbered
<1> QED
    BY <1>1, <1>2, <1>3, <1>4, <1>5, <1>6, StepKinds DEF Quiet

\* The keys of a class that depends on no other.
LEMMA FreeKey ==
    ASSUME NEW n \in Free
    PROVE  /\ n \in Classes /\ n \notin Consts /\ <<n, ByName>> \in Key
           /\ \A f \in Files : <<n, f>> \in Key /\ <<n, f>> \in Classes \X Files
BY KeyParts, NameAssumption DEF Free, Names

LEMMA ClassKept ==
    ASSUME NEW p \in Proc, NEW n \in Free, ClassOf(p, n), Quiet(p), DataOK
    PROVE  ClassOf(p, n)'
<1>1. /\ Declaring(p, n)' = Declaring(p, n)
      /\ BootedDeclaring(p, n)' = BootedDeclaring(p, n)
    BY UnmovedDeclaring DEF Quiet
<1>2. /\ DOMAIN list'[p] = DOMAIN list[p]
      /\ \A i \in DOMAIN list[p] : /\ list'[p][i].load = list[p][i].load
                                   /\ list'[p][i].file = list[p][i].file
                                   /\ list'[p][i].boot = list[p][i].boot
      /\ tab'[p] = tab[p] /\ place'[p] = place[p] /\ walk'[p] = walk[p]
      /\ boots'[p] = boots[p] /\ (pc'[p] = "link" <=> pc[p] = "link")
    BY DEF Quiet, Unmoved, SameLoads, SameNode
<1>3. Bound(p, n)' = Bound(p, n) /\ Loads(p)' = Loads(p)
    BY <1>2 DEF Bound, Loads
<1>4. BootedDeclaring(p, n) \subseteq DOMAIN list[p] /\ Declaring(p, n) \subseteq DOMAIN list[p]
    BY DEF BootedDeclaring, Declaring
<1>5. FirstBooted(p, n)' = FirstBooted(p, n) /\ FirstBooted(p, n) \subseteq DOMAIN list[p]
    BY <1>1, <1>2, <1>4 DEF FirstBooted
<1>6. BoundWell(p, n) => BoundWell(p, n)'
    BY <1>2, <1>3, <1>5 DEF BoundWell
<1>7. ASSUME NEW f \in Files, WaitingFor(p, n, f) PROVE WaitingFor(p, n, f)'
    <2>1. Having(p, <<n, f>>)' = Having(p, <<n, f>>) /\ Having(p, <<n, f>>) \subseteq DOMAIN list[p]
        BY <1>2 DEF Having
    <2>2. Having(p, <<n, f>>) # {} => EarliestIn(Having(p, <<n, f>>)) \in DOMAIN list[p]
        BY <2>1, EarliestIsIn
    <2> QED
        BY <1>2, <1>7, <2>1, <2>2 DEF WaitingFor
<1>8. Waiting(p, n) => Waiting(p, n)'
    BY <1>1, <1>2, <1>4, <1>7 DEF Waiting
<1>9. Unseen(p, n) => Unseen(p, n)'
    BY <1>1, <1>2 DEF Unseen
<1> QED
    BY <1>2, <1>3, <1>6, <1>8, <1>9 DEF ClassOf

\* Scripts that are loaded after a boot change no class.
LEMMA ClassLoad ==
    ASSUME DataOK, Numbered, NEW p \in Proc, NEW f \in Files, LoadFile(p, f),
           NEW n \in Free, ClassOf(p, n)
    PROVE  ClassOf(p, n)'
<1> DEFINE id == <<p, calls[p] + 1>>
           old == BootedDeclaring(p, n)
           first == FirstBooted(p, n)
<1>1. PICK d \in Node : KeepMemory(p, d) /\ d.load = id
    BY LoadedNode
<1>2. /\ \A i \in DOMAIN list[p] : i + 1 \in DOMAIN list'[p] /\ list'[p][i + 1] = list[p][i]
      /\ \A j \in DOMAIN list'[p] :
            j = 1 \/ \E i \in DOMAIN list[p] : j = i + 1 /\ list'[p][j] = list[p][i]
      /\ list'[p][1].load = id
    BY <1>1, KeptFrom
<1>3. pc'[p] = pc[p] /\ pc[p] # "link"
    BY DEF LoadFile, Call
<1>4. \A k \in Key : k[1] \in Classes => tab'[p][k] = tab[p][k]
    <2>1. ASSUME NEW k \in Key, k[1] \in Classes, NEW m \in Declares[f] \cap Consts
          PROVE  k # KeyOf(m, f)
        BY <2>1, NameAssumption DEF KeyOf
    <2> QED
        BY <2>1, LoadTab
<1>5. /\ Bound(p, n)' = Bound(p, n)
      /\ \A g \in Files : tab'[p][<<n, g>>] = tab[p][<<n, g>>]
    BY <1>4, FreeKey DEF Bound
<1>6. BootedDeclaring(p, n)' = {i + 1 : i \in old} /\ old \subseteq DOMAIN list[p]
    BY LoadDeclaring DEF BootedDeclaring, Declaring
<1>7. /\ first \subseteq old /\ FirstBooted(p, n)' = {i + 1 : i \in first}
    <2>1. \A i \in old : list'[p][i + 1].boot = list[p][i].boot
        BY <1>2, <1>6
    <2>2. FirstBooted(p, n)' =
             {i \in BootedDeclaring(p, n)' :
                \A j \in BootedDeclaring(p, n)' : list'[p][i].boot <= list'[p][j].boot}
        BY DEF FirstBooted
    <2>3. first = {i \in old : \A j \in old : list[p][i].boot <= list[p][j].boot}
        BY DEF FirstBooted
    <2> HIDE DEF old, first
    <2>4. ASSUME NEW i \in old
          PROVE  i + 1 \in FirstBooted(p, n)' <=> i \in first
        BY <1>6, <2>1, <2>2, <2>3
    <2>5. FirstBooted(p, n)' \subseteq {i + 1 : i \in first}
        BY <1>6, <2>2, <2>4
    <2>6. first \subseteq old /\ {i + 1 : i \in first} \subseteq FirstBooted(p, n)'
        BY <2>3, <2>4
    <2> QED
        BY <2>5, <2>6
<1>8. ASSUME Bound(p, n) # NoEntry, Bound(p, n).load \in Loads(p)' PROVE BoundWell(p, n)'
    <2>1. Bound(p, n).load # id
        <3>1. Made(Bound(p, n).load)
            BY <1>8, FreeKey DEF Numbered, Bound
        <3>2. ~Made(id)
            BY BoundAssumption DEF Made, DataOK
        <3> QED
            BY <3>1, <3>2
    <2>2. Bound(p, n).load \in Loads(p)
        BY <1>2, <1>8, <2>1 DEF Loads
    <2>3. PICK i, j \in first :
             /\ \A other \in first : i <= other
             /\ list[p][j].file = list[p][i].file /\ Bound(p, n) = Clone(list[p][j].load)
             /\ \A other \in first : list[p][other].file = list[p][i].file => other <= j
        BY <1>8, <2>2 DEF ClassOf, BoundWell
    <2>4. /\ i + 1 \in FirstBooted(p, n)' /\ j + 1 \in FirstBooted(p, n)'
          /\ list'[p][i + 1] = list[p][i] /\ list'[p][j + 1] = list[p][j]
        BY <1>2, <1>6, <1>7
    <2>5. ASSUME NEW other \in FirstBooted(p, n)'
          PROVE  /\ i + 1 <= other
                 /\ list'[p][other].file = list[p][i].file => other <= j + 1
        <3>1. PICK m \in first : other = m + 1
            BY <1>7, <2>5
        <3>2. m \in Nat /\ i \in Nat /\ j \in Nat /\ list'[p][m + 1] = list[p][m]
            <4>1. DOMAIN list[p] \subseteq Nat
                BY DEF DataOK
            <4> QED
                BY <1>2, <1>6, <1>7, <4>1
        <3>3. i <= m /\ (list[p][m].file = list[p][i].file => m <= j)
            BY <2>3
        <3> QED
            BY <3>1, <3>2, <3>3
    <2> QED
        BY <1>5, <2>3, <2>4, <2>5 DEF BoundWell
<1>9. Unseen(p, n) => Unseen(p, n)'
    BY <1>5, <1>6 DEF Unseen
<1> QED
    BY <1>3, <1>5, <1>8, <1>9 DEF ClassOf

\* A place is three numbers; the first of two places in a boot is that of the script
\* that is nearer to the head of the list.
LEMMA PlaceOrder ==
    /\ \A b, i, l \in Nat : b # 0 => ~Precedes(<<b, i, l>>, Beginning)
    /\ \A b, i, j, l \in Nat : ~Precedes(<<b, j, l>>, <<b, i, l>>) => i <= j
BY DEF Precedes, Beginning

\* Phase 1 gives a name that is not there to nothing, but adds the keys.
LEMMA ClassBoot ==
    ASSUME DataOK, BootsNumbered, NEW p \in Proc, BootStart(p), NEW n \in Free, ClassOf(p, n)
    PROVE  ClassOf(p, n)'
<1> DEFINE all == Declaring(p, n)
           old == BootedDeclaring(p, n)
           first == FirstBooted(p, n)
<1>1. /\ SameLoads(p) /\ Declaring(p, n)' = all /\ BootedDeclaring(p, n)' = all
      /\ \A i \in all :
            list'[p][i].boot = IF list[p][i].boot = 0 THEN boots[p] + 1 ELSE list[p][i].boot
    BY BootDeclaring
<1>2. /\ DOMAIN list'[p] = DOMAIN list[p] /\ DOMAIN list[p] \subseteq Nat
      /\ \A i \in DOMAIN list[p] : /\ list'[p][i].load = list[p][i].load
                                   /\ list'[p][i].file = list[p][i].file
    BY <1>1 DEF SameLoads, SameNode, DataOK
<1>3. /\ tab'[p] = Registered(p) /\ place'[p] = Placed(p) /\ walk'[p] = Beginning
      /\ boots'[p] = boots[p] + 1 /\ boots[p] \in Nat
      /\ pc[p] = "idle" /\ pc'[p] = "link"
    BY BoundAssumption DEF BootStart, Goto, DataOK
<1>4. Bound(p, n)' = Bound(p, n)
    BY <1>3, FreeKey, HavingParts DEF Bound, Registered
<1>5. all \subseteq DOMAIN list[p] /\ old = {i \in all : list[p][i].boot # 0}
    BY DEF Declaring, BootedDeclaring
<1>6. \A i \in all : list[p][i].boot \in Nat /\ list[p][i].boot <= boots[p]
    <2>1. ASSUME NEW i \in DOMAIN list[p]
          PROVE  list[p][i].boot \in Nat /\ list[p][i].boot <= boots[p]
        BY NodeLoads, BoundAssumption DEF BootsNumbered
    <2> QED
        BY <1>5, <2>1
<1>7. CASE Bound(p, n) # NoEntry
    <2> SUFFICES ASSUME Bound(p, n).load \in Loads(p)' PROVE BoundWell(p, n)'
        BY <1>4, <1>7 DEF ClassOf
    <2>1. Loads(p)' = Loads(p)
        BY <1>2 DEF Loads
    <2>2. BoundWell(p, n)
        BY <1>7, <2>1 DEF ClassOf
    <2>3. first # {} /\ first \subseteq old
        BY <2>2 DEF BoundWell, FirstBooted
    <2>4. FirstBooted(p, n)' = {i \in all : \A j \in all : list'[p][i].boot <= list'[p][j].boot}
        BY <1>1 DEF FirstBooted
    <2>5. first = {i \in old : \A j \in old : list[p][i].boot <= list[p][j].boot}
        BY DEF FirstBooted
    <2> HIDE DEF all, old, first
    <2>6. ASSUME NEW i \in first PROVE i \in FirstBooted(p, n)'
        <3>1. i \in all /\ list'[p][i].boot = list[p][i].boot
            BY <1>1, <1>5, <2>3, <2>6
        <3>2. ASSUME NEW j \in all PROVE list'[p][i].boot <= list'[p][j].boot
            <4>1. CASE j \in old
                BY <1>1, <1>5, <2>5, <2>6, <3>1, <4>1
            <4>2. CASE j \notin old
                <5>1. list'[p][j].boot = boots[p] + 1
                    BY <1>1, <1>5, <4>2
                <5> QED
                    BY <1>3, <1>6, <3>1, <5>1
            <4> QED
                BY <4>1, <4>2
        <3> QED
            BY <2>4, <3>1, <3>2
    <2>7. ASSUME NEW i \in FirstBooted(p, n)' PROVE i \in first
        <3>1. PICK m \in first : TRUE
            BY <2>3
        <3>2. m \in old /\ m \in all /\ i \in all
            BY <1>5, <2>3, <2>4, <2>7
        <3>3. list'[p][m].boot = list[p][m].boot /\ list[p][m].boot <= boots[p]
            BY <1>1, <1>5, <1>6, <3>2
        <3>4. i \in old
            <4>1. CASE list[p][i].boot = 0
                <5>1. list'[p][i].boot = boots[p] + 1 /\ list'[p][i].boot <= list'[p][m].boot
                    BY <1>1, <2>4, <2>7, <3>2, <4>1
                <5>2. list[p][m].boot \in Nat
                    BY <1>6, <3>2
                <5> QED
                    BY <1>3, <3>3, <5>1, <5>2
            <4> QED
                BY <1>5, <3>2, <4>1
        <3>5. ASSUME NEW j \in old PROVE list[p][i].boot <= list[p][j].boot
            <4>1. list'[p][i].boot <= list'[p][j].boot
                BY <1>5, <2>4, <2>7
            <4> QED
                BY <1>1, <1>5, <3>4, <4>1
        <3> QED
            BY <2>5, <3>4, <3>5
    <2>8. FirstBooted(p, n)' = first /\ first \subseteq DOMAIN list[p]
        BY <1>5, <2>3, <2>6, <2>7
    <2> QED
        BY <1>2, <1>4, <2>2, <2>8 DEF BoundWell, first
<1>8. CASE Bound(p, n) = NoEntry
    <2>1. old = {} /\ \A f \in Files : tab[p][<<n, f>>] = NoEntry
        BY <1>3, <1>8 DEF ClassOf, Unseen
    <2>2. \A i \in all : list'[p][i].boot = boots'[p]
        BY <1>1, <1>3, <1>5, <2>1
    <2>3. boots'[p] # 0
        BY <1>3
    <2>4. ASSUME NEW f \in Files PROVE WaitingFor(p, n, f)'
        <3> DEFINE having == Having(p, <<n, f>>)
        <3>1. Having(p, <<n, f>>)' = having /\ having \subseteq DOMAIN list[p]
            BY <1>2 DEF Having
        <3>2. <<n, f>> \in Key /\ <<n, f>> \in Classes \X Files /\ <<n, f>>[1] = n
            BY FreeKey
        <3>3. CASE having = {}
            BY <1>3, <2>1, <3>1, <3>2, <3>3 DEF Registered, WaitingFor
        <3>4. CASE having # {}
            <4>1. EarliestIn(having) \in DOMAIN list[p] /\ LatestIn(having) \in Nat
                BY <1>2, <3>1, <3>4, EarliestIsIn
            <4>2. tab'[p][<<n, f>>] = Item(list[p][EarliestIn(having)].load)
                BY <1>3, <3>2, <3>4 DEF Registered
            <4>3. place'[p][<<n, f>>] = <<boots[p] + 1, LatestIn(having), Line[n]>>
                BY <1>3, <2>1, <3>2, <3>4 DEF Placed
            <4>4. Line[n] \in Nat
                BY FreeKey, NameAssumption
            <4>5. ~Precedes(place'[p][<<n, f>>], walk'[p])
                BY <1>3, <4>1, <4>3, <4>4, PlaceOrder
            <4> QED
                BY <1>2, <1>3, <3>1, <3>4, <4>1, <4>2, <4>3, <4>5 DEF WaitingFor, Precedes
        <3> QED
            BY <3>3, <3>4
    <2>5. Waiting(p, n)'
        BY <1>1, <2>2, <2>3, <2>4 DEF Waiting
    <2> QED
        BY <1>3, <1>4, <1>8, <2>5 DEF ClassOf
<1> QED
    BY <1>7, <1>8

\* A class that waits can be linked in this pass.
LEMMA WaitingAhead ==
    ASSUME DataOK, NEW p \in Proc, NEW n \in Free, Bound(p, n) = NoEntry,
           NEW f \in Files, WaitingFor(p, n, f), Having(p, <<n, f>>) # {}
    PROVE  <<n, f>> \in Linkable(p) /\ <<n, f>> \in Ahead(p)
<1>1. list[p][EarliestIn(Having(p, <<n, f>>))].load \in Load
    <2>1. EarliestIn(Having(p, <<n, f>>)) \in DOMAIN list[p]
        BY EarliestIsIn, FreeKey, HavingParts
    <2> QED
        BY <2>1, NodeLoads
<1>2. tab[p][<<n, f>>] # NoEntry
    BY <1>1, EntryParts DEF WaitingFor
<1>3. n \notin InTable(p) /\ Needs[n] = {}
    BY DEF InTable, Bound, Free
<1>4. <<n, f>> \in Linkable(p)
    BY <1>2, <1>3, FreeKey DEF Linkable
<1> QED
    BY <1>4 DEF Ahead, WaitingFor

\* The scripts that have an item with the key of such a class.
LEMMA HavingClass ==
    ASSUME DataOK, NEW p \in Proc, NEW n \in Free
    PROVE  /\ \A f \in Files : Having(p, <<n, f>>) \subseteq DOMAIN list[p]
           /\ \A i \in Declaring(p, n) : /\ list[p][i].file \in Files
                                        /\ i \in Having(p, <<n, list[p][i].file>>)
<1>1. ASSUME NEW f \in Files
      PROVE  /\ Having(p, <<n, f>>) \subseteq DOMAIN list[p]
             /\ Having(p, <<n, f>>) = {i \in Declaring(p, n) : list[p][i].file = f}
    BY FreeKey, HavingParts
<1>2. ASSUME NEW i \in Declaring(p, n) PROVE list[p][i].file \in Files
    <2>1. i \in DOMAIN list[p]
        BY DEF Declaring
    <2> QED
        BY <2>1, NodeLoads
<1> QED
    BY <1>1, <1>2

\* The next class to be linked is the one of the file loaded last.
LEMMA ClassLinked ==
    ASSUME DataOK, NEW p \in Proc, LinkClass(p), NEW n \in Free, ClassOf(p, n)
    PROVE  ClassOf(p, n)'
<1>1. PICK k \in Classes \X Files :
         /\ Links(p, k) /\ k \in Linkable(p) /\ k[1] \in Classes /\ k[2] \in Files
         /\ tab[p][k] # NoEntry
         /\ tab'[p][<<k[1], ByName>>] = Clone(tab[p][k].load)
         /\ \A j \in Key : j # k /\ j # <<k[1], ByName>> => tab'[p][j] = tab[p][j]
    BY LinkedOne
<1>2. /\ list' = list /\ place' = place /\ boots' = boots /\ pc' = pc /\ pc[p] = "link"
      /\ walk'[p] = place[p][k]
    BY <1>1 DEF LinkClass, Links, DataOK
<1>3. k = <<k[1], k[2]>>
    OBVIOUS
<1>4. /\ Declaring(p, n)' = Declaring(p, n) /\ BootedDeclaring(p, n)' = BootedDeclaring(p, n)
      /\ FirstBooted(p, n)' = FirstBooted(p, n) /\ Loads(p)' = Loads(p)
      /\ \A j \in Key : Having(p, j)' = Having(p, j)
    BY <1>2 DEF Declaring, BootedDeclaring, FirstBooted, Loads, Having
<1>5. ASSUME Bound(p, n) = NoEntry, NEW f \in Files, Having(p, <<n, f>>) # {}
      PROVE  /\ WaitingFor(p, n, f) /\ Turn(p) = Ahead(p)
             /\ <<n, f>> \in Ahead(p) /\ ~Precedes(place[p][<<n, f>>], place[p][k])
    <2>1. WaitingFor(p, n, f)
        BY <1>2, <1>5 DEF ClassOf, Waiting
    <2>2. <<n, f>> \in Ahead(p)
        BY <1>5, <2>1, WaitingAhead
    <2>3. Turn(p) = Ahead(p)
        BY <2>2 DEF Turn
    <2> QED
        BY <1>1, <2>1, <2>2, <2>3 DEF Links
<1>6. CASE k[1] # n
    <2>1. /\ Bound(p, n)' = Bound(p, n)
          /\ \A f \in Files : tab'[p][<<n, f>>] = tab[p][<<n, f>>]
        <3>1. <<n, ByName>> # k /\ <<n, ByName>> # <<k[1], ByName>>
            BY <1>3, <1>6
        <3>2. \A f \in Files : <<n, f>> # k /\ <<n, f>> # <<k[1], ByName>>
            BY <1>3, <1>6
        <3> QED
            BY <1>1, <3>1, <3>2, FreeKey DEF Bound
    <2>2. BoundWell(p, n) => BoundWell(p, n)'
        BY <1>2, <1>4, <2>1 DEF BoundWell
    <2>3. ASSUME Bound(p, n) = NoEntry, NEW f \in Files PROVE WaitingFor(p, n, f)'
        <3>1. WaitingFor(p, n, f) /\ Having(p, <<n, f>>)' = Having(p, <<n, f>>)
            BY <1>2, <1>4, <2>3, FreeKey DEF ClassOf, Waiting
        <3>2. CASE Having(p, <<n, f>>) = {}
            BY <2>1, <3>1, <3>2 DEF WaitingFor
        <3>3. CASE Having(p, <<n, f>>) # {}
            <4>1. ~Precedes(place[p][<<n, f>>], place[p][k])
                BY <1>5, <2>3, <3>3
            <4> QED
                BY <1>2, <2>1, <3>1, <3>3, <4>1 DEF WaitingFor, Precedes
        <3> QED
            BY <3>2, <3>3
    <2>4. Bound(p, n) = NoEntry => Waiting(p, n)'
        BY <1>2, <1>4, <2>3 DEF Waiting, ClassOf
    <2> QED
        BY <1>2, <1>4, <2>1, <2>2, <2>4 DEF ClassOf
<1>7. CASE k[1] = n
    <2> DEFINE f == k[2]
               having == Having(p, <<n, f>>)
               first == FirstBooted(p, n)
               i == LatestIn(having)
               j == EarliestIn(having)
    <2>1. k = <<n, f>> /\ f \in Files /\ Bound(p, n) = NoEntry
        <3>1. k[1] \notin InTable(p)
            BY <1>1 DEF Linkable
        <3> QED
            BY <1>1, <1>3, <1>7, <3>1, FreeKey DEF InTable, Bound
    <2>2. Waiting(p, n)
        BY <1>2, <2>1 DEF ClassOf
    <2>3. having # {}
        BY <1>1, <2>1, <2>2 DEF Waiting, WaitingFor
    <2>4. first = Declaring(p, n)
        <3>1. BootedDeclaring(p, n) = Declaring(p, n)
            BY <2>2 DEF Waiting, BootedDeclaring
        <3>2. boots[p] <= boots[p]
            BY BoundAssumption DEF DataOK
        <3> QED
            BY <2>2, <3>1, <3>2 DEF FirstBooted, Waiting
    <2>5. /\ i \in having /\ j \in having
          /\ \A other \in having : i <= other /\ other <= j
        BY <2>3, EarliestIsIn, FreeKey, HavingParts
    <2>6. having = {m \in first : list[p][m].file = f}
        BY <2>1, <2>4, FreeKey, HavingParts
    <2>7. first \subseteq DOMAIN list[p] /\ DOMAIN list[p] \subseteq Nat
        BY <2>4 DEF Declaring, DataOK
    <2>8. Bound(p, n)' = Clone(list[p][j].load)
        <3>1. tab[p][k] = Item(list[p][j].load)
            BY <2>1, <2>2, <2>3 DEF Waiting, WaitingFor
        <3> QED
            BY <1>1, <1>7, <3>1, EntryParts DEF Bound
    <2>9. ASSUME NEW other \in first PROVE i <= other
        <3> DEFINE g == list[p][other].file
                   theirs == Having(p, <<n, g>>)
        <3>1. g \in Files /\ other \in theirs
            BY <2>4, HavingClass
        <3>2. WaitingFor(p, n, g) /\ ~Precedes(place[p][<<n, g>>], place[p][<<n, f>>])
            BY <1>5, <2>1, <3>1
        <3>3. /\ place[p][<<n, g>>] = <<boots[p], LatestIn(theirs), Line[n]>>
              /\ place[p][<<n, f>>] = <<boots[p], i, Line[n]>>
            BY <2>1, <2>2, <2>3, <3>1, <3>2 DEF Waiting, WaitingFor
        <3>4. LatestIn(theirs) \in theirs /\ LatestIn(theirs) <= other
            BY <3>1, EarliestIsIn, FreeKey, HavingParts
        <3>5. /\ boots[p] \in Nat /\ Line[n] \in Nat
              /\ i \in Nat /\ LatestIn(theirs) \in Nat /\ other \in Nat
            <4>1. theirs \subseteq DOMAIN list[p]
                BY <3>1, HavingClass
            <4>2. boots[p] \in Nat
                BY BoundAssumption DEF DataOK
            <4>3. Line[n] \in Nat
                BY FreeKey, NameAssumption
            <4>4. i \in DOMAIN list[p] /\ other \in DOMAIN list[p]
                BY <2>5, <2>6, <2>7
            <4>5. LatestIn(theirs) \in DOMAIN list[p]
                BY <3>4, <4>1
            <4> QED
                BY <2>7, <4>2, <4>3, <4>4, <4>5
        <3>6. i <= LatestIn(theirs)
            BY <3>2, <3>3, <3>5, PlaceOrder
        <3> QED
            BY <3>4, <3>5, <3>6
    <2>10. BoundWell(p, n)'
        <3>1. list'[p] = list[p] /\ FirstBooted(p, n)' = first
            BY <1>2, <1>4
        <3>2. i \in first /\ j \in first /\ list[p][i].file = f /\ list[p][j].file = f
            BY <2>5, <2>6
        <3>3. \A other \in first : list[p][other].file = f => other <= j
            BY <2>5, <2>6
        <3> HIDE DEF i, j, f, first
        <3> QED
            BY <2>8, <2>9, <3>1, <3>2, <3>3 DEF BoundWell
    <2>11. Bound(p, n)' # NoEntry
        <3>1. j \in DOMAIN list[p]
            BY <2>5, <2>6, <2>7
        <3> QED
            BY <2>8, <3>1, NodeLoads, EntryParts
    <2> QED
        BY <2>10, <2>11 DEF ClassOf
<1> QED
    BY <1>6, <1>7

\* When nothing can be linked any more no such class waits.
LEMMA ClassDone ==
    ASSUME DataOK, NEW p \in Proc, LinkDone(p), Unmoved(p), NEW n \in Free, ClassOf(p, n)
    PROVE  ClassOf(p, n)'
<1>1. pc[p] = "link" /\ pc'[p] = "boot" /\ Linkable(p) = {} /\ UNCHANGED <<list, tab>>
    BY DEF LinkDone, Goto, DataOK
<1>2. /\ Bound(p, n)' = Bound(p, n) /\ Loads(p)' = Loads(p)
      /\ BootedDeclaring(p, n)' = BootedDeclaring(p, n)
      /\ BoundWell(p, n) => BoundWell(p, n)'
    BY <1>1 DEF Bound, Loads, BootedDeclaring, Declaring, BoundWell, FirstBooted
<1>3. ASSUME Bound(p, n) = NoEntry PROVE Unseen(p, n)
    <2>1. ASSUME NEW f \in Files
          PROVE  Having(p, <<n, f>>) = {} /\ tab[p][<<n, f>>] = NoEntry
        <3>1. WaitingFor(p, n, f)
            BY <1>1, <1>3 DEF ClassOf, Waiting
        <3>2. Having(p, <<n, f>>) = {}
            BY <1>1, <1>3, <3>1, WaitingAhead
        <3> QED
            BY <3>1, <3>2 DEF WaitingFor
    <2>2. ASSUME NEW i \in Declaring(p, n) PROVE FALSE
        <3>1. /\ list[p][i].file \in Files
              /\ i \in Having(p, <<n, list[p][i].file>>)
            BY HavingClass
        <3> QED
            BY <2>1, <3>1
    <2> QED
        BY <2>1, <2>2 DEF Unseen, BootedDeclaring
<1>4. Unseen(p, n) => Unseen(p, n)'
    BY <1>1, <1>2 DEF Unseen
<1> QED
    BY <1>1, <1>2, <1>3, <1>4 DEF ClassOf

LEMMA ClassEmpty ==
    ASSUME DataOK, Origins, NEW p \in Proc, Empties(p), NEW n \in Free
    PROVE  ClassOf(p, n)'
<1>1. list'[p] = <<>> /\ pc'[p] # "link"
    BY DEF Empties
<1>2. Loads(p)' = {} /\ BootedDeclaring(p, n)' = {}
    BY <1>1 DEF Loads, BootedDeclaring, Declaring
<1>3. ASSUME NEW f \in Files PROVE tab'[p][<<n, f>>] = NoEntry
    <2>1. <<n, f>> \in Key /\ ~Copied(p, <<n, f>>)
        BY FreeKey, NameAssumption DEF Copied
    <2> QED
        BY <2>1, CleanedOf DEF Empties
<1> QED
    BY <1>1, <1>2, <1>3 DEF ClassOf, Unseen

LEMMA ClassCopied ==
    ASSUME NEW p \in Proc, NEW q \in Proc, Copies(p, q), NEW n \in Free, ClassOf(p, n)
    PROVE  ClassOf(q, n)'
<1>1. /\ list'[q] = list[p] /\ tab'[q] = tab[p] /\ pc'[q] = pc[p] /\ pc[p] # "link"
    BY DEF Copies
<1>2. /\ Bound(q, n)' = Bound(p, n) /\ Loads(q)' = Loads(p)
      /\ BootedDeclaring(q, n)' = BootedDeclaring(p, n)
      /\ FirstBooted(q, n)' = FirstBooted(p, n)
    BY <1>1 DEF Bound, Loads, BootedDeclaring, Declaring, FirstBooted
<1>3. BoundWell(p, n) => BoundWell(q, n)'
    BY <1>1, <1>2 DEF BoundWell
<1>4. Unseen(p, n) => Unseen(q, n)'
    BY <1>1, <1>2 DEF Unseen
<1> QED
    BY <1>1, <1>2, <1>3, <1>4 DEF ClassOf

LEMMA ClassesStep ==
    DataOK /\ Origins /\ Numbered /\ BootsNumbered /\ ClassesNow /\ [Next]_vars => ClassesNow'
<1> SUFFICES ASSUME DataOK, Origins, Numbered, BootsNumbered, ClassesNow, [Next]_vars,
                    NEW q \in Proc, NEW n \in Free
             PROVE  ClassOf(q, n)'
    BY DEF ClassesNow, Free
<1>0. \A p \in Proc : ClassOf(p, n)
    BY DEF ClassesNow
<1>1. CASE Quiet(q)
    BY <1>0, <1>1, ClassKept
<1>2. ASSUME NEW f \in Files, LoadFile(q, f) PROVE ClassOf(q, n)'
    BY <1>0, <1>2, ClassLoad
<1>3. CASE BootStart(q)
    BY <1>0, <1>3, ClassBoot
<1>4. CASE LinkClass(q)
    BY <1>0, <1>4, ClassLinked
<1>5. CASE LinkDone(q) /\ Unmoved(q)
    BY <1>0, <1>5, ClassDone
<1>6. CASE Empties(q)
    BY <1>6, ClassEmpty
<1>7. ASSUME NEW p \in Proc, Copies(p, q) PROVE ClassOf(q, n)'
    BY <1>0, <1>7, ClassCopied
<1> QED
    BY <1>1, <1>2, <1>3, <1>4, <1>5, <1>6, <1>7, StepKinds

\* A class that depends on no other is, as long as the script it was linked from is
\* loaded, that of the first boot that has seen the name, there of the file loaded
\* last, and of that file's loads the first: for every list of loads, boots, linkings,
\* resets and forks, whichever classes the files share.
THEOREM ClassesAlwaysResolve == Spec => []ClassesResolve
<1>1. Init => BootsNumbered /\ ClassesNow
    <2> SUFFICES ASSUME Init, NEW p \in Proc
                 PROVE  /\ \A i \in DOMAIN list[p] : list[p][i].boot <= boots[p]
                        /\ \A n \in Free : ClassOf(p, n)
        BY DEF BootsNumbered, ClassesNow
    <2>1. list[p] = <<>> /\ pc[p] # "link" /\ \A k \in Key : tab[p][k] = NoEntry
        BY DEF Init
    <2>2. \A n \in Free : Bound(p, n) = NoEntry /\ \A f \in Files : tab[p][<<n, f>>] = NoEntry
        BY <2>1, FreeKey DEF Bound
    <2>3. \A n \in Free : BootedDeclaring(p, n) = {}
        BY <2>1 DEF BootedDeclaring, Declaring
    <2> QED
        BY <2>1, <2>2, <2>3 DEF ClassOf, Unseen
<1>2. DataOK /\ Origins /\ Numbered /\ BootsNumbered /\ ClassesNow /\ [Next]_vars
         => BootsNumbered' /\ ClassesNow'
    BY BootsNumberedStep, ClassesStep
<1>3. ClassesNow => ClassesResolve
    <2> SUFFICES ASSUME ClassesNow, NEW p \in Alive, NEW n \in Free, pc[p] # "link"
                 PROVE  /\ FirstBooted(p, n) # {} => Bound(p, n) # NoEntry
                        /\ Bound(p, n) # NoEntry /\ Bound(p, n).load \in Loads(p) => BoundWell(p, n)
        BY DEF ClassesResolve, Free, Bound, BoundWell
    <2>1. ClassOf(p, n)
        BY DEF ClassesNow, Alive
    <2>2. FirstBooted(p, n) \subseteq BootedDeclaring(p, n)
        BY DEF FirstBooted
    <2> QED
        BY <2>1, <2>2 DEF ClassOf, Unseen
<1> QED
    BY <1>1, <1>2, <1>3, NumberedAlways, PTL DEF Spec
===============================================================================
