-------------------------- MODULE ScriptStore_proofs --------------------------
(***************************************************************************)
(* Proofs about the store of .phpc files, for any number of writers and    *)
(* loaders whose writers have a pid each.                                  *)
(*                                                                         *)
(* The inductive invariant says why no writer reaches a file that others   *)
(* can see: a temporary name belongs to one writer (OwnName), the inode    *)
(* under it is not the target's nor one a loader has open (OutOfSight), an *)
(* inode that is in sight is whole, and a store that is about to rename    *)
(* has all of its own bytes under the temporary name (Written).            *)
(***************************************************************************)
EXTENDS ScriptStore, TLAPS

OnePidEach == \A v, w \in Writers : PidOf[v] = PidOf[w] => v = w

\* An inode that a loader has open or can open.
InSight(i) == i = target \/ \E r \in Readers : rd[r].open = i

\* Storing a file, with its name on the disk.
Named(w) == pc[w] \in {"lock", "write", "unlock", "rename"}

OwnName ==
    /\ \A w \in Writers : Named(w) => tmp[Pid(w)] # Nothing
    /\ \A w \in Writers : fd[w] # Nothing => fd[w] = tmp[Pid(w)]
    /\ \A p, q \in Pids : tmp[p] = tmp[q] /\ tmp[p] # Nothing => p = q

OutOfSight == \A p \in Pids : tmp[p] # Nothing => ~InSight(tmp[p])

WholeInSight ==
    \A i \in Inode : InSight(i) =>
        data[i].head = data[i].body /\ data[i].head # Nothing

\* The inode that a store will create is not there yet.
Fresh ==
    \A w \in Writers, k \in 1 .. MaxStores :
        InSight(<<w, k>>) \/ (\E p \in Pids : tmp[p] = <<w, k>>) =>
            k < stores[w] \/ (k = stores[w] /\ pc[w] # "open")

Written ==
    \A w \in Writers : pc[w] \in {"unlock", "rename"} =>
        data[tmp[Pid(w)]] = Whole(Storing(w))

\* The header in the hands of a loader is that of the file it has open.
HeaderKept ==
    \A r \in Readers : rd[r] # NoLoad =>
        rd[r].open # Nothing /\ rd[r].head = data[rd[r].open].head

\* What a store in progress has to release.
Held ==
    \A w \in Writers :
        /\ pc[w] \in {"open", "lock"} => owned[w] = AtFailure \cup {"mem", "names"}
        /\ pc[w] = "write" => owned[w] = Memory
        /\ pc[w] \in {"unlock", "rename"} => owned[w] = {"mem", "names", "buf"}

\* stores[w] counts the store in progress.
Counted == \A w \in Writers : pc[w] \notin {"idle", "dead"} => stores[w] \in 1 .. MaxStores

IInv ==
    /\ TypeOK
    /\ OwnName
    /\ OutOfSight
    /\ WholeInSight
    /\ Fresh
    /\ Written
    /\ HeaderKept
    /\ Held
    /\ Counted
    /\ LoadsWhole

-------------------------------------------------------------------------------
\* Where names, inodes and versions come from.
LEMMA StoreTypes ==
    /\ Nothing \notin Inode /\ Nothing \notin Writers
    /\ Torn # Nothing /\ Torn \notin Version
    /\ Version = Inode
    /\ \A w \in Writers : Pid(w) \in Pids
BY PidAssumption, StoreAssumption DEF Inode, Version, Pid

\* What is written is content.
LEMMA ContentTypes ==
    /\ Empty \in Content
    /\ \A v \in Version : Whole(v) \in Content /\ [head |-> v, body |-> Nothing] \in Content
BY DEF Empty, Content, Part, Whole

\* A store in progress has a version of its own.
LEMMA StoringVersion ==
    ASSUME TypeOK, Counted, NEW w \in Writers, pc[w] \notin {"idle", "dead"}
    PROVE  Storing(w) \in Version
BY DEF Counted, Storing, Version

LEMMA OpenedInode ==
    ASSUME TypeOK, Counted, NEW w \in Writers, pc[w] = "open"
    PROVE  Opened(w) \in Inode
<1>1. Storing(w) \in Inode
    BY StoringVersion, StoreTypes
<1>2. tmp[Pid(w)] \in Inode \cup {Nothing}
    BY StoreTypes DEF TypeOK
<1> QED
    BY <1>1, <1>2 DEF Opened

HeapType ==
    owned \in [Writers -> SUBSET Memory] /\ misfreed \in [Writers -> SUBSET Memory]

LEMMA ReleaseType ==
    ASSUME HeapType, NEW w \in Writers, NEW R \in SUBSET Memory, Release(w, R)
    PROVE  HeapType'
BY DEF HeapType, Release

\* close takes the writer's lock away and nobody else's.
LEMMA CloseType ==
    ASSUME TypeOK, NEW w \in Writers, Close(w)
    PROVE  /\ fd' \in [Writers -> Inode \cup {Nothing}]
           /\ flock' \in [Inode -> Writers \cup {Nothing}]
           /\ fd'[w] = Nothing
           /\ \A v \in Writers : v # w => fd'[v] = fd[v]
           /\ \A i \in Inode : flock'[i] # Nothing => fd'[flock'[i]] = i
<1>1. fd' = [fd EXCEPT ![w] = Nothing]
    BY DEF Close
<1>2. \A i \in Inode : flock'[i] = IF i = fd[w] /\ flock[i] = w THEN Nothing ELSE flock[i]
    BY DEF Close
<1>3. flock' \in [Inode -> Writers \cup {Nothing}]
    BY DEF Close, TypeOK
<1>4. ASSUME NEW i \in Inode, flock'[i] # Nothing
      PROVE  fd'[flock'[i]] = i
    <2>1. flock[i] = flock'[i] /\ ~(i = fd[w] /\ flock[i] = w)
        BY <1>2, <1>4
    <2>2. flock[i] \in Writers /\ fd[flock[i]] = i
        BY <2>1, <1>4 DEF TypeOK
    <2>3. flock[i] # w
        BY <2>1, <2>2
    <2> QED
        BY <1>1, <2>1, <2>2, <2>3 DEF TypeOK
<1> QED
    BY <1>1, <1>3, <1>4 DEF TypeOK

LEMMA InitTypeOK == Init => TypeOK
BY StoreAssumption DEF Init, TypeOK, Empty, Content, Part, NoLoad, Memory

\* The type invariant is preserved by every step.
LEMMA TypeStep == TypeOK /\ Counted /\ HeaderKept /\ [Next]_vars => TypeOK'
<1> SUFFICES ASSUME TypeOK, Counted, HeaderKept, [Next]_vars PROVE TypeOK'
    OBVIOUS
<1> USE StoreAssumption, StoreTypes
<1>a. HeapType
    BY DEF TypeOK, HeapType
<1>1. ASSUME NEW w \in Writers, Begin(w) PROVE TypeOK'
    BY <1>1 DEF TypeOK, Begin, Goto, HeapVars, ReaderVars, AtFailure, Memory
<1>2. ASSUME NEW w \in Writers, Open(w) PROVE TypeOK'
    <2>1. Opened(w) \in Inode
        BY <1>2, OpenedInode DEF Open
    <2>2. data' \in [Inode -> Content]
        BY <1>2, <2>1, ContentTypes DEF Open, TypeOK
    <2>3. fd' \in [Writers -> Inode \cup {Nothing}] /\ tmp' \in [Pids -> Inode \cup {Nothing}]
        BY <1>2, <2>1 DEF Open, TypeOK
    <2>4. /\ \A v \in Writers : fd'[v] # Nothing <=> pc'[v] \in {"lock", "write", "unlock"}
          /\ \A j \in Inode : flock'[j] # Nothing => fd'[flock'[j]] = j
        BY <1>2, <2>1 DEF Open, TypeOK, Goto
    <2> QED
        BY <1>2, <2>2, <2>3, <2>4 DEF Open, TypeOK, Goto, HeapVars, ReaderVars
<1>3. ASSUME NEW w \in Writers, OpenFails(w) PROVE TypeOK'
    <2>h. HeapType'
        <3>1. /\ Release(w, AtFailure \cup {"mem", "names"})
              /\ AtFailure \cup {"mem", "names"} \in SUBSET Memory
            BY <1>3 DEF OpenFails, AtFailure, Memory
        <3> QED
            BY <1>a, <3>1, ReleaseType
    <2> QED
        BY <1>3, <2>h DEF OpenFails, TypeOK, Goto, Return, ReaderVars, HeapType
<1>4. ASSUME NEW w \in Writers, Lock(w) PROVE TypeOK'
    <2>1. fd[w] \in Inode
        BY <1>4 DEF Lock, TypeOK
    <2>2. owned' \in [Writers -> SUBSET Memory] /\ misfreed' = misfreed
        BY <1>4 DEF Lock, TypeOK, Allocate, Memory
    <2>3. /\ flock' \in [Inode -> Writers \cup {Nothing}]
          /\ \A j \in Inode : flock'[j] # Nothing => fd'[flock'[j]] = j
        BY <1>4, <2>1 DEF Lock, TypeOK
    <2>4. \A v \in Writers : fd'[v] # Nothing <=> pc'[v] \in {"lock", "write", "unlock"}
        BY <1>4, <2>1 DEF Lock, TypeOK, Goto
    <2> QED
        BY <1>4, <2>1, <2>2, <2>3, <2>4 DEF Lock, TypeOK, Goto, ReaderVars
<1>5. ASSUME NEW w \in Writers, LockFails(w) PROVE TypeOK'
    <2>h. HeapType'
        <3>1. /\ Release(w, AtFailure \cup {"mem", "names"})
              /\ AtFailure \cup {"mem", "names"} \in SUBSET Memory
            BY <1>5 DEF LockFails, AtFailure, Memory
        <3> QED
            BY <1>a, <3>1, ReleaseType
    <2>1. tmp' \in [Pids -> Inode \cup {Nothing}]
        BY <1>5 DEF LockFails, UnlinkTmp, TypeOK
    <2> QED
        BY <1>5, <2>h, <2>1, CloseType DEF LockFails, TypeOK, Goto, Return,
           ReaderVars, HeapType
<1>6. ASSUME NEW w \in Writers, WriteAll(w) PROVE TypeOK'
    <2>h. HeapType'
        <3>1. /\ Release(w, AtFailure \cup {"pool"})
              /\ AtFailure \cup {"pool"} \in SUBSET Memory
            BY <1>6 DEF WriteAll, AtFailure, Memory
        <3> QED
            BY <1>a, <3>1, ReleaseType
    <2>1. Storing(w) \in Version
        BY <1>6, StoringVersion DEF WriteAll
    <2>2. data' \in [Inode -> Content]
        BY <1>6, <2>1, ContentTypes DEF WriteAll, TypeOK
    <2> QED
        BY <1>6, <2>h, <2>2 DEF WriteAll, TypeOK, Goto, ReaderVars, HeapType
<1>7. ASSUME NEW w \in Writers, WriteShort(w) PROVE TypeOK'
    <2>h. HeapType'
        <3>1. /\ Release(w, Memory)
              /\ Memory \in SUBSET Memory
            BY <1>7 DEF WriteShort, AtFailure, Memory
        <3> QED
            BY <1>a, <3>1, ReleaseType
    <2>1. Storing(w) \in Version
        BY <1>7, StoringVersion DEF WriteShort
    <2>2. data' \in [Inode -> Content]
        BY <1>7, <2>1, ContentTypes DEF WriteShort, TypeOK
    <2>3. tmp' \in [Pids -> Inode \cup {Nothing}]
        BY <1>7 DEF WriteShort, UnlinkTmp, TypeOK
    <2> QED
        BY <1>7, <2>h, <2>2, <2>3, CloseType
        DEF WriteShort, TypeOK, Goto, Return, ReaderVars, HeapType
<1>8. ASSUME NEW w \in Writers, Unlock(w) PROVE TypeOK'
    <2> QED
        BY <1>8, CloseType DEF Unlock, TypeOK, Goto, ReaderVars, HeapVars
<1>9. ASSUME NEW w \in Writers, Rename(w) PROVE TypeOK'
    <2>h. HeapType'
        <3>1. /\ Release(w, {"names", "buf", "mem"})
              /\ {"names", "buf", "mem"} \in SUBSET Memory
            BY <1>9 DEF Rename, AtFailure, Memory
        <3> QED
            BY <1>a, <3>1, ReleaseType
    <2>1. tmp' \in [Pids -> Inode \cup {Nothing}] /\ target' \in Inode \cup {Nothing}
        BY <1>9 DEF Rename, UnlinkTmp, TypeOK
    <2> QED
        BY <1>9, <2>h, <2>1 DEF Rename, TypeOK, Goto, Return, ReaderVars, HeapType
<1>10. ASSUME NEW w \in Writers, RenameFails(w) PROVE TypeOK'
    <2>h. HeapType'
        <3>1. /\ Release(w, AtFailure \cup {"names", "buf"})
              /\ AtFailure \cup {"names", "buf"} \in SUBSET Memory
            BY <1>10 DEF RenameFails, AtFailure, Memory
        <3> QED
            BY <1>a, <3>1, ReleaseType
    <2>1. tmp' \in [Pids -> Inode \cup {Nothing}]
        BY <1>10 DEF RenameFails, UnlinkTmp, TypeOK
    <2> QED
        BY <1>10, <2>h, <2>1 DEF RenameFails, TypeOK, Goto, Return, ReaderVars,
           HeapType
<1>11. ASSUME NEW w \in Writers, Kill(w) PROVE TypeOK'
    <2>h. HeapType'
        BY <1>11 DEF Kill, TypeOK, HeapType
    <2> QED
        BY <1>11, <2>h, CloseType DEF Kill, TypeOK, Goto, ReaderVars, HeapType
<1>12. ASSUME NEW w \in Writers, Restart(w) PROVE TypeOK'
    BY <1>12 DEF TypeOK, Restart, Goto, HeapVars, ReaderVars
<1>13. ASSUME NEW r \in Readers, LoadHeader(r) PROVE TypeOK'
    BY <1>13 DEF TypeOK, LoadHeader, Goto, HeapVars, ReaderVars, NoLoad, Content,
       Part
<1>14. ASSUME NEW r \in Readers, LoadPayload(r) PROVE TypeOK'
    <2>1. /\ rd' \in [Readers -> [open : Inode \cup {Nothing}, head : Part]]
          /\ rd[r].head \in Part
        BY <1>14 DEF LoadPayload, TypeOK, NoLoad, Part
    <2>2. CASE rd[r].open \in Inode
        <3>1. data[rd[r].open] \in Content
            BY <2>2 DEF TypeOK
        <3>2. Body(r) \in Part
            BY <3>1 DEF Body, Content
        <3>3. [head |-> rd[r].head, body |-> Body(r)] \in Content
            BY <2>1, <3>2 DEF Content
        <3>4. loaded' \in [Readers -> Content]
            BY <1>14, <3>3 DEF LoadPayload, TypeOK
        <3> QED
            BY <1>14, <2>1, <3>4 DEF LoadPayload, TypeOK, HeapVars
    <2>3. CASE rd[r].open \notin Inode
        BY <1>14, <2>3 DEF LoadPayload, TypeOK, HeaderKept
    <2> QED
        BY <2>2, <2>3
<1>15. CASE UNCHANGED vars
    BY <1>15 DEF TypeOK, vars
<1> QED
    BY <1>1, <1>2, <1>3, <1>4, <1>5, <1>6, <1>7, <1>8, <1>9, <1>10, <1>11, <1>12,
       <1>13, <1>14, <1>15 DEF Next, Step

\* A count is a count of stores.
LEMMA CountedStep == TypeOK /\ Counted /\ [Next]_vars => Counted'
<1> SUFFICES ASSUME TypeOK, Counted, [Next]_vars PROVE Counted'
    OBVIOUS
<1> USE StoreAssumption DEF TypeOK, Counted
<1>1. ASSUME NEW u \in Writers, Begin(u) PROVE Counted'
    BY <1>1 DEF Begin, Goto, ReaderVars
<1>2. ASSUME NEW u \in Writers, Open(u) PROVE Counted'
    BY <1>2 DEF Open, Goto, HeapVars, ReaderVars
<1>3. ASSUME NEW u \in Writers, OpenFails(u) PROVE Counted'
    BY <1>3 DEF OpenFails, Goto, Return, Release, ReaderVars
<1>4. ASSUME NEW u \in Writers, Lock(u) PROVE Counted'
    BY <1>4 DEF Lock, Goto, Allocate, ReaderVars
<1>5. ASSUME NEW u \in Writers, LockFails(u) PROVE Counted'
    BY <1>5 DEF LockFails, Close, UnlinkTmp, Return, Goto, Release, ReaderVars
<1>6. ASSUME NEW u \in Writers, WriteAll(u) PROVE Counted'
    BY <1>6 DEF WriteAll, Goto, Release, ReaderVars
<1>7. ASSUME NEW u \in Writers, WriteShort(u) PROVE Counted'
    BY <1>7 DEF WriteShort, Close, UnlinkTmp, Return, Goto, Release, ReaderVars
<1>8. ASSUME NEW u \in Writers, Unlock(u) PROVE Counted'
    BY <1>8 DEF Unlock, Close, Goto, HeapVars, ReaderVars
<1>9. ASSUME NEW u \in Writers, Rename(u) PROVE Counted'
    BY <1>9 DEF Rename, UnlinkTmp, Return, Goto, Release, ReaderVars
<1>10. ASSUME NEW u \in Writers, RenameFails(u) PROVE Counted'
    BY <1>10 DEF RenameFails, UnlinkTmp, Return, Goto, Release, ReaderVars
<1>11. ASSUME NEW u \in Writers, Kill(u) PROVE Counted'
    BY <1>11 DEF Kill, Close, Goto, ReaderVars
<1>12. ASSUME NEW u \in Writers, Restart(u) PROVE Counted'
    BY <1>12 DEF Restart, Goto, HeapVars, ReaderVars
<1>13. ASSUME NEW r \in Readers, LoadHeader(r) PROVE Counted'
    BY <1>13 DEF LoadHeader, HeapVars
<1>14. ASSUME NEW r \in Readers, LoadPayload(r) PROVE Counted'
    BY <1>14 DEF LoadPayload, HeapVars
<1>15. CASE UNCHANGED vars
    BY <1>15 DEF vars
<1> QED
    BY <1>1, <1>2, <1>3, <1>4, <1>5, <1>6, <1>7, <1>8, <1>9, <1>10, <1>11, <1>12,
       <1>13, <1>14, <1>15 DEF Next, Step

\* Every way through a store holds what Held says.
LEMMA HeldStep == TypeOK /\ Held /\ [Next]_vars => Held'
<1> SUFFICES ASSUME TypeOK, Held, [Next]_vars PROVE Held'
    OBVIOUS
<1> USE DEF TypeOK, Held, AtFailure, Memory
<1>1. ASSUME NEW u \in Writers, Begin(u) PROVE Held'
    BY <1>1 DEF Begin, Goto, ReaderVars
<1>2. ASSUME NEW u \in Writers, Open(u) PROVE Held'
    BY <1>2 DEF Open, Goto, HeapVars, ReaderVars
<1>3. ASSUME NEW u \in Writers, OpenFails(u) PROVE Held'
    BY <1>3 DEF OpenFails, Goto, Return, Release, ReaderVars
<1>4. ASSUME NEW u \in Writers, Lock(u) PROVE Held'
    BY <1>4 DEF Lock, Goto, Allocate, ReaderVars
<1>5. ASSUME NEW u \in Writers, LockFails(u) PROVE Held'
    BY <1>5 DEF LockFails, Close, UnlinkTmp, Return, Goto, Release, ReaderVars
<1>6. ASSUME NEW u \in Writers, WriteAll(u) PROVE Held'
    BY <1>6 DEF WriteAll, Goto, Release, ReaderVars
<1>7. ASSUME NEW u \in Writers, WriteShort(u) PROVE Held'
    BY <1>7 DEF WriteShort, Close, UnlinkTmp, Return, Goto, Release, ReaderVars
<1>8. ASSUME NEW u \in Writers, Unlock(u) PROVE Held'
    BY <1>8 DEF Unlock, Close, Goto, HeapVars, ReaderVars
<1>9. ASSUME NEW u \in Writers, Rename(u) PROVE Held'
    BY <1>9 DEF Rename, UnlinkTmp, Return, Goto, Release, ReaderVars
<1>10. ASSUME NEW u \in Writers, RenameFails(u) PROVE Held'
    BY <1>10 DEF RenameFails, UnlinkTmp, Return, Goto, Release, ReaderVars
<1>11. ASSUME NEW u \in Writers, Kill(u) PROVE Held'
    BY <1>11 DEF Kill, Close, Goto, ReaderVars
<1>12. ASSUME NEW u \in Writers, Restart(u) PROVE Held'
    BY <1>12 DEF Restart, Goto, HeapVars, ReaderVars
<1>13. ASSUME NEW r \in Readers, LoadHeader(r) PROVE Held'
    BY <1>13 DEF LoadHeader, HeapVars
<1>14. ASSUME NEW r \in Readers, LoadPayload(r) PROVE Held'
    BY <1>14 DEF LoadPayload, HeapVars
<1>15. CASE UNCHANGED vars
    BY <1>15 DEF vars
<1> QED
    BY <1>1, <1>2, <1>3, <1>4, <1>5, <1>6, <1>7, <1>8, <1>9, <1>10, <1>11, <1>12,
       <1>13, <1>14, <1>15 DEF Next, Step

-------------------------------------------------------------------------------
\* What is in sight is not written to, neither by its writer nor by another.
LEMMA NotWritten ==
    ASSUME IInv, [Next]_vars, NEW i \in Inode, InSight(i)
    PROVE  data'[i] = data[i]
<1> USE StoreTypes DEF IInv, TypeOK
<1>1. ASSUME NEW u \in Writers, Begin(u) PROVE data'[i] = data[i]
    BY <1>1 DEF Begin, Goto, ReaderVars
<1>2. ASSUME NEW u \in Writers, Open(u) PROVE data'[i] = data[i]
    <2>1. Opened(u) \in Inode
        BY <1>2, OpenedInode DEF Open
    <2>2. Opened(u) # i
        <3>1. CASE tmp[Pid(u)] # Nothing
            BY <3>1 DEF Opened, OutOfSight
        <3>2. CASE tmp[Pid(u)] = Nothing
            <4>1. Opened(u) = <<u, stores[u]>> /\ stores[u] \in 1 .. MaxStores
                BY <1>2, <3>2 DEF Opened, Storing, Counted, Open
            <4>2. ~InSight(<<u, stores[u]>>)
                BY <1>2, <4>1 DEF Fresh, Open
            <4> QED
                BY <4>1, <4>2
        <3> QED
            BY <3>1, <3>2
    <2> QED
        BY <1>2, <2>1, <2>2 DEF Open
<1>3. ASSUME NEW u \in Writers, OpenFails(u) PROVE data'[i] = data[i]
    BY <1>3 DEF OpenFails, Goto, Return, Release, ReaderVars
<1>4. ASSUME NEW u \in Writers, Lock(u) PROVE data'[i] = data[i]
    BY <1>4 DEF Lock, Goto, Allocate, ReaderVars
<1>5. ASSUME NEW u \in Writers, LockFails(u) PROVE data'[i] = data[i]
    BY <1>5 DEF LockFails, Close, UnlinkTmp, Return, Goto, Release, ReaderVars
<1>6. ASSUME NEW u \in Writers, WriteAll(u) PROVE data'[i] = data[i]
    <2>1. fd[u] # i
        BY <1>6 DEF WriteAll, OwnName, OutOfSight
    <2> QED
        BY <1>6, <2>1 DEF WriteAll
<1>7. ASSUME NEW u \in Writers, WriteShort(u) PROVE data'[i] = data[i]
    <2>1. fd[u] # i
        BY <1>7 DEF WriteShort, OwnName, OutOfSight
    <2> QED
        BY <1>7, <2>1 DEF WriteShort
<1>8. ASSUME NEW u \in Writers, Unlock(u) PROVE data'[i] = data[i]
    BY <1>8 DEF Unlock, Close, Goto, HeapVars, ReaderVars
<1>9. ASSUME NEW u \in Writers, Rename(u) PROVE data'[i] = data[i]
    BY <1>9 DEF Rename, UnlinkTmp, Return, Goto, Release, ReaderVars
<1>10. ASSUME NEW u \in Writers, RenameFails(u) PROVE data'[i] = data[i]
    BY <1>10 DEF RenameFails, UnlinkTmp, Return, Goto, Release, ReaderVars
<1>11. ASSUME NEW u \in Writers, Kill(u) PROVE data'[i] = data[i]
    BY <1>11 DEF Kill, Close, Goto, ReaderVars
<1>12. ASSUME NEW u \in Writers, Restart(u) PROVE data'[i] = data[i]
    BY <1>12 DEF Restart, Goto, HeapVars, ReaderVars
<1>13. ASSUME NEW r \in Readers, LoadHeader(r) PROVE data'[i] = data[i]
    BY <1>13 DEF LoadHeader, HeapVars
<1>14. ASSUME NEW r \in Readers, LoadPayload(r) PROVE data'[i] = data[i]
    BY <1>14 DEF LoadPayload, HeapVars
<1>15. CASE UNCHANGED vars
    BY <1>15 DEF vars
<1> QED
    BY <1>1, <1>2, <1>3, <1>4, <1>5, <1>6, <1>7, <1>8, <1>9, <1>10, <1>11, <1>12,
       <1>13, <1>14, <1>15 DEF Next, Step

\* A file comes in sight by rename.
LEMMA ComesInSight ==
    ASSUME IInv, [Next]_vars, NEW i \in Inode, InSight(i)'
    PROVE  InSight(i) \/ \E w \in Writers : Rename(w) /\ i = tmp[Pid(w)]
<1> DEFINE G == InSight(i) \/ \E w \in Writers : Rename(w) /\ i = tmp[Pid(w)]
<1> USE StoreTypes DEF IInv, TypeOK, InSight, NoLoad
<1>1. ASSUME NEW u \in Writers, Begin(u) PROVE G
    BY <1>1 DEF Begin, Goto, ReaderVars
<1>2. ASSUME NEW u \in Writers, Open(u) PROVE G
    BY <1>2 DEF Open, Goto, HeapVars, ReaderVars
<1>3. ASSUME NEW u \in Writers, OpenFails(u) PROVE G
    BY <1>3 DEF OpenFails, Goto, Return, Release, ReaderVars
<1>4. ASSUME NEW u \in Writers, Lock(u) PROVE G
    BY <1>4 DEF Lock, Goto, Allocate, ReaderVars
<1>5. ASSUME NEW u \in Writers, LockFails(u) PROVE G
    BY <1>5 DEF LockFails, Close, UnlinkTmp, Return, Goto, Release, ReaderVars
<1>6. ASSUME NEW u \in Writers, WriteAll(u) PROVE G
    BY <1>6 DEF WriteAll, Goto, Release, ReaderVars
<1>7. ASSUME NEW u \in Writers, WriteShort(u) PROVE G
    BY <1>7 DEF WriteShort, Close, UnlinkTmp, Return, Goto, Release, ReaderVars
<1>8. ASSUME NEW u \in Writers, Unlock(u) PROVE G
    BY <1>8 DEF Unlock, Close, Goto, HeapVars, ReaderVars
<1>9. ASSUME NEW u \in Writers, Rename(u) PROVE G
    BY <1>9 DEF Rename, UnlinkTmp, Return, Goto, Release, ReaderVars
<1>10. ASSUME NEW u \in Writers, RenameFails(u) PROVE G
    BY <1>10 DEF RenameFails, UnlinkTmp, Return, Goto, Release, ReaderVars
<1>11. ASSUME NEW u \in Writers, Kill(u) PROVE G
    BY <1>11 DEF Kill, Close, Goto, ReaderVars
<1>12. ASSUME NEW u \in Writers, Restart(u) PROVE G
    BY <1>12 DEF Restart, Goto, HeapVars, ReaderVars
<1>13. ASSUME NEW r \in Readers, LoadHeader(r) PROVE G
    BY <1>13 DEF LoadHeader, HeapVars
<1>14. ASSUME NEW r \in Readers, LoadPayload(r) PROVE G
    BY <1>14 DEF LoadPayload, HeapVars
<1>15. CASE UNCHANGED vars
    BY <1>15 DEF vars
<1> QED
    BY <1>1, <1>2, <1>3, <1>4, <1>5, <1>6, <1>7, <1>8, <1>9, <1>10, <1>11, <1>12,
       <1>13, <1>14, <1>15 DEF Next, Step

\* A temporary name goes, stays, or comes with a new inode.
LEMMA NameStep ==
    ASSUME IInv, [Next]_vars, NEW p \in Pids
    PROVE  \/ tmp'[p] \in {Nothing, tmp[p]}
           \/ \E w \in Writers :
                 Open(w) /\ p = Pid(w) /\ tmp[p] = Nothing /\ tmp'[p] = Storing(w)
<1> DEFINE G == \/ tmp'[p] \in {Nothing, tmp[p]}
                \/ \E w \in Writers :
                      Open(w) /\ p = Pid(w) /\ tmp[p] = Nothing /\ tmp'[p] = Storing(w)
<1> USE StoreTypes DEF IInv, TypeOK
<1>1. ASSUME NEW u \in Writers, Begin(u) PROVE G
    BY <1>1 DEF Begin, Goto, ReaderVars
<1>2. ASSUME NEW u \in Writers, Open(u) PROVE G
    BY <1>2 DEF Open, Opened
<1>3. ASSUME NEW u \in Writers, OpenFails(u) PROVE G
    BY <1>3 DEF OpenFails, Goto, Return, Release, ReaderVars
<1>4. ASSUME NEW u \in Writers, Lock(u) PROVE G
    BY <1>4 DEF Lock, Goto, Allocate, ReaderVars
<1>5. ASSUME NEW u \in Writers, LockFails(u) PROVE G
    BY <1>5 DEF LockFails, Close, UnlinkTmp, Return, Goto, Release, ReaderVars
<1>6. ASSUME NEW u \in Writers, WriteAll(u) PROVE G
    BY <1>6 DEF WriteAll, Goto, Release, ReaderVars
<1>7. ASSUME NEW u \in Writers, WriteShort(u) PROVE G
    BY <1>7 DEF WriteShort, Close, UnlinkTmp, Return, Goto, Release, ReaderVars
<1>8. ASSUME NEW u \in Writers, Unlock(u) PROVE G
    BY <1>8 DEF Unlock, Close, Goto, HeapVars, ReaderVars
<1>9. ASSUME NEW u \in Writers, Rename(u) PROVE G
    BY <1>9 DEF Rename, UnlinkTmp, Return, Goto, Release, ReaderVars
<1>10. ASSUME NEW u \in Writers, RenameFails(u) PROVE G
    BY <1>10 DEF RenameFails, UnlinkTmp, Return, Goto, Release, ReaderVars
<1>11. ASSUME NEW u \in Writers, Kill(u) PROVE G
    BY <1>11 DEF Kill, Close, Goto, ReaderVars
<1>12. ASSUME NEW u \in Writers, Restart(u) PROVE G
    BY <1>12 DEF Restart, Goto, HeapVars, ReaderVars
<1>13. ASSUME NEW r \in Readers, LoadHeader(r) PROVE G
    BY <1>13 DEF LoadHeader, HeapVars
<1>14. ASSUME NEW r \in Readers, LoadPayload(r) PROVE G
    BY <1>14 DEF LoadPayload, HeapVars
<1>15. CASE UNCHANGED vars
    BY <1>15 DEF vars
<1> QED
    BY <1>1, <1>2, <1>3, <1>4, <1>5, <1>6, <1>7, <1>8, <1>9, <1>10, <1>11, <1>12,
       <1>13, <1>14, <1>15 DEF Next, Step

\* In sight is whole, before and after.
LEMMA WholeInSightStep == IInv /\ [Next]_vars => WholeInSight'
<1> SUFFICES ASSUME IInv, [Next]_vars, NEW i \in Inode, InSight(i)'
             PROVE  data'[i].head = data'[i].body /\ data'[i].head # Nothing
    BY DEF WholeInSight
<1>1. CASE InSight(i)
    BY <1>1, NotWritten DEF IInv, WholeInSight
<1>2. ASSUME NEW w \in Writers, Rename(w), i = tmp[Pid(w)]
      PROVE  data'[i].head = data'[i].body /\ data'[i].head # Nothing
    <2>1. data'[i] = Whole(Storing(w)) /\ Storing(w) \in Version
        BY <1>2, StoringVersion DEF Rename, IInv, Written
    <2> QED
        BY <2>1, StoreTypes DEF Whole
<1> QED
    BY <1>1, <1>2, ComesInSight

\* No temporary name leads to a file in sight.
LEMMA OutOfSightStep == IInv /\ OnePidEach /\ [Next]_vars => OutOfSight'
<1> SUFFICES ASSUME IInv, OnePidEach, [Next]_vars
             PROVE  OutOfSight'
    OBVIOUS
<1>t. \A q \in Pids : tmp'[q] \in Inode \cup {Nothing}
    BY TypeStep DEF IInv, TypeOK
<1> SUFFICES ASSUME NEW p \in Pids, NEW i \in Inode, tmp'[p] = i,
                    i = target' \/ \E r \in Readers : rd'[r].open = i
             PROVE  FALSE
    BY <1>t DEF OutOfSight, InSight
<1>s. InSight(i)'
    BY DEF InSight
<1> USE StoreTypes
<1>1. CASE tmp[p] = i
    <2>1. ~InSight(i)
        BY <1>1 DEF IInv, OutOfSight
    <2>2. PICK w \in Writers : Rename(w) /\ i = tmp[Pid(w)]
        BY <1>s, <2>1, ComesInSight
    <2>3. p = Pid(w)
        BY <1>1, <2>2 DEF IInv, OwnName
    <2> QED
        BY <2>2, <2>3 DEF Rename, UnlinkTmp, IInv, TypeOK
<1>2. ASSUME NEW w \in Writers, Open(w), i = Storing(w)
      PROVE  FALSE
    <2>1. stores[w] \in 1 .. MaxStores /\ i = <<w, stores[w]>>
        BY <1>2 DEF Open, IInv, Counted, Storing
    <2>2. ~InSight(<<w, stores[w]>>)
        BY <1>2, <2>1 DEF Open, IInv, Fresh
    <2>3. target' = target /\ rd' = rd
        BY <1>2 DEF Open, ReaderVars
    <2> QED
        BY <1>s, <2>1, <2>2, <2>3 DEF InSight
<1> QED
    BY <1>1, <1>2, NameStep

\* A writer gets to open by beginning a store.
LEMMA OnlyBegin ==
    ASSUME IInv, [Next]_vars, NEW v \in Writers
    PROVE  \/ stores'[v] = stores[v] /\ (pc'[v] = "open" => pc[v] = "open")
           \/ stores'[v] = stores[v] + 1
<1> DEFINE G == \/ stores'[v] = stores[v] /\ (pc'[v] = "open" => pc[v] = "open")
                \/ stores'[v] = stores[v] + 1
<1> USE DEF IInv, TypeOK
<1>1. ASSUME NEW u \in Writers, Begin(u) PROVE G
    BY <1>1 DEF Begin, Goto, ReaderVars
<1>2. ASSUME NEW u \in Writers, Open(u) PROVE G
    BY <1>2 DEF Open, Goto, HeapVars, ReaderVars
<1>3. ASSUME NEW u \in Writers, OpenFails(u) PROVE G
    BY <1>3 DEF OpenFails, Goto, Return, Release, ReaderVars
<1>4. ASSUME NEW u \in Writers, Lock(u) PROVE G
    BY <1>4 DEF Lock, Goto, Allocate, ReaderVars
<1>5. ASSUME NEW u \in Writers, LockFails(u) PROVE G
    BY <1>5 DEF LockFails, Close, UnlinkTmp, Return, Goto, Release, ReaderVars
<1>6. ASSUME NEW u \in Writers, WriteAll(u) PROVE G
    BY <1>6 DEF WriteAll, Goto, Release, ReaderVars
<1>7. ASSUME NEW u \in Writers, WriteShort(u) PROVE G
    BY <1>7 DEF WriteShort, Close, UnlinkTmp, Return, Goto, Release, ReaderVars
<1>8. ASSUME NEW u \in Writers, Unlock(u) PROVE G
    BY <1>8 DEF Unlock, Close, Goto, HeapVars, ReaderVars
<1>9. ASSUME NEW u \in Writers, Rename(u) PROVE G
    BY <1>9 DEF Rename, UnlinkTmp, Return, Goto, Release, ReaderVars
<1>10. ASSUME NEW u \in Writers, RenameFails(u) PROVE G
    BY <1>10 DEF RenameFails, UnlinkTmp, Return, Goto, Release, ReaderVars
<1>11. ASSUME NEW u \in Writers, Kill(u) PROVE G
    BY <1>11 DEF Kill, Close, Goto, ReaderVars
<1>12. ASSUME NEW u \in Writers, Restart(u) PROVE G
    BY <1>12 DEF Restart, Goto, HeapVars, ReaderVars
<1>13. ASSUME NEW r \in Readers, LoadHeader(r) PROVE G
    BY <1>13 DEF LoadHeader, HeapVars
<1>14. ASSUME NEW r \in Readers, LoadPayload(r) PROVE G
    BY <1>14 DEF LoadPayload, HeapVars
<1>15. CASE UNCHANGED vars
    BY <1>15 DEF vars
<1> QED
    BY <1>1, <1>2, <1>3, <1>4, <1>5, <1>6, <1>7, <1>8, <1>9, <1>10, <1>11, <1>12,
       <1>13, <1>14, <1>15 DEF Next, Step

\* Inodes are used in the order in which their stores begin.
LEMMA FreshStep == IInv /\ [Next]_vars => Fresh'
<1> SUFFICES ASSUME IInv, [Next]_vars, NEW v \in Writers, NEW k \in 1 .. MaxStores,
                    InSight(<<v, k>>)' \/ (\E p \in Pids : tmp'[p] = <<v, k>>)
             PROVE  k < stores'[v] \/ (k = stores'[v] /\ pc'[v] # "open")
    BY DEF Fresh
<1> DEFINE Old == InSight(<<v, k>>) \/ (\E p \in Pids : tmp[p] = <<v, k>>)
           New == \E w \in Writers : Open(w) /\ <<v, k>> = Storing(w)
           G == k < stores'[v] \/ (k = stores'[v] /\ pc'[v] # "open")
<1> USE StoreTypes
<1>i. <<v, k>> \in Inode
    BY DEF Inode
<1>1. Old \/ New
    <2>1. CASE InSight(<<v, k>>)'
        BY <1>i, <2>1, ComesInSight DEF IInv
    <2>2. ASSUME NEW p \in Pids, tmp'[p] = <<v, k>>
          PROVE  Old \/ New
        <3>1. tmp'[p] # Nothing
            BY <1>i, <2>2
        <3> QED
            BY <2>2, <3>1, NameStep
    <2> QED
        BY <2>1, <2>2
<1>2. CASE Old
    <2>1. k < stores[v] \/ (k = stores[v] /\ pc[v] # "open")
        BY <1>2 DEF IInv, Fresh
    <2>2. stores[v] \in Nat
        BY StoreAssumption DEF IInv, TypeOK
    <2>3. \/ stores'[v] = stores[v] /\ (pc'[v] = "open" => pc[v] = "open")
          \/ stores'[v] = stores[v] + 1
        BY OnlyBegin
    <2> QED
        BY <2>1, <2>2, <2>3
<1>3. ASSUME NEW w \in Writers, Open(w), <<v, k>> = Storing(w)
      PROVE  G
    <2>1. v = w /\ k = stores[w]
        BY <1>3 DEF Storing
    <2> QED
        BY <1>3, <2>1 DEF Open, Goto, IInv, TypeOK
<1> QED
    BY <1>1, <1>2, <1>3

\* Only the writer itself touches its temporary name.
LEMMA OwnNameOfOne ==
    ASSUME IInv, OnePidEach, [Next]_vars, NEW w \in Writers
    PROVE  /\ Named(w)' => tmp'[Pid(w)] # Nothing
           /\ fd'[w] # Nothing => fd'[w] = tmp'[Pid(w)]
<1> DEFINE G == /\ Named(w)' => tmp'[Pid(w)] # Nothing
                /\ fd'[w] # Nothing => fd'[w] = tmp'[Pid(w)]
<1> USE StoreTypes DEF IInv, TypeOK, OwnName, Named, OnePidEach, Pid
<1>1. ASSUME NEW u \in Writers, Begin(u) PROVE G
    BY <1>1 DEF Begin, Goto, ReaderVars
<1>2. ASSUME NEW u \in Writers, Open(u) PROVE G
    <2>1. Opened(u) \in Inode
        BY <1>2, OpenedInode DEF Open
    <2> QED
        BY <1>2, <2>1 DEF Open, Goto
<1>3. ASSUME NEW u \in Writers, OpenFails(u) PROVE G
    BY <1>3 DEF OpenFails, Goto, Return, Release, ReaderVars
<1>4. ASSUME NEW u \in Writers, Lock(u) PROVE G
    BY <1>4 DEF Lock, Goto, Allocate, ReaderVars
<1>5. ASSUME NEW u \in Writers, LockFails(u) PROVE G
    BY <1>5 DEF LockFails, Close, UnlinkTmp, Return, Goto, Release, ReaderVars
<1>6. ASSUME NEW u \in Writers, WriteAll(u) PROVE G
    BY <1>6 DEF WriteAll, Goto, Release, ReaderVars
<1>7. ASSUME NEW u \in Writers, WriteShort(u) PROVE G
    BY <1>7 DEF WriteShort, Close, UnlinkTmp, Return, Goto, Release, ReaderVars
<1>8. ASSUME NEW u \in Writers, Unlock(u) PROVE G
    BY <1>8 DEF Unlock, Close, Goto, HeapVars, ReaderVars
<1>9. ASSUME NEW u \in Writers, Rename(u) PROVE G
    BY <1>9 DEF Rename, UnlinkTmp, Return, Goto, Release, ReaderVars
<1>10. ASSUME NEW u \in Writers, RenameFails(u) PROVE G
    BY <1>10 DEF RenameFails, UnlinkTmp, Return, Goto, Release, ReaderVars
<1>11. ASSUME NEW u \in Writers, Kill(u) PROVE G
    BY <1>11 DEF Kill, Close, Goto, ReaderVars
<1>12. ASSUME NEW u \in Writers, Restart(u) PROVE G
    BY <1>12 DEF Restart, Goto, HeapVars, ReaderVars
<1>13. ASSUME NEW r \in Readers, LoadHeader(r) PROVE G
    BY <1>13 DEF LoadHeader, HeapVars
<1>14. ASSUME NEW r \in Readers, LoadPayload(r) PROVE G
    BY <1>14 DEF LoadPayload, HeapVars
<1>15. CASE UNCHANGED vars
    BY <1>15 DEF vars
<1> QED
    BY <1>1, <1>2, <1>3, <1>4, <1>5, <1>6, <1>7, <1>8, <1>9, <1>10, <1>11, <1>12,
       <1>13, <1>14, <1>15 DEF Next, Step

\* A writer with a file on its way has its name, and only it has.
LEMMA OwnNameStep == IInv /\ OnePidEach /\ [Next]_vars => OwnName'
<1> SUFFICES ASSUME IInv, OnePidEach, [Next]_vars PROVE OwnName'
    OBVIOUS
<1> USE StoreTypes
<1>a. ASSUME NEW w \in Writers
      PROVE  /\ Named(w)' => tmp'[Pid(w)] # Nothing
             /\ fd'[w] # Nothing => fd'[w] = tmp'[Pid(w)]
    BY OwnNameOfOne
<1>b. ASSUME NEW p \in Pids, NEW q \in Pids, tmp'[p] = tmp'[q], tmp'[p] # Nothing
      PROVE  p = q
    <2>1. CASE tmp'[p] = tmp[p] /\ tmp'[q] = tmp[q]
        BY <1>b, <2>1 DEF IInv, OwnName
    <2>2. ASSUME NEW w \in Writers, Open(w)
          PROVE  p = q
        <3>1. tmp' = [tmp EXCEPT ![Pid(w)] = Opened(w)]
            BY <2>2 DEF Open
        <3>2. CASE tmp[Pid(w)] # Nothing
            BY <1>b, <3>1, <3>2 DEF Opened, IInv, OwnName, TypeOK
        <3>3. CASE tmp[Pid(w)] = Nothing
            <4>1. Opened(w) = <<w, stores[w]>> /\ stores[w] \in 1 .. MaxStores
                BY <2>2, <3>3 DEF Opened, Storing, Open, IInv, Counted
            <4>2. \A o \in Pids : tmp[o] # <<w, stores[w]>>
                BY <2>2, <4>1 DEF Open, IInv, Fresh
            <4> QED
                BY <1>b, <3>1, <4>1, <4>2 DEF IInv, OwnName, TypeOK
        <3> QED
            BY <3>2, <3>3
    <2> QED
        BY <1>b, <2>1, <2>2, NameStep
<1> QED
    BY <1>a, <1>b DEF OwnName

\* Nobody but the writer writes what it is about to rename.
LEMMA WrittenStep == IInv /\ OnePidEach /\ [Next]_vars => Written'
<1> SUFFICES ASSUME IInv, OnePidEach, [Next]_vars, NEW w \in Writers,
    pc'[w] \in {"unlock", "rename"}
             PROVE  data'[tmp'[Pid(w)]] = Whole(Storing(w)')
    BY DEF Written, Whole, Storing
<1> DEFINE G == data'[tmp'[Pid(w)]] = Whole(Storing(w)')
<1> USE StoreTypes DEF IInv, TypeOK, Storing
<1>o. \A v \in Writers : Pid(v) = Pid(w) => v = w
    BY DEF OnePidEach, Pid
<1>1. ASSUME NEW u \in Writers, Begin(u) PROVE G
    BY <1>1, <1>o DEF Begin, Goto, ReaderVars, Written, OwnName, Named
<1>2. ASSUME NEW u \in Writers, Open(u) PROVE G
    <2>1. u # w /\ Pid(u) # Pid(w)
        BY <1>2, <1>o DEF Open, Goto
    <2>2. tmp'[Pid(w)] = tmp[Pid(w)] /\ pc[w] \in {"unlock", "rename"} /\ stores' = stores
        BY <1>2, <2>1 DEF Open, Goto
    <2>3. Opened(u) # tmp[Pid(w)] /\ tmp[Pid(w)] \in Inode
        <3>1. tmp[Pid(w)] # Nothing
            BY <2>2 DEF OwnName, Named
        <3>2. CASE tmp[Pid(u)] # Nothing
            BY <2>1, <3>1, <3>2 DEF Opened, OwnName
        <3>3. CASE tmp[Pid(u)] = Nothing
            <4>1. Opened(u) = <<u, stores[u]>> /\ stores[u] \in 1 .. MaxStores
                BY <1>2, <3>3 DEF Opened, Open, Counted
            <4> QED
                BY <1>2, <3>1, <4>1 DEF Open, Fresh
        <3> QED
            BY <3>1, <3>2, <3>3
    <2>4. data'[tmp[Pid(w)]] = data[tmp[Pid(w)]]
        BY <1>2, <2>3 DEF Open
    <2> QED
        BY <2>2, <2>4 DEF Written
<1>3. ASSUME NEW u \in Writers, OpenFails(u) PROVE G
    BY <1>3, <1>o DEF OpenFails, Goto, Return, Release, ReaderVars, Written,
       OwnName, Named
<1>4. ASSUME NEW u \in Writers, Lock(u) PROVE G
    BY <1>4, <1>o DEF Lock, Goto, Allocate, ReaderVars, Written, OwnName, Named
<1>5. ASSUME NEW u \in Writers, LockFails(u) PROVE G
    BY <1>5, <1>o DEF LockFails, Close, UnlinkTmp, Return, Goto, Release,
       ReaderVars, Written, OwnName, Named
<1>6. ASSUME NEW u \in Writers, WriteAll(u) PROVE G
    <2>1. tmp[Pid(w)] \in Inode \cup {Nothing} /\ tmp' = tmp /\ stores' = stores
        BY <1>6 DEF WriteAll
    <2>2. CASE u = w
        <3>1. fd[w] = tmp[Pid(w)] /\ fd[w] \in Inode
            BY <1>6, <2>2 DEF WriteAll, OwnName
        <3> QED
            BY <1>6, <2>1, <2>2, <3>1 DEF WriteAll
    <2>3. CASE u # w
        <3>1. pc[w] \in {"unlock", "rename"}
            BY <1>6, <2>3 DEF WriteAll, Goto
        <3>2. fd[u] # tmp[Pid(w)]
            BY <1>6, <1>o, <2>3, <3>1 DEF WriteAll, OwnName, Named
        <3>3. data'[tmp[Pid(w)]] = data[tmp[Pid(w)]]
            BY <1>6, <2>1, <3>1, <3>2 DEF WriteAll, OwnName, Named
        <3> QED
            BY <2>1, <3>1, <3>3 DEF Written
    <2> QED
        BY <2>2, <2>3
<1>7. ASSUME NEW u \in Writers, WriteShort(u) PROVE G
    <2>1. u # w /\ pc[w] \in {"unlock", "rename"} /\ stores' = stores
        BY <1>7 DEF WriteShort, Return, Goto
    <2>2. tmp'[Pid(w)] = tmp[Pid(w)] /\ tmp[Pid(w)] \in Inode
        BY <1>7, <1>o, <2>1 DEF WriteShort, UnlinkTmp, OwnName, Named
    <2>3. fd[u] # tmp[Pid(w)]
        BY <1>7, <1>o, <2>1, <2>2 DEF WriteShort, OwnName
    <2>4. data'[tmp[Pid(w)]] = data[tmp[Pid(w)]]
        BY <1>7, <2>2, <2>3 DEF WriteShort
    <2> QED
        BY <2>1, <2>2, <2>4 DEF Written
<1>8. ASSUME NEW u \in Writers, Unlock(u) PROVE G
    BY <1>8, <1>o DEF Unlock, Close, Goto, HeapVars, ReaderVars, Written, OwnName,
       Named
<1>9. ASSUME NEW u \in Writers, Rename(u) PROVE G
    BY <1>9, <1>o DEF Rename, UnlinkTmp, Return, Goto, Release, ReaderVars,
       Written, OwnName, Named
<1>10. ASSUME NEW u \in Writers, RenameFails(u) PROVE G
    BY <1>10, <1>o DEF RenameFails, UnlinkTmp, Return, Goto, Release, ReaderVars,
       Written, OwnName, Named
<1>11. ASSUME NEW u \in Writers, Kill(u) PROVE G
    BY <1>11, <1>o DEF Kill, Close, Goto, ReaderVars, Written, OwnName, Named
<1>12. ASSUME NEW u \in Writers, Restart(u) PROVE G
    BY <1>12, <1>o DEF Restart, Goto, HeapVars, ReaderVars, Written, OwnName, Named
<1>13. ASSUME NEW r \in Readers, LoadHeader(r) PROVE G
    BY <1>13, <1>o DEF LoadHeader, HeapVars, Written, OwnName, Named
<1>14. ASSUME NEW r \in Readers, LoadPayload(r) PROVE G
    BY <1>14, <1>o DEF LoadPayload, HeapVars, Written, OwnName, Named
<1>15. CASE UNCHANGED vars
    BY <1>15, <1>o DEF vars, Written, OwnName, Named
<1> QED
    BY <1>1, <1>2, <1>3, <1>4, <1>5, <1>6, <1>7, <1>8, <1>9, <1>10, <1>11, <1>12,
       <1>13, <1>14, <1>15 DEF Next, Step

\* A loader has in hand what the file says.
LEMMA HeaderKeptStep == IInv /\ [Next]_vars => HeaderKept'
<1> SUFFICES ASSUME IInv, [Next]_vars, NEW s \in Readers, rd'[s] # NoLoad
             PROVE  rd'[s].open # Nothing /\ rd'[s].head = data'[rd'[s].open].head
    BY DEF HeaderKept, NoLoad
<1> USE StoreTypes DEF IInv, TypeOK
<1>1. CASE rd'[s] = rd[s]
    <2>1. rd[s].open \in Inode /\ InSight(rd[s].open)
        BY <1>1 DEF HeaderKept, InSight
    <2> QED
        BY <1>1, <2>1, NotWritten DEF HeaderKept
<1>2. ASSUME NEW r \in Readers, LoadHeader(r), s = r
      PROVE  rd'[s].open # Nothing /\ rd'[s].head = data'[rd'[s].open].head
    BY <1>2 DEF LoadHeader
<1>3. rd'[s] = rd[s] \/ \E r \in Readers : LoadHeader(r) /\ s = r
    <2> DEFINE G == rd'[s] = rd[s] \/ \E r \in Readers : LoadHeader(r) /\ s = r
    <2>1. ASSUME NEW u \in Writers, Begin(u) PROVE G
        BY <2>1 DEF Begin, Goto, ReaderVars
    <2>2. ASSUME NEW u \in Writers, Open(u) PROVE G
        BY <2>2 DEF Open, Goto, HeapVars, ReaderVars
    <2>3. ASSUME NEW u \in Writers, OpenFails(u) PROVE G
        BY <2>3 DEF OpenFails, Goto, Return, Release, ReaderVars
    <2>4. ASSUME NEW u \in Writers, Lock(u) PROVE G
        BY <2>4 DEF Lock, Goto, Allocate, ReaderVars
    <2>5. ASSUME NEW u \in Writers, LockFails(u) PROVE G
        BY <2>5 DEF LockFails, Close, UnlinkTmp, Return, Goto, Release, ReaderVars
    <2>6. ASSUME NEW u \in Writers, WriteAll(u) PROVE G
        BY <2>6 DEF WriteAll, Goto, Release, ReaderVars
    <2>7. ASSUME NEW u \in Writers, WriteShort(u) PROVE G
        BY <2>7 DEF WriteShort, Close, UnlinkTmp, Return, Goto, Release, ReaderVars
    <2>8. ASSUME NEW u \in Writers, Unlock(u) PROVE G
        BY <2>8 DEF Unlock, Close, Goto, HeapVars, ReaderVars
    <2>9. ASSUME NEW u \in Writers, Rename(u) PROVE G
        BY <2>9 DEF Rename, UnlinkTmp, Return, Goto, Release, ReaderVars
    <2>10. ASSUME NEW u \in Writers, RenameFails(u) PROVE G
        BY <2>10 DEF RenameFails, UnlinkTmp, Return, Goto, Release, ReaderVars
    <2>11. ASSUME NEW u \in Writers, Kill(u) PROVE G
        BY <2>11 DEF Kill, Close, Goto, ReaderVars
    <2>12. ASSUME NEW u \in Writers, Restart(u) PROVE G
        BY <2>12 DEF Restart, Goto, HeapVars, ReaderVars
    <2>13. ASSUME NEW r \in Readers, LoadHeader(r) PROVE G
        BY <2>13 DEF LoadHeader, HeapVars
    <2>14. ASSUME NEW r \in Readers, LoadPayload(r) PROVE G
        BY <2>14 DEF LoadPayload, HeapVars
    <2>15. CASE UNCHANGED vars
        BY <2>15 DEF vars
    <2> QED
        BY <2>1, <2>2, <2>3, <2>4, <2>5, <2>6, <2>7, <2>8, <2>9, <2>10, <2>11,
           <2>12, <2>13, <2>14, <2>15 DEF Next, Step
<1> QED
    BY <1>1, <1>2, <1>3

\* A loader that has one store's header reads that store's payload.
LEMMA LoadsWholeStep == IInv /\ [Next]_vars => LoadsWhole'
<1> SUFFICES ASSUME IInv, [Next]_vars, NEW s \in Readers
             PROVE  loaded'[s].head = loaded'[s].body
    BY DEF LoadsWhole
<1> DEFINE G == loaded'[s].head = loaded'[s].body
<1> USE StoreTypes DEF IInv, TypeOK, LoadsWhole
<1>1. ASSUME NEW u \in Writers, Begin(u) PROVE G
    BY <1>1 DEF Begin, Goto, ReaderVars
<1>2. ASSUME NEW u \in Writers, Open(u) PROVE G
    BY <1>2 DEF Open, Goto, HeapVars, ReaderVars
<1>3. ASSUME NEW u \in Writers, OpenFails(u) PROVE G
    BY <1>3 DEF OpenFails, Goto, Return, Release, ReaderVars
<1>4. ASSUME NEW u \in Writers, Lock(u) PROVE G
    BY <1>4 DEF Lock, Goto, Allocate, ReaderVars
<1>5. ASSUME NEW u \in Writers, LockFails(u) PROVE G
    BY <1>5 DEF LockFails, Close, UnlinkTmp, Return, Goto, Release, ReaderVars
<1>6. ASSUME NEW u \in Writers, WriteAll(u) PROVE G
    BY <1>6 DEF WriteAll, Goto, Release, ReaderVars
<1>7. ASSUME NEW u \in Writers, WriteShort(u) PROVE G
    BY <1>7 DEF WriteShort, Close, UnlinkTmp, Return, Goto, Release, ReaderVars
<1>8. ASSUME NEW u \in Writers, Unlock(u) PROVE G
    BY <1>8 DEF Unlock, Close, Goto, HeapVars, ReaderVars
<1>9. ASSUME NEW u \in Writers, Rename(u) PROVE G
    BY <1>9 DEF Rename, UnlinkTmp, Return, Goto, Release, ReaderVars
<1>10. ASSUME NEW u \in Writers, RenameFails(u) PROVE G
    BY <1>10 DEF RenameFails, UnlinkTmp, Return, Goto, Release, ReaderVars
<1>11. ASSUME NEW u \in Writers, Kill(u) PROVE G
    BY <1>11 DEF Kill, Close, Goto, ReaderVars
<1>12. ASSUME NEW u \in Writers, Restart(u) PROVE G
    BY <1>12 DEF Restart, Goto, HeapVars, ReaderVars
<1>13. ASSUME NEW r \in Readers, LoadHeader(r) PROVE G
    BY <1>13 DEF LoadHeader, HeapVars
<1>14. ASSUME NEW r \in Readers, LoadPayload(r) PROVE G
    <2>1. rd[r].open \in Inode /\ InSight(rd[r].open)
        BY <1>14 DEF LoadPayload, HeaderKept, InSight
    <2>2. Body(r) = rd[r].head
        BY <1>14, <2>1 DEF LoadPayload, HeaderKept, WholeInSight, Body
    <2> QED
        BY <1>14, <2>2 DEF LoadPayload
<1>15. CASE UNCHANGED vars
    BY <1>15 DEF vars
<1> QED
    BY <1>1, <1>2, <1>3, <1>4, <1>5, <1>6, <1>7, <1>8, <1>9, <1>10, <1>11, <1>12,
       <1>13, <1>14, <1>15 DEF Next, Step

LEMMA InitIInv == Init => IInv
<1> SUFFICES ASSUME Init PROVE IInv
    OBVIOUS
<1>1. TypeOK
    BY InitTypeOK
<1>2. OwnName /\ OutOfSight /\ Written /\ Held /\ Counted
    BY StoreTypes DEF Init, OwnName, Named, OutOfSight, Written, Held, Counted
<1>3. WholeInSight /\ Fresh /\ HeaderKept /\ LoadsWhole
    BY StoreTypes, <1>1
    DEF Init, WholeInSight, Fresh, InSight, HeaderKept, LoadsWhole, NoLoad, Empty, Inode
<1> QED
    BY <1>1, <1>2, <1>3 DEF IInv

LEMMA IInvStep == IInv /\ OnePidEach /\ [Next]_vars => IInv'
<1> SUFFICES ASSUME IInv, OnePidEach, [Next]_vars PROVE IInv'
    OBVIOUS
<1>1. TypeOK' /\ Counted' /\ Held'
    BY TypeStep, CountedStep, HeldStep DEF IInv
<1>2. OwnName' /\ OutOfSight' /\ WholeInSight' /\ Fresh'
    BY OwnNameStep, OutOfSightStep, WholeInSightStep, FreshStep
<1>3. Written' /\ HeaderKept' /\ LoadsWhole'
    BY WrittenStep, HeaderKeptStep, LoadsWholeStep
<1> QED
    BY <1>1, <1>2, <1>3 DEF IInv

LEMMA Inductive == ASSUME OnePidEach PROVE Spec => []IInv
<1>1. IInv /\ [Next]_vars => IInv'
    BY IInvStep
<1> QED
    BY <1>1, InitIInv, PTL DEF Spec

-------------------------------------------------------------------------------
\* For writers with a pid each: every variable keeps its type, a writer has a
\* file open exactly between open and close, and a lock is on a file its holder
\* has open.
THEOREM TypeCorrect == ASSUME OnePidEach PROVE Spec => []TypeOK
<1>1. IInv => TypeOK
    BY DEF IInv
<1> QED
    BY <1>1, Inductive, PTL

\* The two reads of opkit_compile_script_load see one store, as long as no two
\* writers have the same pid.
THEOREM LoadsAreWhole == ASSUME OnePidEach PROVE Spec => []LoadsWhole
<1>1. IInv => LoadsWhole
    BY DEF IInv
<1> QED
    BY <1>1, Inductive, PTL

-------------------------------------------------------------------------------
\* What the release of a way out does to the writer that takes it.
LEMMA ReleaseOwned ==
    ASSUME IInv, NEW w \in Writers, NEW R \in SUBSET owned[w], Release(w, R)
    PROVE  owned'[w] = owned[w] \ R /\ misfreed'[w] \subseteq misfreed[w]
BY DEF IInv, TypeOK, Release

\* Every way out of the store but the one after a failed rename has its own list of
\* what to release; each releases what the store holds there and nothing twice.
THEOREM WaysOutRelease == ASSUME OnePidEach PROVE Spec => ReleasedOnce
<1> DEFINE A(v) == ~RenameFails(v) =>
                      /\ misfreed'[v] \subseteq misfreed[v]
                      /\ pc[v] \notin {"idle", "dead"} /\ pc'[v] = "idle" => owned'[v] = {}
<1>1. ASSUME IInv, [Next]_vars, NEW v \in Writers PROVE A(v)
    <2> USE <1>1 DEF IInv, TypeOK
    <2>1. ASSUME NEW u \in Writers, Begin(u) PROVE A(v)
        BY <2>1 DEF Begin, Goto, ReaderVars
    <2>2. ASSUME NEW u \in Writers, Open(u) PROVE A(v)
        BY <2>2 DEF Open, Goto, HeapVars, ReaderVars
    <2>3. ASSUME NEW u \in Writers, OpenFails(u) PROVE A(v)
        <3>1. CASE u = v
            <4>1. /\ Release(v, AtFailure \cup {"mem", "names"})
                  /\ AtFailure \cup {"mem", "names"} \in SUBSET owned[v]
                BY <3>1, <2>3 DEF OpenFails, Held, AtFailure, Memory
            <4>2. /\ owned'[v] = owned[v] \ (AtFailure \cup {"mem", "names"})
                  /\ misfreed'[v] \subseteq misfreed[v]
                BY <1>1, <4>1, ReleaseOwned
            <4> QED
                BY <3>1, <4>2, <2>3 DEF OpenFails, Held, AtFailure, Memory, Goto,
                   Return
        <3>2. CASE u # v
            BY <3>2, <2>3 DEF OpenFails, Goto, Return, Release, ReaderVars
        <3> QED
            BY <3>1, <3>2
    <2>4. ASSUME NEW u \in Writers, Lock(u) PROVE A(v)
        BY <2>4 DEF Lock, Goto, Allocate, ReaderVars
    <2>5. ASSUME NEW u \in Writers, LockFails(u) PROVE A(v)
        <3>1. CASE u = v
            <4>1. /\ Release(v, AtFailure \cup {"mem", "names"})
                  /\ AtFailure \cup {"mem", "names"} \in SUBSET owned[v]
                BY <3>1, <2>5 DEF LockFails, Held, AtFailure, Memory
            <4>2. /\ owned'[v] = owned[v] \ (AtFailure \cup {"mem", "names"})
                  /\ misfreed'[v] \subseteq misfreed[v]
                BY <1>1, <4>1, ReleaseOwned
            <4> QED
                BY <3>1, <4>2, <2>5 DEF LockFails, Held, AtFailure, Memory, Goto,
                   Return
        <3>2. CASE u # v
            BY <3>2, <2>5 DEF LockFails, Close, UnlinkTmp, Return, Goto, Release,
               ReaderVars
        <3> QED
            BY <3>1, <3>2
    <2>6. ASSUME NEW u \in Writers, WriteAll(u) PROVE A(v)
        <3>1. CASE u = v
            <4>1. /\ Release(v, AtFailure \cup {"pool"})
                  /\ AtFailure \cup {"pool"} \in SUBSET owned[v]
                BY <3>1, <2>6 DEF WriteAll, Held, AtFailure, Memory
            <4>2. /\ owned'[v] = owned[v] \ (AtFailure \cup {"pool"})
                  /\ misfreed'[v] \subseteq misfreed[v]
                BY <1>1, <4>1, ReleaseOwned
            <4> QED
                BY <3>1, <4>2, <2>6 DEF WriteAll, Held, AtFailure, Memory, Goto,
                   Return
        <3>2. CASE u # v
            BY <3>2, <2>6 DEF WriteAll, Goto, Release, ReaderVars
        <3> QED
            BY <3>1, <3>2
    <2>7. ASSUME NEW u \in Writers, WriteShort(u) PROVE A(v)
        <3>1. CASE u = v
            <4>1. /\ Release(v, Memory)
                  /\ Memory \in SUBSET owned[v]
                BY <3>1, <2>7 DEF WriteShort, Held, AtFailure, Memory
            <4>2. /\ owned'[v] = owned[v] \ (Memory)
                  /\ misfreed'[v] \subseteq misfreed[v]
                BY <1>1, <4>1, ReleaseOwned
            <4> QED
                BY <3>1, <4>2, <2>7 DEF WriteShort, Held, AtFailure, Memory, Goto,
                   Return
        <3>2. CASE u # v
            BY <3>2, <2>7 DEF WriteShort, Close, UnlinkTmp, Return, Goto, Release,
               ReaderVars
        <3> QED
            BY <3>1, <3>2
    <2>8. ASSUME NEW u \in Writers, Unlock(u) PROVE A(v)
        BY <2>8 DEF Unlock, Close, Goto, HeapVars, ReaderVars
    <2>9. ASSUME NEW u \in Writers, Rename(u) PROVE A(v)
        <3>1. CASE u = v
            <4>1. /\ Release(v, {"names", "buf", "mem"})
                  /\ {"names", "buf", "mem"} \in SUBSET owned[v]
                BY <3>1, <2>9 DEF Rename, Held, AtFailure, Memory
            <4>2. /\ owned'[v] = owned[v] \ ({"names", "buf", "mem"})
                  /\ misfreed'[v] \subseteq misfreed[v]
                BY <1>1, <4>1, ReleaseOwned
            <4> QED
                BY <3>1, <4>2, <2>9 DEF Rename, Held, AtFailure, Memory, Goto,
                   Return
        <3>2. CASE u # v
            BY <3>2, <2>9 DEF Rename, UnlinkTmp, Return, Goto, Release, ReaderVars
        <3> QED
            BY <3>1, <3>2
    <2>10. ASSUME NEW u \in Writers, RenameFails(u) PROVE A(v)
        BY <2>10 DEF RenameFails, UnlinkTmp, Return, Goto, Release, ReaderVars
    <2>11. ASSUME NEW u \in Writers, Kill(u) PROVE A(v)
        BY <2>11 DEF Kill, Close, Goto, ReaderVars
    <2>12. ASSUME NEW u \in Writers, Restart(u) PROVE A(v)
        BY <2>12 DEF Restart, Goto, HeapVars, ReaderVars
    <2>13. ASSUME NEW r \in Readers, LoadHeader(r) PROVE A(v)
        BY <2>13 DEF LoadHeader, HeapVars
    <2>14. ASSUME NEW r \in Readers, LoadPayload(r) PROVE A(v)
        BY <2>14 DEF LoadPayload, HeapVars
    <2>15. CASE UNCHANGED vars
        BY <2>15 DEF vars
    <2> QED
        BY <1>1, <2>1, <2>2, <2>3, <2>4, <2>5, <2>6, <2>7, <2>8, <2>9, <2>10,
           <2>11, <2>12, <2>13, <2>14, <2>15 DEF Next, Step
<1>2. IInv /\ [Next]_vars => [ReleasesOnce]_vars
    BY <1>1 DEF ReleasesOnce
<1> QED
    BY <1>2, Inductive, PTL DEF Spec, ReleasedOnce

-------------------------------------------------------------------------------
Busy(w) == pc[w] \notin {"idle", "dead"}

\* What a step of one writer does to the set of stores under way.
LEMMA UnderwayOfOne ==
    ASSUME NEW w \in Writers, \A v \in Writers : v # w => pc'[v] = pc[v] /\ stores'[v] = stores[v]
    PROVE  /\ ~Busy(w) /\ Busy(w)' => Underway' = Underway \cup {Storing(w)'}
           /\ Busy(w) /\ ~Busy(w)' => Underway' = Underway \ {Storing(w)}
           /\ Busy(w) = Busy(w)' /\ stores'[w] = stores[w] => Underway' = Underway
           /\ Busy(w) => Storing(w) \in Underway
           /\ \A x \in Underway : x[1] = w => x = Storing(w) /\ Busy(w)
BY DEF Busy, Underway, Storing

\* Only a rename changes what is published.
LEMMA PublishedKept ==
    ASSUME IInv, [Next]_vars, target' = target
    PROVE  Published' = Published
<1>1. CASE target = Nothing
    BY <1>1 DEF Published
<1>2. CASE target # Nothing
    <2>1. target \in Inode /\ InSight(target)
        BY <1>2 DEF IInv, TypeOK, InSight
    <2> QED
        BY <2>1, NotWritten DEF Published
<1> QED
    BY <1>1, <1>2

\* A rename publishes the store that does it.
LEMMA RenamePublishes ==
    ASSUME IInv, NEW w \in Writers, Rename(w)
    PROVE  Published' = Storing(w)
<1>1. data[tmp[Pid(w)]] = Whole(Storing(w)) /\ tmp[Pid(w)] # Nothing
    BY DEF Rename, IInv, Written
<1>2. target' = tmp[Pid(w)] /\ data' = data
    BY DEF Rename
<1> QED
    BY <1>1, <1>2 DEF Published, Whole

\* A step of the store is a step of AtomicPublish, or none.
LEMMA AbstractStep ==
    IInv /\ IInv' /\ [Next]_vars => [Abstract!Next]_<<Published, Underway>>
<1> SUFFICES ASSUME IInv, IInv', [Next]_vars
             PROVE  [Abstract!Next]_<<Published, Underway>>
    OBVIOUS
<1> DEFINE G == [Abstract!Next]_<<Published, Underway>>
<1>k. target' = target => Published' = Published
    BY PublishedKept
\* the writer goes on, gives up, or nobody's store is touched
<1>u. ASSUME NEW w \in Writers, target' = target,
             \A v \in Writers : v # w => pc'[v] = pc[v] /\ stores'[v] = stores[v],
             stores'[w] = stores[w], Busy(w)' => Busy(w)
      PROVE  G
    <2>1. CASE Busy(w)' = Busy(w)
        BY <1>k, <1>u, <2>1, UnderwayOfOne
    <2>2. CASE Busy(w) /\ ~Busy(w)'
        <3>1. Underway' = Underway \ {Storing(w)} /\ Storing(w) \in Underway
            BY <1>u, <2>2, UnderwayOfOne
        <3>2. Storing(w) \in Version
            BY <2>2, StoringVersion DEF Busy, IInv
        <3> QED
            BY <1>k, <1>u, <3>1, <3>2 DEF Abstract!Next, Abstract!GiveUp
    <2> QED
        BY <1>u, <2>1, <2>2 DEF Busy
<1> USE DEF IInv, TypeOK
<1>1. ASSUME NEW u \in Writers, Begin(u) PROVE G
    <2>1. /\ target' = target /\ ~Busy(u) /\ Busy(u)'
          /\ \A v \in Writers : v # u => pc'[v] = pc[v] /\ stores'[v] = stores[v]
        BY <1>1 DEF Begin, Goto, Busy
    <2>2. Underway' = Underway \cup {Storing(u)'} /\ \A x \in Underway : x[1] # u
        BY <2>1, UnderwayOfOne
    <2>3. Storing(u)' \in Version /\ Storing(u)'[1] = u
        BY <2>1 DEF Counted, Busy, Storing, Version
    <2>4. Storing(u)' \notin Underway
        BY <2>2, <2>3
    <2> QED
        BY <1>k, <2>1, <2>2, <2>3, <2>4 DEF Abstract!Next, Abstract!Start
<1>2. ASSUME NEW u \in Writers, Open(u) PROVE G
    <2>1. /\ target' = target /\ stores'[u] = stores[u] /\ (Busy(u)' => Busy(u))
          /\ \A v \in Writers : v # u => pc'[v] = pc[v] /\ stores'[v] = stores[v]
        BY <1>2 DEF Open, Goto, HeapVars, ReaderVars, Busy
    <2> QED
        BY <1>u, <2>1
<1>3. ASSUME NEW u \in Writers, OpenFails(u) PROVE G
    <2>1. /\ target' = target /\ stores'[u] = stores[u] /\ (Busy(u)' => Busy(u))
          /\ \A v \in Writers : v # u => pc'[v] = pc[v] /\ stores'[v] = stores[v]
        BY <1>3 DEF OpenFails, Goto, Return, Release, ReaderVars, Busy
    <2> QED
        BY <1>u, <2>1
<1>4. ASSUME NEW u \in Writers, Lock(u) PROVE G
    <2>1. /\ target' = target /\ stores'[u] = stores[u] /\ (Busy(u)' => Busy(u))
          /\ \A v \in Writers : v # u => pc'[v] = pc[v] /\ stores'[v] = stores[v]
        BY <1>4 DEF Lock, Goto, Allocate, ReaderVars, Busy
    <2> QED
        BY <1>u, <2>1
<1>5. ASSUME NEW u \in Writers, LockFails(u) PROVE G
    <2>1. /\ target' = target /\ stores'[u] = stores[u] /\ (Busy(u)' => Busy(u))
          /\ \A v \in Writers : v # u => pc'[v] = pc[v] /\ stores'[v] = stores[v]
        BY <1>5 DEF LockFails, Close, UnlinkTmp, Return, Goto, Release, ReaderVars,
           Busy
    <2> QED
        BY <1>u, <2>1
<1>6. ASSUME NEW u \in Writers, WriteAll(u) PROVE G
    <2>1. /\ target' = target /\ stores'[u] = stores[u] /\ (Busy(u)' => Busy(u))
          /\ \A v \in Writers : v # u => pc'[v] = pc[v] /\ stores'[v] = stores[v]
        BY <1>6 DEF WriteAll, Goto, Release, ReaderVars, Busy
    <2> QED
        BY <1>u, <2>1
<1>7. ASSUME NEW u \in Writers, WriteShort(u) PROVE G
    <2>1. /\ target' = target /\ stores'[u] = stores[u] /\ (Busy(u)' => Busy(u))
          /\ \A v \in Writers : v # u => pc'[v] = pc[v] /\ stores'[v] = stores[v]
        BY <1>7 DEF WriteShort, Close, UnlinkTmp, Return, Goto, Release,
           ReaderVars, Busy
    <2> QED
        BY <1>u, <2>1
<1>8. ASSUME NEW u \in Writers, Unlock(u) PROVE G
    <2>1. /\ target' = target /\ stores'[u] = stores[u] /\ (Busy(u)' => Busy(u))
          /\ \A v \in Writers : v # u => pc'[v] = pc[v] /\ stores'[v] = stores[v]
        BY <1>8 DEF Unlock, Close, Goto, HeapVars, ReaderVars, Busy
    <2> QED
        BY <1>u, <2>1
<1>9. ASSUME NEW u \in Writers, Rename(u) PROVE G
    <2>1. /\ Busy(u) /\ ~Busy(u)'
          /\ \A v \in Writers : v # u => pc'[v] = pc[v] /\ stores'[v] = stores[v]
        BY <1>9 DEF Rename, Return, Goto, Busy
    <2>2. Underway' = Underway \ {Storing(u)} /\ Storing(u) \in Underway
        BY <2>1, UnderwayOfOne
    <2>3. Storing(u) \in Version
        BY <2>1, StoringVersion DEF Busy
    <2>4. Published' = Storing(u)
        BY <1>9, RenamePublishes
    <2> QED
        BY <2>2, <2>3, <2>4 DEF Abstract!Next, Abstract!Publish
<1>10. ASSUME NEW u \in Writers, RenameFails(u) PROVE G
    <2>1. /\ target' = target /\ stores'[u] = stores[u] /\ (Busy(u)' => Busy(u))
          /\ \A v \in Writers : v # u => pc'[v] = pc[v] /\ stores'[v] = stores[v]
        BY <1>10 DEF RenameFails, UnlinkTmp, Return, Goto, Release, ReaderVars, Busy
    <2> QED
        BY <1>u, <2>1
<1>11. ASSUME NEW u \in Writers, Kill(u) PROVE G
    <2>1. /\ target' = target /\ stores'[u] = stores[u] /\ (Busy(u)' => Busy(u))
          /\ \A v \in Writers : v # u => pc'[v] = pc[v] /\ stores'[v] = stores[v]
        BY <1>11 DEF Kill, Close, Goto, ReaderVars, Busy
    <2> QED
        BY <1>u, <2>1
<1>12. ASSUME NEW u \in Writers, Restart(u) PROVE G
    <2>1. /\ target' = target /\ stores'[u] = stores[u] /\ (Busy(u)' => Busy(u))
          /\ \A v \in Writers : v # u => pc'[v] = pc[v] /\ stores'[v] = stores[v]
        BY <1>12 DEF Restart, Goto, HeapVars, ReaderVars, Busy
    <2> QED
        BY <1>u, <2>1
<1>13. ASSUME NEW r \in Readers, LoadHeader(r) PROVE G
    BY <1>13, <1>k DEF LoadHeader, Underway, Storing
<1>14. ASSUME NEW r \in Readers, LoadPayload(r) PROVE G
    BY <1>14, <1>k DEF LoadPayload, Underway, Storing
<1>15. CASE UNCHANGED vars
    BY <1>15, <1>k DEF vars, Underway, Storing
<1> QED
    BY <1>1, <1>2, <1>3, <1>4, <1>5, <1>6, <1>7, <1>8, <1>9, <1>10, <1>11, <1>12,
       <1>13, <1>14, <1>15 DEF Next, Step

\* For writers with a pid each, the target changes from one complete store to another
\* in a single step, whatever fails and whoever is killed: the system calls of the
\* store implement AtomicPublish.
THEOREM Refinement == ASSUME OnePidEach PROVE Spec => ImplementsAtomicPublish
<1>1. Init => Abstract!Init
    BY StoreTypes DEF Init, Abstract!Init, Published, Underway
<1>2. IInv /\ IInv' /\ [Next]_vars => [Abstract!Next]_<<Published, Underway>>
    BY AbstractStep
<1> QED
    BY <1>1, <1>2, Inductive, PTL DEF Spec, ImplementsAtomicPublish, Abstract!Spec
===============================================================================
