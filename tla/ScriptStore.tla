------------------------------ MODULE ScriptStore ------------------------------
(***************************************************************************)
(* How a .phpc file gets to the disk and from there into a process: the    *)
(* file protocol of opkit_compile_script_store (temporary file, flock,     *)
(* write, rename) by several writers of one target, and the two reads of   *)
(* opkit_compile_script_load, all of them interleaved system call by       *)
(* system call.                                                            *)
(*                                                                         *)
(* The name of the temporary file ends in getpid(): processes of different *)
(* pid namespaces that share the directory may have the same one.          *)
(***************************************************************************)
EXTENDS Integers

CONSTANTS
    Writers, Readers,
    Pids,
    PidOf,          \* PidOf[w]: what getpid() returns to writer w
    MaxStores,      \* bound: stores per writer
    MaxLoads,       \* bound: loads per reader
    Nothing,        \* absent: no file, no bytes, nobody
    Torn            \* a file with parts of several stores or of half a one

ASSUME PidAssumption == PidOf \in [Writers -> Pids]
ASSUME StoreAssumption ==
    /\ MaxStores \in Nat /\ MaxLoads \in Nat
    /\ Nothing \notin Writers
    /\ {Nothing, Torn} \cap (Writers \X (1 .. MaxStores)) = {} /\ Nothing # Torn

Version == Writers \X (1 .. MaxStores)      \* a store, by its writer
Inode == Writers \X (1 .. MaxStores)        \* created by the store of that name

\* Header and payload of a file, by the store that wrote them.
Part == Version \cup {Nothing}
Content == [head : Part, body : Part]
Empty == [head |-> Nothing, body |-> Nothing]
Whole(v) == [head |-> v, body |-> v]

VARIABLES
    pc,         \* pc[w]: the system call writer w does next
    stores,     \* stores[w]: number of stores w has begun
    fd,         \* fd[w]: inode that w has open
    target,     \* inode under the name of the .phpc file
    tmp,        \* tmp[pid]: inode under the name of that temporary file
    data,       \* data[i]: content of inode i
    flock,      \* flock[i]: the writer that holds inode i's lock
    owned,      \* owned[w]: the memory the store of w has to release
    misfreed,   \* misfreed[w]: what it has released without owning it
    rd,         \* rd[r]: the load in progress, [open, head]
    loads,      \* loads[r]: loads r has begun
    loaded      \* loaded[r]: content of the script that r loaded last

vars == <<pc, stores, fd, target, tmp, data, flock, owned, misfreed, rd, loads, loaded>>

\* The block of the persistent script, the names of the two files, the relative
\* name, the reference to the script's name, the translation table, the buffer
\* and the string pool of the serialized script.
Memory == {"mem", "names", "rel", "orig", "xlat", "buf", "pool"}

NoLoad == [open |-> Nothing, head |-> Nothing]

Init ==
    /\ pc = [w \in Writers |-> "idle"]
    /\ stores = [w \in Writers |-> 0]
    /\ fd = [w \in Writers |-> Nothing]
    /\ target = Nothing
    /\ tmp = [pid \in Pids |-> Nothing]
    /\ data = [i \in Inode |-> Empty]
    /\ flock = [i \in Inode |-> Nothing]
    /\ owned = [w \in Writers |-> {}]
    /\ misfreed = [w \in Writers |-> {}]
    /\ rd = [r \in Readers |-> NoLoad]
    /\ loads = [r \in Readers |-> 0]
    /\ loaded = [r \in Readers |-> Empty]

Goto(w, label) == pc' = [pc EXCEPT ![w] = label]
OnePid(w) == CHOOSE pid \in Pids : TRUE    \* mutant of Pid

Pid(w) == PidOf[w]
Storing(w) == <<w, stores[w]>>
ReaderVars == <<rd, loads, loaded>>
HeapVars == <<owned, misfreed>>

\* efree and zend_string_release of everything in R.
Release(w, R) ==
    /\ owned' = [owned EXCEPT ![w] = @ \ R]
    /\ misfreed' = [misfreed EXCEPT ![w] = @ \cup (R \ owned[w])]
Allocate(w, R) == owned' = [owned EXCEPT ![w] = @ \cup R] /\ UNCHANGED misfreed

\* What the label store_failure releases, whichever error has jumped there.
AtFailure == {"rel", "orig", "xlat"}

-------------------------------------------------------------------------------
\* opkit_compile_file: the script is compiled; the store persists it in memory.
\* What an earlier store has leaked or released twice is not followed.
Begin(w) ==
    /\ pc[w] = "idle"
    /\ stores[w] < MaxStores
    /\ Goto(w, "open")
    /\ stores' = [stores EXCEPT ![w] = @ + 1]
    /\ owned' = [owned EXCEPT ![w] = AtFailure \cup {"mem", "names"}]
    /\ misfreed' = [misfreed EXCEPT ![w] = {}]
    /\ UNCHANGED <<fd, target, tmp, data, flock, ReaderVars>>

\* The store returns; opkit_do_compile_file does not look at what.
Return(w) == Goto(w, "idle")

Close(w) ==
    /\ fd' = [fd EXCEPT ![w] = Nothing]
    /\ flock' = [i \in Inode |-> IF i = fd[w] /\ flock[i] = w
                                   THEN Nothing ELSE flock[i]]

\* unlink goes by name: it takes whatever inode has the name by now.
UnlinkTmp(w) == tmp' = [tmp EXCEPT ![Pid(w)] = Nothing]

\* open(O_CREAT | O_TRUNC): an existing file is emptied before it is locked.
Opened(w) == IF tmp[Pid(w)] = Nothing THEN Storing(w) ELSE tmp[Pid(w)]

Open(w) ==
    /\ pc[w] = "open"
    /\ fd' = [fd EXCEPT ![w] = Opened(w)]
    /\ tmp' = [tmp EXCEPT ![Pid(w)] = Opened(w)]
    /\ data' = [data EXCEPT ![Opened(w)] = Empty]
    /\ Goto(w, "lock")
    /\ UNCHANGED <<stores, target, flock, HeapVars, ReaderVars>>

\* mkdir before it and the open itself may fail.
OpenFails(w) ==
    /\ pc[w] = "open"
    /\ Return(w)
    /\ Release(w, AtFailure \cup {"mem", "names"})
    /\ UNCHANGED <<stores, fd, target, tmp, data, flock, ReaderVars>>

\* flock(LOCK_EX) waits for another holder; if it fails the file is removed.
Lock(w) ==
    /\ pc[w] = "lock"
    /\ flock[fd[w]] = Nothing
    /\ flock' = [flock EXCEPT ![fd[w]] = w]
    /\ Goto(w, "write")
    /\ Allocate(w, {"buf", "pool"})
    /\ UNCHANGED <<stores, fd, target, tmp, data, ReaderVars>>

LockFails(w) ==
    /\ pc[w] = "lock"
    /\ Close(w)
    /\ UnlinkTmp(w)
    /\ Return(w)
    /\ Release(w, AtFailure \cup {"mem", "names"})
    /\ UNCHANGED <<stores, target, data, ReaderVars>>

\* One writev of header, payload and strings, from offset 0 of this open.
WriteAll(w) ==
    /\ pc[w] = "write"
    /\ data' = [data EXCEPT ![fd[w]] = Whole(Storing(w))]
    /\ Goto(w, "unlock")
    /\ Release(w, AtFailure \cup {"pool"})
    /\ UNCHANGED <<stores, fd, target, tmp, flock, ReaderVars>>

\* mutants of WriteShort: an early return without close, one error too few, and
\* memory that is forgotten
WriteShortLeaks(w) ==
    /\ pc[w] = "write"
    /\ UnlinkTmp(w)
    /\ Return(w)
    /\ Release(w, Memory)
    /\ UNCHANGED <<stores, fd, data, flock, target, ReaderVars>>
WriteShortAccepted(w) ==
    /\ pc[w] = "write"
    /\ data' = [data EXCEPT ![fd[w]] = [head |-> Storing(w), body |-> Nothing]]
    /\ Goto(w, "unlock")
    /\ Release(w, AtFailure \cup {"pool"})
    /\ UNCHANGED <<stores, fd, tmp, flock, target, ReaderVars>>
WriteShortKeepsBuffer(w) ==
    /\ pc[w] = "write"
    /\ data' = [data EXCEPT ![fd[w]] = [head |-> Storing(w), body |-> Nothing]]
    /\ Close(w)
    /\ UnlinkTmp(w)
    /\ Return(w)
    /\ Release(w, Memory \ {"buf"})
    /\ UNCHANGED <<stores, target, ReaderVars>>

\* A short write is an error: close, remove the file, give up.
WriteShort(w) ==
    /\ pc[w] = "write"
    /\ data' = [data EXCEPT ![fd[w]] = [head |-> Storing(w), body |-> Nothing]]
    /\ Close(w)
    /\ UnlinkTmp(w)
    /\ Return(w)
    /\ Release(w, Memory)
    /\ UNCHANGED <<stores, target, ReaderVars>>

\* flock(LOCK_UN), close.
Unlock(w) ==
    /\ pc[w] = "unlock"
    /\ Close(w)
    /\ Goto(w, "rename")
    /\ UNCHANGED <<stores, target, tmp, data, HeapVars, ReaderVars>>

\* rename replaces the target by whatever has the temporary name; it fails if
\* nothing has.  The script stays in memory, opkit_keep_memory has it.
Rename(w) ==
    /\ pc[w] = "rename"
    /\ tmp[Pid(w)] # Nothing
    /\ target' = tmp[Pid(w)]
    /\ UnlinkTmp(w)
    /\ Return(w)
    /\ Release(w, {"names", "buf", "mem"})
    /\ UNCHANGED <<stores, fd, data, flock, ReaderVars>>

RenameFails(w) ==
    /\ pc[w] = "rename"
    /\ UnlinkTmp(w)
    /\ Return(w)
    /\ Release(w, AtFailure \cup {"names", "buf"})
    /\ UNCHANGED <<stores, fd, target, data, flock, ReaderVars>>

\* The writer is killed: the kernel closes the file, the name stays.
Kill(w) ==
    /\ pc[w] # "dead"
    /\ Goto(w, "dead")
    /\ Close(w)
    /\ owned' = [owned EXCEPT ![w] = {}]
    /\ misfreed' = [misfreed EXCEPT ![w] = {}]
    /\ UNCHANGED <<stores, target, tmp, data, ReaderVars>>

\* Its pid is used again, and with it the name of the file it has left.
Restart(w) ==
    /\ pc[w] = "dead"
    /\ Goto(w, "idle")
    /\ UNCHANGED <<stores, fd, target, tmp, data, flock, HeapVars, ReaderVars>>

-------------------------------------------------------------------------------
\* opkit_compile_script_load opens the file and reads its header; no file or a
\* short header is the end of it.
LoadHeader(r) ==
    /\ rd[r] = NoLoad
    /\ loads[r] < MaxLoads
    /\ target # Nothing
    /\ loads' = [loads EXCEPT ![r] = @ + 1]
    /\ rd' = [rd EXCEPT ![r] =
                IF data[target].head = Nothing THEN NoLoad
                ELSE [open |-> target, head |-> data[target].head]]
    /\ UNCHANGED <<pc, stores, fd, target, tmp, data, flock, HeapVars, loaded>>

\* The payload, of the size the header says: with another store's payload in
\* its place there may or may not be enough bytes.  The checksum of the header is
\* not compared with that of the bytes.
Body(r) == data[rd[r].open].body

LoadPayload(r) ==
    /\ rd[r] # NoLoad
    /\ \/ /\ Body(r) # Nothing
          /\ loaded' = [loaded EXCEPT ![r] = [head |-> rd[r].head, body |-> Body(r)]]
       \/ /\ Body(r) # rd[r].head
          /\ UNCHANGED loaded
    /\ rd' = [rd EXCEPT ![r] = NoLoad]
    /\ UNCHANGED <<pc, stores, fd, target, tmp, data, flock, HeapVars, loads>>

Step(w) ==
    Open(w) \/ OpenFails(w) \/ Lock(w) \/ LockFails(w) \/ WriteAll(w)
    \/ WriteShort(w) \/ Unlock(w) \/ Rename(w) \/ RenameFails(w)

Next ==
    \/ \E w \in Writers : Begin(w) \/ Step(w) \/ Kill(w) \/ Restart(w)
    \/ \E r \in Readers : LoadHeader(r) \/ LoadPayload(r)

Spec == Init /\ [][Next]_vars

-------------------------------------------------------------------------------
\* Every variable has its type; a writer has a file open exactly while it is
\* between open and close, and holds no lock of another file.
TypeOK ==
    /\ pc \in [Writers -> {"idle", "open", "lock", "write", "unlock", "rename",
                           "dead"}]
    /\ stores \in [Writers -> 0 .. MaxStores]
    /\ fd \in [Writers -> Inode \cup {Nothing}]
    /\ flock \in [Inode -> Writers \cup {Nothing}]
    /\ rd \in [Readers -> [open : Inode \cup {Nothing}, head : Part]]
    /\ loads \in [Readers -> 0 .. MaxLoads]
    /\ target \in Inode \cup {Nothing}
    /\ tmp \in [Pids -> Inode \cup {Nothing}]
    /\ data \in [Inode -> Content]
    /\ loaded \in [Readers -> Content]
    /\ owned \in [Writers -> SUBSET Memory]
    /\ misfreed \in [Writers -> SUBSET Memory]
    /\ \A w \in Writers : fd[w] # Nothing <=> pc[w] \in {"lock", "write", "unlock"}
    /\ \A i \in Inode : flock[i] # Nothing => fd[flock[i]] = i

\* A load that succeeds has header and payload of one store, whatever writers
\* and other loads do between its two reads.
LoadsWhole == \A r \in Readers : loaded[r].head = loaded[r].body

\* Every way out of a store releases what the store has allocated, each piece once,
\* except when rename fails.
ReleasesOnce ==
    \A w \in Writers : ~RenameFails(w) =>
        /\ misfreed'[w] \subseteq misfreed[w]
        /\ pc[w] \notin {"idle", "dead"} /\ pc'[w] = "idle" => owned'[w] = {}
ReleasedOnce == [][ReleasesOnce]_vars

\* The target changes from one complete store to another and in no other way.
Published ==
    IF target = Nothing THEN Nothing
    ELSE IF data[target].head = data[target].body THEN data[target].head
    ELSE Torn

Underway == {Storing(w) : w \in {v \in Writers : pc[v] \notin {"idle", "dead"}}}

Abstract == INSTANCE AtomicPublish WITH
    published <- Published, underway <- Underway

\* Between two stores that run at the same time, a kill, and every error of
\* open, flock, write and rename, the file is published as AtomicPublish says.
ImplementsAtomicPublish == Abstract!Spec
===============================================================================
