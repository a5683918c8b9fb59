------------------------------ MODULE SharedAlloc ------------------------------
(***************************************************************************)
(* The shared-memory segment of opkit (src/src/opkit_shared_alloc.c) as    *)
(* the processes that inherit it use it.                                   *)
(*                                                                         *)
(* The pages are one MAP_SHARED mapping: every process sees the same       *)
(* bytes.  The descriptor (pos, end) is malloc'ed: fork() copies it, and   *)
(* from then on each process moves its own pos.  The fcntl lock is shared  *)
(* through the inherited descriptor of the lock file.                      *)
(*                                                                         *)
(* A load (opkit_compile_script_load) is split at the points where another *)
(* process can run: the free-space test, taking the lock, the bump, the    *)
(* release, and the read of the payload into the block, which happens      *)
(* after the release.                                                      *)
(***************************************************************************)
EXTENDS Integers, FiniteSets

CONSTANTS
    Proc,        \* all processes that may ever exist
    Master,      \* the one that runs MINIT
    NoProc,      \* "nobody" (owner of a free lock)
    Loaders,     \* processes whose PHP code calls opkit_load
    Resetters,   \* processes whose PHP code calls opkit_shm_reset
    ShmSize,     \* opkit.shm_size
    Align,       \* ZEND_MM_ALIGNMENT
    Sizes,       \* mem_size + str_size of the .phpc files that are loaded
    MaxCalls,    \* bound: loads and resets per process
    LockErrors   \* may F_SETLKW fail with something else than EINTR?

ASSUME ProcAssumption ==
    /\ Master \in Proc
    /\ NoProc \notin Proc
    /\ Loaders \subseteq Proc
    /\ Resetters \subseteq Proc

ASSUME SizeAssumption ==
    /\ ShmSize \in Nat \ {0}
    /\ Align \in Nat \ {0}
    /\ Sizes \subseteq Nat \ {0}
    /\ MaxCalls \in Nat
    /\ LockErrors \in BOOLEAN

VARIABLES
    pc,          \* pc[p]: where p is in opkit's code
    mapped,      \* the processes with opkit_shm_segment # NULL
    lockFd,      \* opkit_lock_fd >= 0
    lockOwner,   \* the process that holds the write lock, or NoProc
    pos,         \* pos[p]: p's private copy of opkit_shm_segment->pos
    req,         \* req[p]: total_size of the load in progress
    got,         \* got[p]: offset of the block it was given, or Heap
    calls,       \* calls[p]: loads and resets p has begun
    held,        \* held[p]: blocks that p's loaded_scripts list points into
    page,        \* page[i]: tag of the load that last wrote byte i
    prefork,     \* observer: blocks held at the first fork
    resetAfter   \* observer: has pos been reset since the first fork?

vars == <<pc, mapped, lockFd, lockOwner, pos, req, got, calls, held, page,
          prefork, resetAfter>>

Heap == -1       \* the load fell back to emalloc
Zeroed == <<NoProc, 0>>  \* no load has written the byte: calls count from 1

Addr == 0 .. ShmSize - 1
Tag == Proc \X (Nat \ {0})
Block == [tag : Tag, lo : Addr, len : Sizes]

AlignDown(n) == (n \div Align) * Align    \* mutant of AlignUp

\* ZEND_MM_ALIGNED_SIZE
AlignUp(n) == ((n + Align - 1) \div Align) * Align

Bytes(b) == b.lo .. b.lo + b.len - 1
End(b) == b.lo + AlignUp(b.len)

PCs == {"unborn", "starting", "idle", "load_lock", "load_alloc",
        "load_unlock", "read", "reset_lock", "reset_pos", "reset_unlock",
        "dead"}

Alive == {p \in Proc : pc[p] \notin {"unborn", "dead"}}
Forked == \E p \in Proc \ {Master} : pc[p] # "unborn"
InCS(p) == pc[p] \in {"load_alloc", "load_unlock", "reset_pos", "reset_unlock"}

-------------------------------------------------------------------------------
Init ==
    /\ pc = [p \in Proc |-> IF p = Master THEN "starting" ELSE "unborn"]
    /\ mapped = {}
    /\ lockFd = FALSE
    /\ lockOwner = NoProc
    /\ pos = [p \in Proc |-> 0]
    /\ req = [p \in Proc |-> 0]
    /\ got = [p \in Proc |-> Heap]
    /\ calls = [p \in Proc |-> 0]
    /\ held = [p \in Proc |-> {}]
    /\ page = [i \in Addr |-> Zeroed]
    /\ prefork = {}
    /\ resetAfter = FALSE

Goto(p, label) == pc' = [pc EXCEPT ![p] = label]

\* MINIT: the segment and then its lock file.  Without a segment (size 0, or
\* mmap or malloc failed) the lock is not created either; MINIT succeeds
\* anyway.  Every way of creating the lock file may fail.
Startup ==
    /\ pc[Master] = "starting"
    /\ Goto(Master, "idle")
    /\ \/ mapped' = {Master} /\ lockFd' \in BOOLEAN
       \/ UNCHANGED <<mapped, lockFd>>
    /\ UNCHANGED <<lockOwner, pos, req, got, calls, held, page, prefork,
                   resetAfter>>

NewDescriptor(p, c) == UNCHANGED pos    \* mutant of CopyDescriptor

\* The descriptor is malloc'ed: the child's copy starts where the parent's is.
CopyDescriptor(p, c) == pos' = [pos EXCEPT ![c] = pos[p]]

\* fork() outside opkit's code: the child gets a copy of the descriptor and of
\* loaded_scripts, the same pages and the same lock file.
Fork(p, c) ==
    /\ pc[p] = "idle"
    /\ pc[c] = "unborn"
    /\ Goto(c, "idle")
    /\ mapped' = IF p \in mapped THEN mapped \cup {c} ELSE mapped
    /\ CopyDescriptor(p, c)
    /\ held' = [held EXCEPT ![c] = held[p]]
    /\ prefork' = IF Forked THEN prefork ELSE held[p]
    /\ UNCHANGED <<lockFd, lockOwner, req, got, calls, page, resetAfter>>

FreeMemory(p) == IF p \in mapped THEN ShmSize - pos[p] ELSE 0

\* The test of the free space is made before the lock is taken.
BeginLoad(p, size) ==
    /\ pc[p] = "idle"
    /\ p \in Loaders
    /\ calls[p] < MaxCalls
    /\ calls' = [calls EXCEPT ![p] = @ + 1]
    /\ req' = [req EXCEPT ![p] = size]
    /\ got' = [got EXCEPT ![p] = Heap]
    /\ Goto(p, IF FreeMemory(p) >= size THEN "load_lock" ELSE "read")
    /\ UNCHANGED <<mapped, lockFd, lockOwner, pos, held, page, prefork,
                   resetAfter>>

LockStates == [load_lock |-> "load_alloc", reset_lock |-> "reset_pos"]
UnlockStates == [load_unlock |-> "read", reset_unlock |-> "idle"]

AcquireNow(p) == lockOwner' = p           \* mutant of Acquire
ReleaseForgotten(p) == UNCHANGED lockOwner \* mutant of Release

Acquire(p) == lockOwner = NoProc /\ lockOwner' = p
Release(p) == lockOwner' = IF lockOwner = p THEN NoProc ELSE lockOwner

\* F_SETLKW blocks while another process owns the lock.  Without a lock file
\* it is a no-op; on an error other than EINTR the caller goes on without it.
Lock(p) ==
    /\ pc[p] \in DOMAIN LockStates
    /\ Goto(p, LockStates[pc[p]])
    /\ \/ lockFd /\ Acquire(p)
       \/ (~lockFd \/ LockErrors) /\ UNCHANGED lockOwner
    /\ UNCHANGED <<mapped, lockFd, pos, req, got, calls, held, page, prefork,
                   resetAfter>>

FitsUnrounded(p) == req[p] <= ShmSize - pos[p]    \* mutant of Fits

Fits(p) == AlignUp(req[p]) <= ShmSize - pos[p]

\* opkit_shared_alloc: the block that is left may be too small once the size
\* is rounded up, although the test in BeginLoad passed.
Alloc(p) ==
    /\ pc[p] = "load_alloc"
    /\ Goto(p, "load_unlock")
    /\ IF Fits(p)
         THEN /\ got' = [got EXCEPT ![p] = pos[p]]
              /\ pos' = [pos EXCEPT ![p] = @ + AlignUp(req[p])]
         ELSE UNCHANGED <<got, pos>>
    /\ UNCHANGED <<mapped, lockFd, lockOwner, req, calls, held, page, prefork,
                   resetAfter>>

Unlock(p) ==
    /\ pc[p] \in DOMAIN UnlockStates
    /\ Goto(p, UnlockStates[pc[p]])
    /\ Release(p)
    /\ UNCHANGED <<mapped, lockFd, pos, req, got, calls, held, page, prefork,
                   resetAfter>>

InFlight(p) == [tag |-> <<p, calls[p]>>, lo |-> got[p], len |-> req[p]]

\* The first n bytes of p's block now hold its payload.
Written(p, n) ==
    [i \in Addr |-> IF i \in got[p] .. got[p] + n - 1
                      THEN <<p, calls[p]>> ELSE page[i]]

\* The load's locals go out of scope.
EndLoad(p) ==
    /\ req' = [req EXCEPT ![p] = 0]
    /\ got' = [got EXCEPT ![p] = Heap]

\* The payload is read in and unserialized in place, then opkit_keep_memory
\* puts the script on the list.
ReadPayload(p) ==
    /\ pc[p] = "read"
    /\ Goto(p, "idle")
    /\ IF got[p] = Heap
         THEN UNCHANGED <<page, held>>
         ELSE /\ page' = Written(p, req[p])
              /\ held' = [held EXCEPT ![p] = @ \cup {InFlight(p)}]
    /\ EndLoad(p)
    /\ UNCHANGED <<mapped, lockFd, lockOwner, pos, calls, prefork, resetAfter>>

\* A short read: the load returns NULL and only heap memory is given back; a
\* shared block stays allocated although nothing points into it.
ShortRead(p) ==
    /\ pc[p] = "read"
    /\ Goto(p, "idle")
    /\ IF got[p] = Heap
         THEN UNCHANGED page
         ELSE \E n \in 0 .. req[p] - 1 : page' = Written(p, n)
    /\ EndLoad(p)
    /\ UNCHANGED <<mapped, lockFd, lockOwner, pos, calls, held, prefork,
                   resetAfter>>

KeepScripts(p) == UNCHANGED held    \* mutant of DropScripts

\* opkit_reset_script: no script of p is loaded any more.
DropScripts(p) == held' = [held EXCEPT ![p] = {}]

\* RSHUTDOWN empties loaded_scripts; the segment keeps its pos.
EndRequest(p) ==
    /\ pc[p] = "idle"
    /\ DropScripts(p)
    /\ UNCHANGED <<pc, mapped, lockFd, lockOwner, pos, req, got, calls, page,
                   prefork, resetAfter>>

\* opkit_shm_reset of the PHP interface: opkit_reset_script first, then the
\* allocator.
BeginReset(p) ==
    /\ pc[p] = "idle"
    /\ p \in Resetters
    /\ calls[p] < MaxCalls
    /\ calls' = [calls EXCEPT ![p] = @ + 1]
    /\ DropScripts(p)
    /\ Goto(p, IF p \in mapped THEN "reset_lock" ELSE "idle")
    /\ UNCHANGED <<mapped, lockFd, lockOwner, pos, req, got, page, prefork,
                   resetAfter>>

ResetPos(p) ==
    /\ pc[p] = "reset_pos"
    /\ Goto(p, "reset_unlock")
    /\ pos' = [pos EXCEPT ![p] = 0]
    /\ resetAfter' = (resetAfter \/ Forked)
    /\ UNCHANGED <<mapped, lockFd, lockOwner, req, got, calls, held, page,
                   prefork>>

\* A process ends (MSHUTDOWN) or is killed at any point; the kernel drops its
\* lock and its mapping.
Exit(p) ==
    /\ p \in Alive
    /\ Goto(p, "dead")
    /\ mapped' = mapped \ {p}
    /\ Release(p)
    /\ DropScripts(p)
    /\ pos' = [pos EXCEPT ![p] = 0]
    /\ EndLoad(p)
    /\ UNCHANGED <<lockFd, calls, page, prefork, resetAfter>>

Next ==
    \/ Startup
    \/ \E p, c \in Proc : Fork(p, c)
    \/ \E p \in Proc :
          \/ \E size \in Sizes : BeginLoad(p, size)
          \/ Lock(p)
          \/ Alloc(p)
          \/ Unlock(p)
          \/ ReadPayload(p)
          \/ ShortRead(p)
          \/ EndRequest(p)
          \/ BeginReset(p)
          \/ ResetPos(p)
          \/ Exit(p)

Spec == Init /\ [][Next]_vars

\* A process inside opkit's code goes on: no step of it waits for anything but
\* the lock.  Weak fairness is enough because every process makes finitely
\* many calls.
Progress(p) ==
    Lock(p) \/ Alloc(p) \/ Unlock(p) \/ ReadPayload(p) \/ ResetPos(p)

FairSpec == Spec /\ \A p \in Proc : WF_vars(Progress(p))

-------------------------------------------------------------------------------
\* Every variable has its type; offsets stay inside the segment.
TypeOK ==
    /\ pc \in [Proc -> PCs]
    /\ mapped \subseteq Proc
    /\ lockFd \in BOOLEAN
    /\ lockOwner \in Proc \cup {NoProc}
    /\ pos \in [Proc -> 0 .. ShmSize]
    /\ req \in [Proc -> Sizes \cup {0}]
    /\ got \in [Proc -> Addr \cup {Heap}]
    /\ calls \in [Proc -> Nat]
    /\ held \in [Proc -> SUBSET Block]
    /\ page \in [Addr -> Tag \cup {Zeroed}]
    /\ prefork \subseteq Block
    /\ resetAfter \in BOOLEAN

\* fcntl's lock works as a mutual exclusion between processes: whoever is
\* between opkit_shared_alloc_lock and _unlock owns it, unless the lock file
\* could not be created or the kernel refused the lock.  A killed owner does
\* not leave it taken.
MutualExclusion ==
    /\ lockFd /\ ~LockErrors => \A p \in Proc : InCS(p) => lockOwner = p
    /\ lockOwner # NoProc => InCS(lockOwner)

\* The blocks process p may write to or reads scripts from.
Claimed(p) ==
    held[p] \cup
    (IF pc[p] \in {"load_unlock", "read"} /\ got[p] # Heap
       THEN {InFlight(p)} ELSE {})

Disjoint(b, c) == End(b) <= c.lo \/ End(c) <= b.lo

\* Within one process the allocator never hands out bytes of a script that is
\* still loaded: not across resets (opkit_shm_reset drops the scripts before
\* pos goes back), not across fork, not when rounding up meets the end of the
\* segment.
ClaimedDisjoint ==
    \A p \in Alive :
        /\ \A b \in Claimed(p) : End(b) <= pos[p]
        /\ \A b, c \in Claimed(p) : b # c => Disjoint(b, c)

Intact(b) == \A i \in Bytes(b) : page[i] = b.tag

\* What the design does give to the documented "load in the parent, fork, use
\* in the children" model: the parent's scripts keep their bytes as long as it
\* is alone, resets and short reads included, and those loaded before the first
\* fork keep them whatever the processes load afterwards, as long as none of
\* them resets the segment.
PreforkIntact ==
    ~resetAfter =>
        \A b \in IF Forked THEN prefork ELSE held[Master] : Intact(b)

\* README.en.md promises "zero-copy sharing across multiple processes (e.g.,
\* PHP-FPM Workers)": no process finds the bytes of a script on its list
\* replaced by another process's load.
HeldIntact == \A p \in Alive : \A b \in held[p] : Intact(b)

\* Seen from outside the segment is one heap per process: the region of each
\* claimed block, rounded up as the allocator rounds it.
RegionOf(b) == [lo |-> b.lo, hi |-> End(b)]

Regions == [p \in Proc |-> {RegionOf(b) : b \in Claimed(p)}]

Private == INSTANCE PrivateHeap WITH Size <- ShmSize, regions <- Regions

\* Every step gives a process a fresh region, takes some back, or copies a
\* parent's to its child: fork, reset, a short read and a kill included.
ImplementsPrivateHeap == Private!Spec

\* Every call of the allocator's lock returns: nobody is left waiting by
\* another process's crash or by an early exit.
LockGranted ==
    \A p \in Proc : pc[p] \in DOMAIN LockStates ~> pc[p] \notin DOMAIN LockStates

===============================================================================
