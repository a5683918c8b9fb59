--------------------------- MODULE SharedAlloc_proofs ---------------------------
(***************************************************************************)
(* Proofs about SharedAlloc for every set of processes, segment size,      *)
(* alignment and file sizes.                                               *)
(***************************************************************************)
EXTENDS SharedAlloc, TLAPS

\* Rounding up to the alignment never shrinks a size.
LEMMA AlignUpBounds ==
    ASSUME NEW n \in Nat
    PROVE  AlignUp(n) \in Nat /\ AlignUp(n) >= n
<1> DEFINE q == (n + Align - 1) \div Align
<1>1. Align \in Nat \ {0}
  BY SizeAssumption
<1>2. q \in Nat /\ Align * q <= n + Align - 1 /\ n + Align - 1 < Align * (q + 1)
  BY <1>1
<1>3. Align * (q + 1) = Align * q + Align
  BY <1>1, <1>2
<1>4. q * Align = Align * q
  BY <1>1, <1>2
<1>5. q * Align \in Nat
  BY <1>1, <1>2
<1> HIDE DEF q
<1>6. q * Align >= n
  BY <1>1, <1>2, <1>3, <1>4, <1>5
<1>7. AlignUp(n) = q * Align
  BY DEF AlignUp, q
<1> QED
  BY <1>5, <1>6, <1>7

-------------------------------------------------------------------------------
\* Where a process is in opkit's code says what its locals and its list are.
LoadPCs == {"load_lock", "load_alloc", "load_unlock", "read"}
EmptyPCs == {"unborn", "starting", "dead", "reset_lock", "reset_pos",
             "reset_unlock"}

PcInv ==
    /\ \A p \in Proc : pc[p] = "starting" =>
          p = Master /\ \A c \in Proc \ {Master} : pc[c] = "unborn"
    /\ \A p \in Proc : pc[p] \in LoadPCs => req[p] \in Sizes /\ calls[p] >= 1
    /\ \A p \in Proc : pc[p] \in {"load_lock", "load_alloc"} => got[p] = Heap
    /\ \A p \in Proc : pc[p] \in EmptyPCs => held[p] = {}

TypeInv == TypeOK /\ PcInv

LEMMA TypeInvInit == Init => TypeInv
<1> SUFFICES ASSUME Init PROVE TypeInv
  OBVIOUS
<1> USE ProcAssumption, SizeAssumption DEF Init
<1>1. TypeOK
  <2>1. pc \in [Proc -> PCs]
    BY DEF PCs
  <2>2. page \in [Addr -> Tag \cup {Zeroed}]
    OBVIOUS
  <2>3. got \in [Proc -> Addr \cup {Heap}] /\ held \in [Proc -> SUBSET Block]
    OBVIOUS
  <2>4. pos \in [Proc -> 0 .. ShmSize] /\ calls \in [Proc -> Nat]
    OBVIOUS
  <2> QED
    BY <2>1, <2>2, <2>3, <2>4 DEF TypeOK
<1>2. PcInv
  BY DEF PcInv, LoadPCs, EmptyPCs
<1> QED
  BY <1>1, <1>2 DEF TypeInv

\* A block given out lies in the segment.
LEMMA AllocType ==
    ASSUME TypeInv, NEW p \in Proc, Alloc(p)
    PROVE  pos' \in [Proc -> 0 .. ShmSize] /\ got' \in [Proc -> Addr \cup {Heap}]
<1> USE SizeAssumption DEF TypeInv, TypeOK
<1>1. req[p] \in Nat \ {0} /\ pos[p] \in 0 .. ShmSize
  BY DEF Alloc, PcInv, LoadPCs
<1>2. AlignUp(req[p]) \in Nat /\ AlignUp(req[p]) >= 1
  BY <1>1, AlignUpBounds
<1>3. CASE ~Fits(p)
  BY <1>3 DEF Alloc
<1>4. CASE Fits(p)
  <2>1. pos[p] \in Addr /\ pos[p] + AlignUp(req[p]) \in 0 .. ShmSize
    BY <1>1, <1>2, <1>4 DEF Addr, Fits
  <2> QED
    BY <1>4, <2>1 DEF Alloc
<1> QED
  BY <1>3, <1>4

\* The block of a load that got shared memory is a Block.
LEMMA InFlightType ==
    ASSUME TypeInv, NEW p \in Proc, pc[p] \in LoadPCs, got[p] # Heap
    PROVE  InFlight(p) \in Block
BY SizeAssumption DEF TypeInv, TypeOK, PcInv, InFlight, Block, Tag

LEMMA WrittenType ==
    ASSUME TypeInv, NEW p \in Proc, pc[p] \in LoadPCs, NEW n \in Nat
    PROVE  Written(p, n) \in [Addr -> Tag \cup {Zeroed}]
BY DEF TypeInv, TypeOK, PcInv, Written, Tag

LEMMA TypeOKStep == TypeInv /\ [Next]_vars => TypeOK'
<1> SUFFICES ASSUME TypeInv, [Next]_vars PROVE TypeOK'
  OBVIOUS
<1> USE ProcAssumption, SizeAssumption
<1>1. CASE Startup
  BY <1>1 DEF Startup, Goto, TypeInv, TypeOK, PCs
<1>2. ASSUME NEW p \in Proc, NEW c \in Proc, Fork(p, c) PROVE TypeOK'
  BY <1>2 DEF Fork, CopyDescriptor, Goto, TypeInv, TypeOK, PCs
<1>3. ASSUME NEW p \in Proc, NEW size \in Sizes, BeginLoad(p, size)
      PROVE TypeOK'
  <2>1. pc' \in [Proc -> PCs]
    BY <1>3 DEF BeginLoad, Goto, TypeInv, TypeOK, PCs
  <2>2. got' \in [Proc -> Addr \cup {Heap}] /\ req' \in [Proc -> Sizes \cup {0}]
    BY <1>3 DEF BeginLoad, TypeInv, TypeOK
  <2>3. calls' \in [Proc -> Nat]
    BY <1>3 DEF BeginLoad, TypeInv, TypeOK
  <2> QED
    BY <1>3, <2>1, <2>2, <2>3 DEF BeginLoad, TypeInv, TypeOK
<1>4. ASSUME NEW p \in Proc, Lock(p) PROVE TypeOK'
  <2>1. LockStates[pc[p]] \in PCs
    BY <1>4 DEF Lock, LockStates, PCs
  <2>2. pc' \in [Proc -> PCs]
    BY <1>4, <2>1 DEF Lock, Goto, TypeInv, TypeOK
  <2> QED
    BY <1>4, <2>2 DEF Lock, Acquire, TypeInv, TypeOK
<1>5. ASSUME NEW p \in Proc, Alloc(p) PROVE TypeOK'
  <2>1. pc' \in [Proc -> PCs]
    BY <1>5 DEF Alloc, Goto, TypeInv, TypeOK, PCs
  <2> QED
    BY <1>5, <2>1, AllocType DEF Alloc, TypeInv, TypeOK
<1>6. ASSUME NEW p \in Proc, Unlock(p) PROVE TypeOK'
  <2>1. UnlockStates[pc[p]] \in PCs
    BY <1>6 DEF Unlock, UnlockStates, PCs
  <2>2. pc' \in [Proc -> PCs]
    BY <1>6, <2>1 DEF Unlock, Goto, TypeInv, TypeOK
  <2> QED
    BY <1>6, <2>2 DEF Unlock, Release, TypeInv, TypeOK
<1>7. ASSUME NEW p \in Proc, EndLoad(p)
      PROVE  req' \in [Proc -> Sizes \cup {0}] /\ got' \in [Proc -> Addr \cup {Heap}]
  BY <1>7 DEF EndLoad, TypeInv, TypeOK
<1>8. ASSUME NEW p \in Proc, ReadPayload(p) PROVE TypeOK'
  <2>1. pc' \in [Proc -> PCs]
    BY <1>8 DEF ReadPayload, Goto, TypeInv, TypeOK, PCs
  <2>2. pc[p] \in LoadPCs
    BY <1>8 DEF ReadPayload, LoadPCs
  <2>3. req[p] \in Nat
    BY <2>2 DEF TypeInv, PcInv
  <2>4. page' \in [Addr -> Tag \cup {Zeroed}]
    BY <1>8, <2>2, <2>3, WrittenType DEF ReadPayload, TypeInv, TypeOK
  <2>5. held' \in [Proc -> SUBSET Block]
    BY <1>8, <2>2, InFlightType DEF ReadPayload, TypeInv, TypeOK
  <2> QED
    BY <1>7, <1>8, <2>1, <2>4, <2>5 DEF ReadPayload, TypeInv, TypeOK
<1>9. ASSUME NEW p \in Proc, ShortRead(p) PROVE TypeOK'
  <2>1. pc' \in [Proc -> PCs]
    BY <1>9 DEF ShortRead, Goto, TypeInv, TypeOK, PCs
  <2>2. pc[p] \in LoadPCs
    BY <1>9 DEF ShortRead, LoadPCs
  <2>3. req[p] \in Nat
    BY <2>2 DEF TypeInv, PcInv
  <2>4. page' \in [Addr -> Tag \cup {Zeroed}]
    BY <1>9, <2>2, <2>3, WrittenType DEF ShortRead, TypeInv, TypeOK
  <2> QED
    BY <1>7, <1>9, <2>1, <2>4 DEF ShortRead, TypeInv, TypeOK
<1>10. ASSUME NEW p \in Proc, EndRequest(p) PROVE TypeOK'
  BY <1>10 DEF EndRequest, DropScripts, TypeInv, TypeOK
<1>11. ASSUME NEW p \in Proc, BeginReset(p) PROVE TypeOK'
  <2>1. pc' \in [Proc -> PCs]
    BY <1>11 DEF BeginReset, DropScripts, Goto, TypeInv, TypeOK, PCs
  <2>2. calls' \in [Proc -> Nat]
    BY <1>11 DEF BeginReset, DropScripts, TypeInv, TypeOK
  <2> QED
    BY <1>11, <2>1, <2>2 DEF BeginReset, DropScripts, TypeInv, TypeOK
<1>12. ASSUME NEW p \in Proc, ResetPos(p) PROVE TypeOK'
  BY <1>12 DEF ResetPos, Goto, Forked, TypeInv, TypeOK, PCs
<1>13. ASSUME NEW p \in Proc, Exit(p) PROVE TypeOK'
  <2>1. pc' \in [Proc -> PCs]
    BY <1>13 DEF Exit, Goto, TypeInv, TypeOK, PCs
  <2>2. pos' \in [Proc -> 0 .. ShmSize] /\ held' \in [Proc -> SUBSET Block]
    BY <1>13 DEF Exit, Release, DropScripts, TypeInv, TypeOK
  <2> QED
    BY <1>7, <1>13, <2>1, <2>2 DEF Exit, Release, DropScripts, TypeInv, TypeOK
<1>14. CASE UNCHANGED vars
  BY <1>14 DEF vars, TypeInv, TypeOK
<1> QED
  BY <1>1, <1>2, <1>3, <1>4, <1>5, <1>6, <1>8, <1>9, <1>10, <1>11, <1>12,
     <1>13, <1>14 DEF Next

LEMMA PcInvStep == TypeInv /\ [Next]_vars => PcInv'
<1> SUFFICES ASSUME TypeInv, [Next]_vars PROVE PcInv'
  OBVIOUS
<1> USE ProcAssumption, SizeAssumption
        DEF TypeInv, TypeOK, PcInv, LoadPCs, EmptyPCs, Goto
<1>1. CASE Startup
  BY <1>1 DEF Startup
<1>2. ASSUME NEW p \in Proc, NEW c \in Proc, Fork(p, c) PROVE PcInv'
  BY <1>2 DEF Fork
<1>3. ASSUME NEW p \in Proc, NEW size \in Sizes, BeginLoad(p, size)
      PROVE PcInv'
  BY <1>3 DEF BeginLoad
<1>4. ASSUME NEW p \in Proc, Lock(p) PROVE PcInv'
  BY <1>4 DEF Lock, LockStates
<1>5. ASSUME NEW p \in Proc, Alloc(p) PROVE PcInv'
  BY <1>5 DEF Alloc
<1>6. ASSUME NEW p \in Proc, Unlock(p) PROVE PcInv'
  BY <1>6 DEF Unlock, UnlockStates
<1>7. ASSUME NEW p \in Proc, ReadPayload(p) PROVE PcInv'
  BY <1>7 DEF ReadPayload, EndLoad
<1>8. ASSUME NEW p \in Proc, ShortRead(p) PROVE PcInv'
  BY <1>8 DEF ShortRead, EndLoad
<1>9. ASSUME NEW p \in Proc, EndRequest(p) PROVE PcInv'
  BY <1>9 DEF EndRequest, DropScripts
<1>10. ASSUME NEW p \in Proc, BeginReset(p) PROVE PcInv'
  BY <1>10 DEF BeginReset, DropScripts
<1>11. ASSUME NEW p \in Proc, ResetPos(p) PROVE PcInv'
  BY <1>11 DEF ResetPos
<1>12. ASSUME NEW p \in Proc, Exit(p) PROVE PcInv'
  BY <1>12 DEF Exit, Release, DropScripts, EndLoad, Alive
<1>13. CASE UNCHANGED vars
  BY <1>13 DEF vars
<1> QED
  BY <1>1, <1>2, <1>3, <1>4, <1>5, <1>6, <1>7, <1>8, <1>9, <1>10, <1>11,
     <1>12, <1>13 DEF Next

LEMMA TypeInvAlways == Spec => []TypeInv
<1>1. TypeInv /\ [Next]_vars => TypeInv'
  BY TypeOKStep, PcInvStep DEF TypeInv
<1> QED
  BY <1>1, TypeInvInit, PTL DEF Spec

\* Every variable keeps its type and every offset stays in the segment, for
\* any alignment, size of the segment and sizes of the files.
THEOREM TypeCorrect == Spec => []TypeOK
<1>1. TypeInv => TypeOK
  BY DEF TypeInv
<1> QED
  BY <1>1, TypeInvAlways, PTL

-------------------------------------------------------------------------------
\* While the master is in MINIT nobody holds the lock, and afterwards the
\* owner of the lock is where MutualExclusion says.
LEMMA MutualExclusionStep ==
    TypeInv /\ MutualExclusion /\ [Next]_vars => MutualExclusion'
<1> SUFFICES ASSUME TypeInv, MutualExclusion, [Next]_vars
             PROVE  MutualExclusion'
  OBVIOUS
<1> USE ProcAssumption
        DEF MutualExclusion, InCS, Goto, TypeInv, TypeOK
<1>1. CASE Startup
  BY <1>1 DEF Startup, PcInv
<1>2. ASSUME NEW p \in Proc, NEW c \in Proc, Fork(p, c)
      PROVE  MutualExclusion'
  BY <1>2 DEF Fork
<1>3. ASSUME NEW p \in Proc, NEW size \in Sizes, BeginLoad(p, size)
      PROVE MutualExclusion'
  BY <1>3 DEF BeginLoad
<1>4. ASSUME NEW p \in Proc, Lock(p) PROVE MutualExclusion'
  <2>1. LockStates[pc[p]] \in {"load_alloc", "reset_pos"} /\ ~InCS(p)
    BY <1>4 DEF Lock, LockStates
  <2>2. CASE lockFd /\ lockOwner = NoProc /\ lockOwner' = p
    <3>1. LockErrors \/ \A q \in Proc : ~InCS(q)
      BY <2>2
    <3> QED
      BY <1>4, <2>1, <2>2, <3>1 DEF Lock
  <2>3. CASE (~lockFd \/ LockErrors) /\ UNCHANGED lockOwner
    BY <1>4, <2>1, <2>3 DEF Lock
  <2> QED
    BY <1>4, <2>2, <2>3 DEF Lock, Acquire
<1>5. ASSUME NEW p \in Proc, Alloc(p) PROVE MutualExclusion'
  BY <1>5 DEF Alloc, Fits
<1>6. ASSUME NEW p \in Proc, Unlock(p) PROVE MutualExclusion'
  <2>1. UnlockStates[pc[p]] \in {"read", "idle"} /\ InCS(p)
    BY <1>6 DEF Unlock, UnlockStates
  <2>2. pc' = [pc EXCEPT ![p] = UnlockStates[pc[p]]] /\ ~InCS(p)'
    BY <1>6, <2>1 DEF Unlock
  <2>3. \A q \in Proc : q # p => InCS(q)' = InCS(q)
    BY <2>2
  <2>4. lockOwner' \in {NoProc, lockOwner} /\ lockOwner' # p
    BY <1>6 DEF Unlock, Release
  <2>5. lockFd /\ ~LockErrors =>
           lockOwner = p /\ \A q \in Proc : q # p => ~InCS(q)
    BY <2>1
  <2> QED
    BY <1>6, <2>2, <2>3, <2>4, <2>5 DEF Unlock
<1>7. ASSUME NEW p \in Proc, ReadPayload(p) PROVE MutualExclusion'
  BY <1>7 DEF ReadPayload
<1>8. ASSUME NEW p \in Proc, ShortRead(p) PROVE MutualExclusion'
  BY <1>8 DEF ShortRead
<1>9. ASSUME NEW p \in Proc, EndRequest(p) PROVE MutualExclusion'
  BY <1>9 DEF EndRequest, DropScripts
<1>10. ASSUME NEW p \in Proc, BeginReset(p) PROVE MutualExclusion'
  BY <1>10 DEF BeginReset, DropScripts
<1>11. ASSUME NEW p \in Proc, ResetPos(p) PROVE MutualExclusion'
  BY <1>11 DEF ResetPos
<1>12. ASSUME NEW p \in Proc, Exit(p) PROVE MutualExclusion'
  BY <1>12 DEF Exit, Release, DropScripts
<1>13. CASE UNCHANGED vars
  BY <1>13 DEF vars
<1> QED
  BY <1>1, <1>2, <1>3, <1>4, <1>5, <1>6, <1>7, <1>8, <1>9, <1>10, <1>11,
     <1>12, <1>13 DEF Next

\* At most the owner is between opkit_shared_alloc_lock and _unlock, and no
\* process that left or died still owns the lock.
THEOREM LockIsExclusive == Spec => []MutualExclusion
<1>1. Init => MutualExclusion
  BY DEF Init, MutualExclusion, InCS
<1> QED
  BY <1>1, MutualExclusionStep, TypeInvAlways, PTL DEF Spec

-------------------------------------------------------------------------------
(***************************************************************************)
(* What each step does to the blocks a process claims.                     *)
(***************************************************************************)
LEMMA QuietSteps ==
    ASSUME TypeInv, NEW p \in Proc,
           \/ Startup \/ Lock(p) \/ Unlock(p) \/ ReadPayload(p)
           \/ ResetPos(p) \/ \E size \in Sizes : BeginLoad(p, size)
           \/ UNCHANGED vars
    PROVE  \A q \in Proc : Claimed(q)' = Claimed(q)
<1> USE ProcAssumption
        DEF Claimed, InFlight, Goto, TypeInv, TypeOK, PcInv, LoadPCs, EmptyPCs
<1>1. CASE Startup
  BY <1>1 DEF Startup
<1>2. CASE Lock(p)
  BY <1>2 DEF Lock, LockStates
<1>3. CASE Unlock(p)
  BY <1>3 DEF Unlock, UnlockStates
<1>4. CASE ReadPayload(p)
  <2>1. \A q \in Proc \ {p} : Claimed(q)' = Claimed(q)
    BY <1>4 DEF ReadPayload, EndLoad
  <2>2. Claimed(p)' = held'[p]
    BY <1>4 DEF ReadPayload
  <2>3. held'[p] = Claimed(p)
    BY <1>4 DEF ReadPayload
  <2> QED
    BY <2>1, <2>2, <2>3
<1>5. CASE ResetPos(p)
  BY <1>5 DEF ResetPos
<1>6. ASSUME NEW size \in Sizes, BeginLoad(p, size)
      PROVE \A q \in Proc : Claimed(q)' = Claimed(q)
  BY <1>6 DEF BeginLoad
<1>7. CASE UNCHANGED vars
  BY <1>7 DEF vars
<1> QED
  BY <1>1, <1>2, <1>3, <1>4, <1>5, <1>6, <1>7

LEMMA ReleasingSteps ==
    ASSUME TypeInv, NEW p \in Proc,
           ShortRead(p) \/ EndRequest(p) \/ BeginReset(p) \/ Exit(p)
    PROVE  /\ Claimed(p)' \subseteq Claimed(p)
           /\ \A q \in Proc \ {p} : Claimed(q)' = Claimed(q)
<1> USE DEF Claimed, InFlight, Goto, TypeInv, TypeOK
<1>1. CASE ShortRead(p)
  BY <1>1 DEF ShortRead, EndLoad
<1>2. CASE EndRequest(p)
  BY <1>2 DEF EndRequest, DropScripts
<1>3. CASE BeginReset(p)
  BY <1>3 DEF BeginReset, DropScripts
<1>4. CASE Exit(p)
  BY <1>4 DEF Exit, Release, DropScripts, EndLoad
<1> QED
  BY <1>1, <1>2, <1>3, <1>4

LEMMA ForkStep ==
    ASSUME TypeInv, NEW p \in Proc, NEW c \in Proc, Fork(p, c)
    PROVE  /\ p # c
           /\ Claimed(p) = held[p] /\ Claimed(c) = {}
           /\ Claimed(c)' = Claimed(p)
           /\ \A q \in Proc \ {c} : Claimed(q)' = Claimed(q)
BY DEF Fork, Claimed, InFlight, Goto, TypeInv, TypeOK, PcInv,
     EmptyPCs

LEMMA SizesArePositive == \A n \in Sizes : n \in Nat /\ n >= 1
BY SizeAssumption

\* A block that is handed out starts where the ones before it end.
LEMMA AllocStep ==
    ASSUME TypeInv, NEW p \in Proc, Alloc(p)
    PROVE  /\ \A q \in Proc \ {p} : Claimed(q)' = Claimed(q) /\ pos'[q] = pos[q]
           /\ \/ Claimed(p)' = Claimed(p) /\ pos' = pos
              \/ /\ Claimed(p)' = Claimed(p) \cup {InFlight(p)'}
                 /\ InFlight(p)' \in Block
                 /\ InFlight(p)'.lo = pos[p]
                 /\ End(InFlight(p)') = pos'[p]
                 /\ got'[p] = pos[p]
<1> USE DEF TypeInv, TypeOK
<1>1. pc[p] = "load_alloc" /\ got[p] = Heap /\ req[p] \in Sizes /\ calls[p] >= 1
  BY DEF Alloc, PcInv, LoadPCs
<1>2. Claimed(p) = held[p] /\ pc'[p] = "load_unlock"
  BY <1>1 DEF Alloc, Goto, Claimed
<1>3. \A q \in Proc \ {p} : Claimed(q)' = Claimed(q) /\ pos'[q] = pos[q]
  BY DEF Alloc, Goto, Claimed, InFlight
<1>4. CASE ~Fits(p)
  BY <1>1, <1>2, <1>3, <1>4 DEF Alloc, Claimed
<1>5. CASE Fits(p)
  <2>1. got'[p] = pos[p] /\ pos'[p] = pos[p] + AlignUp(req[p])
    BY <1>5 DEF Alloc
  <2>2. InFlight(p)' = [tag |-> <<p, calls[p]>>, lo |-> pos[p], len |-> req[p]]
    BY <2>1 DEF Alloc, InFlight
  <2>3. pos[p] \in Addr
    <3>1. req[p] \in Nat /\ req[p] >= 1
      BY <1>1, SizesArePositive
    <3>2. AlignUp(req[p]) \in Nat /\ AlignUp(req[p]) >= 1
      BY <3>1, AlignUpBounds
    <3> QED
      BY <1>5, <3>1, <3>2, SizeAssumption DEF Fits, Addr
  <2>4. got'[p] # Heap
    BY <2>1, <2>3, SizeAssumption DEF Addr, Heap
  <2>5. InFlight(p)' \in Block
    BY <1>1, <2>2, <2>3 DEF Block, Tag
  <2>6. Claimed(p)' = held[p] \cup {InFlight(p)'}
    BY <1>2, <2>4 DEF Alloc, Claimed
  <2>7. End(InFlight(p)') = pos'[p]
    BY <2>1, <2>2 DEF End
  <2> QED
    BY <1>2, <1>3, <2>1, <2>2, <2>5, <2>6, <2>7
<1> QED
  BY <1>4, <1>5

LEMMA BlockBounds ==
    ASSUME NEW b \in Block
    PROVE  /\ b.lo \in Nat /\ b.len \in Nat /\ End(b) \in Nat
           /\ b.lo + b.len <= End(b) /\ b.lo < End(b)
<1>1. b.lo \in Nat /\ b.len \in Nat \ {0}
  <2>1. b.lo \in Addr /\ b.len \in Sizes
    BY DEF Block
  <2>2. b.lo \in Nat
    BY <2>1, SizeAssumption DEF Addr
  <2> QED
    BY <2>1, <2>2, SizesArePositive
<1>2. AlignUp(b.len) \in Nat /\ AlignUp(b.len) >= b.len
  BY <1>1, AlignUpBounds
<1> QED
  BY <1>1, <1>2 DEF End

LEMMA ClaimedType ==
    ASSUME TypeInv, NEW p \in Proc
    PROVE  Claimed(p) \subseteq Block
BY InFlightType DEF Claimed, TypeInv, TypeOK, LoadPCs

-------------------------------------------------------------------------------
LEMMA ClaimedDisjointStep ==
    TypeInv /\ ClaimedDisjoint /\ [Next]_vars => ClaimedDisjoint'
<1> SUFFICES ASSUME TypeInv, ClaimedDisjoint, [Next]_vars
             PROVE  ClaimedDisjoint'
  OBVIOUS
\* A process whose claims only shrink and whose pos does not move back keeps
\* the property.
<1> DEFINE Safe(q) ==
        /\ \A b \in Claimed(q) : End(b) <= pos[q]
        /\ \A b, c \in Claimed(q) : b # c => Disjoint(b, c)
<1>1. \A q \in Alive : Safe(q)
  BY DEF ClaimedDisjoint
<1>2. ASSUME \A q \in Alive' : Safe(q)' PROVE ClaimedDisjoint'
  BY <1>2 DEF ClaimedDisjoint
<1>3. ASSUME NEW q \in Alive', q \in Alive, Claimed(q)' \subseteq Claimed(q),
             pos'[q] = pos[q]
      PROVE  Safe(q)'
  BY <1>1, <1>3 DEF Disjoint, End
<1>4. ASSUME NEW q \in Proc, q \in Alive', Claimed(q)' = {} PROVE Safe(q)'
  BY <1>4
<1> USE DEF Goto
<1>5. CASE Startup
  <2>1. Alive' = Alive
    BY <1>5 DEF Startup, Alive, TypeInv, TypeOK
  <2> QED
    BY <1>2, <1>3, <1>5, <2>1, QuietSteps, ProcAssumption DEF Startup, Alive
<1>6. ASSUME NEW p \in Proc, NEW c \in Proc, Fork(p, c)
      PROVE  ClaimedDisjoint'
  <2>1. p \in Alive /\ Alive' = Alive \cup {c}
    BY <1>6 DEF Fork, Alive, TypeInv, TypeOK
  <2>2. pos'[c] = pos[p] /\ \A q \in Proc \ {c} : pos'[q] = pos[q]
    BY <1>6 DEF Fork, CopyDescriptor, TypeInv, TypeOK
  <2>3. Safe(c)'
    BY <1>1, <1>6, <2>1, <2>2, ForkStep DEF Disjoint, End
  <2>4. \A q \in Alive' \ {c} : Safe(q)'
    BY <1>3, <1>6, <2>1, <2>2, ForkStep DEF Alive
  <2> QED
    BY <1>2, <2>3, <2>4
<1>7. ASSUME NEW p \in Proc, NEW size \in Sizes, BeginLoad(p, size)
      PROVE  ClaimedDisjoint'
  <2>1. Alive' = Alive
    BY <1>7 DEF BeginLoad, Alive, TypeInv, TypeOK
  <2> QED
    BY <1>2, <1>3, <1>7, <2>1, QuietSteps DEF BeginLoad, Alive
<1>8. ASSUME NEW p \in Proc, Lock(p) PROVE ClaimedDisjoint'
  <2>1. Alive' = Alive
    BY <1>8 DEF Lock, LockStates, Alive, TypeInv, TypeOK
  <2> QED
    BY <1>2, <1>3, <1>8, <2>1, QuietSteps DEF Lock, Alive
<1>9. ASSUME NEW p \in Proc, Alloc(p) PROVE ClaimedDisjoint'
  <2>1. Alive' = Alive /\ p \in Alive
    BY <1>9 DEF Alloc, Alive, TypeInv, TypeOK
  <2>2. \A q \in Alive' \ {p} : Safe(q)'
    BY <1>3, <1>9, <2>1, AllocStep DEF Alive
  <2>3. CASE Claimed(p)' = Claimed(p) /\ pos' = pos
    BY <1>2, <1>3, <2>1, <2>2, <2>3
  <2>4. CASE /\ Claimed(p)' = Claimed(p) \cup {InFlight(p)'}
             /\ InFlight(p)' \in Block
             /\ InFlight(p)'.lo = pos[p]
             /\ End(InFlight(p)') = pos'[p]
    <3> DEFINE new == InFlight(p)'
    <3>1. \A b \in Claimed(p) : b \in Block /\ End(b) \in Nat /\ End(b) <= new.lo
      BY <1>1, <2>1, <2>4, ClaimedType, BlockBounds
    <3>2. new.lo \in Nat /\ End(new) \in Nat /\ new.lo <= End(new)
      BY <2>4, BlockBounds
    <3>3. \A b \in Claimed(p)' : b = new \/ b \in Claimed(p)
      BY <2>4
    <3> HIDE DEF new
    <3>4. \A b \in Claimed(p)' : End(b) <= pos'[p]
      BY <2>4, <3>1, <3>2, <3>3 DEF new
    <3>5. \A b, c \in Claimed(p)' : b # c => Disjoint(b, c)
      BY <1>1, <2>1, <3>1, <3>3 DEF Disjoint
    <3>6. Safe(p)'
      BY <3>4, <3>5 DEF Disjoint, End
    <3> QED
      BY <1>2, <2>2, <3>6
  <2> QED
    BY <1>9, <2>3, <2>4, AllocStep
<1>10. ASSUME NEW p \in Proc, Unlock(p) PROVE ClaimedDisjoint'
  <2>1. Alive' = Alive
    BY <1>10 DEF Unlock, UnlockStates, Alive, TypeInv, TypeOK
  <2> QED
    BY <1>2, <1>3, <1>10, <2>1, QuietSteps DEF Unlock, Alive
<1>11. ASSUME NEW p \in Proc, ReadPayload(p) PROVE ClaimedDisjoint'
  <2>1. Alive' = Alive
    BY <1>11 DEF ReadPayload, Alive, TypeInv, TypeOK
  <2> QED
    BY <1>2, <1>3, <1>11, <2>1, QuietSteps DEF ReadPayload, Alive
<1>12. ASSUME NEW p \in Proc, ShortRead(p) PROVE ClaimedDisjoint'
  <2>1. Alive' = Alive
    BY <1>12 DEF ShortRead, Alive, TypeInv, TypeOK
  <2> QED
    BY <1>2, <1>3, <1>12, <2>1, ReleasingSteps DEF ShortRead, Alive
<1>13. ASSUME NEW p \in Proc, EndRequest(p) PROVE ClaimedDisjoint'
  <2>1. Alive' = Alive
    BY <1>13 DEF EndRequest, DropScripts, Alive
  <2> QED
    BY <1>2, <1>3, <1>13, <2>1, ReleasingSteps DEF EndRequest, DropScripts,
         Alive
<1>14. ASSUME NEW p \in Proc, BeginReset(p) PROVE ClaimedDisjoint'
  <2>1. Alive' = Alive
    BY <1>14 DEF BeginReset, DropScripts, Alive, TypeInv, TypeOK
  <2> QED
    BY <1>2, <1>3, <1>14, <2>1, ReleasingSteps DEF BeginReset, DropScripts,
         Alive
<1>15. ASSUME NEW p \in Proc, ResetPos(p) PROVE ClaimedDisjoint'
  <2>1. Alive' = Alive
    BY <1>15 DEF ResetPos, Alive, TypeInv, TypeOK
  <2>2. Claimed(p)' = {}
    BY <1>15 DEF ResetPos, Claimed, TypeInv, TypeOK, PcInv, EmptyPCs
  <2>3. \A q \in Proc \ {p} : pos'[q] = pos[q]
    BY <1>15 DEF ResetPos, TypeInv, TypeOK
  <2> QED
    BY <1>2, <1>3, <1>4, <1>15, <2>1, <2>2, <2>3, QuietSteps DEF Alive
<1>16. ASSUME NEW p \in Proc, Exit(p) PROVE ClaimedDisjoint'
  <2>1. Alive' = Alive \ {p}
    BY <1>16 DEF Exit, Alive, TypeInv, TypeOK
  <2>2. \A q \in Proc \ {p} : pos'[q] = pos[q]
    BY <1>16 DEF Exit, TypeInv, TypeOK
  <2> QED
    BY <1>2, <1>3, <1>16, <2>1, <2>2, ReleasingSteps DEF Alive
<1>17. CASE UNCHANGED vars
  <2>1. Alive' = Alive
    BY <1>17 DEF vars, Alive
  <2> QED
    BY <1>2, <1>3, <1>17, <2>1, QuietSteps, ProcAssumption DEF vars, Alive
<1> QED
  BY <1>5, <1>6, <1>7, <1>8, <1>9, <1>10, <1>11, <1>12, <1>13, <1>14, <1>15,
     <1>16, <1>17 DEF Next

LEMMA ClaimedDisjointInit == Init => ClaimedDisjoint
BY DEF Init, ClaimedDisjoint, Claimed, Alive

\* No process is ever given bytes of a script it still has loaded, however
\* loads, resets, forks, failed reads and exits of any number of processes
\* are interleaved.
THEOREM NoOverlapInAProcess == Spec => []ClaimedDisjoint
BY ClaimedDisjointInit, ClaimedDisjointStep, TypeInvAlways, PTL DEF Spec

-------------------------------------------------------------------------------
(***************************************************************************)
(* Scripts loaded before the first fork.  The invariant says why nothing   *)
(* writes over them: pos is past their end in every process, and so is     *)
(* every block that is being filled.                                       *)
(***************************************************************************)
Filling(p) == pc[p] \in {"load_unlock", "read"} /\ got[p] # Heap

PreforkInv ==
    /\ \A p \in Proc : Filling(p) => \A b \in held[p] : End(b) <= got[p]
    /\ \A b \in prefork : End(b) <= ShmSize
    /\ ~Forked => /\ prefork = {} /\ ~resetAfter
                  /\ \A b \in held[Master] : Intact(b)
    /\ Forked /\ ~resetAfter =>
          \A b \in prefork :
              /\ Intact(b)
              /\ \A p \in Alive : /\ End(b) <= pos[p]
                                  /\ Filling(p) => End(b) <= got[p]

Inv == TypeInv /\ ClaimedDisjoint /\ PreforkInv

\* Filling a block leaves the scripts alone that lie below it or above it.
LEMMA WriteElsewhere ==
    ASSUME TypeInv, NEW p \in Proc, Filling(p), NEW n \in 0 .. req[p],
           page' = Written(p, n),
           NEW b \in Block, End(b) <= ShmSize, Intact(b),
           Disjoint(b, InFlight(p))
    PROVE  Intact(b)'
<1>1. InFlight(p) \in Block
  BY InFlightType DEF Filling, LoadPCs
<1>2. InFlight(p).lo = got[p] /\ InFlight(p).len = req[p]
  BY DEF InFlight
<1>3. got[p] \in Nat /\ req[p] \in Nat /\ got[p] + req[p] <= End(InFlight(p))
  BY <1>1, <1>2, BlockBounds
<1>4. /\ b.lo \in Nat /\ b.len \in Nat /\ End(b) \in Nat
      /\ b.lo + b.len <= End(b)
  BY BlockBounds
<1>5. End(InFlight(p)) \in Nat
  BY <1>1, BlockBounds
<1>6. ASSUME NEW i \in Bytes(b) PROVE i \notin got[p] .. got[p] + n - 1
  BY <1>2, <1>3, <1>4, <1>5 DEF Disjoint, Bytes
<1>7. ASSUME NEW i \in Bytes(b) PROVE i \in Addr
  <2>1. End(b) \in Nat /\ i \in Nat /\ i < End(b)
    BY <1>4 DEF Bytes
  <2> QED
    BY <2>1, SizeAssumption DEF Addr
<1> QED
  BY <1>6, <1>7 DEF Intact, Written

\* The bytes of a block that was just filled are its own.
LEMMA WriteOwn ==
    ASSUME TypeInv, NEW p \in Proc, Filling(p), page' = Written(p, req[p]),
           End(InFlight(p)) <= ShmSize
    PROVE  \A i \in Bytes(InFlight(p)) : page'[i] = InFlight(p).tag
<1> DEFINE b == InFlight(p)
<1>1. b \in Block /\ b.lo = got[p] /\ b.len = req[p] /\ b.tag = <<p, calls[p]>>
  BY InFlightType DEF Filling, LoadPCs, InFlight
<1>2. /\ b.lo \in Nat /\ b.len \in Nat /\ End(b) \in Nat
      /\ b.lo + b.len <= End(b)
  BY <1>1, BlockBounds
<1>3. \A i \in Bytes(b) : i \in Addr /\ i \in got[p] .. got[p] + req[p] - 1
  BY <1>1, <1>2, SizeAssumption DEF Bytes, Addr
<1>4. \A i \in Bytes(b) : page'[i] = b.tag
  BY <1>1, <1>3 DEF Written
<1> QED
  BY <1>4

\* A step of p that writes nothing into the pages and moves nobody's pos back
\* keeps the invariant, if a block that p is then filling starts past the
\* scripts of before the fork.
LEMMA PreforkFrame ==
    ASSUME Inv, NEW p \in Proc,
           page' = page, prefork' = prefork, Forked' = Forked,
           resetAfter' = resetAfter,
           \A q \in Proc : held'[q] \subseteq held[q],
           Alive' \subseteq Alive,
           \A q \in Alive' : pos'[q] = pos[q],
           \A q \in Proc : Filling(q)' => Filling(q) /\ got'[q] = got[q]
    PROVE  PreforkInv'
<1> USE ProcAssumption DEF Inv, PreforkInv, Intact, Alive
<1>1. \A b \in prefork' : End(b) <= ShmSize
  OBVIOUS
<1>2. \A q \in Proc : Filling(q)' => \A b \in held'[q] : End(b) <= got'[q]
  OBVIOUS
<1>3. ~Forked' => /\ prefork' = {} /\ ~resetAfter'
                  /\ \A b \in held'[Master] : Intact(b)'
  OBVIOUS
<1>4. Forked' /\ ~resetAfter' =>
          \A b \in prefork' :
              /\ Intact(b)'
              /\ \A q \in Alive' : /\ End(b) <= pos'[q]
                                   /\ Filling(q)' => End(b) <= got'[q]
  OBVIOUS
<1> HIDE DEF Intact
<1> QED
  BY <1>1, <1>2, <1>3, <1>4 DEF End

\* Writing the first n bytes of a block in flight damages no script that the
\* invariant protects.
LEMMA PreforkWrite ==
    ASSUME Inv, NEW p \in Alive, Filling(p), NEW n \in 0 .. req[p],
           page' = Written(p, n)
    PROVE  /\ Forked /\ ~resetAfter => \A b \in prefork : Intact(b)'
           /\ ~Forked => p = Master /\ \A b \in held[Master] : Intact(b)'
<1> USE ProcAssumption
<1>1. TypeInv /\ ClaimedDisjoint /\ PreforkInv /\ p \in Proc
  BY DEF Inv, Alive
<1>2. ASSUME Forked, ~resetAfter, NEW b \in prefork PROVE Intact(b)'
  <2>1. b \in Block /\ End(b) <= ShmSize /\ Intact(b) /\ End(b) <= got[p]
    BY <1>1, <1>2 DEF PreforkInv, TypeInv, TypeOK
  <2>2. Disjoint(b, InFlight(p))
    BY <2>1 DEF Disjoint, InFlight
  <2> QED
    BY <1>1, <2>1, <2>2, WriteElsewhere
<1>3. ASSUME ~Forked PROVE p = Master
  BY <1>1, <1>3 DEF Forked, Alive
<1>4. ASSUME ~Forked, NEW b \in held[Master] PROVE Intact(b)'
  <2>1. b \in Block /\ Intact(b) /\ End(b) <= got[p]
    BY <1>1, <1>3, <1>4 DEF PreforkInv, TypeInv, TypeOK
  <2>2. End(b) <= ShmSize
    <3>1. End(b) <= pos[p] /\ pos[p] \in 0 .. ShmSize
      BY <1>1, <1>3, <1>4 DEF ClaimedDisjoint, Claimed, TypeInv, TypeOK
    <3>2. End(b) \in Nat
      BY <2>1, BlockBounds
    <3> QED
      BY <3>1, <3>2, SizeAssumption
  <2>3. Disjoint(b, InFlight(p))
    BY <2>1 DEF Disjoint, InFlight
  <2> QED
    BY <1>1, <2>1, <2>2, <2>3, WriteElsewhere
<1> QED
  BY <1>2, <1>3, <1>4

LEMMA PreforkInvStep == Inv /\ [Next]_vars => PreforkInv'
<1> SUFFICES ASSUME Inv, [Next]_vars PROVE PreforkInv'
  OBVIOUS
<1> USE ProcAssumption DEF Goto
<1>0. TypeInv /\ ClaimedDisjoint /\ PreforkInv
  BY DEF Inv
<1>1. CASE Startup
  <2>1. Forked' = Forked /\ Alive' = Alive
    BY <1>0, <1>1 DEF Startup, Forked, Alive, TypeInv, TypeOK
  <2>2. \A q \in Proc : Filling(q)' => Filling(q) /\ got'[q] = got[q]
    BY <1>0, <1>1 DEF Startup, Filling, TypeInv, TypeOK
  <2> QED
    BY <1>1, <2>1, <2>2, PreforkFrame DEF Startup, Alive
<1>2. ASSUME NEW p \in Proc, NEW c \in Proc, Fork(p, c) PROVE PreforkInv'
  <2>1. p # c /\ pc' = [pc EXCEPT ![c] = "idle"] /\ pc[p] = "idle"
    BY <1>0, <1>2, ForkStep DEF Fork
  <2>2. p \in Alive /\ Alive' = Alive \cup {c} /\ Forked'
    BY <1>0, <2>1 DEF Alive, Forked, TypeInv, TypeOK
  <2>3. /\ pos'[c] = pos[p] /\ held'[c] = held[p]
        /\ \A q \in Proc \ {c} : pos'[q] = pos[q] /\ held'[q] = held[q]
    BY <1>0, <1>2 DEF Fork, CopyDescriptor, TypeInv, TypeOK
  <2>4. \A q \in Proc : Filling(q)' => q # c /\ Filling(q) /\ got'[q] = got[q]
    BY <1>0, <1>2, <2>1 DEF Fork, CopyDescriptor, Filling, TypeInv, TypeOK
  <2>5. \A q \in Proc : Filling(q)' => \A b \in held'[q] : End(b) <= got'[q]
    BY <1>0, <2>3, <2>4 DEF PreforkInv
  <2>6. CASE Forked
    <3>1. prefork' = prefork /\ resetAfter' = resetAfter /\ page' = page
      BY <1>2, <2>6 DEF Fork
    <3>2. \A b \in prefork' : End(b) <= ShmSize
      BY <1>0, <3>1 DEF PreforkInv
    <3>3. ASSUME ~resetAfter, NEW b \in prefork
          PROVE  /\ Intact(b)'
                 /\ \A q \in Alive' : End(b) <= pos'[q]
                                      /\ (Filling(q)' => End(b) <= got'[q])
      <4>1. Intact(b)'
        BY <1>0, <2>6, <3>1, <3>3 DEF PreforkInv, Intact
      <4> QED
        BY <1>0, <2>2, <2>3, <2>4, <2>6, <3>3, <4>1 DEF PreforkInv, Alive
    <3> QED
      BY <2>2, <2>5, <3>1, <3>2, <3>3 DEF PreforkInv, End
  <2>7. CASE ~Forked
    <3>1. p = Master /\ Alive' = {Master, c}
      BY <2>2, <2>7 DEF Forked, Alive
    <3>2. prefork' = held[Master] /\ resetAfter' = FALSE /\ page' = page
      BY <1>0, <1>2, <2>7, <3>1 DEF Fork, PreforkInv
    <3>3. \A b \in held[Master] : Intact(b) /\ End(b) <= pos[Master]
      BY <1>0, <2>2, <2>7, <3>1 DEF PreforkInv, ClaimedDisjoint, Claimed
    <3>4. \A b \in held[Master] : End(b) <= ShmSize
      <4>1. pos[Master] \in 0 .. ShmSize /\ held[Master] \subseteq Block
        BY <1>0 DEF TypeInv, TypeOK
      <4>2. \A b \in held[Master] : End(b) \in Nat
        BY <4>1, BlockBounds
      <4> QED
        BY <3>3, <4>1, <4>2, SizeAssumption
    <3>5. \A q \in Alive' : pos'[q] = pos[Master] /\ ~Filling(q)'
      <4>1. ~Filling(Master) /\ ~Filling(c)
        BY <2>1, <3>1, <1>2 DEF Filling, Fork
      <4> QED
        BY <2>3, <2>4, <3>1, <4>1
    <3>6. \A b \in prefork' : Intact(b)'
      BY <3>2, <3>3 DEF Intact
    <3>7. /\ \A b \in prefork' : End(b) <= ShmSize
          /\ \A b \in prefork', q \in Alive' :
                End(b) <= pos'[q] /\ (Filling(q)' => End(b) <= got'[q])
      BY <3>2, <3>3, <3>4, <3>5
    <3> QED
      BY <2>2, <2>5, <3>6, <3>7 DEF PreforkInv, End
  <2> QED
    BY <2>6, <2>7
<1>3. ASSUME NEW p \in Proc, NEW size \in Sizes, BeginLoad(p, size)
      PROVE  PreforkInv'
  <2>1. Forked' = Forked /\ Alive' = Alive
    BY <1>0, <1>3 DEF BeginLoad, Forked, Alive, TypeInv, TypeOK
  <2>2. \A q \in Proc : Filling(q)' => Filling(q) /\ got'[q] = got[q]
    BY <1>0, <1>3 DEF BeginLoad, Filling, TypeInv, TypeOK
  <2> QED
    BY <1>3, <2>1, <2>2, PreforkFrame DEF BeginLoad, Alive
<1>4. ASSUME NEW p \in Proc, Lock(p) PROVE PreforkInv'
  <2>1. Forked' = Forked /\ Alive' = Alive
    BY <1>0, <1>4 DEF Lock, LockStates, Forked, Alive, TypeInv, TypeOK
  <2>2. \A q \in Proc : Filling(q)' => Filling(q) /\ got'[q] = got[q]
    BY <1>0, <1>4 DEF Lock, LockStates, Filling, TypeInv, TypeOK
  <2> QED
    BY <1>4, <2>1, <2>2, PreforkFrame DEF Lock, Alive
<1>5. ASSUME NEW p \in Proc, Alloc(p) PROVE PreforkInv'
  <2>1. Forked' = Forked /\ Alive' = Alive /\ p \in Alive
    BY <1>0, <1>5 DEF Alloc, Forked, Alive, TypeInv, TypeOK
  <2>2. \A q \in Proc \ {p} : /\ Filling(q)' => Filling(q)
                              /\ got'[q] = got[q] /\ pos'[q] = pos[q]
    BY <1>0, <1>5 DEF Alloc, Filling, TypeInv, TypeOK
  <2>3. pos[p] <= pos'[p] /\ (Filling(p)' => got'[p] = pos[p])
    <3>1. req[p] \in Nat /\ got[p] = Heap
      BY <1>0, <1>5, SizesArePositive DEF Alloc, TypeInv, PcInv, LoadPCs
    <3>2. AlignUp(req[p]) \in Nat /\ pos[p] \in Nat
      BY <1>0, <3>1, AlignUpBounds, SizeAssumption DEF TypeInv, TypeOK
    <3>3. CASE ~Fits(p)
      BY <1>5, <3>1, <3>2, <3>3 DEF Alloc, Filling
    <3>4. CASE Fits(p)
      <4>1. got'[p] = pos[p] /\ pos'[p] = pos[p] + AlignUp(req[p])
        BY <1>0, <1>5, <3>4 DEF Alloc, TypeInv, TypeOK
      <4> QED
        BY <3>2, <4>1
    <3> QED
      BY <3>3, <3>4
  <2>4. /\ page' = page /\ held' = held /\ prefork' = prefork
        /\ resetAfter' = resetAfter
    BY <1>5 DEF Alloc
  <2>5. \A b \in held[p] : End(b) <= pos[p]
    BY <1>0, <2>1 DEF ClaimedDisjoint, Claimed
  <2>6. \A q \in Proc : Filling(q)' => \A b \in held'[q] : End(b) <= got'[q]
    BY <1>0, <2>2, <2>3, <2>4, <2>5 DEF PreforkInv
  <2>7. ASSUME Forked, ~resetAfter, NEW b \in prefork
        PROVE  /\ Intact(b)'
               /\ \A q \in Alive : End(b) <= pos'[q]
                                   /\ (Filling(q)' => End(b) <= got'[q])
    <3>1. b \in Block /\ End(b) \in Nat
      BY <1>0, BlockBounds DEF TypeInv, TypeOK
    <3>2. pos[p] \in Nat /\ pos'[p] \in Nat
      BY <1>0, <1>5, AllocType, SizeAssumption DEF TypeInv, TypeOK
    <3>3. \A q \in Alive : End(b) <= pos[q] /\ (Filling(q) => End(b) <= got[q])
      BY <1>0, <2>7 DEF PreforkInv
    <3>4. End(b) <= pos'[p] /\ (Filling(p)' => End(b) <= got'[p])
      BY <2>1, <2>3, <3>1, <3>2, <3>3
    <3>5. Intact(b)'
      BY <1>0, <2>4, <2>7 DEF PreforkInv, Intact
    <3> QED
      BY <2>2, <3>3, <3>4, <3>5 DEF Alive
  <2>8. ~Forked => /\ prefork' = {} /\ ~resetAfter'
                   /\ \A b \in held'[Master] : Intact(b)'
    BY <1>0, <2>4 DEF PreforkInv, Intact
  <2>9. \A b \in prefork' : End(b) <= ShmSize
    BY <1>0, <2>4 DEF PreforkInv
  <2> QED
    BY <2>1, <2>4, <2>6, <2>7, <2>8, <2>9 DEF PreforkInv, End
<1>6. ASSUME NEW p \in Proc, Unlock(p) PROVE PreforkInv'
  <2>1. Forked' = Forked /\ Alive' = Alive
    BY <1>0, <1>6 DEF Unlock, UnlockStates, Forked, Alive, TypeInv,
         TypeOK
  <2>2. \A q \in Proc : Filling(q)' => Filling(q) /\ got'[q] = got[q]
    BY <1>0, <1>6 DEF Unlock, UnlockStates, Filling, TypeInv, TypeOK
  <2> QED
    BY <1>6, <2>1, <2>2, PreforkFrame DEF Unlock, Alive
<1>7. ASSUME NEW p \in Proc, ReadPayload(p) PROVE PreforkInv'
  <2>1. Forked' = Forked /\ Alive' = Alive /\ p \in Alive
    BY <1>0, <1>7 DEF ReadPayload, Forked, Alive, TypeInv, TypeOK
  <2>2. \A q \in Proc : Filling(q)' => q # p /\ Filling(q) /\ got'[q] = got[q]
    BY <1>0, <1>7 DEF ReadPayload, EndLoad, Filling, TypeInv, TypeOK
  <2>3. CASE got[p] = Heap
    <3>1. page' = page /\ held' = held
      BY <1>7, <2>3 DEF ReadPayload
    <3> QED
      BY <1>7, <2>1, <2>2, <3>1, PreforkFrame DEF ReadPayload
  <2>4. CASE got[p] # Heap
    <3>1. Filling(p) /\ req[p] \in Nat
      BY <1>0, <1>7, <2>4, SizesArePositive
         DEF ReadPayload, Filling, TypeInv, PcInv, LoadPCs
    <3>2. PICK n \in 0 .. req[p] : page' = Written(p, n)
      BY <1>7, <2>4, <3>1 DEF ReadPayload
    <3>3. /\ Forked /\ ~resetAfter => \A b \in prefork : Intact(b)'
          /\ ~Forked => p = Master /\ \A b \in held[Master] : Intact(b)'
      BY <2>1, <3>1, <3>2, PreforkWrite
    <3>4. /\ prefork' = prefork /\ resetAfter' = resetAfter /\ pos' = pos
          /\ \A q \in Proc \ {p} : held'[q] = held[q]
      BY <1>0, <1>7, <2>4 DEF ReadPayload, TypeInv, TypeOK
    <3>5. \A q \in Proc : Filling(q)' => \A b \in held'[q] : End(b) <= got'[q]
      BY <1>0, <2>2, <3>4 DEF PreforkInv
    <3>6. Forked' /\ ~resetAfter' =>
            \A b \in prefork' :
              /\ Intact(b)'
              /\ \A q \in Alive' : End(b) <= pos'[q]
                                   /\ (Filling(q)' => End(b) <= got'[q])
      BY <1>0, <2>1, <2>2, <3>3, <3>4 DEF PreforkInv, Alive
    <3>7. ~Forked' => \A b \in held'[Master] : Intact(b)'
      <4>1. page' = Written(p, req[p]) /\ held'[p] = held[p] \cup {InFlight(p)}
        BY <1>0, <1>7, <2>4 DEF ReadPayload, TypeInv, TypeOK
      <4>2. InFlight(p) \in Claimed(p) /\ pos[p] \in 0 .. ShmSize
            /\ InFlight(p) \in Block
        BY <1>0, <3>1, InFlightType
           DEF Claimed, Filling, LoadPCs, TypeInv, TypeOK
      <4>3. End(InFlight(p)) <= pos[p] /\ End(InFlight(p)) \in Nat
        BY <1>0, <2>1, <4>2, BlockBounds DEF ClaimedDisjoint
      <4>4. End(InFlight(p)) <= ShmSize
        BY <4>2, <4>3, SizeAssumption
      <4>5. \A i \in Bytes(InFlight(p)) : page'[i] = InFlight(p).tag
        BY <1>0, <3>1, <4>1, <4>4, WriteOwn
      <4>6. ASSUME NEW b, b = InFlight(p) PROVE Intact(b)'
        BY <4>5, <4>6 DEF Intact, Bytes
      <4> QED
        BY <2>1, <3>3, <4>1, <4>6
    <3>8. /\ \A b \in prefork' : End(b) <= ShmSize
          /\ ~Forked' => prefork' = {} /\ ~resetAfter'
      BY <1>0, <2>1, <3>4 DEF PreforkInv
    <3> QED
      BY <3>5, <3>6, <3>7, <3>8 DEF PreforkInv, End
  <2> QED
    BY <2>3, <2>4
<1>8. ASSUME NEW p \in Proc, ShortRead(p) PROVE PreforkInv'
  <2>1. Forked' = Forked /\ Alive' = Alive /\ p \in Alive
    BY <1>0, <1>8 DEF ShortRead, Forked, Alive, TypeInv, TypeOK
  <2>2. \A q \in Proc : Filling(q)' => q # p /\ Filling(q) /\ got'[q] = got[q]
    BY <1>0, <1>8 DEF ShortRead, EndLoad, Filling, TypeInv, TypeOK
  <2>3. CASE got[p] = Heap
    <3>1. page' = page /\ held' = held
      BY <1>8, <2>3 DEF ShortRead
    <3> QED
      BY <1>8, <2>1, <2>2, <3>1, PreforkFrame DEF ShortRead
  <2>4. CASE got[p] # Heap
    <3>1. Filling(p) /\ req[p] \in Nat
      BY <1>0, <1>8, <2>4, SizesArePositive
         DEF ShortRead, Filling, TypeInv, PcInv, LoadPCs
    <3>2. PICK n \in 0 .. req[p] : page' = Written(p, n)
      BY <1>8, <2>4, <3>1 DEF ShortRead
    <3>3. /\ Forked /\ ~resetAfter => \A b \in prefork : Intact(b)'
          /\ ~Forked => p = Master /\ \A b \in held[Master] : Intact(b)'
      BY <2>1, <3>1, <3>2, PreforkWrite
    <3>4. /\ prefork' = prefork /\ resetAfter' = resetAfter /\ pos' = pos
          /\ \A q \in Proc \ {p} : held'[q] = held[q]
      BY <1>0, <1>8, <2>4 DEF ShortRead, TypeInv, TypeOK
    <3>5. \A q \in Proc : Filling(q)' => \A b \in held'[q] : End(b) <= got'[q]
      BY <1>0, <2>2, <3>4 DEF PreforkInv
    <3>6. Forked' /\ ~resetAfter' =>
            \A b \in prefork' :
              /\ Intact(b)'
              /\ \A q \in Alive' : End(b) <= pos'[q]
                                   /\ (Filling(q)' => End(b) <= got'[q])
      BY <1>0, <2>1, <2>2, <3>3, <3>4 DEF PreforkInv, Alive
    <3>7. ~Forked' => \A b \in held'[Master] : Intact(b)'
      BY <1>8, <2>1, <3>3 DEF ShortRead
    <3>8. /\ \A b \in prefork' : End(b) <= ShmSize
          /\ ~Forked' => prefork' = {} /\ ~resetAfter'
      BY <1>0, <2>1, <3>4 DEF PreforkInv
    <3> QED
      BY <3>5, <3>6, <3>7, <3>8 DEF PreforkInv, End
  <2> QED
    BY <2>3, <2>4
<1>9. ASSUME NEW p \in Proc, EndRequest(p) PROVE PreforkInv'
  <2>1. Forked' = Forked /\ Alive' = Alive
    BY <1>9 DEF EndRequest, DropScripts, Forked, Alive
  <2>2. \A q \in Proc : held'[q] \subseteq held[q]
    BY <1>0, <1>9 DEF EndRequest, DropScripts, TypeInv, TypeOK
  <2>3. \A q \in Proc : Filling(q)' => Filling(q) /\ got'[q] = got[q]
    BY <1>9 DEF EndRequest, DropScripts, Filling
  <2> QED
    BY <1>9, <2>1, <2>2, <2>3, PreforkFrame DEF EndRequest, DropScripts, Alive
<1>10. ASSUME NEW p \in Proc, BeginReset(p) PROVE PreforkInv'
  <2>1. Forked' = Forked /\ Alive' = Alive
    BY <1>0, <1>10 DEF BeginReset, DropScripts, Forked, Alive, TypeInv, TypeOK
  <2>2. \A q \in Proc : held'[q] \subseteq held[q]
    BY <1>0, <1>10 DEF BeginReset, DropScripts, TypeInv, TypeOK
  <2>3. \A q \in Proc : Filling(q)' => Filling(q) /\ got'[q] = got[q]
    BY <1>0, <1>10 DEF BeginReset, DropScripts, Filling, TypeInv, TypeOK
  <2> QED
    BY <1>10, <2>1, <2>2, <2>3, PreforkFrame DEF BeginReset, DropScripts, Alive
<1>11. ASSUME NEW p \in Proc, ResetPos(p) PROVE PreforkInv'
  <2>1. Forked' = Forked
    BY <1>0, <1>11 DEF ResetPos, Forked, TypeInv, TypeOK
  <2>2. CASE Forked
    BY <1>0, <1>11, <2>1, <2>2 DEF ResetPos, PreforkInv, Filling, TypeInv,
         TypeOK, End
  <2>3. CASE ~Forked
    <3>1. resetAfter' = FALSE /\ prefork' = {} /\ held' = held /\ page' = page
      BY <1>0, <1>11, <2>3 DEF ResetPos, PreforkInv
    <3> QED
      BY <1>0, <1>11, <2>1, <2>3, <3>1
         DEF ResetPos, PreforkInv, Filling, TypeInv, TypeOK, Intact, Bytes, End
  <2> QED
    BY <2>2, <2>3
<1>12. ASSUME NEW p \in Proc, Exit(p) PROVE PreforkInv'
  <2>1. Forked' = Forked /\ Alive' = Alive \ {p}
    BY <1>0, <1>12 DEF Exit, Forked, Alive, TypeInv,
         TypeOK
  <2>2. \A q \in Proc : held'[q] \subseteq held[q]
    BY <1>0, <1>12 DEF Exit, Release, DropScripts, TypeInv, TypeOK
  <2>3. \A q \in Alive' : pos'[q] = pos[q]
    BY <1>0, <1>12, <2>1 DEF Exit, Release, DropScripts, TypeInv, TypeOK
  <2>4. \A q \in Proc : Filling(q)' => Filling(q) /\ got'[q] = got[q]
    BY <1>0, <1>12, <2>1 DEF Exit, EndLoad, Filling,
         TypeInv, TypeOK
  <2> QED
    BY <1>12, <2>1, <2>2, <2>3, <2>4, PreforkFrame DEF Exit, Release,
         DropScripts
<1>13. CASE UNCHANGED vars
  <2>1. Forked' = Forked /\ Alive' = Alive
    BY <1>13 DEF vars, Forked, Alive
  <2> QED
    BY <1>13, <2>1, PreforkFrame DEF vars, Filling, Alive
<1> QED
  BY <1>1, <1>2, <1>3, <1>4, <1>5, <1>6, <1>7, <1>8, <1>9, <1>10, <1>11,
     <1>12, <1>13 DEF Next

LEMMA InvAlways == Spec => []Inv
<1>1. Init => PreforkInv
  <2> SUFFICES ASSUME Init PROVE PreforkInv
    OBVIOUS
  <2>1. ~Forked /\ prefork = {} /\ held[Master] = {} /\ ~resetAfter
    BY ProcAssumption DEF Init, Forked
  <2>2. \A p \in Proc : ~Filling(p)
    BY DEF Init, Filling
  <2> QED
    BY <2>1, <2>2 DEF PreforkInv
<1>2. Init => Inv
  BY <1>1, TypeInvInit, ClaimedDisjointInit DEF Inv
<1>3. Inv /\ [Next]_vars => Inv'
  BY TypeOKStep, PcInvStep, ClaimedDisjointStep, PreforkInvStep
     DEF Inv, TypeInv
<1> QED
  BY <1>2, <1>3, PTL DEF Spec

\* The master's scripts keep their bytes while it is alone; and whatever any
\* number of workers load after the first fork, the scripts that were in the
\* segment at the fork keep theirs until some process resets it.
THEOREM PreloadedScriptsSurvive == Spec => []PreforkIntact
<1>1. Inv => PreforkIntact
  <2> SUFFICES ASSUME Inv, ~resetAfter,
                      NEW b \in IF Forked THEN prefork ELSE held[Master]
               PROVE Intact(b)
    BY DEF PreforkIntact
  <2>1. CASE Forked
    BY <2>1 DEF Inv, PreforkInv
  <2>2. CASE ~Forked
    BY <2>2 DEF Inv, PreforkInv
  <2> QED
    BY <2>1, <2>2
<1> QED
  BY <1>1, InvAlways, PTL

-------------------------------------------------------------------------------
(***************************************************************************)
(* The segment implements one private heap per process.                    *)
(***************************************************************************)
LEMMA RegionsInit == Init => Private!Init
BY DEF Init, Private!Init, Regions, Claimed

LEMMA QuietIsStutter ==
    ASSUME \A q \in Proc : Claimed(q)' = Claimed(q)
    PROVE  Regions' = Regions
BY DEF Regions, RegionOf, End

\* Taking blocks away from p's claims is a GiveBack.
LEMMA ReleaseIsGiveBack ==
    ASSUME NEW p \in Proc, Claimed(p)' \subseteq Claimed(p),
           \A q \in Proc \ {p} : Claimed(q)' = Claimed(q)
    PROVE  Private!GiveBack(p)
<1> DEFINE keep == {RegionOf(b) : b \in Claimed(p)'}
<1>1. keep \in SUBSET {RegionOf(b) : b \in Claimed(p)}
  OBVIOUS
<1>2. Regions' = [Regions EXCEPT ![p] = keep]
  BY DEF Regions, RegionOf, End
<1> QED
  BY <1>1, <1>2 DEF Private!GiveBack, Regions

\* Handing out a block is a Take: its region is apart from the others.
LEMMA AllocIsTake ==
    ASSUME Inv, NEW p \in Proc, Alloc(p)
    PROVE  Private!Take(p) \/ \A q \in Proc : Claimed(q)' = Claimed(q)
<1>1. TypeInv /\ ClaimedDisjoint /\ p \in Alive
  BY DEF Inv, Alloc, Alive
<1>2. CASE Claimed(p)' = Claimed(p)
  BY <1>1, <1>2, AllocStep
<1>3. CASE /\ Claimed(p)' = Claimed(p) \cup {InFlight(p)'}
           /\ InFlight(p)' \in Block
           /\ InFlight(p)'.lo = pos[p]
           /\ End(InFlight(p)') = pos'[p]
  <2> DEFINE new == InFlight(p)'
             r == RegionOf(new)
  <2>1. r = [lo |-> pos[p], hi |-> pos'[p]]
    BY <1>3 DEF RegionOf
  <2>2. pos[p] \in 0 .. ShmSize /\ pos'[p] \in 0 .. ShmSize
    BY <1>1, AllocType DEF TypeInv, TypeOK
  <2>3. r \in Private!Region
    BY <2>1, <2>2 DEF Private!Region
  <2>4. new.lo < End(new)
    BY <1>3, BlockBounds
  <2>5. r.lo < r.hi
    BY <1>3, <2>1, <2>4
  <2>6. \A s \in {RegionOf(b) : b \in Claimed(p)} : Private!Apart(r, s)
    BY <1>1, <2>1 DEF RegionOf, Private!Apart, ClaimedDisjoint
  <2>7. Claimed(p)' = Claimed(p) \cup {new}
    BY <1>3
  <2>8. \A q \in Proc \ {p} : Claimed(q)' = Claimed(q)
    BY <1>1, AllocStep
  <2> HIDE DEF new
  <2>9. Regions' = [Regions EXCEPT ![p] = @ \cup {r}]
    <3>1. {RegionOf(b) : b \in Claimed(p)}'
            = {RegionOf(b) : b \in Claimed(p)} \cup {r}
      BY <2>7 DEF RegionOf, End
    <3>2. \A q \in Proc \ {p} : {RegionOf(b) : b \in Claimed(q)}'
                                 = {RegionOf(b) : b \in Claimed(q)}
      BY <2>8 DEF RegionOf, End
    <3> QED
      BY <3>1, <3>2 DEF Regions
  <2> QED
    BY <2>3, <2>5, <2>6, <2>9 DEF Private!Take, Regions
<1> QED
  BY <1>1, <1>2, <1>3, AllocStep

LEMMA ForkIsInherit ==
    ASSUME Inv, NEW p \in Proc, NEW c \in Proc, Fork(p, c)
    PROVE  Private!Inherit(p, c)
<1>1. /\ Claimed(c) = {} /\ Claimed(c)' = Claimed(p)
      /\ \A q \in Proc \ {c} : Claimed(q)' = Claimed(q)
  BY ForkStep DEF Inv
<1>2. Regions' = [Regions EXCEPT ![c] = {RegionOf(b) : b \in Claimed(p)}]
  BY <1>1 DEF Regions, RegionOf, End
<1> QED
  BY <1>1, <1>2 DEF Private!Inherit, Regions

LEMMA RegionsStep ==
    ASSUME Inv, [Next]_vars
    PROVE  [Private!Next]_Regions
<1>0. TypeInv
  BY DEF Inv
<1>1. ASSUME \A q \in Proc : Claimed(q)' = Claimed(q)
      PROVE  Regions' = Regions
  BY <1>1, QuietIsStutter
<1>2. ASSUME NEW p \in Proc,
             ShortRead(p) \/ EndRequest(p) \/ BeginReset(p) \/ Exit(p)
      PROVE  Private!Next
  BY <1>0, <1>2, ReleasingSteps, ReleaseIsGiveBack DEF Private!Next
<1>3. ASSUME NEW p \in Proc, NEW c \in Proc, Fork(p, c)
      PROVE  Private!Next
  BY <1>3, ForkIsInherit DEF Private!Next
<1>4. ASSUME NEW p \in Proc, Alloc(p) PROVE Private!Next \/ Regions' = Regions
  BY <1>1, <1>4, AllocIsTake DEF Private!Next
<1>5. ASSUME NEW p \in Proc,
             \/ Startup \/ Lock(p) \/ Unlock(p) \/ ReadPayload(p)
             \/ ResetPos(p) \/ \E size \in Sizes : BeginLoad(p, size)
             \/ UNCHANGED vars
      PROVE  Regions' = Regions
  BY <1>0, <1>1, <1>5, QuietSteps
<1> QED
  BY <1>2, <1>3, <1>4, <1>5, ProcAssumption DEF Next

\* The segment with its lock, fork, resets and failed reads is, for each
\* process, an allocator of its own and nothing more.
THEOREM SegmentIsAPrivateHeap == Spec => ImplementsPrivateHeap
<1>1. Init => Private!Init
  BY RegionsInit
<1>2. Inv /\ [Next]_vars =>
        [Private!Next]_Regions
  BY RegionsStep
<1> QED
  BY <1>1, <1>2, InvAlways, PTL DEF Spec, ImplementsPrivateHeap, Private!Spec
===============================================================================
