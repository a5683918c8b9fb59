------------------------------ MODULE PrivateHeap ------------------------------
(***************************************************************************)
(* What the segment allocator promises, seen from outside: every process   *)
(* has a heap of its own.  A region given to a process overlaps none that  *)
(* the process still uses; a child starts with its parent's regions.       *)
(* Nothing is promised between two processes: their regions may overlap,   *)
(* although the bytes are the same.                                        *)
(***************************************************************************)
EXTENDS Integers

CONSTANTS Proc, Size

VARIABLE regions     \* regions[p]: the regions process p uses, [lo, hi)

Region == [lo : 0 .. Size, hi : 0 .. Size]

Apart(r, s) == r.hi <= s.lo \/ s.hi <= r.lo

Init == regions = [p \in Proc |-> {}]

Take(p) ==
    \E r \in Region :
        /\ r.lo < r.hi
        /\ \A s \in regions[p] : Apart(r, s)
        /\ regions' = [regions EXCEPT ![p] = @ \cup {r}]

\* A failed load gives one region back, the end of a request all of them.
GiveBack(p) ==
    \E keep \in SUBSET regions[p] : regions' = [regions EXCEPT ![p] = keep]

Inherit(p, c) ==
    /\ regions[c] = {}
    /\ regions' = [regions EXCEPT ![c] = regions[p]]

Next ==
    \/ \E p \in Proc : Take(p) \/ GiveBack(p)
    \/ \E p, c \in Proc : Inherit(p, c)

Spec == Init /\ [][Next]_regions
===============================================================================
