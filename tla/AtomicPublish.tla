----------------------------- MODULE AtomicPublish -----------------------------
(***************************************************************************)
(* What storing a .phpc file promises: the file that loaders see changes   *)
(* from one complete version to another in a single step, and every        *)
(* version that shows up is that of one store that was under way; a store  *)
(* shows up at most once.                                                  *)
(***************************************************************************)
CONSTANTS Version, Nothing

VARIABLES published, underway

Init == published = Nothing /\ underway = {}

Start(v) ==
    /\ v \notin underway
    /\ underway' = underway \cup {v}
    /\ UNCHANGED published

Publish(v) ==
    /\ v \in underway
    /\ published' = v
    /\ underway' = underway \ {v}

\* The store fails, or its process is killed.
GiveUp(v) ==
    /\ v \in underway
    /\ underway' = underway \ {v}
    /\ UNCHANGED published

Next == \E v \in Version : Start(v) \/ Publish(v) \/ GiveUp(v)

Spec == Init /\ [][Next]_<<published, underway>>
===============================================================================
