----------------------------- MODULE MCSharedAlloc -----------------------------
(* Small instances of SharedAlloc for TLC. *)
EXTENDS SharedAlloc

CONSTANTS m, c1, c2

AllProcs == {m, c1, c2}
TwoProcs == {m, c1}
Nobody == {}
===============================================================================
