----------------------------- MODULE MCScriptStore -----------------------------
(* Small instances of ScriptStore for TLC. *)
EXTENDS ScriptStore, TLC

CONSTANTS w1, w2, r1

TwoWriters == {w1, w2}

\* Processes of one host.
OwnPids == w1 :> 1 @@ w2 :> 2
===============================================================================
