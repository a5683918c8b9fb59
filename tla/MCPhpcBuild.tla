------------------------------ MODULE MCPhpcBuild ------------------------------
(* Small instances of PhpcBuild for TLC. *)
EXTENDS PhpcBuild, TLC

CONSTANTS a, b

\* Each source has constant expressions that name constants of the other.
UsesEachOther == [f \in {a, b} |-> {a, b} \ {f}]

Sources == Permutations({a, b})
===============================================================================
