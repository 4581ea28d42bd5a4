------------------------------- MODULE MCJsonTree -------------------------------
(***************************************************************************)
(* JsonTree on a heap of a few items, which are interchangeable, and one   *)
(* key: a child has it or has none.                                        *)
(***************************************************************************)
EXTENDS JsonTree, TLC

MCLower == [k \in Keys |-> k]

Symmetry == Permutations(Nodes)

================================================================================
