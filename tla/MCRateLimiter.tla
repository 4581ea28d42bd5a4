----------------------------- MODULE MCRateLimiter -----------------------------
(***************************************************************************)
(* RateLimiter on small instances: two clients, either with a slot each or *)
(* sharing one.                                                            *)
(***************************************************************************)
EXTENDS RateLimiter, TLC

CONSTANTS ip1, ip2

OwnSlots == (ip1 :> 0) @@ (ip2 :> 1)
OneSlot  == (ip1 :> 0) @@ (ip2 :> 0)

Symmetry == Permutations(Threads)

================================================================================
