----------------------------- MODULE MCConnections -----------------------------
(***************************************************************************)
(* Connections on small instances.  Conns are model values and enter every *)
(* definition alike, so the safety runs may permute them; Fds are numbers, *)
(* because accept() picks the lowest.                                      *)
(***************************************************************************)
EXTENDS Connections, TLC

TwoFds   == {4, 5}
ThreeFds == {4, 5, 6}

Symmetry == Permutations(Conns)

================================================================================
