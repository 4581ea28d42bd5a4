---------------------------- MODULE MCSharedParsers ----------------------------
(***************************************************************************)
(* SharedParsers on a few threads; the threads are interchangeable.        *)
(***************************************************************************)
EXTENDS SharedParsers, TLC

Symmetry == Permutations(Threads)

================================================================================
