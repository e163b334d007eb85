---------------------------- MODULE MCConnMatch ----------------------------
(***************************************************************************)
(* ConnMatch for TLC.  Sockets, workers and devices are interchangeable.   *)
(***************************************************************************)
EXTENDS ConnMatch, TLC

Symmetry == Permutations(Conns) \cup Permutations(Workers) \cup Permutations(Devs)
=============================================================================
