----------------------------- MODULE MCSessions -----------------------------
(* A small instance of Sessions. *)
EXTENDS Sessions, TLC

Symmetry == Permutations(Request) \cup Permutations(Session) \cup Permutations(Password)
=============================================================================
