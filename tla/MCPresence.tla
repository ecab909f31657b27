----------------------------- MODULE MCPresence -----------------------------
(* Small networks for the model-checking runs of Presence. *)
EXTENDS Presence, TLC

CONSTANTS a1, a2, n1, n2

OneNet  == [a \in Addr |-> n1]
TwoNets == (a1 :> n1) @@ (a2 :> n2)

Alike == Permutations(Addr)
=============================================================================
