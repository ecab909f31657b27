----------------------------- MODULE MCDeepQueue ----------------------------
(* Small networks for the model-checking runs of DeepQueue. *)
EXTENDS DeepQueue, TLC

CONSTANTS h1, h2, h3, h4, n1, n2, n3, g1, g2

\* Two networks behind one gateway and one behind another
SharedNetOf == (h1 :> n1) @@ (h2 :> n1) @@ (h3 :> n2) @@ (h4 :> n3)
SharedGwOf  == (n1 :> g1) @@ (n2 :> g1) @@ (n3 :> g2)

\* One network
LoneNetOf == [h \in Host |-> n1]
LoneGwOf  == [n \in Net |-> g1]
=============================================================================
