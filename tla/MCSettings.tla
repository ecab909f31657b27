----------------------------- MODULE MCSettings -----------------------------
(* A small instance of Settings. *)
EXTENDS Settings

Intervals == {-1, 60}
=============================================================================
