----------------------------- MODULE MCScanJobs -----------------------------
(* Symmetry for the model-checking runs of ScanJobs. *)
EXTENDS ScanJobs, TLC

Symmetry == Permutations(Job) \cup Permutations(Net)
=============================================================================
