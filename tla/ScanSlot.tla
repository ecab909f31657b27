------------------------------ MODULE ScanSlot ------------------------------
(***************************************************************************)
(* What the scan API promises, seen from outside: there is one slot, a     *)
(* scan takes it only when it is free, and gives it back with one outcome  *)
(* that is never revised.  The promise is the comment on Handler.job       *)
(* (internal/api/api.go): "Only one scan runs at a time."                  *)
(***************************************************************************)

CONSTANTS
  Job,      \* identities of the scans
  NoJob     \* the slot is free

VARIABLES
  slot,     \* the running scan, or NoJob
  outcome   \* what each scan ended with; "none" until it has ended

Outcome == {"done", "failed", "cancelled"}

SlotInit ==
  /\ slot = NoJob
  /\ outcome = [j \in Job |-> "none"]

Take(j) ==
  /\ slot = NoJob
  /\ outcome[j] = "none"
  /\ slot' = j
  /\ UNCHANGED outcome

Release(j, o) ==
  /\ slot = j
  /\ slot' = NoJob
  /\ outcome' = [outcome EXCEPT ![j] = o]

SlotNext ==
  \/ \E j \in Job : Take(j)
  \/ \E j \in Job, o \in Outcome : Release(j, o)

SlotSpec == SlotInit /\ [][SlotNext]_<<slot, outcome>>
=============================================================================
