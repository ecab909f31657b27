----------------------------- MODULE Attendance -----------------------------
(***************************************************************************)
(* What the presence timeline promises (device_presence_history,           *)
(* internal/storage/storage.go): a device joins, leaves and returns in     *)
(* turn, every change of its status is one event and every event one       *)
(* change.  Several devices may change in one step.  A device that is      *)
(* forgotten joins again; old events may be dropped.                       *)
(***************************************************************************)
CONSTANT Addr

VARIABLES
  state,    \* unknown, online or offline
  newest    \* the newest event of each device, "none" when it is dropped

Join(a)   == state[a] = "unknown" /\ state'[a] = "online"  /\ newest'[a] = "join"
Leave(a)  == state[a] = "online"  /\ state'[a] = "offline" /\ newest'[a] = "leave"
Return(a) == state[a] = "offline" /\ state'[a] = "online"  /\ newest'[a] = "return"
Forget(a) == state'[a] = "unknown" /\ newest'[a] \in {newest[a], "none"}
Keep(a)   == state'[a] = state[a] /\ newest'[a] \in {newest[a], "none"}

AttInit ==
  /\ state = [a \in Addr |-> "unknown"]
  /\ newest = [a \in Addr |-> "none"]

AttNext ==
  \A a \in Addr : Join(a) \/ Leave(a) \/ Return(a) \/ Forget(a) \/ Keep(a)

AttSpec == AttInit /\ [][AttNext]_<<state, newest>>
=============================================================================
