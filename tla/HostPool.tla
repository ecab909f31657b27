------------------------------ MODULE HostPool ------------------------------
(***************************************************************************)
(* What a deep scan owes the network: every host is probed at most once,   *)
(* and behind one gateway no more than Limit hosts are probed at a time,   *)
(* all of them on the same network ("Process ONE subnet at a time for this *)
(* gateway!", internal/api/scanjob.go).                                    *)
(***************************************************************************)
EXTENDS FiniteSets, Naturals

CONSTANTS
  Host, Net, Gateway,
  NetOf,    \* the network of each host
  GwOf,     \* the gateway of each network
  Limit     \* hosts probed at once behind one gateway

VARIABLE task   \* what became of each host

PoolInit == task = [h \in Host |-> "todo"]

\* The hosts being probed through the gateway of host h
Beside(h) == {g \in Host : task[g] = "probing" /\ GwOf[NetOf[g]] = GwOf[NetOf[h]]}

Begin(h) ==
  /\ task[h] = "todo"
  /\ Cardinality(Beside(h)) < Limit
  /\ \A g \in Beside(h) : NetOf[g] = NetOf[h]
  /\ task' = [task EXCEPT ![h] = "probing"]

End(h, r) ==
  /\ task[h] = "probing"
  /\ task' = [task EXCEPT ![h] = r]

PoolNext == \E h \in Host : Begin(h) \/ \E r \in {"ok", "failed"} : End(h, r)

PoolSpec == PoolInit /\ [][PoolNext]_task
=============================================================================
