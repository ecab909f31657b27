----------------------------- MODULE MCRemotePool -----------------------------
(***************************************************************************)
(* Two gateways: "edge" on the shared key file, and "core" with a key of   *)
(* its own in memory, whose network contains that of "edge".               *)
(***************************************************************************)
EXTENDS RemotePool

CONSTANTS w1, w2, w3, a1, a2, c1, c2, c3, c4, c5

Order == <<"edge", "core">>
Served == [g \in Gateway |-> IF g = "edge" THEN {"lan"} ELSE {"wide"}]
Inside == [n \in Network |-> IF n = "lan" THEN {"nas"} ELSE {"printer", "nas"}]
Ports == [g \in Gateway |-> IF g = "edge" THEN a1 ELSE a2]
OnePort == [g \in Gateway |-> a1]
Keys == [g \in Gateway |-> NoFile]
InMemory == [g \in Gateway |-> IF g = "core" THEN "valid" ELSE "none"]
=============================================================================
