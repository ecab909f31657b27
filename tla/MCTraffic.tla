------------------------------ MODULE MCTraffic -------------------------------
(***************************************************************************)
(* A wired device at a switch port and a wireless one that the controller  *)
(* and both firewalls report: its address is in the networks of OPNsense.  *)
(* Either may come to the port and to the address, and be taken for the    *)
(* other there.                                                            *)
(***************************************************************************)
EXTENDS Traffic

CONSTANTS wired, wireless, ip1

Ports == {<<"switch", "gi1">>}
Flows == {<<"opnsense", ip1>>, <<"wrt", ip1>>}
Nets == [f \in Firewall |-> IF f = "opnsense" THEN {ip1} ELSE {}]
Homes == [s \in Spot |-> IF s \in Port THEN wired ELSE wireless]
=============================================================================
