-------------------------- MODULE MCDeviceRecords --------------------------
(* A small instance of DeviceRecords. *)
EXTENDS DeviceRecords, TLC

\* Two IPv4 addresses and an IPv6 one, in Networks 1 and 2
Addresses == {"one", "two", "six"}
SixOnly   == {"six"}
Networks  == [a \in Addresses |-> IF a = "six" THEN 2 ELSE 1]

\* "AA" in capitals and not, and a MAC without letters
Spellings == {"AA", "aa", "11"}
LowerCase == [m \in Spellings |-> IF m = "AA" THEN "aa" ELSE m]
=============================================================================
