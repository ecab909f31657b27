------------------------------- MODULE Traffic --------------------------------
(***************************************************************************)
(* The traffic collector: every minute it reads byte counters of switch    *)
(* ports, wireless stations and firewall flows, turns them into rates      *)
(* against the reading before and records the samples in one transaction.  *)
(*                                                                         *)
(* One direction is modelled, the other is the same: a reading of 0 is one *)
(* of no traffic or one of traffic the other way.  A rate stands for the   *)
(* bytes it claims, rate times the time between the two readings; what is  *)
(* in the database is the sum of the claims of all samples.                *)
(***************************************************************************)
EXTENDS Naturals

CONSTANTS
  Mac, Ip,
  Switch, Interface, \* configured switches, interfaces of switches
  OpenWrt,         \* OpenWrt routers with traffic monitoring
  Port,            \* <<switch, interface>>
  Station,         \* devices the UniFi controller reports
  Flow,            \* <<firewall, ip>>: addresses the firewall has counters of
  Networks,        \* [Firewall -> addresses in its configured networks]
  NoMac,
  Home,            \* [Spot -> Mac or NoMac]: who is where in the beginning
  MaxEvents,       \* bound: bytes moved, and changes of who is or is taken to be where
  MaxClaim         \* bound: bytes claimed of a device without a meter of its own

Firewall == {"opnsense"} \cup OpenWrt
Source == Switch \cup {"unifi"} \cup Firewall
Spot == Port \cup Ip
Meter == Port \cup ({"unifi"} \X Station) \cup Flow
Key == Mac \X {"link", "wan"}

ASSUME TrafficAssumption ==
  /\ Port \subseteq Switch \X Interface
  /\ Station \subseteq Mac
  /\ Flow \subseteq Firewall \X Ip
  /\ Networks \in [Firewall -> SUBSET Ip]
  /\ NoMac \notin Mac
  /\ Home \in [Spot -> Mac \cup {NoMac}]
  /\ "unifi" \notin Switch /\ "unifi" \notin OpenWrt /\ "opnsense" \notin Switch \cup OpenWrt
  /\ Switch \cap OpenWrt = {}
  /\ MaxEvents \in Nat /\ MaxClaim \in Nat

VARIABLES
  there,     \* [Spot -> SUBSET Mac]: the devices behind a port or at an address
  known,     \* [Spot -> Mac or NoMac]: the one device the switch has learnt behind a
             \* port, or the store has at an address
  counter,   \* [Meter -> Nat]: what the meter shows
  prev,      \* TrafficCollector.prev: [Key -> the last reading, or none]
  todo,      \* sources this cycle has still to ask; idle when empty and not reading
  left,      \* readings of the answer that is being worked through
  phase,     \* "idle", "collect" or "record"
  seen,      \* seenMACs
  pending,   \* [Key -> Nat]: what the samples of this cycle claim
  sampled,   \* keys with a sample in this cycle
  claimed,   \* [Key -> Nat]: what the recorded samples claim
  moved,     \* [Key -> Nat]: bytes the device has really moved (history)
  base,      \* [Key -> Nat]: moved at the last reading (history)
  start,     \* [Key -> Nat]: moved at the first reading (history)
  own,       \* keys one meter of their own has measured all along (history)
  calm,      \* keys of those nothing else has happened to so far (history)
  events     \* bytes and changes of there and known so far (bounded)

world == <<there, known>>
cycle == <<todo, left, phase, seen>>
history == <<moved, base, start, own, calm>>
vars == <<world, counter, prev, cycle, pending, sampled, claimed, history, events>>

-----------------------------------------------------------------------------
NoReading == [bytes |-> 0, when |-> "never"]
Reading == [bytes: Nat, when: {"never", "earlier", "now"}]

\* The devices whose bytes a meter counts, and the one its readings are put down to:
\* the single MAC the switch has learnt, the controller's station, or the MAC of the
\* device the store has at the address.
SpotOf(m) == IF m[1] \in Firewall THEN m[2] ELSE m
Behind(m) == IF m[1] = "unifi" THEN {m[2]} ELSE there[SpotOf(m)]
Known(m) == IF m[1] = "unifi" THEN m[2] ELSE known[SpotOf(m)]

\* The readings of a device's link share a key, as do those of all its
\* addresses at all firewalls (wanRateKey).
Kind(m) == IF m[1] \in Firewall THEN "wan" ELSE "link"
KeyOf(m) == <<Known(m), Kind(m)>>

\* A firewall measures the addresses of its own networks that are not in those of a
\* firewall of the other kind.
Configured(m) ==
  m[1] \in Firewall =>
    /\ m[2] \in Networks[m[1]]
    /\ m[1] = "opnsense" => \A w \in OpenWrt : m[2] \notin Networks[w]
    /\ m[1] \in OpenWrt => m[2] \notin Networks["opnsense"]

\* Mutant: a firewall's reading counts whichever networks are its own.
MeasuresKnown(m) == Known(m) # NoMac

\* A reading counts for the device it is put down to, if there is one.
Measures(m) == Known(m) # NoMac /\ Configured(m)

\* The meters that count a device's bytes or whose readings are put down to it.
Meters(k) ==
  {m \in Meter : Configured(m) /\ Kind(m) = k[2] /\ k[1] \in Behind(m) \cup {Known(m)}}

\* One meter is all there is, and it is the device's own.
Alone(k) == \E m \in Meter : Meters(k) = {m} /\ Behind(m) = {Known(m)}

\* Mutant: a counter that went back is taken for one that wrapped.
ClaimAbsolute(k, bytes) ==
  IF prev[k].when # "earlier" THEN 0
  ELSE IF bytes >= prev[k].bytes THEN bytes - prev[k].bytes ELSE bytes + prev[k].bytes

\* ComputeRate, times the elapsed time: nothing for a first reading, for a
\* second one at the same instant and for a counter that went back.
ComputeRate(k, bytes) ==
  IF prev[k].when = "earlier" /\ bytes >= prev[k].bytes THEN bytes - prev[k].bytes ELSE 0

\* Sources are asked in this order, switches in any.
Stage(s) == CASE s \in Switch -> 1 [] s = "unifi" -> 2 [] s = "opnsense" -> 3 [] OTHER -> 4
Upcoming == {s \in todo : \A t \in todo : Stage(s) <= Stage(t)}

Zero == [k \in Key |-> 0]

Init ==
  /\ there = [s \in Spot |-> {Home[s]} \ {NoMac}] /\ known = Home /\ events = 0
  /\ counter = [m \in Meter |-> 0]
  /\ prev = [k \in Key |-> NoReading]
  /\ todo = {} /\ left = {} /\ phase = "idle" /\ seen = {}
  /\ pending = Zero /\ sampled = {} /\ claimed = Zero
  /\ moved = Zero /\ base = Zero /\ start = Zero
  /\ own = Key /\ calm = Key

-----------------------------------------------------------------------------
(* runTrafficCycle. *)

\* time.Now() is taken once for the cycle: readings so far are earlier.
CycleBegin ==
  /\ phase = "idle"
  /\ phase' = "collect"
  /\ todo' = Source
  /\ prev' = [k \in Key |-> IF prev[k].when = "now" THEN [prev[k] EXCEPT !.when = "earlier"] ELSE prev[k]]
  /\ UNCHANGED <<world, counter, left, seen, pending, sampled, claimed, history, events>>

\* A source answers, and its answer is worked through.
Fetch(s) ==
  /\ phase = "collect" /\ left = {} /\ s \in Upcoming
  /\ todo' = todo \ {s}
  /\ left' = {m \in Meter : m[1] = s}
  /\ UNCHANGED <<world, counter, prev, phase, seen, pending, sampled, claimed, history, events>>

\* A source fails: the cycle goes on without it.
FetchFails(s) ==
  /\ phase = "collect" /\ left = {} /\ s \in Upcoming
  /\ todo' = todo \ {s}
  /\ UNCHANGED <<world, counter, prev, left, phase, seen, pending, sampled, claimed, history, events>>

\* The fifteen seconds of the cycle are over: no further source is asked.
Timeout ==
  /\ phase = "collect" /\ left = {} /\ todo # {}
  /\ todo' = {}
  /\ UNCHANGED <<world, counter, prev, left, phase, seen, pending, sampled, claimed, history, events>>

\* A reading is skipped: of no traffic, of a station that a switch measures, of a port
\* or an address with no device, or not for this firewall to measure.
Skip(m) ==
  /\ m \in left
  /\ counter[m] = 0 \/ (m[1] = "unifi" /\ m[2] \in seen) \/ ~Measures(m)
  /\ left' = left \ {m}
  /\ UNCHANGED <<world, counter, prev, todo, phase, seen, pending, sampled, claimed, history, events>>

\* A reading becomes a sample.
Read(m) ==
  LET k == KeyOf(m) IN
  /\ m \in left
  /\ ~(m[1] = "unifi" /\ m[2] \in seen) /\ Measures(m)
  /\ left' = left \ {m}
  /\ pending' = [pending EXCEPT ![k] = @ + ComputeRate(k, counter[m])]
  /\ sampled' = sampled \cup {k}
  /\ prev' = [prev EXCEPT ![k] = [bytes |-> counter[m], when |-> "now"]]
  /\ seen' = IF m[1] \in Firewall THEN seen ELSE seen \cup {Known(m)}
  /\ base' = [base EXCEPT ![k] = moved[k]]
  /\ start' = IF prev[k].when = "never" THEN [start EXCEPT ![k] = moved[k]] ELSE start
  /\ own' = IF Alone(k) THEN own ELSE own \ {k}
  /\ calm' = calm \cap own'
  /\ UNCHANGED <<world, counter, todo, phase, claimed, moved, events>>

\* All answers are worked through.
Collected ==
  /\ phase = "collect" /\ todo = {} /\ left = {}
  /\ phase' = "record"
  /\ UNCHANGED <<world, counter, prev, todo, left, seen, pending, sampled, claimed, history, events>>

\* The cycle is over; its samples are gone, its readings stay in prev.
CycleEnd ==
  /\ phase = "record"
  /\ phase' = "idle" /\ seen' = {} /\ sampled' = {} /\ pending' = Zero
  /\ UNCHANGED <<world, counter, prev, todo, left>>

\* RecordTrafficSamples commits all samples of the cycle.  (The bound stops only devices
\* whose bytes two meters claim, over and over.)
RecordTrafficSamples ==
  /\ CycleEnd
  /\ \A k \in Key \ own : claimed[k] + pending[k] <= MaxClaim
  /\ claimed' = [k \in Key |-> claimed[k] + pending[k]]
  /\ UNCHANGED <<history, events>>

\* It fails, and what was read in this cycle is never claimed.
RecordFails ==
  /\ CycleEnd
  /\ sampled # {}
  /\ calm' = calm \ sampled
  /\ UNCHANGED <<claimed, moved, base, start, own, events>>

-----------------------------------------------------------------------------
(* What happens around it. *)

Event == events < MaxEvents /\ events' = events + 1

\* A byte of x goes past some meters.  (One that no meter counts leaves no sample and is
\* left out.)
Move(x, kind, past) ==
  LET k == <<x, kind>> IN
  /\ \E m \in past : Configured(m)
  /\ Event
  /\ moved' = [moved EXCEPT ![k] = @ + 1]
  /\ counter' = [m \in Meter |-> IF m \in past THEN counter[m] + 1 ELSE counter[m]]
  /\ UNCHANGED <<world, prev, cycle, pending, sampled, claimed, base, start, own, calm>>

\* A device moves a byte over its link, past every port and station that is its own.
MoveLink(x) == Move(x, "link", {m \in Meter : m[1] \notin Firewall /\ x \in Behind(m)})

\* A byte of an address of x passes every firewall.
MoveWan(x, ip) ==
  /\ x \in there[ip]
  /\ Move(x, "wan", {m \in Meter : m[1] \in Firewall /\ m[2] = ip})

\* A counter starts over: a reboot, an accounting period, states that expire.
Reset(m) ==
  /\ counter[m] # 0
  /\ counter' = [counter EXCEPT ![m] = 0]
  /\ calm' = {k \in calm : m \notin Meters(k)}
  /\ UNCHANGED <<world, prev, cycle, pending, sampled, claimed, moved, base, start, own,
                 events>>

\* The meters of a device change: a device with a reading has to keep the one it has.
Changed ==
  /\ Event
  /\ own' = {k \in own : prev[k].when = "never" \/ (Alone(k)' /\ Meters(k)' = Meters(k))}
  /\ calm' = calm \cap own'
  /\ UNCHANGED <<counter, prev, cycle, pending, sampled, claimed, moved, base, start>>

\* A device is plugged in, switched on or gets an address, or the opposite.
Come(s, x) == there' = [there EXCEPT ![s] = @ \cup {x}] /\ UNCHANGED known /\ Changed
Go(s, x) == x \in there[s] /\ there' = [there EXCEPT ![s] = @ \ {x}] /\ UNCHANGED known /\ Changed

\* The switch learns who is behind a port, or that it is nobody or several; the store
\* learns or forgets who is at an address.
Learn(s, x) == known' = [known EXCEPT ![s] = x] /\ UNCHANGED there /\ Changed

\* The server restarts: the cycle and all earlier readings are lost.
Restart ==
  /\ prev' = [k \in Key |-> NoReading]
  /\ todo' = {} /\ left' = {} /\ phase' = "idle" /\ seen' = {}
  /\ pending' = Zero /\ sampled' = {}
  /\ calm' = calm \ {k \in Key : prev[k].when # "never"}
  /\ UNCHANGED <<world, counter, claimed, moved, base, start, own, events>>

Next ==
  \/ CycleBegin \/ Timeout \/ Collected \/ RecordTrafficSamples \/ RecordFails \/ Restart
  \/ \E s \in Source : Fetch(s) \/ FetchFails(s)
  \/ \E m \in Meter : Skip(m) \/ Read(m) \/ Reset(m)
  \/ \E x \in Mac : MoveLink(x)
  \/ \E x \in Mac, ip \in Ip : MoveWan(x, ip)
  \/ \E s \in Spot, x \in Mac : Come(s, x) \/ Go(s, x)
  \/ \E s \in Spot, x \in Mac \cup {NoMac} : Learn(s, x)

Spec == Init /\ [][Next]_vars

-----------------------------------------------------------------------------
\* The recorded rates of a device never claim more bytes than it has moved, through
\* counters that start over, restarts, failed queries, failed commits and readings that
\* two firewalls take of it, as long as one meter of its own has measured it since the
\* first reading: it was not behind a port and at an access point at a time, nor at two
\* addresses, nor moved from one to another, and nobody else was behind its meter or
\* taken to be (ComputeRate, prev, the exclusions of CollectCycle).
RatesNeverOverstate == \A k \in own : claimed[k] <= moved[k]

\* And they claim all of it: while moreover no counter of the device starts over, no
\* commit of its samples fails and the server runs, its recorded and pending rates add
\* up to what it moved between its first and its last reading, whatever queries fail in
\* between.
RatesAddUp ==
  \A k \in calm : prev[k].when # "never" => claimed[k] + pending[k] = base[k] - start[k]

\* What the comment on SingleMAC wants: "Only attribute traffic directly if port is
\* dedicated to a single MAC" (traffic.go).  It is not enough: counters of two meters
\* are compared with each other under one key of prev, and a device is charged for who
\* came after it until the switch or the store has learnt of that.
EveryRateIsTrue == \A k \in Key : claimed[k] <= moved[k]
=============================================================================
