------------------------------ MODULE Presence ------------------------------
(***************************************************************************)
(* Which devices are online (internal/storage/storage.go): every source    *)
(* of a scan job that merges sightings into the devices table, the end of  *)
(* the job that marks the missing ones (ProcessMissingDevices), and the    *)
(* events each of them writes to device_presence_history.                  *)
(*                                                                         *)
(* A step is one transaction of the store.  An address stands for the      *)
(* device that has it; a device that moves to another address is left out. *)
(* Time is counted in cycle intervals (the scan interval times the number  *)
(* of networks, scanjob.go).                                               *)
(***************************************************************************)
EXTENDS Naturals

CONSTANTS
  Addr, Net,
  NetOf,     \* the network of each address
  Hour,      \* cycle intervals in an hour
  Old,       \* age at which a record is out of date (a year)
  Sources,   \* what a job consults besides its sweeps
  Moving     \* whether devices come and go

Source == {"probe", "ipv6", "mdns", "arp", "dhcp", "unifi"}
Expiry == 3  \* expiryThreshold

ASSUME PresenceAssumption ==
  /\ NetOf \in [Addr -> Net]
  /\ Hour \in Nat /\ Old \in Nat
  /\ Hour <= Old /\ Expiry <= Old
  /\ Sources \subseteq Source
  /\ Moving \in BOOLEAN

VARIABLES
  up,       \* addresses whose device is there and answers
  row,      \* addresses in the devices table
  online,   \* those with is_online = 1
  missed,   \* missed_sweeps
  age,      \* time since last_seen, Old at most
  history,  \* the newest event of each address
  phase,    \* what the scan job does next
  nets,     \* scanJob.networks
  todo,     \* networks not yet swept
  swept,    \* networks swept with success by this job
  targets,  \* addresses whose ports the job probes
  active,   \* activeIPsMap
  met,      \* addresses this job has merged into the table
  unseen    \* rounds of ProcessMissing since an online address was last merged

tableVars == <<row, online, missed, age, history, unseen>>
jobVars   == <<phase, nets, todo, swept, targets, active, met>>
vars      == <<up, tableVars, jobVars>>

Event == {"none", "join", "leave", "return"}
Phase == {"idle", "sweep", "deep", "probe", "ipv6", "mdns", "arp", "dhcp",
          "unifi", "missing"}

Init ==
  /\ up \in SUBSET Addr
  /\ row = {} /\ online = {}
  /\ missed = [a \in Addr |-> 0]
  /\ age = [a \in Addr |-> 0]
  /\ history = [a \in Addr |-> "none"]
  /\ phase = "idle"
  /\ nets = {} /\ todo = {} /\ swept = {} /\ targets = {} /\ active = {} /\ met = {}
  /\ unseen = [a \in Addr |-> 0]

-----------------------------------------------------------------------------
(* Transactions of the store. *)

\* Mutant: missed_sweeps is not reset when a device is seen
KeepMissed(S, always) == missed

\* missed_sweeps after a merge: reset for a device that was online, and for a
\* new one; a returning device keeps what it had, except with UniFi
ResetMissed(S, always) ==
  [a \in Addr |-> IF a \in S /\ (always \/ a \in online \/ a \notin row)
                  THEN 0 ELSE missed[a]]

\* MergeDevices, MergeSupplemental, MergeIPv6Neighbors and MergeUniFiClients
\* see the addresses S
Merge(S, always) ==
  /\ row' = row \cup S
  /\ online' = online \cup S
  /\ missed' = ResetMissed(S, always)
  /\ age' = [a \in Addr |-> IF a \in S THEN 0 ELSE age[a]]
  /\ history' = [a \in Addr |->
       IF a \in S \ row THEN "join"
       ELSE IF a \in S \ online THEN "return" ELSE history[a]]
  /\ unseen' = [a \in Addr |-> IF a \in S THEN 0 ELSE unseen[a]]

\* UpdateDevice by scanPortHost: the record is written back as seen now,
\* without an event, even where it was deleted meanwhile
UpdateDevice(a) ==
  /\ row' = row \cup {a}
  /\ online' = online \cup {a}
  /\ age' = [age EXCEPT ![a] = 0]
  /\ unseen' = [unseen EXCEPT ![a] = 0]
  /\ UNCHANGED <<missed, history>>

\* MergeRouterDHCP: is_online of every record is computed again, from an
\* hour; new leases are entered as seen 65 minutes ago
MergeRouterDHCP(L) ==
  LET new == L \ row
  IN  /\ row' = row \cup L
      /\ online' = {a \in row : age[a] < Hour}
      /\ missed' = [a \in Addr |-> IF a \in new THEN 0 ELSE missed[a]]
      /\ age' = [a \in Addr |-> IF a \in new THEN Hour ELSE age[a]]
      /\ history' = [a \in Addr |-> IF a \in new THEN "join" ELSE history[a]]
      /\ unseen' = [a \in Addr |-> IF a \in new THEN 0 ELSE unseen[a]]

\* Mutant: what the job has found is not taken into account
AnyAbsentee == {a \in online : NetOf[a] \in nets}

\* The online devices in the job's networks that are not in activeIPs
Absentee == {a \in online \ active : NetOf[a] \in nets}

\* Mutant: one sweep too many before a device is given up
ExpiredLate == {a \in Absentee : missed[a] + 1 > 3 \/ age[a] >= Expiry}

\* Absentees that are given up
Expired == {a \in Absentee : missed[a] + 1 >= 3 \/ age[a] >= Expiry}

\* Mutant: the flag of a device that left is not cleared
LogOnly ==
  /\ missed' = [a \in Addr |-> IF a \in Expired THEN 0
                               ELSE IF a \in Absentee THEN missed[a] + 1 ELSE missed[a]]
  /\ history' = [a \in Addr |-> IF a \in Expired THEN "leave" ELSE history[a]]
  /\ unseen' = [a \in Addr |-> 0]
  /\ UNCHANGED <<row, online, age>>

\* Mutant: the misses are compared but never stored
NeverCount ==
  /\ online' = online \ Expired
  /\ history' = [a \in Addr |-> IF a \in Expired THEN "leave" ELSE history[a]]
  /\ unseen' = [a \in Addr |-> 0]
  /\ UNCHANGED <<row, missed, age>>

ProcessMissingDevices ==
  /\ online' = online \ Expired
  /\ missed' = [a \in Addr |-> IF a \in Expired THEN 0
                               ELSE IF a \in Absentee THEN missed[a] + 1 ELSE missed[a]]
  /\ history' = [a \in Addr |-> IF a \in Expired THEN "leave" ELSE history[a]]
  /\ unseen' = [a \in Addr |-> IF a \in Expired THEN 0
                               ELSE IF a \in Absentee THEN unseen[a] + 1 ELSE unseen[a]]
  /\ UNCHANGED <<row, age>>

\* Rows are removed; an address that is not in the table has no record
Remove(S) ==
  /\ row' = row \ S
  /\ online' = online \ S
  /\ missed' = [a \in Addr |-> IF a \in S THEN 0 ELSE missed[a]]
  /\ age' = [a \in Addr |-> IF a \in S THEN 0 ELSE age[a]]
  /\ unseen' = [a \in Addr |-> IF a \in S THEN 0 ELSE unseen[a]]

-----------------------------------------------------------------------------
(* The scan job. *)

Goto(p) == phase' = p

\* What follows each source
After == [probe |-> "ipv6", ipv6 |-> "mdns", mdns |-> "arp", arp |-> "dhcp",
          dhcp |-> "unifi", unifi |-> "missing"]

\* The devices of the networks N that were seen in the last three intervals
Recent(N) == {a \in row : NetOf[a] \in N /\ age[a] < Expiry}

\* Nothing is probed without a port range
Probed(S) == {a \in S : "probe" \in Sources}

\* A quick or a full job over some networks, or one that only probes: the
\* recent devices or a single one
StartJob ==
  /\ phase = "idle"
  /\ \E N \in (SUBSET Net) \ {{}} :
       /\ nets' = N
       /\ \/ Goto("sweep") /\ todo' = N /\ targets' = {}
          \/ Goto("deep") /\ todo' = {} /\ targets' = Probed(Recent(N))
          \/ /\ Goto("deep") /\ todo' = {}
             /\ \E a \in row : NetOf[a] \in N /\ targets' = Probed({a})
  /\ swept' = {} /\ active' = {} /\ met' = {}
  /\ UNCHANGED <<up, tableVars>>

\* One network: scanned, or skipped, failed or not saved
SweepNetwork(n) ==
  /\ phase = "sweep" /\ n \in todo
  /\ todo' = todo \ {n}
  /\ \/ \E S \in SUBSET {a \in up : NetOf[a] = n} :
          /\ Merge(S, FALSE)
          /\ active' = active \cup S
          /\ met' = met \cup S
          /\ swept' = swept \cup {n}
     \/ UNCHANGED <<tableVars, active, met, swept>>
  /\ UNCHANGED <<up, phase, nets, targets>>

\* The networks are swept.  A full job probes what it has found, a quick one
\* the new devices at most, a nightly one those of the last day that are due.
SweepDone ==
  /\ phase = "sweep" /\ todo = {}
  /\ Goto("probe")
  /\ \/ \E S \in SUBSET met : targets' = Probed(S)
     \/ \E S \in SUBSET {a \in row : NetOf[a] \in nets /\ age[a] <= 24 * Hour} :
          targets' = Probed(S)
  /\ UNCHANGED <<up, tableVars, nets, todo, swept, active, met>>

\* scanPortHost does not ask whether the host is up (nmap -Pn): a probe
\* without an answer succeeds with no open port
scanPortHost(a) ==
  /\ phase \in {"probe", "deep"}
  /\ a \in targets
  /\ UpdateDevice(a)
  /\ UNCHANGED <<up, jobVars>>

\* The next source is reached
Skip(p) ==
  /\ phase = p
  /\ Goto(After[p])
  /\ UNCHANGED <<up, tableVars, nets, todo, swept, targets, active, met>>

\* A job that only probes asks no other source and marks nobody as missing
DeepEnd ==
  /\ phase = "deep"
  /\ Goto("idle")
  /\ UNCHANGED <<up, tableVars, nets, todo, swept, targets, active, met>>

\* An IPv6 neighbour refreshes the record with its MAC address, whatever the
\* address of that record, or becomes one; activeIPs gets the IPv6 addresses,
\* of which the records at A are
DiscoverIPv6 ==
  /\ phase = "ipv6" /\ "ipv6" \in Sources
  /\ \E S \in SUBSET up, A \in SUBSET Addr :
       /\ S \ row \subseteq A /\ A \subseteq S
       /\ Merge(S, FALSE) /\ active' = active \cup A /\ met' = met \cup S
  /\ Goto("mdns")
  /\ UNCHANGED <<up, nets, todo, swept, targets>>

DiscoverMDNS ==
  /\ phase = "mdns" /\ "mdns" \in Sources
  /\ \E S \in SUBSET up :
       Merge(S, FALSE) /\ active' = active \cup S /\ met' = met \cup S
  /\ Goto("arp")
  /\ UNCHANGED <<up, nets, todo, swept, targets>>

\* The router's ARP table may hold devices that are gone.  Its addresses count
\* as active even if the merge fails.
OPNsenseARP ==
  /\ phase = "arp" /\ "arp" \in Sources
  /\ \E S \in SUBSET Addr :
       /\ active' = active \cup S
       /\ \/ Merge(S, FALSE) /\ met' = met \cup S
          \/ UNCHANGED <<tableVars, met>>
  /\ Goto("dhcp")
  /\ UNCHANGED <<up, nets, todo, swept, targets>>

\* Leases and reservations, of devices present or not
RouterDHCP ==
  /\ phase = "dhcp" /\ "dhcp" \in Sources
  /\ \E L \in (SUBSET Addr) \ {{}} : MergeRouterDHCP(L)
  /\ Goto("unifi")
  /\ UNCHANGED <<up, nets, todo, swept, targets, active, met>>

UniFi ==
  /\ phase = "unifi" /\ "unifi" \in Sources
  /\ \E S \in SUBSET up :
       /\ active' = active \cup S
       /\ \/ Merge(S, TRUE) /\ met' = met \cup S
          \/ UNCHANGED <<tableVars, met>>
  /\ Goto("missing")
  /\ UNCHANGED <<up, nets, todo, swept, targets>>

\* ProcessMissingDevices is given all networks of the job; it may fail
JobEnd ==
  /\ phase = "missing"
  /\ ProcessMissingDevices \/ UNCHANGED tableVars
  /\ Goto("idle")
  /\ UNCHANGED <<up, nets, todo, swept, targets, active, met>>

\* The job was cancelled
JobAbort ==
  /\ phase # "idle"
  /\ Goto("idle")
  /\ UNCHANGED <<up, tableVars, nets, todo, swept, targets, active, met>>

-----------------------------------------------------------------------------
(* Beside the job. *)

\* GET /api/scan sweeps a network in the request itself
handleScan ==
  /\ \E n \in Net : \E S \in SUBSET {a \in up : NetOf[a] = n} : Merge(S, FALSE)
  /\ UNCHANGED <<up, jobVars>>

\* DeleteDevice, ClearDevices
Delete ==
  /\ \E S \in (SUBSET row) \ {{}} : Remove(S)
  /\ UNCHANGED <<up, history, jobVars>>

\* PruneOldHistory: offline records not seen for a year, and any old events
PruneOldHistory ==
  /\ Remove({a \in row \ online : age[a] = Old})
  /\ \E E \in SUBSET Addr :
       history' = [a \in Addr |-> IF a \in E THEN "none" ELSE history[a]]
  /\ UNCHANGED <<up, jobVars>>

\* Devices come and go
ComeAndGo ==
  /\ Moving
  /\ up' \in SUBSET Addr
  /\ UNCHANGED <<tableVars, jobVars>>

\* A cycle interval passes.  The sources after the probes answer in seconds.
Tick ==
  /\ phase \in {"idle", "sweep", "deep", "probe"}
  /\ age' = [a \in Addr |-> IF a \in row /\ age[a] < Old THEN age[a] + 1 ELSE age[a]]
  /\ UNCHANGED <<up, row, online, missed, history, unseen, jobVars>>

JobStep ==
  \/ StartJob \/ SweepDone \/ DeepEnd
  \/ \E n \in Net : SweepNetwork(n)
  \/ \E a \in Addr : scanPortHost(a)
  \/ \E p \in Source : Skip(p)
  \/ DiscoverIPv6 \/ DiscoverMDNS \/ OPNsenseARP \/ RouterDHCP \/ UniFi
  \/ JobEnd \/ JobAbort

Next ==
  \/ JobStep
  \/ handleScan \/ Delete \/ PruneOldHistory
  \/ ComeAndGo \/ Tick

Spec == Init /\ [][Next]_vars

-----------------------------------------------------------------------------
(* Properties. *)

TableOK ==
  /\ row \subseteq Addr
  /\ online \subseteq row
  /\ missed \in [Addr -> 0 .. 2]
  /\ age \in [Addr -> 0 .. Old]
  /\ history \in [Addr -> Event]
  /\ unseen \in [Addr -> 0 .. 2]

JobOK ==
  /\ phase \in Phase
  /\ nets \subseteq Net
  /\ todo \subseteq nets
  /\ swept \subseteq nets
  /\ targets \subseteq Addr
  /\ active \subseteq Addr
  /\ met \subseteq Addr

\* Every variable has its type; missed_sweeps never reaches the three at which
\* a device is given up.
TypeOK == up \subseteq Addr /\ TableOK /\ JobOK

\* ProcessMissingDevices "checks and flags online devices" (storage.go:1952):
\* a device that has left does not leave again before it was seen.
NeverLeavesTwice ==
  [][\A a \in online \ online' :
       phase = "missing" /\ a \in row' => history[a] # "leave"]_vars

\* ... "not seen in the current sweep": a device leaves only in a job that
\* swept its network.
LeavesOnlyIfLookedFor ==
  [][\A a \in online \ online' : a \in row' => NetOf[a] \in swept]_vars

\* "Stage 1 already established that this host is reachable" (scanner.go:626,
\* of the deep probe): no device comes online that does not answer.
ComesOnlineIfUp == [][online' \ online \subseteq up]_vars

\* A device is given up for a reason: three rounds since it was last seen, or
\* three cycle intervals (missed_sweeps and last_seen, reset on every merge).
GivenUpWithEvidence ==
  \A a \in online \ online' : a \in row' => unseen[a] + 1 >= 3 \/ age[a] >= Expiry

LeavesWithEvidence == [][GivenUpWithEvidence]_vars

\* What a job has found is online for as long as the job lasts: no later
\* source and not ProcessMissingDevices either takes it for missing.
MetIsOnline == met \cap row \subseteq online

Round(a) == phase = "missing" /\ NetOf[a] \in nets /\ ProcessMissingDevices

GoneForGood(a) == <>[](a \notin up) /\ []<><<Round(a)>>_vars

\* However long DHCP leases and deep probes report a device that is gone, it is
\* taken offline by ProcessMissingDevices again, if the jobs over its network
\* keep coming to their end: neither of the two resets missed_sweeps.
GoneIsNoticed == \A a \in Addr : GoneForGood(a) => []<>(a \notin online)

\* The timeline as the abstract specification sees it
Att == INSTANCE Attendance WITH
  state  <- [a \in Addr |-> IF a \notin row THEN "unknown"
                            ELSE IF a \in online THEN "online" ELSE "offline"],
  newest <- [a \in Addr |-> history[a]]

\* Without router DHCP and deep probes, every change of a device's status is
\* one event and every event one change.
ImplementsAttendance == Att!AttSpec
=============================================================================
