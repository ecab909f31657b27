---------------------------- MODULE PresenceProofs ----------------------------
(***************************************************************************)
(* Theorems of Presence, for any addresses, networks and ages.             *)
(*                                                                         *)
(* Evidence is the invariant behind them: missed_sweeps is the number of   *)
(* rounds in which an online device was missed, and a device that is       *)
(* offline starts again from zero.  Found says why a device the job has    *)
(* met survives ProcessMissingDevices: it is in activeIPs, or it was met   *)
(* so late that neither its misses nor its age can count against it.       *)
(***************************************************************************)
EXTENDS Presence, TLAPS

\* Rounds are never undercounted, with any source
Counted == \A a \in Addr : unseen[a] <= missed[a]

\* The sources under which the timeline is exact
Exact == Sources \cap {"probe", "dhcp"} = {}

Evidence ==
  \A a \in Addr : unseen[a] = missed[a] /\ (a \notin online => missed[a] = 0)

\* The phases in which no time passes
Late == {"mdns", "arp", "dhcp", "unifi", "missing"}

Found ==
  /\ met \cap row \subseteq online
  /\ phase \notin Late \cup {"idle"} => met \subseteq active
  /\ phase \in Late =>
       \A a \in met \cap row : a \in active \/ (age[a] = 0 /\ missed[a] = 0)

USE PresenceAssumption DEF Expiry, Source

-----------------------------------------------------------------------------
(* The transactions keep the type of the table. *)

TypeInv == TypeOK /\ Counted

\* No targets without probes
Probing == "probe" \in Sources \/ targets = {}

LEMMA MergeTable ==
  ASSUME TableOK, Counted, NEW S \in SUBSET Addr, NEW w \in BOOLEAN, Merge(S, w)
  PROVE  TableOK' /\ Counted'
<1>1. /\ missed' \in [Addr -> 0 .. 2]
      /\ \A a \in Addr : missed'[a] = missed[a] \/ missed'[a] = 0
      /\ \A a \in Addr : a \notin S => missed'[a] = missed[a]
  BY DEF Merge, ResetMissed, TableOK
<1>2. unseen' \in [Addr -> 0 .. 2] /\ Counted'
  BY <1>1 DEF Merge, TableOK, Counted
<1>3. age' \in [Addr -> 0 .. Old]
  BY DEF Merge, TableOK
<1>4. history' \in [Addr -> Event]
  BY DEF Merge, TableOK, Event
<1> QED
  BY <1>1, <1>2, <1>3, <1>4 DEF Merge, TableOK

LEMMA UpdateTable ==
  ASSUME TableOK, Counted, NEW a \in Addr, UpdateDevice(a)
  PROVE  TableOK' /\ Counted'
BY DEF UpdateDevice, TableOK, Counted

LEMMA DHCPTable ==
  ASSUME TableOK, Counted, NEW L \in SUBSET Addr, MergeRouterDHCP(L)
  PROVE  TableOK' /\ Counted'
<1>1. missed' \in [Addr -> 0 .. 2] /\ unseen' \in [Addr -> 0 .. 2] /\ Counted'
  BY DEF MergeRouterDHCP, TableOK, Counted
<1>2. age' \in [Addr -> 0 .. Old]
  BY DEF MergeRouterDHCP, TableOK
<1>3. history' \in [Addr -> Event]
  BY DEF MergeRouterDHCP, TableOK, Event
<1>4. row' \subseteq Addr /\ online' \subseteq row'
  BY DEF MergeRouterDHCP, TableOK
<1> QED
  BY <1>1, <1>2, <1>3, <1>4 DEF TableOK

LEMMA MissingTable ==
  ASSUME TableOK, Counted, ProcessMissingDevices
  PROVE  TableOK' /\ Counted'
<1>1. \A a \in Addr : a \in Absentee /\ a \notin Expired => missed[a] + 1 <= 2
  BY DEF Expired, TableOK
<1>2. missed' \in [Addr -> 0 .. 2]
  BY <1>1 DEF ProcessMissingDevices, TableOK
<1>3. unseen' \in [Addr -> 0 .. 2] /\ Counted'
  BY <1>1 DEF ProcessMissingDevices, TableOK, Counted
<1>4. history' \in [Addr -> Event]
  BY DEF ProcessMissingDevices, TableOK, Event
<1> QED
  BY <1>2, <1>3, <1>4 DEF ProcessMissingDevices, TableOK

LEMMA RemoveTable ==
  ASSUME TableOK, Counted, NEW S \in SUBSET Addr, Remove(S),
         history' \in [Addr -> Event]
  PROVE  TableOK' /\ Counted'
<1>1. missed' \in [Addr -> 0 .. 2] /\ unseen' \in [Addr -> 0 .. 2] /\ Counted'
  BY DEF Remove, TableOK, Counted
<1>2. age' \in [Addr -> 0 .. Old]
  BY DEF Remove, TableOK
<1> QED
  BY <1>1, <1>2 DEF Remove, TableOK

LEMMA TickTable ==
  ASSUME TableOK, Counted, Tick
  PROVE  TableOK' /\ Counted'
<1>1. age' \in [Addr -> 0 .. Old]
  BY DEF Tick, TableOK
<1> QED
  BY <1>1 DEF Tick, TableOK, Counted

LEMMA SameTable ==
  ASSUME TableOK, Counted, UNCHANGED tableVars
  PROVE  TableOK' /\ Counted'
BY DEF TableOK, Counted, tableVars

-----------------------------------------------------------------------------
(* Type correctness. *)

LEMMA TypeStep == TypeInv /\ [Next]_vars => TypeInv'
<1> SUFFICES ASSUME TypeInv, [Next]_vars PROVE TypeInv'
  OBVIOUS
<1> USE DEF TypeInv, TypeOK
<1>1. CASE StartJob
  <2>1. PICK N \in (SUBSET Net) \ {{}} :
          /\ nets' = N
          /\ phase' \in {"sweep", "deep"} /\ todo' \in {N, {}}
          /\ targets' = {} \/ \E S \in SUBSET row : targets' = Probed(S)
    BY <1>1 DEF StartJob, Goto, Recent
  <2>2. targets' \subseteq Addr
    BY <2>1 DEF Probed, TableOK
  <2> QED
    BY <1>1, <2>1, <2>2, SameTable DEF StartJob, JobOK, Phase
<1>2. CASE SweepDone \/ DeepEnd \/ JobAbort \/ \E p \in Source : Skip(p)
  <2>1. phase' \in Phase
    BY <1>2 DEF SweepDone, DeepEnd, JobAbort, Skip, Goto, After, Phase
  <2>2. targets' \subseteq Addr
    BY <1>2 DEF SweepDone, DeepEnd, JobAbort, Skip, Probed, Recent, TableOK, JobOK
  <2> QED
    BY <1>2, <2>1, <2>2, SameTable DEF SweepDone, DeepEnd, JobAbort, Skip, JobOK
<1>3. ASSUME NEW n \in Net, SweepNetwork(n) PROVE TypeInv'
  <2>1. CASE UNCHANGED <<tableVars, active, met, swept>>
    BY <1>3, <2>1, SameTable DEF SweepNetwork, JobOK
  <2>2. ASSUME NEW S \in SUBSET {a \in up : NetOf[a] = n},
               Merge(S, FALSE), active' = active \cup S,
               met' = met \cup S, swept' = swept \cup {n}
        PROVE  TypeInv'
    <3>1. S \in SUBSET Addr
      OBVIOUS
    <3>2. TableOK' /\ Counted'
      BY <2>2, <3>1, MergeTable
    <3> QED
      BY <1>3, <2>2, <3>1, <3>2 DEF SweepNetwork, JobOK
  <2> QED
    BY <1>3, <2>1, <2>2 DEF SweepNetwork
<1>4. ASSUME NEW a \in Addr, scanPortHost(a) PROVE TypeInv'
  BY <1>4, UpdateTable DEF scanPortHost, JobOK, jobVars
<1>5. CASE DiscoverIPv6
  <2>1. PICK S \in SUBSET up, A \in SUBSET Addr :
          Merge(S, FALSE) /\ active' = active \cup A /\ met' = met \cup S
    BY <1>5 DEF DiscoverIPv6
  <2>2. S \in SUBSET Addr
    OBVIOUS
  <2>3. TableOK' /\ Counted'
    BY <2>1, <2>2, MergeTable
  <2> QED
    BY <1>5, <2>1, <2>2, <2>3 DEF DiscoverIPv6, JobOK, Goto, Phase
<1>6. CASE DiscoverMDNS
  <2>1. PICK S \in SUBSET up :
          Merge(S, FALSE) /\ active' = active \cup S /\ met' = met \cup S
    BY <1>6 DEF DiscoverMDNS
  <2>2. S \in SUBSET Addr
    OBVIOUS
  <2>3. TableOK' /\ Counted'
    BY <2>1, <2>2, MergeTable
  <2> QED
    BY <1>6, <2>1, <2>2, <2>3 DEF DiscoverMDNS, JobOK, Goto, Phase
<1>7. CASE OPNsenseARP
  <2>1. PICK S \in SUBSET Addr :
          /\ active' = active \cup S
          /\ \/ Merge(S, FALSE) /\ met' = met \cup S
             \/ UNCHANGED <<tableVars, met>>
    BY <1>7 DEF OPNsenseARP
  <2>2. TableOK' /\ Counted'
    BY <2>1, MergeTable, SameTable
  <2> QED
    BY <1>7, <2>1, <2>2 DEF OPNsenseARP, JobOK, Goto, Phase
<1>8. CASE RouterDHCP
  <2>1. PICK L \in (SUBSET Addr) \ {{}} : MergeRouterDHCP(L)
    BY <1>8 DEF RouterDHCP
  <2>2. TableOK' /\ Counted'
    BY <2>1, DHCPTable
  <2> QED
    BY <1>8, <2>2 DEF RouterDHCP, JobOK, Goto, Phase
<1>9. CASE UniFi
  <2>1. PICK S \in SUBSET up :
          /\ active' = active \cup S
          /\ \/ Merge(S, TRUE) /\ met' = met \cup S
             \/ UNCHANGED <<tableVars, met>>
    BY <1>9 DEF UniFi
  <2>2. S \in SUBSET Addr
    OBVIOUS
  <2>3. TableOK' /\ Counted'
    BY <2>1, <2>2, MergeTable, SameTable
  <2> QED
    BY <1>9, <2>1, <2>2, <2>3 DEF UniFi, JobOK, Goto, Phase
<1>10. CASE JobEnd
  <2>1. TableOK' /\ Counted'
    BY <1>10, MissingTable, SameTable DEF JobEnd
  <2> QED
    BY <1>10, <2>1 DEF JobEnd, JobOK, Goto, Phase
<1>11. CASE handleScan
  <2>1. PICK n \in Net : \E S \in SUBSET {a \in up : NetOf[a] = n} : Merge(S, FALSE)
    BY <1>11 DEF handleScan
  <2>2. PICK S \in SUBSET {a \in up : NetOf[a] = n} : Merge(S, FALSE)
    BY <2>1
  <2>3. S \in SUBSET Addr
    OBVIOUS
  <2>4. TableOK' /\ Counted'
    BY <2>2, <2>3, MergeTable
  <2> QED
    BY <1>11, <2>4 DEF handleScan, jobVars, JobOK
<1>12. CASE Delete
  <2>1. PICK S \in (SUBSET row) \ {{}} : Remove(S)
    BY <1>12 DEF Delete
  <2>2. S \in SUBSET Addr /\ history' \in [Addr -> Event]
    BY <1>12, <2>1 DEF Delete, TableOK
  <2>3. TableOK' /\ Counted'
    BY <2>1, <2>2, RemoveTable
  <2> QED
    BY <1>12, <2>3 DEF Delete, jobVars, JobOK
<1>13. CASE PruneOldHistory
  <2> DEFINE S == {a \in row \ online : age[a] = Old}
  <2>1. S \in SUBSET Addr /\ Remove(S)
    BY <1>13 DEF PruneOldHistory, TableOK
  <2>2. history' \in [Addr -> Event]
    BY <1>13 DEF PruneOldHistory, TableOK, Event
  <2> HIDE DEF S
  <2>3. TableOK' /\ Counted'
    BY <2>1, <2>2, RemoveTable
  <2> QED
    BY <1>13, <2>3 DEF PruneOldHistory, jobVars, JobOK
<1>14. CASE ComeAndGo
  BY <1>14, SameTable DEF ComeAndGo, jobVars, JobOK
<1>15. CASE Tick
  BY <1>15, TickTable DEF Tick, jobVars, JobOK
<1>16. CASE UNCHANGED vars
  BY <1>16, SameTable DEF vars, jobVars, JobOK
<1> QED
  BY <1>1, <1>2, <1>3, <1>4, <1>5, <1>6, <1>7, <1>8, <1>9, <1>10, <1>11,
     <1>12, <1>13, <1>14, <1>15, <1>16 DEF Next, JobStep

\* Every variable keeps its type; in particular missed_sweeps stays below the
\* three misses at which ProcessMissingDevices gives a device up.
THEOREM TypeCorrect == Spec => []TypeOK
<1>1. Init => TypeInv
  BY DEF Init, TypeInv, TypeOK, TableOK, JobOK, Counted, Event, Phase
<1>2. TypeInv => TypeOK
  BY DEF TypeInv
<1> QED
  BY <1>1, <1>2, TypeStep, PTL DEF Spec

-----------------------------------------------------------------------------
(* The timeline. *)

LEMMA ProbingStep == Probing /\ [Next]_vars => Probing'
<1> SUFFICES ASSUME Probing, [Next]_vars PROVE Probing'
  OBVIOUS
<1>1. ASSUME NEW S, targets' = Probed(S) PROVE Probing'
  BY <1>1 DEF Probed, Probing
<1>2. CASE StartJob
  BY <1>1, <1>2 DEF StartJob, Probing
<1>3. CASE SweepDone
  BY <1>1, <1>3 DEF SweepDone
<1>4. CASE UNCHANGED targets
  BY <1>4 DEF Probing
<1>5. CASE UNCHANGED jobVars \/ UNCHANGED vars
  BY <1>5, <1>4 DEF jobVars, vars
<1> QED
  BY <1>2, <1>3, <1>4, <1>5
     DEF Next, JobStep, DeepEnd, SweepNetwork, scanPortHost, Skip, DiscoverIPv6,
         DiscoverMDNS, OPNsenseARP, RouterDHCP, UniFi, JobEnd, JobAbort,
         handleScan, Delete, PruneOldHistory, ComeAndGo, Tick

\* Events are kept or dropped
EventsKept == \A a \in Addr : history'[a] \in {history[a], "none"}

Transaction ==
  \/ UNCHANGED tableVars
  \/ \E S \in SUBSET Addr, w \in BOOLEAN : Merge(S, w)
  \/ \E a \in Addr : "probe" \in Sources /\ UpdateDevice(a)
  \/ \E L \in SUBSET Addr : "dhcp" \in Sources /\ MergeRouterDHCP(L)
  \/ phase = "missing" /\ ProcessMissingDevices
  \/ EventsKept /\ \E S \in SUBSET row : Remove(S)
  \/ Tick

\* A step changes the table by one transaction at most.
LEMMA OneTransaction == TypeInv /\ Probing /\ [Next]_vars => Transaction
<1> SUFFICES ASSUME TypeInv, Probing, [Next]_vars PROVE Transaction
  OBVIOUS
<1> USE DEF TypeInv, TypeOK
<1>1. CASE UNCHANGED tableVars
  BY <1>1 DEF Transaction
<1>2. CASE UNCHANGED vars
  BY <1>1, <1>2 DEF vars
<1>3. ASSUME NEW S \in SUBSET Addr, NEW w \in BOOLEAN, Merge(S, w)
      PROVE  Transaction
  BY <1>3 DEF Transaction
<1>4. ASSUME NEW n \in Net, SweepNetwork(n) PROVE Transaction
  <2>1. CASE \E S \in SUBSET {a \in up : NetOf[a] = n} : Merge(S, FALSE)
    BY <1>3, <2>1
  <2> QED
    BY <1>1, <1>4, <2>1 DEF SweepNetwork
<1>5. ASSUME NEW a \in Addr, scanPortHost(a) PROVE Transaction
  BY <1>5 DEF scanPortHost, Probing, Transaction
<1>6. CASE DiscoverIPv6
  <2>1. PICK S \in SUBSET up : Merge(S, FALSE)
    BY <1>6 DEF DiscoverIPv6
  <2> QED
    BY <1>3, <2>1
<1>7. CASE DiscoverMDNS
  <2>1. PICK S \in SUBSET up : Merge(S, FALSE)
    BY <1>7 DEF DiscoverMDNS
  <2> QED
    BY <1>3, <2>1
<1>8. CASE OPNsenseARP
  BY <1>1, <1>3, <1>8 DEF OPNsenseARP
<1>9. CASE RouterDHCP
  BY <1>9 DEF RouterDHCP, Transaction
<1>10. CASE UniFi
  <2>1. CASE \E S \in SUBSET up : Merge(S, TRUE)
    BY <1>3, <2>1
  <2> QED
    BY <1>1, <1>10, <2>1 DEF UniFi
<1>11. CASE JobEnd
  BY <1>1, <1>11 DEF JobEnd, Transaction
<1>12. CASE handleScan
  <2>1. PICK n \in Net : \E S \in SUBSET {a \in up : NetOf[a] = n} : Merge(S, FALSE)
    BY <1>12 DEF handleScan
  <2>2. PICK S \in SUBSET {a \in up : NetOf[a] = n} : Merge(S, FALSE)
    BY <2>1
  <2> QED
    BY <1>3, <2>2
<1>13. CASE Delete
  BY <1>13 DEF Delete, Transaction, EventsKept
<1>14. CASE PruneOldHistory
  <2>1. \E S \in SUBSET row : Remove(S)
    BY <1>14 DEF PruneOldHistory
  <2>2. EventsKept
    BY <1>14 DEF PruneOldHistory, EventsKept
  <2> QED
    BY <2>1, <2>2 DEF Transaction
<1>15. CASE ComeAndGo
  BY <1>1, <1>15 DEF ComeAndGo
<1>16. CASE Tick
  BY <1>16 DEF Transaction
<1> QED
  BY <1>1, <1>2, <1>4, <1>5, <1>6, <1>7, <1>8, <1>9, <1>10, <1>11, <1>12,
     <1>13, <1>14, <1>15, <1>16
     DEF Next, JobStep, StartJob, SweepDone, DeepEnd, Skip, JobAbort

LEMMA EvidenceStep ==
  ASSUME Exact, TypeInv, Evidence, Transaction
  PROVE  Evidence'
<1> USE DEF TypeInv, TypeOK, TableOK
<1>1. CASE UNCHANGED tableVars
  BY <1>1 DEF tableVars, Evidence
<1>2. ASSUME NEW S \in SUBSET Addr, NEW w \in BOOLEAN, Merge(S, w)
      PROVE  Evidence'
  <2> SUFFICES ASSUME NEW a \in Addr
               PROVE  unseen'[a] = missed'[a] /\ (a \notin online' => missed'[a] = 0)
    BY DEF Evidence
  <2>1. CASE a \in S
    BY <1>2, <2>1 DEF Merge, ResetMissed, Evidence
  <2>2. CASE a \notin S
    BY <1>2, <2>2 DEF Merge, ResetMissed, Evidence
  <2> QED
    BY <2>1, <2>2
<1>3. CASE ProcessMissingDevices
  <2>1. Absentee \subseteq online
    BY DEF Absentee
  <2> QED
    BY <1>3, <2>1 DEF ProcessMissingDevices, Evidence
<1>4. ASSUME NEW S \in SUBSET row, Remove(S) PROVE Evidence'
  BY <1>4 DEF Remove, Evidence
<1>5. CASE Tick
  BY <1>5 DEF Tick, Evidence
<1> QED
  BY <1>1, <1>2, <1>3, <1>4, <1>5 DEF Transaction, Exact

LEMMA EvidenceInv == Exact /\ Spec => [](TypeInv /\ Probing /\ Evidence)
<1> SUFFICES ASSUME Exact PROVE Spec => [](TypeInv /\ Probing /\ Evidence)
  OBVIOUS
<1>1. Init => TypeInv /\ Probing /\ Evidence
  BY DEF Init, TypeInv, TypeOK, TableOK, JobOK, Counted, Event, Phase, Probing,
         Evidence
<1>2. TypeInv /\ Probing /\ Evidence /\ [Next]_vars
        => (TypeInv /\ Probing /\ Evidence)'
  BY TypeStep, ProbingStep, OneTransaction, EvidenceStep
<1> QED
  BY <1>1, <1>2, PTL DEF Spec

LEMMA EvidenceLeaves ==
  ASSUME Exact, TypeInv, Evidence, Transaction, NEW a \in online \ online',
         a \in row'
  PROVE  unseen[a] + 1 >= 3 \/ age[a] >= Expiry
<1> USE DEF TypeInv, TypeOK, TableOK
<1>1. a \in Expired
  BY DEF Transaction, Exact, tableVars, Merge, ProcessMissingDevices, Remove, Tick
<1> QED
  BY <1>1 DEF Expired, Evidence

\* Without router DHCP and deep probes, a device is given up only after three
\* rounds in which it was missed or at the age of three cycle intervals, however
\* jobs, manual scans, deletions and pruning follow one another.
THEOREM LeavesHaveEvidence == Exact /\ Spec => LeavesWithEvidence
<1> SUFFICES ASSUME Exact PROVE Spec => LeavesWithEvidence
  OBVIOUS
<1>1. TypeInv /\ Probing /\ Evidence /\ [Next]_vars
        => [GivenUpWithEvidence]_vars
  BY OneTransaction, EvidenceLeaves DEF GivenUpWithEvidence
<1> QED
  BY <1>1, EvidenceInv, PTL DEF Spec, LeavesWithEvidence

-----------------------------------------------------------------------------
(* The refinement of Attendance. *)

LEMMA AttendanceStep ==
  ASSUME Exact, TypeInv, Transaction
  PROVE  Att!AttNext
<1> SUFFICES ASSUME NEW a \in Addr
             PROVE  Att!Join(a) \/ Att!Leave(a) \/ Att!Return(a) \/ Att!Forget(a)
                    \/ Att!Keep(a)
  BY DEF Att!AttNext
<1> USE DEF TypeInv, TypeOK, TableOK
<1>1. CASE UNCHANGED tableVars
  BY <1>1 DEF tableVars, Att!Keep
<1>2. ASSUME NEW S \in SUBSET Addr, NEW w \in BOOLEAN, Merge(S, w)
      PROVE  Att!Join(a) \/ Att!Return(a) \/ Att!Keep(a)
  <2>1. CASE a \in S \ row
    BY <1>2, <2>1 DEF Merge, Att!Join
  <2>2. CASE a \in S /\ a \in row \ online
    BY <1>2, <2>2 DEF Merge, Att!Return
  <2>3. CASE a \notin S \/ a \in online
    BY <1>2, <2>3 DEF Merge, Att!Keep
  <2> QED
    BY <2>1, <2>2, <2>3
<1>3. CASE ProcessMissingDevices
  <2>1. Expired \subseteq online
    BY DEF Expired, Absentee
  <2>2. CASE a \in Expired
    BY <1>3, <2>1, <2>2 DEF ProcessMissingDevices, Att!Leave
  <2>3. CASE a \notin Expired
    BY <1>3, <2>3 DEF ProcessMissingDevices, Att!Keep
  <2> QED
    BY <2>2, <2>3
<1>4. ASSUME EventsKept, NEW S \in SUBSET row, Remove(S)
      PROVE  Att!Forget(a) \/ Att!Keep(a)
  <2>1. history'[a] \in {history[a], "none"}
    BY <1>4 DEF EventsKept
  <2>2. CASE a \in S
    BY <1>4, <2>1, <2>2 DEF Remove, Att!Forget
  <2>3. CASE a \notin S
    BY <1>4, <2>1, <2>3 DEF Remove, Att!Keep
  <2> QED
    BY <2>2, <2>3
<1>5. CASE Tick
  BY <1>5 DEF Tick, Att!Keep
<1> QED
  BY <1>1, <1>2, <1>3, <1>4, <1>5 DEF Transaction, Exact

\* Without router DHCP and deep probes the devices table and its history
\* implement the timeline: every change of a device's status is one event and
\* every event one change.
THEOREM TimelineRefined == Exact /\ Spec => ImplementsAttendance
<1> SUFFICES ASSUME Exact PROVE Spec => ImplementsAttendance
  OBVIOUS
<1>1. Init => Att!AttInit
  BY DEF Init, Att!AttInit
<1>2. TypeInv /\ Probing /\ Evidence /\ [Next]_vars
        => [Att!AttNext]_<<[a \in Addr |-> IF a \notin row THEN "unknown"
                             ELSE IF a \in online THEN "online" ELSE "offline"],
                           [a \in Addr |-> history[a]]>>
  BY OneTransaction, AttendanceStep
<1> QED
  BY <1>1, <1>2, EvidenceInv, PTL DEF Spec, ImplementsAttendance, Att!AttSpec

-----------------------------------------------------------------------------
(* What the job has found stays online. *)

\* An offline device has no misses
Forgiven == \A a \in Addr : a \notin online => missed[a] = 0

LEMMA ForgivenStep ==
  ASSUME "dhcp" \notin Sources, TypeInv, Forgiven, Transaction
  PROVE  Forgiven'
<1> USE DEF TypeInv, TypeOK, TableOK
<1>1. CASE UNCHANGED tableVars
  BY <1>1 DEF tableVars, Forgiven
<1>2. ASSUME NEW S \in SUBSET Addr, NEW w \in BOOLEAN, Merge(S, w)
      PROVE  Forgiven'
  BY <1>2 DEF Merge, ResetMissed, Forgiven
<1>3. ASSUME NEW a \in Addr, UpdateDevice(a) PROVE Forgiven'
  BY <1>3 DEF UpdateDevice, Forgiven
<1>4. CASE ProcessMissingDevices
  <2>1. Absentee \subseteq online
    BY DEF Absentee
  <2> QED
    BY <1>4, <2>1 DEF ProcessMissingDevices, Forgiven
<1>5. ASSUME NEW S \in SUBSET row, Remove(S) PROVE Forgiven'
  BY <1>5 DEF Remove, Forgiven
<1>6. CASE Tick
  BY <1>6 DEF Tick, Forgiven
<1> QED
  BY <1>1, <1>2, <1>3, <1>4, <1>5, <1>6 DEF Transaction

\* A device that is seen is online and as good as new.
LEMMA MergeSeen ==
  ASSUME TypeInv, Forgiven, NEW S \in SUBSET Addr, NEW w \in BOOLEAN, Merge(S, w),
         NEW a \in S
  PROVE  a \in online' /\ age'[a] = 0 /\ missed'[a] = 0
BY DEF Merge, ResetMissed, Forgiven, TypeInv, TypeOK, TableOK

\* The others are as before.
LEMMA MergeOthers ==
  ASSUME NEW S \in SUBSET Addr, NEW w \in BOOLEAN, Merge(S, w),
         NEW a \in Addr, a \notin S
  PROVE  /\ (a \in row') = (a \in row) /\ (a \in online') = (a \in online)
         /\ age'[a] = age[a] /\ missed'[a] = missed[a]
BY DEF Merge, ResetMissed

\* A source that merges what it sees, in the sweep (p and q "sweep") or after
LEMMA FoundSource ==
  ASSUME TypeInv, Forgiven, Found, NEW S \in SUBSET Addr, NEW w \in BOOLEAN,
         \/ Merge(S, w) /\ met' = met \cup S
         \/ UNCHANGED <<tableVars, met>>,
         active \subseteq active',
         \/ phase' \in Late /\ phase # "idle"
         \/ /\ phase' \notin Late \cup {"idle"} /\ phase \notin Late \cup {"idle"}
            /\ met' \subseteq active'
  PROVE  Found'
<1>1. CASE Merge(S, w) /\ met' = met \cup S
  <2>1. ASSUME NEW a \in met' \cap row'
        PROVE  a \in online' /\ (phase' \in Late =>
                 a \in active' \/ (age'[a] = 0 /\ missed'[a] = 0))
    <3>1. a \in Addr
      BY <1>1, <2>1 DEF TypeInv, TypeOK, JobOK
    <3>2. CASE a \in S
      BY <1>1, <3>2, MergeSeen
    <3>3. CASE a \notin S
      <4>1. /\ (a \in row') = (a \in row) /\ (a \in online') = (a \in online)
            /\ age'[a] = age[a] /\ missed'[a] = missed[a]
        BY <1>1, <3>1, <3>3, MergeOthers
      <4>2. a \in met \cap row
        BY <1>1, <2>1, <3>3, <4>1
      <4> QED
        BY <4>1, <4>2 DEF Found
    <3> QED
      BY <3>2, <3>3
  <2> QED
    BY <2>1 DEF Found
<1>2. CASE UNCHANGED <<tableVars, met>>
  BY <1>2 DEF Found, tableVars
<1> QED
  BY <1>1, <1>2

\* An address that is known to be met stays known.
LEMMA FoundStep ==
  ASSUME "dhcp" \notin Sources, TypeInv, Forgiven, Found, [Next]_vars
  PROVE  Found'
<1> USE DEF TypeInv, TypeOK, TableOK, JobOK
<1>1. CASE StartJob
  BY <1>1 DEF StartJob, Found
<1>2. CASE SweepDone \/ DeepEnd \/ JobAbort
  BY <1>2 DEF SweepDone, DeepEnd, JobAbort, Goto, Late, tableVars, Found
<1>3. ASSUME NEW p \in Source, Skip(p) PROVE Found'
  BY <1>3 DEF Skip, Goto, After, Late, tableVars, Found
<1>4. ASSUME NEW n \in Net, SweepNetwork(n) PROVE Found'
  <2>1. CASE UNCHANGED <<tableVars, active, met, swept>>
    BY <1>4, <2>1 DEF SweepNetwork, tableVars, Found
  <2>2. ASSUME NEW S \in SUBSET {b \in up : NetOf[b] = n}, Merge(S, FALSE),
               active' = active \cup S, met' = met \cup S
        PROVE  Found'
    <3>1. S \in SUBSET Addr
      OBVIOUS
    <3>2. phase' \notin Late \cup {"idle"} /\ phase \notin Late \cup {"idle"}
      BY <1>4 DEF SweepNetwork, Late
    <3>3. met' \subseteq active'
      BY <2>2, <3>2 DEF Found
    <3> QED
      BY <2>2, <3>1, <3>2, <3>3, FoundSource
  <2> QED
    BY <1>4, <2>1, <2>2 DEF SweepNetwork
<1>5. ASSUME NEW b \in Addr, scanPortHost(b) PROVE Found'
  BY <1>5 DEF scanPortHost, UpdateDevice, jobVars, Late, Found
<1>6. CASE DiscoverIPv6
  <2>1. PICK S \in SUBSET up, A \in SUBSET Addr :
          Merge(S, FALSE) /\ active' = active \cup A /\ met' = met \cup S
    BY <1>6 DEF DiscoverIPv6
  <2>2. S \in SUBSET Addr /\ phase' \in Late /\ phase # "idle"
    BY <1>6 DEF DiscoverIPv6, Goto, Late
  <2> QED
    BY <2>1, <2>2, FoundSource
<1>7. CASE DiscoverMDNS
  <2>1. PICK S \in SUBSET up :
          Merge(S, FALSE) /\ active' = active \cup S /\ met' = met \cup S
    BY <1>7 DEF DiscoverMDNS
  <2>2. S \in SUBSET Addr /\ phase' \in Late /\ phase # "idle"
    BY <1>7 DEF DiscoverMDNS, Goto, Late
  <2> QED
    BY <2>1, <2>2, FoundSource
<1>8. CASE OPNsenseARP
  <2>1. PICK S \in SUBSET Addr :
          /\ active' = active \cup S
          /\ \/ Merge(S, FALSE) /\ met' = met \cup S
             \/ UNCHANGED <<tableVars, met>>
    BY <1>8 DEF OPNsenseARP
  <2>2. phase' \in Late /\ phase # "idle"
    BY <1>8 DEF OPNsenseARP, Goto, Late
  <2> QED
    BY <2>1, <2>2, FoundSource
<1>9. CASE UniFi
  <2>1. PICK S \in SUBSET up :
          /\ active' = active \cup S
          /\ \/ Merge(S, TRUE) /\ met' = met \cup S
             \/ UNCHANGED <<tableVars, met>>
    BY <1>9 DEF UniFi
  <2>2. S \in SUBSET Addr /\ phase' \in Late /\ phase # "idle"
    BY <1>9 DEF UniFi, Goto, Late
  <2> QED
    BY <2>1, <2>2, FoundSource
<1>10. CASE JobEnd
  <2>1. CASE ProcessMissingDevices
    <3>1. ASSUME NEW a \in met \cap row PROVE a \notin Expired
      <4>1. a \in active \/ (age[a] = 0 /\ missed[a] = 0)
        BY <1>10 DEF JobEnd, Found, Late
      <4> QED
        BY <4>1 DEF Expired, Absentee
    <3> QED
      BY <1>10, <2>1, <3>1 DEF JobEnd, ProcessMissingDevices, Goto, Found, Late
  <2>2. CASE UNCHANGED tableVars
    BY <1>10, <2>2 DEF JobEnd, tableVars, Goto, Found, Late
  <2> QED
    BY <1>10, <2>1, <2>2 DEF JobEnd
<1>11. CASE handleScan
  <2>1. PICK n \in Net : \E S \in SUBSET {b \in up : NetOf[b] = n} : Merge(S, FALSE)
    BY <1>11 DEF handleScan
  <2>2. PICK S \in SUBSET {b \in up : NetOf[b] = n} : Merge(S, FALSE)
    BY <2>1
  <2>3. ASSUME NEW a \in met \cap row'
        PROVE  a \in online' /\ (phase \in Late =>
                 a \in active \/ (age'[a] = 0 /\ missed'[a] = 0))
    <3>1. CASE a \in S
      BY <2>2, <3>1, MergeSeen
    <3>2. CASE a \notin S
      <4>1. /\ (a \in row') = (a \in row) /\ (a \in online') = (a \in online)
            /\ age'[a] = age[a] /\ missed'[a] = missed[a]
        BY <2>2, <3>2, MergeOthers
      <4> QED
        BY <2>3, <4>1 DEF Found
    <3> QED
      BY <3>1, <3>2
  <2> QED
    BY <1>11, <2>3 DEF handleScan, jobVars, Found
<1>12. CASE Delete
  BY <1>12 DEF Delete, Remove, jobVars, Found
<1>13. CASE PruneOldHistory
  BY <1>13 DEF PruneOldHistory, Remove, jobVars, Found
<1>14. CASE ComeAndGo \/ UNCHANGED vars
  BY <1>14 DEF ComeAndGo, vars, tableVars, jobVars, Found
<1>15. CASE Tick
  BY <1>15 DEF Tick, jobVars, Late, Found
<1> QED
  BY <1>1, <1>2, <1>3, <1>4, <1>5, <1>6, <1>7, <1>8, <1>9, <1>10, <1>11, <1>12,
     <1>13, <1>14, <1>15 DEF Next, JobStep, RouterDHCP

\* Without router DHCP, what a job has found is online for as long as the job
\* lasts: no later source and not its own ProcessMissingDevices undoes it.
THEOREM MetStaysOnline == "dhcp" \notin Sources /\ Spec => []MetIsOnline
<1> SUFFICES ASSUME "dhcp" \notin Sources PROVE Spec => []MetIsOnline
  OBVIOUS
<1> DEFINE IInv == TypeInv /\ Probing /\ Forgiven /\ Found
<1>1. Init => IInv
  BY DEF Init, TypeInv, TypeOK, TableOK, JobOK, Counted, Event, Phase, Probing,
         Forgiven, Found, Late
<1>2. IInv /\ [Next]_vars => IInv'
  BY TypeStep, ProbingStep, OneTransaction, ForgivenStep, FoundStep
<1>3. IInv => MetIsOnline
  BY DEF Found, MetIsOnline
<1> QED
  BY <1>1, <1>2, <1>3, PTL DEF Spec
=============================================================================
