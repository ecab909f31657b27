-------------------------- MODULE DeepQueueProofs --------------------------
(***************************************************************************)
(* Proofs about DeepQueue for any hosts, networks and gateways: the type   *)
(* invariant, the honesty of the recorded status, the arithmetic of the    *)
(* progress, and that the queue implements HostPool.                       *)
(***************************************************************************)
EXTENDS DeepQueue, FiniteSetTheorems, TLAPS

-----------------------------------------------------------------------------
(* The inductive invariant. *)

\* The gateway of a network is in it
Current(n) == gw[GwOf[n]].net = n

\* Where a gateway stands says what it holds
GatewayShape(g) ==
  /\ gw[g].at \in {"produce", "send", "wait"} =>
       gw[g].net \in Net /\ GwOf[gw[g].net] = g
  /\ gw[g].at \in {"next", "end"} => gw[g].net = NoNet
  /\ gw[g].at = "send" => gw[g].host \in Targets(gw[g].net)
  /\ gw[g].at # "send" => gw[g].host = NoHost
  /\ gw[g].at = "end" /\ ~cancelled => todo[g] = {}
  /\ \A n \in todo[g] : GwOf[n] = g

\* A network is waiting, current or left behind, and its workers agree
NetworkStage(n) ==
  /\ n \in todo[GwOf[n]] =>
       /\ ~Current(n) /\ n \notin closed
       /\ \A w \in Worker : work[n][w].at = "off"
  /\ Current(n) => /\ n \in closed <=> gw[GwOf[n]].at = "wait"
                   /\ \A w \in Worker : work[n][w].at # "off"
  /\ ~Current(n) => \A w \in Worker : work[n][w].at \in {"off", "gone"}
  /\ \/ Current(n) \/ n \in todo[GwOf[n]] \/ n \in closed \/ Targets(n) = {}
  /\ n \in closed /\ ~cancelled => unsent[n] = {}
  /\ history[n] # "none" =>
       n \in closed /\ ~Current(n) /\ \A w \in Worker : work[n][w].at = "gone"

\* A worker holds a host of its network exactly while it works on it; the
\* one it may keep is that of a check that met the cancellation
WorkerShape(n, w) ==
  /\ work[n][w].at \in {"check", "probe", "tally"} => work[n][w].host # NoHost
  /\ work[n][w].at \in {"off", "receive"} => work[n][w].host = NoHost
  /\ work[n][w].host # NoHost => work[n][w].host \in Targets(n)
  /\ work[n][w].at = "gone" =>
       /\ n \in closed \/ cancelled
       /\ work[n][w].host = NoHost \/ cancelled

Tallied == succeeded \cup failed

\* A host is in one place: not yet sent, held out by the gateway, with one
\* worker, or tallied one way
OnePlace ==
  /\ succeeded \cap failed = {}
  /\ \A n \in Net : unsent[n] \subseteq Targets(n) \ Tallied
  /\ \A g \in Gateway : gw[g].host # NoHost =>
       gw[g].host \notin unsent[NetOf[gw[g].host]] \cup Tallied
  /\ \A n \in Net, w \in Worker : work[n][w].host # NoHost =>
       /\ work[n][w].host \notin unsent[n] \cup Tallied
       /\ work[n][w].host # gw[GwOf[n]].host
       /\ \A v \in Worker : work[n][v].host = work[n][w].host => v = w

\* As long as nobody cancels, no host is lost
NoneLost ==
  ~cancelled =>
    \A h \in Host :
      \/ h \in unsent[NetOf[h]] \cup Tallied
      \/ gw[GwOf[NetOf[h]]].host = h
      \/ \E w \in Worker : work[NetOf[h]][w].host = h

\* The hosts the counters stand for
Probing(n) ==
  {h \in Targets(n) : \E w \in Worker : work[n][w].at = "probe" /\ work[n][w].host = h}
Counted(n) ==
  {h \in Targets(n) : \/ h \in Tallied
                      \/ \E w \in Worker : work[n][w].at = "tally" /\ work[n][w].host = h}

Counters ==
  \A n \in Net : /\ active[n] = Cardinality(Probing(n))
                 /\ complete[n] = Cardinality(Counted(n))

IInv ==
  /\ TypeOK
  /\ \A g \in Gateway : GatewayShape(g)
  /\ \A n \in Net : NetworkStage(n)
  /\ \A n \in Net, w \in Worker : WorkerShape(n, w)
  /\ OnePlace
  /\ NoneLost
  /\ Counters
  /\ HonestHistory

-----------------------------------------------------------------------------
(* What the steps do to one goroutine. *)

GwState == [at : {"next", "produce", "send", "wait", "end"},
            net : Net \cup {NoNet}, host : Host \cup {NoHost}]
WorkerState == [at : {"off", "receive", "check", "probe", "tally", "gone"},
                host : Host \cup {NoHost}, err : BOOLEAN]

\* A step of one gateway leaves the others where they are.
LEMMA GwMove ==
  ASSUME TypeOK, NEW g \in Gateway, NEW r \in GwState, gw' = [gw EXCEPT ![g] = r]
  PROVE  /\ gw' \in [Gateway -> GwState]
         /\ gw'[g] = r
         /\ \A f \in Gateway \ {g} : gw'[f] = gw[f]
BY DEF TypeOK, GwState

\* A step of one worker leaves the others where they are.
LEMMA WorkMove ==
  ASSUME TypeOK, NEW n \in Net, NEW w \in Worker, NEW r \in WorkerState,
         work' = [work EXCEPT ![n][w] = r]
  PROVE  /\ work' \in [Net -> [Worker -> WorkerState]]
         /\ work'[n][w] = r
         /\ \A m \in Net, v \in Worker : m # n \/ v # w => work'[m][v] = work[m][v]
PROOF
  <1>1. work \in [Net -> [Worker -> WorkerState]]
    BY DEF TypeOK, WorkerState
  <1>2. [work[n] EXCEPT ![w] = r] \in [Worker -> WorkerState]
    BY <1>1
  <1> QED
    BY <1>1, <1>2

\* Sending a gateway elsewhere does not touch what it holds.
LEMMA GwGoto ==
  ASSUME TypeOK, NEW g \in Gateway, NEW p \in {"next", "produce", "send", "wait", "end"},
         gw' = [gw EXCEPT ![g].at = p]
  PROVE  /\ gw' \in [Gateway -> GwState]
         /\ gw'[g].at = p /\ gw'[g].net = gw[g].net /\ gw'[g].host = gw[g].host
         /\ \A f \in Gateway \ {g} : gw'[f] = gw[f]
BY DEF TypeOK, GwState

\* Taking or giving away a host does not move a gateway to another network.
LEMMA GwHold ==
  ASSUME TypeOK, NEW g \in Gateway, NEW p \in {"produce", "send"},
         NEW h \in Host \cup {NoHost},
         gw' = [gw EXCEPT ![g].at = p, ![g].host = h]
  PROVE  /\ gw' \in [Gateway -> GwState]
         /\ gw'[g].at = p /\ gw'[g].net = gw[g].net /\ gw'[g].host = h
         /\ \A f \in Gateway \ {g} : gw'[f] = gw[f]
PROOF
  <1> DEFINE a == [gw EXCEPT ![g].at = p]
  <1>1. gw \in [Gateway -> GwState]
    BY DEF TypeOK, GwState
  <1>2. /\ a \in [Gateway -> GwState]
        /\ a[g].at = p /\ a[g].net = gw[g].net /\ a[g].host = gw[g].host
        /\ \A f \in Gateway \ {g} : a[f] = gw[f]
    BY <1>1 DEF GwState
  <1>3. gw' = [a EXCEPT ![g].host = h]
    OBVIOUS
  <1> HIDE DEF a
  <1>4. a[g] \in GwState
    BY <1>2
  <1> DEFINE s == [a[g] EXCEPT !.host = h]
  <1>5. s \in GwState /\ s.at = a[g].at /\ s.net = a[g].net /\ s.host = h
    BY <1>4 DEF GwState
  <1>6. gw' = [a EXCEPT ![g] = s]
    BY <1>3
  <1> HIDE DEF s
  <1> QED
    BY <1>2, <1>5, <1>6

\* Sending a worker elsewhere does not touch what it holds.
LEMMA WorkGoto ==
  ASSUME TypeOK, NEW n \in Net, NEW w \in Worker,
         NEW p \in {"off", "receive", "check", "probe", "tally", "gone"},
         WorkerGoto(n, w, p)
  PROVE  /\ work' \in [Net -> [Worker -> WorkerState]]
         /\ work'[n][w].at = p /\ work'[n][w].host = work[n][w].host
         /\ \A m \in Net, v \in Worker : m # n \/ v # w => work'[m][v] = work[m][v]
PROOF
  <1> DEFINE r == [work[n][w] EXCEPT !.at = p]
  <1>1. work[n][w] \in WorkerState
    BY DEF TypeOK, WorkerState
  <1>2. r \in WorkerState /\ r.at = p /\ r.host = work[n][w].host
    BY <1>1 DEF WorkerState
  <1>3. work' = [work EXCEPT ![n][w] = r]
    BY DEF WorkerGoto
  <1> HIDE DEF r
  <1> QED
    BY <1>2, <1>3, WorkMove

\* What HandOver does to the worker
WorkerTakes(n, w, h) ==
  work' = [work EXCEPT ![n][w] = [@ EXCEPT !.at = "check", !.host = h]]

\* Receiving a host changes one worker.
LEMMA WorkTake ==
  ASSUME TypeOK, NEW n \in Net, NEW w \in Worker, NEW h \in Host, WorkerTakes(n, w, h)
  PROVE  /\ work' \in [Net -> [Worker -> WorkerState]]
         /\ work'[n][w].at = "check" /\ work'[n][w].host = h
         /\ \A m \in Net, v \in Worker : m # n \/ v # w => work'[m][v] = work[m][v]
PROOF
  <1> DEFINE r == [work[n][w] EXCEPT !.at = "check", !.host = h]
  <1>1. work[n][w] \in WorkerState
    BY DEF TypeOK, WorkerState
  <1>2. r \in WorkerState /\ r.at = "check" /\ r.host = h
    BY <1>1 DEF WorkerState
  <1>3. work' = [work EXCEPT ![n][w] = r]
    BY DEF WorkerTakes
  <1> HIDE DEF r
  <1> QED
    BY <1>2, <1>3, WorkMove

\* The end of a probe changes one worker, whatever the result.
LEMMA ProbeEnds ==
  ASSUME TypeOK, NEW n \in Net, NEW w \in Worker, scanPortHost(n, w)
  PROVE  /\ work' \in [Net -> [Worker -> WorkerState]]
         /\ work'[n][w].at = "tally" /\ work'[n][w].host = work[n][w].host
         /\ \A m \in Net, v \in Worker : m # n \/ v # w => work'[m][v] = work[m][v]
PROOF
  <1> DEFINE r(err) == [work[n][w] EXCEPT !.at = "tally", !.err = err]
  <1>1. work[n][w] \in WorkerState
    BY DEF TypeOK, WorkerState
  <1>2. ASSUME NEW err \in BOOLEAN
        PROVE  r(err) \in WorkerState /\ r(err).at = "tally" /\ r(err).host = work[n][w].host
    BY <1>1 DEF WorkerState
  <1>3. PICK err \in BOOLEAN : work' = [work EXCEPT ![n][w] = r(err)]
    BY DEF scanPortHost
  <1> HIDE DEF r
  <1> QED
    BY <1>2, <1>3, WorkMove

\* Where nobody's host changes, the hosts stay in one place and none is lost.
LEMMA HostsKept ==
  ASSUME TypeOK, OnePlace, NoneLost, UNCHANGED <<unsent, succeeded, failed>>,
         cancelled => cancelled',
         \A g \in Gateway : gw'[g].host = gw[g].host,
         \A n \in Net, w \in Worker : work'[n][w].host = work[n][w].host
  PROVE  OnePlace' /\ NoneLost'
PROOF
  <1> USE DeepQueueAssumption
  <1>1. \A n \in Net : GwOf[n] \in Gateway
    OBVIOUS
  <1>2. Tallied' = Tallied
    BY DEF Tallied
  <1>3. OnePlace'
    BY <1>1, <1>2 DEF OnePlace, Targets
  <1>4. NoneLost'
    BY <1>1, <1>2 DEF NoneLost
  <1> QED
    BY <1>3, <1>4

\* A network on which nobody starts or finishes a host keeps its counters.
LEMMA CountersKept ==
  ASSUME Counters, UNCHANGED <<active, complete, succeeded, failed>>,
         \A n \in Net, w \in Worker :
           /\ work'[n][w].host = work[n][w].host
           /\ work'[n][w].at = "probe" <=> work[n][w].at = "probe"
           /\ work'[n][w].at = "tally" <=> work[n][w].at = "tally"
  PROVE  Counters'
PROOF
  <1>1. ASSUME NEW n \in Net
        PROVE  Probing(n)' = Probing(n) /\ Counted(n)' = Counted(n)
    BY DEF Probing, Counted, Tallied, Targets
  <1> QED
    BY <1>1 DEF Counters

\* A network neither its gateway nor its workers move in keeps its stage.
LEMMA StageKept ==
  ASSUME NEW n \in Net, NetworkStage(n), cancelled => cancelled',
         n \in todo'[GwOf[n]] <=> n \in todo[GwOf[n]],
         n \in closed' <=> n \in closed,
         unsent'[n] = unsent[n] \/ unsent'[n] = {},
         history'[n] = history[n],
         gw'[GwOf[n]].net = n <=> Current(n),
         Current(n) => (gw'[GwOf[n]].at = "wait" <=> gw[GwOf[n]].at = "wait"),
         \A w \in Worker : work'[n][w].at = work[n][w].at
  PROVE  NetworkStage(n)'
BY DEF NetworkStage, Current, Targets

\* What was recorded stays true while hosts are only added to the tallies.
LEMMA HistoryKept ==
  ASSUME HonestHistory, history' = history,
         succeeded \subseteq succeeded', failed \subseteq failed',
         \A n \in Net, w \in Worker : work[n][w].at = "gone" => work'[n][w].at = "gone"
  PROVE  HonestHistory'
BY DEF HonestHistory, Targets

\* The network a gateway is in is its own, and it is in no other.
LEMMA CurrentIsIts ==
  ASSUME TypeOK, NEW g \in Gateway, GatewayShape(g), gw[g].at \in {"produce", "send", "wait"}
  PROVE  /\ gw[g].net \in Net
         /\ GwOf[gw[g].net] = g
         /\ Current(gw[g].net)
         /\ \A n \in Net : n # gw[g].net /\ Current(n) => GwOf[n] # g
BY DEF GatewayShape, Current

-----------------------------------------------------------------------------
(* Steps of a gateway. *)

\* Reaching the end, or the next network, keeps the invariant.
LEMMA NextSubnetInv ==
  ASSUME IInv, NEW g \in Gateway, NextSubnet(g)
  PROVE  IInv'
PROOF
  <1> USE DeepQueueAssumption
  <1>0. /\ TypeOK /\ OnePlace /\ NoneLost /\ Counters /\ HonestHistory
        /\ \A f \in Gateway : GatewayShape(f)
        /\ \A m \in Net : NetworkStage(m)
        /\ \A m \in Net, v \in Worker : WorkerShape(m, v)
    BY DEF IInv
  <1>1. gw[g].net = NoNet /\ gw[g].host = NoHost /\ gw[g].at = "next"
    BY <1>0 DEF NextSubnet, GatewayShape
  <1>2. UNCHANGED <<cancelled, unsent, closed, succeeded, failed,
                    active, complete, history>>
    BY DEF NextSubnet
  <1>3. CASE /\ cancelled \/ todo[g] = {}
             /\ gw' = [gw EXCEPT ![g].at = "end"]
             /\ UNCHANGED <<todo, work>>
    <2>1. /\ gw' \in [Gateway -> GwState]
          /\ gw'[g].at = "end" /\ gw'[g].net = NoNet /\ gw'[g].host = NoHost
          /\ \A f \in Gateway \ {g} : gw'[f] = gw[f]
      BY <1>0, <1>1, <1>3, GwGoto
    <2>2. TypeOK'
      BY <1>0, <1>2, <1>3, <2>1 DEF TypeOK, GwState
    <2>3. ASSUME NEW f \in Gateway PROVE GatewayShape(f)'
      BY <1>0, <1>2, <1>3, <2>1 DEF GatewayShape, Targets
    <2>4. ASSUME NEW m \in Net PROVE NetworkStage(m)'
      <3>1. /\ GwOf[m] \in Gateway
            /\ gw'[GwOf[m]].net = m <=> Current(m)
            /\ Current(m) => gw'[GwOf[m]].at = gw[GwOf[m]].at
        BY <1>1, <2>1 DEF Current
      <3> QED
        BY <1>0, <1>2, <1>3, <3>1, StageKept
    <2>5. ASSUME NEW m \in Net, NEW v \in Worker PROVE WorkerShape(m, v)'
      BY <1>0, <1>2, <1>3 DEF WorkerShape, Targets
    <2>6. OnePlace' /\ NoneLost'
      BY <1>0, <1>1, <1>2, <1>3, <2>1, HostsKept
    <2>7. Counters' /\ HonestHistory'
      BY <1>0, <1>2, <1>3, CountersKept, HistoryKept
    <2> QED
      BY <2>2, <2>3, <2>4, <2>5, <2>6, <2>7 DEF IInv
  <1>4. ASSUME ~cancelled, NEW n \in todo[g],
               todo' = [todo EXCEPT ![g] = @ \ {n}],
               gw' = [gw EXCEPT ![g] = [at |-> "produce", net |-> n, host |-> NoHost]],
               work' = [work EXCEPT ![n] = [w \in Worker |-> [Nobody EXCEPT !.at = "receive"]]]
        PROVE  IInv'
    <2>1. n \in Net /\ GwOf[n] = g
      BY <1>0 DEF TypeOK, GatewayShape
    <2>2. [at |-> "produce", net |-> n, host |-> NoHost] \in GwState
      BY <2>1 DEF GwState
    <2>3. /\ gw' \in [Gateway -> GwState]
          /\ gw'[g].at = "produce" /\ gw'[g].net = n /\ gw'[g].host = NoHost
          /\ \A f \in Gateway \ {g} : gw'[f] = gw[f]
      BY <1>0, <1>4, <2>2, GwMove
    <2>4. /\ [Nobody EXCEPT !.at = "receive"] \in WorkerState
          /\ [Nobody EXCEPT !.at = "receive"].at = "receive"
          /\ [Nobody EXCEPT !.at = "receive"].host = NoHost
      BY DEF Nobody, WorkerState
    <2>5. /\ work' \in [Net -> [Worker -> WorkerState]]
          /\ \A w \in Worker : work'[n][w].at = "receive" /\ work'[n][w].host = NoHost
          /\ \A m \in Net \ {n} : work'[m] = work[m]
      BY <1>0, <1>4, <2>1, <2>4 DEF TypeOK, WorkerState
    <2>6. /\ todo' \in [Gateway -> SUBSET Net]
          /\ todo'[g] = todo[g] \ {n}
          /\ \A f \in Gateway \ {g} : todo'[f] = todo[f]
      BY <1>0, <1>4 DEF TypeOK
    <2>7. /\ n \notin closed /\ ~Current(n) /\ history[n] = "none"
          /\ \A w \in Worker : work[n][w].at = "off" /\ work[n][w].host = NoHost
      BY <1>0, <2>1 DEF NetworkStage, WorkerShape
    <2>8. \A m \in Net, w \in Worker :
            /\ work'[m][w].host = work[m][w].host
            /\ work'[m][w].at = "probe" <=> work[m][w].at = "probe"
            /\ work'[m][w].at = "tally" <=> work[m][w].at = "tally"
            /\ work[m][w].at = "gone" => work'[m][w].at = "gone"
      BY <2>5, <2>7
    <2>9. \A f \in Gateway : gw'[f].host = gw[f].host
      BY <1>1, <2>3
    <2>10. TypeOK'
      BY <1>0, <1>2, <2>3, <2>5, <2>6 DEF TypeOK, GwState, WorkerState
    <2>11. ASSUME NEW f \in Gateway PROVE GatewayShape(f)'
      BY <1>0, <1>2, <1>4, <2>1, <2>3, <2>6 DEF GatewayShape, Targets
    <2>12. ASSUME NEW m \in Net PROVE NetworkStage(m)'
      <3>1. CASE m = n
        BY <1>0, <1>2, <2>1, <2>3, <2>5, <2>6, <2>7, <3>1 DEF NetworkStage, Current
      <3>2. CASE m # n
        <4>1. /\ GwOf[m] \in Gateway
              /\ m \in todo'[GwOf[m]] <=> m \in todo[GwOf[m]]
              /\ \A w \in Worker : work'[m][w].at = work[m][w].at
          BY <2>5, <2>6, <3>2
        <4>2. /\ gw'[GwOf[m]].net = m <=> Current(m)
              /\ Current(m) => gw'[GwOf[m]].at = gw[GwOf[m]].at
          BY <1>1, <2>3, <3>2, <4>1 DEF Current
        <4> QED
          BY <1>0, <1>2, <4>1, <4>2, StageKept
      <3> QED
        BY <3>1, <3>2
    <2>13. ASSUME NEW m \in Net, NEW v \in Worker PROVE WorkerShape(m, v)'
      BY <1>0, <1>2, <2>5 DEF WorkerShape, Targets
    <2>14. OnePlace' /\ NoneLost'
      BY <1>0, <1>2, <2>8, <2>9, HostsKept
    <2>15. Counters' /\ HonestHistory'
      BY <1>0, <1>2, <2>8, CountersKept, HistoryKept
    <2> QED
      BY <2>10, <2>11, <2>12, <2>13, <2>14, <2>15 DEF IInv
  <1> QED
    BY <1>3, <1>4 DEF NextSubnet

\* Closing the channel, or holding out a host, keeps the invariant.
LEMMA ProduceInv ==
  ASSUME IInv, NEW g \in Gateway, Produce(g)
  PROVE  IInv'
PROOF
  <1> USE DeepQueueAssumption
  <1>0. /\ TypeOK /\ OnePlace /\ NoneLost /\ Counters /\ HonestHistory
        /\ \A f \in Gateway : GatewayShape(f)
        /\ \A m \in Net : NetworkStage(m)
        /\ \A m \in Net, v \in Worker : WorkerShape(m, v)
    BY DEF IInv
  <1> DEFINE n == gw[g].net
  <1>1. gw[g].at = "produce" /\ gw[g].host = NoHost
    BY <1>0 DEF Produce, GatewayShape
  <1>2. /\ n \in Net /\ GwOf[n] = g /\ Current(n) /\ n \notin closed
        /\ \A m \in Net : m # n /\ Current(m) => GwOf[m] # g
        /\ n \notin todo[g] /\ history[n] = "none"
    BY <1>0, <1>1, CurrentIsIts DEF NetworkStage
  <1>3. UNCHANGED <<cancelled, todo, work, succeeded, failed, active, complete, history>>
    BY DEF Produce
  <1> HIDE DEF n
  <1>4. CASE /\ cancelled \/ unsent[n] = {}
             /\ gw' = [gw EXCEPT ![g].at = "wait"]
             /\ closed' = closed \cup {n}
             /\ UNCHANGED unsent
    <2>1. /\ gw' \in [Gateway -> GwState]
          /\ gw'[g].at = "wait" /\ gw'[g].net = n /\ gw'[g].host = NoHost
          /\ \A f \in Gateway \ {g} : gw'[f] = gw[f]
      BY <1>0, <1>1, <1>4, GwGoto DEF n
    <2>2. TypeOK'
      BY <1>0, <1>2, <1>3, <1>4, <2>1 DEF TypeOK, GwState
    <2>3. ASSUME NEW f \in Gateway PROVE GatewayShape(f)'
      BY <1>0, <1>2, <1>3, <2>1 DEF GatewayShape, Targets
    <2>4. ASSUME NEW m \in Net PROVE NetworkStage(m)'
      <3>1. /\ GwOf[m] \in Gateway
            /\ gw'[GwOf[m]].net = m <=> Current(m)
        BY <2>1 DEF Current, n
      <3>2. CASE m = n
        BY <1>0, <1>2, <1>3, <1>4, <2>1, <3>2 DEF NetworkStage, Current
      <3>3. CASE m # n
        <4>1. Current(m) => gw'[GwOf[m]].at = gw[GwOf[m]].at
          BY <1>2, <2>1, <3>1, <3>3
        <4>2. m \in closed' <=> m \in closed
          BY <1>4, <3>3
        <4> QED
          BY <1>0, <1>3, <1>4, <3>1, <4>1, <4>2, StageKept
      <3> QED
        BY <3>2, <3>3
    <2>5. ASSUME NEW m \in Net, NEW v \in Worker PROVE WorkerShape(m, v)'
      BY <1>0, <1>3, <1>4 DEF WorkerShape, Targets
    <2>6. OnePlace' /\ NoneLost'
      BY <1>0, <1>1, <1>3, <1>4, <2>1, HostsKept
    <2>7. Counters' /\ HonestHistory'
      BY <1>0, <1>3, CountersKept, HistoryKept
    <2> QED
      BY <2>2, <2>3, <2>4, <2>5, <2>6, <2>7 DEF IInv
  <1>5. ASSUME ~cancelled, NEW h \in unsent[n],
               gw' = [gw EXCEPT ![g].at = "send", ![g].host = h],
               unsent' = [unsent EXCEPT ![n] = @ \ {h}],
               closed' = closed
        PROVE  IInv'
    <2>1. h \in Targets(n) /\ h \in Host /\ NetOf[h] = n /\ h \notin Tallied /\ h # NoHost
      BY <1>0, <1>2, <1>5 DEF OnePlace, Targets
    <2>2. /\ gw' \in [Gateway -> GwState]
          /\ gw'[g].at = "send" /\ gw'[g].net = n /\ gw'[g].host = h
          /\ \A f \in Gateway \ {g} : gw'[f] = gw[f]
      BY <1>0, <1>5, <2>1, GwHold DEF n
    <2>3. /\ unsent' \in [Net -> SUBSET Host]
          /\ unsent'[n] = unsent[n] \ {h}
          /\ \A m \in Net \ {n} : unsent'[m] = unsent[m]
      BY <1>0, <1>2, <1>5 DEF TypeOK
    <2>4. TypeOK'
      BY <1>0, <1>3, <1>5, <2>2, <2>3 DEF TypeOK, GwState
    <2>5. ASSUME NEW f \in Gateway PROVE GatewayShape(f)'
      BY <1>0, <1>2, <1>3, <2>1, <2>2 DEF GatewayShape, Targets
    <2>6. ASSUME NEW m \in Net PROVE NetworkStage(m)'
      <3>1. /\ GwOf[m] \in Gateway
            /\ gw'[GwOf[m]].net = m <=> Current(m)
        BY <2>2 DEF Current, n
      <3>2. CASE m = n
        BY <1>0, <1>1, <1>2, <1>3, <1>5, <2>2, <3>2 DEF NetworkStage, Current
      <3>3. CASE m # n
        <4>1. Current(m) => gw'[GwOf[m]].at = gw[GwOf[m]].at
          BY <1>2, <2>2, <3>1, <3>3
        <4> QED
          BY <1>0, <1>3, <1>5, <2>3, <3>1, <3>3, <4>1, StageKept
      <3> QED
        BY <3>2, <3>3
    <2>7. ASSUME NEW m \in Net, NEW v \in Worker PROVE WorkerShape(m, v)'
      BY <1>0, <1>3, <1>5 DEF WorkerShape, Targets
    <2>8. OnePlace'
      <3>1. Tallied' = Tallied /\ \A m \in Net : unsent'[m] \subseteq unsent[m]
        BY <1>3, <2>3 DEF Tallied
      <3>2. ASSUME NEW f \in Gateway, gw'[f].host # NoHost
            PROVE  gw'[f].host \notin unsent'[NetOf[gw'[f].host]] \cup Tallied
        <4>1. CASE f = g
          BY <2>1, <2>2, <2>3, <4>1
        <4>2. CASE f # g
          <5>1. gw'[f] = gw[f] /\ gw[f].host \in Host
            BY <1>0, <2>2, <3>2, <4>2 DEF TypeOK
          <5> QED
            BY <1>0, <3>1, <3>2, <5>1 DEF OnePlace
        <4> QED
          BY <4>1, <4>2
      <3>3. ASSUME NEW m \in Net, NEW w \in Worker, work[m][w].host # NoHost
            PROVE  work[m][w].host # gw'[GwOf[m]].host
        <4>1. CASE GwOf[m] = g
          <5>1. work[m][w].host \in Targets(m) /\ work[m][w].host \notin unsent[m]
            BY <1>0, <3>3 DEF WorkerShape, OnePlace
          <5> QED
            BY <1>5, <2>1, <2>2, <4>1, <5>1 DEF Targets
        <4>2. CASE GwOf[m] # g
          BY <1>0, <2>2, <3>3, <4>2 DEF OnePlace
        <4> QED
          BY <4>1, <4>2
      <3> QED
        BY <1>0, <1>3, <3>1, <3>2, <3>3 DEF OnePlace, Targets
    <2>9. NoneLost'
      <3> SUFFICES ASSUME NEW k \in Host
                   PROVE  \/ k \in unsent'[NetOf[k]] \cup Tallied
                          \/ gw'[GwOf[NetOf[k]]].host = k
                          \/ \E w \in Worker : work[NetOf[k]][w].host = k
        BY <1>3 DEF NoneLost, Tallied
      <3>1. \/ k \in unsent[NetOf[k]] \cup Tallied
            \/ gw[GwOf[NetOf[k]]].host = k
            \/ \E w \in Worker : work[NetOf[k]][w].host = k
        BY <1>0, <1>5 DEF NoneLost
      <3>2. NetOf[k] \in Net /\ GwOf[NetOf[k]] \in Gateway /\ k # NoHost
        OBVIOUS
      <3> QED
        BY <1>1, <1>2, <2>1, <2>2, <2>3, <3>1, <3>2
    <2>10. Counters' /\ HonestHistory'
      BY <1>0, <1>3, CountersKept, HistoryKept
    <2> QED
      BY <2>4, <2>5, <2>6, <2>7, <2>8, <2>9, <2>10 DEF IInv
  <1> QED
    BY <1>4, <1>5 DEF Produce, n

\* Handing a host over keeps the invariant: the host goes from the gateway to
\* one worker.
LEMMA HandOverInv ==
  ASSUME IInv, NEW g \in Gateway, NEW w \in Worker, HandOver(g, w)
  PROVE  IInv'
PROOF
  <1> USE DeepQueueAssumption
  <1>0. /\ TypeOK /\ OnePlace /\ NoneLost /\ Counters /\ HonestHistory
        /\ \A f \in Gateway : GatewayShape(f)
        /\ \A m \in Net : NetworkStage(m)
        /\ \A m \in Net, v \in Worker : WorkerShape(m, v)
    BY DEF IInv
  <1>1. /\ gw[g].at = "send" /\ gw[g].net \in Net /\ GwOf[gw[g].net] = g
        /\ gw[g].host \in Targets(gw[g].net)
    BY <1>0 DEF HandOver, GatewayShape
  <1>2. PICK n \in Net, h \in Host : n = gw[g].net /\ h = gw[g].host
    BY <1>1 DEF Targets
  <1>3. /\ work[n][w].at = "receive"
        /\ WorkerTakes(n, w, h)
        /\ gw' = [gw EXCEPT ![g].at = "produce", ![g].host = NoHost]
        /\ UNCHANGED <<cancelled, todo, unsent, closed, succeeded, failed, active,
                       complete, history>>
    BY <1>2 DEF HandOver, WorkerTakes
  <1>4. h \in Targets(n) /\ NetOf[h] = n /\ h # NoHost
    BY <1>1, <1>2 DEF Targets
  <1>5. /\ GwOf[n] = g /\ Current(n) /\ n \notin closed
        /\ \A m \in Net : m # n /\ Current(m) => GwOf[m] # g
        /\ n \notin todo[g] /\ history[n] = "none" /\ work[n][w].host = NoHost
    BY <1>0, <1>1, <1>2, <1>3, CurrentIsIts DEF NetworkStage, WorkerShape
  <1>7. /\ work' \in [Net -> [Worker -> WorkerState]]
        /\ work'[n][w].at = "check" /\ work'[n][w].host = h
        /\ \A m \in Net, v \in Worker : m # n \/ v # w => work'[m][v] = work[m][v]
    BY <1>0, <1>3, WorkTake
  <1>8. /\ gw' \in [Gateway -> GwState]
        /\ gw'[g].at = "produce" /\ gw'[g].net = n /\ gw'[g].host = NoHost
        /\ \A f \in Gateway \ {g} : gw'[f] = gw[f]
    BY <1>0, <1>2, <1>3, GwHold
  <1>9. TypeOK'
    BY <1>0, <1>3, <1>7, <1>8 DEF TypeOK, GwState, WorkerState
  <1>10. ASSUME NEW f \in Gateway PROVE GatewayShape(f)'
    BY <1>0, <1>3, <1>5, <1>8 DEF GatewayShape, Targets
  <1>11. ASSUME NEW m \in Net PROVE NetworkStage(m)'
    <2>1. /\ GwOf[m] \in Gateway
          /\ gw'[GwOf[m]].net = m <=> Current(m)
      BY <1>8, <1>2 DEF Current
    <2>2. CASE m = n
      <3>1. \A v \in Worker : work'[n][v].at # "off"
        BY <1>0, <1>5, <1>7 DEF NetworkStage
      <3>2. Current(n)' /\ gw'[GwOf[n]].at = "produce"
        BY <1>5, <1>8 DEF Current
      <3> QED
        BY <1>3, <1>5, <2>2, <3>1, <3>2 DEF NetworkStage
    <2>3. CASE m # n
      <3>1. Current(m) => gw'[GwOf[m]].at = gw[GwOf[m]].at
        BY <1>5, <1>8, <2>1, <2>3
      <3> QED
        BY <1>0, <1>3, <1>7, <2>1, <2>3, <3>1, StageKept
    <2> QED
      BY <2>2, <2>3
  <1>12. ASSUME NEW m \in Net, NEW v \in Worker PROVE WorkerShape(m, v)'
    <2>1. CASE m = n /\ v = w
      BY <1>3, <1>4, <1>7, <2>1 DEF WorkerShape, Targets
    <2>2. CASE m # n \/ v # w
      BY <1>0, <1>3, <1>7, <2>2 DEF WorkerShape, Targets
    <2> QED
      BY <2>1, <2>2
  <1>13. Tallied' = Tallied
    BY <1>3 DEF Tallied
  <1>14. OnePlace'
    <2>1. ASSUME NEW f \in Gateway, gw'[f].host # NoHost
          PROVE  gw'[f].host \notin unsent[NetOf[gw'[f].host]] \cup Tallied
      BY <1>0, <1>8, <2>1 DEF OnePlace
    <2>2. ASSUME NEW m \in Net, NEW u \in Worker, work'[m][u].host # NoHost
          PROVE  /\ work'[m][u].host \notin unsent[m] \cup Tallied
                 /\ work'[m][u].host # gw'[GwOf[m]].host
                 /\ \A v \in Worker : work'[m][v].host = work'[m][u].host => v = u
      <3>1. CASE m = n
        <4>1. h \notin unsent[n] \cup Tallied
          BY <1>0, <1>5, <1>4, <1>2 DEF OnePlace
        <4>2. \A v \in Worker : work[n][v].host # h
          BY <1>0, <1>5, <1>4, <1>2 DEF OnePlace
        <4>3. CASE u = w
          BY <1>5, <1>4, <1>7, <1>8, <3>1, <4>1, <4>2, <4>3
        <4>4. CASE u # w
          <5>1. work'[m][u] = work[n][u] /\ work[n][u].host # NoHost
            BY <1>7, <2>2, <3>1, <4>4
          <5>2. \A v \in Worker : work[n][v].host = work[n][u].host => v = u
            BY <1>0, <1>5, <5>1 DEF OnePlace
          <5>3. work[n][u].host \notin unsent[n] \cup Tallied
            BY <1>0, <1>5, <5>1 DEF OnePlace
          <5>4. \A v \in Worker : work'[n][v].host = work[n][u].host => v = u
            BY <1>7, <4>2, <5>2
          <5> QED
            BY <1>5, <1>8, <2>2, <3>1, <5>1, <5>3, <5>4
        <4> QED
          BY <4>3, <4>4
      <3>2. CASE m # n
        <4>1. \A v \in Worker : work'[m][v] = work[m][v]
          BY <1>7, <3>2
        <4>2. GwOf[m] \in Gateway
          OBVIOUS
        <4> QED
          BY <1>0, <1>8, <2>2, <4>1, <4>2 DEF OnePlace
      <3> QED
        BY <3>1, <3>2
    <2> QED
      BY <1>0, <1>3, <1>13, <2>1, <2>2 DEF OnePlace, Targets
  <1>15. NoneLost'
    <2> SUFFICES ASSUME ~cancelled, NEW k \in Host
                 PROVE  \/ k \in unsent[NetOf[k]] \cup Tallied
                        \/ gw'[GwOf[NetOf[k]]].host = k
                        \/ \E v \in Worker : work'[NetOf[k]][v].host = k
      BY <1>3, <1>13 DEF NoneLost
    <2>1. \/ k \in unsent[NetOf[k]] \cup Tallied
          \/ gw[GwOf[NetOf[k]]].host = k
          \/ \E v \in Worker : work[NetOf[k]][v].host = k
      BY <1>0 DEF NoneLost
    <2>2. NetOf[k] \in Net /\ GwOf[NetOf[k]] \in Gateway /\ k # NoHost
      OBVIOUS
    <2>3. CASE k = h
      BY <1>4, <1>7, <2>3
    <2>4. CASE k # h
      BY <1>5, <1>7, <1>8, <2>1, <2>2, <2>4, <1>2
    <2> QED
      BY <2>3, <2>4
  <1>16. Counters'
    <2>1. \A m \in Net, v \in Worker : work'[m][v].at \in {"probe", "tally"} \/
                                       work[m][v].at \in {"probe", "tally"}
                                       => work'[m][v] = work[m][v]
      BY <1>3, <1>7
    <2>2. ASSUME NEW m \in Net
          PROVE  Probing(m)' = Probing(m) /\ Counted(m)' = Counted(m)
      BY <1>13, <2>1 DEF Probing, Counted, Targets
    <2> QED
      BY <1>0, <1>3, <2>2 DEF Counters
  <1>17. HonestHistory'
    BY <1>0, <1>3, <1>7, HistoryKept
  <1> QED
    BY <1>9, <1>10, <1>11, <1>12, <1>14, <1>15, <1>16, <1>17 DEF IInv

\* Recording a network keeps the invariant: its workers are gone, and, unless
\* it was cancelled, they left no host of it untallied.
LEMMA JoinInv ==
  ASSUME IInv, NEW g \in Gateway, Join(g)
  PROVE  IInv'
PROOF
  <1> USE DeepQueueAssumption
  <1>0. /\ TypeOK /\ OnePlace /\ NoneLost /\ Counters /\ HonestHistory
        /\ \A f \in Gateway : GatewayShape(f)
        /\ \A m \in Net : NetworkStage(m)
        /\ \A m \in Net, v \in Worker : WorkerShape(m, v)
    BY DEF IInv
  <1> DEFINE n == gw[g].net
  <1>1. gw[g].at = "wait" /\ gw[g].host = NoHost /\ \A w \in Worker : work[n][w].at = "gone"
    BY <1>0 DEF Join, GatewayShape
  <1>2. /\ n \in Net /\ GwOf[n] = g /\ Current(n) /\ n \in closed
        /\ \A m \in Net : m # n /\ Current(m) => GwOf[m] # g
        /\ n \notin todo[g]
    BY <1>0, <1>1, CurrentIsIts DEF NetworkStage
  <1>3. UNCHANGED <<cancelled, todo, unsent, closed, work, succeeded, failed,
                    active, complete>>
    BY DEF Join
  <1>4. [at |-> "next", net |-> NoNet, host |-> NoHost] \in GwState
    BY DEF GwState
  <1>5. /\ gw' \in [Gateway -> GwState]
        /\ gw'[g].at = "next" /\ gw'[g].net = NoNet /\ gw'[g].host = NoHost
        /\ \A f \in Gateway \ {g} : gw'[f] = gw[f]
    BY <1>0, <1>4, GwMove DEF Join
  <1>6. /\ history' \in [Net -> {"none", "success", "warning", "failed"}]
        /\ history'[n] = Status(n)
        /\ \A m \in Net \ {n} : history'[m] = history[m]
    BY <1>0, <1>2 DEF Join, TypeOK, Status
  <1> HIDE DEF n
  <1>7. TypeOK'
    BY <1>0, <1>3, <1>5, <1>6 DEF TypeOK, GwState
  <1>8. ASSUME NEW f \in Gateway PROVE GatewayShape(f)'
    BY <1>0, <1>3, <1>5 DEF GatewayShape, Targets
  <1>9. ASSUME NEW m \in Net PROVE NetworkStage(m)'
    <2>1. GwOf[m] \in Gateway
      OBVIOUS
    <2>2. CASE m = n
      BY <1>0, <1>1, <1>2, <1>3, <1>5, <2>2 DEF NetworkStage, Current
    <2>3. CASE m # n
      <3>1. /\ gw'[GwOf[m]].net = m <=> Current(m)
            /\ Current(m) => gw'[GwOf[m]].at = gw[GwOf[m]].at
        BY <1>2, <1>5, <2>1, <2>3 DEF Current, n
      <3> QED
        BY <1>0, <1>3, <1>6, <2>3, <3>1, StageKept
    <2> QED
      BY <2>2, <2>3
  <1>10. ASSUME NEW m \in Net, NEW v \in Worker PROVE WorkerShape(m, v)'
    BY <1>0, <1>3 DEF WorkerShape, Targets
  <1>11. OnePlace' /\ NoneLost'
    BY <1>0, <1>1, <1>3, <1>5, HostsKept
  <1>12. Counters'
    BY <1>0, <1>3, CountersKept
  <1>13. ~cancelled => Targets(n) \subseteq Tallied
    <2> SUFFICES ASSUME ~cancelled, NEW h \in Targets(n) PROVE h \in Tallied
      OBVIOUS
    <2>1. h \in Host /\ NetOf[h] = n
      BY DEF Targets
    <2>2. unsent[n] = {} /\ gw[GwOf[n]].host # h /\ \A w \in Worker : work[n][w].host # h
      BY <1>0, <1>1, <1>2, <2>1 DEF NetworkStage, WorkerShape
    <2> QED
      BY <1>0, <2>1, <2>2 DEF NoneLost
  <1>14. HonestHistory'
    <2> SUFFICES ASSUME NEW m \in Net
                 PROVE  /\ history'[m] = "success" => Targets(m) \subseteq succeeded
                        /\ history'[m] = "warning" =>
                             /\ Targets(m) \subseteq succeeded \cup failed
                             /\ Targets(m) \cap succeeded # {}
                             /\ Targets(m) \cap failed # {}
                        /\ history'[m] # "none" => \A w \in Worker : work[m][w].at = "gone"
      BY <1>3 DEF HonestHistory, Targets
    <2>1. CASE m = n
      BY <1>1, <1>6, <1>13, <2>1 DEF Status, Tallied, n
    <2>2. CASE m # n
      BY <1>0, <1>6, <2>2 DEF HonestHistory
    <2> QED
      BY <2>1, <2>2
  <1> QED
    BY <1>7, <1>8, <1>9, <1>10, <1>11, <1>12, <1>14 DEF IInv

-----------------------------------------------------------------------------
(* Steps of a worker. *)

\* A worker that is at work and moves on without the gateway leaves the
\* gateways, and every network's stage and record, as they are.
LEMMA WorkerStep ==
  ASSUME IInv, NEW n \in Net, NEW w \in Worker,
         UNCHANGED <<cancelled, todo, gw, unsent, closed, history>>,
         succeeded \subseteq succeeded', failed \subseteq failed',
         work[n][w].at \notin {"off", "gone"}, work'[n][w].at # "off",
         \A m \in Net, v \in Worker : m # n \/ v # w => work'[m][v] = work[m][v]
  PROVE  /\ \A f \in Gateway : GatewayShape(f)'
         /\ \A m \in Net : NetworkStage(m)'
         /\ HonestHistory'
PROOF
  <1> USE DeepQueueAssumption
  <1>0. /\ TypeOK /\ OnePlace /\ NoneLost /\ Counters /\ HonestHistory
        /\ \A f \in Gateway : GatewayShape(f)
        /\ \A m \in Net : NetworkStage(m)
        /\ \A m \in Net, v \in Worker : WorkerShape(m, v)
    BY DEF IInv
  <1>1. Current(n) /\ n \notin todo[GwOf[n]] /\ history[n] = "none"
    BY <1>0 DEF NetworkStage, TypeOK
  <1>2. ASSUME NEW f \in Gateway PROVE GatewayShape(f)'
    BY <1>0 DEF GatewayShape, Targets
  <1>3. ASSUME NEW m \in Net PROVE NetworkStage(m)'
    <2>1. CASE m = n
      <3>1. \A v \in Worker : work'[n][v].at # "off"
        BY <1>0, <1>1 DEF NetworkStage
      <3>2. Current(n)'
        BY <1>1 DEF Current
      <3> QED
        BY <1>0, <1>1, <2>1, <3>1, <3>2 DEF NetworkStage
    <2>2. CASE m # n
      BY <1>0, <2>2, StageKept DEF Current
    <2> QED
      BY <2>1, <2>2
  <1>4. HonestHistory'
    BY <1>0, HistoryKept
  <1> QED
    BY <1>2, <1>3, <1>4

\* A worker that finds the channel closed leaves with empty hands.
LEMMA DrainedInv ==
  ASSUME IInv, NEW n \in Net, NEW w \in Worker, Drained(n, w)
  PROVE  IInv'
PROOF
  <1> USE DeepQueueAssumption
  <1>0. /\ TypeOK /\ OnePlace /\ NoneLost /\ Counters /\ HonestHistory
        /\ \A f \in Gateway : GatewayShape(f)
        /\ \A m \in Net : NetworkStage(m)
        /\ \A m \in Net, v \in Worker : WorkerShape(m, v)
    BY DEF IInv
  <1>1. /\ work[n][w].at = "receive" /\ n \in closed /\ WorkerGoto(n, w, "gone")
        /\ UNCHANGED <<cancelled, todo, gw, unsent, closed, succeeded, failed,
                       active, complete, history>>
    BY DEF Drained
  <1>2. /\ work' \in [Net -> [Worker -> WorkerState]]
        /\ work'[n][w].at = "gone" /\ work'[n][w].host = work[n][w].host
        /\ \A m \in Net, v \in Worker : m # n \/ v # w => work'[m][v] = work[m][v]
    BY <1>0, <1>1, WorkGoto
  <1>3. work[n][w].host = NoHost
    BY <1>0, <1>1 DEF WorkerShape
  <1>4. TypeOK'
    BY <1>0, <1>1, <1>2 DEF TypeOK, WorkerState
  <1>5. /\ \A f \in Gateway : GatewayShape(f)'
        /\ \A m \in Net : NetworkStage(m)'
        /\ HonestHistory'
    BY <1>1, <1>2, WorkerStep
  <1>6. ASSUME NEW m \in Net, NEW v \in Worker PROVE WorkerShape(m, v)'
    BY <1>0, <1>1, <1>2, <1>3 DEF WorkerShape, Targets
  <1>7. \A m \in Net, v \in Worker :
          /\ work'[m][v].host = work[m][v].host
          /\ work'[m][v].at = "probe" <=> work[m][v].at = "probe"
          /\ work'[m][v].at = "tally" <=> work[m][v].at = "tally"
    BY <1>1, <1>2
  <1>8. OnePlace' /\ NoneLost' /\ Counters'
    BY <1>0, <1>1, <1>7, HostsKept, CountersKept
  <1> QED
    BY <1>4, <1>5, <1>6, <1>8 DEF IInv

\* The hosts counted are among those of the network, so there are finitely many.
LEMMA CountedFinite ==
  ASSUME NEW n
  PROVE  /\ IsFiniteSet(Targets(n)) /\ Cardinality(Targets(n)) \in Nat
         /\ IsFiniteSet(Probing(n)) /\ Cardinality(Probing(n)) \in Nat
         /\ IsFiniteSet(Counted(n)) /\ Cardinality(Counted(n)) \in Nat
PROOF
  <1>1. Targets(n) \subseteq Host /\ Probing(n) \subseteq Host /\ Counted(n) \subseteq Host
    BY DEF Targets, Probing, Counted
  <1> QED
    BY <1>1, FS_Subset, FS_CardinalityType, DeepQueueAssumption

\* A check keeps the invariant: the host is lost to the cancellation, or is
\* one more host being probed.
LEMMA CheckInv ==
  ASSUME IInv, NEW n \in Net, NEW w \in Worker, Check(n, w)
  PROVE  IInv'
PROOF
  <1> USE DeepQueueAssumption
  <1>0. /\ TypeOK /\ OnePlace /\ NoneLost /\ Counters /\ HonestHistory
        /\ \A f \in Gateway : GatewayShape(f)
        /\ \A m \in Net : NetworkStage(m)
        /\ \A m \in Net, v \in Worker : WorkerShape(m, v)
    BY DEF IInv
  <1>1. /\ work[n][w].at = "check"
        /\ UNCHANGED <<cancelled, todo, gw, unsent, closed, succeeded, failed,
                       complete, history>>
    BY DEF Check
  <1>2. PICK p \in {"gone", "probe"} :
          /\ WorkerGoto(n, w, p)
          /\ \/ p = "gone" /\ cancelled /\ UNCHANGED active
             \/ p = "probe" /\ active' = [active EXCEPT ![n] = @ + 1]
    BY DEF Check
  <1>3. /\ work' \in [Net -> [Worker -> WorkerState]]
        /\ work'[n][w].at = p /\ work'[n][w].host = work[n][w].host
        /\ \A m \in Net, v \in Worker : m # n \/ v # w => work'[m][v] = work[m][v]
    BY <1>0, <1>2, WorkGoto
  <1>4. PICK h \in Targets(n) : h = work[n][w].host /\ h # NoHost
    BY <1>0, <1>1 DEF WorkerShape
  <1>5. /\ active' \in [Net -> Nat]
        /\ \A m \in Net \ {n} : active'[m] = active[m]
    <2>1. active \in [Net -> Nat] /\ active[n] + 1 \in Nat
      BY <1>0 DEF TypeOK
    <2> QED
      BY <1>2, <2>1
  <1>6. TypeOK'
    BY <1>0, <1>1, <1>3, <1>5 DEF TypeOK, WorkerState
  <1>7. /\ \A f \in Gateway : GatewayShape(f)'
        /\ \A m \in Net : NetworkStage(m)'
        /\ HonestHistory'
    BY <1>1, <1>3, WorkerStep
  <1>8. ASSUME NEW m \in Net, NEW v \in Worker PROVE WorkerShape(m, v)'
    BY <1>0, <1>1, <1>2, <1>3 DEF WorkerShape, Targets
  <1>9. \A m \in Net, v \in Worker :
          /\ work'[m][v].host = work[m][v].host
          /\ work'[m][v].at = "tally" <=> work[m][v].at = "tally"
          /\ m # n \/ v # w \/ p = "gone" =>
               (work'[m][v].at = "probe" <=> work[m][v].at = "probe")
    BY <1>1, <1>2, <1>3
  <1>10. OnePlace' /\ NoneLost'
    BY <1>0, <1>1, <1>9, HostsKept
  <1>11. Counters'
    <2>1. CASE p = "gone"
      BY <1>0, <1>1, <1>2, <1>9, <2>1, CountersKept
    <2>2. CASE p = "probe"
      <3>1. ASSUME NEW m \in Net PROVE Counted(m)' = Counted(m)
        BY <1>1, <1>9 DEF Counted, Tallied, Targets
      <3>2. ASSUME NEW m \in Net \ {n} PROVE Probing(m)' = Probing(m)
        BY <1>9 DEF Probing, Targets
      <3>3. Probing(n)' = Probing(n) \cup {h}
        <4>1. \A k \in Targets(n) :
                 (\E v \in Worker : work'[n][v].at = "probe" /\ work'[n][v].host = k)
                   <=> k = h \/ \E v \in Worker : work[n][v].at = "probe" /\ work[n][v].host = k
          BY <1>1, <1>3, <1>4, <2>2
        <4> QED
          BY <4>1 DEF Probing, Targets
      <3>4. h \notin Probing(n)
        BY <1>0, <1>1, <1>4 DEF Probing, OnePlace
      <3>5. Cardinality(Probing(n)') = Cardinality(Probing(n)) + 1
        BY <3>3, <3>4, CountedFinite, FS_AddElement
      <3>6. active'[n] = active[n] + 1
        BY <1>0, <1>2, <2>2 DEF TypeOK
      <3> QED
        BY <1>0, <1>1, <1>5, <3>1, <3>2, <3>5, <3>6 DEF Counters
    <2> QED
      BY <2>1, <2>2
  <1> QED
    BY <1>6, <1>7, <1>8, <1>10, <1>11 DEF IInv

\* The end of a probe keeps the invariant: one host less is active and one
\* more complete.
LEMMA scanPortHostInv ==
  ASSUME IInv, NEW n \in Net, NEW w \in Worker, scanPortHost(n, w)
  PROVE  IInv'
PROOF
  <1> USE DeepQueueAssumption
  <1>0. /\ TypeOK /\ OnePlace /\ NoneLost /\ Counters /\ HonestHistory
        /\ \A f \in Gateway : GatewayShape(f)
        /\ \A m \in Net : NetworkStage(m)
        /\ \A m \in Net, v \in Worker : WorkerShape(m, v)
    BY DEF IInv
  <1>1. /\ work[n][w].at = "probe"
        /\ active' = [active EXCEPT ![n] = @ - 1]
        /\ complete' = [complete EXCEPT ![n] = @ + 1]
        /\ UNCHANGED <<cancelled, todo, gw, unsent, closed, succeeded, failed, history>>
    BY DEF scanPortHost
  <1>2. /\ work' \in [Net -> [Worker -> WorkerState]]
        /\ work'[n][w].at = "tally" /\ work'[n][w].host = work[n][w].host
        /\ \A m \in Net, v \in Worker : m # n \/ v # w => work'[m][v] = work[m][v]
    BY <1>0, ProbeEnds DEF scanPortHost
  <1>3. PICK h \in Targets(n) : h = work[n][w].host /\ h # NoHost /\ h \notin Tallied
    BY <1>0, <1>1 DEF WorkerShape, OnePlace
  <1>4. ASSUME NEW m \in Net, NEW v \in Worker PROVE WorkerShape(m, v)'
    BY <1>0, <1>1, <1>2, <1>3 DEF WorkerShape, Targets
  <1>5. \A m \in Net, v \in Worker :
          /\ work'[m][v].host = work[m][v].host
          /\ m # n \/ v # w =>
               /\ work'[m][v].at = "tally" <=> work[m][v].at = "tally"
               /\ work'[m][v].at = "probe" <=> work[m][v].at = "probe"
    BY <1>1, <1>2
  <1>6. OnePlace' /\ NoneLost'
    BY <1>0, <1>1, <1>5, HostsKept
  <1>7. /\ \A f \in Gateway : GatewayShape(f)'
        /\ \A m \in Net : NetworkStage(m)'
        /\ HonestHistory'
    BY <1>1, <1>2, WorkerStep
  <1>8. Tallied' = Tallied
    BY <1>1 DEF Tallied
  <1>9. \A v \in Worker : work[n][v].host = h => v = w
    BY <1>0, <1>3 DEF OnePlace
  <1>10. ASSUME NEW m \in Net \ {n}
         PROVE  Probing(m)' = Probing(m) /\ Counted(m)' = Counted(m)
    BY <1>5, <1>8 DEF Probing, Counted, Targets
  <1>11. Probing(n)' = Probing(n) \ {h} /\ h \in Probing(n)
    <2>1. \A k \in Targets(n) :
             (\E v \in Worker : work'[n][v].at = "probe" /\ work'[n][v].host = k)
               <=> k # h /\ \E v \in Worker : work[n][v].at = "probe" /\ work[n][v].host = k
      BY <1>1, <1>2, <1>3, <1>9
    <2> QED
      BY <1>1, <1>3, <2>1 DEF Probing, Targets
  <1>12. Counted(n)' = Counted(n) \cup {h} /\ h \notin Counted(n)
    <2>1. \A k \in Targets(n) :
             (\E v \in Worker : work'[n][v].at = "tally" /\ work'[n][v].host = k)
               <=> k = h \/ \E v \in Worker : work[n][v].at = "tally" /\ work[n][v].host = k
      BY <1>1, <1>2, <1>3, <1>9
    <2>2. ~ \E v \in Worker : work[n][v].at = "tally" /\ work[n][v].host = h
      BY <1>1, <1>9
    <2> QED
      BY <1>3, <1>8, <2>1, <2>2 DEF Counted, Targets
  <1>13. /\ Cardinality(Probing(n)') = Cardinality(Probing(n)) - 1
         /\ Cardinality(Counted(n)') = Cardinality(Counted(n)) + 1
    BY <1>11, <1>12, CountedFinite, FS_AddElement, FS_RemoveElement
  <1>14. active[n] = Cardinality(Probing(n)) /\ active[n] # 0
    <2>1. Probing(n) # {}
      BY <1>11
    <2> QED
      BY <1>0, <2>1, CountedFinite, FS_EmptySet DEF Counters
  <1>15. /\ active' \in [Net -> Nat] /\ complete' \in [Net -> Nat]
         /\ active'[n] = active[n] - 1 /\ complete'[n] = complete[n] + 1
         /\ \A m \in Net \ {n} : active'[m] = active[m] /\ complete'[m] = complete[m]
    <2>1. /\ active \in [Net -> Nat] /\ active[n] - 1 \in Nat
          /\ complete \in [Net -> Nat] /\ complete[n] + 1 \in Nat
      BY <1>0, <1>14 DEF TypeOK
    <2> QED
      BY <1>1, <2>1
  <1>16. TypeOK'
    BY <1>0, <1>1, <1>2, <1>15 DEF TypeOK, WorkerState
  <1>17. Counters'
    BY <1>0, <1>10, <1>13, <1>15 DEF Counters
  <1> QED
    BY <1>4, <1>6, <1>7, <1>16, <1>17 DEF IInv

\* The tally keeps the invariant: the host goes from the worker to one of the
\* two sets, and stays counted.
LEMMA TallyInv ==
  ASSUME IInv, NEW n \in Net, NEW w \in Worker, Tally(n, w)
  PROVE  IInv'
PROOF
  <1> USE DeepQueueAssumption
  <1>0. /\ TypeOK /\ OnePlace /\ NoneLost /\ Counters /\ HonestHistory
        /\ \A f \in Gateway : GatewayShape(f)
        /\ \A m \in Net : NetworkStage(m)
        /\ \A m \in Net, v \in Worker : WorkerShape(m, v)
    BY DEF IInv
  <1>1. /\ work[n][w].at = "tally"
        /\ UNCHANGED <<cancelled, todo, gw, unsent, closed, active, complete, history>>
    BY DEF Tally
  <1> DEFINE r == [Nobody EXCEPT !.at = "receive"]
  <1>2. r \in WorkerState /\ r.at = "receive" /\ r.host = NoHost
    BY DEF Nobody, WorkerState
  <1>b. work' = [work EXCEPT ![n][w] = r]
    BY DEF Tally
  <1> HIDE DEF r
  <1>3. /\ work' \in [Net -> [Worker -> WorkerState]]
        /\ work'[n][w].at = "receive" /\ work'[n][w].host = NoHost
        /\ \A m \in Net, v \in Worker : m # n \/ v # w => work'[m][v] = work[m][v]
    <2>1. TypeOK
      BY <1>0
    <2>2. r \in WorkerState
      BY <1>2
    <2>3. /\ work' \in [Net -> [Worker -> WorkerState]]
          /\ work'[n][w] = r
          /\ \A m \in Net, v \in Worker : m # n \/ v # w => work'[m][v] = work[m][v]
      BY <2>1, <2>2, <1>b, WorkMove
    <2> QED
      BY <1>2, <2>3
  <1>4. PICK h \in Targets(n) :
          /\ h = work[n][w].host /\ h # NoHost /\ h \notin Tallied /\ h \notin unsent[n]
          /\ h # gw[GwOf[n]].host
    BY <1>0, <1>1 DEF WorkerShape, OnePlace
  <1>5. \/ failed' = failed \cup {h} /\ UNCHANGED succeeded
        \/ succeeded' = succeeded \cup {h} /\ UNCHANGED failed
    BY <1>4 DEF Tally
  <1>6. Tallied' = Tallied \cup {h} /\ h \in Host /\ NetOf[h] = n
    BY <1>4, <1>5 DEF Tallied, Targets
  <1>7. TypeOK'
    BY <1>0, <1>1, <1>3, <1>5, <1>6 DEF TypeOK, WorkerState
  <1>8. /\ \A f \in Gateway : GatewayShape(f)'
        /\ \A m \in Net : NetworkStage(m)'
        /\ HonestHistory'
    BY <1>1, <1>3, <1>5, WorkerStep
  <1>9. ASSUME NEW m \in Net, NEW v \in Worker PROVE WorkerShape(m, v)'
    BY <1>0, <1>1, <1>3 DEF WorkerShape, Targets
  <1>10. OnePlace'
    <2>1. succeeded' \cap failed' = {}
      BY <1>0, <1>4, <1>5 DEF OnePlace, Tallied
    <2>2. \A m \in Net : unsent[m] \subseteq Targets(m) \ (Tallied \cup {h})
      BY <1>0, <1>4, <1>6 DEF OnePlace, Targets
    <2>3. ASSUME NEW g \in Gateway, gw[g].host # NoHost
          PROVE  gw[g].host \notin unsent[NetOf[gw[g].host]] \cup Tallied \cup {h}
      <3>1. gw[g].host \in Targets(gw[g].net) /\ GwOf[gw[g].net] = g
        BY <1>0, <2>3 DEF GatewayShape, TypeOK
      <3> QED
        BY <1>0, <1>4, <1>6, <2>3, <3>1 DEF OnePlace, Targets
    <2>4. ASSUME NEW m \in Net, NEW u \in Worker, work'[m][u].host # NoHost
          PROVE  /\ work'[m][u].host \notin unsent[m] \cup Tallied \cup {h}
                 /\ work'[m][u].host # gw[GwOf[m]].host
                 /\ \A v \in Worker : work'[m][v].host = work'[m][u].host => v = u
      <3>1. work'[m][u] = work[m][u] /\ (m # n \/ u # w)
        BY <1>3, <2>4
      <3>2. work[m][u].host \in Targets(m)
        BY <1>0, <2>4, <3>1 DEF WorkerShape
      <3>3. work[m][u].host # h
        BY <1>0, <1>4, <1>6, <3>1, <3>2 DEF OnePlace, Targets
      <3>4. ASSUME NEW v \in Worker, work'[m][v].host = work'[m][u].host
            PROVE  v = u
        <4>1. work'[m][v] = work[m][v]
          BY <1>3, <2>4, <3>4
        <4> QED
          BY <1>0, <2>4, <3>1, <3>4, <4>1 DEF OnePlace
      <3> QED
        BY <1>0, <2>4, <3>1, <3>3, <3>4 DEF OnePlace
    <2> QED
      BY <1>1, <1>6, <2>1, <2>2, <2>3, <2>4 DEF OnePlace, Targets
  <1>11. NoneLost'
    <2> SUFFICES ASSUME ~cancelled, NEW k \in Host
                 PROVE  \/ k \in unsent[NetOf[k]] \cup Tallied \cup {h}
                        \/ gw[GwOf[NetOf[k]]].host = k
                        \/ \E v \in Worker : work'[NetOf[k]][v].host = k
      BY <1>1, <1>6 DEF NoneLost
    <2>1. \/ k \in unsent[NetOf[k]] \cup Tallied
          \/ gw[GwOf[NetOf[k]]].host = k
          \/ \E v \in Worker : work[NetOf[k]][v].host = k
      BY <1>0 DEF NoneLost
    <2> QED
      BY <1>3, <1>4, <2>1
  <1>12. Counters'
    <2>1. \A m \in Net, v \in Worker :
            m # n \/ v # w => work'[m][v] = work[m][v]
      BY <1>3
    <2>2. ASSUME NEW m \in Net PROVE Probing(m)' = Probing(m)
      BY <1>1, <1>3 DEF Probing, Targets
    <2>3. ASSUME NEW m \in Net PROVE Counted(m)' = Counted(m)
      <3>1. CASE m = n
        BY <1>1, <1>3, <1>4, <1>6, <3>1 DEF Counted, Targets
      <3>2. CASE m # n
        BY <1>3, <1>6, <3>2 DEF Counted, Targets
      <3> QED
        BY <3>1, <3>2
    <2> QED
      BY <1>0, <1>1, <2>2, <2>3 DEF Counters
  <1> QED
    BY <1>7, <1>8, <1>9, <1>10, <1>11, <1>12 DEF IInv

\* A cancellation keeps the invariant.
LEMMA CancelInv ==
  ASSUME IInv, Cancel
  PROVE  IInv'
PROOF
  <1> USE DeepQueueAssumption
  <1>0. /\ TypeOK /\ OnePlace /\ NoneLost /\ Counters /\ HonestHistory
        /\ \A f \in Gateway : GatewayShape(f)
        /\ \A m \in Net : NetworkStage(m)
        /\ \A m \in Net, v \in Worker : WorkerShape(m, v)
    BY DEF IInv
  <1>1. /\ cancelled' = TRUE
        /\ UNCHANGED <<todo, gw, unsent, closed, work, succeeded, failed, active,
                       complete, history>>
    BY DEF Cancel
  <1>2. TypeOK'
    BY <1>0, <1>1 DEF TypeOK
  <1>3. ASSUME NEW f \in Gateway PROVE GatewayShape(f)'
    BY <1>0, <1>1 DEF GatewayShape, Targets
  <1>4. ASSUME NEW m \in Net PROVE NetworkStage(m)'
    BY <1>0, <1>1, StageKept DEF Current
  <1>5. ASSUME NEW m \in Net, NEW v \in Worker PROVE WorkerShape(m, v)'
    BY <1>0, <1>1 DEF WorkerShape, Targets
  <1>6. OnePlace' /\ NoneLost' /\ Counters' /\ HonestHistory'
    BY <1>0, <1>1, HostsKept, CountersKept, HistoryKept
  <1> QED
    BY <1>2, <1>3, <1>4, <1>5, <1>6 DEF IInv

-----------------------------------------------------------------------------
(* The theorems. *)

\* The queue starts in the invariant.
LEMMA InitHolds == Init => IInv
PROOF
  <1> SUFFICES ASSUME Init PROVE IInv
    OBVIOUS
  <1> USE DeepQueueAssumption DEF Init
  <1>1. \A n \in Net, w \in Worker : work[n][w].at = "off" /\ work[n][w].host = NoHost
    BY DEF Nobody
  <1>2. TypeOK
    BY DEF TypeOK, Targets, Nobody
  <1>3. \A g \in Gateway : GatewayShape(g)
    BY DEF GatewayShape
  <1>4. \A n \in Net : ~Current(n) /\ NetworkStage(n)
    BY <1>1 DEF NetworkStage, Current
  <1>5. (\A n \in Net, w \in Worker : WorkerShape(n, w)) /\ HonestHistory
    BY <1>1 DEF WorkerShape, HonestHistory
  <1>6. OnePlace /\ NoneLost
    BY <1>1 DEF OnePlace, NoneLost, Tallied, Targets
  <1>7. Counters
    <2>1. ASSUME NEW n \in Net PROVE Probing(n) = {} /\ Counted(n) = {}
      BY <1>1 DEF Probing, Counted, Tallied
    <2> QED
      BY <2>1, FS_EmptySet DEF Counters
  <1> QED
    BY <1>2, <1>3, <1>4, <1>5, <1>6, <1>7 DEF IInv

\* Every step keeps the invariant.
LEMMA Inductive == IInv /\ [Next]_vars => IInv'
PROOF
  <1> SUFFICES ASSUME IInv, [Next]_vars PROVE IInv'
    OBVIOUS
  <1>1. CASE \E g \in Gateway : Gw(g)
    BY <1>1, NextSubnetInv, ProduceInv, JoinInv, HandOverInv DEF Gw
  <1>2. CASE \E n \in Net, w \in Worker : Work(n, w)
    BY <1>2, DrainedInv, CheckInv, scanPortHostInv, TallyInv DEF Work
  <1>3. CASE Cancel
    BY <1>3, CancelInv
  <1>4. CASE UNCHANGED vars
    <2>1. TypeOK'
      BY <1>4 DEF IInv, TypeOK, vars
    <2>2. \A g \in Gateway : GatewayShape(g)'
      BY <1>4 DEF IInv, GatewayShape, Targets, vars
    <2>3. \A n \in Net : NetworkStage(n)'
      BY <1>4, StageKept DEF IInv, Current, vars
    <2>4. \A n \in Net, w \in Worker : WorkerShape(n, w)'
      BY <1>4 DEF IInv, WorkerShape, Targets, vars
    <2>5. OnePlace' /\ NoneLost' /\ Counters' /\ HonestHistory'
      BY <1>4, HostsKept, CountersKept, HistoryKept DEF IInv, vars
    <2> QED
      BY <2>1, <2>2, <2>3, <2>4, <2>5 DEF IInv
  <1> QED
    BY <1>1, <1>2, <1>3, <1>4 DEF Next

\* The inductive invariant of the queue (runDeepQueue): where every goroutine
\* and every host is.
THEOREM Invariant == Spec => []IInv
PROOF
  <1> QED
    BY InitHolds, Inductive, PTL DEF Spec

\* Every variable of the queue keeps its type; in particular the counts of
\* active hosts are never negative.
THEOREM TypeCorrect == Spec => []TypeOK
PROOF
  <1>1. IInv => TypeOK
    BY DEF IInv
  <1> QED
    BY <1>1, Invariant, PTL

\* The status recorded for a network (scanjob.go, the end of each subnet of
\* runDeepQueue) is the truth about its hosts.
THEOREM HistoryIsHonest == Spec => []HonestHistory
PROOF
  <1>1. IInv => HonestHistory
    BY DEF IInv
  <1> QED
    BY <1>1, Invariant, PTL

\* The progress of every network adds up, whoever cancels when: the hosts
\* active and complete are at most its targets, and when an uncancelled queue
\* returns they are all complete and none is active.
THEOREM ProgressIsRight == Spec => []ProgressAddsUp
PROOF
  <1>1. IInv => ProgressAddsUp
    <2> SUFFICES ASSUME IInv, NEW n \in Net
                 PROVE  /\ active[n] + complete[n] <= Cardinality(Targets(n))
                        /\ Returned => active[n] = 0
                        /\ Returned /\ ~cancelled => complete[n] = Cardinality(Targets(n))
      BY DEF ProgressAddsUp
    <2> USE DeepQueueAssumption
    <2>0. /\ TypeOK /\ OnePlace /\ NoneLost
          /\ active[n] = Cardinality(Probing(n)) /\ complete[n] = Cardinality(Counted(n))
          /\ GatewayShape(GwOf[n]) /\ NetworkStage(n)
          /\ \A w \in Worker : WorkerShape(n, w)
      BY DEF IInv, Counters
    <2>1. active[n] + complete[n] <= Cardinality(Targets(n))
      <3>1. Probing(n) \cap Counted(n) = {}
        <4> SUFFICES ASSUME NEW h \in Probing(n), h \in Counted(n) PROVE FALSE
          OBVIOUS
        <4>1. PICK w \in Worker : work[n][w].at = "probe" /\ work[n][w].host = h
          BY DEF Probing
        <4>2. h # NoHost /\ h \notin Tallied
          BY <2>0, <4>1 DEF OnePlace, Probing, Targets
        <4> QED
          BY <2>0, <4>1, <4>2 DEF OnePlace, Counted
      <3>2. Cardinality(Probing(n) \cup Counted(n)) = active[n] + complete[n]
        <4>1. Cardinality(Probing(n) \cap Counted(n)) = 0
          BY <3>1, FS_EmptySet
        <4>2. IsFiniteSet(Probing(n)) /\ IsFiniteSet(Counted(n))
          BY CountedFinite
        <4>3. Cardinality(Probing(n) \cup Counted(n)) =
                Cardinality(Probing(n)) + Cardinality(Counted(n))
                  - Cardinality(Probing(n) \cap Counted(n))
          BY <4>2, FS_Union
        <4>4. Cardinality(Probing(n)) \in Nat /\ Cardinality(Counted(n)) \in Nat
          BY CountedFinite
        <4> QED
          BY <2>0, <4>1, <4>3, <4>4
      <3>3. Probing(n) \cup Counted(n) \subseteq Targets(n)
        BY DEF Probing, Counted
      <3> QED
        BY <3>2, <3>3, CountedFinite, FS_Subset
    <2>2. ASSUME Returned
          PROVE  ~Current(n) /\ \A w \in Worker : work[n][w].at \in {"off", "gone"}
      BY <2>0, <2>2 DEF Returned, GatewayShape, NetworkStage, Current
    <2>3. ASSUME Returned PROVE active[n] = 0
      <3>1. Probing(n) = {}
        BY <2>2, <2>3 DEF Probing
      <3> QED
        BY <2>0, <3>1, FS_EmptySet
    <2>4. ASSUME Returned, ~cancelled PROVE complete[n] = Cardinality(Targets(n))
      <3> SUFFICES ASSUME NEW h \in Targets(n) PROVE h \in Tallied
        BY <2>0 DEF Counted
      <3>1. h \in Host /\ NetOf[h] = n
        BY DEF Targets
      <3>2. n \in closed /\ unsent[n] = {}
        BY <2>0, <2>2, <2>4 DEF Returned, GatewayShape, NetworkStage
      <3>3. gw[GwOf[n]].host # h /\ \A w \in Worker : work[n][w].host # h
        BY <2>0, <2>2, <2>4, <3>1 DEF Returned, GatewayShape, WorkerShape
      <3> QED
        BY <2>0, <2>4, <3>1, <3>2, <3>3 DEF NoneLost
    <2> QED
      BY <2>1, <2>3, <2>4
  <1> QED
    BY <1>1, Invariant, PTL

-----------------------------------------------------------------------------
(* The queue implements HostPool. *)

\* What the workers of its own network, and the tallies, say of a host
BeingProbed(h) ==
  \E w \in Worker : work[NetOf[h]][w].host = h /\ work[NetOf[h]][w].at = "probe"
Answered(h, e) ==
  \E w \in Worker : /\ work[NetOf[h]][w].host = h /\ work[NetOf[h]][w].at = "tally"
                    /\ work[NetOf[h]][w].err = e
HasSucceeded(h) == h \in succeeded \/ Answered(h, FALSE)
HasFailed(h)    == h \in failed \/ Answered(h, TRUE)

TaskIs(h) ==
  /\ BeingProbed(h)  => task[h] = "probing"
  /\ HasSucceeded(h) => task[h] = "ok"
  /\ HasFailed(h)    => task[h] = "failed"
  /\ BeingProbed(h) \/ HasSucceeded(h) \/ HasFailed(h) \/ task[h] = "todo"

\* What a host is in the pool is told by the workers of its own network.
LEMMA TaskOf == IInv => \A h \in Host : TaskIs(h)
PROOF
  <1> SUFFICES ASSUME IInv, NEW h \in Host PROVE TaskIs(h)
    OBVIOUS
  <1> USE DeepQueueAssumption
  <1>0. TypeOK /\ OnePlace /\ \A m \in Net, v \in Worker : WorkerShape(m, v)
    BY DEF IInv
  <1> DEFINE at(p)  == \E n \in Net, w \in Worker :
                         work[n][w].host = h /\ work[n][w].at = p
             err(e) == \E n \in Net, w \in Worker :
                         work[n][w].host = h /\ work[n][w].at = "tally" /\ work[n][w].err = e
  <1>1. \A n \in Net, w \in Worker : work[n][w].host = h => n = NetOf[h]
    BY <1>0 DEF WorkerShape, Targets
  <1>2. NetOf[h] \in Net /\ h # NoHost
    OBVIOUS
  <1>3. at("probe") <=> BeingProbed(h)
    BY <1>1, <1>2 DEF BeingProbed
  <1>4. (err(TRUE) <=> Answered(h, TRUE)) /\ (err(FALSE) <=> Answered(h, FALSE))
    BY <1>1, <1>2 DEF Answered
  <1>5. BeingProbed(h) => h \notin Tallied /\ ~Answered(h, TRUE) /\ ~Answered(h, FALSE)
    BY <1>0, <1>2 DEF BeingProbed, Answered, OnePlace
  <1>6. /\ Answered(h, TRUE) => h \notin Tallied /\ ~Answered(h, FALSE)
        /\ Answered(h, FALSE) => h \notin Tallied
    BY <1>0, <1>2 DEF Answered, OnePlace
  <1>7. ~(h \in succeeded /\ h \in failed)
    BY <1>0 DEF OnePlace
  <1>8. task[h] = CASE at("probe")                     -> "probing"
                    [] h \in succeeded \/ err(FALSE)   -> "ok"
                    [] h \in failed \/ err(TRUE)       -> "failed"
                    [] OTHER                           -> "todo"
    BY DEF task
  <1> HIDE DEF at, err
  <1>9. CASE BeingProbed(h)
    BY <1>3, <1>4, <1>5, <1>8, <1>9 DEF TaskIs, Tallied, HasSucceeded, HasFailed
  <1>10. CASE HasSucceeded(h)
    BY <1>3, <1>4, <1>5, <1>6, <1>7, <1>8, <1>10 DEF TaskIs, Tallied, HasSucceeded, HasFailed
  <1>11. CASE HasFailed(h)
    BY <1>3, <1>4, <1>5, <1>6, <1>7, <1>8, <1>11 DEF TaskIs, Tallied, HasSucceeded, HasFailed
  <1>12. CASE ~BeingProbed(h) /\ ~HasSucceeded(h) /\ ~HasFailed(h)
    BY <1>3, <1>4, <1>8, <1>12 DEF TaskIs, HasSucceeded, HasFailed
  <1> QED
    BY <1>9, <1>10, <1>11, <1>12

\* The same after a step.
LEMMA TaskOfNext == IInv' => \A h \in Host : TaskIs(h)'
PROOF
  <1>1. (IInv => \A h \in Host : TaskIs(h))'
    BY TaskOf, PTL
  <1> QED
    BY <1>1

\* A host that nobody starts, finishes or tallies is what it was.
LEMMA TaskKept ==
  ASSUME IInv, IInv', NEW h \in Host,
         BeingProbed(h)' <=> BeingProbed(h),
         HasSucceeded(h)' <=> HasSucceeded(h),
         HasFailed(h)' <=> HasFailed(h)
  PROVE  task'[h] = task[h]
PROOF
  <1>1. TaskIs(h) /\ TaskIs(h)'
    BY TaskOf, TaskOfNext
  <1> QED
    BY <1>1 DEF TaskIs

\* The pool is a function of the hosts.
LEMMA TaskChange ==
  ASSUME NEW h \in Host, NEW r, task'[h] = r,
         \A k \in Host \ {h} : task'[k] = task[k]
  PROVE  task' = [task EXCEPT ![h] = r]
PROOF
  <1>1. task = [k \in Host |-> task[k]] /\ task' = [k \in Host |-> task'[k]]
    BY DEF task
  <1> QED
    BY <1>1

\* Where no worker begins or ends a probe or a tally, the pool stands still.
LEMMA PoolStands ==
  ASSUME IInv, IInv', UNCHANGED <<succeeded, failed>>,
         \A n \in Net, w \in Worker :
           work'[n][w].at \in {"probe", "tally"} \/ work[n][w].at \in {"probe", "tally"}
             => work'[n][w] = work[n][w]
  PROVE  UNCHANGED task
PROOF
  <1>1. ASSUME NEW h \in Host PROVE task'[h] = task[h]
    <2>1. NetOf[h] \in Net
      BY DeepQueueAssumption
    <2>2. BeingProbed(h)' <=> BeingProbed(h)
      BY <2>1 DEF BeingProbed
    <2>3. \A e \in BOOLEAN : Answered(h, e)' <=> Answered(h, e)
      BY <2>1 DEF Answered
    <2>4. (HasSucceeded(h)' <=> HasSucceeded(h)) /\ (HasFailed(h)' <=> HasFailed(h))
      BY <2>3 DEF HasSucceeded, HasFailed
    <2> QED
      BY <2>2, <2>4, TaskKept
  <1> QED
    BY <1>1 DEF task

\* HostPool counts as this module does.
LEMMA SameCardinality == \A S : Pool!Cardinality(S) = Cardinality(S)
  BY DEF Pool!Cardinality, Cardinality

\* Only the network a gateway is in has hosts that are being probed.
LEMMA OneNetworkAtATime ==
  ASSUME IInv, NEW h \in Host, task[h] = "probing"
  PROVE  Current(NetOf[h]) /\ BeingProbed(h)
PROOF
  <1> USE DeepQueueAssumption
  <1>1. TaskIs(h)
    BY TaskOf
  <1>2. BeingProbed(h)
    BY <1>1 DEF TaskIs
  <1>3. NetOf[h] \in Net /\ NetworkStage(NetOf[h])
    BY DEF IInv
  <1> QED
    BY <1>2, <1>3 DEF BeingProbed, NetworkStage

\* A worker about to probe leaves room for itself behind its gateway.
LEMMA RoomForOne ==
  ASSUME IInv, NEW n \in Net, NEW w \in Worker, NEW h \in Targets(n),
         work[n][w].at = "check", work[n][w].host = h
  PROVE  /\ \A g \in Pool!Beside(h) : NetOf[g] = NetOf[h]
         /\ Cardinality(Pool!Beside(h)) < concurrency
PROOF
  <1> USE DeepQueueAssumption
  <1>1. h \in Host /\ NetOf[h] = n
    BY DEF Targets
  <1>2. Current(n)
    BY DEF IInv, NetworkStage
  <1>3. ASSUME NEW g \in Pool!Beside(h)
        PROVE  /\ NetOf[g] = n
               /\ \E v \in Worker : work[n][v].host = g /\ work[n][v].at = "probe"
    <2>1. g \in Host /\ task[g] = "probing" /\ GwOf[NetOf[g]] = GwOf[n]
      BY <1>1 DEF Pool!Beside
    <2>2. Current(NetOf[g]) /\ BeingProbed(g)
      BY <2>1, OneNetworkAtATime
    <2>3. NetOf[g] = n
      BY <1>2, <2>1, <2>2 DEF Current
    <2> QED
      BY <2>2, <2>3 DEF BeingProbed
  <1>4. CASE concurrency = 1
    <2>1. Pool!Beside(h) = {}
      <3> SUFFICES ASSUME NEW g \in Pool!Beside(h) PROVE FALSE
        OBVIOUS
      <3> QED
        BY <1>3, <1>4 DEF Worker
    <2> QED
      BY <1>1, <1>3, <1>4, <2>1, FS_EmptySet
  <1>5. CASE concurrency = 2
    <2>1. PICK v \in Worker : \A u \in Worker : u = w \/ u = v
      BY <1>5 DEF Worker
    <2>2. Pool!Beside(h) \subseteq {work[n][v].host}
      BY <1>3, <2>1
    <2>3. IsFiniteSet({work[n][v].host}) /\ Cardinality({work[n][v].host}) = 1
      BY FS_Singleton
    <2>4. Cardinality(Pool!Beside(h)) <= 1 /\ Cardinality(Pool!Beside(h)) \in Nat
      BY <2>2, <2>3, FS_Subset, FS_CardinalityType
    <2> QED
      BY <1>1, <1>3, <1>5, <2>4
  <1> QED
    BY <1>4, <1>5 DEF concurrency

\* A worker that begins a probe begins it in the pool.
LEMMA CheckBegins ==
  ASSUME IInv, IInv', NEW n \in Net, NEW w \in Worker, Check(n, w)
  PROVE  [Pool!PoolNext]_task
PROOF
  <1> USE DeepQueueAssumption
  <1>0. TypeOK /\ OnePlace /\ WorkerShape(n, w)
    BY DEF IInv
  <1>1. work[n][w].at = "check" /\ UNCHANGED <<succeeded, failed>>
    BY DEF Check
  <1>2. PICK p \in {"gone", "probe"} : WorkerGoto(n, w, p)
    BY DEF Check
  <1>3. /\ work'[n][w].at = p /\ work'[n][w].host = work[n][w].host
        /\ \A m \in Net, v \in Worker : m # n \/ v # w => work'[m][v] = work[m][v]
    BY <1>0, <1>2, WorkGoto
  <1>4. CASE p = "gone"
    <2>1. \A m \in Net, v \in Worker :
            work'[m][v].at \in {"probe", "tally"} \/ work[m][v].at \in {"probe", "tally"}
              => work'[m][v] = work[m][v]
      BY <1>1, <1>3, <1>4
    <2> QED
      BY <1>1, <2>1, PoolStands
  <1>5. CASE p = "probe"
    <2>1. PICK h \in Targets(n) : h = work[n][w].host /\ h # NoHost
      BY <1>0, <1>1 DEF WorkerShape
    <2>2. h \in Host /\ NetOf[h] = n
      BY DEF Targets
    <2>3. h \notin Tallied /\ \A v \in Worker : work[n][v].host = h => v = w
      BY <1>0, <2>1 DEF OnePlace
    <2>4. task[h] = "todo"
      <3>1. ~BeingProbed(h) /\ ~HasSucceeded(h) /\ ~HasFailed(h)
        BY <1>1, <2>2, <2>3
           DEF BeingProbed, HasSucceeded, HasFailed, Answered, Tallied
      <3> QED
        BY <2>2, <3>1, TaskOf DEF TaskIs
    <2>5. task'[h] = "probing"
      <3>1. BeingProbed(h)'
        BY <1>3, <1>5, <2>1, <2>2 DEF BeingProbed
      <3>2. TaskIs(h)'
        BY <2>2, TaskOfNext
      <3> QED
        BY <3>1, <3>2 DEF TaskIs
    <2>6. ASSUME NEW k \in Host \ {h} PROVE task'[k] = task[k]
      <3>1. NetOf[k] \in Net
        OBVIOUS
      <3>2. BeingProbed(k)' <=> BeingProbed(k)
        BY <1>3, <2>1, <3>1 DEF BeingProbed
      <3>3. ASSUME NEW e \in BOOLEAN PROVE Answered(k, e)' <=> Answered(k, e)
        BY <1>3, <2>1, <3>1 DEF Answered
      <3>4. (HasSucceeded(k)' <=> HasSucceeded(k)) /\ (HasFailed(k)' <=> HasFailed(k))
        BY <1>1, <3>3 DEF HasSucceeded, HasFailed
      <3> QED
        BY <3>2, <3>4, TaskKept
    <2>7. task' = [task EXCEPT ![h] = "probing"]
      BY <2>2, <2>5, <2>6, TaskChange
    <2>8. Pool!Begin(h)
      <3>1. /\ \A g \in Pool!Beside(h) : NetOf[g] = NetOf[h]
            /\ Cardinality(Pool!Beside(h)) < concurrency
        BY <1>1, <2>1, RoomForOne
      <3> QED
        BY <2>4, <2>7, <3>1, SameCardinality DEF Pool!Begin
    <2> QED
      BY <2>2, <2>8 DEF Pool!PoolNext
  <1> QED
    BY <1>4, <1>5

\* A probe that returns ends in the pool.
LEMMA ProbeIsEnd ==
  ASSUME IInv, IInv', NEW n \in Net, NEW w \in Worker, scanPortHost(n, w)
  PROVE  [Pool!PoolNext]_task
PROOF
  <1> USE DeepQueueAssumption
  <1>0. TypeOK /\ OnePlace /\ WorkerShape(n, w)
    BY DEF IInv
  <1>1. work[n][w].at = "probe" /\ UNCHANGED <<succeeded, failed>>
    BY DEF scanPortHost
  <1>2. /\ work' \in [Net -> [Worker -> WorkerState]]
        /\ work'[n][w].at = "tally" /\ work'[n][w].host = work[n][w].host
        /\ \A m \in Net, v \in Worker : m # n \/ v # w => work'[m][v] = work[m][v]
    BY <1>0, ProbeEnds
  <1>3. PICK h \in Targets(n) : h = work[n][w].host /\ h # NoHost
    BY <1>0, <1>1 DEF WorkerShape
  <1>4. h \in Host /\ NetOf[h] = n
    BY DEF Targets
  <1>5. task[h] = "probing"
    <2>1. BeingProbed(h)
      BY <1>1, <1>3, <1>4 DEF BeingProbed
    <2> QED
      BY <1>4, <2>1, TaskOf DEF TaskIs
  <1>6. task'[h] \in {"ok", "failed"}
    <2>1. work'[n][w].err \in BOOLEAN
      BY <1>2 DEF WorkerState
    <2>2. Answered(h, FALSE)' \/ Answered(h, TRUE)'
      BY <1>2, <1>3, <1>4, <2>1 DEF Answered
    <2>3. HasSucceeded(h)' \/ HasFailed(h)'
      BY <2>2 DEF HasSucceeded, HasFailed
    <2>4. TaskIs(h)'
      BY <1>4, TaskOfNext
    <2> QED
      BY <2>3, <2>4 DEF TaskIs
  <1>7. ASSUME NEW k \in Host \ {h} PROVE task'[k] = task[k]
    <2>1. NetOf[k] \in Net
      OBVIOUS
    <2>2. BeingProbed(k)' <=> BeingProbed(k)
      BY <1>2, <1>3, <2>1 DEF BeingProbed
    <2>3. ASSUME NEW e \in BOOLEAN PROVE Answered(k, e)' <=> Answered(k, e)
      BY <1>2, <1>3, <2>1 DEF Answered
    <2>4. (HasSucceeded(k)' <=> HasSucceeded(k)) /\ (HasFailed(k)' <=> HasFailed(k))
      BY <1>1, <2>3 DEF HasSucceeded, HasFailed
    <2> QED
      BY <2>2, <2>4, TaskKept
  <1>8. PICK r \in {"ok", "failed"} : task' = [task EXCEPT ![h] = r]
    BY <1>4, <1>6, <1>7, TaskChange
  <1>9. Pool!End(h, r)
    BY <1>5, <1>8 DEF Pool!End
  <1> QED
    BY <1>4, <1>9 DEF Pool!PoolNext

\* A tally only writes down what the pool knows.
LEMMA TallyStands ==
  ASSUME IInv, IInv', NEW n \in Net, NEW w \in Worker, Tally(n, w)
  PROVE  UNCHANGED task
PROOF
  <1> USE DeepQueueAssumption
  <1>0. TypeOK /\ OnePlace /\ WorkerShape(n, w)
    BY DEF IInv
  <1> DEFINE r == [Nobody EXCEPT !.at = "receive"]
  <1>1. r \in WorkerState /\ r.at = "receive" /\ r.host = NoHost
    BY DEF Nobody, WorkerState
  <1>2. /\ work[n][w].at = "tally"
        /\ work' = [work EXCEPT ![n][w] = r]
    BY DEF Tally
  <1> HIDE DEF r
  <1>3. /\ work'[n][w].at = "receive" /\ work'[n][w].host = NoHost
        /\ \A m \in Net, v \in Worker : m # n \/ v # w => work'[m][v] = work[m][v]
    <2>0. TypeOK
      BY <1>0
    <2>1. work' = [work EXCEPT ![n][w] = r]
      BY <1>2
    <2>2. r \in WorkerState
      BY <1>1
    <2>3. /\ work' \in [Net -> [Worker -> WorkerState]]
          /\ work'[n][w] = r
          /\ \A m \in Net, v \in Worker : m # n \/ v # w => work'[m][v] = work[m][v]
      BY <2>0, <2>1, <2>2, WorkMove
    <2> QED
      BY <1>1, <2>3
  <1>4. PICK h \in Targets(n) : h = work[n][w].host /\ h # NoHost
    BY <1>0, <1>2 DEF WorkerShape
  <1>5. h \in Host /\ NetOf[h] = n
    BY DEF Targets
  <1>6. work[n][w].err \in BOOLEAN
    BY <1>0 DEF TypeOK
  <1>7. \/ work[n][w].err /\ failed' = failed \cup {h} /\ UNCHANGED succeeded
        \/ ~work[n][w].err /\ succeeded' = succeeded \cup {h} /\ UNCHANGED failed
    BY <1>4 DEF Tally
  <1>8. task'[h] = task[h]
    <2>1. TaskIs(h) /\ TaskIs(h)'
      BY <1>5, TaskOf, TaskOfNext
    <2>2. CASE work[n][w].err
      <3>1. Answered(h, TRUE) /\ h \in failed'
        BY <1>2, <1>4, <1>5, <1>6, <1>7, <2>2 DEF Answered
      <3> QED
        BY <2>1, <3>1 DEF TaskIs, HasFailed
    <2>3. CASE ~work[n][w].err
      <3>1. Answered(h, FALSE) /\ h \in succeeded'
        BY <1>2, <1>4, <1>5, <1>6, <1>7, <2>3 DEF Answered
      <3> QED
        BY <2>1, <3>1 DEF TaskIs, HasSucceeded
    <2> QED
      BY <2>2, <2>3
  <1>9. ASSUME NEW k \in Host \ {h} PROVE task'[k] = task[k]
    <2>1. NetOf[k] \in Net /\ k # NoHost
      OBVIOUS
    <2>2. BeingProbed(k)' <=> BeingProbed(k)
      BY <1>2, <1>3, <1>4, <2>1 DEF BeingProbed
    <2>3. ASSUME NEW e \in BOOLEAN PROVE Answered(k, e)' <=> Answered(k, e)
      BY <1>2, <1>3, <1>4, <2>1 DEF Answered
    <2>4. (HasSucceeded(k)' <=> HasSucceeded(k)) /\ (HasFailed(k)' <=> HasFailed(k))
      BY <1>7, <2>3 DEF HasSucceeded, HasFailed
    <2> QED
      BY <2>2, <2>4, TaskKept
  <1>10. \A k \in Host : task'[k] = task[k]
    BY <1>8, <1>9
  <1> QED
    BY <1>10 DEF task

\* Every step of the queue is a step of the pool, or none.
LEMMA PoolSteps ==
  ASSUME IInv, IInv', [Next]_vars
  PROVE  [Pool!PoolNext]_task
PROOF
  <1> USE DeepQueueAssumption
  <1> DEFINE Quiet == \A n \in Net, w \in Worker :
               work'[n][w].at \in {"probe", "tally"} \/ work[n][w].at \in {"probe", "tally"}
                 => work'[n][w] = work[n][w]
  <1>0. /\ TypeOK
        /\ \A g \in Gateway : GatewayShape(g)
        /\ \A n \in Net : NetworkStage(n)
    BY DEF IInv
  <1>1. Quiet /\ UNCHANGED <<succeeded, failed>> => UNCHANGED task
    BY PoolStands
  <1>2. ASSUME NEW g \in Gateway, NextSubnet(g) PROVE UNCHANGED task
    <2>1. CASE UNCHANGED work
      BY <1>1, <1>2, <2>1 DEF NextSubnet
    <2>2. CASE \E n \in todo[g] :
                 work' = [work EXCEPT ![n] = [w \in Worker |-> [Nobody EXCEPT !.at = "receive"]]]
      <3>1. PICK n \in todo[g] :
              work' = [work EXCEPT ![n] = [w \in Worker |-> [Nobody EXCEPT !.at = "receive"]]]
        BY <2>2
      <3>2. n \in Net /\ GwOf[n] = g
        BY <1>0 DEF GatewayShape, TypeOK
      <3>3. \A w \in Worker : work[n][w].at = "off"
        BY <1>0, <3>2 DEF NetworkStage
      <3>4. [Nobody EXCEPT !.at = "receive"].at = "receive"
        BY DEF Nobody
      <3>5. /\ \A w \in Worker : work'[n][w].at = "receive"
            /\ \A m \in Net \ {n} : work'[m] = work[m]
        BY <1>0, <3>1, <3>2, <3>4 DEF TypeOK
      <3>6. Quiet
        BY <3>3, <3>5
      <3> QED
        BY <1>1, <1>2, <3>6 DEF NextSubnet
    <2> QED
      BY <1>2, <2>1, <2>2 DEF NextSubnet
  <1>3. ASSUME NEW g \in Gateway, Produce(g) \/ Join(g) PROVE UNCHANGED task
    BY <1>1, <1>3 DEF Produce, Join
  <1>4. ASSUME NEW g \in Gateway, NEW w \in Worker, HandOver(g, w) PROVE UNCHANGED task
    <2>1. gw[g].at = "send" /\ gw[g].host \in Targets(gw[g].net) /\ gw[g].net \in Net
      BY <1>0, <1>4 DEF HandOver, GatewayShape
    <2>2. PICK n \in Net, h \in Host : n = gw[g].net /\ h = gw[g].host
      BY <2>1 DEF Targets
    <2>3. /\ work[n][w].at = "receive" /\ WorkerTakes(n, w, h)
          /\ UNCHANGED <<succeeded, failed>>
      BY <1>4, <2>2 DEF HandOver, WorkerTakes
    <2>4. /\ work'[n][w].at = "check"
          /\ \A m \in Net, v \in Worker : m # n \/ v # w => work'[m][v] = work[m][v]
      BY <1>0, <2>3, WorkTake
    <2>5. Quiet
      BY <2>3, <2>4
    <2> QED
      BY <1>1, <2>3, <2>5
  <1>5. ASSUME NEW n \in Net, NEW w \in Worker, Drained(n, w) PROVE UNCHANGED task
    <2>1. /\ work[n][w].at = "receive" /\ WorkerGoto(n, w, "gone")
          /\ UNCHANGED <<succeeded, failed>>
      BY <1>5 DEF Drained
    <2>2. /\ work'[n][w].at = "gone"
          /\ \A m \in Net, v \in Worker : m # n \/ v # w => work'[m][v] = work[m][v]
      BY <1>0, <2>1, WorkGoto
    <2>3. Quiet
      BY <2>1, <2>2
    <2> QED
      BY <1>1, <2>1, <2>3
  <1>6. CASE Cancel \/ UNCHANGED vars
    BY <1>1, <1>6 DEF Cancel, vars
  <1>7. CASE \E g \in Gateway : Gw(g)
    BY <1>2, <1>3, <1>4, <1>7 DEF Gw
  <1>8. CASE \E n \in Net, w \in Worker : Work(n, w)
    BY <1>5, <1>8, CheckBegins, ProbeIsEnd, TallyStands DEF Work
  <1> QED
    BY <1>6, <1>7, <1>8 DEF Next

\* The queue implements HostPool: whatever the order of the gateways, their
\* producers and workers and of a cancellation, every host is probed at most
\* once, and behind one gateway at most `concurrency` hosts of one network at
\* a time ("Process ONE subnet at a time for this gateway!", scanjob.go).
THEOREM QueueRefinesPool == Spec => ImplementsHostPool
PROOF
  <1>1. Init => Pool!PoolInit
    <2> SUFFICES ASSUME Init PROVE Pool!PoolInit
      OBVIOUS
    <2>1. IInv
      BY InitHolds
    <2>2. ASSUME NEW h \in Host PROVE task[h] = "todo"
      <3>1. NetOf[h] \in Net
        BY DeepQueueAssumption
      <3>2. \A w \in Worker : work[NetOf[h]][w].at = "off"
        BY <3>1 DEF Init, Nobody
      <3>3. ~BeingProbed(h) /\ ~HasSucceeded(h) /\ ~HasFailed(h)
        BY <3>2 DEF BeingProbed, HasSucceeded, HasFailed, Answered, Init
      <3> QED
        BY <2>1, <3>3, TaskOf DEF TaskIs
    <2>3. task = [h \in Host |-> task[h]]
      BY DEF task
    <2> HIDE DEF task
    <2> QED
      BY <2>2, <2>3 DEF Pool!PoolInit
  <1>2. IInv /\ IInv' /\ [Next]_vars => [Pool!PoolNext]_task
    BY PoolSteps
  <1> QED
    BY <1>1, <1>2, Invariant, PTL DEF Spec, ImplementsHostPool, Pool!PoolSpec
=============================================================================
