------------------------------ MODULE DeepQueue -----------------------------
(***************************************************************************)
(* One run of scanJob.runDeepQueue (internal/api/scanjob.go): a goroutine  *)
(* per gateway works through its networks one at a time; for each network  *)
(* it starts one or two workers and hands them the hosts over an           *)
(* unbuffered channel.  The job may be cancelled at any moment.            *)
(*                                                                         *)
(* The order of the hosts of a network (prioritizeDeepScanDevices) and of  *)
(* the networks of a gateway is left open.  A host stands for one target,  *)
(* so an address inside two overlapping networks is two hosts.             *)
(***************************************************************************)
EXTENDS FiniteSets, Naturals

CONSTANTS
  Host, Net, Gateway,
  NetOf,        \* the network each target was collected for
  GwOf,         \* gatewayForTarget of each network
  Gentle,       \* job.nightlyDeep
  Single,       \* len(job.deepDevices) = 1: a scan of one device
  Cancellable,  \* whether anybody cancels the job
  NoNet, NoHost

ASSUME DeepQueueAssumption ==
  /\ IsFiniteSet(Host)
  /\ NetOf \in [Host -> Net]
  /\ GwOf \in [Net -> Gateway]
  /\ Gentle \in BOOLEAN /\ Single \in BOOLEAN /\ Cancellable \in BOOLEAN
  /\ NoNet \notin Net
  /\ NoHost \notin Host
  /\ Single => Cardinality(Host) = 1

\* Mutant: a host is collected for every network behind its gateway
TargetsOfGateway(n) == {h \in Host : GwOf[NetOf[h]] = GwOf[n]}

\* targetsByNetwork
Targets(n) == {h \in Host : NetOf[h] = n}

\* The workers of a network
concurrency == IF Gentle \/ Single THEN 1 ELSE 2
Worker      == 1 .. concurrency

VARIABLES
  cancelled,  \* ctx.Err() # nil
  todo,       \* the networks each gateway has not come to
  gw,         \* each gateway goroutine: where it is, in which network, and
              \* the host it holds out to the workers
  unsent,     \* hosts of each network the producer has not come to
  closed,     \* networks whose hostChan is closed
  work,       \* the workers of each network: where they are, their host and
              \* what became of it
  succeeded,  \* hosts tallied as succeeded (succeededCount)
  failed,     \* hosts tallied as failed (failedCount)
  active,     \* deepNetworkProgress.Active
  complete,   \* deepNetworkProgress.Complete
  history     \* the status recorded in the scan history for each network

vars == <<cancelled, todo, gw, unsent, closed, work, succeeded, failed,
          active, complete, history>>

Nobody == [at |-> "off", host |-> NoHost, err |-> FALSE]

Init ==
  /\ cancelled = FALSE
  /\ todo = [g \in Gateway |-> {n \in Net : GwOf[n] = g /\ Targets(n) # {}}]
  /\ gw = [g \in Gateway |-> [at |-> "next", net |-> NoNet, host |-> NoHost]]
  /\ unsent = [n \in Net |-> Targets(n)]
  /\ closed = {}
  /\ work = [n \in Net |-> [w \in Worker |-> Nobody]]
  /\ succeeded = {}
  /\ failed = {}
  /\ active = [n \in Net |-> 0]
  /\ complete = [n \in Net |-> 0]
  /\ history = [n \in Net |-> "none"]

-----------------------------------------------------------------------------
(* The gateway goroutine. *)

\* Stop when cancelled or done, otherwise start the workers of a network
NextSubnet(g) ==
  /\ gw[g].at = "next"
  /\ \/ /\ cancelled \/ todo[g] = {}
        /\ gw' = [gw EXCEPT ![g].at = "end"]
        /\ UNCHANGED <<todo, work>>
     \/ /\ ~cancelled
        /\ \E n \in todo[g] :
             /\ todo' = [todo EXCEPT ![g] = @ \ {n}]
             /\ gw' = [gw EXCEPT ![g] = [at |-> "produce", net |-> n, host |-> NoHost]]
             /\ work' = [work EXCEPT ![n] = [w \in Worker |-> [Nobody EXCEPT !.at = "receive"]]]
  /\ UNCHANGED <<cancelled, unsent, closed, succeeded, failed, active, complete, history>>

\* The head of the producer's loop: break when cancelled or done (and close
\* the channel), otherwise hold out the next host
Produce(g) ==
  LET n == gw[g].net
  IN  /\ gw[g].at = "produce"
      /\ \/ /\ cancelled \/ unsent[n] = {}
            /\ gw' = [gw EXCEPT ![g].at = "wait"]
            /\ closed' = closed \cup {n}
            /\ UNCHANGED unsent
         \/ /\ ~cancelled
            /\ \E h \in unsent[n] :
                 /\ gw' = [gw EXCEPT ![g].at = "send", ![g].host = h]
                 /\ unsent' = [unsent EXCEPT ![n] = @ \ {h}]
            /\ UNCHANGED closed
      /\ UNCHANGED <<cancelled, todo, work, succeeded, failed, active, complete, history>>

\* hostChan <- dev meets a worker's receive
HandOver(g, w) ==
  LET n == gw[g].net
  IN  /\ gw[g].at = "send"
      /\ work[n][w].at = "receive"
      /\ work' = [work EXCEPT ![n][w] = [@ EXCEPT !.at = "check", !.host = gw[g].host]]
      /\ gw' = [gw EXCEPT ![g].at = "produce", ![g].host = NoHost]
      /\ UNCHANGED <<cancelled, todo, unsent, closed, succeeded, failed,
                     active, complete, history>>

\* Mutant: the context is not looked at
StatusBlind(n) ==
  IF Targets(n) \cap failed = {} THEN "success"
  ELSE IF Targets(n) \cap succeeded = {} THEN "failed" ELSE "warning"

\* The status of a finished network
Status(n) ==
  LET ok  == succeeded \cap Targets(n)
      bad == failed \cap Targets(n)
  IN  IF cancelled \/ (bad # {} /\ ok = {}) THEN "failed"
      ELSE IF bad # {} THEN "warning" ELSE "success"

\* subnetWG.Wait() returned; RecordScanHistoryWithDetails
Join(g) ==
  LET n == gw[g].net
  IN  /\ gw[g].at = "wait"
      /\ \A w \in Worker : work[n][w].at = "gone"
      /\ history' = [history EXCEPT ![n] = Status(n)]
      /\ gw' = [gw EXCEPT ![g] = [at |-> "next", net |-> NoNet, host |-> NoHost]]
      /\ UNCHANGED <<cancelled, todo, unsent, closed, work, succeeded, failed,
                     active, complete>>

-----------------------------------------------------------------------------
(* A worker. *)

WorkerGoto(n, w, at) == work' = [work EXCEPT ![n][w].at = at]

\* Mutant: the channel is never closed
NeverDrained(n, w) == FALSE

\* The range loop ends when the channel is closed
Drained(n, w) ==
  /\ work[n][w].at = "receive" /\ n \in closed
  /\ WorkerGoto(n, w, "gone")
  /\ UNCHANGED <<cancelled, todo, gw, unsent, closed, succeeded, failed,
                 active, complete, history>>

\* Mutant: scanPortHost does not count the host as active
CheckUncounted(n, w) ==
  /\ work[n][w].at = "check"
  /\ WorkerGoto(n, w, IF cancelled THEN "gone" ELSE "probe")
  /\ UNCHANGED <<cancelled, todo, gw, unsent, closed, succeeded, failed,
                 active, complete, history>>

\* Return when cancelled, whatever is still being sent; otherwise the first
\* lines of scanPortHost
Check(n, w) ==
  /\ work[n][w].at = "check"
  /\ \/ /\ cancelled
        /\ WorkerGoto(n, w, "gone")
        /\ UNCHANGED active
     \/ /\ ~cancelled
        /\ WorkerGoto(n, w, "probe")
        /\ active' = [active EXCEPT ![n] = @ + 1]
  /\ UNCHANGED <<cancelled, todo, gw, unsent, closed, succeeded, failed,
                 complete, history>>

\* Mutant: an early return on an error skips Active--
ProbeLeaky(n, w) ==
  /\ work[n][w].at = "probe"
  /\ \E err \in BOOLEAN :
       /\ work' = [work EXCEPT ![n][w] = [@ EXCEPT !.at = "tally", !.err = err]]
       /\ active' = [active EXCEPT ![n] = IF err THEN @ ELSE @ - 1]
  /\ complete' = [complete EXCEPT ![n] = @ + 1]
  /\ UNCHANGED <<cancelled, todo, gw, unsent, closed, succeeded, failed, history>>

\* ScanHostPortsWithTiming returned and the progress is counted
scanPortHost(n, w) ==
  /\ work[n][w].at = "probe"
  /\ \E err \in BOOLEAN :
       work' = [work EXCEPT ![n][w] = [@ EXCEPT !.at = "tally", !.err = err]]
  /\ active' = [active EXCEPT ![n] = @ - 1]
  /\ complete' = [complete EXCEPT ![n] = @ + 1]
  /\ UNCHANGED <<cancelled, todo, gw, unsent, closed, succeeded, failed, history>>

\* The tally under deepResultsMu
Tally(n, w) ==
  LET me == work[n][w]
  IN  /\ me.at = "tally"
      /\ work' = [work EXCEPT ![n][w] = [Nobody EXCEPT !.at = "receive"]]
      /\ IF me.err THEN failed' = failed \cup {me.host} /\ UNCHANGED succeeded
                   ELSE succeeded' = succeeded \cup {me.host} /\ UNCHANGED failed
      /\ UNCHANGED <<cancelled, todo, gw, unsent, closed, active, complete, history>>

\* The user, the deadline or the shutdown
Cancel ==
  /\ Cancellable /\ ~cancelled
  /\ cancelled' = TRUE
  /\ UNCHANGED <<todo, gw, unsent, closed, work, succeeded, failed, active,
                 complete, history>>

-----------------------------------------------------------------------------
Gw(g) == NextSubnet(g) \/ Produce(g) \/ Join(g) \/ \E w \in Worker : HandOver(g, w)

Work(n, w) == Drained(n, w) \/ Check(n, w) \/ scanPortHost(n, w) \/ Tally(n, w)

\* gatewayWG.Wait() returned
Returned == \A g \in Gateway : gw[g].at = "end"

Next ==
  \/ \E g \in Gateway : Gw(g)
  \/ \E n \in Net, w \in Worker : Work(n, w)
  \/ Cancel
  \/ Returned /\ UNCHANGED vars

Spec == Init /\ [][Next]_vars

\* Goroutines that can go on do, and every probe has a timeout.  Nobody owes
\* a cancellation.
FairSpec ==
  /\ Spec
  /\ \A g \in Gateway : WF_vars(Gw(g))
  /\ \A n \in Net, w \in Worker : WF_vars(Work(n, w))

-----------------------------------------------------------------------------
(* Properties. *)

TypeOK ==
  /\ cancelled \in BOOLEAN
  /\ todo \in [Gateway -> SUBSET Net]
  /\ gw \in [Gateway -> [at : {"next", "produce", "send", "wait", "end"},
                         net : Net \cup {NoNet}, host : Host \cup {NoHost}]]
  /\ unsent \in [Net -> SUBSET Host]
  /\ closed \subseteq Net
  /\ work \in [Net -> [Worker ->
                 [at : {"off", "receive", "check", "probe", "tally", "gone"},
                  host : Host \cup {NoHost}, err : BOOLEAN]]]
  /\ succeeded \subseteq Host
  /\ failed \subseteq Host
  /\ active \in [Net -> Nat]
  /\ complete \in [Net -> Nat]
  /\ history \in [Net -> {"none", "success", "warning", "failed"}]

\* The recorded status tells what happened: "success" only when every host of
\* the network answered, "warning" only when every host was tried and some
\* answered, and no record at all of a network still being worked on.
HonestHistory ==
  \A n \in Net :
    /\ history[n] = "success" => Targets(n) \subseteq succeeded
    /\ history[n] = "warning" => /\ Targets(n) \subseteq succeeded \cup failed
                                 /\ Targets(n) \cap succeeded # {}
                                 /\ Targets(n) \cap failed # {}
    /\ history[n] # "none" => \A w \in Worker : work[n][w].at = "gone"

\* The progress the overlay shows adds up: active and complete hosts are never
\* more than the total, and nothing is active once the queue has returned.
ProgressAddsUp ==
  /\ \A n \in Net : active[n] + complete[n] <= Cardinality(Targets(n))
  /\ Returned => \A n \in Net : active[n] = 0
  /\ Returned /\ ~cancelled =>
       \A n \in Net : complete[n] = Cardinality(Targets(n))

\* An uncancelled queue comes to an end.
QueueReturns == <>(Returned \/ cancelled)

\* README.md:203 and the design of the job context: a cancelled queue comes to
\* an end too, wherever the producer and the workers are.
CancelStops == cancelled ~> Returned

\* The pool of hosts, read off the workers
task ==
  [h \in Host |->
     LET at(p)  == \E n \in Net, w \in Worker :
                     work[n][w].host = h /\ work[n][w].at = p
         err(e) == \E n \in Net, w \in Worker :
                     work[n][w].host = h /\ work[n][w].at = "tally" /\ work[n][w].err = e
     IN  CASE at("probe")                     -> "probing"
           [] h \in succeeded \/ err(FALSE)   -> "ok"
           [] h \in failed \/ err(TRUE)       -> "failed"
           [] OTHER                           -> "todo"]

Pool == INSTANCE HostPool WITH Limit <- concurrency

\* Gateways, producers and workers together probe every host at most once and
\* never more than the permitted number behind one gateway.
ImplementsHostPool == Pool!PoolSpec
=============================================================================
