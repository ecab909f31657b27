------------------------------ MODULE ScanJobs ------------------------------
(***************************************************************************)
(* The life of a scan job (internal/api/scanjob.go), the handlers that     *)
(* start, adopt and cancel one (internal/api/api.go), the background       *)
(* scanner that starts them on its own, the scan flags the dashboard reads *)
(* (internal/storage/storage.go) and the shutdown sequence of              *)
(* internal/cli/serve.go.                                                  *)
(*                                                                         *)
(* A step is what one goroutine does between two points where another can  *)
(* interleave: a lock, a channel, a wait, or a scan that takes minutes.    *)
(* Devices, durations and result texts are left out; a network stands for  *)
(* the addresses in it.  Every network is behind a gateway of its own, so  *)
(* a queue may probe several at once; the order inside one gateway is the  *)
(* subject of DeepQueue.                                                   *)
(***************************************************************************)
EXTENDS FiniteSets

CONSTANTS
  Job,             \* identities of the jobs; each is started at most once
  Net,             \* the networks resolveScanTargets("all") returns
  NoJob, NoNet,    \* nil and ""
  EnablePortScan,  \* cfg.Scanning.EnablePortScan, with a PortScanRange set
  Kick,            \* goroutines the continuous-scan switch can leave behind
  Modes,           \* what users ask for; {} when nobody clicks
  Request,         \* GET /api/scan requests that can be handled at a time
  Stoppable        \* whether the server may be told to shut down

ASSUME ScanJobsAssumption ==
  /\ NoJob \notin Job
  /\ NoNet \notin Net
  /\ EnablePortScan \in BOOLEAN
  /\ Modes \subseteq {"quick", "deep", "both"}

VARIABLES
  status,        \* scanJob.status; "none" before the job exists
  pc,            \* where the goroutine of the job is in run
  net,           \* where the goroutine of each network of the job is
  param,         \* the fields set when the job is created
  ctx,           \* the job's context: live, cancelled or past its deadline
  result,        \* scanJob.results, one per network
  deepTargets,   \* networks whose hosts are to be probed after the sweep
  fresh,         \* networks in scanJob.accumulatedNew
  job,           \* Handler.job
  bg,            \* the background scanner: program counter, job, nightly
  continuous,    \* the persisted continuous-scan setting
  kicks,         \* go h.runBackgroundScan() goroutines not yet run
  nightDone,     \* last_deep_scan_date is today (one night is modelled)
  scanRunning,   \* Storage.scanRunning
  scanning,      \* Storage.activeScanningNetworks
  deepScanning,  \* Storage.activeDeepScanningNetworks
  current,       \* Storage.currentScanningNetwork
  completed,     \* Storage.completedNetworks
  request,       \* the network each GET /api/scan is sweeping, NoNet if there is none
  srv,           \* the shutdown sequence of serve
  late,          \* server.Shutdown gave up while a handler was running
  visited        \* networks somebody else swept while the job ran (not in the code)

jobVars  == <<status, pc, net, param, ctx, result, deepTargets, fresh, visited>>
flagVars == <<scanRunning, scanning, deepScanning, current, completed>>
srvVars  == <<bg, continuous, kicks, nightDone, request, srv, late>>
vars     == <<jobVars, flagVars, srvVars, job>>

Mode     == {"quick", "deep", "both"}
Terminal == {"done", "failed", "cancelled"}
SweepPc  == {"begin", "rate", "wait", "sweep", "dated"}
NetPc    == SweepPc \cup {"off", "end", "queued", "probing", "stuck"}
Pc       == {"off", "sweep", "deep", "queue", "deepEnd", "supplement", "merging",
             "judge", "missing", "clearCompleted", "clearCurrent", "clearScanning",
             "clearRunning", "gone"}
Result   == {"none", "scanned", "skipped", "failed"}
Param    == [nets : SUBSET Net, mode : Mode, single : BOOLEAN,
             automatic : BOOLEAN, nightly : BOOLEAN]
Bg       == [at : {"wait", "top", "waitJob", "pause", "resweep", "waitSweep",
                   "stopped"},
             job : Job \cup {NoJob}, nightly : BOOLEAN]

Unborn == [nets |-> {}, mode |-> "quick", single |-> FALSE,
           automatic |-> FALSE, nightly |-> FALSE]

isRunning(j) == status[j] = "running"
Idle         == \A j \in Job : job = j => ~isRunning(j)

Init ==
  /\ status = [j \in Job |-> "none"]
  /\ pc = [j \in Job |-> "off"]
  /\ net = [j \in Job |-> [n \in Net |-> "off"]]
  /\ param = [j \in Job |-> Unborn]
  /\ ctx = [j \in Job |-> "live"]
  /\ result = [j \in Job |-> [n \in Net |-> "none"]]
  /\ deepTargets = [j \in Job |-> {}]
  /\ fresh = [j \in Job |-> {}]
  /\ job = NoJob
  /\ bg = [at |-> "wait", job |-> NoJob, nightly |-> FALSE]
  /\ continuous \in BOOLEAN
  /\ kicks = {}
  /\ nightDone = FALSE
  /\ scanRunning = FALSE
  /\ scanning = {}
  /\ deepScanning = {}
  /\ current = NoNet
  /\ completed = {}
  /\ request = [q \in Request |-> NoNet]
  /\ srv = "up"
  /\ late = FALSE
  /\ visited = [j \in Job |-> {}]

-----------------------------------------------------------------------------
(* The scan flags of the store. *)

\* SetNetworkScanning(n, true)
MarkScanning(n) ==
  /\ scanning' = scanning \cup {n}
  /\ current' = n

\* Mutant: the current network is not given up
UnmarkOnly(n) == scanning' = scanning \ {n} /\ UNCHANGED current

\* SetNetworkScanning(n, false): another network still active becomes current
UnmarkScanning(n) ==
  /\ scanning' = scanning \ {n}
  /\ \/ current # n /\ UNCHANGED current
     \/ current = n /\ scanning \ {n} = {} /\ current' = NoNet
     \/ current = n /\ current' \in scanning \ {n}

\* ClearScanningNetworks
ClearScanningNetworks ==
  /\ scanning' = {}
  /\ deepScanning' = {}
  /\ current' = NoNet

-----------------------------------------------------------------------------
(* Starting a job.  The caller holds jobMu and has found the slot idle. *)

\* Mutant: context.Background() instead of the server's context
Detached == "live"

\* The job descends from the server's scan context, so one started during
\* shutdown is born cancelled.
scanCtx == IF srv = "up" THEN "live" ELSE "cancelled"

\* startScanJobWithDeadline
startScanJob(j, p) ==
  /\ pc[j] = "off"
  /\ status' = [status EXCEPT ![j] = "running"]
  /\ pc' = [pc EXCEPT ![j] = IF p.mode = "deep" THEN "deep" ELSE "sweep"]
  /\ param' = [param EXCEPT ![j] = p]
  /\ ctx' = [ctx EXCEPT ![j] = scanCtx]
  /\ net' = [net EXCEPT ![j] =
       [n \in Net |-> IF n \in p.nets /\ p.mode # "deep" THEN "begin" ELSE "off"]]
  /\ completed' = {}
  /\ scanning' = p.nets
  /\ current' \in p.nets
  /\ scanRunning' = (scanRunning \/ ~p.single)
  /\ UNCHANGED <<result, deepTargets, fresh, visited, deepScanning>>

\* Handlers run until server.Shutdown has seen the last of them return, and go on
\* through the rest of the shutdown when it gives up before.
Serving == srv \in {"up", "stopping"} \/ late

\* The body of handleScanStart once free, its look at the slot, holds
StartIf(free) ==
  /\ Serving /\ free
  /\ \E j \in Job, nets \in (SUBSET Net) \ {{}}, mode \in Modes :
       /\ startScanJob(j, [nets |-> nets, mode |-> mode, single |-> FALSE,
                           automatic |-> FALSE, nightly |-> FALSE])
       /\ job' = j
  /\ UNCHANGED srvVars

\* Mutant: the slot is not looked at
StartAnyway == StartIf(TRUE)

\* POST /api/scan/start on an idle server
handleScanStart == StartIf(Idle)

\* POST /api/devices/<ip>/deep-scan on an idle server
handleDeviceDeepScan ==
  /\ Serving /\ Idle /\ "deep" \in Modes
  /\ \E j \in Job, n \in Net :
       /\ startScanJob(j, [nets |-> {n}, mode |-> "deep", single |-> TRUE,
                           automatic |-> FALSE, nightly |-> FALSE])
       /\ job' = j
  /\ UNCHANGED srvVars

\* Either of the two while a scan runs: attach to it and make it the user's
adopt ==
  /\ Serving /\ ~Idle /\ Modes # {}
  /\ param' = [param EXCEPT ![job].automatic = FALSE]
  /\ UNCHANGED <<status, pc, net, ctx, result, deepTargets, fresh, visited, job,
                 flagVars, srvVars>>

\* POST /api/scan/cancel; with no running job it answers 409
handleScanCancel ==
  /\ Serving /\ ~Idle
  /\ ctx[job] = "live"
  /\ ctx' = [ctx EXCEPT ![job] = "cancelled"]
  /\ UNCHANGED <<status, pc, net, param, result, deepTargets, fresh, visited, job,
                 flagVars, srvVars>>

\* POST /api/scan/continuous: switching on leaves a goroutine behind that
\* starts a scan
handleScanContinuous ==
  /\ Serving
  /\ \/ /\ continuous' = FALSE
        /\ UNCHANGED kicks
     \/ /\ continuous' = TRUE
        /\ \E k \in Kick \ kicks : kicks' = kicks \cup {k}
  /\ UNCHANGED <<jobVars, flagVars, job, bg, nightDone, request, srv, late>>

\* Mutant: last_deep_scan_date is not saved
ForgetNight(nightly) == UNCHANGED nightDone

\* SetSetting("last_deep_scan_date", today) when the nightly job starts
MarkNight(nightly) == nightDone' = (nightDone \/ nightly)

\* startBackgroundNetworks on an idle server.  The first automatic job that
\* starts between 3 and 4 o'clock is the nightly one.
BackgroundJob(j, atThree) ==
  LET nightly == EnablePortScan /\ atThree /\ ~nightDone
  IN  /\ Idle
      /\ startScanJob(j, [nets |-> Net, mode |-> "both", single |-> FALSE,
                          automatic |-> TRUE, nightly |-> nightly])
      /\ job' = j
      /\ MarkNight(nightly)

\* go h.runBackgroundScan(): nothing starts when continuous scanning is off again,
\* no network is found or the slot is taken
runBackgroundScan(k) ==
  /\ k \in kicks
  /\ kicks' = kicks \ {k}
  /\ \/ UNCHANGED <<jobVars, flagVars, job, nightDone>>
     \/ /\ continuous
        /\ \E j \in Job, atThree \in BOOLEAN : BackgroundJob(j, atThree)
  /\ UNCHANGED <<bg, continuous, request, srv, late>>

-----------------------------------------------------------------------------
(* StartBackgroundScanner *)

BgGoto(at) == bg' = [bg EXCEPT !.at = at]

\* waitForBackgroundScan(ctx, nil, interval): the timer, or shutdown
BgWait ==
  /\ bg.at = "wait"
  /\ \/ BgGoto("top")
     \/ srv # "up" /\ BgGoto("stopped")
  /\ UNCHANGED <<jobVars, flagVars, job, continuous, kicks, nightDone, request, srv, late>>

\* The top of the loop, which does not look at the context.  DetectNetworks
\* may also fail, and the slot may be taken; either way it waits again.
BgTop ==
  /\ bg.at = "top"
  /\ \/ /\ BgGoto("wait")
        /\ UNCHANGED <<jobVars, flagVars, job, nightDone>>
     \/ /\ continuous
        /\ \E j \in Job, atThree \in BOOLEAN :
             /\ BackgroundJob(j, atThree)
             /\ bg' = [at |-> "waitJob", job |-> j,
                       nightly |-> param'[j].nightly]
  /\ UNCHANGED <<continuous, kicks, request, srv, late>>

\* waitForBackgroundScan(ctx, job.done, interval), its first select
BgWaitJob ==
  /\ bg.at = "waitJob"
  /\ \/ pc[bg.job] = "gone" /\ BgGoto("pause")
     \/ srv # "up" /\ BgGoto("stopped")
  /\ UNCHANGED <<jobVars, flagVars, job, continuous, kicks, nightDone, request, srv, late>>

\* ... and its second.  After a nightly job comes a sweep of everything.
BgPause ==
  /\ bg.at = "pause"
  /\ \/ BgGoto(IF bg.nightly THEN "resweep" ELSE "top")
     \/ srv # "up" /\ BgGoto("stopped")
  /\ UNCHANGED <<jobVars, flagVars, job, continuous, kicks, nightDone, request, srv, late>>

\* The sweep after the nightly job is started but not stored in Handler.job.  It is
\* left out when no network is found or the slot is taken.
BgResweep ==
  /\ bg.at = "resweep"
  /\ \/ /\ Idle
        /\ \E j \in Job :
             /\ startScanJob(j, [nets |-> Net, mode |-> "quick", single |-> FALSE,
                                 automatic |-> TRUE, nightly |-> FALSE])
             /\ bg' = [at |-> "waitSweep", job |-> j, nightly |-> FALSE]
     \/ /\ bg' = [bg EXCEPT !.at = "top", !.nightly = FALSE]
        /\ UNCHANGED <<jobVars, flagVars>>
  /\ UNCHANGED <<job, continuous, kicks, nightDone, request, srv, late>>

\* Its result is ignored, so shutdown leads back to the top of the loop
BgWaitSweep ==
  /\ bg.at = "waitSweep"
  /\ pc[bg.job] = "gone" \/ srv # "up"
  /\ BgGoto("top")
  /\ UNCHANGED <<jobVars, flagVars, job, continuous, kicks, nightDone, request, srv, late>>

-----------------------------------------------------------------------------
(* Stage 1: one goroutine per network. *)

NetGoto(j, n, at) == net' = [net EXCEPT ![j][n] = at]

Done(j) == ctx[j] # "live"

\* Return at once when cancelled, otherwise announce the network
SweepBegin(j, n) ==
  /\ net[j][n] = "begin"
  /\ \/ /\ Done(j)
        /\ NetGoto(j, n, "end")
        /\ UNCHANGED <<scanning, current>>
     \/ /\ ~Done(j)
        /\ NetGoto(j, n, "rate")
        /\ MarkScanning(n)
  /\ UNCHANGED <<status, pc, param, ctx, result, deepTargets, fresh, visited, job,
                 srvVars, scanRunning, deepScanning, completed>>

\* CheckRateLimit: go on, wait up to five seconds, or skip the network
SweepRate(j, n) ==
  /\ net[j][n] = "rate"
  /\ \/ /\ \E at \in {"sweep", "wait"} : NetGoto(j, n, at)
        /\ UNCHANGED <<scanning, current, completed, result>>
     \/ /\ NetGoto(j, n, "end")
        /\ UnmarkScanning(n)
        /\ result' = [result EXCEPT ![j][n] = "skipped"]
        /\ completed' = completed \cup {n}
  /\ UNCHANGED <<status, pc, param, ctx, deepTargets, fresh, visited, job, srvVars,
                 scanRunning, deepScanning>>

\* Mutant: only the context is waited for
SweepWaitForever(j, n) ==
  /\ net[j][n] = "wait" /\ Done(j)
  /\ NetGoto(j, n, "end")
  /\ UNCHANGED <<status, pc, param, ctx, result, deepTargets, fresh, visited, job,
                 srvVars, flagVars>>

\* select over the context and the timer
SweepWait(j, n) ==
  /\ net[j][n] = "wait"
  /\ \/ NetGoto(j, n, "sweep")
     \/ Done(j) /\ NetGoto(j, n, "end")
  /\ UNCHANGED <<status, pc, param, ctx, result, deepTargets, fresh, visited, job,
                 srvVars, flagVars>>

\* New devices are credited to Handler.job while it runs, whoever swept them: the
\* job, another job or a GET /api/scan
Credit(n) ==
  IF Idle THEN UNCHANGED fresh
          ELSE \/ UNCHANGED fresh
               \/ fresh' = [fresh EXCEPT ![job] = @ \cup {n}]

\* History: the jobs I see that somebody else has swept n
Visit(n, I) ==
  visited' = [i \in Job |-> IF i \in I /\ isRunning(i) THEN visited[i] \cup {n} ELSE visited[i]]

\* scanNetwork succeeded.  The hosts of a manual "both" scan are queued for
\* probing; those of an automatic one if it is between 3 and 4 o'clock and
\* last_deep_scan_date is not today.
SweepOk(j, n) ==
  LET p         == param[j]
      manual    == p.mode = "both" /\ ~p.automatic
      quietHour == p.mode = "both" /\ p.automatic /\ EnablePortScan
                     /\ ~p.nightly /\ ~nightDone
  IN  /\ net[j][n] = "sweep"
      /\ UnmarkScanning(n)
      /\ result' = [result EXCEPT ![j][n] = "scanned"]
      /\ completed' = completed \cup {n}
      /\ Credit(n)
      /\ Visit(n, Job \ {j})
      /\ \/ NetGoto(j, n, "end")
         \/ quietHour /\ NetGoto(j, n, "dated")
      /\ deepTargets' = IF manual THEN [deepTargets EXCEPT ![j] = @ \cup {n}]
                                  ELSE deepTargets
      /\ UNCHANGED <<status, pc, param, ctx, job, srvVars, scanRunning,
                     deepScanning>>

\* scanNetwork failed; when the job was cancelled that is not a failure
SweepError(j, n) ==
  /\ net[j][n] = "sweep"
  /\ UnmarkScanning(n)
  /\ NetGoto(j, n, "end")
  /\ \/ Done(j) /\ UNCHANGED <<result, completed>>
     \/ /\ ~Done(j)
        /\ result' = [result EXCEPT ![j][n] = "failed"]
        /\ completed' = completed \cup {n}
  /\ UNCHANGED <<status, pc, param, ctx, deepTargets, fresh, visited, job, srvVars,
                 scanRunning, deepScanning>>

\* SetSetting("last_deep_scan_date"), some time after the GetSetting
SweepDate(j, n) ==
  /\ net[j][n] = "dated"
  /\ NetGoto(j, n, "end")
  /\ nightDone' = TRUE
  /\ deepTargets' = [deepTargets EXCEPT ![j] = @ \cup {n}]
  /\ UNCHANGED <<status, pc, param, ctx, result, fresh, visited, job, flagVars, bg,
                 continuous, kicks, request, srv, late>>

Sweep(j, n) ==
  \/ SweepBegin(j, n) \/ SweepRate(j, n) \/ SweepWait(j, n)
  \/ SweepOk(j, n) \/ SweepError(j, n) \/ SweepDate(j, n)

-----------------------------------------------------------------------------
(* From stage 1 to the end of run. *)

JobGoto(j, at) == pc' = [pc EXCEPT ![j] = at]

\* Mutants of finish: run goes on after "cancelled", the completed networks
\* stay listed, or the job reports a status nobody knows
FinishAndGoOn(j, s) ==
  /\ status' = [status EXCEPT ![j] = s]
  /\ JobGoto(j, IF pc[j] = "judge" THEN "missing" ELSE "clearCompleted")

FinishKeepingCompleted(j, s) ==
  /\ status' = [status EXCEPT ![j] = s]
  /\ JobGoto(j, "clearCurrent")

FinishUnknown(j, s) ==
  /\ status' = [status EXCEPT ![j] = IF s = "cancelled" THEN "stopped" ELSE s]
  /\ JobGoto(j, "clearCompleted")

\* finish, after which run returns into its deferred calls
finish(j, s) ==
  /\ status' = [status EXCEPT ![j] = s]
  /\ JobGoto(j, "clearCompleted")

\* runDeepQueue over the networks Q that have hosts to probe
Enqueue(j, Q, otherwise) ==
  /\ JobGoto(j, IF Q = {} THEN otherwise ELSE "queue")
  /\ net' = [net EXCEPT ![j] = [n \in Net |-> IF n \in Q THEN "queued" ELSE @[n]]]

\* Mutant: every network is probed, the failed and skipped ones too
AllTargets(j) == param[j].nets

\* What is probed after the sweep: everything for a nightly job, else the
\* hosts collected for it, else the new devices
ProbeTargets(j) ==
  IF param[j].nightly THEN Net
  ELSE IF deepTargets[j] # {} THEN deepTargets[j]
  ELSE fresh[j] \cap param[j].nets

\* stage1WG.Wait() returned: stop, or choose what to probe
SweepJoin(j) ==
  /\ pc[j] = "sweep"
  /\ \A n \in Net : net[j][n] \in {"off", "end"}
  /\ \/ /\ Done(j)
        /\ finish(j, "cancelled")
        /\ UNCHANGED net
     \/ /\ ~Done(j)
        /\ \E Q \in SUBSET ProbeTargets(j) : Enqueue(j, Q, "supplement")
        /\ UNCHANGED status
  /\ UNCHANGED <<param, ctx, result, deepTargets, fresh, visited, job, srvVars, flagVars>>

\* runDeepScan: the networks that have online devices, or the one device's
runDeepScan(j) ==
  /\ pc[j] = "deep"
  /\ \/ /\ Done(j) /\ ~param[j].single
        /\ finish(j, "cancelled")
        /\ UNCHANGED net
     \/ /\ ~Done(j) \/ param[j].single
        /\ \E Q \in SUBSET param[j].nets :
             /\ param[j].single => Q = param[j].nets
             /\ Enqueue(j, Q, "deepEnd")
        /\ UNCHANGED status
  /\ UNCHANGED <<param, ctx, result, deepTargets, fresh, visited, job, srvVars, flagVars>>

\* A gateway goroutine takes its next network, unless cancelled.  The queue
\* of a single device leaves the flags alone.
QueueBegin(j, n) ==
  /\ net[j][n] = "queued"
  /\ \/ /\ Done(j)
        /\ NetGoto(j, n, "end")
        /\ UNCHANGED <<scanning, current, deepScanning>>
     \/ /\ ~Done(j)
        /\ NetGoto(j, n, "probing")
        /\ IF param[j].single
           THEN UNCHANGED <<scanning, current, deepScanning>>
           ELSE /\ deepScanning' = deepScanning \cup {n}
                /\ MarkScanning(n)
  /\ UNCHANGED <<status, pc, param, ctx, result, deepTargets, fresh, visited, job,
                 srvVars, scanRunning, completed>>

\* scanPortHost lists the network as completed as soon as its last host is
\* counted, while the queue still shows it as scanning
QueueLast(j, n) ==
  /\ net[j][n] = "probing" /\ ~param[j].single
  /\ completed' = completed \cup {n}
  /\ UNCHANGED <<jobVars, job, srvVars, scanRunning, scanning, deepScanning,
                 current>>

\* Every host of the network was probed, or the cancellation was noticed
QueueEnd(j, n) ==
  /\ net[j][n] = "probing"
  /\ NetGoto(j, n, "end")
  /\ IF param[j].single
     THEN UNCHANGED <<scanning, current, deepScanning, completed>>
     ELSE /\ deepScanning' = deepScanning \ {n}
          /\ UnmarkScanning(n)
          /\ completed' = completed \cup {n}
  /\ UNCHANGED <<status, pc, param, ctx, result, deepTargets, fresh, visited, job,
                 srvVars, scanRunning>>

\* The producer of a cancelled queue is left sending to workers that returned
\* (shown in DeepQueue); with a single host there is nothing left to send.
QueueStick(j, n) ==
  /\ net[j][n] = "probing" /\ Done(j) /\ ~param[j].single
  /\ NetGoto(j, n, "stuck")
  /\ UNCHANGED <<status, pc, param, ctx, result, deepTargets, fresh, visited, job,
                 srvVars, flagVars>>

\* gatewayWG.Wait() returned
QueueJoin(j) ==
  /\ pc[j] = "queue"
  /\ \A n \in Net : net[j][n] \in {"off", "end"}
  /\ IF param[j].single THEN UNCHANGED <<scanning, current, deepScanning>>
                        ELSE ClearScanningNetworks
  /\ \/ /\ param[j].nightly /\ ctx[j] = "deadline"
        /\ finish(j, "cancelled")
     \/ /\ ~(param[j].nightly /\ ctx[j] = "deadline")
        /\ JobGoto(j, IF param[j].mode = "deep" THEN "deepEnd" ELSE "supplement")
        /\ UNCHANGED status
  /\ UNCHANGED <<net, param, ctx, result, deepTargets, fresh, visited, job, srvVars,
                 scanRunning, completed>>

\* The end of a deep job: a result for every network, then the outcome.  A
\* single device is queued without results.
DeepEnd(j) ==
  /\ pc[j] = "deepEnd"
  /\ result' = [result EXCEPT ![j] =
       [n \in Net |-> IF n \in param[j].nets /\ ~param[j].single
                      THEN "scanned" ELSE @[n]]]
  /\ finish(j, IF Done(j) THEN "cancelled" ELSE "done")
  /\ UNCHANGED <<net, param, ctx, deepTargets, fresh, visited, job, srvVars, flagVars>>

\* IPv6, mDNS, routers, UniFi and switches: each is skipped once cancelled.  What
\* one of them has found is merged in any case, cancelled meanwhile or not.
Supplement(j) ==
  /\ \/ pc[j] = "supplement" /\ JobGoto(j, IF Done(j) THEN "judge" ELSE "merging")
     \/ pc[j] = "merging" /\ JobGoto(j, "judge")
  /\ UNCHANGED <<status, net, param, ctx, result, deepTargets, fresh, visited, job,
                 srvVars, flagVars>>

\* The last look at the context
Judge(j) ==
  /\ pc[j] = "judge"
  /\ \/ Done(j) /\ finish(j, "cancelled")
     \/ ~Done(j) /\ JobGoto(j, "missing") /\ UNCHANGED status
  /\ UNCHANGED <<net, param, ctx, result, deepTargets, fresh, visited, job, srvVars,
                 flagVars>>

\* Mutant: one failed network fails the job
AnyFailure(j) == IF \E n \in Net : result[j][n] = "failed" THEN "failed" ELSE "done"

\* Failed only when a network failed and none was scanned
Verdict(j) ==
  IF /\ \E n \in Net : result[j][n] = "failed"
     /\ \A n \in Net : result[j][n] # "scanned"
  THEN "failed" ELSE "done"

\* ProcessMissingDevices and the notifications, then the outcome
Missing(j) ==
  /\ pc[j] = "missing"
  /\ finish(j, Verdict(j))
  /\ UNCHANGED <<net, param, ctx, result, deepTargets, fresh, visited, job, srvVars,
                 flagVars>>

\* The deferred calls of run, last registered first, and close(job.done)
Deferred(j) ==
  /\ \/ /\ pc[j] = "clearCompleted" /\ JobGoto(j, "clearCurrent")
        /\ completed' = {}
        /\ UNCHANGED <<scanRunning, scanning, deepScanning, current>>
     \/ /\ pc[j] = "clearCurrent" /\ JobGoto(j, "clearScanning")
        /\ scanning' = {} /\ current' = NoNet
        /\ UNCHANGED <<scanRunning, deepScanning, completed>>
     \/ /\ pc[j] = "clearScanning" /\ JobGoto(j, "clearRunning")
        /\ ClearScanningNetworks
        /\ UNCHANGED <<scanRunning, completed>>
     \/ /\ pc[j] = "clearRunning" /\ JobGoto(j, "gone")
        /\ scanRunning' = FALSE
        /\ UNCHANGED <<scanning, deepScanning, current, completed>>
  /\ UNCHANGED <<status, net, param, ctx, result, deepTargets, fresh, visited, job,
                 srvVars>>

Run(j) ==
  \/ \E n \in Net : \/ Sweep(j, n)
                    \/ QueueBegin(j, n) \/ QueueLast(j, n) \/ QueueEnd(j, n)
  \/ SweepJoin(j) \/ runDeepScan(j) \/ QueueJoin(j) \/ DeepEnd(j)
  \/ Supplement(j) \/ Judge(j) \/ Missing(j) \/ Deferred(j)

\* 06:00 passes for the nightly job
Deadline(j) ==
  /\ param[j].nightly /\ isRunning(j) /\ ctx[j] = "live"
  /\ ctx' = [ctx EXCEPT ![j] = "deadline"]
  /\ UNCHANGED <<status, pc, net, param, result, deepTargets, fresh, visited, job,
                 flagVars, srvVars>>

-----------------------------------------------------------------------------
(* GET /api/scan sweeps in the handler itself, without a job and with the       *)
(* context of the request, which neither cancel nor shutdown cancels.           *)

handleScan(q) ==
  /\ Serving /\ request[q] = NoNet
  /\ \E n \in Net : request' = [request EXCEPT ![q] = n]
  /\ UNCHANGED <<jobVars, flagVars, job, bg, continuous, kicks, nightDone, srv, late>>

\* One network is over: rate limited, failed or swept.  The handler goes on to another
\* or answers.  (A handler that merges its supplemental sources before the answer looks
\* like one that sweeps its last network once more in vain.)
scanAllNetworks(q) ==
  /\ request[q] # NoNet
  /\ \/ UNCHANGED <<fresh, visited>>
     \/ Credit(request[q]) /\ Visit(request[q], Job)
  /\ \E n \in Net \cup {NoNet} : request' = [request EXCEPT ![q] = n]
  /\ UNCHANGED <<status, pc, net, param, ctx, result, deepTargets, job, flagVars, bg,
                 continuous, kicks, nightDone, srv, late>>

-----------------------------------------------------------------------------
(* Shutdown. *)

\* scanCancel()
ShutdownBegin ==
  /\ Stoppable
  /\ srv = "up"
  /\ srv' = "stopping"
  /\ ctx' = [j \in Job |->
       IF pc[j] \notin {"off", "gone"} /\ ctx[j] = "live" THEN "cancelled" ELSE ctx[j]]
  /\ UNCHANGED <<status, pc, net, param, result, deepTargets, fresh, visited, job,
                 flagVars, bg, continuous, kicks, nightDone, request, late>>

\* server.Shutdown returned: every handler has returned, or ten seconds have passed
\* and some have not
ShutdownDrain ==
  /\ srv = "stopping"
  /\ srv' = "drained"
  /\ \/ late' = TRUE
     \/ late' = FALSE /\ \A q \in Request : request[q] = NoNet
  /\ UNCHANGED <<jobVars, flagVars, job, bg, continuous, kicks, nightDone, request>>

\* WaitForScans returned: no job is under way
ShutdownWaited ==
  /\ srv = "drained"
  /\ \A j \in Job : pc[j] \in {"off", "gone"}
  /\ srv' = "waited"
  /\ UNCHANGED <<jobVars, flagVars, job, bg, continuous, kicks, nightDone, request, late>>

\* Mutant: the wait is not bounded
WaitForever == FALSE

\* ... or five seconds passed
ShutdownTimeout ==
  /\ srv = "drained"
  /\ srv' = "timedOut"
  /\ UNCHANGED <<jobVars, flagVars, job, bg, continuous, kicks, nightDone, request, late>>

-----------------------------------------------------------------------------
\* The process exits a moment after the wait, so nothing happens later than
\* what the other goroutines do in that moment.
Background ==
  BgWait \/ BgTop \/ BgWaitJob \/ BgPause \/ BgResweep \/ BgWaitSweep

Next ==
  \/ handleScanStart \/ handleDeviceDeepScan \/ adopt
  \/ handleScanCancel \/ handleScanContinuous
  \/ \E q \in Request : handleScan(q) \/ scanAllNetworks(q)
  \/ \E k \in Kick : runBackgroundScan(k)
  \/ Background
  \/ \E j \in Job : Run(j) \/ Deadline(j)
  \/ \E j \in Job, n \in Net : QueueStick(j, n)
  \/ ShutdownBegin \/ ShutdownDrain \/ ShutdownWaited \/ ShutdownTimeout

Spec == Init /\ [][Next]_vars

\* Scans, probes and merges all have timeouts, so a goroutine that can go on
\* does.  Users, the clock and the scheduler's choices owe nothing.
Fairness ==
  /\ \A j \in Job : WF_vars(Run(j))
  /\ WF_vars(ShutdownDrain) /\ WF_vars(ShutdownWaited) /\ WF_vars(ShutdownTimeout)

FairSpec == Spec /\ Fairness

-----------------------------------------------------------------------------
(* Properties. *)

TypeOK ==
  /\ status \in [Job -> Terminal \cup {"none", "running"}]
  /\ pc \in [Job -> Pc]
  /\ net \in [Job -> [Net -> NetPc]]
  /\ param \in [Job -> Param]
  /\ ctx \in [Job -> {"live", "cancelled", "deadline"}]
  /\ result \in [Job -> [Net -> Result]]
  /\ deepTargets \in [Job -> SUBSET Net]
  /\ fresh \in [Job -> SUBSET Net]
  /\ job \in Job \cup {NoJob}
  /\ bg \in Bg
  /\ continuous \in BOOLEAN
  /\ kicks \subseteq Kick
  /\ nightDone \in BOOLEAN
  /\ scanRunning \in BOOLEAN
  /\ scanning \subseteq Net
  /\ deepScanning \subseteq Net
  /\ current \in Net \cup {NoNet}
  /\ completed \subseteq Net
  /\ request \in [Request -> Net \cup {NoNet}]
  /\ srv \in {"up", "stopping", "drained", "waited", "timedOut"}
  /\ late \in BOOLEAN
  /\ visited \in [Job -> SUBSET Net]

\* The comment on Handler.job (api.go:43): "Only one scan runs at a time."
OneScanAtATime == \A i, j \in Job : isRunning(i) /\ isRunning(j) => i = j

\* A running scan is the one Handler.job points to, so that the progress and
\* cancel handlers, which only know Handler.job, can reach it.
RunningIsRegistered == \A j \in Job : isRunning(j) => job = j

\* A job reports one outcome and never revises it, whatever is cancelled,
\* adopted or shut down afterwards (finish is called once on every path of run).
OutcomeFinal ==
  [][\A j \in Job : status[j] \in Terminal => status'[j] = status[j]]_vars

\* The outcome tells the truth: "cancelled" only after a cancellation or the
\* deadline; any other outcome only when every network of the job has a
\* result; "failed" only when nothing at all was scanned.
HonestOutcome ==
  \A j \in Job :
    /\ status[j] = "cancelled" => ctx[j] # "live"
    /\ status[j] \in {"done", "failed"} /\ ~param[j].single =>
         \A n \in param[j].nets : result[j][n] # "none"
    /\ status[j] = "failed" => \A n \in Net : result[j][n] # "scanned"

\* Except in a nightly job, a host is probed after a sweep only if its network belongs
\* to the job and has just been swept: by the job itself, or, while the job ran, by
\* somebody else, the sweep outside Handler.job or a GET /api/scan, whose new devices
\* scanNetwork credits to the job.  A network that failed or was skipped is not probed
\* on the strength of an older sweep (SweepJoin, runNewDeviceDeepScan, scanNetwork).
ProbeFollowsSweep ==
  \A j \in Job, n \in Net :
    /\ net[j][n] \in {"queued", "probing", "stuck"}
    /\ param[j].mode # "deep" /\ ~param[j].nightly
    => n \in param[j].nets /\ (result[j][n] = "scanned" \/ n \in visited[j])

\* What the comment on runNewDeviceDeepScan says: it "immediately profiles only records
\* created by this Stage 1 job" (scanjob.go).  It does not hold: a device that a
\* GET /api/scan met is probed by a job that skipped the network.
ProbesOnlyItsOwn ==
  \A j \in Job, n \in Net :
    /\ net[j][n] \in {"queued", "probing", "stuck"}
    /\ param[j].mode # "deep" /\ ~param[j].nightly
    => result[j][n] = "scanned"

\* Once every job goroutine has returned the dashboard shows no scan: no flag
\* is left behind by a cancelled, failed, overlapping or adopted job.
FlagsCleanWhenIdle ==
  (\A j \in Job : pc[j] \in {"off", "gone"}) =>
     /\ ~scanRunning
     /\ scanning = {} /\ deepScanning = {} /\ completed = {}
     /\ current = NoNet

\* The network shown as the current one is one of those shown as scanning,
\* whichever job's flags are cleared under another's feet.
CurrentIsScanning == current # NoNet => current \in scanning

\* "IsScanRunning reports whether a scan is currently running" (storage.go:113)
IsScanRunningTruthful ==
  \A j \in Job : isRunning(j) /\ ~param[j].single => scanRunning

\* The nightly window opens one nightly job, however many automatic jobs start
\* in it (last_deep_scan_date, scanjob.go:1235).
NightlyOnce ==
  \A i, j \in Job : param[i].nightly /\ param[j].nightly => i = j

\* The places of run from which it writes to the store: sweeping, saving the date of
\* the nightly scan, probing, merging the supplemental sources, ProcessMissingDevices
Writing(j) ==
  \/ pc[j] \in {"merging", "missing"}
  \/ \E n \in Net : net[j][n] \in {"sweep", "dated", "probing", "stuck"}

\* "Wait for that goroutine to unwind so we do not exit mid-write" (serve.go): when the
\* wait ends before its bound, no job is writing and none begins to, not even one that
\* the background scanner or a late handler starts afterwards; and no GET /api/scan is
\* writing, unless server.Shutdown gave up waiting for the handlers.  (What may still be
\* written is the date of the nightly scan, by a background start, before the job exists.)
CleanExit ==
  srv = "waited" => /\ \A j \in Job : ~Writing(j)
                    /\ late \/ \A q \in Request : request[q] = NoNet

\* What the same comment says first: "scanCancel above cancels the context of any scan
\* in flight".  It does not hold: a GET /api/scan descends from its request, and still
\* sweeps and merges when the wait is over.
NoScanOutlivesTheWait == srv = "waited" => \A q \in Request : request[q] = NoNet

\* Every job comes to an end, unless its queue is left sending (QueueStick).
EveryJobEnds ==
  \A j \in Job :
    isRunning(j) ~> \/ ~isRunning(j)
                    \/ \E n \in Net : net[j][n] = "stuck"

\* Shutdown ends even if a scan does not ("bounded so a stuck scan cannot
\* block shutdown forever", serve.go).
ShutdownEnds == srv = "stopping" ~> srv \in {"waited", "timedOut"}

\* The abstract promise, with the slot read off Handler.job
Slot == INSTANCE ScanSlot WITH
  slot    <- IF Idle THEN NoJob ELSE job,
  outcome <- [j \in Job |-> IF status[j] \in Terminal THEN status[j] ELSE "none"]

\* The scan API gives its one slot to one job at a time and takes it back with
\* one outcome (handleScanStart, handleDeviceDeepScan, startBackgroundNetworks
\* and finish, seen through ScanSlot).
ImplementsScanSlot == Slot!SlotSpec
=============================================================================
