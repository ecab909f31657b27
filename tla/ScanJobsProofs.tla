--------------------------- MODULE ScanJobsProofs ---------------------------
(***************************************************************************)
(* Proofs about ScanJobs, for any number of jobs and networks.             *)
(***************************************************************************)
EXTENDS ScanJobs, TLAPS

-----------------------------------------------------------------------------
(* Type correctness. *)

\* The fields startScanJob is given make a well-formed job.
LEMMA StartTypeOK ==
  ASSUME TypeOK, NEW j \in Job, NEW p \in Param, startScanJob(j, p),
         job' \in Job \cup {NoJob},
         bg' \in Bg, UNCHANGED continuous, kicks' \subseteq Kick, nightDone' \in BOOLEAN,
         UNCHANGED <<request, srv, late>>
  PROVE  TypeOK'
PROOF
  <1>1. scanCtx \in {"live", "cancelled", "deadline"}
    BY DEF scanCtx
  <1>2. p.nets \subseteq Net /\ p.single \in BOOLEAN
    BY DEF Param
  <1>3. status' \in [Job -> Terminal \cup {"none", "running"}]
    BY DEF TypeOK, startScanJob
  <1>4. pc' \in [Job -> Pc] /\ ctx' \in [Job -> {"live", "cancelled", "deadline"}]
    BY <1>1 DEF TypeOK, startScanJob, Pc
  <1>5. net' \in [Job -> [Net -> NetPc]]
    BY DEF TypeOK, startScanJob, NetPc, SweepPc
  <1>6. param' \in [Job -> Param]
    BY DEF TypeOK, startScanJob
  <1>7. /\ scanning' \subseteq Net /\ current' \in Net \cup {NoNet}
        /\ scanRunning' \in BOOLEAN /\ completed' \subseteq Net
    BY <1>2 DEF TypeOK, startScanJob
  <1> QED
    BY <1>3, <1>4, <1>5, <1>6, <1>7 DEF TypeOK, startScanJob

\* Moving the goroutine of one network to a known place keeps the type of net.
LEMMA NetGotoType ==
  ASSUME net \in [Job -> [Net -> NetPc]], NEW j \in Job, NEW n \in Net,
         NEW at \in NetPc, NetGoto(j, n, at)
  PROVE  net' \in [Job -> [Net -> NetPc]]
PROOF
  <1>1. [net[j] EXCEPT ![n] = at] \in [Net -> NetPc]
    OBVIOUS
  <1> QED
    BY <1>1 DEF NetGoto

\* Recording the result of one network keeps the type of result.
LEMMA ResultType ==
  ASSUME result \in [Job -> [Net -> Result]], NEW j \in Job, NEW n \in Net,
         NEW r \in Result, result' = [result EXCEPT ![j][n] = r]
  PROVE  result' \in [Job -> [Net -> Result]]
PROOF
  <1>1. [result[j] EXCEPT ![n] = r] \in [Net -> Result]
    OBVIOUS
  <1> QED
    BY <1>1

\* Crediting new devices and noting a visit keep the types of fresh and visited.
LEMMA VisitType ==
  ASSUME TypeOK, NEW n \in Net, Credit(n), NEW I, Visit(n, I)
  PROVE  fresh' \in [Job -> SUBSET Net] /\ visited' \in [Job -> SUBSET Net]
PROOF
  <1>1. fresh' \in [Job -> SUBSET Net]
    BY DEF TypeOK, Credit, Idle
  <1>2. visited' \in [Job -> SUBSET Net]
    BY DEF TypeOK, Visit
  <1> QED
    BY <1>1, <1>2

\* Queueing the networks of a job keeps the type of net.
LEMMA EnqueueType ==
  ASSUME net \in [Job -> [Net -> NetPc]], NEW j \in Job, NEW Q, NEW at,
         Enqueue(j, Q, at)
  PROVE  net' \in [Job -> [Net -> NetPc]]
  BY DEF Enqueue, NetPc

\* No action breaks the type of a variable.
LEMMA TypeNext == TypeOK /\ [Next]_vars => TypeOK'
PROOF
  <1> SUFFICES ASSUME TypeOK, [Next]_vars PROVE TypeOK'
    OBVIOUS
  <1> USE DEF TypeOK
  <1>1. CASE handleScanStart
    <2>1. PICK j \in Job, nets \in (SUBSET Net) \ {{}}, mode \in Modes :
            /\ startScanJob(j, [nets |-> nets, mode |-> mode,
                   single |-> FALSE, automatic |-> FALSE, nightly |-> FALSE])
            /\ job' = j
      BY <1>1 DEF handleScanStart, StartIf
    <2>2. [nets |-> nets, mode |-> mode, single |-> FALSE,
           automatic |-> FALSE, nightly |-> FALSE] \in Param
      BY ScanJobsAssumption DEF Param, Mode, ScanJobsAssumption
    <2> QED
      BY <1>1, <2>1, <2>2, StartTypeOK DEF handleScanStart, StartIf, srvVars
  <1>2. CASE handleDeviceDeepScan
    <2>1. PICK j \in Job, n \in Net :
            /\ startScanJob(j, [nets |-> {n}, mode |-> "deep",
                   single |-> TRUE, automatic |-> FALSE, nightly |-> FALSE])
            /\ job' = j
      BY <1>2 DEF handleDeviceDeepScan
    <2>2. [nets |-> {n}, mode |-> "deep", single |-> TRUE,
           automatic |-> FALSE, nightly |-> FALSE] \in Param
      BY DEF Param, Mode
    <2> QED
      BY <1>2, <2>1, <2>2, StartTypeOK DEF handleDeviceDeepScan, srvVars
  <1>3. CASE adopt
    <2>1. job \in Job /\ param[job] \in Param
      BY <1>3 DEF adopt, Idle
    <2>2. [param[job] EXCEPT !.automatic = FALSE] \in Param
      BY <2>1 DEF Param
    <2>3. param' = [param EXCEPT ![job] = [@ EXCEPT !.automatic = FALSE]]
      BY <1>3 DEF adopt
    <2>4. param' \in [Job -> Param]
      BY <2>2, <2>3
    <2> QED
      BY <1>3, <2>4 DEF adopt, flagVars, srvVars
  <1>4. CASE handleScanCancel
    BY <1>4 DEF handleScanCancel, Idle, flagVars, srvVars
  <1>5. CASE handleScanContinuous
    BY <1>5 DEF handleScanContinuous, jobVars, flagVars
  <1>6. ASSUME NEW j \in Job, NEW atThree \in BOOLEAN, BackgroundJob(j, atThree),
               bg' \in Bg, UNCHANGED continuous, kicks' \subseteq Kick,
               UNCHANGED <<request, srv, late>>
        PROVE  TypeOK'
    <2>1. (EnablePortScan /\ atThree /\ ~nightDone) \in BOOLEAN
      BY ScanJobsAssumption
    <2>2. [nets |-> Net, mode |-> "both", single |-> FALSE, automatic |-> TRUE,
           nightly |-> (EnablePortScan /\ atThree /\ ~nightDone)] \in Param
      BY <2>1 DEF Param, Mode
    <2>3. job' \in Job \cup {NoJob} /\ nightDone' \in BOOLEAN
      BY <1>6, <2>1 DEF BackgroundJob, MarkNight
    <2> QED
      BY <1>6, <2>2, <2>3, StartTypeOK DEF BackgroundJob
  <1>7. CASE \E k \in Kick : runBackgroundScan(k)
    <2>1. PICK k \in Kick : runBackgroundScan(k)
      BY <1>7
    <2>2. CASE UNCHANGED <<jobVars, flagVars, job, nightDone>>
      BY <2>1, <2>2 DEF runBackgroundScan, jobVars, flagVars
    <2>3. CASE \E j \in Job, atThree \in BOOLEAN : BackgroundJob(j, atThree)
      BY <1>6, <2>1, <2>3 DEF runBackgroundScan
    <2> QED
      BY <2>1, <2>2, <2>3 DEF runBackgroundScan
  <1>8. CASE BgWait \/ BgWaitJob \/ BgPause \/ BgWaitSweep
    BY <1>8 DEF BgWait, BgWaitJob, BgPause, BgWaitSweep, BgGoto, Bg,
                jobVars, flagVars
  <1>9. CASE BgTop
    <2>1. CASE BgGoto("wait") /\ UNCHANGED <<jobVars, flagVars, job, nightDone>>
      BY <1>9, <2>1 DEF BgTop, BgGoto, Bg, jobVars, flagVars
    <2>2. ASSUME NEW j \in Job, NEW atThree \in BOOLEAN,
                 BackgroundJob(j, atThree),
                 bg' = [at |-> "waitJob", job |-> j,
                        nightly |-> param'[j].nightly]
          PROVE  TypeOK'
      <3>1. param'[j].nightly = (EnablePortScan /\ atThree /\ ~nightDone)
        BY <2>2 DEF BackgroundJob, startScanJob
      <3>2. bg' \in Bg
        BY <2>2, <3>1, ScanJobsAssumption DEF Bg
      <3> QED
        BY <1>6, <1>9, <2>2, <3>2 DEF BgTop
    <2> QED
      BY <1>9, <2>1, <2>2 DEF BgTop
  <1>10. CASE BgResweep
    <2>1. CASE bg' = [bg EXCEPT !.at = "top", !.nightly = FALSE]
                 /\ UNCHANGED <<jobVars, flagVars>>
      BY <1>10, <2>1 DEF BgResweep, Bg, jobVars, flagVars
    <2>2. ASSUME NEW j \in Job,
                 startScanJob(j, [nets |-> Net, mode |-> "quick",
                   single |-> FALSE, automatic |-> TRUE, nightly |-> FALSE]),
                 bg' = [at |-> "waitSweep", job |-> j, nightly |-> FALSE]
          PROVE  TypeOK'
      <3>1. [nets |-> Net, mode |-> "quick", single |-> FALSE,
             automatic |-> TRUE, nightly |-> FALSE] \in Param
        BY DEF Param, Mode
      <3>2. bg' \in Bg
        BY <2>2 DEF Bg
      <3> QED
        BY <1>10, <2>2, <3>1, <3>2, StartTypeOK DEF BgResweep
    <2> QED
      BY <1>10, <2>1, <2>2 DEF BgResweep
  <1>11. ASSUME NEW j \in Job, NEW n \in Net, SweepBegin(j, n) PROVE TypeOK'
    <2>1. net' \in [Job -> [Net -> NetPc]]
      BY <1>11, NetGotoType DEF SweepBegin, NetPc, SweepPc
    <2> QED
      BY <1>11, <2>1 DEF SweepBegin, MarkScanning, srvVars
  <1>12. ASSUME NEW j \in Job, NEW n \in Net, SweepRate(j, n) PROVE TypeOK'
    <2>1. net' \in [Job -> [Net -> NetPc]]
      BY <1>12, NetGotoType DEF SweepRate, NetPc, SweepPc
    <2>2. result' \in [Job -> [Net -> Result]]
      BY <1>12, ResultType DEF SweepRate, Result
    <2> QED
      BY <1>12, <2>1, <2>2 DEF SweepRate, UnmarkScanning, srvVars
  <1>13. ASSUME NEW j \in Job, NEW n \in Net, SweepWait(j, n) PROVE TypeOK'
    <2>1. net' \in [Job -> [Net -> NetPc]]
      BY <1>13, NetGotoType DEF SweepWait, NetPc, SweepPc
    <2> QED
      BY <1>13, <2>1 DEF SweepWait, srvVars, flagVars
  <1>14. ASSUME NEW j \in Job, NEW n \in Net, SweepOk(j, n) PROVE TypeOK'
    <2>1. net' \in [Job -> [Net -> NetPc]]
      BY <1>14, NetGotoType DEF SweepOk, NetPc, SweepPc
    <2>2. result' \in [Job -> [Net -> Result]]
      BY <1>14, ResultType DEF SweepOk, Result
    <2>3. fresh' \in [Job -> SUBSET Net] /\ visited' \in [Job -> SUBSET Net]
      BY <1>14, VisitType DEF SweepOk
    <2>4. deepTargets' \in [Job -> SUBSET Net]
      BY <1>14 DEF SweepOk
    <2> QED
      BY <1>14, <2>1, <2>2, <2>3, <2>4 DEF SweepOk, UnmarkScanning, srvVars
  <1>15. ASSUME NEW j \in Job, NEW n \in Net, SweepError(j, n) PROVE TypeOK'
    <2>1. net' \in [Job -> [Net -> NetPc]]
      BY <1>15, NetGotoType DEF SweepError, NetPc, SweepPc
    <2>2. result' \in [Job -> [Net -> Result]]
      BY <1>15, ResultType DEF SweepError, Result
    <2> QED
      BY <1>15, <2>1, <2>2 DEF SweepError, UnmarkScanning, srvVars
  <1>16. ASSUME NEW j \in Job, NEW n \in Net, SweepDate(j, n) PROVE TypeOK'
    <2>1. net' \in [Job -> [Net -> NetPc]]
      BY <1>16, NetGotoType DEF SweepDate, NetPc, SweepPc
    <2> QED
      BY <1>16, <2>1 DEF SweepDate, flagVars
  <1>17. ASSUME NEW j \in Job, NEW n \in Net, QueueBegin(j, n) PROVE TypeOK'
    <2>1. net' \in [Job -> [Net -> NetPc]]
      BY <1>17, NetGotoType DEF QueueBegin, NetPc, SweepPc
    <2> QED
      BY <1>17, <2>1 DEF QueueBegin, MarkScanning, srvVars
  <1>18. ASSUME NEW j \in Job, NEW n \in Net, QueueEnd(j, n) PROVE TypeOK'
    <2>1. net' \in [Job -> [Net -> NetPc]]
      BY <1>18, NetGotoType DEF QueueEnd, NetPc, SweepPc
    <2> QED
      BY <1>18, <2>1 DEF QueueEnd, UnmarkScanning, srvVars
  <1>19. ASSUME NEW j \in Job, NEW n \in Net, QueueStick(j, n) PROVE TypeOK'
    <2>1. net' \in [Job -> [Net -> NetPc]]
      BY <1>19, NetGotoType DEF QueueStick, NetPc, SweepPc
    <2> QED
      BY <1>19, <2>1 DEF QueueStick, srvVars, flagVars
  <1>20. ASSUME NEW j \in Job, SweepJoin(j) PROVE TypeOK'
    <2>1. net' \in [Job -> [Net -> NetPc]]
      BY <1>20, EnqueueType DEF SweepJoin
    <2> QED
      BY <1>20, <2>1 DEF SweepJoin, finish, Enqueue, JobGoto, Pc, Terminal,
         srvVars, flagVars
  <1>21. ASSUME NEW j \in Job, runDeepScan(j) PROVE TypeOK'
    <2>1. net' \in [Job -> [Net -> NetPc]]
      BY <1>21, EnqueueType DEF runDeepScan
    <2> QED
      BY <1>21, <2>1 DEF runDeepScan, finish, Enqueue, JobGoto, Pc, Terminal,
         srvVars, flagVars
  <1>22. CASE \E j \in Job : QueueJoin(j)
    BY <1>22 DEF QueueJoin, finish, ClearScanningNetworks, JobGoto, Pc,
       Terminal, srvVars
  <1>23. ASSUME NEW j \in Job, DeepEnd(j) PROVE TypeOK'
    <2>1. result' \in [Job -> [Net -> Result]]
      BY <1>23 DEF DeepEnd, Result
    <2> QED
      BY <1>23, <2>1 DEF DeepEnd, finish, JobGoto, Pc, Terminal, srvVars,
         flagVars
  <1>24. CASE \E j \in Job : Supplement(j) \/ Judge(j) \/ Missing(j)
    BY <1>24 DEF Supplement, Judge, Missing, Verdict, finish, JobGoto, Pc,
       Terminal, srvVars, flagVars
  <1>25. CASE \E j \in Job : Deferred(j)
    BY <1>25 DEF Deferred, ClearScanningNetworks, JobGoto, Pc, srvVars
  <1>26. CASE \E j \in Job : Deadline(j)
    BY <1>26 DEF Deadline, srvVars, flagVars
  <1>27. CASE ShutdownBegin \/ ShutdownDrain \/ ShutdownWaited \/ ShutdownTimeout
    BY <1>27 DEF ShutdownBegin, ShutdownDrain, ShutdownWaited,
       ShutdownTimeout, jobVars, flagVars
  <1>28. CASE UNCHANGED vars
    BY <1>28 DEF vars, jobVars, flagVars, srvVars
  <1>29. ASSUME NEW j \in Job, NEW n \in Net, QueueLast(j, n) PROVE TypeOK'
    BY <1>29 DEF QueueLast, jobVars, srvVars
  <1>30. CASE \E q \in Request : handleScan(q)
    BY <1>30 DEF handleScan, jobVars, flagVars
  <1>31. ASSUME NEW q \in Request, scanAllNetworks(q) PROVE TypeOK'
    <2>1. request' \in [Request -> Net \cup {NoNet}]
      BY <1>31 DEF scanAllNetworks
    <2>2. fresh' \in [Job -> SUBSET Net] /\ visited' \in [Job -> SUBSET Net]
      BY <1>31, VisitType DEF scanAllNetworks
    <2> QED
      BY <1>31, <2>1, <2>2 DEF scanAllNetworks, flagVars
  <1> QED
    BY <1>1, <1>2, <1>3, <1>4, <1>5, <1>7, <1>8, <1>9, <1>10, <1>11, <1>12,
       <1>13, <1>14, <1>15, <1>16, <1>17, <1>18, <1>19, <1>20, <1>21, <1>22,
       <1>23, <1>24, <1>25, <1>26, <1>27, <1>28, <1>29, <1>30, <1>31 DEF Next, Background, Run,
       Sweep

\* The initial values have their types.
LEMMA TypeInit == Init => TypeOK
PROOF
  <1> SUFFICES ASSUME Init PROVE TypeOK
    OBVIOUS
  <1> USE DEF Init
  <1>1. Unborn \in Param
    BY DEF Unborn, Param, Mode
  <1>2. bg \in Bg
    BY DEF Bg
  <1>3. net \in [Job -> [Net -> NetPc]] /\ pc \in [Job -> Pc]
    BY DEF NetPc, Pc
  <1> QED
    BY <1>1, <1>2, <1>3 DEF TypeOK, Result

\* Every variable keeps its type (all the actions of ScanJobs).
THEOREM TypeCorrect == Spec => []TypeOK
  BY TypeInit, TypeNext, PTL DEF Spec

-----------------------------------------------------------------------------
(* The inductive invariant: how the fields of one job hang together. *)

Active == {"sweep", "deep", "queue", "deepEnd", "supplement", "merging", "judge",
           "missing"}
Ending == {"clearCompleted", "clearCurrent", "clearScanning", "clearRunning", "gone"}

\* The status is set on the way into run and, once, on the way out of it.
StatusMatchesPc(j) ==
  /\ status[j] = "none" <=> pc[j] = "off"
  /\ status[j] = "running" <=> pc[j] \in Active
  /\ status[j] \in Terminal <=> pc[j] \in Ending

\* The goroutines of the networks run only while the job waits for them.
NetsMatchPc(j) ==
  /\ pc[j] = "sweep" => \A n \in Net :
       /\ net[j][n] \in SweepPc \cup {"off", "end"}
       /\ n \in param[j].nets => net[j][n] # "off"
  /\ pc[j] = "queue" =>
       \A n \in Net : net[j][n] \in {"off", "end", "queued", "probing", "stuck"}
  /\ pc[j] \notin {"sweep", "queue"} => \A n \in Net : net[j][n] \in {"off", "end"}
  /\ pc[j] \in {"deep", "deepEnd"} => param[j].mode = "deep"
  /\ pc[j] \in {"sweep", "supplement", "merging", "judge", "missing"} =>
       param[j].mode # "deep"

\* A network whose goroutine has ended has a result, unless it was cancelled.
ResultsKept(j) ==
  \A n \in param[j].nets :
    /\ pc[j] = "sweep" /\ net[j][n] \in {"end", "dated"} =>
         result[j][n] # "none" \/ Done(j)
    /\ pc[j] \in {"queue", "supplement", "merging", "judge", "missing"}
       /\ param[j].mode # "deep" => result[j][n] # "none"

\* HonestOutcome of one job
Honest(j) ==
  /\ status[j] = "cancelled" => ctx[j] # "live"
  /\ status[j] \in {"done", "failed"} /\ ~param[j].single =>
       \A n \in param[j].nets : result[j][n] # "none"
  /\ status[j] = "failed" => \A n \in Net : result[j][n] # "scanned"

JobInv(j) == StatusMatchesPc(j) /\ NetsMatchPc(j) /\ ResultsKept(j) /\ Honest(j)

IInv == TypeOK /\ \A j \in Job : JobInv(j)

\* What a step does to the jobs it is not about: nothing but cancelling them
\* or marking them as the user's.
Untouched(j) ==
  /\ status'[j] = status[j] /\ pc'[j] = pc[j]
  /\ net'[j] = net[j] /\ result'[j] = result[j]
  /\ param'[j].nets = param[j].nets /\ param'[j].mode = param[j].mode
  /\ param'[j].single = param[j].single
  /\ ctx'[j] = ctx[j] \/ ctx[j] = "live"
  /\ ctx[j] # "live" => ctx'[j] # "live"

\* An untouched job keeps its invariant.
LEMMA UntouchedKeeps ==
  ASSUME NEW j \in Job, JobInv(j), Untouched(j)
  PROVE  JobInv(j)'
PROOF
  <1>1. StatusMatchesPc(j)'
    BY DEF JobInv, StatusMatchesPc, Untouched
  <1>2. NetsMatchPc(j)'
    BY DEF JobInv, NetsMatchPc, Untouched
  <1>3. ResultsKept(j)'
    BY DEF JobInv, ResultsKept, Untouched, Done
  <1>4. Honest(j)'
    BY DEF JobInv, Honest, Untouched
  <1> QED
    BY <1>1, <1>2, <1>3, <1>4 DEF JobInv

\* A job that starts has no outcome yet, and its networks are about to begin.
LEMMA StartKeeps ==
  ASSUME TypeOK, \A i \in Job : JobInv(i), NEW j \in Job, NEW p \in Param,
         startScanJob(j, p)
  PROVE  \A i \in Job : JobInv(i)'
PROOF
  <1>1. \A i \in Job \ {j} : Untouched(i)
    BY DEF TypeOK, startScanJob, Untouched
  <1>2. /\ status'[j] = "running"
        /\ pc'[j] = (IF p.mode = "deep" THEN "deep" ELSE "sweep")
        /\ param'[j] = p
        /\ net'[j] = [n \in Net |-> IF n \in p.nets /\ p.mode # "deep"
                                   THEN "begin" ELSE "off"]
    BY DEF TypeOK, startScanJob
  <1>3. StatusMatchesPc(j)' /\ Honest(j)'
    BY <1>2 DEF StatusMatchesPc, Honest, Active, Ending, Terminal
  <1>4. NetsMatchPc(j)'
    BY <1>2 DEF NetsMatchPc, SweepPc
  <1>5. ResultsKept(j)'
    BY <1>2 DEF ResultsKept, Param
  <1> QED
    BY <1>1, <1>3, <1>4, <1>5, UntouchedKeeps DEF JobInv

\* A step of one sweep goroutine keeps the invariant of its job.
LEMMA SweepKeeps ==
  ASSUME TypeOK, NEW j \in Job, NEW n \in Net, JobInv(j), Sweep(j, n)
  PROVE  JobInv(j)'
PROOF
  <1>1. /\ net[j][n] \in SweepPc
        /\ \E at \in SweepPc \cup {"end"} : NetGoto(j, n, at)
    BY DEF Sweep, SweepBegin, SweepRate, SweepWait, SweepOk, SweepError, SweepDate,
           NetGoto, SweepPc
  <1>2. UNCHANGED <<status, pc, param, ctx>>
    BY DEF Sweep, SweepBegin, SweepRate, SweepWait, SweepOk, SweepError, SweepDate
  <1>3. \/ UNCHANGED result
        \/ \E r \in Result \ {"none"} : result' = [result EXCEPT ![j][n] = r]
    BY DEF Sweep, SweepBegin, SweepRate, SweepWait, SweepOk, SweepError, SweepDate,
           Result
  <1>4. pc[j] = "sweep"
    BY <1>1 DEF JobInv, NetsMatchPc, SweepPc
  <1>5. status[j] = "running"
    BY <1>4 DEF JobInv, StatusMatchesPc, Active
  <1>6. net'[j][n] # "off" /\ net'[j][n] \in SweepPc \cup {"off", "end"}
        /\ \A m \in Net \ {n} : net'[j][m] = net[j][m]
    BY <1>1 DEF TypeOK, NetGoto, SweepPc
  <1>7. \A m \in Net \ {n} : result'[j][m] = result[j][m]
    BY <1>3 DEF TypeOK
  <1>8. ASSUME n \in param[j].nets, net'[j][n] \in {"end", "dated"}
        PROVE  result'[j][n] # "none" \/ Done(j)
    <2>1. CASE SweepBegin(j, n) \/ SweepWait(j, n)
      BY <1>8, <2>1 DEF SweepBegin, SweepWait, NetGoto, TypeOK
    <2>2. CASE SweepRate(j, n)
      BY <1>8, <2>2 DEF SweepRate, NetGoto, TypeOK
    <2>3. CASE SweepOk(j, n) \/ SweepError(j, n)
      BY <2>3 DEF SweepOk, SweepError, TypeOK
    <2>4. CASE SweepDate(j, n)
      BY <1>4, <1>8, <2>4 DEF SweepDate, JobInv, ResultsKept
    <2> QED
      BY <2>1, <2>2, <2>3, <2>4 DEF Sweep
  <1>9. StatusMatchesPc(j)' /\ Honest(j)'
    BY <1>2, <1>5, <1>4 DEF JobInv, StatusMatchesPc, Honest
  <1>10. NetsMatchPc(j)'
    BY <1>2, <1>4, <1>6 DEF JobInv, NetsMatchPc
  <1>11. ResultsKept(j)'
    BY <1>2, <1>4, <1>6, <1>7, <1>8 DEF JobInv, ResultsKept, Done, TypeOK, Param
  <1> QED
    BY <1>9, <1>10, <1>11 DEF JobInv

\* A step of one queued network keeps the invariant of its job.
LEMMA QueueKeeps ==
  ASSUME TypeOK, NEW j \in Job, NEW n \in Net, JobInv(j),
         QueueBegin(j, n) \/ QueueEnd(j, n) \/ QueueStick(j, n)
  PROVE  JobInv(j)'
PROOF
  <1>1. /\ net[j][n] \in {"queued", "probing"}
        /\ \E at \in {"probing", "end", "stuck"} : NetGoto(j, n, at)
    BY DEF QueueBegin, QueueEnd, QueueStick
  <1>2. UNCHANGED <<status, pc, param, ctx, result>>
    BY DEF QueueBegin, QueueEnd, QueueStick
  <1>3. pc[j] = "queue"
    BY <1>1 DEF JobInv, NetsMatchPc, SweepPc
  <1>4. /\ net'[j][n] \in {"probing", "end", "stuck"}
        /\ \A m \in Net \ {n} : net'[j][m] = net[j][m]
    BY <1>1 DEF TypeOK, NetGoto
  <1>5. StatusMatchesPc(j)' /\ Honest(j)'
    BY <1>2 DEF JobInv, StatusMatchesPc, Honest
  <1>6. NetsMatchPc(j)'
    BY <1>2, <1>3, <1>4 DEF JobInv, NetsMatchPc
  <1>7. ResultsKept(j)'
    BY <1>2, <1>3 DEF JobInv, ResultsKept, Done
  <1> QED
    BY <1>5, <1>6, <1>7 DEF JobInv

\* finish ends a running job with an outcome that is true of it.
LEMMA FinishKeeps ==
  ASSUME TypeOK, NEW j \in Job, NEW s \in Terminal, finish(j, s),
         \A n \in Net : net'[j][n] \in {"off", "end"},
         s = "cancelled" => ctx'[j] # "live",
         s \in {"done", "failed"} /\ ~param'[j].single =>
           \A n \in param'[j].nets : result'[j][n] # "none",
         s = "failed" => \A n \in Net : result'[j][n] # "scanned"
  PROVE  JobInv(j)'
PROOF
  <1>1. status'[j] = s /\ pc'[j] = "clearCompleted"
    BY DEF finish, JobGoto, TypeOK
  <1>2. StatusMatchesPc(j)'
    BY <1>1 DEF StatusMatchesPc, Active, Ending, Terminal
  <1>3. NetsMatchPc(j)' /\ ResultsKept(j)' /\ Honest(j)'
    BY <1>1 DEF NetsMatchPc, ResultsKept, Honest
  <1> QED
    BY <1>2, <1>3 DEF JobInv

\* A step of the job's own goroutine keeps its invariant.
LEMMA RunKeeps ==
  ASSUME TypeOK, NEW j \in Job, JobInv(j),
         \/ SweepJoin(j) \/ runDeepScan(j) \/ QueueJoin(j) \/ DeepEnd(j)
         \/ Supplement(j) \/ Judge(j) \/ Missing(j) \/ Deferred(j)
  PROVE  JobInv(j)'
PROOF
  <1>1. CASE SweepJoin(j)
    <2>1. \A n \in param[j].nets : n \in Net /\ (result[j][n] # "none" \/ Done(j))
      BY <1>1 DEF SweepJoin, JobInv, NetsMatchPc, ResultsKept, TypeOK, Param
    <2>2. CASE Done(j) /\ finish(j, "cancelled") /\ UNCHANGED net
      BY <1>1, <2>2, FinishKeeps DEF SweepJoin, Done, Terminal
    <2>3. CASE /\ ~Done(j) /\ UNCHANGED status
               /\ \E Q \in SUBSET ProbeTargets(j) : Enqueue(j, Q, "supplement")
      <3>1. /\ pc'[j] \in {"queue", "supplement"}
            /\ \A n \in Net : net'[j][n] \in {"off", "end", "queued"}
            /\ pc'[j] = "supplement" => \A n \in Net : net'[j][n] \in {"off", "end"}
        BY <1>1, <2>3 DEF SweepJoin, Enqueue, JobGoto, TypeOK
      <3>2. UNCHANGED <<status, param, ctx, result>> /\ param[j].mode # "deep"
        BY <1>1, <2>3 DEF SweepJoin, JobInv, NetsMatchPc
      <3>3. StatusMatchesPc(j)' /\ Honest(j)'
        BY <1>1, <3>1, <3>2 DEF SweepJoin, JobInv, StatusMatchesPc, Honest, Active, Ending
      <3>4. NetsMatchPc(j)'
        BY <3>1, <3>2 DEF NetsMatchPc
      <3>5. ResultsKept(j)'
        BY <2>1, <2>3, <3>1, <3>2 DEF ResultsKept
      <3> QED
        BY <3>3, <3>4, <3>5 DEF JobInv
    <2> QED
      BY <1>1, <2>2, <2>3 DEF SweepJoin
  <1>2. CASE runDeepScan(j)
    <2>1. \A n \in Net : net[j][n] \in {"off", "end"}
      BY <1>2 DEF runDeepScan, JobInv, NetsMatchPc
    <2>2. CASE Done(j) /\ finish(j, "cancelled") /\ UNCHANGED net
      BY <1>2, <2>1, <2>2, FinishKeeps DEF runDeepScan, Done, Terminal
    <2>3. CASE UNCHANGED status /\ \E Q \in SUBSET param[j].nets : Enqueue(j, Q, "deepEnd")
      <3>1. /\ pc'[j] \in {"queue", "deepEnd"}
            /\ \A n \in Net : net'[j][n] \in {"off", "end", "queued"}
            /\ pc'[j] = "deepEnd" => \A n \in Net : net'[j][n] \in {"off", "end"}
        BY <2>1, <2>3 DEF Enqueue, JobGoto, TypeOK
      <3>2. UNCHANGED <<status, param, ctx, result>> /\ param[j].mode = "deep"
        BY <1>2, <2>3 DEF runDeepScan, JobInv, NetsMatchPc
      <3>3. StatusMatchesPc(j)' /\ Honest(j)'
        BY <1>2, <3>1, <3>2 DEF runDeepScan, JobInv, StatusMatchesPc, Honest, Active, Ending
      <3>4. NetsMatchPc(j)' /\ ResultsKept(j)'
        BY <3>1, <3>2 DEF NetsMatchPc, ResultsKept
      <3> QED
        BY <3>3, <3>4 DEF JobInv
    <2> QED
      BY <1>2, <2>2, <2>3 DEF runDeepScan
  <1>3. CASE QueueJoin(j)
    <2>1. CASE finish(j, "cancelled") /\ ctx[j] = "deadline"
      BY <1>3, <2>1, FinishKeeps DEF QueueJoin, Terminal
    <2>2. CASE /\ JobGoto(j, IF param[j].mode = "deep" THEN "deepEnd" ELSE "supplement")
               /\ UNCHANGED status
      <3>1. /\ UNCHANGED <<status, param, ctx, result, net>>
            /\ pc'[j] = (IF param[j].mode = "deep" THEN "deepEnd" ELSE "supplement")
        BY <1>3, <2>2 DEF QueueJoin, JobGoto, TypeOK
      <3>2. StatusMatchesPc(j)' /\ Honest(j)'
        BY <1>3, <3>1 DEF QueueJoin, JobInv, StatusMatchesPc, Honest, Active, Ending
      <3>3. NetsMatchPc(j)' /\ ResultsKept(j)'
        BY <1>3, <3>1 DEF QueueJoin, JobInv, NetsMatchPc, ResultsKept
      <3> QED
        BY <3>2, <3>3 DEF JobInv
    <2> QED
      BY <1>3, <2>1, <2>2 DEF QueueJoin
  <1>4. CASE DeepEnd(j)
    <2>1. \A n \in param[j].nets : ~param[j].single => result'[j][n] = "scanned"
      BY <1>4 DEF DeepEnd, TypeOK, Param
    <2>2. \A n \in Net : net[j][n] \in {"off", "end"}
      BY <1>4 DEF DeepEnd, JobInv, NetsMatchPc
    <2> QED
      BY <1>4, <2>1, <2>2, FinishKeeps DEF DeepEnd, Terminal, Done
  <1>5. CASE Supplement(j)
    <2>1. /\ UNCHANGED <<status, param, ctx, result, net>>
          /\ pc[j] \in {"supplement", "merging"} /\ pc'[j] \in {"merging", "judge"}
      BY <1>5 DEF Supplement, JobGoto, TypeOK
    <2> QED
      BY <2>1 DEF JobInv, StatusMatchesPc, NetsMatchPc, ResultsKept,
         Honest, Active, Ending
  <1>6. CASE Judge(j)
    <2>1. \A n \in Net : net[j][n] \in {"off", "end"}
      BY <1>6 DEF Judge, JobInv, NetsMatchPc
    <2>2. CASE Done(j) /\ finish(j, "cancelled")
      BY <1>6, <2>1, <2>2, FinishKeeps DEF Judge, Done, Terminal
    <2>3. CASE JobGoto(j, "missing") /\ UNCHANGED status
      <3>1. UNCHANGED <<status, param, ctx, result, net>> /\ pc'[j] = "missing"
        BY <1>6, <2>3 DEF Judge, JobGoto, TypeOK
      <3> QED
        BY <1>6, <3>1 DEF Judge, JobInv, StatusMatchesPc, NetsMatchPc, ResultsKept,
           Honest, Active, Ending
    <2> QED
      BY <1>6, <2>2, <2>3 DEF Judge
  <1>7. CASE Missing(j)
    <2>1. /\ \A n \in Net : net[j][n] \in {"off", "end"}
          /\ \A n \in param[j].nets : result[j][n] # "none"
      BY <1>7 DEF Missing, JobInv, NetsMatchPc, ResultsKept
    <2>2. /\ Verdict(j) \in {"done", "failed"}
          /\ Verdict(j) = "failed" => \A n \in Net : result[j][n] # "scanned"
      BY DEF Verdict
    <2> QED
      BY <1>7, <2>1, <2>2, FinishKeeps DEF Missing, Terminal
  <1>8. CASE Deferred(j)
    <2>1. /\ UNCHANGED <<status, param, ctx, result, net>>
          /\ pc[j] \in Ending /\ pc'[j] \in Ending
      BY <1>8 DEF Deferred, JobGoto, TypeOK, Ending
    <2> QED
      BY <2>1 DEF JobInv, StatusMatchesPc, NetsMatchPc, ResultsKept, Honest, Active, Ending
  <1> QED
    BY <1>1, <1>2, <1>3, <1>4, <1>5, <1>6, <1>7, <1>8

\* The actions of a job's goroutines touch no other job.
LEMMA OthersUntouched ==
  ASSUME TypeOK, NEW j \in Job, Run(j) \/ \E n \in Net : QueueStick(j, n),
         NEW i \in Job \ {j}
  PROVE  Untouched(i)
PROOF
  <1> USE DEF TypeOK, Untouched
  <1>1. ASSUME NEW n \in Net, Sweep(j, n) PROVE Untouched(i)
    BY <1>1 DEF Sweep, SweepBegin, SweepRate, SweepWait, SweepOk, SweepError, SweepDate,
       NetGoto
  <1>2. ASSUME NEW n \in Net,
               QueueBegin(j, n) \/ QueueLast(j, n) \/ QueueEnd(j, n) \/ QueueStick(j, n)
        PROVE  Untouched(i)
    BY <1>2 DEF QueueBegin, QueueLast, QueueEnd, QueueStick, NetGoto, jobVars
  <1>3. CASE SweepJoin(j) \/ runDeepScan(j)
    BY <1>3 DEF SweepJoin, runDeepScan, finish, Enqueue, JobGoto
  <1>4. CASE QueueJoin(j) \/ DeepEnd(j) \/ Supplement(j) \/ Judge(j) \/ Missing(j)
    BY <1>4 DEF QueueJoin, DeepEnd, Supplement, Judge, Missing, finish, JobGoto
  <1>5. CASE Deferred(j)
    BY <1>5 DEF Deferred, JobGoto
  <1> QED
    BY <1>1, <1>2, <1>3, <1>4, <1>5 DEF Run

\* Every start goes through startScanJob; every other action outside the job
\* goroutines leaves the jobs alone, or cancels them.
LEMMA StartsAndTheRest ==
  ASSUME TypeOK, [Next]_vars
  PROVE  \/ \E j \in Job, p \in Param : startScanJob(j, p)
         \/ \E j \in Job : Run(j) \/ \E n \in Net : QueueStick(j, n)
         \/ \A j \in Job : Untouched(j)
PROOF
  <1> USE DEF TypeOK, Untouched
  <1>1. ASSUME NEW nets \in SUBSET Net, NEW mode \in Mode, NEW a \in BOOLEAN,
               NEW b \in BOOLEAN, NEW c \in BOOLEAN
        PROVE  [nets |-> nets, mode |-> mode, single |-> a, automatic |-> b,
                nightly |-> c] \in Param
    BY DEF Param
  <1>2. CASE handleScanStart \/ handleDeviceDeepScan
    BY <1>1, <1>2, ScanJobsAssumption
       DEF handleScanStart, StartIf, handleDeviceDeepScan, Mode
  <1>3. ASSUME NEW j \in Job, NEW atThree \in BOOLEAN, BackgroundJob(j, atThree)
        PROVE  \E p \in Param : startScanJob(j, p)
    <2>1. (EnablePortScan /\ atThree /\ ~nightDone) \in BOOLEAN /\ "both" \in Mode
      BY ScanJobsAssumption DEF Mode
    <2> QED
      BY <1>1, <1>3, <2>1 DEF BackgroundJob
  <1>4. CASE \E k \in Kick : runBackgroundScan(k)
    BY <1>3, <1>4 DEF runBackgroundScan, jobVars
  <1>5. CASE BgTop
    BY <1>3, <1>5 DEF BgTop, jobVars
  <1>6. CASE BgResweep
    BY <1>1, <1>6 DEF BgResweep, jobVars, Mode
  <1>7. CASE BgWait \/ BgWaitJob \/ BgPause \/ BgWaitSweep
    BY <1>7 DEF BgWait, BgWaitJob, BgPause, BgWaitSweep, jobVars
  <1>8. CASE handleScanContinuous
    BY <1>8 DEF handleScanContinuous, jobVars
  <1>9. CASE adopt
    BY <1>9 DEF adopt, Idle, Param
  <1>10. CASE handleScanCancel
    BY <1>10 DEF handleScanCancel, Idle
  <1>11. CASE ShutdownBegin \/ ShutdownDrain \/ ShutdownWaited \/ ShutdownTimeout
    BY <1>11 DEF ShutdownBegin, ShutdownDrain, ShutdownWaited, ShutdownTimeout, jobVars
  <1>12. CASE \E j \in Job : Deadline(j)
    BY <1>12 DEF Deadline
  <1>13. CASE UNCHANGED vars
    BY <1>13 DEF vars, jobVars
  <1>14. CASE \E q \in Request : handleScan(q) \/ scanAllNetworks(q)
    BY <1>14 DEF handleScan, scanAllNetworks, jobVars
  <1> QED
    BY <1>2, <1>4, <1>5, <1>6, <1>7, <1>8, <1>9, <1>10, <1>11, <1>12, <1>13, <1>14
       DEF Next, Background

\* The fields of every job hang together in every reachable state.
THEOREM Invariant == Spec => []IInv
PROOF
  <1>1. Init => IInv
    BY TypeInit DEF Init, IInv, JobInv, StatusMatchesPc, NetsMatchPc, ResultsKept,
       Honest, Unborn, Active, Ending, Terminal
  <1>2. IInv /\ [Next]_vars => IInv'
    <2> SUFFICES ASSUME IInv, [Next]_vars PROVE \A j \in Job : JobInv(j)'
      BY TypeNext DEF IInv
    <2>1. CASE \E j \in Job, p \in Param : startScanJob(j, p)
      BY <2>1, StartKeeps DEF IInv
    <2>2. ASSUME NEW j \in Job, Run(j) \/ \E n \in Net : QueueStick(j, n)
          PROVE  \A i \in Job : JobInv(i)'
      <3>1. CASE \E n \in Net : QueueLast(j, n)
        BY <3>1, UntouchedKeeps DEF QueueLast, jobVars, Untouched, IInv
      <3>2. JobInv(j)'
        BY <2>2, <3>1, SweepKeeps, QueueKeeps, RunKeeps DEF Run, IInv
      <3>3. \A i \in Job \ {j} : JobInv(i)'
        BY <2>2, OthersUntouched, UntouchedKeeps DEF IInv
      <3> QED
        BY <3>2, <3>3
    <2>3. CASE \A j \in Job : Untouched(j)
      BY <2>3, UntouchedKeeps DEF IInv
    <2> QED
      BY <2>1, <2>2, <2>3, StartsAndTheRest DEF IInv
  <1> QED
    BY <1>1, <1>2, PTL DEF Spec

\* A job never reports "cancelled" uncancelled, "failed" after a success, or
\* an end with a network unaccounted for, for any number of jobs and networks.
THEOREM OutcomesAreHonest == Spec => []HonestOutcome
PROOF
  <1>1. IInv => HonestOutcome
    BY DEF IInv, JobInv, Honest, HonestOutcome
  <1> QED
    BY <1>1, Invariant, PTL

-----------------------------------------------------------------------------
(* The slot. *)

\* A job that was found idle starts and is stored in Handler.job.
Registered == \E j \in Job :
  Idle /\ status[j] = "none" /\ job' = j /\ status' = [status EXCEPT ![j] = "running"]

\* The one start that is not stored: the sweep after the nightly job
Unregistered == \E j \in Job :
  /\ Idle /\ status[j] = "none" /\ UNCHANGED job
  /\ status' = [status EXCEPT ![j] = "running"]
  /\ bg.at = "resweep"

Finished == \E j \in Job, s \in Terminal :
  isRunning(j) /\ UNCHANGED job /\ status' = [status EXCEPT ![j] = s]

\* The four things a step can do to the slot, for every action of ScanJobs
\* (only handleScanStart, looking at the slot first, is a start by a user).
LEMMA SlotSteps ==
  ASSUME IInv, [Next]_vars
  PROVE  Registered \/ Unregistered \/ Finished \/ UNCHANGED <<status, job>>
PROOF
  <1>1. ASSUME NEW j \in Job, NEW p, startScanJob(j, p)
        PROVE  status[j] = "none" /\ status' = [status EXCEPT ![j] = "running"]
    BY <1>1 DEF startScanJob, IInv, JobInv, StatusMatchesPc
  <1>2. CASE handleScanStart
    BY <1>1, <1>2 DEF handleScanStart, StartIf, Registered
  <1>3. CASE handleDeviceDeepScan
    BY <1>1, <1>3 DEF handleDeviceDeepScan, Registered
  <1>4. ASSUME NEW j \in Job, NEW atThree, BackgroundJob(j, atThree) PROVE Registered
    BY <1>1, <1>4 DEF BackgroundJob, Registered
  <1>5. CASE \E k \in Kick : runBackgroundScan(k)
    BY <1>4, <1>5 DEF runBackgroundScan, jobVars
  <1>6. CASE BgTop
    BY <1>4, <1>6 DEF BgTop, jobVars
  <1>7. CASE BgResweep
    BY <1>1, <1>7 DEF BgResweep, Unregistered, jobVars
  <1>8. ASSUME NEW j \in Job, NEW s \in Terminal, finish(j, s), UNCHANGED job,
               pc[j] \in Active
        PROVE  Finished
    BY <1>8 DEF finish, Finished, isRunning, IInv, JobInv, StatusMatchesPc
  <1>9. ASSUME NEW j \in Job, Run(j)
        PROVE  Finished \/ UNCHANGED <<status, job>>
    <2>1. CASE \E n \in Net : \/ Sweep(j, n) \/ QueueBegin(j, n)
                            \/ QueueLast(j, n) \/ QueueEnd(j, n)
      BY <2>1 DEF Sweep, SweepBegin, SweepRate, SweepWait, SweepOk, SweepError, SweepDate,
         QueueBegin, QueueLast, QueueEnd, jobVars
    <2>2. CASE SweepJoin(j) \/ runDeepScan(j) \/ QueueJoin(j) \/ Judge(j)
      BY <1>8, <2>2 DEF SweepJoin, runDeepScan, QueueJoin, Judge, Active, Terminal
    <2>3. CASE DeepEnd(j) \/ Missing(j)
      BY <1>8, <2>3 DEF DeepEnd, Missing, Verdict, Active, Terminal
    <2>4. CASE Supplement(j) \/ Deferred(j)
      BY <2>4 DEF Supplement, Deferred
    <2> QED
      BY <1>9, <2>1, <2>2, <2>3, <2>4 DEF Run
  <1>10. CASE adopt \/ handleScanCancel \/ handleScanContinuous
    BY <1>10 DEF adopt, handleScanCancel, handleScanContinuous, jobVars
  <1>11. CASE BgWait \/ BgWaitJob \/ BgPause \/ BgWaitSweep
    BY <1>11 DEF BgWait, BgWaitJob, BgPause, BgWaitSweep, jobVars
  <1>12. CASE ShutdownBegin \/ ShutdownDrain \/ ShutdownWaited \/ ShutdownTimeout
    BY <1>12 DEF ShutdownBegin, ShutdownDrain, ShutdownWaited, ShutdownTimeout, jobVars
  <1>13. CASE \E j \in Job : Deadline(j) \/ \E n \in Net : QueueStick(j, n)
    BY <1>13 DEF Deadline, QueueStick
  <1>14. CASE UNCHANGED vars
    BY <1>14 DEF vars, jobVars
  <1>15. CASE \E q \in Request : handleScan(q) \/ scanAllNetworks(q)
    BY <1>15 DEF handleScan, scanAllNetworks, jobVars
  <1> QED
    BY <1>2, <1>3, <1>5, <1>6, <1>7, <1>9, <1>10, <1>11, <1>12, <1>13, <1>14, <1>15
       DEF Next, Background

\* A job's outcome is never revised, for any number of jobs and networks.
THEOREM OutcomesAreFinal == Spec => OutcomeFinal
PROOF
  <1>1. IInv /\ [Next]_vars =>
          [\A j \in Job : status[j] \in Terminal => status'[j] = status[j]]_vars
    <2> SUFFICES ASSUME IInv, [Next]_vars, NEW j \in Job, status[j] \in Terminal
                 PROVE  status'[j] = status[j]
      OBVIOUS
    <2>1. \A i \in Job : status[i] \in {"none", "running"} => i # j
      BY DEF Terminal
    <2> QED
      BY <2>1, SlotSteps DEF Registered, Unregistered, Finished, isRunning, IInv, TypeOK
  <1> QED
    BY <1>1, Invariant, PTL DEF Spec, OutcomeFinal

\* Without port scanning there is no nightly job and hence no unregistered one.
NoResweep ==
  /\ \A j \in Job : ~param[j].nightly
  /\ ~bg.nightly /\ bg.at # "resweep"

\* NoResweep is kept by every step.
LEMMA NoResweepNext ==
  ASSUME EnablePortScan = FALSE, TypeOK, NoResweep, [Next]_vars
  PROVE  NoResweep'
PROOF
  <1> USE DEF TypeOK, NoResweep
  <1>1. ASSUME NEW j \in Job, NEW nets, NEW mode, NEW single, NEW auto,
               startScanJob(j, [nets |-> nets, mode |-> mode, single |-> single,
                                automatic |-> auto, nightly |-> FALSE])
        PROVE  \A i \in Job : ~param'[i].nightly
    BY <1>1 DEF startScanJob
  <1>2. CASE handleScanStart \/ handleDeviceDeepScan
    <2>1. UNCHANGED bg
      BY <1>2 DEF handleScanStart, StartIf, handleDeviceDeepScan, srvVars
    <2> QED
      BY <1>1, <1>2, <2>1 DEF handleScanStart, StartIf, handleDeviceDeepScan
  <1>3. ASSUME NEW j \in Job, NEW atThree \in BOOLEAN, BackgroundJob(j, atThree)
        PROVE  \A i \in Job : ~param'[i].nightly
    <2>1. (EnablePortScan /\ atThree /\ ~nightDone) = FALSE
      OBVIOUS
    <2> QED
      BY <1>1, <1>3, <2>1 DEF BackgroundJob
  <1>4. CASE \E k \in Kick : runBackgroundScan(k)
    BY <1>3, <1>4 DEF runBackgroundScan, jobVars
  <1>5. CASE BgTop
    BY <1>3, <1>5 DEF BgTop, BgGoto, Bg, jobVars
  <1>6. CASE BgResweep
    BY <1>6 DEF BgResweep
  <1>7. CASE BgWait \/ BgWaitJob \/ BgPause \/ BgWaitSweep
    BY <1>7 DEF BgWait, BgWaitJob, BgPause, BgWaitSweep, BgGoto, Bg, jobVars
  <1>8. CASE adopt \/ handleScanCancel \/ handleScanContinuous
    <2>1. CASE adopt
      <3>1. \A i \in Job : param'[i].nightly = param[i].nightly
        BY <2>1 DEF adopt, Idle, Param
      <3> QED
        BY <2>1, <3>1 DEF adopt, srvVars
    <2>2. CASE handleScanCancel \/ handleScanContinuous
      BY <2>2 DEF handleScanCancel, handleScanContinuous, jobVars, srvVars
    <2> QED
      BY <1>8, <2>1, <2>2
  <1>9. ASSUME NEW j \in Job, Run(j) PROVE UNCHANGED <<param, bg>>
    BY <1>9 DEF Run, Sweep, SweepBegin, SweepRate, SweepWait, SweepOk, SweepError, SweepDate,
       QueueBegin, QueueLast, QueueEnd, SweepJoin, runDeepScan, QueueJoin, DeepEnd,
       Supplement, Judge, Missing, Deferred, jobVars, srvVars
  <1>10. CASE \E j \in Job : Deadline(j) \/ \E n \in Net : QueueStick(j, n)
    BY <1>10 DEF Deadline, QueueStick, srvVars
  <1>11. CASE ShutdownBegin \/ ShutdownDrain \/ ShutdownWaited \/ ShutdownTimeout
    BY <1>11 DEF ShutdownBegin, ShutdownDrain, ShutdownWaited, ShutdownTimeout, jobVars
  <1>12. CASE UNCHANGED vars
    BY <1>12 DEF vars, jobVars, srvVars
  <1>13. CASE \E q \in Request : handleScan(q) \/ scanAllNetworks(q)
    BY <1>13 DEF handleScan, scanAllNetworks, jobVars
  <1> QED
    BY <1>2, <1>4, <1>5, <1>6, <1>7, <1>8, <1>9, <1>10, <1>11, <1>12, <1>13
       DEF Next, Background

\* The inductive invariant of the slot
SlotInv == IInv /\ NoResweep /\ RunningIsRegistered

\* Without port scanning the slot invariant holds in every reachable state.
LEMMA SlotInvariant ==
  ASSUME EnablePortScan = FALSE
  PROVE  Spec => []SlotInv
PROOF
  <1>1. Init => NoResweep /\ RunningIsRegistered
    BY DEF Init, NoResweep, RunningIsRegistered, Unborn, isRunning
  <1>2. IInv /\ NoResweep /\ RunningIsRegistered /\ [Next]_vars =>
          (NoResweep /\ RunningIsRegistered)'
    <2> SUFFICES ASSUME IInv, NoResweep, RunningIsRegistered, [Next]_vars
                 PROVE  NoResweep' /\ RunningIsRegistered'
      OBVIOUS
    <2>1. NoResweep'
      BY NoResweepNext DEF IInv
    <2>2. ASSUME NEW i \in Job, isRunning(i)' PROVE job' = i
      <3>1. CASE Registered
        <4>1. PICK j \in Job : Idle /\ job' = j /\ status' = [status EXCEPT ![j] = "running"]
          BY <3>1 DEF Registered
        <4> QED
          BY <2>2, <4>1 DEF Idle, RunningIsRegistered, isRunning, IInv, TypeOK
      <3>2. CASE Finished \/ UNCHANGED <<status, job>>
        BY <2>2, <3>2 DEF Finished, RunningIsRegistered, isRunning, IInv, TypeOK, Terminal
      <3>3. ~Unregistered
        BY DEF Unregistered, NoResweep
      <3> QED
        BY <3>1, <3>2, <3>3, SlotSteps
    <2> QED
      BY <2>1, <2>2 DEF RunningIsRegistered
  <1> QED
    BY <1>1, <1>2, Invariant, PTL DEF Spec, SlotInv

\* Without port scanning every running job is the one Handler.job points to,
\* so that progress and cancel reach it, for any number of jobs and networks.
THEOREM RunningAreRegistered ==
  ASSUME EnablePortScan = FALSE
  PROVE  Spec => []RunningIsRegistered
  BY SlotInvariant, PTL DEF SlotInv

\* ... and then only one scan runs at a time, as Handler.job's comment says.
THEOREM OneAtATime ==
  ASSUME EnablePortScan = FALSE
  PROVE  Spec => []OneScanAtATime
PROOF
  <1>1. SlotInv => OneScanAtATime
    BY DEF SlotInv, RunningIsRegistered, OneScanAtATime
  <1> QED
    BY <1>1, SlotInvariant, PTL

\* Without port scanning the handlers, the background scanner and run together
\* implement the one slot of ScanSlot.
THEOREM ScanSlotRefined ==
  ASSUME EnablePortScan = FALSE
  PROVE  Spec => ImplementsScanSlot
PROOF
  <1> DEFINE slot == IF Idle THEN NoJob ELSE job
             outcome == [j \in Job |-> IF status[j] \in Terminal THEN status[j] ELSE "none"]
  <1>1. Init => Slot!SlotInit
    BY DEF Init, Slot!SlotInit, Idle, isRunning, Terminal
  <1>2. SlotInv /\ [Next]_vars => [Slot!SlotNext]_<<slot, outcome>>
    <2> SUFFICES ASSUME SlotInv, [Next]_vars
                 PROVE  Slot!SlotNext \/ UNCHANGED <<slot, outcome>>
      OBVIOUS
    <2> USE DEF SlotInv, IInv, TypeOK
    <2>1. CASE Registered
      <3>1. PICK j \in Job : /\ Idle /\ status[j] = "none" /\ job' = j
                             /\ status' = [status EXCEPT ![j] = "running"]
        BY <2>1 DEF Registered
      <3>2. slot = NoJob /\ slot' = j
        BY <3>1 DEF Idle, isRunning
      <3>3. outcome[j] = "none" /\ outcome' = outcome
        BY <3>1 DEF Terminal
      <3> QED
        BY <3>2, <3>3 DEF Slot!SlotNext, Slot!Take
    <2>2. CASE Finished
      <3>1. PICK j \in Job, s \in Terminal : /\ isRunning(j) /\ UNCHANGED job
                                            /\ status' = [status EXCEPT ![j] = s]
        BY <2>2 DEF Finished
      <3>2. slot = j /\ slot' = NoJob
        BY <3>1 DEF Idle, isRunning, RunningIsRegistered, Terminal
      <3>3. outcome' = [outcome EXCEPT ![j] = s]
        BY <3>1 DEF Terminal
      <3> QED
        BY <3>1, <3>2, <3>3 DEF Slot!SlotNext, Slot!Release, Slot!Outcome, Terminal
    <2>3. CASE UNCHANGED <<status, job>>
      BY <2>3 DEF Idle, isRunning
    <2>4. ~Unregistered
      BY DEF Unregistered, NoResweep
    <2> QED
      BY <2>1, <2>2, <2>3, <2>4, SlotSteps
  <1> QED
    BY <1>1, <1>2, SlotInvariant, PTL DEF Spec, ImplementsScanSlot, Slot!SlotSpec

-----------------------------------------------------------------------------
(* What a step can be, with what the flags, the night and shutdown need. *)

\* A job starts, and a nightly one takes the night.
Started == \E j \in Job, p \in Param :
  /\ startScanJob(j, p)
  /\ UNCHANGED <<srv, request, late>>
  /\ p.nightly => ~nightDone
  /\ nightDone \/ p.nightly => nightDone'

\* A goroutine of job j takes a step.
Working(j) == Run(j) \/ \E n \in Net : QueueStick(j, n)

\* No GET /api/scan is in flight once the handlers have been waited for.
Drained == Serving \/ \A q \in Request : request[q] = NoNet

\* Something else happens, and the jobs are at most cancelled, adopted or credited
\* with devices that a GET /api/scan has met.
Elsewhere ==
  /\ UNCHANGED <<pc, deepTargets, flagVars, nightDone>>
  /\ \/ UNCHANGED <<fresh, visited>>
     \/ \E n \in Net : Credit(n) /\ Visit(n, Job)
  /\ Drained => Drained'
  /\ \A j \in Job : Untouched(j) /\ (param'[j].nightly = param[j].nightly)
  /\ srv' # "up" => srv # "up" \/ \A j \in Job : pc[j] \in {"off", "gone"} \/ Done(j)'
  /\ srv' = "waited" => srv = "waited" \/ \A j \in Job : pc[j] \in {"off", "gone"}

\* The starts by the background scanner.
LEMMA BackgroundStarts ==
  ASSUME TypeOK, NEW j \in Job, NEW atThree \in BOOLEAN, BackgroundJob(j, atThree),
         UNCHANGED <<srv, request, late>>
  PROVE  Started
PROOF
  <1> DEFINE nightly == EnablePortScan /\ atThree /\ ~nightDone
             p == [nets |-> Net, mode |-> "both", single |-> FALSE,
                   automatic |-> TRUE, nightly |-> nightly]
  <1>1. nightly \in BOOLEAN
    BY ScanJobsAssumption
  <1>2. p \in Param
    BY <1>1 DEF Param, Mode
  <1>3. startScanJob(j, p) /\ nightDone' = (nightDone \/ nightly)
    BY DEF BackgroundJob, MarkNight
  <1>4. /\ p.nightly => ~nightDone
        /\ nightDone \/ p.nightly => nightDone'
    BY <1>3
  <1> QED
    BY <1>2, <1>3, <1>4 DEF Started

\* Every step is one of the three.
LEMMA StepKinds ==
  ASSUME TypeOK, [Next]_vars
  PROVE  Started \/ (\E j \in Job : Working(j)) \/ Elsewhere
PROOF
  <1>1. ASSUME NEW nets \in SUBSET Net, NEW mode \in Mode, NEW a \in BOOLEAN,
               NEW b \in BOOLEAN
        PROVE  [nets |-> nets, mode |-> mode, single |-> a, automatic |-> b,
                nightly |-> FALSE] \in Param
    BY DEF Param
  <1>2. CASE handleScanStart \/ handleDeviceDeepScan
    <2>1. PICK j \in Job, nets \in SUBSET Net, mode \in Mode, single \in BOOLEAN :
            startScanJob(j, [nets |-> nets, mode |-> mode, single |-> single,
                             automatic |-> FALSE, nightly |-> FALSE])
      BY <1>2, ScanJobsAssumption DEF handleScanStart, StartIf, handleDeviceDeepScan, Mode
    <2>2. UNCHANGED <<srv, request, late, nightDone>>
      BY <1>2 DEF handleScanStart, StartIf, handleDeviceDeepScan, srvVars
    <2> QED
      BY <1>1, <2>1, <2>2 DEF Started
  <1>3. CASE \E k \in Kick : runBackgroundScan(k)
    <2>1. CASE UNCHANGED <<jobVars, flagVars, job, nightDone>>
      BY <1>3, <2>1 DEF runBackgroundScan, Elsewhere, Untouched, Drained, Serving, jobVars
    <2>2. CASE \E j \in Job, atThree \in BOOLEAN : BackgroundJob(j, atThree)
      BY <1>3, <2>2, BackgroundStarts DEF runBackgroundScan
    <2> QED
      BY <1>3, <2>1, <2>2 DEF runBackgroundScan
  <1>4. CASE BgTop
    <2>1. CASE UNCHANGED <<jobVars, flagVars, job, nightDone>>
      BY <1>4, <2>1 DEF BgTop, Elsewhere, Untouched, Drained, Serving, jobVars
    <2>2. CASE \E j \in Job, atThree \in BOOLEAN : BackgroundJob(j, atThree)
      BY <1>4, <2>2, BackgroundStarts DEF BgTop
    <2> QED
      BY <1>4, <2>1, <2>2 DEF BgTop
  <1>5. CASE BgResweep
    <2>1. CASE UNCHANGED <<jobVars, flagVars>>
      BY <1>5, <2>1 DEF BgResweep, Elsewhere, Untouched, Drained, Serving, jobVars
    <2>2. ASSUME NEW j \in Job,
                 startScanJob(j, [nets |-> Net, mode |-> "quick",
                   single |-> FALSE, automatic |-> TRUE, nightly |-> FALSE])
          PROVE  Started
      <3> DEFINE p == [nets |-> Net, mode |-> "quick", single |-> FALSE,
                       automatic |-> TRUE, nightly |-> FALSE]
      <3>1. p \in Param
        BY DEF Param, Mode
      <3>2. ~p.nightly /\ UNCHANGED <<srv, request, late, nightDone>>
        BY <1>5 DEF BgResweep
      <3> QED
        BY <2>2, <3>1, <3>2 DEF Started
    <2> QED
      BY <1>5, <2>1, <2>2 DEF BgResweep
  <1>6. CASE BgWait \/ BgWaitJob \/ BgPause \/ BgWaitSweep
    BY <1>6 DEF BgWait, BgWaitJob, BgPause, BgWaitSweep, Elsewhere, Untouched, Drained, Serving, jobVars
  <1>7. CASE handleScanContinuous
    BY <1>7 DEF handleScanContinuous, Elsewhere, Untouched, Drained, Serving, jobVars
  <1>8. CASE adopt
    BY <1>8 DEF adopt, Idle, TypeOK, Param, Elsewhere, Untouched, Drained, Serving, srvVars
  <1>9. CASE handleScanCancel
    BY <1>9 DEF handleScanCancel, Idle, TypeOK, Elsewhere, Untouched, Drained, Serving, srvVars
  <1>10. CASE ShutdownBegin
    BY <1>10 DEF ShutdownBegin, TypeOK, Elsewhere, Untouched, Drained, Serving, Done
  <1>11. CASE ShutdownDrain \/ ShutdownWaited \/ ShutdownTimeout
    BY <1>11 DEF ShutdownDrain, ShutdownWaited, ShutdownTimeout, Elsewhere, Untouched, Drained, Serving, jobVars
  <1>12. CASE \E j \in Job : Deadline(j)
    BY <1>12 DEF Deadline, TypeOK, Elsewhere, Untouched, Drained, Serving, srvVars
  <1>13. CASE UNCHANGED vars
    BY <1>13 DEF vars, jobVars, srvVars, Elsewhere, Untouched, Drained, Serving
  <1>14. ASSUME NEW q \in Request, handleScan(q) \/ scanAllNetworks(q)
         PROVE  Elsewhere
    <2>1. Drained => Drained'
      BY <1>14 DEF handleScan, scanAllNetworks, Drained, Serving
    <2>2. UNCHANGED <<fresh, visited>> \/ \E n \in Net : Credit(n) /\ Visit(n, Job)
      BY <1>14 DEF handleScan, scanAllNetworks, jobVars, TypeOK
    <2> QED
      BY <1>14, <2>1, <2>2 DEF handleScan, scanAllNetworks, Elsewhere, Untouched, Drained, Serving, jobVars
  <1> QED
    BY <1>2, <1>3, <1>4, <1>5, <1>6, <1>7, <1>8, <1>9, <1>10, <1>11, <1>12, <1>13, <1>14
       DEF Next, Background, Working

\* What no goroutine of a job changes.
LEMMA WorkingFrame ==
  ASSUME NEW j \in Job, Working(j)
  PROVE  /\ UNCHANGED <<param, ctx, job, request, srv, late>>
         /\ nightDone => nightDone'
PROOF
  <1>1. CASE \E n \in Net : Sweep(j, n)
    BY <1>1 DEF Sweep, SweepBegin, SweepRate, SweepWait, SweepOk, SweepError, SweepDate,
       srvVars
  <1>2. CASE \E n \in Net : \/ QueueBegin(j, n) \/ QueueLast(j, n)
                          \/ QueueEnd(j, n) \/ QueueStick(j, n)
    BY <1>2 DEF QueueBegin, QueueLast, QueueEnd, QueueStick, srvVars, jobVars
  <1>3. CASE SweepJoin(j) \/ runDeepScan(j) \/ QueueJoin(j) \/ DeepEnd(j)
    BY <1>3 DEF SweepJoin, runDeepScan, QueueJoin, DeepEnd, srvVars
  <1>4. CASE Supplement(j) \/ Judge(j) \/ Missing(j) \/ Deferred(j)
    BY <1>4 DEF Supplement, Judge, Missing, Deferred, srvVars
  <1> QED
    BY <1>1, <1>2, <1>3, <1>4 DEF Working, Run

-----------------------------------------------------------------------------
(* The night. *)

\* The nightly job, once it exists, has taken the night.
NightTaken == \A j \in Job : param[j].nightly => nightDone

\* However many automatic jobs start in the nightly window, one of them is the
\* nightly job (last_deep_scan_date is looked at and saved by
\* startBackgroundNetworks under one lock).
THEOREM OneNightlyJob == Spec => []NightlyOnce
PROOF
  <1>1. Init => NightTaken /\ NightlyOnce
    BY DEF Init, Unborn, NightTaken, NightlyOnce
  <1>2. TypeOK /\ NightTaken /\ NightlyOnce /\ [Next]_vars => (NightTaken /\ NightlyOnce)'
    <2> SUFFICES ASSUME TypeOK, NightTaken, NightlyOnce, [Next]_vars
                 PROVE  NightTaken' /\ NightlyOnce'
      OBVIOUS
    <2>1. CASE Started
      <3>1. PICK j \in Job, p \in Param :
              /\ param' = [param EXCEPT ![j] = p]
              /\ p.nightly => ~nightDone
              /\ nightDone \/ p.nightly => nightDone'
        BY <2>1 DEF Started, startScanJob
      <3>2. param'[j] = p /\ \A i \in Job \ {j} : param'[i] = param[i]
        BY <3>1 DEF TypeOK
      <3> QED
        BY <3>1, <3>2 DEF NightTaken, NightlyOnce
    <2>2. CASE \E j \in Job : Working(j)
      BY <2>2, WorkingFrame DEF NightTaken, NightlyOnce
    <2>3. CASE Elsewhere
      BY <2>3 DEF Elsewhere, NightTaken, NightlyOnce
    <2> QED
      BY <2>1, <2>2, <2>3, StepKinds
  <1> QED
    BY <1>1, <1>2, TypeCorrect, PTL DEF Spec

-----------------------------------------------------------------------------
(* The scan flags. *)

\* The current network is kept among the scanning ones by every goroutine.
LEMMA CurrentNext ==
  ASSUME TypeOK, CurrentIsScanning, [Next]_vars
  PROVE  CurrentIsScanning'
PROOF
  <1> USE DEF CurrentIsScanning
  <1>1. CASE Started
    BY <1>1 DEF Started, startScanJob
  <1>2. CASE Elsewhere
    BY <1>2 DEF Elsewhere, flagVars
  <1>3. ASSUME NEW n \in Net, MarkScanning(n) \/ UnmarkScanning(n)
        PROVE  CurrentIsScanning'
    BY <1>3 DEF MarkScanning, UnmarkScanning
  <1>4. ASSUME NEW j \in Job, NEW n \in Net, Sweep(j, n)
        PROVE  CurrentIsScanning'
    BY <1>3, <1>4 DEF Sweep, SweepBegin, SweepRate, SweepWait, SweepOk, SweepError,
       SweepDate, flagVars
  <1>5. ASSUME NEW j \in Job, NEW n \in Net,
               QueueBegin(j, n) \/ QueueLast(j, n) \/ QueueEnd(j, n) \/ QueueStick(j, n)
        PROVE  CurrentIsScanning'
    BY <1>3, <1>5 DEF QueueBegin, QueueLast, QueueEnd, QueueStick, flagVars
  <1>6. CASE \E j \in Job : \/ SweepJoin(j) \/ runDeepScan(j) \/ DeepEnd(j)
                          \/ Supplement(j) \/ Judge(j) \/ Missing(j)
    BY <1>6 DEF SweepJoin, runDeepScan, DeepEnd, Supplement, Judge, Missing, flagVars
  <1>7. CASE \E j \in Job : QueueJoin(j) \/ Deferred(j)
    BY <1>7 DEF QueueJoin, Deferred, ClearScanningNetworks
  <1> QED
    BY <1>1, <1>2, <1>4, <1>5, <1>6, <1>7, StepKinds DEF Working, Run

\* The network shown as the current one is always shown as scanning, whichever
\* job clears or sets the flags under another's feet (SetNetworkScanning and
\* ClearScanningNetworks of the store).
THEOREM CurrentScans == Spec => []CurrentIsScanning
PROOF
  <1>1. Init => CurrentIsScanning
    BY DEF Init, CurrentIsScanning
  <1>2. TypeOK /\ CurrentIsScanning /\ [Next]_vars => CurrentIsScanning'
    BY CurrentNext
  <1> QED
    BY <1>1, <1>2, TypeCorrect, PTL DEF Spec

\* A flag that is set has a job that is still going to clear it.
RunningOwned == scanRunning => \E j \in Job : pc[j] \notin {"off", "gone"}
ScanningOwned ==
  scanning \cup deepScanning # {} =>
    \E j \in Job : pc[j] \in Active \cup {"clearCompleted", "clearCurrent", "clearScanning"}
CompletedOwned ==
  completed # {} => \E j \in Job : pc[j] \in Active \cup {"clearCompleted"}

FlagsOwned == RunningOwned /\ ScanningOwned /\ CompletedOwned

\* Until its deferred calls run, a job goes on or has them all before it.
LEMMA WorkingMoves ==
  ASSUME IInv, NEW j \in Job, Working(j)
  PROVE  pc'[j] \in Active \cup {"clearCompleted"} \/ Deferred(j)
PROOF
  <1> USE DEF IInv, TypeOK, Active
  <1>1. CASE \E n \in Net : Sweep(j, n)
    <2>1. PICK n \in Net : net[j][n] \in SweepPc /\ UNCHANGED pc
      BY <1>1 DEF Sweep, SweepBegin, SweepRate, SweepWait, SweepOk, SweepError, SweepDate,
         SweepPc
    <2> QED
      BY <2>1 DEF JobInv, NetsMatchPc, SweepPc
  <1>2. CASE \E n \in Net : \/ QueueBegin(j, n) \/ QueueLast(j, n)
                          \/ QueueEnd(j, n) \/ QueueStick(j, n)
    <2>1. PICK n \in Net : net[j][n] \in {"queued", "probing"} /\ UNCHANGED pc
      BY <1>2 DEF QueueBegin, QueueLast, QueueEnd, QueueStick, jobVars
    <2> QED
      BY <2>1 DEF JobInv, NetsMatchPc, SweepPc
  <1>3. CASE SweepJoin(j) \/ runDeepScan(j)
    BY <1>3 DEF SweepJoin, runDeepScan, finish, Enqueue, JobGoto
  <1>4. CASE QueueJoin(j) \/ DeepEnd(j) \/ Supplement(j) \/ Judge(j) \/ Missing(j)
    BY <1>4 DEF QueueJoin, DeepEnd, Supplement, Judge, Missing, finish, JobGoto
  <1> QED
    BY <1>1, <1>2, <1>3, <1>4 DEF Working, Run

\* Every step leaves the flags owned.
LEMMA FlagsOwnedNext ==
  ASSUME IInv, FlagsOwned, [Next]_vars
  PROVE  FlagsOwned'
PROOF
  <1> USE DEF FlagsOwned, RunningOwned, ScanningOwned, CompletedOwned
  <1>1. ASSUME NEW j \in Job, pc'[j] \in Active \cup {"clearCompleted"}
        PROVE  FlagsOwned'
    BY <1>1 DEF Active
  <1>2. CASE Started
    <2>1. PICK j \in Job, p \in Param : startScanJob(j, p)
      BY <1>2 DEF Started
    <2>2. pc'[j] \in {"deep", "sweep"}
      BY <2>1 DEF startScanJob, IInv, TypeOK
    <2> QED
      BY <1>1, <2>2 DEF Active
  <1>3. ASSUME NEW j \in Job, Deferred(j)
        PROVE  FlagsOwned'
    <2>1. \A i \in Job \ {j} : pc'[i] = pc[i]
      BY <1>3 DEF Deferred, JobGoto, IInv, TypeOK
    <2>2. CASE /\ pc[j] = "clearCompleted" /\ pc'[j] = "clearCurrent" /\ completed' = {}
               /\ UNCHANGED <<scanRunning, scanning, deepScanning>>
      BY <2>1, <2>2
    <2>3. CASE /\ pc[j] = "clearCurrent" /\ pc'[j] = "clearScanning" /\ scanning' = {}
               /\ UNCHANGED <<scanRunning, deepScanning, completed>>
      BY <2>1, <2>3 DEF Active
    <2>4. CASE /\ pc[j] = "clearScanning" /\ pc'[j] = "clearRunning"
               /\ scanning' = {} /\ deepScanning' = {}
               /\ UNCHANGED <<scanRunning, completed>>
      BY <2>1, <2>4 DEF Active
    <2>5. CASE /\ pc[j] = "clearRunning" /\ pc'[j] = "gone" /\ scanRunning' = FALSE
               /\ UNCHANGED <<scanning, deepScanning, completed>>
      BY <2>1, <2>5 DEF Active
    <2> QED
      BY <1>3, <2>2, <2>3, <2>4, <2>5
         DEF Deferred, JobGoto, ClearScanningNetworks, IInv, TypeOK
  <1>4. CASE Elsewhere
    BY <1>4 DEF Elsewhere, flagVars
  <1> QED
    BY <1>1, <1>2, <1>3, <1>4, WorkingMoves, StepKinds DEF IInv

\* Once every job goroutine has returned the dashboard shows no scan, however
\* the jobs overlapped, failed or were cancelled (the deferred calls of run).
THEOREM FlagsAreCleared == Spec => []FlagsCleanWhenIdle
PROOF
  <1>1. Init => FlagsOwned
    BY DEF Init, FlagsOwned, RunningOwned, ScanningOwned, CompletedOwned
  <1>2. IInv /\ FlagsOwned /\ [Next]_vars => FlagsOwned'
    BY FlagsOwnedNext
  <1>3. TypeOK /\ FlagsOwned /\ CurrentIsScanning => FlagsCleanWhenIdle
    BY DEF FlagsOwned, RunningOwned, ScanningOwned, CompletedOwned, CurrentIsScanning,
       FlagsCleanWhenIdle, Active
  <1> QED
    BY <1>1, <1>2, <1>3, Invariant, TypeCorrect, CurrentScans, PTL DEF Spec

-----------------------------------------------------------------------------
(* Shutdown. *)

\* Once shutdown has begun every job that is still under way is cancelled.
Halted == srv # "up" => \A j \in Job : pc[j] \in {"off", "gone"} \/ Done(j)

\* A job that shutdown no longer waits for: over, or born cancelled and about
\* to notice.  A deep scan of one device notices only in its queue.
Quiet(j) ==
  /\ pc[j] \in {"off", "sweep", "deep", "queue", "deepEnd"} \cup Ending
  /\ pc[j] = "queue" => param[j].mode = "deep"
  /\ \A n \in Net : net[j][n] \in {"off", "begin", "queued", "end"}

ShutInv == Halted /\ Drained /\ (srv = "waited" => \A j \in Job : Quiet(j))

\* Only a job under way takes a step.
LEMMA WorkingIsUnderWay ==
  ASSUME IInv, NEW j \in Job, Working(j)
  PROVE  pc[j] \notin {"off", "gone"}
PROOF
  <1>1. CASE \E n \in Net : \/ Sweep(j, n) \/ QueueBegin(j, n) \/ QueueLast(j, n)
                          \/ QueueEnd(j, n) \/ QueueStick(j, n)
    <2>1. PICK n \in Net : net[j][n] \in SweepPc \cup {"queued", "probing"}
      BY <1>1 DEF Sweep, SweepBegin, SweepRate, SweepWait, SweepOk, SweepError, SweepDate,
         QueueBegin, QueueLast, QueueEnd, QueueStick, SweepPc
    <2> QED
      BY <2>1 DEF IInv, JobInv, NetsMatchPc, SweepPc
  <1>2. CASE SweepJoin(j) \/ runDeepScan(j) \/ QueueJoin(j) \/ DeepEnd(j)
    BY <1>2 DEF SweepJoin, runDeepScan, QueueJoin, DeepEnd
  <1>3. CASE Supplement(j) \/ Judge(j) \/ Missing(j) \/ Deferred(j)
    BY <1>3 DEF Supplement, Judge, Missing, Deferred
  <1> QED
    BY <1>1, <1>2, <1>3 DEF Working, Run

\* A quiet job that is cancelled ends without writing anything.
LEMMA QuietWorks ==
  ASSUME IInv, NEW j \in Job, Working(j), Quiet(j), Done(j)
  PROVE  Quiet(j)'
PROOF
  <1> USE DEF IInv, TypeOK
  <1>1. CASE \E n \in Net : Sweep(j, n)
    <2>1. PICK n \in Net : Sweep(j, n)
      BY <1>1
    <2>2. SweepBegin(j, n)
      BY <2>1 DEF Quiet, Sweep, SweepBegin, SweepRate, SweepWait, SweepOk, SweepError,
         SweepDate
    <2>3. net' = [net EXCEPT ![j][n] = "end"] /\ UNCHANGED <<pc, param>>
      BY <2>2 DEF SweepBegin, NetGoto
    <2> QED
      BY <2>3 DEF Quiet
  <1>2. CASE \E n \in Net : \/ QueueBegin(j, n) \/ QueueLast(j, n)
                          \/ QueueEnd(j, n) \/ QueueStick(j, n)
    <2>1. PICK n \in Net : QueueBegin(j, n)
      BY <1>2 DEF Quiet, QueueLast, QueueEnd, QueueStick
    <2>2. net' = [net EXCEPT ![j][n] = "end"] /\ UNCHANGED <<pc, param>>
      BY <2>1 DEF QueueBegin, NetGoto
    <2> QED
      BY <2>2 DEF Quiet
  <1>3. CASE SweepJoin(j)
    BY <1>3 DEF SweepJoin, finish, JobGoto, Quiet, Ending
  <1>4. CASE runDeepScan(j)
    <2>1. param[j].mode = "deep" /\ UNCHANGED param
      BY <1>4 DEF runDeepScan, JobInv, NetsMatchPc
    <2>2. /\ pc'[j] \in {"queue", "deepEnd", "clearCompleted"}
          /\ \A n \in Net : net'[j][n] \in {net[j][n], "queued"}
      BY <1>4 DEF runDeepScan, finish, Enqueue, JobGoto
    <2> QED
      BY <2>1, <2>2 DEF Quiet, Ending
  <1>5. CASE QueueJoin(j)
    <2>1. /\ pc'[j] \in {"deepEnd", "clearCompleted"} /\ UNCHANGED net
      BY <1>5 DEF QueueJoin, finish, JobGoto, Quiet
    <2> QED
      BY <2>1 DEF Quiet, Ending
  <1>6. CASE DeepEnd(j)
    BY <1>6 DEF DeepEnd, finish, JobGoto, Quiet, Ending
  <1>7. CASE Supplement(j) \/ Judge(j) \/ Missing(j)
    BY <1>7 DEF Supplement, Judge, Missing, Quiet, Ending
  <1>8. CASE Deferred(j)
    BY <1>8 DEF Deferred, JobGoto, Quiet, Ending
  <1> QED
    BY <1>1, <1>2, <1>3, <1>4, <1>5, <1>6, <1>7, <1>8 DEF Working, Run

\* Every step keeps what shutdown relies on.
LEMMA ShutNext ==
  ASSUME IInv, ShutInv, [Next]_vars
  PROVE  ShutInv'
PROOF
  <1> USE DEF IInv, TypeOK, ShutInv, Halted
  <1>1. CASE Started
    <2>1. PICK j \in Job, p \in Param :
            startScanJob(j, p) /\ UNCHANGED <<srv, request, late>>
      BY <1>1 DEF Started
    <2>2. \A i \in Job \ {j} : /\ pc'[i] = pc[i] /\ net'[i] = net[i] /\ ctx'[i] = ctx[i]
                             /\ param'[i] = param[i]
      BY <2>1 DEF startScanJob
    <2>3. srv # "up" => Done(j)'
      BY <2>1 DEF startScanJob, scanCtx, Done
    <2>4. Quiet(j)'
      BY <2>1 DEF startScanJob, Quiet
    <2>5. Drained'
      BY <2>1 DEF Drained, Serving
    <2> QED
      BY <2>1, <2>2, <2>3, <2>4, <2>5 DEF Quiet, Done
  <1>2. ASSUME NEW j \in Job, Working(j)
        PROVE  ShutInv'
    <2>1. \A i \in Job \ {j} : pc'[i] = pc[i] /\ net'[i] = net[i]
      BY <1>2, OthersUntouched DEF Working, Untouched
    <2>2. UNCHANGED <<param, ctx, srv, request, late>> /\ pc[j] \notin {"off", "gone"}
      BY <1>2, WorkingFrame, WorkingIsUnderWay
    <2>3. srv # "up" => Done(j)
      BY <2>2
    <2>4. srv = "waited" => Quiet(j)'
      BY <1>2, <2>3, QuietWorks
    <2>5. Drained'
      BY <2>2 DEF Drained, Serving
    <2> QED
      BY <2>1, <2>2, <2>3, <2>4, <2>5 DEF Quiet, Done
  <1>3. CASE Elsewhere
    <2>1. \A j \in Job : /\ pc'[j] = pc[j] /\ net'[j] = net[j]
                         /\ param'[j].mode = param[j].mode
                         /\ ctx[j] # "live" => ctx'[j] # "live"
      BY <1>3 DEF Elsewhere, Untouched
    <2>2. Halted'
      BY <1>3, <2>1 DEF Elsewhere, Done
    <2>3. ASSUME srv' = "waited", NEW j \in Job PROVE Quiet(j)'
      <3>1. CASE srv = "waited"
        BY <2>1, <3>1 DEF Quiet
      <3>2. CASE pc[j] \in {"off", "gone"}
        <4>1. \A n \in Net : net[j][n] \in {"off", "end"}
          BY <3>2 DEF JobInv, NetsMatchPc
        <4> QED
          BY <2>1, <3>2, <4>1 DEF Quiet, Ending
      <3> QED
        BY <1>3, <2>3, <3>1, <3>2 DEF Elsewhere
    <2>4. Drained'
      BY <1>3 DEF Elsewhere
    <2> QED
      BY <2>2, <2>3, <2>4
  <1> QED
    BY <1>1, <1>2, <1>3, StepKinds

\* When the wait of shutdown ends before its bound no job is sweeping, probing, merging
\* or judging, and none begins to, not even one that the background scanner or a late
\* handler starts after that; nor does a GET /api/scan, if server.Shutdown has seen
\* every handler return (WaitForScans and the server's scan context, serve.go).
THEOREM ExitIsClean == Spec => []CleanExit
PROOF
  <1>1. Init => ShutInv
    BY DEF Init, ShutInv, Halted, Drained, Serving
  <1>2. IInv /\ ShutInv /\ [Next]_vars => ShutInv'
    BY ShutNext
  <1>3. ShutInv => CleanExit
    BY DEF ShutInv, Quiet, Drained, Serving, CleanExit, Writing, Ending
  <1> QED
    BY <1>1, <1>2, <1>3, Invariant, PTL DEF Spec

-----------------------------------------------------------------------------
(* What is probed after a sweep. *)

\* What is collected for a network was scanned by the job, its new devices by the job
\* or by somebody else while it ran, and what is not yet swept has no result that could
\* be taken back.
CollectedNet(j, n) ==
  /\ net[j][n] \in {"begin", "rate", "wait", "sweep"} =>
       result[j][n] = "none" /\ n \in param[j].nets
  /\ net[j][n] = "dated" \/ n \in deepTargets[j] =>
       result[j][n] = "scanned" /\ n \in param[j].nets
  /\ n \in fresh[j] => result[j][n] = "scanned" \/ n \in visited[j]
  /\ /\ net[j][n] \in {"queued", "probing", "stuck"}
     /\ param[j].mode # "deep" /\ ~param[j].nightly
     => n \in param[j].nets /\ (result[j][n] = "scanned" \/ n \in visited[j])

Collected(j) ==
  /\ pc[j] = "off" => /\ deepTargets[j] = {} /\ fresh[j] = {} /\ visited[j] = {}
                      /\ \A n \in Net : result[j][n] = "none"
  /\ \A n \in Net : CollectedNet(j, n)

\* What somebody else's sweep does to job j: new devices come with the visit.
Gains(j) ==
  /\ visited[j] \subseteq visited'[j]
  /\ fresh'[j] \subseteq fresh[j] \cup visited'[j]
  /\ pc[j] = "off" => fresh'[j] = fresh[j] /\ visited'[j] = visited[j]

\* Only running jobs gain from a sweep that scanNetwork credits to one of them.
LEMMA CreditGains ==
  ASSUME IInv, NEW n \in Net, Credit(n), NEW I, Visit(n, I), NEW j \in Job, j \in I
  PROVE  Gains(j)
PROOF
  <1> USE DEF IInv, TypeOK
  <1>1. visited'[j] = IF isRunning(j) THEN visited[j] \cup {n} ELSE visited[j]
    BY DEF Visit
  <1>2. \/ fresh'[j] = fresh[j]
        \/ isRunning(j) /\ fresh'[j] = fresh[j] \cup {n}
    <2>1. CASE UNCHANGED fresh
      BY <2>1
    <2>2. CASE ~Idle /\ fresh' = [fresh EXCEPT ![job] = @ \cup {n}]
      <3>1. job \in Job /\ isRunning(job)
        BY <2>2 DEF Idle
      <3>2. CASE job = j
        BY <2>2, <3>1, <3>2
      <3>3. CASE job # j
        BY <2>2, <3>3
      <3> QED
        BY <3>2, <3>3
    <2> QED
      BY <2>1, <2>2 DEF Credit
  <1>3. isRunning(j) => pc[j] # "off"
    BY DEF isRunning, JobInv, StatusMatchesPc
  <1> QED
    BY <1>1, <1>2, <1>3 DEF Gains

\* A job keeps what it has collected while its fields stand still.
LEMMA CollectedKept ==
  ASSUME NEW j \in Job, Collected(j), pc'[j] = pc[j] \/ pc'[j] # "off",
         net'[j] = net[j], result'[j] = result[j],
         deepTargets'[j] = deepTargets[j], Gains(j),
         param'[j].nets = param[j].nets,
         param'[j].mode = param[j].mode, param'[j].nightly = param[j].nightly
  PROVE  Collected(j)'
PROOF
  <1>1. pc'[j] = "off" => /\ deepTargets'[j] = {} /\ fresh'[j] = {} /\ visited'[j] = {}
                          /\ \A n \in Net : result'[j][n] = "none"
    BY DEF Collected, Gains
  <1>2. ASSUME NEW n \in Net PROVE CollectedNet(j, n)'
    <2>1. CollectedNet(j, n)
      BY DEF Collected
    <2> QED
      BY <2>1 DEF CollectedNet, Gains
  <1> QED
    BY <1>1, <1>2 DEF Collected

\* A step about one network of a job that is under way keeps what it has
\* collected if the network itself stays in order.
LEMMA CollectedByOne ==
  ASSUME NEW j \in Job, NEW n \in Net, Collected(j), UNCHANGED param,
         pc'[j] # "off", visited'[j] = visited[j],
         \A m \in Net \ {n} : net'[j][m] = net[j][m] /\ result'[j][m] = result[j][m],
         deepTargets'[j] \subseteq deepTargets[j] \cup {n},
         fresh'[j] \subseteq fresh[j] \cup {n},
         CollectedNet(j, n)'
  PROVE  Collected(j)'
PROOF
  <1>1. ASSUME NEW m \in Net \ {n} PROVE CollectedNet(j, m)'
    BY <1>1 DEF Collected, CollectedNet
  <1> QED
    BY <1>1 DEF Collected

\* A sweep goroutine collects the networks it has scanned; a new device is credited to
\* its own job or to another one, which thereby notes the visit.
LEMMA SweepCollects ==
  ASSUME IInv, NEW j \in Job, Collected(j), NEW n \in Net, Sweep(j, n)
  PROVE  /\ Collected(j)'
         /\ \A i \in Job \ {j} : Gains(i) /\ deepTargets'[i] = deepTargets[i]
PROOF
  <1> USE DEF IInv, TypeOK
  <1>1. net[j][n] \in SweepPc /\ UNCHANGED <<pc, param>>
    BY DEF Sweep, SweepBegin, SweepRate, SweepWait, SweepOk, SweepError, SweepDate, SweepPc
  <1>2. pc[j] = "sweep"
    BY <1>1 DEF JobInv, NetsMatchPc, SweepPc
  <1>3. /\ \A m \in Net \ {n} : net'[j][m] = net[j][m] /\ result'[j][m] = result[j][m]
        /\ net'[j][n] \in SweepPc \cup {"end"}
    BY DEF Sweep, SweepBegin, SweepRate, SweepWait, SweepOk, SweepError, SweepDate,
       NetGoto, SweepPc
  <1>4. CollectedNet(j, n)
    BY DEF Collected
  <1>5. CASE SweepBegin(j, n) \/ SweepWait(j, n)
    <2>1. /\ UNCHANGED <<result, deepTargets, fresh, visited>>
          /\ net[j][n] \in {"begin", "wait"} /\ net'[j][n] \in {"rate", "sweep", "end"}
      BY <1>5 DEF SweepBegin, SweepWait, NetGoto
    <2>2. CollectedNet(j, n)'
      BY <1>1, <1>4, <2>1 DEF CollectedNet
    <2> QED
      BY <1>1, <1>2, <1>3, <2>1, <2>2, CollectedByOne DEF Gains
  <1>6. CASE SweepRate(j, n) \/ SweepError(j, n)
    <2>1. /\ UNCHANGED <<deepTargets, fresh, visited>> /\ net[j][n] \in {"rate", "sweep"}
          /\ \/ net'[j][n] \in {"sweep", "wait"} /\ result'[j][n] = result[j][n]
             \/ net'[j][n] = "end"
      BY <1>6 DEF SweepRate, SweepError, NetGoto
    <2>2. CollectedNet(j, n)'
      BY <1>1, <1>4, <2>1 DEF CollectedNet
    <2> QED
      BY <1>1, <1>2, <1>3, <2>1, <2>2, CollectedByOne DEF Gains
  <1>7. CASE SweepOk(j, n)
    <2>1. /\ result'[j][n] = "scanned" /\ net'[j][n] \in {"end", "dated"}
          /\ fresh'[j] \subseteq fresh[j] \cup {n}
          /\ deepTargets'[j] \subseteq deepTargets[j] \cup {n}
          /\ \A i \in Job \ {j} : deepTargets'[i] = deepTargets[i]
      BY <1>2, <1>7 DEF SweepOk, NetGoto, Credit, Idle
    <2>2. n \in param[j].nets
      BY <1>4, <1>7 DEF SweepOk, CollectedNet
    <2>3. CollectedNet(j, n)'
      BY <1>1, <2>1, <2>2 DEF CollectedNet
    <2>4. Credit(n) /\ Visit(n, Job \ {j}) /\ visited'[j] = visited[j]
      BY <1>7 DEF SweepOk, Visit
    <2>5. \A i \in Job \ {j} : Gains(i)
      BY <2>4, CreditGains
    <2> QED
      BY <1>1, <1>2, <1>3, <2>1, <2>3, <2>4, <2>5, CollectedByOne
  <1>8. CASE SweepDate(j, n)
    <2>1. /\ UNCHANGED <<result, fresh, visited>> /\ net[j][n] = "dated" /\ net'[j][n] = "end"
          /\ deepTargets'[j] \subseteq deepTargets[j] \cup {n}
          /\ \A i \in Job \ {j} : deepTargets'[i] = deepTargets[i]
      BY <1>8 DEF SweepDate, NetGoto
    <2>2. CollectedNet(j, n)'
      BY <1>1, <1>4, <2>1 DEF CollectedNet
    <2> QED
      BY <1>1, <1>2, <1>3, <2>1, <2>2, CollectedByOne DEF Gains
  <1> QED
    BY <1>5, <1>6, <1>7, <1>8 DEF Sweep

\* No other goroutine collects anything, and what SweepJoin queues was collected.
LEMMA RestCollects ==
  ASSUME IInv, NEW j \in Job, Collected(j), Working(j), ~ \E n \in Net : Sweep(j, n)
  PROVE  Collected(j)' /\ UNCHANGED <<deepTargets, fresh, visited>>
PROOF
  <1> USE DEF IInv, TypeOK
  <1>1. CASE \E n \in Net : \/ QueueBegin(j, n) \/ QueueLast(j, n)
                          \/ QueueEnd(j, n) \/ QueueStick(j, n)
    <2>1. PICK n \in Net : \/ QueueBegin(j, n) \/ QueueLast(j, n)
                           \/ QueueEnd(j, n) \/ QueueStick(j, n)
      BY <1>1
    <2>2. /\ UNCHANGED <<pc, param, result, deepTargets, fresh, visited>>
          /\ net[j][n] \in {"queued", "probing"} /\ net'[j][n] \in {"probing", "end", "stuck"}
          /\ \A m \in Net \ {n} : net'[j][m] = net[j][m]
      BY <2>1 DEF QueueBegin, QueueLast, QueueEnd, QueueStick, NetGoto, jobVars
    <2>3. pc[j] # "off"
      BY <2>2 DEF JobInv, NetsMatchPc
    <2>4. CollectedNet(j, n)'
      BY <2>2 DEF Collected, CollectedNet
    <2> QED
      BY <2>2, <2>3, <2>4, CollectedByOne
  <1>2. CASE SweepJoin(j) \/ runDeepScan(j)
    <2>1. /\ UNCHANGED <<param, result, deepTargets, fresh, visited>> /\ pc'[j] # "off"
          /\ \A n \in Net : \/ net'[j][n] = net[j][n]
                            \/ net'[j][n] = "queued"
      BY <1>2 DEF SweepJoin, runDeepScan, finish, Enqueue, JobGoto
    <2>2. ASSUME NEW n \in Net, net'[j][n] = "queued", net[j][n] # "queued",
                 param[j].mode # "deep", ~param[j].nightly
          PROVE  n \in deepTargets[j] \cup (fresh[j] \cap param[j].nets)
      <3>1. SweepJoin(j)
        BY <1>2, <2>2 DEF runDeepScan, JobInv, NetsMatchPc
      <3>2. PICK Q \in SUBSET ProbeTargets(j) :
              net' = [net EXCEPT ![j] = [m \in Net |-> IF m \in Q THEN "queued" ELSE @[m]]]
        BY <2>2, <3>1 DEF SweepJoin, Enqueue
      <3>3. n \in ProbeTargets(j)
        BY <2>2, <3>2
      <3> QED
        BY <2>2, <3>3 DEF ProbeTargets
    <2>3. ASSUME NEW n \in Net PROVE CollectedNet(j, n)'
      <3>1. CollectedNet(j, n)
        BY DEF Collected
      <3>2. CASE net'[j][n] = net[j][n]
        BY <2>1, <3>1, <3>2 DEF CollectedNet
      <3>3. CASE net'[j][n] = "queued" /\ net[j][n] # "queued"
        BY <2>1, <2>2, <3>1, <3>3 DEF CollectedNet
      <3> QED
        BY <2>1, <3>2, <3>3
    <2> QED
      BY <2>1, <2>3 DEF Collected
  <1>3. CASE DeepEnd(j)
    <2>1. /\ UNCHANGED <<param, net, deepTargets, fresh, visited>> /\ pc'[j] # "off"
          /\ \A n \in Net : net[j][n] \in {"off", "end"}
      BY <1>3 DEF DeepEnd, finish, JobGoto, JobInv, NetsMatchPc
    <2>3. \A n \in Net : result'[j][n] \in {"scanned", result[j][n]}
      BY <1>3 DEF DeepEnd
    <2>2. ASSUME NEW n \in Net PROVE CollectedNet(j, n)'
      BY <2>1, <2>3 DEF Collected, CollectedNet
    <2> QED
      BY <2>1, <2>2 DEF Collected
  <1>4. CASE QueueJoin(j) \/ Supplement(j) \/ Judge(j) \/ Missing(j) \/ Deferred(j)
    <2>1. UNCHANGED <<net, param, result, deepTargets, fresh, visited>> /\ pc'[j] # "off"
      BY <1>4 DEF QueueJoin, Supplement, Judge, Missing, Deferred, finish, JobGoto
    <2> QED
      BY <2>1, CollectedKept DEF Gains
  <1> QED
    BY <1>1, <1>2, <1>3, <1>4 DEF Working, Run

\* Every step keeps what is collected.
LEMMA CollectedNext ==
  ASSUME IInv, \A j \in Job : Collected(j), [Next]_vars
  PROVE  \A j \in Job : Collected(j)'
PROOF
  <1>1. CASE Started
    <2>1. PICK j \in Job, p \in Param : startScanJob(j, p)
      BY <1>1 DEF Started
    <2>2. UNCHANGED <<result, deepTargets, fresh, visited>>
      BY <2>1 DEF startScanJob
    <2>3. \A i \in Job \ {j} : /\ pc'[i] = pc[i] /\ net'[i] = net[i] /\ param'[i] = param[i]
      BY <2>1 DEF startScanJob, IInv, TypeOK
    <2>4. \A i \in Job \ {j} : Collected(i)'
      BY <2>2, <2>3, CollectedKept DEF Gains
    <2>5. /\ pc[j] = "off" /\ pc'[j] # "off"
          /\ \A n \in Net : \/ net'[j][n] = "off"
                            \/ net'[j][n] = "begin" /\ n \in param'[j].nets
      BY <2>1 DEF startScanJob, IInv, TypeOK
    <2>6. Collected(j)'
      BY <2>2, <2>5 DEF Collected, CollectedNet
    <2> QED
      BY <2>4, <2>6
  <1>2. ASSUME NEW j \in Job, Working(j)
        PROVE  \A i \in Job : Collected(i)'
    <2>1. UNCHANGED param
      BY <1>2, WorkingFrame
    <2>2. /\ Collected(j)'
          /\ \A i \in Job \ {j} : Gains(i) /\ deepTargets'[i] = deepTargets[i]
      BY <1>2, SweepCollects, RestCollects DEF Gains
    <2>3. \A i \in Job \ {j} : pc'[i] = pc[i] /\ net'[i] = net[i] /\ result'[i] = result[i]
      BY <1>2, OthersUntouched DEF Working, Untouched, IInv
    <2> QED
      BY <2>1, <2>2, <2>3, CollectedKept
  <1>3. CASE Elsewhere
    <2>1. \A i \in Job : /\ pc'[i] = pc[i] /\ net'[i] = net[i] /\ result'[i] = result[i]
                         /\ param'[i].nets = param[i].nets
                         /\ param'[i].mode = param[i].mode
                         /\ param'[i].nightly = param[i].nightly
      BY <1>3 DEF Elsewhere, Untouched
    <2>2. ASSUME NEW i \in Job PROVE Gains(i)
      <3>1. CASE UNCHANGED <<fresh, visited>>
        BY <3>1 DEF Gains
      <3>2. CASE \E n \in Net : Credit(n) /\ Visit(n, Job)
        BY <3>2, CreditGains
      <3> QED
        BY <1>3, <3>1, <3>2 DEF Elsewhere
    <2>3. UNCHANGED deepTargets
      BY <1>3 DEF Elsewhere
    <2> QED
      BY <2>1, <2>2, <2>3, CollectedKept
  <1> QED
    BY <1>1, <1>2, <1>3, StepKinds DEF IInv

\* An ordinary job probes only networks that are its own and that it has just swept, or
\* that somebody else has swept while it ran: SweepJoin takes deepTargets or the new
\* devices that scanNetwork put down to the job, whoever met them, the sweep outside
\* Handler.job and the handlers of GET /api/scan included.
THEOREM ProbesFollowSweeps == Spec => []ProbeFollowsSweep
PROOF
  <1>1. Init => \A j \in Job : Collected(j)
    BY DEF Init, Collected, CollectedNet
  <1>2. IInv /\ (\A j \in Job : Collected(j)) /\ [Next]_vars =>
          (\A j \in Job : Collected(j))'
    BY CollectedNext
  <1>3. (\A j \in Job : Collected(j)) => ProbeFollowsSweep
    BY DEF Collected, CollectedNet, ProbeFollowsSweep
  <1> QED
    BY <1>1, <1>2, <1>3, Invariant, PTL DEF Spec

=============================================================================
