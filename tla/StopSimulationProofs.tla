------------------------ MODULE StopSimulationProofs ------------------------
(***************************************************************************)
(* Proofs about StopSimulation for any threads, requests, bounds and       *)
(* faults.                                                                 *)
(***************************************************************************)
EXTENDS StopSimulation, TLAPS

USE StopAssumption

-----------------------------------------------------------------------------
(* Type correctness                                                        *)

\* What is written into the stop_job record, and read from it, is a stop job.
LEMMA JobTypes ==
    /\ NoJob \in Jobs /\ NewJob \in Jobs
    /\ \A j \in Jobs : Read(j) \in Jobs /\ Failed(j) \in Jobs
    /\ \A j \in Jobs, h \in Handoffs : Completed(j, h) \in Jobs
    /\ \A j \in Jobs, h \in Handoffs : [j EXCEPT !.response = h] \in Jobs
  BY DEF Jobs, Handoffs, NoJob, NewJob, Read, Failed, Completed

\* The flags, which are shown to be Booleans apart from the rest of the type invariant.
Flags ==
    /\ stop \in BOOLEAN /\ latched \in BOOLEAN /\ known \in BOOLEAN /\ flag \in BOOLEAN
    /\ asked \in BOOLEAN /\ signalled \in BOOLEAN /\ deaf \in BOOLEAN
    /\ hung \in BOOLEAN /\ watched \in BOOLEAN

LEMMA InitTypeOK == Init => TypeOK
<1> SUFFICES ASSUME Init PROVE TypeOK
  OBVIOUS
<1> USE JobTypes DEF Init, Handoffs
<1>1. Flags
  BY DEF Flags
<1>2. mongo \in [status : {"authenticated", "stopped"},
                trading : {"other", "simulation_stopped", "stopped"}]
  OBVIOUS
<1>3. /\ op \in [Threads -> {"async", "sync", "plain", "poll"}]
      /\ tjob \in [Threads -> Jobs] /\ live \in [Threads -> Handoffs]
      /\ target \in [Threads -> 0..MaxRuns]
  OBVIOUS
<1>4. QED
  BY <1>1, <1>2, <1>3 DEF TypeOK, Flags

LEMMA WorkerTypeOK ==
    ASSUME TypeOK, Worker \/ WorkerEvent
    PROVE  TypeOK'
<1> USE JobTypes DEF TypeOK, Lossy, history, reqVars, fate
<1>0. UNCHANGED fate
  BY DEF Worker, WorkerEvent
<1>1. CASE WorkerSeesFlag
  <2>1. Flags'
    BY <1>0, <1>1 DEF WorkerSeesFlag, Flags
  <2>2. QED
    BY <1>1, <2>1 DEF WorkerSeesFlag, Flags
<1>2. CASE WorkerSeesStop
  BY <1>0, <1>2 DEF WorkerSeesStop
<1>3. CASE WorkerShutdown
  BY <1>0, <1>3 DEF WorkerShutdown, Handoffs
<1>4. CASE WorkerReadsFlag
  <2>1. Flags'
    BY <1>0, <1>4 DEF WorkerReadsFlag, Flags
  <2>2. QED
    BY <1>4, <2>1 DEF WorkerReadsFlag, Flags
<1>5. CASE WorkerReadsJob
  BY <1>0, <1>5 DEF WorkerReadsJob
<1>6. CASE WorkerSimulationStopped
  BY <1>0, <1>6 DEF WorkerSimulationStopped
<1>7. CASE WorkerPlainStopped
  BY <1>0, <1>7 DEF WorkerPlainStopped
<1>8. CASE WorkerReadsStopJob
  BY <1>0, <1>8 DEF WorkerReadsStopJob, JobRead
<1>9. CASE WorkerCompletes
  BY <1>0, <1>9 DEF WorkerCompletes, Handoffs
<1>10. CASE WorkerError
  BY <1>0, <1>10 DEF WorkerError
<1>11. CASE TraderEnds
  BY <1>0, <1>11 DEF TraderEnds
<1>12. QED
  BY <1>1, <1>2, <1>3, <1>4, <1>5, <1>6, <1>7, <1>8, <1>9, <1>10, <1>11 DEF Worker, WorkerEvent

LEMMA StepTypeOK ==
    ASSUME TypeOK, NEW t \in Threads, Begin(t) \/ Step(t), UNCHANGED fate
    PROVE  TypeOK'
<1> USE JobTypes DEF TypeOK, Lossy, history, workerVars, Goto, Reply, Handoffs, fate
<1>1. CASE Begin(t)
  BY <1>1 DEF Begin
<1>2. CASE Done(t)
  BY <1>2 DEF Done
<1>3. CASE AsyncRead(t)
  BY <1>3 DEF AsyncRead
<1>4. CASE Mark(t)
  <2>1. Flags'
    BY <1>4 DEF Mark, Flags
  <2>2. QED
    BY <1>4, <2>1 DEF Mark, Flags
<1>5. CASE InitJob(t)
  <2>1. (deaf => deaf') /\ (deaf' \/ job' = NewJob)
    BY <1>5 DEF InitJob
  <2>2. QED
    BY <1>5, <2>1 DEF InitJob
<1>6. CASE AsyncSignal(t)
  BY <1>6 DEF AsyncSignal, WorkerAlive
<1>7. CASE AsyncSignalFails(t)
  BY <1>7 DEF AsyncSignalFails
<1>8. CASE AsyncUpdate(t)
  BY <1>8 DEF AsyncUpdate, JobRead
<1>9. CASE AsyncUpdated(t)
  BY <1>9 DEF AsyncUpdated
<1>10. CASE StopSession(t)
  BY <1>10 DEF StopSession, WorkerAlive
<1>11. CASE StopWait(t)
  <2>1. Flags'
    BY <1>11 DEF StopWait, Flags
  <2>2. QED
    BY <1>11, <2>1 DEF StopWait, Flags
<1>12. CASE SyncEnsure(t)
  <2>1. Flags'
    BY <1>12 DEF SyncEnsure, WorkerAlive, Flags
  <2>2. QED
    BY <1>12, <2>1 DEF SyncEnsure, WorkerAlive, Flags
<1>13. CASE SyncResult(t)
  BY <1>13 DEF SyncResult
<1>14. CASE SyncComplete(t)
  BY <1>14 DEF SyncComplete, JobRead
<1>15. CASE SyncCompleted(t)
  BY <1>15 DEF SyncCompleted
<1>16. CASE SyncRoute(t)
  BY <1>16 DEF SyncRoute
<1>17. CASE Poll(t)
  <2>1. \/ \E a \in {"not_ready", "failed"} \cup Handoffs : Reply(t, a) /\ UNCHANGED live
        \/ \E h \in Handoffs :
             live' = [live EXCEPT ![t] = h] /\ Goto(t, "finalize") /\ UNCHANGED answer
    <3>1. PICK j \in JobRead :
            \/ \E a \in {"not_ready", "failed", j.response} :
                 Reply(t, a) /\ UNCHANGED live
            \/ /\ live' = [live EXCEPT ![t] = j.live]
               /\ Goto(t, "finalize") /\ UNCHANGED answer
      BY <1>17, Zenon DEF Poll
    <3>2. j.response \in Handoffs /\ j.live \in Handoffs
      BY DEF JobRead, Jobs
    <3>3. QED
      BY <3>1, <3>2, Zenon
  <2>2. QED
    BY <1>17, <2>1 DEF Poll
<1>18. CASE Finalize(t)
  BY <1>18 DEF Finalize
<1>19. CASE FinalizeClear(t)
  BY <1>19 DEF FinalizeClear
<1>20. CASE PollFinal(t)
  BY <1>20 DEF PollFinal, JobRead
<1>21. CASE PollFinalized(t)
  <2>1. [tjob[t] EXCEPT !.response = live[t]] \in Jobs
    OBVIOUS
  <2>2. job' \in Jobs
    BY <1>21, <2>1 DEF PollFinalized
  <2>3. QED
    BY <1>21, <2>2 DEF PollFinalized
<1>22. QED
  BY <1>1, <1>2, <1>3, <1>4, <1>5, <1>6, <1>7, <1>8, <1>9, <1>10, <1>11, <1>12, <1>13,
     <1>14, <1>15, <1>16, <1>17, <1>18, <1>19, <1>20, <1>21 DEF Step

LEMMA OthersTypeOK ==
    ASSUME TypeOK,
           \/ \E st \in {Paper, Live} : Start(st)
           \/ KeyExpires /\ UNCHANGED fate
           \/ WorkerHangs \/ MonitorKills \/ GunicornCrash \/ UNCHANGED vars
    PROVE  TypeOK'
<1> USE JobTypes DEF TypeOK
<1>1. ASSUME NEW st \in {Paper, Live}, Start(st) PROVE TypeOK'
  <2>1. Flags'
    BY <1>1 DEF Start, Handoffs, reqVars, Flags
  <2>2. QED
    BY <1>1, <2>1 DEF Start, Handoffs, reqVars, Flags
<1>2. CASE KeyExpires /\ UNCHANGED fate
  <2>1. Flags'
    BY <1>2 DEF KeyExpires, Handoffs, workerVars, reqVars, history, fate, Flags
  <2>2. QED
    BY <1>2, <2>1 DEF KeyExpires, Handoffs, workerVars, reqVars, history, fate, Flags
<1>3. CASE UNCHANGED vars
  BY <1>3 DEF vars
<1>4. CASE WorkerHangs \/ MonitorKills
  <2>1. Flags'
    BY <1>4 DEF WorkerHangs, MonitorKills, workerVars, reqVars, history, fate, Flags
  <2>2. QED
    BY <1>4, <2>1 DEF WorkerHangs, MonitorKills, workerVars, reqVars, history, fate, Flags
<1>5. CASE GunicornCrash
  <2>1. PICK T \in SUBSET Threads :
          pc' = [t \in Threads |-> IF t \in T /\ pc[t] # "idle" THEN "reply" ELSE pc[t]]
    BY <1>5 DEF GunicornCrash
  <2>2. watched' \in BOOLEAN
    BY <1>5 DEF GunicornCrash
  <2>3. UNCHANGED <<stop, latched, known, flag, asked, signalled, deaf, hung>>
    BY <1>5 DEF GunicornCrash, workerVars, history
  <2>4. Flags'
    BY <2>2, <2>3 DEF Flags
  <2>5. UNCHANGED <<run, strat, wpc, handoff, wjob, job, result, mongo, op, tjob, live,
                    target, answer>>
    BY <1>5 DEF GunicornCrash, workerVars
  <2>6. QED
    BY <2>1, <2>4, <2>5 DEF Flags
<1>6. QED
  BY <1>1, <1>2, <1>3, <1>4, <1>5

LEMMA NextTypeOK == TypeOK /\ [Next]_vars => TypeOK'
  BY WorkerTypeOK, StepTypeOK, OthersTypeOK DEF Next

\* Every variable stays in its type: a stop job only ever holds a status, a handoff and a
\* response it may hold, whichever process wrote it last.
THEOREM TypeCorrect == Spec => []TypeOK
<1>1. QED
  BY InitTypeOK, NextTypeOK, PTL DEF Spec

-----------------------------------------------------------------------------
(* One paper simulation: the inductive invariant                           *)

\* Where a request knows, or is about to make sure, that the simulation has ended.
Settling == {"result", "complete", "completed", "route", "finalize", "clear", "final",
             "finalized"}

\* Nobody waits for the first worker, or answers for it, before it exists.
FirstRun ==
    /\ run = 0 => strat = Paper /\ wpc = "none" /\ ~known
    /\ wpc = "none" => run = 0 /\ ~signalled
    /\ \A t \in Threads : pc[t] \in {"wait", "ensure"} \cup Settling => run # 0

\* While a paper worker is coming or going, no stop job, nor a copy of one, is completed.
NotYetReady ==
    strat = Paper /\ wpc # "ended" =>
        /\ job.status # "completed"
        /\ \A t \in Threads : tjob[t].status # "completed" /\ pc[t] \notin Settling

\* A stop job has a status, and so has every copy that is about to be written back.
HasStatus ==
    /\ job.status = "none" => job = NoJob
    /\ wpc = "write" => wjob.status # "none"
    /\ \A t \in Threads :
        pc[t] \in {"updated", "completed", "finalized"} => tjob[t].status # "none"

Unallowed(j) == j.live # "allowed" /\ j.response # "allowed"

\* Until the paper worker's pyramid has allowed a handoff, nothing anywhere says so.
NothingAllowed ==
    /\ wpc \in {"none", "running", "shutdown"} => handoff = "none"
    /\ strat = Paper /\ handoff # "allowed" =>
        /\ result # "allowed" /\ Unallowed(job) /\ Unallowed(wjob)
        /\ \A t \in Threads :
            Unallowed(tjob[t]) /\ live[t] # "allowed" /\ answer[t] # "allowed"

\* A simulation stop that has passed init_stop_job.
Signalling(t) == pc[t] = "signal" /\ op[t] # "plain"

\* Unless an outage got in its way, the stop job of a signalled paper worker is pending.
JobPending ==
    strat = Paper /\ wpc # "ended" /\ ~deaf =>
        /\ job.status # "failed"
        /\ \A t \in Threads : tjob[t].status # "failed"
        /\ signalled \/ (\E t \in Threads : Signalling(t)) => job.status = "stopping"

StopInv == FirstRun /\ NotYetReady /\ HasStatus /\ NothingAllowed /\ JobPending

\* What the operations on a stop job do to what the invariant reads of it.
LEMMA JobFields ==
    /\ NoJob.status = "none" /\ Unallowed(NoJob)
    /\ NewJob.status = "stopping" /\ Unallowed(NewJob)
    /\ \A j \in Jobs :
        /\ Read(j).status \in {j.status, "stopping"}
        /\ (j.status = "none" => j = NoJob) => Read(j).status # "none"
        /\ Unallowed(j) => Unallowed(Read(j)) /\ Unallowed(Failed(j))
        /\ Failed(j).status = "failed"
    /\ \A j \in Jobs, h \in Handoffs :
        /\ Completed(j, h).status = "completed"
        /\ Unallowed(j) /\ h # "allowed" => Unallowed(Completed(j, h))
        /\ [j EXCEPT !.response = h].status = j.status
        /\ Unallowed(j) /\ h # "allowed" => Unallowed([j EXCEPT !.response = h])
  BY DEF Jobs, Handoffs, NoJob, NewJob, Read, Failed, Completed, Unallowed

LEMMA ReadsJob ==
    ASSUME NEW j \in JobRead
    PROVE  j = job \/ j = NoJob
  BY DEF JobRead, Lossy

LEMMA InitStopInv == Init => StopInv
  BY JobFields DEF Init, StopInv, FirstRun, NotYetReady, HasStatus, NothingAllowed,
     JobPending, Settling, Signalling, Paper

\* The worker's own accesses to the stop job.
LEMMA WorkerJobStopInv ==
    ASSUME TypeOK, StopInv, WorkerReadsStopJob \/ WorkerCompletes \/ WorkerError
    PROVE  StopInv'
<1>1. job \in Jobs /\ wjob \in Jobs /\ NoJob \in Jobs
  BY JobTypes DEF TypeOK
<1>2. CASE WorkerReadsStopJob
  <2>1. wjob' \in {Read(job), Read(NoJob)}
    BY <1>2, ReadsJob DEF WorkerReadsStopJob
  <2>2. /\ wjob'.status # "none"
        /\ Unallowed(job) => Unallowed(wjob')
    BY <1>1, <2>1, JobFields DEF StopInv, HasStatus
  <2>3. /\ wpc = "complete" /\ wpc' = "write"
        /\ UNCHANGED <<run, strat, handoff, known, job, result, reqVars, history>>
    BY <1>2 DEF WorkerReadsStopJob
  <2>4. QED
    BY <2>2, <2>3 DEF StopInv, FirstRun, NotYetReady, HasStatus, NothingAllowed,
       JobPending, Signalling, reqVars, history
<1>3. CASE WorkerCompletes \/ WorkerError
  <2>1. /\ wpc \notin {"none", "ended"} /\ wpc' = "ended"
        /\ UNCHANGED <<run, strat, handoff, wjob, known, result, reqVars, history>>
    BY <1>3 DEF WorkerCompletes, WorkerError
  <2>2. /\ job' = job \/ job'.status # "none"
        /\ strat = Paper /\ handoff # "allowed" => Unallowed(job')
    <3>1. strat = Paper /\ handoff # "allowed" => Unallowed(job) /\ Unallowed(wjob)
      BY DEF StopInv, NothingAllowed
    <3>2. CASE WorkerError
      <4>1. job' \in {job, Failed(job)}
        BY <3>2 DEF WorkerError, Lossy
      <4>2. QED
        BY <1>1, <3>1, <4>1, JobFields
    <3>3. CASE WorkerCompletes
      <4>1. PICK h \in Handoffs :
              job' \in {Completed(wjob, h), job} /\ (h = "allowed" => handoff = "allowed")
        BY <3>3 DEF WorkerCompletes, Lossy, Handoffs, TypeOK
      <4>2. /\ Completed(wjob, h).status = "completed"
            /\ Unallowed(wjob) /\ h # "allowed" => Unallowed(Completed(wjob, h))
        BY <1>1, JobFields
      <4>3. QED
        BY <3>1, <4>1, <4>2
    <3>4. QED
      BY <1>3, <3>2, <3>3
  <2>3. FirstRun' /\ NotYetReady' /\ JobPending'
    BY <2>1 DEF StopInv, FirstRun, NotYetReady, JobPending, reqVars, history
  <2>4. HasStatus' /\ NothingAllowed'
    BY <2>1, <2>2 DEF StopInv, HasStatus, NothingAllowed, reqVars
  <2>5. QED
    BY <2>3, <2>4 DEF StopInv
<1>4. QED
  BY <1>2, <1>3

LEMMA WorkerStopInv ==
    ASSUME PaperRuns <= 1, TypeOK, StopInv, Worker \/ WorkerEvent
    PROVE  StopInv'
<1> USE JobFields, JobTypes, ReadsJob
<1> USE DEF TypeOK, StopInv, FirstRun, NotYetReady, HasStatus, NothingAllowed, JobPending,
        Settling, Signalling, Lossy, history, reqVars, workerVars, WorkerAlive, Goto, Reply
<1>1. CASE WorkerSeesFlag
  BY <1>1 DEF WorkerSeesFlag
<1>2. CASE WorkerSeesStop
  BY <1>2 DEF WorkerSeesStop
<1>3. CASE WorkerShutdown
  BY <1>3 DEF WorkerShutdown
<1>4. CASE WorkerReadsFlag
  BY <1>4 DEF WorkerReadsFlag
<1>5. CASE WorkerReadsJob
  BY <1>5 DEF WorkerReadsJob
<1>6. CASE WorkerSimulationStopped
  BY <1>6 DEF WorkerSimulationStopped
<1>7. CASE WorkerPlainStopped
  BY <1>7 DEF WorkerPlainStopped
<1>8. CASE WorkerReadsStopJob
  BY <1>8, WorkerJobStopInv
<1>9. CASE WorkerCompletes
  BY <1>9, WorkerJobStopInv
<1>10. CASE WorkerError
  BY <1>10, WorkerJobStopInv
<1>11. CASE TraderEnds
  BY <1>11 DEF TraderEnds
<1>12. QED
  BY <1>1, <1>2, <1>3, <1>4, <1>5, <1>6, <1>7, <1>8, <1>9, <1>10, <1>11 DEF Worker, WorkerEvent

\* A request leaves the locals of the other requests alone ...
OwnLocals(t) ==
    \A u \in Threads \ {t} :
        /\ pc'[u] = pc[u] /\ op'[u] = op[u] /\ tjob'[u] = tjob[u]
        /\ live'[u] = live[u] /\ answer'[u] = answer[u]

\* ... and of the worker only ends it, after it has waited for it or killed it.
Flow(t) ==
    /\ run' = run /\ strat' = strat /\ handoff' = handoff /\ wjob' = wjob
    /\ wpc' = wpc \/ (wpc' = "ended" /\ (pc[t] = "wait" \/ WorkerAlive))
    /\ known' => known
    /\ deaf => deaf'
    /\ pc'[t] \in {"wait", "ensure"} \cup Settling =>
        pc[t] \in {"wait", "ensure"} \cup Settling \/ known \/ job.status = "completed"
    /\ pc'[t] \in Settling =>
        \/ pc[t] \in Settling \/ job.status = "completed"
        \/ pc[t] = "ensure" /\ (~WorkerAlive \/ wpc' = "ended")
    /\ signalled' => signalled \/ (WorkerAlive /\ Signalling(t))
    /\ pc'[t] = "signal" /\ op'[t] # "plain" => deaf' \/ job' = NewJob

\* What a request writes into the stop job, and what it reads from it.
Writes(t) ==
    \/ job' = job \/ job' = NewJob
    \/ job' = Failed(job) /\ (deaf' \/ strat # Paper)
    \/ pc[t] = "updated" /\ job' = tjob[t]
    \/ pc[t] = "completed" /\ job' = Completed(tjob[t], live[t])
    \/ pc[t] = "finalized" /\ job' = [tjob[t] EXCEPT !.response = live[t]]

Reads(t) ==
    \/ tjob'[t] \in {Read(job), Read(NoJob)}
    \/ tjob'[t] \in {tjob[t], NoJob} /\ pc'[t] \notin {"updated", "completed", "finalized"}

\* The handoff it passes on comes from the pyramid result, the stop job or itself.
Says(t) ==
    /\ result' \in {result, "none"}
    /\ live'[t] \in {live[t], "none", "blocked", result, job.live, NoJob.live}
    /\ answer'[t] = "allowed" =>
        "allowed" \in {answer[t], live[t], job.response, NoJob.response}

LEMMA StepEffects ==
    ASSUME TypeOK, NEW t \in Threads, Begin(t) \/ Step(t)
    PROVE  OwnLocals(t) /\ Flow(t) /\ Writes(t) /\ Reads(t) /\ Says(t)
<1> USE JobFields, ReadsJob
<1> USE DEF TypeOK, OwnLocals, Flow, Writes, Reads, Says, Settling, Signalling, Lossy,
        history, workerVars, Goto, Reply
<1>1. CASE Begin(t)
  BY <1>1 DEF Begin
<1>2. CASE Done(t)
  BY <1>2 DEF Done
<1>3. CASE AsyncRead(t)
  BY <1>3 DEF AsyncRead
<1>4. CASE Mark(t)
  BY <1>4 DEF Mark
<1>5. CASE InitJob(t)
  <2>1. (deaf => deaf') /\ (deaf' \/ job' = NewJob)
    BY <1>5 DEF InitJob
  <2>2. QED
    BY <1>5, <2>1 DEF InitJob
<1>6. CASE AsyncSignal(t)
  BY <1>6 DEF AsyncSignal
<1>7. CASE AsyncSignalFails(t)
  <2>1. (deaf => deaf') /\ (deaf' \/ job' = job)
    BY <1>7 DEF AsyncSignalFails
  <2>2. QED
    BY <1>7, <2>1 DEF AsyncSignalFails
<1>8. CASE AsyncUpdate(t)
  BY <1>8 DEF AsyncUpdate
<1>9. CASE AsyncUpdated(t)
  BY <1>9 DEF AsyncUpdated
<1>10. CASE StopSession(t)
  BY <1>10 DEF StopSession
<1>11. CASE StopWait(t)
  <2>1. known' => known
    BY <1>11 DEF StopWait
  <2>2. QED
    BY <1>11, <2>1 DEF StopWait
<1>12. CASE SyncEnsure(t)
  <2>1. known' => known
    BY <1>12 DEF SyncEnsure
  <2>2. CASE WorkerAlive /\ strat = Live
    BY <1>12, <2>1, <2>2 DEF SyncEnsure, Live, Paper
  <2>3. CASE ~(WorkerAlive /\ strat = Live)
    BY <1>12, <2>1, <2>3 DEF SyncEnsure
  <2>4. QED
    BY <2>2, <2>3
<1>13. CASE SyncResult(t)
  BY <1>13 DEF SyncResult
<1>14. CASE SyncComplete(t)
  BY <1>14 DEF SyncComplete
<1>15. CASE SyncCompleted(t)
  BY <1>15 DEF SyncCompleted
<1>16. CASE SyncRoute(t)
  BY <1>16 DEF SyncRoute
<1>17. CASE Poll(t)
  BY <1>17 DEF Poll
<1>18. CASE Finalize(t)
  BY <1>18 DEF Finalize
<1>19. CASE FinalizeClear(t)
  BY <1>19 DEF FinalizeClear
<1>20. CASE PollFinal(t)
  BY <1>20 DEF PollFinal
<1>21. CASE PollFinalized(t)
  BY <1>21 DEF PollFinalized
<1>22. QED
  BY <1>1, <1>2, <1>3, <1>4, <1>5, <1>6, <1>7, <1>8, <1>9, <1>10, <1>11, <1>12, <1>13, <1>14, <1>15, <1>16, <1>17, <1>18, <1>19, <1>20, <1>21 DEF Step

LEMMA WritesOne ==
    ASSUME TypeOK, NEW t \in Threads, Writes(t)
    PROVE  \/ job' = job
           \/ job'.status = "stopping" /\ Unallowed(job')
           \/ /\ job'.status = "failed" /\ (deaf' \/ strat # Paper)
              /\ Unallowed(job) => Unallowed(job')
           \/ pc[t] = "updated" /\ job' = tjob[t]
           \/ /\ \/ pc[t] = "completed" /\ job'.status = "completed"
                 \/ pc[t] = "finalized" /\ job'.status = tjob[t].status
              /\ Unallowed(tjob[t]) /\ live[t] # "allowed" => Unallowed(job')
<1>1. job \in Jobs /\ tjob[t] \in Jobs /\ live[t] \in Handoffs
  BY DEF TypeOK
<1>2. CASE job' \in {job, NewJob} \/ (pc[t] = "updated" /\ job' = tjob[t])
  BY <1>2, JobFields
<1>a. CASE job' = Failed(job) /\ (deaf' \/ strat # Paper)
  BY <1>1, <1>a, JobFields
<1>3. CASE pc[t] = "completed" /\ job' = Completed(tjob[t], live[t])
  BY <1>1, <1>3, JobFields
<1>4. CASE pc[t] = "finalized" /\ job' = [tjob[t] EXCEPT !.response = live[t]]
  BY <1>1, <1>4, JobFields
<1>5. QED
  BY <1>2, <1>a, <1>3, <1>4 DEF Writes

LEMMA ReadsOne ==
    ASSUME TypeOK, NEW t \in Threads, Reads(t)
    PROVE  \/ /\ tjob'[t] \in {tjob[t], NoJob}
              /\ pc'[t] \notin {"updated", "completed", "finalized"}
           \/ /\ tjob'[t].status \in {job.status, "none", "stopping"}
              /\ (job.status = "none" => job = NoJob) => tjob'[t].status # "none"
              /\ Unallowed(job) => Unallowed(tjob'[t])
<1>1. job \in Jobs /\ NoJob \in Jobs
  BY JobTypes DEF TypeOK
<1>2. QED
  BY <1>1, JobFields DEF Reads

LEMMA StepStopInv ==
    ASSUME TypeOK, StopInv, NEW t \in Threads, Begin(t) \/ Step(t)
    PROVE  StopInv'
<1>1. OwnLocals(t) /\ Flow(t) /\ Writes(t) /\ Reads(t) /\ Says(t)
  BY StepEffects
<1>2. FirstRun'
  <2>1. run = 0 => job.status # "completed"
    BY DEF StopInv, FirstRun, NotYetReady
  <2>2. QED
    BY <1>1, <2>1 DEF StopInv, FirstRun, OwnLocals, Flow, WorkerAlive, Signalling
<1>3. /\ NoJob.status = "none" /\ Unallowed(NoJob) /\ NewJob.status = "stopping"
      /\ tjob[t].status \in {"none", "stopping", "completed", "failed"}
  BY JobFields DEF TypeOK, Jobs
<1>4. NotYetReady'
  BY <1>1, <1>3, WritesOne, ReadsOne DEF StopInv, NotYetReady, FirstRun, OwnLocals, Flow,
     WorkerAlive, Settling
<1>5. HasStatus'
  BY <1>1, <1>3, WritesOne, ReadsOne DEF StopInv, HasStatus, OwnLocals, Flow
<1>6. NothingAllowed'
  BY <1>1, <1>3, WritesOne, ReadsOne DEF StopInv, NothingAllowed, OwnLocals, Flow, Says,
     Unallowed
<1>7. JobPending'
  BY <1>1, <1>3, WritesOne, ReadsOne DEF StopInv, JobPending, NotYetReady, HasStatus,
     OwnLocals, Flow, Signalling, Settling
<1>8. QED
  BY <1>2, <1>4, <1>5, <1>6, <1>7 DEF StopInv

LEMMA OnlyFirst ==
    ASSUME PaperRuns <= 1, TypeOK, StopInv, Start(Paper)
    PROVE  run = 0 /\ strat = Paper
<1>1. run \in Nat /\ PaperRuns \in Nat /\ run < PaperRuns
  BY DEF TypeOK, Start
<1>2. run = 0
  BY <1>1
<1>3. QED
  BY <1>2 DEF StopInv, FirstRun

\* A crash answers some requests and changes nothing else the invariant speaks of.
LEMMA CrashStopInv ==
    ASSUME StopInv, GunicornCrash
    PROVE  StopInv'
<1>1. \A t \in Threads : pc'[t] = pc[t] \/ pc'[t] = "reply"
  BY DEF GunicornCrash
<1>2. UNCHANGED <<run, strat, wpc, known, signalled, deaf, handoff, wjob, job, result,
                  op, tjob, live, answer>>
  BY DEF GunicornCrash, workerVars, history
<1>3. FirstRun'
  BY <1>1, <1>2 DEF StopInv, FirstRun, Settling
<1>4. NotYetReady'
  BY <1>1, <1>2 DEF StopInv, NotYetReady, Settling
<1>5. HasStatus'
  BY <1>1, <1>2 DEF StopInv, HasStatus
<1>6. NothingAllowed'
  BY <1>2 DEF StopInv, NothingAllowed
<1>7. JobPending'
  <2>1. \A t \in Threads : Signalling(t)' => Signalling(t)
    BY <1>1, <1>2 DEF Signalling
  <2>2. (\E t \in Threads : Signalling(t)') => \E t \in Threads : Signalling(t)
    BY <2>1
  <2>3. QED
    BY <1>2, <2>2 DEF StopInv, JobPending
<1>8. QED
  BY <1>3, <1>4, <1>5, <1>6, <1>7 DEF StopInv

LEMMA OthersStopInv ==
    ASSUME PaperRuns <= 1, TypeOK, StopInv,
           \/ \E st \in {Paper, Live} : Start(st)
           \/ KeyExpires
           \/ WorkerHangs \/ MonitorKills \/ GunicornCrash \/ UNCHANGED vars
    PROVE  StopInv'
<1> USE JobFields, JobTypes
<1> USE DEF TypeOK, StopInv, FirstRun, NotYetReady, HasStatus, NothingAllowed, JobPending,
        Settling, Signalling, history, reqVars, workerVars, WorkerAlive, Paper, Live
<1>1. ASSUME NEW st \in {Paper, Live}, Start(st) PROVE StopInv'
  <2>1. CASE st = Live
    BY <1>1, <2>1 DEF Start
  <2>2. CASE st = Paper
    <3>1. run = 0 /\ strat = Paper
      BY <1>1, <2>2, OnlyFirst
    <3>2. FirstRun' /\ NotYetReady' /\ HasStatus'
      BY <1>1, <2>2, <3>1 DEF Start
    <3>3. NothingAllowed'
      BY <1>1, <2>2, <3>1 DEF Start
    <3>4. JobPending'
      BY <1>1, <2>2, <3>1 DEF Start
    <3>5. QED
      BY <3>2, <3>3, <3>4
  <2>3. QED
    BY <2>1, <2>2
<1>2. CASE KeyExpires
  <2>1. CASE UNCHANGED <<job, result>>
    BY <1>2, <2>1 DEF KeyExpires
  <2>2. CASE Quiet /\ job' = NoJob /\ UNCHANGED result
    <3>1. wpc \in {"none", "ended"} /\ \A t \in Threads : pc[t] = "idle"
      BY <2>2 DEF Quiet
    <3>2. QED
      BY <1>2, <2>2, <3>1 DEF KeyExpires
  <2>3. CASE result' = "none" /\ UNCHANGED job
    BY <1>2, <2>3 DEF KeyExpires
  <2>4. QED
    BY <1>2, <2>1, <2>2, <2>3 DEF KeyExpires
<1>3. CASE UNCHANGED vars
  BY <1>3 DEF vars
<1>4. CASE WorkerHangs
  BY <1>4 DEF WorkerHangs
<1>5. CASE MonitorKills
  BY <1>5 DEF MonitorKills
<1>6. CASE GunicornCrash
  BY <1>6, CrashStopInv
<1>7. QED
  BY <1>1, <1>2, <1>3, <1>4, <1>5, <1>6

LEMMA NextStopInv ==
    ASSUME PaperRuns <= 1
    PROVE  TypeOK /\ StopInv /\ [Next]_vars => StopInv'
  BY WorkerStopInv, StepStopInv, OthersStopInv DEF Next

LEMMA StopInvariant ==
    ASSUME PaperRuns <= 1
    PROVE  Spec => [](TypeOK /\ StopInv)
<1>1. Init => TypeOK /\ StopInv
  BY InitTypeOK, InitStopInv
<1>2. TypeOK /\ StopInv /\ [Next]_vars => (TypeOK /\ StopInv)'
  BY NextTypeOK, NextStopInv
<1>3. QED
  BY <1>1, <1>2, PTL DEF Spec

\* A completed stop job means that the simulation is over, for any requests, faults and
\* live runs, as long as one simulation has been started: the records of an earlier
\* simulation may answer for a later one.
THEOREM CompletedMeansEnded ==
    ASSUME PaperRuns <= 1
    PROVE  Spec => []ReadyMeansEnded
<1>1. NotYetReady => ReadyMeansEnded
  BY DEF NotYetReady, ReadyMeansEnded
<1>2. QED
  BY <1>1, StopInvariant, PTL DEF StopInv

\* An allowed handoff can only come from the pyramid of that simulation, whatever requests
\* pass on, lose or repeat.
THEOREM PyramidAllows ==
    ASSUME PaperRuns <= 1
    PROVE  Spec => []AllowedOnlyByPyramid
<1>1. NothingAllowed => AllowedOnlyByPyramid
  BY DEF NothingAllowed, AllowedOnlyByPyramid, Unallowed
<1>2. QED
  BY <1>1, StopInvariant, PTL DEF StopInv

\* The worker of a signalled simulation finds the stop job pending: only WorkerReadsJob
\* leads to the plain stop, and it looks for it.
LEMMA PlainOnlyUnsignalled ==
    ASSUME TypeOK, StopInv, [Next]_vars, strat = Paper, wpc # "plain", wpc' = "plain"
    PROVE  ~signalled \/ deaf'
<1>1. WorkerReadsJob
  BY DEF Next, vars, Start, Worker, WorkerSeesFlag, WorkerSeesStop, WorkerShutdown,
     WorkerReadsFlag, WorkerSimulationStopped, WorkerPlainStopped, WorkerReadsStopJob,
     WorkerCompletes, TraderEnds, WorkerError, Begin, KeyExpires, workerVars, Step, Done,
     AsyncRead, Mark, InitJob, AsyncSignal, AsyncSignalFails, AsyncUpdate, AsyncUpdated,
     StopSession, StopWait, SyncEnsure, SyncResult, SyncComplete, SyncCompleted, SyncRoute,
     Poll, Finalize, FinalizeClear, PollFinal, PollFinalized, WorkerEvent, WorkerHangs,
     MonitorKills, GunicornCrash
<1>2. PICK j \in JobRead : j.status # "stopping" /\ deaf' = (deaf \/ j # job)
  BY <1>1 DEF WorkerReadsJob
<1>3. CASE signalled /\ ~deaf
  <2>1. job.status = "stopping"
    BY <1>1, <1>3 DEF StopInv, JobPending, WorkerReadsJob
  <2>2. QED
    BY <1>2, <2>1
<1>4. QED
  BY <1>2, <1>3

\* A signalled simulation never takes the plain-stop branch that de-authenticates the
\* session, even if its flag has expired, unless an outage hides the stop from it.
THEOREM SignalledKeepsAuth ==
    ASSUME PaperRuns <= 1
    PROVE  Spec => SimStopKeepsAuth
<1>1. TypeOK /\ StopInv /\ [Next]_vars =>
        [strat = Paper /\ wpc # "plain" /\ wpc' = "plain" => ~signalled \/ deaf']_vars
  BY PlainOnlyUnsignalled
<1>2. QED
  BY <1>1, StopInvariant, PTL DEF Spec, SimStopKeepsAuth
=============================================================================
