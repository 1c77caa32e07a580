--------------------------- MODULE StopSimulation ---------------------------
(***************************************************************************)
(* Stopping a paper simulation of one session and handing it over to live  *)
(* trading: the stop requests of routes/simulation.py, the shutdown of     *)
(* the worker process and what they share through Redis - the              *)
(* simulation_stop flag, the stop_job record and the pyramid result - and  *)
(* through the session document in Mongo.                                  *)
(*                                                                         *)
(* Each Redis or Mongo call is a step of its own; update_stop_job, a read  *)
(* followed by a write, is two.  Which process serves the session is       *)
(* SessionRegistry's subject: here a signal reaches the worker, if any.    *)
(***************************************************************************)
EXTENDS Naturals

CONSTANTS
    Threads,   \* threads that run requests
    Requests,  \* the requests clients send
    MaxRuns,   \* bound: workers started for the session ...
    PaperRuns, \* ... and how many of the first ones may be paper workers
    Faults     \* the faults that may happen

ASSUME StopAssumption ==
    /\ Requests \subseteq {"async", "sync", "plain", "poll"}
    /\ MaxRuns \in Nat \ {0}
    /\ PaperRuns \in 0..MaxRuns
    /\ Faults \subseteq {"outage", "expiry", "error", "hang", "crash"}

Paper == "B"
Live  == "C"

VARIABLES
    run,      \* workers started so far
    strat,    \* strategy of the current worker
    wpc,      \* where the current worker is
    stop,     \* its stop_event
    latched,  \* simulation_stop_latched, later simulation_stop
    handoff,  \* what its pyramid allowed; "none" before it ran
    wjob,     \* the stop job as complete_stop_job has read it
    known,    \* a registry entry or pid key leads to the current worker
    hung,     \* the current worker is in a call that never returns
    watched,  \* the gunicorn process that started it lives, and its monitor
    flag,     \* Redis simulation_stop
    job,      \* Redis stop_job
    result,   \* Redis pyramid_result
    mongo,    \* status and trading_status of the session document
    pc, op,   \* the request of each thread
    tjob,     \* the stop job as the thread has read it
    live,     \* the handoff the thread passes on
    target,   \* the worker a blocking stop waits for
    answer,   \* how its last request was answered
    asked,    \* history: a stop was requested during the current run
    signalled,\* history: a simulation stop signalled the current worker
    deaf      \* history: an outage has hidden a stop from the worker

workerVars == <<run, strat, wpc, stop, latched, handoff, wjob, known>>
reqVars == <<pc, op, tjob, live, target, answer>>
history == <<asked, signalled, deaf>>
fate == <<hung, watched>>
vars == <<run, strat, wpc, stop, latched, handoff, wjob, known, hung, watched, flag, job, result,
          mongo, pc, op, tjob, live, target, answer, asked, signalled, deaf>>

Handoffs == {"none", "allowed", "blocked"}
Jobs == [status : {"none", "stopping", "completed", "failed"}, live : Handoffs,
         response : Handoffs]

\* No stop_job key.
NoJob == [status |-> "none", live |-> "none", response |-> "none"]

\* What init_stop_job writes, and update_stop_job assumes for a missing key.
NewJob == [NoJob EXCEPT !.status = "stopping"]
Read(j) == IF j = NoJob THEN NewJob ELSE j

Completed(j, h) == [j EXCEPT !.status = "completed", !.live = h]
Failed_Error(j) == [Read(j) EXCEPT !.status = "error"]  \* mutant: another status
Failed(j) == [Read(j) EXCEPT !.status = "failed"]

\* A write that an outage of Redis or Mongo may lose, and a read that then finds
\* nothing: every such error is caught and logged.
Lossy(new, lost) == {new} \cup {x \in {lost} : "outage" \in Faults}
JobRead == Lossy(job, NoJob)

WorkerAlive == wpc \notin {"none", "ended"}

TypeOK ==
    /\ run \in 0..MaxRuns
    /\ strat \in {Paper, Live}
    /\ wpc \in {"none", "running", "shutdown", "flag", "job", "simulation", "plain",
                "complete", "write", "ended"}
    /\ stop \in BOOLEAN /\ latched \in BOOLEAN /\ known \in BOOLEAN /\ flag \in BOOLEAN
    /\ asked \in BOOLEAN /\ signalled \in BOOLEAN /\ deaf \in BOOLEAN
    /\ hung \in BOOLEAN /\ watched \in BOOLEAN
    /\ handoff \in Handoffs
    /\ wjob \in Jobs
    /\ job \in Jobs
    /\ result \in Handoffs
    /\ mongo \in [status : {"authenticated", "stopped"},
                  trading : {"other", "simulation_stopped", "stopped"}]
    /\ pc \in [Threads -> {"idle", "reply", "read", "mark", "init", "signal", "update",
                           "updated", "wait", "ensure", "result", "complete",
                           "completed", "route", "finalize", "clear", "final",
                           "finalized"}]
    /\ op \in [Threads -> {"async", "sync", "plain", "poll"}]
    /\ tjob \in [Threads -> Jobs]
    /\ live \in [Threads -> Handoffs]
    /\ target \in [Threads -> 0..MaxRuns]
    /\ answer \in [Threads -> {"none", "accepted", "refused", "not_ready", "failed",
                               "stopped", "allowed", "blocked"}]
-----------------------------------------------------------------------------
(* The worker process                                                      *)

\* A start request once the previous worker has ended; a live start kills a
\* paper worker first (prepare_for_live_start), wherever it is.
Start(st) ==
    /\ run < MaxRuns
    /\ st = Paper => run < PaperRuns
    /\ WorkerAlive => st = Live /\ strat = Paper
    /\ run' = run + 1
    /\ strat' = st
    /\ wpc' = "running"
    /\ stop' = FALSE
    /\ latched' = FALSE
    /\ handoff' = "none"
    /\ wjob' = NoJob
    /\ known' = TRUE
    /\ hung' = FALSE
    /\ watched' = TRUE
    /\ asked' = (\E t \in Threads : pc[t] # "idle" /\ op[t] # "poll")
    /\ signalled' = FALSE
    /\ UNCHANGED <<flag, job, result, mongo, reqVars, deaf>>

\* Mutant: the flag is latched but the loop goes on.
WorkerSeesFlag_NoBreak ==
    /\ wpc = "running" /\ ~stop /\ flag
    /\ latched' = TRUE
    /\ UNCHANGED <<run, strat, wpc, stop, handoff, wjob, known, flag, job, result,
                   mongo, reqVars, history>>

\* The monitoring loop finds the flag, and latches it ...
WorkerSeesFlag ==
    /\ wpc = "running" /\ ~stop /\ flag
    /\ latched' = TRUE
    /\ stop' = TRUE
    /\ wpc' = "shutdown"
    /\ UNCHANGED <<run, strat, handoff, wjob, known, flag, job, result, mongo,
                   reqVars, history>>

\* ... or the stop event set ...
WorkerSeesStop ==
    /\ wpc = "running" /\ stop
    /\ wpc' = "shutdown"
    /\ UNCHANGED <<run, strat, stop, latched, handoff, wjob, known, flag, job,
                   result, mongo, reqVars, history>>

\* ... or that its trader has ended by itself (end of day).
TraderEnds ==
    /\ wpc = "running" /\ ~stop
    /\ wpc' = "flag"
    /\ UNCHANGED <<run, strat, stop, latched, handoff, wjob, known, flag, job,
                   result, mongo, reqVars, history>>

\* trader.shutdown() runs the pyramid of a paper trader; the outcome goes to
\* Redis, or is lost after three attempts.
WorkerShutdown ==
    /\ wpc = "shutdown"
    /\ handoff' \in {"blocked"} \cup {h \in {"allowed"} : strat = Paper}
    /\ result' \in Lossy(handoff', result)
    /\ wpc' = "flag"
    /\ UNCHANGED <<run, strat, stop, latched, wjob, known, flag, job, mongo,
                   reqVars, history>>

\* The flag is consulted a last time, and consumed.
WorkerReadsFlag ==
    /\ wpc = "flag"
    /\ \/ latched' = (latched \/ flag) /\ flag' \in Lossy(FALSE, flag) /\ UNCHANGED deaf
       \/ "outage" \in Faults /\ deaf' = TRUE /\ UNCHANGED <<latched, flag>>
    /\ wpc' = "job"
    /\ UNCHANGED <<run, strat, stop, handoff, wjob, known, job, result, mongo,
                   reqVars, asked, signalled>>

\* Mutant: without the "third signal".
WorkerReadsJob_TwoSignals ==
    /\ wpc = "job"
    /\ wpc' = IF latched THEN "simulation" ELSE "plain"
    /\ UNCHANGED <<run, strat, stop, latched, handoff, wjob, known, flag, job,
                   result, mongo, reqVars, history>>

\* "Third signal": a pending stop job.
WorkerReadsJob ==
    /\ wpc = "job"
    /\ \E j \in JobRead :
         /\ wpc' = IF latched \/ j.status = "stopping" THEN "simulation" ELSE "plain"
         /\ deaf' = (deaf \/ j # job)
    /\ UNCHANGED <<run, strat, stop, latched, handoff, wjob, known, flag, job,
                   result, mongo, reqVars, asked, signalled>>

WorkerSimulationStopped ==
    /\ wpc = "simulation"
    /\ mongo' \in Lossy([mongo EXCEPT !.trading = "simulation_stopped"], mongo)
    /\ wpc' = IF stop THEN "complete" ELSE "ended"
    /\ UNCHANGED <<run, strat, stop, latched, handoff, wjob, known, flag, job,
                   result, reqVars, history>>

WorkerPlainStopped ==
    /\ wpc = "plain"
    /\ mongo' \in Lossy([status |-> "stopped", trading |-> "stopped"], mongo)
    /\ wpc' = "ended"
    /\ UNCHANGED <<run, strat, stop, latched, handoff, wjob, known, flag, job,
                   result, reqVars, history>>

\* complete_stop_job in the worker.  The stop event may have been set after
\* the shutdown was skipped: no handoff then means a blocked one.
WorkerReadsStopJob ==
    /\ wpc = "complete"
    /\ \E j \in JobRead : wjob' = Read(j)
    /\ wpc' = "write"
    /\ UNCHANGED <<run, strat, stop, latched, handoff, known, flag, job, result,
                   mongo, reqVars, history>>

WorkerCompletes ==
    /\ wpc = "write"
    /\ job' \in Lossy(Completed(wjob, IF handoff = "none" THEN "blocked" ELSE handoff), job)
    /\ wpc' = "ended"
    /\ UNCHANGED <<run, strat, stop, latched, handoff, wjob, known, flag, result,
                   mongo, reqVars, history>>

\* Any exception: a pending stop job fails.  A worker that cannot start up ends
\* without a word.
WorkerError ==
    /\ "error" \in Faults
    /\ \/ /\ wpc \in {"running", "shutdown"}
          /\ job' \in Lossy(IF job.status = "stopping" THEN Failed(job) ELSE job, job)
       \/ wpc = "running" /\ UNCHANGED job
    /\ wpc' = "ended"
    /\ UNCHANGED <<run, strat, stop, latched, handoff, wjob, known, flag, result,
                   mongo, reqVars, history>>

\* What the worker does by itself, once told to stop or not.
Worker ==
    /\ ~hung
    /\ \/ WorkerSeesFlag \/ WorkerSeesStop \/ WorkerShutdown \/ WorkerReadsFlag
       \/ WorkerReadsJob \/ WorkerSimulationStopped \/ WorkerPlainStopped
       \/ WorkerReadsStopJob \/ WorkerCompletes
    /\ UNCHANGED fate

\* What happens to it meanwhile.
WorkerEvent == ~hung /\ (TraderEnds \/ WorkerError) /\ UNCHANGED fate

\* A call of the worker does not return: order_queue.join(), in a manual exit or in
\* the shutdown, and Mongo's answers have no timeout.  Its other threads go on,
\* and SIGTERM is still heard.
WorkerHangs ==
    /\ "hang" \in Faults
    /\ WorkerAlive /\ ~hung
    /\ hung' = TRUE
    /\ UNCHANGED <<workerVars, watched, flag, job, result, mongo, reqVars, history>>

\* The heartbeats end at the stop event, and WORKER_TIMEOUT later the monitor of
\* the process that started the worker ends it, wherever its shutdown is.
MonitorKills ==
    /\ watched /\ stop /\ WorkerAlive
    /\ wpc' = "ended"
    /\ UNCHANGED <<run, strat, stop, latched, handoff, wjob, known, fate, flag, job,
                   result, mongo, reqVars, history>>
-----------------------------------------------------------------------------
(* The requests                                                            *)

Goto(t, l) == pc' = [pc EXCEPT ![t] = l]

Reply(t, a) == Goto(t, "reply") /\ answer' = [answer EXCEPT ![t] = a]

Begin(t) ==
    /\ pc[t] = "idle"
    /\ \E o \in Requests :
         /\ op' = [op EXCEPT ![t] = o]
         /\ Goto(t, CASE o \in {"async", "poll"} -> "read"
                      [] o = "sync"  -> "mark"
                      [] o = "plain" -> "signal")
         /\ asked' = (asked \/ o # "poll")
    /\ UNCHANGED <<workerVars, flag, job, result, mongo, tjob, live, target, answer, signalled, deaf>>

Done(t) ==
    /\ pc[t] = "reply"
    /\ Goto(t, "idle")
    /\ op' = [op EXCEPT ![t] = "poll"]
    /\ tjob' = [tjob EXCEPT ![t] = NoJob]
    /\ live' = [live EXCEPT ![t] = "none"]
    /\ answer' = [answer EXCEPT ![t] = "none"]
    /\ target' = [target EXCEPT ![t] = 0]
    /\ UNCHANGED <<workerVars, flag, job, result, mongo, history>>

\* stop_simulation_session_async: a job that is stopping or completed is an
\* "idempotent accept".
AsyncRead(t) ==
    /\ pc[t] = "read" /\ op[t] = "async"
    /\ \E j \in JobRead :
         IF j.status \in {"stopping", "completed"}
         THEN Reply(t, "accepted")
         ELSE Goto(t, "mark") /\ UNCHANGED answer
    /\ UNCHANGED <<workerVars, flag, job, result, mongo, op, tjob, live, target, history>>

\* _mark_simulation_stop
Mark(t) ==
    /\ pc[t] = "mark"
    /\ \/ flag' = TRUE /\ Goto(t, "init") /\ UNCHANGED answer
       \/ "outage" \in Faults /\ Reply(t, "refused") /\ UNCHANGED flag
    /\ UNCHANGED <<workerVars, job, result, mongo, op, tjob, live, target, history>>

InitJob(t) ==
    /\ pc[t] = "init"
    /\ job' \in Lossy(NewJob, job)
    /\ deaf' = (deaf \/ job' # NewJob)
    /\ Goto(t, "signal")
    /\ UNCHANGED <<workerVars, flag, result, mongo, op, tjob, live, target, answer,
                   asked, signalled>>

\* stop_session_signal_only
AsyncSignal(t) ==
    /\ pc[t] = "signal" /\ op[t] = "async"
    /\ stop' = (stop \/ (known /\ WorkerAlive))
    /\ signalled' = (signalled \/ (known /\ WorkerAlive))
    /\ Goto(t, "update")
    /\ UNCHANGED <<run, strat, wpc, latched, handoff, wjob, known, flag, job, result,
                   mongo, op, tjob, live, target, answer, asked, deaf>>

AsyncSignalFails(t) ==
    /\ pc[t] = "signal" /\ op[t] = "async"
    /\ "outage" \in Faults
    /\ job' \in {job, Failed(job)}
    /\ deaf' = (deaf \/ job' # job)
    /\ Reply(t, "refused")
    /\ UNCHANGED <<workerVars, flag, result, mongo, op, tjob, live, target,
                   asked, signalled>>

\* update_stop_job(phase="waiting_worker")
AsyncUpdate(t) ==
    /\ pc[t] = "update"
    /\ \E j \in JobRead : tjob' = [tjob EXCEPT ![t] = Read(j)]
    /\ Goto(t, "updated")
    /\ UNCHANGED <<workerVars, flag, job, result, mongo, op, live, target, answer, history>>

\* Mutant: the job counts as done once the signal is out.
AsyncUpdated_Done(t) ==
    /\ pc[t] = "updated"
    /\ job' = Completed(tjob[t], "blocked")
    /\ Reply(t, "accepted")
    /\ UNCHANGED <<workerVars, flag, result, mongo, op, tjob, live, target, history>>

AsyncUpdated(t) ==
    /\ pc[t] = "updated"
    /\ job' \in Lossy(tjob[t], job)
    /\ Reply(t, "accepted")
    /\ UNCHANGED <<workerVars, flag, result, mongo, op, tjob, live, target, history>>

\* stop_session, for /stop and for a blocking simulation stop.
StopSession(t) ==
    /\ pc[t] = "signal" /\ op[t] # "async"
    /\ \/ /\ known
          /\ stop' = (stop \/ WorkerAlive)
          /\ signalled' = (signalled \/ (WorkerAlive /\ op[t] = "sync"))
          /\ target' = [target EXCEPT ![t] = run]
          /\ Goto(t, "wait")
          /\ UNCHANGED answer
       \/ /\ ~known \/ "outage" \in Faults
          /\ Reply(t, "refused")
          /\ UNCHANGED <<stop, signalled, target>>
    /\ UNCHANGED <<run, strat, wpc, latched, handoff, wjob, known, flag, job, result,
                   mongo, op, tjob, live, asked, deaf>>

\* The worker exits, or is killed when it takes too long (a shutdown may last
\* 195 s, the cross-process wait lasts 60 s), and its entries are deleted: should
\* a new one have started by now, its entries may go instead.
StopWait(t) ==
    /\ pc[t] = "wait"
    /\ wpc' = IF run = target[t] THEN "ended" ELSE wpc
    /\ known' \in {FALSE, known /\ run # target[t]}
    /\ target' = [target EXCEPT ![t] = 0]
    /\ IF op[t] = "sync" THEN Goto(t, "ensure") /\ UNCHANGED answer
                         ELSE Reply(t, "stopped")
    /\ UNCHANGED <<run, strat, stop, latched, handoff, wjob, flag, job, result, mongo,
                   op, tjob, live, history>>

\* ensure_worker_stopped spares a live worker and kills a paper one, should one
\* have been started by now.
SyncEnsure(t) ==
    /\ pc[t] = "ensure"
    /\ IF WorkerAlive /\ strat = Live
       THEN /\ job' \in Lossy(Failed(job), job)
            /\ Reply(t, "refused")
            /\ UNCHANGED <<wpc, known>>
       ELSE /\ wpc' = IF WorkerAlive THEN "ended" ELSE wpc
            /\ known' = FALSE
            /\ Goto(t, "result")
            /\ UNCHANGED <<job, answer>>
    /\ UNCHANGED <<run, strat, stop, latched, handoff, wjob, flag, result, mongo,
                   op, tjob, live, target, history>>

\* Mutant: a missing pyramid result allows the live start.
SyncResult_Optimistic(t) ==
    /\ pc[t] = "result"
    /\ live' = [live EXCEPT ![t] = IF result = "none" THEN "allowed" ELSE result]
    /\ Goto(t, "complete")
    /\ UNCHANGED <<workerVars, flag, job, result, mongo, op, tjob, target, answer,
                   history>>

\* The pyramid result, or a blocked handoff, completes the job ...
SyncResult(t) ==
    /\ pc[t] = "result"
    /\ \E r \in Lossy(result, "none") :
         live' = [live EXCEPT ![t] = IF r = "none" THEN "blocked" ELSE r]
    /\ Goto(t, "complete")
    /\ UNCHANGED <<workerVars, flag, job, result, mongo, op, tjob, target, answer, history>>

SyncComplete(t) ==
    /\ pc[t] = "complete"
    /\ \E j \in JobRead : tjob' = [tjob EXCEPT ![t] = Read(j)]
    /\ Goto(t, "completed")
    /\ UNCHANGED <<workerVars, flag, job, result, mongo, op, live, target, answer, history>>

SyncCompleted(t) ==
    /\ pc[t] = "completed"
    /\ job' \in Lossy(Completed(tjob[t], live[t]), job)
    /\ Goto(t, "route")
    /\ UNCHANGED <<workerVars, flag, result, mongo, op, tjob, live, target, answer, history>>

\* ... and the route reads it again to finalize.
SyncRoute(t) ==
    /\ pc[t] = "route"
    /\ \E r \in Lossy(result, "none") :
         live' = [live EXCEPT ![t] = IF r = "none" THEN "blocked" ELSE r]
    /\ Goto(t, "finalize")
    /\ UNCHANGED <<workerVars, flag, job, result, mongo, op, tjob, target, answer, history>>

\* GET .../status
Poll(t) ==
    /\ pc[t] = "read" /\ op[t] = "poll"
    /\ \E j \in JobRead :
         \/ j.status \in {"none", "stopping"} /\ Reply(t, "not_ready") /\ UNCHANGED live
         \/ j.status = "failed" /\ Reply(t, "failed") /\ UNCHANGED live
         \/ /\ j.status = "completed" /\ j.response # "none"
            /\ Reply(t, j.response) /\ UNCHANGED live
         \/ /\ j.status = "completed" /\ j.response = "none"
            /\ live' = [live EXCEPT ![t] = j.live]
            /\ Goto(t, "finalize") /\ UNCHANGED answer
    /\ UNCHANGED <<workerVars, flag, job, result, mongo, op, tjob, target, history>>

\* _finalize_stop_simulation_response: the session document, then the pyramid
\* result; a poll stores the response in the job.
Finalize(t) ==
    /\ pc[t] = "finalize"
    /\ mongo' \in Lossy(IF live[t] = "allowed"
                       THEN [status |-> "authenticated", trading |-> "simulation_stopped"]
                       ELSE [status |-> "stopped", trading |-> "stopped"], mongo)
    /\ Goto(t, "clear")
    /\ UNCHANGED <<workerVars, flag, job, result, op, tjob, live, target, answer, history>>

FinalizeClear(t) ==
    /\ pc[t] = "clear"
    /\ result' \in Lossy("none", result)
    /\ IF op[t] = "sync" THEN Reply(t, live[t])
                         ELSE Goto(t, "final") /\ UNCHANGED answer
    /\ UNCHANGED <<workerVars, flag, job, mongo, op, tjob, live, target, history>>

PollFinal(t) ==
    /\ pc[t] = "final"
    /\ \E j \in JobRead : tjob' = [tjob EXCEPT ![t] = Read(j)]
    /\ Goto(t, "finalized")
    /\ UNCHANGED <<workerVars, flag, job, result, mongo, op, live, target, answer, history>>

PollFinalized(t) ==
    /\ pc[t] = "finalized"
    /\ job' \in Lossy([tjob[t] EXCEPT !.response = live[t]], job)
    /\ Reply(t, live[t])
    /\ UNCHANGED <<workerVars, flag, result, mongo, op, tjob, live, target, history>>

Step(t) ==
    \/ Done(t) \/ AsyncRead(t) \/ Mark(t) \/ InitJob(t) \/ AsyncSignal(t)
    \/ AsyncSignalFails(t) \/ AsyncUpdate(t) \/ AsyncUpdated(t) \/ StopSession(t)
    \/ StopWait(t) \/ SyncEnsure(t) \/ SyncResult(t) \/ SyncComplete(t)
    \/ SyncCompleted(t) \/ SyncRoute(t) \/ Poll(t) \/ Finalize(t)
    \/ FinalizeClear(t) \/ PollFinal(t) \/ PollFinalized(t)

Quiet == ~WorkerAlive /\ \A t \in Threads : pc[t] = "idle"

\* A TTL runs out: the configurable one of the flag (SIMULATION_STOP_TTL) at any
\* time, the ten minutes of the others with no worker and no request at work.
KeyExpires ==
    /\ "expiry" \in Faults
    /\ \/ flag' = FALSE /\ UNCHANGED <<job, result>>
       \/ Quiet /\ job' = NoJob /\ UNCHANGED <<flag, result>>
       \/ Quiet /\ result' = "none" /\ UNCHANGED <<flag, job>>
    /\ UNCHANGED <<workerVars, mongo, reqVars, history>>

\* A gunicorn process dies, the one that started the worker or another, and its
\* requests with it: their clients get no answer.
GunicornCrash ==
    /\ "crash" \in Faults
    /\ watched' \in {watched, FALSE}
    /\ \E T \in SUBSET Threads :
         pc' = [t \in Threads |-> IF t \in T /\ pc[t] # "idle" THEN "reply" ELSE pc[t]]
    /\ UNCHANGED <<workerVars, hung, flag, job, result, mongo, op, tjob, live, target,
                   answer, history>>
-----------------------------------------------------------------------------

Init ==
    /\ run = 0 /\ strat = Paper /\ wpc = "none"
    /\ stop = FALSE /\ latched = FALSE /\ handoff = "none" /\ wjob = NoJob
    /\ known = FALSE /\ hung = FALSE /\ watched = FALSE /\ flag = FALSE /\ job = NoJob /\ result = "none"
    /\ mongo = [status |-> "authenticated", trading |-> "other"]
    /\ pc = [t \in Threads |-> "idle"]
    /\ op = [t \in Threads |-> "poll"]
    /\ tjob = [t \in Threads |-> NoJob]
    /\ live = [t \in Threads |-> "none"]
    /\ answer = [t \in Threads |-> "none"]
    /\ target = [t \in Threads |-> 0]
    /\ asked = FALSE /\ signalled = FALSE /\ deaf = FALSE

Next ==
    \/ \E st \in {Paper, Live} : Start(st)
    \/ Worker \/ WorkerEvent \/ WorkerHangs \/ MonitorKills
    \/ \E t \in Threads : (Begin(t) \/ Step(t)) /\ UNCHANGED fate
    \/ KeyExpires /\ UNCHANGED fate
    \/ GunicornCrash

Spec == Init /\ [][Next]_vars

\* A worker goes on until a call of it does not return, which is no one's promise
\* (WorkerHangs); the monitor wakes every 30 s and its joins are bounded, and so is
\* a blocking stop's wait for the worker.  No other request need go on.
Fairness ==
    /\ WF_vars(Worker)
    /\ WF_vars(MonitorKills)
    /\ \A t \in Threads : WF_vars(StopWait(t) /\ UNCHANGED fate)

FairSpec == Spec /\ Fairness
-----------------------------------------------------------------------------
(* Properties                                                              *)

\* "If it expires first the worker takes the plain-stop branch and marks the
\* session stopped, which de-authenticates it": a paper worker that a simulation
\* stop has signalled never takes that branch, even if the flag expires under it,
\* unless an outage hides both the flag and the stop
\* job from it.
SimStopKeepsAuth ==
    [][strat = Paper /\ wpc # "plain" /\ wpc' = "plain" => ~signalled \/ deaf']_vars

\* A stop job that says "completed" is only seen once the paper worker has left
\* its trading loop and its shutdown, so a live start that follows meets no trader.
ReadyMeansEnded ==
    job.status = "completed" /\ strat = Paper => wpc \notin {"running", "shutdown"}

\* "Live handoff is blocked unless pyramid sets live_allowed=True explicitly":
\* no request passes on an allowed handoff, and no stop job holds one, that the
\* pyramid of the paper worker has not allowed.
AllowedOnlyByPyramid ==
    strat = Paper /\ handoff # "allowed" =>
        /\ job.live # "allowed"
        /\ \A t \in Threads : live[t] # "allowed" /\ answer[t] # "allowed"

Over(r) == run # r \/ ~WorkerAlive

\* A worker that has been told to stop ends.  One that hangs is killed, by a blocking
\* stop that has found it or by the monitor of the process that started it, and goes
\* on only when a crash has taken both.  One whose signal was lost but whose flag is
\* up ends too, unless the flag expires before it looks, or it hangs.
StopEnds ==
    \A r \in 1..MaxRuns :
        /\ run = r /\ stop /\ WorkerAlive ~>
              \/ Over(r)
              \/ hung /\ ~watched /\ \A t \in Threads : pc[t] = "wait" => target[t] # r
        /\ run = r /\ flag /\ WorkerAlive ~> Over(r) \/ ~flag \/ hung

\* "Stop the paper simulation worker": a live worker is not brought down by the
\* simulation_stop flag when nobody has asked for a stop since it started.
LiveKeepsTrading ==
    [][strat = Live /\ wpc = "running" /\ ~latched /\ latched' => asked]_vars
=============================================================================
