--------------------------- MODULE SessionRegistry ---------------------------
(***************************************************************************)
(* The worker registry of session_worker/: which trader process serves a   *)
(* session, as seen by the gunicorn processes that start and stop it.      *)
(*                                                                         *)
(* Every gunicorn process g has its own in-memory dict _workers; the pid   *)
(* key and the meta key in Redis are shared by all of them.  A request is  *)
(* run by a thread of one gunicorn process, one action per point at which  *)
(* another thread, another gunicorn process, the health monitor or the     *)
(* worker itself can take a step.  Worker processes are operating-system   *)
(* processes: one that has exited stays a zombie, for which os.kill(p, 0)  *)
(* succeeds, until its parent polls or joins it.                           *)
(***************************************************************************)
EXTENDS Naturals, FiniteSets

CONSTANTS
    Gunicorns,   \* the gunicorn processes ("-w 2" in the Dockerfile)
    Threads,     \* threads that run requests
    GunicornOf,  \* the gunicorn process each thread belongs to
    Sessions,    \* session ids
    Pids,        \* pids the OS hands out; none is used twice (bound)
    NoPid,       \* Python None
    MaxWorkers,  \* SessionManager.MAX_WORKERS
    StrictMeta,  \* the environment's EOD_STRICT_REDIS_META ("false" by default)
    Serialized,  \* TRUE: clients send one request per session at a time
    Requests,    \* the requests that clients send for each session
    Faults       \* the faults that may happen

Starts == {"start paper", "start live"}

ASSUME RegistryAssumption ==
    /\ GunicornOf \in [Threads -> Gunicorns]
    /\ NoPid \notin Pids
    /\ NoPid \notin Threads
    /\ IsFiniteSet(Sessions) /\ Sessions # {}
    /\ MaxWorkers \in Nat
    /\ {Serialized, StrictMeta} \subseteq BOOLEAN
    /\ Requests \in [Sessions -> SUBSET (Starts \cup {"stop", "stopsim", "signal"})]
    /\ Faults \subseteq {"hang", "keyloss", "crash", "redisdown"}

Paper == "B"
Live  == "C"
NoMeta == "none"
InitProc == "init"   \* pid 1, which adopts and reaps stranded

VARIABLES
    workers,   \* workers[g][s]: the pid in g's _workers entry for s, or NoPid
    pidKey,    \* Redis autotrader:session:<s>
    meta,      \* strategy field of Redis autotrader:session:<s>:meta
    pstate,    \* what the OS knows of a pid
    psess, pstrat, parent,   \* arguments and parent of the process
    condemned, \* monitor_loop's dead_workers list in g: sessions, not processes
    loop,      \* the thread that holds g's event loop inside start_session
    pc, op, ses, strat,      \* the request each thread runs
    ret,       \* where _reconcile_session_registry returns to
    seen,      \* pid a thread has read and will act upon
    victims,   \* pids_to_kill of _terminate_session_worker
    stranded,  \* history: workers left running without their Redis keys by a
               \* crash, a failed publish or another worker's stop
    answer     \* how the thread's last request was answered

procVars == <<pstate, psess, pstrat, parent>>
redisVars == <<pidKey, meta>>
reqVars == <<op, ses, strat>>
vars == <<workers, pidKey, meta, pstate, psess, pstrat, parent, condemned, loop,
          pc, op, ses, strat, ret, seen, victims, stranded, answer>>

ProcStates == {"none", "running", "stopping", "zombie", "gone"}
Ops == {"start", "restart", "stop", "stopsim", "signal"}
Answers == {"none", "started", "already_running", "not_cleared", "conflict",
            "limit", "failed", "stopped", "not_running", "not_stopped", "signalled"}
StartPcs == {"start1", "reserve", "spawn", "publish", "register"}
Pcs == {"idle", "reply", "rec1", "rec2", "rec3", "prep", "ensure", "term1", "term2",
        "term3", "term4", "term5", "start0", "stop1", "stopL", "stopR",
        "delL", "delR", "stopped", "signal"} \cup StartPcs
RetPcs == {"prep", "ensure", "term5", "start1"}

TypeOK ==
    /\ workers \in [Gunicorns -> [Sessions -> Pids \cup {NoPid}]]
    /\ pidKey \in [Sessions -> Pids \cup {NoPid}]
    /\ meta \in [Sessions -> {Paper, Live, NoMeta}]
    /\ pstate \in [Pids -> ProcStates]
    /\ psess \in [Pids -> Sessions]
    /\ pstrat \in [Pids -> {Paper, Live}]
    /\ parent \in [Pids -> Gunicorns \cup {InitProc}]
    /\ condemned \in [Gunicorns -> SUBSET Sessions]
    /\ loop \in [Gunicorns -> Threads \cup {NoPid}]
    /\ pc \in [Threads -> Pcs]
    /\ op \in [Threads -> Ops]
    /\ ses \in [Threads -> Sessions]
    /\ strat \in [Threads -> {Paper, Live}]
    /\ ret \in [Threads -> RetPcs]
    /\ seen \in [Threads -> Pids \cup {NoPid}]
    /\ victims \in [Threads -> SUBSET Pids]
    /\ stranded \subseteq Pids \cup {NoPid}
    /\ answer \in [Threads -> Answers]

-----------------------------------------------------------------------------
(* Helpers                                                                 *)

\* The process is executing.
Alive(p) == p # NoPid /\ pstate[p] \in {"running", "stopping"}

\* _pid_alive: os.kill(pid, 0) also succeeds for an unreaped zombie.
PidAlive(p) == p # NoPid /\ pstate[p] \in {"running", "stopping", "zombie"}

Local(t) == workers[GunicornOf[t]][ses[t]]

\* A call to Redis may fail.
Down == "redisdown" \in Faults

\* _get_redis_pid, _get_session_worker_meta: what a read may return.  One that
\* fails returns None, as if there were no key.
PidRead(s)  == {pidKey[s]} \cup {x \in {NoPid} : Down}
MetaRead(s) == {meta[s]} \cup {x \in {NoMeta} : Down}

\* _is_live_worker_meta.  Every writer of the key stores a strategy, so the
\* branch for a missing one is never taken.
IsLiveMeta(m) == m = Live

\* Mutant: only the shared meta is consulted.
HasLiveWorker_MetaOnly(t, m) == IsLiveMeta(m)

\* _session_has_live_worker, which has read m
HasLiveWorker(t, m) ==
    \/ IsLiveMeta(m)
    \/ Alive(Local(t)) /\ pstrat[Local(t)] = Live

\* An is_alive() poll by the parent reaps a child that has exited.
Polled(p) == IF p # NoPid /\ pstate[p] = "zombie"
             THEN [pstate EXCEPT ![p] = "gone"] ELSE pstate

\* SIGTERM, or the worker's stop_event: its trader begins to shut down.
Signalled(p) == IF p # NoPid /\ pstate[p] = "running"
                THEN [pstate EXCEPT ![p] = "stopping"] ELSE pstate

\* SIGKILL to every pid of P.  Init reaps what it has adopted.
Killed(P) == [p \in Pids |->
                IF p \in P /\ Alive(p)
                THEN IF parent[p] = InitProc THEN "gone" ELSE "zombie"
                ELSE pstate[p]]

\* join(timeout), terminate() and finally kill() on a child: either join
\* reaped it in time or kill() leaves a zombie that nobody joins.
Ended(p) == IF Alive(p) THEN Killed({p}) ELSE Polled(p)

\* Mutant: the meta is overwritten with None instead of deleted.
DeleteKeys_None(s) == /\ pidKey' = [pidKey EXCEPT ![s] = NoPid]
                      /\ meta' = [meta EXCEPT ![s] = NoPid]

\* _delete_session_redis_keys, which swallows a failure
DeleteKeys(s) == \/ /\ pidKey' = [pidKey EXCEPT ![s] = NoPid]
                    /\ meta' = [meta EXCEPT ![s] = NoMeta]
                 \/ Down /\ UNCHANGED redisVars

\* The pipeline that writes both keys.
WriteKeys(s, p, m) == /\ pidKey' = [pidKey EXCEPT ![s] = p]
                      /\ meta' = [meta EXCEPT ![s] = m]

Unregister(g, s) == workers' = [workers EXCEPT ![g][s] = NoPid]

Goto(t, l) == pc' = [pc EXCEPT ![t] = l]

CallReconcile(t, back) == Goto(t, "rec1") /\ ret' = [ret EXCEPT ![t] = back]

Reply(t, a) == Goto(t, "reply") /\ answer' = [answer EXCEPT ![t] = a]

ReleaseLoop(t) == loop' = [g \in Gunicorns |->
                             IF loop[g] = t THEN NoPid ELSE loop[g]]
-----------------------------------------------------------------------------
(* Requests                                                                *)

\* A request arrives.  A start of strategy C first clears paper workers.
Begin(t) ==
    /\ pc[t] = "idle"
    /\ \E s \in Sessions : \E r \in Requests[s] :
         /\ Serialized => \A u \in Threads : pc[u] = "idle" \/ ses[u] # s
         /\ op' = [op EXCEPT ![t] = IF r \in Starts THEN "start" ELSE r]
         /\ ses' = [ses EXCEPT ![t] = s]
         /\ strat' = [strat EXCEPT ![t] = IF r = "start live" THEN Live ELSE Paper]
         /\ CASE r = "start live"  -> CallReconcile(t, "prep")
              [] r = "start paper" -> Goto(t, "start0") /\ UNCHANGED ret
              [] r = "signal"      -> Goto(t, "signal") /\ UNCHANGED ret
              [] OTHER             -> Goto(t, "stop1") /\ UNCHANGED ret
    /\ UNCHANGED <<workers, redisVars, procVars, loop, seen, victims, stranded,
                   answer>>

\* The response leaves; the locals of the call are gone.
Done(t) ==
    /\ pc[t] = "reply"
    /\ Goto(t, "idle")
    /\ answer' = [answer EXCEPT ![t] = "none"]
    /\ op' = [op EXCEPT ![t] = "stop"]
    /\ ses' = [ses EXCEPT ![t] = CHOOSE s \in Sessions : TRUE]
    /\ strat' = [strat EXCEPT ![t] = Paper]
    /\ ret' = [ret EXCEPT ![t] = "prep"]
    /\ seen' = [seen EXCEPT ![t] = NoPid]
    /\ victims' = [victims EXCEPT ![t] = {}]
    /\ UNCHANGED <<workers, redisVars, procVars, loop, stranded>>

\* The lost keys of a live worker are written again, the pid before the meta; a
\* failure is swallowed.
Republish(s, w) ==
    \/ WriteKeys(s, w, Live)
    \/ Down /\ pidKey' \in {pidKey, [pidKey EXCEPT ![s] = w]} /\ UNCHANGED meta

\* _reconcile_session_registry, local record against the pid key.
Reconcile(t) ==
    LET g == GunicornOf[t]
        s == ses[t]
        w == Local(t)
    IN
    /\ pc[t] = "rec1"
    /\ \/ /\ ~Alive(w)
          /\ pstate' = Polled(w)
          /\ Unregister(g, s)
          /\ Goto(t, "rec3")
          /\ UNCHANGED redisVars
       \/ /\ Alive(w) /\ NoPid \in PidRead(s) /\ pstrat[w] = Live
          /\ Republish(s, w)
          /\ Goto(t, "rec3")
          /\ UNCHANGED <<workers, pstate>>
       \/ /\ Alive(w)
          /\ \E p \in PidRead(s) \ {w} : p = NoPid => pstrat[w] = Paper
          /\ pstate' = Signalled(w)
          /\ Goto(t, "rec2")
          /\ UNCHANGED <<workers, redisVars>>
       \/ /\ Alive(w) /\ pidKey[s] = w
          /\ Goto(t, "rec3")
          /\ UNCHANGED <<workers, redisVars, pstate>>
    /\ UNCHANGED <<psess, pstrat, parent, loop, reqVars, ret, seen, victims,
                   stranded, answer>>

\* _cleanup_worker: wait for the local worker, kill it, drop the entry.
ReconcileCleanup(t) ==
    /\ pc[t] = "rec2"
    /\ pstate' = Ended(Local(t))
    /\ Unregister(GunicornOf[t], ses[t])
    /\ Goto(t, "rec3")
    /\ UNCHANGED <<redisVars, psess, pstrat, parent, loop, reqVars, ret, seen,
                   victims, stranded, answer>>

\* Mutant: the worker that the pid key names is adopted into the registry.
ReconcileKeys_Adopts(t) ==
    /\ pc[t] = "rec3"
    /\ IF PidAlive(pidKey[ses[t]])
       THEN workers' = [workers EXCEPT ![GunicornOf[t]][ses[t]] = pidKey[ses[t]]]
       ELSE Unregister(GunicornOf[t], ses[t])
    /\ Goto(t, ret[t])
    /\ UNCHANGED <<redisVars, procVars, loop, reqVars, ret, seen, victims, stranded,
                   answer>>

\* _reconcile_session_registry, last part: a dead pid key is cleared.
ReconcileKeys(t) ==
    LET s == ses[t] IN
    /\ pc[t] = "rec3"
    /\ \E p \in PidRead(s) :
         IF p # NoPid /\ ~PidAlive(p)
         THEN DeleteKeys(s) /\ Unregister(GunicornOf[t], s)
         ELSE UNCHANGED <<redisVars, workers>>
    /\ Goto(t, ret[t])
    /\ UNCHANGED <<procVars, loop, reqVars, ret, seen, victims, stranded, answer>>

\* prepare_for_live_start: LIVE_ALREADY_RUNNING, terminate, or CLEAR.
Prepare(t) ==
    /\ pc[t] = "prep"
    /\ \E p \in PidRead(ses[t]), m \in MetaRead(ses[t]) :
         IF PidAlive(p) \/ Alive(Local(t))
         THEN IF HasLiveWorker(t, m)
              THEN Reply(t, "already_running")
              ELSE Goto(t, "term1") /\ UNCHANGED answer
         ELSE Goto(t, "start0") /\ UNCHANGED answer
    /\ UNCHANGED <<workers, redisVars, procVars, loop, reqVars, ret, seen,
                   victims, stranded>>

\* What the caller of _terminate_session_worker does with its result.
AfterTerminate(t, cleared) ==
    \/ /\ op[t] = "stopsim"
       /\ Reply(t, IF cleared THEN "stopped" ELSE "not_stopped")
    \/ /\ (op[t] = "start" /\ cleared) \/ op[t] = "restart"
       /\ Goto(t, "start0") /\ UNCHANGED answer
    \/ /\ op[t] = "start" /\ ~cleared
       /\ Reply(t, "not_cleared")

\* ensure_worker_stopped and the guard of _terminate_session_worker refuse
\* when a live worker is active; otherwise the local worker is popped.
Ensure(t) ==
    /\ pc[t] = "ensure"
    /\ \E m \in MetaRead(ses[t]) :
         IF HasLiveWorker(t, m)
         THEN AfterTerminate(t, FALSE)
         ELSE Goto(t, "term1") /\ UNCHANGED answer
    /\ UNCHANGED <<workers, redisVars, procVars, loop, reqVars, ret, seen,
                   victims, stranded>>

TerminatePop(t) ==
    /\ pc[t] = "term1"
    /\ \E m \in MetaRead(ses[t]) :
         IF HasLiveWorker(t, m)
         THEN AfterTerminate(t, FALSE) /\ UNCHANGED <<workers, pstate, victims>>
         ELSE /\ victims' = [victims EXCEPT ![t] =
                               IF Alive(Local(t)) THEN {Local(t)} ELSE {}]
              /\ pstate' = Polled(Local(t))
              /\ Unregister(GunicornOf[t], ses[t])
              /\ Goto(t, "term2")
              /\ UNCHANGED answer
    /\ UNCHANGED <<redisVars, psess, pstrat, parent, loop, reqVars, ret, seen,
                   stranded>>

\* Mutant: the Redis pid does not join pids_to_kill.
TerminateKeys_LocalOnly(t) ==
    /\ pc[t] = "term2"
    /\ DeleteKeys(ses[t])
    /\ Goto(t, "term3")
    /\ UNCHANGED <<workers, procVars, loop, reqVars, ret, seen, victims, stranded, answer>>

\* The Redis pid joins pids_to_kill; the keys go before the processes.
TerminateKeys(t) ==
    /\ pc[t] = "term2"
    /\ \E p \in PidRead(ses[t]) :
         victims' = [victims EXCEPT ![t] = @ \cup ({p} \ {NoPid})]
    /\ DeleteKeys(ses[t])
    /\ Goto(t, "term3")
    /\ UNCHANGED <<workers, procVars, loop, reqVars, ret, seen, stranded, answer>>

TerminateKill(t) ==
    /\ pc[t] = "term3"
    /\ pstate' = Killed(victims[t])
    /\ Goto(t, "term4")
    /\ UNCHANGED <<workers, redisVars, psess, pstrat, parent, loop, reqVars,
                   ret, seen, victims, stranded, answer>>

\* _wait_for_pid_exit ends when the pids are gone or after its timeout.
TerminateWait(t) ==
    /\ pc[t] = "term4"
    /\ CallReconcile(t, "term5")
    /\ UNCHANGED <<workers, redisVars, procVars, loop, reqVars, seen, victims,
                   stranded, answer>>

TerminateResult(t) ==
    /\ pc[t] = "term5"
    /\ \E p \in PidRead(ses[t]) :
         LET still == \/ Local(t) # NoPid
                      \/ \E v \in victims[t] \cup {p} : PidAlive(v)
         IN  AfterTerminate(t, ~still)
    /\ UNCHANGED <<workers, redisVars, procVars, loop, reqVars, ret, seen,
                   victims, stranded>>

-----------------------------------------------------------------------------
(* start_session runs on the event loop of its gunicorn process: one at a  *)
(* time per process, with pool threads and the monitor running beside it.  *)

\* Mutant: start_session runs in the thread pool.
StartEnter_Pool(t) ==
    /\ pc[t] = "start0"
    /\ CallReconcile(t, "start1")
    /\ UNCHANGED <<workers, redisVars, procVars, loop, reqVars, seen, victims,
                   stranded, answer>>

StartEnter(t) ==
    /\ pc[t] = "start0"
    /\ loop[GunicornOf[t]] = NoPid
    /\ loop' = [loop EXCEPT ![GunicornOf[t]] = t]
    /\ CallReconcile(t, "start1")
    /\ UNCHANGED <<workers, redisVars, procVars, reqVars, seen, victims,
                   stranded, answer>>

ActiveWorkers(g) == Cardinality({s \in Sessions : Alive(workers[g][s])})

\* "already running": idempotent success when the worker is this process's
\* own; else 503 for a live start, one forced retry for a paper start.
StartConflict(t) ==
    /\ pc[t] = "start1"
    /\ Alive(Local(t)) \/ PidAlive(pidKey[ses[t]])
    /\ IF Alive(Local(t))
       THEN Reply(t, "already_running") /\ UNCHANGED <<op, ret>>
       ELSE IF strat[t] = Live \/ op[t] = "restart"
            THEN Reply(t, "conflict") /\ UNCHANGED <<op, ret>>
            ELSE /\ op' = [op EXCEPT ![t] = "restart"]
                 /\ CallReconcile(t, "ensure")
                 /\ UNCHANGED answer
    /\ ReleaseLoop(t)
    /\ UNCHANGED <<workers, redisVars, procVars, ses, strat, seen, victims, stranded>>

StartCheck(t) ==
    /\ pc[t] = "start1"
    /\ ~Alive(Local(t))
    /\ \E p \in PidRead(ses[t]) : ~PidAlive(p)
    /\ pstate' = Polled(Local(t))
    /\ Unregister(GunicornOf[t], ses[t])
    /\ IF ActiveWorkers(GunicornOf[t]) >= MaxWorkers
       THEN Reply(t, "limit") /\ ReleaseLoop(t)
       ELSE Goto(t, "reserve") /\ UNCHANGED <<answer, loop>>
    /\ UNCHANGED <<redisVars, psess, pstrat, parent, reqVars, ret, seen,
                   victims, stranded>>

\* The meta reservation, best effort.
Reserve(t) ==
    /\ pc[t] = "reserve"
    /\ \/ meta' = [meta EXCEPT ![ses[t]] = strat[t]]
       \/ Down /\ UNCHANGED meta
    /\ Goto(t, "spawn")
    /\ UNCHANGED <<workers, pidKey, procVars, loop, reqVars, ret, seen, victims,
                   stranded, answer>>

\* process.start(), which first reaps the exited children of this process.
Spawn(t) ==
    LET g == GunicornOf[t] IN
    /\ pc[t] = "spawn"
    /\ \E p \in Pids :
         /\ pstate[p] = "none"
         /\ pstate' = [q \in Pids |->
                         IF q = p THEN "running"
                         ELSE IF pstate[q] = "zombie" /\ parent[q] = g THEN "gone"
                         ELSE pstate[q]]
         /\ psess' = [psess EXCEPT ![p] = ses[t]]
         /\ pstrat' = [pstrat EXCEPT ![p] = strat[t]]
         /\ parent' = [parent EXCEPT ![p] = g]
         /\ seen' = [seen EXCEPT ![t] = p]
    /\ Goto(t, "publish")
    /\ UNCHANGED <<workers, redisVars, loop, reqVars, ret, victims, stranded, answer>>

SpawnFails(t) ==
    /\ pc[t] = "spawn"
    /\ \/ meta' = [meta EXCEPT ![ses[t]] = NoMeta]
       \/ Down /\ UNCHANGED meta
    /\ Reply(t, "failed")
    /\ ReleaseLoop(t)
    /\ UNCHANGED <<workers, pidKey, procVars, reqVars, ret, seen, victims, stranded>>

Publish(t) ==
    /\ pc[t] = "publish"
    /\ WriteKeys(ses[t], seen[t], strat[t])
    /\ Goto(t, "register")
    /\ UNCHANGED <<workers, procVars, loop, reqVars, ret, seen, victims, stranded,
                   answer>>

\* Three failed attempts, one of which may have been carried out: go on all the
\* same, or under EOD_STRICT_REDIS_META terminate the live worker, which is
\* never registered.
PublishFails(t) ==
    /\ pc[t] = "publish"
    /\ Down
    /\ UNCHANGED redisVars \/ WriteKeys(ses[t], seen[t], strat[t])
    /\ IF StrictMeta /\ strat[t] = Live
       THEN /\ pstate' = Signalled(seen[t])
            /\ stranded' = stranded \cup {seen[t]}
            /\ Reply(t, "failed")
            /\ ReleaseLoop(t)
       ELSE /\ Goto(t, "register")
            /\ UNCHANGED <<pstate, stranded, answer, loop>>
    /\ UNCHANGED <<workers, psess, pstrat, parent, reqVars, ret, seen, victims>>

Register(t) ==
    /\ pc[t] = "register"
    /\ workers' = [workers EXCEPT ![GunicornOf[t]][ses[t]] = seen[t]]
    /\ Reply(t, "started")
    /\ ReleaseLoop(t)
    /\ UNCHANGED <<redisVars, procVars, reqVars, ret, seen, victims, stranded>>

-----------------------------------------------------------------------------
(* stop_session, stop_session_signal_only, stop_simulation_session         *)

\* The worker a stop is for: this process's own, else the one Redis names.
Targets(t) == IF Local(t) # NoPid THEN {Local(t)} ELSE PidRead(ses[t])

\* Mutant: the pid key alone decides, and without one the session counts as
\* stopped already.
StopSignal_RedisOnly(t) ==
    LET target == pidKey[ses[t]] IN
    /\ pc[t] = "stop1"
    /\ IF target = NoPid
       THEN Reply(t, "stopped") /\ UNCHANGED <<pstate, seen>>
       ELSE /\ pstate' = Signalled(target)
            /\ seen' = [seen EXCEPT ![t] = target]
            /\ Goto(t, "stopR")
            /\ UNCHANGED answer
    /\ UNCHANGED <<workers, redisVars, psess, pstrat, parent, loop, reqVars, ret,
                   victims, stranded>>

StopSignal(t) ==
    /\ pc[t] = "stop1"
    /\ \E target \in Targets(t) :
         IF target = NoPid
         THEN Reply(t, "not_running") /\ UNCHANGED <<pstate, seen>>
         ELSE /\ pstate' = Signalled(target)
              /\ seen' = [seen EXCEPT ![t] = target]
              /\ Goto(t, IF Local(t) # NoPid THEN "stopL"
                         ELSE IF PidAlive(target) THEN "stopR" ELSE "delR")
              /\ UNCHANGED answer
    /\ UNCHANGED <<workers, redisVars, psess, pstrat, parent, loop, reqVars, ret,
                   victims, stranded>>

\* join(240), then terminate() and kill().
StopWaitLocal(t) ==
    /\ pc[t] = "stopL"
    /\ pstate' = Ended(seen[t])
    /\ Goto(t, "delL")
    /\ UNCHANGED <<workers, redisVars, psess, pstrat, parent, loop, reqVars, ret,
                   seen, victims, stranded, answer>>

\* psutil wait(60), then SIGKILL.
StopWaitRemote(t) ==
    /\ pc[t] = "stopR"
    /\ pstate' = Killed({seen[t]})
    /\ Goto(t, "delR")
    /\ UNCHANGED <<workers, redisVars, psess, pstrat, parent, loop, reqVars, ret,
                   seen, victims, stranded, answer>>

StopDelete(t) ==
    /\ pc[t] \in {"delL", "delR"}
    /\ DeleteKeys(ses[t])
    /\ stranded' = stranded \cup ({pidKey[ses[t]]} \ {NoPid, seen[t], pidKey'[ses[t]]})
    /\ IF pc[t] = "delL" THEN Unregister(GunicornOf[t], ses[t])
                         ELSE UNCHANGED workers
    /\ IF op[t] = "stopsim"
       THEN Goto(t, "stopped") /\ UNCHANGED answer
       ELSE Reply(t, "stopped")
    /\ UNCHANGED <<procVars, loop, reqVars, ret, seen, victims>>

\* stop_simulation_session: _cleanup_worker, then ensure_worker_stopped.
StopSimulationEnsure(t) ==
    /\ pc[t] = "stopped"
    /\ pstate' = Ended(Local(t))
    /\ Unregister(GunicornOf[t], ses[t])
    /\ CallReconcile(t, "ensure")
    /\ UNCHANGED <<redisVars, psess, pstrat, parent, loop, reqVars, seen,
                   victims, stranded, answer>>

SignalOnly(t) ==
    /\ pc[t] = "signal"
    /\ \E target \in Targets(t) : pstate' = Signalled(target)
    /\ Reply(t, "signalled")
    /\ UNCHANGED <<workers, redisVars, psess, pstrat, parent, loop, reqVars, ret,
                   seen, victims, stranded>>

-----------------------------------------------------------------------------
(* The health monitor, the worker processes and the faults                 *)

\* monitor_loop collects the sessions whose worker has died or sent no
\* heartbeat for WORKER_TIMEOUT: one that hangs, and any that was told to stop
\* long ago, because heartbeat_loop ends at the stop event ...
MonitorScan(g) ==
    /\ condemned[g] = {}
    /\ \E D \in SUBSET {s \in Sessions : workers[g][s] # NoPid} :
         /\ D # {}
         /\ \A s \in Sessions : workers[g][s] # NoPid =>
              /\ ~Alive(workers[g][s]) => s \in D
              /\ s \in D /\ "hang" \notin Faults => pstate[workers[g][s]] # "running"
         /\ pstate' = [p \in Pids |->
                         IF \E s \in Sessions : workers[g][s] = p
                         THEN Polled(p)[p] ELSE pstate[p]]
         /\ condemned' = [condemned EXCEPT ![g] = D]
    /\ UNCHANGED <<workers, redisVars, psess, pstrat, parent, loop, pc, reqVars,
                   ret, seen, victims, stranded, answer>>

\* ... and cleans up after them one by one, whatever their entries hold by
\* then; the Redis keys stay.
MonitorCleanup(g) ==
    /\ \E s \in condemned[g] :
         /\ pstate' = Ended(workers[g][s])
         /\ Unregister(g, s)
         /\ condemned' = [condemned EXCEPT ![g] = @ \ {s}]
    /\ UNCHANGED <<redisVars, psess, pstrat, parent, loop, pc, reqVars, ret,
                   seen, victims, stranded, answer>>

\* The trader ends by itself (end of day, error) or after a stop signal.
WorkerExit(p) ==
    /\ Alive(p)
    /\ pstate' = Killed({p})
    /\ UNCHANGED <<workers, redisVars, psess, pstrat, parent, loop, pc, reqVars,
                   ret, seen, victims, stranded, answer>>

\* A key expires (SESSION_REDIS_TTL) or is evicted.
KeyLost(s) ==
    /\ "keyloss" \in Faults
    /\ \/ /\ pidKey[s] # NoPid
          /\ pidKey' = [pidKey EXCEPT ![s] = NoPid]
          /\ UNCHANGED meta
       \/ /\ meta[s] # NoMeta
          /\ meta' = [meta EXCEPT ![s] = NoMeta]
          /\ UNCHANGED pidKey
    /\ UNCHANGED <<workers, procVars, loop, pc, reqVars, ret, seen, victims,
                   stranded, answer>>

\* A worker that only the dying threads of g know of.
StrandedBy(g) ==
    {p \in Pids : \E t \in Threads :
        /\ GunicornOf[t] = g
        /\ \/ pc[t] = "publish" /\ seen[t] = p
           \/ pc[t] = "term3" /\ p \in victims[t]}

\* Gunicorn process g dies and is replaced: its registry and its requests are
\* lost (their clients get no answer), its children go on under init.
GunicornCrash(g) ==
    /\ "crash" \in Faults
    /\ workers' = [workers EXCEPT ![g] = [s \in Sessions |-> NoPid]]
    /\ pstate' = [p \in Pids |-> IF pstate[p] = "zombie" /\ parent[p] = g
                                 THEN "gone" ELSE pstate[p]]
    /\ parent' = [p \in Pids |-> IF parent[p] = g /\ pstate[p] # "none"
                                 THEN InitProc ELSE parent[p]]
    /\ loop' = [loop EXCEPT ![g] = NoPid]
    /\ condemned' = [condemned EXCEPT ![g] = {}]
    /\ pc' = [t \in Threads |-> IF GunicornOf[t] = g /\ pc[t] # "idle" THEN "reply" ELSE pc[t]]
    /\ stranded' = stranded \cup StrandedBy(g)
    /\ UNCHANGED <<redisVars, psess, pstrat, reqVars, ret, seen, victims, answer>>

-----------------------------------------------------------------------------

Init ==
    /\ workers = [g \in Gunicorns |-> [s \in Sessions |-> NoPid]]
    /\ pidKey = [s \in Sessions |-> NoPid]
    /\ meta = [s \in Sessions |-> NoMeta]
    /\ pstate = [p \in Pids |-> "none"]
    /\ psess = [p \in Pids |-> CHOOSE s \in Sessions : TRUE]
    /\ pstrat = [p \in Pids |-> Paper]
    /\ parent = [p \in Pids |-> InitProc]
    /\ condemned = [g \in Gunicorns |-> {}]
    /\ loop = [g \in Gunicorns |-> NoPid]
    /\ pc = [t \in Threads |-> "idle"]
    /\ op = [t \in Threads |-> "stop"]
    /\ ses = [t \in Threads |-> CHOOSE s \in Sessions : TRUE]
    /\ strat = [t \in Threads |-> Paper]
    /\ ret = [t \in Threads |-> "prep"]
    /\ seen = [t \in Threads |-> NoPid]
    /\ victims = [t \in Threads |-> {}]
    /\ stranded = {}
    /\ answer = [t \in Threads |-> "none"]

\* One step of the request that thread t runs.
Step(t) ==
    \/ Done(t)
    \/ Reconcile(t) \/ ReconcileCleanup(t) \/ ReconcileKeys(t)
    \/ Prepare(t) \/ Ensure(t)
    \/ TerminatePop(t) \/ TerminateKeys(t) \/ TerminateKill(t)
    \/ TerminateWait(t) \/ TerminateResult(t)
    \/ StartEnter(t) \/ StartConflict(t) \/ StartCheck(t) \/ Reserve(t)
    \/ Spawn(t) \/ SpawnFails(t) \/ Publish(t) \/ PublishFails(t) \/ Register(t)
    \/ StopSignal(t) \/ StopWaitLocal(t) \/ StopWaitRemote(t) \/ StopDelete(t)
    \/ StopSimulationEnsure(t) \/ SignalOnly(t)

Next ==
    \/ \E t \in Threads : (Begin(t) \/ Step(t)) /\ UNCHANGED condemned
    \/ \E g \in Gunicorns : MonitorScan(g) \/ MonitorCleanup(g) \/ GunicornCrash(g)
    \/ \E p \in Pids : WorkerExit(p) /\ UNCHANGED condemned
    \/ \E s \in Sessions : KeyLost(s) /\ UNCHANGED condemned

Spec == Init /\ [][Next]_vars
-----------------------------------------------------------------------------
(* Properties                                                              *)

\* At most one worker process executes for a session, whatever the mix of
\* starts, stops, monitor passes, self-exits and lost keys.  Workers whose keys
\* a crash or another worker's stop removed are the exception, and the only one.
AtMostOneWorker ==
    \A p, q \in Pids \ stranded :
        Alive(p) /\ Alive(q) /\ psess[p] = psess[q] => p = q

\* "Never kills an existing live (non-B) worker" (prepare_for_live_start):
\* whatever _terminate_session_worker is about to SIGKILL, and whatever
\* reconciliation has condemned, is a paper worker.  While Redis fails this takes
\* StrictMeta: otherwise a live worker that could not be published is left beside
\* the key of an earlier one, and the next reconciliation ends it as a mismatch.
PrepSparesLive ==
    \A t \in Threads :
        /\ pc[t] = "term3" =>
             \A p \in victims[t] \ stranded : Alive(p) => pstrat[p] = Paper
        /\ pc[t] = "rec2" /\ Local(t) \notin stranded /\ Alive(Local(t))
             => pstrat[Local(t)] = Paper

\* When stop_session reports success, no worker of that session goes on
\* trading: each has ended or has at least been told to stop.  StrictMeta matters
\* here as well: reconciliation may drop the entry of a worker whose key still
\* names a dead one.
StopLeavesNone ==
    [][\A t \in Threads :
         pc[t] # "reply" /\ pc'[t] = "reply" /\ answer'[t] = "stopped" =>
            \A p \in Pids : psess[p] = ses[t] => pstate'[p] # "running"]_vars

\* A gunicorn process never has more than MAX_WORKERS registered workers
\* executing, however starts of different sessions interleave.
WithinLimit == \A g \in Gunicorns : ActiveWorkers(g) <= MaxWorkers

\* An entry of _workers is a child of that gunicorn process, started for that
\* session: only then may is_alive() and join() be called on it.
RegistryOwnsChildren ==
    \A g \in Gunicorns, s \in Sessions :
        workers[g][s] # NoPid =>
            /\ pstate[workers[g][s]] # "none"
            /\ parent[workers[g][s]] = g
            /\ psess[workers[g][s]] = s

\* "concurrent live starts are idempotent" and "Publish the strategy before the
\* process exists ... a concurrent live start ... spawns a second live worker":
\* a session never has two live workers executing.
OneLiveWorker ==
    \A p, q \in Pids :
        /\ Alive(p) /\ pstrat[p] = Live
        /\ Alive(q) /\ pstrat[q] = Live
        /\ psess[p] = psess[q]
        => p = q
=============================================================================
