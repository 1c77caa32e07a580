----------------------- MODULE SessionRegistryProofs -----------------------
(***************************************************************************)
(* Proofs about SessionRegistry for every number of gunicorn processes,    *)
(* threads, sessions and pids.                                             *)
(***************************************************************************)
EXTENDS SessionRegistry, FiniteSetTheorems, TLAPS

USE RegistryAssumption

-----------------------------------------------------------------------------
(* Type correctness                                                        *)

LEMMA InitTypeOK == Init => TypeOK
  BY DEF Init, TypeOK, ProcStates, Ops, Answers, Pcs, StartPcs, RetPcs,
         Paper, Live, NoMeta, InitProc

\* The values the actions assign belong to the sets TypeOK names.
LEMMA Vocabulary ==
    /\ Paper \in {Paper, Live} /\ Live \in {Paper, Live}
    /\ {Paper, Live} \subseteq {Paper, Live, NoMeta}
    /\ {"running", "stopping", "zombie", "gone"} \subseteq ProcStates
    /\ {"start", "stop", "restart"} \subseteq Ops
    /\ {"none", "started", "already_running", "not_cleared", "conflict",
        "limit", "failed", "stopped", "not_running", "not_stopped",
        "signalled"} \subseteq Answers
    /\ RetPcs \subseteq Pcs
    /\ {"prep", "ensure", "term5", "start1"} \subseteq RetPcs
    /\ {"idle", "reply", "rec1", "rec2", "rec3", "prep", "ensure", "term1",
        "term2", "term3", "term4", "term5", "start0", "stop1", "stopL",
        "stopR", "delL", "delR", "stopped", "signal", "reserve", "spawn",
        "publish", "register"} \subseteq Pcs
  BY DEF ProcStates, Ops, Answers, Pcs, StartPcs, RetPcs, NoMeta

\* What a request turns into: a start keeps its strategy apart.
LEMMA Requested ==
    ASSUME NEW t \in Threads, Begin(t)
    PROVE  \E s \in Sessions, o \in Ops, st \in {Paper, Live} :
             /\ op' = [op EXCEPT ![t] = o]
             /\ ses' = [ses EXCEPT ![t] = s]
             /\ strat' = [strat EXCEPT ![t] = st]
             /\ \/ CallReconcile(t, "prep")
                \/ \E l \in {"start0", "signal", "stop1"} :
                      Goto(t, l) /\ UNCHANGED ret
<1> DEFINE Asks(s, r) ==
      /\ op' = [op EXCEPT ![t] = IF r \in Starts THEN "start" ELSE r]
      /\ ses' = [ses EXCEPT ![t] = s]
      /\ strat' = [strat EXCEPT ![t] = IF r = "start live" THEN Live ELSE Paper]
      /\ \/ CallReconcile(t, "prep")
         \/ \E l \in {"start0", "signal", "stop1"} : Goto(t, l) /\ UNCHANGED ret
<1>1. PICK s \in Sessions : \E r \in Requests[s] : Asks(s, r)
  BY DEF Begin
<1>2. PICK r \in Requests[s] : Asks(s, r)
  BY <1>1
<1>3. (IF r \in Starts THEN "start" ELSE r) \in Ops
  BY RegistryAssumption DEF Starts, Ops
<1>4. QED
  BY <1>2, <1>3

\* What the control helpers do to the program counter, answers and returns.
LEMMA GotoType ==
    ASSUME TypeOK, NEW t \in Threads, NEW l \in Pcs, Goto(t, l)
    PROVE  pc' \in [Threads -> Pcs]
  BY DEF Goto, TypeOK

LEMMA ReplyType ==
    ASSUME TypeOK, NEW t \in Threads, NEW a \in Answers, Reply(t, a)
    PROVE  pc' \in [Threads -> Pcs] /\ answer' \in [Threads -> Answers]
  BY Vocabulary, GotoType DEF Reply, TypeOK

LEMMA CallReconcileType ==
    ASSUME TypeOK, NEW t \in Threads, NEW b \in RetPcs, CallReconcile(t, b)
    PROVE  pc' \in [Threads -> Pcs] /\ ret' \in [Threads -> RetPcs]
  BY Vocabulary, GotoType DEF CallReconcile, TypeOK

LEMMA AfterTerminateType ==
    ASSUME TypeOK, NEW t \in Threads, NEW c \in BOOLEAN, AfterTerminate(t, c)
    PROVE  pc' \in [Threads -> Pcs] /\ answer' \in [Threads -> Answers]
<1>1. CASE \E a \in {"stopped", "not_stopped", "not_cleared"} : Reply(t, a)
  BY <1>1, Vocabulary, ReplyType
<1>2. CASE Goto(t, "start0") /\ UNCHANGED answer
  BY <1>2, Vocabulary, GotoType DEF TypeOK
<1>3. QED
  BY <1>1, <1>2 DEF AfterTerminate

LEMMA ReleaseLoopType ==
    ASSUME TypeOK, NEW t \in Threads, ReleaseLoop(t)
    PROVE  loop' \in [Gunicorns -> Threads \cup {NoPid}]
  BY DEF ReleaseLoop, TypeOK

\* Every helper on the process table yields a process table.
LEMMA ProcTableType ==
    ASSUME TypeOK
    PROVE  /\ \A p \in Pids \cup {NoPid} :
                /\ Polled(p) \in [Pids -> ProcStates]
                /\ Signalled(p) \in [Pids -> ProcStates]
                /\ Ended(p) \in [Pids -> ProcStates]
           /\ \A P : Killed(P) \in [Pids -> ProcStates]
<1>1. \A P : Killed(P) \in [Pids -> ProcStates]
  BY DEF TypeOK, Killed, ProcStates
<1>2. \A p \in Pids \cup {NoPid} : /\ Polled(p) \in [Pids -> ProcStates]
                                   /\ Signalled(p) \in [Pids -> ProcStates]
  BY Vocabulary DEF TypeOK, Polled, Signalled
<1>3. \A p \in Pids \cup {NoPid} : Ended(p) \in [Pids -> ProcStates]
  BY <1>1, <1>2 DEF Ended, Alive
<1>4. QED
  BY <1>1, <1>2, <1>3

\* The registry and the Redis keys after the helpers that write them, and what a read returns.
RedisTyped == /\ pidKey \in [Sessions -> Pids \cup {NoPid}]
              /\ meta \in [Sessions -> {Paper, Live, NoMeta}]

LEMMA KeysType ==
    ASSUME TypeOK, NEW s \in Sessions
    PROVE  /\ DeleteKeys(s) => RedisTyped'
           /\ \A p \in Pids \cup {NoPid}, m \in {Paper, Live} :
                WriteKeys(s, p, m) => RedisTyped'
           /\ \A w \in Pids : Republish(s, w) => RedisTyped'
           /\ PidRead(s) \subseteq Pids \cup {NoPid}
           /\ \A g \in Gunicorns : Unregister(g, s) =>
                workers' \in [Gunicorns -> [Sessions -> Pids \cup {NoPid}]]
<1> USE DEF TypeOK, RedisTyped
<1>1. DeleteKeys(s) => RedisTyped'
  BY DEF DeleteKeys, redisVars
<1>4. \A p \in Pids \cup {NoPid}, m \in {Paper, Live} : WriteKeys(s, p, m) => RedisTyped'
  BY DEF WriteKeys
<1>5. \A w \in Pids : Republish(s, w) => RedisTyped'
  BY <1>4 DEF Republish
<1>6. PidRead(s) \subseteq Pids \cup {NoPid}
  BY DEF PidRead
<1>2. ASSUME NEW g \in Gunicorns, Unregister(g, s)
      PROVE  workers' \in [Gunicorns -> [Sessions -> Pids \cup {NoPid}]]
  BY <1>2 DEF Unregister
<1>3. QED
  BY <1>1, <1>2, <1>4, <1>5, <1>6

LEMMA LocalType ==
    ASSUME TypeOK, NEW t \in Threads
    PROVE  /\ Local(t) \in Pids \cup {NoPid}
           /\ GunicornOf[t] \in Gunicorns
           /\ ses[t] \in Sessions
  BY DEF TypeOK, Local

LEMMA TargetsType ==
    ASSUME TypeOK, NEW t \in Threads
    PROVE  Targets(t) \subseteq Pids \cup {NoPid}
  BY LocalType, KeysType DEF Targets

LEMMA StepTypeOK ==
    ASSUME TypeOK, NEW t \in Threads, Begin(t) \/ Step(t), UNCHANGED condemned
    PROVE  TypeOK'
<1> USE Vocabulary, LocalType DEF reqVars, procVars, redisVars
<1>1. CASE Begin(t)
  <2>1. PICK s \in Sessions, o \in Ops, st \in {Paper, Live} :
          /\ op' = [op EXCEPT ![t] = o]
          /\ ses' = [ses EXCEPT ![t] = s]
          /\ strat' = [strat EXCEPT ![t] = st]
          /\ \/ CallReconcile(t, "prep")
             \/ \E l \in Pcs : Goto(t, l) /\ UNCHANGED ret
    BY <1>1, Requested
  <2>2. pc' \in [Threads -> Pcs] /\ ret' \in [Threads -> RetPcs]
    BY <2>1, GotoType, CallReconcileType DEF TypeOK
  <2>3. QED
    BY <1>1, <2>1, <2>2 DEF Begin, TypeOK
<1>2. CASE Reconcile(t)
  <2>1. pstate' \in [Pids -> ProcStates]
    BY <1>2, ProcTableType DEF Reconcile, TypeOK
  <2>2. pc' \in [Threads -> Pcs]
    BY <1>2, GotoType DEF Reconcile
  <2>3. /\ workers' \in [Gunicorns -> [Sessions -> Pids \cup {NoPid}]]
        /\ RedisTyped'
    <3>1. CASE Unregister(GunicornOf[t], ses[t]) /\ UNCHANGED redisVars
      BY <3>1, KeysType DEF TypeOK, RedisTyped
    <3>2. CASE /\ UNCHANGED workers /\ Local(t) \in Pids
               /\ Republish(ses[t], Local(t))
      BY <3>2, KeysType DEF TypeOK
    <3>3. CASE UNCHANGED <<workers, redisVars>>
      BY <3>3 DEF TypeOK, RedisTyped
    <3>4. QED
      BY <1>2, <3>1, <3>2, <3>3 DEF Reconcile, Alive
  <2>4. QED
    BY <1>2, <2>1, <2>2, <2>3 DEF Reconcile, TypeOK, RedisTyped
<1>3. CASE ReconcileCleanup(t)
  BY <1>3, GotoType, ProcTableType, KeysType DEF ReconcileCleanup, TypeOK
<1>4. CASE ReconcileKeys(t)
  <2>1. pc' \in [Threads -> Pcs]
    BY <1>4, GotoType DEF ReconcileKeys, TypeOK
  <2>2. \/ DeleteKeys(ses[t]) /\ Unregister(GunicornOf[t], ses[t])
        \/ UNCHANGED <<redisVars, workers>>
    BY <1>4 DEF ReconcileKeys
  <2>3. /\ workers' \in [Gunicorns -> [Sessions -> Pids \cup {NoPid}]]
        /\ RedisTyped'
    BY <2>2, KeysType DEF TypeOK, RedisTyped
  <2>4. QED
    BY <1>4, <2>1, <2>3 DEF ReconcileKeys, TypeOK, RedisTyped
<1>5. CASE Prepare(t)
  <2>1. pc' \in [Threads -> Pcs] /\ answer' \in [Threads -> Answers]
    BY <1>5, GotoType, ReplyType DEF Prepare, TypeOK
  <2>2. QED
    BY <1>5, <2>1 DEF Prepare, TypeOK
<1>6. CASE Ensure(t)
  <2>1. pc' \in [Threads -> Pcs] /\ answer' \in [Threads -> Answers]
    BY <1>6, GotoType, AfterTerminateType DEF Ensure, TypeOK
  <2>2. QED
    BY <1>6, <2>1 DEF Ensure, TypeOK
<1>7. CASE TerminatePop(t)
  <2>1. pc' \in [Threads -> Pcs] /\ answer' \in [Threads -> Answers]
    BY <1>7, GotoType, AfterTerminateType DEF TerminatePop, TypeOK
  <2>2. /\ workers' \in [Gunicorns -> [Sessions -> Pids \cup {NoPid}]]
        /\ pstate' \in [Pids -> ProcStates]
        /\ victims' \in [Threads -> SUBSET Pids]
    <3>1. victims' \in [Threads -> SUBSET Pids]
      <4>1. \/ victims' = victims
            \/ \E V \in SUBSET Pids : victims' = [victims EXCEPT ![t] = V]
        BY <1>7 DEF TerminatePop, Alive
      <4>2. QED
        BY <4>1 DEF TypeOK
    <3>2. CASE UNCHANGED <<workers, pstate>>
      BY <3>1, <3>2 DEF TypeOK
    <3>3. CASE /\ pstate' = Polled(Local(t))
               /\ Unregister(GunicornOf[t], ses[t])
      BY <3>1, <3>3, KeysType, ProcTableType
    <3>4. QED
      BY <1>7, <3>2, <3>3 DEF TerminatePop
  <2>3. QED
    BY <1>7, <2>1, <2>2 DEF TerminatePop, TypeOK
<1>8. CASE TerminateKeys(t)
  <2>1. victims' \in [Threads -> SUBSET Pids]
    BY <1>8, KeysType DEF TerminateKeys, TypeOK
  <2>2. QED
    BY <1>8, <2>1, GotoType, KeysType DEF TerminateKeys, TypeOK, RedisTyped
<1>9. CASE TerminateKill(t)
  BY <1>9, GotoType, ProcTableType DEF TerminateKill, TypeOK
<1>10. CASE TerminateWait(t)
  BY <1>10, GotoType, CallReconcileType DEF TerminateWait, TypeOK
<1>11. CASE TerminateResult(t)
  <2>1. pc' \in [Threads -> Pcs] /\ answer' \in [Threads -> Answers]
    BY <1>11, AfterTerminateType DEF TerminateResult
  <2>2. QED
    BY <1>11, <2>1 DEF TerminateResult, TypeOK
<1>12. CASE StartEnter(t)
  BY <1>12, GotoType, CallReconcileType DEF StartEnter, TypeOK
<1>13. CASE StartConflict(t)
  <2>1. \/ \E a \in Answers : Reply(t, a) /\ UNCHANGED <<op, ret>>
        \/ /\ op' = [op EXCEPT ![t] = "restart"]
           /\ CallReconcile(t, "ensure")
           /\ UNCHANGED answer
    BY <1>13 DEF StartConflict
  <2>2. /\ pc' \in [Threads -> Pcs] /\ ret' \in [Threads -> RetPcs]
        /\ answer' \in [Threads -> Answers] /\ op' \in [Threads -> Ops]
    <3>1. CASE \E a \in Answers : Reply(t, a) /\ UNCHANGED <<op, ret>>
      BY <3>1, ReplyType DEF TypeOK
    <3>2. CASE /\ op' = [op EXCEPT ![t] = "restart"]
               /\ CallReconcile(t, "ensure")
               /\ UNCHANGED answer
      BY <3>2, CallReconcileType DEF TypeOK
    <3>3. QED
      BY <2>1, <3>1, <3>2
  <2>3. QED
    BY <1>13, <2>2, ReleaseLoopType DEF StartConflict, TypeOK
<1>14. CASE StartCheck(t)
  <2>1. /\ pc' \in [Threads -> Pcs] /\ answer' \in [Threads -> Answers]
        /\ loop' \in [Gunicorns -> Threads \cup {NoPid}]
    BY <1>14, GotoType, ReplyType, ReleaseLoopType DEF StartCheck, TypeOK
  <2>2. QED
    BY <1>14, <2>1, KeysType, ProcTableType DEF StartCheck, TypeOK
<1>15. CASE Reserve(t)
  BY <1>15, GotoType DEF Reserve, TypeOK
<1>16. CASE Spawn(t)
  BY <1>16, GotoType DEF Spawn, TypeOK
<1>17. CASE SpawnFails(t)
  BY <1>17, ReplyType, GotoType, ReleaseLoopType DEF SpawnFails, TypeOK
<1>18. CASE Publish(t)
  <2>1. RedisTyped'
    <3>1. WriteKeys(ses[t], seen[t], strat[t])
      BY <1>18 DEF Publish
    <3>2. /\ ses[t] \in Sessions /\ seen[t] \in Pids \cup {NoPid}
          /\ strat[t] \in {Paper, Live}
      BY DEF TypeOK
    <3>3. QED
      BY <3>1, <3>2, KeysType
  <2>2. QED
    BY <1>18, <2>1, GotoType DEF Publish, TypeOK, RedisTyped
<1>19. CASE PublishFails(t)
  <2>0. RedisTyped'
    BY <1>19, KeysType DEF PublishFails, TypeOK, RedisTyped
  <2>1. CASE Goto(t, "register") /\ UNCHANGED <<pstate, stranded, answer, loop>>
    BY <1>19, <2>0, <2>1, GotoType DEF PublishFails, TypeOK, RedisTyped
  <2>2. CASE /\ pstate' = Signalled(seen[t])
             /\ stranded' = stranded \cup {seen[t]}
             /\ Reply(t, "failed") /\ ReleaseLoop(t)
    BY <1>19, <2>0, <2>2, ReplyType, ReleaseLoopType, ProcTableType
       DEF PublishFails, TypeOK, RedisTyped
  <2>3. QED
    BY <1>19, <2>1, <2>2 DEF PublishFails
<1>20. CASE Register(t)
  BY <1>20, ReplyType, GotoType, ReleaseLoopType DEF Register, TypeOK
<1>21. CASE StopSignal(t)
  <2>1. pc' \in [Threads -> Pcs] /\ answer' \in [Threads -> Answers]
    BY <1>21, GotoType, ReplyType DEF StopSignal, TypeOK
  <2>2. \/ UNCHANGED <<pstate, seen>>
        \/ \E target \in Targets(t) :
             pstate' = Signalled(target) /\ seen' = [seen EXCEPT ![t] = target]
    BY <1>21 DEF StopSignal
  <2>3. pstate' \in [Pids -> ProcStates] /\ seen' \in [Threads -> Pids \cup {NoPid}]
    <3>1. \A target \in Targets(t) : Signalled(target) \in [Pids -> ProcStates]
      BY TargetsType, ProcTableType
    <3>2. CASE UNCHANGED <<pstate, seen>>
      BY <3>2 DEF TypeOK
    <3>3. CASE \E target \in Targets(t) :
                 pstate' = Signalled(target) /\ seen' = [seen EXCEPT ![t] = target]
      <4>1. PICK target \in Targets(t) :
              pstate' = Signalled(target) /\ seen' = [seen EXCEPT ![t] = target]
        BY <3>3
      <4>2. target \in Pids \cup {NoPid}
        BY TargetsType
      <4>3. QED
        BY <3>1, <4>1, <4>2 DEF TypeOK
    <3>4. QED
      BY <2>2, <3>2, <3>3
  <2>4. QED
    BY <1>21, <2>1, <2>3 DEF StopSignal, TypeOK
<1>22. CASE StopWaitLocal(t)
  BY <1>22, GotoType, ProcTableType DEF StopWaitLocal, TypeOK
<1>23. CASE StopWaitRemote(t)
  BY <1>23, GotoType, ProcTableType DEF StopWaitRemote, TypeOK
<1>24. CASE StopDelete(t)
  <2>1. workers' \in [Gunicorns -> [Sessions -> Pids \cup {NoPid}]] /\ RedisTyped'
    BY <1>24, KeysType DEF StopDelete, TypeOK
  <2>2. pc' \in [Threads -> Pcs] /\ answer' \in [Threads -> Answers]
    BY <1>24, GotoType, ReplyType DEF StopDelete, TypeOK
  <2>3. stranded' \subseteq Pids \cup {NoPid}
    BY <1>24 DEF StopDelete, TypeOK
  <2>4. QED
    BY <1>24, <2>1, <2>2, <2>3 DEF StopDelete, TypeOK, RedisTyped
<1>25. CASE StopSimulationEnsure(t)
  BY <1>25, CallReconcileType, GotoType, ProcTableType, KeysType DEF StopSimulationEnsure, TypeOK
<1>26. CASE SignalOnly(t)
  <2>1. pstate' \in [Pids -> ProcStates]
    BY <1>26, TargetsType, ProcTableType DEF SignalOnly
  <2>2. QED
    BY <1>26, <2>1, ReplyType, GotoType DEF SignalOnly, TypeOK
<1>27. CASE Done(t)
  BY <1>27, GotoType DEF Done, TypeOK
<1>28. QED
  BY <1>1, <1>2, <1>3, <1>4, <1>5, <1>6, <1>7, <1>8, <1>9, <1>10, <1>11, <1>12, <1>13, <1>14, <1>15, <1>16, <1>17, <1>18, <1>19, <1>20, <1>21, <1>22, <1>23, <1>24, <1>25, <1>26, <1>27 DEF Step

LEMMA OthersTypeOK ==
    ASSUME TypeOK,
           \/ \E g \in Gunicorns : MonitorScan(g) \/ MonitorCleanup(g) \/ GunicornCrash(g)
           \/ \E p \in Pids : WorkerExit(p) /\ UNCHANGED condemned
           \/ \E s \in Sessions : KeyLost(s) /\ UNCHANGED condemned
    PROVE  TypeOK'
<1> USE DEF reqVars, procVars, redisVars
<1>1. ASSUME NEW g \in Gunicorns, MonitorScan(g) \/ MonitorCleanup(g)
      PROVE  TypeOK'
  <2>1. CASE MonitorScan(g)
    <3>1. pstate' \in [Pids -> ProcStates]
      BY <2>1, ProcTableType DEF MonitorScan, TypeOK
    <3>2. condemned' \in [Gunicorns -> SUBSET Sessions]
      BY <2>1 DEF MonitorScan, TypeOK
    <3>3. QED
      BY <2>1, <3>1, <3>2 DEF MonitorScan, TypeOK
  <2>2. CASE MonitorCleanup(g)
    <3>1. PICK s \in Sessions : /\ pstate' = Ended(workers[g][s])
                               /\ Unregister(g, s)
                               /\ condemned' = [condemned EXCEPT ![g] = @ \ {s}]
      BY <2>2 DEF MonitorCleanup, TypeOK
    <3>2. workers[g][s] \in Pids \cup {NoPid}
      BY DEF TypeOK
    <3>3. /\ pstate' \in [Pids -> ProcStates]
          /\ workers' \in [Gunicorns -> [Sessions -> Pids \cup {NoPid}]]
          /\ condemned' \in [Gunicorns -> SUBSET Sessions]
      BY <3>1, <3>2, ProcTableType, KeysType DEF TypeOK
    <3>4. QED
      BY <2>2, <3>3 DEF MonitorCleanup, TypeOK
  <2>3. QED
    BY <1>1, <2>1, <2>2
<1>2. ASSUME NEW g \in Gunicorns, GunicornCrash(g) PROVE TypeOK'
  <2>1. /\ pstate' \in [Pids -> ProcStates]
        /\ pc' \in [Threads -> Pcs]
    BY <1>2, Vocabulary DEF GunicornCrash, TypeOK
  <2>2. StrandedBy(g) \subseteq Pids
    BY DEF StrandedBy
  <2>3. QED
    BY <1>2, <2>1, <2>2 DEF GunicornCrash, TypeOK
<1>3. ASSUME NEW p \in Pids, WorkerExit(p), UNCHANGED condemned PROVE TypeOK'
  BY <1>3, ProcTableType DEF WorkerExit, TypeOK
<1>4. ASSUME NEW s \in Sessions, KeyLost(s), UNCHANGED condemned PROVE TypeOK'
  BY <1>4 DEF KeyLost, TypeOK
<1>5. QED
  BY <1>1, <1>2, <1>3, <1>4

LEMMA NextTypeOK == TypeOK /\ [Next]_vars => TypeOK'
<1>1. ASSUME TypeOK, UNCHANGED vars PROVE TypeOK'
  BY <1>1 DEF vars, TypeOK
<1>2. QED
  BY <1>1, StepTypeOK, OthersTypeOK DEF Next

\* Every variable stays in its type: among others, a worker of the registry, a
\* key in Redis and a pid about to be killed are pids, and an entry's owner is
\* a gunicorn process of the instance.
THEOREM TypeCorrect == Spec => []TypeOK
<1>1. QED
  BY InitTypeOK, NextTypeOK, PTL DEF Spec

-----------------------------------------------------------------------------
(* Control flow and the process table, action by action                    *)

\* A step of t leaves the locals of the other threads alone, and only certain
\* actions bring t to the points the invariants speak of.
OtherThreads(t) ==
    \A u \in Threads \ {t} :
        /\ pc'[u] = pc[u] /\ op'[u] = op[u] /\ ses'[u] = ses[u]
        /\ strat'[u] = strat[u] /\ ret'[u] = ret[u] /\ seen'[u] = seen[u]
        /\ victims'[u] = victims[u]

Flow(t) ==
    /\ pc[t] = "idle" => Begin(t)
    /\ pc[t] # "idle" /\ pc'[t] # "idle" => ses'[t] = ses[t]
    /\ pc[t] = "publish" => Publish(t) \/ PublishFails(t)
    /\ pc[t] = "term3" => TerminateKill(t)
    /\ pc'[t] = "reserve" => StartCheck(t)
    /\ pc'[t] = "spawn" => Reserve(t)
    /\ pc'[t] = "publish" => Spawn(t)
    /\ pc'[t] = "register" => Publish(t) \/ PublishFails(t)
    /\ pc[t] = "register" => Register(t)
    /\ pc[t] = "term2" => TerminateKeys(t)
    /\ pc'[t] = "rec2" => Reconcile(t)
    /\ pc'[t] = "rec3" => Reconcile(t) \/ ReconcileCleanup(t)
    /\ pc'[t] = "term2" => TerminatePop(t)
    /\ pc'[t] = "term3" => TerminateKeys(t)
    /\ pc'[t] = "stopL" => StopSignal(t)
    /\ pc'[t] = "stopR" => StopSignal(t)
    /\ pc'[t] = "delL" => StopWaitLocal(t)
    /\ pc'[t] = "delR" => StopSignal(t) \/ StopWaitRemote(t)

\* A helper that answers or goes on writes t's entries of pc only.
LEMMA ControlHelpers ==
    ASSUME TypeOK, NEW t \in Threads
    PROVE  /\ \A l : Goto(t, l) => /\ pc'[t] = l
                                   /\ \A u \in Threads \ {t} : pc'[u] = pc[u]
           /\ \A a : Reply(t, a) => /\ pc'[t] = "reply"
                                    /\ \A u \in Threads \ {t} : pc'[u] = pc[u]
           /\ \A b : CallReconcile(t, b) =>
                       /\ pc'[t] = "rec1" /\ ret'[t] = b
                       /\ \A u \in Threads \ {t} : pc'[u] = pc[u] /\ ret'[u] = ret[u]
           /\ \A c : AfterTerminate(t, c) =>
                       /\ pc'[t] \in {"reply", "start0"}
                       /\ \A u \in Threads \ {t} : pc'[u] = pc[u]
  BY DEF TypeOK, Goto, Reply, CallReconcile, AfterTerminate

LEMMA StepControl ==
    ASSUME TypeOK, NEW t \in Threads, Begin(t) \/ Step(t)
    PROVE  OtherThreads(t) /\ Flow(t)
<1> USE ControlHelpers DEF OtherThreads, Flow, TypeOK, reqVars
<1>1. CASE Begin(t)
  <2>1. PICK s \in Sessions, o \in Ops, st \in {Paper, Live} :
          /\ op' = [op EXCEPT ![t] = o]
          /\ ses' = [ses EXCEPT ![t] = s]
          /\ strat' = [strat EXCEPT ![t] = st]
          /\ \/ CallReconcile(t, "prep")
             \/ \E l \in {"start0", "signal", "stop1"} : Goto(t, l) /\ UNCHANGED ret
    BY <1>1, Requested
  <2>2. /\ pc[t] = "idle" /\ UNCHANGED <<seen, victims>>
        /\ pc'[t] \in {"rec1", "start0", "signal", "stop1"}
        /\ \A u \in Threads \ {t} : pc'[u] = pc[u] /\ ret'[u] = ret[u]
    BY <1>1, <2>1 DEF Begin
  <2>3. QED
    BY <1>1, <2>1, <2>2
<1>2. CASE Done(t)
  BY <1>2 DEF Done
<1>3. CASE Reconcile(t)
  BY <1>3 DEF Reconcile
<1>4. CASE ReconcileCleanup(t)
  BY <1>4 DEF ReconcileCleanup
<1>5. CASE ReconcileKeys(t)
  BY <1>5 DEF ReconcileKeys, RetPcs
<1>6. CASE Prepare(t)
  BY <1>6 DEF Prepare
<1>7. CASE Ensure(t)
  <2>1. /\ pc[t] = "ensure" /\ UNCHANGED <<op, ses, strat, ret, seen, victims>>
        /\ pc'[t] \in {"reply", "start0", "term1"}
        /\ \A u \in Threads \ {t} : pc'[u] = pc[u]
    BY <1>7 DEF Ensure
  <2>2. QED
    BY <2>1
<1>8. CASE TerminatePop(t)
  <2>1. /\ pc[t] = "term1" /\ UNCHANGED <<op, ses, strat, ret, seen>>
        /\ pc'[t] \in {"reply", "start0", "term2"}
        /\ \A u \in Threads \ {t} : pc'[u] = pc[u]
    BY <1>8 DEF TerminatePop
  <2>2. \A u \in Threads \ {t} : victims'[u] = victims[u]
    BY <1>8 DEF TerminatePop
  <2>3. QED
    BY <1>8, <2>1, <2>2
<1>9. CASE TerminateKeys(t)
  <2>1. \E p \in PidRead(ses[t]) :
           victims' = [victims EXCEPT ![t] = @ \cup ({p} \ {NoPid})]
    BY <1>9 DEF TerminateKeys
  <2>2. \A u \in Threads \ {t} : victims'[u] = victims[u]
    BY <2>1
  <2>3. /\ pc[t] = "term2" /\ Goto(t, "term3")
        /\ UNCHANGED <<ses, strat, op, ret, seen, answer>>
    BY <1>9 DEF TerminateKeys
  <2>4. QED
    BY <1>9, <2>2, <2>3
<1>10. CASE TerminateKill(t)
  BY <1>10 DEF TerminateKill
<1>11. CASE TerminateWait(t)
  BY <1>11 DEF TerminateWait
<1>12. CASE TerminateResult(t)
  BY <1>12 DEF TerminateResult
<1>13. CASE StartEnter(t)
  BY <1>13 DEF StartEnter
<1>14. CASE StartConflict(t)
  BY <1>14 DEF StartConflict
<1>15. CASE StartCheck(t)
  BY <1>15 DEF StartCheck
<1>16. CASE Reserve(t)
  BY <1>16 DEF Reserve
<1>17. CASE Spawn(t)
  <2>1. /\ pc[t] = "spawn" /\ pc'[t] = "publish"
        /\ UNCHANGED <<op, ses, strat, ret, victims>>
        /\ \A u \in Threads \ {t} : pc'[u] = pc[u]
    BY <1>17 DEF Spawn
  <2>2. \A u \in Threads \ {t} : seen'[u] = seen[u]
    BY <1>17 DEF Spawn
  <2>3. QED
    BY <1>17, <2>1, <2>2
<1>18. CASE SpawnFails(t)
  BY <1>18 DEF SpawnFails
<1>19. CASE Publish(t)
  BY <1>19 DEF Publish
<1>20. CASE PublishFails(t)
  BY <1>20 DEF PublishFails
<1>21. CASE Register(t)
  BY <1>21 DEF Register
<1>22. CASE StopSignal(t)
  BY <1>22 DEF StopSignal
<1>23. CASE StopWaitLocal(t)
  BY <1>23 DEF StopWaitLocal
<1>24. CASE StopWaitRemote(t)
  BY <1>24 DEF StopWaitRemote
<1>25. CASE StopDelete(t)
  BY <1>25 DEF StopDelete
<1>26. CASE StopSimulationEnsure(t)
  BY <1>26 DEF StopSimulationEnsure
<1>27. CASE SignalOnly(t)
  BY <1>27 DEF SignalOnly
<1>28. QED
  BY <1>1, <1>2, <1>3, <1>4, <1>5, <1>6, <1>7, <1>8, <1>9, <1>10, <1>11, <1>12, <1>13, <1>14, <1>15, <1>16, <1>17, <1>18, <1>19, <1>20, <1>21, <1>22, <1>23, <1>24, <1>25, <1>26, <1>27 DEF Step

\* No process comes to life, returns or is forgotten, and none that was told to stop goes on.
NoRevival ==
    \A p \in Pids :
        /\ pstate'[p] = "none" <=> pstate[p] = "none"
        /\ pstate'[p] \in {"running", "stopping"} => pstate[p] \in {"running", "stopping"}
        /\ pstate'[p] = "running" => pstate[p] = "running"
        /\ pstate[p] = "gone" => pstate'[p] = "gone"

\* An entry of the registry is removed or stays.
RegistryShrinks ==
    \A g \in Gunicorns, s \in Sessions : workers'[g][s] \in {workers[g][s], NoPid}

LEMMA HelpersNoRevival ==
    ASSUME TypeOK
    PROVE  /\ \A x : pstate' \in {Polled(x), Signalled(x), Ended(x)} => NoRevival
           /\ \A P : pstate' = Killed(P) => NoRevival
<1>1. ASSUME NEW P, pstate' = Killed(P) PROVE NoRevival
  BY <1>1 DEF TypeOK, Killed, Alive, NoRevival
<1>2. ASSUME NEW x, pstate' \in {Polled(x), Signalled(x)} PROVE NoRevival
  BY <1>2 DEF TypeOK, Polled, Signalled, NoRevival
<1>3. ASSUME NEW x, pstate' = Ended(x) PROVE NoRevival
  BY <1>1, <1>2, <1>3 DEF Ended
<1>4. QED
  BY <1>1, <1>2, <1>3

LEMMA UnregisterShrinks ==
    ASSUME TypeOK, NEW g \in Gunicorns, NEW s \in Sessions, Unregister(g, s)
    PROVE  RegistryShrinks
  BY DEF TypeOK, Unregister, RegistryShrinks

LEMMA StepProcesses ==
    ASSUME TypeOK, NEW t \in Threads, Begin(t) \/ Step(t)
    PROVE  /\ Spawn(t) \/ (NoRevival /\ UNCHANGED <<psess, pstrat, parent>>)
           /\ Register(t) \/ RegistryShrinks
           /\ stranded \subseteq stranded'
           /\ \/ UNCHANGED pidKey
              \/ Reconcile(t) \/ ReconcileKeys(t) \/ TerminateKeys(t)
              \/ Publish(t) \/ PublishFails(t) \/ StopDelete(t)
           /\ \/ UNCHANGED meta
              \/ Reconcile(t) \/ ReconcileKeys(t) \/ TerminateKeys(t)
              \/ Publish(t) \/ PublishFails(t) \/ StopDelete(t) \/ Reserve(t)
              \/ SpawnFails(t)
<1> USE HelpersNoRevival, UnregisterShrinks, LocalType DEF procVars, redisVars
<1>1. ASSUME UNCHANGED pstate PROVE NoRevival
  BY <1>1 DEF NoRevival
<1>2. ASSUME UNCHANGED workers PROVE RegistryShrinks
  BY <1>2 DEF RegistryShrinks
<1>3. CASE Begin(t)
  BY <1>1, <1>2, <1>3 DEF Begin
<1>4. CASE Done(t)
  BY <1>1, <1>2, <1>4 DEF Done
<1>5. CASE Reconcile(t)
  BY <1>1, <1>2, <1>5 DEF Reconcile
<1>6. CASE ReconcileCleanup(t)
  BY <1>1, <1>2, <1>6 DEF ReconcileCleanup
<1>7. CASE ReconcileKeys(t)
  BY <1>1, <1>2, <1>7 DEF ReconcileKeys
<1>8. CASE Prepare(t)
  BY <1>1, <1>2, <1>8 DEF Prepare
<1>9. CASE Ensure(t)
  BY <1>1, <1>2, <1>9 DEF Ensure
<1>10. CASE TerminatePop(t)
  <2>1. /\ pstate' = Polled(Local(t)) \/ UNCHANGED pstate
        /\ Unregister(GunicornOf[t], ses[t]) \/ UNCHANGED workers
        /\ UNCHANGED <<psess, pstrat, parent, stranded, pidKey, meta>>
    BY <1>10 DEF TerminatePop
  <2>2. QED
    BY <1>1, <1>2, <2>1
<1>11. CASE TerminateKeys(t)
  BY <1>1, <1>2, <1>11 DEF TerminateKeys
<1>12. CASE TerminateKill(t)
  BY <1>1, <1>2, <1>12 DEF TerminateKill
<1>13. CASE TerminateWait(t)
  BY <1>1, <1>2, <1>13 DEF TerminateWait
<1>14. CASE TerminateResult(t)
  BY <1>1, <1>2, <1>14 DEF TerminateResult
<1>15. CASE StartEnter(t)
  BY <1>1, <1>2, <1>15 DEF StartEnter
<1>16. CASE StartConflict(t)
  BY <1>1, <1>2, <1>16 DEF StartConflict
<1>17. CASE StartCheck(t)
  BY <1>1, <1>2, <1>17 DEF StartCheck
<1>18. CASE Reserve(t)
  BY <1>1, <1>2, <1>18 DEF Reserve
<1>19. CASE Spawn(t)
  <2>1. UNCHANGED <<workers, stranded, pidKey, meta>>
    BY <1>19 DEF Spawn
  <2>2. RegistryShrinks
    BY <1>2, <2>1
  <2>3. stranded \subseteq stranded' /\ UNCHANGED <<pidKey, meta>>
    BY <2>1
  <2>4. QED
    BY <1>19, <2>2, <2>3
<1>20. CASE SpawnFails(t)
  BY <1>1, <1>2, <1>20 DEF SpawnFails
<1>21. CASE Publish(t)
  BY <1>1, <1>2, <1>21 DEF Publish
<1>22. CASE PublishFails(t)
  BY <1>1, <1>2, <1>22 DEF PublishFails
<1>23. CASE Register(t)
  BY <1>1, <1>2, <1>23 DEF Register
<1>24. CASE StopSignal(t)
  BY <1>1, <1>2, <1>24 DEF StopSignal
<1>25. CASE StopWaitLocal(t)
  BY <1>1, <1>2, <1>25 DEF StopWaitLocal
<1>26. CASE StopWaitRemote(t)
  BY <1>1, <1>2, <1>26 DEF StopWaitRemote
<1>27. CASE StopDelete(t)
  BY <1>1, <1>2, <1>27 DEF StopDelete
<1>28. CASE StopSimulationEnsure(t)
  BY <1>1, <1>2, <1>28 DEF StopSimulationEnsure
<1>29. CASE SignalOnly(t)
  BY <1>1, <1>2, <1>29 DEF SignalOnly
<1>30. QED
  BY <1>3, <1>4, <1>5, <1>6, <1>7, <1>8, <1>9, <1>10, <1>11, <1>12, <1>13, <1>14, <1>15, <1>16, <1>17, <1>18, <1>19, <1>20, <1>21, <1>22, <1>23, <1>24, <1>25, <1>26, <1>27, <1>28, <1>29 DEF Step

\* A step leaves a pid key alone, deletes it or writes the worker it has at hand.
LEMMA KeyWrites ==
    ASSUME TypeOK, NEW t \in Threads, Begin(t) \/ Step(t), NEW s \in Sessions
    PROVE  \/ pidKey'[s] = pidKey[s]
           \/ /\ s = ses[t] /\ pidKey'[s] = NoPid
              /\ ReconcileKeys(t) \/ TerminateKeys(t) \/ StopDelete(t)
           \/ /\ s = ses[t] /\ pidKey'[s] = Local(t)
              /\ Reconcile(t) /\ Alive(Local(t)) /\ pstrat[Local(t)] = Live
           \/ /\ s = ses[t] /\ pidKey'[s] = seen[t]
              /\ Publish(t) \/ PublishFails(t)
<1> USE LocalType DEF TypeOK, redisVars
<1>1. CASE UNCHANGED pidKey
  BY <1>1
<1>2. CASE ReconcileKeys(t) \/ TerminateKeys(t) \/ StopDelete(t)
  <2>1. DeleteKeys(ses[t]) \/ UNCHANGED pidKey
    BY <1>2 DEF ReconcileKeys, TerminateKeys, StopDelete
  <2>2. QED
    BY <1>2, <2>1 DEF DeleteKeys
<1>3. CASE Reconcile(t)
  <2>1. \/ UNCHANGED pidKey
        \/ Alive(Local(t)) /\ pstrat[Local(t)] = Live /\ Republish(ses[t], Local(t))
    BY <1>3 DEF Reconcile
  <2>2. QED
    BY <1>3, <2>1 DEF Republish, WriteKeys
<1>4. CASE Publish(t) \/ PublishFails(t)
  BY <1>4 DEF Publish, PublishFails, WriteKeys
<1>5. QED
  BY <1>1, <1>2, <1>3, <1>4, StepProcesses

\* While Redis answers, a read returns the key, and a write or a deletion is carried out.
LEMMA RedisAnswers ==
    ASSUME "redisdown" \notin Faults
    PROVE  /\ \A s : PidRead(s) = {pidKey[s]} /\ MetaRead(s) = {meta[s]}
           /\ \A s : DeleteKeys(s) => /\ pidKey' = [pidKey EXCEPT ![s] = NoPid]
                                      /\ meta' = [meta EXCEPT ![s] = NoMeta]
           /\ \A s, w : Republish(s, w) => WriteKeys(s, w, Live)
           /\ \A t : ~PublishFails(t)
  BY DEF Down, PidRead, MetaRead, DeleteKeys, Republish, PublishFails

\* The monitor, the workers and the faults, seen the same way.
LEMMA OthersProcesses ==
    ASSUME TypeOK,
           \/ \E g \in Gunicorns : MonitorScan(g) \/ MonitorCleanup(g)
           \/ \E p \in Pids : WorkerExit(p)
           \/ \E s \in Sessions : KeyLost(s)
    PROVE  /\ NoRevival /\ RegistryShrinks
           /\ UNCHANGED <<psess, pstrat, parent, loop, pc, op, ses, strat, ret,
                          seen, victims, stranded>>
           /\ \E s \in Sessions : KeyLost(s) \/ UNCHANGED <<pidKey, meta>>
<1> USE HelpersNoRevival, UnregisterShrinks DEF reqVars, procVars, redisVars
<1>1. CASE \E g \in Gunicorns : MonitorScan(g)
  <2>1. \A p \in Pids : pstate'[p] = pstate[p] \/ pstate'[p] = Polled(p)[p]
    BY <1>1 DEF MonitorScan, TypeOK
  <2>2. NoRevival
    BY <2>1 DEF Polled, NoRevival, TypeOK
  <2>3. QED
    BY <1>1, <2>2 DEF MonitorScan, RegistryShrinks
<1>5. CASE \E g \in Gunicorns : MonitorCleanup(g)
  BY <1>5 DEF MonitorCleanup, TypeOK
<1>2. CASE \E p \in Pids : WorkerExit(p)
  BY <1>2 DEF WorkerExit, RegistryShrinks
<1>3. CASE \E s \in Sessions : KeyLost(s)
  BY <1>3 DEF KeyLost, RegistryShrinks, NoRevival
<1>4. QED
  BY <1>1, <1>2, <1>3, <1>5

-----------------------------------------------------------------------------
(* Who owns a registered worker                                            *)

\* p is or was a process that g started for s.
StartedBy(g, s, p) ==
    p \in Pids /\ pstate[p] # "none" /\ parent[p] = g /\ psess[p] = s

\* Between process.start() and the registry entry, start_session holds a child
\* of its own process.
SpawnedIsOurs ==
    \A t \in Threads : pc[t] \in {"publish", "register"} =>
        StartedBy(GunicornOf[t], ses[t], seen[t])

OwnInv == TypeOK /\ RegistryOwnsChildren /\ SpawnedIsOurs

\* A step that starts no process, adopts none and adds no entry keeps OwnInv.
LEMMA QuietOwn ==
    ASSUME TypeOK, NoRevival, RegistryShrinks, UNCHANGED <<psess, parent>>,
           RegistryOwnsChildren
    PROVE  RegistryOwnsChildren'
  BY DEF TypeOK, NoRevival, RegistryShrinks, RegistryOwnsChildren

LEMMA StepOwn ==
    ASSUME OwnInv, NEW t \in Threads, Begin(t) \/ Step(t)
    PROVE  RegistryOwnsChildren' /\ SpawnedIsOurs'
<1>1. OtherThreads(t) /\ Flow(t)
  BY StepControl DEF OwnInv
<1>2. \A p \in Pids, g \in Gunicorns, s \in Sessions :
          StartedBy(g, s, p) => StartedBy(g, s, p)'
  <2>1. CASE Spawn(t)
    BY <2>1 DEF Spawn, StartedBy, OwnInv, TypeOK
  <2>2. CASE ~Spawn(t)
    BY <2>2, StepProcesses DEF NoRevival, StartedBy, OwnInv
  <2>3. QED
    BY <2>1, <2>2
<1>3. RegistryOwnsChildren'
  <2>1. SUFFICES ASSUME NEW g \in Gunicorns, NEW s \in Sessions,
                        workers'[g][s] # NoPid
                 PROVE  StartedBy(g, s, workers[g][s])'
    BY DEF RegistryOwnsChildren, StartedBy
  <2>2. CASE workers'[g][s] = workers[g][s]
    <3>1. StartedBy(g, s, workers[g][s])
      BY <2>1, <2>2 DEF OwnInv, TypeOK, RegistryOwnsChildren, StartedBy
    <3>2. StartedBy(g, s, workers[g][s]) => StartedBy(g, s, workers[g][s])'
      BY <1>2, <2>2, <3>1 DEF StartedBy
    <3>3. QED
      BY <3>1, <3>2
  <2>3. CASE workers'[g][s] # workers[g][s]
    <3>1. Register(t)
      BY <2>1, <2>3, StepProcesses DEF RegistryShrinks, OwnInv
    <3>2. g = GunicornOf[t] /\ s = ses[t] /\ workers'[g][s] = seen[t]
      BY <2>3, <3>1 DEF Register, OwnInv, TypeOK
    <3>3. StartedBy(g, s, seen[t])
      BY <3>1, <3>2 DEF Register, OwnInv, SpawnedIsOurs
    <3>4. QED
      BY <1>2, <3>2, <3>3 DEF StartedBy
  <2>4. QED
    BY <2>2, <2>3
<1>4. SpawnedIsOurs'
  <2>1. SUFFICES ASSUME NEW u \in Threads, pc'[u] \in {"publish", "register"}
                 PROVE  StartedBy(GunicornOf[u], ses[u], seen[u])'
    BY DEF SpawnedIsOurs
  <2>2. CASE u # t
    BY <1>1, <1>2, <2>1, <2>2, LocalType DEF OtherThreads, OwnInv, SpawnedIsOurs, StartedBy
  <2>3. CASE u = t /\ Spawn(t)
    BY <2>3 DEF Spawn, StartedBy, OwnInv, TypeOK, reqVars
  <2>4. CASE u = t /\ (Publish(t) \/ PublishFails(t))
    <3>1. pc[t] = "publish" /\ ses'[t] = ses[t] /\ seen'[t] = seen[t]
      BY <2>4 DEF Publish, PublishFails, reqVars
    <3>2. QED
      BY <1>2, <2>4, <3>1, LocalType DEF OwnInv, SpawnedIsOurs, StartedBy
  <2>5. QED
    BY <1>1, <2>1, <2>2, <2>3, <2>4 DEF Flow
<1>5. QED
  BY <1>3, <1>4

LEMMA OthersOwn ==
    ASSUME OwnInv,
           \/ \E g \in Gunicorns : MonitorScan(g) \/ MonitorCleanup(g)
           \/ \E p \in Pids : WorkerExit(p)
           \/ \E s \in Sessions : KeyLost(s)
    PROVE  RegistryOwnsChildren' /\ SpawnedIsOurs'
<1>1. NoRevival /\ RegistryShrinks /\ UNCHANGED <<psess, parent, pc, ses, seen>>
  BY OthersProcesses DEF OwnInv
<1>2. RegistryOwnsChildren'
  BY <1>1, QuietOwn DEF OwnInv
<1>3. SpawnedIsOurs'
  BY <1>1 DEF OwnInv, SpawnedIsOurs, StartedBy, NoRevival
<1>4. QED
  BY <1>2, <1>3

LEMMA CrashOwn ==
    ASSUME OwnInv, NEW g \in Gunicorns, GunicornCrash(g)
    PROVE  RegistryOwnsChildren' /\ SpawnedIsOurs'
<1>1. \A p \in Pids, h \in Gunicorns \ {g}, s \in Sessions :
          StartedBy(h, s, p) => StartedBy(h, s, p)'
  BY DEF GunicornCrash, StartedBy, OwnInv, TypeOK
<1>2. RegistryOwnsChildren'
  <2>1. \A h \in Gunicorns, s \in Sessions : 
           workers'[h][s] = IF h = g THEN NoPid ELSE workers[h][s]
    BY DEF GunicornCrash, OwnInv, TypeOK
  <2>2. QED
    BY <1>1, <2>1 DEF OwnInv, TypeOK, RegistryOwnsChildren, StartedBy
<1>3. SpawnedIsOurs'
  <2>1. \A u \in Threads : pc'[u] \in {"publish", "register"} =>
           /\ GunicornOf[u] # g /\ pc'[u] = pc[u]
    BY DEF GunicornCrash, OwnInv, TypeOK
  <2>2. UNCHANGED <<ses, seen>>
    BY DEF GunicornCrash, reqVars
  <2>3. QED
    BY <1>1, <2>1, <2>2, LocalType DEF OwnInv, SpawnedIsOurs, StartedBy
<1>4. QED
  BY <1>2, <1>3

LEMMA NextOwn == OwnInv /\ [Next]_vars => OwnInv'
<1>1. ASSUME OwnInv, UNCHANGED vars PROVE OwnInv'
  BY <1>1 DEF vars, OwnInv, TypeOK, RegistryOwnsChildren, SpawnedIsOurs, StartedBy
<1>2. ASSUME OwnInv, Next PROVE RegistryOwnsChildren' /\ SpawnedIsOurs'
  BY <1>2, StepOwn, OthersOwn, CrashOwn DEF Next
<1>3. QED
  BY <1>1, <1>2, NextTypeOK DEF OwnInv

\* Whatever is_alive(), join(), terminate() or kill() is called on through the
\* registry is a child this very gunicorn process started for that session,
\* even after crashes, lost keys and unserialised requests.
THEOREM RegistryOwnership == Spec => []RegistryOwnsChildren
<1>1. Init => OwnInv
  BY InitTypeOK DEF Init, OwnInv, RegistryOwnsChildren, SpawnedIsOurs
<1>2. OwnInv /\ [Next]_vars => OwnInv'
  BY NextOwn
<1>3. OwnInv => RegistryOwnsChildren
  BY DEF OwnInv
<1>4. QED
  BY <1>1, <1>2, <1>3, PTL DEF Spec

-----------------------------------------------------------------------------
(* At most one worker per session                                          *)

\* An executing worker that has not lost its keys to a crash or another stop.
Serving(p) == Alive(p) /\ p \notin stranded

\* t is about to publish p, or has deleted its keys and is about to kill it.
Holds(t, p) == \/ pc[t] = "publish" /\ seen[t] = p
               \/ pc[t] = "term3" /\ p \in victims[t]

\* Redis names every serving worker, unless a request holds it.
Keyed ==
    \A p \in Pids : Serving(p) =>
        \/ pidKey[psess[p]] = p
        \/ \E t \in Threads : ses[t] = psess[p] /\ Holds(t, p)

\* A session has one request at a time.
OneRequest ==
    \A t, u \in Threads :
        pc[t] # "idle" /\ pc[u] # "idle" /\ ses[t] = ses[u] => t = u

\* From its last check until the pid is published, start_session knows every
\* serving worker of its session: there is none, then the one it spawned.
ClearBeforeSpawn ==
    \A t \in Threads : \A p \in Pids :
        /\ pc[t] \in {"reserve", "spawn", "publish"}
        /\ Serving(p) /\ psess[p] = ses[t]
        => pc[t] = "publish" /\ p = seen[t]

\* stop_session deletes the keys only of a worker that has ended.
EndedBeforeDelete ==
    \A t \in Threads : pc[t] \in {"delL", "delR"} => ~Alive(seen[t])

\* The pids the keys and the stopping requests name have been handed out.
KnownPids ==
    /\ \A s \in Sessions : pidKey[s] # NoPid => pstate[pidKey[s]] # "none"
    /\ \A t \in Threads :
          pc[t] \in {"stopL", "stopR", "delL", "delR"} /\ seen[t] # NoPid
          => pstate[seen[t]] # "none"

WorkerInv == /\ Keyed /\ OneRequest /\ ClearBeforeSpawn
             /\ EndedBeforeDelete /\ KnownPids /\ AtMostOneWorker

LEMMA StepOneRequest ==
    ASSUME TypeOK, Serialized, OneRequest, NEW t \in Threads, Begin(t) \/ Step(t)
    PROVE  OneRequest'
<1>1. OtherThreads(t) /\ Flow(t)
  BY StepControl
<1>2. SUFFICES ASSUME NEW u \in Threads \ {t}, pc'[u] # "idle", pc'[t] # "idle",
                      ses'[u] = ses'[t]
               PROVE  FALSE
  BY <1>1 DEF OneRequest, OtherThreads
<1>3. pc[u] # "idle" /\ ses[u] = ses'[t]
  BY <1>1, <1>2 DEF OtherThreads
<1>4. CASE Begin(t)
  BY <1>3, <1>4 DEF Begin, TypeOK
<1>5. CASE ~Begin(t)
  BY <1>1, <1>2, <1>3, <1>5 DEF Flow, OneRequest
<1>6. QED
  BY <1>4, <1>5

\* Only process.start() makes a worker serving.
LEMMA ServingBefore ==
    ASSUME TypeOK, NoRevival, stranded \subseteq stranded', UNCHANGED psess,
           NEW p \in Pids, Serving(p)'
    PROVE  Serving(p) /\ psess'[p] = psess[p]
  BY DEF NoRevival, Serving, Alive, TypeOK

LEMMA StepClear ==
    ASSUME OwnInv, WorkerInv, NEW t \in Threads, Begin(t) \/ Step(t), OneRequest',
           "redisdown" \notin Faults
    PROVE  ClearBeforeSpawn' /\ AtMostOneWorker'
<1> USE DEF OwnInv, WorkerInv
<1>1. OtherThreads(t) /\ Flow(t)
  BY StepControl
<1>2. CASE Spawn(t)
  <2>1. PICK p \in Pids :
          /\ pstate[p] = "none"
          /\ pstate' = [q \in Pids |->
                          IF q = p THEN "running"
                          ELSE IF pstate[q] = "zombie" /\ parent[q] = GunicornOf[t]
                          THEN "gone" ELSE pstate[q]]
          /\ psess' = [psess EXCEPT ![p] = ses[t]]
          /\ seen' = [seen EXCEPT ![t] = p]
    BY <1>2 DEF Spawn
  <2>2. /\ pc[t] = "spawn" /\ pc'[t] = "publish" /\ seen'[t] = p
        /\ ses'[t] = ses[t] /\ UNCHANGED stranded
    BY <1>2, <2>1 DEF Spawn, TypeOK, reqVars, Goto
  <2>3. psess'[p] = ses[t]
    BY <2>1 DEF TypeOK
  <2>4. \A q \in Pids \ {p} : psess'[q] = psess[q] /\ (Serving(q)' => Serving(q))
    BY <2>1, <2>2 DEF TypeOK, Serving, Alive
  <2>5. \A q \in Pids \ {p} : ~(Serving(q)' /\ psess'[q] = ses[t])
    BY <2>2, <2>4 DEF ClearBeforeSpawn
  <2>6. AtMostOneWorker'
    BY <2>3, <2>4, <2>5 DEF AtMostOneWorker, Serving
  <2>7. ClearBeforeSpawn'
    <3>1. SUFFICES ASSUME NEW u \in Threads, NEW q \in Pids,
                          pc'[u] \in {"reserve", "spawn", "publish"},
                          Serving(q)', psess'[q] = ses'[u]
                   PROVE  pc'[u] = "publish" /\ q = seen'[u]
      BY DEF ClearBeforeSpawn
    <3>2. CASE u = t
      BY <2>2, <2>5, <3>1, <3>2
    <3>3. CASE u # t
      <4>1. ses'[u] # ses[t]
        BY <2>2, <3>1, <3>3 DEF OneRequest
      <4>2. q # p
        BY <2>3, <3>1, <4>1
      <4>3. QED
        BY <1>1, <2>4, <3>1, <3>3, <4>2 DEF OtherThreads, ClearBeforeSpawn
    <3>4. QED
      BY <3>2, <3>3
  <2>8. QED
    BY <2>6, <2>7
<1>3. CASE ~Spawn(t)
  <2>1. NoRevival /\ UNCHANGED psess /\ stranded \subseteq stranded'
    BY <1>3, StepProcesses
  <2>2. AtMostOneWorker'
    BY <2>1, ServingBefore DEF AtMostOneWorker, Serving
  <2>3. ClearBeforeSpawn'
    <3>1. SUFFICES ASSUME NEW u \in Threads, NEW q \in Pids,
                          pc'[u] \in {"reserve", "spawn", "publish"},
                          Serving(q)', psess'[q] = ses'[u]
                   PROVE  pc'[u] = "publish" /\ q = seen'[u]
      BY DEF ClearBeforeSpawn
    <3>2. Serving(q) /\ psess[q] = ses'[u]
      BY <2>1, <3>1, ServingBefore
    <3>3. CASE u # t
      BY <1>1, <3>1, <3>2, <3>3 DEF OtherThreads, ClearBeforeSpawn
    <3>4. CASE u = t /\ StartCheck(t)
      <4>1. /\ pc[t] = "start1" /\ ses'[t] = ses[t]
            /\ ~PidAlive(pidKey[ses[t]])
        BY <3>4, RedisAnswers DEF StartCheck, reqVars
      <4>2. pidKey[psess[q]] # q
        BY <3>2, <3>4, <4>1 DEF PidAlive, Serving, Alive
      <4>3. PICK v \in Threads : ses[v] = psess[q] /\ Holds(v, q)
        BY <3>2, <4>2 DEF Keyed
      <4>4. v = t
        BY <3>2, <3>4, <4>1, <4>3 DEF Holds, OneRequest
      <4>5. QED
        BY <4>1, <4>3, <4>4 DEF Holds
    <3>5. CASE u = t /\ Reserve(t)
      BY <3>1, <3>2, <3>5 DEF Reserve, ClearBeforeSpawn, reqVars
    <3>6. QED
      BY <1>1, <1>3, <3>1, <3>3, <3>4, <3>5 DEF Flow
  <2>4. QED
    BY <2>2, <2>3
<1>4. QED
  BY <1>2, <1>3

LEMMA StepKeyed ==
    ASSUME OwnInv, WorkerInv, NEW t \in Threads, Begin(t) \/ Step(t),
           "redisdown" \notin Faults
    PROVE  Keyed'
<1> USE DEF OwnInv, WorkerInv
<1>1. OtherThreads(t) /\ Flow(t)
  BY StepControl
<1>2. CASE Spawn(t)
  <2>1. PICK p \in Pids :
          /\ pstate' = [q \in Pids |->
                          IF q = p THEN "running"
                          ELSE IF pstate[q] = "zombie" /\ parent[q] = GunicornOf[t]
                          THEN "gone" ELSE pstate[q]]
          /\ psess' = [psess EXCEPT ![p] = ses[t]]
          /\ seen' = [seen EXCEPT ![t] = p]
    BY <1>2 DEF Spawn
  <2>2. /\ pc[t] = "spawn" /\ pc'[t] = "publish" /\ seen'[t] = p
        /\ ses'[t] = ses[t] /\ UNCHANGED <<stranded, pidKey>>
    BY <1>2, <2>1 DEF Spawn, TypeOK, reqVars, redisVars, Goto
  <2>3. psess'[p] = ses[t]
    BY <2>1 DEF TypeOK
  <2>4. \A q \in Pids \ {p} : psess'[q] = psess[q] /\ (Serving(q)' => Serving(q))
    BY <2>1, <2>2 DEF TypeOK, Serving, Alive
  <2>5. \A u \in Threads, q \in Pids :
           ses[u] = psess[q] /\ Holds(u, q) => u # t /\ ses'[u] = ses[u] /\ Holds(u, q)'
    BY <1>1, <2>2 DEF Holds, OtherThreads
  <2>6. QED
    BY <2>2, <2>3, <2>4, <2>5 DEF Keyed, Holds
<1>3. CASE ~Spawn(t)
  <2>1. NoRevival /\ UNCHANGED psess /\ stranded \subseteq stranded'
    BY <1>3, StepProcesses
  <2>2. SUFFICES ASSUME NEW p \in Pids, Serving(p)'
                 PROVE  \/ pidKey'[psess[p]] = p
                        \/ \E u \in Threads : ses'[u] = psess[p] /\ Holds(u, p)'
    BY <2>1 DEF Keyed
  <2>3. Serving(p)
    BY <2>1, <2>2, ServingBefore
  <2>4. CASE \E u \in Threads : ses[u] = psess[p] /\ Holds(u, p)
    <3>1. PICK u \in Threads : ses[u] = psess[p] /\ Holds(u, p)
      BY <2>4
    <3>2. CASE u # t
      BY <1>1, <3>1, <3>2 DEF OtherThreads, Holds
    <3>3. CASE u = t /\ Publish(t)
      BY <3>1, <3>3 DEF Publish, WriteKeys, Holds, TypeOK
    <3>4. CASE u = t /\ PublishFails(t)
      BY <3>4, RedisAnswers
    <3>5. CASE u = t /\ TerminateKill(t)
      BY <2>2, <2>3, <3>1, <3>5
         DEF TerminateKill, Holds, Killed, Serving, Alive, TypeOK
    <3>6. QED
      BY <1>1, <3>1, <3>2, <3>3, <3>4, <3>5 DEF Holds, Flow
  <2>5. CASE pidKey[psess[p]] = p
    <3>1. psess[p] \in Sessions
      BY DEF TypeOK
    <3>2. CASE pidKey'[psess[p]] = pidKey[psess[p]]
      BY <2>5, <3>2
    <3>3. CASE psess[p] = ses[t] /\ Reconcile(t) /\ pidKey'[psess[p]] # pidKey[psess[p]]
      <4>1. Republish(ses[t], Local(t)) /\ pidKey[ses[t]] = NoPid
        BY <3>3, RedisAnswers DEF Reconcile, redisVars
      <4>2. QED
        BY <2>5, <3>3, <4>1
    <3>4. CASE psess[p] = ses[t] /\ ReconcileKeys(t) /\ pidKey'[psess[p]] # pidKey[psess[p]]
      <4>1. ~PidAlive(pidKey[ses[t]])
        BY <3>4, RedisAnswers DEF ReconcileKeys, redisVars
      <4>2. QED
        BY <2>3, <2>5, <3>4, <4>1 DEF PidAlive, Serving, Alive
    <3>5. CASE psess[p] = ses[t] /\ TerminateKeys(t)
      <4>1. /\ victims' = [victims EXCEPT ![t] = @ \cup ({pidKey[ses[t]]} \ {NoPid})]
            /\ pc'[t] = "term3" /\ ses'[t] = ses[t]
        <5>1. \E q \in PidRead(ses[t]) :
                 victims' = [victims EXCEPT ![t] = @ \cup ({q} \ {NoPid})]
          BY <3>5 DEF TerminateKeys
        <5>2. PidRead(ses[t]) = {pidKey[ses[t]]}
          BY RedisAnswers
        <5>3. pc'[t] = "term3" /\ ses'[t] = ses[t]
          BY <3>5 DEF TerminateKeys, Goto, TypeOK, reqVars
        <5>4. QED
          BY <5>1, <5>2, <5>3
      <4>2. QED
        BY <2>5, <3>5, <4>1 DEF Holds, TypeOK
    <3>6. CASE psess[p] = ses[t] /\ Publish(t)
      <4>1. p = seen[t]
        BY <2>3, <3>6 DEF ClearBeforeSpawn, Publish
      <4>2. QED
        BY <3>1, <3>6, <4>1, LocalType DEF Publish, WriteKeys, TypeOK
    <3>7. CASE psess[p] = ses[t] /\ StopDelete(t)
      <4>1. pidKey'[psess[p]] = NoPid
        BY <3>7, RedisAnswers, LocalType DEF StopDelete, TypeOK
      <4>2. QED
        BY <2>2, <2>3, <2>5, <3>1, <3>7, <4>1, LocalType
           DEF StopDelete, EndedBeforeDelete, Serving
    <3>8. QED
      BY <3>1, <3>2, <3>3, <3>4, <3>5, <3>6, <3>7, KeyWrites, RedisAnswers
  <2>6. QED
    BY <2>3, <2>4, <2>5 DEF Keyed
<1>4. QED
  BY <1>2, <1>3

LEMMA StepKnown ==
    ASSUME OwnInv, WorkerInv, NEW t \in Threads, Begin(t) \/ Step(t)
    PROVE  KnownPids' /\ EndedBeforeDelete'
<1> USE DEF OwnInv, WorkerInv
<1>1. OtherThreads(t) /\ Flow(t)
  BY StepControl
<1>2. \A p \in Pids : pstate[p] # "none" =>
          pstate'[p] # "none" /\ (Alive(p)' => Alive(p))
  <2>1. CASE Spawn(t)
    BY <2>1 DEF Spawn, TypeOK, Alive
  <2>2. CASE ~Spawn(t)
    BY <2>2, StepProcesses DEF NoRevival, Alive
  <2>3. QED
    BY <2>1, <2>2
<1>3. ASSUME NEW s \in Sessions, pidKey'[s] # NoPid
      PROVE  pstate'[pidKey'[s]] # "none"
  <2>1. CASE pidKey'[s] = pidKey[s]
    BY <1>2, <1>3, <2>1 DEF KnownPids, TypeOK
  <2>2. CASE pidKey'[s] = Local(t) /\ Alive(Local(t))
    <3>1. Local(t) \in Pids /\ pstate[Local(t)] # "none"
      BY <2>2, LocalType DEF RegistryOwnsChildren, Local, Alive
    <3>2. QED
      BY <1>2, <2>2, <3>1
  <2>3. CASE pidKey'[s] = seen[t] /\ (Publish(t) \/ PublishFails(t))
    BY <1>2, <2>3 DEF Publish, PublishFails, SpawnedIsOurs, StartedBy
  <2>4. QED
    BY <1>3, <2>1, <2>2, <2>3, KeyWrites
<1>4. ASSUME NEW u \in Threads, pc'[u] \in {"stopL", "stopR", "delL", "delR"}
      PROVE  /\ seen'[u] # NoPid => pstate'[seen'[u]] # "none"
             /\ pc'[u] \in {"delL", "delR"} => ~Alive(seen[u])'
  <2>1. CASE u # t
    <3>1. pc[u] = pc'[u] /\ seen[u] = seen'[u] /\ seen[u] \in Pids \cup {NoPid}
      BY <1>1, <2>1 DEF OtherThreads, TypeOK
    <3>2. /\ seen[u] # NoPid => pstate[seen[u]] # "none"
          /\ pc[u] \in {"delL", "delR"} => ~Alive(seen[u])
      BY <1>4, <3>1 DEF KnownPids, EndedBeforeDelete
    <3>3. QED
      BY <1>2, <1>4, <3>1, <3>2 DEF Alive
  <2>2. CASE u = t /\ StopSignal(t)
    <3>0. PICK target \in Targets(t) :
             /\ target = NoPid => Reply(t, "not_running")
             /\ target # NoPid =>
                  /\ seen' = [seen EXCEPT ![t] = target]
                  /\ Goto(t, IF Local(t) # NoPid THEN "stopL"
                             ELSE IF PidAlive(target) THEN "stopR" ELSE "delR")
      BY <2>2 DEF StopSignal
    <3>1. target \in Pids \cup {NoPid} /\ (target # NoPid => pstate[target] # "none")
      BY LocalType DEF Targets, PidRead, TypeOK, KnownPids, RegistryOwnsChildren, Local
    <3>2. /\ pc'[t] = "reply"
          \/ /\ target # NoPid /\ seen'[t] = target
             /\ pc'[t] = "delR" => ~PidAlive(target)
      BY <3>0 DEF Reply, Goto, TypeOK
    <3>3. pc'[t] # "delL"
      BY <1>1, <2>2 DEF Flow, StopSignal, StopWaitLocal
    <3>4. PICK p \in Pids \cup {NoPid} : p = target
      BY <3>1
    <3>5. p # NoPid => pstate'[p] # "none"
      BY <1>2, <3>1, <3>4
    <3>6. pc'[t] = "delR" => ~Alive(p)'
      BY <1>2, <1>4, <2>2, <3>1, <3>2, <3>4 DEF PidAlive, Alive
    <3>7. pc'[t] # "reply" /\ seen'[t] = p
      BY <1>4, <2>2, <3>2, <3>4
    <3>8. QED
      BY <2>2, <3>3, <3>5, <3>6, <3>7 DEF Alive
  <2>3. CASE u = t /\ StopWaitLocal(t)
    <3>1. pc[t] = "stopL" /\ pstate' = Ended(seen[t]) /\ seen'[t] = seen[t]
          /\ seen[t] \in Pids \cup {NoPid}
      BY <2>3 DEF StopWaitLocal, TypeOK
    <3>2. ~Alive(seen[t])'
      BY <3>1 DEF Ended, Killed, Polled, Alive, TypeOK
    <3>3. QED
      BY <1>2, <2>3, <3>1, <3>2 DEF KnownPids
  <2>4. CASE u = t /\ StopWaitRemote(t)
    <3>1. pc[t] = "stopR" /\ pstate' = Killed({seen[t]}) /\ seen'[t] = seen[t]
          /\ seen[t] \in Pids \cup {NoPid}
      BY <2>4 DEF StopWaitRemote, TypeOK
    <3>2. ~Alive(seen[t])'
      BY <3>1 DEF Killed, Alive, TypeOK
    <3>3. QED
      BY <1>2, <2>4, <3>1, <3>2 DEF KnownPids
  <2>5. QED
    BY <1>1, <1>4, <2>1, <2>2, <2>3, <2>4 DEF Flow
<1>5. QED
  BY <1>3, <1>4 DEF KnownPids, EndedBeforeDelete

LEMMA OthersWorkerInv ==
    ASSUME OwnInv, WorkerInv, "keyloss" \notin Faults,
           \/ \E g \in Gunicorns : MonitorScan(g) \/ MonitorCleanup(g)
           \/ \E p \in Pids : WorkerExit(p)
           \/ \E s \in Sessions : KeyLost(s)
    PROVE  WorkerInv'
<1> USE DEF OwnInv, WorkerInv
<1>1. /\ NoRevival
      /\ UNCHANGED <<psess, pidKey, pc, ses, seen, victims, stranded>>
  BY OthersProcesses DEF KeyLost
<1>2. \A p \in Pids : /\ Alive(p)' => Alive(p)
                      /\ Serving(p)' => Serving(p)
  BY <1>1 DEF NoRevival, Serving, Alive
<1>3. Keyed' /\ ClearBeforeSpawn' /\ AtMostOneWorker'
  BY <1>1, <1>2 DEF Keyed, Holds, ClearBeforeSpawn, AtMostOneWorker
<1>4. OneRequest' /\ EndedBeforeDelete' /\ KnownPids'
  BY <1>1 DEF OneRequest, EndedBeforeDelete, KnownPids, NoRevival, Alive, TypeOK
<1>5. QED
  BY <1>3, <1>4

LEMMA CrashWorkerInv ==
    ASSUME OwnInv, WorkerInv, NEW g \in Gunicorns, GunicornCrash(g)
    PROVE  WorkerInv'
<1> USE DEF OwnInv, WorkerInv
<1>1. /\ NoRevival
      /\ UNCHANGED <<psess, pidKey, ses, seen, victims>>
      /\ stranded' = stranded \cup StrandedBy(g)
      /\ \A t \in Threads :
           \/ pc'[t] = pc[t] /\ (GunicornOf[t] # g \/ pc[t] = "idle")
           \/ pc'[t] = "reply" /\ GunicornOf[t] = g /\ pc[t] # "idle"
  BY DEF GunicornCrash, NoRevival, reqVars, redisVars, TypeOK
<1>2. \A p \in Pids : /\ Alive(p)' => Alive(p)
                      /\ Serving(p)' => Serving(p) /\ p \notin StrandedBy(g)
  BY <1>1 DEF NoRevival, Serving, Alive
<1>3. \A p \in Pids, t \in Threads :
          Holds(t, p) /\ p \notin StrandedBy(g) => Holds(t, p)'
  BY <1>1 DEF Holds, StrandedBy
<1>4. Keyed'
  BY <1>1, <1>2, <1>3 DEF Keyed
<1>5. ClearBeforeSpawn' /\ AtMostOneWorker'
  BY <1>1, <1>2 DEF ClearBeforeSpawn, AtMostOneWorker, Serving
<1>6. OneRequest'
  BY <1>1 DEF OneRequest
<1>7. EndedBeforeDelete'
  BY <1>1 DEF EndedBeforeDelete, NoRevival, Alive, TypeOK
<1>8. KnownPids'
  BY <1>1 DEF KnownPids, NoRevival, TypeOK
<1>9. QED
  BY <1>4, <1>5, <1>6, <1>7, <1>8

LEMMA WorkerInvInit == Init => OwnInv /\ WorkerInv
<1>1. ASSUME Init PROVE OwnInv
  BY <1>1, InitTypeOK DEF Init, OwnInv, RegistryOwnsChildren, SpawnedIsOurs
<1>2. ASSUME Init PROVE WorkerInv
  BY <1>2 DEF Init, WorkerInv, Keyed, OneRequest, ClearBeforeSpawn,
              EndedBeforeDelete, KnownPids, AtMostOneWorker, Serving, Alive
<1>3. QED
  BY <1>1, <1>2

LEMMA WorkerInvStep ==
    ASSUME Serialized, Faults \subseteq {"hang", "crash"},
           OwnInv, WorkerInv, [Next]_vars
    PROVE  OwnInv' /\ WorkerInv'
<1>1. ASSUME UNCHANGED vars PROVE WorkerInv'
  BY <1>1 DEF vars, WorkerInv, Keyed, OneRequest, ClearBeforeSpawn,
              EndedBeforeDelete, KnownPids, AtMostOneWorker, Serving, Alive, Holds
<1>2. ASSUME NEW t \in Threads, Begin(t) \/ Step(t) PROVE  WorkerInv'
  <2>1. OneRequest'
    BY <1>2, StepOneRequest DEF OwnInv, WorkerInv
  <2>2. QED
    BY <1>2, <2>1, StepClear, StepKeyed, StepKnown DEF WorkerInv
<1>3. ASSUME Next PROVE WorkerInv'
  BY <1>2, <1>3, OthersWorkerInv, CrashWorkerInv DEF Next
<1>4. QED
  BY <1>1, <1>3, NextOwn

\* With one request per session at a time and Redis keeping what it is told, a
\* session never has two workers executing: not across two gunicorn processes,
\* nor when workers hang, die or exit, or gunicorn processes crash and come
\* back.
THEOREM OneWorkerPerSession ==
    ASSUME Serialized, Faults \subseteq {"hang", "crash"}
    PROVE  Spec => []AtMostOneWorker
<1> DEFINE IInv == OwnInv /\ WorkerInv
<1>1. Init => IInv
  BY WorkerInvInit
<1>2. IInv /\ [Next]_vars => IInv'
  BY WorkerInvStep
<1>3. IInv => AtMostOneWorker
  BY DEF WorkerInv
<1>4. QED
  BY <1>1, <1>2, <1>3, PTL DEF Spec

-----------------------------------------------------------------------------
(* No live worker is terminated for a start                                *)

\* What a session's pid key says of a serving worker, the meta says too.
LiveIsTold ==
    \A s \in Sessions, p \in Pids :
        pidKey[s] = p /\ Serving(p) =>
            psess[p] = s /\ (pstrat[p] = Live => meta[s] = Live)

\* start_session publishes the strategy its process was started with.
SpawnedAsAsked ==
    \A t \in Threads : pc[t] = "publish" => pstrat[seen[t]] = strat[t]

\* What a termination is about to kill has been handed out, and is a paper worker if
\* it serves; so is what it will find under the pid key.
PaperVictims ==
    \A t \in Threads, p \in Pids :
        /\ pc[t] \in {"term2", "term3"} /\ p \in victims[t] =>
             pstate[p] # "none" /\ (Serving(p) => pstrat[p] = Paper)
        /\ pc[t] = "term2" /\ pidKey[ses[t]] = p /\ Serving(p) => pstrat[p] = Paper

\* Reconciliation ends no worker that has its keys.
CondemnsNone == \A t \in Threads : pc[t] = "rec2" => ~Serving(Local(t))

SpareInv == /\ LiveIsTold /\ SpawnedAsAsked /\ PaperVictims /\ CondemnsNone

LEMMA StepSpare ==
    ASSUME OwnInv, WorkerInv, SpareInv, NEW t \in Threads, Begin(t) \/ Step(t),
           "redisdown" \notin Faults, OneRequest'
    PROVE  SpareInv'
<1> USE DEF OwnInv, WorkerInv, SpareInv
<1>1. OtherThreads(t) /\ Flow(t)
  BY StepControl
<1>2. \A p \in Pids : pstate[p] # "none" =>
          /\ pstate'[p] # "none" /\ (Serving(p)' => Serving(p))
          /\ psess'[p] = psess[p] /\ pstrat'[p] = pstrat[p]
  <2>1. CASE Spawn(t)
    BY <2>1 DEF Spawn, TypeOK, Serving, Alive
  <2>2. CASE ~Spawn(t)
    BY <2>2, StepProcesses DEF NoRevival, Serving, Alive
  <2>3. QED
    BY <2>1, <2>2
<1>3. \A s \in Sessions, p \in Pids :
          pidKey[s] = p => pstate[p] # "none"
  BY LocalType DEF KnownPids
<1>4. Publish(t) => /\ seen[t] \in Pids /\ pstate[seen[t]] # "none"
                    /\ psess[seen[t]] = ses[t] /\ pstrat[seen[t]] = strat[t]
  BY DEF Publish, SpawnedIsOurs, StartedBy, SpawnedAsAsked
<1>5. LiveIsTold'
  <2> SUFFICES ASSUME NEW s \in Sessions, NEW p \in Pids, pidKey'[s] = p, Serving(p)'
               PROVE  psess'[p] = s /\ (pstrat'[p] = Live => meta'[s] = Live)
    BY DEF LiveIsTold
  <2>1. CASE Publish(t) /\ s = ses[t]
    <3>1. p = seen[t] /\ meta'[s] = strat[t]
      BY <2>1 DEF Publish, WriteKeys, TypeOK
    <3>2. QED
      BY <1>2, <1>4, <2>1, <3>1
  <2>2. CASE Reconcile(t) /\ pidKey'[s] # pidKey[s]
    <3>1. s = ses[t] /\ p = Local(t) /\ Local(t) # NoPid /\ meta'[s] = Live
      <4>1. WriteKeys(ses[t], Local(t), Live) /\ Alive(Local(t))
        BY <2>2, RedisAnswers DEF Reconcile, redisVars
      <4>2. QED
        BY <2>2, <4>1, LocalType DEF WriteKeys, TypeOK, Alive
    <3>2. pstate[p] # "none" /\ psess[p] = s
      BY <3>1, LocalType DEF RegistryOwnsChildren, Local
    <3>3. QED
      BY <1>2, <3>1, <3>2
  <2>3. CASE pidKey'[s] = pidKey[s] /\ ~(Publish(t) /\ s = ses[t])
    <3>1. Serving(p) /\ psess'[p] = psess[p] /\ pstrat'[p] = pstrat[p]
      BY <1>2, <1>3, <2>3
    <3>2. psess[p] = s /\ (pstrat[p] = Live => meta[s] = Live)
      BY <2>3, <3>1 DEF LiveIsTold
    <3>3. CASE meta'[s] = meta[s]
      BY <3>1, <3>2, <3>3
    <3>4. CASE Reconcile(t)
      <4>1. meta' = meta \/ meta' = [meta EXCEPT ![ses[t]] = Live]
        BY <3>4, RedisAnswers DEF Reconcile, WriteKeys, redisVars
      <4>2. QED
        BY <3>1, <3>2, <4>1, LocalType DEF TypeOK
    <3>5. CASE (Reserve(t) \/ SpawnFails(t)) /\ s = ses[t]
      BY <3>1, <3>2, <3>5 DEF Reserve, SpawnFails, ClearBeforeSpawn
    <3>6. CASE ReconcileKeys(t) \/ TerminateKeys(t) \/ StopDelete(t)
      <4>1. \/ UNCHANGED meta
            \/ /\ pidKey' = [pidKey EXCEPT ![ses[t]] = NoPid]
               /\ meta' = [meta EXCEPT ![ses[t]] = NoMeta]
        BY <3>6, RedisAnswers DEF ReconcileKeys, TerminateKeys, StopDelete, redisVars
      <4>2. QED
        BY <2>3, <3>1, <3>2, <4>1, LocalType DEF TypeOK
    <3>7. CASE (Reserve(t) \/ SpawnFails(t) \/ Publish(t)) /\ s # ses[t]
      BY <3>1, <3>2, <3>7 DEF Reserve, SpawnFails, Publish, WriteKeys, TypeOK
    <3>8. QED
      BY <2>3, <3>3, <3>4, <3>5, <3>6, <3>7, StepProcesses, RedisAnswers
  <2>4. pidKey'[s] # NoPid
    BY LocalType
  <2>6. QED
    BY <2>1, <2>2, <2>3, <2>4, KeyWrites, RedisAnswers
<1>6. SpawnedAsAsked'
  <2> SUFFICES ASSUME NEW u \in Threads, pc'[u] = "publish"
               PROVE  pstrat'[seen'[u]] = strat'[u]
    BY DEF SpawnedAsAsked
  <2>1. CASE u = t
    BY <1>1, <2>1 DEF Flow, Spawn, TypeOK, reqVars
  <2>2. CASE u # t
    BY <1>1, <1>2, <2>2 DEF OtherThreads, SpawnedIsOurs, StartedBy, SpawnedAsAsked
  <2>3. QED
    BY <2>1, <2>2
<1>7. PaperVictims'
  <2> SUFFICES ASSUME NEW u \in Threads, NEW p \in Pids
               PROVE  /\ pc'[u] \in {"term2", "term3"} /\ p \in victims'[u] =>
                           pstate'[p] # "none" /\ (Serving(p)' => pstrat'[p] = Paper)
                      /\ pc'[u] = "term2" /\ pidKey'[ses'[u]] = p /\ Serving(p)' =>
                           pstrat'[p] = Paper
    BY DEF PaperVictims
  <2>1. CASE u # t
    <3>1. pc'[u] = pc[u] /\ ses'[u] = ses[u] /\ victims'[u] = victims[u]
      BY <1>1, <2>1 DEF OtherThreads
    <3>2. pc[u] \in {"term2", "term3"} /\ p \in victims[u] =>
              pstate'[p] # "none" /\ (Serving(p)' => pstrat'[p] = Paper)
      BY <1>2 DEF PaperVictims
    <3>3. ASSUME pc[u] = "term2", pidKey'[ses[u]] = p, Serving(p)'
          PROVE  pstrat'[p] = Paper
      <4>1. pc[t] # "idle" => ses[t] # ses[u]
        BY <2>1, <3>3 DEF OneRequest
      <4>2. pidKey'[ses[u]] = pidKey[ses[u]]
        <5>1. CASE Begin(t)
          BY <5>1 DEF Begin, redisVars
        <5>2. CASE pc[t] # "idle"
          BY <4>1, <5>2, LocalType, KeyWrites
        <5>3. QED
          BY <1>1, <5>1, <5>2 DEF Flow
      <4>3. pstate[p] # "none"
        BY <1>3, <3>3, <4>2, LocalType DEF TypeOK
      <4>4. QED
        BY <1>2, <3>3, <4>2, <4>3 DEF PaperVictims
    <3>4. QED
      BY <3>1, <3>2, <3>3
  <2>2. CASE u = t /\ pc'[t] = "term2"
    <3>1. TerminatePop(t)
      BY <1>1, <2>2 DEF Flow
    <3>2. /\ ~HasLiveWorker(t, meta[ses[t]])
          /\ victims'[t] = IF Alive(Local(t)) THEN {Local(t)} ELSE {}
          /\ ses'[t] = ses[t] /\ pidKey' = pidKey
      <4>1. PICK m \in MetaRead(ses[t]) :
              IF HasLiveWorker(t, m)
              THEN AfterTerminate(t, FALSE) /\ UNCHANGED <<workers, pstate, victims>>
              ELSE victims' = [victims EXCEPT ![t] =
                                IF Alive(Local(t)) THEN {Local(t)} ELSE {}]
        BY <3>1 DEF TerminatePop
      <4>2. ~HasLiveWorker(t, m)
        BY <2>2, <4>1, ControlHelpers
      <4>3. m = meta[ses[t]]
        BY RedisAnswers
      <4>4. UNCHANGED <<ses, pidKey>>
        BY <3>1 DEF TerminatePop, reqVars, redisVars
      <4>5. QED
        BY <4>1, <4>2, <4>3, <4>4 DEF TypeOK
    <3>3. ASSUME p \in victims'[t] PROVE pstate[p] # "none" /\ pstrat[p] = Paper
      <4>1. p = Local(t) /\ Alive(p)
        BY <3>2, <3>3
      <4>2. QED
        BY <3>2, <4>1 DEF HasLiveWorker, Alive, TypeOK
    <3>4. ASSUME pidKey[ses[t]] = p, Serving(p) PROVE pstrat[p] = Paper
      BY <3>2, <3>4, LocalType DEF LiveIsTold, HasLiveWorker, IsLiveMeta, TypeOK
    <3>5. QED
      BY <1>2, <1>3, <2>2, <3>2, <3>3, <3>4, LocalType
  <2>3. CASE u = t /\ pc'[t] = "term3"
    <3>1. TerminateKeys(t)
      BY <1>1, <2>3 DEF Flow
    <3>2. /\ pc[t] = "term2"
          /\ victims'[t] = victims[t] \cup ({pidKey[ses[t]]} \ {NoPid})
      BY <3>1, RedisAnswers DEF TerminateKeys, TypeOK
    <3>3. p \in victims'[t] => pstate[p] # "none" /\ (Serving(p) => pstrat[p] = Paper)
      BY <1>3, <3>2, LocalType DEF PaperVictims, TypeOK
    <3>4. QED
      BY <1>2, <2>3, <3>3
  <2>4. QED
    BY <2>1, <2>2, <2>3
<1>8. CondemnsNone'
  <2> SUFFICES ASSUME NEW u \in Threads, pc'[u] = "rec2", Serving(Local(u))'
               PROVE  FALSE
    BY DEF CondemnsNone
  <2>1. CASE u # t
    <3>1. pc[u] = "rec2" /\ ses'[u] = ses[u]
      BY <1>1, <2>1 DEF OtherThreads
    <3>2. Local(u)' \in {Local(u), NoPid}
      <4>1. CASE Register(t)
        <5>1. ses[t] # ses[u]
          BY <2>1, <3>1, <4>1 DEF Register, OneRequest
        <5>2. QED
          BY <3>1, <4>1, <5>1, LocalType DEF Register, Local, TypeOK
      <4>2. CASE RegistryShrinks
        BY <3>1, <4>2, LocalType DEF RegistryShrinks, Local, TypeOK
      <4>3. QED
        BY <4>1, <4>2, StepProcesses
    <3>3. PICK p \in Pids : p = Local(u) /\ Local(u)' = p
      BY <3>2, LocalType DEF Serving, Alive
    <3>4. pstate[p] # "none"
      BY <3>3, LocalType DEF RegistryOwnsChildren, Local, TypeOK
    <3>5. Serving(p)'
      BY <3>3
    <3>6. QED
      BY <1>2, <3>1, <3>3, <3>4, <3>5 DEF CondemnsNone
  <2>2. CASE u = t
    <3>1. /\ pc[t] = "rec1" /\ ses'[t] = ses[t] /\ UNCHANGED workers
          /\ pidKey[ses[t]] # Local(t)
      BY <1>1, <2>2, RedisAnswers, LocalType DEF Flow, Reconcile, reqVars, TypeOK, Goto
    <3>2. PICK p \in Pids : p = Local(t) /\ Local(t)' = p
      BY <2>2, <3>1, LocalType DEF Serving, Alive, Local
    <3>3. pstate[p] # "none" /\ psess[p] = ses[t]
      BY <3>2, LocalType DEF RegistryOwnsChildren, Local, TypeOK
    <3>4. Serving(p)'
      BY <2>2, <3>2
    <3>5. Serving(p)
      BY <1>2, <3>3, <3>4
    <3>6. PICK v \in Threads : ses[v] = psess[p] /\ Holds(v, p)
      BY <3>1, <3>2, <3>3, <3>5 DEF Keyed
    <3>7. QED
      BY <3>1, <3>3, <3>6 DEF Holds, OneRequest
  <2>3. QED
    BY <2>1, <2>2
<1>9. QED
  BY <1>5, <1>6, <1>7, <1>8

\* Neither the monitor, nor a worker that ends, nor a crash changes what the invariant
\* relates.
LEMMA OthersSpare ==
    ASSUME OwnInv, WorkerInv, SpareInv, "keyloss" \notin Faults,
           \/ \E g \in Gunicorns : MonitorScan(g) \/ MonitorCleanup(g) \/ GunicornCrash(g)
           \/ \E p \in Pids : WorkerExit(p)
           \/ \E s \in Sessions : KeyLost(s)
           \/ UNCHANGED vars
    PROVE  SpareInv'
<1> USE DEF OwnInv, WorkerInv, SpareInv
<1>1. /\ NoRevival /\ RegistryShrinks /\ stranded \subseteq stranded'
      /\ UNCHANGED <<psess, pstrat, pidKey, meta, ses, strat, seen, victims>>
      /\ \A t \in Threads : pc'[t] \in {pc[t], "reply"}
  <2>1. CASE \E g \in Gunicorns : GunicornCrash(g)
    BY <2>1 DEF GunicornCrash, NoRevival, RegistryShrinks, redisVars, reqVars, TypeOK
  <2>2. CASE \/ \E g \in Gunicorns : MonitorScan(g) \/ MonitorCleanup(g)
             \/ \E p \in Pids : WorkerExit(p)
             \/ \E s \in Sessions : KeyLost(s)
    BY <2>2, OthersProcesses DEF KeyLost
  <2>3. CASE UNCHANGED vars
    BY <2>3 DEF vars, NoRevival, RegistryShrinks
  <2>4. QED
    BY <2>1, <2>2, <2>3
<1>2. \A p \in Pids : /\ Serving(p)' => Serving(p)
                      /\ pstate[p] # "none" => pstate'[p] # "none"
  BY <1>1 DEF NoRevival, Serving, Alive
<1>3. LiveIsTold'
  BY <1>1, <1>2 DEF LiveIsTold
<1>4. SpawnedAsAsked'
  BY <1>1 DEF SpawnedAsAsked
<1>5. PaperVictims'
  BY <1>1, <1>2 DEF PaperVictims
<1>6. CondemnsNone'
  <2> SUFFICES ASSUME NEW u \in Threads, pc'[u] = "rec2", Serving(Local(u))'
               PROVE  FALSE
    BY DEF CondemnsNone
  <2>1. pc[u] = "rec2" /\ Local(u)' \in {Local(u), NoPid}
    BY <1>1, LocalType DEF RegistryShrinks, Local, TypeOK
  <2>2. PICK p \in Pids : p = Local(u) /\ Local(u)' = p
    BY <2>1, LocalType DEF Serving, Alive
  <2>3. Serving(p)'
    BY <2>2
  <2>4. QED
    BY <1>2, <2>1, <2>2, <2>3 DEF CondemnsNone
<1>7. QED
  BY <1>3, <1>4, <1>5, <1>6

\* What a live start, a restart or a simulation's stop kills is a paper worker, also when
\* the worker is another gunicorn process's and only the shared keys tell what it is: the
\* meta is as good as the pid key, from the reservation to the deletion of both.
THEOREM LiveIsSpared ==
    ASSUME Serialized, Faults \subseteq {"hang", "crash"}
    PROVE  Spec => []PrepSparesLive
<1> DEFINE IInv == OwnInv /\ WorkerInv /\ SpareInv
<1>1. Init => IInv
  BY WorkerInvInit
     DEF Init, SpareInv, LiveIsTold, SpawnedAsAsked, PaperVictims, CondemnsNone,
         Serving, Alive
<1>2. IInv /\ [Next]_vars => IInv'
  <2>1. ASSUME IInv, NEW t \in Threads, Begin(t) \/ Step(t), OneRequest' PROVE SpareInv'
    BY <2>1, StepSpare
  <2>2. ASSUME IInv, [Next]_vars, OneRequest' PROVE SpareInv'
    BY <2>1, <2>2, OthersSpare DEF Next
  <2>3. QED
    BY <2>2, WorkerInvStep DEF WorkerInv
<1>3. IInv => PrepSparesLive
  BY DEF SpareInv, PaperVictims, CondemnsNone, PrepSparesLive, Serving, OwnInv, TypeOK
<1>4. QED
  BY <1>1, <1>2, <1>3, PTL DEF Spec

-----------------------------------------------------------------------------
(* What a stop leaves, with one gunicorn process                           *)

\* t has a worker that is not, or no longer, in the registry.
Carries(t, p) == \/ pc[t] \in {"publish", "register"} /\ seen[t] = p
                 \/ pc[t] \in {"term2", "term3"} /\ p \in victims[t]

\* A live worker whose keys could not be published, and that was told to stop for it.
TurnedAway(p) == pstate[p] = "stopping" /\ p \in stranded

\* Every other executing worker is registered, or carried by the request that serves its
\* session.
WorkerIsKnown ==
    \A p \in Pids : Alive(p) =>
        \/ \E g \in Gunicorns : workers[g][psess[p]] = p
        \/ \E t \in Threads : ses[t] = psess[p] /\ Carries(t, p)
        \/ TurnedAway(p)

\* A start that has passed its check finds no entry to overwrite.
NoneOverwritten ==
    \A t \in Threads : pc[t] \in {"reserve", "spawn", "publish", "register"} => Local(t) = NoPid

\* Reconciliation goes on only with an entry that has ended or fits the pid key.
EntryFitsKey ==
    \A t \in Threads : pc[t] = "rec3" /\ Alive(Local(t)) => pidKey[ses[t]] \in {Local(t), NoPid}

\* A stop waits for the entry if there is one, and deletes it when it has ended.
StopFitsEntry ==
    \A t \in Threads :
        /\ pc[t] \in {"stopL", "delL"} => Local(t) \in {seen[t], NoPid}
        /\ pc[t] = "delL" => ~Alive(Local(t))
        /\ pc[t] \in {"stopR", "delR"} => Local(t) = NoPid

\* start_session registers a process of the strategy it was asked for.
RegistersAsAsked ==
    \A t \in Threads : pc[t] \in {"publish", "register"} =>
        /\ seen[t] \in Pids /\ pstrat[seen[t]] = strat[t]
        /\ pstate[seen[t]] # "none" /\ psess[seen[t]] = ses[t]

\* A live worker is registered only after its pid was published.
PublishedFirst ==
    \A t \in Threads : pc[t] = "register" /\ strat[t] = Live =>
        pidKey[ses[t]] \in {seen[t], NoPid}

\* No older pid is ever left under the key of a live worker's session.
LiveFitsKey ==
    \A g \in Gunicorns, s \in Sessions :
        Alive(workers[g][s]) /\ pstrat[workers[g][s]] = Live =>
            pidKey[s] \in {workers[g][s], NoPid}

StopInv == /\ WorkerIsKnown /\ NoneOverwritten /\ EntryFitsKey /\ StopFitsEntry
           /\ RegistersAsAsked /\ PublishedFirst /\ LiveFitsKey

\* The steps that write the registry write the entry of t's session, and what it held is
\* dead, killed, or carried along.
LEMMA StepEntries ==
    ASSUME TypeOK, NEW t \in Threads, Begin(t) \/ Step(t)
    PROVE  /\ \A g \in Gunicorns, s \in Sessions :
                 g # GunicornOf[t] \/ s # ses[t] => workers'[g][s] = workers[g][s]
           /\ \/ UNCHANGED workers
              \/ Register(t) \/ Reconcile(t) \/ ReconcileCleanup(t) \/ ReconcileKeys(t)
              \/ TerminatePop(t) \/ StartCheck(t) \/ StopDelete(t)
              \/ StopSimulationEnsure(t)
<1> USE LocalType DEF Unregister, TypeOK, procVars, redisVars
<1>1. CASE Begin(t)
  BY <1>1 DEF Begin
<1>2. CASE Done(t)
  BY <1>2 DEF Done
<1>3. CASE Reconcile(t)
  BY <1>3 DEF Reconcile
<1>4. CASE ReconcileCleanup(t)
  BY <1>4 DEF ReconcileCleanup
<1>5. CASE ReconcileKeys(t)
  <2>1. Unregister(GunicornOf[t], ses[t]) \/ UNCHANGED workers
    BY <1>5 DEF ReconcileKeys
  <2>2. QED
    BY <1>5, <2>1
<1>6. CASE Prepare(t) \/ Ensure(t) \/ TerminateKeys(t) \/ TerminateKill(t)
  BY <1>6 DEF Prepare, Ensure, TerminateKeys, TerminateKill
<1>7. CASE TerminatePop(t)
  <2>1. Unregister(GunicornOf[t], ses[t]) \/ UNCHANGED workers
    BY <1>7 DEF TerminatePop
  <2>2. QED
    BY <1>7, <2>1
<1>8. CASE TerminateWait(t) \/ TerminateResult(t) \/ StartEnter(t) \/ StartConflict(t)
  BY <1>8 DEF TerminateWait, TerminateResult, StartEnter, StartConflict
<1>9. CASE StartCheck(t)
  BY <1>9 DEF StartCheck
<1>10. CASE Reserve(t) \/ Spawn(t) \/ SpawnFails(t) \/ Publish(t) \/ PublishFails(t)
  BY <1>10 DEF Reserve, Spawn, SpawnFails, Publish, PublishFails
<1>11. CASE Register(t)
  BY <1>11 DEF Register
<1>12. CASE StopSignal(t) \/ StopWaitLocal(t) \/ StopWaitRemote(t) \/ SignalOnly(t)
  BY <1>12 DEF StopSignal, StopWaitLocal, StopWaitRemote, SignalOnly
<1>13. CASE StopDelete(t)
  BY <1>13 DEF StopDelete
<1>14. CASE StopSimulationEnsure(t)
  BY <1>14 DEF StopSimulationEnsure
<1>15. QED
  BY <1>1, <1>2, <1>3, <1>4, <1>5, <1>6, <1>7, <1>8, <1>9, <1>10, <1>11, <1>12, <1>13,
     <1>14 DEF Step

\* While a request serves its session, the steps of others change neither its keys nor,
\* unless to remove it, its entry.
LEMMA OthersLeave ==
    ASSUME TypeOK, OneRequest, NEW t \in Threads, Begin(t) \/ Step(t),
           NEW u \in Threads \ {t}, pc[u] # "idle"
    PROVE  /\ pidKey'[ses[u]] = pidKey[ses[u]]
           /\ pc[t] # "idle" => Local(u)' = Local(u)
           /\ UNCHANGED workers => Local(u)' = Local(u)
<1>1. pc[t] # "idle" => ses[t] # ses[u]
  BY DEF OneRequest
<1>2. ses'[u] = ses[u]
  BY StepControl DEF OtherThreads
<1>3. pidKey'[ses[u]] = pidKey[ses[u]]
  <2>1. CASE Begin(t)
    BY <2>1 DEF Begin, redisVars
  <2>2. CASE pc[t] # "idle"
    BY <1>1, <2>2, LocalType, KeyWrites
  <2>3. QED
    BY <2>1, <2>2, StepControl DEF Flow
<1>4. pc[t] # "idle" => Local(u)' = Local(u)
  BY <1>1, <1>2, StepEntries, LocalType DEF Local
<1>5. UNCHANGED workers => Local(u)' = Local(u)
  BY <1>2 DEF Local
<1>6. QED
  BY <1>3, <1>4, <1>5

\* What a step of t leaves to the other requests under way, and to every process that exists.
LEMMA StepLeaves ==
    ASSUME OwnInv, OneRequest, NEW t \in Threads, Begin(t) \/ Step(t)
    PROVE  /\ \A p \in Pids : pstate[p] # "none" =>
                /\ pstate'[p] # "none" /\ (Alive(p)' => Alive(p))
                /\ psess'[p] = psess[p] /\ pstrat'[p] = pstrat[p]
                /\ Serving(p)' => Serving(p)
                /\ pstate[p] = "gone" => pstate'[p] = "gone"
           /\ \A u \in Threads \ {t} : pc[u] # "idle" =>
                /\ Local(u)' = Local(u) /\ pidKey'[ses'[u]] = pidKey[ses[u]]
                /\ Alive(Local(u))' => Alive(Local(u))
<1> USE DEF OwnInv
<1>1. OtherThreads(t) /\ Flow(t)
  BY StepControl
<1>2. ASSUME NEW p \in Pids, pstate[p] # "none"
      PROVE  /\ pstate'[p] # "none" /\ (Alive(p)' => Alive(p))
             /\ psess'[p] = psess[p] /\ pstrat'[p] = pstrat[p]
             /\ Serving(p)' => Serving(p)
             /\ pstate[p] = "gone" => pstate'[p] = "gone"
  <2>1. CASE Spawn(t)
    BY <1>2, <2>1 DEF Spawn, TypeOK, Serving, Alive
  <2>2. CASE ~Spawn(t)
    BY <1>2, <2>2, StepProcesses DEF NoRevival, Serving, Alive
  <2>3. QED
    BY <2>1, <2>2
<1>3. ASSUME NEW u \in Threads \ {t}, pc[u] # "idle"
      PROVE  /\ Local(u)' = Local(u) /\ pidKey'[ses'[u]] = pidKey[ses[u]]
             /\ Alive(Local(u))' => Alive(Local(u))
  <2>1. pc[t] = "idle" => UNCHANGED workers
    BY <1>1 DEF Flow, Begin
  <2>2. Local(u)' = Local(u) /\ pidKey'[ses'[u]] = pidKey[ses[u]]
    BY <1>1, <1>3, <2>1, OthersLeave DEF OtherThreads
  <2>3. PICK q \in Pids \cup {NoPid} : q = Local(u)
    BY LocalType
  <2>4. q # NoPid => pstate[q] # "none"
    BY <2>3, LocalType DEF RegistryOwnsChildren, Local
  <2>5. Alive(q)' => Alive(q)
    BY <1>2, <2>4 DEF Alive
  <2>6. QED
    BY <2>2, <2>3, <2>5
<1>4. QED
  BY <1>2, <1>3

LEMMA StepStop ==
    ASSUME OwnInv, OneRequest, StopInv, NEW t \in Threads, Begin(t) \/ Step(t),
           \A g, h \in Gunicorns : g = h, StrictMeta \/ "redisdown" \notin Faults
    PROVE  StopInv'
<1> USE DEF OwnInv, StopInv
<1>1. OtherThreads(t) /\ Flow(t)
  BY StepControl
<1>2. \A p \in Pids : pstate[p] # "none" =>
          /\ pstate'[p] # "none" /\ (Alive(p)' => Alive(p)) /\ psess'[p] = psess[p]
          /\ TurnedAway(p) /\ Alive(p)' => TurnedAway(p)'
  <2>1. CASE Spawn(t)
    BY <2>1 DEF Spawn, TypeOK, Alive, TurnedAway
  <2>2. CASE ~Spawn(t)
    BY <2>2, StepProcesses DEF NoRevival, Alive, TurnedAway
  <2>3. QED
    BY <2>1, <2>2
<1>3. \A u \in Threads \ {t} : pc[u] # "idle" =>
          /\ Local(u)' = Local(u) /\ pidKey'[ses'[u]] = pidKey[ses[u]]
          /\ Alive(Local(u))' => Alive(Local(u))
  <2> TAKE u \in Threads \ {t}
  <2> HAVE pc[u] # "idle"
  <2>1. pc[t] = "idle" => UNCHANGED workers
    BY <1>1 DEF Flow, Begin
  <2>2. Local(u)' = Local(u) /\ pidKey'[ses'[u]] = pidKey[ses[u]]
    BY <1>1, <2>1, OthersLeave DEF OtherThreads
  <2>3. Alive(Local(u))' => Alive(Local(u))
    <3>1. PICK q \in Pids \cup {NoPid} : q = Local(u)
      BY LocalType
    <3>2. q # NoPid => pstate[q] # "none"
      BY <3>1, LocalType DEF RegistryOwnsChildren, Local
    <3>3. Local(u)' = q
      BY <2>2, <3>1
    <3>4. Alive(q)' => Alive(q)
      BY <1>2, <3>2 DEF Alive
    <3>5. QED
      BY <3>1, <3>3, <3>4
  <2>4. QED
    BY <2>2, <2>3
<1>4. WorkerIsKnown'
  <2> SUFFICES ASSUME NEW p \in Pids, Alive(p)', ~TurnedAway(p)'
               PROVE  \/ \E g \in Gunicorns : workers'[g][psess'[p]] = p
                      \/ \E u \in Threads : ses'[u] = psess'[p] /\ Carries(u, p)'
    BY DEF WorkerIsKnown
  <2>1. CASE pstate[p] = "none"
    <3>1. Spawn(t)
      BY <2>1, StepProcesses DEF NoRevival, Alive
    <3>2. pc'[t] = "publish" /\ seen'[t] = p /\ ses'[t] = ses[t] /\ psess'[p] = ses[t]
      BY <2>1, <3>1 DEF Alive, Spawn, TypeOK, reqVars, Goto
    <3>3. QED
      BY <3>2 DEF Carries
  <2>2. CASE pstate[p] # "none"
    <3>0. psess'[p] = psess[p] /\ Alive(p) /\ ~TurnedAway(p) /\ psess[p] \in Sessions
      BY <1>2, <2>2 DEF TypeOK
    <3>1. CASE \E u \in Threads : ses[u] = psess[p] /\ Carries(u, p)
      <4>1. PICK u \in Threads : ses[u] = psess[p] /\ Carries(u, p)
        BY <3>1
      <4>2. CASE u # t
        BY <1>1, <3>0, <4>1, <4>2 DEF OtherThreads, Carries
      <4>3. CASE u = t /\ pc[t] = "register"
        <5>1. seen[t] = p /\ Register(t)
          BY <1>1, <4>1, <4>3 DEF Carries, Flow
        <5>2. workers'[GunicornOf[t]][ses[t]] = p
          BY <5>1, LocalType DEF Register, TypeOK
        <5>3. QED
          BY <3>0, <4>1, <4>3, <5>2, LocalType
      <4>4. CASE u = t /\ pc[t] = "publish"
        <5>1. seen[t] = p
          BY <4>1, <4>4 DEF Carries
        <5>2. CASE pc'[t] = "register" /\ seen'[t] = p /\ ses'[t] = ses[t]
          BY <3>0, <4>1, <4>4, <5>2 DEF Carries
        <5>3. CASE pstate' = Signalled(p) /\ stranded' = stranded \cup {p}
          BY <3>0, <5>3 DEF Signalled, TypeOK, Alive, TurnedAway
        <5>4. QED
          BY <1>1, <4>4, <5>1, <5>2, <5>3
             DEF Flow, Publish, PublishFails, Goto, TypeOK, reqVars
      <4>5. CASE u = t /\ pc[t] = "term2"
        <5>1. TerminateKeys(t) /\ p \in victims[t]
          BY <1>1, <4>1, <4>5 DEF Carries, Flow
        <5>2. pc'[t] = "term3" /\ p \in victims'[t] /\ ses'[t] = ses[t]
          BY <5>1 DEF TerminateKeys, Goto, TypeOK, reqVars
        <5>3. QED
          BY <3>0, <4>1, <4>5, <5>2 DEF Carries
      <4>6. CASE u = t /\ pc[t] = "term3"
        <5>1. TerminateKill(t) /\ p \in victims[t]
          BY <1>1, <4>1, <4>6 DEF Carries, Flow
        <5>2. QED
          BY <3>0, <5>1 DEF TerminateKill, Killed, Alive, TypeOK
      <4>7. QED
        BY <4>1, <4>2, <4>3, <4>4, <4>5, <4>6 DEF Carries
    <3>2. CASE \E g \in Gunicorns : workers[g][psess[p]] = p
      <4>1. PICK g \in Gunicorns : workers[g][psess[p]] = p
        BY <3>2
      <4>2. CASE workers'[g][psess[p]] = p
        BY <3>0, <4>2
      <4>3. CASE workers'[g][psess[p]] # p
        <5>1. g = GunicornOf[t] /\ psess[p] = ses[t] /\ Local(t) = p /\ Alive(p)
          BY <3>0, <4>1, <4>3, StepEntries DEF Local, Alive, TypeOK
        <5>2. CASE Register(t)
          BY <5>1, <5>2 DEF NoneOverwritten, Register, TypeOK
        <5>3. CASE Reconcile(t)
          BY <4>1, <4>3, <5>1, <5>3 DEF Reconcile
        <5>4. CASE ReconcileCleanup(t) \/ StopSimulationEnsure(t)
          <6>1. pstate' = Ended(p)
            BY <5>1, <5>4 DEF ReconcileCleanup, StopSimulationEnsure
          <6>2. QED
            BY <3>0, <5>1, <6>1 DEF Alive, Ended, Killed, TypeOK
        <5>5. CASE ReconcileKeys(t)
          <6>1. pc[t] = "rec3" /\ pidKey[ses[t]] # NoPid /\ ~PidAlive(pidKey[ses[t]])
            BY <4>1, <4>3, <5>5 DEF ReconcileKeys, PidRead
          <6>2. pidKey[ses[t]] = p
            BY <5>1, <6>1 DEF EntryFitsKey
          <6>3. QED
            BY <5>1, <6>1, <6>2 DEF PidAlive, Alive
        <5>6. CASE TerminatePop(t)
          <6>1. UNCHANGED workers \/ (pc'[t] = "term2" /\ victims'[t] = {p} /\ ses'[t] = ses[t])
            BY <5>1, <5>6 DEF TerminatePop, TypeOK, Goto, reqVars
          <6>2. QED
            BY <3>0, <4>1, <4>3, <5>1, <6>1 DEF Carries
        <5>7. CASE StartCheck(t)
          BY <5>1, <5>7 DEF StartCheck
        <5>8. CASE StopDelete(t)
          <6>1. pc[t] = "delL" \/ UNCHANGED workers
            BY <5>8 DEF StopDelete
          <6>2. QED
            BY <4>1, <4>3, <5>1, <6>1 DEF StopFitsEntry
        <5>9. QED
          BY <4>1, <4>3, <5>2, <5>3, <5>4, <5>5, <5>6, <5>7, <5>8, StepEntries
      <4>4. QED
        BY <4>2, <4>3
    <3>3. QED
      BY <3>0, <3>1, <3>2 DEF WorkerIsKnown
  <2>3. QED
    BY <2>1, <2>2
<1>5. NoneOverwritten'
  <2> SUFFICES ASSUME NEW u \in Threads, pc'[u] \in {"reserve", "spawn", "publish", "register"}
               PROVE  Local(u)' = NoPid
    BY DEF NoneOverwritten
  <2>1. CASE u # t
    BY <1>1, <1>3, <2>1 DEF OtherThreads, NoneOverwritten
  <2>2. CASE u = t /\ StartCheck(t)
    BY <2>2, LocalType DEF StartCheck, Unregister, Local, TypeOK, reqVars
  <2>3. CASE u = t /\ (Reserve(t) \/ Spawn(t) \/ Publish(t) \/ PublishFails(t))
    <3>1. pc[t] \in {"reserve", "spawn", "publish"} /\ UNCHANGED <<workers, ses>>
      BY <2>3 DEF Reserve, Spawn, Publish, PublishFails, reqVars
    <3>2. QED
      BY <2>3, <3>1 DEF NoneOverwritten, Local
  <2>4. QED
    BY <1>1, <2>1, <2>2, <2>3 DEF Flow
<1>6. EntryFitsKey'
  <2> SUFFICES ASSUME NEW u \in Threads, pc'[u] = "rec3", Alive(Local(u))'
               PROVE  pidKey'[ses'[u]] \in {Local(u)', NoPid}
    BY DEF EntryFitsKey
  <2>1. CASE u # t
    BY <1>1, <1>3, <2>1 DEF OtherThreads, EntryFitsKey
  <2>2. CASE u = t /\ ReconcileCleanup(t)
    <3>1. Local(t)' = NoPid
      BY <2>2, LocalType DEF ReconcileCleanup, Unregister, Local, TypeOK, reqVars
    <3>2. QED
      BY <2>2, <3>1 DEF Alive
  <2>3. CASE u = t /\ Reconcile(t)
    <3>1. CASE Unregister(GunicornOf[t], ses[t])
      <4>1. Local(t)' = NoPid
        BY <2>3, <3>1, LocalType DEF Reconcile, Unregister, Local, TypeOK, reqVars
      <4>2. QED
        BY <2>3, <4>1 DEF Alive
    <3>2. CASE pidKey[ses[t]] = Local(t) /\ UNCHANGED <<workers, pidKey>>
      BY <2>3, <3>2 DEF Reconcile, Local, reqVars
    <3>3. CASE /\ Alive(Local(t)) /\ pstrat[Local(t)] = Live /\ UNCHANGED workers
               /\ Republish(ses[t], Local(t))
      <4>1. pidKey[ses[t]] \in {Local(t), NoPid}
        BY <3>3, LocalType DEF LiveFitsKey, Local
      <4>2. pidKey'[ses[t]] \in {Local(t), NoPid}
        BY <3>3, <4>1, LocalType DEF Republish, WriteKeys, TypeOK
      <4>3. QED
        BY <2>3, <3>3, <4>2 DEF Reconcile, Local, reqVars
    <3>4. QED
      BY <2>3, <3>1, <3>2, <3>3 DEF Reconcile, Goto, TypeOK, redisVars
  <2>4. QED
    BY <1>1, <2>1, <2>2, <2>3 DEF Flow
<1>7. StopFitsEntry'
  <2> SUFFICES ASSUME NEW u \in Threads, pc'[u] \in {"stopL", "delL", "stopR", "delR"}
               PROVE  /\ pc'[u] \in {"stopL", "delL"} => Local(u)' \in {seen'[u], NoPid}
                      /\ pc'[u] = "delL" => ~Alive(Local(u))'
                      /\ pc'[u] \in {"stopR", "delR"} => Local(u)' = NoPid
    BY DEF StopFitsEntry
  <2>1. CASE u # t
    BY <1>1, <1>3, <2>1 DEF OtherThreads, StopFitsEntry
  <2>2. CASE u = t /\ StopSignal(t)
    <3>1. Local(t)' = Local(t)
      BY <2>2 DEF StopSignal, Local, reqVars
    <3>2. CASE Local(t) # NoPid
      BY <2>2, <3>1, <3>2 DEF StopSignal, Targets, Goto, TypeOK
    <3>3. CASE Local(t) = NoPid
      BY <2>2, <3>1, <3>3 DEF StopSignal, Goto, Reply, TypeOK, Alive
    <3>4. QED
      BY <3>2, <3>3
  <2>3. CASE u = t /\ StopWaitLocal(t)
    <3>1. /\ Local(t)' = Local(t) /\ Local(t) \in {seen[t], NoPid} /\ seen'[t] = seen[t]
          /\ pstate' = Ended(seen[t]) /\ pc'[t] = "delL" /\ seen[t] \in Pids \cup {NoPid}
      BY <2>3 DEF StopWaitLocal, Local, reqVars, StopFitsEntry, Goto, TypeOK
    <3>2. ~Alive(seen[t])'
      BY <3>1 DEF Ended, Killed, Polled, Alive, TypeOK
    <3>3. QED
      BY <2>3, <3>1, <3>2 DEF Alive
  <2>4. CASE u = t /\ StopWaitRemote(t)
    BY <2>4 DEF StopWaitRemote, Local, reqVars, StopFitsEntry, Goto, TypeOK
  <2>5. QED
    BY <1>1, <2>1, <2>2, <2>3, <2>4 DEF Flow
<1>8. RegistersAsAsked'
  <2> SUFFICES ASSUME NEW u \in Threads, pc'[u] \in {"publish", "register"}
               PROVE  /\ seen'[u] \in Pids /\ pstrat'[seen'[u]] = strat'[u]
                      /\ pstate'[seen'[u]] # "none" /\ psess'[seen'[u]] = ses'[u]
    BY DEF RegistersAsAsked
  <2>1. CASE u # t
    BY <1>1, <2>1, StepLeaves DEF OtherThreads, RegistersAsAsked
  <2>2. CASE u = t /\ pc'[t] = "publish"
    <3>1. Spawn(t)
      BY <1>1, <2>2 DEF Flow
    <3>2. PICK p \in Pids :
            /\ pstate' = [q \in Pids |->
                            IF q = p THEN "running"
                            ELSE IF pstate[q] = "zombie" /\ parent[q] = GunicornOf[t]
                                 THEN "gone" ELSE pstate[q]]
            /\ psess' = [psess EXCEPT ![p] = ses[t]]
            /\ pstrat' = [pstrat EXCEPT ![p] = strat[t]]
            /\ seen' = [seen EXCEPT ![t] = p]
      BY <3>1 DEF Spawn
    <3>3. UNCHANGED <<strat, ses>>
      BY <3>1 DEF Spawn, reqVars
    <3>4. QED
      BY <2>2, <3>2, <3>3 DEF TypeOK
  <2>3. CASE u = t /\ (Publish(t) \/ PublishFails(t))
    <3>1. pc[t] = "publish" /\ UNCHANGED <<strat, ses, seen>>
      BY <2>3 DEF Publish, PublishFails, reqVars
    <3>2. QED
      BY <2>3, <3>1, StepLeaves DEF RegistersAsAsked
  <2>4. QED
    BY <1>1, <2>1, <2>2, <2>3 DEF Flow
<1>9. PublishedFirst'
  <2> SUFFICES ASSUME NEW u \in Threads, pc'[u] = "register", strat'[u] = Live
               PROVE  pidKey'[ses'[u]] \in {seen'[u], NoPid}
    BY DEF PublishedFirst
  <2>1. CASE u # t
    BY <1>1, <1>3, <2>1 DEF OtherThreads, PublishedFirst
  <2>2. CASE u = t /\ Publish(t)
    BY <2>2, LocalType DEF Publish, WriteKeys, TypeOK, reqVars
  <2>3. CASE u = t /\ PublishFails(t)
    <3>1. StrictMeta /\ strat[t] = Live
      BY <2>3 DEF PublishFails, Down, reqVars
    <3>2. QED
      BY <2>3, <3>1, ControlHelpers DEF PublishFails
  <2>4. QED
    BY <1>1, <2>1, <2>2, <2>3 DEF Flow
<1>10. LiveFitsKey'
  <2> SUFFICES ASSUME NEW g \in Gunicorns, NEW s \in Sessions, NEW w \in Pids,
                      workers'[g][s] = w, Alive(w)', pstrat'[w] = Live
               PROVE  pidKey'[s] \in {w, NoPid}
    <3>1. \A g \in Gunicorns, s \in Sessions : workers[g][s]' \in Pids \cup {NoPid}
      <4>1. CASE Register(t)
        BY <4>1, LocalType DEF Register, TypeOK
      <4>2. CASE RegistryShrinks
        BY <4>2 DEF RegistryShrinks, TypeOK
      <4>3. QED
        BY <4>1, <4>2, StepProcesses
    <3>2. QED
      BY <3>1 DEF LiveFitsKey, Alive
  <2>1. CASE Register(t) /\ g = GunicornOf[t] /\ s = ses[t]
    <3>1. w = seen[t] /\ pc[t] = "register" /\ pidKey' = pidKey
      BY <2>1 DEF Register, TypeOK, redisVars
    <3>2. strat[t] = Live
      BY <3>1, StepLeaves DEF RegistersAsAsked
    <3>3. QED
      BY <2>1, <3>1, <3>2 DEF PublishedFirst
  <2>2. CASE ~(Register(t) /\ g = GunicornOf[t] /\ s = ses[t])
    <3>1. workers[g][s] = w
      <4>1. CASE Register(t)
        BY <2>2, <4>1, StepEntries
      <4>2. CASE RegistryShrinks
        BY <4>2 DEF RegistryShrinks
      <4>3. QED
        BY <4>1, <4>2, StepProcesses
    <3>2. Alive(w) /\ pstrat[w] = Live
      BY <3>1, StepLeaves DEF RegistryOwnsChildren
    <3>3. pidKey[s] \in {w, NoPid}
      BY <3>1, <3>2 DEF LiveFitsKey
    <3>4. s = ses[t] => Local(t) = w
      BY <3>1, LocalType DEF Local
    <3>5. Publish(t) \/ PublishFails(t) => Local(t) = NoPid
      BY DEF Publish, PublishFails, NoneOverwritten
    <3>6. QED
      BY <3>3, <3>4, <3>5, KeyWrites, LocalType
  <2>3. QED
    BY <2>1, <2>2
<1>11. QED
  BY <1>4, <1>5, <1>6, <1>7, <1>8, <1>9, <1>10

\* The monitor ends what it drops from the registry; keys that are lost fit any entry.
LEMMA OthersStop ==
    ASSUME OwnInv, StopInv,
           \/ \E g \in Gunicorns : MonitorScan(g) \/ MonitorCleanup(g)
           \/ \E p \in Pids : WorkerExit(p)
           \/ \E s \in Sessions : KeyLost(s)
    PROVE  StopInv'
<1> USE DEF OwnInv, StopInv
<1>1. /\ NoRevival /\ RegistryShrinks
      /\ UNCHANGED <<psess, pstrat, pc, ses, strat, seen, victims, stranded>>
      /\ \A s \in Sessions : pidKey'[s] \in {pidKey[s], NoPid}
  <2>1. \A s, r \in Sessions : KeyLost(r) => pidKey'[s] \in {pidKey[s], NoPid}
    BY DEF KeyLost, TypeOK
  <2>2. QED
    BY <2>1, OthersProcesses
<1>2. \A u \in Threads : /\ Local(u)' \in {Local(u), NoPid}
                         /\ Alive(Local(u))' => Alive(Local(u)) /\ Local(u)' = Local(u)
  <2> TAKE u \in Threads
  <2>1. Local(u)' \in {Local(u), NoPid} /\ Local(u) \in Pids \cup {NoPid}
    BY <1>1, LocalType DEF RegistryShrinks, Local
  <2>2. PICK q \in Pids \cup {NoPid} : q = Local(u)
    BY <2>1
  <2>3. Alive(q)' => Alive(q)
    BY <1>1 DEF NoRevival, Alive
  <2>4. Local(u)' = NoPid => ~Alive(Local(u))'
    BY DEF Alive
  <2>5. QED
    BY <2>1, <2>2, <2>3, <2>4
<1>3. WorkerIsKnown'
  <2> SUFFICES ASSUME NEW p \in Pids, Alive(p)', ~TurnedAway(p)'
               PROVE  \/ \E g \in Gunicorns : workers'[g][psess[p]] = p
                      \/ \E u \in Threads : ses[u] = psess[p] /\ Carries(u, p)
    BY <1>1 DEF WorkerIsKnown, Carries
  <2>1. Alive(p) /\ ~TurnedAway(p)
    BY <1>1 DEF NoRevival, Alive, TurnedAway, TypeOK
  <2>2. CASE \E g \in Gunicorns : workers[g][psess[p]] = p
    <3>1. PICK g \in Gunicorns : workers[g][psess[p]] = p
      BY <2>2
    <3>2. workers'[g][psess[p]] = p
      <4>1. CASE UNCHANGED workers
        BY <3>1, <4>1
      <4>2. CASE \E h \in Gunicorns : MonitorCleanup(h)
        <5>1. PICK h \in Gunicorns, s \in Sessions :
                 pstate' = Ended(workers[h][s]) /\ Unregister(h, s)
          BY <4>2 DEF MonitorCleanup, TypeOK
        <5>2. h = g /\ s = psess[p] => ~Alive(p)'
          BY <2>1, <3>1, <5>1 DEF Ended, Killed, Alive, TypeOK
        <5>3. psess[p] \in Sessions
          BY DEF TypeOK
        <5>4. QED
          BY <3>1, <5>1, <5>2, <5>3 DEF Unregister, TypeOK
      <4>3. QED
        BY <4>1, <4>2 DEF MonitorScan, WorkerExit, KeyLost
    <3>3. QED
      BY <3>2
  <2>3. QED
    BY <2>1, <2>2 DEF WorkerIsKnown
<1>4. NoneOverwritten'
  BY <1>1, <1>2 DEF NoneOverwritten
<1>5. EntryFitsKey'
  BY <1>1, <1>2, LocalType DEF EntryFitsKey
<1>6. StopFitsEntry'
  BY <1>1, <1>2 DEF StopFitsEntry
<1>7. RegistersAsAsked'
  BY <1>1 DEF RegistersAsAsked, NoRevival
<1>8. PublishedFirst'
  BY <1>1, LocalType DEF PublishedFirst
<1>9. LiveFitsKey'
  <2> SUFFICES ASSUME NEW g \in Gunicorns, NEW s \in Sessions, Alive(workers[g][s])',
                      pstrat'[workers'[g][s]] = Live
               PROVE  pidKey'[s] \in {workers'[g][s], NoPid}
    BY DEF LiveFitsKey
  <2>1. PICK w \in Pids : w = workers'[g][s] /\ w = workers[g][s]
    BY <1>1 DEF RegistryShrinks, Alive, TypeOK
  <2>2. Alive(w) /\ pstrat[w] = Live
    BY <1>1, <2>1 DEF NoRevival, Alive
  <2>3. QED
    BY <1>1, <2>1, <2>2 DEF LiveFitsKey
<1>10. QED
  BY <1>3, <1>4, <1>5, <1>6, <1>7, <1>8, <1>9

\* Who answers that the session is stopped, and what it has seen.
LEMMA SaysStopped ==
    ASSUME OwnInv, OneRequest, StopInv, NEW t \in Threads, Begin(t) \/ Step(t),
           \A g, h \in Gunicorns : g = h,
           pc[t] # "reply", pc'[t] = "reply", answer'[t] = "stopped",
           NEW p \in Pids, psess[p] = ses[t]
    PROVE  pstate'[p] # "running"
<1> USE DEF OwnInv, StopInv
<1>1. StopDelete(t) \/ TerminateResult(t)
  <2> USE LocalType DEF Goto, Reply, CallReconcile, AfterTerminate, TypeOK
  <2>1. CASE Begin(t)
    <3>1. pc'[t] \in {"rec1", "start0", "signal", "stop1"}
      BY <2>1, Requested
    <3>2. QED
      BY <3>1
  <2>2. CASE Done(t) \/ Reconcile(t) \/ ReconcileCleanup(t) \/ ReconcileKeys(t)
    BY <2>2 DEF Done, Reconcile, ReconcileCleanup, ReconcileKeys, RetPcs
  <2>3. CASE Prepare(t) \/ Ensure(t)
    BY <2>3 DEF Prepare, Ensure
  <2>4. CASE TerminatePop(t)
    BY <2>4 DEF TerminatePop
  <2>5. CASE TerminateKeys(t) \/ TerminateKill(t) \/ TerminateWait(t)
    BY <2>5 DEF TerminateKeys, TerminateKill, TerminateWait
  <2>6. CASE StartEnter(t) \/ StartConflict(t)
    BY <2>6 DEF StartEnter, StartConflict
  <2>7. CASE StartCheck(t) \/ Reserve(t) \/ Spawn(t)
    BY <2>7 DEF StartCheck, Reserve, Spawn
  <2>8. CASE SpawnFails(t) \/ Publish(t) \/ PublishFails(t) \/ Register(t)
    BY <2>8 DEF SpawnFails, Publish, PublishFails, Register
  <2>9. CASE StopSignal(t) \/ StopWaitLocal(t) \/ StopWaitRemote(t)
    BY <2>9 DEF StopSignal, StopWaitLocal, StopWaitRemote
  <2>10. CASE StopSimulationEnsure(t) \/ SignalOnly(t)
    BY <2>10 DEF StopSimulationEnsure, SignalOnly
  <2>11. QED
    BY <2>1, <2>2, <2>3, <2>4, <2>5, <2>6, <2>7, <2>8, <2>9, <2>10 DEF Step
<1>2. pc[t] \in {"delL", "delR", "term5"} /\ UNCHANGED pstate
  BY <1>1 DEF StopDelete, TerminateResult, procVars
\* A worker of the session that goes on is in this process's registry: nobody else serves it.
<1>3. ASSUME pstate[p] = "running" PROVE Local(t) = p
  <2>1. ~\E u \in Threads : ses[u] = psess[p] /\ Carries(u, p)
    BY <1>2 DEF Carries, OneRequest
  <2>2. PICK g \in Gunicorns : workers[g][psess[p]] = p
    BY <1>3, <2>1 DEF WorkerIsKnown, TurnedAway, Alive
  <2>3. QED
    BY <2>2, LocalType DEF Local
<1>4. CASE StopDelete(t)
  BY <1>2, <1>3, <1>4 DEF StopDelete, StopFitsEntry, Alive, TypeOK
<1>5. CASE TerminateResult(t)
  <2>1. answer'[t] = "stopped" => Local(t) = NoPid
    BY <1>5 DEF TerminateResult, AfterTerminate, Reply, Goto, TypeOK
  <2>2. QED
    BY <1>2, <1>3, <2>1, RegistryAssumption
<1>6. QED
  BY <1>1, <1>4, <1>5

\* What holds with one gunicorn process, also when keys are lost.
LocalInv == OwnInv /\ OneRequest /\ StopInv

LEMMA LocalInvInit == Init => LocalInv
<1>1. ASSUME Init PROVE OneRequest /\ StopInv
  BY <1>1 DEF Init, OneRequest, StopInv, WorkerIsKnown, NoneOverwritten, EntryFitsKey,
              StopFitsEntry, RegistersAsAsked, PublishedFirst, LiveFitsKey, Alive
<1>2. QED
  BY <1>1, WorkerInvInit DEF LocalInv

\* Without a crash every step is a request's, the monitor's, a worker's end or a lost key.
LEMMA NoCrash ==
    ASSUME "crash" \notin Faults, Next
    PROVE  \/ \E t \in Threads : Begin(t) \/ Step(t)
           \/ \E g \in Gunicorns : MonitorScan(g) \/ MonitorCleanup(g)
           \/ \E p \in Pids : WorkerExit(p)
           \/ \E s \in Sessions : KeyLost(s)
<1>1. ~\E g \in Gunicorns : GunicornCrash(g)
  BY DEF GunicornCrash
<1>2. QED
  BY <1>1 DEF Next

LEMMA LocalInvStep ==
    ASSUME Serialized, "crash" \notin Faults, \A g, h \in Gunicorns : g = h,
           StrictMeta \/ "redisdown" \notin Faults, LocalInv, [Next]_vars
    PROVE  LocalInv'
<1> USE DEF LocalInv
<1>1. CASE UNCHANGED vars
  <2>1. OneRequest' /\ StopInv'
    BY <1>1 DEF vars, OneRequest, StopInv, WorkerIsKnown, NoneOverwritten, EntryFitsKey,
                StopFitsEntry, RegistersAsAsked, PublishedFirst, LiveFitsKey, Carries, Alive,
                Local, TurnedAway
  <2>2. QED
    BY <2>1, NextOwn
<1>2. ASSUME NEW t \in Threads, Begin(t) \/ Step(t) PROVE OneRequest' /\ StopInv'
  BY <1>2, StepOneRequest, StepStop DEF OwnInv
<1>3. ASSUME \/ \E g \in Gunicorns : MonitorScan(g) \/ MonitorCleanup(g)
             \/ \E p \in Pids : WorkerExit(p)
             \/ \E s \in Sessions : KeyLost(s)
      PROVE  OneRequest' /\ StopInv'
  <2>1. OneRequest'
    BY <1>3, OthersProcesses DEF OwnInv, OneRequest
  <2>2. QED
    BY <1>3, <2>1, OthersStop
<1>4. QED
  BY <1>1, <1>2, <1>3, NoCrash, NextOwn

\* With one gunicorn process, which is not restarted, and one request per session at a time,
\* a stop that reports success leaves no worker of the session trading: not when keys are
\* lost or workers hang and end meanwhile.  Under EOD_STRICT_REDIS_META Redis may fail too:
\* deletions that are lost and reads that return nothing hide no worker, because a live
\* worker is registered only over its own pid key.  Without that setting a stale pid key
\* makes reconciliation end and drop a live worker: registry_local with StrictMeta FALSE
\* shows it.
THEOREM NoneIsLeft ==
    ASSUME Serialized, "crash" \notin Faults, \A g, h \in Gunicorns : g = h,
           StrictMeta \/ "redisdown" \notin Faults
    PROVE  Spec => StopLeavesNone
<1>1. LocalInv /\ [Next]_vars => LocalInv'
  BY LocalInvStep
<1>2. LocalInv /\ [Next]_vars =>
         [\A t \in Threads :
            pc[t] # "reply" /\ pc'[t] = "reply" /\ answer'[t] = "stopped" =>
               \A p \in Pids : psess[p] = ses[t] => pstate'[p] # "running"]_vars
  <2> SUFFICES ASSUME LocalInv, Next, NEW t \in Threads,
                      pc[t] # "reply", pc'[t] = "reply", answer'[t] = "stopped",
                      NEW p \in Pids, psess[p] = ses[t]
               PROVE  pstate'[p] # "running"
    OBVIOUS
  <2>1. Begin(t) \/ Step(t)
    <3>1. ASSUME NEW u \in Threads, Begin(u) \/ Step(u) PROVE u = t
      BY <3>1, StepControl DEF LocalInv, OwnInv, OtherThreads
    <3>2. CASE \/ \E g \in Gunicorns : MonitorScan(g) \/ MonitorCleanup(g)
               \/ \E q \in Pids : WorkerExit(q)
               \/ \E s \in Sessions : KeyLost(s)
      BY <3>2, OthersProcesses DEF LocalInv, OwnInv
    <3>3. QED
      BY <3>1, <3>2, NoCrash
  <2>2. QED
    BY <2>1, SaysStopped DEF LocalInv
<1>3. QED
  BY LocalInvInit, <1>1, <1>2, PTL DEF Spec, StopLeavesNone

-----------------------------------------------------------------------------
(* One worker per session, with one gunicorn process                       *)

\* At the last step before process.start() no worker of the session serves: none is
\* registered, and nobody else carries one.
LEMMA OneWorkerStep ==
    ASSUME LocalInv, AtMostOneWorker, NEW t \in Threads, Begin(t) \/ Step(t),
           \A g, h \in Gunicorns : g = h
    PROVE  AtMostOneWorker'
<1> USE DEF LocalInv, OwnInv, StopInv
<1>1. CASE Spawn(t)
  <2>a. PICK p \in Pids :
          /\ psess' = [psess EXCEPT ![p] = ses[t]]
          /\ pstate' = [q \in Pids |->
                IF q = p THEN "running"
                ELSE IF pstate[q] = "zombie" /\ parent[q] = GunicornOf[t] THEN "gone"
                ELSE pstate[q]]
    BY <1>1, Zenon DEF Spawn
  <2>0. \A q \in Pids \ {p} : pstate'[q] \in {pstate[q], "gone"}
    BY <2>a, Zenon
  <2>1. /\ psess' = [psess EXCEPT ![p] = ses[t]]
        /\ \A q \in Pids \ {p} : Alive(q)' => Alive(q)
    BY <2>a, <2>0 DEF Alive
  <2>2. ASSUME NEW q \in Pids, Serving(q), psess[q] = ses[t] PROVE FALSE
    <3>1. pc[t] = "spawn" /\ Local(t) = NoPid
      BY <1>1 DEF Spawn, NoneOverwritten
    <3>2. ~TurnedAway(q) /\ Alive(q)
      BY <2>2 DEF TurnedAway, Serving
    <3>3. CASE \E g \in Gunicorns : workers[g][psess[q]] = q
      BY <2>2, <3>1, <3>3, LocalType DEF Local
    <3>4. CASE \E u \in Threads : ses[u] = psess[q] /\ Carries(u, q)
      BY <2>2, <3>1, <3>4 DEF Carries, OneRequest
    <3>5. QED
      BY <3>2, <3>3, <3>4 DEF WorkerIsKnown
  <2>3. stranded' = stranded
    BY <1>1 DEF Spawn
  <2>4. \A q \in Pids \ {p} : Serving(q)' =>
             Serving(q) /\ psess'[q] = psess[q] /\ psess[q] # ses[t]
    BY <2>1, <2>2, <2>3 DEF Serving, TypeOK
  <2>5. psess'[p] = ses[t]
    BY <2>1 DEF TypeOK
  <2>6. QED
    BY <2>4, <2>5 DEF AtMostOneWorker, Serving
<1>2. CASE ~Spawn(t)
  BY <1>2, StepProcesses, ServingBefore DEF AtMostOneWorker, Serving
<1>3. QED
  BY <1>1, <1>2

LEMMA OneWorkerHere ==
    ASSUME Serialized, "crash" \notin Faults, \A g, h \in Gunicorns : g = h,
           StrictMeta \/ "redisdown" \notin Faults, LocalInv, AtMostOneWorker, [Next]_vars
    PROVE  AtMostOneWorker'
<1>1. CASE UNCHANGED vars
  BY <1>1 DEF vars, AtMostOneWorker, Alive
<1>2. CASE \E t \in Threads : Begin(t) \/ Step(t)
  BY <1>2, OneWorkerStep
<1>3. CASE \/ \E g \in Gunicorns : MonitorScan(g) \/ MonitorCleanup(g)
           \/ \E p \in Pids : WorkerExit(p)
           \/ \E s \in Sessions : KeyLost(s)
  <2>1. NoRevival /\ UNCHANGED <<psess, stranded>>
    BY <1>3, OthersProcesses DEF LocalInv, OwnInv
  <2>2. QED
    BY <2>1, ServingBefore DEF LocalInv, OwnInv, AtMostOneWorker, Serving
<1>4. QED
  BY <1>1, <1>2, <1>3, NoCrash

\* With one gunicorn process, which is not restarted, and one request per session at a time,
\* the registry alone keeps a session to one worker: keys may expire or be evicted and
\* workers may hang, and with EOD_STRICT_REDIS_META calls to Redis may fail.  Two processes
\* need the keys for it (OneWorkerPerSession).
THEOREM OneWorkerInOneProcess ==
    ASSUME Serialized, "crash" \notin Faults, \A g, h \in Gunicorns : g = h,
           StrictMeta \/ "redisdown" \notin Faults
    PROVE  Spec => []AtMostOneWorker
<1> DEFINE IInv == LocalInv /\ AtMostOneWorker
<1>1. Init => IInv
  BY LocalInvInit DEF Init, AtMostOneWorker, Alive
<1>2. IInv /\ [Next]_vars => IInv'
  BY LocalInvStep, OneWorkerHere
<1>3. QED
  BY <1>1, <1>2, PTL DEF Spec

-----------------------------------------------------------------------------
(* No live worker is terminated for a start, with one gunicorn process     *)

\* A pid key names a worker of its session.
KeyFitsSession ==
    \A s \in Sessions : \A p \in Pids :
        pidKey[s] = p => psess[p] = s /\ pstate[p] # "none"

\* A termination has taken the session's entry before it kills, and what it kills is a paper
\* worker; so is what reconciliation ends.
KillsPaper ==
    \A t \in Threads :
        /\ pc[t] \in {"term2", "term3"} =>
             /\ Local(t) = NoPid
             /\ \A p \in victims[t] : pstate[p] # "none" /\ (Serving(p) => pstrat[p] = Paper)
        /\ pc[t] = "rec2" /\ Alive(Local(t)) => pstrat[Local(t)] = Paper

SpareHere == KeyFitsSession /\ KillsPaper

\* The keys name a worker of their session.
LEMMA StepKeyFits ==
    ASSUME LocalInv, SpareHere, NEW t \in Threads, Begin(t) \/ Step(t)
    PROVE  KeyFitsSession'
<1> USE DEF LocalInv, OwnInv, StopInv, SpareHere
<1> SUFFICES ASSUME NEW s \in Sessions, NEW p \in Pids, pidKey'[s] = p
             PROVE  psess'[p] = s /\ pstate'[p] # "none"
  BY DEF KeyFitsSession
<1>1. psess[p] = s /\ pstate[p] # "none"
  <2>1. CASE pidKey[s] = p
    BY <2>1 DEF KeyFitsSession
  <2>2. CASE (Publish(t) \/ PublishFails(t)) /\ s = ses[t] /\ p = seen[t]
    BY <2>2 DEF Publish, PublishFails, RegistersAsAsked
  <2>3. CASE s = ses[t] /\ p = Local(t)
    BY <2>3, LocalType DEF RegistryOwnsChildren, Local
  <2>4. pidKey'[s] # NoPid
    BY LocalType
  <2>5. QED
    BY <2>1, <2>2, <2>3, <2>4, KeyWrites
<1>2. QED
  BY <1>1, StepLeaves

\* What a termination finds under the pid key it has popped before, or is no serving worker.
LEMMA StepKills ==
    ASSUME LocalInv, SpareHere, NEW t \in Threads, Begin(t) \/ Step(t),
           \A g, h \in Gunicorns : g = h
    PROVE  KillsPaper'
<1> USE DEF LocalInv, OwnInv, StopInv, SpareHere
<1>1. OtherThreads(t) /\ Flow(t)
  BY StepControl
<1>2. SUFFICES ASSUME NEW u \in Threads
               PROVE  /\ pc'[u] \in {"term2", "term3"} =>
                           /\ Local(u)' = NoPid
                           /\ \A p \in victims'[u] :
                                pstate'[p] # "none" /\ (Serving(p)' => pstrat'[p] = Paper)
                      /\ pc'[u] = "rec2" /\ Alive(Local(u))' => pstrat'[Local(u)'] = Paper
  BY DEF KillsPaper
<1>3. CASE u # t
  <2>1. pc'[u] = pc[u] /\ ses'[u] = ses[u] /\ victims'[u] = victims[u]
    BY <1>1, <1>3 DEF OtherThreads
  <2>2. ASSUME pc[u] \in {"term2", "term3"}
        PROVE  /\ Local(u)' = NoPid
               /\ \A p \in victims[u] :
                    pstate'[p] # "none" /\ (Serving(p)' => pstrat'[p] = Paper)
    BY <1>3, <2>2, StepLeaves DEF KillsPaper, TypeOK
  <2>3. ASSUME pc[u] = "rec2", Alive(Local(u))' PROVE pstrat'[Local(u)'] = Paper
    <3>1. Local(u)' = Local(u) /\ Alive(Local(u))
      BY <1>3, <2>3, StepLeaves
    <3>2. PICK p \in Pids : p = Local(u)
      BY <3>1, LocalType DEF Alive
    <3>3. pstate[p] # "none" /\ pstrat[p] = Paper
      BY <2>3, <3>1, <3>2 DEF KillsPaper, Alive
    <3>4. QED
      BY <3>1, <3>2, <3>3, StepLeaves
  <2>4. QED
    BY <2>1, <2>2, <2>3
<1>4. CASE u = t /\ pc'[t] = "term2"
  <2>1. TerminatePop(t)
    BY <1>1, <1>4 DEF Flow
  <2>2. PICK m \in MetaRead(ses[t]) :
          IF HasLiveWorker(t, m)
          THEN AfterTerminate(t, FALSE) /\ UNCHANGED <<workers, pstate, victims>>
          ELSE /\ victims' = [victims EXCEPT ![t] =
                                IF Alive(Local(t)) THEN {Local(t)} ELSE {}]
               /\ Unregister(GunicornOf[t], ses[t])
    BY <2>1 DEF TerminatePop
  <2>3. /\ ~HasLiveWorker(t, m)
        /\ victims'[t] = IF Alive(Local(t)) THEN {Local(t)} ELSE {}
        /\ Unregister(GunicornOf[t], ses[t]) /\ ses'[t] = ses[t]
    <3>1. ~HasLiveWorker(t, m)
      BY <1>4, <2>2, ControlHelpers
    <3>2. UNCHANGED ses
      BY <2>1 DEF TerminatePop, reqVars
    <3>3. QED
      BY <2>2, <3>1, <3>2 DEF TypeOK
  <2>4. Local(t)' = NoPid
    BY <2>3, LocalType DEF Unregister, Local, TypeOK
  <2>5. ASSUME NEW p \in victims'[t]
        PROVE  pstate'[p] # "none" /\ pstrat'[p] = Paper
    <3>1. p = Local(t) /\ Alive(p) /\ p \in Pids
      BY <2>3, <2>5, LocalType DEF Alive
    <3>2. pstate[p] # "none" /\ pstrat[p] = Paper
      BY <2>3, <3>1 DEF HasLiveWorker, Alive, TypeOK
    <3>3. QED
      BY <3>1, <3>2, StepLeaves
  <2>6. QED
    BY <1>4, <2>4, <2>5
<1>5. CASE u = t /\ pc'[t] = "term3"
  <2>1. TerminateKeys(t)
    BY <1>1, <1>5 DEF Flow
  <2>2. /\ pc[t] = "term2" /\ Local(t)' = Local(t)
        /\ victims'[t] \subseteq victims[t] \cup ({pidKey[ses[t]]} \ {NoPid})
    BY <2>1 DEF TerminateKeys, PidRead, TypeOK, reqVars, Local
  <2>3. ASSUME NEW p \in Pids, p = pidKey[ses[t]], Serving(p) PROVE pstrat[p] = Paper
    <3>1. psess[p] = ses[t]
      BY <2>3, LocalType DEF KeyFitsSession
    <3>2. Alive(p) /\ ~TurnedAway(p)
      BY <2>3 DEF Serving, TurnedAway
    <3>3. CASE \E g \in Gunicorns : workers[g][psess[p]] = p
      BY <2>2, <3>1, <3>3, LocalType DEF KillsPaper, Local
    <3>4. CASE \E v \in Threads : ses[v] = psess[p] /\ Carries(v, p)
      BY <2>2, <2>3, <3>1, <3>4 DEF Carries, OneRequest, KillsPaper
    <3>5. QED
      BY <3>2, <3>3, <3>4 DEF WorkerIsKnown
  <2>4. ASSUME NEW p \in victims'[t]
        PROVE  /\ p \in Pids /\ pstate[p] # "none"
               /\ Serving(p) => pstrat[p] = Paper
    BY <2>2, <2>3, <2>4, LocalType DEF KillsPaper, KeyFitsSession, TypeOK
  <2>5. QED
    BY <1>5, <2>2, <2>4, StepLeaves DEF KillsPaper
<1>6. CASE u = t /\ pc'[t] = "rec2"
  <2>1. Reconcile(t)
    BY <1>1, <1>6 DEF Flow
  <2>2. SUFFICES ASSUME Alive(Local(t))' PROVE pstrat'[Local(t)'] = Paper
    BY <1>6
  <2>3. /\ Alive(Local(t)) /\ Local(t)' = Local(t) /\ UNCHANGED pstrat
        /\ pidKey[ses[t]] \in {Local(t), NoPid} => pstrat[Local(t)] = Paper
    <3>1. PICK p \in PidRead(ses[t]) \ {Local(t)} : p = NoPid => pstrat[Local(t)] = Paper
      BY <1>6, <2>1, ControlHelpers DEF Reconcile
    <3>2. Alive(Local(t)) /\ Local(t)' = Local(t) /\ UNCHANGED pstrat
      BY <1>6, <2>1, ControlHelpers DEF Reconcile, Local, reqVars
    <3>3. QED
      BY <3>1, <3>2 DEF PidRead
  <2>4. Local(t) \in Pids /\ pstrat[Local(t)] \in {Paper, Live}
    BY <2>3, LocalType DEF Alive, TypeOK
  <2>5. pstrat[Local(t)] = Live => pidKey[ses[t]] \in {Local(t), NoPid}
    BY <2>3, LocalType DEF LiveFitsKey, Local
  <2>6. QED
    BY <2>3, <2>4, <2>5
<1>7. QED
  BY <1>3, <1>4, <1>5, <1>6

\* The monitor, ending workers and lost keys only remove what the invariant speaks of.
LEMMA OthersSpareHere ==
    ASSUME OwnInv, SpareHere,
           \/ \E g \in Gunicorns : MonitorScan(g) \/ MonitorCleanup(g)
           \/ \E p \in Pids : WorkerExit(p)
           \/ \E s \in Sessions : KeyLost(s)
    PROVE  SpareHere'
<1> USE DEF OwnInv, SpareHere
<1>1. /\ NoRevival /\ RegistryShrinks
      /\ UNCHANGED <<psess, pstrat, pc, op, ses, strat, ret, seen, victims, stranded>>
      /\ \A s \in Sessions : pidKey'[s] \in {pidKey[s], NoPid}
  <2>1. \A s, r \in Sessions : KeyLost(r) => pidKey'[s] \in {pidKey[s], NoPid}
    BY DEF KeyLost, TypeOK
  <2>2. QED
    BY <2>1, OthersProcesses
<1>2. \A u \in Threads : Alive(Local(u))' =>
          Alive(Local(u)) /\ Local(u)' = Local(u) /\ Local(u) \in Pids
  <2> SUFFICES ASSUME NEW u \in Threads, Alive(Local(u))'
               PROVE  Alive(Local(u)) /\ Local(u)' = Local(u) /\ Local(u) \in Pids
    OBVIOUS
  <2>1. Local(u)' \in {Local(u), NoPid} /\ Local(u) \in Pids \cup {NoPid}
    BY <1>1, LocalType DEF RegistryShrinks, Local
  <2>2. PICK q \in Pids : q = Local(u) /\ q = Local(u)'
    BY <2>1 DEF Alive
  <2>3. Alive(q)' => Alive(q)
    BY <1>1 DEF NoRevival, Alive
  <2>4. QED
    BY <2>2, <2>3
<1>3. \A p \in Pids : /\ Serving(p)' => Serving(p)
                      /\ Alive(p)' => Alive(p)
                      /\ pstate[p] # "none" => pstate'[p] # "none"
                      /\ pstate[p] = "gone" => pstate'[p] = "gone"
  BY <1>1 DEF NoRevival, Serving, Alive
<1>4. KeyFitsSession'
  BY <1>1, <1>3 DEF KeyFitsSession
<1>5. KillsPaper'
  <2>1. \A u \in Threads : Local(u) = NoPid => Local(u)' = NoPid
    BY <1>1, LocalType DEF RegistryShrinks, Local
  <2>2. \A u \in Threads : \A p \in victims[u] : p \in Pids
    BY DEF TypeOK
  <2>3. QED
    BY <1>1, <1>2, <1>3, <2>1, <2>2 DEF KillsPaper
<1>6. QED
  BY <1>4, <1>5

\* With one gunicorn process, which is not restarted, and one request per session at a time,
\* no live worker is killed for a start, nor by reconciliation, even when the keys that tell
\* its strategy are gone: the registry tells it.  If calls to Redis may fail, it takes
\* EOD_STRICT_REDIS_META: a live worker that could not be published must not be registered.
THEOREM LiveIsSparedInOneProcess ==
    ASSUME Serialized, "crash" \notin Faults, \A g, h \in Gunicorns : g = h,
           StrictMeta \/ "redisdown" \notin Faults
    PROVE  Spec => []PrepSparesLive
<1> DEFINE IInv == LocalInv /\ SpareHere
<1>1. Init => IInv
  BY LocalInvInit
     DEF Init, SpareHere, KeyFitsSession, KillsPaper
<1>2. IInv /\ [Next]_vars => IInv'
  <2>1. ASSUME IInv, NEW t \in Threads, Begin(t) \/ Step(t) PROVE SpareHere'
    BY <2>1, StepKeyFits, StepKills DEF SpareHere
  <2>2. ASSUME IInv, UNCHANGED vars PROVE SpareHere'
    BY <2>2 DEF vars, SpareHere, KeyFitsSession, KillsPaper, Serving, Alive, Local
  <2>3. ASSUME IInv, Next PROVE SpareHere'
    BY <2>1, <2>3, NoCrash, OthersSpareHere DEF LocalInv
  <2>4. QED
    BY <2>2, <2>3, LocalInvStep
<1>3. IInv => PrepSparesLive
  BY DEF SpareHere, KillsPaper, PrepSparesLive, Serving
<1>4. QED
  BY <1>1, <1>2, <1>3, PTL DEF Spec

-----------------------------------------------------------------------------
(* The limit on the workers of one gunicorn process                        *)

\* t is inside start_session, and so holds its process's event loop.
InStart(t) == \/ pc[t] \in StartPcs
              \/ pc[t] \in {"rec1", "rec2", "rec3"} /\ ret[t] = "start1"

LoopHeld == \A t \in Threads : InStart(t) => loop[GunicornOf[t]] = t

\* Past the check and until its entry is made, start_session has room for it.
RoomForOne ==
    \A t \in Threads : pc[t] \in {"reserve", "spawn", "publish", "register"} =>
        ActiveWorkers(GunicornOf[t]) < MaxWorkers

LimitInv == LoopHeld /\ RoomForOne /\ WithinLimit

LEMMA StepLoop ==
    ASSUME TypeOK, NEW t \in Threads, Begin(t) \/ Step(t)
    PROVE  /\ InStart(t)' => \/ StartEnter(t)
                             \/ InStart(t) /\ UNCHANGED loop
           /\ UNCHANGED loop \/ ReleaseLoop(t) \/ StartEnter(t)
<1> USE ControlHelpers DEF InStart, StartPcs, TypeOK, reqVars
<1>1. CASE Begin(t)
  <2>1. /\ pc'[t] \in {"rec1", "start0", "signal", "stop1"}
        /\ pc'[t] = "rec1" => ret'[t] = "prep"
        /\ UNCHANGED loop
    <3>1. UNCHANGED loop
      BY <1>1 DEF Begin
    <3>2. QED
      BY <1>1, <3>1, Requested
  <2>2. QED
    BY <2>1
<1>2. CASE Done(t)
  BY <1>2 DEF Done
<1>3. CASE Reconcile(t)
  BY <1>3 DEF Reconcile
<1>4. CASE ReconcileCleanup(t)
  BY <1>4 DEF ReconcileCleanup
<1>5. CASE ReconcileKeys(t)
  BY <1>5 DEF ReconcileKeys, RetPcs
<1>6. CASE Prepare(t)
  BY <1>6 DEF Prepare
<1>7. CASE Ensure(t)
  <2>1. pc'[t] \in {"reply", "start0", "term1"} /\ UNCHANGED loop
    BY <1>7 DEF Ensure
  <2>2. QED
    BY <2>1
<1>8. CASE TerminatePop(t)
  <2>1. pc'[t] \in {"reply", "start0", "term2"} /\ UNCHANGED loop
    BY <1>8 DEF TerminatePop
  <2>2. QED
    BY <2>1
<1>9. CASE TerminateKeys(t)
  BY <1>9 DEF TerminateKeys
<1>10. CASE TerminateKill(t)
  BY <1>10 DEF TerminateKill
<1>11. CASE TerminateWait(t)
  BY <1>11 DEF TerminateWait
<1>12. CASE TerminateResult(t)
  BY <1>12 DEF TerminateResult
<1>13. CASE StartEnter(t)
  BY <1>13 DEF StartEnter
<1>14. CASE StartConflict(t)
  BY <1>14 DEF StartConflict
<1>15. CASE StartCheck(t)
  BY <1>15 DEF StartCheck
<1>16. CASE Reserve(t)
  BY <1>16 DEF Reserve
<1>17. CASE Spawn(t)
  BY <1>17 DEF Spawn
<1>18. CASE SpawnFails(t)
  BY <1>18 DEF SpawnFails
<1>19. CASE Publish(t)
  BY <1>19 DEF Publish
<1>20. CASE PublishFails(t)
  BY <1>20 DEF PublishFails
<1>21. CASE Register(t)
  BY <1>21 DEF Register
<1>22. CASE StopSignal(t)
  BY <1>22 DEF StopSignal
<1>23. CASE StopWaitLocal(t)
  BY <1>23 DEF StopWaitLocal
<1>24. CASE StopWaitRemote(t)
  BY <1>24 DEF StopWaitRemote
<1>25. CASE StopDelete(t)
  BY <1>25 DEF StopDelete
<1>26. CASE StopSimulationEnsure(t)
  BY <1>26 DEF StopSimulationEnsure
<1>27. CASE SignalOnly(t)
  BY <1>27 DEF SignalOnly
<1>28. QED
  BY <1>1, <1>2, <1>3, <1>4, <1>5, <1>6, <1>7, <1>8, <1>9, <1>10, <1>11, <1>12, <1>13, <1>14, <1>15, <1>16, <1>17, <1>18, <1>19, <1>20, <1>21, <1>22, <1>23, <1>24, <1>25, <1>26, <1>27 DEF Step

LEMMA StepLoopHeld ==
    ASSUME TypeOK, LoopHeld, NEW t \in Threads, Begin(t) \/ Step(t)
    PROVE  LoopHeld'
<1>1. OtherThreads(t)
  BY StepControl
<1>2. SUFFICES ASSUME NEW u \in Threads, InStart(u)'
               PROVE  loop'[GunicornOf[u]] = u
  BY DEF LoopHeld
<1>3. CASE u = t
  BY <1>2, <1>3, StepLoop, LocalType DEF LoopHeld, StartEnter, TypeOK
<1>4. CASE u # t
  <2>1. loop[GunicornOf[u]] = u /\ GunicornOf[u] \in Gunicorns
    BY <1>1, <1>2, <1>4 DEF OtherThreads, InStart, LoopHeld
  <2>2. CASE UNCHANGED loop
    BY <2>1, <2>2
  <2>3. CASE ReleaseLoop(t)
    BY <1>4, <2>1, <2>3 DEF ReleaseLoop
  <2>4. CASE StartEnter(t)
    BY <2>1, <2>4, LocalType DEF StartEnter, TypeOK
  <2>5. QED
    BY <2>2, <2>3, <2>4, StepLoop
<1>5. QED
  BY <1>3, <1>4

\* Only an entry made by Register adds to the workers counted.
LEMMA StepActive ==
    ASSUME OwnInv, NEW t \in Threads, Begin(t) \/ Step(t),
           NEW g \in Gunicorns, NEW s \in Sessions, Alive(workers[g][s])'
    PROVE  \/ Alive(workers[g][s])
           \/ Register(t) /\ g = GunicornOf[t] /\ s = ses[t]
<1> USE DEF OwnInv
<1>1. CASE Spawn(t)
  <2>1. UNCHANGED workers /\ workers[g][s] \in Pids /\ workers[g][s] # NoPid
    BY <1>1 DEF Spawn, Alive, TypeOK
  <2>2. pstate[workers[g][s]] # "none"
    BY <2>1 DEF RegistryOwnsChildren
  <2>3. PICK p \in Pids :
          /\ pstate[p] = "none"
          /\ pstate' = [q \in Pids |->
                          IF q = p THEN "running"
                          ELSE IF pstate[q] = "zombie" /\ parent[q] = GunicornOf[t]
                          THEN "gone" ELSE pstate[q]]
    BY <1>1 DEF Spawn
  <2>4. QED
    BY <2>1, <2>2, <2>3 DEF Alive
<1>2. CASE Register(t)
  BY <1>2, LocalType DEF Register, Alive, TypeOK, procVars
<1>3. CASE ~Spawn(t) /\ ~Register(t)
  BY <1>3, StepProcesses DEF NoRevival, RegistryShrinks, Alive, TypeOK
<1>4. QED
  BY <1>1, <1>2, <1>3

\* Counting: fewer sessions never count more, and one more counts one more.
LEMMA ActiveCount ==
    ASSUME NEW S \in SUBSET Sessions
    PROVE  /\ Cardinality(S) \in Nat
           /\ \A T \in SUBSET S : Cardinality(T) <= Cardinality(S)
           /\ \A T \in SUBSET Sessions, s \in Sessions :
                 T \subseteq S \cup {s} => Cardinality(T) <= Cardinality(S) + 1
<1>1. IsFiniteSet(S) /\ Cardinality(S) \in Nat
  BY FS_Subset, FS_CardinalityType
<1>2. \A T \in SUBSET S : Cardinality(T) <= Cardinality(S)
  BY <1>1, FS_Subset
<1>3. ASSUME NEW T \in SUBSET Sessions, NEW s \in Sessions, T \subseteq S \cup {s}
      PROVE  Cardinality(T) <= Cardinality(S) + 1
  <2>1. /\ IsFiniteSet(S \cup {s})
        /\ Cardinality(S \cup {s}) <= Cardinality(S) + 1
        /\ Cardinality(S \cup {s}) \in Nat
    <3>1. /\ IsFiniteSet(S \cup {s})
          /\ \/ Cardinality(S \cup {s}) = Cardinality(S)
             \/ Cardinality(S \cup {s}) = Cardinality(S) + 1
      BY <1>1, FS_AddElement
    <3>2. QED
      BY <1>1, <3>1
  <2>2. Cardinality(T) <= Cardinality(S \cup {s}) /\ Cardinality(T) \in Nat
    BY <1>3, <2>1, FS_Subset, FS_CardinalityType
  <2>3. QED
    BY <1>1, <2>1, <2>2
<1>4. QED
  BY <1>1, <1>2, <1>3

ActiveSet(g) == {s \in Sessions : Alive(workers[g][s])}

LEMMA StepLimit ==
    ASSUME OwnInv, LimitInv, NEW t \in Threads, Begin(t) \/ Step(t)
    PROVE  LimitInv'
<1> USE DEF OwnInv, LimitInv
<1>1. LoopHeld' /\ OtherThreads(t) /\ Flow(t)
  BY StepLoopHeld, StepControl
<1>2. ASSUME NEW g \in Gunicorns, ~(Register(t) /\ g = GunicornOf[t])
      PROVE  /\ ActiveWorkers(g)' <= ActiveWorkers(g)
             /\ ActiveWorkers(g) \in Nat /\ ActiveWorkers(g)' \in Nat
  <2>1. ActiveSet(g)' \in SUBSET ActiveSet(g) /\ ActiveSet(g) \in SUBSET Sessions
    BY <1>2, StepActive DEF ActiveSet
  <2>2. /\ Cardinality(ActiveSet(g)') <= Cardinality(ActiveSet(g))
        /\ Cardinality(ActiveSet(g)) \in Nat
        /\ Cardinality(ActiveSet(g)') \in Nat
    BY <2>1, ActiveCount
  <2>3. QED
    BY <2>2 DEF ActiveWorkers, ActiveSet
<1>3. CASE Register(t)
  <2>1. GunicornOf[t] \in Gunicorns /\ pc[t] = "register" /\ pc'[t] = "reply"
    BY <1>3, LocalType DEF Register, Reply, Goto, TypeOK
  <2>2. ActiveWorkers(GunicornOf[t])' <= MaxWorkers
    <3>1. /\ ActiveSet(GunicornOf[t])' \in SUBSET Sessions
          /\ ActiveSet(GunicornOf[t]) \in SUBSET Sessions
          /\ ActiveSet(GunicornOf[t])' \subseteq ActiveSet(GunicornOf[t]) \cup {ses[t]}
      BY <2>1, StepActive DEF ActiveSet
    <3>2. /\ Cardinality(ActiveSet(GunicornOf[t])')
               <= Cardinality(ActiveSet(GunicornOf[t])) + 1
          /\ Cardinality(ActiveSet(GunicornOf[t])) \in Nat
          /\ Cardinality(ActiveSet(GunicornOf[t])') \in Nat
      BY <3>1, ActiveCount, LocalType
    <3>3. Cardinality(ActiveSet(GunicornOf[t])) < MaxWorkers
      BY <2>1 DEF RoomForOne, ActiveWorkers, ActiveSet
    <3>4. QED
      BY <3>2, <3>3 DEF ActiveWorkers, ActiveSet
  <2>3. WithinLimit'
    BY <1>2, <2>2 DEF WithinLimit
  <2>4. RoomForOne'
    <3>1. SUFFICES ASSUME NEW u \in Threads,
                          pc'[u] \in {"reserve", "spawn", "publish", "register"}
                   PROVE  ActiveWorkers(GunicornOf[u])' < MaxWorkers
      BY DEF RoomForOne
    <3>2. u # t /\ pc[u] = pc'[u]
      BY <1>1, <2>1, <3>1 DEF OtherThreads
    <3>3. GunicornOf[u] # GunicornOf[t] /\ GunicornOf[u] \in Gunicorns
      BY <2>1, <3>1, <3>2 DEF LoopHeld, InStart, StartPcs
    <3>4. QED
      BY <1>2, <3>1, <3>2, <3>3 DEF RoomForOne
  <2>5. QED
    BY <1>1, <2>3, <2>4
<1>4. CASE ~Register(t)
  <2>1. WithinLimit'
    BY <1>2, <1>4 DEF WithinLimit
  <2>2. RoomForOne'
    <3>1. SUFFICES ASSUME NEW u \in Threads,
                          pc'[u] \in {"reserve", "spawn", "publish", "register"}
                   PROVE  ActiveWorkers(GunicornOf[u]) < MaxWorkers
      BY <1>2, <1>4, LocalType DEF RoomForOne
    <3>2. CASE u # t
      BY <1>1, <3>1, <3>2 DEF OtherThreads, RoomForOne
    <3>3. CASE u = t /\ StartCheck(t)
      <4>1. ActiveWorkers(GunicornOf[t]) \in Nat
        BY <1>2, <1>4, LocalType
      <4>2. ~(ActiveWorkers(GunicornOf[t]) >= MaxWorkers)
        BY <3>1, <3>3 DEF StartCheck, Reply, Goto, TypeOK
      <4>3. QED
        BY <3>3, <4>1, <4>2
    <3>4. CASE u = t /\ pc[t] \in {"reserve", "spawn", "publish"}
      BY <3>4 DEF RoomForOne
    <3>5. QED
      BY <1>1, <3>1, <3>2, <3>3, <3>4
         DEF Flow, Reserve, Spawn, Publish, PublishFails
  <2>3. QED
    BY <1>1, <2>1, <2>2
<1>5. QED
  BY <1>3, <1>4

LEMMA OthersLimit ==
    ASSUME OwnInv, LimitInv,
           \/ \E g \in Gunicorns : MonitorScan(g) \/ MonitorCleanup(g) \/ GunicornCrash(g)
           \/ \E p \in Pids : WorkerExit(p)
           \/ \E s \in Sessions : KeyLost(s)
    PROVE  LimitInv'
<1> USE DEF OwnInv, LimitInv
<1>1. /\ \A g \in Gunicorns, s \in Sessions : Alive(workers[g][s])' => Alive(workers[g][s])
      /\ UNCHANGED ret
      /\ \A t \in Threads : \/ /\ pc'[t] = pc[t]
                               /\ loop'[GunicornOf[t]] = loop[GunicornOf[t]]
                            \/ pc'[t] \in {"reply", "idle"}
  <2>1. CASE \E g \in Gunicorns : GunicornCrash(g)
    <3>1. PICK h \in Gunicorns : GunicornCrash(h)
      BY <2>1
    <3>2. \A g \in Gunicorns, s \in Sessions : Alive(workers[g][s])' => Alive(workers[g][s])
      BY <3>1 DEF GunicornCrash, Alive, TypeOK
    <3>3. QED
      BY <3>1, <3>2 DEF GunicornCrash, TypeOK
  <2>2. CASE ~ \E g \in Gunicorns : GunicornCrash(g)
    <3>1. NoRevival /\ RegistryShrinks /\ UNCHANGED <<pc, ret, loop>>
      BY <2>2, OthersProcesses
    <3>2. QED
      BY <3>1 DEF NoRevival, RegistryShrinks, Alive, TypeOK
  <2>3. QED
    BY <2>1, <2>2
<1>2. ASSUME NEW g \in Gunicorns
      PROVE  /\ ActiveWorkers(g)' <= ActiveWorkers(g)
             /\ ActiveWorkers(g) \in Nat /\ ActiveWorkers(g)' \in Nat
  <2>1. ActiveSet(g)' \in SUBSET ActiveSet(g) /\ ActiveSet(g) \in SUBSET Sessions
    BY <1>1 DEF ActiveSet
  <2>2. /\ Cardinality(ActiveSet(g)') <= Cardinality(ActiveSet(g))
        /\ Cardinality(ActiveSet(g)) \in Nat
        /\ Cardinality(ActiveSet(g)') \in Nat
    BY <2>1, ActiveCount
  <2>3. QED
    BY <2>2 DEF ActiveWorkers, ActiveSet
<1>3. WithinLimit'
  BY <1>2 DEF WithinLimit
<1>4. LoopHeld'
  BY <1>1 DEF LoopHeld, InStart, StartPcs
<1>5. RoomForOne'
  BY <1>1, <1>2 DEF RoomForOne
<1>6. QED
  BY <1>3, <1>4, <1>5

\* start_session counts and registers on one event loop, so no interleaving of
\* starts, stops, monitor passes and crashes takes a gunicorn process over
\* MAX_WORKERS.
THEOREM WorkerLimit == Spec => []WithinLimit
<1> DEFINE IInv == OwnInv /\ LimitInv
<1>1. Init => IInv
  <2>1. ASSUME Init PROVE OwnInv
    BY <2>1, InitTypeOK DEF Init, OwnInv, RegistryOwnsChildren, SpawnedIsOurs
  <2>2. ASSUME Init PROVE LoopHeld /\ RoomForOne
    BY <2>2 DEF Init, LoopHeld, InStart, StartPcs, RoomForOne
  <2>3. ASSUME Init PROVE WithinLimit
    <3>1. \A g \in Gunicorns : ActiveSet(g) = {}
      BY <2>3 DEF Init, ActiveSet, Alive
    <3>2. Cardinality({}) = 0
      BY FS_EmptySet
    <3>3. \A g \in Gunicorns : ActiveWorkers(g) = 0
      BY <3>1, <3>2 DEF ActiveWorkers, ActiveSet
    <3>4. QED
      BY <3>3 DEF WithinLimit
  <2>4. QED
    BY <2>1, <2>2, <2>3 DEF LimitInv
<1>2. IInv /\ [Next]_vars => IInv'
  <2>1. ASSUME LimitInv, UNCHANGED vars PROVE LimitInv'
    BY <2>1 DEF vars, LimitInv, LoopHeld, InStart, RoomForOne, WithinLimit,
                ActiveWorkers, Alive
  <2>2. ASSUME OwnInv, LimitInv, Next PROVE LimitInv'
    BY <2>2, StepLimit, OthersLimit DEF Next
  <2>3. QED
    BY <2>1, <2>2, NextOwn
<1>3. IInv => WithinLimit
  BY DEF LimitInv
<1>4. QED
  BY <1>1, <1>2, <1>3, PTL DEF Spec

=============================================================================
