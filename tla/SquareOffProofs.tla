--------------------------- MODULE SquareOffProofs ---------------------------
(***************************************************************************)
(* The live engine implements SquareOff, and the broker gets at most one   *)
(* square-off order per symbol: for every set of symbols, quantities,      *)
(* bounds and irregularities.                                              *)
(***************************************************************************)
EXTENDS LiveEngineProofs

-----------------------------------------------------------------------------
(* The inductive invariant                                                 *)

Twins(r1, r2) == IsExit(r1) /\ IsExit(r2) /\ r1.sym = r2.sym

\* Thread t has asked for symbols.
HasAsked(t) == \E i \in DOMAIN batch[t] : IsExit(batch[t][i])

\* t is past the plan of the square-off, or it is done.
Past(t) == /\ job[t] \in SquareOffs
           /\ \/ pc[t] \in {"collect", "record"}
              \/ pc[t] \in {"after", "ended"} /\ slot = "done"

Shapes ==
    /\ IsSeq(queue) /\ IsSeq(orders)
    /\ active \subseteq Symbols
    /\ DOMAIN batch = Threads /\ batch = [t \in Threads |-> batch[t]]
    /\ \A i \in DOMAIN orders : {"sym", "act"} \subseteq DOMAIN orders[i]

\* Square-off orders are asked for before they are queued and placed.
AskedFirst ==
    /\ \A i \in DOMAIN queue : IsExit(queue[i]) => AskedFor(queue[i].sym)
    /\ \A i \in DOMAIN orders : IsExit(orders[i]) => AskedFor(orders[i].sym)
    /\ \A t \in Threads : \A i \in DOMAIN batch[t] :
          IsExit(batch[t][i]) => batch[t][i].sym \in Symbols

\* A symbol's square-off order is in one place at a time.
OnePlace ==
    /\ \A i, j \in DOMAIN queue : Twins(queue[i], queue[j]) => i = j
    /\ \A i, j \in DOMAIN orders : Twins(orders[i], orders[j]) => i = j
    /\ \A i \in DOMAIN queue, j \in DOMAIN orders : ~Twins(queue[i], orders[j])

\* Who has asked never plans again, and waits for what it has asked.
AskedOnce ==
    \A t \in Threads :
        /\ HasAsked(t) => Past(t)
        /\ pc[t] \in {"collect", "record"} /\ job[t] \in SquareOffs => HasAsked(t)

OnceInv == Shapes /\ AskedFirst /\ OnePlace /\ AskedOnce

LEMMA OnceInvInit == Init => OnceInv
<1> SUFFICES ASSUME Init PROVE OnceInv
  OBVIOUS
<1>1. queue = << >> /\ orders = << >> /\ batch = [t \in Threads |-> << >>] /\ active = Symbols
  BY DEF Init
<1>2. IsSeq(<< >>) /\ DOMAIN << >> = {}
  BY EmptySeq DEF IsSeq
<1>3. \A t \in Threads : ~HasAsked(t)
  BY <1>1, <1>2 DEF HasAsked
<1>4. \A t \in Threads : pc[t] \notin {"collect", "record"}
  BY DEF Init
<1>5. QED
  BY <1>1, <1>2, <1>3, <1>4 DEF OnceInv, Shapes, AskedFirst, OnePlace, AskedOnce

-----------------------------------------------------------------------------
(* One lemma per kind of step                                              *)

\* Nothing is submitted, placed or moved.
LEMMA OnceStays ==
    ASSUME OnceInv, UNCHANGED <<queue, orders, batch, pc, job, slot, active>>
    PROVE  OnceInv'
  BY DEF OnceInv, Shapes, AskedFirst, OnePlace, AskedOnce, HasAsked, Past, AskedFor, IsExit,
         Twins

\* A thread moves on without submitting.
LEMMA OnceMoves ==
    ASSUME SlotInv, OnceInv, NEW t \in Threads, NEW p, NEW j, Moves(t, p, j),
           UNCHANGED <<queue, orders, batch>>, active' \subseteq Symbols,
           slot = "done" => slot' = "done",
           HasAsked(t) => /\ j \in SquareOffs
                          /\ \/ p \in {"collect", "record"}
                             \/ p \in {"after", "ended"} /\ slot' = "done",
           p \in {"collect", "record"} /\ j \in SquareOffs => HasAsked(t)
    PROVE  OnceInv'
<1>1. \A u \in Threads : HasAsked(u)' <=> HasAsked(u)
  BY DEF HasAsked
<1>2. \A u \in Threads \ {t} : pc'[u] = pc[u] /\ job'[u] = job[u]
  BY DEF Moves, SlotInv
<1>3. pc'[t] = p /\ job'[t] = j
  BY DEF Moves, SlotInv
<1>4. AskedOnce'
  BY <1>1, <1>2, <1>3 DEF AskedOnce, Past, OnceInv
<1>5. QED
  BY <1>4 DEF OnceInv, Shapes, AskedFirst, OnePlace, AskedFor, IsExit, Twins

\* A worker takes an order from the queue; it reaches the broker or not.
LEMMA OnceExecute ==
    ASSUME OnceInv, Executor
    PROVE  OnceInv'
<1>1. PICK i \in DOMAIN queue : Execute(i)
  BY DEF Executor
<1>2. UNCHANGED <<batch, pc, job, slot, active>>
  BY <1>1 DEF Execute, threads, flags, loopVars
<1>3. /\ IsSeq(queue') /\ DOMAIN queue' = 1 .. Len(queue) - 1
      /\ \A j \in DOMAIN queue' : queue'[j] = IF j < i THEN queue[j] ELSE queue[j + 1]
  BY <1>1, RemoveSeq DEF Execute, OnceInv, Shapes
<1>4. Len(queue) \in Nat /\ DOMAIN queue = 1 .. Len(queue) /\ i \in Nat
  BY SeqDomain DEF OnceInv, Shapes
<1> DEFINE old(j) == IF j < i THEN j ELSE j + 1
<1>5. /\ \A j \in DOMAIN queue' : /\ old(j) \in DOMAIN queue /\ old(j) # i
                                  /\ queue'[j] = queue[old(j)]
      /\ \A j, k \in DOMAIN queue' : old(j) = old(k) => j = k
  BY <1>3, <1>4
<1> HIDE DEF old
<1>6. /\ \A j, k \in DOMAIN queue' : Twins(queue'[j], queue'[k]) => j = k
      /\ \A j \in DOMAIN queue', k \in DOMAIN orders : ~Twins(queue'[j], orders[k])
      /\ \A j \in DOMAIN queue' : ~Twins(queue'[j], queue[i])
      /\ \A j \in DOMAIN queue' : IsExit(queue'[j]) => AskedFor(queue'[j].sym)
  BY <1>5 DEF OnceInv, OnePlace, AskedFirst
<1>7. AskedOnce' /\ \A s : AskedFor(s)' <=> AskedFor(s)
  BY <1>2 DEF OnceInv, AskedOnce, HasAsked, Past, AskedFor
<1>8. CASE UNCHANGED orders
  BY <1>2, <1>3, <1>6, <1>7, <1>8 DEF OnceInv, Shapes, AskedFirst, OnePlace
<1>9. CASE \E st \in OrderStates : orders' = Append(orders, Placed(queue[i], st))
  <2>1. PICK st \in OrderStates : orders' = Append(orders, Placed(queue[i], st))
    BY <1>9
  <2> DEFINE o == Placed(queue[i], st)
             n == Len(orders) + 1
  <2>2. {"sym", "act"} \subseteq DOMAIN o /\ o.sym = queue[i].sym /\ o.act = queue[i].act
    BY DEF Placed
  <2> HIDE DEF o
  <2>3. /\ IsSeq(orders') /\ DOMAIN orders' = DOMAIN orders \cup {n}
        /\ \A k \in DOMAIN orders : orders'[k] = orders[k]
        /\ orders'[n] = o
        /\ n \notin DOMAIN orders
    <3>1. Len(orders) \in Nat /\ DOMAIN orders = 1 .. Len(orders) /\ IsSeq(orders)
      BY SeqDomain DEF OnceInv, Shapes
    <3>2. QED
      BY <2>1, <3>1, AppendSeq DEF o
  <2>4. \A r : (Twins(r, o) <=> Twins(r, queue[i])) /\ (Twins(o, r) <=> Twins(queue[i], r))
    BY <2>2 DEF Twins, IsExit
  <2>5. \A k \in DOMAIN orders : ~Twins(queue[i], orders[k]) /\ ~Twins(orders[k], queue[i])
    BY DEF OnceInv, OnePlace, Twins
  <2>6. OnePlace'
    BY <1>6, <2>3, <2>4, <2>5 DEF OnceInv, OnePlace
  <2>7. IsExit(o) => AskedFor(o.sym)
    BY <2>2 DEF OnceInv, AskedFirst, IsExit
  <2>8. AskedFirst'
    BY <1>2, <1>6, <1>7, <2>3, <2>7 DEF OnceInv, AskedFirst
  <2>9. Shapes'
    BY <1>2, <1>3, <2>2, <2>3 DEF OnceInv, Shapes
  <2>10. QED
    BY <1>7, <2>6, <2>8, <2>9 DEF OnceInv
<1>10. QED
  BY <1>1, <1>8, <1>9 DEF Execute

\* An order settles: it keeps its symbol and its action.
LEMMA OnceSettles ==
    ASSUME OnceInv, NEW i \in DOMAIN orders, OrderSettles(i)
    PROVE  OnceInv'
<1>1. PICK st : orders' = [orders EXCEPT ![i].state = st]
  BY DEF OrderSettles
<1>2. UNCHANGED <<queue, batch, pc, job, slot, active>>
  BY DEF OrderSettles, exec, threads, flags, loopVars
<1>3. /\ DOMAIN orders' = DOMAIN orders
      /\ \A k \in DOMAIN orders : /\ orders'[k].sym = orders[k].sym
                                  /\ orders'[k].act = orders[k].act
                                  /\ DOMAIN orders'[k] = DOMAIN orders[k]
  BY <1>1 DEF OnceInv, Shapes
<1>4. IsSeq(orders')
  <2> DEFINE S == {orders'[k] : k \in DOMAIN orders}
  <2>1. Len(orders) \in Nat /\ DOMAIN orders = 1 .. Len(orders)
    BY SeqDomain DEF OnceInv, Shapes
  <2>2. orders' \in [1 .. Len(orders) -> S]
    BY <1>1, <1>3, <2>1
  <2> HIDE DEF S
  <2>3. QED
    BY <2>1, <2>2, FunctionSeq DEF IsSeq
<1>5. Shapes'
  BY <1>2, <1>3, <1>4 DEF OnceInv, Shapes
<1>6. OnePlace' /\ AskedFirst'
  BY <1>2, <1>3 DEF OnceInv, OnePlace, AskedFirst, Twins, IsExit, AskedFor
<1>7. AskedOnce'
  BY <1>2 DEF OnceInv, AskedOnce, HasAsked, Past
<1>8. QED
  BY <1>5, <1>6, <1>7 DEF OnceInv

\* Orders that are no square-off are submitted.
LEMMA OnceSubmits ==
    ASSUME SlotInv, OnceInv, NEW t \in Threads, NEW q, NEW w \in Jobs, Submit(t, q, w),
           IsSeq(q), \A i \in DOMAIN q : ~IsExit(q[i]), w \notin SquareOffs,
           pc[t] \in {"decide", "watch"},
           UNCHANGED <<orders, slot, active>>
    PROVE  OnceInv'
<1>1. /\ queue' = queue \o q /\ batch' = [batch EXCEPT ![t] = q]
      /\ pc' = [pc EXCEPT ![t] = "collect"] /\ job' = [job EXCEPT ![t] = w]
  BY DEF Submit
<1>2. ~HasAsked(t)
  BY DEF OnceInv, AskedOnce, Past
<1>3. /\ batch'[t] = q /\ pc'[t] = "collect" /\ job'[t] = w
      /\ \A u \in Threads \ {t} : batch'[u] = batch[u] /\ pc'[u] = pc[u] /\ job'[u] = job[u]
  BY <1>1 DEF OnceInv, Shapes, SlotInv
<1>4. ~HasAsked(t)' /\ \A u \in Threads \ {t} : HasAsked(u)' <=> HasAsked(u)
  BY <1>3 DEF HasAsked
<1>5. AskedOnce'
  BY <1>3, <1>4 DEF OnceInv, AskedOnce, Past
<1>6. \A s : AskedFor(s) => AskedFor(s)'
  BY <1>2, <1>3 DEF AskedFor, HasAsked, IsExit
<1>7. /\ IsSeq(queue')
      /\ \A k \in DOMAIN queue' : k \notin DOMAIN queue => ~IsExit(queue'[k])
      /\ \A k \in DOMAIN queue' : k \in DOMAIN queue => queue'[k] = queue[k]
  BY <1>1, ConcatSeq DEF OnceInv, Shapes
<1>8. Shapes'
  BY <1>1, <1>7 DEF OnceInv, Shapes
<1>9. OnePlace'
  BY <1>7 DEF OnceInv, OnePlace, Twins
<1>10. AskedFirst'
  BY <1>3, <1>6, <1>7 DEF OnceInv, AskedFirst
<1>11. QED
  BY <1>5, <1>8, <1>9, <1>10 DEF OnceInv

\* The exits of a plan are submitted: nobody has asked before.
LEMMA NobodyAsked ==
    ASSUME SlotInv, OnceInv, NEW t \in Threads, pc[t] = "plan"
    PROVE  /\ slot = "busy"
           /\ \A u \in Threads : ~HasAsked(u)
           /\ \A i \in DOMAIN queue : ~IsExit(queue[i])
           /\ \A i \in DOMAIN orders : ~IsExit(orders[i])
<1>1. Squaring(t) /\ slot = "busy"
  BY DEF SlotInv, OneSquareOff, Squaring
<1>2. \A u \in Threads : ~HasAsked(u)
  BY <1>1 DEF OnceInv, AskedOnce, Past, SlotInv, OneSquareOff, Squaring
<1>3. \A s : ~AskedFor(s)
  BY <1>2 DEF AskedFor, HasAsked, IsExit
<1>4. QED
  BY <1>1, <1>2, <1>3 DEF OnceInv, AskedFirst

LEMMA OnceAsks ==
    ASSUME SlotInv, OnceInv, NEW t \in Threads, pc[t] = "plan", NEW q,
           Submit(t, q, job[t]), IsSeq(q), 1 \in DOMAIN q,
           \A i \in DOMAIN q : IsExit(q[i]) /\ q[i].sym \in Symbols,
           \A i, j \in DOMAIN q : q[i].sym = q[j].sym => i = j,
           UNCHANGED <<orders, slot, active>>
    PROVE  OnceInv'
<1>1. /\ queue' = queue \o q /\ batch' = [batch EXCEPT ![t] = q]
      /\ pc' = [pc EXCEPT ![t] = "collect"] /\ job' = [job EXCEPT ![t] = job[t]]
  BY DEF Submit
<1>2. job[t] \in SquareOffs
  BY DEF SlotInv, KnowsWhy
<1>3. /\ batch'[t] = q /\ pc'[t] = "collect" /\ job' = job
      /\ \A u \in Threads \ {t} : batch'[u] = batch[u] /\ pc'[u] = pc[u]
  BY <1>1 DEF OnceInv, Shapes, SlotInv
<1>4. HasAsked(t)' /\ \A u \in Threads \ {t} : ~HasAsked(u)' /\ ~HasAsked(u)
  BY <1>3, NobodyAsked DEF HasAsked
<1>5. AskedOnce'
  BY <1>2, <1>3, <1>4 DEF OnceInv, AskedOnce, Past
<1>6. \A i \in DOMAIN q : AskedFor(q[i].sym)'
  BY <1>3 DEF AskedFor, IsExit
<1>7. /\ IsSeq(queue')
      /\ \A k \in DOMAIN queue' : k \in DOMAIN queue => ~IsExit(queue'[k])
      /\ \A k \in DOMAIN queue' : k \notin DOMAIN queue =>
            k - Len(queue) \in DOMAIN q /\ queue'[k] = q[k - Len(queue)]
      /\ DOMAIN queue' \subseteq Int /\ Len(queue) \in Nat
  BY <1>1, ConcatSeq, NobodyAsked, SeqDomain DEF OnceInv, Shapes
<1>8. Shapes'
  BY <1>1, <1>7 DEF OnceInv, Shapes
<1>9. OnePlace'
  <2>1. ASSUME NEW i \in DOMAIN queue', NEW j \in DOMAIN queue', Twins(queue'[i], queue'[j])
        PROVE  i = j
    <3>1. i \notin DOMAIN queue /\ j \notin DOMAIN queue
      BY <2>1, <1>7 DEF Twins
    <3>2. i - Len(queue) = j - Len(queue)
      BY <2>1, <3>1, <1>7 DEF Twins
    <3>3. QED
      BY <3>2, <1>7
  <2>2. QED
    BY <2>1, NobodyAsked DEF OnceInv, OnePlace, Twins
<1>10. AskedFirst'
  BY <1>3, <1>4, <1>6, <1>7, NobodyAsked DEF OnceInv, AskedFirst, HasAsked
<1>11. QED
  BY <1>5, <1>8, <1>9, <1>10 DEF OnceInv

-----------------------------------------------------------------------------
(* What is submitted                                                       *)

\* The orders of a cycle are finitely many, and none is a square-off.
LEMMA CycleOrders ==
    ASSUME OnceInv, NEW sig
    PROVE  LET reqs == UNION {Scenario(s, sig[s]) : s \in active}
           IN IsFiniteSet(reqs) /\ \A r \in reqs : ~IsExit(r)
<1> DEFINE f == [s \in active |-> Scenario(s, sig[s])]
           T == {f[s] : s \in active}
<1>1. IsFiniteSet(active)
  BY EngineAssumption, FS_Subset DEF OnceInv, Shapes
<1>2. f \in Surjection(active, T)
  BY DEF Surjection
<1>3. IsFiniteSet(T)
  BY <1>1, <1>2, FS_Surjection
<1>4. ASSUME NEW s \in active
      PROVE  /\ IsFiniteSet(Scenario(s, sig[s]))
             /\ \A r \in Scenario(s, sig[s]) : ~IsExit(r)
  <2>1. \A A : (\E r : A \subseteq {r}) => IsFiniteSet(A)
    BY FS_Singleton, FS_Subset
  <2>2. \E r : Scenario(s, sig[s]) \subseteq {r} /\ ~IsExit(r)
    <3>1. CASE Scenario(s, sig[s]) = {}
      <4>1. ~IsExit([act |-> "cycle"])
        BY DEF IsExit
      <4>2. QED
        BY <3>1, <4>1
    <3>2. CASE Scenario(s, sig[s]) # {}
      <4>1. \/ Scenario(s, sig[s]) \subseteq StopLoss(s)
            \/ \E d : Scenario(s, sig[s]) \in {Open(s, d), Flip(s, d), Expand(s, d)}
        BY <3>2 DEF Scenario
      <4>2. /\ \E r : StopLoss(s) \subseteq {r} /\ ~IsExit(r)
            /\ \A d : \E r : Open(s, d) \subseteq {r} /\ ~IsExit(r)
            /\ \A d : \E r : Flip(s, d) \subseteq {r} /\ ~IsExit(r)
            /\ \A d : \E r : Expand(s, d) \subseteq {r} /\ ~IsExit(r)
        <5>1. /\ StopLoss(s) \subseteq {Request(s, -Sign(view[s]), ExitQty(s, view[s]),
                                                "STOP_LOSS", Sign(view[s]))}
              /\ \A d : /\ \E a \in {"OPEN_LONG", "OPEN_SHORT"} :
                              Open(s, d) \subseteq {Request(s, d, Lot, a, 0)}
                        /\ \E a \in {"FLIP_TO_LONG", "FLIP_TO_SHORT"} :
                               Flip(s, d) \subseteq {Request(s, d, 2 * ExitQty(s, view[s]), a, 0)}
                        /\ \E a \in {"EXPAND_LONG", "EXPAND_SHORT"} :
                               Expand(s, d) \subseteq {Request(s, d, Lot, a, 0)}
          BY DEF StopLoss, Open, Flip, Expand
        <5>2. \A d, q, a, h : a # "MARKET_CLOSE_EXIT" => ~IsExit(Request(s, d, q, a, h))
          BY DEF Request, IsExit
        <5>3. QED
          BY <5>1, <5>2
      <4>3. QED
        BY <4>1, <4>2
    <3>3. QED
      BY <3>1, <3>2
  <2>3. QED
    BY <2>1, <2>2
<1>5. IsFiniteSet(UNION T)
  BY <1>3, <1>4, FS_UNION
<1>6. UNION T = UNION {Scenario(s, sig[s]) : s \in active}
  OBVIOUS
<1>7. QED
  BY <1>4, <1>5, <1>6

\* The plan has one exit per symbol, of symbols the ledger holds.
LEMMA PlanOrders ==
    ASSUME NEW v
    PROVE  /\ IsFiniteSet(EodPlan(v))
           /\ \A r \in EodPlan(v) : IsExit(r) /\ r.sym \in Symbols /\ ledger[r.sym] # 0
           /\ \A r1, r2 \in EodPlan(v) : r1.sym = r2.sym => r1 = r2
<1> DEFINE A == {x \in Symbols : ledger[x] # 0 /\ Sign(v[x]) = Sign(ledger[x])}
           f == [s \in A |-> Request(s, -Sign(v[s]), Least(Size(ledger[s]), Size(v[s])),
                                     "MARKET_CLOSE_EXIT", 0)]
<1>1. IsFiniteSet(A)
  BY EngineAssumption, FS_Subset
<1>2. f \in Surjection(A, EodPlan(v))
  BY DEF Surjection, EodPlan
<1>3. IsFiniteSet(EodPlan(v))
  BY <1>1, <1>2, FS_Surjection
<1>4. QED
  BY <1>3 DEF EodPlan, Request, IsExit

-----------------------------------------------------------------------------
(* The steps                                                               *)

LEMMA OnceQuiet ==
    ASSUME OnceInv,
           \/ \E s \in Symbols, d \in {Buy, Sell} : UserTrades(s, d)
           \/ MarketCloses \/ WorkerStop \/ Reconciler \/ LoopRecord \/ UNCHANGED vars
           \/ \E t \in Threads : Collect(t) \/ CollectTimeout(t) \/ EodRecord(t)
    PROVE  OnceInv'
<1>1. UNCHANGED <<queue, orders, batch, pc, job, slot, active>>
  BY DEF UserTrades, MarketCloses, WorkerStop, Reconciler, ReconcileBegin, ReconcileFetch,
         ReconcileOrder, ReconcileEnd, ReconcileSymbol, LoopRecord, Collect,
         CollectTimeout, EodRecord, vars, flags, threads, exec, broker, loopVars
<1>2. QED
  BY <1>1, OnceStays

LEMMA OnceLoop ==
    ASSUME SlotInv, OnceInv,
           LoopTop \/ LoopFetch \/ LoopDecide \/ LoopRecorded \/ LoopCycled
    PROVE  OnceInv'
<1> DEFINE L == "loop"
<1>0. L \in Threads /\ UNCHANGED <<slot, orders>>
  BY DEF Threads, LoopTop, LoopFetch, LoopDecide, LoopRecorded, LoopCycled, flags, broker
<1>1. ~HasAsked(L)
  BY <1>0 DEF OnceInv, AskedOnce, Past, LoopTop, LoopFetch, LoopDecide, LoopRecorded,
              LoopCycled, AtLoop, SquareOffs
<1>2. ASSUME NEW p, NEW j, p \notin {"collect", "record"}, Moves(L, p, j),
             UNCHANGED <<queue, batch>>, active' \subseteq Symbols
      PROVE  OnceInv'
  BY <1>0, <1>1, <1>2, OnceMoves
<1>3. CASE LoopTop
  <2>1. UNCHANGED <<queue, batch>> /\ active' \subseteq Symbols
    BY <1>3 DEF LoopTop, exec, OnceInv, Shapes
  <2>2. \E p \in {"begin", "fetch", "ended"} : \E j : Moves(L, p, j)
    <3>1. CASE \E why \in SquareOffs : BeginSquareOff(L, why)
      BY <3>1 DEF BeginSquareOff, Moves, Goto
    <3>2. CASE \E p \in {"fetch", "ended"} : Goto(L, p) /\ UNCHANGED job
      BY <3>2, <1>0, KeepsJob DEF Pcs
    <3>3. QED
      BY <1>3, <3>1, <3>2 DEF LoopTop, SquareOffs
  <2>3. QED
    BY <1>2, <2>1, <2>2
<1>4. CASE LoopFetch \/ LoopRecorded
  <2>1. UNCHANGED <<queue, batch, active, job>>
    BY <1>4 DEF LoopFetch, LoopRecorded, exec, loopVars
  <2>2. \E p \in {"decide", "ended", "cycled"} : Goto(L, p)
    BY <1>4 DEF LoopFetch, LoopRecorded
  <2>3. \E p \in {"decide", "ended", "cycled"} : \E j : Moves(L, p, j)
    BY <1>0, <2>1, <2>2, KeepsJob DEF Pcs
  <2>4. active' \subseteq Symbols
    BY <2>1 DEF OnceInv, Shapes
  <2>5. QED
    BY <1>2, <2>1, <2>3, <2>4
<1>5. CASE LoopCycled
  <2>1. UNCHANGED <<queue, batch, active>>
    BY <1>5 DEF LoopCycled, exec
  <2>2. \E p \in {"begin", "top"} : \E j : Moves(L, p, j)
    <3>1. CASE BeginSquareOff(L, "close")
      BY <3>1 DEF BeginSquareOff, Moves, Goto
    <3>2. CASE Goto(L, "top") /\ UNCHANGED job
      BY <3>2, <1>0, KeepsJob DEF Pcs
    <3>3. QED
      BY <1>5, <3>1, <3>2 DEF LoopCycled
  <2>3. active' \subseteq Symbols
    BY <2>1 DEF OnceInv, Shapes
  <2>4. QED
    BY <1>2, <2>1, <2>2, <2>3
<1>6. CASE LoopDecide
  <2>0. pc[L] = "decide" /\ active' = active /\ active \subseteq Symbols
    BY <1>6 DEF LoopDecide, AtLoop, OnceInv, Shapes
  <2>1. PICK sig : \/ Goto(L, "cycled") /\ UNCHANGED <<exec, batch, job>>
                   \/ Submit(L, SetToSeq(UNION {Scenario(s, sig[s]) : s \in active}), "cycle")
    <3>1. PICK sig \in [active -> {"HOLD", "STOP", "BUY", "SELL"}] :
             IF UNION {Scenario(s, sig[s]) : s \in active} = {}
             THEN Goto(L, "cycled") /\ UNCHANGED <<exec, batch, got, job>>
             ELSE Submit(L, SetToSeq(UNION {Scenario(s, sig[s]) : s \in active}), "cycle")
      BY <1>6, Zenon DEF LoopDecide
    <3>2. QED
      BY <3>1
  <2> DEFINE reqs == UNION {Scenario(s, sig[s]) : s \in active}
  <2>2. IsFiniteSet(reqs) /\ \A r \in reqs : ~IsExit(r)
    BY CycleOrders
  <2>3. \/ Goto(L, "cycled") /\ UNCHANGED <<exec, batch, job>>
        \/ Submit(L, SetToSeq(reqs), "cycle")
    BY <2>1
  <2> HIDE DEF reqs
  <2>4. CASE Goto(L, "cycled") /\ UNCHANGED <<exec, batch, job>>
    <3>1. Moves(L, "cycled", job[L])
      BY <1>0, <2>4, KeepsJob DEF Pcs
    <3>2. QED
      BY <1>2, <2>0, <2>4, <3>1 DEF exec
  <2>5. CASE Submit(L, SetToSeq(reqs), "cycle")
    <3>1. IsSeq(SetToSeq(reqs)) /\ \A i \in DOMAIN SetToSeq(reqs) : ~IsExit(SetToSeq(reqs)[i])
      BY <2>2, SetSeq
    <3>2. "cycle" \in Jobs /\ "cycle" \notin SquareOffs
      BY DEF Jobs, SquareOffs
    <3>3. QED
      BY <1>0, <2>0, <2>5, <3>1, <3>2, OnceSubmits
  <2>6. QED
    BY <2>3, <2>4, <2>5
<1>7. QED
  BY <1>3, <1>4, <1>5, <1>6

LEMMA OnceMonitor ==
    ASSUME SlotInv, OnceInv,
           MonitorStop \/ MonitorJoin \/ ExitRecord \/ \E s \in Symbols : ExitSubmit(s)
    PROVE  OnceInv'
<1> DEFINE M == "monitor"
<1>0. M \in Threads /\ UNCHANGED <<slot, orders, active>> /\ active \subseteq Symbols
  BY DEF Threads, MonitorStop, MonitorJoin, ExitRecord, ExitSubmit, flags, broker, loopVars,
         OnceInv, Shapes
<1>1. ~HasAsked(M)
  BY <1>0 DEF OnceInv, AskedOnce, Past, MonitorStop, MonitorJoin, ExitRecord, ExitSubmit,
              Watching, SquareOffs
<1>2. CASE MonitorStop \/ ExitRecord
  <2>1. /\ UNCHANGED <<queue, batch, job>>
        /\ \E p \in {"joining", "ended", "watch"} : Goto(M, p)
    BY <1>2 DEF MonitorStop, ExitRecord, exec
  <2>2. \E p \in {"joining", "ended", "watch"} : \E j : Moves(M, p, j)
    BY <1>0, <2>1, KeepsJob DEF Pcs
  <2>3. QED
    BY <1>0, <1>1, <2>1, <2>2, OnceMoves
<1>3. CASE MonitorJoin
  <2>1. UNCHANGED <<queue, batch>> /\ Moves(M, "begin", "shut")
    BY <1>3 DEF MonitorJoin, BeginSquareOff, Goto, Moves, exec
  <2>2. QED
    BY <1>0, <1>1, <2>1, OnceMoves
<1>4. CASE \E s \in Symbols : ExitSubmit(s)
  <2>1. CASE UNCHANGED <<exec, pc, job, batch>>
    BY <1>0, <2>1, OnceStays DEF exec
  <2>2. CASE \E r : ~IsExit(r) /\ Submit(M, <<r>>, "exit")
    <3>1. PICK r : ~IsExit(r) /\ Submit(M, <<r>>, "exit")
      BY <2>2
    <3>2. IsSeq(<<r>>) /\ \A i \in DOMAIN <<r>> : ~IsExit(<<r>>[i])
      BY <3>1, SingletonSeq
    <3>3. pc[M] = "watch" /\ "exit" \in Jobs /\ "exit" \notin SquareOffs
      BY <1>4 DEF ExitSubmit, Watching, Jobs, SquareOffs
    <3>4. QED
      BY <1>0, <3>1, <3>2, <3>3, OnceSubmits
  <2>3. \A s, d, q, a, h : a # "MARKET_CLOSE_EXIT" => ~IsExit(Request(s, d, q, a, h))
    BY DEF IsExit, Request
  <2>4. QED
    BY <1>4, <2>1, <2>2, <2>3 DEF ExitSubmit
<1>5. QED
  BY <1>2, <1>3, <1>4

LEMMA OnceSquareOff ==
    ASSUME SlotInv, OnceInv, NEW t \in Threads,
           Join(t) \/ EodBegin(t) \/ EodSubmit(t) \/ EodFinish(t) \/ EodAfter(t)
    PROVE  OnceInv'
<1>0. UNCHANGED <<orders, active>> /\ active \subseteq Symbols
  BY DEF Join, EodBegin, EodSubmit, EodFinish, EodAfter, broker, loopVars, OnceInv, Shapes
<1>1. ASSUME NEW p \in Pcs, Goto(t, p), UNCHANGED <<queue, batch, job>>,
             slot = "done" => slot' = "done",
             HasAsked(t) => \/ p \in {"collect", "record"}
                            \/ p \in {"after", "ended"} /\ slot' = "done",
             p \in {"collect", "record"} /\ job[t] \in SquareOffs => HasAsked(t)
      PROVE  OnceInv'
  <2>1. Moves(t, p, job[t])
    BY <1>1, KeepsJob
  <2>2. HasAsked(t) => job[t] \in SquareOffs
    BY DEF OnceInv, AskedOnce, Past
  <2>3. QED
    BY <1>0, <1>1, <2>1, <2>2, OnceMoves
<1>2. CASE Join(t)
  <2>1. /\ pc[t] = "collect" /\ Goto(t, "record") /\ UNCHANGED <<queue, batch, job, slot>>
        /\ "record" \in Pcs
    BY <1>2 DEF Join, Goto, flags, exec, Pcs
  <2>2. job[t] \in SquareOffs => HasAsked(t)
    BY <2>1 DEF OnceInv, AskedOnce
  <2>3. QED
    BY <1>1, <2>1, <2>2
<1>3. CASE EodBegin(t)
  <2>1. /\ pc[t] = "begin" /\ UNCHANGED <<queue, batch, job>>
        /\ \E p \in {"plan", "after"} : Goto(t, p) /\ p \in Pcs
        /\ slot = "done" => slot' = "done"
    BY <1>3 DEF EodBegin, exec, Pcs
  <2>2. ~HasAsked(t)
    BY <2>1 DEF OnceInv, AskedOnce, Past
  <2>3. QED
    BY <1>1, <2>1, <2>2
<1>4. CASE EodSubmit(t)
  <2>0. pc[t] = "plan"
    BY <1>4 DEF EodSubmit
  <2>1. slot = "busy" /\ ~HasAsked(t)
    BY <2>0, NobodyAsked
  <2>2. CASE \E v : EodPlan(v) # {} /\ Submit(t, SetToSeq(EodPlan(v)), job[t]) /\ slot' = slot
    <3>1. PICK v : EodPlan(v) # {} /\ Submit(t, SetToSeq(EodPlan(v)), job[t]) /\ slot' = slot
      BY <2>2
    <3> DEFINE q == SetToSeq(EodPlan(v))
    <3>2. /\ IsSeq(q) /\ 1 \in DOMAIN q
          /\ \A i \in DOMAIN q : q[i] \in EodPlan(v)
          /\ \A i, j \in DOMAIN q : q[i] = q[j] => i = j
      BY <3>1, PlanOrders, SetSeq
    <3>3. Submit(t, q, job[t])
      BY <3>1
    <3> HIDE DEF q
    <3>4. /\ \A i \in DOMAIN q : IsExit(q[i]) /\ q[i].sym \in Symbols
          /\ \A i, j \in DOMAIN q : q[i].sym = q[j].sym => i = j
      BY <3>2, PlanOrders
    <3>5. QED
      BY <1>0, <2>0, <3>1, <3>2, <3>3, <3>4, OnceAsks
  <2>3. CASE Goto(t, "after") /\ UNCHANGED <<exec, job, batch>>
    BY <1>1, <2>1, <2>3 DEF exec, Pcs
  <2>4. QED
    BY <1>4, <2>2, <2>3 DEF EodSubmit
<1>5. CASE EodFinish(t)
  <2>1. Goto(t, "after") /\ UNCHANGED <<queue, batch, job>> /\ slot' = "done" /\ "after" \in Pcs
    BY <1>5 DEF EodFinish, exec, Pcs
  <2>2. QED
    BY <1>1, <2>1
<1>6. CASE EodAfter(t)
  <2>1. /\ pc[t] = "after" /\ Goto(t, "ended") /\ UNCHANGED <<queue, batch, job, slot>>
        /\ "ended" \in Pcs
    BY <1>6 DEF EodAfter, Pcs
  <2>2. HasAsked(t) => slot = "done"
    BY <2>1 DEF OnceInv, AskedOnce, Past
  <2>3. QED
    BY <1>1, <2>1, <2>2
<1>7. QED
  BY <1>2, <1>3, <1>4, <1>5, <1>6

LEMMA OnceStep == SlotInv /\ OnceInv /\ [Next]_vars => OnceInv'
  BY OnceQuiet, OnceExecute, OnceSettles, OnceLoop, OnceMonitor, OnceSquareOff
     DEF Next, Loop, Monitor, Shared, Outside

\* The broker gets at most one square-off order per symbol, although the loop and the
\* monitor both call it, and a caller may give up on an order that goes through.
THEOREM SquareOffIsOnce == Spec => []SquareOffOnce
<1>1. OnceInv => SquareOffOnce
  BY DEF OnceInv, OnePlace, Twins, IsExit, SquareOffOnce
<1>2. QED
  BY <1>1, SlotInvInit, SlotInvStep, OnceInvInit, OnceStep, PTL DEF Spec

-----------------------------------------------------------------------------
(* The refinement                                                          *)

\* What SquareOff's variables stand for.
Phase == CASE slot = "free" -> "idle" [] slot = "busy" -> "running" [] OTHER -> "done"
Held == {s \in Symbols : ledger[s] # 0}
AskedSet == {s \in Symbols : AskedFor(s)}
Placements == [s \in Symbols |-> Cardinality(SquareOffOrders(s))]

LEMMA PromiseInit == Init => Promise!Init
<1> SUFFICES ASSUME Init PROVE Promise!Init
  OBVIOUS
<1>1. slot = "free" /\ ledger = [s \in Symbols |-> 0] /\ orders = << >>
      /\ batch = [t \in Threads |-> << >>]
  BY DEF Init, Flat
<1>2. Phase = "idle" /\ Held = {}
  BY <1>1 DEF Phase, Held
<1>3. AskedSet = {}
  BY <1>1 DEF AskedSet, AskedFor
<1>4. \A s : SquareOffOrders(s) = {}
  BY <1>1 DEF SquareOffOrders
<1>5. Placements = [s \in Symbols |-> 0]
  BY <1>4, FS_EmptySet DEF Placements
<1>6. QED
  BY <1>2, <1>3, <1>5 DEF Promise!Init, Phase, Held, AskedSet, Placements

\* Whatever becomes of the ledger, a step that leaves the rest alone is a Trade.
LEMMA TradeStep ==
    ASSUME Phase' = Phase, AskedSet' = AskedSet, Placements' = Placements
    PROVE  Promise!Next
<1>1. Held' \in SUBSET Symbols
  BY DEF Held
<1>2. Promise!Trade
  BY <1>1 DEF Promise!Trade, Phase, Held, AskedSet, Placements
<1>3. QED
  BY <1>2 DEF Promise!Next

LEMMA SameView ==
    ASSUME UNCHANGED <<slot, batch, orders>>
    PROVE  Phase' = Phase /\ AskedSet' = AskedSet /\ Placements' = Placements
  BY DEF Phase, AskedSet, AskedFor, Placements, SquareOffOrders

LEMMA PlaceStep ==
    ASSUME OnceInv, Executor
    PROVE  Promise!Next
<1>1. PICK i \in DOMAIN queue : Execute(i)
  BY DEF Executor
<1>2. UNCHANGED <<slot, batch, ledger>>
  BY <1>1 DEF Execute, threads, flags, books
<1>3. Phase' = Phase /\ AskedSet' = AskedSet /\ Held' = Held
  BY <1>2 DEF Phase, AskedSet, AskedFor, Held
<1>4. CASE UNCHANGED orders
  BY <1>2, <1>4, SameView, TradeStep
<1>5. CASE \E st \in OrderStates : orders' = Append(orders, Placed(queue[i], st))
  <2> DEFINE n == Len(orders) + 1
             r == queue[i]
  <2>1. /\ DOMAIN orders' = DOMAIN orders \cup {n} /\ n \notin DOMAIN orders
        /\ \A k \in DOMAIN orders : orders'[k] = orders[k]
        /\ orders'[n].sym = r.sym /\ orders'[n].act = r.act
    <3>1. Len(orders) \in Nat /\ DOMAIN orders = 1 .. Len(orders) /\ IsSeq(orders)
      BY SeqDomain DEF OnceInv, Shapes
    <3>2. PICK st \in OrderStates : orders' = Append(orders, Placed(r, st))
      BY <1>5
    <3>3. Placed(r, st).sym = r.sym /\ Placed(r, st).act = r.act
      BY DEF Placed
    <3>4. QED
      BY <3>1, <3>2, <3>3, AppendSeq
  <2> HIDE DEF n, r
  <2>2. PICK s : s = r.sym
    OBVIOUS
  <2>3. PICK k : k = n
    OBVIOUS
  <2>4. CASE ~IsExit(r)
    <3>1. \A x : SquareOffOrders(x)' = SquareOffOrders(x)
      BY <2>1, <2>4 DEF SquareOffOrders, IsExit
    <3>2. Placements' = Placements
      BY <3>1 DEF Placements
    <3>3. QED
      BY <1>3, <3>2, TradeStep
  <2>5. CASE IsExit(r)
    <3>1. s \in Symbols /\ AskedFor(s)
      BY <2>2, <2>5 DEF OnceInv, AskedFirst, r, AskedFor, IsExit
    <3>2. SquareOffOrders(s) = {}
      BY <2>2, <2>5 DEF OnceInv, OnePlace, Twins, IsExit, SquareOffOrders, r
    <3>3. /\ SquareOffOrders(s)' = {k}
          /\ \A x \in Symbols \ {s} : SquareOffOrders(x)' = SquareOffOrders(x)
      BY <2>1, <2>2, <2>3, <2>5, <3>2 DEF SquareOffOrders, IsExit
    <3>4. Cardinality({}) = 0 /\ Cardinality({k}) = 1
      BY FS_EmptySet, FS_Singleton
    <3>5. /\ Placements[s] = 0
          /\ Placements' = [Placements EXCEPT ![s] = 1]
      BY <3>1, <3>2, <3>3, <3>4 DEF Placements
    <3>6. Promise!Place(s)
      BY <1>3, <3>1, <3>5 DEF Promise!Place, Phase, Held, AskedSet, Placements
    <3>7. QED
      BY <3>1, <3>6 DEF Promise!Next
  <2>6. QED
    BY <2>4, <2>5
<1>6. QED
  BY <1>1, <1>4, <1>5 DEF Execute

LEMMA SettleStep ==
    ASSUME OnceInv, NEW i \in DOMAIN orders, OrderSettles(i)
    PROVE  Promise!Next
<1>1. UNCHANGED <<slot, batch>>
  BY DEF OrderSettles, threads, flags
<1>2. Phase' = Phase /\ AskedSet' = AskedSet
  BY <1>1 DEF Phase, AskedSet, AskedFor
<1>3. /\ DOMAIN orders' = DOMAIN orders
      /\ \A k \in DOMAIN orders : /\ orders'[k].sym = orders[k].sym
                                  /\ orders'[k].act = orders[k].act
  BY DEF OnceInv, Shapes, OrderSettles
<1>4. \A s : SquareOffOrders(s)' = SquareOffOrders(s)
  BY <1>3 DEF SquareOffOrders
<1>5. Placements' = Placements
  BY <1>4 DEF Placements
<1>6. QED
  BY <1>2, <1>5, TradeStep

\* A thread that has not asked submits something else.
LEMMA OtherSubmitStep ==
    ASSUME OnceInv, NEW t \in Threads, ~HasAsked(t), UNCHANGED <<slot, orders>>,
           NEW q, batch' = [batch EXCEPT ![t] = q], \A i \in DOMAIN q : ~IsExit(q[i])
    PROVE  Promise!Next
<1>1. batch'[t] = q /\ \A u \in Threads \ {t} : batch'[u] = batch[u]
  BY DEF OnceInv, Shapes
<1>2. \A s : AskedFor(s)' <=> AskedFor(s)
  BY <1>1 DEF AskedFor, HasAsked, IsExit
<1>3. Phase' = Phase /\ AskedSet' = AskedSet /\ Placements' = Placements
  BY <1>2 DEF Phase, AskedSet, Placements, SquareOffOrders
<1>4. QED
  BY <1>3, TradeStep

LEMMA LoopPromise ==
    ASSUME OnceInv,
           LoopTop \/ LoopFetch \/ LoopDecide \/ LoopRecorded \/ LoopCycled
    PROVE  Promise!Next
<1> DEFINE L == "loop"
<1>0. L \in Threads /\ UNCHANGED <<slot, orders>>
  BY DEF Threads, LoopTop, LoopFetch, LoopDecide, LoopRecorded, LoopCycled, flags, broker
<1>1. CASE UNCHANGED batch
  BY <1>0, <1>1, SameView, TradeStep
<1>2. CASE LoopDecide
  <2>1. ~HasAsked(L)
    BY <1>0, <1>2 DEF OnceInv, AskedOnce, Past, LoopDecide, AtLoop
  <2>2. PICK sig : \/ UNCHANGED batch
                   \/ Submit(L, SetToSeq(UNION {Scenario(s, sig[s]) : s \in active}), "cycle")
    <3>1. PICK sig \in [active -> {"HOLD", "STOP", "BUY", "SELL"}] :
             IF UNION {Scenario(s, sig[s]) : s \in active} = {}
             THEN Goto(L, "cycled") /\ UNCHANGED <<exec, batch, got, job>>
             ELSE Submit(L, SetToSeq(UNION {Scenario(s, sig[s]) : s \in active}), "cycle")
      BY <1>2, Zenon DEF LoopDecide
    <3>2. QED
      BY <3>1
  <2> DEFINE reqs == UNION {Scenario(s, sig[s]) : s \in active}
  <2>3. IsFiniteSet(reqs) /\ \A r \in reqs : ~IsExit(r)
    BY CycleOrders
  <2>4. CASE Submit(L, SetToSeq(reqs), "cycle")
    <3>1. PICK q : q = SetToSeq(reqs)
      OBVIOUS
    <3> HIDE DEF reqs
    <3>2. \A i \in DOMAIN q : ~IsExit(q[i])
      BY <2>3, <3>1, SetSeq
    <3>3. batch' = [batch EXCEPT ![L] = q]
      BY <2>4, <3>1 DEF Submit
    <3>4. QED
      BY <1>0, <2>1, <3>2, <3>3, OtherSubmitStep
  <2>5. QED
    BY <1>1, <2>2, <2>4
<1>3. QED
  BY <1>1, <1>2 DEF LoopTop, LoopFetch, LoopRecorded, LoopCycled

LEMMA MonitorPromise ==
    ASSUME OnceInv,
           MonitorStop \/ MonitorJoin \/ ExitRecord \/ \E s \in Symbols : ExitSubmit(s)
    PROVE  Promise!Next
<1> DEFINE M == "monitor"
<1>0. M \in Threads /\ UNCHANGED <<slot, orders>>
  BY DEF Threads, MonitorStop, MonitorJoin, ExitRecord, ExitSubmit, flags, broker
<1>1. CASE UNCHANGED batch
  BY <1>0, <1>1, SameView, TradeStep
<1>2. CASE \E s \in Symbols : ExitSubmit(s)
  <2>1. ~HasAsked(M)
    BY <1>0, <1>2 DEF OnceInv, AskedOnce, Past, ExitSubmit, Watching
  <2>2. \A s, d, q, a, h : a # "MARKET_CLOSE_EXIT" => ~IsExit(Request(s, d, q, a, h))
    BY DEF IsExit, Request
  <2>3. CASE \E r : ~IsExit(r) /\ Submit(M, <<r>>, "exit")
    <3>1. PICK r : ~IsExit(r) /\ Submit(M, <<r>>, "exit")
      BY <2>3
    <3>2. \A i \in DOMAIN <<r>> : ~IsExit(<<r>>[i])
      BY <3>1, SingletonSeq
    <3>3. QED
      BY <1>0, <2>1, <3>1, <3>2, OtherSubmitStep DEF Submit
  <2>4. QED
    BY <1>1, <1>2, <2>2, <2>3 DEF ExitSubmit
<1>3. QED
  BY <1>1, <1>2 DEF MonitorStop, MonitorJoin, ExitRecord

\* The square-off's own steps are its promise's.
LEMMA SquareOffPromise ==
    ASSUME SlotInv, OnceInv, NEW t \in Threads,
           Join(t) \/ EodBegin(t) \/ EodSubmit(t) \/ EodFinish(t) \/ EodAfter(t)
    PROVE  Promise!Next
<1>0. UNCHANGED orders
  BY DEF Join, EodBegin, EodSubmit, EodFinish, EodAfter, broker
<1>1. Placements' = Placements
  BY <1>0 DEF Placements, SquareOffOrders
<1>2. CASE UNCHANGED <<slot, batch>>
  BY <1>0, <1>2, SameView, TradeStep
<1>3. ASSUME UNCHANGED batch PROVE AskedSet' = AskedSet
  BY <1>3 DEF AskedSet, AskedFor
<1>4. CASE EodBegin(t) /\ slot = "free"
  <2>1. slot' = "busy" /\ UNCHANGED <<batch, ledger>>
    BY <1>4 DEF EodBegin, books
  <2>2. Phase = "idle" /\ Phase' = "running" /\ Held' = Held /\ AskedSet' = AskedSet
    BY <1>3, <1>4, <2>1 DEF Phase, Held
  <2>3. Promise!Begin
    BY <1>1, <2>2 DEF Promise!Begin, Phase, Held, AskedSet, Placements
  <2>4. QED
    BY <2>3 DEF Promise!Next
<1>5. CASE EodSubmit(t)
  <2>1. slot = "busy" /\ AskedSet = {} /\ Phase = "running"
    BY <1>5, NobodyAsked DEF EodSubmit, AskedSet, AskedFor, HasAsked, IsExit, Phase
  <2>2. CASE /\ LedgerOpen /\ slot' = "free" /\ UNCHANGED <<batch, ledger>>
    <3>1. Phase' = "idle" /\ Held # {} /\ Held' = Held /\ AskedSet' = AskedSet
      BY <1>3, <2>2 DEF Phase, Held, LedgerOpen
    <3>2. Promise!GiveUp
      BY <1>1, <2>1, <3>1 DEF Promise!GiveUp, Phase, Held, AskedSet, Placements
    <3>3. QED
      BY <3>2 DEF Promise!Next
  <2>3. CASE /\ ~LedgerOpen /\ slot' = "done" /\ ledger' = Flat /\ UNCHANGED batch
    <3>1. Phase' = "done" /\ Held = {} /\ Held' = {} /\ AskedSet' = AskedSet
      BY <1>3, <2>3 DEF Phase, Held, LedgerOpen, Flat
    <3>2. Promise!Finish
      BY <1>1, <2>1, <3>1 DEF Promise!Finish, Phase, Held, AskedSet, Placements
    <3>3. QED
      BY <3>2 DEF Promise!Next
  <2>4. CASE \E v : /\ EodPlan(v) # {} /\ Submit(t, SetToSeq(EodPlan(v)), job[t])
                    /\ UNCHANGED <<slot, ledger>>
    <3>1. PICK v : /\ EodPlan(v) # {} /\ Submit(t, SetToSeq(EodPlan(v)), job[t])
                   /\ UNCHANGED <<slot, ledger>>
      BY <2>4
    <3>2. PICK q : q = SetToSeq(EodPlan(v))
      OBVIOUS
    <3>3. 1 \in DOMAIN q /\ \A i \in DOMAIN q : q[i] \in EodPlan(v)
      BY <3>1, <3>2, PlanOrders, SetSeq
    <3>4. \A i \in DOMAIN q : IsExit(q[i]) /\ q[i].sym \in Symbols /\ ledger[q[i].sym] # 0
      BY <3>3, PlanOrders
    <3>5. batch' = [batch EXCEPT ![t] = q]
      BY <3>1, <3>2 DEF Submit
    <3>6. batch'[t] = q /\ \A u \in Threads \ {t} : batch'[u] = batch[u]
      BY <3>5 DEF OnceInv, Shapes
    <3>7. PICK S : S = {s \in Symbols : \E i \in DOMAIN q : q[i].sym = s}
      OBVIOUS
    <3>8. \A s \in Symbols : AskedFor(s)' <=> s \in S
      <4>1. \A u \in Threads : ~HasAsked(u)
        BY <1>5, NobodyAsked DEF EodSubmit
      <4>2. QED
        BY <3>4, <3>6, <3>7, <4>1 DEF AskedFor, HasAsked, IsExit
    <3>9. AskedSet' = S
      BY <3>7, <3>8 DEF AskedSet
    <3>10. S # {} /\ S \subseteq Held /\ S \in SUBSET Symbols
      BY <3>3, <3>4, <3>7 DEF Held
    <3>11. Phase' = Phase /\ Held' = Held
      BY <3>1 DEF Phase, Held
    <3>12. Promise!Ask(S)
      BY <1>1, <2>1, <3>9, <3>10, <3>11
         DEF Promise!Ask, Phase, Held, AskedSet, Placements
    <3>13. QED
      BY <3>10, <3>12 DEF Promise!Next
  <2>5. QED
    BY <1>5, <2>2, <2>3, <2>4 DEF EodSubmit
<1>6. CASE EodFinish(t)
  <2>1. HasAsked(t) /\ slot = "busy"
    BY <1>6 DEF EodFinish, OnceInv, AskedOnce, SlotInv, OneSquareOff, Squaring
  <2>2. PICK i \in DOMAIN batch[t] : IsExit(batch[t][i])
    BY <2>1 DEF HasAsked
  <2>3. batch[t][i].sym \in Symbols
    BY <2>2 DEF OnceInv, AskedFirst
  <2>4. AskedSet # {}
    BY <2>2, <2>3 DEF AskedSet, AskedFor, IsExit
  <2>5. slot' = "done" /\ ledger' = Flat /\ UNCHANGED batch
    BY <1>6 DEF EodFinish
  <2>6. Phase = "running" /\ Phase' = "done" /\ Held' = {} /\ AskedSet' = AskedSet
    BY <1>3, <2>1, <2>5 DEF Phase, Held, Flat
  <2>7. Promise!Finish
    BY <1>1, <2>4, <2>6 DEF Promise!Finish, Phase, Held, AskedSet, Placements
  <2>8. QED
    BY <2>7 DEF Promise!Next
<1>7. QED
  BY <1>2, <1>4, <1>5, <1>6 DEF Join, EodBegin, EodAfter, flags

LEMMA PromiseStep ==
    ASSUME SlotInv, OnceInv, [Next]_vars
    PROVE  Promise!Next
<1>1. CASE UNCHANGED <<slot, batch, orders>>
  BY <1>1, SameView, TradeStep
<1>2. CASE Executor
  BY <1>2, PlaceStep
<1>3. CASE \E i \in DOMAIN orders : OrderSettles(i)
  BY <1>3, SettleStep
<1>4. ASSUME \/ \E s \in Symbols, d \in {Buy, Sell} : UserTrades(s, d)
             \/ MarketCloses \/ WorkerStop \/ Reconciler \/ LoopRecord \/ UNCHANGED vars
             \/ \E t \in Threads : Collect(t) \/ CollectTimeout(t) \/ EodRecord(t)
      PROVE  UNCHANGED <<slot, batch, orders>>
  BY <1>4 DEF UserTrades, MarketCloses, WorkerStop, Reconciler, ReconcileBegin,
              ReconcileFetch, ReconcileOrder, ReconcileEnd, ReconcileSymbol, LoopRecord,
              Collect, CollectTimeout, EodRecord, vars, flags, threads, broker
<1>5. QED
  BY <1>1, <1>2, <1>3, <1>4, LoopPromise, MonitorPromise, SquareOffPromise
     DEF Next, Loop, Monitor, Shared, Outside

\* Whoever calls _exit_all_positions_and_stop - the market close, the loop's shutdown or the
\* monitor's - and however often try_begin_eod_exit lets one of them in again, the engine
\* implements SquareOff.
THEOREM EngineSquaresOff == Spec => KeepsPromise
<1>1. SlotInv /\ OnceInv /\ [Next]_vars => [Promise!Next]_(Promise!squareOffVars)
  BY PromiseStep
<1>2. QED
  BY <1>1, PromiseInit, SlotInvInit, SlotInvStep, OnceInvInit, OnceStep, PTL
     DEF Spec, KeepsPromise, Promise!Spec
=============================================================================
