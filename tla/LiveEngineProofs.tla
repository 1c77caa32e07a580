-------------------------- MODULE LiveEngineProofs --------------------------
(***************************************************************************)
(* Proofs about LiveEngine for every set of symbols, quantities, bounds    *)
(* and irregularities.                                                     *)
(***************************************************************************)
EXTENDS LiveEngine, DataLemmas

Pcs == {"top", "fetch", "decide", "collect", "record", "cycled", "begin", "plan", "after",
        "watch", "joining", "ended"}
Jobs == {"cycle", "exit"} \cup SquareOffs

\* A thread that has turned to the square-off has kept the reason in job.
KnowsWhy == \A t \in Threads : pc[t] \in {"begin", "plan", "after"} => job[t] \in SquareOffs

\* The inductive invariant of OneSquareOff.
SlotInv ==
    /\ pc \in [Threads -> Pcs]
    /\ job \in [Threads -> Jobs]
    /\ KnowsWhy
    /\ OneSquareOff

\* Thread t goes to p with job j.
Moves(t, p, j) == pc' = [pc EXCEPT ![t] = p] /\ job' = [job EXCEPT ![t] = j]
SquaringAt(p, j) == p = "plan" \/ (p \in {"collect", "record"} /\ j \in SquareOffs)

-----------------------------------------------------------------------------
(* Where a thread may go                                                   *)

LEMMA MovesOne ==
    ASSUME SlotInv, NEW t \in Threads, NEW p \in Pcs, NEW j \in Jobs, Moves(t, p, j),
           p \in {"begin", "plan", "after"} => j \in SquareOffs
    PROVE  /\ pc' \in [Threads -> Pcs] /\ job' \in [Threads -> Jobs] /\ KnowsWhy'
           /\ Squaring(t)' <=> SquaringAt(p, j)
           /\ \A u \in Threads \ {t} : Squaring(u)' <=> Squaring(u)
  BY DEF SlotInv, Moves, KnowsWhy, Squaring, SquaringAt

\* A step outside the square-off, or one that stays inside it, keeps the slot.
LEMMA MovesQuietly ==
    ASSUME SlotInv, NEW t \in Threads, NEW p \in Pcs, NEW j \in Jobs, Moves(t, p, j),
           p \in {"begin", "plan", "after"} => j \in SquareOffs,
           Squaring(t) <=> SquaringAt(p, j), slot' = slot
    PROVE  SlotInv'
<1>1. \A u \in Threads : Squaring(u)' <=> Squaring(u)
  BY MovesOne
<1>2. OneSquareOff'
  BY <1>1 DEF SlotInv, OneSquareOff
<1>3. QED
  BY <1>2, MovesOne DEF SlotInv

\* A thread enters only when the slot is free, that is when nobody is inside.
LEMMA MovesIn ==
    ASSUME SlotInv, NEW t \in Threads, NEW j \in SquareOffs, Moves(t, "plan", j),
           slot = "free", slot' = "busy"
    PROVE  SlotInv'
<1>1. \A u \in Threads : ~Squaring(u)
  BY DEF SlotInv, OneSquareOff
<1>2. /\ pc' \in [Threads -> Pcs] /\ job' \in [Threads -> Jobs] /\ KnowsWhy'
      /\ Squaring(t)' <=> SquaringAt("plan", j)
      /\ \A u \in Threads \ {t} : Squaring(u)' <=> Squaring(u)
  <2>1. "plan" \in Pcs /\ j \in Jobs
    BY DEF Pcs, Jobs
  <2>2. QED
    BY <2>1, MovesOne
<1>3. OneSquareOff'
  BY <1>1, <1>2 DEF OneSquareOff, SquaringAt
<1>4. QED
  BY <1>2, <1>3 DEF SlotInv

\* A thread leaves and gives the slot back: nobody else was inside.
LEMMA MovesOut ==
    ASSUME SlotInv, NEW t \in Threads, NEW j \in SquareOffs, Moves(t, "after", j),
           Squaring(t), slot' \in {"free", "done"}
    PROVE  SlotInv'
<1>1. \A u \in Threads \ {t} : ~Squaring(u)
  BY DEF SlotInv, OneSquareOff
<1>2. /\ pc' \in [Threads -> Pcs] /\ job' \in [Threads -> Jobs] /\ KnowsWhy'
      /\ Squaring(t)' <=> SquaringAt("after", j)
      /\ \A u \in Threads \ {t} : Squaring(u)' <=> Squaring(u)
  <2>1. "after" \in Pcs /\ j \in Jobs
    BY DEF Pcs, Jobs
  <2>2. QED
    BY <2>1, MovesOne
<1>3. \A u \in Threads : ~Squaring(u)'
  BY <1>1, <1>2 DEF SquaringAt
<1>4. OneSquareOff'
  BY <1>3 DEF OneSquareOff
<1>5. QED
  BY <1>2, <1>4 DEF SlotInv

LEMMA StaysPut ==
    ASSUME SlotInv, UNCHANGED <<pc, job, slot>>
    PROVE  SlotInv'
  BY DEF SlotInv, KnowsWhy, OneSquareOff, Squaring

\* Leaving the job alone is keeping it.
LEMMA KeepsJob ==
    ASSUME SlotInv, NEW t \in Threads, NEW p \in Pcs, Goto(t, p), UNCHANGED job
    PROVE  Moves(t, p, job[t]) /\ job[t] \in Jobs
  BY DEF SlotInv, Moves, Goto

-----------------------------------------------------------------------------
(* One lemma per group of actions                                          *)

LEMMA QuietSteps ==
    ASSUME SlotInv,
           \/ Executor \/ Outside \/ Reconciler \/ LoopRecord \/ UNCHANGED vars
           \/ \E t \in Threads : Collect(t) \/ CollectTimeout(t) \/ EodRecord(t)
    PROVE  SlotInv'
<1>1. UNCHANGED <<pc, job, slot>>
  BY DEF Executor, Execute, Outside, OrderSettles, UserTrades, MarketCloses, WorkerStop,
         Reconciler, ReconcileBegin, ReconcileFetch, ReconcileOrder, ReconcileEnd,
         ReconcileSymbol, LoopRecord, Collect, CollectTimeout, EodRecord, vars, flags,
         threads
<1>2. QED
  BY <1>1, StaysPut

LEMMA LoopSteps ==
    ASSUME SlotInv,
           LoopTop \/ LoopFetch \/ LoopDecide \/ LoopRecorded \/ LoopCycled
    PROVE  SlotInv'
<1> DEFINE L == "loop"
<1>0. L \in Threads /\ slot' = slot
  BY DEF Threads, LoopTop, LoopFetch, LoopDecide, LoopRecorded, LoopCycled, flags
<1>1. CASE LoopTop
  <2>1. PICK p \in {"begin", "fetch", "ended"}, j \in Jobs :
           Moves(L, p, j) /\ (p = "begin" => j \in SquareOffs)
    <3>1. CASE \E why \in SquareOffs : BeginSquareOff(L, why)
      BY <3>1 DEF BeginSquareOff, Moves, Goto, Jobs
    <3>2. CASE \E p \in {"fetch", "ended"} : Goto(L, p) /\ UNCHANGED job
      BY <3>2, <1>0, KeepsJob DEF Pcs
    <3>3. QED
      BY <1>1, <3>1, <3>2 DEF LoopTop, SquareOffs
  <2>2. pc[L] = "top"
    BY <1>1 DEF LoopTop, AtLoop
  <2>3. p \in Pcs /\ (Squaring(L) <=> SquaringAt(p, j))
    BY <2>1, <2>2 DEF Pcs, Squaring, SquaringAt
  <2>4. QED
    BY <1>0, <2>1, <2>3, MovesQuietly
<1>2. CASE LoopFetch
  <2>1. PICK p \in {"decide", "ended"} : Goto(L, p)
    BY <1>2 DEF LoopFetch
  <2>2. pc[L] = "fetch" /\ UNCHANGED job
    BY <1>2 DEF LoopFetch, AtLoop
  <2>3. p \in Pcs /\ (Squaring(L) <=> SquaringAt(p, job[L]))
    BY <2>1, <2>2 DEF Pcs, Squaring, SquaringAt
  <2>4. QED
    BY <1>0, <2>1, <2>2, <2>3, KeepsJob, MovesQuietly
<1>3. CASE LoopDecide
  <2>1. PICK p \in {"cycled", "collect"}, j \in Jobs :
           Moves(L, p, j) /\ (p = "collect" => j = "cycle")
    <3>1. CASE Goto(L, "cycled") /\ UNCHANGED job
      BY <3>1, <1>0, KeepsJob DEF Pcs
    <3>2. CASE \E reqs : Submit(L, reqs, "cycle")
      BY <3>2 DEF Submit, Moves, Jobs
    <3>3. QED
      BY <1>3, <3>1, <3>2 DEF LoopDecide
  <2>2. pc[L] = "decide"
    BY <1>3 DEF LoopDecide, AtLoop
  <2>3. p \in Pcs /\ (Squaring(L) <=> SquaringAt(p, j))
    BY <2>1, <2>2 DEF Pcs, Squaring, SquaringAt, SquareOffs
  <2>4. QED
    BY <1>0, <2>1, <2>3, MovesQuietly
<1>4. CASE LoopRecorded
  <2>1. pc[L] = "record" /\ job[L] = "cycle" /\ Goto(L, "cycled") /\ UNCHANGED job
    BY <1>4 DEF LoopRecorded, AtLoop
  <2>2. "cycled" \in Pcs /\ (Squaring(L) <=> SquaringAt("cycled", job[L]))
    BY <2>1 DEF Pcs, Squaring, SquaringAt, SquareOffs
  <2>3. QED
    BY <1>0, <2>1, <2>2, KeepsJob, MovesQuietly
<1>5. CASE LoopCycled
  <2>1. PICK p \in {"begin", "top"}, j \in Jobs :
           Moves(L, p, j) /\ (p = "begin" => j \in SquareOffs)
    <3>1. CASE BeginSquareOff(L, "close")
      BY <3>1 DEF BeginSquareOff, Moves, Goto, Jobs, SquareOffs
    <3>2. CASE Goto(L, "top") /\ UNCHANGED job
      BY <3>2, <1>0, KeepsJob DEF Pcs
    <3>3. QED
      BY <1>5, <3>1, <3>2 DEF LoopCycled
  <2>2. pc[L] = "cycled"
    BY <1>5 DEF LoopCycled, AtLoop
  <2>3. p \in Pcs /\ (Squaring(L) <=> SquaringAt(p, j))
    BY <2>1, <2>2 DEF Pcs, Squaring, SquaringAt
  <2>4. QED
    BY <1>0, <2>1, <2>3, MovesQuietly
<1>6. QED
  BY <1>1, <1>2, <1>3, <1>4, <1>5

LEMMA MonitorSteps ==
    ASSUME SlotInv,
           MonitorStop \/ MonitorJoin \/ ExitRecord \/ \E s \in Symbols : ExitSubmit(s)
    PROVE  SlotInv'
<1> DEFINE M == "monitor"
<1>0. M \in Threads /\ slot' = slot
  BY DEF Threads, MonitorStop, MonitorJoin, ExitRecord, ExitSubmit, flags
<1>1. CASE MonitorStop
  <2>1. PICK p \in {"joining", "ended"} : Goto(M, p)
    BY <1>1 DEF MonitorStop
  <2>2. pc[M] = "watch" /\ UNCHANGED job
    BY <1>1 DEF MonitorStop, Watching
  <2>3. p \in Pcs /\ (Squaring(M) <=> SquaringAt(p, job[M]))
    BY <2>1, <2>2 DEF Pcs, Squaring, SquaringAt
  <2>4. QED
    BY <1>0, <2>1, <2>2, <2>3, KeepsJob, MovesQuietly
<1>2. CASE MonitorJoin
  <2>1. pc[M] = "joining" /\ Moves(M, "begin", "shut")
    BY <1>2 DEF MonitorJoin, BeginSquareOff, Goto, Moves
  <2>2. /\ "begin" \in Pcs /\ "shut" \in Jobs /\ "shut" \in SquareOffs
        /\ Squaring(M) <=> SquaringAt("begin", "shut")
    BY <2>1 DEF Pcs, Jobs, SquareOffs, Squaring, SquaringAt
  <2>3. QED
    BY <1>0, <2>1, <2>2, MovesQuietly
<1>3. CASE ExitRecord
  <2>1. pc[M] = "record" /\ job[M] = "exit" /\ Goto(M, "watch") /\ UNCHANGED job
    BY <1>3 DEF ExitRecord
  <2>2. "watch" \in Pcs /\ (Squaring(M) <=> SquaringAt("watch", job[M]))
    BY <2>1 DEF Pcs, Squaring, SquaringAt, SquareOffs
  <2>3. QED
    BY <1>0, <2>1, <2>2, KeepsJob, MovesQuietly
<1>4. CASE \E s \in Symbols : ExitSubmit(s)
  <2>1. CASE UNCHANGED <<pc, job>>
    BY <1>0, <2>1, StaysPut
  <2>2. CASE \E reqs : Submit(M, reqs, "exit")
    <3>1. pc[M] = "watch" /\ Moves(M, "collect", "exit")
      BY <1>4, <2>2 DEF ExitSubmit, Watching, Submit, Moves
    <3>2. /\ "collect" \in Pcs /\ "exit" \in Jobs
          /\ Squaring(M) <=> SquaringAt("collect", "exit")
      BY <3>1 DEF Pcs, Jobs, SquareOffs, Squaring, SquaringAt
    <3>3. QED
      BY <1>0, <3>1, <3>2, MovesQuietly
  <2>3. QED
    BY <1>4, <2>1, <2>2 DEF ExitSubmit
<1>5. QED
  BY <1>1, <1>2, <1>3, <1>4

LEMMA SquareOffSteps ==
    ASSUME SlotInv, NEW t \in Threads,
           Join(t) \/ EodBegin(t) \/ EodSubmit(t) \/ EodFinish(t) \/ EodAfter(t)
    PROVE  SlotInv'
<1>1. CASE Join(t)
  <2>1. pc[t] = "collect" /\ Goto(t, "record") /\ UNCHANGED <<job, slot>>
    BY <1>1 DEF Join, Goto, flags
  <2>2. "record" \in Pcs /\ (Squaring(t) <=> SquaringAt("record", job[t]))
    BY <2>1 DEF Pcs, Squaring, SquaringAt
  <2>3. QED
    BY <2>1, <2>2, KeepsJob, MovesQuietly
<1>2. CASE EodBegin(t)
  <2>0. pc[t] = "begin" /\ job[t] \in SquareOffs /\ UNCHANGED job /\ ~Squaring(t)
    BY <1>2 DEF EodBegin, SlotInv, KnowsWhy, Squaring
  <2>1. CASE slot = "free"
    <3>1. slot' = "busy" /\ Goto(t, "plan") /\ "plan" \in Pcs
      BY <1>2, <2>1 DEF EodBegin, Pcs
    <3>2. QED
      BY <2>0, <2>1, <3>1, KeepsJob, MovesIn
  <2>2. CASE slot # "free"
    <3>1. slot' = slot /\ Goto(t, "after") /\ "after" \in Pcs
      BY <1>2, <2>2 DEF EodBegin, Pcs
    <3>2. ~SquaringAt("after", job[t])
      BY DEF SquaringAt
    <3>3. QED
      BY <2>0, <3>1, <3>2, KeepsJob, MovesQuietly
  <2>3. QED
    BY <2>1, <2>2
<1>3. CASE EodSubmit(t)
  <2>0. pc[t] = "plan" /\ job[t] \in SquareOffs /\ job[t] \in Jobs /\ Squaring(t)
    BY <1>3 DEF EodSubmit, SlotInv, KnowsWhy, Squaring, Jobs
  <2>1. CASE slot' = slot /\ \E reqs : Submit(t, reqs, job[t])
    <3>1. Moves(t, "collect", job[t])
      BY <2>1 DEF Submit, Moves
    <3>2. "collect" \in Pcs /\ SquaringAt("collect", job[t])
      BY <2>0 DEF Pcs, SquaringAt
    <3>3. QED
      BY <2>0, <2>1, <3>1, <3>2, MovesQuietly
  <2>2. CASE slot' \in {"free", "done"} /\ Goto(t, "after") /\ UNCHANGED job
    <3>1. "after" \in Pcs
      BY DEF Pcs
    <3>2. QED
      BY <2>0, <2>2, <3>1, KeepsJob, MovesOut
  <2>3. QED
    BY <1>3, <2>1, <2>2 DEF EodSubmit
<1>4. CASE EodFinish(t)
  <2>1. /\ pc[t] = "record" /\ job[t] \in SquareOffs /\ Squaring(t)
        /\ slot' = "done" /\ Goto(t, "after") /\ UNCHANGED job /\ "after" \in Pcs
    BY <1>4 DEF EodFinish, Squaring, Pcs
  <2>2. QED
    BY <2>1, KeepsJob, MovesOut
<1>5. CASE EodAfter(t)
  <2>1. pc[t] = "after" /\ Goto(t, "ended") /\ UNCHANGED <<job, slot>> /\ "ended" \in Pcs
    BY <1>5 DEF EodAfter, Pcs
  <2>2. Squaring(t) <=> SquaringAt("ended", job[t])
    BY <2>1 DEF Squaring, SquaringAt
  <2>3. QED
    BY <2>1, <2>2, KeepsJob, MovesQuietly
<1>6. QED
  BY <1>1, <1>2, <1>3, <1>4, <1>5

-----------------------------------------------------------------------------

LEMMA SlotInvInit == Init => SlotInv
  BY DEF Init, SlotInv, KnowsWhy, OneSquareOff, Squaring, Threads, Pcs, Jobs

LEMMA SlotInvStep == SlotInv /\ [Next]_vars => SlotInv'
  BY QuietSteps, LoopSteps, MonitorSteps, SquareOffSteps
     DEF Next, Loop, Monitor, Shared

\* The loop's square-off at the market close, its shutdown and the monitor's shutdown
\* exclude each other, and a taken slot always has a thread that will give it back
\* (try_begin_eod_exit, mark_eod_exit_done, release_eod_exit_in_progress).
THEOREM SquareOffExclusive == Spec => []OneSquareOff
<1>1. SlotInv => OneSquareOff
  BY DEF SlotInv
<1>2. QED
  BY <1>1, SlotInvInit, SlotInvStep, PTL DEF Spec

-----------------------------------------------------------------------------
(* Types                                                                   *)

Acts == Opens \cup Flips \cup Exits
Orders == [sym : Symbols, side : {Buy, Sell}, qty : Nat \ {0}, act : Acts,
           state : {"open", "filled", "rejected"}]
Outcomes(n) == [req : Requests, id : 0 .. n]
Taken(n) == [req : Requests, id : 1 .. n]

\* What is on its way between the threads, the executor and the broker.
ItemTypes ==
    /\ orders \in Seq(Orders)
    /\ queue \in Seq(Requests)
    /\ results \in Seq(Outcomes(Len(orders)))
    /\ batch \in [Threads -> Seq(Requests)]
    /\ got \in [Threads -> Seq(Outcomes(Len(orders)))]
    /\ pending \in [Symbols -> Seq(Taken(Len(orders)))]
    /\ rcopy \in Seq([sym : Symbols, ctx : Taken(Len(orders))])

\* A caller has submitted something when it collects, and has got something when an exit
\* is recorded; what it has dealt with is gone.
Answered ==
    \A t \in Threads :
        /\ pc[t] \notin {"collect", "record"} => got[t] = << >>
        /\ pc[t] \in {"collect", "record"} => batch[t] # << >>
        /\ pc[t] = "record" /\ job[t] = "exit" => got[t] # << >>

BookTypes ==
    /\ manual \in [Symbols -> Int] /\ positions \in [Symbols -> Int]
    /\ ledger \in [Symbols -> Int] /\ cache \in [Symbols -> Int]
    /\ view \in [Symbols -> Int] /\ rview \in [Symbols -> Int]
    /\ reserved \in [Symbols -> Nat]

FlagTypes ==
    /\ irregular \in Irregular
    /\ late \in BOOLEAN /\ stop \in BOOLEAN /\ wstop \in BOOLEAN
    /\ executor \in {"none", "running", "stopped"}
    /\ sized \subseteq Symbols /\ exited \subseteq Symbols /\ exitDocs \subseteq Symbols
    /\ active \subseteq Symbols /\ rleft \subseteq Symbols
    /\ slot \in {"free", "busy", "done"}
    /\ exits \in Nat
    /\ rpc \in {"idle", "fetch", "scan", "ended"}

TypeInv == ItemTypes /\ Answered /\ BookTypes /\ FlagTypes

-----------------------------------------------------------------------------
(* Numbers and requests                                                    *)

LEMMA Signs ==
    ASSUME NEW n \in Int
    PROVE  /\ Sign(n) \in {1, 0, -1} /\ Size(n) \in Nat
           /\ n # 0 => Sign(n) \in {Buy, Sell} /\ -Sign(n) \in {Buy, Sell} /\ Size(n) # 0
<1>1. \A x \in Int : x < 0 \/ x = 0 \/ x > 0
  OBVIOUS
<1>2. CASE n > 0
  BY <1>2 DEF Sign, Size, Buy, Sell
<1>3. CASE n < 0
  <2>1. Sign(n) = Sell /\ Size(n) \in Nat /\ Size(n) # 0
    BY <1>3 DEF Sign, Size, Sell
  <2>2. -Sell = Buy
    <3>1. \A x \in Int : x + 1 = 0 => -x = 1
      OBVIOUS
    <3>2. Sell \in Int /\ Sell + 1 = 0
      BY DEF Sell
    <3>3. QED
      BY <3>1, <3>2 DEF Buy
  <2>3. QED
    BY <2>1, <2>2 DEF Sell
<1>4. CASE n = 0
  BY <1>4 DEF Sign, Size
<1>5. QED
  BY <1>1, <1>2, <1>3, <1>4

LEMMA ExitQtyTyped ==
    ASSUME BookTypes, NEW s \in Symbols, NEW n \in Int
    PROVE  ExitQty(s, n) \in Nat /\ (n # 0 => ExitQty(s, n) # 0)
<1>1. ledger[s] \in Int
  BY DEF BookTypes
<1>2. QED
  BY <1>1 DEF ExitQty, Least, Size

LEMMA ScenarioTyped ==
    ASSUME BookTypes, NEW s \in Symbols, NEW sig
    PROVE  Scenario(s, sig) \subseteq Requests
<1>1. view[s] \in Int /\ Lot \in Nat \ {0}
  BY EngineAssumption DEF BookTypes
<1>2. ExitQty(s, view[s]) \in Nat
      /\ (view[s] # 0 => ExitQty(s, view[s]) # 0 /\ 2 * ExitQty(s, view[s]) \in Nat \ {0})
  BY <1>1, ExitQtyTyped
<1> DEFINE q == ExitQty(s, view[s])
<1> HIDE DEF q
<1>3. view[s] # 0 => StopLoss(s) \subseteq Requests
  <2>1. StopLoss(s) = {Request(s, -Sign(view[s]), q, "STOP_LOSS", Sign(view[s]))
                          : x \in {0} \ {q}}
    BY DEF StopLoss, q
  <2>2. ASSUME view[s] # 0, q # 0
        PROVE  Request(s, -Sign(view[s]), q, "STOP_LOSS", Sign(view[s])) \in Requests
    <3>1. /\ -Sign(view[s]) \in {Buy, Sell} /\ Sign(view[s]) \in {Buy, Sell, 0}
          /\ q \in Nat \ {0} /\ "STOP_LOSS" \in Opens \cup Flips \cup Exits
      BY <1>1, <1>2, <2>2, Signs DEF q, Exits
    <3>2. QED
      BY <3>1 DEF Request, Requests
  <2>3. q = 0 => {0} \ {q} = {}
    OBVIOUS
  <2>4. QED
    BY <2>1, <2>2, <2>3
<1>4. ASSUME NEW d \in {Buy, Sell}
      PROVE  /\ Open(s, d) \subseteq Requests /\ Expand(s, d) \subseteq Requests
             /\ view[s] # 0 => Flip(s, d) \subseteq Requests
  <2>1. \A a \in Opens : Request(s, d, Lot, a, 0) \in Requests
    BY <1>1 DEF Request, Requests
  <2>2. view[s] # 0 => \A a \in Flips : Request(s, d, 2 * q, a, 0) \in Requests
    BY <1>2 DEF Request, Requests, q
  <2>3. Open(s, d) \subseteq Requests
    BY <2>1 DEF Open, Opens
  <2>4. Expand(s, d) \subseteq Requests
    BY <2>1 DEF Expand, Opens
  <2>5. view[s] # 0 => Flip(s, d) \subseteq Requests
    BY <2>2 DEF Flip, Flips, q
  <2>6. QED
    BY <2>3, <2>4, <2>5
<1>5. QED
  <2>1. CASE sig = "STOP"
    BY <1>3, <2>1 DEF Scenario
  <2>2. CASE sig # "STOP" /\ Scenario(s, sig) # {}
    <3> DEFINE d == IF sig = "BUY" THEN Buy ELSE Sell
    <3>1. Scenario(s, sig) = CASE view[s] = 0 -> Open(s, d)
                               [] Sign(view[s]) = -d -> Flip(s, d)
                               [] OTHER -> Expand(s, d)
      BY <2>2 DEF Scenario
    <3>2. d \in {Buy, Sell} /\ Sign(0) # -d
      BY DEF Sign, Buy, Sell
    <3> HIDE DEF d
    <3>3. QED
      BY <1>4, <3>1, <3>2
  <2>3. QED
    BY <2>1, <2>2

LEMMA PlanTyped ==
    ASSUME BookTypes, NEW v \in [Symbols -> Int]
    PROVE  EodPlan(v) \subseteq Requests
<1>1. ASSUME NEW s \in Symbols, ledger[s] # 0, Sign(v[s]) = Sign(ledger[s])
      PROVE  Request(s, -Sign(v[s]), Least(Size(ledger[s]), Size(v[s])),
                     "MARKET_CLOSE_EXIT", 0) \in Requests
  <2>1. ledger[s] \in Int /\ v[s] \in Int
    BY DEF BookTypes
  <2>2. v[s] # 0
    BY <1>1, <2>1 DEF Sign
  <2>3. /\ -Sign(v[s]) \in {Buy, Sell}
        /\ Least(Size(ledger[s]), Size(v[s])) \in Nat \ {0}
        /\ "MARKET_CLOSE_EXIT" \in Opens \cup Flips \cup Exits
    BY <1>1, <2>1, <2>2, Signs DEF Least, Exits
  <2>4. QED
    BY <2>3 DEF Request, Requests
<1>2. QED
  BY <1>1 DEF EodPlan

\* What the broker answers is a number for every symbol.
LEMMA EngineTyped ==
    ASSUME ItemTypes, NEW s \in Symbols
    PROVE  Engine(s) \in Int
<1>1. \A i \in DOMAIN orders : orders[i].side \in Int /\ orders[i].qty \in Int
  <2>1. \A i \in DOMAIN orders : orders[i] \in Orders
    BY DEF ItemTypes
  <2>2. \A o \in Orders : o.side \in Int /\ o.qty \in Int
    BY DEF Orders, Buy, Sell
  <2>3. QED
    BY <2>1, <2>2
<1>2. \A i \in DOMAIN orders : Bought[i] \in Int
  BY <1>1 DEF Bought
<1>3. Filled(s) \subseteq DOMAIN orders /\ IsFiniteSet(DOMAIN orders)
  <2>1. Len(orders) \in Nat /\ DOMAIN orders = 1 .. Len(orders)
    BY DEF ItemTypes
  <2>2. QED
    BY <2>1, FS_Interval DEF Filled
<1>4. IsFiniteSet(Filled(s)) /\ \A i \in Filled(s) : Bought[i] \in Int
  BY <1>2, <1>3, FS_Subset
<1>5. QED
  BY <1>4, SumTyped DEF Engine

LEMMA ViewsTyped ==
    ASSUME ItemTypes, BookTypes
    PROVE  BrokerViews \subseteq [Symbols -> Int]
<1>1. \A s \in Symbols : Engine(s) + manual[s] \in Int
  BY EngineTyped DEF BookTypes
<1>2. QED
  BY <1>1 DEF BrokerViews, Flat

LEMMA SeqWidens ==
    ASSUME NEW S, NEW T, S \subseteq T
    PROVE  Seq(S) \subseteq Seq(T)
  OBVIOUS

\* More orders, more ids.
LEMMA IdsGrow ==
    ASSUME NEW m \in Nat, NEW n \in Nat, m <= n
    PROVE  /\ Seq(Outcomes(m)) \subseteq Seq(Outcomes(n))
           /\ Seq(Taken(m)) \subseteq Seq(Taken(n))
           /\ Seq([sym : Symbols, ctx : Taken(m)]) \subseteq Seq([sym : Symbols, ctx : Taken(n)])
           /\ Taken(n) \subseteq Outcomes(n)
<1>1. 0 .. m \subseteq 0 .. n /\ 1 .. m \subseteq 1 .. n /\ 1 .. n \subseteq 0 .. n
  OBVIOUS
<1>2. /\ Outcomes(m) \subseteq Outcomes(n) /\ Taken(m) \subseteq Taken(n)
      /\ Taken(n) \subseteq Outcomes(n)
  BY <1>1 DEF Outcomes, Taken
<1> HIDE DEF Outcomes, Taken
<1>3. [sym : Symbols, ctx : Taken(m)] \subseteq [sym : Symbols, ctx : Taken(n)]
  BY <1>2
<1>4. QED
  BY <1>2, <1>3, SeqWidens

-----------------------------------------------------------------------------
(* Where orders and results go                                             *)

LEMMA ItemsStay ==
    ASSUME ItemTypes, UNCHANGED <<orders, queue, results, batch, got, pending, rcopy>>
    PROVE  ItemTypes'
  BY DEF ItemTypes

\* A worker takes the i-th order off the queue: it reaches the broker with the next id or
\* not at all, and the result says so, or says that it failed.
Takes(i, o, n) ==
    /\ queue' = RemoveAt(queue, i)
    /\ results' = Append(results, o)
    /\ o.req = queue[i] /\ o = Outcome(queue[i], o.id) /\ o.id \in {0, n}
    /\ \/ orders' = orders /\ o.id = 0 /\ May("reject")
       \/ /\ \E st \in OrderStates : orders' = Append(orders, Placed(queue[i], st))
          /\ n = Len(orders) + 1
          /\ o.id = 0 => May("timeout")

LEMMA ExecuteTakes ==
    ASSUME ItemTypes, Executor
    PROVE  /\ \E i \in DOMAIN queue : \E o : Takes(i, o, Len(orders) + 1)
           /\ UNCHANGED <<irregular, late, manual, executor, pending, books, reserved, cache,
                          flags, loopVars, threads, recVars>>
<1>1. PICK i \in DOMAIN queue : Execute(i)
  BY DEF Executor
<1>2. \A k : Outcome(queue[i], k).req = queue[i] /\ Outcome(queue[i], k).id = k
  BY DEF Outcome
<1>3. Len(orders) + 1 # 0
  BY DEF ItemTypes
<1>4. \E o : Takes(i, o, Len(orders) + 1)
  <2>1. CASE /\ \E st \in OrderStates : orders' = Append(orders, Placed(queue[i], st))
             /\ results' = Append(results, Outcome(queue[i], Len(orders) + 1))
    BY <1>1, <1>2, <1>3, <2>1 DEF Takes, Execute
  <2>2. CASE /\ May("reject")
             /\ results' = Append(results, Outcome(queue[i], 0))
             /\ UNCHANGED orders
    BY <1>1, <1>2, <2>2 DEF Takes, Execute
  <2>3. CASE /\ May("timeout")
             /\ \E st \in OrderStates : orders' = Append(orders, Placed(queue[i], st))
             /\ results' = Append(results, Outcome(queue[i], 0))
    BY <1>1, <1>2, <2>3 DEF Takes, Execute
  <2>4. QED
    BY <1>1, <2>1, <2>2, <2>3 DEF Execute
<1>5. QED
  BY <1>1, <1>4 DEF Execute

LEMMA PlacedTyped ==
    ASSUME NEW r \in Requests, NEW st \in OrderStates
    PROVE  Placed(r, st) \in Orders
<1>1. st \in {"open", "filled", "rejected"}
  BY DEF OrderStates
<1>2. QED
  BY <1>1 DEF Placed, Orders, Requests, Acts

LEMMA ExecuteItems ==
    ASSUME ItemTypes, Executor
    PROVE  ItemTypes'
<1>0. PICK i \in DOMAIN queue : \E o : Takes(i, o, Len(orders) + 1)
  BY ExecuteTakes
<1>1. PICK o : Takes(i, o, Len(orders) + 1)
  BY <1>0
<1>2. UNCHANGED <<batch, got, pending, rcopy>>
  BY ExecuteTakes DEF threads, recVars
<1>3. queue[i] \in Requests /\ Len(orders) \in Nat
  BY DEF ItemTypes
<1>4. queue' \in Seq(Requests)
  BY <1>1, RemoveTyped DEF Takes, ItemTypes
<1>5. CASE orders' = orders /\ o.id = 0
  <2>1. o \in Outcomes(Len(orders))
    BY <1>1, <1>3, <1>5 DEF Takes, Outcome, Outcomes
  <2>2. results' \in Seq(Outcomes(Len(orders)))
    BY <1>1, <2>1 DEF Takes, ItemTypes
  <2>3. QED
    BY <1>2, <1>4, <1>5, <2>2 DEF ItemTypes
<1>6. CASE \E st \in OrderStates : orders' = Append(orders, Placed(queue[i], st))
  <2>1. PICK p \in Orders : orders' = Append(orders, p)
    BY <1>3, <1>6, PlacedTyped
  <2> DEFINE n == Len(orders)
             m == Len(orders) + 1
  <2>2. orders' \in Seq(Orders) /\ Len(orders') = m
    BY <2>1 DEF ItemTypes
  <2>3. n \in Nat /\ m \in Nat /\ n <= m
    BY <1>3
  <2>4. o \in Outcomes(m)
    BY <1>1, <1>3 DEF Takes, Outcome, Outcomes
  <2> HIDE DEF n, m
  <2>5. /\ Seq(Outcomes(n)) \subseteq Seq(Outcomes(m))
        /\ Seq(Taken(n)) \subseteq Seq(Taken(m))
        /\ Seq([sym : Symbols, ctx : Taken(n)]) \subseteq Seq([sym : Symbols, ctx : Taken(m)])
    BY <2>3, IdsGrow
  <2>6. /\ results \in Seq(Outcomes(n)) /\ got \in [Threads -> Seq(Outcomes(n))]
        /\ pending \in [Symbols -> Seq(Taken(n))]
        /\ rcopy \in Seq([sym : Symbols, ctx : Taken(n)])
        /\ batch \in [Threads -> Seq(Requests)]
    BY DEF ItemTypes, n
  <2>7. results' \in Seq(Outcomes(m))
    BY <1>1, <2>4, <2>5, <2>6 DEF Takes
  <2>8. got' \in [Threads -> Seq(Outcomes(m))] /\ pending' \in [Symbols -> Seq(Taken(m))]
    BY <1>2, <2>5, <2>6
  <2>9. rcopy' \in Seq([sym : Symbols, ctx : Taken(m)]) /\ batch' \in [Threads -> Seq(Requests)]
    BY <1>2, <2>5, <2>6
  <2>10. QED
    BY <1>4, <2>2, <2>7, <2>8, <2>9 DEF ItemTypes
<1>7. QED
  BY <1>1, <1>5, <1>6 DEF Takes

LEMMA SettlesItems ==
    ASSUME ItemTypes, NEW i \in DOMAIN orders, OrderSettles(i)
    PROVE  ItemTypes'
<1>1. PICK st \in {"filled", "rejected"} : orders' = [orders EXCEPT ![i].state = st]
  BY DEF OrderSettles
<1>2. UNCHANGED <<queue, results, batch, got, pending, rcopy>>
  BY DEF OrderSettles, exec, threads, recVars
<1>3. /\ Len(orders) \in Nat /\ DOMAIN orders = 1 .. Len(orders)
      /\ \A k \in DOMAIN orders : orders[k] \in Orders
  BY DEF ItemTypes
<1>4. \A k \in DOMAIN orders : orders'[k] \in Orders
  BY <1>1, <1>3 DEF Orders
<1>5. orders' \in [1 .. Len(orders) -> Orders]
  BY <1>1, <1>3, <1>4
<1>6. orders' \in Seq(Orders) /\ Len(orders') = Len(orders)
  BY <1>3, <1>5
<1>7. QED
  BY <1>2, <1>6 DEF ItemTypes

\* Orders are submitted.
LEMMA SubmitItems ==
    ASSUME ItemTypes, NEW t \in Threads, NEW q \in Seq(Requests), NEW w, Submit(t, q, w),
           UNCHANGED <<orders, pending, rcopy>>
    PROVE  ItemTypes'
<1>1. queue' = queue \o q /\ batch' = [batch EXCEPT ![t] = q] /\ got' = [got EXCEPT ![t] = << >>]
      /\ results' = results
  BY DEF Submit
<1>2. queue' \in Seq(Requests)
  BY <1>1 DEF ItemTypes
<1>3. batch' \in [Threads -> Seq(Requests)]
  BY <1>1 DEF ItemTypes
<1>4. got' \in [Threads -> Seq(Outcomes(Len(orders)))]
  BY <1>1 DEF ItemTypes
<1>5. QED
  BY <1>1, <1>2, <1>3, <1>4 DEF ItemTypes

\* A thread gets a result, or goes on to its next one.
LEMMA GotItems ==
    ASSUME ItemTypes, NEW t \in Threads, NEW q \in Seq(Outcomes(Len(orders))),
           got' = [got EXCEPT ![t] = q], results' \in Seq(Outcomes(Len(orders))),
           pending' \in [Symbols -> Seq(Taken(Len(orders)))],
           UNCHANGED <<orders, queue, batch, rcopy>>
    PROVE  ItemTypes'
<1>1. got' \in [Threads -> Seq(Outcomes(Len(orders)))]
  BY DEF ItemTypes
<1>2. QED
  BY <1>1 DEF ItemTypes

\* A placed order becomes pending.
LEMMA PendingItems ==
    ASSUME ItemTypes, NEW s \in Symbols, NEW o \in Taken(Len(orders)), AddPending(s, o)
    PROVE  pending' \in [Symbols -> Seq(Taken(Len(orders)))]
<1> DEFINE P == Taken(Len(orders))
<1>1. pending \in [Symbols -> Seq(P)] /\ o \in P
  BY DEF ItemTypes
<1> HIDE DEF P
<1>2. pending' = [pending EXCEPT ![s] = Append(@, o)]
  BY DEF AddPending
<1>3. Append(pending[s], o) \in Seq(P)
  BY <1>1
<1>4. pending' \in [Symbols -> Seq(P)]
  BY <1>1, <1>2, <1>3
<1>5. QED
  BY <1>4 DEF P

LEMMA OutcomePlaced ==
    ASSUME NEW n \in Nat, NEW o \in Outcomes(n), o.id # 0
    PROVE  o \in Taken(n) /\ o.req.sym \in Symbols
           /\ [o EXCEPT !.req.act = "MARKET_CLOSE_EXIT", !.req.held = o.req.side] \in Taken(n)
<1>1. o.req \in Requests /\ o.id \in 1 .. n
  BY DEF Outcomes
<1>2. o \in Taken(n) /\ o.req.sym \in Symbols
  BY <1>1 DEF Outcomes, Taken, Requests
<1>3. [o EXCEPT !.req.act = "MARKET_CLOSE_EXIT", !.req.held = o.req.side] \in Taken(n)
  BY <1>1 DEF Outcomes, Taken, Requests, Exits
<1>4. QED
  BY <1>2, <1>3

LEMMA CollectItems ==
    ASSUME ItemTypes, NEW t \in Threads, Collect(t) \/ CollectTimeout(t)
    PROVE  ItemTypes'
<1> DEFINE O == Outcomes(Len(orders))
<1>0. results \in Seq(O) /\ got[t] \in Seq(O) /\ batch[t] \in Seq(Requests) /\ Len(orders) \in Nat
      /\ pending \in [Symbols -> Seq(Taken(Len(orders)))]
  BY DEF ItemTypes
<1>1. UNCHANGED <<orders, queue, pending, batch, rcopy>>
  BY DEF Collect, CollectTimeout, broker, exec, recVars
<1>2. CASE Collect(t)
  <2>1. /\ got' = [got EXCEPT ![t] = Append(got[t], Head(results))]
        /\ results' = Tail(results) /\ results # << >>
    BY <1>2 DEF Collect
  <2> HIDE DEF O
  <2>2. Append(got[t], Head(results)) \in Seq(O) /\ Tail(results) \in Seq(O)
    BY <1>0, <2>1
  <2>3. QED
    BY <1>0, <1>1, <2>1, <2>2, GotItems DEF O
<1>3. CASE CollectTimeout(t)
  <2> DEFINE o == Outcome(batch[t][Len(got[t]) + 1], 0)
  <2>1. /\ got' = [got EXCEPT ![t] = Append(got[t], o)]
        /\ results' = results /\ Len(got[t]) < Len(batch[t])
    BY <1>3 DEF CollectTimeout, exec
  <2>2. batch[t][Len(got[t]) + 1] \in Requests
    <3>1. Len(got[t]) + 1 \in 1 .. Len(batch[t])
      BY <1>0, <2>1
    <3>2. QED
      BY <1>0, <3>1
  <2>3. o \in O
    BY <1>0, <2>2 DEF Outcome, Outcomes
  <2> HIDE DEF O, o
  <2>4. Append(got[t], o) \in Seq(O)
    BY <1>0, <2>3
  <2>5. QED
    BY <1>0, <1>1, <2>1, <2>4, GotItems DEF O
<1>4. QED
  BY <1>2, <1>3

\* The recorded result and what it does to the pending orders.
LEMMA RecordStep ==
    ASSUME LoopRecord \/ \E t \in Threads : EodRecord(t)
    PROVE  \E t \in Threads :
              /\ got[t] # << >> /\ got' = [got EXCEPT ![t] = Tail(got[t])]
              /\ UNCHANGED <<orders, queue, results, batch, rcopy>>
              /\ LET res == Head(got[t]) IN
                 \/ pending' = pending
                 \/ /\ res.id # 0
                    /\ \/ AddPending(res.req.sym, res)
                       \/ AddPending(res.req.sym, [res EXCEPT !.req.act = "MARKET_CLOSE_EXIT",
                                                              !.req.held = res.req.side])
<1>1. CASE LoopRecord
  <2>1. "loop" \in Threads
    BY DEF Threads
  <2>2. QED
    BY <1>1, <2>1 DEF LoopRecord, broker, exec, recVars
<1>2. ASSUME NEW t \in Threads, EodRecord(t)
      PROVE  /\ got[t] # << >> /\ got' = [got EXCEPT ![t] = Tail(got[t])]
             /\ UNCHANGED <<orders, queue, results, batch, rcopy>>
             /\ LET res == Head(got[t]) IN
                \/ pending' = pending
                \/ /\ res.id # 0
                   /\ AddPending(res.req.sym, [res EXCEPT !.req.act = "MARKET_CLOSE_EXIT",
                                                          !.req.held = res.req.side])
  BY <1>2 DEF EodRecord, broker, exec, recVars
<1>3. QED
  BY <1>1, <1>2

\* A result is recorded by the loop or by the thread that squares off: if the order was
\* placed it becomes pending.
LEMMA RecordItems ==
    ASSUME ItemTypes, LoopRecord \/ \E t \in Threads : EodRecord(t)
    PROVE  ItemTypes'
<1>1. PICK t \in Threads :
         /\ got[t] # << >> /\ got' = [got EXCEPT ![t] = Tail(got[t])]
         /\ UNCHANGED <<orders, queue, results, batch, rcopy>>
         /\ LET res == Head(got[t]) IN
            \/ pending' = pending
            \/ /\ res.id # 0
               /\ \/ AddPending(res.req.sym, res)
                  \/ AddPending(res.req.sym, [res EXCEPT !.req.act = "MARKET_CLOSE_EXIT",
                                                         !.req.held = res.req.side])
  BY RecordStep
<1> DEFINE O == Outcomes(Len(orders))
           res == Head(got[t])
<1>2. got[t] \in Seq(O) /\ Len(orders) \in Nat /\ results \in Seq(O)
      /\ pending \in [Symbols -> Seq(Taken(Len(orders)))]
  BY DEF ItemTypes
<1>3. res \in O /\ Tail(got[t]) \in Seq(O)
  <2> HIDE DEF O
  <2>1. QED
    BY <1>1, <1>2
<1> HIDE DEF res
<1>4. pending' \in [Symbols -> Seq(Taken(Len(orders)))]
  <2>1. CASE pending' = pending
    BY <1>2, <2>1
  <2>2. CASE pending' # pending
    <3>1. res.id # 0
      BY <1>1, <2>2 DEF res
    <3>2. /\ res \in Taken(Len(orders)) /\ res.req.sym \in Symbols
          /\ [res EXCEPT !.req.act = "MARKET_CLOSE_EXIT", !.req.held = res.req.side]
                \in Taken(Len(orders))
      BY <1>2, <1>3, <3>1, OutcomePlaced
    <3>3. \/ AddPending(res.req.sym, res)
          \/ AddPending(res.req.sym, [res EXCEPT !.req.act = "MARKET_CLOSE_EXIT",
                                                 !.req.held = res.req.side])
      BY <1>1, <2>2 DEF res
    <3>4. QED
      BY <3>2, <3>3, PendingItems
  <2>3. QED
    BY <2>1, <2>2
<1> HIDE DEF O
<1>5. Tail(got[t]) \in Seq(Outcomes(Len(orders))) /\ results' \in Seq(Outcomes(Len(orders)))
  BY <1>1, <1>2, <1>3 DEF O
<1>6. UNCHANGED <<orders, queue, batch, rcopy>> /\ got' = [got EXCEPT ![t] = Tail(got[t])]
  BY <1>1
<1>7. QED
  BY <1>4, <1>5, <1>6, GotItems

\* The result of a manual exit is recorded for the symbol asked for.
LEMMA ExitRecordItems ==
    ASSUME ItemTypes, Answered, ExitRecord
    PROVE  ItemTypes'
<1> DEFINE M == "monitor"
           O == Outcomes(Len(orders))
           res == Head(got[M])
           s == batch[M][1].sym
<1>0. M \in Threads /\ got[M] # << >> /\ batch[M] # << >>
  BY DEF Threads, Answered, ExitRecord
<1>1. /\ got' = [got EXCEPT ![M] = << >>]
      /\ UNCHANGED <<orders, queue, results, batch, rcopy>>
      /\ \/ pending' = pending
         \/ res.id # 0 /\ AddPending(s, res)
  BY DEF ExitRecord, broker, exec, recVars
<1>2. got[M] \in Seq(O) /\ Len(orders) \in Nat /\ results \in Seq(O) /\ batch[M] \in Seq(Requests)
      /\ pending \in [Symbols -> Seq(Taken(Len(orders)))]
  BY <1>0 DEF ItemTypes
<1>3. s \in Symbols
  <2>1. batch[M][1] \in Requests
    BY <1>0, <1>2
  <2>2. QED
    BY <2>1 DEF Requests
<1>4. res \in O
  <2> HIDE DEF O, M
  <2>1. QED
    BY <1>0, <1>2
<1> HIDE DEF res, s
<1>5. pending' \in [Symbols -> Seq(Taken(Len(orders)))]
  <2>1. CASE res.id # 0 /\ AddPending(s, res)
    <3>1. res \in Taken(Len(orders))
      BY <1>2, <1>4, <2>1, OutcomePlaced
    <3>2. QED
      BY <1>3, <2>1, <3>1, PendingItems
  <2>2. QED
    BY <1>1, <1>2, <2>1
<1>6. << >> \in Seq(Outcomes(Len(orders))) /\ results' \in Seq(Outcomes(Len(orders)))
  BY <1>1, <1>2
<1> HIDE DEF M
<1>7. QED
  BY <1>0, <1>1, <1>5, <1>6, GotItems

-----------------------------------------------------------------------------
(* The reconciler                                                          *)

\* What it looks at is the copy's first entry.
Looks(s, c) == rcopy # << >> /\ s = Head(rcopy).sym /\ c = Head(rcopy).ctx

LEMMA LooksTyped ==
    ASSUME ItemTypes, NEW s, NEW c, Looks(s, c)
    PROVE  /\ s \in Symbols /\ c \in Taken(Len(orders)) /\ c.id \in DOMAIN orders
           /\ c.req \in Requests /\ c.req.qty \in Nat \ {0} /\ c.req.side \in {Buy, Sell}
           /\ c.req.act \in Opens \cup Flips \cup Exits
<1> DEFINE E == [sym : Symbols, ctx : Taken(Len(orders))]
<1>1. rcopy \in Seq(E) /\ rcopy # << >> /\ orders \in Seq(Orders)
  BY DEF ItemTypes, Looks
<1>2. Head(rcopy) \in E
  <2> HIDE DEF E
  <2>1. QED
    BY <1>1
<1>3. s \in Symbols /\ c \in Taken(Len(orders))
  BY <1>2 DEF Looks
<1>4. c.req \in Requests /\ c.id \in 1 .. Len(orders)
  BY <1>3 DEF Taken
<1>5. QED
  BY <1>1, <1>3, <1>4 DEF Requests

\* What a reconciled order does: nothing, or its context leaves the list.
LEMMA OrderReconciled ==
    ASSUME ReconcileOrder
    PROVE  \E s, c, seen :
              /\ Looks(s, c) /\ seen \in FillsSeen(c.id)
              /\ \/ Keep
                 \/ /\ Settle(s, c)
                    /\ \/ \E q, priced : HandleFilled(s, c.req, q, priced)
                       \/ UNCHANGED books
              /\ rcopy' = Tail(rcopy)
              /\ UNCHANGED <<broker, exec, cache, flags, loopVars, threads, rleft, rview, rpc>>
<1> DEFINE s == Head(rcopy).sym
           c == Head(rcopy).ctx
<1>1. PICK seen \in FillsSeen(c.id) :
         ReconcileFlip(s, c, seen) \/ ReconcileListed(s, c, seen) \/ ReconcileGone(s, c, seen)
         \/ ReconcileExpire(s, c)
  BY DEF ReconcileOrder
<1>2. Looks(s, c) /\ rcopy' = Tail(rcopy)
      /\ UNCHANGED <<broker, exec, cache, flags, loopVars, threads, rleft, rview, rpc>>
  BY DEF ReconcileOrder, Looks
<1> HIDE DEF s, c
<1>3. \/ Keep
      \/ /\ Settle(s, c)
         /\ \/ \E q, priced : HandleFilled(s, c.req, q, priced)
            \/ UNCHANGED books
  <2>1. CASE ReconcileFlip(s, c, seen)
    BY <2>1 DEF ReconcileFlip
  <2>2. CASE ReconcileListed(s, c, seen)
    BY <2>2 DEF ReconcileListed
  <2>3. CASE ReconcileGone(s, c, seen)
    BY <2>3 DEF ReconcileGone
  <2>4. CASE ReconcileExpire(s, c)
    BY <2>4 DEF ReconcileExpire
  <2>5. QED
    BY <1>1, <2>1, <2>2, <2>3, <2>4
<1>4. QED
  BY <1>1, <1>2, <1>3

LEMMA ReconcileItems ==
    ASSUME ItemTypes, ReconcileOrder
    PROVE  ItemTypes'
<1> DEFINE P == Taken(Len(orders))
           E == [sym : Symbols, ctx : P]
<1>1. PICK s, c : /\ Looks(s, c) /\ rcopy' = Tail(rcopy)
                  /\ Keep \/ Settle(s, c)
                  /\ UNCHANGED <<orders, queue, results, batch, got>>
  BY OrderReconciled DEF broker, exec, threads
<1>2. s \in Symbols /\ rcopy # << >>
  BY <1>1, LooksTyped DEF Looks
<1>3. pending \in [Symbols -> Seq(P)] /\ rcopy \in Seq(E)
  BY DEF ItemTypes
<1> HIDE DEF P, E
<1>4. pending' \in [Symbols -> Seq(P)]
  <2>1. CASE Keep
    BY <1>3, <2>1 DEF Keep
  <2>2. CASE Settle(s, c)
    <3>1. pending' = [pending EXCEPT ![s] = RemoveFirst(pending[s], c)]
      BY <2>2 DEF Settle
    <3>2. RemoveFirst(pending[s], c) \in Seq(P)
      BY <1>2, <1>3, RemoveFirstTyped
    <3> DEFINE q == RemoveFirst(pending[s], c)
    <3> HIDE DEF q
    <3>3. QED
      BY <1>2, <1>3, <3>1, <3>2 DEF q
  <2>3. QED
    BY <1>1, <2>1, <2>2
<1>5. rcopy' \in Seq(E)
  BY <1>1, <1>2, <1>3
<1>6. QED
  BY <1>1, <1>4, <1>5 DEF ItemTypes, P, E

LEMMA CopyItems ==
    ASSUME ItemTypes, NEW s \in Symbols, ReconcileSymbol(s)
    PROVE  ItemTypes'
<1> DEFINE P == Taken(Len(orders))
           E == [sym : Symbols, ctx : P]
<1>1. /\ rcopy' = [i \in DOMAIN pending[s] |-> [sym |-> s, ctx |-> pending[s][i]]]
      /\ UNCHANGED <<orders, queue, results, batch, got, pending>>
  BY DEF ReconcileSymbol, broker, exec, threads
<1>2. pending[s] \in Seq(P)
  BY DEF ItemTypes
<1>3. rcopy' \in Seq(E)
  <2> HIDE DEF P
  <2>1. /\ Len(pending[s]) \in Nat /\ DOMAIN pending[s] = 1 .. Len(pending[s])
        /\ \A i \in DOMAIN pending[s] : pending[s][i] \in P
    BY <1>2
  <2>2. rcopy' \in [1 .. Len(pending[s]) -> E]
    BY <1>1, <2>1
  <2> HIDE DEF E
  <2>3. QED
    BY <2>1, <2>2, FunctionSeq
<1>4. QED
  BY <1>1, <1>3 DEF ItemTypes

LEMMA ReleasedTyped ==
    ASSUME BookTypes, NEW s \in Symbols, NEW q \in Nat
    PROVE  Released(reserved, s, q) \in [Symbols -> Nat]
<1>1. reserved \in [Symbols -> Nat]
  BY DEF BookTypes
<1>2. \A m \in Nat : (IF m > q THEN m - q ELSE 0) \in Nat
  OBVIOUS
<1>3. QED
  BY <1>1, <1>2 DEF Released

\* What a fill does to the books of its symbol.
LEMMA FillTyped ==
    ASSUME BookTypes, FlagTypes, NEW s \in Symbols, NEW req, req.side \in {Buy, Sell},
           req.act \in Opens \cup Flips \cup Exits, NEW q \in Int, NEW priced,
           HandleFilled(s, req, q, priced)
    PROVE  /\ positions' \in [Symbols -> Int] /\ ledger' \in [Symbols -> Int]
           /\ exited' \subseteq Symbols /\ exitDocs' \subseteq Symbols
<1>1. /\ positions \in [Symbols -> Int] /\ ledger \in [Symbols -> Int]
      /\ exited \subseteq Symbols /\ exitDocs \subseteq Symbols /\ req.side \in Int
  BY DEF BookTypes, FlagTypes, Buy, Sell
<1>2. \A m \in Int : Sign(m) \in Int
  BY DEF Sign
<1>3. \A m \in Int : m - Sign(m) * q \in Int /\ m + Sign(m) * q \in Int /\ m + req.side * q \in Int
                     /\ req.side * q \in Int
  BY <1>1, <1>2
<1>4. Closed(s, q) \in [Symbols -> Int] /\ Added(s, req.side, q) \in [Symbols -> Int]
  BY <1>1, <1>3 DEF Closed, Added
<1>5. Tracked(s, req.side, q) => ledger' \in [Symbols -> Int]
  BY <1>1, <1>3 DEF Tracked
<1>6. [positions EXCEPT ![s] = 0] \in [Symbols -> Int]
  BY <1>1
<1>7. CASE req.act \in Exits
  BY <1>1, <1>4, <1>5, <1>6, <1>7 DEF HandleFilled
<1>8. CASE req.act \in Flips
  BY <1>1, <1>4, <1>5, <1>8 DEF HandleFilled, Exits, Flips
<1>9. CASE req.act \in Opens
  BY <1>1, <1>4, <1>5, <1>9 DEF HandleFilled, Exits, Flips, Opens
<1>10. QED
  BY <1>7, <1>8, <1>9

LEMMA ReconcileBooks ==
    ASSUME ItemTypes, BookTypes, FlagTypes, ReconcileOrder
    PROVE  /\ positions' \in [Symbols -> Int] /\ ledger' \in [Symbols -> Int]
           /\ exited' \subseteq Symbols /\ exitDocs' \subseteq Symbols
           /\ reserved' \in [Symbols -> Nat]
<1> DEFINE s == Head(rcopy).sym
           c == Head(rcopy).ctx
<1>1. PICK seen \in FillsSeen(c.id) :
         ReconcileFlip(s, c, seen) \/ ReconcileListed(s, c, seen) \/ ReconcileGone(s, c, seen)
         \/ ReconcileExpire(s, c)
  BY DEF ReconcileOrder
<1>2. Looks(s, c)
  BY DEF ReconcileOrder, Looks
<1> HIDE DEF s, c
<1>3. /\ s \in Symbols /\ c.req.qty \in Nat /\ c.req.side \in {Buy, Sell}
      /\ c.req.act \in Opens \cup Flips \cup Exits /\ c.id \in DOMAIN orders
  BY <1>2, LooksTyped
<1>4. seen \in Nat
  <2>1. orders[c.id].qty \in Nat
    <3>1. orders[c.id] \in Orders
      BY <1>3 DEF ItemTypes
    <3>2. QED
      BY <3>1 DEF Orders
  <2>2. QED
    BY <1>1, <2>1 DEF FillsSeen
<1>5. Size(rview[s]) \in Nat
  BY <1>3, Signs DEF BookTypes
<1>6. \/ Keep
      \/ /\ Settle(s, c)
         /\ \/ \E priced : \E q \in Int : HandleFilled(s, c.req, q, priced)
            \/ UNCHANGED books
  <2>1. CASE ReconcileFlip(s, c, seen) \/ ReconcileGone(s, c, seen)
    <3>1. Keep \/ (HandleFilled(s, c.req, seen, TRUE) /\ Settle(s, c))
      BY <2>1 DEF ReconcileFlip, ReconcileGone
    <3>2. seen \in Int
      BY <1>4
    <3>3. QED
      BY <3>1, <3>2
  <2>2. CASE ReconcileListed(s, c, seen)
    <3>1. Least(Size(rview[s]), IF seen > 0 THEN seen ELSE c.req.qty) \in Int
      BY <1>3, <1>4, <1>5 DEF Least
    <3>2. QED
      BY <2>2, <3>1 DEF ReconcileListed
  <2>3. CASE ReconcileExpire(s, c)
    BY <2>3 DEF ReconcileExpire
  <2>4. QED
    BY <1>1, <2>1, <2>2, <2>3
<1>7. CASE Keep
  BY <1>7 DEF Keep, books, BookTypes, FlagTypes
<1>8. CASE Settle(s, c)
  <2>1. reserved' \in [Symbols -> Nat]
    BY <1>3, <1>8, ReleasedTyped DEF Settle
  <2>2. CASE UNCHANGED books
    BY <2>1, <2>2 DEF books, BookTypes, FlagTypes
  <2>3. CASE \E priced : \E q \in Int : HandleFilled(s, c.req, q, priced)
    BY <1>3, <2>1, <2>3, FillTyped
  <2>4. CASE Keep
    BY <2>4 DEF Keep, books, BookTypes, FlagTypes
  <2>5. QED
    BY <1>6, <2>2, <2>3, <2>4
<1>9. QED
  BY <1>6, <1>7, <1>8

-----------------------------------------------------------------------------
(* What a caller waits for                                                 *)

LEMMA AnsweredStays ==
    ASSUME Answered, UNCHANGED <<pc, job, batch, got>>
    PROVE  Answered'
  BY DEF Answered

\* A thread moves on, with nothing left of what it got, or to its results.
LEMMA AnsweredMoves ==
    ASSUME Answered, SlotInv, NEW t \in Threads, NEW p, NEW j, Moves(t, p, j),
           UNCHANGED <<batch, got>>,
           p \notin {"collect", "record"} => got[t] = << >>,
           p \in {"collect", "record"} => batch[t] # << >> /\ got[t] # << >>
    PROVE  Answered'
<1>1. pc'[t] = p /\ job'[t] = j /\ \A u \in Threads \ {t} : pc'[u] = pc[u] /\ job'[u] = job[u]
  BY DEF Moves, SlotInv
<1>2. QED
  BY <1>1 DEF Answered

\* Getting a result, and dealing with one that is no exit's, moves nobody.
LEMMA AnsweredGot ==
    ASSUME Answered, ItemTypes, NEW t \in Threads, NEW q, got' = [got EXCEPT ![t] = q],
           UNCHANGED <<pc, job, batch>>, pc[t] \in {"collect", "record"},
           pc[t] = "record" => job[t] # "exit"
    PROVE  Answered'
<1>1. got'[t] = q /\ \A u \in Threads \ {t} : got'[u] = got[u]
  BY DEF ItemTypes
<1>2. QED
  BY <1>1 DEF Answered

LEMMA AnsweredSubmits ==
    ASSUME Answered, ItemTypes, SlotInv, NEW t \in Threads, NEW q, q # << >>, NEW w,
           Submit(t, q, w)
    PROVE  Answered'
<1>1. /\ got'[t] = << >> /\ batch'[t] = q /\ pc'[t] = "collect"
      /\ \A u \in Threads \ {t} : /\ got'[u] = got[u] /\ batch'[u] = batch[u]
                                  /\ pc'[u] = pc[u] /\ job'[u] = job[u]
  BY DEF Submit, ItemTypes, SlotInv
<1>2. QED
  BY <1>1 DEF Answered

\* What a thread submits.
LEMMA CycleTyped ==
    ASSUME BookTypes, FlagTypes, NEW sig
    PROVE  LET reqs == UNION {Scenario(s, sig[s]) : s \in active}
           IN reqs \subseteq Requests /\ IsFiniteSet(reqs)
<1> DEFINE f == [s \in active |-> Scenario(s, sig[s])]
           T == {f[s] : s \in active}
<1>1. active \subseteq Symbols /\ IsFiniteSet(active)
  BY EngineAssumption, FS_Subset DEF FlagTypes
<1>2. IsFiniteSet(T)
  <2>1. f \in Surjection(active, T)
    BY DEF Surjection
  <2>2. QED
    BY <1>1, <2>1, FS_Surjection
<1>3. ASSUME NEW s \in active
      PROVE  IsFiniteSet(Scenario(s, sig[s])) /\ Scenario(s, sig[s]) \subseteq Requests
  <2>1. \A A : (\E r : A \subseteq {r}) => IsFiniteSet(A)
    BY FS_Singleton, FS_Subset
  <2>2. \E r : Scenario(s, sig[s]) \subseteq {r}
    <3>1. /\ \E r : StopLoss(s) \subseteq {r}
          /\ \A d : /\ \E r : Open(s, d) \subseteq {r}
                    /\ \E r : Flip(s, d) \subseteq {r}
                    /\ \E r : Expand(s, d) \subseteq {r}
      BY DEF StopLoss, Open, Flip, Expand
    <3>2. \/ Scenario(s, sig[s]) \subseteq StopLoss(s)
          \/ \E d : Scenario(s, sig[s]) \in {Open(s, d), Flip(s, d), Expand(s, d)}
      <4> DEFINE d == IF sig[s] = "BUY" THEN Buy ELSE Sell
      <4>1. CASE Scenario(s, sig[s]) # {} /\ sig[s] # "STOP"
        <5>1. Scenario(s, sig[s]) \in {Open(s, d), Flip(s, d), Expand(s, d)}
          BY <4>1 DEF Scenario
        <5> HIDE DEF d
        <5>2. QED
          BY <5>1
      <4>2. CASE sig[s] = "STOP"
        BY <4>2 DEF Scenario
      <4>3. QED
        BY <4>1, <4>2
    <3>3. QED
      BY <3>1, <3>2
  <2>3. QED
    BY <1>1, <2>1, <2>2, ScenarioTyped
<1>4. \A x \in T : IsFiniteSet(x) /\ x \subseteq Requests
  BY <1>3
<1>5. IsFiniteSet(UNION T) /\ UNION T \subseteq Requests
  BY <1>2, <1>4, FS_UNION
<1>6. UNION T = UNION {Scenario(s, sig[s]) : s \in active}
  OBVIOUS
<1>7. QED
  BY <1>5, <1>6

LEMMA PlanFinite ==
    ASSUME NEW v
    PROVE  IsFiniteSet(EodPlan(v))
<1> DEFINE X == {x \in Symbols : ledger[x] # 0 /\ Sign(v[x]) = Sign(ledger[x])}
           R(s) == Request(s, -Sign(v[s]), Least(Size(ledger[s]), Size(v[s])),
                           "MARKET_CLOSE_EXIT", 0)
           f == [s \in X |-> R(s)]
<1>1. IsFiniteSet(X)
  BY EngineAssumption, FS_Subset
<1>2. EodPlan(v) = {f[s] : s \in X}
  BY DEF EodPlan
<1> HIDE DEF X
<1>3. f \in Surjection(X, {f[s] : s \in X})
  BY DEF Surjection
<1>4. QED
  BY <1>1, <1>2, <1>3, FS_Surjection

\* A submitted set is a sequence that is not empty.
LEMMA SubmittedSeq ==
    ASSUME NEW S, S \subseteq Requests, IsFiniteSet(S), S # {}
    PROVE  SetToSeq(S) \in Seq(Requests) /\ SetToSeq(S) # << >>
<1>1. SetToSeq(S) \in Seq(Requests)
  BY SetSeqTyped
<1>2. 1 \in DOMAIN SetToSeq(S)
  BY SetSeq
<1>3. QED
  BY <1>1, <1>2

\* What a cycle decides: the requests of its signals, the entries reserved.
CycleOf(sig) == UNION {Scenario(s, sig[s]) : s \in active}

LEMMA DecideStep ==
    ASSUME LoopDecide
    PROVE  \E sig \in [active -> {"HOLD", "STOP", "BUY", "SELL"}] :
              /\ positions' = [s \in Symbols |->
                    IF s \in active \ exited /\ view[s] = 0 /\ pending[s] = << >>
                    THEN 0 ELSE positions[s]]
              /\ sized' = sized \cup {s \in active \ exited :
                    sig[s] \in {"BUY", "SELL"} /\ view[s] = 0 /\ pending[s] = << >>}
              /\ reserved' = [s \in Symbols |->
                    IF \E r \in CycleOf(sig) : r.sym = s /\ r.act \in Opens
                    THEN reserved[s] + Lot ELSE reserved[s]]
              /\ \/ /\ CycleOf(sig) = {} /\ Goto("loop", "cycled")
                    /\ UNCHANGED <<queue, results, executor, batch, got, job>>
                 \/ CycleOf(sig) # {} /\ Submit("loop", SetToSeq(CycleOf(sig)), "cycle")
<1>1. PICK sig \in [active -> {"HOLD", "STOP", "BUY", "SELL"}] :
         /\ positions' = [s \in Symbols |->
               IF s \in active \ exited /\ view[s] = 0 /\ pending[s] = << >>
               THEN 0 ELSE positions[s]]
         /\ sized' = sized \cup {s \in active \ exited :
               sig[s] \in {"BUY", "SELL"} /\ view[s] = 0 /\ pending[s] = << >>}
         /\ reserved' = [s \in Symbols |->
               IF \E r \in CycleOf(sig) : r.sym = s /\ r.act \in Opens
               THEN reserved[s] + Lot ELSE reserved[s]]
         /\ IF CycleOf(sig) = {}
            THEN Goto("loop", "cycled") /\ UNCHANGED <<exec, batch, got, job>>
            ELSE Submit("loop", SetToSeq(CycleOf(sig)), "cycle")
  BY Zenon DEF LoopDecide, CycleOf
<1>2. \/ /\ CycleOf(sig) = {} /\ Goto("loop", "cycled")
         /\ UNCHANGED <<queue, results, executor, batch, got, job>>
      \/ CycleOf(sig) # {} /\ Submit("loop", SetToSeq(CycleOf(sig)), "cycle")
  BY <1>1 DEF exec
<1>3. QED
  BY <1>1, <1>2

LEMMA DecideSubmits ==
    ASSUME BookTypes, FlagTypes, LoopDecide
    PROVE  \/ Goto("loop", "cycled") /\ UNCHANGED <<queue, results, executor, batch, got, job>>
           \/ \E q \in Seq(Requests) : q # << >> /\ Submit("loop", q, "cycle")
<1>1. PICK sig : \/ /\ Goto("loop", "cycled")
                    /\ UNCHANGED <<queue, results, executor, batch, got, job>>
                 \/ CycleOf(sig) # {} /\ Submit("loop", SetToSeq(CycleOf(sig)), "cycle")
  BY DecideStep
<1>2. CycleOf(sig) \subseteq Requests /\ IsFiniteSet(CycleOf(sig))
  BY CycleTyped DEF CycleOf
<1>3. QED
  BY <1>1, <1>2, SubmittedSeq

LEMMA ExitSubmits ==
    ASSUME ItemTypes, BookTypes, NEW s \in Symbols, ExitSubmit(s)
    PROVE  \/ UNCHANGED <<queue, results, executor, pc, job, batch, got>>
           \/ \E q \in Seq(Requests) : q # << >> /\ Submit("monitor", q, "exit")
<1>1. PICK v \in BrokerViews :
         LET n == Found(s, v)
             d == Sign(n)
         IN IF n = 0 THEN UNCHANGED <<exec, pc, job, batch, got>>
            ELSE Submit("monitor",
                        <<Request(s, -d, ExitQty(s, n),
                                  IF d = Buy THEN "EXIT_LONG" ELSE "COVER_SHORT", d)>>,
                        "exit")
  BY DEF ExitSubmit
<1> DEFINE n == Found(s, v)
           r == Request(s, -Sign(n), ExitQty(s, n),
                        IF Sign(n) = Buy THEN "EXIT_LONG" ELSE "COVER_SHORT", Sign(n))
<1>2. \/ n = 0 /\ UNCHANGED exec /\ UNCHANGED <<pc, job, batch, got>>
      \/ n # 0 /\ Submit("monitor", <<r>>, "exit")
  BY <1>1
<1>3. n \in Int
  BY ViewsTyped DEF Found, BookTypes
<1>4. n # 0 => r \in Requests
  <2> HIDE DEF n
  <2>1. ASSUME n # 0
        PROVE  /\ -Sign(n) \in {Buy, Sell} /\ Sign(n) \in {Buy, Sell, 0}
               /\ ExitQty(s, n) \in Nat \ {0}
    BY <1>3, <2>1, Signs, ExitQtyTyped
  <2>2. {"EXIT_LONG", "COVER_SHORT"} \subseteq Opens \cup Flips \cup Exits
    BY DEF Exits
  <2>3. QED
    BY <2>1, <2>2 DEF Request, Requests
<1> HIDE DEF n, r
<1>5. n # 0 => <<r>> \in Seq(Requests) /\ <<r>> # << >>
  BY <1>4
<1>6. QED
  BY <1>2, <1>5 DEF exec

LEMMA PlanSubmits ==
    ASSUME ItemTypes, BookTypes, NEW t \in Threads, EodSubmit(t)
    PROVE  \/ Goto(t, "after") /\ UNCHANGED <<queue, results, executor, job, batch, got>>
           \/ \E q \in Seq(Requests) : q # << >> /\ Submit(t, q, job[t])
<1>1. PICK v \in BrokerViews :
         \/ EodPlan(v) # {} /\ Submit(t, SetToSeq(EodPlan(v)), job[t])
         \/ Goto(t, "after") /\ UNCHANGED exec /\ UNCHANGED <<job, batch, got>>
  BY DEF EodSubmit
<1>2. EodPlan(v) # {} => SetToSeq(EodPlan(v)) \in Seq(Requests) /\ SetToSeq(EodPlan(v)) # << >>
  BY PlanTyped, PlanFinite, SubmittedSeq, ViewsTyped
<1>3. QED
  BY <1>1, <1>2 DEF exec

-----------------------------------------------------------------------------
(* The types, step by step                                                 *)

LEMMA TypeInvInit == Init => TypeInv
<1> SUFFICES ASSUME Init PROVE TypeInv
  OBVIOUS
<1>1. ItemTypes
  <2>1. \A S : << >> \in Seq(S)
    OBVIOUS
  <2>2. QED
    BY <2>1 DEF Init, ItemTypes
<1>2. Answered
  BY DEF Init, Answered
<1>3. BookTypes
  BY DEF Init, BookTypes, Flat
<1>4. FlagTypes
  BY DEF Init, FlagTypes
<1>5. QED
  BY <1>1, <1>2, <1>3, <1>4 DEF TypeInv

LEMMA ItemsTyped ==
    ASSUME TypeInv, SlotInv, [Next]_vars
    PROVE  ItemTypes'
<1> USE DEF TypeInv
<1>1. CASE Executor
  BY <1>1, ExecuteItems
<1>2. CASE Outside
  <2>1. CASE \E i \in DOMAIN orders : OrderSettles(i)
    BY <2>1, SettlesItems
  <2>2. CASE WorkerStop \/ MarketCloses \/ \E s \in Symbols, d \in {Buy, Sell} : UserTrades(s, d)
    <3>1. UNCHANGED <<orders, queue, results, batch, got, pending, rcopy>>
      BY <2>2 DEF WorkerStop, MarketCloses, UserTrades, broker, exec, threads, recVars
    <3>2. QED
      BY <3>1, ItemsStay
  <2>3. QED
    BY <1>2, <2>1, <2>2 DEF Outside
<1>3. CASE Reconciler
  <2>1. CASE ReconcileBegin \/ ReconcileFetch \/ ReconcileEnd
    <3>1. UNCHANGED <<orders, queue, results, batch, got, pending, rcopy>>
      BY <2>1 DEF ReconcileBegin, ReconcileFetch, ReconcileEnd, broker, exec, threads, recVars
    <3>2. QED
      BY <3>1, ItemsStay
  <2>2. QED
    BY <1>3, <2>1, ReconcileItems, CopyItems DEF Reconciler
<1>4. CASE LoopDecide
  <2>1. UNCHANGED <<orders, pending, rcopy>>
    BY <1>4 DEF LoopDecide, broker, recVars
  <2>2. \/ UNCHANGED <<queue, results, batch, got>>
        \/ \E q \in Seq(Requests) : Submit("loop", q, "cycle")
    BY <1>4, DecideSubmits
  <2>3. "loop" \in Threads
    BY DEF Threads
  <2>4. QED
    BY <2>1, <2>2, <2>3, SubmitItems, ItemsStay
<1>5. CASE LoopRecord
  BY <1>5, RecordItems
<1>6. CASE LoopTop \/ LoopFetch \/ LoopRecorded \/ LoopCycled
  <2>1. UNCHANGED <<orders, queue, results, batch, got, pending, rcopy>>
    BY <1>6 DEF LoopTop, LoopFetch, LoopRecorded, LoopCycled, broker, exec, recVars
  <2>2. QED
    BY <2>1, ItemsStay
<1>7. CASE ExitRecord
  BY <1>7, ExitRecordItems
<1>8. CASE MonitorStop \/ MonitorJoin
  <2>1. UNCHANGED <<orders, queue, results, batch, got, pending, rcopy>>
    BY <1>8 DEF MonitorStop, MonitorJoin, broker, exec, recVars
  <2>2. QED
    BY <2>1, ItemsStay
<1>9. CASE \E s \in Symbols : ExitSubmit(s)
  <2>1. PICK s \in Symbols : ExitSubmit(s)
    BY <1>9
  <2>2. UNCHANGED <<orders, pending, rcopy>>
    BY <2>1 DEF ExitSubmit, broker, recVars
  <2>3. \/ UNCHANGED <<queue, results, batch, got>>
        \/ \E q \in Seq(Requests) : Submit("monitor", q, "exit")
    BY <2>1, ExitSubmits
  <2>4. "monitor" \in Threads
    BY DEF Threads
  <2>5. QED
    BY <2>2, <2>3, <2>4, SubmitItems, ItemsStay
<1>10. CASE \E t \in Threads : Shared(t)
  <2>1. PICK t \in Threads : Shared(t)
    BY <1>10
  <2>2. CASE Join(t) \/ EodBegin(t) \/ EodFinish(t) \/ EodAfter(t)
    <3>1. UNCHANGED <<orders, queue, results, batch, got, pending, rcopy>>
      BY <2>2 DEF Join, EodBegin, EodFinish, EodAfter, broker, exec, recVars
    <3>2. QED
      BY <3>1, ItemsStay
  <2>3. CASE EodSubmit(t)
    <3>1. UNCHANGED <<orders, pending, rcopy>>
      BY <2>3 DEF EodSubmit, broker, recVars
    <3>2. \/ UNCHANGED <<queue, results, batch, got>>
          \/ \E q \in Seq(Requests) : Submit(t, q, job[t])
      BY <2>3, PlanSubmits
    <3>3. QED
      BY <3>1, <3>2, SubmitItems, ItemsStay
  <2>4. QED
    BY <2>1, <2>2, <2>3, CollectItems, RecordItems DEF Shared
<1>11. CASE UNCHANGED vars
  BY <1>11, ItemsStay DEF vars
<1>12. QED
  BY <1>1, <1>2, <1>3, <1>4, <1>5, <1>6, <1>7, <1>8, <1>9, <1>10, <1>11
     DEF Next, Loop, Monitor

LEMMA AnsweredStep ==
    ASSUME TypeInv, SlotInv, [Next]_vars
    PROVE  Answered'
<1> USE DEF TypeInv
<1> DEFINE L == "loop"
           M == "monitor"
<1>0. L \in Threads /\ M \in Threads
  BY DEF Threads
<1>1. CASE Executor \/ Outside \/ Reconciler \/ UNCHANGED vars
  <2>1. UNCHANGED <<pc, job, batch, got>>
    BY <1>1 DEF Executor, Execute, Outside, OrderSettles, UserTrades, MarketCloses, WorkerStop,
           Reconciler, ReconcileBegin, ReconcileFetch, ReconcileOrder, ReconcileEnd,
           ReconcileSymbol, vars, threads
  <2>2. QED
    BY <2>1, AnsweredStays
<1>2. CASE LoopTop \/ LoopFetch \/ LoopCycled
  <2>1. pc[L] \notin {"collect", "record"} /\ UNCHANGED <<batch, got>>
    BY <1>2 DEF LoopTop, LoopFetch, LoopCycled, AtLoop
  <2>2. got[L] = << >>
    BY <1>0, <2>1 DEF Answered
  <2>3. \E p \in Pcs : \E j : Moves(L, p, j) /\ p \notin {"collect", "record"}
    <3>1. \/ \E why : BeginSquareOff(L, why)
          \/ \E p \in {"ended", "fetch", "decide", "top"} : Goto(L, p) /\ UNCHANGED job
      BY <1>2 DEF LoopTop, LoopFetch, LoopCycled
    <3>2. QED
      BY <1>0, <3>1, KeepsJob DEF BeginSquareOff, Goto, Moves, Pcs
  <2>4. QED
    BY <1>0, <2>1, <2>2, <2>3, AnsweredMoves
<1>3. CASE LoopDecide
  <2>1. CASE Goto(L, "cycled") /\ UNCHANGED <<queue, results, executor, batch, got, job>>
    <3>1. got[L] = << >>
      BY <1>0, <1>3 DEF LoopDecide, AtLoop, Answered
    <3>2. Moves(L, "cycled", job[L])
      BY <1>0, <2>1, KeepsJob DEF Pcs
    <3>3. QED
      BY <1>0, <2>1, <3>1, <3>2, AnsweredMoves
  <2>2. QED
    BY <1>0, <1>3, <2>1, DecideSubmits, AnsweredSubmits
<1>4. CASE LoopRecord
  <2>1. /\ pc[L] = "record" /\ job[L] = "cycle" /\ got' = [got EXCEPT ![L] = Tail(got[L])]
        /\ UNCHANGED <<pc, job, batch>>
    BY <1>4 DEF LoopRecord, AtLoop
  <2>2. QED
    BY <1>0, <2>1, AnsweredGot
<1>5. CASE LoopRecorded
  <2>1. got[L] = << >> /\ Goto(L, "cycled") /\ UNCHANGED <<job, batch, got>>
    BY <1>5 DEF LoopRecorded
  <2>2. Moves(L, "cycled", job[L])
    BY <1>0, <2>1, KeepsJob DEF Pcs
  <2>3. QED
    BY <1>0, <2>1, <2>2, AnsweredMoves
<1>6. CASE MonitorStop \/ MonitorJoin
  <2>1. got[M] = << >> /\ UNCHANGED <<batch, got>>
    BY <1>0, <1>6 DEF MonitorStop, MonitorJoin, Watching, Answered
  <2>2. \E p \in Pcs : \E j : Moves(M, p, j) /\ p \notin {"collect", "record"}
    <3>1. \/ \E why : BeginSquareOff(M, why)
          \/ \E p \in {"joining", "ended"} : Goto(M, p) /\ UNCHANGED job
      BY <1>6 DEF MonitorStop, MonitorJoin
    <3>2. QED
      BY <1>0, <3>1, KeepsJob DEF BeginSquareOff, Goto, Moves, Pcs
  <2>3. QED
    BY <1>0, <2>1, <2>2, AnsweredMoves
<1>7. CASE ExitRecord
  <2>1. /\ pc[M] = "record" /\ got' = [got EXCEPT ![M] = << >>] /\ Goto(M, "watch")
        /\ UNCHANGED <<job, batch>>
    BY <1>7 DEF ExitRecord
  <2>2. /\ got'[M] = << >> /\ pc'[M] = "watch"
        /\ \A u \in Threads \ {M} : got'[u] = got[u] /\ pc'[u] = pc[u]
    BY <1>0, <2>1 DEF Goto, ItemTypes, SlotInv
  <2>3. QED
    BY <2>1, <2>2 DEF Answered
<1>8. CASE \E s \in Symbols : ExitSubmit(s)
  BY <1>0, <1>8, ExitSubmits, AnsweredSubmits, AnsweredStays
<1>9. CASE \E t \in Threads : Shared(t)
  <2>1. PICK t \in Threads : Shared(t)
    BY <1>9
  <2>2. CASE Collect(t) \/ CollectTimeout(t) \/ EodRecord(t)
    <3>1. \E q : got' = [got EXCEPT ![t] = q]
      BY <2>2 DEF Collect, CollectTimeout, EodRecord
    <3>2. /\ UNCHANGED <<pc, job, batch>> /\ pc[t] \in {"collect", "record"}
          /\ pc[t] = "record" => job[t] # "exit"
      BY <2>2 DEF Collect, CollectTimeout, EodRecord, SquareOffs
    <3>3. QED
      BY <2>1, <3>1, <3>2, AnsweredGot
  <2>3. CASE Join(t)
    <3>1. /\ pc[t] = "collect" /\ Goto(t, "record") /\ Len(got[t]) = Len(batch[t])
          /\ UNCHANGED <<job, batch, got>>
      BY <2>3 DEF Join, Goto
    <3>2. batch[t] # << >> /\ batch[t] \in Seq(Requests)
          /\ got[t] \in Seq(Outcomes(Len(orders)))
      BY <2>1, <3>1 DEF Answered, ItemTypes
    <3>3. got[t] # << >>
      BY <3>1, <3>2
    <3>4. Moves(t, "record", job[t])
      BY <2>1, <3>1, KeepsJob DEF Pcs
    <3>5. QED
      BY <2>1, <3>1, <3>2, <3>3, <3>4, AnsweredMoves
  <2>4. CASE EodBegin(t) \/ EodFinish(t) \/ EodAfter(t)
    <3>1. got[t] = << >> /\ UNCHANGED <<job, batch, got>>
      BY <2>1, <2>4 DEF EodBegin, EodFinish, EodAfter, Answered
    <3>2. PICK p \in {"plan", "after", "ended"} : Goto(t, p)
      BY <2>4 DEF EodBegin, EodFinish, EodAfter
    <3>3. Moves(t, p, job[t])
      BY <2>1, <3>1, <3>2, KeepsJob DEF Pcs
    <3>4. QED
      BY <2>1, <3>1, <3>2, <3>3, AnsweredMoves
  <2>5. CASE EodSubmit(t)
    <3>1. CASE Goto(t, "after") /\ UNCHANGED <<queue, results, executor, job, batch, got>>
      <4>1. got[t] = << >>
        BY <2>1, <2>5 DEF EodSubmit, Answered
      <4>2. Moves(t, "after", job[t])
        BY <2>1, <3>1, KeepsJob DEF Pcs
      <4>3. QED
        BY <2>1, <3>1, <4>1, <4>2, AnsweredMoves
    <3>2. QED
      BY <2>1, <2>5, <3>1, PlanSubmits, AnsweredSubmits
  <2>6. QED
    BY <2>1, <2>2, <2>3, <2>4, <2>5 DEF Shared
<1>10. QED
  BY <1>1, <1>2, <1>3, <1>4, <1>5, <1>6, <1>7, <1>8, <1>9 DEF Next, Loop, Monitor

LEMMA BooksStay ==
    ASSUME BookTypes, UNCHANGED <<manual, positions, ledger, cache, view, rview, reserved>>
    PROVE  BookTypes'
  BY DEF BookTypes

LEMMA BooksTyped ==
    ASSUME TypeInv, [Next]_vars
    PROVE  BookTypes'
<1> USE DEF TypeInv
<1>1. CASE Executor
  <2>1. UNCHANGED <<manual, positions, ledger, cache, view, rview, reserved>>
    BY <1>1 DEF Executor, Execute, books, loopVars, recVars
  <2>2. QED
    BY <2>1, BooksStay
<1>2. CASE Outside
  <2>1. CASE \E s \in Symbols, d \in {Buy, Sell} : UserTrades(s, d)
    <3>1. PICK s \in Symbols, d \in {Buy, Sell} : UserTrades(s, d)
      BY <2>1
    <3>2. manual' = [manual EXCEPT ![s] = @ + d] /\ d \in Int
      BY <3>1 DEF UserTrades, Buy, Sell
    <3>3. UNCHANGED <<positions, ledger, cache, view, rview, reserved>>
      BY <3>1 DEF UserTrades, books, loopVars, recVars
    <3>4. manual' \in [Symbols -> Int]
      BY <3>2 DEF BookTypes
    <3>5. QED
      BY <3>3, <3>4 DEF BookTypes
  <2>2. CASE \/ \E i \in DOMAIN orders : OrderSettles(i)
             \/ MarketCloses \/ WorkerStop
    <3>1. UNCHANGED <<manual, positions, ledger, cache, view, rview, reserved>>
      BY <2>2 DEF OrderSettles, MarketCloses, WorkerStop, broker, books, loopVars, recVars
    <3>2. QED
      BY <3>1, BooksStay
  <2>3. QED
    BY <1>2, <2>1, <2>2 DEF Outside
<1>3. CASE Reconciler
  <2>1. CASE ReconcileOrder
    <3>1. UNCHANGED <<manual, cache, view, rview>>
      BY <2>1 DEF ReconcileOrder, broker, loopVars
    <3>2. QED
      BY <2>1, <3>1, ReconcileBooks DEF BookTypes
  <2>2. CASE ReconcileFetch
    <3>1. rview' \in [Symbols -> Int] /\ cache' = rview'
      BY <2>2, ViewsTyped DEF ReconcileFetch
    <3>2. UNCHANGED <<manual, positions, ledger, view, reserved>>
      BY <2>2 DEF ReconcileFetch, broker, books, loopVars
    <3>3. QED
      BY <3>1, <3>2 DEF BookTypes
  <2>3. CASE ReconcileBegin \/ ReconcileEnd \/ \E s \in Symbols : ReconcileSymbol(s)
    <3>1. UNCHANGED <<manual, positions, ledger, cache, view, rview, reserved>>
      BY <2>3 DEF ReconcileBegin, ReconcileEnd, ReconcileSymbol, broker, books, loopVars
    <3>2. QED
      BY <3>1, BooksStay
  <2>4. QED
    BY <1>3, <2>1, <2>2, <2>3 DEF Reconciler
<1>4. CASE LoopTop \/ LoopRecorded
  <2>1. UNCHANGED <<manual, positions, ledger, cache, view, rview, reserved>>
    BY <1>4 DEF LoopTop, LoopRecorded, broker, books, loopVars, recVars
  <2>2. QED
    BY <2>1, BooksStay
<1>5. CASE LoopFetch \/ LoopCycled
  <2>1. UNCHANGED <<manual, positions, ledger, rview, reserved>>
    BY <1>5 DEF LoopFetch, LoopCycled, broker, books, recVars
  <2>2. view' \in [Symbols -> Int] /\ cache' \in [Symbols -> Int]
    BY <1>5, ViewsTyped DEF LoopFetch, LoopCycled, BookTypes
  <2>3. QED
    BY <2>1, <2>2 DEF BookTypes
<1>6. CASE LoopDecide
  <2>1. UNCHANGED <<manual, ledger, cache, view, rview>>
    BY <1>6 DEF LoopDecide, broker, recVars
  <2>2. PICK sig :
           /\ positions' = [s \in Symbols |->
                 IF s \in active \ exited /\ view[s] = 0 /\ pending[s] = << >>
                 THEN 0 ELSE positions[s]]
           /\ reserved' = [s \in Symbols |->
                 IF \E r \in CycleOf(sig) : r.sym = s /\ r.act \in Opens
                 THEN reserved[s] + Lot ELSE reserved[s]]
    BY <1>6, DecideStep
  <2>3. positions' \in [Symbols -> Int]
    BY <2>2 DEF BookTypes
  <2>4. reserved' \in [Symbols -> Nat]
    BY <2>2, EngineAssumption DEF BookTypes
  <2>5. QED
    BY <2>1, <2>3, <2>4 DEF BookTypes
<1>7. CASE LoopRecord
  <2>1. UNCHANGED <<manual, positions, ledger, cache, view, rview>>
    BY <1>7 DEF LoopRecord, broker, loopVars, recVars
  <2> DEFINE res == Head(got["loop"])
  <2>2. reserved' = reserved \/ reserved' = Released(reserved, res.req.sym, res.req.qty)
    BY <1>7 DEF LoopRecord
  <2>3. res.req.sym \in Symbols /\ res.req.qty \in Nat
    <3>1. got["loop"] \in Seq(Outcomes(Len(orders))) /\ got["loop"] # << >>
      BY <1>7 DEF LoopRecord, ItemTypes, Threads
    <3> DEFINE O == Outcomes(Len(orders))
               q == got["loop"]
    <3>2. q \in Seq(O) /\ q # << >>
      BY <3>1
    <3>3. res \in O
      <4> HIDE DEF O, q
      <4>1. Head(q) \in O
        BY <3>2
      <4>2. QED
        BY <4>1 DEF q
    <3>4. res.req \in Requests
      BY <3>3 DEF Outcomes
    <3>5. QED
      BY <3>4 DEF Requests
  <2> HIDE DEF res
  <2>4. reserved' \in [Symbols -> Nat]
    BY <2>2, <2>3, ReleasedTyped DEF BookTypes
  <2>5. QED
    BY <2>1, <2>4 DEF BookTypes
<1>8. CASE Monitor
  <2>1. CASE \E s \in Symbols : ExitSubmit(s)
    <3>1. UNCHANGED <<manual, positions, ledger, view, rview, reserved>>
      BY <2>1 DEF ExitSubmit, broker, books, loopVars, recVars
    <3>2. cache' \in [Symbols -> Int]
      BY <2>1, ViewsTyped DEF ExitSubmit
    <3>3. QED
      BY <3>1, <3>2 DEF BookTypes
  <2>2. CASE MonitorStop \/ MonitorJoin \/ ExitRecord
    <3>1. UNCHANGED <<manual, positions, ledger, cache, view, rview, reserved>>
      BY <2>2 DEF MonitorStop, MonitorJoin, ExitRecord, broker, books, loopVars, recVars
    <3>2. QED
      BY <3>1, BooksStay
  <2>3. QED
    BY <1>8, <2>1, <2>2 DEF Monitor
<1>9. CASE \E t \in Threads : Shared(t)
  <2>0. Flat \in [Symbols -> Int] /\ Flat \in [Symbols -> Nat]
    BY DEF Flat
  <2>1. PICK t \in Threads : Shared(t)
    BY <1>9
  <2>2. CASE Collect(t) \/ CollectTimeout(t) \/ Join(t) \/ EodBegin(t) \/ EodRecord(t)
    <3>1. UNCHANGED <<manual, positions, ledger, cache, view, rview, reserved>>
      BY <2>2 DEF Collect, CollectTimeout, Join, EodBegin, EodRecord, broker, books, loopVars, recVars
    <3>2. QED
      BY <3>1, BooksStay
  <2>3. CASE EodSubmit(t)
    <3>1. UNCHANGED <<manual, view, rview, reserved>>
      BY <2>3 DEF EodSubmit, broker, loopVars, recVars
    <3>2. cache' \in [Symbols -> Int]
      BY <2>3, ViewsTyped DEF EodSubmit
    <3>3. positions' \in {positions, Flat} /\ ledger' \in {ledger, Flat}
      BY <2>3 DEF EodSubmit
    <3>4. QED
      BY <2>0, <3>1, <3>2, <3>3 DEF BookTypes
  <2>4. CASE EodFinish(t)
    <3>1. UNCHANGED <<manual, cache, view, rview, reserved>> /\ positions' = Flat /\ ledger' = Flat
      BY <2>4 DEF EodFinish, broker, loopVars, recVars
    <3>2. QED
      BY <2>0, <3>1 DEF BookTypes
  <2>5. CASE EodAfter(t)
    <3>1. UNCHANGED <<manual, positions, ledger, cache, view, rview>> /\ reserved' \in {reserved, Flat}
      BY <2>5 DEF EodAfter, broker, books, loopVars, recVars
    <3>2. QED
      BY <2>0, <3>1 DEF BookTypes
  <2>6. QED
    BY <2>1, <2>2, <2>3, <2>4, <2>5 DEF Shared
<1>10. CASE UNCHANGED vars
  BY <1>10, BooksStay DEF vars
<1>11. QED
  BY <1>1, <1>2, <1>3, <1>4, <1>5, <1>6, <1>7, <1>8, <1>9, <1>10 DEF Next, Loop

LEMMA FlagsTyped ==
    ASSUME TypeInv, [Next]_vars
    PROVE  FlagTypes'
<1> USE DEF TypeInv
<1>0. DOMAIN pending = Symbols
  BY DEF ItemTypes
<1>1. CASE Executor
  BY <1>1 DEF Executor, Execute, FlagTypes, books, flags, loopVars, threads, recVars
<1>2. CASE Outside
  <2>1. UNCHANGED <<irregular, slot, executor, sized, exited, exitDocs, active, rleft, exits, rpc>>
    BY <1>2 DEF Outside, OrderSettles, UserTrades, MarketCloses, WorkerStop, broker, exec, books,
                flags, loopVars, threads, recVars
  <2>2. late' \in {late, TRUE} /\ wstop' \in {wstop, TRUE} /\ stop' \in {stop, TRUE}
    BY <1>2 DEF Outside, OrderSettles, UserTrades, MarketCloses, WorkerStop, broker, flags
  <2>3. QED
    BY <2>1, <2>2 DEF FlagTypes
<1>3. CASE Reconciler
  <2>1. CASE ReconcileOrder
    <3>1. UNCHANGED <<irregular, late, stop, wstop, slot, executor, sized, active, rleft, exits, rpc>>
      BY <2>1 DEF ReconcileOrder, broker, flags, exec, loopVars, threads
    <3>2. QED
      BY <2>1, <3>1, ReconcileBooks DEF FlagTypes
  <2>2. CASE ReconcileBegin \/ ReconcileFetch \/ ReconcileEnd \/ \E s \in Symbols : ReconcileSymbol(s)
    BY <2>2 DEF ReconcileBegin, ReconcileFetch, ReconcileEnd, ReconcileSymbol, FlagTypes, broker,
                exec, books, flags, loopVars, threads
  <2>3. QED
    BY <1>3, <2>1, <2>2 DEF Reconciler
<1>4. CASE LoopTop
  <2>1. /\ UNCHANGED <<irregular, late, wstop, slot, executor, sized, exitDocs, rleft, exits, rpc>>
        /\ exited' \subseteq exited \cup exitDocs /\ active' \subseteq active
        /\ stop' \in BOOLEAN
    BY <1>4 DEF LoopTop, broker, exec, recVars, FlagTypes
  <2>2. QED
    BY <2>1 DEF FlagTypes
<1>5. CASE LoopDecide
  <2>1. /\ UNCHANGED <<irregular, late, stop, wstop, slot, exited, exitDocs, active, rleft, exits, rpc>>
        /\ sized' \subseteq sized \cup active
    <3>1. UNCHANGED <<irregular, late, stop, wstop, slot, exited, exitDocs, active, rleft, exits, rpc>>
      BY <1>5 DEF LoopDecide, broker, flags, recVars
    <3>2. sized' \subseteq sized \cup active
      BY <1>5, DecideStep
    <3>3. QED
      BY <3>1, <3>2
  <2>2. executor' \in {executor, "running"}
    BY <1>5, DecideSubmits DEF Submit
  <2>3. QED
    BY <2>1, <2>2 DEF FlagTypes
<1>6. CASE LoopRecord
  <2>1. Head(got["loop"]).id # 0 => Head(got["loop"]).req.sym \in Symbols
    <3> DEFINE O == Outcomes(Len(orders))
               q == got["loop"]
    <3>1. q \in Seq(O) /\ q # << >>
      BY <1>6 DEF LoopRecord, ItemTypes, Threads
    <3>2. Head(q) \in O
      <4> HIDE DEF O, q
      <4>1. QED
        BY <3>1
    <3>3. Head(q).req \in Requests
      BY <3>2 DEF Outcomes
    <3>4. QED
      BY <3>3 DEF Requests
  <2>2. /\ UNCHANGED <<irregular, late, stop, wstop, slot, executor, sized, exited, active, rleft, exits, rpc>>
        /\ exitDocs' \subseteq Symbols
    BY <1>6, <2>1 DEF LoopRecord, broker, exec, flags, loopVars, recVars, FlagTypes
  <2>3. QED
    BY <2>2 DEF FlagTypes
<1>7. CASE LoopFetch \/ LoopRecorded \/ LoopCycled
  BY <1>7 DEF LoopFetch, LoopRecorded, LoopCycled, FlagTypes, broker, exec, books, flags, loopVars,
              recVars
<1>8. CASE MonitorStop \/ MonitorJoin
  BY <1>8 DEF MonitorStop, MonitorJoin, FlagTypes, broker, exec, books, flags, loopVars, recVars
<1>9. CASE ExitRecord
  <2>1. batch["monitor"][1].sym \in Symbols
    <3>1. batch["monitor"] \in Seq(Requests) /\ batch["monitor"] # << >>
      BY <1>9 DEF ExitRecord, ItemTypes, Answered, Threads
    <3>2. batch["monitor"][1] \in Requests
      BY <3>1
    <3>3. QED
      BY <3>2 DEF Requests
  <2>2. /\ UNCHANGED <<irregular, late, stop, wstop, slot, executor, sized, active, rleft, exits, rpc>>
        /\ exited' \subseteq Symbols /\ exitDocs' \subseteq Symbols
    BY <1>9, <2>1 DEF ExitRecord, broker, exec, flags, loopVars, recVars, FlagTypes
  <2>3. QED
    BY <2>2 DEF FlagTypes
<1>10. CASE \E s \in Symbols : ExitSubmit(s)
  <2>1. /\ UNCHANGED <<irregular, late, stop, wstop, slot, sized, exited, exitDocs, active, rleft, rpc>>
        /\ exits' = exits + 1
    BY <1>10 DEF ExitSubmit, broker, books, flags, loopVars, recVars
  <2>2. executor' \in {executor, "running"}
    BY <1>10, ExitSubmits DEF Submit
  <2>3. QED
    BY <2>1, <2>2 DEF FlagTypes
<1>11. CASE \E t \in Threads : Shared(t)
  <2>1. PICK t \in Threads : Shared(t)
    BY <1>11
  <2>2. CASE EodSubmit(t)
    <3>1. /\ UNCHANGED <<irregular, late, stop, wstop, sized, exited, exitDocs, active, rleft, exits, rpc>>
          /\ slot' \in {slot, "free", "done"}
      BY <2>2 DEF EodSubmit, broker, loopVars, recVars
    <3>2. executor' \in {executor, "running"}
      BY <2>2, PlanSubmits DEF Submit
    <3>3. QED
      BY <3>1, <3>2 DEF FlagTypes
  <2>3. CASE EodBegin(t) \/ EodRecord(t) \/ EodFinish(t) \/ EodAfter(t)
    BY <2>3 DEF EodBegin, EodRecord, EodFinish, EodAfter, FlagTypes, broker, exec, books, flags,
                loopVars, recVars
  <2>4. CASE Collect(t) \/ CollectTimeout(t) \/ Join(t)
    BY <2>4 DEF Collect, CollectTimeout, Join, FlagTypes, broker, exec, books, flags, loopVars, recVars
  <2>5. QED
    BY <2>1, <2>2, <2>3, <2>4 DEF Shared
<1>12. CASE UNCHANGED vars
  BY <1>12 DEF vars, FlagTypes
<1>13. QED
  BY <1>1, <1>2, <1>3, <1>4, <1>5, <1>6, <1>7, <1>8, <1>9, <1>10, <1>11, <1>12
     DEF Next, Loop, Monitor

LEMMA TypeInvStep == SlotInv /\ TypeInv /\ [Next]_vars => TypeInv'
  BY ItemsTyped, AnsweredStep, BooksTyped, FlagsTyped DEF TypeInv

LEMMA TypesImply == SlotInv /\ TypeInv => TypeOK
<1> SUFFICES ASSUME SlotInv, TypeInv PROVE TypeOK
  OBVIOUS
<1> USE DEF TypeInv
<1>1. \A S, q : q \in Seq(S) => \A i \in DOMAIN q : q[i] \in S
  OBVIOUS
<1>2. \A i \in DOMAIN orders :
         orders[i].state \in {"open", "filled", "rejected"} /\ orders[i].qty \in Nat \ {0}
  <2>1. \A i \in DOMAIN orders : orders[i] \in Orders
    BY DEF ItemTypes
  <2>2. QED
    BY <2>1 DEF Orders
<1>3. IsSeqOf(queue, IsRequest) /\ \A t \in Threads : IsSeqOf(batch[t], IsRequest)
  BY DEF IsSeqOf, IsRequest, ItemTypes
<1>4. /\ \A o \in Outcomes(Len(orders)) : IsOutcome(o)
      /\ \A o \in Taken(Len(orders)) : IsOutcome(o)
  BY DEF Outcomes, Taken, IsOutcome, ItemTypes
<1>5. IsSeqOf(results, IsOutcome) /\ \A t \in Threads : IsSeqOf(got[t], IsOutcome)
  <2> HIDE DEF TypeInv
  <2>1. results \in Seq(Outcomes(Len(orders))) /\ \A t \in Threads : got[t] \in Seq(Outcomes(Len(orders)))
    BY DEF ItemTypes, TypeInv
  <2>2. QED
    BY <1>1, <1>4, <2>1 DEF IsSeqOf
<1>6. \A s \in Symbols : IsSeqOf(pending[s], IsOutcome)
  <2>1. \A s \in Symbols : pending[s] \in Seq(Taken(Len(orders)))
    BY DEF ItemTypes
  <2>2. QED
    BY <1>1, <1>4, <2>1 DEF IsSeqOf
<1>7. IsSeqOf(rcopy, IsCopy)
  <2>1. \A i \in DOMAIN rcopy : rcopy[i] \in [sym : Symbols, ctx : Taken(Len(orders))]
    <3> DEFINE E == [sym : Symbols, ctx : Taken(Len(orders))]
    <3>1. rcopy \in Seq(E)
      BY DEF ItemTypes
    <3> HIDE DEF E
    <3>2. \A i \in DOMAIN rcopy : rcopy[i] \in E
      BY <3>1
    <3>3. QED
      BY <3>2 DEF E
  <2>2. QED
    BY <1>4, <2>1 DEF IsSeqOf, IsCopy
<1>8. /\ irregular \in Irregular
      /\ \A x \in {late, stop, wstop} : x \in BOOLEAN
      /\ \A f \in {manual, positions, ledger, cache, view, rview} : f \in [Symbols -> Int]
      /\ reserved \in [Symbols -> Nat]
      /\ executor \in {"none", "running", "stopped"}
      /\ \A S \in {sized, exited, exitDocs, active, rleft} : S \subseteq Symbols
      /\ slot \in {"free", "busy", "done"}
      /\ exits \in Nat
      /\ rpc \in {"idle", "fetch", "scan", "ended"}
  BY DEF BookTypes, FlagTypes
<1>9. /\ pc \in [Threads -> {"top", "fetch", "decide", "collect", "record", "cycled", "begin",
                             "plan", "after", "watch", "joining", "ended"}]
      /\ job \in [Threads -> {"cycle", "exit"} \cup SquareOffs]
  BY DEF SlotInv, Pcs, Jobs
<1>10. QED
  BY <1>2, <1>3, <1>5, <1>6, <1>7, <1>8, <1>9 DEF TypeOK

\* Every order, result, reservation and slot of the live engine keeps its type at every
\* step: an exit result taken off the queue is one, a filled order has a known book entry
\* (submit_order, pop_result, record_pending_order, reconcile_pending_orders).
THEOREM TypeCorrect == Spec => []TypeOK
<1> DEFINE IInv == SlotInv /\ TypeInv
<1>1. Init => IInv
  BY SlotInvInit, TypeInvInit
<1>2. IInv /\ [Next]_vars => IInv'
  BY SlotInvStep, TypeInvStep
<1>3. IInv => TypeOK
  BY TypesImply
<1>4. QED
  BY <1>1, <1>2, <1>3, PTL DEF Spec

-----------------------------------------------------------------------------
(* What entry orders hold                                                  *)

\* A sequence of requests or orders.
Lots(q) == IsSeq(q) /\ \A i \in DOMAIN q : q[i].qty \in Nat

LEMMA ReservesNat ==
    ASSUME NEW q, Lots(q), NEW s
    PROVE  \A i \in DOMAIN q : Reserves(s, q[i]) \in Nat /\ Reserves(s, q[i]) <= q[i].qty
  BY DEF Lots, Reserves

LEMMA EntryNat ==
    ASSUME NEW q, Lots(q), NEW s
    PROVE  EntryQty(s, q) \in Nat
<1> DEFINE f == [i \in DOMAIN q |-> Reserves(s, q[i])]
<1>1. Len(q) \in Nat /\ DOMAIN q = 1 .. Len(q)
  BY SeqDomain DEF Lots
<1>2. IsFiniteSet(DOMAIN q)
  BY <1>1, FS_Interval
<1>3. \A i \in DOMAIN q : f[i] \in Nat
  BY ReservesNat
<1> HIDE DEF f
<1>4. SumOver(f, DOMAIN q) \in Nat
  BY <1>2, <1>3, SumNat
<1>5. QED
  BY <1>4 DEF EntryQty, f

LEMMA EntryAppended ==
    ASSUME NEW p, Lots(p), NEW q, Lots(q), Len(q) = Len(p) + 1,
           \A i \in 1 .. Len(p) : q[i] = p[i], NEW s
    PROVE  EntryQty(s, q) = EntryQty(s, p) + Reserves(s, q[Len(p) + 1])
<1> DEFINE n == Len(p)
           f == [i \in DOMAIN p |-> Reserves(s, p[i])]
           h == [i \in DOMAIN q |-> Reserves(s, q[i])]
<1>1. n \in Nat /\ DOMAIN p = 1 .. n /\ DOMAIN q = 1 .. n + 1
  BY SeqDomain DEF Lots
<1>2. \A i \in 1 .. n : f[i] \in Int /\ h[i] = f[i]
  <2>1. \A i \in DOMAIN p : Reserves(s, p[i]) \in Nat
    BY ReservesNat
  <2>2. QED
    BY <1>1, <2>1
<1>3. h[n + 1] = Reserves(s, q[n + 1]) /\ h[n + 1] \in Int
  <2>1. \A i \in DOMAIN q : Reserves(s, q[i]) \in Nat
    BY ReservesNat
  <2>2. n + 1 \in DOMAIN q
    BY <1>1
  <2>3. QED
    BY <2>1, <2>2
<1>4. EntryQty(s, p) = SumOver(f, 1 .. n) /\ EntryQty(s, q) = SumOver(h, 1 .. n + 1)
  BY <1>1 DEF EntryQty
<1> HIDE DEF f, h, n
<1>5. SumOver(h, 1 .. n + 1) = SumOver(f, 1 .. n) + h[n + 1]
  BY <1>1, <1>2, <1>3, SumAppended
<1>6. QED
  BY <1>3, <1>4, <1>5 DEF n

LEMMA EntryJoined ==
    ASSUME NEW p, Lots(p), NEW q, Lots(q), Lots(p \o q), NEW s
    PROVE  EntryQty(s, p \o q) = EntryQty(s, p) + EntryQty(s, q)
<1> DEFINE n == Len(p)
           m == Len(q)
           r == p \o q
           f == [i \in DOMAIN p |-> Reserves(s, p[i])]
           g == [i \in DOMAIN q |-> Reserves(s, q[i])]
           h == [i \in DOMAIN r |-> Reserves(s, r[i])]
<1>1. n \in Nat /\ DOMAIN p = 1 .. n /\ m \in Nat /\ DOMAIN q = 1 .. m
  BY SeqDomain DEF Lots
<1>2. /\ DOMAIN r = 1 .. n + m
      /\ \A i \in 1 .. n : r[i] = p[i]
      /\ \A i \in DOMAIN r : i \notin DOMAIN p => r[i] = q[i - n]
  BY <1>1, ConcatSeq DEF Lots
<1>3. \A i \in DOMAIN p : Reserves(s, p[i]) \in Nat
  BY ReservesNat
<1>4. \A i \in DOMAIN q : Reserves(s, q[i]) \in Nat
  BY ReservesNat
<1> HIDE DEF r
<1>5. \A i \in 1 .. m : r[n + i] = q[i]
  <2> SUFFICES ASSUME NEW i \in 1 .. m PROVE r[n + i] = q[i]
    OBVIOUS
  <2>1. n + i \in DOMAIN r /\ n + i \notin DOMAIN p /\ (n + i) - n = i
    BY <1>1, <1>2
  <2>2. QED
    BY <1>2, <2>1
<1>6. \A i \in 1 .. n : f[i] \in Int /\ h[i] = f[i]
  BY <1>1, <1>2, <1>3
<1>7. \A i \in 1 .. m : g[i] \in Int /\ h[n + i] = g[i]
  BY <1>1, <1>2, <1>4, <1>5
<1>8. /\ EntryQty(s, p) = SumOver(f, 1 .. n) /\ EntryQty(s, q) = SumOver(g, 1 .. m)
      /\ EntryQty(s, r) = SumOver(h, 1 .. n + m)
  BY <1>1, <1>2 DEF EntryQty
<1> HIDE DEF f, g, h, n, m
<1>9. SumOver(h, 1 .. n + m) = SumOver(f, 1 .. n) + SumOver(g, 1 .. m)
  BY <1>1, <1>6, <1>7, SumJoined
<1>10. QED
  BY <1>8, <1>9 DEF r

LEMMA EntryRemoved ==
    ASSUME NEW p, Lots(p), NEW k \in DOMAIN p, NEW q, Lots(q), Len(q) = Len(p) - 1,
           \A i \in 1 .. Len(p) - 1 : q[i] = IF i < k THEN p[i] ELSE p[i + 1], NEW s
    PROVE  EntryQty(s, p) = EntryQty(s, q) + Reserves(s, p[k])
<1> DEFINE n == Len(p)
           f == [i \in DOMAIN p |-> Reserves(s, p[i])]
           h == [i \in DOMAIN q |-> Reserves(s, q[i])]
<1>1. n \in Nat /\ DOMAIN p = 1 .. n /\ DOMAIN q = 1 .. n - 1 /\ k \in 1 .. n
  BY SeqDomain DEF Lots
<1>2. \A i \in 1 .. n : f[i] \in Int
  BY <1>1, ReservesNat
<1>3. \A i \in 1 .. n - 1 : h[i] = IF i < k THEN f[i] ELSE f[i + 1]
  <2> SUFFICES ASSUME NEW i \in 1 .. n - 1
               PROVE  h[i] = IF i < k THEN f[i] ELSE f[i + 1]
    OBVIOUS
  <2>1. i \in DOMAIN q /\ i \in DOMAIN p /\ i + 1 \in DOMAIN p
    BY <1>1
  <2>2. h[i] = Reserves(s, q[i]) /\ f[i] = Reserves(s, p[i]) /\ f[i + 1] = Reserves(s, p[i + 1])
    BY <2>1
  <2>3. q[i] = IF i < k THEN p[i] ELSE p[i + 1]
    OBVIOUS
  <2> HIDE DEF f, h
  <2>4. QED
    BY <2>2, <2>3
<1>4. EntryQty(s, p) = SumOver(f, 1 .. n) /\ EntryQty(s, q) = SumOver(h, 1 .. n - 1)
      /\ f[k] = Reserves(s, p[k])
  BY <1>1 DEF EntryQty
<1> HIDE DEF f, h, n
<1>5. SumOver(f, 1 .. n) = SumOver(h, 1 .. n - 1) + f[k]
  BY <1>1, <1>2, <1>3, SumShortened
<1>6. QED
  BY <1>4, <1>5

\* What the orders and the requests behind the results q hold.
AskedBy(ord, q) == [i \in DOMAIN q |-> IF q[i].id = 0 THEN q[i].req ELSE ord[q[i].id]]
Owing(s, ord, q) == EntryQty(s, AskedBy(ord, q))
AskOf(ord, o) == IF o.id = 0 THEN o.req ELSE ord[o.id]

LEMMA AskedLots ==
    ASSUME NEW ord \in Seq(Orders), NEW q \in Seq(Outcomes(Len(ord)))
    PROVE  /\ Lots(AskedBy(ord, q)) /\ Len(AskedBy(ord, q)) = Len(q)
           /\ \A i \in DOMAIN q : AskedBy(ord, q)[i] = AskOf(ord, q[i])
           /\ \A o \in Outcomes(Len(ord)) : AskOf(ord, o).qty \in Nat
<1> DEFINE O == Outcomes(Len(ord))
           a == AskedBy(ord, q)
<1>1. \A o \in O : AskOf(ord, o).qty \in Nat
  <2> SUFFICES ASSUME NEW o \in O PROVE AskOf(ord, o).qty \in Nat
    OBVIOUS
  <2>1. o.req \in Requests /\ o.id \in 0 .. Len(ord)
    BY DEF Outcomes
  <2>2. o.id # 0 => ord[o.id] \in Orders
    BY <2>1
  <2>3. QED
    BY <2>1, <2>2 DEF AskOf, Orders, Requests
<1>2. q \in Seq(O)
  OBVIOUS
<1> HIDE DEF O
<1>3. Len(q) \in Nat /\ DOMAIN q = 1 .. Len(q) /\ \A i \in DOMAIN q : q[i] \in O
  BY <1>2
<1>4. DOMAIN a = DOMAIN q /\ \A i \in DOMAIN q : a[i] = AskOf(ord, q[i])
  BY DEF AskedBy, AskOf
<1> HIDE DEF a
<1>5. a = [i \in DOMAIN q |-> a[i]]
  <2>1. a = [i \in DOMAIN q |-> IF q[i].id = 0 THEN q[i].req ELSE ord[q[i].id]]
    BY DEF a, AskedBy
  <2>2. QED
    BY <2>1
<1> DEFINE V == {a[i] : i \in DOMAIN q}
<1>6. a \in [1 .. Len(q) -> V]
  BY <1>3, <1>5
<1> HIDE DEF V
<1>7. a \in Seq(V)
  BY <1>3, <1>6, FunctionSeq
<1>8. IsSeq(a) /\ Len(a) = Len(q)
  BY <1>3, <1>4, <1>7 DEF IsSeq
<1>9. Lots(a)
  BY <1>1, <1>3, <1>4, <1>8 DEF Lots
<1>10. QED
  BY <1>1, <1>4, <1>8, <1>9 DEF a, O

LEMMA OwingNat ==
    ASSUME NEW ord \in Seq(Orders), NEW q \in Seq(Outcomes(Len(ord))), NEW s
    PROVE  Owing(s, ord, q) \in Nat
  BY AskedLots, EntryNat DEF Owing

LEMMA OwingNone ==
    ASSUME NEW ord, NEW s
    PROVE  Owing(s, ord, << >>) = 0
<1>1. DOMAIN AskedBy(ord, << >>) = {}
  BY DEF AskedBy
<1>2. QED
  BY <1>1, SumEmpty DEF Owing, EntryQty

LEMMA OwingAppended ==
    ASSUME NEW ord \in Seq(Orders), NEW q \in Seq(Outcomes(Len(ord))),
           NEW o \in Outcomes(Len(ord)), NEW s
    PROVE  Owing(s, ord, Append(q, o)) = Owing(s, ord, q) + Reserves(s, AskOf(ord, o))
<1> DEFINE O == Outcomes(Len(ord))
           r == Append(q, o)
<1>1. /\ r \in Seq(O) /\ Len(r) = Len(q) + 1 /\ Len(q) \in Nat /\ DOMAIN q = 1 .. Len(q)
      /\ DOMAIN r = 1 .. Len(r)
      /\ \A i \in 1 .. Len(q) : r[i] = q[i]
      /\ r[Len(q) + 1] = o
  <2>1. q \in Seq(O) /\ o \in O
    OBVIOUS
  <2> HIDE DEF O
  <2>2. QED
    BY <2>1
<1> HIDE DEF r
<1>2. /\ Lots(AskedBy(ord, q)) /\ Len(AskedBy(ord, q)) = Len(q)
      /\ \A i \in DOMAIN q : AskedBy(ord, q)[i] = AskOf(ord, q[i])
  BY AskedLots
<1>3. /\ Lots(AskedBy(ord, r)) /\ Len(AskedBy(ord, r)) = Len(r)
      /\ \A i \in DOMAIN r : AskedBy(ord, r)[i] = AskOf(ord, r[i])
  BY <1>1, AskedLots
<1> HIDE DEF O
<1>4. \A i \in 1 .. Len(q) : AskedBy(ord, r)[i] = AskedBy(ord, q)[i]
  BY <1>1, <1>2, <1>3
<1>5. AskedBy(ord, r)[Len(q) + 1] = AskOf(ord, o)
  <2>1. Len(q) + 1 \in DOMAIN r
    BY <1>1
  <2>2. AskedBy(ord, r)[Len(q) + 1] = AskOf(ord, r[Len(q) + 1])
    BY <1>3, <2>1
  <2>3. r[Len(q) + 1] = o
    BY <1>1
  <2>4. QED
    BY <2>2, <2>3
<1>6. EntryQty(s, AskedBy(ord, r))
        = EntryQty(s, AskedBy(ord, q)) + Reserves(s, AskedBy(ord, r)[Len(q) + 1])
  <2> DEFINE p == AskedBy(ord, q)
             u == AskedBy(ord, r)
  <2>1. Lots(p) /\ Lots(u) /\ Len(u) = Len(p) + 1 /\ Len(p) = Len(q)
        /\ \A i \in 1 .. Len(p) : u[i] = p[i]
    BY <1>1, <1>2, <1>3, <1>4
  <2> HIDE DEF p, u
  <2>2. EntryQty(s, u) = EntryQty(s, p) + Reserves(s, u[Len(p) + 1])
    BY <2>1, EntryAppended
  <2>3. QED
    BY <2>1, <2>2 DEF p, u
<1>7. QED
  BY <1>5, <1>6 DEF Owing, r

LEMMA OwingRemoved ==
    ASSUME NEW ord \in Seq(Orders), NEW q \in Seq(Outcomes(Len(ord))), NEW k \in DOMAIN q,
           NEW r \in Seq(Outcomes(Len(ord))), Len(r) = Len(q) - 1,
           \A i \in 1 .. Len(q) - 1 : r[i] = IF i < k THEN q[i] ELSE q[i + 1], NEW s
    PROVE  Owing(s, ord, q) = Owing(s, ord, r) + Reserves(s, AskOf(ord, q[k]))
<1> DEFINE p == AskedBy(ord, q)
           u == AskedBy(ord, r)
<1>1. /\ Lots(p) /\ Len(p) = Len(q) /\ \A i \in DOMAIN q : p[i] = AskOf(ord, q[i])
  BY AskedLots
<1>2. /\ Lots(u) /\ Len(u) = Len(r) /\ \A i \in DOMAIN r : u[i] = AskOf(ord, r[i])
  BY AskedLots
<1>3. /\ Len(q) \in Nat /\ DOMAIN q = 1 .. Len(q) /\ DOMAIN r = 1 .. Len(q) - 1
      /\ DOMAIN p = 1 .. Len(p)
  <2>1. Len(q) \in Nat /\ DOMAIN q = 1 .. Len(q) /\ DOMAIN r = 1 .. Len(r)
    <3> DEFINE O == Outcomes(Len(ord))
    <3>1. q \in Seq(O) /\ r \in Seq(O)
      OBVIOUS
    <3> HIDE DEF O
    <3>2. QED
      BY <3>1
  <2>2. QED
    BY <1>1, <2>1, SeqDomain DEF Lots
<1> HIDE DEF p, u
<1>4. \A i \in 1 .. Len(p) - 1 : u[i] = IF i < k THEN p[i] ELSE p[i + 1]
  <2> SUFFICES ASSUME NEW i \in 1 .. Len(p) - 1
               PROVE  u[i] = IF i < k THEN p[i] ELSE p[i + 1]
    OBVIOUS
  <2>1. i \in DOMAIN r /\ i \in DOMAIN q /\ i + 1 \in DOMAIN q
    BY <1>1, <1>3
  <2>2. u[i] = AskOf(ord, r[i]) /\ p[i] = AskOf(ord, q[i]) /\ p[i + 1] = AskOf(ord, q[i + 1])
    BY <1>1, <1>2, <2>1
  <2>3. r[i] = IF i < k THEN q[i] ELSE q[i + 1]
    BY <1>1
  <2>4. QED
    BY <2>2, <2>3
<1>5. EntryQty(s, p) = EntryQty(s, u) + Reserves(s, p[k])
  <2>1. k \in DOMAIN p /\ Len(u) = Len(p) - 1
    BY <1>1, <1>2, <1>3
  <2>2. QED
    BY <1>1, <1>2, <1>4, <2>1, EntryRemoved
<1>6. QED
  BY <1>1, <1>5 DEF Owing, p, u

LEMMA OwingTail ==
    ASSUME NEW ord \in Seq(Orders), NEW q \in Seq(Outcomes(Len(ord))), q # << >>, NEW s
    PROVE  Owing(s, ord, q) = Owing(s, ord, Tail(q)) + Reserves(s, AskOf(ord, Head(q)))
<1> DEFINE O == Outcomes(Len(ord))
           r == Tail(q)
<1>1. /\ r \in Seq(O) /\ Len(r) = Len(q) - 1 /\ 1 \in DOMAIN q /\ Head(q) = q[1]
      /\ \A i \in 1 .. Len(q) - 1 : r[i] = IF i < 1 THEN q[i] ELSE q[i + 1]
  <2>1. q \in Seq(O)
    OBVIOUS
  <2> HIDE DEF O
  <2>2. QED
    BY <2>1
<1> HIDE DEF r
<1>2. Owing(s, ord, q) = Owing(s, ord, r) + Reserves(s, AskOf(ord, q[1]))
  BY <1>1, OwingRemoved
<1>3. QED
  BY <1>1, <1>2 DEF r

\* Orders keep their symbol, action and quantity.
LEMMA OwingKept ==
    ASSUME NEW ord \in Seq(Orders), NEW new, NEW q \in Seq(Outcomes(Len(ord))),
           \A i \in DOMAIN ord : /\ new[i].sym = ord[i].sym /\ new[i].act = ord[i].act
                                 /\ new[i].qty = ord[i].qty,
           NEW s
    PROVE  Owing(s, new, q) = Owing(s, ord, q)
<1> DEFINE f == [i \in DOMAIN q |-> Reserves(s, AskedBy(ord, q)[i])]
           h == [i \in DOMAIN q |-> Reserves(s, AskedBy(new, q)[i])]
           O == Outcomes(Len(ord))
<1>1. \A i \in DOMAIN q : f[i] = h[i]
  <2> SUFFICES ASSUME NEW i \in DOMAIN q PROVE f[i] = h[i]
    OBVIOUS
  <2>1. q[i] \in O
    <3>1. q \in Seq(O)
      OBVIOUS
    <3> HIDE DEF O
    <3>2. QED
      BY <3>1
  <2>2. q[i].id # 0 => q[i].id \in DOMAIN ord
    BY <2>1 DEF Outcomes
  <2>3. AskedBy(ord, q)[i] = (IF q[i].id = 0 THEN q[i].req ELSE ord[q[i].id])
        /\ AskedBy(new, q)[i] = (IF q[i].id = 0 THEN q[i].req ELSE new[q[i].id])
    BY DEF AskedBy
  <2>4. QED
    BY <2>2, <2>3 DEF Reserves
<1>2. f = h
  BY <1>1
<1>3. DOMAIN AskedBy(ord, q) = DOMAIN q /\ DOMAIN AskedBy(new, q) = DOMAIN q
  BY DEF AskedBy
<1>4. QED
  BY <1>2, <1>3 DEF Owing, EntryQty

-----------------------------------------------------------------------------
(* Results and the orders they are about                                   *)

\* The results whose order is the one that was asked for.
Matching(ord) ==
    {o \in Outcomes(Len(ord)) : o.id # 0 =>
        /\ ord[o.id].sym = o.req.sym /\ ord[o.id].side = o.req.side
        /\ ord[o.id].qty = o.req.qty}

\* Every result is about the order its request became, wherever it is.
Matches ==
    /\ results \in Seq(Matching(orders))
    /\ got \in [Threads -> Seq(Matching(orders))]
    /\ pending \in [Symbols -> Seq(Matching(orders))]

LEMMA MatchingKept ==
    ASSUME NEW ord \in Seq(Orders), NEW new \in Seq(Orders), Len(ord) <= Len(new),
           \A i \in DOMAIN ord : /\ new[i].sym = ord[i].sym /\ new[i].side = ord[i].side
                                 /\ new[i].qty = ord[i].qty
    PROVE  /\ Matching(ord) \subseteq Matching(new)
           /\ Seq(Matching(ord)) \subseteq Seq(Matching(new))
<1>1. Len(ord) \in Nat /\ Len(new) \in Nat /\ DOMAIN ord = 1 .. Len(ord)
  OBVIOUS
<1>2. Outcomes(Len(ord)) \subseteq Outcomes(Len(new))
  BY <1>1 DEF Outcomes
<1>3. Matching(ord) \subseteq Matching(new)
  <2> SUFFICES ASSUME NEW o \in Matching(ord) PROVE o \in Matching(new)
    OBVIOUS
  <2>1. o \in Outcomes(Len(ord)) /\ o \in Outcomes(Len(new))
    BY <1>2 DEF Matching
  <2>2. o.id # 0 => o.id \in DOMAIN ord
    BY <1>1, <2>1 DEF Outcomes
  <2>3. QED
    BY <2>1, <2>2 DEF Matching
<1>4. QED
  BY <1>3, SeqWidens

\* The new order is its request.
LEMMA ExecuteKeeps ==
    ASSUME ItemTypes, NEW i \in DOMAIN queue, NEW o, Takes(i, o, Len(orders) + 1)
    PROVE  /\ o \in Matching(orders')
           /\ orders' \in Seq(Orders) /\ Len(orders) <= Len(orders')
           /\ \A j \in DOMAIN orders : orders'[j] = orders[j]
           /\ queue[i] \in Requests
           /\ \A s : Reserves(s, AskOf(orders', o)) = Reserves(s, queue[i])
<1>1. queue[i] \in Requests /\ Len(orders) \in Nat /\ DOMAIN orders = 1 .. Len(orders)
  BY DEF ItemTypes
<1>2. CASE orders' = orders /\ o.id = 0
  <2>0. o = Outcome(queue[i], 0) /\ o.req = queue[i]
    BY <1>2 DEF Takes
  <2>1. o \in Outcomes(Len(orders))
    BY <1>1, <2>0 DEF Outcome, Outcomes
  <2>2. o \in Matching(orders)
    BY <1>2, <2>1 DEF Matching
  <2>3. \A s : Reserves(s, AskOf(orders', o)) = Reserves(s, queue[i])
    BY <1>2, <2>0 DEF AskOf
  <2>4. orders' \in Seq(Orders) /\ Len(orders) <= Len(orders')
        /\ \A j \in DOMAIN orders : orders'[j] = orders[j]
    BY <1>1, <1>2 DEF ItemTypes
  <2>5. QED
    BY <1>1, <1>2, <2>2, <2>3, <2>4
<1>3. CASE \E st \in OrderStates : orders' = Append(orders, Placed(queue[i], st))
  <2>1. PICK st \in OrderStates : orders' = Append(orders, Placed(queue[i], st))
    BY <1>3
  <2> DEFINE p == Placed(queue[i], st)
             m == Len(orders) + 1
  <2>2. p \in Orders
    BY <1>1, PlacedTyped
  <2>3. p.sym = queue[i].sym /\ p.side = queue[i].side /\ p.qty = queue[i].qty
        /\ p.act = queue[i].act
    BY DEF Placed
  <2> HIDE DEF p
  <2>4. /\ orders' \in Seq(Orders) /\ Len(orders') = m /\ orders'[m] = p
        /\ \A j \in DOMAIN orders : orders'[j] = orders[j]
    BY <1>1, <2>1, <2>2 DEF ItemTypes, p
  <2>5. o.req = queue[i] /\ o.id \in {0, m} /\ o = Outcome(queue[i], o.id)
    BY DEF Takes
  <2>6. o \in Outcomes(Len(orders'))
    BY <1>1, <2>4, <2>5 DEF Outcome, Outcomes
  <2>7. o.id # 0 => orders'[o.id] = p
    BY <2>4, <2>5
  <2>8. o \in Matching(orders')
    BY <2>3, <2>5, <2>6, <2>7 DEF Matching
  <2>9. \A s : Reserves(s, AskOf(orders', o)) = Reserves(s, queue[i])
    BY <2>3, <2>5, <2>7 DEF AskOf, Reserves
  <2>10. QED
    BY <1>1, <2>4, <2>8, <2>9
<1>4. QED
  BY <1>2, <1>3 DEF Takes

LEMMA ExecuteMatches ==
    ASSUME ItemTypes, Matches, Executor
    PROVE  Matches'
<1>0. PICK i \in DOMAIN queue : \E o : Takes(i, o, Len(orders) + 1)
  BY ExecuteTakes
<1>1. PICK o : Takes(i, o, Len(orders) + 1)
  BY <1>0
<1>2. UNCHANGED <<got, pending>>
  BY ExecuteTakes DEF threads
<1> DEFINE M == Matching(orders)
           N == Matching(orders')
<1>3. Seq(M) \subseteq Seq(N) /\ M \subseteq N /\ o \in N
  BY <1>1, ExecuteKeeps, MatchingKept DEF ItemTypes
<1>4. results' = Append(results, o)
  BY <1>1 DEF Takes
<1>5. results \in Seq(M) /\ got \in [Threads -> Seq(M)] /\ pending \in [Symbols -> Seq(M)]
  BY DEF Matches
<1> HIDE DEF M, N
<1>6. results' \in Seq(N)
  BY <1>3, <1>4, <1>5
<1>7. got' \in [Threads -> Seq(N)] /\ pending' \in [Symbols -> Seq(N)]
  BY <1>2, <1>3, <1>5
<1>8. QED
  BY <1>6, <1>7 DEF Matches, N

LEMMA SettlesKeeps ==
    ASSUME ItemTypes, NEW i \in DOMAIN orders, OrderSettles(i)
    PROVE  /\ DOMAIN orders' = DOMAIN orders
           /\ \A j \in DOMAIN orders :
                 /\ orders'[j].sym = orders[j].sym /\ orders'[j].side = orders[j].side
                 /\ orders'[j].qty = orders[j].qty /\ orders'[j].act = orders[j].act
           /\ UNCHANGED <<queue, results, got, pending>>
<1>1. PICK st : orders' = [orders EXCEPT ![i].state = st]
  BY DEF OrderSettles
<1>2. \A j \in DOMAIN orders : orders[j] \in Orders
  BY DEF ItemTypes
<1>3. \A j \in DOMAIN orders :
         /\ orders'[j].sym = orders[j].sym /\ orders'[j].side = orders[j].side
         /\ orders'[j].qty = orders[j].qty /\ orders'[j].act = orders[j].act
  BY <1>1, <1>2 DEF Orders
<1>4. QED
  BY <1>1, <1>3 DEF OrderSettles, exec, threads

LEMMA SettlesMatches ==
    ASSUME ItemTypes, ItemTypes', Matches, NEW i \in DOMAIN orders, OrderSettles(i)
    PROVE  Matches'
<1>1. orders \in Seq(Orders) /\ orders' \in Seq(Orders) /\ Len(orders) <= Len(orders')
  BY SettlesKeeps DEF ItemTypes
<1> DEFINE M == Matching(orders)
           N == Matching(orders')
<1>2. Seq(M) \subseteq Seq(N)
  BY <1>1, SettlesKeeps, MatchingKept
<1>3. results \in Seq(M) /\ got \in [Threads -> Seq(M)] /\ pending \in [Symbols -> Seq(M)]
  BY DEF Matches
<1>4. UNCHANGED <<results, got, pending>>
  BY SettlesKeeps
<1> HIDE DEF M, N
<1>5. results' \in Seq(N) /\ got' \in [Threads -> Seq(N)] /\ pending' \in [Symbols -> Seq(N)]
  BY <1>2, <1>3, <1>4
<1>6. QED
  BY <1>5 DEF Matches, N

LEMMA MatchesStays ==
    ASSUME Matches, UNCHANGED <<orders, results, got, pending>>
    PROVE  Matches'
  BY DEF Matches

\* A thread gets a result, or goes on to its next one.
LEMMA MatchesGot ==
    ASSUME Matches, NEW t \in Threads, NEW q \in Seq(Matching(orders)),
           got' = [got EXCEPT ![t] = q], results' \in Seq(Matching(orders)),
           pending' \in [Symbols -> Seq(Matching(orders))], orders' = orders
    PROVE  Matches'
<1> DEFINE M == Matching(orders)
<1>1. got \in [Threads -> Seq(M)] /\ q \in Seq(M)
  BY DEF Matches
<1> HIDE DEF M
<1>2. got' \in [Threads -> Seq(M)]
  BY <1>1
<1>3. QED
  BY <1>2 DEF Matches, M

LEMMA MatchesPends ==
    ASSUME Matches, NEW s \in Symbols, NEW o \in Matching(orders), AddPending(s, o)
    PROVE  pending' \in [Symbols -> Seq(Matching(orders))]
<1> DEFINE M == Matching(orders)
<1>1. pending \in [Symbols -> Seq(M)] /\ o \in M
  BY DEF Matches
<1> HIDE DEF M
<1>2. pending' = [pending EXCEPT ![s] = Append(@, o)] /\ Append(pending[s], o) \in Seq(M)
  BY <1>1 DEF AddPending
<1>3. pending' \in [Symbols -> Seq(M)]
  BY <1>1, <1>2
<1>4. QED
  BY <1>3 DEF M

LEMMA CollectMatches ==
    ASSUME ItemTypes, Matches, NEW t \in Threads, Collect(t) \/ CollectTimeout(t)
    PROVE  Matches'
<1> DEFINE M == Matching(orders)
<1>0. results \in Seq(M) /\ got[t] \in Seq(M) /\ batch[t] \in Seq(Requests)
      /\ pending \in [Symbols -> Seq(M)] /\ Len(orders) \in Nat
  BY DEF Matches, ItemTypes
<1>1. UNCHANGED <<orders, pending>>
  BY DEF Collect, CollectTimeout, broker
<1>2. CASE Collect(t)
  <2>1. /\ got' = [got EXCEPT ![t] = Append(got[t], Head(results))]
        /\ results' = Tail(results) /\ results # << >>
    BY <1>2 DEF Collect
  <2> HIDE DEF M
  <2>2. Append(got[t], Head(results)) \in Seq(M) /\ Tail(results) \in Seq(M)
    BY <1>0, <2>1
  <2>3. QED
    BY <1>0, <1>1, <2>1, <2>2, MatchesGot DEF M
<1>3. CASE CollectTimeout(t)
  <2> DEFINE o == Outcome(batch[t][Len(got[t]) + 1], 0)
  <2>1. /\ got' = [got EXCEPT ![t] = Append(got[t], o)]
        /\ results' = results /\ Len(got[t]) < Len(batch[t])
    BY <1>3 DEF CollectTimeout, exec
  <2>2. batch[t][Len(got[t]) + 1] \in Requests
    <3>1. Len(got[t]) + 1 \in 1 .. Len(batch[t])
      <4> HIDE DEF M
      <4>1. QED
        BY <1>0, <2>1
    <3>2. QED
      BY <1>0, <3>1
  <2>3. o \in M
    BY <1>0, <2>2 DEF Outcome, Outcomes, Matching
  <2> HIDE DEF M, o
  <2>4. Append(got[t], o) \in Seq(M)
    BY <1>0, <2>3
  <2>5. QED
    BY <1>0, <1>1, <2>1, <2>4, MatchesGot DEF M
<1>4. QED
  BY <1>2, <1>3

LEMMA RecordMatches ==
    ASSUME ItemTypes, Matches, LoopRecord \/ \E t \in Threads : EodRecord(t)
    PROVE  Matches'
<1> DEFINE M == Matching(orders)
<1>1. PICK t \in Threads :
         /\ got[t] # << >> /\ got' = [got EXCEPT ![t] = Tail(got[t])]
         /\ UNCHANGED <<orders, queue, results, batch, rcopy>>
         /\ LET res == Head(got[t]) IN
            \/ pending' = pending
            \/ /\ res.id # 0
               /\ \/ AddPending(res.req.sym, res)
                  \/ AddPending(res.req.sym, [res EXCEPT !.req.act = "MARKET_CLOSE_EXIT",
                                                         !.req.held = res.req.side])
  BY RecordStep
<1> DEFINE res == Head(got[t])
<1>2. results \in Seq(M) /\ got[t] \in Seq(M) /\ pending \in [Symbols -> Seq(M)]
  BY DEF Matches
<1>3. res \in M /\ Tail(got[t]) \in Seq(M)
  <2> HIDE DEF M
  <2>1. QED
    BY <1>1, <1>2
<1> HIDE DEF res
<1>4. res.req \in Requests /\ res.req.sym \in Symbols
  BY <1>3 DEF Matching, Outcomes, Requests
<1>5. [res EXCEPT !.req.act = "MARKET_CLOSE_EXIT", !.req.held = res.req.side] \in M
  BY <1>3, <1>4 DEF Matching, Outcomes, Requests, Exits
<1>6. pending' \in [Symbols -> Seq(M)]
  <2>1. CASE pending' = pending
    BY <1>2, <2>1
  <2>2. CASE AddPending(res.req.sym, res)
    BY <1>3, <1>4, <2>2, MatchesPends
  <2>3. CASE AddPending(res.req.sym, [res EXCEPT !.req.act = "MARKET_CLOSE_EXIT",
                                                 !.req.held = res.req.side])
    BY <1>4, <1>5, <2>3, MatchesPends
  <2>4. QED
    BY <1>1, <2>1, <2>2, <2>3 DEF res
<1>7. results' \in Seq(M)
  BY <1>1, <1>2
<1>8. QED
  BY <1>1, <1>3, <1>6, <1>7, MatchesGot

LEMMA ExitRecordMatches ==
    ASSUME ItemTypes, Answered, Matches, ExitRecord
    PROVE  Matches'
<1> DEFINE M == "monitor"
           N == Matching(orders)
           res == Head(got[M])
           s == batch[M][1].sym
<1>0. M \in Threads /\ got[M] # << >> /\ batch[M] # << >>
  BY DEF Threads, Answered, ExitRecord
<1>1. /\ got' = [got EXCEPT ![M] = << >>]
      /\ UNCHANGED <<orders, results>>
      /\ \/ pending' = pending
         \/ res.id # 0 /\ AddPending(s, res)
  BY DEF ExitRecord, broker, exec
<1>2. got[M] \in Seq(N) /\ results \in Seq(N) /\ batch[M] \in Seq(Requests)
      /\ pending \in [Symbols -> Seq(N)]
  BY <1>0 DEF ItemTypes, Matches
<1>3. s \in Symbols
  <2>1. batch[M][1] \in Requests
    BY <1>0, <1>2
  <2>2. QED
    BY <2>1 DEF Requests
<1>4. res \in N
  <2> HIDE DEF N, M
  <2>1. QED
    BY <1>0, <1>2
<1> HIDE DEF res, s
<1>5. pending' \in [Symbols -> Seq(N)]
  BY <1>1, <1>2, <1>3, <1>4, MatchesPends
<1>6. << >> \in Seq(N) /\ results' \in Seq(N)
  BY <1>1, <1>2
<1> HIDE DEF M
<1>7. QED
  BY <1>0, <1>1, <1>5, <1>6, MatchesGot

LEMMA ReconcileMatches ==
    ASSUME ItemTypes, Matches, ReconcileOrder
    PROVE  Matches'
<1> DEFINE M == Matching(orders)
<1>1. PICK s, c : /\ Looks(s, c) /\ (Keep \/ Settle(s, c))
                  /\ UNCHANGED <<orders, results, got>>
  BY OrderReconciled DEF broker, exec, threads
<1>2. s \in Symbols
  BY <1>1, LooksTyped
<1>3. pending \in [Symbols -> Seq(M)] /\ results \in Seq(M) /\ got \in [Threads -> Seq(M)]
  BY DEF Matches
<1> HIDE DEF M
<1>4. pending' \in [Symbols -> Seq(M)]
  <2>1. CASE Keep
    BY <1>3, <2>1 DEF Keep
  <2>2. CASE Settle(s, c)
    <3> DEFINE q == RemoveFirst(pending[s], c)
    <3>1. pending' = [pending EXCEPT ![s] = q]
      BY <2>2 DEF Settle
    <3>2. q \in Seq(M)
      BY <1>2, <1>3, RemoveFirstTyped
    <3> HIDE DEF q
    <3>3. QED
      BY <1>2, <1>3, <3>1, <3>2
  <2>3. QED
    BY <1>1, <2>1, <2>2
<1>5. QED
  BY <1>1, <1>3, <1>4 DEF Matches, M

LEMMA SubmitMatches ==
    ASSUME Matches, NEW t \in Threads, NEW q, NEW w, Submit(t, q, w), UNCHANGED <<orders, pending>>
    PROVE  Matches'
<1> DEFINE M == Matching(orders)
<1>1. results' = results /\ got' = [got EXCEPT ![t] = << >>]
  BY DEF Submit
<1>2. results' \in Seq(M) /\ pending' \in [Symbols -> Seq(M)] /\ << >> \in Seq(M)
  BY <1>1 DEF Matches
<1>3. QED
  BY <1>1, <1>2, MatchesGot

\* The steps that move no order, request or result.
Quiet ==
    \/ WorkerStop \/ MarketCloses \/ \E s \in Symbols, d \in {Buy, Sell} : UserTrades(s, d)
    \/ ReconcileBegin \/ ReconcileFetch \/ ReconcileEnd \/ \E s \in Symbols : ReconcileSymbol(s)
    \/ LoopTop \/ LoopFetch \/ LoopRecorded \/ LoopCycled
    \/ MonitorStop \/ MonitorJoin
    \/ \E t \in Threads : Join(t) \/ EodBegin(t) \/ EodFinish(t)
    \/ UNCHANGED vars

LEMMA QuietItems ==
    ASSUME Quiet \/ \E t \in Threads : EodAfter(t)
    PROVE  UNCHANGED <<orders, queue, results, got, pending>>
<1>1. CASE WorkerStop \/ MarketCloses \/ \E s \in Symbols, d \in {Buy, Sell} : UserTrades(s, d)
  BY <1>1 DEF WorkerStop, MarketCloses, UserTrades, exec, broker, threads
<1>2. CASE ReconcileBegin \/ ReconcileFetch \/ ReconcileEnd \/ \E s \in Symbols : ReconcileSymbol(s)
  BY <1>2 DEF ReconcileBegin, ReconcileFetch, ReconcileEnd, ReconcileSymbol, exec, broker, threads
<1>3. CASE LoopTop \/ LoopFetch \/ LoopRecorded \/ LoopCycled
  BY <1>3 DEF LoopTop, LoopFetch, LoopRecorded, LoopCycled, exec, broker
<1>4. CASE MonitorStop \/ MonitorJoin
  BY <1>4 DEF MonitorStop, MonitorJoin, exec, broker
<1>5. CASE \E t \in Threads : Join(t) \/ EodBegin(t) \/ EodFinish(t) \/ EodAfter(t)
  BY <1>5 DEF Join, EodBegin, EodFinish, EodAfter, exec, broker
<1>6. CASE UNCHANGED vars
  BY <1>6 DEF vars
<1>7. QED
  BY <1>1, <1>2, <1>3, <1>4, <1>5, <1>6 DEF Quiet

LEMMA QuietBooks ==
    ASSUME Quiet
    PROVE  UNCHANGED <<irregular, reserved>>
<1>1. CASE WorkerStop \/ MarketCloses \/ \E s \in Symbols, d \in {Buy, Sell} : UserTrades(s, d)
  BY <1>1 DEF WorkerStop, MarketCloses, UserTrades, broker
<1>2. CASE ReconcileBegin \/ ReconcileFetch \/ ReconcileEnd \/ \E s \in Symbols : ReconcileSymbol(s)
  BY <1>2 DEF ReconcileBegin, ReconcileFetch, ReconcileEnd, ReconcileSymbol, broker
<1>3. CASE LoopTop \/ LoopFetch \/ LoopRecorded \/ LoopCycled
  BY <1>3 DEF LoopTop, LoopFetch, LoopRecorded, LoopCycled, broker
<1>4. CASE MonitorStop \/ MonitorJoin
  BY <1>4 DEF MonitorStop, MonitorJoin, broker
<1>5. CASE \E t \in Threads : Join(t) \/ EodBegin(t) \/ EodFinish(t)
  BY <1>5 DEF Join, EodBegin, EodFinish, broker
<1>6. CASE UNCHANGED vars
  BY <1>6 DEF vars
<1>7. QED
  BY <1>1, <1>2, <1>3, <1>4, <1>5, <1>6 DEF Quiet

\* Every step, by what it does to orders and results.
LEMMA Steps ==
    ASSUME [Next]_vars
    PROVE  \/ Quiet \/ Executor \/ \E i \in DOMAIN orders : OrderSettles(i)
           \/ LoopDecide \/ LoopRecord \/ ExitRecord \/ ReconcileOrder
           \/ \E s \in Symbols : ExitSubmit(s)
           \/ \E t \in Threads : \/ Collect(t) \/ CollectTimeout(t) \/ EodSubmit(t)
                                 \/ EodRecord(t) \/ EodAfter(t)
<1>1. CASE Next
  <2>1. CASE Executor \/ Loop \/ Monitor
    BY <2>1 DEF Loop, Monitor, Quiet
  <2>2. CASE Reconciler \/ Outside
    BY <2>2 DEF Reconciler, Outside, Quiet
  <2>3. CASE \E t \in Threads : Shared(t)
    BY <2>3 DEF Shared, Quiet
  <2>4. QED
    BY <1>1, <2>1, <2>2, <2>3 DEF Next
<1>2. QED
  BY <1>1 DEF Quiet

LEMMA MatchesStep ==
    ASSUME TypeInv, TypeInv', Matches, [Next]_vars
    PROVE  Matches'
<1> USE DEF TypeInv
<1>1. CASE Quiet \/ \E t \in Threads : EodAfter(t)
  BY <1>1, QuietItems, MatchesStays
<1>2. CASE LoopDecide
  <2>1. UNCHANGED <<orders, pending>> /\ "loop" \in Threads
    BY <1>2 DEF LoopDecide, broker, Threads
  <2>2. UNCHANGED <<results, got>> \/ \E q, w : Submit("loop", q, w)
    BY <1>2, DecideSubmits
  <2>3. QED
    BY <2>1, <2>2, SubmitMatches, MatchesStays
<1>3. CASE \E s \in Symbols : ExitSubmit(s)
  <2>1. UNCHANGED <<orders, pending>> /\ "monitor" \in Threads
    BY <1>3 DEF ExitSubmit, broker, Threads
  <2>2. UNCHANGED <<results, got>> \/ \E q, w : Submit("monitor", q, w)
    BY <1>3, ExitSubmits
  <2>3. QED
    BY <2>1, <2>2, SubmitMatches, MatchesStays
<1>4. ASSUME NEW t \in Threads, EodSubmit(t)
      PROVE  Matches'
  <2>1. UNCHANGED <<orders, pending>>
    BY <1>4 DEF EodSubmit, broker
  <2>2. UNCHANGED <<results, got>> \/ \E q, w : Submit(t, q, w)
    BY <1>4, PlanSubmits
  <2>3. QED
    BY <2>1, <2>2, SubmitMatches, MatchesStays
<1>5. QED
  BY <1>1, <1>2, <1>3, <1>4, Steps, ExecuteMatches, SettlesMatches, CollectMatches,
     RecordMatches, ExitRecordMatches, ReconcileMatches

-----------------------------------------------------------------------------
(* Reservations                                                            *)

\* Nothing of the square-off has been submitted yet.
Unplanned == slot = "free" \/ \E t \in Threads : pc[t] = "plan"

NoExit == "exit" \notin irregular => job["monitor"] # "exit"

Owed == "exit" \notin irregular /\ Unplanned => \A s \in Symbols : reserved[s] <= Entering(s)

\* The inductive invariant of NoLeakedReservation.
OweInv == Matches /\ NoExit /\ Owed

LEMMA QueueLots ==
    ASSUME NEW q \in Seq(Requests)
    PROVE  Lots(q)
<1>1. \A i \in DOMAIN q : q[i] \in Requests
  OBVIOUS
<1>2. IsSeq(q)
  BY DEF IsSeq
<1>3. QED
  BY <1>1, <1>2 DEF Lots, Requests

\* What Entering counts, part by part.
LEMMA EnteringParts ==
    ASSUME ItemTypes, NEW s \in Symbols
    PROVE  /\ Entering(s) = EntryQty(s, queue) + Owing(s, orders, results)
                            + Owing(s, orders, got["loop"]) + Owing(s, orders, got["monitor"])
                            + Owing(s, orders, pending[s])
           /\ EntryQty(s, queue) \in Nat /\ Owing(s, orders, results) \in Nat
           /\ Owing(s, orders, got["loop"]) \in Nat /\ Owing(s, orders, got["monitor"]) \in Nat
           /\ Owing(s, orders, pending[s]) \in Nat
<1>1. /\ orders \in Seq(Orders) /\ queue \in Seq(Requests)
      /\ results \in Seq(Outcomes(Len(orders)))
      /\ got["loop"] \in Seq(Outcomes(Len(orders)))
      /\ got["monitor"] \in Seq(Outcomes(Len(orders)))
  BY DEF ItemTypes, Threads
<1>2. pending[s] \in Seq(Outcomes(Len(orders)))
  <2>1. Len(orders) \in Nat
    BY DEF ItemTypes
  <2>2. Seq(Taken(Len(orders))) \subseteq Seq(Outcomes(Len(orders)))
    <3>1. Taken(Len(orders)) \subseteq Outcomes(Len(orders))
      BY <2>1 DEF Taken, Outcomes
    <3>2. QED
      BY <3>1, SeqWidens
  <2>3. pending[s] \in Seq(Taken(Len(orders)))
    BY DEF ItemTypes
  <2>4. QED
    BY <2>2, <2>3
<1>3. EntryQty(s, queue) \in Nat
  BY <1>1, QueueLots, EntryNat
<1>4. /\ Owing(s, orders, results) \in Nat
      /\ Owing(s, orders, got["loop"]) \in Nat /\ Owing(s, orders, got["monitor"]) \in Nat
      /\ Owing(s, orders, pending[s]) \in Nat
  BY <1>1, <1>2, OwingNat
<1>5. /\ Asked(results) = AskedBy(orders, results)
      /\ Asked(got["loop"]) = AskedBy(orders, got["loop"])
      /\ Asked(got["monitor"]) = AskedBy(orders, got["monitor"])
      /\ Asked(pending[s]) = AskedBy(orders, pending[s])
  BY DEF Asked, AskedBy
<1>6. QED
  BY <1>3, <1>4, <1>5 DEF Entering, Owing

LEMMA EnteringSame ==
    ASSUME NEW s \in Symbols, UNCHANGED <<orders, queue, results, got, pending>>
    PROVE  Entering(s)' = Entering(s)
  BY DEF Entering, Asked

LEMMA EnteringNext ==
    ASSUME NEW s \in Symbols
    PROVE  Entering(s)' = EntryQty(s, queue') + Owing(s, orders', results')
                          + Owing(s, orders', got'["loop"]) + Owing(s, orders', got'["monitor"])
                          + Owing(s, orders', pending'[s])
<1>1. /\ Asked(results)' = AskedBy(orders', results')
      /\ Asked(got["loop"])' = AskedBy(orders', got'["loop"])
      /\ Asked(got["monitor"])' = AskedBy(orders', got'["monitor"])
      /\ Asked(pending[s])' = AskedBy(orders', pending'[s])
  BY DEF Asked, AskedBy
<1>2. QED
  BY <1>1 DEF Entering, Owing

\* An order is placed: what it holds moves from the queue to its result.
LEMMA ExecuteEnters ==
    ASSUME ItemTypes, ItemTypes', Executor, NEW s \in Symbols
    PROVE  Entering(s)' = Entering(s)
<1>0. PICK i \in DOMAIN queue : \E o : Takes(i, o, Len(orders) + 1)
  BY ExecuteTakes
<1>1. PICK o : Takes(i, o, Len(orders) + 1)
  BY <1>0
<1>2. UNCHANGED <<got, pending>>
  BY ExecuteTakes DEF threads
<1>3. /\ o \in Outcomes(Len(orders')) /\ orders' \in Seq(Orders) /\ Len(orders) <= Len(orders')
      /\ \A j \in DOMAIN orders : orders'[j] = orders[j]
      /\ Reserves(s, AskOf(orders', o)) = Reserves(s, queue[i])
  BY <1>1, ExecuteKeeps DEF Matching
<1> DEFINE n == Len(orders)
           new == orders'
<1>4. orders \in Seq(Orders) /\ n \in Nat /\ Len(new) \in Nat /\ DOMAIN orders = 1 .. n
  BY <1>3 DEF ItemTypes
<1>5. \A q \in Seq(Outcomes(n)) : /\ Owing(s, new, q) = Owing(s, orders, q)
                                  /\ q \in Seq(Outcomes(Len(new)))
  <2> SUFFICES ASSUME NEW q \in Seq(Outcomes(n))
               PROVE  Owing(s, new, q) = Owing(s, orders, q) /\ q \in Seq(Outcomes(Len(new)))
    OBVIOUS
  <2>1. Owing(s, new, q) = Owing(s, orders, q)
    BY <1>3, <1>4, OwingKept
  <2>2. Outcomes(n) \subseteq Outcomes(Len(new))
    BY <1>3, <1>4 DEF Outcomes
  <2>3. Seq(Outcomes(n)) \subseteq Seq(Outcomes(Len(new)))
    BY <2>2, SeqWidens
  <2>4. QED
    BY <2>1, <2>3
<1>6. /\ results \in Seq(Outcomes(n)) /\ got["loop"] \in Seq(Outcomes(n))
      /\ got["monitor"] \in Seq(Outcomes(n)) /\ pending[s] \in Seq(Outcomes(n))
  <2>1. Taken(n) \subseteq Outcomes(n)
    BY <1>4 DEF Taken, Outcomes
  <2>2. Seq(Taken(n)) \subseteq Seq(Outcomes(n))
    BY <2>1, SeqWidens
  <2>3. QED
    BY <2>2 DEF ItemTypes, Threads
<1>7. Owing(s, new, results') = Owing(s, orders, results) + Reserves(s, queue[i])
  <2>1. results' = Append(results, o)
    BY <1>1 DEF Takes
  <2> HIDE DEF n
  <2>2. Owing(s, new, Append(results, o)) = Owing(s, new, results) + Reserves(s, AskOf(new, o))
    BY <1>3, <1>5, <1>6, OwingAppended
  <2>3. QED
    BY <1>3, <1>5, <1>6, <2>1, <2>2
<1>8. EntryQty(s, queue) = EntryQty(s, queue') + Reserves(s, queue[i])
  <2>1. queue' = RemoveAt(queue, i) /\ queue \in Seq(Requests) /\ queue' \in Seq(Requests)
    BY <1>1 DEF Takes, ItemTypes
  <2>2. Lots(queue) /\ Lots(queue')
    BY <2>1, QueueLots
  <2>3. /\ Len(queue') = Len(queue) - 1
        /\ \A j \in 1 .. Len(queue) - 1 : queue'[j] = IF j < i THEN queue[j] ELSE queue[j + 1]
    <3>1. /\ DOMAIN queue' = 1 .. Len(queue) - 1
          /\ \A j \in 1 .. Len(queue) - 1 : queue'[j] = IF j < i THEN queue[j] ELSE queue[j + 1]
      BY <2>1, <2>2, RemoveSeq DEF Lots
    <3>2. Len(queue') \in Nat /\ Len(queue) \in Nat /\ DOMAIN queue' = 1 .. Len(queue')
          /\ DOMAIN queue = 1 .. Len(queue)
      BY <2>1
    <3>3. i \in 1 .. Len(queue) /\ Len(queue) - 1 \in Nat
      BY <3>2
    <3>4. \A m, k \in Nat : 1 .. m = 1 .. k => m = k
      OBVIOUS
    <3>5. 1 .. Len(queue') = 1 .. Len(queue) - 1
      BY <3>1, <3>2
    <3>6. Len(queue') = Len(queue) - 1
      BY <3>2, <3>3, <3>4, <3>5
    <3>7. QED
      BY <3>1, <3>6
  <2> DEFINE old == queue
             after == queue'
  <2>4. /\ Lots(old) /\ Lots(after) /\ i \in DOMAIN old /\ Len(after) = Len(old) - 1
        /\ \A j \in 1 .. Len(old) - 1 : after[j] = IF j < i THEN old[j] ELSE old[j + 1]
    BY <2>2, <2>3
  <2> HIDE DEF old, after
  <2>5. EntryQty(s, old) = EntryQty(s, after) + Reserves(s, old[i])
    BY <2>4, EntryRemoved
  <2>6. QED
    BY <2>5 DEF old, after
<1>9. /\ Owing(s, new, got'["loop"]) = Owing(s, orders, got["loop"])
      /\ Owing(s, new, got'["monitor"]) = Owing(s, orders, got["monitor"])
      /\ Owing(s, new, pending'[s]) = Owing(s, orders, pending[s])
  BY <1>2, <1>5, <1>6
<1>10. /\ Entering(s) = EntryQty(s, queue) + Owing(s, orders, results)
                        + Owing(s, orders, got["loop"]) + Owing(s, orders, got["monitor"])
                        + Owing(s, orders, pending[s])
       /\ EntryQty(s, queue) \in Nat /\ Owing(s, orders, results) \in Nat
       /\ Owing(s, orders, got["loop"]) \in Nat /\ Owing(s, orders, got["monitor"]) \in Nat
       /\ Owing(s, orders, pending[s]) \in Nat
  BY EnteringParts
<1>11. /\ Entering(s)' = EntryQty(s, queue') + Owing(s, new, results')
                         + Owing(s, new, got'["loop"]) + Owing(s, new, got'["monitor"])
                         + Owing(s, new, pending'[s])
       /\ EntryQty(s, queue') \in Nat
  <2>1. queue' \in Seq(Requests)
    BY DEF ItemTypes
  <2>2. EntryQty(s, queue') \in Nat
    BY <2>1, QueueLots, EntryNat
  <2>3. QED
    BY <2>2, EnteringNext
<1>12. Reserves(s, queue[i]) \in Nat
  <2>1. queue \in Seq(Requests)
    BY DEF ItemTypes
  <2>2. Lots(queue)
    BY <2>1, QueueLots
  <2>3. QED
    BY <2>2, ReservesNat
<1> HIDE DEF new
<1>13. QED
  BY <1>7, <1>8, <1>9, <1>10, <1>11, <1>12

LEMMA PendingOutcomes ==
    ASSUME ItemTypes, NEW s \in Symbols
    PROVE  pending[s] \in Seq(Outcomes(Len(orders)))
<1>1. Len(orders) \in Nat
  BY DEF ItemTypes
<1>2. Taken(Len(orders)) \subseteq Outcomes(Len(orders))
  BY <1>1 DEF Taken, Outcomes
<1>3. Seq(Taken(Len(orders))) \subseteq Seq(Outcomes(Len(orders)))
  BY <1>2, SeqWidens
<1>4. QED
  BY <1>3 DEF ItemTypes

\* The broker decides about an order: what is held does not change.
LEMMA SettlesEnters ==
    ASSUME ItemTypes, NEW i \in DOMAIN orders, OrderSettles(i), NEW s \in Symbols
    PROVE  Entering(s)' = Entering(s)
<1>1. /\ \A j \in DOMAIN orders :
            /\ orders'[j].sym = orders[j].sym /\ orders'[j].side = orders[j].side
            /\ orders'[j].qty = orders[j].qty /\ orders'[j].act = orders[j].act
      /\ UNCHANGED <<queue, results, got, pending>>
  BY SettlesKeeps
<1> DEFINE n == Len(orders)
           new == orders'
<1>2. orders \in Seq(Orders)
  BY DEF ItemTypes
<1>3. \A q \in Seq(Outcomes(n)) : Owing(s, new, q) = Owing(s, orders, q)
  BY <1>1, <1>2, OwingKept
<1>4. /\ results \in Seq(Outcomes(n)) /\ got["loop"] \in Seq(Outcomes(n))
      /\ got["monitor"] \in Seq(Outcomes(n)) /\ pending[s] \in Seq(Outcomes(n))
  BY PendingOutcomes DEF ItemTypes, Threads
<1>5. /\ Owing(s, new, results) = Owing(s, orders, results)
      /\ Owing(s, new, got["loop"]) = Owing(s, orders, got["loop"])
      /\ Owing(s, new, got["monitor"]) = Owing(s, orders, got["monitor"])
      /\ Owing(s, new, pending[s]) = Owing(s, orders, pending[s])
  BY <1>3, <1>4
<1>6. QED
  BY <1>1, <1>5, EnteringParts, EnteringNext

\* The orders stay as they are and thread t has g in its hand.
LEMMA EnteringGot ==
    ASSUME ItemTypes, ItemTypes', NEW t \in Threads, NEW g, got' = [got EXCEPT ![t] = g],
           orders' = orders, NEW s \in Symbols
    PROVE  \E rest \in Nat :
              /\ Entering(s) = rest + EntryQty(s, queue) + Owing(s, orders, results)
                               + Owing(s, orders, got[t]) + Owing(s, orders, pending[s])
              /\ Entering(s)' = rest + EntryQty(s, queue') + Owing(s, orders, results')
                                + Owing(s, orders, g) + Owing(s, orders, pending'[s])
              /\ EntryQty(s, queue) \in Nat /\ Owing(s, orders, results) \in Nat
              /\ Owing(s, orders, got[t]) \in Nat /\ Owing(s, orders, pending[s]) \in Nat
              /\ EntryQty(s, queue') \in Nat /\ Owing(s, orders, results') \in Nat
              /\ Owing(s, orders, g) \in Nat /\ Owing(s, orders, pending'[s]) \in Nat
<1> DEFINE L == "loop"
           M == "monitor"
<1>1. got \in [Threads -> Seq(Outcomes(Len(orders)))]
  BY DEF ItemTypes
<1>2. /\ Entering(s) = EntryQty(s, queue) + Owing(s, orders, results)
                       + Owing(s, orders, got[L]) + Owing(s, orders, got[M])
                       + Owing(s, orders, pending[s])
      /\ EntryQty(s, queue) \in Nat /\ Owing(s, orders, results) \in Nat
      /\ Owing(s, orders, got[L]) \in Nat /\ Owing(s, orders, got[M]) \in Nat
      /\ Owing(s, orders, pending[s]) \in Nat
  BY EnteringParts
<1>3. Entering(s)' = EntryQty(s, queue') + Owing(s, orders, results')
                     + Owing(s, orders, got'[L]) + Owing(s, orders, got'[M])
                     + Owing(s, orders, pending'[s])
  BY EnteringNext
<1>4. orders \in Seq(Orders) /\ queue' \in Seq(Requests)
      /\ results' \in Seq(Outcomes(Len(orders))) /\ got' \in [Threads -> Seq(Outcomes(Len(orders)))]
      /\ pending' \in [Symbols -> Seq(Taken(Len(orders)))]
  BY DEF ItemTypes
<1>5. pending'[s] \in Seq(Outcomes(Len(orders)))
  <2>1. Taken(Len(orders)) \subseteq Outcomes(Len(orders))
    BY <1>4 DEF Taken, Outcomes
  <2>2. Seq(Taken(Len(orders))) \subseteq Seq(Outcomes(Len(orders)))
    BY <2>1, SeqWidens
  <2>3. QED
    BY <1>4, <2>2
<1>6. g \in Seq(Outcomes(Len(orders)))
  <2>1. got'[t] = g
    BY <1>1
  <2>2. QED
    BY <1>4, <2>1
<1>7. /\ EntryQty(s, queue') \in Nat /\ Owing(s, orders, results') \in Nat
      /\ Owing(s, orders, g) \in Nat /\ Owing(s, orders, pending'[s]) \in Nat
  BY <1>4, <1>5, <1>6, QueueLots, EntryNat, OwingNat
<1>8. CASE t = L
  <2>1. got'[L] = g /\ got'[M] = got[M]
    BY <1>1, <1>8 DEF Threads
  <2> DEFINE rest == Owing(s, orders, got[M])
  <2>2. /\ rest \in Nat
        /\ Entering(s)' = EntryQty(s, queue') + Owing(s, orders, results')
                          + Owing(s, orders, g) + rest + Owing(s, orders, pending'[s])
    BY <1>2, <1>3, <2>1
  <2>3. QED
    BY <1>2, <1>8, <1>7, <2>2
<1>9. CASE t = M
  <2>1. got'[M] = g /\ got'[L] = got[L]
    BY <1>1, <1>9 DEF Threads
  <2> DEFINE rest == Owing(s, orders, got[L])
  <2>2. /\ rest \in Nat
        /\ Entering(s)' = EntryQty(s, queue') + Owing(s, orders, results')
                          + rest + Owing(s, orders, g) + Owing(s, orders, pending'[s])
    BY <1>2, <1>3, <2>1
  <2>3. QED
    BY <1>2, <1>9, <1>7, <2>2
<1>10. QED
  BY <1>8, <1>9 DEF Threads

LEMMA EntryAtLeast ==
    ASSUME NEW q, Lots(q), NEW i \in DOMAIN q, NEW s
    PROVE  Reserves(s, q[i]) <= EntryQty(s, q)
<1> DEFINE f == [j \in DOMAIN q |-> Reserves(s, q[j])]
           S == DOMAIN q
<1>1. Len(q) \in Nat /\ S = 1 .. Len(q)
  BY SeqDomain DEF Lots
<1>2. IsFiniteSet(S) /\ IsFiniteSet(S \ {i})
  <2>1. IsFiniteSet(S)
    BY <1>1, FS_Interval
  <2> HIDE DEF S
  <2>2. S \ {i} \in SUBSET S
    OBVIOUS
  <2>3. QED
    BY <2>1, <2>2, FS_Subset
<1>3. \A j \in S : f[j] \in Nat
  BY ReservesNat
<1>4. EntryQty(s, q) = SumOver(f, S) /\ f[i] = Reserves(s, q[i]) /\ i \in S
  BY DEF EntryQty
<1> HIDE DEF f, S
<1>5. SumOver(f, S) = f[i] + SumOver(f, S \ {i})
  BY <1>2, <1>3, <1>4, SumInsert
<1>6. SumOver(f, S \ {i}) \in Nat
  BY <1>2, <1>3, SumNat
<1>7. QED
  BY <1>3, <1>4, <1>5, <1>6

\* What is submitted adds its entries.
LEMMA SubmitEnters ==
    ASSUME ItemTypes, ItemTypes', NEW t \in Threads, NEW q \in Seq(Requests), NEW w,
           Submit(t, q, w), got[t] = << >>, UNCHANGED <<orders, pending>>, NEW s \in Symbols
    PROVE  /\ Entering(s)' = Entering(s) + EntryQty(s, q)
           /\ Entering(s) \in Nat /\ EntryQty(s, q) \in Nat
<1>1. queue' = queue \o q /\ results' = results /\ got' = [got EXCEPT ![t] = << >>]
  BY DEF Submit
<1>2. PICK rest \in Nat :
         /\ Entering(s) = rest + EntryQty(s, queue) + Owing(s, orders, results)
                          + Owing(s, orders, got[t]) + Owing(s, orders, pending[s])
         /\ Entering(s)' = rest + EntryQty(s, queue') + Owing(s, orders, results')
                           + Owing(s, orders, << >>) + Owing(s, orders, pending'[s])
         /\ EntryQty(s, queue) \in Nat /\ Owing(s, orders, results) \in Nat
         /\ Owing(s, orders, got[t]) \in Nat /\ Owing(s, orders, pending[s]) \in Nat
  BY <1>1, EnteringGot
<1>3. queue \in Seq(Requests) /\ queue' \in Seq(Requests)
  BY DEF ItemTypes
<1>4. Lots(queue) /\ Lots(q) /\ Lots(queue \o q)
  BY <1>1, <1>3, QueueLots
<1>5. EntryQty(s, queue \o q) = EntryQty(s, queue) + EntryQty(s, q)
  BY <1>4, EntryJoined
<1>6. EntryQty(s, q) \in Nat
  BY <1>4, EntryNat
<1>7. QED
  BY <1>1, <1>2, <1>5, <1>6

\* A result goes from the queue into a hand, or is made up.
LEMMA CollectEnters ==
    ASSUME ItemTypes, ItemTypes', NEW t \in Threads, Collect(t) \/ CollectTimeout(t),
           NEW s \in Symbols
    PROVE  Entering(s) <= Entering(s)' /\ Entering(s) \in Nat /\ Entering(s)' \in Nat
<1> DEFINE O == Outcomes(Len(orders))
<1>0. /\ orders \in Seq(Orders) /\ results \in Seq(O) /\ got[t] \in Seq(O)
      /\ batch[t] \in Seq(Requests)
  BY DEF ItemTypes
<1>1. UNCHANGED <<orders, queue, pending>>
  BY DEF Collect, CollectTimeout, broker, exec
<1>2. CASE Collect(t)
  <2> DEFINE o == Head(results)
             g == Append(got[t], o)
  <2>1. got' = [got EXCEPT ![t] = g] /\ results' = Tail(results) /\ results # << >>
    BY <1>2 DEF Collect
  <2>2. o \in O
    <3> HIDE DEF O
    <3>1. QED
      BY <1>0, <2>1
  <2>3. Owing(s, orders, g) = Owing(s, orders, got[t]) + Reserves(s, AskOf(orders, o))
    BY <1>0, <2>2, OwingAppended
  <2>4. Owing(s, orders, results)
          = Owing(s, orders, Tail(results)) + Reserves(s, AskOf(orders, o))
    BY <1>0, <2>1, OwingTail
  <2>5. AskOf(orders, o).qty \in Nat
    BY <1>0, <2>2, AskedLots
  <2>6. Reserves(s, AskOf(orders, o)) \in Nat
    BY <2>5 DEF Reserves
  <2> HIDE DEF g, o
  <2>7. PICK rest \in Nat :
           /\ Entering(s) = rest + EntryQty(s, queue) + Owing(s, orders, results)
                            + Owing(s, orders, got[t]) + Owing(s, orders, pending[s])
           /\ Entering(s)' = rest + EntryQty(s, queue') + Owing(s, orders, results')
                             + Owing(s, orders, g) + Owing(s, orders, pending'[s])
           /\ EntryQty(s, queue) \in Nat /\ Owing(s, orders, results) \in Nat
           /\ Owing(s, orders, got[t]) \in Nat /\ Owing(s, orders, pending[s]) \in Nat
           /\ EntryQty(s, queue') \in Nat /\ Owing(s, orders, results') \in Nat
           /\ Owing(s, orders, g) \in Nat /\ Owing(s, orders, pending'[s]) \in Nat
    BY <1>1, <2>1, EnteringGot
  <2>8. /\ EntryQty(s, queue') = EntryQty(s, queue)
        /\ Owing(s, orders, pending'[s]) = Owing(s, orders, pending[s])
        /\ Owing(s, orders, results') = Owing(s, orders, Tail(results))
    BY <1>1, <2>1
  <2> DEFINE a == EntryQty(s, queue)
             b == Owing(s, orders, results')
             c == Owing(s, orders, got[t])
             d == Owing(s, orders, pending[s])
             e == Reserves(s, AskOf(orders, o))
  <2>9. /\ Entering(s) = rest + a + (b + e) + c + d
        /\ Entering(s)' = rest + a + b + (c + e) + d
        /\ a \in Nat /\ b \in Nat /\ c \in Nat /\ d \in Nat /\ e \in Nat
    BY <2>3, <2>4, <2>6, <2>7, <2>8
  <2> HIDE DEF a, b, c, d, e
  <2>10. QED
    BY <2>9
<1>3. CASE CollectTimeout(t)
  <2> DEFINE o == Outcome(batch[t][Len(got[t]) + 1], 0)
             g == Append(got[t], o)
  <2>1. got' = [got EXCEPT ![t] = g] /\ results' = results /\ Len(got[t]) < Len(batch[t])
    BY <1>3 DEF CollectTimeout, exec
  <2>2. batch[t][Len(got[t]) + 1] \in Requests
    <3>1. Len(got[t]) + 1 \in 1 .. Len(batch[t])
      <4> HIDE DEF O
      <4>1. QED
        BY <1>0, <2>1
    <3>2. QED
      BY <1>0, <3>1
  <2>3. o \in O
    BY <1>0, <2>2 DEF Outcome, Outcomes
  <2>4. Owing(s, orders, g) = Owing(s, orders, got[t]) + Reserves(s, AskOf(orders, o))
    BY <1>0, <2>3, OwingAppended
  <2>5. AskOf(orders, o).qty \in Nat
    BY <1>0, <2>3, AskedLots
  <2>6. Reserves(s, AskOf(orders, o)) \in Nat
    BY <2>5 DEF Reserves
  <2> HIDE DEF g, o
  <2>7. PICK rest \in Nat :
           /\ Entering(s) = rest + EntryQty(s, queue) + Owing(s, orders, results)
                            + Owing(s, orders, got[t]) + Owing(s, orders, pending[s])
           /\ Entering(s)' = rest + EntryQty(s, queue') + Owing(s, orders, results')
                             + Owing(s, orders, g) + Owing(s, orders, pending'[s])
           /\ EntryQty(s, queue) \in Nat /\ Owing(s, orders, results) \in Nat
           /\ Owing(s, orders, got[t]) \in Nat /\ Owing(s, orders, pending[s]) \in Nat
    BY <1>1, <2>1, EnteringGot
  <2>8. QED
    BY <1>1, <2>1, <2>4, <2>6, <2>7
<1>4. QED
  BY <1>2, <1>3

LEMMA OpensALot ==
    ASSUME NEW x, NEW sig, NEW r \in Scenario(x, sig), r.act \in Opens
    PROVE  r.qty = Lot
<1>1. r \notin StopLoss(x)
  BY DEF StopLoss, Request, Opens
<1>2. \A d : r \notin Flip(x, d)
  BY DEF Flip, Request, Opens, Buy, Sell
<1>3. \A d : r \in Open(x, d) \/ r \in Expand(x, d) => r.qty = Lot
  BY DEF Open, Expand, Request
<1>4. r \in StopLoss(x) \/ \E d : r \in Open(x, d) \/ r \in Flip(x, d) \/ r \in Expand(x, d)
  <2> DEFINE d == IF sig = "BUY" THEN Buy ELSE Sell
  <2>1. sig = "STOP" => r \in StopLoss(x)
    BY DEF Scenario
  <2>2. ASSUME sig # "STOP"
        PROVE  r \in Open(x, d) \/ r \in Flip(x, d) \/ r \in Expand(x, d)
    <3>1. Scenario(x, sig) \in {Open(x, d), Flip(x, d), Expand(x, d)}
      BY <2>2 DEF Scenario
    <3> HIDE DEF d
    <3>2. QED
      BY <3>1
  <2>3. QED
    BY <2>1, <2>2
<1>5. QED
  BY <1>1, <1>2, <1>3, <1>4

\* A cycle reserves a lot for each symbol it submits an entry for.
LEMMA DecideOwes ==
    ASSUME TypeInv, ItemTypes', LoopDecide, NEW s \in Symbols, reserved[s] <= Entering(s)
    PROVE  reserved'[s] <= Entering(s)'
<1> USE DEF TypeInv
<1>1. PICK sig \in [active -> {"HOLD", "STOP", "BUY", "SELL"}] :
         /\ reserved' = [x \in Symbols |->
               IF \E r \in CycleOf(sig) : r.sym = x /\ r.act \in Opens
               THEN reserved[x] + Lot ELSE reserved[x]]
         /\ \/ /\ CycleOf(sig) = {} /\ Goto("loop", "cycled")
               /\ UNCHANGED <<queue, results, executor, batch, got, job>>
            \/ CycleOf(sig) # {} /\ Submit("loop", SetToSeq(CycleOf(sig)), "cycle")
  BY DecideStep
<1>2. UNCHANGED <<orders, pending>> /\ "loop" \in Threads
  BY DEF LoopDecide, broker, Threads
<1>3. got["loop"] = << >>
  BY <1>2 DEF LoopDecide, AtLoop, Answered
<1>4. CASE CycleOf(sig) = {}
  <2>1. reserved'[s] = reserved[s]
    BY <1>1, <1>4
  <2>2. UNCHANGED <<queue, results, got>>
    BY <1>1, <1>4
  <2>3. QED
    BY <1>2, <2>1, <2>2, EnteringSame
<1>5. CASE CycleOf(sig) # {}
  <2> DEFINE R == CycleOf(sig)
             q == SetToSeq(R)
             here == \E r \in R : r.sym = s /\ r.act \in Opens
  <2>1. R \subseteq Requests /\ IsFiniteSet(R)
    BY CycleTyped DEF CycleOf
  <2>2. q \in Seq(Requests)
    BY <1>5, <2>1, SubmittedSeq
  <2>3. Submit("loop", q, "cycle")
    BY <1>1, <1>5
  <2>4. reserved'[s] = IF here THEN reserved[s] + Lot ELSE reserved[s]
    BY <1>1
  <2>5. here => Lot <= EntryQty(s, q)
    <3> SUFFICES ASSUME NEW r \in R, r.sym = s, r.act \in Opens
                 PROVE  Lot <= EntryQty(s, q)
      OBVIOUS
    <3>1. r.qty = Lot
      <4>1. PICK x \in active : r \in Scenario(x, sig[x])
        BY DEF CycleOf
      <4>2. QED
        BY <4>1, OpensALot
    <3> DEFINE k == [x \in R |-> x]
    <3>2. r \in Elems(q)
      <4>1. \A x, y \in R : k[x] = k[y] => x = y
        OBVIOUS
      <4> HIDE DEF k, R
      <4>2. Elems(q) = R
        BY <2>1, <4>1, SetSeqElems
      <4>3. QED
        BY <4>2
    <3>3. PICK i \in DOMAIN q : q[i] = r
      BY <3>2 DEF Elems
    <3>4. Reserves(s, q[i]) = Lot
      BY <3>1, <3>3 DEF Reserves
    <3> HIDE DEF q
    <3>5. QED
      BY <2>2, <3>3, <3>4, QueueLots, EntryAtLeast
  <2> HIDE DEF R, q, here
  <2>6. /\ Entering(s)' = Entering(s) + EntryQty(s, q)
        /\ Entering(s) \in Nat /\ EntryQty(s, q) \in Nat
    BY <1>2, <1>3, <2>2, <2>3, SubmitEnters
  <2>7. reserved[s] \in Nat /\ Lot \in Nat
    BY EngineAssumption DEF BookTypes
  <2>8. QED
    BY <2>4, <2>5, <2>6, <2>7
<1>6. QED
  BY <1>4, <1>5

LEMMA ReleasedAt ==
    ASSUME BookTypes, NEW z \in Symbols, NEW q \in Nat, NEW s \in Symbols
    PROVE  /\ s # z => Released(reserved, z, q)[s] = reserved[s]
           /\ s = z => Released(reserved, z, q)[s]
                          = IF reserved[s] > q THEN reserved[s] - q ELSE 0
  BY DEF BookTypes, Released

\* A recorded result: a failed order's reservation goes with it, a placed one's stays.
LEMMA RecordOwes ==
    ASSUME TypeInv, ItemTypes', Matches, LoopRecord, NEW s \in Symbols,
           reserved[s] <= Entering(s)
    PROVE  reserved'[s] <= Entering(s)'
<1> USE DEF TypeInv
<1> DEFINE O == Outcomes(Len(orders))
           L == "loop"
           res == Head(got[L])
           z == res.req.sym
           w == Reserves(s, AskOf(orders, res))
<1>1. /\ got[L] # << >> /\ got' = [got EXCEPT ![L] = Tail(got[L])] /\ L \in Threads
      /\ UNCHANGED <<orders, queue, results>>
      /\ \/ /\ res.id = 0 /\ reserved' = Released(reserved, z, res.req.qty)
            /\ pending' = pending
         \/ res.id # 0 /\ AddPending(z, res) /\ reserved' = reserved
  BY DEF LoopRecord, broker, exec, Threads
<1>2. orders \in Seq(Orders) /\ got[L] \in Seq(O) /\ got[L] \in Seq(Matching(orders))
      /\ reserved \in [Symbols -> Nat]
  BY <1>1 DEF ItemTypes, Matches, BookTypes
<1>3. res \in O
  <2> HIDE DEF O
  <2>1. QED
    BY <1>1, <1>2
<1>4. res \in Matching(orders)
  <2> DEFINE M == Matching(orders)
  <2>1. got[L] \in Seq(M)
    BY <1>2
  <2> HIDE DEF M
  <2>2. res \in M
    BY <1>1, <2>1
  <2>3. QED
    BY <2>2 DEF M
<1>5. Owing(s, orders, got[L]) = Owing(s, orders, Tail(got[L])) + w
  BY <1>1, <1>2, OwingTail
<1> HIDE DEF res
<1>6. res.req.qty \in Nat /\ z \in Symbols
  BY <1>3 DEF Outcomes, Requests
<1>7. AskOf(orders, res).sym = z /\ AskOf(orders, res).qty = res.req.qty
  BY <1>4 DEF Matching, AskOf
<1>8. w \in Nat /\ w <= res.req.qty /\ (s # z => w = 0)
  BY <1>6, <1>7 DEF Reserves
<1> HIDE DEF w, z
<1>9. PICK rest \in Nat :
         /\ Entering(s) = rest + EntryQty(s, queue) + Owing(s, orders, results)
                          + Owing(s, orders, got[L]) + Owing(s, orders, pending[s])
         /\ Entering(s)' = rest + EntryQty(s, queue') + Owing(s, orders, results')
                           + Owing(s, orders, Tail(got[L])) + Owing(s, orders, pending'[s])
         /\ EntryQty(s, queue) \in Nat /\ Owing(s, orders, results) \in Nat
         /\ Owing(s, orders, got[L]) \in Nat /\ Owing(s, orders, pending[s]) \in Nat
         /\ EntryQty(s, queue') \in Nat /\ Owing(s, orders, results') \in Nat
         /\ Owing(s, orders, Tail(got[L])) \in Nat /\ Owing(s, orders, pending'[s]) \in Nat
  <2> DEFINE g == Tail(got[L])
  <2>1. got' = [got EXCEPT ![L] = g] /\ orders' = orders /\ L \in Threads
    BY <1>1
  <2> HIDE DEF g, L
  <2>2. \E rest \in Nat :
           /\ Entering(s) = rest + EntryQty(s, queue) + Owing(s, orders, results)
                            + Owing(s, orders, got[L]) + Owing(s, orders, pending[s])
           /\ Entering(s)' = rest + EntryQty(s, queue') + Owing(s, orders, results')
                             + Owing(s, orders, g) + Owing(s, orders, pending'[s])
           /\ EntryQty(s, queue) \in Nat /\ Owing(s, orders, results) \in Nat
           /\ Owing(s, orders, got[L]) \in Nat /\ Owing(s, orders, pending[s]) \in Nat
           /\ EntryQty(s, queue') \in Nat /\ Owing(s, orders, results') \in Nat
           /\ Owing(s, orders, g) \in Nat /\ Owing(s, orders, pending'[s]) \in Nat
    BY <2>1, EnteringGot
  <2>3. QED
    BY <2>2 DEF g
<1>10. reserved[s] \in Nat
  BY <1>2
<1>11. CASE reserved' = Released(reserved, z, res.req.qty) /\ pending' = pending
  <2>1. Entering(s) = Entering(s)' + w /\ Entering(s)' \in Nat
    BY <1>1, <1>5, <1>8, <1>9, <1>11
  <2>2. /\ s # z => reserved'[s] = reserved[s]
        /\ s = z => reserved'[s] = IF reserved[s] > res.req.qty THEN reserved[s] - res.req.qty ELSE 0
    BY <1>6, <1>11, ReleasedAt
  <2>3. QED
    BY <1>6, <1>8, <1>10, <2>1, <2>2
<1>12. CASE AddPending(z, res) /\ reserved' = reserved
  <2>1. pending \in [Symbols -> Seq(Taken(Len(orders)))]
    BY DEF ItemTypes
  <2>2. pending'[s] = IF s = z THEN Append(pending[s], res) ELSE pending[s]
    BY <1>12, <2>1 DEF AddPending
  <2>3. pending[s] \in Seq(O)
    BY PendingOutcomes
  <2>4. Owing(s, orders, Append(pending[s], res)) = Owing(s, orders, pending[s]) + w
    BY <1>2, <1>3, <2>3, OwingAppended DEF w
  <2>5. Owing(s, orders, pending'[s]) = Owing(s, orders, pending[s]) + w
    BY <1>8, <1>9, <2>2, <2>4
  <2>6. Entering(s)' = Entering(s)
    BY <1>1, <1>5, <1>8, <1>9, <2>5
  <2>7. QED
    BY <1>12, <2>6
<1>13. QED
  BY <1>1, <1>11, <1>12

\* A context leaves the list with its reservation, or is not there any more.
LEMMA ReconcileOwes ==
    ASSUME TypeInv, ItemTypes', Matches, ReconcileOrder, NEW s \in Symbols,
           reserved[s] <= Entering(s)
    PROVE  reserved'[s] <= Entering(s)'
<1> USE DEF TypeInv
<1>1. PICK z, c : /\ Looks(z, c) /\ (Keep \/ Settle(z, c))
                  /\ UNCHANGED <<orders, queue, results, got>>
  BY OrderReconciled DEF broker, exec, threads
<1>2. z \in Symbols /\ c.req.qty \in Nat
  BY <1>1, LooksTyped
<1>3. CASE Keep
  <2>1. UNCHANGED <<pending, reserved>>
    BY <1>3 DEF Keep
  <2>2. QED
    BY <1>1, <2>1, EnteringSame
<1>4. CASE Settle(z, c)
  <2> DEFINE p == pending[s]
             r == IF s = z THEN RemoveFirst(p, c) ELSE p
             O == Outcomes(Len(orders))
  <2>1. pending' = [pending EXCEPT ![z] = RemoveFirst(@, c)]
        /\ reserved' = Released(reserved, z, c.req.qty)
    BY <1>4 DEF Settle
  <2>2. pending'[s] = r
    BY <1>2, <2>1 DEF ItemTypes
  <2>3. p \in Seq(O) /\ orders \in Seq(Orders) /\ got["loop"] \in Seq(O) /\ "loop" \in Threads
    BY PendingOutcomes DEF ItemTypes, Threads
  <2>4. /\ Entering(s) = EntryQty(s, queue) + Owing(s, orders, results)
                         + Owing(s, orders, got["loop"]) + Owing(s, orders, got["monitor"])
                         + Owing(s, orders, p)
        /\ Entering(s)' = EntryQty(s, queue) + Owing(s, orders, results)
                          + Owing(s, orders, got["loop"]) + Owing(s, orders, got["monitor"])
                          + Owing(s, orders, r)
        /\ EntryQty(s, queue) \in Nat /\ Owing(s, orders, results) \in Nat
        /\ Owing(s, orders, got["loop"]) \in Nat /\ Owing(s, orders, got["monitor"]) \in Nat
        /\ Owing(s, orders, p) \in Nat
    BY <1>1, <2>2, EnteringParts, EnteringNext
  <2>5. reserved[s] \in Nat
    BY DEF BookTypes
  <2>6. /\ s # z => reserved'[s] = reserved[s]
        /\ s = z => reserved'[s] = IF reserved[s] > c.req.qty THEN reserved[s] - c.req.qty ELSE 0
    BY <1>2, <2>1, ReleasedAt
  <2>7. IsSeq(p)
    BY <2>3 DEF IsSeq
  <2>8. CASE s # z \/ c \notin Elems(p)
    <3>1. r = p
      BY <2>7, <2>8, RemoveFirstSeq
    <3>2. Entering(s)' = Entering(s)
      BY <2>4, <3>1
    <3>3. QED
      BY <1>2, <2>5, <2>6, <3>2, <2>4
  <2>9. CASE s = z /\ c \in Elems(p)
    <3>1. PICK k \in DOMAIN p : p[k] = c /\ r = RemoveAt(p, k)
      BY <2>7, <2>9, RemoveFirstSeq
    <3>2. r \in Seq(O)
      BY <2>3, <3>1, RemoveTyped
    <3>3. c \in Matching(orders) /\ c \in O
      <4> DEFINE M == Matching(orders)
      <4>1. p \in Seq(M)
        BY DEF Matches
      <4> HIDE DEF M, p
      <4>2. c \in M
        BY <3>1, <4>1
      <4>3. QED
        BY <4>2 DEF M, Matching
    <3>4. AskOf(orders, c).qty = c.req.qty
      BY <3>3 DEF Matching, AskOf
    <3> DEFINE w == Reserves(s, AskOf(orders, c))
    <3>5. w \in Nat /\ w <= c.req.qty
      BY <1>2, <3>4 DEF Reserves
    <3>6. /\ DOMAIN r = 1 .. Len(p) - 1
          /\ \A j \in 1 .. Len(p) - 1 : r[j] = IF j < k THEN p[j] ELSE p[j + 1]
      BY <2>7, <3>1, RemoveSeq
    <3>7. Len(r) = Len(p) - 1
      <4>1. Len(r) \in Nat /\ DOMAIN r = 1 .. Len(r) /\ Len(p) \in Nat /\ k \in 1 .. Len(p)
        <5> HIDE DEF O, r, p
        <5>1. QED
          BY <2>3, <3>2
      <4>2. \A a, b \in Nat : 1 .. a = 1 .. b => a = b
        OBVIOUS
      <4>3. Len(p) - 1 \in Nat
        BY <4>1
      <4> HIDE DEF r, p
      <4>4. QED
        BY <3>6, <4>1, <4>2, <4>3
    <3> HIDE DEF r, p, w
    <3>8. Owing(s, orders, p) = Owing(s, orders, r) + w
      <4>1. /\ orders \in Seq(Orders) /\ p \in Seq(Outcomes(Len(orders)))
            /\ r \in Seq(Outcomes(Len(orders))) /\ k \in DOMAIN p /\ Len(r) = Len(p) - 1
            /\ \A i \in 1 .. Len(p) - 1 : r[i] = IF i < k THEN p[i] ELSE p[i + 1]
        BY <2>3, <3>2, <3>6, <3>7
      <4>2. Owing(s, orders, p) = Owing(s, orders, r) + Reserves(s, AskOf(orders, p[k]))
        BY ONLY <4>1, OwingRemoved
      <4>3. QED
        BY <3>1, <4>2 DEF w
    <3>9. Owing(s, orders, r) \in Nat
      BY <2>3, <3>2, OwingNat
    <3>10. Entering(s) = Entering(s)' + w /\ Entering(s)' \in Nat
      BY <2>4, <3>5, <3>8, <3>9
    <3>11. QED
      BY <1>2, <2>5, <2>6, <2>9, <3>5, <3>10
  <2>10. QED
    BY <2>8, <2>9
<1>5. QED
  BY <1>1, <1>3, <1>4

\* Once a square-off has submitted something the slot is never free again.
LEMMA StaysPlanned ==
    ASSUME SlotInv, [Next]_vars, Unplanned'
    PROVE  Unplanned
<1>1. pc \in [Threads -> Pcs]
  BY DEF SlotInv
<1>2. CASE UNCHANGED <<slot, pc>>
  BY <1>2 DEF Unplanned
<1>3. ASSUME NEW t \in Threads, NEW p, p # "plan", Goto(t, p), slot' = slot
      PROVE  Unplanned
  BY <1>1, <1>3 DEF Goto, Unplanned
<1>4. ASSUME NEW t \in Threads, EodBegin(t)
      PROVE  Unplanned
  <2>1. CASE slot = "free"
    BY <2>1 DEF Unplanned
  <2>2. CASE slot # "free"
    BY <1>3, <1>4, <2>2 DEF EodBegin
  <2>3. QED
    BY <2>1, <2>2
<1>5. ASSUME NEW t \in Threads, EodSubmit(t)
      PROVE  Unplanned
  BY <1>5 DEF EodSubmit, Unplanned
<1>6. ASSUME NEW t \in Threads, EodFinish(t)
      PROVE  Unplanned
  <2>1. slot' = "done" /\ pc' = [pc EXCEPT ![t] = "after"]
    BY <1>6 DEF EodFinish, Goto
  <2>2. QED
    BY <1>1, <2>1 DEF Unplanned
<1>7. ASSUME NEW t \in Threads, EodAfter(t) \/ Join(t)
      PROVE  Unplanned
  <2>1. slot' = slot /\ (Goto(t, "ended") \/ Goto(t, "record"))
    BY <1>7 DEF EodAfter, Join, Goto, flags
  <2>2. QED
    BY <1>3, <2>1
<1>8. ASSUME NEW t \in Threads, Collect(t) \/ CollectTimeout(t) \/ EodRecord(t)
      PROVE  Unplanned
  BY <1>2, <1>8 DEF Collect, CollectTimeout, EodRecord, flags
<1>9. CASE Loop
  <2>1. "loop" \in Threads
    BY DEF Threads
  <2>2. slot' = slot
    BY <1>9 DEF Loop, LoopTop, LoopFetch, LoopDecide, LoopRecord, LoopRecorded, LoopCycled, flags
  <2>3. UNCHANGED pc \/ \E p \in {"begin", "ended", "fetch", "decide", "cycled", "collect", "top"} :
           Goto("loop", p)
    BY <1>9 DEF Loop, LoopTop, LoopFetch, LoopDecide, LoopRecord, LoopRecorded, LoopCycled,
                BeginSquareOff, Submit, Goto
  <2>4. QED
    BY <1>2, <1>3, <2>1, <2>2, <2>3
<1>10. CASE Monitor
  <2>1. "monitor" \in Threads
    BY DEF Threads
  <2>2. slot' = slot
    BY <1>10 DEF Monitor, MonitorStop, MonitorJoin, ExitRecord, ExitSubmit, flags
  <2>3. UNCHANGED pc \/ \E p \in {"begin", "ended", "joining", "watch", "collect"} :
           Goto("monitor", p)
    BY <1>10 DEF Monitor, MonitorStop, MonitorJoin, ExitRecord, ExitSubmit,
                BeginSquareOff, Submit, Goto
  <2>4. QED
    BY <1>2, <1>3, <2>1, <2>2, <2>3
<1>11. CASE Executor \/ Reconciler \/ Outside \/ UNCHANGED vars
  <2>1. UNCHANGED <<slot, pc>>
    BY <1>11 DEF Executor, Execute, Outside, OrderSettles, UserTrades, MarketCloses, WorkerStop,
           Reconciler, ReconcileBegin, ReconcileFetch, ReconcileOrder, ReconcileEnd,
           ReconcileSymbol, vars, threads, flags
  <2>2. QED
    BY <1>2, <2>1
<1>12. QED
  BY <1>4, <1>5, <1>6, <1>7, <1>8, <1>9, <1>10, <1>11 DEF Next, Shared

\* A thread inside the square-off has submitted.
LEMMA SquaringPlanned ==
    ASSUME SlotInv, NEW t \in Threads, pc[t] \in {"collect", "record"}, job[t] \in SquareOffs
    PROVE  ~Unplanned
<1>1. Squaring(t)
  BY DEF Squaring
<1>2. slot = "busy"
  BY <1>1 DEF SlotInv, OneSquareOff
<1>3. \A u \in Threads : pc[u] = "plan" => u = t
  BY <1>1 DEF SlotInv, OneSquareOff, Squaring
<1>4. QED
  BY <1>2, <1>3 DEF Unplanned

LEMMA RunStays ==
    ASSUME [Next]_vars
    PROVE  irregular' = irregular
<1>1. CASE Executor \/ Reconciler \/ Outside \/ UNCHANGED vars
  BY <1>1 DEF Executor, Execute, Outside, OrderSettles, UserTrades, MarketCloses, WorkerStop,
           Reconciler, ReconcileBegin, ReconcileFetch, ReconcileOrder, ReconcileEnd,
           ReconcileSymbol, vars, broker
<1>2. CASE Loop
  BY <1>2 DEF Loop, LoopTop, LoopFetch, LoopDecide, LoopRecord, LoopRecorded, LoopCycled, broker
<1>3. CASE Monitor
  BY <1>3 DEF Monitor, MonitorStop, MonitorJoin, ExitRecord, ExitSubmit, broker
<1>4. ASSUME NEW t \in Threads, Shared(t)
      PROVE  irregular' = irregular
  BY <1>4 DEF Shared, Collect, CollectTimeout, Join, EodBegin, EodSubmit, EodRecord, EodFinish,
              EodAfter, broker
<1>5. QED
  BY <1>1, <1>2, <1>3, <1>4 DEF Next

LEMMA NoExitStep ==
    ASSUME SlotInv, NoExit, [Next]_vars
    PROVE  NoExit'
<1>1. irregular' = irregular /\ job \in [Threads -> Jobs] /\ "monitor" \in Threads
  BY RunStays DEF SlotInv, Threads
<1>2. CASE UNCHANGED job
  BY <1>1, <1>2 DEF NoExit
<1>3. ASSUME NEW t \in Threads, NEW j, job' = [job EXCEPT ![t] = j], j # "exit" \/ j = job[t]
      PROVE  NoExit'
  BY <1>1, <1>3 DEF NoExit
<1>4. CASE Loop
  <2>1. "loop" \in Threads
    BY DEF Threads
  <2>2. UNCHANGED job \/ \E j \in {"cycle", "shut", "close"} : job' = [job EXCEPT !["loop"] = j]
    BY <1>4 DEF Loop, LoopTop, LoopFetch, LoopDecide, LoopRecord, LoopRecorded, LoopCycled,
                BeginSquareOff, Submit
  <2>3. QED
    BY <1>2, <1>3, <2>1, <2>2
<1>5. CASE \E s \in Symbols : ExitSubmit(s)
  BY <1>1, <1>5 DEF ExitSubmit, May, NoExit
<1>6. CASE MonitorStop \/ MonitorJoin \/ ExitRecord
  <2>1. UNCHANGED job \/ job' = [job EXCEPT !["monitor"] = "shut"]
    BY <1>6 DEF MonitorStop, MonitorJoin, ExitRecord, BeginSquareOff
  <2>2. QED
    BY <1>1, <1>2, <1>3, <2>1
<1>7. ASSUME NEW t \in Threads, Shared(t)
      PROVE  NoExit'
  <2>1. UNCHANGED job \/ job' = [job EXCEPT ![t] = job[t]]
    BY <1>7 DEF Shared, Collect, CollectTimeout, Join, EodBegin, EodSubmit, EodRecord, EodFinish,
                EodAfter, Submit
  <2>2. QED
    BY <1>2, <1>3, <2>1
<1>8. CASE Executor \/ Reconciler \/ Outside \/ UNCHANGED vars
  <2>1. UNCHANGED job
    BY <1>8 DEF Executor, Execute, Outside, OrderSettles, UserTrades, MarketCloses, WorkerStop,
           Reconciler, ReconcileBegin, ReconcileFetch, ReconcileOrder, ReconcileEnd,
           ReconcileSymbol, vars, threads
  <2>2. QED
    BY <1>2, <2>1
<1>9. QED
  BY <1>4, <1>5, <1>6, <1>7, <1>8 DEF Next, Monitor

LEMMA OwedStep ==
    ASSUME SlotInv, TypeInv, TypeInv', Matches, NoExit, Owed, [Next]_vars
    PROVE  Owed'
<1> SUFFICES ASSUME "exit" \notin irregular', Unplanned', NEW s \in Symbols
             PROVE  reserved'[s] <= Entering(s)'
  BY DEF Owed
<1>1. ~May("exit") /\ job["monitor"] # "exit"
  BY RunStays DEF NoExit, May
<1>2. Unplanned /\ reserved[s] <= Entering(s)
  BY StaysPlanned, RunStays DEF Owed
<1>3. ItemTypes /\ ItemTypes' /\ Answered /\ reserved[s] \in Nat
  BY DEF TypeInv, BookTypes
<1>4. CASE Quiet
  BY <1>2, <1>4, QuietItems, QuietBooks, EnteringSame
<1>5. CASE Executor
  <2>1. reserved' = reserved
    BY <1>3, <1>5, ExecuteTakes
  <2>2. QED
    BY <1>2, <1>3, <1>5, <2>1, ExecuteEnters
<1>6. ASSUME NEW i \in DOMAIN orders, OrderSettles(i)
      PROVE  reserved'[s] <= Entering(s)'
  <2>1. reserved' = reserved
    BY <1>6 DEF OrderSettles
  <2>2. QED
    BY <1>2, <1>3, <1>6, <2>1, SettlesEnters
<1>7. CASE LoopDecide
  BY <1>2, <1>3, <1>7, DecideOwes
<1>8. CASE LoopRecord
  BY <1>2, <1>3, <1>8, RecordOwes
<1>9. CASE ReconcileOrder
  BY <1>2, <1>3, <1>9, ReconcileOwes
<1>10. CASE ExitRecord
  BY <1>1, <1>10 DEF ExitRecord
<1>11. CASE \E x \in Symbols : ExitSubmit(x)
  BY <1>1, <1>11 DEF ExitSubmit
<1>12. ASSUME NEW t \in Threads, Collect(t) \/ CollectTimeout(t)
       PROVE  reserved'[s] <= Entering(s)'
  <2>1. reserved' = reserved
    BY <1>12 DEF Collect, CollectTimeout
  <2>2. Entering(s) <= Entering(s)' /\ Entering(s) \in Nat /\ Entering(s)' \in Nat
    BY <1>3, <1>12, CollectEnters
  <2>3. QED
    BY <1>2, <1>3, <2>1, <2>2
<1>13. ASSUME NEW t \in Threads, EodSubmit(t)
       PROVE  reserved'[s] <= Entering(s)'
  <2>1. UNCHANGED <<orders, pending, reserved>> /\ pc[t] = "plan"
    BY <1>13 DEF EodSubmit, broker
  <2>2. got[t] = << >>
    BY <1>3, <2>1 DEF Answered
  <2>3. CASE UNCHANGED <<queue, results, got>>
    BY <1>2, <2>1, <2>3, EnteringSame
  <2>4. ASSUME NEW q \in Seq(Requests), Submit(t, q, job[t])
        PROVE  reserved'[s] <= Entering(s)'
    <3>1. /\ Entering(s)' = Entering(s) + EntryQty(s, q)
          /\ Entering(s) \in Nat /\ EntryQty(s, q) \in Nat
      BY <1>3, <2>1, <2>2, <2>4, SubmitEnters
    <3>2. QED
      BY <1>2, <1>3, <2>1, <3>1
  <2>5. QED
    BY <1>13, <2>3, <2>4, PlanSubmits DEF TypeInv
<1>14. ASSUME NEW t \in Threads, EodRecord(t)
       PROVE  FALSE
  BY <1>2, <1>14, SquaringPlanned DEF EodRecord
<1>15. ASSUME NEW t \in Threads, EodAfter(t)
       PROVE  reserved'[s] <= Entering(s)'
  <2>1. Entering(s)' = Entering(s)
    BY <1>15, QuietItems, EnteringSame
  <2>2. Entering(s) \in Nat
    BY <1>3, EnteringParts
  <2>3. reserved' = reserved \/ reserved'[s] = 0
    BY <1>15 DEF EodAfter, Flat
  <2>4. QED
    BY <1>2, <2>1, <2>2, <2>3
<1>16. QED
  BY <1>4, <1>5, <1>6, <1>7, <1>8, <1>9, <1>10, <1>11, <1>12, <1>13, <1>14, <1>15, Steps

LEMMA OweInvInit == Init => OweInv
<1> SUFFICES ASSUME Init PROVE OweInv
  OBVIOUS
<1>1. Matches
  <2>1. \A S : << >> \in Seq(S)
    OBVIOUS
  <2>2. QED
    BY <2>1 DEF Init, Matches
<1>2. NoExit
  BY DEF Init, NoExit, Threads
<1>3. Owed
  <2> SUFFICES ASSUME NEW s \in Symbols PROVE reserved[s] <= Entering(s)
    BY DEF Owed
  <2>1. reserved[s] = 0
    BY DEF Init, Flat
  <2>2. Entering(s) \in Nat
    BY TypeInvInit, EnteringParts DEF TypeInv
  <2>3. QED
    BY <2>1, <2>2
<1>4. QED
  BY <1>1, <1>2, <1>3 DEF OweInv

LEMMA OweInvStep == SlotInv /\ TypeInv /\ TypeInv' /\ OweInv /\ [Next]_vars => OweInv'
  BY MatchesStep, NoExitStep, OwedStep DEF OweInv

\* An entry gives back what it reserved whether it is rejected, filled or given up, and a
\* failed order does so once: nothing is reserved that no order on its way accounts for,
\* as long as no manual exit takes the loop's results and the square-off has not begun
\* (_release_exposure in the trader's cycle and in _reconcile_pending_orders).
THEOREM NothingLeaks == Spec => []NoLeakedReservation
<1>1. OweInv => NoLeakedReservation
  BY DEF OweInv, Owed, Unplanned, NoLeakedReservation
<1>2. QED
  BY <1>1, SlotInvInit, SlotInvStep, TypeInvInit, TypeInvStep, OweInvInit, OweInvStep,
     PTL DEF Spec

-----------------------------------------------------------------------------
(* Calm runs: no order is lost, none rests, the broker always answers      *)

IsExit(r) == r.act = "MARKET_CLOSE_EXIT"

\* The loop is in its cycle, where it trades.
CyclingAt(p, j) ==
    p \in {"top", "fetch", "decide", "cycled"} \/ (p \in {"collect", "record"} /\ j = "cycle")
Cycling == CyclingAt(pc["loop"], job["loop"])

\* The monitor does nothing but watch until the loop has ended, and nothing is squared off
\* while the loop trades.
Turns ==
    /\ pc["monitor"] \notin {"watch", "joining"} => pc["loop"] = "ended"
    /\ Cycling => slot = "free"

\* Every order fills at once, and nobody else trades.
FillsOnly == manual = Flat /\ \A i \in DOMAIN orders : orders[i].state = "filled"

\* Steps of a calm run that move no order, request or result.
CalmQuiet ==
    \/ WorkerStop \/ MarketCloses
    \/ ReconcileBegin \/ ReconcileFetch \/ ReconcileEnd \/ \E s \in Symbols : ReconcileSymbol(s)
    \/ LoopTop \/ LoopFetch \/ LoopRecorded \/ LoopCycled
    \/ MonitorStop \/ MonitorJoin
    \/ \E t \in Threads : Join(t) \/ EodBegin(t) \/ EodFinish(t) \/ EodAfter(t)
    \/ UNCHANGED vars

\* The steps of a calm run.
LEMMA CalmSteps ==
    ASSUME Calm, NoExit, FillsOnly, [Next]_vars
    PROVE  \/ CalmQuiet \/ Executor \/ LoopDecide \/ LoopRecord \/ ReconcileOrder
           \/ \E t \in Threads : Collect(t) \/ EodSubmit(t) \/ EodRecord(t)
<1>1. /\ ~May("manual") /\ ~May("exit") /\ ~May("timeout")
  BY DEF Calm, May
<1>2. ~ \E s \in Symbols, d \in {Buy, Sell} : UserTrades(s, d)
  BY <1>1 DEF UserTrades
<1>3. ~ \E s \in Symbols : ExitSubmit(s)
  BY <1>1 DEF ExitSubmit
<1>4. ~ExitRecord
  BY <1>1 DEF NoExit, May, ExitRecord
<1>5. ~ \E t \in Threads : CollectTimeout(t)
  BY <1>1 DEF CollectTimeout
<1>6. ~ \E i \in DOMAIN orders : OrderSettles(i)
  BY DEF FillsOnly, OrderSettles
<1>7. QED
  BY <1>2, <1>3, <1>4, <1>5, <1>6, Steps DEF Quiet, CalmQuiet

-----------------------------------------------------------------------------
(* Who trades when                                                         *)

LEMMA TurnsMoves ==
    ASSUME SlotInv, Turns, NEW t \in Threads, NEW p, NEW j, Moves(t, p, j),
           pc[t] # "ended",
           t = "monitor" => p \in {"watch", "joining"} \/ pc["loop"] = "ended",
           t = "loop" => (CyclingAt(p, j) => Cycling),
           slot' = slot \/ (t = "loop" /\ ~CyclingAt(p, j)) \/ (t = "monitor" /\ pc["loop"] = "ended")
    PROVE  Turns'
<1>1. "loop" \in Threads /\ "monitor" \in Threads
  BY DEF Threads
<1>2. CASE t = "loop"
  <2>1. pc'["monitor"] = pc["monitor"] /\ pc["monitor"] \in {"watch", "joining"}
    BY <1>1, <1>2 DEF SlotInv, Moves, Turns
  <2>2. pc'["loop"] = p /\ job'["loop"] = j
    BY <1>1, <1>2 DEF SlotInv, Moves
  <2>3. Cycling' <=> CyclingAt(p, j)
    BY <2>2 DEF Cycling, CyclingAt
  <2>4. QED
    BY <1>2, <2>1, <2>3 DEF Turns
<1>3. CASE t = "monitor"
  <2>1. pc'["monitor"] = p /\ pc'["loop"] = pc["loop"] /\ job'["loop"] = job["loop"]
    BY <1>1, <1>3 DEF SlotInv, Moves
  <2>2. Cycling' <=> Cycling
    BY <2>1 DEF Cycling, CyclingAt
  <2>3. pc["loop"] = "ended" => ~Cycling
    BY DEF Cycling, CyclingAt
  <2>4. QED
    BY <1>3, <2>1, <2>2, <2>3 DEF Turns
<1>4. QED
  BY <1>2, <1>3 DEF Threads

LEMMA GoesTo ==
    ASSUME SlotInv, NEW t \in Threads, NEW p, Goto(t, p), UNCHANGED job
    PROVE  Moves(t, p, job[t])
  BY DEF SlotInv, Goto, Moves

LEMMA TurnsStay ==
    ASSUME Turns, UNCHANGED <<pc, job, slot>>
    PROVE  Turns'
  BY DEF Turns, Cycling, CyclingAt

LEMMA TurnsStep ==
    ASSUME SlotInv, Patient, NoExit, Turns, [Next]_vars
    PROVE  Turns'
<1>0. "loop" \in Threads /\ "monitor" \in Threads /\ ~May("slow") /\ ~May("exit")
  BY DEF Threads, May, Patient
<1> DEFINE lp == pc["loop"]
           lj == job["loop"]
<1>1. CASE WorkerStop \/ MarketCloses \/ UNCHANGED vars \/ ReconcileBegin \/ ReconcileFetch
           \/ ReconcileEnd \/ \E s \in Symbols : ReconcileSymbol(s)
  <2>1. UNCHANGED <<pc, job, slot>>
    BY <1>1 DEF WorkerStop, MarketCloses, vars, ReconcileBegin, ReconcileFetch, ReconcileEnd,
                ReconcileSymbol, threads, flags
  <2>2. QED
    BY <2>1, TurnsStay
<1>2. CASE Executor \/ ReconcileOrder \/ LoopRecord
           \/ \E t \in Threads : Collect(t) \/ EodRecord(t)
  <2>1. UNCHANGED <<pc, job, slot>>
    BY <1>2 DEF Executor, Execute, ReconcileOrder, LoopRecord, Collect, EodRecord, threads, flags
  <2>2. QED
    BY <2>1, TurnsStay
<1>a. CASE \/ \E t \in Threads : CollectTimeout(t)
           \/ \E i \in DOMAIN orders : OrderSettles(i)
           \/ \E s \in Symbols, d \in {Buy, Sell} : UserTrades(s, d)
  <2>1. UNCHANGED <<pc, job, slot>>
    BY <1>a DEF CollectTimeout, OrderSettles, UserTrades, threads, flags
  <2>2. QED
    BY <2>1, TurnsStay
<1>b. ~ExitRecord /\ ~ \E s \in Symbols : ExitSubmit(s)
  BY <1>0 DEF NoExit, May, ExitRecord, ExitSubmit
<1>3. CASE LoopTop \/ LoopFetch \/ LoopDecide \/ LoopRecorded \/ LoopCycled
  <2>1. slot' = slot /\ lp # "ended" /\ Cycling
    BY <1>3 DEF LoopTop, LoopFetch, LoopDecide, LoopRecorded, LoopCycled, flags, AtLoop,
                Cycling, CyclingAt
  <2>2. \E p, j : Moves("loop", p, j)
    <3>1. \/ \E p : Goto("loop", p) /\ UNCHANGED job
          \/ \E w : BeginSquareOff("loop", w)
          \/ \E q, w : Submit("loop", q, w)
      <4>1. CASE LoopTop
        BY <4>1 DEF LoopTop
      <4>2. CASE LoopFetch
        BY <4>2 DEF LoopFetch
      <4>3. CASE LoopDecide
        BY <4>3 DEF LoopDecide
      <4>4. CASE LoopRecorded
        BY <4>4 DEF LoopRecorded
      <4>5. CASE LoopCycled
        BY <4>5 DEF LoopCycled
      <4>6. QED
        BY <1>3, <4>1, <4>2, <4>3, <4>4, <4>5
    <3>2. CASE \E p : Goto("loop", p) /\ UNCHANGED job
      BY <1>0, <3>2, GoesTo
    <3>3. CASE \/ \E w : BeginSquareOff("loop", w)
               \/ \E q, w : Submit("loop", q, w)
      BY <3>3 DEF BeginSquareOff, Submit, Goto, Moves
    <3>4. QED
      BY <3>1, <3>2, <3>3
  <2>3. QED
    BY <1>0, <2>1, <2>2, TurnsMoves
<1>4. CASE MonitorStop \/ MonitorJoin
  <2>1. slot' = slot /\ pc["monitor"] # "ended"
    BY <1>4 DEF MonitorStop, MonitorJoin, flags, Watching
  <2>2. \E p, j : Moves("monitor", p, j) /\ (p = "joining" \/ lp = "ended")
    <3>1. CASE MonitorStop
      <4>1. \E p : Goto("monitor", p) /\ UNCHANGED job /\ (p = "joining" \/ lp = "ended")
        BY <3>1 DEF MonitorStop, AtLoop
      <4>2. QED
        BY <1>0, <4>1, GoesTo
    <3>2. CASE MonitorJoin
      BY <1>0, <3>2 DEF MonitorJoin, AtLoop, BeginSquareOff, Goto, Moves
    <3>3. QED
      BY <1>4, <3>1, <3>2
  <2>3. QED
    BY <1>0, <2>1, <2>2, TurnsMoves
<1>5. ASSUME NEW t \in Threads,
             Join(t) \/ EodBegin(t) \/ EodSubmit(t) \/ EodFinish(t) \/ EodAfter(t)
      PROVE  Turns'
  <2>1. pc[t] \in {"collect", "begin", "plan", "record", "after"}
    BY <1>5 DEF Join, EodBegin, EodSubmit, EodFinish, EodAfter
  <2>2. t = "monitor" => lp = "ended"
    BY <2>1 DEF Turns
  <2>3. CASE Join(t)
    <3>1. Moves(t, "record", job[t]) /\ slot' = slot
      BY <2>3 DEF Join, Moves, flags, SlotInv
    <3>2. CyclingAt("record", job[t]) => CyclingAt("collect", job[t])
      BY DEF CyclingAt
    <3>3. QED
      BY <2>1, <2>2, <2>3, <3>1, <3>2, TurnsMoves DEF Join, Cycling
  <2>4. CASE EodBegin(t) \/ EodSubmit(t) \/ EodFinish(t) \/ EodAfter(t)
    <3>1. \E p, j : Moves(t, p, j) /\ ~CyclingAt(p, j)
      <4>1. CASE \E p \in {"plan", "after", "ended"} : Goto(t, p) /\ UNCHANGED job
        BY <4>1, GoesTo DEF CyclingAt
      <4>2. CASE EodSubmit(t) /\ \E q : Submit(t, q, job[t])
        <5>1. job[t] \in SquareOffs
          BY <4>2 DEF EodSubmit, SlotInv, KnowsWhy
        <5>2. QED
          BY <4>2, <5>1 DEF Submit, Moves, CyclingAt, SquareOffs
      <4>3. QED
        BY <2>4, <4>1, <4>2 DEF EodBegin, EodSubmit, EodFinish, EodAfter
    <3>2. QED
      BY <2>1, <2>2, <3>1, TurnsMoves DEF Threads
  <2>5. QED
    BY <1>5, <2>3, <2>4
<1>6. QED
  BY <1>1, <1>2, <1>a, <1>b, <1>3, <1>4, <1>5, Steps DEF Quiet

Collecting == \E t \in Threads : pc[t] = "collect"

\* What was submitted is in the queue, in the results or in the submitter's hand.
Counts ==
    /\ \A t \in Threads :
          pc[t] = "collect" => Len(queue) + Len(results) + Len(got[t]) = Len(batch[t])
    /\ ~Collecting => queue = << >> /\ results = << >>

\* One thread collects at a time, and nobody while the loop or a square-off does
\* anything else.
LEMMA OneCollects ==
    ASSUME SlotInv, Turns, NEW t \in Threads, NEW u \in Threads, u # t,
           pc[t] \notin {"watch", "joining", "ended"}
    PROVE  pc[u] \in {"watch", "joining", "ended"}
  BY DEF Turns, Threads

LEMMA CountsStay ==
    ASSUME Counts, UNCHANGED <<queue, results>>,
           \A t \in Threads : pc'[t] = "collect" <=> pc[t] = "collect",
           \A t \in Threads : pc[t] = "collect" => got'[t] = got[t] /\ batch'[t] = batch[t]
    PROVE  Counts'
<1>1. Collecting' <=> Collecting
  BY DEF Collecting
<1>2. QED
  BY <1>1 DEF Counts

LEMMA CountsSubmit ==
    ASSUME TypeInv, SlotInv, Turns, Counts, NEW t \in Threads, pc[t] \in {"decide", "plan"},
           \/ Goto(t, "cycled") /\ UNCHANGED <<queue, results, executor, batch, got, job>>
           \/ Goto(t, "after") /\ UNCHANGED <<queue, results, executor, job, batch, got>>
           \/ \E q \in Seq(Requests) : \E w : q # << >> /\ Submit(t, q, w)
    PROVE  Counts'
<1>1. \A u \in Threads : pc[u] # "collect"
  BY OneCollects
<1>2. queue = << >> /\ results = << >>
  BY <1>1 DEF Counts, Collecting
<1>3. CASE UNCHANGED <<queue, results, batch, got>> /\ \E p \in {"cycled", "after"} : Goto(t, p)
  <2>1. \A u \in Threads : pc'[u] # "collect"
    BY <1>1, <1>3 DEF Goto, SlotInv
  <2>2. QED
    BY <1>1, <1>3, <2>1, CountsStay
<1>4. CASE \E q \in Seq(Requests) : \E w : q # << >> /\ Submit(t, q, w)
  <2>0. PICK q \in Seq(Requests) : q # << >> /\ \E w : Submit(t, q, w)
    BY <1>4
  <2>1. PICK w : Submit(t, q, w)
    BY <2>0
  <2>2. queue' = q /\ results' = << >>
    BY <1>2, <2>1 DEF Submit
  <2>3. /\ pc'[t] = "collect" /\ batch'[t] = q /\ got'[t] = << >>
        /\ \A u \in Threads : u # t => pc'[u] # "collect"
    BY <1>1, <2>1 DEF Submit, SlotInv, TypeInv, ItemTypes
  <2>4. Len(q) + Len(<< >>) + Len(<< >>) = Len(q)
    OBVIOUS
  <2>5. Collecting'
    BY <2>3 DEF Collecting
  <2>6. QED
    BY <2>2, <2>3, <2>4, <2>5 DEF Counts
<1>5. QED
  BY <1>3, <1>4

LEMMA CountsStep ==
    ASSUME TypeInv, SlotInv, Calm, NoExit, FillsOnly, Turns, Counts, [Next]_vars
    PROVE  Counts'
<1>0. "loop" \in Threads /\ "monitor" \in Threads
  BY DEF Threads
<1>1. CASE CalmQuiet /\ ~ \E t \in Threads : Join(t)
  <2>1. UNCHANGED <<queue, results, got, batch>>
    <3>1. CASE WorkerStop \/ MarketCloses \/ UNCHANGED vars
      BY <3>1 DEF WorkerStop, MarketCloses, exec, threads, vars
    <3>2. CASE ReconcileBegin \/ ReconcileFetch \/ ReconcileEnd
               \/ \E s \in Symbols : ReconcileSymbol(s)
      BY <3>2 DEF ReconcileBegin, ReconcileFetch, ReconcileEnd, ReconcileSymbol, exec, threads
    <3>3. CASE LoopTop \/ LoopFetch \/ LoopRecorded \/ LoopCycled \/ MonitorStop \/ MonitorJoin
      BY <3>3 DEF LoopTop, LoopFetch, LoopRecorded, LoopCycled, MonitorStop, MonitorJoin, exec
    <3>4. CASE \E t \in Threads : EodBegin(t) \/ EodFinish(t) \/ EodAfter(t)
      BY <3>4 DEF EodBegin, EodFinish, EodAfter, exec
    <3>5. QED
      BY <1>1, <3>1, <3>2, <3>3, <3>4 DEF CalmQuiet
  <2>2. \A t \in Threads : pc'[t] = "collect" <=> pc[t] = "collect"
    <3>1. CASE UNCHANGED pc
      BY <3>1
    <3>2. ASSUME NEW t \in Threads, NEW p, p # "collect", Goto(t, p), pc[t] # "collect"
          PROVE  \A u \in Threads : pc'[u] = "collect" <=> pc[u] = "collect"
      BY <3>2 DEF Goto, SlotInv
    <3>3. CASE \/ WorkerStop \/ MarketCloses \/ UNCHANGED vars \/ ReconcileBegin
               \/ ReconcileFetch \/ ReconcileEnd \/ \E s \in Symbols : ReconcileSymbol(s)
      <4>1. UNCHANGED pc
        BY <3>3 DEF WorkerStop, MarketCloses, threads, vars, ReconcileBegin, ReconcileFetch,
                    ReconcileEnd, ReconcileSymbol
      <4>2. QED
        BY <4>1
    <3>4. CASE LoopTop \/ LoopFetch \/ LoopRecorded \/ LoopCycled
      <4>1. pc["loop"] # "collect"
        BY <3>4 DEF LoopTop, LoopFetch, LoopRecorded, LoopCycled, AtLoop
      <4>2. \E p : p # "collect" /\ Goto("loop", p)
        <5>1. CASE LoopTop
          BY <5>1 DEF LoopTop, BeginSquareOff
        <5>2. CASE LoopFetch
          BY <5>2 DEF LoopFetch
        <5>3. CASE LoopRecorded
          BY <5>3 DEF LoopRecorded
        <5>4. CASE LoopCycled
          BY <5>4 DEF LoopCycled, BeginSquareOff
        <5>5. QED
          BY <3>4, <5>1, <5>2, <5>3, <5>4
      <4>3. QED
        BY <1>0, <3>2, <4>1, <4>2
    <3>5. CASE MonitorStop \/ MonitorJoin
      <4>1. pc["monitor"] # "collect"
        BY <3>5 DEF MonitorStop, MonitorJoin, Watching
      <4>2. \E p : p # "collect" /\ Goto("monitor", p)
        BY <3>5 DEF MonitorStop, MonitorJoin, BeginSquareOff
      <4>3. QED
        BY <1>0, <3>2, <4>1, <4>2
    <3>6. ASSUME NEW t \in Threads, EodBegin(t) \/ EodFinish(t) \/ EodAfter(t)
          PROVE  \A u \in Threads : pc'[u] = "collect" <=> pc[u] = "collect"
      <4>1. pc[t] # "collect" /\ \E p : p # "collect" /\ Goto(t, p)
        BY <3>6 DEF EodBegin, EodFinish, EodAfter
      <4>2. QED
        BY <3>2, <4>1
    <3>7. QED
      BY <1>1, <3>3, <3>4, <3>5, <3>6 DEF CalmQuiet
  <2>3. QED
    BY <2>1, <2>2, CountsStay
<1>2. ASSUME NEW t \in Threads, Join(t) PROVE Counts'
  <2>1. /\ pc[t] = "collect" /\ Len(got[t]) = Len(batch[t]) /\ queue = << >>
        /\ pc' = [pc EXCEPT ![t] = "record"] /\ UNCHANGED <<queue, results, got, batch>>
    BY <1>2 DEF Join, exec
  <2>2. Len(queue) + Len(results) + Len(got[t]) = Len(batch[t])
    BY <2>1 DEF Counts
  <2>3. results \in Seq(Outcomes(Len(orders))) /\ got[t] \in Seq(Outcomes(Len(orders)))
    BY DEF TypeInv, ItemTypes
  <2>4. results = << >>
    <3> DEFINE O == Outcomes(Len(orders))
    <3>1. results \in Seq(O) /\ Len(queue) = 0 /\ Len(got[t]) \in Nat
      BY <2>1, <2>3
    <3> HIDE DEF O
    <3>2. Len(results) \in Nat /\ Len(results) = 0
      BY <2>1, <2>2, <3>1
    <3>3. QED
      BY <3>1, <3>2
  <2>5. \A u \in Threads : pc'[u] # "collect"
    BY <2>1, OneCollects DEF SlotInv
  <2>6. QED
    BY <2>1, <2>4, <2>5 DEF Counts
<1>3. CASE Executor
  <2>1. PICK i \in DOMAIN queue : \E o : Takes(i, o, Len(orders) + 1)
    BY <1>3, ExecuteTakes DEF TypeInv
  <2>2. PICK o : queue' = RemoveAt(queue, i) /\ results' = Append(results, o)
    BY <2>1 DEF Takes
  <2>3. UNCHANGED <<pc, got, batch>>
    BY <1>3, ExecuteTakes DEF TypeInv, threads
  <2>4. queue \in Seq(Requests) /\ IsSeq(queue) /\ results \in Seq(Outcomes(Len(orders)))
    BY DEF TypeInv, ItemTypes, IsSeq
  <2>5. Len(queue') = Len(queue) - 1
    BY <2>2, <2>4, ElemsRemove
  <2>6. Len(results') = Len(results) + 1 /\ Len(results) \in Nat /\ Len(queue) \in Nat
    <3> DEFINE O == Outcomes(Len(orders))
    <3>1. results \in Seq(O)
      BY <2>4
    <3> HIDE DEF O
    <3>2. QED
      BY <2>2, <2>4, <3>1
  <2>7. queue # << >>
    BY <2>1
  <2>8. Collecting
    BY <2>7 DEF Counts
  <2>9. \A t \in Threads : got[t] \in Seq(Outcomes(Len(orders)))
    BY DEF TypeInv, ItemTypes
  <2>10. \A t \in Threads : Len(got[t]) \in Nat
    <3> DEFINE O == Outcomes(Len(orders))
    <3>1. \A t \in Threads : got[t] \in Seq(O)
      BY <2>9
    <3> HIDE DEF O
    <3>2. QED
      BY <3>1
  <2>11. Collecting'
    BY <2>3, <2>8 DEF Collecting
  <2>12. ASSUME NEW t \in Threads, pc'[t] = "collect"
         PROVE  Len(queue') + Len(results') + Len(got'[t]) = Len(batch'[t])
    <3>1. Len(queue) + Len(results) + Len(got[t]) = Len(batch[t])
      BY <2>3, <2>12 DEF Counts
    <3>2. got'[t] = got[t] /\ batch'[t] = batch[t] /\ Len(got[t]) \in Nat
      BY <2>3, <2>10
    <3> DEFINE a == Len(queue)
               b == Len(results)
               c == Len(got[t])
               a2 == Len(queue')
               b2 == Len(results')
    <3>3. a2 = a - 1 /\ b2 = b + 1 /\ a \in Nat /\ b \in Nat /\ c \in Nat
      BY <2>5, <2>6, <3>2
    <3> HIDE DEF a, b, c, a2, b2
    <3>4. a2 + b2 + c = a + b + c
      BY <3>3
    <3>5. QED
      BY <3>1, <3>2, <3>4 DEF a, b, c, a2, b2
  <2>13. QED
    BY <2>11, <2>12 DEF Counts
<1>4. CASE LoopDecide
  <2>1. pc["loop"] = "decide"
    BY <1>4 DEF LoopDecide, AtLoop
  <2>2. QED
    BY <1>0, <1>4, <2>1, DecideSubmits, CountsSubmit DEF TypeInv
<1>5. ASSUME NEW t \in Threads, EodSubmit(t) PROVE Counts'
  <2>1. pc[t] = "plan"
    BY <1>5 DEF EodSubmit
  <2>2. QED
    BY <1>5, <2>1, PlanSubmits, CountsSubmit DEF TypeInv
<1>6. CASE LoopRecord \/ \E t \in Threads : EodRecord(t)
  <2>1. PICK t \in Threads : /\ pc[t] = "record" /\ UNCHANGED <<queue, results, pc, batch>>
                             /\ got' = [got EXCEPT ![t] = Tail(got[t])]
    BY <1>0, <1>6 DEF LoopRecord, EodRecord, AtLoop, exec
  <2>2. \A u \in Threads : pc[u] # "collect"
    BY <2>1, OneCollects
  <2>3. QED
    BY <2>1, <2>2, CountsStay
<1>7. CASE ReconcileOrder
  <2>1. UNCHANGED <<queue, results, pc, batch, got>>
    BY <1>7 DEF ReconcileOrder, exec, threads
  <2>2. QED
    BY <2>1, CountsStay
<1>8. ASSUME NEW t \in Threads, Collect(t) PROVE Counts'
  <2> DEFINE O == Outcomes(Len(orders))
  <2>1. /\ pc[t] = "collect" /\ results # << >>
        /\ got' = [got EXCEPT ![t] = Append(got[t], Head(results))]
        /\ results' = Tail(results) /\ UNCHANGED <<queue, pc, batch>>
    BY <1>8 DEF Collect
  <2>2. results \in Seq(O) /\ got \in [Threads -> Seq(O)] /\ queue \in Seq(Requests)
    BY DEF TypeInv, ItemTypes
  <2>3. \A u \in Threads : u # t => pc'[u] # "collect"
    BY <2>1, OneCollects
  <2> HIDE DEF O
  <2>4. /\ Len(results') = Len(results) - 1 /\ Len(got'[t]) = Len(got[t]) + 1
        /\ Len(results) \in Nat /\ Len(got[t]) \in Nat /\ Len(queue) \in Nat
    BY <2>1, <2>2
  <2>5. Collecting'
    BY <2>1 DEF Collecting
  <2>6. Len(queue) + Len(results) + Len(got[t]) = Len(batch[t])
    BY <2>1 DEF Counts
  <2>7. Len(queue') + Len(results') + Len(got'[t]) = Len(batch'[t])
    <3> DEFINE a == Len(queue)
               b == Len(results)
               c == Len(got[t])
               b2 == Len(results')
               c2 == Len(got'[t])
    <3>1. Len(queue') = a /\ Len(batch'[t]) = Len(batch[t])
      BY <2>1
    <3>2. b2 = b - 1 /\ c2 = c + 1 /\ a \in Nat /\ b \in Nat /\ c \in Nat
      BY <2>4
    <3>3. a + b + c = Len(batch[t])
      BY <2>6
    <3> HIDE DEF a, b, c, b2, c2
    <3>4. a + b2 + c2 = a + b + c
      BY <3>2
    <3>5. QED
      BY <3>1, <3>3, <3>4 DEF b2, c2
  <2>8. QED
    BY <2>3, <2>5, <2>7 DEF Counts
<1>9. QED
  BY <1>1, <1>2, <1>3, <1>4, <1>5, <1>6, <1>7, <1>8, CalmSteps

LEMMA FillsOnlyStep ==
    ASSUME TypeInv, SlotInv, Calm, NoExit, FillsOnly, [Next]_vars
    PROVE  FillsOnly'
<1>1. CASE Executor
  <2>1. PICK i \in DOMAIN queue : \E o : Takes(i, o, Len(orders) + 1)
    BY <1>1, ExecuteTakes DEF TypeInv
  <2>2. UNCHANGED manual
    BY <1>1, ExecuteTakes DEF TypeInv
  <2>3. OrderStates = {"filled"}
    BY DEF OrderStates, May, Calm
  <2>4. orders' = orders \/ orders' = Append(orders, Placed(queue[i], "filled"))
    BY <2>1, <2>3 DEF Takes
  <2>5. Placed(queue[i], "filled").state = "filled" /\ IsSeq(orders)
    BY DEF Placed, TypeInv, ItemTypes, IsSeq
  <2>6. \A j \in DOMAIN orders' : orders'[j].state = "filled"
    <3>1. CASE orders' = orders
      BY <3>1 DEF FillsOnly
    <3>2. CASE orders' = Append(orders, Placed(queue[i], "filled"))
      <4> DEFINE e == Placed(queue[i], "filled")
      <4>1. /\ DOMAIN orders' = 1 .. Len(orders) + 1 /\ orders'[Len(orders) + 1] = e
            /\ \A j \in 1 .. Len(orders) : orders'[j] = orders[j]
            /\ DOMAIN orders = 1 .. Len(orders) /\ Len(orders) \in Nat
        BY <2>5, <3>2, AppendSeq, SeqDomain
      <4>2. e.state = "filled"
        BY <2>5
      <4> HIDE DEF e
      <4>3. QED
        BY <4>1, <4>2 DEF FillsOnly
    <3>3. QED
      BY <2>4, <3>1, <3>2
  <2>7. QED
    BY <2>2, <2>6 DEF FillsOnly, Flat
<1>2. CASE LoopDecide \/ LoopRecord \/ ReconcileOrder
           \/ \E t \in Threads : Collect(t) \/ EodSubmit(t) \/ EodRecord(t)
  <2>1. UNCHANGED <<orders, manual>>
    BY <1>2 DEF LoopDecide, LoopRecord, ReconcileOrder, Collect, EodSubmit, EodRecord, broker
  <2>2. QED
    BY <2>1 DEF FillsOnly, Flat
<1>3. CASE CalmQuiet
  <2>1. UNCHANGED <<orders, manual>>
    <3>1. CASE WorkerStop \/ MarketCloses \/ UNCHANGED vars
      BY <3>1 DEF WorkerStop, MarketCloses, broker, vars
    <3>2. CASE ReconcileBegin \/ ReconcileFetch \/ ReconcileEnd
               \/ \E s \in Symbols : ReconcileSymbol(s)
      BY <3>2 DEF ReconcileBegin, ReconcileFetch, ReconcileEnd, ReconcileSymbol, broker
    <3>3. CASE LoopTop \/ LoopFetch \/ LoopRecorded \/ LoopCycled \/ MonitorStop \/ MonitorJoin
      BY <3>3 DEF LoopTop, LoopFetch, LoopRecorded, LoopCycled, MonitorStop, MonitorJoin, broker
    <3>4. CASE \E t \in Threads : Join(t) \/ EodBegin(t) \/ EodFinish(t) \/ EodAfter(t)
      BY <3>4 DEF Join, EodBegin, EodFinish, EodAfter, broker
    <3>5. QED
      BY <1>3, <3>1, <3>2, <3>3, <3>4 DEF CalmQuiet
  <2>2. QED
    BY <2>1 DEF FillsOnly, Flat
<1>4. QED
  BY <1>1, <1>2, <1>3, CalmSteps

\* The ids of the orders a sequence of results is about.
Ids(q) == {q[i].id : i \in DOMAIN q} \ {0}
NoTwice(q) == \A i, j \in DOMAIN q : q[i].id # 0 /\ q[i].id = q[j].id => i = j

LEMMA IdsNone == Ids(<< >>) = {} /\ NoTwice(<< >>)
  BY DEF Ids, NoTwice

LEMMA IdsAppend ==
    ASSUME NEW q, IsSeq(q), NEW o
    PROVE  /\ Ids(Append(q, o)) = Ids(q) \cup ({o.id} \ {0})
           /\ NoTwice(q) /\ o.id \notin Ids(q) => NoTwice(Append(q, o))
<1> DEFINE r == Append(q, o)
           n == Len(q)
<1>1. /\ DOMAIN r = 1 .. n + 1 /\ r[n + 1] = o /\ \A i \in 1 .. n : r[i] = q[i]
      /\ n \in Nat /\ DOMAIN q = 1 .. n
  BY AppendSeq, SeqDomain
<1> HIDE DEF r, n
<1>2. DOMAIN r = DOMAIN q \cup {n + 1} /\ n + 1 \notin DOMAIN q
  BY <1>1
<1>3. Ids(r) = Ids(q) \cup ({o.id} \ {0})
  BY <1>1, <1>2 DEF Ids
<1>4. ASSUME NoTwice(q), o.id \notin Ids(q) PROVE NoTwice(r)
  <2> SUFFICES ASSUME NEW i \in DOMAIN r, NEW j \in DOMAIN r, r[i].id # 0, r[i].id = r[j].id
               PROVE  i = j
    BY DEF NoTwice
  <2>1. CASE i \in DOMAIN q /\ j \in DOMAIN q
    BY <1>1, <1>4, <2>1 DEF NoTwice
  <2>2. CASE i = n + 1 /\ j \in DOMAIN q
    BY <1>1, <1>4, <2>2 DEF Ids
  <2>3. CASE i \in DOMAIN q /\ j = n + 1
    BY <1>1, <1>4, <2>3 DEF Ids
  <2>4. QED
    BY <1>2, <2>1, <2>2, <2>3
<1>5. QED
  BY <1>3, <1>4 DEF r

LEMMA IdsTail ==
    ASSUME NEW S, NEW q \in Seq(S), q # << >>
    PROVE  /\ Ids(q) = Ids(Tail(q)) \cup ({Head(q).id} \ {0})
           /\ NoTwice(q) => NoTwice(Tail(q)) /\ Head(q).id \notin Ids(Tail(q))
<1> DEFINE r == Tail(q)
           n == Len(q)
           h == Head(q)
<1>1. /\ DOMAIN r = 1 .. n - 1 /\ h = q[1] /\ \A i \in 1 .. n - 1 : r[i] = q[i + 1]
      /\ n \in Nat /\ n # 0 /\ DOMAIN q = 1 .. n
  OBVIOUS
<1> HIDE DEF r, n, h
<1>2. Ids(q) = Ids(r) \cup ({h.id} \ {0})
  <2>1. \A x : x \in Ids(q) => x \in Ids(r) \/ x = h.id
    <3> SUFFICES ASSUME NEW i \in DOMAIN q, q[i].id # 0 PROVE q[i].id \in Ids(r) \/ i = 1
      BY <1>1 DEF Ids
    <3>1. i # 1 => i - 1 \in DOMAIN r /\ r[i - 1] = q[i]
      BY <1>1
    <3>2. QED
      BY <3>1 DEF Ids
  <2>2. \A x : x \in Ids(r) => x \in Ids(q)
    <3> SUFFICES ASSUME NEW i \in DOMAIN r, r[i].id # 0 PROVE r[i].id \in Ids(q)
      BY DEF Ids
    <3>1. i + 1 \in DOMAIN q /\ r[i] = q[i + 1]
      BY <1>1
    <3>2. QED
      BY <3>1 DEF Ids
  <2>3. h.id # 0 => h.id \in Ids(q)
    BY <1>1 DEF Ids
  <2>4. 0 \notin Ids(q)
    BY DEF Ids
  <2>5. QED
    BY <2>1, <2>2, <2>3, <2>4
<1>3. ASSUME NoTwice(q) PROVE NoTwice(r) /\ h.id \notin Ids(r)
  <2>1. \A i \in DOMAIN r : i + 1 \in DOMAIN q /\ r[i] = q[i + 1] /\ i \in Nat /\ i # 0
    BY <1>1
  <2>2. NoTwice(r)
    <3> SUFFICES ASSUME NEW i \in DOMAIN r, NEW j \in DOMAIN r, r[i].id # 0, r[i].id = r[j].id
                 PROVE  i = j
      BY DEF NoTwice
    <3>1. i + 1 = j + 1
      BY <1>3, <2>1 DEF NoTwice
    <3>2. QED
      BY <2>1, <3>1
  <2>3. h.id \notin Ids(r)
    <3> SUFFICES ASSUME NEW i \in DOMAIN r, r[i].id # 0, r[i].id = h.id PROVE FALSE
      BY DEF Ids
    <3>1. 1 \in DOMAIN q
      BY <1>1
    <3>2. i + 1 = 1
      BY <1>1, <1>3, <2>1, <3>1 DEF NoTwice
    <3>3. QED
      BY <2>1, <3>2
  <2>4. QED
    BY <2>2, <2>3
<1>4. QED
  BY <1>2, <1>3 DEF r, h

LEMMA IdsRemove ==
    ASSUME NEW q, IsSeq(q), NoTwice(q), NEW e \in Elems(q), e.id # 0
    PROVE  /\ Ids(RemoveFirst(q, e)) = Ids(q) \ {e.id}
           /\ NoTwice(RemoveFirst(q, e))
           /\ Elems(RemoveFirst(q, e)) = Elems(q) \ {e}
           /\ e.id \in Ids(q)
<1>1. PICK k \in DOMAIN q : q[k] = e /\ RemoveFirst(q, e) = RemoveAt(q, k)
  BY RemoveFirstSeq
<1> DEFINE r == RemoveAt(q, k)
           n == Len(q)
<1>2. /\ DOMAIN r = 1 .. n - 1
      /\ \A j \in 1 .. n - 1 : r[j] = IF j < k THEN q[j] ELSE q[j + 1]
      /\ n \in Nat /\ DOMAIN q = 1 .. n
      /\ Elems(r) = {q[j] : j \in DOMAIN q \ {k}}
  BY RemoveSeq, SeqDomain, ElemsRemove
<1> HIDE DEF r, n
<1>3. \A j \in DOMAIN q : q[j].id = e.id => j = k
  BY <1>1 DEF NoTwice
<1>4. Elems(r) = Elems(q) \ {e}
  BY <1>1, <1>2, <1>3 DEF Elems
<1>5. \A s : Ids(s) = {x.id : x \in Elems(s)} \ {0}
  BY DEF Ids, Elems
<1>6. Ids(r) = Ids(q) \ {e.id}
  <2>1. Ids(r) = {x.id : x \in Elems(q) \ {e}} \ {0} /\ Ids(q) = {x.id : x \in Elems(q)} \ {0}
    BY <1>4, <1>5
  <2>2. \A x \in Elems(q) : x # e => x.id # e.id
    BY <1>1, <1>3 DEF Elems
  <2>3. QED
    BY <2>1, <2>2
<1>7. NoTwice(r)
  <2> SUFFICES ASSUME NEW i \in DOMAIN r, NEW j \in DOMAIN r, r[i].id # 0, r[i].id = r[j].id
               PROVE  i = j
    BY DEF NoTwice
  <2> DEFINE f(x) == IF x < k THEN x ELSE x + 1
  <2>1. f(i) \in DOMAIN q /\ f(j) \in DOMAIN q /\ r[i] = q[f(i)] /\ r[j] = q[f(j)]
    BY <1>2
  <2>2. f(i) = f(j)
    BY <2>1 DEF NoTwice
  <2>3. QED
    BY <1>2, <2>2
<1>8. e.id \in Ids(q)
  BY <1>1 DEF Ids
<1>9. QED
  BY <1>1, <1>4, <1>6, <1>7, <1>8 DEF r

\* What is known of a calm run whoever has the orders.
CalmRun == Calm /\ SlotInv /\ TypeInv /\ Matches /\ NoExit /\ Turns /\ Counts /\ FillsOnly

\* A result is about the order that was asked for, a pending one under its symbol.
Acting(ord) == {o \in Matching(ord) : o.id # 0 => ord[o.id].act = o.req.act}
Keyed(s, ord) == {o \in Acting(ord) : o.id # 0 /\ o.req.sym = s}
ActsKept ==
    /\ results \in Seq(Acting(orders))
    /\ got \in [Threads -> Seq(Acting(orders))]
    /\ \A s \in Symbols : pending[s] \in Seq(Keyed(s, orders))

\* The orders nobody has dealt with.
InHand == Ids(results) \cup Ids(got["loop"]) \cup Ids(got["monitor"])

\* Only a cycle has trades in hand.
Trading ==
    /\ \A i \in DOMAIN queue : ~IsExit(queue[i]) => Cycling
    /\ \A k \in InHand : ~IsExit(orders[k]) => Cycling

LEMMA CalmItems ==
    ASSUME CalmQuiet
    PROVE  UNCHANGED <<orders, queue, results, got, pending, manual>>
<1>1. CASE WorkerStop \/ MarketCloses \/ UNCHANGED vars
  BY <1>1 DEF WorkerStop, MarketCloses, broker, exec, threads, vars
<1>2. CASE ReconcileBegin \/ ReconcileFetch \/ ReconcileEnd
           \/ \E s \in Symbols : ReconcileSymbol(s)
  BY <1>2 DEF ReconcileBegin, ReconcileFetch, ReconcileEnd, ReconcileSymbol, broker, exec,
              threads
<1>3. CASE LoopTop \/ LoopFetch \/ LoopRecorded \/ LoopCycled \/ MonitorStop \/ MonitorJoin
  BY <1>3 DEF LoopTop, LoopFetch, LoopRecorded, LoopCycled, MonitorStop, MonitorJoin, broker,
              exec
<1>4. CASE \E t \in Threads : Join(t) \/ EodBegin(t) \/ EodFinish(t) \/ EodAfter(t)
  BY <1>4 DEF Join, EodBegin, EodFinish, EodAfter, broker, exec
<1>5. QED
  BY <1>1, <1>2, <1>3, <1>4 DEF CalmQuiet

\* The order is placed and fills, or it is refused.
CalmTakes(i, o) ==
    /\ queue' = RemoveAt(queue, i) /\ results' = Append(results, o)
    /\ queue[i] \in Requests /\ o = Outcome(queue[i], o.id)
    /\ \/ orders' = orders /\ o.id = 0
       \/ orders' = Append(orders, Placed(queue[i], "filled")) /\ o.id = Len(orders) + 1

LEMMA CalmExecutes ==
    ASSUME CalmRun, Executor
    PROVE  /\ \E i \in DOMAIN queue : \E o : CalmTakes(i, o)
           /\ UNCHANGED <<manual, pending, books, slot, loopVars, threads, recVars>>
<1>1. PICK i \in DOMAIN queue : \E o : Takes(i, o, Len(orders) + 1)
  BY ExecuteTakes DEF CalmRun, TypeInv
<1>2. PICK o : Takes(i, o, Len(orders) + 1)
  BY <1>1
<1>3. ~May("timeout") /\ OrderStates = {"filled"}
  BY DEF CalmRun, Calm, May, OrderStates
<1>4. queue[i] \in Requests
  BY DEF CalmRun, TypeInv, ItemTypes
<1>5. \/ orders' = orders /\ o.id = 0
      \/ orders' = Append(orders, Placed(queue[i], "filled")) /\ o.id = Len(orders) + 1
  BY <1>2, <1>3 DEF Takes
<1>6. queue' = RemoveAt(queue, i) /\ results' = Append(results, o) /\ o = Outcome(queue[i], o.id)
  BY <1>2 DEF Takes
<1>7. UNCHANGED <<manual, pending, books, slot, loopVars, threads, recVars>>
  BY ExecuteTakes DEF CalmRun, TypeInv, flags
<1>8. QED
  BY <1>4, <1>5, <1>6, <1>7 DEF CalmTakes

\* The orders there are stay as they are.
LEMMA OrdersStay ==
    ASSUME NEW n \in Orders, orders \in Seq(Orders), orders' = Append(orders, n)
    PROVE  /\ orders' \in Seq(Orders) /\ DOMAIN orders' = DOMAIN orders \cup {Len(orders) + 1}
           /\ DOMAIN orders = 1 .. Len(orders) /\ Len(orders) + 1 \notin DOMAIN orders
           /\ \A i \in DOMAIN orders : orders'[i] = orders[i]
           /\ orders'[Len(orders) + 1] = n /\ Len(orders') = Len(orders) + 1
           /\ Len(orders) \in Nat
<1> DEFINE O == Orders
<1>1. n \in O /\ orders \in Seq(O)
  OBVIOUS
<1> HIDE DEF O
<1>2. /\ orders' \in Seq(O) /\ Len(orders') = Len(orders) + 1 /\ Len(orders) \in Nat
      /\ orders'[Len(orders) + 1] = n /\ DOMAIN orders = 1 .. Len(orders)
      /\ \A i \in 1 .. Len(orders) : orders'[i] = orders[i]
      /\ DOMAIN orders' = 1 .. Len(orders) + 1
  BY <1>1
<1>3. QED
  BY <1>2 DEF O

LEMMA ActingKept ==
    ASSUME NEW ord \in Seq(Orders), NEW new \in Seq(Orders), Len(ord) <= Len(new),
           \A i \in DOMAIN ord : new[i] = ord[i]
    PROVE  /\ Seq(Acting(ord)) \subseteq Seq(Acting(new))
           /\ \A s : Seq(Keyed(s, ord)) \subseteq Seq(Keyed(s, new))
<1>1. Matching(ord) \subseteq Matching(new)
  BY MatchingKept
<1>2. \A o \in Matching(ord) : o.id # 0 => o.id \in DOMAIN ord
  BY DEF Matching, Outcomes
<1>3. Acting(ord) \subseteq Acting(new) /\ \A s : Keyed(s, ord) \subseteq Keyed(s, new)
  BY <1>1, <1>2 DEF Acting, Keyed
<1>4. QED
  BY <1>3, SeqWidens

\* The new order is its request.
LEMMA ExecutedActs ==
    ASSUME CalmRun, ActsKept, Executor
    PROVE  ActsKept'
<1>0. PICK i \in DOMAIN queue : \E o : CalmTakes(i, o)
  BY CalmExecutes
<1>1. PICK o : /\ queue' = RemoveAt(queue, i) /\ results' = Append(results, o)
               /\ queue[i] \in Requests /\ o = Outcome(queue[i], o.id)
               /\ \/ orders' = orders /\ o.id = 0
                  \/ /\ orders' = Append(orders, Placed(queue[i], "filled"))
                     /\ o.id = Len(orders) + 1
  BY <1>0 DEF CalmTakes
<1>2. UNCHANGED <<pending, got>>
  BY CalmExecutes DEF threads
<1>3. orders \in Seq(Orders)
  BY DEF CalmRun, TypeInv, ItemTypes
<1> DEFINE r == queue[i]
           p == Placed(r, "filled")
<1>4. p \in Orders /\ p.sym = r.sym /\ p.side = r.side /\ p.qty = r.qty /\ p.act = r.act
  BY <1>1 DEF Placed, Orders, Requests, Acts
<1>5. o.req = r
  BY <1>1 DEF Outcome
<1> HIDE DEF r, p
<1>6. /\ orders' \in Seq(Orders) /\ Len(orders) <= Len(orders')
      /\ \A j \in DOMAIN orders : orders'[j] = orders[j]
      /\ o \in Acting(orders')
  <2>1. CASE orders' = orders /\ o.id = 0
    <3>1. o \in Outcomes(Len(orders))
      BY <1>1, <1>3, <2>1 DEF Outcomes, Outcome, r
    <3>2. QED
      BY <1>3, <2>1, <3>1 DEF Acting, Matching
  <2>2. CASE orders' = Append(orders, p) /\ o.id = Len(orders) + 1
    <3>1. /\ orders' \in Seq(Orders) /\ Len(orders') = Len(orders) + 1 /\ Len(orders) \in Nat
          /\ \A j \in DOMAIN orders : orders'[j] = orders[j]
          /\ orders'[o.id] = p
      BY <1>3, <1>4, <2>2, OrdersStay
    <3>2. o \in Outcomes(Len(orders'))
      BY <1>1, <2>2, <3>1 DEF Outcomes, Outcome, r
    <3>3. o \in Acting(orders')
      BY <1>4, <1>5, <3>1, <3>2 DEF Acting, Matching
    <3>4. QED
      BY <3>1, <3>3
  <2>3. QED
    BY <1>1, <2>1, <2>2 DEF p, r
<1> DEFINE A == Acting(orders)
           B == Acting(orders')
<1>7. Seq(A) \subseteq Seq(B)
      /\ \A s : Seq(Keyed(s, orders)) \subseteq Seq(Keyed(s, orders'))
  BY <1>3, <1>6, ActingKept
<1>8. results \in Seq(A) /\ got \in [Threads -> Seq(A)] /\ o \in B
  BY <1>6 DEF ActsKept
<1>9. \A s \in Symbols : pending'[s] \in Seq(Keyed(s, orders'))
  BY <1>2, <1>7 DEF ActsKept
<1> HIDE DEF A, B
<1>10. results' \in Seq(B)
  <2>1. results \in Seq(B)
    BY <1>7, <1>8
  <2>2. QED
    BY <1>1, <1>8, <2>1
<1>11. got' \in [Threads -> Seq(B)]
  BY <1>2, <1>7, <1>8
<1>12. QED
  BY <1>9, <1>10, <1>11 DEF ActsKept, A, B

LEMMA ActsStay ==
    ASSUME ActsKept, UNCHANGED <<orders, results, got, pending>>
    PROVE  ActsKept'
  BY DEF ActsKept, Acting, Keyed, Matching

\* The sequences hold what their ids say.
LEMMA HandKnown ==
    ASSUME CalmRun, ActsKept
    PROVE  /\ InHand \subseteq DOMAIN orders
           /\ \A s \in Symbols : Ids(pending[s]) \subseteq DOMAIN orders
           /\ \A s \in Symbols : \A k \in Ids(pending[s]) : orders[k].sym = s
           /\ IsSeq(results) /\ \A t \in Threads : IsSeq(got[t])
           /\ \A s \in Symbols : IsSeq(pending[s])
<1> DEFINE A == Acting(orders)
<1>1. \A o \in A : o.id # 0 => o.id \in DOMAIN orders
  BY DEF Acting, Matching, Outcomes, CalmRun, TypeInv, ItemTypes
<1>2. ASSUME NEW q \in Seq(A) PROVE Ids(q) \subseteq DOMAIN orders /\ IsSeq(q)
  <2> HIDE DEF A
  <2>1. \A i \in DOMAIN q : q[i] \in A
    OBVIOUS
  <2>2. IsSeq(q)
    BY DEF IsSeq
  <2>3. QED
    BY <1>1, <2>1, <2>2 DEF Ids
<1>3. "loop" \in Threads /\ "monitor" \in Threads
  BY DEF Threads
<1>4. results \in Seq(A) /\ got \in [Threads -> Seq(A)]
  BY DEF ActsKept
<1>5. ASSUME NEW s \in Symbols
      PROVE  /\ pending[s] \in Seq(A) /\ \A k \in Ids(pending[s]) : orders[k].sym = s
  <2> DEFINE K == Keyed(s, orders)
  <2>1. K \subseteq A /\ pending[s] \in Seq(K)
    BY DEF ActsKept, Keyed
  <2>2. Seq(K) \subseteq Seq(A)
    BY <2>1, SeqWidens
  <2>3. \A o \in K : orders[o.id].sym = s
    BY DEF Keyed, Acting, Matching
  <2> HIDE DEF K
  <2>4. \A i \in DOMAIN pending[s] : pending[s][i] \in K
    BY <2>1
  <2>5. QED
    BY <2>1, <2>2, <2>3, <2>4 DEF Ids
<1> HIDE DEF A
<1>6. InHand \subseteq DOMAIN orders
  BY <1>2, <1>3, <1>4 DEF InHand
<1>7. QED
  BY <1>2, <1>4, <1>5, <1>6

\* A result goes from the queue into the hand of the thread that takes it.
LEMMA Collected ==
    ASSUME CalmRun, ActsKept, NEW t \in Threads, Collect(t)
    PROVE  /\ results # << >> /\ got' = [got EXCEPT ![t] = Append(got[t], Head(results))]
           /\ results' = Tail(results) /\ pc[t] = "collect"
           /\ UNCHANGED <<broker, queue, pending, books, slot, loopVars, pc, job, recVars>>
           /\ ActsKept'
           /\ got'[t] = Append(got[t], Head(results))
           /\ \A u \in Threads : u # t => got'[u] = got[u]
           /\ InHand' = InHand
<1> DEFINE A == Acting(orders)
           h == Head(results)
<1>1. /\ results # << >> /\ got' = [got EXCEPT ![t] = Append(got[t], h)]
      /\ results' = Tail(results) /\ pc[t] = "collect"
      /\ UNCHANGED <<broker, queue, pending, books, slot, loopVars, pc, job, recVars>>
  BY DEF Collect, flags
<1>2. results \in Seq(A) /\ got \in [Threads -> Seq(A)] /\ orders' = orders
  BY <1>1 DEF ActsKept, broker
<1>3. h \in A /\ Tail(results) \in Seq(A) /\ Append(got[t], h) \in Seq(A)
  <2> HIDE DEF A
  <2>1. QED
    BY <1>1, <1>2
<1>4. A' = A /\ \A s : Keyed(s, orders)' = Keyed(s, orders)
  BY <1>2
<1>5. results' \in Seq(A) /\ got' \in [Threads -> Seq(A)]
  <2> HIDE DEF A, h
  <2>1. QED
    BY <1>1, <1>2, <1>3
<1>6. ActsKept'
  BY <1>1, <1>4, <1>5 DEF ActsKept
<1>7. IsSeq(got[t])
  BY HandKnown
<1>8. /\ Ids(results) = Ids(results') \cup ({h.id} \ {0})
      /\ Ids(got'[t]) = Ids(got[t]) \cup ({h.id} \ {0})
      /\ \A u \in Threads : u # t => got'[u] = got[u]
      /\ got'[t] = Append(got[t], h)
  BY <1>1, <1>2, <1>7, IdsTail, IdsAppend
<1>9. InHand' = InHand
  BY <1>8 DEF InHand, Threads
<1>10. QED
  BY <1>1, <1>6, <1>8, <1>9

\* A result leaves the hand; if its order was placed it is pending now, under its symbol.
Pends(h, o) == h.id # 0 /\ o \in Keyed(h.req.sym, orders) /\ o.id = h.id /\ AddPending(h.req.sym, o)

LEMMA Recorded ==
    ASSUME CalmRun, ActsKept, Trading, NEW t \in Threads,
           EodRecord(t) \/ (t = "loop" /\ LoopRecord)
    PROVE  LET h == Head(got[t]) IN
           /\ got[t] # << >> /\ got' = [got EXCEPT ![t] = Tail(got[t])]
           /\ UNCHANGED <<broker, queue, results, positions, ledger, slot, loopVars, pc, job,
                          recVars>>
           /\ h \in Acting(orders)
           /\ (h.id = 0 /\ pending' = pending) \/ \E o : Pends(h, o)
           /\ EodRecord(t) /\ h.id # 0 => IsExit(orders[h.id])
<1> DEFINE A == Acting(orders)
           h == Head(got[t])
           e == [h EXCEPT !.req.act = "MARKET_CLOSE_EXIT", !.req.held = h.req.side]
<1>1. /\ got[t] # << >> /\ got' = [got EXCEPT ![t] = Tail(got[t])]
      /\ UNCHANGED <<broker, queue, results, positions, ledger, slot, loopVars, pc, job, recVars>>
  BY DEF EodRecord, LoopRecord, books, flags, exec
<1>2. got[t] \in Seq(A)
  BY DEF ActsKept
<1>3. h \in A
  <2> HIDE DEF A
  <2>1. QED
    BY <1>1, <1>2
<1>4. h.id \in InHand \cup {0}
  <2>1. h.id \in Ids(got[t]) \cup {0}
    BY <1>1, <1>2, IdsTail
  <2>2. QED
    BY <2>1 DEF InHand, Threads
<1>5. EodRecord(t) => ~Cycling
  <2> SUFFICES ASSUME EodRecord(t) PROVE ~Cycling
    OBVIOUS
  <2>1. pc[t] = "record" /\ job[t] \in SquareOffs
    BY DEF EodRecord
  <2>2. CASE t = "loop"
    BY <2>1, <2>2 DEF Cycling, CyclingAt, SquareOffs
  <2>3. CASE t = "monitor"
    BY <2>1, <2>3 DEF CalmRun, Turns, Cycling, CyclingAt
  <2>4. QED
    BY <2>2, <2>3 DEF Threads
<1>6. EodRecord(t) /\ h.id # 0 => IsExit(orders[h.id])
  BY <1>4, <1>5 DEF Trading
<1>7. (h.id = 0 /\ pending' = pending) \/ \E o : Pends(h, o)
  <2>1. CASE h.id = 0
    BY <2>1 DEF EodRecord, LoopRecord
  <2>2. CASE h.id # 0 /\ LoopRecord /\ t = "loop"
    <3>1. h \in Keyed(h.req.sym, orders) /\ AddPending(h.req.sym, h)
      BY <1>3, <2>2 DEF Keyed, LoopRecord
    <3>2. QED
      BY <2>2, <3>1 DEF Pends
  <2>3. CASE h.id # 0 /\ EodRecord(t)
    <3>1. AddPending(h.req.sym, e)
      BY <2>3 DEF EodRecord
    <3>2. h.req \in Requests /\ h.id \in 0 .. Len(orders) /\ h = [req |-> h.req, id |-> h.id]
          /\ orders[h.id].sym = h.req.sym /\ orders[h.id].side = h.req.side
          /\ orders[h.id].qty = h.req.qty
      BY <1>3, <2>3 DEF Acting, Matching, Outcomes
    <3>3. /\ e.id = h.id /\ e.req.sym = h.req.sym /\ e.req.side = h.req.side
          /\ e.req.qty = h.req.qty /\ e.req.act = "MARKET_CLOSE_EXIT"
      <4>1. e = [h EXCEPT !.req = [h.req EXCEPT !.act = "MARKET_CLOSE_EXIT",
                                                !.held = h.req.side]]
        BY <3>2
      <4> DEFINE r == [h.req EXCEPT !.act = "MARKET_CLOSE_EXIT", !.held = h.req.side]
      <4>2. r.sym = h.req.sym /\ r.side = h.req.side /\ r.qty = h.req.qty
            /\ r.act = "MARKET_CLOSE_EXIT"
        BY <3>2 DEF Requests
      <4> HIDE DEF r
      <4>3. e.id = h.id /\ e.req = r
        BY <3>2, <4>1 DEF r
      <4>4. QED
        BY <4>2, <4>3
    <3>4. e \in Outcomes(Len(orders))
      <4>1. Len(orders) \in Nat /\ h \in Outcomes(Len(orders))
        BY <1>3 DEF CalmRun, TypeInv, ItemTypes, Acting, Matching
      <4>2. e \in Taken(Len(orders))
        BY <2>3, <4>1, OutcomePlaced
      <4>3. QED
        BY <4>2 DEF Taken, Outcomes
    <3>5. e \in Keyed(h.req.sym, orders)
      BY <1>6, <2>3, <3>2, <3>3, <3>4 DEF Keyed, Acting, Matching, IsExit
    <3>6. QED
      BY <2>3, <3>1, <3>3, <3>5 DEF Pends
  <2>4. QED
    BY <2>1, <2>2, <2>3
<1>8. QED
  BY <1>1, <1>3, <1>6, <1>7

LEMMA RecordedActs ==
    ASSUME CalmRun, ActsKept, Trading, NEW t \in Threads,
           EodRecord(t) \/ (t = "loop" /\ LoopRecord)
    PROVE  /\ ActsKept'
           /\ got'[t] = Tail(got[t]) /\ \A u \in Threads : u # t => got'[u] = got[u]
           /\ InHand = InHand' \cup ({Head(got[t]).id} \ {0})
           /\ \A s \in Symbols :
                 Ids(pending'[s]) = IF Head(got[t]).id # 0 /\ s = Head(got[t]).req.sym
                                    THEN Ids(pending[s]) \cup {Head(got[t]).id}
                                    ELSE Ids(pending[s])
<1> DEFINE A == Acting(orders)
           h == Head(got[t])
           k == h.id
<1>1. /\ got[t] # << >> /\ got' = [got EXCEPT ![t] = Tail(got[t])]
      /\ UNCHANGED <<orders, results>>
      /\ h \in A
      /\ (k = 0 /\ pending' = pending) \/ \E o : Pends(h, o)
  BY Recorded DEF broker
<1>2. results \in Seq(A) /\ got \in [Threads -> Seq(A)]
      /\ pending \in [Symbols -> Seq(Taken(Len(orders)))]
  BY DEF ActsKept, CalmRun, TypeInv, ItemTypes
<1>3. Tail(got[t]) \in Seq(A)
  <2> HIDE DEF A
  <2>1. QED
    BY <1>1, <1>2
<1>4. Ids(got[t]) = Ids(Tail(got[t])) \cup ({k} \ {0})
  BY <1>1, <1>2, IdsTail
<1>5. h.req.sym \in Symbols
  BY <1>1 DEF Acting, Matching, Outcomes, Requests
<1> HIDE DEF A
<1>6. got' \in [Threads -> Seq(A)]
  BY <1>1, <1>2, <1>3
<1>7. got'[t] = Tail(got[t]) /\ \A u \in Threads : u # t => got'[u] = got[u]
  BY <1>1, <1>2
<1>8. InHand = InHand' \cup ({k} \ {0})
  BY <1>1, <1>4, <1>7 DEF InHand, Threads
<1> HIDE DEF h, k
<1>9. ASSUME NEW s \in Symbols
      PROVE  /\ pending'[s] \in Seq(Keyed(s, orders))
             /\ Ids(pending'[s]) = IF k # 0 /\ s = h.req.sym THEN Ids(pending[s]) \cup {k}
                                   ELSE Ids(pending[s])
  <2>1. pending[s] \in Seq(Keyed(s, orders)) /\ IsSeq(pending[s])
    BY HandKnown DEF ActsKept
  <2>2. CASE pending'[s] = pending[s] /\ (k = 0 \/ s # h.req.sym)
    BY <2>1, <2>2
  <2>3. CASE k # 0 /\ s = h.req.sym
    <3>1. PICK o : Pends(h, o)
      BY <1>1, <2>3
    <3>2. pending'[s] = Append(pending[s], o) /\ o \in Keyed(s, orders) /\ o.id = k
      BY <1>2, <2>3, <3>1 DEF Pends, AddPending, k
    <3> DEFINE K == Keyed(s, orders)
    <3>3. o \in K /\ pending[s] \in Seq(K)
      BY <2>1, <3>2
    <3> HIDE DEF K
    <3>4. pending'[s] \in Seq(K)
      BY <3>2, <3>3
    <3>5. Ids(pending'[s]) = Ids(pending[s]) \cup ({k} \ {0})
      BY <2>1, <3>2, IdsAppend
    <3>6. QED
      BY <2>3, <3>4, <3>5 DEF K
  <2>4. CASE s # h.req.sym
    <3>1. pending' = pending \/ \E o : AddPending(h.req.sym, o)
      BY <1>1 DEF Pends
    <3>2. pending'[s] = pending[s]
      BY <1>2, <1>5, <2>4, <3>1 DEF AddPending
    <3>3. QED
      BY <2>2, <2>4, <3>2
  <2>5. QED
    BY <1>1, <2>2, <2>3, <2>4 DEF Pends, k
<1>10. ActsKept'
  <2>1. \A s : Keyed(s, orders)' = Keyed(s, orders)
    BY <1>1
  <2>2. A' = A
    BY <1>1 DEF A
  <2>3. results' \in Seq(A) /\ got' \in [Threads -> Seq(A)]
    BY <1>1, <1>2, <1>6
  <2>4. QED
    BY <1>9, <2>1, <2>2, <2>3 DEF ActsKept, A
<1>11. QED
  BY <1>7, <1>8, <1>9, <1>10 DEF h, k

\* While a thread is elsewhere in its cycle or its square-off nothing is under way.
LEMMA Alone ==
    ASSUME CalmRun, NEW t \in Threads,
           pc[t] \notin {"watch", "joining", "ended", "collect", "record"}
    PROVE  queue = << >> /\ results = << >> /\ InHand = {} /\ \A u \in Threads : got[u] = << >>
<1>1. \A u \in Threads : pc[u] \notin {"collect", "record"}
  <2> SUFFICES ASSUME NEW u \in Threads PROVE pc[u] \notin {"collect", "record"}
    OBVIOUS
  <2>1. CASE u # t
    <3>1. SlotInv /\ Turns /\ pc[t] \notin {"watch", "joining", "ended"}
      BY DEF CalmRun
    <3>2. QED
      BY <2>1, <3>1, OneCollects
  <2>2. QED
    BY <2>1
<1>2. queue = << >> /\ results = << >>
  BY <1>1 DEF CalmRun, Counts, Collecting
<1>3. \A u \in Threads : got[u] = << >>
  BY <1>1 DEF CalmRun, TypeInv, Answered
<1>4. InHand = {}
  BY <1>2, <1>3, IdsNone DEF InHand, Threads
<1>5. QED
  BY <1>2, <1>3, <1>4

\* Without outages and other trades the broker's positions are the engine's.
LEMMA CalmView ==
    ASSUME CalmRun, NEW v \in BrokerViews, NEW s \in Symbols
    PROVE  v[s] = Engine(s) /\ Engine(s) \in Int
<1>1. ~May("outage") /\ manual[s] = 0
  BY DEF CalmRun, Calm, May, FillsOnly, Flat
<1>2. Engine(s) \in Int
  BY EngineTyped DEF CalmRun, TypeInv
<1>3. v = [z \in Symbols |-> Engine(z) + manual[z]]
  BY <1>1 DEF BrokerViews
<1>4. QED
  BY <1>1, <1>2, <1>3

\* Nobody has anything in hand when orders are submitted.
LEMMA SubmitsHand ==
    ASSUME CalmRun, LoopDecide \/ \E t \in Threads : EodSubmit(t)
    PROVE  UNCHANGED <<orders, results, got, pending, manual>>
<1>1. PICK t \in Threads : (LoopDecide /\ t = "loop") \/ EodSubmit(t)
  BY DEF Threads
<1>2. pc[t] \in {"decide", "plan"}
  BY <1>1 DEF LoopDecide, EodSubmit, AtLoop
<1>3. \A u \in Threads : got[u] = << >>
  BY <1>2, Alone
<1>4. UNCHANGED <<orders, pending, manual>>
  BY <1>1 DEF LoopDecide, EodSubmit, broker
<1>5. got' = got \/ got' = [got EXCEPT ![t] = << >>]
  <2>1. CASE LoopDecide /\ t = "loop"
    BY <2>1, DecideSubmits DEF CalmRun, TypeInv, Submit
  <2>2. CASE EodSubmit(t)
    BY <2>2, PlanSubmits DEF CalmRun, TypeInv, Submit
  <2>3. QED
    BY <1>1, <2>1, <2>2
<1>6. results' = results
  <2>1. CASE LoopDecide /\ t = "loop"
    BY <2>1, DecideSubmits DEF CalmRun, TypeInv, Submit
  <2>2. CASE EodSubmit(t)
    BY <2>2, PlanSubmits DEF CalmRun, TypeInv, Submit
  <2>3. QED
    BY <1>1, <2>1, <2>2
<1>7. got' = got
  <2>1. \E S : got \in [Threads -> S]
    BY DEF CalmRun, TypeInv, ItemTypes
  <2>2. QED
    BY <1>3, <1>5, <2>1
<1>8. QED
  BY <1>4, <1>6, <1>7

\* The plan is queued, or there is none.
LEMMA PlanQueued ==
    ASSUME CalmRun, NEW t \in Threads, EodSubmit(t)
    PROVE  \E v \in BrokerViews :
              /\ \A i \in DOMAIN queue' : queue'[i] \in EodPlan(v)
              /\ \A i, j \in DOMAIN queue' : queue'[i] = queue'[j] => i = j
              /\ \/ UNCHANGED <<slot, positions, ledger>>
                 \/ slot' = "done"
                 \/ slot' = "free" /\ queue' = << >> /\ UNCHANGED <<positions, ledger>>
<1>1. queue = << >>
  BY Alone DEF EodSubmit
<1>2. PICK v \in BrokerViews :
        \/ /\ EodPlan(v) # {}
           /\ Submit(t, SetToSeq(EodPlan(v)), job[t])
           /\ UNCHANGED <<slot, positions, ledger>>
        \/ slot' = "free" /\ UNCHANGED <<positions, ledger, exec>>
        \/ slot' = "done" /\ UNCHANGED exec
  BY DEF EodSubmit
<1> DEFINE Sent == /\ \A i \in DOMAIN queue' : queue'[i] \in EodPlan(v)
                   /\ \A i, j \in DOMAIN queue' : queue'[i] = queue'[j] => i = j
           Kept == \/ UNCHANGED <<slot, positions, ledger>>
                   \/ slot' = "done"
                   \/ slot' = "free" /\ queue' = << >> /\ UNCHANGED <<positions, ledger>>
<1>3. ASSUME UNCHANGED exec, slot' = "done" \/ (slot' = "free" /\ UNCHANGED <<positions, ledger>>)
      PROVE  Sent /\ Kept
  <2>1. queue' = << >> /\ DOMAIN queue' = {}
    BY <1>1, <1>3 DEF exec
  <2>2. QED
    BY <1>3, <2>1
<1>4. ASSUME EodPlan(v) # {}, Submit(t, SetToSeq(EodPlan(v)), job[t]),
             UNCHANGED <<slot, positions, ledger>>
      PROVE  Sent /\ Kept
  <2>1. SetToSeq(EodPlan(v)) \in Seq(Requests)
    BY <1>4, PlanTyped, PlanFinite, SubmittedSeq, ViewsTyped DEF CalmRun, TypeInv
  <2>2. queue' = SetToSeq(EodPlan(v))
    BY <1>1, <1>4, <2>1 DEF Submit
  <2>3. /\ \A i \in DOMAIN SetToSeq(EodPlan(v)) : SetToSeq(EodPlan(v))[i] \in EodPlan(v)
        /\ \A i, j \in DOMAIN SetToSeq(EodPlan(v)) :
              SetToSeq(EodPlan(v))[i] = SetToSeq(EodPlan(v))[j] => i = j
    BY PlanFinite, SetSeq
  <2>4. QED
    BY <1>4, <2>2, <2>3
<1>5. Sent /\ Kept
  <2>1. CASE slot' = "free" /\ UNCHANGED <<positions, ledger, exec>>
    <3>1. UNCHANGED exec /\ UNCHANGED <<positions, ledger>>
      BY <2>1
    <3> HIDE DEF Sent, Kept
    <3>2. QED
      BY <1>3, <2>1, <3>1
  <2>2. CASE slot' = "done" /\ UNCHANGED exec
    <3>1. UNCHANGED exec /\ slot' = "done"
      BY <2>2
    <3> HIDE DEF Sent, Kept
    <3>2. QED
      BY <1>3, <3>1
  <2>3. CASE /\ EodPlan(v) # {}
             /\ Submit(t, SetToSeq(EodPlan(v)), job[t])
             /\ UNCHANGED <<slot, positions, ledger>>
    <3> HIDE DEF Sent, Kept
    <3>1. QED
      BY <1>4, <2>3
  <2>4. QED
    BY <1>2, <2>1, <2>2, <2>3
<1>6. QED
  BY <1>5

\* A pending order is kept, or taken off its list.
LEMMA CalmReconciles ==
    ASSUME CalmRun, ReconcileOrder
    PROVE  \E s \in Symbols : \E c :
              /\ Looks(s, c) /\ c.id \in DOMAIN orders /\ rcopy' = Tail(rcopy)
              /\ pending' = pending \/ pending' = [pending EXCEPT ![s] = RemoveFirst(@, c)]
              /\ UNCHANGED <<broker, queue, results, slot, loopVars, threads, rleft, rview, rpc>>
<1>1. PICK s, c :
         /\ Looks(s, c) /\ rcopy' = Tail(rcopy)
         /\ (Keep \/ Settle(s, c))
         /\ UNCHANGED <<broker, exec, cache, flags, loopVars, threads, rleft, rview, rpc>>
  BY OrderReconciled
<1>2. s \in Symbols /\ c.id \in DOMAIN orders
  BY <1>1, LooksTyped DEF CalmRun, TypeInv
<1>3. UNCHANGED <<broker, queue, results, slot, loopVars, threads, rleft, rview, rpc>>
  BY <1>1 DEF exec, flags
<1>4. pending' = pending \/ pending' = [pending EXCEPT ![s] = RemoveFirst(@, c)]
  BY <1>1 DEF Keep, Settle
<1>5. QED
  BY <1>1, <1>2, <1>3, <1>4

LEMMA ActsKeptStep ==
    ASSUME CalmRun, ActsKept, Trading, [Next]_vars
    PROVE  ActsKept'
<1>1. CASE CalmQuiet
  BY <1>1, CalmItems, ActsStay
<1>2. CASE Executor
  BY <1>2, ExecutedActs
<1>3. CASE LoopDecide \/ \E t \in Threads : EodSubmit(t)
  BY <1>3, SubmitsHand, ActsStay
<1>4. CASE LoopRecord \/ \E t \in Threads : EodRecord(t)
  BY <1>4, RecordedActs DEF Threads
<1>5. CASE \E t \in Threads : Collect(t)
  BY <1>5, Collected
<1>6. CASE ReconcileOrder
  <2>0. PICK s \in Symbols : \E c :
           /\ pending' = pending \/ pending' = [pending EXCEPT ![s] = RemoveFirst(@, c)]
           /\ UNCHANGED <<broker, results, threads>>
    BY <1>6, CalmReconciles
  <2>1. PICK c :
           /\ pending' = pending \/ pending' = [pending EXCEPT ![s] = RemoveFirst(@, c)]
           /\ UNCHANGED <<broker, results, threads>>
    BY <2>0
  <2>2. UNCHANGED <<orders, results, got>>
    BY <2>1 DEF broker, threads
  <2>3. \A z \in Symbols : pending'[z] \in Seq(Keyed(z, orders))
    <3> SUFFICES ASSUME NEW z \in Symbols PROVE pending'[z] \in Seq(Keyed(z, orders))
      OBVIOUS
    <3>1. pending[z] \in Seq(Keyed(z, orders))
      BY DEF ActsKept
    <3>2. \E S : pending \in [Symbols -> S]
      BY DEF CalmRun, TypeInv, ItemTypes
    <3>3. pending'[z] = pending[z] \/ pending'[z] = RemoveFirst(pending[z], c)
      BY <2>1, <3>2
    <3>4. RemoveFirst(pending[z], c) \in Seq(Keyed(z, orders))
      BY <3>1, RemoveFirstTyped
    <3>5. QED
      BY <3>1, <3>3, <3>4
  <2>4. QED
    BY <2>2, <2>3 DEF ActsKept, Acting, Keyed, Matching
<1>7. QED
  BY <1>1, <1>2, <1>3, <1>4, <1>5, <1>6, CalmSteps DEF CalmRun

LEMMA TradingStays ==
    ASSUME Trading, UNCHANGED <<orders, queue, results, got>>, Cycling => Cycling'
    PROVE  Trading'
<1>1. InHand' = InHand
  BY DEF InHand
<1>2. QED
  BY <1>1 DEF Trading

LEMMA TradingStep ==
    ASSUME CalmRun, ActsKept, Trading, [Next]_vars
    PROVE  Trading'
<1>0. "loop" \in Threads /\ "monitor" \in Threads
  BY DEF Threads
<1>1. CASE WorkerStop \/ MarketCloses \/ UNCHANGED vars \/ ReconcileBegin \/ ReconcileFetch
           \/ ReconcileEnd \/ \E s \in Symbols : ReconcileSymbol(s)
  <2>1. UNCHANGED <<pc, job>>
    BY <1>1 DEF WorkerStop, MarketCloses, vars, ReconcileBegin, ReconcileFetch, ReconcileEnd,
                ReconcileSymbol, threads
  <2>2. Cycling' <=> Cycling
    BY <2>1 DEF Cycling, CyclingAt
  <2>3. QED
    BY <1>1, <2>2, CalmItems, TradingStays DEF CalmQuiet
<1>2. CASE LoopTop \/ LoopFetch \/ LoopCycled
  <2>1. pc["loop"] \in {"top", "fetch", "cycled"}
    BY <1>2 DEF LoopTop, LoopFetch, LoopCycled, AtLoop
  <2>2. queue = << >> /\ results = << >> /\ InHand = {}
    BY <1>0, <2>1, Alone
  <2>3. UNCHANGED <<queue, results, got>>
    BY <1>2, CalmItems DEF CalmQuiet
  <2>4. queue' = << >> /\ InHand' = {}
    BY <2>2, <2>3 DEF InHand
  <2>5. QED
    BY <2>4 DEF Trading
<1>3. CASE LoopRecorded
  <2>1. pc'["loop"] = "cycled"
    BY <1>0, <1>3 DEF LoopRecorded, Goto, CalmRun, SlotInv
  <2>2. Cycling'
    BY <2>1 DEF Cycling, CyclingAt
  <2>3. QED
    BY <1>3, <2>2, CalmItems, TradingStays DEF CalmQuiet
<1>4. CASE MonitorStop \/ MonitorJoin
  <2>1. pc'["loop"] = pc["loop"] /\ job'["loop"] = job["loop"]
    BY <1>0, <1>4 DEF MonitorStop, MonitorJoin, BeginSquareOff, Goto, CalmRun, SlotInv
  <2>2. Cycling' <=> Cycling
    BY <2>1 DEF Cycling, CyclingAt
  <2>3. QED
    BY <1>4, <2>2, CalmItems, TradingStays DEF CalmQuiet
<1>5. ASSUME NEW t \in Threads, Join(t) \/ EodBegin(t) \/ EodFinish(t) \/ EodAfter(t)
      PROVE  Trading'
  <2>1. CASE t = "monitor"
    <3>1. pc'["loop"] = pc["loop"] /\ job' = job
      BY <1>0, <1>5, <2>1 DEF Join, EodBegin, EodFinish, EodAfter, Goto, CalmRun, SlotInv
    <3>2. Cycling' <=> Cycling
      BY <3>1 DEF Cycling, CyclingAt
    <3>3. QED
      BY <1>5, <3>2, CalmItems, TradingStays DEF CalmQuiet
  <2>2. CASE t = "loop"
    <3>1. CASE Join(t)
      <4>1. pc'["loop"] = "record" /\ job' = job /\ pc["loop"] = "collect"
        BY <1>0, <2>2, <3>1 DEF Join, CalmRun, SlotInv
      <4>2. Cycling => Cycling'
        BY <4>1 DEF Cycling, CyclingAt
      <4>3. QED
        BY <1>5, <4>2, CalmItems, TradingStays DEF CalmQuiet
    <3>2. CASE EodBegin(t) \/ EodFinish(t) \/ EodAfter(t)
      <4>1. ~Cycling
        BY <2>2, <3>2 DEF EodBegin, EodFinish, EodAfter, SquareOffs, Cycling, CyclingAt
      <4>2. QED
        BY <1>5, <4>1, CalmItems, TradingStays DEF CalmQuiet
    <3>3. QED
      BY <1>5, <3>1, <3>2
  <2>3. QED
    BY <2>1, <2>2 DEF Threads
<1>6. CASE Executor
  <2>1. PICK i \in DOMAIN queue : \E o : CalmTakes(i, o)
    BY <1>6, CalmExecutes
  <2>2. PICK o : CalmTakes(i, o)
    BY <2>1
  <2>3. UNCHANGED <<pc, job, got>>
    BY <1>6, CalmExecutes DEF threads
  <2>4. Cycling' <=> Cycling
    BY <2>3 DEF Cycling, CyclingAt
  <2>5. IsSeq(queue) /\ IsSeq(results) /\ orders \in Seq(Orders)
    BY DEF CalmRun, TypeInv, ItemTypes, IsSeq
  <2>6. \A k \in DOMAIN queue' : \E j \in DOMAIN queue : queue'[k] = queue[j]
    BY <2>2, <2>5, ElemsRemove DEF CalmTakes
  <2>7. InHand' = InHand \cup ({o.id} \ {0})
    BY <2>2, <2>3, <2>5, IdsAppend DEF CalmTakes, InHand
  <2>8. /\ \A k \in DOMAIN orders : orders'[k] = orders[k]
        /\ o.id # 0 => orders'[o.id].act = queue[i].act
    <3>1. CASE orders' = orders /\ o.id = 0
      BY <3>1
    <3>2. CASE orders' = Append(orders, Placed(queue[i], "filled")) /\ o.id = Len(orders) + 1
      <4> DEFINE p == Placed(queue[i], "filled")
      <4>1. p \in Orders /\ p.act = queue[i].act
        BY <2>2 DEF CalmTakes, Placed, Orders, Requests, Acts
      <4> HIDE DEF p
      <4>2. orders'[o.id] = p /\ \A k \in DOMAIN orders : orders'[k] = orders[k]
        BY <2>5, <3>2, <4>1, OrdersStay DEF p
      <4>3. QED
        BY <4>1, <4>2
    <3>3. QED
      BY <2>2, <3>1, <3>2 DEF CalmTakes
  <2>9. InHand \subseteq DOMAIN orders
    BY HandKnown
  <2>10. \A k \in InHand' : ~IsExit(orders'[k]) => Cycling
    BY <2>7, <2>8, <2>9 DEF Trading, IsExit
  <2>11. QED
    BY <2>4, <2>6, <2>10 DEF Trading
<1>7. ASSUME NEW t \in Threads, Collect(t) PROVE Trading'
  <2>1. UNCHANGED <<orders, queue, pc, job>> /\ InHand' = InHand
    BY <1>7, Collected DEF broker
  <2>2. Cycling' <=> Cycling
    BY <2>1 DEF Cycling, CyclingAt
  <2>3. QED
    BY <2>1, <2>2 DEF Trading
<1>8. CASE LoopRecord \/ \E t \in Threads : EodRecord(t)
  <2>1. PICK t \in Threads : EodRecord(t) \/ (t = "loop" /\ LoopRecord)
    BY <1>0, <1>8
  <2>2. UNCHANGED <<orders, queue, pc, job>> /\ InHand' \subseteq InHand
    BY <2>1, Recorded, RecordedActs DEF broker
  <2>3. Cycling' <=> Cycling
    BY <2>2 DEF Cycling, CyclingAt
  <2>4. QED
    BY <2>2, <2>3 DEF Trading
<1>9. CASE ReconcileOrder
  <2>1. UNCHANGED <<orders, queue, results, pc, job, got>>
    BY <1>9, CalmReconciles DEF broker, threads
  <2>2. Cycling' <=> Cycling
    BY <2>1 DEF Cycling, CyclingAt
  <2>3. QED
    BY <2>1, <2>2, TradingStays
<1>10. CASE LoopDecide
  <2>1. \/ pc'["loop"] = "cycled"
        \/ pc'["loop"] = "collect" /\ job'["loop"] = "cycle"
    BY <1>0, <1>10, DecideSubmits DEF CalmRun, TypeInv, SlotInv, Goto, Submit
  <2>2. Cycling'
    BY <2>1 DEF Cycling, CyclingAt
  <2>3. QED
    BY <2>2 DEF Trading
<1>11. ASSUME NEW t \in Threads, EodSubmit(t) PROVE Trading'
  <2>1. pc[t] = "plan"
    BY <1>11 DEF EodSubmit
  <2>2. InHand = {}
    BY <2>1, Alone
  <2>3. InHand' = {}
    BY <1>11, <2>2, SubmitsHand DEF InHand
  <2>4. PICK v \in BrokerViews : \A i \in DOMAIN queue' : queue'[i] \in EodPlan(v)
    BY <1>11, PlanQueued
  <2>5. \A r \in EodPlan(v) : IsExit(r)
    BY DEF EodPlan, IsExit, Request
  <2>6. QED
    BY <2>3, <2>4, <2>5 DEF Trading
<1>12. QED
  BY <1>1, <1>2, <1>3, <1>4, <1>5, <1>6, <1>7, <1>8, <1>9, <1>10, <1>11, CalmSteps
     DEF CalmRun, CalmQuiet

-----------------------------------------------------------------------------
\* No order is in two places.
OnePlaceEach ==
    /\ NoTwice(results) /\ \A t \in Threads : NoTwice(got[t])
    /\ \A s \in Symbols : NoTwice(pending[s])
    /\ \A t \in Threads : Ids(results) \cap Ids(got[t]) = {}
    /\ Ids(got["loop"]) \cap Ids(got["monitor"]) = {}
    /\ \A s \in Symbols : Ids(pending[s]) \cap InHand = {}

LEMMA PlacesStay ==
    ASSUME OnePlaceEach, UNCHANGED <<results, got, pending>>
    PROVE  OnePlaceEach'
  BY DEF OnePlaceEach, InHand

LEMMA OnePlaceStep ==
    ASSUME CalmRun, ActsKept, Trading, OnePlaceEach, [Next]_vars
    PROVE  OnePlaceEach'
<1>0. "loop" \in Threads /\ "monitor" \in Threads
  BY DEF Threads
<1>1. CASE CalmQuiet
  BY <1>1, CalmItems, PlacesStay
<1>2. CASE LoopDecide \/ \E t \in Threads : EodSubmit(t)
  BY <1>2, SubmitsHand, PlacesStay
<1>3. CASE Executor
  <2>1. PICK i \in DOMAIN queue : \E o : CalmTakes(i, o)
    BY <1>3, CalmExecutes
  <2>2. PICK o : CalmTakes(i, o)
    BY <2>1
  <2>3. UNCHANGED <<got, pending>>
    BY <1>3, CalmExecutes DEF threads
  <2>4. o.id = 0 \/ o.id \notin DOMAIN orders
    BY <2>2 DEF CalmTakes, CalmRun, TypeInv, ItemTypes
  <2>5. /\ IsSeq(results) /\ InHand \subseteq DOMAIN orders
        /\ \A s \in Symbols : Ids(pending[s]) \subseteq DOMAIN orders
    BY HandKnown
  <2>6. 0 \notin InHand /\ 0 \notin Ids(results) /\ \A s \in Symbols : 0 \notin Ids(pending[s])
    BY DEF InHand, Ids
  <2>7. o.id \notin InHand /\ \A s \in Symbols : o.id \notin Ids(pending[s])
    BY <2>4, <2>5, <2>6
  <2>8. /\ Ids(results') = Ids(results) \cup ({o.id} \ {0})
        /\ NoTwice(results) /\ o.id \notin Ids(results) => NoTwice(results')
    BY <2>2, <2>5, IdsAppend DEF CalmTakes
  <2>9. NoTwice(results')
    BY <2>7, <2>8 DEF OnePlaceEach, InHand
  <2>10. InHand' = InHand \cup ({o.id} \ {0})
    BY <2>3, <2>8 DEF InHand
  <2>11. \A t \in Threads : Ids(got[t]) \subseteq InHand
    BY DEF InHand, Threads
  <2>12. QED
    BY <2>3, <2>7, <2>8, <2>9, <2>10, <2>11 DEF OnePlaceEach
<1>4. ASSUME NEW t \in Threads, Collect(t) PROVE OnePlaceEach'
  <2> DEFINE h == Head(results)
  <2>1. /\ results # << >> /\ results' = Tail(results) /\ pending' = pending
        /\ got'[t] = Append(got[t], h)
        /\ \A u \in Threads : u # t => got'[u] = got[u]
        /\ InHand' = InHand
    BY <1>4, Collected
  <2>2. results \in Seq(Acting(orders)) /\ IsSeq(got[t])
    BY HandKnown DEF ActsKept
  <2>3. /\ Ids(results) = Ids(results') \cup ({h.id} \ {0})
        /\ NoTwice(results) => NoTwice(results') /\ h.id \notin Ids(results')
    BY <2>1, <2>2, IdsTail
  <2>4. /\ Ids(got'[t]) = Ids(got[t]) \cup ({h.id} \ {0})
        /\ NoTwice(got[t]) /\ h.id \notin Ids(got[t]) => NoTwice(got'[t])
    BY <2>1, <2>2, IdsAppend
  <2> HIDE DEF h
  <2>5. 0 \notin Ids(got[t])
    BY DEF Ids
  <2>6. h.id \notin Ids(got[t]) /\ h.id \notin Ids(results') /\ NoTwice(results')
    BY <2>3, <2>5 DEF OnePlaceEach
  <2>7. /\ NoTwice(got'[t])
        /\ \A u \in Threads : u # t => NoTwice(got'[u]) /\ Ids(got'[u]) = Ids(got[u])
    BY <2>1, <2>4, <2>6 DEF OnePlaceEach
  <2>8. \A u \in Threads : Ids(results') \cap Ids(got'[u]) = {}
    BY <2>3, <2>4, <2>6, <2>7 DEF OnePlaceEach
  <2>9. Ids(got'["loop"]) \cap Ids(got'["monitor"]) = {}
    BY <1>0, <2>3, <2>4, <2>7 DEF OnePlaceEach, Threads
  <2>10. QED
    BY <2>1, <2>6, <2>7, <2>8, <2>9 DEF OnePlaceEach
<1>5. CASE LoopRecord \/ \E t \in Threads : EodRecord(t)
  <2>1. PICK t \in Threads : EodRecord(t) \/ (t = "loop" /\ LoopRecord)
    BY <1>0, <1>5
  <2> DEFINE h == Head(got[t])
             k == h.id
  <2>2. /\ got'[t] = Tail(got[t]) /\ \A u \in Threads : u # t => got'[u] = got[u]
        /\ InHand = InHand' \cup ({k} \ {0})
        /\ \A s \in Symbols :
              Ids(pending'[s]) = IF k # 0 /\ s = h.req.sym THEN Ids(pending[s]) \cup {k}
                                 ELSE Ids(pending[s])
    BY <2>1, RecordedActs
  <2>3. /\ got[t] # << >> /\ results' = results
        /\ (k = 0 /\ pending' = pending) \/ \E o : Pends(h, o)
    BY <2>1, Recorded
  <2>4. got[t] \in Seq(Acting(orders)) /\ \A s \in Symbols : IsSeq(pending[s])
    BY HandKnown DEF ActsKept
  <2>5. /\ Ids(got[t]) = Ids(got'[t]) \cup ({k} \ {0})
        /\ NoTwice(got[t]) => NoTwice(got'[t]) /\ k \notin Ids(got'[t])
    BY <2>2, <2>3, <2>4, IdsTail
  <2>6. \E S : pending \in [Symbols -> S]
    BY DEF CalmRun, TypeInv, ItemTypes
  <2>7. \A s \in Symbols :
           \/ pending'[s] = pending[s]
           \/ \E o : pending'[s] = Append(pending[s], o) /\ o.id = k /\ k # 0
    BY <2>3, <2>6 DEF Pends, AddPending
  <2> HIDE DEF h, k
  <2>8. k # 0 => k \in InHand
    BY <2>2
  <2>9. \A s \in Symbols : k # 0 => k \notin Ids(pending[s])
    BY <2>8 DEF OnePlaceEach
  <2>10. \A s \in Symbols : NoTwice(pending'[s])
    <3> SUFFICES ASSUME NEW s \in Symbols PROVE NoTwice(pending'[s])
      OBVIOUS
    <3>1. NoTwice(pending[s]) /\ IsSeq(pending[s])
      BY <2>4 DEF OnePlaceEach
    <3>2. CASE pending'[s] = pending[s]
      BY <3>1, <3>2
    <3>3. ASSUME NEW o, pending'[s] = Append(pending[s], o), o.id = k, k # 0
          PROVE  NoTwice(pending'[s])
      <4>1. o.id \notin Ids(pending[s])
        BY <2>9, <3>3
      <4>2. QED
        BY <3>1, <3>3, <4>1, IdsAppend
    <3>4. QED
      BY <2>7, <3>2, <3>3
  <2>11. \A u \in Threads : Ids(got'[u]) \subseteq Ids(got[u]) /\ NoTwice(got'[u])
    BY <2>2, <2>5 DEF OnePlaceEach
  <2>12. k \notin InHand'
    <3>1. k \notin Ids(got'[t])
      BY <2>5 DEF OnePlaceEach
    <3>2. \A u \in Threads : u # t => (k # 0 => k \notin Ids(got'[u]))
      BY <1>0, <2>2, <2>5 DEF OnePlaceEach, Threads
    <3>3. k # 0 => k \notin Ids(results')
      BY <2>3, <2>5 DEF OnePlaceEach
    <3>4. 0 \notin InHand'
      BY DEF InHand, Ids
    <3>5. QED
      BY <1>0, <3>1, <3>2, <3>3, <3>4 DEF InHand, Threads
  <2>13. \A s \in Symbols : Ids(pending'[s]) \cap InHand' = {}
    BY <2>2, <2>12 DEF OnePlaceEach
  <2>14. /\ NoTwice(results') /\ \A u \in Threads : Ids(results') \cap Ids(got'[u]) = {}
         /\ Ids(got'["loop"]) \cap Ids(got'["monitor"]) = {}
    BY <1>0, <2>3, <2>11 DEF OnePlaceEach
  <2>15. QED
    BY <2>10, <2>11, <2>13, <2>14 DEF OnePlaceEach
<1>6. CASE ReconcileOrder
  <2>1. PICK s \in Symbols : \E c :
           /\ Looks(s, c) /\ c.id \in DOMAIN orders
           /\ pending' = pending \/ pending' = [pending EXCEPT ![s] = RemoveFirst(@, c)]
           /\ UNCHANGED <<results, threads>>
    BY <1>6, CalmReconciles
  <2>2. PICK c :
           /\ c.id \in DOMAIN orders
           /\ pending' = pending \/ pending' = [pending EXCEPT ![s] = RemoveFirst(@, c)]
           /\ UNCHANGED <<results, threads>>
    BY <2>1
  <2>3. UNCHANGED <<results, got>> /\ c.id # 0
    BY <2>2 DEF threads, CalmRun, TypeInv, ItemTypes
  <2>4. InHand' = InHand
    BY <2>3 DEF InHand
  <2>5. \E S : pending \in [Symbols -> S]
    BY DEF CalmRun, TypeInv, ItemTypes
  <2>6. \A z \in Symbols : pending'[z] = pending[z] \/ pending'[z] = RemoveFirst(pending[z], c)
    BY <2>2, <2>5
  <2>7. \A z \in Symbols : NoTwice(pending'[z]) /\ Ids(pending'[z]) \subseteq Ids(pending[z])
    <3> SUFFICES ASSUME NEW z \in Symbols
                 PROVE  NoTwice(pending'[z]) /\ Ids(pending'[z]) \subseteq Ids(pending[z])
      OBVIOUS
    <3>1. IsSeq(pending[z]) /\ NoTwice(pending[z])
      BY HandKnown DEF OnePlaceEach
    <3>2. CASE c \in Elems(pending[z])
      BY <2>3, <2>6, <3>1, <3>2, IdsRemove
    <3>3. CASE c \notin Elems(pending[z])
      BY <2>6, <3>1, <3>3, RemoveFirstSeq
    <3>4. QED
      BY <3>2, <3>3
  <2>8. QED
    BY <2>3, <2>4, <2>7 DEF OnePlaceEach
<1>7. QED
  BY <1>1, <1>2, <1>3, <1>4, <1>5, <1>6, CalmSteps DEF CalmRun

-----------------------------------------------------------------------------
(* What may be on its way                                                  *)

IsDeal(r) == r.side \in {Buy, Sell} /\ r.qty \in Nat \ {0}

\* What it buys or sells.
Move(r) == IF r.side = Buy THEN r.qty ELSE -r.qty

\* On the side of what is held, and on the other.
With(l, r) == (l >= 0 /\ r.side = Buy) \/ (l <= 0 /\ r.side = Sell)
Against(l, r) == (l > 0 /\ r.side = Sell) \/ (l < 0 /\ r.side = Buy)

\* What may be on its way for a symbol whose ledger holds l.
Fits(l, r) ==
    \/ r.act \in Opens /\ With(l, r)
    \/ r.act \in Flips /\ Against(l, r) /\ r.qty = 2 * Size(l)
    \/ r.act = "STOP_LOSS" /\ Against(l, r) /\ r.qty = Size(l)
    \/ IsExit(r) /\ Against(l, r) /\ r.qty <= Size(l)

\* What the broker holds, n, goes with the order.
Shows(n, r) ==
    /\ r.act \in Opens => (r.side = Buy /\ n >= r.qty) \/ (r.side = Sell /\ n <= -r.qty)
    /\ r.act = "STOP_LOSS" => n = 0
    /\ IsExit(r) => (r.side = Buy /\ n <= 0) \/ (r.side = Sell /\ n >= 0)

LEMMA MoveTyped ==
    ASSUME NEW r, IsDeal(r)
    PROVE  Move(r) \in Int /\ r.side * r.qty = Move(r)
<1>1. CASE r.side = 1
  BY <1>1 DEF IsDeal, Move, Buy, Sell
<1>2. CASE r.side = -1
  <2>1. r.qty \in Nat /\ Move(r) = -r.qty
    BY <1>2 DEF IsDeal, Move, Buy, Sell
  <2>2. (-1) * r.qty = -r.qty
    BY <2>1
  <2>3. QED
    BY <1>2, <2>1, <2>2
<1>3. QED
  BY <1>1, <1>2 DEF IsDeal, Buy, Sell

LEMMA Sizes ==
    ASSUME NEW n \in Int
    PROVE  /\ n > 0 => Sign(n) = 1 /\ Size(n) = n
           /\ n = 0 => Sign(n) = 0 /\ Size(n) = 0
           /\ n < 0 => Sign(n) = -1 /\ Size(n) = -n
  BY DEF Sign, Size

LEMMA ActsApart ==
    ASSUME NEW r
    PROVE  /\ r.act \in Opens => r.act \notin Flips /\ r.act # "STOP_LOSS" /\ ~IsExit(r)
           /\ r.act \in Flips => r.act # "STOP_LOSS" /\ ~IsExit(r)
           /\ r.act = "STOP_LOSS" => ~IsExit(r)
           /\ r.act \in Exits => r.act \notin Opens /\ r.act \notin Flips
  BY DEF Opens, Flips, IsExit, Exits

\* What fits still fits when an entry or an exit has been booked.
LEMMA FitsAfter ==
    ASSUME NEW l \in Int, NEW a, NEW b, IsDeal(a), IsDeal(b), Fits(l, a), Fits(l, b),
           (a.act \in Opens /\ IsExit(b)) \/ (IsExit(a) /\ b.act \in Opens)
    PROVE  Fits(l + Move(a), b)
<1> DEFINE q == a.qty
           u == b.qty
<1>1. a.side \in {1, -1} /\ b.side \in {1, -1} /\ q \in Nat /\ u \in Nat
  BY DEF IsDeal, Buy, Sell
<1>2. Move(a) = IF a.side = 1 THEN q ELSE -q
  BY DEF Move, Buy
<1>3. CASE a.act \in Opens /\ IsExit(b)
  <2>1. With(l, a) /\ Against(l, b) /\ u <= Size(l)
    BY <1>3, ActsApart DEF Fits
  <2>2. CASE l > 0
    <3>1. a.side = 1 /\ b.side = -1
      BY <2>1, <2>2 DEF With, Against, Buy, Sell
    <3>2. l + Move(a) = l + q /\ l + q \in Int /\ l + q > 0 /\ u <= l + q
      BY <1>1, <1>2, <2>1, <2>2, <3>1, Sizes
    <3>3. Against(l + q, b) /\ u <= Size(l + q)
      BY <3>1, <3>2, Sizes DEF Against, Sell
    <3>4. QED
      BY <1>3, <3>2, <3>3 DEF Fits
  <2>3. CASE l < 0
    <3>1. a.side = -1 /\ b.side = 1
      BY <2>1, <2>3 DEF With, Against, Buy, Sell
    <3>2. l + Move(a) = l - q /\ l - q \in Int /\ l - q < 0 /\ u <= -(l - q)
      BY <1>1, <1>2, <2>1, <2>3, <3>1, Sizes
    <3>3. Against(l - q, b) /\ u <= Size(l - q)
      BY <3>1, <3>2, Sizes DEF Against, Buy
    <3>4. QED
      BY <1>3, <3>2, <3>3 DEF Fits
  <2>4. QED
    BY <2>1, <2>2, <2>3 DEF Against
<1>4. CASE IsExit(a) /\ b.act \in Opens
  <2>1. Against(l, a) /\ With(l, b) /\ q <= Size(l)
    BY <1>4, ActsApart DEF Fits
  <2>2. CASE l > 0
    <3>1. a.side = -1 /\ b.side = 1
      BY <2>1, <2>2 DEF With, Against, Buy, Sell
    <3>2. l + Move(a) = l - q /\ l - q \in Int /\ l - q >= 0
      BY <1>1, <1>2, <2>1, <2>2, <3>1, Sizes
    <3>3. With(l - q, b)
      BY <3>1, <3>2 DEF With, Buy
    <3>4. QED
      BY <1>4, <3>2, <3>3 DEF Fits
  <2>3. CASE l < 0
    <3>1. a.side = 1 /\ b.side = -1
      BY <2>1, <2>3 DEF With, Against, Buy, Sell
    <3>2. l + Move(a) = l + q /\ l + q \in Int /\ l + q <= 0
      BY <1>1, <1>2, <2>1, <2>3, <3>1, Sizes
    <3>3. With(l + q, b)
      BY <3>1, <3>2 DEF With, Sell
    <3>4. QED
      BY <1>4, <3>2, <3>3 DEF Fits
  <2>4. QED
    BY <2>1, <2>2, <2>3 DEF Against
<1>5. QED
  BY <1>3, <1>4

\* An order that has filled shows.
LEMMA ShowsOne ==
    ASSUME NEW l \in Int, NEW a, IsDeal(a), Fits(l, a)
    PROVE  Shows(l + Move(a), a)
<1> DEFINE q == a.qty
<1>1. a.side \in {1, -1} /\ q \in Nat
  BY DEF IsDeal, Buy, Sell
<1>2. Move(a) = IF a.side = 1 THEN q ELSE -q
  BY DEF Move, Buy
<1>3. ASSUME a.act \in Opens
      PROVE  (a.side = Buy /\ l + Move(a) >= a.qty) \/ (a.side = Sell /\ l + Move(a) <= -a.qty)
  <2>1. With(l, a)
    BY <1>3, ActsApart DEF Fits
  <2>2. QED
    BY <1>1, <1>2, <2>1 DEF With, Buy, Sell
<1>4. ASSUME a.act = "STOP_LOSS" PROVE l + Move(a) = 0
  <2>1. Against(l, a) /\ q = Size(l)
    BY <1>4, ActsApart DEF Fits
  <2>2. QED
    BY <1>1, <1>2, <2>1, Sizes DEF Against, Buy, Sell
<1>5. ASSUME IsExit(a)
      PROVE  (a.side = Buy /\ l + Move(a) <= 0) \/ (a.side = Sell /\ l + Move(a) >= 0)
  <2>1. Against(l, a) /\ q <= Size(l)
    BY <1>5, ActsApart DEF Fits
  <2>2. QED
    BY <1>1, <1>2, <2>1, Sizes DEF Against, Buy, Sell
<1>6. QED
  BY <1>3, <1>4, <1>5 DEF Shows

\* An entry and an exit that have both filled show.
LEMMA ShowsBoth ==
    ASSUME NEW l \in Int, NEW a, NEW b, IsDeal(a), IsDeal(b), Fits(l, a), Fits(l, b),
           a.act \in Opens, IsExit(b)
    PROVE  Shows(l + Move(a) + Move(b), a) /\ Shows(l + Move(a) + Move(b), b)
<1> DEFINE n == l + Move(a) + Move(b)
           q == a.qty
           u == b.qty
<1>1. a.side \in {1, -1} /\ b.side \in {1, -1} /\ q \in Nat /\ u \in Nat
  BY DEF IsDeal, Buy, Sell
<1>2. /\ Move(a) = (IF a.side = 1 THEN q ELSE -q)
      /\ Move(b) = (IF b.side = 1 THEN u ELSE -u)
  BY DEF Move, Buy
<1>3. With(l, a) /\ Against(l, b) /\ u <= Size(l)
  BY ActsApart DEF Fits
<1>4. \/ a.side = 1 /\ b.side = -1 /\ n >= q
      \/ a.side = -1 /\ b.side = 1 /\ n <= -q
  <2>1. CASE l > 0
    <3>1. a.side = 1 /\ b.side = -1
      BY <1>3, <2>1 DEF With, Against, Buy, Sell
    <3>2. u <= l
      BY <1>3, <2>1, Sizes
    <3>3. QED
      BY <1>1, <1>2, <2>1, <3>1, <3>2
  <2>2. CASE l < 0
    <3>1. a.side = -1 /\ b.side = 1
      BY <1>3, <2>2 DEF With, Against, Buy, Sell
    <3>2. u <= -l
      BY <1>3, <2>2, Sizes
    <3>3. QED
      BY <1>1, <1>2, <2>2, <3>1, <3>2
  <2>3. QED
    BY <1>3, <2>1, <2>2 DEF Against
<1>5. n \in Int
  BY <1>1, <1>2
<1>6. Shows(n, a)
  BY <1>4, ActsApart DEF Shows, Buy, Sell
<1>7. Shows(n, b)
  <2>1. (b.side = Buy /\ n <= 0) \/ (b.side = Sell /\ n >= 0)
    BY <1>1, <1>4, <1>5 DEF Buy, Sell
  <2>2. QED
    BY <2>1, ActsApart DEF Shows
<1>8. QED
  BY <1>6, <1>7

\* What shows an entry lets the exit wait for its own fill.
LEMMA ShowsExit ==
    ASSUME NEW l \in Int, NEW n \in Int, NEW a, NEW b, IsDeal(a), IsDeal(b), Fits(l, a),
           Fits(l, b), a.act \in Opens, IsExit(b), Shows(n, a)
    PROVE  Shows(n, b)
<1>1. With(l, a) /\ Against(l, b)
  BY ActsApart DEF Fits
<1>2. (a.side = 1 /\ b.side = -1) \/ (a.side = -1 /\ b.side = 1)
  BY <1>1 DEF With, Against, Buy, Sell
<1>3. (a.side = 1 /\ n >= a.qty) \/ (a.side = -1 /\ n <= -a.qty)
  BY DEF Shows, Buy, Sell
<1>4. a.qty \in Nat
  BY DEF IsDeal
<1>5. (b.side = Buy /\ n <= 0) \/ (b.side = Sell /\ n >= 0)
  BY <1>2, <1>3, <1>4 DEF Buy, Sell
<1>6. QED
  BY <1>5, ActsApart DEF Shows

\* An exit that fits is less than what is held, also with an entry on its way.
LEMMA ExitReduces ==
    ASSUME NEW l \in Int, NEW b, IsDeal(b), Fits(l, b), b.act \in Exits
    PROVE  /\ Sign(l) = -b.side /\ b.qty <= Size(l)
           /\ b.act = "STOP_LOSS" \/ IsExit(b)
           /\ \A a : IsDeal(a) /\ Fits(l, a) /\ a.act \in Opens =>
                 Sign(l + Move(a)) = -b.side /\ b.qty <= Size(l + Move(a))
<1> DEFINE u == b.qty
<1>1. Against(l, b) /\ u <= Size(l) /\ (b.act = "STOP_LOSS" \/ IsExit(b)) /\ u \in Nat
  <2>1. Size(l) \in Nat
    BY Signs
  <2>2. QED
    BY <2>1, ActsApart DEF Fits, IsDeal
<1>2. \/ l > 0 /\ b.side = -1 /\ u <= l
      \/ l < 0 /\ b.side = 1 /\ u <= -l
  BY <1>1, Sizes DEF Against, Buy, Sell
<1>3. \A n \in Int : \/ n > 0 /\ b.side = -1 /\ u <= n
                     \/ n < 0 /\ b.side = 1 /\ u <= -n
                     => Sign(n) = -b.side /\ u <= Size(n)
  <2> SUFFICES ASSUME NEW n \in Int, \/ n > 0 /\ b.side = -1 /\ u <= n
                                     \/ n < 0 /\ b.side = 1 /\ u <= -n
               PROVE  Sign(n) = -b.side /\ u <= Size(n)
    OBVIOUS
  <2>1. CASE n > 0 /\ b.side = -1 /\ u <= n
    <3>1. \A x \in Int : x + 1 = 0 => -x = 1
      OBVIOUS
    <3>2. b.side \in Int /\ b.side + 1 = 0
      BY <2>1
    <3>3. -b.side = 1
      BY <3>1, <3>2
    <3>4. QED
      BY <2>1, <3>3, Sizes
  <2>2. CASE n < 0 /\ b.side = 1 /\ u <= -n
    BY <2>2, Sizes
  <2>3. QED
    BY <2>1, <2>2
<1>4. ASSUME NEW a, IsDeal(a), Fits(l, a), a.act \in Opens
      PROVE  Sign(l + Move(a)) = -b.side /\ b.qty <= Size(l + Move(a))
  <2>1. With(l, a)
    BY <1>4, ActsApart DEF Fits
  <2>2. a.qty \in Nat /\ Move(a) = IF a.side = 1 THEN a.qty ELSE -a.qty
    BY <1>4 DEF Move, Buy, IsDeal
  <2> DEFINE n == l + Move(a)
  <2>3. n \in Int
    BY <2>2
  <2>4. \/ n > 0 /\ b.side = -1 /\ u <= n
        \/ n < 0 /\ b.side = 1 /\ u <= -n
    BY <1>1, <1>2, <2>1, <2>2 DEF With, Buy, Sell
  <2> HIDE DEF n
  <2>5. Sign(n) = -b.side /\ u <= Size(n)
    BY <1>3, <2>3, <2>4
  <2>6. QED
    BY <2>5 DEF n
<1>5. Sign(l) = -b.side /\ u <= Size(l)
  BY <1>2, <1>3
<1>6. QED
  BY <1>1, <1>4, <1>5

-----------------------------------------------------------------------------
(* The books                                                               *)

\* The orders of s that the books do not show yet.
Flying(s) == (InHand \cup Ids(pending[s])) \cap Filled(s)

\* The loop decides with what the engine has just now.
FreshView == pc["loop"] = "decide" => \A s \in Symbols : view[s] = Engine(s)

\* At most one trade and one exit are on their way for s, the exit only after an entry
\* that has filled; each fits the ledger.
InAir(l, ord, F) ==
    /\ \A i, j \in F : (IsExit(ord[i]) <=> IsExit(ord[j])) => i = j
    /\ \A i, j \in F : IsExit(ord[i]) /\ ~IsExit(ord[j]) => ord[j].act \in Opens
    /\ \A i \in F : Fits(l, ord[i])

InQueue(s, l, ord, F, q) ==
    /\ \A i, j \in DOMAIN q : q[i].sym = s /\ q[j].sym = s => i = j
    /\ \A i \in DOMAIN q : q[i].sym = s =>
          /\ Fits(l, q[i])
          /\ ~IsExit(q[i]) => F = {}
          /\ \A j \in F : ord[j].act \in Opens

\* The ledger knows what is not on its way, and the positions are the ledger's.
Booked(s) ==
    /\ positions[s] = ledger[s]
    /\ ledger[s] = SumOver(Bought, Filled(s) \ Flying(s))

\* Exits are on their way only while the square-off runs and after its plan.
ExitsIn(s) ==
    (\E i \in Flying(s) : IsExit(orders[i])) => slot = "busy" /\ \A t \in Threads : pc[t] # "plan"
ExitsQueued == \A i \in DOMAIN queue : IsExit(queue[i]) => slot = "busy"

Book(s) ==
    /\ Booked(s)
    /\ InAir(ledger[s], orders, Flying(s))
    /\ InQueue(s, ledger[s], orders, Flying(s), queue)
    /\ ExitsIn(s)
Books == slot # "done" => \A s \in Symbols : Book(s)

LEMMA OrdersKnown ==
    ASSUME CalmRun
    PROVE  /\ \A i \in DOMAIN orders : /\ IsDeal(orders[i]) /\ orders[i].act \in Acts
                                       /\ Bought[i] = Move(orders[i]) /\ Bought[i] \in Int
           /\ \A s : /\ IsFiniteSet(Filled(s)) /\ Filled(s) \subseteq DOMAIN orders
                     /\ Filled(s) = {i \in DOMAIN orders : orders[i].sym = s}
           /\ \A i \in DOMAIN queue : IsDeal(queue[i]) /\ queue[i].act \in Acts
<1>1. orders \in Seq(Orders) /\ queue \in Seq(Requests)
  BY DEF CalmRun, TypeInv, ItemTypes
<1>2. ASSUME NEW i \in DOMAIN orders
      PROVE  /\ IsDeal(orders[i]) /\ orders[i].act \in Acts
             /\ Bought[i] = Move(orders[i]) /\ Bought[i] \in Int
  <2>1. orders[i] \in Orders
    BY <1>1
  <2>2. IsDeal(orders[i]) /\ orders[i].act \in Acts
    BY <2>1 DEF Orders, IsDeal
  <2>3. Bought[i] = orders[i].side * orders[i].qty
    BY DEF Bought
  <2>4. QED
    BY <2>2, <2>3, MoveTyped
<1>3. ASSUME NEW s
      PROVE  /\ IsFiniteSet(Filled(s)) /\ Filled(s) \subseteq DOMAIN orders
             /\ Filled(s) = {i \in DOMAIN orders : orders[i].sym = s}
  <2>1. Filled(s) = {i \in DOMAIN orders : orders[i].sym = s}
    BY DEF Filled, CalmRun, FillsOnly
  <2>2. IsFiniteSet(1 .. Len(orders)) /\ DOMAIN orders = 1 .. Len(orders)
    BY <1>1, FS_Interval
  <2>3. QED
    BY <2>1, <2>2, FS_Subset
<1>4. ASSUME NEW i \in DOMAIN queue PROVE IsDeal(queue[i]) /\ queue[i].act \in Acts
  <2>1. queue[i] \in Requests
    BY <1>1
  <2>2. QED
    BY <2>1 DEF Requests, IsDeal, Acts
<1>5. QED
  BY <1>2, <1>3, <1>4

LEMMA FlyingSame ==
    ASSUME UNCHANGED <<orders, pending>>, InHand' = InHand, NEW s
    PROVE  Flying(s)' = Flying(s) /\ Filled(s)' = Filled(s) /\ Bought' = Bought
           /\ Engine(s)' = Engine(s)
<1>1. Filled(s)' = Filled(s) /\ Bought' = Bought
  BY DEF Filled, Bought
<1>2. Flying(s)' = Flying(s)
  BY <1>1 DEF Flying
<1>3. QED
  BY <1>1, <1>2 DEF Engine

\* Steps that leave the orders of s and its books alone.
LEMMA BookStays ==
    ASSUME NEW s \in Symbols, Book(s), UNCHANGED <<orders, queue>>,
           positions'[s] = positions[s], ledger'[s] = ledger[s],
           Flying(s)' = Flying(s),
           \/ slot # "busy" \/ \E t \in Threads : pc[t] = "plan"
           \/ slot' = slot /\ \A t \in Threads : pc'[t] = "plan" => pc[t] = "plan"
    PROVE  Book(s)'
<1>1. Filled(s)' = Filled(s) /\ Bought' = Bought
  BY DEF Filled, Bought
<1>2. Booked(s)'
  BY <1>1 DEF Book, Booked
<1>3. InAir(ledger[s], orders, Flying(s))' /\ InQueue(s, ledger[s], orders, Flying(s), queue)'
  BY DEF Book, InAir, InQueue
<1>4. ExitsIn(s)'
  BY DEF Book, ExitsIn
<1>5. QED
  BY <1>2, <1>3, <1>4 DEF Book

\* The engine's position is the ledger's and what is on its way.
LEMMA EngineParts ==
    ASSUME CalmRun, NEW s \in Symbols, Booked(s)
    PROVE  /\ Engine(s) = ledger[s] + SumOver(Bought, Flying(s))
           /\ ledger[s] \in Int
           /\ Flying(s) = {} => Engine(s) = ledger[s]
           /\ \A k \in DOMAIN orders : Flying(s) = {k} => Engine(s) = ledger[s] + Move(orders[k])
           /\ \A k, j \in DOMAIN orders : k # j /\ Flying(s) = {k, j} =>
                 Engine(s) = ledger[s] + Move(orders[k]) + Move(orders[j])
<1> DEFINE F == Flying(s)
<1>1. /\ IsFiniteSet(Filled(s)) /\ F \subseteq Filled(s) /\ Filled(s) \subseteq DOMAIN orders
      /\ \A i \in DOMAIN orders : Bought[i] \in Int /\ Bought[i] = Move(orders[i])
  BY OrdersKnown DEF Flying
<1>2. ledger[s] \in Int /\ ledger[s] = SumOver(Bought, Filled(s) \ F)
  BY DEF CalmRun, TypeInv, BookTypes, Booked
<1> HIDE DEF F
<1>3. Engine(s) = SumOver(Bought, F) + SumOver(Bought, Filled(s) \ F)
  BY <1>1, SumSplit DEF Engine
<1>4. IsFiniteSet(F) /\ SumOver(Bought, F) \in Int
  <2>1. IsFiniteSet(F)
    BY <1>1, FS_Subset
  <2>2. QED
    BY <1>1, <2>1, SumTyped
<1>5. Engine(s) = ledger[s] + SumOver(Bought, F)
  BY <1>2, <1>3, <1>4
<1>6. F = {} => Engine(s) = ledger[s]
  BY <1>2, <1>5, SumEmpty
<1>7. ASSUME NEW k \in DOMAIN orders PROVE SumOver(Bought, {k}) = Bought[k]
  <2>1. SumOver(Bought, {k}) = Bought[k] + SumOver(Bought, {k} \ {k})
    BY <1>1, SumInsert, FS_Singleton
  <2>2. {k} \ {k} = {}
    OBVIOUS
  <2>3. QED
    BY <1>1, <2>1, <2>2, SumEmpty
<1>8. ASSUME NEW k \in DOMAIN orders, NEW j \in DOMAIN orders, k # j, F = {k, j}
      PROVE  SumOver(Bought, F) = Bought[k] + Bought[j]
  <2>1. SumOver(Bought, F) = Bought[k] + SumOver(Bought, F \ {k})
    BY <1>1, <1>4, <1>8, SumInsert
  <2>2. F \ {k} = {j}
    BY <1>8
  <2>3. QED
    BY <1>7, <2>1, <2>2
<1>9. \A k \in DOMAIN orders : F = {k} => Engine(s) = ledger[s] + Move(orders[k])
  BY <1>1, <1>5, <1>7
<1>10. ASSUME NEW k \in DOMAIN orders, NEW j \in DOMAIN orders, k # j, F = {k, j}
       PROVE  Engine(s) = ledger[s] + Move(orders[k]) + Move(orders[j])
  <2>1. Bought[k] \in Int /\ Bought[j] \in Int /\ Bought[k] = Move(orders[k])
        /\ Bought[j] = Move(orders[j])
    BY <1>1
  <2>2. Engine(s) = ledger[s] + (Bought[k] + Bought[j])
    BY <1>5, <1>8, <1>10
  <2>3. QED
    BY <1>2, <2>1, <2>2
<1>11. QED
  BY <1>2, <1>5, <1>6, <1>9, <1>10 DEF F

\* An order that is placed goes from the queue into the air.
LEMMA ExecuteBook ==
    ASSUME CalmRun, ActsKept, ExitsQueued, NEW s \in Symbols, Book(s), Executor
    PROVE  Book(s)'
<1>1. PICK i \in DOMAIN queue : \E o : CalmTakes(i, o)
  BY CalmExecutes
<1>2. PICK o : CalmTakes(i, o)
  BY <1>1
<1> DEFINE r == queue[i]
           n == Len(orders) + 1
           F == Flying(s)
           l == ledger[s]
<1>3. UNCHANGED <<pending, positions, ledger, slot, pc, got>>
  BY CalmExecutes DEF books, threads
<1>4. /\ IsSeq(queue) /\ IsSeq(results) /\ orders \in Seq(Orders)
      /\ InHand \subseteq DOMAIN orders /\ Ids(pending[s]) \subseteq DOMAIN orders
  BY HandKnown DEF CalmRun, TypeInv, ItemTypes, IsSeq
<1>5. queue' = RemoveAt(queue, i) /\ results' = Append(results, o)
  BY <1>2 DEF CalmTakes
\* What stays in the queue was there.
<1>6. /\ \A k \in DOMAIN queue' : \E j \in DOMAIN queue : j # i /\ queue'[k] = queue[j]
      /\ \A k, m \in DOMAIN queue' : queue'[k].sym = s /\ queue'[m].sym = s => k = m
  <2>1. /\ DOMAIN queue' = 1 .. Len(queue) - 1 /\ DOMAIN queue = 1 .. Len(queue)
        /\ \A k \in 1 .. Len(queue) - 1 : queue'[k] = IF k < i THEN queue[k] ELSE queue[k + 1]
        /\ Len(queue) \in Nat
    BY <1>4, <1>5, RemoveSeq, SeqDomain
  <2> DEFINE f(k) == IF k < i THEN k ELSE k + 1
  <2>2. \A k \in DOMAIN queue' : f(k) \in DOMAIN queue /\ f(k) # i /\ queue'[k] = queue[f(k)]
    BY <2>1
  <2>3. \A k, m \in DOMAIN queue' : f(k) = f(m) => k = m
    BY <2>1
  <2> HIDE DEF f
  <2>4. \A k, m \in DOMAIN queue' : queue'[k].sym = s /\ queue'[m].sym = s => f(k) = f(m)
    BY <2>2 DEF Book, InQueue
  <2>5. QED
    BY <2>2, <2>3, <2>4
<1>7. InHand' = InHand \cup ({o.id} \ {0})
  BY <1>3, <1>4, <1>5, IdsAppend DEF InHand
<1>8. CASE orders' = orders /\ o.id = 0
  <2>1. InHand' = InHand
    BY <1>7, <1>8
  <2>2. Flying(s)' = F /\ Filled(s)' = Filled(s) /\ Bought' = Bought
    BY <1>3, <1>8, <2>1, FlyingSame
  <2>3. InQueue(s, l, orders, F, queue)'
    BY <1>3, <1>6, <1>8, <2>2 DEF Book, InQueue
  <2>4. Booked(s)' /\ InAir(l, orders, F)' /\ ExitsIn(s)'
    <3>1. Booked(s)'
      BY <1>3, <2>2 DEF Book, Booked
    <3>2. InAir(l, orders, F)'
      BY <1>3, <1>8, <2>2 DEF Book, InAir
    <3>3. ExitsIn(s)'
      BY <1>3, <1>8, <2>2 DEF Book, ExitsIn
    <3>4. QED
      BY <3>1, <3>2, <3>3
  <2>5. QED
    BY <2>3, <2>4 DEF Book
<1>9. CASE orders' = Append(orders, Placed(r, "filled")) /\ o.id = n
  <2> DEFINE p == Placed(r, "filled")
             X == IF r.sym = s THEN {n} ELSE {}
  <2>1. p \in Orders /\ p.sym = r.sym /\ p.side = r.side /\ p.qty = r.qty /\ p.act = r.act
        /\ p.state = "filled"
    BY <1>2 DEF CalmTakes, Placed, Orders, Requests, Acts
  <2> HIDE DEF p
  <2>2. /\ DOMAIN orders' = DOMAIN orders \cup {n} /\ n \notin DOMAIN orders
        /\ \A k \in DOMAIN orders : orders'[k] = orders[k]
        /\ orders'[n] = p /\ n # 0
    <3>1. orders' = Append(orders, p)
      BY <1>9 DEF p
    <3>2. /\ DOMAIN orders' = DOMAIN orders \cup {n} /\ n \notin DOMAIN orders
          /\ \A k \in DOMAIN orders : orders'[k] = orders[k]
          /\ orders'[n] = p /\ Len(orders) \in Nat
      BY <1>4, <2>1, <3>1, OrdersStay
    <3>3. QED
      BY <3>2
  <2> HIDE DEF n
  <2>3. Filled(s)' = Filled(s) \cup X
    BY <2>1, <2>2 DEF Filled
  <2>4. InHand' = InHand \cup {n}
    BY <1>7, <1>9, <2>2
  <2>5. Filled(s) \subseteq DOMAIN orders /\ IsFiniteSet(Filled(s))
        /\ \A k \in DOMAIN orders : Bought[k] \in Int
    BY OrdersKnown
  <2>6. Flying(s)' = F \cup X
    BY <1>3, <1>4, <2>2, <2>3, <2>4, <2>5 DEF Flying
  <2>7. F \subseteq DOMAIN orders
    BY <2>5 DEF Flying
  <2> HIDE DEF F
  <2>8. Filled(s)' \ Flying(s)' = Filled(s) \ F
    BY <2>2, <2>3, <2>5, <2>6
  <2>9. Booked(s)'
    <3> DEFINE S == Filled(s) \ F
    <3>1. IsFiniteSet(S) /\ S \subseteq DOMAIN orders
      BY <2>5, FS_Subset
    <3>2. \A k \in S : Bought[k] \in Int /\ Bought'[k] = Bought[k]
      BY <2>2, <2>5, <3>1 DEF Bought
    <3> HIDE DEF S
    <3>3. SumOver(Bought', S) = SumOver(Bought, S)
      BY <3>1, <3>2, SumAgrees
    <3>4. QED
      BY <1>3, <2>8, <3>3 DEF Book, Booked, S, F
  <2>10. \A k \in F : orders'[k] = orders[k]
    BY <2>2, <2>7
  <2>11. CASE r.sym # s
    <3>1. Flying(s)' = F
      BY <2>6, <2>11
    <3>2. InAir(l, orders, Flying(s))' /\ ExitsIn(s)'
      <4>1. InAir(l, orders, Flying(s))'
        BY <1>3, <2>10, <3>1 DEF Book, InAir, F
      <4>2. ExitsIn(s)'
        BY <1>3, <2>10, <3>1 DEF Book, ExitsIn, F
      <4>3. QED
        BY <4>1, <4>2
    <3>3. InQueue(s, l, orders, Flying(s), queue)'
      BY <1>3, <1>6, <2>10, <3>1 DEF Book, InQueue, F
    <3>4. QED
      BY <2>9, <3>2, <3>3 DEF Book, F
  <2>12. CASE r.sym = s
    <3>1. Flying(s)' = F \cup {n} /\ n \notin F
      BY <2>2, <2>6, <2>7, <2>12
    <3>2. /\ Fits(l, r)
          /\ ~IsExit(r) => F = {}
          /\ \A j \in F : orders[j].act \in Opens
      BY <2>12 DEF Book, InQueue, F
    <3>3. Fits(l, p) /\ (IsExit(p) <=> IsExit(r))
      BY <2>1, <3>2 DEF Fits, IsExit, With, Against
    <3>4. \A j \in F : ~IsExit(orders[j])
      BY <3>2, ActsApart
    <3>5. \A j, k \in F : j = k
      BY <3>4 DEF Book, InAir, F
    <3>6. InAir(l, orders', F \cup {n})
      <4>1. \A j \in F : Fits(l, orders[j])
        BY DEF Book, InAir, F
      <4>2. \A j, k \in F \cup {n} : (IsExit(orders'[j]) <=> IsExit(orders'[k])) => j = k
        BY <2>2, <2>10, <3>2, <3>3, <3>4, <3>5
      <4>3. \A j, k \in F \cup {n} : IsExit(orders'[j]) /\ ~IsExit(orders'[k])
                                     => orders'[k].act \in Opens
        BY <2>2, <2>10, <3>2, <3>4
      <4>4. \A j \in F \cup {n} : Fits(l, orders'[j])
        BY <2>2, <2>10, <3>3, <4>1
      <4>5. QED
        BY <4>2, <4>3, <4>4 DEF InAir
    <3>7. InAir(l, orders, Flying(s))'
      BY <1>3, <3>1, <3>6
    <3>8. \A k \in DOMAIN queue' : queue'[k].sym # s
      BY <1>6, <2>12 DEF Book, InQueue
    <3>9. InQueue(s, l, orders, Flying(s), queue)'
      BY <3>8 DEF InQueue
    <3>10. ExitsIn(s)'
      <4>1. ASSUME IsExit(r) PROVE slot = "busy" /\ \A t \in Threads : pc[t] # "plan"
        <5>1. slot = "busy"
          BY <4>1 DEF ExitsQueued
        <5>2. queue # << >>
          OBVIOUS
        <5>3. \A t \in Threads : pc[t] # "plan"
          BY <5>2, Alone
        <5>4. QED
          BY <5>1, <5>3
      <4>2. (\E j \in F \cup {n} : IsExit(orders'[j])) => IsExit(r)
        BY <2>2, <2>10, <3>3, <3>4
      <4>3. QED
        BY <1>3, <3>1, <4>1, <4>2 DEF ExitsIn
    <3>11. QED
      BY <2>9, <3>7, <3>9, <3>10 DEF Book
  <2>13. QED
    BY <2>11, <2>12
<1>10. QED
  BY <1>2, <1>8, <1>9 DEF CalmTakes

LEMMA Opposite == -Buy = Sell /\ -Sell = Buy
<1>1. \A x \in Int : x + 1 = 0 => -x = 1
  OBVIOUS
<1>2. Sell \in Int /\ Sell + 1 = 0
  BY DEF Sell
<1>3. -Sell = 1
  BY <1>1, <1>2
<1>4. QED
  BY <1>3 DEF Buy, Sell

\* With nothing on its way the loop decides on what fits the ledger.
LEMMA ScenarioFits ==
    ASSUME BookTypes, NEW s \in Symbols, NEW sig, view[s] = ledger[s],
           NEW r \in Scenario(s, sig)
    PROVE  /\ pending[s] = << >> /\ r.sym = s /\ ~IsExit(r) /\ Fits(ledger[s], r)
           /\ \A x \in Scenario(s, sig) : x = r
<1> DEFINE l == ledger[s]
           q == Size(l)
<1>1. l \in Int /\ q \in Nat /\ view[s] = l
  BY Signs DEF BookTypes
<1>2. l # 0 => ExitQty(s, view[s]) = q
  BY <1>1 DEF ExitQty, Least
<1>3. pending[s] = << >>
  BY DEF Scenario
<1>4. l > 0 => Sign(l) = Buy /\ -Sign(l) = Sell
  BY <1>1, Sizes, Opposite DEF Buy
<1>5. l < 0 => Sign(l) = Sell /\ -Sign(l) = Buy
  BY <1>1, Sizes, Opposite DEF Sell
<1>6. l = 0 => Sign(l) = 0
  BY <1>1, Sizes
<1> DEFINE Good(x) == x.sym = s /\ ~IsExit(x) /\ Fits(l, x)
<1>7. CASE sig = "STOP"
  <2>1. l # 0 /\ r \in StopLoss(s) /\ Scenario(s, sig) \subseteq StopLoss(s)
    BY <1>1, <1>7 DEF Scenario
  <2> DEFINE y == Request(s, -Sign(l), q, "STOP_LOSS", Sign(l))
  <2>2. StopLoss(s) \subseteq {y}
    BY <1>1, <1>2, <2>1 DEF StopLoss
  <2>3. y.sym = s /\ y.side = -Sign(l) /\ y.qty = q /\ y.act = "STOP_LOSS"
    BY DEF Request
  <2> HIDE DEF y
  <2>4. Against(l, y)
    BY <1>1, <1>4, <1>5, <2>1, <2>3 DEF Against
  <2>5. Good(y)
    BY <2>3, <2>4 DEF Fits, IsExit
  <2>6. QED
    BY <1>3, <2>1, <2>2, <2>5
<1>8. CASE sig # "STOP"
  <2> DEFINE d == IF sig = "BUY" THEN Buy ELSE Sell
  <2>1. Scenario(s, sig) = CASE view[s] = 0 -> Open(s, d)
                             [] Sign(view[s]) = -d -> Flip(s, d)
                             [] OTHER -> Expand(s, d)
    BY <1>8 DEF Scenario
  <2>2. d \in {Buy, Sell}
    OBVIOUS
  <2>3. (d = Buy /\ -d = Sell) \/ (d = Sell /\ -d = Buy)
    BY Opposite
  <2> HIDE DEF d
  <2>4. CASE l = 0
    <3>1. Sign(l) # -d
      BY <1>6, <2>3, <2>4 DEF Buy, Sell
    <3>2. Scenario(s, sig) = Open(s, d)
      BY <1>1, <2>1, <2>4, <3>1
    <3> DEFINE y == Request(s, d, Lot, IF d = Buy THEN "OPEN_LONG" ELSE "OPEN_SHORT", 0)
    <3>3. Open(s, d) \subseteq {y}
      BY DEF Open
    <3>4. y.sym = s /\ y.side = d /\ y.act \in Opens
      BY DEF Request, Opens
    <3> HIDE DEF y
    <3>5. Good(y)
      BY <2>2, <2>4, <3>4, ActsApart DEF Fits, With
    <3>6. QED
      BY <1>3, <3>2, <3>3, <3>5
  <2>5. CASE l # 0 /\ Sign(l) = -d
    <3>1. Scenario(s, sig) = Flip(s, d)
      BY <1>1, <2>1, <2>5
    <3> DEFINE y == Request(s, d, 2 * q, IF d = Buy THEN "FLIP_TO_LONG" ELSE "FLIP_TO_SHORT", 0)
    <3>2. Flip(s, d) = {y}
      BY <1>2, <2>5 DEF Flip
    <3>3. y.sym = s /\ y.side = d /\ y.act \in Flips /\ y.qty = 2 * q
      BY DEF Request, Flips
    <3> HIDE DEF y
    <3>4. Against(l, y)
      BY <1>1, <1>4, <1>5, <2>3, <2>5, <3>3 DEF Against, Buy, Sell
    <3>5. Good(y)
      BY <3>3, <3>4, ActsApart DEF Fits
    <3>6. QED
      BY <1>3, <3>1, <3>2, <3>5
  <2>6. CASE l # 0 /\ Sign(l) # -d
    <3>1. Scenario(s, sig) = Expand(s, d)
      BY <1>1, <2>1, <2>6
    <3> DEFINE y == Request(s, d, Lot, IF d = Buy THEN "EXPAND_LONG" ELSE "EXPAND_SHORT", 0)
    <3>2. Expand(s, d) \subseteq {y}
      BY DEF Expand
    <3>3. y.sym = s /\ y.side = d /\ y.act \in Opens
      BY DEF Request, Opens
    <3> HIDE DEF y
    <3>4. With(l, y)
      BY <1>1, <1>4, <1>5, <2>3, <2>6, <3>3 DEF With, Buy, Sell
    <3>5. Good(y)
      BY <3>3, <3>4, ActsApart DEF Fits
    <3>6. QED
      BY <1>3, <3>1, <3>2, <3>5
  <2>7. QED
    BY <2>4, <2>5, <2>6
<1>9. QED
  BY <1>7, <1>8

\* The cycle's orders, each for a symbol with nothing on its way.
LEMMA DecideQueued ==
    ASSUME CalmRun, LoopDecide
    PROVE  \E sig :
              /\ \A i \in DOMAIN queue' : \E x \in active : queue'[i] \in Scenario(x, sig[x])
              /\ \A i, j \in DOMAIN queue' : queue'[i] = queue'[j] => i = j
              /\ positions' = [s \in Symbols |->
                    IF s \in active \ exited /\ view[s] = 0 /\ pending[s] = << >>
                    THEN 0 ELSE positions[s]]
<1>1. PICK sig :
         /\ positions' = [s \in Symbols |->
               IF s \in active \ exited /\ view[s] = 0 /\ pending[s] = << >>
               THEN 0 ELSE positions[s]]
         /\ \/ UNCHANGED queue
            \/ CycleOf(sig) # {} /\ Submit("loop", SetToSeq(CycleOf(sig)), "cycle")
  BY DecideStep
<1>2. queue = << >>
  BY Alone DEF LoopDecide, AtLoop, Threads
<1>3. CASE UNCHANGED queue
  <2>1. DOMAIN queue' = {}
    BY <1>2, <1>3
  <2>2. QED
    BY <1>1, <2>1
<1>4. CASE CycleOf(sig) # {} /\ Submit("loop", SetToSeq(CycleOf(sig)), "cycle")
  <2>1. CycleOf(sig) \subseteq Requests /\ IsFiniteSet(CycleOf(sig))
    BY CycleTyped DEF CycleOf, CalmRun, TypeInv
  <2>2. SetToSeq(CycleOf(sig)) \in Seq(Requests)
    BY <1>4, <2>1, SubmittedSeq
  <2>3. queue' = SetToSeq(CycleOf(sig))
    BY <1>2, <1>4, <2>2 DEF Submit
  <2>4. /\ \A i \in DOMAIN queue' : queue'[i] \in CycleOf(sig)
        /\ \A i, j \in DOMAIN queue' : queue'[i] = queue'[j] => i = j
    BY <2>1, <2>3, SetSeq
  <2>5. \A r \in CycleOf(sig) : \E x \in active : r \in Scenario(x, sig[x])
    BY DEF CycleOf
  <2>6. QED
    BY <1>1, <2>4, <2>5
<1>5. QED
  BY <1>1, <1>3, <1>4

LEMMA DecideBook ==
    ASSUME CalmRun, FreshView, \A z \in Symbols : Book(z), NEW s \in Symbols, LoopDecide
    PROVE  Book(s)' /\ \A i \in DOMAIN queue' : ~IsExit(queue'[i])
<1>1. pc["loop"] = "decide" /\ "loop" \in Threads
  BY DEF LoopDecide, AtLoop, Threads
<1>2. InHand = {} /\ slot = "free" /\ slot' = slot
  <2>1. InHand = {}
    BY <1>1, Alone
  <2>2. Cycling
    BY <1>1 DEF Cycling, CyclingAt
  <2>3. QED
    BY <2>1, <2>2 DEF CalmRun, Turns, LoopDecide, flags
<1>3. UNCHANGED <<orders, results, got, pending, ledger>>
  BY SubmitsHand DEF LoopDecide
<1>4. InHand' = InHand /\ Flying(s)' = Flying(s) /\ Filled(s)' = Filled(s) /\ Bought' = Bought
  BY <1>3, FlyingSame DEF InHand
<1>5. \A z \in Symbols : pending[z] = << >> => Flying(z) = {} /\ view[z] = ledger[z]
                                              /\ positions[z] = ledger[z]
  <2> SUFFICES ASSUME NEW z \in Symbols, pending[z] = << >>
               PROVE  Flying(z) = {} /\ view[z] = ledger[z] /\ positions[z] = ledger[z]
    OBVIOUS
  <2>1. Flying(z) = {}
    BY <1>2, IdsNone DEF Flying
  <2>2. Booked(z)
    BY DEF Book
  <2>3. Engine(z) = ledger[z]
    BY <2>1, <2>2, EngineParts
  <2>4. QED
    BY <1>1, <2>1, <2>2, <2>3 DEF FreshView, Booked
<1>6. PICK sig :
         /\ \A i \in DOMAIN queue' : \E x \in active : queue'[i] \in Scenario(x, sig[x])
         /\ \A i, j \in DOMAIN queue' : queue'[i] = queue'[j] => i = j
         /\ positions' = [z \in Symbols |->
               IF z \in active \ exited /\ view[z] = 0 /\ pending[z] = << >>
               THEN 0 ELSE positions[z]]
  BY DecideQueued
<1>7. BookTypes /\ active \subseteq Symbols
  BY DEF CalmRun, TypeInv, FlagTypes
<1>8. ASSUME NEW i \in DOMAIN queue'
      PROVE  \E x \in Symbols : /\ pending[x] = << >> /\ queue'[i].sym = x /\ ~IsExit(queue'[i])
                                /\ Fits(ledger[x], queue'[i])
                                /\ \A y \in Scenario(x, sig[x]) : y = queue'[i]
  <2>1. PICK x \in active : queue'[i] \in Scenario(x, sig[x])
    BY <1>6
  <2>2. x \in Symbols /\ pending[x] = << >>
    BY <1>7, <2>1 DEF Scenario
  <2>3. view[x] = ledger[x]
    BY <1>5, <2>2
  <2>4. /\ queue'[i].sym = x /\ ~IsExit(queue'[i]) /\ Fits(ledger[x], queue'[i])
        /\ \A y \in Scenario(x, sig[x]) : y = queue'[i]
    BY <1>7, <2>1, <2>2, <2>3, ScenarioFits
  <2>5. QED
    BY <2>2, <2>4
<1>9. positions'[s] = positions[s]
  <2>1. CASE s \in active \ exited /\ view[s] = 0 /\ pending[s] = << >>
    BY <1>5, <1>6, <2>1
  <2>2. CASE ~(s \in active \ exited /\ view[s] = 0 /\ pending[s] = << >>)
    BY <1>6, <2>2
  <2>3. QED
    BY <2>1, <2>2
<1>10. Booked(s)'
  BY <1>3, <1>4, <1>9 DEF Book, Booked
<1>11. InAir(ledger[s], orders, Flying(s))'
  BY <1>3, <1>4 DEF Book, InAir
<1>12. InQueue(s, ledger[s], orders, Flying(s), queue)'
  <2>1. \A i, j \in DOMAIN queue' : queue'[i].sym = s /\ queue'[j].sym = s => i = j
    <3> SUFFICES ASSUME NEW i \in DOMAIN queue', NEW j \in DOMAIN queue',
                        queue'[i].sym = s, queue'[j].sym = s
                 PROVE  i = j
      OBVIOUS
    <3>1. /\ \A y \in Scenario(s, sig[s]) : y = queue'[i]
          /\ \E x \in active : queue'[j] \in Scenario(x, sig[x])
      BY <1>6, <1>8
    <3>2. PICK x \in active : queue'[j] \in Scenario(x, sig[x])
      BY <3>1
    <3>3. x = s
      <4>1. x \in Symbols /\ pending[x] = << >>
        BY <1>7, <3>2 DEF Scenario
      <4>2. QED
        BY <1>5, <1>7, <3>2, <4>1, ScenarioFits
    <3>4. queue'[i] = queue'[j]
      BY <3>1, <3>2, <3>3
    <3>5. QED
      BY <1>6, <3>4
  <2>2. ASSUME NEW i \in DOMAIN queue', queue'[i].sym = s
        PROVE  Fits(ledger[s], queue'[i]) /\ Flying(s) = {}
    BY <1>5, <1>8, <2>2
  <2>3. QED
    BY <1>3, <1>4, <2>1, <2>2 DEF InQueue
<1>13. ExitsIn(s)'
  <2>1. ~ \E i \in Flying(s) : IsExit(orders[i])
    BY <1>2 DEF Book, ExitsIn
  <2>2. QED
    BY <1>3, <1>4, <2>1 DEF ExitsIn
<1>14. Book(s)'
  BY <1>10, <1>11, <1>12, <1>13 DEF Book
<1>15. QED
  BY <1>8, <1>14

\* What leaves a holding on its side is an entry.
LEMMA SameSideOpens ==
    ASSUME NEW l \in Int, l # 0, NEW a, IsDeal(a), Fits(l, a), ~IsExit(a),
           Sign(l + Move(a)) = Sign(l)
    PROVE  a.act \in Opens
<1> DEFINE q == a.qty
           n == l + Move(a)
<1>1. a.side \in {1, -1} /\ q \in Nat
  BY DEF IsDeal, Buy, Sell
<1>2. Move(a) = IF a.side = 1 THEN q ELSE -q
  BY DEF Move, Buy
<1>3. n \in Int
  BY <1>1, <1>2
<1>4. (l > 0 /\ n > 0) \/ (l < 0 /\ n < 0)
  <2>1. Sign(n) = Sign(l)
    OBVIOUS
  <2> HIDE DEF n
  <2>2. QED
    BY <1>3, <2>1, Sizes
<1>5. ASSUME Against(l, a) PROVE q # 2 * Size(l) /\ q # Size(l)
  <2>1. CASE l > 0
    <3>1. a.side = -1
      BY <1>5, <2>1 DEF Against, Buy, Sell
    <3>2. n = l - q /\ n > 0 /\ Size(l) = l
      BY <1>1, <1>2, <1>4, <2>1, <3>1, Sizes
    <3>3. QED
      BY <1>1, <2>1, <3>2
  <2>2. CASE l < 0
    <3>1. a.side = 1
      BY <1>5, <2>2 DEF Against, Buy, Sell
    <3>2. n = l + q /\ n < 0 /\ Size(l) = -l
      BY <1>1, <1>2, <1>4, <2>2, <3>1, Sizes
    <3>3. QED
      BY <1>1, <2>2, <3>2
  <2>3. QED
    BY <2>1, <2>2
<1>6. QED
  BY <1>5 DEF Fits

\* The exit the plan makes for s.
LEMMA PlanFits ==
    ASSUME BookTypes, NEW v \in [Symbols -> Int], NEW r \in EodPlan(v)
    PROVE  \E s \in Symbols :
              /\ r = Request(s, -Sign(v[s]), Least(Size(ledger[s]), Size(v[s])),
                             "MARKET_CLOSE_EXIT", 0)
              /\ r.sym = s /\ IsExit(r) /\ Fits(ledger[s], r)
              /\ ledger[s] # 0 /\ Sign(v[s]) = Sign(ledger[s])
<1>1. PICK s \in Symbols :
         /\ ledger[s] # 0 /\ Sign(v[s]) = Sign(ledger[s])
         /\ r = Request(s, -Sign(v[s]), Least(Size(ledger[s]), Size(v[s])),
                        "MARKET_CLOSE_EXIT", 0)
  BY DEF EodPlan
<1> DEFINE l == ledger[s]
           q == Least(Size(l), Size(v[s]))
<1>2. l \in Int /\ v[s] \in Int
  BY DEF BookTypes
<1>3. q <= Size(l)
  BY <1>2, Signs DEF Least
<1>4. r.sym = s /\ r.side = -Sign(l) /\ r.qty = q /\ r.act = "MARKET_CLOSE_EXIT"
  BY <1>1 DEF Request
<1> HIDE DEF q
<1>5. l > 0 => -Sign(l) = Sell
  BY <1>2, Sizes, Opposite DEF Buy
<1>6. l < 0 => -Sign(l) = Buy
  BY <1>2, Sizes, Opposite DEF Sell
<1>7. Against(l, r)
  BY <1>1, <1>2, <1>4, <1>5, <1>6 DEF Against
<1>8. IsExit(r)
  BY <1>4 DEF IsExit
<1>9. Fits(l, r)
  BY <1>3, <1>4, <1>7, <1>8 DEF Fits
<1>10. QED
  BY <1>1, <1>4, <1>8, <1>9

LEMMA PlanBook ==
    ASSUME CalmRun, NEW t \in Threads, EodSubmit(t), slot' # "done",
           NEW s \in Symbols, Book(s)
    PROVE  Book(s)' /\ (\A i \in DOMAIN queue' : IsExit(queue'[i]) => slot' = "busy")
<1> DEFINE F == Flying(s)
<1>1. pc[t] = "plan" /\ InHand = {} /\ slot = "busy"
  <2>1. pc[t] = "plan"
    BY DEF EodSubmit
  <2>2. InHand = {}
    BY <2>1, Alone
  <2>3. slot = "busy"
    BY <2>1 DEF CalmRun, SlotInv, OneSquareOff, Squaring
  <2>4. QED
    BY <2>1, <2>2, <2>3
<1>2. UNCHANGED <<orders, results, got, pending>>
  BY SubmitsHand
<1>3. Flying(s)' = F /\ Filled(s)' = Filled(s) /\ Bought' = Bought
  BY <1>2, FlyingSame DEF InHand
<1>4. \A i \in F : ~IsExit(orders[i])
  BY <1>1 DEF Book, ExitsIn
<1>5. PICK v \in BrokerViews :
         /\ \A i \in DOMAIN queue' : queue'[i] \in EodPlan(v)
         /\ \A i, j \in DOMAIN queue' : queue'[i] = queue'[j] => i = j
         /\ \/ UNCHANGED <<slot, positions, ledger>>
            \/ slot' = "free" /\ queue' = << >> /\ UNCHANGED <<positions, ledger>>
  BY PlanQueued
<1>6. UNCHANGED <<positions, ledger>>
  BY <1>5
<1>7. \A i \in DOMAIN queue' : slot' = "busy"
  BY <1>1, <1>5
<1>8. Booked(s)'
  BY <1>3, <1>6 DEF Book, Booked
<1>9. InAir(ledger[s], orders, Flying(s))'
  BY <1>2, <1>3, <1>6 DEF Book, InAir
<1>10. ExitsIn(s)'
  BY <1>2, <1>3, <1>4 DEF ExitsIn
<1>11. BookTypes /\ v \in [Symbols -> Int]
  BY ViewsTyped DEF CalmRun, TypeInv
<1>12. InQueue(s, ledger[s], orders, Flying(s), queue)'
  <2> DEFINE e == Request(s, -Sign(v[s]), Least(Size(ledger[s]), Size(v[s])),
                          "MARKET_CLOSE_EXIT", 0)
  <2>1. ASSUME NEW i \in DOMAIN queue', queue'[i].sym = s
        PROVE  /\ queue'[i] = e /\ IsExit(queue'[i]) /\ Fits(ledger[s], queue'[i])
               /\ ledger[s] # 0 /\ Sign(v[s]) = Sign(ledger[s])
    <3>1. queue'[i] \in EodPlan(v)
      BY <1>5
    <3> HIDE DEF e
    <3>2. QED
      BY <1>11, <2>1, <3>1, PlanFits DEF e
  <2> HIDE DEF e
  <2>2. \A i, j \in DOMAIN queue' : queue'[i].sym = s /\ queue'[j].sym = s => i = j
    BY <1>5, <2>1
  <2>3. ASSUME NEW i \in DOMAIN queue', queue'[i].sym = s, NEW j \in F
        PROVE  orders[j].act \in Opens
    <3>1. F = {j}
      BY <1>4, <2>3 DEF Book, InAir
    <3>2. F \subseteq DOMAIN orders /\ IsDeal(orders[j])
      BY <2>3, OrdersKnown DEF Flying
    <3>3. Engine(s) = ledger[s] + Move(orders[j]) /\ ledger[s] \in Int
      BY <2>3, <3>1, <3>2, EngineParts DEF Book
    <3>4. v[s] = Engine(s)
      BY CalmView
    <3>5. Fits(ledger[s], orders[j]) /\ ~IsExit(orders[j])
      BY <1>4, <2>3 DEF Book, InAir
    <3>6. ledger[s] # 0 /\ Sign(ledger[s] + Move(orders[j])) = Sign(ledger[s])
      BY <2>1, <2>3, <3>3, <3>4
    <3> HIDE DEF F
    <3>7. QED
      BY <3>2, <3>3, <3>5, <3>6, SameSideOpens
  <2>4. QED
    BY <1>2, <1>3, <1>6, <2>1, <2>2, <2>3 DEF InQueue
<1>13. QED
  BY <1>7, <1>8, <1>9, <1>10, <1>12 DEF Book

\* A step that only looks, or goes on to the square-off.
LEMMA QuietBook ==
    ASSUME CalmRun, CalmQuiet, slot' # "done", NEW s \in Symbols, Book(s)
    PROVE  Book(s)'
<1>0. UNCHANGED <<orders, queue, results, got, pending>>
  BY CalmItems
<1>1. Flying(s)' = Flying(s)
  BY <1>0, FlyingSame DEF InHand
<1> DEFINE Out == \/ slot # "busy" \/ \E t \in Threads : pc[t] = "plan"
                  \/ slot' = slot /\ \A t \in Threads : pc'[t] = "plan" => pc[t] = "plan"
           Kept == UNCHANGED <<positions, ledger>>
<1>2. CASE WorkerStop \/ MarketCloses \/ UNCHANGED vars \/ ReconcileBegin \/ ReconcileFetch
           \/ ReconcileEnd \/ \E z \in Symbols : ReconcileSymbol(z)
  <2>1. UNCHANGED <<positions, ledger, slot, pc>>
    BY <1>2 DEF WorkerStop, MarketCloses, vars, ReconcileBegin, ReconcileFetch, ReconcileEnd,
                ReconcileSymbol, threads, flags, books
  <2>2. QED
    BY <1>0, <1>1, <2>1, BookStays
<1>3. CASE LoopTop \/ LoopFetch \/ LoopRecorded \/ LoopCycled \/ MonitorStop \/ MonitorJoin
           \/ \E t \in Threads : Join(t)
  <2>1. UNCHANGED <<positions, ledger, slot>>
    BY <1>3 DEF LoopTop, LoopFetch, LoopRecorded, LoopCycled, MonitorStop, MonitorJoin, Join,
                flags, books
  <2>2. \A t \in Threads : pc'[t] = "plan" => pc[t] = "plan"
    BY <1>3 DEF LoopTop, LoopFetch, LoopRecorded, LoopCycled, MonitorStop, MonitorJoin, Join,
                Goto, BeginSquareOff, CalmRun, SlotInv
  <2>3. QED
    BY <1>0, <1>1, <2>1, <2>2, BookStays
<1>4. ASSUME NEW t \in Threads, EodBegin(t) \/ EodFinish(t) \/ EodAfter(t)
      PROVE  Book(s)'
  <2>1. ~EodFinish(t)
    BY DEF EodFinish
  <2>2. UNCHANGED <<positions, ledger>>
    BY <1>4, <2>1 DEF EodBegin, EodAfter, books
  <2>3. CASE EodBegin(t) /\ slot = "free"
    BY <1>0, <1>1, <2>2, <2>3, BookStays
  <2>4. CASE (EodBegin(t) /\ slot # "free") \/ EodAfter(t)
    <3>1. slot' = slot /\ \A u \in Threads : pc'[u] = "plan" => pc[u] = "plan"
      BY <2>4 DEF EodBegin, EodAfter, Goto, CalmRun, SlotInv
    <3>2. QED
      BY <1>0, <1>1, <2>2, <3>1, BookStays
  <2>5. QED
    BY <1>4, <2>1, <2>3, <2>4
<1>5. QED
  BY <1>2, <1>3, <1>4 DEF CalmQuiet

LEMMA CollectBook ==
    ASSUME CalmRun, ActsKept, NEW t \in Threads, Collect(t), NEW s \in Symbols, Book(s)
    PROVE  Book(s)'
<1>1. /\ UNCHANGED <<broker, queue, pending, books, slot, pc>> /\ InHand' = InHand
  BY Collected
<1>2. UNCHANGED <<orders, queue, pending, positions, ledger>>
  BY <1>1 DEF broker, books
<1>3. Flying(s)' = Flying(s)
  BY <1>1, <1>2, FlyingSame
<1>4. QED
  BY <1>1, <1>2, <1>3, BookStays

\* An order goes from the hand to its symbol's list.
LEMMA RecordFlies ==
    ASSUME CalmRun, ActsKept, Trading, NEW t \in Threads,
           EodRecord(t) \/ (t = "loop" /\ LoopRecord), NEW s \in Symbols
    PROVE  Flying(s)' = Flying(s)
<1> DEFINE h == Head(got[t])
           k == h.id
<1>1. UNCHANGED orders /\ h \in Acting(orders)
  BY Recorded DEF broker
<1>2. /\ InHand = InHand' \cup ({k} \ {0})
      /\ Ids(pending'[s]) = IF k # 0 /\ s = h.req.sym THEN Ids(pending[s]) \cup {k}
                            ELSE Ids(pending[s])
  BY RecordedActs
<1>3. k # 0 => orders[k].sym = h.req.sym
  BY <1>1 DEF Acting, Matching
<1>4. Filled(s)' = Filled(s)
  BY <1>1 DEF Filled
<1>5. k # 0 /\ s # h.req.sym => k \notin Filled(s)
  BY <1>3 DEF Filled
<1> HIDE DEF h, k
<1>6. QED
  BY <1>2, <1>4, <1>5 DEF Flying

LEMMA RecordBook ==
    ASSUME CalmRun, ActsKept, Trading, NEW t \in Threads,
           EodRecord(t) \/ (t = "loop" /\ LoopRecord), NEW s \in Symbols, Book(s)
    PROVE  Book(s)'
<1>1. UNCHANGED <<broker, queue, positions, ledger, slot, pc>>
  BY Recorded
<1>2. UNCHANGED orders /\ Flying(s)' = Flying(s)
  BY <1>1, RecordFlies DEF broker
<1>3. QED
  BY <1>1, <1>2, BookStays

LEMMA ExitsQueuedStep ==
    ASSUME CalmRun, ActsKept, Trading, FreshView, Books, ExitsQueued, [Next]_vars
    PROVE  ExitsQueued'
<1>0. "loop" \in Threads
  BY DEF Threads
<1>1. CASE UNCHANGED <<queue, slot>>
  BY <1>1 DEF ExitsQueued
<1>2. CASE CalmQuiet
  <2>1. UNCHANGED queue
    BY <1>2, CalmItems
  <2>2. CASE \E t \in Threads : EodFinish(t)
    <3>1. PICK t \in Threads : EodFinish(t)
      BY <2>2
    <3>2. pc[t] = "record"
      BY <3>1 DEF EodFinish
    <3>3. \A u \in Threads : u # t => pc[u] # "collect"
      BY <3>2, OneCollects DEF CalmRun
    <3>4. queue = << >>
      BY <3>2, <3>3 DEF CalmRun, Counts, Collecting
    <3>5. QED
      BY <2>1, <3>4 DEF ExitsQueued
  <2>3. CASE \E t \in Threads : EodBegin(t) /\ slot = "free"
    BY <2>1, <2>3 DEF ExitsQueued
  <2>4. CASE ~(\E t \in Threads : EodFinish(t)) /\ ~(\E t \in Threads : EodBegin(t) /\ slot = "free")
    <3>1. slot' = slot
      <4>1. CASE WorkerStop \/ MarketCloses \/ UNCHANGED vars \/ ReconcileBegin \/ ReconcileFetch
                 \/ ReconcileEnd \/ \E z \in Symbols : ReconcileSymbol(z)
        BY <4>1 DEF WorkerStop, MarketCloses, vars, ReconcileBegin, ReconcileFetch, ReconcileEnd,
                    ReconcileSymbol, flags
      <4>2. CASE LoopTop \/ LoopFetch \/ LoopRecorded \/ LoopCycled \/ MonitorStop \/ MonitorJoin
                 \/ \E t \in Threads : Join(t) \/ EodAfter(t)
        BY <4>2 DEF LoopTop, LoopFetch, LoopRecorded, LoopCycled, MonitorStop, MonitorJoin, Join,
                    EodAfter, flags
      <4>3. CASE \E t \in Threads : EodBegin(t) /\ slot # "free"
        BY <4>3 DEF EodBegin
      <4>4. QED
        BY <1>2, <2>4, <4>1, <4>2, <4>3 DEF CalmQuiet
    <3>2. QED
      BY <1>1, <2>1, <3>1
  <2>5. QED
    BY <2>2, <2>3, <2>4
<1>3. CASE Executor
  <2>1. PICK i \in DOMAIN queue : \E o : CalmTakes(i, o)
    BY <1>3, CalmExecutes
  <2>2. slot' = slot /\ queue' = RemoveAt(queue, i)
    BY <1>3, <2>1, CalmExecutes DEF CalmTakes
  <2>3. IsSeq(queue)
    BY DEF CalmRun, TypeInv, ItemTypes, IsSeq
  <2>4. \A k \in DOMAIN queue' : \E j \in DOMAIN queue : queue'[k] = queue[j]
    BY <2>2, <2>3, ElemsRemove
  <2>5. QED
    BY <2>2, <2>4 DEF ExitsQueued
<1>4. CASE LoopDecide
  <2>1. Cycling
    BY <1>4 DEF LoopDecide, AtLoop, Cycling, CyclingAt
  <2>2. \A z \in Symbols : Book(z)
    BY <2>1 DEF CalmRun, Turns, Books
  <2>3. CASE Symbols = {}
    <3>1. queue = << >> /\ active = {}
      BY <1>0, <1>4, <2>3, Alone DEF LoopDecide, AtLoop, CalmRun, TypeInv, FlagTypes
    <3>2. PICK sig : \A i \in DOMAIN queue' : \E x \in active : queue'[i] \in Scenario(x, sig[x])
      BY <1>4, DecideQueued
    <3>3. QED
      BY <3>1, <3>2 DEF ExitsQueued
  <2>4. CASE Symbols # {}
    <3>1. PICK z \in Symbols : TRUE
      BY <2>4
    <3>2. \A i \in DOMAIN queue' : ~IsExit(queue'[i])
      BY <1>4, <2>2, DecideBook
    <3>3. QED
      BY <3>2 DEF ExitsQueued
  <2>5. QED
    BY <2>3, <2>4
<1>5. ASSUME NEW t \in Threads, EodSubmit(t) PROVE ExitsQueued'
  <2>1. queue = << >> /\ slot = "busy"
    BY <1>5, Alone DEF EodSubmit, CalmRun, SlotInv, OneSquareOff, Squaring
  <2>2. slot' = slot \/ UNCHANGED queue
    BY <1>5 DEF EodSubmit, exec
  <2>3. QED
    BY <2>1, <2>2 DEF ExitsQueued
<1>6. CASE LoopRecord \/ \E t \in Threads : EodRecord(t)
  <2>1. PICK t \in Threads : EodRecord(t) \/ (t = "loop" /\ LoopRecord)
    BY <1>0, <1>6
  <2>2. UNCHANGED <<queue, slot>>
    BY <2>1, Recorded
  <2>3. QED
    BY <1>1, <2>2
<1>7. CASE \E t \in Threads : Collect(t)
  <2>1. UNCHANGED <<queue, slot>>
    BY <1>7, Collected
  <2>2. QED
    BY <1>1, <2>1
<1>8. CASE ReconcileOrder
  <2>1. UNCHANGED <<queue, slot>>
    BY <1>8, CalmReconciles
  <2>2. QED
    BY <1>1, <2>1
<1>9. QED
  BY <1>2, <1>3, <1>4, <1>5, <1>6, <1>7, <1>8, CalmSteps DEF CalmRun

LEMMA FreshViewStep ==
    ASSUME CalmRun, ActsKept, Trading, FreshView, [Next]_vars
    PROVE  FreshView'
<1>0. "loop" \in Threads
  BY DEF Threads
<1> DEFINE Stays == /\ orders' = orders
                    /\ pc'["loop"] = "decide" => pc["loop"] = "decide" /\ view' = view
<1>1. CASE LoopFetch
  <2>1. CASE stop
    BY <1>0, <1>1, <2>1 DEF LoopFetch, Goto, FreshView, CalmRun, SlotInv
  <2>2. CASE ~stop
    <3>1. PICK v \in BrokerViews : v = view'
      BY <1>1, <2>2 DEF LoopFetch
    <3>2. \A s \in Symbols : v[s] = Engine(s)
      BY CalmView
    <3>3. orders' = orders
      BY <1>1 DEF LoopFetch, broker
    <3>4. \A s \in Symbols : Engine(s)' = Engine(s)
      BY <3>3 DEF Engine, Filled, Bought
    <3>5. QED
      BY <3>1, <3>2, <3>4 DEF FreshView
  <2>3. QED
    BY <2>1, <2>2
<1>2. CASE Executor
  <2>1. queue # << >>
    BY <1>2 DEF Executor
  <2>2. pc["loop"] # "decide"
    BY <1>0, <2>1, Alone
  <2>3. pc' = pc
    BY <1>2, CalmExecutes DEF threads
  <2>4. QED
    BY <2>2, <2>3 DEF FreshView
<1>3. ASSUME Stays PROVE FreshView'
  <2>1. \A s \in Symbols : Engine(s)' = Engine(s)
    BY <1>3 DEF Engine, Filled, Bought
  <2>2. QED
    BY <1>3, <2>1 DEF FreshView
<1>4. CASE CalmQuiet /\ ~LoopFetch
  <2>1. orders' = orders
    BY <1>4, CalmItems
  <2>2. pc'["loop"] = "decide" => pc["loop"] = "decide" /\ view' = view
    <3>1. CASE WorkerStop \/ MarketCloses \/ UNCHANGED vars \/ ReconcileBegin \/ ReconcileFetch
               \/ ReconcileEnd \/ \E z \in Symbols : ReconcileSymbol(z)
      BY <3>1 DEF WorkerStop, MarketCloses, vars, ReconcileBegin, ReconcileFetch, ReconcileEnd,
                  ReconcileSymbol, threads, loopVars
    <3>2. CASE LoopTop \/ LoopRecorded \/ LoopCycled
      BY <1>0, <3>2 DEF LoopTop, LoopRecorded, LoopCycled, Goto, BeginSquareOff, CalmRun, SlotInv
    <3>3. CASE MonitorStop \/ MonitorJoin
      BY <1>0, <3>3 DEF MonitorStop, MonitorJoin, Goto, BeginSquareOff, CalmRun, SlotInv, loopVars
    <3>4. CASE \E t \in Threads : Join(t) \/ EodBegin(t) \/ EodFinish(t) \/ EodAfter(t)
      BY <1>0, <3>4 DEF Join, EodBegin, EodFinish, EodAfter, Goto, CalmRun, SlotInv, loopVars
    <3>5. QED
      BY <1>4, <3>1, <3>2, <3>3, <3>4 DEF CalmQuiet
  <2>3. QED
    BY <1>3, <2>1, <2>2
<1>5. CASE LoopDecide
  <2>1. pc'["loop"] # "decide"
    BY <1>0, <1>5, DecideSubmits DEF CalmRun, TypeInv, SlotInv, Goto, Submit
  <2>2. QED
    BY <2>1 DEF FreshView
<1>6. ASSUME NEW t \in Threads, EodSubmit(t) PROVE FreshView'
  <2>1. orders' = orders
    BY <1>6, SubmitsHand
  <2>2. view' = view
    BY <1>6 DEF EodSubmit, loopVars
  <2>3. pc'["loop"] = "decide" => pc["loop"] = "decide"
    BY <1>0, <1>6, PlanSubmits DEF CalmRun, TypeInv, SlotInv, Goto, Submit
  <2>4. QED
    BY <1>3, <2>1, <2>2, <2>3
<1>7. CASE LoopRecord \/ \E t \in Threads : EodRecord(t)
  <2>1. PICK t \in Threads : EodRecord(t) \/ (t = "loop" /\ LoopRecord)
    BY <1>0, <1>7
  <2>2. UNCHANGED <<broker, loopVars, pc>>
    BY <2>1, Recorded
  <2>3. QED
    BY <1>3, <2>2 DEF broker, loopVars
<1>8. CASE \E t \in Threads : Collect(t)
  <2>1. UNCHANGED <<broker, loopVars, pc>>
    BY <1>8, Collected
  <2>2. QED
    BY <1>3, <2>1 DEF broker, loopVars
<1>9. CASE ReconcileOrder
  <2>1. UNCHANGED <<broker, loopVars, threads>>
    BY <1>9, CalmReconciles
  <2>2. QED
    BY <1>3, <2>1 DEF broker, loopVars, threads
<1>10. QED
  BY <1>1, <1>2, <1>4, <1>5, <1>6, <1>7, <1>8, <1>9, CalmSteps DEF CalmRun

-----------------------------------------------------------------------------
(* The reconciler's copies                                                 *)

\* The orders the reconciler has taken off a list are of one symbol it is done with.
Copied ==
    /\ rpc # "scan" => rcopy = << >>
    /\ \A i \in DOMAIN rcopy : rcopy[i].sym \notin rleft
    /\ \A i, j \in DOMAIN rcopy : rcopy[i].ctx.id = rcopy[j].ctx.id => i = j

\* What it has read of the broker goes with the orders it has still to look at.
Waiting == rpc \in {"fetch", "scan"} => \A s \in rleft : pending[s] # << >>
LeftShown == rpc = "scan" => \A s \in rleft : \A k \in Ids(pending[s]) : Shows(rview[s], orders[k])
CopyShown ==
    rpc = "scan" => \A i \in DOMAIN rcopy :
        /\ rcopy[i].ctx \in Elems(pending[rcopy[i].sym])
        /\ Shows(rview[rcopy[i].sym], rcopy[i].ctx.req)
Scanned == slot # "done" => Waiting /\ LeftShown /\ CopyShown

\* A pending order is one of the broker's, and on its way until it is booked.
LEMMA PendingOrder ==
    ASSUME CalmRun, ActsKept, NEW s \in Symbols, NEW c \in Elems(pending[s])
    PROVE  /\ c.id # 0 /\ c.id \in Ids(pending[s]) /\ c.id \in DOMAIN orders /\ c.id \in Flying(s)
           /\ orders[c.id].sym = s /\ orders[c.id].side = c.req.side
           /\ orders[c.id].qty = c.req.qty /\ orders[c.id].act = c.req.act
<1> DEFINE K == Keyed(s, orders)
<1>1. pending[s] \in Seq(K)
  BY DEF ActsKept
<1>2. PICK i \in DOMAIN pending[s] : pending[s][i] = c
  BY DEF Elems
<1>3. c \in K
  <2> HIDE DEF K
  <2>1. QED
    BY <1>1, <1>2
<1>4. /\ c.id # 0 /\ orders[c.id].sym = s /\ orders[c.id].side = c.req.side
      /\ orders[c.id].qty = c.req.qty /\ orders[c.id].act = c.req.act
  BY <1>3 DEF Keyed, Acting, Matching
<1>5. c.id \in Ids(pending[s])
  BY <1>2, <1>4 DEF Ids
<1>6. c.id \in DOMAIN orders
  BY <1>5, HandKnown
<1>7. c.id \in Filled(s)
  BY <1>4, <1>6, OrdersKnown
<1>8. QED
  BY <1>4, <1>5, <1>6, <1>7 DEF Flying

LEMMA PendingFlies ==
    ASSUME CalmRun, ActsKept, NEW s \in Symbols
    PROVE  /\ Ids(pending[s]) \subseteq Flying(s) /\ Flying(s) \subseteq DOMAIN orders
           /\ pending[s] # << >> => Ids(pending[s]) # {}
<1>1. IsSeq(pending[s])
  BY HandKnown
<1>2. \A k \in Ids(pending[s]) : \E c \in Elems(pending[s]) : c.id = k
  BY DEF Ids, Elems
<1>3. pending[s] # << >> => \E c : c \in Elems(pending[s])
  <2>1. Len(pending[s]) \in Nat /\ DOMAIN pending[s] = 1 .. Len(pending[s])
    BY <1>1, SeqDomain
  <2>2. pending[s] # << >> => 1 \in DOMAIN pending[s]
    BY <1>1, <2>1 DEF IsSeq
  <2>3. QED
    BY <2>2 DEF Elems
<1>4. Flying(s) \subseteq DOMAIN orders
  BY OrdersKnown DEF Flying
<1>5. QED
  BY <1>2, <1>3, <1>4, PendingOrder

\* A square-off that is done stays done.
LEMMA DoneStays ==
    ASSUME CalmRun, ActsKept, Trading, [Next]_vars, slot = "done"
    PROVE  slot' = "done"
<1>1. CASE CalmQuiet
  <2>1. CASE WorkerStop \/ MarketCloses \/ UNCHANGED vars \/ ReconcileBegin \/ ReconcileFetch
             \/ ReconcileEnd \/ \E z \in Symbols : ReconcileSymbol(z)
    BY <2>1 DEF WorkerStop, MarketCloses, vars, ReconcileBegin, ReconcileFetch, ReconcileEnd,
                ReconcileSymbol, flags
  <2>2. CASE LoopTop \/ LoopFetch \/ LoopRecorded \/ LoopCycled \/ MonitorStop \/ MonitorJoin
    BY <2>2 DEF LoopTop, LoopFetch, LoopRecorded, LoopCycled, MonitorStop, MonitorJoin, flags
  <2>3. CASE \E t \in Threads : Join(t) \/ EodBegin(t) \/ EodFinish(t) \/ EodAfter(t)
    BY <2>3 DEF Join, EodBegin, EodFinish, EodAfter, flags
  <2>4. QED
    BY <1>1, <2>1, <2>2, <2>3 DEF CalmQuiet
<1>2. CASE Executor
  BY <1>2, CalmExecutes
<1>3. CASE LoopDecide \/ LoopRecord \/ \E t \in Threads : Collect(t) \/ EodRecord(t)
  BY <1>3 DEF LoopDecide, LoopRecord, Collect, EodRecord, flags
<1>4. CASE ReconcileOrder
  BY <1>4, CalmReconciles
<1>5. ~ \E t \in Threads : EodSubmit(t)
  BY DEF EodSubmit, CalmRun, SlotInv, OneSquareOff, Squaring
<1>6. QED
  BY <1>1, <1>2, <1>3, <1>4, <1>5, CalmSteps DEF CalmRun

LEMMA TailOf ==
    ASSUME NEW q, IsSeq(q), q # << >>
    PROVE  /\ 1 \in DOMAIN q /\ Head(q) = q[1] /\ IsSeq(Tail(q))
           /\ \A i \in DOMAIN Tail(q) : i + 1 \in DOMAIN q /\ i + 1 # 1 /\ Tail(q)[i] = q[i + 1]
           /\ \A i, j \in DOMAIN Tail(q) : i + 1 = j + 1 => i = j
<1>1. PICK S : q \in Seq(S)
  BY DEF IsSeq
<1>2. Tail(q) \in Seq(S)
  BY <1>1
<1>3. IsSeq(Tail(q))
  BY <1>2 DEF IsSeq
<1>4. /\ Len(q) \in Nat /\ Len(q) # 0 /\ DOMAIN q = 1 .. Len(q)
      /\ DOMAIN Tail(q) = 1 .. Len(q) - 1 /\ \A i \in 1 .. Len(q) - 1 : Tail(q)[i] = q[i + 1]
  BY <1>1
<1>5. Head(q) = q[1]
  BY <1>1
<1>6. QED
  BY <1>3, <1>4, <1>5

LEMMA CopiedStep ==
    ASSUME CalmRun, ActsKept, Trading, OnePlaceEach, Copied, [Next]_vars
    PROVE  Copied'
<1>1. CASE UNCHANGED recVars
  BY <1>1 DEF recVars, Copied
<1>2. CASE ReconcileBegin
  <2>1. rcopy = << >> /\ rcopy' = rcopy
    BY <1>2 DEF ReconcileBegin, Copied
  <2>2. QED
    BY <2>1 DEF Copied
<1>3. CASE ReconcileFetch \/ ReconcileEnd
  <2>1. rcopy = << >> /\ rcopy' = rcopy
    BY <1>3 DEF ReconcileFetch, ReconcileEnd, Copied
  <2>2. QED
    BY <2>1 DEF Copied
<1>4. ASSUME NEW s \in Symbols, ReconcileSymbol(s) PROVE Copied'
  <2>1. /\ rpc' = "scan" /\ rleft' = rleft \ {s}
        /\ rcopy' = [i \in DOMAIN pending[s] |-> [sym |-> s, ctx |-> pending[s][i]]]
    BY <1>4 DEF ReconcileSymbol
  <2>2. /\ DOMAIN rcopy' = DOMAIN pending[s]
        /\ \A i \in DOMAIN pending[s] : rcopy'[i].sym = s /\ rcopy'[i].ctx = pending[s][i]
    BY <2>1
  <2>3. \A i \in DOMAIN pending[s] : pending[s][i].id # 0
    BY PendingOrder DEF Elems
  <2>4. \A i, j \in DOMAIN pending[s] : pending[s][i].id = pending[s][j].id => i = j
    BY <2>3 DEF OnePlaceEach, NoTwice
  <2>5. QED
    BY <2>1, <2>2, <2>4 DEF Copied
<1>5. CASE ReconcileOrder
  <2>1. rcopy' = Tail(rcopy) /\ rcopy # << >> /\ UNCHANGED <<rleft, rpc>> /\ rpc = "scan"
    BY <1>5 DEF ReconcileOrder
  <2>2. IsSeq(rcopy)
    BY DEF CalmRun, TypeInv, ItemTypes, IsSeq
  <2>3. /\ \A i \in DOMAIN rcopy' : i + 1 \in DOMAIN rcopy /\ rcopy'[i] = rcopy[i + 1]
        /\ \A i, j \in DOMAIN rcopy' : i + 1 = j + 1 => i = j
    BY <2>1, <2>2, TailOf
  <2>4. \A i \in DOMAIN rcopy' : rcopy'[i].sym \notin rleft'
    BY <2>1, <2>3 DEF Copied
  <2>5. \A i, j \in DOMAIN rcopy' : rcopy'[i].ctx.id = rcopy'[j].ctx.id => i = j
    BY <2>3 DEF Copied
  <2>6. QED
    BY <2>1, <2>4, <2>5 DEF Copied
<1>6. CASE CalmQuiet
  <2>1. CASE WorkerStop \/ MarketCloses \/ UNCHANGED vars \/ LoopTop \/ LoopFetch
             \/ LoopRecorded \/ LoopCycled \/ MonitorStop \/ MonitorJoin
    BY <1>1, <2>1 DEF WorkerStop, MarketCloses, vars, recVars, LoopTop, LoopFetch, LoopRecorded,
                      LoopCycled, MonitorStop, MonitorJoin
  <2>2. CASE \E t \in Threads : Join(t) \/ EodBegin(t) \/ EodFinish(t) \/ EodAfter(t)
    BY <1>1, <2>2 DEF Join, EodBegin, EodFinish, EodAfter
  <2>3. QED
    BY <1>2, <1>3, <1>4, <1>6, <2>1, <2>2 DEF CalmQuiet
<1>7. CASE Executor
  BY <1>1, <1>7, CalmExecutes
<1>8. CASE LoopDecide \/ LoopRecord \/ \E t \in Threads : Collect(t) \/ EodSubmit(t) \/ EodRecord(t)
  BY <1>1, <1>8 DEF LoopDecide, LoopRecord, Collect, EodSubmit, EodRecord
<1>9. QED
  BY <1>5, <1>6, <1>7, <1>8, CalmSteps DEF CalmRun

LEMMA ScannedStays ==
    ASSUME CalmRun, ActsKept, Waiting, LeftShown, CopyShown, UNCHANGED <<pending, recVars>>,
           \A k \in DOMAIN orders : orders'[k] = orders[k]
    PROVE  Waiting' /\ LeftShown' /\ CopyShown'
<1>1. \A s \in Symbols : Ids(pending[s]) \subseteq DOMAIN orders
  BY HandKnown
<1>2. rleft \subseteq Symbols
  BY DEF CalmRun, TypeInv, FlagTypes
<1>3. UNCHANGED <<rpc, rleft, rcopy, rview>>
  BY DEF recVars
<1>4. Waiting'
  BY <1>3 DEF Waiting
<1>5. CopyShown'
  BY <1>3 DEF CopyShown
<1>6. LeftShown'
  BY <1>1, <1>2, <1>3 DEF LeftShown
<1>7. QED
  BY <1>4, <1>5, <1>6

\* Every order that is pending when the broker is read shows.
LEMMA FetchShows ==
    ASSUME CalmRun, ActsKept, NEW s \in Symbols, Book(s), NEW k \in Ids(pending[s])
    PROVE  Shows(Engine(s), orders[k])
<1> DEFINE F == Flying(s)
           l == ledger[s]
<1>1. k \in F /\ F \subseteq DOMAIN orders
  BY PendingFlies
<1>2. \A i \in F : IsDeal(orders[i]) /\ Fits(l, orders[i])
  BY <1>1, OrdersKnown DEF Book, InAir
<1>3. l \in Int
  BY EngineParts DEF Book
<1>4. CASE F = {k}
  <2>1. Engine(s) = l + Move(orders[k])
    BY <1>1, <1>4, EngineParts DEF Book
  <2> HIDE DEF F
  <2>2. QED
    BY <1>1, <1>2, <1>3, <2>1, ShowsOne
<1>5. CASE F # {k}
  <2>1. PICK j \in F : j # k
    BY <1>1, <1>5
  <2>2. /\ (IsExit(orders[k]) /\ ~IsExit(orders[j])) \/ (~IsExit(orders[k]) /\ IsExit(orders[j]))
        /\ F = {k, j}
    <3>1. \A a, b \in F : (IsExit(orders[a]) <=> IsExit(orders[b])) => a = b
      BY DEF Book, InAir
    <3> HIDE DEF F
    <3>2. QED
      BY <1>1, <2>1, <3>1
  <2>3. /\ Engine(s) = l + Move(orders[k]) + Move(orders[j])
        /\ Engine(s) = l + Move(orders[j]) + Move(orders[k])
    <3>1. F = {j, k}
      BY <2>2
    <3>2. k \in DOMAIN orders /\ j \in DOMAIN orders
      BY <1>1, <2>1
    <3>3. QED
      BY <2>1, <2>2, <3>1, <3>2, EngineParts DEF Book
  <2>4. \A a, b \in F : IsExit(orders[a]) /\ ~IsExit(orders[b]) => orders[b].act \in Opens
    BY DEF Book, InAir
  <2>5. CASE IsExit(orders[k]) /\ ~IsExit(orders[j])
    <3>1. orders[j].act \in Opens
      BY <1>1, <2>1, <2>4, <2>5
    <3> HIDE DEF F
    <3>2. QED
      BY <1>1, <1>2, <1>3, <2>1, <2>3, <2>5, <3>1, ShowsBoth
  <2>6. CASE ~IsExit(orders[k]) /\ IsExit(orders[j])
    <3>1. orders[k].act \in Opens
      BY <1>1, <2>1, <2>4, <2>6
    <3> HIDE DEF F
    <3>2. QED
      BY <1>1, <1>2, <1>3, <2>1, <2>3, <2>6, <3>1, ShowsBoth
  <2>7. QED
    BY <2>2, <2>5, <2>6
<1>6. QED
  BY <1>4, <1>5

\* What becomes pending while the broker's answer is used goes with it too.
LEMMA RecordShows ==
    ASSUME CalmRun, ActsKept, Trading, OnePlaceEach, NEW t \in Threads,
           EodRecord(t) \/ (t = "loop" /\ LoopRecord), NEW s \in Symbols, Book(s),
           pending[s] # << >>, NEW n \in Int, \A k \in Ids(pending[s]) : Shows(n, orders[k])
    PROVE  \A k \in Ids(pending'[s]) : Shows(n, orders[k])
<1> DEFINE F == Flying(s)
           l == ledger[s]
           h == Head(got[t])
           k == h.id
<1>1. /\ got[t] # << >> /\ h \in Acting(orders)
      /\ EodRecord(t) /\ k # 0 => IsExit(orders[k])
  BY Recorded
<1>2. Ids(pending'[s]) = IF k # 0 /\ s = h.req.sym THEN Ids(pending[s]) \cup {k}
                         ELSE Ids(pending[s])
  BY RecordedActs
<1>3. InHand = InHand' \cup ({k} \ {0})
  BY RecordedActs
<1>4. CASE k = 0 \/ s # h.req.sym
  BY <1>2, <1>4
<1>5. CASE k # 0 /\ s = h.req.sym
  <2>1. k \in InHand /\ orders[k].sym = s
    BY <1>1, <1>3, <1>5 DEF Acting, Matching
  <2>2. k \in F /\ F \subseteq DOMAIN orders
    <3>1. k \in DOMAIN orders
      BY <2>1, HandKnown
    <3>2. k \in Filled(s)
      BY <2>1, <3>1, OrdersKnown
    <3>3. QED
      BY <2>1, <3>2, PendingFlies DEF Flying
  <2>3. PICK j \in Ids(pending[s]) : TRUE
    BY PendingFlies
  <2>4. j \in F /\ j # k
    BY <2>1, <2>3, PendingFlies DEF OnePlaceEach
  <2>5. /\ (IsExit(orders[k]) <=> IsExit(orders[j])) => k = j
        /\ IsExit(orders[k]) /\ ~IsExit(orders[j]) => orders[j].act \in Opens
        /\ Fits(l, orders[j]) /\ Fits(l, orders[k])
    BY <2>2, <2>4 DEF Book, InAir
  <2>6. IsExit(orders[k])
    <3>1. CASE EodRecord(t)
      BY <1>1, <1>5, <3>1
    <3>2. CASE t = "loop" /\ LoopRecord
      <4>1. slot = "free"
        BY <3>2 DEF LoopRecord, AtLoop, CalmRun, Turns, Cycling, CyclingAt
      <4>2. \A i \in F : ~IsExit(orders[i])
        BY <4>1 DEF Book, ExitsIn
      <4>3. QED
        BY <2>2, <2>4, <2>5, <4>2
    <3>3. QED
      BY <3>1, <3>2
  <2>7. orders[j].act \in Opens /\ Shows(n, orders[j])
    BY <2>3, <2>4, <2>5, <2>6
  <2>8. IsDeal(orders[j]) /\ IsDeal(orders[k]) /\ l \in Int
    <3>1. l \in Int
      BY EngineParts DEF Book
    <3>2. QED
      BY <2>2, <2>4, <3>1, OrdersKnown
  <2>9. Shows(n, orders[k])
    <3> HIDE DEF k, l
    <3>1. QED
      BY <2>5, <2>6, <2>7, <2>8, ShowsExit
  <2>10. QED
    BY <1>2, <1>5, <2>9
<1>6. QED
  BY <1>4, <1>5

LEMMA ShowsSame ==
    ASSUME NEW n, NEW a, NEW b, Shows(n, a), a.act = b.act, a.side = b.side, a.qty = b.qty
    PROVE  Shows(n, b)
  BY DEF Shows, IsExit

LEMMA ScannedStep ==
    ASSUME CalmRun, ActsKept, Trading, OnePlaceEach, Books, Copied, Scanned, [Next]_vars
    PROVE  Scanned'
<1> SUFFICES ASSUME slot' # "done" PROVE Waiting' /\ LeftShown' /\ CopyShown'
  BY DEF Scanned
<1>0. /\ Waiting /\ LeftShown /\ CopyShown /\ rleft \subseteq Symbols /\ "loop" \in Threads
      /\ \A s \in Symbols : Book(s)
  BY DoneStays DEF Scanned, Books, CalmRun, TypeInv, FlagTypes, Threads
<1>1. CASE UNCHANGED <<orders, pending, recVars>>
  BY <1>0, <1>1, ScannedStays
<1>2. CASE ReconcileBegin
  <2>1. /\ rpc' # "scan"
        /\ rpc' = "fetch" => rleft' = {s \in Symbols : pending[s] # << >>} /\ pending' = pending
    BY <1>2 DEF ReconcileBegin
  <2>2. rpc' \in {"fetch", "ended"}
    BY <1>2 DEF ReconcileBegin
  <2>3. QED
    BY <2>1, <2>2 DEF Waiting, LeftShown, CopyShown
<1>3. CASE ReconcileFetch
  <2>1. /\ rpc = "fetch" /\ rpc' = "scan" /\ rcopy = << >>
        /\ UNCHANGED <<orders, pending, rleft, rcopy>> /\ rview' \in BrokerViews
    BY <1>3 DEF ReconcileFetch, Copied, broker
  <2>2. PICK v \in BrokerViews : v = rview'
    BY <2>1
  <2>3. \A s \in Symbols : v[s] = Engine(s)
    BY CalmView
  <2>4. Waiting'
    BY <1>0, <2>1 DEF Waiting
  <2>5. LeftShown'
    <3>1. \A s \in rleft : \A k \in Ids(pending[s]) : Shows(v[s], orders[k])
      BY <1>0, <2>3, FetchShows
    <3>2. QED
      BY <2>1, <2>2, <3>1 DEF LeftShown
  <2>6. CopyShown'
    BY <2>1 DEF CopyShown
  <2>7. QED
    BY <2>4, <2>5, <2>6
<1>4. CASE ReconcileEnd
  <2>1. rpc' = "idle"
    BY <1>4 DEF ReconcileEnd
  <2>2. QED
    BY <2>1 DEF Waiting, LeftShown, CopyShown
<1>5. ASSUME NEW s \in Symbols, ReconcileSymbol(s) PROVE Waiting' /\ LeftShown' /\ CopyShown'
  <2>1. /\ rpc = "scan" /\ rpc' = rpc /\ rleft' = rleft \ {s} /\ s \in rleft
        /\ rcopy' = [i \in DOMAIN pending[s] |-> [sym |-> s, ctx |-> pending[s][i]]]
        /\ UNCHANGED <<orders, pending, rview>>
    BY <1>5 DEF ReconcileSymbol, broker
  <2>2. Waiting'
    BY <1>0, <2>1 DEF Waiting
  <2>3. LeftShown'
    BY <1>0, <2>1 DEF LeftShown
  <2>4. CopyShown'
    <3>1. /\ DOMAIN rcopy' = DOMAIN pending[s]
          /\ \A i \in DOMAIN pending[s] : rcopy'[i].sym = s /\ rcopy'[i].ctx = pending[s][i]
      BY <2>1
    <3>2. ASSUME NEW i \in DOMAIN pending[s]
          PROVE  pending[s][i] \in Elems(pending[s]) /\ Shows(rview[s], pending[s][i].req)
      <4> DEFINE c == pending[s][i]
      <4>1. c \in Elems(pending[s])
        BY DEF Elems
      <4> HIDE DEF c
      <4>2. /\ c.id \in Ids(pending[s]) /\ orders[c.id].side = c.req.side
            /\ orders[c.id].qty = c.req.qty /\ orders[c.id].act = c.req.act
        BY <4>1, PendingOrder
      <4>3. Shows(rview[s], orders[c.id])
        BY <1>0, <2>1, <4>2 DEF LeftShown
      <4>4. Shows(rview[s], c.req)
        BY <4>2, <4>3, ShowsSame
      <4>5. QED
        BY <4>1, <4>4 DEF c
    <3>3. QED
      BY <2>1, <3>1, <3>2 DEF CopyShown
  <2>5. QED
    BY <2>2, <2>3, <2>4
<1>6. CASE ReconcileOrder
  <2>0. PICK s \in Symbols : \E c :
           /\ Looks(s, c) /\ rcopy' = Tail(rcopy)
           /\ pending' = pending \/ pending' = [pending EXCEPT ![s] = RemoveFirst(@, c)]
           /\ UNCHANGED <<broker, rleft, rview, rpc>>
    BY <1>6, CalmReconciles
  <2>1. PICK c :
           /\ Looks(s, c) /\ rcopy' = Tail(rcopy)
           /\ pending' = pending \/ pending' = [pending EXCEPT ![s] = RemoveFirst(@, c)]
           /\ UNCHANGED <<broker, rleft, rview, rpc>>
    BY <2>0
  <2>2. IsSeq(rcopy) /\ rcopy # << >> /\ rpc = "scan" /\ orders' = orders
    BY <1>6, <2>1 DEF CalmRun, TypeInv, ItemTypes, IsSeq, ReconcileOrder, broker
  <2>3. /\ 1 \in DOMAIN rcopy /\ rcopy[1].sym = s /\ rcopy[1].ctx = c
        /\ \A i \in DOMAIN rcopy' : /\ i + 1 \in DOMAIN rcopy /\ i + 1 # 1
                                    /\ rcopy'[i] = rcopy[i + 1]
    BY <2>1, <2>2, TailOf DEF Looks
  <2>4. s \notin rleft /\ c \in Elems(pending[s])
    BY <1>0, <2>2, <2>3 DEF Copied, CopyShown
  <2>5. c.id # 0 /\ IsSeq(pending[s]) /\ NoTwice(pending[s])
    BY <2>4, PendingOrder, HandKnown DEF OnePlaceEach
  <2>6. \E S : pending \in [Symbols -> S]
    BY DEF CalmRun, TypeInv, ItemTypes
  <2>7. /\ \A z \in Symbols : z # s => pending'[z] = pending[z]
        /\ pending'[s] = pending[s] \/ Elems(pending'[s]) = Elems(pending[s]) \ {c}
    <3>1. Elems(RemoveFirst(pending[s], c)) = Elems(pending[s]) \ {c}
      BY <2>4, <2>5, IdsRemove
    <3>2. QED
      BY <2>1, <2>6, <3>1
  <2>8. Waiting' /\ LeftShown'
    <3>1. \A z \in rleft : pending'[z] = pending[z]
      BY <1>0, <2>4, <2>7
    <3>2. Waiting'
      BY <1>0, <2>1, <3>1 DEF Waiting
    <3>3. LeftShown'
      BY <1>0, <2>1, <2>2, <3>1 DEF LeftShown
    <3>4. QED
      BY <3>2, <3>3
  <2>9. CopyShown'
    <3> SUFFICES ASSUME NEW i \in DOMAIN rcopy'
                 PROVE  /\ rcopy'[i].ctx \in Elems(pending'[rcopy'[i].sym])
                        /\ Shows(rview[rcopy'[i].sym], rcopy'[i].ctx.req)
      BY <2>1 DEF CopyShown
    <3>1. i + 1 \in DOMAIN rcopy /\ i + 1 # 1 /\ rcopy'[i] = rcopy[i + 1]
      BY <2>3
    <3> DEFINE e == rcopy[i + 1]
    <3>2. e.ctx \in Elems(pending[e.sym]) /\ Shows(rview[e.sym], e.ctx.req)
      BY <1>0, <2>2, <3>1 DEF CopyShown
    <3>3. e.ctx.id # c.id
      BY <2>3, <3>1 DEF Copied
    <3>4. e.sym \in Symbols
      <4> DEFINE E == [sym : Symbols, ctx : Taken(Len(orders))]
      <4>1. rcopy \in Seq(E)
        BY DEF CalmRun, TypeInv, ItemTypes
      <4>2. e \in E
        <5> HIDE DEF E
        <5>1. QED
          BY <3>1, <4>1
      <4>3. QED
        BY <4>2
    <3> HIDE DEF e
    <3>5. e.ctx \in Elems(pending'[e.sym])
      BY <2>7, <3>2, <3>3, <3>4
    <3>6. QED
      BY <3>1, <3>2, <3>5 DEF e
  <2>10. QED
    BY <2>8, <2>9
<1>7. CASE LoopRecord \/ \E t \in Threads : EodRecord(t)
  <2>1. PICK t \in Threads : EodRecord(t) \/ (t = "loop" /\ LoopRecord)
    BY <1>0, <1>7
  <2> DEFINE h == Head(got[t])
  <2>2. UNCHANGED <<broker, recVars>> /\ ((h.id = 0 /\ pending' = pending) \/ \E o : Pends(h, o))
    BY <2>1, Recorded
  <2>3. UNCHANGED <<orders, rpc, rleft, rcopy, rview>>
    BY <2>2 DEF broker, recVars
  <2>4. \A z \in Symbols : pending'[z] = pending[z] \/ \E o : pending'[z] = Append(pending[z], o)
    <3>1. pending' = pending \/ \E o : AddPending(h.req.sym, o)
      BY <2>2 DEF Pends
    <3>2. \E S : pending \in [Symbols -> S]
      BY DEF CalmRun, TypeInv, ItemTypes
    <3> HIDE DEF h
    <3>3. QED
      BY <3>1, <3>2 DEF AddPending
  <2>5. ASSUME NEW z \in Symbols
        PROVE  /\ Elems(pending[z]) \subseteq Elems(pending'[z])
               /\ pending[z] # << >> => pending'[z] # << >>
    <3>1. IsSeq(pending[z])
      BY HandKnown
    <3>2. \A o : Elems(Append(pending[z], o)) = Elems(pending[z]) \cup {o}
      BY <3>1, ElemsAppend
    <3>3. \A o : Append(pending[z], o) # << >>
      BY <3>2, DistinctNone
    <3>4. QED
      BY <2>4, <3>2, <3>3
  <2>6. Waiting'
    BY <1>0, <2>3, <2>5 DEF Waiting
  <2>7. LeftShown'
    <3> SUFFICES ASSUME rpc = "scan", NEW s \in rleft
                 PROVE  \A k \in Ids(pending'[s]) : Shows(rview[s], orders[k])
      BY <2>3 DEF LeftShown
    <3>1. s \in Symbols /\ pending[s] # << >> /\ Book(s)
      BY <1>0 DEF Waiting
    <3>2. \A k \in Ids(pending[s]) : Shows(rview[s], orders[k])
      BY <1>0 DEF LeftShown
    <3>3. rview[s] \in Int
      BY <3>1 DEF CalmRun, TypeInv, BookTypes
    <3>4. QED
      BY <2>1, <3>1, <3>2, <3>3, RecordShows
  <2>8. CopyShown'
    <3> DEFINE E == [sym : Symbols, ctx : Taken(Len(orders))]
    <3>1. rcopy \in Seq(E)
      BY DEF CalmRun, TypeInv, ItemTypes
    <3>2. \A e \in E : e.sym \in Symbols
      OBVIOUS
    <3> HIDE DEF E
    <3>3. \A i \in DOMAIN rcopy : rcopy[i].sym \in Symbols
      BY <3>1, <3>2
    <3>4. QED
      BY <1>0, <2>3, <2>5, <3>3 DEF CopyShown
  <2>9. QED
    BY <2>6, <2>7, <2>8
<1>8. CASE Executor
  <2>1. PICK i \in DOMAIN queue : \E o : CalmTakes(i, o)
    BY <1>8, CalmExecutes
  <2>2. PICK o : CalmTakes(i, o)
    BY <2>1
  <2>3. UNCHANGED <<pending, recVars>> /\ orders \in Seq(Orders)
    BY <1>8, CalmExecutes DEF CalmRun, TypeInv, ItemTypes
  <2>4. \A k \in DOMAIN orders : orders'[k] = orders[k]
    <3>1. CASE orders' = orders
      BY <3>1
    <3>2. CASE orders' = Append(orders, Placed(queue[i], "filled"))
      <4>1. Placed(queue[i], "filled") \in Orders
        BY <2>2 DEF CalmTakes, Placed, Orders, Requests, Acts
      <4>2. QED
        BY <2>3, <3>2, <4>1, OrdersStay
    <3>3. QED
      BY <2>2, <3>1, <3>2 DEF CalmTakes
  <2>5. QED
    BY <1>0, <2>3, <2>4, ScannedStays
<1>9. CASE CalmQuiet
  <2>0. UNCHANGED <<orders, pending>>
    BY <1>9, CalmItems
  <2>1. CASE WorkerStop \/ MarketCloses \/ UNCHANGED vars \/ LoopTop \/ LoopFetch
             \/ LoopRecorded \/ LoopCycled \/ MonitorStop \/ MonitorJoin
    <3>1. UNCHANGED recVars
      BY <2>1 DEF WorkerStop, MarketCloses, vars, recVars, LoopTop, LoopFetch, LoopRecorded,
                  LoopCycled, MonitorStop, MonitorJoin
    <3>2. QED
      BY <1>1, <2>0, <3>1
  <2>2. CASE \E t \in Threads : Join(t) \/ EodBegin(t) \/ EodFinish(t) \/ EodAfter(t)
    <3>1. UNCHANGED recVars
      BY <2>2 DEF Join, EodBegin, EodFinish, EodAfter
    <3>2. QED
      BY <1>1, <2>0, <3>1
  <2>3. QED
    BY <1>2, <1>3, <1>4, <1>5, <1>9, <2>1, <2>2 DEF CalmQuiet
<1>10. CASE LoopDecide \/ \E t \in Threads : EodSubmit(t)
  <2>1. UNCHANGED <<orders, pending>>
    BY <1>10, SubmitsHand
  <2>2. UNCHANGED recVars
    BY <1>10 DEF LoopDecide, EodSubmit
  <2>3. QED
    BY <1>1, <2>1, <2>2
<1>11. CASE \E t \in Threads : Collect(t)
  <2>1. UNCHANGED <<orders, pending, recVars>>
    BY <1>11, Collected DEF broker
  <2>2. QED
    BY <1>1, <2>1
<1>12. QED
  BY <1>6, <1>7, <1>8, <1>9, <1>10, <1>11, CalmSteps DEF CalmRun

\* Closing and adding both book what the order has bought or sold.
LEMMA BooksMove ==
    ASSUME NEW l \in Int, NEW r, IsDeal(r)
    PROVE  /\ Against(l, r) => l # 0 /\ l - Sign(l) * r.qty = l + Move(r)
           /\ With(l, r) => (IF l = 0 THEN r.side * r.qty ELSE l + Sign(l) * r.qty) = l + Move(r)
           /\ l + r.side * r.qty = l + Move(r)
<1> DEFINE q == r.qty
<1>1. q \in Nat /\ Move(r) \in Int /\ r.side * q = Move(r)
  BY MoveTyped DEF IsDeal
<1>2. r.side = 1 => Move(r) = q
  BY DEF Move, Buy
<1>3. r.side = -1 => Move(r) = -q
  BY DEF Move, Buy
<1>4. l > 0 => Sign(l) * q = q
  BY <1>1, Sizes
<1>5. l < 0 => Sign(l) * q = -q
  <2> SUFFICES ASSUME l < 0 PROVE Sign(l) * q = -q
    OBVIOUS
  <2>1. Sign(l) = -1
    BY Sizes
  <2>2. (-1) * q = -q
    BY <1>1
  <2>3. QED
    BY <2>1, <2>2
<1> HIDE DEF q
<1>6. ASSUME Against(l, r) PROVE l # 0 /\ l - Sign(l) * q = l + Move(r)
  <2>1. CASE l > 0 /\ r.side = Sell
    BY <1>1, <1>3, <1>4, <2>1 DEF Sell
  <2>2. CASE l < 0 /\ r.side = Buy
    BY <1>1, <1>2, <1>5, <2>2 DEF Buy
  <2>3. QED
    BY <1>6, <2>1, <2>2 DEF Against
<1>7. ASSUME With(l, r) PROVE (IF l = 0 THEN r.side * q ELSE l + Sign(l) * q) = l + Move(r)
  <2>1. CASE l = 0
    BY <1>1, <2>1
  <2>2. CASE l > 0
    <3>1. r.side = 1
      BY <1>7, <2>2 DEF With, Buy
    <3>2. QED
      BY <1>1, <1>2, <1>4, <2>2, <3>1
  <2>3. CASE l < 0
    <3>1. r.side = -1
      BY <1>7, <2>3 DEF With, Sell
    <3>2. QED
      BY <1>1, <1>3, <1>5, <2>3, <3>1
  <2>4. QED
    BY <2>1, <2>2, <2>3
<1>8. QED
  BY <1>1, <1>6, <1>7 DEF q

\* Where the order's fill is looked for.
LEMMA ShownSide ==
    ASSUME NEW n \in Int, NEW r, IsDeal(r), Shows(n, r)
    PROVE  /\ r.act \in Opens => Sign(n) = r.side /\ Least(Size(n), r.qty) = r.qty
           /\ r.act = "STOP_LOSS" \/ IsExit(r) => Sign(n) # r.side
<1> DEFINE q == r.qty
<1>1. q \in Nat /\ q # 0 /\ r.side \in {1, -1}
  BY DEF IsDeal, Buy, Sell
<1>2. ASSUME r.act \in Opens PROVE Sign(n) = r.side /\ Least(Size(n), q) = q
  <2>1. CASE r.side = 1 /\ n >= q
    BY <1>1, <2>1, Sizes DEF Least
  <2>2. CASE r.side = -1 /\ n <= -q
    BY <1>1, <2>2, Sizes DEF Least
  <2>3. QED
    BY <1>2, <2>1, <2>2 DEF Shows, Buy, Sell
<1>3. ASSUME r.act = "STOP_LOSS" PROVE Sign(n) # r.side
  <2>1. Sign(n) = 0
    BY <1>3, Sizes DEF Shows
  <2>2. QED
    BY <1>1, <2>1
<1>4. ASSUME IsExit(r) PROVE Sign(n) # r.side
  <2>1. CASE r.side = 1 /\ n <= 0
    <3>1. Sign(n) \in {0, -1}
      BY <2>1, Sizes
    <3>2. QED
      BY <2>1, <3>1
  <2>2. CASE r.side = -1 /\ n >= 0
    <3>1. Sign(n) \in {0, 1}
      BY <2>2, Sizes
    <3>2. QED
      BY <2>2, <3>1
  <2>3. QED
    BY <1>4, <2>1, <2>2 DEF Shows, Buy, Sell
<1>5. QED
  BY <1>2, <1>3, <1>4

\* Positions and ledger take what the order has bought or sold.
BooksAt(s, x) == positions' = [positions EXCEPT ![s] = x] /\ ledger' = [ledger EXCEPT ![s] = x]

LEMMA FillBooks ==
    ASSUME NEW s \in Symbols, NEW r, IsDeal(r), r.act \in Acts, NEW l \in Int,
           positions \in [Symbols -> Int], ledger \in [Symbols -> Int],
           positions[s] = l, ledger[s] = l, Fits(l, r), HandleFilled(s, r, r.qty, TRUE)
    PROVE  BooksAt(s, l + Move(r))
<1> DEFINE m == l + Move(r)
<1>1. /\ Against(l, r) => l # 0 /\ l - Sign(l) * r.qty = m
      /\ With(l, r) => (IF l = 0 THEN r.side * r.qty ELSE l + Sign(l) * r.qty) = m
      /\ l + r.side * r.qty = m
  BY BooksMove
<1> HIDE DEF m
<1>2. Tracked(s, r.side, r.qty) => ledger' = [ledger EXCEPT ![s] = m]
  BY <1>1 DEF Tracked
<1>3. Against(l, r) => Closed(s, r.qty) = [positions EXCEPT ![s] = m]
  BY <1>1 DEF Closed
<1>4. With(l, r) => Added(s, r.side, r.qty) = [positions EXCEPT ![s] = m]
  BY <1>1 DEF Added
<1>5. CASE r.act \in Flips
  <2>1. Against(l, r)
    BY <1>5, ActsApart DEF Fits
  <2>2. r.act \notin Exits /\ r.act \notin Opens
    BY <1>5, ActsApart
  <2>3. positions' = Closed(s, r.qty) /\ Tracked(s, r.side, r.qty)
    BY <1>1, <1>5, <2>1, <2>2 DEF HandleFilled
  <2>4. QED
    BY <1>2, <1>3, <2>1, <2>3 DEF BooksAt, m
<1>6. CASE r.act \in Opens
  <2>1. With(l, r)
    BY <1>6, ActsApart DEF Fits
  <2>2. r.act \notin Exits /\ r.act \notin Flips
    BY <1>6, ActsApart
  <2>3. positions' = Added(s, r.side, r.qty) /\ Tracked(s, r.side, r.qty)
    BY <1>6, <2>2 DEF HandleFilled
  <2>4. QED
    BY <1>2, <1>4, <2>1, <2>3 DEF BooksAt, m
<1>7. CASE r.act \in Exits
  <2>1. Against(l, r)
    BY <1>7, ActsApart DEF Fits
  <2>0. r.act \notin Opens /\ r.act \notin Flips
    BY <1>7, ActsApart
  <2>2. positions' = Closed(s, r.qty) /\ Tracked(s, r.side, r.qty)
    BY <1>7, <2>0 DEF HandleFilled
  <2>3. QED
    BY <1>2, <1>3, <2>1, <2>2 DEF BooksAt, m
<1>8. QED
  BY <1>5, <1>6, <1>7 DEF Acts

\* The reconciler books an order by its own fill, or waits.
LEMMA SettleFills ==
    ASSUME CalmRun, ActsKept, LeftShown, CopyShown, ReconcileOrder, NEW s, NEW c, Looks(s, c),
           \A z \in Symbols : Book(z)
    PROVE  /\ s \in Symbols /\ c \in Elems(pending[s])
           /\ \/ Keep
              \/ Settle(s, c) /\ BooksAt(s, ledger[s] + Move(orders[c.id]))
<1> DEFINE k == c.id
           r == c.req
           l == ledger[s]
           n == rview[s]
<1>1. /\ s \in Symbols /\ IsDeal(r) /\ r.act \in Acts
  BY LooksTyped DEF CalmRun, TypeInv, IsDeal, Acts
<1>2. rpc = "scan" /\ rcopy # << >> /\ rcopy \in Seq([sym : Symbols, ctx : Taken(Len(orders))])
  BY DEF ReconcileOrder, CalmRun, TypeInv, ItemTypes
<1>3. c \in Elems(pending[s]) /\ Shows(n, r)
  <2>1. IsSeq(rcopy)
    BY <1>2 DEF IsSeq
  <2>2. 1 \in DOMAIN rcopy /\ rcopy[1].sym = s /\ rcopy[1].ctx = c
    BY <1>2, <2>1, TailOf DEF Looks
  <2>3. QED
    BY <1>2, <2>2 DEF CopyShown
<1>4. /\ k \in Flying(s) /\ k \in DOMAIN orders /\ orders[k].side = r.side
      /\ orders[k].qty = r.qty /\ orders[k].act = r.act
  BY <1>1, <1>3, PendingOrder
<1>5. Fits(l, orders[k]) /\ positions[s] = l
  BY <1>1, <1>4 DEF Book, InAir, Booked
<1>6. Fits(l, r) /\ Move(r) = Move(orders[k])
  BY <1>4, <1>5 DEF Fits, IsExit, With, Against, Move
<1>7. /\ l \in Int /\ n \in Int /\ positions \in [Symbols -> Int] /\ ledger \in [Symbols -> Int]
  BY <1>1 DEF CalmRun, TypeInv, BookTypes
<1>8. HandleFilled(s, r, r.qty, TRUE) => BooksAt(s, l + Move(orders[k]))
  <2>1. HandleFilled(s, r, r.qty, TRUE) => BooksAt(s, l + Move(r))
    <3> HIDE DEF l, r
    <3>1. QED
      BY <1>1, <1>5, <1>6, <1>7, FillBooks DEF l
  <2>2. QED
    BY <1>6, <2>1
<1>9. ~May("outage") /\ ~May("unpriced") /\ ~May("expire") /\ orders[k].state = "filled"
  BY <1>4 DEF CalmRun, Calm, May, FillsOnly
<1>10. FillsSeen(k) = {r.qty}
  BY <1>4, <1>9 DEF FillsSeen
<1>11. /\ CASE r.act \in Flips -> ReconcileFlip(s, c, r.qty)
            [] r.act \notin Flips /\ Sign(n) = r.side -> ReconcileListed(s, c, r.qty)
            [] r.act \in Exits /\ Sign(n) # r.side /\ (n = 0 \/ Sign(n) # r.held) ->
                 ReconcileGone(s, c, r.qty)
            [] OTHER -> ReconcileExpire(s, c)
  <2>1. s = Head(rcopy).sym /\ c = Head(rcopy).ctx
    BY DEF Looks
  <2>2. QED
    BY <1>10, <2>1 DEF ReconcileOrder
<1>12. r.qty \in Nat /\ r.qty # 0 /\ r.qty > 0
  BY <1>1 DEF IsDeal
<1> HIDE DEF k, r, l, n
<1> DEFINE Done == Keep \/ (Settle(s, c) /\ HandleFilled(s, r, r.qty, TRUE))
<1>13. CASE r.act \in Flips
  <2>0. r.act \notin Exits
    BY <1>13, ActsApart
  <2>1. ReconcileFlip(s, c, r.qty)
    BY <1>11, <1>13, <2>0
  <2>2. Done
    BY <1>12, <2>1 DEF ReconcileFlip, r
  <2>3. QED
    BY <1>1, <1>3, <1>8, <2>2 DEF l, k
<1>14. CASE r.act \in Opens
  <2>1. Sign(n) = r.side /\ Least(Size(n), r.qty) = r.qty /\ r.act \notin Flips
    BY <1>1, <1>3, <1>7, <1>14, ShownSide, ActsApart
  <2>2. ReconcileListed(s, c, r.qty)
    BY <1>11, <2>1
  <2>3. Settle(s, c) /\ HandleFilled(s, r, Least(Size(n), r.qty), TRUE)
    BY <1>9, <1>12, <2>2 DEF ReconcileListed, r, n
  <2>4. QED
    BY <1>1, <1>3, <1>8, <2>1, <2>3 DEF l, k
<1>15. CASE r.act \in Exits
  <2>1. r.act = "STOP_LOSS" \/ IsExit(r)
    BY <1>1, <1>6, <1>7, <1>15, ExitReduces
  <2>2. Sign(n) # r.side /\ r.act \notin Flips
    BY <1>1, <1>3, <1>7, <1>15, <2>1, ShownSide, ActsApart
  <2>3. ReconcileGone(s, c, r.qty) \/ ReconcileExpire(s, c)
    BY <1>11, <2>2
  <2>4. Done
    BY <1>9, <1>12, <2>3 DEF ReconcileGone, ReconcileExpire, r
  <2>5. QED
    BY <1>1, <1>3, <1>8, <2>4 DEF l, k
<1>16. QED
  BY <1>1, <1>13, <1>14, <1>15 DEF Acts

\* A booked order leaves the air, and what is left of it still fits.
LEMMA SettleBook ==
    ASSUME CalmRun, ActsKept, OnePlaceEach, LeftShown, CopyShown, ReconcileOrder,
           \A y \in Symbols : Book(y), NEW z \in Symbols
    PROVE  Book(z)'
<1>0. PICK s \in Symbols : \E c :
         /\ Looks(s, c)
         /\ UNCHANGED <<broker, queue, results, slot, threads>>
  BY CalmReconciles
<1>1. PICK c : /\ Looks(s, c)
               /\ UNCHANGED <<broker, queue, results, slot, threads>>
  BY <1>0
<1> DEFINE k == c.id
           F == Flying(s)
           l == ledger[s]
           m == l + Move(orders[k])
<1>2. /\ c \in Elems(pending[s])
      /\ Keep \/ (Settle(s, c) /\ BooksAt(s, m))
  BY <1>1, SettleFills
<1>3. UNCHANGED <<orders, queue, results, got, slot, pc>> /\ InHand' = InHand
  BY <1>1 DEF broker, threads, InHand
<1>4. /\ k # 0 /\ k \in Ids(pending[s]) /\ k \in DOMAIN orders /\ k \in F
  BY <1>2, PendingOrder
<1>5. /\ pending \in [Symbols -> Seq(Taken(Len(orders)))]
      /\ positions \in [Symbols -> Int] /\ ledger \in [Symbols -> Int]
  BY DEF CalmRun, TypeInv, ItemTypes, BookTypes
<1>6. Filled(z)' = Filled(z) /\ Filled(s)' = Filled(s) /\ Bought' = Bought
  BY <1>3 DEF Filled, Bought
<1>7. CASE Keep
  <2>1. UNCHANGED <<pending, positions, ledger>>
    BY <1>7 DEF Keep, books
  <2>2. Flying(z)' = Flying(z)
    BY <1>3, <2>1, FlyingSame
  <2>3. QED
    BY <1>3, <2>1, <2>2, BookStays
<1>8. CASE Settle(s, c) /\ BooksAt(s, m) /\ z # s
  <2>1. pending'[z] = pending[z] /\ positions'[z] = positions[z] /\ ledger'[z] = ledger[z]
    BY <1>5, <1>8 DEF Settle, BooksAt
  <2>2. Flying(z)' = Flying(z)
    BY <1>3, <1>6, <2>1 DEF Flying
  <2>3. QED
    BY <1>3, <2>1, <2>2, BookStays
<1>9. CASE Settle(s, c) /\ BooksAt(s, m) /\ z = s
  <2>1. /\ pending'[s] = RemoveFirst(pending[s], c)
        /\ positions'[s] = m /\ ledger'[s] = m
    <3>1. pending'[s] = RemoveFirst(pending[s], c)
      BY <1>5, <1>9 DEF Settle
    <3> HIDE DEF m
    <3>2. positions'[s] = m /\ ledger'[s] = m
      BY <1>5, <1>9 DEF BooksAt
    <3>3. QED
      BY <3>1, <3>2
  <2>2. Ids(pending'[s]) = Ids(pending[s]) \ {k}
    <3>1. IsSeq(pending[s]) /\ NoTwice(pending[s])
      BY HandKnown DEF OnePlaceEach
    <3>2. QED
      BY <1>2, <1>4, <2>1, <3>1, IdsRemove
  <2>3. k \notin InHand
    BY <1>4 DEF OnePlaceEach
  <2>4. Flying(s)' = F \ {k}
    BY <1>3, <1>6, <2>2, <2>3 DEF Flying
  <2>5. /\ F \subseteq Filled(s) /\ IsFiniteSet(Filled(s)) /\ Filled(s) \subseteq DOMAIN orders
        /\ \A i \in DOMAIN orders : /\ IsDeal(orders[i]) /\ Bought[i] = Move(orders[i])
                                    /\ Bought[i] \in Int
    BY OrdersKnown DEF Flying
  <2>6. l \in Int /\ Booked(s) /\ l = SumOver(Bought, Filled(s) \ F)
    BY <1>5 DEF Book, Booked
  <2>7. Booked(s)'
    <3> DEFINE R == (Filled(s) \ F) \cup {k}
    <3> HIDE DEF F, k, l, m
    <3>1. Filled(s) \ (F \ {k}) = R /\ R \ {k} = Filled(s) \ F /\ k \in R
      BY <1>4, <2>5
    <3>2. IsFiniteSet(R) /\ \A i \in R : Bought[i] \in Int
      <4>1. R \subseteq Filled(s)
        BY <1>4, <2>5
      <4>2. QED
        BY <2>5, <4>1, FS_Subset
    <3> HIDE DEF R
    <3>3. SumOver(Bought, R) = Bought[k] + SumOver(Bought, R \ {k})
      BY <3>1, <3>2, SumInsert
    <3>4. SumOver(Bought, R) = Bought[k] + l
      BY <2>6, <3>1, <3>3
    <3>5. m = SumOver(Bought, R)
      BY <1>4, <2>5, <2>6, <3>4 DEF m
    <3>6. QED
      BY <1>6, <2>1, <2>4, <3>1, <3>5 DEF Booked
  <2>8. /\ \A i, j \in F : (IsExit(orders[i]) <=> IsExit(orders[j])) => i = j
        /\ \A i, j \in F : IsExit(orders[i]) /\ ~IsExit(orders[j]) => orders[j].act \in Opens
        /\ \A i \in F : Fits(l, orders[i]) /\ IsDeal(orders[i])
    BY <2>5 DEF Book, InAir
  <2> HIDE DEF F, k, l
  <2>9. InAir(ledger[s], orders, Flying(s))'
    <3>1. ASSUME NEW i \in F \ {k} PROVE Fits(m, orders[i])
      <4>1. \/ orders[k].act \in Opens /\ IsExit(orders[i])
            \/ IsExit(orders[k]) /\ orders[i].act \in Opens
        BY <1>4, <2>8, <3>1
      <4>2. QED
        BY <1>4, <2>6, <2>8, <4>1, FitsAfter
    <3> HIDE DEF m
    <3>2. QED
      BY <1>3, <2>1, <2>4, <2>8, <3>1 DEF InAir
  <2>10. InQueue(s, ledger[s], orders, Flying(s), queue)'
    <3>1. /\ \A i, j \in DOMAIN queue : queue[i].sym = s /\ queue[j].sym = s => i = j
          /\ \A i \in DOMAIN queue : queue[i].sym = s =>
                /\ Fits(l, queue[i])
                /\ ~IsExit(queue[i]) => F = {}
                /\ \A j \in F : orders[j].act \in Opens
      BY DEF Book, InQueue, l, F
    <3>2. ASSUME NEW i \in DOMAIN queue, queue[i].sym = s
          PROVE  Fits(m, queue[i]) /\ IsExit(queue[i])
      <4>1. orders[k].act \in Opens /\ IsExit(queue[i]) /\ Fits(l, queue[i])
        BY <1>4, <3>1, <3>2
      <4>2. IsDeal(queue[i])
        BY OrdersKnown
      <4>3. QED
        BY <1>4, <2>6, <2>8, <4>1, <4>2, FitsAfter
    <3> HIDE DEF m
    <3>3. QED
      BY <1>3, <2>1, <2>4, <3>1, <3>2 DEF InQueue
  <2>11. ExitsIn(s)'
    BY <1>3, <2>4 DEF Book, ExitsIn, F
  <2>12. QED
    BY <1>9, <2>7, <2>9, <2>10, <2>11 DEF Book
<1>10. QED
  BY <1>2, <1>7, <1>8, <1>9

LEMMA BooksStep ==
    ASSUME CalmRun, ActsKept, Trading, OnePlaceEach, FreshView, Books, ExitsQueued, Copied,
           Scanned, [Next]_vars
    PROVE  Books'
<1> SUFFICES ASSUME slot' # "done", NEW s \in Symbols PROVE Book(s)'
  BY DEF Books
<1>0. slot # "done" /\ LeftShown /\ CopyShown /\ \A z \in Symbols : Book(z)
  BY DoneStays DEF Scanned, Books
<1>1. CASE CalmQuiet
  BY <1>0, <1>1, QuietBook
<1>2. CASE Executor
  BY <1>0, <1>2, ExecuteBook
<1>3. CASE LoopDecide
  BY <1>0, <1>3, DecideBook
<1>4. CASE LoopRecord \/ \E t \in Threads : EodRecord(t)
  <2>1. PICK t \in Threads : EodRecord(t) \/ (t = "loop" /\ LoopRecord)
    BY <1>4 DEF Threads
  <2>2. QED
    BY <1>0, <2>1, RecordBook
<1>5. CASE ReconcileOrder
  BY <1>0, <1>5, SettleBook
<1>6. CASE \E t \in Threads : Collect(t)
  BY <1>0, <1>6, CollectBook
<1>7. CASE \E t \in Threads : EodSubmit(t)
  BY <1>0, <1>7, PlanBook
<1>8. QED
  BY <1>1, <1>2, <1>3, <1>4, <1>5, <1>6, <1>7, CalmSteps DEF CalmRun

-----------------------------------------------------------------------------
(* Every share the engine holds is in the ledger or on its way             *)

\* What holds in every run, and the inductive invariant of LedgerExact and CalmExitsReduce.
BaseInv == SlotInv /\ TypeInv /\ Matches /\ NoExit
CalmInv ==
    Calm =>
        /\ Turns /\ Counts /\ FillsOnly /\ ActsKept /\ Trading /\ OnePlaceEach /\ FreshView
        /\ Books /\ ExitsQueued /\ Copied /\ Scanned

LEMMA BaseInvInit == Init => BaseInv
  BY SlotInvInit, TypeInvInit, OweInvInit DEF BaseInv, OweInv

LEMMA BaseInvStep == BaseInv /\ [Next]_vars => BaseInv'
  BY SlotInvStep, TypeInvStep, MatchesStep, NoExitStep DEF BaseInv

LEMMA CalmInvInit == Init => CalmInv
<1> SUFFICES ASSUME Init PROVE CalmInv
  OBVIOUS
<1>1. /\ queue = << >> /\ results = << >> /\ orders = << >> /\ rcopy = << >>
      /\ \A t \in Threads : got[t] = << >>
      /\ \A s \in Symbols : pending[s] = << >>
  BY DEF Init
<1>2. /\ Ids(<< >>) = {} /\ NoTwice(<< >>) /\ InHand = {}
      /\ \A s \in Symbols : Flying(s) = {} /\ Filled(s) = {}
  BY <1>1, IdsNone DEF InHand, Threads, Flying, Filled
<1>3. Turns /\ Counts /\ FillsOnly
  <2>1. Turns
    BY DEF Init, Turns, Cycling, CyclingAt, Threads
  <2>2. Counts
    BY DEF Init, Counts, Threads
  <2>3. FillsOnly
    BY <1>1 DEF Init, FillsOnly
  <2>4. QED
    BY <2>1, <2>2, <2>3
<1>4. ActsKept
  <2>1. \A S : << >> \in Seq(S)
    OBVIOUS
  <2>2. QED
    BY <2>1 DEF Init, ActsKept
<1>5. Trading /\ OnePlaceEach
  <2>1. Trading
    BY <1>1, <1>2 DEF Trading
  <2>2. OnePlaceEach
    BY <1>1, <1>2 DEF OnePlaceEach, Threads
  <2>3. QED
    BY <2>1, <2>2
<1>6. FreshView /\ ExitsQueued
  <2>1. FreshView
    BY DEF Init, FreshView, Threads
  <2>2. ExitsQueued
    BY <1>1 DEF ExitsQueued
  <2>3. QED
    BY <2>1, <2>2
<1>7. Books
  <2> SUFFICES ASSUME NEW s \in Symbols PROVE Book(s)
    BY DEF Books
  <2>1. Booked(s)
    <3>1. positions[s] = 0 /\ ledger[s] = 0
      BY DEF Init, Flat
    <3>2. Filled(s) \ Flying(s) = {}
      BY <1>2
    <3>3. QED
      BY <3>1, <3>2, SumEmpty DEF Booked
  <2>2. InAir(ledger[s], orders, Flying(s)) /\ ExitsIn(s)
    <3>1. InAir(ledger[s], orders, Flying(s))
      BY <1>2 DEF InAir
    <3>2. ExitsIn(s)
      BY <1>2 DEF ExitsIn
    <3>3. QED
      BY <3>1, <3>2
  <2>3. InQueue(s, ledger[s], orders, Flying(s), queue)
    BY <1>1 DEF InQueue
  <2>4. QED
    BY <2>1, <2>2, <2>3 DEF Book
<1>8. Copied /\ Scanned
  <2>1. Copied
    BY <1>1 DEF Copied
  <2>2. Scanned
    BY DEF Init, Scanned, Waiting, LeftShown, CopyShown
  <2>3. QED
    BY <2>1, <2>2
<1>9. QED
  BY <1>3, <1>4, <1>5, <1>6, <1>7, <1>8 DEF CalmInv

LEMMA CalmInvStep == BaseInv /\ CalmInv /\ [Next]_vars => CalmInv'
<1> SUFFICES ASSUME BaseInv, CalmInv, [Next]_vars, Calm'
             PROVE  /\ Turns' /\ Counts' /\ FillsOnly' /\ ActsKept' /\ Trading' /\ OnePlaceEach'
                    /\ FreshView' /\ Books' /\ ExitsQueued' /\ Copied' /\ Scanned'
  BY DEF CalmInv
<1>1. Calm
  BY RunStays DEF Calm
<1>2. CalmRun /\ ActsKept /\ Trading /\ OnePlaceEach /\ FreshView /\ Books /\ ExitsQueued
      /\ Copied /\ Scanned
  BY <1>1 DEF CalmInv, BaseInv, CalmRun
<1>3. Calm /\ SlotInv /\ TypeInv /\ NoExit /\ Turns /\ Counts /\ FillsOnly
  BY <1>2 DEF CalmRun
<1>4. Turns' /\ Counts' /\ FillsOnly'
  <2>1. Patient
    BY <1>1 DEF Calm, Patient
  <2>2. QED
    BY <1>3, <2>1, TurnsStep, CountsStep, FillsOnlyStep
<1>5. ActsKept' /\ Trading' /\ OnePlaceEach'
  BY <1>2, ActsKeptStep, TradingStep, OnePlaceStep
<1>6. FreshView' /\ ExitsQueued'
  BY <1>2, FreshViewStep, ExitsQueuedStep
<1>7. Books'
  BY <1>2, BooksStep
<1>8. Copied' /\ Scanned'
  BY <1>2, CopiedStep, ScannedStep
<1>9. QED
  BY <1>4, <1>5, <1>6, <1>7, <1>8

LEMMA CalmInvariant == Spec => [](BaseInv /\ CalmInv)
  BY BaseInvInit, BaseInvStep, CalmInvInit, CalmInvStep, PTL DEF Spec

\* In a run where orders can only be refused, every share the engine holds is in the
\* session ledger or belongs to an order that a thread still has in hand or the reconciler
\* has still to book, until the square-off clears the books: no fill is lost or counted
\* twice (session_ledger.py, _reconcile_pending_orders, apply_fill_to_session_ledger).
THEOREM LedgerKnowsAll == Spec => []LedgerExact
<1>1. BaseInv /\ CalmInv => LedgerExact
  <2> SUFFICES ASSUME BaseInv, CalmInv, Calm, slot # "done", NEW s \in Symbols
               PROVE  ledger[s] + Untracked(s) = Engine(s)
    BY DEF LedgerExact
  <2>1. CalmRun /\ Book(s)
    BY DEF CalmInv, BaseInv, CalmRun, Books
  <2>2. 0 \notin Filled(s)
    <3>1. Filled(s) \subseteq DOMAIN orders
      BY <2>1, OrdersKnown
    <3>2. DOMAIN orders = 1 .. Len(orders)
      BY <2>1 DEF CalmRun, TypeInv, ItemTypes
    <3>3. QED
      BY <3>1, <3>2
  <2>3. InFlight(s) \cap Filled(s) = Flying(s)
    BY <2>2 DEF InFlight, Flying, InHand, Ids
  <2>4. Engine(s) = ledger[s] + SumOver(Bought, Flying(s))
    BY <2>1, EngineParts DEF Book
  <2>5. QED
    BY <2>3, <2>4 DEF Untracked
<1>2. QED
  BY <1>1, CalmInvariant, PTL

\* What the executor places for an exit reduces what the engine holds.
LEMMA ReducesNow ==
    BaseInv /\ CalmInv /\ [Next]_vars =>
        [Len(orders') > Len(orders) /\ Calm =>
            LET o == Last(orders') IN
            o.act \in Exits =>
               /\ Sign(Engine(o.sym)) = -o.side
               /\ o.qty <= Size(Engine(o.sym))]_vars
<1> DEFINE o == Last(orders')
<1> SUFFICES ASSUME BaseInv, CalmInv, [Next]_vars, Len(orders') > Len(orders), Calm,
                    o.act \in Exits
             PROVE  Sign(Engine(o.sym)) = -o.side /\ o.qty <= Size(Engine(o.sym))
  OBVIOUS
<1>1. CalmRun /\ ActsKept /\ Trading /\ Books /\ ExitsQueued /\ orders \in Seq(Orders)
  BY DEF CalmInv, BaseInv, CalmRun, TypeInv, ItemTypes
<1>2. Executor
  <2>1. orders' # orders
    <3>1. Len(orders) \in Nat
      BY <1>1
    <3>2. QED
      BY <3>1
  <2>2. ~CalmQuiet
    BY <2>1, CalmItems
  <2>3. ~(LoopDecide \/ \E t \in Threads : EodSubmit(t))
    BY <1>1, <2>1, SubmitsHand
  <2>4. ~(LoopRecord \/ \E t \in Threads : Collect(t) \/ EodRecord(t))
    BY <2>1 DEF LoopRecord, Collect, EodRecord, broker
  <2>5. ~ReconcileOrder
    BY <2>1 DEF ReconcileOrder, broker
  <2>6. QED
    BY <1>1, <2>2, <2>3, <2>4, <2>5, CalmSteps DEF CalmRun
<1>3. PICK i \in DOMAIN queue : \E x : CalmTakes(i, x)
  BY <1>1, <1>2, CalmExecutes
<1>4. PICK x : CalmTakes(i, x)
  BY <1>3
<1> DEFINE r == queue[i]
           p == Placed(r, "filled")
           s == r.sym
           F == Flying(s)
           l == ledger[s]
<1>5. orders' = Append(orders, p) /\ r \in Requests
  BY <1>4 DEF CalmTakes
<1>6. p \in Orders /\ p.sym = s /\ p.side = r.side /\ p.qty = r.qty /\ p.act = r.act
  BY <1>5 DEF Placed, Orders, Requests, Acts
<1>7. o = p
  <2> HIDE DEF p
  <2>1. QED
    BY <1>1, <1>5, <1>6, OrdersStay DEF Last
<1>8. s \in Symbols /\ IsDeal(r) /\ r.act \in Exits
  BY <1>5, <1>6, <1>7 DEF Requests, IsDeal
<1>9. slot # "done"
  <2>1. CASE IsExit(r)
    BY <1>1, <2>1 DEF ExitsQueued
  <2>2. CASE ~IsExit(r)
    BY <1>1, <2>2 DEF Trading, CalmRun, Turns
  <2>3. QED
    BY <2>1, <2>2
<1>10. Book(s)
  BY <1>1, <1>8, <1>9 DEF Books
<1>11. Fits(l, r) /\ \A j \in F : orders[j].act \in Opens
  BY <1>10 DEF Book, InQueue
<1>12. l \in Int /\ Booked(s)
  BY <1>1, <1>8, <1>10, EngineParts DEF Book
<1>13. Sign(Engine(s)) = -r.side /\ r.qty <= Size(Engine(s))
  <2>1. CASE F = {}
    <3>1. Engine(s) = l
      BY <1>1, <1>8, <1>12, <2>1, EngineParts
    <3> HIDE DEF l
    <3>2. QED
      BY <1>8, <1>11, <1>12, <3>1, ExitReduces
  <2>2. CASE F # {}
    <3>1. PICK j \in F : TRUE
      BY <2>2
    <3>2. \A a, b \in F : (IsExit(orders[a]) <=> IsExit(orders[b])) => a = b
      BY <1>10 DEF Book, InAir
    <3>3. F = {j}
      BY <1>11, <3>1, <3>2, ActsApart
    <3>4. j \in DOMAIN orders /\ IsDeal(orders[j])
      BY <1>1, <3>1, OrdersKnown DEF Flying
    <3>5. Engine(s) = l + Move(orders[j])
      BY <1>1, <1>8, <1>12, <3>3, <3>4, EngineParts
    <3>6. Fits(l, orders[j]) /\ orders[j].act \in Opens
      BY <1>10, <1>11, <3>1 DEF Book, InAir
    <3> HIDE DEF l
    <3>7. QED
      BY <1>8, <1>11, <1>12, <3>4, <3>5, <3>6, ExitReduces
  <2>3. QED
    BY <2>1, <2>2
<1>14. QED
  BY <1>6, <1>7, <1>13

\* In such a run an exit that reaches the broker is on the other side of what the engine
\* holds at that moment and not larger, although it was sized from a ledger and a broker
\* call older than the order (_exit_qty_for, build_eod_exit_plan).
THEOREM ExitsOnlyReduce == Spec => CalmExitsReduce
  BY ReducesNow, CalmInvariant, PTL DEF Spec, CalmExitsReduce

-----------------------------------------------------------------------------
(* Exits on record                                                         *)

\* The exits whose record is written when they are submitted.
Written == Exits \ {"MARKET_CLOSE_EXIT"}

\* What may be kept for s when D are the symbols on record.
Kept(s, D) == {c \in [req : Requests, id : Nat] : c.req.act \in Written => s \in D}
KeptCopies(D) ==
    {e \in [sym : Symbols, ctx : [req : Requests, id : Nat]] : e.ctx \in Kept(e.sym, D)}

\* The record is there before the exit is pending, whose thread ever submitted it.
DocsPending ==
    /\ \A s \in Symbols : pending[s] \in Seq(Kept(s, exitDocs))
    /\ rcopy \in Seq(KeptCopies(exitDocs))

\* Between the top of the loop and its decision a new record is also noted in memory.
DocsKnown == pc["loop"] \in {"fetch", "decide"} => active \cap exitDocs \subseteq exited

LEMMA KeptWidens ==
    ASSUME NEW D, NEW E, D \subseteq E
    PROVE  /\ \A s : Seq(Kept(s, D)) \subseteq Seq(Kept(s, E))
           /\ Seq(KeptCopies(D)) \subseteq Seq(KeptCopies(E))
<1>1. \A s : Kept(s, D) \subseteq Kept(s, E)
  BY DEF Kept
<1>2. KeptCopies(D) \subseteq KeptCopies(E)
  BY <1>1 DEF KeptCopies
<1>3. QED
  BY <1>1, <1>2, SeqWidens

\* A record is never taken back.
LEMMA DocsStay ==
    ASSUME DocsPending, UNCHANGED <<pending, rcopy>>, exitDocs \subseteq exitDocs'
    PROVE  DocsPending'
  BY KeptWidens DEF DocsPending

LEMMA DocsPends ==
    ASSUME ItemTypes, DocsPending, exitDocs \subseteq exitDocs', rcopy' = rcopy,
           NEW s \in Symbols, NEW c \in Taken(Len(orders)), AddPending(s, c),
           c.req.act \in Written => s \in exitDocs'
    PROVE  DocsPending'
<1>1. c \in Kept(s, exitDocs')
  BY DEF ItemTypes, Taken, Kept
<1>2. \A x \in Symbols : pending[x] \in Seq(Kept(x, exitDocs'))
  BY KeptWidens DEF DocsPending
<1>3. /\ pending' = [pending EXCEPT ![s] = Append(@, c)]
      /\ pending \in [Symbols -> Seq(Taken(Len(orders)))]
  BY DEF AddPending, ItemTypes
<1>4. Append(pending[s], c) \in Seq(Kept(s, exitDocs'))
  <2> DEFINE K == Kept(s, exitDocs')
  <2>1. pending[s] \in Seq(K) /\ c \in K
    BY <1>1, <1>2
  <2> HIDE DEF K
  <2>2. Append(pending[s], c) \in Seq(K)
    BY <2>1
  <2>3. QED
    BY <2>2 DEF K
<1>5. \A x \in Symbols : pending'[x] \in Seq(Kept(x, exitDocs'))
  <2> TAKE x \in Symbols
  <2>1. pending'[x] = IF x = s THEN Append(pending[s], c) ELSE pending[x]
    BY <1>3
  <2>2. QED
    BY <1>2, <1>4, <2>1
<1>6. QED
  BY <1>5, KeptWidens DEF DocsPending

\* The loop writes the record of a stop-loss as it makes the order pending; an order of the
\* square-off is kept as MARKET_CLOSE_EXIT, which needs none.
LEMMA RecordDocs ==
    ASSUME ItemTypes, DocsPending, LoopRecord
    PROVE  DocsPending'
<1> DEFINE L == "loop"
           O == Outcomes(Len(orders))
           res == Head(got[L])
<1>0. L \in Threads /\ got[L] # << >> /\ rcopy' = rcopy
  BY DEF Threads, LoopRecord, recVars
<1>1. got[L] \in Seq(O) /\ Len(orders) \in Nat
  BY <1>0 DEF ItemTypes
<1>2. res \in O
  <2> HIDE DEF O, L
  <2>1. QED
    BY <1>0, <1>1
<1>3. \/ UNCHANGED <<pending, exitDocs>>
      \/ /\ res.id # 0 /\ AddPending(res.req.sym, res)
         /\ exitDocs' = exitDocs \cup {x \in {res.req.sym} :
                res.req.act \in {"EXIT_LONG", "COVER_SHORT", "STOP_LOSS"}}
  BY DEF LoopRecord
<1> HIDE DEF res
<1>4. CASE UNCHANGED <<pending, exitDocs>>
  BY <1>0, <1>4, DocsStay
<1>5. CASE /\ res.id # 0 /\ AddPending(res.req.sym, res)
           /\ exitDocs' = exitDocs \cup {x \in {res.req.sym} :
                  res.req.act \in {"EXIT_LONG", "COVER_SHORT", "STOP_LOSS"}}
  <2>0. res.id # 0 /\ res \in Outcomes(Len(orders)) /\ Len(orders) \in Nat
    BY <1>1, <1>2, <1>5
  <2>1. res \in Taken(Len(orders)) /\ res.req.sym \in Symbols
    BY <2>0, OutcomePlaced
  <2>2. exitDocs \subseteq exitDocs' /\ (res.req.act \in Written => res.req.sym \in exitDocs')
    BY <1>5 DEF Written, Exits
  <2>3. QED
    BY <1>0, <1>5, <2>1, <2>2, DocsPends
<1>6. QED
  BY <1>3, <1>4, <1>5

LEMMA EodRecordDocs ==
    ASSUME ItemTypes, DocsPending, NEW t \in Threads, EodRecord(t)
    PROVE  DocsPending'
<1> DEFINE O == Outcomes(Len(orders))
           res == Head(got[t])
           kept == [res EXCEPT !.req.act = "MARKET_CLOSE_EXIT", !.req.held = res.req.side]
<1>0. got[t] # << >> /\ rcopy' = rcopy /\ exitDocs' = exitDocs
  BY DEF EodRecord, recVars, books
<1>1. got[t] \in Seq(O) /\ Len(orders) \in Nat
  BY DEF ItemTypes
<1>2. res \in O
  <2> HIDE DEF O
  <2>1. QED
    BY <1>0, <1>1
<1>3. UNCHANGED pending \/ (res.id # 0 /\ AddPending(res.req.sym, kept))
  BY DEF EodRecord
<1> HIDE DEF res
<1>4. CASE UNCHANGED pending
  BY <1>0, <1>4, DocsStay
<1>5. CASE res.id # 0 /\ AddPending(res.req.sym, kept)
  <2>0. res.id # 0 /\ res \in Outcomes(Len(orders)) /\ Len(orders) \in Nat
    BY <1>1, <1>2, <1>5
  <2>1. res.req.sym \in Symbols /\ kept \in Taken(Len(orders))
    BY <2>0, OutcomePlaced
  <2>2. kept.req.act \notin Written
    BY <1>2 DEF Written, Outcomes, Requests
  <2> HIDE DEF kept
  <2>3. QED
    BY <1>0, <1>5, <2>1, <2>2, DocsPends
<1>6. QED
  BY <1>3, <1>4, <1>5

LEMMA ExitRecordDocs ==
    ASSUME ItemTypes, Answered, DocsPending, ExitRecord
    PROVE  DocsPending'
<1> DEFINE M == "monitor"
           O == Outcomes(Len(orders))
           res == Head(got[M])
           s == batch[M][1].sym
<1>0. M \in Threads /\ got[M] # << >> /\ batch[M] # << >> /\ rcopy' = rcopy
  BY DEF Threads, Answered, ExitRecord, recVars
<1>1. \/ UNCHANGED <<pending, exitDocs>>
      \/ res.id # 0 /\ AddPending(s, res) /\ exitDocs' = exitDocs \cup {s}
  BY DEF ExitRecord
<1>2. got[M] \in Seq(O) /\ Len(orders) \in Nat /\ batch[M] \in Seq(Requests)
  BY <1>0 DEF ItemTypes
<1>3. s \in Symbols
  <2>1. batch[M][1] \in Requests
    BY <1>0, <1>2
  <2>2. QED
    BY <2>1 DEF Requests
<1>4. res \in O
  <2> HIDE DEF O, M
  <2>1. QED
    BY <1>0, <1>2
<1> HIDE DEF res, s
<1>5. CASE res.id # 0 /\ AddPending(s, res) /\ exitDocs' = exitDocs \cup {s}
  <2>0. res.id # 0 /\ res \in Outcomes(Len(orders)) /\ Len(orders) \in Nat
    BY <1>2, <1>4, <1>5
  <2>1. res \in Taken(Len(orders))
    BY <2>0, OutcomePlaced
  <2>2. QED
    BY <1>0, <1>3, <1>5, <2>1, DocsPends
<1>6. QED
  BY <1>0, <1>1, <1>5, DocsStay

\* The reconciler's copy holds what was pending for the symbol.
LEMMA CopyDocs ==
    ASSUME DocsPending, NEW s \in Symbols, ReconcileSymbol(s)
    PROVE  DocsPending'
<1> DEFINE K == Kept(s, exitDocs)
           E == KeptCopies(exitDocs)
<1>1. /\ rcopy' = [i \in DOMAIN pending[s] |-> [sym |-> s, ctx |-> pending[s][i]]]
      /\ UNCHANGED <<pending, exitDocs>>
  BY DEF ReconcileSymbol, books
<1>2. pending[s] \in Seq(K)
  BY DEF DocsPending
<1>3. \A c \in K : [sym |-> s, ctx |-> c] \in E
  BY DEF Kept, KeptCopies
<1>4. rcopy' \in Seq(E)
  <2> HIDE DEF K, E
  <2>1. /\ Len(pending[s]) \in Nat /\ DOMAIN pending[s] = 1 .. Len(pending[s])
        /\ \A i \in DOMAIN pending[s] : pending[s][i] \in K
    BY <1>2
  <2>2. rcopy' \in [1 .. Len(pending[s]) -> E]
    BY <1>1, <1>3, <2>1
  <2>3. QED
    BY <2>1, <2>2, FunctionSeq
<1>5. QED
  BY <1>1, <1>4 DEF DocsPending

\* A fill writes no record that is not there.
LEMMA ReconcileDocs ==
    ASSUME ItemTypes, DocsPending, ReconcileOrder
    PROVE  /\ DocsPending'
           /\ exitDocs' = exitDocs /\ exited \subseteq exited'
           /\ UNCHANGED <<pc, active>>
<1>1. PICK s, c : /\ Looks(s, c) /\ rcopy' = Tail(rcopy)
                  /\ \/ Keep
                     \/ /\ Settle(s, c)
                        /\ \/ \E q, priced : HandleFilled(s, c.req, q, priced)
                           \/ UNCHANGED books
                  /\ UNCHANGED <<pc, active>>
  BY OrderReconciled DEF threads, loopVars
<1> DEFINE E == KeptCopies(exitDocs)
<1>2. rcopy \in Seq(E) /\ rcopy # << >>
  BY <1>1 DEF DocsPending, Looks
<1>3. Head(rcopy) \in E /\ Tail(rcopy) \in Seq(E)
  <2> HIDE DEF E
  <2>1. QED
    BY <1>2
<1>4. c.req.act \in Written => s \in exitDocs
  BY <1>1, <1>3 DEF Looks, KeptCopies, Kept
<1>5. s \in Symbols /\ c.req.act \in Opens \cup Flips \cup Exits
  BY <1>1, LooksTyped
<1>6. exitDocs' = exitDocs /\ exited \subseteq exited'
  <2>1. CASE Keep \/ UNCHANGED books
    BY <2>1 DEF Keep, books
  <2>2. ASSUME NEW q, NEW priced, HandleFilled(s, c.req, q, priced)
        PROVE  exitDocs' = exitDocs /\ exited \subseteq exited'
    <3>1. CASE c.req.act \in Exits
      <4>1. \/ UNCHANGED <<exited, exitDocs>>
            \/ /\ c.req.act # "MARKET_CLOSE_EXIT"
               /\ exitDocs' = exitDocs \cup {s}
               /\ exited' = exited \cup {x \in {s} : positions'[s] = 0 /\ cache[s] = 0}
        BY <2>2, <3>1 DEF HandleFilled
      <4>2. QED
        BY <1>4, <3>1, <4>1 DEF Written
    <3>2. CASE c.req.act \notin Exits
      BY <1>5, <2>2, <3>2 DEF HandleFilled, Exits, Flips, Opens
    <3>3. QED
      BY <3>1, <3>2
  <2>3. QED
    BY <1>1, <2>1, <2>2
<1>7. \A x \in Symbols : pending'[x] \in Seq(Kept(x, exitDocs))
  <2>1. CASE Keep
    BY <2>1 DEF Keep, DocsPending
  <2>2. CASE Settle(s, c)
    <3> DEFINE q == RemoveFirst(pending[s], c)
    <3>1. pending' = [pending EXCEPT ![s] = q] /\ pending \in [Symbols -> Seq(Taken(Len(orders)))]
      BY <2>2 DEF Settle, ItemTypes
    <3>2. q \in Seq(Kept(s, exitDocs))
      BY <1>5, RemoveFirstTyped DEF DocsPending
    <3> HIDE DEF q
    <3>3. \A x \in Symbols : pending'[x] = IF x = s THEN q ELSE pending[x]
      BY <1>5, <3>1
    <3>4. QED
      BY <3>2, <3>3 DEF DocsPending
  <2>3. QED
    BY <1>1, <2>1, <2>2
<1>8. QED
  BY <1>1, <1>3, <1>6, <1>7 DEF DocsPending

LEMMA QuietDocs ==
    ASSUME Quiet
    PROVE  exitDocs' = exitDocs
<1>1. CASE WorkerStop \/ MarketCloses \/ \E s \in Symbols, d \in {Buy, Sell} : UserTrades(s, d)
  BY <1>1 DEF WorkerStop, MarketCloses, UserTrades, books
<1>2. CASE ReconcileBegin \/ ReconcileFetch \/ ReconcileEnd \/ \E s \in Symbols : ReconcileSymbol(s)
  BY <1>2 DEF ReconcileBegin, ReconcileFetch, ReconcileEnd, ReconcileSymbol, books
<1>3. CASE LoopTop \/ LoopFetch \/ LoopRecorded \/ LoopCycled
  BY <1>3 DEF LoopTop, LoopFetch, LoopRecorded, LoopCycled, books
<1>4. CASE MonitorStop \/ MonitorJoin
  BY <1>4 DEF MonitorStop, MonitorJoin, books
<1>5. CASE \E t \in Threads : Join(t) \/ EodBegin(t) \/ EodFinish(t)
  BY <1>5 DEF Join, EodBegin, EodFinish, books
<1>6. CASE UNCHANGED vars
  BY <1>6 DEF vars
<1>7. QED
  BY <1>1, <1>2, <1>3, <1>4, <1>5, <1>6 DEF Quiet

LEMMA QuietCopies ==
    ASSUME Quiet
    PROVE  rcopy' = rcopy \/ \E s \in Symbols : ReconcileSymbol(s)
<1>1. CASE WorkerStop \/ MarketCloses \/ \E s \in Symbols, d \in {Buy, Sell} : UserTrades(s, d)
  BY <1>1 DEF WorkerStop, MarketCloses, UserTrades, recVars
<1>2. CASE ReconcileBegin \/ ReconcileFetch \/ ReconcileEnd
  BY <1>2 DEF ReconcileBegin, ReconcileFetch, ReconcileEnd
<1>3. CASE LoopTop \/ LoopFetch \/ LoopRecorded \/ LoopCycled
  BY <1>3 DEF LoopTop, LoopFetch, LoopRecorded, LoopCycled, recVars
<1>4. CASE MonitorStop \/ MonitorJoin
  BY <1>4 DEF MonitorStop, MonitorJoin, recVars
<1>5. CASE \E t \in Threads : Join(t) \/ EodBegin(t) \/ EodFinish(t)
  BY <1>5 DEF Join, EodBegin, EodFinish, recVars
<1>6. CASE UNCHANGED vars
  BY <1>6 DEF vars
<1>7. QED
  BY <1>1, <1>2, <1>3, <1>4, <1>5, <1>6 DEF Quiet

LEMMA DocsPendingStep ==
    ASSUME TypeInv, DocsPending, [Next]_vars
    PROVE  DocsPending'
<1> USE DEF TypeInv
<1>1. CASE Quiet
  BY <1>1, QuietItems, QuietDocs, QuietCopies, CopyDocs, DocsStay
<1>2. CASE Executor \/ LoopDecide \/ (\E i \in DOMAIN orders : OrderSettles(i))
           \/ (\E s \in Symbols : ExitSubmit(s))
  <2>1. UNCHANGED <<pending, rcopy, exitDocs>>
    BY <1>2 DEF Executor, Execute, LoopDecide, OrderSettles, ExitSubmit, recVars, books
  <2>2. QED
    BY <2>1, DocsStay
<1>3. ASSUME NEW t \in Threads, Collect(t) \/ CollectTimeout(t) \/ EodSubmit(t) \/ EodAfter(t)
      PROVE  DocsPending'
  <2>1. UNCHANGED <<pending, rcopy, exitDocs>>
    BY <1>3 DEF Collect, CollectTimeout, EodSubmit, EodAfter, recVars, books
  <2>2. QED
    BY <2>1, DocsStay
<1>4. QED
  BY <1>1, <1>2, <1>3, Steps, RecordDocs, EodRecordDocs, ExitRecordDocs, ReconcileDocs

\* Only the top and the fetch lead to a decision, and only the top changes the symbols.
LEMMA OnlyTheTop ==
    ASSUME SlotInv, [Next]_vars, ~LoopTop
    PROVE  /\ active' = active
           /\ pc'["loop"] \in {"fetch", "decide"} => pc["loop"] \in {"fetch", "decide"}
<1> DEFINE L == "loop"
           Holds == pc'[L] \in {"fetch", "decide"} => pc[L] \in {"fetch", "decide"}
<1>0. L \in Threads /\ "monitor" \in Threads /\ pc \in [Threads -> Pcs]
  BY DEF Threads, SlotInv
<1>1. CASE Executor \/ Outside \/ Reconciler \/ UNCHANGED vars
  BY <1>1 DEF Executor, Execute, Outside, OrderSettles, UserTrades, MarketCloses, WorkerStop,
         Reconciler, ReconcileBegin, ReconcileFetch, ReconcileOrder, ReconcileEnd,
         ReconcileSymbol, vars, threads, loopVars
<1>2. CASE Loop
  <2>1. active' = active
    BY <1>2 DEF Loop, LoopFetch, LoopDecide, LoopRecord, LoopRecorded, LoopCycled, loopVars
  <2>2. Holds
    <3>1. CASE LoopFetch
      BY <3>1 DEF LoopFetch, AtLoop
    <3>2. CASE LoopDecide
      BY <3>2 DEF LoopDecide, AtLoop
    <3>3. CASE LoopRecord \/ LoopRecorded
      BY <1>0, <3>3 DEF LoopRecord, LoopRecorded, AtLoop, Goto
    <3>4. CASE LoopCycled
      BY <1>0, <3>4 DEF LoopCycled, BeginSquareOff, Goto
    <3>5. QED
      BY <1>2, <3>1, <3>2, <3>3, <3>4 DEF Loop
  <2>3. QED
    BY <2>1, <2>2
<1>3. CASE Monitor
  <2>1. active' = active
    BY <1>3 DEF Monitor, MonitorStop, MonitorJoin, ExitRecord, ExitSubmit, loopVars
  <2>2. pc'[L] = pc[L]
    BY <1>0, <1>3 DEF Monitor, MonitorStop, MonitorJoin, ExitRecord, ExitSubmit, BeginSquareOff,
                      Goto, Submit
  <2>3. QED
    BY <2>1, <2>2
<1>4. ASSUME NEW t \in Threads, Shared(t)
      PROVE  active' = active /\ Holds
  <2>1. active' = active
    BY <1>4 DEF Shared, Collect, CollectTimeout, Join, EodBegin, EodSubmit, EodRecord, EodFinish,
                EodAfter, loopVars
  <2>2. \/ pc' = pc
        \/ \E p \in {"record", "plan", "after", "collect", "ended"} : pc' = [pc EXCEPT ![t] = p]
    BY <1>4 DEF Shared, Collect, CollectTimeout, Join, EodBegin, EodSubmit, EodRecord, EodFinish,
                EodAfter, Goto, Submit
  <2>3. QED
    BY <1>0, <2>1, <2>2
<1>5. QED
  BY <1>1, <1>2, <1>3, <1>4 DEF Next

LEMMA QuietExited ==
    ASSUME Quiet, ~LoopTop
    PROVE  exited' = exited
<1>1. CASE WorkerStop \/ MarketCloses \/ \E s \in Symbols, d \in {Buy, Sell} : UserTrades(s, d)
  BY <1>1 DEF WorkerStop, MarketCloses, UserTrades, books
<1>2. CASE ReconcileBegin \/ ReconcileFetch \/ ReconcileEnd \/ \E s \in Symbols : ReconcileSymbol(s)
  BY <1>2 DEF ReconcileBegin, ReconcileFetch, ReconcileEnd, ReconcileSymbol, books
<1>3. CASE LoopFetch \/ LoopRecorded \/ LoopCycled
  BY <1>3 DEF LoopFetch, LoopRecorded, LoopCycled, books
<1>4. CASE MonitorStop \/ MonitorJoin
  BY <1>4 DEF MonitorStop, MonitorJoin, books
<1>5. CASE \E t \in Threads : Join(t) \/ EodBegin(t) \/ EodFinish(t)
  BY <1>5 DEF Join, EodBegin, EodFinish, books
<1>6. CASE UNCHANGED vars
  BY <1>6 DEF vars
<1>7. QED
  BY <1>1, <1>2, <1>3, <1>4, <1>5, <1>6 DEF Quiet

\* What takes the loop from its decision to its orders is its decision.
LEMMA DecidesAlone ==
    ASSUME SlotInv, [Next]_vars, AtLoop("decide"), pc'["loop"] = "collect"
    PROVE  LoopDecide
<1> DEFINE L == "loop"
<1>0. L \in Threads /\ "monitor" \in Threads /\ pc \in [Threads -> Pcs] /\ pc[L] = "decide"
      /\ pc'[L] # pc[L]
  BY DEF Threads, SlotInv, AtLoop
<1>1. ~(Executor \/ Outside \/ Reconciler \/ UNCHANGED vars)
  BY <1>0 DEF Executor, Execute, Outside, OrderSettles, UserTrades, MarketCloses, WorkerStop,
         Reconciler, ReconcileBegin, ReconcileFetch, ReconcileOrder, ReconcileEnd,
         ReconcileSymbol, vars, threads
<1>2. ~(LoopTop \/ LoopFetch \/ LoopRecord \/ LoopRecorded \/ LoopCycled)
  BY <1>0 DEF LoopTop, LoopFetch, LoopRecord, LoopRecorded, LoopCycled, AtLoop
<1>3. ~Monitor
  BY <1>0 DEF Monitor, MonitorStop, MonitorJoin, ExitRecord, ExitSubmit, BeginSquareOff, Goto,
              Submit
<1>4. ASSUME NEW t \in Threads, Shared(t)
      PROVE  FALSE
  <2>1. pc[t] # "decide"
    BY <1>4 DEF Shared, Collect, CollectTimeout, Join, EodBegin, EodSubmit, EodRecord,
                EodFinish, EodAfter
  <2>2. pc' = pc \/ \E p : pc' = [pc EXCEPT ![t] = p]
    BY <1>4 DEF Shared, Collect, CollectTimeout, Join, EodBegin, EodSubmit, EodRecord,
                EodFinish, EodAfter, Goto, Submit
  <2>3. QED
    BY <1>0, <2>1, <2>2
<1>5. QED
  BY <1>1, <1>2, <1>3, <1>4 DEF Next, Loop

\* Without its top the loop's list may lack a symbol on record only if it is noted.
LEMMA DocsKnownStep ==
    ASSUME SlotInv, TypeInv, DocsPending, DocsKnown, [Next]_vars
    PROVE  DocsKnown'
<1>1. CASE LoopTop
  <2>1. CASE stop
    <3>1. pc'["loop"] = "begin"
      BY <1>1, <2>1 DEF LoopTop, BeginSquareOff, Goto, SlotInv, Threads
    <3>2. QED
      BY <3>1 DEF DocsKnown
  <2>2. CASE ~stop
    <3>1. exited' = exited \cup exitDocs /\ exitDocs' = exitDocs
      BY <1>1, <2>2 DEF LoopTop
    <3>2. QED
      BY <3>1 DEF DocsKnown
  <2>3. QED
    BY <2>1, <2>2
<1>2. ASSUME ~LoopTop, exited \subseteq exited', exitDocs' \subseteq exitDocs \cup exited'
      PROVE  DocsKnown'
  <2>1. /\ active' = active
        /\ pc'["loop"] \in {"fetch", "decide"} => pc["loop"] \in {"fetch", "decide"}
    BY <1>2, OnlyTheTop
  <2>2. QED
    BY <1>2, <2>1 DEF DocsKnown
<1>3. ASSUME ~LoopTop, UNCHANGED <<exited, exitDocs>>
      PROVE  DocsKnown'
  BY <1>2, <1>3
<1>4. ASSUME ~LoopTop, pc'["loop"] \notin {"fetch", "decide"}
      PROVE  DocsKnown'
  BY <1>4 DEF DocsKnown
<1>5. CASE Quiet /\ ~LoopTop
  <2>1. exited' = exited
    BY <1>5, QuietExited
  <2>2. QED
    BY <1>3, <1>5, <2>1, QuietDocs
<1>6. CASE /\ ~LoopTop
           /\ Executor \/ LoopDecide \/ (\E i \in DOMAIN orders : OrderSettles(i))
              \/ \E s \in Symbols : ExitSubmit(s)
  <2>1. UNCHANGED <<exited, exitDocs>>
    BY <1>6 DEF Executor, Execute, LoopDecide, OrderSettles, ExitSubmit, books
  <2>2. QED
    BY <1>3, <1>6, <2>1
<1>7. CASE LoopRecord
  <2>1. pc'["loop"] = "record" /\ ~LoopTop
    BY <1>7 DEF LoopRecord, LoopTop, AtLoop
  <2>2. QED
    BY <1>4, <2>1
<1>8. CASE ExitRecord
  <2>1. ~LoopTop \/ LoopTop
    OBVIOUS
  <2>2. exited \subseteq exited' /\ exitDocs' \subseteq exitDocs \cup exited'
    BY <1>8 DEF ExitRecord
  <2>3. QED
    BY <1>1, <1>2, <2>1, <2>2
<1>9. CASE ReconcileOrder
  <2>1. exitDocs' = exitDocs /\ exited \subseteq exited'
    BY <1>9, ReconcileDocs DEF TypeInv
  <2>2. QED
    BY <1>1, <1>2, <2>1
<1>10. ASSUME NEW t \in Threads, ~LoopTop,
              Collect(t) \/ CollectTimeout(t) \/ EodSubmit(t) \/ EodRecord(t) \/ EodAfter(t)
       PROVE  DocsKnown'
  <2>1. UNCHANGED <<exited, exitDocs>>
    BY <1>10 DEF Collect, CollectTimeout, EodSubmit, EodRecord, EodAfter, books
  <2>2. QED
    BY <1>3, <1>10, <2>1
<1>11. QED
  BY <1>1, <1>5, <1>6, <1>7, <1>8, <1>9, <1>10, Steps

\* A request is for the symbol whose signal it answers, and no exited symbol has one.
LEMMA ScenarioOwn ==
    ASSUME NEW s, NEW sig, NEW r \in Scenario(s, sig)
    PROVE  r.sym = s /\ s \notin exited
<1>1. s \notin exited
  BY DEF Scenario
<1>2. \/ r \in StopLoss(s)
      \/ \E d \in {Buy, Sell} : r \in Open(s, d) \cup Flip(s, d) \cup Expand(s, d)
  <2>1. CASE sig = "STOP"
    BY <2>1 DEF Scenario
  <2>2. CASE sig # "STOP"
    <3> DEFINE d == IF sig = "BUY" THEN Buy ELSE Sell
    <3>1. Scenario(s, sig) = CASE view[s] = 0 -> Open(s, d)
                               [] Sign(view[s]) = -d -> Flip(s, d)
                               [] OTHER -> Expand(s, d)
      BY <2>2 DEF Scenario
    <3>2. d \in {Buy, Sell}
      OBVIOUS
    <3> HIDE DEF d
    <3>3. QED
      BY <3>1, <3>2
  <2>3. QED
    BY <2>1, <2>2
<1>3. r.sym = s
  <2>1. CASE r \in StopLoss(s)
    BY <2>1 DEF StopLoss, Request
  <2>2. ASSUME NEW d, r \in Open(s, d) \cup Flip(s, d) \cup Expand(s, d)
        PROVE  r.sym = s
    BY <2>2 DEF Open, Flip, Expand, Request
  <2>3. QED
    BY <1>2, <2>1, <2>2
<1>4. QED
  BY <1>1, <1>3

LEMMA DecideSpares ==
    SlotInv /\ TypeInv /\ DocsKnown /\ [Next]_vars =>
        [AtLoop("decide") /\ pc'["loop"] = "collect" =>
            \A i \in DOMAIN batch'["loop"] : batch'["loop"][i].sym \notin exitDocs]_vars
<1> SUFFICES ASSUME SlotInv, TypeInv, DocsKnown, [Next]_vars, AtLoop("decide"), pc'["loop"] = "collect",
                    NEW i \in DOMAIN batch'["loop"]
             PROVE  batch'["loop"][i].sym \notin exitDocs
  OBVIOUS
<1>0. "loop" \in Threads /\ pc["loop"] = "decide" /\ batch \in [Threads -> Seq(Requests)]
  BY DEF Threads, AtLoop, TypeInv, ItemTypes
<1>1. LoopDecide
  BY DecidesAlone
<1>2. PICK sig : CycleOf(sig) # {} /\ Submit("loop", SetToSeq(CycleOf(sig)), "cycle")
  <2>1. PICK sig : \/ Goto("loop", "cycled")
                   \/ CycleOf(sig) # {} /\ Submit("loop", SetToSeq(CycleOf(sig)), "cycle")
    BY <1>1, DecideStep
  <2>2. ~Goto("loop", "cycled")
    BY <1>0 DEF Goto, SlotInv
  <2>3. QED
    BY <2>1, <2>2
<1>3. batch'["loop"] = SetToSeq(CycleOf(sig))
  BY <1>0, <1>2 DEF Submit
<1>4. IsFiniteSet(CycleOf(sig))
  BY CycleTyped DEF CycleOf, TypeInv
<1>5. batch'["loop"][i] \in CycleOf(sig)
  BY <1>3, <1>4, SetSeq
<1>6. PICK s \in active : batch'["loop"][i] \in Scenario(s, sig[s])
  BY <1>5 DEF CycleOf
<1>7. batch'["loop"][i].sym = s /\ s \notin exited
  BY <1>6, ScenarioOwn
<1>8. QED
  BY <1>0, <1>6, <1>7 DEF DocsKnown

LEMMA DocsInit == Init => DocsPending /\ DocsKnown
<1> SUFFICES ASSUME Init PROVE DocsPending /\ DocsKnown
  OBVIOUS
<1>1. \A S : << >> \in Seq(S)
  OBVIOUS
<1>2. QED
  BY <1>1 DEF Init, DocsPending, DocsKnown

\* An exit, whoever submitted it and whatever became of it, is on record before it is
\* pending, and no later cycle trades its symbol: also not when the record is written by
\* the other thread between the loop's top and its decision, or the position is back at
\* the broker (the top of the loop in trader.py, exit_tracker.py, order_fill.py).
THEOREM NeverReentered == Spec => NeverReenters
  BY SlotInvInit, SlotInvStep, TypeInvInit, TypeInvStep, DocsInit, DocsPendingStep,
     DocsKnownStep, DecideSpares, PTL DEF Spec, NeverReenters

-----------------------------------------------------------------------------
(* The end of trading                                                      *)

\* Somebody waits for every order in the queue.
Awaited == queue # << >> => Collecting

\* What a thread collects for: the loop its cycle or a square-off, the monitor an exit or
\* a square-off.
OwnJobs ==
    /\ job["loop"] # "exit"
    /\ pc["monitor"] \in {"collect", "record"} => job["monitor"] # "cycle"

DoneInv == Awaited /\ OwnJobs /\ (Patient => Turns)

\* A collecting thread goes on collecting until nothing is queued.
LEMMA CollectsOn ==
    ASSUME SlotInv, [Next]_vars, NEW t \in Threads, pc[t] = "collect"
    PROVE  pc'[t] = "collect" \/ queue' = << >>
<1>0. "loop" \in Threads /\ "monitor" \in Threads /\ pc \in [Threads -> Pcs]
  BY DEF Threads, SlotInv
<1>1. CASE Executor \/ Outside \/ Reconciler \/ UNCHANGED vars
  BY <1>1 DEF Executor, Execute, Outside, OrderSettles, UserTrades, MarketCloses, WorkerStop,
         Reconciler, ReconcileBegin, ReconcileFetch, ReconcileOrder, ReconcileEnd,
         ReconcileSymbol, vars, threads
<1>2. ASSUME NEW u \in Threads, pc[u] # "collect", pc' = pc \/ \E p : pc' = [pc EXCEPT ![u] = p]
      PROVE  pc'[t] = "collect"
  BY <1>0, <1>2
<1>3. CASE Loop
  <2>1. pc["loop"] # "collect"
    BY <1>3 DEF Loop, LoopTop, LoopFetch, LoopDecide, LoopRecord, LoopRecorded, LoopCycled, AtLoop
  <2>2. pc' = pc \/ \E p : pc' = [pc EXCEPT !["loop"] = p]
    BY <1>3 DEF Loop, LoopTop, LoopFetch, LoopDecide, LoopRecord, LoopRecorded, LoopCycled,
                BeginSquareOff, Goto, Submit, threads
  <2>3. QED
    BY <1>0, <1>2, <2>1, <2>2
<1>4. CASE Monitor
  <2>1. pc["monitor"] # "collect"
    BY <1>4 DEF Monitor, MonitorStop, MonitorJoin, ExitRecord, ExitSubmit, Watching
  <2>2. pc' = pc \/ \E p : pc' = [pc EXCEPT !["monitor"] = p]
    BY <1>4 DEF Monitor, MonitorStop, MonitorJoin, ExitRecord, ExitSubmit, BeginSquareOff,
                Goto, Submit
  <2>3. QED
    BY <1>0, <1>2, <2>1, <2>2
<1>5. ASSUME NEW u \in Threads, Shared(u)
      PROVE  pc'[t] = "collect" \/ queue' = << >>
  <2>1. CASE Collect(u) \/ CollectTimeout(u) \/ EodRecord(u)
    BY <2>1 DEF Collect, CollectTimeout, EodRecord
  <2>2. CASE Join(u)
    BY <2>2 DEF Join, exec
  <2>3. CASE EodBegin(u) \/ EodSubmit(u) \/ EodFinish(u) \/ EodAfter(u)
    <3>1. pc[u] # "collect"
      BY <2>3 DEF EodBegin, EodSubmit, EodFinish, EodAfter
    <3>2. pc' = pc \/ \E p : pc' = [pc EXCEPT ![u] = p]
      BY <2>3 DEF EodBegin, EodSubmit, EodFinish, EodAfter, Goto, Submit
    <3>3. QED
      BY <1>2, <3>1, <3>2
  <2>4. QED
    BY <1>5, <2>1, <2>2, <2>3 DEF Shared
<1>6. QED
  BY <1>1, <1>3, <1>4, <1>5 DEF Next

\* The queue fills only when a thread begins to collect.
LEMMA QueueFills ==
    ASSUME TypeInv, SlotInv, [Next]_vars, queue = << >>, queue' # << >>
    PROVE  Collecting'
<1>0. "loop" \in Threads /\ "monitor" \in Threads /\ pc \in [Threads -> Pcs]
  BY DEF Threads, SlotInv
<1>1. ASSUME NEW t \in Threads, NEW q, NEW w, Submit(t, q, w)
      PROVE  Collecting'
  BY <1>0, <1>1 DEF Submit, Collecting
<1>2. ~Executor
  BY DEF Executor, Execute
<1>3. ~Quiet /\ ~ \E t \in Threads : EodAfter(t)
  BY QuietItems
<1>4. ~(LoopRecord \/ ExitRecord \/ ReconcileOrder \/ \E i \in DOMAIN orders : OrderSettles(i))
  BY DEF LoopRecord, ExitRecord, ReconcileOrder, OrderSettles, exec
<1>5. ~ \E t \in Threads : Collect(t) \/ CollectTimeout(t) \/ EodRecord(t)
  BY DEF Collect, CollectTimeout, EodRecord, exec
<1>6. CASE LoopDecide
  <2>1. \E q : Submit("loop", q, "cycle")
    BY <1>6, DecideSubmits DEF TypeInv
  <2>2. QED
    BY <1>0, <1>1, <2>1
<1>7. CASE \E s \in Symbols : ExitSubmit(s)
  <2>1. \E q, w : Submit("monitor", q, w)
    BY <1>7 DEF ExitSubmit, exec
  <2>2. QED
    BY <1>0, <1>1, <2>1
<1>8. ASSUME NEW t \in Threads, EodSubmit(t)
      PROVE  Collecting'
  <2>1. \E q, w : Submit(t, q, w)
    BY <1>8 DEF EodSubmit, exec
  <2>2. QED
    BY <1>1, <2>1
<1>9. QED
  BY <1>2, <1>3, <1>4, <1>5, <1>6, <1>7, <1>8, Steps

LEMMA AwaitedStep ==
    ASSUME TypeInv, SlotInv, Awaited, [Next]_vars
    PROVE  Awaited'
<1> SUFFICES ASSUME queue' # << >> PROVE Collecting'
  BY DEF Awaited
<1>1. CASE queue = << >>
  BY <1>1, QueueFills
<1>2. CASE queue # << >>
  <2>1. PICK t \in Threads : pc[t] = "collect"
    BY <1>2 DEF Awaited, Collecting
  <2>2. pc'[t] = "collect"
    BY <2>1, CollectsOn
  <2>3. QED
    BY <2>2 DEF Collecting
<1>3. QED
  BY <1>1, <1>2

LEMMA OwnJobsStep ==
    ASSUME SlotInv, OwnJobs, [Next]_vars
    PROVE  OwnJobs'
<1> DEFINE L == "loop"
           M == "monitor"
<1>0. L \in Threads /\ M \in Threads /\ pc \in [Threads -> Pcs] /\ job \in [Threads -> Jobs]
  BY DEF Threads, SlotInv
<1>1. CASE Executor \/ Outside \/ Reconciler \/ UNCHANGED vars
  <2>1. UNCHANGED <<pc, job>>
    BY <1>1 DEF Executor, Execute, Outside, OrderSettles, UserTrades, MarketCloses, WorkerStop,
         Reconciler, ReconcileBegin, ReconcileFetch, ReconcileOrder, ReconcileEnd,
         ReconcileSymbol, vars, threads
  <2>2. QED
    BY <2>1 DEF OwnJobs
<1>2. CASE Loop
  <2>1. UNCHANGED job \/ \E j \in {"cycle", "shut", "close"} : job' = [job EXCEPT ![L] = j]
    BY <1>2 DEF Loop, LoopTop, LoopFetch, LoopDecide, LoopRecord, LoopRecorded, LoopCycled,
                BeginSquareOff, Submit
  <2>2. pc' = pc \/ \E p : pc' = [pc EXCEPT ![L] = p]
    BY <1>2 DEF Loop, LoopTop, LoopFetch, LoopDecide, LoopRecord, LoopRecorded, LoopCycled,
                BeginSquareOff, Goto, Submit
  <2>3. pc'[M] = pc[M] /\ job'[M] = job[M] /\ job'[L] # "exit"
    BY <1>0, <2>1, <2>2 DEF OwnJobs
  <2>4. QED
    BY <2>3 DEF OwnJobs
<1>3. CASE Monitor
  <2>1. \/ pc' = pc /\ job' = job
        \/ \E p \in {"joining", "ended", "begin", "watch"} :
              pc' = [pc EXCEPT ![M] = p] /\ (job' = job \/ job' = [job EXCEPT ![M] = "shut"])
        \/ pc' = [pc EXCEPT ![M] = "collect"] /\ job' = [job EXCEPT ![M] = "exit"]
    BY <1>3 DEF Monitor, MonitorStop, MonitorJoin, ExitRecord, ExitSubmit, BeginSquareOff, Goto,
                Submit
  <2>2. QED
    BY <1>0, <2>1 DEF OwnJobs
<1>4. ASSUME NEW t \in Threads, Shared(t)
      PROVE  OwnJobs'
  <2>1. job' = job \/ job' = [job EXCEPT ![t] = job[t]]
    BY <1>4 DEF Shared, Collect, CollectTimeout, Join, EodBegin, EodSubmit, EodRecord,
                EodFinish, EodAfter, Submit
  <2>2. job' = job
    BY <1>0, <2>1
  <2>3. pc'[M] \in {"collect", "record"} =>
           pc[M] \in {"collect", "record"} \/ (t = M /\ pc[M] = "plan")
    <3>1. CASE Collect(t) \/ CollectTimeout(t) \/ EodRecord(t)
      BY <3>1 DEF Collect, CollectTimeout, EodRecord
    <3>2. CASE Join(t)
      BY <1>0, <3>2 DEF Join
    <3>3. CASE EodBegin(t) \/ EodFinish(t) \/ EodAfter(t)
      <4>1. \E p \in {"plan", "after", "ended"} : pc' = [pc EXCEPT ![t] = p]
        BY <3>3 DEF EodBegin, EodFinish, EodAfter, Goto
      <4>2. QED
        BY <1>0, <4>1
    <3>4. CASE EodSubmit(t)
      <4>1. pc[t] = "plan" /\ \E p : pc' = [pc EXCEPT ![t] = p]
        BY <3>4 DEF EodSubmit, Goto, Submit
      <4>2. QED
        BY <1>0, <4>1
    <3>5. QED
      BY <1>4, <3>1, <3>2, <3>3, <3>4 DEF Shared
  <2>4. t = M /\ pc[M] = "plan" => job[M] \in SquareOffs
    BY <1>0 DEF SlotInv, KnowsWhy
  <2>5. QED
    BY <2>2, <2>3, <2>4 DEF OwnJobs, SquareOffs
<1>5. QED
  BY <1>1, <1>2, <1>3, <1>4 DEF Next

LEMMA DoneInvInit == Init => DoneInv
<1> SUFFICES ASSUME Init PROVE DoneInv
  OBVIOUS
<1>1. Awaited /\ OwnJobs
  BY DEF Init, Awaited, OwnJobs, Threads
<1>2. Turns
  BY DEF Init, Turns, Cycling, CyclingAt, Threads
<1>3. QED
  BY <1>1, <1>2 DEF DoneInv

LEMMA DoneInvStep == BaseInv /\ DoneInv /\ [Next]_vars => DoneInv'
<1> SUFFICES ASSUME BaseInv, DoneInv, [Next]_vars PROVE DoneInv'
  OBVIOUS
<1>1. SlotInv /\ TypeInv /\ NoExit /\ Awaited /\ OwnJobs
  BY DEF BaseInv, DoneInv
<1>2. Awaited' /\ OwnJobs'
  BY <1>1, AwaitedStep, OwnJobsStep
<1>3. Patient' => Turns'
  <2>1. Patient' => Patient
    BY RunStays DEF Patient
  <2>2. QED
    BY <1>1, <2>1, TurnsStep DEF DoneInv
<1>4. QED
  BY <1>2, <1>3 DEF DoneInv

\* When the square-off is done no thread waits for a result: the loop has left its cycle,
\* and who squares off has the slot.
LEMMA DoneCollectsNone ==
    ASSUME BaseInv, DoneInv, Patient, slot = "done"
    PROVE  ~Collecting
<1>1. SlotInv /\ NoExit /\ OwnJobs /\ Turns
  BY DEF BaseInv, DoneInv
<1>2. \A t \in Threads : ~Squaring(t)
  BY <1>1 DEF SlotInv, OneSquareOff
<1>3. \A t \in Threads : pc[t] = "collect" => job[t] \in {"cycle", "exit"}
  BY <1>1, <1>2 DEF SlotInv, Jobs, Squaring
<1>4. pc["loop"] # "collect"
  <2>1. ~Cycling
    BY <1>1 DEF Turns
  <2>2. QED
    BY <1>1, <1>3, <2>1 DEF OwnJobs, Cycling, CyclingAt, Threads
<1>5. pc["monitor"] # "collect"
  BY <1>1, <1>3 DEF OwnJobs, NoExit, Patient, Threads
<1>6. QED
  BY <1>4, <1>5 DEF Collecting, Threads

\* Only the executor brings orders to the broker.
LEMMA OrdersGrow ==
    ASSUME TypeInv, [Next]_vars, queue = << >>
    PROVE  Len(orders') = Len(orders)
<1>1. ~Executor
  BY DEF Executor, Execute
<1>2. CASE Quiet \/ \E t \in Threads : EodAfter(t)
  BY <1>2, QuietItems
<1>3. CASE LoopDecide \/ LoopRecord \/ ExitRecord \/ ReconcileOrder
           \/ \E s \in Symbols : ExitSubmit(s)
  BY <1>3 DEF LoopDecide, LoopRecord, ExitRecord, ReconcileOrder, ExitSubmit, broker
<1>4. ASSUME NEW t \in Threads, Collect(t) \/ CollectTimeout(t) \/ EodSubmit(t) \/ EodRecord(t)
      PROVE  orders' = orders
  BY <1>4 DEF Collect, CollectTimeout, EodSubmit, EodRecord, broker
<1>5. ASSUME NEW i \in DOMAIN orders, OrderSettles(i)
      PROVE  Len(orders') = Len(orders)
  <2>1. PICK st : orders' = [orders EXCEPT ![i].state = st]
    BY <1>5 DEF OrderSettles
  <2>2. orders \in Seq(Orders)
    BY DEF TypeInv, ItemTypes
  <2>3. QED
    BY <2>1, <2>2
<1>6. QED
  BY <1>1, <1>2, <1>3, <1>4, <1>5, Steps

LEMMA DoneSendsNone ==
    BaseInv /\ DoneInv /\ [Next]_vars =>
        [slot = "done" /\ Patient => Len(orders') = Len(orders)]_vars
<1> SUFFICES ASSUME BaseInv, DoneInv, [Next]_vars, slot = "done", Patient
             PROVE  Len(orders') = Len(orders)
  OBVIOUS
<1>1. queue = << >>
  BY DoneCollectsNone DEF DoneInv, Awaited
<1>2. QED
  BY <1>1, OrdersGrow DEF BaseInv

\* Once the square-off is done no order of an unfinished cycle or of an earlier, failed
\* square-off reaches the broker, whatever rests, fails or times out: the shutdown has
\* waited for the loop, and who submitted has waited for the queue to empty
\* (trader_thread.join, submit_orders, _exit_all_positions_and_stop).
THEOREM NothingAfterDone == Spec => DoneIsFinal
  BY BaseInvInit, BaseInvStep, DoneInvInit, DoneInvStep, DoneSendsNone, PTL
     DEF Spec, DoneIsFinal
=============================================================================
