----------------------------- MODULE LiveEngine -----------------------------
(***************************************************************************)
(* The live trading engine of one worker process (strategy C): the trader  *)
(* loop, the worker's monitor thread with its manual exits and shutdown,   *)
(* the reconciler that turns pending orders into fills, and the order      *)
(* executor whose result queue the first two share.                        *)
(*                                                                         *)
(* The broker is external.  Prices are left out (every lot costs one unit) *)
(* and the side of an order or a position is a sign: 1 BUY, -1 SELL.       *)
(* What may go wrong in a run is the set irregular, chosen at the start.   *)
(***************************************************************************)
EXTENDS Integers, Sequences, FiniteSets, SequencesExt, SetSums

CONSTANTS
    Symbols,     \* the session's symbols
    Lot,         \* symbol_qty: the quantity of an opening order
    Cap,         \* max_exposure_pct * leverage * initial_capital, in lots' cost
    Irregular,   \* the sets of irregularities a run may have
    MaxOrders,   \* bound: orders the trader loop submits
    MaxExits,    \* bound: manual exit requests
    MaxManual    \* bound: the user's own position, per symbol

Kinds == {"reject",   \* the broker refuses an order
          "rests",    \* an order may rest at the broker before it fills
          "outage",   \* the broker's positions or order book may not be read
          "unpriced", \* a position may be listed with average price 0
          "timeout",  \* a caller may give up on an order that goes through
          "expire",   \* an order may be pending for more than 120 s
          "slow",     \* the loop may outlast the 45 s the shutdown waits for it
          "exit",     \* the user sends manual exit requests
          "manual"}   \* the user trades the same symbols

ASSUME EngineAssumption ==
    /\ IsFiniteSet(Symbols)
    /\ Lot \in Nat \ {0}
    /\ Cap \in Nat
    /\ Irregular \subseteq SUBSET Kinds
    /\ {MaxOrders, MaxExits, MaxManual} \subseteq Nat

VARIABLES
    irregular, \* the irregularities of this run
    late,      \* market_now >= MARKET_EXIT_TIME
    orders,    \* the broker's order book, in the order of the ids
    manual,    \* what the user holds besides the engine
    queue,     \* ParallelOrderExecutor.order_queue
    results,   \* ParallelOrderExecutor.result_queue
    executor,  \* parallel_executor: not created, running, stopped
    pending,   \* pending_orders
    positions, \* positions, signed
    ledger,    \* _session_open_qty
    reserved,  \* reserved_exposure
    sized,     \* the symbols with a symbol_qty
    exited,    \* _exited_symbols
    exitDocs,  \* the symbols with a document in exited_symbols
    cache,     \* _broker_positions_cache, signed
    stop,      \* the trader's stop_event
    wstop,     \* the worker's stop_event
    slot,      \* _eod_exit_in_progress, _eod_exit_done
    active,    \* the loop's symbols
    view,      \* the loop's broker_positions
    pc,        \* where the loop and the monitor are
    job,       \* what the thread submits orders for
    batch,     \* the orders it has submitted
    got,       \* the results it has taken, less those it has dealt with
    exits,     \* manual exits so far
    rleft,     \* the symbols the reconciler has still to look at
    rcopy,     \* its copy of the current symbol's list
    rview,     \* its broker_positions
    rpc        \* where it is

broker   == <<irregular, late, orders, manual>>
exec     == <<queue, results, executor>>
books    == <<positions, ledger, exited, exitDocs>>
loopVars == <<active, view, sized>>
threads  == <<pc, job, batch, got, exits>>
recVars  == <<rleft, rcopy, rview, rpc>>
flags    == <<stop, wstop, slot>>
vars == <<irregular, late, orders, manual, queue, results, executor, pending, positions,
          ledger, reserved, sized, exited, exitDocs, cache, stop, wstop, slot, active,
          view, pc, job, batch, got, exits, rleft, rcopy, rview, rpc>>

Threads == {"loop", "monitor"}
Buy == 1
Sell == -1
Sign(n) == IF n > 0 THEN 1 ELSE IF n < 0 THEN -1 ELSE 0
Size(n) == IF n < 0 THEN -n ELSE n
Least(m, n) == IF m < n THEN m ELSE n
Flat == [s \in Symbols |-> 0]

Opens == {"OPEN_LONG", "OPEN_SHORT", "EXPAND_LONG", "EXPAND_SHORT"}
Flips == {"FLIP_TO_LONG", "FLIP_TO_SHORT"}
Exits == {"EXIT_LONG", "COVER_SHORT", "STOP_LOSS", "MARKET_CLOSE_EXIT"}

\* held is position_side, 0 if the request has none.
Requests == [sym : Symbols, side : {Buy, Sell}, qty : Nat \ {0},
             act : Opens \cup Flips \cup Exits, held : {Buy, Sell, 0}]
Request(s, sd, q, a, h) == [sym |-> s, side |-> sd, qty |-> q, act |-> a, held |-> h]

\* An OrderResult, and the context a pending order is kept with: id 0 is no order.
Outcome(r, i) == [req |-> r, id |-> i]
-----------------------------------------------------------------------------
(* The broker                                                              *)

May(k) == k \in irregular

Bought == [i \in DOMAIN orders |-> orders[i].side * orders[i].qty]
Filled(s) == {i \in DOMAIN orders : orders[i].sym = s /\ orders[i].state = "filled"}

\* What the engine's own orders for s have bought and sold.
Engine(s) == SumOver(Bought, Filled(s))

\* _get_broker_positions: the net of the engine's and the user's trades, and
\* no position at all when the call fails.
BrokerViews == {[s \in Symbols |-> Engine(s) + manual[s]]}
               \cup {v \in {Flat} : May("outage")}

\* _get_fill_details_from_orderbook: 0 until the order has filled, and when the
\* book cannot be read.
FillsSeen(i) == {IF orders[i].state = "filled" THEN orders[i].qty ELSE 0}
                \cup {q \in {0} : May("outage")}

\* A market order rests at the broker or fills at once.
OrderStates == {"filled"} \cup {x \in {"open"} : May("rests")}

Placed(r, st) == [sym |-> r.sym, side |-> r.side, qty |-> r.qty, act |-> r.act,
                  state |-> st]

OrderSettles(i) ==
    /\ orders[i].state = "open"
    /\ \E st \in {"filled"} \cup {x \in {"rejected"} : May("reject")} :
          orders' = [orders EXCEPT ![i].state = st]
    /\ UNCHANGED <<irregular, late, manual, exec, pending, books, reserved, cache,
                   flags, loopVars, threads, recVars>>

\* The user trades one unit of a session symbol by hand.
UserTrades(s, d) ==
    /\ May("manual")
    /\ Size(manual[s] + d) <= MaxManual
    /\ manual' = [manual EXCEPT ![s] = @ + d]
    /\ UNCHANGED <<irregular, late, orders, exec, pending, books, reserved, cache, flags,
                   loopVars, threads, recVars>>

\* It is 15:00.
MarketCloses ==
    /\ ~late
    /\ late' = TRUE
    /\ UNCHANGED <<irregular, orders, manual, exec, pending, books, reserved, cache,
                   flags, loopVars, threads, recVars>>
-----------------------------------------------------------------------------
(* ParallelOrderExecutor                                                   *)

\* A worker places the i-th order and puts the result on the queue all callers
\* share.  An order that gets no id fails; place_order also gives up on a call
\* that is going through.
Execute(i) ==
    /\ \/ /\ \E st \in OrderStates : orders' = Append(orders, Placed(queue[i], st))
          /\ results' = Append(results, Outcome(queue[i], Len(orders) + 1))
       \/ /\ May("reject")
          /\ results' = Append(results, Outcome(queue[i], 0))
          /\ UNCHANGED orders
       \/ /\ May("timeout")
          /\ \E st \in OrderStates : orders' = Append(orders, Placed(queue[i], st))
          /\ results' = Append(results, Outcome(queue[i], 0))
    /\ queue' = RemoveAt(queue, i)
    /\ UNCHANGED <<irregular, late, manual, executor, pending, books, reserved, cache,
                   flags, loopVars, threads, recVars>>

\* submit_orders: every order is queued, then as many results are awaited.
Submit(t, reqs, what) ==
    /\ queue' = queue \o reqs
    /\ batch' = [batch EXCEPT ![t] = reqs]
    /\ got' = [got EXCEPT ![t] = << >>]
    /\ job' = [job EXCEPT ![t] = what]
    /\ pc' = [pc EXCEPT ![t] = "collect"]
    /\ executor' = IF executor = "none" THEN "running" ELSE executor
    /\ UNCHANGED results

\* The next result, whoever's it is.
Collect(t) ==
    /\ pc[t] = "collect"
    /\ Len(got[t]) < Len(batch[t])
    /\ results # << >>
    /\ got' = [got EXCEPT ![t] = Append(@, Head(results))]
    /\ results' = Tail(results)
    /\ UNCHANGED <<broker, queue, executor, pending, books, reserved, cache, flags,
                   loopVars, pc, job, batch, exits, recVars>>

\* No result for 10 s: the caller makes up a failure of its own order.
CollectTimeout(t) ==
    /\ May("timeout")
    /\ pc[t] = "collect"
    /\ Len(got[t]) < Len(batch[t])
    /\ results = << >>
    /\ got' = [got EXCEPT ![t] = Append(@, Outcome(batch[t][Len(@) + 1], 0))]
    /\ UNCHANGED <<broker, exec, pending, books, reserved, cache, flags, loopVars, pc,
                   job, batch, exits, recVars>>

\* order_queue.join.  stop() puts a sentinel per worker that nobody reports
\* done: after it the queue never joins.
Join(t) ==
    /\ pc[t] = "collect"
    /\ Len(got[t]) = Len(batch[t])
    /\ queue = << >>
    /\ executor = "running"
    /\ pc' = [pc EXCEPT ![t] = "record"]
    /\ UNCHANGED <<broker, exec, pending, books, reserved, cache, flags, loopVars, job,
                   batch, got, exits, recVars>>
-----------------------------------------------------------------------------
(* Quantities and reservations                                             *)

\* _exit_qty_for: never more than the ledger or the broker holds; without a
\* ledger entry, what the broker holds.
ExitQty(s, n) == IF ledger[s] = 0 THEN Size(n) ELSE Least(Size(ledger[s]), Size(n))

\* _can_reserve_exposure
CanReserve(s, q) == Size(cache[s]) + reserved[s] + q <= Cap

\* Mutant: what is left of the entry may be negative.
Released_Below(res, s, q) == [res EXCEPT ![s] = @ - q]

\* _release_exposure: the entry goes when nothing is left of it.
Released(res, s, q) == [res EXCEPT ![s] = IF @ > q THEN @ - q ELSE 0]
-----------------------------------------------------------------------------
(* The trader loop                                                         *)

AtLoop(p) == pc["loop"] = p
Goto(t, p) == pc' = [pc EXCEPT ![t] = p]

SquareOffs == {"close", "shut"}

\* _exit_all_positions_and_stop is called, at the market close or from shutdown.
BeginSquareOff(t, why) ==
    /\ Goto(t, "begin")
    /\ job' = [job EXCEPT ![t] = why]

\* Mutant: the documents of earlier exits are not read.
LoopTop_Forgets ==
    /\ AtLoop("top")
    /\ IF stop
       THEN /\ BeginSquareOff("loop", "shut")
            /\ UNCHANGED <<active, stop>>
       ELSE /\ active' = active \ exited
            /\ stop' = (active' = {})
            /\ IF active' # {} /\ late THEN BeginSquareOff("loop", "close")
               ELSE /\ Goto("loop", IF active' = {} THEN "ended" ELSE "fetch")
                    /\ UNCHANGED job
    /\ UNCHANGED <<broker, exec, pending, books, reserved, cache, wstop, slot, view, sized,
                   batch, got, exits, recVars>>

\* The top of the loop: the stop event, the exited symbols, the market close.
LoopTop ==
    /\ AtLoop("top")
    /\ IF stop
       THEN /\ BeginSquareOff("loop", "shut")
            /\ UNCHANGED <<exited, active, stop>>
       ELSE /\ exited' = exited \cup exitDocs
            /\ active' = active \ exited'
            /\ stop' = (active' = {})
            /\ IF active' # {} /\ late THEN BeginSquareOff("loop", "close")
               ELSE /\ Goto("loop", IF active' = {} THEN "ended" ELSE "fetch")
                    /\ UNCHANGED job
    /\ UNCHANGED <<broker, exec, pending, positions, ledger, exitDocs, reserved, cache,
                   wstop, slot, view, sized, batch, got, exits, recVars>>

\* A new candle: one broker call serves the whole cycle.  A stop since the top
\* ends the loop without a shutdown.
LoopFetch ==
    /\ AtLoop("fetch")
    /\ IF stop
       THEN /\ Goto("loop", "ended")
            /\ UNCHANGED <<view, cache>>
       ELSE /\ view' \in BrokerViews
            /\ cache' = view'
            /\ Goto("loop", "decide")
    /\ UNCHANGED <<broker, exec, pending, books, reserved, flags, active, sized, job,
                   batch, got, exits, recVars>>

\* The scenarios of one symbol; pending symbols are left alone.
StopLoss(s) == LET q == ExitQty(s, view[s]) IN
    {Request(s, -Sign(view[s]), q, "STOP_LOSS", Sign(view[s])) : x \in {0} \ {q}}

Open(s, d) ==
    {Request(s, d, Lot, IF d = Buy THEN "OPEN_LONG" ELSE "OPEN_SHORT", 0)
        : x \in {y \in {0} : CanReserve(s, Lot)}}

Flip(s, d) ==
    {Request(s, d, 2 * ExitQty(s, view[s]),
             IF d = Buy THEN "FLIP_TO_LONG" ELSE "FLIP_TO_SHORT", 0)}

Expand(s, d) ==
    {Request(s, d, Lot, IF d = Buy THEN "EXPAND_LONG" ELSE "EXPAND_SHORT", 0)
        : x \in {y \in {0} : s \in sized /\ CanReserve(s, Lot)}}

Scenario(s, sig) ==
    IF sig = "HOLD" \/ s \in exited \/ pending[s] # << >> THEN {}
    ELSE IF sig = "STOP" THEN {r \in StopLoss(s) : view[s] # 0}
    ELSE LET d == IF sig = "BUY" THEN Buy ELSE Sell IN
         CASE view[s] = 0        -> Open(s, d)
           [] Sign(view[s]) = -d -> Flip(s, d)
           [] OTHER              -> Expand(s, d)

Trades == Opens \cup Flips \cup {"STOP_LOSS"}
Submitted == Cardinality({i \in DOMAIN orders : orders[i].act \in Trades})

\* Signals become orders, entries reserve their exposure first.  A symbol the
\* broker does not list and nothing is pending for loses its position.
LoopDecide ==
    /\ AtLoop("decide")
    /\ \E sig \in [active -> {"HOLD", "STOP", "BUY", "SELL"}] :
          LET reqs == UNION {Scenario(s, sig[s]) : s \in active}
              Opening(s) == \E r \in reqs : r.sym = s /\ r.act \in Opens
          IN /\ Submitted + Cardinality(reqs) <= MaxOrders
             /\ positions' = [s \in Symbols |->
                   IF s \in active \ exited /\ view[s] = 0 /\ pending[s] = << >>
                   THEN 0 ELSE positions[s]]
             /\ sized' = sized \cup {s \in active \ exited :
                   sig[s] \in {"BUY", "SELL"} /\ view[s] = 0 /\ pending[s] = << >>}
             /\ reserved' = [s \in Symbols |->
                   IF Opening(s) THEN reserved[s] + Lot ELSE reserved[s]]
             /\ IF reqs = {}
                THEN /\ Goto("loop", "cycled")
                     /\ UNCHANGED <<exec, batch, got, job>>
                ELSE Submit("loop", SetToSeq(reqs), "cycle")
    /\ UNCHANGED <<broker, pending, ledger, exited, exitDocs, cache, flags, active, view,
                   exits, recVars>>

\* A pending order of symbol s.
AddPending(s, c) == pending' = [pending EXCEPT ![s] = Append(@, c)]

\* Phase 3: an order without an id gives its reservation back, the others are
\* pending; a stop-loss exit is written down as EXIT_PENDING.
LoopRecord ==
    /\ AtLoop("record") /\ job["loop"] = "cycle"
    /\ got["loop"] # << >>
    /\ LET res == Head(got["loop"])
           s == res.req.sym
       IN IF res.id = 0
          THEN /\ reserved' = Released(reserved, s, res.req.qty)
               /\ UNCHANGED <<pending, exitDocs>>
          ELSE /\ AddPending(s, res)
               /\ exitDocs' = exitDocs \cup
                     {x \in {s} : res.req.act \in {"EXIT_LONG", "COVER_SHORT", "STOP_LOSS"}}
               /\ UNCHANGED reserved
    /\ got' = [got EXCEPT !["loop"] = Tail(@)]
    /\ UNCHANGED <<broker, exec, positions, ledger, exited, cache, flags, loopVars, pc,
                   job, batch, exits, recVars>>

LoopRecorded ==
    /\ AtLoop("record") /\ job["loop"] = "cycle"
    /\ got["loop"] = << >>
    /\ Goto("loop", "cycled")
    /\ UNCHANGED <<broker, exec, pending, books, reserved, cache, flags, loopVars, job,
                   batch, got, exits, recVars>>

\* The end of the cycle: the broker is asked again, and at 15:00 the backup exit
\* runs at once.  Otherwise the loop sleeps until the next candle.
LoopCycled ==
    /\ AtLoop("cycled")
    /\ view' \in BrokerViews
    /\ cache' = view'
    /\ IF late THEN BeginSquareOff("loop", "close")
       ELSE Goto("loop", "top") /\ UNCHANGED job
    /\ UNCHANGED <<broker, exec, pending, books, reserved, flags, active, sized, batch,
                   got, exits, recVars>>
-----------------------------------------------------------------------------
(* Squaring off: _exit_all_positions_and_stop, at the market close ("close")*)
(* or from shutdown ("shut").                                              *)

\* Mutants: only one of the two flags is looked at.
EodBegin_NotBusy(t) ==
    /\ pc[t] = "begin"
    /\ IF slot # "done"
       THEN slot' = "busy" /\ Goto(t, "plan")
       ELSE UNCHANGED slot /\ Goto(t, "after")
    /\ UNCHANGED <<broker, exec, pending, books, reserved, cache, stop, wstop, loopVars,
                   job, batch, got, exits, recVars>>

EodBegin_NotDone(t) ==
    /\ pc[t] = "begin"
    /\ IF slot # "busy"
       THEN slot' = "busy" /\ Goto(t, "plan")
       ELSE UNCHANGED slot /\ Goto(t, "after")
    /\ UNCHANGED <<broker, exec, pending, books, reserved, cache, stop, wstop, loopVars,
                   job, batch, got, exits, recVars>>

\* try_begin_eod_exit
EodBegin(t) ==
    /\ pc[t] = "begin"
    /\ IF slot = "free"
       THEN slot' = "busy" /\ Goto(t, "plan")
       ELSE UNCHANGED slot /\ Goto(t, "after")
    /\ UNCHANGED <<broker, exec, pending, books, reserved, cache, stop, wstop, loopVars,
                   job, batch, got, exits, recVars>>

\* Mutant: the plan is made from the ledger alone.
EodPlan_LedgerOnly(v) ==
    {Request(s, -Sign(ledger[s]), Size(ledger[s]), "MARKET_CLOSE_EXIT", 0)
        : s \in {x \in Symbols : ledger[x] # 0}}

\* build_eod_exit_plan: what the ledger says the session holds, as far as the
\* broker lists it on the same side.
EodPlan(v) ==
    {Request(s, -Sign(v[s]), Least(Size(ledger[s]), Size(v[s])), "MARKET_CLOSE_EXIT", 0)
        : s \in {x \in Symbols : ledger[x] # 0 /\ Sign(v[x]) = Sign(ledger[x])}}

LedgerOpen == \E s \in Symbols : ledger[s] # 0

\* _run_eod_exit_body up to submit_orders.  With nothing to exit the square-off is
\* done; with an open ledger the broker does not bear out, it is given up.
EodSubmit(t) ==
    /\ pc[t] = "plan"
    /\ \E v \in BrokerViews :
          /\ cache' = v
          /\ \/ /\ EodPlan(v) # {}
                /\ Submit(t, SetToSeq(EodPlan(v)), job[t])
                /\ UNCHANGED <<slot, positions, ledger>>
             \/ /\ EodPlan(v) = {} /\ LedgerOpen
                /\ slot' = "free"
                /\ Goto(t, "after")
                /\ UNCHANGED <<positions, ledger, exec, job, batch, got>>
             \/ /\ EodPlan(v) = {} /\ ~LedgerOpen
                /\ slot' = "done"
                /\ positions' = Flat /\ ledger' = Flat
                /\ Goto(t, "after")
                /\ UNCHANGED <<exec, job, batch, got>>
    /\ UNCHANGED <<broker, pending, exited, exitDocs, reserved, stop, wstop, loopVars,
                   exits, recVars>>

\* Mutant: a failed order is submitted again.
EodRecord_Retries(t) ==
    /\ pc[t] = "record" /\ job[t] \in SquareOffs
    /\ got[t] # << >>
    /\ LET res == Head(got[t]) IN
       IF res.id = 0 THEN UNCHANGED pending /\ Submit(t, <<res.req>>, job[t])
       ELSE /\ AddPending(res.req.sym, [res EXCEPT !.req.act = "MARKET_CLOSE_EXIT",
                                                   !.req.held = res.req.side])
            /\ got' = [got EXCEPT ![t] = Tail(@)]
            /\ UNCHANGED <<exec, pc, job, batch>>
    /\ UNCHANGED <<broker, books, reserved, cache, flags, loopVars, exits, recVars>>

\* A result of the square-off: a placed order is pending, a failed one is only
\* reported.
EodRecord(t) ==
    /\ pc[t] = "record" /\ job[t] \in SquareOffs
    /\ got[t] # << >>
    /\ LET res == Head(got[t]) IN
       IF res.id = 0 THEN UNCHANGED pending
       ELSE AddPending(res.req.sym, [res EXCEPT !.req.act = "MARKET_CLOSE_EXIT",
                                                !.req.held = res.req.side])
    /\ got' = [got EXCEPT ![t] = Tail(@)]
    /\ UNCHANGED <<broker, exec, books, reserved, cache, flags, loopVars, pc, job, batch,
                   exits, recVars>>

\* After at most 60 s, whether or not the orders have filled, the books are
\* cleared and the square-off is done.
EodFinish(t) ==
    /\ pc[t] = "record" /\ job[t] \in SquareOffs
    /\ got[t] = << >>
    /\ positions' = Flat /\ ledger' = Flat
    /\ slot' = "done"
    /\ Goto(t, "after")
    /\ UNCHANGED <<broker, exec, pending, exited, exitDocs, reserved, cache, stop, wstop,
                   loopVars, job, batch, got, exits, recVars>>

\* The loop stops after the market close whatever became of the square-off;
\* shutdown stops the executor and forgets the reservations.
EodAfter(t) ==
    /\ pc[t] = "after"
    /\ stop' = TRUE
    /\ Goto(t, "ended")
    /\ IF job[t] = "shut"
       THEN /\ executor' = IF executor = "running" THEN "stopped" ELSE executor
            /\ reserved' = Flat
       ELSE UNCHANGED <<executor, reserved>>
    /\ UNCHANGED <<broker, queue, results, pending, books, cache, wstop, slot, loopVars,
                   job, batch, got, exits, recVars>>
-----------------------------------------------------------------------------
(* The worker's monitor thread                                             *)

\* The gunicorn process sets the worker's stop event; SIGTERM sets the trader's too,
\* in the middle of whatever the monitor is doing.
WorkerStop ==
    /\ ~wstop
    /\ wstop' = TRUE
    /\ stop' \in {stop, TRUE}
    /\ UNCHANGED <<broker, exec, pending, books, reserved, cache, slot, loopVars,
                   threads, recVars>>

Watching == pc["monitor"] = "watch"

\* What exit_single_position finds to exit: the broker's position, else the
\* engine's own.
Found(s, v) == IF v[s] # 0 THEN v[s] ELSE positions[s]

\* exit_single_position of a queued request.  It looks at neither the pending
\* orders nor the square-off.
ExitSubmit(s) ==
    /\ May("exit")
    /\ Watching /\ ~wstop /\ ~AtLoop("ended")
    /\ exits < MaxExits
    /\ exits' = exits + 1
    /\ \E v \in BrokerViews :
          /\ cache' = v
          /\ LET n == Found(s, v)
                 d == Sign(n)
             IN IF n = 0 THEN UNCHANGED <<exec, pc, job, batch, got>>
                ELSE Submit("monitor",
                            <<Request(s, -d, ExitQty(s, n),
                                      IF d = Buy THEN "EXIT_LONG" ELSE "COVER_SHORT", d)>>,
                            "exit")
    /\ UNCHANGED <<broker, pending, books, reserved, flags, loopVars, recVars>>

\* The first result is taken for the answer to this exit: its order becomes
\* pending for the symbol asked for.
ExitRecord ==
    /\ pc["monitor"] = "record" /\ job["monitor"] = "exit"
    /\ LET res == Head(got["monitor"])
           s == batch["monitor"][1].sym
       IN IF res.id = 0 THEN UNCHANGED <<pending, exited, exitDocs>>
          ELSE /\ AddPending(s, res)
               /\ exited' = exited \cup {s}
               /\ exitDocs' = exitDocs \cup {s}
    /\ got' = [got EXCEPT !["monitor"] = << >>]
    /\ Goto("monitor", "watch")
    /\ UNCHANGED <<broker, exec, positions, ledger, reserved, cache, flags, loopVars,
                   job, batch, exits, recVars>>

\* A stop ends the trader and the watch; a trader that has ended ends the watch.
MonitorStop ==
    /\ Watching
    /\ IF wstop THEN stop' = TRUE /\ Goto("monitor", "joining")
       ELSE AtLoop("ended") /\ UNCHANGED stop /\ Goto("monitor", "ended")
    /\ UNCHANGED <<broker, exec, pending, books, reserved, cache, wstop, slot, loopVars,
                   job, batch, got, exits, recVars>>

\* Mutant: the shutdown does not wait for the loop.
MonitorJoin_NoJoin ==
    /\ pc["monitor"] = "joining"
    /\ BeginSquareOff("monitor", "shut")
    /\ UNCHANGED <<broker, exec, pending, books, reserved, cache, flags, loopVars, batch,
                   got, exits, recVars>>

\* trader_thread.join(45), then shutdown in this thread too.
MonitorJoin ==
    /\ pc["monitor"] = "joining"
    /\ AtLoop("ended") \/ May("slow")
    /\ BeginSquareOff("monitor", "shut")
    /\ UNCHANGED <<broker, exec, pending, books, reserved, cache, flags, loopVars, batch,
                   got, exits, recVars>>
-----------------------------------------------------------------------------
(* The reconciler: _reconcile_pending_orders                               *)

\* It ends with the stop event.  Otherwise it looks at every symbol with pending
\* orders, after one broker call.
ReconcileBegin ==
    /\ rpc = "idle"
    /\ IF stop
       THEN /\ rpc' = "ended"
            /\ UNCHANGED rleft
       ELSE /\ rleft' = {s \in Symbols : pending[s] # << >>}
            /\ rleft' # {}
            /\ rpc' = "fetch"
    /\ UNCHANGED <<broker, exec, pending, books, reserved, cache, flags, loopVars,
                   threads, rcopy, rview>>

ReconcileFetch ==
    /\ rpc = "fetch"
    /\ rview' \in BrokerViews
    /\ cache' = rview'
    /\ rpc' = "scan"
    /\ UNCHANGED <<broker, exec, pending, books, reserved, flags, loopVars, threads,
                   rleft, rcopy>>

\* The next symbol: a copy of its list, which other threads may append to.
ReconcileSymbol(s) ==
    /\ rpc = "scan"
    /\ rcopy = << >>
    /\ s \in rleft
    /\ rcopy' = [i \in DOMAIN pending[s] |-> [sym |-> s, ctx |-> pending[s][i]]]
    /\ rleft' = rleft \ {s}
    /\ UNCHANGED <<broker, exec, pending, books, reserved, cache, flags, loopVars,
                   threads, rview, rpc>>

ReconcileEnd ==
    /\ rpc = "scan"
    /\ rcopy = << >> /\ rleft = {}
    /\ rpc' = "idle"
    /\ UNCHANGED <<broker, exec, pending, books, reserved, cache, flags, loopVars,
                   threads, rleft, rcopy, rview>>

\* _close_position: more than the position held turns it over.
Closed(s, q) ==
    [positions EXCEPT ![s] = IF @ = 0 THEN 0 ELSE @ - Sign(@) * q]

\* An entry adds to the position there is, whatever its side.
Added(s, d, q) ==
    [positions EXCEPT ![s] = IF @ = 0 THEN d * q ELSE @ + Sign(@) * q]

\* apply_fill_to_session_ledger: a buy adds, a sale subtracts.
Tracked(s, d, q) == ledger' = [ledger EXCEPT ![s] = @ + d * q]

\* _handle_filled
HandleFilled(s, req, q, priced) ==
    CASE req.act \in Exits ->
           /\ positions' = IF priced THEN Closed(s, q) ELSE [positions EXCEPT ![s] = 0]
           /\ Tracked(s, req.side, q)
           /\ IF priced /\ req.act # "MARKET_CLOSE_EXIT"
              THEN /\ exitDocs' = exitDocs \cup {s}
                   /\ exited' = exited \cup
                        {x \in {s} : positions'[s] = 0 /\ cache[s] = 0}
              ELSE UNCHANGED <<exited, exitDocs>>
      [] req.act \in Flips ->
           /\ IF priced /\ positions[s] # 0
              THEN positions' = Closed(s, q) /\ Tracked(s, req.side, q)
              ELSE UNCHANGED <<positions, ledger>>
           /\ UNCHANGED <<exited, exitDocs>>
      [] req.act \in Opens ->
           /\ IF priced
              THEN positions' = Added(s, req.side, q) /\ Tracked(s, req.side, q)
              ELSE UNCHANGED <<positions, ledger>>
           /\ UNCHANGED <<exited, exitDocs>>

\* Mutant: the reservation stays.
Settle_KeepsReservation(s, c) ==
    /\ pending' = [pending EXCEPT ![s] = RemoveFirst(@, c)]
    /\ UNCHANGED reserved

\* The context leaves the list, its reservation is given back.
Settle(s, c) ==
    /\ pending' = [pending EXCEPT ![s] = RemoveFirst(@, c)]
    /\ reserved' = Released(reserved, s, c.req.qty)

Keep == UNCHANGED <<pending, books, reserved>>

\* A flip waits for its own fill, however long that takes.
ReconcileFlip(s, c, seen) ==
    IF seen = 0 THEN Keep
    ELSE HandleFilled(s, c.req, seen, TRUE) /\ Settle(s, c)

\* Mutant: the whole position is taken for the fill.
ReconcileListed_Position(s, c, seen) ==
    /\ \E priced \in {TRUE} \cup {b \in {FALSE} : May("unpriced") /\ seen = 0} :
          HandleFilled(s, c.req, Size(rview[s]), priced)
    /\ Settle(s, c)

\* The broker lists a position on the order's side: the order is taken to have
\* filled, by what the order book says or by what the broker holds.
ReconcileListed(s, c, seen) ==
    /\ \E priced \in {TRUE} \cup {b \in {FALSE} : May("unpriced") /\ seen = 0} :
          HandleFilled(s, c.req,
                       Least(Size(rview[s]), IF seen > 0 THEN seen ELSE c.req.qty),
                       priced)
    /\ Settle(s, c)

\* The position an exit was to close is gone: the exit waits for its own fill.
ReconcileGone(s, c, seen) ==
    IF seen = 0 THEN Keep
    ELSE HandleFilled(s, c.req, seen, TRUE) /\ Settle(s, c)

\* Neither: the order is given up after 120 s.
ReconcileExpire(s, c) ==
    \/ Keep
    \/ May("expire") /\ Settle(s, c) /\ UNCHANGED books

ReconcileOrder ==
    /\ rpc = "scan"
    /\ rcopy # << >>
    /\ LET s == Head(rcopy).sym
           c == Head(rcopy).ctx
       IN \E seen \in FillsSeen(c.id) :
             CASE c.req.act \in Flips -> ReconcileFlip(s, c, seen)
               [] c.req.act \notin Flips /\ Sign(rview[s]) = c.req.side ->
                    ReconcileListed(s, c, seen)
               [] c.req.act \in Exits /\ Sign(rview[s]) # c.req.side
                    /\ (rview[s] = 0 \/ Sign(rview[s]) # c.req.held) ->
                    ReconcileGone(s, c, seen)
               [] OTHER -> ReconcileExpire(s, c)
    /\ rcopy' = Tail(rcopy)
    /\ UNCHANGED <<broker, exec, cache, flags, loopVars, threads, rleft, rview, rpc>>
-----------------------------------------------------------------------------
Init ==
    /\ irregular \in Irregular
    /\ late = FALSE
    /\ orders = << >>
    /\ manual = Flat
    /\ queue = << >> /\ results = << >>
    /\ executor = "none"
    /\ pending = [s \in Symbols |-> << >>]
    /\ positions = Flat /\ ledger = Flat /\ reserved = Flat
    /\ sized = {} /\ exited = {} /\ exitDocs = {}
    /\ cache = Flat
    /\ stop = FALSE /\ wstop = FALSE
    /\ slot = "free"
    /\ active = Symbols
    /\ view = Flat
    /\ pc = [t \in Threads |-> IF t = "loop" THEN "top" ELSE "watch"]
    /\ job = [t \in Threads |-> "cycle"]
    /\ batch = [t \in Threads |-> << >>]
    /\ got = [t \in Threads |-> << >>]
    /\ exits = 0
    /\ rleft = {} /\ rcopy = << >> /\ rview = Flat
    /\ rpc = "idle"

Executor == \E i \in DOMAIN queue : Execute(i)

Loop ==
    \/ LoopTop \/ LoopFetch \/ LoopDecide \/ LoopRecord \/ LoopRecorded \/ LoopCycled

\* What both threads run.
Shared(t) ==
    \/ Collect(t) \/ CollectTimeout(t) \/ Join(t)
    \/ EodBegin(t) \/ EodSubmit(t) \/ EodRecord(t) \/ EodFinish(t) \/ EodAfter(t)

Monitor ==
    \/ MonitorStop \/ MonitorJoin \/ ExitRecord
    \/ \E s \in Symbols : ExitSubmit(s)

Reconciler ==
    \/ ReconcileBegin \/ ReconcileFetch \/ ReconcileOrder \/ ReconcileEnd
    \/ \E s \in Symbols : ReconcileSymbol(s)

Outside ==
    \/ \E i \in DOMAIN orders : OrderSettles(i)
    \/ \E s \in Symbols, d \in {Buy, Sell} : UserTrades(s, d)
    \/ MarketCloses
    \/ WorkerStop

Next ==
    \/ Executor \/ Loop \/ Monitor \/ Reconciler \/ Outside
    \/ \E t \in Threads : Shared(t)

Spec == Init /\ [][Next]_vars

\* Every thread of the engine goes on when it can; the user, the clock and the
\* stop are not bound to come.
FairSpec ==
    /\ Spec
    /\ WF_vars(Executor) /\ WF_vars(Loop) /\ WF_vars(Reconciler)
    /\ \A t \in Threads : WF_vars(Shared(t))
    /\ WF_vars(MonitorStop \/ MonitorJoin \/ ExitRecord)
-----------------------------------------------------------------------------
(* Properties                                                              *)

IsSeqOf(q, Test(_)) == \A i \in DOMAIN q : Test(q[i])
IsRequest(r) == r \in Requests
IsOutcome(o) == DOMAIN o = {"req", "id"} /\ o.req \in Requests /\ o.id \in 0 .. Len(orders)
IsCopy(e) == e.sym \in Symbols /\ IsOutcome(e.ctx)

\* The type of the state.
TypeOK ==
    /\ irregular \in Irregular
    /\ \A x \in {late, stop, wstop} : x \in BOOLEAN
    /\ \A i \in DOMAIN orders :
          orders[i].state \in {"open", "filled", "rejected"} /\ orders[i].qty \in Nat \ {0}
    /\ \A f \in {manual, positions, ledger, cache, view, rview} : f \in [Symbols -> Int]
    /\ reserved \in [Symbols -> Nat]
    /\ IsSeqOf(queue, IsRequest) /\ IsSeqOf(results, IsOutcome)
    /\ executor \in {"none", "running", "stopped"}
    /\ \A s \in Symbols : IsSeqOf(pending[s], IsOutcome)
    /\ \A S \in {sized, exited, exitDocs, active, rleft} : S \subseteq Symbols
    /\ slot \in {"free", "busy", "done"}
    /\ pc \in [Threads -> {"top", "fetch", "decide", "collect", "record", "cycled", "begin",
                           "plan", "after", "watch", "joining", "ended"}]
    /\ job \in [Threads -> {"cycle", "exit"} \cup SquareOffs]
    /\ \A t \in Threads : IsSeqOf(batch[t], IsRequest) /\ IsSeqOf(got[t], IsOutcome)
    /\ exits \in Nat
    /\ IsSeqOf(rcopy, IsCopy)
    /\ rpc \in {"idle", "fetch", "scan", "ended"}

\* t is in the body of the square-off.
Squaring(t) ==
    \/ pc[t] = "plan"
    \/ pc[t] \in {"collect", "record"} /\ job[t] \in SquareOffs

\* The two callers of the square-off, and the retry after one that was given up,
\* never run it together; while the slot is taken somebody will give it back.
OneSquareOff ==
    /\ \A t, u \in Threads : Squaring(t) /\ Squaring(u) => t = u
    /\ slot = "busy" <=> \E t \in Threads : Squaring(t)

\* implementation_plan.md, "EOD called twice: orders once": the broker gets at
\* most one square-off order per symbol, whoever calls it and however often.
SquareOffOnce ==
    \A i, j \in DOMAIN orders :
        orders[i].act = "MARKET_CLOSE_EXIT" /\ orders[j].act = "MARKET_CLOSE_EXIT"
        /\ orders[i].sym = orders[j].sym => i = j

\* What was filled for s and waits for the reconciler or for the submitting thread.
InFlight(s) ==
    UNION {{q[i].id : i \in DOMAIN q} : q \in {results, got["loop"], got["monitor"], pending[s]}}
Untracked(s) == SumOver(Bought, InFlight(s) \cap Filled(s))

Calm == irregular \subseteq {"reject"}

\* The shutdown waits for the loop, and nobody submits besides the loop and the square-off.
Patient == irregular \cap {"slow", "exit"} = {}

\* Without other trades and outages, and until the books are cleared, the ledger
\* knows every share the engine holds but for the orders still in flight: no fill is
\* lost or counted twice between the loop, the reconciler and the square-off.
LedgerExact ==
    Calm /\ slot # "done" => \A s \in Symbols : ledger[s] + Untracked(s) = Engine(s)

\* The entry orders of s that hold a reservation, each its quantity; an order may be kept
\* under another caller's action.
Reserves(s, r) == IF r.sym = s /\ r.act \in Opens THEN r.qty ELSE 0
EntryQty(s, reqs) == SumOver([i \in DOMAIN reqs |-> Reserves(s, reqs[i])], DOMAIN reqs)
Asked(q) == [i \in DOMAIN q |-> IF q[i].id = 0 THEN q[i].req ELSE orders[q[i].id]]
Entering(s) ==
    EntryQty(s, queue) + EntryQty(s, Asked(results)) + EntryQty(s, Asked(got["loop"]))
    + EntryQty(s, Asked(got["monitor"])) + EntryQty(s, Asked(pending[s]))

\* No reservation outlives its order: rejected, filled or given up after 120 s, an
\* entry gives back what it took, and a symbol is not locked out while the session trades.
\* Manual exits are left out: they may take the loop's results.
NoLeakedReservation ==
    "exit" \notin irregular /\ slot = "free" => \A s \in Symbols : reserved[s] <= Entering(s)

\* What the square-off is to an observer of the slot, the ledger, what was submitted and
\* what the broker has.
SquareOffOrders(s) ==
    {i \in DOMAIN orders : orders[i].act = "MARKET_CLOSE_EXIT" /\ orders[i].sym = s}
AskedFor(s) ==
    \E t \in Threads : \E i \in DOMAIN batch[t] :
        batch[t][i].act = "MARKET_CLOSE_EXIT" /\ batch[t][i].sym = s

Promise == INSTANCE SquareOff WITH
    phase  <- CASE slot = "free" -> "idle" [] slot = "busy" -> "running" [] OTHER -> "done",
    held   <- {s \in Symbols : ledger[s] # 0},
    asked  <- {s \in Symbols : AskedFor(s)},
    placed <- [s \in Symbols |-> Cardinality(SquareOffOrders(s))]

\* With two callers that may come twice, a shared result queue, late orders and fills that
\* arrive meanwhile, the engine implements SquareOff: it asks for symbols the ledger holds,
\* once, sends each of them once at most, and is done and clears the books only when it
\* has asked or nothing was held (utils/eod_exit.py, session_ledger.py, eod_exit.py).
KeepsPromise == Promise!Spec

\* In a calm run an exit never turns the position over or adds to it, although it is
\* sized from a ledger and a broker call that are older than the order.
CalmExitsReduce ==
    [][Len(orders') > Len(orders) /\ Calm =>
         LET o == Last(orders') IN
         o.act \in Exits =>
            /\ Sign(Engine(o.sym)) = -o.side
            /\ o.qty <= Size(Engine(o.sym))]_vars

\* A symbol with an exit on record is not traded again, whoever wrote the record, even if
\* the exit rests or never fills, the reconciler has not seen it, or the user trades the
\* symbol: no cycle submits an order for it (_strip_exited_from_active at the top of the
\* loop, _persist_exit_pending).
NeverReenters ==
    [][AtLoop("decide") /\ pc'["loop"] = "collect" =>
         \A i \in DOMAIN batch'["loop"] : batch'["loop"][i].sym \notin exitDocs]_vars

\* When the square-off is done and the shutdown has waited for the loop, nothing is sent any
\* more: no order of the last cycle reaches the broker after the books have been cleared.
\* Manual exits are left out: they do not look at the square-off.
DoneIsFinal ==
    [][slot = "done" /\ Patient => Len(orders') = Len(orders)]_vars

Over == pc["loop"] = "ended" /\ pc["monitor"] = "ended"

\* constants.py, "3:00 PM IST  exit all open positions": when both threads have ended
\* and the square-off is marked done, the engine holds nothing.
SquareOffFlat ==
    Over /\ slot = "done" /\ queue = << >> =>
        \A s \in Symbols : Engine(s) = 0 \/ \E i \in DOMAIN orders : orders[i].state = "open"

\* session_worker/constants.py, "can legitimately take up to ~195s in the worst case":
\* a worker told to stop comes to the end of its shutdown.
ShutdownEnds == wstop ~> pc["monitor"] = "ended"
=============================================================================
