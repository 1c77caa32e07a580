---------------------------- MODULE PaperEngine ----------------------------
(***************************************************************************)
(* The paper engine of a simulation worker (strategy B): the trader loop,  *)
(* the monitor thread with its manual exits and its shutdown, one RMS exit *)
(* thread per breached symbol, and the order workers that fill every order *)
(* at once in the paper book.                                              *)
(*                                                                         *)
(* Prices are left out: profit is counted in shares booked, and whether a  *)
(* tick breaches a limit, a signal fires or the exposure limit, which is   *)
(* in rupees, has room for an order is a choice.  Reservations are counted *)
(* in shares.  The side of an order or a position is a sign.               *)
(***************************************************************************)
EXTENDS Integers, Sequences, FiniteSets, SequencesExt

CONSTANTS
    Symbols,    \* the session's symbols
    Lot,        \* symbol_qty
    Irregular,  \* the sets of irregularities a run may have
    MaxOrders,  \* bound: orders the loop submits
    MaxExits    \* bound: manual and RMS exits

Kinds == {"tick",     \* a tick may breach a symbol's loss limit
          "exit",     \* the user sends manual exit requests
          "overlap",  \* an exit may run during a cycle or beside another exit
          "noprice",  \* no price may be known for an order
          "timeout",  \* a caller may give up on a result after 10 s
          "slow",     \* the loop may outlast the 45 s the shutdown waits for it
          "sigterm",  \* SIGTERM may stop the trader in the middle of an exit
          "restored"} \* the session may start from an earlier one's trade log

ASSUME PaperAssumption ==
    /\ IsFiniteSet(Symbols) /\ Symbols \cap {"loop", "monitor"} = {}
    /\ Lot \in Nat \ {0}
    /\ Irregular \subseteq SUBSET Kinds
    /\ {MaxOrders, MaxExits} \subseteq Nat

VARIABLES
    irregular, \* the irregularities of this run
    clock,     \* "open", "cutoff" from 15:20, "closed" from 15:40
    paper,     \* _paper_positions, signed
    positions, \* positions, signed
    booked,    \* realized_pnl_by_symbol, in shares
    closed,    \* history: the shares exits have taken off the paper book
    queue,     \* order_queue
    filling,   \* orders filled in the paper book, positions not yet in sync
    results,   \* result_queue
    executor,  \* parallel_executor: none, running, stopped, restarted
    reserved,  \* reserved_exposure
    cache,     \* _broker_positions_cache, signed
    sized,     \* the symbols with a symbol_qty
    confirmed, \* _confirmed_fill_qty, 0 if none
    exited,    \* _exited_symbols
    exitDocs,  \* the symbols with a document in exited_symbols
    inflight,  \* _rms_exit_inflight
    stop,      \* the trader's stop_event
    wstop,     \* the worker's stop_event
    handoff,   \* _pyramid_handoff_result is set
    active,    \* the loop's symbols
    view,      \* the loop's broker_positions
    pc,        \* where each thread is
    batch,     \* the orders it has submitted
    got,       \* the results it has taken, less those it has dealt with
    ordered,   \* orders the loop has submitted so far
    exits      \* exits so far

outside  == <<irregular, clock>>
book     == <<paper, positions, booked, closed>>
exec     == <<queue, filling, results, executor>>
exposure == <<reserved, cache, sized, confirmed>>
exitVars == <<exited, exitDocs, inflight>>
flags    == <<stop, wstop, handoff>>
loopVars == <<active, view, ordered>>
threads  == <<pc, batch, got, exits>>
vars == <<irregular, clock, paper, positions, booked, closed, queue, filling, results,
          executor, reserved, cache, sized, confirmed, exited, exitDocs, inflight, stop,
          wstop, handoff, active, view, pc, batch, got, ordered, exits>>

\* The RMS exit thread of a symbol goes by the symbol's name.
Exiters == Symbols \cup {"monitor"}
Threads == Exiters \cup {"loop"}

Buy == 1
Sell == -1
Sign(n) == IF n > 0 THEN 1 ELSE IF n < 0 THEN -1 ELSE 0
Size(n) == IF n < 0 THEN -n ELSE n
Least(m, n) == IF m < n THEN m ELSE n
Flat == [s \in Symbols |-> 0]

Opens == {"OPEN_LONG", "OPEN_SHORT"}
Expands == {"EXPAND_LONG", "EXPAND_SHORT"}
Flips == {"FLIP_TO_LONG", "FLIP_TO_SHORT"}
Exits == {"EXIT_LONG", "COVER_SHORT", "STOP_LOSS"}

\* snap is pre_exit_position, 0 if the order has none.
Requests == [sym : Symbols, side : {Buy, Sell}, qty : Nat \ {0},
             act : Opens \cup Expands \cup Flips \cup Exits, snap : Int]
Request(s, sd, q, a, n) == [sym |-> s, side |-> sd, qty |-> q, act |-> a, snap |-> n]

\* An OrderResult: an order either fills at once or gets no id.
Outcome(r, ok) == [req |-> r, ok |-> ok]

May(k) == k \in irregular
At(t, p) == pc[t] = p
Goto(t, p) == pc' = [pc EXCEPT ![t] = p]

\* Some exit is running.
Exiting == \E t \in Exiters : pc[t] \in {"exit", "collect", "record", "clear"}
Asleep == pc["loop"] \in {"top", "ended"}
-----------------------------------------------------------------------------
(* The paper book: _create_paper_order, run by the order workers           *)

\* What is left of a position, on its side.
Shrunk(n, q) == IF Size(n) > q THEN n - Sign(n) * q ELSE 0

\* _update_paper_positions_on_fill.  A flip sets the position to half its quantity,
\* whatever there was.
Filled(n, r) ==
    CASE r.act \in Flips -> r.side * (r.qty \div 2)
      [] r.act \in Exits \/ (r.act \notin Flips /\ Sign(n) = -r.side) -> Shrunk(n, r.qty)
      [] OTHER -> n + r.side * r.qty

\* A worker takes the i-th order: without a price it fails, with one it fills the
\* paper book under _paper_lock.
Execute(i) ==
    /\ executor \in {"running", "restarted"}
    /\ LET r == queue[i] IN
       \/ /\ May("noprice")
          /\ results' = Append(results, Outcome(r, FALSE))
          /\ UNCHANGED <<paper, closed, filling>>
       \/ /\ paper' = [paper EXCEPT ![r.sym] = Filled(@, r)]
          /\ closed' = [closed EXCEPT ![r.sym] =
                @ + IF r.act \in Exits THEN Least(Size(paper[r.sym]), r.qty) ELSE 0]
          /\ filling' = Append(filling, r)
          /\ UNCHANGED results
    /\ queue' = RemoveAt(queue, i)
    /\ UNCHANGED <<outside, positions, booked, executor, exposure, exitVars, flags,
                   loopVars, threads>>

\* Mutant: the requested quantity goes into positions.
Synced_Requested(r) == IF paper[r.sym] = 0 THEN 0 ELSE r.side * r.qty

\* What positions is set to: what the paper book holds by then.
Synced(r) == paper[r.sym]

\* Mutant: the result is put on the queue twice.
Report_Twice(r) == results' = results \o <<Outcome(r, TRUE), Outcome(r, TRUE)>>

Report(r) == results' = Append(results, Outcome(r, TRUE))

\* Then positions follows under its own lock, and the result is put on the queue
\* all callers share.
SyncPositions(i) ==
    /\ LET r == filling[i] IN
       /\ positions' = [positions EXCEPT ![r.sym] = Synced(r)]
       /\ Report(r)
    /\ filling' = RemoveAt(filling, i)
    /\ UNCHANGED <<outside, paper, booked, closed, queue, executor, exposure, exitVars,
                   flags, loopVars, threads>>

\* submit_orders: every order is queued, then as many results are awaited.  Workers
\* that were stopped are started again.
Submit(t, reqs) ==
    /\ queue' = queue \o reqs
    /\ batch' = [batch EXCEPT ![t] = reqs]
    /\ got' = [got EXCEPT ![t] = << >>]
    /\ executor' = CASE executor = "none" -> "running"
                     [] executor = "stopped" -> "restarted"
                     [] OTHER -> executor
    /\ Goto(t, "collect")

\* The next result, whoever's it is.
Collect(t) ==
    /\ At(t, "collect")
    /\ Len(got[t]) < Len(batch[t])
    /\ results # << >>
    /\ got' = [got EXCEPT ![t] = Append(@, Head(results))]
    /\ results' = Tail(results)
    /\ UNCHANGED <<outside, book, queue, filling, executor, exposure, exitVars, flags,
                   loopVars, pc, batch, exits>>

\* No result for 10 s: the caller makes up a failure of its own order.
CollectTimeout(t) ==
    /\ May("timeout")
    /\ At(t, "collect")
    /\ Len(got[t]) < Len(batch[t])
    /\ results = << >>
    /\ got' = [got EXCEPT ![t] = Append(@, Outcome(batch[t][Len(@) + 1], FALSE))]
    /\ UNCHANGED <<outside, book, exec, exposure, exitVars, flags, loopVars, pc, batch,
                   exits>>

\* Mutant: the caller does not wait for its orders.
Join_No(t) ==
    /\ At(t, "collect")
    /\ Len(got[t]) = Len(batch[t])
    /\ executor = "running"
    /\ Goto(t, "record")
    /\ UNCHANGED <<outside, book, exec, exposure, exitVars, flags, loopVars, batch, got,
                   exits>>

\* order_queue.join.  stop() leaves sentinels nobody reports done: after it the
\* queue never joins.
Join(t) ==
    /\ At(t, "collect")
    /\ Len(got[t]) = Len(batch[t])
    /\ queue = << >> /\ filling = << >>
    /\ executor = "running"
    /\ Goto(t, "record")
    /\ UNCHANGED <<outside, book, exec, exposure, exitVars, flags, loopVars, batch, got,
                   exits>>
-----------------------------------------------------------------------------
(* _finalize_symbol_exit_fill: close the position, then clear the symbol   *)

\* Mutant: the snapshot is not used.
Held_Live(s, snap) == positions[s]

\* _close_position works on the live position, else on the snapshot taken before.
Held(s, snap) == IF positions[s] # 0 THEN positions[s] ELSE snap

\* It books what was held, and more than that turns a live position over.
Close(s, q, snap) ==
    LET n == Held(s, snap) IN
    /\ booked' = [booked EXCEPT ![s] = @ + Least(Size(n), q)]
    /\ positions' = [positions EXCEPT ![s] = IF @ = 0 THEN 0 ELSE @ - Sign(@) * q]

\* _get_symbol_position_qty
Left(s) == IF positions[s] # 0 THEN positions[s] ELSE paper[s]

\* A symbol with nothing left is exited for good; the document is written anyway.
Clear(s) ==
    /\ IF Left(s) = 0
       THEN /\ exited' = exited \cup {s}
            /\ paper' = [paper EXCEPT ![s] = 0]
       ELSE UNCHANGED <<exited, paper>>
    /\ exitDocs' = exitDocs \cup {s}

\* _snapshot_position_for_exit
Snapshot(s, n) == IF Left(s) # 0 THEN Left(s) ELSE n
-----------------------------------------------------------------------------
(* Exposure                                                                *)

\* Mutant: what is left of the entry may be negative.
Released_Below(s, q) == [reserved EXCEPT ![s] = @ - q]

\* _release_exposure: the entry goes when nothing is left of it.
Released(s, q) == [reserved EXCEPT ![s] = IF @ > q THEN @ - q ELSE 0]
-----------------------------------------------------------------------------
(* The trader loop                                                         *)

\* Mutant: the exited symbols are not filtered out.
Remaining_All == active

\* The symbols that were exited leave the list for good.
Remaining == active \ (exited \cup exitDocs)

\* _exit_all_positions_and_stop.  The session ledger is only written by reconciled
\* fills, of which paper trading has none: the plan is empty, the square-off is
\* marked done, and positions is cleared.
SquareOff ==
    /\ positions' = Flat
    /\ cache' = paper
    /\ stop' = TRUE
    /\ Goto("loop", "ended")

\* The top of the loop: the stop event, the exited symbols, 15:40.
LoopTop ==
    /\ At("loop", "top")
    /\ May("overlap") \/ ~Exiting
    /\ IF stop
       THEN /\ Goto("loop", "pyramid")
            /\ UNCHANGED <<exited, active, stop, positions, cache>>
       ELSE /\ exited' = exited \cup exitDocs
            /\ active' = Remaining
            /\ CASE active' = {} ->
                      /\ stop' = TRUE
                      /\ Goto("loop", "ended")
                      /\ UNCHANGED <<positions, cache>>
                 [] active' # {} /\ clock = "closed" -> SquareOff
                 [] OTHER -> Goto("loop", "fetch") /\ UNCHANGED <<stop, positions, cache>>
    /\ UNCHANGED <<outside, paper, booked, closed, exec, reserved, sized, confirmed,
                   exitDocs, inflight, wstop, handoff, view, batch, got, ordered, exits>>

\* A new candle.  Without predictions the cycle is skipped; a stop since the top
\* ends the loop without a shutdown.
LoopFetch ==
    /\ At("loop", "fetch")
    /\ \/ /\ stop
          /\ Goto("loop", "ended")
          /\ UNCHANGED <<view, cache>>
       \/ /\ ~stop
          /\ Goto("loop", "top")
          /\ UNCHANGED <<view, cache>>
       \/ /\ ~stop
          /\ view' = paper
          /\ cache' = paper
          /\ Goto("loop", "decide")
    /\ UNCHANGED <<outside, book, exec, reserved, sized, confirmed, exitVars, flags,
                   active, ordered, batch, got, exits>>

\* What the loop may order for a symbol, by the position it saw at the start of the
\* cycle and by whether _can_reserve_exposure has room for it: openings and expansions
\* need room.  A flip is sized by the last opening fill and asks for none.
StopLoss(s) == Request(s, -Sign(view[s]), Size(view[s]), "STOP_LOSS",
                       Snapshot(s, view[s]))

Open(s, d) == Request(s, d, Lot, IF d = Buy THEN "OPEN_LONG" ELSE "OPEN_SHORT", 0)

Flip(s) == LET q == IF confirmed[s] > 0 THEN confirmed[s] ELSE Size(view[s])
           IN Request(s, -Sign(view[s]), 2 * q,
                      IF view[s] < 0 THEN "FLIP_TO_LONG" ELSE "FLIP_TO_SHORT", 0)

Expand(s) == Request(s, Sign(view[s]), Lot,
                     IF view[s] > 0 THEN "EXPAND_LONG" ELSE "EXPAND_SHORT", 0)

Options(s, room) ==
    IF view[s] = 0
    THEN {r \in {Open(s, Buy), Open(s, Sell)} : room}
    ELSE {StopLoss(s), Flip(s)} \cup {r \in {Expand(s)} : s \in sized /\ room}

\* Signals become orders, at most one a symbol; openings reserve their exposure and
\* fix the symbol's quantity, which a refused opening does too.  A symbol without a
\* position in the book loses its entry in positions.
LoopDecide ==
    /\ At("loop", "decide")
    /\ \E roomy \in SUBSET active :
       \E reqs \in SUBSET UNION {Options(s, s \in roomy) : s \in active} :
       \E refused \in SUBSET {s \in active : view[s] = 0 /\ s \notin roomy} :
          /\ \A r1, r2 \in reqs : r1.sym = r2.sym => r1 = r2
          /\ ordered' = ordered + Cardinality(reqs)
          /\ ordered' <= MaxOrders
          /\ positions' = [s \in Symbols |->
                IF s \in active /\ view[s] = 0 THEN 0 ELSE positions[s]]
          /\ sized' = sized \cup refused \cup {r.sym : r \in {x \in reqs : x.act \in Opens}}
          /\ reserved' = [s \in Symbols |->
                IF \E r \in reqs : r.sym = s /\ r.act \in Opens \cup Expands
                THEN reserved[s] + Lot ELSE reserved[s]]
          /\ IF reqs = {} THEN Goto("loop", "cycled") /\ UNCHANGED <<queue, executor, batch, got>>
             ELSE Submit("loop", SetToSeq(reqs))
    /\ UNCHANGED <<outside, paper, booked, closed, filling, results, cache, confirmed,
                   exitVars, flags, active, view, exits>>

\* Mutant: only a fill gives the reservation back.
Settled_OnFill(res) == IF res.ok THEN Released(res.req.sym, res.req.qty) ELSE reserved

\* Filled or refused, an order gives its reservation back.
Settled(res) == Released(res.req.sym, res.req.qty)

\* Phase 3: an exit closes its position first, whoever ordered it.
LoopRecord ==
    /\ At("loop", "record")
    /\ got["loop"] # << >>
    /\ LET res == Head(got["loop"])
           r == res.req
       IN IF res.ok /\ r.act \in Exits
          THEN /\ Close(r.sym, r.qty, r.snap)
               /\ Goto("loop", "clear")
               /\ UNCHANGED <<reserved, confirmed, got>>
          ELSE /\ confirmed' = [confirmed EXCEPT ![r.sym] =
                     IF res.ok /\ r.act \in Opens THEN r.qty ELSE @]
               /\ reserved' = Settled(res)
               /\ got' = [got EXCEPT !["loop"] = Tail(@)]
               /\ UNCHANGED <<booked, positions, pc>>
    /\ UNCHANGED <<outside, paper, closed, exec, cache, sized, exitVars, flags, loopVars,
                   batch, exits>>

LoopClear ==
    /\ At("loop", "clear")
    /\ LET r == Head(got["loop"]).req IN
       /\ Clear(r.sym)
       /\ reserved' = Released(r.sym, r.qty)
    /\ got' = [got EXCEPT !["loop"] = Tail(@)]
    /\ Goto("loop", "record")
    /\ UNCHANGED <<outside, positions, booked, closed, exec, cache, sized, confirmed,
                   inflight, flags, loopVars, batch, exits>>

\* All results are dealt with.
LoopRecorded ==
    /\ At("loop", "record")
    /\ got["loop"] = << >>
    /\ Goto("loop", "cycled")
    /\ UNCHANGED <<outside, book, exec, exposure, exitVars, flags, loopVars, batch, got, exits>>

\* The end of the cycle: the book is read again for the hold rows, and from 15:20
\* the session ends here.
LoopCycled ==
    /\ At("loop", "cycled")
    /\ IF clock = "open"
       THEN /\ cache' = paper
            /\ Goto("loop", "top")
            /\ UNCHANGED <<positions, stop>>
       ELSE SquareOff
    /\ UNCHANGED <<outside, paper, booked, closed, exec, reserved, sized, confirmed,
                   exitVars, wstop, handoff, loopVars, batch, got, exits>>
-----------------------------------------------------------------------------
(* Exits: exit_single_position, by the monitor or by an RMS thread         *)

MayExit == /\ exits < MaxExits
           /\ May("overlap") \/ (~Exiting /\ Asleep)

\* on_ltp_tick: a position past its limit gets an exit thread, one at a time and
\* none for an exited symbol.
Tick(s) ==
    /\ May("tick") /\ MayExit
    /\ ~At("monitor", "ended")
    /\ positions[s] # 0
    /\ s \notin exited /\ s \notin inflight
    /\ inflight' = inflight \cup {s}
    /\ exits' = exits + 1
    /\ Goto(s, "exit")
    /\ UNCHANGED <<outside, book, exec, exposure, exited, exitDocs, flags, loopVars, batch,
                   got>>

\* The order that closes what the paper book holds for s.
ExitRequest(s) ==
    Request(s, -Sign(paper[s]), Size(paper[s]),
            IF paper[s] > 0 THEN "EXIT_LONG" ELSE "COVER_SHORT", Snapshot(s, paper[s]))

\* Mutant: a failed exit keeps its marker.
Unmarked_OnSuccess(t, ok) == IF ok THEN inflight \ {t} ELSE inflight

\* The RMS thread drops its marker however the exit ended.
Unmarked(t, ok) == inflight \ {t}

\* Where a thread is when its exit is over.
Back(t) == IF t = "monitor" THEN "watch" ELSE "none"

\* The book is read; with nothing to exit the request fails.
RmsSubmit(s) ==
    /\ At(s, "exit")
    /\ cache' = paper
    /\ IF paper[s] = 0
       THEN /\ Goto(s, Back(s))
            /\ inflight' = Unmarked(s, FALSE)
            /\ UNCHANGED <<queue, executor, batch, got>>
       ELSE /\ Submit(s, <<ExitRequest(s)>>)
            /\ UNCHANGED inflight
    /\ UNCHANGED <<outside, book, filling, results, reserved, sized, confirmed, exited,
                   exitDocs, flags, loopVars, exits>>

\* A manual exit request, taken off the worker's Redis queue.
ManualExit(s) ==
    /\ May("exit") /\ MayExit
    /\ At("monitor", "watch") /\ ~wstop /\ ~At("loop", "ended")
    /\ exits' = exits + 1
    /\ cache' = paper
    /\ IF paper[s] = 0 THEN UNCHANGED <<queue, executor, pc, batch, got>>
       ELSE Submit("monitor", <<ExitRequest(s)>>)
    /\ UNCHANGED <<outside, book, filling, results, reserved, sized, confirmed, exitVars,
                   flags, loopVars>>

\* The first result is taken for the answer to this exit: it closes the symbol asked
\* for, with the result's quantity and snapshot.
ExitRecord(t) ==
    /\ t # "loop" /\ At(t, "record")
    /\ LET res == Head(got[t])
           s == batch[t][1].sym
       IN IF res.ok
          THEN /\ Close(s, res.req.qty,
                        IF res.req.snap # 0 THEN res.req.snap ELSE batch[t][1].snap)
               /\ Goto(t, "clear")
               /\ UNCHANGED inflight
          ELSE /\ Goto(t, Back(t))
               /\ inflight' = Unmarked(t, FALSE)
               /\ UNCHANGED <<booked, positions>>
    /\ UNCHANGED <<outside, paper, closed, exec, exposure, exited, exitDocs, flags,
                   loopVars, batch, got, exits>>

ExitClear(t) ==
    /\ t # "loop" /\ At(t, "clear")
    /\ Clear(batch[t][1].sym)
    /\ inflight' = Unmarked(t, TRUE)
    /\ Goto(t, Back(t))
    /\ UNCHANGED <<outside, positions, booked, closed, exec, exposure, flags, loopVars,
                   batch, got, exits>>
-----------------------------------------------------------------------------
(* The end of the session                                                  *)

\* The gunicorn process sets the worker's stop event; SIGTERM sets the trader's too,
\* in the middle of whatever the monitor is doing.
WorkerStop ==
    /\ ~wstop
    /\ wstop' = TRUE
    /\ stop' \in {stop} \cup {x \in {TRUE} : May("sigterm")}
    /\ UNCHANGED <<outside, book, exec, exposure, exitVars, handoff, loopVars, threads>>

\* Mutant: the trader is not told.
Told_No == stop

Told == TRUE

\* A stop ends the trader and the watch; a trader that has ended ends the watch.
MonitorStop ==
    /\ At("monitor", "watch")
    /\ IF wstop THEN stop' = Told /\ Goto("monitor", "joining")
       ELSE At("loop", "ended") /\ UNCHANGED stop /\ Goto("monitor", "ended")
    /\ UNCHANGED <<outside, book, exec, exposure, exitVars, wstop, handoff, loopVars,
                   batch, got, exits>>

\* trader_thread.join(45), then shutdown in this thread too.
MonitorJoin ==
    /\ At("monitor", "joining")
    /\ At("loop", "ended") \/ May("slow")
    /\ Goto("monitor", "pyramid")
    /\ UNCHANGED <<outside, book, exec, exposure, exitVars, flags, loopVars, batch, got, exits>>

\* shutdown: no square-off; the capital pyramid first, which leaves a handoff
\* whatever happens in it.
ShutdownPyramid(t) ==
    /\ At(t, "pyramid")
    /\ stop' = TRUE
    /\ handoff' = TRUE
    /\ Goto(t, "halt")
    /\ UNCHANGED <<outside, book, exec, exposure, exitVars, wstop, loopVars, batch, got, exits>>

\* Then the order workers and the reservations.
ShutdownHalt(t) ==
    /\ At(t, "halt")
    /\ executor' = IF executor = "none" THEN "none" ELSE "stopped"
    /\ reserved' = Flat
    /\ Goto(t, "ended")
    /\ UNCHANGED <<outside, book, queue, filling, results, cache, sized, confirmed, exitVars,
                   flags, loopVars, batch, got, exits>>

ClockTicks ==
    /\ clock' = CASE clock = "open" -> "cutoff"
                  [] clock = "cutoff" -> "closed"
                  [] OTHER -> clock
    /\ clock' # clock
    /\ UNCHANGED <<irregular, book, exec, exposure, exitVars, flags, loopVars, threads>>
-----------------------------------------------------------------------------
\* _restore_open_positions_from_trade_log: one lot, on the side of the last signal
\* logged for it, which fixes the symbol's quantity too.  Symbols exited before the
\* restart still have their documents.
Init ==
    /\ irregular \in Irregular
    /\ clock = "open"
    /\ paper \in [Symbols -> IF May("restored") THEN {-Lot, 0, Lot} ELSE {0}]
    /\ positions = paper
    /\ booked = Flat /\ closed = Flat
    /\ queue = << >> /\ filling = << >> /\ results = << >>
    /\ executor = "none"
    /\ reserved = Flat /\ cache = Flat
    /\ sized = {s \in Symbols : paper[s] # 0}
    /\ confirmed = Flat
    /\ exited = {}
    /\ exitDocs \in SUBSET (IF May("restored") THEN Symbols ELSE {})
    /\ inflight = {}
    /\ stop = FALSE /\ wstop = FALSE /\ handoff = FALSE
    /\ active = Symbols
    /\ view = Flat
    /\ pc = [t \in Threads |-> CASE t = "loop" -> "top"
                                 [] t = "monitor" -> "watch"
                                 [] OTHER -> "none"]
    /\ batch = [t \in Threads |-> << >>]
    /\ got = [t \in Threads |-> << >>]
    /\ ordered = 0 /\ exits = 0

Worker ==
    \/ \E i \in DOMAIN queue : Execute(i)
    \/ \E i \in DOMAIN filling : SyncPositions(i)

Loop ==
    \/ LoopTop \/ LoopFetch \/ LoopDecide \/ LoopRecord \/ LoopClear \/ LoopRecorded
    \/ LoopCycled

Thread(t) ==
    \/ t = "loop" /\ Loop
    \/ t = "monitor" /\ (MonitorStop \/ MonitorJoin)
    \/ t \in Symbols /\ RmsSubmit(t)
    \/ Collect(t) \/ CollectTimeout(t) \/ Join(t)
    \/ ExitRecord(t) \/ ExitClear(t)
    \/ ShutdownPyramid(t) \/ ShutdownHalt(t)

Outside ==
    \/ \E s \in Symbols : Tick(s) \/ ManualExit(s)
    \/ WorkerStop
    \/ ClockTicks

Next == Worker \/ (\E t \in Threads : Thread(t)) \/ Outside

Spec == Init /\ [][Next]_vars

\* Every thread of the worker goes on when it can; ticks, the user, the clock and the
\* stop are not bound to come.
FairSpec ==
    /\ Spec
    /\ WF_vars(Worker)
    /\ \A t \in Threads : WF_vars(Thread(t))
-----------------------------------------------------------------------------
(* Properties                                                              *)

IsSeqOf(q, Test(_)) == \A i \in DOMAIN q : Test(q[i])
IsRequest(r) == r \in Requests
IsOutcome(o) == DOMAIN o = {"req", "ok"} /\ o.req \in Requests /\ o.ok \in BOOLEAN

\* The type of the state.
TypeOK ==
    /\ irregular \in Irregular
    /\ clock \in {"open", "cutoff", "closed"}
    /\ \A f \in {paper, positions, cache, view} : f \in [Symbols -> Int]
    /\ \A f \in {booked, closed, reserved, confirmed} : f \in [Symbols -> Nat]
    /\ IsSeqOf(queue, IsRequest) /\ IsSeqOf(filling, IsRequest)
    /\ IsSeqOf(results, IsOutcome)
    /\ executor \in {"none", "running", "stopped", "restarted"}
    /\ \A S \in {sized, exited, exitDocs, inflight, active} : S \subseteq Symbols
    /\ stop \in BOOLEAN /\ wstop \in BOOLEAN /\ handoff \in BOOLEAN
    /\ pc \in [Threads -> {"none", "top", "fetch", "decide", "collect", "record", "clear",
                           "cycled", "watch", "exit", "joining", "pyramid", "halt", "ended"}]
    /\ \A t \in Threads : IsSeqOf(batch[t], IsRequest) /\ IsSeqOf(got[t], IsOutcome)
    /\ {ordered, exits} \subseteq Nat

\* Exits keep out of each other's and the cycle's way, and no result is late.
Orderly == irregular \cap {"overlap", "timeout"} = {}

\* Nobody is between a fill and the bookkeeping that follows it.
Quiet == filling = << >> /\ ~\E t \in Threads : pc[t] \in {"collect", "record", "clear"}

\* fills.py, "Keep self.positions in sync (PnL / tick handler use this dict)": in an orderly
\* run the book the ticks are checked against is the paper book, through fills, flips,
\* exits and two different locks, until the market close clears one of them.
BooksAgree == Orderly /\ Quiet /\ clock = "open" => positions = paper

\* In an orderly run what the exits close is booked exactly once, although the fill has
\* already removed the position the profit is computed from.
BookedExact ==
    Orderly => \A s \in Symbols :
        /\ booked[s] <= closed[s]
        /\ Quiet => booked[s] = closed[s]

\* The exposure check (exposure.py, _stock_exposure) reads a cache that three threads
\* refresh and the order workers do not: when the loop checks, the cache never holds fewer
\* shares of a symbol than the book, and no entry or flip of an earlier cycle is still
\* queued, however exits overlap the cycle and whichever results came too late.
CheckCoversBook ==
    At("loop", "decide") =>
        /\ \A s \in Symbols : Size(paper[s]) <= Size(cache[s])
        /\ \A i \in DOMAIN queue : queue[i].act \in Exits

\* The result queue is shared by all callers; without timeouts nobody finds a result
\* another call has left behind, so every caller gets as many as it ordered.
NoStrayResult ==
    ~May("timeout") /\ results # << >> =>
        \E t \in Threads : At(t, "collect") /\ Len(got[t]) < Len(batch[t])

\* Reservations last no longer than the cycle: a symbol is not locked out by an order that
\* failed, was filled or was for a flip that reserved nothing.
ReservationsSettle ==
    Orderly /\ pc["loop"] \in {"top", "fetch", "decide", "cycled"} => reserved = Flat

\* Trader.__init__, "Symbols manually exited - excluded from future cycles": in an orderly
\* run an exited symbol never holds a position again.
ExitedFlat ==
    Orderly /\ ~May("restored") => \A s \in exited : paper[s] = 0 /\ positions[s] = 0

\* live_pnl.py, "drop the inflight marker either way so a retry is possible if it failed":
\* no symbol is left without its stop-loss because an earlier exit did not come back.
RetryPossible == \A s \in Symbols : s \in inflight ~> s \notin inflight \/ stop

\* trader_worker.py, "First action on any stop path: halt the trader loop before
\* pyramid/shutdown": a stop reaches the end of the monitor with a pyramid handoff to
\* publish, unless SIGTERM caught an exit whose order workers the loop's own shutdown then
\* stops.
HandoffReached ==
    ~May("sigterm") /\ wstop /\ ~At("monitor", "ended") ~> handoff /\ At("monitor", "ended")
=============================================================================
