# A TLA+ model of the Mintzy trading plugin

The plugin is a FastAPI application, run by two gunicorn processes, that starts
one trader process per trading session. A paper trader (strategy B) simulates
orders and, when it is stopped, decides by its "pyramid" which symbols may go
live; a live trader (strategy C) sends orders to the broker. This directory
holds TLA+ models of the plugin's own logic, the TLC runs that check them on
small instances, and TLAPS proofs of what holds on every instance.

## Inventory

| Part | State | Operations | What is hard | Modelled by |
|---|---|---|---|---|
| Worker registry (`session_worker/registry.py`, `lifecycle.py`) | `_workers` per gunicorn process; Redis pid key and meta key per session; the OS's processes | start, prepare for live, ensure stopped, terminate, stop, signal only, reconcile, health monitor | shared keys with check-then-act, zombies, crashes, evicted keys, a thread pool beside the event loop | `SessionRegistry` |
| Simulation stop and handoff (`stop_jobs.py`, `trader_worker.py`, `routes/simulation.py`) | Redis flag, stop job, pyramid result; Mongo session document; the worker's stop event | async, sync and plain stop, status poll, worker shutdown | lost updates, TTLs, kills during shutdown, stale records | `StopSimulation` |
| Session authentication (`session_service.py`, `auth.py`, `db.py`) | `sessions_store` of each process, the Mongo document | credentials, TOTP, restore, persist, stop, close | a copy per process, read-then-write, the never-downgrade rule | `SessionAuth` |
| Order executor (`order_execution.py`, of both strategies) | order queue, result queue, workers | submit, worker loop, stop | results of several callers in one queue, timeouts | `LiveEngine` (C), `PaperEngine` (B) |
| EOD exit and ledger (`utils/eod_exit.py`, `session_ledger.py`, both `eod_exit.py`) | EOD slot, signed ledger, pending orders, broker positions | square-off, single exit, fills | callers that ignore a failure, stale snapshots | `SquareOff`, `LiveEngine` (C), `PaperEngine` (B) |
| Fills and exposure (`order_fill.py`, `exposure_risk.py`; `fills.py`, `exposure.py`) | pending orders, reservations, positions; the paper book | reconcile, handle fill, reserve, release | inference from net positions; two books under two locks | `LiveEngine` (C), `PaperEngine` (B) |
| Exit tracking (`exit_finalization.py`, `exit_persistence.py`; `exit_tracking.py`) | exited symbols, exit documents | record, merge | several exits of one position | `LiveEngine` (C), `PaperEngine` (B) |
| Trading loop and worker threads (`trader.py`, `session_broker.py`, `trader_worker.py`) | current symbols, broker positions, two stop events | cycle, market close, shutdown, manual exit | the threads and the executor's workers share the books | `LiveEngine` (C), `PaperEngine` (B); signals are any choice |
| Risk monitoring (`risk_monitoring.py`, `live_pnl.py`) | in-flight exits | tick stop-loss, portfolio limit | an exit thread per symbol beside the loop | `PaperEngine` (B); switched off in strategy C |
| Capital pyramid (`pyramid.py`, `pyramid_config.py`, `leverage.py`, `broker_cash.py`) | the saved configuration in Mongo, the mark `_pyramid_applied`, the handoff | fetch, evaluate, share, merge, save, publish | two threads run it, calls fail between two effects, lists of several shapes | `CapitalPyramid` |
| Price stream, CSV logger, exit-request queue, rate limiter | - | - | - | not modelled |
| Broker client, API wiring, dashboard and debug routes, logging | - | - | I/O and formatting | not planned |

Requests reach the registry from the routes; the registry spawns and signals
the worker; the worker and the stop routes meet again in Redis and Mongo. The
worker then trades through the executor, the ledger and the fill logic.

## Plan

1. `SessionRegistry` - done. It decides whether two traders can trade one
   account.
2. `StopSimulation` - done. It decides whether a session may go live.
3. `LiveEngine` - done for whole fills and one symbol. It decides what the
   session sells at the end of the day. One module and not three (executor,
   square-off, exposure), because its hazards are the interleavings of all three.
4. `SquareOff` - done. What squaring off promises, in six actions; `LiveEngine`
   implements it, by TLC on the instance and by proof on all.
5. `PaperEngine` - done. The paper trader's loop, exits and books: it produces the
   profits by which a session goes live.
6. `CapitalPyramid` - done. It decides which symbols go live, and with how much.
7. `SessionAuth` - done. It decides who may start trading, and with which token.
8. The exit-request queue in Redis.
9. In `LiveEngine`: orders filled in part, and an instance with two symbols.

Every safety property of a passing run is a theorem. Each component's proofs live in
a module of their own; lemmas about sums and sequences are shared in `DataLemmas`.

| Component | Its proofs |
|---|---|
| `SessionRegistry` | `SessionRegistryProofs` |
| `StopSimulation` | `StopSimulationProofs` |
| `LiveEngine` | `LiveEngineProofs`, and `SquareOffProofs` for what it promises by `SquareOff` |
| `PaperEngine` | `PaperEngineProofs` |
| `CapitalPyramid` | `CapitalPyramidProofs` |
| `SessionAuth` | `SessionAuthProofs` |
| `SetSums`, used by `LiveEngine`, `PaperEngine` and `CapitalPyramid` | `DataLemmas` |

A strengthened invariant was checked with TLC on a small instance before its proof was
begun. Where a theorem has a hypothesis, it is one under which the property's run was made,
and the section says why.

## SessionRegistry

One request is run by one thread, a step per point where something else can
happen in between. `workers[g][s]` is `_workers` of gunicorn process `g`, `pidKey`
and `meta` the two Redis keys, `pstate` and `parent` what the operating system
knows of a process: one that exits is a zombie, for which `os.kill(pid, 0)` still
succeeds, until its parent polls it (`Polled`) or spawns a process. `loop` is the
event loop of a gunicorn process, which `start_session` blocks while
`run_in_threadpool` calls go on beside it. `condemned` is the local list
`dead_workers` of the monitor. The order of the steps is the code's: for instance
`TerminatePop`, `TerminateKeys`, `TerminateKill`, `TerminateWait`,
`TerminateResult` are `_terminate_session_worker` from its guard to its result.

Every call to Redis may fail (`Down`), and the code swallows it where it does: a read
returns None as if there were no key (`PidRead`, `MetaRead`), a deletion leaves both keys
(`DeleteKeys`), a republication writes one key or none (`Republish`), and a worker whose
publication has failed three times serves without keys, or with them (`PublishFails`) -
but for a live one under `EOD_STRICT_REDIS_META` (`StrictMeta`), which is told to end and
never registered. So the pid key may name any earlier worker of the session.

Abstracted: durations (a wait ends with or without the exit it waits for), the
contents of the configuration, heartbeats (a worker told to stop, or one that
hangs, may be found unhealthy), and the pid's reuse by the system.

History variables: `stranded` collects the workers that a crash, a strict failed
publication or another worker's stop has left without keys. `AtMostOneWorker`
and `PrepSparesLive` exempt them; what else may happen to them is the subject of
the hazards and findings.

| Run | Instance | Shows |
|---|---|---|
| `registry_serial` | 2 processes with a thread each, 1 session, 3 pids, crashes, one request per session at a time | `TypeOK`, `AtMostOneWorker`, `RegistryOwnsChildren` |
| `registry_local` | 1 process with 2 threads, 2 sessions, 2 pids, limit 1, lost keys, Redis failures under `StrictMeta`, hanging workers | `PrepSparesLive`, `WithinLimit`, `StopLeavesNone` |
| `registry_concurrent` | as the first, with concurrent requests for the session | `OneLiveWorker` fails |

Bounds. A pid is used once, so three pids mean three workers over a run: one that
is stale in one registry, one that runs, one that a faulty start would add. With one
process two are enough: the worker whose key is stale and the one it is mistaken for.
The properties relate two workers of a session at most, and processes that neither
hold nor seek the session have no part in it. Two sessions and a limit of one are
the smallest instance in which starts of different sessions compete; `Competing` gives the
first session every start and stop and the second, which is there to compete, paper starts.
Pids are symmetric, in `registry_local` the two threads as well (`LocalSymmetry`), and in
`registry_serial` the two processes with their threads (`SerialSymmetry`).

`registry_serial` assumes one request per session at a time (`Serialized`): with
concurrent requests on two processes the property does not hold, which is what
`registry_concurrent` shows. With lost keys and two processes it fails as well,
because a key is then all that one process knows of the other's worker;
`registry_local` therefore has one. `AtMostOneWorker` and `PrepSparesLive` hold on both
instances; each run checks one of them, and both theorems are about both.

`registry_local` also assumes `EOD_STRICT_REDIS_META`, which is off by default. With
`StrictMeta = FALSE` and failing Redis calls, TLC finds on the same instance that
`PrepSparesLive` fails: a paper worker is stopped and its keys survive the swallowed
deletion; a live start reads None and spawns a worker that cannot be published; once Redis
answers, reconciliation compares it with the stale pid and ends it (`registry.py:187`),
although prepare_for_live_start promises "Never kills an existing live (non-B) worker"
(`lifecycle.py:91`). `StopLeavesNone` fails in a similar way: reconciliation clears a
dead stale pid and pops the registry's entry of the running worker with it
(`registry.py:198`), and the stop that follows answers that it has stopped the session. With
Redis answering, all three hold without the setting, which is what the theorems say. A
paper worker is less protected: a single read that fails ends it (`registry.py:173`).

### Proofs (`SessionRegistryProofs`)

All constants arbitrary, `RegistryAssumption` only, unless said otherwise.

* `TypeCorrect`: `Spec => []TypeOK`.
* `RegistryOwnership`: `Spec => []RegistryOwnsChildren`. The invariant is
  strengthened with what a thread between spawn and register knows of the pid it
  holds: nobody else can register or spawn it.
* `OneWorkerPerSession`: with `Serialized` and only hangs and crashes,
  `Spec => []AtMostOneWorker`. Inductive invariant: every worker that executes
  and is not stranded is named by its session's pid key, or is about to be
  published or killed by the one thread that serves the session (`Keyed`); a
  thread that spawns has seen the session clear (`ClearBeforeSpawn`); keys are
  deleted only for workers that have ended (`EndedBeforeDelete`). With
  `OneRequest` no other thread changes this in between.
* `WorkerLimit`: `Spec => []WithinLimit`. A thread between the count and the
  registration holds its process's loop (`LoopHeld`), so the room it has counted
  is still there (`RoomForOne`).
* `LiveIsSpared`: with the same hypotheses as `OneWorkerPerSession`,
  `Spec => []PrepSparesLive`. `SpareInv` adds that the strategy of a live worker is in the
  meta as long as its pid is under its key (`LiveIsTold`), which needs the keyed worker to
  be the one the meta is about, hence `WorkerInv`; that a spawned worker is of the
  strategy asked for, that what a paper start has condemned is no live worker, and that
  reconciliation deletes no entry of a worker that serves.
* `NoneIsLeft`: one gunicorn process that is not restarted (no crash), `Serialized`, and
  `StrictMeta` if Redis may fail: `Spec => StopLeavesNone`, whatever keys get lost and
  whichever deletions, reads and republications Redis fails in. A running worker is
  in the registry or carried by the request that serves its session (`WorkerIsKnown`), so
  a stop that has found no entry has nobody to miss; that it does not overwrite or delete
  the entry of a running worker is the rest of `StopInv`. With two processes the property
  is false, see the findings.
* `OneWorkerInOneProcess`: with the same hypotheses as `NoneIsLeft`,
  `Spec => []AtMostOneWorker`. The keys may be gone, or those of an earlier worker, so they
  prove nothing here. What does is that the registry knows every worker (`WorkerIsKnown`) but
  one that has been told to stop because its keys could not be published (`TurnedAway`), that
  a start on its way to the spawn has found the session without an entry (`NoneOverwritten`),
  and that no other request carries a worker of the session (`OneRequest`). Without
  `StrictMeta` the first of these fails: a stale pid takes a worker out of the registry.
* `LiveIsSparedInOneProcess`: with the same hypotheses, `Spec => []PrepSparesLive`.
  `SpareHere` says by the place of a request what it has found: a worker that it has condemned
  is a paper worker (`KillsPaper`), and the pid key of a session with a registered live worker
  names that worker or is gone (`LiveFitsKey`), because a live worker is registered only once
  its own pid has been written - so reconciliation never takes it for a stale entry.

The two pairs of theorems cover the two ways to run the plugin safely: several processes
whose keys survive, or one process whatever becomes of the keys.

## StopSimulation

A worker (`wpc`: its monitoring loop, shutdown, the flag, the job, one of its two
endings) and request threads (`pc`) share the Redis flag `flag`, the record `job`
and the handoff `result`, and write `mongo`. Every Redis or Mongo call is one step
and `update_stop_job` is two. `Lossy` says what an outage does to a write or a
read: the code catches and logs it. `known` abstracts the registry: whether a stop
still finds the worker. A job keeps its status, the handoff it carries and the
response a poll has cached in it.

Abstracted: the handoff's contents (allowed or blocked), phases, timings, the
in-memory stores of the routes. `StopWait` covers the graceful exit and the kill.

A worker may hang at any point (`WorkerHangs`): `order_queue.join()`
(`order_execution.py:228`), in a manual exit or in the shutdown, has no timeout, as
`engine_hang` shows below. What ends such a worker is the parent: a blocking stop
that waits for it (`StopWait`: `join(240)` or `wait(60)`, then a kill), or the health
monitor of the process that started it (`MonitorKills`), because the heartbeats end with the
stop event and 120 s later the worker counts as unhealthy. `watched` says that this
process still runs.

Fairness (`FairSpec`): weak fairness of the worker unless it hangs, whose monitoring loop
wakes every second, of `MonitorKills`, whose loop wakes every 30 s, and of `StopWait`, whose
waits are bounded. No other request need go on; nothing is assumed of the trader ending by
itself, of failures, hangs, crashes or expiry. `StopEnds` therefore leaves one case out: a
worker that hangs when no stop waits for it and the process that started it is gone.
An asynchronous stop alone never kills (`stop_session_signal_only`).

The monitor does not wait for a shutdown that takes long: one that needs the 195 s
of `constants.py:19` is killed some 120 s after the stop, whatever the 240 s of
`WORKER_GRACEFUL_STOP_TIMEOUT_SECONDS`, and its handoff is lost; the answer is then "blocked"
(`AllowedOnlyByPyramid`), and the session cannot go live.

| Run | Instance | Shows |
|---|---|---|
| `stop_simulation` | 2 threads, all requests, expiry and worker failures, a paper worker followed by a live one | `TypeOK`, `ReadyMeansEnded`, `AllowedOnlyByPyramid`, `SimStopKeepsAuth` |
| `stop_outage` | 1 thread, all requests and faults (outages, expiry, worker failures, hangs, a crash of the process that watches the worker), fair | `StopEnds` |
| `stop_stale_flag` | 2 threads, blocking stops | `LiveKeepsTrading` fails |

Bounds: `MaxRuns` workers, of which the first `PaperRuns` may be paper workers. One
paper worker and a live successor are the handoff the code is about. Records left
by an earlier paper worker are a known weakness (see the hazards); the passing
runs exclude a second one.

### Proofs (`StopSimulationProofs`)

* `TypeCorrect`: `Spec => []TypeOK`, for any constants.
* `CompletedMeansEnded`, `PyramidAllows`, `SignalledKeepsAuth`: `ReadyMeansEnded`,
  `AllowedOnlyByPyramid` and `SimStopKeepsAuth`, for any threads, requests, number of live
  workers and faults, but with `PaperRuns <= 1`. With a second paper worker they are
  false: the job, the flag and the handoff of the first answer for it
  (`lifecycle.py:590`, under the hazards). `StopInv` follows every copy of the job: until the
  paper worker has ended none is completed, in Redis or in the hand of a request
  (`NotYetReady`); nothing allows what the pyramid has not (`NothingAllowed`); a
  signalled worker's job is pending unless an outage has hidden the stop (`JobPending`), so
  that the worker which looks at it after its shutdown takes the right ending.

## LiveEngine

One worker process of strategy C. `pc["loop"]` is the trader's thread
(`trader.py`, `start`): `LoopTop` to `LoopCycled` are one pass, split at every
broker call, at the executor's queues and at every result. `pc["monitor"]` is the worker's
main thread (`trader_worker.py`): it watches both stop events, carries out manual
exits (`ExitSubmit`, `ExitRecord`), waits up to 45 s for the loop and then runs
`shutdown` itself. `rpc` is the reconciler's thread (`_reconcile_pending_orders`),
`Execute` any of the executor's workers. `EodBegin` to `EodAfter` are
`_exit_all_positions_and_stop` and what its two callers do next, run by either thread.

| Variable | Code |
|---|---|
| `queue`, `results`, `executor` | `order_queue`, `result_queue`, the executor's life |
| `pending`, `positions`, `ledger`, `reserved` | `pending_orders`, `positions`, `_session_open_qty`, `reserved_exposure` |
| `cache`, `view`, `rview` | the last broker positions, and the copies the loop and the reconciler work from |
| `slot` | `_eod_exit_in_progress` and `_eod_exit_done` |
| `exited`, `exitDocs` | `_exited_symbols`, the `exited_symbols` collection |
| `orders`, `manual` | external: the broker's book and the user's own position |

`irregular`, fixed at the start of a run, is what may go wrong in it: refused orders,
orders that rest before they fill, broker calls that fail, positions without a
price, callers that time out while the order goes through, the 120 s limit, a loop
that outlasts its join, manual exits, the user's own trades. A property says
which of them it tolerates (`Calm`: refusals only; `Patient`: all but a loop that
outlasts its join and manual exits).

Abstracted: every lot costs one unit of exposure; signals are arbitrary; sides are
signs; orders fill whole; the candle clock (a pass may start at any time).
Left out: the Redis allow-list of symbols, the environment's switches, exceptions
that the code catches per symbol, the rate limiter (it only delays), the stop-loss of
each tick and the portfolio limits, which strategy C has switched off.

| Run | Instance | Shows |
|---|---|---|
| `engine` | 1 symbol, 2 trader orders, 1 manual exit, `MCEach` | `TypeOK`, `OneSquareOff`, `SquareOffOnce`, `LedgerExact`, `NoLeakedReservation`, `CalmExitsReduce`, `KeepsPromise`, `NeverReenters`, `DoneIsFinal` |
| `engine_flat` | the same, nothing irregular | `SquareOffFlat` fails |
| `engine_hang` | the same, fair | `ShutdownEnds` fails |

Bounds. Two orders are an entry followed by an expansion, a flip or a stop-loss
exit, while the first may be pending; the square-off of each thread and a manual exit come
on top. The same properties were checked once with three trader orders (an exit
after a flip, 14.5 million states) with the same result. `Cap` is two lots, so
that a reservation that is not given back locks the symbol out. `MCEach` takes
the irregularities one at a time, and in pairs where one needs the other. One
symbol leaves out what crossed results do between symbols.

The runs switch the deadlock check off: when both threads and the reconciler have
ended, the process is over.

Fairness (`FairSpec`): weak fairness of the loop, the monitor's own steps, the
reconciler, the executor's workers and each thread's square-off, since none of them waits
without a timeout except in `order_queue.join`, which is what `Join` models. The
user, the clock and the stop need not come; `engine_hang` reads from a stop on.

What is not claimed. `LedgerExact` and `CalmExitsReduce` speak of calm runs, and the
code does not give more: an exit that rests at the broker is in no ledger, and
the square-off sells the same shares again; a manual exit looks at neither pending orders
nor the slot; with an empty ledger an exit sells whatever the broker holds, the user's
own shares included; a fill is read off the net position, which the user's trades
move. `NoLeakedReservation` excludes manual exits, which may take results that the
loop waits for and deal with them as exits. `NeverReenters` rests on the records: the
code swallows a failing write or read of one (`exit_persistence.py:199`), and the model
takes them to be written. `DoneIsFinal` excludes the loop that outlasts its join, whose
orders may come after the monitor's square-off, and manual exits, which the worker
still carries out then.

### Proofs (`LiveEngineProofs`)

* `TypeCorrect`: `Spec => []TypeOK`. What a thread takes off its results is there to be taken:
  `Answered` relates `pc` to what has been submitted and collected, and a pending order
  or a result is about an order that the broker's book has.
* `NothingLeaks`: `Spec => []NoLeakedReservation`, for any symbols, quantities, bounds and
  irregularities. What is reserved of a symbol is at most what its entry orders ask for that
  are queued, placed with their result on the way, in a caller's hand or pending
  (`Entering`, five sums, one for each of these places). A reservation is
  not attached to an order, so the proof counts: each action moves a term from one
  sum to the next, or takes the same quantity off both sides. `Matches` says
  that a result speaks of the order it is paired with, by symbol and quantity, although
  results may reach another caller than the one who asked; the inequality holds until the
  first submission of the square-off (`Unplanned`), whose callers drop what they took.
* `SquareOffExclusive`, below.

`LedgerKnowsAll` and `ExitsOnlyReduce`: `Spec => []LedgerExact` and
`Spec => CalmExitsReduce`, for any symbols, quantities and bounds. Both speak of calm
runs, where `irregular` holds at most `"reject"`; that is the hypothesis of
the properties themselves, not one of the theorems. One invariant, `CalmInv`, serves
both. What has to be shown is that four actors who read the ledger at different times
never act on the same order twice, nor on a position that is about to move the other
way. It says, in this order:

* who may act: the monitor only watches until the loop has ended, and the slot is free
  while the loop trades (`Turns`); what a caller submitted is in the queue, in the results or
  in its hand (`Counts`), so nothing is left over when it goes on;
* where an order is: under the action it was asked for (`ActsKept`), trades only in a
  cycle's hands (`Trading`), and in one place of results, hands and pending lists
  (`OnePlaceEach`);
* what the books say, a symbol at a time (`Book`): positions and ledger agree, and the
  ledger is the sum of the filled orders that are no longer on their way (`Booked`). On
  their way are at most one trade and one exit, the exit only beside an entry or
  expansion, and each fits the ledger (`InAir`): an entry or expansion is
  not on the other side of it, an exit is and is no larger, a flip is and is twice its
  size. The queue
  holds no second order of a symbol (`InQueue`), and the decisions of a cycle rest on what
  the engine has just then (`FreshView`);
* what the reconciler has read: its copy holds only pending orders (`Copied`), and the net
  position it fetched already shows each order it has still to look at (`Scanned`), so
  an order is booked once and never taken for one that failed.

A step is then a quiet one, a submission, a placement, a collected result or a
booking (`CalmSteps`), and each moves one term between the ledger, the orders on their
way and the queue; the sums are those of `DataLemmas`. The exit's side and size
follow because an order that fits the ledger still fits after the one entry that
may land before it (`ExitReduces`). The invariant was checked with TLC on two symbols
and three orders (2.7 million states) before the proof.

`NeverReentered`: `Spec => NeverReenters`, for any symbols, quantities, bounds and
irregularities. A cycle reads the records once, at its top, while the monitor and the
reconciler write some in the middle of it. An exit that is still pending, or that the
reconciler has copied, has had its record since before it was pending (`DocsPending`), so settling it adds
none; and a record that does come between the top of the loop and its decision is also
in memory, where the decision looks (`DocsKnown`).

`NothingAfterDone`: `Spec => DoneIsFinal`, for `Patient` runs, the property's own hypothesis.
`DoneInv` has three parts. `Turns` (who may act) rests on nothing but that the monitor
waits for the loop, and therefore holds in every patient run, not only in calm ones; as
long as anything is queued somebody is collecting (`Awaited`); and what the loop collects
for is its cycle or a square-off, the monitor an exit or a square-off (`OwnJobs`). When the
square-off is done none of these is left, so the queue is empty, and nobody may fill it
again.

`SquareOffExclusive`: `Spec => []OneSquareOff`, for any symbols, quantities, bounds and
irregularities. `OneSquareOff` alone is not inductive: a thread that waits in `collect` or
`record` is inside the square-off only by its `job`. `SlotInv` adds the types of `pc` and
`job` and that a thread which has turned to the square-off has kept its reason in `job`
(`KnowsWhy`). `MovesQuietly`, `MovesIn` and `MovesOut` treat a step that keeps a
thread inside or outside, one that enters (the slot was free, so nobody was inside) and
one that leaves; each action is one of them.

## SquareOff

The abstract specification of the square-off: one caller at a time takes the
phase, asks for a non-empty set of the symbols the session holds (`Ask`) or gives
up before it has asked for anything (`GiveUp`), and finishes; an order asked for
reaches the broker once or never (`Place`); fills change what is held at any time
(`Trade`). It has no threads, queues, books or retries.

`LiveEngine` implements it by `Promise == INSTANCE SquareOff`: `phase` is the EOD
slot, `held` the ledger's open symbols, `asked` the square-off orders in the threads'
batches (`AskedFor`), `placed` the number of square-off orders of a symbol in the broker's
book. `KeepsPromise` is a property of
the run `engine`, with every irregularity of `MCEach`, and a theorem.

### Proof (`SquareOffProofs`)

`SquareOffIsOnce`: `Spec => []SquareOffOnce`, and `EngineSquaresOff`:
`Spec => KeepsPromise`, from `EngineAssumption` alone. A retry after a square-off
that was given up is harmless only because nothing had been submitted, and a
finished one cannot begin again; what has to be proved is that between the two no
order is made twice, duplicated by the executor, or lost track of. The inductive
invariant `OnceInv` says that square-off orders are asked for before they are queued and
placed (`AskedFirst`), that a symbol's order is in the queue or at the broker but never in
two places (`OnePlace`), and that a thread which has asked never plans again, and waits
for what it has asked (`AskedOnce`); `SlotInv` says who may plan at all. The proof has a
lemma per group of actions (`LoopPromise`, `MonitorPromise`, `SquareOffPromise`,
`PlaceStep`, `SettleStep`) which shows that each maps to one action of `SquareOff` or
a stutter.

Every property of the run `engine` is proved; `SquareOffFlat` and `ShutdownEnds` do not
hold.

## PaperEngine

One worker process of strategy B. `pc["loop"]` is the trader's thread, `LoopTop` to
`LoopCycled`; `pc["monitor"]` the worker's main thread, with manual exits and the
shutdown; a symbol's own name is its RMS exit thread (`_rms_exit_worker`), started
by a tick. `Execute` and `SyncPositions` are the order workers: an order fills the
paper book under `_paper_lock`, then `positions` under `positions_lock`, then its
result goes on the queue that all callers share.

| Variable | Code |
|---|---|
| `paper`, `positions`, `booked` | `_paper_positions`, `positions`, `realized_pnl_by_symbol` |
| `queue`, `filling`, `results`, `executor` | `order_queue`, orders a worker is filling, `result_queue`, the executor's life |
| `reserved`, `cache`, `sized`, `confirmed` | `reserved_exposure`, `_broker_positions_cache`, `symbol_qty`, `_confirmed_fill_qty` |
| `exited`, `exitDocs`, `inflight` | `_exited_symbols`, the collection, `_rms_exit_inflight` |
| `view`, `active` | the loop's `broker_positions` and `symbols` |
| `closed` | history: the shares that exits took off the paper book |

Abstracted: prices (profit is counted in shares booked; a breach, a signal, and whether
the exposure limit leaves room for an opening or an expansion are choices); documents; the
candle clock. Left out: the
reconciler and the pending orders, which in this engine are unreachable - every
result is filled or has no order id, so `pending_orders` stays empty, and so does
the session ledger, which only reconciled fills write; the handlers for an exception
that escapes a cycle; the portfolio limits, whose calls are commented out; the crash
branch of an order worker.

| Run | Instance | Shows |
|---|---|---|
| `paper` | 2 symbols, 2 loop orders, 1 exit, `MCEach`, fair | `TypeOK`, `BooksAgree`, `BookedExact`, `CheckCoversBook`, `NoStrayResult`, `ReservationsSettle`, `ExitedFlat`, `RetryPossible`, `HandoffReached` |

Bounds. Two orders are an entry with its expansion, flip or stop-loss exit, or two
entries of one cycle, whose results two workers deliver in any order; the exit, manual
or by a tick, comes on top, and `"restored"` runs begin with positions. `MCEach` has the orderly run and
the irregularities by what they can spoil together.

The deadlock check is off: the worker ends.

Fairness (`FairSpec`): weak fairness of the order workers and of each thread. None
of them waits without a timeout, except in `order_queue.join` (`Join`). Ticks, the
user, the clock and the stop need not come.

What is not claimed. An exit that overlaps a cycle or another exit may book the same
shares twice, because `_close_position` falls back on a snapshot taken before the
other exit filled; `BooksAgree` and `BookedExact` are about `Orderly` runs. A market
close leaves `_paper_positions` open, although its comment says
"EXIT ALL POSITIONS": its plan comes from the empty ledger, and only `positions` is
cleared; `BooksAgree` stops there. A flip after an expansion sets the
position to half the order's quantity, and the shares it drops are booked nowhere,
which `BookedExact`, counting exits, does not see. The exposure limit is one of rupees,
quantity times average price, and nothing here says that it holds: a flip is
neither checked nor reserved, and resets the average price to its fill price
(`trader.py:902`, `fills.py:246`), so that 10 shares at 100 under a limit of 1000 may
become 10 at 150. `CheckCoversBook` says what the check can be relied upon for, that the
cached positions it adds up are no smaller than the book. A restored session takes one
position per logged symbol, those exited since included. After SIGTERM an exit may wait in
`order_queue.join` for workers that the loop's shutdown has stopped, so
`HandoffReached` excludes `"sigterm"`.

### Proofs (`PaperEngineProofs`)

From `PaperAssumption` alone, for any finite set of symbols.

* `TypeCorrect`: `TypeOK`; `Types` adds where each thread may be and what it holds there.
* `CheckCovers`: `CheckCoversBook`, with every irregularity. `ExposureInv` says that between
  two cycles only exits are queued (`OnlyExits`), because the loop joins the queue, and that
  the cached book the loop decides by does not understate a position (`Covered`): after it
  was read, only exits change the book, and they shrink it.
* `NoneStray`: `NoStrayResult`. `Counted` is a sum over the threads: what the callers still
  wait for is what is in the queue, in work and in the results. Without timeouts
  nobody waits between two cycles, so nothing is left.
* `BooksInSync`, `BookedOnce`, `NothingReserved`, `ExitedStaysFlat`: `BooksAgree`,
  `BookedExact`, `ReservationsSettle`, `ExitedFlat`, which speak of orderly runs. One invariant,
  `OrderlyInv`: exits run one at a time and not during a cycle (`OneAtATime`), a symbol has
  at most one order in work, wherever it is (`Apart`), what is in work during an exit is the
  exit (`Answers`), and by the place that order has reached, `Agrees` says how the two books,
  the reservation and the profit booked differ.

## CapitalPyramid

`_apply_capital_pyramid_on_stop`, called by every `shutdown`: by the loop when it
sees the stop at the top of a cycle, and by the monitor after it has waited for the
loop. A thread's pass is `Begin` (the mark, the configuration), `Cash` (broker, else
what the login left), `Evaluate` (exit documents and profits against the threshold of
the rank, the shares), `Save` (one `update_one`), `Apply` (the mark) and `Finish`;
`Publish` is the monitor's write to Redis, which `StopSimulation` takes up as
`result`.

A configuration has a master list and a list under `alphas`, either of which may
be missing, and `alphas` may be an array; an entry has a capital and a rank, both of
which may be missing. `Template`, `MappedRank`, `RankOf`, `CapitalOf`, `Evaluated` and
`Merged` are the code's helpers on them. Amounts are integers of paise, multipliers
twentieths, thresholds millionths; `Share` rounds to the nearest paisa.

Abstracted: the profit of a symbol is a variable that moves at any time, read for
all symbols at once; ids, dates and the other fields of an entry. Left out: the
`pyramid_pnls` rows, and the lines of `pyramid.py` that are commented out.

| Run | Instance | Shows |
|---|---|---|
| `pyramid` | 2 symbols of the session and 1 outside it, 6 shapes of configuration, 2 moves of profits, `MCEach` | `TypeOK`, `AllCashShared`, `SharesByRank`, `BlockedPreserves`, `LiveIsSaved`, `OutsidersKept`, `ChangedOnce` |

Bounds. Two symbols of the session are what it takes to share cash by rank, to have a
winner beside a loser, and to have one profit move between two passes; the third is
in the lists but not in the session. The profits are below, at the edge of, and above the
thresholds of the capitals used; the cash does not divide evenly; the ranks are
missing, zero, inside and beyond the table. Deadlock is off: the worker ends.

What is not claimed. `"slow"` and `"lost"` are excluded where a property says `Orderly`: when
the monitor does not wait for the loop, both may compute, save and return, and
the handoff that is published need not be the configuration that was saved last; when
the reply to a save is lost, the pass is blocked although the configuration has
changed, and the next pass multiplies its result again. With `alphas` an array the
saved lists may disagree: the array is listed but never found again by its path.
`OutsidersKept` holds with all of them.

### Proofs (`CapitalPyramidProofs`)

From `PyramidAssumption` alone: any finite set of symbols, any configurations, cash, profits
and irregularities. `Allocation > 0` is what the request model demands of a capital
(`models.py:25`); with a capital of 0 a symbol would not be evaluated.

* `TypeCorrect`: `TypeOK`. `OthersAreKept`: `OutsidersKept`, because whatever a pass has read
  or merged differs from the master configuration in the session's symbols only (`Kept`).
* `CashIsShared`: `AllCashShared`. The shares add up to the cash but for half a paisa each,
  by a lemma on the sum of quotients over any finite set (`SharesAddUp`).
* `LiveByRank`, `BlockedIsPreserved`, `LiveIsWhatIsSaved`: `SharesByRank`, `BlockedPreserves`,
  `LiveIsSaved`. In an orderly run the monitor begins when the loop has returned (`InTurn`),
  and the two passes are in one of three phases: nothing saved, one saving what it has
  computed from the master, or done (`Untouched`, `Saving`, `Done`). So no pass reads what
  another has multiplied, and what is published is what the last pass has saved.
* `SavedOnce`: `ChangedOnce`, from the same phases: a pass that is about to save is in the
  first of them (`NotYet`).

## SessionAuth

Each gunicorn process has its own `sessions_store`; the document in `plugin_sessions` is
all they share. `store[p]` and `doc` are the two for one session; a token stands for the
login that brought it, `at` for `authenticated_at`. A process runs its requests in one
event loop, so a step is the code between two awaits: `Fetch`, `Login`, `Persist`,
`Harden` and `StartPersist` are the calls that run in a thread meanwhile. `Lookup` to
`Restore` are `get_or_restore_session`, `Populate` its last branch; `Totp` to `Harden`
are `authenticate_totp`, `Start` to `StartCheck` `start_trading` up to where
`SessionRegistry` takes over, `Stop` `stop_trading` after `stop_session`, `Finalize` the
end of a simulation stop for either handoff. `MarkStopped` is a worker that ends, or the
administrator's stop.

Python hands out references: `held` is the entry a request works on, `same` says that it
still is the one in `sessions_store`; `Change` is an update in place, `Renew` the
assignment of a new entry to the key and `PutBack` of the one a request holds. When several
requests hold equal entries that `sessions_store` has lost, whether they are one and the
same is a choice (`Twins`): the model allows both. `Payload` is what `persist_session_state` takes from memory and
document in one step; `Persist` writes it in a later one.

Abstracted: free cash, configuration ids (whether an entry has one is any choice), the
broker object (`broker` says that there is one), a stop's and a handoff's own work.

History variables: `confirmed` is the login whose client has been told, until the
session is closed; `owed` marks a start that came after it and has not been overtaken
by a stop on its process, a closing or a deletion.

| Run | Instance | Shows |
|---|---|---|
| `auth` | 2 processes, 2 requests, 2 logins; overlapping requests, or one at a time with crashes, failing broker or Mongo calls, or a deletion | `TypeOK`, `LoginKept`, `NewestLogin`, `StartServed` |

Bounds. A process that has heard of a login and one that has not, or that remembers
another, are what staleness takes; two requests are one read-then-write and what falls
between. The model and the proofs have any number. Requests are not counted: each may be followed by
any other for ever. There is no fairness: every property is about safety.

`LoginKept` and `StartServed` hold with overlapping requests, `NewestLogin` only without, see
the findings. With failing calls to Mongo nothing is claimed: `_ensure_session_doc` logs
the failure, and the client is told that it is logged in.

### Proofs (`SessionAuthProofs`)

From `SessionAuthAssumption` alone: any processes, requests, logins and irregularities.

* `TypeCorrect`: `TypeOK`. `Memory` and `Flow` relate `same` to the place of a request: two
  requests on one process which both hold the entry in the store hold the same one.
* `LoginIsKept`: `LoginKept`, also with overlapping requests and crashes. Nothing that is
  written takes a login out of the document (`IsFields`), once there is one (`Kept`).
* `NewestIsKept`: `NewestLogin`, with one request at a time. A token is never parted from its
  time (`Paired`), and what a request is about to write is no older than the login its
  client knows of (`Newest`), because it has read document and memory in one step.
* `StartIsServed`: `StartServed`. `OnItsWay` says by the place of a start what
  it has in its hand: an entry it will let pass, or a document it can be restored from.

All four follow from one invariant, `AuthInv`.

## Findings

* Two live starts on two gunicorn processes spawn two workers
  (`registry_concurrent`).
* A refused simulation stop leaves a flag that stops the next live worker
  (`stop_stale_flag`).
* A square-off that overtakes the reconciler leaves a position open and is marked
  done (`engine_flat`).
* After the loop has stopped the executor, a square-off by the monitor waits in
  `order_queue.join` for ever (`engine_hang`).

Each is worded and located in `PROJECT.json`; each run's counterexample is short.

More weaknesses are in the models without a run of their own:

* A stop on a gunicorn process whose registry still holds an entry for a worker that
  has ended deletes the keys of the worker another process has started since, reports
  success, and leaves that worker trading: `StopLeavesNone` fails on the instance of
  `registry_serial` (`lifecycle.py:563`).
* When Redis has failed and `EOD_STRICT_REDIS_META` is off, a stale pid key makes
  reconciliation end a live worker, or forget a running one (`registry.py:187`, `198`); see
  the runs of `SessionRegistry`.
* The health monitor kills a slow shutdown before the parent's patience for it ends, and the
  pyramid's handoff is lost (`lifecycle.py:68`, `constants.py:19`).
* The health monitor collects the ids of dead sessions, not their processes; a worker
  started under such an id while an earlier cleanup waits is ended with them
  (`lifecycle.py:73`).
* An accepted simulation stop may never become ready: no worker is left to complete the
  job, or `update_stop_job`, which reads and rewrites without a lock, overwrites its
  completion (`lifecycle.py:610`).
* A session that a blocked handoff has closed ("Create a new session for live trading",
  `simulation.py:107`) can be started all the same: the document keeps its tokens, and
  the next lookup makes it authenticated again (`session_service.py:59`).
* `persist_session_state` reads the document and writes it later: a login persisted in
  between is marked stopped, or loses its newer token to an older one, although it is
  to be "never downgraded" (`db.py:313`). `NewestLogin` fails with overlapping requests.

## Not modelled

* A process that could not reach Mongo when it was imported, and `trading_status`.
* The exit-request queue in Redis (its sender, `exit_symbol_for_session`, is called by
  nothing in the repository), the rate limiter, the price stream's watchdog, the
  CSV logger.
* How signals are computed (`_analyze`): arithmetic on market data.
* Strategy B's reconciler, unreachable as told above; partial fills in strategy C.
* The broker's client, the HTTP wiring, dashboard and debug routes and most of the admin
  routes: I/O and formatting.

Outside the reach of the proofs: liveness under fairness (`StopEnds`, `RetryPossible`,
`HandoffReached`, and the promises that fail, `ShutdownEnds` and `LiveKeepsTrading`).

## Sums

The engines' reservations and the pyramid's shares are sums over sets whose size is not
bounded. `SumOver` (`SetSums`) is a recursive function on the subsets of a finite set,
without an operator as parameter. `DataLemmas` proves what a sum does when an element
comes, goes or changes, for every finite set: the library gives that the strict subsets
of a finite set are well-founded, so a set for which the equation fails has a smallest
such subset, and removing one element contradicts it. The same is done with numbers for
sequences: removing the first occurrence of an element (`RemoveFirst`) takes exactly one away.

## Reading and running

`tlc -config <run>.cfg` with `MCSessionRegistry`, `MCStopSimulation`, `MCLiveEngine`,
`MCPaperEngine`, `MCCapitalPyramid` or `MCSessionAuth`; `tlapm` on `DataLemmas.tla` and on the
modules whose name ends in `Proofs` (a few minutes each, `LiveEngineProofs` about ten). In each of these the theorems come
after the definitions of the invariant and the lemmas, an action or a group of actions at
a time; reading the invariant first is the shortest way in. Operators named `X_Something`
directly above an operator `X` are mutants of it: replacing `X` makes TLC report the
property `PROJECT.json` pairs it with.
