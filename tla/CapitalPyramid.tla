--------------------------- MODULE CapitalPyramid ---------------------------
(***************************************************************************)
(* The capital pyramid at the end of a paper session: every shutdown of    *)
(* the trader reads the saved trading configuration, keeps the symbols     *)
(* whose profit passes the threshold of their rank, shares the broker's    *)
(* cash among them and saves that as the configuration of the live session *)
(* to come.  The trader loop and the monitor thread both call it; the      *)
(* monitor then publishes the handoff.                                     *)
(*                                                                         *)
(* Amounts are in paise.  A symbol's profit moves while the passes run.    *)
(***************************************************************************)
EXTENDS Integers, FiniteSets, SetSums

CONSTANTS
    Symbols,    \* every symbol of a configuration
    Active,     \* those of this session, symbol_allocations
    Position,   \* a symbol's place in configuration.symbols
    Masters,    \* the saved configurations a run may start from
    Allocation, \* the capital of an active symbol the configuration has none for
    Profits,    \* the unrealized profits a symbol may have
    Funds,      \* what the broker may answer for the free cash
    Leverages,  \* leverage multipliers
    Irregular,  \* the sets of irregularities a run may have
    MaxTicks    \* bound: changes of a profit, and exits

Kinds == {"slow",   \* the monitor does not wait for the loop
          "lost",   \* a save may take effect although its reply is lost
          "failed", \* a call to the broker or to Mongo may fail
          "publish"}\* the handoff may fail to reach Redis

Lists == {"symbols", "alphas"}
NoCap == -1
NoRank == -1
Absent == [cap |-> -2, rank |-> NoRank]
Entries == [cap : {NoCap} \cup Nat, rank : {NoRank} \cup Nat]

\* A configuration: either list may be missing, and alphas may be an array of alphas.
Configurations ==
    [array : BOOLEAN, has : SUBSET Lists, at : [Lists -> [Symbols -> Entries \cup {Absent}]]]

NoCash == -1
Threads == {"loop", "monitor"}

ASSUME PyramidAssumption ==
    /\ IsFiniteSet(Symbols) /\ Active \subseteq Symbols /\ Active # {}
    /\ Position \in [Symbols -> Nat \ {0}]
    /\ Masters \subseteq Configurations
    /\ Allocation \in Nat \ {0}    \* models.py: a capital is greater than 0
    /\ Profits \subseteq Int
    /\ Funds \subseteq Nat \cup {NoCash}
    /\ Leverages \subseteq Nat \ {0}
    /\ Irregular \subseteq SUBSET Kinds
    /\ MaxTicks \in Nat

VARIABLES
    irregular, \* the irregularities of this run
    master,    \* history: the configuration before the session ended
    config,    \* the saved configuration in Mongo
    profit,    \* unrealized profit
    exited,    \* the symbols with a document in exited_symbols
    broker,    \* the broker's answer for the free cash
    session,   \* session_free_cash
    leverage,  \* the leverage multiplier
    stopping,  \* stop_event
    applied,   \* _pyramid_applied
    handoff,   \* _pyramid_handoff_result
    cached,    \* _pyramid_handoff_result_cache
    published, \* the pyramid result in Redis
    pc,        \* where each thread's shutdown is
    work,      \* what it has read and computed
    ticks      \* changes of a profit and exits so far

market == <<profit, exited, ticks>>
money  == <<broker, session, leverage>>
results == <<applied, handoff, cached>>
vars == <<irregular, master, config, profit, exited, broker, session, leverage, stopping,
          applied, handoff, cached, published, pc, work, ticks>>

May(k) == k \in irregular
At(t, p) == pc[t] = p
Goto(t, p) == pc' = [pc EXCEPT ![t] = p]
-----------------------------------------------------------------------------
(* The configuration                                                       *)

\* _build_configuration_entry_templates: the entries of all lists, one over the other.
InList(c, l, s) == l \in c.has /\ c.at[l][s] # Absent
Listed(c, s) == \E l \in Lists : InList(c, l, s)
Template(c, s) ==
    LET a == c.at["alphas"][s]
        m == c.at["symbols"][s]
    IN CASE InList(c, "alphas", s) /\ InList(c, "symbols", s) ->
              [cap |-> IF a.cap # NoCap THEN a.cap ELSE m.cap,
               rank |-> IF a.rank # NoRank THEN a.rank ELSE m.rank]
         [] InList(c, "alphas", s) /\ ~InList(c, "symbols", s) -> a
         [] OTHER -> m

\* _build_configuration_rank_map: without a rank the place in the list counts; an array
\* of alphas is not looked at.
MappedRank(c, s) ==
    IF InList(c, "symbols", s) \/ (InList(c, "alphas", s) /\ ~c.array)
    THEN Position[s] ELSE NoRank

RankOf(c, s) ==
    IF Listed(c, s) /\ Template(c, s).rank # NoRank THEN Template(c, s).rank
    ELSE MappedRank(c, s)

\* _resolve_symbol_capital
CapitalOf(c, s) ==
    IF Listed(c, s) /\ Template(c, s).cap > 0 THEN Template(c, s).cap ELSE Allocation

\* _build_pyramid_config_entries
Evaluated(c) == {s \in Active : CapitalOf(c, s) > 0}

\* pyramid_profit_threshold_for_rank, in millionths: ranks beyond the tenth count as it.
ThresholdPct == <<576, 638, 744, 893, 893, 1190, 1374, 1374, 1374, 1374>>
Ranked(c, s) == RankOf(c, s) >= 1
Tenth(r) == IF r > 10 THEN 10 ELSE r
Threshold(c, s) == CapitalOf(c, s) * ThresholdPct[Tenth(RankOf(c, s))]

\* pyramid_multiplier_for_rank, in twentieths.
Multiplier == <<28, 26, 24, 20, 20, 15, 15, 15, 15, 15>>
MultiplierOf(c, s) == Multiplier[Tenth(RankOf(c, s))]
Weight(c, s) == CapitalOf(c, s) * MultiplierOf(c, s)

\* The symbols whose profit passes; the others are removed.
Winners(c) ==
    {s \in Evaluated(c) \ exited :
        Ranked(c, s) /\ profit[s] * 1000000 > Threshold(c, s)}

\* Mutant: the cash is divided by the capital before the static multiplier.
Share_Static(c, won, cash, s) ==
    LET total == SumOver([x \in won |-> 20 * CapitalOf(c, x)], won)
    IN (2 * cash * Weight(c, s) + total) \div (2 * total)

\* The dynamic multiplier spreads the cash over the winners, to the nearest paisa.
Share(c, won, cash, s) ==
    LET total == SumOver([x \in won |-> Weight(c, x)], won)
    IN (2 * cash * Weight(c, s) + total) \div (2 * total)

\* Mutant: only the list the session's symbols were read from is merged.
Merged_OneList(c, shares, removed) ==
    [c EXCEPT !.at = [l \in Lists |-> [s \in Symbols |->
        CASE (l = "alphas") # ("alphas" \in c.has) -> c.at[l][s]
          [] (l = "alphas") = ("alphas" \in c.has) /\ s \in removed -> Absent
          [] OTHER -> IF s \in DOMAIN shares /\ InList(c, l, s)
                      THEN [cap |-> shares[s], rank |-> RankOf(c, s)] ELSE c.at[l][s]]]]

\* Mutant: whatever is not a winner goes.
Merged_WinnersOnly(c, shares, removed) ==
    [c EXCEPT !.at = [l \in Lists |-> [s \in Symbols |->
        IF InList(c, l, s) /\ s \in DOMAIN shares
        THEN [cap |-> shares[s], rank |-> RankOf(c, s)] ELSE Absent]]]

\* _persist_pyramid_merged_updates: every list loses the removed symbols and gets the
\* winners' new entries; an array of alphas is listed but never found again.
Merged(c, shares, removed) ==
    [c EXCEPT !.at = [l \in Lists |-> [s \in Symbols |->
        IF (l = "alphas" /\ c.array) \/ ~InList(c, l, s) \/ s \notin removed \cup DOMAIN shares
        THEN c.at[l][s]
        ELSE IF s \in removed THEN Absent
             ELSE [cap |-> shares[s], rank |-> RankOf(c, s)]]]]

\* Some list can be written.
Savable(c) == "symbols" \in c.has \/ ("alphas" \in c.has /\ ~c.array)
-----------------------------------------------------------------------------
(* One pass of _apply_capital_pyramid_on_stop                              *)

NoShares == [s \in {} |-> 0]
Result(ok, shares) ==
    LET live == {s \in DOMAIN shares : shares[s] > 0}
    IN [applied |-> ok, allowed |-> ok /\ live # {}, live |-> [s \in live |-> shares[s]]]
Blocked == Result(FALSE, NoShares)
None == [applied |-> FALSE, allowed |-> FALSE, live |-> NoShares, none |-> TRUE]

NoWork == [doc |-> master, cash |-> NoCash, shares |-> NoShares, removed |-> {}]

\* A pass ends with result r.
Return(t, r) ==
    /\ handoff' = r
    /\ Goto(t, "returned")

\* Mutant: an earlier pass is not remembered.
AlreadyApplied_No == FALSE

AlreadyApplied == applied

\* What an applied pass has left for the next: a blocked result if it is not there yet.
Cached ==
    CASE handoff # None -> handoff
      [] handoff = None /\ cached # None -> cached
      [] OTHER -> Result(TRUE, NoShares)

\* A pass that finds the pyramid applied returns its result.  Otherwise the
\* configuration is fetched; none, or one without symbols, blocks.
Begin(t) ==
    /\ At(t, "shutdown")
    /\ CASE AlreadyApplied -> Return(t, Cached) /\ UNCHANGED work
         [] ~AlreadyApplied /\ (config.has = {} \/ Evaluated(config) = {}) ->
              Return(t, Blocked) /\ UNCHANGED work
         [] OTHER ->
              \/ May("failed") /\ Return(t, Blocked) /\ UNCHANGED work
              \/ /\ work' = [work EXCEPT ![t].doc = config]
                 /\ Goto(t, "cash")
                 /\ UNCHANGED handoff
    /\ UNCHANGED <<irregular, master, config, market, money, stopping, applied, cached,
                   published>>

\* Mutant: what the login left is taken unseen.
NoFunds_Never(raw) == FALSE

NoFunds(raw) == raw = NoCash

\* _get_pyramid_free_cash: the broker's answer, else what the login left, else the pass
\* is blocked.
Cash(t) ==
    /\ At(t, "cash")
    /\ \E answer \in {broker} \cup {x \in {NoCash} : May("failed")} :
       LET raw == IF answer # NoCash THEN answer ELSE session IN
       IF NoFunds(raw) THEN Return(t, Blocked) /\ UNCHANGED work
       ELSE /\ work' = [work EXCEPT ![t].cash = raw * leverage]
            /\ Goto(t, "evaluate")
            /\ UNCHANGED handoff
    /\ UNCHANGED <<irregular, master, config, market, money, stopping, applied, cached,
                   published>>

Shareable(won, cash) == won # {} /\ cash > 0

\* Mutant: the losers are removed before it is known whether there is a winner.
Evaluate_Prunes(t) ==
    /\ At(t, "evaluate")
    /\ LET c == work[t].doc
           won == Winners(c)
           cash == work[t].cash
       IN IF Shareable(won, cash)
          THEN /\ work' = [work EXCEPT ![t].removed = Evaluated(c) \ won,
                                       ![t].shares = [s \in won |-> Share(c, won, cash, s)]]
               /\ Goto(t, "save")
               /\ UNCHANGED <<handoff, config>>
          ELSE /\ config' = Merged(c, NoShares, Evaluated(c) \ won)
               /\ Return(t, Blocked)
               /\ UNCHANGED work
    /\ UNCHANGED <<irregular, master, market, money, stopping, applied, cached, published>>

\* Winners share the cash.  Without winners or cash nothing is saved: "master config
\* preserved", and the pass is blocked.
Evaluate(t) ==
    /\ At(t, "evaluate")
    /\ LET c == work[t].doc
           won == Winners(c)
           cash == work[t].cash
       IN IF Shareable(won, cash)
          THEN /\ work' = [work EXCEPT ![t].removed = Evaluated(c) \ won,
                                       ![t].shares = [s \in won |-> Share(c, won, cash, s)]]
               /\ Goto(t, "save")
               /\ UNCHANGED handoff
          ELSE Return(t, Blocked) /\ UNCHANGED work
    /\ UNCHANGED <<irregular, master, config, market, money, stopping, applied, cached,
                   published>>

\* update_one rewrites the lists as computed from what was fetched.  No list to write,
\* or no document, is a failed save; an exception blocks the handoff, whether or not
\* the update took effect.
Save(t) ==
    /\ At(t, "save")
    /\ LET updated == Merged(work[t].doc, work[t].shares, work[t].removed) IN
       \/ /\ Savable(work[t].doc)
          /\ config' = updated
          /\ Goto(t, "saved")
          /\ UNCHANGED handoff
       \/ /\ ~Savable(work[t].doc) \/ May("failed")
          /\ Return(t, Result(FALSE, work[t].shares))
          /\ UNCHANGED config
       \/ /\ Savable(work[t].doc) /\ May("lost")
          /\ config' \in {config, updated}
          /\ Return(t, Blocked)
    /\ UNCHANGED <<irregular, master, market, money, stopping, applied, cached, published,
                   work>>

\* _pyramid_applied is set.
Apply(t) ==
    /\ At(t, "saved")
    /\ applied' = TRUE
    /\ Goto(t, "apply")
    /\ UNCHANGED <<irregular, master, config, market, money, stopping, handoff, cached,
                   published, work>>

\* The result is kept and returned.
Finish(t) ==
    /\ At(t, "apply")
    /\ cached' = Result(TRUE, work[t].shares)
    /\ Return(t, cached')
    /\ UNCHANGED <<irregular, master, config, market, money, stopping, applied, published,
                   work>>
-----------------------------------------------------------------------------
(* The threads around the passes                                           *)

\* The loop sees the stop at the top of a cycle, or leaves without a shutdown when it
\* sees it in front of a candle.
LoopStop ==
    /\ stopping /\ At("loop", "running")
    /\ Goto("loop", "shutdown") \/ Goto("loop", "returned")
    /\ UNCHANGED <<irregular, master, config, market, money, stopping, results, published,
                   work>>

\* The monitor waits for the loop, for 45 s at most, and shuts down itself.
MonitorJoin ==
    /\ stopping /\ At("monitor", "running")
    /\ At("loop", "returned") \/ May("slow")
    /\ Goto("monitor", "shutdown")
    /\ UNCHANGED <<irregular, master, config, market, money, stopping, results, published,
                   work>>

\* The monitor publishes the handoff, in three attempts.
Publish ==
    /\ At("monitor", "returned")
    /\ \/ published' = handoff
       \/ May("publish") /\ UNCHANGED published
    /\ Goto("monitor", "ended")
    /\ UNCHANGED <<irregular, master, config, market, money, stopping, results, work>>

\* Ticks go on until the process ends, and an RMS exit may still come in.
Tick(s) ==
    /\ ticks < MaxTicks /\ ticks' = ticks + 1
    /\ ~At("monitor", "ended")
    /\ \/ /\ s \notin exited
          /\ \E p \in Profits \ {profit[s]} : profit' = [profit EXCEPT ![s] = p]
          /\ UNCHANGED exited
       \/ /\ s \notin exited
          /\ exited' = exited \cup {s}
          /\ profit' = [profit EXCEPT ![s] = 0]
    /\ UNCHANGED <<irregular, master, config, money, stopping, results, published, pc, work>>

Stop ==
    /\ ~stopping /\ stopping' = TRUE
    /\ UNCHANGED <<irregular, master, config, market, money, results, published, pc, work>>
-----------------------------------------------------------------------------
Init ==
    /\ irregular \in Irregular
    /\ master \in Masters /\ config = master
    /\ profit \in [Active -> Profits]
    /\ exited = {}
    /\ broker \in Funds /\ session \in Funds
    /\ leverage \in Leverages
    /\ stopping = FALSE
    /\ applied = FALSE /\ handoff = None /\ cached = None
    /\ published = None
    /\ pc = [t \in Threads |-> "running"]
    /\ work = [t \in Threads |-> NoWork]
    /\ ticks = 0

Pass(t) == Begin(t) \/ Cash(t) \/ Evaluate(t) \/ Save(t) \/ Apply(t) \/ Finish(t)

Next ==
    \/ \E t \in Threads : Pass(t)
    \/ LoopStop \/ MonitorJoin \/ Publish \/ Stop
    \/ \E s \in Active : Tick(s)

Spec == Init /\ [][Next]_vars
-----------------------------------------------------------------------------
(* Properties                                                              *)

Difference(m, n) == IF m > n THEN m - n ELSE n - m

\* The type of the state.
TypeOK ==
    /\ irregular \in Irregular
    /\ {master, config} \subseteq Configurations
    /\ profit \in [Active -> Profits \cup {0}]
    /\ exited \subseteq Active
    /\ stopping \in BOOLEAN /\ applied \in BOOLEAN
    /\ pc \in [Threads -> {"running", "shutdown", "cash", "evaluate", "save", "saved",
                           "apply", "returned", "ended"}]
    /\ \A t \in Threads :
        /\ work[t].doc \in Configurations
        /\ work[t].cash \in Nat \cup {NoCash}
        /\ work[t].removed \subseteq Active
        /\ DOMAIN work[t].shares \subseteq Active
        /\ \A s \in DOMAIN work[t].shares : work[t].shares[s] \in Nat

\* pyramid.py, "Distribute the full leveraged cash to pyramided names": what a pass is about
\* to save adds up to the leveraged cash, but for rounding, whatever list, rank or
\* fallback the numbers come from.
AllCashShared ==
    \A t \in Threads : pc[t] \in {"save", "saved", "apply"} =>
        2 * Difference(SumOver(work[t].shares, DOMAIN work[t].shares), work[t].cash)
            <= Cardinality(DOMAIN work[t].shares)

\* One pass after the other, and no reply lost.
Orderly == irregular \cap {"slow", "lost"} = {}

\* pyramid.py, "Already applied - skipping duplicate stop": both threads shut the trader
\* down, but the live session's capitals are in the proportion of the capitals and
\* multipliers the session started with, not of those an earlier pass has saved.
SharesByRank ==
    Orderly => \A s1, s2 \in DOMAIN published.live :
        2 * Difference(published.live[s1] * Weight(master, s2),
                       published.live[s2] * Weight(master, s1))
            <= Weight(master, s1) + Weight(master, s2)

\* pyramid.py, "skipping Mongo update (master config preserved)": a session that was not
\* pyramided leaves the configuration as it was, although two passes have read different
\* profits.
BlockedPreserves ==
    Orderly /\ published # None /\ ~published.applied => config = master

\* pyramid_config.py, "Active sim symbols with losses are removed", "winners get updated
\* capital/rank fields": where live trading is allowed, all the lists of the saved
\* configuration agree with the published handoff.
LiveIsSaved ==
    Orderly /\ published.allowed /\ ~master.array =>
        \A l \in Lists, s \in Active :
            InList(config, l, s) /\ config.at[l][s].cap > 0 =>
                /\ s \in DOMAIN published.live
                /\ config.at[l][s] = [cap |-> published.live[s], rank |-> RankOf(master, s)]

\* pyramid_config.py, "Symbols not in this simulation run are preserved unchanged", however
\* the passes of the two threads overlap and whatever fails.
OutsidersKept ==
    \A l \in Lists, s \in Symbols \ Active : config.at[l][s] = master.at[l][s]

\* pyramid.py, "Already applied - skipping duplicate stop": the configuration changes at
\* most once.  What one pass has saved no later pass multiplies again or prunes, also when
\* the first has failed at any point and the second has read other profits.
ChangedOnce == [][Orderly /\ config' # config => config = master]_vars
=============================================================================
