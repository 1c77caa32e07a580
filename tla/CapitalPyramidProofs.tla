------------------------ MODULE CapitalPyramidProofs ------------------------
(***************************************************************************)
(* Proofs about CapitalPyramid: what is shared adds up to the cash, what   *)
(* is published agrees with what is saved, and nobody else's entry is      *)
(* touched, for every set of symbols, every configuration, every cash and  *)
(* every course of the profits.                                            *)
(***************************************************************************)
EXTENDS CapitalPyramid, DataLemmas, TLAPS

(* The configuration                                                       *)

LEMMA EntryType ==
    ASSUME NEW c \in Configurations, NEW l \in Lists, NEW s \in Symbols, InList(c, l, s)
    PROVE  c.at[l][s] \in Entries
  BY DEF Configurations, InList

LEMMA TemplateType ==
    ASSUME NEW c \in Configurations, NEW s \in Symbols, Listed(c, s)
    PROVE  Template(c, s) \in Entries
<1> DEFINE a == c.at["alphas"][s]
           m == c.at["symbols"][s]
<1>1. CASE InList(c, "alphas", s) /\ InList(c, "symbols", s)
  <2>1. a \in Entries /\ m \in Entries
    BY <1>1, EntryType DEF Lists
  <2>2. Template(c, s) = [cap |-> IF a.cap # NoCap THEN a.cap ELSE m.cap,
                          rank |-> IF a.rank # NoRank THEN a.rank ELSE m.rank]
    BY <1>1 DEF Template
  <2> HIDE DEF a, m
  <2>3. QED
    BY <2>1, <2>2 DEF Entries
<1>2. CASE InList(c, "alphas", s) /\ ~InList(c, "symbols", s)
  <2>1. Template(c, s) = a
    BY <1>2 DEF Template
  <2>2. QED
    BY <1>2, <2>1, EntryType DEF Lists
<1>3. CASE ~InList(c, "alphas", s) /\ InList(c, "symbols", s)
  <2>1. Template(c, s) = m
    BY <1>3 DEF Template
  <2>2. QED
    BY <1>3, <2>1, EntryType DEF Lists
<1>4. QED
  BY <1>1, <1>2, <1>3 DEF Listed, Lists

LEMMA RankType ==
    ASSUME NEW c \in Configurations, NEW s \in Symbols
    PROVE  RankOf(c, s) \in {NoRank} \cup Nat
<1>1. MappedRank(c, s) \in {NoRank} \cup Nat
  BY PyramidAssumption DEF MappedRank
<1>2. QED
  BY <1>1, TemplateType DEF RankOf, Entries

LEMMA CapitalType ==
    ASSUME NEW c \in Configurations, NEW s \in Symbols
    PROVE  CapitalOf(c, s) \in Nat \ {0}
<1>1. CASE Listed(c, s) /\ Template(c, s).cap > 0
  <2>1. Template(c, s).cap \in Nat
    BY <1>1, TemplateType DEF Entries, NoCap
  <2>2. QED
    BY <1>1, <2>1 DEF CapitalOf
<1>2. CASE ~(Listed(c, s) /\ Template(c, s).cap > 0)
  BY <1>2, PyramidAssumption DEF CapitalOf
<1>3. QED
  BY <1>1, <1>2

\* Every active symbol is evaluated: none has an allocation of 0.
LEMMA AllEvaluated ==
    ASSUME NEW c \in Configurations
    PROVE  Evaluated(c) = Active
  BY CapitalType, PyramidAssumption DEF Evaluated

LEMMA WeightType ==
    ASSUME NEW c \in Configurations, NEW s \in Symbols, Ranked(c, s)
    PROVE  Weight(c, s) \in Nat \ {0}
<1>1. Tenth(RankOf(c, s)) \in 1 .. 10
  BY RankType DEF Tenth, Ranked, NoRank
<1>2. MultiplierOf(c, s) \in Nat \ {0}
  BY <1>1 DEF MultiplierOf, Multiplier
<1>3. \A x \in Nat \ {0}, y \in Nat \ {0} : x * y \in Nat \ {0}
  OBVIOUS
<1>4. QED
  BY <1>2, <1>3, CapitalType DEF Weight

\* Numbers for some of the session's symbols.
Numbers == UNION {[D -> Nat] : D \in SUBSET Active}

LEMMA NumbersOf ==
    ASSUME NEW f \in Numbers
    PROVE  /\ DOMAIN f \subseteq Active
           /\ f = [s \in DOMAIN f |-> f[s]]
           /\ \A s \in DOMAIN f : f[s] \in Nat
  BY DEF Numbers

LEMMA NumbersAre ==
    ASSUME NEW D \in SUBSET Active, NEW f \in [D -> Nat]
    PROVE  f \in Numbers
  BY DEF Numbers

LEMMA MergedType ==
    ASSUME NEW c \in Configurations, NEW shares \in Numbers, NEW removed \in SUBSET Active
    PROVE  /\ Merged(c, shares, removed) \in Configurations
           /\ Merged(c, shares, removed).has = c.has
           /\ Merged(c, shares, removed).array = c.array
           /\ \A l \in Lists, s \in Symbols :
                Merged(c, shares, removed).at[l][s] =
                    IF \/ l = "alphas" /\ c.array
                       \/ ~InList(c, l, s)
                       \/ s \notin removed \cup DOMAIN shares
                    THEN c.at[l][s]
                    ELSE IF s \in removed THEN Absent
                         ELSE [cap |-> shares[s], rank |-> RankOf(c, s)]
<1> DEFINE at == [l \in Lists |-> [s \in Symbols |->
                    IF \/ l = "alphas" /\ c.array
                       \/ ~InList(c, l, s)
                       \/ s \notin removed \cup DOMAIN shares
                    THEN c.at[l][s]
                    ELSE IF s \in removed THEN Absent
                         ELSE [cap |-> shares[s], rank |-> RankOf(c, s)]]]
<1>1. Merged(c, shares, removed) = [c EXCEPT !.at = at]
  BY DEF Merged
<1>2. \A l \in Lists, s \in Symbols : at[l][s] \in Entries \cup {Absent}
  <2> SUFFICES ASSUME NEW l \in Lists, NEW s \in Symbols
               PROVE  at[l][s] \in Entries \cup {Absent}
    OBVIOUS
  <2>1. c.at[l][s] \in Entries \cup {Absent}
    BY DEF Configurations
  <2>2. s \in DOMAIN shares =>
            [cap |-> shares[s], rank |-> RankOf(c, s)] \in Entries
    BY NumbersOf, RankType DEF Entries
  <2>3. QED
    BY <2>1, <2>2
<1>3. at \in [Lists -> [Symbols -> Entries \cup {Absent}]]
  BY <1>2
<1>4. \A l \in Lists, s \in Symbols :
        at[l][s] = IF \/ l = "alphas" /\ c.array
                      \/ ~InList(c, l, s)
                      \/ s \notin removed \cup DOMAIN shares
                   THEN c.at[l][s]
                   ELSE IF s \in removed THEN Absent
                        ELSE [cap |-> shares[s], rank |-> RankOf(c, s)]
  OBVIOUS
<1> HIDE DEF at
<1>5. [c EXCEPT !.at = at] \in Configurations
    /\ [c EXCEPT !.at = at].has = c.has
    /\ [c EXCEPT !.at = at].array = c.array
    /\ [c EXCEPT !.at = at].at = at
  BY <1>3 DEF Configurations
<1>6. QED
  BY <1>1, <1>4, <1>5
-----------------------------------------------------------------------------
(* The shares                                                              *)

Weights(c, won) == [x \in won |-> Weight(c, x)]
Total(c, won) == SumOver(Weights(c, won), won)

\* Winners of a configuration, and the cash they share.
Fair(c, won, cash) ==
    /\ won \subseteq Active /\ won # {}
    /\ \A s \in won : Ranked(c, s)
    /\ cash \in Nat

Shares(c, won, cash) == [s \in won |-> Share(c, won, cash, s)]

LEMMA WonFinite ==
    ASSUME NEW won, won \subseteq Active
    PROVE  IsFiniteSet(won)
  BY FS_Subset, PyramidAssumption

\* Each share is off from its part of the cash by half a paisa at most.
LEMMA ShareNear ==
    ASSUME NEW c \in Configurations, NEW won, NEW cash, Fair(c, won, cash), NEW s \in won
    PROVE  /\ Total(c, won) \in Nat \ {0}
           /\ Weight(c, s) \in Nat \ {0}
           /\ Share(c, won, cash, s) \in Nat
           /\ (2 * Total(c, won)) * Share(c, won, cash, s) - (2 * cash) * Weight(c, s)
                <= Total(c, won)
           /\ (2 * cash) * Weight(c, s) - (2 * Total(c, won)) * Share(c, won, cash, s)
                <= Total(c, won)
<1> DEFINE t == Total(c, won)
           w == Weight(c, s)
           a == (2 * cash) * w
           q == (a + t) \div (2 * t)
<1>1. Weights(c, won) \in [won -> Nat \ {0}]
  BY WeightType, PyramidAssumption DEF Weights, Fair
<1>2. t \in Nat \ {0}
  BY <1>1, SumPositive, WonFinite DEF Total, Fair
<1>3. w \in Nat \ {0}
  BY WeightType, PyramidAssumption DEF Fair
<1>4. Share(c, won, cash, s) = q
  BY DEF Share, Total, Weights
<1> HIDE DEF t, w
<1>5. a \in Nat
  <2>1. \A x \in Nat, y \in Nat : (2 * x) * y \in Nat
    OBVIOUS
  <2>2. QED
    BY <1>3, <2>1 DEF Fair
<1> HIDE DEF a
<1>6. q \in Nat /\ (2 * t) * q <= a + t /\ a <= (2 * t) * q + t
  BY <1>2, <1>5, Nearest
<1>7. (2 * t) * q \in Int
  BY <1>2, <1>6
<1> HIDE DEF q
<1>8. (2 * t) * q - a <= t /\ a - (2 * t) * q <= t
  BY <1>2, <1>5, <1>6, <1>7
<1>9. QED
  BY <1>2, <1>3, <1>4, <1>6, <1>8 DEF t, w, a

LEMMA Cancel ==
    ASSUME NEW t \in Nat \ {0}, NEW x \in Int, NEW y \in Int, t * x <= t * y
    PROVE  x <= y
<1>1. ASSUME x >= y + 1 PROVE FALSE
  <2>1. PICK d \in Nat : x = y + 1 + d
    <3>1. x - y - 1 \in Nat /\ x = y + 1 + (x - y - 1)
      BY <1>1
    <3>2. QED
      BY <3>1
  <2>2. t * x = t * y + t + t * d
    <3>1. t * x = t * y + t * (1 + d)
      BY <2>1, Distributes
    <3>2. t * (1 + d) = t * 1 + t * d
      BY Distributes
    <3>3. t * y \in Int /\ t * d \in Int
      OBVIOUS
    <3>4. QED
      BY <3>1, <3>2, <3>3
  <2>3. t * d >= 0
    OBVIOUS
  <2>4. t * y \in Int /\ t * d \in Int
    OBVIOUS
  <2>5. QED
    BY <2>2, <2>3, <2>4
<1>2. QED
  BY <1>1

\* The shares add up to the cash, but for half a paisa each.
LEMMA SharesAddUp ==
    ASSUME NEW c \in Configurations, NEW won, NEW cash, Fair(c, won, cash)
    PROVE  2 * Difference(SumOver(Shares(c, won, cash), won), cash) <= Cardinality(won)
<1> DEFINE t == Total(c, won)
           f == Shares(c, won, cash)
           h == Weights(c, won)
           n == Cardinality(won)
           sum == SumOver(f, won)
<1>1. t \in Nat \ {0}
  BY ShareNear DEF Fair
<1>2. \A s \in won : /\ f[s] \in Int /\ h[s] \in Int
                     /\ (2 * t) * f[s] - (2 * cash) * h[s] <= t
                     /\ (2 * cash) * h[s] - (2 * t) * f[s] <= t
  BY ShareNear DEF Shares, Weights
<1>3. IsFiniteSet(won) /\ n \in Nat
  BY WonFinite, FS_CardinalityType DEF Fair
<1>4. cash \in Nat
  BY DEF Fair
<1> HIDE DEF f, h
<1>5. /\ sum \in Int
      /\ (2 * t) * sum - (2 * cash) * SumOver(h, won) <= t * n
      /\ (2 * cash) * SumOver(h, won) - (2 * t) * sum <= t * n
  <2>1. 2 * t \in Int /\ 2 * cash \in Int /\ t \in Int
    BY <1>1, <1>4
  <2> DEFINE m == 2 * t
             k == 2 * cash
  <2> HIDE DEF t, m, k, n
  <2>2. m \in Int /\ k \in Int /\ t \in Int
    BY <2>1 DEF m, k
  <2>3. \A s \in won : /\ f[s] \in Int /\ h[s] \in Int
                       /\ m * f[s] - k * h[s] <= t
                       /\ k * h[s] - m * f[s] <= t
    BY <1>2 DEF m, k
  <2>4. /\ SumOver(f, won) \in Int
        /\ m * SumOver(f, won) - k * SumOver(h, won) <= t * Cardinality(won)
        /\ k * SumOver(h, won) - m * SumOver(f, won) <= t * Cardinality(won)
    BY <1>3, <2>2, <2>3, SumsClose
  <2>5. QED
    BY <2>4 DEF m, k, n
<1>6. SumOver(h, won) = t
  BY DEF Total, h
<1> HIDE DEF t, sum, n
<1>7. (2 * t) * sum - (2 * cash) * t <= t * n /\ (2 * cash) * t - (2 * t) * sum <= t * n
  BY <1>5, <1>6
<1>8. /\ (2 * t) * sum - (2 * cash) * t = t * (2 * sum - 2 * cash)
      /\ (2 * cash) * t - (2 * t) * sum = t * (2 * cash - 2 * sum)
  <2>1. \A x \in Int, y \in Int, z \in Int :
            /\ (2 * x) * y - (2 * z) * x = x * (2 * y - 2 * z)
            /\ (2 * z) * x - (2 * x) * y = x * (2 * z - 2 * y)
    OBVIOUS
  <2>2. QED
    BY <1>1, <1>4, <1>5, <2>1
<1>9. t * (2 * sum - 2 * cash) <= t * n /\ t * (2 * cash - 2 * sum) <= t * n
  BY <1>7, <1>8
<1>10. 2 * sum - 2 * cash <= n /\ 2 * cash - 2 * sum <= n
  BY <1>1, <1>3, <1>4, <1>5, <1>9, Cancel
<1>11. 2 * Difference(sum, cash) <= n
  BY <1>3, <1>4, <1>5, <1>10 DEF Difference
<1>12. QED
  BY <1>11 DEF sum, n, f

LEMMA Grows ==
    ASSUME NEW x \in Int, NEW y \in Int, NEW w \in Nat, x <= y
    PROVE  x * w <= y * w
<1>1. y - x \in Nat
  OBVIOUS
<1>2. (y - x) * w \in Nat
  <2>1. \A u \in Nat, v \in Nat : u * v \in Nat
    OBVIOUS
  <2>2. QED
    BY <1>1, <2>1
<1>3. (y - x) * w = y * w - x * w
  OBVIOUS
<1>4. x * w \in Int /\ y * w \in Int
  OBVIOUS
<1>5. QED
  BY <1>2, <1>3, <1>4

\* The shares are in the proportion of the weights, but for the rounding.
LEMMA SharesProportional ==
    ASSUME NEW c \in Configurations, NEW won, NEW cash, Fair(c, won, cash),
           NEW s1 \in won, NEW s2 \in won
    PROVE  2 * Difference(Share(c, won, cash, s1) * Weight(c, s2),
                          Share(c, won, cash, s2) * Weight(c, s1))
             <= Weight(c, s1) + Weight(c, s2)
<1> DEFINE t == Total(c, won)
           q1 == Share(c, won, cash, s1)
           q2 == Share(c, won, cash, s2)
           w1 == Weight(c, s1)
           w2 == Weight(c, s2)
           d1 == (2 * t) * q1 - (2 * cash) * w1
           d2 == (2 * t) * q2 - (2 * cash) * w2
           x == q1 * w2
           y == q2 * w1
<1>1. /\ t \in Nat \ {0} /\ w1 \in Nat /\ w2 \in Nat /\ q1 \in Nat /\ q2 \in Nat
      /\ cash \in Nat
  BY ShareNear DEF Fair
<1>2. /\ (2 * t) * q1 - (2 * cash) * w1 <= t /\ (2 * cash) * w1 - (2 * t) * q1 <= t
      /\ (2 * t) * q2 - (2 * cash) * w2 <= t /\ (2 * cash) * w2 - (2 * t) * q2 <= t
  BY ShareNear
<1> HIDE DEF t, q1, q2, w1, w2
<1>3. /\ (2 * t) * q1 \in Int /\ (2 * cash) * w1 \in Int
      /\ (2 * t) * q2 \in Int /\ (2 * cash) * w2 \in Int
  BY <1>1
<1>4. /\ d1 \in Int /\ d2 \in Int
      /\ d1 <= t /\ -d1 <= t /\ d2 <= t /\ -d2 <= t
  BY <1>1, <1>2, <1>3
<1>5. x \in Int /\ y \in Int
  BY <1>1
<1>6. /\ t * (2 * x - 2 * y) = d1 * w2 + (-d2) * w1
      /\ t * (2 * y - 2 * x) = (-d1) * w2 + d2 * w1
  <2>1. \A T \in Int, C \in Int, A1 \in Int, A2 \in Int, B1 \in Int, B2 \in Int :
          /\ T * (2 * (A1 * B2) - 2 * (A2 * B1)) =
               ((2 * T) * A1 - (2 * C) * B1) * B2 + (-((2 * T) * A2 - (2 * C) * B2)) * B1
          /\ T * (2 * (A2 * B1) - 2 * (A1 * B2)) =
               (-((2 * T) * A1 - (2 * C) * B1)) * B2 + ((2 * T) * A2 - (2 * C) * B2) * B1
    OBVIOUS
  <2>2. QED
    BY <1>1, <2>1
<1> HIDE DEF d1, d2, x, y
<1>7. /\ d1 * w2 <= t * w2 /\ (-d1) * w2 <= t * w2
      /\ d2 * w1 <= t * w1 /\ (-d2) * w1 <= t * w1
  <2>1. t \in Int /\ -d1 \in Int /\ -d2 \in Int
    BY <1>1, <1>4
  <2>2. QED
    BY <1>1, <1>4, <2>1, Grows
<1>8. t * (w1 + w2) = t * w1 + t * w2
  BY <1>1, Distributes
<1>9. /\ d1 * w2 \in Int /\ (-d1) * w2 \in Int /\ d2 * w1 \in Int /\ (-d2) * w1 \in Int
      /\ t * w1 \in Int /\ t * w2 \in Int
  BY <1>1, <1>4
<1>10. t * (2 * x - 2 * y) <= t * (w1 + w2) /\ t * (2 * y - 2 * x) <= t * (w1 + w2)
  BY <1>6, <1>7, <1>8, <1>9
<1>11. 2 * x - 2 * y <= w1 + w2 /\ 2 * y - 2 * x <= w1 + w2
  BY <1>1, <1>5, <1>10, Cancel
<1>12. 2 * Difference(x, y) <= w1 + w2
  BY <1>1, <1>5, <1>11 DEF Difference
<1>13. QED
  BY <1>12 DEF x, y, w1, w2, q1, q2
-----------------------------------------------------------------------------
(* The inductive invariant                                                 *)

PlacesOf == {"running", "shutdown", "cash", "evaluate", "save", "saved", "apply",
             "returned", "ended"}
Works == [doc : Configurations, cash : Nat \cup {NoCash}, shares : Numbers,
          removed : SUBSET Active]

Types ==
    /\ irregular \in Irregular
    /\ master \in Configurations /\ config \in Configurations
    /\ profit \in [Active -> Profits \cup {0}]
    /\ exited \subseteq Active
    /\ broker \in Funds /\ session \in Funds /\ leverage \in Leverages
    /\ stopping \in BOOLEAN
    /\ applied \in BOOLEAN
    /\ pc \in [Threads -> PlacesOf]
    /\ work \in [Threads -> Works]

\* Whatever has been read or written, only the session's own symbols differ.
Same(c) == \A l \in Lists, s \in Symbols \ Active : c.at[l][s] = master.at[l][s]
Kept == Same(config) /\ \A t \in Threads : Same(work[t].doc)

\* What a thread has computed is a fair share of the cash it has read.
Computed(t) ==
    LET won == DOMAIN work[t].shares IN
    /\ Fair(work[t].doc, won, work[t].cash)
    /\ work[t].shares = Shares(work[t].doc, won, work[t].cash)
    /\ work[t].removed = Active \ won
Ready == \A t \in Threads : pc[t] \in {"save", "saved", "apply"} => Computed(t)

Passing == {"cash", "evaluate", "save", "saved", "apply"}
Over == {"returned", "ended"}
ByMaster(t) == work[t].doc = master /\ Computed(t)
Outcome(t) == Merged(master, work[t].shares, work[t].removed)

\* The monitor begins when the loop has returned.
InTurn == pc["monitor"] # "running" => pc["loop"] = "returned"

\* No pass has been handed over as applied.
NoneApplied ==
    \/ handoff \in {None, Blocked}
    \/ \E t \in Threads : /\ pc[t] \in Over /\ ByMaster(t)
                          /\ handoff = Result(FALSE, work[t].shares)

\* Nothing is saved yet.
Untouched ==
    /\ ~applied /\ config = master
    /\ \A t \in Threads : pc[t] \notin {"saved", "apply"}
    /\ NoneApplied

\* A thread has saved its outcome and not yet returned.
Saving ==
    \E t \in Threads :
        /\ ByMaster(t) /\ config = Outcome(t)
        /\ \/ pc[t] = "saved" /\ ~applied
           \/ pc[t] = "apply" /\ applied

\* A thread has saved its outcome and handed it over.
Done ==
    /\ applied
    /\ \A t \in Threads : pc[t] \notin Passing
    /\ \E t \in Threads : /\ pc[t] \in Over /\ ByMaster(t)
                          /\ config = Outcome(t)
                          /\ handoff = Result(TRUE, work[t].shares)

Turns ==
    /\ InTurn
    /\ \A t \in Threads : pc[t] \in Passing => work[t].doc = master
    /\ Untouched \/ Saving \/ Done
    /\ published = None \/ (pc["monitor"] = "ended" /\ published = handoff)

Serial == Orderly => Turns

PyramidInv == Types /\ Kept /\ Ready /\ Serial
-----------------------------------------------------------------------------
(* Types                                                                   *)

LEMMA NoSharesType == NoShares \in Numbers /\ DOMAIN NoShares = {}
<1>1. NoShares \in [{} -> Nat] /\ DOMAIN NoShares = {}
  BY DEF NoShares
<1>2. QED
  BY <1>1, NumbersAre

LEMMA SharesType ==
    ASSUME NEW c \in Configurations, NEW won, NEW cash, Fair(c, won, cash)
    PROVE  /\ Shares(c, won, cash) \in Numbers
           /\ DOMAIN Shares(c, won, cash) = won
<1>1. Shares(c, won, cash) \in [won -> Nat] /\ DOMAIN Shares(c, won, cash) = won
  BY ShareNear DEF Shares
<1>2. QED
  BY <1>1, NumbersAre DEF Fair

\* What the threads' places may be after a step.
LEMMA Went ==
    ASSUME pc \in [Threads -> PlacesOf], NEW t \in Threads, NEW p \in PlacesOf, Goto(t, p)
    PROVE  /\ pc' \in [Threads -> PlacesOf]
           /\ pc'[t] = p
           /\ \A u \in Threads : u # t => pc'[u] = pc[u]
  BY DEF Goto

LEMMA TypesInit ==
    ASSUME Init
    PROVE  Types
<1>1. master \in Configurations /\ config \in Configurations
  BY PyramidAssumption DEF Init
<1>2. NoWork \in Works
  <2>1. {} \in SUBSET Active /\ NoCash \in Nat \cup {NoCash}
    OBVIOUS
  <2>2. QED
    BY <1>1, <2>1, NoSharesType DEF NoWork, Works
<1>3. profit \in [Active -> Profits \cup {0}]
  BY DEF Init
<1>4. pc \in [Threads -> PlacesOf]
  BY DEF Init, PlacesOf
<1>5. work \in [Threads -> Works]
  BY <1>2 DEF Init
<1>6. QED
  BY <1>1, <1>3, <1>4, <1>5 DEF Init, Types

LEMMA BeginTypes ==
    ASSUME Types, NEW t \in Threads, Begin(t)
    PROVE  Types'
<1>1. /\ pc' \in [Threads -> PlacesOf]
      /\ work' \in [Threads -> Works]
  <2>1. CASE Goto(t, "returned") /\ UNCHANGED work
    BY <2>1, Went DEF Types, PlacesOf
  <2>2. CASE work' = [work EXCEPT ![t].doc = config] /\ Goto(t, "cash")
    <3>1. [work[t] EXCEPT !.doc = config] \in Works
      BY DEF Types, Works
    <3>2. work' = [work EXCEPT ![t] = [work[t] EXCEPT !.doc = config]]
      BY <2>2 DEF Types
    <3>3. work' \in [Threads -> Works]
      BY <3>1, <3>2 DEF Types
    <3>4. QED
      BY <2>2, <3>3, Went DEF Types, PlacesOf
  <2>3. QED
    BY <2>1, <2>2 DEF Begin, Return
<1>2. UNCHANGED <<irregular, master, config, market, money, stopping, applied>>
  BY DEF Begin
<1>3. QED
  BY <1>1, <1>2 DEF Types, market, money

LEMMA CashTypes ==
    ASSUME Types, NEW t \in Threads, Cash(t)
    PROVE  Types'
<1>1. /\ pc' \in [Threads -> PlacesOf]
      /\ work' \in [Threads -> Works]
  <2>1. CASE Goto(t, "returned") /\ UNCHANGED work
    BY <2>1, Went DEF Types, PlacesOf
  <2>2. ASSUME NEW raw \in Funds, raw # NoCash,
               work' = [work EXCEPT ![t].cash = raw * leverage], Goto(t, "evaluate")
        PROVE  work' \in [Threads -> Works] /\ pc' \in [Threads -> PlacesOf]
    <3>1. raw * leverage \in Nat
      <4>1. raw \in Nat /\ leverage \in Nat
        BY <2>2, PyramidAssumption DEF Types
      <4>2. QED
        BY <4>1
    <3>2. [work[t] EXCEPT !.cash = raw * leverage] \in Works
      BY <3>1 DEF Types, Works
    <3>3. work' = [work EXCEPT ![t] = [work[t] EXCEPT !.cash = raw * leverage]]
      BY <2>2 DEF Types
    <3>4. work' \in [Threads -> Works]
      BY <3>2, <3>3 DEF Types
    <3>5. QED
      BY <2>2, <3>4, Went DEF Types, PlacesOf
  <2>3. PICK answer \in {broker} \cup {x \in {NoCash} : May("failed")} :
            LET raw == IF answer # NoCash THEN answer ELSE session IN
            IF NoFunds(raw) THEN Return(t, Blocked) /\ UNCHANGED work
            ELSE /\ work' = [work EXCEPT ![t].cash = raw * leverage]
                 /\ Goto(t, "evaluate")
                 /\ UNCHANGED handoff
    BY DEF Cash
  <2> DEFINE raw == IF answer # NoCash THEN answer ELSE session
  <2>4. raw \in Funds
    BY DEF Types
  <2>5. \/ Goto(t, "returned") /\ UNCHANGED work
        \/ raw # NoCash /\ work' = [work EXCEPT ![t].cash = raw * leverage] /\ Goto(t, "evaluate")
    BY <2>3 DEF NoFunds, Return
  <2> HIDE DEF raw
  <2>6. QED
    BY <2>1, <2>2, <2>4, <2>5
<1>2. UNCHANGED <<irregular, master, config, market, money, stopping, applied>>
  BY DEF Cash
<1>3. QED
  BY <1>1, <1>2 DEF Types, market, money

LEMMA WinnersFair ==
    ASSUME NEW c \in Configurations, NEW cash \in Nat \cup {NoCash},
           Shareable(Winners(c), cash)
    PROVE  Fair(c, Winners(c), cash)
  BY AllEvaluated DEF Fair, Shareable, Winners, NoCash

\* What the evaluation of a pass leaves.
LEMMA EvaluateStep ==
    ASSUME Types, NEW t \in Threads, Evaluate(t)
    PROVE  /\ UNCHANGED <<irregular, master, config, applied, published>>
           /\ \A u \in Threads : u # t => work'[u] = work[u]
           /\ work' \in [Threads -> Works]
           /\ work'[t].doc = work[t].doc
           /\ \/ Goto(t, "returned") /\ handoff' = Blocked /\ UNCHANGED work
              \/ /\ Goto(t, "save") /\ UNCHANGED handoff
                 /\ Fair(work[t].doc, DOMAIN work'[t].shares, work[t].cash)
                 /\ work'[t].cash = work[t].cash
                 /\ work'[t].shares = Shares(work[t].doc, DOMAIN work'[t].shares, work[t].cash)
                 /\ work'[t].removed = Active \ DOMAIN work'[t].shares
<1> DEFINE c == work[t].doc
           won == Winners(c)
           cash == work[t].cash
<1>1. UNCHANGED <<irregular, master, config, applied, published>>
  BY DEF Evaluate
<1>2. c \in Configurations /\ cash \in Nat \cup {NoCash} /\ work[t] \in Works
  BY DEF Types, Works
<1>3. CASE Shareable(won, cash)
  <2>1. Fair(c, won, cash)
    BY <1>2, <1>3, WinnersFair
  <2> DEFINE f == Shares(c, won, cash)
             rest == Active \ won
             w == [work[t] EXCEPT !.removed = rest, !.shares = f]
  <2>2. work' = [work EXCEPT ![t].removed = Evaluated(c) \ won,
                             ![t].shares = [s \in won |-> Share(c, won, cash, s)]]
        /\ Goto(t, "save") /\ UNCHANGED handoff
    BY <1>3 DEF Evaluate
  <2>3. work' = [work EXCEPT ![t].removed = rest, ![t].shares = f]
    BY <1>2, <2>2, AllEvaluated DEF Shares
  <2>4. f \in Numbers /\ DOMAIN f = won
    BY <1>2, <2>1, SharesType
  <2>5. rest \in SUBSET Active
    OBVIOUS
  <2> HIDE DEF f, rest, won
  <2>6. work' = [work EXCEPT ![t] = w]
    BY <2>3 DEF Types
  <2>7. /\ w \in Works /\ w.shares = f /\ w.removed = rest /\ w.doc = c /\ w.cash = cash
    BY <1>2, <2>4, <2>5 DEF Works
  <2> HIDE DEF w
  <2>8. work'[t] = w /\ work' \in [Threads -> Works]
        /\ \A u \in Threads : u # t => work'[u] = work[u]
    BY <2>6, <2>7 DEF Types
  <2>9. QED
    BY <1>1, <2>1, <2>2, <2>4, <2>7, <2>8 DEF f, rest
<1>4. CASE ~Shareable(won, cash)
  <2>1. Goto(t, "returned") /\ handoff' = Blocked /\ UNCHANGED work
    BY <1>4 DEF Evaluate, Return
  <2>2. QED
    BY <1>1, <2>1 DEF Types
<1>5. QED
  BY <1>3, <1>4

LEMMA EvaluateTypes ==
    ASSUME Types, NEW t \in Threads, Evaluate(t)
    PROVE  Types'
<1>1. work' \in [Threads -> Works]
  BY EvaluateStep
<1>2. pc' \in [Threads -> PlacesOf]
  BY EvaluateStep, Went DEF Types, PlacesOf
<1>3. UNCHANGED <<irregular, master, config, market, money, stopping, applied>>
  BY DEF Evaluate
<1>4. QED
  BY <1>1, <1>2, <1>3 DEF Types, market, money

LEMMA SaveTypes ==
    ASSUME Types, NEW t \in Threads, Save(t)
    PROVE  Types'
<1>1. Merged(work[t].doc, work[t].shares, work[t].removed) \in Configurations
  BY MergedType DEF Types, Works
<1>2. config' \in Configurations
  BY <1>1 DEF Save, Types
<1>3. pc' \in [Threads -> PlacesOf]
  BY Went DEF Save, Return, Types, PlacesOf
<1>4. UNCHANGED <<irregular, master, market, money, stopping, applied, work>>
  BY DEF Save
<1>5. QED
  BY <1>2, <1>3, <1>4 DEF Types, market, money

LEMMA RestTypes ==
    ASSUME Types, NEW t \in Threads,
           Apply(t) \/ Finish(t) \/ LoopStop \/ MonitorJoin \/ Publish \/ Stop
    PROVE  Types'
<1>1. "loop" \in Threads /\ "monitor" \in Threads
  BY DEF Threads
<1>2. CASE Apply(t)
  BY <1>2, Went DEF Apply, Types, PlacesOf, market, money
<1>3. CASE Finish(t)
  BY <1>3, Went DEF Finish, Return, Types, PlacesOf, market, money
<1>4. CASE LoopStop
  BY <1>1, <1>4, Went DEF LoopStop, Types, PlacesOf, market, money, results
<1>5. CASE MonitorJoin
  BY <1>1, <1>5, Went DEF MonitorJoin, Types, PlacesOf, market, money, results
<1>6. CASE Publish
  BY <1>1, <1>6, Went DEF Publish, Types, PlacesOf, market, money, results
<1>7. CASE Stop
  BY <1>7 DEF Stop, Types, market, money, results
<1>8. QED
  BY <1>2, <1>3, <1>4, <1>5, <1>6, <1>7

LEMMA TickTypes ==
    ASSUME Types, NEW s \in Active, Tick(s)
    PROVE  Types'
<1>1. profit' \in [Active -> Profits \cup {0}] /\ exited' \subseteq Active
  BY DEF Tick, Types
<1>2. UNCHANGED <<irregular, master, config, money, stopping, results, pc, work>>
  BY DEF Tick
<1>3. QED
  BY <1>1, <1>2 DEF Types, money, results

LEMMA TypesStep ==
    ASSUME Types, [Next]_vars
    PROVE  Types'
<1>1. CASE UNCHANGED vars
  BY <1>1 DEF vars, Types
<1>2. ASSUME NEW t \in Threads, Pass(t) PROVE Types'
  BY <1>2, BeginTypes, CashTypes, EvaluateTypes, SaveTypes, RestTypes DEF Pass
<1>3. CASE LoopStop \/ MonitorJoin \/ Publish \/ Stop
  BY <1>3, RestTypes DEF Threads
<1>4. ASSUME NEW s \in Active, Tick(s) PROVE Types'
  BY <1>4, TickTypes
<1>5. QED
  BY <1>1, <1>2, <1>3, <1>4 DEF Next

LEMMA TypesCorrect ==
    Spec => []Types
<1>1. Init => Types
  BY TypesInit
<1>2. Types /\ [Next]_vars => Types'
  BY TypesStep
<1>3. QED
  BY <1>1, <1>2, PTL DEF Spec

\* The values the code's fields may have: configurations stay lists of entries with a
\* capital and a rank, and shares are amounts of the session's own symbols.
THEOREM TypeCorrect ==
    Spec => []TypeOK
<1>1. Types => TypeOK
  <2> SUFFICES ASSUME Types PROVE TypeOK
    OBVIOUS
  <2>1. \A t \in Threads :
            /\ work[t].doc \in Configurations
            /\ work[t].cash \in Nat \cup {NoCash}
            /\ work[t].removed \subseteq Active
            /\ DOMAIN work[t].shares \subseteq Active
            /\ \A s \in DOMAIN work[t].shares : work[t].shares[s] \in Nat
    BY NumbersOf DEF Types, Works
  <2>2. /\ irregular \in Irregular
        /\ {master, config} \subseteq Configurations
        /\ profit \in [Active -> Profits \cup {0}]
        /\ exited \subseteq Active
        /\ stopping \in BOOLEAN /\ applied \in BOOLEAN
        /\ pc \in [Threads -> {"running", "shutdown", "cash", "evaluate", "save", "saved",
                               "apply", "returned", "ended"}]
    BY DEF Types, PlacesOf
  <2>3. QED
    BY <2>1, <2>2 DEF TypeOK
<1>2. QED
  BY <1>1, TypesCorrect, PTL
-----------------------------------------------------------------------------
(* The others' entries                                                     *)

LEMMA KeptStep ==
    ASSUME Types, Kept, [Next]_vars
    PROVE  Kept'
<1>1. CASE UNCHANGED vars
  BY <1>1 DEF vars, Kept, Same
<1>2. ASSUME NEW t \in Threads, Begin(t) PROVE Kept'
  <2>1. UNCHANGED <<master, config>>
    BY <1>2 DEF Begin
  <2>2. \A u \in Threads : work'[u].doc \in {work[u].doc, config}
    BY <1>2 DEF Begin, Types, Works
  <2>3. QED
    BY <2>1, <2>2 DEF Kept, Same
<1>3. ASSUME NEW t \in Threads, Cash(t) PROVE Kept'
  <2>1. UNCHANGED <<master, config>>
    BY <1>3 DEF Cash
  <2>2. \A u \in Threads : work'[u].doc = work[u].doc
    BY <1>3 DEF Cash, Types, Works
  <2>3. QED
    BY <2>1, <2>2 DEF Kept, Same
<1>4. ASSUME NEW t \in Threads, Evaluate(t) PROVE Kept'
  <2>1. UNCHANGED <<master, config>> /\ \A u \in Threads : work'[u].doc = work[u].doc
    BY <1>4, EvaluateStep
  <2>2. QED
    BY <2>1 DEF Kept, Same
<1>5. ASSUME NEW t \in Threads, Save(t) PROVE Kept'
  <2> DEFINE updated == Merged(work[t].doc, work[t].shares, work[t].removed)
  <2>1. UNCHANGED <<master, work>> /\ config' \in {config, updated}
    BY <1>5 DEF Save
  <2>2. /\ work[t].doc \in Configurations /\ work[t].shares \in Numbers
        /\ work[t].removed \in SUBSET Active
    BY DEF Types, Works
  <2>3. \A l \in Lists, s \in Symbols \ Active : updated.at[l][s] = work[t].doc.at[l][s]
    <3>1. ASSUME NEW l \in Lists, NEW s \in Symbols \ Active
          PROVE  updated.at[l][s] = work[t].doc.at[l][s]
      <4>1. s \notin work[t].removed \cup DOMAIN work[t].shares
        BY <2>2, NumbersOf
      <4> DEFINE c == work[t].doc
                 f == work[t].shares
                 r == work[t].removed
      <4> HIDE DEF c, f, r
      <4>2. c \in Configurations /\ f \in Numbers /\ r \in SUBSET Active
        BY <2>2 DEF c, f, r
      <4>3. Merged(c, f, r).at[l][s] =
                IF \/ l = "alphas" /\ c.array
                   \/ ~InList(c, l, s)
                   \/ s \notin r \cup DOMAIN f
                THEN c.at[l][s]
                ELSE IF s \in r THEN Absent
                     ELSE [cap |-> f[s], rank |-> RankOf(c, s)]
        BY <4>2, MergedType
      <4>4. s \notin r \cup DOMAIN f
        BY <4>1 DEF f, r
      <4>5. QED
        BY <4>3, <4>4 DEF c, f, r
    <3>2. QED
      BY <3>1
  <2> HIDE DEF updated
  <2>4. Same(updated)
    BY <2>3 DEF Kept, Same
  <2>5. QED
    BY <2>1, <2>4 DEF Kept, Same
<1>6. ASSUME NEW t \in Threads,
             Apply(t) \/ Finish(t) \/ LoopStop \/ MonitorJoin \/ Publish \/ Stop
      PROVE  Kept'
  <2>1. UNCHANGED <<master, config, work>>
    BY <1>6 DEF Apply, Finish, LoopStop, MonitorJoin, Publish, Stop
  <2>2. QED
    BY <2>1 DEF Kept, Same
<1>7. ASSUME NEW s \in Active, Tick(s) PROVE Kept'
  BY <1>7 DEF Tick, Kept, Same
<1>8. "loop" \in Threads
  BY DEF Threads
<1>9. QED
  BY <1>1, <1>2, <1>3, <1>4, <1>5, <1>6, <1>7, <1>8 DEF Next, Pass

\* However the passes overlap, and whatever is lost or fails, the entries of symbols that
\* were not in the session stay as they were in every list of the saved configuration.
THEOREM OthersAreKept ==
    Spec => []OutsidersKept
<1>1. Init => Kept
  BY DEF Init, Kept, Same, NoWork
<1>2. Types /\ Kept /\ [Next]_vars => Kept'
  BY KeptStep
<1>3. Kept => OutsidersKept
  BY DEF Kept, Same, OutsidersKept
<1>4. QED
  BY <1>1, <1>2, <1>3, TypesCorrect, PTL DEF Spec
-----------------------------------------------------------------------------
(* The cash                                                                *)

LEMMA ReadyStep ==
    ASSUME Types, Ready, [Next]_vars
    PROVE  Ready'
<1> DEFINE Held(u) == /\ work'[u] = work[u]
                      /\ pc'[u] \in {"save", "saved", "apply"} =>
                             pc[u] \in {"save", "saved", "apply"}
<1>1. ASSUME NEW u \in Threads, Held(u), pc'[u] \in {"save", "saved", "apply"}
      PROVE  Computed(u)'
  BY <1>1 DEF Ready, Computed
<1>2. CASE UNCHANGED vars
  BY <1>1, <1>2 DEF vars, Ready
<1>3. ASSUME NEW t \in Threads, Begin(t) \/ Cash(t) PROVE Ready'
  <2>1. pc'[t] \notin {"save", "saved", "apply"}
    BY <1>3 DEF Begin, Cash, Return, Goto, Types
  <2>2. \A u \in Threads : u # t => work'[u] = work[u] /\ pc'[u] = pc[u]
    BY <1>3 DEF Begin, Cash, Return, Goto, Types
  <2>3. QED
    BY <1>1, <2>1, <2>2 DEF Ready
<1>4. ASSUME NEW t \in Threads, Evaluate(t) PROVE Ready'
  <2>1. pc'[t] # "returned" => Computed(t)'
    <3>1. pc'[t] # "returned" => ~Goto(t, "returned")
      BY DEF Goto, Types
    <3>2. QED
      BY <1>4, <3>1, EvaluateStep DEF Computed
  <2>2. \A u \in Threads : u # t => work'[u] = work[u] /\ pc'[u] = pc[u]
    BY <1>4, EvaluateStep DEF Goto, Types
  <2>3. QED
    BY <1>1, <2>1, <2>2 DEF Ready
<1>5. ASSUME NEW t \in Threads, Save(t) \/ Apply(t) \/ Finish(t) PROVE Ready'
  <2>1. UNCHANGED work /\ \A u \in Threads : u # t => pc'[u] = pc[u]
    BY <1>5 DEF Save, Apply, Finish, Return, Goto, Types
  <2>2. pc[t] \in {"save", "saved", "apply"}
    BY <1>5 DEF Save, Apply, Finish, At
  <2>3. QED
    BY <1>1, <2>1, <2>2 DEF Ready
<1>6. CASE LoopStop \/ MonitorJoin \/ Publish
  <2>1. UNCHANGED work /\ \A u \in Threads : pc'[u] \in {pc[u], "shutdown", "returned", "ended"}
    BY <1>6 DEF LoopStop, MonitorJoin, Publish, Goto, Types, Threads
  <2>2. QED
    BY <1>1, <2>1 DEF Ready
<1>7. ASSUME NEW s \in Active, Tick(s) \/ Stop PROVE Ready'
  BY <1>1, <1>7 DEF Tick, Stop, Ready
<1>8. QED
  BY <1>2, <1>3, <1>4, <1>5, <1>6, <1>7, PyramidAssumption DEF Next, Pass

\* What is about to be saved adds up to the leveraged cash but for half a paisa a symbol:
\* the shares of a pass are those of one configuration, whichever the pass has read.
THEOREM CashIsShared ==
    Spec => []AllCashShared
<1>1. Init => Ready
  BY DEF Init, Ready
<1>2. Types /\ Ready /\ [Next]_vars => Ready'
  BY ReadyStep
<1>3. Types /\ Ready => AllCashShared
  <2> SUFFICES ASSUME Types, Ready, NEW t \in Threads, pc[t] \in {"save", "saved", "apply"}
               PROVE  2 * Difference(SumOver(work[t].shares, DOMAIN work[t].shares),
                                     work[t].cash)
                          <= Cardinality(DOMAIN work[t].shares)
    BY DEF AllCashShared
  <2>1. Computed(t) /\ work[t].doc \in Configurations
    BY DEF Ready, Types, Works
  <2>2. QED
    BY <2>1, SharesAddUp DEF Computed
<1>4. QED
  BY <1>1, <1>2, <1>3, TypesCorrect, PTL DEF Spec
-----------------------------------------------------------------------------
(* One pass after the other                                                *)

LEMMA ResultIs ==
    ASSUME NEW b \in BOOLEAN, NEW f
    PROVE  /\ Result(b, f) # None
           /\ Result(b, f).applied = b
           /\ Result(b, f).allowed => b
           /\ Result(b, f).live = [s \in {x \in DOMAIN f : f[x] > 0} |-> f[s]]
<1> DEFINE live == [s \in {x \in DOMAIN f : f[x] > 0} |-> f[s]]
           can == b /\ {x \in DOMAIN f : f[x] > 0} # {}
<1>1. Result(b, f) = [applied |-> b, allowed |-> can, live |-> live]
  BY DEF Result
<1> HIDE DEF live
<1>2. can => b
  OBVIOUS
<1>3. can \in BOOLEAN
  OBVIOUS
<1> HIDE DEF can
<1>4. "none" \notin DOMAIN Result(b, f) /\ "none" \in DOMAIN None
  BY <1>1 DEF None
<1>5. QED
  BY <1>1, <1>2, <1>3, <1>4 DEF live

LEMMA BlockedIs == Blocked # None /\ Blocked.applied = FALSE /\ Blocked.allowed = FALSE
<1>1. Blocked # None /\ Blocked.applied = FALSE /\ (Blocked.allowed => FALSE)
  BY ResultIs DEF Blocked
<1>2. Blocked.allowed \in BOOLEAN
  BY DEF Blocked, Result
<1>3. QED
  BY <1>1, <1>2

LEMMA StaysByMaster ==
    ASSUME NEW u \in Threads, work'[u] = work[u], master' = master
    PROVE  /\ ByMaster(u)' <=> ByMaster(u)
           /\ Outcome(u)' = Outcome(u)
  BY DEF ByMaster, Computed, Outcome

\* While a thread shuts down the other one does not.
LEMMA Alone ==
    ASSUME Types, Turns, NEW t \in Threads, pc[t] \in {"shutdown"} \cup Passing
    PROVE  /\ published = None
           /\ \A u \in Threads : u # t => pc[u] \notin Passing
           /\ t = "loop" => pc["monitor"] = "running"
           /\ t = "monitor" => pc["loop"] = "returned"
<1>1. CASE t = "loop"
  BY <1>1 DEF Turns, InTurn, Passing, Threads
<1>2. CASE t = "monitor"
  BY <1>2 DEF Turns, InTurn, Passing, Threads
<1>3. QED
  BY <1>1, <1>2 DEF Threads

\* A step of a pass keeps the turns.
LEMMA TurnsOn ==
    ASSUME Types, Turns, NEW t \in Threads, pc[t] \in {"shutdown"} \cup Passing,
           NEW p \in PlacesOf \ {"running"}, Goto(t, p), UNCHANGED published
    PROVE  /\ InTurn'
           /\ (published = None)'
           /\ \A u \in Threads : u # t => pc'[u] = pc[u] /\ pc[u] \notin Passing
           /\ pc'[t] = p
<1>1. /\ pc'[t] = p
      /\ \A u \in Threads : u # t => pc'[u] = pc[u]
  BY Went DEF Types
<1>2. InTurn'
  BY <1>1, Alone DEF InTurn, Threads
<1>3. QED
  BY <1>1, <1>2, Alone

\* A pass that ends without having saved leaves what there was.
LEMMA ReturnBlocked ==
    ASSUME Types, Turns, Untouched, NEW t \in Threads, pc[t] \in {"shutdown"} \cup Passing,
           Return(t, Blocked), UNCHANGED <<master, config, applied, published, work>>
    PROVE  Turns'
<1>1. /\ InTurn'
      /\ (published = None)'
      /\ \A u \in Threads : u # t => pc'[u] = pc[u] /\ pc[u] \notin Passing
      /\ pc'[t] = "returned"
  BY TurnsOn DEF Return, PlacesOf
<1>2. \A u \in Threads : pc'[u] \notin Passing
  BY <1>1 DEF Passing
<1>3. Untouched'
  BY <1>2 DEF Untouched, NoneApplied, Return, Passing
<1>4. QED
  BY <1>1, <1>2, <1>3 DEF Turns

\* A pass that goes on without having saved leaves what there was.
LEMMA PassOn ==
    ASSUME Types, Turns, Untouched, NEW t \in Threads, pc[t] \in {"shutdown"} \cup Passing,
           NEW p \in {"cash", "evaluate", "save"}, Goto(t, p),
           work'[t].doc = master', \A u \in Threads : u # t => work'[u] = work[u],
           UNCHANGED <<master, config, applied, published, handoff>>
    PROVE  Turns'
<1>1. /\ InTurn'
      /\ (published = None)'
      /\ \A u \in Threads : u # t => pc'[u] = pc[u] /\ pc[u] \notin Passing
      /\ pc'[t] = p
  BY TurnsOn DEF PlacesOf
<1>2. Untouched'
  <2>1. \A u \in Threads : pc'[u] \notin {"saved", "apply"}
    BY <1>1 DEF Passing
  <2>2. ~applied' /\ config' = master' /\ handoff' = handoff
    BY DEF Untouched
  <2>3. CASE handoff \in {None, Blocked}
    <3>1. (handoff \in {None, Blocked})'
      BY <2>2, <2>3 DEF None, Blocked, Result, NoShares
    <3>2. QED
      BY <2>1, <2>2, <3>1 DEF Untouched, NoneApplied
  <2>4. CASE \E u \in Threads : /\ pc[u] \in Over /\ ByMaster(u)
                                /\ handoff = Result(FALSE, work[u].shares)
    <3>1. PICK u \in Threads : /\ pc[u] \in Over /\ ByMaster(u)
                               /\ handoff = Result(FALSE, work[u].shares)
      BY <2>4
    <3>2. u # t
      BY <3>1 DEF Over, Passing
    <3>3. pc'[u] \in Over /\ ByMaster(u)' /\ handoff' = Result(FALSE, work'[u].shares)
      BY <1>1, <2>2, <3>1, <3>2, StaysByMaster
    <3>4. (\E v \in Threads : /\ pc[v] \in Over /\ ByMaster(v)
                              /\ handoff = Result(FALSE, work[v].shares))'
      BY <3>3
    <3>5. QED
      BY <2>1, <2>2, <3>4 DEF Untouched, NoneApplied
  <2>5. QED
    BY <2>3, <2>4 DEF Untouched, NoneApplied
<1>3. \A u \in Threads : pc'[u] \in Passing => work'[u].doc = master'
  BY <1>1
<1>4. QED
  BY <1>1, <1>2, <1>3 DEF Turns

LEMMA BeginTurns ==
    ASSUME Types, Turns, NEW t \in Threads, Begin(t)
    PROVE  Turns'
<1>1. pc[t] = "shutdown"
  BY DEF Begin, At
<1>2. UNCHANGED <<master, config, applied, published>>
  BY DEF Begin
<1>3. ~Saving
  BY <1>1, Alone DEF Saving, Passing
<1>4. CASE applied
  <2>1. Done
    BY <1>3, <1>4 DEF Turns, Untouched
  <2>2. handoff # None
    BY <2>1, ResultIs DEF Done
  <2>3. Return(t, handoff) /\ UNCHANGED work
    BY <1>4, <2>2 DEF Begin, AlreadyApplied, Cached
  <2>4. /\ InTurn'
        /\ (published = None)'
        /\ \A u \in Threads : u # t => pc'[u] = pc[u] /\ pc[u] \notin Passing
        /\ pc'[t] = "returned"
    BY <1>1, <1>2, <2>3, TurnsOn DEF Return, PlacesOf
  <2>5. \A u \in Threads : pc'[u] \notin Passing
    BY <2>4 DEF Passing
  <2>6. Done'
    <3>1. PICK u \in Threads : /\ pc[u] \in Over /\ ByMaster(u)
                               /\ config = Outcome(u)
                               /\ handoff = Result(TRUE, work[u].shares)
      BY <2>1 DEF Done
    <3>2. pc'[u] \in Over
      BY <1>1, <2>4, <3>1 DEF Over
    <3>3. ByMaster(u)' /\ (config = Outcome(u))'
      BY <1>2, <2>3, <3>1, StaysByMaster
    <3>4. (handoff = Result(TRUE, work[u].shares))'
      BY <2>3, <3>1 DEF Return, Result
    <3>5. applied'
      BY <1>2, <1>4
    <3>6. QED
      BY <2>5, <3>2, <3>3, <3>4, <3>5 DEF Done
  <2>7. QED
    BY <2>4, <2>5, <2>6 DEF Turns
<1>5. CASE ~applied
  <2>1. Untouched
    BY <1>3, <1>5 DEF Turns, Done
  <2>2. CASE Return(t, Blocked) /\ UNCHANGED work
    BY <1>1, <1>2, <2>1, <2>2, ReturnBlocked
  <2>3. CASE /\ work' = [work EXCEPT ![t].doc = config]
             /\ Goto(t, "cash")
             /\ UNCHANGED handoff
    <3>1. work'[t].doc = master'
      BY <1>2, <2>1, <2>3 DEF Untouched, Types, Works
    <3>2. \A u \in Threads : u # t => work'[u] = work[u]
      BY <2>3 DEF Types
    <3>3. QED
      BY <1>1, <1>2, <2>1, <2>3, <3>1, <3>2, PassOn
  <2>4. QED
    BY <1>5, <2>2, <2>3 DEF Begin, AlreadyApplied
<1>6. QED
  BY <1>4, <1>5

\* A pass that has not saved yet finds nothing saved.
LEMMA NotYet ==
    ASSUME Types, Turns, NEW t \in Threads, pc[t] \in {"cash", "evaluate", "save"}
    PROVE  Untouched
<1>1. pc[t] \in Passing
  BY DEF Passing
<1>2. ~Done
  BY <1>1 DEF Done
<1>3. ~Saving
  <2>1. ASSUME NEW u \in Threads, pc[u] \in {"saved", "apply"} PROVE FALSE
    <3>1. u # t
      BY <2>1
    <3>2. pc[u] \notin Passing
      BY <1>1, <3>1, Alone
    <3>3. QED
      BY <2>1, <3>2 DEF Passing
  <2>2. QED
    BY <2>1 DEF Saving
<1>4. QED
  BY <1>2, <1>3 DEF Turns

LEMMA CashTurns ==
    ASSUME Types, Turns, NEW t \in Threads, Cash(t)
    PROVE  Turns'
<1>1. pc[t] = "cash" /\ pc[t] \in Passing
  BY DEF Cash, At, Passing
<1>2. Untouched
  BY <1>1, NotYet
<1>3. UNCHANGED <<master, config, applied, published>>
  BY DEF Cash
<1>4. work[t].doc = master
  BY <1>1 DEF Turns
<1>5. \/ Return(t, Blocked) /\ UNCHANGED work
      \/ /\ Goto(t, "evaluate") /\ UNCHANGED handoff
         /\ work'[t].doc = work[t].doc
         /\ \A u \in Threads : u # t => work'[u] = work[u]
  BY DEF Cash, Types, Works
<1>6. QED
  BY <1>1, <1>2, <1>3, <1>4, <1>5, ReturnBlocked, PassOn

LEMMA EvaluateTurns ==
    ASSUME Types, Turns, NEW t \in Threads, Evaluate(t)
    PROVE  Turns'
<1>1. pc[t] = "evaluate" /\ pc[t] \in Passing
  BY DEF Evaluate, At, Passing
<1>2. Untouched
  BY <1>1, NotYet
<1>3. work[t].doc = master
  BY <1>1 DEF Turns
<1>4. /\ UNCHANGED <<master, config, applied, published>>
      /\ \A u \in Threads : u # t => work'[u] = work[u]
      /\ work'[t].doc = work[t].doc
      /\ \/ Return(t, Blocked) /\ UNCHANGED work
         \/ Goto(t, "save") /\ UNCHANGED handoff
  BY EvaluateStep DEF Return
<1>5. QED
  BY <1>1, <1>2, <1>3, <1>4, ReturnBlocked, PassOn

LEMMA SaveTurns ==
    ASSUME Types, Ready, Turns, Orderly, NEW t \in Threads, Save(t)
    PROVE  Turns'
<1>1. pc[t] = "save" /\ pc[t] \in Passing
  BY DEF Save, At, Passing
<1>2. Untouched
  BY <1>1, NotYet
<1>3. ByMaster(t)
  BY <1>1 DEF Turns, Ready, ByMaster
<1>4. UNCHANGED <<master, applied, published, work>>
  BY DEF Save
<1>5. ~May("lost")
  BY DEF Orderly, May
<1>6. ByMaster(t)' /\ Outcome(t)' = Outcome(t)
  BY <1>3, <1>4, StaysByMaster
<1>7. CASE /\ config' = Merged(work[t].doc, work[t].shares, work[t].removed)
           /\ Goto(t, "saved")
  <2>1. /\ InTurn'
        /\ (published = None)'
        /\ \A u \in Threads : u # t => pc'[u] = pc[u] /\ pc[u] \notin Passing
        /\ pc'[t] = "saved"
    BY <1>1, <1>4, <1>7, TurnsOn DEF PlacesOf
  <2>2. config' = Outcome(t)
    BY <1>3, <1>7 DEF ByMaster, Outcome
  <2>3. Saving'
    BY <1>2, <1>4, <1>6, <2>1, <2>2 DEF Saving, Untouched
  <2>4. \A u \in Threads : pc'[u] \in Passing => work'[u].doc = master'
    BY <1>3, <1>4, <2>1 DEF ByMaster
  <2>5. QED
    BY <2>1, <2>3, <2>4 DEF Turns
<1>8. CASE Return(t, Result(FALSE, work[t].shares)) /\ UNCHANGED config
  <2>1. /\ InTurn'
        /\ (published = None)'
        /\ \A u \in Threads : u # t => pc'[u] = pc[u] /\ pc[u] \notin Passing
        /\ pc'[t] = "returned"
    BY <1>1, <1>4, <1>8, TurnsOn DEF Return, PlacesOf
  <2>2. \A u \in Threads : pc'[u] \notin Passing
    BY <2>1 DEF Passing
  <2>3. (handoff = Result(FALSE, work[t].shares))' /\ pc'[t] \in Over
    BY <1>4, <1>8, <2>1 DEF Return, Over, Result
  <2>4. (\E u \in Threads : /\ pc[u] \in Over /\ ByMaster(u)
                            /\ handoff = Result(FALSE, work[u].shares))'
    BY <1>6, <2>3
  <2>5. Untouched'
    BY <1>2, <1>4, <1>8, <2>2, <2>4 DEF Untouched, NoneApplied, Passing
  <2>6. QED
    BY <2>1, <2>2, <2>5 DEF Turns
<1>9. QED
  BY <1>5, <1>7, <1>8 DEF Save

\* A thread that has saved is the one that did.
LEMMA ItSaved ==
    ASSUME Types, Turns, NEW t \in Threads, pc[t] \in {"saved", "apply"}
    PROVE  ByMaster(t) /\ config = Outcome(t) /\ (pc[t] = "apply" => applied)
<1>1. pc[t] \in Passing
  BY DEF Passing
<1>2. Saving
  BY <1>1 DEF Turns, Untouched, Done
<1>3. PICK u \in Threads : /\ ByMaster(u) /\ config = Outcome(u)
                           /\ \/ pc[u] = "saved" /\ ~applied
                              \/ pc[u] = "apply" /\ applied
  BY <1>2 DEF Saving
<1>4. u = t
  BY <1>1, <1>3, Alone DEF Passing
<1>5. QED
  BY <1>3, <1>4

LEMMA ApplyTurns ==
    ASSUME Types, Turns, NEW t \in Threads, Apply(t)
    PROVE  Turns'
<1>1. pc[t] = "saved" /\ pc[t] \in Passing
  BY DEF Apply, At, Passing
<1>2. ByMaster(t) /\ config = Outcome(t)
  BY <1>1, ItSaved
<1>3. UNCHANGED <<master, config, published, work>> /\ applied' = TRUE /\ Goto(t, "apply")
  BY DEF Apply
<1>4. /\ InTurn'
      /\ (published = None)'
      /\ \A u \in Threads : u # t => pc'[u] = pc[u] /\ pc[u] \notin Passing
      /\ pc'[t] = "apply"
  BY <1>1, <1>3, TurnsOn DEF PlacesOf
<1>5. ByMaster(t)' /\ (config = Outcome(t))'
  BY <1>2, <1>3, StaysByMaster
<1>6. Saving'
  BY <1>3, <1>4, <1>5 DEF Saving
<1>7. \A u \in Threads : pc'[u] \in Passing => work'[u].doc = master'
  BY <1>2, <1>3, <1>4 DEF ByMaster
<1>8. QED
  BY <1>4, <1>6, <1>7 DEF Turns

LEMMA FinishTurns ==
    ASSUME Types, Turns, NEW t \in Threads, Finish(t)
    PROVE  Turns'
<1>1. pc[t] = "apply" /\ pc[t] \in Passing
  BY DEF Finish, At, Passing
<1>2. ByMaster(t) /\ config = Outcome(t) /\ applied
  BY <1>1, ItSaved
<1>3. /\ UNCHANGED <<master, config, applied, published, work>>
      /\ Goto(t, "returned")
      /\ handoff' = Result(TRUE, work[t].shares)
  BY DEF Finish, Return
<1>4. /\ InTurn'
      /\ (published = None)'
      /\ \A u \in Threads : u # t => pc'[u] = pc[u] /\ pc[u] \notin Passing
      /\ pc'[t] = "returned"
  BY <1>1, <1>3, TurnsOn DEF PlacesOf
<1>5. ByMaster(t)' /\ (config = Outcome(t))'
  BY <1>2, <1>3, StaysByMaster
<1>6. \A u \in Threads : pc'[u] \notin Passing
  BY <1>4 DEF Passing
<1>7. (handoff = Result(TRUE, work[t].shares))' /\ pc'[t] \in Over
  BY <1>3, <1>4 DEF Over, Result
<1>8. Done'
  BY <1>2, <1>3, <1>5, <1>6, <1>7 DEF Done
<1>9. QED
  BY <1>4, <1>6, <1>8 DEF Turns

\* Steps around the passes leave what they have done.
LEMMA PhaseStays ==
    ASSUME Types, Turns, UNCHANGED <<master, config, applied, handoff, work>>,
           \A u \in Threads : \/ pc'[u] = pc[u]
                              \/ /\ pc[u] \notin Passing /\ pc'[u] \notin Passing
                                 /\ pc[u] \in Over => pc'[u] \in Over
    PROVE  /\ \A t \in Threads : pc'[t] \in Passing => work'[t].doc = master'
           /\ (Untouched \/ Saving \/ Done)'
<1>1. \A u \in Threads : /\ ByMaster(u) <=> ByMaster(u)'
                         /\ Outcome(u)' = Outcome(u)
                         /\ \A b \in BOOLEAN : Result(b, work[u].shares)' = Result(b, work[u].shares)
  BY StaysByMaster DEF Result
<1>2. \A u \in Threads : /\ pc'[u] \in Passing <=> pc[u] \in Passing
                         /\ pc[u] \in Passing => pc'[u] = pc[u]
                         /\ pc[u] \in Over => pc'[u] \in Over
  OBVIOUS
<1>3. CASE Untouched
  <2>1. \A u \in Threads : pc'[u] \notin {"saved", "apply"}
    BY <1>2, <1>3 DEF Untouched, Passing
  <2>2. ~applied' /\ config' = master'
    BY <1>3 DEF Untouched
  <2>3. ASSUME handoff \in {None, Blocked}
        PROVE  NoneApplied'
    <3>1. (handoff \in {None, Blocked})'
      BY <2>3 DEF None, Blocked, Result, NoShares
    <3>2. QED
      BY <3>1 DEF NoneApplied
  <2>4. ASSUME \E u \in Threads : /\ pc[u] \in Over /\ ByMaster(u)
                                  /\ handoff = Result(FALSE, work[u].shares)
        PROVE  NoneApplied'
    <3>1. (\E u \in Threads : /\ pc[u] \in Over /\ ByMaster(u)
                              /\ handoff = Result(FALSE, work[u].shares))'
      BY <1>1, <1>2, <2>4
    <3>2. QED
      BY <3>1 DEF NoneApplied
  <2>5. Untouched'
    <3>1. NoneApplied
      BY <1>3 DEF Untouched
    <3>2. NoneApplied'
      BY <2>3, <2>4, <3>1 DEF NoneApplied
    <3>3. QED
      BY <2>1, <2>2, <3>2 DEF Untouched
  <2>6. QED
    BY <1>2, <2>5 DEF Turns
<1>4. CASE Saving
  <2>1. Saving'
    BY <1>1, <1>2, <1>4 DEF Saving, Passing
  <2>2. QED
    BY <1>2, <2>1 DEF Turns
<1>5. CASE Done
  <2>1. Done'
    BY <1>1, <1>2, <1>5 DEF Done
  <2>2. QED
    BY <1>2, <2>1 DEF Turns
<1>6. QED
  BY <1>3, <1>4, <1>5 DEF Turns

LEMMA AroundTurns ==
    ASSUME Types, Turns, Orderly, LoopStop \/ MonitorJoin \/ Publish \/ Stop
    PROVE  Turns'
<1>0. "loop" \in Threads /\ "monitor" \in Threads /\ "loop" # "monitor"
  BY DEF Threads
<1>1. CASE LoopStop
  <2>1. /\ pc["loop"] = "running" /\ pc["monitor"] = "running"
        /\ UNCHANGED <<master, config, applied, handoff, work, published>>
    BY <1>0, <1>1 DEF LoopStop, At, results, Turns, InTurn, Types, Threads, PlacesOf
  <2>2. /\ pc'["loop"] \in {"shutdown", "returned"}
        /\ \A u \in Threads : u # "loop" => pc'[u] = pc[u]
    BY <1>0, <1>1, Went DEF LoopStop, Types, PlacesOf
  <2>3. InTurn'
    BY <1>0, <2>1, <2>2 DEF InTurn
  <2>4. published' = None
    BY <2>1 DEF Turns
  <2>5. \A u \in Threads : \/ pc'[u] = pc[u]
                           \/ /\ pc[u] \notin Passing /\ pc'[u] \notin Passing
                              /\ pc[u] \in Over => pc'[u] \in Over
    BY <2>1, <2>2 DEF Passing, Over
  <2>6. None' = None
    BY DEF None, NoShares
  <2>7. QED
    BY <2>1, <2>3, <2>4, <2>5, <2>6, PhaseStays DEF Turns
<1>2. CASE MonitorJoin
  <2>1. /\ pc["monitor"] = "running" /\ pc["loop"] = "returned"
        /\ UNCHANGED <<master, config, applied, handoff, work, published>>
    BY <1>0, <1>2 DEF MonitorJoin, At, results, Orderly, May
  <2>2. /\ pc'["monitor"] = "shutdown"
        /\ \A u \in Threads : u # "monitor" => pc'[u] = pc[u]
    BY <1>0, <1>2, Went DEF MonitorJoin, Types, PlacesOf
  <2>3. InTurn'
    BY <1>0, <2>1, <2>2 DEF InTurn
  <2>4. published' = None
    BY <2>1 DEF Turns
  <2>5. \A u \in Threads : \/ pc'[u] = pc[u]
                           \/ /\ pc[u] \notin Passing /\ pc'[u] \notin Passing
                              /\ pc[u] \in Over => pc'[u] \in Over
    BY <2>1, <2>2 DEF Passing, Over
  <2>6. None' = None
    BY DEF None, NoShares
  <2>7. QED
    BY <2>1, <2>3, <2>4, <2>5, <2>6, PhaseStays DEF Turns
<1>3. CASE Publish
  <2>1. /\ pc["monitor"] = "returned"
        /\ published' \in {published, handoff}
        /\ UNCHANGED <<master, config, applied, handoff, work>>
    BY <1>0, <1>3 DEF Publish, At, results
  <2>2. /\ pc'["monitor"] = "ended"
        /\ \A u \in Threads : u # "monitor" => pc'[u] = pc[u]
    BY <1>0, <1>3, Went DEF Publish, Types, PlacesOf
  <2>3. InTurn'
    BY <1>0, <2>1, <2>2 DEF InTurn, Turns
  <2>4. published = None
    BY <2>1 DEF Turns
  <2>5. \A u \in Threads : \/ pc'[u] = pc[u]
                           \/ /\ pc[u] \notin Passing /\ pc'[u] \notin Passing
                              /\ pc[u] \in Over => pc'[u] \in Over
    BY <2>1, <2>2 DEF Passing, Over
  <2>6. None' = None
    BY DEF None, NoShares
  <2>7. published' = None' \/ (pc'["monitor"] = "ended" /\ published' = handoff')
    BY <2>1, <2>2, <2>4, <2>6
  <2>8. QED
    BY <2>1, <2>3, <2>5, <2>7, PhaseStays DEF Turns
<1>4. CASE Stop
  <2>1. UNCHANGED <<master, config, applied, handoff, work, published, pc>>
    BY <1>4 DEF Stop, results
  <2>2. None' = None
    BY DEF None, NoShares
  <2>3. QED
    BY <2>1, <2>2, PhaseStays DEF Turns, InTurn
<1>5. QED
  BY <1>1, <1>2, <1>3, <1>4

LEMMA SerialStep ==
    ASSUME Types, Ready, Serial, [Next]_vars
    PROVE  Serial'
<1>1. UNCHANGED irregular
  BY DEF Next, Pass, vars, Begin, Cash, Evaluate, Save, Apply, Finish, LoopStop, MonitorJoin,
         Publish, Stop, Tick
<1>2. SUFFICES ASSUME Orderly PROVE Turns'
  BY <1>1 DEF Serial, Orderly
<1>3. Turns
  BY <1>2 DEF Serial
<1>4. ASSUME UNCHANGED <<master, config, applied, handoff, work, published, pc>> PROVE Turns'
  <2>1. None' = None
    BY DEF None, NoShares
  <2>2. QED
    BY <1>3, <1>4, <2>1, PhaseStays DEF Turns, InTurn
<1>5. CASE UNCHANGED vars
  BY <1>4, <1>5 DEF vars
<1>6. ASSUME NEW t \in Threads, Pass(t) PROVE Turns'
  BY <1>2, <1>3, <1>6, BeginTurns, CashTurns, EvaluateTurns, SaveTurns, ApplyTurns,
     FinishTurns DEF Pass
<1>7. CASE LoopStop \/ MonitorJoin \/ Publish \/ Stop
  BY <1>2, <1>3, <1>7, AroundTurns
<1>8. ASSUME NEW s \in Active, Tick(s) PROVE Turns'
  BY <1>4, <1>8 DEF Tick, results
<1>9. QED
  BY <1>5, <1>6, <1>7, <1>8 DEF Next

LEMMA SerialInit ==
    ASSUME Init
    PROVE  Serial
  BY DEF Init, Serial, Turns, InTurn, Untouched, NoneApplied, Passing, Threads

LEMMA PyramidInvariant ==
    Spec => [](Types /\ Ready /\ Serial)
<1>1. Init => Types /\ Ready /\ Serial
  BY TypesInit, SerialInit DEF Init, Ready
<1>2. Types /\ Ready /\ Serial /\ [Next]_vars => (Types /\ Ready /\ Serial)'
  BY TypesStep, ReadyStep, SerialStep
<1>3. QED
  BY <1>1, <1>2, PTL DEF Spec

\* What has been published when both threads shut down in turn: the result of a thread's
\* pass over the configuration the session started with, saved if it is an applied one.
LEMMA PublishedIs ==
    ASSUME Types, Serial, Orderly, published # None
    PROVE  \/ published = Blocked /\ config = master
           \/ \E t \in Threads :
                /\ ByMaster(t)
                /\ \/ published = Result(FALSE, work[t].shares) /\ config = master
                   \/ published = Result(TRUE, work[t].shares) /\ config = Outcome(t)
<1>1. Turns
  BY DEF Serial
<1>2. pc["monitor"] = "ended" /\ published = handoff
  BY <1>1 DEF Turns
<1>3. pc["loop"] = "returned"
  BY <1>1, <1>2 DEF Turns, InTurn
<1>4. ~Saving
  BY <1>2, <1>3 DEF Saving, Threads
<1>5. Untouched \/ Done
  BY <1>1, <1>4 DEF Turns
<1>6. QED
  BY <1>2, <1>5 DEF Untouched, NoneApplied, Done

\* Of the two passes of a shutdown in turn, one that saves is not taken back by the
\* other: what is published as not applied finds the configuration as it was.
THEOREM BlockedIsPreserved ==
    Spec => []BlockedPreserves
<1>1. Types /\ Serial => BlockedPreserves
  <2> SUFFICES ASSUME Types, Serial, Orderly, published # None, ~published.applied
               PROVE  config = master
    BY DEF BlockedPreserves
  <2>1. QED
    BY PublishedIs, ResultIs
<1>2. QED
  BY <1>1, PyramidInvariant, PTL

\* The capitals published for the live session are in the proportion of the weights of the
\* configuration the session started with: the second pass does not share again.
THEOREM LiveByRank ==
    Spec => []SharesByRank
<1>1. Types /\ Serial => SharesByRank
  <2> SUFFICES ASSUME Types, Serial, Orderly,
                      NEW s1 \in DOMAIN published.live, NEW s2 \in DOMAIN published.live
               PROVE  2 * Difference(published.live[s1] * Weight(master, s2),
                                     published.live[s2] * Weight(master, s1))
                        <= Weight(master, s1) + Weight(master, s2)
    BY DEF SharesByRank
  <2>1. published # None /\ published # Blocked
    <3>1. DOMAIN None.live = {}
      BY DEF None, NoShares
    <3>2. DOMAIN Blocked.live = {}
      <4>1. Blocked.live = [s \in {x \in DOMAIN NoShares : NoShares[x] > 0} |-> NoShares[s]]
        BY ResultIs DEF Blocked
      <4>2. {x \in DOMAIN NoShares : NoShares[x] > 0} = {}
        BY NoSharesType
      <4>3. QED
        BY <4>1, <4>2
    <3>3. QED
      BY <3>1, <3>2
  <2>2. PICK t \in Threads, b \in BOOLEAN :
            ByMaster(t) /\ published = Result(b, work[t].shares)
    BY <2>1, PublishedIs
  <2> DEFINE f == work[t].shares
             won == DOMAIN f
  <2>3. published.live = [s \in {x \in DOMAIN f : f[x] > 0} |-> f[s]]
    BY <2>2, ResultIs
  <2>4. /\ s1 \in won /\ s2 \in won
        /\ published.live[s1] = f[s1] /\ published.live[s2] = f[s2]
    BY <2>3
  <2>5. /\ Fair(master, won, work[t].cash) /\ f = Shares(master, won, work[t].cash)
        /\ master \in Configurations
    BY <2>2 DEF ByMaster, Computed, Types
  <2> HIDE DEF f, won
  <2>6. /\ f[s1] = Share(master, won, work[t].cash, s1)
        /\ f[s2] = Share(master, won, work[t].cash, s2)
    BY <2>4, <2>5 DEF Shares
  <2>7. QED
    BY <2>4, <2>5, <2>6, SharesProportional
<1>2. QED
  BY <1>1, PyramidInvariant, PTL

\* Where live trading is allowed, every list of the saved configuration gives the session's
\* symbols a capital only as it was published, with the rank it was shared by.
THEOREM LiveIsWhatIsSaved ==
    Spec => []LiveIsSaved
<1>1. Types /\ Serial => LiveIsSaved
  <2> SUFFICES ASSUME Types, Serial, Orderly, published.allowed, ~master.array,
                      NEW l \in Lists, NEW s \in Active,
                      InList(config, l, s), config.at[l][s].cap > 0
               PROVE  /\ s \in DOMAIN published.live
                      /\ config.at[l][s] = [cap |-> published.live[s],
                                            rank |-> RankOf(master, s)]
    BY DEF LiveIsSaved
  <2>1. published # None /\ published # Blocked
    BY BlockedIs DEF None
  <2>2. PICK t \in Threads :
            /\ ByMaster(t)
            /\ published = Result(TRUE, work[t].shares)
            /\ config = Outcome(t)
    BY <2>1, PublishedIs, ResultIs
  <2> DEFINE f == work[t].shares
             r == work[t].removed
  <2>3. /\ f \in Numbers /\ r \in SUBSET Active /\ r = Active \ DOMAIN f
        /\ master \in Configurations /\ config = Merged(master, f, r)
    BY <2>2 DEF Types, Works, ByMaster, Computed, Outcome
  <2>4. published.live = [x \in {y \in DOMAIN f : f[y] > 0} |-> f[x]]
    BY <2>2, ResultIs
  <2> HIDE DEF f, r
  <2>5. s \in Symbols /\ s \in r \cup DOMAIN f
    BY <2>3, PyramidAssumption
  <2>6. config.has = master.has
    BY <2>3, MergedType
  <2>7. config.at[l][s] = IF \/ l = "alphas" /\ master.array
                             \/ ~InList(master, l, s)
                             \/ s \notin r \cup DOMAIN f
                          THEN master.at[l][s]
                          ELSE IF s \in r THEN Absent
                               ELSE [cap |-> f[s], rank |-> RankOf(master, s)]
    BY <2>3, <2>5, MergedType
  <2>8. InList(master, l, s)
    <3>1. CASE ~InList(master, l, s)
      <4>1. config.at[l][s] = master.at[l][s]
        BY <2>7, <3>1
      <4>2. QED
        BY <2>6, <3>1, <4>1 DEF InList
    <3>2. QED
      BY <3>1
  <2>9. config.at[l][s] = IF s \in r THEN Absent
                          ELSE [cap |-> f[s], rank |-> RankOf(master, s)]
    BY <2>5, <2>7, <2>8
  <2>10. s \notin r
    BY <2>9 DEF InList
  <2>11. config.at[l][s] = [cap |-> f[s], rank |-> RankOf(master, s)] /\ s \in DOMAIN f
    BY <2>5, <2>9, <2>10
  <2>12. f[s] > 0
    BY <2>11
  <2>13. QED
    BY <2>4, <2>11, <2>12
<1>2. QED
  BY <1>1, PyramidInvariant, PTL
\* The saved configuration changes at most once: a pass that is about to save finds it as
\* the session did, because an earlier pass has either saved and set the mark, which turns
\* later ones back, or has left it alone.
THEOREM SavedOnce ==
    Spec => ChangedOnce
<1>1. Types /\ Serial /\ [Next]_vars => (Orderly /\ config' # config => config = master)
  <2> SUFFICES ASSUME Types, Serial, [Next]_vars, Orderly, config' # config
               PROVE  config = master
    OBVIOUS
  <2>1. PICK t \in Threads : Save(t)
    BY DEF Next, vars, Pass, Begin, Cash, Evaluate, Apply, Finish, LoopStop, MonitorJoin,
           Publish, Stop, Tick
  <2>2. pc[t] \in {"cash", "evaluate", "save"}
    BY <2>1 DEF Save, At
  <2>3. Untouched
    BY <2>2, NotYet DEF Serial
  <2>4. QED
    BY <2>3 DEF Untouched
<1>2. QED
  BY <1>1, PyramidInvariant, PTL DEF Spec, ChangedOnce
=============================================================================
