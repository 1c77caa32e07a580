-------------------------- MODULE PaperEngineProofs --------------------------
(***************************************************************************)
(* Proofs about PaperEngine for every finite set of symbols, and any       *)
(* quantities, bounds and irregularities.                                  *)
(***************************************************************************)
EXTENDS PaperEngine, DataLemmas

(* Types                                                                   *)

Outcomes == [req : Requests, ok : BOOLEAN]
Acts == Opens \cup Expands \cup Flips \cup Exits

Places(t) ==
    IF t = "loop"
    THEN {"top", "fetch", "decide", "collect", "record", "clear", "cycled", "pyramid", "halt",
          "ended"}
    ELSE IF t = "monitor"
    THEN {"watch", "collect", "record", "clear", "joining", "pyramid", "halt", "ended"}
    ELSE {"none", "exit", "collect", "record", "clear"}

OutsideType == irregular \in Irregular /\ clock \in {"open", "cutoff", "closed"}
BookType == /\ paper \in [Symbols -> Int] /\ positions \in [Symbols -> Int]
            /\ booked \in [Symbols -> Nat] /\ closed \in [Symbols -> Nat]
ExecType == /\ queue \in Seq(Requests) /\ filling \in Seq(Requests)
            /\ results \in Seq(Outcomes)
            /\ executor \in {"none", "running", "stopped", "restarted"}
ExposureType == /\ reserved \in [Symbols -> Nat] /\ confirmed \in [Symbols -> Nat]
                /\ cache \in [Symbols -> Int]
                /\ sized \subseteq Symbols
ExitType == exited \subseteq Symbols /\ exitDocs \subseteq Symbols /\ inflight \subseteq Symbols
FlagType == stop \in BOOLEAN /\ wstop \in BOOLEAN /\ handoff \in BOOLEAN
LoopType == active \subseteq Symbols /\ view \in [Symbols -> Int] /\ ordered \in Nat

PlaceType == /\ pc = [t \in Threads |-> pc[t]]
             /\ \A t \in Threads : pc[t] \in Places(t)

\* What a thread that waits for results, or deals with them, has.
Holds(t) ==
    /\ pc[t] = "collect" => Len(got[t]) <= Len(batch[t])
    /\ t # "loop" /\ pc[t] \in {"collect", "record", "clear"} => Len(batch[t]) = 1
    /\ t # "loop" /\ pc[t] \in {"record", "clear"} => Len(got[t]) = 1
    /\ t = "loop" /\ pc[t] = "clear" => got[t] # << >>
ThreadType == /\ PlaceType
              /\ batch \in [Threads -> Seq(Requests)]
              /\ got \in [Threads -> Seq(Outcomes)]
              /\ \A t \in Threads : Holds(t)
              /\ exits \in Nat

Types == OutsideType /\ BookType /\ ExecType /\ ExposureType /\ ExitType /\ FlagType /\ LoopType
         /\ ThreadType

LEMMA ThreadsAre ==
    /\ Threads = Symbols \cup {"loop", "monitor"}
    /\ "loop" \notin Symbols /\ "monitor" \notin Symbols /\ "loop" # "monitor"
    /\ "loop" \in Threads /\ "monitor" \in Threads /\ Symbols \subseteq Threads
  BY PaperAssumption DEF Threads, Exiters

LEMMA Same ==
    ASSUME Types
    PROVE  /\ UNCHANGED outside => OutsideType'
           /\ UNCHANGED book => BookType'
           /\ UNCHANGED exec => ExecType'
           /\ UNCHANGED exposure => ExposureType'
           /\ UNCHANGED exitVars => ExitType'
           /\ UNCHANGED flags => FlagType'
           /\ UNCHANGED loopVars => LoopType'
           /\ UNCHANGED threads => ThreadType'
<1>1. UNCHANGED outside => OutsideType'
  BY DEF Types, OutsideType, outside
<1>2. UNCHANGED book => BookType'
  BY DEF Types, BookType, book
<1>3. UNCHANGED exec => ExecType'
  BY DEF Types, ExecType, exec
<1>4. UNCHANGED exposure => ExposureType'
  BY DEF Types, ExposureType, exposure
<1>5. UNCHANGED exitVars => ExitType'
  BY DEF Types, ExitType, exitVars
<1>6. UNCHANGED flags => FlagType'
  BY DEF Types, FlagType, flags
<1>7. UNCHANGED loopVars => LoopType'
  BY DEF Types, LoopType, loopVars
<1>8. UNCHANGED threads => ThreadType'
  <2> SUFFICES ASSUME UNCHANGED threads PROVE ThreadType'
    OBVIOUS
  <2>1. UNCHANGED pc /\ UNCHANGED batch /\ UNCHANGED got /\ UNCHANGED exits
    BY DEF threads
  <2>2. QED
    BY <2>1 DEF Types, ThreadType, PlaceType, Holds
<1>9. QED
  BY <1>1, <1>2, <1>3, <1>4, <1>5, <1>6, <1>7, <1>8

\* One thread goes to another place.
LEMMA Went ==
    ASSUME PlaceType, NEW t \in Threads, NEW p \in Places(t), Goto(t, p)
    PROVE  /\ PlaceType'
           /\ pc'[t] = p
           /\ \A u \in Threads : u # t => pc'[u] = pc[u]
  BY DEF PlaceType, Goto

\* It does so with its batch and its results as they were.
LEMMA WentOn ==
    ASSUME Types, NEW t \in Threads, NEW p \in Places(t), Goto(t, p), UNCHANGED <<batch, got>>,
           exits' \in Nat, Holds(t)'
    PROVE  ThreadType'
<1>1. /\ PlaceType'
      /\ pc'[t] = p
      /\ \A u \in Threads : u # t => pc'[u] = pc[u]
  BY Went DEF Types, ThreadType
<1>2. ASSUME NEW u \in Threads, u # t PROVE Holds(u)'
  BY <1>1, <1>2 DEF Types, ThreadType, Holds
<1>3. QED
  BY <1>1, <1>2 DEF Types, ThreadType

\* Only a place where something is held asks for anything.
LEMMA HeldNothing ==
    ASSUME NEW t, pc'[t] \notin {"collect", "record", "clear"}
    PROVE  Holds(t)'
  BY DEF Holds

LEMMA WentAway ==
    ASSUME Types, NEW t \in Threads, NEW p \in Places(t), Goto(t, p), UNCHANGED <<batch, got>>,
           exits' \in Nat, p \notin {"collect", "record", "clear"}
    PROVE  ThreadType'
<1>1. pc'[t] = p
  BY Went DEF Types, ThreadType
<1>2. Holds(t)'
  BY <1>1, HeldNothing
<1>3. QED
  BY <1>2, WentOn

-----------------------------------------------------------------------------
(* Orders                                                                  *)

LEMMA RequestIs ==
    ASSUME NEW s \in Symbols, NEW sd \in {Buy, Sell}, NEW q \in Nat \ {0}, NEW a \in Acts,
           NEW n \in Int
    PROVE  /\ Request(s, sd, q, a, n) \in Requests
           /\ Request(s, sd, q, a, n).sym = s
           /\ Request(s, sd, q, a, n).side = sd
           /\ Request(s, sd, q, a, n).qty = q
           /\ Request(s, sd, q, a, n).act = a
           /\ Request(s, sd, q, a, n).snap = n
  BY DEF Request, Requests, Acts

LEMMA RequestHas ==
    ASSUME NEW r \in Requests
    PROVE  /\ r.sym \in Symbols /\ r.side \in {Buy, Sell} /\ r.qty \in Nat \ {0}
           /\ r.act \in Acts /\ r.snap \in Int
  BY DEF Requests, Acts

LEMMA OutcomeIs ==
    ASSUME NEW r \in Requests, NEW b \in BOOLEAN
    PROVE  /\ Outcome(r, b) \in Outcomes
           /\ Outcome(r, b).req = r
           /\ Outcome(r, b).ok = b
  BY DEF Outcome, Outcomes

LEMMA OutcomeHas ==
    ASSUME NEW o \in Outcomes
    PROVE  o.req \in Requests /\ o.ok \in BOOLEAN
  BY DEF Outcomes

LEMMA SignSize ==
    ASSUME NEW n \in Int
    PROVE  /\ Sign(n) \in {-1, 0, 1} /\ -Sign(n) \in {-1, 0, 1}
           /\ Size(n) \in Nat
           /\ n # 0 => /\ Sign(n) \in {Buy, Sell} /\ -Sign(n) \in {Buy, Sell}
                       /\ Size(n) \in Nat \ {0}
           /\ (Sign(n) = 0) <=> (n = 0)
           /\ (Size(n) = 0) <=> (n = 0)
<1>1. CASE n > 0
  <2>1. Sign(n) = 1 /\ Size(n) = n
    BY <1>1 DEF Sign, Size
  <2>2. QED
    BY <1>1, <2>1 DEF Buy, Sell
<1>2. CASE n < 0
  <2>0. Sign(n) = -1 /\ Size(n) = -n
    BY <1>2 DEF Sign, Size
  <2>1. Sign(n) = -1 /\ -Sign(n) = 1 /\ Size(n) = -n
    <3>1. \A x \in Int : x + 1 = 0 => -x = 1
      OBVIOUS
    <3>2. Sign(n) + 1 = 0 /\ Sign(n) \in Int
      BY <2>0
    <3>3. QED
      BY <2>0, <3>1, <3>2
  <2>2. -n \in Nat \ {0} /\ n # 0
    BY <1>2
  <2>3. QED
    BY <2>1, <2>2 DEF Buy, Sell
<1>3. CASE n = 0
  <2>1. Sign(n) = 0 /\ Size(n) = 0
    BY <1>3 DEF Sign, Size
  <2>2. QED
    BY <1>3, <2>1
<1>4. QED
  BY <1>1, <1>2, <1>3

LEMMA ShrunkIs ==
    ASSUME NEW n \in Int, NEW q \in Nat
    PROVE  /\ Shrunk(n, q) \in Int
           /\ Size(Shrunk(n, q)) <= Size(n)
           /\ q >= Size(n) => Shrunk(n, q) = 0
<1>1. CASE n > 0
  <2>1. Sign(n) = 1 /\ Size(n) = n
    BY <1>1 DEF Sign, Size
  <2>2. Shrunk(n, q) = IF n > q THEN n - q ELSE 0
    BY <2>1 DEF Shrunk
  <2>3. QED
    BY <1>1, <2>1, <2>2 DEF Size
<1>2. CASE n < 0
  <2>1. Sign(n) = -1 /\ Size(n) = -n
    BY <1>2 DEF Sign, Size
  <2>2. Shrunk(n, q) = IF -n > q THEN n + q ELSE 0
    BY <2>1 DEF Shrunk
  <2>3. QED
    BY <1>2, <2>1, <2>2 DEF Size
<1>3. CASE n = 0
  <2>1. Sign(n) = 0 /\ Size(n) = 0
    BY <1>3 DEF Sign, Size
  <2>2. Shrunk(n, q) = 0
    BY <2>1 DEF Shrunk
  <2>3. QED
    BY <1>3, <2>1, <2>2
<1>4. QED
  BY <1>1, <1>2, <1>3

\* A side times a number is the number or its opposite.
LEMMA SideTimes ==
    ASSUME NEW d \in {Buy, Sell}, NEW n \in Int
    PROVE  /\ d * n \in Int
           /\ n >= 0 => Size(d * n) = n
  BY DEF Buy, Sell, Size

LEMMA HalfIs ==
    ASSUME NEW n \in Nat
    PROVE  n \div 2 \in Nat /\ (2 * n) \div 2 = n
  OBVIOUS

LEMMA FilledType ==
    ASSUME NEW n \in Int, NEW r \in Requests
    PROVE  Filled(n, r) \in Int
<1>1. r.side \in {Buy, Sell} /\ r.qty \in Nat
  BY RequestHas
<1>2. r.qty \div 2 \in Nat
  BY <1>1, HalfIs
<1>3. r.side * (r.qty \div 2) \in Int /\ r.side * r.qty \in Int
  BY <1>1, <1>2, SideTimes
<1>4. Shrunk(n, r.qty) \in Int
  BY <1>1, ShrunkIs
<1>5. QED
  BY <1>3, <1>4 DEF Filled

LEMMA LeftType ==
    ASSUME Types, NEW s \in Symbols, NEW n \in Int
    PROVE  Left(s) \in Int /\ Snapshot(s, n) \in Int
  BY DEF Types, BookType, Left, Snapshot

LEMMA OptionIs ==
    ASSUME Types, NEW s \in Symbols, NEW room, NEW r \in Options(s, room)
    PROVE  r \in Requests /\ r.sym = s
<1>0. view[s] \in Int /\ confirmed[s] \in Nat /\ Lot \in Nat \ {0}
  BY PaperAssumption DEF Types, LoopType, ExposureType
<1>1. CASE view[s] = 0
  <2>1. r = Open(s, Buy) \/ r = Open(s, Sell)
    BY <1>1 DEF Options
  <2>2. "OPEN_LONG" \in Acts /\ "OPEN_SHORT" \in Acts /\ Buy \in {Buy, Sell} /\ Sell \in {Buy, Sell}
        /\ 0 \in Int
    BY DEF Acts, Opens
  <2>3. QED
    BY <1>0, <2>1, <2>2, RequestIs DEF Open
<1>2. CASE view[s] # 0
  <2>0. /\ Sign(view[s]) \in {Buy, Sell} /\ -Sign(view[s]) \in {Buy, Sell}
        /\ Size(view[s]) \in Nat \ {0}
    BY <1>0, <1>2, SignSize
  <2>1. r = StopLoss(s) \/ r = Flip(s) \/ r = Expand(s)
    BY <1>2 DEF Options
  <2>2. CASE r = StopLoss(s)
    <3>1. "STOP_LOSS" \in Acts /\ Snapshot(s, view[s]) \in Int
      BY <1>0, LeftType DEF Acts, Exits
    <3>2. QED
      BY <2>0, <2>2, <3>1, RequestIs DEF StopLoss
  <2>3. CASE r = Flip(s)
    <3> DEFINE q == IF confirmed[s] > 0 THEN confirmed[s] ELSE Size(view[s])
               a == IF view[s] < 0 THEN "FLIP_TO_LONG" ELSE "FLIP_TO_SHORT"
    <3>1. q \in Nat \ {0}
      BY <1>0, <2>0
    <3>2. a \in Acts /\ 0 \in Int
      BY DEF Acts, Flips
    <3>3. r = Request(s, -Sign(view[s]), 2 * q, a, 0)
      BY <2>3 DEF Flip
    <3> HIDE DEF q, a
    <3>4. 2 * q \in Nat \ {0}
      BY <3>1
    <3>5. QED
      BY <2>0, <3>2, <3>3, <3>4, RequestIs
  <2>4. CASE r = Expand(s)
    <3>1. "EXPAND_LONG" \in Acts /\ "EXPAND_SHORT" \in Acts /\ 0 \in Int
      BY DEF Acts, Expands
    <3>2. QED
      BY <1>0, <2>0, <2>4, <3>1, RequestIs DEF Expand
  <2>5. QED
    BY <2>1, <2>2, <2>3, <2>4
<1>3. QED
  BY <1>1, <1>2

LEMMA ExitRequestIs ==
    ASSUME Types, NEW s \in Symbols, paper[s] # 0
    PROVE  /\ ExitRequest(s) \in Requests
           /\ ExitRequest(s).sym = s
           /\ ExitRequest(s).side = -Sign(paper[s])
           /\ ExitRequest(s).qty = Size(paper[s])
           /\ ExitRequest(s).act \in Exits
           /\ ExitRequest(s).snap = Snapshot(s, paper[s])
           /\ << ExitRequest(s) >> \in Seq(Requests)
           /\ Len(<< ExitRequest(s) >>) = 1
<1> DEFINE a == IF paper[s] > 0 THEN "EXIT_LONG" ELSE "COVER_SHORT"
           d == -Sign(paper[s])
           q == Size(paper[s])
           n == Snapshot(s, paper[s])
           r == ExitRequest(s)
<1>1. paper[s] \in Int
  BY DEF Types, BookType
<1>2. d \in {Buy, Sell} /\ q \in Nat \ {0}
  BY <1>1, SignSize
<1>3. a \in Acts /\ a \in Exits /\ n \in Int
  BY <1>1, LeftType DEF Acts, Exits
<1>4. r = Request(s, d, q, a, n)
  BY DEF ExitRequest
<1> HIDE DEF a, d, q, n, r
<1>5. r \in Requests /\ r.sym = s /\ r.side = d /\ r.qty = q /\ r.act = a /\ r.snap = n
  BY <1>2, <1>3, <1>4, RequestIs
<1>6. << r >> \in Seq(Requests) /\ Len(<< r >>) = 1
  BY <1>5
<1>7. QED
  BY <1>3, <1>5, <1>6 DEF d, q, n, r

-----------------------------------------------------------------------------
(* Every step keeps the types                                              *)

LEMMA ExecuteTypes ==
    ASSUME Types, NEW i \in DOMAIN queue, Execute(i)
    PROVE  Types'
<1> DEFINE r == queue[i]
           s == queue[i].sym
<1>0. queue \in Seq(Requests) /\ filling \in Seq(Requests) /\ results \in Seq(Outcomes)
  BY DEF Types, ExecType
<1>1. r \in Requests /\ s \in Symbols
  BY <1>0, RequestHas
<1>2. OutsideType' /\ ExposureType' /\ ExitType' /\ FlagType' /\ LoopType' /\ ThreadType'
  <2>1. /\ UNCHANGED outside /\ UNCHANGED exposure /\ UNCHANGED exitVars /\ UNCHANGED flags
        /\ UNCHANGED loopVars /\ UNCHANGED threads
    BY DEF Execute
  <2>2. QED
    BY <2>1, Same
<1>3. BookType'
  <2>1. positions' = positions /\ booked' = booked
    BY DEF Execute
  <2>2. paper' \in [Symbols -> Int] /\ closed' \in [Symbols -> Nat]
    <3>1. CASE paper' = paper /\ closed' = closed
      BY <3>1 DEF Types, BookType
    <3>2. CASE /\ paper' = [paper EXCEPT ![s] = Filled(@, r)]
               /\ closed' = [closed EXCEPT ![s] =
                     @ + IF r.act \in Exits THEN Least(Size(paper[s]), r.qty) ELSE 0]
      <4>1. paper[s] \in Int /\ Filled(paper[s], r) \in Int
        BY <1>1, FilledType DEF Types, BookType
      <4>2. Size(paper[s]) \in Nat /\ r.qty \in Nat
        BY <1>1, <4>1, SignSize, RequestHas
      <4>3. Least(Size(paper[s]), r.qty) \in Nat
        BY <4>2 DEF Least
      <4> HIDE DEF r, s
      <4>4. QED
        BY <1>1, <3>2, <4>1, <4>3 DEF Types, BookType
    <3>3. QED
      BY <3>1, <3>2 DEF Execute
  <2>3. QED
    BY <2>1, <2>2 DEF Types, BookType
<1>4. ExecType'
  <2>1. queue' = RemoveAt(queue, i) /\ executor' = executor
    BY DEF Execute
  <2>2. queue' \in Seq(Requests)
    BY <1>0, <2>1, RemoveTyped
  <2>3. filling' = filling \/ filling' = Append(filling, r)
    BY DEF Execute
  <2>4. results' = results \/ results' = Append(results, Outcome(r, FALSE))
    BY DEF Execute
  <2>5. Outcome(r, FALSE) \in Outcomes
    BY <1>1, OutcomeIs
  <2> HIDE DEF r
  <2>6. filling' \in Seq(Requests) /\ results' \in Seq(Outcomes)
    <3>1. Append(filling, r) \in Seq(Requests)
      BY <1>0, <1>1, AppendProperties
    <3>2. Append(results, Outcome(r, FALSE)) \in Seq(Outcomes)
      BY <1>0, <2>5, AppendProperties
    <3>3. QED
      BY <1>0, <2>3, <2>4, <3>1, <3>2
  <2>7. QED
    BY <2>1, <2>2, <2>6 DEF Types, ExecType
<1>5. QED
  BY <1>2, <1>3, <1>4 DEF Types

LEMMA SyncTypes ==
    ASSUME Types, NEW i \in DOMAIN filling, SyncPositions(i)
    PROVE  Types'
<1> DEFINE r == filling[i]
<1>0. filling \in Seq(Requests) /\ results \in Seq(Outcomes)
  BY DEF Types, ExecType
<1>1. r \in Requests /\ r.sym \in Symbols
  BY <1>0, RequestHas
<1>2. OutsideType' /\ ExposureType' /\ ExitType' /\ FlagType' /\ LoopType' /\ ThreadType'
  <2>1. /\ UNCHANGED outside /\ UNCHANGED exposure /\ UNCHANGED exitVars /\ UNCHANGED flags
        /\ UNCHANGED loopVars /\ UNCHANGED threads
    BY DEF SyncPositions
  <2>2. QED
    BY <2>1, Same
<1>3. BookType'
  <2>1. positions' = [positions EXCEPT ![r.sym] = paper[r.sym]]
    BY DEF SyncPositions, Synced
  <2>2. paper' = paper /\ booked' = booked /\ closed' = closed
    BY DEF SyncPositions
  <2> HIDE DEF r
  <2>3. QED
    BY <1>1, <2>1, <2>2 DEF Types, BookType
<1>4. ExecType'
  <2>1. /\ queue' = queue /\ executor' = executor /\ filling' = RemoveAt(filling, i)
        /\ results' = Append(results, Outcome(r, TRUE))
    BY DEF SyncPositions, Report
  <2>2. filling' \in Seq(Requests)
    BY <1>0, <2>1, RemoveTyped
  <2>3. Outcome(r, TRUE) \in Outcomes
    BY <1>1, OutcomeIs
  <2>4. results' \in Seq(Outcomes)
    BY <1>0, <2>1, <2>3, AppendProperties
  <2>5. QED
    BY <2>1, <2>2, <2>4 DEF Types, ExecType
<1>5. QED
  BY <1>2, <1>3, <1>4 DEF Types

LEMMA Submitted ==
    ASSUME Types, NEW t \in Threads, NEW reqs \in Seq(Requests), Submit(t, reqs),
           t # "loop" => Len(reqs) = 1,
           UNCHANGED <<filling, results>>, exits' \in Nat
    PROVE  ExecType' /\ ThreadType'
<1>1. queue' = queue \o reqs /\ executor' \in {"none", "running", "stopped", "restarted"}
  BY DEF Submit, Types, ExecType
<1>2. ExecType'
  BY <1>1, ConcatProperties DEF Types, ExecType
<1>3. "collect" \in Places(t) /\ Goto(t, "collect")
  BY DEF Submit, Places
<1>4. /\ PlaceType'
      /\ pc'[t] = "collect"
      /\ \A u \in Threads : u # t => pc'[u] = pc[u]
  BY <1>3, Went DEF Types, ThreadType
<1>5. /\ batch' \in [Threads -> Seq(Requests)] /\ batch'[t] = reqs
      /\ \A u \in Threads : u # t => batch'[u] = batch[u]
  BY DEF Submit, Types, ThreadType
<1>6. /\ got' \in [Threads -> Seq(Outcomes)] /\ got'[t] = << >>
      /\ \A u \in Threads : u # t => got'[u] = got[u]
  BY DEF Submit, Types, ThreadType
<1>7. Holds(t)'
  BY <1>4, <1>5, <1>6 DEF Holds
<1>8. ASSUME NEW u \in Threads, u # t PROVE Holds(u)'
  BY <1>4, <1>5, <1>6, <1>8 DEF Types, ThreadType, Holds
<1>9. ThreadType'
  BY <1>4, <1>5, <1>6, <1>7, <1>8 DEF ThreadType
<1>10. QED
  BY <1>2, <1>9

LEMMA CollectTypes ==
    ASSUME Types, NEW t \in Threads, Collect(t) \/ CollectTimeout(t)
    PROVE  Types'
<1> DEFINE o == IF Collect(t) THEN Head(results) ELSE Outcome(batch[t][Len(got[t]) + 1], FALSE)
<1>1. /\ At(t, "collect") /\ Len(got[t]) < Len(batch[t])
      /\ UNCHANGED <<pc, batch, exits>>
      /\ UNCHANGED outside /\ UNCHANGED book /\ UNCHANGED exposure /\ UNCHANGED exitVars
      /\ UNCHANGED flags /\ UNCHANGED loopVars
  BY DEF Collect, CollectTimeout
<1>2. /\ results \in Seq(Outcomes) /\ batch[t] \in Seq(Requests)
      /\ got \in [Threads -> Seq(Outcomes)] /\ got[t] \in Seq(Outcomes)
  BY DEF Types, ExecType, ThreadType
<1>3. got' = [got EXCEPT ![t] = Append(@, o)] /\ o \in Outcomes
  <2>1. CASE Collect(t)
    <3>1. results # << >> /\ got' = [got EXCEPT ![t] = Append(@, Head(results))]
      BY <2>1 DEF Collect
    <3>2. Head(results) \in Outcomes
      BY <1>2, <3>1
    <3>3. QED
      BY <2>1, <3>1, <3>2
  <2>2. CASE ~Collect(t)
    <3> DEFINE b == batch[t][Len(got[t]) + 1]
    <3>1. got' = [got EXCEPT ![t] = Append(@, o)]
      BY <2>2 DEF CollectTimeout
    <3>2. b \in Requests
      BY <1>1, <1>2
    <3>3. Outcome(b, FALSE) \in Outcomes
      <4> HIDE DEF b
      <4>1. QED
        BY <3>2, OutcomeIs
    <3>4. QED
      BY <2>2, <3>1, <3>3
  <2>3. QED
    BY <2>1, <2>2
<1> HIDE DEF o
<1>4. ExecType'
  <2>1. UNCHANGED exec \/ (results' = Tail(results) /\ UNCHANGED <<queue, filling, executor>>)
    <3>1. Collect(t) => results' = Tail(results) /\ UNCHANGED <<queue, filling, executor>>
      BY DEF Collect
    <3>2. CollectTimeout(t) => UNCHANGED exec
      BY DEF CollectTimeout
    <3>3. QED
      BY <3>1, <3>2
  <2>2. CASE UNCHANGED exec
    BY <2>2, Same
  <2>3. CASE results' = Tail(results) /\ UNCHANGED <<queue, filling, executor>>
    <3>1. results # << >> \/ UNCHANGED exec
      BY DEF Collect, CollectTimeout
    <3>2. results # << >> => Tail(results) \in Seq(Outcomes)
      BY <1>2
    <3>3. QED
      BY <2>2, <2>3, <3>1, <3>2 DEF Types, ExecType
  <2>4. QED
    BY <2>1, <2>2, <2>3
<1>5. got' \in [Threads -> Seq(Outcomes)]
  <2>1. Append(got[t], o) \in Seq(Outcomes)
    BY <1>2, <1>3, AppendProperties
  <2>2. QED
    BY <1>2, <1>3, <2>1
<1>6. ASSUME NEW u \in Threads PROVE Holds(u)'
  <2>0. Holds(u)
    BY DEF Types, ThreadType
  <2>1. CASE u = t
    <3>1. Len(got'[t]) = Len(got[t]) + 1 /\ Len(got[t]) \in Nat /\ Len(batch[t]) \in Nat
      <4>1. got'[t] = Append(got[t], o)
        BY <1>2, <1>3
      <4>2. QED
        BY <1>2, <1>3, <4>1, AppendProperties
    <3>2. pc'[t] = "collect" /\ batch'[t] = batch[t]
      BY <1>1 DEF At
    <3>3. Len(got'[t]) <= Len(batch'[t])
      BY <1>1, <3>1, <3>2
    <3>4. QED
      BY <1>1, <2>0, <2>1, <3>2, <3>3 DEF Holds
  <2>2. CASE u # t
    <3>1. got'[u] = got[u]
      BY <1>2, <1>3, <2>2
    <3>2. QED
      BY <1>1, <2>0, <3>1 DEF Holds
  <2>3. QED
    BY <2>1, <2>2
<1>7. ThreadType'
  BY <1>1, <1>5, <1>6 DEF Types, ThreadType, PlaceType
<1>8. QED
  BY <1>1, <1>4, <1>7, Same DEF Types

LEMMA JoinTypes ==
    ASSUME Types, NEW t \in Threads, Join(t)
    PROVE  Types'
<1>1. /\ At(t, "collect") /\ Len(got[t]) = Len(batch[t]) /\ Goto(t, "record")
      /\ UNCHANGED <<batch, got, exits>>
      /\ UNCHANGED outside /\ UNCHANGED book /\ UNCHANGED exec /\ UNCHANGED exposure
      /\ UNCHANGED exitVars /\ UNCHANGED flags /\ UNCHANGED loopVars
  BY DEF Join
<1>2. "record" \in Places(t) /\ exits' \in Nat
  BY <1>1 DEF Places, Types, ThreadType
<1>3. pc'[t] = "record"
  BY <1>1, <1>2, Went DEF Types, ThreadType
<1>4. Holds(t)'
  BY <1>1, <1>3 DEF At, Holds, Types, ThreadType
<1>5. ThreadType'
  BY <1>1, <1>2, <1>4, WentOn
<1>6. QED
  BY <1>1, <1>5, Same DEF Types

LEMMA SquareOffTypes ==
    ASSUME Types, SquareOff
    PROVE  /\ positions' \in [Symbols -> Int] /\ cache' \in [Symbols -> Int]
           /\ stop' \in BOOLEAN
           /\ Goto("loop", "ended") /\ "ended" \in Places("loop")
  BY DEF SquareOff, Flat, Places, Types, BookType

LEMMA LoopTopTypes ==
    ASSUME Types, LoopTop
    PROVE  Types'
<1>1. /\ UNCHANGED <<batch, got, exits>> /\ UNCHANGED <<view, ordered>>
      /\ UNCHANGED <<paper, booked, closed>> /\ UNCHANGED <<reserved, sized, confirmed>>
      /\ UNCHANGED <<exitDocs, inflight>> /\ UNCHANGED <<wstop, handoff>>
      /\ UNCHANGED outside /\ UNCHANGED exec
  BY DEF LoopTop
<1>2. \E p \in {"pyramid", "ended", "fetch"} : Goto("loop", p)
  BY DEF LoopTop, SquareOff
<1>3. {"pyramid", "ended", "fetch"} \subseteq Places("loop") /\ exits' \in Nat
  BY <1>1 DEF Places, Types, ThreadType
<1>4. ThreadType'
  BY <1>1, <1>2, <1>3, WentAway, ThreadsAre
<1>5. /\ positions' \in [Symbols -> Int] /\ cache' \in [Symbols -> Int]
      /\ stop' \in BOOLEAN
  BY SquareOffTypes DEF LoopTop, Types, BookType, ExposureType, FlagType
<1>6. exited' \subseteq Symbols /\ active' \subseteq Symbols
  BY DEF LoopTop, Types, ExitType, LoopType, Remaining
<1>7. BookType'
  BY <1>1, <1>5 DEF Types, BookType
<1>8. ExposureType'
  BY <1>1, <1>5 DEF Types, ExposureType
<1>9. ExitType' /\ LoopType'
  BY <1>1, <1>6 DEF Types, ExitType, LoopType
<1>10. FlagType'
  BY <1>1, <1>5 DEF Types, FlagType
<1>11. QED
  BY <1>1, <1>4, <1>7, <1>8, <1>9, <1>10, Same DEF Types

LEMMA LoopFetchTypes ==
    ASSUME Types, LoopFetch
    PROVE  Types'
<1>1. /\ UNCHANGED <<batch, got, exits>> /\ UNCHANGED <<active, ordered>>
      /\ UNCHANGED <<reserved, sized, confirmed>>
      /\ UNCHANGED outside /\ UNCHANGED exec /\ UNCHANGED book /\ UNCHANGED exitVars
      /\ UNCHANGED flags
  BY DEF LoopFetch
<1>2. \E p \in {"top", "ended", "decide"} : Goto("loop", p)
  BY DEF LoopFetch
<1>3. {"top", "ended", "decide"} \subseteq Places("loop") /\ exits' \in Nat
  BY <1>1 DEF Places, Types, ThreadType
<1>4. ThreadType'
  BY <1>1, <1>2, <1>3, WentAway, ThreadsAre
<1>5. view' \in [Symbols -> Int] /\ cache' \in [Symbols -> Int]
  BY DEF LoopFetch, Types, BookType, ExposureType, LoopType
<1>6. ExposureType' /\ LoopType'
  BY <1>1, <1>5 DEF Types, ExposureType, LoopType
<1>7. QED
  BY <1>1, <1>4, <1>6, Same DEF Types

LEMMA LoopRecordedTypes ==
    ASSUME Types, LoopRecorded
    PROVE  Types'
<1>1. /\ UNCHANGED <<batch, got, exits>> /\ Goto("loop", "cycled")
      /\ UNCHANGED outside /\ UNCHANGED exec /\ UNCHANGED book /\ UNCHANGED exitVars
      /\ UNCHANGED flags /\ UNCHANGED exposure /\ UNCHANGED loopVars
  BY DEF LoopRecorded
<1>2. "cycled" \in Places("loop") /\ exits' \in Nat
  BY <1>1 DEF Places, Types, ThreadType
<1>3. ThreadType'
  BY <1>1, <1>2, WentAway, ThreadsAre
<1>4. QED
  BY <1>1, <1>3, Same DEF Types

LEMMA LoopCycledTypes ==
    ASSUME Types, LoopCycled
    PROVE  Types'
<1>1. /\ UNCHANGED <<batch, got, exits>>
      /\ UNCHANGED <<paper, booked, closed>> /\ UNCHANGED <<reserved, sized, confirmed>>
      /\ UNCHANGED <<wstop, handoff>>
      /\ UNCHANGED outside /\ UNCHANGED exec /\ UNCHANGED exitVars /\ UNCHANGED loopVars
  BY DEF LoopCycled
<1>2. \E p \in {"top", "ended"} : Goto("loop", p)
  BY DEF LoopCycled, SquareOff
<1>3. {"top", "ended"} \subseteq Places("loop") /\ exits' \in Nat
  BY <1>1 DEF Places, Types, ThreadType
<1>4. ThreadType'
  BY <1>1, <1>2, <1>3, WentAway, ThreadsAre
<1>5. /\ positions' \in [Symbols -> Int] /\ cache' \in [Symbols -> Int]
      /\ stop' \in BOOLEAN
  BY SquareOffTypes DEF LoopCycled, Types, BookType, ExposureType, FlagType
<1>6. BookType' /\ ExposureType' /\ FlagType'
  BY <1>1, <1>5 DEF Types, BookType, ExposureType, FlagType
<1>7. QED
  BY <1>1, <1>4, <1>6, Same DEF Types

LEMMA CloseTypes ==
    ASSUME Types, NEW s \in Symbols, NEW q \in Nat, NEW n \in Int, Close(s, q, n)
    PROVE  booked' \in [Symbols -> Nat] /\ positions' \in [Symbols -> Int]
<1>1. positions[s] \in Int /\ booked[s] \in Nat
  BY DEF Types, BookType
<1>2. Held(s, n) \in Int
  BY <1>1 DEF Held
<1>3. Size(Held(s, n)) \in Nat
  BY <1>2, SignSize
<1>4. Least(Size(Held(s, n)), q) \in Nat
  BY <1>3 DEF Least
<1>5. booked' = [booked EXCEPT ![s] = @ + Least(Size(Held(s, n)), q)]
  BY DEF Close
<1>6. Sign(positions[s]) * q \in Int
  <2>1. Sign(positions[s]) \in {-1, 0, 1}
    BY <1>1, SignSize
  <2>2. \A x \in {-1, 0, 1} : x * q \in Int
    OBVIOUS
  <2>3. QED
    BY <2>1, <2>2
<1>7. positions' = [positions EXCEPT ![s] = IF @ = 0 THEN 0 ELSE @ - Sign(@) * q]
  BY DEF Close
<1>8. booked' \in [Symbols -> Nat]
  BY <1>1, <1>4, <1>5 DEF Types, BookType
<1>9. positions' \in [Symbols -> Int]
  BY <1>1, <1>6, <1>7 DEF Types, BookType
<1>10. QED
  BY <1>8, <1>9

LEMMA ClearTypes ==
    ASSUME Types, NEW s \in Symbols, Clear(s)
    PROVE  exited' \subseteq Symbols /\ exitDocs' \subseteq Symbols /\ paper' \in [Symbols -> Int]
  BY DEF Clear, Types, BookType, ExitType

LEMMA ReleasedIs ==
    ASSUME Types, NEW s \in Symbols, NEW q \in Nat
    PROVE  Released(s, q) \in [Symbols -> Nat]
  BY DEF Released, Types, ExposureType

\* The signals of one cycle: at most one a symbol, and so finitely many, whatever room there
\* is for them.
Chosen(reqs) ==
    /\ \E roomy : reqs \in SUBSET UNION {Options(s, s \in roomy) : s \in active}
    /\ \A r1, r2 \in reqs : r1.sym = r2.sym => r1 = r2

LEMMA DecideChosen ==
    ASSUME LoopDecide
    PROVE  \E reqs :
             /\ Chosen(reqs)
             /\ IF reqs = {} THEN Goto("loop", "cycled") /\ UNCHANGED <<queue, executor, batch, got>>
                ELSE Submit("loop", SetToSeq(reqs))
<1>1. PICK roomy, reqs :
          /\ reqs \in SUBSET UNION {Options(s, s \in roomy) : s \in active}
          /\ \A r1, r2 \in reqs : r1.sym = r2.sym => r1 = r2
          /\ IF reqs = {} THEN Goto("loop", "cycled") /\ UNCHANGED <<queue, executor, batch, got>>
             ELSE Submit("loop", SetToSeq(reqs))
  BY DEF LoopDecide
<1>2. Chosen(reqs)
  BY <1>1 DEF Chosen
<1>3. QED
  BY <1>1, <1>2

LEMMA ChosenAre ==
    ASSUME Types, NEW reqs, Chosen(reqs)
    PROVE  /\ reqs \subseteq Requests /\ IsFiniteSet(reqs)
           /\ \A r \in reqs : r.sym \in active /\ \E room : r \in Options(r.sym, room)
<1>1. ASSUME NEW r \in reqs
      PROVE  r \in Requests /\ r.sym \in active /\ \E room : r \in Options(r.sym, room)
  <2>1. PICK s \in active, room \in BOOLEAN : r \in Options(s, room)
    <3>1. PICK roomy : reqs \in SUBSET UNION {Options(s, s \in roomy) : s \in active}
      BY DEF Chosen
    <3>2. PICK s \in active : r \in Options(s, s \in roomy)
      BY <3>1
    <3>3. (s \in roomy) \in BOOLEAN
      OBVIOUS
    <3>4. QED
      BY <3>2, <3>3
  <2>2. s \in Symbols
    BY DEF Types, LoopType
  <2>3. r \in Requests /\ r.sym = s
    BY <2>1, <2>2, OptionIs
  <2>4. QED
    BY <2>1, <2>3
<1>2. IsFiniteSet(reqs)
  <2> DEFINE f == [r \in reqs |-> r.sym]
  <2>1. f \in [reqs -> Symbols]
    BY <1>1 DEF Types, LoopType
  <2>2. \A r1, r2 \in reqs : f[r1] = f[r2] => r1 = r2
    BY DEF Chosen
  <2> HIDE DEF f
  <2>3. f \in Injection(reqs, Symbols)
    BY <2>1, <2>2 DEF Injection, IsInjective
  <2>4. QED
    BY <2>3, FS_Injection, PaperAssumption
<1>3. QED
  BY <1>1, <1>2

LEMMA LoopDecideTypes ==
    ASSUME Types, LoopDecide
    PROVE  Types'
<1>1. PICK roomy, reqs, refused :
          /\ reqs \in SUBSET UNION {Options(s, s \in roomy) : s \in active}
          /\ refused \in SUBSET {s \in active : view[s] = 0 /\ s \notin roomy}
          /\ \A r1, r2 \in reqs : r1.sym = r2.sym => r1 = r2
          /\ ordered' = ordered + Cardinality(reqs)
          /\ ordered' <= MaxOrders
          /\ positions' = [s \in Symbols |->
                IF s \in active /\ view[s] = 0 THEN 0 ELSE positions[s]]
          /\ sized' = sized \cup refused \cup {r.sym : r \in {x \in reqs : x.act \in Opens}}
          /\ reserved' = [s \in Symbols |->
                IF \E r \in reqs : r.sym = s /\ r.act \in Opens \cup Expands
                THEN reserved[s] + Lot ELSE reserved[s]]
          /\ IF reqs = {} THEN Goto("loop", "cycled") /\ UNCHANGED <<queue, executor, batch, got>>
             ELSE Submit("loop", SetToSeq(reqs))
  BY DEF LoopDecide
<1>2. Chosen(reqs)
  BY <1>1 DEF Chosen
<1>3. /\ reqs \subseteq Requests /\ IsFiniteSet(reqs)
      /\ \A r \in reqs : r.sym \in active
  BY <1>2, ChosenAre
<1>4. /\ UNCHANGED outside /\ UNCHANGED <<paper, booked, closed>>
      /\ UNCHANGED <<filling, results>> /\ UNCHANGED <<cache, confirmed>>
      /\ UNCHANGED exitVars /\ UNCHANGED flags /\ UNCHANGED <<active, view>> /\ UNCHANGED exits
  BY DEF LoopDecide
<1>5. BookType'
  BY <1>1, <1>4 DEF Types, BookType
<1>6. sized' \subseteq Symbols
  BY <1>1, <1>3 DEF Types, ExposureType, LoopType
<1>7. reserved' \in [Symbols -> Nat]
  <2>1. \A s \in Symbols : reserved[s] \in Nat /\ reserved[s] + Lot \in Nat
    BY PaperAssumption DEF Types, ExposureType
  <2>2. QED
    BY <1>1, <2>1
<1>8. ExposureType'
  BY <1>4, <1>6, <1>7 DEF Types, ExposureType
<1>9. LoopType'
  BY <1>1, <1>3, <1>4, FS_CardinalityType DEF Types, LoopType
<1>10. ExecType' /\ ThreadType'
  <2>0. exits' \in Nat
    BY <1>4 DEF Types, ThreadType
  <2>1. CASE reqs = {}
    <3>1. Goto("loop", "cycled") /\ UNCHANGED <<queue, executor, batch, got>>
      BY <1>1, <2>1
    <3>2. "cycled" \in Places("loop")
      BY DEF Places
    <3>3. ThreadType'
      BY <2>0, <3>1, <3>2, WentAway, ThreadsAre
    <3>4. QED
      BY <1>4, <3>1, <3>3 DEF Types, ExecType
  <2>2. CASE reqs # {}
    <3>1. SetToSeq(reqs) \in Seq(Requests)
      BY <1>3, SetSeqTyped
    <3>2. Submit("loop", SetToSeq(reqs))
      BY <1>1, <2>2
    <3>3. QED
      BY <1>4, <2>0, <3>1, <3>2, Submitted, ThreadsAre
  <2>3. QED
    BY <2>1, <2>2
<1>11. QED
  BY <1>4, <1>5, <1>8, <1>9, <1>10, Same DEF Types

\* The loop has dealt with a result.
LEMMA LoopTook ==
    ASSUME Types, got["loop"] # << >>, got' = [got EXCEPT !["loop"] = Tail(@)],
           PlaceType', pc'["loop"] = "record", UNCHANGED <<batch, exits>>,
           \A u \in Threads : u # "loop" => pc'[u] = pc[u]
    PROVE  ThreadType'
<1>1. got["loop"] \in Seq(Outcomes)
  BY ThreadsAre DEF Types, ThreadType
<1>2. Tail(got["loop"]) \in Seq(Outcomes)
  BY <1>1
<1>3. got' \in [Threads -> Seq(Outcomes)] /\ \A u \in Threads : u # "loop" => got'[u] = got[u]
  BY <1>2, ThreadsAre DEF Types, ThreadType
<1>4. ASSUME NEW u \in Threads PROVE Holds(u)'
  BY <1>3 DEF Types, ThreadType, Holds
<1>5. QED
  BY <1>3, <1>4 DEF Types, ThreadType

LEMMA LoopRecordTypes ==
    ASSUME Types, LoopRecord
    PROVE  Types'
<1> DEFINE res == Head(got["loop"])
           r == Head(got["loop"]).req
<1>0. got["loop"] # << >> /\ got["loop"] \in Seq(Outcomes) /\ At("loop", "record")
  BY ThreadsAre DEF LoopRecord, Types, ThreadType
<1>1. res \in Outcomes
  BY <1>0
<1>2. r \in Requests
  BY <1>1, OutcomeHas
<1>3. r.sym \in Symbols /\ r.qty \in Nat \ {0} /\ r.qty \in Nat /\ r.snap \in Int
  BY <1>2, RequestHas
<1>4. /\ UNCHANGED outside /\ UNCHANGED <<paper, closed>> /\ UNCHANGED exec
      /\ UNCHANGED <<cache, sized>> /\ UNCHANGED exitVars /\ UNCHANGED flags
      /\ UNCHANGED loopVars /\ UNCHANGED <<batch, exits>>
  BY DEF LoopRecord
<1>5. CASE res.ok /\ r.act \in Exits
  <2>1. Close(r.sym, r.qty, r.snap) /\ Goto("loop", "clear") /\ UNCHANGED <<reserved, confirmed, got>>
    BY <1>5 DEF LoopRecord
  <2>2. booked' \in [Symbols -> Nat] /\ positions' \in [Symbols -> Int]
    <3> HIDE DEF r
    <3>1. QED
      BY <1>3, <2>1, CloseTypes
  <2>3. BookType' /\ ExposureType'
    BY <1>4, <2>1, <2>2 DEF Types, BookType, ExposureType
  <2>4. "clear" \in Places("loop") /\ exits' \in Nat /\ PlaceType
    BY <1>4 DEF Places, Types, ThreadType
  <2>5. pc'["loop"] = "clear"
    BY <2>1, <2>4, Went, ThreadsAre
  <2>6. Holds("loop")'
    BY <1>0, <2>1, <2>5 DEF Holds
  <2>7. ThreadType'
    BY <1>4, <2>1, <2>4, <2>6, WentOn, ThreadsAre
  <2>8. QED
    BY <1>4, <2>3, <2>7, Same DEF Types
<1>6. CASE ~(res.ok /\ r.act \in Exits)
  <2>1. /\ confirmed' = [confirmed EXCEPT ![r.sym] =
              IF res.ok /\ r.act \in Opens THEN r.qty ELSE @]
        /\ reserved' = Released(r.sym, r.qty)
        /\ got' = [got EXCEPT !["loop"] = Tail(@)]
        /\ UNCHANGED <<booked, positions, pc>>
    BY <1>6 DEF LoopRecord, Settled
  <2>2. reserved' \in [Symbols -> Nat] /\ confirmed' \in [Symbols -> Nat]
    <3> HIDE DEF r, res
    <3>1. QED
      BY <1>3, <2>1, ReleasedIs DEF Types, ExposureType
  <2>3. BookType' /\ ExposureType'
    BY <1>4, <2>1, <2>2 DEF Types, BookType, ExposureType
  <2>4. PlaceType' /\ pc'["loop"] = "record"
    BY <1>0, <2>1 DEF At, Types, ThreadType, PlaceType
  <2>5. ThreadType'
    BY <1>0, <1>4, <2>1, <2>4, LoopTook
  <2>6. QED
    BY <1>4, <2>3, <2>5, Same DEF Types
<1>7. QED
  BY <1>5, <1>6

LEMMA LoopClearTypes ==
    ASSUME Types, LoopClear
    PROVE  Types'
<1> DEFINE r == Head(got["loop"]).req
<1>0. got["loop"] # << >> /\ got["loop"] \in Seq(Outcomes)
  BY ThreadsAre DEF LoopClear, At, Types, ThreadType, Holds
<1>1. Head(got["loop"]) \in Outcomes
  BY <1>0
<1>2. r \in Requests
  BY <1>1, OutcomeHas
<1>3. r.sym \in Symbols /\ r.qty \in Nat
  BY <1>2, RequestHas
<1>4. /\ UNCHANGED outside /\ UNCHANGED <<positions, booked, closed>> /\ UNCHANGED exec
      /\ UNCHANGED <<cache, sized, confirmed>> /\ UNCHANGED inflight /\ UNCHANGED flags
      /\ UNCHANGED loopVars /\ UNCHANGED <<batch, exits>>
      /\ got' = [got EXCEPT !["loop"] = Tail(@)] /\ Goto("loop", "record")
      /\ Clear(r.sym) /\ reserved' = Released(r.sym, r.qty)
  BY DEF LoopClear
<1> HIDE DEF r
<1>5. /\ exited' \subseteq Symbols /\ exitDocs' \subseteq Symbols /\ paper' \in [Symbols -> Int]
      /\ reserved' \in [Symbols -> Nat]
  BY <1>3, <1>4, ClearTypes, ReleasedIs
<1>6. BookType' /\ ExposureType' /\ ExitType'
  BY <1>4, <1>5 DEF Types, BookType, ExposureType, ExitType
<1>7. "record" \in Places("loop") /\ PlaceType
  BY DEF Places, Types, ThreadType
<1>8. PlaceType' /\ pc'["loop"] = "record" /\ \A u \in Threads : u # "loop" => pc'[u] = pc[u]
  BY <1>4, <1>7, Went, ThreadsAre
<1>9. ThreadType'
  BY <1>0, <1>4, <1>8, LoopTook
<1>10. QED
  BY <1>4, <1>6, <1>9, Same DEF Types

LEMMA TickTypes ==
    ASSUME Types, NEW s \in Symbols, Tick(s)
    PROVE  Types'
<1>1. /\ UNCHANGED outside /\ UNCHANGED book /\ UNCHANGED exec /\ UNCHANGED exposure
      /\ UNCHANGED <<exited, exitDocs>> /\ UNCHANGED flags /\ UNCHANGED loopVars
      /\ UNCHANGED <<batch, got>> /\ inflight' = inflight \cup {s} /\ exits' = exits + 1
      /\ Goto(s, "exit")
  BY DEF Tick
<1>2. ExitType'
  BY <1>1 DEF Types, ExitType
<1>3. "exit" \in Places(s) /\ s \in Threads /\ exits' \in Nat
  BY <1>1, ThreadsAre DEF Places, Types, ThreadType
<1>4. ThreadType'
  BY <1>1, <1>3, WentAway
<1>5. QED
  BY <1>1, <1>2, <1>4, Same DEF Types

LEMMA RmsSubmitTypes ==
    ASSUME Types, NEW s \in Symbols, RmsSubmit(s)
    PROVE  Types'
<1>1. /\ UNCHANGED outside /\ UNCHANGED book /\ UNCHANGED <<filling, results>>
      /\ UNCHANGED <<reserved, sized, confirmed>> /\ UNCHANGED <<exited, exitDocs>>
      /\ UNCHANGED flags /\ UNCHANGED loopVars /\ UNCHANGED exits /\ cache' = paper
  BY DEF RmsSubmit
<1>2. ExposureType'
  BY <1>1 DEF Types, ExposureType, BookType
<1>3. s \in Threads /\ exits' \in Nat /\ s # "loop" /\ s # "monitor"
  BY <1>1, ThreadsAre DEF Types, ThreadType
<1>4. inflight' \subseteq Symbols
  BY DEF RmsSubmit, Unmarked, Types, ExitType
<1>5. ExecType' /\ ThreadType'
  <2>1. CASE paper[s] = 0
    <3>1. Goto(s, "none") /\ UNCHANGED <<queue, executor, batch, got>>
      BY <1>3, <2>1 DEF RmsSubmit, Back
    <3>2. "none" \in Places(s)
      BY <1>3 DEF Places
    <3>3. ThreadType'
      BY <1>3, <3>1, <3>2, WentAway
    <3>4. QED
      BY <1>1, <3>1, <3>3 DEF Types, ExecType
  <2>2. CASE paper[s] # 0
    <3>1. Submit(s, << ExitRequest(s) >>)
      BY <2>2 DEF RmsSubmit
    <3>2. << ExitRequest(s) >> \in Seq(Requests) /\ Len(<< ExitRequest(s) >>) = 1
      BY <2>2, ExitRequestIs
    <3>3. QED
      BY <1>1, <1>3, <3>1, <3>2, Submitted
  <2>3. QED
    BY <2>1, <2>2
<1>6. ExitType'
  BY <1>1, <1>4 DEF Types, ExitType
<1>7. QED
  BY <1>1, <1>2, <1>5, <1>6, Same DEF Types

LEMMA ManualExitTypes ==
    ASSUME Types, NEW s \in Symbols, ManualExit(s)
    PROVE  Types'
<1>1. /\ UNCHANGED outside /\ UNCHANGED book /\ UNCHANGED <<filling, results>>
      /\ UNCHANGED <<reserved, sized, confirmed>> /\ UNCHANGED exitVars
      /\ UNCHANGED flags /\ UNCHANGED loopVars /\ exits' = exits + 1 /\ cache' = paper
  BY DEF ManualExit
<1>2. ExposureType'
  BY <1>1 DEF Types, ExposureType, BookType
<1>3. "monitor" \in Threads /\ exits' \in Nat
  BY <1>1, ThreadsAre DEF Types, ThreadType
<1>5. ExecType' /\ ThreadType'
  <2>1. CASE paper[s] = 0
    <3>1. UNCHANGED <<queue, executor, pc, batch, got>>
      BY <2>1 DEF ManualExit
    <3>2. ThreadType'
      BY <1>3, <3>1 DEF Types, ThreadType, PlaceType, Holds
    <3>3. QED
      BY <1>1, <3>1, <3>2 DEF Types, ExecType
  <2>2. CASE paper[s] # 0
    <3>1. Submit("monitor", << ExitRequest(s) >>)
      BY <2>2 DEF ManualExit
    <3>2. << ExitRequest(s) >> \in Seq(Requests) /\ Len(<< ExitRequest(s) >>) = 1
      BY <2>2, ExitRequestIs
    <3>3. QED
      BY <1>1, <1>3, <3>1, <3>2, Submitted, ThreadsAre
  <2>3. QED
    BY <2>1, <2>2
<1>7. QED
  BY <1>1, <1>2, <1>5, Same DEF Types

\* Where a thread that exits a symbol has come to.
LEMMA ExiterIs ==
    ASSUME Types, NEW t \in Threads, t # "loop"
    PROVE  /\ Back(t) \in Places(t) /\ Back(t) \notin {"collect", "record", "clear"}
           /\ "clear" \in Places(t)
           /\ pc[t] \in {"record", "clear"} =>
                /\ got[t] \in Seq(Outcomes) /\ Len(got[t]) = 1 /\ got[t] # << >>
                /\ Head(got[t]) \in Outcomes /\ got[t] = << Head(got[t]) >>
                /\ batch[t] \in Seq(Requests) /\ Len(batch[t]) = 1
                /\ batch[t][1] \in Requests
<1>1. Back(t) \in Places(t) /\ Back(t) \notin {"collect", "record", "clear"}
      /\ "clear" \in Places(t)
  BY DEF Back, Places
<1>2. ASSUME pc[t] \in {"record", "clear"}
      PROVE  /\ got[t] \in Seq(Outcomes) /\ Len(got[t]) = 1 /\ got[t] # << >>
             /\ Head(got[t]) \in Outcomes /\ got[t] = << Head(got[t]) >>
             /\ batch[t] \in Seq(Requests) /\ Len(batch[t]) = 1
             /\ batch[t][1] \in Requests
  <2>1. /\ got[t] \in Seq(Outcomes) /\ Len(got[t]) = 1
        /\ batch[t] \in Seq(Requests) /\ Len(batch[t]) = 1
    BY <1>2 DEF Types, ThreadType, Holds
  <2>2. QED
    BY <2>1
<1>3. QED
  BY <1>1, <1>2

LEMMA ExitRecordTypes ==
    ASSUME Types, NEW t \in Threads, ExitRecord(t)
    PROVE  Types'
<1> DEFINE res == Head(got[t])
           s == batch[t][1].sym
           n == IF res.req.snap # 0 THEN res.req.snap ELSE batch[t][1].snap
<1>0. t # "loop" /\ pc[t] = "record"
  BY DEF ExitRecord, At
<1>1. res \in Outcomes /\ batch[t][1] \in Requests
  BY <1>0, ExiterIs
<1>2. res.req \in Requests
  BY <1>1, OutcomeHas
<1>3. res.req.qty \in Nat /\ res.req.snap \in Int /\ s \in Symbols /\ batch[t][1].snap \in Int
  BY <1>1, <1>2, RequestHas
<1>4. n \in Int
  BY <1>3
<1>5. /\ UNCHANGED outside /\ UNCHANGED <<paper, closed>> /\ UNCHANGED exec
      /\ UNCHANGED exposure /\ UNCHANGED <<exited, exitDocs>> /\ UNCHANGED flags
      /\ UNCHANGED loopVars /\ UNCHANGED <<batch, got>> /\ UNCHANGED exits
  BY DEF ExitRecord
<1>6. exits' \in Nat /\ inflight' \subseteq Symbols
  BY <1>5 DEF ExitRecord, Unmarked, Types, ThreadType, ExitType
<1>7. CASE res.ok
  <2>1. Close(s, res.req.qty, n) /\ Goto(t, "clear")
    BY <1>7 DEF ExitRecord
  <2>2. booked' \in [Symbols -> Nat] /\ positions' \in [Symbols -> Int]
    <3> HIDE DEF n, s
    <3>1. QED
      BY <1>3, <1>4, <2>1, CloseTypes
  <2>3. pc'[t] = "clear" /\ "clear" \in Places(t)
    BY <1>0, <2>1, ExiterIs, Went DEF Types, ThreadType
  <2>4. Holds(t)'
    BY <1>0, <1>5, <2>3 DEF Holds, Types, ThreadType
  <2>5. ThreadType'
    BY <1>5, <1>6, <2>1, <2>3, <2>4, WentOn
  <2>6. QED
    BY <1>5, <1>6, <2>2, <2>5, Same DEF Types, BookType, ExitType
<1>8. CASE ~res.ok
  <2>1. Goto(t, Back(t)) /\ UNCHANGED <<booked, positions>>
    BY <1>8 DEF ExitRecord
  <2>2. ThreadType'
    BY <1>0, <1>5, <1>6, <2>1, ExiterIs, WentAway
  <2>3. QED
    BY <1>5, <1>6, <2>1, <2>2, Same DEF Types, BookType, ExitType
<1>9. QED
  BY <1>7, <1>8

LEMMA ExitClearTypes ==
    ASSUME Types, NEW t \in Threads, ExitClear(t)
    PROVE  Types'
<1> DEFINE s == batch[t][1].sym
<1>0. t # "loop" /\ pc[t] = "clear"
  BY DEF ExitClear, At
<1>1. s \in Symbols
  BY <1>0, ExiterIs, RequestHas
<1>2. /\ UNCHANGED outside /\ UNCHANGED <<positions, booked, closed>> /\ UNCHANGED exec
      /\ UNCHANGED exposure /\ UNCHANGED flags
      /\ UNCHANGED loopVars /\ UNCHANGED <<batch, got>> /\ UNCHANGED exits
      /\ Clear(s) /\ Goto(t, Back(t))
  BY DEF ExitClear
<1>3. exits' \in Nat /\ inflight' \subseteq Symbols
  BY <1>2 DEF ExitClear, Unmarked, Types, ThreadType, ExitType
<1>4. exited' \subseteq Symbols /\ exitDocs' \subseteq Symbols /\ paper' \in [Symbols -> Int]
  <2> HIDE DEF s
  <2>1. QED
    BY <1>1, <1>2, ClearTypes
<1>5. ThreadType'
  BY <1>0, <1>2, <1>3, ExiterIs, WentAway
<1>6. QED
  BY <1>2, <1>3, <1>4, <1>5, Same DEF Types, BookType, ExitType

LEMMA StopTypes ==
    ASSUME Types, NEW t \in Threads,
           \/ t = "monitor" /\ (MonitorStop \/ MonitorJoin)
           \/ ShutdownPyramid(t) \/ ShutdownHalt(t)
    PROVE  Types'
<1>0. t \in Threads /\ "monitor" \in Threads
  BY ThreadsAre
<1>1. CASE t = "monitor" /\ MonitorStop
  <2>1. /\ Goto("monitor", "joining") \/ Goto("monitor", "ended")
        /\ UNCHANGED outside /\ UNCHANGED book /\ UNCHANGED exec /\ UNCHANGED exposure
        /\ UNCHANGED exitVars /\ UNCHANGED <<wstop, handoff>> /\ UNCHANGED loopVars
        /\ UNCHANGED <<batch, got>> /\ UNCHANGED exits
    BY <1>1 DEF MonitorStop
  <2>2. stop' \in BOOLEAN
    BY <1>1 DEF MonitorStop, Told, Types, FlagType
  <2>3. {"joining", "ended"} \subseteq Places("monitor") /\ exits' \in Nat
    BY <2>1, ThreadsAre DEF Places, Types, ThreadType
  <2>4. ThreadType'
    BY <1>0, <2>1, <2>3, WentAway
  <2>5. QED
    BY <2>1, <2>2, <2>4, Same DEF Types, FlagType
<1>2. CASE t = "monitor" /\ MonitorJoin
  <2>1. /\ Goto("monitor", "pyramid")
        /\ UNCHANGED outside /\ UNCHANGED book /\ UNCHANGED exec /\ UNCHANGED exposure
        /\ UNCHANGED exitVars /\ UNCHANGED flags /\ UNCHANGED loopVars
        /\ UNCHANGED <<batch, got>> /\ UNCHANGED exits
    BY <1>2 DEF MonitorJoin
  <2>2. "pyramid" \in Places("monitor") /\ exits' \in Nat
    BY <2>1, ThreadsAre DEF Places, Types, ThreadType
  <2>3. ThreadType'
    BY <1>0, <2>1, <2>2, WentAway
  <2>4. QED
    BY <2>1, <2>3, Same DEF Types
<1>3. CASE ShutdownPyramid(t)
  <2>1. /\ At(t, "pyramid") /\ Goto(t, "halt") /\ stop' = TRUE /\ handoff' = TRUE
        /\ UNCHANGED outside /\ UNCHANGED book /\ UNCHANGED exec /\ UNCHANGED exposure
        /\ UNCHANGED exitVars /\ UNCHANGED wstop /\ UNCHANGED loopVars
        /\ UNCHANGED <<batch, got>> /\ UNCHANGED exits
    BY <1>3 DEF ShutdownPyramid
  <2>2. "halt" \in Places(t) /\ exits' \in Nat
    BY <2>1 DEF At, Places, Types, ThreadType, PlaceType
  <2>3. ThreadType'
    BY <2>1, <2>2, WentAway
  <2>4. QED
    BY <2>1, <2>3, Same DEF Types, FlagType
<1>4. CASE ShutdownHalt(t)
  <2>1. /\ At(t, "halt") /\ Goto(t, "ended") /\ reserved' = Flat
        /\ executor' \in {"none", "stopped"}
        /\ UNCHANGED outside /\ UNCHANGED book /\ UNCHANGED <<queue, filling, results>>
        /\ UNCHANGED <<cache, sized, confirmed>>
        /\ UNCHANGED exitVars /\ UNCHANGED flags /\ UNCHANGED loopVars
        /\ UNCHANGED <<batch, got>> /\ UNCHANGED exits
    BY <1>4 DEF ShutdownHalt
  <2>2. "ended" \in Places(t) /\ exits' \in Nat
    BY <2>1 DEF At, Places, Types, ThreadType, PlaceType
  <2>3. ThreadType'
    BY <2>1, <2>2, WentAway
  <2>4. ExecType' /\ ExposureType'
    BY <2>1 DEF Types, ExecType, ExposureType, Flat
  <2>5. QED
    BY <2>1, <2>3, <2>4, Same DEF Types
<1>5. QED
  BY <1>1, <1>2, <1>3, <1>4

LEMMA OutsideTypes ==
    ASSUME Types, Outside
    PROVE  Types'
<1>1. CASE WorkerStop
  <2>1. /\ UNCHANGED outside /\ UNCHANGED book /\ UNCHANGED exec /\ UNCHANGED exposure
        /\ UNCHANGED exitVars /\ UNCHANGED handoff /\ UNCHANGED loopVars
        /\ UNCHANGED threads /\ wstop' = TRUE
    BY <1>1 DEF WorkerStop
  <2>2. stop' \in BOOLEAN
    BY <1>1 DEF WorkerStop, Types, FlagType
  <2>3. QED
    BY <2>1, <2>2, Same DEF Types, FlagType
<1>2. CASE ClockTicks
  <2>1. /\ UNCHANGED irregular /\ UNCHANGED book /\ UNCHANGED exec /\ UNCHANGED exposure
        /\ UNCHANGED exitVars /\ UNCHANGED flags /\ UNCHANGED loopVars
        /\ UNCHANGED threads /\ clock' \in {"open", "cutoff", "closed"}
    BY <1>2 DEF ClockTicks, Types, OutsideType
  <2>2. QED
    BY <2>1, Same DEF Types, OutsideType
<1>3. QED
  BY <1>1, <1>2, TickTypes, ManualExitTypes DEF Outside

LEMMA StepTypes ==
    ASSUME Types, [Next]_vars
    PROVE  Types'
<1>1. CASE Worker
  BY <1>1, ExecuteTypes, SyncTypes DEF Worker
<1>2. ASSUME NEW t \in Threads, Thread(t) PROVE Types'
  <2>1. CASE t = "loop" /\ Loop
    BY <2>1, LoopTopTypes, LoopFetchTypes, LoopDecideTypes, LoopRecordTypes, LoopClearTypes,
       LoopRecordedTypes, LoopCycledTypes DEF Loop
  <2>2. QED
    BY <1>2, <2>1, StopTypes, RmsSubmitTypes, CollectTypes, JoinTypes, ExitRecordTypes,
       ExitClearTypes DEF Thread
<1>3. CASE Outside
  BY <1>3, OutsideTypes
<1>4. CASE UNCHANGED vars
  <2>1. /\ UNCHANGED outside /\ UNCHANGED book /\ UNCHANGED exec /\ UNCHANGED exposure
        /\ UNCHANGED exitVars /\ UNCHANGED flags /\ UNCHANGED loopVars /\ UNCHANGED threads
    BY <1>4 DEF vars, outside, book, exec, exposure, exitVars, flags, loopVars, threads
  <2>2. QED
    BY <2>1, Same DEF Types
<1>5. QED
  BY <1>1, <1>2, <1>3, <1>4 DEF Next

LEMMA InitTypes ==
    ASSUME Init
    PROVE  Types
<1>1. OutsideType /\ ExecType /\ ExitType /\ FlagType /\ LoopType
  <2>1. OutsideType
    BY DEF Init, OutsideType
  <2>2. ExecType
    BY DEF Init, ExecType
  <2>3. ExitType
    BY DEF Init, ExitType
  <2>4. FlagType
    BY DEF Init, FlagType
  <2>5. LoopType
    BY DEF Init, LoopType, Flat
  <2>6. QED
    BY <2>1, <2>2, <2>3, <2>4, <2>5
<1>2. BookType
  <2>1. paper \in [Symbols -> Int]
    <3>1. {-Lot, 0, Lot} \subseteq Int /\ {0} \subseteq Int
      BY PaperAssumption
    <3>2. QED
      BY <3>1 DEF Init
  <2>2. QED
    BY <2>1 DEF Init, BookType, Flat
<1>3. ExposureType
  BY DEF Init, ExposureType, Flat
<1>4. PlaceType
  <2>1. pc = [t \in Threads |-> CASE t = "loop" -> "top"
                                  [] t = "monitor" -> "watch"
                                  [] OTHER -> "none"]
    BY DEF Init
  <2>2. QED
    BY <2>1 DEF PlaceType, Places
<1>5. ThreadType
  <2>1. \A t \in Threads : pc[t] \notin {"collect", "record", "clear"}
    BY DEF Init
  <2>2. \A t \in Threads : Holds(t)
    BY <2>1 DEF Holds
  <2>3. QED
    BY <1>4, <2>2 DEF Init, ThreadType
<1>6. QED
  BY <1>1, <1>2, <1>3, <1>5 DEF Types

LEMMA TypesHold == Spec => []Types
<1>1. Init => Types
  BY InitTypes
<1>2. Types /\ [Next]_vars => Types'
  BY StepTypes
<1>3. QED
  BY <1>1, <1>2, PTL DEF Spec

LEMMA TypesAreOK ==
    ASSUME Types
    PROVE  TypeOK
<1>1. ASSUME NEW q \in Seq(Requests) PROVE \A i \in DOMAIN q : IsRequest(q[i])
  BY DEF IsRequest
<1>2. ASSUME NEW q \in Seq(Outcomes) PROVE \A i \in DOMAIN q : IsOutcome(q[i])
  <2>1. ASSUME NEW o \in Outcomes PROVE IsOutcome(o)
    BY DEF Outcomes, IsOutcome
  <2>2. \A i \in DOMAIN q : q[i] \in Outcomes
    OBVIOUS
  <2>3. QED
    BY <2>1, <2>2
<1>3. irregular \in Irregular /\ clock \in {"open", "cutoff", "closed"}
  BY DEF Types, OutsideType
<1>4. /\ \A f \in {paper, positions, cache, view} : f \in [Symbols -> Int]
      /\ \A f \in {booked, closed, reserved, confirmed} : f \in [Symbols -> Nat]
  BY DEF Types, BookType, ExposureType, LoopType
<1>5. /\ \A i \in DOMAIN queue : IsRequest(queue[i])
      /\ \A i \in DOMAIN filling : IsRequest(filling[i])
      /\ \A i \in DOMAIN results : IsOutcome(results[i])
      /\ executor \in {"none", "running", "stopped", "restarted"}
  BY <1>1, <1>2 DEF Types, ExecType
<1>6. \A S \in {sized, exited, exitDocs, inflight, active} : S \subseteq Symbols
  BY DEF Types, ExposureType, ExitType, LoopType
<1>7. stop \in BOOLEAN /\ wstop \in BOOLEAN /\ handoff \in BOOLEAN
  BY DEF Types, FlagType
<1>8. pc \in [Threads -> {"none", "top", "fetch", "decide", "collect", "record", "clear",
                          "cycled", "watch", "exit", "joining", "pyramid", "halt", "ended"}]
  <2>1. \A t \in Threads : pc[t] \in {"none", "top", "fetch", "decide", "collect", "record",
            "clear", "cycled", "watch", "exit", "joining", "pyramid", "halt", "ended"}
    BY DEF Types, ThreadType, PlaceType, Places
  <2>2. pc = [t \in Threads |-> pc[t]]
    BY DEF Types, ThreadType, PlaceType
  <2>3. QED
    BY <2>1, <2>2
<1>9. ASSUME NEW t \in Threads
      PROVE  /\ \A i \in DOMAIN batch[t] : IsRequest(batch[t][i])
             /\ \A i \in DOMAIN got[t] : IsOutcome(got[t][i])
  <2>1. batch[t] \in Seq(Requests) /\ got[t] \in Seq(Outcomes)
    BY DEF Types, ThreadType
  <2>2. QED
    BY <1>1, <1>2, <2>1
<1>10. {ordered, exits} \subseteq Nat
  BY DEF Types, LoopType, ThreadType
<1>11. QED
  BY <1>3, <1>4, <1>5, <1>6, <1>7, <1>8, <1>9, <1>10 DEF TypeOK, IsSeqOf

\* Every variable of the engine has its type, in every run and whatever its irregularities.
THEOREM TypeCorrect == Spec => []TypeOK
<1>1. Types => TypeOK
  BY TypesAreOK
<1>2. QED
  BY <1>1, TypesHold, PTL

-----------------------------------------------------------------------------
(* Exposure                                                                *)

\* The quantity of an order that opens or adds is the lot.
Sound(r) == r.act \in Opens \cup Expands => r.qty = Lot
SoundRequests == {r \in Requests : Sound(r)}
SoundOutcomes == [req : SoundRequests, ok : BOOLEAN]
AllSound == /\ queue \in Seq(SoundRequests) /\ filling \in Seq(SoundRequests)
            /\ results \in Seq(SoundOutcomes)
            /\ batch \in [Threads -> Seq(SoundRequests)]
            /\ got \in [Threads -> Seq(SoundOutcomes)]

\* Only the loop's own cycle has orders queued that are not exits, and when it checks the
\* exposure the cached book does not understate the positions.
OnlyExits == pc["loop"] # "collect" => \A i \in DOMAIN queue : queue[i].act \in Exits
Covered == pc["loop"] = "decide" => \A s \in Symbols : Size(paper[s]) <= Size(cache[s])

ExposureInv == AllSound /\ OnlyExits /\ Covered

LEMMA SoundHas ==
    /\ SoundRequests \subseteq Requests /\ SoundOutcomes \subseteq Outcomes
    /\ \A o \in SoundOutcomes : o.req \in SoundRequests
    /\ \A r \in SoundRequests, b \in BOOLEAN : Outcome(r, b) \in SoundOutcomes
<1>1. SoundRequests \subseteq Requests
  BY DEF SoundRequests
<1>2. SoundOutcomes \subseteq Outcomes
  BY <1>1 DEF SoundOutcomes, Outcomes
<1>3. \A o \in SoundOutcomes : o.req \in SoundRequests
  BY DEF SoundOutcomes
<1>4. \A r \in SoundRequests, b \in BOOLEAN : Outcome(r, b) \in SoundOutcomes
  BY DEF SoundOutcomes, Outcome
<1>5. QED
  BY <1>1, <1>2, <1>3, <1>4

LEMMA ActsDiffer ==
    /\ \A a \in Exits : a \notin Opens \cup Expands \cup Flips
    /\ \A a \in Flips : a \notin Opens \cup Expands
    /\ \A a \in Acts : a \in Opens \cup Expands \/ a \in Flips \/ a \in Exits
  BY DEF Acts, Opens, Expands, Flips, Exits

\* An exit only takes off the book.
LEMMA FilledSize ==
    ASSUME NEW n \in Int, NEW r \in Requests, r.act \in Exits
    PROVE  Size(Filled(n, r)) <= Size(n)
<1>1. r.qty \in Nat /\ r.act \notin Flips
  BY RequestHas, ActsDiffer
<1>2. Filled(n, r) = Shrunk(n, r.qty)
  BY <1>1 DEF Filled
<1>3. QED
  BY <1>1, <1>2, ShrunkIs

\* What the loop may order is sound.
LEMMA OptionSound ==
    ASSUME Types, NEW s \in Symbols, NEW room, NEW r \in Options(s, room)
    PROVE  r \in SoundRequests
<1>1. r \in Requests
  BY OptionIs
<1>2. r = Open(s, Buy) \/ r = Open(s, Sell) \/ r = Expand(s) \/ r = StopLoss(s) \/ r = Flip(s)
  BY DEF Options
<1>3. CASE r = Open(s, Buy) \/ r = Open(s, Sell) \/ r = Expand(s)
  BY <1>1, <1>3 DEF Open, Expand, Request, Sound, SoundRequests
<1>4. CASE r = StopLoss(s) \/ r = Flip(s)
  <2>1. r.act \in Exits \cup Flips
    BY <1>4 DEF StopLoss, Flip, Request, Exits, Flips
  <2>2. QED
    BY <1>1, <2>1, ActsDiffer DEF Sound, SoundRequests
<1>5. QED
  BY <1>2, <1>3, <1>4

LEMMA ExecuteExposure ==
    ASSUME Types, ExposureInv, NEW i \in DOMAIN queue, Execute(i)
    PROVE  ExposureInv'
<1> DEFINE r == queue[i]
           x == queue[i].sym
<1>0. /\ queue \in Seq(SoundRequests) /\ filling \in Seq(SoundRequests)
      /\ results \in Seq(SoundOutcomes) /\ IsSeq(queue)
  BY DEF ExposureInv, AllSound, IsSeq
<1>1. r \in SoundRequests /\ r \in Requests /\ x \in Symbols
  BY <1>0, SoundHas, RequestHas
<1>2. /\ queue' = RemoveAt(queue, i)
      /\ UNCHANGED <<view, cache, confirmed, pc, batch, got>>
  BY DEF Execute, exposure, loopVars, threads
<1>3. \A s \in Symbols : paper[s] \in Int /\ Size(paper[s]) \in Nat
  BY SignSize DEF Types, BookType
<1>4. r.act \in Exits => Size(Filled(paper[x], r)) <= Size(paper[x])
  <2>1. paper[x] \in Int
    BY <1>1, <1>3
  <2> HIDE DEF r, x
  <2>2. QED
    BY <1>1, <2>1, FilledSize
<1>5. /\ \A s \in Symbols : s # x => paper'[s] = paper[s]
      /\ r.act \in Exits => Size(paper'[x]) <= Size(paper[x])
  <2>1. paper' = paper \/ paper' = [paper EXCEPT ![x] = Filled(@, r)]
    BY DEF Execute
  <2>2. CASE paper' = paper
    BY <1>1, <1>3, <2>2
  <2>3. CASE paper' = [paper EXCEPT ![x] = Filled(@, r)]
    <3>1. paper'[x] = Filled(paper[x], r) /\ \A s \in Symbols : s # x => paper'[s] = paper[s]
      BY <1>1, <2>3 DEF Types, BookType
    <3>2. QED
      BY <1>4, <3>1
  <2>4. QED
    BY <2>1, <2>2, <2>3
<1>6. /\ Len(queue) \in Nat /\ DOMAIN queue = 1 .. Len(queue) /\ DOMAIN queue' = 1 .. Len(queue) - 1
      /\ \A j \in 1 .. Len(queue) - 1 : queue'[j] = IF j < i THEN queue[j] ELSE queue[j + 1]
  BY <1>0, <1>2, SeqDomain, RemoveSeq
<1> DEFINE At0(j) == IF j < i THEN j ELSE j + 1
<1>7. \A j \in DOMAIN queue' : At0(j) \in DOMAIN queue \ {i} /\ queue'[j] = queue[At0(j)]
  BY <1>6
<1> HIDE DEF At0
<1>9. AllSound'
  <2>1. queue' \in Seq(SoundRequests)
    BY <1>0, <1>2, RemoveTyped
  <2>2. filling' = filling \/ filling' = Append(filling, r)
    BY DEF Execute
  <2>3. results' = results \/ results' = Append(results, Outcome(r, FALSE))
    BY DEF Execute
  <2>4. Outcome(r, FALSE) \in SoundOutcomes
    BY <1>1, SoundHas
  <2> HIDE DEF r
  <2>5. Append(filling, r) \in Seq(SoundRequests)
    BY <1>0, <1>1, AppendProperties
  <2>6. Append(results, Outcome(r, FALSE)) \in Seq(SoundOutcomes)
    BY <1>0, <2>4, AppendProperties
  <2>7. filling' \in Seq(SoundRequests) /\ results' \in Seq(SoundOutcomes)
    BY <1>0, <2>2, <2>3, <2>5, <2>6
  <2>8. QED
    BY <1>2, <2>1, <2>7 DEF ExposureInv, AllSound
<1>10. OnlyExits'
  BY <1>2, <1>7 DEF ExposureInv, OnlyExits
<1>11. Covered'
  <2> SUFFICES ASSUME pc["loop"] = "decide", NEW s \in Symbols
               PROVE  Size(paper'[s]) <= Size(cache[s])
    BY <1>2 DEF Covered
  <2>1. r.act \in Exits
    BY DEF ExposureInv, OnlyExits
  <2>2. Size(paper[s]) <= Size(cache[s])
    BY DEF ExposureInv, Covered
  <2>3. Size(paper'[s]) <= Size(paper[s])
    <3>1. CASE s = x
      BY <1>5, <2>1, <3>1
    <3>2. CASE s # x
      BY <1>3, <1>5, <3>2
    <3>3. QED
      BY <3>1, <3>2
  <2>4. paper'[s] \in Int /\ cache[s] \in Int
    BY ExecuteTypes DEF Types, BookType, ExposureType
  <2>5. Size(paper'[s]) \in Nat /\ Size(cache[s]) \in Nat
    BY <2>4, SignSize
  <2>6. QED
    BY <1>3, <2>2, <2>3, <2>5
<1>12. QED
  BY <1>9, <1>10, <1>11 DEF ExposureInv

LEMMA SyncExposure ==
    ASSUME Types, ExposureInv, NEW i \in DOMAIN filling, SyncPositions(i)
    PROVE  ExposureInv'
<1> DEFINE r == filling[i]
<1>0. filling \in Seq(SoundRequests) /\ results \in Seq(SoundOutcomes)
  BY DEF ExposureInv, AllSound
<1>1. /\ filling' = RemoveAt(filling, i) /\ results' = Append(results, Outcome(r, TRUE))
      /\ UNCHANGED <<paper, queue, view, cache, confirmed, pc, batch, got>>
  BY DEF SyncPositions, Report, exposure, loopVars, threads
<1>2. filling' \in Seq(SoundRequests)
  BY <1>0, <1>1, RemoveTyped
<1>3. Outcome(r, TRUE) \in SoundOutcomes
  <2>1. r \in SoundRequests
    BY <1>0
  <2> HIDE DEF r
  <2>2. QED
    BY <2>1, SoundHas
<1>4. results' \in Seq(SoundOutcomes)
  BY <1>0, <1>1, <1>3, AppendProperties
<1>5. AllSound'
  BY <1>1, <1>2, <1>4 DEF ExposureInv, AllSound
<1>6. OnlyExits' /\ Covered'
  BY <1>1 DEF ExposureInv, OnlyExits, Covered
<1>7. QED
  BY <1>5, <1>6 DEF ExposureInv

LEMMA CollectExposure ==
    ASSUME Types, ExposureInv, NEW t \in Threads, Collect(t) \/ CollectTimeout(t)
    PROVE  ExposureInv'
<1>0. /\ results \in Seq(SoundOutcomes) /\ batch[t] \in Seq(SoundRequests)
      /\ got \in [Threads -> Seq(SoundOutcomes)] /\ got[t] \in Seq(SoundOutcomes)
  BY DEF ExposureInv, AllSound
<1>1. UNCHANGED <<paper, queue, filling, view, cache, confirmed, pc, batch>>
  BY DEF Collect, CollectTimeout, exposure, loopVars, book, exec
<1>2. /\ \E o \in SoundOutcomes : got' = [got EXCEPT ![t] = Append(@, o)]
      /\ results' \in Seq(SoundOutcomes)
  <2>1. CASE Collect(t)
    <3>1. /\ results # << >> /\ got' = [got EXCEPT ![t] = Append(@, Head(results))]
          /\ results' = Tail(results)
      BY <2>1 DEF Collect
    <3>2. Head(results) \in SoundOutcomes /\ Tail(results) \in Seq(SoundOutcomes)
      BY <1>0, <3>1
    <3>3. QED
      BY <3>1, <3>2
  <2>2. CASE CollectTimeout(t)
    <3> DEFINE b == batch[t][Len(got[t]) + 1]
    <3>1. /\ got' = [got EXCEPT ![t] = Append(@, Outcome(b, FALSE))] /\ results' = results
          /\ Len(got[t]) < Len(batch[t])
      BY <2>2 DEF CollectTimeout, exec
    <3>2. b \in SoundRequests
      BY <1>0, <3>1
    <3>3. Outcome(b, FALSE) \in SoundOutcomes
      <4> HIDE DEF b
      <4>1. QED
        BY <3>2, SoundHas
    <3>4. QED
      BY <1>0, <3>1, <3>3
  <2>3. QED
    BY <2>1, <2>2
<1>3. PICK o \in SoundOutcomes : got' = [got EXCEPT ![t] = Append(@, o)]
  BY <1>2
<1>4. Append(got[t], o) \in Seq(SoundOutcomes)
  BY <1>0, AppendProperties
<1>5. got' \in [Threads -> Seq(SoundOutcomes)]
  BY <1>0, <1>3, <1>4
<1>6. AllSound'
  BY <1>1, <1>2, <1>5 DEF ExposureInv, AllSound
<1>7. OnlyExits' /\ Covered'
  BY <1>1 DEF ExposureInv, OnlyExits, Covered
<1>8. QED
  BY <1>6, <1>7 DEF ExposureInv

\* An exit order queues nothing that adds to a position.
LEMMA ExitExposure ==
    ASSUME Types, ExposureInv, NEW t \in Exiters, NEW s \in Symbols, paper[s] # 0,
           Submit(t, << ExitRequest(s) >>), cache' = paper,
           UNCHANGED <<filling, results, paper, view, confirmed>>
    PROVE  ExposureInv'
<1> DEFINE r == ExitRequest(s)
<1>0. t # "loop" /\ t \in Threads /\ "loop" \in Threads
  BY ThreadsAre DEF Exiters
<1>1. r \in Requests /\ r.act \in Exits
  BY ExitRequestIs
<1>2. r \in SoundRequests
  BY <1>1, ActsDiffer DEF Sound, SoundRequests
<1>3. /\ queue' = queue \o << r >> /\ batch' = [batch EXCEPT ![t] = << r >>]
      /\ got' = [got EXCEPT ![t] = << >>] /\ Goto(t, "collect")
  BY DEF Submit
<1> HIDE DEF r
<1>4. queue \in Seq(SoundRequests) /\ << r >> \in Seq(SoundRequests)
  BY <1>2 DEF ExposureInv, AllSound
<1>5. queue' \in Seq(SoundRequests)
  BY <1>3, <1>4, ConcatProperties
<1>6. AllSound'
  <2>0. batch \in [Threads -> Seq(SoundRequests)] /\ got \in [Threads -> Seq(SoundOutcomes)]
    BY DEF ExposureInv, AllSound
  <2>1. batch' \in [Threads -> Seq(SoundRequests)]
    BY <1>3, <1>4, <2>0
  <2>2. got' \in [Threads -> Seq(SoundOutcomes)]
    <3>1. << >> \in Seq(SoundOutcomes)
      OBVIOUS
    <3>2. QED
      BY <1>3, <2>0, <3>1
  <2>3. QED
    BY <1>5, <2>1, <2>2 DEF ExposureInv, AllSound
<1>7. pc'["loop"] = pc["loop"]
  BY <1>0, <1>3, Went DEF Goto, Types, ThreadType, PlaceType
<1>8. ASSUME NEW i \in DOMAIN queue', queue'[i].act \notin Exits
      PROVE  i \in DOMAIN queue /\ queue'[i] = queue[i]
  <2>1. IsSeq(queue) /\ IsSeq(<< r >>) /\ \A j \in DOMAIN << r >> : << r >>[j] = r
    BY <1>4, SingletonSeq DEF IsSeq
  <2>2. i \notin DOMAIN queue => queue'[i] = r
    BY <1>3, <2>1, ConcatSeq
  <2>3. i \in DOMAIN queue
    BY <1>1, <1>8, <2>2
  <2>4. QED
    BY <1>3, <2>1, <2>3, ConcatSeq
<1>9. OnlyExits'
  BY <1>7, <1>8 DEF ExposureInv, OnlyExits
<1>10. Covered'
  <2>1. \A u \in Symbols : Size(paper[u]) \in Nat
    BY SignSize DEF Types, BookType
  <2>2. QED
    BY <2>1 DEF Covered
<1>11. QED
  BY <1>6, <1>9, <1>10 DEF ExposureInv

LEMMA DecideExposure ==
    ASSUME Types, ExposureInv, LoopDecide
    PROVE  ExposureInv'
<1>0. /\ pc["loop"] = "decide" /\ "loop" \in Threads
      /\ UNCHANGED <<paper, filling, results, cache, confirmed, view>>
  BY ThreadsAre DEF LoopDecide, At
<1>1. PICK reqs : /\ Chosen(reqs)
                  /\ IF reqs = {} THEN Goto("loop", "cycled") /\ UNCHANGED <<queue, executor, batch, got>>
                     ELSE Submit("loop", SetToSeq(reqs))
  BY DecideChosen
<1>3. CASE reqs = {}
  <2>1. Goto("loop", "cycled") /\ UNCHANGED <<queue, batch, got>>
    BY <1>1, <1>3
  <2>2. pc'["loop"] = "cycled"
    BY <1>0, <2>1 DEF Goto, Types, ThreadType, PlaceType
  <2>3. AllSound' /\ OnlyExits'
    BY <1>0, <2>1 DEF ExposureInv, AllSound, OnlyExits
  <2>4. Covered'
    BY <2>2 DEF Covered
  <2>5. QED
    BY <2>3, <2>4 DEF ExposureInv
<1>4. CASE reqs # {}
  <2> DEFINE q == SetToSeq(reqs)
  <2>1. /\ queue' = queue \o q /\ batch' = [batch EXCEPT !["loop"] = q]
        /\ got' = [got EXCEPT !["loop"] = << >>] /\ Goto("loop", "collect")
    BY <1>1, <1>4 DEF Submit
  <2>2. pc'["loop"] = "collect"
    BY <1>0, <2>1 DEF Goto, Types, ThreadType, PlaceType
  <2>3. /\ reqs \subseteq Requests /\ IsFiniteSet(reqs)
        /\ \A r \in reqs : r.sym \in Symbols /\ \E room : r \in Options(r.sym, room)
    BY <1>1, ChosenAre DEF Types, LoopType
  <2>4. \A r \in reqs : r \in SoundRequests
    BY <2>3, OptionSound
  <2>6. q \in Seq(SoundRequests)
    BY <2>3, <2>4, SetSeqTyped
  <2> HIDE DEF q
  <2>7. queue \in Seq(SoundRequests) /\ IsSeq(queue)
    BY DEF ExposureInv, AllSound, IsSeq
  <2>8. queue' \in Seq(SoundRequests)
    BY <2>1, <2>6, <2>7, ConcatProperties
  <2>9. AllSound'
    BY <1>0, <2>1, <2>6, <2>8 DEF ExposureInv, AllSound
  <2>10. OnlyExits' /\ Covered'
    BY <2>2 DEF OnlyExits, Covered
  <2>11. QED
    BY <2>9, <2>10 DEF ExposureInv
<1>5. QED
  BY <1>3, <1>4

\* The other steps: they queue nothing and positions only go away.
Resting ==
    /\ UNCHANGED <<queue, filling, results, batch>>
    /\ got' = got \/ (got["loop"] # << >> /\ got' = [got EXCEPT !["loop"] = Tail(@)])
    /\ \A s \in Symbols : paper'[s] = paper[s] \/ paper'[s] = 0
    /\ pc["loop"] = "collect" => pc'["loop"] = "collect" \/ queue = << >>
    /\ pc'["loop"] = "decide" =>
            paper' = cache' \/ (pc["loop"] = "decide" /\ cache' = cache)

LEMMA RestingExposure ==
    ASSUME Types, Types', ExposureInv, Resting
    PROVE  ExposureInv'
<1>0. "loop" \in Threads
  BY ThreadsAre
<1>1. AllSound'
  <2>1. got' \in [Threads -> Seq(SoundOutcomes)]
    <3>1. CASE got' = got
      BY <3>1 DEF ExposureInv, AllSound
    <3>2. CASE got["loop"] # << >> /\ got' = [got EXCEPT !["loop"] = Tail(@)]
      <4>1. got["loop"] \in Seq(SoundOutcomes) /\ got \in [Threads -> Seq(SoundOutcomes)]
        BY <1>0 DEF ExposureInv, AllSound
      <4>2. Tail(got["loop"]) \in Seq(SoundOutcomes)
        BY <3>2, <4>1
      <4>3. QED
        BY <3>2, <4>1, <4>2
    <3>3. QED
      BY <3>1, <3>2 DEF Resting
  <2>2. QED
    BY <2>1 DEF ExposureInv, AllSound, Resting
<1>2. \A s \in Symbols : /\ Size(paper[s]) \in Nat /\ Size(paper'[s]) \in Nat
                         /\ Size(paper'[s]) <= Size(paper[s])
                         /\ Size(cache[s]) \in Nat /\ Size(cache'[s]) \in Nat
  <2> TAKE s \in Symbols
  <2>1. /\ paper[s] \in Int /\ paper'[s] \in Int /\ cache[s] \in Int /\ cache'[s] \in Int
    BY DEF Types, BookType, ExposureType
  <2>2. paper'[s] = paper[s] \/ Size(paper'[s]) = 0
    BY <2>1, SignSize DEF Resting
  <2>3. QED
    BY <2>1, <2>2, SignSize
<1>4. OnlyExits'
  BY DEF ExposureInv, OnlyExits, Resting
<1>7. Covered'
  <2> SUFFICES ASSUME pc'["loop"] = "decide", NEW s \in Symbols
               PROVE  Size(paper'[s]) <= Size(cache'[s])
    BY DEF Covered
  <2>1. CASE paper' = cache'
    BY <1>2, <2>1
  <2>2. CASE pc["loop"] = "decide" /\ cache' = cache
    BY <1>2, <2>2 DEF ExposureInv, Covered
  <2>3. QED
    BY <2>1, <2>2 DEF Resting
<1>8. QED
  BY <1>1, <1>4, <1>7 DEF ExposureInv

LEMMA PlaceOfLoop ==
    ASSUME Types, NEW t \in Threads, NEW p, Goto(t, p)
    PROVE  /\ t = "loop" => pc'["loop"] = p
           /\ t # "loop" => pc'["loop"] = pc["loop"]
           /\ pc'[t] = p
           /\ \A u \in Threads : u # t => pc'[u] = pc[u]
  BY ThreadsAre DEF Goto, Types, ThreadType, PlaceType

LEMMA ClearRests ==
    ASSUME Types, NEW s \in Symbols, Clear(s)
    PROVE  \A u \in Symbols : paper'[u] = paper[u] \/ paper'[u] = 0
  BY DEF Clear, Types, BookType

LEMMA LoopRests ==
    ASSUME Types, ExposureInv,
           LoopTop \/ LoopFetch \/ LoopRecord \/ LoopClear \/ LoopRecorded \/ LoopCycled
    PROVE  Resting
<1>0. "loop" \in Threads
  BY ThreadsAre
<1>1. CASE LoopTop
  <2>1. \E p \in {"pyramid", "ended", "fetch"} : Goto("loop", p)
    BY <1>1 DEF LoopTop, SquareOff
  <2>2. pc["loop"] = "top" /\ pc'["loop"] \in {"pyramid", "ended", "fetch"}
    BY <1>0, <1>1, <2>1, PlaceOfLoop DEF LoopTop, At
  <2>3. UNCHANGED <<queue, filling, results, batch, got, paper, confirmed, view>>
    BY <1>1 DEF LoopTop, exec
  <2>4. QED
    BY <2>2, <2>3 DEF Resting
<1>2. CASE LoopFetch
  <2>1. /\ UNCHANGED <<queue, filling, results, batch, got, paper, confirmed>>
        /\ pc["loop"] = "fetch"
    BY <1>2 DEF LoopFetch, exec, book, At
  <2>2. \/ view' = view /\ (Goto("loop", "ended") \/ Goto("loop", "top"))
        \/ view' = paper /\ cache' = paper /\ Goto("loop", "decide")
    BY <1>2 DEF LoopFetch
  <2>3. \/ view' = view /\ pc'["loop"] \in {"ended", "top"}
        \/ view' = paper /\ cache' = paper
    BY <1>0, <2>2, PlaceOfLoop
  <2>4. QED
    BY <2>1, <2>3 DEF Resting
<1>3. CASE LoopRecord
  <2> DEFINE res == Head(got["loop"])
             r == Head(got["loop"]).req
  <2>1. /\ UNCHANGED <<queue, filling, results, batch, paper, view>>
        /\ pc["loop"] = "record" /\ got["loop"] # << >>
    BY <1>3 DEF LoopRecord, exec, loopVars, At
  <2>2. CASE res.ok /\ r.act \in Exits
    <3>1. UNCHANGED <<got, confirmed>> /\ Goto("loop", "clear")
      BY <1>3, <2>2 DEF LoopRecord
    <3>2. pc'["loop"] = "clear"
      BY <1>0, <3>1, PlaceOfLoop
    <3>3. QED
      BY <2>1, <3>1, <3>2 DEF Resting
  <2>3. CASE ~(res.ok /\ r.act \in Exits)
    <3>1. got' = [got EXCEPT !["loop"] = Tail(@)] /\ pc' = pc
      BY <1>3, <2>3 DEF LoopRecord
    <3>2. QED
      BY <2>1, <3>1 DEF Resting
  <2>4. QED
    BY <2>2, <2>3
<1>4. CASE LoopClear
  <2> DEFINE r == Head(got["loop"]).req
  <2>1. /\ UNCHANGED <<queue, filling, results, batch, confirmed, view>>
        /\ got' = [got EXCEPT !["loop"] = Tail(@)] /\ Goto("loop", "record")
        /\ pc["loop"] = "clear" /\ Clear(r.sym)
    BY <1>4 DEF LoopClear, exec, loopVars, At
  <2>2. got["loop"] # << >> /\ got["loop"] \in Seq(Outcomes)
    BY <1>0, <2>1 DEF Types, ThreadType, Holds
  <2>3. Head(got["loop"]) \in Outcomes
    BY <2>2
  <2>4. r.sym \in Symbols
    BY <2>3, OutcomeHas, RequestHas
  <2>5. pc'["loop"] = "record"
    BY <1>0, <2>1, PlaceOfLoop
  <2> HIDE DEF r
  <2>6. QED
    BY <2>1, <2>2, <2>4, <2>5, ClearRests DEF Resting
<1>5. CASE LoopRecorded
  <2>1. /\ UNCHANGED <<queue, filling, results, batch, got, paper, confirmed, view>>
        /\ pc["loop"] = "record" /\ Goto("loop", "cycled")
    BY <1>5 DEF LoopRecorded, exec, book, exposure, loopVars, At
  <2>2. pc'["loop"] = "cycled"
    BY <1>0, <2>1, PlaceOfLoop
  <2>3. QED
    BY <2>1, <2>2 DEF Resting
<1>6. CASE LoopCycled
  <2>1. /\ UNCHANGED <<queue, filling, results, batch, got, paper, confirmed, view>>
        /\ pc["loop"] = "cycled"
    BY <1>6 DEF LoopCycled, exec, loopVars, At
  <2>2. \E p \in {"top", "ended"} : Goto("loop", p)
    BY <1>6 DEF LoopCycled, SquareOff
  <2>3. pc'["loop"] \in {"top", "ended"}
    BY <1>0, <2>2, PlaceOfLoop
  <2>4. QED
    BY <2>1, <2>3 DEF Resting
<1>7. QED
  BY <1>1, <1>2, <1>3, <1>4, <1>5, <1>6

\* A step that leaves the orders and the book alone, and goes neither to nor from a wait of
\* the loop.
LEMMA StillRests ==
    ASSUME UNCHANGED <<queue, filling, results, batch, got, paper, confirmed, view>>,
           cache' = cache \/ cache' = paper,
           \/ pc'["loop"] = pc["loop"]
           \/ pc["loop"] = "collect" /\ queue = << >> /\ pc'["loop"] # "decide"
           \/ pc["loop"] # "collect" /\ pc'["loop"] # "decide"
    PROVE  Resting
  BY DEF Resting

LEMMA ThreadRests ==
    ASSUME Types, NEW t \in Threads,
           \/ t = "monitor" /\ (MonitorStop \/ MonitorJoin)
           \/ t \in Symbols /\ RmsSubmit(t) /\ paper[t] = 0
           \/ Join(t) \/ ExitRecord(t) \/ ExitClear(t) \/ ShutdownPyramid(t) \/ ShutdownHalt(t)
    PROVE  Resting
<1>0. "loop" \in Threads /\ "monitor" \in Threads /\ "monitor" # "loop" /\ "loop" \notin Symbols
  BY ThreadsAre
<1>1. CASE t = "monitor" /\ MonitorStop
  <2>1. /\ UNCHANGED <<queue, filling, results, batch, got, paper, confirmed, view, cache>>
        /\ \E p \in {"joining", "ended"} : Goto("monitor", p)
    BY <1>1 DEF MonitorStop, exec, book, exposure, loopVars
  <2>2. pc'["loop"] = pc["loop"]
    BY <1>0, <2>1, PlaceOfLoop
  <2>3. QED
    BY <2>1, <2>2, StillRests
<1>2. CASE t = "monitor" /\ MonitorJoin
  <2>1. /\ UNCHANGED <<queue, filling, results, batch, got, paper, confirmed, view, cache>>
        /\ Goto("monitor", "pyramid")
    BY <1>2 DEF MonitorJoin, exec, book, exposure, loopVars
  <2>2. pc'["loop"] = pc["loop"]
    BY <1>0, <2>1, PlaceOfLoop
  <2>3. QED
    BY <2>1, <2>2, StillRests
<1>3. CASE t \in Symbols /\ RmsSubmit(t) /\ paper[t] = 0
  <2>1. /\ UNCHANGED <<queue, filling, results, batch, got, paper, confirmed, view>>
        /\ cache' = paper /\ Goto(t, Back(t))
    BY <1>3 DEF RmsSubmit, book, loopVars
  <2>2. pc'["loop"] = pc["loop"]
    BY <1>0, <1>3, <2>1, PlaceOfLoop
  <2>3. QED
    BY <2>1, <2>2, StillRests
<1>4. CASE Join(t)
  <2>1. /\ UNCHANGED <<queue, filling, results, batch, got, paper, confirmed, view, cache>>
        /\ Goto(t, "record") /\ queue = << >> /\ pc[t] = "collect"
    BY <1>4 DEF Join, exec, book, exposure, loopVars, At
  <2>2. pc'["loop"] = pc["loop"] \/ (pc["loop"] = "collect" /\ pc'["loop"] = "record")
    BY <1>0, <2>1, PlaceOfLoop
  <2>3. QED
    BY <2>1, <2>2, StillRests
<1>5. CASE ExitRecord(t)
  <2>1. /\ UNCHANGED <<queue, filling, results, batch, got, paper, confirmed, view, cache>>
        /\ \E p : Goto(t, p) /\ t # "loop"
    BY <1>5 DEF ExitRecord, exec, exposure, loopVars
  <2>2. pc'["loop"] = pc["loop"]
    BY <1>0, <2>1, PlaceOfLoop
  <2>3. QED
    BY <2>1, <2>2, StillRests
<1>6. CASE ExitClear(t)
  <2>1. /\ UNCHANGED <<queue, filling, results, batch, got, confirmed, view, cache>>
        /\ Goto(t, Back(t)) /\ t # "loop" /\ pc[t] = "clear" /\ Clear(batch[t][1].sym)
    BY <1>6 DEF ExitClear, exec, exposure, loopVars, At
  <2>2. pc'["loop"] = pc["loop"]
    BY <1>0, <2>1, PlaceOfLoop
  <2>3. batch[t][1].sym \in Symbols
    BY <2>1, ExiterIs, RequestHas
  <2>4. \A u \in Symbols : paper'[u] = paper[u] \/ paper'[u] = 0
    BY <2>1, <2>3, ClearRests
  <2>5. pc["loop"] = "decide" => cache' = cache
    BY <2>1
  <2>6. QED
    BY <2>1, <2>2, <2>4 DEF Resting
<1>7. CASE ShutdownPyramid(t)
  <2>1. /\ UNCHANGED <<queue, filling, results, batch, got, paper, confirmed, view, cache>>
        /\ Goto(t, "halt") /\ pc[t] = "pyramid"
    BY <1>7 DEF ShutdownPyramid, exec, book, exposure, loopVars, At
  <2>2. pc'["loop"] = pc["loop"] \/ (pc["loop"] = "pyramid" /\ pc'["loop"] = "halt")
    BY <1>0, <2>1, PlaceOfLoop
  <2>3. QED
    BY <2>1, <2>2, StillRests
<1>8. CASE ShutdownHalt(t)
  <2>1. /\ UNCHANGED <<queue, filling, results, batch, got, paper, confirmed, view, cache>>
        /\ Goto(t, "ended") /\ pc[t] = "halt"
    BY <1>8 DEF ShutdownHalt, book, loopVars, At
  <2>2. pc'["loop"] = pc["loop"] \/ (pc["loop"] = "halt" /\ pc'["loop"] = "ended")
    BY <1>0, <2>1, PlaceOfLoop
  <2>3. QED
    BY <2>1, <2>2, StillRests
<1>9. QED
  BY <1>1, <1>2, <1>3, <1>4, <1>5, <1>6, <1>7, <1>8

LEMMA OutsideRests ==
    ASSUME Types,
           \/ \E s \in Symbols : Tick(s) \/ (ManualExit(s) /\ paper[s] = 0)
           \/ WorkerStop \/ ClockTicks \/ UNCHANGED vars
    PROVE  Resting
<1>0. "loop" \in Threads /\ "loop" \notin Symbols /\ Symbols \subseteq Threads
  BY ThreadsAre
<1>1. ASSUME NEW s \in Symbols, Tick(s) PROVE Resting
  <2>1. /\ UNCHANGED <<queue, filling, results, batch, got, paper, confirmed, view, cache>>
        /\ Goto(s, "exit")
    BY <1>1 DEF Tick, exec, book, exposure, loopVars
  <2>2. pc'["loop"] = pc["loop"]
    BY <1>0, <2>1, PlaceOfLoop
  <2>3. QED
    BY <2>1, <2>2, StillRests
<1>2. ASSUME NEW s \in Symbols, ManualExit(s), paper[s] = 0 PROVE Resting
  <2>1. /\ UNCHANGED <<queue, filling, results, batch, got, paper, confirmed, view, pc>>
        /\ cache' = paper
    BY <1>2 DEF ManualExit, book, loopVars
  <2>2. QED
    BY <2>1, StillRests
<1>3. CASE WorkerStop \/ ClockTicks \/ UNCHANGED vars
  <2>1. UNCHANGED <<queue, filling, results, batch, got, paper, confirmed, view, cache, pc>>
    BY <1>3 DEF WorkerStop, ClockTicks, vars, exec, book, exposure, loopVars, threads
  <2>2. QED
    BY <2>1, StillRests
<1>4. QED
  BY <1>1, <1>2, <1>3

LEMMA StepExposure ==
    ASSUME Types, ExposureInv, [Next]_vars
    PROVE  ExposureInv'
<1>0. Types'
  BY StepTypes
<1>1. CASE Worker
  BY <1>1, ExecuteExposure, SyncExposure DEF Worker
<1>2. ASSUME NEW t \in Threads, Thread(t) PROVE ExposureInv'
  <2>1. CASE t = "loop" /\ Loop
    BY <1>0, <2>1, LoopRests, RestingExposure, DecideExposure DEF Loop
  <2>2. CASE t \in Symbols /\ RmsSubmit(t) /\ paper[t] # 0
    <3>1. Submit(t, << ExitRequest(t) >>) /\ cache' = paper
          /\ UNCHANGED <<filling, results, paper, view, confirmed>>
      BY <2>2 DEF RmsSubmit, book, loopVars
    <3>2. t \in Exiters
      BY <2>2 DEF Exiters
    <3>3. QED
      BY <2>2, <3>1, <3>2, ExitExposure
  <2>3. QED
    BY <1>0, <1>2, <2>1, <2>2, ThreadRests, RestingExposure, CollectExposure DEF Thread
<1>3. CASE Outside
  <2>1. ASSUME NEW s \in Symbols, ManualExit(s), paper[s] # 0 PROVE ExposureInv'
    <3>1. Submit("monitor", << ExitRequest(s) >>) /\ cache' = paper
          /\ UNCHANGED <<filling, results, paper, view, confirmed>>
      BY <2>1 DEF ManualExit, book, loopVars
    <3>2. "monitor" \in Exiters
      BY DEF Exiters
    <3>3. QED
      BY <2>1, <3>1, <3>2, ExitExposure
  <2>2. QED
    BY <1>0, <1>3, <2>1, OutsideRests, RestingExposure DEF Outside
<1>4. CASE UNCHANGED vars
  BY <1>0, <1>4, OutsideRests, RestingExposure
<1>5. QED
  BY <1>1, <1>2, <1>3, <1>4 DEF Next

LEMMA InitExposure ==
    ASSUME Init
    PROVE  ExposureInv
<1>1. AllSound
  BY DEF Init, AllSound
<1>2. OnlyExits
  BY DEF Init, OnlyExits
<1>3. Covered
  BY ThreadsAre DEF Init, Covered
<1>4. QED
  BY <1>1, <1>2, <1>3 DEF ExposureInv

\* Whenever the loop checks the exposure, the cached book it reads holds at least the shares
\* of every symbol that the book holds, and no order but exits is queued: not when exits and
\* cycles overlap, not when a caller takes another's result or makes up a failure for an order
\* that is filled later.
THEOREM CheckCovers == Spec => []CheckCoversBook
<1>1. Init => Types /\ ExposureInv
  BY InitTypes, InitExposure
<1>2. Types /\ ExposureInv /\ [Next]_vars => Types' /\ ExposureInv'
  BY StepTypes, StepExposure
<1>3. ExposureInv => CheckCoversBook
  BY DEF ExposureInv, OnlyExits, Covered, CheckCoversBook, At
<1>4. QED
  BY <1>1, <1>2, <1>3, PTL DEF Spec

-----------------------------------------------------------------------------
(* Results                                                                 *)

\* The results a thread still waits for, and the orders and results that are on their way.
Missing(t) == IF pc[t] = "collect" THEN Len(batch[t]) - Len(got[t]) ELSE 0
Missings == [t \in Threads |-> Missing(t)]
OnTheWay == Len(queue) + Len(filling) + Len(results)

\* Without timeouts there are as many of the one as of the other.
Counted == ~May("timeout") => SumOver(Missings, Threads) = OnTheWay

LEMMA ThreadsFinite == IsFiniteSet(Threads)
<1>1. IsFiniteSet(Symbols)
  BY PaperAssumption
<1>2. IsFiniteSet(Symbols \cup {"monitor"})
  BY <1>1, FS_AddElement
<1>3. IsFiniteSet((Symbols \cup {"monitor"}) \cup {"loop"})
  BY <1>2, FS_AddElement
<1>4. QED
  BY <1>3 DEF Threads, Exiters

LEMMA MissingType ==
    ASSUME Types
    PROVE  Missings \in [Threads -> Int] /\ \A t \in Threads : Missing(t) \in Nat
<1>1. ASSUME NEW t \in Threads PROVE Missing(t) \in Nat
  <2>1. /\ Len(batch[t]) \in Nat /\ Len(got[t]) \in Nat
        /\ pc[t] = "collect" => Len(got[t]) <= Len(batch[t])
    <3>1. batch[t] \in Seq(Requests) /\ got[t] \in Seq(Outcomes) /\ Holds(t)
      BY DEF Types, ThreadType
    <3>2. QED
      BY <3>1 DEF Holds
  <2>2. QED
    BY <2>1 DEF Missing
<1>2. QED
  BY <1>1 DEF Missings

LEMMA MissingNext == Types' => (Missings \in [Threads -> Int])'
<1>1. Types => Missings \in [Threads -> Int]
  BY MissingType
<1>2. QED
  BY <1>1, PTL

LEMMA OnTheWayType ==
    ASSUME Types
    PROVE  Len(queue) \in Nat /\ Len(filling) \in Nat /\ Len(results) \in Nat /\ OnTheWay \in Nat
  BY DEF Types, ExecType, OnTheWay

\* One thread comes to miss more or fewer results, by as many as there are more or fewer on
\* their way.
LEMMA CountMoves ==
    ASSUME Types, Types', Counted, irregular' = irregular, NEW t \in Threads,
           \A u \in Threads : u # t => Missing(u)' = Missing(u),
           OnTheWay' = OnTheWay + (Missing(t)' - Missing(t))
    PROVE  Counted'
<1> DEFINE f == Missings
           h == Missings'
<1>1. f \in [Threads -> Int] /\ h \in [Threads -> Int]
  BY MissingType, MissingNext DEF Threads, Exiters
<1>2. \A u \in Threads : f[u] = Missing(u) /\ h[u] = Missing(u)'
  BY DEF Missings
<1>3. IsFiniteSet(Threads) /\ Threads' = Threads
  BY ThreadsFinite DEF Threads, Exiters
<1> HIDE DEF f, h
<1>4. SumOver(h, Threads) = SumOver(f, Threads) + (h[t] - f[t])
  BY <1>1, <1>2, <1>3, SumChanges
<1>5. h[t] - f[t] = Missing(t)' - Missing(t)
  BY <1>2
<1>6. ~May("timeout") => SumOver(h, Threads) = OnTheWay + (Missing(t)' - Missing(t))
  BY <1>4, <1>5 DEF Counted, f
<1>7. May("timeout")' <=> May("timeout")
  BY DEF May
<1>8. QED
  BY <1>3, <1>6, <1>7 DEF Counted, h

LEMMA CountStays ==
    ASSUME Types, Types', Counted, irregular' = irregular,
           \A u \in Threads : Missing(u)' = Missing(u),
           OnTheWay' = OnTheWay
    PROVE  Counted'
<1>1. "loop" \in Threads
  BY ThreadsAre
<1>2. Missing("loop") \in Nat /\ OnTheWay \in Nat
  BY <1>1, MissingType, OnTheWayType
<1>3. OnTheWay' = OnTheWay + (Missing("loop")' - Missing("loop"))
  BY <1>1, <1>2
<1>4. QED
  BY <1>1, <1>3, CountMoves

LEMMA WorkerCount ==
    ASSUME Types, Types', Counted, Worker
    PROVE  Counted'
<1>1. UNCHANGED <<irregular, pc, batch, got>>
  BY DEF Worker, Execute, SyncPositions, outside, threads
<1>2. OnTheWay' = OnTheWay
  <2>1. /\ IsSeq(queue) /\ IsSeq(filling) /\ IsSeq(results)
        /\ queue \in Seq(Requests) /\ filling \in Seq(Requests) /\ results \in Seq(Outcomes)
    BY DEF Types, ExecType, IsSeq
  <2>2. ASSUME NEW i \in DOMAIN queue, Execute(i) PROVE OnTheWay' = OnTheWay
    <3> DEFINE o == Outcome(queue[i], FALSE)
               r == queue[i]
    <3>1. queue' = RemoveAt(queue, i)
      BY <2>2 DEF Execute
    <3>2. \/ results' = Append(results, o) /\ filling' = filling
          \/ filling' = Append(filling, r) /\ results' = results
      BY <2>2 DEF Execute
    <3>3. r \in Requests
      BY <2>1
    <3>4. o \in Outcomes
      <4> HIDE DEF r
      <4>1. QED
        BY <3>3, OutcomeIs DEF r
    <3>5. Len(queue') = Len(queue) - 1
      BY <2>1, <3>1, ElemsRemove
    <3> HIDE DEF o, r
    <3>6. \/ Len(results') = Len(results) + 1 /\ filling' = filling
          \/ Len(filling') = Len(filling) + 1 /\ results' = results
      BY <2>1, <3>2, <3>3, <3>4, AppendProperties
    <3>7. QED
      BY <3>5, <3>6, OnTheWayType DEF OnTheWay
  <2>3. ASSUME NEW i \in DOMAIN filling, SyncPositions(i) PROVE OnTheWay' = OnTheWay
    <3> DEFINE r == filling[i]
               o == Outcome(filling[i], TRUE)
    <3>1. filling' = RemoveAt(filling, i) /\ results' = Append(results, o) /\ queue' = queue
      BY <2>3 DEF SyncPositions, Report
    <3>2. r \in Requests
      BY <2>1
    <3>3. o \in Outcomes
      <4> HIDE DEF r
      <4>1. QED
        BY <3>2, OutcomeIs DEF r
    <3>4. Len(filling') = Len(filling) - 1
      BY <2>1, <3>1, ElemsRemove
    <3> HIDE DEF o, r
    <3>5. Len(results') = Len(results) + 1
      BY <2>1, <3>1, <3>3, AppendProperties
    <3>6. QED
      BY <3>1, <3>4, <3>5, OnTheWayType DEF OnTheWay
  <2>4. QED
    BY <2>2, <2>3 DEF Worker
<1>3. \A u \in Threads : Missing(u)' = Missing(u)
  BY <1>1 DEF Missing
<1>4. QED
  BY <1>1, <1>2, <1>3, CountStays

LEMMA CollectCount ==
    ASSUME Types, Types', Counted, NEW t \in Threads, Collect(t) \/ CollectTimeout(t)
    PROVE  Counted'
<1>1. CASE CollectTimeout(t)
  <2>1. May("timeout") /\ irregular' = irregular
    BY <1>1 DEF CollectTimeout, outside
  <2>2. QED
    BY <2>1 DEF Counted, May
<1>2. CASE Collect(t)
  <2>1. /\ pc[t] = "collect" /\ results # << >> /\ results' = Tail(results)
        /\ got' = [got EXCEPT ![t] = Append(@, Head(results))]
        /\ UNCHANGED <<irregular, queue, filling, pc, batch>>
    BY <1>2 DEF Collect, outside, At
  <2>2. /\ results \in Seq(Outcomes) /\ got \in [Threads -> Seq(Outcomes)]
        /\ got[t] \in Seq(Outcomes) /\ batch[t] \in Seq(Requests)
    BY DEF Types, ExecType, ThreadType
  <2>3. Head(results) \in Outcomes /\ Len(results') = Len(results) - 1
    BY <2>1, <2>2
  <2>4. got'[t] = Append(got[t], Head(results)) /\ \A u \in Threads : u # t => got'[u] = got[u]
    BY <2>1, <2>2
  <2>5. Len(got'[t]) = Len(got[t]) + 1
    BY <2>2, <2>3, <2>4, AppendProperties
  <2>6. \A u \in Threads : u # t => Missing(u)' = Missing(u)
    BY <2>1, <2>4 DEF Missing
  <2>7. Missing(t)' = Missing(t) - 1
    <3>1. Missing(t) = Len(batch[t]) - Len(got[t])
      BY <2>1 DEF Missing
    <3>2. Missing(t)' = Len(batch[t]) - Len(got'[t])
      BY <2>1 DEF Missing
    <3>3. Len(batch[t]) \in Nat /\ Len(got[t]) \in Nat
      BY <2>2
    <3>4. QED
      BY <2>5, <3>1, <3>2, <3>3
  <2>8. OnTheWay' = OnTheWay + (Missing(t)' - Missing(t))
    <3>1. OnTheWay' = OnTheWay - 1
      BY <2>1, <2>3, OnTheWayType DEF OnTheWay
    <3>2. Missing(t) \in Nat /\ OnTheWay \in Nat
      BY MissingType, OnTheWayType
    <3>3. QED
      BY <2>7, <3>1, <3>2
  <2>9. QED
    BY <2>1, <2>6, <2>8, CountMoves
<1>3. QED
  BY <1>1, <1>2

LEMMA SubmitCount ==
    ASSUME Types, Types', Counted, NEW t \in Threads, NEW reqs \in Seq(Requests),
           Submit(t, reqs), pc[t] # "collect", UNCHANGED <<irregular, filling, results>>
    PROVE  Counted'
<1>1. /\ queue' = queue \o reqs /\ batch' = [batch EXCEPT ![t] = reqs]
      /\ got' = [got EXCEPT ![t] = << >>] /\ Goto(t, "collect")
  BY DEF Submit
<1>2. pc'[t] = "collect" /\ \A u \in Threads : u # t => pc'[u] = pc[u]
  BY <1>1, PlaceOfLoop
<1>3. /\ batch'[t] = reqs /\ got'[t] = << >>
      /\ \A u \in Threads : u # t => batch'[u] = batch[u] /\ got'[u] = got[u]
  BY <1>1 DEF Types, ThreadType
<1>4. \A u \in Threads : u # t => Missing(u)' = Missing(u)
  BY <1>2, <1>3 DEF Missing
<1>5. Missing(t) = 0 /\ Missing(t)' = Len(reqs) - 0
  BY <1>2, <1>3 DEF Missing
<1>6. queue \in Seq(Requests)
  BY DEF Types, ExecType
<1>7. Len(queue') = Len(queue) + Len(reqs) /\ Len(reqs) \in Nat
  BY <1>1, <1>6, ConcatProperties
<1>8. OnTheWay' = OnTheWay + (Missing(t)' - Missing(t))
  BY <1>5, <1>7, OnTheWayType DEF OnTheWay
<1>9. QED
  BY <1>4, <1>8, CountMoves

\* A thread goes on, not to wait, and not from a wait that is not over.
LEMMA WentCount ==
    ASSUME Types, Types', Counted, UNCHANGED <<irregular, queue, filling, results, batch>>,
           NEW t \in Threads, NEW p, Goto(t, p), p # "collect",
           pc[t] = "collect" => Len(got[t]) = Len(batch[t]),
           \A u \in Threads : u # t => got'[u] = got[u]
    PROVE  Counted'
<1>1. pc'[t] = p /\ \A u \in Threads : u # t => pc'[u] = pc[u]
  BY PlaceOfLoop
<1>2. got[t] \in Seq(Outcomes) /\ batch[t] \in Seq(Requests)
  BY DEF Types, ThreadType
<1>3. Missing(t)' = 0 /\ Missing(t) = 0
  <2>1. Missing(t)' = 0
    BY <1>1 DEF Missing
  <2>2. CASE pc[t] = "collect"
    <3>1. Missing(t) = Len(batch[t]) - Len(got[t]) /\ Len(got[t]) = Len(batch[t])
      BY <2>2 DEF Missing
    <3>2. Len(got[t]) \in Nat
      BY <1>2
    <3>3. QED
      BY <2>1, <3>1, <3>2
  <2>3. CASE pc[t] # "collect"
    BY <2>1, <2>3 DEF Missing
  <2>4. QED
    BY <2>2, <2>3
<1>4. \A u \in Threads : u # t => Missing(u)' = Missing(u)
  BY <1>1 DEF Missing
<1>5. OnTheWay' = OnTheWay
  BY DEF OnTheWay
<1>6. QED
  BY <1>3, <1>4, <1>5, CountStays

LEMMA LoopCount ==
    ASSUME Types, Types', Counted, Loop
    PROVE  Counted'
<1>0. "loop" \in Threads
  BY ThreadsAre
<1>1. CASE LoopTop
  <2>1. /\ UNCHANGED <<irregular, queue, filling, results, batch, got>> /\ pc["loop"] = "top"
        /\ \E p \in {"pyramid", "ended", "fetch"} : Goto("loop", p)
    BY <1>1 DEF LoopTop, SquareOff, exec, outside, At
  <2>2. QED
    BY <1>0, <2>1, WentCount
<1>2. CASE LoopFetch
  <2>1. /\ UNCHANGED <<irregular, queue, filling, results, batch, got>> /\ pc["loop"] = "fetch"
        /\ \E p \in {"top", "ended", "decide"} : Goto("loop", p)
    BY <1>2 DEF LoopFetch, exec, outside, At
  <2>2. QED
    BY <1>0, <2>1, WentCount
<1>3. CASE LoopDecide
  <2>1. PICK reqs : /\ Chosen(reqs)
                    /\ IF reqs = {} THEN Goto("loop", "cycled") /\ UNCHANGED <<queue, executor, batch, got>>
                       ELSE Submit("loop", SetToSeq(reqs))
    BY <1>3, DecideChosen
  <2>2. UNCHANGED <<irregular, filling, results>> /\ pc["loop"] = "decide"
    BY <1>3 DEF LoopDecide, outside, At
  <2>3. CASE reqs = {}
    BY <1>0, <2>1, <2>2, <2>3, WentCount
  <2>4. CASE reqs # {}
    <3>1. SetToSeq(reqs) \in Seq(Requests)
      BY <2>1, ChosenAre, SetSeqTyped
    <3>2. QED
      BY <1>0, <2>1, <2>2, <2>4, <3>1, SubmitCount
  <2>5. QED
    BY <2>3, <2>4
<1>4. CASE LoopRecord
  <2>1. /\ UNCHANGED <<irregular, queue, filling, results, batch>> /\ pc["loop"] = "record"
        /\ \/ Goto("loop", "clear") /\ got' = got
           \/ pc' = pc /\ got' = [got EXCEPT !["loop"] = Tail(@)]
    BY <1>4 DEF LoopRecord, exec, outside, At
  <2>2. \A u \in Threads : u # "loop" => got'[u] = got[u]
    BY <2>1 DEF Types, ThreadType
  <2>3. Goto("loop", "clear") \/ Goto("loop", "record")
    BY <2>1 DEF Goto, Types, ThreadType, PlaceType
  <2>4. QED
    BY <1>0, <2>1, <2>2, <2>3, WentCount
<1>5. CASE LoopClear
  <2>1. /\ UNCHANGED <<irregular, queue, filling, results, batch>> /\ pc["loop"] = "clear"
        /\ Goto("loop", "record") /\ got' = [got EXCEPT !["loop"] = Tail(@)]
    BY <1>5 DEF LoopClear, exec, outside, At
  <2>2. \A u \in Threads : u # "loop" => got'[u] = got[u]
    BY <2>1 DEF Types, ThreadType
  <2>3. QED
    BY <1>0, <2>1, <2>2, WentCount
<1>6. CASE LoopRecorded
  <2>1. /\ UNCHANGED <<irregular, queue, filling, results, batch, got>> /\ pc["loop"] = "record"
        /\ Goto("loop", "cycled")
    BY <1>6 DEF LoopRecorded, exec, outside, At
  <2>2. QED
    BY <1>0, <2>1, WentCount
<1>7. CASE LoopCycled
  <2>1. /\ UNCHANGED <<irregular, queue, filling, results, batch, got>> /\ pc["loop"] = "cycled"
        /\ \E p \in {"top", "ended"} : Goto("loop", p)
    BY <1>7 DEF LoopCycled, SquareOff, exec, outside, At
  <2>2. QED
    BY <1>0, <2>1, WentCount
<1>8. QED
  BY <1>1, <1>2, <1>3, <1>4, <1>5, <1>6, <1>7 DEF Loop

LEMMA ThreadCount ==
    ASSUME Types, Types', Counted, NEW t \in Threads, Thread(t)
    PROVE  Counted'
<1>0. "monitor" \in Threads
  BY ThreadsAre
<1>1. CASE t = "loop" /\ Loop
  BY <1>1, LoopCount
<1>2. CASE t = "monitor" /\ (MonitorStop \/ MonitorJoin)
  <2>1. /\ UNCHANGED <<irregular, queue, filling, results, batch, got>>
        /\ pc["monitor"] \in {"watch", "joining"}
        /\ \E p \in {"joining", "ended", "pyramid"} : Goto("monitor", p)
    BY <1>2 DEF MonitorStop, MonitorJoin, exec, outside, At
  <2>2. QED
    BY <1>0, <2>1, WentCount
<1>3. CASE t \in Symbols /\ RmsSubmit(t)
  <2>1. UNCHANGED <<irregular, filling, results>> /\ pc[t] = "exit"
    BY <1>3 DEF RmsSubmit, outside, At
  <2>2. CASE paper[t] = 0
    <3>1. UNCHANGED <<queue, batch, got>> /\ Goto(t, Back(t)) /\ Back(t) # "collect"
      BY <1>3, <2>2 DEF RmsSubmit, Back
    <3>2. QED
      BY <2>1, <3>1, WentCount
  <2>3. CASE paper[t] # 0
    <3>1. Submit(t, << ExitRequest(t) >>) /\ << ExitRequest(t) >> \in Seq(Requests)
      BY <1>3, <2>3, ExitRequestIs DEF RmsSubmit
    <3>2. QED
      BY <2>1, <3>1, SubmitCount
  <2>4. QED
    BY <2>2, <2>3
<1>4. CASE Collect(t) \/ CollectTimeout(t)
  BY <1>4, CollectCount
<1>5. CASE Join(t)
  <2>1. /\ UNCHANGED <<irregular, queue, filling, results, batch, got>>
        /\ Goto(t, "record") /\ Len(got[t]) = Len(batch[t])
    BY <1>5 DEF Join, exec, outside
  <2>2. QED
    BY <2>1, WentCount
<1>6. CASE ExitRecord(t) \/ ExitClear(t)
  <2>1. /\ UNCHANGED <<irregular, queue, filling, results, batch, got>>
        /\ pc[t] \in {"record", "clear"}
        /\ Goto(t, "clear") \/ Goto(t, Back(t))
    BY <1>6 DEF ExitRecord, ExitClear, exec, outside, At
  <2>2. Back(t) # "collect"
    BY DEF Back
  <2>3. QED
    BY <2>1, <2>2, WentCount
<1>7. CASE ShutdownPyramid(t) \/ ShutdownHalt(t)
  <2>1. /\ UNCHANGED <<irregular, queue, filling, results, batch, got>>
        /\ pc[t] \in {"pyramid", "halt"}
        /\ Goto(t, "halt") \/ Goto(t, "ended")
    BY <1>7 DEF ShutdownPyramid, ShutdownHalt, exec, outside, At
  <2>2. QED
    BY <2>1, WentCount
<1>8. QED
  BY <1>1, <1>2, <1>3, <1>4, <1>5, <1>6, <1>7 DEF Thread


\* The exit thread of a symbol runs under the symbol's marker: there is never a second one.
Marked == \A s \in Symbols : pc[s] # "none" => s \in inflight

LEMMA StepMarked ==
    ASSUME Types, Marked, [Next]_vars
    PROVE  Marked'
<1>0. /\ Symbols \subseteq Threads /\ "monitor" \in Threads /\ "loop" \in Threads
      /\ "monitor" \notin Symbols /\ "loop" \notin Symbols
  BY ThreadsAre
\* Another thread moves.
<1>1. ASSUME NEW t \in Threads, t \notin Symbols, NEW p, Goto(t, p) \/ pc' = pc,
             \A s \in Symbols : s \in inflight => s \in inflight'
      PROVE  Marked'
  <2>1. \A s \in Symbols : pc'[s] = pc[s]
    BY <1>0, <1>1, PlaceOfLoop
  <2>2. QED
    BY <1>1, <2>1 DEF Marked
\* The thread of a symbol moves: it was there, or it is gone.
<1>2. ASSUME NEW t \in Symbols, NEW p, Goto(t, p), p = "none" \/ pc[t] # "none" \/ t \in inflight',
             \A s \in Symbols : s \in inflight => s \in inflight' \/ (s = t /\ p = "none")
      PROVE  Marked'
  <2>1. pc'[t] = p /\ \A s \in Symbols : s # t => pc'[s] = pc[s]
    BY <1>0, <1>2, PlaceOfLoop
  <2>2. QED
    BY <1>2, <2>1 DEF Marked
<1>3. ASSUME UNCHANGED <<pc, inflight>> PROVE Marked'
  BY <1>3 DEF Marked
<1>4. CASE Worker
  BY <1>3, <1>4 DEF Worker, Execute, SyncPositions, exitVars, threads
<1>5. ASSUME NEW t \in Threads, Thread(t) PROVE Marked'
  <2>1. CASE t = "loop" /\ Loop
    <3>1. inflight' = inflight /\ ((\E p : Goto("loop", p)) \/ pc' = pc)
      <4>1. CASE LoopTop
        BY <4>1 DEF LoopTop, SquareOff
      <4>2. CASE LoopFetch
        BY <4>2 DEF LoopFetch, exitVars
      <4>3. CASE LoopDecide
        BY <4>3 DEF LoopDecide, Submit, exitVars
      <4>4. CASE LoopRecord \/ LoopRecorded
        BY <4>4 DEF LoopRecord, LoopRecorded, exitVars
      <4>5. CASE LoopClear
        BY <4>5 DEF LoopClear
      <4>6. CASE LoopCycled
        BY <4>6 DEF LoopCycled, SquareOff, exitVars
      <4>7. QED
        BY <2>1, <4>1, <4>2, <4>3, <4>4, <4>5, <4>6 DEF Loop
    <3>2. QED
      BY <1>0, <1>1, <3>1
  <2>2. CASE t = "monitor" /\ (MonitorStop \/ MonitorJoin)
    <3>1. inflight' = inflight /\ \E p : Goto("monitor", p)
      BY <2>2 DEF MonitorStop, MonitorJoin, exitVars
    <3>2. QED
      BY <1>0, <1>1, <3>1
  <2>3. CASE t \in Symbols /\ RmsSubmit(t)
    <3>1. CASE paper[t] = 0
      <4>1. Goto(t, "none") /\ inflight' = inflight \ {t}
        BY <1>0, <2>3, <3>1 DEF RmsSubmit, Back, Unmarked
      <4>2. QED
        BY <1>2, <2>3, <4>1
    <3>2. CASE paper[t] # 0
      <4>1. Goto(t, "collect") /\ inflight' = inflight /\ pc[t] = "exit"
        BY <2>3, <3>2 DEF RmsSubmit, Submit, At
      <4>2. QED
        BY <1>2, <2>3, <4>1
    <3>3. QED
      BY <3>1, <3>2
  <2>4. CASE Collect(t) \/ CollectTimeout(t)
    BY <1>3, <2>4 DEF Collect, CollectTimeout, exitVars
  <2>5. CASE Join(t)
    <3>1. Goto(t, "record") /\ inflight' = inflight /\ pc[t] = "collect"
      BY <2>5 DEF Join, exitVars, At
    <3>2. QED
      BY <1>1, <1>2, <3>1
  <2>6. CASE ExitRecord(t) \/ ExitClear(t)
    <3>1. /\ t # "loop" /\ pc[t] \in {"record", "clear"}
          /\ \/ Goto(t, "clear") /\ inflight' = inflight
             \/ Goto(t, Back(t)) /\ inflight' = inflight \ {t}
      BY <2>6 DEF ExitRecord, ExitClear, At, Unmarked
    <3>2. CASE t \in Symbols
      <4>1. Back(t) = "none"
        BY <1>0, <3>2 DEF Back
      <4>2. QED
        BY <1>2, <3>1, <3>2, <4>1
    <3>3. CASE t \notin Symbols
      BY <1>1, <3>1, <3>3
    <3>4. QED
      BY <3>2, <3>3
  <2>7. CASE ShutdownPyramid(t) \/ ShutdownHalt(t)
    <3>1. /\ inflight' = inflight /\ pc[t] \in {"pyramid", "halt"}
          /\ Goto(t, "halt") \/ Goto(t, "ended")
      BY <2>7 DEF ShutdownPyramid, ShutdownHalt, exitVars, At
    <3>2. QED
      BY <1>1, <1>2, <3>1
  <2>8. QED
    BY <1>5, <2>1, <2>2, <2>3, <2>4, <2>5, <2>6, <2>7 DEF Thread
<1>6. CASE Outside
  <2>1. ASSUME NEW s \in Symbols, Tick(s) PROVE Marked'
    <3>1. Goto(s, "exit") /\ inflight' = inflight \cup {s}
      BY <2>1 DEF Tick
    <3>2. QED
      BY <1>2, <3>1
  <2>2. ASSUME NEW s \in Symbols, ManualExit(s) PROVE Marked'
    <3>1. inflight' = inflight /\ (pc' = pc \/ Goto("monitor", "collect"))
      BY <2>2 DEF ManualExit, Submit, exitVars
    <3>2. QED
      BY <1>0, <1>1, <3>1
  <2>3. QED
    BY <1>3, <1>6, <2>1, <2>2 DEF Outside, WorkerStop, ClockTicks, exitVars, threads
<1>7. CASE UNCHANGED vars
  BY <1>3, <1>7 DEF vars
<1>8. QED
  BY <1>4, <1>5, <1>6, <1>7 DEF Next

LEMMA OutsideCount ==
    ASSUME Types, Types', Marked, Counted, Outside \/ UNCHANGED vars
    PROVE  Counted'
<1>0. Symbols \subseteq Threads /\ "monitor" \in Threads /\ "monitor" \notin Symbols
      /\ "loop" \notin Symbols
  BY ThreadsAre
<1>1. ASSUME NEW s \in Symbols, Tick(s) PROVE Counted'
  <2>1. /\ UNCHANGED <<irregular, queue, filling, results, batch, got>> /\ Goto(s, "exit")
        /\ s \notin inflight
    BY <1>1 DEF Tick, exec, outside
  <2>2. pc[s] # "collect"
    BY <2>1 DEF Marked
  <2>3. QED
    BY <1>0, <2>1, <2>2, WentCount
<1>2. ASSUME NEW s \in Symbols, ManualExit(s) PROVE Counted'
  <2>1. UNCHANGED <<irregular, filling, results>> /\ pc["monitor"] = "watch"
    BY <1>2 DEF ManualExit, outside, At
  <2>2. CASE paper[s] = 0
    <3>1. UNCHANGED <<queue, pc, batch, got>>
      BY <1>2, <2>2 DEF ManualExit
    <3>2. QED
      BY <2>1, <3>1, CountStays DEF Missing, OnTheWay
  <2>3. CASE paper[s] # 0
    <3>1. Submit("monitor", << ExitRequest(s) >>) /\ << ExitRequest(s) >> \in Seq(Requests)
      BY <1>2, <2>3, ExitRequestIs DEF ManualExit
    <3>2. QED
      BY <1>0, <2>1, <3>1, SubmitCount
  <2>4. QED
    BY <2>2, <2>3
<1>3. CASE WorkerStop \/ ClockTicks \/ UNCHANGED vars
  <2>1. UNCHANGED <<irregular, queue, filling, results, pc, batch, got>>
    BY <1>3 DEF WorkerStop, ClockTicks, vars, exec, outside, threads
  <2>2. QED
    BY <2>1, CountStays DEF Missing, OnTheWay
<1>4. QED
  BY <1>1, <1>2, <1>3 DEF Outside

LEMMA InitCount ==
    ASSUME Init
    PROVE  Counted /\ Marked
<1>1. \A t \in Threads : pc[t] # "collect"
  BY DEF Init
<1>2. \A t \in Threads : Missings[t] = 0
  BY <1>1 DEF Missings, Missing
<1>3. SumOver(Missings, Threads) = 0
  BY <1>2, ThreadsFinite, SumNothing
<1>4. OnTheWay = 0
  BY DEF Init, OnTheWay
<1>5. Marked
  <2>1. \A s \in Symbols : pc[s] = "none"
    BY ThreadsAre DEF Init
  <2>2. QED
    BY <2>1 DEF Marked
<1>6. QED
  BY <1>3, <1>4, <1>5 DEF Counted

LEMMA StepCount ==
    ASSUME Types, Marked, Counted, [Next]_vars
    PROVE  Counted'
<1>1. Types'
  BY StepTypes
<1>2. QED
  BY <1>1, WorkerCount, ThreadCount, OutsideCount DEF Next

LEMMA CountTells ==
    ASSUME Types, Counted
    PROVE  NoStrayResult
<1> SUFFICES ASSUME ~May("timeout"), results # << >>,
                    \A t \in Threads : ~(At(t, "collect") /\ Len(got[t]) < Len(batch[t]))
             PROVE  FALSE
  BY DEF NoStrayResult
<1>1. ASSUME NEW t \in Threads PROVE Missings[t] = 0
  <2>1. Missing(t) = IF pc[t] = "collect" THEN Len(batch[t]) - Len(got[t]) ELSE 0
    BY DEF Missing
  <2>2. Len(batch[t]) \in Nat /\ Len(got[t]) \in Nat
    <3>1. batch[t] \in Seq(Requests) /\ got[t] \in Seq(Outcomes)
      BY DEF Types, ThreadType
    <3>2. QED
      BY <3>1
  <2>3. pc[t] = "collect" => ~(Len(got[t]) < Len(batch[t])) /\ Len(got[t]) <= Len(batch[t])
    BY DEF At, Types, ThreadType, Holds
  <2>4. Missing(t) = 0
    BY <2>1, <2>2, <2>3
  <2>5. QED
    BY <2>4 DEF Missings
<1>2. SumOver(Missings, Threads) = 0
  BY <1>1, ThreadsFinite, SumNothing
<1>3. OnTheWay = 0
  BY <1>2 DEF Counted
<1>4. Len(results) = 0
  BY <1>3, OnTheWayType DEF OnTheWay
<1>5. results \in Seq(Outcomes)
  BY DEF Types, ExecType
<1>6. QED
  BY <1>4, <1>5

\* Unless callers give up on results, the queue of results that all callers share holds no
\* more of them than callers still wait for: each takes as many as it ordered, whichever they
\* are, and none is left over for a later call.
THEOREM NoneStray == Spec => []NoStrayResult
<1>1. Init => Types /\ Marked /\ Counted
  BY InitTypes, InitCount
<1>2. Types /\ Marked /\ Counted /\ [Next]_vars => Types' /\ Marked' /\ Counted'
  BY StepTypes, StepMarked, StepCount
<1>3. Types /\ Counted => NoStrayResult
  BY CountTells
<1>4. QED
  BY <1>1, <1>2, <1>3, PTL DEF Spec

-----------------------------------------------------------------------------
(* Orderly runs: the orders that are being worked on                       *)

\* The results a thread has not dealt with yet: at "clear" it is done with the first.
Undealt(t) == CASE pc[t] = "clear" -> Tail(got[t])
                [] pc[t] \in {"collect", "record"} -> got[t]
                [] OTHER -> << >>

\* An order, where it is, and whether it has filled.
Entry(p, r, k) == [at |-> p, req |-> r, ok |-> k]
Queued == {Entry("queue", r, FALSE) : r \in Elems(queue)}
Filling == {Entry("filling", r, TRUE) : r \in Elems(filling)}
Reported == {Entry("results", o.req, o.ok) : o \in Elems(results)}
TakenBy(t) == {Entry("got", o.req, o.ok) : o \in Elems(Undealt(t))}
Taken == UNION {TakenBy(t) : t \in Threads}
Work == Queued \cup Filling \cup Reported \cup Taken

\* No symbol has two orders in work.
SymOf == [r \in Requests |-> r.sym]
ResultSym == [o \in Outcomes |-> o.req.sym]
OneEach == \A v, w \in Work : v.req.sym = w.req.sym => v = w
Apart == /\ Distinct(queue, SymOf) /\ Distinct(filling, SymOf) /\ Distinct(results, ResultSym)
         /\ \A t \in Threads : Distinct(Undealt(t), ResultSym)
         /\ OneEach

LEMMA EntryIs ==
    ASSUME NEW p, NEW r, NEW k
    PROVE  /\ Entry(p, r, k).at = p /\ Entry(p, r, k).req = r /\ Entry(p, r, k).ok = k
           /\ \A p2, r2, k2 : (Entry(p, r, k) = Entry(p2, r2, k2)) <=> (p = p2 /\ r = r2 /\ k = k2)
<1>1. Entry(p, r, k).at = p /\ Entry(p, r, k).req = r /\ Entry(p, r, k).ok = k
  BY DEF Entry
<1>2. ASSUME NEW p2, NEW r2, NEW k2, Entry(p, r, k) = Entry(p2, r2, k2)
      PROVE  p = p2 /\ r = r2 /\ k = k2
  <2>1. Entry(p2, r2, k2).at = p2 /\ Entry(p2, r2, k2).req = r2 /\ Entry(p2, r2, k2).ok = k2
    BY DEF Entry
  <2>2. QED
    BY <1>1, <1>2, <2>1
<1>3. QED
  BY <1>1, <1>2

LEMMA UndealtType ==
    ASSUME Types, NEW t \in Threads
    PROVE  Undealt(t) \in Seq(Outcomes)
<1>1. got[t] \in Seq(Outcomes) /\ Holds(t)
  BY DEF Types, ThreadType
<1>2. pc[t] = "clear" => got[t] # << >>
  <2>1. t = "loop" /\ pc[t] = "clear" => got[t] # << >>
    BY <1>1 DEF Holds
  <2>2. t # "loop" /\ pc[t] = "clear" => got[t] # << >>
    BY ExiterIs
  <2>3. QED
    BY <2>1, <2>2
<1>3. pc[t] = "clear" => Tail(got[t]) \in Seq(Outcomes)
  BY <1>1, <1>2
<1>4. QED
  BY <1>1, <1>3 DEF Undealt

LEMMA WorkHas ==
    ASSUME Types
    PROVE  /\ \A w \in Work : /\ w.req \in Requests /\ w.req.sym \in Symbols
                              /\ w.req.qty \in Nat \ {0} /\ w.req.snap \in Int
                              /\ w.req.act \in Acts
                              /\ w.ok \in BOOLEAN
                              /\ w.at \in {"queue", "filling", "results", "got"}
           /\ \A w \in Queued : w.at = "queue" /\ w.ok = FALSE
           /\ \A w \in Filling : w.at = "filling" /\ w.ok = TRUE
           /\ \A w \in Reported : w.at = "results"
           /\ \A w \in Taken : w.at = "got"
<1>1. /\ \A r \in Elems(queue) \cup Elems(filling) : r \in Requests
      /\ \A o \in Elems(results) : o \in Outcomes
      /\ \A t \in Threads : \A o \in Elems(Undealt(t)) : o \in Outcomes
  <2>1. queue \in Seq(Requests) /\ filling \in Seq(Requests) /\ results \in Seq(Outcomes)
    BY DEF Types, ExecType
  <2>2. ASSUME NEW S, NEW q \in Seq(S) PROVE \A x \in Elems(q) : x \in S
    BY DEF Elems
  <2>3. QED
    BY <2>1, <2>2, UndealtType
<1>2. \A w \in Queued : w.at = "queue" /\ w.ok = FALSE /\ w.req \in Requests
  <2> SUFFICES ASSUME NEW r \in Elems(queue)
               PROVE  /\ Entry("queue", r, FALSE).at = "queue"
                      /\ Entry("queue", r, FALSE).ok = FALSE
                      /\ Entry("queue", r, FALSE).req \in Requests
    BY DEF Queued
  <2>1. Entry("queue", r, FALSE).at = "queue" /\ Entry("queue", r, FALSE).req = r
    BY DEF Entry
  <2>2. Entry("queue", r, FALSE).ok = FALSE
    BY DEF Entry
  <2>3. QED
    BY <1>1, <2>1, <2>2
<1>3. \A w \in Filling : w.at = "filling" /\ w.ok = TRUE /\ w.req \in Requests
  <2> SUFFICES ASSUME NEW r \in Elems(filling)
               PROVE  /\ Entry("filling", r, TRUE).at = "filling"
                      /\ Entry("filling", r, TRUE).ok = TRUE
                      /\ Entry("filling", r, TRUE).req \in Requests
    BY DEF Filling
  <2>1. Entry("filling", r, TRUE).at = "filling" /\ Entry("filling", r, TRUE).req = r
    BY DEF Entry
  <2>2. Entry("filling", r, TRUE).ok = TRUE
    BY DEF Entry
  <2>3. QED
    BY <1>1, <2>1, <2>2
<1>4. \A w \in Reported : w.at = "results" /\ w.ok \in BOOLEAN /\ w.req \in Requests
  <2> SUFFICES ASSUME NEW o \in Elems(results)
               PROVE  /\ Entry("results", o.req, o.ok).at = "results"
                      /\ Entry("results", o.req, o.ok).ok \in BOOLEAN
                      /\ Entry("results", o.req, o.ok).req \in Requests
    BY DEF Reported
  <2>1. o \in Outcomes
    BY <1>1
  <2>2. o.req \in Requests /\ o.ok \in BOOLEAN
    BY <2>1, OutcomeHas
  <2>3. QED
    BY <2>2, EntryIs
<1>5. \A w \in Taken : w.at = "got" /\ w.ok \in BOOLEAN /\ w.req \in Requests
  <2> SUFFICES ASSUME NEW t \in Threads, NEW o \in Elems(Undealt(t))
               PROVE  /\ Entry("got", o.req, o.ok).at = "got"
                      /\ Entry("got", o.req, o.ok).ok \in BOOLEAN
                      /\ Entry("got", o.req, o.ok).req \in Requests
    BY DEF Taken, TakenBy
  <2>1. o \in Outcomes
    BY <1>1
  <2>2. o.req \in Requests /\ o.ok \in BOOLEAN
    BY <2>1, OutcomeHas
  <2>3. QED
    BY <2>2, EntryIs
<1>6. \A w \in Work : /\ w.req \in Requests /\ w.ok \in BOOLEAN
                      /\ w.at \in {"queue", "filling", "results", "got"}
  BY <1>2, <1>3, <1>4, <1>5 DEF Work
<1>7. QED
  BY <1>2, <1>3, <1>4, <1>5, <1>6, RequestHas

\* An order moves on: where it was it is no more, its request is the same, and the others stay.
Moves(v, w) == /\ v \in Work /\ w.req = v.req
               /\ Work' = (Work \ {v}) \cup {w}

LEMMA MovesApart ==
    ASSUME OneEach, NEW v, NEW w, Moves(v, w)
    PROVE  /\ OneEach'
           /\ w \in Work'
           /\ \A x \in Work' : x = w \/ (x \in Work /\ x.req.sym # w.req.sym)
           /\ \A x \in Work : x = v \/ x \in Work'
  BY DEF OneEach, Moves

\* The parts of the work of other threads stay as they are.
LEMMA SamePlace ==
    ASSUME NEW t \in Threads, pc'[t] = pc[t], got'[t] = got[t]
    PROVE  Undealt(t)' = Undealt(t)
  BY DEF Undealt

LEMMA SameTaken ==
    ASSUME \A t \in Threads : Undealt(t)' = Undealt(t)
    PROVE  Taken' = Taken /\ \A t \in Threads : Distinct(Undealt(t), ResultSym) =>
                                               Distinct(Undealt(t), ResultSym)'
<1>1. Threads' = Threads /\ ResultSym' = ResultSym
  BY DEF Threads, Exiters, ResultSym, Outcomes, Requests
<1>2. \A t \in Threads : TakenBy(t)' = TakenBy(t)
  BY DEF TakenBy
<1>3. QED
  BY <1>1, <1>2 DEF Taken, Distinct

LEMMA EntriesLess ==
    ASSUME NEW S, NEW x \in S
    PROVE  /\ Entry("queue", x, FALSE) \in {Entry("queue", y, FALSE) : y \in S}
           /\ {Entry("queue", y, FALSE) : y \in S \ {x}}
                = {Entry("queue", y, FALSE) : y \in S} \ {Entry("queue", x, FALSE)}
           /\ Entry("filling", x, TRUE) \in {Entry("filling", y, TRUE) : y \in S}
           /\ {Entry("filling", y, TRUE) : y \in S \ {x}}
                = {Entry("filling", y, TRUE) : y \in S} \ {Entry("filling", x, TRUE)}
<1>1. /\ \A y : Entry("queue", y, FALSE).req = y
      /\ \A y : Entry("filling", y, TRUE).req = y
  BY DEF Entry
<1>2. ASSUME NEW y, NEW z, Entry("queue", y, FALSE) = Entry("queue", z, FALSE) PROVE y = z
  <2> DEFINE a == Entry("queue", y, FALSE)
             b == Entry("queue", z, FALSE)
  <2>1. a.req = y /\ b.req = z
    BY <1>1
  <2>2. a = b
    BY <1>2
  <2> HIDE DEF a, b
  <2>3. QED
    BY <2>1, <2>2
<1>3. ASSUME NEW y, NEW z, Entry("filling", y, TRUE) = Entry("filling", z, TRUE) PROVE y = z
  <2> DEFINE a == Entry("filling", y, TRUE)
             b == Entry("filling", z, TRUE)
  <2>1. a.req = y /\ b.req = z
    BY <1>1
  <2>2. a = b
    BY <1>3
  <2> HIDE DEF a, b
  <2>3. QED
    BY <2>1, <2>2
<1>4. {Entry("queue", y, FALSE) : y \in S \ {x}}
        = {Entry("queue", y, FALSE) : y \in S} \ {Entry("queue", x, FALSE)}
  BY <1>2
<1>5. {Entry("filling", y, TRUE) : y \in S \ {x}}
        = {Entry("filling", y, TRUE) : y \in S} \ {Entry("filling", x, TRUE)}
  BY <1>3
<1>6. QED
  BY <1>4, <1>5

\* A worker takes an order off the queue: it fails, or it fills.
LEMMA ExecuteMoves ==
    ASSUME Types, Apart, NEW i \in DOMAIN queue, Execute(i)
    PROVE  /\ Apart'
           /\ \/ /\ Moves(Entry("queue", queue[i], FALSE), Entry("results", queue[i], FALSE))
                 /\ UNCHANGED <<paper, closed>>
              \/ /\ Moves(Entry("queue", queue[i], FALSE), Entry("filling", queue[i], TRUE))
                 /\ paper' = [paper EXCEPT ![queue[i].sym] = Filled(@, queue[i])]
                 /\ closed' = [closed EXCEPT ![queue[i].sym] = @ +
                        IF queue[i].act \in Exits
                        THEN Least(Size(paper[queue[i].sym]), queue[i].qty) ELSE 0]
<1> DEFINE r == queue[i]
           o == Outcome(queue[i], FALSE)
           v == Entry("queue", queue[i], FALSE)
           a == Entry("results", queue[i], FALSE)
           b == Entry("filling", queue[i], TRUE)
<1>0. /\ queue \in Seq(Requests) /\ filling \in Seq(Requests) /\ results \in Seq(Outcomes)
      /\ IsSeq(queue) /\ IsSeq(filling) /\ IsSeq(results)
      /\ Distinct(queue, SymOf) /\ Distinct(filling, SymOf) /\ Distinct(results, ResultSym)
      /\ OneEach
  BY DEF Types, ExecType, IsSeq, Apart
<1>1. r \in Requests
  BY <1>0
<1>2. o \in Outcomes /\ o.req = r /\ o.ok = FALSE
  <2> HIDE DEF r
  <2>1. QED
    BY <1>1, OutcomeIs DEF r
<1>3. /\ queue' = RemoveAt(queue, i)
      /\ UNCHANGED <<pc, got>>
      /\ \/ results' = Append(results, o) /\ UNCHANGED <<paper, closed, filling>>
         \/ /\ paper' = [paper EXCEPT ![r.sym] = Filled(@, r)]
            /\ closed' = [closed EXCEPT ![r.sym] = @ +
                   IF r.act \in Exits THEN Least(Size(paper[r.sym]), r.qty) ELSE 0]
            /\ filling' = Append(filling, r) /\ results' = results
  BY DEF Execute, threads
<1>4. /\ Distinct(queue', SymOf) /\ Elems(queue') = Elems(queue) \ {r} /\ r \in Elems(queue)
  BY <1>0, <1>3, DistinctRemove
<1>5. /\ Taken' = Taken
      /\ \A t \in Threads : Distinct(Undealt(t), ResultSym)'
  <2>1. \A t \in Threads : Undealt(t)' = Undealt(t)
    BY <1>3, SamePlace
  <2>2. QED
    BY <2>1, SameTaken DEF Apart
<1>6. Queued' = Queued \ {v} /\ v \in Queued
  BY <1>3, <1>4, EntriesLess DEF Queued
<1>7. v \in Work /\ v.req = r /\ v.at = "queue"
  BY <1>6 DEF Work, Entry
<1>8. v \notin Filling /\ v \notin Reported /\ v \notin Taken
  BY <1>7, WorkHas
<1>9. SymOf' = SymOf /\ ResultSym' = ResultSym
  BY DEF SymOf, ResultSym, Outcomes, Requests
<1>10. CASE results' = Append(results, o) /\ UNCHANGED <<paper, closed, filling>>
  <2>1. \A x \in Elems(results) : ResultSym[x] # ResultSym[o]
    <3> SUFFICES ASSUME NEW x \in Elems(results), ResultSym[x] = ResultSym[o]
                 PROVE  FALSE
      OBVIOUS
    <3>1. x \in Outcomes
      BY <1>0 DEF Elems
    <3>2. x.req.sym = r.sym
      BY <1>2, <3>1 DEF ResultSym
    <3>3. Entry("results", x.req, x.ok) \in Work
      BY DEF Work, Reported
    <3>4. Entry("results", x.req, x.ok).req = x.req /\ Entry("results", x.req, x.ok).at = "results"
      BY EntryIs
    <3>5. Entry("results", x.req, x.ok) = v
      BY <1>0, <1>7, <3>2, <3>3, <3>4 DEF OneEach
    <3>6. QED
      BY <1>7, <3>4, <3>5
  <2>2. Distinct(results', ResultSym) /\ Elems(results') = Elems(results) \cup {o}
    BY <1>0, <1>10, <2>1, DistinctAppend
  <2>3. Reported' = Reported \cup {a}
    <3>1. Reported' = Reported \cup {Entry("results", o.req, o.ok)}
      <4> HIDE DEF o, r
      <4>1. QED
        BY <2>2 DEF Reported
    <3>2. QED
      BY <1>2, <3>1
  <2>4. Filling' = Filling
    BY <1>10 DEF Filling
  <2>5. Work' = (Work \ {v}) \cup {a}
    <3> HIDE DEF v, a
    <3>1. QED
      BY <1>5, <1>6, <1>8, <2>3, <2>4 DEF Work
  <2>6. a.req = v.req
    BY <1>7 DEF Entry
  <2>7. Moves(v, a)
    BY <1>7, <2>5, <2>6 DEF Moves
  <2>8. OneEach'
    BY <1>0, <2>7, MovesApart
  <2>9. Distinct(filling', SymOf)
    BY <1>0, <1>10
  <2>10. Apart'
    BY <1>4, <1>5, <1>9, <2>2, <2>8, <2>9 DEF Apart
  <2>11. QED
    BY <1>10, <2>7, <2>10
<1>11. CASE /\ paper' = [paper EXCEPT ![r.sym] = Filled(@, r)]
            /\ closed' = [closed EXCEPT ![r.sym] = @ +
                   IF r.act \in Exits THEN Least(Size(paper[r.sym]), r.qty) ELSE 0]
            /\ filling' = Append(filling, r) /\ results' = results
  <2>1. \A x \in Elems(filling) : SymOf[x] # SymOf[r]
    <3> SUFFICES ASSUME NEW x \in Elems(filling), SymOf[x] = SymOf[r]
                 PROVE  FALSE
      OBVIOUS
    <3>1. x \in Requests
      BY <1>0 DEF Elems
    <3>2. x.sym = r.sym
      BY <1>1, <3>1 DEF SymOf
    <3>3. Entry("filling", x, TRUE) \in Work
      BY DEF Work, Filling
    <3>4. Entry("filling", x, TRUE).req = x /\ Entry("filling", x, TRUE).at = "filling"
      BY DEF Entry
    <3>5. Entry("filling", x, TRUE) = v
      BY <1>0, <1>7, <3>2, <3>3, <3>4 DEF OneEach
    <3>6. QED
      BY <1>7, <3>4, <3>5
  <2>2. Distinct(filling', SymOf) /\ Elems(filling') = Elems(filling) \cup {r}
    BY <1>0, <1>11, <2>1, DistinctAppend
  <2>3. Filling' = Filling \cup {b}
    <3> HIDE DEF r
    <3>1. QED
      BY <2>2 DEF Filling, r
  <2>4. Reported' = Reported
    BY <1>11 DEF Reported
  <2>5. Work' = (Work \ {v}) \cup {b}
    <3> HIDE DEF v, b
    <3>1. QED
      BY <1>5, <1>6, <1>8, <2>3, <2>4 DEF Work
  <2>6. b.req = v.req
    BY <1>7 DEF Entry
  <2>7. Moves(v, b)
    BY <1>7, <2>5, <2>6 DEF Moves
  <2>8. OneEach'
    BY <1>0, <2>7, MovesApart
  <2>9. Distinct(results', ResultSym)
    BY <1>0, <1>11
  <2>10. Apart'
    BY <1>4, <1>5, <1>9, <2>2, <2>8, <2>9 DEF Apart
  <2>11. QED
    BY <1>11, <2>7, <2>10
<1>12. QED
  BY <1>3, <1>10, <1>11

\* The book follows a fill, and its result is reported.
LEMMA SyncMoves ==
    ASSUME Types, Apart, NEW i \in DOMAIN filling, SyncPositions(i)
    PROVE  Apart' /\ Moves(Entry("filling", filling[i], TRUE), Entry("results", filling[i], TRUE))
<1> DEFINE r == filling[i]
           o == Outcome(filling[i], TRUE)
           v == Entry("filling", filling[i], TRUE)
           a == Entry("results", filling[i], TRUE)
<1>0. /\ filling \in Seq(Requests) /\ results \in Seq(Outcomes)
      /\ IsSeq(filling) /\ IsSeq(results)
      /\ Distinct(filling, SymOf) /\ Distinct(results, ResultSym)
      /\ OneEach
  BY DEF Types, ExecType, IsSeq, Apart
<1>1. r \in Requests
  BY <1>0
<1>2. o \in Outcomes /\ o.req = r /\ o.ok = TRUE
  <2> HIDE DEF r
  <2>1. QED
    BY <1>1, OutcomeIs DEF r
<1>3. /\ filling' = RemoveAt(filling, i) /\ results' = Append(results, o)
      /\ UNCHANGED <<pc, got, queue>>
  BY DEF SyncPositions, Report, threads
<1>4. /\ Distinct(filling', SymOf) /\ Elems(filling') = Elems(filling) \ {r} /\ r \in Elems(filling)
  BY <1>0, <1>3, DistinctRemove
<1>5. /\ Taken' = Taken
      /\ \A t \in Threads : Distinct(Undealt(t), ResultSym)'
  <2>1. \A t \in Threads : Undealt(t)' = Undealt(t)
    BY <1>3, SamePlace
  <2>2. QED
    BY <2>1, SameTaken DEF Apart
<1>6. Filling' = Filling \ {v} /\ v \in Filling
  BY <1>3, <1>4, EntriesLess DEF Filling
<1>7. v \in Work /\ v.req = r /\ v.at = "filling"
  BY <1>6 DEF Work, Entry
<1>8. v \notin Queued /\ v \notin Reported /\ v \notin Taken
  BY <1>7, WorkHas
<1>9. SymOf' = SymOf /\ ResultSym' = ResultSym
  BY DEF SymOf, ResultSym, Outcomes, Requests
<1>10. \A x \in Elems(results) : ResultSym[x] # ResultSym[o]
  <2> SUFFICES ASSUME NEW x \in Elems(results), ResultSym[x] = ResultSym[o]
               PROVE  FALSE
    OBVIOUS
  <2>1. x \in Outcomes
    BY <1>0 DEF Elems
  <2>2. x.req.sym = r.sym
    BY <1>2, <2>1 DEF ResultSym
  <2>3. Entry("results", x.req, x.ok) \in Work
    BY DEF Work, Reported
  <2>4. Entry("results", x.req, x.ok).req = x.req /\ Entry("results", x.req, x.ok).at = "results"
    BY EntryIs
  <2>5. Entry("results", x.req, x.ok) = v
    BY <1>0, <1>7, <2>2, <2>3, <2>4 DEF OneEach
  <2>6. QED
    BY <1>7, <2>4, <2>5
<1>11. Distinct(results', ResultSym) /\ Elems(results') = Elems(results) \cup {o}
  BY <1>0, <1>3, <1>10, DistinctAppend
<1>12. Reported' = Reported \cup {a}
  <2>1. Reported' = Reported \cup {Entry("results", o.req, o.ok)}
    <3> HIDE DEF o, r
    <3>1. QED
      BY <1>11 DEF Reported
  <2>2. QED
    BY <1>2, <2>1
<1>13. Queued' = Queued
  BY <1>3 DEF Queued
<1>14. Work' = (Work \ {v}) \cup {a}
  <2> HIDE DEF v, a
  <2>1. QED
    BY <1>5, <1>6, <1>8, <1>12, <1>13 DEF Work
<1>15. Moves(v, a)
  BY <1>7, <1>14 DEF Moves, Entry
<1>16. OneEach'
  BY <1>0, <1>15, MovesApart
<1>17. Distinct(queue', SymOf)
  BY <1>3 DEF Apart
<1>18. Apart'
  BY <1>4, <1>5, <1>9, <1>11, <1>16, <1>17 DEF Apart
<1>19. QED
  BY <1>15, <1>18

\* A caller takes the next result.
LEMMA CollectMoves ==
    ASSUME Types, Apart, NEW t \in Threads, Collect(t)
    PROVE  /\ Apart' /\ Head(results) \in Outcomes
           /\ Moves(Entry("results", Head(results).req, Head(results).ok),
                    Entry("got", Head(results).req, Head(results).ok))
<1> DEFINE o == Head(results)
           v == Entry("results", o.req, o.ok)
           a == Entry("got", o.req, o.ok)
<1>0. /\ results \in Seq(Outcomes) /\ got \in [Threads -> Seq(Outcomes)]
      /\ got[t] \in Seq(Outcomes) /\ IsSeq(got[t])
      /\ Distinct(results, ResultSym) /\ Distinct(Undealt(t), ResultSym)
      /\ OneEach
  BY DEF Types, ExecType, ThreadType, IsSeq, Apart
<1>1. /\ results # << >> /\ results' = Tail(results) /\ pc[t] = "collect"
      /\ got' = [got EXCEPT ![t] = Append(@, o)]
      /\ UNCHANGED <<queue, filling, pc>>
  BY DEF Collect, At
<1>2. o \in Outcomes
  BY <1>0, <1>1
<1>3. /\ Distinct(results', ResultSym) /\ Elems(results') = Elems(results) \ {o}
      /\ o \in Elems(results)
  BY <1>0, <1>1, DistinctTail
<1>4. \A x \in Elems(results) : x.req = o.req => x = o
  <2> SUFFICES ASSUME NEW x \in Elems(results), x.req = o.req PROVE x = o
    OBVIOUS
  <2>1. x \in Outcomes
    BY <1>0 DEF Elems
  <2>2. ResultSym[x] = ResultSym[o]
    BY <1>2, <2>1 DEF ResultSym
  <2>3. QED
    BY <1>0, <1>3, <2>2 DEF Distinct, Elems
<1>5. Reported' = Reported \ {v} /\ v \in Reported
  <2>1. \A x \in Elems(results) : Entry("results", x.req, x.ok) = v => x = o
    BY <1>4, EntryIs
  <2> HIDE DEF o
  <2>2. QED
    BY <1>3, <2>1 DEF Reported
<1>6. v \in Work /\ v.req = o.req /\ v.at = "results"
  BY <1>5, EntryIs DEF Work
<1>7. v \notin Queued /\ v \notin Filling /\ v \notin Taken
  BY <1>6, WorkHas
<1>8. /\ Undealt(t) = got[t] /\ Undealt(t)' = Append(got[t], o)
      /\ \A u \in Threads : u # t => Undealt(u)' = Undealt(u)
  <2>1. got'[t] = Append(got[t], o) /\ \A u \in Threads : u # t => got'[u] = got[u]
    BY <1>0, <1>1
  <2>2. QED
    BY <1>1, <2>1, SamePlace DEF Undealt
<1>9. \A x \in Elems(got[t]) : ResultSym[x] # ResultSym[o]
  <2> SUFFICES ASSUME NEW x \in Elems(got[t]), ResultSym[x] = ResultSym[o]
               PROVE  FALSE
    OBVIOUS
  <2>1. x \in Outcomes
    BY <1>0 DEF Elems
  <2>2. x.req.sym = o.req.sym
    BY <1>2, <2>1 DEF ResultSym
  <2>3. Entry("got", x.req, x.ok) \in Work
    BY <1>8 DEF Work, Taken, TakenBy
  <2>4. Entry("got", x.req, x.ok).req = x.req /\ Entry("got", x.req, x.ok).at = "got"
    BY EntryIs
  <2>5. Entry("got", x.req, x.ok) = v
    BY <1>0, <1>6, <2>2, <2>3, <2>4 DEF OneEach
  <2>6. QED
    BY <1>6, <2>4, <2>5
<1>10. Distinct(Append(got[t], o), ResultSym) /\ Elems(Append(got[t], o)) = Elems(got[t]) \cup {o}
  BY <1>0, <1>8, <1>9, DistinctAppend
<1>11. Taken' = Taken \cup {a}
  <2>1. TakenBy(t)' = TakenBy(t) \cup {a}
    <3> HIDE DEF o
    <3>1. QED
      BY <1>8, <1>10 DEF TakenBy
  <2>2. \A u \in Threads : u # t => TakenBy(u)' = TakenBy(u)
    BY <1>8 DEF TakenBy
  <2>3. Threads' = Threads
    BY DEF Threads, Exiters
  <2> HIDE DEF a
  <2>4. QED
    BY <2>1, <2>2, <2>3 DEF Taken
<1>12. Queued' = Queued /\ Filling' = Filling
  BY <1>1 DEF Queued, Filling
<1>13. Work' = (Work \ {v}) \cup {a}
  <2> HIDE DEF v, a
  <2>1. QED
    BY <1>5, <1>7, <1>11, <1>12 DEF Work
<1>14. Moves(v, a)
  BY <1>6, <1>13, EntryIs DEF Moves
<1>15. OneEach'
  BY <1>0, <1>14, MovesApart
<1>16. ResultSym' = ResultSym /\ SymOf' = SymOf /\ Threads' = Threads
  BY DEF SymOf, ResultSym, Outcomes, Requests, Threads, Exiters
<1>17. \A u \in Threads : Distinct(Undealt(u)', ResultSym)
  BY <1>8, <1>10 DEF Apart
<1>18. Distinct(queue', SymOf) /\ Distinct(filling', SymOf)
  BY <1>1 DEF Apart
<1>19. Apart'
  BY <1>3, <1>15, <1>16, <1>17, <1>18 DEF Apart
<1>20. QED
  BY <1>2, <1>14, <1>19

\* The only thread that has results deals with its first one.
LEMMA DealtWith ==
    ASSUME Types, Apart, NEW t \in Threads, UNCHANGED <<queue, filling, results>>,
           Undealt(t) # << >>, Undealt(t)' = Tail(Undealt(t)),
           \A u \in Threads : u # t => Undealt(u) = << >> /\ Undealt(u)' = << >>
    PROVE  /\ Apart' /\ Head(Undealt(t)) \in Outcomes
           /\ Entry("got", Head(Undealt(t)).req, Head(Undealt(t)).ok) \in Work
           /\ Work' = Work \ {Entry("got", Head(Undealt(t)).req, Head(Undealt(t)).ok)}
<1> DEFINE q == Undealt(t)
           o == Head(Undealt(t))
           v == Entry("got", o.req, o.ok)
<1>0. q \in Seq(Outcomes) /\ Distinct(q, ResultSym) /\ OneEach
  BY UndealtType DEF Apart
<1>1. o \in Outcomes
  BY <1>0
<1>2. Distinct(Tail(q), ResultSym) /\ Elems(Tail(q)) = Elems(q) \ {o} /\ o \in Elems(q)
  BY <1>0, DistinctTail
<1>3. \A x \in Elems(q) : x.req = o.req => x = o
  <2> SUFFICES ASSUME NEW x \in Elems(q), x.req = o.req PROVE x = o
    OBVIOUS
  <2>1. x \in Outcomes
    BY <1>0 DEF Elems
  <2>2. ResultSym[x] = ResultSym[o]
    BY <1>1, <2>1 DEF ResultSym
  <2>3. QED
    BY <1>0, <1>2, <2>2 DEF Distinct, Elems
<1>4. TakenBy(t)' = TakenBy(t) \ {v} /\ v \in TakenBy(t)
  <2>1. \A x \in Elems(q) : Entry("got", x.req, x.ok) = v => x = o
    BY <1>3, EntryIs
  <2>2. Elems(Undealt(t)') = Elems(Undealt(t)) \ {o} /\ o \in Elems(Undealt(t))
    BY <1>2
  <2> HIDE DEF o
  <2>3. QED
    BY <2>1, <2>2 DEF TakenBy
<1>5. \A u \in Threads : u # t => TakenBy(u) = {} /\ TakenBy(u)' = {}
  BY DistinctNone DEF TakenBy
<1>6. Threads' = Threads /\ ResultSym' = ResultSym /\ SymOf' = SymOf
  BY DEF SymOf, ResultSym, Outcomes, Requests, Threads, Exiters
<1>7. Taken' = Taken \ {v} /\ v \in Taken
  <2> HIDE DEF v
  <2>1. QED
    BY <1>4, <1>5, <1>6 DEF Taken
<1>8. v \notin Queued /\ v \notin Filling /\ v \notin Reported /\ v \in Work
  <2>1. v.at = "got" /\ v \in Work
    BY <1>7, EntryIs DEF Work
  <2>2. QED
    BY <2>1, WorkHas
<1>9. Queued' = Queued /\ Filling' = Filling /\ Reported' = Reported
  BY DEF Queued, Filling, Reported
<1>10. Work' = Work \ {v}
  <2> HIDE DEF v
  <2>1. QED
    BY <1>7, <1>8, <1>9 DEF Work
<1>11. OneEach'
  BY <1>0, <1>10 DEF OneEach
<1>12. \A u \in Threads : Distinct(Undealt(u)', ResultSym)
  BY <1>2, DistinctNone
<1>13. Apart'
  BY <1>6, <1>11, <1>12 DEF Apart
<1>14. QED
  BY <1>1, <1>8, <1>10, <1>13

LEMMA SameWork ==
    ASSUME Types, Apart, UNCHANGED <<queue, filling, results>>,
           \A u \in Threads : Undealt(u)' = Undealt(u)
    PROVE  Apart' /\ Work' = Work
<1>1. Taken' = Taken /\ \A t \in Threads : Distinct(Undealt(t), ResultSym)'
  BY SameTaken DEF Apart
<1>2. Queued' = Queued /\ Filling' = Filling /\ Reported' = Reported
  BY DEF Queued, Filling, Reported
<1>3. Work' = Work
  BY <1>1, <1>2 DEF Work
<1>4. OneEach'
  BY <1>3 DEF Apart, OneEach
<1>5. Threads' = Threads /\ ResultSym' = ResultSym /\ SymOf' = SymOf
  BY DEF SymOf, ResultSym, Outcomes, Requests, Threads, Exiters
<1>6. QED
  BY <1>1, <1>3, <1>4, <1>5 DEF Apart

\* When nothing is in work, what a thread submits is all there is.
Idle == /\ queue = << >> /\ filling = << >> /\ results = << >>
        /\ \A t \in Threads : Undealt(t) = << >>

LEMMA IdleWork ==
    ASSUME Idle
    PROVE  Work = {}
<1>1. Queued = {} /\ Filling = {} /\ Reported = {}
  BY DistinctNone DEF Idle, Queued, Filling, Reported
<1>2. Taken = {}
  BY DistinctNone DEF Idle, Taken, TakenBy
<1>3. QED
  BY <1>1, <1>2 DEF Work

LEMMA SubmitWork ==
    ASSUME Types, Idle, NEW t \in Threads, NEW reqs \in Seq(Requests), Submit(t, reqs),
           Distinct(reqs, SymOf), UNCHANGED <<filling, results>>
    PROVE  Apart' /\ Work' = {Entry("queue", r, FALSE) : r \in Elems(reqs)}
<1>1. queue' = reqs
  <2>1. queue' = << >> \o reqs
    BY DEF Submit, Idle
  <2>2. QED
    BY <2>1
<1>2. Queued' = {Entry("queue", r, FALSE) : r \in Elems(reqs)}
  BY <1>1 DEF Queued
<1>3. Filling' = {} /\ Reported' = {}
  BY DistinctNone DEF Idle, Filling, Reported
<1>4. \A u \in Threads : Undealt(u)' = << >>
  <2>1. /\ pc'[t] = "collect" /\ \A u \in Threads : u # t => pc'[u] = pc[u]
        /\ got'[t] = << >> /\ \A u \in Threads : u # t => got'[u] = got[u]
    BY PlaceOfLoop DEF Submit, Types, ThreadType
  <2>2. Undealt(t)' = << >>
    BY <2>1 DEF Undealt
  <2>3. \A u \in Threads : u # t => Undealt(u)' = Undealt(u)
    BY <2>1, SamePlace
  <2>4. QED
    BY <2>2, <2>3 DEF Idle
<1>5. Threads' = Threads /\ ResultSym' = ResultSym /\ SymOf' = SymOf
  BY DEF SymOf, ResultSym, Outcomes, Requests, Threads, Exiters
<1>6. Taken' = {}
  <2>1. \A u \in Threads : TakenBy(u)' = {}
    BY <1>4, DistinctNone DEF TakenBy
  <2>2. QED
    BY <1>5, <2>1 DEF Taken
<1>7. Work' = {Entry("queue", r, FALSE) : r \in Elems(reqs)}
  BY <1>2, <1>3, <1>6 DEF Work
<1>8. OneEach'
  <2>1. \A r \in Elems(reqs) : Entry("queue", r, FALSE).req = r /\ r \in Requests
    BY DEF Entry, Elems
  <2>2. \A r1, r2 \in Elems(reqs) : r1.sym = r2.sym => r1 = r2
    <3> SUFFICES ASSUME NEW r1 \in Elems(reqs), NEW r2 \in Elems(reqs), r1.sym = r2.sym
                 PROVE  r1 = r2
      OBVIOUS
    <3>1. SymOf[r1] = SymOf[r2]
      BY <2>1 DEF SymOf
    <3>2. QED
      BY <3>1 DEF Distinct, Elems
  <2>3. ASSUME NEW v \in Work', NEW w \in Work', v.req.sym = w.req.sym PROVE v = w
    <3>1. PICK r1 \in Elems(reqs) : v = Entry("queue", r1, FALSE)
      BY <1>7, <2>3
    <3>2. PICK r2 \in Elems(reqs) : w = Entry("queue", r2, FALSE)
      BY <1>7, <2>3
    <3>3. v.req = r1 /\ w.req = r2
      BY <2>1, <3>1, <3>2
    <3>4. r1 = r2
      BY <2>2, <2>3, <3>3
    <3>5. QED
      BY <3>1, <3>2, <3>4
  <2>4. QED
    BY <2>3 DEF OneEach
<1>9. Distinct(filling', SymOf) /\ Distinct(results', ResultSym)
  BY DistinctNone DEF Idle
<1>10. \A u \in Threads : Distinct(Undealt(u)', ResultSym)
  BY <1>4, DistinctNone
<1>11. QED
  BY <1>1, <1>5, <1>7, <1>8, <1>9, <1>10 DEF Apart

-----------------------------------------------------------------------------
(* Orderly runs: the invariant                                             *)

Busy(t) == pc[t] \in {"collect", "record", "clear"}
InExit(t) == pc[t] \in {"exit", "collect", "record", "clear"}

\* At most one exit runs, and none during a cycle.
OneAtATime == /\ \A t, u \in Exiters : InExit(t) /\ InExit(u) => t = u
              /\ (\E t \in Exiters : InExit(t)) => Asleep

\* The orders in work for a symbol; by OneEach at most one.
Of(s) == {w \in Work : w.req.sym = s}

\* What is in work during an exit is that exit's order.
Answers == \A t \in Exiters : Busy(t) =>
              /\ batch[t][1].act \in Exits
              /\ \A w \in Work : w.req = batch[t][1]

\* The market close has cleared positions.
Ended == pc["loop"] = "ended" /\ clock # "open"

\* An exit is ordered for all there is, and fills it: from then on the position is gone from
\* the paper book and only the order remembers what is still to be booked.
Exact(s) == \A w \in Of(s) : w.req.act \in Exits =>
               /\ w.at = "queue" => w.req.qty = Size(paper[s]) /\ w.req.snap = paper[s]
               /\ w.ok = TRUE => /\ paper[s] = 0 /\ Size(w.req.snap) = w.req.qty
                                 /\ booked[s] + w.req.qty = closed[s]
Settles(s) == booked[s] = closed[s] \/ \E w \in Of(s) : w.ok = TRUE /\ w.req.act \in Exits
InSync(s) == \/ positions[s] = paper[s]
             \/ \E w \in Of(s) : w.at = "filling"
             \/ Ended /\ positions[s] = 0
Reserves(s) == reserved[s] # 0 =>
                  reserved[s] = Lot /\ \E w \in Of(s) : w.req.act \in Opens \cup Expands
Stays(s) == ~May("restored") /\ s \in exited => paper[s] = 0 /\ positions[s] = 0 /\ Of(s) = {}

Agrees(s) == Exact(s) /\ Settles(s) /\ InSync(s) /\ Reserves(s) /\ Stays(s)

\* The symbol a thread at "clear" has closed.
Clearing(t) == IF t = "loop" THEN Head(got[t]).req.sym ELSE batch[t][1].sym
Cleared == \A t \in Threads : pc[t] = "clear" =>
              /\ paper[Clearing(t)] = 0 /\ positions[Clearing(t)] = 0
              /\ Of(Clearing(t)) = {}

Seen == pc["loop"] = "decide" => view = paper
Dropped == ~May("restored") =>
              /\ exitDocs \subseteq exited
              /\ pc["loop"] \in {"fetch", "decide"} => active \cap exited = {}

OrderlyInv == Orderly => /\ OneAtATime /\ Apart /\ Answers /\ Cleared /\ Seen /\ Dropped
                         /\ \A s \in Symbols : Agrees(s)

\* While one thread has orders in work no other has.
LEMMA Alone ==
    ASSUME Types, OneAtATime, NEW t \in Threads, Busy(t), NEW u \in Threads, u # t
    PROVE  ~Busy(u) /\ Undealt(u) = << >>
<1>1. ~Busy(u)
  <2>1. CASE t = "loop"
    <3>1. ~Asleep /\ u \in Exiters
      BY <2>1, ThreadsAre DEF Asleep, Busy, Threads
    <3>2. QED
      BY <3>1 DEF OneAtATime, InExit, Busy
  <2>2. CASE t # "loop"
    <3>1. t \in Exiters /\ InExit(t)
      BY <2>2 DEF Threads, Busy, InExit
    <3>2. CASE u = "loop"
      BY <3>1, <3>2 DEF OneAtATime, Asleep, Busy
    <3>3. CASE u # "loop"
      <4>1. u \in Exiters
        BY <3>3 DEF Threads
      <4>2. QED
        BY <3>1, <4>1 DEF OneAtATime, InExit, Busy
    <3>4. QED
      BY <3>2, <3>3
  <2>3. QED
    BY <2>1, <2>2
<1>2. QED
  BY <1>1 DEF Undealt, Busy

\* When nobody waits for a result none is to come.
LEMMA NothingComes ==
    ASSUME Types, Counted, Orderly, \A t \in Threads : pc[t] # "collect"
    PROVE  queue = << >> /\ filling = << >> /\ results = << >>
<1>1. ~May("timeout")
  BY DEF Orderly, May
<1>2. \A t \in Threads : Missings[t] = 0
  BY DEF Missings, Missing
<1>3. OnTheWay = 0
  BY <1>1, <1>2, ThreadsFinite, SumNothing DEF Counted
<1>4. queue \in Seq(Requests) /\ filling \in Seq(Requests) /\ results \in Seq(Outcomes)
  BY DEF Types, ExecType
<1>5. Len(queue) \in Nat /\ Len(filling) \in Nat /\ Len(results) \in Nat
  BY <1>4
<1>6. Len(queue) = 0 /\ Len(filling) = 0 /\ Len(results) = 0
  BY <1>3, <1>5 DEF OnTheWay
<1>7. QED
  BY <1>4, <1>6

LEMMA NobodyBusy ==
    ASSUME Types, Counted, Orderly, \A t \in Threads : ~Busy(t)
    PROVE  Idle /\ Work = {} /\ \A s \in Symbols : Of(s) = {}
<1>1. \A t \in Threads : pc[t] # "collect" /\ Undealt(t) = << >>
  BY DEF Busy, Undealt
<1>2. Idle
  BY <1>1, NothingComes DEF Idle
<1>3. Work = {}
  BY <1>2, IdleWork
<1>4. QED
  BY <1>2, <1>3 DEF Of

\* What a step leaves alone stays in agreement.
LEMMA StaysAgreed ==
    ASSUME NEW s \in Symbols, Agrees(s), Of(s)' = Of(s), irregular' = irregular,
           paper'[s] = paper[s], booked'[s] = booked[s], closed'[s] = closed[s],
           positions'[s] = positions[s] \/ (positions'[s] = 0 /\ Ended'),
           reserved'[s] = reserved[s] \/ reserved'[s] = 0,
           ~May("restored") => (s \in exited' <=> s \in exited),
           Ended => Ended'
    PROVE  Agrees(s)'
<1>1. Exact(s)'
  BY DEF Agrees, Exact
<1>2. Settles(s)'
  BY DEF Agrees, Settles
<1>3. InSync(s)'
  BY DEF Agrees, InSync
<1>4. Reserves(s)'
  BY DEF Agrees, Reserves
<1>5. Stays(s)'
  BY DEF Agrees, Stays, May
<1>6. QED
  BY <1>1, <1>2, <1>3, <1>4, <1>5 DEF Agrees

\* An order that moves is the only one of its symbol; the other symbols' orders stay.
LEMMA MovesOf ==
    ASSUME OneEach, NEW v, NEW w, Moves(v, w)
    PROVE  /\ Of(v.req.sym) = {v} /\ Of(v.req.sym)' = {w}
           /\ \A s \in Symbols : s # v.req.sym => Of(s)' = Of(s)
           /\ \A x \in Work' : \E y \in Work : x.req = y.req
<1>1. v \in Work /\ w.req = v.req /\ Work' = (Work \ {v}) \cup {w}
  BY DEF Moves
<1>2. \A x \in Work : x.req.sym = v.req.sym => x = v
  BY <1>1 DEF OneEach
<1>3. Of(v.req.sym) = {v}
  BY <1>1, <1>2 DEF Of
<1>4. Of(v.req.sym)' = {w}
  BY <1>1, <1>2 DEF Of
<1>5. \A s \in Symbols : s # v.req.sym => Of(s)' = Of(s)
  BY <1>1, <1>2 DEF Of
<1>6. QED
  BY <1>1, <1>3, <1>4, <1>5

\* A step of an order, with a thread waiting, moves no thread: what is not about the books
\* stays.
LEMMA WorkMoves ==
    ASSUME Types, Counted, Orderly, OrderlyInv, NEW v, NEW w, Moves(v, w), Apart',
           UNCHANGED <<irregular, pc, batch, active, exited, exitDocs>>,
           queue # << >> \/ filling # << >> \/ results # << >>,
           \A s \in Symbols : Agrees(s)'
    PROVE  OrderlyInv'
<1>1. PICK t \in Threads : pc[t] = "collect"
  BY NothingComes
<1>2. \A u \in Threads : u # t => ~Busy(u)
  BY <1>1, Alone DEF Busy, OrderlyInv
<1>3. \A u \in Threads : pc[u] # "clear"
  BY <1>1, <1>2 DEF Busy
<1>4. OneAtATime'
  BY DEF OrderlyInv, OneAtATime, Asleep, InExit
<1>5. Answers'
  <2>1. \A x \in Work' : \E y \in Work : x.req = y.req
    BY MovesOf DEF OrderlyInv, Apart
  <2>2. QED
    BY <2>1 DEF OrderlyInv, Answers, Busy
<1>6. Cleared'
  <2>1. Threads' = Threads
    BY DEF Threads, Exiters
  <2>2. QED
    BY <1>3, <2>1 DEF Cleared
<1>7. pc["loop"] # "decide"
  <2>1. CASE t = "loop"
    BY <1>1, <2>1
  <2>2. CASE t # "loop"
    BY <1>1, <2>2 DEF OrderlyInv, OneAtATime, InExit, Asleep, Threads
  <2>3. QED
    BY <2>1, <2>2
<1>8. Seen' /\ Dropped'
  BY <1>7 DEF Seen, Dropped, OrderlyInv, May
<1>9. QED
  BY <1>4, <1>5, <1>6, <1>8 DEF OrderlyInv

\* A fill of an exit takes the position off the paper book.
LEMMA ExitFills ==
    ASSUME NEW n \in Int, NEW r \in Requests, r.act \in Exits, r.qty = Size(n)
    PROVE  Filled(n, r) = 0 /\ Least(Size(n), r.qty) = r.qty
<1>1. r.act \notin Flips
  BY ActsDiffer
<1>2. Filled(n, r) = Shrunk(n, r.qty)
  BY <1>1 DEF Filled
<1>3. Size(n) \in Nat
  BY SignSize
<1>4. Shrunk(n, r.qty) = 0
  BY <1>3 DEF Shrunk
<1>5. QED
  BY <1>2, <1>3, <1>4 DEF Least

LEMMA ExecuteOrderly ==
    ASSUME Types, Counted, Orderly, OrderlyInv, NEW i \in DOMAIN queue, Execute(i)
    PROVE  OrderlyInv'
<1>r. PICK r \in Requests : r = queue[i]
  BY DEF Types, ExecType
<1>s. PICK s \in Symbols : s = r.sym
  BY RequestHas
<1>v. PICK v : v = Entry("queue", r, FALSE)
  OBVIOUS
<1>a. PICK a : a = Entry("results", r, FALSE)
  OBVIOUS
<1>b. PICK b : b = Entry("filling", r, TRUE)
  OBVIOUS
<1>1. r.qty \in Nat \ {0} /\ r.snap \in Int
  BY RequestHas
<1>2. v.req = r /\ v.at = "queue" /\ a.req = r /\ a.at = "results" /\ b.req = r /\ b.at = "filling"
  BY <1>v, <1>a, <1>b DEF Entry
<1>3. v.ok = FALSE
  BY <1>v DEF Entry
<1>4. a.ok = FALSE
  BY <1>a DEF Entry
<1>5. b.ok = TRUE
  BY <1>b DEF Entry
<1>6. UNCHANGED <<irregular, clock, pc, batch, active, exited, exitDocs, positions, booked,
                  reserved>>
  BY DEF Execute, outside, exposure, exitVars, loopVars, threads
<1>7. queue # << >>
  OBVIOUS
<1>8. Ended => Ended'
  BY <1>6 DEF Ended
<1>9. Agrees(s) /\ OneEach /\ \A u \in Symbols : Agrees(u)
  BY DEF OrderlyInv, Apart
<1>10. Apart' /\ \/ Moves(v, a) /\ paper' = paper /\ closed' = closed
                 \/ /\ Moves(v, b)
                    /\ paper' = [paper EXCEPT ![s] = Filled(@, r)]
                    /\ closed' = [closed EXCEPT ![s] = @ +
                           IF r.act \in Exits THEN Least(Size(paper[s]), r.qty) ELSE 0]
  BY <1>r, <1>s, <1>v, <1>a, <1>b, ExecuteMoves DEF OrderlyInv
<1>11. /\ paper \in [Symbols -> Int] /\ closed \in [Symbols -> Nat] /\ booked \in [Symbols -> Nat]
  BY DEF Types, BookType
<1>12. CASE Moves(v, a) /\ paper' = paper /\ closed' = closed
  <2>1. Of(s) = {v} /\ Of(s)' = {a} /\ \A u \in Symbols : u # s => Of(u)' = Of(u)
    BY <1>s, <1>2, <1>9, <1>12, MovesOf
  <2>2. Agrees(s)'
    <3>1. Exact(s)'
      BY <1>2, <1>4, <2>1 DEF Exact
    <3>2. Settles(s)'
      BY <1>3, <1>6, <1>9, <1>12, <2>1 DEF Agrees, Settles
    <3>3. InSync(s)'
      BY <1>2, <1>6, <1>8, <1>9, <1>12, <2>1 DEF Agrees, InSync
    <3>4. Reserves(s)'
      BY <1>2, <1>6, <1>9, <2>1 DEF Agrees, Reserves
    <3>5. Stays(s)'
      BY <1>6, <1>9, <2>1 DEF Agrees, Stays, May
    <3>6. QED
      BY <3>1, <3>2, <3>3, <3>4, <3>5 DEF Agrees
  <2>3. \A u \in Symbols : Agrees(u)'
    BY <1>6, <1>8, <1>9, <1>12, <2>1, <2>2, StaysAgreed
  <2>4. QED
    BY <1>6, <1>7, <1>10, <1>12, <2>3, WorkMoves
<1>13. CASE /\ Moves(v, b)
            /\ paper' = [paper EXCEPT ![s] = Filled(@, r)]
            /\ closed' = [closed EXCEPT ![s] = @ +
                   IF r.act \in Exits THEN Least(Size(paper[s]), r.qty) ELSE 0]
  <2>1. Of(s) = {v} /\ Of(s)' = {b} /\ \A u \in Symbols : u # s => Of(u)' = Of(u)
    BY <1>s, <1>2, <1>9, <1>13, MovesOf
  <2>2. booked[s] = closed[s]
    BY <1>3, <1>9, <2>1 DEF Agrees, Settles
  <2>3. r.act \in Exits => r.qty = Size(paper[s]) /\ r.snap = paper[s]
    BY <1>2, <1>9, <2>1 DEF Agrees, Exact
  <2>4. r.act \in Exits => /\ paper'[s] = 0 /\ Size(r.snap) = r.qty
                           /\ closed'[s] = closed[s] + r.qty
    <3> SUFFICES ASSUME r.act \in Exits
                 PROVE  paper'[s] = 0 /\ Size(r.snap) = r.qty /\ closed'[s] = closed[s] + r.qty
      OBVIOUS
    <3>1. Filled(paper[s], r) = 0 /\ Least(Size(paper[s]), r.qty) = r.qty
      BY <1>1, <1>11, <2>3, ExitFills
    <3>2. QED
      BY <1>1, <1>11, <1>13, <2>3, <3>1
  <2>5. r.act \notin Exits => closed'[s] = closed[s]
    BY <1>1, <1>11, <1>13
  <2>6. Agrees(s)'
    <3>1. Exact(s)'
      BY <1>2, <1>6, <2>1, <2>2, <2>4 DEF Exact
    <3>2. Settles(s)'
      BY <1>2, <1>5, <1>6, <2>1, <2>2, <2>5 DEF Settles
    <3>3. InSync(s)'
      BY <1>2, <2>1 DEF InSync
    <3>4. Reserves(s)'
      BY <1>2, <1>6, <1>9, <2>1 DEF Agrees, Reserves
    <3>5. Stays(s)'
      BY <1>6, <1>9, <2>1 DEF Agrees, Stays, May
    <3>6. QED
      BY <3>1, <3>2, <3>3, <3>4, <3>5 DEF Agrees
  <2>7. \A u \in Symbols : u # s => paper'[u] = paper[u] /\ closed'[u] = closed[u]
    BY <1>11, <1>13
  <2>8. \A u \in Symbols : Agrees(u)'
    BY <1>6, <1>8, <1>9, <2>1, <2>6, <2>7, StaysAgreed
  <2>9. QED
    BY <1>6, <1>7, <1>10, <1>13, <2>8, WorkMoves
<1>14. QED
  BY <1>10, <1>12, <1>13

LEMMA ClearingIs ==
    ASSUME Types, NEW t \in Threads, pc[t] = "clear"
    PROVE  Clearing(t) \in Symbols
<1>1. CASE t = "loop"
  <2>1. got[t] \in Seq(Outcomes) /\ got[t] # << >>
    BY <1>1 DEF Types, ThreadType, Holds
  <2>2. Head(got[t]) \in Outcomes
    BY <2>1
  <2>3. QED
    BY <1>1, <2>2, OutcomeHas, RequestHas DEF Clearing
<1>2. CASE t # "loop"
  <2>1. batch[t] \in Seq(Requests) /\ Len(batch[t]) = 1
    BY <1>2 DEF Types, ThreadType, Holds
  <2>2. batch[t][1] \in Requests
    BY <2>1
  <2>3. QED
    BY <1>2, <2>2, RequestHas DEF Clearing
<1>3. QED
  BY <1>1, <1>2

LEMMA SyncOrderly ==
    ASSUME Types, Counted, Orderly, OrderlyInv, NEW i \in DOMAIN filling, SyncPositions(i)
    PROVE  OrderlyInv'
<1>r. PICK r \in Requests : r = filling[i]
  BY DEF Types, ExecType
<1>s. PICK s \in Symbols : s = r.sym
  BY RequestHas
<1>v. PICK v : v = Entry("filling", r, TRUE)
  OBVIOUS
<1>a. PICK a : a = Entry("results", r, TRUE)
  OBVIOUS
<1>1. v.req = r /\ v.at = "filling" /\ a.req = r /\ a.at = "results"
  BY <1>v, <1>a DEF Entry
<1>2. v.ok = TRUE
  BY <1>v DEF Entry
<1>3. a.ok = TRUE
  BY <1>a DEF Entry
<1>4. UNCHANGED <<irregular, clock, pc, batch, active, exited, exitDocs, paper, booked, closed,
                  reserved>>
  BY DEF SyncPositions, outside, exposure, exitVars, loopVars, threads
<1>5. positions' = [positions EXCEPT ![s] = paper[s]] /\ positions \in [Symbols -> Int]
  BY <1>r, <1>s DEF SyncPositions, Synced, Types, BookType
<1>6. filling # << >>
  OBVIOUS
<1>7. Ended => Ended'
  BY <1>4 DEF Ended
<1>8. Agrees(s) /\ OneEach /\ \A u \in Symbols : Agrees(u)
  BY DEF OrderlyInv, Apart
<1>9. Apart' /\ Moves(v, a)
  BY <1>r, <1>v, <1>a, SyncMoves DEF OrderlyInv
<1>10. Of(s) = {v} /\ Of(s)' = {a} /\ \A u \in Symbols : u # s => Of(u)' = Of(u)
  BY <1>s, <1>1, <1>8, <1>9, MovesOf
<1>11. Agrees(s)'
  <2>1. Exact(s)'
    BY <1>1, <1>2, <1>3, <1>4, <1>8, <1>10 DEF Agrees, Exact
  <2>2. Settles(s)'
    BY <1>1, <1>2, <1>3, <1>4, <1>8, <1>10 DEF Agrees, Settles
  <2>3. InSync(s)'
    BY <1>4, <1>5 DEF InSync
  <2>4. Reserves(s)'
    BY <1>1, <1>4, <1>8, <1>10 DEF Agrees, Reserves
  <2>5. Stays(s)'
    BY <1>4, <1>8, <1>10 DEF Agrees, Stays, May
  <2>6. QED
    BY <2>1, <2>2, <2>3, <2>4, <2>5 DEF Agrees
<1>12. \A u \in Symbols : u # s => positions'[u] = positions[u]
  BY <1>5
<1>13. \A u \in Symbols : Agrees(u)'
  BY <1>4, <1>7, <1>8, <1>10, <1>11, <1>12, StaysAgreed
<1>14. QED
  BY <1>4, <1>6, <1>9, <1>13, WorkMoves

LEMMA CollectOrderly ==
    ASSUME Types, Counted, Orderly, OrderlyInv, NEW t \in Threads, Collect(t)
    PROVE  OrderlyInv'
<1>o. PICK o \in Outcomes : o = Head(results)
  BY CollectMoves DEF OrderlyInv
<1>s. PICK s \in Symbols : s = o.req.sym
  BY OutcomeHas, RequestHas
<1>v. PICK v : v = Entry("results", o.req, o.ok)
  OBVIOUS
<1>a. PICK a : a = Entry("got", o.req, o.ok)
  OBVIOUS
<1>1. v.req = o.req /\ v.at = "results" /\ a.req = o.req /\ a.at = "got"
  BY <1>v, <1>a, EntryIs
<1>2. v.ok = o.ok /\ a.ok = o.ok
  BY <1>v, <1>a, EntryIs
<1>3. UNCHANGED <<irregular, clock, pc, batch, active, exited, exitDocs, paper, booked, closed,
                  positions, reserved>>
  BY DEF Collect, outside, exposure, exitVars, loopVars, threads, book
<1>4. results # << >>
  BY DEF Collect
<1>5. Ended => Ended'
  BY <1>3 DEF Ended
<1>6. Agrees(s) /\ OneEach /\ \A u \in Symbols : Agrees(u)
  BY DEF OrderlyInv, Apart
<1>7. Apart' /\ Moves(v, a)
  BY <1>o, <1>v, <1>a, CollectMoves DEF OrderlyInv
<1>8. Of(s) = {v} /\ Of(s)' = {a} /\ \A u \in Symbols : u # s => Of(u)' = Of(u)
  BY <1>s, <1>1, <1>6, <1>7, MovesOf
<1>9. Agrees(s)'
  <2>1. Exact(s)'
    BY <1>1, <1>2, <1>3, <1>6, <1>8 DEF Agrees, Exact
  <2>2. Settles(s)'
    BY <1>1, <1>2, <1>3, <1>6, <1>8 DEF Agrees, Settles
  <2>3. InSync(s)'
    BY <1>1, <1>3, <1>5, <1>6, <1>8 DEF Agrees, InSync
  <2>4. Reserves(s)'
    BY <1>1, <1>3, <1>6, <1>8 DEF Agrees, Reserves
  <2>5. Stays(s)'
    BY <1>3, <1>6, <1>8 DEF Agrees, Stays, May
  <2>6. QED
    BY <2>1, <2>2, <2>3, <2>4, <2>5 DEF Agrees
<1>10. \A u \in Symbols : Agrees(u)'
  BY <1>3, <1>5, <1>6, <1>8, <1>9, StaysAgreed
<1>11. QED
  BY <1>3, <1>4, <1>7, <1>10, WorkMoves

\* The steps that leave orders and books alone: threads come and go, the loop takes notice of
\* what it finds, and the market close clears positions.
AtPeace ==
    /\ UNCHANGED <<irregular, queue, filling, results, paper, booked, closed, exitDocs>>
    /\ \A t \in Threads : Undealt(t)' = Undealt(t)
    /\ \A t \in Threads : pc'[t] = "clear" =>
          pc[t] = "clear" /\ got'[t] = got[t] /\ batch'[t] = batch[t]
    /\ \A t \in Exiters : Busy(t)' => Busy(t) /\ batch'[t] = batch[t]
    /\ \A s \in Symbols : /\ positions'[s] = positions[s] \/ (positions'[s] = 0 /\ Ended')
                          /\ reserved'[s] = reserved[s] \/ reserved'[s] = 0
    /\ ~May("restored") /\ exitDocs \subseteq exited => exited' = exited
    /\ pc'["loop"] = "decide" => view' = paper \/ (pc["loop"] = "decide" /\ view' = view)
    /\ pc'["loop"] \in {"fetch", "decide"} =>
          active' \cap exited' = {} \/ (pc["loop"] \in {"fetch", "decide"} /\ active' = active)
    /\ Ended => Ended'

LEMMA PeaceOrderly ==
    ASSUME Types, Orderly, OrderlyInv, AtPeace, OneAtATime'
    PROVE  OrderlyInv'
<1>1. Apart' /\ Work' = Work
  BY SameWork DEF OrderlyInv, AtPeace
<1>2. \A s \in Symbols : Of(s)' = Of(s)
  BY <1>1 DEF Of
<1>3. ~May("restored") => exited' = exited
  BY DEF OrderlyInv, Dropped, AtPeace
<1>4. \A s \in Symbols : Agrees(s)'
  BY <1>2, <1>3, StaysAgreed DEF OrderlyInv, AtPeace
<1>5. Answers'
  BY <1>1 DEF OrderlyInv, Answers, AtPeace
<1>6. Cleared'
  <2> SUFFICES ASSUME NEW t \in Threads, pc'[t] = "clear"
               PROVE  /\ paper'[Clearing(t)'] = 0 /\ positions'[Clearing(t)'] = 0
                      /\ Of(Clearing(t))' = {}
    BY DEF Cleared, Threads, Exiters
  <2>1. pc[t] = "clear" /\ Clearing(t)' = Clearing(t)
    BY DEF AtPeace, Clearing
  <2>2. /\ paper[Clearing(t)] = 0 /\ positions[Clearing(t)] = 0 /\ Of(Clearing(t)) = {}
    BY <2>1 DEF OrderlyInv, Cleared
  <2>3. Clearing(t) \in Symbols
    BY <2>1, ClearingIs
  <2>4. Of(Clearing(t))' = Of(Clearing(t))
    BY <1>1, <2>1 DEF Of
  <2>5. QED
    BY <2>1, <2>2, <2>3, <2>4 DEF AtPeace
<1>7. Seen'
  BY DEF OrderlyInv, Seen, AtPeace
<1>8. Dropped'
  BY <1>3 DEF OrderlyInv, Dropped, AtPeace, May
<1>9. QED
  BY <1>1, <1>4, <1>5, <1>6, <1>7, <1>8 DEF OrderlyInv

\* What one thread's step does to the threads, when it neither submits nor deals with anything.
LEMMA ThreadGoes ==
    ASSUME Types, OneAtATime, NEW t \in Threads, NEW p, Goto(t, p), got' = got, batch' = batch,
           \/ pc[t] = "collect" /\ p = "record"
           \/ /\ p \notin {"exit", "collect", "record", "clear"}
              /\ Busy(t) => pc[t] = "record" /\ got[t] = << >>,
           t = "loop" => \/ pc["loop"] \notin {"top", "ended"}
                         \/ p \in {"top", "ended"}
                         \/ \A u \in Exiters : ~InExit(u)
    PROVE  /\ OneAtATime'
           /\ \A u \in Threads : Undealt(u)' = Undealt(u)
           /\ \A u \in Threads : pc'[u] = "clear" =>
                 pc[u] = "clear" /\ got'[u] = got[u] /\ batch'[u] = batch[u]
           /\ \A u \in Exiters : Busy(u)' => Busy(u) /\ batch'[u] = batch[u]
           /\ pc'[t] = p /\ \A u \in Threads : u # t => pc'[u] = pc[u]
           /\ t # "loop" => pc'["loop"] = pc["loop"]
<1>1. /\ pc'[t] = p /\ \A u \in Threads : u # t => pc'[u] = pc[u]
      /\ t # "loop" => pc'["loop"] = pc["loop"]
  BY PlaceOfLoop
<1>2. Exiters \subseteq Threads /\ "loop" \in Threads /\ \A u \in Exiters : u # "loop"
  BY ThreadsAre DEF Threads, Exiters
<1>3. \A u \in Exiters : InExit(u)' => InExit(u)
  <2> TAKE u \in Exiters
  <2>1. CASE u = t
    BY <1>1, <2>1 DEF InExit
  <2>2. CASE u # t
    BY <1>1, <1>2, <2>2 DEF InExit
  <2>3. QED
    BY <2>1, <2>2
<1>4. (\E u \in Exiters : InExit(u)') => Asleep'
  <2> SUFFICES ASSUME NEW u \in Exiters, InExit(u)'
               PROVE  Asleep'
    OBVIOUS
  <2>1. InExit(u) /\ Asleep
    BY <1>3 DEF OneAtATime
  <2>2. CASE t = "loop"
    BY <1>1, <2>1, <2>2 DEF Asleep
  <2>3. CASE t # "loop"
    BY <1>1, <2>1, <2>3 DEF Asleep
  <2>4. QED
    BY <2>2, <2>3
<1>5. OneAtATime'
  <2>1. Exiters' = Exiters
    BY DEF Exiters
  <2>2. QED
    BY <1>3, <1>4, <2>1 DEF OneAtATime
<1>6. \A u \in Threads : Undealt(u)' = Undealt(u)
  <2> TAKE u \in Threads
  <2>1. CASE u = t
    BY <1>1, <2>1 DEF Undealt, Busy
  <2>2. CASE u # t
    BY <1>1, <2>2, SamePlace
  <2>3. QED
    BY <2>1, <2>2
<1>7. \A u \in Threads : pc'[u] = "clear" =>
         pc[u] = "clear" /\ got'[u] = got[u] /\ batch'[u] = batch[u]
  BY <1>1
<1>8. \A u \in Exiters : Busy(u)' => Busy(u) /\ batch'[u] = batch[u]
  BY <1>1, <1>2 DEF Busy
<1>9. QED
  BY <1>1, <1>5, <1>6, <1>7, <1>8

LEMMA LoopAtPeace ==
    ASSUME Types, Orderly, OrderlyInv, LoopTop \/ LoopFetch \/ LoopRecorded \/ LoopCycled
    PROVE  AtPeace /\ OneAtATime'
<1>0. "loop" \in Threads /\ OneAtATime
  BY ThreadsAre DEF OrderlyInv
<1>1. CASE LoopTop
  <2>1. UNCHANGED <<irregular, clock, queue, filling, results, paper, booked, closed, reserved,
                    exitDocs, got, batch>>
    BY <1>1 DEF LoopTop, outside, exec
  <2>2. \A u \in Exiters : ~InExit(u)
    BY <1>1 DEF LoopTop, Orderly, May, Exiting, InExit
  <2>3. PICK p \in {"pyramid", "ended", "fetch"} : Goto("loop", p)
    BY <1>1 DEF LoopTop, SquareOff
  <2>4. pc["loop"] = "top"
    BY <1>1 DEF LoopTop, At
  <2>5. /\ OneAtATime'
        /\ \A u \in Threads : Undealt(u)' = Undealt(u)
        /\ \A u \in Threads : pc'[u] = "clear" =>
              pc[u] = "clear" /\ got'[u] = got[u] /\ batch'[u] = batch[u]
        /\ \A u \in Exiters : Busy(u)' => Busy(u) /\ batch'[u] = batch[u]
        /\ pc'["loop"] = p
    BY <1>0, <2>1, <2>2, <2>3, <2>4, ThreadGoes DEF Busy
  <2>6. \A s \in Symbols : positions'[s] = positions[s] \/ (positions'[s] = 0 /\ Ended')
    <3>1. CASE positions' = positions
      BY <3>1
    <3>2. CASE positions' # positions
      <4>1. SquareOff /\ clock = "closed"
        BY <1>1, <3>2 DEF LoopTop
      <4>2. pc'["loop"] = "ended"
        BY <1>0, <4>1, PlaceOfLoop DEF SquareOff
      <4>3. QED
        BY <2>1, <4>1, <4>2 DEF SquareOff, Flat, Ended
    <3>3. QED
      BY <3>1, <3>2
  <2>7. ~May("restored") /\ exitDocs \subseteq exited => exited' = exited
    BY <1>1 DEF LoopTop
  <2>8. p = "fetch" => active' \cap exited' = {}
    <3> SUFFICES ASSUME p = "fetch" PROVE active' \cap exited' = {}
      OBVIOUS
    <3>1. ~stop
      <4>1. stop => pc'["loop"] = "pyramid"
        BY <1>0, <1>1, PlaceOfLoop DEF LoopTop
      <4>2. QED
        BY <2>5, <4>1
    <3>2. exited' = exited \cup exitDocs /\ active' = active \ (exited \cup exitDocs)
      BY <1>1, <3>1 DEF LoopTop, Remaining
    <3>3. QED
      BY <3>2
  <2>9. Ended => Ended'
    BY <2>4 DEF Ended
  <2>10. AtPeace
    BY <2>1, <2>3, <2>5, <2>6, <2>7, <2>8, <2>9 DEF AtPeace
  <2>11. QED
    BY <2>5, <2>10
<1>2. CASE LoopFetch
  <2>1. UNCHANGED <<irregular, clock, queue, filling, results, paper, booked, closed, positions,
                    reserved, exitDocs, exited, active, got, batch>>
    BY <1>2 DEF LoopFetch, outside, exec, book, exitVars
  <2>2. PICK p \in {"ended", "top", "decide"} : Goto("loop", p) /\ (p = "decide" => view' = paper)
    BY <1>2 DEF LoopFetch
  <2>3. pc["loop"] = "fetch"
    BY <1>2 DEF LoopFetch, At
  <2>4. /\ OneAtATime'
        /\ \A u \in Threads : Undealt(u)' = Undealt(u)
        /\ \A u \in Threads : pc'[u] = "clear" =>
              pc[u] = "clear" /\ got'[u] = got[u] /\ batch'[u] = batch[u]
        /\ \A u \in Exiters : Busy(u)' => Busy(u) /\ batch'[u] = batch[u]
        /\ pc'["loop"] = p
    BY <1>0, <2>1, <2>2, <2>3, ThreadGoes DEF Busy
  <2>5. Ended => Ended'
    BY <2>3 DEF Ended
  <2>6. AtPeace
    BY <2>1, <2>2, <2>3, <2>4, <2>5 DEF AtPeace
  <2>7. QED
    BY <2>4, <2>6
<1>3. CASE LoopRecorded
  <2>1. UNCHANGED <<irregular, clock, queue, filling, results, paper, booked, closed, positions,
                    reserved, exitDocs, exited, active, got, batch>>
    BY <1>3 DEF LoopRecorded, outside, exec, book, exitVars, loopVars, exposure
  <2>2. Goto("loop", "cycled") /\ pc["loop"] = "record" /\ got["loop"] = << >>
    BY <1>3 DEF LoopRecorded, At
  <2>3. /\ OneAtATime'
        /\ \A u \in Threads : Undealt(u)' = Undealt(u)
        /\ \A u \in Threads : pc'[u] = "clear" =>
              pc[u] = "clear" /\ got'[u] = got[u] /\ batch'[u] = batch[u]
        /\ \A u \in Exiters : Busy(u)' => Busy(u) /\ batch'[u] = batch[u]
        /\ pc'["loop"] = "cycled"
    BY <1>0, <2>1, <2>2, ThreadGoes DEF Busy
  <2>4. Ended => Ended'
    BY <2>2 DEF Ended
  <2>5. AtPeace
    BY <2>1, <2>3, <2>4 DEF AtPeace
  <2>6. QED
    BY <2>3, <2>5
<1>4. CASE LoopCycled
  <2>1. UNCHANGED <<irregular, clock, queue, filling, results, paper, booked, closed, reserved,
                    exitDocs, exited, active, got, batch>>
    BY <1>4 DEF LoopCycled, outside, exec, exitVars, loopVars
  <2>2. PICK p \in {"ended", "top"} : Goto("loop", p)
    BY <1>4 DEF LoopCycled, SquareOff
  <2>3. pc["loop"] = "cycled"
    BY <1>4 DEF LoopCycled, At
  <2>4. /\ OneAtATime'
        /\ \A u \in Threads : Undealt(u)' = Undealt(u)
        /\ \A u \in Threads : pc'[u] = "clear" =>
              pc[u] = "clear" /\ got'[u] = got[u] /\ batch'[u] = batch[u]
        /\ \A u \in Exiters : Busy(u)' => Busy(u) /\ batch'[u] = batch[u]
        /\ pc'["loop"] = p
    BY <1>0, <2>1, <2>2, <2>3, ThreadGoes DEF Busy
  <2>5. \A s \in Symbols : positions'[s] = positions[s] \/ (positions'[s] = 0 /\ Ended')
    <3>1. CASE clock = "open"
      BY <1>4, <3>1 DEF LoopCycled
    <3>2. CASE clock # "open"
      <4>1. SquareOff
        BY <1>4, <3>2 DEF LoopCycled
      <4>2. pc'["loop"] = "ended"
        BY <1>0, <4>1, PlaceOfLoop DEF SquareOff
      <4>3. QED
        BY <2>1, <3>2, <4>1, <4>2 DEF SquareOff, Flat, Ended
    <3>3. QED
      BY <3>1, <3>2
  <2>6. Ended => Ended'
    BY <2>3 DEF Ended
  <2>7. AtPeace
    BY <2>1, <2>2, <2>4, <2>5, <2>6 DEF AtPeace
  <2>8. QED
    BY <2>4, <2>7
<1>5. QED
  BY <1>1, <1>2, <1>3, <1>4

LEMMA StaysAtPeace ==
    ASSUME OneAtATime, UNCHANGED <<pc, got, batch, irregular, queue, filling, results, paper,
                                   booked, closed, positions, reserved, exited, exitDocs, active,
                                   view>>,
           clock # "open" => clock' # "open"
    PROVE  AtPeace /\ OneAtATime'
<1>1. \A u \in Threads : Undealt(u)' = Undealt(u)
  BY SamePlace
<1>2. Ended => Ended'
  BY DEF Ended
<1>3. OneAtATime'
  BY DEF OneAtATime, InExit, Asleep, Exiters
<1>4. AtPeace
  BY <1>1, <1>2 DEF AtPeace, Busy
<1>5. QED
  BY <1>3, <1>4

LEMMA ThreadAtPeace ==
    ASSUME Types, Orderly, OrderlyInv, NEW t \in Threads,
           \/ Join(t) \/ ShutdownPyramid(t) \/ ShutdownHalt(t)
           \/ t = "monitor" /\ (MonitorStop \/ MonitorJoin)
           \/ t \in Symbols /\ RmsSubmit(t) /\ paper[t] = 0
    PROVE  AtPeace /\ OneAtATime'
<1>1. UNCHANGED <<irregular, clock, queue, filling, results, paper, booked, closed, positions,
                  exitDocs, exited, active, view, got, batch>>
  BY DEF Join, ShutdownPyramid, ShutdownHalt, MonitorStop, MonitorJoin, RmsSubmit, outside, book,
         exec, exitVars, loopVars
<1>2. \A s \in Symbols : reserved'[s] = reserved[s] \/ reserved'[s] = 0
  BY DEF Join, ShutdownPyramid, ShutdownHalt, MonitorStop, MonitorJoin, RmsSubmit, exposure, Flat
<1>3. \E p : /\ Goto(t, p)
             /\ p \notin {"fetch", "decide"}
             /\ \/ pc[t] = "collect" /\ p = "record"
                \/ p \notin {"exit", "collect", "record", "clear"} /\ ~Busy(t)
             /\ t = "loop" => pc["loop"] \notin {"top", "ended"}
  <2>1. CASE Join(t)
    <3>1. Goto(t, "record") /\ pc[t] = "collect"
      BY <2>1 DEF Join, At
    <3>2. QED
      BY <3>1
  <2>2. CASE ShutdownPyramid(t)
    <3>1. Goto(t, "halt") /\ pc[t] = "pyramid"
      BY <2>2 DEF ShutdownPyramid, At
    <3>2. QED
      BY <3>1 DEF Busy
  <2>3. CASE ShutdownHalt(t)
    <3>1. Goto(t, "ended") /\ pc[t] = "halt"
      BY <2>3 DEF ShutdownHalt, At
    <3>2. QED
      BY <3>1 DEF Busy
  <2>4. CASE t = "monitor" /\ (MonitorStop \/ MonitorJoin)
    <3>1. /\ pc[t] = "watch" \/ pc[t] = "joining"
          /\ Goto(t, "joining") \/ Goto(t, "ended") \/ Goto(t, "pyramid")
      BY <2>4 DEF MonitorStop, MonitorJoin, At
    <3>2. QED
      BY <2>4, <3>1 DEF Busy
  <2>5. CASE t \in Symbols /\ RmsSubmit(t) /\ paper[t] = 0
    <3>1. pc[t] = "exit" /\ Goto(t, "none") /\ t # "loop"
      BY <2>5, ThreadsAre DEF RmsSubmit, At, Back
    <3>2. QED
      BY <3>1 DEF Busy
  <2>6. QED
    BY <2>1, <2>2, <2>3, <2>4, <2>5
<1>4. PICK p : /\ Goto(t, p)
               /\ p \notin {"fetch", "decide"}
               /\ \/ pc[t] = "collect" /\ p = "record"
                  \/ p \notin {"exit", "collect", "record", "clear"} /\ ~Busy(t)
               /\ t = "loop" => pc["loop"] \notin {"top", "ended"}
  BY <1>3
<1>5. /\ OneAtATime'
      /\ \A u \in Threads : Undealt(u)' = Undealt(u)
      /\ \A u \in Threads : pc'[u] = "clear" =>
            pc[u] = "clear" /\ got'[u] = got[u] /\ batch'[u] = batch[u]
      /\ \A u \in Exiters : Busy(u)' => Busy(u) /\ batch'[u] = batch[u]
      /\ pc'[t] = p
      /\ t # "loop" => pc'["loop"] = pc["loop"]
  <2>1. OneAtATime
    BY DEF OrderlyInv
  <2>2. QED
    BY <1>1, <1>4, <2>1, ThreadGoes
<1>6. Ended => Ended'
  <2>1. CASE t = "loop"
    BY <1>4, <2>1 DEF Ended
  <2>2. CASE t # "loop"
    BY <1>1, <1>5, <2>2 DEF Ended
  <2>3. QED
    BY <2>1, <2>2
<1>7. pc'["loop"] = pc["loop"] \/ pc'["loop"] \notin {"fetch", "decide"}
  <2>1. pc'[t] = p
    BY <1>4, PlaceOfLoop
  <2>2. QED
    BY <1>4, <1>5, <2>1
<1>8. AtPeace
  BY <1>1, <1>2, <1>5, <1>6, <1>7 DEF AtPeace
<1>9. QED
  BY <1>5, <1>8

LEMMA TickAtPeace ==
    ASSUME Types, Orderly, OrderlyInv, NEW s \in Symbols, Tick(s)
    PROVE  AtPeace /\ OneAtATime'
<1>1. UNCHANGED <<irregular, clock, queue, filling, results, paper, booked, closed, positions,
                  reserved, exitDocs, exited, active, view, got, batch>>
  BY DEF Tick, outside, book, exec, exposure, loopVars
<1>2. (\A u \in Exiters : ~InExit(u)) /\ Asleep
  BY DEF Tick, MayExit, Orderly, May, Exiting, InExit
<1>3. s \in Threads /\ s # "loop" /\ s \in Exiters /\ Exiters \subseteq Threads
  BY ThreadsAre DEF Threads, Exiters
<1>4. /\ pc'[s] = "exit" /\ pc'["loop"] = pc["loop"]
      /\ \A u \in Threads : u # s => pc'[u] = pc[u]
  BY <1>3, PlaceOfLoop DEF Tick
<1>5. ~Busy(s)
  BY <1>2, <1>3 DEF Busy, InExit
<1>6. OneAtATime'
  <2>1. \A u \in Exiters : InExit(u)' => u = s
    BY <1>2, <1>3, <1>4 DEF InExit
  <2>2. Asleep' /\ Exiters' = Exiters
    BY <1>2, <1>4 DEF Asleep, Exiters
  <2>3. QED
    BY <2>1, <2>2 DEF OneAtATime
<1>7. \A u \in Threads : Undealt(u)' = Undealt(u)
  <2> TAKE u \in Threads
  <2>1. CASE u = s
    BY <1>4, <1>5, <2>1 DEF Undealt, Busy
  <2>2. CASE u # s
    BY <1>1, <1>4, <2>2, SamePlace
  <2>3. QED
    BY <2>1, <2>2
<1>8. Ended => Ended'
  BY <1>1, <1>4 DEF Ended
<1>9. \A u \in Exiters : Busy(u)' => Busy(u)
  BY <1>3, <1>4 DEF Busy
<1>10. \A u \in Threads : pc'[u] = "clear" => pc[u] = "clear"
  BY <1>4
<1>11. AtPeace
  BY <1>1, <1>4, <1>7, <1>8, <1>9, <1>10 DEF AtPeace
<1>12. QED
  BY <1>6, <1>11

LEMMA OutsideAtPeace ==
    ASSUME Types, Orderly, OrderlyInv,
           WorkerStop \/ ClockTicks \/ \E s \in Symbols : ManualExit(s) /\ paper[s] = 0
    PROVE  AtPeace /\ OneAtATime'
<1>1. UNCHANGED <<pc, got, batch, irregular, queue, filling, results, paper, booked, closed,
                  positions, reserved, exited, exitDocs, active, view>>
  BY DEF WorkerStop, ClockTicks, ManualExit, outside, book, exec, exposure, exitVars, loopVars,
         threads
<1>2. clock # "open" => clock' # "open"
  <2>1. CASE ClockTicks
    BY <2>1 DEF ClockTicks, Types, OutsideType
  <2>2. CASE clock' = clock
    BY <2>2
  <2>3. QED
    BY <2>1, <2>2 DEF WorkerStop, ManualExit, outside
<1>3. OneAtATime
  BY DEF OrderlyInv
<1>4. QED
  BY <1>1, <1>2, <1>3, StaysAtPeace

\* Where nothing is in work the books are settled.
LEMMA Settled0 ==
    ASSUME NEW s \in Symbols, Agrees(s), Of(s) = {}
    PROVE  /\ booked[s] = closed[s] /\ reserved[s] = 0
           /\ positions[s] = paper[s] \/ (Ended /\ positions[s] = 0)
           /\ ~May("restored") /\ s \in exited => paper[s] = 0 /\ positions[s] = 0
  BY DEF Agrees, Settles, InSync, Reserves, Stays

\* What is ordered when nothing is in work: exits for all there is, and nothing for a symbol
\* that was exited; openings reserve their lot.
LEMMA OrdersAgree ==
    ASSUME NEW s \in Symbols, Agrees(s), Of(s) = {}, NEW R,
           Of(s)' = {Entry("queue", r, FALSE) : r \in R},
           \A r \in R : r.act \in Exits => r.qty = Size(paper[s]) /\ r.snap = paper[s],
           R # {} => May("restored") \/ s \notin exited,
           UNCHANGED <<irregular, exited>>,
           paper'[s] = paper[s], booked'[s] = booked[s], closed'[s] = closed[s],
           positions'[s] = positions[s], Ended => Ended',
           \/ reserved'[s] = reserved[s]
           \/ reserved'[s] = reserved[s] + Lot /\ \E r \in R : r.act \in Opens \cup Expands
    PROVE  Agrees(s)'
<1>1. \A r \in R : Entry("queue", r, FALSE).req = r /\ Entry("queue", r, FALSE).at = "queue"
  BY DEF Entry
<1>2. \A w \in Of(s)' : w.at = "queue" /\ w.req \in R
  BY <1>1
<1>3. \A w \in Of(s)' : w.ok = FALSE
  BY DEF Entry
<1>4. Exact(s)'
  BY <1>2, <1>3 DEF Exact
<1>5. Settles(s)'
  BY Settled0 DEF Settles
<1>6. InSync(s)'
  BY Settled0 DEF InSync
<1>7. Reserves(s)'
  <2>1. reserved[s] = 0
    BY Settled0
  <2>2. ASSUME reserved'[s] # 0
        PROVE  reserved'[s] = Lot /\ \E r \in R : r.act \in Opens \cup Expands
    BY <2>1, <2>2, PaperAssumption
  <2>3. ASSUME NEW r \in R, r.act \in Opens \cup Expands
        PROVE  \E w \in Of(s)' : w.req.act \in Opens \cup Expands
    <3>1. Entry("queue", r, FALSE) \in Of(s)'
      OBVIOUS
    <3>2. QED
      BY <1>1, <2>3, <3>1
  <2>4. QED
    BY <2>2, <2>3 DEF Reserves
<1>8. Stays(s)'
  BY Settled0 DEF Stays, May
<1>9. QED
  BY <1>4, <1>5, <1>6, <1>7, <1>8 DEF Agrees

\* An exit is sent when no exit runs and the loop is asleep.
LEMMA ExitSubmits ==
    ASSUME Types, Counted, Orderly, OrderlyInv, NEW t \in Exiters, NEW s \in Symbols,
           \A u \in Exiters : u # t => ~InExit(u),
           ~Busy(t), Asleep, paper[s] # 0, Submit(t, <<ExitRequest(s)>>),
           UNCHANGED <<irregular, clock, paper, positions, booked, closed, filling, results,
                       reserved, exited, exitDocs, active, view>>
    PROVE  OrderlyInv'
<1>1. \A u \in Threads : ~Busy(u)
  BY DEF Threads, InExit, Busy, Asleep
<1>2. Idle /\ Work = {} /\ \A u \in Symbols : Of(u) = {}
  BY <1>1, NobodyBusy
<1>3. t \in Threads /\ t # "loop" /\ "loop" \in Threads /\ Exiters \subseteq Threads
  BY ThreadsAre DEF Threads, Exiters
<1>q. PICK q \in Requests : q = ExitRequest(s)
  BY ExitRequestIs
<1>4. /\ q.sym = s /\ q.qty = Size(paper[s]) /\ q.act \in Exits /\ q.snap = Snapshot(s, paper[s])
      /\ <<q>> \in Seq(Requests)
  BY <1>q, ExitRequestIs
<1>5. Submit(t, <<q>>)
  BY <1>q
<1>6. /\ pc'[t] = "collect" /\ \A u \in Threads : u # t => pc'[u] = pc[u]
      /\ pc'["loop"] = pc["loop"]
      /\ batch'[t] = <<q>>
  BY <1>3, <1>5, PlaceOfLoop DEF Submit, Types, ThreadType
<1>7. Apart' /\ Work' = {Entry("queue", q, FALSE)}
  <2>1. Distinct(<<q>>, SymOf) /\ Elems(<<q>>) = {q}
    BY DEF Distinct, Elems
  <2>2. Apart' /\ Work' = {Entry("queue", r, FALSE) : r \in Elems(<<q>>)}
    BY <1>2, <1>3, <1>4, <1>5, <2>1, SubmitWork
  <2>3. QED
    BY <2>1, <2>2
<1>8. Entry("queue", q, FALSE).req = q
  BY DEF Entry
<1>9. q.snap = paper[s]
  <2>1. positions[s] = paper[s] \/ positions[s] = 0
    BY <1>2, Settled0 DEF OrderlyInv
  <2>2. QED
    BY <1>4, <2>1 DEF Snapshot, Left
<1>10. Of(s)' = {Entry("queue", r, FALSE) : r \in {q}} /\ \A u \in Symbols : u # s => Of(u)' = {}
  BY <1>4, <1>7, <1>8 DEF Of
<1>11. Ended => Ended'
  BY <1>6 DEF Ended
<1>12. Agrees(s)'
  <2>1. May("restored") \/ s \notin exited
    BY <1>2, Settled0 DEF OrderlyInv
  <2>2. \A r \in {q} : r.act \in Exits => r.qty = Size(paper[s]) /\ r.snap = paper[s]
    BY <1>4, <1>9
  <2>3. Agrees(s)
    BY DEF OrderlyInv
  <2>4. QED
    BY <1>2, <1>10, <1>11, <2>1, <2>2, <2>3, OrdersAgree
<1>13. \A u \in Symbols : Agrees(u)'
  BY <1>2, <1>10, <1>11, <1>12, StaysAgreed DEF OrderlyInv
<1>14. OneAtATime'
  <2>1. \A u \in Exiters : InExit(u)' => u = t
    BY <1>3, <1>6 DEF InExit
  <2>2. Asleep' /\ Exiters' = Exiters
    BY <1>6 DEF Asleep, Exiters
  <2>3. QED
    BY <2>1, <2>2 DEF OneAtATime
<1>15. Answers'
  <2>1. \A u \in Exiters : Busy(u)' => u = t
    BY <1>1, <1>3, <1>6 DEF Busy
  <2>2. batch'[t][1] = q
    BY <1>6
  <2>3. Exiters' = Exiters
    BY DEF Exiters
  <2>4. QED
    BY <1>4, <1>7, <1>8, <2>1, <2>2, <2>3 DEF Answers
<1>16. Cleared'
  <2>1. \A u \in Threads : pc'[u] # "clear"
    BY <1>1, <1>6 DEF Busy
  <2>2. Threads' = Threads
    BY DEF Threads, Exiters
  <2>3. QED
    BY <2>1, <2>2 DEF Cleared
<1>17. Seen' /\ Dropped'
  <2>1. pc'["loop"] \notin {"fetch", "decide"}
    BY <1>6 DEF Asleep
  <2>2. QED
    BY <2>1 DEF Seen, Dropped, OrderlyInv, May
<1>18. QED
  BY <1>7, <1>13, <1>14, <1>15, <1>16, <1>17 DEF OrderlyInv

LEMMA RmsOrderly ==
    ASSUME Types, Counted, Orderly, OrderlyInv, NEW s \in Symbols, RmsSubmit(s), paper[s] # 0
    PROVE  OrderlyInv'
<1>1. /\ pc[s] = "exit" /\ Submit(s, <<ExitRequest(s)>>)
      /\ UNCHANGED <<irregular, clock, paper, positions, booked, closed, filling, results,
                     reserved, exited, exitDocs, active, view>>
  BY DEF RmsSubmit, At, outside, book, loopVars
<1>2. s \in Exiters /\ InExit(s) /\ ~Busy(s)
  BY <1>1 DEF Exiters, InExit, Busy
<1>3. Asleep /\ \A u \in Exiters : u # s => ~InExit(u)
  BY <1>2 DEF OrderlyInv, OneAtATime
<1>4. QED
  BY <1>1, <1>2, <1>3, ExitSubmits

LEMMA ManualOrderly ==
    ASSUME Types, Counted, Orderly, OrderlyInv, NEW s \in Symbols, ManualExit(s), paper[s] # 0
    PROVE  OrderlyInv'
<1>1. /\ Submit("monitor", <<ExitRequest(s)>>)
      /\ UNCHANGED <<irregular, clock, paper, positions, booked, closed, filling, results,
                     reserved, exited, exitDocs, active, view>>
  BY DEF ManualExit, outside, book, exitVars, loopVars
<1>2. Asleep /\ \A u \in Exiters : ~InExit(u)
  BY DEF ManualExit, MayExit, Orderly, May, Exiting, InExit
<1>3. "monitor" \in Exiters /\ ~Busy("monitor")
  BY <1>2 DEF Exiters, InExit, Busy
<1>4. QED
  BY <1>1, <1>2, <1>3, ExitSubmits

\* What the loop orders for a symbol that nothing is in work for.
LEMMA OptionAgrees ==
    ASSUME Types, NEW s \in Symbols, Agrees(s), Of(s) = {}, view = paper, pc["loop"] = "decide",
           NEW room, NEW r \in Options(s, room), r.act \in Exits
    PROVE  r.qty = Size(paper[s]) /\ r.snap = paper[s]
<1>1. positions[s] = paper[s]
  BY Settled0 DEF Ended
<1>2. r = StopLoss(s)
  BY ActsDiffer DEF Options, Open, Flip, Expand, Request, Opens, Expands, Flips
<1>3. QED
  BY <1>1, <1>2 DEF StopLoss, Request, Snapshot, Left

LEMMA DecideOrderly ==
    ASSUME Types, Counted, Orderly, OrderlyInv, LoopDecide
    PROVE  OrderlyInv'
<1>1. PICK roomy, reqs :
          /\ reqs \in SUBSET UNION {Options(s, s \in roomy) : s \in active}
          /\ \A r1, r2 \in reqs : r1.sym = r2.sym => r1 = r2
          /\ positions' = [s \in Symbols |->
                IF s \in active /\ view[s] = 0 THEN 0 ELSE positions[s]]
          /\ reserved' = [s \in Symbols |->
                IF \E r \in reqs : r.sym = s /\ r.act \in Opens \cup Expands
                THEN reserved[s] + Lot ELSE reserved[s]]
          /\ IF reqs = {} THEN Goto("loop", "cycled") /\ UNCHANGED <<queue, executor, batch, got>>
             ELSE Submit("loop", SetToSeq(reqs))
  BY DEF LoopDecide
<1>2. Chosen(reqs)
  BY <1>1 DEF Chosen
<1>3. /\ reqs \subseteq Requests /\ IsFiniteSet(reqs)
      /\ \A r \in reqs : r.sym \in active /\ \E room : r \in Options(r.sym, room)
  BY <1>2, ChosenAre
<1>4. UNCHANGED <<irregular, clock, paper, booked, closed, filling, results, exited, exitDocs,
                  active, view>>
  BY DEF LoopDecide, outside, exitVars
<1>5. pc["loop"] = "decide" /\ "loop" \in Threads
  BY ThreadsAre DEF LoopDecide, At
<1>6. \A u \in Exiters : ~InExit(u)
  BY <1>5 DEF OrderlyInv, OneAtATime, Asleep
<1>7. \A u \in Threads : ~Busy(u)
  BY <1>5, <1>6 DEF Threads, InExit, Busy
<1>8. Idle /\ Work = {} /\ \A u \in Symbols : Of(u) = {}
  BY <1>7, NobodyBusy
<1>9. view = paper /\ \A s \in Symbols : Agrees(s)
  BY <1>5 DEF OrderlyInv, Seen
<1>10. \A s \in Symbols : positions[s] = paper[s] /\ positions'[s] = positions[s]
  <2> TAKE s \in Symbols
  <2>1. positions[s] = paper[s]
    BY <1>5, <1>8, <1>9, Settled0 DEF Ended
  <2>2. QED
    BY <1>1, <1>9, <2>1
<1>11. /\ pc'["loop"] \in {"cycled", "collect"} /\ \A u \in Threads : u # "loop" => pc'[u] = pc[u]
       /\ Apart' /\ Work' = {Entry("queue", r, FALSE) : r \in reqs}
  <2>1. CASE reqs = {}
    <3>1. Goto("loop", "cycled") /\ UNCHANGED <<queue, batch, got>>
      BY <1>1, <2>1
    <3>2. pc'["loop"] = "cycled" /\ \A u \in Threads : u # "loop" => pc'[u] = pc[u]
      BY <1>5, <3>1, PlaceOfLoop
    <3>3. \A u \in Threads : Undealt(u)' = Undealt(u)
      <4> TAKE u \in Threads
      <4>1. CASE u = "loop"
        BY <1>5, <3>2, <4>1 DEF Undealt
      <4>2. CASE u # "loop"
        BY <3>1, <3>2, <4>2, SamePlace
      <4>3. QED
        BY <4>1, <4>2
    <3>4. Apart' /\ Work' = Work
      BY <1>4, <3>1, <3>3, SameWork DEF OrderlyInv
    <3>5. QED
      BY <1>8, <2>1, <3>2, <3>4
  <2>2. CASE reqs # {}
    <3>1. Submit("loop", SetToSeq(reqs)) /\ SetToSeq(reqs) \in Seq(Requests)
      BY <1>1, <1>3, <2>2, SetSeqTyped
    <3>2. \A x, y \in reqs : SymOf[x] = SymOf[y] => x = y
      BY <1>1, <1>3 DEF SymOf
    <3>3. Elems(SetToSeq(reqs)) = reqs /\ Distinct(SetToSeq(reqs), SymOf)
      BY <1>3, <3>2, SetSeqElems
    <3>4. Apart' /\ Work' = {Entry("queue", r, FALSE) : r \in Elems(SetToSeq(reqs))}
      BY <1>4, <1>5, <1>8, <3>1, <3>3, SubmitWork
    <3>5. pc'["loop"] = "collect" /\ \A u \in Threads : u # "loop" => pc'[u] = pc[u]
      BY <1>5, <3>1, PlaceOfLoop DEF Submit
    <3>6. QED
      BY <3>3, <3>4, <3>5
  <2>3. QED
    BY <2>1, <2>2
<1>12. ASSUME NEW s \in Symbols PROVE Agrees(s)'
  <2>r. PICK R : R = {r \in reqs : r.sym = s}
    OBVIOUS
  <2>1. Of(s)' = {Entry("queue", r, FALSE) : r \in R}
    <3>1. \A r \in reqs : Entry("queue", r, FALSE).req = r
      BY DEF Entry
    <3>2. QED
      BY <1>11, <2>r, <3>1 DEF Of
  <2>2. \A r \in R : r.act \in Exits => r.qty = Size(paper[s]) /\ r.snap = paper[s]
    BY <1>3, <1>5, <1>8, <1>9, <2>r, OptionAgrees
  <2>3. R # {} => May("restored") \/ s \notin exited
    BY <1>3, <1>5, <2>r DEF OrderlyInv, Dropped
  <2>4. \/ reserved'[s] = reserved[s]
        \/ reserved'[s] = reserved[s] + Lot /\ \E r \in R : r.act \in Opens \cup Expands
    BY <1>1, <2>r
  <2>5. Ended => Ended'
    BY <1>5 DEF Ended
  <2>6. QED
    BY <1>4, <1>8, <1>9, <1>10, <2>1, <2>2, <2>3, <2>4, <2>5, OrdersAgree
<1>13. \A u \in Exiters : u \in Threads /\ u # "loop" /\ Exiters' = Exiters /\ Threads' = Threads
  BY ThreadsAre DEF Threads, Exiters
<1>14. \A u \in Exiters : ~InExit(u)'
  BY <1>6, <1>11, <1>13 DEF InExit
<1>15. OneAtATime' /\ Answers'
  <2>1. \A u \in Exiters : ~Busy(u)'
    BY <1>14 DEF InExit, Busy
  <2>2. OneAtATime'
    BY <1>13, <1>14 DEF OneAtATime
  <2>3. Answers'
    BY <1>13, <2>1 DEF Answers
  <2>4. QED
    BY <2>2, <2>3
<1>16. Cleared'
  <2>1. \A u \in Threads : pc'[u] # "clear"
    BY <1>7, <1>11 DEF Busy
  <2>2. Threads' = Threads
    BY DEF Threads, Exiters
  <2>3. QED
    BY <2>1, <2>2 DEF Cleared
<1>17. Seen' /\ Dropped'
  BY <1>4, <1>11 DEF Seen, Dropped, OrderlyInv, May
<1>18. QED
  BY <1>11, <1>12, <1>15, <1>16, <1>17 DEF OrderlyInv

\* The turn stays with the thread that has it.
LEMMA KeepsTurn ==
    ASSUME OneAtATime, NEW t \in Threads, Busy(t),
           \A u \in Threads : u # t => pc'[u] = pc[u]
    PROVE  OneAtATime'
<1>1. "loop" \in Threads /\ Exiters' = Exiters /\ \A u \in Exiters : u \in Threads /\ u # "loop"
  BY ThreadsAre DEF Threads, Exiters
<1>2. CASE t = "loop"
  <2>1. \A u \in Exiters : ~InExit(u)
    BY <1>2 DEF OneAtATime, Asleep, Busy
  <2>2. \A u \in Exiters : ~InExit(u)'
    BY <1>1, <1>2, <2>1 DEF InExit
  <2>3. QED
    BY <1>1, <2>2 DEF OneAtATime
<1>3. CASE t # "loop"
  <2>1. t \in Exiters /\ InExit(t)
    BY <1>3 DEF Threads, Busy, InExit
  <2>2. Asleep /\ \A u \in Exiters : u # t => ~InExit(u)
    BY <2>1 DEF OneAtATime
  <2>3. Asleep' /\ \A u \in Exiters : u # t => ~InExit(u)'
    BY <1>1, <1>3, <2>2 DEF Asleep, InExit
  <2>4. QED
    BY <1>1, <2>3 DEF OneAtATime
<1>4. QED
  BY <1>2, <1>3

\* A thread deals with its first result.
Deals(t, o, s, v) ==
    /\ pc[t] = "record" /\ got[t] # << >> /\ Undealt(t)' = Tail(got[t])
    /\ UNCHANGED <<queue, filling, results>>
    /\ \A u \in Threads : u # t => pc'[u] = pc[u] /\ got'[u] = got[u]
    /\ o = Head(got[t]) /\ s = o.req.sym /\ v = Entry("got", o.req, o.ok)

\* The order is out of work.
LEMMA Dealt ==
    ASSUME Types, Orderly, OrderlyInv, NEW t \in Threads, NEW o, NEW s, NEW v, Deals(t, o, s, v)
    PROVE  /\ Apart' /\ o \in Outcomes /\ s \in Symbols
           /\ v \in Work /\ v.req = o.req /\ v.ok = o.ok /\ v.at = "got"
           /\ \A w \in Work' : w \in Work
           /\ Of(s) = {v} /\ Of(s)' = {} /\ \A u \in Symbols : u # s => Of(u)' = Of(u)
           /\ OneAtATime' /\ \A u \in Threads : u # t => ~Busy(u) /\ ~Busy(u)'
<1>0. /\ pc[t] = "record" /\ got[t] # << >> /\ Undealt(t)' = Tail(got[t])
      /\ UNCHANGED <<queue, filling, results>>
      /\ \A u \in Threads : u # t => pc'[u] = pc[u] /\ got'[u] = got[u]
      /\ o = Head(got[t]) /\ s = o.req.sym /\ v = Entry("got", o.req, o.ok)
  BY DEF Deals
<1>1. Busy(t) /\ Undealt(t) = got[t]
  BY <1>0 DEF Busy, Undealt
<1>2. \A u \in Threads : u # t => ~Busy(u) /\ Undealt(u) = << >>
  BY <1>1, Alone DEF OrderlyInv
<1>3. \A u \in Threads : u # t => Undealt(u)' = << >>
  BY <1>0, <1>2, SamePlace
<1>4. Apart' /\ o \in Outcomes /\ v \in Work /\ Work' = Work \ {v}
  BY <1>0, <1>1, <1>2, <1>3, DealtWith DEF OrderlyInv
<1>5. v.req = o.req /\ v.ok = o.ok /\ v.at = "got"
  BY <1>0, EntryIs
<1>6. s \in Symbols
  BY <1>0, <1>4, OutcomeHas, RequestHas
<1>7. \A w \in Work : w.req.sym = s => w = v
  BY <1>0, <1>4, <1>5 DEF OrderlyInv, Apart, OneEach
<1>8. Of(s) = {v} /\ Of(s)' = {} /\ \A u \in Symbols : u # s => Of(u)' = Of(u)
  BY <1>0, <1>4, <1>5, <1>7 DEF Of
<1>9. OneAtATime'
  BY <1>0, <1>1, KeepsTurn DEF OrderlyInv
<1>10. \A u \in Threads : u # t => ~Busy(u)'
  BY <1>0, <1>2 DEF Busy
<1>11. QED
  BY <1>2, <1>4, <1>5, <1>6, <1>8, <1>9, <1>10

\* A filled exit that is dealt with: what it took is booked, and only now.
LEMMA ClosesExactly ==
    ASSUME Types, NEW s \in Symbols, Agrees(s), NEW v, Of(s) = {v}, v.ok = TRUE, v.at = "got",
           v.req.act \in Exits, v.req.qty \in Nat, v.req.snap \in Int,
           Close(s, v.req.qty, v.req.snap)
    PROVE  /\ booked'[s] = closed[s] /\ paper[s] = 0 /\ positions[s] = 0 /\ reserved[s] = 0
           /\ positions' = positions /\ \A u \in Symbols : u # s => booked'[u] = booked[u]
<1>1. /\ paper[s] = 0 /\ Size(v.req.snap) = v.req.qty /\ booked[s] + v.req.qty = closed[s]
  BY DEF Agrees, Exact
<1>2. positions[s] = 0
  BY <1>1 DEF Agrees, InSync
<1>3. reserved[s] = 0
  BY ActsDiffer DEF Agrees, Reserves
<1>4. positions \in [Symbols -> Int] /\ booked \in [Symbols -> Nat] /\ closed[s] \in Nat
  BY DEF Types, BookType
<1>5. Held(s, v.req.snap) = v.req.snap
  BY <1>2 DEF Held
<1>6. Least(Size(v.req.snap), v.req.qty) = v.req.qty
  BY <1>1 DEF Least
<1>7. booked' = [booked EXCEPT ![s] = @ + v.req.qty]
  BY <1>5, <1>6 DEF Close
<1>8. positions' = [positions EXCEPT ![s] = 0]
  <2>1. positions' = [positions EXCEPT ![s] = IF positions[s] = 0 THEN 0
                                              ELSE positions[s] - Sign(positions[s]) * v.req.qty]
    BY <1>4 DEF Close
  <2>2. QED
    BY <1>2, <2>1
<1>9. positions' = positions
  BY <1>2, <1>4, <1>8
<1>10. booked'[s] = closed[s] /\ \A u \in Symbols : u # s => booked'[u] = booked[u]
  BY <1>1, <1>4, <1>7
<1>11. QED
  BY <1>1, <1>2, <1>3, <1>9, <1>10

\* An order that is out of work leaves the books settled.
LEMMA OutOfWork ==
    ASSUME NEW s \in Symbols, Of(s)' = {}, irregular' = irregular, exited' = exited,
           booked'[s] = closed'[s], reserved'[s] = 0,
           positions'[s] = paper'[s] \/ (Ended' /\ positions'[s] = 0),
           Agrees(s), Of(s) # {}
    PROVE  Agrees(s)'
<1>1. ~May("restored") => s \notin exited
  BY DEF Agrees, Stays
<1>2. Exact(s)' /\ Settles(s)'
  BY DEF Exact, Settles
<1>3. InSync(s)' /\ Reserves(s)'
  BY DEF InSync, Reserves
<1>4. Stays(s)'
  BY <1>1 DEF Stays, May
<1>5. QED
  BY <1>2, <1>3, <1>4 DEF Agrees

LEMMA StillAnswers ==
    ASSUME Answers, \A w \in Work' : w \in Work, batch' = batch, \A u \in Exiters : Busy(u)' => Busy(u)
    PROVE  Answers'
  BY DEF Answers, Exiters

\* What becomes of the symbol: it is settled, and an exit that filled is cleared next.
Records(t, o, s) ==
    /\ UNCHANGED <<irregular, clock, paper, closed, positions, batch, exited, exitDocs, active, view>>
    /\ pc'[t] \notin {"collect", "fetch", "decide"}
    /\ booked'[s] = closed[s] /\ \A u \in Symbols : u # s => booked'[u] = booked[u]
    /\ reserved'[s] = 0 /\ \A u \in Symbols : u # s => reserved'[u] = reserved[u]
    /\ pc'[t] = "clear" => Clearing(t)' = s /\ paper[s] = 0 /\ positions[s] = 0

LEMMA RecordOrderly ==
    ASSUME Types, Orderly, OrderlyInv, NEW t \in Threads, NEW o, NEW s, NEW v,
           Deals(t, o, s, v), Records(t, o, s)
    PROVE  OrderlyInv'
<1>0. /\ pc[t] = "record" /\ \A u \in Threads : u # t => pc'[u] = pc[u]
      /\ UNCHANGED <<irregular, clock, paper, closed, positions, batch, exited, exitDocs, active,
                     view>>
      /\ pc'[t] \notin {"collect", "fetch", "decide"}
      /\ booked'[s] = closed[s] /\ \A u \in Symbols : u # s => booked'[u] = booked[u]
      /\ reserved'[s] = 0 /\ \A u \in Symbols : u # s => reserved'[u] = reserved[u]
      /\ pc'[t] = "clear" => Clearing(t)' = s /\ paper[s] = 0 /\ positions[s] = 0
  BY DEF Deals, Records
<1>1. /\ Apart' /\ s \in Symbols
      /\ v \in Work /\ v.at = "got"
      /\ \A w \in Work' : w \in Work
      /\ Of(s) = {v} /\ Of(s)' = {} /\ \A u \in Symbols : u # s => Of(u)' = Of(u)
      /\ OneAtATime' /\ \A u \in Threads : u # t => ~Busy(u) /\ ~Busy(u)'
  BY Dealt
<1>2. Ended => Ended'
  <2>1. CASE t = "loop"
    BY <1>0, <2>1 DEF Ended
  <2>2. CASE t # "loop"
    BY <1>0, <2>2, ThreadsAre DEF Ended
  <2>3. QED
    BY <2>1, <2>2
<1>3. Agrees(s)'
  <2>1. Agrees(s)
    BY <1>1 DEF OrderlyInv
  <2>2. positions'[s] = paper'[s] \/ (Ended' /\ positions'[s] = 0)
    BY <1>0, <1>1, <1>2, <2>1 DEF Agrees, InSync
  <2>3. QED
    BY <1>0, <1>1, <2>1, <2>2, OutOfWork
<1>4. \A u \in Symbols : Agrees(u)'
  BY <1>0, <1>1, <1>2, <1>3, StaysAgreed DEF OrderlyInv
<1>5. Answers'
  <2>1. \A u \in Exiters : Busy(u)' => Busy(u)
    <3>1. Busy(t)
      BY <1>0 DEF Busy
    <3>2. QED
      BY <1>1, <3>1 DEF Threads
  <2>2. QED
    BY <1>0, <1>1, <2>1, StillAnswers DEF OrderlyInv
<1>6. Cleared'
  <2> SUFFICES ASSUME NEW u \in Threads, pc'[u] = "clear"
               PROVE  /\ paper'[Clearing(u)'] = 0 /\ positions'[Clearing(u)'] = 0
                      /\ Of(Clearing(u))' = {}
    BY DEF Cleared, Threads, Exiters
  <2>1. u = t
    BY <1>1 DEF Busy
  <2>2. Clearing(u)' = s /\ paper[s] = 0 /\ positions[s] = 0
    BY <1>0, <2>1
  <2>3. Of(Clearing(u))' = {}
    BY <1>1, <2>2 DEF Of
  <2>4. QED
    BY <1>0, <2>2, <2>3
<1>7. pc'["loop"] \notin {"fetch", "decide"} \/ pc'["loop"] = pc["loop"]
  <2>1. CASE t = "loop"
    BY <1>0, <2>1
  <2>2. CASE t # "loop"
    BY <1>0, <2>2, ThreadsAre
  <2>3. QED
    BY <2>1, <2>2
<1>8. Seen' /\ Dropped'
  BY <1>0, <1>7 DEF Seen, Dropped, OrderlyInv, May
<1>9. QED
  BY <1>1, <1>4, <1>5, <1>6, <1>8 DEF OrderlyInv

LEMMA ExitRecordOrderly ==
    ASSUME Types, Orderly, OrderlyInv, NEW t \in Threads, ExitRecord(t)
    PROVE  OrderlyInv'
<1>o. PICK o \in Outcomes : o = Head(got[t])
  BY ExiterIs DEF ExitRecord, At
<1>s. PICK s \in Symbols : s = o.req.sym
  BY OutcomeHas, RequestHas
<1>v. PICK v : v = Entry("got", o.req, o.ok)
  OBVIOUS
<1>1. /\ t # "loop" /\ pc[t] = "record" /\ t \in Exiters
      /\ UNCHANGED <<queue, filling, results, irregular, clock, paper, closed, batch, got, reserved,
                     exited, exitDocs, active, view>>
  BY DEF ExitRecord, At, outside, exec, exposure, loopVars, Threads
<1>2. /\ got[t] # << >> /\ got[t] = << o >> /\ Back(t) \notin {"collect", "record", "clear"}
      /\ Back(t) \notin {"fetch", "decide"} /\ Tail(got[t]) = << >>
  <2>1. got[t] # << >> /\ got[t] = << o >> /\ Back(t) \notin {"collect", "record", "clear"}
    BY <1>o, <1>1, ExiterIs
  <2>2. Tail(<< o >>) = << >>
    OBVIOUS
  <2>3. QED
    BY <2>1, <2>2 DEF Back
<1>3. /\ pc'[t] \in {"clear", Back(t)} /\ \A u \in Threads : u # t => pc'[u] = pc[u]
  BY PlaceOfLoop DEF ExitRecord
<1>4. Undealt(t)' = Tail(got[t])
  BY <1>1, <1>2, <1>3 DEF Undealt
<1>d. Deals(t, o, s, v)
  BY <1>o, <1>s, <1>v, <1>1, <1>2, <1>3, <1>4 DEF Deals
<1>5. v \in Work /\ v.at = "got" /\ v.req = o.req
  BY <1>d, Dealt
<1>6. v.ok = o.ok /\ o.ok \in BOOLEAN
  BY <1>v, EntryIs, OutcomeHas
<1>7. Of(s) = {v}
  BY <1>d, Dealt
<1>8. o.req = batch[t][1] /\ o.req.act \in Exits
  BY <1>1, <1>5 DEF OrderlyInv, Answers, Busy
<1>9. Agrees(s) /\ o.req.qty \in Nat /\ o.req.snap \in Int
  BY OutcomeHas, RequestHas DEF OrderlyInv
<1>10. /\ booked'[s] = closed[s] /\ reserved'[s] = 0 /\ positions' = positions
       /\ \A u \in Symbols : u # s => booked'[u] = booked[u]
       /\ pc'[t] = "clear" => Clearing(t)' = s /\ paper[s] = 0 /\ positions[s] = 0
  <2>1. CASE o.ok
    <3>1. Close(s, v.req.qty, v.req.snap)
      <4>1. Close(s, o.req.qty, IF o.req.snap # 0 THEN o.req.snap ELSE batch[t][1].snap)
        BY <1>o, <1>s, <1>8, <2>1 DEF ExitRecord
      <4>2. QED
        BY <1>5, <1>8, <4>1
    <3>2. v.ok = TRUE
      BY <1>6, <2>1
    <3>3. /\ booked'[s] = closed[s] /\ paper[s] = 0 /\ positions[s] = 0 /\ reserved[s] = 0
          /\ positions' = positions /\ \A u \in Symbols : u # s => booked'[u] = booked[u]
      BY <1>5, <1>7, <1>8, <1>9, <3>1, <3>2, ClosesExactly
    <3>4. Clearing(t)' = s
      BY <1>s, <1>1, <1>8 DEF Clearing
    <3>5. QED
      BY <1>1, <3>3, <3>4
  <2>2. CASE ~o.ok
    <3>1. UNCHANGED <<booked, positions>> /\ pc'[t] = Back(t)
      BY <1>o, <2>2, PlaceOfLoop DEF ExitRecord
    <3>2. v.ok = FALSE
      BY <1>6, <2>2
    <3>3. booked[s] = closed[s]
      BY <1>7, <1>9, <3>2 DEF Agrees, Settles
    <3>4. reserved[s] = 0
      BY <1>5, <1>7, <1>8, <1>9, ActsDiffer DEF Agrees, Reserves
    <3>5. QED
      BY <1>1, <1>2, <3>1, <3>3, <3>4
  <2>3. QED
    BY <2>1, <2>2
<1>11. /\ pc'[t] \notin {"collect", "fetch", "decide"}
       /\ \A u \in Symbols : u # s => reserved'[u] = reserved[u]
  BY <1>1, <1>2, <1>3
<1>12. Records(t, o, s)
  BY <1>1, <1>10, <1>11 DEF Records
<1>13. QED
  BY <1>d, <1>12, RecordOrderly

LEMMA LoopRecordOrderly ==
    ASSUME Types, ExposureInv, Orderly, OrderlyInv, LoopRecord
    PROVE  OrderlyInv'
<1> DEFINE t == "loop"
<1>0. t \in Threads /\ pc[t] = "record" /\ got[t] # << >> /\ got[t] \in Seq(Outcomes)
      /\ got[t] \in Seq(SoundOutcomes) /\ got = [u \in Threads |-> got[u]]
  BY ThreadsAre DEF LoopRecord, At, Types, ThreadType, ExposureInv, AllSound
<1>o. PICK o \in Outcomes : o = Head(got[t])
  BY <1>0
<1>s. PICK s \in Symbols : s = o.req.sym
  BY OutcomeHas, RequestHas
<1>v. PICK v : v = Entry("got", o.req, o.ok)
  OBVIOUS
<1>1. /\ UNCHANGED <<queue, filling, results, irregular, clock, paper, closed, batch,
                     exited, exitDocs, active, view>>
  BY DEF LoopRecord, outside, exec, exitVars, loopVars
<1>2. \/ /\ o.ok /\ o.req.act \in Exits
         /\ Close(s, o.req.qty, o.req.snap) /\ Goto(t, "clear") /\ UNCHANGED <<reserved, got>>
      \/ /\ ~(o.ok /\ o.req.act \in Exits)
         /\ reserved' = Released(s, o.req.qty)
         /\ got' = [got EXCEPT ![t] = Tail(@)]
         /\ UNCHANGED <<booked, positions, pc>>
  BY <1>o, <1>s DEF LoopRecord, Settled
<1>3. /\ pc'[t] \in {"clear", "record"} /\ \A u \in Threads : u # t => pc'[u] = pc[u]
      /\ \A u \in Threads : u # t => got'[u] = got[u]
      /\ pc'[t] = "clear" => got'[t] = got[t]
      /\ pc'[t] = "record" => got'[t] = Tail(got[t])
  <2>1. CASE Goto(t, "clear") /\ got' = got
    BY <1>0, <2>1, PlaceOfLoop
  <2>2. CASE pc' = pc /\ got' = [got EXCEPT ![t] = Tail(@)]
    BY <1>0, <2>2
  <2>3. QED
    BY <1>2, <2>1, <2>2
<1>4. Undealt(t)' = Tail(got[t])
  BY <1>3 DEF Undealt
<1>d. Deals(t, o, s, v)
  BY <1>o, <1>s, <1>v, <1>0, <1>1, <1>3, <1>4 DEF Deals
<1>5. v \in Work /\ v.at = "got" /\ v.req = o.req
  BY <1>0, <1>d, Dealt
<1>6. v.ok = o.ok /\ o.ok \in BOOLEAN
  BY <1>v, EntryIs, OutcomeHas
<1>7. Of(s) = {v}
  BY <1>0, <1>d, Dealt
<1>8. Agrees(s) /\ o.req.qty \in Nat \ {0} /\ o.req.snap \in Int
  BY OutcomeHas, RequestHas DEF OrderlyInv
<1>9. /\ booked'[s] = closed[s] /\ reserved'[s] = 0 /\ positions' = positions
      /\ \A u \in Symbols : u # s => booked'[u] = booked[u] /\ reserved'[u] = reserved[u]
      /\ pc'[t] = "clear" => Clearing(t)' = s /\ paper[s] = 0 /\ positions[s] = 0
  <2>1. CASE /\ o.ok /\ o.req.act \in Exits
             /\ Close(s, o.req.qty, o.req.snap) /\ Goto(t, "clear") /\ UNCHANGED <<reserved, got>>
    <3>1. Close(s, v.req.qty, v.req.snap) /\ v.req.act \in Exits
      BY <1>5, <2>1
    <3>2. v.ok = TRUE
      BY <1>6, <2>1
    <3>3. /\ booked'[s] = closed[s] /\ paper[s] = 0 /\ positions[s] = 0 /\ reserved[s] = 0
          /\ positions' = positions /\ \A u \in Symbols : u # s => booked'[u] = booked[u]
      BY <1>5, <1>7, <1>8, <3>1, <3>2, ClosesExactly
    <3>4. Clearing(t)' = s
      BY <1>o, <1>s, <2>1 DEF Clearing
    <3>5. QED
      BY <2>1, <3>3, <3>4
  <2>2. CASE /\ ~(o.ok /\ o.req.act \in Exits)
             /\ reserved' = Released(s, o.req.qty)
             /\ UNCHANGED <<booked, positions, pc>>
    <3>1. ~(v.ok = TRUE /\ v.req.act \in Exits)
      BY <1>5, <1>6, <2>2
    <3>2. booked[s] = closed[s]
      BY <1>7, <1>8, <3>1 DEF Agrees, Settles
    <3>3. reserved[s] = 0 \/ (reserved[s] = Lot /\ o.req.qty = Lot)
      <4>1. Head(got[t]) \in SoundOutcomes
        BY <1>0
      <4>2. Sound(o.req)
        BY <1>o, <4>1 DEF SoundOutcomes, SoundRequests
      <4>3. QED
        BY <1>5, <1>7, <1>8, <4>2 DEF Agrees, Reserves, Sound
    <3>4. reserved \in [Symbols -> Nat]
      BY DEF Types, ExposureType
    <3>5. reserved'[s] = 0 /\ \A u \in Symbols : u # s => reserved'[u] = reserved[u]
      BY <1>8, <2>2, <3>3, <3>4 DEF Released
    <3>6. QED
      BY <1>0, <2>2, <3>2, <3>5
  <2>3. QED
    BY <1>2, <2>1, <2>2
<1>10. Records(t, o, s)
  BY <1>1, <1>3, <1>9 DEF Records
<1> HIDE DEF t
<1>11. QED
  BY <1>0, <1>d, <1>10, RecordOrderly

\* A closed symbol is flat, with nothing in work for it: its position is cleared to what it is.
LEMMA ClearOrderly ==
    ASSUME Types, Orderly, OrderlyInv, NEW t \in Threads, pc[t] = "clear",
           NEW s \in Symbols, s = Clearing(t), Clear(s),
           pc'[t] \notin {"exit", "collect", "clear", "fetch", "decide"},
           t # "loop" => ~Busy(t)',
           Undealt(t)' = Tail(got[t]),
           UNCHANGED <<queue, filling, results, irregular, clock, closed, booked, positions, batch,
                       active, view>>,
           \A u \in Threads : u # t => pc'[u] = pc[u] /\ got'[u] = got[u],
           \A u \in Symbols : reserved'[u] = reserved[u] \/ reserved'[u] = 0
    PROVE  OrderlyInv'
<1>1. paper[s] = 0 /\ positions[s] = 0 /\ Of(s) = {}
  BY DEF OrderlyInv, Cleared
<1>2. Left(s) = 0
  BY <1>1 DEF Left
<1>3. paper' = paper /\ exited' = exited \cup {s} /\ exitDocs' = exitDocs \cup {s}
  <2>1. paper \in [Symbols -> Int]
    BY DEF Types, BookType
  <2>2. QED
    BY <1>1, <1>2, <2>1 DEF Clear
<1>4. Busy(t)
  BY DEF Busy
<1>5. \A u \in Threads : u # t => ~Busy(u) /\ ~Busy(u)'
  <2>1. \A u \in Threads : u # t => ~Busy(u)
    BY <1>4, Alone DEF OrderlyInv
  <2>2. QED
    BY <2>1 DEF Busy
<1>6. \A u \in Threads : Undealt(u)' = Undealt(u)
  <2> TAKE u \in Threads
  <2>1. CASE u = t
    BY <2>1 DEF Undealt
  <2>2. CASE u # t
    BY <2>2, SamePlace
  <2>3. QED
    BY <2>1, <2>2
<1>7. Apart' /\ Work' = Work
  <2>1. UNCHANGED <<queue, filling, results>>
    OBVIOUS
  <2>2. QED
    BY <1>6, <2>1, SameWork DEF OrderlyInv
<1>8. \A u \in Symbols : Of(u)' = Of(u)
  BY <1>7 DEF Of
<1>9. OneAtATime'
  BY <1>4, KeepsTurn DEF OrderlyInv
<1>10. Ended => Ended'
  <2>1. CASE t = "loop"
    BY <2>1 DEF Ended
  <2>2. CASE t # "loop"
    BY <2>2, ThreadsAre DEF Ended
  <2>3. QED
    BY <2>1, <2>2
<1>11. Agrees(s)'
  <2>1. Agrees(s)
    BY DEF OrderlyInv
  <2>2. booked[s] = closed[s] /\ reserved[s] = 0
    BY <1>1, <2>1, Settled0
  <2>3. Exact(s)' /\ Settles(s)'
    BY <1>1, <1>8, <2>2 DEF Exact, Settles
  <2>4. InSync(s)' /\ Reserves(s)'
    BY <1>1, <1>3, <2>2 DEF InSync, Reserves
  <2>5. Stays(s)'
    BY <1>1, <1>3, <1>8 DEF Stays
  <2>6. QED
    BY <2>3, <2>4, <2>5 DEF Agrees
<1>12. ASSUME NEW u \in Symbols, u # s PROVE Agrees(u)'
  <2>1. Agrees(u)
    BY DEF OrderlyInv
  <2>2. u \in exited' <=> u \in exited
    BY <1>3, <1>12
  <2>3. QED
    BY <1>3, <1>8, <1>10, <2>1, <2>2, StaysAgreed
<1>13. Answers'
  <2>1. \A u \in Exiters : Busy(u)' => Busy(u)
    BY <1>4, <1>5 DEF Threads
  <2>2. QED
    BY <1>7, <2>1, StillAnswers DEF OrderlyInv
<1>14. Cleared'
  <2>1. \A u \in Threads : pc'[u] # "clear"
    BY <1>5 DEF Busy
  <2>2. Threads' = Threads
    BY DEF Threads, Exiters
  <2>3. QED
    BY <2>1, <2>2 DEF Cleared
<1>15. pc'["loop"] \notin {"fetch", "decide"}
  <2>1. CASE t = "loop"
    BY <2>1
  <2>2. CASE t # "loop"
    <3>1. t \in Exiters /\ InExit(t)
      BY <2>2 DEF Threads, InExit
    <3>2. Asleep
      BY <3>1 DEF OrderlyInv, OneAtATime
    <3>3. QED
      BY <2>2, <3>2, ThreadsAre DEF Asleep
  <2>3. QED
    BY <2>1, <2>2
<1>16. Seen' /\ Dropped'
  <2>1. ~May("restored") => exitDocs' \subseteq exited'
    BY <1>3 DEF OrderlyInv, Dropped
  <2>2. QED
    BY <1>15, <2>1 DEF Seen, Dropped, May
<1>17. QED
  BY <1>7, <1>9, <1>11, <1>12, <1>13, <1>14, <1>16 DEF OrderlyInv

LEMMA LoopClearOrderly ==
    ASSUME Types, Orderly, OrderlyInv, LoopClear
    PROVE  OrderlyInv'
<1> DEFINE t == "loop"
<1>0. t \in Threads /\ pc[t] = "clear" /\ got \in [Threads -> Seq(Outcomes)]
      /\ \A u \in Threads : u # t => u \in Exiters
  BY ThreadsAre DEF LoopClear, At, Types, ThreadType, Threads
<1>s. PICK s \in Symbols : s = Clearing(t)
  BY <1>0, ClearingIs
<1>1. Clear(s) /\ reserved' = Released(s, Head(got[t]).req.qty)
  BY <1>s DEF LoopClear, Clearing
<1>2. /\ pc'[t] = "record" /\ \A u \in Threads : u # t => pc'[u] = pc[u]
  BY <1>0, PlaceOfLoop DEF LoopClear
<1>3. got'[t] = Tail(got[t]) /\ \A u \in Threads : u # t => got'[u] = got[u]
  BY <1>0 DEF LoopClear
<1>4. Undealt(t)' = Tail(got[t])
  BY <1>2, <1>3 DEF Undealt
<1>5. UNCHANGED <<queue, filling, results, irregular, clock, closed, booked, positions, batch,
                  active, view>>
  BY DEF LoopClear, outside, exec, loopVars
<1>6. \A u \in Symbols : reserved'[u] = reserved[u] \/ reserved'[u] = 0
  <2>1. Of(s) = {} /\ Agrees(s)
    BY <1>0, <1>s DEF OrderlyInv, Cleared
  <2>2. reserved[s] = 0 /\ reserved \in [Symbols -> Nat]
    BY <2>1, Settled0 DEF Types, ExposureType
  <2>q. PICK q \in Nat : q = Head(got[t]).req.qty
    <3>1. Head(got[t]) \in Outcomes
      BY <1>0 DEF Types, ThreadType, Holds
    <3>2. QED
      BY <3>1, OutcomeHas, RequestHas
  <2>3. reserved' = Released(s, q)
    BY <1>1, <2>q
  <2>4. QED
    BY <2>2, <2>3 DEF Released
<1> HIDE DEF t
<1>7. QED
  BY <1>0, <1>s, <1>1, <1>2, <1>3, <1>4, <1>5, <1>6, ClearOrderly DEF t

LEMMA ExitClearOrderly ==
    ASSUME Types, Orderly, OrderlyInv, NEW t \in Threads, ExitClear(t)
    PROVE  OrderlyInv'
<1>0. t # "loop" /\ pc[t] = "clear"
  BY DEF ExitClear, At
<1>s. PICK s \in Symbols : s = Clearing(t)
  BY <1>0, ClearingIs
<1>1. Clear(s)
  BY <1>0, <1>s DEF ExitClear, Clearing
<1>2. /\ pc'[t] = Back(t) /\ \A u \in Threads : u # t => pc'[u] = pc[u]
  BY PlaceOfLoop DEF ExitClear
<1>3. UNCHANGED <<queue, filling, results, irregular, clock, closed, booked, positions, batch,
                  active, view, got, reserved>>
  BY DEF ExitClear, outside, exec, loopVars, exposure
<1>4. ~Busy(t)' /\ pc'[t] \notin {"exit", "collect", "clear", "fetch", "decide", "record"}
  BY <1>2 DEF Back, Busy
<1>5. Undealt(t)' = Tail(got[t])
  <2>1. Undealt(t)' = << >>
    BY <1>4 DEF Undealt
  <2>o. PICK o : got[t] = << o >>
    BY <1>0, ExiterIs
  <2>2. Tail(<< o >>) = << >>
    OBVIOUS
  <2>3. QED
    BY <2>1, <2>o, <2>2
<1>6. UNCHANGED <<queue, filling, results, irregular, clock, closed, booked, positions, batch,
                  active, view>>
  BY <1>3
<1>7. QED
  BY <1>0, <1>s, <1>1, <1>2, <1>3, <1>4, <1>5, <1>6, ClearOrderly

LEMMA RunsKeep ==
    ASSUME [Next]_vars
    PROVE  irregular' = irregular
<1>1. CASE Worker
  BY <1>1 DEF Worker, Execute, SyncPositions, outside
<1>2. ASSUME NEW t \in Threads, Thread(t) PROVE irregular' = irregular
  <2>1. CASE Loop
    BY <2>1 DEF Loop, LoopTop, LoopFetch, LoopDecide, LoopRecord, LoopClear, LoopRecorded,
                LoopCycled, outside
  <2>2. CASE MonitorStop \/ MonitorJoin \/ (t \in Symbols /\ RmsSubmit(t))
    BY <2>2 DEF MonitorStop, MonitorJoin, RmsSubmit, outside
  <2>3. CASE Collect(t) \/ CollectTimeout(t) \/ Join(t) \/ ExitRecord(t) \/ ExitClear(t)
    BY <2>3 DEF Collect, CollectTimeout, Join, ExitRecord, ExitClear, outside
  <2>4. CASE ShutdownPyramid(t) \/ ShutdownHalt(t)
    BY <2>4 DEF ShutdownPyramid, ShutdownHalt, outside
  <2>5. QED
    BY <1>2, <2>1, <2>2, <2>3, <2>4 DEF Thread
<1>3. CASE Outside
  BY <1>3 DEF Outside, Tick, ManualExit, WorkerStop, ClockTicks, outside
<1>4. CASE UNCHANGED vars
  BY <1>4 DEF vars
<1>5. QED
  BY <1>1, <1>2, <1>3, <1>4 DEF Next

LEMMA StepOrderly ==
    ASSUME Types, ExposureInv, Counted, OrderlyInv, [Next]_vars
    PROVE  OrderlyInv'
<1> SUFFICES ASSUME Orderly PROVE OrderlyInv'
  <2>1. Orderly' => Orderly
    BY RunsKeep DEF Orderly
  <2>2. QED
    BY <2>1 DEF OrderlyInv
<1>1. CASE Worker
  BY <1>1, ExecuteOrderly, SyncOrderly DEF Worker
<1>2. ASSUME NEW t \in Threads, Thread(t) PROVE OrderlyInv'
  <2>1. CASE t = "loop" /\ Loop
    <3>1. CASE LoopDecide
      BY <3>1, DecideOrderly
    <3>2. CASE LoopRecord
      BY <3>2, LoopRecordOrderly
    <3>3. CASE LoopClear
      BY <3>3, LoopClearOrderly
    <3>4. CASE LoopTop \/ LoopFetch \/ LoopRecorded \/ LoopCycled
      BY <3>4, LoopAtPeace, PeaceOrderly
    <3>5. QED
      BY <2>1, <3>1, <3>2, <3>3, <3>4 DEF Loop
  <2>2. CASE t \in Symbols /\ RmsSubmit(t)
    <3>1. CASE paper[t] = 0
      BY <2>2, <3>1, ThreadAtPeace, PeaceOrderly
    <3>2. CASE paper[t] # 0
      BY <2>2, <3>2, RmsOrderly
    <3>3. QED
      BY <3>1, <3>2
  <2>3. CASE \/ t = "monitor" /\ (MonitorStop \/ MonitorJoin)
             \/ Join(t) \/ ShutdownPyramid(t) \/ ShutdownHalt(t)
    BY <2>3, ThreadAtPeace, PeaceOrderly
  <2>4. CASE Collect(t)
    BY <2>4, CollectOrderly
  <2>5. CASE CollectTimeout(t)
    BY <2>5 DEF CollectTimeout, Orderly, May
  <2>6. CASE ExitRecord(t)
    BY <2>6, ExitRecordOrderly
  <2>7. CASE ExitClear(t)
    BY <2>7, ExitClearOrderly
  <2>8. QED
    BY <1>2, <2>1, <2>2, <2>3, <2>4, <2>5, <2>6, <2>7 DEF Thread
<1>3. CASE Outside
  <2>1. ASSUME NEW s \in Symbols, Tick(s) PROVE OrderlyInv'
    BY <2>1, TickAtPeace, PeaceOrderly
  <2>2. ASSUME NEW s \in Symbols, ManualExit(s) PROVE OrderlyInv'
    <3>1. CASE paper[s] = 0
      BY <2>2, <3>1, OutsideAtPeace, PeaceOrderly
    <3>2. CASE paper[s] # 0
      BY <2>2, <3>2, ManualOrderly
    <3>3. QED
      BY <3>1, <3>2
  <2>3. CASE WorkerStop \/ ClockTicks
    BY <2>3, OutsideAtPeace, PeaceOrderly
  <2>4. QED
    BY <1>3, <2>1, <2>2, <2>3 DEF Outside
<1>4. CASE UNCHANGED vars
  <2>1. AtPeace /\ OneAtATime'
    <3>1. OneAtATime
      BY DEF OrderlyInv
    <3>2. QED
      BY <1>4, <3>1, StaysAtPeace DEF vars
  <2>2. QED
    BY <2>1, PeaceOrderly
<1>5. QED
  BY <1>1, <1>2, <1>3, <1>4 DEF Next

LEMMA InitOrderly ==
    ASSUME Init
    PROVE  OrderlyInv
<1>1. /\ queue = << >> /\ filling = << >> /\ results = << >>
      /\ \A t \in Threads : ~Busy(t) /\ Undealt(t) = << >>
      /\ \A t \in Exiters : ~InExit(t) /\ ~Busy(t)
      /\ pc["loop"] = "top"
  <2>1. pc["loop"] = "top" /\ \A t \in Threads : pc[t] \in {"top", "watch", "none"}
    BY ThreadsAre DEF Init
  <2>2. \A t \in Exiters : t \in Threads
    BY DEF Threads
  <2>3. QED
    BY <2>1, <2>2 DEF Init, Busy, InExit, Undealt
<1>2. Idle /\ Work = {} /\ \A s \in Symbols : Of(s) = {}
  <2>1. Idle
    BY <1>1 DEF Idle
  <2>2. QED
    BY <2>1, IdleWork DEF Of
<1>3. Apart
  BY <1>1, <1>2, DistinctNone DEF Apart, OneEach
<1>4. OneAtATime /\ Answers
  BY <1>1 DEF OneAtATime, Answers
<1>5. Cleared /\ Seen
  BY <1>1 DEF Cleared, Seen, Busy
<1>6. exited = {} /\ (~May("restored") => exitDocs = {})
  BY DEF Init
<1>7. Dropped
  BY <1>1, <1>6 DEF Dropped
<1>8. ASSUME NEW s \in Symbols PROVE Agrees(s)
  <2>1. booked[s] = closed[s] /\ reserved[s] = 0 /\ positions[s] = paper[s]
    BY DEF Init, Flat
  <2>2. Exact(s) /\ Settles(s)
    BY <1>2, <2>1 DEF Exact, Settles
  <2>3. InSync(s) /\ Reserves(s) /\ Stays(s)
    BY <1>6, <2>1 DEF InSync, Reserves, Stays
  <2>4. QED
    BY <2>2, <2>3 DEF Agrees
<1>9. QED
  BY <1>3, <1>4, <1>5, <1>7, <1>8 DEF OrderlyInv

OrderlyRun == Types /\ ExposureInv /\ Marked /\ Counted /\ OrderlyInv

LEMMA RunsAreOrderly == Spec => []OrderlyRun
<1>1. Init => OrderlyRun
  BY InitTypes, InitExposure, InitCount, InitOrderly DEF OrderlyRun
<1>2. OrderlyRun /\ [Next]_vars => OrderlyRun'
  <2> SUFFICES ASSUME OrderlyRun, [Next]_vars PROVE OrderlyRun'
    OBVIOUS
  <2>1. Types' /\ ExposureInv' /\ Marked' /\ Counted' /\ OrderlyInv'
    BY StepTypes, StepExposure, StepMarked, StepCount, StepOrderly DEF OrderlyRun
  <2>2. QED
    BY <2>1 DEF OrderlyRun
<1>3. QED
  BY <1>1, <1>2, PTL DEF Spec

LEMMA QuietIsIdle ==
    ASSUME Types, Counted, Orderly, OrderlyInv, Quiet, NEW s \in Symbols
    PROVE  Of(s) = {} /\ Agrees(s)
  BY NobodyBusy DEF Quiet, Busy, OrderlyInv

\* Whenever no fill is on its way in an orderly run, the positions that ticks and profits are
\* taken from are the paper book's: the two are changed under different locks, by workers, the
\* loop and exits, and only the market close takes them apart.
THEOREM BooksInSync == Spec => []BooksAgree
<1>1. OrderlyRun => BooksAgree
  <2> SUFFICES ASSUME OrderlyRun, Orderly, Quiet, clock = "open"
               PROVE  positions = paper
    BY DEF BooksAgree
  <2>1. paper \in [Symbols -> Int] /\ positions \in [Symbols -> Int]
    BY DEF OrderlyRun, Types, BookType
  <2>2. \A s \in Symbols : positions[s] = paper[s]
    BY QuietIsIdle, Settled0 DEF OrderlyRun, Ended
  <2>3. QED
    BY <2>1, <2>2
<1>2. QED
  BY <1>1, RunsAreOrderly, PTL

\* In an orderly run nothing is booked twice, and what exits have taken off the paper book is
\* booked by the time nothing is on its way, whether the loop or an exit ordered it.
THEOREM BookedOnce == Spec => []BookedExact
<1>1. OrderlyRun => BookedExact
  <2> SUFFICES ASSUME OrderlyRun, Orderly, NEW s \in Symbols
               PROVE  booked[s] <= closed[s] /\ (Quiet => booked[s] = closed[s])
    BY DEF BookedExact
  <2>1. booked[s] \in Nat /\ closed[s] \in Nat
    BY DEF OrderlyRun, Types, BookType
  <2>2. Agrees(s)
    BY DEF OrderlyRun, OrderlyInv
  <2>3. booked[s] <= closed[s]
    <3>1. CASE booked[s] = closed[s]
      BY <2>1, <3>1
    <3>2. CASE \E w \in Of(s) : w.ok = TRUE /\ w.req.act \in Exits
      <4>1. PICK w \in Of(s) : w.ok = TRUE /\ w.req.act \in Exits
        BY <3>2
      <4>2. booked[s] + w.req.qty = closed[s]
        BY <2>2, <4>1 DEF Agrees, Exact
      <4>3. w.req.qty \in Nat
        BY WorkHas DEF OrderlyRun, Of
      <4>4. QED
        BY <2>1, <4>2, <4>3
    <3>3. QED
      BY <2>2, <3>1, <3>2 DEF Agrees, Settles
  <2>4. Quiet => booked[s] = closed[s]
    BY QuietIsIdle, Settled0 DEF OrderlyRun
  <2>5. QED
    BY <2>3, <2>4
<1>2. QED
  BY <1>1, RunsAreOrderly, PTL

\* Outside the part of its cycle that orders and records, the loop holds no reservation in an
\* orderly run: filled, failed or refused, and whatever an exit did, an order gives back what
\* it took.
THEOREM NothingReserved == Spec => []ReservationsSettle
<1>1. OrderlyRun => ReservationsSettle
  <2> SUFFICES ASSUME OrderlyRun, Orderly, pc["loop"] \in {"top", "fetch", "decide", "cycled"}
               PROVE  reserved = Flat
    BY DEF ReservationsSettle
  <2>1. ASSUME NEW s \in Symbols, reserved[s] # 0 PROVE FALSE
    <3>1. PICK w \in Work : w.req.act \in Opens \cup Expands
      BY <2>1 DEF OrderlyRun, OrderlyInv, Agrees, Reserves, Of
    <3>2. PICK t \in Threads : Busy(t)
      BY <3>1, NobodyBusy DEF OrderlyRun
    <3>3. t \in Exiters
      BY <3>2 DEF Threads, Busy
    <3>4. w.req.act \in Exits
      BY <3>2, <3>3 DEF OrderlyRun, OrderlyInv, Answers
    <3>5. QED
      BY <3>1, <3>4, ActsDiffer
  <2>2. reserved \in [Symbols -> Nat]
    BY DEF OrderlyRun, Types, ExposureType
  <2>3. QED
    BY <2>1, <2>2 DEF Flat
<1>2. QED
  BY <1>1, RunsAreOrderly, PTL

\* In an orderly run that did not start from an earlier one's trades, a symbol that was exited
\* stays flat in both books: no later cycle, flip or exit brings a position back.
THEOREM ExitedStaysFlat == Spec => []ExitedFlat
<1>1. OrderlyRun => ExitedFlat
  BY DEF OrderlyRun, OrderlyInv, Agrees, Stays, ExitedFlat, Types, ExitType
<1>2. QED
  BY <1>1, RunsAreOrderly, PTL
=============================================================================
