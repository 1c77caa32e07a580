----------------------------- MODULE DataLemmas -----------------------------
(***************************************************************************)
(* Lemmas about the data of the models: sums over sets, division, and      *)
(* sequences.  The library's induction theorems take an operator, but that *)
(* every set of subsets of a finite set has a smallest one can be cited,   *)
(* and induction follows: the smallest counterexample does not exist.      *)
(***************************************************************************)
EXTENDS SetSums, SequencesExt, FiniteSetTheorems, SequenceTheorems, WellFoundedInduction,
        TLAPS

LEMMA SmallestSet ==
    ASSUME NEW S, IsFiniteSet(S), NEW W, W \subseteq SUBSET S, W # {}
    PROVE  \E X \in W : \A Y \in W : ~(Y \subseteq X /\ Y # X)
<1>1. W \subseteq FiniteSubsetsOf(S)
  BY FS_Subset DEF FiniteSubsetsOf
<1>2. IsWellFoundedOn(StrictSubsetOrdering(S), FiniteSubsetsOf(S))
  BY FS_StrictSubsetOrderingWellFounded
<1>3. \E X \in W : \A Y \in W : ~(<<Y, X>> \in StrictSubsetOrdering(S))
  BY <1>1, <1>2, WFMin
<1>4. QED
  BY <1>3 DEF StrictSubsetOrdering

\* A set of numbers has a smallest one: its intervals from 0 have a smallest one.
LEMMA SmallestNat ==
    ASSUME NEW W, W \subseteq Nat, W # {}
    PROVE  \E x \in W : \A y \in W : x <= y
<1>1. PICK n \in W : TRUE
  OBVIOUS
<1>2. IsFiniteSet(0 .. n)
  BY <1>1, FS_Interval
<1> DEFINE V == {0 .. k : k \in {j \in W : j <= n}}
<1>3. V \subseteq SUBSET (0 .. n) /\ V # {}
  <2>1. \A k \in Nat : k <= n => 0 .. k \in SUBSET (0 .. n)
    BY <1>1
  <2>2. 0 .. n \in V
    BY <1>1
  <2>3. QED
    BY <2>1, <2>2
<1> HIDE DEF V
<1>4. PICK X \in V : \A Y \in V : ~(Y \subseteq X /\ Y # X)
  <2> DEFINE I == 0 .. n
  <2>1. IsFiniteSet(I) /\ V \subseteq SUBSET I /\ V # {}
    BY <1>2, <1>3
  <2> HIDE DEF I
  <2>2. QED
    BY <2>1, SmallestSet
<1>5. PICK k \in W : k <= n /\ X = 0 .. k
  BY <1>4 DEF V
<1>6. ASSUME NEW y \in W PROVE k <= y
  <2>1. CASE y > n
    BY <1>1, <1>5, <2>1
  <2>2. CASE y <= n /\ y < k
    <3>1. 0 .. y \in V
      BY <2>2 DEF V
    <3>2. 0 .. y \subseteq X /\ 0 .. y # X
      <4>1. k \in 0 .. k /\ k \notin 0 .. y
        BY <1>5, <2>2
      <4>2. 0 .. y \subseteq 0 .. k
        BY <1>5, <2>2
      <4>3. QED
        BY <1>5, <4>1, <4>2
    <3>3. QED
      BY <1>4, <3>1, <3>2
  <2>3. QED
    BY <1>1, <1>5, <2>1, <2>2
<1>7. QED
  BY <1>6

First(T) == CHOOSE y \in T : TRUE

\* The sums of all subsets of S with at most n elements.
Sums(g, f, S, n) ==
    g = [T \in SUBSET S |-> IF T = {} \/ Cardinality(T) > n THEN 0
                            ELSE f[First(T)] + g[T \ {First(T)}]]

LEMMA SumsExist ==
    ASSUME NEW f, NEW S, IsFiniteSet(S), NEW n \in Nat
    PROVE  \E g : Sums(g, f, S, n)
<1> DEFINE W == {m \in Nat : ~\E g : Sums(g, f, S, m)}
<1>1. ASSUME W # {} PROVE FALSE
  <2>1. PICK m \in W : \A y \in W : m <= y
    BY <1>1, SmallestNat
  <2>2. \A T \in SUBSET S : IsFiniteSet(T) /\ Cardinality(T) \in Nat
    BY FS_Subset, FS_CardinalityType
  <2>3. \A T \in SUBSET S : T # {} => First(T) \in T
    BY DEF First
  <2>4. CASE m = 0
    <3> DEFINE g == [T \in SUBSET S |-> 0]
    <3>1. \A T \in SUBSET S : T = {} \/ Cardinality(T) > 0
      BY <2>2, FS_EmptySet
    <3>2. Sums(g, f, S, 0)
      BY <3>1 DEF Sums
    <3>3. QED
      BY <2>1, <2>4, <3>2
  <2>5. CASE m # 0
    <3>1. m - 1 \in Nat /\ m - 1 \notin W
      BY <2>1, <2>5
    <3>2. PICK g : Sums(g, f, S, m - 1)
      BY <3>1
    <3> DEFINE h == [T \in SUBSET S |-> IF T = {} \/ Cardinality(T) > m THEN 0
                                        ELSE f[First(T)] + g[T \ {First(T)}]]
    <3>3. ASSUME NEW T \in SUBSET S, T # {}, Cardinality(T) <= m
          PROVE  h[T \ {First(T)}] = g[T \ {First(T)}]
      <4> DEFINE U == T \ {First(T)}
      <4>1. U \in SUBSET S /\ Cardinality(U) = Cardinality(T) - 1
        BY <2>2, <2>3, <3>3, FS_RemoveElement
      <4>2. Cardinality(U) <= m - 1 /\ Cardinality(U) <= m /\ Cardinality(U) \in Nat
        BY <2>1, <2>2, <3>3, <4>1
      <4> HIDE DEF U
      <4>3. g[U] = IF U = {} THEN 0 ELSE f[First(U)] + g[U \ {First(U)}]
        <5>1. g[U] = IF U = {} \/ Cardinality(U) > m - 1 THEN 0
                     ELSE f[First(U)] + g[U \ {First(U)}]
          BY <3>2, <4>1 DEF Sums
        <5>2. ~(Cardinality(U) > m - 1)
          BY <2>1, <4>2
        <5>3. QED
          BY <5>1, <5>2
      <4>4. h[U] = IF U = {} THEN 0 ELSE f[First(U)] + g[U \ {First(U)}]
        BY <2>1, <4>1, <4>2
      <4>5. QED
        BY <4>3, <4>4 DEF U
    <3>4. h = [T \in SUBSET S |-> IF T = {} \/ Cardinality(T) > m THEN 0
                                  ELSE f[First(T)] + h[T \ {First(T)}]]
      <4>1. \A T \in SUBSET S : T # {} /\ ~(Cardinality(T) > m) =>
                h[T \ {First(T)}] = g[T \ {First(T)}]
        <5>1. \A T \in SUBSET S : ~(Cardinality(T) > m) => Cardinality(T) <= m
          BY <2>1, <2>2
        <5> HIDE DEF h
        <5>2. QED
          BY <3>3, <5>1
      <4> DEFINE k == [T \in SUBSET S |-> IF T = {} \/ Cardinality(T) > m THEN 0
                                          ELSE f[First(T)] + h[T \ {First(T)}]]
      <4>2. \A T \in SUBSET S : h[T] = k[T]
        BY <4>1
      <4>3. QED
        BY <4>2
    <3> HIDE DEF h
    <3>5. Sums(h, f, S, m)
      BY <3>4 DEF Sums
    <3>6. QED
      BY <2>1, <3>5
  <2>6. QED
    BY <2>4, <2>5
<1>2. QED
  BY <1>1

\* SumOver is the last of the sums of the subsets, each of which adds one element.
AddsUp(g, f, S) ==
    /\ SumOver(f, S) = g[S]
    /\ g[{}] = 0
    /\ \A T \in SUBSET S : T # {} =>
            First(T) \in T /\ g[T] = f[First(T)] + g[T \ {First(T)}]

LEMMA SumSteps ==
    ASSUME NEW f, NEW S, IsFiniteSet(S)
    PROVE  \E g : AddsUp(g, f, S)
<1> DEFINE IsSum(g) == g = [T \in SUBSET S |->
               IF T = {} THEN 0 ELSE f[CHOOSE y \in T : TRUE] + g[T \ {CHOOSE y \in T : TRUE}]]
<1>1. \E g : IsSum(g)
  <2>1. Cardinality(S) \in Nat /\ \A T \in SUBSET S : ~(Cardinality(T) > Cardinality(S))
    BY FS_Subset, FS_CardinalityType
  <2>2. PICK g : Sums(g, f, S, Cardinality(S))
    BY <2>1, SumsExist
  <2>3. IsSum(g)
    BY <2>1, <2>2 DEF Sums, First
  <2>4. QED
    BY <2>3
<1> DEFINE g == CHOOSE h : IsSum(h)
<1>2. IsSum(g)
  BY <1>1
<1>3. SumOver(f, S) = g[S]
  BY DEF SumOver
<1>4. g = [T \in SUBSET S |-> IF T = {} THEN 0
                               ELSE f[First(T)] + g[T \ {First(T)}]]
  BY <1>2 DEF First
<1> HIDE DEF g
<1>5. g[{}] = 0
  BY <1>4
<1>6. \A T \in SUBSET S : T # {} => First(T) \in T /\ g[T] = f[First(T)] + g[T \ {First(T)}]
  BY <1>4 DEF First
<1>7. QED
  BY <1>3, <1>5, <1>6 DEF AddsUp

\* Division to the nearest: q is off from a / (2 * b) by half at most.
LEMMA Nearest ==
    ASSUME NEW a \in Nat, NEW b \in Nat \ {0}
    PROVE  LET q == (a + b) \div (2 * b)
           IN  q \in Nat /\ (2 * b) * q <= a + b /\ a <= (2 * b) * q + b
<1> DEFINE n == a + b
           d == 2 * b
           q == n \div d
<1>1. n \in Nat /\ d \in Nat /\ d > 0
  OBVIOUS
<1> HIDE DEF n, d
<1>2. q \in Int /\ n % d \in 0 .. d - 1 /\ n = d * q + (n % d)
  BY <1>1
<1>3. q >= 0
  <2>1. ASSUME q < 0 PROVE FALSE
    <3>1. d * q <= -d
      <4>1. q <= -1
        BY <1>2, <2>1
      <4>2. \A x \in Int, y \in Int : x > 0 /\ y <= -1 => x * y <= -x
        OBVIOUS
      <4>3. QED
        BY <1>1, <1>2, <4>1, <4>2
    <3>2. QED
      BY <1>1, <1>2, <3>1
  <2>2. QED
    BY <1>2, <2>1
<1> HIDE DEF q
<1>4. d * q \in Int
  BY <1>1, <1>2
<1>5. d * q <= n /\ n < d * q + d
  BY <1>1, <1>2, <1>4
<1>6. (2 * b) * q <= a + b /\ a + b < (2 * b) * q + 2 * b
  BY <1>5 DEF n, d
<1>7. a <= (2 * b) * q + b
  <2>1. (2 * b) * q \in Int
    BY <1>2
  <2>2. QED
    BY <1>6, <2>1
<1>8. QED
  BY <1>2, <1>3, <1>6, <1>7 DEF n, d, q

LEMMA Distributes ==
    ASSUME NEW u \in Int, NEW v \in Int, NEW w \in Int
    PROVE  u * (v + w) = u * v + u * w
  OBVIOUS

\* The sum of positive numbers.
LEMMA SumPositive ==
    ASSUME NEW S, IsFiniteSet(S), S # {}, NEW f \in [S -> Nat \ {0}]
    PROVE  SumOver(f, S) \in Nat \ {0}
<1>1. PICK g : AddsUp(g, f, S)
  BY SumSteps
<1> DEFINE W == {T \in SUBSET S : T # {} /\ g[T] \notin Nat \ {0}}
<1>2. ASSUME W # {} PROVE FALSE
  <2>0. W \subseteq SUBSET S
    OBVIOUS
  <2> HIDE DEF W
  <2>1. PICK T \in W : \A Y \in W : ~(Y \subseteq T /\ Y # T)
    BY <1>2, <2>0, SmallestSet
  <2> USE DEF W
  <2> DEFINE x == First(T)
  <2>2. x \in T /\ g[T] = f[x] + g[T \ {x}]
    BY <1>1 DEF AddsUp
  <2> HIDE DEF x
  <2>3. T \ {x} \in SUBSET S /\ T \ {x} \subseteq T /\ T \ {x} # T
    BY <2>2
  <2>4. T \ {x} = {} \/ g[T \ {x}] \in Nat \ {0}
    BY <2>1, <2>3
  <2>5. f[x] \in Nat \ {0}
    BY <2>2
  <2>6. g[T] \in Nat \ {0}
    <3>1. CASE T \ {x} = {}
      <4>1. g[T \ {x}] = 0
        BY <1>1, <3>1 DEF AddsUp
      <4>2. g[T] = f[x] + 0
        BY <2>2, <4>1
      <4>3. QED
        BY <2>5, <4>2
    <3>2. CASE g[T \ {x}] \in Nat \ {0}
      <4> DEFINE r == g[T \ {x}]
      <4>1. g[T] = f[x] + r /\ r \in Nat \ {0}
        BY <2>2, <3>2
      <4> HIDE DEF r
      <4>2. QED
        BY <2>5, <4>1
    <3>3. QED
      BY <2>4, <3>1, <3>2
  <2>7. QED
    BY <2>6
<1>3. QED
  BY <1>1, <1>2 DEF AddsUp

\* When one number changes, the sum changes by as much.
LEMMA SumChanges ==
    ASSUME NEW S, IsFiniteSet(S), NEW f \in [S -> Int], NEW h \in [S -> Int], NEW t \in S,
           \A u \in S : u # t => h[u] = f[u]
    PROVE  /\ SumOver(f, S) \in Int
           /\ SumOver(h, S) = SumOver(f, S) + (h[t] - f[t])
<1>1. PICK g : AddsUp(g, f, S)
  BY SumSteps
<1>2. PICK p : AddsUp(p, h, S)
  BY SumSteps
<1> DEFINE Follows(T) == /\ g[T] \in Int
                         /\ t \in T => p[T] = g[T] + (h[t] - f[t])
                         /\ t \notin T => p[T] = g[T]
           W == {T \in SUBSET S : ~Follows(T)}
<1>3. ASSUME W # {} PROVE FALSE
  <2>0. W \subseteq SUBSET S
    OBVIOUS
  <2> HIDE DEF W
  <2>1. PICK T \in W : \A Y \in W : ~(Y \subseteq T /\ Y # T)
    BY <1>3, <2>0, SmallestSet
  <2> USE DEF W
  <2>2. T # {}
    <3>1. Follows({})
      BY <1>1, <1>2 DEF AddsUp
    <3>2. QED
      BY <2>1, <3>1
  <2> DEFINE x == First(T)
             U == T \ {First(T)}
  <2>3. /\ x \in T /\ x \in S
        /\ g[T] = f[x] + g[U] /\ p[T] = h[x] + p[U]
    BY <1>1, <1>2, <2>1, <2>2 DEF AddsUp
  <2>4. Follows(U)
    <3>1. U \in SUBSET S /\ U \subseteq T /\ U # T
      BY <2>1, <2>3
    <3>2. U \notin W
      <4> HIDE DEF W, U
      <4>1. QED
        BY <2>1, <3>1
    <3>3. QED
      BY <3>1, <3>2
  <2>5. f[x] \in Int /\ h[x] \in Int /\ f[t] \in Int /\ h[t] \in Int
    BY <2>3
  <2>6. /\ x = t => t \notin U /\ t \in T
        /\ x # t => (t \in U <=> t \in T) /\ h[x] = f[x]
    BY <2>3
  <2> DEFINE a == g[U]
             b == p[U]
  <2>7. /\ g[T] = f[x] + a /\ p[T] = h[x] + b /\ a \in Int
        /\ t \in U => b = a + (h[t] - f[t])
        /\ t \notin U => b = a
    BY <2>3, <2>4
  <2> HIDE DEF a, b, U, x
  <2>8. Follows(T)
    <3>1. CASE x = t
      BY <2>5, <2>6, <2>7, <3>1
    <3>2. CASE x # t
      BY <2>5, <2>6, <2>7, <3>2
    <3>3. QED
      BY <3>1, <3>2
  <2>9. QED
    BY <2>1, <2>8
<1>4. Follows(S)
  BY <1>3
<1>5. QED
  BY <1>1, <1>2, <1>4 DEF AddsUp

\* A sum that is not nothing has a number that is not nothing.
LEMMA SumNothing ==
    ASSUME NEW S, IsFiniteSet(S), NEW f, \A x \in S : f[x] = 0
    PROVE  SumOver(f, S) = 0
<1>1. PICK g : AddsUp(g, f, S)
  BY SumSteps
<1> DEFINE W == {T \in SUBSET S : g[T] # 0}
<1>2. ASSUME W # {} PROVE FALSE
  <2>0. W \subseteq SUBSET S
    OBVIOUS
  <2> HIDE DEF W
  <2>1. PICK T \in W : \A Y \in W : ~(Y \subseteq T /\ Y # T)
    BY <1>2, <2>0, SmallestSet
  <2> USE DEF W
  <2>2. T # {}
    BY <1>1, <2>1 DEF AddsUp
  <2> DEFINE x == First(T)
  <2>3. x \in T /\ g[T] = f[x] + g[T \ {x}]
    BY <1>1, <2>1, <2>2 DEF AddsUp
  <2> HIDE DEF x
  <2>4. T \ {x} \in SUBSET S /\ T \ {x} \subseteq T /\ T \ {x} # T
    BY <2>3
  <2>5. g[T \ {x}] = 0 /\ f[x] = 0
    BY <2>1, <2>3, <2>4
  <2>6. g[T] = 0
    BY <2>3, <2>5
  <2>7. QED
    BY <2>1, <2>6
<1>3. QED
  BY <1>1, <1>2 DEF AddsUp

\* Sums of numbers that are each close to a multiple of another's are as close.
LEMMA SumsClose ==
    ASSUME NEW S, IsFiniteSet(S), NEW f, NEW h, NEW m \in Int, NEW k \in Int, NEW e \in Int,
           \A x \in S : /\ f[x] \in Int /\ h[x] \in Int
                        /\ m * f[x] - k * h[x] <= e /\ k * h[x] - m * f[x] <= e
    PROVE  /\ SumOver(f, S) \in Int /\ SumOver(h, S) \in Int
           /\ m * SumOver(f, S) - k * SumOver(h, S) <= e * Cardinality(S)
           /\ k * SumOver(h, S) - m * SumOver(f, S) <= e * Cardinality(S)
<1>1. PICK g : AddsUp(g, f, S)
  BY SumSteps
<1>2. PICK p : AddsUp(p, h, S)
  BY SumSteps
<1> DEFINE Close(T) == /\ g[T] \in Int /\ p[T] \in Int
                       /\ m * g[T] - k * p[T] <= e * Cardinality(T)
                       /\ k * p[T] - m * g[T] <= e * Cardinality(T)
           W == {T \in SUBSET S : ~Close(T)}
<1>3. ASSUME W # {} PROVE FALSE
  <2>0. W \subseteq SUBSET S
    OBVIOUS
  <2> HIDE DEF W
  <2>1. PICK T \in W : \A Y \in W : ~(Y \subseteq T /\ Y # T)
    BY <1>3, <2>0, SmallestSet
  <2> USE DEF W
  <2>2. T # {}
    <3>1. Close({})
      BY <1>1, <1>2, FS_EmptySet DEF AddsUp
    <3>2. QED
      BY <2>1, <3>1
  <2> DEFINE x == First(T)
             R == T \ {x}
  <2>3. x \in T /\ g[T] = f[x] + g[R] /\ p[T] = h[x] + p[R]
    BY <1>1, <1>2, <2>2 DEF AddsUp
  <2> HIDE DEF x
  <2>4. R \in SUBSET S /\ R \subseteq T /\ R # T
    BY <2>3
  <2>5. Close(R)
    BY <2>1, <2>4
  <2>6. IsFiniteSet(T) /\ Cardinality(R) = Cardinality(T) - 1 /\ Cardinality(T) \in Nat
    <3>1. IsFiniteSet(T)
      BY FS_Subset
    <3>2. QED
      BY <2>3, <3>1, FS_RemoveElement, FS_CardinalityType
  <2> DEFINE n == Cardinality(R)
  <2>7. n \in Int /\ Cardinality(T) = n + 1
    BY <2>6
  <2>8. /\ g[R] \in Int /\ p[R] \in Int
        /\ m * g[R] - k * p[R] <= e * n
        /\ k * p[R] - m * g[R] <= e * n
    BY <2>5
  <2> HIDE DEF R, n, Close
  <2>9. /\ f[x] \in Int /\ h[x] \in Int
        /\ m * f[x] - k * h[x] <= e /\ k * h[x] - m * f[x] <= e
    BY <2>3
  <2>10. /\ m * (f[x] + g[R]) = m * f[x] + m * g[R]
         /\ k * (h[x] + p[R]) = k * h[x] + k * p[R]
         /\ e * (n + 1) = e * n + e
    <3>1. m * (f[x] + g[R]) = m * f[x] + m * g[R]
      BY <2>8, <2>9, Distributes
    <3>2. k * (h[x] + p[R]) = k * h[x] + k * p[R]
      BY <2>8, <2>9, Distributes
    <3>3. e * (n + 1) = e * n + e
      <4>1. e * (n + 1) = e * n + e * 1
        BY <2>7, Distributes
      <4>2. QED
        BY <2>7, <4>1
    <3>4. QED
      BY <3>1, <3>2, <3>3
  <2>11. /\ m * f[x] \in Int /\ m * g[R] \in Int /\ k * h[x] \in Int
         /\ k * p[R] \in Int /\ e * n \in Int
    BY <2>7, <2>8, <2>9
  <2>12. Close(T)
    <3>1. /\ m * g[T] = m * f[x] + m * g[R] /\ k * p[T] = k * h[x] + k * p[R]
          /\ e * Cardinality(T) = e * n + e
      BY <2>3, <2>7, <2>10
    <3>2. g[T] \in Int /\ p[T] \in Int
      BY <2>3, <2>8, <2>9
    <3>3. QED
      BY <2>8, <2>9, <2>11, <3>1, <3>2 DEF Close
  <2>13. QED
    BY <2>12
<1>4. QED
  BY <1>1, <1>2, <1>3 DEF AddsUp

-----------------------------------------------------------------------------
(* Sequences of anything                                                   *)

IsSeq(q) == \E S : q \in Seq(S)

LEMMA SeqDomain ==
    ASSUME NEW q, IsSeq(q)
    PROVE  Len(q) \in Nat /\ DOMAIN q = 1 .. Len(q)
  BY DEF IsSeq

LEMMA FunctionSeq ==
    ASSUME NEW S, NEW n \in Nat, NEW f \in [1 .. n -> S]
    PROVE  f \in Seq(S)
  OBVIOUS

LEMMA SingletonSeq ==
    ASSUME NEW e
    PROVE  IsSeq(<<e>>) /\ \A i \in DOMAIN <<e>> : <<e>>[i] = e
<1>1. <<e>> \in [1 .. 1 -> {e}]
  OBVIOUS
<1>2. QED
  BY <1>1, FunctionSeq DEF IsSeq

LEMMA AppendSeq ==
    ASSUME NEW q, IsSeq(q), NEW e
    PROVE  /\ IsSeq(Append(q, e))
           /\ DOMAIN Append(q, e) = 1 .. Len(q) + 1
           /\ \A i \in 1 .. Len(q) : Append(q, e)[i] = q[i]
           /\ Append(q, e)[Len(q) + 1] = e
<1>1. PICK S : q \in Seq(S)
  BY DEF IsSeq
<1>2. q \in Seq(S \cup {e}) /\ e \in S \cup {e}
  BY <1>1, SeqMonotonic
<1>3. QED
  BY <1>2, AppendProperties DEF IsSeq

LEMMA ConcatSeq ==
    ASSUME NEW p, NEW q, IsSeq(p), IsSeq(q)
    PROVE  /\ IsSeq(p \o q)
           /\ DOMAIN (p \o q) = 1 .. Len(p) + Len(q)
           /\ \A i \in DOMAIN p : (p \o q)[i] = p[i]
           /\ \A i \in DOMAIN (p \o q) :
                 i \notin DOMAIN p => i - Len(p) \in DOMAIN q /\ (p \o q)[i] = q[i - Len(p)]
<1>1. PICK S, T : p \in Seq(S) /\ q \in Seq(T)
  BY DEF IsSeq
<1>2. p \in Seq(S \cup T) /\ q \in Seq(S \cup T)
  BY <1>1, SeqMonotonic
<1>3. /\ p \o q \in Seq(S \cup T)
      /\ Len(p \o q) = Len(p) + Len(q)
      /\ \A i \in 1 .. Len(p) + Len(q) :
            (p \o q)[i] = IF i <= Len(p) THEN p[i] ELSE q[i - Len(p)]
  BY <1>2, ConcatProperties
<1>4. Len(p) \in Nat /\ Len(q) \in Nat /\ DOMAIN p = 1 .. Len(p) /\ DOMAIN q = 1 .. Len(q)
  BY SeqDomain
<1>5. DOMAIN (p \o q) = 1 .. Len(p) + Len(q)
  BY <1>3
<1>6. QED
  BY <1>3, <1>4, <1>5 DEF IsSeq

LEMMA RemoveSeq ==
    ASSUME NEW q, IsSeq(q), NEW i \in DOMAIN q
    PROVE  /\ IsSeq(RemoveAt(q, i))
           /\ DOMAIN RemoveAt(q, i) = 1 .. Len(q) - 1
           /\ \A j \in 1 .. Len(q) - 1 :
                 RemoveAt(q, i)[j] = IF j < i THEN q[j] ELSE q[j + 1]
<1> DEFINE p == SubSeq(q, 1, i - 1)
           r == SubSeq(q, i + 1, Len(q))
<1>1. PICK S : q \in Seq(S)
  BY DEF IsSeq
<1>2. Len(q) \in Nat /\ i \in 1 .. Len(q)
  BY SeqDomain
<1>3. /\ p \in Seq(S) /\ Len(p) = i - 1
      /\ \A j \in 1 .. i - 1 : p[j] = q[j]
  BY <1>1, <1>2, SubSeqProperties
<1>4. /\ r \in Seq(S) /\ Len(r) = Len(q) - i
      /\ \A j \in 1 .. Len(q) - i : r[j] = q[i + j]
  <2>1. \A k \in i + 1 .. Len(q) : q[k] \in S
    BY <1>1, <1>2
  <2>2. /\ r \in Seq(S)
        /\ Len(r) = IF i + 1 <= Len(q) THEN Len(q) - (i + 1) + 1 ELSE 0
        /\ \A j \in 1 .. Len(q) - (i + 1) + 1 : r[j] = q[(i + 1) + j - 1]
    BY <1>2, <2>1, SubSeqProperties
  <2>3. \A j \in 1 .. Len(q) - i : (i + 1) + j - 1 = i + j
    BY <1>2
  <2>4. QED
    BY <1>2, <2>2, <2>3
<1>5. RemoveAt(q, i) = p \o r
  BY DEF RemoveAt
<1> HIDE DEF p, r
<1>6. /\ p \o r \in Seq(S)
      /\ Len(p \o r) = Len(q) - 1
      /\ \A j \in 1 .. Len(q) - 1 : (p \o r)[j] = IF j <= i - 1 THEN p[j] ELSE r[j - (i - 1)]
  BY <1>2, <1>3, <1>4, ConcatProperties, SMTT(20)
<1>7. ASSUME NEW j \in 1 .. Len(q) - 1
      PROVE  (p \o r)[j] = IF j < i THEN q[j] ELSE q[j + 1]
  <2>1. CASE j < i
    BY <2>1, <1>2, <1>3, <1>6
  <2>2. CASE ~(j < i)
    <3>1. j - (i - 1) \in 1 .. Len(q) - i /\ i + (j - (i - 1)) = j + 1
      BY <2>2, <1>2
    <3>2. (p \o r)[j] = r[j - (i - 1)]
      BY <2>2, <1>2, <1>6
    <3>3. QED
      BY <2>2, <3>1, <3>2, <1>4
  <2>3. QED
    BY <2>1, <2>2
<1>8. IsSeq(p \o r) /\ DOMAIN (p \o r) = 1 .. Len(q) - 1
  BY <1>6 DEF IsSeq
<1>9. QED
  BY <1>5, <1>7, <1>8

LEMMA SetSeq ==
    ASSUME NEW S, IsFiniteSet(S)
    PROVE  /\ IsSeq(SetToSeq(S))
           /\ \A i \in DOMAIN SetToSeq(S) : SetToSeq(S)[i] \in S
           /\ \A i, j \in DOMAIN SetToSeq(S) : SetToSeq(S)[i] = SetToSeq(S)[j] => i = j
           /\ S # {} => 1 \in DOMAIN SetToSeq(S)
<1>1. Cardinality(S) \in Nat /\ ExistsBijection(1 .. Cardinality(S), S)
  BY FS_CardinalityType
<1>2. \E f \in [1 .. Cardinality(S) -> S] : IsInjective(f)
  BY <1>1 DEF ExistsBijection, Bijection, Injection, IsInjective
<1>3. SetToSeq(S) \in [1 .. Cardinality(S) -> S] /\ IsInjective(SetToSeq(S))
  BY <1>2 DEF SetToSeq
<1>4. SetToSeq(S) \in Seq(S)
  BY <1>1, <1>3, FunctionSeq
<1>5. S # {} => Cardinality(S) > 0
  BY <1>1, FS_EmptySet
<1>6. QED
  BY <1>1, <1>3, <1>4, <1>5 DEF IsInjective, IsSeq

Elems(q) == {q[i] : i \in DOMAIN q}

LEMMA ElemsAppend ==
    ASSUME NEW q, IsSeq(q), NEW e
    PROVE  Elems(Append(q, e)) = Elems(q) \cup {e}
<1> DEFINE r == Append(q, e)
<1>1. /\ DOMAIN r = 1 .. Len(q) + 1
      /\ \A i \in 1 .. Len(q) : r[i] = q[i]
      /\ r[Len(q) + 1] = e
      /\ Len(q) \in Nat /\ DOMAIN q = 1 .. Len(q)
  BY AppendSeq, SeqDomain
<1> HIDE DEF r
<1>2. \A i \in DOMAIN r : i \in DOMAIN q \/ i = Len(q) + 1
  BY <1>1
<1>3. DOMAIN q \subseteq DOMAIN r /\ Len(q) + 1 \in DOMAIN r
  BY <1>1
<1>4. Elems(r) \subseteq Elems(q) \cup {e}
  BY <1>1, <1>2 DEF Elems
<1>5. Elems(q) \subseteq Elems(r) /\ e \in Elems(r)
  BY <1>1, <1>3 DEF Elems
<1>6. QED
  BY <1>4, <1>5 DEF r

LEMMA ElemsConcat ==
    ASSUME NEW p, NEW q, IsSeq(p), IsSeq(q)
    PROVE  Elems(p \o q) = Elems(p) \cup Elems(q)
<1> DEFINE r == p \o q
<1>1. /\ DOMAIN r = 1 .. Len(p) + Len(q)
      /\ \A i \in DOMAIN p : r[i] = p[i]
      /\ \A i \in DOMAIN r :
            i \notin DOMAIN p => i - Len(p) \in DOMAIN q /\ r[i] = q[i - Len(p)]
      /\ Len(p) \in Nat /\ DOMAIN p = 1 .. Len(p)
      /\ Len(q) \in Nat /\ DOMAIN q = 1 .. Len(q)
  BY ConcatSeq, SeqDomain
<1> HIDE DEF r
<1>2. Elems(r) \subseteq Elems(p) \cup Elems(q)
  BY <1>1 DEF Elems
<1>3. DOMAIN p \subseteq DOMAIN r
  BY <1>1
<1>4. \A i \in DOMAIN q : i + Len(p) \in DOMAIN r /\ r[i + Len(p)] = q[i]
  <2>1. ASSUME NEW i \in DOMAIN q
        PROVE  i + Len(p) \in DOMAIN r /\ r[i + Len(p)] = q[i]
    <3>1. i \in Nat /\ i >= 1 /\ i <= Len(q)
      BY <1>1
    <3>2. i + Len(p) \in DOMAIN r /\ i + Len(p) \notin DOMAIN p /\ (i + Len(p)) - Len(p) = i
      BY <1>1, <3>1
    <3>3. QED
      BY <1>1, <3>2
  <2>2. QED
    BY <2>1
<1>5. Elems(p) \subseteq Elems(r) /\ Elems(q) \subseteq Elems(r)
  BY <1>1, <1>3, <1>4 DEF Elems
<1>6. QED
  BY <1>2, <1>5 DEF r

LEMMA ElemsRemove ==
    ASSUME NEW q, IsSeq(q), NEW i \in DOMAIN q
    PROVE  /\ Elems(RemoveAt(q, i)) = {q[j] : j \in DOMAIN q \ {i}}
           /\ \A k \in DOMAIN RemoveAt(q, i) : \E j \in DOMAIN q \ {i} : RemoveAt(q, i)[k] = q[j]
           /\ Len(RemoveAt(q, i)) = Len(q) - 1
<1> DEFINE r == RemoveAt(q, i)
<1>1. /\ DOMAIN r = 1 .. Len(q) - 1
      /\ \A j \in 1 .. Len(q) - 1 : r[j] = IF j < i THEN q[j] ELSE q[j + 1]
      /\ Len(q) \in Nat /\ DOMAIN q = 1 .. Len(q) /\ IsSeq(r)
      /\ Len(r) \in Nat /\ DOMAIN r = 1 .. Len(r)
  BY RemoveSeq, SeqDomain
<1> HIDE DEF r
<1>2. \A k \in DOMAIN r : \E j \in DOMAIN q \ {i} : r[k] = q[j]
  <2>1. ASSUME NEW k \in DOMAIN r PROVE \E j \in DOMAIN q \ {i} : r[k] = q[j]
    <3>1. CASE k < i
      BY <1>1, <3>1
    <3>2. CASE ~(k < i)
      <4>1. k + 1 \in DOMAIN q \ {i} /\ r[k] = q[k + 1]
        BY <1>1, <3>2
      <4>2. QED
        BY <4>1
    <3>3. QED
      BY <3>1, <3>2
  <2>2. QED
    BY <2>1
<1>3. \A j \in DOMAIN q \ {i} : \E k \in DOMAIN r : r[k] = q[j]
  <2>1. ASSUME NEW j \in DOMAIN q \ {i} PROVE \E k \in DOMAIN r : r[k] = q[j]
    <3>1. CASE j < i
      <4>1. j \in DOMAIN r /\ r[j] = q[j]
        BY <1>1, <3>1
      <4>2. QED
        BY <4>1
    <3>2. CASE j > i
      <4>1. j - 1 \in DOMAIN r /\ ~(j - 1 < i) /\ (j - 1) + 1 = j
        BY <1>1, <3>2
      <4>2. r[j - 1] = q[j]
        BY <1>1, <4>1
      <4>3. QED
        BY <4>1, <4>2
    <3>3. QED
      BY <1>1, <3>1, <3>2
  <2>2. QED
    BY <2>1
<1>4. Elems(r) = {q[j] : j \in DOMAIN q \ {i}}
  BY <1>2, <1>3 DEF Elems
<1>5. Len(r) = Len(q) - 1
  <2> DEFINE m == Len(r)
             n == Len(q) - 1
  <2>1. m \in Nat /\ n \in Int /\ 1 .. m = 1 .. n
    <3>1. DOMAIN r = 1 .. m /\ DOMAIN r = 1 .. n
      BY <1>1
    <3>2. m \in Nat /\ n \in Int
      BY <1>1
    <3>3. QED
      BY <3>1, <3>2
  <2>2. n \in Nat
    <3>1. i \in 1 .. Len(q)
      BY <1>1
    <3>2. QED
      BY <1>1, <3>1
  <2> HIDE DEF m, n
  <2>3. m = n
    <3>1. ASSUME m < n PROVE FALSE
      <4>1. n \in 1 .. n /\ n \notin 1 .. m
        BY <2>1, <2>2, <3>1
      <4>2. QED
        BY <2>1, <4>1
    <3>2. ASSUME m > n PROVE FALSE
      <4>1. m \in 1 .. m /\ m \notin 1 .. n
        BY <2>1, <2>2, <3>2
      <4>2. QED
        BY <2>1, <4>1
    <3>3. QED
      BY <2>1, <2>2, <3>1, <3>2
  <2>4. QED
    BY <2>3 DEF m, n
<1>6. QED
  BY <1>2, <1>4, <1>5 DEF r

LEMMA RemoveTyped ==
    ASSUME NEW S, NEW q \in Seq(S), NEW i \in DOMAIN q
    PROVE  RemoveAt(q, i) \in Seq(S)
<1> DEFINE r == RemoveAt(q, i)
<1>1. IsSeq(q) /\ IsSeq(r) /\ \A k \in DOMAIN r : \E j \in DOMAIN q \ {i} : r[k] = q[j]
  <2>1. IsSeq(q)
    BY DEF IsSeq
  <2>2. QED
    BY <2>1, RemoveSeq, ElemsRemove
<1>2. \A j \in DOMAIN q : q[j] \in S
  OBVIOUS
<1> HIDE DEF r
<1>3. \A k \in DOMAIN r : r[k] \in S
  BY <1>1, <1>2
<1>4. r \in Seq(S)
  <2>1. PICK T : r \in Seq(T)
    BY <1>1 DEF IsSeq
  <2>2. r \in [1 .. Len(r) -> S] /\ Len(r) \in Nat
    BY <1>3, <2>1
  <2>3. QED
    BY <2>2, FunctionSeq
<1>5. QED
  BY <1>4 DEF r

LEMMA SetSeqTyped ==
    ASSUME NEW T, NEW S, S \subseteq T, IsFiniteSet(S)
    PROVE  SetToSeq(S) \in Seq(T)
<1> DEFINE r == SetToSeq(S)
<1>1. IsSeq(r) /\ \A k \in DOMAIN r : r[k] \in T
  BY SetSeq
<1> HIDE DEF r
<1>2. PICK U : r \in Seq(U)
  BY <1>1 DEF IsSeq
<1>3. r \in [1 .. Len(r) -> T] /\ Len(r) \in Nat
  BY <1>1, <1>2
<1>4. QED
  BY <1>3, FunctionSeq DEF r

\* No two elements have the same key.
Distinct(q, k) == \A i, j \in DOMAIN q : k[q[i]] = k[q[j]] => i = j

LEMMA DistinctNone ==
    ASSUME NEW k
    PROVE  Distinct(<< >>, k) /\ Elems(<< >>) = {}
  BY DEF Distinct, Elems

LEMMA DistinctAppend ==
    ASSUME NEW q, IsSeq(q), NEW k, Distinct(q, k), NEW e, \A x \in Elems(q) : k[x] # k[e]
    PROVE  Distinct(Append(q, e), k) /\ Elems(Append(q, e)) = Elems(q) \cup {e}
<1> DEFINE r == Append(q, e)
<1>1. /\ DOMAIN r = 1 .. Len(q) + 1 /\ Len(q) \in Nat /\ DOMAIN q = 1 .. Len(q)
      /\ \A i \in 1 .. Len(q) : r[i] = q[i]
      /\ r[Len(q) + 1] = e
  BY AppendSeq, SeqDomain
<1> HIDE DEF r
<1>2. \A i \in DOMAIN q : k[q[i]] # k[e]
  BY DEF Elems
<1>3. ASSUME NEW i \in DOMAIN r, NEW j \in DOMAIN r, k[r[i]] = k[r[j]] PROVE i = j
  <2>1. CASE i \in DOMAIN q /\ j \in DOMAIN q
    <3>1. k[q[i]] = k[q[j]]
      BY <1>1, <1>3, <2>1
    <3>2. QED
      BY <2>1, <3>1 DEF Distinct
  <2>2. CASE i \notin DOMAIN q /\ j \in DOMAIN q
    <3>1. r[i] = e /\ r[j] = q[j]
      BY <1>1, <2>2
    <3>2. QED
      BY <1>2, <1>3, <2>2, <3>1
  <2>3. CASE i \in DOMAIN q /\ j \notin DOMAIN q
    <3>1. r[j] = e /\ r[i] = q[i]
      BY <1>1, <2>3
    <3>2. QED
      BY <1>2, <1>3, <2>3, <3>1
  <2>4. CASE i \notin DOMAIN q /\ j \notin DOMAIN q
    BY <1>1, <2>4
  <2>5. QED
    BY <2>1, <2>2, <2>3, <2>4
<1>4. QED
  BY <1>3, ElemsAppend DEF Distinct, r

LEMMA DistinctRemove ==
    ASSUME NEW q, IsSeq(q), NEW k, Distinct(q, k), NEW i \in DOMAIN q
    PROVE  /\ Distinct(RemoveAt(q, i), k)
           /\ Elems(RemoveAt(q, i)) = Elems(q) \ {q[i]}
           /\ q[i] \in Elems(q)
<1> DEFINE r == RemoveAt(q, i)
<1>1. /\ DOMAIN r = 1 .. Len(q) - 1 /\ Len(q) \in Nat /\ DOMAIN q = 1 .. Len(q)
      /\ \A j \in 1 .. Len(q) - 1 : r[j] = IF j < i THEN q[j] ELSE q[j + 1]
  BY RemoveSeq, SeqDomain
<1>2. Elems(r) = {q[j] : j \in DOMAIN q \ {i}}
  BY ElemsRemove
<1> HIDE DEF r
<1> DEFINE From(j) == IF j < i THEN j ELSE j + 1
<1>3. \A j \in DOMAIN r : From(j) \in DOMAIN q /\ r[j] = q[From(j)]
  BY <1>1
<1>4. \A j, l \in DOMAIN r : From(j) = From(l) => j = l
  BY <1>1
<1> HIDE DEF From
<1>5. Distinct(r, k)
  BY <1>3, <1>4 DEF Distinct
<1>6. \A j \in DOMAIN q \ {i} : q[j] # q[i]
  BY DEF Distinct
<1>7. Elems(r) = Elems(q) \ {q[i]}
  BY <1>2, <1>6 DEF Elems
<1>8. QED
  BY <1>5, <1>7 DEF Elems, r

LEMMA DistinctTail ==
    ASSUME NEW S, NEW q \in Seq(S), NEW k, Distinct(q, k), q # << >>
    PROVE  /\ Distinct(Tail(q), k)
           /\ Elems(Tail(q)) = Elems(q) \ {Head(q)}
           /\ Head(q) \in Elems(q)
<1> DEFINE r == Tail(q)
<1>1. /\ Len(q) \in Nat /\ Len(q) # 0 /\ DOMAIN q = 1 .. Len(q) /\ DOMAIN r = 1 .. Len(q) - 1
      /\ \A j \in 1 .. Len(q) - 1 : r[j] = q[j + 1]
      /\ Head(q) = q[1]
  OBVIOUS
<1> HIDE DEF r
<1>2. 1 \in DOMAIN q
  BY <1>1
<1>3. ASSUME NEW j \in DOMAIN r PROVE j + 1 \in DOMAIN q /\ j + 1 # 1 /\ r[j] = q[j + 1]
  BY <1>1
<1>4. ASSUME NEW j \in DOMAIN q, j # 1 PROVE j - 1 \in DOMAIN r /\ r[j - 1] = q[j]
  BY <1>1, <1>4
<1>5. Distinct(r, k)
  <2> SUFFICES ASSUME NEW i \in DOMAIN r, NEW j \in DOMAIN r, k[r[i]] = k[r[j]]
               PROVE  i = j
    BY DEF Distinct
  <2>1. i + 1 = j + 1
    BY <1>3 DEF Distinct
  <2>2. QED
    BY <1>1, <2>1
<1>6. \A j \in DOMAIN q : j # 1 => q[j] # q[1]
  BY <1>2 DEF Distinct
<1>7. Elems(r) \subseteq Elems(q) \ {q[1]}
  BY <1>3, <1>6 DEF Elems
<1>8. Elems(q) \ {q[1]} \subseteq Elems(r)
  BY <1>4 DEF Elems
<1>9. QED
  BY <1>1, <1>2, <1>5, <1>7, <1>8 DEF Elems, r

\* A set made into a sequence: all its elements, each once.
LEMMA SetSeqElems ==
    ASSUME NEW S, IsFiniteSet(S), NEW k, \A x, y \in S : k[x] = k[y] => x = y
    PROVE  Elems(SetToSeq(S)) = S /\ Distinct(SetToSeq(S), k)
<1> DEFINE n == Cardinality(S)
           f == SetToSeq(S)
<1>1. n \in Nat /\ ExistsBijection(1 .. n, S)
  BY FS_CardinalityType
<1>2. \E g \in [1 .. n -> S] : IsInjective(g)
  BY <1>1 DEF ExistsBijection, Bijection, Injection, IsInjective
<1>3. f \in [1 .. n -> S] /\ IsInjective(f)
  BY <1>2 DEF SetToSeq
<1>4. f \in Injection(1 .. n, S)
  BY <1>3 DEF Injection
<1>5. Cardinality(1 .. n) = n
  BY <1>1, FS_Interval
<1>6. f \in Surjection(1 .. n, S)
  <2> HIDE DEF f, n
  <2>1. Cardinality(1 .. n) = Cardinality(S)
    BY <1>5 DEF n
  <2>2. QED
    BY <1>4, <2>1, FS_Injection
<1> HIDE DEF f, n
<1>7. DOMAIN f = 1 .. n
  BY <1>3
<1>8. \A x \in S : \E i \in 1 .. n : f[i] = x
  BY <1>6 DEF Surjection
<1>9. Elems(f) = S
  BY <1>3, <1>7, <1>8 DEF Elems
<1>10. Distinct(f, k)
  BY <1>3, <1>7 DEF Distinct, IsInjective
<1>11. QED
  BY <1>9, <1>10 DEF f

-----------------------------------------------------------------------------
(* Sums taken apart and put together                                       *)

\* The sums of a set's subsets are the same whichever larger set they are taken in.
LEMMA SumOfPart ==
    ASSUME NEW f, NEW S, IsFiniteSet(S), NEW T \in SUBSET S, NEW g, AddsUp(g, f, S)
    PROVE  SumOver(f, T) = g[T]
<1>1. IsFiniteSet(T)
  BY FS_Subset
<1>2. PICK p : AddsUp(p, f, T)
  BY <1>1, SumSteps
<1> DEFINE W == {U \in SUBSET T : p[U] # g[U]}
<1>3. ASSUME W # {} PROVE FALSE
  <2>0. W \subseteq SUBSET T
    OBVIOUS
  <2> HIDE DEF W
  <2>1. PICK U \in W : \A Y \in W : ~(Y \subseteq U /\ Y # U)
    BY <1>1, <1>3, <2>0, SmallestSet
  <2> USE DEF W
  <2>2. U # {}
    BY <1>2, <2>1 DEF AddsUp
  <2> DEFINE x == First(U)
             V == U \ {First(U)}
  <2>3. x \in U /\ p[U] = f[x] + p[V] /\ g[U] = f[x] + g[V]
    BY <1>2, <2>1, <2>2 DEF AddsUp
  <2>4. V \in SUBSET T /\ V \subseteq U /\ V # U
    BY <2>1, <2>3
  <2>5. V \notin W
    <3> HIDE DEF W, V
    <3>1. QED
      BY <2>1, <2>4
  <2>6. QED
    BY <2>1, <2>3, <2>4, <2>5
<1>4. QED
  BY <1>2, <1>3 DEF AddsUp

\* A sum is any one of its numbers and the sum of the others.
LEMMA SumInsert ==
    ASSUME NEW S, IsFiniteSet(S), NEW f, \A y \in S : f[y] \in Int, NEW x \in S
    PROVE  SumOver(f, S) = f[x] + SumOver(f, S \ {x})
<1>1. PICK g : AddsUp(g, f, S)
  BY SumSteps
<1> DEFINE W == {T \in SUBSET S : g[T] \notin Int \/ \E z \in T : g[T] # f[z] + g[T \ {z}]}
<1>2. ASSUME W # {} PROVE FALSE
  <2>0. W \subseteq SUBSET S
    OBVIOUS
  <2> HIDE DEF W
  <2>1. PICK T \in W : \A Y \in W : ~(Y \subseteq T /\ Y # T)
    BY <1>2, <2>0, SmallestSet
  <2>2. \A z \in T : T \ {z} \notin W
    <3>1. ASSUME NEW z \in T PROVE T \ {z} \notin W
      <4> DEFINE U == T \ {z}
      <4>1. U \subseteq T /\ U # T
        OBVIOUS
      <4> HIDE DEF U
      <4>2. U \notin W
        BY <2>1, <4>1
      <4>3. QED
        BY <4>2 DEF U
    <3>2. QED
      BY <3>1
  <2> USE DEF W
  <2>3. T # {}
    <3>1. g[{}] = 0
      BY <1>1 DEF AddsUp
    <3>2. {} \notin W
      BY <3>1
    <3> HIDE DEF W
    <3>3. QED
      BY <2>1, <3>2
  <2> DEFINE y == First(T)
  <2>4. y \in T /\ g[T] = f[y] + g[T \ {y}]
    BY <1>1, <2>1, <2>3 DEF AddsUp
  <2> HIDE DEF y
  <2>5. /\ g[T \ {y}] \in Int
        /\ \A z \in T \ {y} : g[T \ {y}] = f[z] + g[(T \ {y}) \ {z}]
    BY <2>1, <2>2, <2>4
  <2>6. \A z \in T : f[z] \in Int
    BY <2>1
  <2>7. g[T] \in Int
    BY <2>4, <2>5, <2>6
  <2>8. PICK z \in T : g[T] # f[z] + g[T \ {z}]
    BY <2>1, <2>7
  <2>9. z # y
    BY <2>4, <2>8
  <2>10. /\ g[T \ {z}] \in Int
         /\ g[T \ {z}] = f[y] + g[(T \ {z}) \ {y}]
    BY <2>1, <2>2, <2>4, <2>8, <2>9
  <2>11. (T \ {z}) \ {y} = (T \ {y}) \ {z}
    OBVIOUS
  <2> DEFINE r == g[(T \ {y}) \ {z}]
  <2>12. g[T \ {y}] = f[z] + r /\ g[T \ {z}] = f[y] + r
    BY <2>5, <2>8, <2>9, <2>10, <2>11
  <2>13. r \in Int
    <3>1. (T \ {y}) \ {z} \in SUBSET S /\ (T \ {y}) \ {z} \notin W
      <4> DEFINE U == (T \ {y}) \ {z}
      <4>1. U \subseteq T /\ U # T /\ U \in SUBSET S
        BY <2>1, <2>8
      <4> HIDE DEF U, W
      <4>2. U \notin W
        BY <2>1, <4>1
      <4>3. QED
        BY <4>1, <4>2 DEF U
    <3>2. QED
      BY <3>1
  <2> HIDE DEF r
  <2>14. f[y] + (f[z] + r) = f[z] + (f[y] + r)
    BY <2>4, <2>6, <2>8, <2>13
  <2>15. QED
    BY <2>4, <2>8, <2>12, <2>14
<1>3. g[S] = f[x] + g[S \ {x}]
  BY <1>2
<1>4. SumOver(f, S \ {x}) = g[S \ {x}]
  BY <1>1, SumOfPart, S \ {x} \in SUBSET S
<1>5. SumOver(f, S) = g[S]
  BY <1>1 DEF AddsUp
<1>6. QED
  BY <1>3, <1>4, <1>5

LEMMA SumEmpty ==
    ASSUME NEW f
    PROVE  SumOver(f, {}) = 0
  BY FS_EmptySet, SumNothing

LEMMA SumTyped ==
    ASSUME NEW S, IsFiniteSet(S), NEW f, \A x \in S : f[x] \in Int
    PROVE  SumOver(f, S) \in Int
<1> DEFINE W == {T \in SUBSET S : SumOver(f, T) \notin Int}
<1>1. ASSUME W # {} PROVE FALSE
  <2>0. W \subseteq SUBSET S
    OBVIOUS
  <2> HIDE DEF W
  <2>1. PICK T \in W : \A Y \in W : ~(Y \subseteq T /\ Y # T)
    BY <1>1, <2>0, SmallestSet
  <2>2. T \in SUBSET S /\ SumOver(f, T) \notin Int /\ IsFiniteSet(T)
    BY FS_Subset DEF W
  <2>3. PICK x \in T : TRUE
    BY <2>2, SumEmpty
  <2> DEFINE U == T \ {x}
  <2>4. U \subseteq T /\ U # T /\ U \in SUBSET S
    BY <2>2
  <2> HIDE DEF U
  <2>5. SumOver(f, U) \in Int
    BY <2>1, <2>4 DEF W
  <2>6. SumOver(f, T) = f[x] + SumOver(f, U)
    BY <2>2, SumInsert DEF U
  <2>7. QED
    BY <2>2, <2>5, <2>6
<1>2. QED
  BY <1>1

LEMMA SumNat ==
    ASSUME NEW S, IsFiniteSet(S), NEW f, \A x \in S : f[x] \in Nat
    PROVE  SumOver(f, S) \in Nat
<1> DEFINE W == {T \in SUBSET S : SumOver(f, T) \notin Nat}
<1>1. ASSUME W # {} PROVE FALSE
  <2>0. W \subseteq SUBSET S
    OBVIOUS
  <2> HIDE DEF W
  <2>1. PICK T \in W : \A Y \in W : ~(Y \subseteq T /\ Y # T)
    BY <1>1, <2>0, SmallestSet
  <2>2. T \in SUBSET S /\ SumOver(f, T) \notin Nat /\ IsFiniteSet(T)
    BY FS_Subset DEF W
  <2>3. PICK x \in T : TRUE
    BY <2>2, SumEmpty
  <2> DEFINE U == T \ {x}
  <2>4. U \subseteq T /\ U # T /\ U \in SUBSET S
    BY <2>2
  <2> HIDE DEF U
  <2>5. SumOver(f, U) \in Nat
    BY <2>1, <2>4 DEF W
  <2>6. SumOver(f, T) = f[x] + SumOver(f, U)
    BY <2>2, SumInsert DEF U
  <2>7. QED
    BY <2>2, <2>5, <2>6
<1>2. QED
  BY <1>1

\* Only the numbers summed matter.
LEMMA SumAgrees ==
    ASSUME NEW S, IsFiniteSet(S), NEW f, NEW h, \A x \in S : f[x] \in Int /\ h[x] = f[x]
    PROVE  SumOver(h, S) = SumOver(f, S)
<1> DEFINE W == {T \in SUBSET S : SumOver(h, T) # SumOver(f, T)}
<1>1. ASSUME W # {} PROVE FALSE
  <2>0. W \subseteq SUBSET S
    OBVIOUS
  <2> HIDE DEF W
  <2>1. PICK T \in W : \A Y \in W : ~(Y \subseteq T /\ Y # T)
    BY <1>1, <2>0, SmallestSet
  <2>2. T \in SUBSET S /\ SumOver(h, T) # SumOver(f, T) /\ IsFiniteSet(T)
    BY FS_Subset DEF W
  <2>3. PICK x \in T : TRUE
    BY <2>2, SumEmpty
  <2> DEFINE U == T \ {x}
  <2>4. U \subseteq T /\ U # T /\ U \in SUBSET S
    BY <2>2
  <2> HIDE DEF U
  <2>5. SumOver(h, U) = SumOver(f, U)
    BY <2>1, <2>4 DEF W
  <2>6. /\ SumOver(f, T) = f[x] + SumOver(f, U)
        /\ SumOver(h, T) = h[x] + SumOver(h, U)
    <3>1. \A y \in T : f[y] \in Int /\ h[y] \in Int
      BY <2>2
    <3>2. QED
      BY <2>2, <3>1, SumInsert DEF U
  <2>7. QED
    BY <2>2, <2>5, <2>6
<1>2. QED
  BY <1>1

\* The same numbers under other names.
LEMMA SumRenamed ==
    ASSUME NEW S, IsFiniteSet(S), NEW name, \A x, y \in S : name[x] = name[y] => x = y,
           NEW f, NEW h, \A x \in S : f[name[x]] \in Int /\ h[x] = f[name[x]]
    PROVE  /\ IsFiniteSet({name[x] : x \in S})
           /\ SumOver(f, {name[x] : x \in S}) = SumOver(h, S)
<1> DEFINE Im(T) == {name[x] : x \in T}
           W == {T \in SUBSET S : ~IsFiniteSet(Im(T)) \/ SumOver(f, Im(T)) # SumOver(h, T)}
<1>1. ASSUME W # {} PROVE FALSE
  <2>0. W \subseteq SUBSET S
    OBVIOUS
  <2> HIDE DEF W
  <2>1. PICK T \in W : \A Y \in W : ~(Y \subseteq T /\ Y # T)
    BY <1>1, <2>0, SmallestSet
  <2>2. T \in SUBSET S /\ IsFiniteSet(T)
    BY FS_Subset DEF W
  <2>3. T # {}
    <3>1. Im({}) = {}
      OBVIOUS
    <3> HIDE DEF Im
    <3>2. IsFiniteSet(Im({})) /\ SumOver(f, Im({})) = SumOver(h, {})
      BY <3>1, SumEmpty, FS_EmptySet
    <3>3. QED
      BY <3>2 DEF W
  <2>4. PICK x \in T : TRUE
    BY <2>3
  <2> DEFINE U == T \ {x}
  <2>5. U \subseteq T /\ U # T /\ U \in SUBSET S
    BY <2>2
  <2>6. Im(U) = Im(T) \ {name[x]} /\ Im(T) = Im(U) \cup {name[x]} /\ name[x] \in Im(T)
    BY <2>2
  <2>7. \A y \in Im(T) : f[y] \in Int
    BY <2>2
  <2>8. \A y \in T : h[y] \in Int
    BY <2>2
  <2> HIDE DEF U, Im
  <2>9. IsFiniteSet(Im(U)) /\ SumOver(f, Im(U)) = SumOver(h, U)
    BY <2>1, <2>5 DEF W
  <2>10. IsFiniteSet(Im(T))
    BY <2>6, <2>9, FS_AddElement
  <2>11. SumOver(f, Im(T)) = f[name[x]] + SumOver(f, Im(U))
    BY <2>6, <2>7, <2>10, SumInsert
  <2>12. SumOver(h, T) = h[x] + SumOver(h, U)
    BY <2>2, <2>8, SumInsert DEF U
  <2>13. f[name[x]] = h[x]
    BY <2>2
  <2>14. QED
    BY <2>9, <2>10, <2>11, <2>12, <2>13 DEF W
<1>2. S \notin W
  BY <1>1
<1>3. QED
  BY <1>2

\* The sum over two sets that have nothing in common.
LEMMA SumSplit ==
    ASSUME NEW S, IsFiniteSet(S), NEW f, \A x \in S : f[x] \in Int, NEW T \in SUBSET S
    PROVE  SumOver(f, S) = SumOver(f, T) + SumOver(f, S \ T)
<1> DEFINE R == S \ T
           W == {U \in SUBSET R : SumOver(f, T \cup U) # SumOver(f, T) + SumOver(f, U)}
<1>0. IsFiniteSet(T) /\ IsFiniteSet(R) /\ SumOver(f, T) \in Int
  BY FS_Subset, SumTyped
<1>1. ASSUME W # {} PROVE FALSE
  <2>0. W \subseteq SUBSET R
    OBVIOUS
  <2> HIDE DEF W
  <2>1. PICK U \in W : \A Y \in W : ~(Y \subseteq U /\ Y # U)
    BY <1>0, <1>1, <2>0, SmallestSet
  <2>2. U \in SUBSET R /\ IsFiniteSet(U) /\ IsFiniteSet(T \cup U)
    BY FS_Subset DEF W
  <2>3. U # {}
    <3>1. SumOver(f, T \cup {}) = SumOver(f, T) + SumOver(f, {})
      BY <1>0, SumEmpty
    <3>2. QED
      BY <3>1 DEF W
  <2>4. PICK x \in U : TRUE
    BY <2>3
  <2> DEFINE V == U \ {x}
  <2>5. V \subseteq U /\ V # U /\ V \in SUBSET R
    BY <2>2
  <2>6. (T \cup U) \ {x} = T \cup V /\ x \in T \cup U
    BY <2>2
  <2>7. /\ \A y \in T \cup U : f[y] \in Int
        /\ \A y \in U : f[y] \in Int
        /\ \A y \in V : f[y] \in Int
    BY <2>2
  <2>8. IsFiniteSet(V)
    BY <2>2, FS_Subset
  <2> HIDE DEF V
  <2>9. SumOver(f, T \cup V) = SumOver(f, T) + SumOver(f, V)
    BY <2>1, <2>5 DEF W
  <2>10. SumOver(f, T \cup U) = f[x] + SumOver(f, T \cup V)
    BY <2>2, <2>6, <2>7, SumInsert
  <2>11. SumOver(f, U) = f[x] + SumOver(f, V)
    BY <2>2, <2>7, SumInsert DEF V
  <2>12. SumOver(f, V) \in Int /\ f[x] \in Int
    BY <2>7, <2>8, SumTyped
  <2>13. SumOver(f, T \cup U) = SumOver(f, T) + SumOver(f, U)
    BY <1>0, <2>9, <2>10, <2>11, <2>12
  <2>14. QED
    BY <2>13 DEF W
<1>2. R \notin W
  BY <1>1
<1>3. T \cup R = S
  OBVIOUS
<1>4. QED
  BY <1>2, <1>3

\* The sum of the numbers of a sequence that is lengthened, joined or shortened.
LEMMA SumAppended ==
    ASSUME NEW n \in Nat, NEW f, NEW h, \A i \in 1 .. n : f[i] \in Int /\ h[i] = f[i],
           h[n + 1] \in Int
    PROVE  SumOver(h, 1 .. n + 1) = SumOver(f, 1 .. n) + h[n + 1]
<1>1. (1 .. n + 1) \ {n + 1} = 1 .. n /\ n + 1 \in 1 .. n + 1
  OBVIOUS
<1>2. IsFiniteSet(1 .. n) /\ IsFiniteSet(1 .. n + 1)
  BY FS_Interval
<1>3. \A i \in 1 .. n + 1 : h[i] \in Int
  <2>1. \A i \in 1 .. n + 1 : i \in 1 .. n \/ i = n + 1
    OBVIOUS
  <2>2. QED
    BY <2>1
<1>4. SumOver(h, 1 .. n + 1) = h[n + 1] + SumOver(h, 1 .. n)
  BY <1>1, <1>2, <1>3, SumInsert
<1>5. SumOver(h, 1 .. n) = SumOver(f, 1 .. n)
  BY <1>2, SumAgrees
<1>6. SumOver(f, 1 .. n) \in Int
  BY <1>2, SumTyped
<1>7. QED
  BY <1>4, <1>5, <1>6

LEMMA SumJoined ==
    ASSUME NEW n \in Nat, NEW m \in Nat, NEW f, NEW g, NEW h,
           \A i \in 1 .. n : f[i] \in Int /\ h[i] = f[i],
           \A i \in 1 .. m : g[i] \in Int /\ h[n + i] = g[i]
    PROVE  SumOver(h, 1 .. n + m) = SumOver(f, 1 .. n) + SumOver(g, 1 .. m)
<1> DEFINE S == 1 .. n + m
           T == 1 .. n
           R == 1 .. m
           name == [i \in R |-> n + i]
<1>1. IsFiniteSet(S) /\ IsFiniteSet(T) /\ IsFiniteSet(R)
  BY FS_Interval
<1>2. T \in SUBSET S /\ S \ T = {name[i] : i \in R}
  <2>1. \A j \in S \ T : j - n \in R /\ j = name[j - n]
    OBVIOUS
  <2>2. \A i \in R : name[i] \in S \ T
    OBVIOUS
  <2>3. QED
    BY <2>1, <2>2
<1>3. \A i \in R : name[i] = n + i
  OBVIOUS
<1>4. \A i, j \in R : name[i] = name[j] => i = j
  OBVIOUS
<1>5. \A i \in S : h[i] \in Int
  <2>1. \A i \in S : i \in T \/ (i - n \in R /\ n + (i - n) = i)
    OBVIOUS
  <2>2. QED
    BY <2>1
<1>6. \A i \in R : h[name[i]] \in Int /\ g[i] = h[name[i]]
  BY <1>3
<1>7. \A i \in T : f[i] \in Int /\ h[i] = f[i]
  OBVIOUS
<1> HIDE DEF S, T, R, name
<1>8. SumOver(h, S) = SumOver(h, T) + SumOver(h, S \ T)
  BY <1>1, <1>2, <1>5, SumSplit
<1>9. SumOver(h, {name[i] : i \in R}) = SumOver(g, R)
  BY <1>1, <1>4, <1>6, SumRenamed
<1>10. SumOver(h, T) = SumOver(f, T)
  BY <1>1, <1>7, SumAgrees
<1>11. QED
  BY <1>2, <1>8, <1>9, <1>10 DEF S, T, R

LEMMA SumShortened ==
    ASSUME NEW n \in Nat, NEW k \in 1 .. n, NEW f, NEW h,
           \A i \in 1 .. n : f[i] \in Int,
           \A i \in 1 .. n - 1 : h[i] = IF i < k THEN f[i] ELSE f[i + 1]
    PROVE  SumOver(f, 1 .. n) = SumOver(h, 1 .. n - 1) + f[k]
<1> DEFINE S == 1 .. n
           R == 1 .. n - 1
           name == [i \in R |-> IF i < k THEN i ELSE i + 1]
<1>1. IsFiniteSet(S) /\ IsFiniteSet(R)
  BY FS_Interval
<1>2. k \in S /\ S \ {k} = {name[i] : i \in R}
  <2>1. \A j \in S : j < k => j \in R /\ j = name[j]
    OBVIOUS
  <2>2. \A j \in S : j > k => j - 1 \in R /\ j = name[j - 1]
    OBVIOUS
  <2>3. \A i \in R : name[i] \in S /\ name[i] # k
    OBVIOUS
  <2>4. \A j \in S : j = k \/ j < k \/ j > k
    OBVIOUS
  <2> HIDE DEF name, R, S
  <2>5. S \ {k} \subseteq {name[i] : i \in R}
    BY <2>1, <2>2, <2>4
  <2>6. {name[i] : i \in R} \subseteq S \ {k}
    BY <2>3
  <2>7. QED
    BY <2>5, <2>6 DEF S
<1>3. \A i \in R : name[i] \in S /\ h[i] = f[name[i]]
  OBVIOUS
<1>4. \A i, j \in R : name[i] = name[j] => i = j
  OBVIOUS
<1>5. \A i \in S : f[i] \in Int
  OBVIOUS
<1>6. \A i \in R : f[name[i]] \in Int /\ h[i] = f[name[i]]
  BY <1>3, <1>5
<1> HIDE DEF S, R, name
<1>7. SumOver(f, S) = f[k] + SumOver(f, S \ {k})
  BY <1>1, <1>2, <1>5, SumInsert
<1>8. SumOver(f, S \ {k}) = SumOver(h, R)
  <2>1. SumOver(f, {name[i] : i \in R}) = SumOver(h, R)
    BY <1>1, <1>4, <1>6, SumRenamed
  <2>2. QED
    BY <1>2, <2>1
<1>9. SumOver(h, R) \in Int /\ f[k] \in Int
  <2>1. \A i \in R : h[i] \in Int
    BY <1>3, <1>5
  <2>2. QED
    BY <1>1, <1>2, <1>5, <2>1, SumTyped
<1>10. SumOver(f, S) = SumOver(h, R) + f[k]
  BY <1>7, <1>8, <1>9
<1>11. QED
  BY <1>10 DEF S, R

LEMMA RemoveFirstSeq ==
    ASSUME NEW q, IsSeq(q), NEW e
    PROVE  /\ e \notin Elems(q) => RemoveFirst(q, e) = q
           /\ e \in Elems(q) => \E i \in DOMAIN q : q[i] = e /\ RemoveFirst(q, e) = RemoveAt(q, i)
<1>1. Len(q) \in Nat /\ DOMAIN q = 1 .. Len(q)
  BY SeqDomain
<1> DEFINE I == {i \in 1 .. Len(q) : q[i] = e}
           k == CHOOSE x \in I : \A y \in I : x <= y
<1>2. RemoveFirst(q, e) = IF I # {} THEN RemoveAt(q, k) ELSE q
  BY DEF RemoveFirst, SelectInSeq, Min
<1>3. I # {} => k \in I
  <2>1. I \subseteq Nat
    BY <1>1
  <2> HIDE DEF I
  <2>2. QED
    BY <2>1, SmallestNat
<1>4. QED
  BY <1>1, <1>2, <1>3 DEF Elems

LEMMA RemoveFirstTyped ==
    ASSUME NEW S, NEW q \in Seq(S), NEW e
    PROVE  RemoveFirst(q, e) \in Seq(S)
<1>1. IsSeq(q)
  BY DEF IsSeq
<1>2. \/ RemoveFirst(q, e) = q
      \/ \E i \in DOMAIN q : RemoveFirst(q, e) = RemoveAt(q, i)
  BY <1>1, RemoveFirstSeq
<1>3. QED
  BY <1>2, RemoveTyped
=============================================================================
