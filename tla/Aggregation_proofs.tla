------------------------- MODULE Aggregation_proofs -------------------------
(***************************************************************************)
(* For every history, however long, every page size, interval length and   *)
(* direction of time: each sample is counted once, intervals are told in   *)
(* order, Process breaks down in three ways only, and pages do not show.   *)
(*                                                                         *)
(* What Aggregate and Counted compute is had without induction theorems,   *)
(* which take an operator: a set of naturals has a least element, so the   *)
(* first number at which something went wrong would exist.                 *)
(***************************************************************************)
EXTENDS Aggregation, FiniteSetTheorems, SequenceTheorems, NaturalsInduction,
        WellFoundedInduction, TLAPS

-----------------------------------------------------------------------------
(* Induction and recursion over the numbers up to N.                       *)

\* Every set of natural numbers but the empty one has a least element.
LEMMA LeastElement ==
  ASSUME NEW S \in SUBSET Nat, S # {}
  PROVE  \E m \in S : \A y \in S : m <= y
<1> DEFINE R == OpToRel(<, Nat)
<1>1. IsWellFoundedOn(R, Nat)
  BY NatLessThanWellFounded
<1>2. \A y \in Nat, m \in Nat : <<y, m>> \in R <=> y < m
  BY DEF OpToRel
<1> HIDE DEF R
<1>3. PICK m \in S : \A y \in S : ~(<<y, m>> \in R)
  BY <1>1, WFMin
<1>4. \A y \in S : m \in Nat /\ y \in Nat
  BY <1>3
<1>5. ASSUME NEW y \in S PROVE m <= y
  <2>1. ~(<<y, m>> \in R)
    BY <1>3
  <2>2. m \in Nat /\ y \in Nat
    BY <1>4
  <2>3. ~(y < m)
    BY <1>2, <2>1, <2>2
  <2>4. QED
    BY <2>2, <2>3
<1>6. QED
  BY <1>3, <1>5

\* A set that has 0 and with each number the next has them all.
LEMMA UpTo ==
  ASSUME NEW N \in Nat, NEW P,
         0 \in P, \A n \in 1..N : n - 1 \in P => n \in P
  PROVE  0..N \subseteq P
<1> DEFINE Missing == {n \in 0..N : n \notin P}
<1>1. SUFFICES ASSUME Missing # {} PROVE FALSE
  OBVIOUS
<1>2. Missing \in SUBSET Nat
  OBVIOUS
<1>3. PICK m \in Missing : \A y \in Missing : m <= y
  BY <1>1, <1>2, LeastElement
<1>4. m \in 1..N /\ m - 1 \in 0..N
  BY <1>3
<1>5. m - 1 \in P
  BY <1>3, <1>4
<1>6. QED
  BY <1>3, <1>4, <1>5

\* f goes from base as step says, up to k.
Goes(f, base, step, k) == f[0] = base /\ \A n \in 1..k : f[n] = step[<<f[n - 1], n>>]

\* A function that says how each value follows from the one before defines all.
LEMMA StepByStep ==
  ASSUME NEW S, NEW base \in S, NEW N \in Nat, NEW step \in [S \X (1..N) -> S]
  PROVE  \E f \in [0..N -> S] : Goes(f, base, step, N)
<1> DEFINE P == {k \in 0..N : \E f \in [0..k -> S] : Goes(f, base, step, k)}
<1>1. 0 \in P
  <2> DEFINE g == [i \in 0..0 |-> base]
  <2>1. g \in [0..0 -> S] /\ Goes(g, base, step, 0)
    BY DEF Goes
  <2> HIDE DEF g
  <2>2. QED
    BY <2>1
<1>2. ASSUME NEW k \in 1..N, k - 1 \in P PROVE k \in P
  <2>1. PICK f \in [0..(k - 1) -> S] : Goes(f, base, step, k - 1)
    BY <1>2
  <2> DEFINE g == [i \in 0..k |-> IF i = k THEN step[<<f[k - 1], k>>] ELSE f[i]]
  <2>2. f[k - 1] \in S /\ step[<<f[k - 1], k>>] \in S
    BY <1>2, <2>1
  <2>3. g \in [0..k -> S]
    BY <2>1, <2>2
  <2>4. g[0] = base /\ g[k] = step[<<f[k - 1], k>>] /\ \A i \in 0..(k - 1) : g[i] = f[i]
    BY <2>1 DEF Goes
  <2> HIDE DEF g
  <2>5. ASSUME NEW n \in 1..k PROVE g[n] = step[<<g[n - 1], n>>]
    <3>1. CASE n = k
      <4>1. g[k - 1] = f[k - 1]
        BY <2>4
      <4>2. QED
        BY <2>4, <3>1, <4>1
    <3>2. CASE n # k
      <4>1. n \in 1..(k - 1)
        BY <2>5, <3>2
      <4>2. n - 1 \in 0..(k - 1) /\ n \in 0..(k - 1)
        BY <4>1
      <4>3. g[n] = f[n] /\ g[n - 1] = f[n - 1]
        BY <2>4, <4>2
      <4>4. f[n] = step[<<f[n - 1], n>>]
        BY <2>1, <4>1 DEF Goes
      <4>5. QED
        BY <4>3, <4>4
    <3>3. QED
      BY <3>1, <3>2
  <2>6. Goes(g, base, step, k)
    BY <2>4, <2>5 DEF Goes
  <2>7. QED
    BY <2>3, <2>6
<1>3. 0..N \subseteq P
  <2> HIDE DEF P
  <2>1. QED
    BY <1>1, <1>2, UpTo
<1>4. N \in P
  BY <1>3
<1>5. QED
  BY <1>4

-----------------------------------------------------------------------------
(* What the aggregators compute.                                           *)

Sample == [time : Times, value : Values]

Aggregator ==
    [count : Nat, total : Int, low : Int, high : Int, front : Int, back : Int]

LEMMA SamplesAreNumbers ==
  \A x \in Sample : x.time \in Nat /\ x.value \in Int /\ x.value \in Values
BY AggregationAssumption DEF Sample

LEMMA GreatestIsGreatest == Greatest \in Int /\ \A v \in Values : v < Greatest
<1> DEFINE m == CHOOSE v \in Values : \A w \in Values : v >= w
<1>1. m \in Values /\ \A w \in Values : m >= w
  BY AggregationAssumption
<1>2. Greatest = 1 + m
  BY DEF Greatest
<1> HIDE DEF m
<1>3. QED
  BY <1>1, <1>2, AggregationAssumption

LEMMA MakeAggregatorType == MakeAggregator \in Aggregator
BY GreatestIsGreatest DEF MakeAggregator, Aggregator, LeastPositive

LEMMA AddType ==
  ASSUME NEW a \in Aggregator, NEW x \in Sample
  PROVE  Add(a, x) \in Aggregator
BY SamplesAreNumbers DEF Add, Aggregator, Lesser, Larger

\* The aggregators of a after n samples of the span.
Captures(f, a, span) ==
    /\ f[0] = a
    /\ \A n \in 1..Len(span) : f[n] = Add(f[n - 1], span[n])

\* Aggregate captures the samples of the span one after the other.
LEMMA AggregateCaptures ==
  ASSUME NEW a \in Aggregator, NEW span \in Seq(Sample)
  PROVE  \E f \in [0..Len(span) -> Aggregator] :
            Captures(f, a, span) /\ Aggregate(a, span) = f[Len(span)]
<1> DEFINE N == Len(span)
           step == [p \in Aggregator \X (1..N) |-> Add(p[1], span[p[2]])]
           Def(g) == [n \in 0..N |-> IF n = 0 THEN a ELSE Add(g[n - 1], span[n])]
           after == CHOOSE g : g = Def(g)
<1>1. N \in Nat /\ \A n \in 1..N : span[n] \in Sample
  OBVIOUS
<1>2. step \in [Aggregator \X (1..N) -> Aggregator]
  <2>1. ASSUME NEW p \in Aggregator \X (1..N) PROVE Add(p[1], span[p[2]]) \in Aggregator
    BY <1>1, AddType
  <2>2. QED
    BY <2>1
<1>3. \A b \in Aggregator, n \in 1..N : step[<<b, n>>] = Add(b, span[n])
  OBVIOUS
<1>4. Aggregate(a, span) = after[N]
  BY DEF Aggregate
<1> HIDE DEF step
<1>5. PICK f \in [0..N -> Aggregator] : Goes(f, a, step, N)
  BY <1>1, <1>2, StepByStep
<1>6. f = Def(f)
  <2>1. ASSUME NEW n \in 0..N
        PROVE  f[n] = IF n = 0 THEN a ELSE Add(f[n - 1], span[n])
    <3>1. CASE n = 0
      BY <1>5, <3>1 DEF Goes
    <3>2. CASE n # 0
      <4>1. n \in 1..N /\ n - 1 \in 0..N
        BY <1>1, <3>2
      <4>2. f[n] = step[<<f[n - 1], n>>]
        BY <1>5, <4>1 DEF Goes
      <4>3. step[<<f[n - 1], n>>] = Add(f[n - 1], span[n])
        BY <1>3, <1>5, <4>1
      <4>4. QED
        BY <3>2, <4>2, <4>3
    <3>3. QED
      BY <3>1, <3>2
  <2>2. QED
    BY <2>1
<1>7. after = Def(after)
  BY <1>6
<1> HIDE DEF after
<1>8. after[0] = a /\ \A n \in 1..N : after[n] = Add(after[n - 1], span[n])
  BY <1>1, <1>7
<1>9. after \in [0..N -> Aggregator]
  <2> DEFINE P == {n \in 0..N : after[n] \in Aggregator}
  <2>1. 0 \in P
    BY <1>1, <1>8
  <2>2. ASSUME NEW n \in 1..N, n - 1 \in P PROVE n \in P
    BY <1>1, <1>8, <2>2, AddType
  <2>3. 0..N \subseteq P
    <3> HIDE DEF P
    <3>1. QED
      BY <1>1, <2>1, <2>2, UpTo
  <2>4. \A n \in 0..N : after[n] \in Aggregator
    BY <2>3
  <2>5. QED
    BY <1>7, <2>4
<1>10. Captures(after, a, span)
  BY <1>8 DEF Captures
<1>11. QED
  BY <1>4, <1>9, <1>10

\* Each sample counts.
LEMMA AggregateCounts ==
  ASSUME NEW a \in Aggregator, NEW span \in Seq(Sample)
  PROVE  /\ Aggregate(a, span) \in Aggregator
         /\ Aggregate(a, span).count = a.count + Len(span)
<1> DEFINE N == Len(span)
<1>1. PICK f \in [0..N -> Aggregator] : Captures(f, a, span) /\ Aggregate(a, span) = f[N]
  BY AggregateCaptures
<1> DEFINE P == {n \in 0..N : f[n].count = a.count + n}
<1>2. N \in Nat /\ a.count \in Nat
  BY DEF Aggregator
<1>3. 0 \in P
  BY <1>1, <1>2 DEF Captures
<1>4. ASSUME NEW n \in 1..N, n - 1 \in P PROVE n \in P
  <2>1. f[n] = Add(f[n - 1], span[n])
    BY <1>1 DEF Captures
  <2>2. f[n].count = f[n - 1].count + 1
    BY <2>1 DEF Add
  <2>3. QED
    BY <1>2, <1>4, <2>2
<1>5. 0..N \subseteq P
  <2> HIDE DEF P
  <2>1. QED
    BY <1>2, <1>3, <1>4, UpTo
<1>6. QED
  BY <1>1, <1>2, <1>5

-----------------------------------------------------------------------------
(* What Counted computes.                                                  *)

Value ==
    [interval : Int \X Int, count : Nat, total : Int, low : Int, high : Int,
     start : Int, end : Int]

LEMMA ResultType ==
  ASSUME NEW a \in Aggregator, NEW interval \in Int \X Int
  PROVE  /\ ResultOf(a, interval) \in Value
         /\ ResultOf(a, interval).interval = interval
         /\ ResultOf(a, interval).count = a.count
BY DEF ResultOf, Aggregator, Value

\* The sums of the counts of the first values.
SumsUp(f, told) ==
    /\ f[0] = 0
    /\ \A n \in 1..Len(told) : f[n] = f[n - 1] + told[n].count

LEMMA CountedSumsUp ==
  ASSUME NEW told \in Seq(Value)
  PROVE  \E f \in [0..Len(told) -> Nat] : SumsUp(f, told) /\ Counted(told) = f[Len(told)]
<1> DEFINE N == Len(told)
           step == [p \in Nat \X (1..N) |-> p[1] + told[p[2]].count]
           Def(g) == [n \in 0..N |-> IF n = 0 THEN 0 ELSE g[n - 1] + told[n].count]
           upto == CHOOSE g : g = Def(g)
<1>1. N \in Nat /\ \A n \in 1..N : told[n].count \in Nat
  <2>1. N \in Nat /\ \A n \in 1..N : told[n] \in Value
    OBVIOUS
  <2>2. \A v \in Value : v.count \in Nat
    BY DEF Value
  <2>3. QED
    BY <2>1, <2>2
<1>2. step \in [Nat \X (1..N) -> Nat]
  BY <1>1
<1>3. \A b \in Nat, n \in 1..N : step[<<b, n>>] = b + told[n].count
  OBVIOUS
<1>4. Counted(told) = upto[N]
  BY DEF Counted
<1> HIDE DEF step
<1>5. PICK f \in [0..N -> Nat] : Goes(f, 0, step, N)
  BY <1>1, <1>2, StepByStep
<1>6. f = Def(f)
  <2>1. ASSUME NEW n \in 0..N
        PROVE  f[n] = IF n = 0 THEN 0 ELSE f[n - 1] + told[n].count
    <3>1. CASE n = 0
      BY <1>5, <3>1 DEF Goes
    <3>2. CASE n # 0
      <4>1. n \in 1..N /\ n - 1 \in 0..N
        BY <1>1, <3>2
      <4>2. f[n] = step[<<f[n - 1], n>>]
        BY <1>5, <4>1 DEF Goes
      <4>3. step[<<f[n - 1], n>>] = f[n - 1] + told[n].count
        BY <1>3, <1>5, <4>1
      <4>4. QED
        BY <3>2, <4>2, <4>3
    <3>3. QED
      BY <3>1, <3>2
  <2>2. QED
    BY <2>1
<1>7. upto = Def(upto)
  BY <1>6
<1> HIDE DEF upto
<1>8. upto[0] = 0 /\ \A n \in 1..N : upto[n] = upto[n - 1] + told[n].count
  BY <1>1, <1>7
<1>9. upto \in [0..N -> Nat]
  <2> DEFINE P == {n \in 0..N : upto[n] \in Nat}
  <2>1. 0 \in P
    BY <1>1, <1>8
  <2>2. ASSUME NEW n \in 1..N, n - 1 \in P PROVE n \in P
    <3>1. upto[n] = upto[n - 1] + told[n].count
      BY <1>8
    <3>2. told[n].count \in Nat /\ upto[n - 1] \in Nat
      BY <1>1, <2>2
    <3>3. n \in 0..N
      BY <1>1
    <3>4. QED
      BY ONLY <3>1, <3>2, <3>3
  <2>3. 0..N \subseteq P
    <3> HIDE DEF P
    <3>1. QED
      BY <1>1, <2>1, <2>2, UpTo
  <2>4. \A n \in 0..N : upto[n] \in Nat
    BY <2>3
  <2>5. QED
    BY <1>7, <2>4
<1>10. SumsUp(upto, told)
  BY <1>8 DEF SumsUp
<1>11. QED
  BY <1>4, <1>9, <1>10

LEMMA CountedOfNone == Counted(<<>>) = 0
<1>1. <<>> \in Seq(Value) /\ Len(<<>>) = 0
  OBVIOUS
<1>2. PICK f \in [0..0 -> Nat] : SumsUp(f, <<>>) /\ Counted(<<>>) = f[0]
  BY <1>1, CountedSumsUp
<1>3. QED
  BY <1>2 DEF SumsUp

\* One more value adds its count.
LEMMA CountedOneMore ==
  ASSUME NEW told \in Seq(Value), NEW v \in Value
  PROVE  Counted(Append(told, v)) = Counted(told) + v.count
<1> DEFINE N == Len(told)
           more == Append(told, v)
<1>1. N \in Nat /\ more \in Seq(Value) /\ Len(more) = N + 1
      /\ more[N + 1] = v /\ \A n \in 1..N : more[n] = told[n]
  OBVIOUS
<1>2. PICK f \in [0..N -> Nat] : SumsUp(f, told) /\ Counted(told) = f[N]
  BY CountedSumsUp
<1> HIDE DEF more
<1>3. PICK g \in [0..(N + 1) -> Nat] : SumsUp(g, more) /\ Counted(more) = g[N + 1]
  BY <1>1, CountedSumsUp
<1> DEFINE P == {n \in 0..N : f[n] = g[n]}
<1>4. 0 \in P
  BY <1>1, <1>2, <1>3 DEF SumsUp
<1>5. ASSUME NEW n \in 1..N, n - 1 \in P PROVE n \in P
  <2>1. f[n] = f[n - 1] + told[n].count
    BY <1>2 DEF SumsUp
  <2>2. g[n] = g[n - 1] + more[n].count
    BY <1>1, <1>3 DEF SumsUp
  <2>3. QED
    BY <1>1, <1>5, <2>1, <2>2
<1>6. 0..N \subseteq P
  <2> HIDE DEF P
  <2>1. QED
    BY <1>1, <1>4, <1>5, UpTo
<1>7. g[N] = f[N]
  BY <1>1, <1>6
<1>8. g[N + 1] = g[N] + v.count
  <2>1. N + 1 \in 1..Len(more) /\ (N + 1) - 1 = N
    BY <1>1
  <2>2. QED
    BY <1>1, <1>3, <2>1 DEF SumsUp
<1>9. QED
  BY <1>2, <1>3, <1>7, <1>8 DEF more

-----------------------------------------------------------------------------
(* Intervals.                                                              *)

LEMMA Remainder ==
  ASSUME NEW a \in Nat, NEW s \in Nat, s > 0
  PROVE  /\ a % s \in 0..(s - 1)
         /\ \E q \in Nat : a = s * q + (a % s)
<1>1. a = s * (a \div s) + (a % s)
  OBVIOUS
<1>2. a \div s \in Nat /\ a % s \in 0..(s - 1)
  OBVIOUS
<1>3. QED
  BY <1>1, <1>2

LEMMA RoundingDownIsMonotone ==
  ASSUME NEW a \in Nat, NEW b \in Nat, NEW s \in Nat, s > 0, a <= b
  PROVE  a - (a % s) <= b - (b % s)
<1>1. PICK p \in Nat : a = s * p + (a % s)
  BY Remainder
<1>2. PICK q \in Nat : b = s * q + (b % s)
  BY Remainder
<1>3. a % s \in 0..(s - 1) /\ b % s \in 0..(s - 1)
  BY Remainder
<1>4. p <= q
  <2>1. SUFFICES ASSUME p > q PROVE FALSE
    OBVIOUS
  <2>2. PICK d \in Nat : p = q + 1 + d
    <3>1. p - q - 1 \in Nat /\ p = q + 1 + (p - q - 1)
      BY <2>1
    <3>2. QED
      BY <3>1
  <2>3. s * p = s * q + s + s * d
    BY <2>2
  <2>4. s * d \in Nat /\ s * q \in Nat
    OBVIOUS
  <2>5. QED
    BY <1>1, <1>2, <1>3, <2>3, <2>4
<1>5. PICK d \in Nat : q = p + d
  <2>1. q - p \in Nat /\ q = p + (q - p)
    BY <1>4
  <2>2. QED
    BY <2>1
<1>6. s * q = s * p + s * d /\ s * d \in Nat /\ s * p \in Nat
  BY <1>5
<1>7. QED
  BY <1>1, <1>2, <1>3, <1>6

LEMMA PeriodIsPositive ==
  ASSUME spacing \in Int, spacing # 0
  PROVE  /\ Period \in Nat /\ Period > 0
         /\ spacing > 0 => Period = spacing
         /\ spacing < 0 => Period = -spacing
BY DEF Period

\* An interval is where its time is, but for times before the start time, and ends
\* before it starts if spacing is negative.
LEMMA IntervalHolds ==
  ASSUME NEW t \in Nat, spacing \in Int
  PROVE  LET i == GetAggregateInterval(t) IN
         /\ i \in Int \X Int
         /\ spacing = 0 => i = <<t, t>>
         /\ spacing # 0 => /\ i[2] = i[1] + spacing
                           /\ t < i[1] + Period
                           /\ t >= Origin => i[1] <= t /\ i[1] >= Origin
                           /\ t < Origin => i[1] = Origin
<1> DEFINE i == GetAggregateInterval(t)
<1>1. Origin \in Nat
  BY AggregationAssumption
<1>2. CASE spacing = 0
  <2>1. i = <<t, t>>
    BY <1>2 DEF GetAggregateInterval
  <2>2. QED
    BY <1>2, <2>1
<1>3. CASE spacing # 0 /\ t < Origin
  <2>1. i = <<Origin, Origin + spacing>>
    BY <1>3 DEF GetAggregateInterval
  <2>2. Period \in Nat /\ Period > 0
    BY <1>3, PeriodIsPositive
  <2>3. QED
    BY <1>1, <1>3, <2>1, <2>2
<1>4. CASE spacing # 0 /\ t >= Origin
  <2> DEFINE r == (t - Origin) % Period
  <2>1. t - Origin \in Nat /\ Period \in Nat /\ Period > 0
    BY <1>1, <1>4, PeriodIsPositive
  <2>2. r \in 0..(Period - 1) /\ \E q \in Nat : t - Origin = Period * q + r
    BY <1>4, <2>1, Remainder
  <2>3. i = <<t - r, t - r + spacing>>
    BY <1>1, <1>4 DEF GetAggregateInterval
  <2> HIDE DEF r
  <2>4. PICK q \in Nat : t - Origin = Period * q + r
    BY <2>2
  <2>5. Period * q \in Nat
    BY <2>1
  <2>6. t - r >= Origin /\ t - r <= t /\ t < t - r + Period /\ t - r \in Int
    BY <1>1, <2>1, <2>2, <2>4, <2>5
  <2> HIDE DEF i
  <2>7. QED
    BY <1>1, <1>4, <2>3, <2>6 DEF i
<1>5. QED
  BY <1>1, <1>2, <1>3, <1>4

\* The later the time, the later its interval.
LEMMA IntervalsFollowTimes ==
  ASSUME NEW t \in Nat, NEW u \in Nat, spacing \in Int, t <= u
  PROVE  GetAggregateInterval(t)[1] <= GetAggregateInterval(u)[1]
<1>1. Origin \in Nat
  BY AggregationAssumption
<1>2. CASE spacing = 0
  BY <1>2 DEF GetAggregateInterval
<1>3. CASE spacing # 0 /\ t < Origin
  <2>1. GetAggregateInterval(t)[1] = Origin /\ GetAggregateInterval(u)[1] >= Origin
    <3>1. CASE u < Origin
      BY <1>1, <1>3, <3>1, IntervalHolds
    <3>2. CASE u >= Origin
      BY <1>1, <1>3, <3>2, IntervalHolds
    <3>3. QED
      BY <1>1, <3>1, <3>2
  <2>2. GetAggregateInterval(u)[1] \in Int
    BY IntervalHolds
  <2>3. QED
    BY <1>1, <2>1, <2>2
<1>4. CASE spacing # 0 /\ t >= Origin
  <2> DEFINE a == t - Origin
             b == u - Origin
  <2>1. a \in Nat /\ b \in Nat /\ a <= b /\ Period \in Nat /\ Period > 0
    BY <1>1, <1>4, PeriodIsPositive
  <2>2. a - (a % Period) <= b - (b % Period)
    BY <2>1, RoundingDownIsMonotone
  <2>3. a % Period \in Int /\ b % Period \in Int
    BY <2>1, Remainder
  <2>4. /\ GetAggregateInterval(t)[1] = t - (a % Period)
        /\ GetAggregateInterval(u)[1] = u - (b % Period)
    BY <1>1, <1>4 DEF GetAggregateInterval
  <2>5. QED
    BY <1>1, <2>2, <2>3, <2>4
<1>5. QED
  BY <1>1, <1>2, <1>3, <1>4

\* Intervals that begin together are one.
LEMMA StartTellsInterval ==
  ASSUME NEW t \in Nat, NEW u \in Nat, spacing \in Int,
         GetAggregateInterval(t)[1] = GetAggregateInterval(u)[1]
  PROVE  GetAggregateInterval(t) = GetAggregateInterval(u)
<1> DEFINE i == GetAggregateInterval(t)
           j == GetAggregateInterval(u)
<1>1. i \in Int \X Int /\ j \in Int \X Int
  BY IntervalHolds
<1>2. i[2] = j[2]
  <2>1. CASE spacing = 0
    <3>1. i = <<t, t>> /\ j = <<u, u>>
      BY <2>1, IntervalHolds
    <3>2. QED
      BY <3>1
  <2>2. CASE spacing # 0
    <3>1. i[2] = i[1] + spacing /\ j[2] = j[1] + spacing
      BY <2>2, IntervalHolds
    <3>2. QED
      BY <3>1
  <2>3. QED
    BY <2>1, <2>2
<1> HIDE DEF i, j
<1>3. i[1] = j[1]
  BY DEF i, j
<1>4. i = j
  BY <1>1, <1>2, <1>3
<1>5. QED
  BY <1>4 DEF i, j

-----------------------------------------------------------------------------
(* The inductive invariant.                                                *)

HistoryOK ==
    /\ forward \in BOOLEAN /\ known \in BOOLEAN /\ spacing \in Int
    /\ samples \in Seq(Sample) /\ Ordered(samples, forward)

\* How many samples Process has taken.
Taken == Len(samples) - Len(coming) - Len(raw_span)

\* What is left of the page and of the history is the end of the history.
PagesOK ==
    /\ raw_span \in Seq(Sample) /\ coming \in Seq(Sample)
    /\ Taken \in Nat
    /\ \A i \in 1..Len(raw_span) : raw_span[i] = samples[Taken + i]
    /\ \A i \in 1..Len(coming) : coming[i] = samples[Taken + Len(raw_span) + i]

IntervalAt(i) == GetAggregateInterval(samples[i].time)

Visited == {IntervalAt(i) : i \in 1..Taken}

\* The interval at hand is that of a sample taken; the value at hand is what its
\* aggregator has captured, if the aggregate is known.
AtHandOK ==
    \/ /\ aggregator_interval = NoInterval /\ Taken = 0
       /\ aggregated_value = NoValue /\ data_values = <<>>
    \/ /\ aggregator_interval \in Visited
       /\ known /\ aggregator \in Aggregator
       /\ aggregated_value = ResultOf(aggregator, aggregator_interval)
    \/ /\ aggregator_interval \in Visited
       /\ ~known /\ aggregated_value = NoValue /\ data_values = <<>>

Before(i, j) == IF forward THEN i[1] < j[1] ELSE i[1] > j[1]

InOrder(told) ==
    \A i, j \in 1..Len(told) : i < j => Before(told[i].interval, told[j].interval)

\* What is told comes before the interval at hand, until that is told too.
ToldOK ==
    /\ data_values \in Seq(Value)
    /\ InOrder(data_values)
    /\ outcome # "finished" =>
          \A i \in 1..Len(data_values) : Before(data_values[i].interval, aggregator_interval)
    /\ known => Counted(AllTold) = Taken

OutcomeOK ==
    /\ outcome \in {"reading", "finished", "check failed", "bad call"}
    /\ BreaksDownOnlyAsKnown

AggregateInv == HistoryOK /\ PagesOK /\ AtHandOK /\ ToldOK /\ OutcomeOK

-----------------------------------------------------------------------------
(* One turn of Process.                                                    *)

\* Only one that reads backward, or by intervals that end before they start, comes to a
\* sample that no interval holds.
LEMMA CountOfSpan ==
  ASSUME NEW span \in Seq(Sample), span # <<>>, spacing \in Int, forward \in BOOLEAN
  PROVE  LET count == InInterval(span, GetAggregateInterval(span[1].time)) IN
         /\ count \in 0..Len(span)
         /\ count = 0 => \/ ~forward /\ spacing # 0 /\ span[1].time < Origin
                         \/ forward /\ spacing < 0 /\ span[1].time > Origin + spacing
<1> DEFINE t == span[1].time
           i == GetAggregateInterval(t)
           N == Len(span)
           D == IF forward THEN {k \in 1..N : span[k].time <= i[2]}
                           ELSE {k \in 1..N : span[k].time >= i[1]}
<1>1. N \in Nat /\ 1 \in 1..N /\ span[1] \in Sample /\ t \in Nat
  BY SamplesAreNumbers
<1>2. InInterval(span, i) = Cardinality(D)
  BY DEF InInterval, UpperBound, ReverseUpperBound
<1>3. D \subseteq 1..N
  OBVIOUS
<1>4. \/ 1 \in D
      \/ ~forward /\ spacing # 0 /\ t < Origin
      \/ forward /\ spacing < 0 /\ t > Origin + spacing
  <2>1. /\ i \in Int \X Int
        /\ spacing = 0 => i = <<t, t>>
        /\ spacing # 0 => /\ i[2] = i[1] + spacing
                          /\ t < i[1] + Period
                          /\ t >= Origin => i[1] <= t /\ i[1] >= Origin
                          /\ t < Origin => i[1] = Origin
    BY <1>1, IntervalHolds
  <2>2. Origin \in Nat
    BY AggregationAssumption
  <2> HIDE DEF i, t
  <2>3. CASE spacing = 0
    <3>1. t <= i[2] /\ t >= i[1]
      BY <1>1, <2>1, <2>3
    <3>2. QED
      BY <1>1, <3>1 DEF t
  <2>4. CASE spacing # 0 /\ forward
    <3>1. t <= i[2] \/ (spacing < 0 /\ t > Origin + spacing)
      <4>1. CASE spacing > 0
        BY <1>1, <2>1, <2>4, <4>1, PeriodIsPositive
      <4>2. CASE spacing < 0
        BY <1>1, <2>1, <2>2, <2>4, <4>2
      <4>3. QED
        BY <2>4, <4>1, <4>2
    <3>2. QED
      BY <1>1, <2>4, <3>1 DEF t
  <2>5. CASE spacing # 0 /\ ~forward
    <3>1. t >= i[1] \/ t < Origin
      BY <1>1, <2>1, <2>2, <2>5
    <3>2. QED
      BY <1>1, <2>5, <3>1 DEF t
  <2>6. QED
    BY <2>3, <2>4, <2>5
<1> HIDE DEF D, i, t
<1>5. IsFiniteSet(1..N) /\ Cardinality(1..N) = N
  BY <1>1, FS_Interval
<1>6. IsFiniteSet(D) /\ Cardinality(D) \in Nat /\ Cardinality(D) <= N
  BY <1>3, <1>5, FS_Subset, FS_CardinalityType
<1>7. Cardinality(D) = 0 => D = {}
  BY <1>6, FS_EmptySet
<1>8. QED
  BY <1>1, <1>2, <1>4, <1>6, <1>7 DEF i, t

\* The times of a history, and so the starts of its intervals, follow its order.
LEMMA IntervalsFollowSamples ==
  ASSUME HistoryOK, NEW i \in 1..Len(samples), NEW j \in 1..Len(samples), i < j
  PROVE  /\ IntervalAt(i) \in Int \X Int /\ IntervalAt(j) \in Int \X Int
         /\ IntervalAt(i) = IntervalAt(j) \/ Before(IntervalAt(i), IntervalAt(j))
<1>1. samples[i] \in Sample /\ samples[j] \in Sample /\ spacing \in Int
  BY DEF HistoryOK
<1> DEFINE t == samples[i].time
           u == samples[j].time
<1>2. t \in Nat /\ u \in Nat
  BY <1>1, SamplesAreNumbers
<1>3. IF forward THEN t < u ELSE t > u
  BY DEF HistoryOK, Ordered
<1>4. IntervalAt(i) = GetAggregateInterval(t) /\ IntervalAt(j) = GetAggregateInterval(u)
  BY DEF IntervalAt
<1> HIDE DEF t, u
<1>5. GetAggregateInterval(t) \in Int \X Int /\ GetAggregateInterval(u) \in Int \X Int
  BY <1>1, <1>2, IntervalHolds
<1>6. IF forward THEN GetAggregateInterval(t)[1] <= GetAggregateInterval(u)[1]
                 ELSE GetAggregateInterval(t)[1] >= GetAggregateInterval(u)[1]
  <2>1. t <= u => GetAggregateInterval(t)[1] <= GetAggregateInterval(u)[1]
    BY <1>1, <1>2, IntervalsFollowTimes
  <2>2. u <= t => GetAggregateInterval(u)[1] <= GetAggregateInterval(t)[1]
    BY <1>1, <1>2, IntervalsFollowTimes
  <2>3. GetAggregateInterval(t)[1] \in Int /\ GetAggregateInterval(u)[1] \in Int
    BY <1>5
  <2>4. QED
    BY <1>2, <1>3, <2>1, <2>2, <2>3
<1>7. GetAggregateInterval(t)[1] = GetAggregateInterval(u)[1]
        => GetAggregateInterval(t) = GetAggregateInterval(u)
  BY <1>1, <1>2, StartTellsInterval
<1>8. QED
  BY <1>4, <1>5, <1>6, <1>7 DEF Before

\* A turn takes some samples of the page.
LEMMA TurnTakes ==
  ASSUME HistoryOK, PagesOK, NEW count \in 1..Len(raw_span),
         raw_span' = SubSeq(raw_span, count + 1, Len(raw_span)), UNCHANGED <<input, coming>>
  PROVE  /\ HistoryOK' /\ PagesOK'
         /\ Taken' = Taken + count
         /\ Visited \subseteq Visited' /\ IntervalAt(Taken + 1) \in Visited'
<1> DEFINE k == Taken
           N == Len(raw_span)
<1>1. /\ raw_span \in Seq(Sample) /\ N \in Nat /\ count \in 1..N
      /\ samples \in Seq(Sample) /\ coming \in Seq(Sample)
      /\ Len(samples) \in Nat /\ Len(coming) \in Nat
  BY DEF PagesOK, HistoryOK
<1>2. UNCHANGED <<forward, spacing, known, samples, coming>>
  BY DEF input
<1>3. HistoryOK'
  BY <1>2 DEF HistoryOK, Ordered
<1>4. /\ raw_span' \in Seq(Sample) /\ Len(raw_span') = N - count
      /\ \A i \in 1..(N - count) : raw_span'[i] = raw_span[count + i]
  BY <1>1
<1>5. k \in Nat /\ k = Len(samples) - Len(coming) - N
  BY DEF PagesOK, Taken
<1>6. Taken' = k + count
  <2>1. Taken' = Len(samples) - Len(coming) - (N - count)
    BY <1>2, <1>4 DEF Taken
  <2> HIDE DEF N, k
  <2>2. QED
    BY ONLY <1>1, <1>5, <2>1
<1> HIDE DEF k
<1>7. PagesOK'
  <2>1. Taken' \in Nat
    BY <1>1, <1>5, <1>6
  <2>2. \A i \in 1..Len(raw_span') : raw_span'[i] = samples'[Taken' + i]
    <3>1. ASSUME NEW i \in 1..(N - count) PROVE raw_span[count + i] = samples[k + count + i]
      <4>1. count + i \in 1..N
        BY <1>1
      <4>2. raw_span[count + i] = samples[k + (count + i)]
        BY <4>1 DEF PagesOK, k
      <4>3. k + (count + i) = k + count + i
        BY <1>1, <1>5
      <4>4. QED
        BY <4>2, <4>3
    <3>2. QED
      BY <1>2, <1>4, <1>6, <3>1
  <2>3. \A i \in 1..Len(coming') : coming'[i] = samples'[Taken' + Len(raw_span') + i]
    <3>1. Taken' + Len(raw_span') = k + N
      <4> HIDE DEF N
      <4>1. QED
        BY ONLY <1>1, <1>4, <1>5, <1>6
    <3>2. \A i \in 1..Len(coming) : coming[i] = samples[k + N + i]
      BY DEF PagesOK, k
    <3>3. QED
      BY <1>2, <3>1, <3>2
  <2>4. QED
    BY <1>2, <1>1, <1>4, <2>1, <2>2, <2>3 DEF PagesOK
<1>8. \A i \in 1..Len(samples) : IntervalAt(i)' = IntervalAt(i)
  BY <1>2 DEF IntervalAt, GetAggregateInterval, Period
<1>9. Visited \subseteq Visited' /\ IntervalAt(k + 1) \in Visited'
  <2>1. 1..k \subseteq 1..(k + count) /\ k + 1 \in 1..(k + count)
    BY <1>1, <1>5
  <2>2. k + count <= Len(samples)
    BY <1>1, <1>5
  <2>3. Visited' = {IntervalAt(i) : i \in 1..(k + count)}
    <3>1. Visited' = {IntervalAt(i)' : i \in 1..(k + count)}
      BY <1>6 DEF Visited
    <3>2. \A i \in 1..(k + count) : IntervalAt(i)' = IntervalAt(i)
      BY <1>1, <1>5, <1>8, <2>2
    <3>3. QED
      BY <3>1, <3>2
  <2>4. Visited = {IntervalAt(i) : i \in 1..k}
    BY DEF Visited, k
  <2>5. QED
    BY <2>1, <2>3, <2>4
<1>10. QED
  BY <1>3, <1>6, <1>7, <1>9 DEF k

LEMMA IntervalIsNoInterval == \A i \in Int \X Int : i # NoInterval
<1>1. \A i \in Int \X Int : DOMAIN i = 1..2
  OBVIOUS
<1>2. DOMAIN NoInterval = {}
  BY DEF NoInterval
<1>3. 1 \in 1..2
  OBVIOUS
<1>4. QED
  BY <1>1, <1>2, <1>3

LEMMA ResultIsNoNoValue ==
  ASSUME NEW a \in Aggregator, NEW i \in Int \X Int
  PROVE  ResultOf(a, i) # NoValue
<1>1. ResultOf(a, i).interval = i
  BY ResultType
<1>2. NoValue.interval = NoInterval
  BY DEF NoValue
<1>3. QED
  BY <1>1, <1>2, IntervalIsNoInterval

\* The first sample of what is left is the next of the history.
LEMMA NextSample ==
  ASSUME HistoryOK, PagesOK, raw_span # <<>>
  PROVE  /\ raw_span[1] = samples[Taken + 1] /\ raw_span[1] \in Sample
         /\ Taken + 1 \in 1..Len(samples)
         /\ GetAggregateInterval(raw_span[1].time) = IntervalAt(Taken + 1)
         /\ IntervalAt(Taken + 1) \in Int \X Int
         /\ \A v \in Visited : /\ v \in Int \X Int
                               /\ v = IntervalAt(Taken + 1) \/ Before(v, IntervalAt(Taken + 1))
<1> DEFINE k == Taken
<1>1. /\ raw_span \in Seq(Sample) /\ Len(raw_span) \in Nat /\ Len(coming) \in Nat
      /\ Len(samples) \in Nat /\ k \in Nat /\ 1 \in 1..Len(raw_span)
      /\ raw_span[1] = samples[k + 1]
  BY DEF PagesOK, HistoryOK
<1>2. k = Len(samples) - Len(coming) - Len(raw_span)
  BY DEF Taken
<1> HIDE DEF k
<1>3. k + 1 \in 1..Len(samples) /\ \A i \in 1..k : i \in 1..Len(samples) /\ i < k + 1
  BY <1>1, <1>2
<1>4. raw_span[1] \in Sample /\ spacing \in Int
  BY <1>1 DEF HistoryOK
<1>5. raw_span[1].time \in Nat
  BY <1>4, SamplesAreNumbers
<1>6. GetAggregateInterval(raw_span[1].time) = IntervalAt(k + 1)
  BY <1>1 DEF IntervalAt
<1>7. IntervalAt(k + 1) \in Int \X Int
  BY <1>4, <1>5, <1>6, IntervalHolds
<1>8. ASSUME NEW i \in 1..k
      PROVE  /\ IntervalAt(i) \in Int \X Int
             /\ IntervalAt(i) = IntervalAt(k + 1) \/ Before(IntervalAt(i), IntervalAt(k + 1))
  BY <1>3, IntervalsFollowSamples
<1>9. Visited = {IntervalAt(i) : i \in 1..k}
  BY DEF Visited, k
<1>10. QED
  BY <1>1, <1>3, <1>4, <1>6, <1>7, <1>8, <1>9 DEF k

LEMMA VisitedAreIntervals ==
  ASSUME HistoryOK, PagesOK
  PROVE  \A v \in Visited : v \in Int \X Int
<1>1. ASSUME NEW i \in 1..Taken PROVE IntervalAt(i) \in Int \X Int
  <2>1. i \in 1..Len(samples)
    <3>1. /\ Len(samples) \in Nat /\ Len(coming) \in Nat /\ Len(raw_span) \in Nat
          /\ Taken = Len(samples) - Len(coming) - Len(raw_span) /\ Taken \in Nat
      BY DEF HistoryOK, PagesOK, Taken
    <3>2. QED
      BY <3>1
  <2>2. samples[i] \in Sample /\ spacing \in Int
    BY <2>1 DEF HistoryOK
  <2>3. samples[i].time \in Nat
    BY <2>2, SamplesAreNumbers
  <2>4. QED
    BY <2>2, <2>3, IntervalHolds DEF IntervalAt
<1>2. QED
  BY <1>1 DEF Visited

\* Telling the value at hand.
LEMMA ToldIsInOrder ==
  ASSUME AggregateInv, outcome # "finished"
  PROVE  /\ AllTold = Told
         /\ Told \in Seq(Value) /\ InOrder(Told)
         /\ \A i \in 1..Len(Told) : \/ Told[i].interval = aggregator_interval
                                    \/ Before(Told[i].interval, aggregator_interval)
         /\ aggregator_interval = NoInterval => Told = <<>>
         /\ ~known => Told = <<>>
         /\ known => Counted(Told) = Taken
<1> USE DEF AggregateInv
<1>1. AllTold = Told
  BY DEF AllTold, Told
<1>2. known => Counted(Told) = Taken
  BY <1>1 DEF ToldOK
<1>3. CASE aggregated_value = NoValue
  <2>1. Told = data_values
    BY <1>3 DEF Told
  <2>2. data_values = <<>>
    <3>1. CASE known /\ aggregator_interval \in Visited /\ aggregator \in Aggregator
               /\ aggregated_value = ResultOf(aggregator, aggregator_interval)
      BY <1>3, <3>1, VisitedAreIntervals, ResultIsNoNoValue
    <3>2. QED
      BY <3>1 DEF AtHandOK
  <2>3. Told \in Seq(Value) /\ Len(Told) = 0
    BY <2>1, <2>2 DEF ToldOK
  <2>4. QED
    BY <1>1, <1>2, <2>1, <2>2, <2>3 DEF InOrder
<1>4. CASE aggregated_value # NoValue
  <2>1. /\ known /\ aggregator_interval \in Visited /\ aggregator \in Aggregator
        /\ aggregated_value = ResultOf(aggregator, aggregator_interval)
    BY <1>4 DEF AtHandOK
  <2>2. aggregator_interval \in Int \X Int
    BY <2>1, VisitedAreIntervals
  <2>3. aggregated_value \in Value /\ aggregated_value.interval = aggregator_interval
    BY <2>1, <2>2, ResultType
  <2>4. Told = Append(data_values, aggregated_value)
    BY <1>4 DEF Told
  <2> DEFINE N == Len(data_values)
  <2>5. data_values \in Seq(Value) /\ N \in Nat
    BY DEF ToldOK
  <2>6. /\ Told \in Seq(Value) /\ Len(Told) = N + 1
        /\ Told[N + 1] = aggregated_value
        /\ \A i \in 1..N : Told[i] = data_values[i]
    BY <2>3, <2>4, <2>5
  <2>7. \A i \in 1..N : Before(data_values[i].interval, aggregator_interval)
    BY DEF ToldOK
  <2>8. InOrder(data_values)
    BY DEF ToldOK
  <2> HIDE DEF N
  <2>9. InOrder(Told)
    <3>1. ASSUME NEW i \in 1..(N + 1), NEW j \in 1..(N + 1), i < j
          PROVE  Before(Told[i].interval, Told[j].interval)
      <4>1. i \in 1..N
        BY <2>5, <3>1
      <4>2. CASE j \in 1..N
        BY <2>6, <2>8, <3>1, <4>1, <4>2 DEF InOrder, N
      <4>3. CASE j = N + 1
        BY <2>3, <2>6, <2>7, <4>1, <4>3
      <4>4. QED
        BY <2>5, <4>2, <4>3
    <3>2. QED
      BY <2>6, <3>1 DEF InOrder
  <2>10. \A i \in 1..(N + 1) : \/ Told[i].interval = aggregator_interval
                              \/ Before(Told[i].interval, aggregator_interval)
    <3>1. ASSUME NEW i \in 1..(N + 1)
          PROVE  \/ Told[i].interval = aggregator_interval
                 \/ Before(Told[i].interval, aggregator_interval)
      <4>1. CASE i \in 1..N
        BY <2>6, <2>7, <4>1
      <4>2. CASE i = N + 1
        BY <2>3, <2>6, <4>2
      <4>3. QED
        BY <2>5, <4>1, <4>2
    <3>2. QED
      BY <3>1
  <2>11. QED
    BY <1>1, <1>2, <2>1, <2>2, <2>6, <2>9, <2>10, IntervalIsNoInterval
<1>5. QED
  BY <1>3, <1>4

-----------------------------------------------------------------------------
(* The steps.                                                              *)

\* Turns that take samples break nothing down.
LEMMA OutcomeStays ==
  ASSUME OutcomeOK, outcome = "reading", UNCHANGED outcome
  PROVE  OutcomeOK'
BY DEF OutcomeOK, BreaksDownOnlyAsKnown

\* An invariant step that leaves the values alone keeps what is told of them.
LEMMA ContinueInv ==
  ASSUME AggregateInv, outcome = "reading", raw_span # <<>>, known,
         GetAggregateInterval(raw_span[1].time) = aggregator_interval,
         NEW count \in 1..Len(raw_span), Continue(count)
  PROVE  AggregateInv'
<1> DEFINE span == SubSeq(raw_span, 1, count)
           a == Aggregate(aggregator, span)
           r == ResultOf(a, aggregator_interval)
<1>1. HistoryOK /\ PagesOK /\ AtHandOK /\ ToldOK /\ OutcomeOK
  BY DEF AggregateInv
<1>2. /\ raw_span' = SubSeq(raw_span, count + 1, Len(raw_span))
      /\ UNCHANGED <<input, coming, aggregator_interval, data_values, outcome>>
      /\ aggregator' = a /\ aggregated_value' = r
  BY DEF Continue
<1>3. UNCHANGED <<forward, spacing, known, samples, coming, aggregator_interval, data_values,
                  outcome>>
  BY <1>2 DEF input
<1>4. /\ HistoryOK' /\ PagesOK' /\ Taken' = Taken + count
      /\ Visited \subseteq Visited'
  BY <1>1, <1>2, TurnTakes
<1>5. aggregator_interval \in Int \X Int /\ \A v \in Visited : v \in Int \X Int
  BY <1>1, NextSample
<1>6. /\ aggregator_interval \in Visited /\ aggregator \in Aggregator
      /\ aggregated_value = ResultOf(aggregator, aggregator_interval)
  BY <1>1, <1>5, IntervalIsNoInterval DEF AtHandOK
<1>7. span \in Seq(Sample) /\ Len(span) = count
  BY <1>1 DEF PagesOK
<1> HIDE DEF span
<1>8. a \in Aggregator /\ a.count = aggregator.count + count
  BY <1>6, <1>7, AggregateCounts
<1> HIDE DEF a
<1>9. /\ r \in Value /\ r.count = a.count
      /\ aggregated_value \in Value /\ aggregated_value.count = aggregator.count
  BY <1>5, <1>6, <1>8, ResultType
<1>10. r # NoValue /\ aggregated_value # NoValue
  BY <1>5, <1>6, <1>8, ResultIsNoNoValue
<1>11. AtHandOK'
  <2>1. (aggregated_value = ResultOf(aggregator, aggregator_interval))'
    BY <1>2, <1>3 DEF ResultOf
  <2>2. aggregator_interval' \in Visited'
    BY <1>3, <1>4, <1>6
  <2>3. known' /\ aggregator' \in Aggregator
    BY <1>2, <1>3, <1>8
  <2>4. QED
    BY <2>1, <2>2, <2>3 DEF AtHandOK
<1>12. AllTold = Append(data_values, aggregated_value) /\ AllTold' = Append(data_values, r)
  BY <1>2, <1>3, <1>10 DEF AllTold
<1>13. Counted(AllTold') = Taken'
  <2>1. data_values \in Seq(Value) /\ Counted(AllTold) = Taken
    BY <1>1 DEF ToldOK
  <2>2. /\ Counted(AllTold) = Counted(data_values) + aggregated_value.count
        /\ Counted(AllTold') = Counted(data_values) + r.count
    BY <1>9, <1>12, <2>1, CountedOneMore
  <2>3. Counted(data_values) \in Nat
    BY <2>1, CountedSumsUp
  <2>4. aggregator.count \in Nat /\ count \in Nat /\ a.count \in Nat
    BY <1>1, <1>6, <1>8 DEF Aggregator, PagesOK
  <2> DEFINE told == Counted(data_values)
             before == aggregator.count
             after == a.count
             taken == Taken
  <2>5. /\ Counted(AllTold') = told + after /\ taken = told + before
        /\ after = before + count /\ Taken' = taken + count
        /\ told \in Nat /\ before \in Nat /\ count \in Nat
    BY <1>4, <1>8, <1>9, <2>1, <2>2, <2>3, <2>4
  <2> HIDE DEF r, told, before, after, taken
  <2>6. QED
    BY ONLY <2>5
<1>14. ToldOK'
  BY <1>1, <1>3, <1>13 DEF ToldOK, InOrder, Before, Counted
<1>15. OutcomeOK'
  BY <1>1, <1>3 DEF OutcomeOK, BreaksDownOnlyAsKnown
<1>16. QED
  BY <1>4, <1>11, <1>14, <1>15 DEF AggregateInv

\* The interval at hand, and so all that is told, comes before another interval
\* that a sample to come is in.
LEMMA NextIsAfterTold ==
  ASSUME AggregateInv, outcome = "reading", raw_span # <<>>,
         GetAggregateInterval(raw_span[1].time) # aggregator_interval
  PROVE  LET interval == GetAggregateInterval(raw_span[1].time) IN
         /\ interval \in Int \X Int
         /\ AllTold = Told /\ Told \in Seq(Value) /\ InOrder(Told)
         /\ \A i \in 1..Len(Told) : Before(Told[i].interval, interval)
         /\ ~known => Told = <<>>
         /\ known => Counted(Told) = Taken
<1> DEFINE interval == GetAggregateInterval(raw_span[1].time)
<1>1. HistoryOK /\ PagesOK /\ AtHandOK
  BY DEF AggregateInv
<1>2. /\ interval \in Int \X Int
      /\ \A v \in Visited : v \in Int \X Int /\ (v = interval \/ Before(v, interval))
  BY <1>1, NextSample
<1>3. /\ AllTold = Told /\ Told \in Seq(Value) /\ InOrder(Told)
      /\ \A i \in 1..Len(Told) : \/ Told[i].interval = aggregator_interval
                                 \/ Before(Told[i].interval, aggregator_interval)
      /\ aggregator_interval = NoInterval => Told = <<>>
      /\ ~known => Told = <<>>
      /\ known => Counted(Told) = Taken
  BY ToldIsInOrder
<1> HIDE DEF interval
<1>4. ASSUME NEW i \in 1..Len(Told) PROVE Before(Told[i].interval, interval)
  <2>1. Told # <<>>
    BY <1>3
  <2>2. aggregator_interval \in Visited
    BY <1>1, <1>3, <2>1 DEF AtHandOK
  <2>3. aggregator_interval \in Int \X Int /\ Before(aggregator_interval, interval)
    BY <1>2, <2>2 DEF interval
  <2>4. Told[i] \in Value
    BY <1>3
  <2>5. Told[i].interval \in Int \X Int
    BY <2>4 DEF Value
  <2> DEFINE v == Told[i].interval
  <2> HIDE DEF v
  <2>6. v \in Int \X Int /\ (v = aggregator_interval \/ Before(v, aggregator_interval))
    BY <1>3, <2>5 DEF v
  <2>7. Before(v, interval)
    BY <1>2, <2>3, <2>6 DEF Before
  <2>8. QED
    BY <2>7 DEF v
<1>5. QED
  BY <1>2, <1>3, <1>4 DEF interval

LEMMA StartIntervalInv ==
  ASSUME AggregateInv, outcome = "reading", raw_span # <<>>, known,
         GetAggregateInterval(raw_span[1].time) # aggregator_interval,
         NEW count \in 1..Len(raw_span),
         StartInterval(GetAggregateInterval(raw_span[1].time), count)
  PROVE  AggregateInv'
<1> DEFINE span == SubSeq(raw_span, 1, count)
           interval == GetAggregateInterval(raw_span[1].time)
           a == Aggregate(MakeAggregator, span)
           r == ResultOf(a, interval)
<1>1. HistoryOK /\ PagesOK /\ AtHandOK /\ ToldOK /\ OutcomeOK
  BY DEF AggregateInv
<1>2. /\ raw_span' = SubSeq(raw_span, count + 1, Len(raw_span))
      /\ UNCHANGED <<input, coming, outcome>>
      /\ data_values' = Told /\ aggregator_interval' = interval
      /\ aggregator' = a /\ aggregated_value' = r
  BY DEF StartInterval
<1>3. UNCHANGED <<forward, spacing, known, samples, coming, outcome>>
  BY <1>2 DEF input
<1>4. /\ HistoryOK' /\ PagesOK' /\ Taken' = Taken + count
      /\ IntervalAt(Taken + 1) \in Visited'
  BY <1>1, <1>2, TurnTakes
<1>5. interval = IntervalAt(Taken + 1)
  BY <1>1, NextSample
<1>6. /\ interval \in Int \X Int
      /\ Told \in Seq(Value) /\ InOrder(Told)
      /\ \A i \in 1..Len(Told) : Before(Told[i].interval, interval)
      /\ Counted(Told) = Taken
  BY NextIsAfterTold
<1> HIDE DEF interval
<1>7. span \in Seq(Sample) /\ Len(span) = count
  BY <1>1 DEF PagesOK
<1> HIDE DEF span
<1>8. a \in Aggregator /\ a.count = MakeAggregator.count + count
  BY <1>7, MakeAggregatorType, AggregateCounts
<1>9. a.count = count
  <2>1. count \in Nat
    BY <1>1 DEF PagesOK
  <2>2. QED
    BY <1>8, <2>1 DEF MakeAggregator
<1> HIDE DEF a
<1>10. r \in Value /\ r.count = a.count /\ r # NoValue
  BY <1>6, <1>8, ResultType, ResultIsNoNoValue
<1>11. AtHandOK'
  <2>1. (aggregated_value = ResultOf(aggregator, aggregator_interval))'
    BY <1>2, <1>3 DEF ResultOf
  <2>2. aggregator_interval' \in Visited'
    BY <1>2, <1>4, <1>5
  <2>3. known' /\ aggregator' \in Aggregator
    BY <1>2, <1>3, <1>8
  <2>4. QED
    BY <2>1, <2>2, <2>3 DEF AtHandOK
<1>12. AllTold' = Append(Told, r)
  BY <1>2, <1>3, <1>10 DEF AllTold
<1>13. Counted(AllTold') = Taken'
  <2>1. Counted(AllTold') = Counted(Told) + r.count
    BY <1>6, <1>10, <1>12, CountedOneMore
  <2>2. QED
    BY <1>4, <1>6, <1>9, <1>10, <2>1
<1>14. InOrder(data_values)'
  BY <1>2, <1>3, <1>6 DEF InOrder, Before
<1>15. ToldOK'
  <2>1. data_values' \in Seq(Value)
    BY <1>2, <1>6
  <2>2. \A i \in 1..Len(data_values') :
           Before(data_values[i].interval, aggregator_interval)'
    BY <1>2, <1>3, <1>6 DEF Before
  <2>3. (Counted(AllTold) = Taken)'
    BY <1>13 DEF Counted
  <2>4. QED
    BY <1>14, <2>1, <2>2, <2>3 DEF ToldOK
<1>16. OutcomeOK'
  BY <1>1, <1>3 DEF OutcomeOK, BreaksDownOnlyAsKnown
<1>17. QED
  BY <1>4, <1>11, <1>15, <1>16 DEF AggregateInv

\* Without an aggregator nothing is told, and the rest of the page is taken.
LEMMA StartNothingInv ==
  ASSUME AggregateInv, outcome = "reading", raw_span # <<>>, ~known,
         GetAggregateInterval(raw_span[1].time) # aggregator_interval,
         StartNothing(GetAggregateInterval(raw_span[1].time))
  PROVE  AggregateInv'
<1> DEFINE interval == GetAggregateInterval(raw_span[1].time)
           N == Len(raw_span)
<1>1. HistoryOK /\ PagesOK /\ AtHandOK /\ ToldOK /\ OutcomeOK
  BY DEF AggregateInv
<1>2. /\ raw_span' = <<>> /\ UNCHANGED <<input, coming, outcome>>
      /\ data_values' = Told /\ aggregator_interval' = interval
      /\ aggregated_value' = NoValue
  BY DEF StartNothing
<1>3. UNCHANGED <<forward, spacing, known, samples, coming, outcome>>
  BY <1>2 DEF input
<1>4. raw_span \in Seq(Sample) /\ N \in 1..N /\ N \in Nat
  BY <1>1 DEF PagesOK
<1>5. raw_span' = SubSeq(raw_span, N + 1, Len(raw_span))
  BY <1>2, <1>4
<1>6. /\ HistoryOK' /\ PagesOK' /\ IntervalAt(Taken + 1) \in Visited'
  BY <1>1, <1>2, <1>4, <1>5, TurnTakes
<1>7. interval = IntervalAt(Taken + 1)
  BY <1>1, NextSample
<1>8. Told = <<>>
  BY NextIsAfterTold
<1> HIDE DEF interval, N
<1>9. AtHandOK'
  BY <1>2, <1>3, <1>6, <1>7, <1>8 DEF AtHandOK
<1>10. ToldOK'
  <2>1. data_values' = <<>> /\ data_values' \in Seq(Value) /\ Len(data_values') = 0
    BY <1>2, <1>8
  <2>2. ~known'
    BY <1>3
  <2>3. QED
    BY <2>1, <2>2 DEF ToldOK, InOrder
<1>11. OutcomeOK'
  BY <1>1, <1>3 DEF OutcomeOK, BreaksDownOnlyAsKnown
<1>12. QED
  BY <1>6, <1>9, <1>10, <1>11 DEF AggregateInv

\* The caller's pages are sections of the history.
LEMMA ReadPageInv ==
  ASSUME AggregateInv, NEW n \in 1..MaxSamples, ReadPage(n)
  PROVE  AggregateInv'
<1>1. HistoryOK /\ PagesOK /\ AtHandOK /\ ToldOK /\ OutcomeOK
  BY DEF AggregateInv
<1>2. /\ outcome = "reading" /\ raw_span = <<>> /\ n \in 1..Len(coming)
      /\ raw_span' = SubSeq(coming, 1, n)
      /\ coming' = SubSeq(coming, n + 1, Len(coming))
      /\ UNCHANGED <<input, state, outcome>>
  BY DEF ReadPage
<1>3. UNCHANGED <<forward, spacing, known, samples, aggregator_interval, aggregator,
                  aggregated_value, data_values, outcome>>
  BY <1>2 DEF input, state
<1> DEFINE C == Len(coming)
           k == Taken
<1>4. /\ coming \in Seq(Sample) /\ C \in Nat /\ n \in 1..C /\ Len(raw_span) = 0
      /\ samples \in Seq(Sample) /\ Len(samples) \in Nat
      /\ k \in Nat /\ k = Len(samples) - C - 0
  BY <1>1, <1>2 DEF PagesOK, HistoryOK, Taken
<1>5. /\ raw_span' \in Seq(Sample) /\ Len(raw_span') = n
      /\ \A i \in 1..n : raw_span'[i] = coming[i]
      /\ coming' \in Seq(Sample) /\ Len(coming') = C - n
      /\ \A i \in 1..(C - n) : coming'[i] = coming[n + i]
  BY <1>2, <1>4
<1>6. \A i \in 1..C : coming[i] = samples[k + i]
  <2>1. \A i \in 1..C : coming[i] = samples[k + 0 + i]
    BY <1>1, <1>4 DEF PagesOK
  <2>2. k + 0 = k
    BY <1>4
  <2>3. QED
    BY <2>1, <2>2
<1>7. Taken' = k
  <2>1. Taken' = Len(samples) - (C - n) - n
    BY <1>3, <1>5 DEF Taken
  <2> HIDE DEF C, k
  <2>2. QED
    BY ONLY <1>4, <2>1
<1> HIDE DEF C, k
<1>8. PagesOK'
  <2>1. \A i \in 1..n : raw_span'[i] = samples'[Taken' + i]
    <3>1. ASSUME NEW i \in 1..n PROVE raw_span'[i] = samples[k + i]
      <4>1. i \in 1..C
        BY <1>4
      <4>2. raw_span'[i] = coming[i]
        BY <1>5
      <4>3. coming[i] = samples[k + i]
        BY <1>6, <4>1
      <4>4. QED
        BY <4>2, <4>3
    <3>2. samples' = samples
      BY <1>3
    <3>3. QED
      BY <1>7, <3>1, <3>2
  <2>2. ASSUME NEW i \in 1..(C - n) PROVE coming'[i] = samples'[Taken' + n + i]
    <3>1. n + i \in 1..C /\ k + n + i = k + (n + i)
      BY <1>4
    <3>2. QED
      BY <1>3, <1>5, <1>6, <1>7, <3>1
  <2>3. QED
    BY <1>4, <1>5, <1>7, <2>1, <2>2 DEF PagesOK
<1>9. HistoryOK'
  BY <1>1, <1>3 DEF HistoryOK, Ordered
<1>10. Visited' = Visited
  BY <1>3, <1>7 DEF Visited, IntervalAt, GetAggregateInterval, Period, k
<1>11. AtHandOK'
  BY <1>1, <1>3, <1>7, <1>10 DEF AtHandOK, ResultOf, k
<1>12. ToldOK'
  <2>1. AllTold' = AllTold
    BY <1>3 DEF AllTold
  <2>2. Counted(AllTold)' = Counted(AllTold)
    BY <2>1 DEF Counted
  <2>3. (known => Counted(AllTold) = Taken)'
    BY <1>1, <1>3, <1>7, <2>2 DEF ToldOK, k
  <2>4. InOrder(data_values)'
    BY <1>1, <1>3 DEF ToldOK, InOrder, Before
  <2>5. (\A i \in 1..Len(data_values) :
            Before(data_values[i].interval, aggregator_interval))'
    BY <1>1, <1>2, <1>3 DEF ToldOK, Before
  <2>6. data_values' \in Seq(Value)
    BY <1>1, <1>3 DEF ToldOK
  <2>7. QED
    BY <2>3, <2>4, <2>5, <2>6 DEF ToldOK
<1>13. OutcomeOK'
  BY <1>1, <1>3 DEF OutcomeOK, BreaksDownOnlyAsKnown
<1>14. QED
  BY <1>8, <1>9, <1>11, <1>12, <1>13 DEF AggregateInv

\* Nothing but the outcome changes when Process breaks down.
LEMMA BreakDownInv ==
  ASSUME AggregateInv, outcome = "reading", NEW how \in {"check failed", "bad call"},
         BreakDown(how), BreaksDownOnlyAsKnown'
  PROVE  AggregateInv'
<1>1. HistoryOK /\ PagesOK /\ AtHandOK /\ ToldOK
  BY DEF AggregateInv
<1>2. outcome' = how /\ UNCHANGED <<input, coming, raw_span, state>>
  BY DEF BreakDown
<1>3. UNCHANGED <<forward, spacing, known, samples, coming, raw_span, aggregator_interval,
                  aggregator, aggregated_value, data_values>>
  BY <1>2 DEF input, state
<1>4. Taken' = Taken /\ AllTold' = AllTold
  BY <1>2, <1>3 DEF Taken, AllTold
<1>5. HistoryOK' /\ PagesOK'
  BY <1>1, <1>3, <1>4 DEF HistoryOK, PagesOK, Ordered
<1>6. Visited' = Visited
  BY <1>3, <1>4 DEF Visited, IntervalAt, GetAggregateInterval, Period
<1>7. AtHandOK'
  BY <1>1, <1>3, <1>4, <1>6 DEF AtHandOK, ResultOf
<1>8. ToldOK'
  BY <1>1, <1>2, <1>3, <1>4 DEF ToldOK, InOrder, Before, Counted
<1>9. OutcomeOK'
  BY <1>2 DEF OutcomeOK
<1>10. QED
  BY <1>5, <1>7, <1>8, <1>9 DEF AggregateInv

\* Process, which way it goes being told by the count, the interval and the aggregate.
LEMMA ProcessInv ==
  ASSUME AggregateInv, Process
  PROVE  AggregateInv'
<1> DEFINE interval == GetAggregateInterval(raw_span[1].time)
           count == InInterval(raw_span, interval)
<1>1. /\ outcome = "reading" /\ raw_span # <<>>
      /\ \/ count = 0 /\ BreakDown("check failed")
         \/ count > 0 /\ interval # aggregator_interval /\ known /\ StartInterval(interval, count)
         \/ count > 0 /\ interval # aggregator_interval /\ ~known /\ StartNothing(interval)
         \/ count > 0 /\ interval = aggregator_interval /\ known /\ Continue(count)
         \/ count > 0 /\ interval = aggregator_interval /\ ~known /\ BreakDown("bad call")
  BY DEF Process
<1>2. HistoryOK /\ PagesOK
  BY DEF AggregateInv
<1>3. raw_span \in Seq(Sample) /\ spacing \in Int /\ forward \in BOOLEAN
  BY <1>2 DEF HistoryOK, PagesOK
<1>4. /\ count \in 0..Len(raw_span)
      /\ count = 0 => \/ ~forward /\ spacing # 0 /\ raw_span[1].time < Origin
                      \/ forward /\ spacing < 0 /\ raw_span[1].time > Origin + spacing
  BY <1>1, <1>3, CountOfSpan
<1>5. count > 0 => count \in 1..Len(raw_span)
  BY <1>3, <1>4
<1>6. raw_span[1] = samples[Taken + 1] /\ Taken + 1 \in 1..Len(samples)
  BY <1>1, <1>2, NextSample
<1> HIDE DEF count
<1>7. CASE count = 0 /\ BreakDown("check failed")
  <2>1. \/ /\ ~forward /\ spacing # 0
           /\ \E i \in 1..Len(samples) : samples[i].time < Origin
        \/ /\ forward /\ spacing < 0
           /\ \E i \in 1..Len(samples) : samples[i].time > Origin + spacing
    BY <1>4, <1>6, <1>7
  <2>2. /\ outcome' = "check failed" /\ UNCHANGED <<forward, spacing, known, samples>>
    BY <1>7 DEF BreakDown, input
  <2>3. BreaksDownOnlyAsKnown'
    BY <1>4, <1>7, <2>1, <2>2 DEF BreaksDownOnlyAsKnown
  <2>4. QED
    BY <1>1, <1>7, <2>3, BreakDownInv
<1>8. CASE count > 0 /\ interval # aggregator_interval /\ known /\ StartInterval(interval, count)
  BY <1>1, <1>5, <1>8, StartIntervalInv
<1>9. CASE count > 0 /\ interval # aggregator_interval /\ ~known /\ StartNothing(interval)
  BY <1>1, <1>9, StartNothingInv
<1>10. CASE count > 0 /\ interval = aggregator_interval /\ known /\ Continue(count)
  BY <1>1, <1>5, <1>10, ContinueInv
<1>11. CASE count > 0 /\ interval = aggregator_interval /\ ~known /\ BreakDown("bad call")
  <2>1. outcome' = "bad call" /\ UNCHANGED <<forward, spacing, known, samples>>
    BY <1>11 DEF BreakDown, input
  <2>2. BreaksDownOnlyAsKnown'
    BY <1>11, <2>1 DEF BreaksDownOnlyAsKnown
  <2>3. QED
    BY <1>1, <1>11, <2>2, BreakDownInv
<1>12. QED
  BY <1>1, <1>7, <1>8, <1>9, <1>10, <1>11

\* In the end the value at hand is told too.
LEMMA FinishInv ==
  ASSUME AggregateInv, Finish
  PROVE  AggregateInv'
<1>1. HistoryOK /\ PagesOK /\ AtHandOK /\ ToldOK
  BY DEF AggregateInv
<1>2. /\ outcome = "reading" /\ outcome' = "finished" /\ data_values' = Told
      /\ UNCHANGED <<input, coming, raw_span, aggregator_interval, aggregator,
                     aggregated_value>>
  BY DEF Finish
<1>3. UNCHANGED <<forward, spacing, known, samples, coming, raw_span, aggregator_interval,
                  aggregator, aggregated_value>>
  BY <1>2 DEF input
<1>4. Taken' = Taken
  BY <1>3 DEF Taken
<1>5. HistoryOK' /\ PagesOK'
  BY <1>1, <1>3, <1>4 DEF HistoryOK, PagesOK, Ordered
<1>6. Visited' = Visited
  BY <1>3, <1>4 DEF Visited, IntervalAt, GetAggregateInterval, Period
<1>8. /\ AllTold = Told /\ Told \in Seq(Value) /\ InOrder(Told)
      /\ aggregator_interval = NoInterval => Told = <<>>
      /\ ~known => Told = <<>>
      /\ known => Counted(Told) = Taken
  BY <1>2, ToldIsInOrder
<1>9. AtHandOK'
  <2>1. (aggregated_value = ResultOf(aggregator, aggregator_interval))'
          <=> aggregated_value = ResultOf(aggregator, aggregator_interval)
    BY <1>3 DEF ResultOf
  <2>2. QED
    BY <1>1, <1>2, <1>3, <1>4, <1>6, <1>8, <2>1 DEF AtHandOK
<1>10. ToldOK'
  <2>1. AllTold' = Told
    BY <1>2 DEF AllTold
  <2>2. Counted(AllTold)' = Counted(Told)
    BY <2>1 DEF Counted
  <2>3. (known => Counted(AllTold) = Taken)'
    BY <1>3, <1>4, <1>8, <2>2
  <2>4. InOrder(data_values)'
    BY <1>2, <1>3, <1>8 DEF InOrder, Before
  <2>5. data_values' \in Seq(Value) /\ outcome' = "finished"
    BY <1>2, <1>8
  <2>6. QED
    BY <2>3, <2>4, <2>5 DEF ToldOK
<1>11. OutcomeOK'
  BY <1>2 DEF OutcomeOK, BreaksDownOnlyAsKnown
<1>12. QED
  BY <1>5, <1>9, <1>10, <1>11 DEF AggregateInv

\* Before the first page nothing is taken and nothing told.
LEMMA AggregateInitInv == Init => AggregateInv
<1> SUFFICES ASSUME Init PROVE AggregateInv
  OBVIOUS
<1>1. /\ forward \in BOOLEAN /\ known \in BOOLEAN /\ spacing \in Intervals
      /\ samples \in Histories(forward) /\ coming = samples /\ raw_span = <<>>
      /\ aggregator_interval = NoInterval /\ aggregated_value = NoValue
      /\ data_values = <<>> /\ outcome = "reading"
  BY DEF Init
<1>2. samples \in Seq(Sample) /\ Ordered(samples, forward)
  <2>1. samples \in BoundedSeq(Sample, MaxSamples) /\ Ordered(samples, forward)
    BY <1>1 DEF Histories, Sample
  <2>2. PICK m \in 0..MaxSamples : samples \in [1..m -> Sample]
    BY <2>1 DEF BoundedSeq, SeqOf
  <2>3. m \in Nat
    BY <2>2, AggregationAssumption
  <2>4. QED
    BY <2>1, <2>2, <2>3
<1>3. HistoryOK
  BY <1>1, <1>2, AggregationAssumption DEF HistoryOK
<1>4. Len(samples) \in Nat /\ Len(raw_span) = 0
  BY <1>1, <1>2
<1>5. Taken = 0
  <2>1. Taken = Len(samples) - Len(samples) - 0
    BY <1>1, <1>4 DEF Taken
  <2>2. QED
    BY <1>4, <2>1
<1>6. PagesOK
  <2>1. raw_span \in Seq(Sample) /\ coming \in Seq(Sample)
    BY <1>1, <1>2
  <2>2. \A i \in 1..Len(coming) : coming[i] = samples[Taken + Len(raw_span) + i]
    BY <1>1, <1>4, <1>5
  <2>3. QED
    BY <1>4, <1>5, <2>1, <2>2 DEF PagesOK
<1>7. AtHandOK
  BY <1>1, <1>5 DEF AtHandOK
<1>8. ToldOK
  <2>1. AllTold = <<>>
    BY <1>1 DEF AllTold
  <2>2. Counted(AllTold) = Taken
    BY <1>5, <2>1, CountedOfNone
  <2>3. data_values \in Seq(Value) /\ Len(data_values) = 0
    BY <1>1
  <2>4. QED
    BY <2>2, <2>3 DEF ToldOK, InOrder
<1>9. OutcomeOK
  BY <1>1 DEF OutcomeOK, BreaksDownOnlyAsKnown
<1>10. QED
  BY <1>3, <1>6, <1>7, <1>8, <1>9 DEF AggregateInv

\* The invariant speaks of the variables of the specification alone.
LEMMA AggregateStutterInv ==
  ASSUME AggregateInv, UNCHANGED vars
  PROVE  AggregateInv'
<1>1. HistoryOK /\ PagesOK /\ AtHandOK /\ ToldOK /\ OutcomeOK
  BY DEF AggregateInv
<1>2. UNCHANGED <<forward, spacing, known, samples, coming, raw_span, aggregator_interval,
                  aggregator, aggregated_value, data_values, outcome>>
  BY DEF vars, input, state
<1>3. Taken' = Taken /\ AllTold' = AllTold
  BY <1>2 DEF Taken, AllTold
<1>4. HistoryOK' /\ PagesOK' /\ OutcomeOK'
  BY <1>1, <1>2, <1>3 DEF HistoryOK, PagesOK, Ordered, OutcomeOK, BreaksDownOnlyAsKnown
<1>5. Visited' = Visited
  BY <1>2, <1>3 DEF Visited, IntervalAt, GetAggregateInterval, Period
<1>6. AtHandOK'
  BY <1>1, <1>2, <1>3, <1>5 DEF AtHandOK, ResultOf
<1>7. ToldOK'
  BY <1>1, <1>2, <1>3 DEF ToldOK, InOrder, Before, Counted
<1>8. QED
  BY <1>4, <1>6, <1>7 DEF AggregateInv

LEMMA AggregateNextInv == AggregateInv /\ [Next]_vars => AggregateInv'
BY ReadPageInv, ProcessInv, FinishInv, AggregateStutterInv DEF Next

-----------------------------------------------------------------------------
(* The theorems.                                                           *)

\* The inductive invariant of AggregateState: the page and what comes after it are the
\* end of the history, the value at hand is what its aggregator captured, and all that
\* is told comes before it.
THEOREM AggregateInvariant == Spec => []AggregateInv
BY AggregateInitInv, AggregateNextInv, PTL DEF Spec

\* Process and Finish, whatever the pages are, count each sample once and tell no
\* interval twice or out of order.
THEOREM SamplesAreCountedOnce == Spec => []EverySampleIsCountedOnce
<1>1. AggregateInv => EverySampleIsCountedOnce
  <2> SUFFICES ASSUME AggregateInv PROVE EverySampleIsCountedOnce
    OBVIOUS
  <2>1. known => Counted(AllTold) = Taken
    BY DEF AggregateInv, ToldOK
  <2>2. InOrder(AllTold)
    <3>1. CASE outcome = "finished"
      BY <3>1 DEF AllTold, AggregateInv, ToldOK
    <3>2. CASE outcome # "finished"
      BY <3>2, ToldIsInOrder
    <3>3. QED
      BY <3>1, <3>2
  <2>3. QED
    BY <2>1, <2>2 DEF EverySampleIsCountedOnce, InOrder, Before, Taken
<1>2. QED
  BY <1>1, AggregateInvariant, PTL

\* For intervals of either sign: Process fails its Check only in a backward read past
\* the start time and in a forward read past the end of the first interval that ends
\* before it starts, and calls an empty function only for an aggregate nobody knows.
THEOREM BreaksDownOnlyInKnownWays == Spec => []BreaksDownOnlyAsKnown
<1>1. AggregateInv => BreaksDownOnlyAsKnown
  BY DEF AggregateInv, OutcomeOK
<1>2. QED
  BY <1>1, AggregateInvariant, PTL

-----------------------------------------------------------------------------
(* Pages do not show: what the aggregator of an interval has captured.     *)

OwnUpTo(interval, k) == {i \in 1..k : IntervalAt(i) = interval}

\* The sum up to n, from the sum up to n - 1.
AddsUp(f, interval) ==
    /\ f[0] = 0
    /\ \A n \in 1..Len(samples) :
          f[n] = f[n - 1] + (IF IntervalAt(n) = interval THEN samples[n].value ELSE 0)

LEMMA TotalAddsUp ==
  ASSUME HistoryOK, NEW interval
  PROVE  \E f \in [0..Len(samples) -> Int] :
            AddsUp(f, interval) /\ \A k \in 0..Len(samples) : TotalOf(interval, k) = f[k]
<1> DEFINE N == Len(samples)
           own == Own(interval)
           part == [n \in 1..N |-> IF n \in own THEN samples[n].value ELSE 0]
           step == [p \in Int \X (1..N) |-> p[1] + part[p[2]]]
           Def(g) == [n \in 0..N |->
                        IF n = 0 THEN 0
                        ELSE g[n - 1] + (IF n \in own THEN samples[n].value ELSE 0)]
           upto == CHOOSE g : g = Def(g)
<1>1. N \in Nat /\ \A n \in 1..N : samples[n] \in Sample
  BY DEF HistoryOK
<1>2. \A n \in 1..N : samples[n].value \in Int
  BY <1>1, SamplesAreNumbers
<1>3. \A n \in 1..N : n \in own <=> IntervalAt(n) = interval
  BY DEF Own, IntervalAt
<1>4. \A k : TotalOf(interval, k) = upto[k]
  BY DEF TotalOf
<1> HIDE DEF own
<1>5. \A n \in 1..N : part[n] \in Int
  BY <1>2
<1>6. \A n \in 1..N : part[n] = IF n \in own THEN samples[n].value ELSE 0
  OBVIOUS
<1> HIDE DEF part
<1>7. step \in [Int \X (1..N) -> Int] /\ \A b \in Int, n \in 1..N : step[<<b, n>>] = b + part[n]
  BY <1>5
<1> HIDE DEF step
<1>8. PICK f \in [0..N -> Int] : Goes(f, 0, step, N)
  <2>1. 0 \in Int /\ N \in Nat /\ step \in [Int \X (1..N) -> Int]
    BY <1>1, <1>7
  <2> HIDE DEF N
  <2>2. QED
    BY ONLY <2>1, StepByStep
<1>9. f = Def(f)
  <2>1. ASSUME NEW n \in 0..N
        PROVE  f[n] = IF n = 0 THEN 0
                      ELSE f[n - 1] + (IF n \in own THEN samples[n].value ELSE 0)
    <3>1. CASE n = 0
      BY <1>8, <3>1 DEF Goes
    <3>2. CASE n # 0
      <4>1. n \in 1..N /\ n - 1 \in 0..N
        BY <1>1, <3>2
      <4>2. f[n] = step[<<f[n - 1], n>>]
        BY <1>8, <4>1 DEF Goes
      <4>3. step[<<f[n - 1], n>>] = f[n - 1] + part[n]
        BY <1>7, <1>8, <4>1
      <4>4. QED
        BY <1>6, <3>2, <4>1, <4>2, <4>3
    <3>3. QED
      BY <3>1, <3>2
  <2>2. QED
    BY <2>1
<1>10. upto = Def(upto)
  BY <1>9
<1> HIDE DEF upto
<1>11. /\ upto[0] = 0
       /\ \A n \in 1..N :
             upto[n] = upto[n - 1] + (IF n \in own THEN samples[n].value ELSE 0)
  BY <1>1, <1>10
<1>12. upto \in [0..N -> Int]
  <2> DEFINE P == {n \in 0..N : upto[n] \in Int}
  <2>1. 0 \in P
    BY <1>1, <1>11
  <2>2. ASSUME NEW n \in 1..N, n - 1 \in P PROVE n \in P
    <3>1. upto[n] = upto[n - 1] + (IF n \in own THEN samples[n].value ELSE 0)
      BY <1>11
    <3>2. samples[n].value \in Int /\ upto[n - 1] \in Int
      BY <1>2, <2>2
    <3>3. n \in 0..N
      BY <1>1
    <3>4. QED
      BY ONLY <3>1, <3>2, <3>3
  <2>3. 0..N \subseteq P
    <3> HIDE DEF P
    <3>1. QED
      BY <1>1, <2>1, <2>2, UpTo
  <2>4. \A n \in 0..N : upto[n] \in Int
    BY <2>3
  <2>5. QED
    BY <1>10, <2>4
<1>13. AddsUp(upto, interval)
  BY <1>3, <1>11 DEF AddsUp
<1>14. QED
  BY <1>4, <1>12, <1>13

\* One more sample adds its value to the sum of its own interval, and to no other.
LEMMA TotalGoesOn ==
  ASSUME HistoryOK, NEW interval
  PROVE  /\ TotalOf(interval, 0) = 0
         /\ \A k \in 0..Len(samples) : TotalOf(interval, k) \in Int
         /\ \A n \in 1..Len(samples) :
               TotalOf(interval, n) = TotalOf(interval, n - 1)
                    + (IF IntervalAt(n) = interval THEN samples[n].value ELSE 0)
<1>1. PICK f \in [0..Len(samples) -> Int] :
         AddsUp(f, interval) /\ \A k \in 0..Len(samples) : TotalOf(interval, k) = f[k]
  BY TotalAddsUp
<1>2. Len(samples) \in Nat
  BY DEF HistoryOK
<1>3. ASSUME NEW n \in 1..Len(samples)
      PROVE  TotalOf(interval, n) = TotalOf(interval, n - 1)
                    + (IF IntervalAt(n) = interval THEN samples[n].value ELSE 0)
  <2>1. n \in 0..Len(samples) /\ n - 1 \in 0..Len(samples)
    BY <1>2
  <2>2. TotalOf(interval, n) = f[n] /\ TotalOf(interval, n - 1) = f[n - 1]
    BY <1>1, <2>1
  <2>3. QED
    BY <1>1, <2>2 DEF AddsUp
<1>4. TotalOf(interval, 0) = 0
  BY <1>1, <1>2 DEF AddsUp
<1>5. \A k \in 0..Len(samples) : TotalOf(interval, k) \in Int
  BY <1>1
<1>6. QED
  BY <1>3, <1>4, <1>5

\* Samples of other intervals add nothing.
LEMMA TotalStays ==
  ASSUME HistoryOK, NEW interval, NEW k \in 0..Len(samples),
         \A i \in 1..Len(samples) : i > k => IntervalAt(i) # interval
  PROVE  TotalOf(interval, Len(samples)) = TotalOf(interval, k)
<1> DEFINE N == Len(samples) - k
           P == {n \in 0..N : TotalOf(interval, k + n) = TotalOf(interval, k)}
<1>1. Len(samples) \in Nat /\ k \in Nat /\ N \in Nat /\ k + N = Len(samples)
  BY DEF HistoryOK
<1>2. 0 \in P
  BY <1>1
<1>3. ASSUME NEW n \in 1..N, n - 1 \in P PROVE n \in P
  <2>1. k + n \in 1..Len(samples) /\ k + n > k /\ (k + n) - 1 = k + (n - 1)
    BY <1>1
  <2>2. IntervalAt(k + n) # interval
    BY <2>1
  <2>3. TotalOf(interval, k + n) = TotalOf(interval, (k + n) - 1) + 0
    BY <2>1, <2>2, TotalGoesOn
  <2>4. TotalOf(interval, k + (n - 1)) = TotalOf(interval, k) /\ TotalOf(interval, k) \in Int
    BY <1>3, TotalGoesOn
  <2>5. QED
    BY <1>1, <2>1, <2>3, <2>4
<1>4. 0..N \subseteq P
  <2> HIDE DEF P, N
  <2>1. QED
    BY <1>1, <1>2, <1>3, UpTo
<1>5. N \in P
  <2> HIDE DEF P, N
  <2>1. N \in 0..N
    BY <1>1
  <2>2. QED
    BY <1>4, <2>1
<1>6. QED
  BY <1>1, <1>5

LEMMA TotalOfNone ==
  ASSUME HistoryOK, NEW interval, NEW k \in 0..Len(samples), OwnUpTo(interval, k) = {}
  PROVE  TotalOf(interval, k) = 0
<1> DEFINE P == {n \in 0..k : TotalOf(interval, n) = 0}
<1>1. Len(samples) \in Nat /\ k \in Nat /\ k <= Len(samples)
  BY DEF HistoryOK
<1>2. 0 \in P
  BY <1>1, TotalGoesOn
<1>3. ASSUME NEW n \in 1..k, n - 1 \in P PROVE n \in P
  <2>1. n \in 1..Len(samples) /\ IntervalAt(n) # interval
    BY <1>1 DEF OwnUpTo
  <2>2. TotalOf(interval, n) = TotalOf(interval, n - 1) + 0
    BY <2>1, TotalGoesOn
  <2>3. QED
    BY <1>1, <1>3, <2>2
<1>4. 0..k \subseteq P
  <2> HIDE DEF P
  <2>1. QED
    BY <1>1, <1>2, <1>3, UpTo
<1>5. QED
  BY <1>1, <1>4

\* a has captured the samples of the interval among the first k, and nothing else.
Captured(a, interval, k) ==
    LET own == OwnUpTo(interval, k) IN
    /\ a \in Aggregator
    /\ a.count = Cardinality(own)
    /\ a.total = TotalOf(interval, k)
    /\ \A i \in own : a.low <= samples[i].value
    /\ a.low = Greatest \/ \E i \in own : a.low = samples[i].value
    /\ \A i \in own : a.high >= samples[i].value
    /\ a.high = LeastPositive \/ \E i \in own : a.high = samples[i].value
    /\ a.high >= LeastPositive
    /\ \A i \in own : (\A j \in own : i <= j) => a.front = samples[i].value
    /\ \A i \in own : (\A j \in own : j <= i) => a.back = samples[i].value

LEMMA OwnIsFinite ==
  ASSUME NEW interval, NEW k \in Nat
  PROVE  /\ IsFiniteSet(OwnUpTo(interval, k))
         /\ Cardinality(OwnUpTo(interval, k)) \in Nat
         /\ Cardinality(OwnUpTo(interval, k)) = 0 <=> OwnUpTo(interval, k) = {}
<1>1. IsFiniteSet(1..k) /\ OwnUpTo(interval, k) \subseteq 1..k
  BY FS_Interval DEF OwnUpTo
<1>2. IsFiniteSet(OwnUpTo(interval, k))
  BY <1>1, FS_Subset
<1>3. QED
  BY <1>2, FS_CardinalityType, FS_EmptySet

\* The aggregator an interval begins with has captured nothing.
LEMMA NothingCaptured ==
  ASSUME HistoryOK, NEW interval, NEW k \in 0..Len(samples), OwnUpTo(interval, k) = {}
  PROVE  Captured(MakeAggregator, interval, k)
<1>1. TotalOf(interval, k) = 0
  BY TotalOfNone
<1>2. Cardinality({}) = 0
  BY FS_EmptySet
<1>3. MakeAggregator \in Aggregator
  BY MakeAggregatorType
<1>4. QED
  BY <1>1, <1>2, <1>3 DEF Captured, MakeAggregator, LeastPositive

LEMMA LesserAndLarger ==
  ASSUME NEW y \in Int, NEW z \in Int
  PROVE  /\ Lesser(y, z) \in Int /\ Lesser(y, z) <= y /\ Lesser(y, z) <= z
         /\ Lesser(y, z) = z \/ (Lesser(y, z) = y /\ y <= z)
         /\ Larger(y, z) \in Int /\ Larger(y, z) >= y /\ Larger(y, z) >= z
         /\ Larger(y, z) = z \/ Larger(y, z) = y
BY DEF Lesser, Larger

\* One more sample of the interval is captured.
LEMMA CaptureNext ==
  ASSUME HistoryOK, NEW interval, NEW k \in Nat, k + 1 \in 1..Len(samples),
         IntervalAt(k + 1) = interval, NEW a, Captured(a, interval, k)
  PROVE  Captured(Add(a, samples[k + 1]), interval, k + 1)
<1> DEFINE own == OwnUpTo(interval, k)
           more == OwnUpTo(interval, k + 1)
           x == samples[k + 1]
           b == Add(a, x)
<1>1. /\ Len(samples) \in Nat /\ x \in Sample
      /\ \A i \in 1..Len(samples) : samples[i] \in Sample
  BY DEF HistoryOK
<1>2. x.value \in Int /\ x.value < Greatest /\ Greatest \in Int
      /\ \A i \in 1..Len(samples) : samples[i].value \in Int
  BY <1>1, SamplesAreNumbers, GreatestIsGreatest
<1>3. a \in Aggregator
  BY DEF Captured
<1>4. /\ a.count \in Nat /\ a.total \in Int /\ a.low \in Int /\ a.high \in Int
  BY <1>3 DEF Aggregator
<1>5. b \in Aggregator
  BY <1>1, <1>3, AddType
<1>6. more = own \cup {k + 1} /\ k + 1 \notin own /\ \A i \in own : i \in 1..k
  BY DEF OwnUpTo
<1>7. \A i \in own : i \in 1..Len(samples)
  BY <1>1, <1>6
<1>8. IsFiniteSet(own) /\ Cardinality(own) \in Nat /\ (Cardinality(own) = 0 <=> own = {})
  BY OwnIsFinite
<1>9. Cardinality(more) = Cardinality(own) + 1
  BY <1>6, <1>8, FS_AddElement
<1>10. TotalOf(interval, k + 1) = TotalOf(interval, k) + x.value
  <2>1. (k + 1) - 1 = k
    OBVIOUS
  <2>2. TotalOf(interval, k + 1) = TotalOf(interval, (k + 1) - 1) + x.value
    BY TotalGoesOn
  <2>3. QED
    BY <2>1, <2>2
<1>11. /\ a.count = Cardinality(own)
       /\ a.total = TotalOf(interval, k)
       /\ \A i \in own : a.low <= samples[i].value
       /\ a.low = Greatest \/ \E i \in own : a.low = samples[i].value
       /\ \A i \in own : a.high >= samples[i].value
       /\ a.high = LeastPositive \/ \E i \in own : a.high = samples[i].value
       /\ a.high >= LeastPositive
       /\ \A i \in own : (\A j \in own : i <= j) => a.front = samples[i].value
  BY DEF Captured
<1>12. /\ b.count = a.count + 1 /\ b.total = a.total + x.value
       /\ b.low = Lesser(a.low, x.value) /\ b.high = Larger(a.high, x.value)
       /\ b.front = (IF a.count = 0 THEN x.value ELSE a.front)
       /\ b.back = x.value
  BY DEF Add
<1> HIDE DEF own, more, x, b
<1>13. b.count = Cardinality(more) /\ b.total = TotalOf(interval, k + 1)
  BY <1>9, <1>10, <1>11, <1>12
<1>14. /\ \A i \in own : b.low <= samples[i].value
       /\ b.low <= x.value
       /\ b.low = x.value \/ \E i \in own : b.low = samples[i].value
  <2>1. /\ b.low \in Int /\ b.low <= x.value /\ b.low <= a.low
        /\ b.low = x.value \/ (b.low = a.low /\ a.low <= x.value)
    <3> DEFINE y == a.low
               z == x.value
    <3>1. y \in Int /\ z \in Int
      BY <1>2, <1>4
    <3>2. b.low = Lesser(y, z)
      BY <1>12
    <3> HIDE DEF y, z
    <3>3. /\ Lesser(y, z) \in Int /\ Lesser(y, z) <= y /\ Lesser(y, z) <= z
          /\ Lesser(y, z) = z \/ (Lesser(y, z) = y /\ y <= z)
          /\ Larger(y, z) \in Int /\ Larger(y, z) >= y /\ Larger(y, z) >= z
          /\ Larger(y, z) = z \/ Larger(y, z) = y
      BY <3>1, LesserAndLarger
    <3>4. /\ b.low \in Int /\ b.low <= z /\ b.low <= y
          /\ b.low = z \/ (b.low = y /\ y <= z)
      BY ONLY <3>2, <3>3
    <3>5. QED
      BY <3>4 DEF y, z
  <2>2. ASSUME NEW i \in own PROVE b.low <= samples[i].value
    <3>1. samples[i].value \in Int /\ a.low <= samples[i].value
      BY <1>2, <1>7, <1>11
    <3>2. QED
      BY <1>4, <2>1, <3>1
  <2>3. a.low = Greatest => ~(a.low <= x.value)
    BY <1>2
  <2>4. QED
    BY <1>11, <2>1, <2>2, <2>3
<1>15. /\ \A i \in own : b.high >= samples[i].value
       /\ b.high >= x.value /\ b.high >= LeastPositive
       /\ b.high = x.value \/ b.high = LeastPositive
            \/ \E i \in own : b.high = samples[i].value
  <2>1. /\ b.high \in Int /\ b.high >= x.value /\ b.high >= a.high
        /\ b.high = x.value \/ b.high = a.high
    <3> DEFINE y == a.high
               z == x.value
    <3>1. y \in Int /\ z \in Int
      BY <1>2, <1>4
    <3>2. b.high = Larger(y, z)
      BY <1>12
    <3> HIDE DEF y, z
    <3>3. /\ Lesser(y, z) \in Int /\ Lesser(y, z) <= y /\ Lesser(y, z) <= z
          /\ Lesser(y, z) = z \/ (Lesser(y, z) = y /\ y <= z)
          /\ Larger(y, z) \in Int /\ Larger(y, z) >= y /\ Larger(y, z) >= z
          /\ Larger(y, z) = z \/ Larger(y, z) = y
      BY <3>1, LesserAndLarger
    <3>4. /\ b.high \in Int /\ b.high >= z /\ b.high >= y
          /\ b.high = z \/ b.high = y
      BY ONLY <3>2, <3>3
    <3>5. QED
      BY <3>4 DEF y, z
  <2>2. ASSUME NEW i \in own PROVE b.high >= samples[i].value
    <3>1. samples[i].value \in Int /\ a.high >= samples[i].value
      BY <1>2, <1>7, <1>11
    <3>2. QED
      BY <1>4, <2>1, <3>1
  <2>3. b.high >= LeastPositive
    BY <1>4, <1>11, <2>1 DEF LeastPositive
  <2>4. QED
    BY <1>11, <2>1, <2>2, <2>3
<1>16. samples[k + 1] = x
  BY DEF x
<1>17. ASSUME NEW i \in more, \A j \in more : i <= j
       PROVE  b.front = samples[i].value
  <2>1. CASE own = {}
    <3>1. i = k + 1 /\ a.count = 0
      BY <1>6, <1>8, <1>11, <1>17, <2>1
    <3>2. QED
      BY <1>12, <1>16, <3>1
  <2>2. CASE own # {}
    <3>1. PICK j \in own : TRUE
      BY <2>2
    <3>2. i <= j /\ j \in 1..k
      BY <1>6, <1>17, <3>1
    <3>3. i \in own
      BY <1>6, <1>17, <3>2
    <3>4. a.front = samples[i].value
      BY <1>6, <1>11, <1>17, <3>3
    <3>5. a.count # 0
      BY <1>8, <1>11, <2>2
    <3>6. QED
      BY <1>12, <3>4, <3>5
  <2>3. QED
    BY <2>1, <2>2
<1>18. ASSUME NEW i \in more, \A j \in more : j <= i
       PROVE  b.back = samples[i].value
  <2>1. i = k + 1
    BY <1>6, <1>18
  <2>2. QED
    BY <1>12, <1>16, <2>1
<1>19. /\ \A i \in more : b.low <= samples[i].value
       /\ b.low = Greatest \/ \E i \in more : b.low = samples[i].value
       /\ \A i \in more : b.high >= samples[i].value
       /\ b.high = LeastPositive \/ \E i \in more : b.high = samples[i].value
       /\ b.high >= LeastPositive
  BY <1>6, <1>14, <1>15, <1>16
<1>20. Captured(b, interval, k + 1)
  BY <1>5, <1>13, <1>17, <1>18, <1>19 DEF Captured, more
<1>21. QED
  BY <1>20 DEF b, x

\* So is a span of them.
LEMMA CaptureSpan ==
  ASSUME HistoryOK, NEW interval, NEW k \in Nat, NEW span \in Seq(Sample),
         k + Len(span) <= Len(samples),
         \A i \in 1..Len(span) : span[i] = samples[k + i] /\ IntervalAt(k + i) = interval,
         NEW a, Captured(a, interval, k)
  PROVE  Captured(Aggregate(a, span), interval, k + Len(span))
<1> DEFINE N == Len(span)
<1>1. a \in Aggregator /\ N \in Nat /\ Len(samples) \in Nat
  BY DEF Captured, HistoryOK
<1>2. PICK f \in [0..N -> Aggregator] : Captures(f, a, span) /\ Aggregate(a, span) = f[N]
  BY <1>1, AggregateCaptures
<1> DEFINE P == {n \in 0..N : Captured(f[n], interval, k + n)}
<1>3. 0 \in P
  <2>1. f[0] = a /\ k + 0 = k /\ 0 \in 0..N
    BY <1>1, <1>2 DEF Captures
  <2>2. QED
    BY <2>1
<1>4. ASSUME NEW n \in 1..N, n - 1 \in P PROVE n \in P
  <2> DEFINE m == k + (n - 1)
  <2>1. m \in Nat /\ m + 1 = k + n /\ m + 1 \in 1..Len(samples)
    BY <1>1
  <2>2. f[n] = Add(f[n - 1], span[n])
    BY <1>2 DEF Captures
  <2>3. span[n] = samples[m + 1] /\ IntervalAt(m + 1) = interval
    BY <2>1
  <2>4. Captured(f[n - 1], interval, m)
    BY <1>4
  <2> HIDE DEF m
  <2>5. Captured(Add(f[n - 1], samples[m + 1]), interval, m + 1)
    BY <2>1, <2>3, <2>4, CaptureNext
  <2>6. Captured(f[n], interval, k + n)
    BY <2>1, <2>2, <2>3, <2>5
  <2>7. n \in 0..N
    BY <1>1
  <2>8. QED
    BY <2>6, <2>7
<1>5. 0..N \subseteq P
  <2> HIDE DEF P, N
  <2>1. QED
    BY <1>1, <1>3, <1>4, UpTo
<1>6. N \in P
  <2> HIDE DEF P, N
  <2>1. N \in 0..N
    BY <1>1
  <2>2. QED
    BY <1>5, <2>1
<1>7. QED
  BY <1>2, <1>6

\* No sample to come is in an interval that is left.
LEMMA CapturedForGood ==
  ASSUME HistoryOK, NEW interval, NEW k \in 0..Len(samples), NEW a, Captured(a, interval, k),
         \A i \in 1..Len(samples) : i > k => IntervalAt(i) # interval
  PROVE  Captured(a, interval, Len(samples))
<1>1. Len(samples) \in Nat
  BY DEF HistoryOK
<1>2. OwnUpTo(interval, Len(samples)) = OwnUpTo(interval, k)
  BY <1>1 DEF OwnUpTo
<1>3. TotalOf(interval, Len(samples)) = TotalOf(interval, k)
  BY TotalStays
<1>4. QED
  BY <1>2, <1>3 DEF Captured

-----------------------------------------------------------------------------
(* Pages do not show: the samples Process takes for an interval are its own. *)

LEMMA RemainderIsUnique ==
  ASSUME NEW x \in Nat, NEW s \in Nat, s > 0, NEW q \in Nat, NEW r \in 0..(s - 1),
         x = s * q + r
  PROVE  x % s = r
<1>1. PICK p \in Nat : x = s * p + (x % s)
  BY Remainder
<1>2. x % s \in 0..(s - 1)
  BY Remainder
<1>3. p = q
  <2>1. ASSUME NEW u \in Nat, NEW v \in Nat, NEW m \in 0..(s - 1), NEW n \in 0..(s - 1),
               s * u + m = s * v + n, u < v
        PROVE  FALSE
    <3>1. PICK d \in Nat : v = u + 1 + d
      <4>1. v - u - 1 \in Nat /\ v = u + 1 + (v - u - 1)
        BY <2>1
      <4>2. QED
        BY <4>1
    <3>2. s * v = s * u + s + s * d
      BY <3>1
    <3>3. s * d \in Nat /\ s * u \in Nat
      OBVIOUS
    <3>4. QED
      BY <2>1, <3>2, <3>3
  <2>2. ~(p < q)
    BY <1>1, <1>2, <2>1
  <2>3. ~(q < p)
    BY <1>1, <1>2, <2>1
  <2>4. QED
    BY <2>2, <2>3
<1>4. s * q \in Nat
  OBVIOUS
<1>5. QED
  BY <1>1, <1>2, <1>3, <1>4

\* Whatever lies between the start of an interval and the next is in it.
LEMMA BetweenTheEnds ==
  ASSUME NEW t \in Nat, NEW u \in Nat, spacing \in Int, spacing # 0,
         u < GetAggregateInterval(t)[1] + Period,
         u >= GetAggregateInterval(t)[1] \/ (t < Origin /\ u < Origin)
  PROVE  GetAggregateInterval(u) = GetAggregateInterval(t)
<1>1. Origin \in Nat /\ Period \in Nat /\ Period > 0
  BY AggregationAssumption, PeriodIsPositive
<1>2. CASE u < Origin
  <2>1. t < Origin
    BY <1>1, <1>2, IntervalHolds
  <2>2. QED
    BY <1>2, <2>1 DEF GetAggregateInterval
<1>3. CASE u >= Origin
  <2> DEFINE start == GetAggregateInterval(t)[1]
             w == u - Origin
  <2>1. \E q \in Nat : start = Origin + Period * q
    <3>1. CASE t < Origin
      <4>1. start = Origin
        BY <3>1, IntervalHolds
      <4>2. start = Origin + Period * 0
        BY <1>1, <4>1
      <4>3. QED
        BY <4>2
    <3>2. CASE t >= Origin
      <4> DEFINE a == t - Origin
      <4>1. a \in Nat
        BY <1>1, <3>2
      <4>2. PICK q \in Nat : a = Period * q + (a % Period)
        BY <1>1, <4>1, Remainder
      <4>3. a % Period \in 0..(Period - 1) /\ Period * q \in Nat
        BY <1>1, <4>1, Remainder
      <4>4. start = t - (a % Period)
        BY <1>1, <3>2 DEF GetAggregateInterval
      <4> HIDE DEF start
      <4>5. start = Origin + Period * q
        BY <1>1, <4>2, <4>3, <4>4
      <4>6. QED
        BY <4>5
    <3>3. QED
      BY <1>1, <3>1, <3>2
  <2>2. PICK q \in Nat : start = Origin + Period * q
    BY <2>1
  <2>3. start <= u /\ u < start + Period /\ start \in Int
    <3>1. GetAggregateInterval(t) \in Int \X Int
      BY IntervalHolds
    <3>2. t < Origin => start = Origin
      BY IntervalHolds
    <3>3. QED
      BY <1>1, <1>3, <3>1, <3>2
  <2>4. Period * q \in Nat
    BY <1>1
  <2>5. w \in Nat /\ u - start \in 0..(Period - 1) /\ w = Period * q + (u - start)
    <3> HIDE DEF start
    <3>1. QED
      BY <1>1, <1>3, <2>2, <2>3, <2>4
  <2>6. w % Period = u - start
    BY <1>1, <2>5, RemainderIsUnique
  <2>7. GetAggregateInterval(u)[1] = u - (w % Period)
    BY <1>1, <1>3 DEF GetAggregateInterval
  <2>8. GetAggregateInterval(u)[1] = start
    <3> HIDE DEF start, w
    <3>1. QED
      BY <2>3, <2>6, <2>7
  <2>9. QED
    BY <2>8, StartTellsInterval
<1>4. QED
  BY <1>1, <1>2, <1>3

\* A set of numbers that has with each also those below begins at 1.
LEMMA CountIsPrefix ==
  ASSUME NEW N \in Nat, NEW D \in SUBSET (1..N),
         \A i \in D : \A j \in 1..N : j < i => j \in D
  PROVE  \A i \in 1..N : i <= Cardinality(D) => i \in D
<1> SUFFICES ASSUME NEW i \in 1..N, i <= Cardinality(D), i \notin D
             PROVE  FALSE
  OBVIOUS
<1>1. D \subseteq 1..(i - 1)
  <2>1. ASSUME NEW k \in D PROVE k \in 1..(i - 1)
    <3>1. k \in 1..N /\ ~(i < k) /\ k # i
      OBVIOUS
    <3>2. QED
      BY <3>1
  <2>2. QED
    BY <2>1
<1>2. i - 1 \in Nat /\ IsFiniteSet(1..(i - 1)) /\ Cardinality(1..(i - 1)) = i - 1
  <2>1. i - 1 \in Nat
    OBVIOUS
  <2>2. IsFiniteSet(1..(i - 1)) /\ Cardinality(1..(i - 1)) = IF 1 > i - 1 THEN 0 ELSE (i - 1) - 1 + 1
    BY <2>1, FS_Interval
  <2>3. QED
    BY <2>1, <2>2
<1>3. Cardinality(D) \in Nat /\ Cardinality(D) <= i - 1
  BY <1>1, <1>2, FS_Subset, FS_CardinalityType
<1>4. QED
  BY <1>2, <1>3

\* Without samples on borders, what a turn takes lies in one interval.
LEMMA TurnTakesItsOwn ==
  ASSUME HistoryOK, PagesOK, raw_span # <<>>, ~BorderIsShared,
         NEW i \in 1..Len(raw_span),
         i <= InInterval(raw_span, GetAggregateInterval(raw_span[1].time))
  PROVE  GetAggregateInterval(raw_span[i].time) = GetAggregateInterval(raw_span[1].time)
<1> DEFINE N == Len(raw_span)
           k == Taken
           t == raw_span[1].time
           u == raw_span[i].time
           h == GetAggregateInterval(t)
           D == IF forward THEN {j \in 1..N : raw_span[j].time <= h[2]}
                           ELSE {j \in 1..N : raw_span[j].time >= h[1]}
<1>1. /\ N \in Nat /\ 1 \in 1..N /\ raw_span \in Seq(Sample) /\ samples \in Seq(Sample)
      /\ Len(samples) \in Nat /\ Len(coming) \in Nat /\ k \in Nat
      /\ k = Len(samples) - Len(coming) - N /\ spacing \in Int /\ forward \in BOOLEAN
      /\ \A j \in 1..N : raw_span[j] = samples[k + j] /\ raw_span[j] \in Sample
  BY DEF HistoryOK, PagesOK, Taken
<1> HIDE DEF k
<1>2. \A j \in 1..N : raw_span[j].time \in Nat /\ k + j \in 1..Len(samples)
  BY <1>1, SamplesAreNumbers
<1>3. \A j, m \in 1..N : j < m => IF forward THEN raw_span[j].time < raw_span[m].time
                                             ELSE raw_span[j].time > raw_span[m].time
  <2>1. ASSUME NEW j \in 1..N, NEW m \in 1..N, j < m
        PROVE  IF forward THEN raw_span[j].time < raw_span[m].time
                          ELSE raw_span[j].time > raw_span[m].time
    <3>1. k + j \in 1..Len(samples) /\ k + m \in 1..Len(samples) /\ k + j < k + m
      BY <1>1, <1>2, <2>1
    <3>2. IF forward THEN samples[k + j].time < samples[k + m].time
                     ELSE samples[k + j].time > samples[k + m].time
      BY <3>1 DEF HistoryOK, Ordered
    <3>3. QED
      BY <1>1, <3>2
  <2>2. QED
    BY <2>1
<1>4. t \in Nat /\ u \in Nat
  BY <1>1, <1>2
<1>5. InInterval(raw_span, h) = Cardinality(D)
  BY DEF InInterval, UpperBound, ReverseUpperBound
<1>6. /\ h \in Int \X Int
      /\ spacing = 0 => h = <<t, t>>
      /\ spacing # 0 => /\ h[2] = h[1] + spacing
                        /\ t < h[1] + Period
                        /\ t >= Origin => h[1] <= t /\ h[1] >= Origin
                        /\ t < Origin => h[1] = Origin
  BY <1>1, <1>4, IntervalHolds
<1> HIDE DEF h
<1>7. \A j \in D : \A m \in 1..N : m < j => m \in D
  <2>1. h[1] \in Int /\ h[2] \in Int
    BY <1>6
  <2>2. ASSUME NEW j \in D, NEW m \in 1..N, m < j PROVE m \in D
    <3>1. j \in 1..N /\ raw_span[j].time \in Nat /\ raw_span[m].time \in Nat
      BY <1>2
    <3>2. IF forward THEN raw_span[m].time < raw_span[j].time
                     ELSE raw_span[m].time > raw_span[j].time
      BY <1>3, <2>2, <3>1
    <3>3. CASE forward
      BY <2>1, <3>1, <3>2, <3>3
    <3>4. CASE ~forward
      BY <2>1, <3>1, <3>2, <3>4
    <3>5. QED
      BY <3>3, <3>4
  <2>3. QED
    BY <2>2
<1>8. D \in SUBSET (1..N)
  OBVIOUS
<1>9. i \in D /\ 1 \in D
  <2>1. i <= Cardinality(D)
    BY <1>5 DEF h
  <2> HIDE DEF D
  <2>2. i \in D
    BY <1>1, <1>7, <1>8, <2>1, CountIsPrefix
  <2>3. i = 1 \/ 1 < i
    BY <1>1
  <2>4. QED
    BY <1>1, <1>7, <2>2, <2>3
<1>10. IF forward THEN u <= h[2] ELSE u >= h[1] /\ t >= h[1]
  BY <1>9
<1>11. i = 1 \/ (IF forward THEN t < u ELSE t > u)
  BY <1>1, <1>3
<1> HIDE DEF t, u, D
<1>12. CASE spacing = 0
  <2>1. h[1] = t /\ h[2] = t
    BY <1>6, <1>12
  <2>2. i = 1
    BY <1>4, <1>10, <1>11, <2>1
  <2>3. QED
    BY <2>2
<1>13. CASE spacing # 0
  <2>1. u < h[1] + Period
    <3>1. CASE forward /\ spacing > 0
      <4>1. samples[k + i].time # GetAggregateInterval(samples[k + 1].time)[2]
        BY <1>1, <1>2, <3>1 DEF BorderIsShared
      <4>2. u # h[2]
        BY <1>1, <4>1 DEF u, h, t
      <4>3. Period = spacing
        BY <1>1, <3>1, PeriodIsPositive
      <4>4. QED
        BY <1>4, <1>6, <1>10, <3>1, <4>2, <4>3
    <3>2. CASE forward /\ spacing < 0
      <4>1. Period \in Nat
        BY <1>1, <3>2, PeriodIsPositive
      <4>2. QED
        BY <1>1, <1>4, <1>6, <1>10, <3>2, <4>1
    <3>3. CASE ~forward
      <4>1. Period \in Nat
        BY <1>1, <1>13, PeriodIsPositive
      <4>2. QED
        BY <1>4, <1>6, <1>11, <1>13, <3>3, <4>1 DEF t, u
    <3>4. QED
      BY <1>1, <1>13, <3>1, <3>2, <3>3
  <2>2. u >= h[1] \/ (t < Origin /\ u < Origin)
    <3>1. Origin \in Nat
      BY AggregationAssumption
    <3>2. CASE forward
      <4>1. t <= u
        BY <1>4, <1>11, <3>2 DEF t, u
      <4>2. QED
        BY <1>4, <1>6, <1>13, <3>1, <4>1
    <3>3. CASE ~forward
      BY <1>10, <3>3
    <3>4. QED
      BY <3>2, <3>3
  <2>3. GetAggregateInterval(u) = GetAggregateInterval(t)
    BY <1>1, <1>4, <1>13, <2>1, <2>2, BetweenTheEnds DEF h
  <2>4. QED
    BY <2>3 DEF t, u
<1>14. QED
  BY <1>1, <1>12, <1>13

-----------------------------------------------------------------------------
(* Pages do not show: captured means what the reference says.              *)

LEMMA LeastIsMin ==
  ASSUME NEW S \in SUBSET Int, NEW m \in S, \A y \in S : m <= y
  PROVE  Min(S) = m
<1> DEFINE x == Min(S)
<1>1. x \in S /\ \A y \in S : x <= y
  BY DEF Min
<1> HIDE DEF x
<1>2. x \in Int /\ m \in Int /\ x <= m /\ m <= x
  BY <1>1
<1>3. x = m
  BY ONLY <1>2
<1>4. QED
  BY <1>3 DEF x

LEMMA GreatestIsMax ==
  ASSUME NEW S \in SUBSET Int, NEW m \in S, \A y \in S : m >= y
  PROVE  Max(S) = m
<1> DEFINE x == Max(S)
<1>1. x \in S /\ \A y \in S : x >= y
  BY DEF Max
<1> HIDE DEF x
<1>2. x \in Int /\ m \in Int /\ x >= m /\ m >= x
  BY <1>1
<1>3. x = m
  BY ONLY <1>2
<1>4. QED
  BY <1>3 DEF x

\* The sample of a set that comes first, or last, in the history.
LEMMA FirstOfOwn ==
  ASSUME NEW S \in SUBSET Nat, S # {}
  PROVE  \E i \in S : \A j \in S : i <= j
BY LeastElement

LEMMA LastOfOwn ==
  ASSUME NEW n \in Nat, NEW S \in SUBSET (1..n), S # {}
  PROVE  \E i \in S : \A j \in S : j <= i
<1> DEFINE T == {n - y : y \in S}
<1>1. T \in SUBSET Nat /\ T # {}
  <2>1. \A y \in S : n - y \in Nat
    OBVIOUS
  <2>2. QED
    BY <2>1
<1>2. PICK m \in T : \A y \in T : m <= y
  BY <1>1, LeastElement
<1>3. PICK i \in S : m = n - i
  BY <1>2
<1>4. ASSUME NEW j \in S PROVE j <= i
  <2>1. n - j \in T /\ j \in Nat /\ i \in Nat
    OBVIOUS
  <2>2. n - i <= n - j
    BY <1>2, <1>3, <2>1
  <2>3. QED
    BY <2>1, <2>2
<1>5. QED
  BY <1>4

\* The value told, but for a maximum that is not positive, is the reference.
AsReferred(told, due) ==
    IF due.high > 0 THEN told = due ELSE told = [due EXCEPT !.high = LeastPositive]

LEMMA CapturedAsReferred ==
  ASSUME HistoryOK, NEW interval, NEW a, Captured(a, interval, Len(samples)),
         Own(interval) # {}
  PROVE  AsReferred(ResultOf(a, interval), Reference(interval))
<1> DEFINE N == Len(samples)
           own == Own(interval)
           values == {samples[i].value : i \in own}
           times == {samples[i].time : i \in own}
           At(t) == samples[CHOOSE i \in own : samples[i].time = t].value
           due == Reference(interval)
<1>1. N \in Nat /\ (\A i \in 1..N : samples[i] \in Sample) /\ forward \in BOOLEAN
  BY DEF HistoryOK
<1>2. own = OwnUpTo(interval, N) /\ own \subseteq 1..N
  BY DEF Own, OwnUpTo, IntervalAt
<1>3. \A i \in 1..N : /\ samples[i].time \in Nat /\ samples[i].value \in Int
                      /\ samples[i].value \in Values
  BY <1>1, SamplesAreNumbers
<1>4. due = [interval |-> interval, count |-> Cardinality(own),
             total |-> TotalOf(interval, N), low |-> Min(values), high |-> Max(values),
             start |-> At(Min(times)), end |-> At(Max(times))]
  BY DEF Reference
<1> HIDE DEF own, due
<1>5. /\ a \in Aggregator
      /\ a.count = Cardinality(own)
      /\ a.total = TotalOf(interval, N)
      /\ \A i \in own : a.low <= samples[i].value
      /\ a.low = Greatest \/ \E i \in own : a.low = samples[i].value
      /\ \A i \in own : a.high >= samples[i].value
      /\ a.high = LeastPositive \/ \E i \in own : a.high = samples[i].value
      /\ a.high >= LeastPositive
      /\ \A i \in own : (\A j \in own : i <= j) => a.front = samples[i].value
      /\ \A i \in own : (\A j \in own : j <= i) => a.back = samples[i].value
  BY <1>2 DEF Captured
<1>6. a.low \in Int /\ a.high \in Int
  BY <1>5 DEF Aggregator
<1>7. values \in SUBSET Int /\ values # {} /\ times \in SUBSET Nat
  BY <1>2, <1>3 DEF own
<1>8. Min(values) = a.low
  <2>1. PICK i \in own : TRUE
    BY DEF own
  <2>2. samples[i].value < Greatest /\ a.low <= samples[i].value /\ samples[i].value \in Int
    BY <1>2, <1>3, <1>5, GreatestIsGreatest
  <2>3. a.low # Greatest
    BY <1>6, <2>2, GreatestIsGreatest
  <2>4. a.low \in values /\ \A y \in values : a.low <= y
    BY <1>5, <2>3
  <2> HIDE DEF values
  <2>5. QED
    BY <1>7, <2>4, LeastIsMin
<1>9. /\ Max(values) > 0 => a.high = Max(values)
      /\ ~(Max(values) > 0) => a.high = LeastPositive
  <2>1. PICK g \in own : \A i \in own : samples[g].value >= samples[i].value
    <3> DEFINE Reach(i) == {j \in own : samples[j].value >= samples[i].value}
    <3>1. CASE a.high # LeastPositive
      BY <1>5, <3>1
    <3>2. CASE a.high = LeastPositive
      \* The values of a finite set of samples have a greatest.
      <4>1. \A v \in values : v <= 1
        BY <1>5, <3>2 DEF LeastPositive
      <4> DEFINE S == {1 - v : v \in values}
      <4>2. S \in SUBSET Nat /\ S # {}
        <5>1. ASSUME NEW v \in values PROVE 1 - v \in Nat
          <6>1. v \in Int /\ v <= 1
            BY <1>7, <4>1
          <6>2. QED
            BY <6>1
        <5>2. QED
          BY <1>7, <5>1
      <4>3. PICK m \in S : \A y \in S : m <= y
        BY <4>2, LeastElement
      <4>4. PICK g \in own : m = 1 - samples[g].value
        BY <4>3
      <4>5. ASSUME NEW i \in own PROVE samples[g].value >= samples[i].value
        <5>1. 1 - samples[i].value \in S
          OBVIOUS
        <5>2. 1 - samples[g].value <= 1 - samples[i].value
          BY <4>3, <4>4, <5>1
        <5>3. samples[i].value \in Int /\ samples[g].value \in Int
          BY <1>2, <1>3
        <5>4. QED
          BY <5>2, <5>3
      <4>6. QED
        BY <4>5
    <3>3. QED
      BY <3>1, <3>2
  <2> DEFINE v == samples[g].value
  <2>2. v \in values /\ (\A y \in values : v >= y) /\ v \in Values /\ v \in Int
    BY <1>2, <1>3, <2>1
  <2>3. Max(values) = v
    <3> HIDE DEF values
    <3>1. QED
      BY <1>7, <2>2, GreatestIsMax
  <2>4. v % 2 = 0
    BY <2>2, AggregationAssumption
  <2>5. a.high >= v /\ a.high >= 1 /\ (a.high = 1 \/ a.high \in values)
    BY <1>5 DEF LeastPositive
  <2> HIDE DEF values, v
  <2>6. v # 1
    BY <2>4
  <2>7. a.high = 1 \/ a.high = v
    BY <1>6, <2>2, <2>5
  <2>8. QED
    BY <1>6, <2>2, <2>3, <2>5, <2>6, <2>7 DEF LeastPositive
<1>10. \A i \in own : At(samples[i].time) = samples[i].value
  <2>1. ASSUME NEW i \in own, NEW j \in own, samples[j].time = samples[i].time
        PROVE  j = i
    <3>1. i \in 1..N /\ j \in 1..N /\ samples[i].time \in Nat
      BY <1>2, <1>3
    <3>2. ~(i < j) /\ ~(j < i)
      BY <1>3, <2>1, <3>1 DEF HistoryOK, Ordered
    <3>3. QED
      BY <3>1, <3>2
  <2>2. ASSUME NEW i \in own PROVE At(samples[i].time) = samples[i].value
    <3> DEFINE c == CHOOSE j \in own : samples[j].time = samples[i].time
    <3>1. c \in own /\ samples[c].time = samples[i].time
      OBVIOUS
    <3>2. c = i
      <4> HIDE DEF c
      <4>1. QED
        BY <2>1, <3>1
    <3>3. QED
      BY <3>2
  <2>3. QED
    BY <2>2
<1>11. PICK p \in own : \A j \in own : p <= j
  <2>1. own \in SUBSET Nat /\ own # {}
    BY <1>2 DEF own
  <2>2. QED
    BY <2>1, FirstOfOwn
<1>12. PICK q \in own : \A j \in own : j <= q
  <2>1. own \in SUBSET (1..N) /\ own # {}
    BY <1>2 DEF own
  <2> HIDE DEF N
  <2>2. QED
    BY <1>1, <2>1, LastOfOwn
<1>13. a.front = samples[p].value /\ a.back = samples[q].value
  BY <1>5, <1>11, <1>12
<1>14. IF forward THEN /\ \A y \in times : samples[p].time <= y
                       /\ \A y \in times : samples[q].time >= y
                  ELSE /\ \A y \in times : samples[q].time <= y
                       /\ \A y \in times : samples[p].time >= y
  <2>1. ASSUME NEW i \in own, NEW j \in own, i <= j
        PROVE  IF forward THEN samples[i].time <= samples[j].time
                          ELSE samples[i].time >= samples[j].time
    <3>1. i \in 1..N /\ j \in 1..N /\ samples[i].time \in Nat /\ samples[j].time \in Nat
      BY <1>2, <1>3
    <3>2. CASE i = j
      BY <3>1, <3>2
    <3>3. CASE i < j
      <4>1. IF forward THEN samples[i].time < samples[j].time
                       ELSE samples[i].time > samples[j].time
        BY <1>2, <3>1, <3>3 DEF HistoryOK, Ordered
      <4>2. QED
        BY <3>1, <4>1
    <3>4. QED
      BY <2>1, <3>1, <3>2, <3>3
  <2>2. \A j \in own : IF forward THEN samples[p].time <= samples[j].time
                                  ELSE samples[p].time >= samples[j].time
    BY <1>11, <2>1
  <2>3. \A j \in own : IF forward THEN samples[j].time <= samples[q].time
                                  ELSE samples[j].time >= samples[q].time
    BY <1>12, <2>1
  <2>4. \A j \in own : samples[j].time \in Nat
    BY <1>2, <1>3
  <2>5. QED
    BY <1>1, <2>2, <2>3, <2>4
<1>15. samples[p].time \in times /\ samples[q].time \in times /\ times \in SUBSET Int
  BY <1>7
<1>16. IF forward THEN Min(times) = samples[p].time /\ Max(times) = samples[q].time
                  ELSE Min(times) = samples[q].time /\ Max(times) = samples[p].time
  <2> HIDE DEF times
  <2>1. CASE forward
    BY <1>14, <1>15, <2>1, LeastIsMin, GreatestIsMax
  <2>2. CASE ~forward
    BY <1>14, <1>15, <2>2, LeastIsMin, GreatestIsMax
  <2>3. QED
    BY <2>1, <2>2
<1>17. /\ At(Min(times)) = IF forward THEN a.front ELSE a.back
       /\ At(Max(times)) = IF forward THEN a.back ELSE a.front
  <2>1. At(samples[p].time) = a.front /\ At(samples[q].time) = a.back
    BY <1>10, <1>13
  <2> HIDE DEF At, times
  <2>2. QED
    BY <1>16, <2>1
<1> DEFINE told == ResultOf(a, interval)
<1>18. told = [interval |-> interval, count |-> a.count, total |-> a.total, low |-> a.low,
               high |-> a.high, start |-> IF forward THEN a.front ELSE a.back,
               end |-> IF forward THEN a.back ELSE a.front]
  BY DEF ResultOf
<1> DEFINE x == Max(values)
           s == At(Min(times))
           e == At(Max(times))
<1>19. due = [interval |-> interval, count |-> a.count, total |-> a.total, low |-> a.low,
              high |-> x, start |-> s, end |-> e]
  BY <1>4, <1>5, <1>8
<1> HIDE DEF x, s, e, told
<1>20. told = [interval |-> interval, count |-> a.count, total |-> a.total, low |-> a.low,
               high |-> a.high, start |-> s, end |-> e]
  BY <1>17, <1>18 DEF s, e
<1>21. CASE x > 0
  <2>1. a.high = x
    BY <1>9, <1>21 DEF x
  <2>2. told = due
    BY <1>19, <1>20, <2>1
  <2>3. due.high > 0
    BY <1>19, <1>21
  <2>4. QED
    BY <2>2, <2>3 DEF AsReferred, told, due
<1>22. CASE ~(x > 0)
  <2>1. a.high = LeastPositive
    BY <1>9, <1>22 DEF x
  <2>2. told = [due EXCEPT !.high = LeastPositive]
    BY <1>19, <1>20, <2>1
  <2>3. ~(due.high > 0)
    BY <1>19, <1>22
  <2>4. QED
    BY <2>2, <2>3 DEF AsReferred, told, due
<1>23. QED
  BY <1>21, <1>22

-----------------------------------------------------------------------------
(* Pages do not show: the inductive invariant.                             *)

\* What is told of an interval once no sample of it is left to come.
Settled(v) ==
    /\ v.interval \in {IntervalAt(i) : i \in 1..Len(samples)}
    /\ \E a \in Aggregator : /\ Captured(a, v.interval, Len(samples))
                             /\ v = ResultOf(a, v.interval)

\* The sum spelled out over what it is made of.
TotalAlong(s, own, last) ==
    LET upto[n \in 0..Len(s)] ==
            IF n = 0 THEN 0
            ELSE upto[n - 1] + (IF n \in own THEN s[n].value ELSE 0)
    IN  upto[last]

LEMMA InputKeepsTotals ==
  ASSUME UNCHANGED input, NEW interval, NEW k
  PROVE  TotalOf(interval, k)' = TotalOf(interval, k)
<1>1. samples' = samples /\ forward' = forward /\ spacing' = spacing
  BY DEF input
<1>2. Own(interval)' = Own(interval)
  BY <1>1 DEF Own, GetAggregateInterval, Period
<1>3. TotalOf(interval, k) = TotalAlong(samples, Own(interval), k)
  BY DEF TotalOf, TotalAlong
<1>4. TotalOf(interval, k)' = TotalAlong(samples', Own(interval)', k)
  BY DEF TotalOf, TotalAlong
<1>5. QED
  BY <1>1, <1>2, <1>3, <1>4

\* The input does not change, and so neither does what is captured of it.
LEMMA InputKeepsCaptured ==
  ASSUME UNCHANGED input, NEW a, NEW interval, NEW k
  PROVE  Captured(a, interval, k)' <=> Captured(a, interval, k)
<1>1. samples' = samples /\ forward' = forward /\ spacing' = spacing
  BY DEF input
<1>2. OwnUpTo(interval, k)' = OwnUpTo(interval, k)
  BY <1>1 DEF OwnUpTo, IntervalAt, GetAggregateInterval, Period
<1>3. TotalOf(interval, k)' = TotalOf(interval, k)
  BY InputKeepsTotals
<1>4. QED
  BY <1>1, <1>2, <1>3 DEF Captured

LEMMA InputKeepsSettled ==
  ASSUME UNCHANGED input, NEW v
  PROVE  Settled(v)' <=> Settled(v)
<1>1. samples' = samples /\ forward' = forward /\ spacing' = spacing
  BY DEF input
<1>2. {IntervalAt(i) : i \in 1..Len(samples)}' = {IntervalAt(i) : i \in 1..Len(samples)}
  BY <1>1 DEF IntervalAt, GetAggregateInterval, Period
<1>3. \A a, n : Captured(a, v.interval, n)' <=> Captured(a, v.interval, n)
  BY InputKeepsCaptured
<1>4. \A a : Captured(a, v.interval, Len(samples))' <=> Captured(a, v.interval, Len(samples))
  BY <1>1, <1>3
<1>5. \A a : ResultOf(a, v.interval)' = ResultOf(a, v.interval)
  BY <1>1 DEF ResultOf
<1>6. QED
  BY <1>2, <1>4, <1>5 DEF Settled

\* Of what Process takes without samples on borders: the aggregator at hand has captured
\* its interval as far as the read has come, what is told is settled, every sample taken
\* is in an interval told or at hand, and the end comes when all is taken.
PagingOK ==
    /\ aggregator_interval # NoInterval => Captured(aggregator, aggregator_interval, Taken)
    /\ \A i \in 1..Len(data_values) : Settled(data_values[i])
    /\ \A k \in 1..Taken : \E i \in 1..Len(AllTold) : AllTold[i].interval = IntervalAt(k)
    /\ outcome = "finished" => coming = <<>> /\ raw_span = <<>>

PagingInv == known /\ ~BorderIsShared => PagingOK

LEMMA InputKeepsBorders ==
  ASSUME UNCHANGED input
  PROVE  /\ (known /\ ~BorderIsShared)' <=> known /\ ~BorderIsShared
         /\ \A k : IntervalAt(k)' = IntervalAt(k)
<1>1. samples' = samples /\ forward' = forward /\ spacing' = spacing /\ known' = known
  BY DEF input
<1>2. \A t : GetAggregateInterval(t)' = GetAggregateInterval(t)
  BY <1>1 DEF GetAggregateInterval, Period
<1>3. BorderIsShared' <=> BorderIsShared
  BY <1>1, <1>2 DEF BorderIsShared
<1>4. \A k : IntervalAt(k)' = IntervalAt(k)
  BY <1>1, <1>2 DEF IntervalAt
<1>5. QED
  BY <1>1, <1>3, <1>4

\* The value at hand may be told once no sample of its interval is left to come.
LEMMA ToldIsSettled ==
  ASSUME AggregateInv, PagingOK, known,
         \A i \in 1..Len(samples) : i > Taken => IntervalAt(i) # aggregator_interval
  PROVE  \A i \in 1..Len(Told) : Settled(Told[i])
<1>1. HistoryOK /\ PagesOK /\ AtHandOK /\ data_values \in Seq(Value)
  BY DEF AggregateInv, ToldOK
<1>2. \A i \in 1..Len(data_values) : Settled(data_values[i])
  BY DEF PagingOK
<1>3. CASE aggregated_value = NoValue
  BY <1>2, <1>3 DEF Told
<1>4. CASE aggregated_value # NoValue
  <2>1. /\ aggregator_interval \in Visited /\ aggregator \in Aggregator
        /\ aggregated_value = ResultOf(aggregator, aggregator_interval)
    BY <1>1, <1>4 DEF AtHandOK
  <2>2. aggregator_interval \in Int \X Int
    BY <1>1, <2>1, VisitedAreIntervals
  <2>3. Captured(aggregator, aggregator_interval, Taken)
    BY <2>2, IntervalIsNoInterval DEF PagingOK
  <2>4. Taken \in 0..Len(samples) /\ \A i \in 1..Taken : i \in 1..Len(samples)
    <3>1. /\ Len(samples) \in Nat /\ Len(coming) \in Nat /\ Len(raw_span) \in Nat
          /\ Taken \in Nat /\ Taken = Len(samples) - Len(coming) - Len(raw_span)
      BY <1>1 DEF HistoryOK, PagesOK, Taken
    <3>2. QED
      BY <3>1
  <2>5. Captured(aggregator, aggregator_interval, Len(samples))
    BY <1>1, <2>3, <2>4, CapturedForGood
  <2>6. aggregated_value.interval = aggregator_interval
    BY <2>1, <2>2, ResultType
  <2>7. aggregator_interval \in {IntervalAt(i) : i \in 1..Len(samples)}
    BY <2>1, <2>4 DEF Visited
  <2>8. Settled(aggregated_value)
    BY <2>1, <2>5, <2>6, <2>7 DEF Settled
  <2>9. Told = Append(data_values, aggregated_value)
    BY <1>4 DEF Told
  <2>10. ASSUME NEW i \in 1..Len(Told) PROVE Settled(Told[i])
    <3>1. CASE i \in 1..Len(data_values)
      <4>1. Told[i] = data_values[i]
        BY <1>1, <2>9, <3>1
      <4>2. QED
        BY <1>2, <3>1, <4>1
    <3>2. CASE i \notin 1..Len(data_values)
      <4>1. Told[i] = aggregated_value
        BY <1>1, <2>9, <3>2
      <4>2. QED
        BY <2>8, <4>1
    <3>3. QED
      BY <3>1, <3>2
  <2>11. QED
    BY <2>10
<1>5. QED
  BY <1>3, <1>4

\* The span of one turn: the next samples of the history, all of the interval.
LEMMA SpanOfTurn ==
  ASSUME HistoryOK, PagesOK, raw_span # <<>>, ~BorderIsShared,
         NEW count \in 1..Len(raw_span),
         count = InInterval(raw_span, GetAggregateInterval(raw_span[1].time))
  PROVE  LET span == SubSeq(raw_span, 1, count) IN
         /\ span \in Seq(Sample) /\ Len(span) = count
         /\ Taken \in Nat /\ Taken + count <= Len(samples)
         /\ \A i \in 1..count : span[i] = samples[Taken + i]
         /\ \A i \in 1..count :
               IntervalAt(Taken + i) = GetAggregateInterval(raw_span[1].time)
<1> DEFINE span == SubSeq(raw_span, 1, count)
<1>1. /\ raw_span \in Seq(Sample) /\ Len(raw_span) \in Nat /\ count \in Nat
      /\ Len(samples) \in Nat /\ Len(coming) \in Nat /\ Taken \in Nat
      /\ Taken = Len(samples) - Len(coming) - Len(raw_span)
      /\ \A i \in 1..Len(raw_span) : raw_span[i] = samples[Taken + i]
  BY DEF HistoryOK, PagesOK, Taken
<1>2. /\ span \in Seq(Sample) /\ Len(span) = count
      /\ \A i \in 1..count : i \in 1..Len(raw_span) /\ i <= count /\ span[i] = raw_span[i]
  BY <1>1
<1>3. Taken + count <= Len(samples)
  BY <1>1
<1>4. ASSUME NEW i \in 1..count
      PROVE  IntervalAt(Taken + i) = GetAggregateInterval(raw_span[1].time)
  <2>1. i \in 1..Len(raw_span)
    BY <1>2
  <2>2. i <= InInterval(raw_span, GetAggregateInterval(raw_span[1].time))
    BY <1>2
  <2>3. GetAggregateInterval(raw_span[i].time) = GetAggregateInterval(raw_span[1].time)
    BY <2>1, <2>2, TurnTakesItsOwn
  <2>4. QED
    BY <1>1, <2>1, <2>3 DEF IntervalAt
<1>5. QED
  BY <1>1, <1>2, <1>3, <1>4

LEMMA ContinuePaging ==
  ASSUME AggregateInv, PagingOK, outcome = "reading", raw_span # <<>>, known, ~BorderIsShared,
         GetAggregateInterval(raw_span[1].time) = aggregator_interval,
         NEW count \in 1..Len(raw_span),
         count = InInterval(raw_span, GetAggregateInterval(raw_span[1].time)),
         Continue(count)
  PROVE  PagingOK'
<1> DEFINE span == SubSeq(raw_span, 1, count)
           a == Aggregate(aggregator, span)
           r == ResultOf(a, aggregator_interval)
           h == aggregator_interval
<1>1. HistoryOK /\ PagesOK /\ AtHandOK /\ ToldOK
  BY DEF AggregateInv
<1>2. /\ raw_span' = SubSeq(raw_span, count + 1, Len(raw_span))
      /\ UNCHANGED <<input, coming, aggregator_interval, data_values, outcome>>
      /\ aggregator' = a /\ aggregated_value' = r
  BY DEF Continue
<1>3. UNCHANGED input /\ Taken' = Taken + count
  BY <1>1, <1>2, TurnTakes
<1>4. h \in Int \X Int
  BY <1>1, NextSample
<1>5. /\ h \in Visited /\ aggregator \in Aggregator /\ aggregated_value = ResultOf(aggregator, h)
  BY <1>1, <1>4, IntervalIsNoInterval DEF AtHandOK
<1>6. /\ span \in Seq(Sample) /\ Len(span) = count
      /\ Taken \in Nat /\ Taken + count <= Len(samples)
      /\ \A i \in 1..count : span[i] = samples[Taken + i] /\ IntervalAt(Taken + i) = h
  BY <1>1, SpanOfTurn
<1> HIDE DEF span
<1>7. Captured(aggregator, h, Taken)
  BY <1>4, IntervalIsNoInterval DEF PagingOK
<1>8. Captured(a, h, Taken + count)
  BY <1>1, <1>6, <1>7, CaptureSpan
<1>9. a \in Aggregator
  BY <1>8 DEF Captured
<1> HIDE DEF a
<1>10. /\ r \in Value /\ r.interval = h /\ r # NoValue
       /\ aggregated_value.interval = h /\ aggregated_value # NoValue
  BY <1>4, <1>5, <1>9, ResultType, ResultIsNoNoValue
<1> HIDE DEF r
<1>11. AllTold = Append(data_values, aggregated_value) /\ AllTold' = Append(data_values, r)
  BY <1>2, <1>10 DEF AllTold
<1>12. data_values \in Seq(Value) /\ Len(data_values) \in Nat
  BY <1>1 DEF ToldOK
<1>13. ASSUME NEW k \in 1..Taken'
       PROVE  \E i \in 1..Len(AllTold') : AllTold'[i].interval = IntervalAt(k)
  <2>1. CASE k \in 1..Taken
    <3>1. PICK i \in 1..Len(AllTold) : AllTold[i].interval = IntervalAt(k)
      BY <2>1 DEF PagingOK
    <3>2. Len(AllTold') = Len(AllTold) /\ AllTold'[i].interval = AllTold[i].interval
      BY <1>10, <1>11, <1>12
    <3>3. QED
      BY <3>1, <3>2
  <2>2. CASE k \notin 1..Taken
    <3> DEFINE j == k - Taken
    <3>1. j \in 1..count /\ k = Taken + j
      BY <1>3, <1>6, <2>2
    <3>2. IntervalAt(k) = h
      BY <1>6, <3>1
    <3>3. AllTold'[Len(data_values) + 1] = r /\ Len(data_values) + 1 \in 1..Len(AllTold')
      BY <1>11, <1>12
    <3>4. QED
      BY <1>10, <3>2, <3>3
  <2>3. QED
    BY <2>1, <2>2
<1>14. Captured(aggregator, aggregator_interval, Taken)'
  <2>1. \A b, j, n : Captured(b, j, n)' <=> Captured(b, j, n)
    BY <1>3, InputKeepsCaptured
  <2>2. aggregator' = a /\ aggregator_interval' = h /\ Taken' = Taken + count
    BY <1>2, <1>3
  <2>3. QED
    BY <1>8, <2>1, <2>2
<1>15. (\A i \in 1..Len(data_values) : Settled(data_values[i]))'
  <2>1. \A i \in 1..Len(data_values) : Settled(data_values[i])
    BY DEF PagingOK
  <2>2. data_values' = data_values
    BY <1>2
  <2>3. QED
    BY <1>3, <2>1, <2>2, InputKeepsSettled
<1>16. (\A k \in 1..Taken : \E i \in 1..Len(AllTold) : AllTold[i].interval = IntervalAt(k))'
  BY <1>3, <1>13, InputKeepsBorders
<1>17. outcome' # "finished"
  BY <1>2
<1>18. QED
  BY <1>14, <1>15, <1>16, <1>17 DEF PagingOK

LEMMA StartPaging ==
  ASSUME AggregateInv, PagingOK, outcome = "reading", raw_span # <<>>, known, ~BorderIsShared,
         GetAggregateInterval(raw_span[1].time) # aggregator_interval,
         NEW count \in 1..Len(raw_span),
         count = InInterval(raw_span, GetAggregateInterval(raw_span[1].time)),
         StartInterval(GetAggregateInterval(raw_span[1].time), count)
  PROVE  PagingOK'
<1> DEFINE span == SubSeq(raw_span, 1, count)
           h == GetAggregateInterval(raw_span[1].time)
           a == Aggregate(MakeAggregator, span)
           r == ResultOf(a, h)
           T == Taken
           N == Len(samples)
<1>1. HistoryOK /\ PagesOK /\ AtHandOK /\ ToldOK
  BY DEF AggregateInv
<1>2. /\ raw_span' = SubSeq(raw_span, count + 1, Len(raw_span))
      /\ UNCHANGED <<input, coming, outcome>>
      /\ data_values' = Told /\ aggregator_interval' = h
      /\ aggregator' = a /\ aggregated_value' = r
  BY DEF StartInterval
<1>3. UNCHANGED input /\ Taken' = T + count
  BY <1>1, <1>2, TurnTakes
<1>4. /\ h = IntervalAt(T + 1) /\ h \in Int \X Int /\ T + 1 \in 1..N
      /\ \A v \in Visited : v = h \/ Before(v, h)
  BY <1>1, NextSample
<1>5. /\ AllTold = Told /\ Told \in Seq(Value)
      /\ \A i \in 1..Len(Told) : Before(Told[i].interval, h)
  BY NextIsAfterTold
<1>6. /\ span \in Seq(Sample) /\ Len(span) = count
      /\ T \in Nat /\ T + count <= N
      /\ \A i \in 1..count : span[i] = samples[T + i] /\ IntervalAt(T + i) = h
  BY <1>1, SpanOfTurn
<1>7. N \in Nat /\ T \in 0..N /\ \A i \in 1..T : IntervalAt(i) \in Visited
  <2>1. N \in Nat /\ T \in Nat /\ T + 1 \in 1..N
    BY <1>1, <1>4, <1>6 DEF HistoryOK
  <2>2. \A i \in 1..T : IntervalAt(i) \in Visited
    BY DEF Visited
  <2> HIDE DEF N, T
  <2>3. QED
    BY <2>1, <2>2
<1> HIDE DEF span, h, T, N
\* No sample taken is in the interval that begins.
<1>8. OwnUpTo(h, T) = {}
  <2>1. ASSUME NEW k \in 1..T, IntervalAt(k) = h PROVE FALSE
    <3>1. PICK i \in 1..Len(AllTold) : AllTold[i].interval = IntervalAt(k)
      BY DEF PagingOK, T
    <3>2. Before(h, h)
      BY <1>5, <2>1, <3>1
    <3>3. h[1] \in Int
      BY <1>4
    <3>4. QED
      BY <3>2, <3>3 DEF Before
  <2>2. QED
    BY <2>1 DEF OwnUpTo
<1>9. Captured(MakeAggregator, h, T)
  BY <1>1, <1>7, <1>8, NothingCaptured DEF N
<1>10. Captured(a, h, T + count)
  BY <1>1, <1>6, <1>9, CaptureSpan DEF N
<1>11. a \in Aggregator
  BY <1>10 DEF Captured
<1> HIDE DEF a
<1>12. r \in Value /\ r.interval = h /\ r # NoValue
  BY <1>4, <1>11, ResultType, ResultIsNoNoValue
<1> HIDE DEF r
\* No sample to come is in the interval that is left.
<1>13. ASSUME NEW i \in 1..N, i > T PROVE IntervalAt(i) # aggregator_interval
  <2>1. CASE aggregator_interval \in Visited
    <3>1. aggregator_interval \in Int \X Int
      BY <1>1, <2>1, VisitedAreIntervals
    <3>2. Before(aggregator_interval, h)
      BY <1>4, <2>1 DEF h
    <3>3. IntervalAt(i) = h \/ Before(h, IntervalAt(i))
      <4>1. CASE i = T + 1
        BY <1>4, <4>1
      <4>2. CASE i # T + 1
        <5>1. T + 1 < i
          BY <1>7, <1>13, <4>2
        <5>2. QED
          BY <1>1, <1>4, <5>1, IntervalsFollowSamples DEF N
      <4>3. QED
        BY <4>1, <4>2
    <3> DEFINE g == aggregator_interval
               j == IntervalAt(i)
    <3> HIDE DEF g, j
    <3>4. g \in Int \X Int /\ Before(g, h) /\ (j = h \/ Before(h, j))
      BY <3>1, <3>2, <3>3 DEF g, j
    <3>5. j # g
      <4>1. g[1] \in Int /\ h[1] \in Int
        BY <1>4, <3>4
      <4>2. QED
        BY ONLY <3>4, <4>1 DEF Before
    <3>6. QED
      BY <3>5 DEF g, j
  <2>2. CASE aggregator_interval \notin Visited
    <3>1. aggregator_interval = NoInterval
      BY <1>1, <2>2 DEF AtHandOK
    <3>2. IntervalAt(i) \in Int \X Int
      <4>1. CASE i = T + 1
        BY <1>4, <4>1
      <4>2. CASE i # T + 1
        <5>1. T + 1 < i
          BY <1>7, <1>13, <4>2
        <5>2. QED
          BY <1>1, <1>4, <5>1, IntervalsFollowSamples DEF N
      <4>3. QED
        BY <4>1, <4>2
    <3>3. QED
      BY <3>1, <3>2, IntervalIsNoInterval
  <2>3. QED
    BY <2>1, <2>2
<1>14. \A i \in 1..Len(Told) : Settled(Told[i])
  BY <1>13, ToldIsSettled DEF N, T
<1>15. AllTold' = Append(Told, r)
  BY <1>2, <1>12 DEF AllTold
<1>16. ASSUME NEW k \in 1..Taken'
       PROVE  \E i \in 1..Len(AllTold') : AllTold'[i].interval = IntervalAt(k)
  <2>1. CASE k \in 1..T
    <3>1. PICK i \in 1..Len(Told) : Told[i].interval = IntervalAt(k)
      BY <1>5, <2>1 DEF PagingOK, T
    <3>2. i \in 1..Len(AllTold') /\ AllTold'[i] = Told[i]
      BY <1>5, <1>15
    <3>3. QED
      BY <3>1, <3>2
  <2>2. CASE k \notin 1..T
    <3> DEFINE j == k - T
    <3>1. j \in 1..count /\ k = T + j
      <4>1. count \in Nat /\ T \in Nat /\ k \in 1..(T + count)
        BY <1>3, <1>6
      <4>2. QED
        BY <2>2, <4>1
    <3>2. IntervalAt(k) = h
      BY <1>6, <3>1
    <3>3. AllTold'[Len(Told) + 1] = r /\ Len(Told) + 1 \in 1..Len(AllTold')
      BY <1>5, <1>15
    <3>4. QED
      BY <1>12, <3>2, <3>3
  <2>3. QED
    BY <2>1, <2>2
<1>17. Captured(aggregator, aggregator_interval, Taken)'
  <2>1. \A b, j, n : Captured(b, j, n)' <=> Captured(b, j, n)
    BY <1>3, InputKeepsCaptured
  <2>2. aggregator' = a /\ aggregator_interval' = h /\ Taken' = T + count
    BY <1>2, <1>3
  <2>3. QED
    BY <1>10, <2>1, <2>2
<1>18. (\A i \in 1..Len(data_values) : Settled(data_values[i]))'
  <2>1. \A v : Settled(v)' <=> Settled(v)
    BY <1>3, InputKeepsSettled
  <2>2. data_values' = Told
    BY <1>2
  <2>3. QED
    BY <1>14, <2>1, <2>2
<1>19. (\A k \in 1..Taken : \E i \in 1..Len(AllTold) : AllTold[i].interval = IntervalAt(k))'
  BY <1>3, <1>16, InputKeepsBorders
<1>20. outcome' # "finished"
  BY <1>2
<1>21. QED
  BY <1>17, <1>18, <1>19, <1>20 DEF PagingOK

\* Nothing that is captured or told changes, but for the place of samples in pages.
LEMMA RestPaging ==
  ASSUME PagingOK, UNCHANGED <<input, state>>, Taken' = Taken,
         outcome' # "finished", outcome # "finished"
  PROVE  PagingOK'
<1>1. UNCHANGED <<aggregator_interval, aggregator, aggregated_value, data_values>>
  BY DEF state
<1>2. AllTold' = AllTold
  BY <1>1 DEF AllTold
<1>3. UNCHANGED input
  OBVIOUS
<1>4. Captured(aggregator, aggregator_interval, Taken)'
         <=> Captured(aggregator, aggregator_interval, Taken)
  <2>1. \A b, j, n : Captured(b, j, n)' <=> Captured(b, j, n)
    BY <1>3, InputKeepsCaptured
  <2>2. QED
    BY <1>1, <2>1
<1>5. (\A i \in 1..Len(data_values) : Settled(data_values[i]))'
  <2>1. \A v : Settled(v)' <=> Settled(v)
    BY <1>3, InputKeepsSettled
  <2>2. QED
    BY <1>1, <2>1 DEF PagingOK
<1>6. (\A k \in 1..Taken : \E i \in 1..Len(AllTold) : AllTold[i].interval = IntervalAt(k))'
  <2>1. \A k : IntervalAt(k)' = IntervalAt(k)
    BY <1>3, InputKeepsBorders
  <2>2. QED
    BY <1>2, <2>1 DEF PagingOK
<1>7. QED
  BY <1>1, <1>4, <1>5, <1>6 DEF PagingOK

\* In the end all samples are taken, and so the value at hand is settled.
LEMMA FinishPaging ==
  ASSUME AggregateInv, PagingOK, known, Finish
  PROVE  PagingOK'
<1>1. HistoryOK /\ PagesOK
  BY DEF AggregateInv
<1>2. /\ outcome = "reading" /\ outcome' = "finished" /\ data_values' = Told
      /\ raw_span = <<>> /\ coming = <<>>
      /\ UNCHANGED <<input, coming, raw_span, aggregator_interval, aggregator,
                     aggregated_value>>
  BY DEF Finish
<1>3. UNCHANGED <<input, samples, coming, raw_span, aggregator_interval, aggregator>>
  BY <1>2 DEF input
<1>4. Taken' = Taken
  BY <1>3 DEF Taken
<1>5. \A i \in 1..Len(samples) : i > Taken => IntervalAt(i) # aggregator_interval
  <2>1. Len(samples) \in Nat /\ Taken = Len(samples) - 0 - 0
    BY <1>1, <1>2 DEF HistoryOK, Taken
  <2>2. QED
    BY <2>1
<1>6. \A i \in 1..Len(Told) : Settled(Told[i])
  BY <1>5, ToldIsSettled
<1>7. AllTold = Told /\ AllTold' = Told
  BY <1>2 DEF AllTold, Told
<1>8. (\A i \in 1..Len(data_values) : Settled(data_values[i]))'
  <2>1. \A v : Settled(v)' <=> Settled(v)
    BY <1>3, InputKeepsSettled
  <2>2. QED
    BY <1>2, <1>6, <2>1
<1>9. (aggregator_interval # NoInterval => Captured(aggregator, aggregator_interval, Taken))'
  <2>1. \A b, j, n : Captured(b, j, n)' <=> Captured(b, j, n)
    BY <1>3, InputKeepsCaptured
  <2>2. QED
    BY <1>3, <1>4, <2>1 DEF PagingOK
<1>10. (\A k \in 1..Taken : \E i \in 1..Len(AllTold) : AllTold[i].interval = IntervalAt(k))'
  <2>1. \A k : IntervalAt(k)' = IntervalAt(k)
    BY <1>3, InputKeepsBorders
  <2>2. QED
    BY <1>4, <1>7, <2>1 DEF PagingOK
<1>11. (coming = <<>> /\ raw_span = <<>>)'
  BY <1>2
<1>12. QED
  BY <1>8, <1>9, <1>10, <1>11 DEF PagingOK

LEMMA PagingInitInv == Init => PagingInv
<1> SUFFICES ASSUME Init PROVE PagingInv
  OBVIOUS
<1>1. HistoryOK
  BY AggregateInitInv DEF AggregateInv
<1>2. /\ coming = samples /\ raw_span = <<>> /\ data_values = <<>>
      /\ aggregator_interval = NoInterval /\ outcome = "reading"
  BY DEF Init
<1>3. Taken = 0
  <2>1. Len(samples) \in Nat /\ Len(coming) = Len(samples) /\ Len(raw_span) = 0
    BY <1>1, <1>2 DEF HistoryOK
  <2>2. QED
    BY <2>1 DEF Taken
<1>4. QED
  BY <1>2, <1>3 DEF PagingInv, PagingOK

LEMMA ProcessPaging ==
  ASSUME AggregateInv, PagingOK, known, ~BorderIsShared, Process
  PROVE  PagingOK'
<1> DEFINE interval == GetAggregateInterval(raw_span[1].time)
           count == InInterval(raw_span, interval)
<1>1. /\ outcome = "reading" /\ raw_span # <<>>
      /\ \/ count = 0 /\ BreakDown("check failed")
         \/ count > 0 /\ interval # aggregator_interval /\ known /\ StartInterval(interval, count)
         \/ count > 0 /\ interval # aggregator_interval /\ ~known /\ StartNothing(interval)
         \/ count > 0 /\ interval = aggregator_interval /\ known /\ Continue(count)
         \/ count > 0 /\ interval = aggregator_interval /\ ~known /\ BreakDown("bad call")
  BY DEF Process
<1>2. HistoryOK /\ PagesOK
  BY DEF AggregateInv
<1>3. raw_span \in Seq(Sample) /\ spacing \in Int /\ forward \in BOOLEAN
  BY <1>2 DEF HistoryOK, PagesOK
<1>4. count \in 0..Len(raw_span)
  BY <1>1, <1>3, CountOfSpan
<1>5. count > 0 => count \in 1..Len(raw_span)
  BY <1>3, <1>4
<1> DEFINE n == count
<1>6. n = InInterval(raw_span, GetAggregateInterval(raw_span[1].time))
  OBVIOUS
<1> HIDE DEF n
<1>7. CASE count = 0 /\ BreakDown("check failed")
  <2>1. outcome' = "check failed" /\ UNCHANGED <<input, coming, raw_span, state>>
    BY <1>7 DEF BreakDown
  <2>2. UNCHANGED <<samples, coming, raw_span>>
    BY <2>1 DEF input
  <2>3. Taken' = Taken
    BY <2>2 DEF Taken
  <2>4. UNCHANGED <<input, state>> /\ outcome' # "finished" /\ outcome # "finished"
    BY <1>1, <2>1
  <2>5. QED
    BY <2>3, <2>4, RestPaging
<1>8. CASE n > 0 /\ interval # aggregator_interval /\ StartInterval(interval, n)
  <2>1. n \in 1..Len(raw_span)
    BY <1>5, <1>8 DEF n
  <2>2. QED
    BY <1>1, <1>6, <1>8, <2>1, StartPaging
<1>9. CASE n > 0 /\ interval = aggregator_interval /\ Continue(n)
  <2>1. n \in 1..Len(raw_span)
    BY <1>5, <1>9 DEF n
  <2>2. QED
    BY <1>1, <1>6, <1>9, <2>1, ContinuePaging
<1>10. QED
  BY <1>1, <1>7, <1>8, <1>9 DEF n

LEMMA PagingNextInv == AggregateInv /\ PagingInv /\ [Next]_vars => PagingInv'
<1> SUFFICES ASSUME AggregateInv, PagingInv, [Next]_vars, (known /\ ~BorderIsShared)'
             PROVE  PagingOK'
  BY DEF PagingInv
<1>1. UNCHANGED input
  BY DEF Next, ReadPage, Process, BreakDown, Continue, StartInterval, StartNothing, Finish, vars
<1>2. known /\ ~BorderIsShared /\ PagingOK
  BY <1>1, InputKeepsBorders DEF PagingInv
<1>3. CASE \E n \in 1..MaxSamples : ReadPage(n)
  <2>1. PICK n \in 1..MaxSamples : ReadPage(n)
    BY <1>3
  <2>2. /\ outcome = "reading" /\ raw_span = <<>> /\ n \in 1..Len(coming)
        /\ raw_span' = SubSeq(coming, 1, n)
        /\ coming' = SubSeq(coming, n + 1, Len(coming))
        /\ UNCHANGED <<input, state, outcome>>
    BY <2>1 DEF ReadPage
  <2>3. Taken' = Taken
    <3>1. /\ coming \in Seq(Sample) /\ Len(coming) \in Nat /\ Len(samples) \in Nat
          /\ samples' = samples
      BY <2>2 DEF AggregateInv, HistoryOK, PagesOK, input
    <3>2. Len(raw_span') = n /\ Len(coming') = Len(coming) - n /\ Len(raw_span) = 0
      BY <2>2, <3>1
    <3>3. n \in Nat
      OBVIOUS
    <3>4. QED
      BY <3>1, <3>2, <3>3 DEF Taken
  <2>4. QED
    BY <1>2, <2>2, <2>3, RestPaging
<1>4. CASE Process
  BY <1>2, <1>4, ProcessPaging
<1>5. CASE Finish
  BY <1>2, <1>5, FinishPaging
<1>6. CASE UNCHANGED vars
  <2>1. UNCHANGED <<samples, coming, raw_span, state, outcome, aggregator_interval,
                    aggregator, aggregated_value, data_values>>
    BY <1>6 DEF vars, input, state
  <2>2. Taken' = Taken
    BY <2>1 DEF Taken
  <2>3. CASE outcome # "finished"
    <3>1. UNCHANGED <<input, state>> /\ outcome' = outcome
      BY <1>6 DEF vars
    <3>2. QED
      BY <1>2, <2>2, <2>3, <3>1, RestPaging
  <2>4. CASE outcome = "finished"
    <3>1. AllTold' = AllTold
      BY <2>1 DEF AllTold
    <3>2. /\ \A b, j, n : Captured(b, j, n)' <=> Captured(b, j, n)
          /\ \A v : Settled(v)' <=> Settled(v)
          /\ \A k : IntervalAt(k)' = IntervalAt(k)
      BY <1>1, InputKeepsCaptured, InputKeepsSettled, InputKeepsBorders
    <3>3. (aggregator_interval # NoInterval
              => Captured(aggregator, aggregator_interval, Taken))'
      BY <1>2, <2>1, <2>2, <3>2 DEF PagingOK
    <3>4. (\A i \in 1..Len(data_values) : Settled(data_values[i]))'
      BY <1>2, <2>1, <3>2 DEF PagingOK
    <3>5. (\A k \in 1..Taken : \E i \in 1..Len(AllTold) : AllTold[i].interval = IntervalAt(k))'
      BY <1>2, <2>2, <3>1, <3>2 DEF PagingOK
    <3>6. (outcome = "finished" => coming = <<>> /\ raw_span = <<>>)'
      BY <1>2, <2>1 DEF PagingOK
    <3>7. QED
      BY <3>3, <3>4, <3>5, <3>6 DEF PagingOK
  <2>5. QED
    BY <2>3, <2>4
<1>7. QED
  BY <1>3, <1>4, <1>5, <1>6 DEF Next

\* Once the caller has no more pages, the values told are those of the intervals, each
\* made of the samples in it, however Process met them.
THEOREM PagesDoNotShow == Spec => []PagingDoesNotShow
<1>1. Spec => [](AggregateInv /\ PagingInv)
  <2>1. Init => AggregateInv /\ PagingInv
    BY AggregateInitInv, PagingInitInv
  <2>2. AggregateInv /\ PagingInv /\ [Next]_vars => (AggregateInv /\ PagingInv)'
    BY AggregateNextInv, PagingNextInv
  <2>3. QED
    BY <2>1, <2>2, PTL DEF Spec
<1>2. AggregateInv /\ PagingInv => PagingDoesNotShow
  <2> SUFFICES ASSUME AggregateInv, PagingInv, outcome = "finished", known, ~BorderIsShared
               PROVE  /\ {data_values[i].interval : i \in 1..Len(data_values)}
                            = {GetAggregateInterval(samples[i].time) : i \in 1..Len(samples)}
                      /\ \A i \in 1..Len(data_values) :
                            AsReferred(data_values[i], Reference(data_values[i].interval))
    BY DEF PagingDoesNotShow, AsReferred
  <2>1. PagingOK /\ coming = <<>> /\ raw_span = <<>> /\ HistoryOK
    BY DEF PagingInv, PagingOK, AggregateInv
  <2>2. Taken = Len(samples) /\ Len(samples) \in Nat
    <3>1. Len(samples) \in Nat /\ Len(coming) = 0 /\ Len(raw_span) = 0
      BY <2>1 DEF HistoryOK
    <3>2. QED
      BY <3>1 DEF Taken
  <2>3. \A i \in 1..Len(data_values) : Settled(data_values[i])
    BY <2>1 DEF PagingOK
  <2>4. \A k \in 1..Len(samples) :
           \E i \in 1..Len(data_values) : data_values[i].interval = IntervalAt(k)
    BY <2>1, <2>2 DEF PagingOK, AllTold
  <2>5. {data_values[i].interval : i \in 1..Len(data_values)}
           = {IntervalAt(i) : i \in 1..Len(samples)}
    BY <2>3, <2>4 DEF Settled
  <2>6. ASSUME NEW i \in 1..Len(data_values)
        PROVE  AsReferred(data_values[i], Reference(data_values[i].interval))
    <3> DEFINE v == data_values[i]
    <3>1. Settled(v)
      BY <2>3
    <3> HIDE DEF v
    <3>2. PICK a \in Aggregator : /\ Captured(a, v.interval, Len(samples))
                                  /\ v = ResultOf(a, v.interval)
      BY <3>1 DEF Settled
    <3>3. PICK k \in 1..Len(samples) : v.interval = IntervalAt(k)
      BY <3>1 DEF Settled
    <3>4. k \in Own(v.interval)
      BY <3>3 DEF Own, IntervalAt
    <3>5. AsReferred(ResultOf(a, v.interval), Reference(v.interval))
      BY <2>1, <3>2, <3>4, CapturedAsReferred
    <3>6. QED
      BY <3>2, <3>5 DEF v
  <2>7. QED
    BY <2>5, <2>6 DEF IntervalAt
<1>3. QED
  BY <1>1, <1>2, PTL
=============================================================================
