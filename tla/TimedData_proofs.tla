------------------------- MODULE TimedData_proofs ---------------------------
(* Proofs about the time series.                                             *)
EXTENDS TimedData, FiniteSetTheorems, WellFoundedInduction, TLAPS

\* What every step that looks for a gap leaves: a query, unless there is no gap.
Looked(observed, rs) == HasGap(observed, rs) => querying'

\* FetchNextGap leaves no gap without a query.
LEMMA StartQueryLooks ==
    ASSUME NEW observed, NEW rs, StartQuery(observed, rs)
    PROVE  Looked(observed, rs)
  BY DEF StartQuery, Query, Idle, Looked

\* Nor does FetchMore, whether it goes on or gives the query up.
LEMMA FetchMoreLooks ==
    ASSUME NEW range, NEW observed, NEW rs, FetchMore(range, observed, rs)
    PROVE  Looked(observed, rs)
  BY StartQueryLooks DEF FetchMore, Query, Looked

\* A step keeps NoGapIsForgotten.
LEMMA NoGapStep ==
    ASSUME NoGapIsForgotten, [Next]_vars
    PROVE  NoGapIsForgotten'
<1>1. ASSUME NEW o \in Observers, NEW r, ObserverSets(o, r)
      PROVE  NoGapIsForgotten'
  <2>1. Looked(Observed', ready') /\ UNCHANGED node
    <3>1. CASE querying
      BY <1>1, <3>1 DEF ObserverSets, FetchNextGap, Looked, fetcherVars
    <3>2. CASE ~querying
      BY <1>1, <3>2, StartQueryLooks DEF ObserverSets, FetchNextGap, Observed
    <3>3. UNCHANGED node
      BY <1>1 DEF ObserverSets
    <3> QED BY <3>1, <3>2, <3>3 DEF ObserverSets
  <2> QED BY <2>1 DEF Looked, HasGap, NoGapIsForgotten
<1>2. ASSUME NEW t \in Times, LiveSample(t)
      PROVE  NoGapIsForgotten'
  BY <1>2 DEF LiveSample, NoGapIsForgotten, Observed, fetcherVars
<1>3. CASE ServerAnswers
  BY <1>3 DEF ServerAnswers, NoGapIsForgotten, Observed, bufferVars
<1>4. CASE ReadFails
  BY <1>4 DEF ReadFails, NoGapIsForgotten, Observed, bufferVars
<1>5. CASE OnHistoryReadRawComplete
  <2>1. Looked(Observed, ready')
    <3>1. CASE call.more
      BY <1>5, <3>1, FetchMoreLooks DEF OnHistoryReadRawComplete
    <3>2. CASE ~call.more
      BY <1>5, <3>2, StartQueryLooks DEF OnHistoryReadRawComplete
    <3> QED BY <3>1, <3>2
  <2>2. UNCHANGED <<node, observer_ranges>>
    BY <1>5 DEF OnHistoryReadRawComplete
  <2> QED BY <2>1, <2>2 DEF Looked, HasGap, NoGapIsForgotten, Observed
<1>6. CASE NodeDeleted
  BY <1>6 DEF NodeDeleted, NoGapIsForgotten
<1>7. CASE UNCHANGED vars
  BY <1>7 DEF vars, NoGapIsForgotten, Observed, bufferVars, fetcherVars
<1> QED
  BY <1>1, <1>2, <1>3, <1>4, <1>5, <1>6, <1>7 DEF Next

\* However observers come, go, widen and narrow, and whatever pages and failures the
\* history service answers with, an observed range that is not ready is being queried.
THEOREM GapsAreQueried == Spec => []NoGapIsForgotten
<1>1. Init => NoGapIsForgotten
  BY DEF Init, NoGapIsForgotten, Observed, ObservedOf
<1> QED
  BY <1>1, NoGapStep, PTL DEF Spec

-----------------------------------------------------------------------------
(* First and last elements.                                                *)

\* Every set of natural numbers but the empty one has a least element, and a
\* bounded one a greatest.
LEMMA LeastElement ==
  ASSUME NEW S \in SUBSET Nat, S # {}
  PROVE  \E m \in S : \A y \in S : m <= y
<1> DEFINE R == OpToRel(<, Nat)
<1>1. IsWellFoundedOn(R, Nat)
  BY NatLessThanWellFounded
<1>2. \A y \in Nat, m \in Nat : <<y, m>> \in R <=> y < m
  BY DEF OpToRel
<1> HIDE DEF R
<1>3. PICK m \in S : \A y \in S : ~(<<y, m>> \in R)
  BY <1>1, WFMin
<1>4. \A y \in S : m \in Nat /\ y \in Nat
  BY <1>3
<1>5. ASSUME NEW y \in S PROVE m <= y
  <2>1. ~(<<y, m>> \in R)
    BY <1>3
  <2>2. m \in Nat /\ y \in Nat
    BY <1>4
  <2>3. ~(y < m)
    BY <1>2, <2>1, <2>2
  <2> QED BY <2>2, <2>3
<1> QED BY <1>3, <1>5

LEMMA MinLeast ==
  ASSUME NEW S \in SUBSET Nat, S # {}
  PROVE  Min(S) \in S /\ \A y \in S : Min(S) <= y
  BY LeastElement DEF Min

LEMMA MaxGreatest ==
  ASSUME NEW n \in Nat, NEW S \in SUBSET (0..n), S # {}
  PROVE  Max(S) \in S /\ \A y \in S : y <= Max(S)
<1> DEFINE T == {n - y : y \in S}
<1>1. T \in SUBSET Nat /\ T # {}
  <2>1. \A y \in S : n - y \in Nat
    OBVIOUS
  <2> QED BY <2>1
<1>2. PICK m \in T : \A y \in T : m <= y
  BY <1>1, LeastElement
<1>3. PICK x \in S : m = n - x
  BY <1>2
<1>4. \A y \in S : n - y \in T
  OBVIOUS
<1> HIDE DEF T
<1>5. \A y \in S : y <= x
  BY <1>2, <1>3, <1>4
<1> QED BY <1>5 DEF Max
-----------------------------------------------------------------------------
(* The inductive invariant of the buffer.                                  *)

Call == [state : {"none", "asked", "answered"}, continues : BOOLEAN,
         page : SUBSET Times, more : BOOLEAN]

TypesInv == TimedDataTypeOK /\ call \in Call

Window == querying_range[1]..querying_range[2]

\* The segments of rs are filled.
Filled(rs) == \A s \in rs : history \cap {s, s + 1} \subseteq values

\* What is queried is observed, and a query that goes on has what it starts from.
QueryOK ==
    /\ SegmentsOf(querying_range) \subseteq Observed
    /\ Window \subseteq HullTimes(Observed)
    /\ call.continues /\ querying_range[1] \in history => querying_range[1] \in values

\* A page has no holes, and with it the buffer is filled as far as the page tells.
AnswerOK ==
    /\ call.page \subseteq history \cap Window
    /\ \A p, q \in call.page : history \cap (p..q) \subseteq call.page
    /\ ~call.more => history \cap Window \subseteq values \cup call.page
    /\ call.more =>
         /\ call.page # {}
         /\ \A p \in call.page :
              history \cap (querying_range[1]..p) \subseteq values \cup call.page

\* While no read fails, no observer narrows and samples come in the order of time.
OrderlyInv ==
    /\ ready \subseteq Observed /\ Filled(ready)
    /\ Observed # {} => historical
    /\ current \in history \cup {None}
    /\ querying => QueryOK
    /\ call.state = "answered" => AnswerOK

SeriesInv == TypesInv /\ (orderly => OrderlyInv)

-----------------------------------------------------------------------------
(* Ranges and gaps.                                                        *)

LEMMA RangeSegments ==
    ASSUME NEW r \in Times \X Times
    PROVE  SegmentsOf(r) \subseteq Segments
  BY TimedDataAssumption DEF SegmentsOf, Segments, Times, TimedDataAssumption

\* What observers observe is what each of them wants.
LEMMA ObservedIsWanted ==
    ASSUME NEW ranges \in [Observers -> Ranges \cup {CurrentOnly}]
    PROVE  /\ ObservedOf(ranges) = UNION {WantedBy(ranges[o]) : o \in Observers}
           /\ ObservedOf(ranges) \subseteq Segments
<1>1. ObservedOf(ranges) = UNION {WantedBy(ranges[o]) : o \in Observers}
  BY DEF ObservedOf, WantedBy
<1>2. ASSUME NEW o \in Observers
      PROVE  WantedBy(ranges[o]) \subseteq Segments
  <2>1. CASE ranges[o] = CurrentOnly
    BY <2>1 DEF WantedBy
  <2>2. CASE ranges[o] \in Ranges /\ ranges[o] # CurrentOnly
    <3>1. ranges[o] \in Times \X Times
      BY <2>2, TimedDataAssumption DEF TimedDataAssumption
    <3> QED BY <2>2, <3>1, RangeSegments DEF WantedBy
  <2> QED BY <2>1, <2>2
<1> QED BY <1>1, <1>2

\* The hull covers what it is the hull of, and grows with it.
LEMMA HullCovers ==
    ASSUME NEW observed \in SUBSET Segments
    PROVE  /\ HullTimes(observed) \subseteq Times
           /\ \A s \in observed : {s, s + 1} \subseteq HullTimes(observed)
           /\ \A few \in SUBSET observed : HullTimes(few) \subseteq HullTimes(observed)
<1>1. Last \in Nat \ {0} /\ Last - 1 \in Nat /\ Segments = 0..(Last - 1) /\ Times = 0..Last
  BY TimedDataAssumption DEF TimedDataAssumption, Segments, Times
<1>2. ASSUME NEW set \in SUBSET Segments, set # {}
      PROVE  /\ Min(set) \in set /\ Max(set) \in set
             /\ \A s \in set : Min(set) <= s /\ s <= Max(set)
             /\ HullTimes(set) = Min(set)..(Max(set) + 1)
             /\ Min(set) \in Int /\ Max(set) \in Int
  <2>1. set \in SUBSET Nat /\ set \in SUBSET (0..(Last - 1))
    BY <1>1
  <2>2. /\ Min(set) \in set /\ Max(set) \in set
        /\ \A s \in set : Min(set) <= s /\ s <= Max(set)
    BY <1>1, <1>2, <2>1, MinLeast, MaxGreatest
  <2>3. \A s \in 0..(Last - 1) : s \in Int
    OBVIOUS
  <2>4. Min(set) \in Int /\ Max(set) \in Int
    BY <2>1, <2>2, <2>3
  <2> QED BY <1>2, <2>2, <2>4 DEF HullTimes
<1>3. HullTimes(observed) \subseteq Times
  <2>1. CASE observed = {}
    BY <2>1 DEF HullTimes
  <2>2. CASE observed # {}
    <3>1. /\ Min(observed) \in observed /\ Max(observed) \in observed
          /\ HullTimes(observed) = Min(observed)..(Max(observed) + 1)
      BY <2>2, <1>2
    <3>2. Min(observed) \in 0..(Last - 1) /\ Max(observed) \in 0..(Last - 1)
      BY <3>1, <1>1
    <3> HIDE DEF HullTimes
    <3>3. ASSUME NEW t \in Min(observed)..(Max(observed) + 1) PROVE t \in 0..Last
      BY <3>2, <1>1
    <3> QED BY <3>1, <3>3, <1>1
  <2> QED BY <2>1, <2>2
<1>4. ASSUME NEW s \in observed
      PROVE  {s, s + 1} \subseteq HullTimes(observed)
  <2>1. observed # {} /\ s \in Int
    BY <1>1
  <2>4. /\ Min(observed) \in observed /\ Max(observed) \in observed
        /\ Min(observed) <= s /\ s <= Max(observed)
    BY <1>2, <2>1
  <2>2. Min(observed) \in Int /\ Max(observed) \in Int
    BY <1>2, <2>1
  <2>3. HullTimes(observed) = Min(observed)..(Max(observed) + 1)
    BY <1>2, <2>1
  <2> QED BY <2>1, <2>2, <2>3, <2>4
<1>5. ASSUME NEW few \in SUBSET observed
      PROVE  HullTimes(few) \subseteq HullTimes(observed)
  <2>1. CASE few = {}
    BY <2>1 DEF HullTimes
  <2>2. CASE few # {}
    <3>1. Min(few) \in observed /\ Max(few) \in observed /\ observed # {}
          /\ HullTimes(few) = Min(few)..(Max(few) + 1)
      BY <2>2, <1>2
    <3>5. Min(few) \in Int /\ Max(few) \in Int
      <4>1. few \in SUBSET Segments
        OBVIOUS
      <4> QED BY <4>1, <2>2, <1>2
    <3>2. /\ HullTimes(observed) = Min(observed)..(Max(observed) + 1)
          /\ Min(observed) <= Min(few) /\ Max(few) <= Max(observed)
          /\ Min(observed) \in observed /\ Max(observed) \in observed
      BY <3>1, <1>2
    <3>3. /\ Min(observed) \in Int /\ Max(observed) \in Int
          /\ Min(few) \in Int /\ Max(few) \in Int
      BY <3>1, <3>5, <1>2
    <3>4. ASSUME NEW t \in Min(few)..(Max(few) + 1)
          PROVE  t \in Min(observed)..(Max(observed) + 1)
      BY <3>2, <3>3
    <3> QED BY <3>1, <3>2, <3>4
  <2> QED BY <2>1, <2>2
<1> QED BY <1>3, <1>4, <1>5

\* FindNextGap: the gap is observed.
LEMMA GapIsObserved ==
    ASSUME NEW observed \in SUBSET Segments, NEW rs, observed \ rs # {},
           NEW gap, gap = Gap(observed, rs)
    PROVE  /\ gap \in Times \X Times /\ gap[1] <= gap[2]
           /\ SegmentsOf(gap) \subseteq observed
           /\ gap[1]..gap[2] \subseteq HullTimes(observed)
<1> DEFINE missing == observed \ rs
           first == Min(missing)
           reach == {s \in missing : first..s \subseteq missing}
           last == Max(reach)
<1>1. Last \in Nat \ {0} /\ Last - 1 \in Nat /\ Segments = 0..(Last - 1) /\ Times = 0..Last
  BY TimedDataAssumption DEF TimedDataAssumption, Segments, Times
<1>2. gap = <<first, last + 1>>
  BY DEF Gap
<1>3. first \in missing /\ \A s \in missing : first <= s
  <2>1. \A s \in 0..(Last - 1) : s \in Nat
    OBVIOUS
  <2>2. missing \in SUBSET Nat /\ missing # {}
    BY <1>1, <2>1
  <2> HIDE DEF missing
  <2> QED BY <2>2, MinLeast
<1>4. missing \in SUBSET observed /\ missing \in SUBSET (0..(Last - 1))
  BY <1>1
<1> HIDE DEF missing, first
<1>5. first \in reach
  <2>1. first \in Int
    BY <1>3, <1>4
  <2>2. first..first = {first}
    BY <2>1
  <2> QED BY <1>3, <2>2
<1>6. last \in reach /\ first <= last
  <2>1. reach \in SUBSET (0..(Last - 1)) /\ reach # {}
    BY <1>4, <1>5
  <2> HIDE DEF reach
  <2> QED BY <1>1, <1>5, <2>1, MaxGreatest
<1>7. last \in missing /\ first..last \subseteq missing
  BY <1>6
<1> HIDE DEF last, reach
<1>8. first \in 0..(Last - 1) /\ last \in 0..(Last - 1)
  BY <1>3, <1>4, <1>7
<1>9. gap \in Times \X Times /\ gap[1] <= gap[2]
  BY <1>1, <1>2, <1>6, <1>8
<1>10. SegmentsOf(gap) \subseteq observed
  <2>1. (last + 1) - 1 = last
    BY <1>8
  <2> QED BY <1>2, <1>4, <1>7, <2>1 DEF SegmentsOf
<1>11. gap[1]..gap[2] \subseteq HullTimes(observed)
  <2>1. ASSUME NEW t \in first..(last + 1)
        PROVE  t \in HullTimes(observed)
    <3>1. CASE t <= last
      <4>1. t \in first..last
        BY <1>8, <3>1
      <4>2. t \in observed
        BY <1>4, <1>7, <4>1
      <4> QED BY <4>2, HullCovers
    <3>2. CASE t > last
      <4>1. t = last + 1 /\ last \in observed
        BY <1>4, <1>7, <1>8, <3>2
      <4> QED BY <4>1, HullCovers
    <3> QED BY <1>8, <3>1, <3>2
  <2> QED BY <1>2, <2>1
<1> QED BY <1>9, <1>10, <1>11

\* A query for a part of what is observed, or none.
QueryIs(observed, range, more) ==
    /\ call' \in Call /\ call'.state \in {"none", "asked"}
    /\ call'.page = {} /\ (call'.continues => more /\ querying_range' = range)
    /\ querying' \in BOOLEAN /\ (querying' <=> call'.state # "none")
    /\ querying_range' \in Times \X Times /\ querying_range'[1] <= querying_range'[2]
    /\ querying' => /\ SegmentsOf(querying_range') \subseteq observed
                    /\ querying_range'[1]..querying_range'[2] \subseteq HullTimes(observed)

LEMMA StartQueryResult ==
    ASSUME NEW observed \in SUBSET Segments, NEW rs, StartQuery(observed, rs), NEW range
    PROVE  QueryIs(observed, range, FALSE)
<1>1. CASE HasGap(observed, rs)
  <2> DEFINE gap == Gap(observed, rs)
  <2>1. observed \ rs # {} /\ Query(gap, FALSE)
    BY <1>1 DEF StartQuery, HasGap
  <2>2. gap = Gap(observed, rs)
    OBVIOUS
  <2> HIDE DEF gap
  <2>3. /\ gap \in Times \X Times /\ gap[1] <= gap[2]
        /\ SegmentsOf(gap) \subseteq observed
        /\ gap[1]..gap[2] \subseteq HullTimes(observed)
    BY <2>1, <2>2, GapIsObserved
  <2>4. querying' = TRUE /\ querying_range' = gap
        /\ call' = [state |-> "asked", continues |-> FALSE, page |-> {}, more |-> FALSE]
    BY <2>1 DEF Query, Asked, NoCall
  <2> QED BY <2>3, <2>4 DEF QueryIs, Call
<1>2. CASE ~HasGap(observed, rs)
  <2>1. querying' = FALSE /\ querying_range' = <<0, 0>>
        /\ call' = [state |-> "none", continues |-> FALSE, page |-> {}, more |-> FALSE]
    BY <1>2 DEF StartQuery, Idle, NoCall
  <2>2. 0 \in Times
    BY TimedDataAssumption DEF TimedDataAssumption, Times
  <2>3. querying_range'[1] = 0 /\ querying_range'[2] = 0 /\ querying_range' \in Times \X Times
    BY <2>1, <2>2
  <2>4. call' \in Call /\ call'.state = "none" /\ call'.page = {} /\ call'.continues = FALSE
    BY <2>1 DEF Call
  <2>5. querying' = FALSE
    BY <2>1
  <2>6. querying_range'[1] <= querying_range'[2]
    BY <2>3
  <2>7. querying' \in BOOLEAN /\ (querying' <=> call'.state # "none")
    BY <2>4, <2>5
  <2>8. call'.state \in {"none", "asked"}
    BY <2>4
  <2> QED BY <2>3, <2>4, <2>5, <2>6, <2>7, <2>8, Zenon DEF QueryIs
<1> QED BY <1>1, <1>2

\* A query goes on within the first gap only.
LEMMA FetchMoreResult ==
    ASSUME NEW observed \in SUBSET Segments, NEW rs,
           NEW range \in Times \X Times, range[1] <= range[2],
           FetchMore(range, observed, rs)
    PROVE  QueryIs(observed, range, TRUE)
<1>1. CASE FirstGapContains(range, observed, rs)
  <2> DEFINE gap == Gap(observed, rs)
  <2>1. /\ observed \ rs # {} /\ Query(range, TRUE)
        /\ gap[1] <= range[1] /\ range[2] <= gap[2]
    BY <1>1 DEF FetchMore, FirstGapContains, HasGap
  <2>2. gap = Gap(observed, rs)
    OBVIOUS
  <2> HIDE DEF gap
  <2>3. /\ gap \in Times \X Times /\ gap[1] <= gap[2]
        /\ SegmentsOf(gap) \subseteq observed
        /\ gap[1]..gap[2] \subseteq HullTimes(observed)
    BY <2>1, <2>2, GapIsObserved
  <2>4. /\ gap[1] \in Int /\ gap[2] \in Int /\ range[1] \in Int /\ range[2] \in Int
    BY <2>3, TimedDataAssumption DEF Times, TimedDataAssumption
  <2>5. SegmentsOf(range) \subseteq observed
    BY <2>1, <2>3, <2>4 DEF SegmentsOf
  <2>6. range[1]..range[2] \subseteq HullTimes(observed)
    BY <2>1, <2>3, <2>4
  <2>7. querying' = TRUE /\ querying_range' = range
        /\ call' = [state |-> "asked", continues |-> TRUE, page |-> {}, more |-> FALSE]
    BY <2>1 DEF Query, Asked, NoCall
  <2> QED BY <2>5, <2>6, <2>7 DEF QueryIs, Call
<1>2. CASE ~FirstGapContains(range, observed, rs)
  <2>1. QueryIs(observed, range, FALSE)
    BY <1>2, StartQueryResult DEF FetchMore
  <2> QED BY <2>1 DEF QueryIs
<1> QED BY <1>1, <1>2

-----------------------------------------------------------------------------
(* The pages of the history service.                                       *)

PageOf(wanted) == {t \in wanted : Cardinality({u \in wanted : u <= t}) <= PageSize}

\* A page begins at the first sample wanted, has no holes and is not empty.
LEMMA PageIsPrefix ==
    ASSUME NEW wanted \in SUBSET Times
    PROVE  /\ \A t \in PageOf(wanted), u \in wanted : u <= t => u \in PageOf(wanted)
           /\ wanted # {} => PageOf(wanted) # {}
<1> DEFINE UpTo(t) == {u \in wanted : u <= t}
<1>1. Last \in Nat /\ PageSize \in Nat \ {0} /\ Times = 0..Last /\ Times \subseteq Int
  BY TimedDataAssumption DEF TimedDataAssumption, Times
<1>2. IsFiniteSet(wanted)
  <2>1. IsFiniteSet(0..Last)
    BY <1>1, FS_Interval
  <2> QED BY <1>1, <2>1, FS_Subset
<1>3. \A t \in wanted : IsFiniteSet(UpTo(t)) /\ Cardinality(UpTo(t)) \in Nat
  BY <1>2, FS_Subset, FS_CardinalityType
<1>4. ASSUME NEW t \in PageOf(wanted), NEW u \in wanted, u <= t
      PROVE  u \in PageOf(wanted)
  <2>1. t \in wanted /\ t \in Int /\ u \in Int /\ Cardinality(UpTo(t)) <= PageSize
    BY <1>1, <1>4 DEF PageOf
  <2>2. UpTo(u) \subseteq UpTo(t)
    <3>1. ASSUME NEW x \in wanted, x <= u
          PROVE  x <= t
      <4>1. x \in Int
        BY <1>1
      <4> QED BY <1>4, <2>1, <3>1, <4>1
    <3> QED BY <3>1
  <2>3. /\ IsFiniteSet(UpTo(t)) /\ Cardinality(UpTo(t)) \in Nat
        /\ Cardinality(UpTo(u)) \in Nat
    BY <1>3, <2>1
  <2>4. Cardinality(UpTo(u)) <= Cardinality(UpTo(t))
    BY <2>2, <2>3, FS_Subset
  <2>5. Cardinality(UpTo(u)) <= PageSize
    <3> HIDE DEF UpTo
    <3> QED BY <1>1, <2>1, <2>3, <2>4
  <2> QED BY <2>5 DEF PageOf
<1>5. ASSUME wanted # {}
      PROVE  PageOf(wanted) # {}
  <2>1. wanted \in SUBSET Nat
    <3>1. \A t \in 0..Last : t \in Nat
      OBVIOUS
    <3> QED BY <1>1, <3>1
  <2>2. PICK m \in wanted : \A y \in wanted : m <= y
    BY <1>5, <2>1, LeastElement
  <2>3. UpTo(m) = {m}
    <3>1. ASSUME NEW x \in wanted
          PROVE  x <= m <=> x = m
      <4>1. x \in Nat /\ m \in Nat /\ m <= x
        BY <2>1, <2>2
      <4> QED BY <4>1
    <3> QED BY <3>1, <2>2
  <2>4. Cardinality(UpTo(m)) = 1
    BY <2>3, FS_Singleton
  <2>5. Cardinality(UpTo(m)) <= PageSize
    <3> HIDE DEF UpTo
    <3> QED BY <1>1, <2>4
  <2> QED BY <2>5 DEF PageOf
<1> QED BY <1>4, <1>5

-----------------------------------------------------------------------------
(* The steps keep the invariant.                                           *)

LEMMA TimesAreNumbers == \A x \in Times : x \in Nat /\ x \in Int /\ x # None
  BY TimedDataAssumption DEF TimedDataAssumption, Times, None

LEMMA AnswerKeepsSeries ==
    ASSUME SeriesInv, ServerAnswers
    PROVE  SeriesInv'
<1> DEFINE from == querying_range[1]
           wanted == {t \in history : /\ t > from \/ (t = from /\ ~call.continues)
                                      /\ t <= querying_range[2]}
           beyond == {t \in history : t > querying_range[2]}
<1>1. /\ call.state = "asked" /\ querying /\ call \in Call
      /\ history \subseteq Times
      /\ from \in Times /\ querying_range[2] \in Times
      /\ UNCHANGED <<orderly, history, observer_ranges, ready, values, current, historical,
                     node, querying, querying_range>>
  <2>1. /\ call.state = "asked"
        /\ UNCHANGED <<orderly, history, observer_ranges, ready, values, current, historical,
                       node, querying, querying_range>>
    BY DEF ServerAnswers, bufferVars, currentVars
  <2>2. /\ querying /\ call \in Call /\ history \subseteq Times
        /\ from \in Times /\ querying_range[2] \in Times
    BY <2>1 DEF SeriesInv, TypesInv, TimedDataTypeOK
  <2>3. QED
    BY <2>1, <2>2
<1>2. PICK extra \in (IF orderly \/ beyond = {} THEN {{}} ELSE {{}, {Min(beyond)}}) :
          call' = [call EXCEPT !.state = "answered", !.page = PageOf(wanted) \cup extra,
                               !.more = PageOf(wanted) # wanted]
  BY DEF ServerAnswers, PageOf
<1>3. (\A x \in Times : x \in Int) /\ Times \subseteq Nat
  BY TimesAreNumbers
<1>4. wanted \subseteq history /\ wanted \in SUBSET Times /\ beyond \in SUBSET Times
  BY <1>1
<1>5. PageOf(wanted) \subseteq wanted
  BY DEF PageOf
<1>6. extra \subseteq Times /\ (orderly => extra = {})
  <2>1. CASE orderly \/ beyond = {}
    BY <1>2, <2>1
  <2>2. CASE ~(orderly \/ beyond = {})
    <3>1. beyond \in SUBSET Nat /\ beyond # {}
      BY <1>3, <1>4, <2>2
    <3> HIDE DEF beyond
    <3>2. Min(beyond) \in beyond
      BY <3>1, MinLeast
    <3> QED BY <1>2, <1>4, <2>2, <3>2
  <2> QED BY <2>1, <2>2
<1> HIDE DEF wanted, beyond
<1>7. call' = [state |-> "answered", continues |-> call.continues,
               page |-> PageOf(wanted) \cup extra, more |-> PageOf(wanted) # wanted]
  BY <1>1, <1>2 DEF Call
<1>8. TypesInv'
  <2>1. call' \in Call /\ call'.state = "answered" /\ call'.page \subseteq Times
    BY <1>1, <1>4, <1>5, <1>6, <1>7 DEF Call
  <2>2. TimedDataTypeOK
    BY DEF SeriesInv, TypesInv
  <2> QED BY <1>1, <2>1, <2>2 DEF TypesInv, TimedDataTypeOK
<1>9. ASSUME orderly
      PROVE  OrderlyInv'
  <2>1. OrderlyInv /\ QueryOK
    BY <1>1, <1>9 DEF SeriesInv, OrderlyInv
  <2>2. call' = [state |-> "answered", continues |-> call.continues,
                 page |-> PageOf(wanted), more |-> PageOf(wanted) # wanted]
    BY <1>6, <1>7, <1>9
  <2>3. /\ \A t \in PageOf(wanted), u \in wanted : u <= t => u \in PageOf(wanted)
        /\ wanted # {} => PageOf(wanted) # {}
    BY <1>4, PageIsPrefix
  <2>4. ASSUME NEW t \in history, t \in Window
        PROVE  t \in wanted \/ t \in values
    <3>0. t \in Int /\ from \in Int /\ querying_range[2] \in Int
      BY <1>1, <1>3
    <3>1. t \in Int /\ from \in Int /\ from <= t /\ t <= querying_range[2]
      BY <3>0, <2>4 DEF Window
    <3>2. CASE t > from
      BY <3>1, <3>2 DEF wanted
    <3>3. CASE t = from
      BY <2>1, <2>4, <3>1, <3>3 DEF wanted, QueryOK
    <3> QED BY <3>1, <3>2, <3>3
  <2>5. wanted \subseteq history \cap Window
    <3>1. ASSUME NEW t \in wanted
          PROVE  t \in history /\ t \in Window
      <4>1. /\ t \in history /\ t <= querying_range[2]
            /\ t > from \/ t = from
        BY DEF wanted
      <4>2. t \in Int /\ from \in Int /\ querying_range[2] \in Int
        BY <1>1, <1>3, <4>1
      <4> QED BY <4>1, <4>2 DEF Window
    <3> QED BY <3>1
  <2>6. AnswerOK'
    <3>1. call'.page \subseteq (history \cap Window)'
      BY <1>1, <1>5, <2>2, <2>5 DEF Window
    <3>2. ASSUME NEW p \in PageOf(wanted), NEW q \in PageOf(wanted),
                 NEW t \in history, t \in p..q
          PROVE  t \in PageOf(wanted)
      <4>0. /\ p \in wanted /\ q \in wanted /\ p \in Int /\ q \in Int /\ t \in Int
            /\ from \in Int /\ querying_range[2] \in Int
        BY <1>1, <1>3, <1>4, <1>5, <3>2
      <4>1. p <= t /\ t <= q
        BY <3>2, <4>0
      <4>2. t \in wanted
        BY <4>0, <4>1 DEF wanted
      <4> QED BY <2>3, <4>0, <4>1, <4>2
    <3>3. ASSUME PageOf(wanted) = wanted, NEW t \in history, t \in Window
          PROVE  t \in values \cup PageOf(wanted)
      BY <2>4, <3>3
    <3>4. ASSUME PageOf(wanted) # wanted
          PROVE  PageOf(wanted) # {}
      BY <1>5, <2>3, <3>4
    <3>5. ASSUME NEW p \in PageOf(wanted), NEW t \in history, t \in from..p
          PROVE  t \in values \cup PageOf(wanted)
      <4>1. /\ p \in wanted /\ p \in Window /\ p \in Int /\ t \in Int
            /\ from \in Int /\ querying_range[2] \in Int
        BY <1>1, <1>3, <1>4, <1>5, <2>5, <3>5
      <4>2. t <= p /\ t \in Window
        BY <4>1, <3>5 DEF Window
      <4> QED BY <2>3, <2>4, <3>5, <4>1, <4>2
    <3>6. call'.page = PageOf(wanted) /\ (call'.more <=> PageOf(wanted) # wanted)
      BY <2>2
    <3> QED BY <1>1, <3>1, <3>2, <3>3, <3>4, <3>5, <3>6 DEF AnswerOK, Window
  <2>7. QueryOK'
    BY <1>1, <2>1, <2>2 DEF QueryOK, Window, Observed
  <2> QED BY <1>1, <2>1, <2>6, <2>7 DEF OrderlyInv, Filled, Observed
<1> QED BY <1>1, <1>8, <1>9 DEF SeriesInv

LEMMA FailureKeepsSeries ==
    ASSUME SeriesInv, ReadFails
    PROVE  SeriesInv'
<1>1. /\ ~orderly /\ call.state = "asked" /\ call \in Call /\ TimedDataTypeOK
      /\ UNCHANGED <<orderly, history, observer_ranges, ready, values, current, historical,
                     node, querying, querying_range>>
      /\ call' = [call EXCEPT !.state = "answered", !.page = {}, !.more = FALSE]
  BY DEF ReadFails, SeriesInv, TypesInv, bufferVars, currentVars
<1>2. call' \in Call /\ call'.state = "answered" /\ call'.page = {}
  BY <1>1 DEF Call
<1> QED BY <1>1, <1>2 DEF SeriesInv, TypesInv, TimedDataTypeOK

LEMMA LiveSampleKeepsSeries ==
    ASSUME SeriesInv, NEW t \in Times, LiveSample(t)
    PROVE  SeriesInv'
<1>1. /\ TimedDataTypeOK /\ call \in Call
      /\ t \notin history /\ history' = history \cup {t}
      /\ UNCHANGED <<orderly, observer_ranges, ready, historical, node, querying,
                     querying_range, call>>
      /\ current' \in {current, t} /\ values' \in {values, values \cup {t}}
  BY DEF LiveSample, SeriesInv, TypesInv, fetcherVars
<1>2. TypesInv'
  BY <1>1 DEF TypesInv, TimedDataTypeOK
<1>3. ASSUME orderly
      PROVE  OrderlyInv'
  <2>1. OrderlyInv
    BY <1>3 DEF SeriesInv
  <2>2. \A u \in history : u < t
    BY <1>3 DEF LiveSample
  <2>3. (\A x \in Times : x \in Int) /\ t \in Int /\ t > None /\ history \subseteq Times
    BY <1>1, TimesAreNumbers DEF None, TimedDataTypeOK
  <2>4. t > current
    BY <2>1, <2>2, <2>3 DEF OrderlyInv
  <2>5. current' = t /\ (historical => values' = values \cup {t})
    BY <2>4 DEF LiveSample
  <2>6. Observed' = Observed /\ Window' = Window
    BY <1>1 DEF Observed, Window
  <2>7. Filled(ready)'
    <3>1. CASE ready = {}
      BY <1>1, <3>1 DEF Filled
    <3>2. CASE ready # {}
      <4>1. historical
        BY <2>1, <3>2 DEF OrderlyInv
      <4> QED BY <1>1, <2>1, <2>5, <4>1 DEF OrderlyInv, Filled
    <3> QED BY <3>1, <3>2
  <2>8. ASSUME querying
        PROVE  historical /\ values' = values \cup {t} /\ QueryOK
    <3>1. QueryOK
      BY <2>1, <2>8 DEF OrderlyInv
    <3>2. querying_range[1] \in Window
      <4>1. /\ querying_range[1] \in Int /\ querying_range[2] \in Int
            /\ querying_range[1] <= querying_range[2]
        BY <1>1, <2>3 DEF TimedDataTypeOK
      <4> QED BY <4>1 DEF Window
    <3>3. Observed # {}
      BY <3>1, <3>2 DEF QueryOK, HullTimes
    <3> QED BY <2>1, <2>5, <3>1, <3>3 DEF OrderlyInv
  <2>9. ASSUME querying PROVE QueryOK'
    BY <1>1, <2>6, <2>8, <2>9 DEF QueryOK
  <2>10. ASSUME call.state = "answered" PROVE AnswerOK'
    <3>1. querying /\ AnswerOK
      BY <1>1, <2>1, <2>10 DEF OrderlyInv, TimedDataTypeOK
    <3>2. values' = values \cup {t}
      BY <2>8, <3>1
    <3>3. ASSUME NEW p \in call.page, NEW q \in call.page
          PROVE  (history \cup {t}) \cap (p..q) \subseteq call.page
      <4>1. q \in history /\ q \in Int /\ q < t
        BY <2>2, <2>3, <3>1 DEF AnswerOK
      <4>2. t \notin p..q
        BY <2>3, <4>1
      <4> QED BY <3>1, <4>2 DEF AnswerOK
    <3> QED BY <1>1, <2>6, <3>1, <3>2, <3>3 DEF AnswerOK
  <2> QED BY <1>1, <2>1, <2>5, <2>6, <2>7, <2>9, <2>10 DEF OrderlyInv
<1> QED BY <1>1, <1>2, <1>3 DEF SeriesInv


\* What a step that looks for a gap leaves of the call.
LEMMA QueryIsTyped ==
    ASSUME NEW observed, NEW range, NEW more, QueryIs(observed, range, more)
    PROVE  /\ call' \in Call /\ call'.state \in {"none", "asked", "answered"}
           /\ call'.page \subseteq Times /\ call'.state # "answered"
           /\ querying' \in BOOLEAN /\ (querying' <=> call'.state # "none")
           /\ querying_range' \in Times \X Times /\ querying_range'[1] <= querying_range'[2]
  BY DEF QueryIs

LEMMA ObserverKeepsSeries ==
    ASSUME SeriesInv, NEW o \in Observers, NEW r \in Ranges \cup {CurrentOnly},
           ObserverSets(o, r)
    PROVE  SeriesInv'
<1> DEFINE ranges == [observer_ranges EXCEPT ![o] = r]
           observed == ObservedOf(ranges)
           trimmed == Trimmed(values, ready, observed)
<1>1. /\ TimedDataTypeOK /\ call \in Call
      /\ UNCHANGED <<orderly, history, current, node>>
      /\ observer_ranges' = ranges /\ historical' = (historical \/ observed # {})
      /\ ready' = trimmed.ready
      /\ trimmed.values \subseteq values'
      /\ values' = trimmed.values \/ (values' = trimmed.values \cup {current} /\ current # None)
      /\ FetchNextGap(observed, ready')
  BY DEF ObserverSets, SeriesInv, TypesInv
<1>2. ranges \in [Observers -> Ranges \cup {CurrentOnly}]
  BY <1>1 DEF TimedDataTypeOK
<1>3. observed \in SUBSET Segments /\ observed = UNION {WantedBy(ranges[x]) : x \in Observers}
  BY <1>2, ObservedIsWanted
<1>4. Observed' = observed
  BY <1>1 DEF Observed
<1>5. /\ trimmed.values \subseteq values /\ trimmed.ready \subseteq ready
      /\ values \cap HullTimes(observed) \subseteq trimmed.values
  BY DEF Trimmed
<1> HIDE DEF trimmed, observed
<1>6. values' \subseteq Times /\ ready' \subseteq Segments
  BY <1>1, <1>5 DEF TimedDataTypeOK
<1>7. (querying /\ UNCHANGED fetcherVars) \/ (~querying /\ QueryIs(observed, None, FALSE))
  <2>1. CASE querying
    BY <1>1, <2>1 DEF FetchNextGap
  <2>2. CASE ~querying
    <3>1. StartQuery(observed, ready')
      BY <1>1, <2>2 DEF FetchNextGap
    <3> QED BY <1>3, <2>2, <3>1, StartQueryResult
  <2> QED BY <2>1, <2>2
<1>8. TypesInv'
  <2>1. /\ call' \in Call /\ call'.state \in {"none", "asked", "answered"}
        /\ call'.page \subseteq Times /\ querying' \in BOOLEAN
        /\ (querying' <=> call'.state # "none")
        /\ querying_range' \in Times \X Times /\ querying_range'[1] <= querying_range'[2]
    <3>1. CASE UNCHANGED fetcherVars
      BY <1>1, <3>1 DEF fetcherVars, TimedDataTypeOK
    <3>2. CASE QueryIs(observed, None, FALSE)
      BY <3>2, QueryIsTyped
    <3> QED BY <1>7, <3>1, <3>2
  <2>2. /\ historical' \in BOOLEAN /\ orderly' \in BOOLEAN /\ node' \in BOOLEAN
        /\ history' \subseteq Times /\ current' \in Times \cup {None}
        /\ observer_ranges' \in [Observers -> Ranges \cup {CurrentOnly}]
    BY <1>1, <1>2 DEF TimedDataTypeOK
  <2> QED BY <1>6, <2>1, <2>2 DEF TypesInv, TimedDataTypeOK
<1>9. ASSUME orderly
      PROVE  OrderlyInv'
  <2>1. OrderlyInv /\ history \subseteq Times
    BY <1>1, <1>9 DEF SeriesInv, TimedDataTypeOK
  <2>2. Observed \subseteq observed
    <3>1. WantedBy(observer_ranges[o]) \subseteq WantedBy(ranges[o])
      BY <1>1, <1>9 DEF ObserverSets, TimedDataTypeOK
    <3>2. Observed = UNION {WantedBy(observer_ranges[x]) : x \in Observers}
      BY <1>1, ObservedIsWanted DEF TimedDataTypeOK, Observed
    <3>3. ASSUME NEW x \in Observers PROVE WantedBy(observer_ranges[x]) \subseteq WantedBy(ranges[x])
      <4>1. CASE x = o
        BY <3>1, <4>1
      <4>2. CASE x # o
        BY <1>1, <4>2 DEF TimedDataTypeOK
      <4> QED BY <4>1, <4>2
    <3> QED BY <1>3, <3>2, <3>3
  <2>3. /\ HullTimes(Observed) \subseteq HullTimes(observed)
        /\ \A s \in observed : {s, s + 1} \subseteq HullTimes(observed)
    BY <1>3, <2>2, HullCovers
  <2>4. values \cap HullTimes(observed) \subseteq values'
    BY <1>1, <1>5
  <2>5. ready' \subseteq Observed' /\ Filled(ready)'
    <3>1. ready' \subseteq ready /\ ready \subseteq Observed /\ Filled(ready)
      BY <1>1, <1>5, <2>1 DEF OrderlyInv
    <3>2. ASSUME NEW s \in ready' PROVE history \cap {s, s + 1} \subseteq values'
      <4>1. {s, s + 1} \subseteq HullTimes(observed) /\ history \cap {s, s + 1} \subseteq values
        BY <2>2, <2>3, <3>1 DEF Filled
      <4> QED BY <2>4, <4>1
    <3> QED BY <1>1, <1>4, <2>2, <3>1, <3>2 DEF Filled
  <2>6. Observed' # {} => historical'
    BY <1>1, <1>4
  <2>7. CASE querying /\ UNCHANGED fetcherVars
    <3>1. QueryOK /\ Window' = Window
      BY <2>1, <2>7 DEF OrderlyInv, fetcherVars, Window
    <3>2. Window \subseteq HullTimes(observed) /\ SegmentsOf(querying_range) \subseteq observed
      BY <2>2, <2>3, <3>1 DEF QueryOK
    <3>3. querying_range[1] \in Window
      <4>1. /\ querying_range[1] \in Int /\ querying_range[2] \in Int
            /\ querying_range[1] <= querying_range[2]
        BY <1>1, TimesAreNumbers DEF TimedDataTypeOK
      <4> QED BY <4>1 DEF Window
    <3>4. QueryOK'
      BY <1>1, <1>4, <2>4, <2>7, <3>1, <3>2, <3>3 DEF QueryOK, fetcherVars
    <3>5. ASSUME call.state = "answered" PROVE AnswerOK'
      <4>1. AnswerOK
        BY <2>1, <3>5 DEF OrderlyInv
      <4>2. \A h \in Window : h \in values => h \in values'
        BY <2>4, <3>2
      <4>3. ASSUME NEW p \in call.page
            PROVE  querying_range[1]..p \subseteq Window
        <5>1. /\ querying_range[1] \in Int /\ querying_range[2] \in Int /\ p \in Int
          BY <1>1, TimesAreNumbers DEF TimedDataTypeOK
        <5>2. p \in Window
          BY <4>1 DEF AnswerOK
        <5> QED BY <5>1, <5>2 DEF Window
      <4>4. call' = call /\ querying_range' = querying_range /\ history' = history
        BY <1>1, <2>7 DEF fetcherVars
      <4>5. ASSUME call.more, NEW p \in call.page
            PROVE  history \cap (querying_range[1]..p) \subseteq values' \cup call.page
        BY <4>1, <4>2, <4>3, <4>5 DEF AnswerOK
      <4>6. ASSUME ~call.more
            PROVE  history \cap Window \subseteq values' \cup call.page
        BY <4>1, <4>2, <4>6 DEF AnswerOK
      <4> QED BY <3>1, <4>1, <4>4, <4>5, <4>6 DEF AnswerOK
    <3> QED BY <1>1, <2>1, <2>5, <2>6, <2>7, <3>4, <3>5 DEF OrderlyInv, fetcherVars
  <2>8. CASE QueryIs(observed, None, FALSE)
    <3>1. call'.state # "answered" /\ (querying' => QueryOK')
      BY <1>4, <2>8 DEF QueryIs, QueryOK, Window
    <3> QED BY <1>1, <2>1, <2>5, <2>6, <3>1 DEF OrderlyInv
  <2> QED BY <1>7, <2>7, <2>8
<1> QED BY <1>1, <1>8, <1>9 DEF SeriesInv


\* The page reaches a time of the query, or says nothing.
LEMMA ReadyToIsQueried ==
    ASSUME TypesInv
    PROVE  /\ ReadyTo \in Times \cup {None}
           /\ ReadyTo # None => querying_range[1] <= ReadyTo /\ ReadyTo <= querying_range[2]
           /\ call.page # {} => Max(call.page) \in call.page
           /\ call.more /\ call.page # {} => ReadyTo = Clamp(Max(call.page), querying_range)
<1>1. /\ querying_range[1] \in Times /\ querying_range[2] \in Times
      /\ querying_range[1] <= querying_range[2] /\ call.page \subseteq Times
  BY DEF TypesInv, TimedDataTypeOK
<1>2. ASSUME call.page # {}
      PROVE  Max(call.page) \in call.page
  <2>1. Last \in Nat /\ Times = 0..Last
    BY TimedDataAssumption DEF TimedDataAssumption, Times
  <2>2. call.page \in SUBSET (0..Last)
    BY <1>1, <2>1
  <2> QED BY <1>2, <2>1, <2>2, MaxGreatest
<1>3. /\ querying_range[1] \in Int /\ querying_range[2] \in Int
      /\ querying_range[1] # None /\ querying_range[2] # None
  BY <1>1, TimesAreNumbers
<1>4. ASSUME NEW t \in Times
      PROVE  /\ Clamp(t, querying_range) \in Times
             /\ querying_range[1] <= Clamp(t, querying_range)
             /\ Clamp(t, querying_range) <= querying_range[2]
  <2>1. t \in Int
    BY TimesAreNumbers
  <2> QED BY <1>1, <1>3, <2>1 DEF Clamp
<1>5. CASE ~call.more
  BY <1>1, <1>2, <1>3, <1>5 DEF ReadyTo
<1>6. CASE call.more /\ call.page # {}
  <2>1. ReadyTo = Clamp(Max(call.page), querying_range) /\ Max(call.page) \in Times
    BY <1>1, <1>2, <1>6 DEF ReadyTo
  <2> QED BY <1>2, <1>4, <1>6, <2>1
<1>7. CASE call.more /\ call.page = {}
  BY <1>7 DEF ReadyTo
<1> QED BY <1>5, <1>6, <1>7

LEMMA CompletionKeepsSeries ==
    ASSUME SeriesInv, OnHistoryReadRawComplete
    PROVE  SeriesInv'
<1> DEFINE trimmed == Trimmed(Replaced(values, call.page), ready, Observed)
           rest == <<IF ReadyTo = None THEN querying_range[1] ELSE ReadyTo, querying_range[2]>>
           read == IF ReadyTo = None THEN {} ELSE SegmentsOf(<<querying_range[1], ReadyTo>>)
<1>1. /\ TypesInv /\ TimedDataTypeOK /\ call \in Call /\ call.state = "answered" /\ querying
      /\ UNCHANGED <<orderly, history, observer_ranges, current, historical, node>>
      /\ values' = (IF call.page = {} THEN values ELSE trimmed.values)
      /\ ready' = (IF call.page = {} THEN ready ELSE trimmed.ready) \cup read
      /\ IF call.more THEN FetchMore(rest, Observed, ready')
                      ELSE StartQuery(Observed, ready')
  BY DEF OnHistoryReadRawComplete, SeriesInv, TypesInv, TimedDataTypeOK, currentVars
<1>2. /\ querying_range[1] \in Times /\ querying_range[2] \in Times
      /\ querying_range[1] <= querying_range[2]
      /\ querying_range[1] \in Int /\ querying_range[2] \in Int
  BY <1>1, TimesAreNumbers DEF TimedDataTypeOK
<1>3. /\ ReadyTo \in Times \cup {None}
      /\ ReadyTo # None => querying_range[1] <= ReadyTo /\ ReadyTo <= querying_range[2]
      /\ call.page # {} => Max(call.page) \in call.page
      /\ call.more /\ call.page # {} => ReadyTo = Clamp(Max(call.page), querying_range)
  BY <1>1, ReadyToIsQueried
<1>4. Observed \in SUBSET Segments /\ Observed' = Observed
  BY <1>1, ObservedIsWanted DEF TimedDataTypeOK, Observed
<1>5. rest \in Times \X Times /\ rest[1] <= rest[2]
  BY <1>2, <1>3
<1>6. /\ trimmed.values \subseteq values \cup call.page /\ trimmed.ready \subseteq ready
      /\ call.page # {} => Replaced(values, call.page) \cap HullTimes(Observed)
                             \subseteq trimmed.values
  BY DEF Trimmed, Replaced
<1>7. read \subseteq SegmentsOf(querying_range)
  <2>1. CASE ReadyTo = None
    BY <2>1
  <2>2. CASE ReadyTo # None
    <3>1. ReadyTo \in Int /\ ReadyTo <= querying_range[2]
      BY <1>3, <2>2, TimesAreNumbers
    <3> QED BY <1>2, <2>2, <3>1 DEF SegmentsOf
  <2> QED BY <2>1, <2>2
<1> HIDE DEF trimmed, rest, read
<1>8. QueryIs(Observed, rest, call.more)
  <2>1. CASE call.more
    <3>1. FetchMore(rest, Observed, ready')
      BY <1>1, <2>1
    <3>2. QueryIs(Observed, rest, TRUE)
      BY <1>4, <1>5, <3>1, FetchMoreResult
    <3> QED BY <2>1, <3>2 DEF QueryIs
  <2>2. CASE ~call.more
    <3>1. StartQuery(Observed, ready')
      BY <1>1, <2>2
    <3>2. QueryIs(Observed, rest, FALSE)
      BY <1>4, <3>1, StartQueryResult
    <3> QED BY <2>2, <3>2 DEF QueryIs
  <2> QED BY <2>1, <2>2
<1>9. TypesInv'
  <2>1. values' \subseteq Times
    BY <1>1, <1>6 DEF TimedDataTypeOK
  <2>2. ready' \subseteq Segments
    <3>1. SegmentsOf(querying_range) \subseteq Segments
      BY <1>1, RangeSegments DEF TimedDataTypeOK
    <3> QED BY <1>1, <1>6, <1>7, <3>1 DEF TimedDataTypeOK
  <2>3. /\ call' \in Call /\ call'.state \in {"none", "asked", "answered"}
        /\ call'.page \subseteq Times /\ querying' \in BOOLEAN
        /\ (querying' <=> call'.state # "none")
        /\ querying_range' \in Times \X Times /\ querying_range'[1] <= querying_range'[2]
    BY <1>8, QueryIsTyped
  <2> QED BY <1>1, <2>1, <2>2, <2>3 DEF TypesInv, TimedDataTypeOK
<1>10. ASSUME orderly
       PROVE  OrderlyInv'
  <2>1. OrderlyInv /\ QueryOK /\ AnswerOK
    BY <1>1, <1>10 DEF SeriesInv, OrderlyInv
  \* What was in the buffer or came with the page stays, within the hull.
  <2>2. ASSUME NEW h \in history, h \in HullTimes(Observed), h \in values \cup call.page
        PROVE  h \in values'
    <3>1. CASE call.page = {}
      BY <1>1, <2>2, <3>1
    <3>2. CASE call.page # {}
      <4>1. call.page \in SUBSET Nat
        BY <1>1, TimesAreNumbers DEF TimedDataTypeOK
      <4>2. Min(call.page) \in call.page /\ Max(call.page) \in call.page
        BY <1>3, <3>2, <4>1, MinLeast
      <4>3. history \cap (Min(call.page)..Max(call.page)) \subseteq call.page
        BY <2>1, <4>2 DEF AnswerOK
      <4>4. h \in Replaced(values, call.page)
        BY <2>2, <3>2, <4>3 DEF Replaced
      <4> QED BY <1>1, <1>6, <2>2, <3>2, <4>4
    <3> QED BY <3>1, <3>2
  \* When more is to come the page reaches its last sample.
  <2>3. ASSUME call.more
        PROVE  /\ ReadyTo \in call.page /\ ReadyTo # None /\ ReadyTo \in history
               /\ ReadyTo \in Window
    <3>1. /\ call.page # {} /\ Max(call.page) \in call.page
          /\ ReadyTo = Clamp(Max(call.page), querying_range)
      BY <1>3, <2>1, <2>3 DEF AnswerOK
    <3>2. Max(call.page) \in history /\ Max(call.page) \in Window /\ Max(call.page) \in Times
      BY <1>1, <2>1, <3>1 DEF AnswerOK, TimedDataTypeOK
    <3>3. Max(call.page) \in Int /\ Max(call.page) # None
      BY <3>2, TimesAreNumbers
    <3>4. ReadyTo = Max(call.page)
      BY <1>2, <3>1, <3>2, <3>3 DEF Clamp, Window
    <3> QED BY <3>1, <3>2, <3>3, <3>4
  <2>4. ASSUME ReadyTo # None
        PROVE  /\ querying_range[1]..ReadyTo \subseteq Window
               /\ history \cap (querying_range[1]..ReadyTo) \subseteq values \cup call.page
    <3>1. ReadyTo \in Int /\ ReadyTo <= querying_range[2]
      BY <1>3, <2>4, TimesAreNumbers
    <3>2. querying_range[1]..ReadyTo \subseteq Window
      BY <1>2, <3>1 DEF Window
    <3>3. CASE call.more
      BY <2>1, <2>3, <3>2, <3>3 DEF AnswerOK
    <3>4. CASE ~call.more
      BY <2>1, <3>2, <3>4 DEF AnswerOK
    <3> QED BY <3>2, <3>3, <3>4
  <2>5. /\ ready \subseteq Observed /\ Filled(ready)
        /\ SegmentsOf(querying_range) \subseteq Observed /\ Window \subseteq HullTimes(Observed)
        /\ ready' \subseteq ready \cup read
    BY <1>1, <1>6, <2>1 DEF OrderlyInv, QueryOK
  <2>6. ready' \subseteq Observed'
    BY <1>4, <1>7, <2>5
  <2>7. ASSUME NEW s \in ready'
        PROVE  history \cap {s, s + 1} \subseteq values'
    <3>1. {s, s + 1} \subseteq HullTimes(Observed)
      BY <1>4, <2>6, HullCovers
    <3>2. history \cap {s, s + 1} \subseteq values \cup call.page
      <4>1. CASE s \in ready
        BY <2>5, <4>1 DEF Filled
      <4>2. CASE s \in read
        <5>1. ReadyTo # None /\ s \in querying_range[1]..(ReadyTo - 1)
          BY <4>2 DEF read, SegmentsOf
        <5>2. ReadyTo \in Int
          BY <1>3, <5>1, TimesAreNumbers
        <5>3. {s, s + 1} \subseteq querying_range[1]..ReadyTo
          BY <1>2, <5>1, <5>2
        <5> QED BY <2>4, <5>1, <5>3
      <4> QED BY <2>5, <4>1, <4>2
    <3> QED BY <2>2, <3>1, <3>2
  <2>8. ASSUME querying' PROVE QueryOK'
    <3>1. /\ SegmentsOf(querying_range') \subseteq Observed
          /\ querying_range'[1]..querying_range'[2] \subseteq HullTimes(Observed)
          /\ call'.continues => call.more /\ querying_range' = rest
      BY <1>8, <2>8 DEF QueryIs
    <3>2. ASSUME call'.continues
          PROVE  querying_range'[1] \in values'
      <4>1. querying_range'[1] = ReadyTo /\ ReadyTo \in call.page
            /\ ReadyTo \in history /\ ReadyTo \in Window
        BY <2>3, <3>1, <3>2 DEF rest
      <4> QED BY <2>2, <2>5, <4>1
    <3> QED BY <1>4, <3>1, <3>2 DEF QueryOK, Window
  <2>9. call'.state # "answered"
    BY <1>8, QueryIsTyped
  <2>10. Filled(ready)'
    BY <1>1, <2>7 DEF Filled
  <2>11. Observed' # {} => historical'
    BY <1>1, <1>4, <2>1 DEF OrderlyInv
  <2>12. current' \in history' \cup {None}
    BY <1>1, <2>1 DEF OrderlyInv
  <2> QED BY <2>6, <2>8, <2>9, <2>10, <2>11, <2>12 DEF OrderlyInv
<1> QED BY <1>1, <1>9, <1>10 DEF SeriesInv

LEMMA SeriesStep ==
    ASSUME SeriesInv, [Next]_vars
    PROVE  SeriesInv'
<1>1. CASE NodeDeleted
  BY <1>1 DEF NodeDeleted, bufferVars, currentVars, fetcherVars, SeriesInv, TypesInv,
      TimedDataTypeOK, OrderlyInv, Filled, QueryOK, AnswerOK, Window, Observed
<1>2. CASE UNCHANGED vars
  BY <1>2 DEF vars, bufferVars, currentVars, fetcherVars, SeriesInv, TypesInv,
      TimedDataTypeOK, OrderlyInv, Filled, QueryOK, AnswerOK, Window, Observed
<1> QED
  BY <1>1, <1>2, ObserverKeepsSeries, LiveSampleKeepsSeries, AnswerKeepsSeries,
     FailureKeepsSeries, CompletionKeepsSeries DEF Next

LEMMA SeriesInit == Init => SeriesInv
<1> SUFFICES ASSUME Init PROVE SeriesInv
  OBVIOUS
<1>1. 0 \in Times /\ Recorded \subseteq Times
  BY TimedDataAssumption DEF TimedDataAssumption, Times
<1>2. /\ querying_range \in Times \X Times /\ querying_range[1] = 0 /\ querying_range[2] = 0
      /\ call = [state |-> "none", continues |-> FALSE, page |-> {}, more |-> FALSE]
  BY <1>1 DEF Init, NoCall
<1>3. querying_range[1] <= querying_range[2]
  BY <1>2
<1>4. call \in Call /\ call.state = "none" /\ call.page = {}
  BY <1>2 DEF Call
<1>5. TypesInv
  BY <1>1, <1>2, <1>3, <1>4 DEF Init, TypesInv, TimedDataTypeOK
<1>6. Observed = {}
  BY DEF Init, Observed, ObservedOf
<1> QED BY <1>4, <1>5, <1>6 DEF Init, SeriesInv, OrderlyInv, Filled

THEOREM SeriesInvariant == Spec => []SeriesInv
  BY SeriesInit, SeriesStep, PTL DEF Spec

\* The samples the buffer keeps, the ranges it calls ready, the query under way and
\* its answer are times and ranges of the series, and a query is under way exactly
\* when a call is.
THEOREM SeriesTypes == Spec => []TimedDataTypeOK
<1>1. SeriesInv => TimedDataTypeOK
  BY DEF SeriesInv, TypesInv
<1> QED BY <1>1, SeriesInvariant, PTL

\* While no read fails, no observer narrows its range and samples come in the order of
\* their times, every recorded sample of a range that counts as ready is in the
\* buffer: through pages, continued and cancelled queries, trimming, and live samples
\* that arrive while an answer is on its way.
THEOREM OrderlyRangesAreFilled == Spec => []OrderlyReadyRangesAreFilled
<1>1. SeriesInv => OrderlyReadyRangesAreFilled
  BY DEF SeriesInv, OrderlyInv, Filled, OrderlyReadyRangesAreFilled, ReadyRangesAreFilled
<1> QED BY <1>1, SeriesInvariant, PTL
=============================================================================
