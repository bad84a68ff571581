----------------------------- MODULE Aggregation -----------------------------
(***************************************************************************)
(* AggregateState: the history of a node, read in pages of raw samples in  *)
(* either direction of time, becomes one value per processing interval.    *)
(*                                                                         *)
(* All the aggregate functions run side by side here: an aggregated value  *)
(* holds the result of each, Average being total / count.  Samples are     *)
(* numbers; a value of any other type counts and adds nothing.             *)
(***************************************************************************)
EXTENDS Integers, SequencesExt

CONSTANTS
    Times,        \* the times samples may have
    Values,       \* even numbers, so that 1 stands for the least positive double
    Origin,       \* aggregation.start_time
    Intervals,    \* what aggregation.interval may be: it comes unchecked from requests
    MaxSamples    \* bound: the samples of a history

ASSUME AggregationAssumption ==
    /\ Times \subseteq Nat /\ Origin \in Nat /\ Intervals \subseteq Int /\ MaxSamples \in Nat
    /\ Values \subseteq Int /\ \A v \in Values : v % 2 = 0
    /\ \E v \in Values : \A w \in Values : v >= w

LeastPositive == 1                              \* numeric_limits<Double>::min()
Greatest == 1 + CHOOSE v \in Values : \A w \in Values : v >= w   \* ...::max()

NoInterval == <<>>
NoAggregator == [count |-> -1]
NoValue == [interval |-> NoInterval]

VARIABLES
    forward,              \* forward
    spacing,              \* aggregation.interval
    known,                \* aggregation.aggregate_type names an aggregate
    samples,              \* the whole history, in the order it is read
    coming,               \* what is still to be read of it
    raw_span,             \* what is left of the page in Process
    aggregator_interval,  \* aggregator_interval
    aggregator,           \* aggregator, with what it has captured
    aggregated_value,     \* aggregated_value
    data_values,          \* data_values: what is told
    outcome               \* "reading", "finished", or how Process broke down

input == <<forward, spacing, known, samples>>
state == <<aggregator_interval, aggregator, aggregated_value, data_values>>
vars == <<input, coming, raw_span, state, outcome>>

-----------------------------------------------------------------------------
\* Samples are ordered by time, in the direction of the read, with no duplicates.
Ordered(s, onward) ==
    \A i, j \in 1..Len(s) : i < j => IF onward THEN s[i].time < s[j].time
                                               ELSE s[i].time > s[j].time

Histories(onward) ==
    {s \in BoundedSeq([time : Times, value : Values], MaxSamples) : Ordered(s, onward)}

Init ==
    /\ forward \in BOOLEAN /\ known \in BOOLEAN /\ spacing \in Intervals
    /\ samples \in Histories(forward)
    /\ coming = samples /\ raw_span = <<>>
    /\ aggregator_interval = NoInterval /\ aggregator = NoAggregator
    /\ aggregated_value = NoValue /\ data_values = <<>>
    /\ outcome = "reading"

-----------------------------------------------------------------------------
\* C++'s % has the sign of the dividend, so that a negative interval divides time
\* as its opposite does, and ends before it starts.
Period == IF spacing < 0 THEN -spacing ELSE spacing

GetAggregateInterval(time) ==
    IF spacing = 0 THEN <<time, time>>
    ELSE IF time < Origin THEN <<Origin, Origin + spacing>>
    ELSE LET start == time - ((time - Origin) % Period) IN <<start, start + spacing>>

\* Mutant: the sample on the start of the interval is left to the next one.
MutantReverse(span, time) == Cardinality({i \in 1..Len(span) : span[i].time > time})

\* The samples of a span up to the end of the interval, or down to its start.
UpperBound(span, time) == Cardinality({i \in 1..Len(span) : span[i].time <= time})
ReverseUpperBound(span, time) == Cardinality({i \in 1..Len(span) : span[i].time >= time})

InInterval(span, interval) ==
    IF forward THEN UpperBound(span, interval[2]) ELSE ReverseUpperBound(span, interval[1])

\* What the aggregators capture before the first span and after each.
MakeAggregator ==
    [count |-> 0, total |-> 0, low |-> Greatest, high |-> LeastPositive, front |-> 0, back |-> 0]

Lesser(a, b) == IF b < a THEN b ELSE a
Larger(a, b) == IF b > a THEN b ELSE a

Add(a, sample) ==
    [count |-> a.count + 1,
     total |-> a.total + sample.value,
     low   |-> Lesser(a.low, sample.value),
     high  |-> Larger(a.high, sample.value),
     front |-> IF a.count = 0 THEN sample.value ELSE a.front,
     back  |-> sample.value]

\* Mutant: each page begins the interval anew for MakeFrontAggregator.
MutantAggregate(a, span) == [FoldLeft(Add, a, span) EXCEPT !.front = span[1].value]

Aggregate(a, span) ==
    LET after[n \in 0..Len(span)] == IF n = 0 THEN a ELSE Add(after[n - 1], span[n])
    IN  after[Len(span)]

\* The DataValue an aggregator returns, with the ends of the interval as timestamps.
ResultOf(a, interval) ==
    [interval |-> interval, count |-> a.count, total |-> a.total, low |-> a.low, high |-> a.high,
     start |-> IF forward THEN a.front ELSE a.back,
     end   |-> IF forward THEN a.back ELSE a.front]

\* Mutant: the value at hand is forgotten when the next interval begins.
MutantTold == data_values

\* data_values with the value at hand, if there is one.
Told == IF aggregated_value = NoValue THEN data_values ELSE Append(data_values, aggregated_value)

-----------------------------------------------------------------------------
\* The caller hands the next page to Process.
ReadPage(n) ==
    /\ outcome = "reading" /\ raw_span = <<>> /\ n \in 1..Len(coming)
    /\ raw_span' = SubSeq(coming, 1, n)
    /\ coming' = SubSeq(coming, n + 1, Len(coming))
    /\ UNCHANGED <<input, state, outcome>>

BreakDown(how) ==
    /\ outcome' = how
    /\ UNCHANGED <<input, coming, raw_span, state>>

\* One turn of Process with the aggregator of the interval at hand.
Continue(count) ==
    LET a == Aggregate(aggregator, SubSeq(raw_span, 1, count))
    IN  /\ aggregator' = a
        /\ aggregated_value' = ResultOf(a, aggregator_interval)
        /\ raw_span' = SubSeq(raw_span, count + 1, Len(raw_span))
        /\ UNCHANGED <<input, coming, aggregator_interval, data_values, outcome>>

\* One turn that comes to another interval.
StartInterval(interval, count) ==
    LET a == Aggregate(MakeAggregator, SubSeq(raw_span, 1, count))
    IN  /\ data_values' = Told
        /\ aggregator_interval' = interval
        /\ aggregator' = a
        /\ aggregated_value' = ResultOf(a, interval)
        /\ raw_span' = SubSeq(raw_span, count + 1, Len(raw_span))
        /\ UNCHANGED <<input, coming, outcome>>

\* The same for a type that names no aggregate: the rest of the page is left.
StartNothing(interval) ==
    /\ data_values' = Told
    /\ aggregator_interval' = interval
    /\ aggregator' = NoAggregator
    /\ aggregated_value' = NoValue
    /\ raw_span' = <<>>
    /\ UNCHANGED <<input, coming, outcome>>

Process ==
    /\ outcome = "reading" /\ raw_span # <<>>
    /\ LET interval == GetAggregateInterval(raw_span[1].time)
           count    == InInterval(raw_span, interval)
       IN  \/ count = 0 /\ BreakDown("check failed")
           \/ count > 0 /\ interval # aggregator_interval /\ known /\ StartInterval(interval, count)
           \/ count > 0 /\ interval # aggregator_interval /\ ~known /\ StartNothing(interval)
           \/ count > 0 /\ interval = aggregator_interval /\ known /\ Continue(count)
           \* an empty function is called
           \/ count > 0 /\ interval = aggregator_interval /\ ~known /\ BreakDown("bad call")

\* The caller has no more pages.
Finish ==
    /\ outcome = "reading" /\ raw_span = <<>> /\ coming = <<>>
    /\ data_values' = Told
    /\ outcome' = "finished"
    /\ UNCHANGED <<input, coming, raw_span, aggregator_interval, aggregator, aggregated_value>>

Next == (\E n \in 1..MaxSamples : ReadPage(n)) \/ Process \/ Finish

Spec == Init /\ [][Next]_vars

-----------------------------------------------------------------------------
(* Properties.                                                             *)

\* What is told already and what is at hand.
AllTold ==
    IF outcome = "finished" \/ aggregated_value = NoValue THEN data_values
    ELSE Append(data_values, aggregated_value)

\* The samples that have gone into what is told.
Counted(told) ==
    LET upto[n \in 0..Len(told)] == IF n = 0 THEN 0 ELSE upto[n - 1] + told[n].count
    IN  upto[Len(told)]

\* AggregateState::Process, whatever the pages are: each sample is in exactly one
\* aggregated value, and no interval is told twice or out of the order of the read.
EverySampleIsCountedOnce ==
    LET told == AllTold IN
    /\ known => Counted(told) = Len(samples) - Len(coming) - Len(raw_span)
    /\ \A i, j \in 1..Len(told) :
          i < j => IF forward THEN told[i].interval[1] < told[j].interval[1]
                              ELSE told[i].interval[1] > told[j].interval[1]

\* Process comes to no harm but in three ways: a backward read that goes past the
\* start time of the aggregation, a forward read by intervals that end before
\* they start, past the end of the first of them, and an aggregate nobody knows.
BreaksDownOnlyAsKnown ==
    /\ outcome = "check failed" =>
          \/ /\ ~forward /\ spacing # 0
             /\ \E i \in 1..Len(samples) : samples[i].time < Origin
          \/ /\ forward /\ spacing < 0
             /\ \E i \in 1..Len(samples) : samples[i].time > Origin + spacing
    /\ outcome = "bad call" => ~known

\* What an interval should come to, from the samples in it and no page in sight.
Own(interval) == {i \in 1..Len(samples) : GetAggregateInterval(samples[i].time) = interval}

TotalOf(interval, last) ==
    LET upto[n \in 0..Len(samples)] ==
            IF n = 0 THEN 0
            ELSE upto[n - 1] + (IF n \in Own(interval) THEN samples[n].value ELSE 0)
    IN  upto[last]

Reference(interval) ==
    LET own    == Own(interval)
        values == {samples[i].value : i \in own}
        times  == {samples[i].time : i \in own}
        At(t)  == samples[CHOOSE i \in own : samples[i].time = t].value
    IN  [interval |-> interval,
         count |-> Cardinality(own),
         total |-> TotalOf(interval, Len(samples)),
         low   |-> Min(values),
         high  |-> Max(values),
         start |-> At(Min(times)),
         end   |-> At(Max(times))]

\* A sample on the border of two intervals goes to the one before if Process meets
\* it together with samples of that one, and to its own otherwise.
BorderIsShared ==
    /\ forward /\ spacing > 0
    /\ \E i, j \in 1..Len(samples) :
          samples[j].time = GetAggregateInterval(samples[i].time)[2]

\* Pages do not show: the values told are those of the intervals, provided that no
\* sample lies where two intervals meet.  Maximum of values that are not positive
\* is left out, it comes out as the least positive double.
PagingDoesNotShow ==
    (outcome = "finished" /\ known /\ ~BorderIsShared) =>
        /\ {data_values[i].interval : i \in 1..Len(data_values)}
              = {GetAggregateInterval(samples[i].time) : i \in 1..Len(samples)}
        /\ \A i \in 1..Len(data_values) :
              LET told == data_values[i]
                  due  == Reference(told.interval)
              IN  IF due.high > 0 THEN told = due
                                  ELSE told = [due EXCEPT !.high = LeastPositive]

=============================================================================
