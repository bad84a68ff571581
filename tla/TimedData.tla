----------------------------- MODULE TimedData ------------------------------
(***************************************************************************)
(* A time series the client watches: BasicTimedDataBuffer with its         *)
(* retention, BaseTimedData's current value and TimedDataFetcher, which    *)
(* reads the observed ranges that are not ready from the history service.  *)
(*                                                                         *)
(* Times are 0..Last.  A sample is its timestamp; a union of intervals is  *)
(* the set of unit segments it covers, segment s being [s, s + 1].         *)
(* The retention policy is the default one, the only one src/ sets.        *)
(***************************************************************************)
EXTENDS Integers, FiniteSetsExt

CONSTANTS
    Observers,
    Last,         \* bound: the last time
    Ranges,       \* the intervals observers ask for
    Recorded,     \* samples the server has from before
    PageSize      \* kMaxReadCount, as the server applies it

Times == 0..Last
Segments == 0..(Last - 1)

ASSUME TimedDataAssumption ==
    /\ Last \in Nat \ {0} /\ PageSize \in Nat \ {0}
    /\ Recorded \subseteq Times
    /\ Ranges \subseteq {r \in Times \X Times : r[1] < r[2]}

None == -1                    \* no time
CurrentOnly == <<None, None>> \* kTimedDataCurrentOnly: no history wanted

SegmentsOf(r) == r[1]..(r[2] - 1)

VARIABLES
    orderly,          \* environment: see ObserverSets, LiveSample and ReadFails
    history,          \* server: the recorded samples
    observer_ranges,  \* observer_ranges_
    ready,            \* ready_ranges_
    values,           \* values_
    current,          \* current_: the time of the newest sample seen
    historical,       \* historical_
    node,             \* the fetcher has its node
    querying,         \* querying_
    querying_range,   \* querying_range_
    call              \* the HistoryReadRaw under way

bufferVars == <<ready, values>>
currentVars == <<current, historical>>
fetcherVars == <<querying, querying_range, call>>
vars == <<orderly, history, observer_ranges, bufferVars, currentVars, node, fetcherVars>>

\* A call asks for the samples of a range, a continued one for those after its start.
NoCall == [state |-> "none", continues |-> FALSE, page |-> {}, more |-> FALSE]
Asked(continues) == [NoCall EXCEPT !.state = "asked", !.continues = continues]

TimedDataTypeOK ==
    /\ history \subseteq Times /\ values \subseteq Times
    /\ observer_ranges \in [Observers -> Ranges \cup {CurrentOnly}]
    /\ ready \subseteq Segments
    /\ current \in Times \cup {None}
    /\ orderly \in BOOLEAN /\ historical \in BOOLEAN /\ node \in BOOLEAN /\ querying \in BOOLEAN
    /\ querying_range \in Times \X Times /\ querying_range[1] <= querying_range[2]
    /\ call.state \in {"none", "asked", "answered"} /\ call.page \subseteq Times
    /\ querying <=> call.state # "none"

Init ==
    /\ orderly \in BOOLEAN
    /\ history = Recorded
    /\ observer_ranges = [o \in Observers |-> CurrentOnly]
    /\ ready = {} /\ values = {}
    /\ current = None /\ historical = FALSE
    /\ node = TRUE
    /\ querying = FALSE /\ querying_range = <<0, 0>> /\ call = NoCall

-----------------------------------------------------------------------------
(* BasicTimedDataBuffer.                                                   *)

ObservedOf(ranges) ==
    UNION {SegmentsOf(ranges[o]) : o \in {x \in Observers : ranges[x] # CurrentOnly}}

Observed == ObservedOf(observer_ranges)

\* The samples within the covering hull of the observed segments.
HullTimes(observed) ==
    IF observed = {} THEN {} ELSE Min(observed)..(Max(observed) + 1)

\* TrimToObservedRanges, for a buffer with samples vs and ready segments rs.  Without
\* samples nothing is trimmed, the ready ranges neither.
Trimmed(vs, rs, observed) ==
    IF vs = {} THEN [values |-> vs, ready |-> rs]
    ELSE [values |-> vs \cap HullTimes(observed),
          ready |-> {s \in rs : {s, s + 1} \subseteq HullTimes(observed)}]

\* ReplaceRange: the batch replaces what lies between its ends.
Replaced(vs, batch) ==
    IF batch = {} THEN vs ELSE (vs \ (Min(batch)..Max(batch))) \cup batch

\* FindNextGap: the first observed interval with a part that is not ready, and there
\* the first such part.  Adjacent ranges are one interval.
Gap(observed, rs) ==
    LET missing == observed \ rs
        first == Min(missing)
        last == Max({s \in missing : first..s \subseteq missing})
    IN  <<first, last + 1>>

-----------------------------------------------------------------------------
(* TimedDataFetcher.                                                       *)

HasGap(observed, rs) == node /\ observed \ rs # {}

\* No query.  querying_range_ means nothing then, and the code leaves it as it was.
Idle ==
    /\ querying' = FALSE
    /\ querying_range' = <<0, 0>>
    /\ call' = NoCall

Query(range, continues) ==
    /\ querying' = TRUE
    /\ querying_range' = range
    /\ call' = Asked(continues)

\* FetchNextGap when no query is under way.
StartQuery(observed, rs) ==
    IF HasGap(observed, rs) THEN Query(Gap(observed, rs), FALSE) ELSE Idle

FetchNextGap(observed, rs) ==
    IF querying THEN UNCHANGED fetcherVars ELSE StartQuery(observed, rs)

FirstGapContains(range, observed, rs) ==
    /\ HasGap(observed, rs)
    /\ Gap(observed, rs)[1] <= range[1] /\ range[2] <= Gap(observed, rs)[2]

\* Mutant: a query that is cancelled is not followed by another.
FetchMoreGivesUp(range, observed, rs) ==
    IF FirstGapContains(range, observed, rs) THEN Query(range, TRUE) ELSE Idle

\* FetchMore with the rest of the query: it goes on while the first gap contains it;
\* a query that interests nobody any more makes way for the next gap.
FetchMore(range, observed, rs) ==
    IF FirstGapContains(range, observed, rs) THEN Query(range, TRUE)
                                             ELSE StartQuery(observed, rs)

Clamp(t, range) == IF t < range[1] THEN range[1] ELSE IF t > range[2] THEN range[2] ELSE t

\* Mutant: the server's timestamps are trusted.
ReadyToUnclamped ==
    IF ~call.more THEN querying_range[2]
    ELSE IF call.page # {} THEN Max(call.page)
    ELSE None

\* Mutant: a page makes the whole query ready.
ReadyToTheEnd == querying_range[2]

\* The end of what the page makes ready; None when it says nothing.
ReadyTo ==
    IF ~call.more THEN querying_range[2]
    ELSE IF call.page # {} THEN Clamp(Max(call.page), querying_range)
    ELSE None

\* OnHistoryReadRawComplete.  The status of the read is not looked at.
OnHistoryReadRawComplete ==
    LET trimmed == Trimmed(Replaced(values, call.page), ready, Observed)
        rest == <<IF ReadyTo = None THEN querying_range[1] ELSE ReadyTo, querying_range[2]>>
    IN  /\ call.state = "answered"
        /\ values' = IF call.page = {} THEN values ELSE trimmed.values
        /\ ready' = (IF call.page = {} THEN ready ELSE trimmed.ready)
                    \cup (IF ReadyTo = None THEN {} ELSE SegmentsOf(<<querying_range[1], ReadyTo>>))
        /\ IF call.more THEN FetchMore(rest, Observed, ready')
                        ELSE StartQuery(Observed, ready')
        /\ UNCHANGED <<orderly, history, observer_ranges, currentVars, node>>

-----------------------------------------------------------------------------
(* The history service (external).                                         *)

\* A page in time order; a server that is not orderly may add a sample past the end.
ServerAnswers ==
    LET from == querying_range[1]
        wanted == {t \in history : /\ t > from \/ (t = from /\ ~call.continues)
                                   /\ t <= querying_range[2]}
        page == {t \in wanted : Cardinality({u \in wanted : u <= t}) <= PageSize}
        beyond == {t \in history : t > querying_range[2]}
    IN  /\ call.state = "asked"
        /\ \E extra \in IF orderly \/ beyond = {} THEN {{}} ELSE {{}, {Min(beyond)}} :
              call' = [call EXCEPT !.state = "answered", !.page = page \cup extra,
                                   !.more = page # wanted]
        /\ UNCHANGED <<orderly, history, observer_ranges, bufferVars, currentVars, node,
                       querying, querying_range>>

\* A failed read has no samples and no continuation point.
ReadFails ==
    /\ ~orderly
    /\ call.state = "asked"
    /\ call' = [call EXCEPT !.state = "answered", !.page = {}, !.more = FALSE]
    /\ UNCHANGED <<orderly, history, observer_ranges, bufferVars, currentVars, node,
                   querying, querying_range>>

\* The server records a sample of a new value and the monitored item brings it:
\* OnChannelData.  A newer one becomes current and joins a historical buffer, an older
\* one joins always.  Samples of a failed item, which only notify, are left out.
LiveSample(t) ==
    /\ t \notin history /\ t # current
    /\ orderly => \A u \in history : u < t
    /\ history' = history \cup {t}
    /\ IF t > current
       THEN /\ current' = t
            /\ values' = IF historical THEN values \cup {t} ELSE values
       ELSE /\ values' = values \cup {t}
            /\ UNCHANGED current
    /\ UNCHANGED <<orderly, observer_ranges, ready, historical, node, fetcherVars>>

-----------------------------------------------------------------------------
(* Observers.                                                              *)

WantedBy(r) == IF r = CurrentOnly THEN {} ELSE SegmentsOf(r)

\* Mutant: the new ranges wait for the next answer.
ObserverSetsOnly(o, r) ==
    LET ranges == [observer_ranges EXCEPT ![o] = r]
        observed == ObservedOf(ranges)
        trimmed == Trimmed(values, ready, observed)
    IN  /\ orderly => WantedBy(observer_ranges[o]) \subseteq WantedBy(r)
        /\ observer_ranges' = ranges
        /\ historical' = (historical \/ observed # {})
        /\ values' = trimmed.values
        /\ ready' = trimmed.ready
        /\ UNCHANGED <<orderly, history, current, node, fetcherVars>>

\* AddObserver; RemoveObserver is the same as CurrentOnly.  The
\* buffer trims, BaseTimedData puts the current sample in, and the fetcher looks for
\* a gap.  Orderly observers only widen.
ObserverSets(o, r) ==
    LET ranges == [observer_ranges EXCEPT ![o] = r]
        observed == ObservedOf(ranges)
        trimmed == Trimmed(values, ready, observed)
    IN  /\ orderly => WantedBy(observer_ranges[o]) \subseteq WantedBy(r)
        /\ observer_ranges' = ranges
        /\ historical' = (historical \/ observed # {})
        /\ values' = IF historical' /\ current # None THEN trimmed.values \cup {current}
                                                      ELSE trimmed.values
        /\ ready' = trimmed.ready
        /\ FetchNextGap(observed, ready')
        /\ UNCHANGED <<orderly, history, current, node>>

\* OnModelChanged with NodeDeleted: SetNode(nullptr).
NodeDeleted ==
    /\ node
    /\ node' = FALSE
    /\ UNCHANGED <<orderly, history, observer_ranges, bufferVars, currentVars, fetcherVars>>

-----------------------------------------------------------------------------
Next ==
    \/ \E o \in Observers, r \in Ranges \cup {CurrentOnly} : ObserverSets(o, r)
    \/ \E t \in Times : LiveSample(t)
    \/ ServerAnswers
    \/ ReadFails
    \/ OnHistoryReadRawComplete
    \/ NodeDeleted

Spec == Init /\ [][Next]_vars

\* The service answers and the executor runs the coroutine.
Fairness == WF_vars(ServerAnswers \/ ReadFails) /\ WF_vars(OnHistoryReadRawComplete)

FairSpec == Spec /\ Fairness

-----------------------------------------------------------------------------
(* Properties.                                                             *)

\* No gap is forgotten: while an observed range is not ready a query is under way,
\* whatever was trimmed, cancelled or widened since it started.
NoGapIsForgotten == (node /\ Observed \ ready # {}) => querying

\* What is ready is filled: the buffer has every recorded sample of the ready
\* observed ranges.
ReadyRangesAreFilled ==
    \A s \in ready \cap Observed : history \cap {s, s + 1} \subseteq values

\* So it is as long as no read fails, no observer narrows its range and samples come
\* in the order of their times - through pages, cancelled queries and live samples
\* that arrive in between.
OrderlyReadyRangesAreFilled == orderly => ReadyRangesAreFilled

\* A range that observers go on looking at gets ready, unless the node goes.
ObservedGetsReady ==
    \A s \in Segments :
        (orderly /\ node /\ s \in Observed) ~> (s \in ready \/ ~node)

=============================================================================
