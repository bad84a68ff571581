--------------------------- MODULE TimedDataService ---------------------------
(***************************************************************************)
(* The timed data service and what its clients hold: TimedDataServiceImpl, *)
(* AliasTimedData, ExpressionTimedData and TimedDataSpec, over the timed   *)
(* data of nodes as their observers see it (TimedData has its buffer and   *)
(* its fetcher).                                                           *)
(*                                                                         *)
(* A timed data is known by its name: while anybody refers to the timed    *)
(* data of a node or an alias the caches keep it, so there is one at most. *)
(* Each Connect to a formula makes an expression of its own.  An observer  *)
(* is registered with observers_ and with the buffer's observer_ranges_    *)
(* together.  Values are told apart by the sample they come from; of a     *)
(* range it matters whether it is historical.                              *)
(***************************************************************************)
EXTENDS Naturals

CONSTANTS
  Nodes,
  Aliases,
  Expressions,  \* the expressions there can be at once
  Operands,     \* Expressions -> SUBSET (Nodes \cup Aliases): the formula's names
  Specs,        \* the TimedDataSpecs of the clients
  None,         \* no data
  Broken,       \* null_timed_data_, and a formula that cannot be parsed
  MaxSamples    \* bound: the samples a node's timed data receives

\* A formula that names a node, one that names an alias and one that has to be
\* calculated are told apart, and a spec is not an expression.
ASSUME ServiceAssumption ==
  /\ Operands \in [Expressions -> SUBSET (Nodes \cup Aliases)]
  /\ MaxSamples \in Nat
  /\ Nodes \cap Aliases = {} /\ Expressions \cap (Nodes \cup Aliases \cup Specs) = {}
  /\ Broken \notin Nodes \cup Aliases \cup Expressions
  /\ None \notin Nodes \cup Aliases \cup Expressions \cup {Broken}
  /\ Nodes \cap {"own", "deferred", "error"} = {}

VARIABLES
  data,      \* the timed data there is, by name
  spec,      \* data_ and range_ of each spec
  told,      \* ghost: the current value each spec read last, when it was
             \* connected or notified
  loose,     \* ghost: specs reconnected to what they observed already under
             \* another name, or assigned another range of the same data
  aborted    \* why a Check failed

vars == <<data, spec, told, loose, aborted>>

Ranges == {"current", "history"}
NoValue == [sample |-> 0, good |-> TRUE]

\* A new timed data: its own, except that an alias waits for its node.
New(name) ==
  [to |-> CASE name \in Aliases -> "deferred" [] name = Broken -> "error" [] OTHER -> "own",
   current |-> NoValue, historical |-> FALSE, node |-> TRUE, subscribed |-> TRUE,
   observers |-> [o \in {} |-> "current"]]

\* GetNodeTimedData, GetAliasTimedData: what the cache has, or a new one.
Cached(D, names) ==
  [n \in DOMAIN D \cup names |-> IF n \in DOMAIN D THEN D[n] ELSE New(n)]

\* forwarded(): the timed data that has the observers.
Terminal(D, name) == IF D[name].to \in Nodes THEN D[name].to ELSE name

Terminals(D, names) == {Terminal(D, n) : n \in names}

GetDataValue(D, name) == D[Terminal(D, name)].current

-----------------------------------------------------------------------------
(* ExpressionTimedData.                                                    *)

\* A value without a time counts as no value.
Calculated(D, e) ==
  [op \in Operands[e] |-> IF GetDataValue(D, op).sample = 0 THEN NoValue
                                                           ELSE GetDataValue(D, op)]

CalculateCurrent(D, expressions) ==
  [n \in DOMAIN D |-> IF n \in expressions THEN [D[n] EXCEPT !.current = Calculated(D, n)]
                                           ELSE D[n]]

\* An expression observes its operands, but is neither historical enough for
\* OnTimedDataUpdates (ready_from_ stays kTimedDataCurrentOnly) nor, unless
\* somebody asked for its history, for OnTimedDataReady.
Notified(D, nodes) ==
  \E n \in nodes : DOMAIN D[n].observers \cap Expressions # {}

-----------------------------------------------------------------------------
(* Observers of BaseTimedData and AliasTimedData.  A world is the timed    *)
(* data there is and why a Check failed, if one did.                       *)

World(D, failed) == [data |-> D, failed |-> failed]

\* observers_ with the range of each in observer_ranges_.
Registered(observers, o, range) ==
  [x \in DOMAIN observers \cup {o} |-> IF x = o THEN range ELSE observers[x]]

Unregistered(observers, o) == [x \in DOMAIN observers \ {o} |-> observers[x]]

\* UpdateObservedRanges of the data at: once historical, always historical;
\* an expression registers with its operands anew and calculates.
Updated(D, at) ==
  LET own == {n \in at : D[n].to = "own"}
      H == [n \in DOMAIN D |->
              IF n \in own
                THEN [D[n] EXCEPT !.historical =
                        @ \/ \E o \in DOMAIN D[n].observers : D[n].observers[o] = "history"]
                ELSE D[n]]
  IN  CalculateCurrent(H, own \cap Expressions)

\* It also puts the current value of historical data into its buffer, which
\* tells every observer, whatever range it asked for.
Inserts(D, at) ==
  LET reached == at \cup UNION {Terminals(D, Operands[e]) : e \in at \cap Expressions}
  IN  {n \in reached \cap Nodes : D[n].historical /\ D[n].current.sample > 0}

UpdateObservedRanges(w, at) ==
  LET D == Updated(w.data, at)
  IN  World(D, IF w.failed = "no" /\ Notified(D, Inserts(D, at)) THEN "notified"
                                                                ELSE w.failed)

AddObserver(w, at, o, range) ==
  UpdateObservedRanges(
    World([n \in DOMAIN w.data |->
             IF n \in at /\ w.data[n].to # "error"
               THEN [w.data[n] EXCEPT !.observers = Registered(@, o, range)]
               ELSE w.data[n]],
          w.failed), at)

RemoveObserver(w, at, o) ==
  UpdateObservedRanges(
    World([n \in DOMAIN w.data |->
             IF n \in at
               THEN [w.data[n] EXCEPT !.observers = Unregistered(@, o)]
               ELSE w.data[n]],
          w.failed), at)

\* The destructor checks that nobody observes.
Destroyed(w, name) ==
  World([n \in DOMAIN w.data \ {name} |-> w.data[n]],
        IF w.failed = "no" /\ DOMAIN w.data[name].observers # {} THEN "destroyed"
                                                                ELSE w.failed)

\* GetFormulaTimedData, GetNodeTimedData.
Made(w, name) ==
  IF name \in Expressions
    THEN LET D == Cached(w.data, Operands[name] \cup {name})
             observing == AddObserver(World(D, w.failed), Terminals(D, Operands[name]),
                                      name, "current")
         IN  World(CalculateCurrent(observing.data, {name}), observing.failed)
    ELSE World(Cached(w.data, {name}), w.failed)

\* Mutant: an expression dies registered with its operands.
MutantDropped(w, name) == Destroyed(w, name)

\* The last spec of an expression takes it along.
Dropped(w, name) ==
  Destroyed(RemoveObserver(w, Terminals(w.data, Operands[name]), name), name)

-----------------------------------------------------------------------------
(* TimedDataSpec.                                                          *)

\* SetData with range r: add to the new data first, then leave the old.
SetData(s, new, r) ==
  LET old == spec[s].data
      begun == World(data, aborted)
      made == IF new = None \/ new \in DOMAIN data THEN begun ELSE Made(begun, new)
      added == IF new = None THEN made
               ELSE AddObserver(made, {Terminal(made.data, new)}, s, r)
      left == IF old = None THEN added
              ELSE RemoveObserver(added, {Terminal(added.data, old)}, s)
      w == IF old \in Expressions /\ \A t \in Specs \ {s} : spec[t].data # old
             THEN Dropped(left, old)
             ELSE left
  IN  /\ data' = w.data
      /\ aborted' = w.failed
      /\ spec' = [spec EXCEPT ![s] = [data |-> new, range |-> r]]
      /\ told' = [told EXCEPT ![s] = IF new = None THEN NoValue
                                                   ELSE GetDataValue(w.data, new)]
      /\ loose' = IF new # None /\ old # None /\ Terminal(made.data, new)
                                                  = Terminal(made.data, old)
                    THEN loose \cup {s}
                    ELSE loose \ {s}

Reset(s) ==
  /\ spec[s].data # None
  /\ SetData(s, None, spec[s].range)

Connect(s, name) ==
  /\ name # spec[s].data
  /\ name \in Expressions => name \notin DOMAIN data
  /\ SetData(s, name, spec[s].range)

\* The copy constructor and operator=.  With the same data nothing is
\* registered, whatever the range.
Assign(s, t) ==
  /\ s # t
  /\ spec[s] # spec[t]
  /\ IF spec[s].data = spec[t].data
       THEN /\ spec' = [spec EXCEPT ![s] = spec[t]]
            /\ loose' = IF spec[s].data = None THEN loose ELSE loose \cup {s}
            /\ UNCHANGED <<data, told, aborted>>
       ELSE SetData(s, spec[t].data, spec[t].range)

SetRange(s, r) ==
  /\ r # spec[s].range
  /\ spec' = [spec EXCEPT ![s].range = r]
  /\ IF spec[s].data = None
       THEN UNCHANGED <<data, aborted>>
       ELSE LET w == AddObserver(World(data, aborted),
                                 {Terminal(data, spec[s].data)}, s, r)
            IN  data' = w.data /\ aborted' = w.failed
  /\ UNCHANGED <<told, loose>>

-----------------------------------------------------------------------------
(* Notifications.                                                          *)

\* NotifyPropertyChanged(PROPERTY_CURRENT): expressions calculate and tell
\* their own observers.
PropertyChanged(D, observers) ==
  LET expressions == observers \cap Expressions
      E == CalculateCurrent(D, expressions)
      reached == observers \cup UNION {DOMAIN E[e].observers : e \in expressions}
  IN  /\ data' = E
      /\ told' = [s \in Specs |-> IF s \in reached
                                    THEN GetDataValue(E, spec[s].data) ELSE told[s]]

\* Mutant: the observers move, and are not told that there is a node now.
MutantTellResolved(D, observers) == data' = D /\ UNCHANGED told

TellResolved(D, observers) == PropertyChanged(D, observers)

\* Mutant: observers that came before the answer stay with the alias.
MutantForwarded(D, a, to) == [D EXCEPT ![a].to = to]

\* The observers that waited register with those that are there.
Joined(observers, waiting) ==
  [x \in DOMAIN observers \cup DOMAIN waiting |->
     IF x \in DOMAIN waiting THEN waiting[x] ELSE observers[x]]

\* data_ = timed_data, and the observers with their ranges go along.
Forwarded(D, a, to) ==
  LET E == [D EXCEPT ![a].to = to, ![a].observers = New(a).observers]
  IN  IF to = "error" THEN E
      ELSE [E EXCEPT ![to].observers = Joined(@, D[a].observers)]

\* The resolver answers with a node, with a node id that nobody has, or with
\* an error.
SetForwarded(a, to) ==
  /\ a \in DOMAIN data
  /\ data[a].to = "deferred"
  /\ LET waiting == DOMAIN data[a].observers
         D == Forwarded(Cached(data, {to} \ {"error"}), a, to)
         w == IF waiting = {} \/ to = "error" THEN World(D, aborted)
              ELSE UpdateObservedRanges(World(D, aborted), {to})
     IN  /\ TellResolved(w.data, waiting)
         /\ aborted' = w.failed
  /\ UNCHANGED <<spec, loose>>

-----------------------------------------------------------------------------
(* TimedDataImpl.                                                          *)

Received(n) == data[n].current.sample

\* OnChannelData with a newer value; a change enters the buffer of
\* historical data.
Update(n, change) ==
  /\ n \in DOMAIN data
  /\ data[n].subscribed
  /\ Received(n) < MaxSamples
  /\ ~change => data[n].current.good /\ Received(n) > 0
  /\ LET D == [data EXCEPT ![n].current = [sample |-> Received(n) + 1, good |-> TRUE]]
     IN  PropertyChanged(D, DOMAIN data[n].observers)
  /\ aborted' = IF change /\ data[n].historical /\ Notified(data, {n}) THEN "notified"
                                                                      ELSE aborted
  /\ UNCHANGED <<spec, loose>>

\* OnChannelData with an older value, which goes to the buffer alone.
LateSample(n) ==
  /\ n \in DOMAIN data
  /\ data[n].subscribed
  /\ Received(n) > 0
  /\ aborted' = IF Notified(data, {n}) THEN "notified" ELSE aborted
  /\ UNCHANGED <<data, spec, told, loose>>

\* Delete: the current value goes bad, which observers hear of as a deletion,
\* and an expression does not listen to that.
Delete(D, n) ==
  LET E == [D EXCEPT ![n].current.good = FALSE]
      observers == DOMAIN E[n].observers
  IN  /\ data' = E
      /\ told' = [s \in Specs |-> IF s \in observers
                                    THEN GetDataValue(E, spec[s].data) ELSE told[s]]
      /\ UNCHANGED <<spec, loose, aborted>>

\* OnChannelData with a failed value.
ChannelFails(n) ==
  /\ n \in DOMAIN data
  /\ data[n].subscribed
  /\ Delete([data EXCEPT ![n].subscribed = FALSE], n)

\* OnModelChanged: the data stays in the cache, and subscribed.
NodeDeleted(n) ==
  /\ n \in DOMAIN data
  /\ data[n].node
  /\ Delete([data EXCEPT ![n].node = FALSE], n)

\* The fetcher has read a range: ReplaceRange, then AddReadyRange.
HistoryRead(n, empty) ==
  /\ n \in DOMAIN data
  /\ data[n].node
  /\ \E o \in DOMAIN data[n].observers : data[n].observers[o] = "history"
  /\ aborted' = IF \E e \in DOMAIN data[n].observers \cap Expressions :
                     ~empty \/ ~data[e].historical
                  THEN "notified" ELSE aborted
  /\ UNCHANGED <<data, spec, told, loose>>

\* TimedCache lets go of what only the cache refers to.
Expire(name) ==
  /\ name \in DOMAIN data \cap (Nodes \cup Aliases)
  /\ \A s \in Specs : spec[s].data # name
  /\ \A n \in DOMAIN data : /\ data[n].to # name
                            /\ n \in Expressions => name \notin Operands[n]
  /\ LET w == Destroyed(World(data, aborted), name)
     IN  data' = w.data /\ aborted' = w.failed
  /\ UNCHANGED <<spec, told, loose>>

-----------------------------------------------------------------------------
Init ==
  /\ data = [n \in {Broken} |-> New(n)]
  /\ spec = [s \in Specs |-> [data |-> None, range |-> "current"]]
  /\ told = [s \in Specs |-> NoValue]
  /\ loose = {}
  /\ aborted = "no"

Clients ==
  \E s \in Specs :
    \/ Reset(s)
    \/ \E name \in Nodes \cup Aliases \cup Expressions \cup {Broken} : Connect(s, name)
    \/ \E t \in Specs : Assign(s, t)
    \/ \E r \in Ranges : SetRange(s, r)

Server ==
  \/ \E a \in Aliases, to \in Nodes \cup {"error"} : SetForwarded(a, to)
  \/ \E n \in Nodes :
       \/ \E change \in BOOLEAN : Update(n, change)
       \/ LateSample(n)
       \/ ChannelFails(n)
       \/ NodeDeleted(n)
       \/ \E empty \in BOOLEAN : HistoryRead(n, empty)
  \/ \E name \in Nodes \cup Aliases : Expire(name)

Next == aborted = "no" /\ (Clients \/ Server)

Spec == Init /\ [][Next]_vars

-----------------------------------------------------------------------------
(* Properties.                                                             *)

\* Types of the service's state; an alias that is resolved has handed its
\* observers on, and refers to timed data that is there.
ServiceTypeOK ==
  /\ DOMAIN data \subseteq Nodes \cup Aliases \cup Expressions \cup {Broken}
  /\ \A n \in DOMAIN data :
       /\ data[n].to \in {"own", "deferred", "error"} \cup (Nodes \cap DOMAIN data)
       /\ DOMAIN data[n].observers \subseteq Specs \cup Expressions
       /\ \A o \in DOMAIN data[n].observers : data[n].observers[o] \in Ranges
       /\ n \in Aliases /\ data[n].to # "deferred" => DOMAIN data[n].observers = {}
  /\ \A s \in Specs : spec[s].data \in DOMAIN data \cup {None} /\ spec[s].range \in Ranges
  /\ loose \subseteq Specs
  /\ aborted \in {"no", "notified", "destroyed"}

Observes(o, n) ==
  IF o \in Specs THEN spec[o].data # None /\ Terminal(data, spec[o].data) = n
                 ELSE o \in DOMAIN data /\ n \in Terminals(data, Operands[o])

Wanted(o) == IF o \in Specs THEN spec[o].range ELSE "current"

\* The raw observer pointers are right: whoever holds a timed data, under
\* whatever name and since before or after the name was resolved, is registered
\* where the values arrive, with its range, and nobody else is; so that no data
\* dies observed.  (A spec reconnected between two names of one timed data
\* unregisters itself.)
ObserversAreRegistered ==
  /\ aborted # "destroyed"
  /\ \A n \in DOMAIN data, o \in (Specs \ loose) \cup Expressions :
       data[n].to \in {"own", "deferred"} =>
         IF Observes(o, n)
           THEN o \in DOMAIN data[n].observers /\ data[n].observers[o] = Wanted(o)
           ELSE o \notin DOMAIN data[n].observers

\* What a spec is to show: for an expression, what its operands say now.
Truth(name) ==
  IF name \in Expressions THEN Calculated(data, name) ELSE GetDataValue(data, name)

Bad(name) ==
  name \in Expressions /\ \E op \in Operands[name] : ~GetDataValue(data, op).good

\* Every spec has been told of the value it is to show, through aliases that
\* are resolved late, expressions and changes of data and range.  (An
\* expression does not hear that an operand was deleted.)
SpecsAreTold ==
  aborted = "no" =>
    \A s \in Specs \ loose :
      spec[s].data # None /\ ~Bad(spec[s].data) => told[s] = Truth(spec[s].data)

\* The Checks of ExpressionTimedData hold (expression_timed_data.cpp:225, 246).
\* They do not: an operand's buffer notifies every observer.
NoExpressionCheckFails == aborted # "notified"
=============================================================================
