----------------------- MODULE TimedDataService_proofs -----------------------
(***************************************************************************)
(* For every set of nodes, aliases, formulas and specs: whoever holds a    *)
(* timed data is registered where its values arrive and nobody else is,    *)
(* and every spec has been told of the value it is to show.                *)
(***************************************************************************)
EXTENDS TimedDataService, TLAPS

-----------------------------------------------------------------------------
(* The inductive invariant, over data D, specs sp, what they were told td   *)
(* and the loose ones lo.                                                   *)

Names == Nodes \cup Aliases \cup Expressions \cup {Broken}
Observing == Specs \cup Expressions

\* A timed data with all its members.
IsTimedData(d) ==
  d = [to |-> d.to, current |-> d.current, historical |-> d.historical,
       node |-> d.node, subscribed |-> d.subscribed, observers |-> d.observers]

\* What name may be forwarded to when there is the data of names.
MayForward(name, names) ==
  IF name \in Aliases THEN {"deferred", "error"} \cup (Nodes \cap names)
  ELSE IF name = Broken THEN {"error"} ELSE {"own"}

ObserversOK(d) ==
  /\ DOMAIN d.observers \subseteq Observing
  /\ \A o \in DOMAIN d.observers : d.observers[o] \in Ranges
  /\ d.to \notin {"own", "deferred"} => DOMAIN d.observers = {}

EntryOK(name, d, names) ==
  /\ IsTimedData(d) /\ ObserversOK(d) /\ d.to \in MayForward(name, names)
  /\ name \in Nodes => d.current \in [sample : Nat, good : BOOLEAN]

DataOK(D) ==
  /\ DOMAIN D \subseteq Names
  /\ \A n \in DOMAIN D : EntryOK(n, D[n], DOMAIN D)
  /\ \A e \in DOMAIN D \cap Expressions : Operands[e] \subseteq DOMAIN D

SpecsOK(D, sp) ==
  /\ sp \in [Specs -> [data : Names \cup {None}, range : Ranges]]
  /\ \A s \in Specs : sp[s].data \in DOMAIN D \cup {None}

\* Observes and Wanted, of these data and specs.
Holds(D, sp, o, n) ==
  IF o \in Specs THEN sp[o].data # None /\ Terminal(D, sp[o].data) = n
                 ELSE o \in DOMAIN D /\ n \in Terminals(D, Operands[o])

RangeOf(sp, o) == IF o \in Specs THEN sp[o].range ELSE "current"

\* A loose spec may be unregistered, or registered with another range.
RegisteredAt(D, sp, lo, n, o) ==
  /\ o \in DOMAIN D[n].observers => Holds(D, sp, o, n)
  /\ o \notin lo /\ Holds(D, sp, o, n) =>
       o \in DOMAIN D[n].observers /\ D[n].observers[o] = RangeOf(sp, o)

\* The registry is right about the observers os.
RegistryFor(D, sp, lo, os) ==
  \A n \in DOMAIN D, o \in os :
    D[n].to \in {"own", "deferred"} => RegisteredAt(D, sp, lo, n, o)

RegistryOK(D, sp, lo) == RegistryFor(D, sp, lo, Observing)

BadIn(D, name) ==
  name \in Expressions /\ \E op \in Operands[name] : ~GetDataValue(D, op).good

\* An expression has calculated with the values its operands have.
CalculatedOK(D) ==
  \A e \in DOMAIN D \cap Expressions : ~BadIn(D, e) => D[e].current = Calculated(D, e)

ToldOK(D, sp, td, lo) ==
  /\ DOMAIN td = Specs
  /\ \A s \in Specs \ lo :
       sp[s].data # None /\ ~BadIn(D, sp[s].data) => td[s] = GetDataValue(D, sp[s].data)

ServiceInv ==
  /\ DataOK(data) /\ SpecsOK(data, spec) /\ loose \subseteq Specs
  /\ RegistryOK(data, spec, loose)
  /\ CalculatedOK(data) /\ ToldOK(data, spec, told, loose)
  /\ aborted \in {"no", "notified"}

-----------------------------------------------------------------------------
(* Names and what they stand for.                                          *)

LEMMA NamesDiffer ==
  ASSUME NEW n \in Names
  PROVE  /\ n # None
         /\ n \in Nodes => /\ n \notin Aliases /\ n \notin Expressions /\ n # Broken
                           /\ n # "own" /\ n # "deferred" /\ n # "error"
         /\ n \in Aliases => n \notin Expressions /\ n # Broken /\ n \notin Nodes
         /\ n \in Expressions => n # Broken /\ n \notin Nodes /\ n \notin Aliases
BY ServiceAssumption DEF ServiceAssumption, Names

LEMMA OperandsAreNames ==
  ASSUME NEW e \in Expressions
  PROVE  /\ Operands[e] \subseteq Nodes \cup Aliases
         /\ e \notin Specs /\ e \notin Nodes \cup Aliases
BY ServiceAssumption DEF ServiceAssumption

\* A new timed data is well formed, and nobody observes it.
LEMMA NewIsOK ==
  ASSUME NEW name \in Names, NEW names
  PROVE  EntryOK(name, New(name), names) /\ DOMAIN New(name).observers = {}
<1>1. New(name) =
        [to |-> New(name).to, current |-> [sample |-> 0, good |-> TRUE], historical |-> FALSE,
         node |-> TRUE, subscribed |-> TRUE, observers |-> [o \in {} |-> "current"]]
  BY DEF New, NoValue
<1>2. New(name).to \in MayForward(name, names)
  BY NamesDiffer DEF New, MayForward
<1>3. DOMAIN New(name).observers = {}
  BY <1>1
<1>4. New(name).current \in [sample : Nat, good : BOOLEAN]
  <2>1. New(name).current = [sample |-> 0, good |-> TRUE]
    BY DEF New, NoValue
  <2>2. [sample |-> 0, good |-> TRUE] \in [sample : Nat, good : BOOLEAN]
    OBVIOUS
  <2> QED BY <2>1, <2>2
<1>5. IsTimedData(New(name))
  BY <1>1 DEF IsTimedData
<1> QED BY <1>2, <1>3, <1>4, <1>5 DEF EntryOK, ObserversOK

\* Values arrive at a name itself, unless it is an alias of a node.
LEMMA TerminalIsThere ==
  ASSUME NEW D, DataOK(D), NEW n \in DOMAIN D
  PROVE  /\ Terminal(D, n) \in DOMAIN D
         /\ D[Terminal(D, n)].to \notin Nodes
         /\ D[n].to \in {"own", "deferred"} => Terminal(D, n) = n
         /\ Terminal(D, n) \in Expressions <=> n \in Expressions
         /\ n \in Expressions => Terminal(D, n) = n
<1>1. /\ n \in Names /\ D[n].to \in MayForward(n, DOMAIN D)
      /\ Terminal(D, n) \in Names
      /\ D[n].to \in Nodes => D[n].to \in DOMAIN D
  <2>1. n \in Names /\ D[n].to \in MayForward(n, DOMAIN D)
    BY DEF DataOK, EntryOK
  <2>2. ASSUME D[n].to \in Nodes PROVE D[n].to \in DOMAIN D
    <3>1. D[n].to \in Names
      BY <2>2 DEF Names
    <3>2. D[n].to # "own" /\ D[n].to # "deferred" /\ D[n].to # "error"
      BY <2>2, <3>1, NamesDiffer
    <3> QED BY <2>1, <3>2 DEF MayForward
  <2> QED BY <2>1, <2>2 DEF Terminal, Names
<1>2. CASE D[n].to \in Nodes
  <2>1. D[n].to \in DOMAIN D /\ D[n].to \in Names /\ Terminal(D, n) = D[n].to
    BY <1>1, <1>2 DEF Terminal
  <2>2. D[D[n].to].to = "own"
    <3>1. D[D[n].to].to \in MayForward(D[n].to, DOMAIN D)
      BY <2>1 DEF DataOK, EntryOK
    <3> QED BY <1>2, <2>1, <3>1, NamesDiffer DEF MayForward
  <2>3. "own" \notin Nodes
    BY ServiceAssumption DEF ServiceAssumption
  <2>4. n \in Aliases
    <3>1. D[n].to # "own" /\ D[n].to # "error"
      BY <1>2, <2>1, NamesDiffer
    <3> QED BY <1>1, <3>1 DEF MayForward
  <2>5. D[n].to # "own" /\ D[n].to # "deferred" /\ D[n].to \notin Expressions
        /\ n \notin Expressions
    BY <1>1, <1>2, <2>1, <2>4, NamesDiffer
  <2> QED BY <2>1, <2>2, <2>3, <2>5
<1>3. CASE D[n].to \notin Nodes
  BY <1>3 DEF Terminal
<1> QED BY <1>2, <1>3

\* E says of the names it shares with D where their values arrive, and what those are.
Kept(D, E) ==
  \A n \in DOMAIN D \cap DOMAIN E :
    E[n].to = D[n].to /\ (n \notin Expressions => E[n].current = D[n].current)

LEMMA KeptValues ==
  ASSUME NEW D, DataOK(D), NEW E, DataOK(E), Kept(D, E),
         NEW n \in DOMAIN D \cap DOMAIN E
  PROVE  /\ Terminal(E, n) = Terminal(D, n)
         /\ n \notin Expressions => GetDataValue(E, n) = GetDataValue(D, n)
<1>1. Terminal(E, n) = Terminal(D, n)
  BY DEF Kept, Terminal
<1>2. Terminal(D, n) \in DOMAIN D \cap DOMAIN E
  BY <1>1, TerminalIsThere
<1>3. n \notin Expressions => Terminal(D, n) \notin Expressions
  BY TerminalIsThere
<1> QED BY <1>1, <1>2, <1>3 DEF Kept, GetDataValue

LEMMA KeptCalculations ==
  ASSUME NEW D, DataOK(D), NEW E, DataOK(E), Kept(D, E),
         NEW e \in Expressions \cap DOMAIN D \cap DOMAIN E
  PROVE  /\ Calculated(E, e) = Calculated(D, e)
         /\ BadIn(E, e) <=> BadIn(D, e)
         /\ Terminals(E, Operands[e]) = Terminals(D, Operands[e])
<1>1. ASSUME NEW op \in Operands[e]
      PROVE  GetDataValue(E, op) = GetDataValue(D, op) /\ Terminal(E, op) = Terminal(D, op)
  <2>1. op \in DOMAIN D \cap DOMAIN E
    BY DEF DataOK
  <2>2. op \notin Expressions
    <3>1. op \in Nodes \cup Aliases
      BY OperandsAreNames
    <3> QED BY <3>1, NamesDiffer DEF Names
  <2> QED BY <2>1, <2>2, KeptValues
<1> QED BY <1>1 DEF Calculated, BadIn, Terminals

-----------------------------------------------------------------------------
(* Worlds.                                                                 *)

\* A world that differs in the values of expressions only, and in what was historical.
Recalculated(D, E, expressions) ==
  /\ DOMAIN E = DOMAIN D /\ DataOK(E) /\ Kept(D, E)
  /\ \A n \in DOMAIN D :
       /\ E[n].observers = D[n].observers
       /\ n \in expressions => E[n].current = Calculated(E, n)
       /\ n \notin expressions => E[n].current = D[n].current

\* What DataOK asks of data that take others' observers and types over.
LEMMA EntryKept ==
  ASSUME NEW name, NEW names, NEW d, EntryOK(name, d, names), NEW e, IsTimedData(e),
         e.to = d.to, e.observers = d.observers, name \in Nodes => e.current = d.current
  PROVE  EntryOK(name, e, names)
BY DEF EntryOK, ObserversOK

LEMMA CalculateCurrentResult ==
  ASSUME NEW D, DataOK(D), NEW expressions \in SUBSET Expressions
  PROVE  Recalculated(D, CalculateCurrent(D, expressions), expressions)
<1> DEFINE E == CalculateCurrent(D, expressions)
<1>1. DOMAIN E = DOMAIN D
  BY DEF CalculateCurrent
<1>2. ASSUME NEW n \in DOMAIN D
      PROVE  /\ IsTimedData(E[n]) /\ E[n].to = D[n].to /\ E[n].observers = D[n].observers
             /\ n \in expressions => E[n].current = Calculated(D, n)
             /\ n \notin expressions => E[n].current = D[n].current
  <2>1. IsTimedData(D[n])
    BY DEF DataOK, EntryOK
  <2>2. CASE n \in expressions
    <3>1. E[n] = [D[n] EXCEPT !.current = Calculated(D, n)]
      BY <2>2 DEF CalculateCurrent
    <3> HIDE DEF E
    <3>2. E[n] = [to |-> D[n].to, current |-> Calculated(D, n), historical |-> D[n].historical,
                  node |-> D[n].node, subscribed |-> D[n].subscribed,
                  observers |-> D[n].observers]
      BY <2>1, <3>1 DEF IsTimedData
    <3> QED BY <2>2, <3>2 DEF IsTimedData
  <2>3. CASE n \notin expressions
    <3>1. E[n] = D[n]
      BY <2>3 DEF CalculateCurrent
    <3> QED BY <2>1, <2>3, <3>1
  <2> QED BY <2>2, <2>3
<1> HIDE DEF E
<1>3. \A n \in DOMAIN D : n \in expressions => n \notin Nodes
  BY NamesDiffer DEF DataOK
<1>4. DataOK(E)
  <2>1. ASSUME NEW n \in DOMAIN D PROVE EntryOK(n, E[n], DOMAIN E)
    <3>1. EntryOK(n, D[n], DOMAIN D)
      BY DEF DataOK
    <3> QED BY <1>1, <1>2, <1>3, <3>1, EntryKept
  <2> QED BY <1>1, <2>1 DEF DataOK
<1>5. Kept(D, E)
  BY <1>1, <1>2 DEF Kept
<1>6. \A n \in DOMAIN D : n \in expressions => E[n].current = Calculated(E, n)
  BY <1>1, <1>2, <1>4, <1>5, KeptCalculations
<1>7. Recalculated(D, E, expressions)
  BY <1>1, <1>2, <1>4, <1>5, <1>6 DEF Recalculated
<1> QED BY <1>7 DEF E

LEMMA UpdatedResult ==
  ASSUME NEW D, DataOK(D), NEW at \in SUBSET DOMAIN D
  PROVE  Recalculated(D, Updated(D, at), at \cap Expressions)
<1> DEFINE own == {n \in at : D[n].to = "own"}
           H == [n \in DOMAIN D |->
                  IF n \in own
                    THEN [D[n] EXCEPT !.historical =
                            @ \/ \E o \in DOMAIN D[n].observers : D[n].observers[o] = "history"]
                    ELSE D[n]]
<1>1. DOMAIN H = DOMAIN D
  OBVIOUS
<1>2. ASSUME NEW n \in DOMAIN D
      PROVE  /\ IsTimedData(H[n]) /\ H[n].to = D[n].to /\ H[n].observers = D[n].observers
             /\ H[n].current = D[n].current
  <2>1. IsTimedData(D[n])
    BY DEF DataOK, EntryOK
  <2>2. CASE n \in own
    <3> DEFINE h == D[n].historical \/ \E o \in DOMAIN D[n].observers :
                                         D[n].observers[o] = "history"
    <3>1. H[n] = [D[n] EXCEPT !.historical = h]
      BY <2>2
    <3> HIDE DEF H, h
    <3>2. H[n] = [to |-> D[n].to, current |-> D[n].current, historical |-> h,
                  node |-> D[n].node, subscribed |-> D[n].subscribed,
                  observers |-> D[n].observers]
      BY <2>1, <3>1 DEF IsTimedData
    <3> QED BY <3>2 DEF IsTimedData
  <2>3. CASE n \notin own
    <3>1. H[n] = D[n]
      BY <2>3
    <3> QED BY <2>1, <3>1
  <2> QED BY <2>2, <2>3
<1>3. Updated(D, at) = CalculateCurrent(H, own \cap Expressions)
  BY DEF Updated
<1>4. own \cap Expressions = at \cap Expressions
  BY NamesDiffer DEF DataOK, EntryOK, MayForward
<1> HIDE DEF H, own
<1>5. DataOK(H)
  <2>1. ASSUME NEW n \in DOMAIN D PROVE EntryOK(n, H[n], DOMAIN H)
    <3>1. EntryOK(n, D[n], DOMAIN D)
      BY DEF DataOK
    <3> QED BY <1>1, <1>2, <3>1, EntryKept
  <2> QED BY <1>1, <2>1 DEF DataOK
<1>6. Recalculated(H, Updated(D, at), at \cap Expressions)
  BY <1>3, <1>4, <1>5, CalculateCurrentResult
<1> QED BY <1>1, <1>2, <1>6 DEF Recalculated, Kept

LEMMA UpdateObservedRangesResult ==
  ASSUME NEW D, DataOK(D), NEW at \in SUBSET DOMAIN D, NEW failed
  PROVE  LET w == UpdateObservedRanges(World(D, failed), at)
         IN  /\ Recalculated(D, w.data, at \cap Expressions)
             /\ w.failed \in {failed, "notified"}
BY UpdatedResult DEF UpdateObservedRanges, World


\* o is registered at the data at, with its range.
Registers(D, E, at, o, range) ==
  /\ DOMAIN E = DOMAIN D /\ DataOK(E) /\ Kept(D, E)
  /\ \A n \in DOMAIN D :
       /\ n \in at /\ D[n].to # "error" =>
            E[n].observers = Registered(D[n].observers, o, range)
       /\ ~(n \in at /\ D[n].to # "error") => E[n].observers = D[n].observers
       /\ n \in at \cap Expressions => E[n].current = Calculated(E, n)
       /\ n \notin at \cap Expressions => E[n].current = D[n].current

\* o is unregistered there.
Unregisters(D, E, at, o) ==
  /\ DOMAIN E = DOMAIN D /\ DataOK(E) /\ Kept(D, E)
  /\ \A n \in DOMAIN D :
       /\ n \in at => E[n].observers = Unregistered(D[n].observers, o)
       /\ n \notin at => E[n].observers = D[n].observers
       /\ n \in at \cap Expressions => E[n].current = Calculated(E, n)
       /\ n \notin at \cap Expressions => E[n].current = D[n].current

\* Data with other observers in place of some.
LEMMA ObserversChange ==
  ASSUME NEW d, IsTimedData(d), NEW observers, NEW e, e = [d EXCEPT !.observers = observers]
  PROVE  IsTimedData(e) /\ e.to = d.to /\ e.current = d.current /\ e.observers = observers
<1>1. e = [to |-> d.to, current |-> d.current, historical |-> d.historical,
           node |-> d.node, subscribed |-> d.subscribed, observers |-> observers]
  BY DEF IsTimedData
<1> QED BY <1>1 DEF IsTimedData

LEMMA RegisteredObservers ==
  ASSUME NEW observers, NEW o, NEW range
  PROVE  /\ DOMAIN Registered(observers, o, range) = DOMAIN observers \cup {o}
         /\ \A p \in DOMAIN Registered(observers, o, range) :
              Registered(observers, o, range)[p] = IF p = o THEN range ELSE observers[p]
         /\ DOMAIN Unregistered(observers, o) = DOMAIN observers \ {o}
         /\ \A p \in DOMAIN Unregistered(observers, o) :
              Unregistered(observers, o)[p] = observers[p]
BY DEF Registered, Unregistered

LEMMA ObserversStayOK ==
  ASSUME NEW d, ObserversOK(d), NEW e, e.to = d.to, NEW o
  PROVE  /\ \A range \in Ranges :
              o \in Observing /\ d.to \in {"own", "deferred"}
              /\ e.observers = Registered(d.observers, o, range) => ObserversOK(e)
         /\ e.observers = Unregistered(d.observers, o) => ObserversOK(e)
<1>1. ASSUME NEW range \in Ranges, o \in Observing, d.to \in {"own", "deferred"},
             e.observers = Registered(d.observers, o, range)
      PROVE  ObserversOK(e)
  <2>1. /\ DOMAIN e.observers = DOMAIN d.observers \cup {o}
        /\ \A p \in DOMAIN e.observers :
             e.observers[p] = IF p = o THEN range ELSE d.observers[p]
    <3> DEFINE registered == Registered(d.observers, o, range)
    <3>1. /\ DOMAIN registered = DOMAIN d.observers \cup {o}
          /\ \A p \in DOMAIN registered :
               registered[p] = IF p = o THEN range ELSE d.observers[p]
      BY DEF Registered
    <3>2. e.observers = registered
      BY <1>1
    <3> HIDE DEF registered
    <3> QED BY <3>1, <3>2
  <2>2. DOMAIN d.observers \subseteq Observing /\ \A p \in DOMAIN d.observers : d.observers[p] \in Ranges
    BY DEF ObserversOK
  <2>3. \A p \in DOMAIN e.observers : e.observers[p] \in Ranges
    BY <2>1, <2>2
  <2> QED BY <1>1, <2>1, <2>2, <2>3 DEF ObserversOK
<1>2. ASSUME e.observers = Unregistered(d.observers, o)
      PROVE  ObserversOK(e)
  <2>1. /\ DOMAIN e.observers = DOMAIN d.observers \ {o}
        /\ \A p \in DOMAIN e.observers : e.observers[p] = d.observers[p]
    <3> DEFINE unregistered == Unregistered(d.observers, o)
    <3>1. /\ DOMAIN unregistered = DOMAIN d.observers \ {o}
          /\ \A p \in DOMAIN unregistered : unregistered[p] = d.observers[p]
      BY DEF Unregistered
    <3>2. e.observers = unregistered
      BY <1>2
    <3> HIDE DEF unregistered
    <3> QED BY <3>1, <3>2
  <2>2. /\ DOMAIN d.observers \subseteq Observing
        /\ \A p \in DOMAIN d.observers : d.observers[p] \in Ranges
        /\ d.to \notin {"own", "deferred"} => DOMAIN d.observers = {}
    BY DEF ObserversOK
  <2>3. \A p \in DOMAIN e.observers : e.observers[p] \in Ranges
    BY <2>1, <2>2
  <2>4. e.to \notin {"own", "deferred"} => DOMAIN e.observers = {}
    BY <2>1, <2>2
  <2> QED BY <2>1, <2>2, <2>3, <2>4 DEF ObserversOK
<1> QED BY <1>1, <1>2

LEMMA AddObserverResult ==
  ASSUME NEW D, DataOK(D), NEW at \in SUBSET DOMAIN D, \A n \in at : D[n].to \notin Nodes,
         NEW o \in Observing, NEW range \in Ranges, NEW failed
  PROVE  LET w == AddObserver(World(D, failed), at, o, range)
         IN  Registers(D, w.data, at, o, range) /\ w.failed \in {failed, "notified"}
<1> DEFINE H == [n \in DOMAIN D |->
                   IF n \in at /\ D[n].to # "error"
                     THEN [D[n] EXCEPT !.observers = Registered(@, o, range)]
                     ELSE D[n]]
           w == AddObserver(World(D, failed), at, o, range)
<1>1. DOMAIN H = DOMAIN D /\ w = UpdateObservedRanges(World(H, failed), at)
  BY DEF AddObserver, World
<1>2. ASSUME NEW n \in DOMAIN D
      PROVE  /\ IsTimedData(H[n]) /\ H[n].to = D[n].to /\ H[n].current = D[n].current
             /\ n \in at /\ D[n].to # "error" =>
                  H[n].observers = Registered(D[n].observers, o, range)
             /\ ~(n \in at /\ D[n].to # "error") => H[n] = D[n]
  <2>1. IsTimedData(D[n])
    BY DEF DataOK, EntryOK
  <2>2. CASE n \in at /\ D[n].to # "error"
    <3>1. H[n] = [D[n] EXCEPT !.observers = Registered(D[n].observers, o, range)]
      BY <2>2
    <3> HIDE DEF H
    <3> QED BY <2>1, <2>2, <3>1, ObserversChange
  <2>3. CASE ~(n \in at /\ D[n].to # "error")
    <3>1. H[n] = D[n]
      BY <2>3
    <3> QED BY <2>1, <2>3, <3>1
  <2> QED BY <2>2, <2>3
<1> HIDE DEF H, w
<1>3. ASSUME NEW n \in DOMAIN D
      PROVE  EntryOK(n, H[n], DOMAIN H)
  <2>1. EntryOK(n, D[n], DOMAIN D)
    BY DEF DataOK
  <2>2. CASE n \in at /\ D[n].to # "error"
    <3>1. D[n].to \in {"own", "deferred"}
      BY <2>1, <2>2 DEF EntryOK, MayForward
    <3>2. ObserversOK(H[n])
      BY <1>2, <2>1, <2>2, <3>1, ObserversStayOK DEF EntryOK
    <3> QED BY <1>1, <1>2, <2>1, <3>2 DEF EntryOK
  <2>3. CASE ~(n \in at /\ D[n].to # "error")
    BY <1>1, <1>2, <2>1, <2>3
  <2> QED BY <2>2, <2>3
<1>4. DataOK(H)
  BY <1>1, <1>3 DEF DataOK
<1>5. Recalculated(H, w.data, at \cap Expressions) /\ w.failed \in {failed, "notified"}
  BY <1>1, <1>4, UpdateObservedRangesResult
<1>6. Registers(D, w.data, at, o, range)
  BY <1>1, <1>2, <1>5 DEF Recalculated, Registers, Kept
<1> QED BY <1>5, <1>6 DEF w

LEMMA RemoveObserverResult ==
  ASSUME NEW D, DataOK(D), NEW at \in SUBSET DOMAIN D, NEW o, NEW failed
  PROVE  LET w == RemoveObserver(World(D, failed), at, o)
         IN  Unregisters(D, w.data, at, o) /\ w.failed \in {failed, "notified"}
<1> DEFINE H == [n \in DOMAIN D |->
                   IF n \in at
                     THEN [D[n] EXCEPT !.observers = Unregistered(@, o)]
                     ELSE D[n]]
           w == RemoveObserver(World(D, failed), at, o)
<1>1. DOMAIN H = DOMAIN D /\ w = UpdateObservedRanges(World(H, failed), at)
  BY DEF RemoveObserver, World
<1>2. ASSUME NEW n \in DOMAIN D
      PROVE  /\ IsTimedData(H[n]) /\ H[n].to = D[n].to /\ H[n].current = D[n].current
             /\ n \in at => H[n].observers = Unregistered(D[n].observers, o)
             /\ n \notin at => H[n] = D[n]
  <2>1. IsTimedData(D[n])
    BY DEF DataOK, EntryOK
  <2>2. CASE n \in at
    <3>1. H[n] = [D[n] EXCEPT !.observers = Unregistered(D[n].observers, o)]
      BY <2>2
    <3> HIDE DEF H
    <3> QED BY <2>1, <2>2, <3>1, ObserversChange
  <2>3. CASE n \notin at
    <3>1. H[n] = D[n]
      BY <2>3
    <3> QED BY <2>1, <2>3, <3>1
  <2> QED BY <2>2, <2>3
<1> HIDE DEF H, w
<1>3. ASSUME NEW n \in DOMAIN D
      PROVE  EntryOK(n, H[n], DOMAIN H)
  <2>1. EntryOK(n, D[n], DOMAIN D)
    BY DEF DataOK
  <2>2. CASE n \in at
    <3>1. ObserversOK(H[n])
      BY <1>2, <2>1, <2>2, ObserversStayOK DEF EntryOK
    <3> QED BY <1>1, <1>2, <2>1, <3>1 DEF EntryOK
  <2>3. CASE n \notin at
    BY <1>1, <1>2, <2>1, <2>3
  <2> QED BY <2>2, <2>3
<1>4. DataOK(H)
  BY <1>1, <1>3 DEF DataOK
<1>5. Recalculated(H, w.data, at \cap Expressions) /\ w.failed \in {failed, "notified"}
  BY <1>1, <1>4, UpdateObservedRangesResult
<1>6. Unregisters(D, w.data, at, o)
  BY <1>1, <1>2, <1>5 DEF Recalculated, Unregisters, Kept
<1> QED BY <1>5, <1>6 DEF w

-----------------------------------------------------------------------------
(* The registry.                                                           *)

SameObservers(D, E, os) ==
  \A n \in DOMAIN D \cap DOMAIN E, p \in os :
    /\ p \in DOMAIN E[n].observers <=> p \in DOMAIN D[n].observers
    /\ p \in DOMAIN E[n].observers => E[n].observers[p] = D[n].observers[p]

\* Who holds what depends on where values arrive only.
LEMMA HoldsKept ==
  ASSUME NEW D, DataOK(D), NEW E, DataOK(E), Kept(D, E), NEW sp, SpecsOK(D, sp),
         NEW o \in Observing, NEW n,
         o \in Specs => sp[o].data \in DOMAIN E \cup {None},
         o \in Expressions => (o \in DOMAIN D <=> o \in DOMAIN E)
  PROVE  Holds(E, sp, o, n) <=> Holds(D, sp, o, n)
<1>1. CASE o \in Specs
  <2>1. CASE sp[o].data = None
    BY <1>1, <2>1 DEF Holds
  <2>2. CASE sp[o].data # None
    <3>1. sp[o].data \in DOMAIN D \cap DOMAIN E
      BY <1>1, <2>2 DEF SpecsOK
    <3>2. Terminal(E, sp[o].data) = Terminal(D, sp[o].data)
      BY <3>1, KeptValues
    <3> QED BY <1>1, <3>2 DEF Holds
  <2> QED BY <2>1, <2>2
<1>2. CASE o \notin Specs
  <2>1. o \in Expressions
    BY <1>2 DEF Observing
  <2>2. CASE o \in DOMAIN D
    <3>1. o \in Expressions \cap DOMAIN D \cap DOMAIN E
      BY <2>1, <2>2
    <3>2. Terminals(E, Operands[o]) = Terminals(D, Operands[o])
      BY <3>1, KeptCalculations
    <3> QED BY <1>2, <3>1, <3>2 DEF Holds
  <2>3. CASE o \notin DOMAIN D
    BY <1>2, <2>1, <2>3 DEF Holds
  <2> QED BY <2>2, <2>3
<1> QED BY <1>1, <1>2

\* Only terminals are held.
LEMMA HeldIsThere ==
  ASSUME NEW D, DataOK(D), NEW sp, SpecsOK(D, sp), NEW o \in Observing, NEW n,
         Holds(D, sp, o, n)
  PROVE  n \in DOMAIN D
<1>1. CASE o \in Specs
  BY <1>1, TerminalIsThere DEF Holds, SpecsOK
<1>2. CASE o \notin Specs
  <2>1. o \in Expressions \cap DOMAIN D
    BY <1>2 DEF Observing, Holds
  <2>2. PICK op \in Operands[o] : n = Terminal(D, op)
    BY <1>2 DEF Holds, Terminals
  <2>3. op \in DOMAIN D
    BY <2>1, <2>2 DEF DataOK
  <2> QED BY <2>2, <2>3, TerminalIsThere
<1> QED BY <1>1, <1>2

\* The registry stays right about whom nothing happens to.
LEMMA RegistryKept ==
  ASSUME NEW D, DataOK(D), NEW E, DataOK(E), Kept(D, E), DOMAIN E \subseteq DOMAIN D,
         NEW sp, SpecsOK(D, sp), NEW lo, NEW os \in SUBSET Observing,
         \A s \in os \cap Specs : sp[s].data \in DOMAIN E \cup {None},
         \A e \in os \cap Expressions : e \in DOMAIN D <=> e \in DOMAIN E,
         SameObservers(D, E, os), RegistryFor(D, sp, lo, os)
  PROVE  RegistryFor(E, sp, lo, os)
<1>1. ASSUME NEW n \in DOMAIN E, NEW o \in os, E[n].to \in {"own", "deferred"}
      PROVE  RegisteredAt(E, sp, lo, n, o)
  <2>1. n \in DOMAIN D /\ D[n].to \in {"own", "deferred"}
    BY <1>1 DEF Kept
  <2>2. RegisteredAt(D, sp, lo, n, o)
    BY <1>1, <2>1 DEF RegistryFor
  <2>3. Holds(E, sp, o, n) <=> Holds(D, sp, o, n)
    <3>1. o \in Observing
      OBVIOUS
    <3> QED BY <3>1, HoldsKept
  <2>4. /\ o \in DOMAIN E[n].observers <=> o \in DOMAIN D[n].observers
        /\ o \in DOMAIN E[n].observers => E[n].observers[o] = D[n].observers[o]
    BY <1>1, <2>1 DEF SameObservers
  <2> QED BY <2>2, <2>3, <2>4 DEF RegisteredAt
<1> QED BY <1>1 DEF RegistryFor

\* Expressions stay calculated, and those that are touched become so.
LEMMA CalculationsKept ==
  ASSUME NEW D, DataOK(D), CalculatedOK(D), NEW E, DataOK(E), Kept(D, E),
         \A e \in DOMAIN E \cap Expressions :
           \/ e \in DOMAIN D /\ E[e].current = D[e].current
           \/ E[e].current = Calculated(E, e)
  PROVE  CalculatedOK(E)
<1>1. ASSUME NEW e \in DOMAIN E \cap Expressions, ~BadIn(E, e)
      PROVE  E[e].current = Calculated(E, e)
  <2>1. CASE e \in DOMAIN D /\ E[e].current = D[e].current
    <3>1. e \in Expressions \cap DOMAIN D \cap DOMAIN E
      BY <2>1
    <3>2. Calculated(E, e) = Calculated(D, e) /\ (BadIn(E, e) <=> BadIn(D, e))
      BY <3>1, KeptCalculations
    <3>3. D[e].current = Calculated(D, e)
      BY <1>1, <3>1, <3>2 DEF CalculatedOK
    <3> QED BY <2>1, <3>2, <3>3
  <2> QED BY <1>1, <2>1
<1> QED BY <1>1 DEF CalculatedOK

-----------------------------------------------------------------------------
(* Making data.                                                            *)

LEMMA CachedResult ==
  ASSUME NEW D, DataOK(D), NEW names \in SUBSET Names,
         \A e \in names \cap Expressions : Operands[e] \subseteq names
  PROVE  LET C == Cached(D, names)
         IN  /\ DOMAIN C = DOMAIN D \cup names /\ DataOK(C) /\ Kept(D, C)
             /\ \A n \in DOMAIN D : C[n] = D[n]
             /\ \A n \in names \ DOMAIN D : C[n] = New(n)
<1> DEFINE C == Cached(D, names)
<1>1. /\ DOMAIN C = DOMAIN D \cup names
      /\ \A n \in DOMAIN D : C[n] = D[n]
      /\ \A n \in names \ DOMAIN D : C[n] = New(n)
  BY DEF Cached
<1> HIDE DEF C
<1>2. ASSUME NEW n \in DOMAIN C
      PROVE  n \in Names /\ EntryOK(n, C[n], DOMAIN C)
  <2>1. CASE n \in DOMAIN D
    <3>1. n \in Names /\ EntryOK(n, D[n], DOMAIN D)
      BY <2>1 DEF DataOK
    <3>2. D[n].to \in MayForward(n, DOMAIN C)
      BY <1>1, <3>1 DEF EntryOK, MayForward
    <3> QED BY <1>1, <2>1, <3>1, <3>2 DEF EntryOK
  <2>2. CASE n \notin DOMAIN D
    <3>1. n \in names \ DOMAIN D /\ n \in Names
      BY <1>1, <2>2
    <3> QED BY <1>1, <3>1, NewIsOK
  <2> QED BY <2>1, <2>2
<1>3. ASSUME NEW e \in DOMAIN C \cap Expressions
      PROVE  Operands[e] \subseteq DOMAIN C
  BY <1>1 DEF DataOK
<1>4. DataOK(C)
  BY <1>2, <1>3 DEF DataOK
<1>5. Kept(D, C)
  BY <1>1 DEF Kept
<1>6. /\ DOMAIN C = DOMAIN D \cup names /\ DataOK(C) /\ Kept(D, C)
      /\ \A n \in DOMAIN D : C[n] = D[n]
      /\ \A n \in names \ DOMAIN D : C[n] = New(n)
  BY <1>1, <1>4, <1>5
<1> QED BY <1>6 DEF C

\* New data is observed by nobody, and the expressions among it observe nothing yet.
LEMMA CachedRegistry ==
  ASSUME NEW D, DataOK(D), NEW names \in SUBSET Names,
         \A e \in names \cap Expressions : Operands[e] \subseteq names,
         NEW sp, SpecsOK(D, sp), NEW lo, RegistryOK(D, sp, lo)
  PROVE  LET C == Cached(D, names)
         IN  /\ RegistryFor(C, sp, lo, Observing \ ((names \ DOMAIN D) \cap Expressions))
             /\ \A n \in DOMAIN C, e \in (names \ DOMAIN D) \cap Expressions :
                  C[n].to \in {"own", "deferred"} => e \notin DOMAIN C[n].observers
<1> DEFINE C == Cached(D, names)
<1>1. /\ DOMAIN C = DOMAIN D \cup names /\ DataOK(C) /\ Kept(D, C)
      /\ \A n \in DOMAIN D : C[n] = D[n]
      /\ \A n \in names \ DOMAIN D : C[n] = New(n)
  BY CachedResult
<1> HIDE DEF C
<1>2. ASSUME NEW n \in DOMAIN C, n \notin DOMAIN D
      PROVE  DOMAIN C[n].observers = {}
  <2>1. n \in names \ DOMAIN D /\ n \in Names
    BY <1>1, <1>2
  <2> QED BY <1>1, <2>1, NewIsOK
<1>3. ASSUME NEW n \in DOMAIN C, NEW o \in Observing \ ((names \ DOMAIN D) \cap Expressions),
             C[n].to \in {"own", "deferred"}
      PROVE  RegisteredAt(C, sp, lo, n, o)
  <2>1. Holds(C, sp, o, n) <=> Holds(D, sp, o, n)
    <3>1. o \in Specs => sp[o].data \in DOMAIN C \cup {None}
      BY <1>1 DEF SpecsOK
    <3>2. o \in Expressions => (o \in DOMAIN D <=> o \in DOMAIN C)
      BY <1>1
    <3> QED BY <1>1, <3>1, <3>2, HoldsKept
  <2>2. CASE n \in DOMAIN D
    <3>1. RegisteredAt(D, sp, lo, n, o)
      BY <1>1, <1>3, <2>2 DEF RegistryOK, RegistryFor
    <3> QED BY <1>1, <2>1, <2>2, <3>1 DEF RegisteredAt
  <2>3. CASE n \notin DOMAIN D
    <3>1. ~Holds(D, sp, o, n)
      BY <2>3, HeldIsThere
    <3> QED BY <1>2, <2>1, <2>3, <3>1 DEF RegisteredAt
  <2> QED BY <2>2, <2>3
<1>4. ASSUME NEW n \in DOMAIN C, NEW e \in (names \ DOMAIN D) \cap Expressions,
             C[n].to \in {"own", "deferred"}
      PROVE  e \notin DOMAIN C[n].observers
  <2>1. CASE n \in DOMAIN D
    <3>1. e \in Observing /\ e \notin Specs /\ ~Holds(D, sp, e, n)
      BY OperandsAreNames DEF Observing, Holds
    <3>2. RegisteredAt(D, sp, lo, n, e)
      BY <1>1, <1>4, <2>1, <3>1 DEF RegistryOK, RegistryFor
    <3> QED BY <1>1, <2>1, <3>1, <3>2 DEF RegisteredAt
  <2>2. CASE n \notin DOMAIN D
    BY <1>2, <2>2
  <2> QED BY <2>1, <2>2
<1>5. /\ RegistryFor(C, sp, lo, Observing \ ((names \ DOMAIN D) \cap Expressions))
      /\ \A n \in DOMAIN C, e \in (names \ DOMAIN D) \cap Expressions :
           C[n].to \in {"own", "deferred"} => e \notin DOMAIN C[n].observers
  BY <1>3, <1>4 DEF RegistryFor
<1> QED BY <1>5 DEF C


\* What making the data of name does.
IsMade(D, M, name) ==
  /\ DataOK(M) /\ Kept(D, M) /\ DOMAIN D \subseteq DOMAIN M /\ name \in DOMAIN M
  /\ CalculatedOK(M)

LEMMA OperandsAreNoExpressions ==
  ASSUME NEW D, DataOK(D), NEW e \in Expressions, Operands[e] \subseteq DOMAIN D
  PROVE  /\ Terminals(D, Operands[e]) \subseteq DOMAIN D
         /\ Terminals(D, Operands[e]) \cap Expressions = {}
         /\ \A n \in Terminals(D, Operands[e]) : D[n].to \notin Nodes
         /\ Operands[e] \cap Expressions = {}
<1>1. ASSUME NEW op \in Operands[e]
      PROVE  /\ Terminal(D, op) \in DOMAIN D /\ Terminal(D, op) \notin Expressions
             /\ D[Terminal(D, op)].to \notin Nodes /\ op \notin Expressions
  <2>1. op \in DOMAIN D /\ op \notin Expressions
    <3>1. op \in Nodes \cup Aliases
      BY OperandsAreNames
    <3> QED BY <3>1, NamesDiffer DEF Names
  <2> QED BY <2>1, TerminalIsThere
<1> QED BY <1>1 DEF Terminals

\* A new expression observes its operands, where their values arrive.
LEMMA ExpressionMade ==
  ASSUME NEW D, DataOK(D), CalculatedOK(D), NEW e \in Expressions, e \notin DOMAIN D,
         NEW sp, SpecsOK(D, sp), NEW lo, RegistryOK(D, sp, lo), NEW failed
  PROVE  /\ IsMade(D, Made(World(D, failed), e).data, e)
         /\ RegistryOK(Made(World(D, failed), e).data, sp, lo)
         /\ Made(World(D, failed), e).failed \in {failed, "notified"}
<1> DEFINE names == Operands[e] \cup {e}
           C == Cached(D, names)
           at == Terminals(C, Operands[e])
           w == AddObserver(World(C, failed), at, e, "current")
           A == w.data
           M == CalculateCurrent(A, {e})
<1>1. Made(World(D, failed), e) = World(M, w.failed)
  BY DEF Made, World
<1>2. /\ Made(World(D, failed), e).data = M
      /\ Made(World(D, failed), e).failed = w.failed
  BY <1>1 DEF World
<1>3. /\ names \in SUBSET Names /\ \A x \in names \cap Expressions : Operands[x] \subseteq names
      /\ e \notin Specs /\ e \in Observing /\ Operands[e] \cap Expressions = {}
  <2>1. Operands[e] \subseteq Nodes \cup Aliases /\ e \notin Specs
    BY OperandsAreNames
  <2>2. Operands[e] \cap Expressions = {}
    BY <2>1, NamesDiffer DEF Names
  <2> QED BY <2>1, <2>2 DEF Names, Observing
<1>4. /\ DOMAIN C = DOMAIN D \cup names /\ DataOK(C) /\ Kept(D, C)
      /\ \A n \in DOMAIN D : C[n] = D[n]
  BY <1>3, CachedResult
<1>5. /\ RegistryFor(C, sp, lo, Observing \ ((names \ DOMAIN D) \cap Expressions))
      /\ \A n \in DOMAIN C, x \in (names \ DOMAIN D) \cap Expressions :
           C[n].to \in {"own", "deferred"} => x \notin DOMAIN C[n].observers
  BY <1>3, CachedRegistry
<1>6. (names \ DOMAIN D) \cap Expressions = {e}
  BY <1>3
<1>7. /\ at \in SUBSET DOMAIN C /\ at \cap Expressions = {}
      /\ \A n \in at : C[n].to \notin Nodes
  <2>1. Operands[e] \subseteq DOMAIN C
    BY <1>4
  <2> QED BY <1>4, <2>1, OperandsAreNoExpressions
<1> HIDE DEF C
<1>8. Registers(C, A, at, e, "current") /\ w.failed \in {failed, "notified"}
  <2>1. "current" \in Ranges
    BY DEF Ranges
  <2> QED BY <1>3, <1>4, <1>7, <2>1, AddObserverResult
<1> HIDE DEF w
<1>9. Recalculated(A, M, {e})
  <2>1. DataOK(A)
    BY <1>8 DEF Registers
  <2> HIDE DEF A
  <2> QED BY <2>1, CalculateCurrentResult
<1> HIDE DEF M, A, at
<1>10. /\ DOMAIN A = DOMAIN C /\ DataOK(A) /\ Kept(C, A)
       /\ DOMAIN M = DOMAIN C /\ DataOK(M) /\ Kept(A, M) /\ Kept(C, M)
  BY <1>8, <1>9 DEF Registers, Recalculated, Kept
<1>11. Kept(D, M)
  BY <1>4, <1>10 DEF Kept
<1>12. CalculatedOK(M)
  <2>1. ASSUME NEW x \in DOMAIN M \cap Expressions
        PROVE  \/ x \in DOMAIN D /\ M[x].current = D[x].current
               \/ M[x].current = Calculated(M, x)
    <3>1. CASE x = e
      BY <1>9, <1>10, <3>1 DEF Recalculated
    <3>2. CASE x # e
      <4>1. x \in DOMAIN D
        BY <1>3, <1>4, <1>10, <3>2
      <4>2. C[x].current = D[x].current /\ A[x].current = C[x].current
        BY <1>4, <1>7, <1>8, <4>1 DEF Registers
      <4>3. M[x].current = A[x].current
        BY <1>9, <1>10, <3>2 DEF Recalculated
      <4> QED BY <4>1, <4>2, <4>3
    <3> QED BY <3>1, <3>2
  <2> QED BY <1>10, <1>11, <2>1, CalculationsKept
<1>13. SameObservers(C, M, Observing \ {e})
  <2>1. ASSUME NEW n \in DOMAIN C, NEW p \in Observing \ {e}
        PROVE  /\ p \in DOMAIN M[n].observers <=> p \in DOMAIN C[n].observers
               /\ p \in DOMAIN M[n].observers => M[n].observers[p] = C[n].observers[p]
    <3>1. M[n].observers = A[n].observers
      BY <1>9, <1>10 DEF Recalculated
    <3>2. CASE n \in at /\ C[n].to # "error"
      <4> DEFINE r == Registered(C[n].observers, e, "current")
      <4>1. A[n].observers = r
        BY <1>8, <3>2 DEF Registers
      <4>2. /\ DOMAIN r = DOMAIN C[n].observers \cup {e}
            /\ \A q \in DOMAIN r : r[q] = IF q = e THEN "current" ELSE C[n].observers[q]
        BY DEF Registered
      <4> HIDE DEF r
      <4> QED BY <3>1, <4>1, <4>2
    <3>3. CASE ~(n \in at /\ C[n].to # "error")
      BY <1>8, <3>1, <3>3 DEF Registers
    <3> QED BY <3>2, <3>3
  <2> QED BY <1>10, <2>1 DEF SameObservers
<1>14. SpecsOK(C, sp)
  BY <1>4 DEF SpecsOK
<1>15. RegistryFor(M, sp, lo, Observing \ {e})
  <2>1. /\ DOMAIN M \subseteq DOMAIN C
        /\ \A s \in (Observing \ {e}) \cap Specs : sp[s].data \in DOMAIN M \cup {None}
        /\ \A x \in (Observing \ {e}) \cap Expressions : x \in DOMAIN C <=> x \in DOMAIN M
    BY <1>10, <1>14 DEF SpecsOK
  <2>2. RegistryFor(C, sp, lo, Observing \ {e})
    BY <1>5, <1>6
  <2>3. Observing \ {e} \in SUBSET Observing
    OBVIOUS
  <2> QED BY <1>4, <1>10, <1>13, <1>14, <2>1, <2>2, <2>3, RegistryKept
<1>16. ASSUME NEW n \in DOMAIN M, M[n].to \in {"own", "deferred"}
       PROVE  RegisteredAt(M, sp, lo, n, e)
  <2>1. n \in DOMAIN C /\ C[n].to = M[n].to
    BY <1>10 DEF Kept
  <2>2. e \notin DOMAIN C[n].observers
    BY <1>5, <1>6, <1>16, <2>1
  <2>3. Holds(M, sp, e, n) <=> n \in at
    <3>1. e \in Expressions \cap DOMAIN C \cap DOMAIN M
      BY <1>4, <1>10
    <3>2. Terminals(M, Operands[e]) = Terminals(C, Operands[e])
      BY <1>4, <1>10, <3>1, KeptCalculations
    <3> QED BY <1>3, <3>1, <3>2 DEF Holds, at
  <2>4. M[n].observers = A[n].observers
    BY <1>9, <1>10 DEF Recalculated
  <2>5. CASE n \in at
    <3> DEFINE r == Registered(C[n].observers, e, "current")
    <3>1. A[n].observers = r
      BY <1>8, <1>16, <2>1, <2>5 DEF Registers
    <3>2. e \in DOMAIN r /\ r[e] = "current"
      BY DEF Registered
    <3> HIDE DEF r
    <3> QED BY <1>3, <2>3, <2>4, <2>5, <3>1, <3>2 DEF RegisteredAt, RangeOf
  <2>6. CASE n \notin at
    <3>1. A[n].observers = C[n].observers
      BY <1>8, <2>1, <2>6 DEF Registers
    <3> QED BY <2>2, <2>3, <2>4, <2>6, <3>1 DEF RegisteredAt
  <2> QED BY <2>5, <2>6
<1>17. RegistryOK(M, sp, lo)
  <2>1. ASSUME NEW n \in DOMAIN M, NEW o \in Observing, M[n].to \in {"own", "deferred"}
        PROVE  RegisteredAt(M, sp, lo, n, o)
    BY <1>15, <1>16, <2>1 DEF RegistryFor
  <2> QED BY <2>1 DEF RegistryOK, RegistryFor
<1>18. IsMade(D, M, e)
  BY <1>4, <1>10, <1>11, <1>12 DEF IsMade
<1> QED BY <1>2, <1>8, <1>17, <1>18

LEMMA MadeResult ==
  ASSUME NEW D, DataOK(D), CalculatedOK(D), NEW name \in Names, name \notin DOMAIN D,
         NEW sp, SpecsOK(D, sp), NEW lo, RegistryOK(D, sp, lo), NEW failed
  PROVE  /\ IsMade(D, Made(World(D, failed), name).data, name)
         /\ RegistryOK(Made(World(D, failed), name).data, sp, lo)
         /\ Made(World(D, failed), name).failed \in {failed, "notified"}
<1>1. CASE name \in Expressions
  BY <1>1, ExpressionMade
<1>2. CASE name \notin Expressions
  <2> DEFINE C == Cached(D, {name})
  <2>1. Made(World(D, failed), name) = World(C, failed)
    BY <1>2 DEF Made, World
  <2>2. Made(World(D, failed), name).data = C /\ Made(World(D, failed), name).failed = failed
    BY <2>1 DEF World
  <2>3. {name} \in SUBSET Names /\ \A x \in {name} \cap Expressions : Operands[x] \subseteq {name}
    BY <1>2
  <2>4. /\ DOMAIN C = DOMAIN D \cup {name} /\ DataOK(C) /\ Kept(D, C)
        /\ \A n \in DOMAIN D : C[n] = D[n]
    BY <2>3, CachedResult
  <2>5. RegistryFor(C, sp, lo, Observing \ (({name} \ DOMAIN D) \cap Expressions))
    BY <2>3, CachedRegistry
  <2> HIDE DEF C
  <2>6. Observing \ (({name} \ DOMAIN D) \cap Expressions) = Observing
    BY <1>2
  <2>7. RegistryOK(C, sp, lo)
    BY <2>5, <2>6 DEF RegistryOK
  <2>8. CalculatedOK(C)
    <3>1. \A x \in DOMAIN C \cap Expressions :
            \/ x \in DOMAIN D /\ C[x].current = D[x].current
            \/ C[x].current = Calculated(C, x)
      BY <1>2, <2>4
    <3> QED BY <2>4, <3>1, CalculationsKept
  <2>9. IsMade(D, C, name)
    BY <2>4, <2>8 DEF IsMade
  <2> QED BY <2>2, <2>7, <2>9
<1> QED BY <1>1, <1>2

-----------------------------------------------------------------------------
(* A spec moves from one timed data to another.                            *)

\* The data of names where the values of name arrive.
Arrival(D, name) == IF name = None THEN {} ELSE {Terminal(D, name)}

\* Only the observer s moved: it is gone from the data old, and then registered
\* with the data new.
Moved(D, E, s, new, old, range) ==
  /\ DOMAIN E = DOMAIN D /\ DataOK(E) /\ Kept(D, E)
  /\ SameObservers(D, E, Observing \ {s})
  /\ \A n \in DOMAIN D :
       D[n].to \in {"own", "deferred"} =>
         /\ s \in DOMAIN E[n].observers => n \in new \/ s \in DOMAIN D[n].observers
         /\ n \in old => s \notin DOMAIN E[n].observers
         /\ n \in new \ old => s \in DOMAIN E[n].observers /\ E[n].observers[s] = range
  /\ \A e \in DOMAIN D \cap Expressions :
       E[e].current = D[e].current \/ E[e].current = Calculated(E, e)

\* SetData's first half, and the second.
Joining(D, failed, s, new, range) ==
  IF new = None THEN World(D, failed)
                ELSE AddObserver(World(D, failed), {Terminal(D, new)}, s, range)

Leaving(w, s, old) ==
  IF old = None THEN w ELSE RemoveObserver(w, {Terminal(w.data, old)}, s)

LEMMA JoiningResult ==
  ASSUME NEW D, DataOK(D), NEW s \in Specs, NEW new \in DOMAIN D \cup {None},
         NEW range \in Ranges, NEW failed
  PROVE  LET w == Joining(D, failed, s, new, range)
         IN  Moved(D, w.data, s, Arrival(D, new), {}, range) /\ w.failed \in {failed, "notified"}
<1> DEFINE w == Joining(D, failed, s, new, range)
           E == w.data
<1>1. CASE new = None
  <2>1. E = D /\ w.failed = failed /\ Arrival(D, new) = {}
    BY <1>1 DEF Joining, World, Arrival
  <2>2. Kept(D, D) /\ SameObservers(D, D, Observing \ {s})
    BY DEF Kept, SameObservers
  <2> HIDE DEF w, E
  <2>3. Moved(D, D, s, {}, {}, range)
    BY <2>2 DEF Moved
  <2>4. Moved(D, E, s, Arrival(D, new), {}, range) /\ w.failed \in {failed, "notified"}
    BY <2>1, <2>3
  <2> QED BY <2>4 DEF w, E
<1>2. CASE new # None
  <2> DEFINE at == {Terminal(D, new)}
  <2>1. w = AddObserver(World(D, failed), at, s, range) /\ Arrival(D, new) = at
    BY <1>2 DEF Joining, Arrival
  <2>2. at \in SUBSET DOMAIN D /\ \A n \in at : D[n].to \notin Nodes
    BY <1>2, TerminalIsThere
  <2>3. s \in Observing
    BY DEF Observing
  <2> HIDE DEF w, at
  <2>4. Registers(D, E, at, s, range) /\ w.failed \in {failed, "notified"}
    BY <2>1, <2>2, <2>3, AddObserverResult
  <2> HIDE DEF E
  <2>5. ASSUME NEW n \in DOMAIN D
        PROVE  /\ \A p \in Observing \ {s} :
                    /\ p \in DOMAIN E[n].observers <=> p \in DOMAIN D[n].observers
                    /\ p \in DOMAIN E[n].observers => E[n].observers[p] = D[n].observers[p]
               /\ s \in DOMAIN E[n].observers => n \in at \/ s \in DOMAIN D[n].observers
               /\ D[n].to # "error" /\ n \in at =>
                    s \in DOMAIN E[n].observers /\ E[n].observers[s] = range
    <3>1. CASE n \in at /\ D[n].to # "error"
      <4> DEFINE r == Registered(D[n].observers, s, range)
      <4>1. E[n].observers = r
        BY <2>4, <3>1 DEF Registers
      <4>2. /\ DOMAIN r = DOMAIN D[n].observers \cup {s}
            /\ \A q \in DOMAIN r : r[q] = IF q = s THEN range ELSE D[n].observers[q]
        BY DEF Registered
      <4> HIDE DEF r
      <4> QED BY <3>1, <4>1, <4>2
    <3>2. CASE ~(n \in at /\ D[n].to # "error")
      BY <2>4, <3>2 DEF Registers
    <3> QED BY <3>1, <3>2
  <2>6. \A e \in DOMAIN D \cap Expressions :
          E[e].current = D[e].current \/ E[e].current = Calculated(E, e)
    BY <2>4 DEF Registers
  <2>7. SameObservers(D, E, Observing \ {s})
    BY <2>4, <2>5 DEF Registers, SameObservers
  <2>8. DOMAIN E = DOMAIN D /\ DataOK(E) /\ Kept(D, E)
    BY <2>4 DEF Registers
  <2>9. Moved(D, E, s, at, {}, range)
    BY <2>5, <2>6, <2>7, <2>8 DEF Moved
  <2>10. Moved(D, E, s, Arrival(D, new), {}, range) /\ w.failed \in {failed, "notified"}
    BY <2>1, <2>4, <2>9
  <2> QED BY <2>10 DEF w, E
<1> QED BY <1>1, <1>2

LEMMA LeavingResult ==
  ASSUME NEW D, DataOK(D), NEW s \in Specs, NEW old \in DOMAIN D \cup {None}, NEW failed
  PROVE  LET w == Leaving(World(D, failed), s, old)
         IN  /\ Moved(D, w.data, s, {}, Arrival(D, old), "current")
             /\ w.failed \in {failed, "notified"}
             /\ \A n \in DOMAIN D \ Arrival(D, old) : w.data[n].observers = D[n].observers
<1> DEFINE w == Leaving(World(D, failed), s, old)
           E == w.data
<1>1. CASE old = None
  <2>1. E = D /\ w.failed = failed /\ Arrival(D, old) = {}
    BY <1>1 DEF Leaving, World, Arrival
  <2>2. Kept(D, D) /\ SameObservers(D, D, Observing \ {s})
    BY DEF Kept, SameObservers
  <2> HIDE DEF w, E
  <2>3. Moved(D, D, s, {}, {}, "current")
    BY <2>2 DEF Moved
  <2>4. /\ Moved(D, E, s, {}, Arrival(D, old), "current") /\ w.failed \in {failed, "notified"}
        /\ \A n \in DOMAIN D \ Arrival(D, old) : E[n].observers = D[n].observers
    BY <2>1, <2>3
  <2> QED BY <2>4 DEF w, E
<1>2. CASE old # None
  <2> DEFINE at == {Terminal(D, old)}
  <2>1. w = RemoveObserver(World(D, failed), at, s) /\ Arrival(D, old) = at
    BY <1>2 DEF Leaving, Arrival, World
  <2>2. at \in SUBSET DOMAIN D
    BY <1>2, TerminalIsThere
  <2> HIDE DEF w, at
  <2>3. Unregisters(D, E, at, s) /\ w.failed \in {failed, "notified"}
    BY <2>1, <2>2, RemoveObserverResult
  <2> HIDE DEF E
  <2>4. ASSUME NEW n \in DOMAIN D
        PROVE  /\ \A p \in Observing \ {s} :
                    /\ p \in DOMAIN E[n].observers <=> p \in DOMAIN D[n].observers
                    /\ p \in DOMAIN E[n].observers => E[n].observers[p] = D[n].observers[p]
               /\ s \in DOMAIN E[n].observers => s \in DOMAIN D[n].observers
               /\ n \in at => s \notin DOMAIN E[n].observers
    <3>1. CASE n \in at
      <4> DEFINE r == Unregistered(D[n].observers, s)
      <4>1. E[n].observers = r
        BY <2>3, <3>1 DEF Unregisters
      <4>2. /\ DOMAIN r = DOMAIN D[n].observers \ {s}
            /\ \A q \in DOMAIN r : r[q] = D[n].observers[q]
        BY DEF Unregistered
      <4> HIDE DEF r
      <4> QED BY <3>1, <4>1, <4>2
    <3>2. CASE n \notin at
      BY <2>3, <3>2 DEF Unregisters
    <3> QED BY <3>1, <3>2
  <2>5. \A e \in DOMAIN D \cap Expressions :
          E[e].current = D[e].current \/ E[e].current = Calculated(E, e)
    BY <2>3 DEF Unregisters
  <2>6. SameObservers(D, E, Observing \ {s})
    BY <2>3, <2>4 DEF Unregisters, SameObservers
  <2>7. DOMAIN E = DOMAIN D /\ DataOK(E) /\ Kept(D, E)
    BY <2>3 DEF Unregisters
  <2>8. Moved(D, E, s, {}, at, "current")
    BY <2>4, <2>5, <2>6, <2>7 DEF Moved
  <2>9. \A n \in DOMAIN D \ at : E[n].observers = D[n].observers
    BY <2>3 DEF Unregisters
  <2>10. /\ Moved(D, E, s, {}, Arrival(D, old), "current") /\ w.failed \in {failed, "notified"}
         /\ \A n \in DOMAIN D \ Arrival(D, old) : E[n].observers = D[n].observers
    BY <2>1, <2>3, <2>8, <2>9
  <2> QED BY <2>10 DEF w, E
<1> QED BY <1>1, <1>2


\* The specs and the loose ones after s has moved.
Reconnected(sp, s, new, range) == [sp EXCEPT ![s] = [data |-> new, range |-> range]]

LooseAfter(D, sp, lo, s, new) ==
  IF new # None /\ sp[s].data # None /\ Terminal(D, new) = Terminal(D, sp[s].data)
    THEN lo \cup {s} ELSE lo \ {s}

\* A spec that moves leaves everybody else's registration as it is, and its own right
\* unless it stays where it was.
LEMMA MovesResult ==
  ASSUME NEW D, DataOK(D), CalculatedOK(D), NEW sp, SpecsOK(D, sp), NEW lo, RegistryOK(D, sp, lo),
         NEW s \in Specs, NEW new \in DOMAIN D \cup {None}, NEW range \in Ranges, NEW failed
  PROVE  LET left == Leaving(Joining(D, failed, s, new, range), s, sp[s].data)
             sq == Reconnected(sp, s, new, range)
             mo == LooseAfter(D, sp, lo, s, new)
         IN  /\ DOMAIN left.data = DOMAIN D /\ DataOK(left.data) /\ Kept(D, left.data)
             /\ CalculatedOK(left.data) /\ left.failed \in {failed, "notified"}
             /\ SpecsOK(left.data, sq) /\ RegistryOK(left.data, sq, mo)
<1> DEFINE left == Leaving(Joining(D, failed, s, new, range), s, sp[s].data)
           sq == Reconnected(sp, s, new, range)
           mo == LooseAfter(D, sp, lo, s, new)
           old == sp[s].data
           w == Joining(D, failed, s, new, range)
           A == w.data
           E == left.data
<1>0. s \notin Expressions
  BY OperandsAreNames
<1>1. old \in DOMAIN D \cup {None}
  BY DEF SpecsOK
<1>2. Moved(D, A, s, Arrival(D, new), {}, range) /\ w.failed \in {failed, "notified"}
  BY JoiningResult
<1>3. w = World(A, w.failed)
  <2>1. CASE new = None
    BY <2>1 DEF Joining, World
  <2>2. CASE new # None
    BY <2>2 DEF Joining, AddObserver, UpdateObservedRanges, World
  <2> QED BY <2>1, <2>2
<1> HIDE DEF w, A, old
<1>4. DataOK(A) /\ DOMAIN A = DOMAIN D /\ Kept(D, A)
  BY <1>2 DEF Moved
<1>5. Arrival(A, old) = Arrival(D, old)
  BY <1>1, <1>4, KeptValues DEF Arrival
<1>6. /\ Moved(A, E, s, {}, Arrival(D, old), "current")
      /\ left.failed \in {w.failed, "notified"}
      /\ \A n \in DOMAIN A \ Arrival(D, old) : E[n].observers = A[n].observers
  <2>1. left = Leaving(World(A, w.failed), s, old)
    BY <1>3 DEF w, old
  <2>2. old \in DOMAIN A \cup {None}
    BY <1>1, <1>4
  <2> QED BY <1>4, <1>5, <2>1, <2>2, LeavingResult
<1> HIDE DEF E
<1>7. /\ DOMAIN E = DOMAIN D /\ DataOK(E) /\ Kept(A, E) /\ Kept(D, E)
      /\ left.failed \in {failed, "notified"}
  BY <1>2, <1>4, <1>6 DEF Moved, Kept
<1>8. CalculatedOK(A)
  BY <1>2, <1>4, CalculationsKept DEF Moved
<1>9. CalculatedOK(E)
  BY <1>4, <1>6, <1>7, <1>8, CalculationsKept DEF Moved
<1>10. /\ sq \in [Specs -> [data : Names \cup {None}, range : Ranges]]
       /\ sq[s].data = new /\ sq[s].range = range
       /\ \A t \in Specs \ {s} : sq[t] = sp[t]
  <2>1. new \in Names \cup {None}
    BY DEF DataOK
  <2>2. sp \in [Specs -> [data : Names \cup {None}, range : Ranges]]
    BY DEF SpecsOK
  <2> QED BY <2>1, <2>2 DEF Reconnected
<1> HIDE DEF sq
<1>11. SpecsOK(E, sq)
  <2>1. \A t \in Specs : sq[t].data \in DOMAIN D \cup {None}
    BY <1>10 DEF SpecsOK
  <2> QED BY <1>7, <1>10, <2>1 DEF SpecsOK
<1>12. SpecsOK(D, sq)
  BY <1>7, <1>11 DEF SpecsOK
<1>13. SameObservers(D, E, Observing \ {s})
  BY <1>2, <1>4, <1>6, <1>7 DEF Moved, SameObservers
<1>14. ASSUME NEW n \in DOMAIN E, NEW o \in Observing \ {s}, E[n].to \in {"own", "deferred"}
       PROVE  RegisteredAt(E, sq, mo, n, o)
  <2>1. n \in DOMAIN D /\ D[n].to \in {"own", "deferred"}
    BY <1>7, <1>14 DEF Kept
  <2>2. RegisteredAt(D, sp, lo, n, o)
    BY <2>1 DEF RegistryOK, RegistryFor
  <2>3. Holds(D, sq, o, n) <=> Holds(D, sp, o, n)
    BY <1>10 DEF Holds
  <2>4. Holds(E, sq, o, n) <=> Holds(D, sq, o, n)
    <3>1. o \in Specs => sq[o].data \in DOMAIN E \cup {None}
      BY <1>11 DEF SpecsOK
    <3>2. o \in Expressions => (o \in DOMAIN D <=> o \in DOMAIN E)
      BY <1>7
    <3>3. o \in Observing /\ DataOK(D) /\ DataOK(E) /\ Kept(D, E) /\ SpecsOK(D, sq)
      BY <1>7, <1>12
    <3> HIDE DEF E
    <3> QED BY ONLY <3>1, <3>2, <3>3, HoldsKept
  <2>5. /\ o \in DOMAIN E[n].observers <=> o \in DOMAIN D[n].observers
        /\ o \in DOMAIN E[n].observers => E[n].observers[o] = D[n].observers[o]
    BY <1>7, <1>13, <1>14 DEF SameObservers
  <2>6. RangeOf(sq, o) = RangeOf(sp, o) /\ (o \notin mo => o \notin lo)
    BY <1>10 DEF RangeOf, LooseAfter
  <2> QED BY <2>2, <2>3, <2>4, <2>5, <2>6 DEF RegisteredAt
<1>15. ASSUME NEW n \in DOMAIN E, E[n].to \in {"own", "deferred"}
       PROVE  RegisteredAt(E, sq, mo, n, s)
  <2>1. n \in DOMAIN D /\ D[n].to \in {"own", "deferred"} /\ n \in DOMAIN A
        /\ A[n].to \in {"own", "deferred"}
    BY <1>4, <1>7, <1>15 DEF Kept
  <2>2. RegisteredAt(D, sp, lo, n, s)
    BY <2>1 DEF RegistryOK, RegistryFor, Observing
  <2>3. Holds(D, sp, s, n) <=> n \in Arrival(D, old)
    BY DEF Holds, Arrival, old
  <2>4. Holds(E, sq, s, n) <=> n \in Arrival(D, new)
    <3>1. Holds(E, sq, s, n) <=> n \in Arrival(E, new)
      BY <1>10 DEF Holds, Arrival
    <3>2. Arrival(E, new) = Arrival(D, new)
      BY <1>7, KeptValues DEF Arrival
    <3> QED BY <3>1, <3>2
  <2>5. /\ s \in DOMAIN A[n].observers => n \in Arrival(D, new) \/ s \in DOMAIN D[n].observers
        /\ n \in Arrival(D, new) => s \in DOMAIN A[n].observers /\ A[n].observers[s] = range
    BY <1>2, <2>1 DEF Moved
  <2>6. /\ s \in DOMAIN E[n].observers => s \in DOMAIN A[n].observers
        /\ n \in Arrival(D, old) => s \notin DOMAIN E[n].observers
        /\ n \notin Arrival(D, old) => E[n].observers = A[n].observers
    BY <1>6, <2>1 DEF Moved
  <2>7. s \in DOMAIN E[n].observers => Holds(E, sq, s, n)
    BY <2>2, <2>3, <2>4, <2>5, <2>6 DEF RegisteredAt
  <2>8. ASSUME s \notin mo, Holds(E, sq, s, n)
        PROVE  s \in DOMAIN E[n].observers /\ E[n].observers[s] = RangeOf(sq, s)
    <3>1. n \in Arrival(D, new)
      BY <2>4, <2>8
    <3>2. n \notin Arrival(D, old)
      BY <2>8, <3>1 DEF Arrival, old, LooseAfter
    <3> QED BY <1>10, <2>5, <2>6, <3>1, <3>2 DEF RangeOf
  <2> QED BY <2>7, <2>8 DEF RegisteredAt
<1>16. RegistryOK(E, sq, mo)
  <2>1. \A n \in DOMAIN E, o \in Observing :
          E[n].to \in {"own", "deferred"} => RegisteredAt(E, sq, mo, n, o)
    BY <1>14, <1>15
  <2> QED BY <2>1 DEF RegistryOK, RegistryFor
<1>17. /\ DOMAIN E = DOMAIN D /\ DataOK(E) /\ Kept(D, E)
       /\ CalculatedOK(E) /\ left.failed \in {failed, "notified"}
       /\ SpecsOK(E, sq) /\ RegistryOK(E, sq, mo)
  BY <1>7, <1>9, <1>11, <1>16
<1> QED BY <1>17 DEF E, left, sq, mo

-----------------------------------------------------------------------------
(* Data nobody holds goes, and nobody is registered with it.               *)

LEMMA DestroyedResult ==
  ASSUME NEW D, DataOK(D), CalculatedOK(D), NEW sp, SpecsOK(D, sp), NEW lo,
         NEW name \in DOMAIN D, NEW failed,
         \A s \in Specs : sp[s].data # name,
         \A n \in DOMAIN D : /\ name \in Nodes => D[n].to # name
                             /\ n \in Expressions => name \notin Operands[n],
         RegistryFor(D, sp, lo, Observing \ ({name} \cap Expressions)),
         name \in Expressions => \A n \in DOMAIN D : D[n].to \in {"own", "deferred"} =>
                                   name \notin DOMAIN D[n].observers
  PROVE  LET w == Destroyed(World(D, failed), name)
         IN  /\ DOMAIN w.data = DOMAIN D \ {name} /\ DataOK(w.data) /\ Kept(D, w.data)
             /\ CalculatedOK(w.data) /\ SpecsOK(w.data, sp) /\ RegistryOK(w.data, sp, lo)
             /\ w.failed = failed
<1> DEFINE E == [n \in DOMAIN D \ {name} |-> D[n]]
           w == Destroyed(World(D, failed), name)
<1>1. DOMAIN D[name].observers = {}
  <2>1. CASE D[name].to \notin {"own", "deferred"}
    BY <2>1 DEF DataOK, EntryOK, ObserversOK
  <2>2. ASSUME D[name].to \in {"own", "deferred"}, NEW o \in DOMAIN D[name].observers
        PROVE  FALSE
    <3>1. o \in Observing /\ ~(o = name /\ name \in Expressions)
      BY <2>2 DEF DataOK, EntryOK, ObserversOK
    <3>2. Holds(D, sp, o, name)
      BY <2>2, <3>1 DEF RegistryFor, RegisteredAt
    <3>3. CASE o \in Specs
      <4>1. sp[o].data \in DOMAIN D /\ Terminal(D, sp[o].data) = name
        BY <3>2, <3>3 DEF Holds, SpecsOK
      <4> QED BY <3>3, <4>1 DEF Terminal
    <3>4. CASE o \notin Specs
      <4>1. o \in DOMAIN D \cap Expressions
        BY <3>1, <3>2, <3>4 DEF Holds, Observing
      <4>2. PICK op \in Operands[o] : name = Terminal(D, op)
        BY <3>2, <3>4 DEF Holds, Terminals
      <4>3. op \in DOMAIN D
        BY <4>1, <4>2 DEF DataOK
      <4> QED BY <4>1, <4>2, <4>3 DEF Terminal
    <3> QED BY <3>3, <3>4
  <2> QED BY <2>1, <2>2
<1>2. w = World(E, failed)
  BY <1>1 DEF Destroyed, World
<1>3. w.data = E /\ w.failed = failed
  BY <1>2 DEF World
<1> HIDE DEF w
<1>4. DOMAIN E = DOMAIN D \ {name} /\ \A n \in DOMAIN E : E[n] = D[n]
  OBVIOUS
<1> HIDE DEF E
<1>5. DataOK(E)
  <2>1. ASSUME NEW n \in DOMAIN E PROVE EntryOK(n, E[n], DOMAIN E)
    <3>1. EntryOK(n, D[n], DOMAIN D) /\ (name \in Nodes => D[n].to # name)
      BY <1>4 DEF DataOK
    <3>2. D[n].to \in MayForward(n, DOMAIN E)
      BY <1>4, <3>1 DEF EntryOK, MayForward
    <3> QED BY <1>4, <3>1, <3>2 DEF EntryOK
  <2>2. ASSUME NEW e \in DOMAIN E \cap Expressions PROVE Operands[e] \subseteq DOMAIN E
    <3>1. e \in DOMAIN D \cap Expressions
      BY <1>4
    <3>2. Operands[e] \subseteq DOMAIN D /\ name \notin Operands[e]
      BY <3>1 DEF DataOK
    <3> QED BY <1>4, <3>2
  <2> QED BY <1>4, <2>1, <2>2 DEF DataOK
<1>6. Kept(D, E)
  BY <1>4 DEF Kept
<1>7. CalculatedOK(E)
  <2>1. \A e \in DOMAIN E \cap Expressions : e \in DOMAIN D /\ E[e].current = D[e].current
    BY <1>4
  <2> QED BY <1>5, <1>6, <2>1, CalculationsKept
<1>8. SpecsOK(E, sp)
  BY <1>4 DEF SpecsOK
<1>9. RegistryFor(E, sp, lo, Observing \ ({name} \cap Expressions))
  <2> DEFINE os == Observing \ ({name} \cap Expressions)
  <2>1. /\ \A s \in os \cap Specs : sp[s].data \in DOMAIN E \cup {None}
        /\ \A e \in os \cap Expressions : e \in DOMAIN D <=> e \in DOMAIN E
    BY <1>4, <1>8 DEF SpecsOK
  <2>2. SameObservers(D, E, os)
    BY <1>4 DEF SameObservers
  <2>3. os \in SUBSET Observing /\ DOMAIN E \subseteq DOMAIN D
    BY <1>4
  <2>4. RegistryFor(D, sp, lo, os)
    OBVIOUS
  <2> HIDE DEF os
  <2>5. RegistryFor(E, sp, lo, os)
    BY <1>5, <1>6, <2>1, <2>2, <2>3, <2>4, RegistryKept
  <2> QED BY <2>5 DEF os
<1>10. RegistryOK(E, sp, lo)
  <2>1. ASSUME NEW n \in DOMAIN E, NEW o \in Observing, E[n].to \in {"own", "deferred"}
        PROVE  RegisteredAt(E, sp, lo, n, o)
    <3>1. CASE ~(o = name /\ name \in Expressions)
      BY <1>9, <2>1, <3>1 DEF RegistryFor
    <3>2. CASE o = name /\ name \in Expressions
      <4>1. o \notin DOMAIN E[n].observers
        BY <1>4, <2>1, <3>2
      <4>2. ~Holds(E, sp, o, n)
        BY <1>4, <3>2, OperandsAreNames DEF Holds
      <4> QED BY <4>1, <4>2 DEF RegisteredAt
    <3> QED BY <3>1, <3>2
  <2> QED BY <2>1 DEF RegistryOK, RegistryFor
<1>11. /\ DOMAIN w.data = DOMAIN D \ {name} /\ DataOK(w.data) /\ Kept(D, w.data)
       /\ CalculatedOK(w.data) /\ SpecsOK(w.data, sp) /\ RegistryOK(w.data, sp, lo)
       /\ w.failed = failed
  BY <1>3, <1>4, <1>5, <1>6, <1>7, <1>8, <1>10
<1> QED BY <1>11 DEF w

\* The last spec of an expression takes it along, which leaves its operands first.
LEMMA DroppedResult ==
  ASSUME NEW D, DataOK(D), CalculatedOK(D), NEW sp, SpecsOK(D, sp), NEW lo,
         RegistryOK(D, sp, lo), NEW e \in DOMAIN D \cap Expressions, NEW failed,
         \A s \in Specs : sp[s].data # e
  PROVE  LET w == Dropped(World(D, failed), e)
         IN  /\ DOMAIN w.data = DOMAIN D \ {e} /\ DataOK(w.data) /\ Kept(D, w.data)
             /\ CalculatedOK(w.data) /\ SpecsOK(w.data, sp) /\ RegistryOK(w.data, sp, lo)
             /\ w.failed \in {failed, "notified"}
<1> DEFINE at == Terminals(D, Operands[e])
           v == RemoveObserver(World(D, failed), at, e)
           w == Dropped(World(D, failed), e)
           E == v.data
<1>1. at \in SUBSET DOMAIN D /\ e \notin Specs /\ e \in Observing
  <2>1. Operands[e] \subseteq DOMAIN D
    BY DEF DataOK
  <2> QED BY <2>1, OperandsAreNoExpressions, OperandsAreNames DEF Observing
<1>2. w = Destroyed(v, e)
  BY DEF Dropped, World
<1>3. v = World(E, v.failed)
  BY DEF RemoveObserver, UpdateObservedRanges, World
<1> HIDE DEF w
<1>4. Unregisters(D, E, at, e) /\ v.failed \in {failed, "notified"}
  <2> HIDE DEF at
  <2> QED BY <1>1, RemoveObserverResult
<1> HIDE DEF v, E
<1>5. DOMAIN E = DOMAIN D /\ DataOK(E) /\ Kept(D, E) /\ SpecsOK(E, sp)
  BY <1>4 DEF Unregisters, SpecsOK
<1>6. CalculatedOK(E)
  <2>1. \A x \in DOMAIN E \cap Expressions :
          \/ x \in DOMAIN D /\ E[x].current = D[x].current
          \/ E[x].current = Calculated(E, x)
    <3> HIDE DEF at
    <3> QED BY <1>4, <1>5 DEF Unregisters
  <2> QED BY <1>5, <2>1, CalculationsKept
<1>7. ASSUME NEW n \in DOMAIN D
      PROVE  /\ \A p \in Observing \ {e} :
                  /\ p \in DOMAIN E[n].observers <=> p \in DOMAIN D[n].observers
                  /\ p \in DOMAIN E[n].observers => E[n].observers[p] = D[n].observers[p]
             /\ e \in DOMAIN E[n].observers => e \in DOMAIN D[n].observers /\ n \notin at
  <2> HIDE DEF at
  <2>1. CASE n \in at
    <3> DEFINE r == Unregistered(D[n].observers, e)
    <3>1. E[n].observers = r
      BY <1>4, <2>1 DEF Unregisters
    <3>2. /\ DOMAIN r = DOMAIN D[n].observers \ {e}
          /\ \A q \in DOMAIN r : r[q] = D[n].observers[q]
      BY DEF Unregistered
    <3> HIDE DEF r
    <3> QED BY <2>1, <3>1, <3>2
  <2>2. CASE n \notin at
    BY <1>4, <2>2 DEF Unregisters
  <2> QED BY <2>1, <2>2
<1>8. SameObservers(D, E, Observing \ {e})
  BY <1>5, <1>7 DEF SameObservers
<1>9. RegistryFor(E, sp, lo, Observing \ {e})
  <2>1. /\ DOMAIN E \subseteq DOMAIN D
        /\ \A s \in (Observing \ {e}) \cap Specs : sp[s].data \in DOMAIN E \cup {None}
        /\ \A x \in (Observing \ {e}) \cap Expressions : x \in DOMAIN D <=> x \in DOMAIN E
    BY <1>5 DEF SpecsOK
  <2>2. RegistryFor(D, sp, lo, Observing \ {e})
    BY DEF RegistryOK, RegistryFor
  <2>3. Observing \ {e} \in SUBSET Observing
    OBVIOUS
  <2> QED BY <1>5, <1>8, <2>1, <2>2, <2>3, RegistryKept
<1>10. ASSUME NEW n \in DOMAIN E, E[n].to \in {"own", "deferred"}
       PROVE  e \notin DOMAIN E[n].observers
  <2>1. n \in DOMAIN D /\ D[n].to \in {"own", "deferred"}
    BY <1>5, <1>10 DEF Kept
  <2>2. RegisteredAt(D, sp, lo, n, e)
    BY <1>1, <2>1 DEF RegistryOK, RegistryFor
  <2>3. e \in DOMAIN D[n].observers => n \in at
    BY <1>1, <2>2 DEF RegisteredAt, Holds
  <2> HIDE DEF at
  <2> QED BY <1>7, <2>1, <2>3
<1>11. ASSUME NEW n \in DOMAIN E
       PROVE  e \notin Nodes /\ (n \in Expressions => e \notin Operands[n])
  BY OperandsAreNames
<1>12. LET x == Destroyed(World(E, v.failed), e)
       IN  /\ DOMAIN x.data = DOMAIN E \ {e} /\ DataOK(x.data) /\ Kept(E, x.data)
           /\ CalculatedOK(x.data) /\ SpecsOK(x.data, sp) /\ RegistryOK(x.data, sp, lo)
           /\ x.failed = v.failed
  <2>1. {e} \cap Expressions = {e} /\ e \in DOMAIN E
    BY <1>5
  <2>2. RegistryFor(E, sp, lo, Observing \ ({e} \cap Expressions))
    BY <1>9, <2>1
  <2> QED BY <1>5, <1>6, <1>10, <1>11, <2>1, <2>2, DestroyedResult
<1>13. /\ DOMAIN w.data = DOMAIN D \ {e} /\ DataOK(w.data) /\ Kept(E, w.data)
       /\ CalculatedOK(w.data) /\ SpecsOK(w.data, sp) /\ RegistryOK(w.data, sp, lo)
       /\ w.failed \in {failed, "notified"}
  BY <1>2, <1>3, <1>4, <1>5, <1>12
<1>14. Kept(D, w.data)
  BY <1>5, <1>13 DEF Kept
<1> QED BY <1>13, <1>14 DEF w

-----------------------------------------------------------------------------
(* What the specs were told.                                               *)

\* A value that is not bad stays what it was.
LEMMA TruthKept ==
  ASSUME NEW D, DataOK(D), CalculatedOK(D), NEW E, DataOK(E), CalculatedOK(E), Kept(D, E),
         NEW x \in DOMAIN D \cap DOMAIN E, ~BadIn(E, x)
  PROVE  ~BadIn(D, x) /\ GetDataValue(E, x) = GetDataValue(D, x)
<1>1. CASE x \notin Expressions
  BY <1>1, KeptValues DEF BadIn
<1>2. CASE x \in Expressions
  <2>1. x \in Expressions \cap DOMAIN D \cap DOMAIN E
    BY <1>2
  <2>2. Calculated(E, x) = Calculated(D, x) /\ ~BadIn(D, x)
    BY <2>1, KeptCalculations
  <2>3. E[x].current = D[x].current
    BY <2>1, <2>2 DEF CalculatedOK
  <2>4. Terminal(E, x) = x /\ Terminal(D, x) = x
    BY <1>2, TerminalIsThere
  <2> QED BY <2>2, <2>3, <2>4 DEF GetDataValue
<1> QED BY <1>1, <1>2

\* A spec has either been told, or holds what it held.
LEMMA ToldKept ==
  ASSUME NEW D, DataOK(D), CalculatedOK(D), NEW E, DataOK(E), CalculatedOK(E), Kept(D, E),
         NEW sp, SpecsOK(D, sp), NEW td, NEW lo, ToldOK(D, sp, td, lo),
         NEW sq, SpecsOK(E, sq), NEW te, DOMAIN te = Specs, NEW mo,
         \A s \in Specs \ mo :
           \/ sq[s].data # None => te[s] = GetDataValue(E, sq[s].data)
           \/ s \notin lo /\ sq[s].data = sp[s].data /\ te[s] = td[s]
  PROVE  ToldOK(E, sq, te, mo)
<1>1. ASSUME NEW s \in Specs \ mo, sq[s].data # None, ~BadIn(E, sq[s].data)
      PROVE  te[s] = GetDataValue(E, sq[s].data)
  <2>1. CASE s \notin lo /\ sq[s].data = sp[s].data /\ te[s] = td[s]
    <3> DEFINE x == sp[s].data
    <3>1. x \in DOMAIN D \cap DOMAIN E
      BY <1>1, <2>1 DEF SpecsOK
    <3>2. ~BadIn(E, x)
      BY <1>1, <2>1
    <3> HIDE DEF x
    <3>3. ~BadIn(D, x) /\ GetDataValue(E, x) = GetDataValue(D, x)
      BY <3>1, <3>2, TruthKept
    <3> USE DEF x
    <3>4. td[s] = GetDataValue(D, x)
      BY <1>1, <2>1, <3>3 DEF ToldOK
    <3> QED BY <2>1, <3>3, <3>4
  <2> QED BY <1>1, <2>1
<1> QED BY <1>1 DEF ToldOK

-----------------------------------------------------------------------------
(* The actions.                                                            *)

LEMMA SetDataStep ==
  ASSUME ServiceInv, aborted = "no", NEW s \in Specs, NEW new \in Names \cup {None},
         NEW r \in Ranges, new # spec[s].data, SetData(s, new, r)
  PROVE  ServiceInv'
<1> DEFINE old == spec[s].data
           begun == World(data, aborted)
           made == IF new = None \/ new \in DOMAIN data THEN begun ELSE Made(begun, new)
           added == IF new = None THEN made
                    ELSE AddObserver(made, {Terminal(made.data, new)}, s, r)
           left == IF old = None THEN added
                   ELSE RemoveObserver(added, {Terminal(added.data, old)}, s)
           w == IF old \in Expressions /\ \A t \in Specs \ {s} : spec[t].data # old
                  THEN Dropped(left, old)
                  ELSE left
           M == made.data
           L == left.data
           E == w.data
<1>1. /\ data' = E /\ aborted' = w.failed
      /\ spec' = [spec EXCEPT ![s] = [data |-> new, range |-> r]]
      /\ told' = [told EXCEPT ![s] = IF new = None THEN NoValue ELSE GetDataValue(E, new)]
      /\ loose' = IF new # None /\ old # None /\ Terminal(M, new) = Terminal(M, old)
                    THEN loose \cup {s}
                    ELSE loose \ {s}
  BY DEF SetData
<1>2. /\ DataOK(data) /\ SpecsOK(data, spec) /\ loose \subseteq Specs
      /\ RegistryOK(data, spec, loose) /\ CalculatedOK(data)
      /\ ToldOK(data, spec, told, loose)
  BY DEF ServiceInv
<1>3. /\ DataOK(M) /\ Kept(data, M) /\ DOMAIN data \subseteq DOMAIN M
      /\ new \in DOMAIN M \cup {None} /\ CalculatedOK(M) /\ RegistryOK(M, spec, loose)
      /\ made.failed \in {"no", "notified"} /\ made = World(M, made.failed)
  <2>1. CASE new = None \/ new \in DOMAIN data
    <3>1. made = begun /\ begun.data = data /\ begun.failed = "no"
      BY <2>1 DEF World
    <3>2. Kept(data, data)
      BY DEF Kept
    <3> QED BY <1>2, <2>1, <3>1, <3>2
  <2>2. CASE ~(new = None \/ new \in DOMAIN data)
    <3>1. made = Made(World(data, aborted), new) /\ new \in Names /\ new \notin DOMAIN data
      BY <2>2
    <3>2. made = World(M, made.failed)
      BY <3>1 DEF Made, World
    <3> HIDE DEF made
    <3>3. IsMade(data, M, new) /\ RegistryOK(M, spec, loose) /\ made.failed \in {aborted, "notified"}
      BY <1>2, <3>1, MadeResult
    <3> QED BY <3>2, <3>3 DEF IsMade
  <2> QED BY <2>1, <2>2
<1>4. added = Joining(M, made.failed, s, new, r)
  BY <1>3 DEF Joining
<1>5. left = Leaving(added, s, old)
  BY DEF Leaving
<1>6. left = World(L, left.failed)
  <2>1. added = World(added.data, added.failed)
    BY <1>3 DEF AddObserver, UpdateObservedRanges, World
  <2> QED BY <2>1 DEF RemoveObserver, UpdateObservedRanges, World
<1> HIDE DEF made, M
<1>7. SpecsOK(M, spec)
  BY <1>2, <1>3 DEF SpecsOK
<1>8. /\ DOMAIN L = DOMAIN M /\ DataOK(L) /\ Kept(M, L) /\ CalculatedOK(L)
      /\ left.failed \in {made.failed, "notified"}
      /\ SpecsOK(L, spec') /\ RegistryOK(L, spec', loose')
  <2>1. left = Leaving(Joining(M, made.failed, s, new, r), s, spec[s].data)
    BY <1>4, <1>5
  <2> HIDE DEF left
  <2>2. loose' = LooseAfter(M, spec, loose, s, new)
        /\ spec' = Reconnected(spec, s, new, r)
    BY <1>1 DEF LooseAfter, Reconnected
  <2> QED BY <1>3, <1>7, <2>1, <2>2, MovesResult
<1> HIDE DEF left, L, added
<1>9. /\ spec'[s].data = new /\ \A t \in Specs \ {s} : spec'[t] = spec[t]
      /\ DOMAIN told' = Specs
      /\ told'[s] = IF new = None THEN NoValue ELSE GetDataValue(E, new)
      /\ \A t \in Specs \ {s} : told'[t] = told[t]
  <2>1. DOMAIN spec = Specs /\ DOMAIN told = Specs
    BY <1>2 DEF SpecsOK, ToldOK
  <2> HIDE DEF E
  <2> QED BY <1>1, <2>1
<1>10. /\ DataOK(E) /\ Kept(data, E) /\ CalculatedOK(E) /\ w.failed \in {"no", "notified"}
       /\ SpecsOK(E, spec') /\ RegistryOK(E, spec', loose')
  <2>1. Kept(data, L)
    BY <1>3, <1>8 DEF Kept
  <2>2. CASE old \in Expressions /\ \A t \in Specs \ {s} : spec[t].data # old
    <3>1. w = Dropped(World(L, left.failed), old)
      BY <1>6, <2>2
    <3>2. old \in DOMAIN L \cap Expressions
      <4>1. old \in Names /\ old \in DOMAIN data \cup {None}
        BY <1>2, <2>2 DEF SpecsOK, Names
      <4>2. old # None
        BY <4>1, NamesDiffer
      <4> QED BY <1>3, <1>8, <2>2, <4>1, <4>2
    <3>3. \A t \in Specs : spec'[t].data # old
      BY <1>9, <2>2
    <3> HIDE DEF w, old
    <3>4. /\ DOMAIN E = DOMAIN L \ {old} /\ DataOK(E) /\ Kept(L, E)
          /\ CalculatedOK(E) /\ SpecsOK(E, spec') /\ RegistryOK(E, spec', loose')
          /\ w.failed \in {left.failed, "notified"}
      BY <1>8, <3>1, <3>2, <3>3, DroppedResult
    <3>5. Kept(data, E)
      BY <1>3, <1>8, <2>1, <3>4 DEF Kept
    <3> QED BY <1>3, <1>8, <3>4, <3>5
  <2>3. CASE ~(old \in Expressions /\ \A t \in Specs \ {s} : spec[t].data # old)
    <3>1. w = left /\ E = L
      BY <2>3 DEF L
    <3> HIDE DEF w, E
    <3> QED BY <1>3, <1>8, <2>1, <3>1
  <2> QED BY <2>2, <2>3
<1> HIDE DEF w, E
<1>11. ToldOK(E, spec', told', loose')
  <2>1. ASSUME NEW t \in Specs \ loose'
        PROVE  \/ spec'[t].data # None => told'[t] = GetDataValue(E, spec'[t].data)
               \/ t \notin loose /\ spec'[t].data = spec[t].data /\ told'[t] = told[t]
    <3>1. CASE t = s
      BY <1>9, <3>1
    <3>2. CASE t # s
      BY <1>1, <1>9, <3>2
    <3> QED BY <3>1, <3>2
  <2> QED BY <1>2, <1>9, <1>10, <2>1, ToldKept
<1>12. loose' \subseteq Specs
  BY <1>1, <1>2
<1>13. /\ DataOK(data') /\ SpecsOK(data', spec') /\ loose' \subseteq Specs
       /\ RegistryOK(data', spec', loose') /\ CalculatedOK(data')
       /\ ToldOK(data', spec', told', loose') /\ aborted' \in {"no", "notified"}
  BY <1>1, <1>10, <1>11, <1>12
<1> QED BY <1>13 DEF ServiceInv


\* Data that changed its value at one name alone leaves right what does not observe it.
LEMMA ChangeStep ==
  ASSUME ServiceInv, NEW at \in DOMAIN data, data[at].to \in {"own", "deferred"},
         NEW E, DataOK(E), DOMAIN data \subseteq DOMAIN E, RegistryOK(E, spec, loose),
         \A x \in DOMAIN data \ Expressions :
           Terminal(data, x) # at => GetDataValue(E, x) = GetDataValue(data, x),
         \A e \in DOMAIN E \cap Expressions :
           /\ e \in DOMAIN data
           /\ IF e \in DOMAIN data[at].observers
                THEN BadIn(E, e) \/ E[e].current = Calculated(E, e)
                ELSE E[e].current = data[e].current,
         DOMAIN told' = Specs,
         \A s \in Specs :
           \/ told'[s] = GetDataValue(E, spec[s].data)
           \/ /\ told'[s] = told[s] /\ s \notin DOMAIN data[at].observers
              /\ \A e \in DOMAIN data[at].observers \cap Expressions :
                   BadIn(E, e) \/ s \notin DOMAIN data[e].observers,
         data' = E, spec' = spec, loose' = loose, aborted' \in {"no", "notified"}
  PROVE  ServiceInv'
<1> DEFINE observers == DOMAIN data[at].observers
<1>1. /\ DataOK(data) /\ SpecsOK(data, spec) /\ loose \subseteq Specs
      /\ RegistryOK(data, spec, loose) /\ CalculatedOK(data)
      /\ ToldOK(data, spec, told, loose)
  BY DEF ServiceInv
<1>2. ASSUME NEW e \in DOMAIN data \cap Expressions, e \notin observers
      PROVE  Calculated(E, e) = Calculated(data, e) /\ (BadIn(E, e) <=> BadIn(data, e))
  <2>1. ~Holds(data, spec, e, at)
    <3>1. e \in Observing /\ e \notin loose
      BY <1>1, OperandsAreNames DEF Observing
    <3>2. RegisteredAt(data, spec, loose, at, e)
      BY <1>1, <3>1 DEF RegistryOK, RegistryFor
    <3> QED BY <1>2, <3>1, <3>2 DEF RegisteredAt
  <2>2. at \notin Terminals(data, Operands[e])
    BY <2>1, OperandsAreNames DEF Holds
  <2>3. ASSUME NEW op \in Operands[e]
        PROVE  GetDataValue(E, op) = GetDataValue(data, op)
    <3>1. op \in DOMAIN data /\ Operands[e] \cap Expressions = {}
      <4>1. Operands[e] \subseteq DOMAIN data
        BY <1>1, <1>2 DEF DataOK
      <4> QED BY <1>1, <4>1, OperandsAreNoExpressions
    <3>2. Terminal(data, op) # at
      BY <2>2 DEF Terminals
    <3> QED BY <3>1, <3>2
  <2> QED BY <2>3 DEF Calculated, BadIn
<1>3. CalculatedOK(E)
  <2>1. ASSUME NEW e \in DOMAIN E \cap Expressions, ~BadIn(E, e)
        PROVE  E[e].current = Calculated(E, e)
    <3>1. CASE e \in observers
      BY <2>1, <3>1
    <3>2. CASE e \notin observers
      <4>1. e \in DOMAIN data /\ E[e].current = data[e].current
        BY <3>2
      <4>2. Calculated(E, e) = Calculated(data, e) /\ ~BadIn(data, e)
        BY <1>2, <2>1, <3>2, <4>1
      <4> QED BY <1>1, <4>1, <4>2 DEF CalculatedOK
    <3> QED BY <3>1, <3>2
  <2> QED BY <2>1 DEF CalculatedOK
<1>4. SpecsOK(E, spec)
  BY <1>1 DEF SpecsOK
<1>5. ASSUME NEW s \in Specs \ loose, spec[s].data # None, ~BadIn(E, spec[s].data)
      PROVE  told'[s] = GetDataValue(E, spec[s].data)
  <2> DEFINE x == spec[s].data
  <2>1. CASE told'[s] = GetDataValue(E, x)
    BY <2>1
  <2>2. CASE /\ told'[s] = told[s] /\ s \notin observers
             /\ \A e \in observers \cap Expressions :
                  BadIn(E, e) \/ s \notin DOMAIN data[e].observers
    <3>1. x \in DOMAIN data
      BY <1>1, <1>5 DEF SpecsOK
    <3>2. Holds(data, spec, s, Terminal(data, x))
      BY <1>5 DEF Holds
    <3>3. ASSUME data[Terminal(data, x)].to \in {"own", "deferred"}
          PROVE  s \in DOMAIN data[Terminal(data, x)].observers
      <4>1. Terminal(data, x) \in DOMAIN data /\ s \in Observing
        BY <1>1, <3>1, TerminalIsThere DEF Observing
      <4>2. RegisteredAt(data, spec, loose, Terminal(data, x), s)
        BY <1>1, <3>3, <4>1 DEF RegistryOK, RegistryFor
      <4> QED BY <1>5, <3>2, <4>2 DEF RegisteredAt
    <3>4. told[s] = GetDataValue(data, x) \/ BadIn(data, x)
      BY <1>1, <1>5 DEF ToldOK
    <3>5. CASE x \notin Expressions
      <4>1. Terminal(data, x) # at
        BY <2>2, <3>3
      <4>2. GetDataValue(E, x) = GetDataValue(data, x)
        BY <3>1, <3>5, <4>1
      <4> QED BY <2>2, <3>4, <3>5, <4>2 DEF BadIn
    <3>6. CASE x \in Expressions
      <4>1. Terminal(data, x) = x /\ Terminal(E, x) = x /\ data[x].to = "own"
        <5>1. Terminal(data, x) = x /\ Terminal(E, x) = x
          BY <1>1, <3>1, <3>6, TerminalIsThere
        <5>2. data[x].to \in MayForward(x, DOMAIN data) /\ x \in Names
          BY <1>1, <3>1 DEF DataOK, EntryOK
        <5> QED BY <3>6, <5>1, <5>2, NamesDiffer DEF MayForward
      <4>2. s \in DOMAIN data[x].observers
        BY <3>3, <4>1
      <4>3. x \notin observers
        BY <1>5, <2>2, <3>6, <4>2
      <4>4. E[x].current = data[x].current
        BY <3>1, <3>6, <4>3
      <4>5. ~BadIn(data, x)
        BY <1>2, <1>5, <3>1, <3>6, <4>3
      <4> QED BY <2>2, <3>4, <4>1, <4>4, <4>5 DEF GetDataValue
    <3> QED BY <3>5, <3>6
  <2> QED BY <2>1, <2>2
<1>6. ToldOK(E, spec, told', loose)
  BY <1>5 DEF ToldOK
<1>7. /\ DataOK(data') /\ SpecsOK(data', spec') /\ loose' \subseteq Specs
      /\ RegistryOK(data', spec', loose') /\ CalculatedOK(data')
      /\ ToldOK(data', spec', told', loose') /\ aborted' \in {"no", "notified"}
  BY <1>1, <1>3, <1>4, <1>6
<1> QED BY <1>7 DEF ServiceInv

\* The registry does not depend on values.
LEMMA RecalculatedRegistry ==
  ASSUME NEW D, DataOK(D), NEW E, NEW expressions, Recalculated(D, E, expressions),
         NEW sp, SpecsOK(D, sp), NEW lo, RegistryOK(D, sp, lo)
  PROVE  RegistryOK(E, sp, lo)
<1>1. DOMAIN E = DOMAIN D /\ DataOK(E) /\ Kept(D, E)
      /\ \A n \in DOMAIN D : E[n].observers = D[n].observers
  BY DEF Recalculated
<1>2. SameObservers(D, E, Observing)
  BY <1>1 DEF SameObservers
<1>3. /\ DOMAIN E \subseteq DOMAIN D /\ Observing \in SUBSET Observing
      /\ \A s \in Observing \cap Specs : sp[s].data \in DOMAIN E \cup {None}
      /\ \A e \in Observing \cap Expressions : e \in DOMAIN D <=> e \in DOMAIN E
  BY <1>1 DEF SpecsOK
<1>4. RegistryFor(D, sp, lo, Observing)
  BY DEF RegistryOK
<1>5. RegistryFor(E, sp, lo, Observing)
  BY <1>1, <1>2, <1>3, <1>4, RegistryKept
<1> QED BY <1>5 DEF RegistryOK

\* Whoever observes the data that changed is told, and expressions tell their own.
LEMMA PropertyChangedStep ==
  ASSUME ServiceInv, NEW at \in DOMAIN data, data[at].to \in {"own", "deferred"},
         NEW D, DataOK(D), DOMAIN data \subseteq DOMAIN D, RegistryOK(D, spec, loose),
         \A x \in DOMAIN data \ Expressions :
           Terminal(data, x) # at => GetDataValue(D, x) = GetDataValue(data, x),
         \A e \in DOMAIN D \cap Expressions :
           /\ e \in DOMAIN data
           /\ D[e].current = data[e].current /\ D[e].observers = data[e].observers,
         PropertyChanged(D, DOMAIN data[at].observers),
         spec' = spec, loose' = loose, aborted' \in {"no", "notified"}
  PROVE  ServiceInv'
<1> DEFINE observers == DOMAIN data[at].observers
           expressions == observers \cap Expressions
           E == CalculateCurrent(D, expressions)
           reached == observers \cup UNION {DOMAIN E[e].observers : e \in expressions}
<1>1. /\ data' = E
      /\ told' = [s \in Specs |-> IF s \in reached
                                    THEN GetDataValue(E, spec[s].data) ELSE told[s]]
  BY DEF PropertyChanged
<1>2. /\ DataOK(data) /\ SpecsOK(data, spec) /\ loose \subseteq Specs
      /\ RegistryOK(data, spec, loose)
  BY DEF ServiceInv
<1>3. Recalculated(D, E, expressions)
  <2>1. expressions \in SUBSET Expressions
    OBVIOUS
  <2> HIDE DEF expressions
  <2> QED BY <2>1, CalculateCurrentResult
<1>4. ASSUME NEW s \in Specs
      PROVE  \/ told'[s] = GetDataValue(E, spec[s].data)
             \/ /\ told'[s] = told[s] /\ s \notin observers
                /\ \A e \in observers \cap Expressions : s \notin DOMAIN E[e].observers
  <2> HIDE DEF E
  <2> QED BY <1>1
<1> HIDE DEF E
<1>5. /\ DOMAIN E = DOMAIN D /\ DataOK(E) /\ Kept(D, E)
      /\ \A n \in DOMAIN D : /\ E[n].observers = D[n].observers
                             /\ n \in expressions => E[n].current = Calculated(E, n)
                             /\ n \notin expressions => E[n].current = D[n].current
  BY <1>3 DEF Recalculated
<1>6. SpecsOK(D, spec)
  BY <1>2 DEF SpecsOK
<1>7. RegistryOK(E, spec, loose)
  <2> HIDE DEF expressions
  <2> QED BY <1>3, <1>6, RecalculatedRegistry
<1>8. \A x \in DOMAIN data \ Expressions :
        Terminal(data, x) # at => GetDataValue(E, x) = GetDataValue(data, x)
  <2>1. ASSUME NEW x \in DOMAIN data \ Expressions
        PROVE  GetDataValue(E, x) = GetDataValue(D, x)
    <3>1. x \in DOMAIN D \cap DOMAIN E
      BY <1>5
    <3> QED BY <1>5, <3>1, KeptValues
  <2> QED BY <2>1
<1>9. \A e \in DOMAIN E \cap Expressions :
        /\ e \in DOMAIN data
        /\ IF e \in observers THEN BadIn(E, e) \/ E[e].current = Calculated(E, e)
                              ELSE E[e].current = data[e].current
  BY <1>5
<1>10. ASSUME NEW s \in Specs
       PROVE  \/ told'[s] = GetDataValue(E, spec[s].data)
              \/ /\ told'[s] = told[s] /\ s \notin observers
                 /\ \A e \in observers \cap Expressions :
                      BadIn(E, e) \/ s \notin DOMAIN data[e].observers
  <2>1. ASSUME NEW e \in observers \cap Expressions
        PROVE  E[e].observers = data[e].observers
    <3>1. e \in Observing /\ e \notin Specs
      BY OperandsAreNames DEF Observing
    <3>2. Holds(data, spec, e, at)
      BY <1>2, <2>1, <3>1 DEF RegistryOK, RegistryFor, RegisteredAt
    <3>3. e \in DOMAIN data
      BY <3>1, <3>2 DEF Holds
    <3> QED BY <1>5, <3>3
  <2> QED BY <1>4, <2>1
<1>11. DOMAIN told' = Specs /\ data' = E
  BY <1>1
<1> QED BY <1>5, <1>7, <1>8, <1>9, <1>10, <1>11, ChangeStep


\* Data in which the value of one node changed.
ValueChanged(D, E, n) ==
  /\ DOMAIN E = DOMAIN D /\ E[n].current \in [sample : Nat, good : BOOLEAN]
  /\ \A x \in DOMAIN D : /\ IsTimedData(E[x]) /\ E[x].to = D[x].to
                         /\ E[x].observers = D[x].observers
                         /\ x # n => E[x].current = D[x].current

LEMMA ValueChangedResult ==
  ASSUME NEW D, DataOK(D), NEW n \in DOMAIN D \cap Nodes, NEW E, ValueChanged(D, E, n),
         NEW sp, SpecsOK(D, sp), NEW lo, RegistryOK(D, sp, lo)
  PROVE  /\ DataOK(E) /\ RegistryOK(E, sp, lo) /\ D[n].to = "own" /\ n \notin Expressions
         /\ \A x \in DOMAIN D \ Expressions :
              Terminal(D, x) # n => GetDataValue(E, x) = GetDataValue(D, x)
         /\ \A x \in DOMAIN D : Terminal(E, x) = Terminal(D, x)
<1>1. D[n].to = "own" /\ n \notin Expressions
  <2>1. n \in Names /\ D[n].to \in MayForward(n, DOMAIN D)
    BY DEF DataOK, EntryOK
  <2> QED BY <2>1, NamesDiffer DEF MayForward
<1>2. DataOK(E)
  <2>1. ASSUME NEW x \in DOMAIN D PROVE EntryOK(x, E[x], DOMAIN E)
    <3>1. EntryOK(x, D[x], DOMAIN D)
      BY DEF DataOK
    <3> QED BY <3>1 DEF ValueChanged, EntryOK, ObserversOK
  <2> QED BY <2>1 DEF DataOK, ValueChanged
<1>3. ASSUME NEW x \in DOMAIN D PROVE Terminal(E, x) = Terminal(D, x)
  BY DEF ValueChanged, Terminal
<1>4. ASSUME NEW x \in DOMAIN D \ Expressions, Terminal(D, x) # n
      PROVE  GetDataValue(E, x) = GetDataValue(D, x)
  <2>1. Terminal(D, x) \in DOMAIN D
    BY TerminalIsThere
  <2> QED BY <1>3, <1>4, <2>1 DEF GetDataValue, ValueChanged
<1>5. ASSUME NEW m \in DOMAIN E, NEW o \in Observing, E[m].to \in {"own", "deferred"}
      PROVE  RegisteredAt(E, sp, lo, m, o)
  <2>1. m \in DOMAIN D /\ D[m].to = E[m].to /\ D[m].observers = E[m].observers
        /\ DOMAIN E = DOMAIN D
    BY DEF ValueChanged
  <2>2. RegisteredAt(D, sp, lo, m, o)
    BY <1>5, <2>1 DEF RegistryOK, RegistryFor
  <2>3. Holds(E, sp, o, m) <=> Holds(D, sp, o, m)
    <3>1. CASE o \in Specs
      BY <1>3, <3>1 DEF Holds, SpecsOK
    <3>2. CASE o \notin Specs
      <4>1. ASSUME o \in DOMAIN D
            PROVE  Terminals(E, Operands[o]) = Terminals(D, Operands[o])
        <5>1. Operands[o] \subseteq DOMAIN D
          BY <3>2, <4>1 DEF DataOK, Observing
        <5> QED BY <1>3, <5>1 DEF Terminals
      <4> QED BY <2>1, <3>2, <4>1 DEF Holds
    <3> QED BY <3>1, <3>2
  <2> QED BY <2>1, <2>2, <2>3 DEF RegisteredAt
<1>6. RegistryOK(E, sp, lo)
  BY <1>5 DEF RegistryOK, RegistryFor
<1> QED BY <1>1, <1>2, <1>3, <1>4, <1>6

LEMMA UpdateStep ==
  ASSUME ServiceInv, aborted = "no", NEW n \in Nodes, NEW change \in BOOLEAN, Update(n, change)
  PROVE  ServiceInv'
<1> DEFINE v == [sample |-> Received(n) + 1, good |-> TRUE]
           D == [data EXCEPT ![n].current = v]
<1>1. /\ n \in DOMAIN data /\ PropertyChanged(D, DOMAIN data[n].observers)
      /\ spec' = spec /\ loose' = loose /\ aborted' \in {"no", "notified"}
  BY DEF Update
<1>2. /\ DataOK(data) /\ SpecsOK(data, spec) /\ RegistryOK(data, spec, loose)
  BY DEF ServiceInv
<1>3. v \in [sample : Nat, good : BOOLEAN]
  <2>1. data[n].current \in [sample : Nat, good : BOOLEAN]
    BY <1>1, <1>2 DEF DataOK, EntryOK
  <2>2. Received(n) + 1 \in Nat
    BY <2>1 DEF Received
  <2> QED BY <2>2
<1> HIDE DEF v
<1>4. ValueChanged(data, D, n)
  <2>1. IsTimedData(D[n]) /\ D[n].to = data[n].to /\ D[n].observers = data[n].observers
        /\ D[n].current = v
    <3>1. IsTimedData(data[n])
      BY <1>1, <1>2 DEF DataOK, EntryOK
    <3>2. D[n] = [data[n] EXCEPT !.current = v]
      BY <1>1
    <3> HIDE DEF D
    <3>3. D[n] = [to |-> data[n].to, current |-> v, historical |-> data[n].historical,
                  node |-> data[n].node, subscribed |-> data[n].subscribed,
                  observers |-> data[n].observers]
      BY <3>1, <3>2 DEF IsTimedData
    <3> QED BY <3>3 DEF IsTimedData
  <2>2. \A x \in DOMAIN data \ {n} : D[x] = data[x] /\ IsTimedData(data[x])
    BY <1>2 DEF DataOK, EntryOK
  <2>3. DOMAIN D = DOMAIN data
    OBVIOUS
  <2> HIDE DEF D
  <2> QED BY <1>3, <2>1, <2>2, <2>3 DEF ValueChanged
<1> HIDE DEF D
<1>5. n \in DOMAIN data \cap Nodes
  BY <1>1
<1>6. /\ DataOK(D) /\ RegistryOK(D, spec, loose) /\ data[n].to = "own" /\ n \notin Expressions
      /\ \A x \in DOMAIN data \ Expressions :
           Terminal(data, x) # n => GetDataValue(D, x) = GetDataValue(data, x)
  BY <1>2, <1>4, <1>5, ValueChangedResult
<1>7. \A e \in DOMAIN D \cap Expressions :
        /\ e \in DOMAIN data
        /\ D[e].current = data[e].current /\ D[e].observers = data[e].observers
  BY <1>4, <1>6 DEF ValueChanged
<1>8. DOMAIN data \subseteq DOMAIN D /\ data[n].to \in {"own", "deferred"}
  BY <1>4, <1>6 DEF ValueChanged
<1> QED BY <1>1, <1>5, <1>6, <1>7, <1>8, PropertyChangedStep

\* An expression is not told, but an operand of it has gone bad.
LEMMA DeletedStep ==
  ASSUME ServiceInv, aborted = "no", NEW n \in DOMAIN data \cap Nodes,
         NEW D, ValueChanged(data, D, n), Delete(D, n)
  PROVE  ServiceInv'
<1> DEFINE E == [D EXCEPT ![n].current.good = FALSE]
           v == [D[n].current EXCEPT !.good = FALSE]
<1>1. /\ data' = E /\ spec' = spec /\ loose' = loose /\ aborted' = "no"
      /\ told' = [s \in Specs |-> IF s \in DOMAIN E[n].observers
                                    THEN GetDataValue(E, spec[s].data) ELSE told[s]]
  BY DEF Delete
<1>2. /\ DataOK(data) /\ SpecsOK(data, spec) /\ RegistryOK(data, spec, loose)
  BY DEF ServiceInv
<1>3. /\ IsTimedData(E[n]) /\ E[n].to = data[n].to /\ E[n].observers = data[n].observers
      /\ E[n].current = v
  <2>1. /\ IsTimedData(D[n]) /\ D[n].to = data[n].to /\ D[n].observers = data[n].observers
        /\ n \in DOMAIN D /\ D[n].current \in [sample : Nat, good : BOOLEAN]
    BY DEF ValueChanged
  <2>2. E[n] = [D[n] EXCEPT !.current = v]
    BY <2>1
  <2> HIDE DEF E, v
  <2>3. E[n] = [to |-> D[n].to, current |-> v, historical |-> D[n].historical,
                node |-> D[n].node, subscribed |-> D[n].subscribed,
                observers |-> D[n].observers]
    BY <2>1, <2>2 DEF IsTimedData
  <2> QED BY <2>1, <2>3 DEF IsTimedData
<1>4. v \in [sample : Nat, good : BOOLEAN] /\ v.good = FALSE
  <2>1. D[n].current \in [sample : Nat, good : BOOLEAN]
    BY DEF ValueChanged
  <2> QED BY <2>1
<1>5. DOMAIN E = DOMAIN data /\ \A x \in DOMAIN data \ {n} : E[x] = D[x]
  BY DEF ValueChanged
<1>6. ASSUME NEW s \in Specs
      PROVE  \/ told'[s] = GetDataValue(E, spec[s].data)
             \/ told'[s] = told[s] /\ s \notin DOMAIN E[n].observers
  <2> HIDE DEF E
  <2> QED BY <1>1
<1>7. DOMAIN told' = Specs
  BY <1>1
<1> HIDE DEF E, v
<1>8. ValueChanged(data, E, n)
  BY <1>3, <1>4, <1>5 DEF ValueChanged
<1>9. /\ DataOK(E) /\ RegistryOK(E, spec, loose) /\ data[n].to = "own" /\ n \notin Expressions
      /\ \A x \in DOMAIN data \ Expressions :
           Terminal(data, x) # n => GetDataValue(E, x) = GetDataValue(data, x)
      /\ \A x \in DOMAIN data : Terminal(E, x) = Terminal(data, x)
  BY <1>2, <1>8, ValueChangedResult
<1>10. ASSUME NEW e \in DOMAIN data[n].observers \cap Expressions
       PROVE  BadIn(E, e)
  <2>1. e \in Observing /\ e \notin Specs
    BY OperandsAreNames DEF Observing
  <2>2. Holds(data, spec, e, n)
    BY <1>2, <1>9, <2>1 DEF RegistryOK, RegistryFor, RegisteredAt
  <2>3. e \in DOMAIN data /\ n \in Terminals(data, Operands[e])
    BY <2>1, <2>2 DEF Holds
  <2>4. PICK op \in Operands[e] : n = Terminal(data, op)
    BY <2>3 DEF Terminals
  <2>5. op \in DOMAIN data
    BY <1>2, <2>3, <2>4 DEF DataOK
  <2>6. GetDataValue(E, op) = v
    BY <1>3, <1>9, <2>4, <2>5 DEF GetDataValue
  <2> QED BY <1>4, <2>4, <2>6 DEF BadIn
<1>11. \A e \in DOMAIN E \cap Expressions :
         /\ e \in DOMAIN data
         /\ IF e \in DOMAIN data[n].observers
              THEN BadIn(E, e) \/ E[e].current = Calculated(E, e)
              ELSE E[e].current = data[e].current
  BY <1>8, <1>9, <1>10 DEF ValueChanged
<1>12. \A s \in Specs :
         \/ told'[s] = GetDataValue(E, spec[s].data)
         \/ /\ told'[s] = told[s] /\ s \notin DOMAIN data[n].observers
            /\ \A e \in DOMAIN data[n].observers \cap Expressions :
                 BadIn(E, e) \/ s \notin DOMAIN data[e].observers
  BY <1>3, <1>6, <1>10
<1>13. /\ DOMAIN data \subseteq DOMAIN E /\ data[n].to \in {"own", "deferred"}
       /\ data' = E /\ spec' = spec /\ loose' = loose /\ aborted' \in {"no", "notified"}
       /\ n \in DOMAIN data
  BY <1>1, <1>5, <1>9
<1> QED BY <1>7, <1>9, <1>11, <1>12, <1>13, ChangeStep


LEMMA ChannelFailsStep ==
  ASSUME ServiceInv, aborted = "no", NEW n \in Nodes,
         ChannelFails(n) \/ NodeDeleted(n)
  PROVE  ServiceInv'
<1>1. n \in DOMAIN data \cap Nodes
  BY DEF ChannelFails, NodeDeleted
<1>2. DataOK(data)
  BY DEF ServiceInv
<1>3. IsTimedData(data[n]) /\ data[n].current \in [sample : Nat, good : BOOLEAN]
  BY <1>1, <1>2 DEF DataOK, EntryOK
<1>4. \A x \in DOMAIN data : IsTimedData(data[x])
  BY <1>2 DEF DataOK, EntryOK
<1>5. CASE ChannelFails(n)
  <2> DEFINE D == [data EXCEPT ![n].subscribed = FALSE]
  <2>1. Delete(D, n)
    BY <1>5 DEF ChannelFails
  <2>2. D[n] = [data[n] EXCEPT !.subscribed = FALSE]
        /\ DOMAIN D = DOMAIN data /\ \A x \in DOMAIN data \ {n} : D[x] = data[x]
    BY <1>1
  <2> HIDE DEF D
  <2>3. D[n] = [to |-> data[n].to, current |-> data[n].current,
                historical |-> data[n].historical, node |-> data[n].node,
                subscribed |-> FALSE, observers |-> data[n].observers]
    BY <1>3, <2>2 DEF IsTimedData
  <2>4. /\ IsTimedData(D[n]) /\ D[n].to = data[n].to /\ D[n].observers = data[n].observers
        /\ D[n].current = data[n].current
    BY <2>3 DEF IsTimedData
  <2>5. ValueChanged(data, D, n)
    BY <1>3, <1>4, <2>2, <2>4 DEF ValueChanged
  <2> QED BY <1>1, <2>1, <2>5, DeletedStep
<1>6. CASE NodeDeleted(n)
  <2> DEFINE D == [data EXCEPT ![n].node = FALSE]
  <2>1. Delete(D, n)
    BY <1>6 DEF NodeDeleted
  <2>2. D[n] = [data[n] EXCEPT !.node = FALSE]
        /\ DOMAIN D = DOMAIN data /\ \A x \in DOMAIN data \ {n} : D[x] = data[x]
    BY <1>1
  <2> HIDE DEF D
  <2>3. D[n] = [to |-> data[n].to, current |-> data[n].current,
                historical |-> data[n].historical, node |-> FALSE,
                subscribed |-> data[n].subscribed, observers |-> data[n].observers]
    BY <1>3, <2>2 DEF IsTimedData
  <2>4. /\ IsTimedData(D[n]) /\ D[n].to = data[n].to /\ D[n].observers = data[n].observers
        /\ D[n].current = data[n].current
    BY <2>3 DEF IsTimedData
  <2>5. ValueChanged(data, D, n)
    BY <1>3, <1>4, <2>2, <2>4 DEF ValueChanged
  <2> QED BY <1>1, <2>1, <2>5, DeletedStep
<1> QED BY <1>5, <1>6

\* Only the buffer changes.
LEMMA BufferSteps ==
  ASSUME ServiceInv, aborted = "no", NEW n \in Nodes,
         LateSample(n) \/ \E empty \in BOOLEAN : HistoryRead(n, empty)
  PROVE  ServiceInv'
<1>1. /\ data' = data /\ spec' = spec /\ told' = told /\ loose' = loose
      /\ aborted' \in {"no", "notified"}
  BY DEF LateSample, HistoryRead
<1>2. /\ DataOK(data) /\ SpecsOK(data, spec) /\ loose \subseteq Specs
      /\ RegistryOK(data, spec, loose) /\ CalculatedOK(data)
      /\ ToldOK(data, spec, told, loose)
  BY DEF ServiceInv
<1>3. /\ DataOK(data') /\ SpecsOK(data', spec') /\ loose' \subseteq Specs
      /\ RegistryOK(data', spec', loose') /\ CalculatedOK(data')
      /\ ToldOK(data', spec', told', loose')
  BY <1>1, <1>2
<1> QED BY <1>1, <1>3 DEF ServiceInv

\* What the cache lets go of is observed by nobody, for nobody holds it.
LEMMA ExpireStep ==
  ASSUME ServiceInv, aborted = "no", NEW name \in Nodes \cup Aliases, Expire(name)
  PROVE  ServiceInv'
<1> DEFINE w == Destroyed(World(data, aborted), name)
           E == w.data
<1>1. /\ name \in DOMAIN data /\ \A s \in Specs : spec[s].data # name
      /\ \A n \in DOMAIN data : /\ name \in Nodes => data[n].to # name
                                /\ n \in Expressions => name \notin Operands[n]
      /\ data' = E /\ aborted' = w.failed /\ spec' = spec /\ told' = told /\ loose' = loose
  BY DEF Expire
<1>2. /\ DataOK(data) /\ SpecsOK(data, spec) /\ loose \subseteq Specs
      /\ RegistryOK(data, spec, loose) /\ CalculatedOK(data)
      /\ ToldOK(data, spec, told, loose)
  BY DEF ServiceInv
<1>3. name \notin Expressions
  BY NamesDiffer DEF Names
<1>4. RegistryFor(data, spec, loose, Observing \ ({name} \cap Expressions))
  BY <1>2, <1>3 DEF RegistryOK, RegistryFor
<1> HIDE DEF w
<1>5. /\ DOMAIN E = DOMAIN data \ {name} /\ DataOK(E) /\ Kept(data, E)
      /\ CalculatedOK(E) /\ SpecsOK(E, spec) /\ RegistryOK(E, spec, loose)
      /\ w.failed = aborted
  BY <1>1, <1>2, <1>3, <1>4, DestroyedResult DEF w
<1> HIDE DEF E
<1>6. ToldOK(E, spec, told, loose)
  <2>1. DOMAIN told = Specs
    BY <1>2 DEF ToldOK
  <2> QED BY <1>2, <1>5, <2>1, ToldKept
<1>7. /\ DataOK(data') /\ SpecsOK(data', spec') /\ loose' \subseteq Specs
      /\ RegistryOK(data', spec', loose') /\ CalculatedOK(data')
      /\ ToldOK(data', spec', told', loose') /\ aborted' \in {"no", "notified"}
  BY <1>1, <1>2, <1>5, <1>6
<1> QED BY <1>7 DEF ServiceInv

\* Another range of the data a spec holds, which is registered there anew.
LEMMA SetRangeStep ==
  ASSUME ServiceInv, aborted = "no", NEW s \in Specs, NEW r \in Ranges, SetRange(s, r)
  PROVE  ServiceInv'
<1> DEFINE x == spec[s].data
           w == Joining(data, aborted, s, x, r)
           E == w.data
<1>1. /\ spec' = [spec EXCEPT ![s].range = r] /\ told' = told /\ loose' = loose
      /\ data' = E /\ aborted' = w.failed
  BY DEF SetRange, Joining, World
<1>2. /\ DataOK(data) /\ SpecsOK(data, spec) /\ loose \subseteq Specs
      /\ RegistryOK(data, spec, loose) /\ CalculatedOK(data)
      /\ ToldOK(data, spec, told, loose)
  BY DEF ServiceInv
<1>3. x \in DOMAIN data \cup {None}
  BY <1>2 DEF SpecsOK
<1> HIDE DEF x
<1>4. Moved(data, E, s, Arrival(data, x), {}, r) /\ w.failed \in {"no", "notified"}
  BY <1>2, <1>3, JoiningResult
<1> HIDE DEF w, E
<1>5. /\ DOMAIN E = DOMAIN data /\ DataOK(E) /\ Kept(data, E)
  BY <1>4 DEF Moved
<1>6. CalculatedOK(E)
  BY <1>2, <1>4, <1>5, CalculationsKept DEF Moved
<1>7. /\ spec' \in [Specs -> [data : Names \cup {None}, range : Ranges]]
      /\ spec'[s].range = r /\ \A t \in Specs : spec'[t].data = spec[t].data
      /\ \A t \in Specs \ {s} : spec'[t] = spec[t]
  <2>1. spec \in [Specs -> [data : Names \cup {None}, range : Ranges]]
    BY <1>2 DEF SpecsOK
  <2> QED BY <1>1, <2>1
<1>8. SpecsOK(E, spec') /\ SpecsOK(data, spec')
  BY <1>2, <1>5, <1>7 DEF SpecsOK
<1>9. ASSUME NEW n \in DOMAIN E, NEW o \in Observing, E[n].to \in {"own", "deferred"}
      PROVE  RegisteredAt(E, spec', loose, n, o)
  <2>1. n \in DOMAIN data /\ data[n].to \in {"own", "deferred"}
    BY <1>5, <1>9 DEF Kept
  <2>2. RegisteredAt(data, spec, loose, n, o)
    BY <1>2, <2>1 DEF RegistryOK, RegistryFor
  <2>3. Holds(data, spec', o, n) <=> Holds(data, spec, o, n)
    BY <1>7 DEF Holds
  <2>4. Holds(E, spec', o, n) <=> Holds(data, spec', o, n)
    <3>1. o \in Specs => spec'[o].data \in DOMAIN E \cup {None}
      BY <1>8 DEF SpecsOK
    <3>2. o \in Expressions => (o \in DOMAIN data <=> o \in DOMAIN E)
      BY <1>5
    <3> QED BY <1>2, <1>5, <1>8, <3>1, <3>2, HoldsKept
  <2>5. CASE o # s
    <3>1. /\ o \in DOMAIN E[n].observers <=> o \in DOMAIN data[n].observers
          /\ o \in DOMAIN E[n].observers => E[n].observers[o] = data[n].observers[o]
      BY <1>4, <1>9, <2>1, <2>5 DEF Moved, SameObservers
    <3>2. RangeOf(spec', o) = RangeOf(spec, o)
      BY <1>7, <2>5 DEF RangeOf
    <3> QED BY <2>2, <2>3, <2>4, <3>1, <3>2 DEF RegisteredAt
  <2>6. CASE o = s
    <3>1. Holds(data, spec, s, n) <=> n \in Arrival(data, x)
      BY DEF Holds, Arrival, x
    <3>2. /\ s \in DOMAIN E[n].observers => n \in Arrival(data, x) \/ s \in DOMAIN data[n].observers
          /\ n \in Arrival(data, x) => s \in DOMAIN E[n].observers /\ E[n].observers[s] = r
      BY <1>4, <2>1 DEF Moved
    <3>3. RangeOf(spec', s) = r
      BY <1>7 DEF RangeOf
    <3> QED BY <2>2, <2>3, <2>4, <2>6, <3>1, <3>2, <3>3 DEF RegisteredAt
  <2> QED BY <2>5, <2>6
<1>10. RegistryOK(E, spec', loose)
  BY <1>9 DEF RegistryOK, RegistryFor
<1>11. ToldOK(E, spec', told, loose)
  <2>1. DOMAIN told = Specs
    BY <1>2 DEF ToldOK
  <2> QED BY <1>2, <1>5, <1>6, <1>7, <1>8, <2>1, ToldKept
<1>12. /\ DataOK(data') /\ SpecsOK(data', spec') /\ loose' \subseteq Specs
       /\ RegistryOK(data', spec', loose') /\ CalculatedOK(data')
       /\ ToldOK(data', spec', told', loose') /\ aborted' \in {"no", "notified"}
  BY <1>1, <1>2, <1>4, <1>5, <1>6, <1>8, <1>10, <1>11
<1> QED BY <1>12 DEF ServiceInv

\* Assigned another range of the same data, a spec is registered with the old one still.
LEMMA AssignSameStep ==
  ASSUME ServiceInv, NEW s \in Specs, NEW t \in Specs, spec[s].data = spec[t].data,
         spec' = [spec EXCEPT ![s] = spec[t]],
         loose' = IF spec[s].data = None THEN loose ELSE loose \cup {s},
         data' = data, told' = told, aborted' = aborted
  PROVE  ServiceInv'
<1>1. /\ DataOK(data) /\ SpecsOK(data, spec) /\ loose \subseteq Specs
      /\ RegistryOK(data, spec, loose) /\ CalculatedOK(data)
      /\ ToldOK(data, spec, told, loose) /\ aborted \in {"no", "notified"}
  BY DEF ServiceInv
<1>2. /\ spec' \in [Specs -> [data : Names \cup {None}, range : Ranges]]
      /\ \A u \in Specs : spec'[u].data = spec[u].data
      /\ \A u \in Specs \ {s} : spec'[u] = spec[u]
  <2>1. spec \in [Specs -> [data : Names \cup {None}, range : Ranges]]
    BY <1>1 DEF SpecsOK
  <2> QED BY <2>1
<1>3. SpecsOK(data, spec')
  BY <1>1, <1>2 DEF SpecsOK
<1>4. ASSUME NEW n \in DOMAIN data, NEW o \in Observing, data[n].to \in {"own", "deferred"}
      PROVE  RegisteredAt(data, spec', loose', n, o)
  <2>1. RegisteredAt(data, spec, loose, n, o)
    BY <1>1, <1>4 DEF RegistryOK, RegistryFor
  <2>2. Holds(data, spec', o, n) <=> Holds(data, spec, o, n)
    BY <1>2 DEF Holds
  <2>3. CASE o # s
    BY <1>2, <2>1, <2>2, <2>3 DEF RegisteredAt, RangeOf
  <2>4. CASE o = s
    BY <2>1, <2>2, <2>4 DEF RegisteredAt, Holds
  <2> QED BY <2>3, <2>4
<1>5. RegistryOK(data, spec', loose')
  BY <1>4 DEF RegistryOK, RegistryFor
<1>6. ToldOK(data, spec', told, loose')
  BY <1>1, <1>2 DEF ToldOK
<1>7. /\ DataOK(data') /\ SpecsOK(data', spec') /\ loose' \subseteq Specs
      /\ RegistryOK(data', spec', loose') /\ CalculatedOK(data')
      /\ ToldOK(data', spec', told', loose') /\ aborted' \in {"no", "notified"}
  BY <1>1, <1>3, <1>5, <1>6
<1> QED BY <1>7 DEF ServiceInv


\* An alias is forwarded to a node, and who waited there goes along.
LEMMA ForwardedResult ==
  ASSUME NEW C, DataOK(C), NEW a \in DOMAIN C \cap Aliases,
         NEW to \in (Nodes \cap DOMAIN C) \cup {"error"}
  PROVE  LET F == Forwarded(C, a, to)
         IN  /\ DOMAIN F = DOMAIN C
             /\ F[a].to = to /\ DOMAIN F[a].observers = {}
             /\ to \in Nodes => F[to].observers = Joined(C[to].observers, C[a].observers)
             /\ \A n \in DOMAIN C :
                  /\ IsTimedData(F[n]) /\ F[n].current = C[n].current
                  /\ n # a => /\ F[n].to = C[n].to
                              /\ ~(to \in Nodes /\ n = to) => F[n].observers = C[n].observers
<1> DEFINE o == New(a).observers
           G == [C EXCEPT ![a].to = to, ![a].observers = o]
           F == Forwarded(C, a, to)
<1>1. "error" \notin Nodes /\ (a # to \/ to = "error")
  <2>1. a \in Names /\ "error" \notin Nodes
    BY ServiceAssumption DEF Names, ServiceAssumption
  <2> QED BY <2>1, NamesDiffer
<1>2. DOMAIN o = {}
  BY DEF New
<1>3. /\ F = IF to = "error" THEN G
             ELSE [G EXCEPT ![to].observers = Joined(@, C[a].observers)]
  BY DEF Forwarded
<1> HIDE DEF o, F
<1>4. \A n \in DOMAIN C : IsTimedData(C[n])
  BY DEF DataOK, EntryOK
<1>5. /\ DOMAIN G = DOMAIN C /\ \A n \in DOMAIN C \ {a} : G[n] = C[n]
  OBVIOUS
<1>6. G[a] = [to |-> to, current |-> C[a].current, historical |-> C[a].historical,
              node |-> C[a].node, subscribed |-> C[a].subscribed, observers |-> o]
  <2>1. G[a] = [[C[a] EXCEPT !.to = to] EXCEPT !.observers = o]
    OBVIOUS
  <2> HIDE DEF G
  <2> QED BY <1>4, <2>1 DEF IsTimedData
<1> HIDE DEF G
<1>7. IsTimedData(G[a]) /\ G[a].to = to /\ G[a].current = C[a].current /\ G[a].observers = o
  BY <1>6 DEF IsTimedData
<1>8. CASE to = "error"
  <2>1. F = G
    BY <1>3, <1>8
  <2>2. to \notin Nodes
    BY <1>8, ServiceAssumption DEF ServiceAssumption
  <2>3. /\ DOMAIN F = DOMAIN C
        /\ F[a].to = to /\ DOMAIN F[a].observers = {}
        /\ to \in Nodes => F[to].observers = Joined(C[to].observers, C[a].observers)
        /\ \A n \in DOMAIN C :
             /\ IsTimedData(F[n]) /\ F[n].current = C[n].current
             /\ n # a => /\ F[n].to = C[n].to
                         /\ ~(to \in Nodes /\ n = to) => F[n].observers = C[n].observers
    BY <1>2, <1>4, <1>5, <1>7, <2>1, <2>2
  <2> QED BY <2>3 DEF F
<1>9. CASE to # "error"
  <2> DEFINE j == Joined(C[to].observers, C[a].observers)
  <2>1. to \in Nodes \cap DOMAIN C /\ to # a
    BY <1>1, <1>9
  <2>2. G[to] = C[to] /\ to \in DOMAIN G
    BY <1>5, <2>1
  <2>3. F = [G EXCEPT ![to].observers = j]
    BY <1>3, <1>9, <2>2
  <2> HIDE DEF j
  <2>4. F[to] = [C[to] EXCEPT !.observers = j] /\ DOMAIN F = DOMAIN G
        /\ \A n \in DOMAIN G \ {to} : F[n] = G[n]
    BY <2>2, <2>3
  <2>5. /\ IsTimedData(F[to]) /\ F[to].to = C[to].to /\ F[to].current = C[to].current
        /\ F[to].observers = j
    BY <1>4, <2>1, <2>4, ObserversChange
  <2>6. /\ DOMAIN F = DOMAIN C
        /\ F[a].to = to /\ DOMAIN F[a].observers = {}
        /\ to \in Nodes => F[to].observers = j
        /\ \A n \in DOMAIN C :
             /\ IsTimedData(F[n]) /\ F[n].current = C[n].current
             /\ n # a => /\ F[n].to = C[n].to
                         /\ ~(to \in Nodes /\ n = to) => F[n].observers = C[n].observers
    <3>1. F[a] = G[a] /\ DOMAIN F = DOMAIN C
      BY <1>5, <2>1, <2>4
    <3>2. ASSUME NEW n \in DOMAIN C \ {a, to} PROVE F[n] = C[n]
      BY <1>5, <2>4, <3>2
    <3> QED BY <1>2, <1>4, <1>7, <2>1, <2>5, <3>1, <3>2
  <2> QED BY <2>6 DEF F, j
<1> QED BY <1>8, <1>9


\* Observers that waited with the alias are registered with its node.
LEMMA ForwardedRegistry ==
  ASSUME NEW C, DataOK(C), NEW a \in DOMAIN C \cap Aliases, C[a].to = "deferred",
         NEW to \in (Nodes \cap DOMAIN C) \cup {"error"},
         NEW sp, SpecsOK(C, sp), NEW lo, RegistryOK(C, sp, lo)
  PROVE  /\ DataOK(Forwarded(C, a, to)) /\ RegistryOK(Forwarded(C, a, to), sp, lo)
         /\ \A x \in DOMAIN C :
              x # a => Terminal(Forwarded(C, a, to), x) = Terminal(C, x) /\ Terminal(C, x) # a
<1> DEFINE F == Forwarded(C, a, to)
<1>1. /\ DOMAIN F = DOMAIN C
      /\ F[a].to = to /\ DOMAIN F[a].observers = {}
      /\ to \in Nodes => F[to].observers = Joined(C[to].observers, C[a].observers)
      /\ \A n \in DOMAIN C :
           /\ IsTimedData(F[n]) /\ F[n].current = C[n].current
           /\ n # a => /\ F[n].to = C[n].to
                       /\ ~(to \in Nodes /\ n = to) => F[n].observers = C[n].observers
  BY ForwardedResult
<1> HIDE DEF F
<1>2. /\ "error" \notin Nodes /\ "deferred" \notin Nodes /\ a \notin Nodes /\ a \notin Expressions
      /\ a # Broken
  <2>1. a \in Names
    BY DEF Names
  <2> QED BY <2>1, NamesDiffer, ServiceAssumption DEF ServiceAssumption
<1>3. ASSUME to \in Nodes
      PROVE  to # a /\ to \in DOMAIN C /\ C[to].to = "own" /\ to \notin Aliases
  <2>1. to \in DOMAIN C /\ to \in Names
    BY <1>2, <1>3 DEF DataOK
  <2>2. C[to].to \in MayForward(to, DOMAIN C)
    BY <2>1 DEF DataOK, EntryOK
  <2> QED BY <1>2, <1>3, <2>1, <2>2, NamesDiffer DEF MayForward
<1>4. ASSUME to \in Nodes
      PROVE  /\ \A p : p \in DOMAIN F[to].observers <=>
                         p \in DOMAIN C[to].observers \/ p \in DOMAIN C[a].observers
             /\ \A p \in DOMAIN F[to].observers :
                  F[to].observers[p] = IF p \in DOMAIN C[a].observers
                                         THEN C[a].observers[p] ELSE C[to].observers[p]
  <2> DEFINE j == Joined(C[to].observers, C[a].observers)
  <2>1. /\ DOMAIN j = DOMAIN C[to].observers \cup DOMAIN C[a].observers
        /\ \A p \in DOMAIN j : j[p] = IF p \in DOMAIN C[a].observers
                                        THEN C[a].observers[p] ELSE C[to].observers[p]
    BY DEF Joined
  <2>2. F[to].observers = j
    BY <1>1, <1>4
  <2> HIDE DEF j
  <2> QED BY <2>1, <2>2
<1>5. ASSUME NEW n \in DOMAIN C
      PROVE  EntryOK(n, F[n], DOMAIN F)
  <2>1. EntryOK(n, C[n], DOMAIN C)
    BY DEF DataOK
  <2>2. CASE n = a
    <3>1. F[n].to \in MayForward(n, DOMAIN F)
      BY <1>1, <2>2 DEF MayForward
    <3> QED BY <1>1, <1>2, <2>2, <3>1 DEF EntryOK, ObserversOK
  <2>3. CASE n # a /\ ~(to \in Nodes /\ n = to)
    BY <1>1, <2>1, <2>3 DEF EntryOK, ObserversOK
  <2>4. CASE to \in Nodes /\ n = to
    <3>1. ObserversOK(C[to]) /\ ObserversOK(C[a])
      BY <2>1, <2>4 DEF DataOK, EntryOK
    <3>2. ObserversOK(F[to])
      <4>1. F[to].to = "own"
        BY <1>1, <1>3, <2>4
      <4>2. \A p \in DOMAIN F[to].observers : p \in Observing /\ F[to].observers[p] \in Ranges
        BY <1>4, <2>4, <3>1 DEF ObserversOK
      <4> QED BY <4>1, <4>2 DEF ObserversOK
    <3> QED BY <1>1, <1>3, <2>1, <2>4, <3>2 DEF EntryOK
  <2> QED BY <2>2, <2>3, <2>4
<1>6. DataOK(F)
  BY <1>1, <1>5 DEF DataOK
<1>7. ASSUME NEW x \in DOMAIN C
      PROVE  /\ x # a => Terminal(F, x) = Terminal(C, x) /\ Terminal(C, x) # a
             /\ Terminal(C, a) = a
             /\ Terminal(F, a) = IF to \in Nodes THEN to ELSE a
  BY <1>1, <1>2 DEF Terminal
<1>8. ASSUME NEW o \in Observing, NEW n, n # a, ~(to \in Nodes /\ n = to)
      PROVE  Holds(F, sp, o, n) <=> Holds(C, sp, o, n)
  <2>1. ASSUME NEW x \in DOMAIN C
        PROVE  Terminal(F, x) = n <=> Terminal(C, x) = n
    BY <1>7, <1>8
  <2>2. CASE o \in Specs
    BY <2>1, <2>2 DEF Holds, SpecsOK
  <2>3. CASE o \notin Specs
    <3>1. ASSUME o \in DOMAIN C
          PROVE  n \in Terminals(F, Operands[o]) <=> n \in Terminals(C, Operands[o])
      <4>1. Operands[o] \subseteq DOMAIN C
        BY <2>3, <3>1 DEF DataOK, Observing
      <4> QED BY <2>1, <4>1 DEF Terminals
    <3> QED BY <1>1, <2>3, <3>1 DEF Holds
  <2> QED BY <2>2, <2>3
<1>9. ASSUME to \in Nodes, NEW o \in Observing
      PROVE  Holds(F, sp, o, to) <=> Holds(C, sp, o, to) \/ Holds(C, sp, o, a)
  <2>1. ASSUME NEW x \in DOMAIN C
        PROVE  Terminal(F, x) = to <=> Terminal(C, x) = to \/ Terminal(C, x) = a
    BY <1>3, <1>7, <1>9
  <2>2. CASE o \in Specs
    BY <2>1, <2>2 DEF Holds, SpecsOK
  <2>3. CASE o \notin Specs
    <3>1. ASSUME o \in DOMAIN C
          PROVE  to \in Terminals(F, Operands[o]) <=>
                   to \in Terminals(C, Operands[o]) \/ a \in Terminals(C, Operands[o])
      <4>1. Operands[o] \subseteq DOMAIN C
        BY <2>3, <3>1 DEF DataOK, Observing
      <4> QED BY <2>1, <4>1 DEF Terminals
    <3> QED BY <1>1, <2>3, <3>1 DEF Holds
  <2> QED BY <2>2, <2>3
<1>10. ASSUME NEW n \in DOMAIN F, NEW o \in Observing, F[n].to \in {"own", "deferred"}
       PROVE  RegisteredAt(F, sp, lo, n, o)
  <2>1. n # a /\ n \in DOMAIN C
    BY <1>1, <1>2, <1>10, ServiceAssumption DEF ServiceAssumption
  <2>2. C[n].to \in {"own", "deferred"}
    BY <1>1, <1>10, <2>1
  <2>3. RegisteredAt(C, sp, lo, n, o)
    BY <2>1, <2>2 DEF RegistryOK, RegistryFor
  <2>4. CASE ~(to \in Nodes /\ n = to)
    BY <1>1, <1>8, <2>1, <2>3, <2>4 DEF RegisteredAt
  <2>5. CASE to \in Nodes /\ n = to
    <3>1. RegisteredAt(C, sp, lo, a, o)
      BY DEF RegistryOK, RegistryFor
    <3> QED BY <1>4, <1>9, <2>3, <2>5, <3>1 DEF RegisteredAt
  <2> QED BY <2>4, <2>5
<1>11. RegistryOK(F, sp, lo)
  BY <1>10 DEF RegistryOK, RegistryFor
<1> QED BY <1>6, <1>7, <1>11 DEF F

LEMMA SetForwardedStep ==
  ASSUME ServiceInv, aborted = "no", NEW a \in Aliases, NEW to \in Nodes \cup {"error"},
         SetForwarded(a, to)
  PROVE  ServiceInv'
<1> DEFINE waiting == DOMAIN data[a].observers
           C == Cached(data, {to} \ {"error"})
           F == Forwarded(C, a, to)
           w == IF waiting = {} \/ to = "error" THEN World(F, aborted)
                ELSE UpdateObservedRanges(World(F, aborted), {to})
           D == w.data
<1>1. /\ a \in DOMAIN data /\ data[a].to = "deferred"
      /\ PropertyChanged(D, waiting) /\ aborted' = w.failed
      /\ spec' = spec /\ loose' = loose
  BY DEF SetForwarded, TellResolved
<1>2. /\ DataOK(data) /\ SpecsOK(data, spec) /\ loose \subseteq Specs
      /\ RegistryOK(data, spec, loose)
  BY DEF ServiceInv
<1>3. /\ "error" \notin Nodes /\ a \notin Nodes /\ a \notin Expressions
      /\ to \notin Expressions \/ to = "error"
  <2>1. a \in Names /\ (to \in Names \/ to = "error")
    BY DEF Names
  <2> QED BY <2>1, NamesDiffer, ServiceAssumption DEF ServiceAssumption
<1> DEFINE names == {to} \ {"error"}
<1>4. names \in SUBSET Nodes /\ names \in SUBSET Names /\ names \cap Expressions = {}
  BY <1>3 DEF Names
<1>5. /\ DOMAIN C = DOMAIN data \cup names /\ DataOK(C) /\ Kept(data, C)
      /\ \A n \in DOMAIN data : C[n] = data[n]
  BY <1>2, <1>4, CachedResult
<1>6. RegistryOK(C, spec, loose)
  <2>1. RegistryFor(C, spec, loose, Observing \ ((names \ DOMAIN data) \cap Expressions))
    BY <1>2, <1>4, CachedRegistry
  <2>2. Observing \ ((names \ DOMAIN data) \cap Expressions) = Observing
    BY <1>4
  <2> QED BY <2>1, <2>2 DEF RegistryOK
<1> HIDE DEF C
<1>7. /\ a \in DOMAIN C \cap Aliases /\ C[a].to = "deferred"
      /\ to \in (Nodes \cap DOMAIN C) \cup {"error"} /\ SpecsOK(C, spec)
  BY <1>1, <1>2, <1>4, <1>5 DEF SpecsOK
<1>8. /\ DOMAIN F = DOMAIN C
      /\ \A n \in DOMAIN C :
           /\ F[n].current = C[n].current
           /\ n # a /\ ~(to \in Nodes /\ n = to) => F[n].observers = C[n].observers
  BY <1>5, <1>7, ForwardedResult
<1>9. /\ DataOK(F) /\ RegistryOK(F, spec, loose)
      /\ \A x \in DOMAIN C : x # a => Terminal(F, x) = Terminal(C, x) /\ Terminal(C, x) # a
  BY <1>5, <1>6, <1>7, ForwardedRegistry
<1>10. w = World(F, aborted) \/ (to \in Nodes /\ w = UpdateObservedRanges(World(F, aborted), {to}))
  BY <1>3
<1> HIDE DEF w, F
<1>11. Recalculated(F, D, {}) /\ w.failed \in {"no", "notified"}
  <2>1. CASE w = World(F, aborted)
    <3>1. D = F /\ w.failed = "no"
      BY <2>1 DEF World
    <3>2. Recalculated(F, F, {})
      BY <1>9 DEF Recalculated, Kept
    <3> QED BY <3>1, <3>2
  <2>2. CASE to \in Nodes /\ w = UpdateObservedRanges(World(F, aborted), {to})
    <3> DEFINE at == {to}
    <3>1. at \in SUBSET DOMAIN F /\ at \cap Expressions = {}
      BY <1>3, <1>7, <1>8, <2>2
    <3>2. w = UpdateObservedRanges(World(F, aborted), at)
      BY <2>2
    <3> HIDE DEF at
    <3>3. Recalculated(F, D, at \cap Expressions) /\ w.failed \in {aborted, "notified"}
      BY <1>9, <3>1, <3>2, UpdateObservedRangesResult
    <3> QED BY <3>1, <3>3
  <2> QED BY <1>10, <2>1, <2>2
<1> HIDE DEF D
<1>12. /\ DOMAIN D = DOMAIN C /\ DataOK(D) /\ Kept(F, D)
       /\ \A n \in DOMAIN C : /\ D[n].observers = F[n].observers
                              /\ D[n].current = F[n].current
  BY <1>8, <1>11 DEF Recalculated
<1>13. RegistryOK(D, spec, loose)
  <2>1. SpecsOK(F, spec)
    BY <1>7, <1>8 DEF SpecsOK
  <2> QED BY <1>9, <1>11, <2>1, RecalculatedRegistry
<1>14. ASSUME NEW x \in DOMAIN data \ Expressions, Terminal(data, x) # a
       PROVE  GetDataValue(D, x) = GetDataValue(data, x)
  <2>1. x # a /\ x \in DOMAIN C
    BY <1>1, <1>3, <1>5, <1>14, ServiceAssumption DEF Terminal, ServiceAssumption
  <2>2. Terminal(D, x) = Terminal(F, x)
    BY <1>8, <1>12, <2>1 DEF Kept, Terminal
  <2>3. Terminal(C, x) = Terminal(data, x)
    BY <1>5 DEF Terminal
  <2>4. Terminal(data, x) \in DOMAIN data
    BY <1>2, TerminalIsThere
  <2> QED BY <1>5, <1>8, <1>9, <1>12, <2>1, <2>2, <2>3, <2>4 DEF GetDataValue
<1>15. ASSUME NEW e \in DOMAIN D \cap Expressions
       PROVE  /\ e \in DOMAIN data
              /\ D[e].current = data[e].current /\ D[e].observers = data[e].observers
  <2>1. e \in DOMAIN data /\ e # a /\ ~(to \in Nodes /\ e = to)
    BY <1>3, <1>4, <1>5, <1>12
  <2> QED BY <1>5, <1>8, <1>12, <2>1
<1>16. DOMAIN data \subseteq DOMAIN D /\ a \in DOMAIN data /\ data[a].to \in {"own", "deferred"}
       /\ aborted' \in {"no", "notified"}
  BY <1>1, <1>5, <1>11, <1>12
<1> QED BY <1>1, <1>12, <1>13, <1>14, <1>15, <1>16, PropertyChangedStep

-----------------------------------------------------------------------------
(* The invariant, and what it says.                                        *)

LEMMA InitEstablishes == Init => ServiceInv
<1> SUFFICES ASSUME Init PROVE ServiceInv
  OBVIOUS
<1>1. /\ DOMAIN data = {Broken} /\ data[Broken] = New(Broken)
      /\ spec = [s \in Specs |-> [data |-> None, range |-> "current"]]
      /\ told = [s \in Specs |-> NoValue] /\ loose = {} /\ aborted = "no"
  BY DEF Init
<1>2. Broken \in Names /\ Broken \notin Expressions /\ "error" \notin {"own", "deferred"}
  BY ServiceAssumption DEF ServiceAssumption, Names
<1>3. EntryOK(Broken, New(Broken), {Broken}) /\ DOMAIN New(Broken).observers = {}
  BY <1>2, NewIsOK
<1>4. DataOK(data) /\ CalculatedOK(data)
  BY <1>1, <1>2, <1>3 DEF DataOK, CalculatedOK
<1>5. /\ spec \in [Specs -> [data : Names \cup {None}, range : Ranges]]
      /\ \A s \in Specs : spec[s].data = None
  BY <1>1 DEF Ranges
<1>6. SpecsOK(data, spec) /\ ToldOK(data, spec, told, loose)
  BY <1>1, <1>5 DEF SpecsOK, ToldOK
<1>7. RegistryOK(data, spec, loose)
  <2>1. data[Broken].to = "error"
    <3>1. New(Broken).to = "error"
      BY ServiceAssumption DEF New, ServiceAssumption
    <3> QED BY <1>1, <3>1
  <2> QED BY <1>1, <1>2, <2>1 DEF RegistryOK, RegistryFor
<1> QED BY <1>1, <1>4, <1>6, <1>7 DEF ServiceInv

LEMMA ClientsPreserve ==
  ASSUME ServiceInv, aborted = "no", Clients
  PROVE  ServiceInv'
<1> PICK s \in Specs :
      \/ Reset(s)
      \/ \E name \in Nodes \cup Aliases \cup Expressions \cup {Broken} : Connect(s, name)
      \/ \E t \in Specs : Assign(s, t)
      \/ \E r \in Ranges : SetRange(s, r)
  BY DEF Clients
<1>1. \A t \in Specs : spec[t].data \in Names \cup {None} /\ spec[t].range \in Ranges
  BY DEF ServiceInv, SpecsOK
<1>2. CASE Reset(s)
  <2>1. None # spec[s].data /\ SetData(s, None, spec[s].range)
    BY <1>2 DEF Reset
  <2> QED BY <1>1, <2>1, SetDataStep
<1>3. ASSUME NEW name \in Nodes \cup Aliases \cup Expressions \cup {Broken}, Connect(s, name)
      PROVE  ServiceInv'
  <2>1. name \in Names \cup {None} /\ name # spec[s].data /\ SetData(s, name, spec[s].range)
    BY <1>3 DEF Connect, Names
  <2> QED BY <1>1, <2>1, SetDataStep
<1>4. ASSUME NEW t \in Specs, Assign(s, t)
      PROVE  ServiceInv'
  <2>1. CASE spec[s].data = spec[t].data
    BY <1>4, <2>1, AssignSameStep DEF Assign
  <2>2. CASE spec[s].data # spec[t].data
    <3>1. SetData(s, spec[t].data, spec[t].range)
      BY <1>4, <2>2 DEF Assign
    <3> QED BY <1>1, <2>2, <3>1, SetDataStep
  <2> QED BY <2>1, <2>2
<1>5. ASSUME NEW r \in Ranges, SetRange(s, r)
      PROVE  ServiceInv'
  BY <1>5, SetRangeStep
<1> QED BY <1>2, <1>3, <1>4, <1>5

LEMMA ServerPreserves ==
  ASSUME ServiceInv, aborted = "no", Server
  PROVE  ServiceInv'
<1>1. ASSUME NEW a \in Aliases, NEW to \in Nodes \cup {"error"}, SetForwarded(a, to)
      PROVE  ServiceInv'
  BY <1>1, SetForwardedStep
<1>2. ASSUME NEW n \in Nodes, NEW change \in BOOLEAN, Update(n, change)
      PROVE  ServiceInv'
  BY <1>2, UpdateStep
<1>3. ASSUME NEW n \in Nodes,
             \/ LateSample(n) \/ ChannelFails(n) \/ NodeDeleted(n)
             \/ \E empty \in BOOLEAN : HistoryRead(n, empty)
      PROVE  ServiceInv'
  BY <1>3, BufferSteps, ChannelFailsStep
<1>4. ASSUME NEW name \in Nodes \cup Aliases, Expire(name)
      PROVE  ServiceInv'
  BY <1>4, ExpireStep
<1> QED BY <1>1, <1>2, <1>3, <1>4 DEF Server

\* No sequence of Connects, Resets, assignments, answers of the resolver, values, deletions
\* and expiries leads out of the invariant.
THEOREM ServiceInvariant == Spec => []ServiceInv
<1>1. Init => ServiceInv
  BY InitEstablishes
<1>2. ServiceInv /\ [Next]_vars => ServiceInv'
  <2>1. ASSUME ServiceInv, Next PROVE ServiceInv'
    BY <2>1, ClientsPreserve, ServerPreserves DEF Next
  <2>2. ASSUME ServiceInv, UNCHANGED vars PROVE ServiceInv'
    BY <2>2 DEF ServiceInv, vars, DataOK, SpecsOK, RegistryOK, CalculatedOK, ToldOK
  <2> QED BY <2>1, <2>2
<1> QED BY <1>1, <1>2, PTL DEF Spec

LEMMA InvGivesTypes == ServiceInv => ServiceTypeOK
<1> SUFFICES ASSUME ServiceInv PROVE ServiceTypeOK
  OBVIOUS
<1>1. DataOK(data) /\ SpecsOK(data, spec) /\ loose \subseteq Specs
      /\ aborted \in {"no", "notified"}
  BY DEF ServiceInv
<1>2. ASSUME NEW n \in DOMAIN data
      PROVE  /\ data[n].to \in {"own", "deferred", "error"} \cup (Nodes \cap DOMAIN data)
             /\ DOMAIN data[n].observers \subseteq Specs \cup Expressions
             /\ \A o \in DOMAIN data[n].observers : data[n].observers[o] \in Ranges
             /\ n \in Aliases /\ data[n].to # "deferred" => DOMAIN data[n].observers = {}
  <2>1. EntryOK(n, data[n], DOMAIN data) /\ n \in Names
    BY <1>1 DEF DataOK
  <2>2. n \in Aliases => "own" \notin MayForward(n, DOMAIN data)
    BY ServiceAssumption DEF MayForward, ServiceAssumption
  <2> QED BY <2>1, <2>2 DEF EntryOK, ObserversOK, MayForward, Observing
<1>3. DOMAIN data \subseteq Nodes \cup Aliases \cup Expressions \cup {Broken}
  BY <1>1 DEF DataOK, Names
<1>4. \A s \in Specs : spec[s].data \in DOMAIN data \cup {None} /\ spec[s].range \in Ranges
  BY <1>1 DEF SpecsOK
<1> QED BY <1>1, <1>2, <1>3, <1>4 DEF ServiceTypeOK

LEMMA InvGivesRegistry == ServiceInv => ObserversAreRegistered
<1> SUFFICES ASSUME ServiceInv PROVE ObserversAreRegistered
  OBVIOUS
<1>1. ASSUME NEW n \in DOMAIN data, NEW o \in (Specs \ loose) \cup Expressions,
             data[n].to \in {"own", "deferred"}
      PROVE  IF Observes(o, n)
               THEN o \in DOMAIN data[n].observers /\ data[n].observers[o] = Wanted(o)
               ELSE o \notin DOMAIN data[n].observers
  <2>1. o \in Observing /\ o \notin loose
    BY OperandsAreNames DEF Observing, ServiceInv
  <2>2. RegisteredAt(data, spec, loose, n, o)
    BY <1>1, <2>1 DEF ServiceInv, RegistryOK, RegistryFor
  <2>3. (Observes(o, n) <=> Holds(data, spec, o, n)) /\ Wanted(o) = RangeOf(spec, o)
    BY DEF Observes, Holds, Wanted, RangeOf
  <2> QED BY <2>1, <2>2, <2>3 DEF RegisteredAt
<1>2. aborted # "destroyed"
  BY DEF ServiceInv
<1> QED BY <1>1, <1>2 DEF ObserversAreRegistered

LEMMA InvGivesTold == ServiceInv => SpecsAreTold
<1> SUFFICES ASSUME ServiceInv, NEW s \in Specs \ loose, spec[s].data # None, ~Bad(spec[s].data)
             PROVE  told[s] = Truth(spec[s].data)
  BY DEF SpecsAreTold
<1> DEFINE x == spec[s].data
<1>1. DataOK(data) /\ CalculatedOK(data) /\ x \in DOMAIN data
  BY DEF ServiceInv, SpecsOK
<1>2. ~BadIn(data, x)
  BY DEF Bad, BadIn
<1>3. told[s] = GetDataValue(data, x)
  BY <1>2 DEF ServiceInv, ToldOK
<1>4. GetDataValue(data, x) = Truth(x)
  <2> HIDE DEF x
  <2>1. CASE x \in Expressions
    <3>1. Terminal(data, x) = x
      BY <1>1, <2>1, TerminalIsThere
    <3>2. data[x].current = Calculated(data, x)
      BY <1>1, <1>2, <2>1 DEF CalculatedOK
    <3> QED BY <2>1, <3>1, <3>2 DEF Truth, GetDataValue
  <2>2. CASE x \notin Expressions
    BY <2>2 DEF Truth
  <2> QED BY <2>1, <2>2
<1> QED BY <1>3, <1>4

\* An alias that is resolved has handed its observers on, and refers to timed data that
\* is there; every spec holds timed data that is there.
THEOREM ServiceTypes == Spec => []ServiceTypeOK
BY ServiceInvariant, InvGivesTypes, PTL

\* Whoever holds a timed data, under whatever name and since before or after the name was
\* resolved, is registered where the values arrive and with its range, and nobody else is;
\* no timed data dies observed.
THEOREM HoldersAreRegistered == Spec => []ObserversAreRegistered
BY ServiceInvariant, InvGivesRegistry, PTL

\* Every spec has been told of the value it is to show, through aliases, expressions and
\* changes of data and range.
THEOREM HoldersAreTold == Spec => []SpecsAreTold
BY ServiceInvariant, InvGivesTold, PTL
=============================================================================
