------------------------- MODULE MasterDataServices --------------------------
(***************************************************************************)
(* MasterDataServices: the services the client works with, over a set of   *)
(* services that is swapped when the user logs in, out or elsewhere; its   *)
(* monitored items; and the SessionProxyNotifiers that tell components of  *)
(* the client that the channel is opened or closed.                        *)
(*                                                                         *)
(* All of it runs on one executor.  SetServices and a change of a session  *)
(* emit the session signal, whose slots run one after the other, and any   *)
(* slot may make or destroy items and notifiers: an emission is a phase    *)
(* with a step for each slot.  Slots do not swap the services themselves.  *)
(*                                                                         *)
(* Calls that only forward to the current services (Read, Browse, Call...) *)
(* keep no state and are left out.                                         *)
(***************************************************************************)
EXTENDS FiniteSets

CONSTANTS
    Sessions,            \* sets of services with a session, one session each
    NoSession,           \* services without one
    WithItems,           \* those with a monitored item service
    Items,               \* MasterMonitoredItems
    Notifiers,           \* SessionProxyNotifiers
    HandOverConnected    \* the client hands over connected sessions only

ASSUME MasterAssumption ==
    /\ NoSession \notin Sessions
    /\ WithItems \subseteq Sessions
    /\ HandOverConnected \in BOOLEAN

VARIABLES
    up,            \* which sessions are connected
    alive,         \* the MasterDataServices exists
    current,       \* services_
    next,          \* the argument of SetServices while it closes the old services
    phase,         \* what the signal is being emitted for
    toCall,        \* notifiers the emission has yet to call
    item,          \* subscribed: handler_ is set
    underlying,    \* underlying_item_ of each item: whose services made it
    notifiers,     \* those that exist
    opened         \* those whose proxy was last told that the channel is open

vars == <<up, alive, current, next, phase, toCall, item, underlying, notifiers, opened>>
itemVars == <<item, underlying>>
serviceVars == <<alive, current, next>>
emissionVars == <<phase, toCall>>
notifierVars == <<notifiers, opened>>

Services == Sessions \cup {NoSession}

MasterTypeOK ==
    /\ up \in [Sessions -> BOOLEAN]
    /\ alive \in BOOLEAN
    /\ current \in Services /\ next \in Services
    /\ phase \in {"idle", "closing", "opening", "forwarding"}
    /\ item \in [Items -> {"none", "created", "subscribed"}]
    /\ underlying \in [Items -> Services]
    /\ notifiers \subseteq Notifiers
    /\ toCall \subseteq notifiers
    /\ opened \subseteq notifiers

Init ==
    /\ up \in [Sessions -> BOOLEAN]
    /\ alive = TRUE
    /\ current = NoSession /\ next = NoSession
    /\ phase = "idle" /\ toCall = {}
    /\ item = [i \in Items |-> "none"]
    /\ underlying = [i \in Items |-> NoSession]
    /\ notifiers = {} /\ opened = {}

\* connected_ is current # NoSession throughout.
IsConnected == current # NoSession /\ up[current]

\* The argument of the emission under way.
Told ==
    \/ phase = "opening"
    \/ phase = "forwarding" /\ up[current]

-----------------------------------------------------------------------------
(* Monitored items.                                                        *)

\* The underlying item Reconnect leaves in a subscribed item.
Reconnected == IF current \in WithItems THEN current ELSE NoSession

CreateItem(i) ==
    /\ alive
    /\ item[i] = "none"
    /\ item' = [item EXCEPT ![i] = "created"]
    /\ UNCHANGED <<up, serviceVars, emissionVars, underlying, notifierVars>>

\* Without its owner an item keeps no handler.
Subscribe(i) ==
    /\ alive
    /\ item[i] = "created"
    /\ item' = [item EXCEPT ![i] = "subscribed"]
    /\ underlying' = [underlying EXCEPT ![i] = Reconnected]
    /\ UNCHANGED <<up, serviceVars, emissionVars, notifierVars>>

DestroyItem(i) ==
    /\ item[i] # "none"
    /\ item' = [item EXCEPT ![i] = "none"]
    /\ underlying' = [underlying EXCEPT ![i] = NoSession]
    /\ UNCHANGED <<up, serviceVars, emissionVars, notifierVars>>

-----------------------------------------------------------------------------
(* Notifiers.                                                              *)

\* Mutant: the constructor does not ask whether the session is connected.
CreateNotifierClosed(n) ==
    /\ alive
    /\ n \notin notifiers
    /\ notifiers' = notifiers \cup {n}
    /\ UNCHANGED <<up, serviceVars, emissionVars, itemVars, opened>>

\* A slot connected during an emission is not called by it.
CreateNotifier(n) ==
    /\ alive
    /\ n \notin notifiers
    /\ notifiers' = notifiers \cup {n}
    /\ opened' = IF IsConnected THEN opened \cup {n} ELSE opened
    /\ UNCHANGED <<up, serviceVars, emissionVars, itemVars>>

\* Nor is one disconnected during it.
DestroyNotifier(n) ==
    /\ n \in notifiers
    /\ notifiers' = notifiers \ {n}
    /\ opened' = opened \ {n}
    /\ toCall' = toCall \ {n}
    /\ UNCHANGED <<up, serviceVars, phase, itemVars>>

\* OnChannelOpened or OnChannelClosed of the proxy.
TellNotifier(n) ==
    /\ n \in toCall
    /\ toCall' = toCall \ {n}
    /\ opened' = IF Told THEN opened \cup {n} ELSE opened \ {n}
    /\ UNCHANGED <<up, serviceVars, phase, itemVars, notifiers>>

-----------------------------------------------------------------------------
(* The services.                                                           *)

\* SetServices from the assignment of the new services to the signal.
Assign(s) ==
    /\ current' = s
    /\ IF s = NoSession
       THEN phase' = "idle" /\ toCall' = {}
       ELSE phase' = "opening" /\ toCall' = notifiers

\* SetServices from the items' Disconnect to the signal.
Close(s) ==
    /\ underlying' = [i \in Items |-> NoSession]
    /\ current' = NoSession
    /\ next' = s
    /\ phase' = "closing" /\ toCall' = notifiers

\* SetServices up to the first signal it emits.
SetServices(s) ==
    /\ alive
    /\ phase = "idle"
    /\ HandOverConnected /\ s # NoSession => up[s]
    /\ IF current = NoSession THEN Assign(s) /\ UNCHANGED <<next, underlying>>
                              ELSE Close(s)
    /\ UNCHANGED <<up, alive, item, notifierVars>>

\* The old services are gone and every slot knows: SetServices goes on.
Closed ==
    /\ phase = "closing" /\ toCall = {}
    /\ Assign(next)
    /\ next' = NoSession
    /\ UNCHANGED <<up, alive, itemVars, notifierVars>>

\* Mutant: the items are not connected to the new services.
OpenedKeepsItems ==
    /\ phase = "opening" /\ toCall = {}
    /\ phase' = "idle"
    /\ UNCHANGED <<up, serviceVars, toCall, itemVars, notifierVars>>

\* Every slot knows of the new services: SetServices ends with the items, those
\* included that a slot has subscribed meanwhile.
Opened ==
    /\ phase = "opening" /\ toCall = {}
    /\ phase' = "idle"
    /\ underlying' = [i \in Items |->
                        IF item[i] = "subscribed" THEN Reconnected ELSE underlying[i]]
    /\ UNCHANGED <<up, serviceVars, toCall, item, notifierVars>>

\* A session connects or is lost; that of the current services is forwarded.
SessionChanges(s) ==
    /\ phase = "idle"
    /\ up' = [up EXCEPT ![s] = ~ up[s]]
    /\ IF s = current
       THEN phase' = "forwarding" /\ toCall' = notifiers
       ELSE UNCHANGED emissionVars
    /\ UNCHANGED <<serviceVars, itemVars, notifierVars>>

Forwarded ==
    /\ phase = "forwarding" /\ toCall = {}
    /\ phase' = "idle"
    /\ UNCHANGED <<up, serviceVars, toCall, itemVars, notifierVars>>

\* ~MasterDataServices, after the notifiers that refer to it.  Items may stay; they
\* lose their owner and keep what they have.
Destroy ==
    /\ alive
    /\ phase = "idle" /\ notifiers = {}
    /\ alive' = FALSE
    /\ current' = NoSession
    /\ UNCHANGED <<up, next, emissionVars, itemVars, notifierVars>>

Next ==
    \/ \E i \in Items : CreateItem(i) \/ Subscribe(i) \/ DestroyItem(i)
    \/ \E n \in Notifiers : CreateNotifier(n) \/ DestroyNotifier(n) \/ TellNotifier(n)
    \/ \E s \in Services : SetServices(s)
    \/ Closed
    \/ Opened
    \/ \E s \in Sessions : SessionChanges(s)
    \/ Forwarded
    \/ Destroy

Spec == Init /\ [][Next]_vars

-----------------------------------------------------------------------------
(* Properties.                                                             *)

\* No item holds an underlying item of services that were taken away, not even while
\* SetServices is telling the slots, which may subscribe items at every point; and
\* between operations every subscribed item has an underlying item of the current
\* services, if they offer any: none is lost in a swap, whenever it was subscribed.
ItemsAreBound ==
    alive => \A i \in Items :
        /\ underlying[i] \in {NoSession, current}
        /\ phase = "idle" =>
              underlying[i] = IF item[i] = "subscribed" THEN Reconnected ELSE NoSession

\* What a slot is told is what IsConnected answers when it asks (OnChannelOpened reads
\* the user and the privileges from the session that has just been opened), and between
\* operations each component believes the channel open exactly when it is, also one
\* made or destroyed by a slot in the middle of a swap.
ChannelsAgree ==
    HandOverConnected =>
        /\ toCall # {} => (Told <=> IsConnected)
        /\ phase = "idle" => opened = IF IsConnected THEN notifiers ELSE {}

=============================================================================
