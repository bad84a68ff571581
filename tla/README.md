# A verification project for scada-common

TLA+ models, TLC runs and TLAPS proofs for the common client-side layer of a
SCADA system: the services facade, the event client, the node services, the time
series and the address space in this repository. Everything is translated from
the C++ under `src/`; documents, comments and tests are used as statements about
it, not as its definition.

## 1. The system

Everything runs on one executor. There are no locks; what interleaves is
coroutines (`CoSpawn` posts them, it does not run them inline), callbacks, and
the remote services they await. A result may come after the object, the session,
the filter or the request it belongs to has changed.

| Part | State it keeps | Operations | What makes it hard |
|---|---|---|---|
| `events/event_ack_queue` | FIFO of ids, running set, "task posted" flag | `Ack`, `OnAcked`, `AckPendingEvents` (posted), `Reset` | confirmation is a live event and not the answer of the Call; a Reset under a posted task; a limit of parallel calls |
| `events/event_storage` | events by id, index by source node with observers, alerting | `Add`, `Remove`, `Clear`, `Update`, observers | two containers with pointers between them; updates overwrite in place the node and the time that the index is built with |
| `events/event_fetcher` | connected, severity limit | `OnChannelOpened/Closed`, `SetSeverityMin`, `OnSystemEvents`, `OnHistoryReadEventsComplete`, acknowledge one / item / all | two unordered streams (live events, history snapshots); a limit that changes while both are under way |
| `node_service/v3`, `base_node_model` | weak registry of models, keep-alive list, queued requests, guards of fetches under way; per model its status mask, references, children, waiting callbacks | `Fetch`, `StartFetch`, fetch results, deletion, channel | lifetime by holders; node and children fetch in any order; a tail that awaits other nodes' fetches; guards by id and not by model |
| `node_service` legacy fetcher | queue of nodes, dependency graph of what is being fetched, requests under way | `Fetch`, `Cancel`, the drain loop, read and browse results | late answers; a dependency closure, rings included, that must be complete before anything is published; a limit of requests |
| `node_service` children fetcher | queue of nodes and its set, one batch under way | `Fetch`, `Cancel`, browse results | nodes asked for again while they are being browsed; callbacks that call back |
| `node_service` rest | subscription table; static and proxy services; `NodeRef` cursors | subscribe, emit | handlers that unsubscribe while being called |
| `timed_data` buffer and fetcher | samples, observed and ready ranges, the query under way | observers, `FetchNextGap`, pages, trim | paging while ranges change; ready ranges must not promise what is not there |
| `timed_data` node series | current value, historical mode, node | live values, deletion | live samples between pages |
| `timed_data` service, aliases, expressions, specs | caches of series by node and by alias; forwarded aliases; operands; what each spec is connected to | connect, set data and range, resolve a name, values, deletion | raw observer pointers that move when a name is resolved; expressions that observe their operands |
| `common/master_data_services`, `session_proxy_notifier` | the current services, all monitored items, the session signal | `SetServices`, `Subscribe`, session changes | the swap calls slots that use the object being swapped |
| `common/aggregation` | the interval and aggregator at hand, the value at hand | `Process` a page, `Finish` | intervals cut by pages, borders, two directions of time |
| `common` rest | audit counters; nothing else | - | - |
| `address_space` | nodes, references at both ends, cached type and supertype | load, create, link, modify, delete, export, browse | files in any order; recursive deletion that reports as it goes; symmetric references |
| `opcua_bridge` | adapters and subscriptions | conversion of calls in both directions | one call of several failing |
| `opc`, `vidicon` | COM clients (Windows) | - | not modelled: external libraries |
| `model`, `test/e2e` | generated ids, node sets, test driver | - | no behaviour of their own |

How they interact: the session calls `OnChannelOpened/Closed` of the fetchers
through `SessionProxyNotifier`. `EventFetcher` feeds `EventStorage` and
`EventAckQueue`; a `TimedDataImpl` observes the events of its item, reads history
through its fetcher and starts a fetch of its node. Node models fetch through
`NodeServiceImpl`, which applies results to models and to the neighbours that are
resident; the legacy node service has `NodeFetcherImpl` and
`NodeChildrenFetcher` for this. The address space is what servers and tests are
built on, and its view service answers the browses of the fetchers. All remote
work goes through the interfaces of `scada/`, which are not in this repository
and are modelled from how the code uses them.

What each part must do, in a sentence:

- queue: never sleep on work it could do, keep its limit, its order and its
  uniqueness, and never fail a Check;
- storage: index and events agree, and what Remove looks up is found;
- fetcher: show every unacked event that reaches the limit, and only those;
- node service: one fetch of a kind at a time per node, no guard without a
  fetch, no waiter without a fetch, observers up to date;
- time series: every observed gap is being queried, what is ready is filled;
- timed data service: observers are registered where the values arrive, and every
  spec has been told what it shows;
- legacy fetcher: a node is published when all it needs is, with the answers to
  its latest request, and no node is forgotten;
- children fetcher: who asks gets the children as of then or later;
- data services: every item is bound to the current services, or to none; every
  component believes the channel open exactly when it is;
- aggregation: one value for each interval, whatever the pages are;
- address space: both ends of every reference agree, nothing refers to a deleted
  node, and neither loading, exporting nor browsing loses a reference.

## 2. Modules

| Module | Models |
|---|---|
| `Events` | the id set the event modules share |
| `EventAckQueue` | `EventAckQueue` |
| `EventStorage` | `EventStorage` |
| `EventClient` | `EventFetcher` composed with both, the session, the channel and the server |
| `NodeService` | `NodeServiceImpl`, `NodeModelImpl`, `BaseNodeModel`, results of `ServiceNodeFetcher` |
| `NodeFetcher` | `NodeFetcherImpl`, `FetchingNodeGraph`, `FetchQueue`, the read and browse services |
| `NodeDelivery` | what a node fetcher promises its service: the abstract specification of `NodeFetcher` |
| `NodeChildrenFetcher` | `NodeChildrenFetcher` and the browse service |
| `TimedData` | `BasicTimedDataBuffer`, `BaseTimedData`, `TimedDataImpl`, `TimedDataFetcher`, the history service |
| `TimedDataService` | `TimedDataServiceImpl`, `AliasTimedData`, `ExpressionTimedData`, `TimedDataSpec` |
| `MasterDataServices` | `MasterDataServices`, its monitored items, `SessionProxyNotifier` |
| `Aggregation` | `AggregateState` and the aggregate functions |
| `NodeSpace` | the graph of an address space as data, and the functions of `node_utils` over it |
| `NodeStates` | `GenericNodeFactory`: creating a node from a node state, with the properties its type declares |
| `AddressSpaceXml` | loading of node sets, export of node states |
| `ViewService` | `SyncViewServiceImpl`: browsing, virtual properties, browse paths |
| `AddressSpace` | an `AddressSpaceImpl` over its life, composed of the four above |
| `MC*` | instances for TLC |
| `*_proofs` | theorems |

### Event client

`pending`, `running`, `ack_pending` are the queue's members; `sent` is the set of
calls the server has not processed; `aborted` records a failed Check instead of
stopping, so that "the Checks hold" is an invariant. Running the task inline
(`Dispatch`) is posting it and running it next, so posting covers both. A loop of
`Ack` over a container is one action, `AckAll`, in any order of the container.

`stored` gives the source node and the time of each stored event, `index` and
`entries` are `node_events_` (an entry may exist with no event while somebody observes
it). The set of an entry is a `std::set` ordered by time (`event_set.h`), and an event
that arrives again overwrites the stored one where it is: `disordered` are the nodes
whose set may have lost its order by that, or has kept a pointer to an event that is
gone, and a lookup there finds its event or not, since that depends on the shape of the
tree and on what the pointer leads to. `moved` remembers that some stored event
was overwritten by one of another node or time (`ServerUpdates` makes them, up to
`MaxUpdates`). A
batch of `OnSystemEvents` is either one live event or a snapshot of unacked
events, because the two callers are the live handler and the history read; each
is one action. `live` holds events from the server's notification to the posted
task, in order: a task is posted as an event arrives, so the queue of posted tasks
and the channel are one sequence, and a lost session cuts off an arbitrary tail.
`reads` are the coroutines of `Update`, from the call to the resumption. A read may
fail at any time, with the session up too; `readLost` remembers that the last read the
client was waiting for did so, until the next `Update`. `AcknowledgeEvent` takes an event
that is stored, as a user picks one that is shown; the code does not ask
(`event_fetcher.cpp:138-140`), and would send the id of an event that is not there as it
sends those of known behaviour 2, to be confirmed by nobody.

### Node service

A model is what the registry's weak pointer gives, and `Held` lists what keeps it:
the keep-alive list, a fetch coroutine's pin, a queued request, a coroutine in
`NodeServiceImpl::Fetch`, and the tail that awaits it. Every action ends with
`Leave`, which drops the models nothing holds; the tail's weak flag dies with the
model. `NodeRef`, `child_models_` and subscriptions hold nothing
(`node_ref.h`: a cursor).

`refs` are the references of the node's state, own and mirrored, `kids` the
children's. What a fetch returns is data (`FetchedReferences`, `FetchedChildren`);
attributes are left out. `OnFetched` and `OnFetchCompleted` are one action, as
they run one after the other under the callback lock. Results may arrive or fail
at any time, with the channel open or not.

### Legacy node fetcher

`graph` is `fetching_nodes_` with the members of each `FetchingNode`; `Queue` is
the part of it that is pending. The heap of `FetchQueue` loses its order, because
`FetchNode` changes the key of a queued node in place, so the model lets a batch be
any part of the queue and claims nothing that needs an order. One turn of the loop
in `FetchPendingNodes` is a step, `DrainStep`; the call that started the loop,
answers that come at once and the completion handler all happen between two turns,
which is what `draining_pending_queue_` is for. `reads` and `browses` are the calls
under way with the request number they were sent under and, for reads, the version
of each node when the call was made. `ReadAnswer` and `BrowseAnswer` are the
handlers from the request check to `NotifyFetchedNodes`, which is `Notify`: the
closure of a fetched node (`FetchedRecursively`) is handed over in one go, nodes
that wait only for each other together. Any node may fail or be cancelled while
others depend on it; `excused` remembers these.

`NodeDelivery` is the promise seen by the node service: what is asked for stays so
until it is handed over or given up, nothing handed over is taken back, and a node
comes with all it needs or after it. `NodeFetcher` implements it under
`asked <- DOMAIN graph, known <- valid, lost <- excused`.

### Children fetcher

`pending` and `pending_set` are the two members that hold the queue, `requests` the
counter, `browsing` the nodes of the batch that are still to be handed over. The
children of a node are the number of changes they have seen, which is all that is
needed to tell an older answer from a newer. The callback of each result is a step
of its own (`HandOver`), so the client may call `Fetch` and `Cancel` from inside it.
Each half of a result, Organizes and HasSubtype, has a status of its own.

### Time series

Times are small integers and a union of intervals is the set of its unit
segments, which is exact, since all interval ends in a run are times of the run.
`call` is the history read with its page. `orderly` is an environment switch
chosen at the start: in an orderly run reads do not fail, observers do not
narrow, samples come in the order of their times and pages stay within the
query. Otherwise all of these happen, and only the properties that must hold all
the same are claimed.

### Timed data service

A timed data is known by its name: while anybody holds the data of a node or of an
alias the caches keep it, so there is one at most; an expression is made anew by
each `Connect`. `data` holds the timed data there are, `spec` what each
`TimedDataSpec` is connected to. An operation is a chain of worlds (the data there
is, and whether a Check has failed), because registering an observer may cascade
through aliases and expressions. A value is the sample it comes from and whether it
was good; of a range only matters whether it is historical. `told` is what each spec
read when it was last connected or notified. `loose` are the specs of known
behaviour 8, which the properties leave out.

### Services facade

`current` stands for `services_`, `connected_`, the resolved service pointers and
the item adapter, which `SetServices` changes together. An emission of the session
signal is a `phase` with one step for each slot (`toCall`, taken when it starts: a
slot connected meanwhile is not called, one disconnected meanwhile is skipped, as in
boost.signals2). Between two steps any slot may make, subscribe and destroy items
and notifiers, since slots are components of the client that do that. `Close` and
`Assign` are the halves of `SetServices` before its two signals, `Closed` and
`Opened` continue after them. A slot that calls `SetServices` itself, and an item's
handler that makes or destroys items while the loop over `monitored_items_` calls
it, are outside the model: the first would run the halves inside one another, the
second invalidates the loop's iterator.

### Aggregation

A history is a sequence of samples in the order of the read; `ReadPage` hands any
prefix of what is left to `Process`, one turn of whose loop is an action. All
aggregate functions run side by side: an aggregated value holds the result of each.
`spacing` is the interval of the request, zero and negative ones included, since
nothing checks it, and `known` whether the aggregate type is one the map has.

### Address space

A space is a record (`NodeSpace`): nodes, the reference lists at both ends, the
cached type and supertype, the signals of the operation at hand, and `panic` for a
failed Check. Operations that run to their end without anybody looking are functions
from space to space: creation with its missing properties (`NodeStates`), loading
with its two rounds (`AddressSpaceXml`). `DeleteNode`, which reports as it goes, is
an explicit stack, `deleting`, and each of its steps an action, so that subscribers
and browsers see the states in between. `Load` happens once, in every order of the
vendor file; clients start after one of the orders. `LoadFindsEveryReference` checks
that in every order all the listed references are found; which property nodes an
instance gets besides may differ (known behaviour 7), and clients meet instances with
and without them in one order as well, since they delete some. Calls of clients are not
guarded by the Checks they may fail: a reference that exists or a node that does not, a
property that is not declared or has no node set `panic`, and the run ends there (with
the references as they were: the code may have added one end when it notices a second
supertype, but then nobody looks any more). A
browse carries its result mask, of which `ResultFields` are the bits (the display name
goes with the browse name); the answer for a virtual property does not look at it. A
loop is a function of how far it has come: `Through` is a step for
each element of a list, `Kept` the elements that are wanted, and what the code does by
recursion is a function with one argument more, how deep it may still go: `Longest`, the
number of nodes, for chains of supertypes, the number of states for the loader's sort,
and `Nesting` for node states within each other, which is a bound (3 in the run, a state
nested deeper counts as a failed Check). Attributes other than class, browse name, data
type and value, and the XML text, are left out.

## 3. Runs

| Run | Checks | Result |
|---|---|---|
| EventClient | `IndexMatchesStore`, `OnlyShownSeverities`, `NoEventIsMissed`, `NoLostWakeup` | hold |
| EventClientStable | `EveryCheckHolds`, `AcksHoldTheirSlots`, `NoOvertaking`, `AcknowledgesArrive` | hold |
| NodeService | `NodeServiceTypeOK`, `GuardsMatchFetches`, `NodeWaitersAreServed`, `SnapshotsAreCurrent`, `FetchStatusOnlyGrows`, `ChildrenFetchSettles` | hold |
| NodeServiceLost | `ChildrenWaitersAreServed` | violated: finding 1 |
| NodeFetcher | `EveryNodeIsOnItsWay`, `HandedNodesAreUsable`, `ForcedFetchIsFresh`, `ImplementsDelivery`, `EveryFetchEnds` | hold |
| NodeChildrenFetcher | `EveryAskIsOnItsWay`, `EveryAskIsAnswered` | hold |
| TimedData | `TimedDataTypeOK`, `NoGapIsForgotten`, `OrderlyReadyRangesAreFilled`, `ObservedGetsReady` | hold |
| TimedDataService | `ServiceTypeOK`, `ObserversAreRegistered`, `SpecsAreTold` | hold |
| TimedDataServiceExpression | `NoExpressionCheckFails` | violated: finding 2 |
| MasterDataServices | `ItemsAreBound`, `ChannelsAgree` | hold |
| Aggregation | `EverySampleIsCountedOnce`, `BreaksDownOnlyAsKnown`, `PagingDoesNotShow` | hold |
| AddressSpace | `AddressSpaceTypeOK`, `ReferencesAgree`, `DeletionKeepsTheTree`, `SubscribersCanFollow`, `SnapshotsNameEveryReference`, `NestedNodesAreFound`, `LoadFindsEveryReference` | hold |

Every property of a passing run has a mutant: a definition next to the one it
replaces, marked "Mutant" or named after the slip it makes, under which the property
fails. The type invariants `ClientTypeOK`, `MasterTypeOK` and `FetcherTypeOK` are
proved (section 4) and no longer run.

### Bounds

- Events, a session that comes and goes (EventClient): two events, one below and one
  at the higher limit, with and without a source (`FirstOrigins`); the item is observed
  and not (`Watched`); two reads and two live events under way, one slot in the queue.
  Enough for a snapshot to race a live event, for a read of the old limit to meet one of
  the new, for a read to fail beside another, and for an id to wait while another runs.
- Events, a session that stays (EventClientStable): three events of one item, so that
  two of them are in its set besides the one looked up, and two slots, so that the queue
  is full with one waiting. The server may once report an event with the other of two
  times, or without its source (`MaxUpdates`), before or after the client has it.
  `ReadSlots` and `MaxLive` bound what is under way; they block new requests and lose
  nothing.
- Nodes (v3): a parent, a child and the reference type that links them, the smallest
  graph in which a tail awaits two other fetches and a node fetch mirrors an edge
  the children fetch reports (the child also refers to its parent). The keep-alive
  capacity is one, so every touch of another node evicts. Views ask for the parent
  with and without its children; the parent may be deleted. The run of finding 1 has
  a caller of the child as well.
- Legacy fetcher: a root, an object, its type and the type's property, which depend
  on each other in a ring; batches of two and room for two batches (`MaxRunning` 5: a
  batch starts while fewer are running, and may take two slots); the type's answers
  may fail. The object is asked for by two calls of `Fetch`, in both statuses, forced
  or not, cancelled once and changed once on the server (`MaxFetches`, `MaxCancels`,
  `MaxChanges`): enough for a request to be superseded with its answers under way,
  and for a dependency to be cancelled or to fail while others wait for it.
- Children fetcher: three nodes and batches of two (`MaxFetchChildCount`), four calls
  of `Fetch` (`MaxAsks`) and one change (`MaxChanges`): a batch, a queue behind it,
  and a node of the batch asked for again.
- Time: four times, three intervals (start, end, all), two observers, pages of one
  sample and two recorded samples: a query has two pages, can be cancelled
  between them, can leave a hole behind, and a live sample can fall into it.
- Timed data service: a node, an alias that may turn out to be that node, an
  expression over both and one over the alias alone, two specs that are alike
  (symmetry), two samples (`MaxSamples`).
- Services: two sessions, one whose services have no monitored items, two items and
  two notifiers: a swap between different services, a swap for the same ones, an
  item subscribed before the swap and one during it, a notifier called while the
  other is still to be called. Items and notifiers are symmetric.
- Aggregation: every history of up to four samples (`MaxSamples`) at seven times
  around a start time of 1, with two values; intervals of -2, 0, 2 and 3: two samples in
  an interval, samples on a border, and samples before the start time occur, in
  every division into pages.
- Address space: the standard reference types as far as they matter, and a file with a
  type, a property declaration, a subtype, a placeholder under a custom reference type
  and an instance, in all 120 orders; then two instances, one below the other, whose
  property and whose type clients delete, and which they modify by a property every
  instance should have and by a placeholder none has. Browsers
  ask for every reference type forward and inverse; both directions at once are these
  two answers one after the other.

### Fairness

- `FairClientSpec`: posted tasks run (`DeliverLiveEvent`, `AckTask`) and the server
  processes each call. No fairness for the user.
- `NodeService!FairSpec`: each fetch gets an answer, good or bad, coroutines that
  can go on do, and the session reconnects.
- `NodeFetcher!FairSpec`: the loop, once started, runs to its end (`DrainStep`,
  `DrainEnds` - it is a loop, nothing suspends it), and the services answer.
- `NodeChildrenFetcher!FairSpec`: the view service answers and the coroutine that
  awaits it resumes and runs to its end.
- `TimedData!FairSpec`: the history service answers and the coroutine that awaits
  it resumes.

`AcknowledgesArrive` has a premise, `[](StoredEventsAreUnacked /\ ~moved)`: an event that
was acked before and is shown all the same (known behaviour 2), or that a moved event
has left in the index of its old node (3), is never confirmed a second time, keeps its
slot, and `kMaxParallelAcks` of these stop the queue, because the status of the Call is
dropped (`events/event_ack_queue.cpp:56`). For the same reason
the run has a session that stays: a Call that fails gives its slot back to nobody before
the next `Reset`, and the event stays unacked.

### Findings

`PROJECT.json` quotes what the repository says in each case.

1. A model evicted while its children tail runs leaves its guard behind, and the
   children callback of a new model of the node is never called
   (`node_service/v3/node_service_impl.cpp:351`).
2. An expression registers with the buffers of its operands, and a buffer tells every
   observer whatever range it asked for: a sample of an operand that is not its
   newest, or a history somebody else read, fails the Check of an expression nobody
   asked the history of (`timed_data/expression_timed_data.cpp:225`).
### Known behaviours

Met while modelling; the models have those of 1 to 6 and 8 to 12 that are theirs, or
leave out what leads to them, as said, and no run claims otherwise.

1. The two findings.
2. A history snapshot taken before an acknowledge and applied after its live event
   puts the acked event back (`events/event_fetcher.cpp:171`). Events acked while the
   session was down stay shown too: `OnChannelOpened` only adds.
3. `events/event_storage.cpp:20-21` say that an event that comes back with another
   source node is tolerated. The storage overwrites it where it is (`:22`, `:45`), its
   node and its time included, and leaves its pointer in the set, and the place, it was
   put in: the item of the old node shows it, and a set, which is ordered by time
   (`events/event_set.h:8-14`), may have lost its order. When such an event is acked,
   the lookup in the set of its new node misses it if that node has an entry, and in a
   disordered set may miss it or another event: the Check in `Remove` (`:53`) fails. If
   the new node has no entry, or there is no new node, the event is erased and the old
   node's set keeps a pointer to it. `IndexMatchesStore` and `EveryCheckHolds` speak of
   the time before (`~moved`).
4. A node fetch under way at a deletion revives the tombstone
   (`node_service/v3/node_model_impl.cpp:105`; `docs/node_service.md:82-83` says
   holders keep a tombstone).
5. A failed history read marks its range ready (`timed_data/timed_data_fetcher.cpp:55`,
   `:151`), and so does one whose observer narrows meanwhile: the page is trimmed and
   the whole queried range becomes ready.
6. Live samples are kept that nobody observes (`timed_data/timed_data_impl.cpp:142`).
7. `address_space_xml.cpp:671-672` says that nodes are applied without regard to
   inter-file ordering, but property declarations are not sorted before the instances
   that get them. A saved property of an instance cannot be loaded again:
   `node_utils.h:212-213` calls for its declaration, and `FindComponentDeclaration`
   looks at HasComponent only.
8. `TimedDataSpec::SetData` between two names of one timed data, and `operator=` with
   another range of the same data, register with the new one and then remove the spec
   from it (`timed_data/timed_data_spec.cpp:85`).
9. A history read of events that fails with the session up is swallowed: the status is
   dropped and nothing reads again (`events/event_fetcher.cpp:152-157`, `:171-174`), so
   that what it was to bring stays unknown until the session is made anew or the
   severity limit changes. `NoEventIsMissed` has this as a premise (`readLost`).
10. `common/aggregation.cpp:184-185` say that an interval and times from outside make
    the code degrade and not panic. A negative interval passes `GetAggregateInterval`
    (`:186-192`) and ends before it starts: a forward read fails the Check at `:203`, a
    backward one tells values of such intervals. A backward read that goes past the start
    time of the aggregation fails the same Check. `BreaksDownOnlyAsKnown` has both.
11. The callers of an address space must know what is in it. `ModifyNode`
    (`address_space/address_space_impl.cpp:59-109`) fails a Check for a node that is not
    there, and by `GetPropertyValue` and `SetPropertyValue`
    (`address_space/node_utils.cpp:321`, `:337`, `:343`) for a property that the node's
    type does not declare or that has no node: after somebody has deleted the property
    or the type, or for a placeholder. `AddReference` does for a reference that exists,
    a second type or a second supertype (`address_space/node.cpp:35`, `:39`,
    `address_space/type_definition.cpp:20`), and both it and `DeleteReference` for nodes
    or references that are not there. These calls answer with no status for it.
12. A property that exists as a node is browsed with names, type definitions, result and
    class mask (`address_space/view_service_impl.cpp:107-134`), one that exists only as
    an id with none of these (`:173-208`), although `:116-117` say that fields the result
    mask does not ask for stay at their defaults. The test
    `BrowsePopulatesNamesAndHonorsResultMask`
    (`address_space/view_service_impl_unittest.cpp:189`) has the first kind only.
    `NestedNodesAreFound` claims that the references, their directions, ends and the
    classes of those agree when every field is asked for.

Also met, without a property of their own:

- v3 node service: nothing fires `node_fetched`, although `node_events.h:14` and
  `node_ref.h:63` speak of it; `WaitForPendingNodes` (`node_awaitable.cpp:35`) never
  resumes when requests are queued; `FetchRecursiveStatus` reads targets after an
  await without holding the node. The keep-alive capacity is 4096
  (`node_service_impl.h:49`), 256 in `docs/node_service.md`, which also says that a
  `NodeRef` keeps its node resident.
- Channels: a proxy is told "closed" twice when a session is lost and the user then
  logs out; `EventFetcher` allows that, the Checks of `NodeServiceImpl::OnChannelOpened`
  and `OnChannelClosed` (`node_service_impl.cpp:444`) do not. What the client program
  does is outside the repository.
- Legacy fetcher: a reference reported for the inverse non-hierarchical browse fails a
  Check (`node_fetcher_impl.cpp:645`); a property declaration is not seen as one if its
  references are answered before its class (`:72`); the `force` flag of
  `fetching_node.h:28` is not used.
- Children fetcher: a Good half masks the Bad status of the other
  (`node_children_fetcher.cpp:44`).
- Timed data: expressions do not hear that an operand was deleted; a deleted series
  stays cached; a series is historical for ever once it was; an alias that failed stays
  failed; `SetForwarded` iterates raw observers while calling them.
- Aggregation: the second page of an interval of an unknown aggregate calls an empty function (`:218`); a sample
  on a border goes to the earlier or to the later interval depending on the pages;
  Maximum starts at the least positive double (`:129`) and is wrong for values that are
  not positive; the qualifier of Minimum and Maximum is that of the last page.
- Address space: an element with two inverse parents keeps the last;
  a property that is declared twice stops a
  creation half way (`node_factory_util.cpp:35`), and a creation that fails late leaves
  the node behind; `ModifyNode` collects the ids of changed properties in an array of
  fifty (`address_space_impl.cpp:98`).
- OPC UA bridge: `AddItems` (`server_adapters.cpp:356-371`) records handles before it
  knows whether their items were made, and `RemoveItems` does not drop them.

## 4. Proofs

TLC checks the instances above; the theorems hold for every set of ids, nodes,
severities, observers, ranges and samples and every bound, under the named
assumptions of the modules.

- `ClientServices_proofs`, first part: over `AckSpec`, every sequence of the queue's
  operations. The inductive invariant is types, uniqueness, the limit,
  `NoLostWakeup`, the Checks, and `PostedTaskIsNeeded`: a task is posted only
  while a slot is free, and the FIFO can be empty under it only if nothing runs
  either (after a Reset). The last is what makes the others inductive: without it
  an `OnAcked` could meet a posted task with nothing to send, which is where the
  Check would fail. `NoOvertaking` is an action property: the sending loop takes a
  prefix of the FIFO, and every other step starts nothing.
- `ClientServices_proofs`, second part: over `ClientSpec`. `ClientInv` joins the queue's
  invariant with the types of what is under way (`ClientTypes`) and `StorageOK`: as long
  as no stored event was overwritten by one of another node or time, index and events
  agree and every set has the order it was built with (`disordered` is empty), which is
  what the lookup in `Remove` rests on. What happens after such an overwrite is no part
  of the theorems, nor could it be (known behaviour 3). For `ClientMissesNothing` the
  strengthening is `NewsIsTrue`: a live acknowledge is true and a snapshot holds unacked
  events only, hence an unacked event never leaves the storage except by a `Clear`, which
  starts a read. Its premise beside the session is `~readLost`: since the last `Update`,
  no read has failed with the session up unless another one was still with the server.
- `NodeFetcher_proofs`: over `Spec`, for every graph of nodes, ring or not. Neither
  "handed nodes are usable" nor "a forced fetch is fresh" is inductive: both speak of
  what was handed over, and what is about to be handed over is in the graph.
  `FetcherInv` says of each fetching node that what its answers have named is among its
  dependencies or settled (`Covered`), that its attributes are not older than the last
  forced fetch (`GraphOK`), and of each call under way that a node which waits for it
  is asked for all it needs, as of now (`CallsOK`). `Notify` then hands over only closed
  sets of such nodes. `FetcherImplementsDelivery` shows that each step is a step of
  `NodeDelivery` or a stutter (the lemma `Promised`). `FetcherForgetsNoNode`, that
  every node is queued, done, or awaits answers which will be taken, needs a second
  invariant, `AwaitedIn`: a node that waits for a request number has the call with that
  number under way and itself in it, so that superseding or cancelling a request can
  only move it back to the queue; and `SlotsOK`, that `running` is the number of calls.
- `NodeService_proofs`: over `Spec`, for every graph and every keep-alive capacity,
  zero included. `ServiceInv` says of the guards that each has exactly one owner (a
  fetch coroutine or the one tail of its node, `OneTailEach`), of the waiters that a
  fetch of their node runs or is queued while the channel is closed (`Served`), of
  the models that what observers saw last is what the model has (`Shown`), and of a
  tail that it waits for a next target only (`TailsOK`). Guards are by id
  and models come and go, so every action ends in the lemma about `Leave`, which drops
  models and must not drop what a waiter needs. `StatusGrows` is an action property
  over the same invariant.
- `NodeChildrenFetcher_proofs`: `ChildrenInv` joins the queue (`pending` is
  `pending_set` in some order, without repetition, `QueueOK`), the batch
  (`AnswersOK`), what the client has been handed (`ClientOK`) and, of each node asked
  for, which of these will bring the client up to the time it asked (`FreshEnough`).
- `TimedData_proofs`: `GapsAreQueried`; every action that changes the observed or
  ready ranges ends in `FetchNextGap` or `FetchMore`, or leaves the query under way.
  `OrderlyRangesAreFilled` needs `SeriesInv`: the query lies within what is observed,
  a page has no holes (`AnswerOK`), with it the buffer is filled as far as the page
  tells, and the buffer has the sample a continued query starts after (`QueryOK`). It is
  `FetchNextGap` asking for observed ranges only that keeps the trim, which works on the
  hull, away from what a page has yet to make ready. That a page is not empty and has no
  holes is proved from how the service counts (`PageIsPrefix`); least and greatest times
  exist by the well-foundedness of the naturals (`LeastElement`).
- `TimedDataService_proofs`: over `Spec`, for every set of nodes, aliases, formulas and
  specs. `ServiceInv` has the registry in the form the code keeps it: at a name where
  values arrive, who is registered holds it, and who holds it is registered with its
  range unless the spec is loose (`RegistryOK`; "loose" alone would let a data die
  observed). An operation is a chain of worlds, so each link has a lemma of its own
  (`MadeResult`, `JoiningResult`, `LeavingResult`, `DroppedResult`, `DestroyedResult`),
  which says what became of one observer and that `RegistryKept` carries the others
  over. `SpecsAreTold` needs that expressions are calculated (`CalculatedOK`), and of a
  change of value `ChangeStep`: who is not reached by the notification holds, by the
  registry, nothing that changed. The one exception is in the invariant as it is in the
  code: an expression with a deleted operand (`BadIn`).
- `ClientServices_proofs`, third part: `ChannelsAgree` and `ItemsAreBound` speak of the
  moments between operations, so they are not inductive. `MasterInv` says for each
  phase what holds of the services (`EmissionOK`), that the notifiers already called
  agree with the session (`NotifiersOK`), and that an item lacks its underlying item
  only while the new services are being announced (`ItemsOK`). The item properties
  hold for any client, the notifier properties for one that hands over connected
  sessions (`HandOverConnected`): `SetServices` announces "connected" whatever the
  session says.
- `Aggregation_proofs`: over `Spec`, for every history of samples, of any length, every
  cut of it into pages, and intervals of either sign or none (`PeriodIsPositive`:
  rounding goes by the size of the interval). `BreaksDownOnlyInKnownWays` says that there
  are three ways for `Process` to break down and no fourth. `AggregateInv` says that the page and what comes after it
  are the end of the history (`PagesOK`), that the value at hand is what its aggregator
  captured, of an interval some sample taken is in (`AtHandOK`), and that what is told
  comes before that interval (`ToldOK`). That a later sample never falls back into an
  earlier interval is arithmetic about rounding down (`IntervalsFollowTimes`,
  `StartTellsInterval`). `PagesDoNotShow` adds `PagingInv`: the aggregator at hand has
  captured exactly the samples of its interval among those taken (`Captured`), what is
  told has captured all of them (`Settled`). It needs that one turn takes samples of one
  interval only, which is where `BorderIsShared` comes in (`TurnTakesItsOwn`), and that
  what is captured is what `Reference` says without pages (`CapturedAsReferred`).
  `Aggregate`, `Counted` and `TotalOf` are recursive functions over the positions of a
  sequence; that they have the values their equations say is proved by the least
  position at which they would not (`StepByStep`, `UpTo`).
- `AddressSpace_proofs`: over `Spec`, for every set of nodes, standard space, files in
  any order, and clients. The lists at both ends of a reference can agree only if no
  list has a reference twice and nothing in them is absent, so the inductive invariant
  `SpaceInv` says of the space that it stands (`Standing`): the four places of every
  reference agree (`Coherent`), every variable has a data type that is there
  (`DataTyped`), and what was reported leads from the references when the operation
  began to those there are, with nothing said of a node after its end (`Reported`); and
  of the stack of `DeleteNode` calls that it is a path of parents and children
  (`Stacked`). A deletion in the middle thus needs nothing besides: `EraseNode` takes
  the references of its node one by one (`DeleteAllReferences` never runs past the
  lists' end), each of which keeps the space standing. Creation and loading are
  loops in loops in recursion, so they are gone through once, for any set of spaces that
  is `Closed` under a reference, a value, a new node and a failed Check. That set is then
  all the spaces (`SpacesClosed`), for types, and those that are made from a standing
  one by adding (`Growing`). `DeletionAlwaysKeepsTheTree` adds `TreeInv`: what lies below
  a node is what leads up to it, climbing takes no more steps than there are nodes, and
  the one who is erased has nothing below it. `SnapshotsAlwaysNameEveryReference` splits
  the references by who is to export them. All of it holds of calls that fail a Check as
  well: these leave a standing space behind.

  Two things the code leaves to its callers are hypotheses, of the form `[]...` beside
  `Spec`. `NothingInUseIsDeleted`: a node is erased only when no reference that is left
  is of its type or of a subtype of it, and no variable has it as data type. `DeleteNode`
  looks at the references from and to the node alone, and the raw pointers of the others
  would dangle. `ReferencesAreRooted`: every reference is of a hierarchical or a
  non-hierarchical type, and only types are subtypes; `AddReference` asks for neither,
  and `MakeNodeState` exports no reference of any other type. In the run the loader sees
  to the second (`LoadFindsEveryReference` says so too), and its clients, who delete an
  object type and a folder with all below it, never delete a reference or data type;
  given to TLC as invariants of the run, both hold in all its states.

Assumptions: `EventIds` is finite and severities are naturals
(`ClientAssumption`), `MaxParallelAcks` is positive, null and absent marks are no
nodes, `TimedDataAssumption` on times and ranges, `MasterAssumption` (no services is
not one of the services), `GraphAssumption` (the node graph of the server; children are
among the targets of the references), `ServiceAssumption` (a formula's names are nodes
and aliases; nodes, aliases, expressions and the broken formula are told apart),
`FetcherAssumption` (types of the constants, every fetch asks for the node itself),
`ParentAssumption` (the parent that reports a child is the child's parent, and the root
has none) and `AggregationAssumption` (even numbers stand for the values that occur, so
that 1 can stand for the least positive double, and like the doubles they have a
greatest), `SpaceAssumption` (finitely many node ids, the standard ones the code names
among them), `NestingAssumption` and `AddressSpaceAssumption` (types of the constants;
variables built in code have a data type built in code).

Only model-checked: `NestedNodesAreFound` and `LoadFindsEveryReference` (that loading
fails no Check is part of it), which depend on what the node sets contain (a property
declared twice, a nested id that is taken, or a reference listed beside one of a
subtype of its type is enough to break a load), and all liveness
(`AcknowledgesArrive`, `ChildrenFetchSettles`, `EveryFetchEnds`, `EveryAskIsAnswered`,
`ObservedGetsReady`), which the proof system cannot do under fairness. The theorems of
induction cannot be used, since they take an operator as a parameter; what they are
needed for here, least elements, cardinalities and the values of recursive functions,
is had from the theorem about minimal elements of well-founded relations and from
those about finite sets.

## 5. Not modelled

Attributes other than those named, formatting, conversions and logging; most
notification of observers other than node snapshots, specs and address space
subscribers, and handlers that call back into the object that notifies them (except
those of the services facade, the legacy and the children fetcher); `max_samples` of
the retention policy (off in the default policy, the only one used).

- `opcua_bridge`: adapters whose logic is the conversion of one request or answer
  into another; what protocol there is (subscriptions, continuation points) is in the
  libraries on either side of it.
- `opc` and `vidicon`: COM clients; behaviour depends on libraries that are not here.
- audit, formats, expressions as texts, `model`, static and proxy services: no
  protocol, or pure functions over texts.
- node subscription table, and the re-entrant drain of `BaseNodeModel`'s callbacks:
  small, and left to a module of their own.

Some two fifths of the source lines are unit tests, test fixtures, module
facades and conversions, which hold no behaviour to model.

## 6. Plan

1. `NodeSubscriptionTable` and the re-entrant `NotifyCallbacks`: handlers that
   subscribe, unsubscribe and fetch while being called.
2. The attribute service over `NodeSpace`, beside `ViewService`.
3. An abstract series that `TimedData` implements and `TimedDataService` is built on.
4. The subscription adapters of the opcua bridge.
