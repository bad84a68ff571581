------------------------ MODULE NodeChildrenFetcher ------------------------
(***************************************************************************)
(* NodeChildrenFetcher: nodes whose children are wanted queue up and are   *)
(* browsed in batches, one batch at a time, for Organizes and for          *)
(* HasSubtype; the two results of a node are merged and handed over.       *)
(*                                                                         *)
(* The children of a node are a number that grows when they change, so     *)
(* that the older of two answers can be told.                              *)
(***************************************************************************)
EXTENDS Integers, SequencesExt

CONSTANTS
    Ids,
    MaxFetchChildCount,   \* kMaxFetchChildCount
    MaxChanges,           \* bound: changes of the children of all nodes
    MaxAsks               \* bound: calls of Fetch

ASSUME ChildrenAssumption ==
    /\ MaxFetchChildCount \in Nat \ {0} /\ MaxChanges \in Nat /\ MaxAsks \in Nat

Good == "good"
Bad == "bad"

VARIABLES
    children,     \* server: the children of each node, as the number of changes
    pending,      \* pending_children_
    pending_set,  \* pending_children_set_
    requests,     \* children_request_count_
    browsing,     \* the nodes of the Browse under way
    browsed,      \* what the Browse has found, once the server has answered
    merged,       \* merged_results still to be handed over
    handed,       \* client: what was handed over last for each node
    wanted,       \* ghost: the children at the last Fetch of each node
    asks,         \* the calls of Fetch so far
    panic         \* a Check has failed

queueVars == <<pending, pending_set>>
callVars == <<requests, browsing, browsed, merged>>
vars == <<children, queueVars, callVars, handed, wanted, asks, panic>>

Never == -1
Nothing == [n \in {} |-> 0]

Init ==
    /\ children = [n \in Ids |-> 0]
    /\ pending = <<>> /\ pending_set = {}
    /\ requests = 0 /\ browsing = <<>> /\ browsed = Nothing /\ merged = Nothing
    /\ handed = [n \in Ids |-> [children |-> Never, status |-> Bad]]
    /\ wanted = [n \in Ids |-> Never]
    /\ asks = 0 /\ panic = FALSE

-----------------------------------------------------------------------------
(* The queue.                                                              *)

\* erase: the list without the place of n.
Without(list, n) == RemoveAt(list, CHOOSE i \in 1..Len(list) : list[i] = n)

\* FetchPendingNodes and FetchChildren, from the queue and the requests there are.
FetchPendingNodes(queue, set, count, called) ==
    LET n == IF Len(queue) < MaxFetchChildCount THEN Len(queue) ELSE MaxFetchChildCount
    IN  IF count = 0 /\ queue # <<>>
        THEN /\ pending' = SubSeq(queue, n + 1, Len(queue))
             /\ pending_set' = set \ ToSet(SubSeq(queue, 1, n))
             /\ browsing' = SubSeq(queue, 1, n)
             /\ requests' = count + 1
        ELSE /\ pending' = queue /\ pending_set' = set
             /\ browsing' = called /\ requests' = count

MutantNotQueued(n) ==
    /\ asks < MaxAsks
    /\ asks' = asks + 1
    /\ wanted' = [wanted EXCEPT ![n] = children[n]]
    /\ IF n \in pending_set \cup ToSet(browsing)
       THEN UNCHANGED <<pending, pending_set, browsing, requests>>
       ELSE FetchPendingNodes(Append(pending, n), pending_set \cup {n}, requests, browsing)
    /\ UNCHANGED <<children, browsed, merged, handed, panic>>

\* The client may call it while results are handed over to it, too.
Fetch(n) ==
    /\ asks < MaxAsks
    /\ asks' = asks + 1
    /\ wanted' = [wanted EXCEPT ![n] = children[n]]
    /\ IF n \in pending_set
       THEN UNCHANGED <<pending, pending_set, browsing, requests>>
       ELSE FetchPendingNodes(Append(pending, n), pending_set \cup {n}, requests, browsing)
    /\ UNCHANGED <<children, browsed, merged, handed, panic>>

\* A node whose Browse is under way is still handed over.
Cancel(n) ==
    /\ n \in pending_set
    /\ pending_set' = pending_set \ {n}
    /\ IF n \in ToSet(pending)
       THEN pending' = Without(pending, n) /\ UNCHANGED panic
       ELSE panic' = TRUE /\ UNCHANGED pending
    /\ wanted' = [wanted EXCEPT ![n] = Never]
    /\ UNCHANGED <<children, callVars, handed, asks>>

-----------------------------------------------------------------------------
(* The Browse and its results.                                             *)

\* The children of a node change on the server.
ChildrenChange(n) ==
    /\ FoldFunction(+, 0, children) < MaxChanges
    /\ children' = [children EXCEPT ![n] = @ + 1]
    /\ UNCHANGED <<queueVars, callVars, handed, wanted, asks, panic>>

\* The answer holds a status for Organizes and for HasSubtype of each node; a
\* failed call, or one with too few results, counts as Bad for all.
ServerAnswers ==
    /\ browsing # <<>> /\ browsed = Nothing /\ merged = Nothing
    /\ \E statuses \in [ToSet(browsing) -> {Good, Bad} \X {Good, Bad}] :
          browsed' = [n \in ToSet(browsing) |->
                        [children |-> children[n], status |-> statuses[n]]]
    /\ UNCHANGED <<children, queueVars, requests, browsing, merged, handed, wanted, asks, panic>>

\* The status of the second half replaces a bad one of the first.
MergeResult(result) ==
    [result EXCEPT !.status = IF @[1] = Bad THEN @[2] ELSE @[1]]

\* OnBrowseChildrenResult up to its calls of the reference validator.
OnBrowseChildrenResult ==
    /\ browsed # Nothing
    /\ panic' = (panic \/ browsing = <<>>)
    /\ merged' = [n \in DOMAIN browsed |-> MergeResult(browsed[n])]
    /\ browsed' = Nothing
    /\ UNCHANGED <<children, queueVars, requests, browsing, handed, wanted, asks>>

\* One call of reference_validator_.
HandOver(n) ==
    /\ n \in DOMAIN merged
    /\ handed' = [handed EXCEPT ![n] = merged[n]]
    /\ merged' = Restrict(merged, DOMAIN merged \ {n})
    /\ browsing' = Without(browsing, n)
    /\ UNCHANGED <<children, queueVars, requests, browsed, wanted, asks, panic>>

MutantRequestEnds ==
    /\ requests > 0 /\ browsing = <<>>
    /\ requests' = requests - 1
    /\ UNCHANGED <<children, queueVars, browsing, browsed, merged, handed, wanted, asks, panic>>

\* The end of OnBrowseChildrenResult.
RequestEnds ==
    /\ requests > 0 /\ browsing = <<>>
    /\ FetchPendingNodes(pending, pending_set, requests - 1, <<>>)
    /\ UNCHANGED <<children, browsed, merged, handed, wanted, asks, panic>>

-----------------------------------------------------------------------------
Next ==
    \/ \E n \in Ids : Fetch(n) \/ Cancel(n) \/ HandOver(n) \/ ChildrenChange(n)
    \/ ServerAnswers \/ OnBrowseChildrenResult \/ RequestEnds

Spec == Init /\ [][Next]_vars

\* The view service answers, and the executor runs what was spawned on it.
FairSpec ==
    /\ Spec
    /\ WF_vars(ServerAnswers)
    /\ WF_vars(OnBrowseChildrenResult \/ RequestEnds \/ \E n \in Ids : HandOver(n))

-----------------------------------------------------------------------------
UnderWay(n) == n \in pending_set \cup ToSet(browsing)

\* What is under way for a node will show its children as of the last Fetch,
\* and so does what was handed over when nothing is under way.
FreshEnough(n) ==
    IF UnderWay(n) /\ n \in pending_set THEN TRUE
    ELSE IF n \in DOMAIN merged THEN merged[n].children >= wanted[n]
    ELSE IF n \in DOMAIN browsed THEN browsed[n].children >= wanted[n]
    ELSE IF UnderWay(n) THEN TRUE
    ELSE handed[n].children >= wanted[n]

\* Whoever asks for the children of a node gets them as they were when it asked
\* or later: the request is dropped only for a node that is still to be
\* browsed, and never for one whose Browse is under way (Fetch,
\* FetchPendingNodes).  Nodes are pending only while another batch is under
\* way; the queue and its set hold the same nodes, and no Check fails.
EveryAskIsOnItsWay ==
    /\ ~panic
    /\ ToSet(pending) = pending_set /\ IsInjective(pending)
    /\ pending # <<>> => requests = 1
    /\ requests \in {0, 1} /\ (browsing # <<>> => requests = 1)
    /\ Len(browsing) <= MaxFetchChildCount
    /\ \A n \in Ids : FreshEnough(n)

\* Every call of Fetch ends with the children of that time or later handed over,
\* or it is cancelled: a batch that ends starts the next one
\* (OnBrowseChildrenResult, FetchPendingNodes).
EveryAskIsAnswered ==
    \A n \in Ids : wanted[n] # Never ~> (wanted[n] = Never \/ handed[n].children >= wanted[n])
=============================================================================
