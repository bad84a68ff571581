----------------------------- MODULE NodeDelivery -----------------------------
(***************************************************************************)
(* What a node fetcher promises the node service: a node that was asked    *)
(* for stays so until it is handed over or given up, nothing that was      *)
(* handed over is taken back, and a node is handed over only with all it   *)
(* needs, or after it.                                                     *)
(***************************************************************************)
CONSTANTS
  Ids,
  Required,  \* Ids -> SUBSET Ids: the nodes a node cannot be used without
  Initial    \* the nodes the service has from the start

VARIABLES
  asked,    \* the nodes that are to be fetched
  known,    \* the nodes the service was handed
  lost      \* the nodes that failed or were cancelled

vars == <<asked, known, lost>>

Init ==
  /\ asked = {}
  /\ known = Initial
  /\ lost = {}

\* Nodes are asked for, or met in an answer.
Asks == asked' \ asked \subseteq Ids

\* Only what was asked for is handed over or given up, and for good.
Delivers ==
  /\ known \subseteq known' /\ known' \ known \subseteq asked
  /\ lost \subseteq lost' /\ lost' \ lost \subseteq asked

\* Nothing that was asked for is dropped without a word.
Keeps == asked \ asked' \subseteq known' \cup lost'

\* What is handed over can be used.
Complete == \A n \in known' \ known : Required[n] \subseteq known' \cup lost'

Next == Asks /\ Delivers /\ Keeps /\ Complete

Spec == Init /\ [][Next]_vars
=============================================================================
