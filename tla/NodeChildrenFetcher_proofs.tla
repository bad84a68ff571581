--------------------- MODULE NodeChildrenFetcher_proofs ---------------------
(***************************************************************************)
(* No call of Fetch is lost, and no Check of the fetcher fails, for every  *)
(* number of nodes, batch size and sequence of calls.                      *)
(***************************************************************************)
EXTENDS NodeChildrenFetcher, SequenceTheorems, TLAPS

-----------------------------------------------------------------------------
(* The inductive invariant.                                                *)

ListOK(list) == list \in Seq(Ids) /\ IsInjective(list)

QueueOK ==
    /\ ListOK(pending) /\ pending_set = ToSet(pending)
    /\ ListOK(browsing) /\ Len(browsing) <= MaxFetchChildCount
    /\ requests \in {0, 1}
    /\ pending # <<>> => requests = 1
    /\ browsing # <<>> => requests = 1
    /\ ~panic

\* An answer is about the nodes of the batch that are not handed over yet.
ResultsOK(results, statuses, batch) ==
    /\ results \in [DOMAIN results -> [children : Nat, status : statuses]]
    /\ DOMAIN results \in {{}, ToSet(batch)}

AnswersOK ==
    /\ ResultsOK(browsed, {Good, Bad} \X {Good, Bad}, browsing)
    /\ ResultsOK(merged, {Good, Bad}, browsing)
    /\ DOMAIN browsed = {} \/ DOMAIN merged = {}

\* What was wanted is not from the future.
ClientOK ==
    /\ children \in [Ids -> Nat]
    /\ handed = [n \in Ids |-> handed[n]]
    /\ \A n \in Ids : handed[n].children \in Int /\ handed[n].children >= Never
    /\ wanted \in [Ids -> Int]
    /\ \A n \in Ids : Never <= wanted[n] /\ wanted[n] <= children[n]

ChildrenInv == QueueOK /\ AnswersOK /\ ClientOK /\ \A n \in Ids : FreshEnough(n)

-----------------------------------------------------------------------------
(* Lists without repetitions.                                              *)

\* What erase moves up.
LEMMA RemoveAtShifts ==
  ASSUME NEW S, NEW s \in Seq(S), NEW i \in 1..Len(s)
  PROVE  /\ RemoveAt(s, i) \in Seq(S)
         /\ Len(RemoveAt(s, i)) = Len(s) - 1
         /\ \A j \in 1..i - 1 : RemoveAt(s, i)[j] = s[j]
         /\ \A j \in i..Len(s) - 1 : RemoveAt(s, i)[j] = s[j + 1]
<1> DEFINE a == SubSeq(s, 1, i - 1)
           b == SubSeq(s, i + 1, Len(s))
<1>1. /\ a \in Seq(S) /\ Len(a) = i - 1
      /\ \A j \in 1..i - 1 : a[j] = s[j]
  BY SubSeqProperties, i - 1 <= Len(s)
<1>2. /\ b \in Seq(S) /\ Len(b) = Len(s) - i
      /\ \A j \in 1..Len(s) - i : b[j] = s[i + j]
  BY SubSeqProperties, i + 1 <= Len(s) + 1
<1>3. RemoveAt(s, i) = a \o b
  BY DEF RemoveAt
<1> HIDE DEF a, b
<1>4. /\ a \o b \in Seq(S) /\ Len(a \o b) = Len(a) + Len(b)
      /\ \A j \in 1..Len(a) + Len(b) :
            (a \o b)[j] = IF j <= Len(a) THEN a[j] ELSE b[j - Len(a)]
  BY <1>1, <1>2, ConcatProperties
<1>5. Len(s) \in Nat /\ i \in Nat /\ i >= 1 /\ i <= Len(s)
  BY LenProperties
<1>6. \A j \in 1..i - 1 : (a \o b)[j] = s[j]
  BY <1>1, <1>2, <1>4, <1>5
<1>7. ASSUME NEW j \in i..Len(s) - 1 PROVE (a \o b)[j] = s[j + 1]
  <2>1. (a \o b)[j] = b[j - (i - 1)]
    BY <1>1, <1>2, <1>4, <1>5
  <2>2. b[j - (i - 1)] = s[i + (j - (i - 1))]
    BY <1>2, <1>5
  <2>3. i + (j - (i - 1)) = j + 1
    BY <1>5
  <2>4. QED
    BY <2>1, <2>2, <2>3
<1>8. QED
  BY <1>1, <1>2, <1>3, <1>4, <1>5, <1>6, <1>7

\* A node is in a list once, so that it is gone when it was erased.
LEMMA WithoutRemoves ==
  ASSUME NEW s, ListOK(s), NEW n \in ToSet(s)
  PROVE  /\ ListOK(Without(s, n))
         /\ ToSet(Without(s, n)) = ToSet(s) \ {n}
         /\ Len(Without(s, n)) = Len(s) - 1
<1> DEFINE i == CHOOSE k \in 1..Len(s) : s[k] = n
           w == Without(s, n)
<1>1. s \in Seq(Ids) /\ Len(s) \in Nat /\ DOMAIN s = 1..Len(s)
      /\ \A x \in 1..Len(s), y \in 1..Len(s) : s[x] = s[y] => x = y
  BY DEF ListOK, IsInjective
<1>2. i \in 1..Len(s) /\ s[i] = n
  BY <1>1 DEF ToSet
<1>3. w = RemoveAt(s, i)
  BY DEF Without
<1> HIDE DEF i, w
<1>4. /\ w \in Seq(Ids) /\ Len(w) = Len(s) - 1
      /\ \A j \in 1..i - 1 : w[j] = s[j]
      /\ \A j \in i..Len(s) - 1 : w[j] = s[j + 1]
  BY <1>1, <1>2, <1>3, RemoveAtShifts
<1>5. DOMAIN w = 1..Len(s) - 1
  BY <1>4
<1> DEFINE from(x) == IF x < i THEN x ELSE x + 1
<1>6. \A x \in 1..Len(s) - 1 : from(x) \in (1..Len(s)) \ {i} /\ w[x] = s[from(x)]
  BY <1>1, <1>2, <1>4
<1>7. \A y \in (1..Len(s)) \ {i} : \E x \in 1..Len(s) - 1 : y = from(x)
  <2>1. ASSUME NEW y \in (1..Len(s)) \ {i}
        PROVE  \E x \in 1..Len(s) - 1 : y = from(x)
    <3>1. CASE y < i
      <4>1. y \in 1..Len(s) - 1 /\ y = from(y)
        BY <1>1, <1>2, <3>1
      <4> QED BY <4>1
    <3>2. CASE y > i
      <4>1. y - 1 \in 1..Len(s) - 1 /\ y = from(y - 1)
        BY <1>1, <1>2, <3>2
      <4> QED BY <4>1
    <3> QED BY <1>1, <1>2, <3>1, <3>2
  <2> QED BY <2>1
<1>8. \A x \in 1..Len(s) - 1, y \in 1..Len(s) - 1 : from(x) = from(y) => x = y
  BY <1>1, <1>2
<1> HIDE DEF from
<1>9. ToSet(w) = ToSet(s) \ {n}
  <2>1. ASSUME NEW e \in ToSet(w) PROVE e \in ToSet(s) \ {n}
    <3>1. PICK x \in 1..Len(s) - 1 : e = w[x]
      BY <1>5 DEF ToSet
    <3> QED BY <3>1, <1>1, <1>2, <1>6 DEF ToSet
  <2>2. ASSUME NEW e \in ToSet(s) \ {n} PROVE e \in ToSet(w)
    <3>1. PICK y \in (1..Len(s)) \ {i} : e = s[y]
      BY <1>1, <1>2 DEF ToSet
    <3>2. PICK x \in 1..Len(s) - 1 : y = from(x)
      BY <1>7
    <3> QED BY <3>1, <3>2, <1>5, <1>6 DEF ToSet
  <2> QED BY <2>1, <2>2
<1>10. IsInjective(w)
  BY <1>1, <1>5, <1>6, <1>8 DEF IsInjective
<1> QED BY <1>4, <1>9, <1>10 DEF ListOK, w

\* emplace_back of a node that is not in the list.
LEMMA AppendAdds ==
  ASSUME NEW s, ListOK(s), NEW n \in Ids, n \notin ToSet(s)
  PROVE  /\ ListOK(Append(s, n))
         /\ ToSet(Append(s, n)) = ToSet(s) \cup {n}
         /\ Append(s, n) # <<>>
<1> DEFINE a == Append(s, n)
<1>1. s \in Seq(Ids) /\ Len(s) \in Nat /\ DOMAIN s = 1..Len(s)
  BY DEF ListOK
<1>2. /\ a \in Seq(Ids) /\ Len(a) = Len(s) + 1 /\ a # <<>>
      /\ \A j \in 1..Len(s) : a[j] = s[j]
      /\ a[Len(s) + 1] = n /\ DOMAIN a = 1..Len(s) + 1
  BY <1>1, AppendProperties
<1> HIDE DEF a
<1>3. 1..Len(s) + 1 = (1..Len(s)) \cup {Len(s) + 1}
  BY <1>1
<1>4. ToSet(a) = ToSet(s) \cup {n}
  BY <1>1, <1>2, <1>3 DEF ToSet
<1>5. \A j \in 1..Len(s) : s[j] # n
  BY <1>1 DEF ToSet
<1>6. IsInjective(a)
  BY <1>1, <1>2, <1>3, <1>5 DEF IsInjective, ListOK
<1> QED BY <1>2, <1>4, <1>6 DEF ListOK, a

LEMMA LengthOfRest ==
  ASSUME NEW len \in Nat, NEW k \in Nat, k <= len
  PROVE  (IF k + 1 <= len THEN len - (k + 1) + 1 ELSE 0) = len - k
  OBVIOUS

\* A batch taken from the front and what stays are parts of the list.
LEMMA SplitParts ==
  ASSUME NEW s, ListOK(s), NEW k \in Nat, k <= Len(s)
  PROVE  /\ ListOK(SubSeq(s, 1, k)) /\ Len(SubSeq(s, 1, k)) = k
         /\ ListOK(SubSeq(s, k + 1, Len(s)))
         /\ ToSet(SubSeq(s, k + 1, Len(s))) = ToSet(s) \ ToSet(SubSeq(s, 1, k))
         /\ ToSet(SubSeq(s, 1, k)) \subseteq ToSet(s)
<1> DEFINE head == SubSeq(s, 1, k)
           tail == SubSeq(s, k + 1, Len(s))
<1>0. head = SubSeq(s, 1, k) /\ tail = SubSeq(s, k + 1, Len(s))
  OBVIOUS
<1> HIDE DEF head, tail
<1>1. s \in Seq(Ids) /\ Len(s) \in Nat /\ DOMAIN s = 1..Len(s)
      /\ \A x \in 1..Len(s), y \in 1..Len(s) : s[x] = s[y] => x = y
  BY DEF ListOK, IsInjective
<1>2. /\ head \in Seq(Ids) /\ Len(head) = k /\ DOMAIN head = 1..k
      /\ \A j \in 1..k : head[j] = s[j]
  BY <1>0, <1>1, SubSeqProperties
<1>3. /\ tail \in Seq(Ids) /\ Len(tail) = Len(s) - k /\ DOMAIN tail = 1..Len(s) - k
      /\ \A j \in 1..Len(s) - k : tail[j] = s[k + j]
  <2> DEFINE m == k + 1
  <2>0. k \in Nat /\ k <= Len(s)
    BY <1>1
  <2>1. /\ m \in Int /\ Len(s) \in Int
        /\ \A j \in m..Len(s) : j \in 1..Len(s)
        /\ Len(s) - m + 1 = Len(s) - k /\ Len(s) - k \in Nat
        /\ (IF m <= Len(s) THEN Len(s) - m + 1 ELSE 0) = Len(s) - k
        /\ \A j \in 1..Len(s) - k : m + j - 1 = k + j
    <3>1. m \in Int /\ Len(s) \in Int /\ Len(s) - k \in Nat
      BY <1>1, <2>0
    <3>2. \A j \in m..Len(s) : j \in 1..Len(s)
      BY <1>1, <2>0
    <3>3. Len(s) - m + 1 = Len(s) - k
      BY <1>1, <2>0
    <3>4. (IF m <= Len(s) THEN Len(s) - m + 1 ELSE 0) = Len(s) - k
      BY <1>1, <2>0, LengthOfRest
    <3>5. \A j \in 1..Len(s) - k : m + j - 1 = k + j
      BY <1>1, <2>0
    <3> QED BY <3>1, <3>2, <3>3, <3>4, <3>5
  <2>2. tail = SubSeq(s, m, Len(s))
    BY <1>0
  <2> HIDE DEF m
  <2>3. \A j \in m..Len(s) : s[j] \in Ids
    <3>1. \A j \in 1..Len(s) : s[j] \in Ids
      BY <1>1, ElementOfSeq
    <3> QED BY <2>1, <3>1
  <2>4. /\ tail \in Seq(Ids)
        /\ Len(tail) = (IF m <= Len(s) THEN Len(s) - m + 1 ELSE 0)
        /\ \A j \in 1..Len(s) - m + 1 : tail[j] = s[m + j - 1]
    BY <2>1, <2>2, <2>3, SubSeqProperties
  <2>5. Len(tail) = Len(s) - k /\ DOMAIN tail = 1..Len(s) - k
    BY <2>1, <2>4
  <2>6. \A j \in 1..Len(s) - k : tail[j] = s[k + j]
    BY <2>1, <2>4
  <2> QED BY <2>4, <2>5, <2>6
<1>4. IsInjective(head)
  BY <1>1, <1>2 DEF IsInjective
<1>10. IsInjective(tail)
  <2>1. ASSUME NEW x \in 1..Len(s) - k, NEW y \in 1..Len(s) - k, tail[x] = tail[y]
        PROVE  x = y
    <3>1. k + x \in 1..Len(s) /\ k + y \in 1..Len(s)
      BY <1>1
    <3>2. s[k + x] = s[k + y]
      BY <1>3, <2>1
    <3>3. k + x = k + y
      BY <1>1, <3>1, <3>2
    <3> QED BY <3>3
  <2> QED BY <2>1, <1>3 DEF IsInjective
<1>5. ToSet(head) = {s[j] : j \in 1..k}
  BY <1>2 DEF ToSet
<1>6. ToSet(tail) = {s[j] : j \in k + 1..Len(s)}
  <2>1. ASSUME NEW j \in k + 1..Len(s) PROVE s[j] \in ToSet(tail)
    <3>1. j - k \in 1..Len(s) - k /\ k + (j - k) = j
      BY <1>1
    <3>2. tail[j - k] = s[j]
      BY <1>3, <3>1
    <3> QED BY <3>1, <3>2, <1>3 DEF ToSet
  <2>2. ASSUME NEW j \in 1..Len(s) - k PROVE tail[j] \in {s[x] : x \in k + 1..Len(s)}
    <3>1. k + j \in k + 1..Len(s)
      BY <1>1
    <3>2. tail[j] = s[k + j]
      BY <1>3
    <3> QED BY <3>1, <3>2
  <2> QED BY <2>1, <2>2, <1>3 DEF ToSet
<1>7. ToSet(s) = {s[j] : j \in 1..Len(s)}
  BY <1>1 DEF ToSet
<1>8. ToSet(tail) = ToSet(s) \ ToSet(head)
  <2>1. 1..Len(s) = (1..k) \cup (k + 1..Len(s))
    BY <1>1
  <2>2. \A i \in 1..k, j \in k + 1..Len(s) :
          i \in 1..Len(s) /\ j \in 1..Len(s) /\ i # j
    BY <1>1
  <2>3. \A i \in 1..k, j \in k + 1..Len(s) : s[i] # s[j]
    BY <1>1, <2>2
  <2> QED BY <1>5, <1>6, <1>7, <2>1, <2>3
<1>9. ToSet(head) \subseteq ToSet(s)
  BY <1>1, <1>5, <1>7
<1> QED BY <1>2, <1>3, <1>4, <1>8, <1>9, <1>10 DEF ListOK, head, tail

-----------------------------------------------------------------------------

(* The steps.                                                              *)

\* Whatever is queued stays queued or is browsed, and a batch starts only when
\* none is under way.
LEMMA FetchPendingNodesResult ==
  ASSUME NEW queue, ListOK(queue), NEW count \in {0, 1}, NEW called, ListOK(called),
         Len(called) <= MaxFetchChildCount, called # <<>> => count = 1,
         FetchPendingNodes(queue, ToSet(queue), count, called)
  PROVE  /\ ListOK(pending') /\ pending_set' = ToSet(pending')
         /\ ListOK(browsing') /\ Len(browsing') <= MaxFetchChildCount
         /\ requests' \in {0, 1}
         /\ pending' # <<>> => requests' = 1
         /\ browsing' # <<>> => requests' = 1
         /\ count = 1 => pending' = queue /\ browsing' = called
         /\ ToSet(queue) \cup ToSet(called) = pending_set' \cup ToSet(browsing')
<1>1. CASE count = 0 /\ queue # <<>>
  <2> DEFINE k == IF Len(queue) < MaxFetchChildCount THEN Len(queue) ELSE MaxFetchChildCount
  <2>1. /\ pending' = SubSeq(queue, k + 1, Len(queue))
        /\ pending_set' = ToSet(queue) \ ToSet(SubSeq(queue, 1, k))
        /\ browsing' = SubSeq(queue, 1, k)
        /\ requests' = 1
    BY <1>1 DEF FetchPendingNodes
  <2>2. k \in Nat /\ k <= Len(queue) /\ k <= MaxFetchChildCount
    <3>1. Len(queue) \in Nat /\ MaxFetchChildCount \in Nat
      BY ChildrenAssumption DEF ChildrenAssumption, ListOK
    <3> QED BY <3>1
  <2> HIDE DEF k
  <2>3. /\ ListOK(browsing') /\ Len(browsing') = k /\ ListOK(pending')
        /\ ToSet(pending') = ToSet(queue) \ ToSet(browsing')
        /\ ToSet(browsing') \subseteq ToSet(queue)
    BY <2>1, <2>2, SplitParts
  <2>4. called = <<>> /\ ToSet(called) = {}
    BY <1>1 DEF ToSet
  <2> QED BY <1>1, <2>1, <2>2, <2>3, <2>4
<1>2. CASE ~(count = 0 /\ queue # <<>>)
  <2>1. pending' = queue /\ pending_set' = ToSet(queue) /\ browsing' = called /\ requests' = count
    BY <1>2 DEF FetchPendingNodes
  <2> QED BY <1>2, <2>1
<1> QED BY <1>1, <1>2

\* An idle fetcher has no results.
LEMMA IdleHasNoResults ==
  ASSUME ChildrenInv, ToSet(browsing) = {}
  PROVE  DOMAIN browsed = {} /\ DOMAIN merged = {}
  BY DEF ChildrenInv, AnswersOK, ResultsOK

LEMMA InitEstablishes == Init => ChildrenInv
<1> SUFFICES ASSUME Init PROVE ChildrenInv
  OBVIOUS
<1>1. ListOK(<<>>) /\ ToSet(<<>>) = {} /\ Len(<<>>) = 0
  BY EmptySeq DEF ListOK, IsInjective, ToSet
<1>2. QueueOK
  BY <1>1, ChildrenAssumption DEF Init, QueueOK, ChildrenAssumption
<1>3. AnswersOK
  BY DEF Init, AnswersOK, ResultsOK, Nothing
<1>4. ClientOK
  BY DEF Init, ClientOK, Never
<1>5. ASSUME NEW n \in Ids PROVE FreshEnough(n)
  BY <1>1, <1>5 DEF Init, FreshEnough, UnderWay, Nothing, Never
<1> QED BY <1>2, <1>3, <1>4, <1>5 DEF ChildrenInv

\* A node that is browsed already is queued again: the answer may be older.
LEMMA FetchKeeps ==
  ASSUME ChildrenInv, NEW n \in Ids, Fetch(n)
  PROVE  ChildrenInv'
<1>1. /\ wanted' = [wanted EXCEPT ![n] = children[n]]
      /\ UNCHANGED <<children, browsed, merged, handed, panic>>
  BY DEF Fetch
<1>2. QueueOK /\ AnswersOK /\ ClientOK /\ \A m \in Ids : FreshEnough(m)
  BY DEF ChildrenInv
<1>3. /\ QueueOK' /\ n \in pending_set' \cup ToSet(browsing')
      /\ n \in pending_set' \/ ToSet(browsing) = {}
      /\ ToSet(browsing) = {} \/ browsing' = browsing
      /\ pending_set' \cup ToSet(browsing') = pending_set \cup ToSet(browsing) \cup {n}
      /\ ToSet(browsing) # {} => pending_set' = pending_set \cup {n}
  <2>1. CASE n \in pending_set
    BY <1>1, <1>2, <2>1 DEF Fetch, QueueOK
  <2>2. CASE n \notin pending_set
    <3> DEFINE queue == Append(pending, n)
    <3>1. /\ ListOK(queue) /\ ToSet(queue) = pending_set \cup {n} /\ queue # <<>>
      BY <1>2, <2>2, AppendAdds DEF QueueOK
    <3>2. FetchPendingNodes(queue, pending_set \cup {n}, requests, browsing)
      BY <2>2 DEF Fetch
    <3> HIDE DEF queue
    <3>3. FetchPendingNodes(queue, ToSet(queue), requests, browsing)
      BY <3>1, <3>2
    <3>4. /\ ListOK(pending') /\ pending_set' = ToSet(pending')
          /\ ListOK(browsing') /\ Len(browsing') <= MaxFetchChildCount
          /\ requests' \in {0, 1}
          /\ pending' # <<>> => requests' = 1
          /\ browsing' # <<>> => requests' = 1
          /\ requests = 1 => pending' = queue /\ browsing' = browsing
          /\ ToSet(queue) \cup ToSet(browsing) = pending_set' \cup ToSet(browsing')
      BY <1>2, <3>1, <3>3, FetchPendingNodesResult DEF QueueOK
    <3>5. requests = 0 => ToSet(browsing) = {}
      BY <1>2 DEF QueueOK, ToSet
    <3>6. requests \in {0, 1}
      BY <1>2 DEF QueueOK
    <3> QED BY <1>1, <1>2, <3>1, <3>4, <3>5, <3>6 DEF QueueOK
  <2> QED BY <2>1, <2>2
<1>4. AnswersOK'
  <2>1. CASE ToSet(browsing) = {}
    BY <1>1, <1>2, <2>1, IdleHasNoResults DEF AnswersOK, ResultsOK
  <2>2. CASE browsing' = browsing
    BY <1>1, <1>2, <2>2 DEF AnswersOK
  <2> QED BY <1>3, <2>1, <2>2
<1>5. ClientOK'
  BY <1>1, <1>2 DEF ClientOK, Never
<1>6. ASSUME NEW m \in Ids
      PROVE  FreshEnough(m)'
  <2>1. m # n => wanted'[m] = wanted[m]
    BY <1>1, <1>2 DEF ClientOK
  <2>2. CASE ToSet(browsing) = {}
    <3>1. DOMAIN browsed = {} /\ DOMAIN merged = {}
      BY <2>2, IdleHasNoResults
    <3> QED BY <1>1, <1>2, <1>3, <2>1, <2>2, <3>1 DEF FreshEnough, UnderWay
  <2>3. CASE ToSet(browsing) # {}
    BY <1>1, <1>2, <1>3, <2>1, <2>3 DEF FreshEnough, UnderWay
  <2> QED BY <2>2, <2>3
<1> QED BY <1>3, <1>4, <1>5, <1>6 DEF ChildrenInv

\* The queue and its set agree, so that the Check of Cancel holds.
LEMMA CancelKeeps ==
  ASSUME ChildrenInv, NEW n \in Ids, Cancel(n)
  PROVE  ChildrenInv'
<1>1. QueueOK /\ AnswersOK /\ ClientOK /\ \A m \in Ids : FreshEnough(m)
  BY DEF ChildrenInv
<1>2. /\ n \in ToSet(pending) /\ pending_set' = pending_set \ {n}
      /\ pending' = Without(pending, n)
      /\ wanted' = [wanted EXCEPT ![n] = Never]
      /\ UNCHANGED <<children, requests, browsing, browsed, merged, handed, panic>>
  BY <1>1 DEF Cancel, QueueOK, callVars
<1>3. ListOK(pending') /\ ToSet(pending') = pending_set'
  BY <1>1, <1>2, WithoutRemoves DEF QueueOK
<1>4. pending # <<>>
  BY <1>2 DEF ToSet
<1>5. QueueOK'
  BY <1>1, <1>2, <1>3, <1>4 DEF QueueOK
<1>6. AnswersOK'
  BY <1>1, <1>2 DEF AnswersOK
<1>7. ClientOK'
  BY <1>1, <1>2 DEF ClientOK, Never
<1>8. ASSUME NEW m \in Ids
      PROVE  FreshEnough(m)'
  <2>1. CASE m = n
    <3>1. wanted'[m] = Never /\ handed[m].children >= Never
      BY <1>1, <1>2, <2>1 DEF ClientOK
    <3>2. m \in DOMAIN merged => merged[m].children >= Never
      BY <1>1 DEF AnswersOK, ResultsOK, Never
    <3>3. m \in DOMAIN browsed => browsed[m].children >= Never
      BY <1>1 DEF AnswersOK, ResultsOK, Never
    <3> QED BY <1>2, <3>1, <3>2, <3>3 DEF FreshEnough, UnderWay
  <2>2. CASE m # n
    <3>1. wanted'[m] = wanted[m] /\ (m \in pending_set' <=> m \in pending_set)
      BY <1>1, <1>2, <2>2 DEF ClientOK
    <3> QED BY <1>1, <1>2, <3>1 DEF FreshEnough, UnderWay
  <2> QED BY <2>1, <2>2
<1> QED BY <1>5, <1>6, <1>7, <1>8 DEF ChildrenInv

\* The answer shows the children as they are now.
LEMMA ServerAnswersKeeps ==
  ASSUME ChildrenInv, ServerAnswers
  PROVE  ChildrenInv'
<1>1. QueueOK /\ AnswersOK /\ ClientOK /\ \A m \in Ids : FreshEnough(m)
  BY DEF ChildrenInv
<1>2. PICK statuses \in [ToSet(browsing) -> {Good, Bad} \X {Good, Bad}] :
        browsed' = [n \in ToSet(browsing) |-> [children |-> children[n], status |-> statuses[n]]]
  BY DEF ServerAnswers
<1>3. /\ DOMAIN merged = {} /\ DOMAIN browsed = {}
      /\ UNCHANGED <<children, pending, pending_set, requests, browsing, merged, handed, wanted,
                     panic>>
  BY DEF ServerAnswers, Nothing, queueVars
<1>4. ToSet(browsing) \subseteq Ids
  BY <1>1 DEF QueueOK, ListOK, ToSet
<1>5. QueueOK'
  BY <1>1, <1>3 DEF QueueOK
<1>6. AnswersOK'
  <2>1. ResultsOK(browsed', {Good, Bad} \X {Good, Bad}, browsing)
    <3>1. \A n \in ToSet(browsing) : children[n] \in Nat
      BY <1>1, <1>4 DEF ClientOK
    <3> QED BY <1>2, <3>1 DEF ResultsOK
  <2> QED BY <1>1, <1>3, <2>1 DEF AnswersOK
<1>7. ClientOK'
  BY <1>1, <1>3 DEF ClientOK
<1>8. ASSUME NEW m \in Ids
      PROVE  FreshEnough(m)'
  BY <1>1, <1>2, <1>3 DEF FreshEnough, UnderWay, ClientOK
<1> QED BY <1>5, <1>6, <1>7, <1>8 DEF ChildrenInv

LEMMA OnBrowseChildrenResultKeeps ==
  ASSUME ChildrenInv, OnBrowseChildrenResult
  PROVE  ChildrenInv'
<1>1. QueueOK /\ AnswersOK /\ ClientOK /\ \A m \in Ids : FreshEnough(m)
  BY DEF ChildrenInv
<1>2. /\ browsed # Nothing
      /\ panic' = (panic \/ browsing = <<>>)
      /\ merged' = [n \in DOMAIN browsed |-> MergeResult(browsed[n])]
      /\ DOMAIN browsed' = {} /\ browsed' = Nothing
      /\ UNCHANGED <<children, pending, pending_set, requests, browsing, handed, wanted>>
  BY DEF OnBrowseChildrenResult, Nothing, queueVars
<1>3. DOMAIN browsed = ToSet(browsing) /\ browsing # <<>> /\ DOMAIN merged = {}
  <2>1. browsed = [n \in DOMAIN browsed |-> browsed[n]]
    BY <1>1 DEF AnswersOK, ResultsOK
  <2>2. DOMAIN browsed # {}
    BY <1>2, <2>1 DEF Nothing
  <2>3. ToSet(<<>>) = {}
    BY DEF ToSet
  <2> QED BY <1>1, <2>2, <2>3 DEF AnswersOK, ResultsOK
<1>4. ASSUME NEW n \in DOMAIN browsed
      PROVE  /\ merged'[n].children = browsed[n].children
             /\ merged'[n] \in [children : Nat, status : {Good, Bad}]
  <2>1. browsed[n] \in [children : Nat, status : {Good, Bad} \X {Good, Bad}]
    BY <1>1 DEF AnswersOK, ResultsOK
  <2> DEFINE result == browsed[n]
             status == IF result.status[1] = Bad THEN result.status[2] ELSE result.status[1]
  <2>2. merged'[n] = [result EXCEPT !.status = status]
    BY <1>2 DEF MergeResult
  <2>3. status \in {Good, Bad}
    BY <2>1
  <2> HIDE DEF status
  <2> QED BY <2>1, <2>2, <2>3
<1>5. QueueOK'
  BY <1>1, <1>2, <1>3 DEF QueueOK
<1>6. AnswersOK'
  <2>1. ResultsOK(merged', {Good, Bad}, browsing)
    BY <1>2, <1>3, <1>4 DEF ResultsOK
  <2>2. ResultsOK(browsed', {Good, Bad} \X {Good, Bad}, browsing)
    BY <1>2 DEF ResultsOK, Nothing
  <2> QED BY <1>2, <2>1, <2>2 DEF AnswersOK
<1>7. ClientOK'
  BY <1>1, <1>2 DEF ClientOK
<1>8. ASSUME NEW m \in Ids
      PROVE  FreshEnough(m)'
  BY <1>1, <1>2, <1>3, <1>4 DEF FreshEnough, UnderWay
<1> QED BY <1>5, <1>6, <1>7, <1>8 DEF ChildrenInv

\* What is handed over is as fresh as it was.
LEMMA HandOverKeeps ==
  ASSUME ChildrenInv, NEW n \in Ids, HandOver(n)
  PROVE  ChildrenInv'
<1>1. QueueOK /\ AnswersOK /\ ClientOK /\ \A m \in Ids : FreshEnough(m)
  BY DEF ChildrenInv
<1>2. /\ n \in DOMAIN merged
      /\ handed' = [handed EXCEPT ![n] = merged[n]]
      /\ merged' = [m \in DOMAIN merged \ {n} |-> merged[m]]
      /\ browsing' = Without(browsing, n)
      /\ UNCHANGED <<children, pending, pending_set, requests, browsed, wanted, panic>>
  BY DEF HandOver, Restrict, queueVars
<1>3. DOMAIN merged = ToSet(browsing) /\ DOMAIN browsed = {}
  BY <1>1, <1>2 DEF AnswersOK, ResultsOK
<1>4. /\ ListOK(browsing') /\ ToSet(browsing') = ToSet(browsing) \ {n}
      /\ Len(browsing') = Len(browsing) - 1
  BY <1>1, <1>2, <1>3, WithoutRemoves DEF QueueOK
<1>5. QueueOK'
  <2>1. Len(browsing) \in Nat /\ MaxFetchChildCount \in Nat
    BY <1>1, ChildrenAssumption DEF QueueOK, ListOK, ChildrenAssumption
  <2>2. Len(browsing') <= MaxFetchChildCount
    BY <1>1, <1>4, <2>1 DEF QueueOK
  <2>3. browsing # <<>>
    BY <1>2, <1>3 DEF ToSet
  <2> QED BY <1>1, <1>2, <1>4, <2>2, <2>3 DEF QueueOK
<1>6. AnswersOK'
  <2>1. ResultsOK(merged', {Good, Bad}, browsing')
    BY <1>1, <1>2, <1>3, <1>4 DEF AnswersOK, ResultsOK
  <2>2. ResultsOK(browsed, {Good, Bad} \X {Good, Bad}, browsing')
    BY <1>1, <1>3 DEF AnswersOK, ResultsOK
  <2> QED BY <1>2, <1>3, <2>1, <2>2 DEF AnswersOK
<1>7. merged[n].children \in Nat
  BY <1>1, <1>2 DEF AnswersOK, ResultsOK
<1>8. ClientOK'
  <2>1. handed' = [m \in Ids |-> handed'[m]]
    BY <1>1, <1>2 DEF ClientOK
  <2>2. ASSUME NEW m \in Ids
        PROVE  handed'[m].children \in Int /\ handed'[m].children >= Never
    <3>1. handed'[m] = IF m = n THEN merged[n] ELSE handed[m]
      BY <1>1, <1>2 DEF ClientOK
    <3> QED BY <1>1, <1>7, <3>1 DEF ClientOK, Never
  <2> QED BY <1>1, <1>2, <2>1, <2>2 DEF ClientOK
<1>9. ASSUME NEW m \in Ids
      PROVE  FreshEnough(m)'
  <2>1. handed'[m] = IF m = n THEN merged[n] ELSE handed[m]
    BY <1>1, <1>2 DEF ClientOK
  <2>2. FreshEnough(m)
    BY <1>1
  <2>3. CASE m = n
    BY <1>2, <1>3, <1>4, <2>1, <2>2, <2>3 DEF FreshEnough, UnderWay
  <2>4. CASE m # n
    BY <1>2, <1>3, <1>4, <2>1, <2>2, <2>4 DEF FreshEnough, UnderWay
  <2> QED BY <2>3, <2>4
<1> QED BY <1>5, <1>6, <1>8, <1>9 DEF ChildrenInv

\* A batch that was handed over makes room for the next.
LEMMA RequestEndsKeeps ==
  ASSUME ChildrenInv, RequestEnds
  PROVE  ChildrenInv'
<1>1. QueueOK /\ AnswersOK /\ ClientOK /\ \A m \in Ids : FreshEnough(m)
  BY DEF ChildrenInv
<1>2. /\ requests = 1 /\ browsing = <<>>
      /\ FetchPendingNodes(pending, ToSet(pending), 0, <<>>)
      /\ UNCHANGED <<children, browsed, merged, handed, wanted, panic>>
  BY <1>1 DEF RequestEnds, QueueOK
<1>3. ToSet(browsing) = {} /\ ListOK(browsing) /\ Len(browsing) <= MaxFetchChildCount
  BY <1>1, <1>2 DEF ToSet, QueueOK
<1>4. DOMAIN browsed = {} /\ DOMAIN merged = {}
  BY <1>3, IdleHasNoResults
<1>5. /\ ListOK(pending') /\ pending_set' = ToSet(pending')
      /\ ListOK(browsing') /\ Len(browsing') <= MaxFetchChildCount
      /\ requests' \in {0, 1}
      /\ pending' # <<>> => requests' = 1
      /\ browsing' # <<>> => requests' = 1
      /\ ToSet(pending) \cup ToSet(browsing) = pending_set' \cup ToSet(browsing')
  BY <1>1, <1>2, <1>3, FetchPendingNodesResult DEF QueueOK
<1>6. QueueOK'
  BY <1>1, <1>2, <1>5 DEF QueueOK
<1>7. AnswersOK'
  BY <1>1, <1>2, <1>4 DEF AnswersOK, ResultsOK
<1>8. ClientOK'
  BY <1>1, <1>2 DEF ClientOK
<1>9. ASSUME NEW m \in Ids
      PROVE  FreshEnough(m)'
  BY <1>1, <1>2, <1>3, <1>4, <1>5 DEF FreshEnough, UnderWay, QueueOK
<1> QED BY <1>6, <1>7, <1>8, <1>9 DEF ChildrenInv

LEMMA ChildrenChangeKeeps ==
  ASSUME ChildrenInv, NEW n \in Ids, ChildrenChange(n)
  PROVE  ChildrenInv'
<1>1. /\ children' = [children EXCEPT ![n] = @ + 1]
      /\ UNCHANGED <<pending, pending_set, requests, browsing, browsed, merged, handed, wanted,
                     panic>>
  BY DEF ChildrenChange, queueVars, callVars
<1>2. QueueOK' /\ AnswersOK'
  BY <1>1 DEF ChildrenInv, QueueOK, AnswersOK
<1>3. ClientOK'
  <2>1. children' \in [Ids -> Nat] /\ \A m \in Ids : children[m] <= children'[m]
    BY <1>1 DEF ChildrenInv, ClientOK
  <2>2. \A m \in Ids : wanted[m] <= children'[m]
    BY <2>1 DEF ChildrenInv, ClientOK
  <2> QED BY <1>1, <2>1, <2>2 DEF ChildrenInv, ClientOK
<1>4. ASSUME NEW m \in Ids
      PROVE  FreshEnough(m)'
  BY <1>1 DEF ChildrenInv, FreshEnough, UnderWay
<1> QED BY <1>2, <1>3, <1>4 DEF ChildrenInv

LEMMA StepKeeps ==
  ASSUME ChildrenInv, [Next]_vars
  PROVE  ChildrenInv'
<1>1. ASSUME NEW n \in Ids, Fetch(n) \/ Cancel(n) \/ HandOver(n) \/ ChildrenChange(n)
      PROVE  ChildrenInv'
  BY <1>1, FetchKeeps, CancelKeeps, HandOverKeeps, ChildrenChangeKeeps
<1>2. CASE ServerAnswers
  BY <1>2, ServerAnswersKeeps
<1>3. CASE OnBrowseChildrenResult
  BY <1>3, OnBrowseChildrenResultKeeps
<1>4. CASE RequestEnds
  BY <1>4, RequestEndsKeeps
<1>5. CASE UNCHANGED vars
  BY <1>5 DEF vars, queueVars, callVars, ChildrenInv, QueueOK, AnswersOK, ClientOK, FreshEnough,
              UnderWay
<1> QED BY <1>1, <1>2, <1>3, <1>4, <1>5 DEF Next

-----------------------------------------------------------------------------
(* The theorems.                                                           *)

\* The queue, the batch, its results and what was handed over, for every
\* sequence of calls and answers.
THEOREM ChildrenInvariant == Spec => []ChildrenInv
<1>1. ChildrenInv /\ [Next]_vars => ChildrenInv'
  BY StepKeeps
<1> QED BY <1>1, InitEstablishes, PTL DEF Spec

\* Whoever calls Fetch is handed the children as of then or later, also when
\* the node's Browse is under way or being handed over at the call; and no
\* Check of the fetcher fails.
THEOREM EveryAskIsKept == Spec => []EveryAskIsOnItsWay
<1>1. ChildrenInv => EveryAskIsOnItsWay
  BY DEF ChildrenInv, QueueOK, ListOK, EveryAskIsOnItsWay
<1> QED BY <1>1, ChildrenInvariant, PTL
=============================================================================
