-------------------------- MODULE AddressSpace_proofs --------------------------
(***************************************************************************)
(* For every set of nodes, every standard space, every static file in any  *)
(* order, and whatever clients create, link, modify and delete.            *)
(*                                                                         *)
(* First lists and recursive functions: Through, Kept and the chains of    *)
(* supertypes have the values their equations say. Then what operations do *)
(* to a space, twice: Closed(K) is any set of spaces that may be given a   *)
(* reference, a value and a node, and carries a property through creation  *)
(* and loading at once; Standing(k) are the spaces between the steps of an *)
(* operation that began with the references k.                             *)
(*                                                                         *)
(* Two conditions are left to callers, as in the code: nothing in use is   *)
(* deleted (NothingInUseIsDeleted), and references are of rooted types     *)
(* (ReferencesAreRooted).                                                  *)
(***************************************************************************)
EXTENDS AddressSpace, FiniteSetTheorems, SequenceTheorems, NaturalsInduction,
        WellFoundedInduction, TLAPS

-----------------------------------------------------------------------------
(* Induction and recursion over the numbers up to N.                       *)

\* Every set of natural numbers but the empty one has a least element.
LEMMA LeastElement ==
  ASSUME NEW S \in SUBSET Nat, S # {}
  PROVE  \E m \in S : \A y \in S : m <= y
<1> DEFINE R == OpToRel(<, Nat)
<1>1. IsWellFoundedOn(R, Nat)
  BY NatLessThanWellFounded
<1>2. \A y \in Nat, m \in Nat : <<y, m>> \in R <=> y < m
  BY DEF OpToRel
<1> HIDE DEF R
<1>3. PICK m \in S : \A y \in S : ~(<<y, m>> \in R)
  BY <1>1, WFMin
<1>4. \A y \in S : m \in Nat /\ y \in Nat
  BY <1>3
<1>5. ASSUME NEW y \in S PROVE m <= y
  <2>1. ~(<<y, m>> \in R)
    BY <1>3
  <2>2. m \in Nat /\ y \in Nat
    BY <1>4
  <2>3. ~(y < m)
    BY <1>2, <2>1, <2>2
  <2>4. QED
    BY <2>2, <2>3
<1>6. QED
  BY <1>3, <1>5

\* A set that has 0 and with each number the next has them all.
LEMMA UpTo ==
  ASSUME NEW N \in Nat, NEW P,
         0 \in P, \A n \in 1..N : n - 1 \in P => n \in P
  PROVE  0..N \subseteq P
<1> DEFINE Missing == {n \in 0..N : n \notin P}
<1>1. SUFFICES ASSUME Missing # {} PROVE FALSE
  OBVIOUS
<1>2. Missing \in SUBSET Nat
  OBVIOUS
<1>3. PICK m \in Missing : \A y \in Missing : m <= y
  BY <1>1, <1>2, LeastElement
<1>4. m \in 1..N /\ m - 1 \in 0..N
  BY <1>3
<1>5. m - 1 \in P
  BY <1>3, <1>4
<1>6. QED
  BY <1>3, <1>4, <1>5

\* f goes from base as step says, up to k.
Goes(f, base, step, k) == f[0] = base /\ \A n \in 1..k : f[n] = step[<<f[n - 1], n>>]

\* A function that says how each value follows from the one before defines all.
LEMMA StepByStep ==
  ASSUME NEW S, NEW base \in S, NEW N \in Nat, NEW step \in [S \X (1..N) -> S]
  PROVE  \E f \in [0..N -> S] : Goes(f, base, step, N)
<1> DEFINE P == {k \in 0..N : \E f \in [0..k -> S] : Goes(f, base, step, k)}
<1>1. 0 \in P
  <2> DEFINE g == [i \in 0..0 |-> base]
  <2>1. g \in [0..0 -> S] /\ Goes(g, base, step, 0)
    BY DEF Goes
  <2> HIDE DEF g
  <2>2. QED
    BY <2>1
<1>2. ASSUME NEW k \in 1..N, k - 1 \in P PROVE k \in P
  <2>1. PICK f \in [0..(k - 1) -> S] : Goes(f, base, step, k - 1)
    BY <1>2
  <2> DEFINE g == [i \in 0..k |-> IF i = k THEN step[<<f[k - 1], k>>] ELSE f[i]]
  <2>2. f[k - 1] \in S /\ step[<<f[k - 1], k>>] \in S
    BY <1>2, <2>1
  <2>3. g \in [0..k -> S]
    BY <2>1, <2>2
  <2>4. g[0] = base /\ g[k] = step[<<f[k - 1], k>>] /\ \A i \in 0..(k - 1) : g[i] = f[i]
    BY <2>1 DEF Goes
  <2> HIDE DEF g
  <2>5. ASSUME NEW n \in 1..k PROVE g[n] = step[<<g[n - 1], n>>]
    <3>1. CASE n = k
      <4>1. g[k - 1] = f[k - 1]
        BY <2>4
      <4>2. QED
        BY <2>4, <3>1, <4>1
    <3>2. CASE n # k
      <4>1. n \in 1..(k - 1)
        BY <2>5, <3>2
      <4>2. n - 1 \in 0..(k - 1) /\ n \in 0..(k - 1)
        BY <4>1
      <4>3. g[n] = f[n] /\ g[n - 1] = f[n - 1]
        BY <2>4, <4>2
      <4>4. f[n] = step[<<f[n - 1], n>>]
        BY <2>1, <4>1 DEF Goes
      <4>5. QED
        BY <4>3, <4>4
    <3>3. QED
      BY <3>1, <3>2
  <2>6. Goes(g, base, step, k)
    BY <2>4, <2>5 DEF Goes
  <2>7. QED
    BY <2>3, <2>6
<1>3. 0..N \subseteq P
  <2> HIDE DEF P
  <2>1. QED
    BY <1>1, <1>2, UpTo
<1>4. N \in P
  BY <1>3
<1>5. QED
  BY <1>4

-----------------------------------------------------------------------------
(* Loops over a list.                                                      *)

\* The steps of a loop over elements in X stay in P.
StepsStay(step, P, X) == \A v \in P, x \in X : step[v][x] \in P

\* f says how far the loop of Through has come.
Loops(f, step, value, list) ==
  /\ f[0] = value
  /\ \A i \in 1..Len(list) : f[i] = step[f[i - 1]][list[i]]
  /\ Through(step, value, list) = f[Len(list)]

\* A loop has in P the values that its steps say.
LoopsIn(P, step, value, list) == \E f \in [0..Len(list) -> P] : Loops(f, step, value, list)

\* A loop whose steps stay in a set takes the values that its steps say.
LEMMA ThroughGoes ==
  ASSUME NEW P, NEW X, NEW step, StepsStay(step, P, X),
         NEW value \in P, NEW list \in Seq(X)
  PROVE  LoopsIn(P, step, value, list)
<1> DEFINE N == Len(list)
           along == [p \in P \X (1..N) |-> step[p[1]][list[p[2]]]]
           Def(g) == [i \in 0..N |-> IF i = 0 THEN value ELSE step[g[i - 1]][list[i]]]
           after == CHOOSE g : g = Def(g)
<1>1. N \in Nat /\ \A i \in 1..N : list[i] \in X
  OBVIOUS
<1>2. along \in [P \X (1..N) -> P]
  BY <1>1 DEF StepsStay
<1>3. \A v \in P, i \in 1..N : along[<<v, i>>] = step[v][list[i]]
  OBVIOUS
<1>4. Through(step, value, list) = after[N]
  BY DEF Through
<1> HIDE DEF along
<1>5. PICK f \in [0..N -> P] : Goes(f, value, along, N)
  BY <1>1, <1>2, StepByStep
<1>6. \A i \in 1..N : f[i] = step[f[i - 1]][list[i]]
  <2>1. ASSUME NEW i \in 1..N PROVE f[i] = step[f[i - 1]][list[i]]
    <3>1. i - 1 \in 0..N
      BY <1>1
    <3>2. f[i] = along[<<f[i - 1], i>>]
      BY <1>5 DEF Goes
    <3>3. QED
      BY <1>3, <1>5, <3>1, <3>2
  <2>2. QED
    BY <2>1
<1>7. f = Def(f)
  <2>1. ASSUME NEW i \in 0..N
        PROVE  f[i] = IF i = 0 THEN value ELSE step[f[i - 1]][list[i]]
    <3>1. CASE i = 0
      BY <1>5, <3>1 DEF Goes
    <3>2. CASE i # 0
      BY <1>1, <1>6, <3>2
    <3>3. QED
      BY <3>1, <3>2
  <2>2. QED
    BY <2>1
<1>8. after = Def(after)
  BY <1>7
<1> HIDE DEF after
<1>9. after[0] = value /\ \A i \in 1..N : after[i] = step[after[i - 1]][list[i]]
  BY <1>1, <1>8
<1>10. \A i \in 0..N : after[i] = f[i]
  <2> DEFINE Q == {i \in 0..N : after[i] = f[i]}
  <2>1. 0 \in Q
    BY <1>1, <1>5, <1>9 DEF Goes
  <2>2. ASSUME NEW i \in 1..N, i - 1 \in Q PROVE i \in Q
    BY <1>1, <1>6, <1>9, <2>2
  <2>3. 0..N \subseteq Q
    <3> HIDE DEF Q
    <3>1. QED
      BY <1>1, <2>1, <2>2, UpTo
  <2>4. QED
    BY <2>3
<1>11. Loops(f, step, value, list)
  BY <1>1, <1>4, <1>5, <1>6, <1>10 DEF Loops, Goes
<1>12. QED
  BY <1>11 DEF LoopsIn

\* A loop stays where its steps stay.
LEMMA ThroughStays ==
  ASSUME NEW P, NEW X, NEW step, StepsStay(step, P, X),
         NEW value \in P, NEW list \in Seq(X)
  PROVE  Through(step, value, list) \in P
<1>1. LoopsIn(P, step, value, list)
  BY ThroughGoes
<1>2. PICK f \in [0..Len(list) -> P] : Loops(f, step, value, list)
  BY <1>1 DEF LoopsIn
<1>3. QED
  BY <1>2 DEF Loops

\* A loop over no elements does nothing.
LEMMA ThroughNothing ==
  ASSUME NEW step, NEW value
  PROVE  Through(step, value, <<>>) = value
<1>1. StepsStay(step, {value}, {})
  BY DEF StepsStay
<1>2. <<>> \in Seq({}) /\ value \in {value}
  OBVIOUS
<1>3. Through(step, value, <<>>) \in {value}
  BY <1>1, <1>2, ThroughStays
<1>4. QED
  BY <1>3

\* A loop over one more element takes one more step.
LEMMA ThroughAppend ==
  ASSUME NEW P, NEW X, NEW step, StepsStay(step, P, X),
         NEW value \in P, NEW list \in Seq(X), NEW x \in X
  PROVE  Through(step, value, Append(list, x)) = step[Through(step, value, list)][x]
<1> DEFINE N == Len(list)
           longer == Append(list, x)
<1>1. /\ N \in Nat /\ longer \in Seq(X) /\ Len(longer) = N + 1
      /\ longer[N + 1] = x /\ \A i \in 1..N : longer[i] = list[i]
  OBVIOUS
<1> HIDE DEF longer
<1>2. PICK f \in [0..N -> P] : Loops(f, step, value, list)
  BY ThroughGoes DEF LoopsIn
<1>3. PICK g \in [0..Len(longer) -> P] : Loops(g, step, value, longer)
  <2>1. LoopsIn(P, step, value, longer)
    BY <1>1, ThroughGoes
  <2>2. QED
    BY <2>1 DEF LoopsIn
<1>4. g[N] = f[N]
  <2> DEFINE Q == {i \in 0..N : g[i] = f[i]}
  <2>1. 0 \in Q
    BY <1>1, <1>2, <1>3 DEF Loops
  <2>2. ASSUME NEW i \in 1..N, i - 1 \in Q PROVE i \in Q
    <3>1. i \in 1..Len(longer) /\ i \in 0..N
      BY <1>1
    <3>2. g[i] = step[g[i - 1]][list[i]]
      BY <1>1, <1>3, <3>1 DEF Loops
    <3>3. QED
      BY <1>2, <2>2, <3>1, <3>2 DEF Loops
  <2>3. 0..N \subseteq Q
    <3> HIDE DEF Q
    <3>1. QED
      BY <1>1, <2>1, <2>2, UpTo
  <2>4. QED
    BY <1>1, <2>3
<1>5. Through(step, value, longer) = step[g[N]][x]
  <2>1. N + 1 \in 1..Len(longer) /\ (N + 1) - 1 = N
    BY <1>1
  <2>2. QED
    BY <1>1, <1>3, <2>1 DEF Loops
<1>6. QED
  BY <1>2, <1>4, <1>5 DEF longer, Loops

\* Append adds its element and keeps the others.
LEMMA AppendAdds ==
  ASSUME NEW X, NEW list \in Seq(X), NEW e \in X
  PROVE  /\ Append(list, e) \in Seq(X) /\ Len(Append(list, e)) = Len(list) + 1
         /\ ToSet(Append(list, e)) = ToSet(list) \cup {e}
         /\ IsInjective(list) /\ e \notin ToSet(list) => IsInjective(Append(list, e))
<1> DEFINE a == Append(list, e)
<1>1. Len(list) \in Nat /\ DOMAIN list = 1..Len(list)
  OBVIOUS
<1>2. /\ a \in Seq(X) /\ Len(a) = Len(list) + 1
      /\ \A j \in 1..Len(list) : a[j] = list[j]
      /\ a[Len(list) + 1] = e /\ DOMAIN a = 1..Len(list) + 1
  BY <1>1, AppendProperties
<1> HIDE DEF a
<1>3. 1..Len(list) + 1 = (1..Len(list)) \cup {Len(list) + 1}
  BY <1>1
<1>4. ToSet(a) = ToSet(list) \cup {e}
  BY <1>1, <1>2, <1>3 DEF ToSet
<1>5. ASSUME IsInjective(list), e \notin ToSet(list) PROVE IsInjective(a)
  <2>1. \A j \in 1..Len(list) : list[j] # e
    BY <1>1, <1>5 DEF ToSet
  <2>2. QED
    BY <1>1, <1>2, <1>3, <1>5, <2>1 DEF IsInjective
<1>6. QED
  BY <1>2, <1>4, <1>5 DEF a

\* Kept keeps the elements that are wanted.
LEMMA KeptElements ==
  ASSUME NEW X, NEW list \in Seq(X), NEW W
  PROVE  /\ Kept(list, W) \in Seq(X)
         /\ ToSet(Kept(list, W)) = ToSet(list) \cap W
<1> DEFINE N == Len(list)
           step == [p \in Seq(X) \X (1..N) |->
                      IF list[p[2]] \in W THEN Append(p[1], list[p[2]]) ELSE p[1]]
           Def(g) == [i \in 0..N |->
                        IF i = 0 THEN <<>>
                        ELSE IF list[i] \in W THEN Append(g[i - 1], list[i]) ELSE g[i - 1]]
           kept == CHOOSE g : g = Def(g)
<1>1. N \in Nat /\ \A i \in 1..N : list[i] \in X
  OBVIOUS
<1>2. step \in [Seq(X) \X (1..N) -> Seq(X)]
  <2>1. ASSUME NEW p \in Seq(X) \X (1..N)
        PROVE  (IF list[p[2]] \in W THEN Append(p[1], list[p[2]]) ELSE p[1]) \in Seq(X)
    BY <1>1
  <2>2. QED
    BY <2>1
<1>3. \A l \in Seq(X), i \in 1..N :
        step[<<l, i>>] = IF list[i] \in W THEN Append(l, list[i]) ELSE l
  OBVIOUS
<1>4. Kept(list, W) = kept[N]
  BY DEF Kept
<1> HIDE DEF step
<1>5. PICK f \in [0..N -> Seq(X)] : Goes(f, <<>>, step, N)
  <2>1. <<>> \in Seq(X)
    OBVIOUS
  <2>2. QED
    BY <1>1, <1>2, <2>1, StepByStep
<1>6. f[0] = <<>> /\ \A i \in 1..N :
        f[i] = IF list[i] \in W THEN Append(f[i - 1], list[i]) ELSE f[i - 1]
  <2>1. ASSUME NEW i \in 1..N
        PROVE  f[i] = IF list[i] \in W THEN Append(f[i - 1], list[i]) ELSE f[i - 1]
    <3>1. i - 1 \in 0..N
      BY <1>1
    <3>2. f[i] = step[<<f[i - 1], i>>]
      BY <1>5 DEF Goes
    <3>3. QED
      BY <1>3, <1>5, <3>1, <3>2
  <2>2. QED
    BY <1>5, <2>1 DEF Goes
<1>7. f = Def(f)
  <2>1. ASSUME NEW i \in 0..N
        PROVE  f[i] = IF i = 0 THEN <<>>
                      ELSE IF list[i] \in W THEN Append(f[i - 1], list[i]) ELSE f[i - 1]
    <3>1. CASE i = 0
      BY <1>6, <3>1
    <3>2. CASE i # 0
      <4>1. i \in 1..N
        BY <1>1, <3>2
      <4>2. QED
        BY <1>6, <3>2, <4>1
    <3>3. QED
      BY <3>1, <3>2
  <2>2. QED
    BY <2>1
<1>8. kept = Def(kept)
  BY <1>7
<1> HIDE DEF kept
<1>9. kept[0] = <<>> /\ \A i \in 1..N :
        kept[i] = IF list[i] \in W THEN Append(kept[i - 1], list[i]) ELSE kept[i - 1]
  <2>1. 0 \in 0..N /\ \A i \in 1..N : i \in 0..N /\ i > 0
    BY <1>1
  <2>2. kept[0] = <<>>
    BY <1>8, <2>1
  <2>3. ASSUME NEW i \in 1..N
        PROVE  kept[i] = IF list[i] \in W THEN Append(kept[i - 1], list[i]) ELSE kept[i - 1]
    <3>1. i \in 0..N /\ i # 0
      BY <1>1
    <3>2. kept[i] = IF i = 0 THEN <<>>
                    ELSE IF list[i] \in W THEN Append(kept[i - 1], list[i]) ELSE kept[i - 1]
      BY <1>8, <3>1
    <3>3. QED
      BY <3>1, <3>2
  <2>4. QED
    BY <2>2, <2>3
<1> DEFINE Q == {i \in 0..N : /\ kept[i] \in Seq(X)
                              /\ ToSet(kept[i]) = {list[j] : j \in 1..i} \cap W}
<1>10. 0 \in Q
  <2>1. ToSet(<<>>) = {} /\ <<>> \in Seq(X)
    BY DEF ToSet
  <2>2. {list[j] : j \in 1..0} = {} /\ 0 \in 0..N
    BY <1>1
  <2>3. QED
    BY <1>9, <2>1, <2>2
<1>11. ASSUME NEW i \in 1..N, i - 1 \in Q PROVE i \in Q
  <2>1. kept[i - 1] \in Seq(X) /\ ToSet(kept[i - 1]) = {list[j] : j \in 1..(i - 1)} \cap W
    BY <1>11
  <2>2. {list[j] : j \in 1..i} = {list[j] : j \in 1..(i - 1)} \cup {list[i]}
    BY <1>1
  <2>3. CASE list[i] \in W
    <3>1. kept[i] = Append(kept[i - 1], list[i])
      BY <1>9, <2>3
    <3>2. kept[i] \in Seq(X)
      BY <1>1, <2>1, <3>1
    <3>3. ToSet(kept[i]) = ToSet(kept[i - 1]) \cup {list[i]}
      BY <1>1, <2>1, <3>1, AppendAdds
    <3>4. i \in 0..N
      BY <1>1
    <3>5. QED
      BY <2>1, <2>2, <2>3, <3>2, <3>3, <3>4
  <2>4. CASE list[i] \notin W
    <3>1. kept[i] = kept[i - 1]
      BY <1>9, <2>4
    <3>2. QED
      BY <2>1, <2>2, <2>4, <3>1
  <2>5. QED
    BY <2>3, <2>4
<1>12. N \in Q
  <2> HIDE DEF Q
  <2>1. 0..N \subseteq Q
    BY <1>1, <1>10, <1>11, UpTo
  <2>2. QED
    BY <1>1, <2>1
<1>13. ToSet(list) = {list[j] : j \in 1..N}
  BY <1>1 DEF ToSet
<1>14. QED
  BY <1>4, <1>12, <1>13

\* Lists one after the other are a list.
LEMMA FlattenedType ==
  ASSUME NEW X, NEW lists \in Seq(Seq(X))
  PROVE  FlattenSeq(lists) \in Seq(X)
<1> DEFINE N == Len(lists)
           step == [p \in Seq(X) \X (1..N) |-> p[1] \o lists[p[2]]]
           Def(g) == [i \in 1..N |-> IF i = 1 THEN lists[i] ELSE g[i - 1] \o lists[i]]
           flatten == CHOOSE g : g = Def(g)
<1>1. N \in Nat /\ \A i \in 1..N : lists[i] \in Seq(X)
  OBVIOUS
<1>2. CASE N = 0
  <2>1. lists = <<>>
    BY <1>2
  <2>2. QED
    BY <1>2, <2>1 DEF FlattenSeq
<1>3. CASE N # 0
  <2>1. FlattenSeq(lists) = flatten[N]
    BY <1>3 DEF FlattenSeq
  <2>2. step \in [Seq(X) \X (1..N) -> Seq(X)]
    BY <1>1
  <2>3. \A l \in Seq(X), i \in 1..N : step[<<l, i>>] = l \o lists[i]
    OBVIOUS
  <2> HIDE DEF step
  <2>4. PICK f \in [0..N -> Seq(X)] : Goes(f, <<>>, step, N)
    <3>1. <<>> \in Seq(X)
      OBVIOUS
    <3>2. QED
      BY <1>1, <2>2, <3>1, StepByStep
  <2>5. \A i \in 1..N : f[i] = f[i - 1] \o lists[i]
    <3>1. ASSUME NEW i \in 1..N PROVE f[i] = f[i - 1] \o lists[i]
      <4>1. i - 1 \in 0..N
        BY <1>1
      <4>2. f[i] = step[<<f[i - 1], i>>]
        BY <2>4 DEF Goes
      <4>3. QED
        BY <2>3, <2>4, <4>1, <4>2
    <3>2. QED
      BY <3>1
  <2>6. f[1] = lists[1]
    <3>1. 1 \in 1..N /\ f[0] = <<>>
      BY <1>1, <1>3, <2>4 DEF Goes
    <3>2. lists[1] \in Seq(X) /\ f[1] = f[1 - 1] \o lists[1]
      BY <1>1, <2>5, <3>1
    <3>3. <<>> \o lists[1] = lists[1]
      BY <3>2
    <3>4. 1 - 1 = 0
      OBVIOUS
    <3>5. QED
      BY <3>1, <3>2, <3>3, <3>4
  <2> DEFINE h == [i \in 1..N |-> f[i]]
  <2>7. h = Def(h)
    <3>1. ASSUME NEW i \in 1..N
          PROVE  f[i] = IF i = 1 THEN lists[i] ELSE h[i - 1] \o lists[i]
      <4>1. CASE i = 1
        BY <2>6, <4>1
      <4>2. CASE i # 1
        <5>1. i - 1 \in 1..N
          BY <1>1, <4>2
        <5>2. QED
          BY <2>5, <4>2, <5>1
      <4>3. QED
        BY <4>1, <4>2
    <3>2. QED
      BY <3>1
  <2> HIDE DEF h
  <2>8. flatten = Def(flatten)
    BY <2>7
  <2> HIDE DEF flatten
  <2>9. \A i \in 1..N : flatten[i] = IF i = 1 THEN lists[i] ELSE flatten[i - 1] \o lists[i]
    BY <2>8
  <2> DEFINE Q == {0} \cup {i \in 1..N : flatten[i] \in Seq(X)}
  <2>10. ASSUME NEW i \in 1..N, i - 1 \in Q PROVE i \in Q
    <3>1. CASE i = 1
      BY <1>1, <2>9, <3>1
    <3>2. CASE i # 1
      <4>1. flatten[i - 1] \in Seq(X) /\ lists[i] \in Seq(X)
        BY <1>1, <2>10, <3>2
      <4>2. flatten[i] = flatten[i - 1] \o lists[i]
        BY <2>9, <3>2
      <4>3. flatten[i] \in Seq(X)
        BY <4>1, <4>2
      <4>4. QED
        BY <4>3
    <3>3. QED
      BY <3>1, <3>2
  <2>11. N \in Q
    <3>1. 0 \in Q
      OBVIOUS
    <3>2. 0..N \subseteq Q
      <4> HIDE DEF Q
      <4>1. QED
        BY <1>1, <2>10, <3>1, UpTo
    <3>3. QED
      BY <1>1, <3>2
  <2>12. QED
    BY <1>3, <2>1, <2>11
<1>4. QED
  BY <1>2, <1>3

\* The element at a place is taken out, what follows moves up.
LEMMA RemoveAtShifts ==
  ASSUME NEW S, NEW s \in Seq(S), NEW i \in 1..Len(s)
  PROVE  /\ RemoveAt(s, i) \in Seq(S)
         /\ Len(RemoveAt(s, i)) = Len(s) - 1
         /\ \A j \in 1..i - 1 : RemoveAt(s, i)[j] = s[j]
         /\ \A j \in i..Len(s) - 1 : RemoveAt(s, i)[j] = s[j + 1]
<1> DEFINE a == SubSeq(s, 1, i - 1)
           b == SubSeq(s, i + 1, Len(s))
<1>1. /\ a \in Seq(S) /\ Len(a) = i - 1
      /\ \A j \in 1..i - 1 : a[j] = s[j]
  BY SubSeqProperties, i - 1 <= Len(s)
<1>2. /\ b \in Seq(S) /\ Len(b) = Len(s) - i
      /\ \A j \in 1..Len(s) - i : b[j] = s[i + j]
  BY SubSeqProperties, i + 1 <= Len(s) + 1
<1>3. RemoveAt(s, i) = a \o b
  BY DEF RemoveAt
<1> HIDE DEF a, b
<1>4. /\ a \o b \in Seq(S) /\ Len(a \o b) = Len(a) + Len(b)
      /\ \A j \in 1..Len(a) + Len(b) :
            (a \o b)[j] = IF j <= Len(a) THEN a[j] ELSE b[j - Len(a)]
  BY <1>1, <1>2, ConcatProperties
<1>5. Len(s) \in Nat /\ i \in Nat /\ i >= 1 /\ i <= Len(s)
  BY LenProperties
<1>6. \A j \in 1..i - 1 : (a \o b)[j] = s[j]
  BY <1>1, <1>2, <1>4, <1>5
<1>7. ASSUME NEW j \in i..Len(s) - 1 PROVE (a \o b)[j] = s[j + 1]
  <2>1. (a \o b)[j] = b[j - (i - 1)]
    BY <1>1, <1>2, <1>4, <1>5
  <2>2. b[j - (i - 1)] = s[i + (j - (i - 1))]
    BY <1>2, <1>5
  <2>3. i + (j - (i - 1)) = j + 1
    BY <1>5
  <2>4. QED
    BY <2>1, <2>2, <2>3
<1>8. QED
  BY <1>1, <1>2, <1>3, <1>4, <1>5, <1>6, <1>7

\* std::erase of an element of a list that holds it once.
LEMMA RemoveFirstRemoves ==
  ASSUME NEW X, NEW s \in Seq(X), IsInjective(s), NEW e
  PROVE  /\ RemoveFirst(s, e) \in Seq(X) /\ IsInjective(RemoveFirst(s, e))
         /\ ToSet(RemoveFirst(s, e)) = ToSet(s) \ {e}
         /\ Len(RemoveFirst(s, e)) = IF e \in ToSet(s) THEN Len(s) - 1 ELSE Len(s)
<1> DEFINE w == RemoveFirst(s, e)
           I == {k \in 1..Len(s) : s[k] = e}
           i == SelectInSeq(s, LAMBDA v : v = e)
<1>1. s \in Seq(X) /\ Len(s) \in Nat /\ DOMAIN s = 1..Len(s)
      /\ \A x \in 1..Len(s), y \in 1..Len(s) : s[x] = s[y] => x = y
  BY DEF IsInjective
<1>2. CASE e \notin ToSet(s)
  <2>1. ~ \E k \in 1..Len(s) : s[k] = e
    BY <1>1, <1>2 DEF ToSet
  <2>2. w = s
    BY <2>1 DEF RemoveFirst
  <2>3. QED
    BY <1>2, <2>2
<1>3. CASE e \in ToSet(s)
  <2>1. \E k \in 1..Len(s) : s[k] = e
    BY <1>1, <1>3 DEF ToSet
  <2>2. i \in 1..Len(s) /\ s[i] = e
    <3>1. I # {} /\ I \in SUBSET Nat
      BY <1>1, <2>1
    <3>2. \E m \in I : \A y \in I : m <= y
      BY <3>1, LeastElement
    <3>3. i = Min(I)
      BY <3>1 DEF SelectInSeq
    <3>4. Min(I) = CHOOSE m \in I : \A y \in I : m <= y
      BY DEF Min
    <3> HIDE DEF i, I
    <3>5. i \in I
      BY <3>2, <3>3, <3>4
    <3>6. QED
      BY <3>5 DEF I
  <2>3. w = RemoveAt(s, i)
    BY <2>1 DEF RemoveFirst
  <2> HIDE DEF i, w, I
  <2>4. /\ w \in Seq(X) /\ Len(w) = Len(s) - 1
        /\ \A j \in 1..i - 1 : w[j] = s[j]
        /\ \A j \in i..Len(s) - 1 : w[j] = s[j + 1]
    BY <1>1, <2>2, <2>3, RemoveAtShifts
  <2>5. DOMAIN w = 1..Len(s) - 1
    BY <2>4
  <2> DEFINE from(x) == IF x < i THEN x ELSE x + 1
  <2>6. \A x \in 1..Len(s) - 1 : from(x) \in (1..Len(s)) \ {i} /\ w[x] = s[from(x)]
    <3>1. ASSUME NEW x \in 1..Len(s) - 1
          PROVE  from(x) \in (1..Len(s)) \ {i} /\ w[x] = s[from(x)]
      <4>1. CASE x < i
        <5>1. x \in 1..i - 1
          BY <1>1, <2>2, <4>1
        <5>2. QED
          BY <1>1, <2>2, <2>4, <4>1, <5>1
      <4>2. CASE ~(x < i)
        <5>1. x \in i..Len(s) - 1 /\ x + 1 \in (1..Len(s)) \ {i}
          BY <1>1, <2>2, <4>2
        <5>2. QED
          BY <2>4, <4>2, <5>1
      <4>3. QED
        BY <4>1, <4>2
    <3>2. QED
      BY <3>1
  <2>7. ASSUME NEW y \in (1..Len(s)) \ {i}
        PROVE  \E x \in 1..Len(s) - 1 : y = from(x)
    <3>1. CASE y < i
      <4>1. y \in 1..Len(s) - 1 /\ y = from(y)
        BY <1>1, <2>2, <3>1
      <4>2. QED
        BY <4>1
    <3>2. CASE y > i
      <4>1. y - 1 \in 1..Len(s) - 1 /\ y = from(y - 1)
        BY <1>1, <2>2, <3>2
      <4>2. QED
        BY <4>1
    <3>3. QED
      BY <1>1, <2>2, <3>1, <3>2
  <2>8. \A x \in 1..Len(s) - 1, y \in 1..Len(s) - 1 : from(x) = from(y) => x = y
    BY <1>1, <2>2
  <2> HIDE DEF from
  <2>9. ToSet(w) = ToSet(s) \ {e}
    <3>1. ASSUME NEW x \in ToSet(w) PROVE x \in ToSet(s) \ {e}
      <4>1. PICK k \in 1..Len(s) - 1 : x = w[k]
        BY <2>5 DEF ToSet
      <4>2. QED
        BY <4>1, <1>1, <2>2, <2>6 DEF ToSet
    <3>2. ASSUME NEW x \in ToSet(s) \ {e} PROVE x \in ToSet(w)
      <4>1. PICK y \in (1..Len(s)) \ {i} : x = s[y]
        BY <1>1, <2>2 DEF ToSet
      <4>2. PICK k \in 1..Len(s) - 1 : y = from(k)
        BY <2>7
      <4>3. QED
        BY <4>1, <4>2, <2>5, <2>6 DEF ToSet
    <3>3. QED
      BY <3>1, <3>2
  <2>10. IsInjective(w)
    BY <1>1, <2>5, <2>6, <2>8 DEF IsInjective
  <2>11. QED
    BY <1>3, <2>4, <2>9, <2>10 DEF w
<1>4. QED
  BY <1>2, <1>3

-----------------------------------------------------------------------------
(* What the look-ups give.                                                 *)

\* There are finitely many nodes.
LEMMA LongestIsNatural == Longest \in Nat
  BY SpaceAssumption, FS_CardinalityType DEF Longest

\* What a space is made of.
LEMMA SpaceFields ==
  ASSUME NEW s \in Spaces
  PROVE  /\ s.node \in [NodeIds -> Nodes]
         /\ s.fwd \in [NodeIds -> Seq(References)] /\ s.inv \in [NodeIds -> Seq(References)]
         /\ s.typedef \in [NodeIds -> Ids] /\ s.super \in [NodeIds -> Ids]
         /\ s.signals \in Seq(Signals) /\ s.panic \in BOOLEAN
  BY DEF Spaces

\* f says how far the search of IsSubtypeOf has come.
Climbs(f, s, supertype) ==
  /\ \A u \in Ids : ~f[0][u]
  /\ \A left \in 1..Longest, u \in Ids :
       f[left][u] <=> u # Null /\ (u = supertype \/ f[left - 1][s.super[u]])
  /\ \A t \in Ids : IsSubtypeOf(s, t, supertype) <=> f[Longest][t]

\* A type is a subtype when the chain of its supertypes comes past the supertype.
LEMMA SubtypeClimbs ==
  ASSUME NEW s \in Spaces, NEW supertype
  PROVE  \E f \in [0..Longest -> [Ids -> BOOLEAN]] : Climbs(f, s, supertype)
<1> DEFINE N == Longest
           S == [Ids -> BOOLEAN]
           step == [p \in S \X (1..N) |->
                      [u \in Ids |-> u # Null /\ (u = supertype \/ p[1][s.super[u]])]]
           base == [u \in Ids |-> FALSE]
           Def(g) == [left \in 0..N |->
                        [u \in Ids |-> /\ left > 0 /\ u # Null
                                       /\ u = supertype \/ g[left - 1][s.super[u]]]]
           below == CHOOSE g : g = Def(g)
<1>1. N \in Nat /\ base \in S
  BY LongestIsNatural
<1>2. \A u \in Ids : u # Null => s.super[u] \in Ids
  BY SpaceFields DEF Ids
<1>3. step \in [S \X (1..N) -> S]
  OBVIOUS
<1>4. \A g \in S, i \in 1..N, u \in Ids :
        step[<<g, i>>][u] = (u # Null /\ (u = supertype \/ g[s.super[u]]))
  OBVIOUS
<1>5. \A t : IsSubtypeOf(s, t, supertype) = below[N][t]
  BY DEF IsSubtypeOf
<1> HIDE DEF step, N
<1>6. PICK f \in [0..N -> S] : Goes(f, base, step, N)
  BY <1>1, <1>3, StepByStep
<1>7. ASSUME NEW i \in 1..N, NEW u \in Ids
      PROVE  f[i][u] = (u # Null /\ (u = supertype \/ f[i - 1][s.super[u]]))
  <2>1. i - 1 \in 0..N /\ f[i - 1] \in S
    BY <1>1, <1>6
  <2>2. f[i] = step[<<f[i - 1], i>>]
    BY <1>6 DEF Goes
  <2>3. QED
    BY <1>4, <2>1, <2>2
<1>8. f = Def(f)
  <2>1. ASSUME NEW i \in 0..N
        PROVE  f[i] = [u \in Ids |-> /\ i > 0 /\ u # Null
                                     /\ u = supertype \/ f[i - 1][s.super[u]]]
    <3>1. CASE i = 0
      BY <1>6, <3>1 DEF Goes
    <3>2. CASE i # 0
      <4>1. i \in 1..N /\ i > 0
        BY <1>1, <3>2
      <4>2. f[i] \in S
        BY <1>6
      <4>3. \A u \in Ids : f[i][u] = (/\ i > 0 /\ u # Null
                                      /\ u = supertype \/ f[i - 1][s.super[u]])
        BY <1>7, <4>1
      <4>4. QED
        BY <4>2, <4>3
    <3>3. QED
      BY <3>1, <3>2
  <2>2. QED
    BY <2>1
<1>9. below = Def(below)
  BY <1>8
<1> HIDE DEF below
<1>10. /\ \A u \in Ids : below[0][u] = FALSE
       /\ \A left \in 1..N, u \in Ids :
            below[left][u] = (u # Null /\ (u = supertype \/ below[left - 1][s.super[u]]))
  <2>1. \A u \in Ids : below[0][u] = FALSE
    BY <1>1, <1>9
  <2>2. ASSUME NEW left \in 1..N, NEW u \in Ids
        PROVE  below[left][u] = (u # Null /\ (u = supertype \/ below[left - 1][s.super[u]]))
    <3>1. left \in 0..N /\ left > 0
      BY <1>1
    <3>2. below[left] = [v \in Ids |-> /\ left > 0 /\ v # Null
                                       /\ v = supertype \/ below[left - 1][s.super[v]]]
      BY <1>9, <3>1
    <3>3. QED
      BY <3>1, <3>2
  <2>3. QED
    BY <2>1, <2>2
<1>11. below \in [0..N -> S]
  <2>1. ASSUME NEW i \in 0..N PROVE below[i] \in S
    BY <1>9, <2>1
  <2>2. QED
    BY <1>9, <2>1
<1>12. Climbs(below, s, supertype)
  BY <1>5, <1>10 DEF Climbs, N
<1>13. QED
  BY <1>11, <1>12 DEF N

\* The supertypes of a type are nodes.
LEMMA TypeChainType ==
  ASSUME NEW s \in Spaces, NEW t \in Ids
  PROVE  TypeChain(s, t) \in Seq(NodeIds)
<1> DEFINE N == Longest
           S == [Ids -> Seq(NodeIds)]
           step == [p \in S \X (1..N) |->
                      [u \in Ids |-> IF u = Null THEN <<>> ELSE <<u>> \o p[1][s.super[u]]]]
           base == [u \in Ids |-> <<>>]
           Def(g) == [left \in 0..N |->
                        [u \in Ids |-> IF left = 0 \/ u = Null THEN <<>>
                                       ELSE <<u>> \o g[left - 1][s.super[u]]]]
           chain == CHOOSE g : g = Def(g)
<1>1. N \in Nat /\ base \in S
  BY LongestIsNatural
<1>2. \A u \in Ids : u # Null => s.super[u] \in Ids /\ u \in NodeIds
  BY SpaceFields DEF Ids
<1>3. step \in [S \X (1..N) -> S]
  <2>1. ASSUME NEW p \in S \X (1..N), NEW u \in Ids
        PROVE  (IF u = Null THEN <<>> ELSE <<u>> \o p[1][s.super[u]]) \in Seq(NodeIds)
    <3>1. CASE u = Null
      BY <3>1
    <3>2. CASE u # Null
      <4>1. p[1][s.super[u]] \in Seq(NodeIds) /\ <<u>> \in Seq(NodeIds)
        BY <1>2, <3>2
      <4>2. QED
        BY <3>2, <4>1
    <3>3. QED
      BY <3>1, <3>2
  <2>2. QED
    BY <2>1
<1>4. \A g \in S, i \in 1..N :
        step[<<g, i>>] = [u \in Ids |-> IF u = Null THEN <<>> ELSE <<u>> \o g[s.super[u]]]
  OBVIOUS
<1>5. TypeChain(s, t) = chain[N][t]
  BY DEF TypeChain
<1> HIDE DEF step, N
<1>6. PICK f \in [0..N -> S] : Goes(f, base, step, N)
  BY <1>1, <1>3, StepByStep
<1>7. f = Def(f)
  <2>1. ASSUME NEW i \in 0..N
        PROVE  f[i] = [u \in Ids |-> IF i = 0 \/ u = Null THEN <<>>
                                     ELSE <<u>> \o f[i - 1][s.super[u]]]
    <3>1. CASE i = 0
      BY <1>6, <3>1 DEF Goes
    <3>2. CASE i # 0
      <4>1. i \in 1..N /\ i - 1 \in 0..N
        BY <1>1, <3>2
      <4>2. f[i] = step[<<f[i - 1], i>>] /\ f[i - 1] \in S
        BY <1>6, <4>1 DEF Goes
      <4>3. f[i] = [u \in Ids |-> IF u = Null THEN <<>> ELSE <<u>> \o f[i - 1][s.super[u]]]
        BY <1>4, <4>1, <4>2
      <4>4. QED
        BY <3>2, <4>3
    <3>3. QED
      BY <3>1, <3>2
  <2>2. QED
    BY <2>1
<1>8. chain = Def(chain)
  BY <1>7
<1> HIDE DEF chain
<1> DEFINE Q == {i \in 0..N : chain[i] \in S}
<1>9. 0 \in Q
  <2>1. 0 \in 0..N
    BY <1>1
  <2>2. chain[0] = [u \in Ids |-> IF 0 = 0 \/ u = Null THEN <<>>
                                  ELSE <<u>> \o chain[0 - 1][s.super[u]]]
    BY <1>8, <2>1
  <2>3. ASSUME NEW u \in Ids
        PROVE  (IF 0 = 0 \/ u = Null THEN <<>> ELSE <<u>> \o chain[0 - 1][s.super[u]])
                 \in Seq(NodeIds)
    OBVIOUS
  <2>4. chain[0] \in S
    BY <2>2, <2>3
  <2>5. QED
    BY <2>1, <2>4
<1>10. ASSUME NEW i \in 1..N, i - 1 \in Q PROVE i \in Q
  <2>1. i \in 0..N /\ i # 0 /\ chain[i - 1] \in S
    BY <1>1, <1>10
  <2>2. chain[i] = [u \in Ids |-> IF u = Null THEN <<>>
                                  ELSE <<u>> \o chain[i - 1][s.super[u]]]
    BY <1>8, <2>1
  <2>3. ASSUME NEW u \in Ids
        PROVE  (IF u = Null THEN <<>> ELSE <<u>> \o chain[i - 1][s.super[u]]) \in Seq(NodeIds)
    <3>1. CASE u = Null
      BY <3>1
    <3>2. CASE u # Null
      <4>1. chain[i - 1][s.super[u]] \in Seq(NodeIds) /\ <<u>> \in Seq(NodeIds)
        BY <1>2, <2>1, <3>2
      <4>2. QED
        BY <3>2, <4>1
    <3>3. QED
      BY <3>1, <3>2
  <2>4. chain[i] \in S
    BY <2>2, <2>3
  <2>5. QED
    BY <2>1, <2>4
<1>11. chain[N] \in S
  <2> HIDE DEF Q
  <2>1. 0..N \subseteq Q
    BY <1>1, <1>9, <1>10, UpTo
  <2>2. N \in Q
    BY <1>1, <2>1
  <2>3. QED
    BY <2>2 DEF Q
<1>12. QED
  BY <1>5, <1>11

\* The elements a list keeps and their other ends.
LEMMA TargetsType ==
  ASSUME NEW s \in Spaces, NEW n \in NodeIds, NEW t
  PROVE  /\ FilterReferences(s, s.fwd[n], t, TRUE) \in Seq(References)
         /\ Targets(s, n, t) \in Seq(NodeIds)
         /\ ToSet(Targets(s, n, t)) =
              {r.node : r \in {q \in ToSet(s.fwd[n]) : IsSubtypeOf(s, q.type, t)}}
<1> DEFINE refs == FilterReferences(s, s.fwd[n], t, TRUE)
           wanted == {r \in ToSet(s.fwd[n]) : IsSubtypeOf(s, r.type, t)}
<1>1. s.fwd[n] \in Seq(References)
  BY SpaceFields
<1>2. refs = Kept(s.fwd[n], wanted)
  BY DEF FilterReferences
<1>3. refs \in Seq(References) /\ ToSet(refs) = wanted
  <2>1. wanted \subseteq ToSet(s.fwd[n])
    OBVIOUS
  <2> HIDE DEF wanted, refs
  <2>2. refs \in Seq(References) /\ ToSet(refs) = ToSet(s.fwd[n]) \cap wanted
    BY <1>1, <1>2, KeptElements
  <2>3. QED
    BY <2>1, <2>2
<1>4. Targets(s, n, t) = [i \in DOMAIN refs |-> refs[i].node]
  BY DEF Targets
<1> HIDE DEF refs
<1>5. /\ Len(refs) \in Nat /\ DOMAIN refs = 1..Len(refs)
      /\ \A i \in 1..Len(refs) : refs[i].node \in NodeIds
  <2>1. /\ Len(refs) \in Nat /\ DOMAIN refs = 1..Len(refs)
        /\ \A i \in 1..Len(refs) : refs[i] \in References
    BY <1>3
  <2>2. \A r \in References : r.node \in NodeIds
    BY DEF References
  <2>3. QED
    BY <2>1, <2>2
<1>6. Targets(s, n, t) \in Seq(NodeIds)
  BY <1>4, <1>5
<1>7. ToSet(Targets(s, n, t)) = {r.node : r \in ToSet(refs)}
  BY <1>4 DEF ToSet
<1>8. QED
  BY <1>3, <1>6, <1>7 DEF refs

\* Named finds one of the nodes it looks at, or none.
LEMMA NamedType ==
  ASSUME NEW s, NEW X, NEW nodes \in Seq(X), NEW name
  PROVE  Named(s, nodes, name) \in ToSet(nodes) \cup {Null}
<1> DEFINE wanted == {n \in ToSet(nodes) : s.node[n].name = name}
           kept == Kept(nodes, wanted)
<1>1. kept \in Seq(X) /\ ToSet(kept) \subseteq ToSet(nodes)
  <2> HIDE DEF wanted
  <2>1. QED
    BY KeptElements
<1>2. Named(s, nodes, name) = IF kept = <<>> THEN Null ELSE kept[1]
  BY DEF Named, First
<1> HIDE DEF kept
<1>3. CASE kept = <<>>
  BY <1>2, <1>3
<1>4. CASE kept # <<>>
  <2>1. 1 \in DOMAIN kept
    BY <1>1, <1>4
  <2>2. kept[1] \in ToSet(kept)
    BY <2>1 DEF ToSet
  <2>3. QED
    BY <1>1, <1>2, <1>4, <2>2
<1>5. QED
  BY <1>3, <1>4

\* FindChild finds a node, or none.
LEMMA FindChildType ==
  ASSUME NEW s \in Spaces, NEW n \in NodeIds, NEW name
  PROVE  FindChild(s, n, name) \in Ids
<1>1. GetChildren(s, n) \in Seq(NodeIds)
  BY TargetsType DEF GetChildren
<1>2. FindChild(s, n, name) \in ToSet(GetChildren(s, n)) \cup {Null}
  BY <1>1, NamedType DEF FindChild
<1>3. ToSet(GetChildren(s, n)) \subseteq NodeIds
  BY <1>1 DEF ToSet
<1>4. QED
  BY <1>2, <1>3 DEF Ids

\* GetProperties lists nodes.
LEMMA GetPropertiesType ==
  ASSUME NEW s \in Spaces, NEW n \in NodeIds
  PROVE  GetProperties(s, n) \in Seq(NodeIds)
<1>1. Targets(s, n, "HasProperty") \in Seq(NodeIds)
  BY TargetsType
<1>2. QED
  BY <1>1, KeptElements DEF GetProperties

\* MissingProperties lists declarations that are nodes.
LEMMA MissingPropertiesType ==
  ASSUME NEW s \in Spaces, NEW type \in Ids
  PROVE  MissingProperties(s, type) \in Seq(NodeIds)
<1> DEFINE chain == TypeChain(s, type)
           lists == [i \in DOMAIN chain |-> GetProperties(s, chain[i])]
           declared == FlattenSeq(lists)
           wanted == {d \in ToSet(declared) :
                        /\ ~IsPlaceholderDeclaration(s, d)
                        /\ FindChild(s, d, s.node[d].name) = Null}
<1>1. MissingProperties(s, type) = Kept(declared, wanted)
  BY DEF MissingProperties
<1>2. chain \in Seq(NodeIds)
  BY TypeChainType
<1> HIDE DEF chain
<1>3. /\ Len(chain) \in Nat /\ DOMAIN chain = 1..Len(chain)
      /\ \A i \in 1..Len(chain) : chain[i] \in NodeIds
  BY <1>2
<1>4. \A i \in 1..Len(chain) : GetProperties(s, chain[i]) \in Seq(NodeIds)
  BY <1>3, GetPropertiesType
<1>5. lists \in Seq(Seq(NodeIds))
  BY <1>3, <1>4
<1> HIDE DEF lists
<1>6. declared \in Seq(NodeIds)
  BY <1>5, FlattenedType
<1> HIDE DEF declared, wanted
<1>7. QED
  BY <1>1, <1>6, KeptElements

-----------------------------------------------------------------------------
(* Node states.                                                            *)

\* Node states whose children are among some lists.
StatesWith(lists) ==
  [id : Ids, class : NodeClasses, typedef : Ids, parent : Ids, reftype : Ids,
   super : Ids, name : Names, dt : Ids, value : Int \cup {NoValue},
   props : Seq(NodeIds \X Int),
   refs : Seq([type : NodeIds, forward : BOOLEAN, node : NodeIds]),
   children : lists]

\* States nested to a depth are those whose children nest one less.
LEMMA StateLevels ==
  \A depth \in 0..Nesting :
    StatesOfDepth[depth] =
      StatesWith(IF depth = 0 THEN {<<>>} ELSE Seq(StatesOfDepth[depth - 1]))
<1> DEFINE N == Nesting
           Level(g, i) == StatesWith(IF i = 0 THEN {<<>>} ELSE Seq(g[i - 1]))
           Def(g) == [i \in 0..N |-> Level(g, i)]
           P == {k \in 0..N : \E f : f = [i \in 0..k |-> Level(f, i)]}
<1>1. N \in Nat
  BY NestingAssumption
<1>2. 0 \in P
  <2> DEFINE f == [i \in 0..0 |-> StatesWith({<<>>})]
  <2>1. f = [i \in 0..0 |-> Level(f, i)]
    OBVIOUS
  <2>2. 0 \in 0..N
    BY <1>1
  <2> HIDE DEF f
  <2>3. QED
    BY <2>1, <2>2
<1>3. ASSUME NEW k \in 1..N, k - 1 \in P PROVE k \in P
  <2>1. PICK f : f = [i \in 0..(k - 1) |-> Level(f, i)]
    BY <1>3
  <2> DEFINE g == [i \in 0..k |-> IF i = k THEN Level(f, k) ELSE f[i]]
  <2>2. \A i \in 0..(k - 1) : g[i] = f[i] /\ f[i] = Level(f, i)
    BY <2>1
  <2>3. g[k] = Level(f, k) /\ k - 1 \in 0..(k - 1) /\ k # 0
    BY <1>1
  <2>4. DOMAIN g = 0..k
    OBVIOUS
  <2>5. g = [i \in 0..k |-> g[i]]
    OBVIOUS
  <2> HIDE DEF g
  <2>6. ASSUME NEW i \in 0..k PROVE g[i] = Level(g, i)
    <3>1. CASE i = k
      <4>1. g[k - 1] = f[k - 1]
        BY <2>2, <2>3
      <4>2. QED
        BY <2>3, <3>1, <4>1
    <3>2. CASE i # k /\ i # 0
      <4>1. i \in 0..(k - 1) /\ i - 1 \in 0..(k - 1)
        BY <1>1, <3>2
      <4>2. g[i] = Level(f, i) /\ g[i - 1] = f[i - 1]
        BY <2>2, <4>1
      <4>3. QED
        BY <3>2, <4>2
    <3>3. CASE i # k /\ i = 0
      <4>1. 0 \in 0..(k - 1)
        BY <1>1
      <4>2. g[0] = Level(f, 0)
        BY <2>2, <4>1
      <4>3. QED
        BY <3>3, <4>2
    <3>4. QED
      BY <3>1, <3>2, <3>3
  <2>7. g = [i \in 0..k |-> Level(g, i)]
    BY <2>5, <2>6
  <2>8. k \in 0..N
    BY <1>1
  <2>9. QED
    BY <2>7, <2>8
<1>4. N \in P
  <2> HIDE DEF P
  <2>1. 0..N \subseteq P
    BY <1>1, <1>2, <1>3, UpTo
  <2>2. QED
    BY <1>1, <2>1
<1>5. PICK f : f = Def(f)
  BY <1>4
<1>6. StatesOfDepth = CHOOSE g : g = Def(g)
  BY DEF StatesOfDepth, StatesWith
<1>7. StatesOfDepth = Def(StatesOfDepth)
  BY <1>5, <1>6
<1>8. QED
  BY <1>7

\* A node state's children are node states, and it may have none.
LEMMA StatesAre ==
  \E lists : States = StatesWith(lists) /\ <<>> \in lists /\ lists \subseteq Seq(States)
<1> DEFINE N == Nesting
           D == StatesOfDepth
           Lists(i) == IF i = 0 THEN {<<>>} ELSE Seq(D[i - 1])
           Q == {0} \cup {i \in 1..N : D[i - 1] \subseteq D[i]}
<1>1. N \in Nat /\ \A i \in 0..N : D[i] = StatesWith(Lists(i))
  BY NestingAssumption, StateLevels
<1> HIDE DEF D
<1>2. ASSUME NEW a, NEW b, a \subseteq b PROVE StatesWith(a) \subseteq StatesWith(b)
  BY <1>2 DEF StatesWith
<1>3. ASSUME NEW a, NEW b, a \subseteq b PROVE Seq(a) \subseteq Seq(b)
  BY <1>3
<1>4. ASSUME NEW i \in 1..N, i - 1 \in Q PROVE i \in Q
  <2>1. i - 1 \in 0..N /\ i \in 0..N /\ i # 0
    BY <1>1
  <2>2. Lists(i - 1) \subseteq Lists(i)
    <3>1. CASE i = 1
      <4>1. Lists(i - 1) = {<<>>} /\ Lists(i) = Seq(D[i - 1])
        BY <3>1
      <4> HIDE DEF Lists
      <4>2. <<>> \in Seq(D[i - 1])
        OBVIOUS
      <4>3. QED
        BY <4>1, <4>2
    <3>2. CASE i # 1
      <4>1. i - 1 # 0 /\ i - 1 \in 1..N
        BY <1>1, <3>2
      <4>2. D[(i - 1) - 1] \subseteq D[i - 1]
        BY <1>4, <4>1
      <4>3. Seq(D[(i - 1) - 1]) \subseteq Seq(D[i - 1])
        BY <4>2, <1>3
      <4>4. QED
        BY <2>1, <4>1, <4>3
    <3>3. QED
      BY <3>1, <3>2
  <2> HIDE DEF Lists
  <2>3. StatesWith(Lists(i - 1)) \subseteq StatesWith(Lists(i))
    BY <2>2, <1>2
  <2>4. QED
    BY <1>1, <2>1, <2>3
<1>5. N \in Q
  <2>1. 0 \in Q
    OBVIOUS
  <2> HIDE DEF Q
  <2>2. 0..N \subseteq Q
    BY <1>1, <1>4, <2>1, UpTo
  <2>3. QED
    BY <1>1, <2>2
<1>6. States = StatesWith(Lists(N))
  BY <1>1 DEF States, D
<1>7. Lists(N) \subseteq Seq(States) /\ <<>> \in Lists(N)
  <2>1. CASE N = 0
    BY <2>1
  <2>2. CASE N # 0
    <3>1. D[N - 1] \subseteq States
      BY <1>5, <2>2 DEF States, D
    <3>2. Lists(N) = Seq(D[N - 1])
      BY <2>2
    <3>3. Seq(D[N - 1]) \subseteq Seq(States) /\ <<>> \in Seq(D[N - 1])
      BY <3>1, <1>3
    <3>4. QED
      BY <3>2, <3>3
  <2>3. QED
    BY <2>1, <2>2
<1>8. QED
  BY <1>6, <1>7

\* The node states made for properties are node states.
LEMMA PropertyStateType ==
  ASSUME NEW s \in Spaces, NEW n \in NodeIds, NEW decl \in NodeIds
  PROVE  PropertyState(s, n, decl) \in States
<1>1. PICK lists : States = StatesWith(lists) /\ <<>> \in lists
  BY StatesAre
<1>2. s.node[decl] \in Nodes
  BY SpaceFields
<1>3. s.node[decl].name \in Names /\ s.node[decl].dt \in Ids /\ s.node[decl].value \in Int
  BY <1>2 DEF Nodes
<1>4. MakeNestedNodeId(n, s.node[decl].name) \in Ids
  BY DEF MakeNestedNodeId, Ids
<1>5. {"HasProperty", "PropertyType"} \subseteq Ids
  BY SpaceAssumption DEF Ids
<1>6. "Variable" \in NodeClasses
  BY DEF NodeClasses
<1>7. n \in Ids /\ Null \in Ids
  BY DEF Ids
<1>8. PropertyState(s, n, decl) \in StatesWith(lists)
  <2>1. BlankState \in StatesWith(lists)
    <3>1. NoValue \in Int \cup {NoValue}
      OBVIOUS
    <3>4. "Object" \in NodeClasses
      BY DEF NodeClasses
    <3>2. /\ <<>> \in Seq(NodeIds \X Int)
          /\ <<>> \in Seq([type : NodeIds, forward : BOOLEAN, node : NodeIds])
      OBVIOUS
    <3>3. QED
      BY <1>1, <1>7, <3>1, <3>2, <3>4, SpaceAssumption DEF StatesWith, BlankState
  <2>2. s.node[decl].value \in Int \cup {NoValue}
    BY <1>3
  <2>3. QED
    BY <1>3, <1>4, <1>5, <1>6, <1>7, <2>1, <2>2 DEF StatesWith, PropertyState
<1>9. QED
  BY <1>1, <1>8

\* What a node state is made of.
LEMMA StateFields ==
  ASSUME NEW ns \in States
  PROVE  /\ {ns.id, ns.typedef, ns.parent, ns.reftype, ns.super, ns.dt} \subseteq Ids
         /\ ns.class \in NodeClasses /\ ns.name \in Names
         /\ ns.value \in Int \cup {NoValue} /\ ns.props \in Seq(NodeIds \X Int)
         /\ ns.refs \in Seq([type : NodeIds, forward : BOOLEAN, node : NodeIds])
         /\ ns.children \in Seq(States)
<1>1. PICK lists : States = StatesWith(lists) /\ lists \subseteq Seq(States)
  BY StatesAre
<1>2. ns \in StatesWith(lists)
  BY <1>1
<1>3. QED
  BY <1>1, <1>2 DEF StatesWith

-----------------------------------------------------------------------------
(* What creating and loading nodes can make of a space: whatever is closed  *)
(* under the elementary changes, they do not leave.                        *)

DataTypeOK(s, node) ==
  node.class \in {"Variable", "VariableType"} => As(s, node.dt, {"DataType"}) # Null

\* Spaces closed under a failed Check, a new reference, a new value, a new node.
Closed(K) ==
  /\ K \subseteq Spaces
  /\ \A s \in K : [s EXCEPT !.panic = TRUE] \in K
  /\ \A s \in K : \A t, source, target : AddReference(s, t, source, target) \in K
  /\ \A s \in K, n \in NodeIds, value \in Int : [s EXCEPT !.node[n].value = value] \in K
  /\ \A s \in K, n \in NodeIds, node \in Nodes :
       n \notin Present(s) /\ node.class # "None" /\ DataTypeOK(s, node)
         => [s EXCEPT !.node[n] = node] \in K

Made(K) == {made \in Results : made.space \in K}

\* What CreateNodeHelper is at any depth, and that it does not leave K.
Makers == [Spaces -> [States -> [Ids -> Results]]]

Keeps(create, K) ==
  /\ create \in Makers
  /\ \A s \in K, ns \in States, parent \in Ids : create[s][ns][parent] \in Made(K)

\* A result holds the space and the status it is made of.
LEMMA ResultMade ==
  ASSUME NEW K, Closed(K), NEW s \in K, NEW code \in Statuses
  PROVE  /\ Result(s, code) \in Made(K)
         /\ Result(s, code).space = s /\ Result(s, code).status = code
  BY DEF Closed, Made, Results, Result

\* What an operation made has a space in K and a status.
LEMMA MadeFields ==
  ASSUME NEW K, Closed(K), NEW made \in Made(K)
  PROVE  made.space \in K /\ made.space \in Spaces /\ made.status \in Statuses
  BY DEF Closed, Made, Results

\* SetPropertyValue writes a value, or fails a Check.
LEMMA SetPropertyValueStays ==
  ASSUME NEW K, Closed(K), NEW s \in K, NEW n \in NodeIds, NEW decl, NEW value \in Int
  PROVE  SetPropertyValue(s, n, decl, value) \in K
<1> DEFINE child == FindChild(s, n, s.node[decl].name)
           property == As(s, child, {"Variable"})
<1>1. s \in Spaces
  BY DEF Closed
<1>2. child \in Ids
  BY <1>1, FindChildType
<1>3. SetPropertyValue(s, n, decl, value) =
        IF FindDeclaration(s, n, decl) = Null \/ property = Null
          THEN [s EXCEPT !.panic = TRUE]
          ELSE [s EXCEPT !.node[property].value = value]
  BY DEF SetPropertyValue
<1> HIDE DEF child
<1>4. property # Null => property \in NodeIds
  BY <1>2 DEF As, Ids
<1> HIDE DEF property
<1>5. QED
  BY <1>3, <1>4 DEF Closed

\* So do several of them.
LEMMA SetPropertyValuesStay ==
  ASSUME NEW K, Closed(K), NEW s \in K, NEW n \in NodeIds, NEW props \in Seq(NodeIds \X Int)
  PROVE  SetPropertyValues(s, n, props) \in K
<1> DEFINE step == [acc \in Spaces |-> [p \in NodeIds \X Int |->
                      SetPropertyValue(acc, n, p[1], p[2])]]
<1>1. ASSUME NEW acc \in K, NEW p \in NodeIds \X Int PROVE step[acc][p] \in K
  <2>1. acc \in Spaces
    BY DEF Closed
  <2>2. step[acc][p] = SetPropertyValue(acc, n, p[1], p[2])
    BY <2>1
  <2>3. p[2] \in Int
    OBVIOUS
  <2>4. QED
    BY <2>2, <2>3, SetPropertyValueStays
<1>2. SetPropertyValues(s, n, props) = Through(step, s, props)
  BY DEF SetPropertyValues
<1> HIDE DEF step
<1>3. StepsStay(step, K, NodeIds \X Int)
  BY <1>1 DEF StepsStay
<1>4. QED
  BY <1>2, <1>3, ThroughStays

\* Creating nodes one after the other does not leave K.
LEMMA CreateAllStays ==
  ASSUME NEW K, Closed(K), NEW create, Keeps(create, K),
         NEW s \in K, NEW states \in Seq(States)
  PROVE  CreateAll(create, s, states) \in Made(K)
<1> DEFINE step == [made \in Results |-> [ns \in States |->
                      IF made.status = "Good" THEN create[made.space][ns][ns.parent]
                                              ELSE made]]
<1>1. ASSUME NEW made \in Made(K), NEW ns \in States PROVE step[made][ns] \in Made(K)
  <2>1. made \in Results
    BY DEF Made
  <2>2. step[made][ns] = IF made.status = "Good" THEN create[made.space][ns][ns.parent]
                                                 ELSE made
    BY <2>1
  <2>3. ns.parent \in Ids
    BY StateFields
  <2>4. made.space \in K
    BY DEF Made
  <2>5. QED
    BY <2>2, <2>3, <2>4 DEF Keeps
<1>2. CreateAll(create, s, states) = Through(step, Result(s, "Good"), states)
  BY DEF CreateAll
<1> HIDE DEF step
<1>3. StepsStay(step, Made(K), States)
  BY <1>1 DEF StepsStay
<1>4. "Good" \in Statuses
  BY DEF Statuses
<1>5. Result(s, "Good") \in Made(K)
  BY <1>4, ResultMade
<1>6. QED
  BY <1>2, <1>3, <1>5, ThroughStays

\* Neither does creating the properties that a type declares.
LEMMA CreateMissingPropertiesStays ==
  ASSUME NEW K, Closed(K), NEW create, Keeps(create, K),
         NEW s \in K, NEW n \in NodeIds, NEW type \in Ids
  PROVE  CreateMissingProperties(create, s, n, type) \in Made(K)
<1> DEFINE decls == MissingProperties(s, type)
           states == [i \in DOMAIN decls |-> PropertyState(s, n, decls[i])]
<1>1. s \in Spaces
  BY DEF Closed
<1>2. decls \in Seq(NodeIds)
  BY <1>1, MissingPropertiesType
<1>3. CreateMissingProperties(create, s, n, type) = CreateAll(create, s, states)
  BY DEF CreateMissingProperties
<1> HIDE DEF decls
<1>4. /\ Len(decls) \in Nat /\ DOMAIN decls = 1..Len(decls)
      /\ \A i \in 1..Len(decls) : decls[i] \in NodeIds
  BY <1>2
<1>5. \A i \in 1..Len(decls) : PropertyState(s, n, decls[i]) \in States
  BY <1>1, <1>4, PropertyStateType
<1>6. states \in Seq(States)
  BY <1>4, <1>5
<1> HIDE DEF states
<1>7. QED
  BY <1>3, <1>6, CreateAllStays

\* Neither does creating the children of a node state.
LEMMA CreateChildrenStays ==
  ASSUME NEW K, Closed(K), NEW create, Keeps(create, K), NEW s \in K, NEW ns \in States
  PROVE  CreateChildren(create, s, ns) \in K
<1> DEFINE step == [acc \in Spaces |-> [child \in States |->
                      create[acc][child][ns.id].space]]
<1>1. ns.id \in Ids /\ ns.children \in Seq(States)
  BY StateFields
<1>2. ASSUME NEW acc \in K, NEW child \in States PROVE step[acc][child] \in K
  <2>1. acc \in Spaces
    BY DEF Closed
  <2>2. step[acc][child] = create[acc][child][ns.id].space
    BY <2>1
  <2>3. create[acc][child][ns.id] \in Made(K)
    BY <1>1 DEF Keeps
  <2>4. QED
    BY <2>2, <2>3 DEF Made
<1>3. CreateChildren(create, s, ns) = Through(step, s, ns.children)
  BY DEF CreateChildren
<1> HIDE DEF step
<1>4. StepsStay(step, K, States)
  BY <1>2 DEF StepsStay
<1>5. QED
  BY <1>1, <1>3, <1>4, ThroughStays

\* CreateRefusal answers with a status.
LEMMA RefusalIsStatus ==
  ASSUME NEW s, NEW ns, NEW parent
  PROVE  CreateRefusal(s, ns, parent) \in Statuses
  BY DEF CreateRefusal, Statuses

\* A node state that is not refused gives a node that may be added.
LEMMA AcceptedNode ==
  ASSUME NEW s \in Spaces, NEW ns \in States, NEW parent \in Ids,
         CreateRefusal(s, ns, parent) = "Good"
  PROVE  /\ ns.id \in NodeIds /\ ns.id \notin Present(s)
         /\ NodeOf(s, ns) \in Nodes /\ NodeOf(s, ns).class # "None"
         /\ DataTypeOK(s, NodeOf(s, ns))
<1> DEFINE type == As(s, ns.typedef, TypeClasses)
           dt == IF ns.dt = Null /\ ns.class = "Variable" THEN s.node[type].dt ELSE ns.dt
           own == CASE ns.class = "Variable" /\ ns.dt = Null -> s.node[ns.typedef].dt
                    [] ns.class \in {"Variable", "VariableType"} /\ ns.dt # Null -> ns.dt
                    [] OTHER -> Null
<1>1. /\ ns.id \in Ids /\ ns.typedef \in Ids /\ ns.dt \in Ids /\ ns.name \in Names
      /\ ns.class \in NodeClasses /\ ns.value \in Int \cup {NoValue}
  BY StateFields
<1>2. /\ ns.id # Null /\ ns.id \notin Present(s)
      /\ ns.class = "Variable" => As(s, type, {"VariableType"}) # Null
      /\ ns.class \in {"Variable", "VariableType"} => As(s, dt, {"DataType"}) # Null
      /\ ns.class \in {"Object", "Variable", "Method"} \cup TypeClasses
  BY DEF CreateRefusal
<1>3. ns.id \in NodeIds
  BY <1>1, <1>2 DEF Ids
<1>4. ns.class # "None"
  BY <1>2 DEF TypeClasses
<1>5. ns.class = "Variable" => type = ns.typedef /\ ns.typedef \in NodeIds
  BY <1>1, <1>2 DEF As, Ids
<1>6. /\ ns.class \in {"Variable", "VariableType"} => own = dt
      /\ ns.class \notin {"Variable", "VariableType"} => own = Null
  <2>1. CASE ns.class = "Variable" /\ ns.dt = Null
    BY <1>5, <2>1
  <2>2. CASE ns.class \in {"Variable", "VariableType"} /\ ns.dt # Null
    BY <2>2
  <2>3. CASE ns.class = "VariableType" /\ ns.dt = Null
    BY <2>3
  <2>4. CASE ns.class \notin {"Variable", "VariableType"}
    BY <2>4
  <2>5. QED
    BY <2>1, <2>2, <2>3, <2>4
<1>7. own \in Ids
  <2>1. CASE ns.class = "Variable" /\ ns.dt = Null
    <3>1. s.node[ns.typedef] \in Nodes
      BY <1>5, <2>1, SpaceFields
    <3>2. s.node[ns.typedef].dt \in Ids
      BY <3>1 DEF Nodes
    <3>3. QED
      BY <2>1, <3>2
  <2>2. CASE ~(ns.class = "Variable" /\ ns.dt = Null)
    BY <1>1, <2>2 DEF Ids
  <2>3. QED
    BY <2>1, <2>2
<1>8. NodeOf(s, ns) = [class |-> ns.class, name |-> ns.name, dt |-> own,
                       value |-> IF ns.value = NoValue THEN 0 ELSE ns.value]
  BY DEF NodeOf
<1> HIDE DEF own
<1>9. (IF ns.value = NoValue THEN 0 ELSE ns.value) \in Int
  BY <1>1
<1>10. NodeOf(s, ns) \in Nodes /\ NodeOf(s, ns).class = ns.class /\ NodeOf(s, ns).dt = own
  BY <1>1, <1>7, <1>8, <1>9 DEF Nodes
<1>11. DataTypeOK(s, NodeOf(s, ns))
  BY <1>2, <1>6, <1>10 DEF DataTypeOK
<1>12. QED
  BY <1>2, <1>3, <1>4, <1>10, <1>11

\* CreateNodeHelper does not leave K when its inner calls do not.
LEMMA CreateOneStays ==
  ASSUME NEW K, Closed(K), NEW create, Keeps(create, K),
         NEW s \in K, NEW ns \in States, NEW parent \in Ids
  PROVE  CreateOne(create, s, ns, parent) \in Made(K)
<1> DEFINE type == As(s, ns.typedef, TypeClasses)
           refusal == CreateRefusal(s, ns, parent)
           added == [s EXCEPT !.node[ns.id] = NodeOf(s, ns)]
           typed == IF type = Null THEN Result(added, "Good")
                    ELSE CreateMissingProperties(create,
                           AddReference(added, "HasTypeDefinition", ns.id, type),
                           ns.id, type)
           linked == IF parent = Null THEN typed.space
                     ELSE AddReference(typed.space, ns.reftype, parent, ns.id)
           grown == CreateChildren(create, linked, ns)
           one == CreateOne(create, s, ns, parent)
<1>1. one = IF refusal # "Good" THEN Result(s, refusal)
            ELSE IF typed.status # "Good" THEN typed
            ELSE IF parent # Null /\ parent \notin Present(typed.space)
              THEN Result(typed.space, "Bad_WrongParentId")
            ELSE IF parent # Null /\ As(typed.space, ns.reftype, {"ReferenceType"}) = Null
              THEN Result(typed.space, "Bad_WrongReferenceId")
            ELSE Result(SetPropertyValues(grown, ns.id, ns.props), "Good")
  BY DEF CreateOne, AddTyped, Complete
<1>2. refusal \in Statuses
  BY RefusalIsStatus
<1>3. {"Good", "Bad_WrongParentId", "Bad_WrongReferenceId"} \subseteq Statuses
  BY DEF Statuses
<1>4. s \in Spaces /\ ns.typedef \in Ids /\ ns.props \in Seq(NodeIds \X Int)
  BY StateFields DEF Closed
<1>5. type \in Ids
  BY <1>4 DEF As, Ids
<1> HIDE DEF type, refusal, added, typed, linked, grown, one
<1>6. CASE refusal # "Good"
  <2>1. Result(s, refusal) \in Made(K)
    BY <1>2, ResultMade
  <2>2. QED
    BY <1>1, <1>6, <2>1 DEF one
<1>7. CASE refusal = "Good"
  <2>1. /\ ns.id \in NodeIds /\ ns.id \notin Present(s)
        /\ NodeOf(s, ns) \in Nodes /\ NodeOf(s, ns).class # "None"
        /\ DataTypeOK(s, NodeOf(s, ns))
    BY <1>4, <1>7, AcceptedNode DEF refusal
  <2>2. added \in K
    BY <2>1 DEF Closed, added
  <2>3. typed \in Made(K)
    <3>1. AddReference(added, "HasTypeDefinition", ns.id, type) \in K
      BY <2>2 DEF Closed
    <3>2. Result(added, "Good") \in Made(K)
      BY <1>3, <2>2, ResultMade
    <3>3. CreateMissingProperties(create,
            AddReference(added, "HasTypeDefinition", ns.id, type), ns.id, type) \in Made(K)
      BY <1>5, <2>1, <3>1, CreateMissingPropertiesStays
    <3>4. QED
      BY <3>2, <3>3 DEF typed
  <2>4. typed.space \in K
    BY <2>3, MadeFields
  <2>5. linked \in K
    BY <2>4 DEF Closed, linked
  <2>6. grown \in K
    BY <2>5, CreateChildrenStays DEF grown
  <2>7. SetPropertyValues(grown, ns.id, ns.props) \in K
    BY <1>4, <2>1, <2>6, SetPropertyValuesStay
  <2>8. Result(SetPropertyValues(grown, ns.id, ns.props), "Good") \in Made(K)
    BY <1>3, <2>7, ResultMade
  <2>9. /\ Result(typed.space, "Bad_WrongParentId") \in Made(K)
        /\ Result(typed.space, "Bad_WrongReferenceId") \in Made(K)
    BY <1>3, <2>4, ResultMade
  <2>10. QED
    BY <1>1, <1>7, <2>3, <2>8, <2>9 DEF one
<1>8. QED
  BY <1>6, <1>7

\* What a maker does not leave: all the spaces there are, to begin with.
LEMMA SpacesClosed == Closed(Spaces)
<1>1. ASSUME NEW s \in Spaces PROVE [s EXCEPT !.panic = TRUE] \in Spaces
  BY DEF Spaces
<1>2. ASSUME NEW s \in Spaces, NEW n \in NodeIds, NEW node \in Nodes
      PROVE  [s EXCEPT !.node[n] = node] \in Spaces
  BY DEF Spaces
<1>3. ASSUME NEW s \in Spaces, NEW n \in NodeIds, NEW value \in Int
      PROVE  [s EXCEPT !.node[n].value = value] \in Spaces
  <2>1. [s.node[n] EXCEPT !.value = value] \in Nodes
    <3>1. s.node[n] \in Nodes
      BY SpaceFields
    <3>2. QED
      BY <3>1 DEF Nodes
  <2>2. [s EXCEPT !.node[n] = [s.node[n] EXCEPT !.value = value]] \in Spaces
    BY <1>2, <2>1
  <2>3. [s EXCEPT !.node[n].value = value] =
          [s EXCEPT !.node[n] = [s.node[n] EXCEPT !.value = value]]
    BY DEF Spaces
  <2>4. QED
    BY <2>2, <2>3
<1>4. ASSUME NEW s \in Spaces, NEW t, NEW source, NEW target
      PROVE  AddReference(s, t, source, target) \in Spaces
  <2>1. CASE ~CanAddReference(s, t, source, target)
    BY <1>1, <2>1 DEF AddReference
  <2>2. CASE CanAddReference(s, t, source, target)
    <3> DEFINE linked ==
           [s EXCEPT
              !.fwd[source] = Append(@, [type |-> t, node |-> target]),
              !.inv[target] = Append(@, [type |-> t, node |-> source]),
              !.typedef[source] = IF t = "HasTypeDefinition"
                                    THEN target ELSE @,
              !.super[target] = IF /\ t = "HasSubtype"
                                   /\ s.node[target].class \in TypeClasses
                                  THEN source ELSE @]
    <3>1. t \in NodeIds /\ source \in NodeIds /\ target \in NodeIds
      BY <2>2 DEF CanAddReference, Present
    <3>2. AddReference(s, t, source, target) = NotifyReference(linked, t, source, target, TRUE)
      BY <2>2 DEF AddReference
    <3>3. linked \in Spaces
      <4>1. /\ Append(s.fwd[source], [type |-> t, node |-> target]) \in Seq(References)
            /\ Append(s.inv[target], [type |-> t, node |-> source]) \in Seq(References)
        <5>1. /\ [type |-> t, node |-> target] \in References
              /\ [type |-> t, node |-> source] \in References
          BY <3>1 DEF References
        <5>2. s.fwd[source] \in Seq(References) /\ s.inv[target] \in Seq(References)
          BY <3>1, SpaceFields
        <5>3. QED
          BY <5>1, <5>2, AppendAdds
      <4>2. source \in Ids /\ target \in Ids
        BY <3>1 DEF Ids
      <4>3. QED
        BY <3>1, <4>1, <4>2 DEF Spaces
    <3> HIDE DEF linked
    <3>4. ASSUME NEW told \in Spaces, NEW signal \in Signals PROVE Notify(told, signal) \in Spaces
      <4>1. Append(told.signals, signal) \in Seq(Signals)
        BY SpaceFields
      <4>2. QED
        BY <4>1 DEF Notify, Spaces
    <3>5. /\ [kind |-> "added", type |-> t, node |-> source, target |-> target] \in Signals
          /\ [kind |-> "moved", type |-> t, node |-> target, target |-> Null] \in Signals
      BY <3>1 DEF Signals, Ids
    <3>6. QED
      BY <3>2, <3>3, <3>4, <3>5 DEF NotifyReference
  <2>3. QED
    BY <2>1, <2>2
<1>5. QED
  BY <1>1, <1>2, <1>3, <1>4 DEF Closed

\* CreateNodeHelper makes of a space, a node state and a parent a result.
LEMMA HelperMakes ==
  \A depth \in 0..Nesting :
    /\ CreateNodeHelper[depth] \in Makers
    /\ CreateNodeHelper[depth] = [s \in Spaces |-> [ns \in States |-> [parent \in Ids |->
         IF depth = 0 THEN Result([s EXCEPT !.panic = TRUE], "Good")
                      ELSE CreateOne(CreateNodeHelper[depth - 1], s, ns, parent)]]]
<1> DEFINE N == Nesting
           One(f) == [s \in Spaces |-> [ns \in States |-> [parent \in Ids |->
                        CreateOne(f, s, ns, parent)]]]
           step == [p \in Makers \X (1..N) |-> One(p[1])]
           Panics(s) == Result([s EXCEPT !.panic = TRUE], "Good")
           base == [s \in Spaces |-> [ns \in States |-> [parent \in Ids |-> Panics(s)]]]
           Def(g) == [depth \in 0..N |->
                        [s \in Spaces |-> [ns \in States |-> [parent \in Ids |->
                           IF depth = 0 THEN Panics(s)
                                        ELSE CreateOne(g[depth - 1], s, ns, parent)]]]]
<1>1. N \in Nat
  BY NestingAssumption
<1>2. base \in Makers
  <2>1. ASSUME NEW s \in Spaces PROVE Panics(s) \in Results
    <3>1. [s EXCEPT !.panic = TRUE] \in Spaces /\ "Good" \in Statuses
      BY SpacesClosed DEF Closed, Statuses
    <3>2. QED
      BY <3>1, SpacesClosed, ResultMade DEF Made
  <2> HIDE DEF Panics
  <2>2. QED
    BY <2>1 DEF Makers
<1>3. ASSUME NEW f \in Makers PROVE One(f) \in Makers
  <2>1. Keeps(f, Spaces)
    <3>1. ASSUME NEW s \in Spaces, NEW ns \in States, NEW parent \in Ids
          PROVE  f[s][ns][parent] \in Made(Spaces)
      <4>1. f[s][ns][parent] \in Results
        BY DEF Makers
      <4>2. QED
        BY <4>1 DEF Made, Results
    <3>2. QED
      BY <3>1 DEF Keeps
  <2>2. ASSUME NEW s \in Spaces, NEW ns \in States, NEW parent \in Ids
        PROVE  CreateOne(f, s, ns, parent) \in Results
    <3>1. CreateOne(f, s, ns, parent) \in Made(Spaces)
      BY <2>1, SpacesClosed, CreateOneStays
    <3>2. QED
      BY <3>1 DEF Made
  <2>3. QED
    BY <2>2 DEF Makers
<1> HIDE DEF One, Panics
<1>4. step \in [Makers \X (1..N) -> Makers]
  BY <1>3
<1>5. \A f \in Makers, i \in 1..N : step[<<f, i>>] = One(f)
  OBVIOUS
<1> HIDE DEF step
<1>6. PICK f \in [0..N -> Makers] : Goes(f, base, step, N)
  BY <1>1, <1>2, <1>4, StepByStep
<1>7. f = Def(f)
  <2>1. ASSUME NEW i \in 0..N
        PROVE  f[i] = [s \in Spaces |-> [ns \in States |-> [parent \in Ids |->
                         IF i = 0 THEN Panics(s) ELSE CreateOne(f[i - 1], s, ns, parent)]]]
    <3>1. CASE i = 0
      BY <1>6, <3>1 DEF Goes
    <3>2. CASE i # 0
      <4>1. i \in 1..N /\ i - 1 \in 0..N
        BY <1>1, <3>2
      <4>2. f[i] = step[<<f[i - 1], i>>] /\ f[i - 1] \in Makers
        BY <1>6, <4>1 DEF Goes
      <4>3. f[i] = One(f[i - 1])
        BY <1>5, <4>1, <4>2
      <4>4. QED
        BY <3>2, <4>3 DEF One
    <3>3. QED
      BY <3>1, <3>2
  <2>2. QED
    BY <2>1
<1>8. CreateNodeHelper = CHOOSE g : g = Def(g)
  BY DEF CreateNodeHelper, Panics
<1>9. CreateNodeHelper = Def(CreateNodeHelper)
  <2> HIDE DEF Def
  <2>1. \E g : g = Def(g)
    BY <1>7
  <2>2. QED
    BY <1>8, <2>1
<1> DEFINE H == CreateNodeHelper
<1>10. \A i \in 0..N :
         H[i] = [s \in Spaces |-> [ns \in States |-> [parent \in Ids |->
                   IF i = 0 THEN Panics(s) ELSE CreateOne(H[i - 1], s, ns, parent)]]]
  BY <1>9
<1> HIDE DEF H
<1> DEFINE Q == {i \in 0..N : H[i] \in Makers}
<1>11. 0 \in Q
  <2>1. 0 \in 0..N
    BY <1>1
  <2>2. H[0] = [s \in Spaces |-> [ns \in States |-> [parent \in Ids |->
                   IF 0 = 0 THEN Panics(s) ELSE CreateOne(H[0 - 1], s, ns, parent)]]]
    BY <1>10, <2>1
  <2>3. H[0] = base
    BY <2>2
  <2> HIDE DEF base
  <2>4. QED
    BY <1>2, <2>1, <2>3
<1>12. ASSUME NEW i \in 1..N, i - 1 \in Q PROVE i \in Q
  <2>1. i \in 0..N /\ i # 0 /\ H[i - 1] \in Makers
    BY <1>1, <1>12
  <2>2. H[i] = [s \in Spaces |-> [ns \in States |-> [parent \in Ids |->
                  IF i = 0 THEN Panics(s) ELSE CreateOne(H[i - 1], s, ns, parent)]]]
    BY <1>10, <2>1
  <2>3. H[i] = One(H[i - 1])
    BY <2>1, <2>2 DEF One
  <2>4. QED
    BY <1>3, <2>1, <2>3
<1>13. 0..N \subseteq Q
  <2> HIDE DEF Q
  <2>1. QED
    BY <1>1, <1>11, <1>12, UpTo
<1>14. QED
  BY <1>10, <1>13 DEF H, Panics

\* CreateNode does not leave K, however deep its node state nests.
LEMMA CreateNodeStays ==
  ASSUME NEW K, Closed(K), NEW s \in K, NEW ns \in States
  PROVE  CreateNode(s, ns) \in Made(K)
<1> DEFINE H == CreateNodeHelper
           Q == {i \in 0..Nesting : Keeps(H[i], K)}
<1>1. Nesting \in Nat
  BY NestingAssumption
<1>2. ASSUME NEW i \in 0..Nesting, NEW z \in K, NEW x \in States, NEW parent \in Ids
      PROVE  H[i][z][x][parent] = IF i = 0 THEN Result([z EXCEPT !.panic = TRUE], "Good")
                                  ELSE CreateOne(H[i - 1], z, x, parent)
  <2>1. H[i] = [w \in Spaces |-> [y \in States |-> [p \in Ids |->
          IF i = 0 THEN Result([w EXCEPT !.panic = TRUE], "Good")
                   ELSE CreateOne(H[i - 1], w, y, p)]]]
    BY HelperMakes
  <2>2. z \in Spaces
    BY DEF Closed
  <2>3. QED
    BY <2>1, <2>2
<1>3. \A i \in 0..Nesting : H[i] \in Makers
  BY HelperMakes
<1> HIDE DEF H
<1>4. 0 \in Q
  <2>1. 0 \in 0..Nesting
    BY <1>1
  <2>2. ASSUME NEW z \in K, NEW x \in States, NEW parent \in Ids
        PROVE  H[0][z][x][parent] \in Made(K)
    <3>1. [z EXCEPT !.panic = TRUE] \in K /\ "Good" \in Statuses
      BY DEF Closed, Statuses
    <3>2. H[0][z][x][parent] = Result([z EXCEPT !.panic = TRUE], "Good")
      BY <1>2, <2>1
    <3>3. QED
      BY <3>1, <3>2, ResultMade
  <2>3. QED
    BY <1>3, <2>1, <2>2 DEF Keeps
<1>5. ASSUME NEW i \in 1..Nesting, i - 1 \in Q PROVE i \in Q
  <2>1. i \in 0..Nesting /\ i # 0 /\ Keeps(H[i - 1], K)
    BY <1>1, <1>5
  <2>2. ASSUME NEW z \in K, NEW x \in States, NEW parent \in Ids
        PROVE  H[i][z][x][parent] \in Made(K)
    <3>1. H[i][z][x][parent] = CreateOne(H[i - 1], z, x, parent)
      BY <1>2, <2>1
    <3>2. QED
      BY <2>1, <3>1, CreateOneStays
  <2>3. QED
    BY <1>3, <2>1, <2>2 DEF Keeps
<1>6. Nesting \in Q
  <2> HIDE DEF Q
  <2>1. 0..Nesting \subseteq Q
    BY <1>1, <1>4, <1>5, UpTo
  <2>2. QED
    BY <1>1, <2>1
<1>7. ns.parent \in Ids
  BY StateFields
<1>8. QED
  BY <1>6, <1>7 DEF Keeps, CreateNode, H

-----------------------------------------------------------------------------
(* Loading.                                                                *)

\* The references a node state lists.
StateReferences == [type : NodeIds, forward : BOOLEAN, node : NodeIds]

\* A list is a list of its elements.
LEMMA ListOfItsElements ==
  ASSUME NEW X, NEW list \in Seq(X)
  PROVE  list \in Seq(ToSet(list)) /\ ToSet(list) \subseteq X
<1>1. Len(list) \in Nat /\ list \in [1..Len(list) -> X] /\ DOMAIN list = 1..Len(list)
  OBVIOUS
<1>2. \A i \in 1..Len(list) : list[i] \in ToSet(list)
  BY <1>1 DEF ToSet
<1>3. list \in Seq(ToSet(list))
  BY <1>1, <1>2
<1>4. QED
  BY <1>1, <1>3 DEF ToSet

\* The references of a node state name nodes.
LEMMA StateRefsType ==
  ASSUME NEW ns \in States
  PROVE  ns.refs \in Seq(StateReferences) /\ Len(ns.refs) \in Nat
<1>1. ns.refs \in Seq([type : NodeIds, forward : BOOLEAN, node : NodeIds])
  BY StateFields
<1>2. ns.refs \in Seq(StateReferences)
  BY <1>1 DEF StateReferences
<1>3. QED
  BY <1>2

\* Reading one reference of an element leaves a node state.
LEMMA ReadUaReferenceType ==
  ASSUME NEW ns \in States, NEW r \in StateReferences
  PROVE  ReadUaReference(ns, r) \in States
<1>1. PICK lists : States = StatesWith(lists)
  BY StatesAre
<1>2. r.node \in Ids /\ r.type \in Ids
  BY DEF StateReferences, Ids
<1>3. Append(ns.refs, r) \in Seq(StateReferences)
  <2>1. ns.refs \in Seq(StateReferences)
    BY StateRefsType
  <2>2. QED
    BY <2>1
<1>4. ASSUME NEW x \in StatesWith(lists), x = ns
      PROVE  /\ [x EXCEPT !.super = r.node, !.parent = r.node, !.reftype = r.type]
                     \in StatesWith(lists)
             /\ [x EXCEPT !.parent = r.node, !.reftype = r.type] \in StatesWith(lists)
             /\ [x EXCEPT !.typedef = r.node] \in StatesWith(lists)
  BY <1>2 DEF StatesWith
<1>5. [ns EXCEPT !.refs = Append(@, r)] \in StatesWith(lists)
  BY <1>1, <1>3 DEF StatesWith, StateReferences
<1>6. QED
  BY <1>1, <1>4, <1>5 DEF ReadUaReference

\* Reading an element gives a node state.
LEMMA ReadUaNodeStateType ==
  ASSUME NEW element \in States
  PROVE  ReadUaNodeState(element) \in States
<1> DEFINE R == ToSet(element.refs)
           step == [ns \in States |-> [r \in R |-> ReadUaReference(ns, r)]]
           blank == [element EXCEPT !.refs = <<>>]
<1>1. element.refs \in Seq(R) /\ R \subseteq StateReferences
  BY StateFields, ListOfItsElements DEF StateReferences
<1>2. blank \in States
  <2>1. PICK lists : States = StatesWith(lists)
    BY StatesAre
  <2>2. element \in StatesWith(lists)
    BY <2>1
  <2>3. <<>> \in Seq([type : NodeIds, forward : BOOLEAN, node : NodeIds])
    OBVIOUS
  <2>4. [element EXCEPT !.refs = <<>>] \in StatesWith(lists)
    BY <2>2, <2>3 DEF StatesWith
  <2>5. QED
    BY <2>1, <2>4
<1>3. ReadUaNodeState(element) = Through(step, blank, element.refs)
  BY DEF ReadUaNodeState
<1>4. \A ns \in States, r \in R : step[ns][r] = ReadUaReference(ns, r)
  OBVIOUS
<1> HIDE DEF step, blank, R
<1>5. \A ns \in States, r \in R : step[ns][r] \in States
  BY <1>1, <1>4, ReadUaReferenceType
<1>6. StepsStay(step, States, R)
  BY <1>5 DEF StepsStay
<1>7. QED
  BY <1>1, <1>2, <1>3, <1>6, ThroughStays

\* Promoting a parent gives a node state.
LEMMA PromoteType ==
  ASSUME NEW ns \in States, NEW supers
  PROVE  Promote(supers, ns) \in States
<1> DEFINE IsParent(r) == ~r.forward /\ IsParsedHierarchical(supers, r.type)
           I == {k \in 1..Len(ns.refs) : IsParent(ns.refs[k])}
           i == SelectInSeq(ns.refs, IsParent)
           moved == [ns EXCEPT !.parent = ns.refs[i].node,
                               !.reftype = ns.refs[i].type,
                               !.refs = RemoveAt(ns.refs, i)]
<1>1. Promote(supers, ns) = ns \/ (i # 0 /\ Promote(supers, ns) = moved)
  BY DEF Promote
<1>2. i = IF I # {} THEN Min(I) ELSE 0
  BY DEF SelectInSeq
<1>3. ns.refs \in Seq(StateReferences) /\ Len(ns.refs) \in Nat
  BY StateRefsType
<1>4. CASE i # 0
  <2>1. i \in I
    <3>1. Min(I) = CHOOSE m \in I : \A y \in I : m <= y
      BY DEF Min
    <3>2. I # {} /\ i = Min(I)
      BY <1>2, <1>4
    <3>3. I \in SUBSET Nat
      BY <1>3
    <3> HIDE DEF I, i
    <3>4. \E m \in I : \A y \in I : m <= y
      BY <3>2, <3>3, LeastElement
    <3>5. QED
      BY <3>1, <3>2, <3>4
  <2>2. i \in 1..Len(ns.refs)
    BY <2>1
  <2> HIDE DEF i
  <2>3. ns.refs[i] \in StateReferences /\ RemoveAt(ns.refs, i) \in Seq(StateReferences)
    BY <1>3, <2>2, RemoveAtShifts
  <2>4. ns.refs[i].node \in Ids /\ ns.refs[i].type \in Ids
    BY <2>3 DEF StateReferences, Ids
  <2>5. PICK lists : States = StatesWith(lists)
    BY StatesAre
  <2>6. ns \in StatesWith(lists)
    BY <2>5
  <2>7. RemoveAt(ns.refs, i) \in Seq([type : NodeIds, forward : BOOLEAN, node : NodeIds])
    BY <2>3 DEF StateReferences
  <2>8. moved \in StatesWith(lists)
    BY <2>4, <2>6, <2>7 DEF StatesWith
  <2>9. QED
    BY <1>1, <2>5, <2>8
<1>5. CASE i = 0
  BY <1>1, <1>5
<1>6. QED
  BY <1>4, <1>5

\* What a state needs are some of the states.
LEMMA NeighborsType ==
  ASSUME NEW states, NEW i
  PROVE  Neighbors(states, i) \in Seq(DOMAIN states)
<1> DEFINE ns == states[i]
           ids == <<IF ns.super = Null THEN Null ELSE "HasSubtype",
                    IF ns.typedef = Null THEN Null ELSE "HasTypeDefinition",
                    ns.super, ns.reftype, ns.parent, ns.typedef, ns.dt>>
           list == [k \in DOMAIN ids |-> StateOf(states, ids[k])]
           X == {StateOf(states, ids[k]) : k \in 1..7}
<1>1. Neighbors(states, i) = Kept(list, DOMAIN states)
  BY DEF Neighbors
<1>2. DOMAIN ids = 1..7
  OBVIOUS
<1> HIDE DEF ids
<1>3. list \in Seq(X)
  BY <1>2
<1> HIDE DEF list, X
<1>4. /\ Kept(list, DOMAIN states) \in Seq(X)
      /\ ToSet(Kept(list, DOMAIN states)) = ToSet(list) \cap DOMAIN states
  BY <1>3, KeptElements
<1>5. Kept(list, DOMAIN states) \in Seq(ToSet(Kept(list, DOMAIN states)))
  BY <1>4, ListOfItsElements
<1>6. ASSUME NEW a, NEW b, a \subseteq b PROVE Seq(a) \subseteq Seq(b)
  BY <1>6
<1>7. ToSet(Kept(list, DOMAIN states)) \subseteq DOMAIN states
  BY <1>4
<1>8. Seq(ToSet(Kept(list, DOMAIN states))) \subseteq Seq(DOMAIN states)
  BY <1>6, <1>7
<1>9. QED
  BY <1>1, <1>5, <1>8

\* A visit keeps to the states.
Visitors(states) == [Visits(states) -> [DOMAIN states -> Visits(states)]]

\* The depth-first visit marks and lists indexes of the states.
LEMMA VisitIndexType ==
  ASSUME NEW X, NEW states \in Seq(X)
  PROVE  VisitIndex(states) \in Visitors(states)
<1> DEFINE N == Len(states)
           D == DOMAIN states
           V == Visits(states)
           W == Visitors(states)
           below(f, acc, i) == Through(f, [acc EXCEPT !.visited = @ \cup {i}],
                                       Neighbors(states, i))
           one(f, acc, i) == IF i \in acc.visited THEN acc
                             ELSE [below(f, acc, i) EXCEPT !.sorted = Append(@, i)]
           One(f) == [acc \in V |-> [i \in D |-> one(f, acc, i)]]
           step == [p \in W \X (1..N) |-> One(p[1])]
           base == [acc \in V |-> [i \in D |-> acc]]
           Def(g) == [left \in 0..N |->
                        [acc \in V |-> [i \in D |->
                           IF i \in acc.visited \/ left = 0 THEN acc
                           ELSE [below(g[left - 1], acc, i) EXCEPT !.sorted = Append(@, i)]]]]
           visit == CHOOSE g : g = Def(g)
<1>1. N \in Nat /\ base \in W
  BY DEF Visitors
<1>2. ASSUME NEW f \in W PROVE One(f) \in W
  <2>1. ASSUME NEW acc \in V, NEW i \in D PROVE one(f, acc, i) \in V
    <3>1. CASE i \in acc.visited
      BY <3>1
    <3>2. CASE i \notin acc.visited
      <4>1. [acc EXCEPT !.visited = @ \cup {i}] \in V
        BY DEF Visits
      <4>2. StepsStay(f, V, D)
        BY DEF StepsStay, Visitors
      <4>3. Neighbors(states, i) \in Seq(D)
        BY NeighborsType
      <4>4. below(f, acc, i) \in V
        <5> HIDE DEF V, D
        <5>1. QED
          BY <4>1, <4>2, <4>3, ThroughStays
      <4> HIDE DEF below
      <4>5. Append(below(f, acc, i).sorted, i) \in Seq(D)
        BY <4>4 DEF Visits
      <4>6. [below(f, acc, i) EXCEPT !.sorted = Append(@, i)] \in V
        BY <4>4, <4>5 DEF Visits
      <4>7. QED
        BY <3>2, <4>6
    <3>3. QED
      BY <3>1, <3>2
  <2> HIDE DEF one
  <2>2. QED
    BY <2>1 DEF Visitors
<1>3. VisitIndex(states) = visit[N]
  BY DEF VisitIndex
<1> HIDE DEF below, D, V, W
<1> HIDE DEF One
<1>4. step \in [W \X (1..N) -> W]
  BY <1>2
<1>5. \A f \in W, i \in 1..N : step[<<f, i>>] = One(f)
  OBVIOUS
<1> HIDE DEF step, base
<1>6. PICK f \in [0..N -> W] : Goes(f, base, step, N)
  BY <1>1, <1>4, StepByStep
<1>7. f = Def(f)
  <2>1. ASSUME NEW k \in 0..N
        PROVE  f[k] = [acc \in V |-> [i \in D |->
                         IF i \in acc.visited \/ k = 0 THEN acc
                         ELSE [below(f[k - 1], acc, i) EXCEPT !.sorted = Append(@, i)]]]
    <3>1. CASE k = 0
      BY <1>6, <3>1 DEF Goes, base
    <3>2. CASE k # 0
      <4>1. k \in 1..N /\ k - 1 \in 0..N
        BY <1>1, <3>2
      <4>2. f[k] = step[<<f[k - 1], k>>] /\ f[k - 1] \in W
        BY <1>6, <4>1 DEF Goes
      <4>3. f[k] = One(f[k - 1])
        BY <1>5, <4>1, <4>2
      <4>4. QED
        BY <3>2, <4>3 DEF One, one
    <3>3. QED
      BY <3>1, <3>2
  <2>2. QED
    BY <2>1
<1>8. visit = Def(visit)
  <2> HIDE DEF Def
  <2>1. QED
    BY <1>7
<1> HIDE DEF visit
<1>9. \A k \in 0..N :
        visit[k] = [acc \in V |-> [i \in D |->
                      IF i \in acc.visited \/ k = 0 THEN acc
                      ELSE [below(visit[k - 1], acc, i) EXCEPT !.sorted = Append(@, i)]]]
  BY <1>8
<1> DEFINE Q == {k \in 0..N : visit[k] \in W}
<1>10. 0 \in Q
  <2>1. 0 \in 0..N
    BY <1>1
  <2>2. visit[0] = [acc \in V |-> [i \in D |->
                      IF i \in acc.visited \/ 0 = 0 THEN acc
                      ELSE [below(visit[0 - 1], acc, i) EXCEPT !.sorted = Append(@, i)]]]
    BY <1>9, <2>1
  <2>3. visit[0] = base
    BY <2>2 DEF base
  <2>4. QED
    BY <1>1, <2>1, <2>3
<1>11. ASSUME NEW k \in 1..N, k - 1 \in Q PROVE k \in Q
  <2>1. k \in 0..N /\ k # 0 /\ visit[k - 1] \in W
    BY <1>1, <1>11
  <2>2. visit[k] = [acc \in V |-> [i \in D |->
                      IF i \in acc.visited \/ k = 0 THEN acc
                      ELSE [below(visit[k - 1], acc, i) EXCEPT !.sorted = Append(@, i)]]]
    BY <1>9, <2>1
  <2>3. visit[k] = One(visit[k - 1])
    BY <2>1, <2>2 DEF One, one
  <2>4. QED
    BY <1>2, <2>1, <2>3
<1>12. N \in Q
  <2> HIDE DEF Q
  <2>1. 0..N \subseteq Q
    BY <1>1, <1>10, <1>11, UpTo
  <2>2. QED
    BY <1>1, <2>1
<1>13. QED
  BY <1>3, <1>12 DEF W

\* Sorting gives some of the states.
LEMMA SortedType ==
  ASSUME NEW X, NEW states \in Seq(X)
  PROVE  SortNodesHierarchically(states) \in Seq(X)
<1> DEFINE V == Visits(states)
           D == DOMAIN states
           start == [visited |-> {}, sorted |-> <<>>]
           all == [i \in D |-> i]
           indexes == SortedIndexes(states)
<1>1. Len(states) \in Nat /\ D = 1..Len(states) /\ \A i \in D : states[i] \in X
  OBVIOUS
<1>2. start \in V
  <2>1. {} \in SUBSET DOMAIN states /\ <<>> \in Seq(DOMAIN states)
    OBVIOUS
  <2>2. QED
    BY <2>1 DEF Visits
<1>3. all \in Seq(D)
  BY <1>1
<1>4. StepsStay(VisitIndex(states), V, D)
  BY VisitIndexType DEF StepsStay, Visitors
<1>5. Through(VisitIndex(states), start, all) \in V
  <2> HIDE DEF V, D, start, all
  <2>1. QED
    BY <1>2, <1>3, <1>4, ThroughStays
<1>6. indexes = Through(VisitIndex(states), start, all).sorted
  BY DEF SortedIndexes
<1>7. indexes \in Seq(D)
  <2> HIDE DEF start, all, indexes
  <2>1. QED
    BY <1>5, <1>6 DEF Visits
<1>8. SortNodesHierarchically(states) = [i \in DOMAIN indexes |-> states[indexes[i]]]
  BY DEF SortNodesHierarchically
<1> HIDE DEF indexes
<1>9. /\ Len(indexes) \in Nat /\ DOMAIN indexes = 1..Len(indexes)
      /\ \A i \in 1..Len(indexes) : indexes[i] \in D
  BY <1>7
<1>10. QED
  BY <1>1, <1>8, <1>9

\* Creating the sorted nodes does not leave K.
LEMMA CreateSortedStays ==
  ASSUME NEW K, Closed(K), NEW s \in K, NEW states \in Seq(States)
  PROVE  CreateSorted(s, states) \in Made(K)
<1> DEFINE step == [made \in Results |-> [ns \in States |->
                      IF made.status = "Good" /\ ns.id \notin Present(made.space)
                        THEN CreateNode(made.space, [ns EXCEPT !.props = <<>>])
                        ELSE made]]
<1>1. ASSUME NEW made \in Made(K), NEW ns \in States PROVE step[made][ns] \in Made(K)
  <2>1. made \in Results /\ made.space \in K
    BY DEF Made
  <2>2. [ns EXCEPT !.props = <<>>] \in States
    <3>1. PICK lists : States = StatesWith(lists)
      BY StatesAre
    <3>2. ns \in StatesWith(lists) /\ <<>> \in Seq(NodeIds \X Int)
      BY <3>1
    <3>3. [ns EXCEPT !.props = <<>>] \in StatesWith(lists)
      BY <3>2 DEF StatesWith
    <3>4. QED
      BY <3>1, <3>3
  <2>3. CreateNode(made.space, [ns EXCEPT !.props = <<>>]) \in Made(K)
    BY <2>1, <2>2, CreateNodeStays
  <2>4. step[made][ns] = IF made.status = "Good" /\ ns.id \notin Present(made.space)
                           THEN CreateNode(made.space, [ns EXCEPT !.props = <<>>])
                           ELSE made
    BY <2>1
  <2>5. QED
    BY <2>3, <2>4
<1>2. CreateSorted(s, states) = Through(step, Result(s, "Good"), states)
  BY DEF CreateSorted
<1> HIDE DEF step
<1>3. StepsStay(step, Made(K), States)
  BY <1>1 DEF StepsStay
<1>4. "Good" \in Statuses
  BY DEF Statuses
<1>5. Result(s, "Good") \in Made(K)
  BY <1>4, ResultMade
<1>6. QED
  BY <1>2, <1>3, <1>5, ThroughStays

\* Neither does adding a reference that is not there yet.
LEMMA EnsureStays ==
  ASSUME NEW K, Closed(K), NEW made \in Made(K), NEW t, NEW source, NEW target
  PROVE  Ensure(made, t, source, target) \in Made(K)
<1>1. made.space \in K
  BY MadeFields
<1>2. AddReference(made.space, t, source, target) \in K
  BY <1>1 DEF Closed
<1>3. {"Good", "Bad_WrongTypeId", "Bad_WrongNodeId"} \subseteq Statuses
  BY DEF Statuses
<1>4. \A code \in Statuses : Result(made.space, code) \in Made(K)
  BY <1>1, ResultMade
<1>5. Result(AddReference(made.space, t, source, target), "Good") \in Made(K)
  BY <1>2, <1>3, ResultMade
<1>6. QED
  BY <1>3, <1>4, <1>5 DEF Ensure

\* Neither does adding the references of a node state.
LEMMA LinkStateStays ==
  ASSUME NEW K, Closed(K), NEW made \in Made(K), NEW ns \in States
  PROVE  LinkState(made, ns) \in Made(K)
<1> DEFINE R == ToSet(ns.refs)
           step == [m \in Results |-> [r \in R |->
                      IF r.forward THEN Ensure(m, r.type, ns.id, r.node)
                                   ELSE Ensure(m, r.type, r.node, ns.id)]]
           start == IF ns.super = Null THEN made
                    ELSE Ensure(made, "HasSubtype", ns.super, ns.id)
<1>1. ns.refs \in Seq(R)
  BY StateRefsType, ListOfItsElements
<1>2. start \in Made(K)
  BY EnsureStays
<1>3. ASSUME NEW m \in Made(K), NEW r \in R PROVE step[m][r] \in Made(K)
  <2>1. m \in Results
    BY DEF Made
  <2>2. step[m][r] = IF r.forward THEN Ensure(m, r.type, ns.id, r.node)
                                  ELSE Ensure(m, r.type, r.node, ns.id)
    BY <2>1
  <2>3. QED
    BY <2>2, EnsureStays
<1>4. LinkState(made, ns) = Through(step, start, ns.refs)
  BY DEF LinkState
<1> HIDE DEF step, start, R
<1>5. StepsStay(step, Made(K), R)
  BY <1>3 DEF StepsStay
<1>6. QED
  BY <1>1, <1>2, <1>4, <1>5, ThroughStays

\* Loading the static files does not leave K, in whatever order they are read.
LEMMA LoadStays ==
  ASSUME NEW K, Closed(K), NEW s \in K, NEW elements \in Seq(States)
  PROVE  LoadStaticUANodeSet(s, elements) \in Made(K)
<1> DEFINE states == [i \in DOMAIN elements |-> ReadUaNodeState(elements[i])]
           supers == ParsedSupertypes(states)
           promoted == PromoteHierarchicalParents(states)
           sorted == SortNodesHierarchically(promoted)
           created == CreateSorted(s, sorted)
           step == [made \in Results |-> [ns \in States |-> LinkState(made, ns)]]
           loaded == Through(step, created, sorted)
<1>1. LoadStaticUANodeSet(s, elements) =
        IF created.status # "Good" THEN created ELSE loaded
  BY DEF LoadStaticUANodeSet, ApplyNodeStates
<1>2. states \in Seq(States)
  <2>1. /\ Len(elements) \in Nat /\ DOMAIN elements = 1..Len(elements)
        /\ \A i \in 1..Len(elements) : elements[i] \in States
    OBVIOUS
  <2>2. \A i \in 1..Len(elements) : ReadUaNodeState(elements[i]) \in States
    BY <2>1, ReadUaNodeStateType
  <2>3. QED
    BY <2>1, <2>2
<1>3. promoted \in Seq(States)
  <2>1. promoted = [i \in DOMAIN states |-> Promote(supers, states[i])]
    BY DEF PromoteHierarchicalParents
  <2> HIDE DEF states, supers, promoted
  <2>2. /\ Len(states) \in Nat /\ DOMAIN states = 1..Len(states)
        /\ \A i \in 1..Len(states) : states[i] \in States
    BY <1>2
  <2>3. \A i \in 1..Len(states) : Promote(supers, states[i]) \in States
    BY <2>2, PromoteType
  <2>4. QED
    BY <2>1, <2>2, <2>3
<1>4. sorted \in Seq(States)
  <2> HIDE DEF promoted
  <2>1. QED
    BY <1>3, SortedType
<1>5. created \in Made(K)
  <2> HIDE DEF sorted
  <2>1. QED
    BY <1>4, CreateSortedStays
<1>6. ASSUME NEW made \in Made(K), NEW ns \in States PROVE step[made][ns] \in Made(K)
  <2>1. made \in Results
    BY DEF Made
  <2>2. step[made][ns] = LinkState(made, ns)
    BY <2>1
  <2>3. QED
    BY <2>2, LinkStateStays
<1>7. loaded \in Made(K)
  <2> HIDE DEF step, sorted, created
  <2>1. StepsStay(step, Made(K), States)
    BY <1>6 DEF StepsStay
  <2>2. QED
    BY <1>4, <1>5, <2>1, ThroughStays
<1>8. QED
  BY <1>1, <1>5, <1>7

\* The nodes built in code, before their references.
Built ==
  [EmptySpace EXCEPT
     !.node = [n \in NodeIds |->
                 IF n \in DOMAIN StandardNodes THEN StandardNodes[n] ELSE NoNode]]

\* Neither do the references that are built in code.
LEMMA StandardSpaceStays ==
  ASSUME NEW K, Closed(K), Built \in K
  PROVE  \E s \in K : StandardSpace = [s EXCEPT !.signals = <<>>]
<1> DEFINE E == NodeIds \X NodeIds \X NodeIds
           step == [s \in Spaces |-> [e \in E |-> AddReference(s, e[1], e[2], e[3])]]
           linked == Through(step, Built, StandardEdges)
<1>1. StandardSpace = [linked EXCEPT !.signals = <<>>]
  BY DEF StandardSpace, Built
<1>2. ASSUME NEW s \in K, NEW e \in E PROVE step[s][e] \in K
  <2>1. s \in Spaces
    BY DEF Closed
  <2>2. step[s][e] = AddReference(s, e[1], e[2], e[3])
    BY <2>1
  <2>3. QED
    BY <2>2 DEF Closed
<1>3. StandardEdges \in Seq(E)
  BY AddressSpaceAssumption
<1> HIDE DEF step, E
<1>4. StepsStay(step, K, E)
  BY <1>2 DEF StepsStay
<1>5. linked \in K
  BY <1>3, <1>4, ThroughStays
<1>6. QED
  BY <1>1, <1>5

\* The nodes built in code form a space.
LEMMA BuiltType == Built \in Spaces
<1>1. NoNode \in Nodes
  <2>1. "None" \in NodeClasses
    BY DEF NodeClasses
  <2>2. Null \in Ids /\ 0 \in Int
    BY DEF Ids
  <2>3. "" \in Names
    BY SpaceAssumption
  <2>4. QED
    BY <2>1, <2>2, <2>3 DEF NoNode, Nodes
<1>2. [n \in NodeIds |-> IF n \in DOMAIN StandardNodes THEN StandardNodes[n] ELSE NoNode]
        \in [NodeIds -> Nodes]
  BY <1>1, AddressSpaceAssumption
<1>3. Null \in Ids /\ <<>> \in Seq(References) /\ <<>> \in Seq(Signals)
  BY DEF Ids
<1>4. EmptySpace \in Spaces
  BY <1>1, <1>3 DEF EmptySpace, Spaces
<1>5. QED
  BY <1>2, <1>4 DEF Built, Spaces

-----------------------------------------------------------------------------
(* A reference is kept in four places.                                     *)

\* In the list of its source, and in the list of its target.
Has(s, t, source, target) == [type |-> t, node |-> target] \in ToSet(s.fwd[source])

Back(s, t, source, target) == [type |-> t, node |-> source] \in ToSet(s.inv[target])

Coherent(s) ==
  /\ s \in Spaces
  /\ \A n \in NodeIds : IsInjective(s.fwd[n]) /\ IsInjective(s.inv[n])
  /\ \A t, a, b \in NodeIds : Has(s, t, a, b) <=> Back(s, t, a, b)
  /\ \A t, a, b \in NodeIds : Has(s, t, a, b) => {t, a, b} \subseteq Present(s)
  /\ \A a, b \in NodeIds : Has(s, "HasTypeDefinition", a, b) <=> s.typedef[a] = b
  /\ \A a, b \in NodeIds : IsType(s, b) => (Has(s, "HasSubtype", a, b) <=> s.super[b] = a)
  /\ \A b \in NodeIds : ~IsType(s, b) => s.super[b] = Null

DataTyped(s) == \A n \in NodeIds : DataTypeOK(s, s.node[n])

\* Forward lists hold what Has says, and nothing else.
LEMMA ListsHave ==
  ASSUME NEW s \in Spaces, NEW n \in NodeIds
  PROVE  /\ \A r \in ToSet(s.fwd[n]) :
              /\ r.type \in NodeIds /\ r.node \in NodeIds
              /\ r = [type |-> r.type, node |-> r.node] /\ Has(s, r.type, n, r.node)
         /\ \A r \in ToSet(s.inv[n]) :
              /\ r.type \in NodeIds /\ r.node \in NodeIds
              /\ r = [type |-> r.type, node |-> r.node] /\ Back(s, r.type, r.node, n)
<1>1. s.fwd[n] \in Seq(References) /\ s.inv[n] \in Seq(References)
  BY SpaceFields
<1>2. ToSet(s.fwd[n]) \subseteq References /\ ToSet(s.inv[n]) \subseteq References
  BY <1>1, ListOfItsElements
<1>3. \A r \in References : /\ r.type \in NodeIds /\ r.node \in NodeIds
                            /\ r = [type |-> r.type, node |-> r.node]
  BY DEF References
<1>4. QED
  BY <1>2, <1>3 DEF Has, Back

\* References are of types that are nodes, and lead to nodes.
LEMMA HasType ==
  ASSUME NEW s \in Spaces, NEW t, NEW a \in NodeIds, NEW b, Has(s, t, a, b)
  PROVE  t \in NodeIds /\ b \in NodeIds
<1> DEFINE r == [type |-> t, node |-> b]
<1>1. r \in ToSet(s.fwd[a]) /\ r.type = t /\ r.node = b
  BY DEF Has
<1> HIDE DEF r
<1>2. r.type \in NodeIds /\ r.node \in NodeIds
  BY <1>1, ListsHave
<1>3. QED
  BY <1>1, <1>2

\* Edges holds what Has says, and nothing else.
LEMMA EdgesHave ==
  ASSUME NEW s \in Spaces
  PROVE  /\ Edges(s) \subseteq NodeIds \X NodeIds \X NodeIds
         /\ \A t, a, b \in NodeIds : <<t, a, b>> \in Edges(s) <=> Has(s, t, a, b)
         /\ \A e \in Edges(s) : /\ e = <<e[1], e[2], e[3]>> /\ Has(s, e[1], e[2], e[3])
                                /\ e[1] \in NodeIds /\ e[2] \in NodeIds /\ e[3] \in NodeIds
<1>1. ASSUME NEW e \in Edges(s)
      PROVE  \E n \in NodeIds : \E r \in ToSet(s.fwd[n]) : e = <<r.type, n, r.node>>
  BY DEF Edges
<1>2. ASSUME NEW e \in Edges(s)
      PROVE  /\ e = <<e[1], e[2], e[3]>> /\ Has(s, e[1], e[2], e[3])
             /\ e[1] \in NodeIds /\ e[2] \in NodeIds /\ e[3] \in NodeIds
  <2>1. PICK n \in NodeIds : \E r \in ToSet(s.fwd[n]) : e = <<r.type, n, r.node>>
    BY <1>1
  <2>2. PICK r \in ToSet(s.fwd[n]) : e = <<r.type, n, r.node>>
    BY <2>1
  <2>3. r.type \in NodeIds /\ r.node \in NodeIds /\ Has(s, r.type, n, r.node)
    BY ListsHave
  <2>4. QED
    BY <2>2, <2>3
<1>3. ASSUME NEW t \in NodeIds, NEW a \in NodeIds, NEW b \in NodeIds
      PROVE  <<t, a, b>> \in Edges(s) <=> Has(s, t, a, b)
  <2>1. ASSUME Has(s, t, a, b) PROVE <<t, a, b>> \in Edges(s)
    <3> DEFINE r == [type |-> t, node |-> b]
    <3>1. r \in ToSet(s.fwd[a]) /\ <<t, a, b>> = <<r.type, a, r.node>>
      BY <2>1 DEF Has
    <3>2. QED
      BY <3>1 DEF Edges
  <2>2. ASSUME <<t, a, b>> \in Edges(s) PROVE Has(s, t, a, b)
    <3>1. Has(s, <<t, a, b>>[1], <<t, a, b>>[2], <<t, a, b>>[3])
      BY <1>2, <2>2
    <3>2. QED
      BY <3>1
  <2>3. QED
    BY <2>1, <2>2
<1>4. Edges(s) \subseteq NodeIds \X NodeIds \X NodeIds
  <2>1. ASSUME NEW e \in Edges(s) PROVE e \in NodeIds \X NodeIds \X NodeIds
    BY <1>2
  <2>2. QED
    BY <2>1
<1>5. QED
  BY <1>2, <1>3, <1>4

\* The invariant in the words of the specification.
LEMMA CoherentAgrees ==
  Coherent(space) => ReferencesAgree
<1> SUFFICES ASSUME Coherent(space) PROVE ReferencesAgree
  OBVIOUS
<1> DEFINE s == space
           Defs(n) == {r.node : r \in {q \in ToSet(s.fwd[n]) : q.type = "HasTypeDefinition"}}
           Sups(n) == {r.node : r \in {q \in ToSet(s.inv[n]) : q.type = "HasSubtype"}}
<1>1. s \in Spaces
  BY DEF Coherent
<1>2. ASSUME NEW n \in NodeIds, NEW r \in ToSet(s.fwd[n])
      PROVE  /\ {r.type, r.node, n} \subseteq Present(s)
             /\ [type |-> r.type, node |-> n] \in ToSet(s.inv[r.node])
  <2>1. r.type \in NodeIds /\ r.node \in NodeIds /\ Has(s, r.type, n, r.node)
    BY <1>1, ListsHave
  <2>2. Back(s, r.type, n, r.node) /\ {r.type, r.node, n} \subseteq Present(s)
    BY <2>1 DEF Coherent
  <2>3. QED
    BY <2>2 DEF Back
<1>3. ASSUME NEW n \in NodeIds, NEW r \in ToSet(s.inv[n])
      PROVE  [type |-> r.type, node |-> n] \in ToSet(s.fwd[r.node])
  <2>1. r.type \in NodeIds /\ r.node \in NodeIds /\ Back(s, r.type, r.node, n)
    BY <1>1, ListsHave
  <2>2. Has(s, r.type, r.node, n)
    BY <2>1 DEF Coherent
  <2>3. QED
    BY <2>2 DEF Has
<1>4. ASSUME NEW n \in NodeIds PROVE Defs(n) = {s.typedef[n]} \ {Null}
  <2>1. ASSUME NEW m \in Defs(n) PROVE m \in {s.typedef[n]} \ {Null}
    <3>1. PICK r \in ToSet(s.fwd[n]) : r.type = "HasTypeDefinition" /\ m = r.node
      BY <2>1
    <3>2. m \in NodeIds /\ Has(s, "HasTypeDefinition", n, m)
      BY <1>1, <3>1, ListsHave
    <3>3. s.typedef[n] = m
      BY <3>2 DEF Coherent
    <3>4. QED
      BY <3>2, <3>3, SpaceAssumption
  <2>2. ASSUME NEW m \in {s.typedef[n]} \ {Null} PROVE m \in Defs(n)
    <3>1. m \in NodeIds /\ s.typedef[n] = m
      BY <1>1, SpaceFields DEF Ids
    <3>2. Has(s, "HasTypeDefinition", n, m)
      BY <3>1 DEF Coherent
    <3> DEFINE r == [type |-> "HasTypeDefinition", node |-> m]
    <3>3. r \in ToSet(s.fwd[n]) /\ r.type = "HasTypeDefinition" /\ r.node = m
      BY <3>2 DEF Has
    <3> HIDE DEF r
    <3>4. QED
      BY <3>3
  <2>3. QED
    BY <2>1, <2>2
<1>5. ASSUME NEW n \in NodeIds, IsType(s, n) PROVE Sups(n) = {s.super[n]} \ {Null}
  <2>1. ASSUME NEW m \in Sups(n) PROVE m \in {s.super[n]} \ {Null}
    <3>1. PICK r \in ToSet(s.inv[n]) : r.type = "HasSubtype" /\ m = r.node
      BY <2>1
    <3>2. m \in NodeIds /\ r.type \in NodeIds /\ Back(s, r.type, m, n)
      BY <1>1, <3>1, ListsHave
    <3>3. Has(s, r.type, m, n)
      BY <3>2 DEF Coherent
    <3>4. s.super[n] = m
      BY <1>5, <3>1, <3>2, <3>3 DEF Coherent
    <3>5. QED
      BY <3>2, <3>4, SpaceAssumption
  <2>2. ASSUME NEW m \in {s.super[n]} \ {Null} PROVE m \in Sups(n)
    <3>1. m \in NodeIds /\ s.super[n] = m
      BY <1>1, SpaceFields DEF Ids
    <3>2. Has(s, "HasSubtype", m, n)
      BY <1>5, <3>1 DEF Coherent
    <3>3. "HasSubtype" \in NodeIds
      BY <1>1, <3>1, <3>2, HasType
    <3>4. Back(s, "HasSubtype", m, n)
      BY <3>1, <3>2, <3>3 DEF Coherent
    <3> DEFINE r == [type |-> "HasSubtype", node |-> m]
    <3>5. r \in ToSet(s.inv[n]) /\ r.type = "HasSubtype" /\ r.node = m
      BY <3>4 DEF Back
    <3> HIDE DEF r
    <3>6. QED
      BY <3>5
  <2>3. QED
    BY <2>1, <2>2
<1>6. ASSUME NEW n \in NodeIds, ~IsType(s, n) PROVE s.super[n] = Null
  BY <1>6 DEF Coherent
<1>7. \A n \in NodeIds : IsInjective(s.fwd[n]) /\ IsInjective(s.inv[n])
  BY DEF Coherent
<1>8. QED
  BY <1>2, <1>3, <1>4, <1>5, <1>6, <1>7 DEF ReferencesAgree, IsType

-----------------------------------------------------------------------------
(* What subscribers are told.                                              *)

Triples == NodeIds \X NodeIds \X NodeIds

\* The signals so far make the one set of references of the other, and none
\* names a node after it was reported erased; an erased one is not among those
\* left.
Reported(from, signals, edges, left) ==
  /\ from \subseteq Triples /\ edges \subseteq Triples
  /\ signals \in Seq(Signals)
  /\ Through(Apply, from, signals) = edges
  /\ \A i \in DOMAIN signals : signals[i].kind = "erased" =>
       /\ signals[i].node \notin left
       /\ \A j \in DOMAIN signals :
            i < j => signals[i].node \notin {signals[j].node, signals[j].target}

\* What a subscriber makes of a signal.
LEMMA ApplyStays ==
  /\ StepsStay(Apply, SUBSET (Ids \X NodeIds \X Ids), Signals)
  /\ \A edges \in SUBSET Triples : edges \in SUBSET (Ids \X NodeIds \X Ids)
  /\ \A edges \in SUBSET Triples, x \in Signals :
       Apply[edges][x] = CASE x.kind = "added" -> edges \cup {<<x.type, x.node, x.target>>}
                           [] x.kind = "deleted" -> edges \ {<<x.type, x.node, x.target>>}
                           [] OTHER -> edges
<1> DEFINE P == SUBSET (Ids \X NodeIds \X Ids)
           Next1(edges, x) ==
             CASE x.kind = "added" -> edges \cup {<<x.type, x.node, x.target>>}
               [] x.kind = "deleted" -> edges \ {<<x.type, x.node, x.target>>}
               [] OTHER -> edges
<1>1. NodeIds \subseteq Ids
  BY DEF Ids
<1>2. \A edges \in SUBSET Triples : edges \in P
  BY <1>1 DEF Triples
<1>3. ASSUME NEW edges \in SUBSET Triples PROVE edges \in SUBSET (NodeIds \X NodeIds \X NodeIds)
  BY DEF Triples
<1>4. Apply = [edges \in P |-> [x \in Signals |-> Next1(edges, x)]]
  BY DEF Apply
<1>5. ASSUME NEW edges \in P, NEW x \in Signals PROVE Next1(edges, x) \in P
  <2>1. <<x.type, x.node, x.target>> \in Ids \X NodeIds \X Ids
    BY DEF Signals
  <2>2. QED
    BY <2>1
<1> HIDE DEF Next1, P
<1>6. \A edges \in P, x \in Signals : Apply[edges][x] = Next1(edges, x)
  BY <1>4
<1>7. StepsStay(Apply, P, Signals)
  BY <1>5, <1>6 DEF StepsStay
<1>8. QED
  BY <1>2, <1>6, <1>7 DEF P, Next1

\* Without signals the references are what they were.
LEMMA NothingReported ==
  ASSUME NEW edges \in SUBSET Triples, NEW left
  PROVE  Reported(edges, <<>>, edges, left)
<1>1. Through(Apply, edges, <<>>) = edges
  BY ThroughNothing
<1>2. QED
  BY <1>1 DEF Reported

\* One more signal about nodes that are left.
LEMMA OneMoreReported ==
  ASSUME NEW from, NEW signals, NEW edges, NEW left \in SUBSET NodeIds,
         Reported(from, signals, edges, left),
         NEW x \in Signals, x.node \in left, x.target \in left \cup {Null},
         NEW edges2 \in SUBSET Triples, Apply[edges][x] = edges2,
         NEW left2 \in SUBSET left, x.kind = "erased" => x.node \notin left2
  PROVE  Reported(from, Append(signals, x), edges2, left2)
<1> DEFINE more == Append(signals, x)
           N == Len(signals)
<1>1. /\ from \in SUBSET (Ids \X NodeIds \X Ids) /\ signals \in Seq(Signals)
      /\ Through(Apply, from, signals) = edges
  BY ApplyStays DEF Reported
<1>2. Through(Apply, from, more) = edges2
  <2> DEFINE P == SUBSET (Ids \X NodeIds \X Ids)
  <2>1. StepsStay(Apply, P, Signals) /\ from \in P
    BY <1>1, ApplyStays
  <2> HIDE DEF P
  <2>2. Through(Apply, from, Append(signals, x)) = Apply[Through(Apply, from, signals)][x]
    BY <1>1, <2>1, ThroughAppend
  <2>3. QED
    BY <1>1, <2>2
<1>3. /\ N \in Nat /\ DOMAIN signals = 1..N /\ more \in Seq(Signals)
      /\ DOMAIN more = 1..(N + 1) /\ more[N + 1] = x
      /\ \A i \in 1..N : more[i] = signals[i]
  BY <1>1, AppendProperties
<1> HIDE DEF more
<1>4. Null \notin NodeIds
  BY SpaceAssumption
<1>5. ASSUME NEW i \in DOMAIN more, more[i].kind = "erased"
      PROVE  /\ more[i].node \notin left2
             /\ \A j \in DOMAIN more : i < j => more[i].node \notin {more[j].node, more[j].target}
  <2>1. CASE i = N + 1
    BY <1>3, <1>5, <2>1
  <2>2. CASE i # N + 1
    <3>1. i \in 1..N /\ i \in DOMAIN signals /\ more[i] = signals[i]
      BY <1>3, <2>2
    <3>2. /\ signals[i].node \notin left
          /\ \A j \in DOMAIN signals :
               i < j => signals[i].node \notin {signals[j].node, signals[j].target}
      BY <1>5, <3>1 DEF Reported
    <3>3. signals[i].node \in NodeIds
      <4>1. signals[i] \in Signals
        BY <1>1, <1>3, <3>1
      <4>2. QED
        BY <4>1 DEF Signals
    <3>4. ASSUME NEW j \in DOMAIN more, i < j
          PROVE  more[i].node \notin {more[j].node, more[j].target}
      <4>1. CASE j = N + 1
        BY <1>3, <1>4, <3>1, <3>2, <3>3, <4>1
      <4>2. CASE j # N + 1
        <5>1. j \in DOMAIN signals /\ more[j] = signals[j]
          BY <1>3, <4>2
        <5>2. QED
          BY <3>1, <3>2, <3>4, <5>1
      <4>3. QED
        BY <4>1, <4>2
    <3>5. QED
      BY <3>1, <3>2, <3>4
  <2>3. QED
    BY <2>1, <2>2
<1>6. from \subseteq Triples /\ edges2 \subseteq Triples
  BY DEF Reported
<1> HIDE DEF N
<1>7. Reported(from, more, edges2, left2)
  BY <1>2, <1>3, <1>5, <1>6 DEF Reported
<1>8. QED
  BY <1>7 DEF more

\* Spaces that differ in what they reported only.
Alike(s, s2) ==
  /\ s2 \in Spaces /\ s2.node = s.node /\ s2.fwd = s.fwd /\ s2.inv = s.inv
  /\ s2.typedef = s.typedef /\ s2.super = s.super /\ s2.panic = s.panic

\* What was reported says nothing of the nodes and their references.
LEMMA AlikeIn ==
  ASSUME NEW s \in Spaces, NEW s2, Alike(s, s2)
  PROVE  /\ Edges(s2) = Edges(s) /\ Present(s2) = Present(s)
         /\ \A t, a, b : (Has(s2, t, a, b) <=> Has(s, t, a, b))
                         /\ (Back(s2, t, a, b) <=> Back(s, t, a, b))
         /\ Coherent(s) => Coherent(s2)
         /\ DataTyped(s) => DataTyped(s2)
<1>1. Edges(s2) = Edges(s) /\ Present(s2) = Present(s)
  BY DEF Alike, Edges, Present
<1>2. \A t, a, b : (Has(s2, t, a, b) <=> Has(s, t, a, b))
                   /\ (Back(s2, t, a, b) <=> Back(s, t, a, b))
  BY DEF Alike, Has, Back
<1>3. \A n : IsType(s2, n) <=> IsType(s, n)
  BY DEF Alike, IsType
<1>4. Coherent(s) => Coherent(s2)
  BY <1>1, <1>2, <1>3 DEF Alike, Coherent
<1>5. DataTyped(s) => DataTyped(s2)
  BY DEF Alike, DataTyped, DataTypeOK, As
<1>6. QED
  BY <1>1, <1>2, <1>4, <1>5

\* NotifyReference tells of the reference, and of nothing that is not left.
LEMMA NotifyReferenceReports ==
  ASSUME NEW s \in Spaces, NEW t \in NodeIds, NEW a \in NodeIds, NEW b \in NodeIds,
         NEW added \in BOOLEAN, NEW from, NEW edges, NEW left \in SUBSET NodeIds,
         Reported(from, s.signals, edges, left), a \in left, b \in left
  PROVE  /\ Alike(s, NotifyReference(s, t, a, b, added))
         /\ Reported(from, NotifyReference(s, t, a, b, added).signals,
                     IF added THEN edges \cup {<<t, a, b>>} ELSE edges \ {<<t, a, b>>}, left)
<1> DEFINE x == [kind |-> IF added THEN "added" ELSE "deleted",
                 type |-> t, node |-> a, target |-> b]
           y == [kind |-> "moved", type |-> t, node |-> b, target |-> Null]
           told == Notify(s, x)
           both == Notify(told, y)
           edges2 == IF added THEN edges \cup {<<t, a, b>>} ELSE edges \ {<<t, a, b>>}
           r == NotifyReference(s, t, a, b, added)
<1>1. r = told \/ r = both
  BY DEF NotifyReference
<1>2. x \in Signals /\ y \in Signals
  BY DEF Signals, Ids
<1>3. ASSUME NEW z \in Spaces, NEW signal \in Signals
      PROVE  Alike(z, Notify(z, signal)) /\ Notify(z, signal).signals = Append(z.signals, signal)
  <2>1. Append(z.signals, signal) \in Seq(Signals)
    BY SpaceFields
  <2>2. QED
    BY <2>1 DEF Notify, Alike, Spaces
<1>4. Alike(s, told) /\ told.signals = Append(s.signals, x) /\ told \in Spaces
  BY <1>2, <1>3 DEF Alike
<1>5. edges \in SUBSET Triples /\ edges2 \in SUBSET Triples
  BY DEF Reported, Triples
<1>6. Apply[edges][x] = edges2 /\ Apply[edges2][y] = edges2
  <2>1. /\ x.kind = IF added THEN "added" ELSE "deleted"
        /\ x.type = t /\ x.node = a /\ x.target = b /\ y.kind = "moved"
    OBVIOUS
  <2> HIDE DEF x, y
  <2>2. Apply[edges][x] = edges2
    <3>1. Apply[edges][x] =
            CASE x.kind = "added" -> edges \cup {<<x.type, x.node, x.target>>}
              [] x.kind = "deleted" -> edges \ {<<x.type, x.node, x.target>>}
              [] OTHER -> edges
      BY <1>2, <1>5, ApplyStays
    <3>2. CASE added = TRUE
      BY <2>1, <3>1, <3>2
    <3>3. CASE added = FALSE
      BY <2>1, <3>1, <3>3
    <3>4. QED
      BY <3>2, <3>3
  <2>3. Apply[edges2][y] = edges2
    <3> HIDE DEF edges2
    <3>1. QED
      BY <1>2, <1>5, <2>1, ApplyStays
  <2>4. QED
    BY <2>2, <2>3
<1>7. /\ x.kind # "erased" /\ x.node = a /\ x.target = b
      /\ y.kind # "erased" /\ y.node = b /\ y.target = Null
  OBVIOUS
<1> HIDE DEF x, y, told, both, edges2, r
<1>8. Reported(from, Append(s.signals, x), edges2, left)
  BY <1>2, <1>5, <1>6, <1>7, OneMoreReported
<1>9. Alike(told, both) /\ both.signals = Append(told.signals, y)
  BY <1>2, <1>3, <1>4 DEF both
<1>10. Reported(from, Append(told.signals, y), edges2, left)
  BY <1>2, <1>4, <1>5, <1>6, <1>7, <1>8, OneMoreReported
<1>11. Alike(s, both)
  BY <1>4, <1>9 DEF Alike
<1>12. QED
  BY <1>1, <1>4, <1>8, <1>9, <1>10, <1>11 DEF r, edges2

-----------------------------------------------------------------------------
(* AddReference and DeleteReference.                                       *)

\* What AddReference makes of a space before it reports.
Linked(s, t, source, target) ==
  [s EXCEPT
     !.fwd[source] = Append(@, [type |-> t, node |-> target]),
     !.inv[target] = Append(@, [type |-> t, node |-> source]),
     !.typedef[source] = IF t = "HasTypeDefinition" THEN target ELSE @,
     !.super[target] = IF t = "HasSubtype" /\ s.node[target].class \in TypeClasses
                         THEN source ELSE @]

\* A new reference is in the lists of both its ends, and all others stay.
LEMMA LinkedHas ==
  ASSUME NEW s, Coherent(s), NEW t \in NodeIds, NEW a \in NodeIds, NEW b \in NodeIds,
         ~Has(s, t, a, b)
  PROVE  LET l == Linked(s, t, a, b) IN
         /\ l \in Spaces /\ l.node = s.node /\ l.signals = s.signals
         /\ \A n \in NodeIds : IsInjective(l.fwd[n]) /\ IsInjective(l.inv[n])
         /\ \A u, m, n \in NodeIds :
              /\ Has(l, u, m, n) <=> Has(s, u, m, n) \/ (u = t /\ m = a /\ n = b)
              /\ Back(l, u, m, n) <=> Back(s, u, m, n) \/ (u = t /\ m = a /\ n = b)
         /\ \A n \in NodeIds :
              /\ l.typedef[n] = IF n = a /\ t = "HasTypeDefinition" THEN b ELSE s.typedef[n]
              /\ l.super[n] = IF n = b /\ t = "HasSubtype" /\ IsType(s, b)
                                THEN a ELSE s.super[n]
<1> DEFINE l == Linked(s, t, a, b)
           r == [type |-> t, node |-> b]
           q == [type |-> t, node |-> a]
<1>1. s \in Spaces /\ r \in References /\ q \in References
  BY DEF Coherent, References
<1>2. /\ s.node \in [NodeIds -> Nodes]
      /\ s.fwd \in [NodeIds -> Seq(References)] /\ s.inv \in [NodeIds -> Seq(References)]
      /\ s.typedef \in [NodeIds -> Ids] /\ s.super \in [NodeIds -> Ids]
  BY <1>1, SpaceFields
<1>3. /\ ToSet(Append(s.fwd[a], r)) = ToSet(s.fwd[a]) \cup {r}
      /\ ToSet(Append(s.inv[b], q)) = ToSet(s.inv[b]) \cup {q}
      /\ Append(s.fwd[a], r) \in Seq(References) /\ Append(s.inv[b], q) \in Seq(References)
  BY <1>1, <1>2, AppendAdds
<1>4. IsInjective(Append(s.fwd[a], r)) /\ IsInjective(Append(s.inv[b], q))
  <2>1. IsInjective(s.fwd[a]) /\ IsInjective(s.inv[b]) /\ ~Back(s, t, a, b)
    BY DEF Coherent
  <2>2. r \notin ToSet(s.fwd[a]) /\ q \notin ToSet(s.inv[b])
    BY <2>1 DEF Has, Back
  <2>3. s.fwd[a] \in Seq(References) /\ s.inv[b] \in Seq(References)
    BY <1>2
  <2> HIDE DEF r, q
  <2>4. IsInjective(Append(s.fwd[a], r))
    BY <1>1, <2>1, <2>2, <2>3, AppendAdds
  <2>5. IsInjective(Append(s.inv[b], q))
    BY <1>1, <2>1, <2>2, <2>3, AppendAdds
  <2>6. QED
    BY <2>4, <2>5
<1>5. /\ l.node = s.node /\ l.signals = s.signals
      /\ l.fwd = [s.fwd EXCEPT ![a] = Append(@, r)]
      /\ l.inv = [s.inv EXCEPT ![b] = Append(@, q)]
      /\ l.typedef = [s.typedef EXCEPT ![a] = IF t = "HasTypeDefinition" THEN b ELSE @]
      /\ l.super = [s.super EXCEPT ![b] = IF t = "HasSubtype" /\ IsType(s, b)
                                            THEN a ELSE @]
  BY <1>1 DEF Linked, Spaces, IsType
<1>6. l \in Spaces
  <2>1. a \in Ids /\ b \in Ids
    BY DEF Ids
  <2>2. QED
    BY <1>1, <1>3, <2>1 DEF Linked, Spaces
<1> HIDE DEF l
<1>7. \A n \in NodeIds : /\ l.fwd[n] = IF n = a THEN Append(s.fwd[a], r) ELSE s.fwd[n]
                         /\ l.inv[n] = IF n = b THEN Append(s.inv[b], q) ELSE s.inv[n]
  BY <1>2, <1>5
<1>8. \A n \in NodeIds : IsInjective(l.fwd[n]) /\ IsInjective(l.inv[n])
  BY <1>4, <1>7 DEF Coherent
<1>9. ASSUME NEW u \in NodeIds, NEW m \in NodeIds, NEW n \in NodeIds
      PROVE  /\ Has(l, u, m, n) <=> Has(s, u, m, n) \/ (u = t /\ m = a /\ n = b)
             /\ Back(l, u, m, n) <=> Back(s, u, m, n) \/ (u = t /\ m = a /\ n = b)
  <2>1. ([type |-> u, node |-> n] = r <=> u = t /\ n = b)
        /\ ([type |-> u, node |-> m] = q <=> u = t /\ m = a)
    OBVIOUS
  <2> HIDE DEF r, q
  <2>2. QED
    BY <1>3, <1>7, <2>1 DEF Has, Back
<1>10. \A n \in NodeIds :
         /\ l.typedef[n] = IF n = a /\ t = "HasTypeDefinition" THEN b ELSE s.typedef[n]
         /\ l.super[n] = IF n = b /\ t = "HasSubtype" /\ IsType(s, b)
                           THEN a ELSE s.super[n]
  BY <1>2, <1>5
<1>11. QED
  BY <1>5, <1>6, <1>8, <1>9, <1>10 DEF l

\* What DeleteReference makes of a space before it reports.
Unlinked(s, t, source, target) ==
  [s EXCEPT
     !.fwd[source] = RemoveFirst(@, [type |-> t, node |-> target]),
     !.inv[target] = RemoveFirst(@, [type |-> t, node |-> source]),
     !.typedef[source] = IF t = "HasTypeDefinition" THEN Null ELSE @,
     !.super[target] = IF t = "HasSubtype" /\ s.node[target].class \in TypeClasses
                         THEN Null ELSE @]

\* A deleted reference is in neither list of its ends, and all others stay.
LEMMA UnlinkedHas ==
  ASSUME NEW s, Coherent(s), NEW t \in NodeIds, NEW a \in NodeIds, NEW b \in NodeIds,
         Has(s, t, a, b)
  PROVE  LET l == Unlinked(s, t, a, b) IN
         /\ l \in Spaces /\ l.node = s.node /\ l.signals = s.signals
         /\ \A n \in NodeIds :
              /\ IsInjective(l.fwd[n]) /\ IsInjective(l.inv[n])
              /\ Len(l.fwd[n]) = IF n = a THEN Len(s.fwd[n]) - 1 ELSE Len(s.fwd[n])
              /\ Len(l.inv[n]) = IF n = b THEN Len(s.inv[n]) - 1 ELSE Len(s.inv[n])
         /\ \A u, m, n \in NodeIds :
              /\ Has(l, u, m, n) <=> Has(s, u, m, n) /\ ~(u = t /\ m = a /\ n = b)
              /\ Back(l, u, m, n) <=> Back(s, u, m, n) /\ ~(u = t /\ m = a /\ n = b)
         /\ \A n \in NodeIds :
              /\ l.typedef[n] = IF n = a /\ t = "HasTypeDefinition" THEN Null ELSE s.typedef[n]
              /\ l.super[n] = IF n = b /\ t = "HasSubtype" /\ IsType(s, b)
                                THEN Null ELSE s.super[n]
<1> DEFINE l == Unlinked(s, t, a, b)
           r == [type |-> t, node |-> b]
           q == [type |-> t, node |-> a]
           f == RemoveFirst(s.fwd[a], r)
           i == RemoveFirst(s.inv[b], q)
<1>1. s \in Spaces /\ Back(s, t, a, b)
  BY DEF Coherent
<1>2. /\ s.node \in [NodeIds -> Nodes]
      /\ s.fwd \in [NodeIds -> Seq(References)] /\ s.inv \in [NodeIds -> Seq(References)]
      /\ s.typedef \in [NodeIds -> Ids] /\ s.super \in [NodeIds -> Ids]
  BY <1>1, SpaceFields
<1>3. r \in ToSet(s.fwd[a]) /\ q \in ToSet(s.inv[b])
  BY <1>1 DEF Has, Back
<1>4. IsInjective(s.fwd[a]) /\ IsInjective(s.inv[b])
  BY DEF Coherent
<1>5. /\ f \in Seq(References) /\ IsInjective(f) /\ ToSet(f) = ToSet(s.fwd[a]) \ {r}
      /\ Len(f) = Len(s.fwd[a]) - 1
      /\ i \in Seq(References) /\ IsInjective(i) /\ ToSet(i) = ToSet(s.inv[b]) \ {q}
      /\ Len(i) = Len(s.inv[b]) - 1
  <2>1. s.fwd[a] \in Seq(References) /\ s.inv[b] \in Seq(References)
    BY <1>2
  <2> HIDE DEF r, q
  <2>2. QED
    BY <1>3, <1>4, <2>1, RemoveFirstRemoves
<1>6. /\ l.node = s.node /\ l.signals = s.signals
      /\ l.fwd = [s.fwd EXCEPT ![a] = f]
      /\ l.inv = [s.inv EXCEPT ![b] = i]
      /\ l.typedef = [s.typedef EXCEPT ![a] = IF t = "HasTypeDefinition" THEN Null ELSE @]
      /\ l.super = [s.super EXCEPT ![b] = IF t = "HasSubtype" /\ IsType(s, b)
                                            THEN Null ELSE @]
  BY <1>1 DEF Unlinked, Spaces, IsType
<1>7. l \in Spaces
  <2>1. Null \in Ids
    BY DEF Ids
  <2>2. QED
    BY <1>1, <1>5, <2>1 DEF Unlinked, Spaces
<1> HIDE DEF l, f, i
<1>8. \A n \in NodeIds : /\ l.fwd[n] = IF n = a THEN f ELSE s.fwd[n]
                         /\ l.inv[n] = IF n = b THEN i ELSE s.inv[n]
  BY <1>2, <1>6
<1>9. \A n \in NodeIds :
        /\ IsInjective(l.fwd[n]) /\ IsInjective(l.inv[n])
        /\ Len(l.fwd[n]) = IF n = a THEN Len(s.fwd[n]) - 1 ELSE Len(s.fwd[n])
        /\ Len(l.inv[n]) = IF n = b THEN Len(s.inv[n]) - 1 ELSE Len(s.inv[n])
  BY <1>5, <1>8 DEF Coherent
<1>10. ASSUME NEW u \in NodeIds, NEW m \in NodeIds, NEW n \in NodeIds
       PROVE  /\ Has(l, u, m, n) <=> Has(s, u, m, n) /\ ~(u = t /\ m = a /\ n = b)
              /\ Back(l, u, m, n) <=> Back(s, u, m, n) /\ ~(u = t /\ m = a /\ n = b)
  <2>1. ([type |-> u, node |-> n] = r <=> u = t /\ n = b)
        /\ ([type |-> u, node |-> m] = q <=> u = t /\ m = a)
    OBVIOUS
  <2> HIDE DEF r, q
  <2>2. QED
    BY <1>5, <1>8, <2>1 DEF Has, Back
<1>11. \A n \in NodeIds :
         /\ l.typedef[n] = IF n = a /\ t = "HasTypeDefinition" THEN Null ELSE s.typedef[n]
         /\ l.super[n] = IF n = b /\ t = "HasSubtype" /\ IsType(s, b)
                           THEN Null ELSE s.super[n]
  BY <1>2, <1>6
<1>12. QED
  BY <1>6, <1>7, <1>9, <1>10, <1>11 DEF l

\* The Checks of AddReference keep the four places together.
LEMMA LinkedCoherent ==
  ASSUME NEW s, Coherent(s), NEW t, NEW a, NEW b, CanAddReference(s, t, a, b)
  PROVE  /\ {t, a, b} \subseteq Present(s) /\ t \in NodeIds /\ a \in NodeIds /\ b \in NodeIds
         /\ ~Has(s, t, a, b) /\ Coherent(Linked(s, t, a, b))
         /\ Edges(Linked(s, t, a, b)) = Edges(s) \cup {<<t, a, b>>}
<1> DEFINE l == Linked(s, t, a, b)
<1>1. {t, a, b} \subseteq Present(s) /\ t \in NodeIds /\ a \in NodeIds /\ b \in NodeIds
  BY DEF CanAddReference, Present
<1>2. s \in Spaces /\ ~Has(s, t, a, b)
  <2>1. s \in Spaces /\ <<t, a, b>> \notin Edges(s)
    BY DEF Coherent, CanAddReference
  <2>2. QED
    BY <1>1, <2>1, EdgesHave
<1>3. /\ l \in Spaces /\ l.node = s.node
      /\ \A n \in NodeIds : IsInjective(l.fwd[n]) /\ IsInjective(l.inv[n])
      /\ \A u, m, n \in NodeIds :
           /\ Has(l, u, m, n) <=> Has(s, u, m, n) \/ (u = t /\ m = a /\ n = b)
           /\ Back(l, u, m, n) <=> Back(s, u, m, n) \/ (u = t /\ m = a /\ n = b)
      /\ \A n \in NodeIds :
           /\ l.typedef[n] = IF n = a /\ t = "HasTypeDefinition" THEN b ELSE s.typedef[n]
           /\ l.super[n] = IF n = b /\ t = "HasSubtype" /\ IsType(s, b)
                             THEN a ELSE s.super[n]
  BY <1>1, <1>2, LinkedHas
<1> HIDE DEF l
<1>4. Present(l) = Present(s) /\ \A n : IsType(l, n) <=> IsType(s, n)
  BY <1>3 DEF Present, IsType
<1>5. Null \notin NodeIds
  BY SpaceAssumption
<1>6. \A u, m, n \in NodeIds : /\ Has(l, u, m, n) <=> Back(l, u, m, n)
                               /\ Has(l, u, m, n) => {u, m, n} \subseteq Present(l)
  BY <1>1, <1>3, <1>4 DEF Coherent
<1>7. ASSUME NEW m \in NodeIds, NEW n \in NodeIds
      PROVE  Has(l, "HasTypeDefinition", m, n) <=> l.typedef[m] = n
  <2>1. Has(s, "HasTypeDefinition", m, n) <=> s.typedef[m] = n
    BY DEF Coherent
  <2>2. CASE t = "HasTypeDefinition"
    <3>1. s.typedef[a] = Null
      BY <2>2 DEF CanAddReference
    <3>2. QED
      BY <1>1, <1>3, <1>5, <2>1, <2>2, <3>1
  <2>3. CASE t # "HasTypeDefinition"
    <3>1. l.typedef[m] = s.typedef[m]
      BY <1>3, <2>3
    <3>2. Has(l, "HasTypeDefinition", m, n) <=> Has(s, "HasTypeDefinition", m, n)
      <4>1. CASE "HasTypeDefinition" \in NodeIds
        BY <1>3, <2>3, <4>1
      <4>2. CASE "HasTypeDefinition" \notin NodeIds
        BY <1>2, <1>3, <4>2, HasType
      <4>3. QED
        BY <4>1, <4>2
    <3>3. QED
      BY <2>1, <3>1, <3>2
  <2>4. QED
    BY <2>2, <2>3
<1>8. ASSUME NEW m \in NodeIds, NEW n \in NodeIds, IsType(l, n)
      PROVE  Has(l, "HasSubtype", m, n) <=> l.super[n] = m
  <2>1. IsType(s, n) /\ (Has(s, "HasSubtype", m, n) <=> s.super[n] = m)
    BY <1>4, <1>8 DEF Coherent
  <2>2. CASE t = "HasSubtype" /\ n = b
    <3>1. s.super[b] = Null
      BY <2>1, <2>2 DEF CanAddReference, IsType
    <3>2. QED
      BY <1>1, <1>3, <1>5, <2>1, <2>2, <3>1
  <2>3. CASE ~(t = "HasSubtype" /\ n = b)
    <3>1. l.super[n] = s.super[n]
      BY <1>3, <2>3
    <3>2. Has(l, "HasSubtype", m, n) <=> Has(s, "HasSubtype", m, n)
      <4>1. CASE "HasSubtype" \in NodeIds
        BY <1>3, <2>3, <4>1
      <4>2. CASE "HasSubtype" \notin NodeIds
        BY <1>2, <1>3, <4>2, HasType
      <4>3. QED
        BY <4>1, <4>2
    <3>3. QED
      BY <2>1, <3>1, <3>2
  <2>4. QED
    BY <2>2, <2>3
<1>9. ASSUME NEW n \in NodeIds, ~IsType(l, n) PROVE l.super[n] = Null
  <2>1. ~IsType(s, n) /\ s.super[n] = Null
    BY <1>4, <1>9 DEF Coherent
  <2>2. QED
    BY <1>3, <2>1
<1>10. Coherent(l)
  BY <1>3, <1>6, <1>7, <1>8, <1>9 DEF Coherent
<1>11. Edges(l) = Edges(s) \cup {<<t, a, b>>}
  <2>1. /\ Edges(l) \subseteq Triples /\ Edges(s) \cup {<<t, a, b>>} \subseteq Triples
    BY <1>1, <1>2, <1>3, EdgesHave DEF Triples
  <2>2. ASSUME NEW u \in NodeIds, NEW m \in NodeIds, NEW n \in NodeIds
        PROVE  <<u, m, n>> \in Edges(l) <=> <<u, m, n>> \in Edges(s) \cup {<<t, a, b>>}
    <3>1. <<u, m, n>> \in Edges(l) <=> Has(l, u, m, n)
      BY <1>3, EdgesHave
    <3>2. <<u, m, n>> \in Edges(s) <=> Has(s, u, m, n)
      BY <1>2, EdgesHave
    <3>3. QED
      BY <1>3, <3>1, <3>2
  <2>3. QED
    BY <2>1, <2>2 DEF Triples
<1>12. QED
  BY <1>1, <1>2, <1>10, <1>11 DEF l

\* What an operation that only adds keeps: k was there when it began.
Growing(k) ==
  {s \in Spaces : /\ Coherent(s) /\ DataTyped(s)
                  /\ Reported(k, s.signals, Edges(s), NodeIds)}

\* AddReference keeps the four places together and reports what it did.
LEMMA AddReferenceGrows ==
  ASSUME NEW k, NEW s \in Growing(k), NEW t, NEW a, NEW b
  PROVE  AddReference(s, t, a, b) \in Growing(k)
<1>1. s \in Spaces /\ Coherent(s) /\ DataTyped(s) /\ Reported(k, s.signals, Edges(s), NodeIds)
  BY DEF Growing
<1>2. CASE ~CanAddReference(s, t, a, b)
  <2> DEFINE p == [s EXCEPT !.panic = TRUE]
  <2>1. /\ p \in Spaces /\ p.node = s.node /\ p.fwd = s.fwd /\ p.inv = s.inv
        /\ p.typedef = s.typedef /\ p.super = s.super /\ p.signals = s.signals
    BY <1>1 DEF Spaces
  <2> HIDE DEF p
  <2>2. Edges(p) = Edges(s) /\ Present(p) = Present(s) /\ DataTyped(p)
    BY <1>1, <2>1 DEF Edges, Present, DataTyped, DataTypeOK, As
  <2>3. Coherent(p)
    BY <1>1, <2>1, <2>2 DEF Coherent, Has, Back, IsType
  <2>4. p \in Growing(k)
    BY <1>1, <2>1, <2>2, <2>3 DEF Growing
  <2>5. QED
    BY <1>2, <2>4 DEF AddReference, p
<1>3. CASE CanAddReference(s, t, a, b)
  <2> DEFINE l == Linked(s, t, a, b)
             n == NotifyReference(l, t, a, b, TRUE)
  <2>1. AddReference(s, t, a, b) = n
    BY <1>3 DEF AddReference, Linked
  <2>2. /\ t \in NodeIds /\ a \in NodeIds /\ b \in NodeIds /\ ~Has(s, t, a, b)
        /\ Coherent(l) /\ Edges(l) = Edges(s) \cup {<<t, a, b>>}
    BY <1>1, <1>3, LinkedCoherent
  <2>3. l \in Spaces /\ l.node = s.node /\ l.signals = s.signals
    BY <1>1, <2>2, LinkedHas
  <2> HIDE DEF l
  <2>4. DataTyped(l)
    BY <1>1, <2>3 DEF DataTyped, DataTypeOK, As
  <2>5. /\ Alike(l, n)
        /\ Reported(k, n.signals, Edges(s) \cup {<<t, a, b>>}, NodeIds)
    BY <1>1, <2>2, <2>3, NotifyReferenceReports
  <2>6. Coherent(n) /\ DataTyped(n) /\ Edges(n) = Edges(l) /\ n \in Spaces
    BY <2>2, <2>3, <2>4, <2>5, AlikeIn DEF Alike
  <2>7. QED
    BY <2>1, <2>2, <2>5, <2>6 DEF Growing
<1>4. QED
  BY <1>2, <1>3

\* As finds a data type where there is one.
LEMMA DataTypeFound ==
  ASSUME NEW s, NEW dt
  PROVE  As(s, dt, {"DataType"}) # Null <=> dt # Null /\ s.node[dt].class = "DataType"
  BY DEF As

\* A node that is new has no references yet.
LEMMA NewNodeGrows ==
  ASSUME NEW k, NEW s \in Growing(k), NEW n \in NodeIds, NEW node \in Nodes,
         n \notin Present(s), node.class # "None", DataTypeOK(s, node)
  PROVE  [s EXCEPT !.node[n] = node] \in Growing(k)
<1> DEFINE g == [s EXCEPT !.node[n] = node]
<1>1. s \in Spaces /\ Coherent(s) /\ DataTyped(s) /\ Reported(k, s.signals, Edges(s), NodeIds)
  BY DEF Growing
<1>2. /\ g \in Spaces /\ g.fwd = s.fwd /\ g.inv = s.inv /\ g.typedef = s.typedef
      /\ g.super = s.super /\ g.signals = s.signals
      /\ \A m \in NodeIds : g.node[m] = IF m = n THEN node ELSE s.node[m]
  BY <1>1 DEF Spaces
<1> HIDE DEF g
<1>3. s.node[n].class = "None"
  BY DEF Present
<1>4. Edges(g) = Edges(s) /\ Present(s) \subseteq Present(g)
  BY <1>2, <1>3 DEF Edges, Present
<1>5. \A t, a, b : (Has(g, t, a, b) <=> Has(s, t, a, b)) /\ (Back(g, t, a, b) <=> Back(s, t, a, b))
  BY <1>2 DEF Has, Back
<1>6. s.super[n] = Null /\ \A a \in NodeIds : ~Has(s, "HasSubtype", a, n)
  <2>1. ~IsType(s, n)
    BY <1>3 DEF IsType, TypeClasses
  <2>2. s.super[n] = Null
    BY <1>1, <2>1 DEF Coherent
  <2>3. ASSUME NEW a \in NodeIds, Has(s, "HasSubtype", a, n) PROVE FALSE
    <3>1. "HasSubtype" \in NodeIds
      BY <1>1, <2>3, HasType
    <3>2. n \in Present(s)
      BY <1>1, <2>3, <3>1 DEF Coherent
    <3>3. QED
      BY <3>2
  <2>4. QED
    BY <2>2, <2>3
<1>7. Null \notin NodeIds
  BY SpaceAssumption
<1>8. \A m \in NodeIds : m # n => (IsType(g, m) <=> IsType(s, m))
  BY <1>2 DEF IsType
<1>9. Coherent(g)
  <2>1. \A m \in NodeIds : IsInjective(g.fwd[m]) /\ IsInjective(g.inv[m])
    BY <1>1, <1>2 DEF Coherent
  <2>2. \A t, a, b \in NodeIds : (Has(g, t, a, b) <=> Back(g, t, a, b))
                                 /\ (Has(g, t, a, b) => {t, a, b} \subseteq Present(g))
    BY <1>1, <1>4, <1>5 DEF Coherent
  <2>3. \A a, b \in NodeIds : Has(g, "HasTypeDefinition", a, b) <=> g.typedef[a] = b
    BY <1>1, <1>2, <1>5 DEF Coherent
  <2>4. \A a, b \in NodeIds : IsType(g, b) => (Has(g, "HasSubtype", a, b) <=> g.super[b] = a)
    BY <1>1, <1>2, <1>5, <1>6, <1>7, <1>8 DEF Coherent
  <2>5. \A b \in NodeIds : ~IsType(g, b) => g.super[b] = Null
    BY <1>1, <1>2, <1>6, <1>8 DEF Coherent
  <2>6. QED
    BY <1>2, <2>1, <2>2, <2>3, <2>4, <2>5 DEF Coherent
<1>10. DataTyped(g)
  <2>1. ASSUME NEW m \in NodeIds, NEW x \in Nodes, DataTypeOK(s, x) PROVE DataTypeOK(g, x)
    <3>1. SUFFICES ASSUME x.class \in {"Variable", "VariableType"}
                   PROVE  As(g, x.dt, {"DataType"}) # Null
      BY DEF DataTypeOK
    <3>2. x.dt # Null /\ s.node[x.dt].class = "DataType"
      BY <2>1, <3>1, DataTypeFound DEF DataTypeOK
    <3>3. x.dt \in NodeIds /\ x.dt # n
      BY <1>3, <3>2 DEF Nodes, Ids
    <3>4. QED
      BY <1>2, <3>2, <3>3, DataTypeFound
  <2>2. \A m \in NodeIds : s.node[m] \in Nodes /\ DataTypeOK(s, s.node[m])
    BY <1>1, SpaceFields DEF DataTyped
  <2>3. QED
    BY <1>2, <2>1, <2>2 DEF DataTyped
<1>11. QED
  BY <1>1, <1>2, <1>4, <1>9, <1>10 DEF Growing, g

\* A value changes nothing that is said of references and types.
LEMMA ValueKeeps ==
  ASSUME NEW s \in Spaces, NEW n \in NodeIds, NEW value \in Int
  PROVE  LET v == [s EXCEPT !.node[n].value = value] IN
         /\ v \in Spaces /\ v.signals = s.signals /\ Edges(v) = Edges(s)
         /\ Present(v) = Present(s) /\ v.super = s.super
         /\ \A t, a, b : Has(v, t, a, b) <=> Has(s, t, a, b)
         /\ \A m \in NodeIds : v.node[m].class = s.node[m].class /\ v.node[m].dt = s.node[m].dt
         /\ Coherent(s) => Coherent(v)
         /\ DataTyped(s) => DataTyped(v)
<1> DEFINE v == [s EXCEPT !.node[n].value = value]
<1>1. v \in Spaces
  BY SpacesClosed DEF Closed
<1>2. /\ v.fwd = s.fwd /\ v.inv = s.inv /\ v.typedef = s.typedef /\ v.super = s.super
      /\ v.signals = s.signals
      /\ v.node = [s.node EXCEPT ![n] = [s.node[n] EXCEPT !.value = value]]
  BY DEF Spaces
<1> HIDE DEF v
<1>3. \A m \in NodeIds : v.node[m].class = s.node[m].class /\ v.node[m].dt = s.node[m].dt
  <2>1. s.node \in [NodeIds -> Nodes]
    BY SpaceFields
  <2>2. \A x \in Nodes : /\ [x EXCEPT !.value = value].class = x.class
                         /\ [x EXCEPT !.value = value].dt = x.dt
    BY DEF Nodes
  <2>3. QED
    BY <1>2, <2>1, <2>2
<1>4. Edges(v) = Edges(s) /\ Present(v) = Present(s)
  BY <1>2, <1>3 DEF Edges, Present
<1>5. \A t, a, b : (Has(v, t, a, b) <=> Has(s, t, a, b)) /\ (Back(v, t, a, b) <=> Back(s, t, a, b))
  BY <1>2 DEF Has, Back
<1>6. Coherent(s) => Coherent(v)
  BY <1>1, <1>2, <1>3, <1>4, <1>5 DEF Coherent, IsType
<1>7. DataTyped(s) => DataTyped(v)
  <2> SUFFICES ASSUME DataTyped(s), NEW m \in NodeIds,
                      v.node[m].class \in {"Variable", "VariableType"}
               PROVE  As(v, v.node[m].dt, {"DataType"}) # Null
    BY DEF DataTyped, DataTypeOK
  <2>1. s.node[m].class \in {"Variable", "VariableType"} /\ s.node[m].dt = v.node[m].dt
    BY <1>3
  <2>2. As(s, s.node[m].dt, {"DataType"}) # Null
    BY <2>1 DEF DataTyped, DataTypeOK
  <2>3. s.node[m].dt # Null /\ s.node[s.node[m].dt].class = "DataType"
    BY <2>2, DataTypeFound
  <2>4. s.node[m].dt \in NodeIds
    <3>1. s.node[m] \in Nodes
      BY SpaceFields
    <3>2. QED
      BY <2>3, <3>1 DEF Nodes, Ids
  <2>5. QED
    BY <1>3, <2>1, <2>3, <2>4, DataTypeFound
<1>8. QED
  BY <1>1, <1>2, <1>3, <1>4, <1>5, <1>6, <1>7 DEF v

\* The elementary changes all keep the four places together and report.
LEMMA GrowingClosed ==
  ASSUME NEW k
  PROVE  Closed(Growing(k))
<1>1. Growing(k) \subseteq Spaces
  BY DEF Growing
<1>2. ASSUME NEW s \in Growing(k) PROVE [s EXCEPT !.panic = TRUE] \in Growing(k)
  <2>1. ~CanAddReference(s, Null, Null, Null)
    BY SpaceAssumption DEF CanAddReference, Present
  <2>2. AddReference(s, Null, Null, Null) = [s EXCEPT !.panic = TRUE]
    BY <2>1 DEF AddReference
  <2>3. AddReference(s, Null, Null, Null) \in Growing(k)
    BY AddReferenceGrows
  <2>4. QED
    BY <2>2, <2>3
<1>3. ASSUME NEW s \in Growing(k), NEW n \in NodeIds, NEW value \in Int
      PROVE  [s EXCEPT !.node[n].value = value] \in Growing(k)
  <2> DEFINE v == [s EXCEPT !.node[n].value = value]
  <2>1. s \in Spaces /\ Coherent(s) /\ DataTyped(s) /\ Reported(k, s.signals, Edges(s), NodeIds)
    BY DEF Growing
  <2>2. v \in Spaces /\ v.signals = s.signals /\ Edges(v) = Edges(s) /\ Coherent(v) /\ DataTyped(v)
    BY <2>1, ValueKeeps
  <2> HIDE DEF v
  <2>3. v \in Growing(k)
    BY <2>1, <2>2 DEF Growing
  <2>4. QED
    BY <2>3 DEF v
<1>4. QED
  BY <1>1, <1>2, <1>3, AddReferenceGrows, NewNodeGrows DEF Closed

\* The standard nodes, before their references.
LEMMA BuiltGrows == Built \in Growing({})
<1>1. Built \in Spaces
  BY BuiltType
<1>2. /\ \A n \in NodeIds : /\ Built.fwd[n] = <<>> /\ Built.inv[n] = <<>>
                            /\ Built.typedef[n] = Null /\ Built.super[n] = Null
                            /\ Built.node[n] = IF n \in DOMAIN StandardNodes
                                                 THEN StandardNodes[n] ELSE NoNode
      /\ Built.signals = <<>>
  BY DEF Built, EmptySpace
<1>3. ToSet(<<>>) = {} /\ IsInjective(<<>>)
  BY DEF ToSet, IsInjective
<1>4. \A t, b : \A a \in NodeIds : ~Has(Built, t, a, b) /\ ~Back(Built, t, b, a)
  BY <1>2, <1>3 DEF Has, Back
<1>5. Coherent(Built)
  BY <1>1, <1>2, <1>3, <1>4, SpaceAssumption DEF Coherent
<1>6. DataTyped(Built)
  <2> SUFFICES ASSUME NEW n \in NodeIds, Built.node[n].class \in {"Variable", "VariableType"}
               PROVE  As(Built, Built.node[n].dt, {"DataType"}) # Null
    BY DEF DataTyped, DataTypeOK
  <2>1. n \in DOMAIN StandardNodes /\ Built.node[n] = StandardNodes[n]
    <3>1. NoNode.class = "None"
      BY DEF NoNode
    <3>2. Built.node[n] # NoNode
      BY <3>1
    <3>3. QED
      BY <1>2, <3>2
  <2> DEFINE dt == StandardNodes[n].dt
  <2>2. dt \in DOMAIN StandardNodes /\ StandardNodes[dt].class = "DataType" /\ dt \in NodeIds
    BY <2>1, AddressSpaceAssumption
  <2>3. Built.node[dt].class = "DataType" /\ dt # Null
    BY <1>2, <2>2, SpaceAssumption
  <2>4. QED
    BY <2>1, <2>3, DataTypeFound
<1>7. Edges(Built) = {}
  <2>1. \A e \in Edges(Built) : FALSE
    BY <1>1, <1>4, EdgesHave
  <2>2. QED
    BY <2>1
<1>8. Reported({}, Built.signals, Edges(Built), NodeIds)
  BY <1>2, <1>7, NothingReported DEF Triples
<1>9. QED
  BY <1>1, <1>5, <1>6, <1>8 DEF Growing

\* DeleteReference keeps the four places together.
LEMMA UnlinkedCoherent ==
  ASSUME NEW s, Coherent(s), NEW t \in NodeIds, NEW a \in NodeIds, NEW b \in NodeIds,
         Has(s, t, a, b)
  PROVE  /\ Coherent(Unlinked(s, t, a, b))
         /\ Edges(Unlinked(s, t, a, b)) = Edges(s) \ {<<t, a, b>>}
<1> DEFINE l == Unlinked(s, t, a, b)
<1>1. s \in Spaces
  BY DEF Coherent
<1>2. /\ l \in Spaces /\ l.node = s.node
      /\ \A n \in NodeIds : IsInjective(l.fwd[n]) /\ IsInjective(l.inv[n])
      /\ \A u, m, n \in NodeIds :
           /\ Has(l, u, m, n) <=> Has(s, u, m, n) /\ ~(u = t /\ m = a /\ n = b)
           /\ Back(l, u, m, n) <=> Back(s, u, m, n) /\ ~(u = t /\ m = a /\ n = b)
      /\ \A n \in NodeIds :
           /\ l.typedef[n] = IF n = a /\ t = "HasTypeDefinition" THEN Null ELSE s.typedef[n]
           /\ l.super[n] = IF n = b /\ t = "HasSubtype" /\ IsType(s, b)
                             THEN Null ELSE s.super[n]
  BY UnlinkedHas
<1> HIDE DEF l
<1>3. Present(l) = Present(s) /\ \A n : IsType(l, n) <=> IsType(s, n)
  BY <1>2 DEF Present, IsType
<1>4. Null \notin NodeIds
  BY SpaceAssumption
<1>5. \A u, m, n \in NodeIds : /\ Has(l, u, m, n) <=> Back(l, u, m, n)
                               /\ Has(l, u, m, n) => {u, m, n} \subseteq Present(l)
  BY <1>2, <1>3 DEF Coherent
<1>6. ASSUME NEW m \in NodeIds, NEW n \in NodeIds
      PROVE  Has(l, "HasTypeDefinition", m, n) <=> l.typedef[m] = n
  <2>1. Has(s, "HasTypeDefinition", m, n) <=> s.typedef[m] = n
    BY DEF Coherent
  <2>2. CASE t = "HasTypeDefinition"
    <3>1. s.typedef[a] = b
      BY <2>2 DEF Coherent
    <3>2. QED
      BY <1>2, <1>4, <2>1, <2>2, <3>1
  <2>3. CASE t # "HasTypeDefinition"
    <3>1. l.typedef[m] = s.typedef[m]
      BY <1>2, <2>3
    <3>2. Has(l, "HasTypeDefinition", m, n) <=> Has(s, "HasTypeDefinition", m, n)
      <4>1. CASE "HasTypeDefinition" \in NodeIds
        BY <1>2, <2>3, <4>1
      <4>2. CASE "HasTypeDefinition" \notin NodeIds
        BY <1>1, <1>2, <4>2, HasType
      <4>3. QED
        BY <4>1, <4>2
    <3>3. QED
      BY <2>1, <3>1, <3>2
  <2>4. QED
    BY <2>2, <2>3
<1>7. ASSUME NEW m \in NodeIds, NEW n \in NodeIds, IsType(l, n)
      PROVE  Has(l, "HasSubtype", m, n) <=> l.super[n] = m
  <2>1. IsType(s, n) /\ (Has(s, "HasSubtype", m, n) <=> s.super[n] = m)
    BY <1>3, <1>7 DEF Coherent
  <2>2. CASE t = "HasSubtype" /\ n = b
    <3>1. s.super[b] = a
      BY <2>1, <2>2 DEF Coherent
    <3>2. QED
      BY <1>2, <1>4, <2>1, <2>2, <3>1
  <2>3. CASE ~(t = "HasSubtype" /\ n = b)
    <3>1. l.super[n] = s.super[n]
      BY <1>2, <2>3
    <3>2. Has(l, "HasSubtype", m, n) <=> Has(s, "HasSubtype", m, n)
      <4>1. CASE "HasSubtype" \in NodeIds
        BY <1>2, <2>3, <4>1
      <4>2. CASE "HasSubtype" \notin NodeIds
        BY <1>1, <1>2, <4>2, HasType
      <4>3. QED
        BY <4>1, <4>2
    <3>3. QED
      BY <2>1, <3>1, <3>2
  <2>4. QED
    BY <2>2, <2>3
<1>8. ASSUME NEW n \in NodeIds, ~IsType(l, n) PROVE l.super[n] = Null
  <2>1. ~IsType(s, n) /\ s.super[n] = Null
    BY <1>3, <1>8 DEF Coherent
  <2>2. QED
    BY <1>2, <2>1
<1>9. Coherent(l)
  BY <1>2, <1>5, <1>6, <1>7, <1>8 DEF Coherent
<1>10. Edges(l) = Edges(s) \ {<<t, a, b>>}
  <2>1. Edges(l) \subseteq Triples /\ Edges(s) \subseteq Triples
    BY <1>1, <1>2, EdgesHave DEF Triples
  <2>2. ASSUME NEW u \in NodeIds, NEW m \in NodeIds, NEW n \in NodeIds
        PROVE  <<u, m, n>> \in Edges(l) <=> <<u, m, n>> \in Edges(s) \ {<<t, a, b>>}
    <3>1. <<u, m, n>> \in Edges(l) <=> Has(l, u, m, n)
      BY <1>2, EdgesHave
    <3>2. <<u, m, n>> \in Edges(s) <=> Has(s, u, m, n)
      BY <1>1, EdgesHave
    <3>3. QED
      BY <1>2, <3>1, <3>2
  <2>3. QED
    BY <2>1, <2>2 DEF Triples
<1>11. QED
  BY <1>9, <1>10 DEF l

\* A space between the steps of an operation: k was there when it began.
Standing(k) ==
  {s \in Spaces : /\ Coherent(s) /\ DataTyped(s)
                  /\ Reported(k, s.signals, Edges(s), Present(s))}

\* DeleteReference keeps the four places together and reports what it did.
LEMMA DeleteReferenceStands ==
  ASSUME NEW k, NEW s \in Standing(k),
         NEW t \in NodeIds, NEW a \in NodeIds, NEW b \in NodeIds, Has(s, t, a, b)
  PROVE  LET d == DeleteReference(s, t, a, b) IN
         /\ d \in Standing(k) /\ d.node = s.node
         /\ Edges(d) = Edges(s) \ {<<t, a, b>>}
         /\ \A u, m, n \in NodeIds :
              Has(d, u, m, n) <=> Has(s, u, m, n) /\ ~(u = t /\ m = a /\ n = b)
         /\ \A n \in NodeIds :
              /\ Len(d.fwd[n]) = IF n = a THEN Len(s.fwd[n]) - 1 ELSE Len(s.fwd[n])
              /\ Len(d.inv[n]) = IF n = b THEN Len(s.inv[n]) - 1 ELSE Len(s.inv[n])
<1> DEFINE l == Unlinked(s, t, a, b)
           d == NotifyReference(l, t, a, b, FALSE)
<1>1. DeleteReference(s, t, a, b) = d
  BY DEF DeleteReference, Unlinked
<1>2. Coherent(s) /\ DataTyped(s) /\ Reported(k, s.signals, Edges(s), Present(s))
  BY DEF Standing
<1>3. Coherent(l) /\ Edges(l) = Edges(s) \ {<<t, a, b>>}
  BY <1>2, UnlinkedCoherent
<1>4. /\ l \in Spaces /\ l.node = s.node /\ l.signals = s.signals
      /\ \A n \in NodeIds :
           /\ Len(l.fwd[n]) = IF n = a THEN Len(s.fwd[n]) - 1 ELSE Len(s.fwd[n])
           /\ Len(l.inv[n]) = IF n = b THEN Len(s.inv[n]) - 1 ELSE Len(s.inv[n])
      /\ \A u, m, n \in NodeIds :
           Has(l, u, m, n) <=> Has(s, u, m, n) /\ ~(u = t /\ m = a /\ n = b)
  BY <1>2, UnlinkedHas
<1> HIDE DEF l
<1>5. DataTyped(l) /\ Present(l) = Present(s)
  BY <1>2, <1>4 DEF DataTyped, DataTypeOK, As, Present
<1>6. a \in Present(s) /\ b \in Present(s) /\ Present(s) \subseteq NodeIds
  BY <1>2 DEF Coherent, Present
<1>7. /\ Alike(l, d)
      /\ Reported(k, d.signals, Edges(s) \ {<<t, a, b>>}, Present(s))
  BY <1>2, <1>4, <1>6, NotifyReferenceReports
<1>8. /\ Edges(d) = Edges(l) /\ Present(d) = Present(l) /\ Coherent(d) /\ DataTyped(d)
      /\ d \in Spaces /\ d.node = l.node /\ d.fwd = l.fwd /\ d.inv = l.inv
      /\ \A u, m, n : Has(d, u, m, n) <=> Has(l, u, m, n)
  BY <1>3, <1>4, <1>5, <1>7, AlikeIn DEF Alike
<1> HIDE DEF d
<1>9. d \in Standing(k)
  BY <1>3, <1>5, <1>7, <1>8 DEF Standing
<1>10. QED
  BY <1>1, <1>3, <1>4, <1>8, <1>9

\* The space left of another when references of a node go.
Without(s, n, z) ==
  /\ z.node = s.node
  /\ \A t, a, b \in NodeIds : /\ Has(z, t, a, b) => Has(s, t, a, b)
                              /\ Has(s, t, a, b) /\ a # n /\ b # n => Has(z, t, a, b)

Size(s, n) == Len(s.inv[n]) + Len(s.fwd[n])

\* A node without references has empty lists.
LEMMA SizeIsNatural ==
  ASSUME NEW s \in Spaces, NEW n \in NodeIds
  PROVE  /\ Len(s.inv[n]) \in Nat /\ Len(s.fwd[n]) \in Nat /\ Size(s, n) \in Nat
         /\ Size(s, n) = 0 => s.inv[n] = <<>> /\ s.fwd[n] = <<>>
<1>1. s.inv[n] \in Seq(References) /\ s.fwd[n] \in Seq(References)
  BY SpaceFields
<1>2. Len(s.inv[n]) \in Nat /\ Len(s.fwd[n]) \in Nat
  BY <1>1
<1>3. ASSUME NEW list \in Seq(References), Len(list) = 0 PROVE list = <<>>
  BY <1>3
<1> DEFINE in == Len(s.inv[n])
           out == Len(s.fwd[n])
<1>4. Size(s, n) = in + out
  BY DEF Size
<1> HIDE DEF in, out
<1>5. in \in Nat /\ out \in Nat
  BY <1>2 DEF in, out
<1>6. Size(s, n) \in Nat
  BY <1>4, <1>5
<1>7. ASSUME Size(s, n) = 0 PROVE s.inv[n] = <<>> /\ s.fwd[n] = <<>>
  <2>1. in = 0 /\ out = 0
    BY <1>7, <1>4, <1>5
  <2>2. Len(s.inv[n]) = 0 /\ Len(s.fwd[n]) = 0
    BY <2>1 DEF in, out
  <2>3. QED
    BY <1>1, <1>3, <2>2
<1>8. QED
  BY <1>2, <1>6, <1>7

\* The last element of a list is one of its elements.
LEMMA LastIsElement ==
  ASSUME NEW X, NEW list \in Seq(X), list # <<>>
  PROVE  Last(list) \in ToSet(list)
<1>1. Len(list) \in DOMAIN list
  OBVIOUS
<1>2. QED
  BY <1>1 DEF Last, ToSet

\* All elements of a list but the last.
LEMMA FrontIs ==
  ASSUME NEW X, NEW list \in Seq(X), list # <<>>
  PROVE  /\ Front(list) \in Seq(X) /\ Len(Front(list)) = Len(list) - 1
         /\ \A i \in 1..Len(list) - 1 : Front(list)[i] = list[i]
<1>1. Len(list) \in Nat /\ Len(list) > 0
  OBVIOUS
<1>2. Front(list) = [i \in 1..Len(list) - 1 |-> list[i]]
  BY <1>1 DEF Front
<1>3. Len(list) - 1 \in Nat /\ \A i \in 1..Len(list) - 1 : list[i] \in X
  BY <1>1
<1>4. QED
  BY <1>2, <1>3

\* Each turn of the loop in DeleteAllReferences deletes one reference of the node.
LEMMA DeleteLastReferenceStands ==
  ASSUME NEW k, NEW s \in Standing(k), NEW n \in NodeIds
  PROVE  LET d == DeleteLastReference(s, n) IN
         /\ d \in Standing(k) /\ Without(s, n, d)
         /\ Size(s, n) > 0 => Size(d, n) < Size(s, n)
         /\ Size(s, n) = 0 => d = s
<1> DEFINE d == DeleteLastReference(s, n)
<1>1. s \in Spaces /\ Coherent(s)
  BY DEF Standing
<1>2. s.inv[n] \in Seq(References) /\ s.fwd[n] \in Seq(References)
  BY <1>1, SpaceFields
<1>3. CASE s.inv[n] # <<>>
  <2> DEFINE r == Last(s.inv[n])
  <2>1. d = DeleteReference(s, r.type, r.node, n)
    BY <1>3 DEF DeleteLastReference
  <2>2. r \in ToSet(s.inv[n])
    BY <1>2, <1>3, LastIsElement
  <2> HIDE DEF r, d
  <2>3. r.type \in NodeIds /\ r.node \in NodeIds /\ Back(s, r.type, r.node, n)
    BY <1>1, <2>2, ListsHave
  <2>4. Has(s, r.type, r.node, n)
    BY <1>1, <2>3 DEF Coherent
  <2>5. /\ d \in Standing(k) /\ d.node = s.node
        /\ \A u, x, y \in NodeIds :
             Has(d, u, x, y) <=> Has(s, u, x, y) /\ ~(u = r.type /\ x = r.node /\ y = n)
        /\ \A x \in NodeIds :
             /\ Len(d.fwd[x]) = IF x = r.node THEN Len(s.fwd[x]) - 1 ELSE Len(s.fwd[x])
             /\ Len(d.inv[x]) = IF x = n THEN Len(s.inv[x]) - 1 ELSE Len(s.inv[x])
    BY <2>1, <2>3, <2>4, DeleteReferenceStands
  <2>6. Without(s, n, d)
    BY <2>5 DEF Without
  <2>7. Len(s.inv[n]) \in Nat /\ Len(s.fwd[n]) \in Nat /\ Len(s.inv[n]) > 0
    BY <1>2, <1>3
  <2>8. /\ Len(d.fwd[n]) = IF n = r.node THEN Len(s.fwd[n]) - 1 ELSE Len(s.fwd[n])
        /\ Len(d.inv[n]) = Len(s.inv[n]) - 1
    BY <2>5
  <2> DEFINE in == Len(s.inv[n])
             out == Len(s.fwd[n])
             left == Len(d.inv[n])
             rest == Len(d.fwd[n])
  <2>9. Size(s, n) = in + out /\ Size(d, n) = left + rest
    BY DEF Size
  <2>10. in \in Nat /\ out \in Nat
    BY <2>7
  <2>11. left = in - 1 /\ in > 0 /\ (rest = out \/ rest = out - 1)
    BY <2>7, <2>8
  <2> HIDE DEF in, out, left, rest
  <2>12. Size(d, n) < Size(s, n) /\ Size(s, n) > 0
    BY <2>9, <2>10, <2>11
  <2>13. d \in Standing(k) /\ (Size(s, n) = 0 => d = s)
    BY <2>5, <2>12
  <2>14. QED
    BY <2>6, <2>12, <2>13 DEF d
<1>4. CASE s.inv[n] = <<>> /\ s.fwd[n] # <<>>
  <2> DEFINE r == Last(s.fwd[n])
  <2>1. d = DeleteReference(s, r.type, n, r.node)
    BY <1>4 DEF DeleteLastReference
  <2>2. r \in ToSet(s.fwd[n])
    BY <1>2, <1>4, LastIsElement
  <2> HIDE DEF r, d
  <2>3. r.type \in NodeIds /\ r.node \in NodeIds /\ Has(s, r.type, n, r.node)
    BY <1>1, <2>2, ListsHave
  <2>4. r.node # n
    <3>1. Back(s, r.type, n, r.node)
      BY <1>1, <2>3 DEF Coherent
    <3>2. ToSet(<<>>) = {}
      BY DEF ToSet
    <3>3. QED
      BY <1>4, <3>1, <3>2 DEF Back
  <2>5. /\ d \in Standing(k) /\ d.node = s.node
        /\ \A u, x, y \in NodeIds :
             Has(d, u, x, y) <=> Has(s, u, x, y) /\ ~(u = r.type /\ x = n /\ y = r.node)
        /\ \A x \in NodeIds :
             /\ Len(d.fwd[x]) = IF x = n THEN Len(s.fwd[x]) - 1 ELSE Len(s.fwd[x])
             /\ Len(d.inv[x]) = IF x = r.node THEN Len(s.inv[x]) - 1 ELSE Len(s.inv[x])
    BY <2>1, <2>3, DeleteReferenceStands
  <2>6. Without(s, n, d)
    BY <2>5 DEF Without
  <2>7. Len(s.inv[n]) \in Nat /\ Len(s.fwd[n]) \in Nat /\ Len(s.fwd[n]) > 0
    BY <1>2, <1>4
  <2>8. Len(d.fwd[n]) = Len(s.fwd[n]) - 1 /\ Len(d.inv[n]) = Len(s.inv[n])
    BY <2>4, <2>5
  <2> DEFINE in == Len(s.inv[n])
             out == Len(s.fwd[n])
             left == Len(d.inv[n])
             rest == Len(d.fwd[n])
  <2>9. Size(s, n) = in + out /\ Size(d, n) = left + rest
    BY DEF Size
  <2>10. in \in Nat /\ out \in Nat
    BY <2>7
  <2>11. left = in /\ rest = out - 1 /\ out > 0
    BY <2>7, <2>8
  <2> HIDE DEF in, out, left, rest
  <2>12. Size(d, n) < Size(s, n) /\ Size(s, n) > 0
    BY <2>9, <2>10, <2>11
  <2>13. d \in Standing(k) /\ (Size(s, n) = 0 => d = s)
    BY <2>5, <2>12
  <2>14. QED
    BY <2>6, <2>12, <2>13 DEF d
<1>5. CASE s.inv[n] = <<>> /\ s.fwd[n] = <<>>
  <2>1. d = s
    BY <1>5 DEF DeleteLastReference
  <2>2. Size(s, n) = 0
    BY <1>5 DEF Size
  <2>3. QED
    BY <2>1, <2>2 DEF Without
<1>6. QED
  BY <1>3, <1>4, <1>5

\* What is left of a space after some of a node's references went.
Leftover(k, s, n) == {z \in Standing(k) : Without(s, n, z)}

\* The loop leaves fewer references at each turn until none is left.
LEMMA LeftoverShrinks ==
  ASSUME NEW k, NEW s \in Standing(k), NEW n \in NodeIds, NEW z \in Leftover(k, s, n)
  PROVE  /\ DeleteLastReference(z, n) \in Leftover(k, s, n)
         /\ Size(z, n) > 0 => Size(DeleteLastReference(z, n), n) < Size(z, n)
         /\ Size(z, n) = 0 => DeleteLastReference(z, n) = z
<1> DEFINE d == DeleteLastReference(z, n)
<1>1. z \in Standing(k) /\ Without(s, n, z)
  BY DEF Leftover
<1>2. /\ d \in Standing(k) /\ Without(z, n, d)
      /\ Size(z, n) > 0 => Size(d, n) < Size(z, n)
      /\ Size(z, n) = 0 => d = z
  BY <1>1, DeleteLastReferenceStands
<1> HIDE DEF d
<1>3. Without(s, n, d)
  BY <1>1, <1>2 DEF Without
<1>4. d \in Leftover(k, s, n)
  BY <1>2, <1>3 DEF Leftover
<1>5. QED
  BY <1>2, <1>4 DEF d

\* DeleteAllReferences deletes the references of the node, and no others.
LEMMA DeleteAllReferencesStands ==
  ASSUME NEW k, NEW s \in Standing(k), NEW n \in NodeIds
  PROVE  LET t == DeleteAllReferences(s, n) IN
         /\ t \in Standing(k) /\ t.node = s.node
         /\ \A u, a, b \in NodeIds : Has(t, u, a, b) <=> Has(s, u, a, b) /\ a # n /\ b # n
<1> DEFINE L == Leftover(k, s, n)
           N == Len(s.inv[n]) + Len(s.fwd[n])
           step == [p \in L \X (1..N) |-> DeleteLastReference(p[1], n)]
           Def(g) == [i \in 0..N |-> IF i = 0 THEN s ELSE DeleteLastReference(g[i - 1], n)]
           left == CHOOSE g : g = Def(g)
           t == DeleteAllReferences(s, n)
<1>1. t = left[N]
  BY DEF DeleteAllReferences
<1> HIDE DEF t
<1>2. s \in Spaces /\ \A z \in L : z \in Spaces
  BY DEF Leftover, Standing
<1>3. N = Size(s, n) /\ N \in Nat
  BY <1>2, SizeIsNatural DEF Size
<1>4. s \in L
  BY DEF Leftover, Without
<1>5. step \in [L \X (1..N) -> L]
  <2>1. ASSUME NEW p \in L \X (1..N) PROVE DeleteLastReference(p[1], n) \in L
    BY LeftoverShrinks
  <2> HIDE DEF L, N
  <2>2. QED
    BY <2>1
<1>6. \A z \in L, i \in 1..N : step[<<z, i>>] = DeleteLastReference(z, n)
  <2> HIDE DEF L, N
  <2>1. QED
    OBVIOUS
<1>7. \A z \in L :
        LET d == DeleteLastReference(z, n) IN
        /\ Size(z, n) \in Nat /\ Size(d, n) \in Nat
        /\ Size(z, n) > 0 => Size(d, n) < Size(z, n)
        /\ Size(z, n) = 0 => Size(d, n) = 0
  <2>1. ASSUME NEW z \in L
        PROVE  LET d == DeleteLastReference(z, n) IN
               /\ Size(z, n) \in Nat /\ Size(d, n) \in Nat
               /\ Size(z, n) > 0 => Size(d, n) < Size(z, n)
               /\ Size(z, n) = 0 => Size(d, n) = 0
    <3>1. DeleteLastReference(z, n) \in L
      BY LeftoverShrinks
    <3>2. Size(z, n) \in Nat /\ Size(DeleteLastReference(z, n), n) \in Nat
      BY <1>2, <3>1, SizeIsNatural
    <3>3. QED
      BY <3>2, LeftoverShrinks
  <2>2. QED
    BY <2>1
<1> HIDE DEF L, N, step
<1>8. PICK f \in [0..N -> L] : Goes(f, s, step, N)
  BY <1>3, <1>4, <1>5, StepByStep
<1>9. f[0] = s /\ \A i \in 1..N : f[i] = DeleteLastReference(f[i - 1], n)
  <2>1. ASSUME NEW i \in 1..N PROVE f[i] = DeleteLastReference(f[i - 1], n)
    <3>1. i - 1 \in 0..N
      BY <1>3
    <3>2. f[i] = step[<<f[i - 1], i>>]
      BY <1>8 DEF Goes
    <3>3. QED
      BY <1>6, <1>8, <3>1, <3>2
  <2>2. QED
    BY <1>8, <2>1 DEF Goes
<1>10. f = Def(f)
  <2>1. ASSUME NEW i \in 0..N
        PROVE  f[i] = IF i = 0 THEN s ELSE DeleteLastReference(f[i - 1], n)
    BY <1>3, <1>9
  <2>2. QED
    BY <2>1
<1>11. left = Def(left)
  BY <1>10
<1> HIDE DEF left
<1>12. left[0] = s /\ \A i \in 1..N : left[i] = DeleteLastReference(left[i - 1], n)
  BY <1>3, <1>11
<1> HIDE DEF Def
<1>13. \A i \in 0..N : left[i] \in L /\ Size(left[i], n) <= N - i
  <2> DEFINE Q == {i \in 0..N : left[i] \in L /\ Size(left[i], n) <= N - i}
  <2>1. 0 \in Q
    BY <1>3, <1>4, <1>12
  <2>2. ASSUME NEW i \in 1..N, i - 1 \in Q PROVE i \in Q
    <3>1. /\ left[i - 1] \in L /\ Size(left[i - 1], n) <= N - (i - 1)
          /\ left[i] = DeleteLastReference(left[i - 1], n)
      BY <1>12, <2>2
    <3>2. left[i] \in L
      BY <3>1, LeftoverShrinks DEF L
    <3> DEFINE was == Size(left[i - 1], n)
               is == Size(left[i], n)
    <3>3. /\ was \in Nat /\ is \in Nat
          /\ was > 0 => is < was
          /\ was = 0 => is = 0
      BY <1>7, <3>1
    <3>4. was <= N - (i - 1)
      BY <3>1
    <3> HIDE DEF was, is
    <3>5. is <= N - i
      BY <1>3, <3>3, <3>4
    <3>6. QED
      BY <3>2, <3>5 DEF is
  <2> HIDE DEF Q
  <2>3. 0..N \subseteq Q
    BY <1>3, <2>1, <2>2, UpTo
  <2>4. QED
    BY <2>3 DEF Q
<1>14. t \in L /\ Size(t, n) = 0
  <2>1. N \in 0..N /\ N - N = 0
    BY <1>3
  <2>2. t \in L /\ Size(t, n) <= 0
    BY <1>1, <1>13, <2>1
  <2>3. Size(t, n) \in Nat
    BY <1>7, <2>2
  <2>4. QED
    BY <2>2, <2>3
<1>15. t \in Standing(k) /\ Without(s, n, t) /\ t \in Spaces
  BY <1>2, <1>14 DEF L, Leftover
<1>16. t.inv[n] = <<>> /\ t.fwd[n] = <<>>
  BY <1>14, <1>15, SizeIsNatural
<1>17. \A u, x \in NodeIds : ~Has(t, u, n, x) /\ ~Has(t, u, x, n)
  <2>1. ToSet(<<>>) = {}
    BY DEF ToSet
  <2>2. \A u, x \in NodeIds : ~Has(t, u, n, x)
    BY <1>16, <2>1 DEF Has
  <2>3. \A u, x \in NodeIds : ~Back(t, u, x, n)
    BY <1>16, <2>1 DEF Back
  <2>4. QED
    BY <1>15, <2>2, <2>3 DEF Standing, Coherent
<1>18. \A u, a, b \in NodeIds : Has(t, u, a, b) <=> Has(s, u, a, b) /\ a # n /\ b # n
  BY <1>15, <1>17 DEF Without
<1>19. QED
  BY <1>15, <1>18 DEF t, Without

\* No reference that stays is of type n, and no variable.
Spared(s, n) ==
  /\ \A u, a, b \in NodeIds : Has(s, u, a, b) => u # n
  /\ \A m \in NodeIds : s.node[m].class \in {"Variable", "VariableType"} => s.node[m].dt # n

\* The pointer to the supertype follows the references.
LEMMA SuperFollows ==
  ASSUME NEW s, Coherent(s), NEW t, Coherent(t), NEW m \in NodeIds,
         IsType(t, m) <=> IsType(s, m),
         \A a \in NodeIds : a = s.super[m] \/ a = t.super[m] =>
           (Has(t, "HasSubtype", a, m) <=> Has(s, "HasSubtype", a, m))
  PROVE  t.super[m] = s.super[m]
<1>1. t.super[m] \in Ids /\ s.super[m] \in Ids
  BY SpaceFields DEF Coherent
<1>2. CASE IsType(s, m)
  <2>1. \A a \in NodeIds : (Has(t, "HasSubtype", a, m) <=> t.super[m] = a)
                           /\ (Has(s, "HasSubtype", a, m) <=> s.super[m] = a)
    BY <1>2 DEF Coherent
  <2>2. QED
    BY <1>1, <2>1 DEF Ids
<1>3. CASE ~IsType(s, m)
  BY <1>3 DEF Coherent
<1>4. QED
  BY <1>2, <1>3

\* Erasing a node takes its references, tells of it last, and leaves no trace.
LEMMA EraseNodeStands ==
  ASSUME NEW k, NEW s \in Standing(k), NEW n \in Present(s), Spared(s, n)
  PROVE  LET e == EraseNode(s, n) IN
         /\ e \in Standing(k) /\ Present(e) = Present(s) \ {n}
         /\ \A u, a, b \in NodeIds : Has(e, u, a, b) <=> Has(s, u, a, b) /\ a # n /\ b # n
         /\ \A m \in NodeIds : m # n => e.node[m] = s.node[m]
         /\ \A m \in NodeIds : m # n /\ s.super[m] # n => e.super[m] = s.super[m]
         /\ e.super[n] = Null
<1> DEFINE t == DeleteAllReferences(s, n)
           x == Erased(n)
           e == EraseNode(s, n)
<1>1. n \in NodeIds /\ Null \notin NodeIds
  BY SpaceAssumption DEF Present
<1>2. s \in Spaces /\ Coherent(s) /\ DataTyped(s)
  BY DEF Standing
<1>3. /\ t \in Standing(k) /\ t.node = s.node
      /\ \A u, a, b \in NodeIds : Has(t, u, a, b) <=> Has(s, u, a, b) /\ a # n /\ b # n
  BY <1>1, DeleteAllReferencesStands
<1>4. e = [Notify(t, x) EXCEPT !.node[n] = NoNode]
  BY DEF EraseNode
<1> HIDE DEF t, e
<1>5. /\ t \in Spaces /\ Coherent(t) /\ DataTyped(t)
      /\ Reported(k, t.signals, Edges(t), Present(t))
  BY <1>3 DEF Standing
<1>6. x \in Signals /\ x.kind = "erased" /\ x.node = n /\ x.target = Null
  BY <1>1 DEF Erased, Signals, Ids
<1> HIDE DEF x
<1>7. NoNode \in Nodes /\ NoNode.class = "None"
  <2>1. NoNode \in Nodes
    <3>1. "None" \in NodeClasses
      BY DEF NodeClasses
    <3>2. Null \in Ids /\ 0 \in Int
      BY DEF Ids
    <3>3. "" \in Names
      BY SpaceAssumption
    <3>4. QED
      BY <3>1, <3>2, <3>3 DEF NoNode, Nodes
  <2>2. QED
    BY <2>1 DEF NoNode
<1>8. /\ e \in Spaces /\ e.fwd = t.fwd /\ e.inv = t.inv /\ e.typedef = t.typedef
      /\ e.super = t.super /\ e.signals = Append(t.signals, x)
      /\ \A m \in NodeIds : e.node[m] = IF m = n THEN NoNode ELSE s.node[m]
  <2>1. Append(t.signals, x) \in Seq(Signals)
    BY <1>5, <1>6, SpaceFields
  <2> DEFINE told == [t EXCEPT !.signals = Append(@, x)]
  <2>2. /\ told \in Spaces /\ told.fwd = t.fwd /\ told.inv = t.inv /\ told.typedef = t.typedef
        /\ told.super = t.super /\ told.signals = Append(t.signals, x) /\ told.node = t.node
    BY <1>5, <2>1 DEF Spaces
  <2>3. e = [told EXCEPT !.node[n] = NoNode]
    BY <1>4 DEF Notify
  <2> HIDE DEF told
  <2>4. /\ e \in Spaces /\ e.fwd = told.fwd /\ e.inv = told.inv /\ e.typedef = told.typedef
        /\ e.super = told.super /\ e.signals = told.signals
        /\ \A m \in NodeIds : e.node[m] = IF m = n THEN NoNode ELSE told.node[m]
    BY <1>7, <2>2, <2>3 DEF Spaces
  <2>5. QED
    BY <1>3, <2>2, <2>4
<1>9. \A u, a, b : (Has(e, u, a, b) <=> Has(t, u, a, b)) /\ (Back(e, u, a, b) <=> Back(t, u, a, b))
  BY <1>8 DEF Has, Back
<1>10. Edges(e) = Edges(t) /\ Present(e) = Present(s) \ {n} /\ Present(t) = Present(s)
  BY <1>3, <1>7, <1>8 DEF Edges, Present
<1>11. \A m \in NodeIds : /\ IsType(t, m) <=> IsType(s, m)
                          /\ m # n => (IsType(e, m) <=> IsType(t, m))
  BY <1>3, <1>8 DEF IsType
<1>12. ~IsType(e, n)
  BY <1>1, <1>7, <1>8 DEF IsType, TypeClasses
<1>13. \A a \in NodeIds : ~Has(t, "HasSubtype", a, n)
  <2> SUFFICES ASSUME NEW a \in NodeIds, Has(t, "HasSubtype", a, n) PROVE FALSE
    OBVIOUS
  <2>1. "HasSubtype" \in NodeIds
    BY <1>5, HasType
  <2>2. QED
    BY <1>1, <1>3, <2>1
<1>14. t.super[n] = Null
  <2>1. t.super[n] \in Ids
    BY <1>1, <1>5, SpaceFields
  <2>2. CASE IsType(t, n)
    <3>1. \A a \in NodeIds : Has(t, "HasSubtype", a, n) <=> t.super[n] = a
      BY <1>1, <1>5, <2>2 DEF Coherent
    <3>2. QED
      BY <1>13, <2>1, <3>1 DEF Ids
  <2>3. CASE ~IsType(t, n)
    BY <1>1, <1>5, <2>3 DEF Coherent
  <2>4. QED
    BY <2>2, <2>3
<1>15. \A u, a, b \in NodeIds : Has(e, u, a, b) => {u, a, b} \subseteq Present(e)
  <2> SUFFICES ASSUME NEW u \in NodeIds, NEW a \in NodeIds, NEW b \in NodeIds, Has(e, u, a, b)
               PROVE  {u, a, b} \subseteq Present(e)
    OBVIOUS
  <2>1. Has(s, u, a, b) /\ a # n /\ b # n
    BY <1>3, <1>9
  <2>2. u # n
    BY <2>1 DEF Spared
  <2>3. {u, a, b} \subseteq Present(s)
    BY <1>2, <2>1 DEF Coherent
  <2>4. QED
    BY <1>10, <2>1, <2>2, <2>3
<1>16. Coherent(e)
  <2>1. \A m \in NodeIds : IsInjective(e.fwd[m]) /\ IsInjective(e.inv[m])
    BY <1>5, <1>8 DEF Coherent
  <2>2. \A u, a, b \in NodeIds : Has(e, u, a, b) <=> Back(e, u, a, b)
    BY <1>5, <1>9 DEF Coherent
  <2>3. \A a, b \in NodeIds : Has(e, "HasTypeDefinition", a, b) <=> e.typedef[a] = b
    BY <1>5, <1>8, <1>9 DEF Coherent
  <2>4. \A a, b \in NodeIds : IsType(e, b) => (Has(e, "HasSubtype", a, b) <=> e.super[b] = a)
    <3> SUFFICES ASSUME NEW a \in NodeIds, NEW b \in NodeIds, IsType(e, b)
                 PROVE  Has(e, "HasSubtype", a, b) <=> e.super[b] = a
      OBVIOUS
    <3>1. IsType(t, b)
      BY <1>11, <1>12
    <3>2. QED
      BY <1>5, <1>8, <1>9, <3>1 DEF Coherent
  <2>5. \A b \in NodeIds : ~IsType(e, b) => e.super[b] = Null
    BY <1>5, <1>8, <1>11, <1>14 DEF Coherent
  <2>6. QED
    BY <1>8, <1>15, <2>1, <2>2, <2>3, <2>4, <2>5 DEF Coherent
<1>17. DataTyped(e)
  <2> SUFFICES ASSUME NEW m \in NodeIds, e.node[m].class \in {"Variable", "VariableType"}
               PROVE  As(e, e.node[m].dt, {"DataType"}) # Null
    BY DEF DataTyped, DataTypeOK
  <2>1. m # n /\ e.node[m] = s.node[m]
    BY <1>7, <1>8
  <2>2. As(s, s.node[m].dt, {"DataType"}) # Null /\ s.node[m].dt # n
    BY <1>2, <2>1 DEF DataTyped, DataTypeOK, Spared
  <2>3. s.node[m].dt # Null /\ s.node[s.node[m].dt].class = "DataType"
    BY <2>2, DataTypeFound
  <2>4. s.node[m].dt \in NodeIds
    <3>1. s.node[m] \in Nodes
      BY <1>2, SpaceFields
    <3>2. QED
      BY <2>3, <3>1 DEF Nodes, Ids
  <2>5. e.node[s.node[m].dt].class = "DataType"
    BY <1>8, <2>2, <2>3, <2>4
  <2>6. QED
    BY <2>1, <2>3, <2>5, DataTypeFound
<1>18. Reported(k, e.signals, Edges(e), Present(e))
  <2>1. Edges(t) \in SUBSET Triples
    BY <1>5, EdgesHave DEF Triples
  <2>2. Apply[Edges(t)][x] = Edges(t)
    BY <1>6, <2>1, ApplyStays
  <2>3. Present(t) \in SUBSET NodeIds /\ Present(e) \in SUBSET Present(t)
    BY <1>10 DEF Present
  <2>4. x.node \in Present(t) /\ x.target \in Present(t) \cup {Null} /\ x.node \notin Present(e)
    BY <1>6, <1>10
  <2> DEFINE left == Present(t)
             left2 == Present(e)
             edges == Edges(t)
  <2>5. Reported(k, t.signals, edges, left)
    BY <1>5
  <2> HIDE DEF left, left2, edges
  <2>6. Reported(k, Append(t.signals, x), edges, left2)
    BY <1>6, <2>1, <2>2, <2>3, <2>4, <2>5, OneMoreReported DEF left, left2, edges
  <2>7. QED
    BY <1>8, <1>10, <2>6 DEF edges, left2
<1>19. ASSUME NEW m \in NodeIds, m # n, s.super[m] # n PROVE e.super[m] = s.super[m]
  <2>1. ASSUME NEW a \in NodeIds, a = s.super[m] \/ a = t.super[m]
        PROVE  Has(t, "HasSubtype", a, m) <=> Has(s, "HasSubtype", a, m)
    <3>1. CASE "HasSubtype" \in NodeIds
      <4>1. Has(t, "HasSubtype", a, m) <=> Has(s, "HasSubtype", a, m) /\ a # n
        BY <1>3, <1>19, <3>1
      <4>2. a = n => a = t.super[m]
        BY <1>19, <2>1
      <4>3. a = n /\ a = t.super[m] => ~Has(s, "HasSubtype", n, m)
        <5> SUFFICES ASSUME n = t.super[m] PROVE ~Has(s, "HasSubtype", n, m)
          OBVIOUS
        <5>1. IsType(t, m)
          BY <1>1, <1>5 DEF Coherent
        <5>2. Has(t, "HasSubtype", n, m)
          BY <1>1, <1>5, <5>1 DEF Coherent
        <5>3. QED
          BY <1>1, <1>3, <3>1, <5>2
      <4>4. QED
        BY <4>1, <4>2, <4>3
    <3>2. CASE "HasSubtype" \notin NodeIds
      BY <1>2, <1>5, <3>2, HasType
    <3>3. QED
      BY <3>1, <3>2
  <2>2. t.super[m] = s.super[m]
    BY <1>2, <1>5, <1>11, <2>1, SuperFollows
  <2>3. QED
    BY <1>8, <2>2
<1>20. e \in Standing(k)
  BY <1>8, <1>16, <1>17, <1>18 DEF Standing
<1>21. QED
  BY <1>1, <1>3, <1>8, <1>9, <1>10, <1>14, <1>19, <1>20 DEF e

\* Every type is a subtype of itself.
LEMMA SubtypeOfItself ==
  ASSUME NEW s \in Spaces, NEW t \in NodeIds
  PROVE  IsSubtypeOf(s, t, t)
<1>1. PICK f \in [0..Longest -> [Ids -> BOOLEAN]] : Climbs(f, s, t)
  BY SubtypeClimbs
<1>2. Longest \in Nat /\ Longest # 0
  <2>1. IsFiniteSet(NodeIds) /\ NodeIds # {}
    BY SpaceAssumption
  <2>2. Longest \in Nat
    BY LongestIsNatural
  <2>3. Longest # 0
    BY <2>1, FS_EmptySet DEF Longest
  <2>4. QED
    BY <2>2, <2>3
<1>3. Longest \in 1..Longest /\ t \in Ids /\ t # Null
  <2>1. Longest \in 1..Longest
    BY <1>2
  <2>2. t \in Ids /\ t # Null
    BY SpaceAssumption DEF Ids
  <2>3. QED
    BY <2>1, <2>2
<1>4. f[Longest][t]
  BY <1>1, <1>3 DEF Climbs
<1>5. QED
  BY <1>1, <1>3, <1>4 DEF Climbs

\* Taking a type out of the hierarchy leaves the types that are not below it.
LEMMA SubtypesKept ==
  ASSUME NEW s \in Spaces, NEW e \in Spaces, NEW n \in NodeIds,
         \A m \in NodeIds : m # n /\ s.super[m] # n => e.super[m] = s.super[m],
         NEW t \in NodeIds, ~IsSubtypeOf(s, t, n), NEW supertype
  PROVE  IsSubtypeOf(e, t, supertype) <=> IsSubtypeOf(s, t, supertype)
<1>1. PICK f \in [0..Longest -> [Ids -> BOOLEAN]] : Climbs(f, s, supertype)
  BY SubtypeClimbs
<1>2. PICK g \in [0..Longest -> [Ids -> BOOLEAN]] : Climbs(g, e, supertype)
  BY SubtypeClimbs
<1>3. PICK h \in [0..Longest -> [Ids -> BOOLEAN]] : Climbs(h, s, n)
  BY SubtypeClimbs
<1> DEFINE Q == {left \in 0..Longest : \A u \in Ids : h[left][u] \/ (f[left][u] <=> g[left][u])}
<1>4. Longest \in Nat
  BY LongestIsNatural
<1>5. 0 \in Q
  BY <1>1, <1>2, <1>4 DEF Climbs
<1>6. ASSUME NEW left \in 1..Longest, left - 1 \in Q PROVE left \in Q
  <2>1. left \in 0..Longest /\ left - 1 \in 0..Longest
    BY <1>4
  <2>2. ASSUME NEW u \in Ids, ~h[left][u] PROVE f[left][u] <=> g[left][u]
    <3>1. CASE u = Null
      BY <1>1, <1>2, <3>1 DEF Climbs
    <3>2. CASE u # Null
      <4>1. u \in NodeIds /\ s.super[u] \in Ids /\ e.super[u] \in Ids
        BY <3>2, SpaceFields DEF Ids
      <4>2. u # n /\ ~h[left - 1][s.super[u]]
        BY <1>3, <2>2, <3>2 DEF Climbs
      <4>3. f[left - 1][s.super[u]] <=> g[left - 1][s.super[u]]
        BY <1>6, <4>1, <4>2
      <4>4. CASE s.super[u] # n
        <5>1. e.super[u] = s.super[u]
          BY <4>1, <4>2, <4>4
        <5>2. QED
          BY <1>1, <1>2, <3>2, <4>3, <5>1 DEF Climbs
      <4>5. CASE s.super[u] = n
        <5>1. left - 1 = 0
          <6> SUFFICES ASSUME left - 1 # 0 PROVE FALSE
            OBVIOUS
          <6>1. left - 1 \in 1..Longest
            BY <1>4
          <6>2. n \in Ids /\ n # Null
            BY SpaceAssumption DEF Ids
          <6>3. h[left - 1][n]
            BY <1>3, <6>1, <6>2 DEF Climbs
          <6>4. QED
            BY <4>2, <4>5, <6>3
        <5>2. ~f[0][s.super[u]] /\ ~g[0][e.super[u]]
          BY <1>1, <1>2, <4>1 DEF Climbs
        <5>3. ~f[left - 1][s.super[u]] /\ ~g[left - 1][e.super[u]]
          BY <5>1, <5>2
        <5>4. QED
          BY <1>1, <1>2, <3>2, <5>3 DEF Climbs
      <4>6. QED
        BY <4>4, <4>5
    <3>3. QED
      BY <3>1, <3>2
  <2>3. QED
    BY <2>1, <2>2
<1>7. 0..Longest \subseteq Q
  <2> HIDE DEF Q
  <2>1. QED
    BY <1>4, <1>5, <1>6, UpTo
<1>8. Longest \in Q /\ t \in Ids
  BY <1>4, <1>7 DEF Ids
<1>9. ~h[Longest][t]
  BY <1>3, <1>8 DEF Climbs
<1>10. f[Longest][t] <=> g[Longest][t]
  BY <1>8, <1>9
<1>11. QED
  BY <1>1, <1>2, <1>8, <1>10 DEF Climbs

\* A node is deleted only once no reference or variable left is of its type.
LEMMA NotInUse ==
  ASSUME NEW s \in Spaces, NEW n \in NodeIds, ~InUse(s, n)
  PROVE  /\ Spared(s, n)
         /\ \A u, a, b \in NodeIds : Has(s, u, a, b) => ~IsSubtypeOf(s, u, n)
<1>1. ASSUME NEW u \in NodeIds, NEW a \in NodeIds, NEW b \in NodeIds, Has(s, u, a, b)
      PROVE  ~IsSubtypeOf(s, u, n)
  <2> DEFINE e == <<u, a, b>>
  <2>1. e \in Edges(s)
    BY <1>1, EdgesHave
  <2>2. e[1] = u
    OBVIOUS
  <2> HIDE DEF e
  <2>3. QED
    BY <2>1, <2>2 DEF InUse
<1>2. \A u, a, b \in NodeIds : Has(s, u, a, b) => u # n
  BY <1>1, SubtypeOfItself
<1>3. QED
  BY <1>1, <1>2 DEF InUse, Spared

\* b hangs below a.
Child(s, a, b) == \E t \in NodeIds : Has(s, t, a, b) /\ IsHierarchical(s, t)

\* GetChildren lists the nodes that hang below a node.
LEMMA ChildrenHang ==
  ASSUME NEW s \in Spaces, NEW a \in NodeIds
  PROVE  /\ GetChildren(s, a) \in Seq(NodeIds)
         /\ \A b \in NodeIds : b \in ToSet(GetChildren(s, a)) <=> Child(s, a, b)
<1> DEFINE H == "HierarchicalReferences"
           refs == {q \in ToSet(s.fwd[a]) : IsSubtypeOf(s, q.type, H)}
<1>1. /\ GetChildren(s, a) \in Seq(NodeIds)
      /\ ToSet(GetChildren(s, a)) = {r.node : r \in refs}
  BY TargetsType DEF GetChildren
<1>2. ASSUME NEW b \in NodeIds, NEW r \in refs, r.node = b PROVE Child(s, a, b)
  <2>1. r.type \in NodeIds /\ Has(s, r.type, a, b)
    BY <1>2, ListsHave
  <2>2. QED
    BY <2>1 DEF Child, IsHierarchical
<1>3. ASSUME NEW b \in NodeIds, Child(s, a, b) PROVE \E r \in refs : r.node = b
  <2>1. PICK t \in NodeIds : Has(s, t, a, b) /\ IsHierarchical(s, t)
    BY <1>3 DEF Child
  <2> DEFINE r == [type |-> t, node |-> b]
  <2>2. r.type = t /\ r.node = b /\ r \in ToSet(s.fwd[a])
    BY <2>1 DEF Has
  <2> HIDE DEF r
  <2>3. r \in refs
    BY <2>1, <2>2 DEF IsHierarchical
  <2>4. QED
    BY <2>2, <2>3
<1>4. QED
  BY <1>1, <1>2, <1>3

\* Erasing a node takes it from the hierarchy and leaves all other nodes in it.
LEMMA ChildKept ==
  ASSUME NEW k, NEW s \in Standing(k), NEW n \in Present(s), ~InUse(s, n),
         NEW a \in NodeIds, NEW b \in NodeIds
  PROVE  Child(EraseNode(s, n), a, b) <=> Child(s, a, b) /\ a # n /\ b # n
<1> DEFINE e == EraseNode(s, n)
<1>1. n \in NodeIds /\ s \in Spaces
  BY DEF Present, Standing
<1>2. Spared(s, n) /\ \A u, x, y \in NodeIds : Has(s, u, x, y) => ~IsSubtypeOf(s, u, n)
  BY <1>1, NotInUse
<1>3. /\ e \in Standing(k)
      /\ \A u, x, y \in NodeIds : Has(e, u, x, y) <=> Has(s, u, x, y) /\ x # n /\ y # n
      /\ \A m \in NodeIds : m # n /\ s.super[m] # n => e.super[m] = s.super[m]
  BY <1>2, EraseNodeStands
<1>4. e \in Spaces
  BY <1>3 DEF Standing
<1> HIDE DEF e
<1>5. ASSUME NEW t \in NodeIds, Has(s, t, a, b)
      PROVE  IsHierarchical(e, t) <=> IsHierarchical(s, t)
  <2>1. ~IsSubtypeOf(s, t, n)
    BY <1>2, <1>5
  <2>2. QED
    BY <1>1, <1>3, <1>4, <2>1, SubtypesKept DEF IsHierarchical
<1>6. QED
  BY <1>3, <1>5 DEF Child, e

-----------------------------------------------------------------------------
(* The life of an address space.                                           *)

\* What only grew still stands.
LEMMA GrowingStands ==
  ASSUME NEW k
  PROVE  Growing(k) \subseteq Standing(k)
<1> SUFFICES ASSUME NEW s \in Growing(k) PROVE s \in Standing(k)
  OBVIOUS
<1>1. s \in Spaces /\ Coherent(s) /\ DataTyped(s) /\ Reported(k, s.signals, Edges(s), NodeIds)
  BY DEF Growing
<1>2. Present(s) \subseteq NodeIds
  BY DEF Present
<1> DEFINE left == Present(s)
           edges == Edges(s)
<1>3. Reported(k, s.signals, edges, left)
  <2> HIDE DEF left, edges
  <2>1. Reported(k, s.signals, edges, NodeIds)
    BY <1>1 DEF edges
  <2>2. QED
    BY <1>2, <2>1 DEF Reported, left
<1>4. QED
  BY <1>1, <1>3 DEF Standing

\* An operation begins with nothing reported.
LEMMA FreshGrows ==
  ASSUME NEW k, NEW s \in Standing(k)
  PROVE  LET f == [s EXCEPT !.signals = <<>>] IN
         /\ f \in Growing(Edges(s)) /\ Edges(f) = Edges(s) /\ Present(f) = Present(s)
         /\ \A t, a, b : Has(f, t, a, b) <=> Has(s, t, a, b)
         /\ Edges(s) \subseteq Triples
<1> DEFINE f == [s EXCEPT !.signals = <<>>]
           edges == Edges(s)
<1>1. s \in Spaces /\ Coherent(s) /\ DataTyped(s)
  BY DEF Standing
<1>2. Alike(s, f) /\ f.signals = <<>>
  <2>1. <<>> \in Seq(Signals)
    OBVIOUS
  <2>2. QED
    BY <1>1, <2>1 DEF Alike, Spaces
<1> HIDE DEF f
<1>3. /\ Edges(f) = edges /\ Present(f) = Present(s) /\ Coherent(f) /\ DataTyped(f) /\ f \in Spaces
      /\ \A t, a, b : Has(f, t, a, b) <=> Has(s, t, a, b)
  BY <1>1, <1>2, AlikeIn DEF Alike
<1>4. edges \in SUBSET Triples
  BY <1>1, EdgesHave DEF Triples
<1> HIDE DEF edges
<1>5. Reported(edges, f.signals, edges, NodeIds)
  BY <1>2, <1>4, NothingReported
<1>6. f \in Growing(edges)
  BY <1>3, <1>5 DEF Growing
<1>7. QED
  BY <1>3, <1>4, <1>6 DEF f, edges

\* ModifyNode tells of the node and changes nothing else.
LEMMA ModifiedGrows ==
  ASSUME NEW k, NEW s \in Growing(k), NEW n \in NodeIds
  PROVE  Modified(s, n) \in Growing(k)
<1> DEFINE x == [kind |-> "modified", type |-> Null, node |-> n, target |-> Null]
           m == Modified(s, n)
<1>1. s \in Spaces /\ Coherent(s) /\ DataTyped(s) /\ Reported(k, s.signals, Edges(s), NodeIds)
  BY DEF Growing
<1>2. x \in Signals /\ x.kind = "modified" /\ x.node \in NodeIds /\ x.target = Null
  BY DEF Signals, Ids
<1>3. m = [s EXCEPT !.signals = Append(@, x)]
  BY DEF Modified, Notify
<1> HIDE DEF x, m
<1>4. Append(s.signals, x) \in Seq(Signals)
  BY <1>1, <1>2, SpaceFields
<1>5. Alike(s, m) /\ m.signals = Append(s.signals, x)
  BY <1>1, <1>3, <1>4 DEF Alike, Spaces
<1>6. Edges(m) = Edges(s) /\ Coherent(m) /\ DataTyped(m) /\ m \in Spaces
  BY <1>1, <1>5, AlikeIn DEF Alike
<1> DEFINE edges == Edges(s)
<1>7. edges \in SUBSET Triples
  BY <1>1, EdgesHave DEF Triples
<1>8. Reported(k, s.signals, edges, NodeIds)
  BY <1>1
<1> HIDE DEF edges
<1>9. Apply[edges][x] = edges
  BY <1>2, <1>7, ApplyStays
<1>10. Reported(k, Append(s.signals, x), edges, NodeIds)
  BY <1>2, <1>7, <1>8, <1>9, OneMoreReported
<1>11. m \in Growing(k)
  BY <1>5, <1>6, <1>10 DEF Growing, edges
<1>12. QED
  BY <1>11 DEF m

\* The stack of DeleteNode calls: each for a child of the node of the one before.
Stacked(s, stack) ==
  /\ stack \in Seq(NodeIds)
  /\ stack # <<>> => stack[1] \in Present(s)
  /\ \A i \in 1..Len(stack) - 1 : Child(s, stack[i], stack[i + 1])

SpaceInv ==
  /\ space \in Standing(known)
  /\ Stacked(space, deleting)
  /\ doomed \subseteq NodeIds /\ gone \subseteq NodeIds
  /\ status \in Statuses \cup {"none"} /\ order \in Seq(States)
  /\ status = "none" => deleting = <<>>

\* Whoever is on the stack is in the address space.
LEMMA StackPresent ==
  ASSUME NEW s, Coherent(s), NEW stack, Stacked(s, stack), stack # <<>>
  PROVE  /\ Last(stack) \in Present(s)
         /\ \A i \in 1..Len(stack) : stack[i] \in Present(s)
<1>1. Len(stack) \in Nat /\ Len(stack) > 0 /\ \A i \in 1..Len(stack) : stack[i] \in NodeIds
  BY DEF Stacked
<1>2. ASSUME NEW i \in 1..Len(stack) PROVE stack[i] \in Present(s)
  <2>1. CASE i = 1
    BY <2>1 DEF Stacked
  <2>2. CASE i # 1
    <3>1. i - 1 \in 1..Len(stack) - 1 /\ (i - 1) + 1 = i /\ i - 1 \in 1..Len(stack)
      BY <1>1, <2>2
    <3>2. Child(s, stack[i - 1], stack[i])
      BY <3>1 DEF Stacked
    <3>3. QED
      BY <1>1, <3>1, <3>2 DEF Child, Coherent
  <2>3. QED
    BY <2>1, <2>2
<1>3. Len(stack) \in 1..Len(stack)
  BY <1>1
<1>4. QED
  BY <1>2, <1>3 DEF Last

\* DeleteNode calls itself for a child.
LEMMA PushStacks ==
  ASSUME NEW s \in Spaces, NEW stack, Stacked(s, stack), stack # <<>>,
         DeletedFirst(s, Last(stack)) # <<>>
  PROVE  /\ Stacked(s, Append(stack, DeletedFirst(s, Last(stack))[1]))
         /\ Child(s, Last(stack), DeletedFirst(s, Last(stack))[1])
<1> DEFINE n == Last(stack)
           children == GetChildren(s, n)
           c == children[1]
           more == Append(stack, c)
<1>1. /\ stack \in Seq(NodeIds) /\ Len(stack) \in Nat /\ Len(stack) > 0 /\ n = stack[Len(stack)]
      /\ n \in NodeIds
  BY DEF Stacked, Last
<1>2. /\ children \in Seq(NodeIds) /\ children # <<>>
      /\ \A b \in NodeIds : b \in ToSet(children) <=> Child(s, n, b)
  BY <1>1, ChildrenHang DEF DeletedFirst
<1> HIDE DEF children
<1>3. 1 \in DOMAIN children /\ c \in NodeIds
  BY <1>2
<1>4. Child(s, n, c)
  BY <1>2, <1>3 DEF ToSet
<1>5. /\ more \in Seq(NodeIds) /\ Len(more) = Len(stack) + 1 /\ more[Len(stack) + 1] = c
      /\ \A i \in 1..Len(stack) : more[i] = stack[i]
  BY <1>1, <1>3
<1> HIDE DEF more, c
<1>6. ASSUME NEW i \in 1..Len(more) - 1 PROVE Child(s, more[i], more[i + 1])
  <2>1. i \in 1..Len(stack)
    BY <1>1, <1>5
  <2>2. CASE i = Len(stack)
    BY <1>1, <1>4, <1>5, <2>1, <2>2
  <2>3. CASE i # Len(stack)
    <3>1. i \in 1..Len(stack) - 1 /\ i + 1 \in 1..Len(stack)
      BY <1>1, <2>1, <2>3
    <3>2. Child(s, stack[i], stack[i + 1])
      BY <3>1 DEF Stacked
    <3>3. QED
      BY <1>5, <3>1, <3>2
  <2>4. QED
    BY <2>2, <2>3
<1>7. more[1] \in Present(s)
  <2>1. 1 \in 1..Len(stack)
    BY <1>1
  <2>2. QED
    BY <1>5, <2>1 DEF Stacked
<1>8. Stacked(s, more)
  BY <1>5, <1>6, <1>7 DEF Stacked
<1>9. QED
  BY <1>4, <1>8 DEF more, c, children, DeletedFirst

\* When the innermost call is done with its node, the others go on.
LEMMA PopStacks ==
  ASSUME NEW k, NEW s \in Standing(k), NEW stack, Stacked(s, stack), stack # <<>>,
         DeletedFirst(s, Last(stack)) = <<>>, ~InUse(s, Last(stack))
  PROVE  /\ Stacked(EraseNode(s, Last(stack)), Front(stack))
         /\ \A i \in 1..Len(stack) - 1 : stack[i] # Last(stack)
<1> DEFINE n == Last(stack)
           e == EraseNode(s, n)
           less == Front(stack)
<1>1. Coherent(s) /\ s \in Spaces
  BY DEF Standing
<1>2. n \in Present(s) /\ \A i \in 1..Len(stack) : stack[i] \in Present(s)
  BY <1>1, StackPresent
<1>3. stack \in Seq(NodeIds) /\ Len(stack) \in Nat /\ Len(stack) > 0 /\ Present(s) \subseteq NodeIds
  BY DEF Stacked, Present
<1>4. \A b \in NodeIds : ~Child(s, n, b)
  <2>1. ToSet(<<>>) = {}
    BY DEF ToSet
  <2>2. QED
    BY <1>1, <1>2, <1>3, <2>1, ChildrenHang DEF DeletedFirst
<1>5. Present(e) = Present(s) \ {n}
  <2>1. Spared(s, n)
    BY <1>1, <1>2, <1>3, NotInUse
  <2>2. QED
    BY <1>2, <2>1, EraseNodeStands
<1>6. \A a, b \in NodeIds : Child(e, a, b) <=> Child(s, a, b) /\ a # n /\ b # n
  BY <1>2, ChildKept
<1> HIDE DEF n, e
<1>7. /\ less \in Seq(NodeIds) /\ Len(less) = Len(stack) - 1
      /\ \A i \in 1..Len(less) : less[i] = stack[i]
  BY <1>3, FrontIs
<1> HIDE DEF less
<1>8. ASSUME NEW i \in 1..Len(stack) - 1 PROVE stack[i] # n
  <2>1. i \in 1..Len(stack) /\ i + 1 \in 1..Len(stack)
    BY <1>3
  <2>2. Child(s, stack[i], stack[i + 1])
    BY DEF Stacked
  <2>3. QED
    BY <1>2, <1>3, <1>4, <2>1, <2>2
<1>9. less # <<>> => less[1] \in Present(e)
  <2> SUFFICES ASSUME less # <<>> PROVE less[1] \in Present(e)
    OBVIOUS
  <2>1. 1 \in 1..Len(less) /\ 1 \in 1..Len(stack) - 1 /\ 1 \in 1..Len(stack)
    BY <1>3, <1>7
  <2>2. QED
    BY <1>2, <1>5, <1>7, <1>8, <2>1
<1>10. ASSUME NEW i \in 1..Len(less) - 1 PROVE Child(e, less[i], less[i + 1])
  <2>1. /\ i \in 1..Len(less) /\ i + 1 \in 1..Len(less)
        /\ i \in 1..Len(stack) - 1 /\ i + 1 \in 1..Len(stack) - 1
        /\ i \in 1..Len(stack) /\ i + 1 \in 1..Len(stack)
    BY <1>3, <1>7
  <2>2. Child(s, stack[i], stack[i + 1]) /\ stack[i] # n /\ stack[i + 1] # n
    BY <1>8, <2>1 DEF Stacked
  <2>3. stack[i] \in NodeIds /\ stack[i + 1] \in NodeIds
    BY <1>2, <1>3, <2>1
  <2>4. QED
    BY <1>6, <1>7, <2>1, <2>2, <2>3
<1>11. QED
  BY <1>7, <1>8, <1>9, <1>10 DEF n, e, less, Stacked

\* A call that adds to the space or changes a value leaves a sound space.
LEMMA GrownInv ==
  ASSUME SpaceInv, space' \in Growing(Edges(space)), known' = Edges(space),
         status' \in Statuses \cup {"none"}, deleting = <<>>,
         UNCHANGED <<order, deleting, doomed, gone>>
  PROVE  SpaceInv'
<1>1. space' \in Standing(known')
  <2>1. Growing(Edges(space)) \subseteq Standing(Edges(space))
    BY GrowingStands
  <2>2. QED
    BY <2>1
<1>2. Stacked(space', deleting')
  <2>1. <<>> \in Seq(NodeIds) /\ Len(<<>>) = 0 /\ 1..0 - 1 = {}
    OBVIOUS
  <2>2. Stacked(space', <<>>)
    BY <2>1 DEF Stacked
  <2>3. QED
    BY <2>2
<1>3. QED
  BY <1>1, <1>2 DEF SpaceInv

\* What a client's call has to work with.
LEMMA FreshSpace ==
  ASSUME SpaceInv
  PROVE  /\ Fresh \in Growing(Edges(space)) /\ Fresh \in Standing(Edges(space))
         /\ Edges(Fresh) = Edges(space) /\ Present(Fresh) = Present(space)
         /\ \A t, a, b : Has(Fresh, t, a, b) <=> Has(space, t, a, b)
         /\ Closed(Growing(Edges(space))) /\ Edges(space) \subseteq Triples
<1>1. space \in Standing(known)
  BY DEF SpaceInv
<1>2. /\ Fresh \in Growing(Edges(space)) /\ Edges(Fresh) = Edges(space)
      /\ Present(Fresh) = Present(space) /\ Edges(space) \subseteq Triples
      /\ \A t, a, b : Has(Fresh, t, a, b) <=> Has(space, t, a, b)
  BY <1>1, FreshGrows DEF Fresh
<1>3. QED
  BY <1>2, GrowingClosed, GrowingStands

\* The standard space is sound.
LEMMA SpaceInvInit == Init => SpaceInv
<1> SUFFICES ASSUME Init PROVE SpaceInv
  OBVIOUS
<1>1. PICK s \in Growing({}) : StandardSpace = [s EXCEPT !.signals = <<>>]
  BY GrowingClosed, BuiltGrows, StandardSpaceStays
<1>2. s \in Standing({})
  BY GrowingStands
<1>3. space \in Growing(Edges(s)) /\ Edges(space) = Edges(s)
  BY <1>1, <1>2, FreshGrows DEF Init
<1>4. space \in Standing(known)
  BY <1>3, GrowingStands DEF Init
<1>5. Stacked(space, deleting)
  <2>1. <<>> \in Seq(NodeIds) /\ Len(<<>>) = 0 /\ 1..0 - 1 = {}
    OBVIOUS
  <2>2. Stacked(space, <<>>)
    BY <2>1 DEF Stacked
  <2>3. QED
    BY <2>2 DEF Init
<1>6. order \in Seq(States)
  BY AddressSpaceAssumption DEF Init
<1>7. QED
  BY <1>4, <1>5, <1>6 DEF Init, SpaceInv

\* Every operation, and each step of a deletion, leaves a sound space.
LEMMA SpaceInvStep == SpaceInv /\ NothingInUseIsDeleted /\ [Next]_vars => SpaceInv'
<1> SUFFICES ASSUME SpaceInv, NothingInUseIsDeleted, [Next]_vars PROVE SpaceInv'
  OBVIOUS
<1> DEFINE K == Growing(Edges(space))
<1>1. /\ Fresh \in K /\ Fresh \in Standing(Edges(space)) /\ Edges(Fresh) = Edges(space)
      /\ \A t, a, b : Has(Fresh, t, a, b) <=> Has(space, t, a, b)
      /\ Present(Fresh) = Present(space)
      /\ Closed(K) /\ Edges(space) \subseteq Triples
  BY FreshSpace
<1>2. /\ space \in Standing(known) /\ Stacked(space, deleting)
      /\ doomed \subseteq NodeIds /\ gone \subseteq NodeIds
      /\ status \in Statuses \cup {"none"} /\ order \in Seq(States)
      /\ status = "none" => deleting = <<>>
  BY DEF SpaceInv
<1>3. space \in Spaces /\ Coherent(space)
  BY <1>2 DEF Standing
<1> HIDE DEF K
<1>4. CASE Load
  <2>1. LoadStaticUANodeSet(Fresh, order) \in Made(K)
    BY <1>1, <1>2, LoadStays
  <2>2. space' \in K /\ status' \in Statuses
    BY <1>1, <1>4, <2>1, MadeFields DEF Load
  <2>3. QED
    BY <1>2, <1>4, <2>2, GrownInv DEF Load, K
<1>5. ASSUME NEW ns \in Creations, Create(ns) PROVE SpaceInv'
  <2>1. ns \in States
    BY AddressSpaceAssumption
  <2>2. CreateNode(Fresh, ns) \in Made(K)
    BY <1>1, <2>1, CreateNodeStays
  <2>3. space' \in K /\ status' \in Statuses
    BY <1>1, <1>5, <2>2, MadeFields DEF Create
  <2>4. QED
    BY <1>5, <2>3, GrownInv DEF Create, Idle, K
<1>6. ASSUME NEW l \in Links, Link(l[1], l[2], l[3]) PROVE SpaceInv'
  <2>1. space' \in K
    BY <1>1, <1>6 DEF Link, Closed
  <2>2. QED
    BY <1>2, <1>6, <2>1, GrownInv DEF Link, Idle, K
<1>7. ASSUME NEW l \in Links, Unlink(l[1], l[2], l[3]) PROVE SpaceInv'
  <2> DEFINE t == l[1]
             a == l[2]
             b == l[3]
  <2>1. t \in NodeIds /\ a \in NodeIds /\ b \in NodeIds
    BY AddressSpaceAssumption
  <2>2. /\ space' = IF <<t, a, b>> \in Edges(space) THEN DeleteReference(Fresh, t, a, b)
                                                   ELSE Refused
        /\ known' = Edges(space) /\ deleting = <<>>
        /\ UNCHANGED <<status, order, deleting, doomed, gone>>
    BY <1>7 DEF Unlink, Idle
  <2> HIDE DEF t, a, b
  <2>3. CASE <<t, a, b>> \in Edges(space)
    <3>1. Has(Fresh, t, a, b)
      BY <1>1, <1>3, <2>1, <2>3, EdgesHave
    <3>2. space' \in Standing(known')
      BY <1>1, <2>1, <2>2, <2>3, <3>1, DeleteReferenceStands
    <3>3. Stacked(space', deleting')
      <4>1. <<>> \in Seq(NodeIds) /\ Len(<<>>) = 0 /\ 1..0 - 1 = {}
        OBVIOUS
      <4>2. Stacked(space', <<>>)
        BY <4>1 DEF Stacked
      <4>3. QED
        BY <2>2, <4>2
    <3>4. QED
      BY <1>2, <2>2, <3>2, <3>3 DEF SpaceInv
  <2>4. CASE <<t, a, b>> \notin Edges(space)
    <3>1. Refused \in K
      BY <1>1 DEF Refused, Closed
    <3>2. QED
      BY <1>2, <2>2, <2>4, <3>1, GrownInv DEF K
  <2>5. QED
    BY <2>3, <2>4
<1>8. ASSUME NEW n \in Writable, NEW value \in Values, ModifyValue(n, value) PROVE SpaceInv'
  <2>1. n \in NodeIds /\ value \in Int
    BY AddressSpaceAssumption
  <2> DEFINE written == [Fresh EXCEPT !.node[n].value = value]
  <2>2. space' = IF n \in Present(space) THEN Modified(written, n) ELSE Refused
    BY <1>8 DEF ModifyValue
  <2>3. written \in K /\ Refused \in K
    BY <1>1, <2>1 DEF Refused, Closed
  <2> HIDE DEF written
  <2>4. Modified(written, n) \in K
    BY <2>1, <2>3, ModifiedGrows DEF K
  <2>5. space' \in K
    BY <2>2, <2>3, <2>4
  <2>6. QED
    BY <1>2, <1>8, <2>5, GrownInv DEF ModifyValue, Idle, K
<1>9. ASSUME NEW n \in Writable, NEW decl \in Declarations, NEW value \in Values,
             ModifyProperty(n, decl, value)
      PROVE  SpaceInv'
  <2>1. n \in NodeIds /\ decl \in NodeIds /\ value \in Int
    BY AddressSpaceAssumption
  <2> DEFINE written == SetPropertyValue(Fresh, n, decl, value)
  <2>2. written \in K
    BY <1>1, <2>1, SetPropertyValueStays
  <2>3. space' = IF written.panic THEN written ELSE Modified(written, n)
    BY <1>9 DEF ModifyProperty
  <2> HIDE DEF written
  <2>4. space' \in K
    BY <2>1, <2>2, <2>3, ModifiedGrows DEF K
  <2>5. QED
    BY <1>2, <1>9, <2>4, GrownInv DEF ModifyProperty, Idle, K
<1>10. ASSUME NEW n \in Deletable, Delete(n) PROVE SpaceInv'
  <2>1. /\ n \in Present(space) /\ deleting' = <<n>> /\ gone' = {} /\ known' = Edges(space)
        /\ space' = Fresh /\ doomed' = Below(space, n) /\ status # "none"
        /\ UNCHANGED <<status, order>>
    BY <1>10 DEF Delete, Idle
  <2>2. Below(space, n) \subseteq NodeIds /\ n \in NodeIds
    BY <2>1 DEF Below, Present
  <2>3. Stacked(space', deleting')
    <3>1. <<n>> \in Seq(NodeIds) /\ Len(<<n>>) = 1 /\ 1..1 - 1 = {} /\ <<n>>[1] = n
      BY <2>2
    <3>2. n \in Present(space')
      BY <1>1, <2>1
    <3>3. Stacked(space', <<n>>)
      BY <3>1, <3>2 DEF Stacked
    <3>4. QED
      BY <2>1, <3>3
  <2>4. QED
    BY <1>1, <1>2, <2>1, <2>2, <2>3 DEF SpaceInv
<1>11. CASE DeleteStep
  <2> DEFINE n == Last(deleting)
             children == DeletedFirst(space, n)
  <2>1. deleting # <<>> /\ n \in Present(space) /\ UNCHANGED <<status, order, doomed, known>>
    BY <1>2, <1>3, <1>11, StackPresent DEF DeleteStep
  <2>2. CASE /\ children # <<>> /\ deleting' = Append(deleting, children[1])
             /\ UNCHANGED <<space, gone>>
    <3>1. Stacked(space', deleting')
      BY <1>2, <1>3, <2>1, <2>2, PushStacks
    <3>2. QED
      BY <1>2, <2>1, <2>2, <3>1 DEF SpaceInv
  <2>3. CASE /\ children = <<>> /\ deleting' = Front(deleting)
             /\ space' = EraseNode(space, n) /\ gone' = gone \cup {n}
    <3>1. ~InUse(space, n)
      BY <2>1, <2>3 DEF NothingInUseIsDeleted, DeletedFirst
    <3>2. Stacked(space', deleting')
      BY <1>2, <2>1, <2>3, <3>1, PopStacks
    <3>3. n \in NodeIds
      BY <2>1 DEF Present
    <3>4. space' \in Standing(known)
      <4>1. Spared(space, n)
        BY <1>3, <3>1, <3>3, NotInUse
      <4>2. EraseNode(space, n) \in Standing(known)
        BY <1>2, <2>1, <4>1, EraseNodeStands
      <4>3. QED
        BY <2>3, <4>2
    <3>5. QED
      BY <1>2, <2>1, <2>3, <3>2, <3>3, <3>4 DEF SpaceInv
  <2>4. QED
    BY <1>11, <2>2, <2>3 DEF DeleteStep
<1>12. CASE UNCHANGED vars
  BY <1>2, <1>12 DEF vars, SpaceInv
<1>13. QED
  BY <1>4, <1>5, <1>6, <1>7, <1>8, <1>9, <1>10, <1>11, <1>12 DEF Next

\* The inductive invariant: in whatever order clients create, link, modify and
\* delete, the space is sound after every step, in the middle of a deletion too.
THEOREM SpacesStand == Spec /\ []NothingInUseIsDeleted => []SpaceInv
<1>1. Init => SpaceInv
  BY SpaceInvInit
<1>2. SpaceInv /\ NothingInUseIsDeleted /\ [Next]_vars => SpaceInv'
  BY SpaceInvStep
<1>3. QED
  BY <1>1, <1>2, PTL DEF Spec

\* Between operations and between the steps of a deletion, both lists of a
\* reference and the cached pointers to types and supertypes agree, and none of
\* them names a node that is gone.
THEOREM ReferencesAlwaysAgree == Spec /\ []NothingInUseIsDeleted => []ReferencesAgree
<1>1. SpaceInv => ReferencesAgree
  BY CoherentAgrees DEF SpaceInv, Standing
<1>2. QED
  BY <1>1, SpacesStand, PTL

\* Subscribers that apply what they are told have the true references after every
\* step, and hear of no node after its end.
THEOREM SubscribersAlwaysFollow == Spec /\ []NothingInUseIsDeleted => []SubscribersCanFollow
<1>1. SpaceInv => SubscribersCanFollow
  <2> SUFFICES ASSUME SpaceInv PROVE SubscribersCanFollow
    OBVIOUS
  <2>1. Reported(known, space.signals, Edges(space), Present(space))
    BY DEF SpaceInv, Standing
  <2>2. QED
    BY <2>1 DEF Reported, SubscribersCanFollow
<1>2. QED
  BY <1>1, SpacesStand, PTL

\* The state is of its types, and every variable has a data type that exists,
\* after a call that failed a Check too.
THEOREM SpaceTypeCorrect == Spec /\ []NothingInUseIsDeleted => []AddressSpaceTypeOK
<1>1. SpaceInv => AddressSpaceTypeOK
  <2> SUFFICES ASSUME SpaceInv PROVE AddressSpaceTypeOK
    OBVIOUS
  <2>1. space \in Spaces /\ DataTyped(space) /\ known \subseteq Triples
    BY DEF SpaceInv, Standing, Reported
  <2>2. QED
    BY <2>1 DEF SpaceInv, AddressSpaceTypeOK, DataTyped, DataTypeOK, Triples, Stacked
<1>2. QED
  BY <1>1, SpacesStand, PTL

-----------------------------------------------------------------------------
(* What lies below a node.                                                 *)

\* The parents of nodes are those that they hang below.
LEMMA ParentsType ==
  ASSUME NEW s, Coherent(s), NEW F \in SUBSET NodeIds
  PROVE  /\ Parents(s, F) \in SUBSET NodeIds
         /\ \A b \in NodeIds : b \in Parents(s, F) <=> \E n \in F : Child(s, b, n)
<1> DEFINE refs == {q \in UNION {ToSet(s.inv[n]) : n \in F} : IsHierarchical(s, q.type)}
<1>1. s \in Spaces /\ Parents(s, F) = {r.node : r \in refs}
  BY DEF Coherent, Parents
<1>2. ASSUME NEW r \in refs
      PROVE  r.node \in NodeIds /\ \E n \in F : Child(s, r.node, n)
  <2>1. PICK n \in F : r \in ToSet(s.inv[n])
    OBVIOUS
  <2>2. n \in NodeIds /\ r.type \in NodeIds /\ r.node \in NodeIds /\ Back(s, r.type, r.node, n)
    BY <1>1, <2>1, ListsHave
  <2>3. Has(s, r.type, r.node, n)
    BY <2>2 DEF Coherent
  <2>4. IsHierarchical(s, r.type)
    OBVIOUS
  <2>5. QED
    BY <2>2, <2>3, <2>4 DEF Child
<1>3. ASSUME NEW b \in NodeIds, NEW n \in F, Child(s, b, n)
      PROVE  \E r \in refs : r.node = b
  <2>1. PICK t \in NodeIds : Has(s, t, b, n) /\ IsHierarchical(s, t)
    BY <1>3 DEF Child
  <2> DEFINE r == [type |-> t, node |-> b]
  <2>2. r \in ToSet(s.inv[n])
    BY <2>1 DEF Coherent, Back
  <2>3. r.type = t /\ r.node = b
    OBVIOUS
  <2> HIDE DEF r
  <2>4. r \in refs
    BY <2>1, <2>2, <2>3
  <2>5. QED
    BY <2>3, <2>4
<1> HIDE DEF refs
<1>4. QED
  BY <1>1, <1>2, <1>3

\* f says how far Ancestors has climbed.
Ascends(f, s) ==
  /\ \A F \in SUBSET NodeIds : f[0][F] = F
  /\ \A left \in 1..Longest, F \in SUBSET NodeIds :
       f[left][F] = IF Parents(s, F) \subseteq F THEN F
                    ELSE f[left - 1][F \cup Parents(s, F)]
  /\ \A F \in SUBSET NodeIds : Ancestors(s, F) = f[Longest][F]

\* Ancestors takes the values that its definition says.
LEMMA AncestorsAscend ==
  ASSUME NEW s, Coherent(s)
  PROVE  \E f \in [0..Longest -> [SUBSET NodeIds -> SUBSET NodeIds]] : Ascends(f, s)
<1> DEFINE N == Longest
           A == SUBSET NodeIds
           S == [A -> A]
           step == [p \in S \X (1..N) |->
                      [F \in A |-> IF Parents(s, F) \subseteq F THEN F
                                   ELSE p[1][F \cup Parents(s, F)]]]
           base == [F \in A |-> F]
           Def(g) == [left \in 0..N |->
                        [F \in A |-> IF left = 0 \/ Parents(s, F) \subseteq F THEN F
                                     ELSE g[left - 1][F \cup Parents(s, F)]]]
           climb == CHOOSE g : g = Def(g)
<1>1. N \in Nat /\ base \in S
  BY LongestIsNatural
<1>2. \A F \in A : F \cup Parents(s, F) \in A
  BY ParentsType
<1>3. \A F : Ancestors(s, F) = climb[N][F]
  BY DEF Ancestors
<1> HIDE DEF A, N
<1>4. \A p \in S, F \in A : p[F] \in A
  OBVIOUS
<1>5. step \in [S \X (1..N) -> S]
  <2>1. ASSUME NEW p \in S \X (1..N)
        PROVE  [F \in A |-> IF Parents(s, F) \subseteq F THEN F
                            ELSE p[1][F \cup Parents(s, F)]] \in S
    <3>1. p[1] \in S
      OBVIOUS
    <3>2. QED
      BY <1>2, <1>4, <3>1
  <2> HIDE DEF S
  <2>2. QED
    BY <2>1
<1>6. \A g \in S, i \in 1..N, F \in A :
        step[<<g, i>>][F] = IF Parents(s, F) \subseteq F THEN F ELSE g[F \cup Parents(s, F)]
  <2> HIDE DEF S
  <2>1. QED
    OBVIOUS
<1> HIDE DEF step
<1>7. PICK f \in [0..N -> S] : Goes(f, base, step, N)
  BY <1>1, <1>5, StepByStep
<1>8. ASSUME NEW i \in 1..N, NEW F \in A
      PROVE  f[i][F] = IF Parents(s, F) \subseteq F THEN F ELSE f[i - 1][F \cup Parents(s, F)]
  <2> HIDE DEF S
  <2>1. i - 1 \in 0..N /\ f[i - 1] \in S
    BY <1>1, <1>7
  <2>2. f[i] = step[<<f[i - 1], i>>]
    BY <1>7 DEF Goes
  <2> DEFINE g == f[i - 1]
  <2>3. g \in S
    BY <2>1
  <2> HIDE DEF g
  <2>4. step[<<g, i>>][F] = IF Parents(s, F) \subseteq F THEN F ELSE g[F \cup Parents(s, F)]
    BY <1>6, <2>3
  <2>5. QED
    BY <2>2, <2>4 DEF g
<1>9. f = Def(f)
  <2>1. ASSUME NEW i \in 0..N
        PROVE  f[i] = [F \in A |-> IF i = 0 \/ Parents(s, F) \subseteq F THEN F
                                   ELSE f[i - 1][F \cup Parents(s, F)]]
    <3>1. CASE i = 0
      BY <1>7, <3>1 DEF Goes
    <3>2. CASE i # 0
      <4>1. i \in 1..N
        BY <1>1, <3>2
      <4>2. f[i] \in S
        BY <1>7
      <4>3. \A F \in A : f[i][F] = IF i = 0 \/ Parents(s, F) \subseteq F THEN F
                                   ELSE f[i - 1][F \cup Parents(s, F)]
        BY <1>8, <3>2, <4>1
      <4>4. QED
        BY <4>2, <4>3
    <3>3. QED
      BY <3>1, <3>2
  <2>2. QED
    BY <2>1
<1>10. climb = Def(climb)
  BY <1>9
<1> HIDE DEF climb
<1>11. \A F \in A : climb[0][F] = F
  BY <1>1, <1>10
<1>12. ASSUME NEW left \in 1..N, NEW F \in A
       PROVE  climb[left][F] = IF Parents(s, F) \subseteq F THEN F
                               ELSE climb[left - 1][F \cup Parents(s, F)]
  <2>1. left \in 0..N /\ left # 0
    BY <1>1
  <2>2. climb[left] = [G \in A |-> IF left = 0 \/ Parents(s, G) \subseteq G THEN G
                                   ELSE climb[left - 1][G \cup Parents(s, G)]]
    BY <1>10, <2>1
  <2>3. QED
    BY <2>1, <2>2
<1>13. climb \in [0..N -> S]
  <2> DEFINE Q == {i \in 0..N : climb[i] \in S}
  <2>1. 0 \in Q
    <3>1. climb[0] = [F \in A |-> IF 0 = 0 \/ Parents(s, F) \subseteq F THEN F
                                  ELSE climb[0 - 1][F \cup Parents(s, F)]]
      BY <1>1, <1>10
    <3>2. climb[0] \in S
      BY <3>1
    <3>3. QED
      BY <1>1, <3>2
  <2>2. ASSUME NEW i \in 1..N, i - 1 \in Q PROVE i \in Q
    <3>1. i \in 0..N /\ climb[i - 1] \in S
      BY <1>1, <2>2
    <3>2. climb[i] = [F \in A |-> IF i = 0 \/ Parents(s, F) \subseteq F THEN F
                                  ELSE climb[i - 1][F \cup Parents(s, F)]]
      BY <1>10, <3>1
    <3>3. climb[i] \in S
      BY <1>2, <1>4, <3>1, <3>2
    <3>4. QED
      BY <3>1, <3>3
  <2>3. 0..N \subseteq Q
    <3> HIDE DEF Q
    <3>1. QED
      BY <1>1, <2>1, <2>2, UpTo
  <2>4. \A i \in 0..N : climb[i] \in S
    BY <2>3
  <2> HIDE DEF S
  <2>5. QED
    BY <1>10, <2>4
<1>14. Ascends(climb, s)
  BY <1>3, <1>11, <1>12 DEF Ascends, N, A
<1>15. QED
  BY <1>13, <1>14 DEF N, A

\* All that lies above a node, and no more.
Upwards(s, C) == C \subseteq NodeIds /\ \A a, b \in NodeIds : b \in C /\ Child(s, a, b) => a \in C

\* Sets that Parents adds nothing to are closed upwards.
LEMMA UpwardsClosed ==
  ASSUME NEW s, Coherent(s), NEW F \in SUBSET NodeIds
  PROVE  Parents(s, F) \subseteq F <=> Upwards(s, F)
  BY ParentsType DEF Upwards

\* Ancestors finds all that lies above a node, and no more.
LEMMA AncestorsClosed ==
  ASSUME NEW s, Coherent(s), NEW x \in NodeIds
  PROVE  /\ x \in Ancestors(s, {x}) /\ Upwards(s, Ancestors(s, {x}))
         /\ \A C : Upwards(s, C) /\ x \in C => Ancestors(s, {x}) \subseteq C
<1> DEFINE N == Longest
           A == SUBSET NodeIds
<1>1. PICK f \in [0..N -> [A -> A]] : Ascends(f, s)
  BY AncestorsAscend
<1>2. N \in Nat /\ IsFiniteSet(NodeIds) /\ N = Cardinality(NodeIds)
  BY LongestIsNatural, SpaceAssumption DEF Longest
<1>3. \A F \in A : IsFiniteSet(F) /\ Cardinality(F) \in Nat /\ Cardinality(F) <= N
                   /\ (Cardinality(F) = N => F = NodeIds)
  BY <1>2, FS_Subset, FS_CardinalityType
<1>4. \A F \in A : F \cup Parents(s, F) \in A /\ Parents(s, F) \in A
  BY ParentsType
<1>5. \A F \in A : ~(Parents(s, F) \subseteq F)
                     => Cardinality(F) + 1 <= Cardinality(F \cup Parents(s, F))
  <2> SUFFICES ASSUME NEW F \in A, ~(Parents(s, F) \subseteq F)
               PROVE  Cardinality(F) + 1 <= Cardinality(F \cup Parents(s, F))
    OBVIOUS
  <2>1. PICK y \in Parents(s, F) : y \notin F
    OBVIOUS
  <2> DEFINE G == F \cup Parents(s, F)
             H == F \cup {y}
  <2>2. G \in A /\ H \in SUBSET G
    BY <1>4
  <2>3. IsFiniteSet(F) /\ IsFiniteSet(G)
    BY <1>3, <2>2
  <2> HIDE DEF G
  <2>4. Cardinality(H) = Cardinality(F) + 1
    BY <2>1, <2>3, FS_AddElement
  <2> HIDE DEF H
  <2>5. Cardinality(H) <= Cardinality(G)
    BY <2>2, <2>3, FS_Subset
  <2>6. QED
    BY <2>4, <2>5 DEF G
<1>6. \A F \in A : Parents(s, F) \subseteq F <=> Upwards(s, F)
  BY UpwardsClosed
<1> DEFINE Good(left, F) ==
             /\ F \subseteq f[left][F]
             /\ N - left <= Cardinality(F) => Upwards(s, f[left][F])
             /\ \A C : Upwards(s, C) /\ F \subseteq C => f[left][F] \subseteq C
           Q == {left \in 0..N : \A F \in A : Good(left, F)}
<1>7. 0 \in Q
  <2>1. ASSUME NEW F \in A PROVE Good(0, F)
    <3>1. f[0][F] = F
      BY <1>1 DEF Ascends
    <3>2. ASSUME N <= Cardinality(F) PROVE Upwards(s, F)
      <4>1. F = NodeIds
        BY <1>2, <1>3, <3>2
      <4>2. QED
        BY <4>1 DEF Upwards
    <3>3. N - 0 = N
      BY <1>2
    <3>4. QED
      BY <3>1, <3>2, <3>3
  <2>2. QED
    BY <1>2, <2>1
<1>8. ASSUME NEW left \in 1..N, left - 1 \in Q PROVE left \in Q
  <2>1. ASSUME NEW F \in A PROVE Good(left, F)
    <3> DEFINE G == F \cup Parents(s, F)
    <3>1. f[left][F] = IF Parents(s, F) \subseteq F THEN F ELSE f[left - 1][G]
      BY <1>1 DEF Ascends
    <3>2. CASE Parents(s, F) \subseteq F
      <4>1. f[left][F] = F /\ Upwards(s, F)
        BY <1>6, <3>1, <3>2
      <4>2. QED
        BY <4>1
    <3>3. CASE ~(Parents(s, F) \subseteq F)
      <4>1. f[left][F] = f[left - 1][G] /\ G \in A
        BY <1>4, <3>1, <3>3
      <4>2. Good(left - 1, G)
        BY <1>8, <4>1
      <4>3. F \subseteq f[left][F]
        BY <4>1, <4>2
      <4>4. ASSUME N - left <= Cardinality(F) PROVE Upwards(s, f[left][F])
        <5>1. Cardinality(F) + 1 <= Cardinality(G)
          BY <1>5, <3>3
        <5> HIDE DEF G
        <5>2. Cardinality(F) \in Nat /\ Cardinality(G) \in Nat
          BY <1>3, <4>1
        <5>3. N - (left - 1) <= Cardinality(G)
          BY <1>2, <4>4, <5>1, <5>2
        <5>4. QED
          BY <4>1, <4>2, <5>3
      <4>5. ASSUME NEW C, Upwards(s, C), F \subseteq C PROVE f[left][F] \subseteq C
        <5>1. Parents(s, F) \subseteq C
          BY <1>4, <4>5, ParentsType DEF Upwards
        <5>2. G \subseteq C
          BY <4>5, <5>1
        <5>3. QED
          BY <4>1, <4>2, <4>5, <5>2
      <4>6. QED
        BY <4>3, <4>4, <4>5
    <3>4. QED
      BY <3>2, <3>3
  <2>2. left \in 0..N
    BY <1>2
  <2> HIDE DEF Good
  <2>3. QED
    BY <2>1, <2>2
<1>9. N \in Q
  <2>1. 0..N \subseteq Q
    <3> HIDE DEF Q
    <3>1. QED
      BY <1>2, <1>7, <1>8, UpTo
  <2>2. N \in 0..N
    BY <1>2
  <2>3. QED
    BY <2>1, <2>2
<1>10. {x} \in A
  OBVIOUS
<1>11. Good(N, {x}) /\ Ancestors(s, {x}) = f[N][{x}]
  BY <1>1, <1>9, <1>10 DEF Ascends
<1>12. N - N <= Cardinality({x})
  BY <1>2, <1>3, <1>10
<1>13. QED
  BY <1>11, <1>12

\* b lies below a, or is a.
Above(s, a, b) == a \in Ancestors(s, {b})

\* What lies above a node depends on who hangs below whom, and on nothing else.
LEMMA AboveChild ==
  ASSUME NEW s, Coherent(s), NEW a \in NodeIds, NEW b \in NodeIds, NEW c \in NodeIds
  PROVE  /\ Above(s, a, a)
         /\ Above(s, a, b) /\ Child(s, b, c) => Above(s, a, c)
<1>1. Above(s, a, a)
  BY AncestorsClosed DEF Above
<1>2. ASSUME Above(s, a, b), Child(s, b, c) PROVE Above(s, a, c)
  <2>1. c \in Ancestors(s, {c}) /\ Upwards(s, Ancestors(s, {c}))
    BY AncestorsClosed
  <2>2. b \in Ancestors(s, {c})
    BY <1>2, <2>1 DEF Upwards
  <2>3. Ancestors(s, {b}) \subseteq Ancestors(s, {c})
    BY <2>1, <2>2, AncestorsClosed
  <2>4. QED
    BY <1>2, <2>3 DEF Above
<1>3. QED
  BY <1>1, <1>2

\* Spaces with the same hierarchy have the same ancestors.
LEMMA AboveSame ==
  ASSUME NEW s, Coherent(s), NEW z, Coherent(z),
         \A a, b \in NodeIds : Child(z, a, b) <=> Child(s, a, b),
         NEW x \in NodeIds
  PROVE  Ancestors(z, {x}) = Ancestors(s, {x})
<1>1. \A C : Upwards(z, C) <=> Upwards(s, C)
  BY DEF Upwards
<1>2. QED
  BY <1>1, AncestorsClosed

\* Without a node that nothing hangs below, all that is above the others stays.
LEMMA AboveWithout ==
  ASSUME NEW s, Coherent(s), NEW z, Coherent(z), NEW n \in NodeIds,
         \A b \in NodeIds : ~Child(s, n, b),
         \A a, b \in NodeIds : Child(z, a, b) <=> Child(s, a, b) /\ a # n /\ b # n,
         NEW x \in NodeIds, x # n
  PROVE  Ancestors(z, {x}) = Ancestors(s, {x})
<1> DEFINE A == Ancestors(s, {x})
           B == Ancestors(z, {x})
<1>1. x \in A /\ Upwards(s, A) /\ \A C : Upwards(s, C) /\ x \in C => A \subseteq C
  BY AncestorsClosed
<1>2. x \in B /\ Upwards(z, B) /\ \A C : Upwards(z, C) /\ x \in C => B \subseteq C
  BY AncestorsClosed
<1> HIDE DEF A, B
<1>3. Upwards(z, A)
  BY <1>1 DEF Upwards
<1>4. B \subseteq A
  BY <1>1, <1>2, <1>3
<1>5. n \notin B
  <2>1. Upwards(z, B \ {n})
    BY <1>2 DEF Upwards
  <2>2. QED
    BY <1>2, <2>1
<1>6. Upwards(s, B)
  BY <1>2, <1>5 DEF Upwards
<1>7. QED
  BY <1>1, <1>2, <1>4, <1>6 DEF A, B

\* Nothing but itself lies below a node that nothing hangs below.
LEMMA AboveNothing ==
  ASSUME NEW s, Coherent(s), NEW n \in NodeIds, \A b \in NodeIds : ~Child(s, n, b),
         NEW x \in NodeIds, Above(s, n, x)
  PROVE  x = n
<1> SUFFICES ASSUME x # n PROVE FALSE
  OBVIOUS
<1> DEFINE A == Ancestors(s, {x})
<1>1. x \in A /\ Upwards(s, A) /\ \A C : Upwards(s, C) /\ x \in C => A \subseteq C
  BY AncestorsClosed
<1>2. n \in A
  BY DEF Above
<1> HIDE DEF A
<1>3. Upwards(s, A \ {n})
  BY <1>1 DEF Upwards
<1>4. QED
  BY <1>1, <1>2, <1>3

\* Every node on the stack of calls lies below the outermost one.
LEMMA StackBelow ==
  ASSUME NEW s, Coherent(s), NEW stack, Stacked(s, stack), stack # <<>>
  PROVE  Last(stack) \in Below(s, stack[1])
<1>1. /\ stack \in Seq(NodeIds) /\ Len(stack) \in Nat /\ Len(stack) > 0
      /\ \A i \in 1..Len(stack) : stack[i] \in NodeIds
  BY DEF Stacked
<1> DEFINE N == Len(stack) - 1
           Q == {i \in 0..N : Above(s, stack[1], stack[i + 1])}
<1>2. N \in Nat /\ N + 1 = Len(stack) /\ \A i \in 0..N : i + 1 \in 1..Len(stack)
  BY <1>1
<1> HIDE DEF N
<1>3. 0 \in Q
  <2>1. 0 + 1 = 1 /\ 0 \in 0..N /\ 1 \in 1..Len(stack)
    BY <1>1, <1>2
  <2>2. Above(s, stack[1], stack[1])
    BY <1>1, <2>1, AboveChild
  <2>3. QED
    BY <2>1, <2>2
<1>4. ASSUME NEW i \in 1..N, i - 1 \in Q PROVE i \in Q
  <2>1. /\ (i - 1) + 1 = i /\ i \in 0..N /\ i \in 1..Len(stack) - 1 /\ i \in 1..Len(stack)
        /\ i + 1 \in 1..Len(stack) /\ 1 \in 1..Len(stack)
    BY <1>1, <1>2
  <2>2. Above(s, stack[1], stack[i]) /\ Child(s, stack[i], stack[i + 1])
    BY <1>4, <2>1 DEF Stacked
  <2>3. Above(s, stack[1], stack[i + 1])
    BY <1>1, <2>1, <2>2, AboveChild
  <2>4. QED
    BY <2>1, <2>3
<1>5. 0..N \subseteq Q
  <2> HIDE DEF Q
  <2>1. QED
    BY <1>2, <1>3, <1>4, UpTo
<1>6. Above(s, stack[1], Last(stack))
  <2>1. N \in 0..N
    BY <1>2
  <2>2. Above(s, stack[1], stack[N + 1])
    BY <1>5, <2>1
  <2>3. QED
    BY <1>2, <2>2 DEF Last
<1>7. QED
  BY <1>6, StackPresent DEF Below, Above

TreeInv == DeletionKeepsTheTree /\ gone \subseteq doomed

\* One call of DeleteNode that is done takes its node from what lies below the top.
LEMMA BelowErased ==
  ASSUME NEW k, NEW s \in Standing(k), NEW stack, Stacked(s, stack), stack # <<>>,
         DeletedFirst(s, Last(stack)) = <<>>, ~InUse(s, Last(stack))
  PROVE  /\ Len(stack) > 1 =>
              /\ Front(stack) # <<>> /\ Front(stack)[1] = stack[1]
              /\ Below(EraseNode(s, Last(stack)), stack[1]) = Below(s, stack[1]) \ {Last(stack)}
         /\ Len(stack) = 1 => /\ Front(stack) = <<>>
                              /\ Below(s, stack[1]) = {Last(stack)}
<1> DEFINE n == Last(stack)
           e == EraseNode(s, n)
           top == stack[1]
<1>1. Coherent(s) /\ s \in Spaces
  BY DEF Standing
<1>2. n \in Present(s) /\ \A i \in 1..Len(stack) : stack[i] \in Present(s)
  BY <1>1, StackPresent
<1>3. /\ stack \in Seq(NodeIds) /\ Len(stack) \in Nat /\ Len(stack) > 0
      /\ Present(s) \subseteq NodeIds /\ n = stack[Len(stack)]
  BY DEF Stacked, Present, Last
<1>4. n \in NodeIds /\ top \in NodeIds
  <2>1. 1 \in 1..Len(stack)
    BY <1>3
  <2>2. QED
    BY <1>2, <1>3, <2>1
<1>5. \A b \in NodeIds : ~Child(s, n, b)
  <2>1. ToSet(<<>>) = {}
    BY DEF ToSet
  <2>2. QED
    BY <1>1, <1>4, <2>1, ChildrenHang DEF DeletedFirst
<1>6. e \in Standing(k) /\ Present(e) = Present(s) \ {n}
  <2>1. Spared(s, n)
    BY <1>1, <1>4, NotInUse
  <2>2. QED
    BY <1>2, <2>1, EraseNodeStands
<1>7. \A a, b \in NodeIds : Child(e, a, b) <=> Child(s, a, b) /\ a # n /\ b # n
  BY <1>2, ChildKept
<1>8. Coherent(e)
  BY <1>6 DEF Standing
<1>9. \A i \in 1..Len(stack) - 1 : stack[i] # n
  BY PopStacks
<1>10. ASSUME Len(stack) > 1
       PROVE  /\ Front(stack) # <<>> /\ Front(stack)[1] = top
              /\ Below(e, top) = Below(s, top) \ {n}
  <2> HIDE DEF n, e, top
  <2> DEFINE less == Front(stack)
  <2>1. /\ less \in Seq(NodeIds) /\ Len(less) = Len(stack) - 1
        /\ \A i \in 1..Len(stack) - 1 : less[i] = stack[i]
    BY <1>3, FrontIs
  <2> HIDE DEF less
  <2>2. 1 \in 1..Len(stack) - 1 /\ Len(less) # 0
    BY <1>3, <1>10, <2>1
  <2>3. less # <<>> /\ less[1] = top
    BY <2>1, <2>2 DEF top
  <2>4. ASSUME NEW m \in Present(s), m # n
        PROVE  Ancestors(e, {m}) = Ancestors(s, {m})
    BY <1>1, <1>3, <1>4, <1>5, <1>7, <1>8, <2>4, AboveWithout
  <2>5. QED
    BY <1>6, <2>3, <2>4 DEF Below, less
<1>11. ASSUME Len(stack) = 1
       PROVE  Front(stack) = <<>> /\ Below(s, top) = {n}
  <2>1. n = top
    BY <1>3, <1>11
  <2> HIDE DEF n, e, top
  <2>2. Front(stack) = <<>>
    BY <1>3, <1>11 DEF Front
  <2>3. n \in Ancestors(s, {n})
    BY <1>1, <1>4, AncestorsClosed
  <2>4. \A m \in Present(s) : n \in Ancestors(s, {m}) => m = n
    BY <1>1, <1>3, <1>4, <1>5, AboveNothing DEF Above
  <2>5. QED
    BY <1>2, <2>1, <2>2, <2>3, <2>4 DEF Below
<1>12. QED
  BY <1>10, <1>11

\* Each step of a deletion takes a node that nothing is left below.
LEMMA TreeInvStep ==
  SpaceInv /\ TreeInv /\ NothingInUseIsDeleted /\ [Next]_vars => TreeInv'
<1> SUFFICES ASSUME SpaceInv, TreeInv, NothingInUseIsDeleted, [Next]_vars PROVE TreeInv'
  OBVIOUS
<1>1. /\ space \in Standing(known) /\ Stacked(space, deleting)
      /\ status = "none" => deleting = <<>>
      /\ space \in Spaces /\ Coherent(space)
  BY DEF SpaceInv, Standing
<1>2. /\ deleting = <<>> => gone = doomed
      /\ deleting # <<>> => Below(space, deleting[1]) = doomed \ gone
      /\ gone \subseteq doomed
  BY DEF TreeInv, DeletionKeepsTheTree
<1>3. ASSUME deleting = <<>>, UNCHANGED <<deleting, doomed, gone>> PROVE TreeInv'
  BY <1>2, <1>3 DEF TreeInv, DeletionKeepsTheTree
<1>4. CASE Load
  BY <1>1, <1>3, <1>4 DEF Load
<1>5. ASSUME NEW ns \in Creations, Create(ns) PROVE TreeInv'
  BY <1>3, <1>5 DEF Create, Idle
<1>6. ASSUME NEW l \in Links, Link(l[1], l[2], l[3]) PROVE TreeInv'
  BY <1>3, <1>6 DEF Link, Idle
<1>7. ASSUME NEW l \in Links, Unlink(l[1], l[2], l[3]) PROVE TreeInv'
  BY <1>3, <1>7 DEF Unlink, Idle
<1>8. ASSUME NEW n \in Writable, NEW value \in Values, ModifyValue(n, value) PROVE TreeInv'
  BY <1>3, <1>8 DEF ModifyValue, Idle
<1>9. ASSUME NEW n \in Writable, NEW decl \in Declarations, NEW value \in Values,
             ModifyProperty(n, decl, value)
      PROVE  TreeInv'
  BY <1>3, <1>9 DEF ModifyProperty, Idle
<1>10. ASSUME NEW n \in Deletable, Delete(n) PROVE TreeInv'
  <2>1. /\ n \in Present(space) /\ deleting' = <<n>> /\ gone' = {}
        /\ space' = Fresh /\ doomed' = Below(space, n)
    BY <1>10 DEF Delete
  <2>2. <<n>> # <<>> /\ <<n>>[1] = n /\ n \in NodeIds /\ Present(space) \subseteq NodeIds
    BY <2>1 DEF Present
  <2>3. Below(Fresh, n) = Below(space, n)
    <3>1. Alike(space, Fresh)
      <4>1. <<>> \in Seq(Signals)
        OBVIOUS
      <4>2. QED
        BY <1>1, <4>1 DEF Alike, Fresh, Spaces
    <3>2. /\ Coherent(Fresh) /\ Present(Fresh) = Present(space) /\ Fresh \in Spaces
          /\ \A t, a, b : Has(Fresh, t, a, b) <=> Has(space, t, a, b)
          /\ Fresh.super = space.super
      BY <1>1, <3>1, AlikeIn DEF Alike
    <3>3. ASSUME NEW t \in NodeIds PROVE IsHierarchical(Fresh, t) <=> IsHierarchical(space, t)
      BY <3>2 DEF IsHierarchical, IsSubtypeOf
    <3> HIDE DEF Fresh
    <3>4. \A a, b \in NodeIds : Child(Fresh, a, b) <=> Child(space, a, b)
      BY <3>2, <3>3 DEF Child
    <3>5. \A m \in NodeIds : Ancestors(Fresh, {m}) = Ancestors(space, {m})
      BY <1>1, <3>2, <3>4, AboveSame
    <3>6. QED
      BY <2>2, <3>2, <3>5 DEF Below
  <2>4. Below(space', deleting'[1]) = doomed' \ gone' /\ deleting' # <<>>
    BY <2>1, <2>2, <2>3
  <2>5. QED
    BY <2>1, <2>4 DEF TreeInv, DeletionKeepsTheTree
<1>11. CASE DeleteStep
  <2> DEFINE n == Last(deleting)
             children == DeletedFirst(space, n)
  <2>1. deleting # <<>> /\ doomed' = doomed /\ Below(space, deleting[1]) = doomed \ gone
    BY <1>2, <1>11 DEF DeleteStep
  <2>2. deleting \in Seq(NodeIds) /\ Len(deleting) \in Nat /\ Len(deleting) > 0
    BY <1>1, <2>1 DEF Stacked
  <2>3. CASE /\ children # <<>> /\ deleting' = Append(deleting, children[1])
             /\ UNCHANGED <<space, gone>>
    <3>1. children[1] \in NodeIds
      <4>1. n \in NodeIds
        BY <2>2 DEF Last
      <4>2. children \in Seq(NodeIds)
        BY <1>1, <4>1, ChildrenHang DEF DeletedFirst
      <4> HIDE DEF n, children
      <4>3. QED
        BY <2>3, <4>2
    <3> HIDE DEF children
    <3>2. deleting'[1] = deleting[1] /\ deleting' # <<>>
      BY <2>2, <2>3, <3>1
    <3>3. QED
      BY <1>2, <2>1, <2>3, <3>2 DEF TreeInv, DeletionKeepsTheTree
  <2>4. CASE /\ children = <<>> /\ deleting' = Front(deleting)
             /\ space' = EraseNode(space, n) /\ gone' = gone \cup {n}
    <3>1. ~InUse(space, n)
      BY <2>1, <2>4 DEF NothingInUseIsDeleted, DeletedFirst
    <3>2. n \in Below(space, deleting[1])
      BY <1>1, <2>1, StackBelow
    <3>3. gone' \subseteq doomed'
      BY <1>2, <2>1, <2>4, <3>2
    <3>4. CASE Len(deleting) > 1
      <4>1. /\ Front(deleting) # <<>> /\ Front(deleting)[1] = deleting[1]
            /\ Below(EraseNode(space, n), deleting[1]) = Below(space, deleting[1]) \ {n}
        BY <1>1, <2>1, <2>4, <3>1, <3>4, BelowErased
      <4>2. Below(space', deleting'[1]) = doomed' \ gone' /\ deleting' # <<>>
        BY <2>1, <2>4, <4>1
      <4>3. QED
        BY <3>3, <4>2 DEF TreeInv, DeletionKeepsTheTree
    <3>5. CASE Len(deleting) = 1
      <4>1. Front(deleting) = <<>> /\ Below(space, deleting[1]) = {n}
        BY <1>1, <2>1, <2>4, <3>1, <3>5, BelowErased
      <4>2. gone' = doomed' /\ deleting' = <<>>
        BY <1>2, <2>1, <2>4, <3>3, <4>1
      <4>3. QED
        BY <3>3, <4>2 DEF TreeInv, DeletionKeepsTheTree
    <3>6. Len(deleting) > 1 \/ Len(deleting) = 1
      <4> DEFINE depth == Len(deleting)
      <4>1. depth \in Nat /\ depth > 0
        BY <2>2
      <4> HIDE DEF depth
      <4>2. depth > 1 \/ depth = 1
        BY <4>1
      <4>3. QED
        BY <4>2 DEF depth
    <3>7. QED
      BY <3>4, <3>5, <3>6
  <2>5. QED
    BY <1>11, <2>3, <2>4 DEF DeleteStep
<1>12. CASE UNCHANGED vars
  BY <1>2, <1>12 DEF vars, TreeInv, DeletionKeepsTheTree
<1>13. QED
  BY <1>4, <1>5, <1>6, <1>7, <1>8, <1>9, <1>10, <1>11, <1>12 DEF Next

\* Deleting a node takes what lay below it and nothing else, and whatever is left
\* of that hangs below the node until it goes.
THEOREM DeletionAlwaysKeepsTheTree ==
  Spec /\ []NothingInUseIsDeleted => []DeletionKeepsTheTree
<1>1. Init => TreeInv
  BY DEF Init, TreeInv, DeletionKeepsTheTree
<1>2. SpaceInv /\ TreeInv /\ NothingInUseIsDeleted /\ [Next]_vars => TreeInv'
  BY TreeInvStep
<1>3. TreeInv => DeletionKeepsTheTree
  BY DEF TreeInv
<1>4. QED
  BY <1>1, <1>2, <1>3, SpacesStand, PTL DEF Spec

-----------------------------------------------------------------------------
(* What the snapshots of the nodes say.                                    *)

\* The parent of a node, with the reference to it, is one of its inverse references.
LEMMA ParentReferenceBack ==
  ASSUME NEW s \in Spaces, NEW n \in NodeIds
  PROVE  \/ GetParentReference(s, n) = NoReference
         \/ GetParentReference(s, n) \in ToSet(s.inv[n])
<1> DEFINE refs == s.inv[n]
           W == {r \in ToSet(refs) : IsSubtypeOf(s, r.type, "HierarchicalReferences")}
           kept == Kept(refs, W)
<1>1. GetParentReference(s, n) = First(kept, NoReference)
  BY DEF GetParentReference, FindReference, FilterReferences
<1>2. refs \in Seq(References)
  BY SpaceFields
<1> HIDE DEF W, refs
<1>3. kept \in Seq(References) /\ ToSet(kept) = ToSet(refs) \cap W
  BY <1>2, KeptElements
<1> HIDE DEF kept
<1>4. ASSUME kept # <<>> PROVE kept[1] \in ToSet(refs)
  <2>1. 1 \in DOMAIN kept
    BY <1>3, <1>4
  <2>2. kept[1] \in ToSet(kept)
    BY <2>1 DEF ToSet
  <2>3. QED
    BY <1>3, <2>2
<1>5. QED
  BY <1>1, <1>4 DEF First, refs

\* What MakeNodeState says of the references of a node.
LEMMA SnapshotOf ==
  ASSUME NEW s \in Spaces, NEW n \in NodeIds
  PROVE  LET ns == MakeNodeState(s, n) IN
         /\ ns.id = n /\ ns.typedef = s.typedef[n] /\ ns.super = s.super[n]
         /\ ns.parent = GetParentReference(s, n).node
         /\ ns.reftype = GetParentReference(s, n).type
         /\ \A x : x \in ToSet(ns.refs) <=>
              \E r \in ToSet(s.fwd[n]) :
                /\ ExportsReference(s, n, r)
                /\ x = [type |-> r.type, forward |-> TRUE, node |-> r.node]
<1> DEFINE ns == MakeNodeState(s, n)
           W == {r \in ToSet(s.fwd[n]) : ExportsReference(s, n, r)}
           refs == Kept(s.fwd[n], W)
<1>1. /\ ns.id = n /\ ns.typedef = s.typedef[n] /\ ns.super = s.super[n]
      /\ ns.parent = GetParentReference(s, n).node
      /\ ns.reftype = GetParentReference(s, n).type
      /\ ns.refs = [i \in DOMAIN refs |->
                      [type |-> refs[i].type, forward |-> TRUE, node |-> refs[i].node]]
  BY DEF MakeNodeState, BlankState
<1>2. s.fwd[n] \in Seq(References)
  BY SpaceFields
<1> HIDE DEF ns, W
<1>3. ToSet(refs) = ToSet(s.fwd[n]) \cap W
  BY <1>2, KeptElements
<1> HIDE DEF refs
<1>4. \A x : x \in ToSet(ns.refs) <=>
        \E r \in ToSet(refs) : x = [type |-> r.type, forward |-> TRUE, node |-> r.node]
  BY <1>1 DEF ToSet
<1>5. ToSet(refs) = W
  BY <1>3 DEF W
<1>6. QED
  BY <1>1, <1>4, <1>5 DEF W, ns

\* The references that the fields of a snapshot say.
FieldEdges(ns) ==
  {<<ns.reftype, ns.parent, ns.id>>, <<"HasSubtype", ns.super, ns.id>>,
   <<"HasTypeDefinition", ns.id, ns.typedef>>}

\* What the readers of snapshots find in them.
LEMMA StateEdgesAre ==
  ASSUME NEW states, NEW e
  PROVE  e \in StateEdges(states) <=>
           \E ns \in states :
             \/ e \in FieldEdges(ns) /\ Null \notin {e[1], e[2], e[3]}
             \/ \E r \in ToSet(ns.refs) :
                  e = IF r.forward THEN <<r.type, ns.id, r.node>>
                                   ELSE <<r.type, r.node, ns.id>>
  BY DEF StateEdges, ListedEdges, FieldEdges

\* A snapshot says nothing that is not so.
LEMMA SnapshotsTrue ==
  ASSUME NEW s, Coherent(s), NEW n \in NodeIds, NEW e,
         \/ e \in FieldEdges(MakeNodeState(s, n)) /\ Null \notin {e[1], e[2], e[3]}
         \/ \E r \in ToSet(MakeNodeState(s, n).refs) :
              e = IF r.forward THEN <<r.type, n, r.node>> ELSE <<r.type, r.node, n>>
  PROVE  e \in Edges(s)
<1> DEFINE ns == MakeNodeState(s, n)
           p == GetParentReference(s, n)
<1>1. s \in Spaces /\ Null \notin NodeIds
  BY SpaceAssumption DEF Coherent
<1>2. /\ ns.id = n /\ ns.typedef = s.typedef[n] /\ ns.super = s.super[n]
      /\ ns.parent = p.node /\ ns.reftype = p.type
      /\ \A x : x \in ToSet(ns.refs) <=>
           \E r \in ToSet(s.fwd[n]) :
             /\ ExportsReference(s, n, r)
             /\ x = [type |-> r.type, forward |-> TRUE, node |-> r.node]
  BY <1>1, SnapshotOf
<1>3. s.typedef[n] \in Ids /\ s.super[n] \in Ids
  BY <1>1, SpaceFields
<1> HIDE DEF ns, p
<1>4. CASE e = <<ns.reftype, ns.parent, ns.id>> /\ Null \notin {e[1], e[2], e[3]}
  <2>1. p \in ToSet(s.inv[n])
    <3>1. p # NoReference
      BY <1>2, <1>4 DEF NoReference
    <3>2. QED
      BY <1>1, <3>1, ParentReferenceBack DEF p
  <2>2. p.type \in NodeIds /\ p.node \in NodeIds /\ Back(s, p.type, p.node, n)
    BY <1>1, <2>1, ListsHave
  <2>3. Has(s, p.type, p.node, n)
    BY <2>2 DEF Coherent
  <2>4. QED
    BY <1>1, <1>2, <1>4, <2>2, <2>3, EdgesHave
<1>5. CASE e = <<"HasSubtype", ns.super, ns.id>> /\ Null \notin {e[1], e[2], e[3]}
  <2>1. s.super[n] # Null /\ s.super[n] \in NodeIds
    BY <1>2, <1>3, <1>5 DEF Ids
  <2>2. Has(s, "HasSubtype", s.super[n], n)
    BY <2>1 DEF Coherent
  <2>3. "HasSubtype" \in NodeIds
    BY <1>1, <2>1, <2>2, HasType
  <2>4. QED
    BY <1>1, <1>2, <1>5, <2>1, <2>2, <2>3, EdgesHave
<1>6. CASE e = <<"HasTypeDefinition", ns.id, ns.typedef>> /\ Null \notin {e[1], e[2], e[3]}
  <2>1. s.typedef[n] \in NodeIds
    BY <1>2, <1>3, <1>6 DEF Ids
  <2>2. Has(s, "HasTypeDefinition", n, s.typedef[n])
    BY <2>1 DEF Coherent
  <2>3. "HasTypeDefinition" \in NodeIds
    BY <1>1, <2>2, HasType
  <2>4. QED
    BY <1>1, <1>2, <1>6, <2>1, <2>2, <2>3, EdgesHave
<1>7. ASSUME NEW x \in ToSet(ns.refs),
             e = IF x.forward THEN <<x.type, n, x.node>> ELSE <<x.type, x.node, n>>
      PROVE  e \in Edges(s)
  <2>1. PICK r \in ToSet(s.fwd[n]) : x = [type |-> r.type, forward |-> TRUE, node |-> r.node]
    BY <1>2
  <2>2. x.forward = TRUE /\ x.type = r.type /\ x.node = r.node
    BY <2>1
  <2>3. e = <<r.type, n, r.node>>
    BY <1>7, <2>2
  <2>4. r.type \in NodeIds /\ r.node \in NodeIds /\ Has(s, r.type, n, r.node)
    BY <1>1, ListsHave
  <2>5. QED
    BY <1>1, <2>3, <2>4, EdgesHave
<1>8. CASE e \in FieldEdges(ns) /\ Null \notin {e[1], e[2], e[3]}
  BY <1>4, <1>5, <1>6, <1>8 DEF FieldEdges
<1>9. QED
  BY <1>7, <1>8 DEF ns

\* Each reference is in the snapshot of one of its ends.
LEMMA SnapshotsComplete ==
  ASSUME Coherent(space), ReferencesAreRooted, NEW e \in Edges(space)
  PROVE  e \in StateEdges(SavedStates(space))
<1> DEFINE t == e[1]
           a == e[2]
           b == e[3]
           ns == MakeNodeState(space, a)
           nt == MakeNodeState(space, b)
           p == GetParentReference(space, b)
<1>1. space \in Spaces /\ Null \notin NodeIds
  BY SpaceAssumption DEF Coherent
<1>2. /\ e = <<t, a, b>> /\ Has(space, t, a, b)
      /\ t \in NodeIds /\ a \in NodeIds /\ b \in NodeIds
  BY <1>1, EdgesHave
<1>3. /\ IsHierarchical(space, t) \/ IsSubtypeOf(space, t, "NonHierarchicalReferences")
      /\ t = "HasSubtype" => IsType(space, b)
  BY DEF ReferencesAreRooted
<1> HIDE DEF t, a, b
<1>4. a \in Present(space) /\ b \in Present(space)
  BY <1>2 DEF Coherent
<1>5. ns \in SavedStates(space) /\ nt \in SavedStates(space)
  BY <1>4 DEF SavedStates
<1>6. /\ ns.id = a
      /\ \A x : x \in ToSet(ns.refs) <=>
           \E r \in ToSet(space.fwd[a]) :
             /\ ExportsReference(space, a, r)
             /\ x = [type |-> r.type, forward |-> TRUE, node |-> r.node]
  BY <1>1, <1>2, SnapshotOf
<1>7. nt.id = b /\ nt.super = space.super[b] /\ nt.parent = p.node /\ nt.reftype = p.type
  BY <1>1, <1>2, SnapshotOf
<1> HIDE DEF ns, nt
<1> DEFINE r == [type |-> t, node |-> b]
<1>8. r \in ToSet(space.fwd[a]) /\ r.type = t /\ r.node = b
  BY <1>2 DEF Has
<1> HIDE DEF r
<1>9. Null \notin {e[1], e[2], e[3]}
  BY <1>1, <1>2
<1>10. CASE ExportsReference(space, a, r)
  <2> DEFINE x == [type |-> t, forward |-> TRUE, node |-> b]
  <2>1. x \in ToSet(ns.refs)
    BY <1>6, <1>8, <1>10
  <2>2. x.forward /\ x.type = t /\ x.node = b
    OBVIOUS
  <2> HIDE DEF x
  <2>3. e = IF x.forward THEN <<x.type, ns.id, x.node>> ELSE <<x.type, x.node, ns.id>>
    BY <1>2, <1>6, <2>2
  <2>4. QED
    BY <1>5, <2>1, <2>3, StateEdgesAre
<1>11. CASE ~ExportsReference(space, a, r)
  <2>1. IsHierarchical(space, t) /\ (t = "HasSubtype" \/ p = [type |-> t, node |-> a])
    BY <1>3, <1>8, <1>11 DEF ExportsReference, p
  <2>2. CASE t = "HasSubtype"
    <3>1. space.super[b] = a
      BY <1>2, <1>3, <2>2 DEF Coherent
    <3>2. e \in FieldEdges(nt)
      BY <1>2, <1>7, <2>2, <3>1 DEF FieldEdges
    <3>3. QED
      BY <1>5, <1>9, <3>2, StateEdgesAre
  <2>3. CASE p = [type |-> t, node |-> a]
    <3>1. p.node = a /\ p.type = t
      BY <2>3
    <3>2. e \in FieldEdges(nt)
      BY <1>2, <1>7, <3>1 DEF FieldEdges
    <3>3. QED
      BY <1>5, <1>9, <3>2, StateEdgesAre
  <2>4. QED
    BY <2>1, <2>2, <2>3
<1>12. QED
  BY <1>10, <1>11

\* The snapshots of all the nodes together name every reference and invent none,
\* though each reference is left to one of its ends.
THEOREM SnapshotsAlwaysNameEveryReference ==
  Spec /\ []NothingInUseIsDeleted /\ []ReferencesAreRooted => []SnapshotsNameEveryReference
<1>1. SpaceInv /\ ReferencesAreRooted => SnapshotsNameEveryReference
  <2> SUFFICES ASSUME SpaceInv, ReferencesAreRooted PROVE SnapshotsNameEveryReference
    OBVIOUS
  <2>1. Coherent(space)
    BY DEF SpaceInv, Standing
  <2>2. Edges(space) \subseteq StateEdges(SavedStates(space))
    BY <2>1, SnapshotsComplete
  <2>3. ASSUME NEW e \in StateEdges(SavedStates(space)) PROVE e \in Edges(space)
    <3>1. PICK ns \in SavedStates(space) :
            \/ e \in FieldEdges(ns) /\ Null \notin {e[1], e[2], e[3]}
            \/ \E r \in ToSet(ns.refs) :
                 e = IF r.forward THEN <<r.type, ns.id, r.node>>
                                  ELSE <<r.type, r.node, ns.id>>
      BY StateEdgesAre
    <3>2. PICK n \in Present(space) : ns = MakeNodeState(space, n)
      BY DEF SavedStates
    <3>3. n \in NodeIds /\ space \in Spaces
      BY <2>1 DEF Present, Coherent
    <3>4. ns.id = n
      BY <3>2, <3>3, SnapshotOf
    <3>5. QED
      BY <2>1, <3>1, <3>2, <3>3, <3>4, SnapshotsTrue
  <2>4. QED
    BY <2>2, <2>3 DEF SnapshotsNameEveryReference
<1>2. QED
  BY <1>1, SpacesStand, PTL

=============================================================================
