-------------------------- MODULE AtomicList_proofs --------------------------
(***************************************************************************)
(* Proofs about the lock-free list, for any number of pushes.              *)
(***************************************************************************)
EXTENDS AtomicList, SequenceTheorems, FiniteSetTheorems, WellFoundedInduction, TLAPS

(* An empty list holds the pushes that are complete: none. *)
LEMMA InitIInv == Init => IInv
<1> SUFFICES ASSUME Init PROVE IInv
  OBVIOUS
<1>1. TypeOK
  BY DEF Init, TypeOK, Link
<1>2. ListIsPushed
  BY DEF Init, ListIsPushed, IsList
<1>3. LinkedBeforeCas
  BY DEF Init, LinkedBeforeCas
<1> QED
  BY <1>1, <1>2, <1>3 DEF IInv

(* What the completed pushes form does not depend on the links of a node   *)
(* whose push is not complete.                                             *)
LEMMA UnpublishedIsInvisible ==
  ASSUME IInv, NEW n \in Node, pc[n] # "done", NEW link,
         UNCHANGED <<head_next, pushed>>,
         next' = next \/ next' = [next EXCEPT ![n] = link],
         {m \in Node : pc[m] = "done"}' = {m \in Node : pc[m] = "done"}
  PROVE  ListIsPushed'
<1>1. \A i \in 1 .. Len(pushed) : pushed[i] \in Node /\ pushed[i] # n
  <2>1. \A i \in 1 .. Len(pushed) : pushed[i] \in {m \in Node : pc[m] = "done"}
    BY DEF IInv, ListIsPushed
  <2> QED
    BY <2>1
<1>2. \A i \in 1 .. Len(pushed) : next'[pushed[i]] = next[pushed[i]]
  BY <1>1 DEF IInv, TypeOK
<1>3. IsList(pushed)'
  BY <1>2 DEF IInv, ListIsPushed, IsList
<1> QED
  BY <1>3 DEF IInv, ListIsPushed

(* A successful CAS puts its node in front of the list. *)
LEMMA CasSucceedsKeepsList ==
  ASSUME IInv, NEW n \in Node, CasSucceeds(n)
  PROVE  ListIsPushed'
<1>1. /\ pushed \in Seq(Node) /\ Len(pushed) \in Nat
      /\ pushed' = <<n>> \o pushed /\ pushed' \in Seq(Node)
      /\ Len(pushed') = Len(pushed) + 1
      /\ pushed'[1] = n
      /\ \A i \in 1 .. Len(pushed) : pushed'[i + 1] = pushed[i]
  BY DEF CasSucceeds, IInv, TypeOK
<1>2. \A i \in 2 .. Len(pushed') : pushed'[i] = pushed[i - 1]
  BY <1>1
<1>3. \A i \in 1 .. Len(pushed) : pushed[i] \in Node /\ pushed[i] # n
  <2>1. \A i \in 1 .. Len(pushed) : pushed[i] \in {m \in Node : pc[m] = "done"}
    BY DEF IInv, ListIsPushed
  <2> QED
    BY <2>1 DEF CasSucceeds
<1>4. IsList(pushed)'
  <2>1. head_next' = n /\ next' = next /\ pushed' # <<>>
    BY <1>1 DEF CasSucceeds
  <2>2. next[n] = IF pushed = <<>> THEN NULL ELSE pushed[1]
    BY DEF CasSucceeds, IInv, LinkedBeforeCas, ListIsPushed, IsList
  <2>3. ASSUME NEW i \in 1 .. Len(pushed')
        PROVE  next'[pushed'[i]] = IF i = Len(pushed') THEN NULL ELSE pushed'[i + 1]
    <3>1. CASE i = 1
      <4>1. CASE pushed = <<>>
        BY <1>1, <2>1, <2>2, <3>1, <4>1
      <4>2. CASE pushed # <<>>
        BY <1>1, <2>1, <2>2, <3>1, <4>2, EmptySeq
      <4> QED
        BY <4>1, <4>2
    <3>2. CASE i > 1
      <4>1. i - 1 \in 1 .. Len(pushed)
        BY <1>1, <3>2
      <4>2. next[pushed[i - 1]]
               = IF i - 1 = Len(pushed) THEN NULL ELSE pushed[(i - 1) + 1]
        BY <4>1 DEF IInv, ListIsPushed, IsList
      <4> QED
        BY <1>1, <1>2, <2>1, <3>2, <4>1, <4>2
    <3> QED
      BY <3>1, <3>2
  <2> QED
    BY <1>1, <2>1, <2>3 DEF IsList
<1>5. {pushed'[i] : i \in 1 .. Len(pushed')} = {pushed[i] : i \in 1 .. Len(pushed)} \cup {n}
  <2>1. \A i \in 1 .. Len(pushed') :
           pushed'[i] = n \/ \E j \in 1 .. Len(pushed) : pushed'[i] = pushed[j]
    <3> TAKE i \in 1 .. Len(pushed')
    <3>1. CASE i = 1
      BY <1>1, <3>1
    <3>2. CASE i > 1
      BY <1>1, <1>2, <3>2
    <3> QED
      BY <3>1, <3>2
  <2>2. \A j \in 1 .. Len(pushed) : j + 1 \in 1 .. Len(pushed')
    BY <1>1
  <2>3. 1 \in 1 .. Len(pushed')
    BY <1>1
  <2> QED
    BY <1>1, <2>1, <2>2, <2>3
<1>6. {m \in Node : pc'[m] = "done"} = {m \in Node : pc[m] = "done"} \cup {n}
  BY DEF CasSucceeds, IInv, TypeOK
<1>7. \A i, j \in 1 .. Len(pushed') : pushed'[i] = pushed'[j] => i = j
  <2> TAKE i, j \in 1 .. Len(pushed')
  <2>0. \A k \in 2 .. Len(pushed') : pushed'[k] # n
    <3> TAKE k \in 2 .. Len(pushed')
    <3>1. k - 1 \in 1 .. Len(pushed)
      BY <1>1
    <3> QED
      BY <3>1, <1>2, <1>3
  <2>1. CASE i = 1
    BY <1>1, <2>0, <2>1
  <2>2. CASE j = 1
    BY <1>1, <2>0, <2>2
  <2>3. CASE i > 1 /\ j > 1
    <3>1. i - 1 \in 1 .. Len(pushed) /\ j - 1 \in 1 .. Len(pushed)
      BY <1>1, <2>3
    <3>2. pushed[i - 1] = pushed[j - 1] => i - 1 = j - 1
      BY <3>1 DEF IInv, ListIsPushed
    <3> QED
      BY <1>1, <1>2, <2>3, <3>2
  <2> QED
    BY <2>1, <2>2, <2>3
<1> QED
  BY <1>4, <1>5, <1>6, <1>7 DEF IInv, ListIsPushed

(* Every step of every push keeps the invariant. *)
LEMMA NextKeepsIInv == IInv /\ [Next]_vars => IInv'
<1> SUFFICES ASSUME IInv, [Next]_vars PROVE IInv'
  OBVIOUS
<1>1. ASSUME NEW n \in Node, LoadHead(n) PROVE IInv'
  <2>1. TypeOK' /\ LinkedBeforeCas'
    BY <1>1 DEF LoadHead, IInv, TypeOK, LinkedBeforeCas
  <2>2. ListIsPushed'
    BY <1>1, UnpublishedIsInvisible DEF LoadHead, IInv, TypeOK
  <2> QED
    BY <2>1, <2>2 DEF IInv
<1>2. ASSUME NEW n \in Node, LinkNode(n) PROVE IInv'
  <2>1. TypeOK' /\ LinkedBeforeCas'
    BY <1>2 DEF LinkNode, IInv, TypeOK, LinkedBeforeCas
  <2>2. ListIsPushed'
    <3>1. {m \in Node : pc[m] = "done"}' = {m \in Node : pc[m] = "done"}
      BY <1>2 DEF LinkNode, IInv, TypeOK
    <3> QED
      BY <1>2, <3>1, UnpublishedIsInvisible DEF LinkNode
  <2> QED
    BY <2>1, <2>2 DEF IInv
<1>3. ASSUME NEW n \in Node, CasSucceeds(n) PROVE IInv'
  <2>1. TypeOK' /\ LinkedBeforeCas'
    BY <1>3 DEF CasSucceeds, IInv, TypeOK, LinkedBeforeCas, Link
  <2> QED
    BY <1>3, <2>1, CasSucceedsKeepsList DEF IInv
<1>4. ASSUME NEW n \in Node, CasFails(n) PROVE IInv'
  <2>1. TypeOK' /\ LinkedBeforeCas'
    BY <1>4 DEF CasFails, IInv, TypeOK, LinkedBeforeCas
  <2>2. ListIsPushed'
    <3>1. {m \in Node : pc[m] = "done"}' = {m \in Node : pc[m] = "done"}
      BY <1>4 DEF CasFails, IInv, TypeOK
    <3> QED
      BY <1>4, <3>1, UnpublishedIsInvisible DEF CasFails
  <2> QED
    BY <2>1, <2>2 DEF IInv
<1>5. CASE UNCHANGED vars
  BY <1>5 DEF vars, IInv, TypeOK, ListIsPushed, IsList, LinkedBeforeCas
<1> QED
  BY <1>1, <1>2, <1>3, <1>4, <1>5 DEF Next

(* IInv holds at every interleaving of any set of pushes. *)
THEOREM Invariance == Spec => []IInv
<1> QED
  BY InitIInv, NextKeepsIInv, PTL DEF Spec

(* No push is ever lost: the list is the completed pushes, newest first. *)
THEOREM NoPushIsLost == Spec => []ListIsPushed
<1>1. IInv => ListIsPushed
  BY DEF IInv
<1> QED
  BY <1>1, Invariance, PTL

(* A node in the list keeps its link for ever. *)
THEOREM LinksStand == Spec => PublishedLinksStand
<1>1. IInv /\ [Next]_vars
        => [\A i \in 1 .. Len(pushed) : next'[pushed[i]] = next[pushed[i]]]_vars
  <2> SUFFICES ASSUME IInv, Next, NEW i \in 1 .. Len(pushed)
               PROVE  next'[pushed[i]] = next[pushed[i]]
    OBVIOUS
  <2>1. pushed[i] \in {m \in Node : pc[m] = "done"}
    BY DEF IInv, ListIsPushed
  <2> QED
    BY <2>1 DEF Next, LoadHead, LinkNode, CasSucceeds, CasFails, IInv, TypeOK
<1> QED
  BY <1>1, Invariance, PTL DEF Spec, PublishedLinksStand

-------------------------------------------------------------------------------
(***************************************************************************)
(* The list a reader walks.                                                *)
(***************************************************************************)

(* Numbers have a least one: the least interval from 0 to one of them.     *)
LEMMA LeastNat ==
  ASSUME NEW T, T \subseteq Nat, T # {}
  PROVE  \E m \in T : \A k \in T : m <= k
<1>1. PICK t \in T : TRUE
  OBVIOUS
<1> DEFINE U == 0 .. t
           Parts == {0 .. k : k \in {j \in T : j <= t}}
<1>2. IsFiniteSet(U)
  BY FS_Interval
<1>3. IsWellFoundedOn(StrictSubsetOrdering(U), FiniteSubsetsOf(U))
  BY FS_StrictSubsetOrderingWellFounded
<1>4. FiniteSubsetsOf(U) = SUBSET U
  BY <1>2, FS_FiniteSubsetsOfFinite
<1>5. Parts \subseteq FiniteSubsetsOf(U) /\ Parts # {}
  BY <1>1, <1>4
<1>6. PICK part \in Parts : \A other \in Parts : ~(<<other, part>> \in StrictSubsetOrdering(U))
  BY <1>3, <1>5, WFMin
<1>7. PICK m \in T : m <= t /\ part = 0 .. m
  BY <1>6
<1>8. ASSUME NEW k \in T, k < m PROVE FALSE
  <2>1. 0 .. k \in Parts
    BY <1>7, <1>8
  <2>2. 0 .. k \subseteq U /\ 0 .. m \subseteq U /\ 0 .. k \subseteq 0 .. m
    BY <1>7, <1>8
  <2>3. m \in 0 .. m /\ m \notin 0 .. k
    BY <1>8
  <2> QED
    BY <2>1, <2>2, <2>3, <1>6, <1>7 DEF StrictSubsetOrdering
<1> QED
  BY <1>8

(* Where the links lead, by what has been pushed. *)
Along(k) == IF k < Len(pushed) THEN pushed[k + 1] ELSE NULL

LEMMA PushedAre ==
  ASSUME IInv
  PROVE  /\ Len(pushed) \in Nat /\ pushed \in Seq(Node)
         /\ \A i \in 1 .. Len(pushed) : pushed[i] \in Node /\ pushed[i] # NULL
         /\ Along(0) = head_next
         /\ \A k \in Nat \ {0} :
               Along(k) = IF Along(k - 1) = NULL THEN NULL ELSE next[Along(k - 1)]
<1>1. Len(pushed) \in Nat /\ pushed \in Seq(Node) /\ IsList(pushed)
  BY DEF IInv, TypeOK, ListIsPushed
<1>2. \A i \in 1 .. Len(pushed) : pushed[i] \in Node /\ pushed[i] # NULL
  BY <1>1, ElementOfSeq, NullAssumption
<1>3. Along(0) = head_next
  <2>1. CASE pushed = <<>>
    BY <1>1, <2>1 DEF IsList, Along
  <2>2. CASE pushed # <<>>
    BY <1>1, <2>2, EmptySeq DEF IsList, Along
  <2> QED
    BY <2>1, <2>2
<1>4. ASSUME NEW k \in Nat \ {0}
      PROVE  Along(k) = IF Along(k - 1) = NULL THEN NULL ELSE next[Along(k - 1)]
  <2>1. CASE k \in 1 .. Len(pushed)
    <3>1. Along(k - 1) = pushed[k] /\ pushed[k] # NULL
      BY <1>1, <1>2, <2>1 DEF Along
    <3>2. next[pushed[k]] = IF k = Len(pushed) THEN NULL ELSE pushed[k + 1]
      BY <1>1, <2>1 DEF IsList
    <3> QED
      BY <1>1, <2>1, <3>1, <3>2 DEF Along
  <2>2. CASE k > Len(pushed)
    BY <1>1, <2>2 DEF Along
  <2> QED
    BY <1>1, <2>1, <2>2
<1> QED
  BY <1>1, <1>2, <1>3, <1>4

(* The walk is defined, because its links lead somewhere ... *)
LEMMA WalkGoesOn ==
  ASSUME IInv
  PROVE  \A k \in Nat : Walk[k] = IF k = 0 THEN head_next
                                  ELSE IF Walk[k - 1] = NULL THEN NULL ELSE next[Walk[k - 1]]
<1> DEFINE Goes(w) == [k \in Nat |-> IF k = 0 THEN head_next
                                     ELSE IF w[k - 1] = NULL THEN NULL ELSE next[w[k - 1]]]
           along == [k \in Nat |-> Along(k)]
<1>1. along = Goes(along)
  <2>1. \A k \in Nat : along[k] = Goes(along)[k]
    <3> SUFFICES ASSUME NEW k \in Nat PROVE along[k] = Goes(along)[k]
      OBVIOUS
    <3>1. CASE k = 0
      BY <3>1, PushedAre
    <3>2. CASE k # 0
      <4>1. k - 1 \in Nat /\ k \in Nat \ {0}
        BY <3>2
      <4> QED
        BY <3>2, <4>1, PushedAre
    <3> QED
      BY <3>1, <3>2
  <2> QED
    BY <2>1
<1>2. Walk = CHOOSE w : w = Goes(w)
  BY DEF Walk
<1>3. Walk = Goes(Walk)
  <2> HIDE DEF Goes, along
  <2> QED
    BY <1>1, <1>2
<1> QED
  BY <1>3

(* ... and it finds what was pushed, and then nothing. *)
LEMMA WalkIsAlong ==
  ASSUME IInv
  PROVE  \A k \in Nat : Walk[k] = Along(k)
<1> DEFINE Strays == {k \in Nat : Walk[k] # Along(k)}
<1> SUFFICES ASSUME Strays # {} PROVE FALSE
  OBVIOUS
<1>1. PICK m \in Strays : \A k \in Strays : m <= k
  BY LeastNat
<1>2. m \in Nat /\ Walk[m] # Along(m)
  OBVIOUS
<1>3. CASE m = 0
  BY <1>2, <1>3, WalkGoesOn, PushedAre
<1>4. CASE m # 0
  <2>1. m - 1 \in Nat /\ m \in Nat \ {0} /\ ~(m <= m - 1)
    BY <1>2, <1>4
  <2>2. Walk[m - 1] = Along(m - 1)
    BY <1>1, <2>1
  <2>3. Walk[m] = IF Walk[m - 1] = NULL THEN NULL ELSE next[Walk[m - 1]]
    BY <1>4, <2>1, WalkGoesOn
  <2> QED
    BY <1>2, <2>1, <2>2, <2>3, PushedAre
<1> QED
  BY <1>3, <1>4

(* No more nodes are pushed than there are. *)
LEMMA NoMoreThanNodes ==
  ASSUME IInv
  PROVE  Len(pushed) <= Cardinality(Node)
<1>1. Len(pushed) \in Nat /\ \A i \in 1 .. Len(pushed) : pushed[i] \in Node
  BY PushedAre
<1>2. \A i, j \in 1 .. Len(pushed) : pushed[i] = pushed[j] => i = j
  BY DEF IInv, ListIsPushed
<1>3. [i \in 1 .. Len(pushed) |-> pushed[i]] \in Injection(1 .. Len(pushed), Node)
  BY <1>1, <1>2 DEF Injection, IsInjective
<1>4. Cardinality(1 .. Len(pushed)) <= Cardinality(Node)
  BY <1>3, NullAssumption, FS_Injection
<1>5. Cardinality(1 .. Len(pushed)) = Len(pushed)
  <2>1. PICK n \in Nat : n = Len(pushed)
    BY <1>1
  <2>2. n \in Int /\ 1 \in Int
    BY <2>1
  <2>3. Cardinality(1 .. n) = IF 1 > n THEN 0 ELSE n - 1 + 1
    BY ONLY <2>2, FS_Interval, Zenon
  <2>4. Cardinality(1 .. n) = n
    BY <2>3
  <2> QED
    BY ONLY <2>1, <2>4
<1> QED
  BY <1>4, <1>5

LEMMA ListIsWhatWasPushed == IInv => List = pushed
<1> SUFFICES ASSUME IInv PROVE List = pushed
  OBVIOUS
<1>1. /\ Len(pushed) \in Nat /\ pushed \in Seq(Node)
      /\ \A i \in 1 .. Len(pushed) : pushed[i] # NULL
  BY PushedAre
<1>2. \A k \in Nat : Walk[k] = IF k < Len(pushed) THEN pushed[k + 1] ELSE NULL
  BY WalkIsAlong DEF Along
<1>3. \A k \in Nat : k < Len(pushed) => Walk[k] = pushed[k + 1] /\ Walk[k] # NULL
  BY <1>1, <1>2
<1>4. Cardinality(Node) \in Nat
  BY NullAssumption, FS_CardinalityType
<1> DEFINE Ends(k) == Walk[k] = NULL /\ \A j \in 0 .. k - 1 : Walk[j] # NULL
           length == CHOOSE k \in 0 .. Cardinality(Node) : Ends(k)
<1>5. Len(pushed) \in 0 .. Cardinality(Node) /\ Ends(Len(pushed))
  <2>1. \A j \in 0 .. Len(pushed) - 1 : j \in Nat /\ j < Len(pushed)
    BY <1>1
  <2> QED
    BY <1>1, <1>2, <1>3, <1>4, <2>1, NoMoreThanNodes
<1>6. ASSUME NEW k \in 0 .. Cardinality(Node), Ends(k)
      PROVE  k = Len(pushed)
  <2>1. k \in Nat
    BY <1>4
  <2>2. ~(k < Len(pushed))
    BY <1>3, <1>6, <2>1
  <2>3. ~(k > Len(pushed))
    <3> SUFFICES ASSUME k > Len(pushed) PROVE FALSE
      OBVIOUS
    <3>1. Len(pushed) \in 0 .. k - 1
      BY <1>1, <2>1
    <3> QED
      BY <1>1, <1>2, <1>6, <3>1
  <2> QED
    BY <1>1, <2>1, <2>2, <2>3
<1>7. length = Len(pushed)
  BY <1>5, <1>6
<1>8. List = [i \in 1 .. length |-> Walk[i - 1]]
  BY DEF List
<1>9. \A i \in 1 .. Len(pushed) : Walk[i - 1] = pushed[i]
  <2> TAKE i \in 1 .. Len(pushed)
  <2>1. i - 1 \in Nat /\ i - 1 < Len(pushed) /\ (i - 1) + 1 = i
    BY <1>1
  <2> QED
    BY <1>3, <2>1
<1>10. pushed = [i \in 1 .. Len(pushed) |-> pushed[i]]
  BY <1>1, LenProperties
<1> QED
  BY <1>7, <1>8, <1>9, <1>10

(* Only the CAS of a push that is not complete changes what was pushed.    *)
LEMMA StepPushes ==
  ASSUME IInv, [Next]_vars
  PROVE  \/ pushed' = pushed
         \/ \E n \in Node : /\ n \notin {pushed[i] : i \in 1 .. Len(pushed)}
                            /\ pushed' = <<n>> \o pushed
<1>1. ASSUME NEW n \in Node, CasSucceeds(n)
      PROVE  n \notin {pushed[i] : i \in 1 .. Len(pushed)} /\ pushed' = <<n>> \o pushed
  <2>1. pc[n] # "done" /\ pushed' = <<n>> \o pushed
    BY <1>1 DEF CasSucceeds
  <2> QED
    BY <2>1 DEF IInv, ListIsPushed
<1> QED
  BY <1>1 DEF Next, LoadHead, LinkNode, CasFails, vars

(* Walked from its head, the list is a stack that only grows, by the nodes *)
(* of pushes that are not complete, whatever the number of pushes.         *)
THEOREM Refinement == Spec => ImplementsStack
<1>1. Init => pushed = <<>>
  BY DEF Init
<1>2. List = pushed /\ pushed = <<>> => Stack!Init
  BY DEF Stack!Init
<1>3. IInv /\ [Next]_vars /\ List = pushed /\ (List = pushed)' => [Stack!Next]_List
  <2> SUFFICES ASSUME IInv, [Next]_vars, List = pushed, List' = pushed'
               PROVE  [Stack!Next]_List
    OBVIOUS
  <2>1. CASE pushed' = pushed
    BY <2>1
  <2>2. CASE \E n \in Node : /\ n \notin {pushed[i] : i \in 1 .. Len(pushed)}
                             /\ pushed' = <<n>> \o pushed
    <3>1. PICK n \in Node : /\ n \notin {pushed[i] : i \in 1 .. Len(pushed)}
                            /\ pushed' = <<n>> \o pushed
      BY <2>2
    <3>2. Stack!ToSet(List) = {pushed[i] : i \in 1 .. Len(pushed)}
      BY PushedAre, LenProperties DEF Stack!ToSet
    <3>3. Stack!Push(n)
      BY <3>1, <3>2 DEF Stack!Push
    <3> QED
      BY <3>3 DEF Stack!Next
  <2> QED
    BY <2>1, <2>2, StepPushes
<1> QED
  BY <1>1, <1>2, <1>3, Invariance, ListIsWhatWasPushed, PTL
  DEF Spec, ImplementsStack, Stack!Spec
==============================================================================
