------------------------------ MODULE AtomicList ------------------------------
(***************************************************************************)
(* The lock-free list of src/src/atomic/list/main.c: atomic_push links a   *)
(* node in front of the list with a weak compare-and-exchange in a loop.   *)
(* Every node is pushed by one call, so the calls are named by their node; *)
(* which thread makes a call does not matter.  A step is one access to     *)
(* memory: the seq_cst load, the plain store to the node, or the CAS.      *)
(***************************************************************************)
EXTENDS Integers, Sequences, FiniteSets

CONSTANTS Node,   \* the nodes, none of them the list head x
          NULL

ASSUME NullAssumption == NULL \notin Node /\ IsFiniteSet(Node)

VARIABLES head_next,     \* head->next
          next,          \* node->next, of every node
          pc,            \* where the call that pushes a node is
          current_next,  \* its local current_next
          pushed         \* history: the nodes whose CAS succeeded, newest first

vars == <<head_next, next, pc, current_next, pushed>>

Link == Node \cup {NULL}

(* main's nodes are initialised with {NULL, NULL}. *)
Init ==
    /\ head_next = NULL
    /\ next = [n \in Node |-> NULL]
    /\ pc = [n \in Node |-> "load"]
    /\ current_next = [n \in Node |-> NULL]
    /\ pushed = <<>>

(* current_next = head->next *)
LoadHead(n) ==
    /\ pc[n] = "load"
    /\ current_next' = [current_next EXCEPT ![n] = head_next]
    /\ pc' = [pc EXCEPT ![n] = "link"]
    /\ UNCHANGED <<head_next, next, pushed>>

(* node->next = current_next *)
LinkNode(n) ==
    /\ pc[n] = "link"
    /\ next' = [next EXCEPT ![n] = current_next[n]]
    /\ pc' = [pc EXCEPT ![n] = "cas"]
    /\ UNCHANGED <<head_next, current_next, pushed>>

(* Mutation: a plain store of head->next in place of the CAS. *)
StoreHead(n) ==
    /\ pc[n] = "cas"
    /\ head_next' = n
    /\ pushed' = <<n>> \o pushed
    /\ pc' = [pc EXCEPT ![n] = "done"]
    /\ UNCHANGED <<next, current_next>>

(* Mutation: the break after a successful CAS is missing. *)
CasWithoutBreak(n) ==
    /\ pc[n] = "cas"
    /\ head_next = current_next[n]
    /\ head_next' = n
    /\ pushed' = IF n \in {pushed[i] : i \in 1 .. Len(pushed)} THEN pushed
                                                               ELSE <<n>> \o pushed
    /\ pc' = [pc EXCEPT ![n] = "load"]
    /\ UNCHANGED <<next, current_next>>

CasSucceeds(n) ==
    /\ pc[n] = "cas"
    /\ head_next = current_next[n]
    /\ head_next' = n
    /\ pushed' = <<n>> \o pushed
    /\ pc' = [pc EXCEPT ![n] = "done"]
    /\ UNCHANGED <<next, current_next>>

(* Mutation: after a failed CAS only the CAS is tried again. *)
CasFailsNoRelink(n) ==
    /\ pc[n] = "cas"
    /\ current_next' = [current_next EXCEPT ![n] = head_next]
    /\ UNCHANGED <<pc, head_next, next, pushed>>

(* A weak CAS may fail although the value is the expected one.  Failing     *)
(* writes the value it saw to current_next.                                *)
CasFails(n) ==
    /\ pc[n] = "cas"
    /\ current_next' = [current_next EXCEPT ![n] = head_next]
    /\ pc' = [pc EXCEPT ![n] = "load"]
    /\ UNCHANGED <<head_next, next, pushed>>

Next == \E n \in Node : LoadHead(n) \/ LinkNode(n) \/ CasSucceeds(n) \/ CasFails(n)

Spec == Init /\ [][Next]_vars

(* Every thread keeps running, and a weak CAS that finds the expected       *)
(* value again and again does not fail spuriously for ever.                *)
Fairness ==
    \A n \in Node : /\ WF_vars(LoadHead(n))
                    /\ WF_vars(LinkNode(n))
                    /\ WF_vars(CasSucceeds(n) \/ CasFails(n))
                    /\ SF_vars(CasSucceeds(n))

FairSpec == Spec /\ Fairness

-------------------------------------------------------------------------------
(***************************************************************************)
(* Properties.                                                             *)
(***************************************************************************)

(* Every link names a node or is NULL, at each stage of a push. *)
TypeOK ==
    /\ head_next \in Link
    /\ next \in [Node -> Link]
    /\ pc \in [Node -> {"load", "link", "cas", "done"}]
    /\ current_next \in [Node -> Link]
    /\ pushed \in Seq(Node)

(* The walk from the head along next finds the nodes of s and no others. *)
IsList(s) ==
    /\ head_next = IF s = <<>> THEN NULL ELSE s[1]
    /\ \A i \in 1 .. Len(s) :
          next[s[i]] = IF i = Len(s) THEN NULL ELSE s[i + 1]

(* The list holds exactly the nodes whose push is complete, each once,     *)
(* newest first, however the pushes interleave: no push cuts off another,  *)
(* and no cycle forms.                                                     *)
ListIsPushed ==
    /\ IsList(pushed)
    /\ {pushed[i] : i \in 1 .. Len(pushed)} = {n \in Node : pc[n] = "done"}
    /\ \A i, j \in 1 .. Len(pushed) : pushed[i] = pushed[j] => i = j

(* A call about to compare has its node linked to what it will compare     *)
(* with, which is what makes the CAS safe.                                 *)
LinkedBeforeCas == \A n \in Node : pc[n] = "cas" => next[n] = current_next[n]

(* The inductive invariant. *)
IInv == TypeOK /\ ListIsPushed /\ LinkedBeforeCas

(* A reader that walks the list while nodes are pushed never loses its     *)
(* way: a node that is in the list keeps its link.                         *)
PublishedLinksStand ==
    [][\A i \in 1 .. Len(pushed) : next'[pushed[i]] = next[pushed[i]]]_vars

(* The first k + 1 links of a walk from the head. *)
Walk[k \in Nat] ==
    IF k = 0 THEN head_next
             ELSE IF Walk[k - 1] = NULL THEN NULL ELSE next[Walk[k - 1]]

(* The list the walk finds.  A walk longer than Node would be in a cycle. *)
List ==
    LET length == CHOOSE k \in 0 .. Cardinality(Node) : 
                     Walk[k] = NULL /\ \A j \in 0 .. k - 1 : Walk[j] # NULL
    IN  [i \in 1 .. length |-> Walk[i - 1]]

Stack == INSTANCE PushOnlyStack WITH items <- List

(* Walked from its head, the list is the stack of PushOnlyStack: it grows  *)
(* by one node in front, at the CAS of that node's push, and never loses   *)
(* one.                                                                    *)
ImplementsStack == Stack!Spec

(* The retries of a push end, whatever the others do: every node gets on   *)
(* the list.                                                               *)
EveryPushLands == Stack!EventuallyAllOnStack
==============================================================================
