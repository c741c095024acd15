---------------------------- MODULE PushOnlyStack ----------------------------
(***************************************************************************)
(* What the lock-free list promises: a stack that nodes are pushed on,     *)
(* each of them once, atomically, and none of them ever lost.              *)
(***************************************************************************)
EXTENDS Sequences, SequencesExt

CONSTANT Node

VARIABLE items    \* the nodes on the stack, newest first

Init == items = <<>>

Push(n) ==
    /\ n \notin ToSet(items)
    /\ items' = <<n>> \o items

Next == \E n \in Node : Push(n)

Spec == Init /\ [][Next]_items

EventuallyAllOnStack == <>(ToSet(items) = Node)
==============================================================================
