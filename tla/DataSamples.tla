------------------------------ MODULE DataSamples ------------------------------
(***************************************************************************)
(* The containers of the samples: the vectors of src/src/sample2/main.c,   *)
(* whose memory is a block of its own, and of src/src/sample4/main.c,      *)
(* whose elements follow its header, under any calls of their functions,   *)
(* and the tree of relative links of src/src/sample5/main.c.               *)
(*                                                                         *)
(* Allocations succeed.  What a call does that uses freed memory, or hands *)
(* realloc what no malloc has returned, is undefined: broken says that it  *)
(* was made, and no call follows it.                                       *)
(***************************************************************************)
EXTENDS Integers, Sequences

CONSTANTS Element,    \* what is pushed
          Capacities, \* the capacities asked for
          MaxCalls    \* bound: how many calls are made

VARIABLES inline,     \* whether it is sample4's vector
          memory,     \* "null", "live" or "freed"
          capacity,
          cells,      \* the elements in the first size cells
          broken, calls

vars == <<inline, memory, capacity, cells, broken, calls>>

(* make_vector, or the array that main of sample4 takes for a vector *)
Init ==
    /\ inline \in BOOLEAN
    /\ memory = IF inline THEN "live" ELSE "null"
    /\ capacity \in IF inline THEN Capacities ELSE {0}
    /\ cells = <<>>
    /\ broken = FALSE /\ calls = 0

AtLeastOne(c) == IF c < 1 THEN 1 ELSE c
MustGrow(c) == capacity < AtLeastOne(c)

(* sample2 reallocates its block; sample4 the address of the caller's      *)
(* pointer, which no malloc has returned.                                  *)
GrowBreaks == inline \/ memory = "freed"
Grown == IF GrowBreaks THEN memory ELSE "live"

CanCall == calls < MaxCalls /\ ~broken /\ calls' = calls + 1

reserve(c) ==
    /\ CanCall
    /\ IF MustGrow(c)
       THEN broken' = GrowBreaks /\ capacity' = AtLeastOne(c) /\ memory' = Grown
       ELSE broken' = (inline /\ memory = "freed") /\ UNCHANGED <<capacity, memory>>
    /\ UNCHANGED <<inline, cells>>

(* Mutation: the vector grows when it is past its capacity. *)
IsFullLate == Len(cells) > capacity

IsFull == Len(cells) = capacity

push_back(e) ==
    /\ CanCall
    /\ LET grows == IsFull /\ MustGrow(2 * capacity)
       IN  /\ broken' = IF grows THEN GrowBreaks ELSE memory = "freed"
           /\ capacity' = IF grows THEN AtLeastOne(2 * capacity) ELSE capacity
           /\ memory' = IF grows THEN Grown ELSE memory
    /\ cells' = Append(cells, e)
    /\ UNCHANGED inline

(* free, which leaves the pointer as it is *)
clear_vector ==
    /\ CanCall
    /\ IF memory = "null" THEN UNCHANGED <<memory, broken, capacity, cells>>
       ELSE /\ broken' = (memory = "freed")
            /\ memory' = "freed"
            /\ IF inline THEN UNCHANGED <<capacity, cells>>
                         ELSE capacity' = 0 /\ cells' = <<>>
    /\ UNCHANGED inline

Next ==
    \/ \E c \in Capacities : reserve(c)
    \/ \E e \in Element : push_back(e)
    \/ clear_vector

-------------------------------------------------------------------------------
(***************************************************************************)
(* sample5: a tree is an array of nodes; a link is the distance to another *)
(* node, and 0 is none.                                                    *)
(***************************************************************************)
NodeAt(tree, k) == tree[k + 1]

(* The index of the left child, -1 for none. *)
get_left(tree, k) == IF NodeAt(tree, k).left = 0 THEN -1 ELSE k + NodeAt(tree, k).left

(* The array of a with that of b behind it, hung to the left of the node. *)
concat_left(a, b, offset) == [a \o b EXCEPT ![offset + 1].left = Len(a) - offset]

-------------------------------------------------------------------------------
(***************************************************************************)
(* Properties.                                                             *)
(***************************************************************************)

(* A vector never holds more than it has memory for.  Only a call after    *)
(* clear_vector, which leaves the freed pointer in use, is undefined, and  *)
(* any growth of sample4's vector, which its main avoids with room for     *)
(* more than it pushes.  Sample2's cleared vector looks empty and new.     *)
VectorsKept ==
    /\ ~broken => Len(cells) <= capacity
    /\ broken => memory = "freed" \/ inline
    /\ memory = "freed" /\ ~inline /\ ~broken => cells = <<>> /\ capacity = 0

(* In a tree made of two, node k of the first and node k of the second     *)
(* behind it have the left children they had, but that the chosen node's   *)
(* is now the root of the second.                                          *)
LinksKept(a, b) ==
    \A offset \in 0 .. Len(a) - 1 :
        LET tree == concat_left(a, b, offset)
        IN  /\ get_left(tree, offset) = Len(a)
            /\ \A k \in (0 .. Len(a) - 1) \ {offset} : get_left(tree, k) = get_left(a, k)
            /\ \A k \in 0 .. Len(b) - 1 :
                  get_left(tree, Len(a) + k)
                      = IF get_left(b, k) = -1 THEN -1 ELSE Len(a) + get_left(b, k)
==============================================================================
