------------------------------- MODULE SharedWord -------------------------------
(***************************************************************************)
(* src/src/mmap/sample3-fork/main.c: a child scans numbers into a word it  *)
(* shares with its parent, which looks at it each second and prints it     *)
(* when it has changed.                                                    *)
(***************************************************************************)
EXTENDS Integers

CONSTANTS Number,     \* the numbers in the input
          MaxNumbers  \* bound: how many there are

VARIABLES mem,      \* *mem
          child,    \* where the child is
          left,     \* how many numbers its input has left
          at,       \* where the parent is
          new_value, last_value,
          shown     \* the number printed last, 0 before the first

vars == <<mem, child, left, at, new_value, last_value, shown>>

(* A fork that fails leaves the parent, which goes on without a child. *)
Init ==
    /\ child \in {"scan", "none"}
    /\ left = MaxNumbers
    /\ mem = 0 /\ at = "look"
    /\ new_value = 0 /\ last_value = 0 /\ shown = 0

(* scanf stores the number in the word; a failed scanf ends the child. *)
Scan ==
    /\ child = "scan"
    /\ \/ left > 0 /\ left' = left - 1 /\ mem' \in Number /\ UNCHANGED child
       \/ child' = "exited" /\ UNCHANGED <<left, mem>>
    /\ UNCHANGED <<at, new_value, last_value, shown>>

Look ==
    /\ at = "look"
    /\ new_value' = mem
    /\ at' = "compare"
    /\ UNCHANGED <<mem, child, left, last_value, shown>>

(* Mutation: *mem is read again for last_value. *)
CompareAgain ==
    /\ at = "compare"
    /\ shown' = IF new_value # last_value THEN new_value ELSE shown
    /\ last_value' = mem
    /\ at' = "look"
    /\ UNCHANGED <<mem, child, left, new_value>>

Compare ==
    /\ at = "compare"
    /\ shown' = IF new_value # last_value THEN new_value ELSE shown
    /\ last_value' = new_value
    /\ at' = "look"
    /\ UNCHANGED <<mem, child, left, new_value>>

-------------------------------------------------------------------------------
Parent == Look \/ Compare

Next == Parent \/ Scan

-------------------------------------------------------------------------------
(* Numbers that follow each other within a second may be missed, but what  *)
(* stays in the word is printed in the end.                                *)
LastIsShown == <>[](shown = mem)
==============================================================================
