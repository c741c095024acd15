------------------------------- MODULE EvfdSync -------------------------------
(***************************************************************************)
(* src/src/fork/evfd-sync/main.c: THREADS child processes stand in a ring  *)
(* of eventfds and print the numbers up to N in turn.  A number goes from  *)
(* child to child as the counter of the next one's eventfd.                *)
(*                                                                         *)
(* A read of an eventfd waits until the counter is not zero, returns it    *)
(* and resets it; a write adds to it.  All the eventfds exist before the   *)
(* first fork, so a write to the eventfd of a child that is missing or has *)
(* exited succeeds as well.  A fork may fail, which main only reports.     *)
(***************************************************************************)
EXTENDS Integers, Sequences, FiniteSets

CONSTANTS THREADS,  \* how many children, at least one
          N         \* the last number

Id == 0 .. THREADS - 1

VARIABLES main_pc,   \* where main is
          forks,     \* how many forks main has tried
          pc,        \* where each child is
          efd,       \* the counters of the eventfds
          x,         \* the local x of each child
          printed,   \* the lines on the terminal: who wrote which number
          reaped     \* the children wait has returned

vars == <<main_pc, forks, pc, efd, x, printed, reaped>>

Init ==
    /\ main_pc = "fork"
    /\ forks = 0
    /\ pc = [i \in Id |-> "none"]
    /\ efd = [i \in Id |-> 0]
    /\ x = [i \in Id |-> 0]
    /\ printed = <<>>
    /\ reaped = {}

-------------------------------------------------------------------------------
(***************************************************************************)
(* main                                                                    *)
(***************************************************************************)
ForkChild ==
    /\ main_pc = "fork"
    /\ forks < THREADS
    /\ pc' = [pc EXCEPT ![forks] = "read"]
    /\ forks' = forks + 1
    /\ UNCHANGED <<main_pc, efd, x, printed, reaped>>

(* check_result prints that the fork failed, and the loop goes on. *)
ForkFails ==
    /\ main_pc = "fork"
    /\ forks < THREADS
    /\ forks' = forks + 1
    /\ UNCHANGED <<main_pc, pc, efd, x, printed, reaped>>

InitWrite ==
    /\ main_pc = "fork"
    /\ forks = THREADS
    /\ efd' = [efd EXCEPT ![0] = @ + 1]
    /\ main_pc' = "wait"
    /\ UNCHANGED <<forks, pc, x, printed, reaped>>

Started == {i \in Id : pc[i] # "none"}

WaitChild(i) ==
    /\ main_pc = "wait"
    /\ pc[i] = "exited"
    /\ i \notin reaped
    /\ reaped' = reaped \cup {i}
    /\ UNCHANGED <<main_pc, forks, pc, efd, x, printed>>

(* wait returns -1 when there is no child left. *)
MainExit ==
    /\ main_pc = "wait"
    /\ reaped = Started
    /\ main_pc' = "exited"
    /\ UNCHANGED <<forks, pc, efd, x, printed, reaped>>

-------------------------------------------------------------------------------
(***************************************************************************)
(* The children.                                                           *)
(***************************************************************************)
ReadEfd(i) ==
    /\ pc[i] = "read"
    /\ efd[i] > 0
    /\ x' = [x EXCEPT ![i] = efd[i]]
    /\ efd' = [efd EXCEPT ![i] = 0]
    /\ pc' = [pc EXCEPT ![i] = "print"]
    /\ UNCHANGED <<main_pc, forks, printed, reaped>>

(* Mutation: ++x before the number is printed. *)
PrintXLate(i) ==
    /\ pc[i] = "print"
    /\ printed' = IF x[i] <= N THEN Append(printed, <<i, x[i] + 1>>) ELSE printed
    /\ x' = [x EXCEPT ![i] = @ + 1]
    /\ pc' = [pc EXCEPT ![i] = "write"]
    /\ UNCHANGED <<main_pc, forks, efd, reaped>>

(* Mutation: < for <= in the test against N. *)
PrintXStrict(i) ==
    /\ pc[i] = "print"
    /\ printed' = IF x[i] < N THEN Append(printed, <<i, x[i]>>) ELSE printed
    /\ x' = [x EXCEPT ![i] = @ + 1]
    /\ pc' = [pc EXCEPT ![i] = "write"]
    /\ UNCHANGED <<main_pc, forks, efd, reaped>>

(* Prints x if it is at most N, and counts it up. *)
PrintX(i) ==
    /\ pc[i] = "print"
    /\ printed' = IF x[i] <= N THEN Append(printed, <<i, x[i]>>) ELSE printed
    /\ x' = [x EXCEPT ![i] = @ + 1]
    /\ pc' = [pc EXCEPT ![i] = "write"]
    /\ UNCHANGED <<main_pc, forks, efd, reaped>>

(* Mutation: a child past the limit exits before it passes the number on. *)
WriteEfdOrExit(i) ==
    /\ pc[i] = "write"
    /\ efd' = IF x[i] > N THEN efd ELSE [efd EXCEPT ![(i + 1) % THREADS] = @ + x[i]]
    /\ pc' = [pc EXCEPT ![i] = IF x[i] > N THEN "exited" ELSE "read"]
    /\ UNCHANGED <<main_pc, forks, x, printed, reaped>>

WriteEfd(i) ==
    /\ pc[i] = "write"
    /\ efd' = [efd EXCEPT ![(i + 1) % THREADS] = @ + x[i]]
    /\ pc' = [pc EXCEPT ![i] = IF x[i] > N THEN "exited" ELSE "read"]
    /\ UNCHANGED <<main_pc, forks, x, printed, reaped>>

-------------------------------------------------------------------------------
MainStep == ForkChild \/ InitWrite \/ (\E i \in Id : WaitChild(i)) \/ MainExit
ChildStep(i) == ReadEfd(i) \/ PrintX(i) \/ WriteEfd(i)

Next == MainStep \/ ForkFails \/ \E i \in Id : ChildStep(i)

Spec == Init /\ [][Next]_vars

(* The kernel runs every process. *)
FairSpec ==
    /\ Spec
    /\ WF_vars(MainStep)
    /\ \A i \in Id : WF_vars(ChildStep(i))

-------------------------------------------------------------------------------
(***************************************************************************)
(* Properties.                                                             *)
(***************************************************************************)
TypeOK ==
    /\ main_pc \in {"fork", "wait", "exited"}
    /\ forks \in 0 .. THREADS
    /\ pc \in [Id -> {"none", "read", "print", "write", "exited"}]
    /\ efd \in [Id -> Nat]
    /\ x \in [Id -> Nat]
    /\ printed \in Seq(Id \X Nat)
    /\ reaped \subseteq Id

(* The child that holds the number, in its eventfd or in its hands. *)
Holds(i) == efd[i] > 0 \/ pc[i] \in {"print", "write"}

(* The number it holds, as it was when it left the child before. *)
NumberOf(i) ==
    CASE pc[i] = "print" -> x[i]
      [] pc[i] = "write" -> x[i] - 1
      [] OTHER           -> efd[i]

(* Is the number of holder i printed already? *)
Counted(i) == IF pc[i] = "write" THEN NumberOf(i) ELSE NumberOf(i) - 1

(* The number is in one place.  Two writes to one eventfd would add up,    *)
(* and two holders would print at the same time.                           *)
OneHolder ==
    /\ \A i, j \in Id : Holds(i) /\ Holds(j) => i = j
    /\ \A i \in Id : pc[i] \in {"print", "write"} => efd[i] = 0
    /\ (\E i \in Id : Holds(i)) <=> main_pc # "fork"

(* The numbers 1 to N come out in order, without a gap or a repetition,    *)
(* printed by the children in turn: also if a fork failed, as far as they  *)
(* come out then.                                                          *)
PrintedInOrder ==
    /\ Len(printed) <= N
    /\ \A k \in 1 .. Len(printed) : printed[k] = <<(k - 1) % THREADS, k>>

(* What the number on its way says: who holds it, and what is printed. *)
NumberInv ==
    \A i \in Id : Holds(i) =>
        /\ NumberOf(i) \in Nat \ {0}
        /\ i = (NumberOf(i) - 1) % THREADS
        /\ Len(printed) = IF Counted(i) <= N THEN Counted(i) ELSE N

(* What the ring promises: one child at a time has the number, and what    *)
(* comes out is in order.                                                  *)
RingSafety == OneHolder /\ PrintedInOrder

(* The inductive invariant. *)
IInv ==
    /\ TypeOK
    /\ OneHolder
    /\ PrintedInOrder
    /\ NumberInv
    /\ main_pc = "fork" => printed = <<>>

(* With all children there, everything is printed and main exits, with no  *)
(* child left behind: the number that ends the loop of one child reaches   *)
(* the next before that child exits.                                       *)
FinishesIfForked ==
    (forks = THREADS /\ Started = Id)
        ~> (main_pc = "exited" /\ Len(printed) = N /\ reaped = Id)
==============================================================================
