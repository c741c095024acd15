------------------------------- MODULE PingPong -------------------------------
(***************************************************************************)
(* src/src/signal/ping-pong/main.c: two forked children print the numbers  *)
(* 1 .. n in turn.  A number travels through one pipe all processes share, *)
(* and the reader is told by SIGUSR1, which is blocked and read from a     *)
(* signalfd.  A child signals the other before it writes the next number.  *)
(*                                                                         *)
(* A record of the pipe is 16 bytes with a decimal number; that it is a    *)
(* process id or a number to print shows only in who reads it.  One read   *)
(* takes one record and waits while there is none; a SIGUSR1 that is       *)
(* already pending swallows another.                                       *)
(*                                                                         *)
(* When the second fork fails, the check tests child1 and main goes on: it *)
(* formats child2 = -1 as 2^64 - 1, in more than the 16 bytes there are.   *)
(***************************************************************************)
EXTENDS Integers, Sequences, FiniteSets

CONSTANTS n,        \* the argument of the program
          PidOf     \* the process ids of child 1 and child 2

Id == {1, 2}

(* What child 1 makes of the first 16 digits of 2^64 - 1 and what follows  *)
(* them in its memory: the id of neither child.                            *)
NoPid == 1 + (CHOOSE k \in {PidOf[1], PidOf[2]} : \A d \in Id : k >= PidOf[d])

VARIABLES main_pc,   \* where main is
          pipe,      \* the records in the pipe
          pending,   \* SIGUSR1 is pending for the process with this number
          pc,        \* where each child is
          pid,       \* the process id it signals, 0 when it has to be read
          v,         \* the number it has read
          printed    \* the lines printed: is_first ? 1 : 2, and the number

vars == <<main_pc, pipe, pending, pc, pid, v, printed>>

Init ==
    /\ main_pc = "fork1"
    /\ pipe = <<>>
    /\ pending = [c \in Id |-> FALSE]
    /\ pc = [c \in Id |-> "none"]
    /\ pid = [c \in Id |-> 0]
    /\ v = [c \in Id |-> 0]
    /\ printed = <<>>

WriteNumber(k) == pipe' = Append(pipe, k)

ReadNumber == pipe # <<>> /\ pipe' = Tail(pipe)   \* reads Head(pipe)

(* A child that has exited is not reaped yet, or kill fails: no matter. *)
Kill(p) == pending' = [c \in Id |-> pending[c] \/ PidOf[c] = p]

-------------------------------------------------------------------------------
(***************************************************************************)
(* main                                                                    *)
(***************************************************************************)
ForkChild1 ==
    /\ main_pc = "fork1"
    /\ pc' = [pc EXCEPT ![1] = "wait pid"]
    /\ main_pc' = "fork2"
    /\ UNCHANGED <<pipe, pending, pid, v, printed>>

(* The check of the result: main exits. *)
ForkChild1Fails ==
    /\ main_pc = "fork1"
    /\ main_pc' = "exited"
    /\ UNCHANGED <<pipe, pending, pc, pid, v, printed>>

ForkChild2 ==
    /\ main_pc = "fork2"
    /\ pc' = [pc EXCEPT ![2] = "signal"]
    /\ pid' = [pid EXCEPT ![2] = PidOf[1]]
    /\ main_pc' = "init child1"
    /\ UNCHANGED <<pipe, pending, v, printed>>

ForkChild2Fails ==
    /\ main_pc = "fork2"
    /\ main_pc' = "init child1"
    /\ UNCHANGED <<pipe, pending, pc, pid, v, printed>>

InitChild1 ==
    /\ main_pc = "init child1"
    /\ WriteNumber(IF pc[2] = "none" THEN NoPid ELSE PidOf[2])
    /\ main_pc' = "init sequence"
    /\ UNCHANGED <<pending, pc, pid, v, printed>>

(* The overflow stops main before the write or when write_number returns,  *)
(* if the build looks for it.                                              *)
Overflow ==
    /\ main_pc = "init child1" /\ pc[2] = "none"
    /\ pipe' = pipe \/ WriteNumber(NoPid)
    /\ main_pc' = "exited"
    /\ UNCHANGED <<pending, pc, pid, v, printed>>

InitSequence ==
    /\ main_pc = "init sequence"
    /\ WriteNumber(1)
    /\ main_pc' = "kill"
    /\ UNCHANGED <<pending, pc, pid, v, printed>>

KillChild1 ==
    /\ main_pc = "kill"
    /\ Kill(PidOf[1])
    /\ main_pc' = "wait"
    /\ UNCHANGED <<pipe, pc, pid, v, printed>>

(* wait returns -1 when all children have exited. *)
MainExit ==
    /\ main_pc = "wait"
    /\ \A c \in Id : pc[c] \in {"none", "exited"}
    /\ main_pc' = "exited"
    /\ UNCHANGED <<pipe, pending, pc, pid, v, printed>>

-------------------------------------------------------------------------------
(***************************************************************************)
(* run_child                                                               *)
(***************************************************************************)
WaitPid(c) ==
    /\ pc[c] = "wait pid"
    /\ ReadNumber
    /\ pid' = [pid EXCEPT ![c] = Head(pipe)]
    /\ pc' = [pc EXCEPT ![c] = "signal"]
    /\ UNCHANGED <<main_pc, pending, v, printed>>

(* Mutation: the signal is sent before the number is read. *)
ReadSignalAndKill(c) ==
    /\ pc[c] = "signal"
    /\ pending[c]
    /\ pending' = [d \in Id |-> d # c /\ (pending[d] \/ PidOf[d] = pid[c])]
    /\ pc' = [pc EXCEPT ![c] = "number"]
    /\ UNCHANGED <<main_pc, pipe, pid, v, printed>>

ReadSignal(c) ==
    /\ pc[c] = "signal"
    /\ pending[c]
    /\ pending' = [pending EXCEPT ![c] = FALSE]
    /\ pc' = [pc EXCEPT ![c] = "number"]
    /\ UNCHANGED <<main_pc, pipe, pid, v, printed>>

(* Reads the number and prints it, unless it is past n. *)
ReadAndPrint(c) ==
    /\ pc[c] = "number"
    /\ ReadNumber
    /\ v' = [v EXCEPT ![c] = Head(pipe)]
    /\ printed' = IF Head(pipe) <= n THEN Append(printed, <<c, Head(pipe)>>) ELSE printed
    /\ pc' = [pc EXCEPT ![c] = "kill"]
    /\ UNCHANGED <<main_pc, pending, pid>>

KillOther(c) ==
    /\ pc[c] = "kill"
    /\ Kill(pid[c])
    /\ pc' = [pc EXCEPT ![c] = "write"]
    /\ UNCHANGED <<main_pc, pipe, pid, v, printed>>

WriteNext(c) ==
    /\ pc[c] = "write"
    /\ WriteNumber(v[c] + 1)
    /\ pc' = [pc EXCEPT ![c] = IF v[c] >= n THEN "exited" ELSE "signal"]
    /\ UNCHANGED <<main_pc, pending, pid, v, printed>>

-------------------------------------------------------------------------------
MainStep ==
    \/ ForkChild1 \/ ForkChild1Fails \/ ForkChild2 \/ ForkChild2Fails
    \/ InitChild1 \/ Overflow \/ InitSequence \/ KillChild1 \/ MainExit

ChildStep(c) ==
    WaitPid(c) \/ ReadSignal(c) \/ ReadAndPrint(c) \/ KillOther(c) \/ WriteNext(c)

Next == MainStep \/ \E c \in Id : ChildStep(c)

Spec == Init /\ [][Next]_vars

(* The kernel runs every process. *)
FairSpec == Spec /\ WF_vars(MainStep) /\ \A c \in Id : WF_vars(ChildStep(c))

-------------------------------------------------------------------------------
(***************************************************************************)
(* Properties.                                                             *)
(***************************************************************************)
TypeOK ==
    /\ main_pc \in {"fork1", "fork2", "init child1", "init sequence", "kill", "wait",
                    "exited"}
    /\ pipe \in Seq(Nat)
    /\ pending \in [Id -> BOOLEAN]
    /\ pc \in [Id -> {"none", "wait pid", "signal", "number", "kill", "write", "exited"}]
    /\ pid \in [Id -> {0, PidOf[1], PidOf[2], NoPid}]
    /\ v \in [Id -> Nat]
    /\ printed \in Seq(Id \X Nat)

Other(c) == 3 - c

(* Child 1 takes the process id out of the pipe that is meant for it, and  *)
(* no number: nobody else reads before the signal it sends itself.  It is  *)
(* no process id only where child 2 is missing.                            *)
PidIsPid ==
    \A c \in Id :
        /\ pid[c] \in {0, IF pc[2] = "none" THEN NoPid ELSE PidOf[Other(c)]}
        /\ pc[c] \notin {"none", "wait pid"} => pid[c] # 0

(* The lines come in order, without a gap or repetition, from the children *)
(* in turn.                                                                *)
PrintedInOrder ==
    /\ Len(printed) <= n
    /\ \A i \in 1 .. Len(printed) : printed[i] = <<IF i % 2 = 1 THEN 1 ELSE 2, i>>

(* Both children read the same pipe, but no number is taken by the child   *)
(* that wrote it: while one may read, the other has no signal to read on.  *)
(* And no kill hits a child whose last SIGUSR1 is still pending, where it  *)
(* would be swallowed.                                                     *)
NumberForMe ==
    \A c \in Id :
        /\ pc[c] = "number" =>
              /\ \A d \in Id : ~pending[d]
              /\ pc[Other(c)] \in {"none", "signal", "write", "exited"}
        /\ pc[c] = "kill" =>
              /\ \A d \in Id : ~pending[d]
              /\ pc[Other(c)] \in {"none", "signal", "exited"}

(* What comes out of the shared pipe is taken for what it was written as   *)
(* and by the child it was written for, and the numbers come out in order. *)
TurnsSafety == TypeOK /\ PidIsPid /\ PrintedInOrder /\ NumberForMe

(* What keeps it from step to step.  Before the first kill main is alone   *)
(* but for child 1, which takes its process id out of the pipe.            *)
ForChild1 == IF pc[2] = "none" THEN NoPid ELSE PidOf[2]

Setup ==
    /\ ~pending[1] /\ ~pending[2] /\ v[1] = 0 /\ v[2] = 0 /\ printed = <<>>
    /\ pc[1] \in {"none", "wait pid", "signal"} /\ pc[2] \in {"none", "signal"}
    /\ main_pc = "fork1" => pc[1] = "none"
    /\ main_pc \in {"fork2", "init child1"} => pc[1] = "wait pid"
    /\ main_pc \in {"init sequence", "kill"} => pc[1] \in {"wait pid", "signal"}
    /\ main_pc \in {"fork1", "fork2", "exited"} => pc[2] = "none"
    /\ pipe = CASE main_pc \in {"fork1", "fork2", "init child1"} -> <<>>
                [] main_pc = "init sequence" -> (IF pc[1] = "wait pid" THEN <<ForChild1>> ELSE <<>>)
                [] main_pc = "kill" -> (IF pc[1] = "wait pid" THEN <<ForChild1, 1>> ELSE <<1>>)
                [] OTHER -> IF pc[1] = "wait pid" /\ pipe # <<>> THEN <<NoPid>> ELSE <<>>

(* From then on some number k is on its way to child c, and the other has  *)
(* read the one before it: it signals c, writes k and goes to rest.        *)
Resting(c) == pc[c] = IF v[c] # 0 /\ v[c] >= n THEN "exited" ELSE "signal"

Missing(c) == c = 2 /\ pc[2] = "none"

Signalled(c) ==
    \/ pending[c] /\ Resting(c)
    \/ ~pending[c] /\ pc[c] = "number"
    \/ ~pending[c] /\ Missing(c)

AtHome(c) == Resting(c) \/ Missing(c)

OnItsWay(c, k) ==
    \/ pc[Other(c)] = "kill" /\ k > 1 /\ pipe = <<>> /\ ~pending[c] /\ AtHome(c)
    \/ pc[Other(c)] = "write" /\ k > 1 /\ pipe = <<>> /\ Signalled(c)
    \/ AtHome(Other(c)) /\ pipe = <<k>> /\ Signalled(c)
    \/ /\ c = 1 /\ k = 1 /\ pc[1] = "wait pid" /\ pending[1] /\ AtHome(2)
       /\ pipe = <<ForChild1, 1>>

Due(c, k) ==
    /\ c = IF k % 2 = 1 THEN 1 ELSE 2
    /\ v[c] = IF k = 1 THEN 0 ELSE k - 2
    /\ Len(printed) = IF k - 1 <= n THEN k - 1 ELSE n
    /\ ~pending[Other(c)]
    /\ OnItsWay(c, k)

UnderWay == \E c \in Id : \E k \in {v[Other(c)] + 1} : Due(c, k)

(* A child has read its process id when it waits for a signal.             *)
Pids ==
    /\ pid[1] = IF pc[1] \in {"none", "wait pid"} THEN 0 ELSE ForChild1
    /\ pid[2] = IF pc[2] = "none" THEN 0 ELSE PidOf[1]

IInv ==
    /\ TypeOK /\ Pids /\ PrintedInOrder
    /\ main_pc \notin {"wait", "exited"} => Setup
    /\ main_pc = "wait" => UnderWay
    /\ main_pc = "exited" => Setup \/ UnderWay

(* Everything is printed, both children exit, and so does main; unless a   *)
(* child is missing: then one line at most is printed, and child 1 waits.  *)
Finishes ==
    \/ <>(main_pc = "exited" /\ Len(printed) = n)
    \/ <>[](pc[2] = "none" /\ Len(printed) <= 1 /\ pc[1] \in {"none", "wait pid", "signal"})
==============================================================================
