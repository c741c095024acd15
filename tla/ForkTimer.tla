------------------------------- MODULE ForkTimer -------------------------------
(***************************************************************************)
(* src/src/fork/timer/main.c: every few seconds main forks a child that    *)
(* executes a command with STEP=counter in its environment, and waits for  *)
(* it.  A child that cannot be executed returns -1 from main.              *)
(***************************************************************************)
EXTENDS Integers, Sequences

CONSTANT MaxSteps  \* bound: how often main forks

VARIABLES reaped,   \* SIGCHLD is ignored: waitpid returns -1 once the child is gone
          at,       \* where main is
          counter,  \* as in the code
          child,    \* what the child does, and how it has ended
          steps,    \* the STEPs that commands were given
          reports   \* what main has printed of its children

vars == <<reaped, at, counter, child, steps, reports>>

Init ==
    /\ reaped \in BOOLEAN
    /\ at = "sleep"
    /\ counter = 0
    /\ child = "none"
    /\ steps = <<>> /\ reports = <<>>

(* Mutation: the counter is counted up before the fork. *)
ForkCountFirst ==
    /\ at = "sleep" /\ counter < MaxSteps
    /\ child' = "exec"
    /\ counter' = counter + 1
    /\ at' = "wait"
    /\ steps' = Append(steps, counter')
    /\ UNCHANGED <<reaped, reports>>

(* sleep, fork and ++counter; the child's copy is made before. *)
Fork ==
    /\ at = "sleep" /\ counter < MaxSteps
    /\ child' = "exec"
    /\ counter' = counter + 1
    /\ at' = "wait"
    /\ steps' = Append(steps, counter)
    /\ UNCHANGED <<reaped, reports>>

(* Main goes on with child = -1, and waits for any child. *)
ForkFails ==
    /\ at = "sleep" /\ counter < MaxSteps
    /\ counter' = counter + 1
    /\ at' = "wait"
    /\ steps' = Append(steps, -1)
    /\ UNCHANGED <<reaped, child, reports>>

(* execve fails, or the command exits or dies of a signal. *)
ChildEnds ==
    /\ child = "exec"
    /\ child' \in {"exec_error", "exited", "signaled"}
    /\ UNCHANGED <<reaped, at, counter, steps, reports>>

Wait ==
    /\ at = "wait"
    /\ child # "exec"
    /\ reports' = Append(reports, IF child = "none" \/ reaped THEN "no_child" ELSE child)
    /\ child' = "none"
    /\ at' = "sleep"
    /\ UNCHANGED <<reaped, counter, steps>>

Next == Fork \/ ForkFails \/ ChildEnds \/ Wait

-------------------------------------------------------------------------------
(* The k-th command is given STEP = k - 1, the steps of failed forks are   *)
(* left out, each child is reported before the next is forked, and only a  *)
(* failed fork is reported as an error of waitpid, unless no child can be  *)
(* waited for.                                                             *)
TimerSafety ==
    /\ Len(steps) = counter
    /\ \A k \in 1 .. Len(steps) : steps[k] \in {k - 1, -1}
    /\ Len(reports) = Len(steps) - (IF at = "wait" THEN 1 ELSE 0)
    /\ \A k \in 1 .. Len(reports) : reports[k] = "no_child" <=> steps[k] = -1 \/ reaped

(* What keeps it from step to step: a child is there for the last step     *)
(* while main waits, unless its fork failed.                               *)
Report == {"no_child", "exec_error", "exited", "signaled"}

IInv ==
    /\ reaped \in BOOLEAN /\ at \in {"sleep", "wait"}
    /\ child \in {"none", "exec", "exec_error", "exited", "signaled"}
    /\ counter \in Nat /\ steps \in Seq(Int) /\ reports \in Seq(Report)
    /\ at = "sleep" => child = "none"
    /\ at = "wait" => Len(steps) > 0 /\ (child = "none" <=> steps[Len(steps)] = -1)
    /\ TimerSafety
==============================================================================
