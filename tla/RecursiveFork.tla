----------------------------- MODULE RecursiveFork -----------------------------
(***************************************************************************)
(* The chain of processes of src/src/fork/recursive-fork/main.c: process p *)
(* prints p + 1, flushes, forks process p + 1 to go on with the loop and   *)
(* waits for it.  A child has a copy of what its parent has printed and    *)
(* not flushed, and a process that ends flushes what it has.               *)
(***************************************************************************)
EXTENDS Integers, Sequences

CONSTANT N  \* the number that is read

Process == 0 .. N
Failure == 0  \* the message that a fork has failed

VARIABLES at,      \* where each process is
          buffer,  \* what each has in its stdout
          stdout   \* what has been written

vars == <<at, buffer, stdout>>

(* Process p enters the loop with i = p + 1. *)
Loop(p) == IF p < N THEN "print" ELSE "wait"

Init ==
    /\ at = [p \in Process |-> IF p = 0 THEN Loop(0) ELSE "none"]
    /\ buffer = [p \in Process |-> <<>>]
    /\ stdout = <<>>

Goes(p, from, to) == at[p] = from /\ at' = [at EXCEPT ![p] = to]
Prints(p, text) == buffer' = [buffer EXCEPT ![p] = Append(@, text)] /\ UNCHANGED stdout
Flushes(p) == stdout' = stdout \o buffer[p] /\ buffer' = [buffer EXCEPT ![p] = <<>>]

PrintNumber(p) == Goes(p, "print", "flush") /\ Prints(p, p + 1)

(* Mutation: no fflush. *)
FlushNever(p) == Goes(p, "flush", "fork") /\ UNCHANGED <<buffer, stdout>>

Flush(p) == Goes(p, "flush", "fork") /\ Flushes(p)

Fork(p) ==
    /\ at[p] = "fork"
    /\ at' = [at EXCEPT ![p] = "wait", ![p + 1] = Loop(p + 1)]
    /\ buffer' = [buffer EXCEPT ![p + 1] = buffer[p]]
    /\ UNCHANGED stdout

(* -1 is not 0: the process says so and leaves the loop like a parent. *)
ForkFails(p) == Goes(p, "fork", "wait") /\ Prints(p, Failure)

(* wait fails at once without a child; then main returns. *)
HasChild(p) == p < N /\ at[p + 1] # "none"

(* Mutation: the process ends without waiting. *)
WaitNever(p) == Goes(p, "wait", "ended") /\ Flushes(p)

Wait(p) ==
    /\ HasChild(p) => at[p + 1] = "ended"
    /\ Goes(p, "wait", "ended")
    /\ Flushes(p)

Step(p) == PrintNumber(p) \/ Flush(p) \/ Fork(p) \/ ForkFails(p) \/ Wait(p)

Next == \E p \in Process : Step(p)

-------------------------------------------------------------------------------
(***************************************************************************)
(* Properties.                                                             *)
(***************************************************************************)

(* The numbers come out in order and each once, whichever process writes   *)
(* when, since the flush leaves nothing for the child to print again; a    *)
(* failed fork is reported behind the last number.                         *)
OutInOrder ==
    \A k \in 1 .. Len(stdout) :
        stdout[k] = k \/ (stdout[k] = Failure /\ k = Len(stdout) /\ k > 1)

(* Once the first process has ended, so have all the others: whoever waits *)
(* for it, as a shell does, has seen the whole output.                     *)
LastToEnd == at[0] = "ended" => \A p \in Process : at[p] \in {"none", "ended"}

ChainSafety == OutInOrder /\ LastToEnd

(* What keeps it from step to step: the processes up to the last one there *)
(* are, which wait, and how far that one is with its number.               *)
Printed(k) == stdout = [j \in 1 .. k |-> j]

LastIs(m) ==
    \/ at[m] = "print" /\ m < N /\ buffer[m] = <<>> /\ Printed(m)
    \/ at[m] = "flush" /\ m < N /\ buffer[m] = <<m + 1>> /\ Printed(m)
    \/ at[m] = "fork" /\ m < N /\ buffer[m] = <<>> /\ Printed(m + 1)
    \/ at[m] = "wait" /\ m < N /\ buffer[m] = <<Failure>> /\ Printed(m + 1)
    \/ at[m] = "wait" /\ m = N /\ buffer[m] = <<>> /\ Printed(N)
    \/ at[m] = "ended" /\ buffer[m] = <<>> /\ OutInOrder

WaitingFor(m) ==
    /\ \A p \in Process : at[p] = "none" <=> p > m
    /\ \A p \in Process : p < m => at[p] \in {"wait", "ended"}
    /\ \A p, q \in Process : p < q /\ q <= m /\ at[p] = "ended" => at[q] = "ended"
    /\ \A p \in Process : p # m => buffer[p] = <<>>

IInv ==
    /\ at \in [Process -> {"none", "print", "flush", "fork", "wait", "ended"}]
    /\ buffer \in [Process -> Seq(Nat)] /\ stdout \in Seq(Nat)
    /\ \E m \in Process : WaitingFor(m) /\ LastIs(m)

(* The first process ends, and unless a fork failed everything is printed. *)
AllPrinted ==
    <>(at[0] = "ended" /\ (Len(stdout) = N \/ stdout[Len(stdout)] = Failure))
==============================================================================
