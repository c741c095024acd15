----------------------------- MODULE SequencePrint -----------------------------
(***************************************************************************)
(* src/src/signal/sequence_print/main.c: a master and its forked children  *)
(* pass the right to print with SIGUSR1.  The master signals its children  *)
(* in turn; the one that gets the signal prints and counts up the integer  *)
(* the processes share, and signals the master back.                       *)
(*                                                                         *)
(* A signal that was sent is pending until it is delivered, which may      *)
(* happen before any step of the process, and a second one sent meanwhile  *)
(* is the same pending signal.  Delivery runs the handler and ends a       *)
(* pause() the process is in, but no pause() it is about to call.  Between *)
(* wait_signal's test of received and pause() the code does nothing to     *)
(* hold the signal off.                                                    *)
(***************************************************************************)
EXTENDS Integers, Sequences, FiniteSets

CONSTANTS CHILDREN_COUNT, LIMIT,
          ForkMayFail  \* whether a fork may fail

ASSUME CountAssumption ==
    CHILDREN_COUNT \in Nat \ {0} /\ LIMIT \in Nat /\ ForkMayFail \in BOOLEAN

Child == 0 .. CHILDREN_COUNT - 1
Master == CHILDREN_COUNT
Process == Child \cup {Master}

VARIABLES pc,         \* where each process is
          received,   \* its global received, set by the handler
          pending,    \* SIGUSR1 was sent to it and is not delivered yet
          mem,        \* the shared *mem
          value,      \* what its increment of *mem has read, in each child
          index,      \* the master's index, and the i of its loop of forks
          killed,     \* how many children the master has sent SIGKILL
          printed     \* the lines on the terminal: who wrote which number

vars == <<pc, received, pending, mem, value, index, killed, printed>>

Init ==
    /\ pc = [p \in Process |-> IF p = Master THEN "fork" ELSE "none"]
    /\ received = [p \in Process |-> FALSE]
    /\ pending = [p \in Process |-> FALSE]
    /\ mem = 0
    /\ value = [c \in Child |-> 0]
    /\ index = 0
    /\ killed = 0
    /\ printed = <<>>

Goto(p, label) == pc' = [pc EXCEPT ![p] = label]
Send(p) == pending' = [pending EXCEPT ![p] = TRUE]

-------------------------------------------------------------------------------
(***************************************************************************)
(* The signal, and wait_signal.                                            *)
(***************************************************************************)

(* The kernel runs handler() in p; pause() returns after it. *)
Deliver(p) ==
    /\ pending[p]
    /\ pc[p] \notin {"dead", "exited"}
    /\ pending' = [pending EXCEPT ![p] = FALSE]
    /\ received' = [received EXCEPT ![p] = TRUE]
    /\ Goto(p, IF pc[p] = "asleep" THEN "test" ELSE pc[p])
    /\ UNCHANGED <<mem, value, index, killed, printed>>

(* while (!received) *)
TestReceived(p) ==
    /\ pc[p] = "test"
    /\ Goto(p, IF received[p] THEN "clear" ELSE "pause")
    /\ UNCHANGED <<received, pending, mem, value, index, killed, printed>>

(* pause(): the process sleeps until a handler has run. *)
Pause(p) ==
    /\ pc[p] = "pause"
    /\ Goto(p, "asleep")
    /\ UNCHANGED <<received, pending, mem, value, index, killed, printed>>

(* Mutation: received is not reset. *)
KeepReceived(p) ==
    /\ pc[p] = "clear"
    /\ Goto(p, IF p = Master THEN "choose" ELSE "read")
    /\ UNCHANGED <<received, pending, mem, value, index, killed, printed>>

(* received = 0 *)
ClearReceived(p) ==
    /\ pc[p] = "clear"
    /\ received' = [received EXCEPT ![p] = FALSE]
    /\ Goto(p, IF p = Master THEN "choose" ELSE "read")
    /\ UNCHANGED <<pending, mem, value, index, killed, printed>>

-------------------------------------------------------------------------------
(***************************************************************************)
(* A child's turn.  Its increment of *mem is a read and a write.           *)
(***************************************************************************)
ReadMem(c) ==
    /\ pc[c] = "read"
    /\ value' = [value EXCEPT ![c] = mem]
    /\ Goto(c, "write")
    /\ UNCHANGED <<received, pending, mem, index, killed, printed>>

WriteMem(c) ==
    /\ pc[c] = "write"
    /\ mem' = value[c] + 1
    /\ Goto(c, "print")
    /\ UNCHANGED <<received, pending, value, index, killed, printed>>

(* printf, on a terminal *)
PrintValue(c) ==
    /\ pc[c] = "print"
    /\ printed' = Append(printed, <<c, value[c]>>)
    /\ Goto(c, "reply")
    /\ UNCHANGED <<received, pending, mem, value, index, killed>>

(* Mutation: a child does not signal the master back. *)
ReplyMissing(c) ==
    /\ pc[c] = "reply"
    /\ Goto(c, "test")
    /\ UNCHANGED <<received, pending, mem, value, index, killed, printed>>

(* kill(parent, SIGUSR1) *)
Reply(c) ==
    /\ pc[c] = "reply"
    /\ Send(Master)
    /\ Goto(c, "test")
    /\ UNCHANGED <<received, mem, value, index, killed, printed>>

-------------------------------------------------------------------------------
(***************************************************************************)
(* The master.                                                             *)
(***************************************************************************)

(* The child goes on to wait for its signal while others are forked. *)
Fork ==
    /\ pc[Master] = "fork"
    /\ pc' = [pc EXCEPT ![index] = "test",
                       ![Master] = IF index = CHILDREN_COUNT - 1 THEN "raise" ELSE "fork"]
    /\ index' = IF index = CHILDREN_COUNT - 1 THEN 0 ELSE index + 1
    /\ UNCHANGED <<received, pending, mem, value, killed, printed>>

(* exit(-1), which leaves the children forked so far alone. *)
ForkFails ==
    /\ ForkMayFail
    /\ pc[Master] = "fork"
    /\ Goto(Master, "exited")
    /\ UNCHANGED <<received, pending, mem, value, index, killed, printed>>

(* raise(SIGUSR1) returns after the handler has run. *)
Raise ==
    /\ pc[Master] = "raise"
    /\ received' = [received EXCEPT ![Master] = TRUE]
    /\ Goto(Master, "test")
    /\ UNCHANGED <<pending, mem, value, index, killed, printed>>

(* kill(children[next], SIGUSR1) *)
SignalNext ==
    /\ pc[Master] = "choose"
    /\ mem < LIMIT
    /\ index' = index + 1
    /\ Send(index % CHILDREN_COUNT)
    /\ Goto(Master, "test")
    /\ UNCHANGED <<received, mem, value, killed, printed>>

LimitReached ==
    /\ pc[Master] = "choose"
    /\ mem >= LIMIT
    /\ index' = index + 1
    /\ Goto(Master, "stop")
    /\ UNCHANGED <<received, pending, mem, value, killed, printed>>

(* kill(children[i], SIGKILL) *)
KillChild ==
    /\ pc[Master] = "stop"
    /\ killed < CHILDREN_COUNT
    /\ killed' = killed + 1
    /\ Goto(killed, "dead")
    /\ UNCHANGED <<received, pending, mem, value, index, printed>>

Exit ==
    /\ pc[Master] = "stop"
    /\ killed = CHILDREN_COUNT
    /\ Goto(Master, "exited")
    /\ UNCHANGED <<received, pending, mem, value, index, killed, printed>>

-------------------------------------------------------------------------------
ProcessStep(p) == TestReceived(p) \/ Pause(p) \/ ClearReceived(p)
ChildStep(c) == ReadMem(c) \/ WriteMem(c) \/ PrintValue(c) \/ Reply(c)
MasterStep == Fork \/ ForkFails \/ Raise \/ SignalNext \/ LimitReached \/ KillChild \/ Exit

Next ==
    \/ \E p \in Process : Deliver(p) \/ ProcessStep(p)
    \/ \E c \in Child : ChildStep(c)
    \/ MasterStep

Spec == Init /\ [][Next]_vars

(* The kernel delivers every signal and runs every process. *)
FairSpec ==
    /\ Spec
    /\ \A p \in Process : WF_vars(Deliver(p)) /\ WF_vars(ProcessStep(p))
    /\ \A c \in Child : WF_vars(ChildStep(c))
    /\ WF_vars(MasterStep)

-------------------------------------------------------------------------------
(***************************************************************************)
(* Properties.                                                             *)
(***************************************************************************)
Working(p) == pc[p] \in {"clear", "read", "write", "print", "reply", "choose"}

(* Everything that carries the right to go on: a signal under way, one     *)
(* that the process has noted, or a process that acts on it.               *)
Tokens ==
    {<<"sent", p>> : p \in {q \in Process : pending[q]}}
        \cup {<<"noted", p>> : p \in {q \in Process : received[q] /\ pc[q] # "clear"}}
        \cup {<<"acting", p>> : p \in {q \in Process : Working(q)}}

TypeOK ==
    /\ pc \in [Process -> {"none", "fork", "raise", "test", "pause", "asleep", "clear",
                           "read", "write", "print", "reply", "choose", "stop", "dead",
                           "exited"}]
    /\ received \in [Process -> BOOLEAN]
    /\ pending \in [Process -> BOOLEAN]
    /\ mem \in Nat /\ index \in Nat
    /\ value \in [Child -> Nat]
    /\ killed \in 0 .. CHILDREN_COUNT
    /\ printed \in Seq(Child \X Nat)

(* There is one right to print: no two processes ever act at the same      *)
(* time, and no signal merges with another that is pending or noted.       *)
OneToken ==
    Cardinality(Tokens) = IF pc[Master] \in {"fork", "raise", "stop", "exited"} THEN 0 ELSE 1

(* The numbers come out in order, without a gap or a repetition, printed   *)
(* by the children in turn, and never more than LIMIT of them.             *)
PrintedInOrder ==
    /\ Len(printed) <= LIMIT
    /\ \A i \in 1 .. Len(printed) : printed[i] = <<(i - 1) % CHILDREN_COUNT, i - 1>>

(* The processes take turns: one at a time acts, and what it prints is the *)
(* next number.                                                            *)
Safety == TypeOK /\ OneToken /\ PrintedInOrder

(* What keeps Safety from step to step.  Nothing is under way before the    *)
(* first signal and after the last, ...                                     *)
Idle == pc[Master] \in {"fork", "raise", "stop", "exited"}
Without(p) == ~pending[p] /\ ~received[p] /\ ~Working(p)

(* ... and between them one process has the right to go on, in one way, ... *)
With(p) ==
    /\ pending[p] => ~received[p] /\ ~Working(p)
    /\ received[p] => ~Working(p) \/ pc[p] = "clear"
    /\ pc[p] = "clear" => received[p]
    /\ pending[p] \/ received[p] \/ Working(p)

(* ... the master between two numbers, or the child whose turn it is, which *)
(* counts up *mem and prints the number that index stands for.              *)
Turn(p) ==
    IF p = Master
    THEN index = mem /\ Len(printed) = mem /\ mem <= LIMIT
    ELSE /\ index \in 1 .. LIMIT /\ p = (index - 1) % CHILDREN_COUNT
         /\ mem = IF pc[p] \in {"print", "reply"} THEN index ELSE index - 1
         /\ Len(printed) = IF pc[p] = "reply" THEN index ELSE index - 1
         /\ pc[p] \in {"write", "print"} => value[p] = index - 1

Labels ==
    /\ pc[Master] \in {"fork", "raise", "test", "pause", "asleep", "clear", "choose", "stop",
                       "exited"}
    /\ \A c \in Child : pc[c] \notin {"fork", "raise", "choose", "stop", "exited"}
    /\ pc[Master] = "fork" => index \in Child
    /\ pc[Master] = "raise" => index = 0
    /\ pc[Master] \in {"fork", "raise"} => mem = 0 /\ printed = <<>>

IInv ==
    /\ TypeOK /\ Labels /\ PrintedInOrder
    /\ Idle => \A p \in Process : Without(p)
    /\ ~Idle => \E h \in Process :
                   With(h) /\ Turn(h) /\ \A p \in Process \ {h} : Without(p)

(* A process that sleeps in pause() although its signal has come. *)
Missed(p) == pc[p] = "asleep" /\ received[p]

(* A fork has failed: no child prints, and those forked before it sleep. *)
GivenUp ==
    /\ pc[Master] = "exited" /\ printed = <<>>
    /\ \A c \in Child : pc[c] \in {"none", "asleep"} /\ ~received[c]

(* The master exits with everything printed, unless a signal comes in the  *)
(* gap between the test of received and pause(), and then everybody sleeps *)
(* for ever; or unless a fork fails, and then the children forked before   *)
(* it do.                                                                  *)
FinishesOrMisses ==
    \/ <>(pc[Master] = "exited" /\ Len(printed) = LIMIT)
    \/ <>[](\A p \in Process : pc[p] = "asleep" /\ ~pending[p]
              /\ \E q \in Process : Missed(q))
    \/ ForkMayFail /\ <>[]GivenUp

(* What src/src/fork/sync.md says of the protocol: it comes to an end. *)
Finishes == <>(pc[Master] = "exited")
==============================================================================
