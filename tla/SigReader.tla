------------------------------- MODULE SigReader -------------------------------
(***************************************************************************)
(* The signal reader of src/src/signal/sigreader/sigreader.h, which turns  *)
(* the asynchronous signals of target_set into values that sr_read         *)
(* returns, and a program that acquires it, reads and releases it as often *)
(* as it likes (sigreader/main.c acquires it and reads for ever).          *)
(*                                                                         *)
(* Signals are sent by other processes at any time.  One that is blocked   *)
(* waits in pending, where a second one of the same number is lost.  The   *)
(* signals of target_set are not blocked when the program starts, so       *)
(* old_set does not contain them, and their first action is to kill it.    *)
(***************************************************************************)
EXTENDS Integers

CONSTANTS LastSignal,   \* target_set is the signals 1 .. LastSignal
          NoSignal      \* sr_last_signal before the first signal

ASSUME SignalAssumption ==
    /\ LastSignal \in Nat \ {0}
    /\ NoSignal \notin 1 .. LastSignal

Signal == 1 .. LastSignal

VARIABLES pending,         \* the signals sent and not yet delivered
          blocked,         \* TRUE while target_set is blocked
          handled,         \* the signals whose action is sr_sighandler
          sr_exists,       \* the flag of the same name
          sr_last_signal,  \* the variable of the same name
          pc,              \* where the program is
          next,            \* i of the loops in sr_acquire and sr_release
          since            \* the signals handled since sr_read last returned

vars == <<pending, blocked, handled, sr_exists, sr_last_signal, pc, next, since>>

Init ==
    /\ pending = {}
    /\ blocked = FALSE
    /\ handled = {}
    /\ sr_exists = FALSE
    /\ sr_last_signal = NoSignal
    /\ pc = "out"
    /\ next = 1
    /\ since = {}

-------------------------------------------------------------------------------
(***************************************************************************)
(* Signals.                                                                *)
(***************************************************************************)
Send(s) ==
    /\ pc # "killed"
    /\ pending' = pending \cup {s}
    /\ UNCHANGED <<blocked, handled, sr_exists, sr_last_signal, pc, next, since>>

(* sr_sighandler.  It ends a sigsuspend, but as long as it has not         *)
(* returned another signal may be delivered on top of it.                  *)
Handle(s) ==
    /\ pc # "killed"
    /\ s \in pending /\ s \in handled
    /\ ~blocked
    /\ pending' = pending \ {s}
    /\ sr_exists' = TRUE
    /\ sr_last_signal' = s
    /\ since' = since \cup {s}
    /\ pc' = IF pc = "suspended" THEN "interrupted" ELSE pc
    /\ UNCHANGED <<blocked, handled, next>>

Kill(s) ==
    /\ pc # "killed"
    /\ s \in pending /\ s \notin handled
    /\ ~blocked
    /\ pc' = "killed"
    /\ UNCHANGED <<pending, blocked, handled, sr_exists, sr_last_signal, next, since>>

(* A signal that is let through is delivered before the program goes on. *)
Quiet == blocked \/ pending = {}

-------------------------------------------------------------------------------
(***************************************************************************)
(* sr_acquire: block target_set, then set the handlers.                    *)
(***************************************************************************)
(* Mutation: nothing is blocked. *)
AcquireOpen ==
    /\ pc = "out"
    /\ next' = 1
    /\ pc' = "acquire"
    /\ UNCHANGED <<pending, blocked, handled, sr_exists, sr_last_signal, since>>

AcquireBlock ==
    /\ pc = "out"
    /\ Quiet
    /\ blocked' = TRUE
    /\ next' = 1
    /\ pc' = "acquire"
    /\ UNCHANGED <<pending, handled, sr_exists, sr_last_signal, since>>

AcquireHandler ==
    /\ pc = "acquire"
    /\ handled' = handled \cup {next}
    /\ next' = next + 1
    /\ pc' = IF next = LastSignal THEN "ready" ELSE "acquire"
    /\ UNCHANGED <<pending, blocked, sr_exists, sr_last_signal, since>>

-------------------------------------------------------------------------------
(***************************************************************************)
(* sr_read                                                                 *)
(***************************************************************************)
ReadCall ==
    /\ pc = "ready"
    /\ pc' = "check"
    /\ UNCHANGED <<pending, blocked, handled, sr_exists, sr_last_signal, next, since>>

ReadFound ==
    /\ pc = "check"
    /\ sr_exists
    /\ pc' = "found"
    /\ UNCHANGED <<pending, blocked, handled, sr_exists, sr_last_signal, next, since>>

ReadEmpty ==
    /\ pc = "check"
    /\ ~sr_exists
    /\ pc' = "empty"
    /\ UNCHANGED <<pending, blocked, handled, sr_exists, sr_last_signal, next, since>>

(* sigsuspend lifts the mask and goes to sleep in one step. *)
ReadSuspend ==
    /\ pc = "empty"
    /\ blocked' = FALSE
    /\ pc' = "suspended"
    /\ UNCHANGED <<pending, handled, sr_exists, sr_last_signal, next, since>>

(* Mutation: sr_read sleeps again without a look at sr_exists. *)
ReadResumeAsleep ==
    /\ pc = "interrupted"
    /\ blocked' = TRUE
    /\ pc' = "empty"
    /\ UNCHANGED <<pending, handled, sr_exists, sr_last_signal, next, since>>

(* It returns with the mask as it was once the handler has. *)
ReadResume ==
    /\ pc = "interrupted"
    /\ blocked' = TRUE
    /\ pc' = "check"
    /\ UNCHANGED <<pending, handled, sr_exists, sr_last_signal, next, since>>

(* Mutation: sr_exists is not reset. *)
ReadKeep ==
    /\ pc = "found"
    /\ since' = {}
    /\ pc' = "ready"
    /\ UNCHANGED <<pending, blocked, handled, sr_exists, sr_last_signal, next>>

(* The reset of the flag and the return of sr_last_signal, which are two   *)
(* accesses that no handler can come between: see FoundIsKept.             *)
ReadReturn ==
    /\ pc = "found"
    /\ sr_exists' = FALSE
    /\ since' = {}
    /\ pc' = "ready"
    /\ UNCHANGED <<pending, blocked, handled, sr_last_signal, next>>

-------------------------------------------------------------------------------
(***************************************************************************)
(* sr_release: restore the mask, then the default actions.                 *)
(***************************************************************************)
(* Mutation: the default actions come back first and the mask last. *)
ReleaseDefaultsFirst ==
    /\ pc = "ready"
    /\ handled' = {}
    /\ blocked' = FALSE
    /\ next' = 1
    /\ pc' = "release"
    /\ UNCHANGED <<pending, sr_exists, sr_last_signal, since>>

ReleaseUnblock ==
    /\ pc = "ready"
    /\ blocked' = FALSE
    /\ next' = 1
    /\ pc' = "release"
    /\ UNCHANGED <<pending, handled, sr_exists, sr_last_signal, since>>

ReleaseDefault ==
    /\ pc = "release"
    /\ Quiet
    /\ handled' = handled \ {next}
    /\ next' = next + 1
    /\ pc' = IF next = LastSignal THEN "out" ELSE "release"
    /\ UNCHANGED <<pending, blocked, sr_exists, sr_last_signal, since>>

-------------------------------------------------------------------------------
Deliver == \E s \in Signal : Handle(s) \/ Kill(s)

sr_acquire == AcquireBlock \/ AcquireHandler
ReadGoesOn == ReadFound \/ ReadEmpty \/ ReadSuspend \/ ReadResume \/ ReadReturn
sr_read == ReadCall \/ ReadGoesOn
sr_release == ReleaseUnblock \/ ReleaseDefault

Next ==
    \/ \E s \in Signal : Send(s)
    \/ Deliver
    \/ sr_acquire \/ sr_read \/ sr_release

Spec == Init /\ [][Next]_vars

(* The kernel delivers what is not blocked, and the program goes on inside *)
(* a call; whether it calls again is its own affair.                       *)
FairSpec ==
    /\ Spec
    /\ WF_vars(Deliver)
    /\ WF_vars(AcquireHandler)
    /\ WF_vars(ReadGoesOn)
    /\ WF_vars(ReleaseDefault)

-------------------------------------------------------------------------------
(***************************************************************************)
(* Properties.                                                             *)
(***************************************************************************)
TypeOK ==
    /\ pending \subseteq Signal /\ handled \subseteq Signal /\ since \subseteq Signal
    /\ blocked \in BOOLEAN /\ sr_exists \in BOOLEAN
    /\ sr_last_signal \in Signal \cup {NoSignal}
    /\ pc \in {"out", "acquire", "ready", "check", "found", "empty",
               "suspended", "interrupted", "release", "killed"}
    /\ next \in 1 .. LastSignal + 1

(* The program never sleeps over a signal that was handled and not read:   *)
(* between its look at sr_exists and its sleep no handler can run.         *)
NoSleepOnUnread == pc = "suspended" => ~sr_exists

(* While a call of sr_read has found the flag set, no handler can run and  *)
(* put another signal in the place of the one it is about to return.       *)
FoundIsKept ==
    [][pc = "found" => UNCHANGED sr_last_signal /\ (sr_exists' => sr_exists)]_vars

(* What sr_read finds was handled after its last return: no signal is      *)
(* reported twice, whatever the reader was released and acquired between.  *)
FlagIsFresh == sr_exists => sr_last_signal \in since

(* A handled signal is neither slept over nor reported twice. *)
Safety == TypeOK /\ NoSleepOnUnread /\ FlagIsFresh

(* What the mask and the actions are at each point of the program, ...      *)
MaskAt ==
    /\ pc \in {"acquire", "ready", "check", "found", "empty"} => blocked
    /\ pc \in {"out", "suspended", "interrupted", "release"} => ~blocked

HandledAt ==
    /\ pc = "out" => handled = {}
    /\ pc = "acquire" => next \in Signal /\ handled = 1 .. next - 1
    /\ pc \in {"ready", "check", "found", "empty", "suspended", "interrupted"}
          => handled = Signal
    /\ pc = "release" => next \in Signal /\ handled = next .. LastSignal

(* ... and what sr_read has seen, which no handler can change under it.     *)
FlagAt ==
    /\ pc \in {"empty", "suspended"} => ~sr_exists
    /\ pc = "found" => sr_exists

IInv == Safety /\ MaskAt /\ HandledAt /\ FlagAt

(* A signal kills the program only where the reader is not acquired: never *)
(* in sr_acquire once the mask is set, between reads or in sr_read, and in *)
(* sr_release never one that was sent before it.                           *)
SafeWhileAcquired ==
    [][pc' = "killed" => pc = "out" \/ (pc = "release" /\ next > 1)]_vars

(* A signal that comes while sr_read waits makes it return. *)
ReadReturns == (pc \in {"check", "empty", "suspended"} /\ pending # {}) ~> pc \in {"ready", "killed"}
==============================================================================
