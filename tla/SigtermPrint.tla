----------------------------- MODULE SigtermPrint -----------------------------
(***************************************************************************)
(* The two printers of SIGTERM from the point where they have set their    *)
(* handler: src/src/signal/sigterm_print/main.c blocks the signal except   *)
(* in sigsuspend, and src/src/signal/sigterm_print_naive/main.c spins on   *)
(* received with the signal let through.                                   *)
(***************************************************************************)
EXTENDS Integers

CONSTANT MaxSends  \* bound: how often somebody sends the signal

VARIABLES naive,     \* which of the two it is
          at,        \* where main is
          blocked, pending,
          received,  \* as in the code
          sent,
          owed       \* a signal has come and no "received" was printed since

vars == <<naive, at, blocked, pending, received, sent, owed>>

Init ==
    /\ naive \in BOOLEAN
    /\ at = IF naive THEN "test" ELSE "mask"
    /\ blocked = FALSE /\ pending = FALSE /\ received = FALSE
    /\ sent = 0
    /\ owed = FALSE

Goes(from, to) == at = from /\ at' = to

-------------------------------------------------------------------------------
(* A signal before the mask is set is not counted as owed: see TermSafety. *)
Send ==
    /\ sent < MaxSends
    /\ sent' = sent + 1
    /\ pending' = TRUE
    /\ owed' = (owed \/ at # "mask")
    /\ UNCHANGED <<naive, at, blocked, received>>

(* handler.  It ends a sigsuspend, which sets the mask back; in the naive  *)
(* program it interrupts a sleep, which main begins again.                 *)
Handle ==
    /\ pending /\ ~blocked
    /\ pending' = FALSE /\ received' = TRUE
    /\ IF at = "suspended" THEN blocked' = TRUE /\ at' = "test"
                           ELSE UNCHANGED <<blocked, at>>
    /\ UNCHANGED <<naive, sent, owed>>

Mask ==
    /\ Goes("mask", "suspend")
    /\ blocked' = TRUE
    /\ UNCHANGED <<naive, pending, received, sent, owed>>

Suspend ==
    /\ Goes("suspend", "suspended")
    /\ blocked' = FALSE
    /\ UNCHANGED <<naive, pending, received, sent, owed>>

(* if (received): the spin goes on until it is. *)
Test ==
    /\ received
    /\ Goes("test", "reset")
    /\ UNCHANGED <<naive, blocked, pending, received, sent, owed>>

(* Mutation: received is reset when the line has been printed. *)
ResetLate ==
    /\ \/ Goes("reset", "print") /\ UNCHANGED received
       \/ Goes("sleep", "sleep") /\ received' = FALSE
    /\ UNCHANGED <<naive, blocked, pending, sent, owed>>

Reset ==
    /\ Goes("reset", "print")
    /\ received' = FALSE
    /\ UNCHANGED <<naive, blocked, pending, sent, owed>>

(* A signal that is still pending is owed a line of its own. *)
PrintReceived ==
    /\ Goes("print", "sleep")
    /\ owed' = pending
    /\ UNCHANGED <<naive, blocked, pending, received, sent>>

Sleep ==
    /\ Goes("sleep", IF naive THEN "test" ELSE "suspend")
    /\ UNCHANGED <<naive, blocked, pending, received, sent, owed>>

-------------------------------------------------------------------------------
Main == Mask \/ Suspend \/ Test \/ Reset \/ PrintReceived \/ Sleep

Next == Send \/ Handle \/ Main

-------------------------------------------------------------------------------
(***************************************************************************)
(* Properties.                                                             *)
(***************************************************************************)

(* With sigsuspend the handler, which calls printf, never runs in a printf *)
(* of main, and main does not sleep over a signal that it owes a line,     *)
(* unless it came before the mask was set.                                 *)
TermSafety ==
    ~naive =>
        /\ at \notin {"mask", "suspended"} => blocked
        /\ at = "suspended" /\ owed => pending

(* What keeps it from step to step: from the line that is printed to the   *)
(* next handler, what is owed is pending.                                  *)
IInv ==
    /\ at \in {"mask", "suspend", "suspended", "test", "reset", "print", "sleep"}
    /\ {naive, blocked, pending, owed} \subseteq BOOLEAN
    /\ ~naive =>
          /\ blocked <=> at \notin {"mask", "suspended"}
          /\ at = "mask" => ~owed
          /\ at \in {"sleep", "suspend", "suspended"} /\ owed => pending

(* Every signal that comes once the mask is set, or at any time where      *)
(* there is none, is followed by a line.                                   *)
TermReported == owed ~> ~owed
==============================================================================
