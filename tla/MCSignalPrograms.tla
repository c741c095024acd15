---------------------------- MODULE MCSignalPrograms ----------------------------
(***************************************************************************)
(* The programs that wait for signals and descriptors: the signal reader,  *)
(* ping-pong, the two printers of SIGTERM and the loops of primitives.  A  *)
(* run starts one of them; the variables of the others stay as their Init  *)
(* makes them.                                                             *)
(***************************************************************************)
EXTENDS SigReader, Sequences

CONSTANTS LastNumber, Pid1, Pid2,                         \* of PingPong
          MaxSends,                                       \* of SigtermPrint
          Initial, Added, Reads, Slept, Items, Rooms, Opens, Limits,
          MaxTicks                                        \* of Primitives

ASSUME BoundsAssumption ==
    /\ {LastNumber, MaxSends, Initial, Added, Reads, Slept, Items, Opens, MaxTicks}
          \cup Rooms \cup Limits \subseteq Nat
    /\ {Pid1, Pid2} \subseteq Nat \ {0} /\ Pid1 # Pid2

VARIABLES program,  \* which one runs
          main_pc, pipe, turn_pending, turn_pc, pid, v, lines,
          naive, term_at, term_blocked, term_pending, received, sent, owed,
          loop, at, count, room, ticks, edge, i, sum

Turns == INSTANCE PingPong WITH
            n <- LastNumber, PidOf <- <<Pid1, Pid2>>,
            pending <- turn_pending, pc <- turn_pc, printed <- lines

Term == INSTANCE SigtermPrint WITH
            at <- term_at, blocked <- term_blocked, pending <- term_pending

Loops == INSTANCE Primitives

readerVars == vars
turnVars == <<main_pc, pipe, turn_pending, turn_pc, pid, v, lines>>
termVars == <<naive, term_at, term_blocked, term_pending, received, sent, owed>>
loopVars == <<loop, at, count, room, ticks, edge, i, sum>>
allVars == <<program, readerVars, turnVars, termVars, loopVars>>

AnyInit ==
    /\ program \in {"sigreader", "ping-pong", "sigterm", "primitives"}
    /\ Init
    /\ Turns!Init
    /\ (program = "sigterm" \/ naive = TRUE) /\ Term!Init
    /\ (program = "primitives" \/ loop = "poll") /\ Loops!Init

(* Program p takes a step, and the others none. *)
Only(p) ==
    /\ program = p /\ UNCHANGED program
    /\ IF p = "sigreader" THEN TRUE ELSE UNCHANGED readerVars
    /\ IF p = "ping-pong" THEN TRUE ELSE UNCHANGED turnVars
    /\ IF p = "sigterm" THEN TRUE ELSE UNCHANGED termVars
    /\ IF p = "primitives" THEN TRUE ELSE UNCHANGED loopVars

AnyNext ==
    \/ Only("sigreader") /\ Next
    \/ Only("ping-pong") /\ Turns!Next
    \/ Only("sigterm") /\ Term!Next
    \/ Only("primitives") /\ Loops!Next

AnySpec == AnyInit /\ [][AnyNext]_allVars

(* The kernel delivers what is not blocked and runs every process, which   *)
(* goes on inside a call of the signal reader; whether it calls again is   *)
(* its own affair.                                                         *)
AnyFairSpec ==
    /\ AnySpec
    /\ WF_allVars(Only("sigreader") /\ Deliver)
    /\ WF_allVars(Only("sigreader") /\ AcquireHandler)
    /\ WF_allVars(Only("sigreader") /\ ReadGoesOn)
    /\ WF_allVars(Only("sigreader") /\ ReleaseDefault)
    /\ WF_allVars(Only("ping-pong") /\ Turns!MainStep)
    /\ \A c \in Turns!Id : WF_allVars(Only("ping-pong") /\ Turns!ChildStep(c))
    /\ WF_allVars(Only("sigterm") /\ Term!Handle)
    /\ WF_allVars(Only("sigterm") /\ Term!Main)
    /\ WF_allVars(Only("primitives") /\ Loops!Program)

-------------------------------------------------------------------------------
(* The children of ping-pong print in order, and what each takes out of    *)
(* the pipe they share is what was meant for it.                           *)
TurnsSafety == Turns!TurnsSafety

(* No event is lost between the program and the kernel: sigterm_print does *)
(* not sleep over a signal that came once its mask was set, and no count   *)
(* of the timer and no number in the pipe stays without a report.          *)
ReportsKept ==
    /\ program = "sigterm" => Term!TermSafety
    /\ program = "primitives" => Loops!NothingUnreported

(* Ping-pong prints everything and ends, unless a child is missing; every  *)
(* signal to the printers is followed by a line; and the loops around      *)
(* descriptors take all they were given, and there they stay.              *)
SignalsEnd ==
    /\ program = "ping-pong" => Turns!Finishes
    /\ program = "sigterm" => Term!TermReported
    /\ program = "primitives" => Loops!ComesToRest
==============================================================================
