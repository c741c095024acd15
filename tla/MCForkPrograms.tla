---------------------------- MODULE MCForkPrograms ----------------------------
(***************************************************************************)
(* The programs that fork: the divisor finder, the ring of eventfds, run   *)
(* with the command it captures, pipe-send, the recursive fork, map, the   *)
(* timer of processes and the shared word.  A run starts one of them; the  *)
(* variables of the others stay as their Init makes them.                  *)
(***************************************************************************)
EXTENDS Divisors, Sequences

CONSTANTS RingSize, RingLimit,                            \* of EvfdSync
          OutputLen, CapturePipeSize, ReadSize, FirstSize,  \* of PipeCapture
          InputLen, SendPipeSize, BufSize,                  \* of PipeSend
          N,                                                \* of RecursiveFork
          Lines, Batch,                                     \* of MapLines
          MaxSteps,                                         \* of ForkTimer
          Number, MaxNumbers                                \* of SharedWord

ASSUME BoundsAssumption ==
    /\ {RingLimit, OutputLen, InputLen, N, Lines, MaxSteps, MaxNumbers} \cup Number \subseteq Nat
    /\ {RingSize, CapturePipeSize, ReadSize, FirstSize, SendPipeSize, BufSize, Batch}
          \subseteq Nat \ {0}
    /\ ReadSize <= FirstSize

VARIABLES program,  \* which one runs
          ring_main, ring_forks, ring_pc, ring_efd, ring_x, ring_printed, ring_reaped,
          pipe, write_end, child, written, parent, output, capacity, status,
          read_in, send_pipe, read_end, send_write_end, send_pc, buf, redirected,
          stdio, send_output, output_open,
          chain_at, buffer, stdout,
          found, seekable, reaped, offset, last, unread, line, map_at, map_child, ran,
          timer_reaped, timer_at, counter, timer_child, steps, reports,
          mem, word_child, left, word_at, new_value, last_value, shown

Ring == INSTANCE EvfdSync WITH
            THREADS <- RingSize, N <- RingLimit, main_pc <- ring_main,
            forks <- ring_forks, pc <- ring_pc, efd <- ring_efd, x <- ring_x,
            printed <- ring_printed, reaped <- ring_reaped

Capture == INSTANCE PipeCapture WITH PipeSize <- CapturePipeSize

Send == INSTANCE PipeSend WITH
            PipeSize <- SendPipeSize, pipe <- send_pipe, pc <- send_pc,
            write_end <- send_write_end, output <- send_output

Chain == INSTANCE RecursiveFork WITH at <- chain_at

Map == INSTANCE MapLines WITH at <- map_at, child <- map_child

Timer == INSTANCE ForkTimer WITH
             reaped <- timer_reaped, at <- timer_at, child <- timer_child

Word == INSTANCE SharedWord WITH at <- word_at, child <- word_child

divisorVars == vars
ringVars == <<ring_main, ring_forks, ring_pc, ring_efd, ring_x, ring_printed, ring_reaped>>
captureVars == <<pipe, write_end, child, written, parent, output, capacity, status>>
sendVars == <<read_in, send_pipe, read_end, send_write_end, send_pc, buf, redirected,
              stdio, send_output, output_open>>
chainVars == <<chain_at, buffer, stdout>>
mapVars == <<found, seekable, reaped, offset, last, unread, line, map_at, map_child, ran>>
timerVars == <<timer_reaped, timer_at, counter, timer_child, steps, reports>>
wordVars == <<mem, word_child, left, word_at, new_value, last_value, shown>>
allVars == <<program, divisorVars, ringVars, captureVars, sendVars, chainVars, mapVars, timerVars,
             wordVars>>

AnyInit ==
    /\ program \in {"divisors", "ring", "run", "pipe-send", "recursive", "map", "timer",
                   "word"}
    /\ (program = "divisors" \/ pc = [i \in Id |-> "read"]) /\ Init
    /\ Ring!Init
    /\ Capture!Init
    /\ Send!Init
    /\ Chain!Init
    /\ (program = "map" \/ (found = TRUE /\ seekable = TRUE /\ reaped = TRUE)) /\ Map!Init
    /\ (program = "timer" \/ timer_reaped = TRUE) /\ Timer!Init
    /\ (program = "word" \/ word_child = "scan") /\ Word!Init

(* Program p takes a step, and the others none. *)
Only(p) ==
    /\ program = p /\ UNCHANGED program
    /\ IF p = "divisors" THEN TRUE ELSE UNCHANGED divisorVars
    /\ IF p = "ring" THEN TRUE ELSE UNCHANGED ringVars
    /\ IF p = "run" THEN TRUE ELSE UNCHANGED captureVars
    /\ IF p = "pipe-send" THEN TRUE ELSE UNCHANGED sendVars
    /\ IF p = "recursive" THEN TRUE ELSE UNCHANGED chainVars
    /\ IF p = "map" THEN TRUE ELSE UNCHANGED mapVars
    /\ IF p = "timer" THEN TRUE ELSE UNCHANGED timerVars
    /\ IF p = "word" THEN TRUE ELSE UNCHANGED wordVars

AnyNext ==
    \/ Only("divisors") /\ Next
    \/ Only("ring") /\ Ring!Next
    \/ Only("run") /\ Capture!Next
    \/ Only("pipe-send") /\ Send!Next
    \/ Only("recursive") /\ Chain!Next
    \/ Only("map") /\ Map!Next
    \/ Only("timer") /\ Timer!Next
    \/ Only("word") /\ Word!Next

AnySpec == AnyInit /\ [][AnyNext]_allVars

(* The kernel runs every process. *)
AnyFairSpec ==
    /\ AnySpec
    /\ WF_allVars(Only("divisors") /\ MainStep)
    /\ \A i \in Id : WF_allVars(Only("divisors") /\ ChildStep(i))
    /\ WF_allVars(Only("ring") /\ Ring!MainStep)
    /\ \A i \in Ring!Id : WF_allVars(Only("ring") /\ Ring!ChildStep(i))
    /\ WF_allVars(Only("run") /\ Capture!Parent)
    /\ WF_allVars(Only("run") /\ Capture!ChildGoesOn)
    /\ WF_allVars(Only("pipe-send") /\ Send!Parent)
    /\ WF_allVars(Only("pipe-send") /\ Send!Child)
    /\ \A p \in Chain!Process : WF_allVars(Only("recursive") /\ Chain!Step(p))
    /\ WF_allVars(Only("map") /\ Map!Main)
    /\ WF_allVars(Only("map") /\ Map!Child)
    /\ WF_allVars(Only("word") /\ Word!Parent)

-------------------------------------------------------------------------------
(* The children of the ring have one number between them and print it in   *)
(* turn, as far as the forks have made them.                               *)
RingSafety == Ring!RingSafety

(* run collects the command's whole output, in order, inside its buffer. *)
CaptureSafety == Capture!CaptureSafety

(* pipe-send copies its input in order, once and, when the child sees the  *)
(* end of the pipe, completely; only the message of the parent's dup2, for *)
(* which success is an error, may follow it.                               *)
CopySafety == Send!CopySafety

(* The processes that hand on a loop, a line or a step keep the order: the *)
(* chain prints each number once, and its first process ends last; map     *)
(* runs its command with each line once and never skips one, although its  *)
(* children share the offset of stdin; and each step of the timer has its  *)
(* number and its own report.                                              *)
CommandsSafety ==
    /\ program = "recursive" => Chain!ChainSafety
    /\ program = "map" => Map!MapSafety
    /\ program = "timer" => Timer!TimerSafety

(* The programs come to their end: the divisor finder answers every number *)
(* but 0 and the ring prints every number if they have their children,     *)
(* neither the parent of run nor a process of pipe-send waits for the end  *)
(* of a pipe that somebody still holds open, the chain is printed, map     *)
(* ends unless its children turn it back, and a number that stays in the   *)
(* shared word is shown.                                                   *)
ProgramsEnd ==
    /\ program = "divisors" => AnsweredUnlessZero
    /\ program = "ring" => Ring!FinishesIfForked
    /\ program = "run" => Capture!Finishes
    /\ program = "pipe-send" => Send!BothEnd
    /\ program = "recursive" => Chain!AllPrinted
    /\ program = "map" => Map!MapEnds
    /\ program = "word" => Word!LastIsShown
==============================================================================
