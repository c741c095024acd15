------------------------------ MODULE PipeCapture ------------------------------
(***************************************************************************)
(* run of src/src/fork/run/main.c and the main that calls it: a parent     *)
(* forks a child whose standard output is a pipe, reads the pipe to its    *)
(* end into a buffer that doubles, waits for the child, and prints what it *)
(* collected.  The child executes a command, or falls through the rest of  *)
(* run when execv fails.                                                   *)
(*                                                                         *)
(* A byte is the number of its place in what the command writes.  pipe()   *)
(* and the first malloc are taken to succeed.  realloc may fail; the code  *)
(* says so and then copies to NULL, which kills the parent.                *)
(***************************************************************************)
EXTENDS Integers, Sequences

CONSTANTS OutputLen,   \* bound: how many bytes the command has to write
          PipeSize,    \* bytes a pipe holds before its writer blocks, at least 1
          ReadSize,    \* sizeof(data), at least 1
          FirstSize    \* the first capacity, at least ReadSize (4096 both)

VARIABLES pipe,        \* bytes written and not yet read
          write_end,   \* the processes that have the write end of the pipe open
          child,       \* where the child is
          written,     \* how many bytes the command has written
          parent,      \* where the parent is
          output,      \* output.data, up to output.size
          capacity,    \* the size of the block output.data points to
          status       \* the exit status of main

vars == <<pipe, write_end, child, written, parent, output, capacity, status>>

childVars == <<child, written>>
parentVars == <<parent, output, capacity, status>>

SmallerOf(a, b) == IF a < b THEN a ELSE b

Init ==
    /\ pipe = <<>>
    /\ write_end = {"parent"}
    /\ child = "none"
    /\ written = 0
    /\ parent = "fork"
    /\ output = <<>>
    /\ capacity = 0
    /\ status = "running"

-------------------------------------------------------------------------------
(***************************************************************************)
(* The parent.                                                             *)
(***************************************************************************)
Fork ==
    /\ parent = "fork"
    /\ parent' = "close"
    /\ child' = "born"
    /\ write_end' = write_end \cup {"child"}
    /\ UNCHANGED <<pipe, written, output, capacity, status>>

(* pid is -1, which is not 0: the parent goes on as if it had a child. *)
ForkFails ==
    /\ parent = "fork"
    /\ parent' = "close"
    /\ UNCHANGED <<pipe, write_end, childVars, output, capacity, status>>

(* Mutation: close(fd[1]) is missing. *)
CloseNothing ==
    /\ parent = "close"
    /\ capacity' = FirstSize
    /\ parent' = "read"
    /\ UNCHANGED <<pipe, write_end, childVars, output, status>>

CloseWriteEnd ==
    /\ parent = "close"
    /\ write_end' = write_end \ {"parent"}
    /\ capacity' = FirstSize
    /\ parent' = "read"
    /\ UNCHANGED <<pipe, childVars, output, status>>

(* The bytes one read takes from a pipe that holds some. *)
Taken == SmallerOf(Len(pipe), ReadSize)

Fits(n) == n + Len(output) <= capacity

(* Mutation: a read that does not fill data is taken for the last one. *)
ReadFitsOrStop ==
    /\ parent = "read"
    /\ pipe # <<>>
    /\ Fits(Taken)
    /\ output' = output \o SubSeq(pipe, 1, Taken)
    /\ pipe' = SubSeq(pipe, Taken + 1, Len(pipe))
    /\ parent' = IF Taken < ReadSize THEN "wait" ELSE "read"
    /\ UNCHANGED <<write_end, childVars, capacity, status>>

ReadFits ==
    /\ parent = "read"
    /\ pipe # <<>>
    /\ Fits(Taken)
    /\ output' = output \o SubSeq(pipe, 1, Taken)
    /\ pipe' = SubSeq(pipe, Taken + 1, Len(pipe))
    /\ UNCHANGED <<write_end, childVars, parent, capacity, status>>

(* The first capacity * 2^k that the bytes fit in, less than twice as many. *)
Grown(n) ==
    CHOOSE c \in n + Len(output) .. 2 * (n + Len(output)) - 1 :
        \E k \in 1 .. n + Len(output) : c = capacity * 2^k

ReadGrows ==
    /\ parent = "read"
    /\ pipe # <<>>
    /\ ~Fits(Taken)
    /\ capacity' = Grown(Taken)
    /\ output' = output \o SubSeq(pipe, 1, Taken)
    /\ pipe' = SubSeq(pipe, Taken + 1, Len(pipe))
    /\ UNCHANGED <<write_end, childVars, parent, status>>

(* realloc returns NULL, and memcpy writes there. *)
ReallocFails ==
    /\ parent = "read"
    /\ pipe # <<>>
    /\ ~Fits(Taken)
    /\ parent' = "gone"
    /\ status' = "killed"
    /\ write_end' = write_end \ {"parent"}
    /\ UNCHANGED <<pipe, childVars, output, capacity>>

ReadEnd ==
    /\ parent = "read"
    /\ pipe = <<>>
    /\ write_end = {}
    /\ parent' = "wait"
    /\ UNCHANGED <<pipe, write_end, childVars, output, capacity, status>>

(* wait(NULL) returns at once where there is no child. *)
Wait ==
    /\ parent = "wait"
    /\ child \in {"none", "zombie"}
    /\ child' = IF child = "zombie" THEN "reaped" ELSE child
    /\ parent' = "print"
    /\ UNCHANGED <<pipe, write_end, written, output, capacity, status>>

(* main's one write takes some of the bytes and then counts as a success,  *)
(* or it fails.  A write of no bytes counts as a failure.                  *)
PrintOutput ==
    /\ parent = "print"
    /\ status' \in IF output # <<>> THEN {"0", "-1"} ELSE {"-1"}
    /\ parent' = "gone"
    /\ UNCHANGED <<pipe, write_end, childVars, output, capacity>>

-------------------------------------------------------------------------------
(***************************************************************************)
(* The child.  Once it has duplicated the write end and closed the two     *)
(* descriptors of the pipe, its standard output is all it holds of it.     *)
(***************************************************************************)
Exec ==
    /\ child = "born"
    /\ child' = "command"
    /\ UNCHANGED <<pipe, write_end, written, parentVars>>

(* execv returns.  The child goes on in run: its read of fd[0], which it   *)
(* has closed, fails, wait finds no child, and main's write of no bytes    *)
(* leaves the pipe as it is.                                               *)
ExecFails ==
    /\ child = "born"
    /\ child' = "zombie"
    /\ write_end' = write_end \ {"child"}
    /\ UNCHANGED <<pipe, written, parentVars>>

(* The command writes as much as there is room for. *)
CommandWrites ==
    /\ child = "command"
    /\ parent # "gone"
    /\ \E n \in 1 .. SmallerOf(OutputLen - written, PipeSize - Len(pipe)) :
          /\ pipe' = pipe \o [i \in 1 .. n |-> written + i]
          /\ written' = written + n
    /\ UNCHANGED <<write_end, child, parentVars>>

(* The command exits once it has written everything, or gets SIGPIPE     *)
(* because the parent is gone ...                                          *)
CommandEnds ==
    /\ child = "command"
    /\ written = OutputLen \/ parent = "gone"
    /\ child' = "zombie"
    /\ write_end' = write_end \ {"child"}
    /\ UNCHANGED <<pipe, written, parentVars>>

(* ... or it is killed or gives up earlier.                                *)
CommandDies ==
    /\ child = "command"
    /\ written < OutputLen
    /\ child' = "zombie"
    /\ write_end' = write_end \ {"child"}
    /\ UNCHANGED <<pipe, written, parentVars>>

-------------------------------------------------------------------------------
Parent == \/ Fork \/ ForkFails \/ CloseWriteEnd \/ ReadFits \/ ReadGrows
          \/ ReallocFails \/ ReadEnd \/ Wait \/ PrintOutput

Child == Exec \/ ExecFails \/ CommandWrites \/ CommandEnds \/ CommandDies

Next == Parent \/ Child

Spec == Init /\ [][Next]_vars

(* The kernel runs both processes, and a command that can write or has     *)
(* written everything does go on; nobody has to kill it.                   *)
ChildGoesOn == Exec \/ ExecFails \/ CommandWrites \/ CommandEnds

FairSpec == Spec /\ WF_vars(Parent) /\ WF_vars(ChildGoesOn)

-------------------------------------------------------------------------------
(***************************************************************************)
(* Properties.                                                             *)
(***************************************************************************)

(* What the command has written, in order. *)
Written == [i \in 1 .. written |-> i]

(* Every variable keeps to its type; the pipe never holds more than it     *)
(* can.                                                                    *)
TypeOK ==
    /\ pipe \in Seq(1 .. OutputLen) /\ Len(pipe) <= PipeSize
    /\ write_end \subseteq {"parent", "child"}
    /\ child \in {"none", "born", "command", "zombie", "reaped"}
    /\ written \in 0 .. OutputLen
    /\ parent \in {"fork", "close", "read", "wait", "print", "gone"}
    /\ output \in Seq(1 .. OutputLen) /\ capacity \in Nat
    /\ status \in {"running", "killed", "0", "-1"}

(* The bytes collected and those still in the pipe are, in order, the      *)
(* bytes the command has written: growing the buffer loses none.           *)
NothingLost == output \o pipe = Written

(* When run returns, the child it forked has ended and been waited for,    *)
(* and its whole output is in the buffer: a short read is not the end.     *)
WholeOutput ==
    parent = "print" => child \in {"none", "reaped"} /\ output = Written

(* The bytes stay inside their block, which is never more than one         *)
(* doubling larger than they need.                                         *)
BufferFits ==
    /\ Len(output) <= capacity
    /\ capacity > FirstSize => capacity < 2 * Len(output)

(* What run promises its caller: whatever the reads cut the output into,   *)
(* however often the buffer grows and whichever call fails, it collects    *)
(* the command's whole output, in order, inside the block it has.          *)
CaptureSafety == TypeOK /\ NothingLost /\ WholeOutput /\ BufferFits

(* What keeps it from step to step: which processes can still write, and   *)
(* that the parent waits only once nobody can and the pipe is empty.       *)
IInv ==
    /\ TypeOK /\ NothingLost /\ BufferFits
    /\ "child" \in write_end <=> child \in {"born", "command"}
    /\ parent = "fork" => child = "none"
    /\ parent \in {"fork", "close"} => output = <<>>
    /\ parent = "read" => capacity >= FirstSize
    /\ parent \in {"wait", "print"} => pipe = <<>> /\ write_end = {}
    /\ parent = "print" => child \in {"none", "reaped"}

(* The parent finishes, though the command may have to write more than the *)
(* pipe holds and the parent reads until every write end is closed.        *)
Finishes == <>(parent = "gone")
==============================================================================
