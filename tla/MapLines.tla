------------------------------- MODULE MapLines -------------------------------
(***************************************************************************)
(* src/src/fork/map/main.c: for each line of stdin a child executes the    *)
(* command with the line for its {}, and main waits for it.                *)
(*                                                                         *)
(* getline takes lines from a buffer of stdin, which a read fills with up  *)
(* to Batch of them.  The child has a copy of the buffer and shares the    *)
(* offset of the descriptor.  When its exec fails it leaves the loop and   *)
(* exits, and exit sets the offset of a file back by what is unread in the *)
(* child's buffer, if that is not before the beginning.  The lines have    *)
(* one length here, so that an offset is a number of lines.                *)
(***************************************************************************)
EXTENDS Integers, Sequences

CONSTANTS Lines, Batch

VARIABLES found,     \* the command can be executed
          seekable,  \* stdin is a file
          reaped,    \* SIGCHLD is ignored: waitpid returns -1 once the child is gone
          offset,    \* how many lines have been read from stdin
          last,      \* the last line in main's buffer, and
          unread,    \* how many of its lines getline has not taken
          line, at,  \* main's line, and where it is
          child,     \* where its child is
          ran        \* the lines with which the command was executed

vars == <<found, seekable, reaped, offset, last, unread, line, at, child, ran>>
given == <<found, seekable, reaped>>

Init ==
    /\ found \in BOOLEAN /\ seekable \in BOOLEAN /\ reaped \in BOOLEAN
    /\ offset = 0 /\ last = 0 /\ unread = 0 /\ line = 0
    /\ at = "getline" /\ child = "none"
    /\ ran = <<>>

FirstOf(a, b) == IF a < b THEN a ELSE b

-------------------------------------------------------------------------------
(***************************************************************************)
(* getline, and its end of file.                                           *)
(***************************************************************************)
Fill ==
    /\ at = "getline" /\ unread = 0 /\ offset < Lines
    /\ unread' = FirstOf(Batch, Lines - offset)
    /\ offset' = offset + unread' /\ last' = offset + unread'
    /\ UNCHANGED <<given, line, at, child, ran>>

GetLine ==
    /\ at = "getline" /\ unread > 0
    /\ line' = last - unread + 1
    /\ unread' = unread - 1
    /\ at' = "fork"
    /\ UNCHANGED <<given, offset, last, child, ran>>

EndOfFile ==
    /\ at = "getline" /\ unread = 0 /\ offset = Lines
    /\ at' = "ended"
    /\ UNCHANGED <<given, offset, last, unread, line, child, ran>>

Fork ==
    /\ at = "fork"
    /\ at' = "wait" /\ child' = "exec"
    /\ UNCHANGED <<given, offset, last, unread, line, ran>>

ForkFails ==
    /\ at = "fork"
    /\ at' = "failed"
    /\ UNCHANGED <<given, offset, last, unread, line, child, ran>>

(* Mutation: main does not wait for the child. *)
WaitNever ==
    /\ at = "wait"
    /\ at' = "getline"
    /\ UNCHANGED <<given, offset, last, unread, line, child, ran>>

(* waitpid, which is -1 where the child could not be waited for *)
Wait ==
    /\ at = "wait" /\ child = "exited"
    /\ at' = IF reaped THEN "failed" ELSE "getline"
    /\ UNCHANGED <<given, offset, last, unread, line, child, ran>>

-------------------------------------------------------------------------------
(***************************************************************************)
(* The child.  The command does not read stdin.                            *)
(***************************************************************************)
Exec ==
    /\ child = "exec" /\ found
    /\ ran' = Append(ran, line)
    /\ child' = "exited"
    /\ UNCHANGED <<given, offset, last, unread, line, at>>

(* The error, break and return 0. *)
ExecFails ==
    /\ child = "exec" /\ ~found
    /\ offset' = IF seekable /\ unread <= offset THEN offset - unread ELSE offset
    /\ child' = "exited"
    /\ UNCHANGED <<given, last, unread, line, at, ran>>

-------------------------------------------------------------------------------
Main == Fill \/ GetLine \/ EndOfFile \/ Fork \/ ForkFails \/ Wait
Child == Exec \/ ExecFails

Next == Main \/ Child

-------------------------------------------------------------------------------
(***************************************************************************)
(* Properties.                                                             *)
(***************************************************************************)

(* The command runs with the lines in order, each once, and with all of    *)
(* them unless a fork failed or main could not wait for the first child.   *)
(* Where it cannot be executed lines may be read again, but the offset     *)
(* never gets ahead, where a line would be skipped.                        *)
MapSafety ==
    /\ \A k \in 1 .. Len(ran) : ran[k] = k
    /\ at = "ended" /\ found => Len(ran) = Lines
    /\ at = "failed" /\ found /\ reaped => Len(ran) <= 1
    /\ offset <= last

(* What keeps it from step to step: what runs of the lines that getline    *)
(* has taken, last - unread of them.                                       *)
Taken == last - unread

IInv ==
    /\ {found, seekable, reaped} \subseteq BOOLEAN
    /\ last \in 0 .. Lines /\ unread \in 0 .. last /\ offset \in 0 .. last
    /\ ran \in Seq(Nat) /\ line \in Nat
    /\ at \in {"getline", "fork", "wait", "ended", "failed"}
    /\ child \in {"none", "exec", "exited"}
    /\ \A k \in 1 .. Len(ran) : ran[k] = k
    /\ child = "exec" => at = "wait" /\ (found => Len(ran) = Taken - 1)
    /\ IF ~found THEN ran = <<>> ELSE
          /\ offset = last
          /\ at \in {"fork", "wait"} => line = Taken /\ Taken > 0
          /\ at = "getline" => Len(ran) = Taken
          /\ at = "fork" => Len(ran) = Taken - 1
          /\ at = "wait" /\ child # "exec" => Len(ran) = Taken
          /\ at = "ended" => Len(ran) = Lines
          /\ reaped /\ at \in {"getline", "fork"} => ran = <<>>
          /\ reaped /\ (at = "failed" \/ child = "exited") => Len(ran) <= 1
          /\ reaped /\ at = "wait" => Len(ran) <= 1
          /\ reaped /\ child = "exec" => ran = <<>>

(* Main comes to its end, unless the children of a command that cannot be  *)
(* executed go on setting the offset of a file back.                       *)
MapEnds ==
    <>(at \in {"ended", "failed"}) \/ (~found /\ seekable /\ []<>(at = "wait"))
==============================================================================
