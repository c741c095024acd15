------------------------------- MODULE PipeSend -------------------------------
(***************************************************************************)
(* src/src/fork/pipe-send/main.c: a parent and a child joined by a pipe.   *)
(* Both run the same copying loop: the parent from its standard input into *)
(* the pipe, the child from the pipe to the standard output they were      *)
(* started with.                                                           *)
(*                                                                         *)
(* A byte is the number of its place on the parent's standard input, and   *)
(* Message stands for the text "dup2 error: ..." that check_result prints. *)
(* What stdio prints waits in a buffer until the process exits, because    *)
(* by then the parent's standard output is the pipe.  pipe() is taken to   *)
(* succeed.                                                                *)
(***************************************************************************)
EXTENDS Integers, Sequences

CONSTANTS InputLen,   \* bound: how many bytes the standard input has
          BufSize,    \* sizeof(buf), at least 1
          PipeSize    \* bytes a pipe holds before its writer blocks, at least 1

Message == 0
Process == {"parent", "child"}

VARIABLES read_in,     \* how many bytes the parent has read
          pipe,        \* what is in the pipe
          read_end,    \* the processes that have its read end open
          write_end,   \* the processes that have its write end open
          pc,          \* where each process is
          buf,         \* what is left of each process's buf to write
          redirected,  \* the processes whose dup2 succeeded
          stdio,       \* what each process has printed and not yet flushed
          output,      \* what has arrived on the standard output
          output_open  \* FALSE: the standard output no longer takes anything

vars == <<read_in, pipe, read_end, write_end, pc, buf, redirected, stdio, output,
          output_open>>

SmallerOf(a, b) == IF a < b THEN a ELSE b
Drop(s, n) == SubSeq(s, n + 1, Len(s))
Goto(p, label) == pc' = [pc EXCEPT ![p] = label]

Init ==
    /\ read_in = 0
    /\ pipe = <<>>
    /\ read_end = {"parent"} /\ write_end = {"parent"}
    /\ pc = [p \in Process |-> IF p = "parent" THEN "fork" ELSE "none"]
    /\ buf = [p \in Process |-> <<>>]
    /\ redirected = {}
    /\ stdio = [p \in Process |-> <<>>]
    /\ output = <<>>
    /\ output_open = TRUE

-------------------------------------------------------------------------------
(* The child inherits both ends of the pipe. *)
Fork ==
    /\ pc["parent"] = "fork"
    /\ pc' = [p \in Process |-> "redirect"]
    /\ read_end' = Process /\ write_end' = Process
    /\ UNCHANGED <<read_in, pipe, buf, redirected, stdio, output, output_open>>

(* child is -1, which is not 0: the parent goes on as if it had a child. *)
ForkFails ==
    /\ pc["parent"] = "fork"
    /\ Goto("parent", "redirect")
    /\ UNCHANGED <<read_in, pipe, read_end, write_end, buf, redirected, stdio,
                   output, output_open>>

(* What check_result(dup2(...) - 1, "dup2") prints, by what dup2 returned: *)
(* STDOUT_FILENO is 1, so the parent's flag is 0 when dup2 succeeds.       *)
CheckDup2(res) == IF res - 1 = 0 THEN <<Message>> ELSE <<>>

(* The end of the pipe that replaces a standard descriptor of the process. *)
Keeps(end, p) == p = (IF end = "write" THEN "parent" ELSE "child")

(* The child puts the read end in place of its standard input, the parent  *)
(* the write end in place of its standard output, and both close the two   *)
(* descriptors they had.                                                   *)
Redirect(p) ==
    /\ pc[p] = "redirect"
    /\ read_end' = IF Keeps("read", p) THEN read_end ELSE read_end \ {p}
    /\ write_end' = IF Keeps("write", p) THEN write_end ELSE write_end \ {p}
    /\ stdio' = [stdio EXCEPT ![p] = @ \o CheckDup2(IF p = "parent" THEN 1 ELSE 0)]
    /\ redirected' = redirected \cup {p}
    /\ Goto(p, "copy")
    /\ UNCHANGED <<read_in, pipe, buf, output, output_open>>

(* dup2 returns -1: the process has neither its old descriptor nor the new *)
(* one.                                                                    *)
RedirectFails(p) ==
    /\ pc[p] = "redirect"
    /\ read_end' = read_end \ {p}
    /\ write_end' = write_end \ {p}
    /\ stdio' = [stdio EXCEPT ![p] = @ \o CheckDup2(-1)]
    /\ Goto(p, "copy")
    /\ UNCHANGED <<read_in, pipe, buf, redirected, output, output_open>>

-------------------------------------------------------------------------------
(***************************************************************************)
(* The copying loop: read(STDIN_FILENO, buf, sizeof(buf)), and then        *)
(* ensure_write until nothing of it is left.                               *)
(***************************************************************************)
Reading(p) == pc[p] = "copy" /\ buf[p] = <<>>

(* A read of the standard input brings as many bytes as are there yet. *)
ParentReads ==
    /\ Reading("parent")
    /\ \E n \in 1 .. SmallerOf(BufSize, InputLen - read_in) :
          /\ buf' = [buf EXCEPT !["parent"] = [i \in 1 .. n |-> read_in + i]]
          /\ read_in' = read_in + n
    /\ UNCHANGED <<pipe, read_end, write_end, pc, redirected, stdio, output,
                   output_open>>

ChildReads ==
    /\ Reading("child")
    /\ "child" \in redirected
    /\ pipe # <<>>
    /\ LET n == SmallerOf(BufSize, Len(pipe))
       IN  /\ buf' = [buf EXCEPT !["child"] = SubSeq(pipe, 1, n)]
           /\ pipe' = Drop(pipe, n)
    /\ UNCHANGED <<read_in, read_end, write_end, pc, redirected, stdio, output,
                   output_open>>

(* Mutation: an empty pipe is taken for an ended one. *)
ReadEndsEarly(p) ==
    /\ Reading(p)
    /\ IF p = "parent" THEN read_in = InputLen
       ELSE "child" \in redirected => pipe = <<>>
    /\ Goto(p, "exit")
    /\ UNCHANGED <<read_in, pipe, read_end, write_end, buf, redirected, stdio,
                   output, output_open>>

(* read returns 0, or -1 because the standard input is closed. *)
ReadEnds(p) ==
    /\ Reading(p)
    /\ IF p = "parent" THEN read_in = InputLen
       ELSE "child" \in redirected => pipe = <<>> /\ write_end = {}
    /\ Goto(p, "exit")
    /\ UNCHANGED <<read_in, pipe, read_end, write_end, buf, redirected, stdio,
                   output, output_open>>

ParentWrites ==
    /\ pc["parent"] = "copy"
    /\ "parent" \in redirected
    /\ read_end # {}
    /\ \E n \in 1 .. SmallerOf(Len(buf["parent"]), PipeSize - Len(pipe)) :
          /\ pipe' = pipe \o SubSeq(buf["parent"], 1, n)
          /\ buf' = [buf EXCEPT !["parent"] = Drop(@, n)]
    /\ UNCHANGED <<read_in, read_end, write_end, pc, redirected, stdio, output,
                   output_open>>

ChildWrites ==
    /\ pc["child"] = "copy"
    /\ output_open
    /\ \E n \in 1 .. Len(buf["child"]) :
          /\ output' = output \o SubSeq(buf["child"], 1, n)
          /\ buf' = [buf EXCEPT !["child"] = Drop(@, n)]
    /\ UNCHANGED <<read_in, pipe, read_end, write_end, pc, redirected, stdio,
                   output_open>>

(* The parent's standard output is closed: write returns -1, break. *)
ParentWriteFails ==
    /\ pc["parent"] = "copy"
    /\ buf["parent"] # <<>>
    /\ "parent" \notin redirected
    /\ Goto("parent", "exit")
    /\ UNCHANGED <<read_in, pipe, read_end, write_end, buf, redirected, stdio,
                   output, output_open>>

Gone(p) ==
    /\ Goto(p, "gone")
    /\ read_end' = read_end \ {p}
    /\ write_end' = write_end \ {p}

(* Nobody reads any more what the process writes: SIGPIPE kills it. *)
KilledByPipe(p) ==
    /\ \/ pc[p] = "copy" /\ buf[p] # <<>>
       \/ pc[p] = "exit" /\ stdio[p] # <<>>
    /\ IF p = "parent" THEN "parent" \in redirected /\ read_end = {} ELSE ~output_open
    /\ Gone(p)
    /\ UNCHANGED <<read_in, pipe, buf, redirected, stdio, output, output_open>>

(* exit flushes what stdio has kept.  The child has never printed anything *)
(* and the parent only onto the pipe.                                      *)
ParentExits ==
    /\ pc["parent"] = "exit"
    /\ stdio["parent"] # <<>> => read_end # {} /\ Len(pipe) < PipeSize
    /\ pipe' = pipe \o stdio["parent"]
    /\ Gone("parent")
    /\ UNCHANGED <<read_in, buf, redirected, stdio, output, output_open>>

ChildExits ==
    /\ pc["child"] = "exit"
    /\ Gone("child")
    /\ UNCHANGED <<read_in, pipe, buf, redirected, stdio, output, output_open>>

(* Whoever reads the standard output goes away. *)
OutputCloses ==
    /\ output_open
    /\ output_open' = FALSE
    /\ UNCHANGED <<read_in, pipe, read_end, write_end, pc, buf, redirected, stdio,
                   output>>

-------------------------------------------------------------------------------
Step(p) ==
    \/ Redirect(p) \/ RedirectFails(p)
    \/ ReadEnds(p)
    \/ KilledByPipe(p)

Parent == Fork \/ ForkFails \/ Step("parent") \/ ParentReads \/ ParentWrites
          \/ ParentWriteFails \/ ParentExits
Child == Step("child") \/ ChildReads \/ ChildWrites \/ ChildExits

Next == Parent \/ Child \/ OutputCloses

Spec == Init /\ [][Next]_vars

(* The kernel runs both processes, and the standard input ends. *)
FairSpec == Spec /\ WF_vars(Parent) /\ WF_vars(Child)

-------------------------------------------------------------------------------
(***************************************************************************)
(* Properties.                                                             *)
(***************************************************************************)
Bytes == Seq(0 .. InputLen)

(* Every variable keeps to its type, each buf and the pipe to its size.    *)
TypeOK ==
    /\ read_in \in 0 .. InputLen
    /\ pipe \in Bytes /\ Len(pipe) <= PipeSize
    /\ read_end \subseteq Process /\ write_end \subseteq Process
    /\ pc \in [Process -> {"none", "fork", "redirect", "copy", "exit", "gone"}]
    /\ buf \in [Process -> Bytes] /\ \A p \in Process : Len(buf[p]) <= BufSize
    /\ redirected \subseteq Process
    /\ \A p \in Process : stdio[p] \in {<<>>, <<Message>>}
    /\ output \in Bytes /\ output_open \in BOOLEAN

(* What comes out is what came in, in order and once, whatever short reads *)
(* and writes split it into; only the message may follow it.               *)
OutputInOrder ==
    output \o buf["child"] =
        SubSeq([i \in 1 .. InputLen |-> i] \o <<Message>>, 1,
               Len(output \o buf["child"]))

(* While both processes copy, no byte is anywhere but in the two buffers,  *)
(* the pipe and the output.                                                *)
NothingLost ==
    (\A p \in Process : pc[p] = "copy" /\ p \in redirected)
        => output \o buf["child"] \o pipe \o buf["parent"] = [i \in 1 .. read_in |-> i]

(* Once the child has seen the end of the pipe with both redirections in   *)
(* place, all of the input has been copied: the end of the pipe means that *)
(* the parent is done, not that it is late.                                *)
EndMeansAll ==
    pc["child"] = "exit" /\ redirected = Process =>
        pc["parent"] = "gone" /\ SubSeq(output, 1, InputLen) = [i \in 1 .. InputLen |-> i]

(* What is copied arrives in order and once, stays in its buffers and is   *)
(* complete when the child sees the end.                                   *)
CopySafety == TypeOK /\ OutputInOrder /\ NothingLost /\ EndMeansAll

(* What keeps it from step to step.  Which process has what in its hands: *)
(* nothing before it copies, and while it lives the end it has redirected. *)
Hands ==
    /\ stdio = [p \in Process |-> IF p = "parent" /\ p \in redirected THEN <<Message>> ELSE <<>>]
    /\ pc["parent"] # "none" /\ pc["child"] # "fork"
    /\ pc["parent"] = "fork" => pc["child"] = "none"
    /\ \A p \in Process : pc[p] \in {"none", "fork", "redirect"} =>
          p \notin redirected /\ buf[p] = <<>> /\ (p = "parent" => read_in = 0)
    /\ "parent" \notin redirected => pipe = <<>>
    /\ "child" \notin redirected => buf["child"] = <<>> /\ output = <<>>
    /\ pc["parent"] \in {"fork", "redirect"} => "parent" \in write_end
    /\ pc["child"] = "redirect" => "child" \in read_end
    /\ "parent" \in redirected /\ pc["parent"] # "gone" => "parent" \in write_end
    /\ "child" \in redirected /\ pc["child"] # "gone" => "child" \in read_end

(* All that has been read is somewhere on its way, with the message behind *)
(* it once the parent has exited ...                                       *)
Input(n) == [i \in 1 .. n |-> i]
Stream == ((output \o buf["child"]) \o pipe) \o buf["parent"]
Whole ==
    /\ read_in = InputLen /\ buf["parent"] = <<>>
    /\ Stream = Input(InputLen) \o <<Message>>

(* ... and a process that has left its loop has left nothing behind.       *)
Flow ==
    /\ Stream = Input(read_in) \/ (pc["parent"] = "gone" /\ Whole)
    /\ pc["parent"] = "exit" /\ "parent" \in redirected =>
          read_in = InputLen /\ buf["parent"] = <<>>
    /\ pc["parent"] = "gone" /\ "parent" \in redirected => Whole \/ read_end = {}
    /\ pc["child"] = "exit" => buf["child"] = <<>>
    /\ pc["child"] = "exit" /\ "child" \in redirected => pipe = <<>> /\ write_end = {}

IInv == TypeOK /\ Hands /\ Flow

(* Both processes end, also when fork or dup2 fails or nobody reads the    *)
(* output: neither keeps an end of the pipe open that the other waits for. *)
BothEnd == <>(pc["parent"] = "gone" /\ pc["child"] \in {"none", "gone"})

==============================================================================
