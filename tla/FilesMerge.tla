------------------------------- MODULE FilesMerge -------------------------------
(***************************************************************************)
(* src/src/files/main.c: two files are generated, merged on stdout, and    *)
(* one of them is read by seeking.  Files are sequences of ints of four    *)
(* bytes, the first of which is the lowest on the machines the Makefile    *)
(* builds for; bytes behind the last whole int are read by none of the     *)
(* programs, a read that meets them is one that fails.                     *)
(*                                                                         *)
(* generate_file does not truncate, so what a longer file held before      *)
(* stays behind the new numbers, and merge opens path1 twice.              *)
(***************************************************************************)
EXTENDS Integers, FiniteSets, Sequences, SequencesExt

CONSTANTS Count,    \* 256, how many numbers are generated
          Base,     \* 256, the values of a byte
          Old,      \* bound: the numbers a file may hold before, without sign
          MaxOld,   \* bound: how many
          Garbage   \* bound: what may be on the stack where tmp lies

Stream == {0, 1}

VARIABLES a, b,      \* the files
          at,        \* where main is
          i,         \* the loop counter of generate_file or test_seek
          offset,    \* how much each stream of merge has read
          peek,      \* what each has read last
          open,      \* f[k] != -1
          merged,    \* what merge has printed
          position,  \* the offset of the stream of test_seek
          sought,    \* what test_seek has printed: positions and numbers
          res,       \* of test_seek: nothing has failed
          exit       \* what main returns

vars == <<a, b, at, i, offset, peek, open, merged, position, sought, res, exit>>
merging == <<offset, peek, open, merged>>
seeking == <<position, sought, res>>

(* The int of the same bytes. *)
Signed(n) ==
    LET words == Base * Base * Base * Base IN IF 2 * n < words THEN n ELSE n - words

Init ==
    /\ a \in SeqOf({Signed(n) : n \in Old}, MaxOld) /\ b = <<>>
    /\ at = "generate_a" /\ i = 0
    /\ offset = [k \in Stream |-> 0] /\ peek = [k \in Stream |-> 0]
    /\ open = [k \in Stream |-> FALSE]
    /\ merged = <<>>
    /\ position = 0 /\ sought = <<>> /\ res = TRUE
    /\ exit = 1

(* The bytes of an int in memory, a negative one's too, and back. *)
Bytes(n) ==
    <<n % Base, (n \div Base) % Base, ((n \div Base) \div Base) % Base,
      (((n \div Base) \div Base) \div Base) % Base>>

Unsigned(s) == ((s[4] * Base + s[3]) * Base + s[2]) * Base + s[1]

(* Mutation: the bytes of the machine are taken for those of the network. *)
ntohlIdle(n) == Unsigned(Bytes(n))

(* The bytes of the network have the highest first. *)
ntohl(n) == LET s == Bytes(n) IN Unsigned(<<s[4], s[3], s[2], s[1]>>)

Overwritten(s, k, v) == IF k < Len(s) THEN [s EXCEPT ![k + 1] = v] ELSE Append(s, v)

(* open or write fails: main returns -1. *)
Stop == at' = "returned" /\ exit' = -1

-------------------------------------------------------------------------------
GenerateA ==
    /\ at = "generate_a" /\ i < Count
    /\ a' = Overwritten(a, i, i)
    /\ i' = i + 1
    /\ UNCHANGED <<b, at, merging, seeking, exit>>

GenerateB ==
    /\ at = "generate_b" /\ i < Count
    /\ b' = Overwritten(b, i, i)
    /\ i' = i + 1
    /\ UNCHANGED <<a, at, merging, seeking, exit>>

Generated ==
    /\ at \in {"generate_a", "generate_b"} /\ i = Count
    /\ at' = IF at = "generate_a" THEN "generate_b" ELSE "merge"
    /\ i' = 0
    /\ UNCHANGED <<a, b, merging, seeking, exit>>

GenerateFails ==
    /\ at \in {"generate_a", "generate_b"} /\ i < Count
    /\ Stop
    /\ UNCHANGED <<a, b, i, merging, seeking>>

-------------------------------------------------------------------------------
(* A read of one int by stream k, of path1 for both. *)
HasMore(k) == offset[k] < Len(a)

(* Both are opened and read once. *)
MergeBegin ==
    /\ at = "merge"
    /\ Len(a) > 0
    /\ open' = [k \in Stream |-> TRUE]
    /\ peek' = [k \in Stream |-> a[1]]
    /\ offset' = [k \in Stream |-> 1]
    /\ at' = "merging"
    /\ UNCHANGED <<a, b, i, merged, seeking, exit>>

(* open or a first read fails: what was opened is closed, and merge        *)
(* returns r, which is 0: main goes on as if it had merged.                *)
MergeFails ==
    /\ at = "merge"
    /\ at' = "seek"
    /\ UNCHANGED <<a, b, i, merging, seeking, exit>>

(* main prints the name of its next test first, which may fail. *)
PrintFails ==
    /\ at = "merge"
    /\ Stop
    /\ UNCHANGED <<a, b, i, merging, seeking>>

(* The open stream with the least number, the first of equal ones. *)
Target(k) ==
    /\ at = "merging" /\ open[k]
    /\ \A l \in Stream : open[l] => peek[k] < peek[l] \/ (peek[k] = peek[l] /\ k <= l)

(* Its number is printed, and the next one read. *)
MergeStep(k) ==
    /\ Target(k) /\ HasMore(k)
    /\ merged' = Append(merged, peek[k])
    /\ peek' = [peek EXCEPT ![k] = a[offset[k] + 1]]
    /\ offset' = [offset EXCEPT ![k] = @ + 1]
    /\ UNCHANGED <<a, b, at, i, open, seeking, exit>>

(* Mutation: the first stream that ends ends the merge. *)
StreamEndsAll(k) ==
    /\ Target(k)
    /\ merged' = Append(merged, peek[k])
    /\ open' = [l \in Stream |-> FALSE]
    /\ UNCHANGED <<a, b, at, i, offset, peek, seeking, exit>>

(* The read fails, at the end of the file or before: it is closed. *)
StreamEnds(k) ==
    /\ Target(k)
    /\ merged' = Append(merged, peek[k])
    /\ open' = [open EXCEPT ![k] = FALSE]
    /\ UNCHANGED <<a, b, at, i, offset, peek, seeking, exit>>

MergeEnds ==
    /\ at = "merging"
    /\ \A k \in Stream : ~open[k]
    /\ at' = "seek"
    /\ UNCHANGED <<a, b, i, merging, seeking, exit>>

-------------------------------------------------------------------------------
(* One int is skipped before every read but the first. *)
Skipped == IF i = 0 THEN position ELSE position + 1

Prints(n) == sought' = Append(sought, <<i, ntohl(n)>>) /\ i' = i + 2

(* Mutation: = in place of &=. *)
SeekStepForgets ==
    /\ at = "seek" /\ i < Len(a)
    /\ position' = Skipped + 1
    /\ Prints(a[Skipped + 1])
    /\ res' = TRUE
    /\ UNCHANGED <<a, b, at, merging, exit>>

SeekStep ==
    /\ at = "seek" /\ i < Len(a)
    /\ position' = Skipped + 1
    /\ Prints(a[Skipped + 1])
    /\ UNCHANGED <<a, b, at, merging, res, exit>>

(* What tmp holds when nothing is read into it.  It is not initialized: it *)
(* has what the stack has there, which the round before may have left,     *)
(* converted or not.                                                       *)
Leftover ==
    Garbage \cup UNION {{sought[m][2], ntohl(sought[m][2])} : m \in {Len(sought)} \ {0}}

(* The lseek fails, which keeps the read from being tried, or the read     *)
(* does: whatever tmp holds is printed, and the loop goes on from where    *)
(* the stream stands.                                                      *)
SeekMisses ==
    /\ at = "seek" /\ i < Len(a)
    /\ position' \in {position, Skipped}
    /\ \E n \in Leftover : Prints(n)
    /\ res' = FALSE
    /\ UNCHANGED <<a, b, at, merging, exit>>

(* main's printf fails, or open, or the measuring. *)
SeekFails ==
    /\ at = "seek" /\ i = 0
    /\ Stop
    /\ UNCHANGED <<a, b, i, merging, seeking>>

SeekEnds ==
    /\ at = "seek" /\ i >= Len(a)
    /\ at' = "returned" /\ exit' = IF res THEN 0 ELSE -1
    /\ UNCHANGED <<a, b, i, merging, seeking>>

Next ==
    \/ GenerateA \/ GenerateB \/ Generated \/ GenerateFails
    \/ PrintFails \/ MergeBegin \/ MergeFails \/ MergeEnds
    \/ \E k \in Stream : MergeStep(k) \/ StreamEnds(k)
    \/ SeekStep \/ SeekMisses \/ SeekFails \/ SeekEnds

Spec == Init /\ [][Next]_vars

-------------------------------------------------------------------------------
(***************************************************************************)
(* Properties.                                                             *)
(***************************************************************************)
(* How often v is among the first n of s. *)
Times(s, n, v) == Cardinality({m \in 1 .. n : s[m] = v})

(* How much of the first file a stream has printed: an open one has its    *)
(* last number still to print.                                             *)
Printed(k) == IF open[k] THEN offset[k] - 1 ELSE offset[k]

(* The merge prints every number as often as its two streams have it up to *)
(* where they are, and loses none when one of them ends or fails before    *)
(* the other: after both have come to the end, the first file twice,       *)
(* whatever it held before, and nothing of the second.                     *)
MergeKeepsNumbers ==
    \A v \in ToSet(a) \cup ToSet(merged) :
        Times(merged, Len(merged), v) = Times(a, Printed(0), v) + Times(a, Printed(1), v)

Ascending(s) == \A k \in 1 .. Len(s) - 1 : s[k] <= s[k + 1]

(* The merge of a file in order is in order at every moment. *)
MergedInOrder == at # "generate_a" /\ Ascending(a) => Ascending(merged)

(* The bytes of the numbers at the even positions, from last to first. *)
SoughtRight ==
    \A m \in 1 .. Len(sought) :
        /\ sought[m][1] = 2 * m - 2
        /\ Bytes(sought[m][2]) = Reverse(Bytes(a[2 * m - 1]))

(* test_seek prints those while nothing fails, and main returns 0 only     *)
(* after all of them: a number that was not read, or that was read at a    *)
(* wrong position because a seek before it has failed, is told of.         *)
SeeksEvenPositions ==
    /\ res => SoughtRight
    /\ exit = 0 => SoughtRight /\ Len(sought) = (Len(a) + 1) \div 2

(* What merge and test_seek print, whatever the files held before and      *)
(* whichever call fails.                                                   *)
MergedAndSought == MergeKeepsNumbers /\ MergedInOrder /\ SeeksEvenPositions
==============================================================================
