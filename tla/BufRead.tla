--------------------------------- MODULE BufRead ---------------------------------
(***************************************************************************)
(* The buffered reader of src/src/bufread/main.c: nextchar takes a         *)
(* character from the buffer, which it fills with one read of whatever     *)
(* there is when it is empty.  The buffer is an array of char that is read *)
(* as unsigned char, so that none is the -1 that stands for the end.       *)
(***************************************************************************)
EXTENDS Integers, Sequences, SequencesExt

CONSTANTS Half,     \* 128: a char is one of -Half .. Half - 1
          BufSize,  \* BUF_SIZE
          MaxInput, \* bound: how much comes in
          MaxCalls  \* bound: how often nextchar is called

Char == -Half .. Half - 1

VARIABLES input,        \* what is still to come from the descriptor
          came,         \* all that has come or is to come
          buf,          \* stin->buf
          read_offset, size, lc,
          got,          \* the characters nextchar has returned
          calls

vars == <<input, came, buf, read_offset, size, lc, got, calls>>

Init ==
    /\ came \in SeqOf(Char, MaxInput) /\ input = came
    /\ buf = [k \in 1 .. BufSize |-> 0]
    /\ read_offset = 0 /\ size = 0 /\ lc = -1
    /\ got = <<>> /\ calls = 0

(* Mutation: the buffer is read as what it is. *)
AsSigned(c) == c

(* The int for a character of the buffer, by way of unsigned char. *)
AsInt(c) == IF c < 0 THEN c + 2 * Half ELSE c

(* nextchar_from_buffer, when there is something. *)
Take(b, offset) ==
    /\ lc' = AsInt(b[offset + 1])
    /\ read_offset' = offset + 1
    /\ got' = Append(got, lc')

Call == calls < MaxCalls /\ calls' = calls + 1

FromBuffer ==
    /\ Call
    /\ read_offset < size
    /\ Take(buf, read_offset)
    /\ UNCHANGED <<input, came, buf, size>>

(* The read returns some of what there is, and the first is taken. *)
Fill ==
    /\ Call
    /\ read_offset >= size /\ input # <<>>
    /\ \E n \in 1 .. BufSize :
          /\ n <= Len(input)
          /\ buf' = [k \in 1 .. BufSize |-> IF k <= n THEN input[k] ELSE buf[k]]
          /\ input' = SubSeq(input, n + 1, Len(input))
          /\ size' = n
          /\ Take(buf', 0)
    /\ UNCHANGED came

(* The end, or a read that fails, which cannot be told from it. *)
FillFails ==
    /\ Call
    /\ read_offset >= size
    /\ read_offset' = 0 /\ size' = 0
    /\ lc' = -1
    /\ UNCHANGED <<input, came, buf, got>>

nextchar == FromBuffer \/ Fill \/ FillFails

Next == nextchar

Spec == Init /\ [][Next]_vars

-------------------------------------------------------------------------------
(***************************************************************************)
(* Properties.                                                             *)
(***************************************************************************)

Ints(s) == [k \in 1 .. Len(s) |-> AsInt(s[k])]

(* Every character that comes is returned once and in order, however the   *)
(* reads cut the input: what has been returned, what is left in the buffer *)
(* and what is still to come make up all of it.                            *)
Conserved ==
    /\ size <= BufSize /\ read_offset <= size
    /\ got \o Ints(SubSeq(buf, read_offset + 1, size) \o input) = Ints(came)

(* -1 is only returned when nothing is taken, never for a character.       *)
MinusOneIsNoCharacter == [][lc' = -1 => got' = got /\ read_offset = size]_vars

(* nextchar's caller gets what comes in, and can tell the end from it. *)
CharactersKept == []Conserved /\ MinusOneIsNoCharacter
==============================================================================
