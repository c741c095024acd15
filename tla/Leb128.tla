--------------------------------- MODULE Leb128 ---------------------------------
(***************************************************************************)
(* The signed LEB128 reader of src/src/mmap/sample4/main.c: main looks for *)
(* the largest part of the file that mmap will map, maps the file in       *)
(* blocks of that size and gives every byte to put_char, which prints a    *)
(* number whenever one is complete.                                        *)
(*                                                                         *)
(* A number is the set of the bits that are one in its two's complement,   *)
(* so int32_t and uint32_t do not differ, and | is the union.  A byte is   *)
(* its continuation bit and its Group low bits.  A shift by the width or   *)
(* more is undefined in C; the machine shifts by what is left modulo the   *)
(* width, as the language of the comment at lines 15-28 does.              *)
(* A read where nothing is mapped leads to "undefined": a fault, or bytes  *)
(* of another mapping, and nothing more is said of the program.            *)
(***************************************************************************)
EXTENDS Integers, Sequences, FiniteSets

CONSTANTS Group,     \* 7, the bits of a number in a byte
          Width,     \* 32, the bits of a number
          PageSize,
          MaxBytes   \* bound: the length of the file

VARIABLES file,        \* its bytes
          mappable,    \* how many of them mmap will map at once
          at,          \* where main is
          block_size,
          sz,          \* the start of the block
          i,           \* the next byte of the block
          parser,      \* result, shift and state
          printed      \* the numbers on stdout

vars == <<file, mappable, at, block_size, sz, i, parser, printed>>

Bytes == [more : BOOLEAN, low : SUBSET (0 .. Group - 1)]
Bits == 0 .. Width - 1

ShiftLeft(n, k) == {b \in Bits : b - (k % Width) \in n}

-------------------------------------------------------------------------------
(* put_char: the parser it leaves, and whether it stores a number.         *)
Fresh == [result |-> {}, shift |-> 0, state |-> "zero"]
Begun(p) == IF p.state = "finished" THEN Fresh ELSE p

(* Mutation: the room is not looked at. *)
ExtendedAlways(byte, shift, result) ==
    IF Group - 1 \in byte.low THEN result \cup ShiftLeft(Bits, shift) ELSE result

(* Bits of the sign above the last group, if there is room. *)
Extended(byte, shift, result) ==
    IF shift < Width /\ Group - 1 \in byte.low
    THEN result \cup ShiftLeft(Bits, shift) ELSE result

put_char(p, byte) ==
    LET b == Begun(p)
        shift == b.shift + Group
        result == b.result \cup ShiftLeft(byte.low, b.shift) IN
    IF byte.more THEN [result |-> result, shift |-> shift, state |-> "partial"]
    ELSE [result |-> Extended(byte, shift, result), shift |-> shift, state |-> "finished"]

-------------------------------------------------------------------------------
SmallerOf(a, b) == IF a < b THEN a ELSE b

Init ==
    /\ \E n \in 0 .. MaxBytes : file \in [1 .. n -> Bytes]
    /\ mappable \in 0 .. MaxBytes
    /\ at = "measure" /\ block_size = 0 /\ sz = 0 /\ i = 0
    /\ parser = Fresh /\ printed = <<>>

Size == Len(file)

(* One more page is mapped and unmapped. *)
MeasureMore ==
    /\ at = "measure" /\ block_size < Size
    /\ LET next == SmallerOf(block_size + PageSize, Size) IN
          /\ next <= mappable
          /\ block_size' = next
    /\ UNCHANGED <<file, mappable, at, sz, i, parser, printed>>

MeasureEnds ==
    /\ at = "measure"
    /\ \/ block_size = Size
       \/ SmallerOf(block_size + PageSize, Size) > mappable
    /\ at' = "next"
    /\ UNCHANGED <<file, mappable, block_size, sz, i, parser, printed>>

(* The next block, never beyond the end of the file; nothing of it mapped  *)
(* is an error that nobody looks at.                                       *)
MapBlock ==
    /\ at = "next" /\ sz < Size
    /\ block_size' = SmallerOf(block_size, Size - sz)
    /\ i' = 0
    /\ at' = IF block_size' = 0 THEN "undefined" ELSE "block"
    /\ UNCHANGED <<file, mappable, sz, parser, printed>>

ReadByte ==
    /\ at = "block" /\ i < Size /\ i < block_size
    /\ parser' = put_char(parser, file[sz + i + 1])
    /\ printed' = IF parser'.state = "finished" THEN Append(printed, parser'.result)
                  ELSE printed
    /\ i' = i + 1
    /\ UNCHANGED <<file, mappable, at, block_size, sz>>

(* The loop goes to the size of the file and not of the block. *)
ReadBeyond ==
    /\ at = "block" /\ i < Size /\ i >= block_size
    /\ at' = "undefined"
    /\ UNCHANGED <<file, mappable, block_size, sz, i, parser, printed>>

BlockEnds ==
    /\ at = "block" /\ i = Size
    /\ sz' = sz + block_size
    /\ at' = "next"
    /\ UNCHANGED <<file, mappable, block_size, i, parser, printed>>

End ==
    /\ at = "next" /\ sz >= Size
    /\ at' = "end"
    /\ UNCHANGED <<file, mappable, block_size, sz, i, parser, printed>>

Next ==
    \/ MeasureMore \/ MeasureEnds
    \/ MapBlock \/ ReadByte \/ ReadBeyond \/ BlockEnds \/ End

Spec == Init /\ [][Next]_vars
FairSpec == Spec /\ WF_vars(Next)

-------------------------------------------------------------------------------
(***************************************************************************)
(* Properties.                                                             *)
(***************************************************************************)

(* Of the file, put_char has been given the first i bytes: there is never  *)
(* more than one block.                                                    *)
EndsUpTo(n) == {j \in 1 .. n : ~file[j].more}

(* Bytes m to n are a number of the file. *)
IsNumber(m, n) ==
    /\ m = 1 \/ m - 1 \in EndsUpTo(n)
    /\ {j \in EndsUpTo(n) : m <= j} = {n}

(* The bits bytes m to n have, each byte Group of them, lowest first.      *)
Low(m, n) == {k \in Bits : \E j \in m .. n : \E b \in file[j].low : k = Group * (j - m) + b}

(* The number they stand for: above its bytes go the bits of the sign.     *)
Meaning(m, n) ==
    Low(m, n) \cup {k \in Bits : Group - 1 \in file[n].low /\ k >= Group * (n - m + 1)}

(* The bytes a number of Width bits needs at most.                         *)
Longest == (Width + Group - 1) \div Group

(* Every number that has been read is printed, once and in the order of    *)
(* the file, and one that is no longer than needed is printed as what its  *)
(* bytes stand for, whatever came before it.                               *)
PrintsMeaning ==
    /\ Len(printed) = Cardinality(EndsUpTo(i))
    /\ \A n \in 1 .. i : \A m \in 1 .. n :
          IsNumber(m, n) /\ n - m < Longest =>
              printed[Cardinality(EndsUpTo(n))] = Meaning(m, n)

(* Where the program ends it has read the whole file, and it strays from   *)
(* what is mapped just when the file cannot be mapped at once, for all     *)
(* that the blocks are meant for such files.                               *)
ReadsAllOrStrays ==
    /\ at = "end" => i = Size /\ Size <= mappable
    /\ at = "undefined" => mappable < Size

(* The numbers on stdout are those of the file. *)
NumbersPrinted == PrintsMeaning /\ ReadsAllOrStrays

==============================================================================
