-------------------------- MODULE MCSequentialPrograms --------------------------
(***************************************************************************)
(* The small programs in which nothing runs at the same time: the graphs   *)
(* of operations, the LEB128 reader, the conversions of addresses, merging *)
(* and seeking files, the buffered reader, the vectors of the samples and  *)
(* the routines in assembly.  A run starts one of them; the variables of   *)
(* the others stay as their Init makes them.                               *)
(***************************************************************************)
EXTENDS Integers, Sequences

CONSTANTS x, y, None, Junk, Modulus,              \* of OpGraph
          References, Kinds, MaxInputs, MaxPairwise, Period,
          Group, Width, PageSize, MaxBytes,       \* of Leb128
          V4, V6, Long, Other, Byte,              \* of AddrParse
          Count, Base, Old, MaxOld, Garbage,      \* of FilesMerge
          Half, BufSize, MaxInput, MaxCalls,      \* of BufRead
          Element, Capacities, MaxVectorCalls,    \* of DataSamples
          HalfWord, Letter, MaxLen                \* of AsmSamples

ASSUME BoundsAssumption ==
    /\ Modulus \in Nat \ {0, 1} /\ Junk \notin Nat
    /\ {Group, Width, PageSize, Half, BufSize} \subseteq Nat \ {0} /\ Group < Width
    /\ Kinds \subseteq {"add", "sub", "mul", "div"}
    /\ {MaxInputs, Period} \subseteq Nat \ {0} /\ MaxPairwise \in Nat
    /\ {MaxBytes, Count, MaxOld, MaxInput, MaxCalls, MaxVectorCalls, MaxLen}
          \cup Old \cup Garbage \cup Capacities \subseteq Nat
    /\ Base \in Nat \ {0, 1}
    /\ HalfWord \in Nat \ {0} /\ Letter \subseteq Nat \ {0}
    /\ Byte \in Nat \ {0, 1} /\ None \notin V4 \cup V6 \cup Other
    /\ V4 \cap V6 = {} /\ Other \cap (V4 \cup V6) = {}

VARIABLES program,  \* which one runs
          ops, output_value, output_computed, heap, value, roots, variable,
          forced, settled, initialized,
          file, mappable, leb_at, block_size, sz, leb_i, parser, printed,
          dest, str, call, text, result,
          a, b, at, i, offset, peek, open, merged, position, sought, res, exit,
          input, came, buf, read_offset, size, lc, got, calls,
          inline, memory, capacity, cells, broken, vector_calls,
          s1, s2, k, eax

(* Every graph of two pairwise operations over two inputs, not computed. *)
Made == INSTANCE OpGraph WITH
            References <- {x, y}, Kinds <- {"add", "sub", "mul", "div"},
            MaxInputs <- 2, MaxPairwise <- 2

(* Graphs and their derivatives, used in any order. *)
Used == INSTANCE OpGraph

(* The modulus is prime: what can be divided has a quotient. *)
ASSUME PrimeAssumption ==
    \A m \in Used!Number : \A n \in Used!Number \ {0} :
        \E q \in Used!Number : (q * n) % Modulus = m

Leb == INSTANCE Leb128 WITH at <- leb_at, i <- leb_i

(* The numbers in the place of the port lie at and around its limits. *)
Addr == INSTANCE AddrParse WITH Numbers <- -1 .. Byte * Byte

ASSUME NoneAssumption == None \notin {"v4", "v6"} \cup Addr!Text

Files == INSTANCE FilesMerge

Reader == INSTANCE BufRead

Vectors == INSTANCE DataSamples WITH MaxCalls <- MaxVectorCalls, calls <- vector_calls

Asm == INSTANCE AsmSamples WITH Half <- HalfWord, Char <- Letter

graphVars == <<ops, output_value, output_computed, heap, value, roots, variable,
               forced, settled, initialized>>
lebVars == <<file, mappable, leb_at, block_size, sz, leb_i, parser, printed>>
addrVars == <<dest, str, call, text, result>>
filesVars == <<a, b, at, i, offset, peek, open, merged, position, sought, res, exit>>
readerVars == <<input, came, buf, read_offset, size, lc, got, calls>>
vectorVars == <<inline, memory, capacity, cells, broken, vector_calls>>
asmVars == <<s1, s2, k, eax>>
allVars == <<program, graphVars, lebVars, addrVars, filesVars, readerVars, vectorVars,
             asmVars>>

AnyInit ==
    /\ program \in {"nn_made", "nn_used", "leb128", "types", "files", "bufread", "vectors",
                  "asm"}
    /\ \/ program = "nn_made" /\ Made!Init
       \/ /\ program # "nn_made" /\ Used!Init
          /\ program = "nn_used" \/ heap = [j \in 0 .. Period - 1 |-> FALSE]
    /\ (program = "leb128" \/ (file = <<>> /\ mappable = 0)) /\ Leb!Init
    /\ Addr!Init
    /\ (program = "files" \/ a = <<>>) /\ Files!Init
    /\ (program = "bufread" \/ came = <<>>) /\ Reader!Init
    /\ (program = "vectors" \/ inline = FALSE) /\ Vectors!Init
    /\ (program = "asm" \/ (s1 = <<>> /\ s2 = <<>>)) /\ Asm!Init

(* Program p takes a step, and the others none. *)
Only(p) ==
    /\ program = p /\ UNCHANGED program
    /\ IF p \in {"nn_made", "nn_used"} THEN TRUE ELSE UNCHANGED graphVars
    /\ IF p = "leb128" THEN TRUE ELSE UNCHANGED lebVars
    /\ IF p = "types" THEN TRUE ELSE UNCHANGED addrVars
    /\ IF p = "files" THEN TRUE ELSE UNCHANGED filesVars
    /\ IF p = "bufread" THEN TRUE ELSE UNCHANGED readerVars
    /\ IF p = "vectors" THEN TRUE ELSE UNCHANGED vectorVars
    /\ IF p = "asm" THEN TRUE ELSE UNCHANGED asmVars

AnyNext ==
    \/ Only("nn_made") /\ Made!Build
    \/ Only("nn_used") /\ Used!Next
    \/ Only("leb128") /\ Leb!Next
    \/ Only("types") /\ Addr!Next
    \/ Only("files") /\ Files!Next
    \/ Only("bufread") /\ Reader!Next
    \/ Only("vectors") /\ Vectors!Next
    \/ Only("asm") /\ Asm!Cmp

AnySpec == AnyInit /\ [][AnyNext]_allVars

-------------------------------------------------------------------------------
(* The graph vtable->derivative makes stands for the derivative of its     *)
(* root at every point, whatever nodes the two share.                      *)
DerivativeIsRight == program = "nn_made" => Made!DerivativeIsRight

(* A root that has been reset as main or a user of several roots does it   *)
(* is computed to what it stands for, in any order of changes, resets and  *)
(* computations of two graphs that share nodes.                            *)
CachesAreRight == program = "nn_used" => Used!CachesAreRight

(* put_char prints each number as what its bytes stand for, whatever was   *)
(* before it, and main reads the whole file or strays from its mapping.    *)
NumbersPrinted == Leb!NumbersPrinted

(* Parsing gives the address that was written, leaves the old one alone    *)
(* when it fails, and undoes formatting.                                   *)
AddressesKept == Addr!AddressesKept

(* What is read from files comes out in order and once: merge prints what  *)
(* its two streams read, main returns 0 only if test_seek has printed the  *)
(* even positions, with the bytes turned round, and nextchar returns the   *)
(* characters that come in, and -1 for none of them.                       *)
FilesRead == []Files!MergedAndSought /\ Reader!CharactersKept

(* Every tree of three nodes at most whose links go to later ones. *)
Trees ==
    UNION {{t \in [1 .. n -> [left : 0 .. 2]] : \A m \in 1 .. n : m + t[m].left <= n} :
              n \in 1 .. 3}

(* The vectors hold what they have memory for, and their calls stay        *)
(* defined except where they say; concat_left breaks no link of a tree;    *)
(* and the routines in assembly measure and compare right.                 *)
SamplesRight ==
    /\ Vectors!VectorsKept
    /\ program = "vectors" /\ vector_calls = 0 =>
          \A t, u \in Trees : Vectors!LinksKept(t, u)
    /\ Asm!StringsCompared
    /\ program = "asm" /\ s1 = <<>> /\ s2 = <<>> => Asm!SegmentsMeet
==============================================================================
