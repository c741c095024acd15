------------------------------ MODULE AsmSamples ------------------------------
(***************************************************************************)
(* The routines of src/src/asm that decide something: step of segments.S,  *)
(* which prints how much of two segments is common to both, and mystrcmp   *)
(* of strcmp.S.  Registers hold words, of which the upper half are the     *)
(* negative numbers; jb and ja compare words and bytes without a sign, and *)
(* jns looks at the sign.                                                  *)
(***************************************************************************)
EXTENDS Integers, Sequences

CONSTANTS Half,     \* 2^31, the first word that is a negative number
          Char,     \* the bytes of strings, which are not 0
          MaxLen    \* bound: how long a string is

VARIABLES s1, s2,  \* the arguments of mystrcmp
          k,       \* how far it has gone in both
          eax      \* what it returns, or Address while it runs

vars == <<s1, s2, k, eax>>

Address == 2  \* any that is not an answer: eax points into s1
Signed(w) == IF w < Half THEN w ELSE w - 2 * Half

(* Mutation: sub without the test of the sign. *)
StepUnchecked(a, b, c, d) ==
    Signed(((IF d > b THEN b ELSE d) - (IF c < a THEN a ELSE c)) % (2 * Half))

(* What step prints for the segments from a to b and from c to d. *)
Step(a, b, c, d) ==
    LET left == IF c < a THEN a ELSE c
        right == IF d > b THEN b ELSE d
        length == Signed((right - left) % (2 * Half))
    IN  IF length < 0 THEN 0 ELSE length

-------------------------------------------------------------------------------
Strings == UNION {[1 .. n -> Char] : n \in 0 .. MaxLen}
ByteAt(s, n) == IF n = Len(s) THEN 0 ELSE s[n + 1]

Init == s1 \in Strings /\ s2 \in Strings /\ k = 0 /\ eax = Address

(* Mutation: the end of the strings is not looked for. *)
CmpOn ==
    /\ eax = Address
    /\ LET cl == ByteAt(s1, k)
           dl == ByteAt(s2, k)
       IN  IF dl = cl THEN k' = k + 1 /\ UNCHANGED eax
                      ELSE eax' = (IF dl < cl THEN 1 ELSE -1) /\ UNCHANGED k
    /\ UNCHANGED <<s1, s2>>

Cmp ==
    /\ eax = Address
    /\ LET cl == ByteAt(s1, k)
           dl == ByteAt(s2, k)
       IN  IF dl = cl /\ cl # 0
           THEN k' = k + 1 /\ UNCHANGED eax
           ELSE eax' = (IF dl < cl THEN 1 ELSE IF dl > cl THEN -1 ELSE 0) /\ UNCHANGED k
    /\ UNCHANGED <<s1, s2>>

-------------------------------------------------------------------------------
(***************************************************************************)
(* Properties.                                                             *)
(***************************************************************************)

(* Between numbers of the same sign step prints the length of what the     *)
(* segments have in common, and 0 for segments apart, although it compares *)
(* signed numbers without their sign.  With a segment from below 0 to      *)
(* above it, it may print too much, or 0 for a length that does not fit.   *)
SegmentsMeet ==
    \A sign \in {0, Half} : \A a, c \in sign .. sign + Half - 1 :
        \A b \in a .. sign + Half - 1, d \in c .. sign + Half - 1 :
            Step(a, b, c, d) =
                LET both == (a .. b - 1) \cap (c .. d - 1)
                IN  IF both = {} THEN 0
                    ELSE 1 + (CHOOSE m \in both : \A n \in both : n <= m)
                           - (CHOOSE m \in both : \A n \in both : m <= n)

Prefix(s, t) == Len(s) <= Len(t) /\ SubSeq(t, 1, Len(s)) = s
Before(s, t) ==
    \/ Prefix(s, t) /\ s # t
    \/ \E n \in 1 .. Len(s) :
          /\ n <= Len(t) /\ s[n] < t[n]
          /\ SubSeq(s, 1, n - 1) = SubSeq(t, 1, n - 1)

(* mystrcmp reads neither string behind its end and returns their order,   *)
(* in which bytes have no sign.                                            *)
StringsCompared ==
    /\ k <= Len(s1) /\ k <= Len(s2)
    /\ eax = 1 => Before(s2, s1)
    /\ eax = -1 => Before(s1, s2)
    /\ eax = 0 => s1 = s2
==============================================================================
