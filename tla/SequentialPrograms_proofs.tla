----------------------- MODULE SequentialPrograms_proofs -----------------------
(***************************************************************************)
(* Proofs about the small programs in which nothing runs at the same time, *)
(* for all the values of their constants.                                  *)
(***************************************************************************)
EXTENDS MCSequentialPrograms, FiniteSetTheorems, SequenceTheorems, WellFoundedInduction, TLAPS

-------------------------------------------------------------------------------
(***************************************************************************)
(* The programs side by side.                                              *)
(***************************************************************************)

(* A step of the whole is a step of each program or leaves it alone. *)
LEMMA EachProgramSteps ==
    ASSUME [AnyNext]_allVars
    PROVE  /\ [Leb!Next]_(Leb!vars) /\ [Addr!Next]_(Addr!vars)
           /\ [Files!Next]_(Files!vars) /\ [Reader!Next]_(Reader!vars)
           /\ [Vectors!Next]_(Vectors!vars) /\ [Asm!Cmp]_(Asm!vars)
           /\ program' = program
<1> USE DEF lebVars, addrVars, filesVars, readerVars, vectorVars, asmVars, Leb!vars, Addr!vars,
            Files!vars, Reader!vars, Vectors!vars, Asm!vars
<1>1. CASE AnyNext
  BY <1>1 DEF AnyNext, Only
<1>2. CASE UNCHANGED allVars
  BY <1>2 DEF allVars
<1> QED
  BY <1>1, <1>2

-------------------------------------------------------------------------------
(***************************************************************************)
(* The vectors of the samples.                                             *)
(***************************************************************************)

(* The bounds, one by one. *)
LEMMA Bounds ==
    /\ Capacities \subseteq Nat
    /\ Modulus \in Nat /\ Modulus > 1 /\ Junk \notin Nat
    /\ PageSize \in Nat /\ PageSize > 0 /\ MaxBytes \in Nat
    /\ BufSize \in Nat /\ BufSize > 0 /\ Half \in Nat /\ Half > 0
    /\ Count \in Nat /\ Old \cup Garbage \subseteq Nat /\ Base \in Nat /\ Base > 1
    /\ HalfWord \in Nat /\ HalfWord > 0 /\ Letter \subseteq Nat /\ 0 \notin Letter
    /\ MaxInput \in Nat /\ MaxOld \in Nat /\ MaxLen \in Nat
    /\ Byte \in Nat /\ Byte > 1 /\ None \notin V4 \cup V6 \cup Other
    /\ V4 \cap V6 = {} /\ Other \cap (V4 \cup V6) = {}
  BY BoundsAssumption

VectorsTypeOK ==
    /\ cells \in Seq(Element)
    /\ capacity \in Nat
    /\ memory \in {"null", "live", "freed"}

(* A block of its own is missing only while the vector has never had one,  *)
(* and what it has been given stays as long as the capacity.               *)
VectorsIInv ==
    /\ VectorsTypeOK
    /\ Vectors!VectorsKept
    /\ memory = "null" => cells = <<>> /\ capacity = 0
    /\ inline => memory # "null"

LEMMA VectorsInit == Vectors!Init => VectorsIInv
<1> SUFFICES ASSUME Vectors!Init PROVE VectorsIInv
  OBVIOUS
<1>1. capacity \in Nat /\ cells = <<>> /\ ~broken
  BY Bounds DEF Vectors!Init
<1>2. memory = (IF inline THEN "live" ELSE "null") /\ (~inline => capacity = 0)
  BY DEF Vectors!Init
<1>3. cells \in Seq(Element) /\ Len(cells) = 0
  BY <1>1
<1> QED
  BY <1>1, <1>2, <1>3 DEF VectorsIInv, VectorsTypeOK, Vectors!VectorsKept

(* A growth gives sample2's vector a block, unless it was freed, and breaks *)
(* the others.                                                             *)
LEMMA GrowthKeepsIInv ==
    ASSUME VectorsIInv, ~broken, inline' = inline,
           NEW c \in Nat, capacity < c, capacity' = c,
           cells' \in Seq(Element), Len(cells') <= Len(cells) + 1,
           broken' = Vectors!GrowBreaks, memory' = Vectors!Grown
    PROVE  VectorsIInv'
<1> USE DEF VectorsIInv, VectorsTypeOK, Vectors!VectorsKept
<1>1. capacity' \in Nat /\ Len(cells') <= capacity'
  OBVIOUS
<1>2. broken' <=> (inline \/ memory = "freed")
  BY DEF Vectors!GrowBreaks
<1>3. memory' = (IF inline \/ memory = "freed" THEN memory ELSE "live")
  BY DEF Vectors!GrowBreaks, Vectors!Grown
<1>4. memory' \in {"null", "live", "freed"} /\ (inline' => memory' # "null")
  BY <1>3
<1>5. (broken' => memory' = "freed" \/ inline')
  BY <1>2, <1>3
<1>6. memory' = "freed" /\ ~inline' => broken'
  BY <1>2, <1>3
<1>7. memory' # "null"
  BY <1>3
<1> QED
  BY <1>1, <1>4, <1>5, <1>6, <1>7

(* What is not a growth leaves capacity and memory as they are. *)
LEMMA NoGrowthKeepsIInv ==
    ASSUME VectorsIInv, ~broken, inline' = inline, memory' = memory, capacity' = capacity,
           cells' \in Seq(Element), Len(cells') <= capacity,
           memory = "null" \/ (memory = "freed" /\ ~inline) => cells' = <<>> /\ capacity = 0,
           broken' => memory = "freed"
    PROVE  VectorsIInv'
<1> USE DEF VectorsIInv, VectorsTypeOK, Vectors!VectorsKept
<1>1. VectorsTypeOK'
  OBVIOUS
<1>2. Vectors!VectorsKept'
  OBVIOUS
<1> QED
  BY <1>1, <1>2

LEMMA VectorsNext ==
    ASSUME VectorsIInv, [Vectors!Next]_(Vectors!vars)
    PROVE  VectorsIInv'
<1> USE DEF VectorsIInv, VectorsTypeOK, Vectors!VectorsKept, Vectors!CanCall
<1>1. ASSUME NEW c \in Capacities, Vectors!reserve(c) PROVE VectorsIInv'
  <2>1. /\ ~broken /\ inline' = inline /\ cells' = cells
        /\ Vectors!AtLeastOne(c) \in Nat \ {0}
    BY <1>1, Bounds DEF Vectors!reserve, Vectors!AtLeastOne
  <2>2. CASE Vectors!MustGrow(c)
    BY <1>1, <2>1, <2>2, GrowthKeepsIInv DEF Vectors!reserve, Vectors!MustGrow
  <2>3. CASE ~Vectors!MustGrow(c)
    <3>1. capacity' = capacity /\ memory' = memory /\ capacity # 0
      BY <1>1, <2>1, <2>3 DEF Vectors!reserve, Vectors!MustGrow
    <3>2. broken' => memory = "freed"
      BY <1>1, <2>3 DEF Vectors!reserve
    <3> QED
      BY <2>1, <3>1, <3>2, NoGrowthKeepsIInv
  <2> QED
    BY <2>2, <2>3
<1>2. ASSUME NEW e \in Element, Vectors!push_back(e) PROVE VectorsIInv'
  <2>1. cells' \in Seq(Element) /\ Len(cells') = Len(cells) + 1 /\ Len(cells) \in Nat
    BY <1>2, AppendProperties DEF Vectors!push_back
  <2>2. /\ ~broken /\ inline' = inline /\ Len(cells) <= capacity
        /\ Vectors!AtLeastOne(2 * capacity) \in Nat
        /\ Vectors!AtLeastOne(2 * capacity) > capacity
    BY <1>2 DEF Vectors!push_back, Vectors!AtLeastOne
  <2>3. CASE Vectors!IsFull
    <3>1. /\ Vectors!MustGrow(2 * capacity)
          /\ broken' = Vectors!GrowBreaks /\ memory' = Vectors!Grown
          /\ capacity' = Vectors!AtLeastOne(2 * capacity)
      BY <1>2, <2>2, <2>3 DEF Vectors!push_back, Vectors!MustGrow
    <3> QED
      BY <2>1, <2>2, <3>1, GrowthKeepsIInv
  <2>4. CASE ~Vectors!IsFull
    <3>1. capacity' = capacity /\ memory' = memory
      BY <1>2, <2>4 DEF Vectors!push_back
    <3>2. broken' => memory = "freed"
      BY <1>2, <2>4 DEF Vectors!push_back
    <3>3. Len(cells') <= capacity /\ capacity # 0
      BY <2>1, <2>2, <2>4 DEF Vectors!IsFull
    <3> QED
      BY <2>1, <2>2, <3>1, <3>2, <3>3, NoGrowthKeepsIInv
  <2> QED
    BY <2>3, <2>4
<1>3. CASE Vectors!clear_vector
  <2>1. CASE memory = "null"
    BY <1>3, <2>1, NoGrowthKeepsIInv DEF Vectors!clear_vector
  <2>2. CASE memory # "null"
    <3>1. /\ memory' = "freed" /\ inline' = inline /\ ~broken
          /\ (inline => capacity' = capacity /\ cells' = cells)
          /\ (~inline => capacity' = 0 /\ cells' = <<>>)
      BY <1>3, <2>2 DEF Vectors!clear_vector
    <3>2. cells' \in Seq(Element) /\ capacity' \in Nat /\ Len(cells') <= capacity'
      <4>1. CASE inline
        BY <3>1, <4>1
      <4>2. CASE ~inline
        BY <3>1, <4>2
      <4> QED
        BY <4>1, <4>2
    <3>3. ~inline' => capacity' = 0 /\ cells' = <<>>
      BY <3>1, Zenon
    <3> QED
      BY <3>1, <3>2, <3>3
  <2> QED
    BY <2>1, <2>2
<1>4. CASE UNCHANGED Vectors!vars
  BY <1>4 DEF Vectors!vars
<1> QED
  BY <1>1, <1>2, <1>3, <1>4 DEF Vectors!Next

-------------------------------------------------------------------------------
(***************************************************************************)
(* The links of the trees.                                                 *)
(***************************************************************************)

(* A function on 1 .. n is a sequence. *)
LEMMA SeqOfLength ==
    ASSUME NEW S, NEW n \in Nat, NEW s \in [1 .. n -> S]
    PROVE  s \in Seq(S) /\ Len(s) = n
  BY SeqDef

Node == [left : Nat]

(* What setting the link of one node of a tree leaves alone. *)
LEMMA LinkSet ==
    ASSUME NEW tree \in Seq(Node), NEW o \in 0 .. Len(tree) - 1, NEW v,
           NEW hung, hung = [tree EXCEPT ![o + 1].left = v]
    PROVE  /\ \A m \in 1 .. Len(tree) : m # o + 1 => hung[m] = tree[m]
           /\ hung[o + 1].left = v
  BY DEF Node

(* A tree is a sequence of nodes. *)
LEMMA TreesAre == \A t \in Trees : t \in Seq(Node)
<1> TAKE t \in Trees
<1>1. PICK n \in 1 .. 3 : t \in [1 .. n -> [left : 0 .. 2]]
  BY DEF Trees
<1>2. t \in [1 .. n -> Node]
  <2>1. \A m \in 1 .. n : t[m] \in Node
    BY <1>1 DEF Node
  <2> QED
    BY <1>1, <2>1
<1> QED
  BY <1>1, <1>2, SeqOfLength

(* concat_left breaks no link of two trees of any size: each node keeps    *)
(* its left child, and the chosen one gets the root of the second tree.    *)
THEOREM LinksStay ==
    ASSUME NEW t \in Seq(Node), NEW u \in Seq(Node)
    PROVE  Vectors!LinksKept(t, u)
<1>1. /\ t \in Seq(Node) /\ u \in Seq(Node) /\ Len(t) \in Nat /\ Len(u) \in Nat
      /\ \A m \in 1 .. Len(u) : u[m].left \in Nat
  <2>1. \A m \in 1 .. Len(u) : u[m] \in Node
    BY ElementOfSeq
  <2>2. \A m \in 1 .. Len(u) : u[m].left \in Nat
    BY <2>1 DEF Node
  <2> QED
    BY <2>2, LenProperties
<1>2. /\ t \o u \in Seq(Node) /\ Len(t \o u) = Len(t) + Len(u)
      /\ \A m \in 1 .. Len(t) : (t \o u)[m] = t[m]
      /\ \A m \in 1 .. Len(u) : (t \o u)[Len(t) + m] = u[m]
  BY <1>1, ConcatProperties
<1> SUFFICES ASSUME NEW o \in 0 .. Len(t) - 1, NEW tree, tree = Vectors!concat_left(t, u, o)
             PROVE  /\ Vectors!get_left(tree, o) = Len(t)
                    /\ \A n \in (0 .. Len(t) - 1) \ {o} :
                          Vectors!get_left(tree, n) = Vectors!get_left(t, n)
                    /\ \A n \in 0 .. Len(u) - 1 :
                          Vectors!get_left(tree, Len(t) + n)
                              = IF Vectors!get_left(u, n) = -1 THEN -1
                                ELSE Len(t) + Vectors!get_left(u, n)
  BY DEF Vectors!LinksKept
<1>3. /\ \A m \in 1 .. Len(t) + Len(u) : m # o + 1 => tree[m] = (t \o u)[m]
      /\ tree[o + 1].left = Len(t) - o
  <2>1. PICK both \in Seq(Node) : both = t \o u
    BY <1>2
  <2>2. o \in 0 .. Len(both) - 1 /\ Len(both) = Len(t) + Len(u)
    BY <1>1, <1>2, <2>1
  <2>3. tree = [both EXCEPT ![o + 1].left = Len(t) - o]
    BY <2>1 DEF Vectors!concat_left
  <2>4. /\ \A m \in 1 .. Len(both) : m # o + 1 => tree[m] = both[m]
        /\ tree[o + 1].left = Len(t) - o
    BY ONLY <2>2, <2>3, LinkSet
  <2> QED
    BY <2>1, <2>2, <2>4
<1>4. Vectors!get_left(tree, o) = Len(t)
  BY <1>1, <1>3 DEF Vectors!get_left, Vectors!NodeAt
<1>5. ASSUME NEW n \in (0 .. Len(t) - 1) \ {o}
      PROVE  Vectors!get_left(tree, n) = Vectors!get_left(t, n)
  <2>1. n + 1 \in 1 .. Len(t) /\ n + 1 # o + 1 /\ n + 1 \in 1 .. Len(t) + Len(u)
    BY <1>1
  <2>2. tree[n + 1] = t[n + 1]
    BY <1>2, <1>3, <2>1
  <2> QED
    BY <2>2 DEF Vectors!get_left, Vectors!NodeAt
<1>6. ASSUME NEW n \in 0 .. Len(u) - 1
      PROVE  Vectors!get_left(tree, Len(t) + n)
                 = IF Vectors!get_left(u, n) = -1 THEN -1 ELSE Len(t) + Vectors!get_left(u, n)
  <2>1. /\ n + 1 \in 1 .. Len(u) /\ Len(t) + (n + 1) \in 1 .. Len(t) + Len(u)
        /\ Len(t) + (n + 1) # o + 1 /\ Len(t) + n + 1 = Len(t) + (n + 1)
    BY <1>1
  <2>2. tree[Len(t) + n + 1] = u[n + 1]
    BY <1>2, <1>3, <2>1
  <2>3. u[n + 1].left \in Nat
    BY <1>1, <2>1
  <2> QED
    BY <1>1, <2>2, <2>3 DEF Vectors!get_left, Vectors!NodeAt
<1> QED
  BY <1>4, <1>5, <1>6

-------------------------------------------------------------------------------
(***************************************************************************)
(* step, and mystrcmp.                                                     *)
(***************************************************************************)

(* A difference below 0 wraps into the upper half of the words. *)
LEMMA Difference ==
    ASSUME NEW n \in Int, -HalfWord < n, n < HalfWord
    PROVE  Asm!Signed(n % (2 * HalfWord)) = n
<1>1. HalfWord \in Nat /\ HalfWord > 0
  BY Bounds
<1>2. CASE n >= 0
  <2>1. n % (2 * HalfWord) = n
    BY <1>1, <1>2
  <2> QED
    BY <1>1, <1>2, <2>1 DEF Asm!Signed
<1>3. CASE n < 0
  <2>1. n % (2 * HalfWord) = n + 2 * HalfWord
    BY <1>1, <1>3
  <2> QED
    BY <1>1, <1>3, <2>1 DEF Asm!Signed
<1> QED
  BY <1>2, <1>3

(* The length of what two segments of one sign have in common. *)
LEMMA StepIsRight == Asm!SegmentsMeet
<1> SUFFICES ASSUME NEW sign \in {0, HalfWord},
                    NEW n \in sign .. sign + HalfWord - 1, NEW m \in sign .. sign + HalfWord - 1,
                    NEW o \in n .. sign + HalfWord - 1, NEW p \in m .. sign + HalfWord - 1
             PROVE  Asm!Step(n, o, m, p) =
                      LET both == (n .. o - 1) \cap (m .. p - 1)
                      IN  IF both = {} THEN 0
                          ELSE 1 + (CHOOSE e \in both : \A f \in both : f <= e)
                                 - (CHOOSE e \in both : \A f \in both : e <= f)
  BY DEF Asm!SegmentsMeet
<1>1. HalfWord \in Nat /\ HalfWord > 0 /\ sign \in Nat
  BY Bounds
<1> DEFINE left == IF m < n THEN n ELSE m
           right == IF p > o THEN o ELSE p
           both == (n .. o - 1) \cap (m .. p - 1)
<1>2. left \in Int /\ right \in Int /\ -HalfWord < right - left /\ right - left < HalfWord
  BY <1>1
<1>3. both = left .. right - 1
  BY <1>1
<1>4. Asm!Step(n, o, m, p) = IF right - left < 0 THEN 0 ELSE right - left
  <2>1. Asm!Signed((right - left) % (2 * HalfWord)) = right - left
    BY <1>2, Difference
  <2> QED
    BY <2>1 DEF Asm!Step
<1> HIDE DEF left, right, both
<1>5. CASE both = {}
  <2>1. ~(left <= right - 1)
    BY <1>2, <1>3, <1>5
  <2> QED
    BY <1>2, <1>4, <1>5, <2>1 DEF both
<1>6. CASE both # {}
  <2>1. left <= right - 1
    BY <1>2, <1>3, <1>6
  <2>2. (CHOOSE e \in both : \A f \in both : f <= e) = right - 1
    <3>1. right - 1 \in both /\ \A f \in both : f <= right - 1
      BY <1>2, <1>3, <2>1
    <3>2. \A e \in both : (\A f \in both : f <= e) => e = right - 1
      BY <1>2, <1>3, <3>1
    <3> QED
      BY <3>1, <3>2
  <2>3. (CHOOSE e \in both : \A f \in both : e <= f) = left
    <3>1. left \in both /\ \A f \in both : left <= f
      BY <1>2, <1>3, <2>1
    <3>2. \A e \in both : (\A f \in both : e <= f) => e = left
      BY <1>2, <1>3, <3>1
    <3> QED
      BY <3>1, <3>2
  <2>4. Asm!Step(n, o, m, p) = 1 + (right - 1) - left
    BY <1>2, <1>4, <2>1
  <2> QED
    BY <1>6, <2>2, <2>3, <2>4, Zenon DEF both
<1> QED
  BY <1>5, <1>6

(* The bytes so far are the same, and eax is the answer once there is one. *)
AsmIInv ==
    /\ s1 \in Seq(Letter) /\ s2 \in Seq(Letter)
    /\ k \in Nat /\ k <= Len(s1) /\ k <= Len(s2)
    /\ \A n \in 1 .. k : s1[n] = s2[n]
    /\ eax \in {-1, 0, 1, 2}
    /\ eax = 1 => Asm!Before(s2, s1)
    /\ eax = -1 => Asm!Before(s1, s2)
    /\ eax = 0 => s1 = s2

LEMMA AsmInit == Asm!Init => AsmIInv
<1> SUFFICES ASSUME Asm!Init PROVE AsmIInv
  OBVIOUS
<1>1. ASSUME NEW s \in Asm!Strings PROVE s \in Seq(Letter) /\ Len(s) \in Nat
  <2>1. PICK n \in 0 .. MaxLen : s \in [1 .. n -> Letter]
    BY DEF Asm!Strings
  <2>2. n \in Nat
    BY Bounds
  <2> QED
    BY <2>1, <2>2, SeqOfLength
<1>2. s1 \in Seq(Letter) /\ s2 \in Seq(Letter) /\ Len(s1) \in Nat /\ Len(s2) \in Nat
  BY <1>1 DEF Asm!Init
<1>3. k = 0 /\ eax = 2
  BY DEF Asm!Init, Asm!Address
<1> QED
  BY <1>2, <1>3 DEF AsmIInv

(* The first n bytes of two strings that agree so far. *)
LEMMA SameStart ==
    ASSUME NEW s \in Seq(Letter), NEW t \in Seq(Letter), NEW n \in Nat,
           n <= Len(s), n <= Len(t), \A m \in 1 .. n : s[m] = t[m]
    PROVE  SubSeq(s, 1, n) = SubSeq(t, 1, n)
<1>1. /\ \A m \in 1 .. n : s[m] \in Letter /\ t[m] \in Letter
  BY ElementOfSeq
<1>2. /\ SubSeq(s, 1, n) \in Seq(Letter) /\ Len(SubSeq(s, 1, n)) = n
      /\ \A m \in 1 .. n : SubSeq(s, 1, n)[m] = s[m]
  BY <1>1, SubSeqProperties
<1>3. /\ SubSeq(t, 1, n) \in Seq(Letter) /\ Len(SubSeq(t, 1, n)) = n
      /\ \A m \in 1 .. n : SubSeq(t, 1, n)[m] = t[m]
  BY <1>1, SubSeqProperties
<1> QED
  BY <1>2, <1>3, SeqEqual

(* Strings that differ at byte n for the first time are ordered by it. *)
LEMMA DifferenceOrders ==
    ASSUME NEW s \in Seq(Letter), NEW t \in Seq(Letter), NEW n \in Nat,
           n <= Len(s), n <= Len(t), \A m \in 1 .. n : s[m] = t[m],
           Asm!ByteAt(s, n) < Asm!ByteAt(t, n)
    PROVE  Asm!Before(s, t)
<1>1. Len(s) \in Nat /\ Len(t) \in Nat
  OBVIOUS
<1>2. SubSeq(s, 1, n) = SubSeq(t, 1, n)
  BY SameStart
<1>3. n < Len(t)
  <2>1. SUFFICES ASSUME n = Len(t) PROVE FALSE
    BY <1>1
  <2>2. Asm!ByteAt(t, n) = 0
    BY <2>1 DEF Asm!ByteAt
  <2>3. Asm!ByteAt(s, n) \in Nat
    <3>1. n # Len(s) => s[n + 1] \in Letter
      BY <1>1, ElementOfSeq
    <3> QED
      BY <3>1, Bounds DEF Asm!ByteAt
  <2> QED
    BY <2>2, <2>3
<1>4. CASE n = Len(s)
  <2>1. SubSeq(s, 1, Len(s)) = s
    BY SubSeqFull
  <2>2. Asm!Prefix(s, t)
    BY <1>1, <1>2, <1>3, <1>4, <2>1 DEF Asm!Prefix
  <2> QED
    BY <1>3, <1>4, <2>2 DEF Asm!Before
<1>5. CASE n < Len(s)
  <2>1. n + 1 \in 1 .. Len(s) /\ n + 1 <= Len(t) /\ (n + 1) - 1 = n
    BY <1>1, <1>3, <1>5
  <2>2. s[n + 1] < t[n + 1]
    BY <1>3, <1>5 DEF Asm!ByteAt
  <2> QED
    BY <1>2, <2>1, <2>2 DEF Asm!Before
<1> QED
  BY <1>1, <1>4, <1>5

LEMMA AsmNext ==
    ASSUME AsmIInv, [Asm!Cmp]_(Asm!vars)
    PROVE  AsmIInv'
<1> USE DEF AsmIInv
<1>1. CASE UNCHANGED Asm!vars
  BY <1>1 DEF Asm!vars, Asm!Before, Asm!Prefix
<1>2. CASE Asm!Cmp
  <2> DEFINE cl == Asm!ByteAt(s1, k)
             dl == Asm!ByteAt(s2, k)
  <2>1. s1' = s1 /\ s2' = s2 /\ eax = 2 /\ Len(s1) \in Nat /\ Len(s2) \in Nat
    BY <1>2 DEF Asm!Cmp, Asm!Address
  <2>2. /\ k # Len(s1) => s1[k + 1] \in Letter
        /\ k # Len(s2) => s2[k + 1] \in Letter
    BY <2>1, ElementOfSeq
  <2>3. /\ cl \in Nat /\ dl \in Nat
        /\ cl = 0 <=> k = Len(s1)
        /\ dl = 0 <=> k = Len(s2)
    BY <2>2, Bounds DEF Asm!ByteAt
  <2>4. CASE dl = cl /\ cl # 0
    <3>1. k' = k + 1 /\ eax' = eax /\ k < Len(s1) /\ k < Len(s2)
      BY <1>2, <2>1, <2>3, <2>4 DEF Asm!Cmp
    <3>2. s1[k + 1] = s2[k + 1]
      BY <2>4, <3>1 DEF Asm!ByteAt
    <3>3. \A n \in 1 .. k' : s1[n] = s2[n]
      BY <3>1, <3>2
    <3> QED
      BY <2>1, <3>1, <3>3
  <2>5. CASE ~(dl = cl /\ cl # 0)
    <3>1. k' = k /\ eax' = (IF dl < cl THEN 1 ELSE IF dl > cl THEN -1 ELSE 0)
      BY <1>2, <2>5 DEF Asm!Cmp
    <3>2. CASE dl < cl
      <4>1. Asm!Before(s2, s1)
        BY <2>1, <3>2, DifferenceOrders
      <4> QED
        BY <2>1, <3>1, <3>2, <4>1 DEF Asm!Before, Asm!Prefix
    <3>3. CASE dl > cl
      <4>1. Asm!Before(s1, s2)
        BY <2>1, <3>3, DifferenceOrders
      <4>2. eax' = -1
        BY <2>3, <3>1, <3>3
      <4> QED
        BY <2>1, <3>1, <4>1, <4>2 DEF Asm!Before, Asm!Prefix
    <3>4. CASE dl = cl
      <4>1. k = Len(s1) /\ k = Len(s2)
        BY <2>3, <2>5, <3>4
      <4>2. s1 = s2
        BY <4>1, SeqEqual
      <4>3. eax' = 0
        BY <2>3, <3>1, <3>4
      <4> QED
        BY <2>1, <3>1, <4>2, <4>3
    <3> QED
      BY <2>3, <3>2, <3>3, <3>4
  <2> QED
    BY <2>4, <2>5
<1> QED
  BY <1>1, <1>2

-------------------------------------------------------------------------------
(***************************************************************************)
(* The addresses.                                                          *)
(***************************************************************************)

Dest == [family : {"v4", "v6", None}, port : Addr!Port,
         word : V4 \cup {None}, addr6 : V6 \cup {None}]

(* The name is where its family has it, and a text that is not None comes  *)
(* from to_str.                                                            *)
AddrIInv ==
    /\ dest \in Dest
    /\ dest.family = "v4" => dest.word \in V4
    /\ dest.family = "v6" => dest.addr6 \in V6
    /\ str # None => str.host \in Addr!Host /\ str.port \in Addr!Port
    /\ dest.family = None => str = None
    /\ call = "to_str" /\ dest.family # None => str = Addr!Formatted(dest)
    /\ Addr!ParsedAsWritten

(* Two changes of the byte order undo each other. *)
LEMMA BackAgain ==
    ASSUME NEW n \in Addr!Port
    PROVE  Addr!htons(n) \in Addr!Port /\ Addr!htons(Addr!htons(n)) = n
<1> DEFINE q == n \div Byte
           r == n % Byte
<1>1. Byte \in Nat /\ Byte > 1 /\ n \in Nat /\ n < Byte * Byte
  BY Bounds DEF Addr!Port, Addr!PORT_MAX
<1>2. n = Byte * q + r /\ q \in Int /\ r \in 0 .. Byte - 1
  BY <1>1
<1> HIDE DEF q, r
<1>3. q \in 0 .. Byte - 1
  <2>1. CASE q < 0
    BY <1>1, <1>2, <2>1
  <2>2. CASE q >= Byte
    BY <1>1, <1>2, <2>2
  <2> QED
    BY <1>1, <1>2, <2>1, <2>2
<1>4. Addr!htons(n) = Byte * r + q
  BY <1>1, <1>2, <1>3 DEF Addr!htons, q, r
<1>5. (Byte * r + q) % Byte = q /\ (Byte * r + q) \div Byte = r
  BY <1>1, <1>2, <1>3
<1>6. Byte * r + q \in 0 .. Byte * Byte - 1
  <2>1. Byte * r <= Byte * (Byte - 1)
    BY <1>1, <1>2
  <2> QED
    BY <1>1, <1>2, <1>3, <2>1
<1>7. Addr!htons(Byte * r + q) = n
  BY <1>1, <1>2, <1>3, <1>5 DEF Addr!htons
<1> QED
  BY <1>4, <1>6, <1>7 DEF Addr!Port, Addr!PORT_MAX

(* What eo_parse_addr_limited makes of an address. *)
LEMMA Limited ==
    ASSUME NEW h \in Addr!Host, NEW n \in Addr!Port, NEW d \in Dest,
           NEW r, r = Addr!eo_parse_addr_limited(h, n, d)
    PROVE  \/ r.result = -1 /\ r.dest = d
           \/ /\ r.result = 0 /\ h.name \in V6 /\ r.dest \in Dest
              /\ r.dest.family = "v6" /\ r.dest.addr6 = h.name
              /\ r.dest.port = Addr!htons(n)
           \/ /\ r.result = 0 /\ h.name \in V4 /\ r.dest \in Dest
              /\ r.dest.family = "v4" /\ r.dest.word = h.name
              /\ r.dest.port = Addr!htons(n)
<1> DEFINE u == Addr!Unbracketed(h)
<1>1. u.name = h.name
  BY DEF Addr!Unbracketed, Addr!Host
<1> HIDE DEF u
<1>2. Addr!htons(n) \in Addr!Port
  BY BackAgain
<1>3. CASE Addr!InetPton(V6, u)
  <2>1. r = [result |-> 0,
             dest |-> [d EXCEPT !.addr6 = u.name, !.port = Addr!htons(n), !.family = "v6"]]
    BY <1>3 DEF Addr!eo_parse_addr_limited, u
  <2>2. h.name \in V6
    BY <1>1, <1>3 DEF Addr!InetPton
  <2>3. PICK name, z : name = h.name /\ z = Addr!htons(n)
    OBVIOUS
  <2>4. PICK e : e = [d EXCEPT !.addr6 = name, !.port = z, !.family = "v6"]
    OBVIOUS
  <2>5. r.result = 0 /\ r.dest = e
    BY <1>1, <2>1, <2>3, <2>4
  <2>6. name \in V6 /\ z \in Addr!Port
    BY <1>2, <2>2, <2>3
  <2>7. e.family = "v6" /\ e.addr6 = name /\ e.port = z /\ e \in Dest
    BY ONLY d \in Dest, <2>4, <2>6 DEF Dest
  <2> QED
    BY <2>2, <2>3, <2>5, <2>7
<1>4. CASE ~Addr!InetPton(V6, u) /\ Addr!InetPton(V4, u)
  <2>1. r = [result |-> 0,
             dest |-> [d EXCEPT !.word = u.name, !.port = Addr!htons(n), !.family = "v4"]]
    BY <1>4 DEF Addr!eo_parse_addr_limited, u
  <2>2. h.name \in V4
    BY <1>1, <1>4 DEF Addr!InetPton
  <2>3. PICK name, z : name = h.name /\ z = Addr!htons(n)
    OBVIOUS
  <2>4. PICK e : e = [d EXCEPT !.word = name, !.port = z, !.family = "v4"]
    OBVIOUS
  <2>5. r.result = 0 /\ r.dest = e
    BY <1>1, <2>1, <2>3, <2>4
  <2>6. name \in V4 /\ z \in Addr!Port
    BY <1>2, <2>2, <2>3
  <2>7. e.family = "v4" /\ e.word = name /\ e.port = z /\ e \in Dest
    BY ONLY d \in Dest, <2>4, <2>6 DEF Dest
  <2> QED
    BY <2>2, <2>3, <2>5, <2>7
<1>5. CASE ~Addr!InetPton(V6, u) /\ ~Addr!InetPton(V4, u)
  BY <1>5 DEF Addr!eo_parse_addr_limited, u
<1> QED
  BY <1>3, <1>4, <1>5

(* A call that parses fails and leaves the address alone, or sets it.      *)
Fails == Addr!Parses(call') /\ result' = -1 /\ dest' = dest /\ str' = str

Sets ==
    /\ Addr!Parses(call') /\ result' = 0 /\ str' = str
    /\ text'.host.name \in V4 \cup V6
    /\ dest' \in Dest /\ dest'.port = Addr!htons(text'.port)
    /\ dest'.family = (IF text'.host.name \in V4 THEN "v4" ELSE "v6")
    /\ text'.host.name = (IF text'.host.name \in V4 THEN dest'.word ELSE dest'.addr6)

LEMMA LimitedSets ==
    ASSUME dest \in Dest, NEW t, t.host \in Addr!Host, t.port \in Addr!Port, NEW name,
           Addr!Parses(name),
           Addr!Returns(name, t, Addr!eo_parse_addr_limited(t.host, t.port, dest)), str' = str
    PROVE  Fails \/ Sets
<1> DEFINE r == Addr!eo_parse_addr_limited(t.host, t.port, dest)
<1>1. call' = name /\ text' = t /\ result' = r.result /\ dest' = r.dest
  BY DEF Addr!Returns
<1>2. \/ r.result = -1 /\ r.dest = dest
      \/ /\ r.result = 0 /\ t.host.name \in V6 /\ r.dest \in Dest
         /\ r.dest.family = "v6" /\ r.dest.addr6 = t.host.name
         /\ r.dest.port = Addr!htons(t.port)
      \/ /\ r.result = 0 /\ t.host.name \in V4 /\ r.dest \in Dest
         /\ r.dest.family = "v4" /\ r.dest.word = t.host.name
         /\ r.dest.port = Addr!htons(t.port)
  BY Limited
<1> HIDE DEF r
<1>3. CASE r.result = -1 /\ r.dest = dest
  BY <1>1, <1>3 DEF Fails
<1>4. CASE /\ r.result = 0 /\ t.host.name \in V6 /\ r.dest \in Dest
           /\ r.dest.family = "v6" /\ r.dest.addr6 = t.host.name
           /\ r.dest.port = Addr!htons(t.port)
  <2>1. t.host.name \notin V4
    BY <1>4, Bounds
  <2> QED
    BY <1>1, <1>4, <2>1 DEF Sets
<1>5. CASE /\ r.result = 0 /\ t.host.name \in V4 /\ r.dest \in Dest
           /\ r.dest.family = "v4" /\ r.dest.word = t.host.name
           /\ r.dest.port = Addr!htons(t.port)
  BY <1>1, <1>5 DEF Sets
<1> QED
  BY <1>2, <1>3, <1>4, <1>5

(* Every call fails, sets the address or formats it. *)
LEMMA AddrSteps ==
    ASSUME AddrIInv, Addr!Next
    PROVE  Fails \/ Sets \/ Addr!eo_addr_to_str
<1>1. ASSUME NEW h \in Addr!Host, NEW n \in Addr!Port, Addr!eo_parse_addr(h, n)
      PROVE  Fails \/ Sets
  <2>1. PICK t : t = [host |-> h, port |-> n]
    OBVIOUS
  <2>2. t.host = h /\ t.port = n
    BY <2>1
  <2>3. Addr!Returns("parse", t, Addr!eo_parse_addr_limited(t.host, t.port, dest)) /\ str' = str
    BY <1>1, <2>1, <2>2 DEF Addr!eo_parse_addr
  <2>4. Addr!Parses("parse")
    BY DEF Addr!Parses
  <2> QED
    BY <2>2, <2>3, <2>4, LimitedSets DEF AddrIInv
<1>2. ASSUME NEW t, t.host = None \/ (t.host \in Addr!Host /\ t.port \in Int),
             Addr!eo_parse_addr_port(t)
      PROVE  Fails \/ Sets
  <2>1. Addr!Parses("parse_port") /\ str' = str
    BY <1>2 DEF Addr!Parses, Addr!eo_parse_addr_port
  <2>2. CASE Addr!Returns("parse_port", t, Addr!Failure)
    BY <2>1, <2>2 DEF Addr!Returns, Addr!Failure, Fails
  <2>3. CASE /\ t.host # None /\ ~(t.port <= 0 \/ t.port > Addr!SHRT_MAX)
             /\ Addr!Returns("parse_port", t,
                              Addr!eo_parse_addr_limited(t.host, t.port, dest))
    <3>1. t.port \in Addr!Port
      <4>1. Byte * Byte \in Nat
        BY Bounds
      <4>2. (Byte * Byte) \div 2 <= Byte * Byte /\ (Byte * Byte) \div 2 \in Int
        BY <4>1
      <4> QED
        BY <1>2, <2>3, <4>1, <4>2 DEF Addr!SHRT_MAX, Addr!PORT_MAX, Addr!Port
    <3> QED
      BY <1>2, <2>1, <2>3, <3>1, LimitedSets DEF AddrIInv
  <2> QED
    BY <1>2, <2>2, <2>3 DEF Addr!eo_parse_addr_port
<1>3. ASSUME NEW t \in Addr!Text
      PROVE  t.host = None \/ (t.host \in Addr!Host /\ t.port \in Int)
  <2>1. CASE t \in [host : Addr!Host, port : -1 .. Byte * Byte]
    <3>1. Byte * Byte \in Nat
      BY Bounds
    <3> QED
      BY <2>1, <3>1
  <2>2. CASE t = [host |-> None, port |-> 1]
    BY <2>2
  <2> QED
    BY <2>1, <2>2 DEF Addr!Text
<1>4. ASSUME str # None
      PROVE  str.host = None \/ (str.host \in Addr!Host /\ str.port \in Int)
  <2>1. Addr!Port \subseteq Int
    BY Bounds DEF Addr!Port, Addr!PORT_MAX
  <2> QED
    BY <1>4, <2>1 DEF AddrIInv
<1> QED
  BY <1>1, <1>2, <1>3, <1>4 DEF Addr!Next

LEMMA AddrInit == Addr!Init => AddrIInv
<1> SUFFICES ASSUME Addr!Init PROVE AddrIInv
  OBVIOUS
<1>1. dest \in Dest /\ dest.family = None
  <2>1. 0 \in Addr!Port
    <3>1. Byte * Byte > 0
      BY Bounds
    <3> QED
      BY <3>1, Bounds DEF Addr!Port, Addr!PORT_MAX
  <2> QED
    BY <2>1 DEF Addr!Init, Dest
<1>2. None # "v4" /\ None # "v6"
  BY NoneAssumption
<1>3. call = "none" /\ str = None
  BY DEF Addr!Init
<1> QED
  BY <1>1, <1>2, <1>3 DEF AddrIInv, Addr!ParsedAsWritten, Addr!Parses

(* What has been set is what was written. *)
LEMMA SetsWritten ==
    ASSUME AddrIInv, Sets
    PROVE  AddrIInv'
<1>1. dest' \in Dest /\ str' = str /\ call' # "to_str"
  BY DEF Sets, Addr!Parses
<1>2. dest'.family \in {"v4", "v6"} /\ dest'.family # None
  BY NoneAssumption DEF Sets
<1>3. /\ dest'.family = "v4" => dest'.word \in V4
      /\ dest'.family = "v6" => dest'.addr6 \in V6
  BY DEF Sets
<1>4. Addr!ParsedAsWritten'
  <2>1. dest'.port = Addr!htons(text'.port)
    BY DEF Sets
  <2>2. CASE text'.host.name \in V4
    <3>1. dest'.family = "v4" /\ text'.host.name \notin V6 /\ text'.host.name = dest'.word
      BY <2>2, Bounds DEF Sets
    <3> QED
      BY <2>1, <2>2, <3>1 DEF Addr!ParsedAsWritten, Addr!eo_addr_size, Addr!htons
  <2>3. CASE text'.host.name \notin V4
    <3>1. dest'.family = "v6" /\ text'.host.name \in V6 /\ text'.host.name = dest'.addr6
      BY <2>3 DEF Sets
    <3> QED
      BY <2>1, <2>3, <3>1 DEF Addr!ParsedAsWritten, Addr!eo_addr_size, Addr!htons
  <2> QED
    BY <2>2, <2>3
<1> QED
  BY <1>1, <1>2, <1>3, <1>4 DEF AddrIInv

(* A text that has been formatted has a host and a port. *)
LEMMA FormattedIsText ==
    ASSUME AddrIInv, dest.family # None, NEW s, s = Addr!Formatted(dest)
    PROVE  s.host \in Addr!Host /\ s.port \in Addr!Port
<1>1. PICK word, port : /\ word = (IF dest.family = "v4" THEN dest.word ELSE dest.addr6)
                        /\ port = dest.port
  OBVIOUS
<1>2. word \in V4 \cup V6 \cup Other /\ port \in Addr!Port
  <2>1. dest.family \in {"v4", "v6"} /\ dest.port \in Addr!Port
    BY DEF AddrIInv, Dest
  <2> QED
    BY <1>1, <2>1 DEF AddrIInv
<1>3. /\ s.host = [name |-> word, open |-> FALSE, close |-> FALSE, junk |-> FALSE]
      /\ s.port = Addr!htons(port)
  BY <1>1 DEF Addr!Formatted, Addr!ntohs
<1>4. s.host \in Addr!Host
  BY <1>2, <1>3 DEF Addr!Host
<1> QED
  BY <1>2, <1>3, <1>4, BackAgain

LEMMA AddrNext ==
    ASSUME AddrIInv, [Addr!Next]_(Addr!vars)
    PROVE  AddrIInv'
<1>1. CASE UNCHANGED Addr!vars
  BY <1>1 DEF Addr!vars, AddrIInv, Addr!ParsedAsWritten, Addr!Parses, Addr!eo_addr_size,
              Addr!htons, Addr!Formatted, Addr!ntohs
<1>2. CASE Fails
  <2>1. dest' = dest /\ str' = str /\ call' # "to_str" /\ result' # 0
    BY <1>2 DEF Fails, Addr!Parses
  <2> QED
    BY <2>1 DEF AddrIInv, Addr!ParsedAsWritten
<1>3. CASE Sets
  BY <1>3, SetsWritten
<1>4. CASE Addr!eo_addr_to_str
  <2>1. /\ dest' = dest /\ call' = "to_str"
        /\ str' = IF dest.family = None THEN str ELSE Addr!Formatted(dest)
    BY <1>4 DEF Addr!eo_addr_to_str, Addr!Returns
  <2>2. ~Addr!Parses("to_str")
    BY DEF Addr!Parses
  <2>3. Addr!ParsedAsWritten'
    BY <2>1, <2>2 DEF Addr!ParsedAsWritten, Addr!Parses
  <2>4. CASE dest.family = None
    BY <2>1, <2>3, <2>4 DEF AddrIInv
  <2>5. CASE dest.family # None
    <3>1. str' = Addr!Formatted(dest) /\ Addr!Formatted(dest)' = Addr!Formatted(dest)
      BY <2>1, <2>5 DEF Addr!Formatted, Addr!ntohs, Addr!htons
    <3>2. str'.host \in Addr!Host /\ str'.port \in Addr!Port
      BY <2>5, <3>1, FormattedIsText
    <3> QED
      BY <2>1, <2>3, <2>5, <3>1, <3>2 DEF AddrIInv
  <2> QED
    BY <2>4, <2>5
<1> QED
  BY <1>1, <1>2, <1>3, <1>4, AddrSteps

(* What parse_port has been given is a text. *)
LEMMA GivenIsText ==
    ASSUME Addr!Next, call' = "parse_port"
    PROVE  text' # None
<1>1. \A t : Addr!eo_parse_addr_port(t) => text' = t
  BY DEF Addr!eo_parse_addr_port, Addr!Returns
<1>2. \A h \in Addr!Host, n \in Addr!Port : ~Addr!eo_parse_addr(h, n)
  BY DEF Addr!eo_parse_addr, Addr!Returns
<1>3. ~Addr!eo_addr_to_str
  BY DEF Addr!eo_addr_to_str, Addr!Returns
<1> QED
  BY <1>1, <1>2, <1>3, NoneAssumption DEF Addr!Next

(* A text that was formatted and is parsed gives the address again. *)
LEMMA ParsesBack ==
    ASSUME AddrIInv, Addr!Next, call = "to_str", call' = "parse_port", text' = str, result' = 0
    PROVE  /\ dest'.family = dest.family /\ dest'.port = dest.port
           /\ dest.family = "v4" => dest'.word = dest.word
           /\ dest.family = "v6" => dest'.addr6 = dest.addr6
<1>1. Sets
  BY AddrSteps DEF Fails, Addr!eo_addr_to_str, Addr!Returns
<1>2. dest.family # None /\ str = Addr!Formatted(dest)
  BY GivenIsText DEF AddrIInv
<1>3. /\ str.host.name = (IF dest.family = "v4" THEN dest.word ELSE dest.addr6)
      /\ str.port = Addr!htons(dest.port)
  BY <1>2 DEF Addr!Formatted, Addr!ntohs
<1>4. dest.family \in {"v4", "v6"} /\ dest.port \in Addr!Port
  BY <1>2 DEF AddrIInv, Dest
<1>5. dest'.port = dest.port
  BY <1>1, <1>3, <1>4, BackAgain DEF Sets
<1>6. CASE dest.family = "v4"
  <2>1. str.host.name = dest.word /\ str.host.name \in V4
    BY <1>3, <1>6 DEF AddrIInv
  <2> QED
    BY <1>1, <1>5, <1>6, <2>1 DEF Sets
<1>7. CASE dest.family = "v6"
  <2>1. str.host.name = dest.addr6 /\ str.host.name \in V6 /\ str.host.name \notin V4
    BY <1>3, <1>7, Bounds DEF AddrIInv
  <2> QED
    BY <1>1, <1>5, <1>7, <2>1 DEF Sets
<1> QED
  BY <1>4, <1>6, <1>7

-------------------------------------------------------------------------------
(***************************************************************************)
(* The buffered reader.                                                    *)
(***************************************************************************)

ReaderTypeOK ==
    /\ came \in Seq(Reader!Char) /\ input \in Seq(Reader!Char)
    /\ got \in Seq(Nat)
    /\ buf \in [1 .. BufSize -> Reader!Char]
    /\ size \in 0 .. BufSize /\ read_offset \in 0 .. size

(* What has come is split in three: returned, in the buffer, to come. *)
ReaderIInv ==
    /\ ReaderTypeOK
    /\ Len(got) + (size - read_offset) + Len(input) = Len(came)
    /\ \A m \in 1 .. Len(got) : got[m] = Reader!AsInt(came[m])
    /\ \A m \in 1 .. size - read_offset : buf[read_offset + m] = came[Len(got) + m]
    /\ \A m \in 1 .. Len(input) : input[m] = came[Len(got) + (size - read_offset) + m]

(* No character is read as -1. *)
LEMMA IntsAreNaturals == \A c \in Reader!Char : Reader!AsInt(c) \in Nat
  BY Bounds DEF Reader!Char, Reader!AsInt

LEMMA IntsOf ==
    ASSUME NEW s \in Seq(Reader!Char), NEW t, t = Reader!Ints(s)
    PROVE  /\ t \in Seq(Nat) /\ Len(t) = Len(s)
           /\ \A m \in 1 .. Len(s) : t[m] = Reader!AsInt(s[m])
<1>1. Len(s) \in Nat
  BY LenProperties
<1>2. \A m \in 1 .. Len(s) : Reader!AsInt(s[m]) \in Nat
  BY ElementOfSeq, IntsAreNaturals
<1>3. t = [m \in 1 .. Len(s) |-> Reader!AsInt(s[m])]
  BY DEF Reader!Ints
<1>4. t \in [1 .. Len(s) -> Nat]
  BY <1>2, <1>3
<1> QED
  BY <1>1, <1>3, <1>4, SeqOfLength

LEMMA ReaderConserves == ReaderIInv => Reader!Conserved
<1> SUFFICES ASSUME ReaderIInv PROVE Reader!Conserved
  OBVIOUS
<1>0. /\ came \in Seq(Reader!Char) /\ input \in Seq(Reader!Char) /\ got \in Seq(Nat)
      /\ buf \in [1 .. BufSize -> Reader!Char]
      /\ Len(got) + (size - read_offset) + Len(input) = Len(came)
  BY DEF ReaderIInv, ReaderTypeOK
<1>1. /\ Len(got) \in Nat /\ Len(input) \in Nat /\ Len(came) \in Nat /\ BufSize \in Nat
      /\ size \in Nat /\ read_offset \in Nat /\ read_offset <= size /\ size <= BufSize
  BY Bounds DEF ReaderIInv, ReaderTypeOK
<1>a. \A m \in 1 .. Len(got) : got[m] = Reader!AsInt(came[m])
  BY DEF ReaderIInv
<1>b. \A m \in 1 .. size - read_offset : buf[read_offset + m] = came[Len(got) + m]
  BY DEF ReaderIInv
<1>c. \A m \in 1 .. Len(input) : input[m] = came[Len(got) + (size - read_offset) + m]
  BY DEF ReaderIInv
<1>2. PICK rest : rest = SubSeq(buf, read_offset + 1, size)
  OBVIOUS
<1>3. /\ rest \in Seq(Reader!Char) /\ Len(rest) = size - read_offset
      /\ \A m \in 1 .. size - read_offset : rest[m] = buf[read_offset + m]
  <2>1. \A m \in read_offset + 1 .. size : buf[m] \in Reader!Char
    <3>1. read_offset + 1 .. size \subseteq 1 .. BufSize
      BY <1>1
    <3> QED
      BY ONLY <1>0, <3>1
  <2>2. /\ rest \in Seq(Reader!Char)
        /\ Len(rest) = IF read_offset + 1 <= size THEN size - (read_offset + 1) + 1 ELSE 0
        /\ \A m \in 1 .. size - (read_offset + 1) + 1 : rest[m] = buf[read_offset + 1 + m - 1]
    BY <1>1, <1>2, <2>1, SubSeqProperties
  <2>3. \A m \in 1 .. size - read_offset : read_offset + 1 + m - 1 = read_offset + m
    BY <1>1
  <2>4. Len(rest) = size - read_offset
    BY <1>1, <2>2
  <2>5. \A m \in 1 .. size - read_offset : m \in 1 .. size - (read_offset + 1) + 1
    BY <1>1
  <2> QED
    BY ONLY <2>2, <2>3, <2>4, <2>5
<1>4. PICK left : left = rest \o input
  OBVIOUS
<1>5. /\ left \in Seq(Reader!Char) /\ Len(left) = Len(came) - Len(got)
      /\ \A m \in 1 .. Len(came) - Len(got) : left[m] = came[Len(got) + m]
  <2>1. /\ left \in Seq(Reader!Char) /\ Len(left) = Len(rest) + Len(input)
        /\ \A m \in 1 .. Len(rest) + Len(input) :
              left[m] = IF m <= Len(rest) THEN rest[m] ELSE input[m - Len(rest)]
    BY ONLY <1>0, <1>3, <1>4, ConcatProperties
  <2>2. Len(rest) + Len(input) = Len(came) - Len(got)
    BY <1>0, <1>1, <1>3
  <2>3. ASSUME NEW m \in 1 .. Len(came) - Len(got), m <= Len(rest)
        PROVE  left[m] = came[Len(got) + m]
    <3>1. m \in 1 .. size - read_offset /\ m \in 1 .. Len(rest) + Len(input)
      BY <1>1, <1>3, <2>2, <2>3
    <3> QED
      BY <1>3, <1>b, <2>1, <2>3, <3>1
  <2>4. ASSUME NEW m \in 1 .. Len(came) - Len(got), m > Len(rest)
        PROVE  left[m] = came[Len(got) + m]
    <3>1. m - Len(rest) \in 1 .. Len(input)
      BY <1>1, <1>3, <2>2, <2>4
    <3>2. input[m - Len(rest)] = came[Len(got) + (size - read_offset) + (m - Len(rest))]
      BY <1>c, <3>1
    <3>3. Len(got) + (size - read_offset) + (m - Len(rest)) = Len(got) + m
      BY <1>1, <1>3
    <3>4. m \in 1 .. Len(rest) + Len(input) /\ ~(m <= Len(rest))
      BY <1>1, <1>3, <2>2, <2>4
    <3>5. left[m] = input[m - Len(rest)]
      BY ONLY <2>1, <3>4
    <3> QED
      BY <3>2, <3>3, <3>5
  <2>5. Len(rest) \in Nat
    BY <1>1, <1>3
  <2>6. \A m \in 1 .. Len(came) - Len(got) : m <= Len(rest) \/ m > Len(rest)
    BY <2>5
  <2>7. \A m \in 1 .. Len(came) - Len(got) : left[m] = came[Len(got) + m]
    BY <2>3, <2>4, <2>6
  <2> QED
    BY <2>1, <2>2, <2>7
<1>6. PICK ints, whole : ints = Reader!Ints(left) /\ whole = Reader!Ints(came)
  OBVIOUS
<1>7. /\ ints \in Seq(Nat) /\ Len(ints) = Len(left)
      /\ \A m \in 1 .. Len(left) : ints[m] = Reader!AsInt(left[m])
  BY ONLY <1>5, <1>6, IntsOf
<1>8. /\ whole \in Seq(Nat) /\ Len(whole) = Len(came)
      /\ \A m \in 1 .. Len(came) : whole[m] = Reader!AsInt(came[m])
  BY ONLY <1>0, <1>6, IntsOf
<1>9. PICK all : all = got \o ints
  OBVIOUS
<1>10. /\ all \in Seq(Nat) /\ Len(all) = Len(got) + Len(ints)
       /\ \A m \in 1 .. Len(got) + Len(ints) :
             all[m] = IF m <= Len(got) THEN got[m] ELSE ints[m - Len(got)]
  <2>1. PICK g : g = got
    OBVIOUS
  <2>2. g \in Seq(Nat) /\ ints \in Seq(Nat)
    BY <1>0, <1>7, <2>1
  <2>3. /\ g \o ints \in Seq(Nat) /\ Len(g \o ints) = Len(g) + Len(ints)
        /\ \A m \in 1 .. Len(g) + Len(ints) :
              (g \o ints)[m] = IF m <= Len(g) THEN g[m] ELSE ints[m - Len(g)]
    BY ONLY <2>2, ConcatProperties
  <2> QED
    BY ONLY <1>9, <2>1, <2>3
<1>11. Len(all) = Len(whole)
  BY <1>0, <1>1, <1>5, <1>7, <1>8, <1>10
<1>12. ASSUME NEW m \in 1 .. Len(all)
       PROVE  all[m] = whole[m]
  <2>1. m \in 1 .. Len(came) /\ m \in 1 .. Len(got) + Len(ints)
    BY <1>8, <1>10, <1>11, <1>12
  <2>2. CASE m <= Len(got)
    <3>1. m \in 1 .. Len(got)
      BY <1>1, <2>1, <2>2
    <3> QED
      BY <1>8, <1>10, <1>a, <2>1, <2>2, <3>1
  <2>3. CASE m > Len(got)
    <3>1. m - Len(got) \in 1 .. Len(came) - Len(got) /\ Len(got) + (m - Len(got)) = m
      BY <1>1, <2>1, <2>3
    <3>2. all[m] = ints[m - Len(got)]
      BY <1>1, <1>10, <2>1, <2>3
    <3>3. ints[m - Len(got)] = Reader!AsInt(left[m - Len(got)])
      BY <1>5, <1>7, <3>1
    <3>4. left[m - Len(got)] = came[m]
      BY <1>5, <3>1
    <3> QED
      BY <1>8, <2>1, <3>2, <3>3, <3>4
  <2> QED
    BY <1>1, <2>1, <2>2, <2>3
<1>13. all = whole
  BY <1>8, <1>10, <1>11, <1>12, SeqEqual
<1> QED
  BY <1>1, <1>2, <1>4, <1>6, <1>9, <1>13 DEF Reader!Conserved

LEMMA ReaderInit == Reader!Init => ReaderIInv
<1> SUFFICES ASSUME Reader!Init PROVE ReaderIInv
  OBVIOUS
<1>1. came \in Seq(Reader!Char) /\ input = came
  <2>1. PICK n \in 0 .. MaxInput : came \in [1 .. n -> Reader!Char]
    BY DEF Reader!Init, Reader!SeqOf
  <2>2. n \in Nat
    BY Bounds
  <2> QED
    BY <2>1, <2>2, SeqOfLength DEF Reader!Init
<1>2. buf \in [1 .. BufSize -> Reader!Char]
  <2>1. 0 \in Reader!Char
    BY Bounds DEF Reader!Char
  <2> QED
    BY <2>1 DEF Reader!Init
<1>3. read_offset = 0 /\ size = 0 /\ got = <<>>
  BY DEF Reader!Init
<1>4. Len(came) \in Nat /\ Len(got) = 0 /\ got \in Seq(Nat)
  BY <1>1, <1>3, LenProperties, EmptySeq
<1> QED
  BY <1>1, <1>2, <1>3, <1>4, Bounds DEF ReaderIInv, ReaderTypeOK

(* One character is taken from the buffer. *)
LEMMA TakeKeeps ==
    ASSUME ReaderTypeOK, NEW c \in Nat, got' = Append(got, c)
    PROVE  /\ got' \in Seq(Nat) /\ Len(got') = Len(got) + 1 /\ Len(got) \in Nat
           /\ \A m \in 1 .. Len(got) : got'[m] = got[m]
           /\ got'[Len(got) + 1] = c
  BY AppendProperties DEF ReaderTypeOK

LEMMA FromBufferKeeps ==
    ASSUME ReaderIInv, Reader!FromBuffer
    PROVE  ReaderIInv'
<1>0. /\ came \in Seq(Reader!Char) /\ input \in Seq(Reader!Char) /\ got \in Seq(Nat)
      /\ buf \in [1 .. BufSize -> Reader!Char] /\ BufSize \in Nat
      /\ Len(got) + (size - read_offset) + Len(input) = Len(came)
  BY Bounds DEF ReaderIInv, ReaderTypeOK
<1>a. \A m \in 1 .. Len(got) : got[m] = Reader!AsInt(came[m])
  BY DEF ReaderIInv
<1>b. \A m \in 1 .. size - read_offset : buf[read_offset + m] = came[Len(got) + m]
  BY DEF ReaderIInv
<1>c. \A m \in 1 .. Len(input) : input[m] = came[Len(got) + (size - read_offset) + m]
  BY DEF ReaderIInv
<1>1. /\ read_offset < size /\ read_offset' = read_offset + 1
      /\ got' = Append(got, Reader!AsInt(buf[read_offset + 1]))
      /\ input' = input /\ came' = came /\ buf' = buf /\ size' = size
  BY DEF Reader!FromBuffer, Reader!Take
<1>2. /\ Len(got) \in Nat /\ Len(input) \in Nat /\ Len(came) \in Nat
      /\ size \in Nat /\ read_offset \in Nat /\ size <= BufSize
  BY Bounds DEF ReaderIInv, ReaderTypeOK
<1>3. PICK c : c = buf[read_offset + 1]
  OBVIOUS
<1>4. c \in Reader!Char /\ c = came[Len(got) + 1]
  <2>1. read_offset + 1 \in 1 .. BufSize /\ 1 \in 1 .. size - read_offset
    BY <1>0, <1>1, <1>2
  <2> QED
    BY ONLY <1>0, <1>3, <1>b, <2>1
<1>5. /\ got' \in Seq(Nat) /\ Len(got') = Len(got) + 1
      /\ \A m \in 1 .. Len(got) : got'[m] = got[m]
      /\ got'[Len(got) + 1] = Reader!AsInt(c)
  <2>1. Reader!AsInt(c) \in Nat /\ got' = Append(got, Reader!AsInt(c))
    BY <1>1, <1>3, <1>4, IntsAreNaturals
  <2> QED
    BY <2>1, TakeKeeps DEF ReaderIInv
<1>6. \A m \in 1 .. Len(got') : got'[m] = Reader!AsInt(came[m])
  <2>1. \A m \in 1 .. Len(got') : m \in 1 .. Len(got) \/ m = Len(got) + 1
    BY <1>2, <1>5
  <2> QED
    BY ONLY <1>4, <1>5, <1>a, <2>1
<1>7. ASSUME NEW m \in 1 .. size - read_offset'
      PROVE  buf[read_offset' + m] = came[Len(got') + m]
  <2>1. /\ m + 1 \in 1 .. size - read_offset
        /\ read_offset' + m = read_offset + (m + 1) /\ Len(got') + m = Len(got) + (m + 1)
    BY <1>1, <1>2, <1>5, <1>7
  <2> QED
    BY <1>b, <2>1
<1>8. Len(got') + (size - read_offset') = Len(got) + (size - read_offset)
  BY <1>1, <1>2, <1>5
<1>9. \A m \in 1 .. Len(input) : input[m] = came[Len(got') + (size - read_offset') + m]
  BY <1>8, <1>c
<1>10. ReaderTypeOK' /\ Len(got') + (size - read_offset') + Len(input) = Len(came)
  <2>1. read_offset' \in 0 .. size /\ size \in 0 .. BufSize
    BY <1>0, <1>1, <1>2
  <2> QED
    BY <1>0, <1>1, <1>5, <1>8, <2>1 DEF ReaderTypeOK
<1>11. \A m \in 1 .. Len(got') : got'[m] = Reader!AsInt(came[m])'
  BY <1>1, <1>6 DEF Reader!AsInt
<1> QED
  BY <1>1, <1>7, <1>9, <1>10, <1>11 DEF ReaderIInv

LEMMA FillKeeps ==
    ASSUME ReaderIInv, Reader!Fill
    PROVE  ReaderIInv'
<1>0. /\ came \in Seq(Reader!Char) /\ input \in Seq(Reader!Char) /\ got \in Seq(Nat)
      /\ buf \in [1 .. BufSize -> Reader!Char] /\ BufSize \in Nat
      /\ Len(got) + (size - read_offset) + Len(input) = Len(came)
  BY Bounds DEF ReaderIInv, ReaderTypeOK
<1>a. \A m \in 1 .. Len(got) : got[m] = Reader!AsInt(came[m])
  BY DEF ReaderIInv
<1>b. \A m \in 1 .. size - read_offset : buf[read_offset + m] = came[Len(got) + m]
  BY DEF ReaderIInv
<1>c. \A m \in 1 .. Len(input) : input[m] = came[Len(got) + (size - read_offset) + m]
  BY DEF ReaderIInv
<1>1. PICK n \in 1 .. BufSize :
          /\ n <= Len(input)
          /\ buf' = [m \in 1 .. BufSize |-> IF m <= n THEN input[m] ELSE buf[m]]
          /\ input' = SubSeq(input, n + 1, Len(input))
          /\ size' = n /\ read_offset' = 0 + 1
          /\ got' = Append(got, Reader!AsInt(buf'[0 + 1]))
  BY DEF Reader!Fill, Reader!Take
<1>2. came' = came /\ read_offset = size
  BY Bounds DEF Reader!Fill, ReaderIInv, ReaderTypeOK
<1>3. /\ Len(got) \in Nat /\ Len(input) \in Nat /\ Len(came) \in Nat /\ n \in Nat /\ n >= 1
      /\ BufSize \in Nat /\ n <= BufSize /\ Len(got) + Len(input) = Len(came)
      /\ size - read_offset = 0
  BY <1>0, <1>2, Bounds DEF ReaderIInv, ReaderTypeOK
<1>4. \A m \in 1 .. Len(input) : input[m] \in Reader!Char /\ input[m] = came[Len(got) + m]
  <2>1. \A m \in 1 .. Len(input) : Len(got) + (size - read_offset) + m = Len(got) + m
    BY <1>3
  <2> QED
    BY <1>0, <1>c, <2>1, ElementOfSeq
<1>5. buf' \in [1 .. BufSize -> Reader!Char]
  <2>1. \A m \in 1 .. BufSize : m <= n => m \in 1 .. Len(input)
    BY <1>1, <1>3
  <2> QED
    BY <1>0, <1>1, <1>4, <2>1
<1>6. \A m \in 1 .. n : buf'[m] = came[Len(got) + m]
  <2>1. \A m \in 1 .. n : m \in 1 .. BufSize /\ m <= n /\ m \in 1 .. Len(input)
    BY <1>1, <1>3
  <2> QED
    BY <1>1, <1>4, <2>1
<1>7. PICK c : c = buf'[1]
  OBVIOUS
<1>8. c \in Reader!Char /\ c = came[Len(got) + 1]
  <2>1. 1 \in 1 .. n /\ 1 \in 1 .. BufSize
    BY <1>3
  <2> QED
    BY ONLY <1>5, <1>6, <1>7, <2>1
<1>9. /\ got' \in Seq(Nat) /\ Len(got') = Len(got) + 1
      /\ \A m \in 1 .. Len(got) : got'[m] = got[m]
      /\ got'[Len(got) + 1] = Reader!AsInt(c)
  <2>1. Reader!AsInt(c) \in Nat /\ got' = Append(got, Reader!AsInt(c))
    BY <1>1, <1>7, <1>8, IntsAreNaturals
  <2> QED
    BY <2>1, TakeKeeps DEF ReaderIInv
<1>10. \A m \in 1 .. Len(got') : got'[m] = Reader!AsInt(came[m])
  <2>1. \A m \in 1 .. Len(got') : m \in 1 .. Len(got) \/ m = Len(got) + 1
    BY <1>3, <1>9
  <2> QED
    BY ONLY <1>8, <1>9, <1>a, <2>1
<1>11. /\ input' \in Seq(Reader!Char) /\ Len(input') = Len(input) - n
       /\ \A m \in 1 .. Len(input) - n : input'[m] = input[n + m]
  <2>1. \A m \in n + 1 .. Len(input) : input[m] \in Reader!Char
    BY <1>3, <1>4
  <2>a. n + 1 \in Int /\ Len(input) \in Int
    BY <1>3
  <2>2. /\ input' \in Seq(Reader!Char)
        /\ Len(input') = IF n + 1 <= Len(input) THEN Len(input) - (n + 1) + 1 ELSE 0
        /\ \A m \in 1 .. Len(input) - (n + 1) + 1 : input'[m] = input[n + 1 + m - 1]
    BY ONLY <1>1, <2>1, <2>a, SubSeqProperties
  <2>3. \A m \in 1 .. Len(input) - n : n + 1 + m - 1 = n + m
    BY <1>3
  <2> QED
    BY <1>1, <1>3, <2>2, <2>3
<1>12. ASSUME NEW m \in 1 .. size' - read_offset'
       PROVE  buf'[read_offset' + m] = came[Len(got') + m]
  <2>1. m + 1 \in 1 .. n /\ read_offset' + m = m + 1 /\ Len(got') + m = Len(got) + (m + 1)
    <3>1. size' = n /\ read_offset' = 1
      BY <1>1
    <3>2. n \in Nat /\ Len(got) \in Nat /\ Len(got') = Len(got) + 1
      BY <1>3, <1>9
    <3> QED
      BY ONLY <1>12, <3>1, <3>2
  <2> QED
    BY <1>6, <2>1
<1>13. ASSUME NEW m \in 1 .. Len(input')
       PROVE  input'[m] = came[Len(got') + (size' - read_offset') + m]
  <2>1. /\ n + m \in 1 .. Len(input)
        /\ Len(got') + (size' - read_offset') + m = Len(got) + (n + m)
        /\ m \in 1 .. Len(input) - n
    <3>1. m \in Nat /\ m >= 1 /\ m <= Len(input) - n
      BY <1>3, <1>11, <1>13
    <3>2. size' = n /\ read_offset' = 1
      BY <1>1
    <3>3. /\ n \in Nat /\ Len(got) \in Nat /\ Len(input) \in Nat
          /\ Len(got') = Len(got) + 1
      BY <1>3, <1>9
    <3> QED
      BY ONLY <3>1, <3>2, <3>3
  <2> QED
    BY <1>4, <1>11, <2>1
<1>14. ReaderTypeOK' /\ Len(got') + (size' - read_offset') + Len(input') = Len(came)
  <2>1. /\ read_offset' \in 0 .. size' /\ size' \in 0 .. BufSize
        /\ Len(got') + (size' - read_offset') + Len(input') = Len(came)
    <3>1. size' = n /\ read_offset' = 1
      BY <1>1
    <3>2. /\ n \in Nat /\ n >= 1 /\ n <= BufSize /\ BufSize \in Nat /\ Len(got) \in Nat
          /\ Len(got') = Len(got) + 1 /\ Len(input) \in Nat /\ Len(input') = Len(input) - n
          /\ Len(got) + Len(input) = Len(came)
      BY <1>3, <1>9, <1>11
    <3> QED
      BY ONLY <3>1, <3>2
  <2> QED
    BY <1>0, <1>2, <1>5, <1>9, <1>11, <2>1 DEF ReaderTypeOK
<1>15. \A m \in 1 .. Len(got') : got'[m] = Reader!AsInt(came[m])'
  BY <1>2, <1>10 DEF Reader!AsInt
<1> QED
  BY <1>2, <1>12, <1>13, <1>14, <1>15 DEF ReaderIInv

LEMMA ReaderNext ==
    ASSUME ReaderIInv, [Reader!Next]_(Reader!vars)
    PROVE  ReaderIInv'
<1>1. CASE UNCHANGED Reader!vars
  BY <1>1 DEF Reader!vars, ReaderIInv, ReaderTypeOK, Reader!AsInt
<1>2. CASE Reader!FromBuffer
  BY <1>2, FromBufferKeeps
<1>3. CASE Reader!Fill
  BY <1>3, FillKeeps
<1>4. CASE Reader!FillFails
  <2>1. /\ read_offset >= size /\ read_offset' = 0 /\ size' = 0
        /\ input' = input /\ came' = came /\ buf' = buf /\ got' = got
    BY <1>4 DEF Reader!FillFails
  <2>2. read_offset \in 0 .. size /\ size \in 0 .. BufSize /\ BufSize \in Nat
    BY Bounds DEF ReaderIInv, ReaderTypeOK
  <2>3. size - read_offset = 0 /\ size' - read_offset' = 0 /\ 0 \in 0 .. BufSize
    BY <2>1, <2>2
  <2>4. ReaderTypeOK'
    BY <2>1, <2>3 DEF ReaderIInv, ReaderTypeOK
  <2> QED
    BY <2>1, <2>3, <2>4 DEF ReaderIInv, Reader!AsInt
<1> QED
  BY <1>1, <1>2, <1>3, <1>4 DEF Reader!Next, Reader!nextchar

(* Only a call that takes nothing returns -1. *)
LEMMA MinusOneTakesNothing ==
    ASSUME ReaderIInv, Reader!Next, lc' = -1
    PROVE  got' = got /\ read_offset = size
<1>1. CASE Reader!FromBuffer
  <2>1. read_offset \in Nat /\ read_offset + 1 \in 1 .. BufSize
    BY <1>1, Bounds DEF Reader!FromBuffer, ReaderIInv, ReaderTypeOK
  <2>2. buf[read_offset + 1] \in Reader!Char
    BY <2>1 DEF ReaderIInv, ReaderTypeOK
  <2>3. lc' = Reader!AsInt(buf[read_offset + 1])
    BY <1>1 DEF Reader!FromBuffer, Reader!Take
  <2>4. lc' \in Nat
    BY <2>2, <2>3, IntsAreNaturals
  <2> QED
    BY <2>4
<1>2. CASE Reader!Fill
  <2>1. PICK n \in 1 .. BufSize :
            /\ n <= Len(input)
            /\ buf' = [m \in 1 .. BufSize |-> IF m <= n THEN input[m] ELSE buf[m]]
            /\ lc' = Reader!AsInt(buf'[0 + 1])
    BY <1>2 DEF Reader!Fill, Reader!Take
  <2>2. buf'[1] = input[1] /\ 1 \in 1 .. Len(input)
    BY <2>1, Bounds DEF ReaderIInv, ReaderTypeOK
  <2>3. lc' = Reader!AsInt(input[1]) /\ input[1] \in Reader!Char
    BY <2>1, <2>2, ElementOfSeq DEF ReaderIInv, ReaderTypeOK
  <2>4. lc' \in Nat
    BY <2>3, IntsAreNaturals
  <2> QED
    BY <2>4
<1>3. CASE Reader!FillFails
  BY <1>3, Bounds DEF Reader!FillFails, ReaderIInv, ReaderTypeOK
<1> QED
  BY <1>1, <1>2, <1>3 DEF Reader!Next, Reader!nextchar

-------------------------------------------------------------------------------
(***************************************************************************)
(* Merging and seeking.                                                    *)
(***************************************************************************)

LEMMA FilesCountAlike == \A S : Files!Cardinality(S) = Cardinality(S)
  BY DEF Files!Cardinality, Cardinality

(* How often v is among the first n of s. *)
Among(s, n, v) == {m \in 1 .. n : s[m] = v}
Times(s, n, v) == Cardinality(Among(s, n, v))
Hit(n, v) == IF n = v THEN 1 ELSE 0

LEMMA TimesOfNone == \A s, v : Times(s, 0, v) = 0
<1>1. \A s, v : Among(s, 0, v) = {}
  BY DEF Among
<1> QED
  BY <1>1, FS_EmptySet DEF Times

LEMMA AmongIsFinite ==
    ASSUME NEW s, NEW n \in Nat, NEW v
    PROVE  IsFiniteSet(Among(s, n, v)) /\ Times(s, n, v) \in Nat
<1>1. IsFiniteSet(1 .. n)
  BY FS_Interval
<1>2. Among(s, n, v) \in SUBSET (1 .. n)
  BY DEF Among
<1>3. IsFiniteSet(Among(s, n, v))
  BY <1>1, <1>2, FS_Subset
<1> QED
  BY <1>3, FS_CardinalityType DEF Times

LEMMA TimesOfMore ==
    ASSUME NEW s, NEW n \in Nat, NEW v
    PROVE  Times(s, n + 1, v) = Times(s, n, v) + Hit(s[n + 1], v)
<1> DEFINE few == Among(s, n, v)
<1>1. IsFiniteSet(few) /\ Cardinality(few) \in Nat
  BY AmongIsFinite DEF Times
<1>2. n + 1 \notin few
  BY DEF Among
<1>3. Among(s, n + 1, v) = IF s[n + 1] = v THEN few \cup {n + 1} ELSE few
  BY DEF Among
<1>4. Times(s, n, v) = Cardinality(few) /\ Times(s, n + 1, v) = Cardinality(Among(s, n + 1, v))
  BY DEF Times
<1> HIDE DEF few
<1>5. CASE s[n + 1] = v
  BY <1>1, <1>2, <1>3, <1>4, <1>5, FS_AddElement DEF Hit
<1>6. CASE s[n + 1] # v
  BY <1>1, <1>3, <1>4, <1>6 DEF Hit
<1> QED
  BY <1>5, <1>6

(* Where two sequences agree, they have each number as often. *)
LEMMA TimesAlike ==
    ASSUME NEW s, NEW n, NEW t, \A m \in 1 .. n : t[m] = s[m], NEW v
    PROVE  Times(t, n, v) = Times(s, n, v)
<1>1. Among(t, n, v) = Among(s, n, v)
  BY DEF Among
<1> QED
  BY <1>1 DEF Times

(* How many of the first file a stream has printed. *)
Printed(l) == IF open[l] THEN offset[l] - 1 ELSE offset[l]

FilesTimes == \A s, n, v : Files!Times(s, n, v) = Times(s, n, v)

LEMMA FilesCountTimes == FilesTimes /\ \A l : Files!Printed(l) = Printed(l)
<1>1. \A s, n, v : Files!Times(s, n, v) = Times(s, n, v)
  BY FilesCountAlike DEF Files!Times, Times, Among
<1> QED
  BY <1>1 DEF FilesTimes, Files!Printed, Printed

Conserved ==
    \A v : Times(merged, Len(merged), v) = Times(a, Printed(0), v) + Times(a, Printed(1), v)

(* A stream of the merge stands at the number it has read last, and what   *)
(* has been printed is no more than what an open one prints next.          *)
Merging ==
    /\ DOMAIN open = Files!Stream /\ peek \in [Files!Stream -> Int]
    /\ \A l \in Files!Stream : offset[l] \in 1 .. Len(a) /\ peek[l] = a[offset[l]]
    /\ Files!Ascending(a) =>
          \A m \in 1 .. Len(merged), l \in Files!Stream : open[l] => merged[m] <= peek[l]

MergeIInv ==
    /\ a \in Seq(Int) /\ merged \in Seq(Int) /\ offset \in [Files!Stream -> Nat]
    /\ at \in {"generate_a", "generate_b", "merge", "merging", "seek", "returned"}
    /\ at \in {"generate_a", "generate_b", "merge"} =>
          merged = <<>> /\ Printed(0) = 0 /\ Printed(1) = 0
    /\ at = "merging" => Merging
    /\ Conserved
    /\ Files!Ascending(a) => Files!Ascending(merged)

(* Where the stream of test_seek stands before the number at i is skipped  *)
(* to, and where it stands at most if a call has failed.                   *)
Before(n) == IF n = 0 THEN 0 ELSE n - 1

Seeking ==
    /\ i = 2 * Len(sought) /\ i <= Len(a) + 1
    /\ position <= Before(i) /\ (res => position = Before(i))

SeekIInv ==
    /\ i \in Nat /\ position \in Nat /\ res \in BOOLEAN /\ sought \in Seq(Int \X Int)
    /\ at \in {"generate_a", "generate_b", "merge", "merging"} =>
          sought = <<>> /\ position = 0 /\ res
    /\ at \in {"merge", "merging"} => i = 0
    /\ at = "seek" => Seeking
    /\ at # "returned" => exit # 0
    /\ Files!SeeksEvenPositions

FilesIInv == MergeIInv /\ SeekIInv

LEMMA FilesKept == FilesIInv => Files!MergedAndSought
<1> SUFFICES ASSUME FilesIInv PROVE Files!MergedAndSought
  OBVIOUS
<1>1. Files!MergeKeepsNumbers
  BY FilesCountTimes DEF FilesIInv, MergeIInv, Conserved, FilesTimes, Files!MergeKeepsNumbers
<1>2. Files!MergedInOrder /\ Files!SeeksEvenPositions
  BY DEF FilesIInv, MergeIInv, SeekIInv, Files!MergedInOrder
<1> QED
  BY <1>1, <1>2 DEF Files!MergedAndSought

LEMMA EmptyAscends == Files!Ascending(<<>>)
  BY DEF Files!Ascending

LEMMA FilesInit == Files!Init => FilesIInv
<1> SUFFICES ASSUME Files!Init PROVE FilesIInv
  OBVIOUS
<1>1. a \in Seq(Int)
  <2> DEFINE Ints == {Files!Signed(m) : m \in Old}
  <2>1. PICK n \in 0 .. MaxOld : a \in [1 .. n -> Ints]
    BY DEF Files!Init, Files!SeqOf
  <2>2. n \in Nat
    BY Bounds
  <2>3. Ints \subseteq Int
    <3>1. Base * Base * Base * Base \in Int
      BY Bounds
    <3>2. \A m \in Old : Files!Signed(m) \in Int
      BY <3>1, Bounds DEF Files!Signed
    <3> QED
      BY <3>2
  <2>4. a \in [1 .. n -> Int]
    BY <2>1, <2>3
  <2> QED
    BY <2>2, <2>4, SeqOfLength
<1>2. /\ at = "generate_a" /\ i = 0 /\ merged = <<>> /\ sought = <<>>
      /\ offset = [l \in Files!Stream |-> 0] /\ open = [l \in Files!Stream |-> FALSE]
      /\ position = 0 /\ res = TRUE /\ exit = 1
  BY DEF Files!Init
<1>3. /\ merged \in Seq(Int) /\ Len(merged) = 0
      /\ sought \in Seq(Int \X Int) /\ Len(sought) = 0
  BY <1>2, EmptySeq
<1>4. Printed(0) = 0 /\ Printed(1) = 0
  BY <1>2 DEF Printed, Files!Stream
<1>5. Conserved
  BY <1>3, <1>4, TimesOfNone DEF Conserved
<1>6. Files!SeeksEvenPositions
  BY <1>2, <1>3 DEF Files!SeeksEvenPositions, Files!SoughtRight
<1>7. MergeIInv
  BY <1>1, <1>2, <1>3, <1>4, <1>5, EmptyAscends DEF MergeIInv
<1>8. SeekIInv
  BY <1>2, <1>3, <1>6 DEF SeekIInv
<1> QED
  BY <1>7, <1>8 DEF FilesIInv

(* What changes neither the file nor the merge. *)
LEMMA MergeStays ==
    ASSUME MergeIInv, a' = a, UNCHANGED Files!merging,
           at' \in {"generate_a", "generate_b", "merge", "merging", "seek", "returned"},
           at' \in {"generate_a", "generate_b", "merge"}
               => at \in {"generate_a", "generate_b", "merge"},
           at' = "merging" => at = "merging"
    PROVE  MergeIInv'
<1>1. offset' = offset /\ peek' = peek /\ open' = open /\ merged' = merged
  BY DEF Files!merging
<1>2. Printed(0)' = Printed(0) /\ Printed(1)' = Printed(1)
  BY <1>1 DEF Printed
<1>3. ASSUME NEW v
      PROVE  /\ Times(merged, Len(merged), v)' = Times(merged, Len(merged), v)
             /\ Times(a, Printed(0), v)' = Times(a, Printed(0), v)
             /\ Times(a, Printed(1), v)' = Times(a, Printed(1), v)
  BY <1>1, <1>2 DEF Times, Among
<1>4. Conserved'
  BY <1>3 DEF MergeIInv, Conserved
<1>5. Files!Ascending(a)' <=> Files!Ascending(a)
  BY DEF Files!Ascending
<1>6. (Files!Ascending(a) => Files!Ascending(merged))'
  BY <1>1 DEF MergeIInv, Files!Ascending
<1>7. at' = "merging" => Merging'
  BY <1>1, <1>5 DEF MergeIInv, Merging
<1> QED
  BY <1>1, <1>2, <1>4, <1>6, <1>7 DEF MergeIInv

(* What changes neither the file nor what was sought. *)
LEMMA SeekStays ==
    ASSUME SeekIInv, a' = a, UNCHANGED Files!seeking, i' \in Nat,
           at' \in {"generate_a", "generate_b", "merge", "merging"}
               => at \in {"generate_a", "generate_b", "merge", "merging"},
           at' \in {"merge", "merging"} => i' = 0,
           at' = "seek" => Seeking',
           at' # "returned" => exit' # 0,
           exit' = 0 => Files!SoughtRight /\ Len(sought) = (Len(a) + 1) \div 2
    PROVE  SeekIInv'
<1>1. position' = position /\ sought' = sought /\ res' = res
  BY DEF Files!seeking
<1>2. Files!SoughtRight' <=> Files!SoughtRight
  BY <1>1 DEF Files!SoughtRight
<1>3. Files!SeeksEvenPositions'
  BY <1>1, <1>2 DEF SeekIInv, Files!SeeksEvenPositions
<1> QED
  BY <1>1, <1>3 DEF SeekIInv

(* What has not returned and is not at test_seek yet. *)
LEMMA SeekWaits ==
    ASSUME SeekIInv, at # "returned", a' = a, UNCHANGED <<Files!seeking, exit>>, i' \in Nat,
           at' \in {"generate_a", "generate_b", "merge", "merging"},
           at \in {"generate_a", "generate_b", "merge", "merging"},
           at' \in {"merge", "merging"} => i' = 0
    PROVE  SeekIInv'
<1>1. exit' # 0
  BY DEF SeekIInv
<1> QED
  BY <1>1, SeekStays

(* The first file is generated. *)
LEMMA GenerateKeeps ==
    ASSUME FilesIInv, Files!GenerateA
    PROVE  FilesIInv'
<1>1. /\ at = "generate_a" /\ a' = Files!Overwritten(a, i, i) /\ i' = i + 1
      /\ at' = at /\ offset' = offset /\ peek' = peek /\ open' = open
      /\ merged' = merged /\ sought' = sought /\ position' = position /\ res' = res
      /\ exit' = exit
  BY DEF Files!GenerateA, Files!merging, Files!seeking
<1>2. /\ a \in Seq(Int) /\ i \in Nat /\ merged = <<>> /\ sought = <<>> /\ exit # 0
      /\ Printed(0) = 0 /\ Printed(1) = 0
  BY <1>1 DEF FilesIInv, MergeIInv, SeekIInv
<1>3. a' \in Seq(Int)
  <2>1. CASE i < Len(a)
    <3>1. i + 1 \in 1 .. Len(a) /\ a' = [a EXCEPT ![i + 1] = i]
      BY <1>1, <1>2, <2>1 DEF Files!Overwritten
    <3> QED
      BY <1>2, <3>1, ExceptSeq
  <2>2. CASE ~(i < Len(a))
    <3>1. a' = Append(a, i)
      BY <1>1, <2>2 DEF Files!Overwritten
    <3> QED
      BY <1>2, <3>1, AppendProperties
  <2> QED
    BY <2>1, <2>2
<1>4. Printed(0)' = 0 /\ Printed(1)' = 0
  BY <1>1, <1>2 DEF Printed
<1>5. Len(merged)' = 0 /\ Len(sought)' = 0
  BY <1>1, <1>2, EmptySeq
<1>6. Conserved'
  <2>1. \A v : /\ Times(merged, Len(merged), v)' = Times(merged', 0, v)
               /\ Times(a, Printed(0), v)' = Times(a', 0, v)
               /\ Times(a, Printed(1), v)' = Times(a', 0, v)
    BY <1>4, <1>5 DEF Times, Among
  <2> QED
    BY <2>1, TimesOfNone DEF Conserved
<1>7. Files!Ascending(merged)'
  BY <1>1, <1>2, EmptyAscends DEF Files!Ascending
<1>8. MergeIInv'
  BY <1>1, <1>2, <1>3, <1>4, <1>6, <1>7 DEF FilesIInv, MergeIInv
<1>9. Files!SeeksEvenPositions'
  BY <1>1, <1>2, <1>5 DEF Files!SeeksEvenPositions, Files!SoughtRight
<1>10. SeekIInv'
  BY <1>1, <1>2, <1>9 DEF FilesIInv, SeekIInv
<1> QED
  BY <1>8, <1>10 DEF FilesIInv

(* Both streams have read the first number. *)
LEMMA MergeBeginKeeps ==
    ASSUME MergeIInv, Files!MergeBegin
    PROVE  MergeIInv'
<1>1. /\ at = "merge" /\ at' = "merging" /\ Len(a) > 0
      /\ open' = [l \in Files!Stream |-> TRUE]
      /\ peek' = [l \in Files!Stream |-> a[1]]
      /\ offset' = [l \in Files!Stream |-> 1]
      /\ a' = a /\ merged' = merged
  BY DEF Files!MergeBegin
<1>2. a \in Seq(Int) /\ merged = <<>>
  BY <1>1 DEF MergeIInv
<1>3. Len(a) \in Nat /\ 1 \in 1 .. Len(a) /\ a[1] \in Int
  BY <1>1, <1>2, ElementOfSeq
<1>4. /\ \A l \in Files!Stream : open'[l] /\ peek'[l] = a[1] /\ offset'[l] = 1
      /\ 0 \in Files!Stream /\ 1 \in Files!Stream
      /\ DOMAIN open' = Files!Stream /\ peek' \in [Files!Stream -> Int]
      /\ offset' \in [Files!Stream -> Nat]
  BY <1>1, <1>3 DEF Files!Stream
<1>5. Printed(0)' = 0 /\ Printed(1)' = 0
  BY <1>4 DEF Printed
<1>6. Len(merged) = 0
  BY <1>2, EmptySeq
<1>7. Conserved'
  <2>1. \A v : /\ Times(merged, Len(merged), v)' = Times(merged, 0, v)
               /\ Times(a, Printed(0), v)' = Times(a, 0, v)
               /\ Times(a, Printed(1), v)' = Times(a, 0, v)
    BY <1>1, <1>5, <1>6 DEF Times, Among
  <2> QED
    BY <2>1, TimesOfNone DEF Conserved
<1>8. Merging'
  BY <1>1, <1>3, <1>4, <1>6 DEF Merging
<1>9. Files!Ascending(merged)'
  BY <1>1, <1>2, EmptyAscends DEF Files!Ascending
<1> QED
  BY <1>1, <1>2, <1>4, <1>7, <1>8, <1>9 DEF MergeIInv

(* A sequence in order stays so with a number at the end that is not less. *)
LEMMA AscendsOn ==
    ASSUME NEW s \in Seq(Int), NEW p \in Int, NEW t, t = Append(s, p),
           Files!Ascending(s), \A m \in 1 .. Len(s) : s[m] <= p
    PROVE  Files!Ascending(t)
<1>1. /\ Len(s) \in Nat /\ Len(t) = Len(s) + 1 /\ t[Len(s) + 1] = p
      /\ \A m \in 1 .. Len(s) : t[m] = s[m]
  BY AppendProperties
<1>2. SUFFICES ASSUME NEW m \in 1 .. Len(t) - 1 PROVE t[m] <= t[m + 1]
  BY DEF Files!Ascending
<1>3. m \in 1 .. Len(s)
  BY <1>1, <1>2
<1>4. CASE m = Len(s)
  BY <1>1, <1>3, <1>4
<1>5. CASE m < Len(s)
  <2>1. m \in 1 .. Len(s) - 1 /\ m + 1 \in 1 .. Len(s)
    BY <1>1, <1>3, <1>5
  <2> QED
    BY <1>1, <1>3, <2>1 DEF Files!Ascending
<1> QED
  BY <1>1, <1>3, <1>4, <1>5

(* One number is printed, and another is read or the stream closed. *)
LEMMA MergeStepKeeps ==
    ASSUME MergeIInv, NEW l \in Files!Stream, Files!MergeStep(l) \/ Files!StreamEnds(l)
    PROVE  MergeIInv'
<1>1. at = "merging" /\ at' = at /\ a' = a
  BY DEF Files!MergeStep, Files!StreamEnds, Files!Target
<1>2. /\ Files!Target(l)
      /\ merged' = Append(merged, peek[l])
      /\ \/ /\ Files!HasMore(l)
            /\ peek' = [peek EXCEPT ![l] = a[offset[l] + 1]]
            /\ offset' = [offset EXCEPT ![l] = @ + 1]
            /\ open' = open
         \/ open' = [open EXCEPT ![l] = FALSE] /\ peek' = peek /\ offset' = offset
  BY DEF Files!MergeStep, Files!StreamEnds
<1>3. /\ a \in Seq(Int) /\ merged \in Seq(Int) /\ Len(a) \in Nat /\ Len(merged) \in Nat
      /\ offset \in [Files!Stream -> Nat]
      /\ DOMAIN open = Files!Stream /\ peek \in [Files!Stream -> Int]
  BY <1>1 DEF MergeIInv, Merging
<1>4. \A m \in Files!Stream : offset[m] \in 1 .. Len(a) /\ peek[m] = a[offset[m]]
  BY <1>1 DEF MergeIInv, Merging
<1>5. PICK p \in Int : p = peek[l]
  BY <1>3
<1>6. open[l] /\ \A m \in Files!Stream : open[m] => p <= peek[m]
  <2>1. open[l] /\ \A m \in Files!Stream : open[m] => p < peek[m] \/ p = peek[m]
    BY <1>2, <1>5 DEF Files!Target
  <2>2. \A m \in Files!Stream : peek[m] \in Int
    BY <1>3
  <2> QED
    BY <2>1, <2>2
<1>7. /\ merged' \in Seq(Int) /\ Len(merged') = Len(merged) + 1
      /\ merged'[Len(merged) + 1] = p
      /\ \A m \in 1 .. Len(merged) : merged'[m] = merged[m]
  BY <1>2, <1>3, <1>5, AppendProperties
<1>8. /\ DOMAIN open' = Files!Stream /\ peek' \in [Files!Stream -> Int]
      /\ offset' \in [Files!Stream -> Nat]
      /\ \A m \in Files!Stream :
            m # l => offset'[m] = offset[m] /\ peek'[m] = peek[m] /\ (open'[m] <=> open[m])
      /\ offset'[l] \in 1 .. Len(a) /\ peek'[l] = a[offset'[l]]
      /\ offset'[l] = (IF open'[l] THEN offset[l] + 1 ELSE offset[l])
  <2>1. ASSUME Files!HasMore(l), peek' = [peek EXCEPT ![l] = a[offset[l] + 1]],
               offset' = [offset EXCEPT ![l] = @ + 1], open' = open
        PROVE  <1>8!:
    <3>1. offset[l] + 1 \in 1 .. Len(a)
      BY <1>3, <1>4, <2>1 DEF Files!HasMore
    <3>2. a[offset[l] + 1] \in Int
      BY <1>3, <3>1, ElementOfSeq
    <3>4. offset' = [offset EXCEPT ![l] = offset[l] + 1] /\ open' = open
      BY <2>1
    <3>5. PICK n \in Nat, q \in Int : n = offset[l] + 1 /\ q = a[offset[l] + 1]
      BY <3>1, <3>2
    <3>6. /\ peek' \in [Files!Stream -> Int] /\ peek'[l] = q
          /\ \A m \in Files!Stream : m # l => peek'[m] = peek[m]
      BY ONLY <1>3, <2>1, <3>5, l \in Files!Stream
    <3>7. /\ offset' \in [Files!Stream -> Nat] /\ offset'[l] = n
          /\ \A m \in Files!Stream : m # l => offset'[m] = offset[m]
      BY ONLY <1>3, <3>4, <3>5, l \in Files!Stream
    <3> QED
      BY <1>3, <1>6, <3>1, <3>4, <3>5, <3>6, <3>7
  <2>2. ASSUME open' = [open EXCEPT ![l] = FALSE], peek' = peek, offset' = offset
        PROVE  <1>8!:
    <3>1. /\ DOMAIN open' = Files!Stream /\ ~open'[l]
          /\ \A m \in Files!Stream : m # l => (open'[m] <=> open[m])
      BY <1>3, <2>2
    <3> QED
      BY <1>3, <1>4, <2>2, <3>1
  <2> QED
    BY <1>2, <2>1, <2>2
<1>9. Conserved'
  <2> SUFFICES ASSUME NEW v
               PROVE  Times(merged, Len(merged), v)'
                        = Times(a, Printed(0), v)' + Times(a, Printed(1), v)'
    BY DEF Conserved
  <2>1. PICK n \in Nat : n = Printed(l)
    BY <1>3, <1>4 DEF Printed
  <2>2. n + 1 = offset[l] /\ Printed(l)' = n + 1
    BY <1>3, <1>6, <1>8, <2>1 DEF Printed
  <2>3. a[n + 1] = p
    BY <1>4, <1>5, <2>2
  <2>4. Times(a, n + 1, v) = Times(a, n, v) + Hit(p, v)
    BY <2>3, TimesOfMore
  <2>5. Times(merged, Len(merged), v)' = Times(merged, Len(merged), v) + Hit(p, v)
    <3>1. PICK w, t, m : w = merged /\ t = merged' /\ m = Len(merged)
      OBVIOUS
    <3>a. m \in Nat
      BY <1>3, <3>1
    <3>2. \A j \in 1 .. m : t[j] = w[j]
      BY <1>7, <3>1
    <3>3. Times(t, m + 1, v) = Times(w, m, v) + Hit(t[m + 1], v)
      <4>1. Times(t, m, v) = Times(w, m, v)
        BY <3>2, TimesAlike
      <4>2. Times(t, m + 1, v) = Times(t, m, v) + Hit(t[m + 1], v)
        BY <3>a, TimesOfMore
      <4> QED
        BY <4>1, <4>2
    <3>4. t[m + 1] = p /\ Len(merged') = m + 1
      BY <1>7, <3>1
    <3>5. Times(merged, Len(merged), v)' = Times(t, m + 1, v)
      BY <3>1, <3>4 DEF Times, Among
    <3> QED
      BY <3>1, <3>3, <3>4, <3>5
  <2>6. Times(a, Printed(l), v)' = Times(a, n + 1, v)
    BY <1>1, <2>2 DEF Times, Among
  <2>7. \A m \in Files!Stream : m # l => Times(a, Printed(m), v)' = Times(a, Printed(m), v)
    BY <1>1, <1>8 DEF Times, Among, Printed
  <2>8. Times(merged, Len(merged), v) = Times(a, Printed(0), v) + Times(a, Printed(1), v)
    BY DEF MergeIInv, Conserved
  <2>9. \A m \in Files!Stream : Times(a, Printed(m), v) \in Nat
    <3> SUFFICES ASSUME NEW m \in Files!Stream PROVE Times(a, Printed(m), v) \in Nat
      OBVIOUS
    <3>1. Printed(m) \in Nat
      BY <1>3, <1>4 DEF Printed
    <3> QED
      BY <3>1, AmongIsFinite
  <2>10. 0 \in Files!Stream /\ 1 \in Files!Stream /\ (l = 0 \/ l = 1)
    BY DEF Files!Stream
  <2>11. Hit(p, v) \in Nat
    BY DEF Hit
  <2>12. Times(a, Printed(l), v) = Times(a, n, v)
    BY <2>1
  <2>13. CASE l = 0
    <3>1. Times(a, Printed(1), v)' = Times(a, Printed(1), v)
      BY <2>7, <2>10, <2>13
    <3> QED
      BY <2>4, <2>5, <2>6, <2>8, <2>9, <2>10, <2>11, <2>12, <2>13, <3>1
  <2>14. CASE l = 1
    <3>1. Times(a, Printed(0), v)' = Times(a, Printed(0), v)
      BY <2>7, <2>10, <2>14
    <3> QED
      BY <2>4, <2>5, <2>6, <2>8, <2>9, <2>10, <2>11, <2>12, <2>14, <3>1
  <2> QED
    BY <2>10, <2>13, <2>14
<1>10. ASSUME Files!Ascending(a)
       PROVE  /\ Files!Ascending(merged')
              /\ \A m \in 1 .. Len(merged'), n \in Files!Stream :
                    open'[n] => merged'[m] <= peek'[n]
  <2>1. /\ Files!Ascending(merged)
        /\ \A m \in 1 .. Len(merged), n \in Files!Stream : open[n] => merged[m] <= peek[n]
    BY <1>1, <1>10 DEF MergeIInv, Merging
  <2>2. \A m \in 1 .. Len(merged) : merged[m] <= p
    BY <1>5, <1>6, <2>1
  <2>3. Files!Ascending(merged')
    <3>1. PICK t : t = Append(merged, p)
      OBVIOUS
    <3>2. Files!Ascending(t)
      BY <1>3, <2>1, <2>2, <3>1, AscendsOn
    <3> QED
      BY <1>2, <1>5, <3>1, <3>2
  <2>4. \A n \in Files!Stream : open'[n] => p <= peek'[n]
    <3>1. \A n \in Files!Stream : n # l /\ open'[n] => p <= peek'[n]
      BY <1>6, <1>8
    <3>2. ASSUME open'[l] PROVE p <= peek'[l]
      <4>1. offset'[l] = offset[l] + 1 /\ offset[l] \in 1 .. Len(a) - 1
        BY <1>3, <1>4, <1>8, <3>2
      <4>2. a[offset[l]] <= a[offset[l] + 1]
        BY <1>10, <4>1 DEF Files!Ascending
      <4> QED
        BY <1>4, <1>5, <1>8, <4>1, <4>2
    <3> QED
      BY <3>1, <3>2
  <2>5. \A m \in 1 .. Len(merged') : merged'[m] <= p
    <3>1. \A m \in 1 .. Len(merged') : m \in 1 .. Len(merged) \/ m = Len(merged) + 1
      BY <1>3, <1>7
    <3> QED
      BY <1>7, <2>2, <3>1
  <2>6. /\ \A m \in 1 .. Len(merged') : merged'[m] \in Int
        /\ \A n \in Files!Stream : peek'[n] \in Int
    BY <1>7, <1>8, ElementOfSeq
  <2> QED
    BY <2>3, <2>4, <2>5, <2>6
<1>11. \A m \in Files!Stream : offset'[m] \in 1 .. Len(a) /\ peek'[m] = a[offset'[m]]
  BY <1>4, <1>8
<1>12. Merging'
  <2>1. Files!Ascending(a)' <=> Files!Ascending(a)
    BY <1>1 DEF Files!Ascending
  <2>2. \A m \in Files!Stream : offset'[m] \in 1 .. Len(a') /\ peek'[m] = a'[offset'[m]]
    BY <1>1, <1>11
  <2> QED
    BY <1>8, <1>10, <2>1, <2>2 DEF Merging
<1>13. (Files!Ascending(a) => Files!Ascending(merged))'
  BY <1>1, <1>10 DEF Files!Ascending
<1> QED
  BY <1>1, <1>3, <1>7, <1>8, <1>9, <1>12, <1>13 DEF MergeIInv

(* A number over its lowest digit. *)
LEMMA Digit ==
    ASSUME NEW n \in Int, NEW d \in 0 .. Base - 1
    PROVE  (n * Base + d) % Base = d /\ (n * Base + d) \div Base = n
  BY Bounds

(* The bytes of what ntohl makes of an int are the int's, turned round. *)
LEMMA BytesTurned ==
    ASSUME NEW n \in Int
    PROVE  /\ Files!ntohl(n) \in Int
           /\ Files!Bytes(Files!ntohl(n)) = Files!Reverse(Files!Bytes(n))
<1> DEFINE n1 == n \div Base
           n2 == n1 \div Base
           n3 == n2 \div Base
<1>1. PICK d1 \in 0 .. Base - 1, d2 \in 0 .. Base - 1 : d1 = n % Base /\ d2 = n1 % Base
  BY Bounds
<1>2. PICK d3 \in 0 .. Base - 1, d4 \in 0 .. Base - 1 : d3 = n2 % Base /\ d4 = n3 % Base
  BY Bounds
<1>3. Files!Bytes(n) = <<d1, d2, d3, d4>>
  BY <1>1, <1>2 DEF Files!Bytes
<1>4. Files!ntohl(n) = ((d1 * Base + d2) * Base + d3) * Base + d4
  BY <1>3 DEF Files!ntohl, Files!Unsigned
<1> HIDE DEF n1, n2, n3
<1>5. PICK m2 \in Int : m2 = d1 * Base + d2
  BY Bounds
<1>6. PICK m3 \in Int : m3 = m2 * Base + d3
  BY Bounds
<1>7. PICK m4 \in Int : m4 = m3 * Base + d4
  BY Bounds
<1>8. Files!ntohl(n) = m4
  BY <1>4, <1>5, <1>6, <1>7
<1>9. /\ m4 % Base = d4 /\ m4 \div Base = m3
      /\ m3 % Base = d3 /\ m3 \div Base = m2
      /\ m2 % Base = d2 /\ m2 \div Base = d1
  BY <1>5, <1>6, <1>7, Digit
<1>10. d1 % Base = d1
  BY Bounds
<1>11. Files!Bytes(m4) = <<d4, d3, d2, d1>>
  BY <1>9, <1>10 DEF Files!Bytes
<1>12. Files!Reverse(<<d1, d2, d3, d4>>) = <<d4, d3, d2, d1>>
  BY DEF Files!Reverse
<1> QED
  BY <1>3, <1>8, <1>11, <1>12

(* A number is printed, from wherever tmp has it. *)
LEMMA PrintsOn ==
    ASSUME SeekIInv, at = "seek", i < Len(a), a \in Seq(Int), a' = a, at' = at, exit' = exit,
           NEW n \in Int, Files!Prints(n),
           position' \in Nat, position' <= i + 1, res' \in BOOLEAN,
           res' => res /\ position' = i + 1 /\ n = a[i + 1]
    PROVE  SeekIInv'
<1>1. sought' = Append(sought, <<i, Files!ntohl(n)>>) /\ i' = i + 2
  BY DEF Files!Prints
<1>2. /\ i \in Nat /\ sought \in Seq(Int \X Int) /\ Len(sought) \in Nat /\ Len(a) \in Nat
      /\ i = 2 * Len(sought) /\ exit # 0
  BY DEF SeekIInv, Seeking
<1>t. PICK t \in Int : t = Files!ntohl(n)
  BY BytesTurned
<1>3. PICK e : e = <<i, t>>
  OBVIOUS
<1>4. e \in Int \X Int
  BY ONLY <1>2, <1>3, t \in Int
<1>5. /\ sought' \in Seq(Int \X Int) /\ Len(sought') = Len(sought) + 1
      /\ \A m \in 1 .. Len(sought) : sought'[m] = sought[m]
      /\ sought'[Len(sought) + 1] = e
  BY <1>1, <1>2, <1>t, <1>3, <1>4, AppendProperties
<1>6. ASSUME res' PROVE Files!SoughtRight'
  <2>1. Files!SoughtRight /\ n = a[i + 1]
    BY <1>6 DEF SeekIInv, Files!SeeksEvenPositions
  <2>2. ASSUME NEW m \in 1 .. Len(sought')
        PROVE  /\ sought'[m][1] = 2 * m - 2
               /\ Files!Bytes(sought'[m][2]) = Files!Reverse(Files!Bytes(a[2 * m - 1]))
    <3>1. CASE m = Len(sought) + 1
      <4>1. i = 2 * m - 2 /\ i + 1 = 2 * m - 1
        BY <1>2, <3>1
      <4>2. sought'[m][1] = i /\ sought'[m][2] = Files!ntohl(n)
        BY <1>t, <1>3, <1>5, <3>1
      <4> QED
        BY <2>1, <4>1, <4>2, BytesTurned
    <3>2. CASE m \in 1 .. Len(sought)
      BY <1>5, <2>1, <3>2 DEF Files!SoughtRight
    <3>3. m = Len(sought) + 1 \/ m \in 1 .. Len(sought)
      BY <1>2, <1>5, <2>2
    <3> QED
      BY <3>1, <3>2, <3>3
  <2> QED
    BY <2>2 DEF Files!SoughtRight
<1>7. Files!SeeksEvenPositions'
  BY <1>2, <1>6 DEF Files!SeeksEvenPositions
<1>8. Seeking'
  <2>1. Before(i') = i + 1
    BY <1>1, <1>2 DEF Before
  <2>2. i' = 2 * Len(sought')
    BY ONLY <1>1, <1>2, <1>5
  <2>3. i' <= Len(a') + 1
    BY <1>1, <1>2
  <2> QED
    BY <2>1, <2>2, <2>3 DEF Seeking
<1> QED
  BY <1>1, <1>2, <1>5, <1>7, <1>8 DEF SeekIInv

LEMMA SeekStepKeeps ==
    ASSUME SeekIInv, a \in Seq(Int), Files!SeekStep
    PROVE  SeekIInv'
<1>1. /\ at = "seek" /\ at' = at /\ i < Len(a) /\ a' = a /\ res' = res /\ exit' = exit
      /\ position' = Files!Skipped + 1 /\ Files!Prints(a[Files!Skipped + 1])
  BY DEF Files!SeekStep
<1>2. /\ i \in Nat /\ position \in Nat /\ res \in BOOLEAN /\ Len(a) \in Nat
      /\ position <= Before(i) /\ (res => position = Before(i))
  BY <1>1 DEF SeekIInv, Seeking
<1>3. PICK p : p = Files!Skipped
  OBVIOUS
<1>4. p \in Nat /\ p <= i /\ (res => p = i) /\ p + 1 \in 1 .. Len(a)
  BY <1>1, <1>2, <1>3 DEF Files!Skipped, Before
<1>5. PICK n \in Int : n = a[p + 1]
  BY <1>4, ElementOfSeq
<1>6. Files!Prints(n) /\ position' = p + 1
  BY <1>1, <1>3, <1>5
<1> QED
  BY <1>1, <1>2, <1>4, <1>5, <1>6, PrintsOn, SMTT(20)

LEMMA SeekMissesKeeps ==
    ASSUME SeekIInv, a \in Seq(Int), Files!SeekMisses
    PROVE  SeekIInv'
<1>1. /\ at = "seek" /\ at' = at /\ i < Len(a) /\ a' = a /\ res' = FALSE /\ exit' = exit
      /\ position' \in {position, Files!Skipped}
  BY DEF Files!SeekMisses
<1>2. PICK n \in Files!Leftover : Files!Prints(n)
  BY DEF Files!SeekMisses
<1>3. /\ i \in Nat /\ position \in Nat /\ position <= Before(i)
      /\ sought \in Seq(Int \X Int) /\ Len(sought) \in Nat
  BY <1>1 DEF SeekIInv, Seeking
<1>4. position' \in Nat /\ position' <= i + 1
  BY <1>1, <1>3 DEF Files!Skipped, Before
<1>5. n \in Int
  <2>1. CASE n \in Garbage
    BY <2>1, Bounds
  <2>2. CASE n \notin Garbage
    <3>1. PICK m \in {Len(sought)} \ {0} : n \in {sought[m][2], Files!ntohl(sought[m][2])}
      BY <1>2, <2>2 DEF Files!Leftover
    <3>2. m \in 1 .. Len(sought)
      BY <1>3, <3>1
    <3>3. sought[m] \in Int \X Int
      BY <1>3, <3>2, ElementOfSeq
    <3>4. sought[m][2] \in Int
      BY <3>3
    <3> QED
      BY <3>1, <3>4, BytesTurned
  <2> QED
    BY <2>1, <2>2
<1> QED
  BY <1>1, <1>2, <1>4, <1>5, PrintsOn

(* test_seek begins. *)
LEMMA SeekBegins ==
    ASSUME SeekIInv, a \in Seq(Int), at \in {"merge", "merging"}, at' = "seek", a' = a, i' = i,
           UNCHANGED <<Files!seeking, exit>>
    PROVE  SeekIInv'
<1>1. /\ sought = <<>> /\ position = 0 /\ i = 0 /\ exit # 0
      /\ sought' = sought /\ position' = position /\ res' = res /\ exit' = exit
  BY DEF SeekIInv, Files!seeking
<1>2. Len(sought) = 0 /\ Len(a) \in Nat
  BY <1>1, EmptySeq
<1>3. Seeking'
  BY <1>1, <1>2 DEF Seeking, Before
<1> QED
  BY <1>1, <1>3, SeekStays

(* main returns without 0. *)
LEMMA FilesStop ==
    ASSUME FilesIInv, Files!Stop, a' = a, i' = i, UNCHANGED <<Files!merging, Files!seeking>>
    PROVE  FilesIInv'
<1>1. at' = "returned" /\ exit' = -1
  BY DEF Files!Stop
<1>2. MergeIInv'
  BY <1>1, MergeStays DEF FilesIInv
<1>3. SeekIInv'
  BY <1>1, SeekStays DEF FilesIInv, SeekIInv
<1> QED
  BY <1>2, <1>3 DEF FilesIInv

(* test_seek ends: it has been at every even position. *)
LEMMA SeekEndsKeeps ==
    ASSUME FilesIInv, Files!SeekEnds
    PROVE  FilesIInv'
<1>1. /\ at = "seek" /\ i >= Len(a) /\ at' = "returned" /\ exit' = IF res THEN 0 ELSE -1
      /\ a' = a /\ i' = i /\ UNCHANGED <<Files!merging, Files!seeking>>
  BY DEF Files!SeekEnds
<1>2. MergeIInv'
  BY <1>1, MergeStays DEF FilesIInv
<1>3. /\ i = 2 * Len(sought) /\ i <= Len(a) + 1 /\ Len(sought) \in Nat /\ Len(a) \in Nat
      /\ res => Files!SoughtRight
  BY <1>1 DEF FilesIInv, MergeIInv, SeekIInv, Seeking, Files!SeeksEvenPositions
<1>4. Len(sought) = (Len(a) + 1) \div 2
  BY <1>1, <1>3
<1>5. SeekIInv'
  BY <1>1, <1>3, <1>4, SeekStays DEF FilesIInv, SeekIInv
<1> QED
  BY <1>2, <1>5 DEF FilesIInv

LEMMA FilesNext ==
    ASSUME FilesIInv, [Files!Next]_(Files!vars)
    PROVE  FilesIInv'
<1>1. MergeIInv /\ SeekIInv /\ a \in Seq(Int) /\ i \in Nat /\ i + 1 \in Nat
  BY DEF FilesIInv, MergeIInv, SeekIInv
<1>2. CASE UNCHANGED Files!vars
  <2>1. /\ a' = a /\ at' = at /\ i' = i /\ exit' = exit
        /\ UNCHANGED Files!merging /\ UNCHANGED Files!seeking
    BY <1>2 DEF Files!vars, Files!merging, Files!seeking
  <2>2. MergeIInv'
    BY <1>1, <2>1, MergeStays DEF MergeIInv
  <2>3. at = "seek" => Seeking'
    BY <1>1, <2>1 DEF SeekIInv, Seeking, Files!seeking
  <2>4. SeekIInv'
    BY <1>1, <2>1, <2>3, SeekStays DEF SeekIInv, Files!SeeksEvenPositions
  <2> QED
    BY <2>2, <2>4 DEF FilesIInv
<1>3. CASE Files!GenerateA
  BY <1>3, GenerateKeeps
<1>4. CASE Files!GenerateB
  <2>1. /\ at = "generate_b" /\ at' = at /\ i' = i + 1 /\ a' = a
        /\ UNCHANGED Files!merging /\ UNCHANGED <<Files!seeking, exit>>
    BY <1>4 DEF Files!GenerateB
  <2> QED
    BY <1>1, <2>1, MergeStays, SeekWaits DEF FilesIInv
<1>5. CASE Files!Generated
  <2>1. /\ at \in {"generate_a", "generate_b"} /\ at' \in {"generate_b", "merge"} /\ i' = 0
        /\ a' = a /\ UNCHANGED Files!merging /\ UNCHANGED <<Files!seeking, exit>>
    BY <1>5 DEF Files!Generated
  <2> QED
    BY <1>1, <2>1, MergeStays, SeekWaits DEF FilesIInv
<1>6. CASE Files!GenerateFails \/ Files!PrintFails \/ Files!SeekFails
  BY <1>6, FilesStop DEF Files!GenerateFails, Files!PrintFails, Files!SeekFails
<1>7. CASE Files!MergeBegin
  <2>1. /\ at = "merge" /\ at' = "merging" /\ a' = a /\ i' = i
        /\ UNCHANGED <<Files!seeking, exit>>
    BY <1>7 DEF Files!MergeBegin
  <2>2. i = 0
    BY <1>1, <2>1 DEF SeekIInv
  <2>3. SeekIInv'
    BY <1>1, <2>1, <2>2, SeekWaits
  <2> QED
    BY <1>1, <1>7, <2>3, MergeBeginKeeps DEF FilesIInv
<1>8. CASE Files!MergeFails \/ Files!MergeEnds
  <2>1. /\ at \in {"merge", "merging"} /\ at' = "seek" /\ a' = a /\ i' = i
        /\ UNCHANGED Files!merging /\ UNCHANGED <<Files!seeking, exit>>
    BY <1>8 DEF Files!MergeFails, Files!MergeEnds
  <2> QED
    BY <1>1, <2>1, MergeStays, SeekBegins DEF FilesIInv
<1>9. ASSUME NEW l \in Files!Stream, Files!MergeStep(l) \/ Files!StreamEnds(l)
      PROVE  FilesIInv'
  <2>1. /\ at = "merging" /\ at' = at /\ a' = a /\ i' = i /\ UNCHANGED <<Files!seeking, exit>>
    BY <1>9 DEF Files!MergeStep, Files!StreamEnds, Files!Target
  <2>2. i = 0
    BY <1>1, <2>1 DEF SeekIInv
  <2>3. SeekIInv'
    BY <1>1, <2>1, <2>2, SeekWaits
  <2>4. MergeIInv'
    BY <1>1, <1>9, MergeStepKeeps
  <2> QED
    BY <2>3, <2>4 DEF FilesIInv
<1>10. CASE Files!SeekStep \/ Files!SeekMisses
  <2>1. at = "seek" /\ at' = at /\ a' = a /\ UNCHANGED Files!merging
    BY <1>10 DEF Files!SeekStep, Files!SeekMisses
  <2>2. MergeIInv'
    BY <1>1, <2>1, MergeStays
  <2>3. SeekIInv'
    BY <1>1, <1>10, SeekStepKeeps, SeekMissesKeeps
  <2> QED
    BY <2>2, <2>3 DEF FilesIInv
<1>11. CASE Files!SeekEnds
  BY <1>11, SeekEndsKeeps
<1> QED
  BY <1>2, <1>3, <1>4, <1>5, <1>6, <1>7, <1>8, <1>9, <1>10, <1>11 DEF Files!Next

-------------------------------------------------------------------------------
(* The merge prints what its two streams have read, in order if the file   *)
(* is in order, whichever ends or fails first; main returns 0 only if      *)
(* test_seek has printed the even positions, each with its bytes turned    *)
(* round, whichever call fails and whatever is on the stack; and nextchar  *)
(* returns each character that comes once, in order, and -1 only for none, *)
(* however the reads cut the input: for any files and sizes of a buffer.   *)
THEOREM FilesAreRead == AnySpec => FilesRead
<1>1. AnyInit => FilesIInv /\ ReaderIInv
  BY FilesInit, ReaderInit DEF AnyInit
<1>2. FilesIInv /\ ReaderIInv /\ [AnyNext]_allVars => FilesIInv' /\ ReaderIInv'
  BY EachProgramSteps, FilesNext, ReaderNext
<1>3. FilesIInv /\ ReaderIInv => Files!MergedAndSought /\ Reader!Conserved
  BY FilesKept, ReaderConserves
<1>4. ReaderIInv /\ [AnyNext]_allVars
        => [lc' = -1 => got' = got /\ read_offset = size]_(Reader!vars)
  BY EachProgramSteps, MinusOneTakesNothing
<1> QED
  BY <1>1, <1>2, <1>3, <1>4, PTL
  DEF AnySpec, FilesRead, Reader!CharactersKept, Reader!MinusOneIsNoCharacter

-------------------------------------------------------------------------------
(* A text that parses gives the address that was written, a call that      *)
(* fails leaves the old one alone, and what was formatted and is parsed    *)
(* again is the same address, whatever the names, the width of a byte and  *)
(* the order of the calls.                                                 *)
THEOREM AddressesAreKept == AnySpec => AddressesKept
<1>1. AnyInit => AddrIInv
  BY AddrInit DEF AnyInit
<1>2. AddrIInv /\ [AnyNext]_allVars => AddrIInv'
  BY EachProgramSteps, AddrNext
<1>3. AddrIInv => Addr!ParsedAsWritten
  BY DEF AddrIInv
<1>4. AddrIInv /\ [AnyNext]_allVars
        => [Addr!Parses(call') /\ result' = -1 => dest' = dest]_(Addr!vars)
  <2> SUFFICES ASSUME AddrIInv, Addr!Next, Addr!Parses(call'), result' = -1
               PROVE  dest' = dest
    BY EachProgramSteps
  <2> QED
    BY AddrSteps DEF Fails, Sets, Addr!eo_addr_to_str, Addr!Returns
<1>5. AddrIInv /\ [AnyNext]_allVars
        => [call = "to_str" /\ call' = "parse_port" /\ text' = str /\ result' = 0 =>
              /\ dest'.family = dest.family /\ dest'.port = dest.port
              /\ dest.family = "v4" => dest'.word = dest.word
              /\ dest.family = "v6" => dest'.addr6 = dest.addr6]_(Addr!vars)
  BY EachProgramSteps, ParsesBack
<1> QED
  BY <1>1, <1>2, <1>3, <1>4, <1>5, PTL
  DEF AnySpec, AddressesKept, Addr!AddressesKept, Addr!FailureKeepsDest, Addr!RoundTrip

-------------------------------------------------------------------------------
(* The vectors hold what they have memory for and only the calls that      *)
(* VectorsKept names break them, for any elements, capacities and calls;   *)
(* no link of a small tree is broken by concat_left (of any tree:          *)
(* LinksStay); step measures segments of one sign in words of any width,   *)
(* and mystrcmp orders strings of any length.                              *)
THEOREM SamplesAreRight == AnySpec => []SamplesRight
<1>1. AnyInit => VectorsIInv /\ AsmIInv
  BY VectorsInit, AsmInit DEF AnyInit
<1>2. VectorsIInv /\ AsmIInv /\ [AnyNext]_allVars => VectorsIInv' /\ AsmIInv'
  BY EachProgramSteps, VectorsNext, AsmNext
<1>3. VectorsIInv /\ AsmIInv => SamplesRight
  <2> SUFFICES ASSUME VectorsIInv, AsmIInv PROVE SamplesRight
    OBVIOUS
  <2>1. Vectors!VectorsKept /\ Asm!StringsCompared
    BY DEF VectorsIInv, AsmIInv, Asm!StringsCompared
  <2> QED
    BY <2>1, TreesAre, LinksStay, StepIsRight DEF SamplesRight
<1> QED
  BY <1>1, <1>2, <1>3, PTL DEF AnySpec
-------------------------------------------------------------------------------
(***************************************************************************)
(* Least and greatest numbers, for what recursive functions compute.       *)
(***************************************************************************)
(* Numbers have a least one: the least interval from 0 to one of them.     *)
LEMMA LeastNat ==
  ASSUME NEW T, T \subseteq Nat, T # {}
  PROVE  \E m \in T : \A n \in T : m <= n
<1>1. PICK t \in T : TRUE
  OBVIOUS
<1> DEFINE U == 0 .. t
           Parts == {0 .. n : n \in {j \in T : j <= t}}
<1>2. IsFiniteSet(U)
  BY FS_Interval
<1>3. IsWellFoundedOn(StrictSubsetOrdering(U), FiniteSubsetsOf(U))
  BY FS_StrictSubsetOrderingWellFounded
<1>4. FiniteSubsetsOf(U) = SUBSET U
  BY <1>2, FS_FiniteSubsetsOfFinite
<1>5. Parts \subseteq FiniteSubsetsOf(U) /\ Parts # {}
  BY <1>1, <1>4
<1>6. PICK part \in Parts : \A other \in Parts : ~(<<other, part>> \in StrictSubsetOrdering(U))
  BY <1>3, <1>5, WFMin
<1>7. PICK m \in T : m <= t /\ part = 0 .. m
  BY <1>6
<1>8. ASSUME NEW n \in T, n < m PROVE FALSE
  <2>0. n \in Nat /\ m \in Nat /\ t \in Nat /\ n < m /\ m <= t /\ n <= t
    BY <1>7, <1>8
  <2>1. 0 .. n \in Parts
    BY <2>0
  <2>2. 0 .. n \subseteq U /\ 0 .. m \subseteq U /\ 0 .. n \subseteq 0 .. m
    BY <2>0
  <2>3. m \in 0 .. m /\ m \notin 0 .. n
    BY <2>0
  <2> QED
    BY <2>1, <2>2, <2>3, <1>6, <1>7 DEF StrictSubsetOrdering
<1> QED
  BY <1>8

(* And bounded ones a greatest. *)
LEMMA GreatestNat ==
    ASSUME NEW bound \in Nat, NEW T, T \subseteq 0 .. bound, T # {}
    PROVE  \E m \in T : \A n \in T : n <= m
<1> DEFINE Below == {bound - n : n \in T}
<1>1. Below \subseteq Nat /\ Below # {}
  <2>1. \A n \in T : n \in 0 .. bound
    OBVIOUS
  <2>2. \A n \in T : bound - n \in Nat
    BY <2>1
  <2> QED
    BY <2>2
<1>2. PICK d \in Below : \A n \in Below : d <= n
  BY <1>1, LeastNat
<1>3. PICK m \in T : d = bound - m
  OBVIOUS
<1>4. \A n \in T : n <= m
  <2> TAKE n \in T
  <2>1. bound - m <= bound - n
    BY <1>2, <1>3
  <2>2. m \in 0 .. bound /\ n \in 0 .. bound
    OBVIOUS
  <2> QED
    BY <2>1, <2>2
<1> QED
  BY <1>4

-------------------------------------------------------------------------------
(***************************************************************************)
(* The graphs of src/src/nn: operations that use earlier ones.             *)
(***************************************************************************)
Value == Used!Number \cup {Junk}
In(o, n) == {o[n].inputs[j] : j \in 1 .. Len(o[n].inputs)}

IsInput(op) ==
    /\ op.inputs = <<>>
    /\ op.kind = "placeholder" \/ (op.kind = "const" /\ op.arg \in {0, 1})
IsPair(op, last) ==
    /\ op.kind \in {"add", "sub", "mul", "div"}
    /\ \E p, q \in 1 .. last : op.inputs = <<p, q>>

Refers(op, R) == op.kind = "placeholder" => op.arg \in R

Graph(o) ==
    /\ Len(o) \in Nat
    /\ \A n \in 1 .. Len(o) : IsInput(o[n]) \/ IsPair(o[n], n - 1)

(* An operation has no inputs, or two of the operations before it. *)
LEMMA InputsBefore ==
    ASSUME NEW o, Graph(o), NEW n \in 1 .. Len(o)
    PROVE  /\ In(o, n) \subseteq 1 .. n - 1
           /\ o[n].inputs # <<>> =>
                /\ o[n].inputs[1] \in In(o, n) /\ o[n].inputs[2] \in In(o, n)
                /\ o[n].kind \in {"add", "sub", "mul", "div"}
           /\ o[n].inputs = <<>> => IsInput(o[n])
<1>1. CASE IsInput(o[n])
  <2>1. o[n].inputs = <<>>
    BY <1>1 DEF IsInput
  <2> QED
    BY <1>1, <2>1 DEF In
<1>2. CASE IsPair(o[n], n - 1)
  <2>1. PICK p, q \in 1 .. n - 1 : o[n].inputs = <<p, q>>
    BY <1>2 DEF IsPair
  <2>2. In(o, n) = {p, q} /\ o[n].inputs # <<>> /\ o[n].inputs[1] = p /\ o[n].inputs[2] = q
    BY <2>1 DEF In
  <2> QED
    BY <1>2, <2>2 DEF IsPair
<1> QED
  BY <1>1, <1>2 DEF Graph

(* A walk from op through some nodes, as Visited defines it.               *)
WalkIn(o, op, Through, v) ==
    [n \in 1 .. op |->
        n = op \/ \E m \in n + 1 .. op : m \in Through /\ n \in In(o, m) /\ v[m]]
ChosenWalk(o, op, Through) == CHOOSE v : v = WalkIn(o, op, Through, v)
VisitedIn(o, op, Through) == {n \in 1 .. op : ChosenWalk(o, op, Through)[n]}

LEMMA VisitedIs ==
    ASSUME NEW op, NEW Through
    PROVE  Used!Visited(op, Through) = VisitedIn(ops, op, Through)
  BY Zenon DEF Used!Visited, VisitedIn, ChosenWalk, WalkIn, In, Used!InputsOf

(* There is such a walk: it reaches what is in every set with op that a    *)
(* node in Through brings its inputs into.                                 *)
LEMMA WalkExists ==
    ASSUME NEW o, Graph(o), NEW op \in 1 .. Len(o), NEW Through
    PROVE  ChosenWalk(o, op, Through) = WalkIn(o, op, Through, ChosenWalk(o, op, Through))
<1> DEFINE Closed(S) == op \in S /\ \A m \in S \cap Through : In(o, m) \subseteq S
           Least == {n \in 1 .. op : \A S \in SUBSET (1 .. op) : Closed(S) => n \in S}
           walk == [n \in 1 .. op |-> n \in Least]
<1>1. op \in 1 .. op /\ op \in Nat
  BY DEF Graph
<1>2. \A m \in 1 .. op : In(o, m) \subseteq 1 .. m - 1 /\ In(o, m) \subseteq 1 .. op
  BY InputsBefore DEF Graph
<1>3. Closed(Least)
  BY <1>1, <1>2
<1>4. ASSUME NEW n \in Least, n # op
      PROVE  \E m \in n + 1 .. op : m \in Through /\ n \in In(o, m) /\ m \in Least
  <2> DEFINE Rest == Least \ {n}
  <2>1. ~Closed(Rest) /\ op \in Rest
    BY <1>1, <1>3, <1>4
  <2>2. PICK m \in Rest \cap Through : ~(In(o, m) \subseteq Rest)
    BY <2>1
  <2>3. n \in In(o, m) /\ m \in Least /\ m \in 1 .. op
    BY <1>3, <2>2
  <2>4. m \in n + 1 .. op
    BY <1>1, <1>2, <2>3
  <2> QED
    BY <2>2, <2>3, <2>4
<1>5. ASSUME NEW n \in 1 .. op
      PROVE  walk[n] = (n = op \/ \E m \in n + 1 .. op : m \in Through /\ n \in In(o, m) /\ walk[m])
  <2>1. n + 1 .. op \subseteq 1 .. op
    BY <1>1
  <2>2. \A m \in n + 1 .. op : walk[m] = (m \in Least)
    BY <2>1
  <2>3. ASSUME NEW m \in n + 1 .. op, m \in Through, n \in In(o, m), m \in Least
        PROVE  n \in Least
    BY <1>3, <2>3
  <2>4. op \in Least
    BY <1>3
  <2>5. (n \in Least)
          = (n = op \/ \E m \in n + 1 .. op : m \in Through /\ n \in In(o, m) /\ m \in Least)
    BY <1>4, <2>3, <2>4
  <2>6. walk[n] = (n \in Least)
    OBVIOUS
  <2> HIDE DEF walk, Least
  <2> QED
    BY <2>2, <2>5, <2>6
<1>6. walk = WalkIn(o, op, Through, walk)
  BY <1>5 DEF WalkIn
<1> HIDE DEF walk
<1> QED
  BY <1>6 DEF ChosenWalk

(* What is known of the nodes visited: op is one, the inputs of one that   *)
(* is in Through are, and each but op is an input of one in Through.       *)
LEMMA VisitedAre ==
    ASSUME NEW o, Graph(o), NEW op \in 1 .. Len(o), NEW Through
    PROVE  /\ op \in VisitedIn(o, op, Through)
           /\ VisitedIn(o, op, Through) \subseteq 1 .. op
           /\ \A m \in VisitedIn(o, op, Through) \cap Through :
                 In(o, m) \subseteq VisitedIn(o, op, Through)
           /\ \A n \in VisitedIn(o, op, Through) \ {op} :
                 \E m \in VisitedIn(o, op, Through) \cap Through : n \in In(o, m)
<1> DEFINE v == ChosenWalk(o, op, Through)
<1>1. v = WalkIn(o, op, Through, v)
  BY WalkExists
<1> HIDE DEF v
<1>2. \A n \in 1 .. op :
        v[n] = (n = op \/ \E m \in n + 1 .. op : m \in Through /\ n \in In(o, m) /\ v[m])
  BY <1>1 DEF WalkIn
<1>3. VisitedIn(o, op, Through) = {n \in 1 .. op : v[n]}
  BY DEF VisitedIn, v
<1>4. op \in 1 .. op /\ op \in Nat
  BY DEF Graph
<1>5. \A m \in 1 .. op : In(o, m) \subseteq 1 .. m - 1
  BY InputsBefore DEF Graph
<1>6. ASSUME NEW m \in VisitedIn(o, op, Through) \cap Through, NEW n \in In(o, m)
      PROVE  n \in VisitedIn(o, op, Through)
  <2>1. m \in 1 .. op /\ v[m] /\ m \in Through
    BY <1>3, <1>6
  <2>2. n \in 1 .. op /\ m \in n + 1 .. op
    BY <1>4, <1>5, <1>6, <2>1
  <2> QED
    BY <1>2, <1>3, <1>6, <2>1, <2>2
<1>7. ASSUME NEW n \in VisitedIn(o, op, Through) \ {op}
      PROVE  \E m \in VisitedIn(o, op, Through) \cap Through : n \in In(o, m)
  <2>1. PICK m \in n + 1 .. op : m \in Through /\ n \in In(o, m) /\ v[m]
    BY <1>2, <1>3
  <2>2. m \in 1 .. op
    BY <1>3, <1>4
  <2> QED
    BY <1>3, <2>1, <2>2
<1> QED
  BY <1>2, <1>3, <1>4, <1>6, <1>7

Closed(o, S) == \A m \in S : In(o, m) \subseteq S

(* A walk does not leave a set that has the inputs of its nodes. *)
LEMMA VisitedInside ==
    ASSUME NEW o, Graph(o), NEW op \in 1 .. Len(o), NEW Through, NEW S, op \in S, Closed(o, S)
    PROVE  VisitedIn(o, op, Through) \subseteq S
<1> DEFINE Out == VisitedIn(o, op, Through) \ S
<1> SUFFICES ASSUME Out # {} PROVE FALSE
  OBVIOUS
<1>1. op \in Nat /\ Out \subseteq 0 .. op
  BY VisitedAre DEF Graph
<1>2. PICK n \in Out : \A m \in Out : m <= n
  BY ONLY <1>1, Out # {}, GreatestNat
<1>3. PICK m \in VisitedIn(o, op, Through) \cap Through : n \in In(o, m)
  BY VisitedAre
<1>4. m \notin S
  BY <1>2, <1>3 DEF Closed
<1>5. m \in 1 .. Len(o) /\ n \in 1 .. m - 1 /\ m <= n /\ m \in Nat /\ n \in Nat
  BY <1>1, <1>2, <1>3, <1>4, VisitedAre, InputsBefore DEF Graph
<1> QED
  BY <1>5

(* Values as Values defines them: old ones but for the fresh nodes. *)
Eval(o, w, n, v) ==
    IF o[n].inputs = <<>> THEN Used!Apply(o[n], 0, 0, w)
    ELSE Used!Apply(o[n], v[o[n].inputs[1]], v[o[n].inputs[2]], w)
ValueAt(o, old, Fresh, w, n, v) == IF n \notin Fresh THEN old[n] ELSE Eval(o, w, n, v)
StepIn(o, old, Fresh, w, v) == [n \in 1 .. Len(o) |-> ValueAt(o, old, Fresh, w, n, v)]
ChosenValues(o, old, Fresh, w) == CHOOSE v : v = StepIn(o, old, Fresh, w, v)
ValuesIn(o, old, Fresh, w) == [n \in 1 .. Len(o) |-> ChosenValues(o, old, Fresh, w)[n]]

LEMMA ValuesAreIn ==
    ASSUME NEW Fresh, NEW w
    PROVE  Used!Values(Fresh, w) = ValuesIn(ops, output_value, Fresh, w)
  BY Zenon DEF Used!Values, ValuesIn, ChosenValues, StepIn, ValueAt, Eval

(* Only the values of its inputs matter to that of an operation. *)
LEMMA EvalAlike ==
    ASSUME NEW o, Graph(o), NEW n \in 1 .. Len(o), NEW v, NEW u, NEW w,
           \A m \in In(o, n) : v[m] = u[m]
    PROVE  Eval(o, w, n, v) = Eval(o, w, n, u)
<1>1. CASE o[n].inputs = <<>>
  BY <1>1 DEF Eval
<1>2. CASE o[n].inputs # <<>>
  <2>1. o[n].inputs[1] \in In(o, n) /\ o[n].inputs[2] \in In(o, n)
    BY <1>2, InputsBefore
  <2>2. v[o[n].inputs[1]] = u[o[n].inputs[1]] /\ v[o[n].inputs[2]] = u[o[n].inputs[2]]
    BY <2>1
  <2> QED
    BY <1>2, <2>2 DEF Eval
<1> QED
  BY <1>1, <1>2

LEMMA ValuesExist ==
    ASSUME NEW o, Graph(o), NEW old, NEW Fresh, NEW w
    PROVE  ChosenValues(o, old, Fresh, w)
             = StepIn(o, old, Fresh, w, ChosenValues(o, old, Fresh, w))
<1> DEFINE Upto(v, j) ==
              \A n \in 1 .. Len(o) : n <= j => v[n] = ValueAt(o, old, Fresh, w, n, v)
           IsValues(v) == v = [n \in 1 .. Len(o) |-> v[n]]
           Bad == {j \in Nat : ~ \E v : IsValues(v) /\ Upto(v, j)}
<1>1. Bad = {}
  <2> SUFFICES ASSUME Bad # {} PROVE FALSE
    OBVIOUS
  <2>1. PICK m \in Bad : \A j \in Bad : m <= j
    <3>1. Bad \subseteq Nat
      OBVIOUS
    <3> HIDE DEF Bad
    <3> QED
      BY <3>1, LeastNat
  <2>2. m # 0
    <3> DEFINE none == [n \in 1 .. Len(o) |-> 0]
    <3>1. IsValues(none)
      OBVIOUS
    <3>2. Upto(none, 0)
      BY DEF Graph
    <3> HIDE DEF IsValues, Upto, none
    <3> QED
      BY <3>1, <3>2
  <2>3. m - 1 \in Nat /\ m \in Nat /\ m - 1 \notin Bad
    BY <2>1, <2>2
  <2>4. PICK v : IsValues(v) /\ Upto(v, m - 1)
    BY <2>3
  <2> DEFINE u == [n \in 1 .. Len(o) |->
                      IF n = m THEN ValueAt(o, old, Fresh, w, m, v) ELSE v[n]]
  <2>5. IsValues(u)
    OBVIOUS
  <2>6. \A n \in 1 .. Len(o) : n # m => u[n] = v[n]
    OBVIOUS
  <2>7. m \in 1 .. Len(o) => u[m] = ValueAt(o, old, Fresh, w, m, v)
    OBVIOUS
  <2>8. ASSUME NEW n \in 1 .. Len(o), n <= m
        PROVE  u[n] = ValueAt(o, old, Fresh, w, n, u)
    <3> HIDE DEF u
    <3>1. u[n] = ValueAt(o, old, Fresh, w, n, v)
      <4>1. CASE n = m
        BY <2>7, <4>1
      <4>2. CASE n # m
        <5>1. n <= m - 1
          BY <2>3, <2>8, <4>2 DEF Graph
        <5> QED
          BY <2>4, <2>6, <4>2, <5>1
      <4> QED
        BY <4>1, <4>2
    <3>2. \A p \in In(o, n) : v[p] = u[p]
      <4>1. \A p \in In(o, n) : p \in 1 .. Len(o) /\ p # m
        BY <2>3, <2>8, InputsBefore DEF Graph
      <4> QED
        BY <2>6, <4>1
    <3> QED
      BY <3>1, <3>2, EvalAlike DEF ValueAt
  <2>9. Upto(u, m)
    BY <2>8
  <2> HIDE DEF u, IsValues, Upto
  <2> QED
    BY <2>1, <2>5, <2>9
<1>2. Len(o) \in Nat
  BY DEF Graph
<1>3. PICK v : IsValues(v) /\ Upto(v, Len(o))
  BY <1>1, <1>2
<1>4. \A n \in 1 .. Len(o) : v[n] = ValueAt(o, old, Fresh, w, n, v)
  BY <1>2, <1>3
<1>5. v = [n \in 1 .. Len(o) |-> ValueAt(o, old, Fresh, w, n, v)]
  BY <1>3, <1>4
<1>6. v = StepIn(o, old, Fresh, w, v)
  BY <1>5 DEF StepIn
<1> QED
  BY <1>6 DEF ChosenValues

(* What is known of the values. *)
LEMMA ValuesAre ==
    ASSUME NEW o, Graph(o), NEW old, NEW Fresh, NEW w, NEW v, v = ValuesIn(o, old, Fresh, w)
    PROVE  /\ v = [n \in 1 .. Len(o) |-> v[n]]
           /\ \A n \in 1 .. Len(o) : v[n] = ValueAt(o, old, Fresh, w, n, v)
<1> DEFINE u == ChosenValues(o, old, Fresh, w)
<1>1. u = StepIn(o, old, Fresh, w, u)
  BY ValuesExist
<1> HIDE DEF u
<1>2. v = [n \in 1 .. Len(o) |-> u[n]]
  BY DEF ValuesIn, u
<1>3. \A n \in 1 .. Len(o) : v[n] = u[n] /\ u[n] = ValueAt(o, old, Fresh, w, n, u)
  BY <1>1, <1>2 DEF StepIn
<1>4. ASSUME NEW n \in 1 .. Len(o) PROVE v[n] = ValueAt(o, old, Fresh, w, n, v)
  <2>1. \A m \in In(o, n) : m \in 1 .. Len(o)
    BY InputsBefore DEF Graph
  <2>2. \A m \in In(o, n) : u[m] = v[m]
    BY <1>3, <2>1
  <2> QED
    BY <1>3, <2>2, EvalAlike DEF ValueAt
<1> QED
  BY <1>2, <1>4

(* What the nodes of a graph stand for. *)
Meaning(o, w) == ValuesIn(o, <<>>, 1 .. Len(o), w)

(* Values in S that are evaluated from each other, or right, are right. *)
Evaluated(o, w, S, v) ==
    /\ S \subseteq 1 .. Len(o)
    /\ \A n \in S : \/ v[n] = Meaning(o, w)[n]
                    \/ In(o, n) \subseteq S /\ v[n] = Eval(o, w, n, v)
Right(o, w, S, v) == \A n \in S : v[n] = Meaning(o, w)[n]

LEMMA MeansAlike ==
    ASSUME NEW o, Graph(o), NEW w, NEW S, NEW v, Evaluated(o, w, S, v)
    PROVE  Right(o, w, S, v)
<1> DEFINE u == Meaning(o, w)
           Wrong == {n \in S : v[n] # u[n]}
<1>1. \A n \in 1 .. Len(o) : u[n] = Eval(o, w, n, u)
  BY ValuesAre DEF Meaning, ValueAt
<1> HIDE DEF u
<1> SUFFICES ASSUME Wrong # {} PROVE FALSE
  BY DEF u, Right
<1>0. S \subseteq 1 .. Len(o)
  BY DEF Evaluated
<1>2. Wrong \subseteq Nat /\ S \subseteq Nat
  <2>1. PICK last \in Nat : last = Len(o)
    BY DEF Graph
  <2>2. \A n \in S : n \in 1 .. last
    BY <1>0, <2>1
  <2>3. \A n \in S : n \in Nat
    BY ONLY <2>2
  <2> QED
    BY <2>3
<1>3. PICK n \in Wrong : \A m \in Wrong : n <= m
  BY ONLY <1>2, Wrong # {}, LeastNat
<1>4. In(o, n) \subseteq S /\ v[n] = Eval(o, w, n, v)
  BY <1>3 DEF u, Evaluated
<1>5. \A m \in In(o, n) : m \in Nat /\ n \in Nat /\ m < n
  <2>1. n \in 1 .. Len(o) /\ n \in Nat
    BY <1>0, <1>2
  <2>2. In(o, n) \subseteq 1 .. n - 1
    BY <2>1, InputsBefore
  <2> QED
    BY <2>1, <2>2
<1>6. \A m \in In(o, n) : v[m] = u[m]
  BY <1>3, <1>4, <1>5
<1>7. Eval(o, w, n, v) = Eval(o, w, n, u)
  BY <1>0, <1>6, EvalAlike
<1> QED
  BY <1>0, <1>1, <1>4, <1>7

(* The values do not depend on the old ones where all are fresh. *)
LEMMA AllFresh ==
    ASSUME NEW o, Graph(o), NEW old, NEW w, NEW n \in 1 .. Len(o)
    PROVE  ValuesIn(o, old, 1 .. Len(o), w)[n] = Meaning(o, w)[n]
<1> DEFINE v == ValuesIn(o, old, 1 .. Len(o), w)
<1>1. \A m \in 1 .. Len(o) : v[m] = Eval(o, w, m, v)
  BY ValuesAre DEF ValueAt
<1>2. \A m \in 1 .. Len(o) : In(o, m) \subseteq 1 .. Len(o)
  BY InputsBefore DEF Graph
<1> HIDE DEF v
<1> DEFINE All == 1 .. Len(o)
<1>3. Evaluated(o, w, All, v) /\ n \in All
  BY <1>1, <1>2 DEF Evaluated
<1> HIDE DEF All
<1>4. Right(o, w, All, v)
  BY <1>3, MeansAlike
<1>5. v[n] = Meaning(o, w)[n]
  BY <1>3, <1>4 DEF Right
<1> QED
  BY <1>5 DEF v

(* compute_graph makes right what it computes, if what it finds computed   *)
(* is right: among any nodes that include their inputs.                    *)
LEMMA ComputesRight ==
    ASSUME NEW o, Graph(o), NEW old, NEW w, NEW op \in 1 .. Len(o), NEW Done,
           NEW S, S \subseteq 1 .. Len(o), Closed(o, S),
           Right(o, w, S \cap Done, old),
           NEW Fresh, Fresh = VisitedIn(o, op, (1 .. op) \ Done) \ Done
    PROVE  Right(o, w, S \cap (Done \cup Fresh), ValuesIn(o, old, Fresh, w))
<1> DEFINE v == ValuesIn(o, old, Fresh, w)
           T == S \cap (Done \cup Fresh)
<1>1. \A n \in 1 .. Len(o) : v[n] = ValueAt(o, old, Fresh, w, n, v)
  BY ValuesAre
<1>2. ASSUME NEW n \in S \cap Done PROVE v[n] = Meaning(o, w)[n]
  BY <1>1, <1>2 DEF ValueAt, Right
<1>3. ASSUME NEW n \in S \cap Fresh
      PROVE  In(o, n) \subseteq T /\ v[n] = Eval(o, w, n, v)
  <2>1. n \in VisitedIn(o, op, (1 .. op) \ Done) \cap ((1 .. op) \ Done)
    BY VisitedAre
  <2>2. In(o, n) \subseteq VisitedIn(o, op, (1 .. op) \ Done)
    BY <2>1, VisitedAre
  <2>3. In(o, n) \subseteq S
    BY DEF Closed
  <2> QED
    BY <1>1, <2>2, <2>3 DEF ValueAt
<1> HIDE DEF v
<1>4. Evaluated(o, w, T, v)
  BY <1>2, <1>3 DEF Evaluated
<1> HIDE DEF T
<1>5. Right(o, w, T, v)
  BY <1>4, MeansAlike
<1> QED
  BY <1>5 DEF v, T

(* Arithmetic modulo Modulus stays below it. *)
LEMMA Remainders == \A m \in Int : m % Modulus \in Used!Number
  BY BoundsAssumption DEF Used!Number

(* An operation on values gives one. *)
LEMMA ApplyTyped ==
    ASSUME NEW op, NEW last, IsPair(op, last), NEW p \in Value, NEW q \in Value, NEW w
    PROVE  Used!Apply(op, p, q, w) \in Value
<1>1. op.kind \in {"add", "sub", "mul", "div"}
  BY DEF IsPair
<1>2. Used!Apply(op, p, q, w)
        = IF p = Junk \/ q = Junk THEN Junk ELSE Used!Combine(op.kind, p, q)
  BY <1>1 DEF Used!Apply
<1>3. CASE p = Junk \/ q = Junk
  BY <1>2, <1>3 DEF Value
<1>4. CASE p # Junk /\ q # Junk
  <2>1. p \in Used!Number /\ q \in Used!Number /\ p \in Int /\ q \in Int
    BY <1>4 DEF Value, Used!Number
  <2>2. p + q \in Int /\ p - q \in Int /\ p * q \in Int
    BY <2>1
  <2>3. (p + q) % Modulus \in Value /\ (p - q) % Modulus \in Value /\ (p * q) % Modulus \in Value
    BY ONLY <2>2, Remainders DEF Value
  <2>4. q # 0 => Used!Divide(p, q) \in Value
    BY <2>1, PrimeAssumption DEF Used!Divide, Value
  <2>5. Junk \in Value
    BY DEF Value
  <2>6. Used!Combine(op.kind, p, q) \in Value
    BY <1>1, <2>3, <2>4, <2>5 DEF Used!Combine
  <2> QED
    BY <1>2, <1>4, <2>6
<1> QED
  BY <1>3, <1>4

LEMMA InputTyped ==
    ASSUME NEW op, IsInput(op), NEW R, Refers(op, R), NEW w \in [R -> Value]
    PROVE  Used!Apply(op, 0, 0, w) \in Value
<1>1. {0, 1} \subseteq Value
  BY BoundsAssumption DEF Value, Used!Number
<1>2. CASE op.kind = "const" /\ op.arg \in {0, 1}
  BY <1>1, <1>2 DEF Used!Apply
<1>3. CASE op.kind = "placeholder"
  <2>1. Used!Apply(op, 0, 0, w) = w[op.arg]
    BY ONLY <1>3 DEF Used!Apply
  <2>2. w[op.arg] \in Value
    BY <1>3 DEF Refers
  <2> QED
    BY <2>1, <2>2
<1> QED
  BY <1>2, <1>3 DEF IsInput

LEMMA ValuesTyped ==
    ASSUME NEW o, Graph(o), NEW old, NEW Fresh, NEW R, NEW w \in [R -> Value],
           \A n \in 1 .. Len(o) : old[n] \in Value /\ Refers(o[n], R)
    PROVE  ValuesIn(o, old, Fresh, w) \in [1 .. Len(o) -> Value]
<1> DEFINE v == ValuesIn(o, old, Fresh, w)
           Untyped == {n \in 1 .. Len(o) : v[n] \notin Value}
<1>1. /\ v = [n \in 1 .. Len(o) |-> v[n]]
      /\ \A n \in 1 .. Len(o) : v[n] = ValueAt(o, old, Fresh, w, n, v)
  BY ValuesAre
<1> HIDE DEF v
<1>2. Untyped = {}
  <2> SUFFICES ASSUME Untyped # {} PROVE FALSE
    OBVIOUS
  <2>1. Untyped \subseteq Nat
    OBVIOUS
  <2>2. PICK n \in Untyped : \A m \in Untyped : n <= m
    BY ONLY <2>1, Untyped # {}, LeastNat
  <2>3. n \in 1 .. Len(o) /\ v[n] \notin Value /\ v[n] = Eval(o, w, n, v)
    BY <1>1, <2>2 DEF ValueAt
  <2>4. \A m \in In(o, n) : v[m] \in Value
    <3>1. \A m \in In(o, n) : m \in 1 .. n - 1 /\ n \in 1 .. Len(o) /\ Len(o) \in Nat
      BY <2>3, InputsBefore DEF Graph
    <3>2. \A m \in In(o, n) : m \in 1 .. Len(o) /\ ~(n <= m)
      BY <3>1
    <3> QED
      BY <2>2, <3>2
  <2>5. CASE o[n].inputs = <<>>
    <3>1. IsInput(o[n]) /\ Refers(o[n], R)
      BY <2>3, <2>5, InputsBefore
    <3> QED
      BY <2>3, <2>5, <3>1, InputTyped DEF Eval
  <2>6. CASE o[n].inputs # <<>>
    <3>1. v[o[n].inputs[1]] \in Value /\ v[o[n].inputs[2]] \in Value
      BY <2>3, <2>4, <2>6, InputsBefore
    <3>2. IsPair(o[n], n - 1)
      BY <2>3, <2>6 DEF Graph, IsInput
    <3> QED
      BY <2>3, <2>6, <3>1, <3>2, ApplyTyped DEF Eval
  <2> QED
    BY <2>5, <2>6
<1>3. \A n \in 1 .. Len(o) : v[n] \in Value
  BY <1>2
<1> QED
  BY <1>1, <1>3 DEF v

-------------------------------------------------------------------------------
(***************************************************************************)
(* Which nodes are computed.                                               *)
(***************************************************************************)
ReachIn(o, r) == VisitedIn(o, r, 1 .. r)
ReachedIn(o, R) == UNION {ReachIn(o, r) : r \in R}

(* What is computed below the roots I is among nodes that are roots R, or  *)
(* have been computed for another of them that still is: so a reset that   *)
(* comes down from the roots meets it.                                     *)
Chained(o, R, I, C) ==
    \E W \in SUBSET C :
        /\ ReachedIn(o, I) \cap C \subseteq W
        /\ \A n \in W : n \in R \/ \E m \in W : n \in In(o, m)

LEMMA ReachIsClosed ==
    ASSUME NEW o, Graph(o), NEW r \in 1 .. Len(o)
    PROVE  r \in ReachIn(o, r) /\ ReachIn(o, r) \subseteq 1 .. Len(o) /\ Closed(o, ReachIn(o, r))
<1>1. 1 .. r \subseteq 1 .. Len(o)
  BY DEF Graph
<1>2. ReachIn(o, r) \subseteq 1 .. r
  BY VisitedAre DEF ReachIn
<1> QED
  BY <1>1, <1>2, VisitedAre DEF ReachIn, Closed

LEMMA ReachedIsClosed ==
    ASSUME NEW o, Graph(o), NEW R, R \subseteq 1 .. Len(o)
    PROVE  /\ R \subseteq ReachedIn(o, R) /\ ReachedIn(o, R) \subseteq 1 .. Len(o)
           /\ Closed(o, ReachedIn(o, R))
  BY ReachIsClosed DEF ReachedIn, Closed

(* Without the roots, nothing is computed. *)
LEMMA NothingComputed ==
    ASSUME NEW o, Graph(o), NEW R, NEW I, NEW C, C \subseteq 1 .. Len(o),
           Chained(o, R, I, C), R \cap C = {}
    PROVE  ReachedIn(o, I) \cap C = {}
<1>1. PICK W \in SUBSET C :
        /\ ReachedIn(o, I) \cap C \subseteq W
        /\ \A n \in W : n \in R \/ \E m \in W : n \in In(o, m)
  BY DEF Chained
<1> SUFFICES ASSUME W # {} PROVE FALSE
  BY <1>1
<1>2. PICK last \in Nat : last = Len(o)
  BY DEF Graph
<1>3. W \subseteq 0 .. last /\ W \subseteq 1 .. Len(o)
  BY <1>2
<1>4. PICK n \in W : \A m \in W : m <= n
  BY ONLY <1>2, <1>3, W # {}, GreatestNat
<1>5. PICK m \in W : n \in In(o, m)
  BY <1>1
<1>6. n \in 1 .. m - 1 /\ m <= n /\ m \in Nat
  BY <1>2, <1>3, <1>4, <1>5, InputsBefore
<1> QED
  BY <1>6

(* What reset_graph clears, among the computed nodes C. *)
ResetIn(o, op, force, C) ==
    IF force THEN VisitedIn(o, op, 1 .. op) ELSE VisitedIn(o, op, C) \cap C

LEMMA ResetClears ==
    ASSUME NEW o, Graph(o), NEW op \in 1 .. Len(o), NEW force \in BOOLEAN, NEW C
    PROVE  /\ op \in C => op \in ResetIn(o, op, force, C)
           /\ \A m \in ResetIn(o, op, force, C) : In(o, m) \cap C \subseteq ResetIn(o, op, force, C)
           /\ force => ReachIn(o, op) \subseteq ResetIn(o, op, force, C)
<1>1. CASE force
  <2>1. ResetIn(o, op, force, C) = ReachIn(o, op)
    BY <1>1 DEF ResetIn, ReachIn
  <2> QED
    BY <2>1, ReachIsClosed DEF Closed
<1>2. CASE ~force
  <2>1. ResetIn(o, op, force, C) = VisitedIn(o, op, C) \cap C
    BY <1>2 DEF ResetIn
  <2> QED
    BY <1>2, <2>1, VisitedAre
<1> QED
  BY <1>1, <1>2

LEMMA ResetKeepsChains ==
    ASSUME NEW o, NEW R, NEW I, NEW C, Chained(o, R, I, C), NEW K,
           \A m \in K : In(o, m) \cap C \subseteq K,
           NEW J, ReachedIn(o, J) \subseteq ReachedIn(o, I) \cup K
    PROVE  Chained(o, R, J, C \ K)
<1>1. PICK W \in SUBSET C :
        /\ ReachedIn(o, I) \cap C \subseteq W
        /\ \A n \in W : n \in R \/ \E m \in W : n \in In(o, m)
  BY DEF Chained
<1>2. PICK X : X = W \ K
  OBVIOUS
<1>3. X \in SUBSET (C \ K) /\ ReachedIn(o, J) \cap (C \ K) \subseteq X
  BY <1>1, <1>2
<1>4. ASSUME NEW n \in X, n \notin R PROVE \E m \in X : n \in In(o, m)
  <2>1. PICK m \in W : n \in In(o, m)
    BY <1>1, <1>2, <1>4
  <2> QED
    BY <1>2, <1>4, <2>1
<1> QED
  BY ONLY <1>3, <1>4 DEF Chained

LEMMA ComputeKeepsChains ==
    ASSUME NEW o, Graph(o), NEW R, R \subseteq 1 .. Len(o), NEW I, NEW C, Chained(o, R, I, C),
           NEW op \in R, NEW Fresh, Fresh = VisitedIn(o, op, (1 .. op) \ C) \ C
    PROVE  Chained(o, R, I, C \cup Fresh)
<1>1. PICK W \in SUBSET C :
        /\ ReachedIn(o, I) \cap C \subseteq W
        /\ \A n \in W : n \in R \/ \E m \in W : n \in In(o, m)
  BY DEF Chained
<1>2. W \cup Fresh \in SUBSET (C \cup Fresh)
      /\ ReachedIn(o, I) \cap (C \cup Fresh) \subseteq W \cup Fresh
  BY <1>1
<1>3. ASSUME NEW n \in Fresh, n # op PROVE \E m \in Fresh : n \in In(o, m)
  <2>1. PICK m \in VisitedIn(o, op, (1 .. op) \ C) \cap ((1 .. op) \ C) : n \in In(o, m)
    BY <1>3, VisitedAre
  <2> QED
    BY <2>1
<1>4. \A n \in W \cup Fresh : n \in R \/ \E m \in W \cup Fresh : n \in In(o, m)
  BY <1>1, <1>3
<1> QED
  BY <1>2, <1>4 DEF Chained

-------------------------------------------------------------------------------
(***************************************************************************)
(* The cached values of a graph in use.                                    *)
(***************************************************************************)
Operation(R) ==
    {op \in [kind : {"const", "placeholder", "add", "sub", "mul", "div"}, inputs : Seq(Nat),
             arg : R \cup {0, 1}] : Refers(op, R)}

GraphTypeOK ==
    /\ ops \in Seq(Operation(References)) /\ Graph(ops)
    /\ output_value \in Seq(Value) /\ Len(output_value) = Len(ops)
    /\ output_computed \in Seq(BOOLEAN) /\ Len(output_computed) = Len(ops)
    /\ heap \in [0 .. Period - 1 -> BOOLEAN] /\ value \in [References -> Value]

RootsOK ==
    /\ Len(roots) \in {0, 2} /\ (roots = <<>>) = (Used!Root = {})
    /\ Used!Root \subseteq 1 .. Len(ops)
    /\ forced \subseteq Used!Root /\ settled \subseteq Used!Root
    /\ initialized \subseteq Used!Root

(* What is computed below a root whose flags are initialized hangs on      *)
(* roots, what can be reached from a root reset with force is right as far *)
(* as it is computed, roots that are reset are not computed before all of  *)
(* them are, and then whatever is computed below initialized ones is       *)
(* right.                                                                  *)
GraphIInv ==
    /\ GraphTypeOK /\ RootsOK
    /\ Chained(ops, Used!Root, initialized, Used!Computed)
    /\ \A r \in forced : Right(ops, value, ReachIn(ops, r) \cap Used!Computed, output_value)
    /\ settled # Used!Root => settled \cap Used!Computed = {}
    /\ Used!Root # {} /\ settled = Used!Root =>
          Right(ops, value, ReachedIn(ops, initialized) \cap Used!Computed, output_value)

(* Fewer nodes are no harder to have right. *)
LEMMA RightOfLess ==
    ASSUME NEW o, NEW w, NEW S, NEW T, T \subseteq S, NEW v, Right(o, w, S, v)
    PROVE  Right(o, w, T, v)
  BY DEF Right

LEMMA RootsStay == ASSUME UNCHANGED roots PROVE Used!Root' = Used!Root
  BY DEF Used!Root

LEMMA SetValueKeeps ==
    ASSUME GraphIInv, Used!SetValue
    PROVE  GraphIInv'
<1>1. /\ Used!Root # {} /\ forced' = {} /\ settled' = {}
      /\ ops' = ops /\ output_value' = output_value /\ output_computed' = output_computed
      /\ heap' = heap /\ roots' = roots /\ initialized' = initialized
  BY DEF Used!SetValue
<1>2. Used!Root' = Used!Root /\ Used!Computed' = Used!Computed
  BY <1>1, RootsStay DEF Used!Computed
<1>3. value' \in [References -> Value]
  BY DEF Used!SetValue, GraphIInv, GraphTypeOK, Value
<1>4. GraphTypeOK'
  BY <1>1, <1>3 DEF GraphIInv, GraphTypeOK
<1>5. RootsOK'
  BY <1>1, <1>2 DEF GraphIInv, RootsOK
<1>6. Chained(ops, Used!Root, initialized, Used!Computed)'
  BY <1>1, <1>2 DEF GraphIInv
<1> QED
  BY <1>1, <1>2, <1>4, <1>5, <1>6 DEF GraphIInv

LEMMA ResetKeeps ==
    ASSUME GraphIInv, NEW op \in Used!Root, NEW force \in BOOLEAN, Used!reset_graph(op, force)
    PROVE  GraphIInv'
<1> DEFINE K == ResetIn(ops, op, force, Used!Computed)
<1>1. Used!ResetNodes(op, force) = K
  BY VisitedIs DEF Used!ResetNodes, ResetIn
<1>2. /\ output_computed' = [n \in 1 .. Len(ops) |-> output_computed[n] /\ n \notin K]
      /\ forced' = IF force THEN forced \cup {op} ELSE forced
      /\ settled' = settled \cup {op}
      /\ initialized' = IF force THEN initialized \cup {op} ELSE initialized
      /\ ops' = ops /\ output_value' = output_value /\ heap' = heap /\ value' = value
      /\ roots' = roots
  BY <1>1 DEF Used!reset_graph
<1>3. op \in 1 .. Len(ops) /\ Graph(ops) /\ Used!Root \subseteq 1 .. Len(ops)
  BY DEF GraphIInv, RootsOK, GraphTypeOK
<1>4. /\ op \in Used!Computed => op \in K
      /\ \A m \in K : In(ops, m) \cap Used!Computed \subseteq K
      /\ force => ReachIn(ops, op) \subseteq K
  BY <1>3, ResetClears
<1> HIDE DEF K
<1>5. Used!Root' = Used!Root /\ Used!Computed' = Used!Computed \ K
  BY <1>2, RootsStay DEF Used!Computed
<1>6. GraphTypeOK'
  <2>1. output_computed' \in Seq(BOOLEAN) /\ Len(output_computed') = Len(ops)
    <3>1. Len(ops) \in Nat /\ \A n \in 1 .. Len(ops) : output_computed[n] \in BOOLEAN
      BY DEF GraphIInv, GraphTypeOK, Graph
    <3>2. output_computed' \in [1 .. Len(ops) -> BOOLEAN]
      BY <1>2, <3>1
    <3> QED
      BY <3>1, <3>2, SeqOfLength
  <2> QED
    BY <1>2, <2>1 DEF GraphIInv, GraphTypeOK
<1>7. RootsOK'
  BY <1>2, <1>5 DEF GraphIInv, RootsOK
<1>8. ReachedIn(ops, initialized') \subseteq ReachedIn(ops, initialized) \cup K
  BY <1>2, <1>4 DEF ReachedIn
<1>9. Chained(ops, Used!Root, initialized', Used!Computed \ K)
  <2>1. PICK J : J = initialized'
    OBVIOUS
  <2>2. Chained(ops, Used!Root, J, Used!Computed \ K)
    BY <1>4, <1>8, <2>1, ResetKeepsChains DEF GraphIInv
  <2> QED
    BY <2>1, <2>2
<1>10. ASSUME NEW r \in forced'
      PROVE  Right(ops, value, ReachIn(ops, r) \cap Used!Computed, output_value)'
  <2>1. CASE r \in forced
    <3>1. Right(ops, value, ReachIn(ops, r) \cap Used!Computed, output_value)
      BY <2>1 DEF GraphIInv
    <3>2. Right(ops, value, ReachIn(ops, r) \cap (Used!Computed \ K), output_value)
      BY <3>1, RightOfLess
    <3> QED
      BY <1>2, <1>5, <3>2
  <2>2. CASE r = op /\ force
    <3>1. ReachIn(ops, r) \cap (Used!Computed \ K) = {}
      BY <1>4, <2>2
    <3>2. Right(ops, value, ReachIn(ops, r) \cap (Used!Computed \ K), output_value)
      BY <3>1 DEF Right
    <3> QED
      BY <1>2, <1>5, <3>2
  <2> QED
    BY <1>2, <2>1, <2>2
<1>11. settled # Used!Root => settled' \cap Used!Computed' = {}
  BY <1>2, <1>4, <1>5 DEF GraphIInv
<1>12. ASSUME settled' = Used!Root'
       PROVE  Right(ops, value, ReachedIn(ops, initialized) \cap Used!Computed, output_value)'
  <2>1. CASE settled = Used!Root
    <3>1. Right(ops, value, ReachedIn(ops, initialized) \cap Used!Computed, output_value)
      BY <2>1 DEF GraphIInv
    <3>2. ReachedIn(ops, initialized') \cap (Used!Computed \ K)
            \subseteq ReachedIn(ops, initialized) \cap Used!Computed
      BY <1>8
    <3>3. Right(ops, value, ReachedIn(ops, initialized') \cap (Used!Computed \ K), output_value)
      BY <3>1, <3>2, RightOfLess
    <3> QED
      BY <1>2, <1>5, <3>3
  <2>2. CASE settled # Used!Root
    <3>1. PICK J : J = initialized'
      OBVIOUS
    <3>2. PICK C : C = Used!Computed \ K
      OBVIOUS
    <3>3. Used!Root \cap C = {} /\ C \subseteq 1 .. Len(ops)
      BY <1>5, <1>11, <1>12, <2>2, <3>2 DEF Used!Computed
    <3>4. Chained(ops, Used!Root, J, C)
      BY <1>9, <3>1, <3>2
    <3>5. ReachedIn(ops, J) \cap C = {}
      BY <1>3, <3>3, <3>4, NothingComputed
    <3>6. Right(ops, value, ReachedIn(ops, J) \cap C, output_value)
      BY <3>5 DEF Right
    <3> QED
      BY <1>2, <1>5, <3>1, <3>2, <3>6
  <2> QED
    BY <2>1, <2>2
<1>13. settled' # Used!Root' => settled' \cap Used!Computed' = {}
  <2>1. settled = Used!Root => settled' = Used!Root'
    BY <1>2, <1>5
  <2> QED
    BY <1>11, <2>1
<1>14. Chained(ops, Used!Root, initialized, Used!Computed)'
  BY <1>2, <1>5, <1>9
<1> QED
  BY <1>6, <1>7, <1>10, <1>12, <1>13, <1>14 DEF GraphIInv

LEMMA ComputeKeeps ==
    ASSUME GraphIInv, NEW op \in Used!Root, Used!compute_graph(op)
    PROVE  GraphIInv'
<1> DEFINE C == Used!Computed
           Fresh == VisitedIn(ops, op, (1 .. op) \ C) \ C
<1>1. Used!Visited(op, (1 .. op) \ C) \ C = Fresh
  BY VisitedIs
<1>2. /\ output_value' = ValuesIn(ops, output_value, Fresh, value)
      /\ output_computed' = [n \in 1 .. Len(ops) |-> output_computed[n] \/ n \in Fresh]
      /\ settled' = IF settled = Used!Root THEN settled ELSE {}
      /\ ops' = ops /\ heap' = heap /\ value' = value
      /\ roots' = roots /\ forced' = forced /\ initialized' = initialized
  BY <1>1, ValuesAreIn DEF Used!compute_graph
<1>3. op \in 1 .. Len(ops) /\ Graph(ops) /\ Used!Root \subseteq 1 .. Len(ops) /\ Len(ops) \in Nat
  BY DEF GraphIInv, RootsOK, GraphTypeOK, Graph
<1>4. Fresh \subseteq 1 .. Len(ops)
  BY <1>3, VisitedAre
<1>5. Used!Root' = Used!Root /\ Used!Computed' = C \cup Fresh
  <2> HIDE DEF Fresh
  <2> QED
    BY <1>2, <1>4, RootsStay DEF Used!Computed
<1>6. ASSUME NEW S, S \subseteq 1 .. Len(ops), Closed(ops, S),
             Right(ops, value, S \cap C, output_value)
      PROVE  Right(ops, value, S \cap Used!Computed, output_value)'
  <2>1. Right(ops, value, S \cap (C \cup Fresh), ValuesIn(ops, output_value, Fresh, value))
    BY <1>3, <1>6, ComputesRight
  <2> QED
    BY <1>2, <1>5, <2>1
<1>7. GraphTypeOK'
  <2>1. \A n \in 1 .. Len(ops) : output_value[n] \in Value /\ output_computed[n] \in BOOLEAN
    BY DEF GraphIInv, GraphTypeOK
  <2>2. \A n \in 1 .. Len(ops) : Refers(ops[n], References)
    BY DEF GraphIInv, GraphTypeOK, Operation
  <2>3. value \in [References -> Value]
    BY DEF GraphIInv, GraphTypeOK
  <2>4. output_value' \in [1 .. Len(ops) -> Value]
    BY <1>2, <1>3, <2>1, <2>3, <2>2, ValuesTyped
  <2>5. output_computed' \in [1 .. Len(ops) -> BOOLEAN]
    BY <1>2, <2>1
  <2>6. /\ output_value' \in Seq(Value) /\ Len(output_value') = Len(ops)
        /\ output_computed' \in Seq(BOOLEAN) /\ Len(output_computed') = Len(ops)
    BY <1>3, <2>4, <2>5, SeqOfLength
  <2> QED
    BY <1>2, <2>6 DEF GraphIInv, GraphTypeOK
<1>8. RootsOK'
  BY <1>2, <1>5 DEF GraphIInv, RootsOK
<1>9. Chained(ops, Used!Root, initialized, Used!Computed)'
  <2>1. Chained(ops, Used!Root, initialized, C \cup Fresh)
    BY <1>3, ComputeKeepsChains DEF GraphIInv
  <2> QED
    BY <1>2, <1>5, <2>1
<1>10. ASSUME NEW r \in forced'
       PROVE  Right(ops, value, ReachIn(ops, r) \cap Used!Computed, output_value)'
  <2>1. r \in forced /\ r \in 1 .. Len(ops)
    BY <1>2, <1>3 DEF GraphIInv, RootsOK
  <2>2. Right(ops, value, ReachIn(ops, r) \cap C, output_value)
    BY <2>1 DEF GraphIInv
  <2>3. ReachIn(ops, r) \subseteq 1 .. Len(ops) /\ Closed(ops, ReachIn(ops, r))
    BY <1>3, <2>1, ReachIsClosed
  <2>4. PICK S : S = ReachIn(ops, r)
    OBVIOUS
  <2>5. Right(ops, value, S \cap Used!Computed, output_value)'
    BY <1>6, <2>2, <2>3, <2>4
  <2> QED
    BY <1>2, <2>4, <2>5
<1>11. initialized \subseteq 1 .. Len(ops)
  BY <1>3 DEF GraphIInv, RootsOK
<1>12. ASSUME settled' = Used!Root'
       PROVE  Right(ops, value, ReachedIn(ops, initialized) \cap Used!Computed, output_value)'
  <2>1. settled = Used!Root
    BY <1>2, <1>5, <1>12
  <2>2. Right(ops, value, ReachedIn(ops, initialized) \cap C, output_value)
    BY <2>1 DEF GraphIInv
  <2>3. /\ ReachedIn(ops, initialized) \subseteq 1 .. Len(ops)
        /\ Closed(ops, ReachedIn(ops, initialized))
    BY <1>11, <1>3, ReachedIsClosed
  <2>4. PICK S : S = ReachedIn(ops, initialized)
    OBVIOUS
  <2>5. Right(ops, value, S \cap Used!Computed, output_value)'
    BY <1>6, <2>2, <2>3, <2>4
  <2> QED
    BY <1>2, <1>5, <2>4, <2>5
<1>13. settled' # Used!Root' => settled' \cap Used!Computed' = {}
  BY <1>2, <1>5
<1> QED
  BY <1>7, <1>8, <1>9, <1>10, <1>12, <1>13 DEF GraphIInv

-------------------------------------------------------------------------------
(***************************************************************************)
(* Making a graph and its derivative.                                      *)
(***************************************************************************)

(* Operations new fit behind last others. *)
Fits(R, new, last) ==
    /\ new \in Seq(Operation(R))
    /\ \A j \in 1 .. Len(new) : IsInput(new[j]) \/ IsPair(new[j], last + j - 1)

LEMMA PairLater ==
    ASSUME NEW op, NEW m \in Nat, NEW n \in Nat, m <= n, IsPair(op, m)
    PROVE  IsPair(op, n)
<1>1. PICK p, q \in 1 .. m : op.inputs = <<p, q>>
  BY DEF IsPair
<1>2. p \in 1 .. n /\ q \in 1 .. n
  OBVIOUS
<1> QED
  BY <1>1, <1>2 DEF IsPair

LEMMA FitsJoined ==
    ASSUME NEW R, NEW last \in Nat, NEW s, Fits(R, s, last), NEW t, Fits(R, t, last + Len(s))
    PROVE  /\ Fits(R, s \o t, last)
           /\ Len(s \o t) = Len(s) + Len(t) /\ Len(s) \in Nat /\ Len(t) \in Nat
<1>1. s \in Seq(Operation(R)) /\ t \in Seq(Operation(R)) /\ Len(s) \in Nat /\ Len(t) \in Nat
  BY DEF Fits
<1>2. /\ s \o t \in Seq(Operation(R)) /\ Len(s \o t) = Len(s) + Len(t)
      /\ \A j \in 1 .. Len(s) + Len(t) : (s \o t)[j] = IF j <= Len(s) THEN s[j] ELSE t[j - Len(s)]
  BY <1>1, ConcatProperties
<1>3. ASSUME NEW j \in 1 .. Len(s) + Len(t)
      PROVE  IsInput((s \o t)[j]) \/ IsPair((s \o t)[j], last + j - 1)
  <2>1. CASE j <= Len(s)
    <3>1. (s \o t)[j] = s[j] /\ j \in 1 .. Len(s)
      BY <1>1, <1>2, <2>1
    <3> QED
      BY <3>1 DEF Fits
  <2>2. CASE ~(j <= Len(s))
    <3>1. (s \o t)[j] = t[j - Len(s)] /\ j - Len(s) \in 1 .. Len(t)
      BY <1>1, <1>2, <2>2
    <3>2. IsInput(t[j - Len(s)]) \/ IsPair(t[j - Len(s)], (last + Len(s)) + (j - Len(s)) - 1)
      BY <3>1 DEF Fits
    <3>3. (last + Len(s)) + (j - Len(s)) - 1 = last + j - 1
      BY <1>1
    <3> QED
      BY <3>1, <3>2, <3>3
  <2> QED
    BY <2>1, <2>2
<1> QED
  BY <1>1, <1>2, <1>3 DEF Fits

LEMMA GraphGrows ==
    ASSUME NEW R, NEW o \in Seq(Operation(R)), Graph(o), NEW new, Fits(R, new, Len(o))
    PROVE  o \o new \in Seq(Operation(R)) /\ Graph(o \o new) /\ Len(o \o new) = Len(o) + Len(new)
<1>1. Len(o) \in Nat /\ 0 \in Nat /\ \A n \in 1 .. Len(o) : 0 + n - 1 = n - 1
  BY DEF Graph
<1>2. Fits(R, o, 0)
  BY <1>1 DEF Fits, Graph
<1>3. 0 + Len(o) = Len(o)
  BY <1>1
<1>4. Fits(R, o \o new, 0) /\ Len(o \o new) = Len(o) + Len(new) /\ Len(new) \in Nat
  BY <1>1, <1>2, <1>3, FitsJoined
<1>5. Len(o \o new) \in Nat
  BY <1>1, <1>4
<1>6. \A n \in 1 .. Len(o \o new) : 0 + n - 1 = n - 1
  BY <1>5
<1> QED
  BY <1>4, <1>5, <1>6 DEF Fits, Graph

(* One operation fits. *)
LEMMA OneFits ==
    ASSUME NEW R, NEW op \in Operation(R), NEW last \in Nat, IsInput(op) \/ IsPair(op, last)
    PROVE  Fits(R, <<op>>, last) /\ Len(<<op>>) = 1
<1>1. <<op>> \in Seq(Operation(R)) /\ Len(<<op>>) = 1 /\ <<op>>[1] = op
  OBVIOUS
<1>2. last + 1 - 1 = last
  OBVIOUS
<1> QED
  BY <1>1, <1>2 DEF Fits

LEMMA InputsMade ==
    ASSUME NEW R
    PROVE  /\ \A r \in R : Used!placeholder(r) \in Operation(R) /\ IsInput(Used!placeholder(r))
           /\ \A m \in {0, 1} : Used!const(m) \in Operation(R) /\ IsInput(Used!const(m))
<1>1. <<>> \in Seq(Nat)
  OBVIOUS
<1> QED
  BY <1>1 DEF Used!placeholder, Used!const, Used!Op, Operation, IsInput, Refers

LEMMA PairMade ==
    ASSUME NEW R, NEW kind \in {"add", "sub", "mul", "div"}, NEW last \in Nat,
           NEW p \in 1 .. last, NEW q \in 1 .. last
    PROVE  Used!pairwise(kind, p, q) \in Operation(R) /\ IsPair(Used!pairwise(kind, p, q), last)
<1>1. <<p, q>> \in Seq(Nat)
  OBVIOUS
<1>2. Used!pairwise(kind, p, q) = [kind |-> kind, inputs |-> <<p, q>>, arg |-> 0]
  BY DEF Used!pairwise, Used!Op
<1>3. IsPair(Used!pairwise(kind, p, q), last)
  BY <1>2 DEF IsPair
<1> QED
  BY <1>1, <1>2, <1>3 DEF Operation, Refers

(* Fresh memory, whatever it holds, makes nodes of the right type.         *)
LEMMA AllocateKeeps ==
    ASSUME GraphIInv, roots = <<>>, NEW new, Fits(References, new, Len(ops)), Used!Allocate(new),
           UNCHANGED <<heap, value, forced, settled, initialized>>
    PROVE  /\ GraphTypeOK' /\ forced' = {} /\ settled' = {} /\ initialized' = {}
           /\ Len(ops') = Len(ops) + Len(new) /\ Len(new) \in Nat
<1>1. /\ ops \in Seq(Operation(References)) /\ Graph(ops)
      /\ output_value \in Seq(Value) /\ Len(output_value) = Len(ops)
      /\ output_computed \in Seq(BOOLEAN) /\ Len(output_computed) = Len(ops)
      /\ heap \in [0 .. Period - 1 -> BOOLEAN] /\ value \in [References -> Value]
  BY DEF GraphIInv, GraphTypeOK
<1>2. PICK count \in Nat : count = Len(new)
  BY DEF Fits
<1>3. PICK last \in Nat : last = Len(ops)
  BY <1>1 DEF Graph
<1>4. PICK junk : junk = [i_ \in 1 .. count |-> Junk]
  OBVIOUS
<1>5. PICK flags : flags = [i_ \in 1 .. count |-> heap[(last + i_) % Period]]
  OBVIOUS
<1>6. /\ ops' = ops \o new /\ output_value' = output_value \o junk
      /\ output_computed' = output_computed \o flags
      /\ heap' = heap /\ value' = value
      /\ forced' = forced /\ settled' = settled /\ initialized' = initialized
  BY <1>2, <1>3, <1>4, <1>5 DEF Used!Allocate
<1>7. Junk \in Value
  BY DEF Value
<1>8. junk \in Seq(Value) /\ Len(junk) = count
  <2>1. junk \in [1 .. count -> Value]
    BY <1>4, <1>7
  <2> QED
    BY <2>1, SeqOfLength
<1>9. flags \in Seq(BOOLEAN) /\ Len(flags) = count
  <2>1. Period \in Nat /\ Period > 0
    BY BoundsAssumption
  <2>2. \A n \in 1 .. count : (last + n) % Period \in 0 .. Period - 1
    BY ONLY <2>1, last \in Nat
  <2>3. flags \in [1 .. count -> BOOLEAN]
    BY <1>1, <1>5, <2>2
  <2> QED
    BY <2>3, SeqOfLength
<1>10. ops' \in Seq(Operation(References)) /\ Graph(ops') /\ Len(ops') = Len(ops) + count
  BY <1>1, <1>2, <1>6, GraphGrows
<1>11. output_value' \in Seq(Value) /\ Len(output_value') = Len(ops) + count
  <2>1. /\ output_value \o junk \in Seq(Value)
        /\ Len(output_value \o junk) = Len(output_value) + Len(junk)
    BY ONLY <1>1, <1>8, ConcatProperties
  <2> QED
    BY ONLY <1>1, <1>6, <1>8, <2>1
<1>12. output_computed' \in Seq(BOOLEAN) /\ Len(output_computed') = Len(ops) + count
  <2>1. /\ output_computed \o flags \in Seq(BOOLEAN)
        /\ Len(output_computed \o flags) = Len(output_computed) + Len(flags)
    BY ONLY <1>1, <1>9, ConcatProperties
  <2> QED
    BY ONLY <1>1, <1>6, <1>9, <2>1
<1>13. GraphTypeOK'
  BY <1>1, <1>6, <1>10, <1>11, <1>12 DEF GraphTypeOK
<1>14. forced = {} /\ settled = {} /\ initialized = {}
  BY DEF GraphIInv, RootsOK
<1> QED
  BY <1>2, <1>6, <1>10, <1>13, <1>14

(* No root, nothing below one. *)
LEMMA NoneIsChained == ASSUME NEW o, NEW R, NEW C PROVE Chained(o, R, {}, C)
<1>1. {} \in SUBSET C /\ ReachedIn(o, {}) \cap C \subseteq {}
  BY DEF ReachedIn
<1> QED
  BY <1>1 DEF Chained

LEMMA NoRoots == ASSUME roots = <<>> PROVE Used!Root = {}
  BY DEF Used!Root

(* A step that makes operations by hand. *)
LEMMA MakeKeeps ==
    ASSUME GraphIInv, roots = <<>>, NEW new, Fits(References, new, Len(ops)), Used!Allocate(new),
           UNCHANGED <<heap, value, roots, forced, settled, initialized>>
    PROVE  GraphIInv'
<1>1. GraphTypeOK' /\ forced' = {} /\ settled' = {} /\ initialized' = {}
  BY AllocateKeeps
<1>2. roots' = <<>> /\ Used!Root' = {}
  BY NoRoots, RootsStay
<1>3. RootsOK'
  BY <1>1, <1>2 DEF RootsOK
<1>4. Chained(ops', Used!Root', initialized', Used!Computed')
  BY <1>1, NoneIsChained
<1> QED
  BY <1>1, <1>2, <1>3, <1>4 DEF GraphIInv

LEMMA BuildKeeps ==
    ASSUME GraphIInv, Used!make_op_input \/ Used!make_op_pairwise
    PROVE  GraphIInv'
<1>1. Len(ops) \in Nat
  BY DEF GraphIInv, GraphTypeOK, Graph
<1>2. CASE Used!make_op_input
  <2>1. PICK new \in {Used!placeholder(r) : r \in References} \cup {Used!const(1)} :
           Used!Allocate(<<new>>)
    BY <1>2 DEF Used!make_op_input
  <2>2. new \in Operation(References) /\ IsInput(new)
    BY InputsMade
  <2>3. Fits(References, <<new>>, Len(ops))
    BY <1>1, <2>2, OneFits
  <2>4. roots = <<>> /\ UNCHANGED <<heap, value, roots, forced, settled, initialized>>
    BY <1>2 DEF Used!make_op_input, Used!Building
  <2> QED
    BY <2>1, <2>3, <2>4, MakeKeeps
<1>3. CASE Used!make_op_pairwise
  <2>1. PICK kind \in Kinds, p \in 1 .. Len(ops), q \in 1 .. Len(ops) :
           Used!Allocate(<<Used!pairwise(kind, p, q)>>)
    BY <1>3 DEF Used!make_op_pairwise
  <2>2. kind \in {"add", "sub", "mul", "div"}
    BY BoundsAssumption
  <2>3. PICK new : new = Used!pairwise(kind, p, q)
    OBVIOUS
  <2>4. new \in Operation(References) /\ IsPair(new, Len(ops))
    BY <1>1, <2>2, <2>3, PairMade
  <2>5. Fits(References, <<new>>, Len(ops))
    BY <1>1, <2>4, OneFits
  <2>6. roots = <<>> /\ UNCHANGED <<heap, value, roots, forced, settled, initialized>>
    BY <1>3 DEF Used!make_op_pairwise, Used!Building
  <2>7. Used!Allocate(<<new>>)
    BY <2>1, <2>3
  <2> QED
    BY <2>5, <2>6, <2>7, MakeKeeps
<1> QED
  BY <1>2, <1>3

(* The derivative of an input is one constant. *)
LEMMA InputDerived ==
    ASSUME NEW op, IsInput(op), NEW s, NEW t, NEW top
    PROVE  \E m \in {0, 1} : Used!DerivativeOf(op, s, t, top) = <<Used!const(m)>>
<1>1. CASE op.kind = "const"
  BY <1>1 DEF Used!DerivativeOf
<1>2. CASE op.kind = "placeholder"
  BY <1>2 DEF Used!DerivativeOf
<1> QED
  BY <1>1, <1>2 DEF IsInput

(* That of a pair is those of its inputs and more. *)
Added(op, d1, d2) ==
    IF op.kind = "mul" THEN Used!Product(op.inputs, d1, d2, d2)
    ELSE IF op.kind = "div" THEN Used!Quotient(op.inputs, d1, d2, d2)
    ELSE <<Used!pairwise(op.kind, d1, d2)>>

LEMMA PairDerived ==
    ASSUME NEW op, NEW last, IsPair(op, last), NEW s, NEW t, NEW top
    PROVE  Used!DerivativeOf(op, s, t, top)
             = (s \o t) \o Added(op, top + Len(s), (top + Len(s)) + Len(t))
<1>1. CASE op.kind = "add"
  BY <1>1 DEF Used!DerivativeOf, Added
<1>2. CASE op.kind = "sub"
  BY <1>2 DEF Used!DerivativeOf, Added
<1>3. CASE op.kind = "mul"
  BY <1>3 DEF Used!DerivativeOf, Added
<1>4. CASE op.kind = "div"
  BY <1>4 DEF Used!DerivativeOf, Added
<1> QED
  BY <1>1, <1>2, <1>3, <1>4 DEF IsPair

(* Three and five operations fit, if each uses earlier ones. *)
LEMMA ThreeFit ==
    ASSUME NEW R, NEW last \in Nat, NEW e \in Operation(R), NEW f \in Operation(R),
           NEW g \in Operation(R),
           IsPair(e, last), IsPair(f, last + 1), IsPair(g, last + 2)
    PROVE  Fits(R, <<e, f, g>>, last) /\ Len(<<e, f, g>>) = 3
<1>1. PICK new : new = <<e, f, g>>
  OBVIOUS
<1>2. new \in Seq(Operation(R)) /\ Len(new) = 3 /\ new[1] = e /\ new[2] = f /\ new[3] = g
  BY <1>1
<1>3. last + 1 - 1 = last /\ last + 2 - 1 = last + 1 /\ last + 3 - 1 = last + 2
  OBVIOUS
<1>4. ASSUME NEW j \in 1 .. 3 PROVE IsPair(new[j], last + j - 1)
  <2>1. CASE j = 1
    BY <1>2, <1>3, <2>1
  <2>2. CASE j = 2
    BY <1>2, <1>3, <2>2
  <2>3. CASE j = 3
    BY <1>2, <1>3, <2>3
  <2> QED
    BY <2>1, <2>2, <2>3
<1> QED
  BY <1>1, <1>2, <1>4 DEF Fits

LEMMA TwoFit ==
    ASSUME NEW R, NEW last \in Nat, NEW e \in Operation(R), NEW f \in Operation(R),
           IsPair(e, last), IsPair(f, last + 1)
    PROVE  Fits(R, <<e, f>>, last) /\ Len(<<e, f>>) = 2
<1>1. PICK new : new = <<e, f>>
  OBVIOUS
<1>2. new \in Seq(Operation(R)) /\ Len(new) = 2 /\ new[1] = e /\ new[2] = f
  BY <1>1
<1>3. last + 1 - 1 = last /\ last + 2 - 1 = last + 1
  OBVIOUS
<1>4. ASSUME NEW j \in 1 .. 2 PROVE IsPair(new[j], last + j - 1)
  <2>1. CASE j = 1
    BY <1>2, <1>3, <2>1
  <2>2. CASE j = 2
    BY <1>2, <1>3, <2>2
  <2> QED
    BY <2>1, <2>2
<1> QED
  BY <1>1, <1>2, <1>4 DEF Fits

LEMMA ProductFits ==
    ASSUME NEW R, NEW d2 \in Nat, NEW d1 \in 1 .. d2, d2 \in 1 .. d2,
           NEW p \in 1 .. d2, NEW q \in 1 .. d2
    PROVE  /\ Fits(R, Used!Product(<<p, q>>, d1, d2, d2), d2)
           /\ Len(Used!Product(<<p, q>>, d1, d2, d2)) = 3
<1>1. PICK e : e = Used!pairwise("mul", d1, q)
  OBVIOUS
<1>2. PICK f : f = Used!pairwise("mul", d2, p)
  OBVIOUS
<1>3. PICK g : g = Used!pairwise("add", d2 + 1, d2 + 2)
  OBVIOUS
<1>4. e \in Operation(R) /\ IsPair(e, d2)
  BY <1>1, PairMade
<1>5. f \in Operation(R) /\ IsPair(f, d2 + 1)
  <2>1. d2 + 1 \in Nat /\ d2 \in 1 .. d2 + 1 /\ p \in 1 .. d2 + 1
    OBVIOUS
  <2> QED
    BY <1>2, <2>1, PairMade
<1>6. g \in Operation(R) /\ IsPair(g, d2 + 2)
  <2>1. d2 + 2 \in Nat /\ d2 + 1 \in 1 .. d2 + 2 /\ d2 + 2 \in 1 .. d2 + 2
    OBVIOUS
  <2> QED
    BY <1>3, <2>1, PairMade
<1>7. Used!Product(<<p, q>>, d1, d2, d2) = <<e, f, g>>
  BY <1>1, <1>2, <1>3 DEF Used!Product
<1> QED
  BY <1>4, <1>5, <1>6, <1>7, ThreeFit

LEMMA QuotientFits ==
    ASSUME NEW R, NEW d2 \in Nat, NEW d1 \in 1 .. d2, d2 \in 1 .. d2,
           NEW p \in 1 .. d2, NEW q \in 1 .. d2
    PROVE  /\ Fits(R, Used!Quotient(<<p, q>>, d1, d2, d2), d2)
           /\ Len(Used!Quotient(<<p, q>>, d1, d2, d2)) = 5
<1>1. PICK e : e = Used!pairwise("mul", d1, q)
  OBVIOUS
<1>2. PICK f : f = Used!pairwise("mul", d2, p)
  OBVIOUS
<1>3. PICK g : g = Used!pairwise("sub", d2 + 1, d2 + 2)
  OBVIOUS
<1>4. PICK h : h = Used!pairwise("mul", q, q)
  OBVIOUS
<1>5. PICK r : r = Used!pairwise("div", d2 + 3, d2 + 4)
  OBVIOUS
<1>6. e \in Operation(R) /\ IsPair(e, d2)
  BY <1>1, PairMade
<1>7. f \in Operation(R) /\ IsPair(f, d2 + 1)
  <2>1. d2 + 1 \in Nat /\ d2 \in 1 .. d2 + 1 /\ p \in 1 .. d2 + 1
    OBVIOUS
  <2> QED
    BY <1>2, <2>1, PairMade
<1>8. g \in Operation(R) /\ IsPair(g, d2 + 2)
  <2>1. d2 + 2 \in Nat /\ d2 + 1 \in 1 .. d2 + 2 /\ d2 + 2 \in 1 .. d2 + 2
    OBVIOUS
  <2> QED
    BY <1>3, <2>1, PairMade
<1>9. h \in Operation(R) /\ IsPair(h, d2 + 3)
  <2>1. d2 + 3 \in Nat /\ q \in 1 .. d2 + 3
    OBVIOUS
  <2> QED
    BY <1>4, <2>1, PairMade
<1>10. r \in Operation(R) /\ IsPair(r, d2 + 4)
  <2>1. d2 + 4 \in Nat /\ d2 + 3 \in 1 .. d2 + 4 /\ d2 + 4 \in 1 .. d2 + 4
    OBVIOUS
  <2> QED
    BY <1>5, <2>1, PairMade
<1>11. Fits(R, <<e, f, g>>, d2) /\ Len(<<e, f, g>>) = 3
  BY <1>6, <1>7, <1>8, ThreeFit
<1>12. d2 + 3 \in Nat /\ (d2 + 3) + 1 = d2 + 4
  OBVIOUS
<1>13. Fits(R, <<h, r>>, d2 + 3) /\ Len(<<h, r>>) = 2
  BY <1>9, <1>10, <1>12, TwoFit
<1>14. PICK s : s = <<e, f, g>>
  OBVIOUS
<1>15. PICK t : t = <<h, r>>
  OBVIOUS
<1>16. Fits(R, s \o t, d2) /\ Len(s \o t) = 5
  <2>1. Fits(R, s, d2) /\ Fits(R, t, d2 + Len(s)) /\ Len(s) = 3 /\ Len(t) = 2
    BY <1>11, <1>13, <1>14, <1>15
  <2>2. Fits(R, s \o t, d2) /\ Len(s \o t) = Len(s) + Len(t)
    <3>1. Fits(R, s, d2) /\ Fits(R, t, d2 + Len(s))
      BY <2>1
    <3> QED
      BY ONLY <3>1, d2 \in Nat, FitsJoined
  <2> QED
    BY <2>1, <2>2
<1>17. Used!Quotient(<<p, q>>, d1, d2, d2) = <<e, f, g, h, r>>
  BY <1>1, <1>2, <1>3, <1>4, <1>5 DEF Used!Quotient
<1>18. <<e, f, g, h, r>> = s \o t
  BY <1>14, <1>15
<1> QED
  BY <1>16, <1>17, <1>18

LEMMA AddedFits ==
    ASSUME NEW R, NEW op, op.kind \in {"add", "sub", "mul", "div"}, NEW d2 \in Nat, d2 \in 1 .. d2,
           NEW d1 \in 1 .. d2, NEW p \in 1 .. d2, NEW q \in 1 .. d2, op.inputs = <<p, q>>
    PROVE  Fits(R, Added(op, d1, d2), d2)
<1>1. CASE op.kind = "mul"
  BY <1>1, ProductFits DEF Added
<1>2. CASE op.kind = "div"
  BY <1>2, QuotientFits DEF Added
<1>3. CASE op.kind \in {"add", "sub"}
  <2>1. PICK new : new = Used!pairwise(op.kind, d1, d2)
    OBVIOUS
  <2>2. new \in Operation(R) /\ IsPair(new, d2)
    BY <1>3, <2>1, PairMade
  <2>3. Added(op, d1, d2) = <<new>>
    BY <1>3, <2>1 DEF Added
  <2> QED
    BY <2>2, <2>3, OneFits
<1> QED
  BY <1>1, <1>2, <1>3

(* The derivative of a pair fits behind top others, if those of its inputs *)
(* do.                                                                     *)
LEMMA DerivativeOfFits ==
    ASSUME NEW R, NEW top \in Nat, NEW op, NEW last \in Nat, last <= top, IsPair(op, last),
           NEW s, Fits(R, s, top), Len(s) > 0, NEW t, Fits(R, t, top + Len(s)), Len(t) > 0
    PROVE  /\ Fits(R, Used!DerivativeOf(op, s, t, top), top)
           /\ Len(Used!DerivativeOf(op, s, t, top)) > 0
<1>1. Fits(R, s \o t, top) /\ Len(s \o t) = Len(s) + Len(t) /\ Len(s) \in Nat /\ Len(t) \in Nat
  BY FitsJoined
<1>2. PICK d1 \in Nat : d1 = top + Len(s)
  BY <1>1
<1>3. PICK d2 \in Nat : d2 = d1 + Len(t)
  BY <1>1, <1>2
<1>4. PICK p, q \in 1 .. last : op.inputs = <<p, q>>
  BY DEF IsPair
<1>5. op.kind \in {"add", "sub", "mul", "div"}
  BY DEF IsPair
<1>6. p \in 1 .. d2 /\ q \in 1 .. d2 /\ d1 \in 1 .. d2 /\ d2 \in 1 .. d2
  BY <1>1, <1>2, <1>3
<1>7. PICK more : more = Added(op, d1, d2)
  OBVIOUS
<1>8. Used!DerivativeOf(op, s, t, top) = (s \o t) \o more
  BY <1>2, <1>3, <1>7, PairDerived, Zenon
<1>9. Fits(R, more, d2)
  BY <1>4, <1>5, <1>6, <1>7, AddedFits
<1>10. d2 = top + Len(s \o t)
  BY <1>1, <1>2, <1>3
<1>11. PICK both : both = s \o t
  OBVIOUS
<1>12. Fits(R, both \o more, top) /\ Len(both \o more) = Len(both) + Len(more) /\ Len(more) \in Nat
  <2>1. Fits(R, both, top) /\ Fits(R, more, top + Len(both))
    BY ONLY <1>1, <1>9, <1>10, <1>11
  <2> QED
    BY ONLY <2>1, top \in Nat, FitsJoined
<1> QED
  BY <1>1, <1>8, <1>11, <1>12

(* What Derivative makes for each node behind each number of others.       *)
MadeAt(v, n, t) ==
    Used!DerivativeOf(ops[n], v[ops[n].inputs[1]][t],
                      v[ops[n].inputs[2]][t + Len(v[ops[n].inputs[1]][t])], t)
NodesOf(root, v) == [n \in 1 .. root |-> [top \in Nat |-> MadeAt(v, n, top)]]
ChosenNodes(root) == CHOOSE v : v = NodesOf(root, v)

LEMMA DerivativeIs ==
    ASSUME NEW root, NEW last
    PROVE  Used!Derivative(root, last) = ChosenNodes(root)[root][last]
  BY Zenon DEF Used!Derivative, ChosenNodes, NodesOf, MadeAt

Drafts(root) == [1 .. root -> [Nat -> Seq(Operation({}))]]

(* What is made does not depend on more than what is made for the inputs.  *)
LEMMA MadeAlike ==
    ASSUME NEW root \in 1 .. Len(ops), Graph(ops), NEW v \in Drafts(root), NEW u \in Drafts(root),
           NEW n \in 1 .. root, \A m \in 1 .. n - 1 : \A t \in Nat : v[m][t] = u[m][t]
    PROVE  \A t \in Nat : MadeAt(v, n, t) = MadeAt(u, n, t)
<1> TAKE t \in Nat
<1>1. n \in 1 .. Len(ops) /\ n \in Nat /\ root \in Nat
  BY DEF Graph
<1>2. CASE IsInput(ops[n])
  <2>1. ops[n].kind \in {"const", "placeholder"}
    BY <1>2 DEF IsInput
  <2>2. PICK op : op = ops[n]
    OBVIOUS
  <2>3. \A p, q, r, s : Used!DerivativeOf(op, p, q, t) = Used!DerivativeOf(op, r, s, t)
    BY ONLY <2>1, <2>2 DEF Used!DerivativeOf
  <2>4. \A p, q, r, s : Used!DerivativeOf(ops[n], p, q, t) = Used!DerivativeOf(ops[n], r, s, t)
    BY ONLY <2>2, <2>3
  <2> QED
    BY <2>4 DEF MadeAt
<1>3. CASE IsPair(ops[n], n - 1)
  <2>1. PICK p \in 1 .. n - 1, q \in 1 .. n - 1 : ops[n].inputs = <<p, q>>
    BY <1>3 DEF IsPair
  <2>2. ops[n].inputs[1] = p /\ ops[n].inputs[2] = q
    BY <2>1
  <2>3. v[p][t] = u[p][t] /\ t + Len(v[p][t]) \in Nat
    <3>1. p \in 1 .. root
      BY <1>1
    <3>2. v[p] \in [Nat -> Seq(Operation({}))]
      BY <3>1 DEF Drafts
    <3>3. PICK made \in Seq(Operation({})) : made = v[p][t]
      BY <3>2
    <3>4. t + Len(made) \in Nat
      OBVIOUS
    <3> QED
      BY <3>3, <3>4
  <2>4. PICK d \in Nat : d = t + Len(v[p][t])
    BY <2>3
  <2>5. v[q][d] = u[q][d]
    OBVIOUS
  <2> QED
    BY <2>2, <2>3, <2>4, <2>5 DEF MadeAt
<1> QED
  BY <1>1, <1>2, <1>3 DEF Graph

(* A draft gives a draft: the operations made are operations.              *)
LEMMA MadeTyped ==
    ASSUME NEW root \in 1 .. Len(ops), Graph(ops), NEW v \in Drafts(root), NEW n \in 1 .. root,
           NEW t \in Nat
    PROVE  MadeAt(v, n, t) \in Seq(Operation({}))
<1>1. n \in 1 .. Len(ops) /\ n \in Nat /\ root \in Nat
  BY DEF Graph
<1>2. CASE IsInput(ops[n])
  <2>1. PICK m \in {0, 1} : MadeAt(v, n, t) = <<Used!const(m)>>
    BY <1>2, InputDerived DEF MadeAt
  <2>2. PICK op : op = Used!const(m)
    OBVIOUS
  <2>3. op \in Operation({})
    BY <2>2, InputsMade
  <2>4. MadeAt(v, n, t) = <<op>> /\ <<op>> \in Seq(Operation({}))
    BY ONLY <2>1, <2>2, <2>3
  <2> QED
    BY ONLY <2>4, ZenonT(30)
<1>3. CASE IsPair(ops[n], n - 1)
  <2>1. PICK p \in 1 .. n - 1, q \in 1 .. n - 1 : ops[n].inputs = <<p, q>>
    BY <1>3 DEF IsPair
  <2>2. ops[n].inputs[1] = p /\ ops[n].inputs[2] = q /\ p \in 1 .. root /\ q \in 1 .. root
    BY <1>1, <2>1
  <2>3. PICK s : s \in Seq(Operation({})) /\ s = v[p][t]
    BY <2>2 DEF Drafts
  <2>4. PICK d1 \in Nat : d1 = t + Len(s)
    BY <2>3
  <2>5. PICK r : r \in Seq(Operation({})) /\ r = v[q][d1]
    BY <2>2 DEF Drafts
  <2>6. PICK d2 \in Nat : d2 = d1 + Len(r)
    BY <2>5
  <2>7. MadeAt(v, n, t) = (s \o r) \o Added(ops[n], d1, d2)
    <3>1. MadeAt(v, n, t) = Used!DerivativeOf(ops[n], s, r, t)
      BY <2>2, <2>3, <2>4, <2>5 DEF MadeAt
    <3>2. Used!DerivativeOf(ops[n], s, r, t) = (s \o r) \o Added(ops[n], d1, d2)
      BY <1>3, <2>4, <2>6, PairDerived, Zenon
    <3> QED
      BY ONLY <3>1, <3>2
  <2>8. Added(ops[n], d1, d2) \in Seq(Operation({}))
    <3>1. \A kind \in {"add", "sub", "mul", "div"} : \A e, f \in Nat :
            Used!pairwise(kind, e, f) \in Operation({})
      <4> TAKE kind \in {"add", "sub", "mul", "div"}, e \in Nat, f \in Nat
      <4>1. <<e, f>> \in Seq(Nat)
        OBVIOUS
      <4> QED
        BY <4>1 DEF Used!pairwise, Used!Op, Operation, Refers
    <3>2. /\ p \in Nat /\ q \in Nat
          /\ d2 + 1 \in Nat /\ d2 + 2 \in Nat /\ d2 + 3 \in Nat /\ d2 + 4 \in Nat
      BY <1>1
    <3>3. Used!Product(<<p, q>>, d1, d2, d2) \in Seq(Operation({}))
      BY <3>1, <3>2 DEF Used!Product
    <3>4. Used!Quotient(<<p, q>>, d1, d2, d2) \in Seq(Operation({}))
      BY <3>1, <3>2 DEF Used!Quotient
    <3>5. ops[n].kind \in {"add", "sub", "mul", "div"}
      BY <1>3 DEF IsPair
    <3>6. <<Used!pairwise(ops[n].kind, d1, d2)>> \in Seq(Operation({}))
      BY <3>1, <3>5
    <3> QED
      BY <2>1, <3>3, <3>4, <3>6 DEF Added
  <2> QED
    BY <2>3, <2>5, <2>7, <2>8, ConcatProperties
<1> QED
  BY <1>1, <1>2, <1>3 DEF Graph

LEMMA NodesExist ==
    ASSUME NEW root \in 1 .. Len(ops), Graph(ops)
    PROVE  ChosenNodes(root) = NodesOf(root, ChosenNodes(root))
<1> DEFINE Upto(v, j) == \A n \in 1 .. root : n <= j => \A t \in Nat : v[n][t] = MadeAt(v, n, t)
           Bad == {j \in Nat : ~ \E v \in Drafts(root) : Upto(v, j)}
<1>1. root \in Nat
  BY DEF Graph
<1>2. Bad = {}
  <2> SUFFICES ASSUME Bad # {} PROVE FALSE
    OBVIOUS
  <2>1. PICK m \in Bad : \A j \in Bad : m <= j
    <3>1. Bad \subseteq Nat
      OBVIOUS
    <3> HIDE DEF Bad
    <3> QED
      BY <3>1, LeastNat
  <2>2. m # 0
    <3> DEFINE none == [n \in 1 .. root |-> [t \in Nat |-> <<>>]]
    <3>1. none \in Drafts(root)
      BY DEF Drafts
    <3>2. Upto(none, 0)
      BY <1>1
    <3> HIDE DEF Upto, none
    <3> QED
      BY <3>1, <3>2
  <2>3. m - 1 \in Nat /\ m \in Nat /\ m - 1 \notin Bad
    <3>1. m \in Nat
      OBVIOUS
    <3> HIDE DEF Bad
    <3>2. m - 1 \in Nat /\ ~(m <= m - 1)
      BY <2>2, <3>1
    <3> QED
      BY <2>1, <3>1, <3>2
  <2>4. PICK v \in Drafts(root) : Upto(v, m - 1)
    BY <2>3
  <2> DEFINE u == [n \in 1 .. root |-> IF n = m THEN [t \in Nat |-> MadeAt(v, m, t)] ELSE v[n]]
  <2>5. u \in Drafts(root)
    <3>1. ASSUME NEW n \in 1 .. root
          PROVE  (IF n = m THEN [t \in Nat |-> MadeAt(v, m, t)] ELSE v[n])
                    \in [Nat -> Seq(Operation({}))]
      <4>1. v[n] \in [Nat -> Seq(Operation({}))]
        BY <2>4 DEF Drafts
      <4>2. n = m => \A t \in Nat : MadeAt(v, m, t) \in Seq(Operation({}))
        BY <2>4, MadeTyped
      <4> QED
        BY <4>1, <4>2
    <3> QED
      BY <3>1 DEF Drafts
  <2>6. \A n \in 1 .. root : n # m => \A t \in Nat : u[n][t] = v[n][t]
    OBVIOUS
  <2>7. m \in 1 .. root => \A t \in Nat : u[m][t] = MadeAt(v, m, t)
    OBVIOUS
  <2> HIDE DEF u
  <2>8. ASSUME NEW n \in 1 .. root, n <= m
        PROVE  \A t \in Nat : u[n][t] = MadeAt(u, n, t)
    <3>1. \A t \in Nat : u[n][t] = MadeAt(v, n, t)
      <4>1. CASE n = m
        BY <2>7, <4>1
      <4>2. CASE n # m
        <5>1. n <= m - 1
          BY <1>1, <2>3, <2>8, <4>2
        <5> QED
          BY <2>4, <2>6, <4>2, <5>1
      <4> QED
        BY <4>1, <4>2
    <3>2. \A p \in 1 .. n - 1 : \A t \in Nat : v[p][t] = u[p][t]
      <4>1. \A p \in 1 .. n - 1 : p \in 1 .. root /\ p # m
        BY <1>1, <2>3, <2>8
      <4> QED
        BY <2>6, <4>1
    <3>3. \A t \in Nat : MadeAt(v, n, t) = MadeAt(u, n, t)
      BY <2>4, <2>5, <3>2, MadeAlike
    <3> QED
      BY <3>1, <3>3
  <2>9. Upto(u, m)
    BY <2>8
  <2> HIDE DEF Upto
  <2> QED
    BY <2>1, <2>5, <2>9
<1>3. PICK v \in Drafts(root) : Upto(v, root)
  BY <1>1, <1>2
<1>4. \A n \in 1 .. root : \A t \in Nat : v[n][t] = MadeAt(v, n, t)
  BY <1>1, <1>3
<1>5. v = NodesOf(root, v)
  <2>1. v = [n \in 1 .. root |-> v[n]]
    BY DEF Drafts
  <2>2. ASSUME NEW n \in 1 .. root PROVE v[n] = [t \in Nat |-> MadeAt(v, n, t)]
    <3>1. v[n] = [t \in Nat |-> v[n][t]]
      BY DEF Drafts
    <3> QED
      BY <1>4, <3>1
  <2> QED
    BY <2>1, <2>2 DEF NodesOf
<1> QED
  BY <1>5 DEF ChosenNodes

(* What is made for a node fits, by the least node for which it would not. *)
LEMMA NodesFit ==
    ASSUME NEW R, NEW root \in 1 .. Len(ops), Graph(ops), NEW v, v = ChosenNodes(root)
    PROVE  \A n \in 1 .. root : \A t \in Nat : root <= t => Fits(R, v[n][t], t) /\ Len(v[n][t]) > 0
<1> DEFINE Good(n) == \A t \in Nat : root <= t => Fits(R, v[n][t], t) /\ Len(v[n][t]) > 0
           Bad == {n \in 1 .. root : ~Good(n)}
<1>1. root \in Nat /\ \A n \in 1 .. root : n \in Nat /\ n \in 1 .. Len(ops) /\ n <= root
  BY DEF Graph
<1>2. \A n \in 1 .. root : \A t \in Nat : v[n][t] = MadeAt(v, n, t)
  <2>1. v = NodesOf(root, v)
    BY NodesExist
  <2>2. PICK all : all = NodesOf(root, v)
    OBVIOUS
  <2>3. \A n \in 1 .. root : \A t \in Nat : all[n][t] = MadeAt(v, n, t)
    BY ONLY <2>2 DEF NodesOf
  <2> QED
    BY ONLY <2>1, <2>2, <2>3
<1> SUFFICES ASSUME Bad # {} PROVE FALSE
  OBVIOUS
<1>3. Bad \subseteq Nat
  BY <1>1
<1>4. PICK n \in Bad : \A m \in Bad : n <= m
  <2> HIDE DEF Bad
  <2> QED
    BY ONLY <1>3, Bad # {}, LeastNat
<1>5. n \in 1 .. root /\ n \in Nat /\ n \in 1 .. Len(ops)
  BY <1>1
<1>6. PICK t \in Nat : root <= t /\ ~(Fits(R, v[n][t], t) /\ Len(v[n][t]) > 0)
  OBVIOUS
<1>7. v[n][t] = MadeAt(v, n, t)
  BY ONLY <1>2, <1>5, t \in Nat
<1>8. CASE IsInput(ops[n])
  <2>1. PICK m \in {0, 1} : MadeAt(v, n, t) = <<Used!const(m)>>
    BY <1>8, InputDerived DEF MadeAt
  <2>2. PICK op : op = Used!const(m)
    OBVIOUS
  <2>3. op \in Operation(R) /\ IsInput(op)
    BY <2>2, InputsMade
  <2>4. PICK made : made = <<op>>
    OBVIOUS
  <2>5. Fits(R, made, t) /\ Len(made) = 1
    BY <2>3, <2>4, OneFits
  <2>6. v[n][t] = made
    BY ONLY <1>7, <2>1, <2>2, <2>4
  <2>7. Len(made) > 0
    BY ONLY <2>5
  <2> QED
    BY ONLY <1>6, <2>5, <2>6, <2>7, ZenonT(30)
<1>9. CASE IsPair(ops[n], n - 1)
  <2>1. PICK p \in 1 .. n - 1, q \in 1 .. n - 1 : ops[n].inputs = <<p, q>>
    BY <1>9 DEF IsPair
  <2>2. p \in 1 .. root /\ q \in 1 .. root /\ ~(n <= p) /\ ~(n <= q)
    BY <1>1, <1>5
  <2>3. Good(p) /\ Good(q)
    BY <1>4, <2>2
  <2>4. PICK s : s = v[p][t]
    OBVIOUS
  <2>5. Fits(R, s, t) /\ Len(s) > 0
    BY <1>6, <2>3, <2>4
  <2>6. PICK d \in Nat : d = t + Len(s)
    BY <2>5 DEF Fits
  <2>7. root <= d
    <3>1. PICK more \in Nat : more = Len(s)
      BY <2>5 DEF Fits
    <3> QED
      BY <1>1, <1>6, <2>6, <3>1
  <2>8. PICK r : r = v[q][d]
    OBVIOUS
  <2>9. Fits(R, r, d) /\ Len(r) > 0
    BY <2>3, <2>7, <2>8
  <2>10. MadeAt(v, n, t) = Used!DerivativeOf(ops[n], s, r, t)
    <3>1. ops[n].inputs[1] = p /\ ops[n].inputs[2] = q
      BY <2>1
    <3> QED
      BY <2>4, <2>6, <2>8, <3>1 DEF MadeAt
  <2>11. PICK op : op = ops[n]
    OBVIOUS
  <2>12. PICK last \in Nat : last = n - 1
    BY <1>5
  <2>13. last <= t /\ IsPair(op, last) /\ Fits(R, r, t + Len(s))
    BY <1>1, <1>5, <1>6, <1>9, <2>6, <2>9, <2>11, <2>12
  <2>14. /\ Fits(R, Used!DerivativeOf(op, s, r, t), t)
         /\ Len(Used!DerivativeOf(op, s, r, t)) > 0
    BY <2>5, <2>9, <2>13, DerivativeOfFits
  <2> QED
    BY <1>6, <1>7, <2>10, <2>11, <2>14
<1> QED
  BY <1>5, <1>8, <1>9 DEF Graph

(* After vtable->derivative there are two roots, and neither has been reset. *)
LEMMA DerivativeKeeps ==
    ASSUME GraphIInv, Used!derivative
    PROVE  GraphIInv'
<1>1. PICK root \in Nat : root = Len(ops)
  BY DEF GraphIInv, GraphTypeOK, Graph
<1>2. PICK new : new = Used!Derivative(root, root)
  OBVIOUS
<1>3. /\ roots = <<>> /\ root = MaxInputs + MaxPairwise
      /\ Used!Allocate(new) /\ roots' = <<root, root + Len(new)>>
      /\ UNCHANGED <<heap, value, variable, forced, settled, initialized>>
  BY <1>1, <1>2 DEF Used!derivative, Used!Building
<1>4. root \in 1 .. root
  BY <1>3, BoundsAssumption
<1>5. Fits(References, new, root) /\ Len(new) > 0
  <2>1. PICK v : v = ChosenNodes(root)
    OBVIOUS
  <2>2. new = v[root][root]
    BY <1>2, <2>1, DerivativeIs
  <2>3. Graph(ops) /\ root \in 1 .. Len(ops) /\ root <= root
    BY <1>1, <1>4 DEF GraphIInv, GraphTypeOK
  <2>4. Fits(References, v[root][root], root) /\ Len(v[root][root]) > 0
    BY <1>4, <2>1, <2>3, NodesFit
  <2> QED
    BY <2>2, <2>4
<1>6. /\ GraphTypeOK' /\ forced' = {} /\ settled' = {} /\ initialized' = {}
      /\ Len(ops') = root + Len(new) /\ Len(new) \in Nat
  <2>1. Fits(References, new, Len(ops)) /\ UNCHANGED <<heap, value, forced, settled, initialized>>
    BY <1>1, <1>3, <1>5
  <2> QED
    BY <1>1, <1>3, <2>1, AllocateKeeps
<1>7. PICK last \in Nat : last = root + Len(new)
  BY <1>6
<1>8. roots' = <<root, last>> /\ root \in 1 .. last /\ last \in 1 .. last /\ Len(ops') = last
  <2>1. PICK more \in Nat : more = Len(new)
    BY <1>6
  <2> QED
    BY <1>3, <1>4, <1>5, <1>6, <1>7, <2>1
<1>9. Used!Root' = {root, last} /\ Len(roots') = 2 /\ roots' # <<>>
  BY <1>8 DEF Used!Root
<1>10. RootsOK'
  BY <1>6, <1>8, <1>9 DEF RootsOK
<1>11. Chained(ops', Used!Root', initialized', Used!Computed')
  BY <1>6, NoneIsChained
<1> QED
  BY <1>6, <1>9, <1>10, <1>11 DEF GraphIInv

LEMMA GraphInit == Used!Init => GraphIInv
<1> SUFFICES ASSUME Used!Init PROVE GraphIInv
  OBVIOUS
<1>1. /\ ops = <<>> /\ output_value = <<>> /\ output_computed = <<>>
      /\ heap \in [0 .. Period - 1 -> BOOLEAN]
      /\ value = [r \in References |-> Junk] /\ roots = <<>>
      /\ forced = {} /\ settled = {} /\ initialized = {}
  BY DEF Used!Init
<1>2. Len(ops) = 0 /\ \A n \in 1 .. 0 : FALSE
  BY <1>1
<1>3. Graph(ops)
  BY <1>2 DEF Graph
<1>4. /\ ops \in Seq(Operation(References))
      /\ output_value \in Seq(Value) /\ output_computed \in Seq(BOOLEAN)
  BY <1>1
<1>5. value \in [References -> Value]
  BY <1>1 DEF Value
<1>6. GraphTypeOK
  BY <1>1, <1>3, <1>4, <1>5 DEF GraphTypeOK
<1>7. Used!Root = {} /\ Len(roots) = 0
  BY <1>1, NoRoots
<1>8. RootsOK
  BY <1>1, <1>7 DEF RootsOK
<1>9. Chained(ops, Used!Root, initialized, Used!Computed)
  BY <1>1, NoneIsChained
<1> QED
  BY <1>1, <1>2, <1>6, <1>7, <1>8, <1>9 DEF GraphIInv

LEMMA GraphNext ==
    ASSUME GraphIInv, [Used!Next]_(Used!vars)
    PROVE  GraphIInv'
<1>1. CASE Used!make_op_input \/ Used!make_op_pairwise
  BY <1>1, BuildKeeps
<1>2. CASE Used!derivative
  BY <1>2, DerivativeKeeps
<1>3. CASE Used!SetValue
  BY <1>3, SetValueKeeps
<1>4. CASE \E op \in Used!Root, force \in BOOLEAN : Used!reset_graph(op, force)
  BY <1>4, ResetKeeps
<1>5. CASE \E op \in Used!Root : Used!compute_graph(op)
  BY <1>5, ComputeKeeps
<1>6. CASE UNCHANGED Used!vars
  <2>1. /\ ops' = ops /\ output_value' = output_value /\ output_computed' = output_computed
        /\ heap' = heap /\ value' = value /\ roots' = roots
        /\ forced' = forced /\ settled' = settled /\ initialized' = initialized
    BY <1>6 DEF Used!vars
  <2>2. Used!Root' = Used!Root /\ Used!Computed' = Used!Computed
    BY <2>1 DEF Used!Root, Used!Computed
  <2>3. GraphTypeOK'
    BY <2>1 DEF GraphIInv, GraphTypeOK
  <2>4. RootsOK'
    BY <2>1, <2>2 DEF GraphIInv, RootsOK
  <2> QED
    BY <2>1, <2>2, <2>3, <2>4 DEF GraphIInv
<1> QED
  BY <1>1, <1>2, <1>3, <1>4, <1>5, <1>6 DEF Used!Next, Used!Build, Used!Use

(* The values TypeOK and the two promises speak of. *)
LEMMA GraphKept == GraphIInv => Used!CachesAreRight
<1> SUFFICES ASSUME GraphIInv PROVE Used!CachesAreRight
  OBVIOUS
<1>1. Graph(ops) /\ Used!Root \subseteq 1 .. Len(ops) /\ forced \subseteq Used!Root
  BY DEF GraphIInv, GraphTypeOK, RootsOK
<1>2. Used!TypeOK
  <2>1. ASSUME NEW n \in 1 .. Len(ops), NEW m \in Used!InputsOf(n) PROVE m \in 1 .. n - 1
    <3>1. Used!InputsOf(n) = In(ops, n)
      BY DEF Used!InputsOf, In
    <3> QED
      BY <1>1, <2>1, <3>1, InputsBefore
  <2>2. \A n \in 1 .. Len(ops) :
           output_value[n] \in Used!Number \cup {Junk} /\ output_computed[n] \in BOOLEAN
    BY DEF GraphIInv, GraphTypeOK, Value
  <2>3. value \in [References -> Used!Number \cup {Junk}]
    BY DEF GraphIInv, GraphTypeOK, Value
  <2> QED
    BY <2>1, <2>2, <2>3 DEF Used!TypeOK, GraphIInv, GraphTypeOK, RootsOK
<1>3. ASSUME NEW n \in 1 .. Len(ops) PROVE Used!True(n, value) = Meaning(ops, value)[n]
  <2>1. Used!Values(1 .. Len(ops), value) = ValuesIn(ops, output_value, 1 .. Len(ops), value)
    BY ValuesAreIn
  <2>2. ValuesIn(ops, output_value, 1 .. Len(ops), value)[n] = Meaning(ops, value)[n]
    BY <1>1, AllFresh
  <2> QED
    BY <2>1, <2>2 DEF Used!True
<1>4. \A n \in 1 .. Len(ops) : output_computed[n] => n \in Used!Computed
  BY DEF Used!Computed
<1>5. Used!ForcedResetSuffices
  <2> SUFFICES ASSUME NEW r \in forced, output_computed[r]
               PROVE  output_value[r] = Used!True(r, value)
    BY DEF Used!ForcedResetSuffices
  <2>1. r \in 1 .. Len(ops)
    BY <1>1
  <2>2. r \in ReachIn(ops, r) \cap Used!Computed
    BY <1>1, <1>4, <2>1, ReachIsClosed
  <2>3. Right(ops, value, ReachIn(ops, r) \cap Used!Computed, output_value)
    BY DEF GraphIInv
  <2> QED
    BY <1>3, <2>1, <2>2, <2>3 DEF Right
<1>6. Used!LazyResetsSuffice
  <2> SUFFICES ASSUME Used!Root # {}, settled = Used!Root, initialized = Used!Root,
                      NEW r \in Used!Root, output_computed[r]
               PROVE  output_value[r] = Used!True(r, value)
    BY DEF Used!LazyResetsSuffice
  <2>1. r \in 1 .. Len(ops)
    BY <1>1
  <2>2. r \in ReachedIn(ops, Used!Root) \cap Used!Computed
    BY <1>1, <1>4, <2>1, ReachedIsClosed
  <2>3. Right(ops, value, ReachedIn(ops, initialized) \cap Used!Computed, output_value)
    BY DEF GraphIInv
  <2> QED
    BY <1>3, <2>1, <2>2, <2>3 DEF Right
<1> QED
  BY <1>2, <1>5, <1>6 DEF Used!CachesAreRight

(* While the graphs are used, a step of the whole is one of theirs. *)
LEMMA GraphSteps ==
    ASSUME [AnyNext]_allVars
    PROVE  program' = program /\ (program = "nn_used" => [Used!Next]_(Used!vars))
<1>1. CASE AnyNext
  BY <1>1 DEF AnyNext, Only
<1>2. CASE UNCHANGED allVars
  BY <1>2 DEF allVars, graphVars, Used!vars
<1> QED
  BY <1>1, <1>2

(* A root that is computed after a forced reset, or after all roots were   *)
(* reset, has the value it stands for, for any graph of any number of      *)
(* inputs and operations over any variables, whatever the orders of        *)
(* changes, resets and computations, and although the graph of the         *)
(* derivative shares nodes with its own.                                   *)
THEOREM CachedValuesAreRight == AnySpec => []CachesAreRight
<1> DEFINE IInv == program = "nn_used" => GraphIInv
<1>1. AnyInit => IInv
  BY GraphInit DEF AnyInit
<1>2. IInv /\ [AnyNext]_allVars => IInv'
  BY GraphSteps, GraphNext
<1>3. IInv => CachesAreRight
  BY GraphKept DEF CachesAreRight
<1> QED
  BY <1>1, <1>2, <1>3, PTL DEF AnySpec

-------------------------------------------------------------------------------
(***************************************************************************)
(* Arithmetic modulo a prime.                                              *)
(***************************************************************************)
Same(p, q) == \E j \in Int : p = q + j * Modulus

LEMMA SameRemainder == ASSUME NEW p \in Int PROVE Same(p % Modulus, p) /\ Same(p, p % Modulus)
<1>1. Modulus \in Nat /\ Modulus > 0
  BY BoundsAssumption
<1>2. PICK j \in Int : p = (p % Modulus) + j * Modulus
  <2>1. p \div Modulus \in Int /\ p = (p % Modulus) + (p \div Modulus) * Modulus
    BY <1>1
  <2> QED
    BY <2>1
<1>3. p % Modulus \in Int
  BY <1>1
<1>4. -j \in Int /\ (p % Modulus) = p + (-j) * Modulus
  BY <1>1, <1>2, <1>3
<1> QED
  BY <1>2, <1>4 DEF Same

LEMMA SameTurned == ASSUME NEW p \in Int, NEW q \in Int, Same(p, q) PROVE Same(q, p)
<1>1. PICK j \in Int : p = q + j * Modulus
  BY DEF Same
<1>2. -j \in Int /\ q = p + (-j) * Modulus
  BY <1>1, BoundsAssumption
<1> QED
  BY <1>2 DEF Same

LEMMA SameJoined ==
    ASSUME NEW p \in Int, NEW q \in Int, NEW r \in Int, Same(p, q), Same(q, r)
    PROVE  Same(p, r)
<1>1. PICK j \in Int : p = q + j * Modulus
  BY DEF Same
<1>2. PICK l \in Int : q = r + l * Modulus
  BY DEF Same
<1>3. j + l \in Int /\ p = r + (j + l) * Modulus
  BY <1>1, <1>2, BoundsAssumption
<1> QED
  BY <1>3 DEF Same

LEMMA SameAdded ==
    ASSUME NEW p \in Int, NEW q \in Int, NEW r \in Int, NEW s \in Int, Same(p, q), Same(r, s)
    PROVE  Same(p + r, q + s) /\ Same(p - r, q - s)
<1>1. PICK j \in Int : p = q + j * Modulus
  BY DEF Same
<1>2. PICK l \in Int : r = s + l * Modulus
  BY DEF Same
<1>3. /\ j + l \in Int /\ p + r = (q + s) + (j + l) * Modulus
      /\ j - l \in Int /\ p - r = (q - s) + (j - l) * Modulus
  BY <1>1, <1>2, BoundsAssumption
<1> QED
  BY <1>3 DEF Same

LEMMA SameTimes ==
    ASSUME NEW p \in Int, NEW q \in Int, NEW r \in Int, Same(p, q)
    PROVE  Same(p * r, q * r) /\ Same(r * p, r * q)
<1>1. PICK j \in Int : p = q + j * Modulus
  BY DEF Same
<1>2. j * r \in Int /\ p * r = q * r + (j * r) * Modulus /\ r * p = r * q + (j * r) * Modulus
  BY <1>1, BoundsAssumption
<1> QED
  BY <1>2 DEF Same

LEMMA SameNumber ==
    ASSUME NEW p \in Used!Number, NEW q \in Used!Number, Same(p, q)
    PROVE  p = q
<1>1. PICK j \in Int : p = q + j * Modulus
  BY DEF Same
<1>2. Modulus \in Nat /\ p \in 0 .. Modulus - 1 /\ q \in 0 .. Modulus - 1
  BY BoundsAssumption DEF Used!Number
<1>3. ~(j >= 1)
  <2> SUFFICES ASSUME j >= 1 PROVE FALSE
    OBVIOUS
  <2>1. j * Modulus >= Modulus
    <3>1. j - 1 \in Nat
      OBVIOUS
    <3>2. (j - 1) * Modulus \in Nat /\ j * Modulus = (j - 1) * Modulus + Modulus
      BY <1>2, <3>1
    <3> QED
      BY <1>2, <3>2
  <2> QED
    BY <1>1, <1>2, <2>1
<1>4. ~(j <= -1)
  <2> SUFFICES ASSUME j <= -1 PROVE FALSE
    OBVIOUS
  <2>1. PICK l \in Nat : l = -j - 1
    OBVIOUS
  <2>2. l * Modulus \in Nat /\ j * Modulus = -(l * Modulus) - Modulus
    BY <1>2, <2>1
  <2> QED
    BY <1>1, <1>2, <2>2
<1>5. j = 0
  BY <1>3, <1>4
<1> QED
  BY <1>1, <1>2, <1>5

LEMMA RemaindersMeet ==
    ASSUME NEW p \in Int, NEW q \in Int, Same(p, q)
    PROVE  p % Modulus = q % Modulus
<1>1. p % Modulus \in Used!Number /\ q % Modulus \in Used!Number
  BY Remainders
<1>2. Used!Number \subseteq Int
  BY DEF Used!Number
<1>3. PICK r : r = p % Modulus
  OBVIOUS
<1>4. PICK s : s = q % Modulus
  OBVIOUS
<1>5. r \in Used!Number /\ s \in Used!Number /\ r \in Int /\ s \in Int
  BY <1>1, <1>2, <1>3, <1>4
<1>6. Same(r, p) /\ Same(q, s)
  BY <1>3, <1>4, SameRemainder
<1>7. Same(r, q)
  BY <1>5, <1>6, SameJoined
<1>8. Same(r, s)
  BY <1>5, <1>6, <1>7, SameJoined
<1> QED
  BY <1>3, <1>4, <1>5, <1>8, SameNumber

(* A factor that is not zero has an inverse, as Modulus is prime. *)
LEMMA SameReduced ==
    ASSUME NEW p \in Int, NEW q \in Int, NEW f \in Used!Number, f # 0, Same(p * f, q * f)
    PROVE  Same(p, q)
<1>1. f \in Int /\ 1 \in Used!Number
  BY BoundsAssumption DEF Used!Number
<1>2. PICK g \in Used!Number : (g * f) % Modulus = 1
  BY <1>1, PrimeAssumption
<1>3. g \in Int /\ g * f \in Int /\ f * g \in Int /\ f * g = g * f
  BY <1>1, <1>2 DEF Used!Number
<1>4. Same(f * g, 1)
  BY <1>2, <1>3, SameRemainder
<1>5. \A r \in Int : Same((r * f) * g, r)
  <2> TAKE r \in Int
  <2>1. Same(r * (f * g), r * 1)
    <3>1. 1 \in Int
      OBVIOUS
    <3> QED
      BY ONLY <1>3, <1>4, <3>1, r \in Int, SameTimes
  <2>2. r * (f * g) = (r * f) * g /\ r * 1 = r
    BY <1>1, <1>3
  <2> QED
    BY <2>1, <2>2
<1>6. PICK e : e = p * f
  OBVIOUS
<1>7. PICK h : h = q * f
  OBVIOUS
<1>8. e \in Int /\ h \in Int /\ e * g \in Int /\ h * g \in Int
  BY <1>1, <1>3, <1>6, <1>7
<1>9. Same(e * g, h * g)
  BY <1>3, <1>6, <1>7, <1>8, SameTimes
<1>10. Same(e * g, p) /\ Same(h * g, q)
  BY <1>5, <1>6, <1>7
<1>11. Same(p, e * g)
  BY <1>8, <1>10, SameTurned
<1>12. Same(p, h * g)
  BY <1>8, <1>9, <1>11, SameJoined
<1> QED
  BY <1>8, <1>10, <1>12, SameJoined

(* What sum, difference and product of derivatives give.                   *)
LEMMA ProductRule ==
    ASSUME NEW p \in Used!Number, NEW q \in Used!Number, NEW s1_ \in Used!Number,
           NEW s2_ \in Used!Number
    PROVE  (((s1_ * q) % Modulus) + ((s2_ * p) % Modulus)) % Modulus = (s1_ * q + s2_ * p) % Modulus
<1>1. Used!Number \subseteq Int
  BY DEF Used!Number
<1>2. PICK e \in Int : e = s1_ * q
  BY <1>1
<1>3. PICK f \in Int : f = s2_ * p
  BY <1>1
<1>4. PICK g \in Int : g = e % Modulus
  BY <1>1, Remainders
<1>5. PICK h \in Int : h = f % Modulus
  BY <1>1, Remainders
<1>6. Same(g, e) /\ Same(h, f)
  BY <1>4, <1>5, SameRemainder
<1>7. Same(g + h, e + f) /\ g + h \in Int /\ e + f \in Int
  BY <1>6, SameAdded
<1>8. (g + h) % Modulus = (e + f) % Modulus
  BY <1>7, RemaindersMeet
<1> QED
  BY <1>2, <1>3, <1>4, <1>5, <1>8

LEMMA Divides ==
    ASSUME NEW p \in Used!Number, NEW q \in Used!Number, q # 0
    PROVE  Used!Divide(p, q) \in Used!Number /\ Same(Used!Divide(p, q) * q, p)
<1>1. PICK r : r = Used!Divide(p, q)
  OBVIOUS
<1>2. r \in Used!Number /\ (r * q) % Modulus = p
  BY <1>1, PrimeAssumption DEF Used!Divide
<1>3. r * q \in Int
  BY <1>2 DEF Used!Number
<1>4. Same(p, r * q) /\ Same(r * q, p)
  BY <1>2, <1>3, SameRemainder
<1> QED
  BY <1>1, <1>2, <1>4

(* What the graph of a quotient's derivative computes. *)
LEMMA QuotientRule ==
    ASSUME NEW p \in Used!Number, NEW q \in Used!Number, q # 0, NEW d1 \in Used!Number,
           NEW d2 \in Used!Number
    PROVE  LET top == (((d1 * q) % Modulus) - ((d2 * p) % Modulus)) % Modulus
               below == (q * q) % Modulus
               n == Used!Divide(p, q)
           IN  /\ top \in Used!Number /\ below \in Used!Number \ {0}
               /\ Used!Divide(top, below) \in Used!Number
               /\ Used!Divide(top, below)
                    = CHOOSE s \in Used!Number : (s * q + n * d2) % Modulus = d1
<1>1. Used!Number \subseteq Int /\ 0 \in Used!Number
  BY BoundsAssumption DEF Used!Number
<1>2. PICK n \in Used!Number : n = Used!Divide(p, q) /\ Same(n * q, p)
  BY Divides
<1>3. PICK e \in Int : e = d1 * q
  BY <1>1
<1>4. PICK f \in Int : f = d2 * p
  BY <1>1
<1>5. PICK g \in Used!Number : g = e % Modulus
  BY <1>3, Remainders
<1>6. PICK h \in Used!Number : h = f % Modulus
  BY <1>4, Remainders
<1>7. g - h \in Int
  BY <1>1
<1>8. PICK top \in Used!Number : top = (g - h) % Modulus
  BY <1>7, Remainders
<1>9. PICK square \in Int : square = q * q
  BY <1>1
<1>10. PICK below \in Used!Number : below = square % Modulus
  BY <1>9, Remainders
<1>11. Same(below, square) /\ Same(square, below)
  BY <1>9, <1>10, SameRemainder
<1>12. below # 0
  <2> SUFFICES ASSUME below = 0 PROVE FALSE
    OBVIOUS
  <2>1. 0 * q = 0 /\ 0 \in Int /\ q \in Int
    BY <1>1
  <2>2. Same(q * q, 0 * q)
    BY <1>9, <1>11, <2>1
  <2>3. Same(q, 0)
    BY <2>1, <2>2, SameReduced
  <2> QED
    BY <1>1, <2>3, SameNumber
<1>13. PICK r \in Used!Number : r = Used!Divide(top, below) /\ Same(r * below, top)
  BY <1>12, Divides
<1>14. /\ p \in Int /\ q \in Int /\ d1 \in Int /\ d2 \in Int /\ n \in Int /\ r \in Int
       /\ top \in Int /\ below \in Int /\ g \in Int /\ h \in Int
  BY <1>1
<1>15. Same(r * square, top)
  <2>1. Same(r * square, r * below)
    BY <1>11, <1>14, SameTimes
  <2>2. r * square \in Int /\ r * below \in Int
    BY <1>9, <1>14
  <2> QED
    BY <1>13, <1>14, <2>1, <2>2, SameJoined
<1>16. Same(top, e - f)
  <2>1. Same(top, g - h)
    BY <1>7, <1>8, SameRemainder
  <2>2. Same(g, e) /\ Same(h, f)
    BY <1>5, <1>6, SameRemainder
  <2>3. Same(g - h, e - f) /\ e - f \in Int
    BY <1>14, <2>2, SameAdded
  <2> QED
    BY <1>7, <1>14, <2>1, <2>3, SameJoined
<1>17. PICK m \in Int : m = n * d2
  BY <1>14
<1>18. Same(f, m * q)
  <2>1. PICK nq \in Int : nq = n * q
    BY <1>14
  <2>2. Same(p, nq)
    BY <1>2, <1>14, <2>1, SameTurned
  <2>3. Same(d2 * p, d2 * nq)
    BY <1>14, <2>1, <2>2, SameTimes
  <2>4. d2 * nq = m * q
    BY <1>14, <1>17, <2>1
  <2> QED
    BY <1>4, <2>3, <2>4
<1>19. Same(r * q, d1 - m)
  <2>1. m * q \in Int /\ e - f \in Int /\ e - m * q \in Int /\ r * square \in Int
    BY <1>9, <1>14, <1>17
  <2>2. Same(e, e)
    <3>1. e = e + 0 * Modulus
      BY BoundsAssumption
    <3> QED
      BY <3>1 DEF Same
  <2>3. Same(e - f, e - m * q)
    BY <1>18, <2>1, <2>2, SameAdded
  <2>4. Same(r * square, e - f)
    BY <1>14, <1>15, <1>16, <2>1, SameJoined
  <2>5. Same(r * square, e - m * q)
    BY <2>1, <2>3, <2>4, SameJoined
  <2>6. e - m * q = (d1 - m) * q /\ r * square = (r * q) * q
    BY <1>3, <1>9, <1>14, <1>17
  <2>7. r * q \in Int /\ d1 - m \in Int
    BY <1>14, <1>17
  <2>8. Same((r * q) * q, (d1 - m) * q)
    BY <2>5, <2>6
  <2> QED
    BY <2>7, <2>8, SameReduced
<1> DEFINE Slopes(s) == (s * q + n * d2) % Modulus = d1
<1>20. Slopes(r)
  <2>1. PICK rq \in Int : rq = r * q
    BY <1>14
  <2>2. Same(m, m)
    <3>1. m = m + 0 * Modulus
      BY BoundsAssumption
    <3> QED
      BY <3>1 DEF Same
  <2>3. d1 - m \in Int /\ rq + m \in Int /\ (d1 - m) + m = d1
    BY <1>14, <1>17, <2>1
  <2>4. Same(rq + m, (d1 - m) + m)
    BY <1>19, <2>1, <2>2, <2>3, SameAdded
  <2>5. Same((rq + m) % Modulus, rq + m) /\ (rq + m) % Modulus \in Used!Number
    BY <2>3, SameRemainder, Remainders
  <2>6. (rq + m) % Modulus \in Int
    BY <1>1, <2>5
  <2>7. Same((rq + m) % Modulus, d1)
    BY <1>14, <2>3, <2>4, <2>5, <2>6, SameJoined
  <2>8. (rq + m) % Modulus = d1
    BY <2>5, <2>7, SameNumber
  <2> QED
    BY <1>17, <2>1, <2>8
<1>21. ASSUME NEW s \in Used!Number, Slopes(s) PROVE s = r
  <2>1. PICK rq \in Int : rq = r * q
    BY <1>14
  <2>2. PICK sq \in Int : sq = s * q
    BY <1>1
  <2>3. rq + m \in Int /\ sq + m \in Int
    BY <1>17
  <2>4. (rq + m) % Modulus = d1 /\ (sq + m) % Modulus = d1
    BY <1>17, <1>20, <1>21, <2>1, <2>2
  <2>5. Same(sq + m, d1) /\ Same(d1, rq + m)
    BY <2>3, <2>4, SameRemainder
  <2>6. Same(sq + m, rq + m)
    BY <1>14, <2>3, <2>5, SameJoined
  <2>7. Same(sq, rq)
    <3>1. PICK j \in Int : sq + m = (rq + m) + j * Modulus
      BY <2>6 DEF Same
    <3>2. j * Modulus \in Int
      BY BoundsAssumption
    <3>3. sq = rq + j * Modulus
      BY <3>1, <3>2
    <3> QED
      BY <3>3 DEF Same
  <2>8. s \in Int /\ Same(s, r)
    BY <1>1, <1>14, <2>1, <2>2, <2>7, SameReduced
  <2> QED
    BY <2>8, SameNumber
<1> HIDE DEF Slopes
<1>22. (CHOOSE s \in Used!Number : Slopes(s)) = r
  BY <1>20, <1>21
<1> QED
  BY <1>2, <1>3, <1>4, <1>5, <1>6, <1>8, <1>9, <1>10, <1>12, <1>13, <1>22 DEF Slopes

-------------------------------------------------------------------------------
(***************************************************************************)
(* The derivative of a graph.                                              *)
(***************************************************************************)

(* The derivatives of the nodes of o, which have the values v, as Slope has *)
(* them.                                                                   *)
SlopeAt(o, v, n, s) ==
    Used!SlopeOf(o[n], v[n], v[o[n].inputs[1]], v[o[n].inputs[2]],
                 s[o[n].inputs[1]], s[o[n].inputs[2]])
SlopesIn(o, v, s) == [n \in 1 .. Len(o) |-> SlopeAt(o, v, n, s)]
ChosenSlopes(o, v) == CHOOSE s : s = SlopesIn(o, v, s)

LEMMA SlopeIs ==
    ASSUME NEW w
    PROVE  /\ Made!Slope(w) = ChosenSlopes(ops, Made!Values(1 .. Len(ops), w))
           /\ Used!Slope(w) = ChosenSlopes(ops, Used!Values(1 .. Len(ops), w))
<1>1. \A op, v, v1, v2, d1, d2 :
        Made!SlopeOf(op, v, v1, v2, d1, d2) = Used!SlopeOf(op, v, v1, v2, d1, d2)
  BY DEF Made!SlopeOf, Used!SlopeOf, Made!Number, Used!Number
<1>2. Made!Slope(w) = ChosenSlopes(ops, Made!Values(1 .. Len(ops), w))
  BY <1>1, Zenon DEF Made!Slope, ChosenSlopes, SlopesIn, SlopeAt
<1>3. Used!Slope(w) = ChosenSlopes(ops, Used!Values(1 .. Len(ops), w))
  BY Zenon DEF Used!Slope, ChosenSlopes, SlopesIn, SlopeAt
<1> QED
  BY <1>2, <1>3

LEMMA SlopeAlike ==
    ASSUME NEW o, Graph(o), NEW n \in 1 .. Len(o), NEW v, NEW s, NEW u,
           \A m \in In(o, n) : s[m] = u[m]
    PROVE  SlopeAt(o, v, n, s) = SlopeAt(o, v, n, u)
<1>1. CASE o[n].inputs = <<>>
  <2>1. o[n].kind \in {"const", "placeholder"}
    BY <1>1, InputsBefore DEF IsInput
  <2>2. PICK op : op = o[n]
    OBVIOUS
  <2>3. \A val, p, q, d1, d2, e1, e2 :
          Used!SlopeOf(op, val, p, q, d1, d2) = Used!SlopeOf(op, val, p, q, e1, e2)
    BY <2>1, <2>2 DEF Used!SlopeOf
  <2> QED
    BY <2>2, <2>3 DEF SlopeAt
<1>2. CASE o[n].inputs # <<>>
  <2>1. s[o[n].inputs[1]] = u[o[n].inputs[1]] /\ s[o[n].inputs[2]] = u[o[n].inputs[2]]
    BY <1>2, InputsBefore
  <2> QED
    BY <2>1 DEF SlopeAt
<1> QED
  BY <1>1, <1>2

LEMMA SlopesExist ==
    ASSUME NEW o, Graph(o), NEW v
    PROVE  \A n \in 1 .. Len(o) :
              ChosenSlopes(o, v)[n] = SlopeAt(o, v, n, ChosenSlopes(o, v))
<1> DEFINE Upto(s, j) == \A n \in 1 .. Len(o) : n <= j => s[n] = SlopeAt(o, v, n, s)
           IsSlopes(s) == s = [n \in 1 .. Len(o) |-> s[n]]
           Bad == {j \in Nat : ~ \E s : IsSlopes(s) /\ Upto(s, j)}
<1>1. Bad = {}
  <2> SUFFICES ASSUME Bad # {} PROVE FALSE
    OBVIOUS
  <2>1. PICK m \in Bad : \A j \in Bad : m <= j
    <3>1. Bad \subseteq Nat
      OBVIOUS
    <3> HIDE DEF Bad
    <3> QED
      BY <3>1, LeastNat
  <2>2. m # 0
    <3> DEFINE none == [n \in 1 .. Len(o) |-> 0]
    <3>1. IsSlopes(none)
      OBVIOUS
    <3>2. Upto(none, 0)
      BY DEF Graph
    <3> HIDE DEF IsSlopes, Upto, none
    <3> QED
      BY <3>1, <3>2
  <2>3. m - 1 \in Nat /\ m \in Nat /\ m - 1 \notin Bad
    BY <2>1, <2>2
  <2>4. PICK s : IsSlopes(s) /\ Upto(s, m - 1)
    BY <2>3
  <2> DEFINE u == [n \in 1 .. Len(o) |-> IF n = m THEN SlopeAt(o, v, m, s) ELSE s[n]]
  <2>5. IsSlopes(u)
    OBVIOUS
  <2>6. \A n \in 1 .. Len(o) : n # m => u[n] = s[n]
    OBVIOUS
  <2>7. m \in 1 .. Len(o) => u[m] = SlopeAt(o, v, m, s)
    OBVIOUS
  <2>8. ASSUME NEW n \in 1 .. Len(o), n <= m
        PROVE  u[n] = SlopeAt(o, v, n, u)
    <3> HIDE DEF u
    <3>1. u[n] = SlopeAt(o, v, n, s)
      <4>1. CASE n = m
        BY <2>7, <4>1
      <4>2. CASE n # m
        <5>1. n <= m - 1
          BY <2>3, <2>8, <4>2 DEF Graph
        <5> QED
          BY <2>4, <2>6, <4>2, <5>1
      <4> QED
        BY <4>1, <4>2
    <3>2. \A p \in In(o, n) : s[p] = u[p]
      <4>1. \A p \in In(o, n) : p \in 1 .. Len(o) /\ p # m
        BY <2>3, <2>8, InputsBefore DEF Graph
      <4> QED
        BY <2>6, <4>1
    <3> QED
      BY <3>1, <3>2, SlopeAlike
  <2>9. Upto(u, m)
    BY <2>8
  <2> HIDE DEF u, IsSlopes, Upto
  <2> QED
    BY <2>1, <2>5, <2>9
<1>2. Len(o) \in Nat
  BY DEF Graph
<1>3. PICK s : IsSlopes(s) /\ Upto(s, Len(o))
  BY <1>1, <1>2
<1>4. \A n \in 1 .. Len(o) : s[n] = SlopeAt(o, v, n, s)
  BY <1>2, <1>3
<1>5. s = SlopesIn(o, v, s)
  BY <1>3, <1>4 DEF SlopesIn
<1>6. PICK c : c = ChosenSlopes(o, v)
  OBVIOUS
<1>7. c = SlopesIn(o, v, c)
  BY <1>5, <1>6 DEF ChosenSlopes
<1>8. \A n \in 1 .. Len(o) : c[n] = SlopeAt(o, v, n, c)
  <2>1. PICK all : all = SlopesIn(o, v, c)
    OBVIOUS
  <2>2. \A n \in 1 .. Len(o) : all[n] = SlopeAt(o, v, n, c)
    BY ONLY <2>1 DEF SlopesIn
  <2> QED
    BY ONLY <1>7, <2>1, <2>2
<1> QED
  BY <1>6, <1>8

(* A node stands for what its operation makes of what its inputs stand for. *)
LEMMA MeaningIs ==
    ASSUME NEW o, Graph(o), NEW R, NEW w \in [R -> Value], \A n \in 1 .. Len(o) : Refers(o[n], R)
    PROVE  \A n \in 1 .. Len(o) : /\ Meaning(o, w)[n] = Eval(o, w, n, Meaning(o, w))
                                  /\ Meaning(o, w)[n] \in Value
<1> TAKE n \in 1 .. Len(o)
<1>1. Meaning(o, w)[n] = Eval(o, w, n, Meaning(o, w))
  BY ValuesAre DEF Meaning, ValueAt
<1>2. PICK old : old = [m \in 1 .. Len(o) |-> Junk]
  OBVIOUS
<1>3. \A m \in 1 .. Len(o) : old[m] \in Value /\ Refers(o[m], R)
  BY <1>2 DEF Value
<1>4. ValuesIn(o, old, 1 .. Len(o), w) \in [1 .. Len(o) -> Value]
  BY <1>3, ValuesTyped
<1>5. ValuesIn(o, old, 1 .. Len(o), w)[n] = Meaning(o, w)[n]
  BY AllFresh
<1> QED
  BY <1>1, <1>4, <1>5

(* The operations made stand in o behind the first t ones. *)
Placed(o, made, t) ==
    t + Len(made) <= Len(o) /\ \A j \in 1 .. Len(made) : o[t + j] = made[j]

LEMMA PlacedApart ==
    ASSUME NEW o, Len(o) \in Nat, NEW S, NEW first \in Seq(S), NEW second \in Seq(S),
           NEW t \in Nat, Placed(o, first \o second, t)
    PROVE  Placed(o, first, t) /\ Placed(o, second, t + Len(first))
<1>1. PICK m \in Nat : m = Len(first)
  OBVIOUS
<1>2. PICK n \in Nat : n = Len(second)
  OBVIOUS
<1>3. PICK both : both = first \o second
  OBVIOUS
<1>4. /\ Len(both) = m + n
      /\ \A j \in 1 .. m + n : both[j] = IF j <= m THEN first[j] ELSE second[j - m]
  BY <1>1, <1>2, <1>3, ConcatProperties
<1>5. t + (m + n) <= Len(o) /\ \A j \in 1 .. m + n : o[t + j] = both[j]
  BY <1>3, <1>4 DEF Placed
<1>6. Placed(o, first, t)
  <2>1. \A j \in 1 .. m : j \in 1 .. m + n /\ j <= m
    OBVIOUS
  <2>2. \A j \in 1 .. m : o[t + j] = first[j]
    BY <1>4, <1>5, <2>1
  <2>3. t + m <= Len(o)
    BY <1>5
  <2> QED
    BY <1>1, <2>2, <2>3 DEF Placed
<1>7. Placed(o, second, t + m)
  <2>1. \A j \in 1 .. n : m + j \in 1 .. m + n /\ ~(m + j <= m) /\ (m + j) - m = j
                            /\ t + (m + j) = (t + m) + j
    OBVIOUS
  <2>2. \A j \in 1 .. n : o[(t + m) + j] = second[j]
    <3> TAKE j \in 1 .. n
    <3>1. PICK l \in 1 .. m + n : l = m + j /\ ~(l <= m) /\ l - m = j /\ t + l = (t + m) + j
      BY <2>1
    <3>2. o[t + l] = both[l] /\ both[l] = second[l - m]
      BY <1>4, <1>5, <3>1
    <3> QED
      BY <3>1, <3>2
  <2>3. (t + m) + n <= Len(o)
    BY <1>5
  <2> QED
    BY <1>2, <2>2, <2>3 DEF Placed
<1> QED
  BY <1>1, <1>6, <1>7

(* What pairs of earlier nodes stand for. *)
LEMMA PairMeans ==
    ASSUME NEW o, Graph(o), NEW R, NEW w \in [R -> Value],
           \A n \in 1 .. Len(o) : Refers(o[n], R),
           NEW n \in 1 .. Len(o), NEW kind \in {"add", "sub", "mul", "div"}, NEW p, NEW q,
           o[n] = Used!pairwise(kind, p, q),
           Meaning(o, w)[p] \in Used!Number, Meaning(o, w)[q] \in Used!Number
    PROVE  Meaning(o, w)[n] = Used!Combine(kind, Meaning(o, w)[p], Meaning(o, w)[q])
<1>1. PICK u : u = Meaning(o, w)
  OBVIOUS
<1>2. PICK op : op = o[n]
  OBVIOUS
<1>3. op.kind = kind /\ op.inputs = <<p, q>>
  BY <1>2 DEF Used!pairwise, Used!Op
<1>4. op.inputs # <<>> /\ op.inputs[1] = p /\ op.inputs[2] = q
  BY <1>3
<1>5. Eval(o, w, n, u) = Used!Apply(op, u[p], u[q], w)
  BY <1>2, <1>4 DEF Eval
<1>6. u[p] # Junk /\ u[q] # Junk
  BY <1>1, BoundsAssumption DEF Used!Number
<1>7. Used!Apply(op, u[p], u[q], w) = Used!Combine(kind, u[p], u[q])
  BY <1>3, <1>6 DEF Used!Apply
<1>8. u[n] = Eval(o, w, n, u)
  BY <1>1, MeaningIs
<1> QED
  BY <1>1, <1>5, <1>7, <1>8

(* What the nodes made for a product and for a quotient stand for.         *)
LEMMA ProductMeans ==
    ASSUME NEW o, Graph(o), NEW R, NEW w \in [R -> Value],
           \A n \in 1 .. Len(o) : Refers(o[n], R),
           NEW p, NEW q, NEW d1, NEW d2 \in Nat,
           Placed(o, Used!Product(<<p, q>>, d1, d2, d2), d2),
           NEW u, u = Meaning(o, w),
           u[p] \in Used!Number, u[q] \in Used!Number, u[d1] \in Used!Number, u[d2] \in Used!Number
    PROVE  u[d2 + 3] = (u[d1] * u[q] + u[d2] * u[p]) % Modulus
<1>1. PICK made : made = Used!Product(<<p, q>>, d1, d2, d2)
  OBVIOUS
<1>2. /\ Len(made) = 3
      /\ made[1] = Used!pairwise("mul", d1, q) /\ made[2] = Used!pairwise("mul", d2, p)
      /\ made[3] = Used!pairwise("add", d2 + 1, d2 + 2)
  BY <1>1 DEF Used!Product
<1>3. Len(o) \in Nat
  BY DEF Graph
<1>4. /\ d2 + 3 <= Len(o) /\ \A j \in 1 .. 3 : o[d2 + j] = made[j]
  BY <1>1, <1>2 DEF Placed
<1>5. /\ d2 + 1 \in 1 .. Len(o) /\ d2 + 2 \in 1 .. Len(o) /\ d2 + 3 \in 1 .. Len(o)
      /\ o[d2 + 1] = Used!pairwise("mul", d1, q) /\ o[d2 + 2] = Used!pairwise("mul", d2, p)
      /\ o[d2 + 3] = Used!pairwise("add", d2 + 1, d2 + 2)
  BY <1>2, <1>3, <1>4
<1>6. u[d2 + 1] = (u[d1] * u[q]) % Modulus
  <2>1. u[d2 + 1] = Used!Combine("mul", u[d1], u[q])
    BY <1>5, PairMeans
  <2> QED
    BY <2>1 DEF Used!Combine
<1>7. u[d2 + 2] = (u[d2] * u[p]) % Modulus
  <2>1. u[d2 + 2] = Used!Combine("mul", u[d2], u[p])
    BY <1>5, PairMeans
  <2> QED
    BY <2>1 DEF Used!Combine
<1>8. u[d2 + 1] \in Used!Number /\ u[d2 + 2] \in Used!Number
  <2>1. u[d1] * u[q] \in Int /\ u[d2] * u[p] \in Int
    BY DEF Used!Number
  <2> QED
    BY <1>6, <1>7, <2>1, Remainders
<1>9. u[d2 + 3] = (u[d2 + 1] + u[d2 + 2]) % Modulus
  <2>1. u[d2 + 3] = Used!Combine("add", u[d2 + 1], u[d2 + 2])
    BY <1>5, <1>8, PairMeans
  <2> QED
    BY <2>1 DEF Used!Combine
<1> QED
  BY <1>6, <1>7, <1>9, ProductRule

LEMMA QuotientMeans ==
    ASSUME NEW o, Graph(o), NEW R, NEW w \in [R -> Value],
           \A n \in 1 .. Len(o) : Refers(o[n], R),
           NEW p, NEW q, NEW d1, NEW d2 \in Nat,
           Placed(o, Used!Quotient(<<p, q>>, d1, d2, d2), d2),
           NEW u, u = Meaning(o, w), u[q] # 0,
           u[p] \in Used!Number, u[q] \in Used!Number, u[d1] \in Used!Number, u[d2] \in Used!Number
    PROVE  /\ u[d2 + 5] \in Used!Number
           /\ u[d2 + 5] = CHOOSE s \in Used!Number :
                             (s * u[q] + Used!Divide(u[p], u[q]) * u[d2]) % Modulus = u[d1]
<1>1. PICK made : made = Used!Quotient(<<p, q>>, d1, d2, d2)
  OBVIOUS
<1>2. /\ Len(made) = 5
      /\ made[1] = Used!pairwise("mul", d1, q) /\ made[2] = Used!pairwise("mul", d2, p)
      /\ made[3] = Used!pairwise("sub", d2 + 1, d2 + 2)
      /\ made[4] = Used!pairwise("mul", q, q)
      /\ made[5] = Used!pairwise("div", d2 + 3, d2 + 4)
  BY <1>1 DEF Used!Quotient
<1>3. Len(o) \in Nat
  BY DEF Graph
<1>4. /\ d2 + 5 <= Len(o) /\ \A j \in 1 .. 5 : o[d2 + j] = made[j]
  BY <1>1, <1>2 DEF Placed
<1>5. \A j \in 1 .. 5 : d2 + j \in 1 .. Len(o)
  BY ONLY <1>3, <1>4, d2 \in Nat
<1>6. /\ d2 + 1 \in 1 .. Len(o) /\ d2 + 2 \in 1 .. Len(o) /\ d2 + 3 \in 1 .. Len(o)
      /\ d2 + 4 \in 1 .. Len(o) /\ d2 + 5 \in 1 .. Len(o)
      /\ o[d2 + 1] = Used!pairwise("mul", d1, q) /\ o[d2 + 2] = Used!pairwise("mul", d2, p)
      /\ o[d2 + 3] = Used!pairwise("sub", d2 + 1, d2 + 2)
      /\ o[d2 + 4] = Used!pairwise("mul", q, q)
      /\ o[d2 + 5] = Used!pairwise("div", d2 + 3, d2 + 4)
  <2>1. 1 \in 1 .. 5 /\ 2 \in 1 .. 5 /\ 3 \in 1 .. 5 /\ 4 \in 1 .. 5 /\ 5 \in 1 .. 5
    OBVIOUS
  <2> QED
    BY ONLY <1>2, <1>4, <1>5, <2>1
<1>7. u[d2 + 1] = (u[d1] * u[q]) % Modulus
  <2>1. u[d2 + 1] = Used!Combine("mul", u[d1], u[q])
    BY <1>6, PairMeans
  <2> QED
    BY <2>1 DEF Used!Combine
<1>8. u[d2 + 2] = (u[d2] * u[p]) % Modulus
  <2>1. u[d2 + 2] = Used!Combine("mul", u[d2], u[p])
    BY <1>6, PairMeans
  <2> QED
    BY <2>1 DEF Used!Combine
<1>9. u[d2 + 4] = (u[q] * u[q]) % Modulus
  <2>1. u[d2 + 4] = Used!Combine("mul", u[q], u[q])
    BY <1>6, PairMeans
  <2> QED
    BY <2>1 DEF Used!Combine
<1>10. u[d2 + 1] \in Used!Number /\ u[d2 + 2] \in Used!Number
  <2>1. u[d1] * u[q] \in Int /\ u[d2] * u[p] \in Int
    BY DEF Used!Number
  <2> QED
    BY <1>7, <1>8, <2>1, Remainders
<1>11. u[d2 + 3] = (u[d2 + 1] - u[d2 + 2]) % Modulus
  <2>1. u[d2 + 3] = Used!Combine("sub", u[d2 + 1], u[d2 + 2])
    BY <1>6, <1>10, PairMeans
  <2> QED
    BY <2>1 DEF Used!Combine
<1>12. /\ u[d2 + 3] \in Used!Number /\ u[d2 + 4] \in Used!Number \ {0}
       /\ Used!Divide(u[d2 + 3], u[d2 + 4]) \in Used!Number
       /\ Used!Divide(u[d2 + 3], u[d2 + 4])
            = CHOOSE s \in Used!Number :
                 (s * u[q] + Used!Divide(u[p], u[q]) * u[d2]) % Modulus = u[d1]
  <2>1. PICK v1 \in Used!Number : v1 = u[p]
    OBVIOUS
  <2>2. PICK v2 \in Used!Number : v2 = u[q] /\ v2 # 0
    OBVIOUS
  <2>3. PICK s1_ \in Used!Number : s1_ = u[d1]
    OBVIOUS
  <2>4. PICK s2_ \in Used!Number : s2_ = u[d2]
    OBVIOUS
  <2>5. PICK top : top = (((s1_ * v2) % Modulus) - ((s2_ * v1) % Modulus)) % Modulus
    OBVIOUS
  <2>6. PICK below : below = (v2 * v2) % Modulus
    OBVIOUS
  <2>7. /\ top \in Used!Number /\ below \in Used!Number \ {0}
        /\ Used!Divide(top, below) \in Used!Number
        /\ Used!Divide(top, below)
             = CHOOSE s \in Used!Number : (s * v2 + Used!Divide(v1, v2) * s2_) % Modulus = s1_
    BY <2>2, <2>5, <2>6, QuotientRule
  <2>8. u[d2 + 3] = top /\ u[d2 + 4] = below
    BY <1>7, <1>8, <1>9, <1>11, <2>1, <2>2, <2>3, <2>4, <2>5, <2>6
  <2> QED
    BY <2>1, <2>2, <2>3, <2>4, <2>7, <2>8, Zenon
<1>13. u[d2 + 5] = Used!Divide(u[d2 + 3], u[d2 + 4])
  <2>1. u[d2 + 5] = Used!Combine("div", u[d2 + 3], u[d2 + 4])
    BY <1>6, <1>12, PairMeans
  <2> QED
    BY <1>12, <2>1 DEF Used!Combine
<1> QED
  BY <1>12, <1>13, Zenon

LEMMA PlacedOne ==
    ASSUME NEW o, NEW op, NEW t, Placed(o, <<op>>, t)
    PROVE  t + 1 <= Len(o) /\ o[t + 1] = op
<1>1. PICK made : made = <<op>>
  OBVIOUS
<1>2. Len(made) = 1 /\ made[1] = op /\ 1 \in 1 .. 1
  BY <1>1
<1>3. t + Len(made) <= Len(o) /\ \A j \in 1 .. Len(made) : o[t + j] = made[j]
  BY ONLY <1>1, Placed(o, <<op>>, t) DEF Placed
<1> QED
  BY ONLY <1>2, <1>3

(* A graph o whose nodes have the values u and the derivatives slope, and  *)
(* one node that has the value of another's derivative.                    *)
Derived(o, R, w, u, slope) ==
    /\ Graph(o) /\ w \in [R -> Value] /\ u = Meaning(o, w)
    /\ \A n \in 1 .. Len(o) : Refers(o[n], R) /\ slope[n] = SlopeAt(o, u, n, slope)
Derives(u, slope, n, last) == slope[n] \in Used!Number /\ u[last] = slope[n]

(* What is made for an input is its derivative. *)
LEMMA InputSlope ==
    ASSUME NEW o, NEW R, NEW w, NEW u, NEW slope, Derived(o, R, w, u, slope),
           NEW n \in 1 .. Len(o), IsInput(o[n]), u[n] # Junk,
           NEW s, NEW r, NEW t \in Nat, Placed(o, Used!DerivativeOf(o[n], s, r, t), t)
    PROVE  Derives(u, slope, n, t + Len(Used!DerivativeOf(o[n], s, r, t)))
<1>0. /\ Graph(o) /\ w \in [R -> Value] /\ (\A m \in 1 .. Len(o) : Refers(o[m], R))
      /\ u = Meaning(o, w) /\ slope[n] = SlopeAt(o, u, n, slope)
  BY DEF Derived
<1>1. PICK m \in {0, 1} : /\ Used!DerivativeOf(o[n], s, r, t) = <<Used!const(m)>>
                          /\ slope[n] = m
  <2>1. CASE o[n].kind = "const"
    <3>1. slope[n] = 0
      BY <1>0, <2>1 DEF SlopeAt, Used!SlopeOf
    <3>2. Used!DerivativeOf(o[n], s, r, t) = <<Used!const(0)>>
      BY <2>1 DEF Used!DerivativeOf
    <3> QED
      BY <3>1, <3>2
  <2>2. CASE o[n].kind = "placeholder"
    <3>1. slope[n] = IF o[n].arg = variable THEN 1 ELSE 0
      BY <1>0, <2>2 DEF SlopeAt, Used!SlopeOf
    <3>2. Used!DerivativeOf(o[n], s, r, t)
            = <<Used!const(IF o[n].arg = variable THEN 1 ELSE 0)>>
      BY <2>2 DEF Used!DerivativeOf
    <3> QED
      BY <3>1, <3>2
  <2> QED
    BY <2>1, <2>2 DEF IsInput
<1>2. PICK op : op = Used!const(m)
  OBVIOUS
<1>3. PICK made : made = <<op>>
  OBVIOUS
<1>4. Len(made) = 1 /\ made[1] = op
  BY <1>3
<1>5. Used!DerivativeOf(o[n], s, r, t) = made
  BY ONLY <1>1, <1>2, <1>3
<1>6. t + 1 <= Len(o) /\ o[t + 1] = op
  BY <1>3, <1>5, PlacedOne
<1>7. t + 1 \in 1 .. Len(o)
  BY <1>0, <1>6 DEF Graph
<1>8. op.kind = "const" /\ op.arg = m /\ op.inputs = <<>>
  BY <1>2 DEF Used!const, Used!Op
<1>9. u[t + 1] = m
  <2>1. u[t + 1] = Eval(o, w, t + 1, u)
    BY <1>0, <1>7, MeaningIs
  <2>2. Eval(o, w, t + 1, u) = Used!Apply(op, 0, 0, w)
    BY <1>6, <1>8 DEF Eval
  <2>3. Used!Apply(op, 0, 0, w) = m
    BY <1>8 DEF Used!Apply
  <2> QED
    BY <2>1, <2>2, <2>3
<1>10. m \in Used!Number
  BY BoundsAssumption DEF Used!Number
<1> QED
  BY <1>1, <1>4, <1>5, <1>9, <1>10 DEF Derives

(* What is made for a pair is its derivative, if what is made for its      *)
(* inputs is theirs.                                                       *)
LEMMA PairSlope ==
    ASSUME NEW o, NEW R, NEW w, NEW u, NEW slope, Derived(o, R, w, u, slope),
           NEW n \in 1 .. Len(o), u[n] # Junk, NEW p \in 1 .. Len(o), NEW q \in 1 .. Len(o),
           o[n].inputs = <<p, q>>, o[n].kind \in {"add", "sub", "mul", "div"},
           NEW d1, NEW d2 \in Nat, Placed(o, Added(o[n], d1, d2), d2),
           u[p] # Junk => Derives(u, slope, p, d1), u[q] # Junk => Derives(u, slope, q, d2)
    PROVE  Derives(u, slope, n, d2 + Len(Added(o[n], d1, d2)))
<1>0. /\ Graph(o) /\ w \in [R -> Value] /\ (\A m \in 1 .. Len(o) : Refers(o[m], R))
      /\ u = Meaning(o, w) /\ slope[n] = SlopeAt(o, u, n, slope)
      /\ u[p] \in Value /\ u[q] \in Value
  <2>1. Graph(o) /\ w \in [R -> Value] /\ \A m \in 1 .. Len(o) : Refers(o[m], R)
    BY DEF Derived
  <2>2. Meaning(o, w)[p] \in Value /\ Meaning(o, w)[q] \in Value
    BY <2>1, MeaningIs
  <2> QED
    BY <2>1, <2>2 DEF Derived
<1>1. PICK op : op = o[n]
  OBVIOUS
<1>2. op.inputs # <<>> /\ op.inputs[1] = p /\ op.inputs[2] = q
  <2>1. op.inputs = <<p, q>>
    BY <1>1
  <2> QED
    BY ONLY <2>1
<1>3. u[n] = Used!Apply(op, u[p], u[q], w)
  <2>1. u[n] = Eval(o, w, n, u)
    BY <1>0, MeaningIs
  <2> QED
    BY <1>1, <1>2, <2>1 DEF Eval
<1>4. Used!Apply(op, u[p], u[q], w)
        = IF u[p] = Junk \/ u[q] = Junk THEN Junk ELSE Used!Combine(op.kind, u[p], u[q])
  BY <1>1 DEF Used!Apply
<1>5. /\ u[p] # Junk /\ u[q] # Junk /\ u[n] = Used!Combine(op.kind, u[p], u[q])
      /\ u[p] \in Used!Number /\ u[q] \in Used!Number
  BY <1>0, <1>3, <1>4 DEF Value
<1>6. /\ slope[p] \in Used!Number /\ u[d1] = slope[p]
      /\ slope[q] \in Used!Number /\ u[d2] = slope[q]
  BY <1>5 DEF Derives
<1>7. slope[n] = Used!SlopeOf(op, u[n], u[p], u[q], u[d1], u[d2])
  BY <1>0, <1>1, <1>2, <1>6 DEF SlopeAt
<1>8. CASE op.kind \in {"add", "sub"}
  <2>1. PICK pair : pair = Used!pairwise(op.kind, d1, d2)
    OBVIOUS
  <2>2. PICK made : made = <<pair>>
    OBVIOUS
  <2>3. Len(made) = 1 /\ made[1] = pair /\ Added(o[n], d1, d2) = made
    BY <1>1, <1>8, <2>1, <2>2 DEF Added
  <2>4. d2 + 1 <= Len(o) /\ o[d2 + 1] = pair
    BY <2>2, <2>3, PlacedOne
  <2>5. d2 + 1 \in 1 .. Len(o)
    BY <1>0, <2>4 DEF Graph
  <2>6. u[d2 + 1] = Used!Combine(op.kind, u[d1], u[d2])
    <3>1. PICK kind \in {"add", "sub", "mul", "div"} : kind = op.kind
      BY <1>8
    <3>2. PICK m \in 1 .. Len(o) : m = d2 + 1 /\ o[m] = Used!pairwise(kind, d1, d2)
      BY <2>1, <2>4, <2>5, <3>1
    <3>3. Meaning(o, w)[d1] \in Used!Number /\ Meaning(o, w)[d2] \in Used!Number
      BY <1>0, <1>6
    <3>4. Meaning(o, w)[m] = Used!Combine(kind, Meaning(o, w)[d1], Meaning(o, w)[d2])
      <4>1. Graph(o) /\ w \in [R -> Value] /\ \A l \in 1 .. Len(o) : Refers(o[l], R)
        BY ONLY <1>0
      <4>2. o[m] = Used!pairwise(kind, d1, d2)
        BY ONLY <3>2
      <4> QED
        BY ONLY <3>3, <4>1, <4>2, kind \in {"add", "sub", "mul", "div"}, m \in 1 .. Len(o),
                PairMeans
    <3> QED
      BY ONLY <1>0, <3>1, <3>2, <3>4
  <2>7. Used!Combine(op.kind, u[d1], u[d2]) = slope[n]
    <3>1. CASE op.kind = "add"
      BY <1>5, <1>7, <3>1 DEF Used!Combine, Used!SlopeOf
    <3>2. CASE op.kind = "sub"
      BY <1>5, <1>7, <3>2 DEF Used!Combine, Used!SlopeOf
    <3> QED
      BY <1>8, <3>1, <3>2
  <2>8. slope[n] \in Used!Number
    <3>1. u[d1] + u[d2] \in Int /\ u[d1] - u[d2] \in Int
      BY <1>6 DEF Used!Number
    <3>2. (u[d1] + u[d2]) % Modulus \in Used!Number /\ (u[d1] - u[d2]) % Modulus \in Used!Number
      BY ONLY <3>1, Remainders
    <3> QED
      BY <1>8, <2>7, <3>2 DEF Used!Combine
  <2> QED
    BY <2>3, <2>6, <2>7, <2>8 DEF Derives
<1>9. CASE op.kind = "mul"
  <2>1. PICK made : made = Used!Product(<<p, q>>, d1, d2, d2)
    OBVIOUS
  <2>2. Added(o[n], d1, d2) = made /\ Len(made) = 3
    BY <1>1, <1>9, <2>1 DEF Added, Used!Product
  <2>3. u[d2 + 3] = (u[d1] * u[q] + u[d2] * u[p]) % Modulus
    BY <1>5, <1>6, <1>0, <2>1, <2>2, ProductMeans
  <2>4. slope[n] = (u[d1] * u[q] + u[d2] * u[p]) % Modulus
    BY <1>5, <1>7, <1>9 DEF Used!SlopeOf
  <2>5. u[d1] * u[q] + u[d2] * u[p] \in Int
    BY <1>5, <1>6, SMTT(20) DEF Used!Number
  <2> QED
    BY <2>2, <2>3, <2>4, <2>5, Remainders DEF Derives
<1>10. CASE op.kind = "div"
  <2>1. PICK made : made = Used!Quotient(<<p, q>>, d1, d2, d2)
    OBVIOUS
  <2>2. Added(o[n], d1, d2) = made /\ Len(made) = 5
    BY <1>1, <1>10, <2>1 DEF Added, Used!Quotient
  <2>3. u[q] # 0 /\ u[n] = Used!Divide(u[p], u[q])
    BY <1>5, <1>10 DEF Used!Combine
  <2>4. /\ u[d2 + 5] \in Used!Number
        /\ u[d2 + 5] = CHOOSE s \in Used!Number :
                          (s * u[q] + Used!Divide(u[p], u[q]) * u[d2]) % Modulus = u[d1]
    <3>1. /\ Graph(o) /\ w \in [R -> Value] /\ (\A m \in 1 .. Len(o) : Refers(o[m], R))
          /\ u = Meaning(o, w) /\ d2 \in Nat
      BY ONLY <1>0, d2 \in Nat
    <3>2. /\ u[p] \in Used!Number /\ u[q] \in Used!Number
          /\ u[d1] \in Used!Number /\ u[d2] \in Used!Number
      BY <1>5, <1>6
    <3>3. Placed(o, Used!Quotient(<<p, q>>, d1, d2, d2), d2)
      BY <2>1, <2>2
    <3> QED
      BY ONLY <2>3, <3>1, <3>2, <3>3, QuotientMeans
  <2>5. slope[n] = CHOOSE s \in Used!Number : (s * u[q] + u[n] * u[d2]) % Modulus = u[d1]
    <3>1. PICK val : val = u[n] /\ val # Junk
      OBVIOUS
    <3>2. PICK v2 : v2 = u[q]
      OBVIOUS
    <3>3. PICK e1 : e1 = u[d1]
      OBVIOUS
    <3>4. PICK e2 : e2 = u[d2]
      OBVIOUS
    <3>5. Used!SlopeOf(op, val, u[p], v2, e1, e2)
             = CHOOSE s \in Used!Number : (s * v2 + val * e2) % Modulus = e1
      BY <1>10, <3>1 DEF Used!SlopeOf
    <3>6. slope[n] = Used!SlopeOf(op, val, u[p], v2, e1, e2)
      BY <1>7, <3>1, <3>2, <3>3, <3>4
    <3> QED
      BY ONLY <3>1, <3>2, <3>3, <3>4, <3>5, <3>6, Zenon
  <2>6. u[d2 + 5] = slope[n]
    BY <2>3, <2>4, <2>5, Zenon
  <2> QED
    BY <2>2, <2>4, <2>6 DEF Derives
<1> QED
  BY <1>1, <1>8, <1>9, <1>10

(* So what is made for each node behind t others is its derivative, by the *)
(* least node for which it would not be.                                   *)
LEMMA DerivedMeans ==
    ASSUME NEW root \in 1 .. Len(ops), Graph(ops), NEW v, v = ChosenNodes(root),
           NEW o, NEW R, NEW w, NEW u, NEW slope, Derived(o, R, w, u, slope),
           root <= Len(o), \A n \in 1 .. root : o[n] = ops[n]
    PROVE  \A n \in 1 .. root : \A t \in Nat :
              root <= t /\ Placed(o, v[n][t], t) /\ u[n] # Junk =>
                  Derives(u, slope, n, t + Len(v[n][t]))
<1> DEFINE Good(n) == \A t \in Nat :
              root <= t /\ Placed(o, v[n][t], t) /\ u[n] # Junk =>
                  Derives(u, slope, n, t + Len(v[n][t]))
           Bad == {n \in 1 .. root : ~Good(n)}
<1>1. /\ root \in Nat /\ Len(o) \in Nat
      /\ \A n \in 1 .. root : /\ n \in Nat /\ n \in 1 .. Len(ops) /\ n <= root
                              /\ n \in 1 .. Len(o) /\ o[n] = ops[n]
  BY DEF Graph, Derived
<1>2. \A n \in 1 .. root : \A t \in Nat : v[n][t] = MadeAt(v, n, t)
  <2>1. v = NodesOf(root, v)
    BY NodesExist
  <2>2. PICK all : all = NodesOf(root, v)
    OBVIOUS
  <2>3. \A n \in 1 .. root : \A t \in Nat : all[n][t] = MadeAt(v, n, t)
    BY ONLY <2>2 DEF NodesOf
  <2> QED
    BY ONLY <2>1, <2>2, <2>3
<1>3. \A n \in 1 .. root : \A t \in Nat : root <= t => Fits({}, v[n][t], t)
  BY NodesFit
<1> SUFFICES ASSUME Bad # {} PROVE FALSE
  OBVIOUS
<1>5. Bad \subseteq Nat
  BY <1>1
<1>6. PICK n \in Bad : \A m \in Bad : n <= m
  <2> HIDE DEF Bad
  <2> QED
    BY ONLY <1>5, Bad # {}, LeastNat
<1>7. n \in 1 .. root /\ n \in Nat /\ n \in 1 .. Len(ops) /\ n \in 1 .. Len(o) /\ o[n] = ops[n]
  BY <1>1
<1>8. PICK t \in Nat : /\ root <= t /\ Placed(o, v[n][t], t) /\ u[n] # Junk
                       /\ ~Derives(u, slope, n, t + Len(v[n][t]))
  OBVIOUS
<1>9. \A m \in 1 .. root : ~(n <= m) => Good(m)
  BY <1>6
<1> HIDE DEF Good, Bad
<1>10. PICK made : made = v[n][t] /\ made = MadeAt(v, n, t)
  BY <1>2, <1>7
<1>11. CASE IsInput(ops[n])
  <2>1. PICK s, r : made = Used!DerivativeOf(o[n], s, r, t)
    BY <1>7, <1>10, Zenon DEF MadeAt
  <2>2. Placed(o, Used!DerivativeOf(o[n], s, r, t), t) /\ IsInput(o[n])
    BY <1>7, <1>8, <1>10, <1>11, <2>1
  <2>3. Derives(u, slope, n, t + Len(Used!DerivativeOf(o[n], s, r, t)))
    <3>1. n \in 1 .. Len(o) /\ u[n] # Junk /\ t \in Nat /\ Derived(o, R, w, u, slope)
      BY <1>7, <1>8
    <3> QED
      BY ONLY <2>2, <3>1, InputSlope, Zenon
  <2> QED
    <3>1. PICK end : end = t + Len(made)
      OBVIOUS
    <3>2. Derives(u, slope, n, end)
      BY ONLY <2>1, <2>3, <3>1
    <3>3. ~Derives(u, slope, n, end)
      BY ONLY <1>8, <1>10, <3>1
    <3> QED
      BY ONLY <3>2, <3>3
<1>12. CASE IsPair(ops[n], n - 1)
  <2>1. PICK p \in 1 .. n - 1, q \in 1 .. n - 1 : ops[n].inputs = <<p, q>>
    BY <1>12 DEF IsPair
  <2>2. p \in 1 .. root /\ q \in 1 .. root /\ ~(n <= p) /\ ~(n <= q)
    BY <1>1, <1>7
  <2>3. Good(p) /\ Good(q)
    BY <1>9, <2>2
  <2>4. PICK s : s = v[p][t]
    OBVIOUS
  <2>5. s \in Seq(Operation({})) /\ Len(s) \in Nat
    <3>1. Fits({}, s, t)
      BY <1>3, <1>8, <2>2, <2>4
    <3> QED
      BY <3>1 DEF Fits
  <2>6. PICK d1 \in Nat : d1 = t + Len(s) /\ root <= d1
    <3>1. PICK more \in Nat : more = Len(s)
      BY <2>5
    <3> QED
      BY <1>1, <1>8, <3>1
  <2>7. PICK r : r = v[q][d1]
    OBVIOUS
  <2>8. r \in Seq(Operation({})) /\ Len(r) \in Nat
    <3>1. Fits({}, r, d1)
      BY <1>3, <2>2, <2>6, <2>7
    <3> QED
      BY <3>1 DEF Fits
  <2>9. PICK d2 \in Nat : d2 = d1 + Len(r)
    BY <2>6, <2>8
  <2>10. PICK more : more = Added(o[n], d1, d2)
    OBVIOUS
  <2>11. made = (s \o r) \o more
    <3>1. ops[n].inputs[1] = p /\ ops[n].inputs[2] = q
      BY <2>1
    <3>2. made = Used!DerivativeOf(ops[n], s, r, t)
      BY <1>10, <2>4, <2>6, <2>7, <3>1 DEF MadeAt
    <3>3. Used!DerivativeOf(ops[n], s, r, t) = (s \o r) \o Added(ops[n], d1, d2)
      BY <1>12, <2>6, <2>9, PairDerived, Zenon
    <3> QED
      BY ONLY <1>7, <2>10, <3>2, <3>3
  <2>12. more \in Seq(Operation({})) /\ Len(more) \in Nat
    <3>1. /\ p \in 1 .. d2 /\ q \in 1 .. d2 /\ d1 \in 1 .. d2 /\ d2 \in 1 .. d2
      BY <1>1, <2>2, <2>6, <2>8, <2>9
    <3>2. o[n].inputs = <<p, q>> /\ o[n].kind \in {"add", "sub", "mul", "div"}
      BY <1>7, <1>12, <2>1 DEF IsPair
    <3>3. Fits({}, more, d2)
      BY <2>10, <3>1, <3>2, AddedFits
    <3> QED
      BY <3>3 DEF Fits
  <2>13. PICK both \in Seq(Operation({})) : both = s \o r /\ Len(both) = Len(s) + Len(r)
    BY <2>5, <2>8, ConcatProperties
  <2>14. t + Len(both) = d2
    BY <2>5, <2>6, <2>8, <2>9, <2>13
  <2>15. Placed(o, both, t) /\ Placed(o, more, d2)
    <3>1. Placed(o, both \o more, t)
      BY ONLY <1>8, <1>10, <2>11, <2>13
    <3>2. Placed(o, both, t) /\ Placed(o, more, t + Len(both))
      BY ONLY <1>1, <2>12, <3>1, both \in Seq(Operation({})), t \in Nat, PlacedApart
    <3> QED
      BY ONLY <2>14, <3>2
  <2>16. Placed(o, s, t) /\ Placed(o, r, d1)
    <3>1. Placed(o, s \o r, t)
      BY ONLY <2>13, <2>15
    <3>2. Placed(o, s, t) /\ Placed(o, r, t + Len(s))
      BY ONLY <1>1, <2>5, <2>8, <3>1, t \in Nat, PlacedApart
    <3> QED
      BY ONLY <2>6, <3>2
  <2>17. u[p] # Junk => Derives(u, slope, p, d1)
    BY <1>8, <2>3, <2>4, <2>6, <2>16 DEF Good
  <2>18. u[q] # Junk => Derives(u, slope, q, d2)
    BY <2>3, <2>6, <2>7, <2>9, <2>16 DEF Good
  <2>19. Derives(u, slope, n, d2 + Len(Added(o[n], d1, d2)))
    <3>1. o[n].inputs = <<p, q>> /\ o[n].kind \in {"add", "sub", "mul", "div"}
      BY <1>7, <1>12, <2>1 DEF IsPair
    <3>2. /\ n \in 1 .. Len(o) /\ p \in 1 .. Len(o) /\ q \in 1 .. Len(o) /\ u[n] # Junk
          /\ d2 \in Nat /\ Derived(o, R, w, u, slope)
      BY <1>1, <1>7, <1>8, <2>2
    <3>3. Placed(o, Added(o[n], d1, d2), d2)
      BY <2>10, <2>15
    <3> QED
      BY ONLY <2>17, <2>18, <3>1, <3>2, <3>3, PairSlope, Zenon
  <2>20. t + Len(made) = d2 + Len(more)
    <3>1. Len(both \o more) = Len(both) + Len(more)
      BY ONLY <2>12, both \in Seq(Operation({})), ConcatProperties
    <3>2. made = both \o more
      BY ONLY <2>11, <2>13
    <3>3. PICK l \in Nat : l = Len(both)
      BY ONLY both \in Seq(Operation({})), LenProperties
    <3>4. PICK m \in Nat : m = Len(more)
      BY <2>12
    <3>5. Len(made) = l + m /\ t + l = d2
      BY ONLY <2>14, <3>1, <3>2, <3>3, <3>4
    <3> QED
      BY ONLY <3>4, <3>5, t \in Nat
  <2> QED
    BY ONLY <1>8, <1>10, <2>10, <2>19, <2>20
<1> QED
  BY <1>7, <1>11, <1>12 DEF Graph

-------------------------------------------------------------------------------
(***************************************************************************)
(* The graphs made by Made, whose operations are those of Used.            *)
(***************************************************************************)
LEMMA SameOperations ==
    /\ \A r : Made!placeholder(r) = Used!placeholder(r)
    /\ \A m : Made!const(m) = Used!const(m)
    /\ \A kind, p, q : Made!pairwise(kind, p, q) = Used!pairwise(kind, p, q)
    /\ \A op, s, r, top : Made!DerivativeOf(op, s, r, top) = Used!DerivativeOf(op, s, r, top)
<1>1. /\ \A r : Made!placeholder(r) = Used!placeholder(r)
      /\ \A m : Made!const(m) = Used!const(m)
      /\ \A kind, p, q : Made!pairwise(kind, p, q) = Used!pairwise(kind, p, q)
  BY DEF Made!placeholder, Made!const, Made!pairwise, Made!Op,
         Used!placeholder, Used!const, Used!pairwise, Used!Op
<1>2. \A op, s, r, top : Made!DerivativeOf(op, s, r, top) = Used!DerivativeOf(op, s, r, top)
  BY DEF Made!DerivativeOf, Used!DerivativeOf, Made!Product, Used!Product, Made!Quotient,
         Used!Quotient, Made!pairwise, Used!pairwise, Made!const, Used!const, Made!Op, Used!Op
<1> QED
  BY <1>1, <1>2

LEMMA MadeDerivativeIs ==
    ASSUME NEW root, NEW last
    PROVE  Made!Derivative(root, last) = ChosenNodes(root)[root][last]
<1>1. \A op, s, r, top : Made!DerivativeOf(op, s, r, top) = Used!DerivativeOf(op, s, r, top)
  BY SameOperations
<1> QED
  BY <1>1, ZenonT(30) DEF Made!Derivative, ChosenNodes, NodesOf, MadeAt

LEMMA MeaningAsFunction ==
    ASSUME Graph(ops)
    PROVE  \A w : ValuesIn(ops, output_value, 1 .. Len(ops), w) = Meaning(ops, w)
<1> TAKE w
<1>1. PICK v : v = ValuesIn(ops, output_value, 1 .. Len(ops), w)
  OBVIOUS
<1>2. PICK u : u = Meaning(ops, w)
  OBVIOUS
<1>3. v = [n \in 1 .. Len(ops) |-> v[n]] /\ u = [n \in 1 .. Len(ops) |-> u[n]]
  BY <1>1, <1>2, ValuesAre DEF Meaning
<1>4. \A n \in 1 .. Len(ops) : v[n] = u[n]
  BY <1>1, <1>2, AllFresh
<1>5. v = u
  BY ONLY <1>3, <1>4
<1> QED
  BY <1>1, <1>2, <1>5

LEMMA UsedMeaning ==
    ASSUME Graph(ops), NEW w
    PROVE  Used!Values(1 .. Len(ops), w) = Meaning(ops, w)
  BY ValuesAreIn, MeaningAsFunction

LEMMA MadeMeaning ==
    ASSUME Graph(ops), NEW w
    PROVE  Made!Values(1 .. Len(ops), w) = Meaning(ops, w)
<1>1. PICK v : v = ValuesIn(ops, output_value, 1 .. Len(ops), w)
  OBVIOUS
<1>2. Made!Values(1 .. Len(ops), w) = v
  BY <1>1, Zenon
     DEF Made!Values, ValuesIn, ChosenValues, StepIn, ValueAt, Eval, Made!Apply, Used!Apply,
         Made!Combine, Used!Combine, Made!Divide, Used!Divide, Made!Number, Used!Number
<1> QED
  BY <1>1, <1>2, MeaningAsFunction

(* The variable the derivative is by stays what it is. *)
LEMMA SlopesStay ==
    ASSUME NEW o, NEW v, variable' = variable
    PROVE  ChosenSlopes(o, v)' = ChosenSlopes(o, v)
<1>1. \A op, val, v1, v2, d1, d2 :
        Used!SlopeOf(op, val, v1, v2, d1, d2)' = Used!SlopeOf(op, val, v1, v2, d1, d2)
  BY DEF Used!SlopeOf
<1> QED
  BY <1>1, Zenon DEF ChosenSlopes, SlopesIn, SlopeAt

(* What the graph of the derivative of the last node stands for.           *)
RightSlope(o, R, root, last) ==
    \A w \in [R -> Used!Number] :
        Meaning(o, w)[root] # Junk => Meaning(o, w)[last] = ChosenSlopes(o, Meaning(o, w))[root]

LEMMA DerivativeMeans ==
    ASSUME NEW R, ops \in Seq(Operation(R)), Graph(ops), NEW root \in Nat, root = Len(ops),
           root \in 1 .. root, NEW new, new = ChosenNodes(root)[root][root],
           NEW o, o = ops \o new
    PROVE  /\ o \in Seq(Operation(R)) /\ Graph(o) /\ Len(o) = root + Len(new)
           /\ root \in 1 .. Len(o) /\ root + Len(new) \in 1 .. Len(o)
           /\ RightSlope(o, R, root, root + Len(new))
<1>1. PICK v : v = ChosenNodes(root)
  OBVIOUS
<1>2. new = v[root][root] /\ root <= root /\ root \in 1 .. Len(ops)
  BY <1>1
<1>3. Fits(R, new, root) /\ Len(new) > 0
  BY <1>1, <1>2, NodesFit
<1>4. PICK more \in Nat : more = Len(new) /\ more > 0
  BY <1>3 DEF Fits
<1>5. o \in Seq(Operation(R)) /\ Graph(o) /\ Len(o) = root + more
  BY <1>3, <1>4, GraphGrows
<1>6. /\ \A n \in 1 .. root : o[n] = ops[n]
      /\ \A j \in 1 .. more : o[root + j] = new[j]
  <2>1. new \in Seq(Operation(R))
    BY <1>3 DEF Fits
  <2>2. \A n \in 1 .. root + more : o[n] = IF n <= root THEN ops[n] ELSE new[n - root]
    BY <1>4, <2>1, ConcatProperties
  <2>3. \A n \in 1 .. root : n \in 1 .. root + more /\ n <= root
    OBVIOUS
  <2>4. \A j \in 1 .. more : /\ root + j \in 1 .. root + more /\ ~(root + j <= root)
                             /\ (root + j) - root = j
    OBVIOUS
  <2>5. \A j \in 1 .. more : o[root + j] = new[j]
    <3> TAKE j \in 1 .. more
    <3>1. PICK n \in 1 .. root + more : n = root + j /\ ~(n <= root) /\ n - root = j
      BY <2>4
    <3> QED
      BY <2>2, <3>1
  <2> QED
    BY <2>2, <2>3, <2>5
<1>7. Placed(o, new, root)
  BY <1>4, <1>5, <1>6 DEF Placed
<1>8. ASSUME NEW w \in [R -> Used!Number], Meaning(o, w)[root] # Junk
      PROVE  Meaning(o, w)[root + more] = ChosenSlopes(o, Meaning(o, w))[root]
  <2>1. PICK u : u = Meaning(o, w)
    OBVIOUS
  <2>2. PICK slope : slope = ChosenSlopes(o, u)
    OBVIOUS
  <2>3. \A n \in 1 .. Len(o) : slope[n] = SlopeAt(o, u, n, slope)
    BY <1>5, <2>2, SlopesExist
  <2>4. \A n \in 1 .. Len(o) : Refers(o[n], R)
    <3>1. \A n \in 1 .. Len(o) : o[n] \in Operation(R)
      BY ONLY <1>5
    <3> QED
      BY ONLY <3>1 DEF Operation
  <2>5. w \in [R -> Value]
    BY DEF Value
  <2>6. Derived(o, R, w, u, slope)
    BY <1>5, <2>1, <2>3, <2>4, <2>5 DEF Derived
  <2>7. root <= Len(o)
    BY <1>5
  <2>8. \A n \in 1 .. root : \A t \in Nat :
            root <= t /\ Placed(o, v[n][t], t) /\ u[n] # Junk =>
                Derives(u, slope, n, t + Len(v[n][t]))
    BY ONLY <1>1, <1>2, <1>6, <2>6, <2>7, Graph(ops), DerivedMeans
  <2>9. Placed(o, v[root][root], root) /\ u[root] # Junk
    BY <1>2, <1>7, <1>8, <2>1
  <2>10. Derives(u, slope, root, root + Len(v[root][root]))
    BY <1>2, <2>8, <2>9
  <2>11. Derives(u, slope, root, root + more)
    BY <1>2, <1>4, <2>10
  <2> QED
    BY <2>1, <2>2, <2>11 DEF Derives
<1>9. root \in 1 .. Len(o) /\ root + more \in 1 .. Len(o)
  BY <1>5
<1> QED
  BY <1>4, <1>5, <1>8, <1>9 DEF RightSlope

LEMMA RightStays ==
    ASSUME NEW o, NEW R, NEW root, NEW last, variable' = variable, RightSlope(o, R, root, last)
    PROVE  RightSlope(o, R, root, last)'
<1> SUFFICES ASSUME NEW w \in [R -> Used!Number], Meaning(o, w)[root] # Junk
             PROVE  Meaning(o, w)[last] = (ChosenSlopes(o, Meaning(o, w))[root])'
  BY DEF RightSlope
<1>1. PICK u : u = Meaning(o, w)
  OBVIOUS
<1>2. ChosenSlopes(o, u)' = ChosenSlopes(o, u)
  BY SlopesStay
<1> QED
  BY <1>1, <1>2 DEF RightSlope

(* The operations made are a graph over R, and once there are roots the    *)
(* second is the derivative of the first.                                  *)
SlopeIInv(R) ==
    \E o \in Seq(Operation(R)) :
        /\ o = ops /\ Graph(o)
        /\ \/ roots = <<>>
           \/ \E root, last \in 1 .. Len(o) :
                 roots = <<root, last>> /\ RightSlope(o, R, root, last)

LEMMA SlopeInit == ASSUME NEW R, ops = <<>>, roots = <<>> PROVE SlopeIInv(R)
<1>1. ops \in Seq(Operation(R)) /\ Len(ops) = 0 /\ \A n \in 1 .. 0 : FALSE
  OBVIOUS
<1> QED
  BY <1>1 DEF SlopeIInv, Graph

(* One more operation. *)
LEMMA SlopeGrows ==
    ASSUME NEW R, ops \in Seq(Operation(R)), Graph(ops), NEW op \in Operation(R),
           IsInput(op) \/ IsPair(op, Len(ops)), ops' = ops \o <<op>>, roots' = <<>>
    PROVE  SlopeIInv(R)'
<1>1. Fits(R, <<op>>, Len(ops))
  BY OneFits DEF Graph
<1>2. ops' \in Seq(Operation(R)) /\ Graph(ops')
  BY <1>1, GraphGrows
<1> QED
  BY <1>2 DEF SlopeIInv

(* The derivative of the last one. *)
LEMMA SlopeDerives ==
    ASSUME NEW R, ops \in Seq(Operation(R)), Graph(ops), Len(ops) > 0, NEW new,
           new = ChosenNodes(Len(ops))[Len(ops)][Len(ops)],
           ops' = ops \o new, roots' = <<Len(ops), Len(ops) + Len(new)>>, variable' = variable
    PROVE  SlopeIInv(R)'
<1>1. PICK root \in Nat : root = Len(ops) /\ root \in 1 .. root
  BY DEF Graph
<1>2. PICK o : o = ops \o new /\ o = ops'
  OBVIOUS
<1>3. PICK last : last = root + Len(new)
  OBVIOUS
<1>4. /\ o \in Seq(Operation(R)) /\ Graph(o)
      /\ root \in 1 .. Len(o) /\ last \in 1 .. Len(o)
      /\ RightSlope(o, R, root, last)
  BY <1>1, <1>2, <1>3, DerivativeMeans
<1>5. RightSlope(o, R, root, last)'
  BY <1>4, RightStays
<1>6. roots' = <<root, last>>
  BY <1>1, <1>3
<1> QED
  BY ONLY <1>2, <1>4, <1>5, <1>6 DEF SlopeIInv

LEMMA SlopeStays ==
    ASSUME NEW R, SlopeIInv(R), UNCHANGED <<ops, roots, variable>>
    PROVE  SlopeIInv(R)'
<1>1. PICK o \in Seq(Operation(R)) :
        /\ o = ops /\ Graph(o)
        /\ \/ roots = <<>>
           \/ \E root, last \in 1 .. Len(o) :
                 roots = <<root, last>> /\ RightSlope(o, R, root, last)
  BY DEF SlopeIInv
<1>2. CASE roots = <<>>
  BY <1>1, <1>2 DEF SlopeIInv
<1>3. ASSUME NEW root \in 1 .. Len(o), NEW last \in 1 .. Len(o), roots = <<root, last>>,
             RightSlope(o, R, root, last)
      PROVE  SlopeIInv(R)'
  <2>1. RightSlope(o, R, root, last)'
    BY <1>3, RightStays
  <2>2. roots' = <<root, last>> /\ o = ops'
    BY <1>1, <1>3
  <2> QED
    BY ONLY <1>1, <2>1, <2>2, root \in 1 .. Len(o), last \in 1 .. Len(o),
            o \in Seq(Operation(R)) DEF SlopeIInv
<1> QED
  BY <1>1, <1>2, <1>3

(* What the invariant says of the roots. *)
LEMMA SlopeKept ==
    ASSUME NEW R, SlopeIInv(R), roots # <<>>, NEW w \in [R -> Used!Number],
           Meaning(ops, w)[roots[1]] # Junk
    PROVE  /\ roots[1] \in 1 .. Len(ops) /\ roots[2] \in 1 .. Len(ops)
           /\ Meaning(ops, w)[roots[2]] = ChosenSlopes(ops, Meaning(ops, w))[roots[1]]
<1>1. PICK o \in Seq(Operation(R)) :
        /\ o = ops
        /\ \E root, last \in 1 .. Len(o) : roots = <<root, last>> /\ RightSlope(o, R, root, last)
  BY DEF SlopeIInv
<1>2. PICK root \in 1 .. Len(o), last \in 1 .. Len(o) :
        roots = <<root, last>> /\ RightSlope(o, R, root, last)
  BY <1>1
<1>3. roots[1] = root /\ roots[2] = last
  BY <1>2
<1>4. PICK u : u = Meaning(o, w)
  OBVIOUS
<1>5. u[root] # Junk => u[last] = ChosenSlopes(o, u)[root]
  BY <1>2, <1>4 DEF RightSlope
<1> QED
  BY <1>1, <1>2, <1>3, <1>4, <1>5

LEMMA MadeNext ==
    ASSUME SlopeIInv({x, y}), Made!Build
    PROVE  SlopeIInv({x, y})'
<1>1. ops \in Seq(Operation({x, y})) /\ Graph(ops)
  BY DEF SlopeIInv
<1>2. roots = <<>>
  BY DEF Made!Build, Made!make_op_input, Made!make_op_pairwise, Made!derivative, Made!Building
<1>3. CASE Made!make_op_input
  <2>1. PICK op \in {Made!placeholder(r) : r \in {x, y}} \cup {Made!const(1)} :
           Made!Allocate(<<op>>)
    BY <1>3 DEF Made!make_op_input
  <2>2. op \in {Used!placeholder(r) : r \in {x, y}} \cup {Used!const(1)}
    BY SameOperations
  <2>3. op \in Operation({x, y}) /\ IsInput(op)
    BY <2>2, InputsMade
  <2>4. ops' = ops \o <<op>> /\ roots' = <<>>
    BY <1>2, <1>3, <2>1 DEF Made!make_op_input, Made!Allocate
  <2> QED
    BY <1>1, <2>3, <2>4, SlopeGrows
<1>4. CASE Made!make_op_pairwise
  <2>1. PICK kind \in {"add", "sub", "mul", "div"}, p \in 1 .. Len(ops), q \in 1 .. Len(ops) :
           Made!Allocate(<<Made!pairwise(kind, p, q)>>)
    BY <1>4 DEF Made!make_op_pairwise
  <2>2. PICK op : op = Made!pairwise(kind, p, q) /\ op = Used!pairwise(kind, p, q)
    BY SameOperations
  <2>3. op \in Operation({x, y}) /\ IsPair(op, Len(ops))
    BY <1>1, <2>2, PairMade DEF Graph
  <2>4. ops' = ops \o <<op>> /\ roots' = <<>>
    BY <1>2, <1>4, <2>1, <2>2 DEF Made!make_op_pairwise, Made!Allocate
  <2> QED
    BY <1>1, <2>3, <2>4, SlopeGrows
<1>5. CASE Made!derivative
  <2>1. PICK new : new = Made!Derivative(Len(ops), Len(ops))
    OBVIOUS
  <2>2. new = ChosenNodes(Len(ops))[Len(ops)][Len(ops)]
    BY <2>1, MadeDerivativeIs
  <2>3. /\ Len(ops) > 0 /\ ops' = ops \o new /\ roots' = <<Len(ops), Len(ops) + Len(new)>>
        /\ variable' = variable
    BY <1>5, <2>1 DEF Made!derivative, Made!Allocate
  <2> QED
    BY <1>1, <2>2, <2>3, SlopeDerives
<1> QED
  BY <1>3, <1>4, <1>5 DEF Made!Build

LEMMA MadeKept == SlopeIInv({x, y}) => Made!DerivativeIsRight
<1> SUFFICES ASSUME SlopeIInv({x, y}), roots # <<>>, NEW w \in [{x, y} -> Made!Number],
                    Made!True(roots[1], w) # Junk
             PROVE  Made!True(roots[2], w) = Made!Slope(w)[roots[1]]
  BY DEF Made!DerivativeIsRight
<1>1. w \in [{x, y} -> Used!Number]
  BY DEF Made!Number, Used!Number
<1>2. PICK u : u = Meaning(ops, w) /\ u = Made!Values(1 .. Len(ops), w)
  BY MadeMeaning DEF SlopeIInv
<1>3. \A n : Made!True(n, w) = u[n]
  BY <1>2 DEF Made!True
<1>4. Made!Slope(w) = ChosenSlopes(ops, u)
  BY <1>2, SlopeIs
<1> QED
  BY <1>1, <1>2, <1>3, <1>4, SlopeKept

LEMMA UsedNext ==
    ASSUME SlopeIInv(References), Used!Next
    PROVE  SlopeIInv(References)'
<1>1. ops \in Seq(Operation(References)) /\ Graph(ops)
  BY DEF SlopeIInv
<1>2. CASE Used!make_op_input
  <2>1. PICK op \in {Used!placeholder(r) : r \in References} \cup {Used!const(1)} :
           Used!Allocate(<<op>>)
    BY <1>2 DEF Used!make_op_input
  <2>2. op \in Operation(References) /\ IsInput(op)
    BY InputsMade
  <2>3. ops' = ops \o <<op>> /\ roots' = <<>>
    BY <1>2, <2>1 DEF Used!make_op_input, Used!Building, Used!Allocate
  <2> QED
    BY <1>1, <2>2, <2>3, SlopeGrows
<1>3. CASE Used!make_op_pairwise
  <2>1. PICK kind \in Kinds, p \in 1 .. Len(ops), q \in 1 .. Len(ops) :
           Used!Allocate(<<Used!pairwise(kind, p, q)>>)
    BY <1>3 DEF Used!make_op_pairwise
  <2>2. kind \in {"add", "sub", "mul", "div"}
    BY BoundsAssumption
  <2>3. PICK op : op = Used!pairwise(kind, p, q)
    OBVIOUS
  <2>4. op \in Operation(References) /\ IsPair(op, Len(ops))
    BY <1>1, <2>2, <2>3, PairMade DEF Graph
  <2>5. ops' = ops \o <<op>> /\ roots' = <<>>
    BY <1>3, <2>1, <2>3 DEF Used!make_op_pairwise, Used!Building, Used!Allocate
  <2> QED
    BY <1>1, <2>4, <2>5, SlopeGrows
<1>4. CASE Used!derivative
  <2>1. PICK new : new = Used!Derivative(Len(ops), Len(ops))
    OBVIOUS
  <2>2. new = ChosenNodes(Len(ops))[Len(ops)][Len(ops)]
    BY <2>1, DerivativeIs
  <2>3. /\ Len(ops) = MaxInputs + MaxPairwise
        /\ ops' = ops \o new /\ roots' = <<Len(ops), Len(ops) + Len(new)>>
        /\ variable' = variable
    BY <1>4, <2>1 DEF Used!derivative, Used!Allocate
  <2>4. Len(ops) > 0
    BY <2>3, BoundsAssumption
  <2> QED
    BY <1>1, <2>2, <2>3, <2>4, SlopeDerives
<1>5. CASE Used!Use
  <2>1. UNCHANGED <<ops, roots, variable>>
    BY <1>5 DEF Used!Use, Used!SetValue, Used!reset_graph, Used!compute_graph
  <2> QED
    BY <2>1, SlopeStays
<1> QED
  BY <1>2, <1>3, <1>4, <1>5 DEF Used!Next, Used!Build

LEMMA UsedKept == SlopeIInv(References) => Used!DerivativeIsRight
<1> SUFFICES ASSUME SlopeIInv(References), roots # <<>>, NEW w \in [References -> Used!Number],
                    Used!True(roots[1], w) # Junk
             PROVE  Used!True(roots[2], w) = Used!Slope(w)[roots[1]]
  BY DEF Used!DerivativeIsRight
<1>1. PICK u : u = Meaning(ops, w) /\ u = Used!Values(1 .. Len(ops), w)
  BY UsedMeaning DEF SlopeIInv
<1>2. \A n : Used!True(n, w) = u[n]
  BY <1>1 DEF Used!True
<1>3. Used!Slope(w) = ChosenSlopes(ops, u)
  BY <1>1, SlopeIs
<1> QED
  BY <1>1, <1>2, <1>3, SlopeKept

(* While graphs are made or used, a step of the whole is one of theirs. *)
LEMMA SlopeSteps ==
    ASSUME [AnyNext]_allVars
    PROVE  /\ program' = program
           /\ program = "nn_made" => (Made!Build \/ UNCHANGED <<ops, roots, variable>>)
           /\ program = "nn_used" => (Used!Next \/ UNCHANGED <<ops, roots, variable>>)
<1>1. CASE AnyNext
  BY <1>1 DEF AnyNext, Only
<1>2. CASE UNCHANGED allVars
  BY <1>2 DEF allVars, graphVars
<1> QED
  BY <1>1, <1>2

(* The graph that vtable->derivative makes for the last operation stands   *)
(* for its derivative by the chosen variable, at every point where that    *)
(* operation has a value, whichever nodes the two share: for the graphs of *)
(* two pairwise operations over two inputs that the run checks, and for    *)
(* those in use, of any number of inputs and operations over any           *)
(* variables, modulo any prime.                                            *)
THEOREM DerivativesAreRight ==
    AnySpec => [](DerivativeIsRight /\ (program = "nn_used" => Used!DerivativeIsRight))
<1> DEFINE IInv == /\ program = "nn_made" => SlopeIInv({x, y})
                   /\ program = "nn_used" => SlopeIInv(References)
           UsedRight == program = "nn_used" => Used!DerivativeIsRight
<1>1. AnyInit => IInv
  BY SlopeInit DEF AnyInit, Made!Init, Used!Init
<1>2. IInv /\ [AnyNext]_allVars => IInv'
  BY SlopeSteps, MadeNext, UsedNext, SlopeStays
<1>3. IInv => DerivativeIsRight /\ UsedRight
  BY MadeKept, UsedKept DEF DerivativeIsRight
<1> QED
  BY <1>1, <1>2, <1>3, PTL DEF AnySpec

-------------------------------------------------------------------------------
(***************************************************************************)
(* The numbers of mmap/sample4.                                            *)
(***************************************************************************)

LEMMA Products ==
    ASSUME NEW g \in Nat, NEW d \in Nat, NEW e \in Nat, d <= e
    PROVE  g * d \in Nat /\ g * d <= g * e /\ g * (d + 1) = g * d + g
<1>1. PICK f \in Nat : e = d + f
  BY e - d \in Nat
<1>2. g * e = g * d + g * f
  BY <1>1
<1>3. g * f \in Nat /\ g * d \in Nat
  OBVIOUS
<1> QED
  BY <1>2, <1>3

LEMMA Quotients ==
    ASSUME NEW g \in Nat, g > 0, NEW m \in Nat
    PROVE  m \div g \in Nat /\ g * (m \div g) <= m
  OBVIOUS

(* The last byte of a number that is no longer than needed has room.       *)
LEMMA Room ==
    ASSUME NEW d \in Nat, d < Leb!Longest
    PROVE  Group * d \in Nat /\ Group * d < Width /\ (Group * d) % Width = Group * d
<1>1. Group \in Nat /\ Group > 0 /\ Width \in Nat /\ Width > 0
  BY BoundsAssumption
<1>2. PICK most : most = Leb!Longest
  OBVIOUS
<1>3. most \in Nat /\ Group * most <= Width + Group - 1
  <2>1. Width + Group - 1 \in Nat
    BY <1>1
  <2> QED
    BY <1>1, <1>2, <2>1, Quotients DEF Leb!Longest
<1>4. d + 1 \in Nat /\ d + 1 <= most
  BY <1>2, <1>3
<1>5. Group * (d + 1) <= Group * most /\ Group * (d + 1) = Group * d + Group /\ Group * d \in Nat
  BY <1>1, <1>3, <1>4, Products
<1>6. PICK s \in Nat : s = Group * d
  BY <1>5
<1>7. s < Width
  BY <1>1, <1>3, <1>5, <1>6
<1>8. s % Width = s
  BY <1>1, <1>7
<1> QED
  BY <1>6, <1>7, <1>8

(* The bits of one more byte come from a shift.                            *)
LEMMA LowGrows ==
    ASSUME NEW m \in Nat, NEW n \in Nat, m <= n, n - m < Leb!Longest,
           file[n].low \subseteq 0 .. Group - 1
    PROVE  Leb!Low(m, n) = Leb!Low(m, n - 1) \cup Leb!ShiftLeft(file[n].low, Group * (n - m))
<1>1. PICK d \in Nat : d = n - m
  OBVIOUS
<1>2. PICK s \in Nat : s = Group * d /\ s % Width = s
  BY <1>1, Room
<1>3. Group \in Nat /\ Width \in Nat
  BY BoundsAssumption
<1>4. Leb!ShiftLeft(file[n].low, Group * (n - m)) = {p \in Leb!Bits : p - s \in file[n].low}
  BY <1>1, <1>2 DEF Leb!ShiftLeft
<1>5. \A p \in Leb!Bits : (p - s \in file[n].low) <=> (\E e \in file[n].low : p = s + e)
  <2> TAKE p \in Leb!Bits
  <2>1. p \in Nat
    BY <1>3 DEF Leb!Bits
  <2>2. \A e \in file[n].low : e \in Nat
    BY <1>3
  <2>3. ASSUME p - s \in file[n].low PROVE \E e \in file[n].low : p = s + e
    <3>1. p = s + (p - s)
      BY <2>1
    <3> QED
      BY <2>3, <3>1
  <2>4. ASSUME NEW e \in file[n].low, p = s + e PROVE p - s \in file[n].low
    <3>1. p - s = e
      BY <2>1, <2>2, <2>4
    <3> QED
      BY <3>1
  <2> QED
    BY <2>3, <2>4
<1>6. m .. n = (m .. n - 1) \cup {n}
  OBVIOUS
<1> DEFINE Has(p, j) == \E e \in file[j].low : p = Group * (j - m) + e
<1>7. \A p : Has(p, n) <=> (\E e \in file[n].low : p = s + e)
  BY <1>1, <1>2
<1>8. /\ Leb!Low(m, n) = {p \in Leb!Bits : \E j \in m .. n : Has(p, j)}
      /\ Leb!Low(m, n - 1) = {p \in Leb!Bits : \E j \in m .. n - 1 : Has(p, j)}
  BY DEF Leb!Low
<1> HIDE DEF Has
<1>9. \A p : (\E j \in m .. n : Has(p, j)) <=> (Has(p, n) \/ \E j \in m .. n - 1 : Has(p, j))
  BY <1>6
<1>10. Leb!ShiftLeft(file[n].low, Group * (n - m)) = {p \in Leb!Bits : Has(p, n)}
  BY <1>4, <1>5, <1>7
<1> QED
  BY ONLY <1>8, <1>9, <1>10

(* And those of the sign from another, if they have room.                  *)
LEMMA SignGrows ==
    ASSUME NEW m \in Nat, NEW n \in Nat, m <= n
    PROVE  Leb!Extended(file[n], Group * (n + 1 - m), Leb!Low(m, n)) = Leb!Meaning(m, n)
<1>1. Group \in Nat /\ Width \in Nat /\ n + 1 - m \in Nat /\ n - m + 1 = n + 1 - m
  BY BoundsAssumption
<1>2. PICK s \in Nat : s = Group * (n + 1 - m)
  BY <1>1, Products
<1>3. Leb!Meaning(m, n)
        = Leb!Low(m, n) \cup {p \in Leb!Bits : Group - 1 \in file[n].low /\ p >= s}
  BY <1>1, <1>2 DEF Leb!Meaning
<1>4. CASE s < Width /\ Group - 1 \in file[n].low
  <2>1. s % Width = s
    BY <1>1, <1>4
  <2>2. Leb!ShiftLeft(Leb!Bits, s) = {p \in Leb!Bits : p - s \in Leb!Bits}
    BY <2>1 DEF Leb!ShiftLeft
  <2>3. \A p \in Leb!Bits : (p - s \in Leb!Bits) = (p >= s)
    BY <1>1 DEF Leb!Bits
  <2> QED
    BY <1>2, <1>3, <1>4, <2>2, <2>3 DEF Leb!Extended
<1>5. CASE ~(s < Width)
  <2>1. {p \in Leb!Bits : Group - 1 \in file[n].low /\ p >= s} = {}
    BY <1>1, <1>5 DEF Leb!Bits
  <2> QED
    BY <1>2, <1>3, <1>5, <2>1 DEF Leb!Extended
<1>6. CASE Group - 1 \notin file[n].low
  BY <1>2, <1>3, <1>6 DEF Leb!Extended
<1> QED
  BY <1>4, <1>5, <1>6

LEMMA LebCountsAlike == \A S : Leb!Cardinality(S) = Cardinality(S)
  BY DEF Leb!Cardinality, Cardinality

(* The ends of numbers, and how many there are. *)
LEMMA EndsCount ==
    ASSUME NEW n \in Nat
    PROVE  /\ Leb!Cardinality(Leb!EndsUpTo(0)) = 0
           /\ Leb!Cardinality(Leb!EndsUpTo(n)) \in Nat
           /\ file[n + 1].more => Leb!EndsUpTo(n + 1) = Leb!EndsUpTo(n)
           /\ ~file[n + 1].more =>
                Leb!Cardinality(Leb!EndsUpTo(n + 1)) = Leb!Cardinality(Leb!EndsUpTo(n)) + 1
           /\ \A m \in 1 .. n : ~file[m].more =>
                Leb!Cardinality(Leb!EndsUpTo(m)) \in 1 .. Leb!Cardinality(Leb!EndsUpTo(n))
<1>1. \A m \in Nat : IsFiniteSet(Leb!EndsUpTo(m)) /\ Cardinality(Leb!EndsUpTo(m)) \in Nat
  <2> TAKE m \in Nat
  <2>1. IsFiniteSet(1 .. m) /\ Leb!EndsUpTo(m) \subseteq 1 .. m
    BY FS_Interval DEF Leb!EndsUpTo
  <2> QED
    BY <2>1, FS_Subset, FS_CardinalityType
<1>2. Leb!EndsUpTo(0) = {}
  BY DEF Leb!EndsUpTo
<1>3. Cardinality(Leb!EndsUpTo(0)) = 0
  BY <1>2, FS_EmptySet
<1>4. file[n + 1].more => Leb!EndsUpTo(n + 1) = Leb!EndsUpTo(n)
  <2>1. 1 .. n + 1 = (1 .. n) \cup {n + 1}
    OBVIOUS
  <2> QED
    BY <2>1 DEF Leb!EndsUpTo
<1>5. ASSUME ~file[n + 1].more
      PROVE  Cardinality(Leb!EndsUpTo(n + 1)) = Cardinality(Leb!EndsUpTo(n)) + 1
  <2>1. 1 .. n + 1 = (1 .. n) \cup {n + 1} /\ n + 1 \notin 1 .. n
    OBVIOUS
  <2>2. /\ Leb!EndsUpTo(n + 1) = Leb!EndsUpTo(n) \cup {n + 1}
        /\ n + 1 \notin Leb!EndsUpTo(n)
    BY <1>5, <2>1 DEF Leb!EndsUpTo
  <2> QED
    BY <1>1, <2>2, FS_AddElement
<1>6. ASSUME NEW m \in 1 .. n, ~file[m].more
      PROVE  Cardinality(Leb!EndsUpTo(m)) \in 1 .. Cardinality(Leb!EndsUpTo(n))
  <2>1. m \in Nat /\ m \in Leb!EndsUpTo(m) /\ Leb!EndsUpTo(m) \subseteq Leb!EndsUpTo(n)
    BY <1>6 DEF Leb!EndsUpTo
  <2>2. Cardinality(Leb!EndsUpTo(m)) <= Cardinality(Leb!EndsUpTo(n))
    BY <1>1, <2>1, FS_Subset
  <2>3. Cardinality(Leb!EndsUpTo(m)) # 0
    BY <1>1, <2>1, FS_EmptySet
  <2>4. Cardinality(Leb!EndsUpTo(m)) \in Nat /\ Cardinality(Leb!EndsUpTo(n)) \in Nat
    BY <1>1, <2>1
  <2> QED
    BY <2>2, <2>3, <2>4
<1> QED
  BY <1>1, <1>3, <1>4, <1>5, <1>6, LebCountsAlike

(* What mmap will map, where main is. *)
Sized == block_size = Leb!Size \/ mappable < Leb!Size
Maps ==
    /\ leb_at \in {"measure", "next", "block", "end", "undefined"}
    /\ leb_at = "measure" => sz = 0 /\ leb_i = 0 /\ block_size <= mappable
    /\ leb_at = "next" =>
          \/ sz = 0 /\ leb_i = 0 /\ block_size <= mappable /\ Sized
          \/ sz = Leb!Size /\ leb_i = Leb!Size /\ Leb!Size <= mappable
    /\ leb_at = "block" =>
          sz = 0 /\ leb_i <= block_size /\ block_size > 0 /\ block_size <= mappable /\ Sized
    /\ leb_at = "end" => leb_i = Leb!Size /\ Leb!Size <= mappable
    /\ leb_at = "undefined" => mappable < Leb!Size

(* The number put_char is in the middle of begins at byte m.               *)
BeginsAt(m) ==
    /\ m = 1 \/ ~file[m - 1].more
    /\ \A j \in m .. leb_i : file[j].more
    /\ Leb!Begun(parser).shift = Group * (leb_i + 1 - m)
    /\ leb_i + 1 - m <= Leb!Longest => Leb!Begun(parser).result = Leb!Low(m, leb_i)
Parses == \E m \in 1 .. leb_i + 1 : BeginsAt(m)

LebIInv ==
    /\ file \in Seq(Leb!Bytes) /\ mappable \in Nat
    /\ block_size \in 0 .. Leb!Size /\ leb_i \in 0 .. Leb!Size
    /\ Leb!Begun(parser).result \subseteq Leb!Bits /\ printed \in Seq(SUBSET Leb!Bits)
    /\ Maps /\ Parses /\ Leb!PrintsMeaning

LEMMA NothingRead == \A n \in Nat : Leb!Low(n + 1, n) = {}
<1> TAKE n \in Nat
<1>1. n + 1 .. n = {}
  OBVIOUS
<1> QED
  BY <1>1 DEF Leb!Low

LEMMA LebInit == Leb!Init => LebIInv
<1> SUFFICES ASSUME Leb!Init PROVE LebIInv
  OBVIOUS
<1> USE BoundsAssumption
<1>1. file \in Seq(Leb!Bytes) /\ mappable \in Nat /\ Leb!Size \in Nat
  <2>1. PICK n \in 0 .. MaxBytes : file \in [1 .. n -> Leb!Bytes]
    BY DEF Leb!Init
  <2>2. n \in Nat
    BY <2>1
  <2>3. file \in Seq(Leb!Bytes)
    BY <2>1, <2>2, SeqDef
  <2> QED
    BY <2>3 DEF Leb!Init, Leb!Size
<1>2. /\ block_size = 0 /\ sz = 0 /\ leb_i = 0 /\ leb_at = "measure"
      /\ printed = <<>> /\ parser = Leb!Fresh
  BY DEF Leb!Init
<1>3. Leb!Begun(parser).result = {} /\ Leb!Begun(parser).shift = 0
  BY <1>2 DEF Leb!Begun, Leb!Fresh
<1>4. Maps
  BY <1>1, <1>2 DEF Maps, Sized
<1>5. Parses
  <2>1. BeginsAt(1)
    <3>1. Group * (leb_i + 1 - 1) = 0
      BY <1>2
    <3>2. Leb!Low(1, leb_i) = {}
      BY <1>2, NothingRead
    <3>3. 1 .. leb_i = {}
      BY <1>2
    <3> QED
      BY <1>3, <3>1, <3>2, <3>3 DEF BeginsAt
  <2> QED
    BY <1>2, <2>1 DEF Parses
<1>6. Leb!PrintsMeaning
  <2>1. Leb!Cardinality(Leb!EndsUpTo(leb_i)) = 0
    BY <1>2, EndsCount
  <2>2. 1 .. leb_i = {} /\ Len(printed) = 0
    BY <1>2
  <2> QED
    BY <2>1, <2>2 DEF Leb!PrintsMeaning
<1> QED
  BY <1>1, <1>2, <1>3, <1>4, <1>5, <1>6 DEF LebIInv

(* The numbers that were printed stand when one more byte is read.         *)
LEMMA OneStart ==
    ASSUME NEW m \in Nat, NEW n \in Nat, NEW r \in 1 .. n, m \in 1 .. n,
           m = 1 \/ ~file[m - 1].more, \A j \in m .. n - 1 : file[j].more,
           Leb!IsNumber(r, n)
    PROVE  r = m
<1>1. r = 1 \/ (r - 1 \in 1 .. n /\ ~file[r - 1].more)
  BY DEF Leb!IsNumber, Leb!EndsUpTo
<1>2. \A j \in 1 .. n : ~file[j].more /\ r <= j => j = n
  BY DEF Leb!IsNumber, Leb!EndsUpTo
<1>3. ~(r < m)
  <2> SUFFICES ASSUME r < m PROVE FALSE
    OBVIOUS
  <2>1. m - 1 \in 1 .. n /\ ~file[m - 1].more /\ r <= m - 1
    OBVIOUS
  <2>2. m - 1 = n
    BY <1>2, <2>1
  <2> QED
    BY <2>2
<1>4. ~(m < r)
  <2> SUFFICES ASSUME m < r PROVE FALSE
    OBVIOUS
  <2>1. r - 1 \in m .. n - 1 /\ ~file[r - 1].more
    BY <1>1
  <2> QED
    BY <2>1
<1> QED
  BY <1>3, <1>4

(* put_char leaves the number it is in the middle of, or the whole one.    *)
LEMMA ReadByteKeeps == LebIInv /\ Leb!ReadByte => LebIInv'
<1> SUFFICES ASSUME LebIInv, Leb!ReadByte PROVE LebIInv'
  OBVIOUS
<1>1. /\ Group \in Nat /\ Group > 0 /\ Width \in Nat
      /\ file \in Seq(Leb!Bytes) /\ mappable \in Nat /\ Leb!Size \in Nat
      /\ block_size \in 0 .. Leb!Size /\ leb_i \in 0 .. Leb!Size
      /\ printed \in Seq(SUBSET Leb!Bits)
  <2>1. file \in Seq(Leb!Bytes)
    BY DEF LebIInv
  <2> QED
    BY <2>1, BoundsAssumption DEF LebIInv, Leb!Size
<1>2. /\ leb_at = "block" /\ leb_i < Leb!Size /\ leb_i < block_size
      /\ leb_i' = leb_i + 1
      /\ UNCHANGED <<file, mappable, leb_at, block_size, sz>>
  BY DEF Leb!ReadByte
<1>3. sz = 0
  BY <1>2 DEF LebIInv, Maps
<1>4. PICK n \in Nat : n = leb_i + 1
  BY <1>1
<1>5. n \in 1 .. Leb!Size /\ leb_i = n - 1 /\ leb_i' = n /\ leb_i \in Nat
  BY <1>1, <1>2, <1>4
<1>6. PICK byte : byte = file[n]
  OBVIOUS
<1>7. byte.more \in BOOLEAN /\ byte.low \subseteq 0 .. Group - 1
  <2>1. byte \in Leb!Bytes
    BY <1>1, <1>5, <1>6, ElementOfSeq DEF Leb!Size
  <2> QED
    BY <2>1 DEF Leb!Bytes
<1>8. PICK m \in 1 .. leb_i + 1 : BeginsAt(m)
  BY DEF LebIInv, Parses
<1>9. PICK d \in Nat : d = n - m /\ leb_i + 1 - m = d /\ m + d = n
  BY <1>4, <1>5, <1>8
<1>10. PICK begun : begun = Leb!Begun(parser)
  OBVIOUS
<1>11. /\ begun.shift = Group * d
       /\ d <= Leb!Longest => begun.result = Leb!Low(m, n - 1)
       /\ begun.result \subseteq Leb!Bits
       /\ m = 1 \/ ~file[m - 1].more
       /\ \A j \in m .. n - 1 : file[j].more
  BY <1>5, <1>8, <1>9, <1>10 DEF BeginsAt, LebIInv
<1> DEFINE all == begun.result \cup Leb!ShiftLeft(byte.low, begun.shift)
<1> DEFINE extended == Leb!Extended(byte, begun.shift + Group, all)
<1>12. /\ parser' = IF byte.more
                    THEN [result |-> all, shift |-> begun.shift + Group, state |-> "partial"]
                    ELSE [result |-> extended, shift |-> begun.shift + Group,
                          state |-> "finished"]
       /\ printed' = IF parser'.state = "finished" THEN Append(printed, parser'.result)
                     ELSE printed
  <2>1. sz + leb_i + 1 = n
    BY <1>3, <1>5
  <2>2. /\ parser' = Leb!put_char(parser, byte)
        /\ printed' = IF parser'.state = "finished" THEN Append(printed, parser'.result)
                      ELSE printed
    BY <1>6, <2>1 DEF Leb!ReadByte
  <2>3. Leb!put_char(parser, byte)
          = IF byte.more
            THEN [result |-> all, shift |-> begun.shift + Group, state |-> "partial"]
            ELSE [result |-> extended, shift |-> begun.shift + Group, state |-> "finished"]
    BY <1>10 DEF Leb!put_char
  <2> QED
    BY <2>2, <2>3
<1>13. all \subseteq Leb!Bits /\ extended \subseteq Leb!Bits
  BY <1>11 DEF Leb!ShiftLeft, Leb!Extended
<1>14. d < Leb!Longest => all = Leb!Low(m, n)
  <2> SUFFICES ASSUME d < Leb!Longest PROVE all = Leb!Low(m, n)
    OBVIOUS
  <2>1. d <= Leb!Longest
    <3>1. Leb!Longest \in Int
      BY <1>1 DEF Leb!Longest
    <3> QED
      BY <3>1
  <2>2. m \in Nat /\ m <= n
    BY <1>5, <1>8
  <2>3. Leb!Low(m, n) = Leb!Low(m, n - 1) \cup Leb!ShiftLeft(byte.low, Group * d)
    BY <1>6, <1>7, <1>9, <2>2, LowGrows
  <2> QED
    BY <1>11, <2>1, <2>3
<1>15. begun.shift + Group = Group * (d + 1) /\ d + 1 = n + 1 - m
  <2>1. d \in Nat /\ d <= d
    BY <1>9
  <2>2. Group * (d + 1) = Group * d + Group
    BY ONLY <1>1, <2>1, Products
  <2>3. d + 1 = n + 1 - m
    BY ONLY <1>4, <1>8, <1>9, <1>1, n \in Nat, d \in Nat, m \in 1 .. leb_i + 1
  <2> QED
    BY <1>11, <2>2, <2>3
<1>16. d < Leb!Longest => extended = Leb!Meaning(m, n)
  <2>1. m \in Nat /\ m <= n
    BY <1>5, <1>8
  <2> QED
    BY <1>6, <1>14, <1>15, <2>1, SignGrows
<1> HIDE DEF all, extended
<1>17. byte.more => /\ parser'.result = all /\ parser'.shift = Group * (d + 1)
                    /\ parser'.state = "partial" /\ printed' = printed
  BY <1>12, <1>15
<1>18. ~byte.more => /\ parser'.result = extended /\ parser'.state = "finished"
                     /\ printed' = Append(printed, extended)
  BY <1>12
<1>19. /\ byte.more => Leb!Begun(parser') = parser'
       /\ ~byte.more => Leb!Begun(parser') = Leb!Fresh
  BY <1>17, <1>18 DEF Leb!Begun
<1>20. Leb!Begun(parser').result \subseteq Leb!Bits
  BY <1>13, <1>17, <1>19 DEF Leb!Fresh
<1>21. printed' \in Seq(SUBSET Leb!Bits)
  <2>1. printed \in Seq(SUBSET Leb!Bits) /\ extended \in SUBSET Leb!Bits
    BY <1>1, <1>13
  <2>2. Append(printed, extended) \in Seq(SUBSET Leb!Bits)
    BY ONLY <2>1, AppendProperties
  <2> QED
    BY ONLY <1>17, <1>18, <2>1, <2>2
<1>22. Maps'
  <2>1. /\ sz = 0 /\ leb_i <= block_size /\ block_size > 0 /\ block_size <= mappable
        /\ Sized
    BY <1>2 DEF LebIInv, Maps
  <2>2. Sized'
    BY <1>2, <2>1 DEF Sized, Leb!Size
  <2>3. leb_i' <= block_size
    BY <1>1, <1>2
  <2> QED
    BY <1>2, <2>1, <2>2, <2>3 DEF Maps
<1>23. Parses'
  <2>1. CASE byte.more
    <3>1. \A j \in m .. n : file[j].more
      BY <1>5, <1>6, <1>8, <1>11, <2>1
    <3>2. n + 1 - m <= Leb!Longest => parser'.result = Leb!Low(m, n)
      <4>1. Leb!Longest \in Int
        BY <1>1 DEF Leb!Longest
      <4> QED
        BY <1>9, <1>14, <1>15, <1>17, <2>1, <4>1
    <3>3. Leb!Begun(parser').shift = Group * (n + 1 - m)
      BY <1>15, <1>17, <1>19, <2>1
    <3>4. BeginsAt(m)'
      BY <1>2, <1>5, <1>11, <1>19, <2>1, <3>1, <3>2, <3>3
      DEF BeginsAt, Leb!Low, Leb!Longest, Leb!Begun
    <3>5. m \in 1 .. n + 1
      BY <1>5, <1>8
    <3> QED
      BY <1>5, <3>4, <3>5 DEF Parses
  <2>2. CASE ~byte.more
    <3>1. Leb!Begun(parser').result = {} /\ Leb!Begun(parser').shift = 0
      BY <1>19, <2>2 DEF Leb!Fresh
    <3>2. /\ n + 1 .. n = {} /\ n + 1 - (n + 1) = 0 /\ Group * 0 = 0
          /\ n + 1 - 1 = n /\ n + 1 \in 1 .. n + 1
      BY <1>1
    <3>3. Leb!Low(n + 1, n) = {}
      BY NothingRead
    <3>4. BeginsAt(n + 1)'
      BY <1>2, <1>5, <1>6, <2>2, <3>1, <3>2, <3>3
      DEF BeginsAt, Leb!Low, Leb!Longest, Leb!Begun
    <3> QED
      BY <1>5, <3>2, <3>4 DEF Parses
  <2> QED
    BY <2>1, <2>2
<1>24. Leb!PrintsMeaning'
  <2> DEFINE Ends(r) == Leb!Cardinality(Leb!EndsUpTo(r))
  <2>1. /\ Len(printed) = Ends(n - 1)
        /\ \A r \in 1 .. n - 1 : \A q \in 1 .. r :
              Leb!IsNumber(q, r) /\ r - q < Leb!Longest
                => printed[Ends(r)] = Leb!Meaning(q, r)
    BY <1>5 DEF LebIInv, Leb!PrintsMeaning
  <2>2. n - 1 + 1 = n /\ n - 1 \in Nat
    BY <1>5
  <2>3. /\ Ends(n - 1) \in Nat
        /\ byte.more => Ends(n) = Ends(n - 1)
        /\ ~byte.more => Ends(n) = Ends(n - 1) + 1
        /\ \A r \in 1 .. n - 1 : ~file[r].more => Ends(r) \in 1 .. Ends(n - 1)
    BY <1>6, <2>2, EndsCount
  <2> HIDE DEF Ends
  <2>4. /\ ~byte.more => /\ Len(printed') = Len(printed) + 1
                         /\ \A q \in 1 .. Len(printed) : printed'[q] = printed[q]
                         /\ printed'[Len(printed) + 1] = extended
    BY <1>1, <1>18, AppendProperties
  <2>5. Len(printed') = Ends(n)
    BY <1>7, <1>17, <2>1, <2>3, <2>4
  <2>6. \A r, q : Leb!IsNumber(q, r) => ~file[r].more
    BY DEF Leb!IsNumber, Leb!EndsUpTo
  <2>7. ASSUME NEW r \in 1 .. n, NEW q \in 1 .. r, Leb!IsNumber(q, r), r - q < Leb!Longest
        PROVE  printed'[Ends(r)] = Leb!Meaning(q, r)
    <3>1. CASE r = n
      <4>1. ~byte.more
        BY <1>6, <2>6, <2>7, <3>1
      <4>2. q = m
        <5>1. m \in Nat /\ m \in 1 .. n
          BY <1>5, <1>8
        <5> QED
          BY <1>11, <2>7, <3>1, <5>1, OneStart
      <4>3. extended = Leb!Meaning(q, r)
        BY <1>9, <1>16, <2>7, <3>1, <4>2
      <4> QED
        BY <2>1, <2>3, <2>4, <3>1, <4>1, <4>3
    <3>2. CASE r # n
      <4>1. r \in 1 .. n - 1
        BY <1>5, <3>2
      <4>2. printed[Ends(r)] = Leb!Meaning(q, r)
        BY <2>1, <2>7, <4>1
      <4>3. Ends(r) \in 1 .. Len(printed)
        BY <2>1, <2>3, <2>6, <2>7, <4>1
      <4> QED
        BY <1>7, <1>17, <2>4, <4>2, <4>3
    <3> QED
      BY <3>1, <3>2
  <2>8. /\ Len(printed') = Leb!Cardinality(Leb!EndsUpTo(n))
        /\ \A r \in 1 .. n : \A q \in 1 .. r :
              Leb!IsNumber(q, r) /\ r - q < Leb!Longest
                => printed'[Leb!Cardinality(Leb!EndsUpTo(r))] = Leb!Meaning(q, r)
    BY <2>5, <2>7 DEF Ends
  <2> QED
    <3>1. /\ \A r : Leb!EndsUpTo(r)' = Leb!EndsUpTo(r)
          /\ \A q, r : Leb!IsNumber(q, r)' = Leb!IsNumber(q, r)
          /\ \A q, r : Leb!Meaning(q, r)' = Leb!Meaning(q, r)
      BY <1>2 DEF Leb!EndsUpTo, Leb!IsNumber, Leb!Meaning, Leb!Low
    <3> QED
      BY <1>2, <1>5, <2>8, <3>1 DEF Leb!PrintsMeaning
<1> QED
  BY <1>1, <1>2, <1>5, <1>20, <1>21, <1>22, <1>23, <1>24
  DEF LebIInv, Leb!Size, Leb!Begun

(* What put_char has read does not change when main measures and maps.     *)
LEMMA ReadingStays ==
    ASSUME LebIInv, Maps', UNCHANGED <<file, mappable, leb_i, parser, printed>>,
           block_size' \in 0 .. Leb!Size
    PROVE  LebIInv'
<1>1. \A m : BeginsAt(m)' = BeginsAt(m)
  BY DEF BeginsAt, Leb!Begun, Leb!Low
<1>2. Parses'
  BY <1>1 DEF LebIInv, Parses
<1>3. /\ \A r : Leb!EndsUpTo(r)' = Leb!EndsUpTo(r)
      /\ \A q, r : Leb!IsNumber(q, r)' = Leb!IsNumber(q, r)
      /\ \A q, r : Leb!Meaning(q, r)' = Leb!Meaning(q, r)
  BY DEF Leb!EndsUpTo, Leb!IsNumber, Leb!Meaning, Leb!Low
<1>4. Leb!PrintsMeaning'
  BY <1>3 DEF LebIInv, Leb!PrintsMeaning
<1> QED
  BY <1>2, <1>4 DEF LebIInv, Leb!Size, Leb!Begun

LEMMA LebNext == LebIInv /\ [Leb!Next]_(Leb!vars) => LebIInv'
<1> SUFFICES ASSUME LebIInv, [Leb!Next]_(Leb!vars) PROVE LebIInv'
  OBVIOUS
<1>1. /\ mappable \in Nat /\ Leb!Size \in Nat /\ PageSize \in Nat
      /\ block_size \in 0 .. Leb!Size /\ leb_i \in 0 .. Leb!Size /\ Maps
  <2>1. file \in Seq(Leb!Bytes)
    BY DEF LebIInv
  <2> QED
    BY <2>1, BoundsAssumption DEF LebIInv, Leb!Size
<1>2. file' = file => Leb!Size' = Leb!Size
  BY DEF Leb!Size
<1>3. CASE Leb!MeasureMore
  <2>1. Maps' /\ block_size' \in 0 .. Leb!Size
    BY <1>1, <1>2, <1>3 DEF Leb!MeasureMore, Leb!SmallerOf, Maps
  <2> QED
    BY <1>3, <2>1, ReadingStays DEF Leb!MeasureMore
<1>4. CASE Leb!MeasureEnds
  <2>1. Sized
    BY <1>1, <1>4 DEF Leb!MeasureEnds, Leb!SmallerOf, Sized
  <2>2. Maps'
    BY <1>1, <1>2, <1>4, <2>1 DEF Leb!MeasureEnds, Maps, Sized
  <2> QED
    BY <1>1, <1>4, <2>2, ReadingStays DEF Leb!MeasureEnds
<1>5. CASE Leb!MapBlock
  <2>1. sz = 0 /\ leb_i = 0 /\ block_size <= mappable /\ Sized /\ 0 < Leb!Size
    BY <1>1, <1>5 DEF Leb!MapBlock, Maps
  <2>2. block_size' = block_size /\ leb_i' = leb_i
    BY <1>1, <1>5, <2>1 DEF Leb!MapBlock, Leb!SmallerOf
  <2>3. Maps'
    BY <1>1, <1>2, <1>5, <2>1, <2>2 DEF Leb!MapBlock, Maps, Sized
  <2> QED
    BY <1>1, <1>5, <2>2, <2>3, ReadingStays DEF Leb!MapBlock
<1>6. CASE Leb!ReadByte
  BY <1>6, ReadByteKeeps
<1>7. CASE Leb!ReadBeyond
  <2>1. Maps'
    BY <1>1, <1>2, <1>7 DEF Leb!ReadBeyond, Maps, Sized
  <2> QED
    BY <1>1, <1>7, <2>1, ReadingStays DEF Leb!ReadBeyond
<1>8. CASE Leb!BlockEnds
  <2>1. Maps'
    BY <1>1, <1>2, <1>8 DEF Leb!BlockEnds, Maps, Sized
  <2> QED
    BY <1>1, <1>8, <2>1, ReadingStays DEF Leb!BlockEnds
<1>9. CASE Leb!End
  <2>1. Maps'
    BY <1>1, <1>2, <1>9 DEF Leb!End, Maps, Sized
  <2> QED
    BY <1>1, <1>9, <2>1, ReadingStays DEF Leb!End
<1>10. CASE UNCHANGED Leb!vars
  <2>1. Maps'
    BY <1>1, <1>2, <1>10 DEF Leb!vars, Maps, Sized
  <2> QED
    BY <1>1, <1>10, <2>1, ReadingStays DEF Leb!vars
<1> QED
  BY <1>3, <1>4, <1>5, <1>6, <1>7, <1>8, <1>9, <1>10 DEF Leb!Next

LEMMA LebKept == LebIInv => NumbersPrinted
  BY DEF LebIInv, Maps, NumbersPrinted, Leb!NumbersPrinted, Leb!ReadsAllOrStrays

(* Every number of a file that is no longer than a number needs is printed *)
(* as what its bytes stand for, in the order of the file, for files of any *)
(* length and content, groups and numbers of any width and pages of any    *)
(* size; and the program strays from its mapping just when the file cannot *)
(* be mapped at once.                                                      *)
THEOREM NumbersAreRead == AnySpec => []NumbersPrinted
<1>1. AnyInit => LebIInv
  BY LebInit DEF AnyInit
<1>2. LebIInv /\ [AnyNext]_allVars => LebIInv'
  BY EachProgramSteps, LebNext
<1> QED
  BY <1>1, <1>2, LebKept, PTL DEF AnySpec
=============================================================================
