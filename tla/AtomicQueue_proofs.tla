-------------------------- MODULE AtomicQueue_proofs --------------------------
(***************************************************************************)
(* Proofs about the one-to-one queue, for every buffer size, byte set and  *)
(* request bound: the inductive invariant IInv, the safety properties that *)
(* follow from it, and that the ring buffer implements BoundedFifo.        *)
(***************************************************************************)
EXTENDS AtomicQueue, SequenceTheorems, TLAPS

-------------------------------------------------------------------------------
(***************************************************************************)
(* Arithmetic of the ring.                                                 *)
(***************************************************************************)

(* memory_size never wraps below zero (the guard of atomic_queue_init). *)
LEMMA MemNat == MemorySize \in Nat
  BY BufferAssumption DEF MemorySize

(* The available_data of a dequeue is the distance between the offsets. *)
LEMMA AvailableIsUsed ==
  ASSUME MemorySize > 0, NEW w \in Cell, NEW r \in Cell
  PROVE  AvailableData(w, r) = Used(w, r)
  BY MemNat DEF AvailableData, Used, Cell

(* The free_space of an enqueue is all but one of the other cells. *)
LEMMA FreeIsUnused ==
  ASSUME MemorySize > 0, NEW w \in Cell, NEW r \in Cell
  PROVE  FreeSpace(r, w) = MemorySize - 1 - Used(w, r)
  BY MemNat DEF FreeSpace, Used, Cell

(* The distance between two cells is smaller than the ring. *)
LEMMA UsedRange ==
  ASSUME NEW w \in Cell, NEW r \in Cell
  PROVE  Used(w, r) \in 0 .. MemorySize - 1
  BY MemNat DEF Used, Cell

(* An offset that is advanced by less than the ring names a cell again. *)
LEMMA WrapCell ==
  ASSUME NEW o \in Cell, NEW n \in 0 .. MemorySize
  PROVE  Wrap(o + n) \in Cell
  BY MemNat DEF Wrap, Cell

(* A release store of write_offset adds its bytes to the distance ... *)
LEMMA UsedGrows ==
  ASSUME NEW w \in Cell, NEW r \in Cell, NEW n \in Nat,
         Used(w, r) + n < MemorySize
  PROVE  Used(Wrap(w + n), r) = Used(w, r) + n
  BY MemNat DEF Used, Wrap, Cell

(* ... and one of read_offset takes its bytes from it. *)
LEMMA UsedShrinks ==
  ASSUME NEW w \in Cell, NEW r \in Cell, NEW n \in 0 .. Used(w, r)
  PROVE  Used(w, Wrap(r + n)) = Used(w, r) - n
  BY MemNat DEF Used, Wrap, Cell

(* Counting on from an advanced offset is counting on from the offset. *)
LEMMA WrapSum ==
  ASSUME NEW o \in Cell, NEW m \in Nat, NEW n \in Nat, m + n < MemorySize
  PROVE  Wrap(Wrap(o + m) + n) = Wrap(o + m + n)
  BY MemNat DEF Wrap, Cell

(* The published bytes end where the producer writes on. *)
LEMMA WrapUsed ==
  ASSUME NEW w \in Cell, NEW r \in Cell
  PROVE  Wrap(r + Used(w, r)) = w
  BY MemNat DEF Wrap, Used, Cell

(* Different positions counted from one offset are different cells. *)
LEMMA WrapInjective ==
  ASSUME NEW o \in Cell, NEW m \in 0 .. MemorySize - 1, NEW n \in 0 .. MemorySize - 1,
         Wrap(o + m) = Wrap(o + n)
  PROVE  m = n
  BY MemNat DEF Wrap, Cell

(* Where there is a cell, every offset names one. *)
LEMMA OffsetIsCell ==
  ASSUME MemorySize > 0
  PROVE  Offset = Cell
  BY MemNat DEF Offset, Cell

(* A request is a sequence of at most MaxRequest bytes. *)
LEMMA RequestIsSeq ==
  ASSUME NEW data \in Request
  PROVE  data \in Seq(Byte) /\ Len(data) \in Nat
<1>1. PICK n \in 0 .. MaxRequest : data \in [1 .. n -> Byte]
  BY DEF Request
<1>2. n \in Nat
  BY RequestAssumption
<1> QED
  BY <1>1, <1>2

-------------------------------------------------------------------------------
(***************************************************************************)
(* The inductive invariant, action by action.                              *)
(***************************************************************************)

(* A running call means that there are cells. *)
LEMMA RunningHasCells ==
  ASSUME IInv, enq_pc # "idle" \/ deq_pc # "idle"
  PROVE  /\ MemorySize > 0
         /\ read_offset \in Cell /\ write_offset \in Cell
         /\ enq_w_off \in Cell /\ deq_r_off \in Cell
<1>1. MemorySize > 0
  BY MemNat DEF IInv, TypeOK, EnqueueInv, DequeueInv, Used, Offset
<1> QED
  BY <1>1, OffsetIsCell DEF IInv, TypeOK

(* The header atomic_queue_init writes satisfies the invariant. *)
LEMMA InitIInv == Init => IInv
<1> SUFFICES ASSUME Init PROVE IInv
  OBVIOUS
<1>1. TypeOK
  BY MemNat DEF Init, TypeOK, Offset
<1>2. EnqueueInv /\ DequeueInv
  BY DEF Init, EnqueueInv, DequeueInv
<1> QED
  BY <1>1, <1>2 DEF IInv

(* A call that returns at once disturbs nothing a running call relies on. *)
LEMMA ReturnKeepsIInv ==
  ASSUME IInv,
         \/ \E data \in Request, ret \in {0, -1} :
               enq_pc = "idle" /\ EnqueueReturn(data, ret)
         \/ \E size \in 0 .. MaxRequest, ret \in {0, -1} :
               deq_pc = "idle" /\ DequeueReturn(size, ret)
  PROVE  IInv'
<1>1. CASE \E data \in Request, ret \in {0, -1} :
              enq_pc = "idle" /\ EnqueueReturn(data, ret)
  <2>1. PICK data \in Request, ret \in {0, -1} :
            enq_pc = "idle" /\ EnqueueReturn(data, ret)
    BY <1>1
  <2>2. TypeOK'
    BY <2>1, RequestIsSeq DEF EnqueueReturn, deqVars, IInv, TypeOK
  <2>3. EnqueueInv' /\ DequeueInv'
    BY <2>1 DEF EnqueueReturn, deqVars, IInv, EnqueueInv, DequeueInv, Used, Wrap
  <2> QED
    BY <2>2, <2>3 DEF IInv
<1>2. CASE \E size \in 0 .. MaxRequest, ret \in {0, -1} :
              deq_pc = "idle" /\ DequeueReturn(size, ret)
  <2>1. PICK size \in 0 .. MaxRequest, ret \in {0, -1} :
            deq_pc = "idle" /\ DequeueReturn(size, ret)
    BY <1>2
  <2>2. TypeOK'
    BY <2>1, RequestAssumption DEF DequeueReturn, enqVars, IInv, TypeOK
  <2>3. EnqueueInv' /\ DequeueInv'
    BY <2>1 DEF DequeueReturn, enqVars, IInv, EnqueueInv, DequeueInv, Used, Wrap, Copied
  <2> QED
    BY <2>2, <2>3 DEF IInv
<1> QED
  BY <1>1, <1>2

(* An accepted enqueue has found room for all its bytes. *)
LEMMA EnqueueReserveKeepsIInv ==
  ASSUME IInv, NEW data \in Request, EnqueueReserve(data)
  PROVE  IInv'
<1>1. MemorySize > 0 /\ Len(data) \in 1 .. MemorySize
  BY MemNat, RequestIsSeq DEF EnqueueReserve
<1>2. read_offset \in Cell /\ write_offset \in Cell
  BY <1>1, OffsetIsCell DEF IInv, TypeOK
<1>3. Used(write_offset, read_offset) + Len(data) < MemorySize
  BY <1>1, <1>2, FreeIsUnused, UsedRange, MemNat DEF EnqueueReserve
<1>4. TypeOK'
  BY <1>1, RequestIsSeq DEF EnqueueReserve, deqVars, IInv, TypeOK
<1>5. EnqueueInv'
  BY <1>1, <1>3 DEF EnqueueReserve, EnqueueInv, Copied, Used
<1>6. DequeueInv'
  BY DEF EnqueueReserve, deqVars, IInv, DequeueInv, Used, Wrap
<1> QED
  BY <1>4, <1>5, <1>6 DEF IInv

(* An accepted dequeue has found all its bytes. *)
LEMMA DequeueReserveKeepsIInv ==
  ASSUME IInv, NEW size \in 0 .. MaxRequest, DequeueReserve(size)
  PROVE  IInv'
<1>1. MemorySize > 0 /\ size \in 1 .. MemorySize
  BY MemNat DEF DequeueReserve
<1>2. read_offset \in Cell /\ write_offset \in Cell
  BY <1>1, OffsetIsCell DEF IInv, TypeOK
<1>3. size \in 1 .. Used(write_offset, read_offset)
  BY <1>1, <1>2, AvailableIsUsed, UsedRange, MemNat DEF DequeueReserve
<1>4. TypeOK'
  BY <1>1, MemNat DEF DequeueReserve, enqVars, IInv, TypeOK
<1>5. EnqueueInv'
  BY DEF DequeueReserve, enqVars, IInv, EnqueueInv, Used, Wrap, Copied
<1>6. DequeueInv'
  BY <1>1, <1>3 DEF DequeueReserve, DequeueInv, Used
<1> QED
  BY <1>4, <1>5, <1>6 DEF IInv

(* Where the copies of a running enqueue stand. *)
LEMMA EnqueueRegion ==
  ASSUME IInv, enq_pc \in {"copy", "rest"}
  PROVE  /\ enq_arg \in Seq(Byte) /\ Len(enq_arg) \in Nat
         /\ enq_pos \in Nat /\ enq_size \in Nat
         /\ enq_pos + enq_size = Len(enq_arg)
         /\ Used(write_offset, read_offset) + Len(enq_arg) < MemorySize
         /\ Len(enq_arg) < MemorySize
         /\ \/ enq_pos = 0 /\ enq_w_off = write_offset /\ enq_pc = "copy"
            \/ /\ enq_pos = MemorySize - write_offset /\ enq_w_off = 0
               /\ enq_pc = "rest"
<1>1. Used(write_offset, read_offset) \in 0 .. MemorySize - 1
  BY RunningHasCells, UsedRange
<1>2. /\ enq_arg \in Seq(Byte) /\ Len(enq_arg) \in Nat
      /\ enq_pos \in Nat /\ enq_size \in Nat
  BY DEF IInv, TypeOK
<1>3. Used(write_offset, read_offset) + Len(enq_arg) < MemorySize
  BY DEF IInv, EnqueueInv
<1>4. \/ /\ enq_pos = 0 /\ enq_size = Len(enq_arg)
         /\ enq_w_off = write_offset /\ enq_pc = "copy"
      \/ /\ enq_pos = MemorySize - write_offset /\ enq_w_off = 0
         /\ enq_pos + enq_size = Len(enq_arg) /\ enq_pc = "rest"
  BY DEF IInv, EnqueueInv
<1> QED
  BY <1>1, <1>2, <1>3, <1>4, MemNat

(* CopyIn writes cells the published bytes do not occupy, so what a        *)
(* running dequeue has read, and will read, stays as it is.                *)
LEMMA CopyInKeepsPublished ==
  ASSUME IInv, NEW n \in Nat,
         \/ enq_pc = "copy" /\ n <= enq_size /\ n <= MemorySize - enq_w_off
         \/ enq_pc = "rest" /\ n <= enq_size,
         NEW pos \in Nat,
         NEW i \in 1 .. Used(write_offset, read_offset)
  PROVE  CopyIn(enq_w_off, pos, n)[Wrap(read_offset + i - 1)]
            = queue_memory[Wrap(read_offset + i - 1)]
<1> DEFINE k == Wrap(read_offset + i - 1)
<1>1. /\ MemorySize > 0 /\ MemorySize \in Nat
      /\ read_offset \in Cell /\ write_offset \in Cell /\ enq_w_off \in Cell
  BY RunningHasCells, MemNat
<1>2. i \in Nat /\ i - 1 \in 0 .. MemorySize - 1
  BY <1>1, UsedRange, MemNat
<1>3. k \in Cell
  BY <1>1, <1>2 DEF Wrap, Cell
<1>4. /\ enq_size \in Nat /\ Len(enq_arg) \in Nat /\ n <= enq_size
      /\ Used(write_offset, read_offset) + Len(enq_arg) < MemorySize
      /\ \/ /\ enq_size = Len(enq_arg) /\ enq_w_off = write_offset
            /\ n <= MemorySize - enq_w_off
         \/ /\ MemorySize - write_offset + enq_size = Len(enq_arg)
            /\ enq_w_off = 0
  BY EnqueueRegion
<1>5. k \notin enq_w_off .. enq_w_off + n - 1
  <2>1. CASE /\ enq_size = Len(enq_arg) /\ enq_w_off = write_offset
             /\ n <= MemorySize - enq_w_off
    BY <2>1, <1>1, <1>2, <1>4 DEF Used, Wrap, Cell
  <2>2. CASE MemorySize - write_offset + enq_size = Len(enq_arg) /\ enq_w_off = 0
    BY <2>2, <1>1, <1>2, <1>4 DEF Used, Wrap, Cell
  <2> QED
    BY <2>1, <2>2, <1>4
<1> QED
  BY <1>3, <1>5 DEF CopyIn

(* The first memcpy of an enqueue that reaches the last cell. *)
LEMMA EnqueueCopyRightKeepsIInv ==
  ASSUME IInv, EnqueueCopyRight
  PROVE  IInv'
<1> DEFINE right_free == MemorySize - enq_w_off
<1>1. /\ MemorySize > 0 /\ MemorySize \in Nat
      /\ read_offset \in Cell /\ write_offset \in Cell /\ enq_w_off \in Cell
  BY RunningHasCells, MemNat DEF ReachesEnd, EnqueueCopyRight
<1>2. /\ enq_arg \in Seq(Byte) /\ Len(enq_arg) \in Nat
      /\ enq_pc = "copy" /\ enq_pos = 0 /\ enq_size = Len(enq_arg)
      /\ enq_w_off = write_offset
      /\ right_free \in 1 .. Len(enq_arg)
  BY <1>1 DEF ReachesEnd, EnqueueCopyRight, IInv, TypeOK, EnqueueInv, Cell
<1>3. TypeOK'
  <2>1. queue_memory' \in [Cell -> Byte]
    <3>1. \A k \in Cell : k \in enq_w_off .. enq_w_off + right_free - 1
                             => enq_arg[enq_pos + k - enq_w_off + 1] \in Byte
      BY <1>1, <1>2 DEF Cell
    <3> QED
      BY <3>1 DEF ReachesEnd, EnqueueCopyRight, CopyIn, IInv, TypeOK
  <2>2. /\ enq_pos' \in Nat /\ enq_size' \in Nat /\ enq_w_off' \in Offset
        /\ enq_pc' \in {"idle", "copy", "rest", "store"}
    BY <1>1, <1>2 DEF ReachesEnd, EnqueueCopyRight, Offset
  <2> QED
    BY <2>1, <2>2 DEF ReachesEnd, EnqueueCopyRight, deqVars, IInv, TypeOK
<1>4. EnqueueInv'
  <2>1. ASSUME NEW i \in 1 .. right_free
        PROVE  queue_memory'[Wrap(write_offset + i - 1)] = enq_arg[i]
    <3>1. /\ Wrap(write_offset + i - 1) = write_offset + i - 1
          /\ write_offset + i - 1 \in Cell
          /\ write_offset + i - 1 \in enq_w_off .. enq_w_off + right_free - 1
          /\ enq_pos + (write_offset + i - 1) - enq_w_off + 1 = i
      BY <1>1, <1>2 DEF Wrap, Cell
    <3> QED
      BY <3>1 DEF ReachesEnd, EnqueueCopyRight, CopyIn
  <2>2. /\ enq_pc' = "rest" /\ enq_arg' = enq_arg
        /\ enq_pos' = right_free /\ enq_size' = Len(enq_arg) - right_free
        /\ enq_w_off' = 0
        /\ UNCHANGED <<read_offset, write_offset>>
    BY <1>2 DEF ReachesEnd, EnqueueCopyRight, Cell
  <2>3. Copied' = right_free
    BY <2>2 DEF Copied
  <2>4. /\ Len(enq_arg) >= 1
        /\ Used(write_offset, read_offset) + Len(enq_arg) < MemorySize
    BY <1>2 DEF IInv, EnqueueInv
  <2> HIDE DEF right_free
  <2>5. right_free + (Len(enq_arg) - right_free) = Len(enq_arg)
    BY <1>2
  <2> QED
    BY <1>2, <2>1, <2>2, <2>3, <2>4, <2>5 DEF EnqueueInv, Used, Wrap, right_free
<1>5. DequeueInv'
  <2>1. \A i \in 1 .. Used(write_offset, read_offset) :
           queue_memory'[Wrap(read_offset + i - 1)]
              = queue_memory[Wrap(read_offset + i - 1)]
    BY <1>2, CopyInKeepsPublished DEF ReachesEnd, EnqueueCopyRight
  <2> QED
    BY <2>1, <1>1, UsedRange, SMTT(30)
    DEF ReachesEnd, EnqueueCopyRight, deqVars, IInv, TypeOK, DequeueInv, Used, Wrap
<1> QED
  BY <1>3, <1>4, <1>5 DEF IInv

(* The second, or only, memcpy of an enqueue. *)
LEMMA EnqueueCopyRestKeepsIInv ==
  ASSUME IInv, EnqueueCopyRest
  PROVE  IInv'
<1>1. /\ MemorySize > 0 /\ MemorySize \in Nat
      /\ read_offset \in Cell /\ write_offset \in Cell /\ enq_w_off \in Cell
  BY RunningHasCells, MemNat DEF ReachesEnd, EnqueueCopyRest
<1>2. /\ enq_arg \in Seq(Byte) /\ Len(enq_arg) \in Nat
      /\ enq_pos \in Nat /\ enq_size \in Nat
      /\ enq_pos + enq_size = Len(enq_arg)
      /\ enq_w_off = Wrap(write_offset + enq_pos)
      /\ enq_w_off + enq_size < MemorySize
      /\ Len(enq_arg) < MemorySize
      /\ \/ enq_pos = 0 /\ enq_w_off = write_offset
         \/ enq_pos = MemorySize - write_offset /\ enq_w_off = 0
  BY <1>1, EnqueueRegion, SMTT(30) DEF ReachesEnd, EnqueueCopyRest, Wrap, Cell
<1>3. TypeOK'
  <2>1. queue_memory' \in [Cell -> Byte]
    <3>1. ASSUME NEW k \in Cell, k \in enq_w_off .. enq_w_off + enq_size - 1
          PROVE  enq_arg[enq_pos + k - enq_w_off + 1] \in Byte
      <4>1. /\ k \in Int /\ enq_w_off \in Int
            /\ enq_pos \in Nat /\ enq_size \in Nat
            /\ enq_pos + enq_size = Len(enq_arg)
        BY <1>1, <1>2 DEF Cell
      <4>2. enq_w_off <= k /\ k <= enq_w_off + enq_size - 1
        BY <3>1, <4>1
      <4>3. enq_pos + k - enq_w_off + 1 \in 1 .. Len(enq_arg)
        BY <4>1, <4>2
      <4> QED
        BY <4>3, <1>2, ElementOfSeq
    <3> QED
      BY <3>1 DEF ReachesEnd, EnqueueCopyRest, CopyIn, IInv, TypeOK
  <2>2. enq_w_off' \in Offset
    BY <1>1, <1>2 DEF ReachesEnd, EnqueueCopyRest, Offset, Cell
  <2> QED
    BY <2>1, <2>2 DEF ReachesEnd, EnqueueCopyRest, deqVars, IInv, TypeOK
<1>4. EnqueueInv'
  <2>1. \A i \in 1 .. enq_pos : queue_memory[Wrap(write_offset + i - 1)] = enq_arg[i]
    BY DEF ReachesEnd, EnqueueCopyRest, IInv, EnqueueInv, Copied
  <2>2. ASSUME NEW i \in 1 .. Len(enq_arg)
        PROVE  queue_memory'[Wrap(write_offset + i - 1)] = enq_arg[i]
    <3>1. Wrap(write_offset + i - 1) \in Cell
      BY <1>1, <1>2 DEF Wrap, Cell
    <3>2. CASE i <= enq_pos
      <4>1. Wrap(write_offset + i - 1) \notin enq_w_off .. enq_w_off + enq_size - 1
        BY <3>2, <1>1, <1>2 DEF Wrap, Cell
      <4> QED
        BY <4>1, <3>1, <3>2, <2>1 DEF ReachesEnd, EnqueueCopyRest, CopyIn
    <3>3. CASE i > enq_pos
      <4>1. /\ Wrap(write_offset + i - 1) \in enq_w_off .. enq_w_off + enq_size - 1
            /\ enq_pos + Wrap(write_offset + i - 1) - enq_w_off + 1 = i
        BY <3>3, <1>1, <1>2 DEF Wrap, Cell
      <4> QED
        BY <4>1, <3>1 DEF ReachesEnd, EnqueueCopyRest, CopyIn
    <3> QED
      BY <3>2, <3>3, <1>2
  <2>3. enq_w_off + enq_size = Wrap(write_offset + Len(enq_arg))
    BY <1>1, <1>2 DEF Wrap, Cell
  <2> QED
    BY <1>2, <2>2, <2>3 DEF ReachesEnd, EnqueueCopyRest, IInv, EnqueueInv, Copied, Used, Wrap
<1>5. DequeueInv'
  <2>1. \A i \in 1 .. Used(write_offset, read_offset) :
           queue_memory'[Wrap(read_offset + i - 1)]
              = queue_memory[Wrap(read_offset + i - 1)]
    <3>1. \/ /\ enq_pc = "copy" /\ enq_size <= enq_size
             /\ enq_size <= MemorySize - enq_w_off
          \/ enq_pc = "rest" /\ enq_size <= enq_size
      BY <1>1, <1>2 DEF ReachesEnd, EnqueueCopyRest, Cell
    <3>2. \A i \in 1 .. Used(write_offset, read_offset) :
             CopyIn(enq_w_off, enq_pos, enq_size)[Wrap(read_offset + i - 1)]
                = queue_memory[Wrap(read_offset + i - 1)]
      <4>1. enq_size \in Nat /\ enq_pos \in Nat
        BY <1>2
      <4> QED
        BY <3>1, <4>1, CopyInKeepsPublished
    <3> QED
      BY <3>2 DEF ReachesEnd, EnqueueCopyRest
  <2> QED
    BY <2>1, <1>1, UsedRange
    DEF ReachesEnd, EnqueueCopyRest, deqVars, IInv, TypeOK, DequeueInv, Used, Wrap
<1> QED
  BY <1>3, <1>4, <1>5 DEF IInv

(* The release store of write_offset publishes the bytes of the call. *)
LEMMA EnqueueStoreKeepsIInv ==
  ASSUME IInv, EnqueueStore
  PROVE  IInv'
<1>1. /\ MemorySize > 0 /\ MemorySize \in Nat
      /\ read_offset \in Cell /\ write_offset \in Cell /\ enq_w_off \in Cell
  BY RunningHasCells, MemNat DEF EnqueueStore
<1>2. TypeOK'
  BY DEF EnqueueStore, deqVars, IInv, TypeOK
<1>3. EnqueueInv'
  BY DEF EnqueueStore, EnqueueInv
<1>4. DequeueInv'
  <2>1. /\ Len(enq_arg) \in Nat
        /\ Used(write_offset, read_offset) + Len(enq_arg) < MemorySize
        /\ enq_w_off = Wrap(write_offset + Len(enq_arg))
    BY DEF EnqueueStore, IInv, TypeOK, EnqueueInv
  <2>2. Used(enq_w_off, read_offset) = Used(write_offset, read_offset) + Len(enq_arg)
    BY <1>1, <2>1, UsedGrows
  <2>3. Used(write_offset, read_offset)' = Used(enq_w_off, read_offset)
    BY DEF EnqueueStore, Used
  <2>4. ASSUME deq_arg \in 1 .. Used(write_offset, read_offset)
        PROVE  deq_arg \in 1 .. Used(enq_w_off, read_offset)
    BY <1>1, <2>1, <2>2, <2>4, UsedRange
  <2> QED
    BY <2>3, <2>4 DEF EnqueueStore, deqVars, IInv, DequeueInv, Wrap
<1> QED
  BY <1>2, <1>3, <1>4 DEF IInv

(* Where the copies of a running dequeue stand. *)
LEMMA DequeueRegion ==
  ASSUME IInv, deq_pc \in {"copy", "rest"}
  PROVE  /\ deq_buf \in Seq(Byte) /\ Len(deq_buf) \in Nat
         /\ deq_arg \in Nat /\ deq_size \in Nat
         /\ deq_size + Len(deq_buf) = deq_arg
         /\ deq_arg \in 1 .. Used(write_offset, read_offset)
         /\ deq_arg < MemorySize
         /\ \/ Len(deq_buf) = 0 /\ deq_r_off = read_offset /\ deq_pc = "copy"
            \/ /\ Len(deq_buf) = MemorySize - read_offset /\ deq_r_off = 0
               /\ deq_pc = "rest"
<1>1. Used(write_offset, read_offset) \in 0 .. MemorySize - 1
  BY RunningHasCells, UsedRange
<1> QED
  BY <1>1, MemNat DEF IInv, TypeOK, DequeueInv

(* The first memcpy of a dequeue that reaches the last cell. *)
LEMMA DequeueCopyRightKeepsIInv ==
  ASSUME IInv, DequeueCopyRight
  PROVE  IInv'
<1> DEFINE right_free == MemorySize - deq_r_off
<1>1. /\ MemorySize > 0 /\ MemorySize \in Nat
      /\ read_offset \in Cell /\ write_offset \in Cell /\ deq_r_off \in Cell
  BY RunningHasCells, MemNat DEF ReachesEnd, DequeueCopyRight
<1>2. /\ deq_arg \in Nat /\ deq_size = deq_arg /\ deq_r_off = read_offset
      /\ deq_pc = "copy" /\ right_free \in 1 .. deq_arg
  BY <1>1, DequeueRegion DEF ReachesEnd, DequeueCopyRight, Cell
<1>3. CopyOut(deq_r_off, right_free) \in Seq(Byte)
      /\ Len(CopyOut(deq_r_off, right_free)) = right_free
  <2>1. \A i \in 1 .. right_free : deq_r_off + i - 1 \in Cell
    BY <1>1, <1>2 DEF Cell
  <2>2. \A i \in 1 .. right_free : queue_memory[deq_r_off + i - 1] \in Byte
    BY <2>1 DEF IInv, TypeOK
  <2> QED
    BY <2>2, <1>2 DEF CopyOut
<1>4. TypeOK'
  <2>1. deq_size - right_free \in Nat
    BY <1>2
  <2> QED
    BY <1>1, <1>3, <2>1 DEF ReachesEnd, DequeueCopyRight, enqVars, IInv, TypeOK, Offset
<1>5. EnqueueInv'
  BY DEF ReachesEnd, DequeueCopyRight, enqVars, IInv, EnqueueInv, Used, Wrap, Copied
<1>6. DequeueInv'
  <2>1. ASSUME NEW i \in 1 .. right_free
        PROVE  deq_buf'[i] = queue_memory[Wrap(read_offset + i - 1)]
    <3>1. Wrap(read_offset + i - 1) = deq_r_off + i - 1
      BY <1>1, <1>2 DEF Wrap, Cell
    <3> QED
      BY <3>1 DEF ReachesEnd, DequeueCopyRight, CopyOut
  <2>2. /\ deq_pc' = "rest" /\ deq_r_off' = 0
        /\ Len(deq_buf') = MemorySize - read_offset
        /\ deq_size' + Len(deq_buf') = deq_arg
        /\ UNCHANGED <<queue_memory, read_offset, write_offset, deq_arg>>
    BY <1>1, <1>2, <1>3 DEF ReachesEnd, DequeueCopyRight, Cell
  <2>3. deq_arg \in 1 .. Used(write_offset, read_offset)
    BY <1>2, DequeueRegion
  <2> QED
    BY <1>2, <2>1, <2>2, <2>3 DEF DequeueInv, Used, Wrap
<1> QED
  BY <1>4, <1>5, <1>6 DEF IInv

(* The second, or only, memcpy of a dequeue. *)
LEMMA DequeueCopyRestKeepsIInv ==
  ASSUME IInv, DequeueCopyRest
  PROVE  IInv'
<1> DEFINE tail == CopyOut(deq_r_off, deq_size)
<1>1. /\ MemorySize > 0 /\ MemorySize \in Nat
      /\ read_offset \in Cell /\ write_offset \in Cell /\ deq_r_off \in Cell
  BY RunningHasCells, MemNat DEF ReachesEnd, DequeueCopyRest
<1>2. deq_pc \in {"copy", "rest"}
  BY DEF ReachesEnd, DequeueCopyRest
<1>3. /\ deq_r_off = Wrap(read_offset + Len(deq_buf))
      /\ deq_r_off + deq_size < MemorySize
      /\ deq_r_off + deq_size = Wrap(read_offset + deq_arg)
  <2>1. /\ deq_arg \in Nat /\ deq_size \in Nat /\ Len(deq_buf) \in Nat
        /\ deq_size + Len(deq_buf) = deq_arg /\ deq_arg < MemorySize
    BY <1>2, DequeueRegion
  <2>2. CASE Len(deq_buf) = 0 /\ deq_r_off = read_offset /\ deq_pc = "copy"
    <3>1. ~ReachesEnd(deq_size, deq_r_off)
      BY <2>2 DEF DequeueCopyRest
    <3> QED
      BY <3>1, <2>1, <2>2, <1>1 DEF ReachesEnd, Wrap, Cell
  <2>3. CASE Len(deq_buf) = MemorySize - read_offset /\ deq_r_off = 0
    BY <2>1, <2>3, <1>1 DEF Wrap, Cell
  <2> QED
    BY <2>2, <2>3, <1>2, DequeueRegion
<1>4. tail \in Seq(Byte) /\ Len(tail) = deq_size
  <2>1. \A i \in 1 .. deq_size : deq_r_off + i - 1 \in Cell
    BY <1>1, <1>2, <1>3, DequeueRegion DEF Cell
  <2>2. \A i \in 1 .. deq_size : queue_memory[deq_r_off + i - 1] \in Byte
    BY <2>1 DEF IInv, TypeOK
  <2> QED
    BY <2>2, <1>2, DequeueRegion DEF CopyOut
<1>5. /\ deq_buf' \in Seq(Byte) /\ Len(deq_buf') = deq_arg
      /\ \A i \in 1 .. deq_arg :
            deq_buf'[i] = IF i <= Len(deq_buf) THEN deq_buf[i] ELSE tail[i - Len(deq_buf)]
  <2> HIDE DEF tail
  <2>1. deq_buf' = deq_buf \o tail
    BY DEF ReachesEnd, DequeueCopyRest, tail
  <2> QED
    BY <1>2, <1>4, <2>1, DequeueRegion, ConcatProperties
<1>6. TypeOK'
  <2>1. deq_r_off' \in Offset
    BY <1>1, <1>2, <1>3, DequeueRegion DEF ReachesEnd, DequeueCopyRest, Offset, Cell
  <2> QED
    BY <1>5, <2>1 DEF ReachesEnd, DequeueCopyRest, enqVars, IInv, TypeOK
<1>7. EnqueueInv'
  BY DEF ReachesEnd, DequeueCopyRest, enqVars, IInv, EnqueueInv, Used, Wrap, Copied
<1>8. DequeueInv'
  <2>1. ASSUME NEW i \in 1 .. deq_arg
        PROVE  deq_buf'[i] = queue_memory[Wrap(read_offset + i - 1)]
    <3>1. CASE i <= Len(deq_buf)
      BY <3>1, <1>2, <1>5, DequeueRegion DEF IInv, DequeueInv
    <3>2. CASE i > Len(deq_buf)
      <4>1. /\ i - Len(deq_buf) \in 1 .. deq_size
            /\ Wrap(read_offset + i - 1) = deq_r_off + (i - Len(deq_buf)) - 1
        <5>1. /\ deq_arg \in Nat /\ deq_size \in Nat /\ Len(deq_buf) \in Nat
              /\ deq_size + Len(deq_buf) = deq_arg /\ deq_arg < MemorySize
              /\ \/ Len(deq_buf) = 0 /\ deq_r_off = read_offset
                 \/ Len(deq_buf) = MemorySize - read_offset /\ deq_r_off = 0
          BY <1>2, DequeueRegion
        <5> QED
          BY <5>1, <3>2, <1>1, <1>3 DEF Wrap, Cell
      <4>2. deq_buf'[i] = tail[i - Len(deq_buf)]
        BY <3>2, <1>2, <1>5, DequeueRegion
      <4> QED
        BY <4>1, <4>2 DEF CopyOut
    <3> QED
      BY <3>1, <3>2, <1>2, DequeueRegion
  <2>2. /\ deq_pc' = "store" /\ deq_r_off' = Wrap(read_offset + deq_arg)
        /\ UNCHANGED <<queue_memory, read_offset, write_offset, deq_arg>>
    BY <1>3 DEF ReachesEnd, DequeueCopyRest
  <2>3. deq_arg \in 1 .. Used(write_offset, read_offset)
    BY <1>2, DequeueRegion
  <2> QED
    BY <1>5, <2>1, <2>2, <2>3 DEF DequeueInv, Used, Wrap
<1> QED
  BY <1>6, <1>7, <1>8 DEF IInv

(* The release store of read_offset frees the cells of the call. *)
LEMMA DequeueStoreKeepsIInv ==
  ASSUME IInv, DequeueStore
  PROVE  IInv'
<1>1. /\ MemorySize > 0 /\ MemorySize \in Nat
      /\ read_offset \in Cell /\ write_offset \in Cell /\ deq_r_off \in Cell
  BY RunningHasCells, MemNat DEF DequeueStore
<1>2. TypeOK'
  BY DEF DequeueStore, enqVars, IInv, TypeOK
<1>3. EnqueueInv'
  <2>1. deq_arg \in 0 .. Used(write_offset, read_offset)
        /\ deq_r_off = Wrap(read_offset + deq_arg)
    BY DEF DequeueStore, IInv, DequeueInv
  <2>2. Used(write_offset, deq_r_off) = Used(write_offset, read_offset) - deq_arg
    BY <1>1, <2>1, UsedShrinks
  <2>3. Used(write_offset, read_offset)' = Used(write_offset, deq_r_off)
    BY DEF DequeueStore, Used
  <2>4. ASSUME NEW n \in Nat, Used(write_offset, read_offset) + n < MemorySize
        PROVE  Used(write_offset, deq_r_off) + n < MemorySize
    BY <1>1, <2>1, <2>2, <2>4, UsedRange
  <2>5. Len(enq_arg) \in Nat
    BY DEF IInv, TypeOK
  <2> QED
    BY <2>3, <2>4, <2>5 DEF DequeueStore, enqVars, IInv, EnqueueInv, Wrap, Copied
<1>4. DequeueInv'
  BY DEF DequeueStore, DequeueInv
<1> QED
  BY <1>2, <1>3, <1>4 DEF IInv

(* Every step of either thread keeps the invariant. *)
LEMMA NextKeepsIInv == IInv /\ [Next]_vars => IInv'
<1> SUFFICES ASSUME IInv, [Next]_vars PROVE IInv'
  OBVIOUS
<1>1. ASSUME NEW data \in Request,
             EnqueueTooLarge(data) \/ EnqueueNothing(data) \/ EnqueueNoSpace(data)
      PROVE  IInv'
  BY <1>1, ReturnKeepsIInv DEF EnqueueTooLarge, EnqueueNothing, EnqueueNoSpace
<1>2. ASSUME NEW size \in 0 .. MaxRequest,
             DequeueTooLarge(size) \/ DequeueNothing(size) \/ DequeueNoData(size)
      PROVE  IInv'
  BY <1>2, ReturnKeepsIInv DEF DequeueTooLarge, DequeueNothing, DequeueNoData
<1>3. CASE Enqueue
  BY <1>1, <1>3, EnqueueReserveKeepsIInv, EnqueueCopyRightKeepsIInv,
     EnqueueCopyRestKeepsIInv, EnqueueStoreKeepsIInv DEF Enqueue
<1>4. CASE Dequeue
  BY <1>2, <1>4, DequeueReserveKeepsIInv, DequeueCopyRightKeepsIInv,
     DequeueCopyRestKeepsIInv, DequeueStoreKeepsIInv DEF Dequeue
<1>5. CASE UNCHANGED vars
  BY <1>5 DEF vars, enqVars, deqVars, IInv, TypeOK, EnqueueInv, DequeueInv, Used,
              Wrap, Copied
<1> QED
  BY <1>3, <1>4, <1>5 DEF Next

-------------------------------------------------------------------------------
(***************************************************************************)
(* The safety properties.                                                  *)
(***************************************************************************)

(* IInv holds in every state two threads calling the queue can reach. *)
THEOREM Invariance == Spec => []IInv
<1> QED
  BY InitIInv, NextKeepsIInv, PTL DEF Spec

(* The offsets, shared and local, never leave the cells. *)
THEOREM TypeCorrectness == Spec => []TypeOK
<1>1. IInv => TypeOK
  BY DEF IInv
<1> QED
  BY <1>1, Invariance, PTL

(* The memcpys of an enqueue and of a dequeue that run at the same time    *)
(* never touch the same cell: the plain accesses do not race.              *)
THEOREM RaceFreedom == Spec => []NoOverlap
<1>1. ASSUME IInv PROVE NoOverlap
  <2> SUFFICES ASSUME enq_pc \in {"copy", "rest"}, deq_pc \in {"copy", "rest"},
                      NEW i \in 0 .. enq_size - 1, NEW j \in 0 .. deq_size - 1,
                      Wrap(enq_w_off + i) = Wrap(deq_r_off + j)
               PROVE  FALSE
    BY DEF NoOverlap, Writing, Reading
  <2> DEFINE used == Used(write_offset, read_offset)
             m == Len(enq_arg) - enq_size + i
             n == Len(deq_buf) + j
  <2>1. /\ MemorySize > 0 /\ MemorySize \in Nat
        /\ read_offset \in Cell /\ write_offset \in Cell
    BY <1>1, RunningHasCells, MemNat
  <2>2. used \in 0 .. MemorySize - 1
    BY <2>1, UsedRange
  <2>3. /\ m \in Nat /\ used + m < MemorySize
        /\ Wrap(enq_w_off + i) = Wrap(write_offset + m)
    <3>1. /\ Len(enq_arg) \in Nat /\ enq_size \in 0 .. Len(enq_arg)
          /\ used + Len(enq_arg) < MemorySize
          /\ \/ enq_size = Len(enq_arg) /\ enq_w_off = write_offset
             \/ /\ Len(enq_arg) - enq_size = MemorySize - write_offset
                /\ enq_w_off = 0
      <4>1. /\ Len(enq_arg) \in Nat /\ enq_size \in Nat /\ enq_pos \in Nat
            /\ used + Len(enq_arg) < MemorySize
            /\ \/ enq_size = Len(enq_arg) /\ enq_w_off = write_offset
               \/ /\ enq_pos = MemorySize - write_offset /\ enq_w_off = 0
                  /\ enq_pos + enq_size = Len(enq_arg)
        BY <1>1 DEF IInv, TypeOK, EnqueueInv
      <4> QED
        BY <4>1, <2>1 DEF Cell
    <3> HIDE DEF used
    <3> QED
      BY <3>1, <2>1, <2>2 DEF Wrap, Cell
  <2>4. /\ n \in 0 .. used - 1
        /\ Wrap(deq_r_off + j) = Wrap(read_offset + n)
    <3>1. /\ Len(deq_buf) \in Nat /\ deq_size \in Nat /\ deq_arg \in 1 .. used
          /\ deq_size + Len(deq_buf) = deq_arg
          /\ \/ Len(deq_buf) = 0 /\ deq_r_off = read_offset
             \/ Len(deq_buf) = MemorySize - read_offset /\ deq_r_off = 0
      BY <1>1, DequeueRegion
    <3> HIDE DEF used
    <3> QED
      BY <3>1, <2>1, <2>2 DEF Wrap, Cell
  <2>5. Wrap(write_offset + m) = Wrap(read_offset + (used + m))
    BY <2>1, <2>2, <2>3 DEF Used, Wrap, Cell
  <2>6. used + m = n
    BY <2>1, <2>2, <2>3, <2>4, <2>5, WrapInjective
  <2> QED
    BY <2>2, <2>3, <2>4, <2>6
<1> QED
  BY <1>1, Invariance, PTL

(* A full queue never looks empty. *)
THEOREM FullIsNotEmpty == Spec => []OneCellFree
<1>1. ASSUME IInv, MemorySize > 0
      PROVE  Used(write_offset, read_offset)
                + (IF enq_pc = "idle" THEN 0 ELSE Len(enq_arg)) < MemorySize
  <2>1. Used(write_offset, read_offset) \in 0 .. MemorySize - 1
    BY <1>1, OffsetIsCell, UsedRange DEF IInv, TypeOK
  <2>2. CASE enq_pc = "idle"
    BY <2>1, <2>2, MemNat
  <2>3. CASE enq_pc # "idle"
    BY <1>1, <2>3 DEF IInv, EnqueueInv
  <2> QED
    BY <2>2, <2>3
<1>2. IInv => OneCellFree
  BY <1>1 DEF OneCellFree
<1> QED
  BY <1>2, Invariance, PTL

-------------------------------------------------------------------------------
(***************************************************************************)
(* The ring buffer implements BoundedFifo.                                 *)
(***************************************************************************)

(* The published bytes form a sequence as long as the distance of the      *)
(* offsets says.                                                           *)
LEMMA QueueIsSeq ==
  ASSUME IInv
  PROVE  /\ Queue \in Seq(Byte)
         /\ Len(Queue) = Used(write_offset, read_offset)
         /\ Used(write_offset, read_offset) \in Nat
         /\ MemorySize > 0 => Used(write_offset, read_offset) < MemorySize
         /\ MemorySize = 0 => Used(write_offset, read_offset) = 0
<1> DEFINE used == Used(write_offset, read_offset)
<1>1. /\ used \in Nat
      /\ MemorySize > 0 => used < MemorySize
      /\ MemorySize = 0 => used = 0
  BY MemNat DEF IInv, TypeOK, Offset, Used
<1>2. ASSUME NEW i \in 1 .. used
      PROVE  queue_memory[Wrap(read_offset + i - 1)] \in Byte
  <2>1. Wrap(read_offset + i - 1) \in Cell
    BY <1>1, MemNat DEF IInv, TypeOK, Offset, Wrap, Cell
  <2> QED
    BY <2>1 DEF IInv, TypeOK
<1> HIDE DEF used
<1>3. Queue = [i \in 1 .. used |-> queue_memory[Wrap(read_offset + i - 1)]]
  BY DEF Queue, used
<1>4. Queue \in Seq(Byte) /\ Len(Queue) = used
  BY <1>1, <1>2, <1>3
<1> QED
  BY <1>1, <1>4 DEF used

(* What the producer and the consumer see is the same as long as the       *)
(* offsets stand and the published cells keep their bytes.                 *)
LEMMA QueueKept ==
  ASSUME IInv, UNCHANGED <<read_offset, write_offset>>,
         \A i \in 1 .. Used(write_offset, read_offset) :
            queue_memory'[Wrap(read_offset + i - 1)]
               = queue_memory[Wrap(read_offset + i - 1)]
  PROVE  Queue' = Queue
<1>1. Used(write_offset, read_offset)' = Used(write_offset, read_offset)
  BY DEF Used
<1>2. \A i \in 1 .. Used(write_offset, read_offset) :
         Wrap(read_offset + i - 1)' = Wrap(read_offset + i - 1)
  BY DEF Wrap
<1> QED
  BY <1>1, <1>2 DEF Queue

(* A sequence is given by its length and its elements. *)
LEMMA SeqIsItsElements ==
  ASSUME NEW S, NEW s \in Seq(S), NEW n, Len(s) = n
  PROVE  [i \in 1 .. n |-> s[i]] = s
  OBVIOUS

(* The empty queue is the empty sequence. *)
LEMMA InitRefines == Init => Fifo!Init
<1> SUFFICES ASSUME Init PROVE Fifo!Init
  OBVIOUS
<1>1. Used(write_offset, read_offset) = 0
  BY DEF Init, Used
<1>2. Queue = <<>>
  BY <1>1 DEF Queue
<1> QED
  BY <1>2 DEF Init, Fifo!Init

(* A call that returns at once is a put or get of nothing, or a refusal. *)
LEMMA ReturnRefines ==
  ASSUME IInv,
         \/ \E data \in Request :
               EnqueueTooLarge(data) \/ EnqueueNothing(data) \/ EnqueueNoSpace(data)
         \/ \E size \in 0 .. MaxRequest :
               DequeueTooLarge(size) \/ DequeueNothing(size) \/ DequeueNoData(size)
  PROVE  Fifo!Next
<1>1. Queue' = Queue
  BY QueueKept DEF EnqueueTooLarge, EnqueueNothing, EnqueueNoSpace, EnqueueReturn,
                   DequeueTooLarge, DequeueNothing, DequeueNoData, DequeueReturn
<1>2. MemorySize > 0 => read_offset \in Cell /\ write_offset \in Cell
  BY OffsetIsCell DEF IInv, TypeOK
<1>3. ASSUME NEW data \in Request, EnqueueNothing(data)
      PROVE  Fifo!PutNothing
  <2>1. data = <<>>
    BY <1>3, RequestIsSeq, EmptySeq DEF EnqueueNothing
  <2> QED
    BY <1>1, <1>3, <2>1 DEF EnqueueNothing, EnqueueReturn, deqVars,
                            Fifo!PutNothing, Fifo!getVars
<1>4. ASSUME NEW data \in Request, EnqueueTooLarge(data) \/ EnqueueNoSpace(data)
      PROVE  Fifo!PutRefuse
  <2>1. Len(Queue) + Len(data) > MemorySize - 1
    <3>1. CASE EnqueueTooLarge(data)
      BY <3>1, QueueIsSeq, RequestIsSeq, MemNat DEF EnqueueTooLarge
    <3>2. CASE EnqueueNoSpace(data)
      <4>1. MemorySize > 0
        BY <3>2, RequestIsSeq, MemNat DEF EnqueueNoSpace
      <4> QED
        BY <3>2, <4>1, <1>2, FreeIsUnused, QueueIsSeq, RequestIsSeq, MemNat
        DEF EnqueueNoSpace
    <3> QED
      BY <3>1, <3>2, <1>4
  <2> QED
    BY <1>1, <1>4, <2>1, RequestIsSeq
    DEF EnqueueTooLarge, EnqueueNoSpace, EnqueueReturn, deqVars,
        Fifo!PutRefuse, Fifo!getVars
<1>5. ASSUME NEW size \in 0 .. MaxRequest, DequeueNothing(size)
      PROVE  Fifo!GetNothing
  BY <1>1, <1>5 DEF DequeueNothing, DequeueReturn, enqVars, Fifo!GetNothing, Fifo!putVars
<1>6. ASSUME NEW size \in 0 .. MaxRequest, DequeueTooLarge(size) \/ DequeueNoData(size)
      PROVE  Fifo!GetRefuse
  <2>1. size \in Nat /\ size > Len(Queue)
    <3>1. CASE DequeueTooLarge(size)
      BY <3>1, QueueIsSeq, RequestAssumption, MemNat DEF DequeueTooLarge
    <3>2. CASE DequeueNoData(size)
      <4>1. MemorySize > 0
        BY <3>2, MemNat DEF DequeueNoData
      <4> QED
        BY <3>2, <4>1, <1>2, AvailableIsUsed, QueueIsSeq, RequestAssumption
        DEF DequeueNoData
    <3> QED
      BY <3>1, <3>2, <1>6
  <2> QED
    BY <1>1, <1>6, <2>1 DEF DequeueTooLarge, DequeueNoData, DequeueReturn, enqVars,
                            Fifo!GetRefuse, Fifo!putVars
<1> QED
  BY <1>3, <1>4, <1>5, <1>6 DEF Fifo!Next

(* A call that finds its space or its bytes is accepted. *)
LEMMA ReserveRefines ==
  ASSUME IInv,
         \/ \E data \in Request : EnqueueReserve(data)
         \/ \E size \in 0 .. MaxRequest : DequeueReserve(size)
  PROVE  Fifo!Next
<1>1. Queue' = Queue
  BY QueueKept DEF EnqueueReserve, DequeueReserve
<1>2. ASSUME NEW data \in Request, EnqueueReserve(data)
      PROVE  Fifo!PutAccept
  <2>1. Len(data) \in 1 .. MemorySize /\ MemorySize > 0
    BY <1>2, RequestIsSeq, MemNat DEF EnqueueReserve
  <2>2. read_offset \in Cell /\ write_offset \in Cell
    BY <2>1, OffsetIsCell DEF IInv, TypeOK
  <2>3. data # <<>> /\ Len(Queue) + Len(data) <= MemorySize - 1
    BY <1>2, <2>1, <2>2, FreeIsUnused, QueueIsSeq, MemNat DEF EnqueueReserve
  <2> QED
    BY <1>1, <1>2, <2>3, RequestIsSeq DEF EnqueueReserve, deqVars,
                                          Fifo!PutAccept, Fifo!getVars
<1>3. ASSUME NEW size \in 0 .. MaxRequest, DequeueReserve(size)
      PROVE  Fifo!GetAccept
  <2>1. size \in 1 .. MemorySize /\ MemorySize > 0
    BY <1>3, MemNat DEF DequeueReserve
  <2>2. read_offset \in Cell /\ write_offset \in Cell
    BY <2>1, OffsetIsCell DEF IInv, TypeOK
  <2>3. size \in 1 .. Len(Queue)
    BY <1>3, <2>1, <2>2, AvailableIsUsed, QueueIsSeq DEF DequeueReserve
  <2> QED
    BY <1>1, <1>3, <2>3 DEF DequeueReserve, enqVars, Fifo!GetAccept, Fifo!putVars
<1> QED
  BY <1>2, <1>3 DEF Fifo!Next

(* The memcpys cannot be told from outside. *)
LEMMA CopyRefines ==
  ASSUME IInv,
         EnqueueCopyRight \/ EnqueueCopyRest \/ DequeueCopyRight \/ DequeueCopyRest
  PROVE  UNCHANGED Fifo!vars
<1>1. CASE EnqueueCopyRight
  <2>1. /\ enq_pc = "copy" /\ enq_pos \in Nat
        /\ MemorySize - enq_w_off \in Nat /\ MemorySize - enq_w_off <= enq_size
    BY <1>1, RunningHasCells, MemNat, SMTT(30) DEF ReachesEnd, EnqueueCopyRight, IInv, TypeOK, Cell
  <2>2. Queue' = Queue
    BY <1>1, <2>1, CopyInKeepsPublished, QueueKept DEF ReachesEnd, EnqueueCopyRight
  <2> QED
    BY <1>1, <2>2 DEF ReachesEnd, EnqueueCopyRight, deqVars, Fifo!vars, Fifo!putVars, Fifo!getVars
<1>2. CASE EnqueueCopyRest
  <2>1. /\ enq_pos \in Nat /\ enq_size \in Nat
        /\ \/ enq_pc = "copy" /\ enq_size <= MemorySize - enq_w_off
           \/ enq_pc = "rest"
    BY <1>2, RunningHasCells, MemNat DEF ReachesEnd, EnqueueCopyRest, IInv, TypeOK, Cell
  <2>2. Queue' = Queue
    BY <1>2, <2>1, CopyInKeepsPublished, QueueKept DEF ReachesEnd, EnqueueCopyRest
  <2> QED
    BY <1>2, <2>2 DEF ReachesEnd, EnqueueCopyRest, deqVars, Fifo!vars, Fifo!putVars, Fifo!getVars
<1>3. CASE DequeueCopyRight \/ DequeueCopyRest
  <2>1. Queue' = Queue
    BY <1>3, QueueKept DEF ReachesEnd, DequeueCopyRight, DequeueCopyRest
  <2> QED
    BY <1>3, <2>1 DEF ReachesEnd, DequeueCopyRight, DequeueCopyRest, enqVars,
                      Fifo!vars, Fifo!putVars, Fifo!getVars
<1> QED
  BY <1>1, <1>2, <1>3

(* The release store of an enqueue appends its bytes. *)
LEMMA EnqueueStoreRefines ==
  ASSUME IInv, EnqueueStore
  PROVE  Fifo!PutPublish
<1> DEFINE used == Used(write_offset, read_offset)
           len == Len(enq_arg)
<1>1. /\ MemorySize > 0 /\ MemorySize \in Nat
      /\ read_offset \in Cell /\ write_offset \in Cell
  BY RunningHasCells, MemNat DEF EnqueueStore
<1>2. /\ enq_arg \in Seq(Byte) /\ len \in Nat /\ used + len < MemorySize
      /\ enq_w_off = Wrap(write_offset + len)
      /\ \A i \in 1 .. len : queue_memory[Wrap(write_offset + i - 1)] = enq_arg[i]
  BY DEF EnqueueStore, IInv, TypeOK, EnqueueInv, Copied
<1>3. Queue \in Seq(Byte) /\ Len(Queue) = used /\ used \in Nat
  BY QueueIsSeq
<1>5. Used(write_offset, read_offset)' = used + len
  <2>1. Used(write_offset, read_offset)' = Used(enq_w_off, read_offset)
    BY DEF EnqueueStore, Used
  <2> QED
    BY <1>1, <1>2, <2>1, UsedGrows
<1>6. ASSUME NEW i \in 1 .. used + len
      PROVE  Queue'[i] = (Queue \o enq_arg)[i]
  <2>1. Queue'[i] = queue_memory[Wrap(read_offset + i - 1)]
    BY <1>5 DEF Queue, Wrap, EnqueueStore
  <2>2. CASE i <= used
    BY <2>1, <2>2, <1>2, <1>3, ConcatProperties DEF Queue
  <2>3. CASE i > used
    <3>1. /\ i - used \in 1 .. len
          /\ Wrap(read_offset + i - 1) = Wrap(write_offset + (i - used) - 1)
      BY <2>3, <1>1, <1>2, <1>3 DEF Used, Wrap, Cell
    <3> HIDE DEF used
    <3>2. (Queue \o enq_arg)[i] = enq_arg[i - used]
      BY <2>3, <1>2, <1>3, ConcatProperties
    <3> QED
      BY <2>1, <3>1, <3>2, <1>2
  <2> QED
    BY <2>2, <2>3, <1>2, <1>3
<1>7. Queue' = Queue \o enq_arg
  <2>1. /\ Queue \o enq_arg \in Seq(Byte)
        /\ Len(Queue \o enq_arg) = used + len
    BY <1>2, <1>3, ConcatProperties
  <2>2. \A i \in 1 .. used + len : (Queue \o enq_arg)[i] \in Byte
    BY <2>1, ElementOfSeq
  <2>3. Queue' = [i \in 1 .. used + len |-> Queue'[i]]
    BY <1>5 DEF Queue
  <2>4. Queue' = [i \in 1 .. used + len |-> (Queue \o enq_arg)[i]]
    BY <1>6, <2>3
  <2> HIDE DEF used, len
  <2> QED
    BY <2>1, <2>4, SeqIsItsElements
<1> QED
  BY <1>7 DEF EnqueueStore, deqVars, Fifo!PutPublish, Fifo!getVars

(* The release store of a dequeue removes its bytes, which the caller has. *)
LEMMA DequeueStoreRefines ==
  ASSUME IInv, DequeueStore
  PROVE  Fifo!GetRemove
<1> DEFINE used == Used(write_offset, read_offset)
<1>1. /\ MemorySize > 0 /\ MemorySize \in Nat
      /\ read_offset \in Cell /\ write_offset \in Cell
  BY RunningHasCells, MemNat DEF DequeueStore
<1>2. /\ deq_buf \in Seq(Byte) /\ Len(deq_buf) = deq_arg
      /\ deq_arg \in 1 .. used
      /\ deq_r_off = Wrap(read_offset + deq_arg)
      /\ \A i \in 1 .. deq_arg : deq_buf[i] = queue_memory[Wrap(read_offset + i - 1)]
  BY DEF DequeueStore, IInv, TypeOK, DequeueInv
<1>3. Queue \in Seq(Byte) /\ Len(Queue) = used /\ used \in Nat /\ used < MemorySize
  BY <1>1, QueueIsSeq
<1>4. Queue = [i \in 1 .. used |-> queue_memory[Wrap(read_offset + i - 1)]]
  BY DEF Queue
<1> HIDE DEF used
<1>5. deq_buf = SubSeq(Queue, 1, deq_arg)
  <2>1. \A i \in 1 .. deq_arg : Queue[i] \in Byte
    BY <1>2, <1>3, ElementOfSeq
  <2>2. /\ SubSeq(Queue, 1, deq_arg) \in Seq(Byte)
        /\ Len(SubSeq(Queue, 1, deq_arg)) = deq_arg
        /\ \A i \in 1 .. deq_arg : SubSeq(Queue, 1, deq_arg)[i] = Queue[i]
    BY <1>2, <1>3, <2>1, SubSeqProperties
  <2>3. \A i \in 1 .. deq_arg : deq_buf[i] = Queue[i]
    BY <1>2, <1>3, <1>4
  <2> QED
    BY <1>2, <2>2, <2>3, SeqEqual
<1>6. Used(write_offset, read_offset)' = used - deq_arg
  <2>1. Used(write_offset, read_offset)' = Used(write_offset, deq_r_off)
    BY DEF DequeueStore, Used
  <2> QED
    BY <1>1, <1>2, <1>3, <2>1, UsedShrinks DEF used
<1>7. ASSUME NEW i \in 1 .. used - deq_arg
      PROVE  Queue'[i] = SubSeq(Queue, deq_arg + 1, used)[i]
  <2>1. Queue'[i] = queue_memory[Wrap(deq_r_off + i - 1)]
    BY <1>6 DEF Queue, Wrap, DequeueStore
  <2>2. Wrap(deq_r_off + i - 1) = Wrap(read_offset + (deq_arg + i) - 1)
    BY <1>1, <1>2, <1>3 DEF Wrap, Cell
  <2>3. deq_arg + i \in 1 .. used
    BY <1>2, <1>3
  <2>4. Queue[deq_arg + i] = queue_memory[Wrap(read_offset + (deq_arg + i) - 1)]
    BY <1>4, <2>3
  <2>5. SubSeq(Queue, deq_arg + 1, used)[i] = Queue[deq_arg + i]
    BY <1>2, <1>3, <2>3
  <2> QED
    BY <2>1, <2>2, <2>4, <2>5
<1>8. Queue' = SubSeq(Queue, deq_arg + 1, Len(Queue))
  <2>1. /\ SubSeq(Queue, deq_arg + 1, used) \in Seq(Byte)
        /\ Len(SubSeq(Queue, deq_arg + 1, used)) = used - deq_arg
    <3>1. \A i \in deq_arg + 1 .. used : Queue[i] \in Byte
      BY <1>2, <1>3, ElementOfSeq
    <3> QED
      BY <1>2, <1>3, <3>1, SubSeqProperties
  <2>2. Queue' = [i \in 1 .. used - deq_arg |-> Queue'[i]]
    BY <1>6 DEF Queue
  <2>3. Queue' = [i \in 1 .. used - deq_arg |-> SubSeq(Queue, deq_arg + 1, used)[i]]
    BY <1>7, <2>2
  <2> QED
    BY <1>3, <2>1, <2>3, SeqIsItsElements
<1> QED
  BY <1>5, <1>8 DEF DequeueStore, enqVars, Fifo!GetRemove, Fifo!putVars

(* Every step of the ring buffer is a step of the byte queue or invisible. *)
LEMMA NextRefines == IInv /\ [Next]_vars => [Fifo!Next]_Fifo!vars
<1> SUFFICES ASSUME IInv, [Next]_vars PROVE [Fifo!Next]_Fifo!vars
  OBVIOUS
<1>1. CASE Enqueue
  BY <1>1, ReturnRefines, ReserveRefines, CopyRefines, EnqueueStoreRefines
  DEF Enqueue, Fifo!Next
<1>2. CASE Dequeue
  BY <1>2, ReturnRefines, ReserveRefines, CopyRefines, DequeueStoreRefines
  DEF Dequeue, Fifo!Next
<1>3. CASE UNCHANGED vars
  <2>1. Queue' = Queue
    BY <1>3, QueueKept DEF vars
  <2> QED
    BY <1>3, <2>1 DEF vars, enqVars, deqVars, Fifo!vars, Fifo!putVars, Fifo!getVars
<1> QED
  BY <1>1, <1>2, <1>3 DEF Next

(* The ring buffer behaves like the byte queue its two users are promised. *)
THEOREM Refinement == Spec => ImplementsFifo
<1> QED
  BY InitRefines, NextRefines, Invariance, PTL DEF Spec, ImplementsFifo, Fifo!Spec
==============================================================================
