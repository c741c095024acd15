----------------------------- MODULE AtomicQueue -----------------------------
(***************************************************************************)
(* The single-producer single-consumer byte queue of                       *)
(* src/src/atomic/one-to-one-queue.h.  A header (read_offset, write_offset,*)
(* memory_size) is followed in the same buffer by memory_size cells.  The  *)
(* producer owns write_offset, the consumer owns read_offset, and each     *)
(* reads the other's offset with an acquire load and publishes its own     *)
(* with a release store.                                                   *)
(*                                                                         *)
(* A step makes at most one access to memory the two threads share: the    *)
(* load of the other side's offset together with the local arithmetic that *)
(* follows it, one memcpy, or the release store.  An acquire load may      *)
(* return an old offset; that is a behaviour in which the step that loads  *)
(* it came earlier.  A memcpy is one step because the cells it touches are *)
(* never touched by the other thread meanwhile, which is NoOverlap below.  *)
(***************************************************************************)
EXTENDS Integers, Sequences

CONSTANTS BufferSize,   \* buffer_size, the argument of atomic_queue_init
          HeaderSize,   \* sizeof(atomic_queue_t)
          Byte,         \* the values of a byte
          MaxRequest    \* bound: the largest size argument of a call

(* With a smaller buffer atomic_queue_init returns NULL: there is no queue. *)
ASSUME BufferAssumption ==
    /\ HeaderSize \in Nat
    /\ BufferSize \in Nat
    /\ BufferSize >= HeaderSize

ASSUME RequestAssumption == MaxRequest \in Nat

MemorySize == BufferSize - HeaderSize
Cell == 0 .. MemorySize - 1

VARIABLES read_offset, write_offset,   \* queue->read_offset, ->write_offset
          queue_memory,                \* the cells behind the header
          enq_pc,      \* where the producer is in atomic_queue_try_enqueue
          enq_arg,     \* the bytes of its latest call
          enq_pos,     \* how far data has advanced into them
          enq_size,    \* its local size: bytes left to copy
          enq_w_off,   \* its local w_off
          enq_ret,     \* the value its last finished call returned
          deq_pc,      \* where the consumer is in atomic_queue_try_dequeue
          deq_arg,     \* the size of its latest call
          deq_size,    \* its local size: bytes left to copy
          deq_r_off,   \* its local r_off
          deq_buf,     \* the bytes it has copied to the caller's buffer
          deq_out,     \* the caller's buffer after its last successful call
          deq_ret      \* the value its last finished call returned

enqVars == <<enq_pc, enq_arg, enq_pos, enq_size, enq_w_off, enq_ret>>
deqVars == <<deq_pc, deq_arg, deq_size, deq_r_off, deq_buf, deq_out, deq_ret>>
vars == <<read_offset, write_offset, queue_memory, enqVars, deqVars>>

Request == UNION {[1 .. n -> Byte] : n \in 0 .. MaxRequest}

(* The code initialises the header and leaves the cells as they are. *)
Init ==
    /\ read_offset = 0 /\ write_offset = 0
    /\ queue_memory \in [Cell -> Byte]
    /\ enq_pc = "idle" /\ enq_arg = <<>> /\ enq_pos = 0 /\ enq_size = 0
    /\ enq_w_off = 0 /\ enq_ret = 0
    /\ deq_pc = "idle" /\ deq_arg = 0 /\ deq_size = 0 /\ deq_r_off = 0
    /\ deq_buf = <<>> /\ deq_out = <<>> /\ deq_ret = 0

-------------------------------------------------------------------------------
(* Mutation: every cell but those in use is free, with none kept back. *)
FreeSpaceAllCells(r_off, w_off) ==
    MemorySize - ((w_off + MemorySize - r_off) % MemorySize)

(***************************************************************************)
(* Arithmetic and copies shared by the two calls.                          *)
(***************************************************************************)
FreeSpace(r_off, w_off) == (r_off + MemorySize - 1 - w_off) % MemorySize

AvailableData(w_off, r_off) == (w_off + MemorySize - r_off) % MemorySize

(* size >= right_free: the bytes fill the cells up to the last one. *)
ReachesEnd(size, off) == size >= MemorySize - off

(* The cells after memcpy(&queue_memory[off], data, n), where data points *)
(* behind the first pos bytes of the call's argument.                     *)
CopyIn(off, pos, n) ==
    [k \in Cell |-> IF k \in off .. off + n - 1 THEN enq_arg[pos + k - off + 1]
                                                ELSE queue_memory[k]]

(* The bytes memcpy(data, &queue_memory[off], n) delivers. *)
CopyOut(off, n) == [i \in 1 .. n |-> queue_memory[off + i - 1]]

-------------------------------------------------------------------------------
(***************************************************************************)
(* atomic_queue_try_enqueue(queue, data, Len(data)).                       *)
(***************************************************************************)
EnqueueReturn(data, ret) ==
    /\ enq_arg' = data
    /\ enq_ret' = ret
    /\ UNCHANGED <<read_offset, write_offset, queue_memory,
                   enq_pc, enq_pos, enq_size, enq_w_off, deqVars>>

EnqueueTooLarge(data) ==
    /\ enq_pc = "idle"
    /\ Len(data) > MemorySize
    /\ EnqueueReturn(data, -1)

EnqueueNothing(data) ==
    /\ enq_pc = "idle"
    /\ Len(data) <= MemorySize
    /\ Len(data) = 0
    /\ EnqueueReturn(data, 0)

EnqueueNoSpace(data) ==
    /\ enq_pc = "idle"
    /\ Len(data) \in 1 .. MemorySize
    /\ Len(data) > FreeSpace(read_offset, write_offset)
    /\ EnqueueReturn(data, -1)

EnqueueReserve(data) ==
    /\ enq_pc = "idle"
    /\ Len(data) \in 1 .. MemorySize
    /\ Len(data) <= FreeSpace(read_offset, write_offset)
    /\ enq_pc' = "copy"
    /\ enq_arg' = data
    /\ enq_pos' = 0
    /\ enq_size' = Len(data)
    /\ enq_w_off' = write_offset
    /\ UNCHANGED <<read_offset, write_offset, queue_memory, enq_ret, deqVars>>

(* The bytes reach the last cell: fill up to it and go on at cell 0. *)
EnqueueCopyRight ==
    LET right_free == MemorySize - enq_w_off
    IN  /\ enq_pc = "copy"
        /\ ReachesEnd(enq_size, enq_w_off)
        /\ queue_memory' = CopyIn(enq_w_off, enq_pos, right_free)
        /\ enq_w_off' = 0
        /\ enq_pos' = enq_pos + right_free
        /\ enq_size' = enq_size - right_free
        /\ enq_pc' = "rest"
        /\ UNCHANGED <<read_offset, write_offset, enq_arg, enq_ret, deqVars>>

EnqueueCopyRest ==
    /\ \/ enq_pc = "rest"
       \/ enq_pc = "copy" /\ ~ReachesEnd(enq_size, enq_w_off)
    /\ queue_memory' = CopyIn(enq_w_off, enq_pos, enq_size)
    /\ enq_w_off' = enq_w_off + enq_size
    /\ enq_pc' = "store"
    /\ UNCHANGED <<read_offset, write_offset, enq_arg, enq_pos, enq_size, enq_ret,
                   deqVars>>

EnqueueStore ==
    /\ enq_pc = "store"
    /\ write_offset' = enq_w_off
    /\ enq_ret' = 0
    /\ enq_pc' = "idle"
    /\ UNCHANGED <<read_offset, queue_memory, enq_arg, enq_pos, enq_size,
                   enq_w_off, deqVars>>

-------------------------------------------------------------------------------
(***************************************************************************)
(* atomic_queue_try_dequeue(queue, data, size).                            *)
(***************************************************************************)
DequeueReturn(size, ret) ==
    /\ deq_arg' = size
    /\ deq_ret' = ret
    /\ UNCHANGED <<read_offset, write_offset, queue_memory,
                   deq_pc, deq_size, deq_r_off, deq_buf, deq_out, enqVars>>

DequeueTooLarge(size) ==
    /\ deq_pc = "idle"
    /\ size > MemorySize
    /\ DequeueReturn(size, -1)

DequeueNothing(size) ==
    /\ deq_pc = "idle"
    /\ size <= MemorySize
    /\ size = 0
    /\ DequeueReturn(size, 0)

DequeueNoData(size) ==
    /\ deq_pc = "idle"
    /\ size \in 1 .. MemorySize
    /\ size > AvailableData(write_offset, read_offset)
    /\ DequeueReturn(size, -1)

DequeueReserve(size) ==
    /\ deq_pc = "idle"
    /\ size \in 1 .. MemorySize
    /\ size <= AvailableData(write_offset, read_offset)
    /\ deq_pc' = "copy"
    /\ deq_arg' = size
    /\ deq_size' = size
    /\ deq_r_off' = read_offset
    /\ deq_buf' = <<>>
    /\ UNCHANGED <<read_offset, write_offset, queue_memory, deq_out, deq_ret, enqVars>>

DequeueCopyRight ==
    LET right_free == MemorySize - deq_r_off
    IN  /\ deq_pc = "copy"
        /\ ReachesEnd(deq_size, deq_r_off)
        /\ deq_buf' = CopyOut(deq_r_off, right_free)
        /\ deq_r_off' = 0
        /\ deq_size' = deq_size - right_free
        /\ deq_pc' = "rest"
        /\ UNCHANGED <<read_offset, write_offset, queue_memory,
                       deq_arg, deq_out, deq_ret, enqVars>>

(* Mutation: the second memcpy starts at the front of the caller's buffer. *)
DequeueCopyRestSameData ==
    /\ \/ deq_pc = "rest"
       \/ deq_pc = "copy" /\ ~ReachesEnd(deq_size, deq_r_off)
    /\ deq_buf' = CopyOut(deq_r_off, deq_size)
    /\ deq_r_off' = deq_r_off + deq_size
    /\ deq_pc' = "store"
    /\ UNCHANGED <<read_offset, write_offset, queue_memory,
                   deq_arg, deq_size, deq_out, deq_ret, enqVars>>

DequeueCopyRest ==
    /\ \/ deq_pc = "rest"
       \/ deq_pc = "copy" /\ ~ReachesEnd(deq_size, deq_r_off)
    /\ deq_buf' = deq_buf \o CopyOut(deq_r_off, deq_size)
    /\ deq_r_off' = deq_r_off + deq_size
    /\ deq_pc' = "store"
    /\ UNCHANGED <<read_offset, write_offset, queue_memory,
                   deq_arg, deq_size, deq_out, deq_ret, enqVars>>

DequeueStore ==
    /\ deq_pc = "store"
    /\ read_offset' = deq_r_off
    /\ deq_out' = deq_buf
    /\ deq_buf' = <<>>
    /\ deq_ret' = 0
    /\ deq_pc' = "idle"
    /\ UNCHANGED <<write_offset, queue_memory, deq_arg, deq_size, deq_r_off, enqVars>>

-------------------------------------------------------------------------------
Enqueue ==
    \/ \E data \in Request : \/ EnqueueTooLarge(data)
                             \/ EnqueueNothing(data)
                             \/ EnqueueNoSpace(data)
                             \/ EnqueueReserve(data)
    \/ EnqueueCopyRight \/ EnqueueCopyRest \/ EnqueueStore

Dequeue ==
    \/ \E size \in 0 .. MaxRequest : \/ DequeueTooLarge(size)
                                     \/ DequeueNothing(size)
                                     \/ DequeueNoData(size)
                                     \/ DequeueReserve(size)
    \/ DequeueCopyRight \/ DequeueCopyRest \/ DequeueStore

Next == Enqueue \/ Dequeue

Spec == Init /\ [][Next]_vars

-------------------------------------------------------------------------------
(***************************************************************************)
(* Properties.                                                             *)
(***************************************************************************)

(* The distance from r to w going up around the ring, and the cell a       *)
(* position that may have passed the end stands for.                       *)
Used(w, r) == IF r <= w THEN w - r ELSE w + MemorySize - r
Wrap(k) == IF k < MemorySize THEN k ELSE k - MemorySize

(* An offset is 0 or names a cell; the queue may have no cells at all. *)
Offset == {k \in 0 .. MemorySize : k = 0 \/ k < MemorySize}

(* Every variable holds a value of its C type, and both offsets, shared    *)
(* and local, stay inside the cells: the wrap test is >=, so an offset     *)
(* never rests at memory_size.                                             *)
TypeOK ==
    /\ read_offset \in Offset /\ write_offset \in Offset
    /\ queue_memory \in [Cell -> Byte]
    /\ enq_pc \in {"idle", "copy", "rest", "store"}
    /\ enq_arg \in Seq(Byte)
    /\ enq_pos \in Nat /\ enq_size \in Nat
    /\ enq_w_off \in Offset
    /\ enq_ret \in {0, -1}
    /\ deq_pc \in {"idle", "copy", "rest", "store"}
    /\ deq_arg \in Nat /\ deq_size \in Nat
    /\ deq_r_off \in Offset
    /\ deq_buf \in Seq(Byte) /\ deq_out \in Seq(Byte)
    /\ deq_ret \in {0, -1}

(* The cells the producer, and the consumer, still has to copy. *)
Writing == {Wrap(enq_w_off + i) : i \in 0 .. enq_size - 1}
Reading == {Wrap(deq_r_off + i) : i \in 0 .. deq_size - 1}

(* The two memcpys of a running enqueue and a running dequeue never touch  *)
(* the same cell, although each call judged its space from an offset the   *)
(* other thread may have moved since.                                      *)
NoOverlap ==
    (enq_pc \in {"copy", "rest"} /\ deq_pc \in {"copy", "rest"})
        => Writing \cap Reading = {}

(* The published bytes and those of a running enqueue always leave one     *)
(* cell free, so that equal offsets can only mean an empty queue: a full   *)
(* queue never looks empty.                                                *)
OneCellFree ==
    MemorySize > 0 =>
        Used(write_offset, read_offset)
            + (IF enq_pc = "idle" THEN 0 ELSE Len(enq_arg)) < MemorySize

(* How many bytes of the running enqueue are in the cells already. *)
Copied ==
    CASE enq_pc = "rest"  -> enq_pos
      [] enq_pc = "store" -> Len(enq_arg)
      [] OTHER            -> 0

(* What a running enqueue relies on.  Its bytes still fit, whatever the    *)
(* consumer has taken since the load of read_offset, and those copied so   *)
(* far stand in the cells from write_offset on.                            *)
EnqueueInv ==
    enq_pc # "idle" =>
        /\ Len(enq_arg) >= 1
        /\ Used(write_offset, read_offset) + Len(enq_arg) < MemorySize
        /\ enq_pc = "copy" =>
              enq_pos = 0 /\ enq_size = Len(enq_arg) /\ enq_w_off = write_offset
        /\ enq_pc = "rest" =>
              /\ enq_pos = MemorySize - write_offset
              /\ enq_pos + enq_size = Len(enq_arg)
              /\ enq_w_off = 0
        /\ enq_pc = "store" => enq_w_off = Wrap(write_offset + Len(enq_arg))
        /\ \A i \in 1 .. Copied :
              queue_memory[Wrap(write_offset + i - 1)] = enq_arg[i]

(* What a running dequeue relies on.  Its bytes are still published and    *)
(* unchanged, whatever the producer has added since the load of            *)
(* write_offset, and deq_buf holds the first of them.                      *)
DequeueInv ==
    deq_pc # "idle" =>
        /\ deq_arg \in 1 .. Used(write_offset, read_offset)
        /\ deq_pc = "copy" =>
              deq_size = deq_arg /\ deq_r_off = read_offset /\ Len(deq_buf) = 0
        /\ deq_pc = "rest" =>
              /\ Len(deq_buf) = MemorySize - read_offset
              /\ deq_size + Len(deq_buf) = deq_arg
              /\ deq_r_off = 0
        /\ deq_pc = "store" =>
              Len(deq_buf) = deq_arg /\ deq_r_off = Wrap(read_offset + deq_arg)
        /\ \A i \in 1 .. Len(deq_buf) :
              deq_buf[i] = queue_memory[Wrap(read_offset + i - 1)]

(* The inductive invariant behind all of them: the offsets and regions of  *)
(* both calls fit together at every interleaving of their steps.           *)
IInv == TypeOK /\ EnqueueInv /\ DequeueInv

(* The published bytes, oldest first. *)
Queue == [i \in 1 .. Used(write_offset, read_offset) |->
             queue_memory[Wrap(read_offset + i - 1)]]

Fifo == INSTANCE BoundedFifo WITH
            Capacity <- MemorySize - 1,
            queue <- Queue,
            offered <- enq_arg,
            putting <- (enq_pc # "idle"),
            asked <- deq_arg,
            getting <- (deq_pc # "idle")

(* The ring buffer is the byte queue of BoundedFifo with one byte less     *)
(* than memory_size: every byte comes out once and in order, a call fails  *)
(* only if its bytes did not fit or were not there when it looked, and an  *)
(* enqueue becomes visible as a whole at its release store.                *)
ImplementsFifo == Fifo!Spec
==============================================================================
