----------------------------- MODULE BoundedFifo -----------------------------
(***************************************************************************)
(* What the one-to-one queue promises its two users: a first-in first-out  *)
(* queue of bytes with a capacity.  A put is all or nothing and is refused *)
(* exactly when its bytes do not fit at the moment it looks; a get is all  *)
(* or nothing and fails exactly when fewer bytes than asked for are there. *)
(* Bytes come out in the order they went in, each of them once.            *)
(***************************************************************************)
EXTENDS Integers, Sequences

CONSTANTS Byte,      \* the values of a byte
          Capacity   \* the number of bytes that fit

VARIABLES queue,     \* the published bytes, oldest first
          offered,   \* the bytes the latest put was called with
          putting,   \* that put was accepted and is not published yet
          enq_ret,   \* the result of the last finished put: 0 or -1
          asked,     \* the number of bytes the latest get was called with
          getting,   \* that get was accepted and has not taken its bytes yet
          deq_out,   \* the bytes the last successful get returned
          deq_ret    \* the result of the last finished get: 0 or -1

putVars == <<offered, putting, enq_ret>>
getVars == <<asked, getting, deq_out, deq_ret>>
vars == <<queue, putVars, getVars>>

Init ==
    /\ queue = <<>>
    /\ offered = <<>> /\ putting = FALSE /\ enq_ret = 0
    /\ asked = 0 /\ getting = FALSE /\ deq_out = <<>> /\ deq_ret = 0

(***************************************************************************)
(* The producer.                                                           *)
(***************************************************************************)
PutNothing ==
    /\ ~putting
    /\ offered' = <<>>
    /\ enq_ret' = 0
    /\ UNCHANGED <<queue, putting, getVars>>

PutRefuse ==
    /\ ~putting
    /\ offered' \in Seq(Byte)
    /\ Len(queue) + Len(offered') > Capacity
    /\ enq_ret' = -1
    /\ UNCHANGED <<queue, putting, getVars>>

PutAccept ==
    /\ ~putting
    /\ offered' \in Seq(Byte)
    /\ offered' # <<>>
    /\ Len(queue) + Len(offered') <= Capacity
    /\ putting' = TRUE
    /\ UNCHANGED <<queue, enq_ret, getVars>>

PutPublish ==
    /\ putting
    /\ queue' = queue \o offered
    /\ putting' = FALSE
    /\ enq_ret' = 0
    /\ UNCHANGED <<offered, getVars>>

(***************************************************************************)
(* The consumer.                                                           *)
(***************************************************************************)
GetNothing ==
    /\ ~getting
    /\ asked' = 0
    /\ deq_ret' = 0
    /\ UNCHANGED <<queue, getting, deq_out, putVars>>

GetRefuse ==
    /\ ~getting
    /\ asked' \in Nat
    /\ asked' > Len(queue)
    /\ deq_ret' = -1
    /\ UNCHANGED <<queue, getting, deq_out, putVars>>

GetAccept ==
    /\ ~getting
    /\ asked' \in 1 .. Len(queue)
    /\ getting' = TRUE
    /\ UNCHANGED <<queue, deq_out, deq_ret, putVars>>

GetRemove ==
    /\ getting
    /\ deq_out' = SubSeq(queue, 1, asked)
    /\ queue' = SubSeq(queue, asked + 1, Len(queue))
    /\ getting' = FALSE
    /\ deq_ret' = 0
    /\ UNCHANGED <<asked, putVars>>

Next ==
    \/ PutNothing \/ PutRefuse \/ PutAccept \/ PutPublish
    \/ GetNothing \/ GetRefuse \/ GetAccept \/ GetRemove

Spec == Init /\ [][Next]_vars
==============================================================================
