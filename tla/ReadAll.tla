--------------------------------- MODULE ReadAll ---------------------------------
(***************************************************************************)
(* read_all of src/src/readall/main.c, which measures a file, allocates    *)
(* memory for it and reads it, while somebody else writes the file.        *)
(*                                                                         *)
(* The bytes of the file are different numbers at first, and every write   *)
(* replaces them from some place on, longer or shorter than they were.     *)
(***************************************************************************)
EXTENDS Integers, Sequences

CONSTANTS MaxSize,    \* bound: the length of the file
          MaxWrites,  \* bound: how often it changes while it is read
          None

VARIABLES file,    \* its bytes
          writes,  \* how often it has changed
          at,      \* where read_all is
          f,       \* whether its descriptor is open
          res, size,
          data,    \* None for NULL, else what has been read into the memory
          ended    \* whether the terminating zero is stored

vars == <<file, writes, at, f, res, size, data, ended>>

Init ==
    /\ \E n \in 0 .. MaxSize : file = [k \in 1 .. n |-> -k]
    /\ writes = 0
    /\ at = "open" /\ f = FALSE /\ res = FALSE
    /\ size = -1 /\ data = None /\ ended = FALSE

-------------------------------------------------------------------------------
Write ==
    /\ writes < MaxWrites
    /\ writes' = writes + 1
    /\ \E from \in 0 .. Len(file), to \in 0 .. MaxSize :
          /\ from <= to
          /\ file' = [k \in 1 .. to |-> IF k <= from THEN file[k] ELSE writes']
    /\ UNCHANGED <<at, f, res, size, data, ended>>

-------------------------------------------------------------------------------
OpenFails ==
    /\ at = "open"
    /\ at' = "check"
    /\ UNCHANGED <<file, writes, f, res, size, data, ended>>

Open ==
    /\ at = "open"
    /\ f' = TRUE
    /\ at' = "measure"
    /\ UNCHANGED <<file, writes, res, size, data, ended>>

(* A pipe, say, cannot be measured. *)
MeasureFails ==
    /\ at = "measure"
    /\ at' = "check"
    /\ UNCHANGED <<file, writes, f, res, size, data, ended>>

(* The end of the file, and back to its start; a failed malloc leaves the  *)
(* size behind all the same.                                               *)
Measure ==
    /\ at = "measure"
    /\ size' = Len(file)
    /\ \/ res' = TRUE /\ data' = <<>> /\ at' = "read"
       \/ res' = FALSE /\ data' = None /\ at' = "check"
    /\ UNCHANGED <<file, writes, f, ended>>

Reading == at = "read" /\ res /\ Len(data) < size

(* read returns some of what the file has now, and no more than is missing. *)
Read ==
    /\ Reading
    /\ Len(file) > Len(data)
    /\ \E n \in 1 .. Len(file) - Len(data) :
          /\ n <= size - Len(data)
          /\ data' = data \o SubSeq(file, Len(data) + 1, Len(data) + n)
    /\ UNCHANGED <<file, writes, at, f, res, size, ended>>

(* The file has become shorter, or read fails; a call that a signal has    *)
(* interrupted is made again and changes nothing.                          *)
ReadFails ==
    /\ Reading
    /\ res' = FALSE
    /\ UNCHANGED <<file, writes, at, f, size, data, ended>>

Terminate ==
    /\ at = "read" /\ ~Reading
    /\ ended' = TRUE
    /\ at' = "check"
    /\ UNCHANGED <<file, writes, f, res, size, data>>

(* Mutation: what has been read is kept. *)
CheckKeeps ==
    /\ at = "check"
    /\ at' = "close"
    /\ UNCHANGED <<file, writes, f, res, size, data, ended>>

Check ==
    /\ at = "check"
    /\ IF res THEN UNCHANGED <<data, size>> ELSE data' = None /\ size' = -1
    /\ at' = "close"
    /\ UNCHANGED <<file, writes, f, res, ended>>

Close ==
    /\ at = "close"
    /\ f' = FALSE
    /\ at' = "return"
    /\ UNCHANGED <<file, writes, res, size, data, ended>>

read_all ==
    \/ OpenFails \/ Open \/ MeasureFails \/ Measure
    \/ Read \/ ReadFails \/ Terminate \/ Check \/ Close

Next == Write \/ read_all

(* The program runs, and a signal does not interrupt every read. *)
Spec == Init /\ [][Next]_vars /\ WF_vars(read_all)

-------------------------------------------------------------------------------
(***************************************************************************)
(* Properties.                                                             *)
(***************************************************************************)

(* The memory has size + 1 bytes, and nothing is read into it beyond them, *)
(* whatever becomes of the file's length in the meantime.                  *)
StaysInMemory == data # None => Len(data) <= size

(* All or nothing: the caller gets a file's length of bytes with a zero    *)
(* behind them, or NULL and -1, and no descriptor stays open.              *)
AllOrNothing ==
    at = "return" =>
        /\ ~f
        /\ \/ data = None /\ size = -1
           \/ data # None /\ Len(data) = size /\ ended

(* A file nobody writes to meanwhile is returned as it is. *)
Faithful == at = "return" /\ data # None /\ writes = 0 => data = file

(* What read_all promises its caller, whoever writes the file meanwhile. *)
ReadSafety == StaysInMemory /\ AllOrNothing /\ Faithful

(* What keeps it from step to step: what read_all has of the file at each   *)
(* point, complete once it has terminated it.                              *)
Begun == data \in Seq(Int) /\ size \in Nat /\ Len(data) <= size

Complete == Begun /\ Len(data) = size /\ ended /\ (writes = 0 => data = file)

Prefix ==
    writes = 0 => size = Len(file) /\ \A k \in 1 .. Len(data) : data[k] = file[k]

Nothing == data = None /\ size = -1

IInv ==
    /\ file \in Seq(Int) /\ writes \in Nat /\ res \in BOOLEAN
    /\ at \in {"open", "measure", "read", "check", "close", "return"}
    /\ at \in {"open", "measure"} => Nothing /\ ~res
    /\ at = "read" => Begun /\ Prefix
    /\ at = "check" => IF res THEN Complete ELSE Begun \/ data = None
    /\ at \in {"close", "return"} => Nothing \/ Complete
    /\ at = "return" => ~f

(* read_all returns, even if the file becomes shorter than it was. *)
Returns == <>(at = "return")
==============================================================================
