------------------------------- MODULE Primitives -------------------------------
(***************************************************************************)
(* The loops of src/src/sockets/primitives/main.c around an eventfd used   *)
(* as a semaphore (run_semaphore, run_poll, run_select), a timer           *)
(* descriptor (run_timefd), a pipe watched for edges (run_epoll) and the   *)
(* limit of descriptors (open_many_fd).  main runs one of them.            *)
(***************************************************************************)
EXTENDS Integers

CONSTANTS Initial,  \* 2, the first value of the eventfd
          Added,    \* 3, what run_semaphore adds to it
          Reads,    \* 10, how often it reads
          Slept,    \* 4, how often the timer expires in the first sleep
          Items,    \* 4, how many numbers run_epoll writes
          Rooms,    \* how many a pipe may take
          Opens,    \* 1024, how many descriptors open_many_fd wants
          Limits,   \* how many the process may have
          MaxTicks  \* bound: how often the timer expires

VARIABLES loop,     \* which function main runs
          at,       \* where it is
          count,    \* what is in the eventfd, the timer or the pipe
          room,     \* how many numbers its pipe takes, or descriptors it may have
          ticks,    \* how often the timer has expired
          edge,     \* whether epoll has something to report
          i,        \* the loop counter
          sum       \* of the numbers printed, with 1 for each number of the pipe

vars == <<loop, at, count, room, ticks, edge, i, sum>>

Init ==
    /\ loop \in {"semaphore", "poll", "timerfd", "epoll", "open"}
    /\ at = CASE loop = "semaphore" -> "write" [] loop = "timerfd" -> "sleep"
              [] loop = "epoll" -> "fill" [] OTHER -> loop
    /\ count = IF loop \in {"semaphore", "poll"} THEN Initial ELSE 0
    /\ room \in CASE loop = "epoll" -> Rooms [] loop = "open" -> Limits [] OTHER -> {0}
    /\ ticks = 0 /\ edge = FALSE /\ i = 0 /\ sum = 0

Goes(from, to) == at = from /\ at' = to

-------------------------------------------------------------------------------
(* run_semaphore: write, and reads that take 1 each and wait for it. *)
Add ==
    /\ Goes("write", "read")
    /\ count' = count + Added
    /\ UNCHANGED <<loop, room, ticks, edge, i, sum>>

(* Mutation: the eventfd is no semaphore, and a read takes all of it. *)
AcquireAll ==
    /\ Goes("read", "read") /\ i < Reads
    /\ count > 0 /\ count' = 0
    /\ i' = i + 1 /\ sum' = sum + count
    /\ UNCHANGED <<loop, room, ticks, edge>>

Acquire ==
    /\ Goes("read", "read") /\ i < Reads
    /\ count > 0 /\ count' = count - 1
    /\ i' = i + 1 /\ sum' = sum + 1
    /\ UNCHANGED <<loop, room, ticks, edge>>

-------------------------------------------------------------------------------
(* run_poll, and run_select, which does the same with other flags: the     *)
(* descriptor is always writable, and readable while there is something.   *)
Poll ==
    /\ Goes("poll", IF count > 0 THEN "take" ELSE "poll")
    /\ UNCHANGED <<loop, count, room, ticks, edge, i, sum>>

Take ==
    /\ Goes("take", "poll")
    /\ count > 0 /\ count' = count - 1
    /\ sum' = sum + 1
    /\ UNCHANGED <<loop, room, ticks, edge, i>>

-------------------------------------------------------------------------------
(* run_timefd: a read returns the expirations since the last one. *)
Expire ==
    /\ loop = "timerfd" /\ ticks < MaxTicks
    /\ ticks' = ticks + 1 /\ count' = count + 1
    /\ UNCHANGED <<loop, at, room, edge, i, sum>>

Wake ==
    /\ ticks >= Slept
    /\ Goes("sleep", "timer")
    /\ UNCHANGED <<loop, count, room, ticks, edge, i, sum>>

(* Mutation: each read counts as one expiration. *)
ReadTimerOnce ==
    /\ Goes("timer", "timer")
    /\ count > 0 /\ count' = 0
    /\ sum' = sum + 1
    /\ UNCHANGED <<loop, room, ticks, edge, i>>

ReadTimer ==
    /\ Goes("timer", "timer")
    /\ count > 0 /\ count' = 0
    /\ sum' = sum + count
    /\ UNCHANGED <<loop, room, ticks, edge, i>>

-------------------------------------------------------------------------------
(* run_epoll: a write makes an edge, which epoll_wait reports once.  The   *)
(* pipe does not block: a full one is an error, and the program ends.      *)
Fill ==
    /\ Goes("fill", IF count = room THEN "exited" ELSE IF i + 1 = Items THEN "wait" ELSE "fill")
    /\ IF count = room THEN UNCHANGED <<count, edge, i>>
       ELSE count' = count + 1 /\ edge' = TRUE /\ i' = i + 1
    /\ UNCHANGED <<loop, room, ticks, sum>>

EpollWait ==
    /\ edge /\ edge' = FALSE
    /\ Goes("wait", "drain")
    /\ UNCHANGED <<loop, count, room, ticks, i, sum>>

(* Mutation: one read for each event. *)
DrainOne ==
    /\ Goes("drain", "wait")
    /\ IF count > 0 THEN count' = count - 1 /\ sum' = sum + 1
                    ELSE UNCHANGED <<count, sum>>
    /\ UNCHANGED <<loop, room, ticks, edge, i>>

(* Reads go on until one fails because the pipe is empty. *)
Drain ==
    /\ Goes("drain", IF count > 0 THEN "drain" ELSE "wait")
    /\ IF count > 0 THEN count' = count - 1 /\ sum' = sum + 1
                    ELSE UNCHANGED <<count, sum>>
    /\ UNCHANGED <<loop, room, ticks, edge, i>>

-------------------------------------------------------------------------------
(* open_many_fd tries again, for ever, when it gets none. *)
Open ==
    /\ Goes("open", IF i + 1 = Opens THEN "opened" ELSE "open")
    /\ i < room
    /\ i' = i + 1
    /\ UNCHANGED <<loop, count, room, ticks, edge, sum>>

-------------------------------------------------------------------------------
Program ==
    Add \/ Acquire \/ Poll \/ Take \/ Wake \/ ReadTimer \/ Fill \/ EpollWait \/ Drain \/ Open

Next == Expire \/ Program

-------------------------------------------------------------------------------
(***************************************************************************)
(* Properties.                                                             *)
(***************************************************************************)

(* No expiration is lost or counted twice, however late the reads are; the *)
(* pipe never holds a number that epoll will not report, although several  *)
(* edges were reported as one; run_poll reads only when it does not wait.  *)
NothingUnreported ==
    /\ loop = "timerfd" => sum + count = ticks
    /\ at = "wait" /\ count > 0 => edge
    /\ at = "take" => count > 0

(* What keeps it from step to step: each loop has its own places, and once *)
(* main has left the loop that drains the pipe it is empty.                *)
IInv ==
    /\ count \in Nat /\ ticks \in Nat /\ i \in Nat /\ sum \in Nat /\ edge \in BOOLEAN
    /\ at \in {"write", "read"} => loop = "semaphore"
    /\ at \in {"poll", "take"} => loop = "poll"
    /\ at \in {"sleep", "timer"} => loop = "timerfd"
    /\ at \in {"fill", "wait", "drain"} => loop = "epoll"
    /\ loop = "timerfd" => sum + count = ticks
    /\ at \in {"fill", "wait"} /\ count > 0 => edge
    /\ at = "take" => count > 0

(* Where the loops come to rest: run_semaphore gets the permits that were  *)
(* put in, one a read, and its next read waits for ever; all numbers come  *)
(* out of the pipe, if they fit; and open_many_fd tries for ever behind    *)
(* the limit.                                                              *)
ComesToRest ==
    /\ loop = "semaphore" =>
          <>[](sum = i /\ i = IF Reads < Initial + Added THEN Reads ELSE Initial + Added)
    /\ loop = "epoll" => <>[](IF room < Items THEN at = "exited" ELSE sum = Items)
    /\ loop = "open" => <>[](at = IF room < Opens THEN "open" ELSE "opened")
==============================================================================
