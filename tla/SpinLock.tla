------------------------------- MODULE SpinLock -------------------------------
(***************************************************************************)
(* SpinLock and run_atomic of src/src/cppthread/thread/main.cpp: main      *)
(* locks, tries, releases and tries again, and waits in lock() for another *)
(* thread's release.  A weak compare-exchange may fail for no reason.      *)
(***************************************************************************)
EXTENDS Integers, Sequences

Calls == <<"lock", "try", "try", "release", "try", "try", "thread", "lock", "join">>

VARIABLES weak,    \* whether compare_exchange_weak fails like that
          locked_,
          i,       \* the call main is in: Calls[i]
          thread,  \* where th is
          printed  \* what the calls of try_lock have returned

vars == <<weak, locked_, i, thread, printed>>

Init ==
    /\ weak \in BOOLEAN
    /\ locked_ = 0
    /\ i = 1
    /\ thread = "none"
    /\ printed = <<>>

Calling(call) == i <= Len(Calls) /\ Calls[i] = call /\ i' = i + 1

(* Mutation: a store in place of the exchange. *)
StoreLocked == locked_' = 1

CasSucceeds == locked_ = 0 /\ locked_' = 1
CasFails == (locked_ = 1 \/ weak) /\ UNCHANGED locked_

-------------------------------------------------------------------------------
(* lock goes on until a try succeeds. *)
Lock == Calling("lock") /\ CasSucceeds /\ UNCHANGED <<weak, thread, printed>>

TryLock ==
    /\ Calling("try")
    /\ \/ CasSucceeds /\ printed' = Append(printed, 1)
       \/ CasFails /\ printed' = Append(printed, 0)
    /\ UNCHANGED <<weak, thread>>

Release == Calling("release") /\ locked_' = 0 /\ UNCHANGED <<weak, thread, printed>>

StartThread ==
    /\ Calling("thread")
    /\ thread' = "release"
    /\ UNCHANGED <<weak, locked_, printed>>

ThreadReleases ==
    /\ thread = "release"
    /\ thread' = "done"
    /\ locked_' = 0
    /\ UNCHANGED <<weak, i, printed>>

Join ==
    /\ thread = "done"
    /\ Calling("join")
    /\ UNCHANGED <<weak, locked_, thread, printed>>

-------------------------------------------------------------------------------
MainStep == Lock \/ TryLock \/ Release \/ StartThread \/ Join

Next == MainStep \/ ThreadReleases

-------------------------------------------------------------------------------
(* Nobody gets a lock that is held: a try under the lock fails, and of two *)
(* tries one at most gets it.  In the end main holds the lock, unless both *)
(* tries failed for no reason: then its lock() may come before the release *)
(* that it was to wait for, which takes the lock away from it.             *)
LockIsHeld ==
    /\ \A k \in 1 .. Len(printed) : k <= 2 => printed[k] = 0
    /\ Len(printed) = 4 => printed[3] + printed[4] <= 1
    /\ i > Len(Calls) /\ locked_ = 0 => weak /\ printed[3] + printed[4] = 0

(* What keeps it from step to step: who holds the lock at each call.  Got   *)
(* is how many of the two tries after main's release have got it.          *)
Got == printed[3] + printed[4]

IInv ==
    /\ i \in 1 .. 10 /\ locked_ \in {0, 1} /\ weak \in BOOLEAN
    /\ printed \in Seq({0, 1}) /\ thread \in {"none", "release", "done"}
    /\ Len(printed) = (IF i <= 2 THEN 0 ELSE IF i = 3 THEN 1 ELSE IF i <= 5 THEN 2
                       ELSE IF i = 6 THEN 3 ELSE 4)
    /\ i >= 3 => printed[1] = 0
    /\ i >= 4 => printed[2] = 0
    /\ i \in {1, 5} => locked_ = 0
    /\ i \in {2, 3, 4} => locked_ = 1
    /\ i = 6 => locked_ = printed[3] /\ (weak \/ printed[3] = 1)
    /\ i >= 7 => Got <= 1 /\ (weak \/ Got = 1)
    /\ i <= 7 <=> thread = "none"
    /\ i = 7 \/ (i = 8 /\ thread = "release") => locked_ = Got
    /\ i = 8 /\ thread = "done" => locked_ = 0
    /\ i = 9 /\ thread = "release" => locked_ = 1 /\ Got = 0
    /\ i >= 9 /\ thread = "done" => locked_ = 1 \/ Got = 0
    /\ i = 10 => thread = "done"

(* lock() returns and main joins the thread. *)
LockReturns == <>(i > Len(Calls))
==============================================================================
