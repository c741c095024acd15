------------------------------ MODULE Semaphore ------------------------------
(***************************************************************************)
(* The counting semaphore of src/src/cppthread/thread/main.cpp, made of a  *)
(* mutex, a condition variable and a counter, and threads that call it as  *)
(* their program says (run_semaphore is one such set of programs).         *)
(*                                                                         *)
(* The mutex and the condition variable are the C++ library's: locking     *)
(* waits until the mutex is free, cond_.wait releases it and sleeps in one *)
(* step, a sleeping thread wakes when notified or for no reason, and then  *)
(* locks the mutex again before it goes on.                                *)
(***************************************************************************)
EXTENDS Integers, Sequences, FiniteSets

CONSTANTS Thread,    \* finitely many
          NoThread,  \* none of them
          Initial,   \* the argument of the constructor
          Program    \* the calls of each thread, "acquire" or "release"

VARIABLES counter_,   \* permits left
          mutex_,     \* the thread that holds the mutex
          pc,         \* where each thread is
          returned    \* how many of its calls have returned

vars == <<counter_, mutex_, pc, returned>>

Init ==
    /\ counter_ = Initial
    /\ mutex_ = NoThread
    /\ pc = [t \in Thread |-> "out"]
    /\ returned = [t \in Thread |-> 0]

Calls(t, call) ==
    /\ pc[t] = "out"
    /\ returned[t] < Len(Program[t])
    /\ Program[t][returned[t] + 1] = call

Lock(t) == mutex_ = NoThread /\ mutex_' = t
Unlock(t) == mutex_ = t /\ mutex_' = NoThread
Goto(t, label) == pc' = [pc EXCEPT ![t] = label]
Return(t) == Goto(t, "out") /\ returned' = [returned EXCEPT ![t] = @ + 1]

-------------------------------------------------------------------------------
(***************************************************************************)
(* acquire                                                                 *)
(***************************************************************************)
AcquireLock(t) ==
    /\ Calls(t, "acquire")
    /\ Lock(t)
    /\ Goto(t, "check")
    /\ UNCHANGED <<counter_, returned>>

(* counter_ == 0: cond_.wait(guard) *)
AcquireWait(t) ==
    /\ pc[t] = "check"
    /\ counter_ = 0
    /\ Unlock(t)
    /\ Goto(t, "asleep")
    /\ UNCHANGED <<counter_, returned>>

WakeSpuriously(t) ==
    /\ pc[t] = "asleep"
    /\ Goto(t, "awake")
    /\ UNCHANGED <<counter_, mutex_, returned>>

(* cond_.wait returns with the mutex locked, and the loop checks again. *)
AcquireRelock(t) ==
    /\ pc[t] = "awake"
    /\ Lock(t)
    /\ Goto(t, "check")
    /\ UNCHANGED <<counter_, returned>>

(* counter_-- and the guard's destructor *)
AcquireTake(t) ==
    /\ pc[t] = "check"
    /\ counter_ # 0
    /\ counter_' = counter_ - 1
    /\ Unlock(t)
    /\ Return(t)

-------------------------------------------------------------------------------
(***************************************************************************)
(* release                                                                 *)
(***************************************************************************)
ReleaseLock(t) ==
    /\ Calls(t, "release")
    /\ Lock(t)
    /\ Goto(t, "post")
    /\ UNCHANGED <<counter_, returned>>

Asleep == {t \in Thread : pc[t] = "asleep"}

(* Mutation: notify only when the counter leaves zero. *)
ReleasePostFirstOnly(t) ==
    /\ pc[t] = "post"
    /\ counter_' = counter_ + 1
    /\ \/ (Asleep = {} \/ counter_ > 0) /\ Goto(t, "unlock")
       \/ /\ counter_ = 0
          /\ \E s \in Asleep : pc' = [pc EXCEPT ![t] = "unlock", ![s] = "awake"]
    /\ UNCHANGED <<mutex_, returned>>

(* counter_++ and cond_.notify_one(), which wakes any one sleeper *)
ReleasePost(t) ==
    /\ pc[t] = "post"
    /\ counter_' = counter_ + 1
    /\ \/ Asleep = {} /\ Goto(t, "unlock")
       \/ \E s \in Asleep : pc' = [pc EXCEPT ![t] = "unlock", ![s] = "awake"]
    /\ UNCHANGED <<mutex_, returned>>

ReleaseUnlock(t) ==
    /\ pc[t] = "unlock"
    /\ Unlock(t)
    /\ Return(t)
    /\ UNCHANGED counter_

-------------------------------------------------------------------------------
Step(t) ==
    \/ AcquireLock(t) \/ AcquireWait(t) \/ AcquireRelock(t) \/ AcquireTake(t)
    \/ ReleaseLock(t) \/ ReleasePost(t) \/ ReleaseUnlock(t)

Next == \E t \in Thread : Step(t) \/ WakeSpuriously(t)

Spec == Init /\ [][Next]_vars

(* The scheduler runs every thread, and a thread does not wake up for no    *)
(* reason again and again for ever.                                        *)
FairSpec ==
    /\ Spec
    /\ \A t \in Thread : WF_vars(Step(t))
    /\ <>[][\A t \in Thread : ~WakeSpuriously(t)]_vars

-------------------------------------------------------------------------------
(***************************************************************************)
(* Properties.                                                             *)
(***************************************************************************)

(* The threads that run acquire and are not asleep. *)
Awake == {t \in Thread : pc[t] \in {"check", "awake"}}

(* The mutex is held exactly by the thread inside the locked part of a     *)
(* call, and the unsigned counter never goes below zero, although a        *)
(* sleeper that was notified may find the permit taken by another thread.  *)
TypeOK ==
    /\ counter_ \in Nat
    /\ mutex_ \in Thread \cup {NoThread}
    /\ pc \in [Thread -> {"out", "check", "asleep", "awake", "post", "unlock"}]
    /\ returned \in [Thread -> Nat]
    /\ \A t \in Thread : pc[t] \in {"check", "post", "unlock"} <=> mutex_ = t

(* No wakeup is lost: while threads sleep, there are never more permits    *)
(* than threads on their way to take one.  A permit that nobody is coming  *)
(* for, with a sleeper waiting, would be a deadlock.                       *)
NoLostWakeup == Asleep # {} => counter_ <= Cardinality(Awake)

IInv == TypeOK /\ NoLostWakeup

(* How many of the first n[t] calls of every thread t are of one kind. *)
CallsAmong(n, call) ==
    Cardinality(UNION {{t} \X {i \in 1 .. n[t] : Program[t][i] = call} : t \in Thread})

ReturnedCalls(call) == CallsAmong(returned, call)
AllCalls(call) == CallsAmong([t \in Thread |-> Len(Program[t])], call)

(* In the end every permit anybody asks for is taken, and acquires beyond  *)
(* the permits block for ever: where every thread only acquires or only    *)
(* releases, nothing else can hold a thread back.  So run_semaphore prints *)
(* "ok" and never gets past its fourth acquire.                            *)
EveryPermitTaken ==
    LET permits == Initial + AllCalls("release")
        wanted == AllCalls("acquire")
        taken == IF wanted < permits THEN wanted ELSE permits
    IN  <>[](ReturnedCalls("acquire") = taken)
==============================================================================
