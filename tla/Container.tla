------------------------------- MODULE Container -------------------------------
(***************************************************************************)
(* struct Container of src/src/pthread/race-mutex/main.c: a value that one *)
(* thread at a time has, handed on with a mutex and a condition variable,  *)
(* and threads that acquire and release it again and again.  At first the  *)
(* container has its value.                                                *)
(***************************************************************************)
EXTENDS Integers, FiniteSets

CONSTANTS User,   \* the threads
          NoUser  \* the holder of a mutex that is free

VARIABLES mutex,    \* the thread that holds it, or NoUser
          exists,   \* as in the code
          at        \* where each thread is

vars == <<mutex, exists, at>>

Init ==
    /\ mutex = NoUser
    /\ exists = TRUE
    /\ at = [t \in User |-> "out"]

Goes(t, from, to) == at[t] = from /\ at' = [at EXCEPT ![t] = to]

-------------------------------------------------------------------------------
(* container_acquire: in the call, or woken up, it needs the mutex.        *)
Call(t) == Goes(t, "out", "acquire") /\ UNCHANGED <<mutex, exists>>

Lock(t, from, to) ==
    /\ mutex = NoUser /\ mutex' = t
    /\ Goes(t, from, to)
    /\ UNCHANGED exists

LockToAcquire(t) == Lock(t, "acquire", "look") \/ Lock(t, "woken", "look")

Take(t) ==
    /\ exists
    /\ Goes(t, "look", "has")
    /\ mutex' = NoUser /\ exists' = FALSE

(* pthread_cond_wait gives back the mutex; it may return without a signal. *)
Sleep(t) ==
    /\ ~exists
    /\ Goes(t, "look", "asleep")
    /\ mutex' = NoUser /\ UNCHANGED exists

WakeForNothing(t) == Goes(t, "asleep", "woken") /\ UNCHANGED <<mutex, exists>>

(* container_release: pthread_cond_signal wakes one of those asleep. *)
LockToRelease(t) == Lock(t, "has", "release")

(* Mutation: no signal. *)
ReleaseQuietly(t) ==
    /\ Goes(t, "release", "out")
    /\ mutex' = NoUser /\ exists' = TRUE

Release(t) ==
    /\ at[t] = "release"
    /\ LET asleep == {u \in User : at[u] = "asleep"}
       IN  IF asleep = {} THEN at' = [at EXCEPT ![t] = "out"]
           ELSE \E u \in asleep : at' = [at EXCEPT ![t] = "out", ![u] = "woken"]
    /\ mutex' = NoUser /\ exists' = TRUE

-------------------------------------------------------------------------------
Inside(t) == LockToAcquire(t) \/ Take(t) \/ Sleep(t) \/ LockToRelease(t) \/ Release(t)

Next == \E t \in User : Call(t) \/ Inside(t) \/ WakeForNothing(t)

-------------------------------------------------------------------------------
(***************************************************************************)
(* Properties.                                                             *)
(***************************************************************************)

(* The value is in the container or one thread has it; and no thread       *)
(* sleeps beside a value that is there while nobody is on the way to it,   *)
(* woken up or about to look.                                              *)
OneHasTheValue ==
    /\ Cardinality({t \in User : at[t] \in {"has", "release"}}) = IF exists THEN 0 ELSE 1
    /\ exists /\ (\E t \in User : at[t] = "asleep") =>
          \E t \in User : at[t] \in {"acquire", "woken", "look"}

(* What keeps it from step to step: the thread with the mutex is the one   *)
(* that looks at the value or puts it back.                                *)
IInv ==
    /\ at \in [User -> {"out", "acquire", "look", "asleep", "woken", "has", "release"}]
    /\ exists \in BOOLEAN
    /\ \A t \in User : at[t] \in {"look", "release"} <=> mutex = t
    /\ exists => \A t \in User : at[t] \notin {"has", "release"}
    /\ ~exists => \E h \in User :
          \A t \in User : at[t] \in {"has", "release"} <=> t = h
    /\ exists /\ (\E t \in User : at[t] = "asleep") =>
          \E t \in User : at[t] \in {"acquire", "woken", "look"}

(* While a thread waits in container_acquire the value goes on from one    *)
(* user to the next.                                                       *)
ValueGoesOn ==
    (\E t \in User : at[t] = "asleep") /\ exists ~> ~exists
==============================================================================
