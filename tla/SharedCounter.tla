----------------------------- MODULE SharedCounter -----------------------------
(***************************************************************************)
(* Two threads that each add one to the same counter Rounds times, and a   *)
(* main thread that joins them and prints it, as three programs do it:     *)
(* with a mutex held for one round (run_mutex of                           *)
(* src/src/cppthread/thread/main.cpp), with a spin lock held for the whole *)
(* loop (src/src/pthread/race-mutex/main.c) and with no lock               *)
(* (src/src/pthread/race/main.c).                                          *)
(*                                                                         *)
(* The increment is a load and a store.  Without a lock that is a data     *)
(* race, and what it can do is what the loads and stores of the call       *)
(* through x->mutate can do.                                               *)
(***************************************************************************)
EXTENDS Integers

CONSTANTS Rounds,  \* 1024, 10000000 and 1000000000 in the three programs
          None     \* what has been printed before the printf

ASSUME RoundsAssumption == Rounds \in Nat \ {0} /\ None \notin Nat

Thread == {1, 2}

VARIABLES locking,  \* which of the programs it is: never changes
          owner,    \* the thread that holds the lock, 0 for none
          counter,
          at,       \* where each thread is
          i,        \* how many rounds each thread has finished
          loaded,   \* what each thread has loaded
          printed

vars == <<locking, owner, counter, at, i, loaded, printed>>

Start(l) == IF l = "none" THEN "load" ELSE "lock"

Init ==
    /\ locking \in {"round", "loop", "none"}
    /\ owner = 0 /\ counter = 0
    /\ at = [t \in Thread |-> Start(locking)]
    /\ i = [t \in Thread |-> 0]
    /\ loaded = [t \in Thread |-> 0]
    /\ printed = None

-------------------------------------------------------------------------------
Goes(t, label) == at' = [at EXCEPT ![t] = label]

Lock(t) ==
    /\ at[t] = "lock"
    /\ owner = 0
    /\ owner' = t
    /\ Goes(t, "load")
    /\ UNCHANGED <<locking, counter, i, loaded, printed>>

Load(t) ==
    /\ at[t] = "load"
    /\ loaded' = [loaded EXCEPT ![t] = counter]
    /\ Goes(t, "store")
    /\ UNCHANGED <<locking, owner, counter, i, printed>>

(* Where a thread goes when it has finished its n-th round. *)
AfterRound(n) ==
    IF locking = "round" \/ (locking = "loop" /\ n = Rounds) THEN "unlock"
    ELSE IF n = Rounds THEN "done" ELSE "load"

(* Mutation: *x++ for ( *x)++, which counts the pointer up. *)
StoreNothing(t) ==
    /\ at[t] = "store"
    /\ i' = [i EXCEPT ![t] = @ + 1]
    /\ Goes(t, AfterRound(i[t] + 1))
    /\ UNCHANGED <<locking, owner, counter, loaded, printed>>

Store(t) ==
    /\ at[t] = "store"
    /\ counter' = loaded[t] + 1
    /\ i' = [i EXCEPT ![t] = @ + 1]
    /\ Goes(t, AfterRound(i[t] + 1))
    /\ UNCHANGED <<locking, owner, loaded, printed>>

(* The guard of one round is destroyed before the next one is made. *)
Unlock(t) ==
    /\ at[t] = "unlock"
    /\ owner' = 0
    /\ Goes(t, IF i[t] = Rounds THEN "done" ELSE "lock")
    /\ UNCHANGED <<locking, counter, i, loaded, printed>>

(* Mutation: main joins the first thread only. *)
PrintEarly ==
    /\ printed = None
    /\ at[1] = "done"
    /\ printed' = counter
    /\ UNCHANGED <<locking, owner, counter, at, i, loaded>>

PrintCounter ==
    /\ printed = None
    /\ \A t \in Thread : at[t] = "done"
    /\ printed' = counter
    /\ UNCHANGED <<locking, owner, counter, at, i, loaded>>

-------------------------------------------------------------------------------
Worker(t) == Lock(t) \/ Load(t) \/ Store(t) \/ Unlock(t)

Next == PrintCounter \/ \E t \in Thread : Worker(t)

Spec == Init /\ [][Next]_vars

(* The kernel runs every thread that can go on. *)
FairSpec == Spec /\ WF_vars(PrintCounter) /\ \A t \in Thread : WF_vars(Worker(t))

-------------------------------------------------------------------------------
(***************************************************************************)
(* Properties.                                                             *)
(***************************************************************************)
TypeOK ==
    /\ locking \in {"round", "loop", "none"}
    /\ owner \in {0} \cup Thread
    /\ counter \in Nat
    /\ at \in [Thread -> {"lock", "load", "store", "unlock", "done"}]
    /\ i \in [Thread -> 0 .. Rounds]
    /\ loaded \in [Thread -> Nat]
    /\ printed \in Nat \cup {None}

(* Between lock and unlock. *)
Inside == {"load", "store", "unlock"}
Locked == locking # "none"

(* Where a thread is says how far it is. *)
Progress ==
    \A t \in Thread :
        /\ at[t] \in {"lock", "load", "store"} => i[t] < Rounds
        /\ at[t] = "unlock" => Locked /\ (locking = "loop" => i[t] = Rounds)
        /\ at[t] = "lock" => Locked
        /\ at[t] = "done" => i[t] = Rounds

(* With a lock: a thread inside holds it, so what it has loaded is still   *)
(* the counter when it stores, and no finished round is missing.           *)
Exact ==
    Locked =>
        /\ \A t \in Thread : at[t] \in Inside <=> owner = t
        /\ \A t \in Thread : at[t] = "store" => loaded[t] = counter
        /\ counter = i[1] + i[2]

(* With or without: nothing is counted that was not finished, a store      *)
(* after any other writes at least 1, and a second store of a thread       *)
(* builds on its first or on a later one of the other thread.              *)
Bounds ==
    /\ counter <= i[1] + i[2]
    /\ \A t \in Thread : at[t] = "store" => loaded[t] <= i[1] + i[2]
    /\ \A t \in Thread : i[t] >= 1 => counter >= 1
    /\ \A t \in Thread : at[t] = "store" /\ i[t] >= 1 => loaded[t] >= 1
    /\ (\A t \in Thread : i[t] >= 2) => counter >= 2

Least == IF Rounds = 1 THEN 1 ELSE 2

Printed ==
    printed # None =>
        /\ Locked => printed = 2 * Rounds
        /\ printed \in Least .. 2 * Rounds

(* The inductive invariant. *)
IInv == TypeOK /\ Progress /\ Exact /\ Bounds /\ Printed

(* With either lock no increment is lost: main prints twice the rounds.    *)
NothingLost == (Locked /\ printed # None) => printed = 2 * Rounds

(* Without one an increment can undo all but one of the other thread's,    *)
(* and no more: what is printed lies between two and twice the rounds.     *)
RaceLosesNotAll ==
    printed # None => printed \in Least .. 2 * Rounds

(* Main prints: no thread waits for a lock that nobody will release.       *)
Prints == <>(printed # None)
==============================================================================
