------------------------------ MODULE ThreadLocal ------------------------------
(***************************************************************************)
(* src/src/pthread/thread_local/main.c: two threads count in a variable of *)
(* their own and add it to a shared one without a lock, and each pins      *)
(* itself to the CPU that main's cpu_id says while main counts it up.      *)
(***************************************************************************)
EXTENDS Integers

CONSTANT Rounds  \* 1000000000

Thread == {1, 2}
Main == 0

VARIABLES at,      \* where each thread is
          tmp,     \* the tmp of each
          x,       \* s.x
          cpu_id,  \* s.cpu_id
          pinned,  \* the CPU of each thread, or -1
          loaded   \* what a thread has loaded of x

vars == <<at, tmp, x, cpu_id, pinned, loaded>>

Init ==
    /\ at = [t \in Thread \cup {Main} |-> IF t = Main THEN "create_1" ELSE "none"]
    /\ tmp = [t \in Thread \cup {Main} |-> IF t = Main THEN 16 ELSE 0]
    /\ x = 0 /\ cpu_id = 0
    /\ pinned = [t \in Thread |-> -1]
    /\ loaded = [t \in Thread |-> 0]

Goes(t, from, to) == at[t] = from /\ at' = [at EXCEPT ![t] = to]

-------------------------------------------------------------------------------
Create(t) ==
    /\ at[Main] = IF t = 1 THEN "create_1" ELSE "create_2"
    /\ at' = [at EXCEPT ![t] = "pin", ![Main] = IF t = 1 THEN "next_cpu" ELSE "join"]
    /\ UNCHANGED <<tmp, x, cpu_id, pinned, loaded>>

NextCpu ==
    /\ Goes(Main, "next_cpu", "create_2")
    /\ cpu_id' = cpu_id + 1
    /\ UNCHANGED <<tmp, x, pinned, loaded>>

Join ==
    /\ \A t \in Thread : at[t] = "done"
    /\ Goes(Main, "join", "done")
    /\ UNCHANGED <<tmp, x, cpu_id, pinned, loaded>>

Pin(t) ==
    /\ Goes(t, "pin", "count")
    /\ pinned' = [pinned EXCEPT ![t] = cpu_id]
    /\ UNCHANGED <<tmp, x, cpu_id, loaded>>

(* Mutation: tmp is one variable of all threads. *)
CountShared(t) ==
    /\ Goes(t, "count", "load")
    /\ tmp' = [u \in DOMAIN tmp |-> tmp[1] + Rounds]
    /\ UNCHANGED <<x, cpu_id, pinned, loaded>>

(* The whole loop: nobody else sees the thread's tmp. *)
Count(t) ==
    /\ Goes(t, "count", "load")
    /\ tmp' = [tmp EXCEPT ![t] = Rounds]
    /\ UNCHANGED <<x, cpu_id, pinned, loaded>>

Load(t) ==
    /\ Goes(t, "load", "store")
    /\ loaded' = [loaded EXCEPT ![t] = x]
    /\ UNCHANGED <<tmp, x, cpu_id, pinned>>

Store(t) ==
    /\ Goes(t, "store", "done")
    /\ x' = loaded[t] + tmp[t]
    /\ UNCHANGED <<tmp, cpu_id, pinned, loaded>>

-------------------------------------------------------------------------------
MainStep == NextCpu \/ Join \/ \E t \in Thread : Create(t)
Worker(t) == Pin(t) \/ Count(t) \/ Load(t) \/ Store(t)

Next == MainStep \/ \E t \in Thread : Worker(t)

-------------------------------------------------------------------------------
(* Main prints one thread's whole count or both, since all that the race   *)
(* can lose is one addition, and its own tmp stays 16.  The second thread  *)
(* runs on CPU 1; the first on 0 or, when it is late, on 1 as well.        *)
SumOfOneOrBoth ==
    /\ at[Main] = "done" => x \in {Rounds, 2 * Rounds}
    /\ tmp[Main] = 16
    /\ pinned[1] \in {-1, 0, 1} /\ pinned[2] \in {-1, 1}

(* What keeps it from step to step: how far main is, what each thread has  *)
(* counted, and that x is what the threads that are done have added.       *)
IInv ==
    /\ at \in [Thread \cup {Main} -> {"create_1", "next_cpu", "create_2", "join", "done",
                                      "none", "pin", "count", "load", "store"}]
    /\ tmp \in [Thread \cup {Main} -> Nat] /\ tmp[Main] = 16
    /\ cpu_id = IF at[Main] \in {"create_1", "next_cpu"} THEN 0 ELSE 1
    /\ pinned \in [Thread -> {-1, 0, 1}] /\ pinned[2] # 0
    /\ loaded \in [Thread -> Nat]
    /\ at[Main] \in {"create_1", "next_cpu", "create_2", "join", "done"}
    /\ at[Main] = "create_1" => at[1] = "none"
    /\ at[Main] \in {"create_1", "next_cpu", "create_2"} => at[2] = "none"
    /\ at[Main] = "done" => at[1] = "done" /\ at[2] = "done"
    /\ \A t \in Thread : at[t] \in {"load", "store", "done"} => tmp[t] = Rounds
    /\ \A t \in Thread : at[t] = "store" =>
          loaded[t] = 0 \/ (at[3 - t] = "done" /\ loaded[t] = Rounds)
    /\ x \in IF at[1] = "done" /\ at[2] = "done" THEN {Rounds, 2 * Rounds}
             ELSE IF at[1] = "done" \/ at[2] = "done" THEN {Rounds} ELSE {0}

(* Main joins both threads. *)
Joins == <>(at[Main] = "done")
==============================================================================
