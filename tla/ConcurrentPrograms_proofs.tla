----------------------- MODULE ConcurrentPrograms_proofs -----------------------
(***************************************************************************)
(* Proofs about the small programs with threads, and those whose files     *)
(* somebody else changes: the semaphore, the shared counters,              *)
(* thread_local, the spin lock and the Container, read_all and dl_rt, for  *)
(* all the values of their constants.                                      *)
(***************************************************************************)
EXTENDS MCConcurrentPrograms, FiniteSetTheorems, SequenceTheorems, TLAPS

-------------------------------------------------------------------------------
(***************************************************************************)
(* The shared counters.                                                    *)
(***************************************************************************)

(* The threads have not begun. *)
LEMMA InitIInv == Init => IInv
BY RoundsAssumption
   DEF Init, IInv, TypeOK, Progress, Exact, Bounds, Printed, Locked, Inside, Thread, Start, Least

(* A thread that takes the free lock is the only one inside. *)
LEMMA LockKeepsIInv ==
  ASSUME IInv, NEW t \in Thread, Lock(t)
  PROVE  IInv'
<1> USE RoundsAssumption DEF Lock, Goes, Locked, Thread
<1>1. TypeOK'
  BY DEF IInv, TypeOK
<1>2. Progress'
  BY DEF IInv, TypeOK, Progress
<1>3. Exact'
  BY DEF IInv, TypeOK, Exact, Inside
<1>4. Bounds'
  BY DEF IInv, TypeOK, Bounds
<1>5. Printed'
  BY DEF IInv, Printed
<1> QED
  BY <1>1, <1>2, <1>3, <1>4, <1>5 DEF IInv

(* What is loaded is the counter, which nobody else changes under a lock. *)
LEMMA LoadKeepsIInv ==
  ASSUME IInv, NEW t \in Thread, Load(t)
  PROVE  IInv'
<1> USE RoundsAssumption DEF Load, Goes, Locked, Thread
<1>1. TypeOK'
  BY DEF IInv, TypeOK
<1>2. Progress'
  BY DEF IInv, TypeOK, Progress
<1>3. Exact'
  BY DEF IInv, TypeOK, Exact, Inside
<1>4. Bounds'
  BY DEF IInv, TypeOK, Bounds
<1>5. Printed'
  BY DEF IInv, Printed
<1> QED
  BY <1>1, <1>2, <1>3, <1>4, <1>5 DEF IInv

(* One more round is finished, and the counter is one more than loaded. *)
LEMMA StoreKeepsIInv ==
  ASSUME IInv, NEW t \in Thread, Store(t)
  PROVE  IInv'
<1> USE RoundsAssumption DEF Store, Goes, Locked, Thread
<1>1. i[t] < Rounds /\ i[1] \in Nat /\ i[2] \in Nat /\ loaded[t] \in Nat /\ counter \in Nat
  BY DEF IInv, TypeOK, Progress
<1>2. /\ i'[t] = i[t] + 1
      /\ \A u \in Thread : u # t => i'[u] = i[u] /\ at'[u] = at[u]
      /\ at'[t] = AfterRound(i[t] + 1)
      /\ i'[1] + i'[2] = i[1] + i[2] + 1
  BY <1>1 DEF IInv, TypeOK
<1>3. TypeOK'
  BY <1>1 DEF IInv, TypeOK, AfterRound
<1>4. Progress'
  <2>1. \A u \in Thread : u # t => i'[u] = i[u] /\ at'[u] = at[u]
    BY <1>2
  <2>2. at'[t] \in {"unlock", "done", "load"}
    BY <1>2 DEF AfterRound
  <2>3. at'[t] = "unlock" => Locked /\ (locking = "loop" => i'[t] = Rounds)
    BY <1>2 DEF AfterRound
  <2>4. at'[t] = "done" => i'[t] = Rounds
    BY <1>2 DEF AfterRound
  <2>5. at'[t] = "load" => i'[t] < Rounds
    BY <1>1, <1>2 DEF AfterRound, IInv, TypeOK
  <2> QED
    BY <2>1, <2>2, <2>3, <2>4, <2>5 DEF IInv, Progress
<1>5. Exact'
  <2> SUFFICES ASSUME Locked PROVE Exact'
    BY DEF Exact
  <2>1. at[t] = "store" /\ owner = t /\ loaded[t] = counter /\ counter = i[1] + i[2]
    BY DEF IInv, Exact, Inside
  <2>2. \A u \in Thread : u # t => at[u] \notin Inside
    BY <2>1 DEF IInv, Exact
  <2>3. at'[t] \in {"unlock", "load"}
    BY <1>1, <1>2 DEF AfterRound, IInv, TypeOK
  <2> QED
    BY <1>1, <1>2, <2>1, <2>2, <2>3 DEF Exact, Inside
<1>6. Bounds'
  <2>1. loaded[t] <= i[1] + i[2] /\ (i[t] >= 1 => loaded[t] >= 1)
    BY DEF IInv, Bounds
  <2>2. counter' <= i'[1] + i'[2]
    BY <1>1, <1>2, <2>1
  <2>3. \A u \in Thread : at'[u] = "store" => loaded'[u] <= i'[1] + i'[2]
    BY <1>1, <1>2 DEF IInv, TypeOK, Bounds, AfterRound
  <2>4. \A u \in Thread : i'[u] >= 1 => counter' >= 1
    BY <1>1
  <2>5. \A u \in Thread : at'[u] = "store" /\ i'[u] >= 1 => loaded'[u] >= 1
    BY <1>1, <1>2 DEF IInv, TypeOK, Bounds, AfterRound
  <2>6. (\A u \in Thread : i'[u] >= 2) => counter' >= 2
    BY <1>1, <1>2, <2>1
  <2> QED
    BY <2>2, <2>3, <2>4, <2>5, <2>6 DEF Bounds
<1>7. Printed'
  BY DEF IInv, Printed
<1> QED
  BY <1>3, <1>4, <1>5, <1>6, <1>7 DEF IInv

(* Nobody is inside after the one that was has left. *)
LEMMA UnlockKeepsIInv ==
  ASSUME IInv, NEW t \in Thread, Unlock(t)
  PROVE  IInv'
<1> USE RoundsAssumption DEF Unlock, Goes, Locked, Thread
<1>1. TypeOK'
  BY DEF IInv, TypeOK
<1>2. Progress'
  BY DEF IInv, TypeOK, Progress
<1>3. Exact'
  BY DEF IInv, TypeOK, Exact, Inside
<1>4. Bounds'
  BY DEF IInv, TypeOK, Bounds
<1>5. Printed'
  BY DEF IInv, Printed
<1> QED
  BY <1>1, <1>2, <1>3, <1>4, <1>5 DEF IInv

(* Both threads have done all their rounds when the counter is read. *)
LEMMA PrintKeepsIInv ==
  ASSUME IInv, PrintCounter
  PROVE  IInv'
<1> USE RoundsAssumption DEF PrintCounter, Locked, Thread
<1>1. i[1] = Rounds /\ i[2] = Rounds /\ counter \in Nat /\ Rounds \in Nat \ {0}
  BY DEF IInv, TypeOK, Progress
<1>2. TypeOK' /\ Progress' /\ Exact'
  BY DEF IInv, TypeOK, Progress, Exact, Inside
<1>3. Bounds'
  BY DEF IInv, Bounds
<1>4. Locked => counter = 2 * Rounds
  BY <1>1 DEF IInv, Exact
<1>5. counter <= 2 * Rounds /\ counter >= 1
  BY <1>1 DEF IInv, Bounds
<1>6. Rounds >= 2 => counter >= 2
  BY <1>1 DEF IInv, Bounds
<1>7. Printed'
  BY <1>1, <1>4, <1>5, <1>6 DEF Printed, Least
<1> QED
  BY <1>2, <1>3, <1>7 DEF IInv

(* The inductive invariant holds, for every number of rounds. *)
THEOREM Invariance == Spec => []IInv
<1>1. IInv /\ [Next]_vars => IInv'
  <2> SUFFICES ASSUME IInv, [Next]_vars PROVE IInv'
    OBVIOUS
  <2>1. CASE PrintCounter
    BY <2>1, PrintKeepsIInv
  <2>2. CASE \E t \in Thread : Worker(t)
    BY <2>2, LockKeepsIInv, LoadKeepsIInv, StoreKeepsIInv, UnlockKeepsIInv DEF Worker
  <2>3. CASE UNCHANGED vars
    BY <2>3 DEF vars, IInv, TypeOK, Progress, Exact, Bounds, Printed, Locked
  <2> QED
    BY <2>1, <2>2, <2>3 DEF Next
<1> QED
  BY InitIInv, <1>1, PTL DEF Spec

(* A lock, held for a round or for the loop, loses no increment: run_mutex *)
(* and race-mutex print twice their rounds.                                *)
THEOREM LockedCountIsExact == Spec => []NothingLost
<1>1. IInv => NothingLost
  BY DEF IInv, Printed, NothingLost
<1> QED
  BY <1>1, Invariance, PTL

(* However the two threads of race interleave, what main prints is between *)
(* two and twice the rounds.                                               *)
THEOREM RaceBounds == Spec => []RaceLosesNotAll
<1>1. IInv => RaceLosesNotAll
  BY DEF IInv, Printed, RaceLosesNotAll
<1> QED
  BY <1>1, Invariance, PTL

-------------------------------------------------------------------------------
(***************************************************************************)
(* The programs side by side.                                              *)
(***************************************************************************)

(* A step of the whole is a step of each program or leaves it alone. *)
LEMMA EachProgramSteps ==
    ASSUME [AnyNext]_allVars
    PROVE  /\ [Next]_vars
           /\ [Sem!Next]_(Sem!vars)
           /\ [Local!Next]_(Local!vars) /\ [Spin!Next]_(Spin!vars) /\ [Value!Next]_(Value!vars)
           /\ [ReadFile!Next]_(ReadFile!vars) /\ [Reload!Next]_(Reload!vars)
<1> USE DEF semVars, counterVars, localVars, spinVars, valueVars, readVars, reloadVars,
            Sem!vars, Local!vars, Spin!vars, Value!vars, ReadFile!vars, Reload!vars, Reload!disk, Reload!module,
            Reload!linker
<1>1. CASE AnyNext
  BY <1>1 DEF AnyNext, Only
<1>2. CASE UNCHANGED allVars
  BY <1>2 DEF allVars, vars
<1> QED
  BY <1>1, <1>2

-------------------------------------------------------------------------------
(***************************************************************************)
(* The semaphore.                                                          *)
(***************************************************************************)

(* The instance counts as the library does. *)
LEMMA CountsAlike == \A S : Sem!Cardinality(S) = Cardinality(S)
  BY DEF Sem!Cardinality, Cardinality

(* The threads on their way to a permit are finitely many, ... *)
LEMMA AwakeIsFinite == IsFiniteSet(Sem!Awake) /\ Cardinality(Sem!Awake) \in Nat
<1>1. Sem!Awake \subseteq Caller
  BY DEF Sem!Awake
<1> QED
  BY <1>1, BoundsAssumption, FS_Subset, FS_CardinalityType

(* ... one that goes to sleep or has its permit is one less, ... *)
LEMMA OneAwakeLess ==
  ASSUME NEW S, IsFiniteSet(S), NEW t \in S
  PROVE  /\ IsFiniteSet(S \ {t})
         /\ Cardinality(S \ {t}) = Cardinality(S) - 1
         /\ Cardinality(S) \in Nat /\ Cardinality(S \ {t}) \in Nat
  BY FS_RemoveElement, FS_CardinalityType

(* ... and one that wakes up is one more. *)
LEMMA OneAwakeMore ==
  ASSUME NEW S, IsFiniteSet(S), NEW t, t \notin S
  PROVE  /\ Cardinality(S \cup {t}) = Cardinality(S) + 1
         /\ Cardinality(S) \in Nat
  BY FS_AddElement, FS_CardinalityType

(* The constructor leaves nobody asleep. *)
LEMMA SemInit == Sem!Init => Sem!IInv
<1> SUFFICES ASSUME Sem!Init PROVE Sem!IInv
  OBVIOUS
<1>1. Sem!TypeOK
  BY BoundsAssumption DEF Sem!Init, Sem!TypeOK
<1>2. Sem!NoLostWakeup
  BY DEF Sem!Init, Sem!NoLostWakeup, Sem!Asleep
<1> QED
  BY <1>1, <1>2 DEF Sem!IInv

(* The mutex and the types, for every step. *)
LEMMA SemKeepsTypeOK ==
  ASSUME Sem!TypeOK, NEW t \in Caller, Sem!Step(t) \/ Sem!WakeSpuriously(t)
  PROVE  Sem!TypeOK'
<1> USE BoundsAssumption
<1>1. CASE Sem!AcquireLock(t)
  BY <1>1 DEF Sem!AcquireLock, Sem!Calls, Sem!Lock, Sem!Goto, Sem!TypeOK
<1>2. CASE Sem!AcquireWait(t)
  BY <1>2 DEF Sem!AcquireWait, Sem!Unlock, Sem!Goto, Sem!TypeOK
<1>3. CASE Sem!AcquireRelock(t)
  BY <1>3 DEF Sem!AcquireRelock, Sem!Lock, Sem!Goto, Sem!TypeOK
<1>4. CASE Sem!AcquireTake(t)
  BY <1>4 DEF Sem!AcquireTake, Sem!Unlock, Sem!Return, Sem!Goto, Sem!TypeOK
<1>5. CASE Sem!ReleaseLock(t)
  BY <1>5 DEF Sem!ReleaseLock, Sem!Calls, Sem!Lock, Sem!Goto, Sem!TypeOK
<1>6. CASE Sem!ReleasePost(t)
  <2>1. counter_' \in Nat /\ mutex_' = mutex_ /\ returned' = returned /\ mutex_ = t
    BY <1>6 DEF Sem!ReleasePost, Sem!TypeOK
  <2>2. CASE Sem!Goto(t, "unlock")
    BY <1>6, <2>1, <2>2 DEF Sem!ReleasePost, Sem!Goto, Sem!TypeOK
  <2>3. ASSUME NEW s \in Caller, sem_pc[s] = "asleep",
               sem_pc' = [sem_pc EXCEPT ![t] = "unlock", ![s] = "awake"]
        PROVE  Sem!TypeOK'
    BY <1>6, <2>1, <2>3 DEF Sem!ReleasePost, Sem!TypeOK
  <2> QED
    BY <1>6, <2>2, <2>3 DEF Sem!ReleasePost, Sem!Asleep
<1>7. CASE Sem!ReleaseUnlock(t)
  BY <1>7 DEF Sem!ReleaseUnlock, Sem!Unlock, Sem!Return, Sem!Goto, Sem!TypeOK
<1>8. CASE Sem!WakeSpuriously(t)
  BY <1>8 DEF Sem!WakeSpuriously, Sem!Goto, Sem!TypeOK
<1> QED
  BY <1>1, <1>2, <1>3, <1>4, <1>5, <1>6, <1>7, <1>8 DEF Sem!Step

(* No wakeup is lost in any step. *)
LEMMA SemKeepsNoLostWakeup ==
  ASSUME Sem!IInv, NEW t \in Caller, Sem!Step(t) \/ Sem!WakeSpuriously(t)
  PROVE  Sem!NoLostWakeup'
<1> USE DEF Sem!IInv, Sem!TypeOK
<1>1. CASE Sem!AcquireLock(t)
  <2>1. Sem!Awake' = Sem!Awake \cup {t} /\ t \notin Sem!Awake /\ Sem!Asleep' = Sem!Asleep
    BY <1>1 DEF Sem!AcquireLock, Sem!Calls, Sem!Lock, Sem!Goto, Sem!Awake, Sem!Asleep
  <2> QED
    BY <1>1, <2>1, CountsAlike, AwakeIsFinite, OneAwakeMore DEF Sem!AcquireLock, Sem!NoLostWakeup
<1>2. CASE Sem!AcquireWait(t)
  <2>1. Sem!Awake' = Sem!Awake \ {t} /\ t \in Sem!Awake
    BY <1>2 DEF Sem!AcquireWait, Sem!Unlock, Sem!Goto, Sem!Awake
  <2> QED
    BY <1>2, <2>1, CountsAlike, AwakeIsFinite, OneAwakeLess DEF Sem!AcquireWait, Sem!NoLostWakeup
<1>3. CASE Sem!AcquireRelock(t)
  <2>1. Sem!Awake' = Sem!Awake /\ Sem!Asleep' = Sem!Asleep
    BY <1>3 DEF Sem!AcquireRelock, Sem!Lock, Sem!Goto, Sem!Awake, Sem!Asleep
  <2> QED
    BY <1>3, <2>1 DEF Sem!AcquireRelock, Sem!NoLostWakeup
<1>4. CASE Sem!AcquireTake(t)
  <2>1. Sem!Awake' = Sem!Awake \ {t} /\ t \in Sem!Awake /\ Sem!Asleep' = Sem!Asleep
    BY <1>4 DEF Sem!AcquireTake, Sem!Unlock, Sem!Return, Sem!Goto, Sem!Awake, Sem!Asleep
  <2> QED
    BY <1>4, <2>1, CountsAlike, AwakeIsFinite, OneAwakeLess DEF Sem!AcquireTake, Sem!NoLostWakeup
<1>5. CASE Sem!ReleaseLock(t)
  <2>1. Sem!Awake' = Sem!Awake /\ Sem!Asleep' = Sem!Asleep
    BY <1>5 DEF Sem!ReleaseLock, Sem!Calls, Sem!Lock, Sem!Goto, Sem!Awake, Sem!Asleep
  <2> QED
    BY <1>5, <2>1 DEF Sem!ReleaseLock, Sem!NoLostWakeup
<1>6. CASE Sem!ReleasePost(t)
  <2>1. CASE Sem!Asleep = {} /\ Sem!Goto(t, "unlock")
    <3>1. Sem!Asleep' = {}
      BY <2>1 DEF Sem!Goto, Sem!Asleep
    <3> QED
      BY <3>1 DEF Sem!NoLostWakeup
  <2>2. ASSUME NEW s \in Sem!Asleep, sem_pc' = [sem_pc EXCEPT ![t] = "unlock", ![s] = "awake"]
        PROVE  Sem!NoLostWakeup'
    <3>1. Sem!Awake' = Sem!Awake \cup {s} /\ s \notin Sem!Awake /\ Sem!Asleep # {}
      BY <1>6, <2>2 DEF Sem!ReleasePost, Sem!Awake, Sem!Asleep
    <3> QED
      BY <1>6, <3>1, CountsAlike, AwakeIsFinite, OneAwakeMore DEF Sem!ReleasePost, Sem!NoLostWakeup
  <2> QED
    BY <1>6, <2>1, <2>2 DEF Sem!ReleasePost
<1>7. CASE Sem!ReleaseUnlock(t)
  <2>1. Sem!Awake' = Sem!Awake /\ Sem!Asleep' = Sem!Asleep
    BY <1>7 DEF Sem!ReleaseUnlock, Sem!Unlock, Sem!Return, Sem!Goto, Sem!Awake, Sem!Asleep
  <2> QED
    BY <1>7, <2>1 DEF Sem!ReleaseUnlock, Sem!NoLostWakeup
<1>8. CASE Sem!WakeSpuriously(t)
  <2>1. Sem!Awake' = Sem!Awake \cup {t} /\ t \notin Sem!Awake /\ Sem!Asleep # {}
    BY <1>8 DEF Sem!WakeSpuriously, Sem!Goto, Sem!Awake, Sem!Asleep
  <2> QED
    BY <1>8, <2>1, CountsAlike, AwakeIsFinite, OneAwakeMore DEF Sem!WakeSpuriously, Sem!NoLostWakeup
<1> QED
  BY <1>1, <1>2, <1>3, <1>4, <1>5, <1>6, <1>7, <1>8 DEF Sem!Step

(* Every step of every thread keeps the invariant. *)
LEMMA SemNext == Sem!IInv /\ [Sem!Next]_(Sem!vars) => Sem!IInv'
<1> SUFFICES ASSUME Sem!IInv, [Sem!Next]_(Sem!vars) PROVE Sem!IInv'
  OBVIOUS
<1>1. CASE Sem!Next
  BY <1>1, SemKeepsTypeOK, SemKeepsNoLostWakeup DEF Sem!Next, Sem!IInv
<1>2. CASE UNCHANGED Sem!vars
  BY <1>2 DEF Sem!vars, Sem!IInv, Sem!TypeOK, Sem!NoLostWakeup, Sem!Asleep, Sem!Awake
<1> QED
  BY <1>1, <1>2

(* A release always reaches a sleeper while there is one, for any callers, *)
(* programs and first value.                                               *)
THEOREM WakeupsReach == AnySpec => []NoLostWakeup
<1>1. AnyInit => Sem!IInv
  BY SemInit DEF AnyInit
<1>2. Sem!IInv /\ [AnyNext]_allVars => Sem!IInv'
  BY EachProgramSteps, SemNext
<1>3. Sem!IInv => NoLostWakeup
  BY DEF Sem!IInv, NoLostWakeup
<1> QED
  BY <1>1, <1>2, <1>3, PTL DEF AnySpec

-------------------------------------------------------------------------------
(***************************************************************************)
(* thread_local                                                            *)
(***************************************************************************)

(* Main is about to create the first thread. *)
LEMMA LocalInit == Local!Init => Local!IInv
<1> SUFFICES ASSUME Local!Init PROVE Local!IInv
  OBVIOUS
<1> USE DEF Local!Init, Local!Thread, Local!Main
<1>1. local_at[0] = "create_1" /\ local_at[1] = "none" /\ local_at[2] = "none"
  <2>1. 1 # 0 /\ 2 # 0
    OBVIOUS
  <2> QED
    BY <2>1
<1>2. tmp[0] = 16 /\ x = 0 /\ cpu_id = 0
  OBVIOUS
<1>3. -1 \in {-1, 0, 1} /\ -1 # 0 /\ pinned = [t \in {1, 2} |-> -1]
  OBVIOUS
<1>4. pinned \in [{1, 2} -> {-1, 0, 1}] /\ pinned[2] # 0
  BY <1>3
<1>5. /\ local_at \in [{1, 2} \cup {0} -> {"create_1", "next_cpu", "create_2", "join", "done",
                                          "none", "pin", "count", "load", "store"}]
      /\ tmp \in [{1, 2} \cup {0} -> Nat] /\ local_loaded \in [{1, 2} -> Nat]
  OBVIOUS
<1> QED
  BY <1>1, <1>2, <1>4, <1>5 DEF Local!IInv

(* Main creates the threads and joins them. *)
LEMMA LocalMainSteps ==
    ASSUME Local!IInv, Local!MainStep
    PROVE  Local!IInv'
<1> USE DEF Local!IInv, Local!Thread, Local!Main
<1>1. ASSUME NEW t \in Local!Thread, Local!Create(t) PROVE Local!IInv'
  <2>1. UNCHANGED <<tmp, x, cpu_id, pinned, local_loaded>>
    BY <1>1 DEF Local!Create
  <2>2. CASE t = 1
    <3>1. /\ local_at[0] = "create_1" /\ local_at[1] = "none" /\ local_at[2] = "none"
          /\ local_at'[0] = "next_cpu" /\ local_at'[1] = "pin" /\ local_at'[2] = "none"
      BY <1>1, <2>2 DEF Local!Create
    <3>2. local_at' \in [{1, 2} \cup {0} -> {"create_1", "next_cpu", "create_2", "join", "done",
                                           "none", "pin", "count", "load", "store"}]
      BY <1>1, <2>2 DEF Local!Create
    <3> QED
      BY <2>1, <3>1, <3>2
  <2>3. CASE t = 2
    <3>1. /\ local_at[0] = "create_2" /\ local_at[2] = "none"
          /\ local_at'[0] = "join" /\ local_at'[1] = local_at[1] /\ local_at'[2] = "pin"
      BY <1>1, <2>3 DEF Local!Create
    <3>2. local_at' \in [{1, 2} \cup {0} -> {"create_1", "next_cpu", "create_2", "join", "done",
                                           "none", "pin", "count", "load", "store"}]
      BY <1>1, <2>3 DEF Local!Create
    <3> QED
      BY <2>1, <3>1, <3>2
  <2> QED
    BY <2>2, <2>3
<1>2. CASE Local!NextCpu
  <2>1. /\ cpu_id' = cpu_id + 1 /\ UNCHANGED <<tmp, x, pinned, local_loaded>>
        /\ local_at[0] = "next_cpu" /\ local_at' = [local_at EXCEPT ![0] = "create_2"]
    BY <1>2 DEF Local!NextCpu, Local!Goes
  <2>2. local_at'[0] = "create_2" /\ local_at'[1] = local_at[1] /\ local_at'[2] = "none"
    BY <2>1
  <2>3. cpu_id = 0 /\ cpu_id' = 1
    BY <2>1
  <2>4. local_at' \in [{1, 2} \cup {0} -> {"create_1", "next_cpu", "create_2", "join", "done",
                                         "none", "pin", "count", "load", "store"}]
    BY <2>1
  <2> QED
    BY <2>1, <2>2, <2>3, <2>4
<1>3. CASE Local!Join
  BY <1>3 DEF Local!Join, Local!Goes
<1> QED
  BY <1>1, <1>2, <1>3 DEF Local!MainStep

(* A thread pins itself, counts on its own and adds its count to x. *)
LEMMA LocalWorkerSteps ==
    ASSUME Local!IInv, NEW t \in Local!Thread, Local!Worker(t)
    PROVE  Local!IInv'
<1> USE DEF Local!Thread, Local!Main, Local!Goes
<1>1. /\ LocalRounds \in Nat /\ LocalRounds + LocalRounds = 2 * LocalRounds
      /\ 0 + LocalRounds = LocalRounds
  BY BoundsAssumption
<1> DEFINE u == 3 - t
<1>2. u \in Local!Thread /\ u # t /\ Local!Thread = {t, u} /\ t # 0 /\ 3 - u = t
  OBVIOUS
<1>3. CASE Local!Pin(t)
  <2>1. /\ pinned' = [pinned EXCEPT ![t] = cpu_id] /\ UNCHANGED <<tmp, x, cpu_id, local_loaded>>
        /\ local_at[t] = "pin" /\ local_at' = [local_at EXCEPT ![t] = "count"]
    BY <1>3 DEF Local!Pin
  <2>2. cpu_id \in {0, 1} /\ (t = 2 => cpu_id = 1)
    BY <2>1 DEF Local!IInv
  <2>3. pinned' \in [Local!Thread -> {-1, 0, 1}] /\ pinned'[2] # 0
    BY <2>1, <2>2 DEF Local!IInv
  <2> QED
    BY <2>1, <2>3 DEF Local!IInv
<1>4. CASE Local!Count(t)
  <2>1. /\ tmp' = [tmp EXCEPT ![t] = LocalRounds] /\ UNCHANGED <<pinned, x, cpu_id, local_loaded>>
        /\ local_at[t] = "count" /\ local_at' = [local_at EXCEPT ![t] = "load"]
    BY <1>4 DEF Local!Count
  <2>2. tmp' \in [Local!Thread \cup {0} -> Nat] /\ tmp'[0] = 16
    BY <1>1, <1>2, <2>1 DEF Local!IInv
  <2>3. \A w \in Local!Thread : local_at'[w] \in {"load", "store", "done"} => tmp'[w] = LocalRounds
    BY <1>1, <1>2, <2>1 DEF Local!IInv
  <2> QED
    BY <2>1, <2>2, <2>3 DEF Local!IInv
<1>5. CASE Local!Load(t)
  <2>1. /\ local_loaded' = [local_loaded EXCEPT ![t] = x] /\ UNCHANGED <<pinned, x, cpu_id, tmp>>
        /\ local_at[t] = "load" /\ local_at' = [local_at EXCEPT ![t] = "store"]
    BY <1>5 DEF Local!Load
  <2>2. x = IF local_at[u] = "done" THEN LocalRounds ELSE 0
    BY <1>1, <1>2, <2>1 DEF Local!IInv
  <2>3. local_loaded' \in [Local!Thread -> Nat]
    BY <1>1, <2>1, <2>2 DEF Local!IInv
  <2>4. \A w \in Local!Thread : local_at'[w] = "store" =>
          local_loaded'[w] = 0 \/ (local_at'[3 - w] = "done" /\ local_loaded'[w] = LocalRounds)
    <3>1. /\ local_loaded'[t] = x /\ local_loaded'[u] = local_loaded[u]
          /\ local_at'[u] = local_at[u] /\ local_at[t] # "done"
      BY <1>2, <2>1 DEF Local!IInv
    <3>2. local_at[u] = "store" => local_loaded[u] = 0
      BY <1>2, <3>1 DEF Local!IInv
    <3> QED
      BY <1>2, <2>2, <3>1, <3>2
  <2>5. \A w \in Local!Thread : local_at'[w] \in {"load", "store", "done"} => tmp'[w] = LocalRounds
    BY <2>1 DEF Local!IInv
  <2> QED
    BY <2>1, <2>3, <2>4, <2>5 DEF Local!IInv
<1>6. CASE Local!Store(t)
  <2>1. /\ x' = local_loaded[t] + tmp[t] /\ UNCHANGED <<pinned, local_loaded, cpu_id, tmp>>
        /\ local_at[t] = "store" /\ local_at' = [local_at EXCEPT ![t] = "done"]
    BY <1>6 DEF Local!Store
  <2>2. tmp[t] = LocalRounds
    BY <2>1 DEF Local!IInv
  <2>3. local_loaded[t] = 0 \/ (local_at[u] = "done" /\ local_loaded[t] = LocalRounds)
    BY <2>1 DEF Local!IInv
  <2>4. x' \in IF local_at[u] = "done" THEN {LocalRounds, 2 * LocalRounds} ELSE {LocalRounds}
    BY <1>1, <2>1, <2>2, <2>3
  <2>5. local_at'[t] = "done" /\ local_at'[u] = local_at[u]
    BY <1>2, <2>1 DEF Local!IInv
  <2>6. x' \in IF local_at'[1] = "done" /\ local_at'[2] = "done" THEN {LocalRounds, 2 * LocalRounds}
               ELSE IF local_at'[1] = "done" \/ local_at'[2] = "done" THEN {LocalRounds} ELSE {0}
    BY <1>2, <2>4, <2>5
  <2>7. \A w \in Local!Thread : local_at'[w] = "store" =>
          local_loaded'[w] = 0 \/ (local_at'[3 - w] = "done" /\ local_loaded'[w] = LocalRounds)
    BY <1>2, <2>1, <2>5 DEF Local!IInv
  <2>8. \A w \in Local!Thread : local_at'[w] \in {"load", "store", "done"} => tmp'[w] = LocalRounds
    BY <1>2, <2>1, <2>2, <2>5 DEF Local!IInv
  <2> QED
    BY <2>1, <2>6, <2>7, <2>8 DEF Local!IInv
<1> QED
  BY <1>3, <1>4, <1>5, <1>6 DEF Local!Worker

-------------------------------------------------------------------------------
(***************************************************************************)
(* The spin lock                                                           *)
(***************************************************************************)

(* What main calls, one after the other. *)
LEMMA CallsAre ==
    /\ Len(Spin!Calls) = 9
    /\ \A k \in 1 .. 9 :
          /\ Spin!Calls[k] = "lock" <=> k \in {1, 8}
          /\ Spin!Calls[k] = "try" <=> k \in {2, 3, 5, 6}
          /\ Spin!Calls[k] = "release" <=> k = 4
          /\ Spin!Calls[k] = "thread" <=> k = 7
          /\ Spin!Calls[k] = "join" <=> k = 9
<1>1. Len(Spin!Calls) = 9
  BY DEF Spin!Calls
<1>2. /\ Spin!Calls[1] = "lock" /\ Spin!Calls[2] = "try" /\ Spin!Calls[3] = "try"
      /\ Spin!Calls[4] = "release" /\ Spin!Calls[5] = "try" /\ Spin!Calls[6] = "try"
      /\ Spin!Calls[7] = "thread" /\ Spin!Calls[8] = "lock" /\ Spin!Calls[9] = "join"
  BY DEF Spin!Calls
<1> QED
  BY <1>1, <1>2

(* Main is about to take the lock, which is free. *)
LEMMA SpinInit == Spin!Init => Spin!IInv
  BY DEF Spin!Init, Spin!IInv

(* What Append makes of a sequence. *)
LEMMA OneMore ==
    ASSUME NEW S, NEW s \in Seq(S), NEW e \in S
    PROVE  /\ Append(s, e) \in Seq(S) /\ Len(Append(s, e)) = Len(s) + 1
           /\ \A k \in 1 .. Len(s) : Append(s, e)[k] = s[k]
           /\ Append(s, e)[Len(s) + 1] = e
  BY AppendProperties

(* Main's calls, and the thread's release. *)
LEMMA SpinNext ==
    ASSUME Spin!IInv, [Spin!Next]_(Spin!vars)
    PROVE  Spin!IInv'
<1> USE CallsAre DEF Spin!IInv, Spin!Calling, Spin!Got
<1>1. CASE Spin!Lock
  BY <1>1 DEF Spin!Lock, Spin!CasSucceeds
<1>2. CASE Spin!TryLock
  <2>1. PICK got \in {0, 1} : /\ tries' = Append(tries, got)
                              /\ IF got = 1 THEN Spin!CasSucceeds ELSE Spin!CasFails
    BY <1>2 DEF Spin!TryLock
  <2>2. /\ call \in {2, 3, 5, 6} /\ call' = call + 1 /\ UNCHANGED <<weak, thread>>
        /\ thread = "none"
    BY <1>2 DEF Spin!TryLock
  <2>3. /\ tries' \in Seq({0, 1}) /\ Len(tries') = Len(tries) + 1
        /\ \A k \in 1 .. Len(tries) : tries'[k] = tries[k]
        /\ tries'[Len(tries) + 1] = got
    <3>1. tries \in Seq({0, 1}) /\ tries' = Append(tries, got) /\ got \in {0, 1}
      BY <2>1
    <3> QED
      BY ONLY <3>1, OneMore
  <2>4. got = 1 => locked_ = 0 /\ locked_' = 1
    BY <2>1 DEF Spin!CasSucceeds
  <2>5. got = 0 => locked_' = locked_ /\ (locked_ = 1 \/ weak)
    BY <2>1 DEF Spin!CasFails
  <2>6. CASE call = 2
    <3>1. locked_ = 1 /\ got = 0 /\ Len(tries) = 0 /\ tries'[1] = 0 /\ Len(tries') = 1 /\ call' = 3
      BY <2>2, <2>3, <2>4, <2>6
    <3> QED
      BY <2>2, <2>3, <2>5, <3>1
  <2>7. CASE call = 3
    <3>1. /\ locked_ = 1 /\ got = 0 /\ Len(tries) = 1 /\ tries'[2] = 0 /\ Len(tries') = 2 /\ call' = 4
          /\ tries'[1] = 0
      BY <2>2, <2>3, <2>4, <2>7
    <3> QED
      BY <2>2, <2>3, <2>5, <3>1
  <2>8. CASE call = 5
    <3>1. /\ locked_ = 0 /\ locked_' = got /\ (weak \/ got = 1) /\ Len(tries) = 2
          /\ tries'[3] = got /\ Len(tries') = 3 /\ call' = 6
          /\ tries'[1] = 0 /\ tries'[2] = 0
      BY <2>2, <2>3, <2>4, <2>5, <2>8
    <3> QED
      BY <2>2, <2>3, <3>1
  <2>9. CASE call = 6
    <3>1. /\ locked_ = tries[3] /\ (weak \/ tries[3] = 1) /\ Len(tries) = 3
          /\ tries'[4] = got /\ Len(tries') = 4 /\ call' = 7 /\ tries'[3] = tries[3]
          /\ tries'[1] = 0 /\ tries'[2] = 0
      BY <2>2, <2>3, <2>9
    <3>2. tries[3] \in {0, 1} /\ tries[3] + 1 = 1 + tries[3]
      BY <3>1
    <3>3. locked_' = tries'[3] + tries'[4] /\ locked_' <= 1 /\ (weak \/ locked_' = 1) /\ locked_' \in {0, 1}
      BY <2>4, <2>5, <3>1, <3>2
    <3> QED
      BY <2>2, <2>3, <3>1, <3>3
  <2> QED
    BY <2>2, <2>6, <2>7, <2>8, <2>9
<1>3. CASE Spin!Release
  BY <1>3 DEF Spin!Release
<1>4. CASE Spin!StartThread
  BY <1>4 DEF Spin!StartThread
<1>5. CASE Spin!ThreadReleases
  BY <1>5 DEF Spin!ThreadReleases
<1>6. CASE Spin!Join
  BY <1>6 DEF Spin!Join
<1>7. CASE UNCHANGED Spin!vars
  BY <1>7 DEF Spin!vars
<1> QED
  BY <1>1, <1>2, <1>3, <1>4, <1>5, <1>6, <1>7 DEF Spin!Next, Spin!MainStep

-------------------------------------------------------------------------------
(***************************************************************************)
(* The Container                                                           *)
(***************************************************************************)

(* The value is there, and nobody is in a function. *)
LEMMA ValueInit == Value!Init => Value!IInv
  BY BoundsAssumption DEF Value!Init, Value!IInv

(* In the functions, and asleep between them. *)
LEMMA ValueNext ==
    ASSUME Value!IInv, [Value!Next]_(Value!vars)
    PROVE  Value!IInv'
<1> USE BoundsAssumption DEF Value!IInv, Value!Goes
<1>1. ASSUME NEW t \in User, Value!Call(t) PROVE Value!IInv'
  BY <1>1 DEF Value!Call
<1>2. ASSUME NEW t \in User, Value!LockToAcquire(t) PROVE Value!IInv'
  BY <1>2 DEF Value!LockToAcquire, Value!Lock
<1>3. ASSUME NEW t \in User, Value!Take(t) PROVE Value!IInv'
  BY <1>3 DEF Value!Take
<1>4. ASSUME NEW t \in User, Value!Sleep(t) PROVE Value!IInv'
  BY <1>4 DEF Value!Sleep
<1>5. ASSUME NEW t \in User, Value!WakeForNothing(t) PROVE Value!IInv'
  BY <1>5 DEF Value!WakeForNothing
<1>6. ASSUME NEW t \in User, Value!LockToRelease(t) PROVE Value!IInv'
  BY <1>6 DEF Value!LockToRelease, Value!Lock
<1>7. ASSUME NEW t \in User, Value!Release(t) PROVE Value!IInv'
  BY <1>7 DEF Value!Release
<1>8. CASE UNCHANGED Value!vars
  BY <1>8 DEF Value!vars
<1> QED
  BY <1>1, <1>2, <1>3, <1>4, <1>5, <1>6, <1>7, <1>8 DEF Value!Next, Value!Inside

(* One holder is a set of one element.  (The instance has a Cardinality of  *)
(* its own, defined as the other.)                                         *)
LEMMA ValueHasOne == Value!IInv => Value!OneHasTheValue
<1> SUFFICES ASSUME Value!IInv PROVE Value!OneHasTheValue
  OBVIOUS
<1> DEFINE holders == {t \in User : user_at[t] \in {"has", "release"}}
<1>1. Cardinality(holders) = IF exists THEN 0 ELSE 1
  <2>1. CASE exists
    <3>1. holders = {}
      BY <2>1 DEF Value!IInv
    <3> QED
      BY <2>1, <3>1, FS_EmptySet
  <2>2. CASE ~exists
    <3>1. PICK h \in User : \A t \in User : user_at[t] \in {"has", "release"} <=> t = h
      BY <2>2 DEF Value!IInv
    <3>2. holders = {h}
      BY <3>1
    <3> QED
      BY <2>2, <3>2, FS_Singleton
  <2> QED
    BY <2>1, <2>2
<1>2. exists /\ (\E t \in User : user_at[t] = "asleep") =>
          \E t \in User : user_at[t] \in {"acquire", "woken", "look"}
  BY DEF Value!IInv
<1> QED
  BY <1>1, <1>2 DEF Value!OneHasTheValue, Value!Cardinality, Cardinality

-------------------------------------------------------------------------------
(***************************************************************************)
(* What is handed from thread to thread                                    *)
(***************************************************************************)

(* Main and the threads of thread_local. *)
LEMMA LocalNext ==
    ASSUME Local!IInv, [Local!Next]_(Local!vars)
    PROVE  Local!IInv'
<1>1. CASE UNCHANGED Local!vars
  BY <1>1 DEF Local!vars, Local!IInv
<1> QED
  BY <1>1, LocalMainSteps, LocalWorkerSteps DEF Local!Next

(* The sums that main can print. *)
LEMMA LocalSum == Local!IInv => Local!SumOfOneOrBoth
  BY DEF Local!IInv, Local!SumOfOneOrBoth, Local!Thread, Local!Main

(* The tries that find the lock held. *)
LEMMA SpinHeld == Spin!IInv => Spin!LockIsHeld
<1> SUFFICES ASSUME Spin!IInv PROVE Spin!LockIsHeld
  OBVIOUS
<1> USE DEF Spin!IInv, Spin!Got
<1>1. \A k \in 1 .. Len(tries) : k <= 2 => tries[k] = 0
  OBVIOUS
<1>2. Len(tries) = 4 => tries[3] + tries[4] <= 1
  <2>1. \A n \in 1 .. 10 : (IF n <= 2 THEN 0 ELSE IF n = 3 THEN 1 ELSE IF n <= 5 THEN 2
                            ELSE IF n = 6 THEN 3 ELSE 4) = 4 => n >= 7
    OBVIOUS
  <2> QED
    BY <2>1
<1>3. call > 9 /\ locked_ = 0 => weak /\ tries[3] + tries[4] = 0
  <2> SUFFICES ASSUME call > 9, locked_ = 0 PROVE weak /\ tries[3] + tries[4] = 0
    OBVIOUS
  <2>1. call = 10 /\ thread = "done"
    OBVIOUS
  <2>2. tries[3] + tries[4] = 0
    BY <2>1
  <2>3. weak
    BY <2>1, <2>2
  <2> QED
    BY <2>2, <2>3
<1> QED
  BY <1>1, <1>2, <1>3, CallsAre DEF Spin!LockIsHeld

(* Each addition, try and hand-over of the three programs, together. *)
HandOverIInv == Local!IInv /\ Spin!IInv /\ Value!IInv

(* A sum has one thread's count or both, no try gets a lock that is held,  *)
(* and the Container's value has one owner: in every state of a run, for   *)
(* any number of rounds and of users.                                      *)
THEOREM HandsOver == AnySpec => []HandOverSafety
<1>1. AnyInit => HandOverIInv
  BY LocalInit, SpinInit, ValueInit DEF AnyInit, HandOverIInv
<1>2. HandOverIInv /\ [AnyNext]_allVars => HandOverIInv'
  <2> SUFFICES ASSUME HandOverIInv, [AnyNext]_allVars PROVE HandOverIInv'
    OBVIOUS
  <2>1. /\ [Local!Next]_(Local!vars)
        /\ [Spin!Next]_(Spin!vars)
        /\ [Value!Next]_(Value!vars)
    BY EachProgramSteps
  <2> QED
    BY <2>1, LocalNext, SpinNext, ValueNext DEF HandOverIInv
<1>3. HandOverIInv => HandOverSafety
  BY LocalSum, SpinHeld, ValueHasOne DEF HandOverIInv, HandOverSafety
<1> QED
  BY <1>1, <1>2, <1>3, PTL DEF AnySpec

-------------------------------------------------------------------------------
(***************************************************************************)
(* read_all                                                                *)
(***************************************************************************)

(* What data becomes when the next n elements of the file are put behind   *)
(* it.                                                                     *)
LEMMA NextElements ==
    ASSUME data \in Seq(Int), file \in Seq(Int), NEW n \in 1 .. Len(file) - Len(data),
           data' = data \o SubSeq(file, Len(data) + 1, Len(data) + n)
    PROVE  /\ data' \in Seq(Int) /\ Len(data') = Len(data) + n
           /\ (\A k \in 1 .. Len(data) : data[k] = file[k]) =>
                \A k \in 1 .. Len(data') : data'[k] = file[k]
<1> DEFINE s == SubSeq(file, Len(data) + 1, Len(data) + n)
<1>1. /\ Len(data) \in Nat /\ Len(file) \in Nat /\ n \in Nat /\ n >= 1
      /\ Len(data) + n <= Len(file)
      /\ Len(data) + 1 \in 1 .. Len(file) + 1 /\ Len(data) + n \in Len(data) .. Len(file)
      /\ (Len(data) + n) - (Len(data) + 1) + 1 = n
  BY LenProperties
<1>2. /\ s \in Seq(Int) /\ Len(s) = n
      /\ \A k \in 1 .. n : s[k] = file[Len(data) + k]
  <2>1. \A k \in Len(data) + 1 .. Len(data) + n : k \in 1 .. Len(file)
    BY <1>1
  <2>2. \A k \in Len(data) + 1 .. Len(data) + n : file[k] \in Int
    BY <2>1, ElementOfSeq
  <2>3. Len(data) + 1 \in Int /\ Len(data) + n \in Int /\ Len(data) + 1 <= Len(data) + n
    BY <1>1
  <2>4. /\ s \in Seq(Int) /\ Len(s) = (Len(data) + n) - (Len(data) + 1) + 1
        /\ \A k \in 1 .. (Len(data) + n) - (Len(data) + 1) + 1 :
              s[k] = file[(Len(data) + 1) + k - 1]
    BY <2>2, <2>3, SubSeqProperties
  <2>5. \A k \in 1 .. n : (Len(data) + 1) + k - 1 = Len(data) + k
    BY <1>1
  <2> QED
    BY <1>1, <2>4, <2>5
<1>3. data' = data \o s
  BY DEF s
<1> HIDE DEF s
<1>4. /\ data' \in Seq(Int) /\ Len(data') = Len(data) + n
      /\ \A k \in 1 .. Len(data') :
            data'[k] = IF k <= Len(data) THEN data[k] ELSE s[k - Len(data)]
  <2>1. /\ data \o s \in Seq(Int) /\ Len(data \o s) = Len(data) + Len(s)
        /\ \A k \in 1 .. Len(data) + Len(s) :
              (data \o s)[k] = IF k <= Len(data) THEN data[k] ELSE s[k - Len(data)]
    BY <1>2, ConcatProperties
  <2> QED
    BY <1>2, <1>3, <2>1
<1>5. ASSUME \A k \in 1 .. Len(data) : data[k] = file[k], NEW k \in 1 .. Len(data')
      PROVE  data'[k] = file[k]
  <2>1. CASE k <= Len(data)
    <3>1. k \in 1 .. Len(data)
      BY <1>1, <1>4, <1>5, <2>1
    <3>2. data'[k] = data[k]
      BY <1>4, <1>5, <2>1
    <3> QED
      BY <1>5, <3>1, <3>2
  <2>2. CASE ~(k <= Len(data))
    <3>1. k - Len(data) \in 1 .. n /\ Len(data) + (k - Len(data)) = k
      BY <1>1, <1>4, <2>2
    <3>2. data'[k] = s[k - Len(data)]
      BY <1>4, <2>2
    <3> QED
      BY <1>2, <3>1, <3>2
  <2> QED
    BY <2>1, <2>2
<1> QED
  BY <1>4, <1>5

(* read_all has not opened the file. *)
LEMMA ReadInit == ReadFile!Init => ReadFile!IInv
<1> SUFFICES ASSUME ReadFile!Init PROVE ReadFile!IInv
  OBVIOUS
<1>1. file \in Seq(Int)
  <2>1. PICK n \in 0 .. MaxSize : file = [k \in 1 .. n |-> -k]
    BY DEF ReadFile!Init
  <2>2. n \in Nat /\ \A k \in 1 .. n : -k \in Int
    BY BoundsAssumption
  <2> QED
    BY <2>1, <2>2
<1> QED
  BY <1>1 DEF ReadFile!Init, ReadFile!IInv, ReadFile!Nothing

(* Somebody writes the file. *)
LEMMA WriteKeepsIInv ==
    ASSUME ReadFile!IInv, ReadFile!Write
    PROVE  ReadFile!IInv'
<1> USE BoundsAssumption DEF ReadFile!IInv, ReadFile!Write
<1>1. writes' \in Nat /\ writes' # 0
  OBVIOUS
<1>2. file' \in Seq(Int)
  <2>1. PICK from \in 0 .. Len(file), to \in 0 .. MaxSize :
          /\ from <= to
          /\ file' = [k \in 1 .. to |-> IF k <= from THEN file[k] ELSE writes']
    OBVIOUS
  <2>2. to \in Nat /\ writes' \in Int /\ from \in Nat /\ from <= Len(file)
    BY <1>1
  <2>3. \A k \in 1 .. to : (IF k <= from THEN file[k] ELSE writes') \in Int
    <3> SUFFICES ASSUME NEW k \in 1 .. to, k <= from PROVE file[k] \in Int
      BY <2>2
    <3>1. k \in 1 .. Len(file)
      BY <2>2
    <3> QED
      BY <3>1, ElementOfSeq
  <2> QED
    BY <2>1, <2>2, <2>3
<1> QED
  BY <1>1, <1>2
     DEF ReadFile!Begun, ReadFile!Complete, ReadFile!Prefix, ReadFile!Nothing

(* read_all takes a step. *)
LEMMA ReadStepKeepsIInv ==
    ASSUME ReadFile!IInv, ReadFile!read_all
    PROVE  ReadFile!IInv'
<1> USE BoundsAssumption DEF ReadFile!IInv
<1>1. CASE ReadFile!OpenFails
  BY <1>1 DEF ReadFile!OpenFails, ReadFile!Nothing
<1>2. CASE ReadFile!Open
  BY <1>2 DEF ReadFile!Open, ReadFile!Nothing
<1>3. CASE ReadFile!MeasureFails
  BY <1>3 DEF ReadFile!MeasureFails, ReadFile!Nothing
<1>4. CASE ReadFile!Measure
  <2>1. Len(file) \in Nat
    BY LenProperties
  <2>2. size' = Len(file) /\ UNCHANGED <<file, writes, f, ended>>
    BY <1>4 DEF ReadFile!Measure
  <2>3. CASE res' = TRUE /\ data' = <<>> /\ read_at' = "read"
    <3>1. data' \in Seq(Int) /\ Len(data') = 0
      BY <2>3
    <3> QED
      BY <2>1, <2>2, <2>3, <3>1 DEF ReadFile!Begun, ReadFile!Prefix
  <2>4. CASE res' = FALSE /\ data' = None /\ read_at' = "check"
    BY <2>2, <2>4
  <2> QED
    BY <1>4, <2>3, <2>4 DEF ReadFile!Measure
<1>5. CASE ReadFile!Read
  <2>1. /\ read_at = "read" /\ Len(file) > Len(data)
        /\ UNCHANGED <<file, writes, read_at, f, res, size, ended>>
    BY <1>5 DEF ReadFile!Read, ReadFile!Reading
  <2>2. data \in Seq(Int) /\ file \in Seq(Int) /\ size \in Nat /\ ReadFile!Prefix
    BY <2>1 DEF ReadFile!Begun
  <2>3. PICK n \in 1 .. Len(file) - Len(data) :
          /\ n <= size - Len(data)
          /\ data' = data \o SubSeq(file, Len(data) + 1, Len(data) + n)
    BY <1>5 DEF ReadFile!Read
  <2>4. /\ data' \in Seq(Int) /\ Len(data') = Len(data) + n
        /\ (\A k \in 1 .. Len(data) : data[k] = file[k]) => \A k \in 1 .. Len(data') : data'[k] = file[k]
    BY ONLY <2>2, <2>3, NextElements
  <2>5. Len(data') <= size
    BY <2>2, <2>3, <2>4
  <2>6. ReadFile!Begun' /\ ReadFile!Prefix'
    BY <2>1, <2>2, <2>4, <2>5 DEF ReadFile!Begun, ReadFile!Prefix
  <2> QED
    BY <2>1, <2>6
<1>6. CASE ReadFile!ReadFails
  BY <1>6 DEF ReadFile!ReadFails, ReadFile!Reading, ReadFile!Begun, ReadFile!Prefix
<1>7. CASE ReadFile!Terminate
  <2>1. /\ read_at = "read" /\ read_at' = "check" /\ ended' = TRUE
        /\ UNCHANGED <<file, writes, f, res, size, data>>
    BY <1>7 DEF ReadFile!Terminate
  <2>2. ReadFile!Begun /\ ReadFile!Prefix /\ ReadFile!Begun'
    BY <2>1 DEF ReadFile!Begun
  <2>3. CASE res
    <3>1. ~(Len(data) < size)
      BY <1>7, <2>3 DEF ReadFile!Terminate, ReadFile!Reading
    <3>2. Len(data) = size
      BY <2>2, <3>1 DEF ReadFile!Begun
    <3>3. writes = 0 => data = file
      BY <2>2, <3>2, SeqEqual DEF ReadFile!Begun, ReadFile!Prefix
    <3> QED
      BY <2>1, <2>2, <3>2, <3>3 DEF ReadFile!Complete
  <2>4. CASE ~res
    BY <2>1, <2>2, <2>4
  <2> QED
    BY <2>3, <2>4
<1>8. CASE ReadFile!Check
  <2>1. read_at = "check" /\ read_at' = "close" /\ UNCHANGED <<file, writes, f, res, ended>>
    BY <1>8 DEF ReadFile!Check
  <2>2. CASE res
    <3>1. ReadFile!Complete'
      BY <1>8, <2>1, <2>2 DEF ReadFile!Check, ReadFile!Complete, ReadFile!Begun
    <3> QED
      BY <2>1, <3>1
  <2>3. CASE ~res
    BY <1>8, <2>1, <2>3 DEF ReadFile!Check, ReadFile!Nothing
  <2> QED
    BY <2>2, <2>3
<1>9. CASE ReadFile!Close
  BY <1>9 DEF ReadFile!Close, ReadFile!Complete, ReadFile!Begun, ReadFile!Nothing
<1> QED
  BY <1>1, <1>2, <1>3, <1>4, <1>5, <1>6, <1>7, <1>8, <1>9 DEF ReadFile!read_all

(* What is complete or nothing is all or nothing. *)
LEMMA ReadIsSafe == ReadFile!IInv => ReadFile!ReadSafety
<1> SUFFICES ASSUME ReadFile!IInv PROVE ReadFile!ReadSafety
  OBVIOUS
<1> USE DEF ReadFile!IInv, ReadFile!Nothing, ReadFile!Complete, ReadFile!Begun
<1>1. ReadFile!StaysInMemory
  BY DEF ReadFile!StaysInMemory
<1>2. ReadFile!AllOrNothing
  BY BoundsAssumption DEF ReadFile!AllOrNothing
<1>3. ReadFile!Faithful
  BY DEF ReadFile!Faithful
<1> QED
  BY <1>1, <1>2, <1>3 DEF ReadFile!ReadSafety

(* However the file changes while it is read: read_all stays in its        *)
(* memory, returns all of a file's length or nothing, and a file that      *)
(* nobody has written as it is.                                            *)
THEOREM ReadsAll == AnySpec => []ReadSafety
<1>1. AnyInit => ReadFile!IInv
  BY ReadInit DEF AnyInit
<1>2. ReadFile!IInv /\ [AnyNext]_allVars => ReadFile!IInv'
  <2> SUFFICES ASSUME ReadFile!IInv, [AnyNext]_allVars PROVE ReadFile!IInv'
    OBVIOUS
  <2>1. [ReadFile!Next]_(ReadFile!vars)
    BY EachProgramSteps
  <2>2. CASE UNCHANGED ReadFile!vars
    BY <2>2 DEF ReadFile!vars, ReadFile!IInv, ReadFile!Begun, ReadFile!Complete,
                ReadFile!Prefix, ReadFile!Nothing
  <2> QED
    BY <2>1, <2>2, WriteKeepsIInv, ReadStepKeepsIInv DEF ReadFile!Next
<1>3. ReadFile!IInv => ReadSafety
  BY ReadIsSafe DEF ReadSafety
<1> QED
  BY <1>1, <1>2, <1>3, PTL DEF AnySpec

-------------------------------------------------------------------------------
(***************************************************************************)
(* dl_rt                                                                   *)
(***************************************************************************)

(* Nothing is built, and nothing is mapped. *)
LEMMA ReloadInit == Reload!Init => Reload!IInv
<1> SUFFICES ASSUME Reload!Init PROVE Reload!IInv
  OBVIOUS
<1>1. MaxVersion \in Nat /\ MaxTime \in Nat /\ MaxUpdates \in Nat
  BY BoundsAssumption
<1>2. Reload!TypeOK
  <2>1. /\ built \in 0 .. MaxVersion /\ now \in 0 .. MaxTime
        /\ mod_time \in 0 .. MaxTime /\ mod_stat \in 0 .. MaxTime
        /\ users \in 0 .. MaxUpdates /\ updates \in 0 .. MaxUpdates
    BY <1>1 DEF Reload!Init
  <2>2. /\ object = None /\ {run, seen, mapped} \subseteq Reload!Version \cup {None}
        /\ reload_at = "read" /\ handle = FALSE
    BY DEF Reload!Init
  <2> QED
    BY <2>1, <2>2 DEF Reload!TypeOK, Reload!Time
<1> QED
  BY <1>2 DEF Reload!Init, Reload!IInv, Reload!NotOlderThanSeen

(* Every step keeps the types, the counts within their bounds. *)
LEMMA ReloadKeepsTypeOK ==
    ASSUME Reload!IInv, [Reload!Next]_(Reload!vars)
    PROVE  Reload!TypeOK'
<1> USE RoundsAssumption, BoundsAssumption
    DEF Reload!IInv, Reload!TypeOK, Reload!Version, Reload!Time, Reload!Exists,
        Reload!disk, Reload!module, Reload!linker
<1>1. CASE Reload!Build
  BY <1>1 DEF Reload!Build
<1>2. CASE Reload!Remove
  BY <1>2 DEF Reload!Remove
<1>3. CASE Reload!Tick
  BY <1>3 DEF Reload!Tick
<1>4. CASE Reload!Read
  BY <1>4 DEF Reload!Read
<1>5. CASE Reload!Stat
  BY <1>5 DEF Reload!Stat
<1>6. CASE Reload!close_module
  <2>1. MaxUpdates \in Nat /\ users \in 0 .. MaxUpdates
    OBVIOUS
  <2>2. users' \in 0 .. MaxUpdates
    <3>1. CASE handle
      BY <1>6, <2>1, <3>1 DEF Reload!close_module
    <3>2. CASE ~handle
      BY <1>6, <2>1, <3>2 DEF Reload!close_module
    <3> QED
      BY <3>1, <3>2
  <2>3. mapped' \in {mapped, None} /\ reload_at' = "open" /\ handle' = FALSE
    BY <1>6 DEF Reload!close_module
  <2>4. UNCHANGED <<object, built, now, mod_time, run, mod_stat, seen, updates>>
    BY <1>6 DEF Reload!close_module
  <2> QED
    BY <2>2, <2>3, <2>4
<1>7. CASE Reload!Open
  BY <1>7 DEF Reload!Open
<1>8. CASE Reload!OpenFails
  BY <1>8 DEF Reload!OpenFails
<1>9. CASE Reload!Call
  BY <1>9 DEF Reload!Call
<1>10. CASE UNCHANGED Reload!vars
  BY <1>10 DEF Reload!vars
<1> QED
  BY <1>1, <1>2, <1>3, <1>4, <1>5, <1>6, <1>7, <1>8, <1>9, <1>10 DEF Reload!Next

(* And what is mapped, its uses and its version. *)
LEMMA ReloadNext ==
    ASSUME Reload!IInv, [Reload!Next]_(Reload!vars)
    PROVE  Reload!IInv'
<1> USE RoundsAssumption, BoundsAssumption, ReloadKeepsTypeOK
    DEF Reload!IInv, Reload!NotOlderThanSeen, Reload!disk, Reload!module, Reload!linker
<1>0. /\ users \in Nat /\ updates \in Nat /\ built \in Nat
      /\ mapped # None => mapped \in Nat
      /\ seen # None => seen \in Nat
      /\ object # None => object.version \in Nat
      /\ None \notin Nat
  BY DEF Reload!TypeOK, Reload!Version
<1>1. CASE Reload!Build
  BY <1>0, <1>1 DEF Reload!Build
<1>2. CASE Reload!Remove
  BY <1>0, <1>2 DEF Reload!Remove
<1>3. CASE Reload!Tick
  BY <1>0, <1>3 DEF Reload!Tick
<1>4. CASE Reload!Read
  BY <1>0, <1>4 DEF Reload!Read
<1>5. CASE Reload!Stat
  BY <1>0, <1>5 DEF Reload!Stat, Reload!Exists
<1>6. CASE Reload!close_module
  BY <1>0, <1>6 DEF Reload!close_module
<1>7. CASE Reload!Open
  BY <1>0, <1>7 DEF Reload!Open, Reload!Exists
<1>8. CASE Reload!OpenFails
  BY <1>0, <1>8 DEF Reload!OpenFails
<1>9. CASE Reload!Call
  BY <1>0, <1>9 DEF Reload!Call
<1>10. CASE UNCHANGED Reload!vars
  BY <1>0, <1>10 DEF Reload!vars
<1> QED
  BY <1>1, <1>2, <1>3, <1>4, <1>5, <1>6, <1>7, <1>8, <1>9, <1>10 DEF Reload!Next

(* The program calls into what is mapped. *)
LEMMA ReloadCalls == Reload!IInv => Reload!CallSafety
  BY DEF Reload!IInv, Reload!CallSafety, Reload!CallsMapped

(* A use too many is never given back. *)
LEMMA ReloadKeeps ==
    ASSUME NEW v, Reload!IInv, Reload!Kept(v), [Reload!Next]_(Reload!vars)
    PROVE  Reload!Kept(v)'
<1> USE DEF Reload!Kept, Reload!disk, Reload!module, Reload!linker
<1>0. users \in Nat /\ users' \in Nat
  BY BoundsAssumption, ReloadKeepsTypeOK DEF Reload!IInv, Reload!TypeOK
<1>1. CASE Reload!Build \/ Reload!Remove \/ Reload!Tick
  BY <1>1 DEF Reload!Build, Reload!Remove, Reload!Tick
<1>2. CASE Reload!Read
  BY <1>2 DEF Reload!Read
<1>3. CASE Reload!Stat
  BY <1>0, <1>3 DEF Reload!Stat
<1>4. CASE Reload!close_module
  BY <1>0, <1>4 DEF Reload!close_module
<1>5. CASE Reload!Open
  BY <1>0, <1>5 DEF Reload!Open
<1>6. CASE Reload!OpenFails \/ Reload!Call
  BY <1>0, <1>6 DEF Reload!OpenFails, Reload!Call
<1>7. CASE UNCHANGED Reload!vars
  BY <1>7 DEF Reload!vars
<1> QED
  BY <1>1, <1>2, <1>3, <1>4, <1>5, <1>6, <1>7 DEF Reload!Next

(* Every call goes into a mapping that is there and not older than what    *)
(* stat has seen; and once an unchanged module has been opened a second    *)
(* time its version is called for ever, whatever is built.                 *)
THEOREM ReloadKeepsFirst == AnySpec => ReloadKeepsOld
<1>1. AnyInit => Reload!IInv
  BY ReloadInit DEF AnyInit
<1>2. Reload!IInv /\ [AnyNext]_allVars => Reload!IInv'
  BY EachProgramSteps, ReloadNext
<1>3. AnySpec => []Reload!CallSafety
  BY <1>1, <1>2, ReloadCalls, PTL DEF AnySpec
<1>4. ASSUME NEW v \in Reload!Version
      PROVE  AnySpec => [](reload_at = "call" /\ users >= 2 /\ mapped = v => [](run = v /\ mapped = v))
  <2>1. Reload!IInv /\ reload_at = "call" /\ users >= 2 /\ mapped = v => Reload!Kept(v)
    BY RoundsAssumption DEF Reload!IInv, Reload!Kept
  <2>2. Reload!IInv /\ Reload!Kept(v) /\ [AnyNext]_allVars => Reload!Kept(v)'
    BY EachProgramSteps, ReloadKeeps
  <2>3. Reload!Kept(v) => run = v /\ mapped = v
    BY DEF Reload!Kept
  <2> QED
    BY <1>1, <1>2, <2>1, <2>2, <2>3, PTL DEF AnySpec
<1>5. AnySpec => Reload!SecondUseIsForEver
  BY <1>4 DEF Reload!SecondUseIsForEver
<1> QED
  BY <1>3, <1>5 DEF ReloadKeepsOld

-------------------------------------------------------------------------------
(* A run of any of the programs is a run of the counters' and of dl_rt's   *)
(* own specifications, so that what is proved of these holds of it.        *)
THEOREM EachProgramRuns == AnySpec => Spec /\ Reload!Spec
<1>1. AnyInit => Init /\ Reload!Init
  BY DEF AnyInit
<1>2. [AnyNext]_allVars => [Next]_vars /\ [Reload!Next]_(Reload!vars)
  BY EachProgramSteps
<1> QED
  BY <1>1, <1>2, PTL DEF AnySpec, Spec, Reload!Spec
==============================================================================
