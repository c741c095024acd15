-------------------------- MODULE MCConcurrentPrograms --------------------------
(***************************************************************************)
(* The small programs with threads, and those whose files somebody else    *)
(* changes: the semaphore, the shared counters, thread_local, the spin     *)
(* lock and the Container, read_all and dl_rt.  A run starts one of them;  *)
(* the variables of the others stay as their Init makes them.              *)
(***************************************************************************)
EXTENDS SharedCounter, Sequences, FiniteSets, TLC

CONSTANTS Caller, NoCaller, Permits, CallsOf,               \* of Semaphore
          main, th, a1, r1,                                 \* some callers
          LocalRounds,                                      \* of ThreadLocal
          User, NoUser,                                     \* of Container
          MaxSize, MaxWrites,                               \* of ReadAll
          MaxVersion, MaxTime, MaxUpdates                   \* of ModuleReload

ASSUME BoundsAssumption ==
    /\ IsFiniteSet(Caller) /\ NoCaller \notin Caller
    /\ Permits \in Nat
    /\ CallsOf \in [Caller -> Seq({"acquire", "release"})]
    /\ {LocalRounds, MaxSize, MaxWrites, MaxVersion, MaxTime, MaxUpdates} \subseteq Nat
    /\ NoUser \notin User
    /\ None \notin Seq(Int)

VARIABLES program,  \* which one runs
          counter_, mutex_, sem_pc, returned,
          local_at, tmp, x, cpu_id, pinned, local_loaded,
          weak, locked_, call, thread, tries,
          mutex, exists, user_at,
          file, writes, read_at, f, res, size, data, ended,
          object, built, now, reload_at, handle, mod_time, run, mod_stat, seen,
          mapped, users, updates

Sem == INSTANCE Semaphore WITH Thread <- Caller, NoThread <- NoCaller, Initial <- Permits,
                               Program <- CallsOf, pc <- sem_pc

Local == INSTANCE ThreadLocal WITH Rounds <- LocalRounds, at <- local_at, loaded <- local_loaded

Spin == INSTANCE SpinLock WITH i <- call, printed <- tries

Value == INSTANCE Container WITH at <- user_at

ReadFile == INSTANCE ReadAll WITH at <- read_at

Reload == INSTANCE ModuleReload WITH file <- object, at <- reload_at

(* The four acquires of run_semaphore's main and the release of its th,    *)
(* and two more threads that do the same at the same time.                 *)
Crowd ==
    (main :> <<"acquire", "acquire", "acquire", "acquire">>) @@ (th :> <<"release">>)
    @@ (a1 :> <<"acquire", "acquire">>) @@ (r1 :> <<"release", "release">>)

semVars == <<counter_, mutex_, sem_pc, returned>>
counterVars == vars
localVars == <<local_at, tmp, x, cpu_id, pinned, local_loaded>>
spinVars == <<weak, locked_, call, thread, tries>>
valueVars == <<mutex, exists, user_at>>
readVars == <<file, writes, read_at, f, res, size, data, ended>>
reloadVars == <<object, built, now, reload_at, handle, mod_time, run, mod_stat, seen,
                mapped, users, updates>>
allVars == <<program, semVars, counterVars, localVars, spinVars, valueVars, readVars,
             reloadVars>>

AnyInit ==
    /\ program \in {"semaphore", "counter", "thread_local", "spin", "container", "read_all",
                    "dl_rt"}
    /\ Sem!Init
    /\ Init /\ (program # "counter" => locking = "none")
    /\ Local!Init
    /\ (program = "spin" \/ weak = TRUE) /\ Spin!Init
    /\ Value!Init
    /\ ReadFile!Init /\ (program # "read_all" => file = <<>>)
    /\ Reload!Init

(* Program p takes a step, and the others none. *)
Only(p) ==
    /\ program = p /\ UNCHANGED program
    /\ IF p = "semaphore" THEN TRUE ELSE UNCHANGED semVars
    /\ IF p = "counter" THEN TRUE ELSE UNCHANGED counterVars
    /\ IF p = "thread_local" THEN TRUE ELSE UNCHANGED localVars
    /\ IF p = "spin" THEN TRUE ELSE UNCHANGED spinVars
    /\ IF p = "container" THEN TRUE ELSE UNCHANGED valueVars
    /\ IF p = "read_all" THEN TRUE ELSE UNCHANGED readVars
    /\ IF p = "dl_rt" THEN TRUE ELSE UNCHANGED reloadVars

AnyNext ==
    \/ Only("semaphore") /\ Sem!Next
    \/ Only("counter") /\ Next
    \/ Only("thread_local") /\ Local!Next
    \/ Only("spin") /\ Spin!Next
    \/ Only("container") /\ Value!Next
    \/ Only("read_all") /\ ReadFile!Next
    \/ Only("dl_rt") /\ Reload!Next

AnySpec == AnyInit /\ [][AnyNext]_allVars

(* Every thread runs, a thread that is in the Container's functions too;   *)
(* whether it calls them again is its own affair.  A thread does not wake  *)
(* up in the semaphore for no reason again and again for ever.             *)
AnyFairSpec ==
    /\ AnySpec
    /\ \A t \in Caller : WF_allVars(Only("semaphore") /\ Sem!Step(t))
    /\ <>[][\A t \in Caller : ~Sem!WakeSpuriously(t)]_allVars
    /\ WF_allVars(Only("counter") /\ PrintCounter)
    /\ \A t \in Thread : WF_allVars(Only("counter") /\ Worker(t))
    /\ WF_allVars(Only("thread_local") /\ Local!MainStep)
    /\ \A t \in Local!Thread : WF_allVars(Only("thread_local") /\ Local!Worker(t))
    /\ WF_allVars(Only("spin") /\ Spin!MainStep)
    /\ WF_allVars(Only("spin") /\ Spin!ThreadReleases)
    /\ \A t \in User : WF_allVars(Only("container") /\ Value!Inside(t))
    /\ WF_allVars(Only("read_all") /\ ReadFile!read_all)

-------------------------------------------------------------------------------
(* No wakeup of the semaphore is lost: while threads sleep, there are      *)
(* never more permits than threads on their way to take one.               *)
NoLostWakeup == Sem!NoLostWakeup

(* What is handed from thread to thread has one owner: a lost addition     *)
(* costs thread_local one thread's count and no more, no try gets a spin   *)
(* lock that is held, and the Container's value is never with two threads  *)
(* nor slept beside.                                                       *)
HandOverSafety ==
    /\ program = "thread_local" => Local!SumOfOneOrBoth
    /\ program = "spin" => Spin!LockIsHeld
    /\ program = "container" => Value!OneHasTheValue

(* read_all stays in its memory and returns all of a file's length or      *)
(* nothing, and every path gives back the memory and the descriptor.       *)
ReadSafety == ReadFile!ReadSafety

(* dl_rt calls into what is mapped, and maps nothing older than it saw; an *)
(* update that finds nothing new keeps the old version for ever.           *)
ReloadKeepsOld == []Reload!CallSafety /\ Reload!SecondUseIsForEver

(* The programs go on: every permit of the semaphore that somebody asks    *)
(* for is taken, main joins the threads of the counters and of             *)
(* thread_local, lock() gets the spin lock that another thread releases,   *)
(* the Container's value goes on, and read_all does not wait for bytes     *)
(* that a file has lost.                                                   *)
AllEnd ==
    /\ program = "semaphore" => Sem!EveryPermitTaken
    /\ program = "counter" => Prints
    /\ program = "thread_local" => Local!Joins
    /\ program = "spin" => Spin!LockReturns
    /\ program = "container" => Value!ValueGoesOn
    /\ program = "read_all" => ReadFile!Returns
==============================================================================
