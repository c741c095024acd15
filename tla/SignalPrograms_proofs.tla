------------------------- MODULE SignalPrograms_proofs -------------------------
(***************************************************************************)
(* Proofs about the programs that wait for signals and descriptors: the    *)
(* signal reader, ping-pong, the printers of SIGTERM and the loops of      *)
(* primitives, for every number of signals and of lines, and for all the   *)
(* values of the other constants.                                          *)
(***************************************************************************)
EXTENDS MCSignalPrograms, SequenceTheorems, TLAPS

-------------------------------------------------------------------------------
(***************************************************************************)
(* The programs side by side.                                              *)
(***************************************************************************)

(* A step of the whole is a step of each program or leaves it alone. *)
LEMMA EachProgramSteps ==
    ASSUME [AnyNext]_allVars
    PROVE  /\ [Next]_vars
           /\ [Turns!Next]_turnVars /\ [Turns!Next]_(Turns!vars)
           /\ [Term!Next]_(Term!vars)
           /\ [Loops!Next]_(Loops!vars)
<1>1. CASE AnyNext
  BY <1>1 DEF AnyNext, Only, readerVars, turnVars, termVars, loopVars, Turns!vars, Term!vars,
     Loops!vars
<1>2. CASE UNCHANGED allVars
  BY <1>2 DEF allVars, readerVars, turnVars, termVars, loopVars, vars, Turns!vars, Term!vars,
     Loops!vars
<1> QED
  BY <1>1, <1>2

-------------------------------------------------------------------------------
(***************************************************************************)
(* The signal reader.                                                      *)
(***************************************************************************)

(* No reader is acquired when the program starts. *)
LEMMA ReaderInit == Init => IInv
<1> SUFFICES ASSUME Init PROVE IInv
  OBVIOUS
<1>1. TypeOK
  <2>1. 1 \in 1 .. LastSignal + 1
    BY SignalAssumption
  <2> QED
    BY <2>1 DEF Init, TypeOK
<1>2. NoSleepOnUnread /\ FlagIsFresh /\ MaskAt /\ HandledAt /\ FlagAt
  BY DEF Init, NoSleepOnUnread, FlagIsFresh, MaskAt, HandledAt, FlagAt
<1> QED
  BY <1>1, <1>2 DEF IInv, Safety

(* Signals come and are delivered at any time. *)
LEMMA SignalKeepsReader ==
    ASSUME IInv, NEW s \in Signal, Send(s) \/ Handle(s) \/ Kill(s)
    PROVE  IInv'
<1> USE DEF IInv, Safety, TypeOK, NoSleepOnUnread, FlagIsFresh, MaskAt, HandledAt, FlagAt
<1>1. CASE Send(s)
  BY <1>1 DEF Send
<1>2. CASE Handle(s)
  BY <1>2 DEF Handle
<1>3. CASE Kill(s)
  BY <1>3 DEF Kill
<1> QED
  BY <1>1, <1>2, <1>3

(* A new reader sets the handlers one after the other. *)
LEMMA AcquireKeepsReader ==
    ASSUME IInv, sr_acquire
    PROVE  IInv'
<1> USE SignalAssumption
    DEF IInv, Safety, TypeOK, NoSleepOnUnread, FlagIsFresh, MaskAt, HandledAt, FlagAt, Signal
<1>1. CASE AcquireBlock
  BY <1>1 DEF AcquireBlock
<1>2. CASE AcquireHandler
  <2>1. handled \cup {next} = 1 .. next /\ next \in Signal
    BY <1>2 DEF AcquireHandler
  <2> QED
    BY <1>2, <2>1 DEF AcquireHandler
<1> QED
  BY <1>1, <1>2 DEF sr_acquire

(* A read looks at the flag, sleeps and returns. *)
LEMMA ReadKeepsReader ==
    ASSUME IInv, sr_read
    PROVE  IInv'
<1> USE DEF IInv, Safety, TypeOK, NoSleepOnUnread, FlagIsFresh, MaskAt, HandledAt, FlagAt
<1>1. CASE ReadCall
  BY <1>1 DEF ReadCall
<1>2. CASE ReadFound
  BY <1>2 DEF ReadFound
<1>3. CASE ReadEmpty
  BY <1>3 DEF ReadEmpty
<1>4. CASE ReadSuspend
  BY <1>4 DEF ReadSuspend
<1>5. CASE ReadResume
  BY <1>5 DEF ReadResume
<1>6. CASE ReadReturn
  BY <1>6 DEF ReadReturn
<1> QED
  BY <1>1, <1>2, <1>3, <1>4, <1>5, <1>6 DEF sr_read, ReadGoesOn

(* The default actions come back one after the other. *)
LEMMA ReleaseKeepsReader ==
    ASSUME IInv, sr_release
    PROVE  IInv'
<1> USE SignalAssumption
    DEF IInv, Safety, TypeOK, NoSleepOnUnread, FlagIsFresh, MaskAt, HandledAt, FlagAt, Signal
<1>1. CASE ReleaseUnblock
  <2>1. /\ next' \in Signal /\ next' \in 1 .. LastSignal + 1 /\ handled' = next' .. LastSignal
        /\ handled' = handled
    BY <1>1 DEF ReleaseUnblock
  <2> HIDE DEF Signal
  <2>2. TypeOK'
    BY <1>1, <2>1 DEF ReleaseUnblock
  <2>3. NoSleepOnUnread' /\ FlagIsFresh' /\ MaskAt' /\ HandledAt' /\ FlagAt'
    BY <1>1, <2>1 DEF ReleaseUnblock
  <2> QED
    BY <2>2, <2>3
<1>2. CASE ReleaseDefault
  <2>1. handled \ {next} = next + 1 .. LastSignal /\ next \in Signal
    BY <1>2 DEF ReleaseDefault
  <2> QED
    BY <1>2, <2>1 DEF ReleaseDefault
<1> QED
  BY <1>1, <1>2 DEF sr_release

(* So every step keeps the invariant. *)
LEMMA ReaderNext ==
    ASSUME IInv, [Next]_vars
    PROVE  IInv'
<1>1. CASE UNCHANGED vars
  BY <1>1 DEF vars, IInv, Safety, TypeOK, NoSleepOnUnread, FlagIsFresh, MaskAt, HandledAt, FlagAt
<1> QED
  BY <1>1, SignalKeepsReader, AcquireKeepsReader, ReadKeepsReader, ReleaseKeepsReader
  DEF Next, Deliver

(* sr_read never sleeps over a signal that was handled, and reports none   *)
(* twice, for every target_set and however signals and calls follow each   *)
(* other.                                                                  *)
THEOREM ReaderSafety == Spec => []Safety
  BY ReaderInit, ReaderNext, PTL DEF Spec, IInv

(* Between its look at the flag and its return a read is alone: no handler *)
(* puts another signal in the place of the one it is about to return.      *)
THEOREM ReaderKeepsFound == Spec => FoundIsKept
<1>1. ASSUME IInv, [Next]_vars
      PROVE  [pc = "found" => UNCHANGED sr_last_signal /\ (sr_exists' => sr_exists)]_vars
  BY <1>1 DEF IInv, MaskAt, Next, Send, Deliver, Handle, Kill, sr_acquire, AcquireBlock,
     AcquireHandler, sr_read, ReadCall, ReadGoesOn, ReadFound, ReadEmpty, ReadSuspend,
     ReadResume, ReadReturn, sr_release, ReleaseUnblock, ReleaseDefault, vars
<1> QED
  BY <1>1, ReaderInit, ReaderNext, PTL DEF Spec, FoundIsKept

(* A signal of target_set kills the program only before it has acquired    *)
(* the reader, and while sr_release puts the default actions back.         *)
THEOREM ReaderIsSafe == Spec => SafeWhileAcquired
<1>1. ASSUME IInv, [Next]_vars
      PROVE  [pc' = "killed" => pc = "out" \/ (pc = "release" /\ next > 1)]_vars
  <2>1. ASSUME NEW s \in Signal, Kill(s) PROVE pc = "out" \/ (pc = "release" /\ next > 1)
    <3>1. ~blocked /\ s \notin handled /\ pc # "killed"
      BY <2>1 DEF Kill
    <3>2. pc \in {"out", "release"}
      BY <1>1, <3>1 DEF IInv, Safety, TypeOK, MaskAt, HandledAt
    <3>3. pc = "release" => next \in Signal /\ handled = next .. LastSignal
      BY <1>1 DEF IInv, HandledAt
    <3> QED
      BY SignalAssumption, <3>1, <3>2, <3>3 DEF Signal
  <2>2. ASSUME Next, pc' = "killed" PROVE \E s \in Signal : Kill(s)
    BY <2>2 DEF Next, Send, Deliver, Handle, sr_acquire, AcquireBlock, AcquireHandler, sr_read,
       ReadCall, ReadGoesOn, ReadFound, ReadEmpty, ReadSuspend, ReadResume, ReadReturn,
       sr_release, ReleaseUnblock, ReleaseDefault
  <2> QED
    BY <1>1, <2>1, <2>2
<1> QED
  BY <1>1, ReaderInit, ReaderNext, PTL DEF Spec, SafeWhileAcquired

-------------------------------------------------------------------------------
(***************************************************************************)
(* Ping-pong.                                                              *)
(***************************************************************************)

(* The three process ids differ, and child 1 is handed one of them. *)
LEMMA ProcessIds ==
    /\ LastNumber \in Nat /\ Pid1 \in Nat \ {0} /\ Pid2 \in Nat \ {0} /\ Pid1 # Pid2
    /\ <<Pid1, Pid2>>[1] = Pid1 /\ <<Pid1, Pid2>>[2] = Pid2
    /\ Turns!NoPid \in Nat \ {0} /\ Turns!NoPid # Pid1 /\ Turns!NoPid # Pid2
    /\ Turns!Id = {1, 2} /\ Turns!Other(1) = 2 /\ Turns!Other(2) = 1
<1>1. /\ LastNumber \in Nat /\ Pid1 \in Nat \ {0} /\ Pid2 \in Nat \ {0} /\ Pid1 # Pid2
  BY BoundsAssumption
<1>2. <<Pid1, Pid2>>[1] = Pid1 /\ <<Pid1, Pid2>>[2] = Pid2
  OBVIOUS
<1>3. \E k \in {Pid1, Pid2} : k >= Pid1 /\ k >= Pid2
  BY <1>1
<1>4. \E k \in {<<Pid1, Pid2>>[1], <<Pid1, Pid2>>[2]} :
         \A d \in {1, 2} : k >= <<Pid1, Pid2>>[d]
  BY <1>2, <1>3
<1>5. \E k \in {Pid1, Pid2} : k >= Pid1 /\ k >= Pid2 /\ Turns!NoPid = 1 + k
  BY <1>2, <1>4 DEF Turns!NoPid, Turns!Id
<1> QED
  BY <1>1, <1>2, <1>5 DEF Turns!Id, Turns!Other

(* A record goes in at one end of the pipe and comes out at the other. *)
LEMMA OneRecord ==
    ASSUME NEW a \in Nat
    PROVE  /\ <<>> \in Seq(Nat) /\ <<a>> \in Seq(Nat)
           /\ Append(<<>>, a) = <<a>>
           /\ <<a>> # <<>> /\ Head(<<a>>) = a /\ Tail(<<a>>) = <<>>
<1>1. Append(<<>>, a) = <<a>>
  OBVIOUS
<1>2. <<a>> # <<>> /\ Head(<<a>>) = a
  OBVIOUS
<1>3. Tail(<<a>>) = <<>>
  OBVIOUS
<1>4. <<>> \in Seq(Nat) /\ <<a>> \in Seq(Nat)
  OBVIOUS
<1> QED
  BY <1>1, <1>2, <1>3, <1>4

(* The same with two of them. *)
LEMMA TwoRecords ==
    ASSUME NEW a \in Nat, NEW b \in Nat
    PROVE  /\ <<a, b>> \in Seq(Nat)
           /\ Append(<<a>>, b) = <<a, b>>
           /\ <<a, b>> # <<>> /\ Head(<<a, b>>) = a /\ Tail(<<a, b>>) = <<b>>
<1>1. <<a, b>> \in Seq(Nat)
  OBVIOUS
<1>2. Append(<<a>>, b) = <<a, b>>
  <2>1. Append(<<a>>, b) \in Seq(Nat) /\ Len(Append(<<a>>, b)) = 2 /\ Len(<<a, b>>) = 2
    OBVIOUS
  <2>2. Append(<<a>>, b)[1] = a /\ Append(<<a>>, b)[2] = b
    OBVIOUS
  <2>3. \A j \in 1 .. 2 : Append(<<a>>, b)[j] = <<a, b>>[j]
    BY <2>2
  <2> QED
    BY <1>1, <2>1, <2>3, SeqEqual
<1>3. <<a, b>> # <<>> /\ Head(<<a, b>>) = a
  OBVIOUS
<1>4. Tail(<<a, b>>) = <<b>>
  OBVIOUS
<1> QED
  BY <1>1, <1>2, <1>3, <1>4

(* main is about to fork the first child. *)
LEMMA TurnsInit == Turns!Init => Turns!IInv
<1> SUFFICES ASSUME Turns!Init PROVE Turns!IInv
  OBVIOUS
<1> USE ProcessIds DEF Turns!Init
<1>1. Turns!TypeOK
  BY DEF Turns!TypeOK
<1>2. Turns!Pids
  BY DEF Turns!Pids
<1>3. Turns!PrintedInOrder
  BY DEF Turns!PrintedInOrder
<1>4. Turns!Setup
  BY DEF Turns!Setup
<1> QED
  BY <1>1, <1>2, <1>3, <1>4 DEF Turns!IInv

(* What main and child 1 do before the first kill. *)
LEMMA SetupSteps ==
    ASSUME Turns!IInv, Turns!Setup, main_pc # "wait", Turns!Next
    PROVE  Turns!IInv'
<1> USE ProcessIds
<1> DEFINE p == Turns!ForChild1
<1>1. p \in Nat /\ p = IF turn_pc[2] = "none" THEN Turns!NoPid ELSE Pid2
  BY DEF Turns!ForChild1
<1>2. /\ Turns!TypeOK /\ Turns!Pids /\ turn_pc[2] \in {"none", "signal"} /\ lines = <<>>
      /\ ~turn_pending[1] /\ ~turn_pending[2] /\ v[1] = 0 /\ v[2] = 0
      /\ turn_pc[1] \in {"none", "wait pid", "signal"}
  BY DEF Turns!IInv, Turns!Setup
<1>3. ASSUME UNCHANGED lines PROVE Turns!PrintedInOrder'
  BY <1>3 DEF Turns!IInv, Turns!PrintedInOrder
<1> HIDE DEF p
<1>4. CASE Turns!ForkChild1 \/ Turns!ForkChild1Fails
  <2>1. Turns!TypeOK' /\ Turns!Pids'
    <3>1. CASE Turns!ForkChild1
      <4>1. Turns!TypeOK'
        BY <1>2, <3>1 DEF Turns!TypeOK, Turns!ForkChild1
      <4>2. turn_pc[1] = "none" /\ turn_pc' = [turn_pc EXCEPT ![1] = "wait pid"]
        BY <3>1 DEF Turns!ForkChild1, Turns!Setup
      <4> QED
        BY <1>2, <3>1, <4>1, <4>2 DEF Turns!TypeOK, Turns!Pids, Turns!ForkChild1, Turns!ForChild1
    <3>2. CASE Turns!ForkChild1Fails
      BY <1>2, <3>2 DEF Turns!TypeOK, Turns!Pids, Turns!ForkChild1Fails, Turns!ForChild1
    <3> QED
      BY <1>4, <3>1, <3>2
  <2>2. Turns!Setup'
    BY <1>2, <1>4 DEF Turns!TypeOK, Turns!Setup, Turns!ForkChild1, Turns!ForkChild1Fails
  <2> QED
    BY <1>3, <1>4, <2>1, <2>2 DEF Turns!IInv, Turns!ForkChild1, Turns!ForkChild1Fails
<1>5. CASE Turns!ForkChild2 \/ Turns!ForkChild2Fails
  <2>1. turn_pc[1] = "wait pid" /\ turn_pc[2] = "none" /\ pipe = <<>>
    BY <1>5 DEF Turns!ForkChild2, Turns!ForkChild2Fails, Turns!Setup
  <2>2. Turns!TypeOK' /\ Turns!Pids'
    BY <1>2, <1>5, <2>1 DEF Turns!TypeOK, Turns!Pids, Turns!ForkChild2, Turns!ForkChild2Fails,
       Turns!ForChild1
  <2>3. Turns!Setup'
    BY <1>2, <1>5, <2>1 DEF Turns!TypeOK, Turns!Setup, Turns!ForkChild2, Turns!ForkChild2Fails
  <2> QED
    BY <1>3, <1>5, <2>2, <2>3 DEF Turns!IInv, Turns!ForkChild2, Turns!ForkChild2Fails
<1>6. CASE Turns!InitChild1
  <2>1. turn_pc[1] = "wait pid" /\ pipe = <<>>
    BY <1>6 DEF Turns!InitChild1, Turns!Setup
  <2>2. pipe' = <<p>> /\ pipe' \in Seq(Nat)
    BY <1>1, <1>6, <2>1, OneRecord DEF Turns!InitChild1, Turns!WriteNumber
  <2>3. Turns!TypeOK' /\ Turns!Pids'
    BY <1>2, <1>6, <2>2 DEF Turns!TypeOK, Turns!Pids, Turns!InitChild1, Turns!ForChild1
  <2>4. Turns!Setup'
    BY <1>2, <1>6, <2>1, <2>2 DEF Turns!Setup, Turns!InitChild1, Turns!ForChild1, p
  <2> QED
    BY <1>3, <1>6, <2>3, <2>4 DEF Turns!IInv, Turns!InitChild1
<1>7. CASE Turns!Overflow
  <2>1. turn_pc[1] = "wait pid" /\ turn_pc[2] = "none" /\ pipe = <<>>
    BY <1>7 DEF Turns!Overflow, Turns!Setup
  <2>2. pipe' \in {<<>>, <<Turns!NoPid>>} /\ pipe' \in Seq(Nat)
    BY <1>7, <2>1, OneRecord DEF Turns!Overflow, Turns!WriteNumber
  <2>3. Turns!TypeOK' /\ Turns!Pids'
    BY <1>2, <1>7, <2>2 DEF Turns!TypeOK, Turns!Pids, Turns!Overflow, Turns!ForChild1
  <2>4. Turns!Setup'
    BY <1>2, <1>7, <2>1, <2>2 DEF Turns!Setup, Turns!Overflow
  <2> QED
    BY <1>3, <1>7, <2>3, <2>4 DEF Turns!IInv, Turns!Overflow
<1>8. CASE Turns!InitSequence
  <2>1. pipe = IF turn_pc[1] = "wait pid" THEN <<p>> ELSE <<>>
    BY <1>8 DEF Turns!InitSequence, Turns!Setup, p
  <2>2. /\ pipe' = IF turn_pc[1] = "wait pid" THEN <<p, 1>> ELSE <<1>>
        /\ pipe' \in Seq(Nat)
    <3>1. pipe' = Append(pipe, 1)
      BY <1>8 DEF Turns!InitSequence, Turns!WriteNumber
    <3> QED
      <4>1. CASE turn_pc[1] = "wait pid"
        <5>1. pipe' = Append(<<p>>, 1)
          BY <2>1, <3>1, <4>1
        <5>2. <<p, 1>> \in Seq(Nat) /\ Append(<<p>>, 1) = <<p, 1>>
          BY <1>1, TwoRecords
        <5> QED
          BY <4>1, <5>1, <5>2
      <4>2. CASE turn_pc[1] # "wait pid"
        <5>1. pipe' = Append(<<>>, 1)
          BY <2>1, <3>1, <4>2
        <5> QED
          BY <4>2, <5>1, OneRecord
      <4> QED
        BY <4>1, <4>2
  <2>3. Turns!TypeOK' /\ Turns!Pids'
    BY <1>2, <1>8, <2>2 DEF Turns!TypeOK, Turns!Pids, Turns!InitSequence, Turns!ForChild1
  <2>4. Turns!Setup'
    BY <1>2, <1>8, <2>2 DEF Turns!Setup, Turns!InitSequence, Turns!ForChild1, p
  <2> QED
    BY <1>3, <1>8, <2>3, <2>4 DEF Turns!IInv, Turns!InitSequence
<1>9. CASE Turns!KillChild1
  <2>1. /\ turn_pc[1] \in {"wait pid", "signal"}
        /\ pipe = IF turn_pc[1] = "wait pid" THEN <<p, 1>> ELSE <<1>>
    BY <1>9 DEF Turns!KillChild1, Turns!Setup, p
  <2>2. /\ turn_pending' \in [Turns!Id -> BOOLEAN]
        /\ turn_pending'[1] /\ ~turn_pending'[2]
    BY <1>2, <1>9 DEF Turns!KillChild1, Turns!Kill
  <2>3. Turns!TypeOK' /\ Turns!Pids'
    BY <1>2, <1>9, <2>2 DEF Turns!TypeOK, Turns!Pids, Turns!KillChild1, Turns!ForChild1
  <2>4. Turns!Due(1, 1)'
    <3>1. Turns!OnItsWay(1, 1)'
      BY <1>2, <1>9, <2>1, <2>2 DEF Turns!KillChild1, Turns!OnItsWay, Turns!AtHome,
         Turns!Resting, Turns!Missing, Turns!Signalled, Turns!ForChild1, p
    <3>2. lines' = <<>> /\ v'[1] = 0 /\ v'[2] = 0 /\ Len(<<>>) = 0
      BY <1>2, <1>9 DEF Turns!KillChild1
    <3>3. 1 % 2 = 1
      OBVIOUS
    <3> QED
      BY <2>2, <3>1, <3>2, <3>3 DEF Turns!Due
  <2>5. Turns!UnderWay'
    <3>1. 1 \in {v'[Turns!Other(1)] + 1} /\ 1 \in Turns!Id
      <4>1. v' = v
        BY <1>9 DEF Turns!KillChild1
      <4>2. v'[Turns!Other(1)] = 0
        BY <1>2, <4>1
      <4> QED
        BY <4>2
    <3> QED
      BY <2>4, <3>1 DEF Turns!UnderWay
  <2> QED
    BY <1>3, <1>9, <2>3, <2>5 DEF Turns!IInv, Turns!KillChild1
<1>10. ASSUME NEW c \in Turns!Id, Turns!ChildStep(c)
       PROVE  c = 1 /\ Turns!WaitPid(1)
  BY <1>2, <1>10 DEF Turns!ChildStep, Turns!WaitPid, Turns!ReadSignal, Turns!ReadAndPrint,
     Turns!KillOther, Turns!WriteNext
<1>11. CASE Turns!WaitPid(1)
  <2>1. turn_pc[1] = "wait pid" /\ pipe # <<>> /\ pipe' = Tail(pipe)
    BY <1>11 DEF Turns!WaitPid, Turns!ReadNumber
  <2>2. /\ main_pc \in {"init sequence", "kill", "exited"}
        /\ pipe = IF main_pc = "kill" THEN <<p, 1>> ELSE <<p>>
    BY <1>1, <1>2, <2>1 DEF Turns!Setup, Turns!TypeOK, p
  <2>3. /\ pipe' = IF main_pc = "kill" THEN <<1>> ELSE <<>>
        /\ Head(pipe) = p /\ pipe' \in Seq(Nat)
    <3>1. CASE main_pc = "kill"
      <4>1. pipe = <<p, 1>>
        BY <2>2, <3>1
      <4> QED
        BY <1>1, <2>1, <3>1, <4>1, OneRecord, TwoRecords
    <3>2. CASE main_pc # "kill"
      <4>1. pipe = <<p>>
        BY <2>2, <3>2
      <4> QED
        BY <1>1, <2>1, <3>2, <4>1, OneRecord
    <3> QED
      BY <3>1, <3>2
  <2>4. /\ pid' = [pid EXCEPT ![1] = p] /\ turn_pc' = [turn_pc EXCEPT ![1] = "signal"]
        /\ UNCHANGED <<main_pc, turn_pending, v, lines>>
    BY <1>11, <2>3 DEF Turns!WaitPid
  <2>5. Turns!TypeOK'
    BY <1>1, <1>2, <2>3, <2>4 DEF Turns!TypeOK
  <2>6. Turns!Pids'
    BY <1>1, <1>2, <2>4 DEF Turns!TypeOK, Turns!Pids, Turns!ForChild1
  <2>7. Turns!Setup'
    BY <1>2, <2>2, <2>3, <2>4 DEF Turns!TypeOK, Turns!Setup
  <2> QED
    BY <1>3, <2>2, <2>4, <2>5, <2>6, <2>7 DEF Turns!IInv
<1>12. ~Turns!MainExit
  BY DEF Turns!MainExit
<1> QED
  BY <1>4, <1>5, <1>6, <1>7, <1>8, <1>9, <1>10, <1>11, <1>12 DEF Turns!Next, Turns!MainStep

(* A number that is under way keeps the invariant when it stays so. *)
LEMMA StaysUnderWay ==
    ASSUME Turns!TypeOK', Turns!Pids', Turns!PrintedInOrder', main_pc' \in {"wait", "exited"},
           NEW c \in Turns!Id, NEW k, k = v'[Turns!Other(c)] + 1, Turns!Due(c, k)'
    PROVE  Turns!IInv'
  BY DEF Turns!IInv, Turns!UnderWay

(* The steps of the child that number k is on its way to: it takes its     *)
(* process id, its signal and the number out of the pipe and prints it.    *)
LEMMA ReceiverSteps ==
    ASSUME Turns!IInv, main_pc \in {"wait", "exited"}, main_pc' = main_pc,
           NEW c \in Turns!Id, NEW k \in Nat \ {0}, k = v[Turns!Other(c)] + 1, Turns!Due(c, k),
           Turns!WaitPid(c) \/ Turns!ReadSignal(c) \/ Turns!ReadAndPrint(c)
    PROVE  Turns!IInv'
<1> USE ProcessIds
<1> DEFINE o == Turns!Other(c)
<1>1. o \in Turns!Id /\ o # c /\ Turns!Other(o) = c /\ k \in Nat /\ k > 0
  BY DEF Turns!Other
<1>2. Turns!TypeOK /\ Turns!Pids /\ Turns!PrintedInOrder
  BY DEF Turns!IInv
<1>3. /\ c = IF k % 2 = 1 THEN 1 ELSE 2
      /\ v[c] = IF k = 1 THEN 0 ELSE k - 2
      /\ Len(lines) = IF k - 1 <= LastNumber THEN k - 1 ELSE LastNumber
      /\ ~turn_pending[o] /\ Turns!OnItsWay(c, k)
  BY DEF Turns!Due
<1> HIDE DEF o
<1>4. CASE Turns!WaitPid(c)
  <2>1. turn_pc[c] = "wait pid" /\ pipe' = Tail(pipe)
    BY <1>4 DEF Turns!WaitPid, Turns!ReadNumber
  <2>2. c = 1 /\ o = 2 /\ k = 1
    BY <1>1, <1>3, <2>1 DEF Turns!OnItsWay, Turns!AtHome, Turns!Resting, Turns!Missing,
       Turns!Signalled, o
  <2>3. turn_pending[1] /\ Turns!AtHome(2) /\ pipe = <<Turns!ForChild1, 1>>
    BY <1>3, <2>1, <2>2 DEF Turns!OnItsWay, Turns!AtHome, Turns!Resting, Turns!Missing,
       Turns!Signalled
  <2>4. Turns!ForChild1 \in Nat
    BY DEF Turns!ForChild1
  <2>5. Head(pipe) = Turns!ForChild1 /\ pipe' = <<1>> /\ pipe' \in Seq(Nat)
    <3>1. /\ Tail(<<Turns!ForChild1, 1>>) = <<1>> /\ <<1>> \in Seq(Nat)
          /\ Head(<<Turns!ForChild1, 1>>) = Turns!ForChild1
      BY <2>4, OneRecord, TwoRecords
    <3> QED
      BY <2>1, <2>3, <3>1
  <2>6. /\ pid' = [pid EXCEPT ![1] = Turns!ForChild1]
        /\ turn_pc' = [turn_pc EXCEPT ![1] = "signal"]
        /\ UNCHANGED <<turn_pending, v, lines>>
    BY <1>4, <2>2, <2>5 DEF Turns!WaitPid
  <2>7. Turns!TypeOK'
    BY <1>2, <2>5, <2>6 DEF Turns!TypeOK, Turns!ForChild1
  <2>8. Turns!Pids'
    BY <1>2, <2>6 DEF Turns!TypeOK, Turns!Pids, Turns!ForChild1
  <2>9. Turns!OnItsWay(1, 1)'
    <3>1. Turns!AtHome(2)'
      BY <1>2, <2>3, <2>6 DEF Turns!TypeOK, Turns!AtHome, Turns!Resting, Turns!Missing
    <3>2. Turns!Signalled(1)'
      BY <1>2, <1>3, <2>2, <2>3, <2>6 DEF Turns!TypeOK, Turns!Signalled, Turns!Resting
    <3> QED
      BY <2>5, <3>1, <3>2 DEF Turns!OnItsWay
  <2>10. Turns!Due(c, k)'
    BY <1>3, <2>2, <2>6, <2>9 DEF Turns!Due, o
  <2>11. Turns!PrintedInOrder'
    BY <1>2, <2>6 DEF Turns!PrintedInOrder
  <2> QED
    BY <2>6, <2>7, <2>8, <2>10, <2>11, StaysUnderWay
<1>5. CASE Turns!ReadSignal(c)
  <2>1. /\ turn_pc[c] = "signal" /\ turn_pending[c]
        /\ turn_pending' = [turn_pending EXCEPT ![c] = FALSE]
        /\ turn_pc' = [turn_pc EXCEPT ![c] = "number"]
        /\ UNCHANGED <<pipe, pid, v, lines>>
    BY <1>5 DEF Turns!ReadSignal
  <2>2. Turns!TypeOK'
    BY <1>2, <2>1 DEF Turns!TypeOK
  <2>3. Turns!Pids'
    BY <1>2, <2>1 DEF Turns!TypeOK, Turns!Pids, Turns!ForChild1
  <2>4. Turns!Signalled(c)' /\ turn_pc'[o] = turn_pc[o] /\ ~turn_pending'[o]
    BY <1>1, <1>2, <1>3, <2>1 DEF Turns!TypeOK, Turns!Signalled
  <2>5. Turns!AtHome(o) => Turns!AtHome(o)'
    BY <2>1, <2>4 DEF Turns!AtHome, Turns!Resting, Turns!Missing
  <2>6. \/ turn_pc[o] = "write" /\ k > 1 /\ pipe = <<>>
        \/ Turns!AtHome(o) /\ pipe = <<k>>
    BY <1>3, <2>1 DEF Turns!OnItsWay, o
  <2>7. Turns!OnItsWay(c, k)'
    BY <2>1, <2>4, <2>5, <2>6 DEF Turns!OnItsWay, o
  <2>8. Turns!Due(c, k)'
    BY <1>3, <2>1, <2>4, <2>7 DEF Turns!Due, o
  <2>9. Turns!PrintedInOrder'
    BY <1>2, <2>1 DEF Turns!PrintedInOrder
  <2> QED
    BY <2>1, <2>2, <2>3, <2>8, <2>9, StaysUnderWay
<1>6. CASE Turns!ReadAndPrint(c)
  <2>1. turn_pc[c] = "number" /\ pipe # <<>> /\ pipe' = Tail(pipe)
    BY <1>6 DEF Turns!ReadAndPrint, Turns!ReadNumber
  <2>2. ~turn_pending[c] /\ Turns!AtHome(o) /\ pipe = <<k>>
    BY <1>3, <2>1 DEF Turns!OnItsWay, Turns!AtHome, Turns!Resting, Turns!Missing,
       Turns!Signalled, o
  <2>3. Head(pipe) = k /\ pipe' = <<>> /\ pipe' \in Seq(Nat)
    BY <2>1, <2>2, OneRecord
  <2>4. /\ v' = [v EXCEPT ![c] = k] /\ turn_pc' = [turn_pc EXCEPT ![c] = "kill"]
        /\ lines' = IF k <= LastNumber THEN Append(lines, <<c, k>>) ELSE lines
        /\ UNCHANGED <<turn_pending, pid>>
    BY <1>6, <2>3 DEF Turns!ReadAndPrint
  <2>5. <<c, k>> \in Turns!Id \X Nat /\ lines \in Seq(Turns!Id \X Nat)
    BY <1>2 DEF Turns!TypeOK
  <2>6. lines' \in Seq(Turns!Id \X Nat)
    BY <2>4, <2>5
  <2>7. Turns!TypeOK'
    BY <1>2, <2>3, <2>4, <2>6 DEF Turns!TypeOK
  <2>8. Turns!Pids'
    BY <1>2, <2>1, <2>4 DEF Turns!TypeOK, Turns!Pids, Turns!ForChild1
  <2>9. Len(lines') = IF k <= LastNumber THEN k ELSE LastNumber
    <3>1. CASE k <= LastNumber
      <4>1. Len(lines) = k - 1
        <5>1. k - 1 <= LastNumber
          BY <1>1, <3>1
        <5> QED
          BY <1>3, <5>1
      <4>2. lines' = Append(lines, <<c, k>>)
        BY <2>4, <3>1
      <4> QED
        BY <2>5, <3>1, <4>1, <4>2
    <3>2. CASE ~(k <= LastNumber)
      <4>1. Len(lines) = LastNumber
        <5>1. k - 1 <= LastNumber => k - 1 = LastNumber
          BY <1>1, <3>2
        <5> QED
          BY <1>3, <5>1
      <4>2. lines' = lines
        BY <2>4, <3>2
      <4> QED
        BY <3>2, <4>1, <4>2
    <3> QED
      BY <3>1, <3>2
  <2>10. Turns!PrintedInOrder'
    <3>1. ASSUME NEW j \in 1 .. Len(lines')
          PROVE  lines'[j] = <<IF j % 2 = 1 THEN 1 ELSE 2, j>>
      <4>1. CASE j \in 1 .. Len(lines)
        BY <1>2, <2>4, <2>5, <4>1 DEF Turns!PrintedInOrder
      <4>2. CASE j \notin 1 .. Len(lines)
        <5>1. k <= LastNumber /\ j = k /\ Len(lines) = k - 1
          <6>1. Len(lines) \in Nat /\ j \in 1 .. Len(lines')
            BY <2>5
          <6> QED
            <7>1. CASE k <= LastNumber
              <8>1. k - 1 <= LastNumber
                BY <1>1, <7>1
              <8>2. Len(lines) = k - 1 /\ Len(lines') = k
                BY <1>3, <2>9, <7>1, <8>1
              <8> QED
                BY <1>1, <4>2, <6>1, <7>1, <8>2
            <7>2. CASE ~(k <= LastNumber)
              <8>1. lines' = lines
                BY <2>4, <7>2
              <8> QED
                BY <4>2, <6>1, <8>1
            <7> QED
              BY <7>1, <7>2
        <5>2. lines'[j] = <<c, k>>
          BY <2>4, <2>5, <5>1
        <5> QED
          BY <1>3, <5>1, <5>2
      <4> QED
        BY <4>1, <4>2
    <3> QED
      BY <2>9, <3>1 DEF Turns!PrintedInOrder
  <2>11. Turns!OnItsWay(o, k + 1)'
    <3>1. turn_pc'[c] = "kill" /\ ~turn_pending'[o]
      BY <1>2, <1>3, <2>4 DEF Turns!TypeOK
    <3>2. Turns!AtHome(o)'
      BY <1>1, <2>1, <2>2, <2>4 DEF Turns!AtHome, Turns!Resting, Turns!Missing
    <3> QED
      BY <1>1, <2>3, <3>1, <3>2 DEF Turns!OnItsWay
  <2>12. /\ o = IF (k + 1) % 2 = 1 THEN 1 ELSE 2
         /\ v'[o] = k - 1 /\ v'[c] = k
    <3>1. v'[o] = v[o] /\ v'[c] = k /\ v[o] = k - 1
      <4>1. v \in [Turns!Id -> Nat] /\ v[o] = k - 1
        <5>1. v \in [Turns!Id -> Nat] /\ k = v[o] + 1
          BY <1>2 DEF Turns!TypeOK, o
        <5>2. v[o] \in Nat
          BY <1>1, <5>1
        <5> QED
          BY <5>1, <5>2
      <4> QED
        BY <1>1, <2>4, <4>1
    <3>2. (k + 1) % 2 = 1 <=> k % 2 # 1
      OBVIOUS
    <3>3. o = 3 - c
      BY DEF Turns!Other, o
    <3> QED
      BY <1>1, <1>3, <3>1, <3>2, <3>3
  <2>13. Turns!Due(o, k + 1)'
    <3>1. (k + 1) - 1 = k /\ (k + 1) - 2 = k - 1 /\ k + 1 # 1 /\ Turns!Other(o) = c
      BY <1>1
    <3>2. ~turn_pending'[Turns!Other(o)]
      BY <2>2, <2>4, <3>1
    <3> QED
      BY <2>9, <2>11, <2>12, <3>1, <3>2 DEF Turns!Due
  <2>14. k + 1 = v'[Turns!Other(o)] + 1
    BY <1>1, <2>12
  <2> QED
    BY <1>1, <2>7, <2>8, <2>10, <2>13, <2>14, StaysUnderWay
<1> QED
  BY <1>4, <1>5, <1>6

(* The steps of the child that has read the number before k: it signals    *)
(* the other and writes k.                                                 *)
LEMMA SenderSteps ==
    ASSUME Turns!IInv, main_pc \in {"wait", "exited"}, main_pc' = main_pc,
           NEW c \in Turns!Id, NEW k \in Nat \ {0}, k = v[Turns!Other(c)] + 1, Turns!Due(c, k),
           Turns!KillOther(Turns!Other(c)) \/ Turns!WriteNext(Turns!Other(c))
    PROVE  Turns!IInv'
<1> USE ProcessIds
<1> DEFINE o == Turns!Other(c)
<1>1. /\ o \in Turns!Id /\ o # c /\ c = 3 - o /\ k \in Nat /\ k > 0
      /\ k = v[o] + 1
  BY DEF Turns!Other
<1>2. Turns!TypeOK /\ Turns!Pids /\ Turns!PrintedInOrder
  BY DEF Turns!IInv
<1>3. ~turn_pending[o] /\ Turns!OnItsWay(c, k)
  BY DEF Turns!Due
<1>4. ASSUME UNCHANGED <<v, lines>>, ~turn_pending'[o], Turns!OnItsWay(c, k)'
      PROVE  Turns!Due(c, k)' /\ k = v'[o] + 1 /\ Turns!PrintedInOrder'
  BY <1>1, <1>2, <1>4 DEF Turns!Due, Turns!PrintedInOrder
<1>5. CASE Turns!KillOther(o)
  <2>1. /\ turn_pc[o] = "kill" /\ turn_pc' = [turn_pc EXCEPT ![o] = "write"]
        /\ turn_pending' = [d \in Turns!Id |-> turn_pending[d] \/ <<Pid1, Pid2>>[d] = pid[o]]
        /\ UNCHANGED <<pipe, pid, v, lines>>
    BY <1>5 DEF Turns!KillOther, Turns!Kill
  <2>2. k > 1 /\ pipe = <<>> /\ ~turn_pending[c] /\ Turns!AtHome(c)
    BY <1>1, <1>3, <2>1 DEF Turns!OnItsWay, Turns!AtHome, Turns!Resting, Turns!Missing, o
  <2>3. Turns!TypeOK'
    BY <1>1, <1>2, <2>1 DEF Turns!TypeOK
  <2>4. Turns!Pids'
    BY <1>1, <1>2, <2>1 DEF Turns!TypeOK, Turns!Pids, Turns!ForChild1
  <2>5. pid[o] = IF Turns!Missing(c) THEN Turns!NoPid ELSE <<Pid1, Pid2>>[c]
    <3>1. CASE o = 1
      BY <1>1, <1>2, <2>1, <3>1 DEF Turns!Pids, Turns!ForChild1, Turns!Missing
    <3>2. CASE o = 2
      BY <1>1, <1>2, <2>1, <3>2 DEF Turns!Pids, Turns!Missing
    <3> QED
      BY <1>1, <3>1, <3>2
  <2>6. ~turn_pending'[o] /\ (turn_pending'[c] <=> ~Turns!Missing(c))
    <3>1. <<Pid1, Pid2>>[o] # pid[o]
      BY <1>1, <2>5
    <3>2. <<Pid1, Pid2>>[c] = pid[o] <=> ~Turns!Missing(c)
      BY <1>1, <2>5
    <3> QED
      BY <1>1, <1>3, <2>1, <2>2, <3>1, <3>2
  <2>7. turn_pc'[o] = "write" /\ turn_pc'[c] = turn_pc[c]
    BY <1>1, <1>2, <2>1 DEF Turns!TypeOK
  <2>8. Turns!Signalled(c)'
    BY <1>1, <2>1, <2>2, <2>6, <2>7
    DEF Turns!Signalled, Turns!AtHome, Turns!Resting, Turns!Missing
  <2>9. Turns!OnItsWay(c, k)'
    BY <2>1, <2>2, <2>7, <2>8 DEF Turns!OnItsWay, o
  <2> HIDE DEF o
  <2>10. Turns!Due(c, k)' /\ k = v'[o] + 1 /\ Turns!PrintedInOrder'
    BY <1>4, <2>1, <2>6, <2>9
  <2> QED
    BY <2>3, <2>4, <2>10, StaysUnderWay DEF o
<1>6. CASE Turns!WriteNext(o)
  <2>1. /\ turn_pc[o] = "write" /\ pipe' = Append(pipe, k)
        /\ turn_pc' = [turn_pc EXCEPT ![o] = IF v[o] >= LastNumber THEN "exited" ELSE "signal"]
        /\ UNCHANGED <<turn_pending, pid, v, lines>>
    BY <1>1, <1>6 DEF Turns!WriteNext, Turns!WriteNumber
  <2>2. k > 1 /\ pipe = <<>> /\ Turns!Signalled(c)
    BY <1>1, <1>3, <2>1 DEF Turns!OnItsWay, Turns!AtHome, Turns!Resting, Turns!Missing, o
  <2>3. pipe' = <<k>> /\ pipe' \in Seq(Nat)
    BY <1>1, <2>1, <2>2, OneRecord
  <2>4. Turns!TypeOK'
    BY <1>1, <1>2, <2>1, <2>3 DEF Turns!TypeOK
  <2>5. Turns!Pids'
    BY <1>1, <1>2, <2>1 DEF Turns!TypeOK, Turns!Pids, Turns!ForChild1
  <2>6. /\ turn_pc'[o] = IF v[o] >= LastNumber THEN "exited" ELSE "signal"
        /\ turn_pc'[c] = turn_pc[c] /\ v[o] # 0
    <3>1. v[o] \in Nat
      BY <1>1, <1>2 DEF Turns!TypeOK
    <3>2. v[o] # 0
      BY <1>1, <2>2, <3>1
    <3> QED
      BY <1>1, <1>2, <2>1, <3>2 DEF Turns!TypeOK
  <2>7. Turns!AtHome(o)'
    BY <2>1, <2>6 DEF Turns!AtHome, Turns!Resting
  <2>8. Turns!Signalled(c)'
    BY <2>1, <2>2, <2>6 DEF Turns!Signalled, Turns!Resting, Turns!Missing
  <2>9. Turns!OnItsWay(c, k)'
    BY <2>3, <2>7, <2>8 DEF Turns!OnItsWay, o
  <2> HIDE DEF o
  <2>10. Turns!Due(c, k)' /\ k = v'[o] + 1 /\ Turns!PrintedInOrder'
    BY <1>3, <1>4, <2>1, <2>9
  <2> QED
    BY <2>4, <2>5, <2>10, StaysUnderWay DEF o
<1> QED
  BY <1>5, <1>6 DEF o

(* A number stays under way when the children do nothing. *)
LEMMA UnderWayStays ==
    ASSUME Turns!UnderWay, UNCHANGED <<pipe, turn_pending, turn_pc, pid, v, lines>>
    PROVE  Turns!UnderWay'
<1>1. PICK c \in Turns!Id : \E k \in {v[Turns!Other(c)] + 1} : Turns!Due(c, k)
  BY DEF Turns!UnderWay
<1>2. PICK k \in {v[Turns!Other(c)] + 1} : Turns!Due(c, k)
  BY <1>1
<1>3. k \in {v'[Turns!Other(c)] + 1}
  BY <1>2
<1>4. Turns!AtHome(1)' = Turns!AtHome(1) /\ Turns!AtHome(2)' = Turns!AtHome(2)
      /\ Turns!AtHome(c)' = Turns!AtHome(c)
      /\ Turns!AtHome(Turns!Other(c))' = Turns!AtHome(Turns!Other(c))
      /\ Turns!Signalled(c)' = Turns!Signalled(c) /\ Turns!ForChild1' = Turns!ForChild1
  BY DEF Turns!AtHome, Turns!Resting, Turns!Missing, Turns!Signalled, Turns!ForChild1
<1>5. Turns!OnItsWay(c, k)'
  BY <1>2, <1>4 DEF Turns!Due, Turns!OnItsWay
<1>6. Turns!Due(c, k)'
  BY <1>2, <1>5 DEF Turns!Due
<1> QED
  BY <1>3, <1>6 DEF Turns!UnderWay

(* After the first kill there is always a number under way. *)
LEMMA UnderWaySteps ==
    ASSUME Turns!IInv, Turns!UnderWay, main_pc \in {"wait", "exited"}, Turns!Next
    PROVE  Turns!IInv'
<1> USE ProcessIds
<1>1. PICK c \in Turns!Id, k \in Nat \ {0} : k = v[Turns!Other(c)] + 1 /\ Turns!Due(c, k)
  <2>1. \A c \in Turns!Id : v[Turns!Other(c)] + 1 \in Nat \ {0}
    <3>1. ASSUME NEW c \in Turns!Id PROVE Turns!Other(c) \in Turns!Id
      OBVIOUS
    <3>2. v \in [Turns!Id -> Nat]
      BY DEF Turns!IInv, Turns!TypeOK
    <3> QED
      BY <3>1, <3>2
  <2> QED
    BY <2>1 DEF Turns!UnderWay
<1>2. CASE Turns!MainStep
  <2>1. main_pc' = "exited" /\ UNCHANGED <<pipe, turn_pending, turn_pc, pid, v, lines>>
    BY <1>2 DEF Turns!MainStep, Turns!ForkChild1, Turns!ForkChild1Fails, Turns!ForkChild2,
       Turns!ForkChild2Fails, Turns!InitChild1, Turns!Overflow, Turns!InitSequence,
       Turns!KillChild1, Turns!MainExit
  <2>2. Turns!UnderWay'
    BY <2>1, UnderWayStays
  <2>3. Turns!TypeOK' /\ Turns!Pids' /\ Turns!PrintedInOrder'
    BY <2>1 DEF Turns!IInv, Turns!TypeOK, Turns!Pids, Turns!PrintedInOrder, Turns!ForChild1
  <2> QED
    BY <2>1, <2>2, <2>3 DEF Turns!IInv
<1>3. CASE \E d \in Turns!Id : Turns!ChildStep(d)
  <2>1. PICK d \in Turns!Id : Turns!ChildStep(d)
    BY <1>3
  <2>2. main_pc' = main_pc
    BY <2>1 DEF Turns!ChildStep, Turns!WaitPid, Turns!ReadSignal, Turns!ReadAndPrint,
       Turns!KillOther, Turns!WriteNext
  <2>3. CASE d = c
    <3>1. ~Turns!KillOther(c) /\ ~Turns!WriteNext(c)
      BY <1>1 DEF Turns!Due, Turns!OnItsWay, Turns!AtHome, Turns!Resting, Turns!Missing,
         Turns!Signalled, Turns!KillOther, Turns!WriteNext
    <3> QED
      BY <1>1, <2>1, <2>2, <2>3, <3>1, ReceiverSteps DEF Turns!ChildStep
  <2>4. CASE d = Turns!Other(c)
    <3>1. ~Turns!WaitPid(d) /\ ~Turns!ReadSignal(d) /\ ~Turns!ReadAndPrint(d)
      BY <1>1, <2>4 DEF Turns!Due, Turns!OnItsWay, Turns!AtHome, Turns!Resting, Turns!Missing,
         Turns!WaitPid, Turns!ReadSignal, Turns!ReadAndPrint
    <3> QED
      BY <1>1, <2>1, <2>2, <2>4, <3>1, SenderSteps DEF Turns!ChildStep
  <2> QED
    BY <2>3, <2>4
<1> QED
  BY <1>2, <1>3 DEF Turns!Next

(* So every step keeps the invariant. *)
LEMMA TurnsNext ==
    ASSUME Turns!IInv, [Turns!Next]_(Turns!vars)
    PROVE  Turns!IInv'
<1>1. CASE UNCHANGED Turns!vars
  <2>1. UNCHANGED <<main_pc, pipe, turn_pending, turn_pc, pid, v, lines>>
    BY <1>1 DEF Turns!vars
  <2>2. Turns!TypeOK' /\ Turns!Pids' /\ Turns!PrintedInOrder'
    BY <2>1 DEF Turns!IInv, Turns!TypeOK, Turns!Pids, Turns!PrintedInOrder, Turns!ForChild1
  <2>3. Turns!Setup => Turns!Setup'
    BY <2>1 DEF Turns!Setup, Turns!ForChild1
  <2>4. Turns!UnderWay => Turns!UnderWay'
    BY <2>1, UnderWayStays
  <2> QED
    BY <2>1, <2>2, <2>3, <2>4 DEF Turns!IInv
<1>2. main_pc = "wait" => Turns!UnderWay
  BY DEF Turns!IInv
<1>3. main_pc \notin {"wait", "exited"} => Turns!Setup
  BY DEF Turns!IInv
<1>4. main_pc = "exited" => Turns!Setup \/ Turns!UnderWay
  BY DEF Turns!IInv
<1> QED
  BY <1>1, <1>2, <1>3, <1>4, SetupSteps, UnderWaySteps

(* What it says of the process ids and the numbers. *)
LEMMA TurnsIInvIsSafe == Turns!IInv => Turns!TurnsSafety
<1> SUFFICES ASSUME Turns!IInv PROVE Turns!TurnsSafety
  OBVIOUS
<1> USE ProcessIds
<1>1. Turns!PidIsPid
  BY DEF Turns!IInv, Turns!Pids, Turns!PidIsPid, Turns!ForChild1
<1>2. Turns!NumberForMe
  <2>1. CASE Turns!Setup
    BY <2>1 DEF Turns!Setup, Turns!NumberForMe
  <2>2. CASE Turns!UnderWay
    <3>1. PICK c \in Turns!Id : \E k : ~turn_pending[Turns!Other(c)] /\ Turns!OnItsWay(c, k)
      BY <2>2 DEF Turns!UnderWay, Turns!Due
    <3> QED
      BY <3>1 DEF Turns!OnItsWay, Turns!AtHome, Turns!Resting, Turns!Missing, Turns!Signalled,
         Turns!NumberForMe
  <2> QED
    BY <2>1, <2>2 DEF Turns!IInv
<1> QED
  BY <1>1, <1>2 DEF Turns!IInv, Turns!TurnsSafety

(* The two children of ping-pong take the numbers and the process id out   *)
(* of the pipe they share as they were meant, and print 1 .. n in order    *)
(* and in turn, for every n, whichever fork fails and however their steps  *)
(* and main's interleave.                                                  *)
THEOREM PingPongInOrder == AnySpec => []TurnsSafety
<1>1. AnyInit => Turns!IInv
  BY TurnsInit DEF AnyInit
<1>2. Turns!IInv /\ [AnyNext]_allVars => Turns!IInv'
  BY EachProgramSteps, TurnsNext
<1>3. Turns!IInv => TurnsSafety
  BY TurnsIInvIsSafe DEF TurnsSafety
<1> QED
  BY <1>1, <1>2, <1>3, PTL DEF AnySpec

-------------------------------------------------------------------------------
(***************************************************************************)
(* The printers of SIGTERM and the loops of primitives.                    *)
(***************************************************************************)

(* No signal has come yet. *)
LEMMA TermInit == Term!Init => Term!IInv
  BY DEF Term!Init, Term!IInv

(* What is owed stays pending until the handler runs. *)
LEMMA TermNext ==
    ASSUME Term!IInv, [Term!Next]_(Term!vars)
    PROVE  Term!IInv'
<1> USE DEF Term!IInv
<1>1. CASE Term!Send
  BY <1>1 DEF Term!Send
<1>2. CASE Term!Handle
  BY <1>2 DEF Term!Handle
<1>3. CASE Term!Mask
  BY <1>3 DEF Term!Mask, Term!Goes
<1>4. CASE Term!Suspend
  BY <1>4 DEF Term!Suspend, Term!Goes
<1>5. CASE Term!Test \/ Term!Reset
  BY <1>5 DEF Term!Test, Term!Reset, Term!Goes
<1>6. CASE Term!PrintReceived
  BY <1>6 DEF Term!PrintReceived, Term!Goes
<1>7. CASE Term!Sleep
  BY <1>7 DEF Term!Sleep, Term!Goes
<1>8. CASE UNCHANGED Term!vars
  BY <1>8 DEF Term!vars
<1> QED
  BY <1>1, <1>2, <1>3, <1>4, <1>5, <1>6, <1>7, <1>8 DEF Term!Next, Term!Main

(* Nothing is in the descriptors but the first value of an eventfd. *)
LEMMA LoopsInit == Loops!Init => Loops!IInv
<1>1. Initial \in Nat
  BY BoundsAssumption
<1>2. ASSUME Loops!Init PROVE Loops!IInv
  <2>1. /\ loop \in {"semaphore", "poll"} => count = Initial
        /\ loop \notin {"semaphore", "poll"} => count = 0
        /\ ticks = 0 /\ edge = FALSE /\ i = 0 /\ sum = 0
    BY <1>2 DEF Loops!Init
  <2>2. /\ loop = "semaphore" => at = "write"
        /\ loop = "timerfd" => at = "sleep"
        /\ loop = "epoll" => at = "fill"
        /\ loop \in {"poll", "open"} => at = loop
        /\ loop \in {"semaphore", "poll", "timerfd", "epoll", "open"}
    BY <1>2 DEF Loops!Init
  <2> QED
    <3>1. count \in Nat /\ (loop \in {"timerfd", "epoll"} => count = 0)
      BY <1>1, <2>1, <2>2
    <3>2. at # "take" /\ sum + 0 = ticks /\ (at \in {"fill", "wait"} => loop = "epoll")
      BY <2>1, <2>2
    <3>3. loop = "timerfd" => sum + count = ticks
      BY <3>1, <3>2
    <3>4. at \in {"fill", "wait"} /\ count > 0 => edge
      BY <3>1, <3>2
    <3>5. /\ at \in {"write", "read"} => loop = "semaphore"
          /\ at \in {"poll", "take"} => loop = "poll"
          /\ at \in {"sleep", "timer"} => loop = "timerfd"
          /\ at \in {"fill", "wait", "drain"} => loop = "epoll"
      BY <2>2
    <3>6. count \in Nat /\ ticks \in Nat /\ i \in Nat /\ sum \in Nat /\ edge \in BOOLEAN
      BY <2>1, <3>1
    <3> QED
      BY <3>2, <3>3, <3>4, <3>5, <3>6 DEF Loops!IInv
<1> QED
  BY <1>2

(* What is in the timer or the pipe is what no read has reported. *)
LEMMA LoopsNext ==
    ASSUME Loops!IInv, [Loops!Next]_(Loops!vars)
    PROVE  Loops!IInv'
<1> USE DEF Loops!IInv
<1>1. Added \in Nat /\ Items \in Nat
  BY BoundsAssumption
<1>2. CASE Loops!Add
  BY <1>1, <1>2 DEF Loops!Add, Loops!Goes
<1>3. CASE Loops!Acquire
  BY <1>3 DEF Loops!Acquire, Loops!Goes
<1>4. CASE Loops!Poll
  BY <1>4 DEF Loops!Poll, Loops!Goes
<1>5. CASE Loops!Take
  BY <1>5 DEF Loops!Take, Loops!Goes
<1>6. CASE Loops!Expire
  BY <1>6 DEF Loops!Expire
<1>7. CASE Loops!Wake
  BY <1>7 DEF Loops!Wake, Loops!Goes
<1>8. CASE Loops!ReadTimer
  BY <1>8 DEF Loops!ReadTimer, Loops!Goes
<1>9. CASE Loops!Fill
  <2>1. CASE count = room
    BY <1>9, <2>1 DEF Loops!Fill, Loops!Goes
  <2>2. CASE count # room
    BY <1>9, <2>2 DEF Loops!Fill, Loops!Goes
  <2> QED
    BY <2>1, <2>2
<1>10. CASE Loops!EpollWait
  BY <1>10 DEF Loops!EpollWait, Loops!Goes
<1>11. CASE Loops!Drain
  BY <1>11 DEF Loops!Drain, Loops!Goes
<1>12. CASE Loops!Open
  BY <1>12 DEF Loops!Open, Loops!Goes
<1>13. CASE UNCHANGED Loops!vars
  BY <1>13 DEF Loops!vars
<1> QED
  BY <1>2, <1>3, <1>4, <1>5, <1>6, <1>7, <1>8, <1>9, <1>10, <1>11, <1>12, <1>13
  DEF Loops!Next, Loops!Program

(* sigterm_print does not sleep over a signal that it owes a line, and no  *)
(* expiration of the timer and no number in the pipe is lost, whatever the *)
(* loops are given and however signals and steps interleave.               *)
THEOREM ReportsReach == AnySpec => []ReportsKept
<1>1. AnyInit => Term!IInv /\ Loops!IInv
  BY TermInit, LoopsInit DEF AnyInit
<1>2. Term!IInv /\ Loops!IInv /\ [AnyNext]_allVars => Term!IInv' /\ Loops!IInv'
  BY EachProgramSteps, TermNext, LoopsNext
<1>3. Term!IInv => Term!TermSafety
  BY DEF Term!IInv, Term!TermSafety
<1>4. Loops!IInv => Loops!NothingUnreported
  BY DEF Loops!IInv, Loops!NothingUnreported
<1>5. Term!IInv /\ Loops!IInv => ReportsKept
  BY <1>3, <1>4 DEF ReportsKept
<1> QED
  BY <1>1, <1>2, <1>5, PTL DEF AnySpec

(* The programs side by side do what each does alone. *)
THEOREM EachProgramRuns == AnySpec => Spec /\ Turns!Spec
<1>1. AnyInit => Init /\ Turns!Init
  BY DEF AnyInit
<1>2. [AnyNext]_allVars => [Next]_vars /\ [Turns!Next]_(Turns!vars)
  BY EachProgramSteps
<1> QED
  BY <1>1, <1>2, PTL DEF AnySpec, Spec, Turns!Spec
==============================================================================
