------------------------- MODULE SequencePrint_proofs -------------------------
(***************************************************************************)
(* Proofs about the processes that print in turn, for every number of      *)
(* children and every limit.                                               *)
(***************************************************************************)
EXTENDS SequencePrint, FiniteSetTheorems, TLAPS

(* The master is none of the children. *)
LEMMA Processes ==
    /\ CHILDREN_COUNT \in Nat \ {0} /\ LIMIT \in Nat
    /\ Master \in Process /\ Master \notin Child
    /\ \A p \in Process : p # Master => p \in Child
    /\ \A c \in Child : c \in Process /\ c # Master
    /\ Child \subseteq Nat
  BY CountAssumption DEF Child, Master, Process

(* The children take turns. *)
LEMMA NextChild ==
    ASSUME NEW k \in Nat
    PROVE  k % CHILDREN_COUNT \in Child
  BY CountAssumption DEF Child

(* Nothing is under way when the program starts. *)
LEMMA InitIInv == Init => IInv
<1> SUFFICES ASSUME Init PROVE IInv
  OBVIOUS
<1> USE Processes
<1>1. TypeOK
  BY DEF Init, TypeOK
<1>2. Labels
  BY DEF Init, Labels, Child
<1>3. PrintedInOrder
  BY DEF Init, PrintedInOrder
<1>4. Idle /\ \A p \in Process : Without(p)
  BY DEF Init, Idle, Without, Working
<1> QED
  BY <1>1, <1>2, <1>3, <1>4 DEF IInv

(* The types, for every step. *)
LEMMA NextKeepsTypeOK ==
    ASSUME TypeOK, Labels, Next
    PROVE  TypeOK'
<1> USE Processes DEF TypeOK, Goto, Send
<1>1. ASSUME NEW p \in Process, Deliver(p) PROVE TypeOK'
  BY <1>1 DEF Deliver
<1>2. ASSUME NEW p \in Process, ProcessStep(p) PROVE TypeOK'
  BY <1>2 DEF ProcessStep, TestReceived, Pause, ClearReceived
<1>3. ASSUME NEW c \in Child, ReadMem(c) \/ WriteMem(c) PROVE TypeOK'
  BY <1>3 DEF ReadMem, WriteMem
<1>4. ASSUME NEW c \in Child, PrintValue(c) PROVE TypeOK'
  <2>1. <<c, value[c]>> \in Child \X Nat
    OBVIOUS
  <2> QED
    BY <1>4, <2>1 DEF PrintValue
<1>5. ASSUME NEW c \in Child, Reply(c) PROVE TypeOK'
  BY <1>5 DEF Reply
<1>6. CASE Fork
  BY <1>6 DEF Fork, Labels
<1>7. CASE ForkFails \/ Raise
  BY <1>7 DEF ForkFails, Raise
<1>8. CASE LimitReached \/ Exit
  BY <1>8 DEF LimitReached, Exit
<1>9. CASE KillChild
  <2>1. killed' \in 0 .. CHILDREN_COUNT
    BY <1>9 DEF KillChild
  <2>2. pc' \in [Process -> {"none", "fork", "raise", "test", "pause", "asleep", "clear",
                            "read", "write", "print", "reply", "choose", "stop", "dead",
                            "exited"}]
    BY <1>9 DEF KillChild
  <2> QED
    BY <1>9, <2>1, <2>2 DEF KillChild
<1>10. CASE SignalNext
  <2>1. index % CHILDREN_COUNT \in Process
    BY NextChild
  <2> HIDE DEF Master, Child, Process
  <2> QED
    BY <1>10, <2>1 DEF SignalNext
<1> QED
  BY <1>1, <1>2, <1>3, <1>4, <1>5, <1>6, <1>7, <1>8, <1>9, <1>10
  DEF Next, ChildStep, MasterStep

(* The processes stay in their programs. *)
LEMMA NextKeepsLabels ==
    ASSUME TypeOK, Labels, Next,
           \A c \in Child : Working(c) => pc[Master] \notin {"fork", "raise"}
    PROVE  Labels'
<1> USE Processes DEF TypeOK, Labels, Goto
<1>1. ASSUME NEW p \in Process, Deliver(p) PROVE Labels'
  BY <1>1 DEF Deliver
<1>2. ASSUME NEW p \in Process, ProcessStep(p) PROVE Labels'
  BY <1>2 DEF ProcessStep, TestReceived, Pause, ClearReceived
<1>3. ASSUME NEW c \in Child, ChildStep(c) PROVE Labels'
  <2>1. Working(c)
    BY <1>3 DEF ChildStep, ReadMem, WriteMem, PrintValue, Reply, Working
  <2> QED
    BY <1>3, <2>1 DEF ChildStep, ReadMem, WriteMem, PrintValue, Reply
<1>4. CASE Fork
  BY <1>4 DEF Fork, Child
<1>5. CASE ForkFails \/ Raise \/ SignalNext \/ LimitReached \/ Exit
  BY <1>5 DEF ForkFails, Raise, SignalNext, LimitReached, Exit
<1>6. CASE KillChild
  BY <1>6 DEF KillChild, Child, Master
<1> QED
  BY <1>1, <1>2, <1>3, <1>4, <1>5, <1>6 DEF Next, MasterStep

(* What the processes without the right to print may do: nothing but look  *)
(* whether their signal has come, and sleep.                               *)
LEMMA OthersOnlyWait ==
    ASSUME TypeOK, Labels, NEW p \in Process, Without(p),
           Deliver(p) \/ ProcessStep(p) \/ (p \in Child /\ ChildStep(p))
    PROVE  /\ pc[p] \in {"test", "pause"} /\ pc' = [pc EXCEPT ![p] = pc'[p]]
           /\ pc'[p] \in {"pause", "asleep"}
           /\ UNCHANGED <<received, pending, mem, value, index, killed, printed>>
  BY DEF Without, Working, Deliver, ProcessStep, TestReceived, Pause, ClearReceived,
         ChildStep, ReadMem, WriteMem, PrintValue, Reply, Goto, TypeOK

(* A step that leaves p and what it has alone leaves it without the right. *)
LEMMA WithoutStays ==
    ASSUME NEW p \in Process, Without(p), pending'[p] = pending[p], received'[p] = received[p],
           pc'[p] = pc[p]
    PROVE  Without(p)'
  BY DEF Without, Working

(* Before the first signal and after the last, only the master acts. *)
LEMMA IdleSteps ==
    ASSUME IInv, Idle, Next
    PROVE  /\ PrintedInOrder'
           /\ Idle' => \A p \in Process : Without(p)'
           /\ ~Idle' => With(Master)' /\ Turn(Master)'
                        /\ \A p \in Process \ {Master} : Without(p)'
<1> USE Processes DEF IInv, TypeOK
<1>1. \A p \in Process : Without(p)
  OBVIOUS
<1>2. printed' = printed /\ PrintedInOrder'
  <2>1. UNCHANGED printed
    BY <1>1, OthersOnlyWait DEF Next, ProcessStep, MasterStep, Fork, ForkFails, Raise,
       SignalNext, LimitReached, KillChild, Exit
  <2> QED
    BY <2>1 DEF PrintedInOrder
<1>3. ASSUME NEW p \in Process,
             Deliver(p) \/ ProcessStep(p) \/ (p \in Child /\ ChildStep(p))
      PROVE  Idle' /\ \A q \in Process : Without(q)'
  BY <1>1, <1>3, OthersOnlyWait DEF Idle, Without, Working
<1>4. CASE Fork \/ ForkFails \/ KillChild \/ Exit
  <2>1. UNCHANGED <<received, pending>>
    BY <1>4 DEF Fork, ForkFails, KillChild, Exit
  <2>2. \A p \in Process : pc'[p] \in {pc[p], "test", "raise", "fork", "dead", "exited"}
    BY <1>4 DEF Fork, ForkFails, KillChild, Exit, Goto
  <2>3. Idle'
    <3>1. CASE Fork
      BY <3>1 DEF Fork, Idle
    <3>2. CASE ForkFails \/ Exit
      BY <3>2 DEF ForkFails, Exit, Goto, Idle
    <3>3. CASE KillChild
      BY <3>3 DEF KillChild, Goto, Idle, Master
    <3> QED
      BY <1>4, <3>1, <3>2, <3>3
  <2>4. ASSUME NEW p \in Process PROVE Without(p)'
    <3>1. ~Working(p)'
      BY <1>1, <2>2 DEF Without, Working
    <3> QED
      BY <1>1, <2>1, <3>1 DEF Without
  <2> QED
    BY <1>2, <2>3, <2>4
<1>5. CASE Raise
  <2>1. pc'[Master] = "test" /\ received'[Master] /\ ~pending'[Master]
    BY <1>1, <1>5 DEF Raise, Goto, Without
  <2>2. \A p \in Process \ {Master} : Without(p)'
    BY <1>1, <1>5, WithoutStays DEF Raise, Goto
  <2>3. With(Master)'
    BY <2>1 DEF With, Working
  <2>4. Turn(Master)'
    <3>1. index' = 0 /\ mem' = 0 /\ printed' = <<>>
      BY <1>5 DEF Raise, Labels
    <3> QED
      BY <3>1 DEF Turn
  <2> QED
    BY <1>2, <2>1, <2>2, <2>3, <2>4 DEF Idle
<1>6. CASE SignalNext \/ LimitReached
  BY <1>6 DEF SignalNext, LimitReached, Idle
<1> QED
  BY <1>2, <1>3, <1>4, <1>5, <1>6 DEF Next, MasterStep, ChildStep

(* Between them the right to print moves from the master to a child and    *)
(* back, one step at a time.                                               *)
LEMMA TurnSteps ==
    ASSUME IInv, ~Idle, Next
    PROVE  /\ PrintedInOrder'
           /\ Idle' => \A p \in Process : Without(p)'
           /\ ~Idle' => \E h \in Process :
                           With(h)' /\ Turn(h)' /\ \A p \in Process \ {h} : Without(p)'
<1> USE Processes DEF IInv, TypeOK
<1>1. PICK h \in Process : With(h) /\ Turn(h) /\ \A p \in Process \ {h} : Without(p)
  OBVIOUS
<1>2. ASSUME NEW p \in Process \ {h},
             Deliver(p) \/ ProcessStep(p) \/ (p \in Child /\ ChildStep(p))
      PROVE  /\ PrintedInOrder' /\ ~Idle' /\ With(h)' /\ Turn(h)'
             /\ \A q \in Process \ {h} : Without(q)'
  <2>1. /\ pc' = [pc EXCEPT ![p] = pc'[p]] /\ pc'[p] \in {"pause", "asleep"}
        /\ UNCHANGED <<received, pending, mem, value, index, killed, printed>>
    BY <1>1, <1>2, OthersOnlyWait
  <2>2. pc'[h] = pc[h] /\ With(h)' /\ Turn(h)'
    BY <1>1, <2>1 DEF With, Turn, Working
  <2>3. \A q \in Process \ {h} : Without(q)'
    BY <1>1, <2>1 DEF Without, Working
  <2> QED
    BY <2>1, <2>2, <2>3 DEF PrintedInOrder, Idle
<1>3. ASSUME Deliver(h) \/ ProcessStep(h)
      PROVE  /\ PrintedInOrder' /\ ~Idle' /\ With(h)' /\ Turn(h)'
             /\ \A q \in Process \ {h} : Without(q)'
  <2>1. UNCHANGED <<mem, value, index, killed, printed>> /\ ~Idle' /\ PrintedInOrder'
    BY <1>3 DEF Deliver, ProcessStep, TestReceived, Pause, ClearReceived, Goto, Idle, Labels,
       PrintedInOrder
  <2>2. \A q \in Process \ {h} : Without(q)'
    BY <1>1, <1>3, WithoutStays
    DEF Deliver, ProcessStep, TestReceived, Pause, ClearReceived, Goto
  <2>3. With(h)'
    BY <1>1, <1>3 DEF Deliver, ProcessStep, TestReceived, Pause, ClearReceived, Goto, With,
       Working
  <2>4. Turn(h)'
    BY <1>1, <1>3, <2>1 DEF Deliver, ProcessStep, TestReceived, Pause, ClearReceived, Goto,
       Turn, With, Working
  <2> QED
    BY <2>1, <2>2, <2>3, <2>4
<1>4. ASSUME h \in Child, ReadMem(h) \/ WriteMem(h) \/ PrintValue(h)
      PROVE  /\ PrintedInOrder' /\ ~Idle' /\ With(h)' /\ Turn(h)'
             /\ \A q \in Process \ {h} : Without(q)'
  <2>1. UNCHANGED <<received, pending, index>> /\ ~Idle'
    BY <1>4 DEF ReadMem, WriteMem, PrintValue, Goto, Idle
  <2>2. \A q \in Process \ {h} : Without(q)'
    BY <1>1, <1>4, WithoutStays DEF ReadMem, WriteMem, PrintValue, Goto
  <2>3. With(h)'
    BY <1>1, <1>4 DEF ReadMem, WriteMem, PrintValue, Goto, With, Working
  <2>4. Turn(h)' /\ PrintedInOrder'
    <3>1. CASE ReadMem(h) \/ WriteMem(h)
      <4>1. UNCHANGED <<printed, index>> /\ PrintedInOrder'
        BY <3>1 DEF ReadMem, WriteMem, PrintedInOrder
      <4>2. Turn(h)'
        <5>1. CASE ReadMem(h)
          BY <1>1, <1>4, <4>1, <5>1 DEF ReadMem, Goto, Turn
        <5>2. CASE WriteMem(h)
          BY <1>1, <1>4, <4>1, <5>2 DEF WriteMem, Goto, Turn
        <5> QED
          BY <3>1, <5>1, <5>2
      <4> QED
        BY <4>1, <4>2
    <3>2. CASE PrintValue(h)
      <4>1. /\ Len(printed) = index - 1 /\ value[h] = index - 1 /\ mem = index
            /\ index \in 1 .. LIMIT /\ h = (index - 1) % CHILDREN_COUNT
        BY <1>1, <1>4, <3>2 DEF Turn, PrintValue
      <4>2. /\ Len(printed') = index /\ printed'[index] = <<h, index - 1>>
            /\ \A i \in 1 .. index - 1 : printed'[i] = printed[i]
        <5>1. printed' = Append(printed, <<h, value[h]>>)
          BY <3>2 DEF PrintValue
        <5> QED
          BY <4>1, <5>1, <1>4
      <4>3. PrintedInOrder'
        <5>1. Len(printed') <= LIMIT
          BY <4>1, <4>2
        <5>2. ASSUME NEW i \in 1 .. Len(printed')
              PROVE  printed'[i] = <<(i - 1) % CHILDREN_COUNT, i - 1>>
          <6>1. i = index \/ i \in 1 .. Len(printed)
            BY <4>1, <4>2
          <6> QED
            BY <4>1, <4>2, <6>1 DEF PrintedInOrder
        <5> QED
          BY <5>1, <5>2 DEF PrintedInOrder
      <4>4. Turn(h)'
        BY <1>4, <3>2, <4>1, <4>2 DEF PrintValue, Goto, Turn
      <4> QED
        BY <4>3, <4>4
    <3> QED
      BY <1>4, <3>1, <3>2
  <2> QED
    BY <2>1, <2>2, <2>3, <2>4
<1>5. ASSUME h \in Child, Reply(h)
      PROVE  /\ PrintedInOrder' /\ ~Idle' /\ With(Master)' /\ Turn(Master)'
             /\ \A q \in Process \ {Master} : Without(q)'
  <2>1. UNCHANGED <<received, mem, index, printed>> /\ ~Idle' /\ PrintedInOrder'
    BY <1>5 DEF Reply, Goto, Idle, PrintedInOrder
  <2>2. Without(h)'
    BY <1>1, <1>5 DEF Reply, Goto, Send, With, Without, Working
  <2>3. \A q \in Process \ {Master, h} : Without(q)'
    BY <1>1, <1>5, WithoutStays DEF Reply, Goto, Send
  <2>4. With(Master)'
    BY <1>1, <1>5 DEF Reply, Goto, Send, With, Without, Working
  <2>5. Turn(Master)'
    BY <1>1, <1>5, <2>1 DEF Reply, Turn
  <2> QED
    BY <2>1, <2>2, <2>3, <2>4, <2>5
<1>6. ASSUME h = Master, SignalNext
      PROVE  /\ PrintedInOrder' /\ ~Idle'
             /\ \E c \in Child : With(c)' /\ Turn(c)' /\ \A q \in Process \ {c} : Without(q)'
  <2>1. PICK c \in Child : c = index % CHILDREN_COUNT
    BY NextChild
  <2>2. /\ UNCHANGED <<received, mem, printed>> /\ ~Idle' /\ PrintedInOrder'
        /\ pending' = [pending EXCEPT ![c] = TRUE] /\ pc' = [pc EXCEPT ![Master] = "test"]
    BY <1>6, <2>1 DEF SignalNext, Goto, Send, Idle, PrintedInOrder
  <2>3. Without(Master)'
    BY <1>1, <1>6, <2>1, <2>2 DEF SignalNext, With, Without, Working
  <2>4. \A q \in Process \ {Master, c} : Without(q)'
    BY <1>1, <1>6, <2>2, WithoutStays
  <2>5. With(c)'
    <3>1. Without(c) /\ pc'[c] = pc[c] /\ received'[c] = received[c] /\ pending'[c]
      BY <1>1, <1>6, <2>1, <2>2
    <3> QED
      BY <3>1 DEF With, Without, Working
  <2>6. Turn(c)'
    <3>1. index' = index + 1 /\ index = mem /\ Len(printed) = mem /\ mem < LIMIT
      BY <1>1, <1>6 DEF SignalNext, Turn
    <3>2. pc[c] \notin {"write", "print", "reply"} /\ pc'[c] = pc[c]
      BY <1>1, <1>6, <2>1, <2>2 DEF Without, Working
    <3>3. c # Master /\ index' \in 1 .. LIMIT /\ index' - 1 = index
      BY <2>1, <3>1
    <3> QED
      BY <2>1, <2>2, <3>1, <3>2, <3>3 DEF Turn
  <2> QED
    BY <2>1, <2>2, <2>3, <2>4, <2>5, <2>6
<1>7. ASSUME h = Master, LimitReached
      PROVE  PrintedInOrder' /\ Idle' /\ \A q \in Process : Without(q)'
  BY <1>1, <1>7 DEF LimitReached, Goto, Idle, With, Without, Working, PrintedInOrder
<1>8. ASSUME MasterStep
      PROVE  h = Master /\ (SignalNext \/ LimitReached)
  BY <1>1, <1>8 DEF MasterStep, Fork, ForkFails, Raise, SignalNext, LimitReached, KillChild,
     Exit, Idle, Without, Working
<1>9. CASE \E p \in Process : Deliver(p) \/ ProcessStep(p)
  <2>1. PICK p \in Process : Deliver(p) \/ ProcessStep(p)
    BY <1>9
  <2> QED
    BY <1>2, <1>3, <2>1
<1>10. CASE \E c \in Child : ChildStep(c)
  <2>1. PICK p \in Child : ChildStep(p)
    BY <1>10
  <2>2. p = h => ReadMem(h) \/ WriteMem(h) \/ PrintValue(h) \/ Reply(h)
    BY <2>1 DEF ChildStep
  <2> QED
    BY <1>2, <1>4, <1>5, <2>1, <2>2
<1>11. CASE MasterStep
  BY <1>6, <1>7, <1>8, <1>11
<1> QED
  BY <1>9, <1>10, <1>11 DEF Next

(* Every step keeps it, ... *)
LEMMA NextKeepsIInv ==
    ASSUME IInv, [Next]_vars
    PROVE  IInv'
<1>1. CASE Next
  <2>1. \A c \in Child : Working(c) => pc[Master] \notin {"fork", "raise"}
    BY Processes DEF IInv, Idle, Without
  <2>2. TypeOK' /\ Labels'
    BY <1>1, <2>1, NextKeepsTypeOK, NextKeepsLabels DEF IInv
  <2>3. CASE Idle
    BY <1>1, <2>2, <2>3, IdleSteps, Processes DEF IInv
  <2>4. CASE ~Idle
    BY <1>1, <2>2, <2>4, TurnSteps DEF IInv
  <2> QED
    BY <2>3, <2>4
<1>2. CASE UNCHANGED vars
  BY <1>2 DEF vars, IInv, TypeOK, Labels, PrintedInOrder, Idle, Without, With, Turn, Working
<1> QED
  BY <1>1, <1>2

(* ... and a process that has the right has it in one way only. *)
LEMMA IInvGivesOneToken ==
    ASSUME IInv
    PROVE  OneToken
<1> USE Processes
<1>1. CASE Idle
  <2>1. Tokens = {}
    BY <1>1 DEF IInv, Without, Tokens
  <2> QED
    BY <1>1, <2>1, FS_EmptySet DEF OneToken, Idle
<1>2. CASE ~Idle
  <2>1. PICK h \in Process : With(h) /\ \A p \in Process \ {h} : Without(p)
    BY <1>2 DEF IInv
  <2>2. Tokens = {t \in {<<"sent", h>>} : pending[h]}
                    \cup {t \in {<<"noted", h>>} : received[h] /\ pc[h] # "clear"}
                    \cup {t \in {<<"acting", h>>} : Working(h)}
    <3>1. /\ {q \in Process : pending[q]} = {q \in {h} : pending[q]}
          /\ {q \in Process : received[q] /\ pc[q] # "clear"}
                = {q \in {h} : received[q] /\ pc[q] # "clear"}
          /\ {q \in Process : Working(q)} = {q \in {h} : Working(q)}
      BY <2>1 DEF Without
    <3> QED
      BY <3>1 DEF Tokens
  <2>3. \E t : Tokens = {t}
    <3>1. CASE pending[h]
      <4>1. ~received[h] /\ ~Working(h)
        BY <2>1, <3>1 DEF With
      <4>2. Tokens = {<<"sent", h>>}
        BY <2>2, <3>1, <4>1
      <4> QED
        BY <4>2
    <3>2. CASE received[h] /\ pc[h] # "clear"
      <4>1. ~pending[h] /\ ~Working(h)
        BY <2>1, <3>2 DEF With
      <4>2. Tokens = {<<"noted", h>>}
        BY <2>2, <3>2, <4>1
      <4> QED
        BY <4>2
    <3>3. CASE Working(h)
      <4>1. ~pending[h] /\ ~(received[h] /\ pc[h] # "clear")
        BY <2>1, <3>3 DEF With
      <4>2. Tokens = {<<"acting", h>>}
        BY <2>2, <3>3, <4>1
      <4> QED
        BY <4>2
    <3> QED
      BY <2>1, <3>1, <3>2, <3>3 DEF With, Working
  <2>4. Cardinality(Tokens) = 1
    BY <2>3, FS_Singleton
  <2> QED
    BY <1>2, <2>4 DEF OneToken, Idle
<1> QED
  BY <1>1, <1>2

(* One process at a time has the right to go on, and carries it in one     *)
(* form: the children print the numbers in turn and in order, none twice   *)
(* and never more than LIMIT, for every number of children and every       *)
(* limit, however signals and steps interleave and whichever fork fails.   *)
THEOREM ChildrenTakeTurns == Spec => []Safety
<1>1. IInv => Safety
  BY IInvGivesOneToken DEF IInv, Safety
<1> QED
  BY <1>1, InitIInv, NextKeepsIInv, PTL DEF Spec
==============================================================================
