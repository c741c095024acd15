-------------------------- MODULE ForkPrograms_proofs --------------------------
(***************************************************************************)
(* Proofs about the programs that fork: the chain of processes, map and    *)
(* the timer, the ring of eventfds, run and its captured command,          *)
(* pipe-send, and the divisor finder, for all the values of their          *)
(* constants.                                                              *)
(***************************************************************************)
EXTENDS MCForkPrograms, FiniteSetTheorems, SequenceTheorems, TLAPS

-------------------------------------------------------------------------------
(***************************************************************************)
(* The programs together                                                   *)
(***************************************************************************)

(* A step is one of each program, or one that leaves it as it is. *)
LEMMA EachProgramSteps ==
    ASSUME [AnyNext]_allVars
    PROVE  /\ [Next]_vars
           /\ [Ring!Next]_(Ring!vars)
           /\ [Capture!Next]_(Capture!vars) /\ [Send!Next]_(Send!vars)
           /\ [Chain!Next]_(Chain!vars) /\ [Map!Next]_(Map!vars) /\ [Timer!Next]_(Timer!vars)
<1> USE DEF divisorVars, ringVars, Ring!vars, captureVars, sendVars, chainVars, mapVars, timerVars,
            Capture!vars, Send!vars, Chain!vars, Map!vars, Map!given, Timer!vars
<1>1. CASE AnyNext
  BY <1>1 DEF AnyNext, Only
<1>2. CASE UNCHANGED allVars
  BY <1>2 DEF allVars
<1> QED
  BY <1>1, <1>2

-------------------------------------------------------------------------------
(***************************************************************************)
(* The timer                                                               *)
(***************************************************************************)

(* What Append makes of a sequence. *)
LEMMA OneMore ==
    ASSUME NEW S, NEW s \in Seq(S), NEW e \in S
    PROVE  /\ Append(s, e) \in Seq(S) /\ Len(Append(s, e)) = Len(s) + 1
           /\ \A k \in 1 .. Len(s) : Append(s, e)[k] = s[k]
           /\ Append(s, e)[Len(s) + 1] = e
  BY AppendProperties

(* Nothing has been forked. *)
LEMMA TimerInit == Timer!Init => Timer!IInv
<1> SUFFICES ASSUME Timer!Init PROVE Timer!IInv
  OBVIOUS
<1>1. steps \in Seq(Int) /\ reports \in Seq(Timer!Report) /\ Len(steps) = 0 /\ Len(reports) = 0
  BY DEF Timer!Init
<1> QED
  BY <1>1 DEF Timer!Init, Timer!IInv, Timer!TimerSafety

(* Forks, ends and waits. *)
LEMMA TimerNext ==
    ASSUME Timer!IInv, [Timer!Next]_(Timer!vars)
    PROVE  Timer!IInv'
<1> USE DEF Timer!IInv, Timer!TimerSafety
<1>1. ASSUME NEW s \in {counter, -1}, timer_at = "sleep", timer_at' = "wait",
             counter' = counter + 1, steps' = Append(steps, s), reports' = reports,
             timer_reaped' = timer_reaped,
             timer_child' = IF s = -1 THEN "none" ELSE "exec"
      PROVE  Timer!IInv'
  <2>1. /\ steps' \in Seq(Int) /\ Len(steps') = Len(steps) + 1
        /\ \A k \in 1 .. Len(steps) : steps'[k] = steps[k]
        /\ steps'[Len(steps) + 1] = s
    BY <1>1, OneMore
  <2>2. Len(steps) \in Nat /\ Len(reports) \in Nat /\ Len(reports) = Len(steps) /\ counter = Len(steps)
    BY <1>1, LenProperties
  <2>3. \A k \in 1 .. Len(steps') : steps'[k] \in {k - 1, -1}
    BY <1>1, <2>1, <2>2
  <2>4. \A k \in 1 .. Len(reports) : steps'[k] = steps[k]
    BY <2>1, <2>2
  <2> QED
    BY <1>1, <2>1, <2>2, <2>3, <2>4
<1>2. CASE Timer!Fork
  BY <1>1, <1>2 DEF Timer!Fork
<1>3. CASE Timer!ForkFails
  BY <1>1, <1>3 DEF Timer!ForkFails
<1>4. CASE Timer!ChildEnds
  BY <1>4 DEF Timer!ChildEnds
<1>5. CASE Timer!Wait
  <2> DEFINE r == IF timer_child = "none" \/ timer_reaped THEN "no_child" ELSE timer_child
  <2>1. /\ reports' = Append(reports, r) /\ timer_child' = "none" /\ timer_at' = "sleep"
        /\ timer_at = "wait" /\ UNCHANGED <<timer_reaped, counter, steps>>
    BY <1>5 DEF Timer!Wait
  <2>2. r \in Timer!Report /\ (r = "no_child" <=> timer_child = "none" \/ timer_reaped)
    BY <1>5 DEF Timer!Wait, Timer!Report
  <2>3. /\ reports' \in Seq(Timer!Report) /\ Len(reports') = Len(reports) + 1
        /\ \A k \in 1 .. Len(reports) : reports'[k] = reports[k]
        /\ reports'[Len(reports) + 1] = r
    BY <2>1, <2>2, OneMore
  <2>4. Len(steps) \in Nat /\ Len(reports) \in Nat /\ Len(reports) + 1 = Len(steps)
    BY <2>1, LenProperties
  <2>5. \A k \in 1 .. Len(reports') : reports'[k] = "no_child" <=> steps[k] = -1 \/ timer_reaped
    BY <2>1, <2>2, <2>3, <2>4
  <2> QED
    BY <2>1, <2>3, <2>4, <2>5
<1>6. CASE UNCHANGED Timer!vars
  BY <1>6 DEF Timer!vars
<1> QED
  BY <1>2, <1>3, <1>4, <1>5, <1>6 DEF Timer!Next

-------------------------------------------------------------------------------
(***************************************************************************)
(* map                                                                     *)
(***************************************************************************)

(* Nothing has been read. *)
LEMMA MapInit == Map!Init => Map!IInv
  BY BoundsAssumption, EmptySeq DEF Map!Init, Map!IInv, Map!Taken

(* getline takes a line after the other, and the child runs with it. *)
LEMMA MapNext ==
    ASSUME Map!IInv, [Map!Next]_(Map!vars)
    PROVE  Map!IInv'
<1> USE DEF Map!IInv, Map!Taken, Map!given
<1>0. /\ Lines \in Nat /\ Batch \in Nat /\ last \in Nat /\ unread \in Nat /\ offset \in Nat
      /\ unread <= last /\ offset <= last /\ last <= Lines
  BY BoundsAssumption
<1>1. CASE Map!Fill
  <2>1. /\ map_at = "getline" /\ unread = 0 /\ offset < Lines
        /\ unread' \in Nat /\ unread' <= Lines - offset
        /\ offset' = offset + unread' /\ last' = offset + unread'
        /\ UNCHANGED <<found, seekable, reaped, line, map_at, map_child, ran>>
    BY <1>0, <1>1 DEF Map!Fill, Map!FirstOf
  <2>2. \A u \in Nat : u <= Lines - offset =>
            /\ offset + u \in 0 .. Lines /\ u \in 0 .. offset + u
            /\ offset + u \in 0 .. offset + u /\ (offset + u) - u = offset - 0
    BY <1>0
  <2>3. /\ last' \in 0 .. Lines /\ unread' \in 0 .. last' /\ offset' \in 0 .. last'
        /\ last' - unread' = offset - unread
    BY <2>1, <2>2, Zenon
  <2>4. found => last' - unread' = last - unread
    BY <2>3
  <2> QED
    BY <2>1, <2>3, <2>4
<1>2. CASE Map!GetLine
  BY <1>0, <1>2 DEF Map!GetLine
<1>3. CASE Map!EndOfFile
  BY <1>0, <1>3 DEF Map!EndOfFile
<1>4. CASE Map!Fork
  BY <1>0, <1>4 DEF Map!Fork
<1>5. CASE Map!ForkFails
  BY <1>0, <1>5 DEF Map!ForkFails
<1>6. CASE Map!Wait
  BY <1>0, <1>6 DEF Map!Wait
<1>7. CASE Map!Exec
  <2>1. /\ map_child = "exec" /\ map_at = "wait" /\ found /\ map_child' = "exited"
        /\ ran' = Append(ran, line) /\ line \in Nat
        /\ UNCHANGED <<found, seekable, reaped, offset, last, unread, line, map_at>>
    BY <1>7 DEF Map!Exec
  <2>2. /\ ran' \in Seq(Nat) /\ Len(ran') = Len(ran) + 1
        /\ \A k \in 1 .. Len(ran) : ran'[k] = ran[k]
        /\ ran'[Len(ran) + 1] = line
    BY <2>1, OneMore
  <2>3. Len(ran) \in Nat /\ line = Len(ran) + 1 /\ Len(ran') = last - unread
    BY <1>0, <2>1, <2>2, LenProperties
  <2>4. \A k \in 1 .. Len(ran') : ran'[k] = k
    BY <2>2, <2>3, SMTT(30)
  <2>5. reaped => Len(ran') = 1
    BY <2>1, <2>2, EmptySeq
  <2> QED
    BY <1>0, <2>1, <2>2, <2>3, <2>4, <2>5
<1>8. CASE Map!ExecFails
  BY <1>0, <1>8 DEF Map!ExecFails
<1>9. CASE UNCHANGED Map!vars
  BY <1>9 DEF Map!vars
<1> QED
  BY <1>1, <1>2, <1>3, <1>4, <1>5, <1>6, <1>7, <1>8, <1>9 DEF Map!Next, Map!Main, Map!Child

(* The lines that ran, in every state. *)
LEMMA MapIsSafe == Map!IInv => Map!MapSafety
  BY BoundsAssumption DEF Map!IInv, Map!MapSafety

-------------------------------------------------------------------------------
(***************************************************************************)
(* The chain of processes                                                  *)
(***************************************************************************)

(* The numbers up to k, and the next one or the message behind them. *)
LEMMA Numbers ==
    ASSUME NEW k \in Nat, NEW e \in Nat, NEW s, s = [j \in 1 .. k |-> j]
    PROVE  /\ s \in Seq(Nat) /\ Len(s) = k /\ \A j \in 1 .. k : s[j] = j
           /\ s \o <<e>> \in Seq(Nat) /\ Len(s \o <<e>>) = k + 1
           /\ \A j \in 1 .. k : (s \o <<e>>)[j] = j
           /\ (s \o <<e>>)[k + 1] = e
           /\ e = k + 1 => s \o <<e>> = [j \in 1 .. k + 1 |-> j]
<1>1. s \in Seq(Nat) /\ Len(s) = k /\ \A j \in 1 .. k : s[j] = j
  OBVIOUS
<1>2. <<e>> \in Seq(Nat) /\ Len(<<e>>) = 1 /\ <<e>>[1] = e
  OBVIOUS
<1>3. /\ s \o <<e>> \in Seq(Nat) /\ Len(s \o <<e>>) = k + 1
      /\ \A j \in 1 .. k + 1 : (s \o <<e>>)[j] = IF j <= k THEN s[j] ELSE <<e>>[j - k]
  BY <1>1, <1>2, ConcatProperties
<1>4. /\ \A j \in 1 .. k : (s \o <<e>>)[j] = j
      /\ (s \o <<e>>)[k + 1] = e
  BY <1>1, <1>2, <1>3
<1>5. ASSUME e = k + 1 PROVE s \o <<e>> = [j \in 1 .. k + 1 |-> j]
  <2> DEFINE t == [j \in 1 .. k + 1 |-> j]
  <2>1. t \in Seq(Nat) /\ Len(t) = k + 1 /\ \A j \in 1 .. k + 1 : t[j] = j
    OBVIOUS
  <2>2. \A j \in 1 .. k + 1 : (s \o <<e>>)[j] = j
    BY <1>4, <1>5
  <2> HIDE DEF t
  <2>3. s \o <<e>> = t
    BY <1>3, <2>1, <2>2, SeqEqual
  <2> QED
    BY <2>3 DEF t
<1> QED
  BY <1>1, <1>3, <1>4, <1>5

(* Whatever the last process has printed is in order. *)
LEMMA ChainInOrder ==
    ASSUME NEW m \in Nat, Chain!LastIs(m), N \in Nat
    PROVE  Chain!OutInOrder
<1>1. \A k \in Nat : Chain!Printed(k) => Chain!OutInOrder
  <2> SUFFICES ASSUME NEW k \in Nat, stdout = [j \in 1 .. k |-> j]
               PROVE  Chain!OutInOrder
    BY DEF Chain!Printed
  <2>1. Len(stdout) = k /\ \A j \in 1 .. k : stdout[j] = j
    BY Numbers
  <2> QED
    BY <2>1 DEF Chain!OutInOrder
<1> QED
  BY <1>1 DEF Chain!LastIs

(* The first process alone. *)
LEMMA ChainInit == Chain!Init => Chain!IInv
<1> SUFFICES ASSUME Chain!Init PROVE Chain!IInv
  OBVIOUS
<1> USE DEF Chain!Init, Chain!Process, Chain!Loop
<1>1. N \in Nat /\ 0 \in 0 .. N
  BY BoundsAssumption
<1>2. /\ chain_at \in [0 .. N -> {"none", "print", "flush", "fork", "wait", "ended"}]
      /\ chain_at[0] = IF 0 < N THEN "print" ELSE "wait"
      /\ \A p \in 0 .. N : p # 0 => chain_at[p] = "none"
  BY <1>1
<1>3. /\ buffer \in [0 .. N -> Seq(Nat)] /\ stdout \in Seq(Nat)
      /\ \A p \in 0 .. N : buffer[p] = <<>>
  BY EmptySeq
<1>4. Chain!Printed(0)
  <2>1. [j \in 1 .. 0 |-> j] \in Seq(Nat) /\ Len([j \in 1 .. 0 |-> j]) = 0
    OBVIOUS
  <2> QED
    BY <2>1, EmptySeq DEF Chain!Printed
<1>5. Chain!LastIs(0)
  BY <1>1, <1>2, <1>3, <1>4 DEF Chain!LastIs
<1> HIDE DEF Chain!Init, Chain!Loop
<1>6. \A p \in 0 .. N : (chain_at[p] = "none" <=> p > 0) /\ ~(p < 0)
  BY <1>1, <1>2 DEF Chain!Loop
<1>7. \A p, q \in 0 .. N : ~(p < q /\ q <= 0)
  BY <1>1
<1> QED
  BY <1>1, <1>2, <1>3, <1>5, <1>6, <1>7 DEF Chain!IInv, Chain!WaitingFor

(* The last process prints, flushes, forks or ends, or one that waits for  *)
(* a process that has ended.                                               *)
LEMMA ChainStep ==
    ASSUME Chain!IInv, NEW p \in Chain!Process, Chain!Step(p)
    PROVE  Chain!IInv'
<1> USE DEF Chain!Process, Chain!Goes
<1> DEFINE Places == {"none", "print", "flush", "fork", "wait", "ended"}
<1>0. N \in Nat /\ p \in Nat /\ p <= N
  BY BoundsAssumption
<1>1. PICK m \in 0 .. N : Chain!WaitingFor(m) /\ Chain!LastIs(m)
  BY DEF Chain!IInv
<1>2. /\ m \in Nat /\ m <= N
      /\ chain_at \in [0 .. N -> Places] /\ buffer \in [0 .. N -> Seq(Nat)] /\ stdout \in Seq(Nat)
  BY <1>0 DEF Chain!IInv
<1>3. chain_at[p] \in {"print", "flush", "fork"} => p = m
  <2>1. p < m \/ p = m \/ p > m
    BY <1>0, <1>2
  <2> QED
    BY <1>1, <2>1 DEF Chain!WaitingFor
<1>4. CASE Chain!PrintNumber(p)
  <2>1. /\ p = m /\ chain_at[m] = "print" /\ chain_at' = [chain_at EXCEPT ![m] = "flush"]
        /\ buffer' = [buffer EXCEPT ![m] = Append(@, m + 1)] /\ stdout' = stdout
    BY <1>3, <1>4 DEF Chain!PrintNumber, Chain!Prints
  <2>2. m < N /\ buffer[m] = <<>> /\ Chain!Printed(m)
    BY <1>1, <2>1 DEF Chain!LastIs
  <2>3. Append(<<>>, m + 1) = <<m + 1>> /\ <<m + 1>> \in Seq(Nat)
    BY <1>2
  <2>4. /\ buffer' = [buffer EXCEPT ![m] = <<m + 1>>] /\ buffer' \in [0 .. N -> Seq(Nat)]
        /\ buffer'[m] = <<m + 1>> /\ \A q \in 0 .. N : q # m => buffer'[q] = buffer[q]
    BY <1>2, <2>1, <2>2, <2>3
  <2>5. /\ chain_at' \in [0 .. N -> Places] /\ chain_at'[m] = "flush"
        /\ \A q \in 0 .. N : q # m => chain_at'[q] = chain_at[q]
    BY <1>2, <2>1
  <2>6. Chain!WaitingFor(m)'
    BY <1>1, <1>2, <2>1, <2>4, <2>5 DEF Chain!WaitingFor
  <2>7. Chain!LastIs(m)'
    BY <2>1, <2>2, <2>4, <2>5 DEF Chain!LastIs, Chain!Printed
  <2> QED
    BY <1>2, <2>1, <2>4, <2>5, <2>6, <2>7 DEF Chain!IInv
<1>5. CASE Chain!Flush(p)
  <2>1. /\ p = m /\ chain_at[m] = "flush" /\ chain_at' = [chain_at EXCEPT ![m] = "fork"]
        /\ buffer' = [buffer EXCEPT ![m] = <<>>] /\ stdout' = stdout \o buffer[m]
    BY <1>3, <1>5 DEF Chain!Flush, Chain!Flushes
  <2>2. m < N /\ buffer[m] = <<m + 1>> /\ stdout = [j \in 1 .. m |-> j]
    BY <1>1, <2>1 DEF Chain!LastIs, Chain!Printed
  <2>3. m + 1 \in Nat
    BY <1>2
  <2>4. stdout' \in Seq(Nat) /\ stdout' = [j \in 1 .. m + 1 |-> j]
    BY <1>2, <2>1, <2>2, <2>3, Numbers
  <2>5. /\ buffer' \in [0 .. N -> Seq(Nat)] /\ buffer'[m] = <<>>
        /\ \A q \in 0 .. N : q # m => buffer'[q] = buffer[q]
    BY <1>2, <2>1, EmptySeq
  <2>6. /\ chain_at' \in [0 .. N -> Places] /\ chain_at'[m] = "fork"
        /\ \A q \in 0 .. N : q # m => chain_at'[q] = chain_at[q]
    BY <1>2, <2>1
  <2>7. Chain!WaitingFor(m)'
    BY <1>1, <1>2, <2>1, <2>5, <2>6 DEF Chain!WaitingFor
  <2>8. Chain!LastIs(m)'
    BY <2>2, <2>4, <2>5, <2>6 DEF Chain!LastIs, Chain!Printed
  <2> QED
    BY <1>2, <2>4, <2>5, <2>6, <2>7, <2>8 DEF Chain!IInv
<1>6. CASE Chain!Fork(p)
  <2> DEFINE n == m + 1
  <2>1. /\ p = m /\ chain_at[m] = "fork"
        /\ chain_at' = [chain_at EXCEPT ![m] = "wait", ![n] = Chain!Loop(n)]
        /\ buffer' = [buffer EXCEPT ![n] = buffer[m]] /\ stdout' = stdout
    BY <1>3, <1>6 DEF Chain!Fork
  <2>2. m < N /\ buffer[m] = <<>> /\ Chain!Printed(n)
    BY <1>1, <2>1 DEF Chain!LastIs
  <2>3. n \in 0 .. N /\ n # m /\ n \in Nat /\ \A q \in 0 .. N : q < n <=> q <= m
    <3>1. n \in 0 .. N /\ n # m /\ n \in Nat
      BY <1>0, <1>2, <2>2
    <3>2. \A q \in 0 .. N : q < n <=> q <= m
      BY <1>2
    <3> QED
      BY <3>1, <3>2
  <2> HIDE DEF n
  <2>4. /\ buffer' \in [0 .. N -> Seq(Nat)] /\ buffer'[n] = <<>>
        /\ \A q \in 0 .. N : q # n => buffer'[q] = buffer[q]
    BY <1>2, <2>1, <2>2, <2>3
  <2>5. Chain!Loop(n) \in {"print", "wait"} /\ (Chain!Loop(n) = "print" <=> n < N)
    BY DEF Chain!Loop
  <2>6. /\ chain_at' \in [0 .. N -> Places]
        /\ chain_at'[m] = "wait" /\ chain_at'[n] = Chain!Loop(n)
        /\ \A q \in 0 .. N : q # m /\ q # n => chain_at'[q] = chain_at[q]
    BY <1>2, <2>1, <2>3, <2>5
  <2>7. Chain!WaitingFor(n)'
    <3>1. \A q \in 0 .. N : chain_at'[q] = "none" <=> q > n
      BY <1>1, <1>2, <2>3, <2>5, <2>6 DEF Chain!WaitingFor
    <3>2. \A q \in 0 .. N : q < n => chain_at'[q] = "wait"
      <4>1. \A q \in 0 .. N : q < m => chain_at[q] # "ended"
        BY <1>1, <1>2, <2>1 DEF Chain!WaitingFor
      <4> QED
        BY <1>1, <1>2, <2>3, <2>6, <4>1 DEF Chain!WaitingFor
    <3>3. \A q \in 0 .. N : q # n => buffer'[q] = <<>>
      BY <1>1, <2>2, <2>4 DEF Chain!WaitingFor
    <3>4. \A q, r \in 0 .. N : q < r /\ r <= n => q < n
      BY <2>3
    <3> QED
      BY <3>1, <3>2, <3>3, <3>4 DEF Chain!WaitingFor
  <2>8. Chain!LastIs(n)'
    <3>1. n = N \/ n < N
      BY <1>0, <2>3
    <3> QED
      BY <2>1, <2>2, <2>4, <2>5, <2>6, <3>1 DEF Chain!LastIs, Chain!Printed
  <2> QED
    BY <1>2, <2>1, <2>3, <2>4, <2>6, <2>7, <2>8 DEF Chain!IInv
<1>7. CASE Chain!ForkFails(p)
  <2>1. /\ p = m /\ chain_at[m] = "fork" /\ chain_at' = [chain_at EXCEPT ![m] = "wait"]
        /\ buffer' = [buffer EXCEPT ![m] = Append(@, 0)] /\ stdout' = stdout
    BY <1>3, <1>7 DEF Chain!ForkFails, Chain!Prints, Chain!Failure
  <2>2. m < N /\ buffer[m] = <<>> /\ Chain!Printed(m + 1)
    BY <1>1, <2>1 DEF Chain!LastIs
  <2>3. Append(<<>>, 0) = <<0>> /\ <<0>> \in Seq(Nat)
    OBVIOUS
  <2>4. /\ buffer' \in [0 .. N -> Seq(Nat)] /\ buffer'[m] = <<0>>
        /\ \A q \in 0 .. N : q # m => buffer'[q] = buffer[q]
    BY <1>2, <2>1, <2>2, <2>3
  <2>5. /\ chain_at' \in [0 .. N -> Places] /\ chain_at'[m] = "wait"
        /\ \A q \in 0 .. N : q # m => chain_at'[q] = chain_at[q]
    BY <1>2, <2>1
  <2>6. Chain!WaitingFor(m)'
    BY <1>1, <1>2, <2>1, <2>4, <2>5 DEF Chain!WaitingFor
  <2>7. Chain!LastIs(m)'
    BY <2>1, <2>2, <2>4, <2>5 DEF Chain!LastIs, Chain!Printed, Chain!Failure
  <2> QED
    BY <1>2, <2>1, <2>4, <2>5, <2>6, <2>7 DEF Chain!IInv
<1>8. CASE Chain!Wait(p)
  <2>1. /\ chain_at[p] = "wait" /\ chain_at' = [chain_at EXCEPT ![p] = "ended"]
        /\ buffer' = [buffer EXCEPT ![p] = <<>>] /\ stdout' = stdout \o buffer[p]
        /\ Chain!HasChild(p) => chain_at[p + 1] = "ended"
    BY <1>8 DEF Chain!Wait, Chain!Flushes
  <2>2. p <= m
    BY <1>0, <1>1, <1>2, <2>1 DEF Chain!WaitingFor
  <2>3. /\ buffer' \in [0 .. N -> Seq(Nat)] /\ buffer'[p] = <<>>
        /\ \A q \in 0 .. N : q # p => buffer'[q] = buffer[q]
    BY <1>2, <2>1, EmptySeq
  <2>4. /\ chain_at' \in [0 .. N -> Places] /\ chain_at'[p] = "ended"
        /\ \A q \in 0 .. N : q # p => chain_at'[q] = chain_at[q]
    BY <1>2, <2>1
  <2>5. \A q \in 0 .. N : p < q /\ q <= m => chain_at[q] = "ended"
    <3> SUFFICES ASSUME NEW q \in 0 .. N, p < q, q <= m PROVE chain_at[q] = "ended"
      OBVIOUS
    <3>1. p + 1 \in 0 .. N /\ p < N /\ p + 1 <= m /\ (p + 1 = q \/ p + 1 < q)
      BY <1>0, <1>2
    <3>2. chain_at[p + 1] # "none"
      BY <1>1, <1>2, <3>1 DEF Chain!WaitingFor
    <3>3. chain_at[p + 1] = "ended"
      BY <2>1, <3>1, <3>2 DEF Chain!HasChild
    <3> QED
      BY <1>1, <3>1, <3>3 DEF Chain!WaitingFor
  <2>6. Chain!WaitingFor(m)'
    <3>1. /\ \A q \in 0 .. N : chain_at'[q] = "none" <=> q > m
          /\ \A q \in 0 .. N : q < m => chain_at'[q] \in {"wait", "ended"}
      <4>1. p <= m /\ ~(p > m)
        BY <1>0, <1>2, <2>2
      <4> QED
        BY <1>1, <2>4, <4>1 DEF Chain!WaitingFor
    <3>2. \A q, r \in 0 .. N : q < r /\ r <= m /\ chain_at'[q] = "ended" => chain_at'[r] = "ended"
      BY <1>1, <2>4, <2>5 DEF Chain!WaitingFor
    <3>3. \A q \in 0 .. N : q # m => buffer'[q] = <<>>
      BY <1>1, <2>3 DEF Chain!WaitingFor
    <3> QED
      BY <3>1, <3>2, <3>3 DEF Chain!WaitingFor
  <2>7. CASE p # m
    <3>1. stdout' = stdout /\ buffer'[m] = buffer[m] /\ chain_at'[m] = chain_at[m]
      BY <1>1, <1>2, <2>1, <2>3, <2>4, <2>7, ConcatEmptySeq DEF Chain!WaitingFor
    <3>2. Chain!LastIs(m)'
      BY <1>1, <3>1 DEF Chain!LastIs, Chain!Printed, Chain!OutInOrder
    <3> QED
      BY <1>2, <2>3, <2>4, <2>6, <3>1, <3>2 DEF Chain!IInv
  <2>8. CASE p = m
    <3>1. stdout' \in Seq(Nat) /\ Chain!OutInOrder'
      <4>1. CASE m = N /\ buffer[m] = <<>> /\ Chain!Printed(N)
        <5>1. stdout' = stdout
          BY <1>2, <2>1, <2>8, <4>1, ConcatEmptySeq
        <5> QED
          BY <1>0, <1>1, <1>2, <5>1, ChainInOrder DEF Chain!OutInOrder
      <4>2. CASE m < N /\ buffer[m] = <<0>> /\ Chain!Printed(m + 1)
        <5>1. stdout = [j \in 1 .. m + 1 |-> j] /\ stdout' = stdout \o <<0>> /\ m + 1 \in Nat
          BY <1>2, <2>1, <2>8, <4>2 DEF Chain!Printed
        <5>2. /\ stdout' \in Seq(Nat) /\ Len(stdout') = (m + 1) + 1
              /\ \A j \in 1 .. m + 1 : stdout'[j] = j
              /\ stdout'[(m + 1) + 1] = 0
          BY <5>1, Numbers
        <5>3. (m + 1) + 1 > 1 /\ \A j \in 1 .. (m + 1) + 1 : j \in 1 .. m + 1 \/ j = (m + 1) + 1
          BY <1>2
        <5> QED
          BY <5>2, <5>3 DEF Chain!OutInOrder, Chain!Failure
      <4> QED
        BY <1>1, <2>1, <2>8, <4>1, <4>2 DEF Chain!LastIs, Chain!Failure
    <3>2. Chain!LastIs(m)'
      BY <2>3, <2>4, <2>8, <3>1 DEF Chain!LastIs
    <3> QED
      BY <1>2, <2>3, <2>4, <2>6, <3>1, <3>2 DEF Chain!IInv
  <2> QED
    BY <2>7, <2>8
<1> QED
  BY <1>4, <1>5, <1>6, <1>7, <1>8 DEF Chain!Step

(* Every step, and what it promises. *)
LEMMA ChainNext ==
    ASSUME Chain!IInv, [Chain!Next]_(Chain!vars)
    PROVE  Chain!IInv'
<1>1. CASE UNCHANGED Chain!vars
  BY <1>1 DEF Chain!vars, Chain!IInv, Chain!WaitingFor, Chain!LastIs, Chain!Printed, Chain!OutInOrder
<1> QED
  BY <1>1, ChainStep DEF Chain!Next

(* In order, and the first process the last. *)
LEMMA ChainIsSafe == Chain!IInv => Chain!ChainSafety
<1> SUFFICES ASSUME Chain!IInv PROVE Chain!ChainSafety
  OBVIOUS
<1> USE DEF Chain!Process
<1>0. N \in Nat
  BY BoundsAssumption
<1>1. PICK m \in 0 .. N : Chain!WaitingFor(m) /\ Chain!LastIs(m)
  BY DEF Chain!IInv
<1>2. Chain!OutInOrder
  BY <1>0, <1>1, ChainInOrder
<1>3. ASSUME chain_at[0] = "ended", NEW p \in 0 .. N PROVE chain_at[p] \in {"none", "ended"}
  <2>1. 0 \in 0 .. N /\ (p = 0 \/ 0 < p) /\ (p <= m \/ p > m)
    BY <1>0
  <2> QED
    BY <1>1, <1>3, <2>1 DEF Chain!WaitingFor
<1> QED
  BY <1>2, <1>3 DEF Chain!ChainSafety, Chain!LastToEnd

(* What the three programs that hand on a number, a line or a step keep. *)
CommandsIInv == Chain!IInv /\ Map!IInv /\ Timer!IInv

(* What the chain writes is in order and its first process ends last, map  *)
(* runs its command with each line once, and every step of the timer has   *)
(* its number and its report: for any number of processes, lines and       *)
(* steps, whichever forks and execs fail, and where SIGCHLD is ignored.    *)
THEOREM CommandsInOrder == AnySpec => []CommandsSafety
<1>1. AnyInit => CommandsIInv
  BY ChainInit, MapInit, TimerInit DEF AnyInit, CommandsIInv
<1>2. CommandsIInv /\ [AnyNext]_allVars => CommandsIInv'
  <2> SUFFICES ASSUME CommandsIInv, [AnyNext]_allVars PROVE CommandsIInv'
    OBVIOUS
  <2>1. [Chain!Next]_(Chain!vars) /\ [Map!Next]_(Map!vars) /\ [Timer!Next]_(Timer!vars)
    BY EachProgramSteps
  <2> QED
    BY <2>1, ChainNext, MapNext, TimerNext DEF CommandsIInv
<1>3. CommandsIInv => CommandsSafety
  BY ChainIsSafe, MapIsSafe DEF CommandsIInv, CommandsSafety, Timer!IInv
<1> QED
  BY <1>1, <1>2, <1>3, PTL DEF AnySpec

-------------------------------------------------------------------------------
(***************************************************************************)
(* The ring of eventfds                                                    *)
(***************************************************************************)

(* The ring has a child at least. *)
LEMMA RingSizes == RingSize \in Nat \ {0} /\ RingLimit \in Nat
  BY BoundsAssumption

(* A remainder is what is left over. *)
LEMMA Remainder ==
  ASSUME NEW m \in Nat \ {0}, NEW q \in Int, NEW r \in 0 .. m - 1
  PROVE  (m * q + r) % m = r
  OBVIOUS

(* The child after the holder of number n is the holder of n + 1. *)
LEMMA NextInRing ==
  ASSUME NEW n \in Nat
  PROVE  /\ n % RingSize \in Ring!Id
         /\ ((n % RingSize) + 1) % RingSize = (n + 1) % RingSize
<1> DEFINE T == RingSize
           q == n \div T
           r == n % T
<1>1. T \in Nat \ {0} /\ q \in Int /\ r \in 0 .. T - 1 /\ n = T * q + r
  BY RingSizes
<1> HIDE DEF T, q, r
<1>2. CASE r + 1 < T
  <2>1. n + 1 = T * q + (r + 1) /\ r + 1 \in 0 .. T - 1
    BY <1>1, <1>2
  <2>2. (n + 1) % T = r + 1 /\ (r + 1) % T = r + 1
    BY <1>1, <2>1, Remainder
  <2> QED
    BY <1>1, <2>2 DEF T, r, Ring!Id
<1>3. CASE r + 1 = T
  <2>1. n + 1 = T * (q + 1) + 0 /\ T = T * 1 + 0
    BY <1>1, <1>3
  <2>2. (n + 1) % T = 0 /\ T % T = 0
    BY <1>1, <2>1, Remainder
  <2> QED
    BY <1>1, <1>3, <2>2 DEF T, r, Ring!Id
<1> QED
  BY <1>1, <1>2, <1>3

(* Child 0 holds number 1. *)
LEMMA FirstInRing == 0 \in Ring!Id /\ (1 - 1) % RingSize = 0
  BY RingSizes DEF Ring!Id

(* Before the first fork nobody holds anything. *)
LEMMA RingInit == Ring!Init => Ring!IInv
<1> SUFFICES ASSUME Ring!Init PROVE Ring!IInv
  OBVIOUS
<1>1. Ring!TypeOK
  BY RingSizes DEF Ring!Init, Ring!TypeOK
<1>2. Ring!OneHolder /\ Ring!NumberInv
  BY DEF Ring!Init, Ring!OneHolder, Ring!NumberInv, Ring!Holds
<1>3. Ring!PrintedInOrder /\ ring_printed = <<>>
  BY RingSizes DEF Ring!Init, Ring!PrintedInOrder
<1> QED
  BY <1>1, <1>2, <1>3 DEF Ring!IInv

(* main's steps before the first write leave the ring empty. *)
LEMMA RingForks ==
  ASSUME Ring!IInv, Ring!ForkChild \/ Ring!ForkFails
  PROVE  Ring!IInv'
<1>1. \A i \in Ring!Id : ~Ring!Holds(i)
  BY DEF Ring!ForkChild, Ring!ForkFails, Ring!IInv, Ring!OneHolder
<1>2. Ring!TypeOK'
  BY RingSizes DEF Ring!ForkChild, Ring!ForkFails, Ring!IInv, Ring!TypeOK
<1>3. \A i \in Ring!Id : ~Ring!Holds(i)'
  BY <1>1 DEF Ring!ForkChild, Ring!ForkFails, Ring!IInv, Ring!TypeOK, Ring!Holds
<1>4. Ring!OneHolder' /\ Ring!NumberInv'
  BY <1>3 DEF Ring!ForkChild, Ring!ForkFails, Ring!OneHolder, Ring!NumberInv, Ring!Holds
<1>5. Ring!PrintedInOrder' /\ ring_printed' = <<>>
  BY DEF Ring!ForkChild, Ring!ForkFails, Ring!IInv, Ring!PrintedInOrder
<1> QED
  BY <1>2, <1>4, <1>5 DEF Ring!IInv

(* main gives the number 1 to child 0. *)
LEMMA RingStarts ==
  ASSUME Ring!IInv, Ring!InitWrite
  PROVE  Ring!IInv'
<1>1. \A i \in Ring!Id : ring_efd[i] = 0 /\ ring_pc[i] \notin {"print", "write"}
  BY DEF Ring!InitWrite, Ring!IInv, Ring!TypeOK, Ring!OneHolder, Ring!Holds
<1>2. ring_efd' = [ring_efd EXCEPT ![0] = 1] /\ UNCHANGED <<ring_pc, ring_x, ring_printed>>
  <2>1. ring_efd[0] + 1 = 1
    BY <1>1, FirstInRing
  <2> QED
    BY <2>1, FirstInRing DEF Ring!InitWrite
<1>3. Ring!TypeOK'
  <2>1. ring_main' = "wait" /\ UNCHANGED <<ring_forks, ring_reaped>>
    BY DEF Ring!InitWrite
  <2> QED
    BY <1>2, <2>1 DEF Ring!IInv, Ring!TypeOK
<1>4. \A i \in Ring!Id : Ring!Holds(i)' <=> i = 0
  BY <1>1, <1>2, FirstInRing DEF Ring!IInv, Ring!TypeOK, Ring!Holds
<1>5. Ring!OneHolder'
  BY <1>1, <1>2, <1>4, FirstInRing DEF Ring!InitWrite, Ring!OneHolder
<1>6. Ring!NumberInv'
  <2>1. Ring!NumberOf(0)' = 1 /\ Ring!Counted(0)' = 0
    BY <1>1, <1>2, FirstInRing DEF Ring!IInv, Ring!TypeOK, Ring!NumberOf, Ring!Counted
  <2>2. Len(ring_printed') = 0
    BY DEF Ring!InitWrite, Ring!IInv
  <2> QED
    BY <1>4, <2>1, <2>2, FirstInRing, RingSizes DEF Ring!NumberInv
<1>7. Ring!PrintedInOrder'
  BY DEF Ring!InitWrite, Ring!IInv, Ring!PrintedInOrder
<1> QED
  BY <1>3, <1>5, <1>6, <1>7 DEF Ring!InitWrite, Ring!IInv

(* Waiting for children does not touch the ring. *)
LEMMA RingWaits ==
  ASSUME Ring!IInv, (\E i \in Ring!Id : Ring!WaitChild(i)) \/ Ring!MainExit
  PROVE  Ring!IInv'
<1>1. Ring!TypeOK'
  BY DEF Ring!WaitChild, Ring!MainExit, Ring!IInv, Ring!TypeOK
<1>2. Ring!OneHolder' /\ Ring!NumberInv' /\ Ring!PrintedInOrder'
  BY DEF Ring!WaitChild, Ring!MainExit, Ring!IInv, Ring!OneHolder, Ring!NumberInv, Ring!PrintedInOrder, Ring!Holds,
         Ring!NumberOf, Ring!Counted
<1> QED
  BY <1>1, <1>2 DEF Ring!WaitChild, Ring!MainExit, Ring!IInv

(* What is known about the one child that acts. *)
LEMMA RingHolder ==
  ASSUME Ring!IInv, NEW i \in Ring!Id, Ring!Holds(i)
  PROVE  /\ ring_main # "fork"
         /\ \A j \in Ring!Id \ {i} : ring_efd[j] = 0 /\ ring_pc[j] \notin {"print", "write"}
         /\ ring_pc[i] \in {"print", "write"} => ring_efd[i] = 0
         /\ Ring!NumberOf(i) \in Nat \ {0}
         /\ i = (Ring!NumberOf(i) - 1) % RingSize
         /\ Len(ring_printed) = IF Ring!Counted(i) <= RingLimit THEN Ring!Counted(i) ELSE RingLimit
<1>1. \A j \in Ring!Id \ {i} : ~Ring!Holds(j)
  BY DEF Ring!IInv, Ring!OneHolder
<1>2. \A j \in Ring!Id : ring_efd[j] \in Nat
  BY DEF Ring!IInv, Ring!TypeOK
<1> QED
  BY <1>1, <1>2 DEF Ring!IInv, Ring!OneHolder, Ring!NumberInv, Ring!Holds

(* The holder takes the number out of its eventfd. *)
LEMMA RingReads ==
  ASSUME Ring!IInv, NEW i \in Ring!Id, Ring!ReadEfd(i)
  PROVE  Ring!IInv'
<1>1. Ring!Holds(i)
  BY DEF Ring!ReadEfd, Ring!Holds
<1>2. Ring!TypeOK'
  BY DEF Ring!ReadEfd, Ring!IInv, Ring!TypeOK
<1>3. /\ ring_efd' = [ring_efd EXCEPT ![i] = 0] /\ ring_x'[i] = ring_efd[i] /\ ring_pc'[i] = "print"
      /\ \A j \in Ring!Id \ {i} : ring_pc'[j] = ring_pc[j]
      /\ UNCHANGED <<ring_main, ring_printed>>
  BY DEF Ring!ReadEfd, Ring!IInv, Ring!TypeOK
<1>4. \A j \in Ring!Id : (Ring!Holds(j)' <=> j = i) /\ ring_efd'[j] = 0
  BY <1>1, <1>3, RingHolder DEF Ring!IInv, Ring!TypeOK, Ring!Holds
<1>5. Ring!OneHolder'
  BY <1>1, <1>3, <1>4, RingHolder DEF Ring!OneHolder
<1>6. Ring!NumberInv'
  <2>1. Ring!NumberOf(i)' = Ring!NumberOf(i) /\ Ring!Counted(i)' = Ring!Counted(i)
    BY <1>3 DEF Ring!ReadEfd, Ring!NumberOf, Ring!Counted
  <2> QED
    BY <1>1, <1>3, <1>4, <2>1, RingHolder DEF Ring!NumberInv
<1>7. Ring!PrintedInOrder'
  BY <1>3 DEF Ring!IInv, Ring!PrintedInOrder
<1> QED
  BY <1>1, <1>2, <1>3, <1>5, <1>6, <1>7, RingHolder DEF Ring!IInv

(* The holder prints the number, unless it is past the limit. *)
LEMMA RingPrints ==
  ASSUME Ring!IInv, NEW i \in Ring!Id, Ring!PrintX(i)
  PROVE  Ring!IInv'
<1>1. Ring!Holds(i)
  BY DEF Ring!PrintX, Ring!Holds
<1>2. /\ ring_x[i] \in Nat \ {0} /\ i = (ring_x[i] - 1) % RingSize
      /\ Len(ring_printed) = IF ring_x[i] - 1 <= RingLimit THEN ring_x[i] - 1 ELSE RingLimit
  BY <1>1, RingHolder DEF Ring!PrintX, Ring!NumberOf, Ring!Counted
<1>3. /\ ring_x'[i] = ring_x[i] + 1 /\ ring_pc'[i] = "write"
      /\ \A j \in Ring!Id \ {i} : ring_pc'[j] = ring_pc[j]
      /\ UNCHANGED <<ring_main, ring_efd>>
  BY DEF Ring!PrintX, Ring!IInv, Ring!TypeOK
<1>4. Ring!TypeOK'
  BY <1>2, SMTT(30) DEF Ring!PrintX, Ring!IInv, Ring!TypeOK
<1>5. \A j \in Ring!Id : (Ring!Holds(j)' <=> j = i) /\ ring_efd'[j] = 0
  BY <1>1, <1>3, RingHolder DEF Ring!PrintX, Ring!Holds
<1>6. Ring!OneHolder'
  BY <1>1, <1>3, <1>5, RingHolder DEF Ring!OneHolder
<1>7. Ring!PrintedInOrder' /\ Len(ring_printed') = IF ring_x[i] <= RingLimit THEN ring_x[i] ELSE RingLimit
  <2>1. CASE ring_x[i] <= RingLimit
    <3>1. /\ Len(ring_printed) = ring_x[i] - 1 /\ ring_printed \in Seq(Ring!Id \X Nat)
          /\ ring_printed' = Append(ring_printed, <<i, ring_x[i]>>)
      BY <1>2, <2>1 DEF Ring!PrintX, Ring!IInv, Ring!TypeOK
    <3>2. /\ Len(ring_printed') = ring_x[i]
          /\ ring_printed'[ring_x[i]] = <<i, ring_x[i]>>
          /\ \A k \in 1 .. ring_x[i] - 1 : ring_printed'[k] = ring_printed[k]
      BY <1>2, <3>1, AppendProperties
    <3>3. \A k \in 1 .. ring_x[i] : k \in 1 .. ring_x[i] - 1 \/ k = ring_x[i]
      BY <1>2
    <3> QED
      BY <1>2, <2>1, <3>1, <3>2, <3>3 DEF Ring!IInv, Ring!PrintedInOrder
  <2>2. CASE ring_x[i] > RingLimit
    <3>1. ring_printed' = ring_printed /\ Len(ring_printed) = RingLimit
      BY <1>2, <2>2, RingSizes DEF Ring!PrintX
    <3> QED
      BY <1>2, <2>2, <3>1, RingSizes DEF Ring!IInv, Ring!PrintedInOrder
  <2> QED
    BY <2>1, <2>2, <1>2, RingSizes
<1>8. Ring!NumberInv'
  <2>1. Ring!NumberOf(i)' = ring_x[i] /\ Ring!Counted(i)' = ring_x[i]
    BY <1>2, <1>3 DEF Ring!NumberOf, Ring!Counted
  <2> QED
    BY <1>2, <1>5, <1>7, <2>1 DEF Ring!NumberInv
<1> QED
  BY <1>1, <1>3, <1>4, <1>6, <1>7, <1>8, RingHolder DEF Ring!IInv

(* The holder passes the number on. *)
LEMMA RingWrites ==
  ASSUME Ring!IInv, NEW i \in Ring!Id, Ring!WriteEfd(i)
  PROVE  Ring!IInv'
<1> DEFINE next == (i + 1) % RingSize
<1>1. Ring!Holds(i)
  BY DEF Ring!WriteEfd, Ring!Holds
<1>2. /\ ring_x[i] \in Nat /\ ring_x[i] - 1 \in Nat \ {0} /\ i = (ring_x[i] - 2) % RingSize
      /\ Len(ring_printed) = IF ring_x[i] - 1 <= RingLimit THEN ring_x[i] - 1 ELSE RingLimit
  BY <1>1, RingHolder, SMTT(20) DEF Ring!WriteEfd, Ring!NumberOf, Ring!Counted, Ring!IInv, Ring!TypeOK
<1>3. next \in Ring!Id /\ next = (ring_x[i] - 1) % RingSize
  <2>1. ring_x[i] - 2 \in Nat /\ ring_x[i] - 2 + 1 = ring_x[i] - 1
    BY <1>2
  <2> QED
    BY <1>2, <2>1, NextInRing, RingSizes DEF Ring!Id
<1> HIDE DEF next
<1>4. /\ ring_efd' = [ring_efd EXCEPT ![next] = ring_x[i]]
      /\ ring_pc'[i] \in {"read", "exited"}
      /\ \A j \in Ring!Id \ {i} : ring_pc'[j] = ring_pc[j]
      /\ UNCHANGED <<ring_main, ring_x, ring_printed>>
  <2>1. \A j \in Ring!Id : ring_efd[j] = 0
    BY <1>1, RingHolder DEF Ring!WriteEfd
  <2>2. 0 + ring_x[i] = ring_x[i]
    BY <1>2
  <2> QED
    BY <1>3, <2>1, <2>2 DEF Ring!WriteEfd, Ring!IInv, Ring!TypeOK, next
<1>5. Ring!TypeOK'
  BY <1>2, <1>4 DEF Ring!WriteEfd, Ring!IInv, Ring!TypeOK
<1>6. \A j \in Ring!Id : (Ring!Holds(j)' <=> j = next) /\ ring_pc'[j] \notin {"print", "write"}
  <2>1. \A j \in Ring!Id \ {i} : ring_efd[j] = 0 /\ ring_pc[j] \notin {"print", "write"}
    BY <1>1, RingHolder
  <2>2. ring_efd[i] = 0 /\ ring_x[i] > 0
    BY <1>1, <1>2, RingHolder DEF Ring!WriteEfd
  <2>3. \A j \in Ring!Id : ring_efd'[j] = IF j = next THEN ring_x[i] ELSE 0
    BY <1>3, <1>4, <2>1, <2>2 DEF Ring!IInv, Ring!TypeOK
  <2>4. \A j \in Ring!Id : ring_pc'[j] \notin {"print", "write"}
    BY <1>4, <2>1
  <2> QED
    BY <2>2, <2>3, <2>4 DEF Ring!Holds
<1>7. Ring!OneHolder'
  BY <1>1, <1>3, <1>4, <1>6, RingHolder DEF Ring!OneHolder
<1>8. Ring!NumberInv'
  <2>1. Ring!NumberOf(next)' = ring_x[i] /\ Ring!Counted(next)' = ring_x[i] - 1
    BY <1>3, <1>4, <1>6 DEF Ring!NumberOf, Ring!Counted, Ring!IInv, Ring!TypeOK
  <2> QED
    BY <1>2, <1>3, <1>4, <1>6, <2>1 DEF Ring!NumberInv
<1>9. Ring!PrintedInOrder'
  BY <1>4 DEF Ring!IInv, Ring!PrintedInOrder
<1> QED
  BY <1>1, <1>4, <1>5, <1>7, <1>8, <1>9, RingHolder DEF Ring!IInv

(* Every step of main and of the children keeps the invariant. *)
LEMMA RingNext == Ring!IInv /\ [Ring!Next]_(Ring!vars) => Ring!IInv'
<1> SUFFICES ASSUME Ring!IInv, [Ring!Next]_(Ring!vars) PROVE Ring!IInv'
  OBVIOUS
<1>1. CASE Ring!MainStep \/ Ring!ForkFails
  BY <1>1, RingForks, RingStarts, RingWaits DEF Ring!MainStep
<1>2. ASSUME NEW i \in Ring!Id, Ring!ChildStep(i) PROVE Ring!IInv'
  BY <1>2, RingReads, RingPrints, RingWrites DEF Ring!ChildStep
<1>3. CASE UNCHANGED Ring!vars
  BY <1>3 DEF Ring!vars, Ring!IInv, Ring!TypeOK, Ring!OneHolder, Ring!PrintedInOrder,
              Ring!NumberInv, Ring!Holds, Ring!NumberOf, Ring!Counted
<1> QED
  BY <1>1, <1>2, <1>3 DEF Ring!Next

(* One child at a time has the number, and what they print is 1, 2, ... in  *)
(* turn, for any number of children, any limit and any forks that fail.    *)
THEOREM RingInOrder == AnySpec => []RingSafety
<1>1. AnyInit => Ring!IInv
  BY RingInit DEF AnyInit
<1>2. Ring!IInv /\ [AnyNext]_allVars => Ring!IInv'
  BY EachProgramSteps, RingNext
<1>3. Ring!IInv => RingSafety
  BY DEF Ring!IInv, RingSafety, Ring!RingSafety
<1> QED
  BY <1>1, <1>2, <1>3, PTL DEF AnySpec

-------------------------------------------------------------------------------
(***************************************************************************)
(* Streams cut in pieces                                                   *)
(***************************************************************************)

(* A sequence is what is taken of it with the rest behind. *)
LEMMA Cut ==
    ASSUME NEW S, NEW s \in Seq(S), NEW n \in 0 .. Len(s)
    PROVE  /\ SubSeq(s, 1, n) \in Seq(S) /\ Len(SubSeq(s, 1, n)) = n
           /\ SubSeq(s, n + 1, Len(s)) \in Seq(S) /\ Len(SubSeq(s, n + 1, Len(s))) = Len(s) - n
           /\ SubSeq(s, 1, n) \o SubSeq(s, n + 1, Len(s)) = s
<1>1. /\ Len(s) \in Nat /\ n \in Nat /\ n <= Len(s) /\ n \in Int /\ n + 1 \in Int /\ Len(s) \in Int
      /\ 1 \in 1 .. Len(s) + 1 /\ n \in 1 - 1 .. Len(s) /\ Len(s) \in n .. Len(s)
  BY LenProperties
<1>2. \A k \in 1 .. n : s[k] \in S
  BY <1>1, ElementOfSeq
<1>3. \A k \in n + 1 .. Len(s) : s[k] \in S
  BY <1>1, ElementOfSeq
<1>4. SubSeq(s, 1, n) \in Seq(S) /\ Len(SubSeq(s, 1, n)) = IF 1 <= n THEN n - 1 + 1 ELSE 0
  BY <1>1, <1>2, SubSeqProperties
<1>5. /\ SubSeq(s, n + 1, Len(s)) \in Seq(S)
      /\ Len(SubSeq(s, n + 1, Len(s))) = IF n + 1 <= Len(s) THEN Len(s) - (n + 1) + 1 ELSE 0
  BY <1>1, <1>3, SubSeqProperties
<1>6. /\ (IF 1 <= n THEN n - 1 + 1 ELSE 0) = n
      /\ (IF n + 1 <= Len(s) THEN Len(s) - (n + 1) + 1 ELSE 0) = Len(s) - n
  BY <1>1
<1>7. SubSeq(s, 1, n) \o SubSeq(s, n + 1, Len(s)) = SubSeq(s, 1, Len(s))
  BY <1>1, ConcatAdjacentSubSeq
<1>8. SubSeq(s, 1, Len(s)) = s
  BY SubSeqFull
<1>9. /\ SubSeq(s, 1, n) \in Seq(S) /\ Len(SubSeq(s, 1, n)) = n
      /\ SubSeq(s, n + 1, Len(s)) \in Seq(S) /\ Len(SubSeq(s, n + 1, Len(s))) = Len(s) - n
  BY <1>4, <1>5, <1>6
<1> QED
  BY <1>7, <1>8, <1>9, Zenon

(* The first n of a sequence, and what is behind them. *)
Front(s, n) == SubSeq(s, 1, n)
Rest(s, n) == SubSeq(s, n + 1, Len(s))

(* What is taken from one sequence and put behind another goes nowhere. *)
LEMMA Moved ==
    ASSUME NEW S, NEW a \in Seq(S), NEW b \in Seq(S), NEW n \in 0 .. Len(b)
    PROVE  /\ a \o Front(b, n) \in Seq(S) /\ Len(a \o Front(b, n)) = Len(a) + n
           /\ Rest(b, n) \in Seq(S) /\ Len(Rest(b, n)) = Len(b) - n
           /\ (a \o Front(b, n)) \o Rest(b, n) = a \o b
<1>1. /\ Front(b, n) \in Seq(S) /\ Len(Front(b, n)) = n
      /\ Rest(b, n) \in Seq(S) /\ Len(Rest(b, n)) = Len(b) - n
      /\ Front(b, n) \o Rest(b, n) = b
  BY Cut DEF Front, Rest
<1>2. a \o Front(b, n) \in Seq(S) /\ Len(a \o Front(b, n)) = Len(a) + n
  BY <1>1, ConcatProperties
<1>3. (a \o Front(b, n)) \o Rest(b, n) = a \o b
  <2>1. (a \o Front(b, n)) \o Rest(b, n) = a \o (Front(b, n) \o Rest(b, n))
    <3>1. Front(b, n) \in Seq(S) /\ Rest(b, n) \in Seq(S)
      BY <1>1
    <3> QED
      BY ONLY a \in Seq(S), <3>1, ConcatAssociative, SMTT(20)
  <2> QED
    BY <1>1, <2>1
<1> QED
  BY <1>1, <1>2, <1>3

(* The numbers to k and the n behind them. *)
LEMMA NumbersOn ==
    ASSUME NEW k \in Nat, NEW n \in Nat, NEW top \in Nat, k + n <= top
    PROVE  /\ [i \in 1 .. n |-> k + i] \in Seq(1 .. top) /\ Len([i \in 1 .. n |-> k + i]) = n
           /\ [i \in 1 .. k |-> i] \in Seq(1 .. top)
           /\ [i \in 1 .. k |-> i] \o [i \in 1 .. n |-> k + i] = [i \in 1 .. k + n |-> i]
<1> DEFINE a == [i \in 1 .. k |-> i]
           b == [i \in 1 .. n |-> k + i]
           c == [i \in 1 .. k + n |-> i]
<1>1. /\ \A i \in 1 .. n : k + i \in 1 .. top
      /\ \A i \in 1 .. k : i \in 1 .. top
      /\ \A i \in 1 .. k + n : i \in 1 .. top
      /\ k + n \in Nat
  OBVIOUS
<1>2. a \in Seq(1 .. top) /\ Len(a) = k /\ \A i \in 1 .. k : a[i] = i
  BY <1>1
<1>3. b \in Seq(1 .. top) /\ Len(b) = n /\ \A i \in 1 .. n : b[i] = k + i
  BY <1>1
<1>4. c \in Seq(1 .. top) /\ Len(c) = k + n /\ \A i \in 1 .. k + n : c[i] = i
  BY <1>1
<1> HIDE DEF a, b, c
<1>5. /\ a \o b \in Seq(1 .. top) /\ Len(a \o b) = k + n
      /\ \A i \in 1 .. k + n : (a \o b)[i] = IF i <= k THEN a[i] ELSE b[i - k]
  <2>1. /\ a \o b \in Seq(1 .. top) /\ Len(a \o b) = Len(a) + Len(b)
        /\ \A i \in 1 .. Len(a) + Len(b) : (a \o b)[i] = IF i <= Len(a) THEN a[i] ELSE b[i - Len(a)]
    BY <1>2, <1>3, ConcatProperties
  <2> QED
    BY <1>2, <1>3, <2>1
<1>6. \A i \in 1 .. k + n : (a \o b)[i] = i
  <2> SUFFICES ASSUME NEW i \in 1 .. k + n PROVE (a \o b)[i] = i
    OBVIOUS
  <2>1. CASE i <= k
    BY <1>2, <1>5, <2>1
  <2>2. CASE ~(i <= k)
    <3>1. i - k \in 1 .. n /\ k + (i - k) = i
      BY <2>2
    <3> QED
      BY <1>3, <1>5, <2>2, <3>1
  <2> QED
    BY <2>1, <2>2
<1>7. a \o b = c
  <2>1. Len(a \o b) = Len(c) /\ \A i \in 1 .. Len(a \o b) : (a \o b)[i] = c[i]
    BY <1>4, <1>5, <1>6, SMTT(20)
  <2> QED
    BY <1>4, <1>5, <2>1, SeqEqual
<1> QED
  BY <1>2, <1>3, <1>7 DEF a, b, c

-------------------------------------------------------------------------------
(***************************************************************************)
(* run and the command it captures                                         *)
(***************************************************************************)

(* Nothing has been written. *)
LEMMA CaptureInit == Capture!Init => Capture!IInv
<1> SUFFICES ASSUME Capture!Init PROVE Capture!IInv
  OBVIOUS
<1> USE DEF Capture!Init
<1>1. pipe \in Seq(1 .. OutputLen) /\ output \in Seq(1 .. OutputLen) /\ Len(pipe) = 0 /\ Len(output) = 0
  OBVIOUS
<1>2. OutputLen \in Nat /\ CapturePipeSize \in Nat \ {0} /\ FirstSize \in Nat \ {0}
  BY BoundsAssumption
<1>3. Capture!NothingLost
  BY DEF Capture!NothingLost, Capture!Written
<1>4. Capture!TypeOK
  BY <1>1, <1>2 DEF Capture!TypeOK
<1>5. Capture!BufferFits
  BY <1>1, <1>2 DEF Capture!BufferFits
<1> QED
  BY <1>1, <1>3, <1>4, <1>5 DEF Capture!IInv

(* A buffer that bytes do not fit in grows to one that they do, and not    *)
(* beyond twice what it holds: doubling it once is enough for one read.    *)
LEMMA Growth ==
    ASSUME NEW n \in Nat, n <= FirstSize, FirstSize <= capacity, capacity \in Nat,
           Len(output) \in Nat, Len(output) <= capacity, capacity < n + Len(output)
    PROVE  /\ Capture!Grown(n) \in Nat
           /\ n + Len(output) <= Capture!Grown(n)
           /\ Capture!Grown(n) < 2 * (n + Len(output))
<1>1. 2 * capacity \in n + Len(output) .. 2 * (n + Len(output)) - 1
  BY BoundsAssumption
<1>2. 1 \in 1 .. n + Len(output)
  OBVIOUS
<1>3. 2 * capacity = capacity * 2^1
  OBVIOUS
<1>4. \E c \in n + Len(output) .. 2 * (n + Len(output)) - 1 :
         \E k \in 1 .. n + Len(output) : c = capacity * 2^k
  BY <1>1, <1>2, <1>3, Zenon
<1>5. Capture!Grown(n) \in n + Len(output) .. 2 * (n + Len(output)) - 1
  BY <1>4 DEF Capture!Grown
<1> QED
  BY <1>5

(* The parent takes what fits in one read from the pipe to its buffer. *)
LEMMA CaptureReads ==
    ASSUME Capture!IInv, pipe # <<>>,
           output' = output \o SubSeq(pipe, 1, Capture!Taken),
           pipe' = SubSeq(pipe, Capture!Taken + 1, Len(pipe)),
           written' = written
    PROVE  /\ Capture!Taken \in Nat \ {0} /\ Capture!Taken <= ReadSize
           /\ output' \in Seq(1 .. OutputLen) /\ Len(output') = Len(output) + Capture!Taken
           /\ pipe' \in Seq(1 .. OutputLen) /\ Len(pipe') <= CapturePipeSize
           /\ Capture!NothingLost'
<1>1. /\ ReadSize \in Nat \ {0} /\ CapturePipeSize \in Nat
      /\ pipe \in Seq(1 .. OutputLen) /\ output \in Seq(1 .. OutputLen)
      /\ Len(pipe) \in Nat /\ Len(pipe) <= CapturePipeSize
      /\ Len(pipe) # 0
  BY BoundsAssumption, LenProperties, EmptySeq DEF Capture!IInv, Capture!TypeOK
<1>2. /\ Capture!Taken \in 0 .. Len(pipe) /\ Capture!Taken \in Nat \ {0}
      /\ Capture!Taken <= ReadSize /\ Len(pipe) - Capture!Taken <= CapturePipeSize
  BY <1>1 DEF Capture!Taken, Capture!SmallerOf
<1>3. /\ output' \in Seq(1 .. OutputLen) /\ Len(output') = Len(output) + Capture!Taken
      /\ pipe' \in Seq(1 .. OutputLen) /\ Len(pipe') = Len(pipe) - Capture!Taken
      /\ output' \o pipe' = output \o pipe
  <2>1. output' = output \o Front(pipe, Capture!Taken) /\ pipe' = Rest(pipe, Capture!Taken)
    BY DEF Front, Rest
  <2> QED
    <3>1. /\ output \in Seq(1 .. OutputLen) /\ pipe \in Seq(1 .. OutputLen)
          /\ Capture!Taken \in 0 .. Len(pipe)
      BY <1>1, <1>2
    <3>2. output \o Front(pipe, Capture!Taken) \in Seq(1 .. OutputLen)
      BY ONLY <3>1, Moved
    <3>3. Len(output \o Front(pipe, Capture!Taken)) = Len(output) + Capture!Taken
      BY ONLY <3>1, Moved
    <3>4. Rest(pipe, Capture!Taken) \in Seq(1 .. OutputLen)
      BY ONLY <3>1, Moved
    <3>5. Len(Rest(pipe, Capture!Taken)) = Len(pipe) - Capture!Taken
      BY ONLY <3>1, Moved
    <3>6. (output \o Front(pipe, Capture!Taken)) \o Rest(pipe, Capture!Taken) = output \o pipe
      BY ONLY <3>1, Moved, ZenonT(60)
    <3> QED
      BY <2>1, <3>2, <3>3, <3>4, <3>5, <3>6, Zenon
<1>4. Capture!NothingLost'
  BY <1>3 DEF Capture!IInv, Capture!NothingLost, Capture!Written
<1> QED
  BY <1>2, <1>3, <1>4

(* The command writes a piece, the parent reads a piece and makes room for *)
(* it.                                                                     *)
LEMMA CaptureNext ==
    ASSUME Capture!IInv, [Capture!Next]_(Capture!vars)
    PROVE  Capture!IInv'
<1>1. /\ OutputLen \in Nat /\ CapturePipeSize \in Nat /\ FirstSize \in Nat \ {0}
      /\ ReadSize \in Nat /\ ReadSize <= FirstSize
      /\ Len(pipe) \in Nat /\ Len(output) \in Nat /\ written \in Nat /\ capacity \in Nat
  BY BoundsAssumption, LenProperties DEF Capture!IInv, Capture!TypeOK
<1>2. ASSUME UNCHANGED <<pipe, output, written>>
      PROVE  Capture!NothingLost' = Capture!NothingLost
  BY <1>2 DEF Capture!NothingLost, Capture!Written
<1> USE DEF Capture!IInv, Capture!TypeOK, Capture!BufferFits
<1>3. CASE Capture!Fork
  BY <1>2, <1>3 DEF Capture!Fork
<1>4. CASE Capture!ForkFails
  BY <1>2, <1>4 DEF Capture!ForkFails, Capture!childVars
<1>5. CASE Capture!CloseWriteEnd
  BY <1>1, <1>2, <1>5 DEF Capture!CloseWriteEnd, Capture!childVars
<1>6. CASE Capture!ReadFits
  <2>1. /\ Capture!Taken \in Nat
        /\ output' \in Seq(1 .. OutputLen) /\ Len(output') = Len(output) + Capture!Taken
        /\ pipe' \in Seq(1 .. OutputLen) /\ Len(pipe') <= CapturePipeSize
        /\ Capture!NothingLost'
    BY <1>6, CaptureReads DEF Capture!ReadFits, Capture!childVars
  <2>2. parent = "read" /\ Len(output) + Capture!Taken <= capacity
    BY <1>1, <1>6, <2>1 DEF Capture!ReadFits, Capture!Fits
  <2>3. UNCHANGED <<write_end, child, written, parent, capacity, status>>
    BY <1>6 DEF Capture!ReadFits, Capture!childVars
  <2>4. Capture!BufferFits'
    BY <1>1, <2>1, <2>2, <2>3
  <2> QED
    BY <2>1, <2>2, <2>3, <2>4
<1>7. CASE Capture!ReadGrows
  <2>1. /\ Capture!Taken \in Nat /\ Capture!Taken <= ReadSize
        /\ output' \in Seq(1 .. OutputLen) /\ Len(output') = Len(output) + Capture!Taken
        /\ pipe' \in Seq(1 .. OutputLen) /\ Len(pipe') <= CapturePipeSize
        /\ Capture!NothingLost'
    BY <1>7, CaptureReads DEF Capture!ReadGrows, Capture!childVars
  <2>2. /\ parent = "read" /\ capacity < Capture!Taken + Len(output)
        /\ FirstSize <= capacity /\ Len(output) <= capacity
    BY <1>1, <1>7, <2>1 DEF Capture!ReadGrows, Capture!Fits
  <2>3. capacity' = Capture!Grown(Capture!Taken) /\ UNCHANGED <<write_end, child, written, parent, status>>
    BY <1>7 DEF Capture!ReadGrows, Capture!childVars
  <2>4. /\ capacity' \in Nat /\ Capture!Taken + Len(output) <= capacity'
        /\ capacity' < 2 * (Capture!Taken + Len(output))
    BY <1>1, <2>1, <2>2, <2>3, Growth
  <2>5. Capture!BufferFits' /\ capacity' >= FirstSize
    BY <1>1, <2>1, <2>2, <2>4
  <2> QED
    BY <2>1, <2>2, <2>3, <2>4, <2>5
<1>8. CASE Capture!ReallocFails
  BY <1>2, <1>8 DEF Capture!ReallocFails, Capture!childVars
<1>9. CASE Capture!ReadEnd
  BY <1>2, <1>9 DEF Capture!ReadEnd, Capture!childVars
<1>10. CASE Capture!Wait
  BY <1>2, <1>10 DEF Capture!Wait
<1>11. CASE Capture!PrintOutput
  BY <1>2, <1>11 DEF Capture!PrintOutput, Capture!childVars
<1>12. CASE Capture!Exec
  BY <1>2, <1>12 DEF Capture!Exec, Capture!parentVars
<1>13. CASE Capture!ExecFails
  BY <1>2, <1>13 DEF Capture!ExecFails, Capture!parentVars
<1>14. CASE Capture!CommandWrites
  <2>1. PICK n \in 1 .. Capture!SmallerOf(OutputLen - written, CapturePipeSize - Len(pipe)) :
           /\ pipe' = pipe \o [i \in 1 .. n |-> written + i]
           /\ written' = written + n
    BY <1>14 DEF Capture!CommandWrites
  <2>2. n \in Nat /\ written + n <= OutputLen /\ Len(pipe) + n <= CapturePipeSize
    BY <1>1, <2>1 DEF Capture!SmallerOf
  <2> DEFINE w == [i \in 1 .. n |-> written + i]
             old == [i \in 1 .. written |-> i]
  <2>3. /\ w \in Seq(1 .. OutputLen) /\ Len(w) = n
        /\ old \o w = [i \in 1 .. written + n |-> i]
    BY <1>1, <2>2, NumbersOn
  <2>4. output \o pipe = old
    BY DEF Capture!NothingLost, Capture!Written
  <2>5. pipe' = pipe \o w
    BY <2>1
  <2> HIDE DEF w, old
  <2>6. pipe' \in Seq(1 .. OutputLen) /\ Len(pipe') = Len(pipe) + n
    <3>1. pipe \in Seq(1 .. OutputLen) /\ w \in Seq(1 .. OutputLen)
      BY <2>3
    <3>2. pipe \o w \in Seq(1 .. OutputLen) /\ Len(pipe \o w) = Len(pipe) + Len(w)
      BY ONLY <3>1, ConcatProperties
    <3> QED
      BY <2>3, <2>5, <3>2, Zenon
  <2>7. output \o (pipe \o w) = (output \o pipe) \o w
    <3>1. pipe \in Seq(1 .. OutputLen) /\ output \in Seq(1 .. OutputLen)
      OBVIOUS
    <3> QED
      BY ONLY <2>3, <3>1, ConcatAssociative, SMTT(20)
  <2>8. UNCHANGED <<write_end, child, parent, output, capacity, status>> /\ child = "command"
    BY <1>14 DEF Capture!CommandWrites, Capture!parentVars
  <2>9. output' \o pipe' = [i \in 1 .. written' |-> i]
    BY <2>1, <2>3, <2>4, <2>5, <2>7, <2>8
  <2>10. Capture!NothingLost'
    BY <2>9 DEF Capture!NothingLost, Capture!Written
  <2>11. written' \in 0 .. OutputLen /\ Len(pipe') <= CapturePipeSize
    BY <1>1, <2>1, <2>2, <2>6
  <2> QED
    BY <2>6, <2>8, <2>10, <2>11
<1>15. CASE Capture!CommandEnds
  BY <1>2, <1>15 DEF Capture!CommandEnds, Capture!parentVars
<1>16. CASE Capture!CommandDies
  BY <1>2, <1>16 DEF Capture!CommandDies, Capture!parentVars
<1>17. CASE UNCHANGED Capture!vars
  BY <1>2, <1>17 DEF Capture!vars
<1> QED
  BY <1>3, <1>4, <1>5, <1>6, <1>7, <1>8, <1>9, <1>10, <1>11, <1>12, <1>13, <1>14, <1>15,
     <1>16, <1>17 DEF Capture!Next, Capture!Parent, Capture!Child

(* run collects what the command has written, whole and in order, inside   *)
(* its buffer: for any output, pipe and buffer sizes, wherever the reads   *)
(* and writes cut it and whichever fork, exec or realloc fails.            *)
THEOREM CapturesAll == AnySpec => []CaptureSafety
<1>1. AnyInit => Capture!IInv
  BY CaptureInit DEF AnyInit
<1>2. Capture!IInv /\ [AnyNext]_allVars => Capture!IInv'
  BY EachProgramSteps, CaptureNext
<1>3. Capture!IInv => CaptureSafety
  <2> SUFFICES ASSUME Capture!IInv, parent = "print" PROVE output = Capture!Written
    BY DEF Capture!IInv, CaptureSafety, Capture!CaptureSafety, Capture!WholeOutput
  <2>1. pipe = <<>> /\ output \o pipe = Capture!Written /\ output \in Seq(1 .. OutputLen)
    BY DEF Capture!IInv, Capture!NothingLost, Capture!TypeOK
  <2> QED
    BY <2>1, ConcatEmptySeq
<1> QED
  BY <1>1, <1>2, <1>3, PTL DEF AnySpec

-------------------------------------------------------------------------------
(***************************************************************************)
(* pipe-send                                                               *)
(***************************************************************************)

(* Bytes are joined in any order. *)
LEMMA BytesAssociative ==
    ASSUME NEW a \in Send!Bytes, NEW b \in Send!Bytes, NEW c \in Send!Bytes
    PROVE  (a \o b) \o c = a \o (b \o c)
  BY ConcatAssociative DEF Send!Bytes

(* What joining bytes gives. *)
LEMMA BytesJoin ==
    ASSUME NEW a \in Send!Bytes, NEW b \in Send!Bytes
    PROVE  /\ a \o b \in Send!Bytes
           /\ Len(a) \in Nat /\ Len(a \o b) = Len(a) + Len(b)
           /\ a \o <<>> = a /\ <<>> \o a = a
<1> DEFINE B == 0 .. InputLen
<1> SUFFICES ASSUME a \in Seq(B), b \in Seq(B)
             PROVE  /\ a \o b \in Seq(B)
                    /\ Len(a) \in Nat /\ Len(a \o b) = Len(a) + Len(b)
                    /\ a \o <<>> = a /\ <<>> \o a = a
  BY DEF Send!Bytes
<1> HIDE DEF B
<1>1. a \o b \in Seq(B) /\ Len(a \o b) = Len(a) + Len(b)
  BY ConcatProperties
<1>2. a \o <<>> = a /\ <<>> \o a = a
  BY ConcatEmptySeq
<1>3. Len(a) \in Nat
  BY LenProperties
<1> QED
  BY <1>1, <1>2, <1>3

(* The empty sequence, the message and the first bytes of the input. *)
LEMMA BytesAre ==
    /\ <<>> \in Send!Bytes /\ Len(<<>>) = 0
    /\ <<Send!Message>> \in Send!Bytes /\ Len(<<Send!Message>>) = 1
    /\ <<Send!Message>> # <<>>
    /\ \A n \in 0 .. InputLen : Send!Input(n) \in Send!Bytes /\ Len(Send!Input(n)) = n
                                /\ \A i \in 1 .. n : Send!Input(n)[i] = i
    /\ Send!Input(0) = <<>>
<1>1. InputLen \in Nat
  BY BoundsAssumption
<1>2. <<Send!Message>> \in Send!Bytes /\ Len(<<Send!Message>>) = 1 /\ <<Send!Message>> # <<>>
  BY <1>1 DEF Send!Message, Send!Bytes
<1>3. <<>> \in Send!Bytes /\ Len(<<>>) = 0 /\ Send!Input(0) = <<>>
  BY DEF Send!Bytes, Send!Input
<1>4. ASSUME NEW n \in 0 .. InputLen
      PROVE  /\ Send!Input(n) \in Send!Bytes /\ Len(Send!Input(n)) = n
             /\ \A i \in 1 .. n : Send!Input(n)[i] = i
  <2>1. n \in Nat /\ \A i \in 1 .. n : i \in 0 .. InputLen
    BY <1>1
  <2> QED
    BY <2>1 DEF Send!Input, Send!Bytes
<1> QED
  BY <1>2, <1>3, <1>4

(* What is taken from some bytes and put behind others goes nowhere. *)
LEMMA BytesMoved ==
    ASSUME NEW a \in Send!Bytes, NEW b \in Send!Bytes, NEW n \in 0 .. Len(b)
    PROVE  /\ Front(b, n) \in Send!Bytes /\ Len(Front(b, n)) = n
           /\ Rest(b, n) \in Send!Bytes /\ Len(Rest(b, n)) = Len(b) - n
           /\ (a \o Front(b, n)) \o Rest(b, n) = a \o b
<1> DEFINE B == 0 .. InputLen
<1> SUFFICES ASSUME a \in Seq(B), b \in Seq(B)
             PROVE  /\ Front(b, n) \in Seq(B) /\ Len(Front(b, n)) = n
                    /\ Rest(b, n) \in Seq(B) /\ Len(Rest(b, n)) = Len(b) - n
                    /\ (a \o Front(b, n)) \o Rest(b, n) = a \o b
  BY DEF Send!Bytes
<1> HIDE DEF B
<1>1. /\ Front(b, n) \in Seq(B) /\ Len(Front(b, n)) = n
      /\ Rest(b, n) \in Seq(B) /\ Len(Rest(b, n)) = Len(b) - n
  BY Cut DEF Front, Rest
<1>2. (a \o Front(b, n)) \o Rest(b, n) = a \o b
  BY Moved, ZenonT(60)
<1> QED
  BY <1>1, <1>2

(* The same where something is between the two. *)
LEMMA BytesPassed ==
    ASSUME NEW u \in Send!Bytes, NEW p \in Send!Bytes, NEW b \in Send!Bytes, NEW n \in 0 .. Len(b)
    PROVE  (u \o (p \o Front(b, n))) \o Rest(b, n) = (u \o p) \o b
<1>1. Front(b, n) \in Send!Bytes
  BY BytesMoved
<1>2. (u \o p) \o Front(b, n) = u \o (p \o Front(b, n))
  BY <1>1, BytesAssociative
<1>3. u \o p \in Send!Bytes
  BY BytesJoin
<1>4. ((u \o p) \o Front(b, n)) \o Rest(b, n) = (u \o p) \o b
  BY <1>3, BytesMoved
<1> QED
  BY <1>2, <1>4

(* What is in front of the bytes on their way is the beginning of the      *)
(* input with the message behind it.                                       *)
LEMMA InOrder ==
    ASSUME NEW u \in Send!Bytes, NEW y \in Send!Bytes, NEW k \in 0 .. InputLen,
           \/ u \o y = Send!Input(k)
           \/ u \o y = Send!Input(InputLen) \o <<Send!Message>>
    PROVE  /\ u = Front(Send!Input(InputLen) \o <<Send!Message>>, Len(u))
           /\ Len(u) <= InputLen + 1
           /\ y = <<>> /\ u \o y = Send!Input(InputLen) \o <<Send!Message>>
                 => Front(u, InputLen) = Send!Input(InputLen)
<1> DEFINE all == Send!Input(InputLen) \o <<Send!Message>>
<1>1. InputLen \in Nat /\ Len(u) \in Nat /\ Len(y) \in Nat
  BY BoundsAssumption, LenProperties DEF Send!Bytes
<1>2. /\ all \in Send!Bytes /\ Len(all) = InputLen + 1
      /\ \A i \in 1 .. InputLen : all[i] = i
  <2>1. /\ Send!Input(InputLen) \in Send!Bytes /\ Len(Send!Input(InputLen)) = InputLen
        /\ \A i \in 1 .. InputLen : Send!Input(InputLen)[i] = i
        /\ <<Send!Message>> \in Send!Bytes /\ Len(<<Send!Message>>) = 1
    BY <1>1, BytesAre
  <2>2. /\ all \in Send!Bytes /\ Len(all) = Len(Send!Input(InputLen)) + Len(<<Send!Message>>)
        /\ \A i \in 1 .. Len(Send!Input(InputLen)) + Len(<<Send!Message>>) :
              all[i] = IF i <= Len(Send!Input(InputLen)) THEN Send!Input(InputLen)[i]
                       ELSE <<Send!Message>>[i - Len(Send!Input(InputLen))]
    <3> HIDE DEF Send!Input, Send!Message
    <3> QED
      BY <2>1, ConcatProperties DEF Send!Bytes
  <2> HIDE DEF all
  <2> QED
    BY <1>1, <2>1, <2>2
<1> HIDE DEF all
<1>3. /\ u \o y \in Send!Bytes /\ Len(u \o y) = Len(u) + Len(y)
      /\ \A i \in 1 .. Len(u) : (u \o y)[i] = u[i]
  <2>1. /\ u \o y \in Send!Bytes /\ Len(u \o y) = Len(u) + Len(y)
        /\ \A i \in 1 .. Len(u) + Len(y) : (u \o y)[i] = IF i <= Len(u) THEN u[i] ELSE y[i - Len(u)]
    BY ConcatProperties DEF Send!Bytes
  <2> QED
    BY <1>1, <2>1
<1>4. Len(u) <= InputLen + 1 /\ \A i \in 1 .. Len(u) : u[i] = all[i]
  <2>1. CASE u \o y = Send!Input(k)
    <3>1. Len(u \o y) = k /\ \A i \in 1 .. k : (u \o y)[i] = i
      BY <2>1, BytesAre
    <3> QED
      BY <1>1, <1>2, <1>3, <3>1
  <2>2. CASE u \o y = all
    BY <1>1, <1>2, <1>3, <2>2
  <2> QED
    BY <2>1, <2>2 DEF all
<1>5. ASSUME NEW s \in Send!Bytes, NEW n \in 0 .. Len(s)
      PROVE  Front(s, n) \in Send!Bytes /\ Len(Front(s, n)) = n /\ \A i \in 1 .. n : Front(s, n)[i] = s[i]
  <2>1. n \in Int /\ 1 \in Int /\ n \in Nat /\ Len(s) \in Nat
    BY LenProperties DEF Send!Bytes
  <2>2. \A i \in 1 .. n : s[i] \in 0 .. InputLen
    <3>1. s \in Seq(0 .. InputLen)
      BY DEF Send!Bytes
    <3>2. \A i \in 1 .. Len(s) : s[i] \in 0 .. InputLen
      BY ONLY <3>1, ElementOfSeq
    <3> QED
      BY <2>1, <3>2
  <2>3. \A i \in 1 .. n - 1 + 1 : SubSeq(s, 1, n)[i] = s[1 + i - 1]
    BY <2>1, <2>2, SubSeqProperties
  <2>4. Front(s, n) \in Send!Bytes /\ Len(Front(s, n)) = n
    BY BytesMoved, BytesAre
  <2>5. \A i \in 1 .. n : SubSeq(s, 1, n)[i] = s[i]
    <3> DEFINE t == SubSeq(s, 1, n)
    <3>1. \A i \in 1 .. n - 1 + 1 : t[i] = s[1 + i - 1]
      BY <2>3
    <3> HIDE DEF t
    <3>2. ASSUME NEW i \in 1 .. n PROVE t[i] = s[i]
      <4>1. i \in 1 .. n - 1 + 1 /\ 1 + i - 1 = i
        BY <2>1
      <4> QED
        BY <3>1, <4>1
    <3> QED
      BY <3>2 DEF t
  <2> QED
    BY <2>4, <2>5 DEF Front
<1>6. u = Front(all, Len(u))
  <2>1. Len(u) \in 0 .. Len(all)
    BY <1>1, <1>2, <1>4
  <2>2. /\ Front(all, Len(u)) \in Send!Bytes /\ Len(Front(all, Len(u))) = Len(u)
        /\ \A i \in 1 .. Len(u) : Front(all, Len(u))[i] = all[i]
    BY <1>2, <1>5, <2>1
  <2>3. \A i \in 1 .. Len(u) : u[i] = Front(all, Len(u))[i]
    BY <1>4, <2>2
  <2> QED
    BY <2>2, <2>3, SeqEqual DEF Send!Bytes
<1>7. ASSUME y = <<>>, u \o y = all
      PROVE  Front(u, InputLen) = Send!Input(InputLen)
  <2>1. Len(u) = InputLen + 1
    BY <1>1, <1>2, <1>3, <1>7, BytesAre
  <2>2. /\ Front(u, InputLen) \in Send!Bytes /\ Len(Front(u, InputLen)) = InputLen
        /\ \A i \in 1 .. InputLen : Front(u, InputLen)[i] = u[i]
    BY <1>1, <1>5, <2>1
  <2>3. /\ Send!Input(InputLen) \in Send!Bytes /\ Len(Send!Input(InputLen)) = InputLen
        /\ \A i \in 1 .. InputLen : Send!Input(InputLen)[i] = i
    BY <1>1, BytesAre
  <2>4. \A i \in 1 .. InputLen : Front(u, InputLen)[i] = Send!Input(InputLen)[i]
    BY <1>1, <1>2, <1>4, <2>1, <2>2, <2>3
  <2> QED
    BY <2>2, <2>3, <2>4, SeqEqual DEF Send!Bytes
<1> QED
  BY <1>4, <1>6, <1>7 DEF all

(* What is on its way is made of bytes. *)
LEMMA StreamIsBytes ==
    ASSUME Send!TypeOK
    PROVE  /\ send_output \in Send!Bytes /\ send_pipe \in Send!Bytes
           /\ buf["child"] \in Send!Bytes /\ buf["parent"] \in Send!Bytes
           /\ send_output \o buf["child"] \in Send!Bytes
           /\ send_pipe \o buf["parent"] \in Send!Bytes
           /\ Send!Stream = (send_output \o buf["child"]) \o (send_pipe \o buf["parent"])
<1>1. /\ send_output \in Send!Bytes /\ send_pipe \in Send!Bytes
      /\ buf["child"] \in Send!Bytes /\ buf["parent"] \in Send!Bytes
  BY DEF Send!TypeOK, Send!Process
<1>2. send_output \o buf["child"] \in Send!Bytes /\ send_pipe \o buf["parent"] \in Send!Bytes
  BY <1>1, BytesJoin
<1>3. ((send_output \o buf["child"]) \o send_pipe) \o buf["parent"]
         = (send_output \o buf["child"]) \o (send_pipe \o buf["parent"])
  <2> DEFINE u == send_output \o buf["child"]
  <2>1. u \in Send!Bytes
    BY <1>2
  <2> HIDE DEF u
  <2>2. (u \o send_pipe) \o buf["parent"] = u \o (send_pipe \o buf["parent"])
    <3>1. PICK b \in Send!Bytes : b = buf["parent"]
      BY <1>1
    <3>2. (u \o send_pipe) \o b = u \o (send_pipe \o b)
      BY <1>1, <2>1, BytesAssociative
    <3> QED
      BY <3>1, <3>2
  <2> QED
    BY <2>2 DEF u
<1> QED
  BY <1>1, <1>2, <1>3 DEF Send!Stream

(* Nothing has been read. *)
LEMMA SendInit == Send!Init => Send!IInv
<1> SUFFICES ASSUME Send!Init PROVE Send!IInv
  OBVIOUS
<1>1. <<>> \in Send!Bytes /\ Len(<<>>) = 0 /\ Send!Input(0) = <<>>
  BY BytesAre
<1>2. InputLen \in Nat /\ SendPipeSize \in Nat /\ BufSize \in Nat
  BY BoundsAssumption
<1> USE DEF Send!Init, Send!Process
<1>3. Send!TypeOK
  BY <1>1, <1>2 DEF Send!TypeOK
<1>4. Send!Hands
  BY DEF Send!Hands
<1>5. Send!Flow
  <2>1. /\ send_output = <<>> /\ buf["child"] = <<>> /\ send_pipe = <<>> /\ buf["parent"] = <<>>
        /\ read_in = 0 /\ send_pc["parent"] = "fork" /\ send_pc["child"] = "none"
    OBVIOUS
  <2>2. <<>> \o <<>> = <<>>
    BY <1>1, BytesJoin
  <2>3. Send!Stream = Send!Input(read_in)
    BY <1>1, <2>1, <2>2 DEF Send!Stream
  <2> QED
    BY <2>1, <2>3 DEF Send!Flow
<1> QED
  BY <1>3, <1>4, <1>5 DEF Send!IInv

(* Bytes in order on their way, and nothing behind when it ends, are a     *)
(* copy in order and complete.                                             *)
LEMMA SendIsSafe == Send!IInv => Send!CopySafety
<1> SUFFICES ASSUME Send!IInv PROVE Send!CopySafety
  OBVIOUS
<1> DEFINE u == send_output \o buf["child"]
           y == send_pipe \o buf["parent"]
<1>1. Send!TypeOK /\ Send!Hands /\ Send!Flow /\ read_in \in 0 .. InputLen
  BY DEF Send!IInv, Send!TypeOK
<1>2. /\ u \in Send!Bytes /\ y \in Send!Bytes /\ Send!Stream = u \o y
      /\ send_output \in Send!Bytes
  BY <1>1, StreamIsBytes
<1>3. u \o y = Send!Input(read_in) \/ u \o y = Send!Input(InputLen) \o <<Send!Message>>
  BY <1>1, <1>2 DEF Send!Flow, Send!Whole
<1>4. Send!OutputInOrder
  <2>1. u = Front(Send!Input(InputLen) \o <<Send!Message>>, Len(u))
    <3> HIDE DEF u, y
    <3> QED
      BY <1>1, <1>2, <1>3, InOrder
  <2> QED
    BY <2>1 DEF Send!OutputInOrder, Front, Send!Input
<1>5. Send!NothingLost
  BY <1>1 DEF Send!NothingLost, Send!Flow, Send!Stream, Send!Input, Send!Process
<1>6. Send!EndMeansAll
  <2> SUFFICES ASSUME send_pc["child"] = "exit", redirected = Send!Process
               PROVE  /\ send_pc["parent"] = "gone"
                      /\ Front(send_output, InputLen) = Send!Input(InputLen)
    BY DEF Send!EndMeansAll, Front, Send!Input
  <2>1. /\ send_pipe = <<>> /\ buf["child"] = <<>> /\ send_write_end = {}
        /\ "child" \in read_end
    BY <1>1 DEF Send!Hands, Send!Flow, Send!Process
  <2>2. send_pc["parent"] = "gone"
    BY <1>1, <2>1 DEF Send!Hands, Send!Process
  <2>3. Send!Whole
    BY <1>1, <2>1, <2>2 DEF Send!Flow, Send!Process
  <2>4. u = send_output /\ y = <<>>
    <3>1. send_output \o <<>> = send_output /\ <<>> \o <<>> = <<>>
      BY <1>2, BytesJoin, BytesAre
    <3> QED
      BY <2>1, <2>3, <3>1 DEF Send!Whole
  <2>5. u \o y = Send!Input(InputLen) \o <<Send!Message>>
    BY <1>2, <2>3 DEF Send!Whole
  <2> HIDE DEF u, y
  <2>6. Front(u, InputLen) = Send!Input(InputLen)
    BY <1>1, <1>2, <2>4, <2>5, InOrder
  <2> QED
    BY <2>2, <2>4, <2>6
<1> QED
  BY <1>1, <1>4, <1>5, <1>6 DEF Send!CopySafety

(* A step that moves no byte keeps the stream.                             *)
LEMMA StreamStays ==
    ASSUME UNCHANGED <<read_in, send_pipe, buf, send_output>>
    PROVE  /\ Send!Stream' = Send!Stream /\ Send!Whole' = Send!Whole
           /\ Send!Input(read_in)' = Send!Input(read_in)
  BY DEF Send!Stream, Send!Whole, Send!Input

(* The parent puts bytes of its input into its buffer. *)
LEMMA ParentReadsKeeps ==
    ASSUME Send!IInv, Send!ParentReads
    PROVE  Send!IInv'
<1>1. Send!TypeOK /\ Send!Hands /\ Send!Flow
  BY DEF Send!IInv
<1>2. InputLen \in Nat /\ BufSize \in Nat /\ read_in \in Nat /\ read_in <= InputLen
  BY <1>1, BoundsAssumption DEF Send!TypeOK
<1>3. PICK n \in 1 .. Send!SmallerOf(BufSize, InputLen - read_in) :
         /\ buf' = [buf EXCEPT !["parent"] = [i \in 1 .. n |-> read_in + i]]
         /\ read_in' = read_in + n
  BY DEF Send!ParentReads
<1>4. n \in Nat /\ read_in + n <= InputLen /\ n <= BufSize
  BY <1>2, <1>3 DEF Send!SmallerOf
<1> DEFINE w == [i \in 1 .. n |-> read_in + i]
<1>5. /\ w \in Seq(0 .. InputLen) /\ Len(w) = n
      /\ Send!Input(read_in) \o w = Send!Input(read_in + n)
  <2>1. w \in Seq(0 .. InputLen) /\ Len(w) = n
    <3>1. \A i \in 1 .. n : read_in + i \in 0 .. InputLen
      BY <1>2, <1>4
    <3> QED
      BY <1>4, <3>1
  <2>2. Send!Input(read_in) \o w = Send!Input(read_in + n)
    BY <1>2, <1>4, NumbersOn DEF Send!Input
  <2> QED
    BY <2>1, <2>2
<1>6. buf' = [buf EXCEPT !["parent"] = w]
  BY <1>3
<1> HIDE DEF w
<1>7. /\ send_pc["parent"] = "copy" /\ buf["parent"] = <<>>
      /\ UNCHANGED <<send_pipe, read_end, send_write_end, send_pc, redirected, stdio,
                     send_output, output_open>>
  BY DEF Send!ParentReads, Send!Reading
<1>8. /\ buf \in [Send!Process -> Send!Bytes] /\ buf'["child"] = buf["child"] /\ buf'["parent"] = w
      /\ w \in Send!Bytes
  BY <1>1, <1>5, <1>6 DEF Send!TypeOK, Send!Process, Send!Bytes
<1>9. Send!TypeOK'
  <2>1. buf' \in [Send!Process -> Send!Bytes] /\ \A p \in Send!Process : Len(buf'[p]) <= BufSize
    BY <1>1, <1>4, <1>5, <1>6, <1>8 DEF Send!TypeOK, Send!Process
  <2>2. read_in' \in 0 .. InputLen
    BY <1>2, <1>3, <1>4
  <2> QED
    BY <1>1, <1>7, <2>1, <2>2 DEF Send!TypeOK, Send!Bytes
<1>10. Send!Hands'
  BY <1>1, <1>7, <1>8 DEF Send!Hands, Send!Process
<1>11. Send!Flow'
  <2>1. Send!Stream = Send!Input(read_in)
    BY <1>1, <1>7 DEF Send!Flow
  <2> DEFINE s == (send_output \o buf["child"]) \o send_pipe
  <2>2. s \in Send!Bytes /\ s \o buf["parent"] = Send!Stream
    <3>1. /\ send_pipe \in Send!Bytes /\ send_output \o buf["child"] \in Send!Bytes
      BY <1>1, StreamIsBytes
    <3>2. s \in Send!Bytes
      BY <3>1, BytesJoin
    <3> QED
      BY <3>2 DEF Send!Stream
  <2>3. Send!Stream' = s \o w
    BY <1>7, <1>8 DEF Send!Stream
  <2> HIDE DEF s
  <2>4. s \o <<>> = s
    BY <2>2, BytesJoin
  <2>5. Send!Stream' = Send!Input(read_in)'
    BY <1>3, <1>5, <1>7, <2>1, <2>2, <2>3, <2>4 DEF Send!Input
  <2> QED
    BY <1>1, <1>7, <1>8, <2>5 DEF Send!Flow
<1> QED
  BY <1>9, <1>10, <1>11 DEF Send!IInv

(* The child takes bytes from the pipe into its buffer. *)
LEMMA ChildReadsKeeps ==
    ASSUME Send!IInv, Send!ChildReads
    PROVE  Send!IInv'
<1>1. Send!TypeOK /\ Send!Hands /\ Send!Flow
  BY DEF Send!IInv
<1> DEFINE n == Send!SmallerOf(BufSize, Len(send_pipe))
<1>2. /\ BufSize \in Nat \ {0} /\ SendPipeSize \in Nat
      /\ send_pipe \in Send!Bytes /\ Len(send_pipe) \in Nat /\ Len(send_pipe) <= SendPipeSize
  BY <1>1, BoundsAssumption, LenProperties DEF Send!TypeOK, Send!Bytes
<1>3. n \in 0 .. Len(send_pipe) /\ n <= BufSize /\ Len(send_pipe) - n <= SendPipeSize
  BY <1>2 DEF Send!SmallerOf
<1>4. /\ buf' = [buf EXCEPT !["child"] = Front(send_pipe, n)]
      /\ send_pipe' = Rest(send_pipe, n)
  BY DEF Send!ChildReads, Send!Drop, Front, Rest
<1> HIDE DEF n
<1>5. /\ send_pc["child"] = "copy" /\ buf["child"] = <<>> /\ "child" \in redirected
      /\ UNCHANGED <<read_in, read_end, send_write_end, send_pc, redirected, stdio,
                     send_output, output_open>>
  BY DEF Send!ChildReads, Send!Reading
<1>6. /\ Front(send_pipe, n) \in Send!Bytes /\ Len(Front(send_pipe, n)) = n
      /\ Rest(send_pipe, n) \in Send!Bytes /\ Len(Rest(send_pipe, n)) = Len(send_pipe) - n
      /\ send_output \in Send!Bytes
      /\ (send_output \o Front(send_pipe, n)) \o Rest(send_pipe, n) = send_output \o send_pipe
      /\ send_output \o <<>> = send_output
  <2>1. send_output \in Send!Bytes
    BY <1>1 DEF Send!TypeOK
  <2> QED
    BY <1>2, <1>3, <2>1, BytesMoved, BytesJoin
<1>7. /\ buf \in [Send!Process -> Send!Bytes] /\ buf'["parent"] = buf["parent"]
      /\ buf'["child"] = Front(send_pipe, n)
  BY <1>1, <1>4 DEF Send!TypeOK, Send!Process
<1>8. Send!TypeOK'
  <2>1. buf' \in [Send!Process -> Send!Bytes] /\ \A p \in Send!Process : Len(buf'[p]) <= BufSize
    BY <1>1, <1>3, <1>4, <1>6, <1>7 DEF Send!TypeOK, Send!Process
  <2>2. send_pipe' \in Send!Bytes /\ Len(send_pipe') <= SendPipeSize
    BY <1>3, <1>4, <1>6
  <2> QED
    BY <1>1, <1>5, <2>1, <2>2 DEF Send!TypeOK, Send!Bytes
<1>9. Send!Hands'
  <2>1. "parent" \notin redirected => FALSE
    BY <1>1, <1>5 DEF Send!Hands, Send!ChildReads
  <2> QED
    BY <1>1, <1>5, <1>7, <2>1 DEF Send!Hands, Send!Process
<1>10. Send!Flow'
  <2>1. Send!Stream' = Send!Stream
    BY <1>4, <1>5, <1>6, <1>7 DEF Send!Stream
  <2>2. Send!Whole' = Send!Whole /\ Send!Input(read_in)' = Send!Input(read_in)
    BY <1>5, <1>7, <2>1 DEF Send!Whole, Send!Input
  <2> QED
    BY <1>1, <1>5, <1>7, <2>1, <2>2 DEF Send!Flow
<1> QED
  BY <1>8, <1>9, <1>10 DEF Send!IInv

(* The parent puts bytes of its buffer into the pipe. *)
LEMMA ParentWritesKeeps ==
    ASSUME Send!IInv, Send!ParentWrites
    PROVE  Send!IInv'
<1>1. Send!TypeOK /\ Send!Hands /\ Send!Flow
  BY DEF Send!IInv
<1>2. /\ SendPipeSize \in Nat /\ BufSize \in Nat
      /\ send_pipe \in Send!Bytes /\ Len(send_pipe) \in Nat /\ Len(send_pipe) <= SendPipeSize
      /\ buf["parent"] \in Send!Bytes /\ Len(buf["parent"]) \in Nat /\ Len(buf["parent"]) <= BufSize
  BY <1>1, BoundsAssumption, LenProperties DEF Send!TypeOK, Send!Bytes, Send!Process
<1>3. PICK n \in 1 .. Send!SmallerOf(Len(buf["parent"]), SendPipeSize - Len(send_pipe)) :
         /\ send_pipe' = send_pipe \o Front(buf["parent"], n)
         /\ buf' = [buf EXCEPT !["parent"] = Rest(@, n)]
  BY DEF Send!ParentWrites, Send!Drop, Front, Rest
<1>4. /\ n \in 0 .. Len(buf["parent"]) /\ Len(send_pipe) + n <= SendPipeSize
      /\ Len(buf["parent"]) - n <= BufSize
  BY <1>2, <1>3 DEF Send!SmallerOf
<1>5. /\ send_pc["parent"] = "copy" /\ "parent" \in redirected
      /\ UNCHANGED <<read_in, read_end, send_write_end, send_pc, redirected, stdio,
                     send_output, output_open>>
  BY DEF Send!ParentWrites
<1>6. PICK b \in Send!Bytes : b = buf["parent"]
  BY <1>2
<1>7. /\ Front(b, n) \in Send!Bytes /\ Len(Front(b, n)) = n
      /\ Rest(b, n) \in Send!Bytes /\ Len(Rest(b, n)) = Len(b) - n
  BY <1>4, <1>6, BytesMoved
<1>8. /\ send_pipe \o Front(b, n) \in Send!Bytes
      /\ Len(send_pipe \o Front(b, n)) = Len(send_pipe) + n
  <2>1. Len(send_pipe \o Front(b, n)) = Len(send_pipe) + Len(Front(b, n))
    BY <1>2, <1>7, BytesJoin
  <2> QED
    BY <1>2, <1>7, <2>1, BytesJoin
<1>9. /\ buf \in [Send!Process -> Send!Bytes] /\ buf'["child"] = buf["child"]
      /\ buf' = [buf EXCEPT !["parent"] = Rest(b, n)] /\ buf'["parent"] = Rest(b, n)
  BY <1>1, <1>3, <1>6 DEF Send!TypeOK, Send!Process
<1>10. Send!TypeOK'
  <2>1. buf' \in [Send!Process -> Send!Bytes] /\ \A p \in Send!Process : Len(buf'[p]) <= BufSize
    BY <1>1, <1>4, <1>6, <1>7, <1>9 DEF Send!TypeOK, Send!Process
  <2>2. send_pipe' \in Send!Bytes /\ Len(send_pipe') <= SendPipeSize
    BY <1>3, <1>4, <1>6, <1>8
  <2> QED
    BY <1>1, <1>5, <2>1, <2>2 DEF Send!TypeOK, Send!Bytes
<1>11. Send!Hands'
  BY <1>1, <1>5, <1>9 DEF Send!Hands, Send!Process
<1>12. Send!Flow'
  <2>1. PICK u \in Send!Bytes : u = send_output \o buf["child"]
    BY <1>1, StreamIsBytes
  <2>2. (u \o (send_pipe \o Front(b, n))) \o Rest(b, n) = (u \o send_pipe) \o b
    <3>1. n \in 0 .. Len(b) /\ send_pipe \in Send!Bytes
      BY <1>2, <1>4, <1>6
    <3> QED
      BY <3>1, BytesPassed, ZenonT(30)
  <2>3. Send!Stream' = Send!Stream
    BY <1>3, <1>5, <1>6, <1>9, <2>1, <2>2 DEF Send!Stream
  <2>4. Send!Input(read_in)' = Send!Input(read_in)
    BY <1>5 DEF Send!Input
  <2>5. "child" \in redirected => send_pc["child"] # "exit"
    BY <1>1, <1>5 DEF Send!Hands, Send!Flow
  <2> QED
    BY <1>1, <1>5, <1>9, <2>3, <2>4, <2>5 DEF Send!Flow
<1> QED
  BY <1>10, <1>11, <1>12 DEF Send!IInv

(* The child puts bytes of its buffer on the standard output. *)
LEMMA ChildWritesKeeps ==
    ASSUME Send!IInv, Send!ChildWrites
    PROVE  Send!IInv'
<1>1. Send!TypeOK /\ Send!Hands /\ Send!Flow
  BY DEF Send!IInv
<1>2. /\ BufSize \in Nat /\ send_output \in Send!Bytes
      /\ buf["child"] \in Send!Bytes /\ Len(buf["child"]) \in Nat /\ Len(buf["child"]) <= BufSize
  BY <1>1, BoundsAssumption, LenProperties DEF Send!TypeOK, Send!Bytes, Send!Process
<1>3. PICK n \in 1 .. Len(buf["child"]) :
         /\ send_output' = send_output \o Front(buf["child"], n)
         /\ buf' = [buf EXCEPT !["child"] = Rest(@, n)]
  BY DEF Send!ChildWrites, Send!Drop, Front, Rest
<1>4. n \in 0 .. Len(buf["child"]) /\ Len(buf["child"]) - n <= BufSize /\ Len(buf["child"]) # 0
  BY <1>2, <1>3
<1>5. /\ send_pc["child"] = "copy" /\ buf["child"] # <<>>
      /\ UNCHANGED <<read_in, send_pipe, read_end, send_write_end, send_pc, redirected,
                     stdio, output_open>>
  BY <1>4, BytesAre DEF Send!ChildWrites
<1>6. PICK b \in Send!Bytes : b = buf["child"]
  BY <1>2
<1>7. /\ Front(b, n) \in Send!Bytes
      /\ Rest(b, n) \in Send!Bytes /\ Len(Rest(b, n)) = Len(b) - n
      /\ (send_output \o Front(b, n)) \o Rest(b, n) = send_output \o b
  BY <1>2, <1>4, <1>6, BytesMoved, ZenonT(30)
<1>8. send_output \o Front(b, n) \in Send!Bytes
  BY <1>2, <1>7, BytesJoin
<1>9. /\ buf \in [Send!Process -> Send!Bytes] /\ buf'["parent"] = buf["parent"]
      /\ buf' = [buf EXCEPT !["child"] = Rest(b, n)] /\ buf'["child"] = Rest(b, n)
  BY <1>1, <1>3, <1>6 DEF Send!TypeOK, Send!Process
<1>10. Send!TypeOK'
  <2>1. buf' \in [Send!Process -> Send!Bytes] /\ \A p \in Send!Process : Len(buf'[p]) <= BufSize
    BY <1>1, <1>4, <1>6, <1>7, <1>9 DEF Send!TypeOK, Send!Process
  <2>2. send_output' \in Send!Bytes
    BY <1>3, <1>6, <1>8
  <2> QED
    BY <1>1, <1>5, <2>1, <2>2 DEF Send!TypeOK, Send!Bytes
<1>11. Send!Hands'
  BY <1>1, <1>5, <1>9 DEF Send!Hands, Send!Process
<1>12. Send!Flow'
  <2>1. Send!Stream' = Send!Stream
    BY <1>3, <1>5, <1>6, <1>7, <1>9 DEF Send!Stream
  <2>2. Send!Whole' = Send!Whole /\ Send!Input(read_in)' = Send!Input(read_in)
    BY <1>5, <1>9, <2>1 DEF Send!Whole, Send!Input
  <2> QED
    BY <1>1, <1>5, <1>9, <2>1, <2>2 DEF Send!Flow
<1> QED
  BY <1>10, <1>11, <1>12 DEF Send!IInv

(* The parent leaves, and what stdio has kept goes onto the pipe. *)
LEMMA ParentExitsKeeps ==
    ASSUME Send!IInv, Send!ParentExits
    PROVE  Send!IInv'
<1>1. Send!TypeOK /\ Send!Hands /\ Send!Flow
  BY DEF Send!IInv
<1>2. /\ SendPipeSize \in Nat /\ send_pipe \in Send!Bytes /\ Len(send_pipe) \in Nat
      /\ buf["parent"] \in Send!Bytes
  BY <1>1, BoundsAssumption, LenProperties DEF Send!TypeOK, Send!Bytes, Send!Process
<1>3. /\ send_pc["parent"] = "exit" /\ send_pc' = [send_pc EXCEPT !["parent"] = "gone"]
      /\ read_end' = read_end \ {"parent"} /\ send_write_end' = send_write_end \ {"parent"}
      /\ send_pipe' = send_pipe \o stdio["parent"]
      /\ stdio["parent"] # <<>> => Len(send_pipe) < SendPipeSize
      /\ UNCHANGED <<read_in, buf, redirected, stdio, send_output, output_open>>
  BY DEF Send!ParentExits, Send!Gone, Send!Goto
<1>4. /\ send_pc'["parent"] = "gone" /\ send_pc'["child"] = send_pc["child"]
      /\ send_pc' \in [Send!Process -> {"none", "fork", "redirect", "copy", "exit", "gone"}]
  BY <1>1, <1>3 DEF Send!TypeOK, Send!Process
<1>5. /\ "parent" \in redirected => stdio["parent"] = <<Send!Message>>
      /\ "parent" \notin redirected => stdio["parent"] = <<>> /\ send_pipe = <<>>
  BY <1>1 DEF Send!Hands, Send!Process
<1>6. /\ "parent" \in redirected => send_pipe' = send_pipe \o <<Send!Message>>
      /\ "parent" \notin redirected => send_pipe' = send_pipe
  <2>1. send_pipe \o <<>> = send_pipe
    BY <1>2, BytesJoin
  <2> QED
    BY <1>3, <1>5, <2>1
<1>7. /\ <<Send!Message>> \in Send!Bytes /\ <<Send!Message>> # <<>>
      /\ Len(send_pipe \o <<Send!Message>>) = Len(send_pipe) + 1
      /\ send_pipe \o <<Send!Message>> \in Send!Bytes
  <2>1. <<Send!Message>> \in Send!Bytes /\ <<Send!Message>> # <<>> /\ Len(<<Send!Message>>) = 1
    BY BytesAre
  <2> HIDE DEF Send!Message
  <2>2. Len(send_pipe \o <<Send!Message>>) = Len(send_pipe) + Len(<<Send!Message>>)
    BY <1>2, <2>1, BytesJoin
  <2>3. send_pipe \o <<Send!Message>> \in Send!Bytes
    BY <1>2, <2>1, BytesJoin
  <2> QED
    BY <2>1, <2>2, <2>3
<1>8. Send!TypeOK'
  <2>1. send_pipe' \in Send!Bytes /\ Len(send_pipe') <= SendPipeSize
    <3>1. CASE "parent" \in redirected
      <4>1. Len(send_pipe) < SendPipeSize
        BY <1>3, <1>5, <1>7, <3>1, Zenon
      <4>2. Len(send_pipe) + 1 <= SendPipeSize
        BY <1>2, <4>1
      <4> QED
        BY <1>6, <1>7, <3>1, <4>2, Zenon
    <3>2. CASE "parent" \notin redirected
      BY <1>1, <1>6, <3>2 DEF Send!TypeOK
    <3> QED
      BY <3>1, <3>2
  <2> QED
    BY <1>1, <1>3, <1>4, <2>1 DEF Send!TypeOK, Send!Bytes, Send!Process
<1>9. Send!Hands'
  BY <1>1, <1>3, <1>4, <1>5, <1>6 DEF Send!Hands, Send!Process
<1>10. Send!Flow'
  <2>1. Send!Stream = Send!Input(read_in) /\ Send!Input(read_in)' = Send!Input(read_in)
    BY <1>1, <1>3 DEF Send!Flow, Send!Input
  <2>2. ASSUME "parent" \in redirected
        PROVE  Send!Whole' /\ ("child" \in redirected => send_pc["child"] # "exit")
    <3>1. read_in = InputLen /\ buf["parent"] = <<>>
      BY <1>1, <1>3, <2>2 DEF Send!Flow
    <3>2. PICK u \in Send!Bytes : u = send_output \o buf["child"]
      BY <1>1, StreamIsBytes
    <3>3. (u \o send_pipe) \o <<Send!Message>> = u \o (send_pipe \o <<Send!Message>>)
      BY <1>2, <1>7, BytesAssociative
    <3>4. (u \o send_pipe) \o <<>> = u \o send_pipe
      <4>1. u \o send_pipe \in Send!Bytes
        BY <1>2, BytesJoin
      <4> QED
        BY <4>1, BytesJoin
    <3>5. (u \o (send_pipe \o <<Send!Message>>)) \o <<>> = u \o (send_pipe \o <<Send!Message>>)
      <4>1. u \o (send_pipe \o <<Send!Message>>) \in Send!Bytes
        BY <1>7, BytesJoin
      <4> QED
        BY <4>1, BytesJoin
    <3>6. Send!Stream = u \o send_pipe
      BY <3>1, <3>2, <3>4 DEF Send!Stream
    <3>7. Send!Stream' = u \o (send_pipe \o <<Send!Message>>)
      BY <1>3, <1>6, <2>2, <3>1, <3>2, <3>5 DEF Send!Stream
    <3>8. Send!Stream' = Send!Input(InputLen) \o <<Send!Message>>
      BY <2>1, <3>1, <3>3, <3>6, <3>7
    <3>9. "child" \in redirected => send_pc["child"] # "exit"
      BY <1>1, <1>3, <2>2 DEF Send!Hands, Send!Flow
    <3> QED
      BY <1>3, <3>1, <3>8, <3>9 DEF Send!Whole, Send!Input, Send!Message
  <2>3. ASSUME "parent" \notin redirected
        PROVE  Send!Stream' = Send!Stream
    BY <1>3, <1>6, <2>3 DEF Send!Stream
  <2>4. send_pc["child"] = "exit" => buf["child"] = <<>>
    BY <1>1 DEF Send!Flow
  <2>5. CASE "parent" \in redirected
    BY <1>1, <1>3, <1>4, <2>2, <2>4, <2>5 DEF Send!Flow
  <2>6. CASE "parent" \notin redirected
    BY <1>1, <1>3, <1>4, <1>6, <2>1, <2>3, <2>4, <2>6 DEF Send!Flow
  <2> QED
    BY <2>5, <2>6
<1> QED
  BY <1>8, <1>9, <1>10 DEF Send!IInv

(* The steps that move no byte: forks, redirections and ends. *)
LEMMA QuietKeeps ==
    ASSUME Send!IInv, UNCHANGED <<read_in, send_pipe, buf, send_output>>,
           \/ Send!Fork \/ Send!ForkFails \/ Send!ParentWriteFails \/ Send!ChildExits
           \/ Send!OutputCloses \/ UNCHANGED Send!vars
           \/ \E p \in Send!Process : Send!Step(p)
    PROVE  Send!IInv'
<1>1. Send!TypeOK /\ Send!Hands /\ Send!Flow
  BY DEF Send!IInv
<1>2. /\ Send!Stream' = Send!Stream /\ Send!Whole' = Send!Whole
      /\ Send!Input(read_in)' = Send!Input(read_in)
  BY StreamStays
<1>3. ASSUME Send!TypeOK', Send!Hands', Send!Flow' PROVE Send!IInv'
  BY <1>3 DEF Send!IInv
<1>4. CASE Send!Fork
  <2>1. Send!TypeOK'
    BY <1>1, <1>4 DEF Send!Fork, Send!TypeOK, Send!Process, Send!Bytes
  <2>2. Send!Hands'
    BY <1>1, <1>4 DEF Send!Fork, Send!Hands, Send!Process
  <2>3. Send!Flow'
    BY <1>1, <1>2, <1>4 DEF Send!Fork, Send!Flow, Send!Process
  <2> QED
    BY <1>3, <2>1, <2>2, <2>3
<1> USE DEF Send!Goto
<1>5. CASE Send!ForkFails
  <2>1. Send!TypeOK'
    BY <1>1, <1>5 DEF Send!ForkFails, Send!TypeOK, Send!Process, Send!Bytes
  <2>2. Send!Hands'
    BY <1>1, <1>5 DEF Send!ForkFails, Send!Hands, Send!Process, Send!TypeOK
  <2>3. Send!Flow'
    BY <1>1, <1>2, <1>5 DEF Send!ForkFails, Send!Flow, Send!Process, Send!TypeOK
  <2> QED
    BY <1>3, <2>1, <2>2, <2>3
<1>6. CASE Send!ParentWriteFails
  <2>1. Send!TypeOK'
    BY <1>1, <1>6 DEF Send!ParentWriteFails, Send!TypeOK, Send!Process, Send!Bytes
  <2>2. Send!Hands'
    BY <1>1, <1>6 DEF Send!ParentWriteFails, Send!Hands, Send!Process, Send!TypeOK
  <2>3. Send!Flow'
    BY <1>1, <1>2, <1>6 DEF Send!ParentWriteFails, Send!Flow, Send!Process, Send!TypeOK
  <2> QED
    BY <1>3, <2>1, <2>2, <2>3
<1>7. CASE Send!ChildExits
  <2>1. Send!TypeOK'
    BY <1>1, <1>7 DEF Send!ChildExits, Send!Gone, Send!TypeOK, Send!Process, Send!Bytes
  <2>2. Send!Hands'
    BY <1>1, <1>7 DEF Send!ChildExits, Send!Gone, Send!Hands, Send!Process, Send!TypeOK
  <2>3. Send!Flow'
    BY <1>1, <1>2, <1>7 DEF Send!ChildExits, Send!Gone, Send!Flow, Send!Process, Send!TypeOK
  <2> QED
    BY <1>3, <2>1, <2>2, <2>3
<1>8. CASE Send!OutputCloses \/ UNCHANGED Send!vars
  <2>1. Send!TypeOK'
    BY <1>1, <1>8 DEF Send!OutputCloses, Send!vars, Send!TypeOK, Send!Bytes
  <2>2. Send!Hands'
    BY <1>1, <1>8 DEF Send!OutputCloses, Send!vars, Send!Hands
  <2>3. Send!Flow'
    BY <1>1, <1>2, <1>8 DEF Send!OutputCloses, Send!vars, Send!Flow
  <2> QED
    BY <1>3, <2>1, <2>2, <2>3
<1>9. ASSUME NEW p \in Send!Process, Send!Redirect(p) \/ Send!RedirectFails(p)
      PROVE  Send!IInv'
  <2>1. stdio' = [stdio EXCEPT ![p] = @ \o (IF p = "parent" /\ p \in redirected'
                                            THEN <<Send!Message>> ELSE <<>>)]
    <3>1. Send!CheckDup2(1) = <<Send!Message>> /\ Send!CheckDup2(0) = <<>> /\ Send!CheckDup2(-1) = <<>>
      BY DEF Send!CheckDup2
    <3>2. CASE Send!Redirect(p)
      <4>1. /\ p \in redirected'
            /\ stdio' = [stdio EXCEPT ![p] = @ \o Send!CheckDup2(IF p = "parent" THEN 1 ELSE 0)]
        BY <3>2 DEF Send!Redirect
      <4> QED
        BY <3>1, <4>1, Zenon
    <3>3. CASE Send!RedirectFails(p)
      <4>1. p \notin redirected' /\ stdio' = [stdio EXCEPT ![p] = @ \o Send!CheckDup2(-1)]
        BY <1>1, <3>3 DEF Send!RedirectFails, Send!Hands
      <4> QED
        BY <3>1, <4>1, Zenon
    <3> QED
      BY <1>9, <3>2, <3>3
  <2>2. /\ stdio[p] = <<>>
        /\ <<>> \o <<Send!Message>> = <<Send!Message>> /\ <<>> \o <<>> = <<>>
    BY <1>1, <1>9, BytesAre, BytesJoin DEF Send!Redirect, Send!RedirectFails, Send!Hands
  <2>3. /\ send_pc[p] = "redirect" /\ send_pc' = [send_pc EXCEPT ![p] = "copy"]
        /\ redirected' \in {redirected, redirected \cup {p}}
        /\ UNCHANGED output_open
    BY <1>9 DEF Send!Redirect, Send!RedirectFails
  <2>4. stdio' = [q \in Send!Process |-> IF q = "parent" /\ q \in redirected'
                                         THEN <<Send!Message>> ELSE <<>>]
    BY <1>1, <2>1, <2>2, <2>3 DEF Send!Hands, Send!Process
  <2>5. /\ read_end' \in {read_end, read_end \ {p}}
        /\ send_write_end' \in {send_write_end, send_write_end \ {p}}
        /\ p \in redirected' /\ p = "parent" => send_write_end' = send_write_end
        /\ p \in redirected' /\ p = "child" => read_end' = read_end
    BY <1>1, <1>9 DEF Send!Redirect, Send!RedirectFails, Send!Keeps, Send!Hands
  <2>6. /\ send_pc'[p] = "copy" /\ \A q \in Send!Process \ {p} : send_pc'[q] = send_pc[q]
        /\ send_pc' \in [Send!Process -> {"none", "fork", "redirect", "copy", "exit", "gone"}]
    BY <1>1, <2>3 DEF Send!TypeOK
  <2>7. Send!TypeOK'
    BY <1>1, <2>3, <2>4, <2>5, <2>6 DEF Send!TypeOK, Send!Process, Send!Bytes
  <2>8. Send!Hands'
    BY <1>1, <2>3, <2>4, <2>5, <2>6 DEF Send!Hands, Send!Process
  <2>9. Send!Flow'
    BY <1>1, <1>2, <2>3, <2>5, <2>6 DEF Send!Flow, Send!Hands, Send!Process
  <2> QED
    BY <1>3, <2>7, <2>8, <2>9
<1>10. ASSUME NEW p \in Send!Process, Send!ReadEnds(p)
       PROVE  Send!IInv'
  <2>1. /\ send_pc[p] = "copy" /\ send_pc' = [send_pc EXCEPT ![p] = "exit"]
        /\ buf[p] = <<>> /\ p = "parent" => read_in = InputLen
        /\ p = "child" /\ p \in redirected => send_pipe = <<>> /\ send_write_end = {}
        /\ UNCHANGED <<read_end, send_write_end, redirected, stdio, output_open>>
    BY <1>10 DEF Send!ReadEnds, Send!Reading
  <2>2. /\ send_pc'[p] = "exit" /\ \A q \in Send!Process \ {p} : send_pc'[q] = send_pc[q]
        /\ send_pc' \in [Send!Process -> {"none", "fork", "redirect", "copy", "exit", "gone"}]
    BY <1>1, <2>1 DEF Send!TypeOK
  <2>3. Send!TypeOK'
    BY <1>1, <2>1, <2>2 DEF Send!TypeOK, Send!Bytes
  <2>4. Send!Hands'
    BY <1>1, <2>1, <2>2 DEF Send!Hands, Send!Process
  <2>5. Send!Flow'
    BY <1>1, <1>2, <1>10, <2>1, <2>2 DEF Send!Flow, Send!Process, Send!ReadEnds, Send!Reading
  <2> QED
    BY <1>3, <2>3, <2>4, <2>5
<1>11. ASSUME NEW p \in Send!Process, Send!KilledByPipe(p)
       PROVE  Send!IInv'
  <2>1. /\ send_pc[p] \in {"copy", "exit"} /\ send_pc' = [send_pc EXCEPT ![p] = "gone"]
        /\ read_end' = read_end \ {p} /\ send_write_end' = send_write_end \ {p}
        /\ p = "parent" => read_end = {}
        /\ UNCHANGED <<redirected, stdio, output_open>>
    BY <1>11 DEF Send!KilledByPipe, Send!Gone
  <2>2. /\ send_pc'[p] = "gone" /\ \A q \in Send!Process \ {p} : send_pc'[q] = send_pc[q]
        /\ send_pc' \in [Send!Process -> {"none", "fork", "redirect", "copy", "exit", "gone"}]
    BY <1>1, <2>1 DEF Send!TypeOK
  <2>3. Send!TypeOK'
    BY <1>1, <2>1, <2>2 DEF Send!TypeOK, Send!Bytes
  <2>4. Send!Hands'
    BY <1>1, <2>1, <2>2 DEF Send!Hands, Send!Process
  <2>5. Send!Flow'
    BY <1>1, <1>2, <2>1, <2>2 DEF Send!Flow, Send!Process
  <2> QED
    BY <1>3, <2>3, <2>4, <2>5
<1> QED
  BY <1>4, <1>5, <1>6, <1>7, <1>8, <1>9, <1>10, <1>11 DEF Send!Step

(* Every step keeps the bytes in order and loses none. *)
LEMMA SendNext ==
    ASSUME Send!IInv, [Send!Next]_(Send!vars)
    PROVE  Send!IInv'
<1>1. CASE UNCHANGED <<read_in, send_pipe, buf, send_output>> /\
           (\/ Send!Fork \/ Send!ForkFails \/ Send!ParentWriteFails \/ Send!ChildExits
            \/ Send!OutputCloses \/ UNCHANGED Send!vars
            \/ \E p \in Send!Process : Send!Step(p))
  BY <1>1, QuietKeeps
<1>2. CASE Send!ParentReads \/ Send!ChildReads \/ Send!ParentWrites \/ Send!ChildWrites
           \/ Send!ParentExits
  BY <1>2, ParentReadsKeeps, ChildReadsKeeps, ParentWritesKeeps, ChildWritesKeeps, ParentExitsKeeps
<1>3. \/ Send!Fork \/ Send!ForkFails \/ Send!ParentWriteFails \/ Send!ChildExits
      \/ Send!OutputCloses \/ UNCHANGED Send!vars
      \/ \E p \in Send!Process : Send!Step(p)
      \/ Send!ParentReads \/ Send!ChildReads \/ Send!ParentWrites \/ Send!ChildWrites
      \/ Send!ParentExits
  BY DEF Send!Next, Send!Parent, Send!Child, Send!Process
<1>4. ASSUME \/ Send!Fork \/ Send!ForkFails \/ Send!ParentWriteFails \/ Send!ChildExits
             \/ Send!OutputCloses \/ UNCHANGED Send!vars
             \/ \E p \in Send!Process : Send!Step(p)
      PROVE  UNCHANGED <<read_in, send_pipe, buf, send_output>>
  BY <1>4 DEF Send!Fork, Send!ForkFails, Send!ParentWriteFails, Send!ChildExits,
     Send!OutputCloses, Send!vars, Send!Step, Send!Redirect, Send!RedirectFails,
     Send!ReadEnds, Send!KilledByPipe
<1> QED
  BY <1>1, <1>2, <1>3, <1>4

(* pipe-send copies its input in order and once, and the whole of it where *)
(* the child sees the end of the pipe: for any input, pipe and buffer      *)
(* sizes, wherever the reads and writes cut it, whichever fork or dup2     *)
(* fails and whoever is killed.                                            *)
THEOREM CopiesAll == AnySpec => []CopySafety
<1>1. AnyInit => Send!IInv
  BY SendInit DEF AnyInit
<1>2. Send!IInv /\ [AnyNext]_allVars => Send!IInv'
  BY EachProgramSteps, SendNext
<1>3. Send!IInv => CopySafety
  BY SendIsSafe DEF CopySafety
<1> QED
  BY <1>1, <1>2, <1>3, PTL DEF AnySpec

-------------------------------------------------------------------------------
(***************************************************************************)
(* The divisors: numbers, their divisors and the shares of the children    *)
(***************************************************************************)

(* Where the square of the greater of two numbers is. *)
LEMMA Squares ==
    ASSUME NEW a \in Nat, NEW b \in Nat, a < b
    PROVE  a * a < b * b /\ (0 < a => a * a < a * b)
<1>1. 0 <= b - a /\ b * b - a * a = (b - a) * (b - a) + 2 * (a * (b - a))
  OBVIOUS
<1>2. (b - a) * (b - a) > 0 /\ a * (b - a) >= 0
  OBVIOUS
<1>3. 0 < a => a * (b - a) > 0
  OBVIOUS
<1>4. a * b = a * a + a * (b - a)
  OBVIOUS
<1>5. a * a \in Int /\ b * b \in Int /\ a * b \in Int /\ a * (b - a) \in Int
  OBVIOUS
<1> QED
  BY <1>1, <1>2, <1>3, <1>4, <1>5

(* Counting on from every root that is too small would never end. *)
LEMMA SquareRoot ==
    ASSUME NEW v \in Nat
    PROVE  /\ IntSqrt(v) \in 0 .. v
           /\ IntSqrt(v) * IntSqrt(v) <= v
           /\ (IntSqrt(v) + 1) * (IntSqrt(v) + 1) > v
<1>1. \E r \in 0 .. v : r * r <= v /\ (r + 1) * (r + 1) > v
  <2> SUFFICES ASSUME \A r \in 0 .. v : r * r <= v => (r + 1) * (r + 1) <= v
               PROVE  FALSE
    <3>1. \A r \in 0 .. v : r * r \in Int /\ (r + 1) * (r + 1) \in Int
      OBVIOUS
    <3>2. \A r \in 0 .. v : ~((r + 1) * (r + 1) > v) <=> (r + 1) * (r + 1) <= v
      OBVIOUS
    <3> QED
      BY <3>2, Zenon
  <2> DEFINE S == {r \in 0 .. v : r * r <= v}
             f == [r \in S |-> r + 1]
  <2>1. IsFiniteSet(S)
    <3>1. S \in SUBSET (0 .. v) /\ 0 \in Int /\ v \in Int
      OBVIOUS
    <3> QED
      BY <3>1, FS_Interval, FS_Subset
  <2>2. \A r \in S : r \in Nat /\ r + 1 \in S
    <3> SUFFICES ASSUME NEW r \in 0 .. v, r * r <= v PROVE r + 1 \in 0 .. v /\ (r + 1) * (r + 1) <= v
      OBVIOUS
    <3>1. (r + 1) * (r + 1) <= v
      OBVIOUS
    <3>2. r + 1 <= (r + 1) * (r + 1)
      <4>1. (r + 1) * (r + 1) = r * (r + 1) + (r + 1) /\ r * (r + 1) >= 0
        OBVIOUS
      <4> QED
        BY <4>1
    <3> QED
      BY <3>1, <3>2
  <2>3. 0 \in S
    OBVIOUS
  <2> HIDE DEF S
  <2>4. f \in Injection(S, S)
    BY <2>2 DEF Injection, IsInjective
  <2>5. f \in Surjection(S, S)
    BY <2>1, <2>4, FS_Injection
  <2>6. PICK r \in S : f[r] = 0
    BY <2>3, <2>5 DEF Surjection
  <2> QED
    BY <2>2, <2>6
<1> QED
  BY <1>1 DEF IntSqrt

(* The shares are long enough, together, for every candidate. *)
LEMMA Steps ==
    ASSUME NEW v \in Nat
    PROVE  /\ StepSize(v) \in Nat /\ StepSize(v) > 0
           /\ StepSize(v) * THREADS > IntSqrt(v)
<1>1. THREADS \in Nat /\ THREADS > 0 /\ IntSqrt(v) \in Nat
  BY InputAssumption, SquareRoot
<1> DEFINE q == IntSqrt(v) + 1
           s == (q + THREADS - 1) \div THREADS
<1>2. q \in Nat /\ q > 0
  BY <1>1
<1> HIDE DEF q
<1>3. s \in Int /\ q + THREADS - 1 = THREADS * s + ((q + THREADS - 1) % THREADS)
      /\ (q + THREADS - 1) % THREADS \in 0 .. THREADS - 1
  BY <1>1, <1>2
<1>4. s * THREADS >= q
  <2>1. s * THREADS = THREADS * s /\ THREADS * s \in Int
    BY <1>1, <1>3
  <2> QED
    BY <1>1, <1>2, <1>3, <2>1
<1>5. s > 0
  <2> HIDE DEF s
  <2> SUFFICES ASSUME s <= 0 PROVE FALSE
    BY <1>3
  <2>1. s * THREADS <= 0
    BY <1>1, <1>3
  <2> QED
    BY <1>1, <1>2, <1>3, <1>4, <2>1
<1> QED
  BY <1>1, <1>3, <1>4, <1>5 DEF StepSize, SqrtPart, q

(* A candidate is no greater than the root. *)
LEMMA CandidatesToRoot ==
    ASSUME NEW v \in Nat, NEW d \in SmallDivisors(v)
    PROVE  d \in Nat /\ d >= 2 /\ d <= IntSqrt(v)
<1>1. d \in Nat /\ d >= 2 /\ d * d <= v
  BY DEF SmallDivisors
<1>2. IntSqrt(v) \in Nat /\ (IntSqrt(v) + 1) * (IntSqrt(v) + 1) > v
  BY SquareRoot
<1> DEFINE q == IntSqrt(v)
<1> HIDE DEF q
<1>3. ASSUME q + 1 <= d PROVE FALSE
  <2>1. q + 1 \in Nat /\ q \in Nat
    BY <1>2 DEF q
  <2>2. q + 1 = d \/ q + 1 < d
    BY <1>1, <1>3, <2>1
  <2>3. (q + 1) * (q + 1) <= d * d
    BY <1>1, <2>1, <2>2, Squares
  <2>4. (q + 1) * (q + 1) > v /\ (q + 1) * (q + 1) \in Nat /\ d * d \in Nat
    BY <1>1, <1>2, <2>1 DEF q
  <2> QED
    BY <1>1, <2>3, <2>4
<1> QED
  BY <1>1, <1>2, <1>3 DEF q

(* The share that n times a step falls in. *)
LEMMA OneStep ==
    ASSUME NEW s \in Nat, s > 0, NEW t \in Nat, NEW d \in Nat, d < s * t
    PROVE  \E j \in 0 .. t - 1 : \A k \in 0 .. t - 1 : (s * k <= d /\ d < s * (k + 1)) <=> k = j
<1> DEFINE j == d \div s
<1>1. j \in Int /\ d = s * j + (d % s) /\ d % s \in 0 .. s - 1 /\ j >= 0
  OBVIOUS
<1> HIDE DEF j
<1>2. s * j \in Int /\ s * (j + 1) = s * j + s
  BY <1>1
<1>3. s * j <= d /\ d < s * (j + 1)
  BY <1>1, <1>2
<1>4. ASSUME NEW a \in Nat, NEW b \in Nat, a < b
      PROVE  s * (a + 1) <= s * b
  <2>1. s * b = s * (a + 1) + s * (b - (a + 1)) /\ s * (b - (a + 1)) >= 0
    BY <1>4
  <2>2. s * b \in Int /\ s * (a + 1) \in Int
    OBVIOUS
  <2> QED
    BY <2>1, <2>2
<1>5. j < t
  <2> SUFFICES ASSUME t <= j PROVE FALSE
    BY <1>1
  <2>1. s * j = s * t + s * (j - t) /\ s * (j - t) >= 0
    BY <1>1
  <2>2. s * t \in Int /\ s * (j - t) \in Int /\ s * j \in Int
    BY <1>1
  <2> QED
    BY ONLY d \in Nat, d < s * t, <1>3, <2>1, <2>2
<1>6. ASSUME NEW k \in 0 .. t - 1, s * k <= d, d < s * (k + 1) PROVE k = j
  <2>1. k \in Nat /\ j \in Nat /\ s * k \in Int /\ s * (k + 1) \in Int
    BY <1>1
  <2>2. ~(k < j)
    BY <1>2, <1>3, <1>4, <1>6, <2>1
  <2>3. ~(j < k)
    BY <1>2, <1>3, <1>4, <1>6, <2>1
  <2> QED
    BY <2>1, <2>2, <2>3
<1>7. j \in 0 .. t - 1
  BY <1>1, <1>5
<1> QED
  BY <1>3, <1>6, <1>7, Zenon

(* A share is of numbers from 2 on. *)
LEMMA ShareBounds ==
    ASSUME NEW v \in Nat, NEW i \in Id
    PROVE  First(v, i) \in Int /\ First(v, i) >= 2 /\ End(v, i) \in Int
<1>1. StepSize(v) \in Nat /\ i \in Nat
  BY Steps, InputAssumption DEF Id
<1>2. StepSize(v) * i \in Int /\ StepSize(v) * (i + 1) \in Int
  BY <1>1
<1> QED
  BY <1>2 DEF First, End

(* Each candidate is in the share of one child. *)
LEMMA OneShare ==
    ASSUME NEW v \in Nat, NEW d \in SmallDivisors(v)
    PROVE  \E j \in Id : \A k \in Id : d \in First(v, k) .. End(v, k) - 1 <=> k = j
<1>1. THREADS \in Nat
  BY InputAssumption
<1>2. d \in Nat /\ d >= 2 /\ d <= IntSqrt(v) /\ IntSqrt(v) \in Nat
  BY CandidatesToRoot, SquareRoot
<1> DEFINE s == StepSize(v)
<1>3. s \in Nat /\ s > 0 /\ s * THREADS > IntSqrt(v)
  BY Steps
<1> HIDE DEF s
<1>4. d < s * THREADS
  BY <1>1, <1>2, <1>3
<1>5. PICK j \in 0 .. THREADS - 1 :
         \A k \in 0 .. THREADS - 1 : (s * k <= d /\ d < s * (k + 1)) <=> k = j
  BY <1>1, <1>2, <1>3, <1>4, OneStep
<1>6. ASSUME NEW k \in Id
      PROVE  d \in First(v, k) .. End(v, k) - 1 <=> (s * k <= d /\ d < s * (k + 1))
  <2>1. s * k \in Int /\ s * (k + 1) \in Int /\ k \in 0 .. THREADS - 1
    BY <1>1, <1>3 DEF Id
  <2>2. First(v, k) = IF s * k < 2 THEN 2 ELSE s * k
    BY DEF First, s
  <2>3. End(v, k) = s * (k + 1)
    BY DEF End, s
  <2> QED
    BY <1>2, <2>1, <2>2, <2>3
<1> QED
  BY <1>5, <1>6 DEF Id

(* So the shares cover every candidate, each just once. *)
LEMMA SharesOnce ==
    ASSUME TypeOK
    PROVE  SharesPartition
<1> SUFFICES ASSUME NEW i \in Id, NEW d \in SmallDivisors(value[i])
             PROVE  Cardinality({k \in Id : d \in First(value[i], k) .. End(value[i], k) - 1}) = 1
  BY DEF SharesPartition
<1>1. PICK v \in Nat : v = value[i]
  BY DEF TypeOK
<1>2. PICK j \in Id : \A k \in Id : d \in First(v, k) .. End(v, k) - 1 <=> k = j
  BY <1>1, OneShare
<1>3. {k \in Id : d \in First(v, k) .. End(v, k) - 1} = {j}
  BY <1>2
<1> QED
  BY <1>1, <1>3, FS_Singleton

(* A pair of divisors has one that is no greater than the root: only a     *)
(* square has a candidate that is its own quotient.                        *)
LEMMA Quotients ==
    ASSUME NEW v \in Nat, NEW d \in SmallDivisors(v)
    PROVE  /\ v \div d \in Nat /\ d * (v \div d) = v /\ d \in Nat /\ d >= 2
           /\ v \div d = d <=> d * d = v
<1>1. d \in Nat /\ d >= 2 /\ v % d = 0
  BY DEF SmallDivisors, Divides
<1>2. v \div d \in Nat /\ v = d * (v \div d) + (v % d) /\ d * (v \div d) \in Int
  BY <1>1
<1>3. d * (v \div d) = v
  BY <1>1, <1>2
<1>4. d * d = v => v \div d = d
  <2> SUFFICES ASSUME d * d = v PROVE v \div d = d
    OBVIOUS
  <2> DEFINE q == v \div d
  <2>1. q \in Nat /\ d * q = d * d
    BY <1>2, <1>3
  <2> HIDE DEF q
  <2>2. d * q = d * d + d * (q - d) /\ d * d \in Int /\ d * (q - d) \in Int
    BY <1>1, <2>1
  <2>3. d * (q - d) = 0
    BY <2>1, <2>2
  <2>4. q - d = 0
    BY <1>1, <2>1, <2>3
  <2> QED
    BY <1>1, <2>1, <2>4 DEF q
<1> QED
  BY <1>1, <1>2, <1>3, <1>4

(* Two candidates with the product v are one. *)
LEMMA OnePair ==
    ASSUME NEW v \in Nat, NEW d \in SmallDivisors(v), NEW e \in SmallDivisors(v)
    PROVE  /\ e * d = v => e = d
           /\ v \div d = v \div e => d = e
<1>1. d \in Nat /\ e \in Nat /\ d * d <= v /\ e * e <= v /\ d >= 2 /\ e >= 2
  BY DEF SmallDivisors
<1>2. ASSUME e * d = v PROVE e = d
  <2>1. e < d => e * d < d * d
    <3>1. d * d = e * d + (d - e) * d /\ (e < d => (d - e) * d > 0) /\ e * d \in Int
      BY <1>1
    <3> QED
      BY <1>1, <3>1
  <2>2. d < e => e * d < e * e
    <3>1. e * e = e * d + e * (e - d) /\ (d < e => e * (e - d) > 0) /\ e * d \in Int
      BY <1>1
    <3> QED
      BY <1>1, <3>1
  <2>3. e * d \in Int /\ d * d \in Int /\ e * e \in Int
    BY <1>1
  <2> QED
    BY <1>1, <1>2, <2>1, <2>2, <2>3
<1>3. ASSUME v \div d = v \div e PROVE d = e
  <2> DEFINE q == v \div d
  <2>1. q \in Nat /\ d * q = v /\ e * q = v
    BY <1>3, Quotients
  <2> HIDE DEF q
  <2>2. q # 0
    <3>1. d * d > 0 /\ d * d \in Int
      BY <1>1
    <3> QED
      BY <1>1, <2>1, <3>1
  <2>3. d * q = e * q + (d - e) * q /\ (d - e) * q \in Int
    BY <1>1, <2>1
  <2>4. (d - e) * q = 0
    BY <2>1, <2>3
  <2> QED
    BY <1>1, <2>1, <2>2, <2>4
<1> QED
  BY <1>2, <1>3

-------------------------------------------------------------------------------
(***************************************************************************)
(* The divisors: whose turn it is                                          *)
(***************************************************************************)

(* What main and the children know of each other. *)
LEMMA TurnTypes ==
    ASSUME TypeOK, Control
    PROVE  /\ THREADS \in Nat /\ THREADS > 0 /\ loop \in 0 .. THREADS /\ x \in Nat /\ Id = 0 .. THREADS - 1
           /\ \A i \in Id : i \in Nat /\ i < THREADS /\ input_fd[i] \in Nat /\ output_fd[i] \in Nat
  BY InputAssumption DEF TypeOK, Control, Id

(* A child at work has the number main has asked it for. *)
LEMMA AtWork ==
    ASSUME Control, NEW i \in Id, Works(i)
    PROVE  /\ Asked(i) /\ main_pc \in {"request", "collect"}
           /\ x > 0 /\ value[i] = x /\ input_fd[i] = 0 /\ output_fd[i] = 0
           /\ First(x, i) <= cand[i] /\ (pc[i] # "loop" => cand[i] \in Share(i))
  BY DEF Control, Works, Asked, Turn, Rests

(* A child that main has not asked yet rests. *)
LEMMA ControlInit == Init => Control
<1> SUFFICES ASSUME Init PROVE Control
  OBVIOUS
<1>1. \A i \in Id : pc[i] \in {"read", "none"} /\ input_fd[i] = 0 /\ output_fd[i] = 0
  BY DEF Init
<1> QED
  BY <1>1 DEF Init, Control, Asked, Rests, Works

(* main asks one child after the other and hears one after the other. *)
LEMMA ControlMain ==
    ASSUME TypeOK, Control, MainStep
    PROVE  Control'
<1>0. UNCHANGED <<pc, value, cand, slot>>
  BY DEF MainStep, ReadNumber, Request, AllRequested, Collect, AllCollected, Report, childVars
<1>1. CASE ReadNumber
  <2>1. /\ main_pc = "scan" /\ main_pc' = "request" /\ loop' = 0 /\ x' \in Value \cup {0}
        /\ UNCHANGED <<input_fd, output_fd>>
    BY <1>1 DEF ReadNumber
  <2>2. \A i \in Id : Rests(i)' /\ ~Asked(i)' /\ ~Works(i)'
    <3>1. \A i \in Id : Rests(i)
      BY <2>1 DEF Control, Asked
    <3>2. \A i \in Id : ~(i < 0)
      BY TurnTypes
    <3> QED
      BY <1>0, <2>1, <3>1, <3>2 DEF Rests, Asked, Works
  <2> QED
    BY <2>1, <2>2 DEF Control
<1>2. ASSUME UNCHANGED x, \A i \in Id : IF Asked(i)' THEN Turn(i)' ELSE Rests(i)'
      PROVE  \A i \in Id : /\ IF Asked(i)' THEN Turn(i)' ELSE Rests(i)'
                           /\ Works(i)' => First(x, i)' <= cand'[i] /\ (pc'[i] # "loop" => cand'[i] \in Share(i)')
  BY <1>0, <1>2 DEF Control, Works, Share, First, End, StepSize, SqrtPart, IntSqrt, SmallDivisors, Divides
<1>3. CASE Request
  <2>1. /\ main_pc = "request" /\ loop < THREADS /\ input_fd' = [input_fd EXCEPT ![loop] = @ + x]
        /\ loop' = loop + 1 /\ UNCHANGED <<main_pc, x, output_fd>>
    BY <1>3 DEF Request
  <2>2. ASSUME NEW i \in Id PROVE IF Asked(i)' THEN Turn(i)' ELSE Rests(i)'
    <3>1. CASE i = loop
      <4>1. Rests(i) /\ input_fd'[i] = input_fd[i] + x
        BY <2>1, <3>1, TurnTypes DEF Control, Asked, TypeOK
      <4>2. input_fd'[i] = x
        BY <4>1, TurnTypes DEF Rests
      <4>3. Turn(i)'
        BY <1>0, <2>1, <4>1, <4>2 DEF Rests, Turn
      <4>4. Asked(i)'
        BY <2>1, <3>1, TurnTypes DEF Asked
      <4> QED
        BY <4>3, <4>4
    <3>2. CASE i # loop
      <4>1. input_fd'[i] = input_fd[i] /\ (i < loop' <=> i < loop)
        <5>1. input_fd'[i] = input_fd[i]
          BY <2>1, <3>2 DEF TypeOK
        <5>2. i \in Int /\ loop \in Int /\ loop' = loop + 1
          BY <2>1, TurnTypes
        <5> QED
          BY <3>2, <5>1, <5>2
      <4>2. Asked(i)' = Asked(i)
        BY <2>1, <4>1 DEF Asked
      <4>3. Turn(i)' = Turn(i) /\ Rests(i)' = Rests(i)
        BY <1>0, <2>1, <4>1 DEF Turn, Rests, Works
      <4> QED
        BY <4>2, <4>3 DEF Control
    <3> QED
      BY <3>1, <3>2
  <2> QED
    BY <1>2, <2>1, <2>2 DEF Control
<1>4. CASE AllRequested
  <2>1. /\ main_pc = "request" /\ loop = THREADS /\ main_pc' = "collect" /\ loop' = 0
        /\ UNCHANGED <<x, input_fd, output_fd>>
    BY <1>4 DEF AllRequested
  <2>2. ASSUME NEW i \in Id PROVE IF Asked(i)' THEN Turn(i)' ELSE Rests(i)'
    <3>1. Asked(i) /\ Asked(i)'
      BY <2>1, TurnTypes DEF Asked
    <3> QED
      BY <1>0, <2>1, <3>1 DEF Turn, Works, Control
  <2> QED
    BY <1>2, <2>1, <2>2 DEF Control
<1>5. CASE Collect
  <2>1. /\ main_pc = "collect" /\ loop < THREADS /\ output_fd[loop] > 0 /\ x' = output_fd[loop]
        /\ output_fd' = [output_fd EXCEPT ![loop] = 0]
        /\ loop' = loop + 1 /\ UNCHANGED <<main_pc, input_fd>>
    BY <1>5 DEF Collect
  <2>2. loop \in Id /\ Asked(loop)
    BY <2>1, TurnTypes DEF Asked
  <2>3. x > 0 /\ pc[loop] = "read" /\ input_fd[loop] = 0 /\ output_fd[loop] = x
    BY <2>1, <2>2, TurnTypes DEF Control, Turn
  <2>4. x' = x
    BY <2>1, <2>3
  <2>5. ASSUME NEW i \in Id PROVE IF Asked(i)' THEN Turn(i)' ELSE Rests(i)'
    <3>1. CASE i = loop
      <4>1. ~Asked(i)'
        BY <2>1, <3>1, TurnTypes DEF Asked
      <4>2. Rests(i)'
        BY <1>0, <2>1, <2>3, <3>1 DEF Rests, TypeOK
      <4> QED
        BY <4>1, <4>2
    <3>2. CASE i # loop
      <4>1. output_fd'[i] = output_fd[i] /\ (i >= loop' <=> i >= loop)
        <5>1. output_fd'[i] = output_fd[i]
          BY <2>1, <3>2 DEF TypeOK
        <5>2. i \in Int /\ loop \in Int /\ loop' = loop + 1
          BY <2>1, TurnTypes
        <5> QED
          BY <3>2, <5>1, <5>2
      <4>2. Asked(i)' = Asked(i)
        BY <2>1, <4>1 DEF Asked
      <4>3. Turn(i)' = Turn(i) /\ Rests(i)' = Rests(i)
        BY <1>0, <2>1, <2>4, <4>1 DEF Turn, Rests, Works
      <4> QED
        BY <4>2, <4>3 DEF Control
    <3> QED
      BY <3>1, <3>2
  <2> QED
    BY <1>2, <2>1, <2>3, <2>4, <2>5 DEF Control
<1>6. CASE AllCollected
  <2>1. /\ main_pc = "collect" /\ loop = THREADS /\ main_pc' = "report"
        /\ UNCHANGED <<x, loop, input_fd, output_fd>>
    BY <1>6 DEF AllCollected
  <2>2. x > 0
    BY <2>1, TurnTypes DEF Control
  <2>3. ASSUME NEW i \in Id PROVE IF Asked(i)' THEN Turn(i)' ELSE Rests(i)'
    <3>1. ~Asked(i) /\ ~Asked(i)'
      BY <2>1, TurnTypes DEF Asked
    <3> QED
      BY <1>0, <2>1, <3>1 DEF Rests, Control
  <2> QED
    BY <1>2, <2>1, <2>2, <2>3 DEF Control
<1>7. CASE Report
  <2>1. /\ main_pc = "report" /\ main_pc' = "scan" /\ UNCHANGED <<x, loop, input_fd, output_fd>>
    BY <1>7 DEF Report
  <2>2. ASSUME NEW i \in Id PROVE IF Asked(i)' THEN Turn(i)' ELSE Rests(i)'
    BY <1>0, <2>1 DEF Rests, Control, Asked
  <2> QED
    BY <1>2, <2>1, <2>2 DEF Control
<1> QED
  BY <1>1, <1>3, <1>4, <1>5, <1>6, <1>7 DEF MainStep

(* A step of a child leaves main and the other children where they are. *)
LEMMA OthersStay ==
    ASSUME TypeOK, NEW i \in Id, ChildStep(i)
    PROVE  /\ UNCHANGED <<main_pc, x, loop, requests>>
           /\ \A k \in Id \ {i} : /\ pc'[k] = pc[k] /\ value'[k] = value[k] /\ cand'[k] = cand[k]
                                  /\ slot'[k] = slot[k] /\ input_fd'[k] = input_fd[k]
                                  /\ output_fd'[k] = output_fd[k]
<1> USE DEF mainVars, TypeOK
<1>1. CASE ReadInput(i)
  BY <1>1 DEF ReadInput
<1>2. CASE Skip(i)
  BY <1>2 DEF Skip
<1>3. CASE TakeSlot(i)
  BY <1>3 DEF TakeSlot
<1>4. CASE StoreCandidate(i)
  BY <1>4 DEF StoreCandidate
<1>5. CASE StoreQuotient(i)
  BY <1>5 DEF StoreQuotient
<1>6. CASE WriteOutput(i)
  BY <1>6 DEF WriteOutput
<1> QED
  BY <1>1, <1>2, <1>3, <1>4, <1>5, <1>6 DEF ChildStep

(* What depends on the number only stays with it. *)
LEMMA SameNumber ==
    ASSUME UNCHANGED x
    PROVE  /\ SmallDivisors(x)' = SmallDivisors(x)
           /\ \A k \in Id : First(x, k)' = First(x, k) /\ End(x, k)' = End(x, k) /\ Share(k)' = Share(k)
           /\ \A a : Shown(a)' = Shown(a)
  BY DEF SmallDivisors, Divides, First, End, StepSize, SqrtPart, IntSqrt, Share, Shown

(* A candidate that the loop goes on with and that divides is of the       *)
(* child's share, and where the loop ends, none is left.                   *)
LEMMA ShareIsTried ==
    ASSUME TypeOK, Control, NEW i \in Id, pc[i] = "loop"
    PROVE  /\ More(i) /\ Divides(cand[i], value[i]) => cand[i] \in Share(i)
           /\ ~More(i) => \A d \in Share(i) : d < cand[i]
           /\ cand[i] \in Nat /\ cand[i] >= 2 /\ x \in Nat /\ value[i] = x /\ End(x, i) \in Int
<1>1. value[i] = x /\ First(x, i) <= cand[i] /\ cand[i] \in Nat /\ x \in Nat /\ i \in Nat
  BY AtWork, TurnTypes DEF Works, TypeOK
<1>3. First(x, i) \in Int /\ First(x, i) >= 2 /\ End(x, i) \in Int
  BY <1>1, ShareBounds
<1>4. cand[i] >= 2
  BY <1>1, <1>3
<1>5. ASSUME More(i), Divides(cand[i], value[i]) PROVE cand[i] \in Share(i)
  <2>1. PICK c \in Nat : c = cand[i]
    BY <1>1
  <2>2. c >= 2 /\ c * c <= x /\ c < End(x, i) /\ First(x, i) <= c /\ Divides(c, x)
    BY <1>1, <1>4, <1>5, <2>1 DEF More
  <2>3. c \in 2 .. x
    <3>1. c * c = c + c * (c - 1) /\ c * (c - 1) >= 0 /\ c * (c - 1) \in Int
      BY <2>2
    <3> QED
      BY <1>1, <2>2, <3>1
  <2>4. c \in First(x, i) .. End(x, i) - 1
    BY <1>3, <2>2
  <2> QED
    BY <2>1, <2>2, <2>3, <2>4 DEF Share, SmallDivisors
<1>6. ASSUME ~More(i), NEW d \in Share(i) PROVE d < cand[i]
  <2>1. d \in Nat /\ d * d <= x /\ d < End(x, i)
    BY <1>1, <1>3 DEF Share, SmallDivisors
  <2>2. PICK c \in Nat : c = cand[i]
    BY <1>1
  <2>3. ~(c < End(x, i)) \/ ~(c * c <= x)
    BY <1>1, <1>6, <2>2 DEF More
  <2>4. ASSUME c <= d PROVE FALSE
    <3>1. c * c <= d * d
      <4>1. c = d \/ c < d
        BY <2>1, <2>4
      <4> QED
        BY <2>1, <4>1, Squares
    <3>2. c * c \in Int /\ d * d \in Int
      BY <2>1
    <3> QED
      BY <1>1, <1>3, <2>1, <2>3, <2>4, <3>1, <3>2
  <2> QED
    BY <2>1, <2>2, <2>4
<1> QED
  BY <1>1, <1>3, <1>4, <1>5, <1>6

(* A child reads a number, works on it and answers. *)
LEMMA ControlChild ==
    ASSUME TypeOK, Control, NEW i \in Id, ChildStep(i)
    PROVE  Control'
<1>1. UNCHANGED <<main_pc, x, loop>> /\ \A k \in Id : Asked(k)' = Asked(k)
  BY OthersStay DEF Asked
<1>2. /\ \A k \in Id : First(x, k)' = First(x, k) /\ Share(k)' = Share(k)
      /\ x \in Nat
  BY <1>1, SameNumber, TurnTypes
<1> DEFINE Ok(k) == /\ IF Asked(k) THEN Turn(k) ELSE Rests(k)
                    /\ Works(k) => First(x, k) <= cand[k] /\ (pc[k] # "loop" => cand[k] \in Share(k))
<1>3. ASSUME NEW k \in Id, k # i PROVE Ok(k)'
  <2>1. /\ pc'[k] = pc[k] /\ value'[k] = value[k] /\ cand'[k] = cand[k]
        /\ input_fd'[k] = input_fd[k] /\ output_fd'[k] = output_fd[k]
    BY <1>3, OthersStay
  <2>2. Turn(k)' = Turn(k) /\ Rests(k)' = Rests(k) /\ Works(k)' = Works(k)
    BY <1>1, <2>1 DEF Turn, Rests, Works
  <2>3. Ok(k)
    BY DEF Control
  <2> QED
    BY <1>1, <1>2, <2>1, <2>2, <2>3
<1>4. ASSUME Ok(i)' PROVE Control'
  <2>1. \A k \in Id : Ok(k)'
    BY <1>3, <1>4
  <2> QED
    BY <1>1, <2>1 DEF Control
<1>5. ASSUME Works(i), Works(i)', value'[i] = value[i], UNCHANGED <<input_fd, output_fd>>,
             First(x, i) <= cand'[i], pc'[i] # "loop" => cand'[i] \in Share(i)
      PROVE  Ok(i)'
  BY <1>1, <1>2, <1>5, AtWork DEF Turn
<1>6. CASE ReadInput(i)
  <2>1. /\ pc[i] = "read" /\ input_fd[i] > 0 /\ value'[i] = input_fd[i] /\ input_fd'[i] = 0
        /\ cand'[i] = First(input_fd[i], i) /\ pc'[i] = "loop" /\ UNCHANGED output_fd
    BY <1>6 DEF ReadInput, TypeOK
  <2>2. Asked(i) /\ input_fd[i] = x /\ output_fd[i] = 0
    BY <2>1 DEF Control, Turn, Rests, Works
  <2>3. First(x, i) <= First(x, i)
    <3>1. First(x, i) \in Int
      BY <1>2, ShareBounds
    <3> QED
      BY <3>1
  <2>4. Ok(i)'
    BY <1>1, <1>2, <2>1, <2>2, <2>3 DEF Turn, Works
  <2> QED
    BY <1>4, <2>4
<1>7. CASE Skip(i)
  <2>1. /\ pc[i] = "loop" /\ UNCHANGED <<pc, value, input_fd, output_fd>> /\ cand'[i] = cand[i] + 1
    BY <1>7 DEF Skip, TypeOK
  <2>2. First(x, i) <= cand'[i]
    <3>1. First(x, i) <= cand[i] /\ cand[i] \in Nat
      BY <2>1, AtWork DEF Works, TypeOK
    <3>2. First(x, i) \in Int
      BY <1>2, ShareBounds
    <3> QED
      BY <2>1, <3>1, <3>2
  <2> QED
    BY <1>4, <1>5, <2>1, <2>2 DEF Works
<1>8. CASE TakeSlot(i)
  <2>1. /\ UNCHANGED <<value, cand, input_fd, output_fd>> /\ pc'[i] \in {"store_i", "store_j"}
        /\ Works(i) /\ (pc[i] = "loop" => More(i) /\ Divides(cand[i], value[i]))
    BY <1>8 DEF TakeSlot, TypeOK, Works
  <2>2. First(x, i) <= cand'[i] /\ cand'[i] \in Share(i)
    BY <2>1, AtWork, ShareIsTried
  <2> QED
    BY <1>4, <1>5, <2>1, <2>2 DEF Works
<1>9. CASE StoreCandidate(i)
  <2>1. /\ UNCHANGED <<value, cand, input_fd, output_fd>> /\ pc'[i] = "pair" /\ pc[i] = "store_i"
    BY <1>9 DEF StoreCandidate, TypeOK
  <2> QED
    BY <1>4, <1>5, <2>1, AtWork DEF Works
<1>10. CASE StoreQuotient(i)
  <2>1. /\ UNCHANGED <<value, input_fd, output_fd>> /\ pc'[i] = "loop" /\ pc[i] = "store_j"
        /\ cand'[i] = cand[i] + 1
    BY <1>10 DEF StoreQuotient, TypeOK
  <2>2. First(x, i) <= cand'[i]
    <3>1. First(x, i) <= cand[i] /\ cand[i] \in Nat
      BY <2>1, AtWork DEF Works, TypeOK
    <3>2. First(x, i) \in Int
      BY <1>2, ShareBounds
    <3> QED
      BY <2>1, <3>1, <3>2
  <2> QED
    BY <1>4, <1>5, <2>1, <2>2 DEF Works
<1>11. CASE WriteOutput(i)
  <2>1. /\ pc[i] = "loop" /\ output_fd'[i] = output_fd[i] + value[i] /\ pc'[i] = "read"
        /\ UNCHANGED input_fd
    BY <1>11 DEF WriteOutput, TypeOK
  <2>2. /\ Asked(i) /\ x > 0 /\ value[i] = x /\ input_fd[i] = 0 /\ output_fd[i] = 0
    BY <2>1, AtWork DEF Works
  <2>3. Ok(i)'
    BY <1>1, <1>2, <2>1, <2>2 DEF Turn, Works
  <2> QED
    BY <1>4, <2>3
<1> QED
  BY <1>6, <1>7, <1>8, <1>9, <1>10, <1>11 DEF ChildStep

-------------------------------------------------------------------------------
(***************************************************************************)
(* The divisors: the answers and their slots                               *)
(***************************************************************************)

(* What the answers are made of. *)
LEMMA SameAnswers ==
    ASSUME UNCHANGED x,
           \A k \in Id : \A d \in Share(k), q \in {"i", "j"} : Given(k, d, q)' = Given(k, d, q)
    PROVE  Answers' = Answers
<1>1. SmallDivisors(x)' = SmallDivisors(x) /\ \A k \in Id : Share(k)' = Share(k)
  BY SameNumber
<1>2. ASSUME NEW k \in Id, NEW d, d \notin Share(k), NEW q
      PROVE  ~Given(k, d, q) /\ ~Given(k, d, q)'
  BY <1>1, <1>2 DEF Given
<1>3. \A a \in SmallDivisors(x) \X {"i", "j"} : \A k \in Id :
         Given(k, a[1], a[2])' <=> Given(k, a[1], a[2])
  BY <1>2
<1> QED
  BY <1>1, <1>3 DEF Answers

(* main gives no answers. *)
LEMMA AnswersMain ==
    ASSUME TypeOK, Control, Request \/ AllRequested \/ Collect \/ AllCollected
    PROVE  UNCHANGED x /\ Answers' = Answers
<1>1. UNCHANGED <<pc, cand, x>>
  <2>1. CASE Request \/ AllRequested \/ AllCollected
    BY <2>1 DEF Request, AllRequested, AllCollected, childVars
  <2>2. CASE Collect
    <3>1. /\ main_pc = "collect" /\ loop < THREADS /\ output_fd[loop] > 0 /\ x' = output_fd[loop]
          /\ UNCHANGED <<pc, cand>>
      BY <2>2 DEF Collect, childVars
    <3>2. loop \in Id /\ Asked(loop)
      BY <3>1, TurnTypes DEF Asked
    <3> QED
      BY <3>1, <3>2, TurnTypes DEF Control, Turn
  <2> QED
    BY <2>1, <2>2
<1>2. ASSUME NEW k \in Id PROVE Passed(k)' = Passed(k)
  <2>1. CASE Request
    BY <2>1 DEF Request, Passed
  <2>2. CASE AllRequested
    <3>1. ~(k < 0)
      BY TurnTypes
    <3> QED
      BY <2>2, <3>1 DEF AllRequested, Passed
  <2>3. CASE Collect
    <3>1. /\ main_pc = "collect" /\ UNCHANGED main_pc /\ loop' = loop + 1 /\ output_fd[loop] > 0
          /\ output_fd' = [output_fd EXCEPT ![loop] = 0]
      BY <2>3 DEF Collect
    <3>2. CASE k = loop
      <4>1. k < loop'
        BY <3>1, <3>2, TurnTypes
      <4> QED
        BY <3>1, <3>2, <4>1 DEF Passed
    <3>3. CASE k # loop
      <4>1. output_fd'[k] = output_fd[k]
        BY <3>1, <3>3 DEF TypeOK
      <4>2. k < loop' <=> k < loop
        BY <3>1, <3>3, TurnTypes
      <4> QED
        BY <3>1, <4>1, <4>2 DEF Passed
    <3> QED
      BY <3>2, <3>3
  <2>4. CASE AllCollected
    BY <2>4 DEF AllCollected, Passed
  <2> QED
    BY <2>1, <2>2, <2>3, <2>4
<1>3. ASSUME NEW k \in Id, NEW d \in Share(k), NEW q \in {"i", "j"}
      PROVE  Given(k, d, q)' = Given(k, d, q)
  <2>1. Share(k)' = Share(k)
    BY <1>1, SameNumber
  <2> QED
    BY <1>1, <1>2, <2>1 DEF Given, Works
<1> QED
  BY <1>1, <1>3, SameAnswers

(* Nor does a child but where it takes a slot. *)
LEMMA AnswersChild ==
    ASSUME TypeOK, Control, NEW i \in Id,
           ReadInput(i) \/ Skip(i) \/ StoreCandidate(i) \/ StoreQuotient(i) \/ WriteOutput(i)
    PROVE  UNCHANGED x /\ Answers' = Answers
<1>1. /\ UNCHANGED <<main_pc, x, loop>>
      /\ \A k \in Id \ {i} : pc'[k] = pc[k] /\ cand'[k] = cand[k] /\ output_fd'[k] = output_fd[k]
  <2>1. ChildStep(i)
    BY DEF ChildStep
  <2> QED
    BY <2>1, OthersStay
<1>2. \A k \in Id : Share(k)' = Share(k)
  BY <1>1, SameNumber
<1>3. ASSUME NEW k \in Id, k # i, NEW d, NEW q PROVE Given(k, d, q)' = Given(k, d, q)
  BY <1>1, <1>2, <1>3 DEF Given, Works, Passed
<1>4. \A d \in Share(i) : d \in Nat /\ d >= First(x, i) /\ d \in SmallDivisors(x) /\ Divides(d, x)
  <2>1. x \in Nat
    BY TurnTypes
  <2> QED
    BY <2>1, ShareBounds DEF Share, SmallDivisors
<1>5. cand[i] \in Nat /\ (Passed(i) <=> (output_fd[i] > 0 \/ (main_pc \in {"collect", "report"} /\ i < loop)))
  BY DEF TypeOK, Passed
<1>6. ASSUME NEW d \in Share(i), NEW q \in {"i", "j"} PROVE Given(i, d, q)' = Given(i, d, q)
  <2>1. CASE ReadInput(i)
    <3>1. /\ pc[i] = "read" /\ input_fd[i] > 0 /\ cand'[i] = First(input_fd[i], i) /\ pc'[i] = "loop"
          /\ UNCHANGED output_fd
      BY <2>1 DEF ReadInput, TypeOK
    <3>2. Asked(i) /\ input_fd[i] = x /\ output_fd[i] = 0
      BY <3>1 DEF Control, Turn, Rests, Works
    <3>3. ~Passed(i) /\ ~Passed(i)'
      BY <1>1, <3>1, <3>2, TurnTypes DEF Asked, Passed
    <3>4. ~(d < cand'[i])
      <4>1. First(x, i) \in Int
        BY TurnTypes, ShareBounds
      <4> QED
        BY <1>4, <3>1, <3>2, <4>1
    <3> QED
      BY <3>1, <3>3, <3>4 DEF Given, Works
  <2>2. CASE Skip(i)
    <3>1. /\ pc[i] = "loop" /\ ~Divides(cand[i], value[i]) /\ cand'[i] = cand[i] + 1
          /\ UNCHANGED <<pc, output_fd>>
      BY <2>2 DEF Skip, TypeOK
    <3>2. value[i] = x
      BY <3>1, AtWork DEF Works
    <3>3. d < cand'[i] <=> d < cand[i]
      BY <1>4, <1>5, <3>1, <3>2
    <3>4. Passed(i)' = Passed(i)
      BY <1>1, <3>1 DEF Passed
    <3> QED
      BY <1>2, <3>1, <3>3, <3>4 DEF Given, Works
  <2>3. CASE StoreCandidate(i)
    <3>1. /\ pc[i] = "store_i" /\ pc'[i] = "pair" /\ UNCHANGED <<cand, output_fd>>
      BY <2>3 DEF StoreCandidate, TypeOK
    <3>2. Passed(i)' = Passed(i)
      BY <1>1, <3>1 DEF Passed
    <3> QED
      BY <1>2, <3>1, <3>2 DEF Given, Works
  <2>4. CASE StoreQuotient(i)
    <3>1. /\ pc[i] = "store_j" /\ pc'[i] = "loop" /\ cand'[i] = cand[i] + 1 /\ UNCHANGED output_fd
      BY <2>4 DEF StoreQuotient, TypeOK
    <3>2. Passed(i)' = Passed(i)
      BY <1>1, <3>1 DEF Passed
    <3>3. d < cand'[i] <=> d < cand[i] \/ d = cand[i]
      BY <1>4, <1>5, <3>1
    <3> QED
      BY <1>2, <3>1, <3>2, <3>3 DEF Given, Works
  <2>5. CASE WriteOutput(i)
    <3>1. /\ pc[i] = "loop" /\ ~More(i) /\ pc'[i] = "read" /\ output_fd'[i] = output_fd[i] + value[i]
      BY <2>5 DEF WriteOutput, TypeOK
    <3>2. output_fd[i] = 0 /\ value[i] = x /\ x > 0
      BY <3>1, AtWork DEF Works
    <3>3. Passed(i)'
      BY <3>1, <3>2, TurnTypes DEF Passed
    <3>4. d < cand[i]
      BY <3>1, ShareIsTried
    <3> QED
      BY <1>2, <3>1, <3>3, <3>4 DEF Given, Works
  <2> QED
    BY <2>1, <2>2, <2>3, <2>4, <2>5
<1> QED
  BY <1>1, <1>3, <1>6, SameAnswers

(* Slots that nobody writes keep what they hold. *)
LEMMA HoldsOn ==
    ASSUME NEW f, Holds(f), UNCHANGED <<x, response_size, responses, slot>>, Answers' = Answers,
           \A k \in Id : Storing(k)' = Storing(k) /\ (Storing(k) => cand'[k] = cand[k] /\ pc'[k] = pc[k])
    PROVE  Holds(f)'
<1>1. \A a : Shown(a)' = Shown(a)
  BY SameNumber
<1> QED
  BY <1>1 DEF Holds

(* Asking and collecting write none. *)
LEMMA HoldsMain ==
    ASSUME TypeOK, Control, NEW f, Holds(f), Request \/ AllRequested \/ Collect \/ AllCollected
    PROVE  Holds(f)'
<1>1. UNCHANGED <<response_size, responses, slot, cand, pc>>
  BY DEF Request, AllRequested, Collect, AllCollected, childVars
<1>2. \A k \in Id : Storing(k)' = Storing(k)
  BY <1>1 DEF Storing
<1> QED
  BY <1>1, <1>2, AnswersMain, HoldsOn

(* Nor do a child's steps outside the stores. *)
LEMMA HoldsQuiet ==
    ASSUME TypeOK, Control, NEW f, Holds(f), NEW i \in Id, ReadInput(i) \/ Skip(i) \/ WriteOutput(i)
    PROVE  Holds(f)'
<1>1. UNCHANGED <<response_size, responses, slot>> /\ ~Storing(i) /\ ~Storing(i)'
  BY DEF ReadInput, Skip, WriteOutput, TypeOK, Storing
<1>2. ChildStep(i)
  BY DEF ChildStep
<1>3. \A k \in Id \ {i} : pc'[k] = pc[k] /\ cand'[k] = cand[k]
  BY <1>2, OthersStay
<1>4. \A k \in Id : Storing(k)' = Storing(k) /\ (Storing(k) => cand'[k] = cand[k] /\ pc'[k] = pc[k])
  BY <1>1, <1>3 DEF Storing
<1> QED
  BY <1>1, <1>4, AnswersChild, HoldsOn

(* A child stores the answer its slot is for. *)
LEMMA HoldsStore ==
    ASSUME TypeOK, Control, NEW f, Holds(f), NEW i \in Id, StoreCandidate(i) \/ StoreQuotient(i)
    PROVE  Holds(f)'
<1>1. /\ UNCHANGED <<response_size, slot, x>> /\ Answers' = Answers /\ ChildStep(i)
      /\ Storing(i) /\ ~Storing(i)' /\ Works(i)
  BY AnswersChild DEF StoreCandidate, StoreQuotient, TypeOK, Storing, ChildStep, Works
<1>2. value[i] = x
  BY <1>1, AtWork
<1>3. \A k \in Id \ {i} : pc'[k] = pc[k] /\ cand'[k] = cand[k]
  BY <1>1, OthersStay
<1>4. \A k \in Id : Storing(k)' => k # i /\ Storing(k) /\ cand'[k] = cand[k] /\ pc'[k] = pc[k]
  BY <1>1, <1>3 DEF Storing
<1>5. \A k \in Id \ {i} : Storing(k) => Storing(k)'
  BY <1>3 DEF Storing
<1>6. \A a : Shown(a)' = Shown(a)
  BY <1>1, SameNumber
<1>7. /\ slot[i] \in 0 .. response_size - 1
      /\ f[slot[i]] = <<cand[i], IF pc[i] = "store_i" THEN "i" ELSE "j">>
  BY <1>1 DEF Holds
<1>8. responses' = [responses EXCEPT ![slot[i]] = Shown(f[slot[i]])]
  <2>1. CASE StoreCandidate(i)
    <3>1. Shown(f[slot[i]]) = cand[i]
      BY <1>7, <2>1 DEF Shown, StoreCandidate
    <3> QED
      BY <2>1, <3>1 DEF StoreCandidate
  <2>2. CASE StoreQuotient(i)
    <3>1. Shown(f[slot[i]]) = x \div cand[i]
      BY <1>7, <2>2 DEF Shown, StoreQuotient
    <3> QED
      BY <1>2, <2>2, <3>1 DEF StoreQuotient
  <2> QED
    BY <2>1, <2>2
<1>9. \A s \in 0 .. response_size - 1 : s \in Slot
  BY InputAssumption DEF TypeOK, Slot
<1>10. \A s \in 0 .. response_size - 1 :
          responses'[s] = IF s = slot[i] THEN Shown(f[slot[i]]) ELSE responses[s]
  BY <1>8, <1>9 DEF TypeOK
<1>11. ASSUME NEW s \in 0 .. response_size - 1
       PROVE  responses'[s] = Shown(f[s]) \/ \E k \in Id : Storing(k)' /\ slot[k] = s
  <2>1. CASE s = slot[i]
    BY <1>10, <2>1
  <2>2. CASE s # slot[i]
    <3>1. responses[s] = Shown(f[s]) \/ \E k \in Id : Storing(k) /\ slot[k] = s
      BY DEF Holds
    <3> QED
      BY <1>5, <1>10, <2>2, <3>1
  <2> QED
    BY <2>1, <2>2
<1> QED
  BY <1>1, <1>4, <1>6, <1>11 DEF Holds

(* A slot taken is for an answer that has none yet. *)
LEMMA AnswersTake ==
    ASSUME TypeOK, Control, NEW i \in Id, TakeSlot(i)
    PROVE  LET new == <<cand[i], IF pc[i] = "loop" THEN "i" ELSE "j">>
           IN  Answers' = Answers \cup {new} /\ new \notin Answers
<1> DEFINE q == IF pc[i] = "loop" THEN "i" ELSE "j"
           new == <<cand[i], q>>
<1>1. /\ UNCHANGED <<main_pc, x, loop>>
      /\ \A k \in Id \ {i} : pc'[k] = pc[k] /\ cand'[k] = cand[k] /\ output_fd'[k] = output_fd[k]
  <2>1. ChildStep(i)
    BY DEF ChildStep
  <2> QED
    BY <2>1, OthersStay
<1>2. /\ UNCHANGED <<cand, output_fd>> /\ Works(i)
      /\ \/ pc[i] = "loop" /\ pc'[i] = "store_i" /\ More(i) /\ Divides(cand[i], value[i])
         \/ pc[i] = "pair" /\ pc'[i] = "store_j"
  BY DEF TakeSlot, TypeOK, Works
<1>3. cand[i] \in Share(i) /\ cand[i] \in Nat
  BY <1>2, AtWork, ShareIsTried DEF TypeOK
<1>4. ~Passed(i) /\ ~Passed(i)' /\ Works(i)'
  <2>1. Asked(i) /\ output_fd[i] = 0
    BY <1>2, AtWork
  <2>2. ~Passed(i)
    BY <2>1, TurnTypes DEF Asked, Passed
  <2> QED
    BY <1>1, <1>2, <2>2 DEF Passed, Works
<1>5. (\A k \in Id : Share(k)' = Share(k)) /\ SmallDivisors(x)' = SmallDivisors(x)
  BY <1>1, SameNumber
<1>6. ASSUME NEW k \in Id, k # i, NEW d, NEW p
      PROVE  Given(k, d, p)' = Given(k, d, p) /\ (Given(k, d, p) => d # cand[i])
  <2>1. Given(k, d, p)' = Given(k, d, p)
    BY <1>1, <1>5, <1>6 DEF Given, Works, Passed
  <2>2. cand[i] \notin Share(k)
    <3>1. x \in Nat /\ cand[i] \in SmallDivisors(x)
      BY <1>3, TurnTypes DEF Share
    <3>2. PICK j \in Id : \A n \in Id : cand[i] \in First(x, n) .. End(x, n) - 1 <=> n = j
      BY <3>1, OneShare
    <3> QED
      BY <1>3, <1>6, <3>2 DEF Share
  <2> QED
    BY <2>1, <2>2 DEF Given
<1>7. ASSUME NEW d, NEW p \in {"i", "j"}
      PROVE  /\ Given(i, d, p)' <=> Given(i, d, p) \/ (d = cand[i] /\ p = q)
             /\ ~(Given(i, d, p) /\ d = cand[i] /\ p = q)
  <2>1. ~(cand[i] < cand[i])
    BY <1>3
  <2> QED
    BY <1>2, <1>3, <1>4, <1>5, <2>1 DEF Given
<1>8. new \in SmallDivisors(x) \X {"i", "j"} /\ new[1] = cand[i] /\ new[2] = q
  BY <1>3 DEF Share
<1>9. ASSUME NEW a \in SmallDivisors(x) \X {"i", "j"}
      PROVE  /\ (\E k \in Id : Given(k, a[1], a[2])') <=>
                   (\E k \in Id : Given(k, a[1], a[2])) \/ (a[1] = cand[i] /\ a[2] = q)
             /\ ~((\E k \in Id : Given(k, a[1], a[2])) /\ a[1] = cand[i] /\ a[2] = q)
  <2>1. a[2] \in {"i", "j"}
    OBVIOUS
  <2> HIDE DEF q
  <2> QED
    BY <1>6, <1>7, <2>1
<1>10. ASSUME NEW a \in SmallDivisors(x) \X {"i", "j"} PROVE a = new <=> a[1] = cand[i] /\ a[2] = q
  BY DEF q
<1>11. Answers' = {a \in SmallDivisors(x) \X {"i", "j"} : \E k \in Id : Given(k, a[1], a[2])'}
  BY <1>5 DEF Answers
<1>12. Answers' = Answers \cup {new}
  <2> HIDE DEF q, new
  <2> QED
    BY <1>8, <1>9, <1>10, <1>11 DEF Answers
<1>13. new \notin Answers
  <2> HIDE DEF q, new
  <2> QED
    BY <1>8, <1>9 DEF Answers
<1> QED
  BY <1>12, <1>13

(* The next slot is for the answer found. *)
LEMMA HoldsTake ==
    ASSUME TypeOK, Control, NEW f, Holds(f), NEW i \in Id, TakeSlot(i)
    PROVE  \E g : Holds(g)'
<1>1. PICK new : new = <<cand[i], IF pc[i] = "loop" THEN "i" ELSE "j">>
  OBVIOUS
<1>2. Answers' = Answers \cup {new} /\ new \notin Answers
  BY <1>1, AnswersTake
<1>3. PICK n \in Nat : n = response_size
  BY InputAssumption DEF TypeOK
<1>4. /\ response_size' = n + 1 /\ UNCHANGED <<x, responses, cand>> /\ slot'[i] = n
      /\ pc'[i] = (IF pc[i] = "loop" THEN "store_i" ELSE "store_j") /\ ~Storing(i) /\ ChildStep(i)
  BY <1>3 DEF TakeSlot, TypeOK, Storing, mainVars, ChildStep
<1>5. \A k \in Id \ {i} : pc'[k] = pc[k] /\ cand'[k] = cand[k] /\ slot'[k] = slot[k]
  BY <1>4, OthersStay
<1> DEFINE g == [s \in 0 .. n |-> IF s < n THEN f[s] ELSE new]
<1>6. /\ \A s \in 0 .. n - 1 : s \in 0 .. n /\ s < n /\ g[s] = f[s]
      /\ n \in 0 .. n /\ g[n] = new /\ ~(n < n)
      /\ \A s \in 0 .. n : s \in 0 .. n - 1 \/ s = n
      /\ n + 1 - 1 = n
  OBVIOUS
<1>7. /\ f \in [0 .. n - 1 -> Answers]
      /\ \A s, t \in 0 .. n - 1 : f[s] = f[t] => s = t
      /\ \A a \in Answers : \E s \in 0 .. n - 1 : f[s] = a
      /\ \A s \in 0 .. n - 1 : responses[s] = Shown(f[s]) \/ \E k \in Id : Storing(k) /\ slot[k] = s
      /\ \A k \in Id : Storing(k) =>
            /\ slot[k] \in 0 .. n - 1
            /\ f[slot[k]] = <<cand[k], IF pc[k] = "store_i" THEN "i" ELSE "j">>
  BY <1>3 DEF Holds
<1>8. g \in [0 .. n -> Answers']
  BY <1>2, <1>6, <1>7
<1> HIDE DEF g
<1>9. \A s, t \in 0 .. n : g[s] = g[t] => s = t
  BY <1>2, <1>6, <1>7
<1>10. \A a \in Answers' : \E s \in 0 .. n : g[s] = a
  BY <1>2, <1>6, <1>7
<1>11. \A k \in Id : Storing(k) => k # i /\ Storing(k)' /\ slot'[k] = slot[k]
  BY <1>4, <1>5 DEF Storing
<1>12. Storing(i)'
  BY <1>4 DEF Storing
<1>13. \A s \in 0 .. n : responses[s] = Shown(g[s]) \/ \E k \in Id : Storing(k)' /\ slot'[k] = s
  BY <1>4, <1>6, <1>7, <1>11, <1>12
<1>14. ASSUME NEW k \in Id, Storing(k)'
       PROVE  slot'[k] \in 0 .. n /\ g[slot'[k]] = <<cand'[k], IF pc'[k] = "store_i" THEN "i" ELSE "j">>
  <2>1. CASE k = i
    BY <1>1, <1>4, <1>6, <2>1
  <2>2. CASE k # i
    <3>1. Storing(k) /\ pc'[k] = pc[k] /\ cand'[k] = cand[k] /\ slot'[k] = slot[k]
      BY <1>5, <1>14, <2>2 DEF Storing
    <3> QED
      BY <1>6, <1>7, <3>1
  <2> QED
    BY <2>1, <2>2
<1>15. \A a : Shown(a)' = Shown(a)
  BY <1>4, SameNumber
<1>16. Holds(g)'
  BY <1>4, <1>6, <1>8, <1>9, <1>10, <1>13, <1>14, <1>15 DEF Holds
<1> QED
  BY <1>16

-------------------------------------------------------------------------------
(***************************************************************************)
(* The divisors: all of it from step to step                               *)
(***************************************************************************)

(* The candidates of a number and their quotients are twice as many. *)
LEMMA TwiceAsMany ==
    ASSUME NEW v \in Nat
    PROVE  /\ IsFiniteSet(SmallDivisors(v)) /\ Cardinality(SmallDivisors(v)) \in Nat
           /\ IsFiniteSet(SmallDivisors(v) \X {"i", "j"})
           /\ Cardinality(SmallDivisors(v) \X {"i", "j"}) = 2 * Cardinality(SmallDivisors(v))
<1>1. IsFiniteSet(SmallDivisors(v))
  <2>1. SmallDivisors(v) \in SUBSET (2 .. v) /\ 2 \in Int /\ v \in Int
    BY DEF SmallDivisors
  <2> QED
    BY <2>1, FS_Interval, FS_Subset
<1>2. IsFiniteSet({"i", "j"}) /\ Cardinality({"i", "j"}) = 2
  <2>1. IsFiniteSet({"i"}) /\ Cardinality({"i"}) = 1
    BY FS_Singleton
  <2>2. {"i", "j"} = {"i"} \cup {"j"} /\ "j" \notin {"i"}
    OBVIOUS
  <2>3. IsFiniteSet({"i"} \cup {"j"}) /\ Cardinality({"i"} \cup {"j"}) = 1 + 1
    BY <2>1, <2>2, FS_AddElement
  <2> QED
    BY <2>2, <2>3
<1>3. Cardinality(SmallDivisors(v)) \in Nat
  BY <1>1, FS_CardinalityType
<1>4. /\ IsFiniteSet(SmallDivisors(v) \X {"i", "j"})
      /\ Cardinality(SmallDivisors(v) \X {"i", "j"}) = Cardinality(SmallDivisors(v)) * 2
  BY <1>1, <1>2, FS_Product
<1> QED
  BY <1>1, <1>3, <1>4

(* How many slots hold different answers. *)
LEMMA SlotsOfAnswers ==
    ASSUME NEW v \in Nat, NEW A \in SUBSET (SmallDivisors(v) \X {"i", "j"}), NEW r \in Nat,
           NEW f \in Injection(0 .. r - 1, A)
    PROVE  /\ r <= 2 * Cardinality(SmallDivisors(v))
           /\ f \in Surjection(0 .. r - 1, A) => r = Cardinality(A)
<1>1. IsFiniteSet(A) /\ Cardinality(A) <= 2 * Cardinality(SmallDivisors(v)) /\ Cardinality(A) \in Nat
  <2>1. PICK T : T = SmallDivisors(v) \X {"i", "j"}
    OBVIOUS
  <2>2. IsFiniteSet(T) /\ Cardinality(T) = 2 * Cardinality(SmallDivisors(v)) /\ A \in SUBSET T
    BY <2>1, TwiceAsMany
  <2>3. IsFiniteSet(A) /\ Cardinality(A) <= Cardinality(T)
    BY <2>2, FS_Subset
  <2> QED
    BY <2>2, <2>3, FS_CardinalityType
<1>2. Cardinality(0 .. r - 1) = r
  <2>1. 0 \in Int /\ r - 1 \in Int /\ (0 > r - 1 <=> r = 0) /\ r - 1 - 0 + 1 = r
    OBVIOUS
  <2> QED
    BY <2>1, FS_Interval
<1>3. r <= Cardinality(A) /\ (r = Cardinality(A) <=> f \in Surjection(0 .. r - 1, A))
  BY <1>1, <1>2, FS_Injection
<1>4. Cardinality(SmallDivisors(v)) \in Nat
  BY TwiceAsMany
<1> QED
  BY <1>1, <1>3, <1>4

(* The answers fit the page. *)
LEMMA AnswersFit ==
    ASSUME NEW v \in Value \cup {0}, NEW A \in SUBSET (SmallDivisors(v) \X {"i", "j"}), NEW r \in Nat,
           NEW f \in Injection(0 .. r - 1, A)
    PROVE  r <= PAGE_RESPONSES
<1>1. v \in Nat /\ PAGE_RESPONSES \in Nat
  BY InputAssumption
<1>2. r <= 2 * Cardinality(SmallDivisors(v)) /\ Cardinality(SmallDivisors(v)) \in Nat
  BY <1>1, SlotsOfAnswers, TwiceAsMany
<1>3. 2 * Cardinality(SmallDivisors(v)) <= PAGE_RESPONSES
  <2>1. CASE v \in Value
    BY <2>1, InputAssumption
  <2>2. CASE v = 0
    <3>1. SmallDivisors(v) = {}
      BY <2>2 DEF SmallDivisors
    <3> QED
      BY <1>1, <3>1, FS_EmptySet
  <2> QED
    BY <2>1, <2>2
<1> QED
  BY <1>1, <1>2, <1>3

(* There are no answers before the first number. *)
LEMMA DivisorsInit == Init => IInv
<1> SUFFICES ASSUME Init PROVE IInv
  OBVIOUS
<1>1. TypeOK
  BY InputAssumption DEF Init, TypeOK
<1> QED
  BY <1>1, ControlInit DEF Init, IInv

(* Each number starts with no answers, and their slots stay theirs. *)
LEMMA HoldsNext ==
    ASSUME TypeOK, Control, Next, main_pc' # "scan",
           main_pc # "scan" => \E f \in [0 .. response_size - 1 -> Answers] : Holds(f)
    PROVE  \E f : Holds(f)'
<1>1. CASE ReadNumber
  <2>1. /\ main_pc = "scan" /\ main_pc' = "request" /\ response_size' = 0
        /\ UNCHANGED <<pc, output_fd>>
    BY <1>1 DEF ReadNumber, childVars
  <2>2. \A i \in Id : Rests(i)
    BY <2>1 DEF Control, Asked
  <2>3. \A i \in Id : ~Passed(i)' /\ ~Works(i)' /\ ~Storing(i)'
    BY <2>1, <2>2 DEF Rests, Passed, Works, Storing
  <2>4. \A i \in Id : \A d, q : ~Given(i, d, q)'
    BY <2>3 DEF Given, Works
  <2>5. Answers' = {}
    BY <2>4 DEF Answers
  <2>6. 0 .. response_size' - 1 = {}
    BY <2>1
  <2>7. PICK f : f = [s \in {} |-> 0]
    OBVIOUS
  <2>8. f \in [0 .. response_size' - 1 -> Answers']
    BY <2>6, <2>7
  <2>9. Holds(f)'
    BY <2>3, <2>5, <2>6, <2>8 DEF Holds
  <2> QED
    BY <2>9
<1>2. CASE Report
  BY <1>2 DEF Report
<1>3. ASSUME main_pc # "scan" PROVE \E f : Holds(f)
  BY <1>3
<1>4. CASE Request \/ AllRequested \/ Collect \/ AllCollected
  <2>1. main_pc # "scan"
    BY <1>4 DEF Request, AllRequested, Collect, AllCollected
  <2> QED
    BY <1>3, <1>4, <2>1, HoldsMain
<1>5. ASSUME NEW i \in Id, ChildStep(i) PROVE \E f : Holds(f)'
  <2>1. main_pc' = main_pc
    BY <1>5, OthersStay
  <2>2. PICK f : Holds(f)
    BY <1>3, <2>1
  <2>3. CASE ReadInput(i) \/ Skip(i) \/ WriteOutput(i)
    BY <2>2, <2>3, HoldsQuiet
  <2>4. CASE StoreCandidate(i) \/ StoreQuotient(i)
    BY <2>2, <2>4, HoldsStore
  <2>5. CASE TakeSlot(i)
    BY <2>2, <2>5, HoldsTake
  <2> QED
    BY <1>5, <2>3, <2>4, <2>5 DEF ChildStep
<1> QED
  BY <1>1, <1>2, <1>4, <1>5 DEF Next, MainStep

(* The types, where main steps. *)
LEMMA TypesMain ==
    ASSUME TypeOK, Control, MainStep
    PROVE  TypeOK'
<1> USE InputAssumption DEF TypeOK, childVars
<1>0. loop \in 0 .. THREADS /\ THREADS \in Nat /\ x \in Nat
  BY TurnTypes
<1>1. CASE ReadNumber
  <2>1. x' \in Nat
    BY <1>1 DEF ReadNumber
  <2> QED
    BY <1>0, <1>1, <2>1 DEF ReadNumber
<1>2. CASE Request
  BY <1>0, <1>2, TurnTypes, SMTT(20) DEF Request
<1>3. CASE AllRequested
  BY <1>0, <1>3 DEF AllRequested
<1>4. CASE Collect
  <2>1. loop \in Id /\ loop + 1 \in 0 .. THREADS
    BY <1>0, <1>4 DEF Collect, Id
  <2> QED
    BY <1>0, <1>4, <2>1 DEF Collect
<1>5. CASE AllCollected
  BY <1>0, <1>5 DEF AllCollected
<1>6. CASE Report
  BY <1>0, <1>6 DEF Report
<1> QED
  BY <1>1, <1>2, <1>3, <1>4, <1>5, <1>6 DEF MainStep

(* And where a child does: it stores in a slot it has taken. *)
LEMMA TypesChild ==
    ASSUME TypeOK, Control, NEW i \in Id, ChildStep(i), response_size' <= PAGE_RESPONSES,
           Storing(i) => slot[i] \in 0 .. response_size - 1
    PROVE  TypeOK'
<1> USE InputAssumption DEF TypeOK, mainVars
<1>0. x \in Nat /\ \A v \in Nat : First(v, i) \in Nat
  <2>1. \A v \in Nat : First(v, i) \in Int /\ First(v, i) >= 2
    BY ShareBounds
  <2>2. \A v \in Nat : First(v, i) \in Nat
    BY <2>1
  <2> QED
    BY <2>2
<1>1. CASE ReadInput(i)
  BY <1>0, <1>1 DEF ReadInput
<1>2. CASE Skip(i)
  BY <1>2 DEF Skip
<1>3. CASE TakeSlot(i)
  <2>1. response_size \in Slot /\ response_size' = response_size + 1
    BY <1>3 DEF TakeSlot, Slot
  <2>2. response_size \in Nat /\ response_size' \in 0 .. PAGE_RESPONSES
    BY <2>1 DEF Slot
  <2>3. UNCHANGED <<main_pc, x, loop, requests, input_fd, output_fd, responses, value, cand>>
    BY <1>3 DEF TakeSlot
  <2>4. slot' = [slot EXCEPT ![i] = response_size]
    BY <1>3 DEF TakeSlot
  <2>5. pc' \in [Id -> {"none", "read", "loop", "store_i", "pair", "store_j"}]
        /\ \A k \in Id : k # i => pc'[k] = pc[k]
    BY <1>3 DEF TakeSlot
  <2>6. slot' \in [Id -> Nat] /\ \A k \in Id : pc'[k] \in {"store_i", "store_j"} => slot'[k] \in Slot
    BY <2>1, <2>2, <2>4, <2>5
  <2> QED
    BY <2>2, <2>3, <2>5, <2>6
<1>4. CASE StoreCandidate(i)
  BY <1>4 DEF StoreCandidate
<1>5. CASE StoreQuotient(i)
  <2>1. value[i] \div cand[i] \in Nat
    <3>1. Works(i) /\ pc[i] # "loop"
      BY <1>5 DEF StoreQuotient, Works
    <3>2. value[i] = x /\ cand[i] \in SmallDivisors(x)
      BY <3>1, AtWork DEF Share
    <3> QED
      BY <1>0, <3>2, Quotients
  <2> QED
    BY <1>5, <2>1 DEF StoreQuotient
<1>6. CASE WriteOutput(i)
  BY <1>6 DEF WriteOutput
<1> QED
  BY <1>1, <1>2, <1>3, <1>4, <1>5, <1>6 DEF ChildStep

(* The program keeps its invariant. *)
LEMMA DivisorsNext ==
    ASSUME IInv, [Next]_vars
    PROVE  IInv'
<1>1. CASE UNCHANGED vars
  <2>1. UNCHANGED <<main_pc, x, loop, requests, pc, value, cand, slot, input_fd, output_fd,
                    response_size, responses>>
    BY <1>1 DEF vars, mainVars, childVars
  <2>2. TypeOK'
    BY <2>1 DEF IInv, TypeOK
  <2>3. \A k \in Id : Share(k)' = Share(k) /\ First(x, k)' = First(x, k)
    BY <2>1, SameNumber
  <2>4. Control'
    BY <2>1, <2>3 DEF IInv, Control, Asked, Turn, Rests, Works
  <2>5. Answers' = Answers
    <3>1. \A k \in Id : \A d \in Share(k), q \in {"i", "j"} : Given(k, d, q)' = Given(k, d, q)
      BY <2>1, <2>3 DEF Given, Passed, Works
    <3> QED
      BY <2>1, <3>1, SameAnswers
  <2>6. \A f : Holds(f) => Holds(f)'
    BY <2>1, <2>5, HoldsOn DEF Storing
  <2> QED
    BY <2>1, <2>2, <2>4, <2>5, <2>6 DEF IInv
<1>2. CASE Next
  <2>1. TypeOK /\ Control /\ (main_pc # "scan" => \E f \in [0 .. response_size - 1 -> Answers] : Holds(f))
    BY DEF IInv
  <2>2. Control'
    BY <1>2, <2>1, ControlMain, ControlChild DEF Next
  <2>3. main_pc' # "scan" => \E f : Holds(f)'
    BY <1>2, <2>1, HoldsNext
  <2>4. TypeOK'
    <3>1. CASE MainStep
      BY <2>1, <3>1, TypesMain
    <3>2. ASSUME NEW i \in Id, ChildStep(i) PROVE TypeOK'
      <4>1. UNCHANGED main_pc
        BY <2>1, <3>2, OthersStay
      <4>2. Storing(i) => slot[i] \in 0 .. response_size - 1
        <5>1. Storing(i) => main_pc # "scan"
          BY <2>1, AtWork DEF Storing, Works
        <5> QED
          BY <2>1, <5>1 DEF Holds
      <4>3. CASE TakeSlot(i)
        <5>1. main_pc' # "scan"
          BY <2>1, <4>1, <4>3, AtWork DEF TakeSlot, Works
        <5>2. PICK f : Holds(f)'
          BY <2>3, <5>1
        <5>3. PICK v \in Value \cup {0} : v = x'
          BY <2>2 DEF Control
        <5>4. PICK A : A = Answers'
          OBVIOUS
        <5>5. A \in SUBSET (SmallDivisors(v) \X {"i", "j"})
          BY <5>3, <5>4 DEF Answers, SmallDivisors, Divides
        <5>6. PICK r \in Nat : r = response_size'
          BY <2>1, <4>3, InputAssumption DEF TakeSlot, TypeOK
        <5>7. f \in Injection(0 .. r - 1, A)
          BY <5>2, <5>4, <5>6 DEF Holds, Injection, IsInjective
        <5>8. r <= PAGE_RESPONSES
          BY <5>5, <5>7, AnswersFit
        <5> QED
          BY <2>1, <3>2, <4>2, <5>6, <5>8, TypesChild
      <4>4. CASE ~TakeSlot(i)
        <5>1. response_size' = response_size
          BY <3>2, <4>4 DEF ChildStep, ReadInput, Skip, StoreCandidate, StoreQuotient, WriteOutput
        <5>2. response_size' <= PAGE_RESPONSES
          BY <2>1, <5>1, InputAssumption DEF TypeOK
        <5> QED
          BY <2>1, <3>2, <4>2, <5>2, TypesChild
      <4> QED
        BY <4>3, <4>4
    <3> QED
      BY <1>2, <3>1, <3>2 DEF Next
  <2>5. \A f : Holds(f)' => f \in [0 .. response_size' - 1 -> Answers']
    BY DEF Holds
  <2> QED
    BY <2>2, <2>3, <2>4, <2>5 DEF IInv
<1> QED
  BY <1>1, <1>2

-------------------------------------------------------------------------------
(***************************************************************************)
(* The divisors: what main prints                                          *)
(***************************************************************************)

(* Which answers show a number: a divisor is shown once, its quotient too, *)
(* and a square root twice.                                                *)
LEMMA WhoShows ==
    ASSUME x \in Nat, NEW d \in SmallDivisors(x), NEW a \in SmallDivisors(x) \X {"i", "j"}
    PROVE  /\ d * d # x => /\ Shown(a) = d <=> a = <<d, "i">>
                           /\ Shown(a) = x \div d <=> a = <<d, "j">>
           /\ d * d = x => (Shown(a) = d <=> a = <<d, "i">> \/ a = <<d, "j">>)
<1>1. PICK c \in SmallDivisors(x), q \in {"i", "j"} : a = <<c, q>>
  OBVIOUS
<1>2. PICK v \in Nat : v = x
  OBVIOUS
<1>3. Shown(a) = IF q = "i" THEN c ELSE v \div c
  BY <1>1, <1>2 DEF Shown
<1>4. /\ v \div c = d => c * d = v
      /\ c = v \div d => d * c = v
      /\ v \div c = v \div d => c = d
      /\ c * d = v => c = d
      /\ d * c = v => c = d
      /\ v \div d = d <=> d * d = v
  <2>1. /\ c * (v \div c) = v /\ d * (v \div d) = v
        /\ v \div d = d <=> d * d = v
    BY <1>2, Quotients
  <2>2. /\ c * d = v => c = d
        /\ d * c = v => d = c
        /\ v \div c = v \div d => c = d
    BY <1>2, OnePair
  <2> QED
    BY <2>1, <2>2
<1>5. a = <<d, "i">> <=> c = d /\ q = "i"
  BY <1>1
<1>6. a = <<d, "j">> <=> c = d /\ q = "j"
  BY <1>1
<1>7. ASSUME d * d # v PROVE Shown(a) = d <=> c = d /\ q = "i"
  BY <1>3, <1>4, <1>7
<1>8. ASSUME d * d # v PROVE Shown(a) = v \div d <=> c = d /\ q = "j"
  BY <1>3, <1>4, <1>8
<1>9. ASSUME d * d = v PROVE Shown(a) = d <=> c = d
  BY <1>3, <1>4, <1>9
<1> QED
  BY <1>2, <1>5, <1>6, <1>7, <1>8, <1>9

(* When main prints, all the answers are there and nobody is storing. *)
LEMMA AllGiven ==
    ASSUME IInv, main_pc = "report"
    PROVE  /\ x \in Nat /\ Answers = SmallDivisors(x) \X {"i", "j"}
           /\ \E f : Holds(f) /\ \A s \in 0 .. response_size - 1 : responses[s] = Shown(f[s])
<1>1. TypeOK /\ Control /\ \E f \in [0 .. response_size - 1 -> Answers] : Holds(f)
  BY DEF IInv
<1>2. x \in Nat /\ \A i \in Id : Passed(i) /\ ~Storing(i)
  <2>1. loop = THREADS
    BY <1>1 DEF Control
  <2>2. \A i \in Id : i < loop
    BY <1>1, <2>1, TurnTypes
  <2>3. \A i \in Id : Rests(i)
    BY <1>1 DEF Control, Asked
  <2> QED
    BY <1>1, <2>2, <2>3, TurnTypes DEF Passed, Rests, Storing
<1>3. ASSUME NEW a \in SmallDivisors(x) \X {"i", "j"} PROVE \E i \in Id : Given(i, a[1], a[2])
  <2>1. a[1] \in SmallDivisors(x)
    OBVIOUS
  <2>2. PICK i \in Id : a[1] \in First(x, i) .. End(x, i) - 1
    BY <1>2, <2>1, OneShare
  <2> QED
    BY <1>2, <2>1, <2>2 DEF Given, Share
<1>4. Answers = SmallDivisors(x) \X {"i", "j"}
  BY <1>3 DEF Answers
<1>5. \A f : Holds(f) => \A s \in 0 .. response_size - 1 : responses[s] = Shown(f[s])
  BY <1>2 DEF Holds
<1> QED
  BY <1>1, <1>2, <1>4, <1>5

(* So they are all printed. *)
LEMMA AnswerIsComplete == IInv => AnswerComplete
<1> SUFFICES ASSUME IInv, main_pc = "report"
             PROVE  /\ response_size = 2 * Cardinality(SmallDivisors(x))
                    /\ \A d \in SmallDivisors(x) :
                          IF d * d = x THEN Occurs(d) = 2
                                       ELSE Occurs(d) = 1 /\ Occurs(x \div d) = 1
  BY DEF AnswerComplete
<1>1. PICK f : Holds(f) /\ \A s \in 0 .. response_size - 1 : responses[s] = Shown(f[s])
  BY AllGiven
<1>2. PICK r \in Nat : r = response_size
  BY InputAssumption DEF IInv, TypeOK
<1>3. x \in Nat /\ Answers = SmallDivisors(x) \X {"i", "j"}
  BY AllGiven
<1>4. /\ f \in [0 .. r - 1 -> Answers]
      /\ \A s, t \in 0 .. r - 1 : f[s] = f[t] => s = t
      /\ \A a \in Answers : \E s \in 0 .. r - 1 : f[s] = a
      /\ \A s \in 0 .. r - 1 : responses[s] = Shown(f[s])
  BY <1>1, <1>2 DEF Holds
<1>5. response_size = 2 * Cardinality(SmallDivisors(x))
  <2>0. PICK v \in Nat : v = x
    BY <1>3
  <2>1. PICK A : A = SmallDivisors(v) \X {"i", "j"} /\ A = Answers
    BY <1>3, <2>0
  <2>2. A \in SUBSET (SmallDivisors(v) \X {"i", "j"}) /\ f \in [0 .. r - 1 -> A]
    BY <1>4, <2>1
  <2>3. f \in Injection(0 .. r - 1, A) /\ f \in Surjection(0 .. r - 1, A)
    BY <1>4, <2>1, <2>2 DEF Injection, IsInjective, Surjection
  <2>4. r = Cardinality(A)
    BY <2>2, <2>3, SlotsOfAnswers
  <2>5. Cardinality(A) = 2 * Cardinality(SmallDivisors(v))
    BY <2>1, TwiceAsMany
  <2> QED
    BY <1>2, <2>0, <2>4, <2>5
<1>6. ASSUME NEW e, NEW b \in Answers, \A a \in Answers : Shown(a) = e <=> a = b
      PROVE  Occurs(e) = 1
  <2>1. PICK s \in 0 .. r - 1 : f[s] = b
    BY <1>4
  <2>2. \A t \in 0 .. r - 1 : responses[t] = e <=> t = s
    BY <1>4, <1>6, <2>1
  <2>3. {t \in 0 .. response_size - 1 : responses[t] = e} = {s}
    BY <1>2, <2>2
  <2> QED
    BY <2>3, FS_Singleton DEF Occurs
<1>7. ASSUME NEW e, NEW b \in Answers, NEW c \in Answers, b # c,
             \A a \in Answers : Shown(a) = e <=> a = b \/ a = c
      PROVE  Occurs(e) = 2
  <2>1. PICK s \in 0 .. r - 1, u \in 0 .. r - 1 : f[s] = b /\ f[u] = c
    BY <1>4
  <2>2. \A t \in 0 .. r - 1 : responses[t] = e <=> t = s \/ t = u
    BY <1>4, <1>7, <2>1
  <2>3. {t \in 0 .. response_size - 1 : responses[t] = e} = {s} \cup {u}
    BY <1>2, <2>2
  <2>4. IsFiniteSet({s}) /\ Cardinality({s}) = 1 /\ u \notin {s}
    BY <1>7, <2>1, FS_Singleton
  <2>5. Cardinality({s} \cup {u}) = 1 + 1
    BY <2>4, FS_AddElement
  <2>6. Occurs(e) = Cardinality({s} \cup {u})
    BY <2>3, Zenon DEF Occurs
  <2> QED
    BY <2>5, <2>6
<1>8. ASSUME NEW d \in SmallDivisors(x), d * d = x PROVE Occurs(d) = 2
  <2>1. \A a \in Answers : Shown(a) = d <=> a = <<d, "i">> \/ a = <<d, "j">>
    BY <1>3, <1>8, WhoShows
  <2>2. <<d, "i">> \in Answers /\ <<d, "j">> \in Answers /\ <<d, "i">> # <<d, "j">>
    BY <1>3
  <2> QED
    BY <1>7, <2>1, <2>2
<1>9. ASSUME NEW d \in SmallDivisors(x), d * d # x PROVE Occurs(d) = 1 /\ Occurs(x \div d) = 1
  <2>1. \A a \in Answers : (Shown(a) = d <=> a = <<d, "i">>) /\ (Shown(a) = x \div d <=> a = <<d, "j">>)
    BY <1>3, <1>9, WhoShows
  <2>2. <<d, "i">> \in Answers /\ <<d, "j">> \in Answers
    BY <1>3
  <2> QED
    BY <1>6, <2>1, <2>2
<1> QED
  BY <1>5, <1>8, <1>9

(* The children rest before main reads a number and when it prints. *)
LEMMA DivisorsIsSafe == IInv => Safety
<1> SUFFICES ASSUME IInv PROVE Safety
  OBVIOUS
<1>1. TypeOK /\ Control
  BY DEF IInv
<1>2. QuietBetweenRequests
  BY <1>1 DEF Control, Asked, Rests, QuietBetweenRequests
<1> QED
  BY <1>1, <1>2, SharesOnce DEF Safety

(* The candidates of every number are shared out between the children,     *)
(* each given to one of them, and all of them wait while main prints or    *)
(* resets the size of the answer (loop_fd and main).                       *)
THEOREM DivisorsShared == AnySpec => []Safety
<1>1. AnyInit => IInv
  BY DivisorsInit DEF AnyInit
<1>2. IInv /\ [AnyNext]_allVars => IInv'
  BY EachProgramSteps, DivisorsNext
<1> QED
  BY <1>1, <1>2, DivisorsIsSafe, PTL DEF AnySpec

(* Whatever the order in which the children take slots of the shared       *)
(* memory and store in them, main prints each divisor of the number but 1  *)
(* and itself once, a square root twice, and nothing else (loop_fd).       *)
THEOREM AnswersAll == AnySpec => []AnswerComplete
<1>1. AnyInit => IInv
  BY DivisorsInit DEF AnyInit
<1>2. IInv /\ [AnyNext]_allVars => IInv'
  BY EachProgramSteps, DivisorsNext
<1> QED
  BY <1>1, <1>2, AnswerIsComplete, PTL DEF AnySpec
==============================================================================
