-------------------------- MODULE EchoServer_proofs ----------------------------
(***************************************************************************)
(* Proofs about the echo server and its clients, for any clients, limits   *)
(* and sizes.                                                              *)
(***************************************************************************)
EXTENDS EchoServer, SequenceTheorems, TLAPS

-------------------------------------------------------------------------------
(***************************************************************************)
(* Streams                                                                 *)
(***************************************************************************)

(* The numbers of a run, in order. *)
LEMMA RunIs ==
    ASSUME NEW S, NEW a \in Int, NEW n \in Nat, a .. a + n - 1 \subseteq S
    PROVE  /\ Run(a, n) \in Seq(S) /\ Len(Run(a, n)) = n
           /\ \A i \in 1 .. n : Run(a, n)[i] = a + i - 1
<1>1. \A i \in 1 .. n : a + i - 1 \in S
  OBVIOUS
<1> QED
  BY <1>1 DEF Run

LEMMA RunInt ==
    ASSUME NEW a \in Int, NEW n \in Nat
    PROVE  /\ Run(a, n) \in Seq(Int) /\ Len(Run(a, n)) = n
           /\ \A i \in 1 .. n : Run(a, n)[i] = a + i - 1
<1>1. a .. a + n - 1 \subseteq Int
  OBVIOUS
<1> QED
  BY <1>1, RunIs

(* A stream with these numbers is the run. *)
LEMMA IsRun ==
    ASSUME NEW a \in Int, NEW n \in Nat, NEW s \in Seq(Int), Len(s) = n,
           \A i \in 1 .. n : s[i] = a + i - 1
    PROVE  s = Run(a, n)
<1>1. /\ Run(a, n) \in Seq(Int) /\ Len(Run(a, n)) = n
      /\ \A i \in 1 .. n : Run(a, n)[i] = a + i - 1
  BY RunInt
<1>2. Len(s) = Len(Run(a, n))
  BY <1>1
<1>3. \A i \in 1 .. Len(s) : s[i] = Run(a, n)[i]
  BY <1>1
<1> QED
  BY <1>1, <1>2, <1>3, SeqEqual

(* One run goes on where another ends. *)
LEMMA RunsJoin ==
    ASSUME NEW a \in Int, NEW m \in Nat, NEW n \in Nat
    PROVE  Run(a, m) \o Run(a + m, n) = Run(a, m + n)
<1> DEFINE s == Run(a, m)
           t == Run(a + m, n)
<1>1. s \in Seq(Int) /\ Len(s) = m /\ \A i \in 1 .. m : s[i] = a + i - 1
  BY RunInt
<1>2. t \in Seq(Int) /\ Len(t) = n /\ \A i \in 1 .. n : t[i] = a + m + i - 1
  BY RunInt
<1> HIDE DEF s, t
<1>3. /\ s \o t \in Seq(Int) /\ Len(s \o t) = Len(s) + Len(t)
      /\ \A i \in 1 .. Len(s) + Len(t) : (s \o t)[i] = IF i <= Len(s) THEN s[i] ELSE t[i - Len(s)]
  BY <1>1, <1>2, ConcatProperties
<1>4. ASSUME NEW i \in 1 .. m + n PROVE (s \o t)[i] = a + i - 1
  <2>1. CASE i <= m
    BY <1>1, <1>2, <1>3, <2>1
  <2>2. CASE ~(i <= m)
    <3>1. i - m \in 1 .. n /\ a + m + (i - m) - 1 = a + i - 1
      BY <2>2
    <3> QED
      BY <1>1, <1>2, <1>3, <2>2, <3>1
  <2> QED
    BY <2>1, <2>2
<1>5. /\ s \o t \in Seq(Int) /\ Len(s \o t) = m + n /\ m + n \in Nat
      /\ \A i \in 1 .. m + n : (s \o t)[i] = a + i - 1
  BY <1>1, <1>2, <1>3, <1>4
<1>6. s \o t = Run(a, m + n)
  BY <1>5, IsRun
<1> QED
  BY <1>6 DEF s, t

LEMMA Associates ==
    ASSUME NEW s \in Seq(Int), NEW t \in Seq(Int), NEW u \in Seq(Int)
    PROVE  (s \o t) \o u = s \o (t \o u)
  BY ConcatAssociative

(* A stream is what is taken of it with the rest behind. *)
LEMMA Cut ==
    ASSUME NEW S, NEW s \in Seq(S), NEW n \in 0 .. Len(s)
    PROVE  /\ SubSeq(s, 1, n) \in Seq(S) /\ Len(SubSeq(s, 1, n)) = n
           /\ Drop(s, n) \in Seq(S) /\ Len(Drop(s, n)) = Len(s) - n
           /\ \A i \in 1 .. Len(s) - n : Drop(s, n)[i] = s[i + n]
           /\ SubSeq(s, 1, n) \o Drop(s, n) = s
<1>1. /\ Len(s) \in Nat /\ n \in Nat /\ n <= Len(s) /\ n \in Int /\ n + 1 \in Int /\ Len(s) \in Int
      /\ 1 \in 1 .. Len(s) + 1 /\ n \in 1 - 1 .. Len(s) /\ Len(s) \in n .. Len(s)
  BY LenProperties
<1>2. \A k \in 1 .. n : s[k] \in S
  BY <1>1, ElementOfSeq
<1>3. \A k \in n + 1 .. Len(s) : s[k] \in S
  BY <1>1, ElementOfSeq
<1>4. SubSeq(s, 1, n) \in Seq(S) /\ Len(SubSeq(s, 1, n)) = IF 1 <= n THEN n - 1 + 1 ELSE 0
  BY <1>1, <1>2, SubSeqProperties
<1>5. SubSeq(s, 1, n) \in Seq(S) /\ Len(SubSeq(s, 1, n)) = n
  BY ONLY <1>1, <1>4
<1> DEFINE d == SubSeq(s, n + 1, Len(s))
<1>6. /\ d \in Seq(S)
      /\ Len(d) = IF n + 1 <= Len(s) THEN Len(s) - (n + 1) + 1 ELSE 0
      /\ \A i \in 1 .. Len(s) - (n + 1) + 1 : d[i] = s[n + 1 + i - 1]
  BY <1>1, <1>3, SubSeqProperties
<1> HIDE DEF d
<1>7. Len(d) = Len(s) - n
  BY ONLY <1>1, <1>6
<1>8. ASSUME NEW i \in 1 .. Len(s) - n PROVE d[i] = s[i + n]
  <2>1. i \in 1 .. Len(s) - (n + 1) + 1 /\ n + 1 + i - 1 = i + n
    BY ONLY <1>1, <1>8
  <2>2. d[i] = s[n + 1 + i - 1]
    BY ONLY <1>6, <2>1
  <2> QED
    BY ONLY <2>1, <2>2
<1>9. SubSeq(s, 1, n) \o SubSeq(s, n + 1, Len(s)) = SubSeq(s, 1, Len(s))
  BY <1>1, ConcatAdjacentSubSeq
<1>10. SubSeq(s, 1, Len(s)) = s
  BY SubSeqFull
<1> QED
  BY <1>5, <1>6, <1>7, <1>8, <1>9, <1>10, Zenon DEF Drop, d

(* What is dropped from the front of a run leaves a later one. *)
LEMMA RunDrops ==
    ASSUME NEW s \in Seq(Int), NEW t \in Seq(Int), NEW n \in 0 .. Len(s),
           NEW a \in Int, NEW m \in Nat, s \o t = Run(a, m)
    PROVE  n <= m /\ Drop(s, n) \o t = Run(a + n, m - n)
<1>1. Len(s) \in Nat /\ Len(t) \in Nat
  BY LenProperties
<1>2. /\ s \o t \in Seq(Int) /\ Len(s \o t) = Len(s) + Len(t)
      /\ \A i \in 1 .. Len(s) + Len(t) : (s \o t)[i] = IF i <= Len(s) THEN s[i] ELSE t[i - Len(s)]
  BY ConcatProperties
<1>3. Len(Run(a, m)) = m /\ \A i \in 1 .. m : Run(a, m)[i] = a + i - 1
  BY RunInt
<1>4. Len(s) + Len(t) = m
  BY <1>2, <1>3
<1>5. n <= m
  BY ONLY <1>1, <1>4, n \in 0 .. Len(s), m \in Nat
<1> DEFINE d == Drop(s, n)
<1>6. d \in Seq(Int) /\ Len(d) = Len(s) - n /\ \A i \in 1 .. Len(s) - n : d[i] = s[i + n]
  BY Cut
<1> HIDE DEF d
<1>7. /\ d \o t \in Seq(Int) /\ Len(d \o t) = Len(d) + Len(t)
      /\ \A i \in 1 .. Len(d) + Len(t) : (d \o t)[i] = IF i <= Len(d) THEN d[i] ELSE t[i - Len(d)]
  BY <1>6, ConcatProperties
<1>8. Len(d \o t) = m - n
  BY <1>1, <1>4, <1>6, <1>7
<1>9. ASSUME NEW i \in 1 .. m - n PROVE (d \o t)[i] = a + n + i - 1
  <2>1. i + n \in 1 .. m /\ (s \o t)[i + n] = a + n + i - 1
    BY <1>3, <1>4
  <2>2. CASE i <= Len(d)
    <3>1. i \in 1 .. Len(s) - n /\ i + n <= Len(s) /\ i \in 1 .. Len(d) + Len(t)
      BY <1>1, <1>4, <1>6, <2>2
    <3>2. (d \o t)[i] = s[i + n]
      BY <1>6, <1>7, <2>2, <3>1
    <3>3. (s \o t)[i + n] = s[i + n]
      BY <1>2, <1>4, <2>1, <3>1
    <3> QED
      BY <2>1, <3>2, <3>3
  <2>3. CASE ~(i <= Len(d))
    <3>1. ~(i + n <= Len(s)) /\ i \in 1 .. Len(d) + Len(t) /\ i - Len(d) = i + n - Len(s)
      BY <1>1, <1>4, <1>6, <2>3
    <3>2. (d \o t)[i] = t[i - Len(d)]
      BY <1>7, <2>3, <3>1
    <3>3. (s \o t)[i + n] = t[i + n - Len(s)]
      <4>1. i + n \in 1 .. Len(s) + Len(t)
        BY ONLY <1>4, <2>1
      <4> QED
        BY ONLY <1>2, <4>1, <3>1
    <3> QED
      BY <2>1, <3>1, <3>2, <3>3
  <2> QED
    BY <2>2, <2>3
<1>10. d \o t = Run(a + n, m - n)
  <2>1. a + n \in Int /\ m - n \in Nat
    BY <1>4
  <2> QED
    BY <1>7, <1>8, <1>9, <2>1, IsRun
<1> QED
  BY <1>5, <1>10 DEF d

(* Runs of the bytes a client can get are streams of its own. *)
LEMMA StreamOfRun ==
    ASSUME NEW c \in Client, NEW a \in Int, NEW n \in Nat,
           1 - Greeting <= a, a + n - 1 <= MaxSent[c]
    PROVE  Run(a, n) \in Stream(c)
<1>1. MaxSent[c] \in Nat /\ Greeting \in Nat
  BY ServerAssumption
<1>2. a .. a + n - 1 \subseteq 1 - Greeting .. MaxSent[c]
  BY ONLY <1>1, a \in Int, n \in Nat, 1 - Greeting <= a, a + n - 1 <= MaxSent[c]
<1> QED
  BY <1>2, RunIs DEF Stream

(* Streams are joined and cut into streams. *)
LEMMA StreamsJoin ==
    ASSUME NEW c \in Client, NEW s \in Stream(c), NEW t \in Stream(c)
    PROVE  s \o t \in Stream(c)
  BY ConcatProperties DEF Stream

LEMMA StreamCut ==
    ASSUME NEW c \in Client, NEW s \in Stream(c), NEW n \in 0 .. Len(s)
    PROVE  /\ SubSeq(s, 1, n) \in Stream(c) /\ Len(SubSeq(s, 1, n)) = n
           /\ Drop(s, n) \in Stream(c)
  BY Cut DEF Stream

LEMMA StreamIsSeq ==
    ASSUME NEW c \in Client, NEW s \in Stream(c)
    PROVE  s \in Seq(Int) /\ Len(s) \in Nat
<1>1. Len(s) \in Nat /\ s \in Seq(1 - Greeting .. MaxSent[c])
  BY LenProperties DEF Stream
<1>2. 1 - Greeting .. MaxSent[c] \subseteq Int
  OBVIOUS
<1> QED
  BY <1>1, <1>2, SeqMonotonic

(* One step changes one client's entry of a function. *)
LEMMA EntryChanges ==
    ASSUME NEW f, NEW g, NEW c \in Client, NEW x, NEW S,
           f \in [Client -> S], x \in S, g = [f EXCEPT ![c] = x]
    PROVE  /\ g \in [Client -> S] /\ g[c] = x
           /\ \A d \in Client : d # c => g[d] = f[d]
  OBVIOUS

-------------------------------------------------------------------------------
(***************************************************************************)
(* Types                                                                   *)
(***************************************************************************)

(* Nothing is on its way at first. *)
LEMMA InitIInv == Init => IInv
<1> SUFFICES ASSUME Init PROVE IInv
  OBVIOUS
<1> USE ServerAssumption DEF Init
<1>1. \A c \in Client : <<>> \in Stream(c) /\ <<>> \in Seq(Int) /\ Len(<<>>) = 0
  BY DEF Stream
<1>2. MaxSent \in [Client -> Nat]
  OBVIOUS
<1>3. TypeOK
  <2>1. \A c \in Client : MaxSent[c] \in Nat
    BY <1>2
  <2>2. {up, down, buf} \subseteq [Client -> Seq(Int)]
    OBVIOUS
  <2>3. \A c \in Client : up[c] = <<>> /\ down[c] = <<>> /\ buf[c] = <<>>
    OBVIOUS
  <2>4. \A c \in Client : sent[c] \in 0 .. MaxSent[c] /\ got[c] \in 0 .. Greeting + MaxSent[c]
    BY <2>1
  <2>5. {sent, got} \subseteq [Client -> Nat] /\ word \in [Client -> 0 .. WordSize]
    OBVIOUS
  <2> QED
    BY <1>1, <2>2, <2>3, <2>4, <2>5 DEF TypeOK
<1>4. Handed
  BY DEF Handed
<1>5. ASSUME NEW c \in Client PROVE Served(c)
  <2>1. Run(1, 0) = <<>>
    BY RunInt
  <2> QED
    BY <2>1 DEF Served, Unserved
<1> QED
  BY <1>3, <1>4, <1>5 DEF IInv

(* Every step leaves each variable in its type. *)
LEMMA TypeKept == IInv /\ Next => TypeOK'
<1> SUFFICES ASSUME IInv, Next PROVE TypeOK'
  OBVIOUS
<1>1. TypeOK
  BY DEF IInv
<1>2. /\ Greeting \in Nat /\ WordSize \in Nat /\ BufSize \in Nat
      /\ \A c \in Client : MaxSent[c] \in Nat
  BY ServerAssumption
<1>3. CASE \E c \in Client : Accept(c)
  BY <1>1, <1>3 DEF TypeOK, Accept, clientVars
<1>4. CASE AcceptFails
  BY <1>1, <1>4 DEF TypeOK, AcceptFails, clientVars
<1>5. CASE Fork
  <2>1. child' \in [Client -> {"none", "greet", "recv", "send", "ended"}]
    BY <1>1, <1>5 DEF TypeOK, Fork
  <2>2. children' \in 0 .. ProcessLimit
    BY <1>1, <1>5, ServerAssumption DEF TypeOK, Fork
  <2> QED
    BY <1>1, <1>5, <2>1, <2>2 DEF TypeOK, Fork, clientVars
<1>6. CASE ForkFails
  BY <1>1, <1>6 DEF TypeOK, ForkFails, clientVars
<1>7. ASSUME NEW c \in Client, Greet(c) PROVE TypeOK'
  <2> DEFINE s == Run(1 - Greeting, Greeting)
  <2>1. s \in Stream(c)
    BY <1>2, StreamOfRun
  <2>2. down[c] \o s \in Stream(c)
    BY <1>1, <2>1, StreamsJoin DEF TypeOK
  <2>3. down[c] \o s \in Seq(Int)
    BY <2>2, StreamIsSeq
  <2>4. down \in [Client -> Seq(Int)] /\ down' = [down EXCEPT ![c] = down[c] \o s]
    BY <1>1, <1>7 DEF TypeOK, Greet
  <2> HIDE DEF s
  <2>5. /\ down' \in [Client -> Seq(Int)] /\ down'[c] = down[c] \o s
        /\ \A d \in Client : d # c => down'[d] = down[d]
    BY <2>3, <2>4, EntryChanges
  <2>6. \A d \in Client : down'[d] \in Stream(d)
    BY <1>1, <2>2, <2>5 DEF TypeOK
  <2>7. child' \in [Client -> {"none", "greet", "recv", "send", "ended"}]
    BY <1>1, <1>7 DEF TypeOK, Greet, ChildGoes
  <2> QED
    BY <1>1, <1>7, <2>5, <2>6, <2>7 DEF TypeOK, Greet, serverVars, clientVars
<1>8. ASSUME NEW c \in Client, Recv(c) PROVE TypeOK'
  <2>1. PICK n \in 1 .. SmallerOf(BufSize, Len(up[c])) :
            /\ buf' = [buf EXCEPT ![c] = SubSeq(up[c], 1, n)]
            /\ up' = [up EXCEPT ![c] = Drop(up[c], n)]
    BY <1>8 DEF Recv
  <2>2. up[c] \in Stream(c) /\ buf \in [Client -> Seq(Int)] /\ up \in [Client -> Seq(Int)]
    BY <1>1 DEF TypeOK
  <2>3. n \in 0 .. Len(up[c]) /\ n <= BufSize
    BY <1>2, <2>2, StreamIsSeq DEF SmallerOf
  <2>4. /\ SubSeq(up[c], 1, n) \in Stream(c) /\ Len(SubSeq(up[c], 1, n)) <= BufSize
        /\ Drop(up[c], n) \in Stream(c)
    BY <2>2, <2>3, StreamCut
  <2>5. SubSeq(up[c], 1, n) \in Seq(Int) /\ Drop(up[c], n) \in Seq(Int)
    BY <2>4, StreamIsSeq
  <2>6. /\ buf' \in [Client -> Seq(Int)] /\ buf'[c] = SubSeq(up[c], 1, n)
        /\ \A d \in Client : d # c => buf'[d] = buf[d]
    BY <2>1, <2>2, <2>5, EntryChanges
  <2>7. /\ up' \in [Client -> Seq(Int)] /\ up'[c] = Drop(up[c], n)
        /\ \A d \in Client : d # c => up'[d] = up[d]
    BY <2>1, <2>2, <2>5, EntryChanges
  <2>8. \A d \in Client : up'[d] \in Stream(d) /\ buf'[d] \in Stream(d) /\ Len(buf'[d]) <= BufSize
    BY <1>1, <2>4, <2>6, <2>7 DEF TypeOK
  <2>9. child' \in [Client -> {"none", "greet", "recv", "send", "ended"}]
    BY <1>1, <1>8 DEF TypeOK, Recv, ChildGoes
  <2> QED
    BY <1>1, <1>8, <2>6, <2>7, <2>8, <2>9 DEF TypeOK, Recv, serverVars, clientVars
<1>9. ASSUME NEW c \in Client, Send(c) PROVE TypeOK'
  <2>1. /\ down[c] \in Stream(c) /\ buf[c] \in Stream(c)
        /\ buf \in [Client -> Seq(Int)] /\ down \in [Client -> Seq(Int)]
    BY <1>1 DEF TypeOK
  <2>2. down[c] \o buf[c] \in Stream(c)
    BY <2>1, StreamsJoin
  <2>3. down[c] \o buf[c] \in Seq(Int)
    BY <2>2, StreamIsSeq
  <2>4. <<>> \in Stream(c) /\ <<>> \in Seq(Int) /\ Len(<<>>) <= BufSize
    BY <1>2 DEF Stream
  <2>5. /\ down' = [down EXCEPT ![c] = down[c] \o buf[c]]
        /\ buf' = [buf EXCEPT ![c] = <<>>]
    BY <1>9 DEF Send
  <2>6. /\ down' \in [Client -> Seq(Int)] /\ down'[c] = down[c] \o buf[c]
        /\ \A d \in Client : d # c => down'[d] = down[d]
    BY <2>1, <2>3, <2>5, EntryChanges
  <2>7. /\ buf' \in [Client -> Seq(Int)] /\ buf'[c] = <<>>
        /\ \A d \in Client : d # c => buf'[d] = buf[d]
    BY <2>1, <2>4, <2>5, EntryChanges
  <2>8. \A d \in Client : down'[d] \in Stream(d) /\ buf'[d] \in Stream(d) /\ Len(buf'[d]) <= BufSize
    BY <1>1, <2>2, <2>4, <2>6, <2>7 DEF TypeOK
  <2>9. child' \in [Client -> {"none", "greet", "recv", "send", "ended"}]
    BY <1>1, <1>9 DEF TypeOK, Send, ChildGoes
  <2> QED
    BY <1>1, <1>9, <2>6, <2>7, <2>8, <2>9 DEF TypeOK, Send, serverVars, clientVars
<1>10. ASSUME NEW c \in Client, HangUp(c) PROVE TypeOK'
  BY <1>1, <1>10 DEF TypeOK, HangUp, ChildGoes, serverVars, clientVars
<1>11. ASSUME NEW c \in Client, Connect(c) PROVE TypeOK'
  <2>1. c \notin accepted
    BY <1>11 DEF IInv, Handed, Connect
  <2> QED
    BY <1>1, <1>11, <2>1 DEF TypeOK, Connect, ClientGoes, serverVars
<1>12. ASSUME NEW c \in Client, WriteWord(c) PROVE TypeOK'
  <2>1. PICK n \in 1 .. SmallerOf(WordSize, MaxSent[c] - sent[c]) :
            /\ up' = [up EXCEPT ![c] = up[c] \o Run(sent[c] + 1, n)]
            /\ sent' = [sent EXCEPT ![c] = sent[c] + n]
            /\ word' = [word EXCEPT ![c] = n]
    BY <1>12 DEF WriteWord
  <2>2. /\ up[c] \in Stream(c) /\ up \in [Client -> Seq(Int)] /\ sent[c] \in 0 .. MaxSent[c]
        /\ sent \in [Client -> Nat] /\ word \in [Client -> 0 .. WordSize]
    BY <1>1 DEF TypeOK
  <2>12. WordSize \in Nat /\ MaxSent[c] \in Nat /\ Greeting \in Nat
    BY <1>2
  <2>3. n \in 0 .. WordSize /\ n \in Nat /\ sent[c] + n \in 0 .. MaxSent[c] /\ sent[c] + n \in Nat
    <3>1. n \in 1 .. SmallerOf(WordSize, MaxSent[c] - sent[c]) /\ sent[c] \in 0 .. MaxSent[c]
      BY <2>1, <2>2
    <3> QED
      BY ONLY <2>12, <3>1 DEF SmallerOf
  <2>4. Run(sent[c] + 1, n) \in Stream(c)
    <3>1. sent[c] + 1 \in Int /\ 1 - Greeting <= sent[c] + 1 /\ sent[c] + 1 + n - 1 <= MaxSent[c]
      <4>1. sent[c] \in 0 .. MaxSent[c]
        BY <2>2
      <4> QED
        BY ONLY <2>3, <2>12, <4>1
    <3> QED
      BY <2>3, <3>1, StreamOfRun
  <2>5. up[c] \o Run(sent[c] + 1, n) \in Stream(c)
    BY <2>2, <2>4, StreamsJoin
  <2>6. up[c] \o Run(sent[c] + 1, n) \in Seq(Int)
    BY <2>5, StreamIsSeq
  <2>7. /\ up' \in [Client -> Seq(Int)] /\ up'[c] = up[c] \o Run(sent[c] + 1, n)
        /\ \A d \in Client : d # c => up'[d] = up[d]
    BY <2>1, <2>2, <2>6, EntryChanges
  <2>8. /\ sent' \in [Client -> Nat] /\ sent'[c] = sent[c] + n
        /\ \A d \in Client : d # c => sent'[d] = sent[d]
    BY <2>1, <2>2, <2>3, EntryChanges
  <2>9. word' \in [Client -> 0 .. WordSize]
    BY <2>1, <2>2, <2>3
  <2>10. \A d \in Client : up'[d] \in Stream(d) /\ sent'[d] \in 0 .. MaxSent[d]
    BY <1>1, <2>3, <2>5, <2>7, <2>8 DEF TypeOK
  <2>11. client' \in [Client -> {"out", "word", "read", "broken", "refused", "closed"}]
    BY <1>1, <1>12 DEF TypeOK, WriteWord, ClientGoes
  <2>13. UNCHANGED <<server, connection, accepted, children, pending, child, buf, down, got>>
    BY <1>12 DEF WriteWord, serverVars
  <2> QED
    BY <1>1, <2>7, <2>8, <2>9, <2>10, <2>11, <2>13 DEF TypeOK
<1>13. ASSUME NEW c \in Client, ReadEcho(c) PROVE TypeOK'
  <2>1. PICK n \in 1 .. SmallerOf(word[c], Len(down[c])) :
            /\ down' = [down EXCEPT ![c] = Drop(down[c], n)]
            /\ got' = [got EXCEPT ![c] = got[c] + n]
    BY <1>13 DEF ReadEcho
  <2>2. /\ down[c] \in Stream(c) /\ down \in [Client -> Seq(Int)] /\ got \in [Client -> Nat]
        /\ got[c] \in Nat /\ word[c] \in Nat /\ sent[c] \in 0 .. MaxSent[c]
    BY <1>1, <1>2 DEF TypeOK
  <2>3. n \in 0 .. Len(down[c]) /\ n <= word[c]
    BY <2>2, StreamIsSeq DEF SmallerOf
  <2>4. got[c] + word[c] <= sent[c]
    BY <1>13 DEF IInv, Served, ReadEcho
  <2>5. got[c] + n \in 0 .. Greeting + MaxSent[c] /\ got[c] + n \in Nat
    <3>1. Greeting \in Nat /\ MaxSent[c] \in Nat
      BY <1>2
    <3>2. n \in Nat /\ n <= word[c]
      BY <2>3
    <3>3. got[c] \in Nat /\ word[c] \in Nat /\ sent[c] \in 0 .. MaxSent[c]
      BY <2>2
    <3>4. got[c] + n <= MaxSent[c]
      BY ONLY <2>4, <3>1, <3>2, <3>3
    <3>5. got[c] + n \in Nat
      BY ONLY <3>2, <3>3
    <3>6. got[c] + n <= Greeting + MaxSent[c] /\ Greeting + MaxSent[c] \in Nat
      BY ONLY <3>1, <3>4, <3>5
    <3> QED
      BY ONLY <3>5, <3>6
  <2>6. Drop(down[c], n) \in Stream(c)
    BY <2>2, <2>3, StreamCut
  <2>7. Drop(down[c], n) \in Seq(Int)
    BY <2>6, StreamIsSeq
  <2>8. /\ down' \in [Client -> Seq(Int)] /\ down'[c] = Drop(down[c], n)
        /\ \A d \in Client : d # c => down'[d] = down[d]
    BY <2>1, <2>2, <2>7, EntryChanges
  <2>9. /\ got' \in [Client -> Nat] /\ got'[c] = got[c] + n
        /\ \A d \in Client : d # c => got'[d] = got[d]
    BY <2>1, <2>2, <2>5, EntryChanges
  <2>10. \A d \in Client : down'[d] \in Stream(d) /\ got'[d] \in 0 .. Greeting + MaxSent[d]
    BY <1>1, <2>5, <2>6, <2>8, <2>9 DEF TypeOK
  <2>11. client' \in [Client -> {"out", "word", "read", "broken", "refused", "closed"}]
    BY <1>1, <1>13 DEF TypeOK, ReadEcho, ClientGoes
  <2> QED
    BY <1>1, <1>13, <2>8, <2>9, <2>10, <2>11 DEF TypeOK, ReadEcho, serverVars
<1>14. ASSUME NEW c \in Client, ReadFails(c) PROVE TypeOK'
  BY <1>1, <1>14 DEF TypeOK, ReadFails, ClientGoes, serverVars
<1>15. ASSUME NEW c \in Client, Close(c) PROVE TypeOK'
  BY <1>1, <1>15 DEF TypeOK, Close, ClientGoes, serverVars
<1> QED
  BY <1>3, <1>4, <1>5, <1>6, <1>7, <1>8, <1>9, <1>10, <1>11, <1>12, <1>13, <1>14, <1>15
  DEF Next, Server, Child, ClientStep

-------------------------------------------------------------------------------
(***************************************************************************)
(* Connections and children                                                *)
(***************************************************************************)

(* A connection goes to one child, and a refused one to none. *)
LEMMA HandedKept == IInv /\ Next => Handed'
<1> SUFFICES ASSUME IInv, Next PROVE Handed'
  OBVIOUS
<1>1. TypeOK /\ Handed
  BY DEF IInv
<1>2. child \in [Client -> {"none", "greet", "recv", "send", "ended"}]
  BY <1>1 DEF TypeOK
<1>3. /\ client \in [Client -> {"out", "word", "read", "broken", "refused", "closed"}]
      /\ pending \subseteq Client
  BY <1>1 DEF TypeOK
<1>4. None \notin Client
  BY ServerAssumption
<1>5. ASSUME NEW c \in Client, Accept(c) PROVE Handed'
  <2>1. /\ connection' = c /\ accepted' = accepted \cup {c} /\ pending' = pending \ {c}
        /\ UNCHANGED <<child, client>> /\ c \in pending /\ server = "accept"
    BY <1>5 DEF Accept, clientVars
  <2>2. \A d \in Client : client[d] = "broken" => d # c
    BY <1>1, <2>1 DEF Handed, Refused, Listening
  <2>3. \A d \in Client : client[d] = "out" => d # c
    BY <1>1, <2>1 DEF Handed
  <2>4. \A d \in Client : Refused(d) /\ d # c => Refused(d)'
    BY <2>1 DEF Refused, Listening
  <2>5. child[c] = "none"
    BY <1>1, <2>1 DEF Handed
  <2> QED
    BY <1>1, <2>1, <2>2, <2>3, <2>4, <2>5 DEF Handed
<1>6. CASE AcceptFails
  <2>1. /\ connection' = None /\ server = "accept" /\ server' = "fork"
        /\ UNCHANGED <<accepted, pending, child, client>>
    BY <1>6 DEF AcceptFails, clientVars
  <2>2. \A d \in Client : Refused(d) => Refused(d)'
    BY <2>1 DEF Refused, Listening, Alive
  <2> QED
    BY <1>1, <2>1, <2>2 DEF Handed
<1>7. CASE Fork
  <2>1. /\ child' = [c \in Client |-> IF c = connection THEN "greet" ELSE child[c]]
        /\ server = "fork" /\ server' = "accept" /\ UNCHANGED <<accepted, pending, client>>
    BY <1>7 DEF Fork, clientVars
  <2>2. connection \in Client => connection \in accepted
    BY <1>1, <1>4, <2>1 DEF Handed
  <2>3. \A d \in Client : d # connection => child'[d] = child[d]
    BY <2>1
  <2>4. connection \notin pending
    BY <1>1, <1>3, <2>2 DEF TypeOK
  <2>5. \A d \in Client : Refused(d) => Refused(d)'
    BY <2>1, <2>2, <2>3 DEF Refused, Listening
  <2> QED
    BY <1>1, <1>3, <2>1, <2>2, <2>3, <2>4, <2>5 DEF Handed
<1>8. CASE ForkFails
  <2>1. /\ server = "fork" /\ server' = "gone" /\ accepted' = {}
        /\ UNCHANGED <<pending, child, client>>
    BY <1>8 DEF ForkFails, clientVars
  <2>2. \A d \in Client : Refused(d) => Refused(d)'
    BY <2>1 DEF Refused, Listening
  <2> QED
    BY <1>1, <2>1, <2>2 DEF Handed
<1>9. ASSUME NEW c \in Client, NEW l \in {"recv", "send", "ended"}, Alive(c), ChildGoes(c, l),
             UNCHANGED <<serverVars, pending, client>>
      PROVE  Handed'
  <2>1. child[c] # "none" /\ child'[c] # "none" /\ \A d \in Client : d # c => child'[d] = child[d]
    BY <1>2, <1>9 DEF Alive, ChildGoes
  <2>2. UNCHANGED <<server, connection, accepted, children, pending, client>>
    BY <1>9 DEF serverVars
  <2>3. \A d \in Client : Refused(d) => Refused(d)'
    BY <1>9, <2>1, <2>2 DEF Refused, Listening
  <2>4. c \notin pending /\ (server = "fork" /\ connection # None => connection # c)
    BY <1>1, <2>1 DEF Handed
  <2>5. connection \in Client \cup {None}
    BY <1>1 DEF TypeOK
  <2> QED
    BY <1>1, <1>3, <2>1, <2>2, <2>3, <2>4, <2>5 DEF Handed
<1>10. ASSUME NEW c \in Client, NEW l \in {"word", "read", "broken", "refused", "closed"},
              ClientGoes(c, l), l = "broken" => Refused(c), UNCHANGED <<serverVars, pending, child>>
       PROVE  Handed'
  <2>1. client'[c] = l /\ \A d \in Client : d # c => client'[d] = client[d]
    BY <1>3, <1>10 DEF ClientGoes
  <2>2. UNCHANGED <<server, connection, accepted, children, pending, child>>
    BY <1>10 DEF serverVars
  <2>3. \A d \in Client : Refused(d) => Refused(d)'
    BY <2>2 DEF Refused, Listening, Alive
  <2> QED
    BY <1>1, <1>10, <2>1, <2>2, <2>3 DEF Handed
<1>11. ASSUME NEW c \in Client, Connect(c) PROVE Handed'
  <2>1. /\ client[c] = "out" /\ client' = [client EXCEPT ![c] = "word"] /\ Listening
        /\ pending' = pending \cup {c}
    BY <1>11 DEF Connect, ClientGoes
  <2>2. UNCHANGED <<server, connection, accepted, children, child>>
    BY <1>11 DEF Connect, serverVars
  <2>3. client'[c] = "word" /\ \A d \in Client : d # c => client'[d] = client[d]
    BY <1>3, <2>1
  <2>4. \A d \in Client : d # c /\ Refused(d) => Refused(d)'
    BY <2>1, <2>2 DEF Refused, Listening, Alive
  <2>5. child[c] = "none"
    BY <1>1, <2>1 DEF Handed
  <2> QED
    BY <1>1, <2>1, <2>2, <2>3, <2>4, <2>5 DEF Handed
<1>12. ASSUME NEW c \in Client, Child(c) PROVE Handed'
  <2>1. PICK l \in {"recv", "send", "ended"} :
            Alive(c) /\ ChildGoes(c, l) /\ UNCHANGED <<serverVars, pending, clientVars>>
    BY <1>12 DEF Child, Greet, Recv, Send, HangUp, Alive
  <2>2. UNCHANGED <<serverVars, pending, client>>
    BY <2>1 DEF clientVars
  <2> QED
    BY <1>9, <2>1, <2>2
<1>13. ASSUME NEW c \in Client, WriteWord(c) \/ ReadEcho(c) \/ ReadFails(c) \/ Close(c)
       PROVE  Handed'
  <2>1. PICK l \in {"word", "read", "broken", "refused", "closed"} :
            /\ ClientGoes(c, l) /\ (l = "broken" => Refused(c))
            /\ UNCHANGED <<serverVars, pending, child>>
    BY <1>13 DEF WriteWord, ReadEcho, ReadFails, Close
  <2> QED
    BY <1>10, <2>1
<1> QED
  BY <1>5, <1>6, <1>7, <1>8, <1>11, <1>12, <1>13 DEF Next, Server, ClientStep

-------------------------------------------------------------------------------
(***************************************************************************)
(* Echoes                                                                  *)
(***************************************************************************)

(* A step of others leaves a client as it is. *)
LEMMA OthersStay ==
    ASSUME NEW d \in Client, Served(d),
           child'[d] = child[d], client'[d] = client[d], word'[d] = word[d],
           up'[d] = up[d], down'[d] = down[d], buf'[d] = buf[d],
           sent'[d] = sent[d], got'[d] = got[d]
    PROVE  Served(d)'
  BY DEF Served, Unserved, Echo, Hung

(* What is on its way, as the types have it. *)
LEMMA InTypes ==
    ASSUME TypeOK, NEW c \in Client
    PROVE  /\ up[c] \in Seq(Int) /\ down[c] \in Seq(Int) /\ buf[c] \in Seq(Int)
           /\ sent[c] \in Nat /\ got[c] \in Nat /\ word[c] \in Nat
           /\ child[c] \in {"none", "greet", "recv", "send", "ended"}
<1>1. WordSize \in Nat
  BY ServerAssumption
<1> QED
  BY <1>1 DEF TypeOK

(* The server's own steps touch no stream. *)
LEMMA ServerServes ==
    ASSUME IInv, Server, NEW d \in Client
    PROVE  Served(d)'
<1>1. Served(d) /\ TypeOK /\ Handed
  BY DEF IInv
<1>2. UNCHANGED <<client, word, up, down, buf, sent, got>>
  BY DEF Server, Accept, AcceptFails, Fork, ForkFails, clientVars
<1>3. CASE child'[d] = child[d]
  BY <1>1, <1>2, <1>3, OthersStay
<1>4. CASE child'[d] # child[d]
  <2>1. d = connection /\ child'[d] = "greet" /\ server = "fork"
    BY <1>4 DEF Server, Accept, AcceptFails, Fork, ForkFails
  <2>2. child[d] = "none"
    BY <1>1, <2>1, ServerAssumption DEF Handed
  <2> QED
    BY <1>1, <1>2, <2>1, <2>2 DEF Served, Unserved
<1> QED
  BY <1>3, <1>4

(* The greeting comes before what has been sent, ... *)
LEMMA GreetServes ==
    ASSUME IInv, NEW c \in Client, Greet(c)
    PROVE  Served(c)'
<1>1. Served(c) /\ TypeOK
  BY DEF IInv
<1>2. /\ child[c] = "greet" /\ UNCHANGED <<client, word, up, buf, sent, got>>
      /\ child' = [child EXCEPT ![c] = "recv"]
      /\ down' = [down EXCEPT ![c] = down[c] \o Run(1 - Greeting, Greeting)]
  BY DEF Greet, ChildGoes, clientVars
<1>3. child'[c] = "recv" /\ down'[c] = down[c] \o Run(1 - Greeting, Greeting)
  BY <1>1, <1>2 DEF TypeOK
<1>4. buf[c] = <<>> /\ down[c] = <<>> /\ got[c] = 0 /\ up[c] = Run(1, sent[c])
  BY <1>1, <1>2 DEF Served, Unserved
<1>5. Greeting \in Nat /\ sent[c] \in Nat /\ got[c] <= sent[c]
  BY <1>1, InTypes, ServerAssumption DEF Served
<1> DEFINE g == Run(1 - Greeting, Greeting)
           s == Run(1, sent[c])
<1>6. g \in Seq(Int) /\ s \in Seq(Int)
  <2>1. 1 - Greeting \in Int /\ 1 \in Int
    BY <1>5
  <2> QED
    BY <1>5, <2>1, RunInt
<1>7. g \o s = Run(1 - Greeting, Greeting + sent[c])
  <2>1. 1 - Greeting \in Int /\ 1 - Greeting + Greeting = 1
    BY <1>5
  <2> QED
    BY <1>5, <2>1, RunsJoin
<1>8. 1 - Greeting + got[c] = 1 - Greeting /\ Greeting + sent[c] - got[c] = Greeting + sent[c]
  BY <1>4, <1>5
<1> HIDE DEF g, s
<1>9. (<<>> \o g) \o <<>> \o s = g \o s
  BY <1>6
<1>10. Echo(c)'
  BY <1>2, <1>3, <1>4, <1>7, <1>8, <1>9 DEF Echo, g, s
<1> QED
  BY <1>1, <1>2, <1>3, <1>4, <1>5, <1>10 DEF Served

(* ... what is received leaves the way up, ... *)
LEMMA RecvServes ==
    ASSUME IInv, NEW c \in Client, Recv(c)
    PROVE  Served(c)'
<1>1. Served(c) /\ TypeOK
  BY DEF IInv
<1>2. child[c] = "recv" /\ UNCHANGED <<client, word, down, sent, got>>
      /\ child' = [child EXCEPT ![c] = "send"]
  BY DEF Recv, ChildGoes, clientVars
<1>3. PICK n \in 1 .. SmallerOf(BufSize, Len(up[c])) :
            /\ buf' = [buf EXCEPT ![c] = SubSeq(up[c], 1, n)]
            /\ up' = [up EXCEPT ![c] = Drop(up[c], n)]
  BY DEF Recv
<1>4. child'[c] = "send" /\ buf'[c] = SubSeq(up[c], 1, n) /\ up'[c] = Drop(up[c], n)
  BY <1>1, <1>2, <1>3 DEF TypeOK
<1>5. n \in 0 .. Len(up[c])
  <2>1. BufSize \in Nat /\ Len(up[c]) \in Nat
    BY <1>1, InTypes, LenProperties, ServerAssumption
  <2> QED
    BY <2>1 DEF SmallerOf
<1>6. up[c] \in Seq(Int) /\ down[c] \in Seq(Int)
  BY <1>1, InTypes
<1> DEFINE b == SubSeq(up[c], 1, n)
           r == Drop(up[c], n)
<1>7. b \in Seq(Int) /\ r \in Seq(Int) /\ b \o r = up[c]
  BY <1>5, <1>6, Cut
<1> HIDE DEF b, r
<1>8. (down[c] \o b) \o r = (down[c] \o <<>>) \o up[c]
  <2>1. (down[c] \o b) \o r = down[c] \o (b \o r)
    BY <1>6, <1>7, Associates
  <2>2. down[c] \o <<>> = down[c]
    BY <1>6
  <2> QED
    BY <1>7, <2>1, <2>2
<1>9. Echo(c) /\ buf[c] = <<>>
  BY <1>1, <1>2 DEF Served
<1>10. Echo(c)'
  BY <1>2, <1>4, <1>8, <1>9 DEF Echo, b, r
<1> QED
  BY <1>1, <1>2, <1>4, <1>10 DEF Served

(* ... what is sent back joins the way down, ... *)
LEMMA SendServes ==
    ASSUME IInv, NEW c \in Client, Send(c)
    PROVE  Served(c)'
<1>1. Served(c) /\ TypeOK
  BY DEF IInv
<1>2. /\ child[c] = "send" /\ UNCHANGED <<client, word, up, sent, got>>
      /\ child' = [child EXCEPT ![c] = "recv"]
      /\ buf' = [buf EXCEPT ![c] = <<>>]
      /\ down' = [down EXCEPT ![c] = down[c] \o buf[c]]
  BY DEF Send, ChildGoes, clientVars
<1>3. child'[c] = "recv" /\ buf'[c] = <<>> /\ down'[c] = down[c] \o buf[c]
  BY <1>1, <1>2 DEF TypeOK
<1>4. down[c] \in Seq(Int) /\ buf[c] \in Seq(Int)
  BY <1>1, InTypes
<1>5. (down[c] \o buf[c]) \o <<>> = down[c] \o buf[c]
  <2>1. down[c] \o buf[c] \in Seq(Int)
    BY <1>4, ConcatProperties
  <2> QED
    BY <2>1
<1>6. Echo(c)
  BY <1>1, <1>2 DEF Served
<1>7. Echo(c)'
  BY <1>2, <1>3, <1>5, <1>6 DEF Echo
<1> QED
  BY <1>1, <1>2, <1>3, <1>7 DEF Served

(* ... and a word goes behind what was sent before. *)
LEMMA WriteServes ==
    ASSUME IInv, NEW c \in Client, WriteWord(c)
    PROVE  Served(c)'
<1>1. Served(c) /\ TypeOK
  BY DEF IInv
<1>2. /\ client[c] = "word" /\ UNCHANGED <<child, buf, down, got>>
      /\ client' = [client EXCEPT ![c] = "read"]
  BY DEF WriteWord, ClientGoes
<1>3. PICK n \in 1 .. SmallerOf(WordSize, MaxSent[c] - sent[c]) :
            /\ up' = [up EXCEPT ![c] = up[c] \o Run(sent[c] + 1, n)]
            /\ sent' = [sent EXCEPT ![c] = sent[c] + n]
            /\ word' = [word EXCEPT ![c] = n]
  BY DEF WriteWord
<1>4. /\ client'[c] = "read" /\ up'[c] = up[c] \o Run(sent[c] + 1, n)
      /\ sent'[c] = sent[c] + n /\ word'[c] = n
  BY <1>1, <1>2, <1>3 DEF TypeOK
<1>5. n \in Nat /\ sent[c] \in Nat /\ got[c] \in Nat /\ Greeting \in Nat /\ got[c] <= sent[c]
  <2>1. WordSize \in Nat /\ MaxSent[c] \in Nat /\ sent[c] \in Nat
    BY <1>1, InTypes, ServerAssumption
  <2>2. n \in Nat
    BY ONLY <2>1, n \in 1 .. SmallerOf(WordSize, MaxSent[c] - sent[c]) DEF SmallerOf
  <2> QED
    BY <1>1, <2>2, InTypes, ServerAssumption DEF Served
<1> DEFINE w == Run(sent[c] + 1, n)
<1>6. w \in Seq(Int)
  <2>1. sent[c] + 1 \in Int
    BY <1>5
  <2> QED
    BY <1>5, <2>1, RunInt
<1>7. child[c] \in {"none", "greet"} => Unserved(c)'
  <2> SUFFICES ASSUME child[c] \in {"none", "greet"} PROVE Unserved(c)'
    OBVIOUS
  <2>1. buf[c] = <<>> /\ down[c] = <<>> /\ got[c] = 0 /\ up[c] = Run(1, sent[c])
    BY <1>1 DEF Served, Unserved
  <2>2. Run(1, sent[c]) \o Run(1 + sent[c], n) = Run(1, sent[c] + n)
    <3>1. 1 \in Int
      OBVIOUS
    <3> QED
      BY <1>5, <3>1, RunsJoin
  <2>3. 1 + sent[c] = sent[c] + 1
    BY <1>5
  <2> QED
    BY <1>2, <1>4, <2>1, <2>2, <2>3 DEF Unserved
<1>8. child[c] \in {"recv", "send"} => Echo(c)'
  <2> SUFFICES ASSUME child[c] \in {"recv", "send"} PROVE Echo(c)'
    OBVIOUS
  <2> DEFINE t == down[c] \o buf[c]
             a == 1 - Greeting + got[c]
             m == Greeting + sent[c] - got[c]
  <2>1. t \o up[c] = Run(a, m)
    BY <1>1 DEF Served, Echo
  <2>2. t \in Seq(Int) /\ up[c] \in Seq(Int)
    BY <1>1, InTypes, ConcatProperties
  <2>3. /\ a \in Int /\ m \in Nat /\ a + m = sent[c] + 1
        /\ m + n = Greeting + (sent[c] + n) - got[c]
    BY <1>5
  <2>4. Run(a, m) \o Run(a + m, n) = Run(a, m + n)
    BY <1>5, <2>3, RunsJoin
  <2> HIDE DEF w, t
  <2>5. t \o (up[c] \o w) = (t \o up[c]) \o w
    BY <1>6, <2>2, Associates
  <2>6. t \o (up[c] \o w) = Run(a, Greeting + (sent[c] + n) - got[c])
    BY <2>1, <2>3, <2>4, <2>5 DEF w
  <2> QED
    BY <1>2, <1>4, <2>6 DEF Echo, t, w
<1>9. got[c] <= sent[c] + n /\ got[c] + n <= sent[c] + n
  BY <1>5
<1>10. child[c] # "ended"
  BY <1>1, <1>2 DEF Served, Hung
<1> QED
  BY <1>1, <1>2, <1>4, <1>7, <1>8, <1>9, <1>10 DEF Served

(* A read takes from the front of the way down, and never more than has    *)
(* been sent. *)
LEMMA ReadServes ==
    ASSUME IInv, NEW c \in Client, ReadEcho(c)
    PROVE  Served(c)'
<1>1. Served(c) /\ TypeOK
  BY DEF IInv
<1>2. /\ client[c] = "read" /\ UNCHANGED <<child, buf, up, word, sent>>
      /\ client' = [client EXCEPT ![c] = "word"]
  BY DEF ReadEcho, ClientGoes
<1>3. PICK n \in 1 .. SmallerOf(word[c], Len(down[c])) :
            /\ down' = [down EXCEPT ![c] = Drop(down[c], n)]
            /\ got' = [got EXCEPT ![c] = got[c] + n]
  BY DEF ReadEcho
<1>4. client'[c] = "word" /\ down'[c] = Drop(down[c], n) /\ got'[c] = got[c] + n
  BY <1>1, <1>2, <1>3 DEF TypeOK
<1>5. /\ up[c] \in Seq(Int) /\ down[c] \in Seq(Int) /\ buf[c] \in Seq(Int)
      /\ sent[c] \in Nat /\ got[c] \in Nat /\ word[c] \in Nat /\ Len(down[c]) \in Nat
  BY <1>1, InTypes, LenProperties
<1>6. n \in 0 .. Len(down[c]) /\ n \in Nat /\ n <= word[c] /\ Len(down[c]) > 0
  BY <1>5 DEF SmallerOf
<1>7. got[c] + n <= sent[c]
  <2>1. got[c] + word[c] <= sent[c]
    BY <1>1, <1>2 DEF Served
  <2> QED
    BY ONLY <1>5, <1>6, <2>1
<1>8. child[c] \in {"recv", "send"}
  <2>1. child[c] \notin {"none", "greet"}
    BY <1>1, <1>6 DEF Served, Unserved
  <2>2. child[c] # "ended"
    BY <1>1, <1>2 DEF Served, Hung
  <2> QED
    BY <1>1, <2>1, <2>2, InTypes
<1> DEFINE t == buf[c] \o up[c]
           a == 1 - Greeting + got[c]
           m == Greeting + sent[c] - got[c]
           r == Drop(down[c], n)
<1>9. t \in Seq(Int)
  BY <1>5, ConcatProperties
<1>10. r \in Seq(Int)
  BY <1>5, <1>6, Cut
<1>11. (down[c] \o buf[c]) \o up[c] = Run(a, m)
  BY <1>1, <1>8 DEF Served, Echo
<1>12. /\ (down[c] \o buf[c]) \o up[c] = down[c] \o t
       /\ (r \o buf[c]) \o up[c] = r \o t
  <2> HIDE DEF r
  <2> QED
    BY <1>5, <1>10, Associates
<1>13. Greeting \in Nat /\ a \in Int /\ m \in Nat
  <2>1. Greeting \in Nat
    BY ServerAssumption
  <2>2. got[c] <= sent[c]
    BY <1>1 DEF Served
  <2>3. sent[c] \in Nat /\ got[c] \in Nat
    BY <1>5
  <2> QED
    BY ONLY <2>1, <2>2, <2>3
<1>14. r \o t = Run(a + n, m - n)
  <2>1. down[c] \o t = Run(a, m)
    BY <1>11, <1>12
  <2>2. a \in Int /\ m \in Nat
    BY <1>13
  <2>3. down[c] \in Seq(Int) /\ n \in 0 .. Len(down[c])
    BY <1>5, <1>6
  <2> HIDE DEF t, a, m
  <2> QED
    BY ONLY <1>9, <2>1, <2>2, <2>3, RunDrops
<1>15. a + n = 1 - Greeting + (got[c] + n) /\ m - n = Greeting + sent[c] - (got[c] + n)
  <2>1. Greeting \in Nat /\ sent[c] \in Nat /\ got[c] \in Nat /\ n \in Nat
    BY <1>5, <1>6, <1>13
  <2> QED
    BY ONLY <2>1
<1>16. (r \o buf[c]) \o up[c] = Run(1 - Greeting + (got[c] + n), Greeting + sent[c] - (got[c] + n))
  BY <1>12, <1>14, <1>15
<1>17. Echo(c)'
  <2> HIDE DEF t, a, m
  <2> QED
    BY <1>2, <1>4, <1>16 DEF Echo
<1> QED
  BY <1>1, <1>2, <1>4, <1>7, <1>8, <1>17 DEF Served

(* The other steps of a client and its child end something. *)
LEMMA EndServes ==
    ASSUME IInv, NEW c \in Client, HangUp(c) \/ Connect(c) \/ ReadFails(c) \/ Close(c)
    PROVE  Served(c)'
<1>1. Served(c) /\ TypeOK
  BY DEF IInv
<1>2. UNCHANGED <<word, up, down, buf, sent, got>>
  BY DEF HangUp, Connect, ReadFails, Close, clientVars
<1>3. CASE HangUp(c)
  <2>1. child'[c] = "ended" /\ client[c] = "closed" /\ client' = client
    BY <1>1, <1>3 DEF HangUp, Hung, ChildGoes, TypeOK, clientVars
  <2> QED
    BY <1>1, <1>2, <2>1 DEF Served, Hung
<1>4. CASE Connect(c) \/ ReadFails(c) \/ Close(c)
  <2>1. /\ client[c] # "closed" /\ child' = child
        /\ client'[c] # "read"
    BY <1>1, <1>4 DEF Connect, ReadFails, Close, ClientGoes, TypeOK
  <2> QED
    BY <1>1, <1>2, <2>1 DEF Served, Hung, Unserved, Echo
<1> QED
  BY <1>3, <1>4

(* What one client and its child do changes nothing of the others. *)
LEMMA ClientsApart ==
    ASSUME IInv, NEW c \in Client, Child(c) \/ ClientStep(c), NEW d \in Client, d # c
    PROVE  Served(d)'
<1>1. Served(d) /\ TypeOK
  BY DEF IInv
<1>2. /\ \A f \in {up, down, buf} : f \in [Client -> Seq(Int)]
      /\ {sent, got} \subseteq [Client -> Nat] /\ word \in [Client -> 0 .. WordSize]
      /\ client \in [Client -> {"out", "word", "read", "broken", "refused", "closed"}]
      /\ child \in [Client -> {"none", "greet", "recv", "send", "ended"}]
  BY <1>1 DEF TypeOK
<1>3. child'[d] = child[d] /\ client'[d] = client[d] /\ word'[d] = word[d]
  BY <1>2 DEF Child, Greet, Recv, Send, HangUp, ClientStep, Connect, WriteWord, ReadEcho,
     ReadFails, Close, ChildGoes, ClientGoes, clientVars
<1>4. up'[d] = up[d] /\ down'[d] = down[d] /\ buf'[d] = buf[d]
  BY <1>2 DEF Child, Greet, Recv, Send, HangUp, ClientStep, Connect, WriteWord, ReadEcho,
     ReadFails, Close
<1>5. sent'[d] = sent[d] /\ got'[d] = got[d]
  BY <1>2 DEF Child, Greet, Recv, Send, HangUp, ClientStep, Connect, WriteWord, ReadEcho,
     ReadFails, Close, clientVars
<1> QED
  BY <1>1, <1>3, <1>4, <1>5, OthersStay

LEMMA NextKeepsIInv == IInv /\ [Next]_vars => IInv'
<1> SUFFICES ASSUME IInv, [Next]_vars PROVE IInv'
  OBVIOUS
<1>1. CASE Next
  <2>1. ASSUME NEW d \in Client PROVE Served(d)'
    <3>1. CASE Server
      BY <3>1, ServerServes
    <3>2. ASSUME NEW c \in Client, Child(c) \/ ClientStep(c) PROVE Served(d)'
      <4>1. CASE c # d
        BY <3>2, <4>1, ClientsApart
      <4>2. CASE c = d
        BY <3>2, <4>2, GreetServes, RecvServes, SendServes, WriteServes, ReadServes, EndServes
        DEF Child, ClientStep
      <4> QED
        BY <4>1, <4>2
    <3> QED
      BY <1>1, <3>1, <3>2 DEF Next
  <2> QED
    BY <1>1, <2>1, TypeKept, HandedKept DEF IInv
<1>2. CASE UNCHANGED vars
  <2>1. UNCHANGED <<server, connection, accepted, children, pending, child, buf, up, down,
                    client, word, sent, got>>
    BY <1>2 DEF vars, serverVars, clientVars
  <2>2. TypeOK'
    BY <2>1 DEF IInv, TypeOK
  <2>3. Handed'
    BY <2>1 DEF IInv, Handed, Refused, Listening, Alive
  <2>4. \A d \in Client : Served(d)'
    BY <2>1, OthersStay DEF IInv
  <2> QED
    BY <2>2, <2>3, <2>4 DEF IInv
<1> QED
  BY <1>1, <1>2

(* Each client gets the greeting and then its own bytes, once and in order, *)
(* and never as many as it has sent: the child of server.c sends what it   *)
(* received, and client.c reads once for each word it writes.              *)
THEOREM EchoesInOrder == Spec => []Safety
<1>1. IInv => Safety
  <2> SUFFICES ASSUME IInv PROVE Safety
    OBVIOUS
  <2>1. EchoInOrder
    BY DEF IInv, Served, Echo, EchoInOrder
  <2>2. AlwaysBehind
    BY DEF IInv, Served, AlwaysBehind
  <2>3. ServedNotBroken
    BY DEF IInv, Handed, Refused, Served, Unserved, Alive, ServedNotBroken
  <2> QED
    BY <2>1, <2>2, <2>3 DEF IInv, Safety
<1> QED
  BY <1>1, InitIInv, NextKeepsIInv, PTL DEF Spec
==============================================================================
