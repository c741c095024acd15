------------------------------- MODULE EchoServer ------------------------------
(***************************************************************************)
(* The echo server and its clients, src/src/sockets/example: server.c      *)
(* accepts connections and forks a child for each, the child greets the    *)
(* client and sends back what it receives, and client.c sends a word and   *)
(* reads once before it sends the next.                                    *)
(*                                                                         *)
(* The bytes a client gets are numbered: the greeting ends with byte 0 and *)
(* byte n > 0 is the n-th byte the client sent.  The server never closes   *)
(* its copy of a connection and never waits for a child, so descriptors    *)
(* and processes are counted.  Its listening socket stays open as long as  *)
(* one of the children has it.  A socket takes any number of bytes.        *)
(***************************************************************************)
EXTENDS Integers, Sequences, FiniteSets

CONSTANTS Client,
          None,
          FdLimit,      \* connections the server can have open at once
          ProcessLimit, \* children the server can have, ended ones included
          Greeting,     \* length of the first write
          WordSize,     \* bound: the longest word of a client
          BufSize,      \* sizeof(buf) of the server
          MaxSent       \* bound: how many bytes each client sends

ASSUME ServerAssumption ==
    /\ IsFiniteSet(Client) /\ None \notin Client
    /\ FdLimit \in Nat /\ ProcessLimit \in Nat
    /\ Greeting \in Nat /\ MaxSent \in [Client -> Nat]
    /\ WordSize \in Nat \ {0} /\ BufSize \in Nat \ {0}

VARIABLES server,      \* where the server is
          connection,  \* what its latest accept returned, None for -1
          pending,     \* the clients that are connected and not accepted
          accepted,    \* the connections the server has open
          children,    \* how many children it has forked
          child,       \* where the child of each client is
          buf,         \* what each child has received and not sent back
          up, down,    \* the bytes on the way to the child and to the client
          client,      \* where each client is
          word,        \* the length of its latest word
          sent, got    \* how many bytes it has sent and got

serverVars == <<server, connection, accepted, children>>
clientVars == <<client, word, sent, got>>
vars == <<serverVars, pending, child, buf, up, down, clientVars>>

SmallerOf(a, b) == IF a < b THEN a ELSE b
Run(first, n) == [i \in 1 .. n |-> first + i - 1]
Drop(s, n) == SubSeq(s, n + 1, Len(s))

Init ==
    /\ server = "accept" /\ connection = None
    /\ pending = {} /\ accepted = {} /\ children = 0
    /\ child = [c \in Client |-> "none"]
    /\ buf = [c \in Client |-> <<>>]
    /\ up = [c \in Client |-> <<>>] /\ down = [c \in Client |-> <<>>]
    /\ client = [c \in Client |-> "out"]
    /\ word = [c \in Client |-> 0]
    /\ sent = [c \in Client |-> 0] /\ got = [c \in Client |-> 0]

Alive(c) == child[c] \in {"greet", "recv", "send"}
Listening == server # "gone" \/ \E c \in Client : Alive(c)
Hung(c) == client[c] = "closed"

(* Nobody has the other end of c's connection or will accept it: the       *)
(* kernel resets it.                                                       *)
Refused(c) ==
    child[c] = "none" /\ c \notin accepted /\ (c \in pending => ~Listening)

-------------------------------------------------------------------------------
(***************************************************************************)
(* The server.                                                             *)
(***************************************************************************)
Accept(c) ==
    /\ server = "accept"
    /\ c \in pending
    /\ Cardinality(accepted) < FdLimit
    /\ pending' = pending \ {c}
    /\ accepted' = accepted \cup {c}
    /\ connection' = c
    /\ server' = "fork"
    /\ UNCHANGED <<children, child, buf, up, down, clientVars>>

(* Mutation: a failed accept is tried again. *)
AcceptFailsRetried ==
    /\ server = "accept"
    /\ Cardinality(accepted) >= FdLimit
    /\ connection' = None
    /\ UNCHANGED <<server, accepted, children, pending, child, buf, up, down, clientVars>>

(* With no descriptor left accept returns -1 at once, and nothing looks.   *)
AcceptFails ==
    /\ server = "accept"
    /\ Cardinality(accepted) >= FdLimit
    /\ connection' = None
    /\ server' = "fork"
    /\ UNCHANGED <<accepted, children, pending, child, buf, up, down, clientVars>>

(* A child without a connection finds its first recv failed and exits, but *)
(* it stays a process that nobody waits for.                               *)
Fork ==
    /\ server = "fork"
    /\ children < ProcessLimit
    /\ children' = children + 1
    /\ child' = [c \in Client |-> IF c = connection THEN "greet" ELSE child[c]]
    /\ server' = "accept"
    /\ UNCHANGED <<connection, accepted, pending, buf, up, down, clientVars>>

(* fork returns -1: the server returns from main, and the kernel closes    *)
(* its descriptors.                                                        *)
ForkFails ==
    /\ server = "fork"
    /\ children = ProcessLimit
    /\ server' = "gone"
    /\ accepted' = {}
    /\ UNCHANGED <<connection, children, pending, child, buf, up, down, clientVars>>

-------------------------------------------------------------------------------
(***************************************************************************)
(* The child of client c.                                                  *)
(***************************************************************************)
ChildGoes(c, label) == child' = [child EXCEPT ![c] = label]

Greet(c) ==
    /\ child[c] = "greet"
    /\ down' = [down EXCEPT ![c] = @ \o Run(1 - Greeting, Greeting)]
    /\ ChildGoes(c, "recv")
    /\ UNCHANGED <<serverVars, pending, buf, up, clientVars>>

(* Mutation: a recv that does not fill the buffer is taken for an error. *)
RecvFullOnly(c) ==
    /\ child[c] = "recv"
    /\ \E n \in 1 .. SmallerOf(BufSize, Len(up[c])) :
          /\ buf' = [buf EXCEPT ![c] = SubSeq(up[c], 1, n)]
          /\ up' = [up EXCEPT ![c] = Drop(@, n)]
          /\ ChildGoes(c, IF n = BufSize THEN "send" ELSE "ended")
    /\ UNCHANGED <<serverVars, pending, down, clientVars>>

Recv(c) ==
    /\ child[c] = "recv"
    /\ \E n \in 1 .. SmallerOf(BufSize, Len(up[c])) :
          /\ buf' = [buf EXCEPT ![c] = SubSeq(up[c], 1, n)]
          /\ up' = [up EXCEPT ![c] = Drop(@, n)]
    /\ ChildGoes(c, "send")
    /\ UNCHANGED <<serverVars, pending, down, clientVars>>

(* Mutation: send is given the size of the buffer less one. *)
SendShort(c) ==
    /\ child[c] = "send"
    /\ down' = [down EXCEPT ![c] = @ \o SubSeq(buf[c], 1, BufSize - 1)]
    /\ buf' = [buf EXCEPT ![c] = <<>>]
    /\ ChildGoes(c, "recv")
    /\ UNCHANGED <<serverVars, pending, up, clientVars>>

(* The blocking send takes all of buf.  Its result is not looked at: the   *)
(* second test looks at recv_size again.                                   *)
Send(c) ==
    /\ child[c] = "send"
    /\ down' = [down EXCEPT ![c] = @ \o buf[c]]
    /\ buf' = [buf EXCEPT ![c] = <<>>]
    /\ ChildGoes(c, "recv")
    /\ UNCHANGED <<serverVars, pending, up, clientVars>>

(* The client has closed: recv returns 0 after the last byte, or -1 before *)
(* it when unread bytes have made the client's end reset the connection,   *)
(* or a write raises SIGPIPE.                                              *)
HangUp(c) ==
    /\ Alive(c) /\ Hung(c)
    /\ ChildGoes(c, "ended")
    /\ UNCHANGED <<serverVars, pending, buf, up, down, clientVars>>

-------------------------------------------------------------------------------
(***************************************************************************)
(* The clients.                                                            *)
(***************************************************************************)
ClientGoes(c, label) == client' = [client EXCEPT ![c] = label]

Connect(c) ==
    /\ client[c] = "out"
    /\ Listening
    /\ pending' = pending \cup {c}
    /\ ClientGoes(c, "word")
    /\ UNCHANGED <<serverVars, child, buf, up, down, word, sent, got>>

(* Connecting succeeds before the server accepts, and so does write. *)
WriteWord(c) ==
    /\ client[c] = "word"
    /\ \E n \in 1 .. SmallerOf(WordSize, MaxSent[c] - sent[c]) :
          /\ up' = [up EXCEPT ![c] = @ \o Run(sent[c] + 1, n)]
          /\ sent' = [sent EXCEPT ![c] = @ + n]
          /\ word' = [word EXCEPT ![c] = n]
    /\ ClientGoes(c, "read")
    /\ UNCHANGED <<serverVars, pending, child, buf, down, got>>

(* One read of at most the length of the word, whatever has come. *)
ReadEcho(c) ==
    /\ client[c] = "read"
    /\ \E n \in 1 .. SmallerOf(word[c], Len(down[c])) :
          /\ down' = [down EXCEPT ![c] = Drop(@, n)]
          /\ got' = [got EXCEPT ![c] = @ + n]
    /\ ClientGoes(c, "word")
    /\ UNCHANGED <<serverVars, pending, child, buf, up, word, sent>>

(* Depending on when the reset has come, the write or the read gets the    *)
(* error.  A read that returns -1 makes the program write in front of      *)
(* data, and then nothing more is said of it; after a write that has got   *)
(* the error the read returns 0, and the client prints an empty line.      *)
ReadFails(c) ==
    /\ client[c] = "read"
    /\ Refused(c)
    /\ \E label \in {"broken", "refused"} : ClientGoes(c, label)
    /\ UNCHANGED <<serverVars, pending, child, buf, up, down, word, sent, got>>

(* Its input ends, it is interrupted, or its next write raises SIGPIPE. *)
Close(c) ==
    /\ client[c] \in {"word", "read", "refused"}
    /\ ClientGoes(c, "closed")
    /\ pending' = pending
    /\ UNCHANGED <<serverVars, child, buf, up, down, word, sent, got>>

-------------------------------------------------------------------------------
Server == (\E c \in Client : Accept(c)) \/ AcceptFails \/ Fork \/ ForkFails
Child(c) == Greet(c) \/ Recv(c) \/ Send(c) \/ HangUp(c)
ClientStep(c) == Connect(c) \/ WriteWord(c) \/ ReadEcho(c) \/ ReadFails(c) \/ Close(c)

Next == Server \/ \E c \in Client : Child(c) \/ ClientStep(c)

Spec == Init /\ [][Next]_vars

(* The kernel runs the server and its children, and a client that waits    *)
(* for an answer reads it or is told that there is none; whether it sends  *)
(* another word is its affair.                                             *)
FairSpec ==
    /\ Spec
    /\ WF_vars(Server)
    /\ \A c \in Client : WF_vars(Child(c)) /\ WF_vars(ReadEcho(c) \/ ReadFails(c))

-------------------------------------------------------------------------------
(***************************************************************************)
(* Properties.                                                             *)
(***************************************************************************)
Stream(c) == Seq(1 - Greeting .. MaxSent[c])

TypeOK ==
    /\ server \in {"accept", "fork", "gone"}
    /\ connection \in Client \cup {None}
    /\ pending \subseteq Client /\ accepted \subseteq Client \ pending
    /\ children \in 0 .. ProcessLimit
    /\ child \in [Client -> {"none", "greet", "recv", "send", "ended"}]
    /\ {up, down, buf} \subseteq [Client -> Seq(Int)]
    /\ \A c \in Client : up[c] \in Stream(c) /\ down[c] \in Stream(c)
    /\ \A c \in Client : buf[c] \in Stream(c) /\ Len(buf[c]) <= BufSize
    /\ client \in [Client -> {"out", "word", "read", "broken", "refused",
                          "closed"}]
    /\ word \in [Client -> 0 .. WordSize]
    /\ {sent, got} \subseteq [Client -> Nat]
    /\ \A c \in Client : sent[c] \in 0 .. MaxSent[c] /\ got[c] \in 0 .. Greeting + MaxSent[c]

(* What a client has not got yet of the greeting and of what it sent is on *)
(* its way, in order and once; no other client's bytes come between.       *)
EchoInOrder ==
    \A c \in Client : child[c] \in {"recv", "send"} =>
        down[c] \o buf[c] \o up[c] = Run(1 - Greeting + got[c], Greeting + sent[c] - got[c])

(* A client can never run ahead of the server: it has got at most as many  *)
(* bytes as it has sent, so it is always behind by the whole greeting, and *)
(* what it prints for a word is not that word's echo.                      *)
AlwaysBehind == \A c \in Client : got[c] <= sent[c]

(* Only a client that the server never served writes in front of data. *)
ServedNotBroken == \A c \in Client : client[c] = "broken" => got[c] = 0 /\ ~Alive(c)

(* The bytes of every client come back in order, behind the greeting, and  *)
(* an answer that fails comes to nobody the server has accepted.           *)
Safety == TypeOK /\ EchoInOrder /\ AlwaysBehind /\ ServedNotBroken

(* What keeps it from step to step.  Of a client that nobody has greeted   *)
(* all the bytes are still on the way up; the stream of one that is served *)
(* is whole; and a child ends only when its client has closed.             *)
Unserved(c) ==
    buf[c] = <<>> /\ down[c] = <<>> /\ got[c] = 0 /\ up[c] = Run(1, sent[c])
Echo(c) ==
    down[c] \o buf[c] \o up[c] = Run(1 - Greeting + got[c], Greeting + sent[c] - got[c])
Served(c) ==
    /\ child[c] \in {"none", "greet"} => Unserved(c)
    /\ child[c] \in {"recv", "send"} => Echo(c)
    /\ child[c] = "recv" => buf[c] = <<>>
    /\ child[c] = "ended" => Hung(c)
    /\ got[c] <= sent[c]
    /\ client[c] = "read" => got[c] + word[c] <= sent[c]

(* A connection is handed to one child, and one that is refused to none.   *)
Handed ==
    /\ server = "fork" /\ connection # None =>
          connection \in accepted /\ child[connection] = "none"
    /\ \A c \in pending : child[c] = "none"
    /\ \A c \in Client :
          /\ client[c] = "out" => c \notin pending \cup accepted /\ child[c] = "none"
          /\ client[c] = "broken" => Refused(c)

IInv == TypeOK /\ Handed /\ \A c \in Client : Served(c)

(* A client that waits for an answer gets one, as long as it has a child,  *)
(* whether the server itself still runs or not; one that nobody serves any *)
(* more is refused in the end, but waits as long as a child of the server  *)
(* holds the listening socket.                                             *)
Answered ==
    \A c \in Client :
        (client[c] = "read" /\ (Alive(c) \/ Refused(c))) ~> client[c] # "read"

(* Descriptors and processes are only given back when the server ends, so  *)
(* it can serve no more than FdLimit clients, gone ones included, and once *)
(* they have come it runs out of processes and ends; when the last child   *)
(* has ended too, no client goes on waiting.                               *)
ServedAndGone ==
    /\ [](Cardinality({c \in Client : child[c] # "none"}) <= FdLimit)
    /\ (server # "gone" /\ Cardinality(accepted) = FdLimit) ~> server = "gone"
    /\ (~Listening) ~> [](\A c \in Client : client[c] # "read")
==============================================================================
