------------------------------- MODULE AddrParse -------------------------------
(***************************************************************************)
(* The address conversions of src/src/sockets/example/types.c.  A caller   *)
(* keeps one eo_addr_t and one eo_addr_str_t and parses texts into the     *)
(* first, and formats it into the second, in any order.                    *)
(*                                                                         *)
(* A text is what the last colon makes of it: a host, perhaps in brackets, *)
(* perhaps with junk behind it, and the text of a port, which atoi reads   *)
(* as far as there are digits.  Of a host 46 characters are looked at.     *)
(* inet_pton knows the texts of V4 and V6 and writes nothing for others.   *)
(* eo_addr_t is a union: sockaddr_in's address lies where sockaddr_in6 has *)
(* its flow information.                                                   *)
(***************************************************************************)
EXTENDS Integers

CONSTANTS V4, V6,   \* the texts inet_pton takes for IPv4 and for IPv6
          Long,     \* those of V6 that have 44 characters, 46 in brackets
          Other,    \* texts it takes for neither, longer ones included
          Byte,     \* 256: an in_port_t has two bytes
          Numbers,  \* bound: the numbers in the place of the port in a text
          None

PORT_MAX == Byte * Byte - 1
SHRT_MAX == (Byte * Byte) \div 2 - 1
Port == 0 .. PORT_MAX

(* A value of Numbers: every port and one beyond each end. *)
PortsAndBeyond == -1 .. PORT_MAX + 1

Host == [name : V4 \cup V6 \cup Other, open : BOOLEAN, close : BOOLEAN,
         junk : BOOLEAN]

(* A text with no colon has no host. *)
Text == [host : Host, port : Numbers] \cup {[host |-> None, port |-> 1]}

VARIABLES dest,    \* the caller's eo_addr_t
          str,     \* the caller's eo_addr_str_t
          call,    \* the call that has returned last
          text,    \* what it was given
          result   \* what it returned

vars == <<dest, str, call, text, result>>

(* The byte order of the network, and back. *)
htons(p) == (p % Byte) * Byte + p \div Byte
ntohs(p) == htons(p)

(* Not set yet: the bytes are whatever was there, and of no family. *)
Init ==
    /\ dest = [family |-> None, port |-> 0, word |-> None, addr6 |-> None]
    /\ str = None /\ call = "none" /\ text = None /\ result = 0

-------------------------------------------------------------------------------
(* Brackets are taken off in pairs only, where the second is the last      *)
(* character, or the last that is looked at.                               *)
Unbracketed(host) ==
    IF host.open /\ host.close /\ (host.junk => host.name \in Long)
    THEN [host EXCEPT !.open = FALSE, !.close = FALSE, !.junk = FALSE]
    ELSE host

InetPton(family, host) ==
    ~host.open /\ ~host.close /\ ~host.junk /\ host.name \in family

(* Mutation: port and family are set before inet_pton is asked. *)
LimitedEager(host, port, d) ==
    LET h == Unbracketed(host) IN
    IF InetPton(V6, h)
    THEN [result |-> 0, dest |-> [d EXCEPT !.addr6 = h.name, !.port = htons(port), !.family = "v6"]]
    ELSE IF InetPton(V4, h)
    THEN [result |-> 0, dest |-> [d EXCEPT !.word = h.name, !.port = htons(port), !.family = "v4"]]
    ELSE [result |-> -1, dest |-> [d EXCEPT !.port = htons(port), !.family = "v4"]]

(* What eo_parse_addr_limited returns and makes of dest. *)
eo_parse_addr_limited(host, port, d) ==
    LET h == Unbracketed(host) IN
    IF InetPton(V6, h)
    THEN [result |-> 0, dest |-> [d EXCEPT !.addr6 = h.name, !.port = htons(port), !.family = "v6"]]
    ELSE IF InetPton(V4, h)
    THEN [result |-> 0, dest |-> [d EXCEPT !.word = h.name, !.port = htons(port), !.family = "v4"]]
    ELSE [result |-> -1, dest |-> d]

Returns(name, given, r) ==
    /\ call' = name /\ text' = given
    /\ result' = r.result /\ dest' = r.dest

eo_parse_addr(host, port) ==
    /\ Returns("parse", [host |-> host, port |-> port],
               eo_parse_addr_limited(host, port, dest))
    /\ UNCHANGED str

Failure == [result |-> -1, dest |-> dest]

(* err is read and never set: a value that is not NULL refuses any text.   *)
eo_parse_addr_port(t) ==
    /\ \E err \in {"NULL", "something"} :
         Returns("parse_port", t,
                 IF t.host = None THEN Failure
                 ELSE IF t.port <= 0 \/ t.port > SHRT_MAX \/ err # "NULL" THEN Failure
                 ELSE eo_parse_addr_limited(t.host, t.port, dest))
    /\ UNCHANGED str

(* The text of an address: an IPv6 one is not put in brackets. *)
Formatted(d) ==
    [host |-> [name |-> IF d.family = "v4" THEN d.word ELSE d.addr6,
               open |-> FALSE, close |-> FALSE, junk |-> FALSE],
     port |-> ntohs(d.port)]

eo_addr_to_str ==
    /\ str' = IF dest.family = None THEN str ELSE Formatted(dest)
    /\ Returns("to_str", None,
               [result |-> IF dest.family = None THEN -1 ELSE 0, dest |-> dest])

(* The size a caller gives bind and connect. *)
eo_addr_size(d) ==
    CASE d.family = "v4" -> "sockaddr_in" [] d.family = "v6" -> "sockaddr_in6" [] OTHER -> 0

-------------------------------------------------------------------------------
Next ==
    \/ \E host \in Host, port \in Port : eo_parse_addr(host, port)
    \/ \E t \in Text : eo_parse_addr_port(t)
    \/ str # None /\ eo_parse_addr_port(str)
    \/ eo_addr_to_str

Spec == Init /\ [][Next]_vars

-------------------------------------------------------------------------------
(***************************************************************************)
(* Properties.                                                             *)
(***************************************************************************)
Parses(c) == c \in {"parse", "parse_port"}

(* An address a caller goes on with after a 0 is the one that was written: *)
(* the name in the place and with the size of its family, and the port in  *)
(* the byte order of the network.                                          *)
ParsedAsWritten ==
    Parses(call) /\ result = 0 =>
        /\ dest.port = htons(text.port)
        /\ eo_addr_size(dest) = "sockaddr_in" <=> text.host.name \in V4
        /\ eo_addr_size(dest) = "sockaddr_in6" <=> text.host.name \in V6
        /\ text.host.name = IF dest.family = "v4" THEN dest.word ELSE dest.addr6

(* A call that fails leaves the address alone: server.c goes on with what  *)
(* it had.                                                                 *)
FailureKeepsDest == [][Parses(call') /\ result' = -1 => dest' = dest]_vars

(* Formatting and parsing again gives the same address, an IPv6 one too,   *)
(* unless the parser refuses.                                              *)
RoundTrip ==
    [][call = "to_str" /\ call' = "parse_port" /\ text' = str /\ result' = 0 =>
        /\ dest'.family = dest.family /\ dest'.port = dest.port
        /\ dest.family = "v4" => dest'.word = dest.word
        /\ dest.family = "v6" => dest'.addr6 = dest.addr6]_vars

(* What the callers of the conversions rely on. *)
AddressesKept == []ParsedAsWritten /\ FailureKeepsDest /\ RoundTrip

(* types.h:27: "parse ipv4/ipv6 address and port. returns 0 on success, -1 *)
(* on error."  A text that is an address and a port is parsed.             *)
ValidIsParsed ==
    (/\ call = "parse_port" /\ text.host # None
     /\ text.port \in 1 .. PORT_MAX
     /\ text.host.name \in V4 \cup V6
     /\ text.host.open = text.host.close /\ ~text.host.junk) => result = 0
================================================================================
