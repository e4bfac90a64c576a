----------------------------- MODULE StunClient -----------------------------
(***************************************************************************)
(* The STUN client of the retired core (cpp/src/stun/stun_client.cpp): a   *)
(* list of servers is asked one after the other, each over a socket of its *)
(* own, and the answers are walked attribute by attribute.                 *)
(*                                                                         *)
(* The network loses, delays and reorders answers.  An answer is matched   *)
(* with a request by nothing but the port it is sent to: neither its       *)
(* transaction id nor its sender is looked at, and the kernel may give a   *)
(* new socket the port of an old one.  An address and a port together are  *)
(* one number of Endpoints; the xor with the magic cookie is an involution *)
(* without a fixed point.                                                  *)
(*                                                                         *)
(* An operator introduced as a mutant is no part of the specification: it  *)
(* is the next definition with a plausible bug, and breaks a property.     *)
(***************************************************************************)
EXTENDS Naturals, Integers, Sequences, SequencesExt, FiniteSets

CONSTANTS Servers,
          LocalPorts,  \* the arguments of setLocalPort; 0 lets the kernel choose
          Ports,       \* the ports it chooses from
          Device,      \* the endpoint the servers see
          Lengths,     \* lengths of the attributes that are no address
          MaxAttributes, MaxRequests  \* bounds of the model

\* What is assumed of the constants.
DeviceAssumption ==
  /\ Device \in 0 .. 3 /\ Lengths \subseteq Nat
  /\ MaxAttributes \in Nat /\ MaxRequests \in Nat

Endpoints == 0 .. 3
Xored(e)  == 3 - e

VARIABLES
  localPort, stunServer,
  sock,     \* the descriptor in the object, -1 for none
  open,     \* the open descriptors, each with the port it is bound to
  made,     \* sockets made so far
  net,      \* answers on their way: where to, from whom, what
  pc,       \* where performBindingRequest is
  todo,     \* servers performMultipleRequests has still to ask
  results   \* what it has collected: who was asked and what is believed

vars == <<localPort, stunServer, sock, open, made, net, pc, todo, results>>

-----------------------------------------------------------------------------
(***************************************************************************)
(* An answer as the server lays it out, and the walk over it.              *)
(***************************************************************************)

\* The attributes a server may send: an address as it is, xored, of IPv6, and a text.
Attribute ==
       {[type |-> "mapped", length |-> 8, ipv4 |-> TRUE, value |-> Device],
        [type |-> "xor", length |-> 8, ipv4 |-> TRUE, value |-> Xored(Device)],
        [type |-> "xor", length |-> 20, ipv4 |-> FALSE, value |-> Device]}
  \cup {[type |-> "other", length |-> n, ipv4 |-> FALSE, value |-> Device] : n \in Lengths}

Answer == [kind : {"response"}, attributes : SeqOf(Attribute, MaxAttributes)]
     \cup [kind : {"short", "no cookie", "other type"}, attributes : {<<>>}]

Aligned(n) == IF n % 4 = 0 THEN n ELSE (n + 4) - (n % 4)

\* Where an attribute of an answer starts, and where the answer ends.
Start(a, i) ==
  LET start[j \in 1 .. Len(a.attributes) + 1] ==
        IF j = 1 THEN 20 ELSE start[j - 1] + 4 + Aligned(a.attributes[j - 1].length)
  IN  start[i]
Size(a) == Start(a, Len(a.attributes) + 1)

NoAddress == [success |-> FALSE, value |-> 0]

IsAddress(at) == at.type \in {"mapped", "xor"} /\ at.ipv4

\* The offset after an attribute; as a mutant, without the padding.
NextOffsetUnpadded(offset, length) == offset + 4 + length
NextOffset(offset, length) == Aligned(offset + 4 + length)

\* The loop over the attributes.  What the walk reads at an offset no
\* attribute starts at is no address it knows.
Walk(a) ==
  LET found[offset \in 20 .. Size(a) + 64] ==
        IF offset + 4 > Size(a) THEN NoAddress
        ELSE LET starting == {i \in DOMAIN a.attributes : Start(a, i) = offset}
             IN  IF starting = {} THEN NoAddress
                 ELSE LET at == a.attributes[CHOOSE i \in starting : TRUE]
                      IN  IF IsAddress(at) THEN [success |-> TRUE, value |-> at.value]
                          ELSE found[NextOffset(offset, at.length)]
  IN  found[20]

\* parseSTUNResponse: the size, the cookie and the type, then the attributes.
Parse(a) == IF a.kind = "response" THEN Walk(a) ELSE NoAddress

-----------------------------------------------------------------------------
\* The type invariant.
TypeOK ==
  /\ localPort \in LocalPorts /\ stunServer \in Servers \cup {""}
  /\ sock \in {-1} \cup 1 .. MaxRequests
  /\ \A s \in open : s.fd \in 1 .. MaxRequests
  /\ pc \in {"idle", "create", "send", "receive"}
  /\ todo \in Seq(Servers) /\ Len(todo) + Len(results) <= MaxRequests
  /\ \A i \in DOMAIN results : results[i].asked \in Servers /\ results[i].value \in Endpoints

Init ==
  /\ localPort \in LocalPorts /\ stunServer = "" /\ sock = -1 /\ open = {}
  /\ made = 0 /\ net = {} /\ pc = "idle" /\ todo = <<>> /\ results = <<>>

\* setLocalPort: for the sockets made from now on.
SetLocalPort(port) ==
  /\ pc = "idle" /\ localPort' = port
  /\ UNCHANGED <<stunServer, sock, open, made, net, pc, todo, results>>

\* performMultipleRequests(servers).
PerformMultipleRequests(servers) ==
  /\ pc = "idle" /\ todo = <<>> /\ servers # <<>>
  /\ Len(results) + Len(servers) <= MaxRequests
  /\ todo' = servers /\ pc' = "create" /\ stunServer' = Head(servers)
  /\ UNCHANGED <<localPort, sock, open, made, net, results>>

Left == Tail(todo)

\* performBindingRequest returns: the result is kept, the loop asks the next
\* server, whose name initialize stores.
Returns(r, answerer, answer) ==
  /\ results' = Append(results, [asked |-> stunServer, success |-> r.success,
                                 value |-> r.value, answerer |-> answerer,
                                 answer |-> answer])
  /\ todo' = Left
  /\ pc' = IF Len(todo) = 1 THEN "idle" ELSE "create"
  /\ stunServer' = IF Len(todo) = 1 THEN stunServer ELSE todo[2]

\* The socket is closed on every way out after it was made; as a mutant, not.
ClosedNot == sock' = -1 /\ open' = open
Closed == sock' = -1 /\ open' = {s \in open : s.fd # sock}

\* The port of a new socket.
Bound == IF localPort > 0 THEN {localPort} ELSE Ports \ {s.port : s \in open}

\* createSocket: a port that is taken fails like no descriptor at all.
CreateSocket ==
  /\ pc = "create" /\ made' = made + 1
  /\ \/ /\ sock' = made + 1
        /\ \E port \in Bound : open' = open \cup {[fd |-> made + 1, port |-> port]}
        /\ pc' = "send" /\ UNCHANGED <<results, todo, stunServer>>
     \/ sock' = -1 /\ open' = open /\ Returns(NoAddress, "nobody", <<>>)
  /\ UNCHANGED <<localPort, net>>

PortOf(fd) == (CHOOSE s \in open : s.fd = fd).port

\* sendSTUNRequest: the name may not resolve, nor the datagram leave; what the
\* server answers to it is on its way from here on.
SendRequest ==
  /\ pc = "send"
  /\ \/ Closed /\ Returns(NoAddress, "nobody", <<>>) /\ net' = net
     \/ /\ \E a \in Answer :
             net' = net \cup {[to |-> PortOf(sock), from |-> stunServer, answer |-> a]}
        /\ pc' = "receive" /\ UNCHANGED <<sock, open, results, todo, stunServer>>
  /\ UNCHANGED <<localPort, made>>

\* recvfrom: an answer to the port of the socket, or nothing within 5 s.
Receive ==
  /\ pc = "receive"
  /\ \/ \E m \in {n \in net : n.to = PortOf(sock)} :
          net' = net \ {m} /\ Returns(Parse(m.answer), m.from, m.answer)
     \/ net' = net /\ Returns(NoAddress, "nobody", <<>>)
  /\ Closed
  /\ UNCHANGED <<localPort, made>>

Next ==
  \/ \E port \in LocalPorts : SetLocalPort(port)
  \/ \E servers \in SeqOf(Servers, MaxRequests) : PerformMultipleRequests(servers)
  \/ CreateSocket \/ SendRequest \/ Receive

Spec == Init /\ [][Next]_vars

-----------------------------------------------------------------------------
(***************************************************************************)
(* Properties.                                                             *)
(***************************************************************************)

\* Whatever fails on the way, no socket stays open between two requests:
\* performBindingRequest closes what createSocket made on each of its paths.
NoSocketIsLeft == pc \in {"idle", "create"} => open = {} /\ sock = -1

\* Padded attributes of any length before it do not hide the first IPv4 address
\* of an answer from the walk of parseSTUNResponse: a request succeeds if and only
\* if there is one, and reports the device's endpoint if it is a MAPPED one.
FirstAddressIsFound ==
  \A i \in DOMAIN results :
    results[i].answerer # "nobody" =>
      LET attributes == results[i].answer.attributes
          addresses  == {j \in DOMAIN attributes : IsAddress(attributes[j])}
      IN  /\ results[i].success <=> addresses # {}
          /\ \A j \in addresses :
               (\A k \in addresses : j <= k) /\ attributes[j].type = "mapped"
                 => results[i].value = Device

\* performBindingRequest "Returns the public endpoint (IP:port) of this device"
\* (stun_client.h), whichever address the answer carries.
ReturnsThePublicEndpoint ==
  \A i \in DOMAIN results : results[i].success => results[i].value = Device

=============================================================================
