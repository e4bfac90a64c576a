------------------------------ MODULE NodeList ------------------------------
(***************************************************************************)
(* How the retired HeadscaleClient reads the list of nodes out of the map  *)
(* response (getNetworkConfig of cpp/src/api/headscale_client.cpp): by     *)
(* searching the text for names, quotes and brackets, not by parsing it.   *)
(*                                                                         *)
(* A text is a sequence of tokens: a quote, a bracket, a colon, a comma, a *)
(* name or a value.  std::string::find is Find, its npos NPos.             *)
(*                                                                         *)
(* An operator introduced as a mutant is no part of the specification: it  *)
(* is the next definition with a plausible bug, and breaks a property.     *)
(***************************************************************************)
EXTENDS Naturals, Sequences, SequencesExt, FiniteSetsExt

CONSTANTS Keys, IPs, Endpoints, \* values, sequences of tokens
          Times,     \* of lastSeen, as tokens
          MaxNodes,
          Absent     \* a field a node does not carry

VARIABLES
  listed,  \* the nodes the server lists
  text,    \* nodesArray
  nodePos,
  nodes,   \* config.nodes
  at       \* "response", "nodes" or "returned"

vars == <<listed, text, nodePos, nodes, at>>

Q == "quote"

-----------------------------------------------------------------------------
(***************************************************************************)
(* The response of the server, in the format getNetworkConfig expects.     *)
(***************************************************************************)

Node == [publicKey : Keys, meshIP : IPs \cup {Absent}, endpoint : Endpoints \cup {Absent},
         online : {"true", "false", Absent}, lastSeen : Times \cup {Absent}]

\* The name and the value of a field, quoted unless it is bare; none if absent.
Quoted(name, value) ==
  IF value = Absent THEN <<>>
  ELSE <<",", Q, name, Q, ":", Q>> \o value \o <<Q>>
Bare(name, value) ==
  IF value = Absent THEN <<>> ELSE <<",", Q, name, Q, ":", value>>

JsonOf(n) ==
  <<"{">> \o Tail(Quoted("publicKey", n.publicKey)) \o Quoted("meshIP", n.meshIP)
  \o Quoted("endpoint", n.endpoint) \o Bare("online", n.online)
  \o Bare("lastSeen", n.lastSeen) \o <<"}">>

Body(ns) ==
  <<"{", Q, "nodes", Q, ":", "[">>
  \o FlattenSeq([i \in 1 .. Len(ns) |-> (IF i = 1 THEN <<>> ELSE <<",">>) \o JsonOf(ns[i])])
  \o <<"]", "}">>

-----------------------------------------------------------------------------
NPos == 0

\* The first occurrence of pattern in s at or after from, or NPos.
Find(s, pattern, from) ==
  LET places == {p \in from .. Len(s) - Len(pattern) + 1 :
                   SubSeq(s, p, p + Len(pattern) - 1) = pattern}
  IN  IF places = {} THEN NPos ELSE Min(places)

Init ==
  /\ listed \in SeqOf(Node, MaxNodes)
  /\ text = <<>> /\ nodePos = 1 /\ nodes = <<>> /\ at = "response"

\* The array is the text from the first bracket after "nodes" to the first
\* closing bracket.
GetNetworkConfig ==
  /\ at = "response"
  /\ LET body  == Body(listed)
         start == Find(body, <<"[">>, Find(body, <<Q, "nodes", Q>>, 1))
         end   == Find(body, <<"]">>, start)
     IN  text' = SubSeq(body, start, end)
  /\ at' = "nodes"
  /\ UNCHANGED <<listed, nodePos, nodes>>

\* A string field, searched from nodePos on: what stands between the second
\* and the third quote after its name.
StringField(name, from) ==
  LET p     == Find(text, <<Q, name, Q>>, from)
      open  == Find(text, <<Q>>, p + 3)
      start == Find(text, <<Q>>, open + 1)
      end   == Find(text, <<Q>>, start + 1)
  IN  IF p # NPos /\ open # NPos /\ start # NPos /\ end # NPos
      THEN SubSeq(text, start + 1, end - 1) ELSE <<>>

\* Where the reading of the public key ends.
KeyEnd(from) ==
  LET open == Find(text, <<Q>>, from + 3)
  IN  IF open = NPos THEN NPos
      ELSE Find(text, <<Q>>, Find(text, <<Q>>, open + 1) + 1)

\* Mutant: "true" is looked for in the whole rest of the text.
OnlineAnywhere(from) ==
  LET p     == Find(text, <<Q, "online", Q>>, from)
      colon == Find(text, <<":">>, p)
  IN  IF p = NPos \/ colon = NPos THEN {"true", "false"}
      ELSE IF Find(text, <<"true">>, colon) # NPos THEN {"true"} ELSE {"false"}

\* online: whether "true" comes before the next closing brace.  A node built
\* without the field keeps the uninitialised value: either.
Online(from) ==
  LET p     == Find(text, <<Q, "online", Q>>, from)
      colon == Find(text, <<":">>, p)
      true  == Find(text, <<"true">>, colon)
      brace == Find(text, <<"}">>, colon)
  IN  IF p = NPos \/ colon = NPos THEN {"true", "false"}
      ELSE IF true # NPos /\ (brace = NPos \/ true < brace) THEN {"true"} ELSE {"false"}

\* lastSeen: the number after the colon; any value if no node carries it.
LastSeen(from) ==
  LET p     == Find(text, <<Q, "lastSeen", Q>>, from)
      colon == Find(text, <<":">>, p)
  IN  IF p = NPos \/ colon = NPos THEN Times \cup {"0"}
      ELSE {IF colon < Len(text) /\ text[colon + 1] \in Times THEN text[colon + 1] ELSE "0"}

\* Where the search for the next node starts.
KeptAfter(found) == IF KeyEnd(found) # NPos THEN KeyEnd(found) + 1 ELSE found + 1

Kept(key) == key # <<>>

\* One turn of the loop: every field is searched from the key's name on, and a
\* node is kept if its key is not empty.
ParseNode ==
  LET found == Find(text, <<Q, "publicKey", Q>>, nodePos)
      key   == StringField("publicKey", found)
  IN  /\ at = "nodes" /\ found # NPos
      /\ \E on \in Online(found), seen \in LastSeen(found) :
           nodes' = IF ~Kept(key) THEN nodes
                    ELSE Append(nodes, [publicKey |-> key,
                                        meshIP    |-> StringField("meshIP", found),
                                        endpoint  |-> StringField("endpoint", found),
                                        online    |-> on, lastSeen |-> seen])
      /\ nodePos' = KeptAfter(found)
      /\ UNCHANGED <<listed, text, at>>

ParseEnds ==
  /\ at = "nodes" /\ Find(text, <<Q, "publicKey", Q>>, nodePos) = NPos
  /\ at' = "returned"
  /\ UNCHANGED <<listed, text, nodePos, nodes>>

Next == GetNetworkConfig \/ ParseNode \/ ParseEnds

Spec == Init /\ [][Next]_vars

-----------------------------------------------------------------------------
\* A node as the "Expected format" of getNetworkConfig has it, with every string
\* field, and no closing bracket in a value: the first one ends the array.
AsExpected(n) ==
  Absent \notin {n.meshIP, n.endpoint} /\ \A e \in {n.meshIP, n.endpoint} : "]" \notin ToSet(e)

\* Where a key is named, from from on.
KeysNamed(from) ==
  {p \in from .. Len(text) - 2 : SubSeq(text, p, p + 2) = <<Q, "publicKey", Q>>}

\* Whatever the nodes carry or lack, the search for the next key leaves the last
\* one behind it: no node is kept twice.
NoNodeTwice == Len(nodes) + Cardinality(KeysNamed(nodePos)) <= Len(listed)

\* Of a list in the expected format no node is lost, and one that says whether it
\* is online is read so, whatever the nodes before and after it say.
NoNodeIsLost ==
  at = "returned" /\ (\A i \in 1 .. Len(listed) : AsExpected(listed[i])) =>
    /\ Len(nodes) = Len(listed)
    /\ \A i \in 1 .. Len(nodes) :
         listed[i].online # Absent => nodes[i].online = listed[i].online

Read(value) == IF value = Absent THEN <<>> ELSE value

\* The nodes are those the server lists: every string is the value of its field.
NodesAreThoseListed ==
  at = "returned" =>
    /\ Len(nodes) = Len(listed)
    /\ \A i \in 1 .. Len(nodes) :
         /\ nodes[i].publicKey = listed[i].publicKey
         /\ nodes[i].meshIP = Read(listed[i].meshIP)
         /\ nodes[i].endpoint = Read(listed[i].endpoint)

=============================================================================
