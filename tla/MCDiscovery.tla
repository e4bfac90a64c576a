---------------------------- MODULE MCDiscovery ----------------------------
(***************************************************************************)
(* How a device of the retired core (cpp/) finds its peers and is found by *)
(* them, side by side: the list of nodes read out of the map response      *)
(* (NodeList), and the device's own endpoint, asked of a STUN server       *)
(* (StunClient), against what the sources say each of them returns.  The   *)
(* list has at least one node and is in the format the code expects.       *)
(***************************************************************************)
EXTENDS Integers, Sequences

CONSTANTS
  MaxNodes, Absent,                                                 \* of NodeList
  Servers, LocalPorts, Ports, Device, Lengths, MaxAttributes, MaxRequests \* of StunClient

Keys      == {<<"key 1">>, <<"key 2">>}
IPs       == {<<"100.64.0.1">>}
Endpoints == {<<"1.2.3.4:41641">>}
Times     == {"7"}

VARIABLES listed, text, nodePos, nodes, at
VARIABLES localPort, stunServer, sock, open, made, net, pc, todo, results

listVars == <<listed, text, nodePos, nodes, at>>
stunVars == <<localPort, stunServer, sock, open, made, net, pc, todo, results>>
vars == <<listVars, stunVars>>

List == INSTANCE NodeList
Stun == INSTANCE StunClient

Init == /\ List!Init /\ Stun!Init
        /\ listed # <<>> /\ \A i \in 1 .. Len(listed) : List!AsExpected(listed[i])

Next == \/ List!Next /\ UNCHANGED stunVars
        \/ Stun!Next /\ UNCHANGED listVars

Spec == Init /\ [][Next]_vars

-----------------------------------------------------------------------------
\* getNetworkConfig reads the values of the "Expected format (simplified)", and
\* performBindingRequest "Returns the public endpoint (IP:port) of this device".
\* This asks for less, that one of the two holds: so a counterexample refutes both.
OneReadsWhatItShould == List!NodesAreThoseListed \/ Stun!ReturnsThePublicEndpoint
=============================================================================
