---------------------------- MODULE LegacyCore ----------------------------
(***************************************************************************)
(* The retired C++ core behind its NAPI functions                          *)
(* (cpp/arkmesh_core.cpp, cpp/napi_init.cpp, cpp/src/key/key_manager.cpp): *)
(* the main thread of ArkTS, which makes one call after the other, the     *)
(* keepalive and the STUN thread of every session, and the threads of the  *)
(* WireGuard tunnel.                                                       *)
(*                                                                         *)
(* A call that blocks in the network or in a join is cut there.  The loops *)
(* of a session are detached by disconnect and look at `running' only      *)
(* between two sleeps, so loops of several sessions may be alive.  The     *)
(* server and the random source are not in this repository: a request may  *)
(* fail or succeed, and so may the generation of a key.                    *)
(*                                                                         *)
(* An operator introduced as a mutant is no part of the specification: it  *)
(* is the next definition with a plausible bug, and breaks a property.     *)
(***************************************************************************)
EXTENDS Naturals, FiniteSets

CONSTANTS
  Sessions,  \* the successful calls of connect, which start two threads each
  Keys,      \* what the random source can yield, each key once
  None       \* no key, and no session

\* A key the manager "has" although its generation failed: an empty KeyPair.
Empty == "empty"

ASSUME LegacyAssumption ==
  None \notin Sessions /\ None \notin Keys /\ Empty \notin Keys

VARIABLES
  created,    \* g_arkmeshCore is there
  running, connected, status, nodes,
  machineKey, nodeKey, \* of KeyManager; None while hasMachineKey is false
  spent,      \* the keys generated so far
  client,     \* the keys of headscaleClient and whether it registered
  joinable,   \* the session whose threads keepaliveThread and stunThread name
  main,       \* where the main thread is, and inside which call
  keepalive,  \* where the keepalive thread of a session is
  stun,       \* where the STUN thread of a session is
  tunnel      \* the WireGuard tunnel: its threads, its running flag, its peers

keyVars == <<machineKey, nodeKey, spent>>
flags   == <<running, connected, status>>
vars    == <<created, flags, nodes, keyVars, client, joinable, main, keepalive,
             stun, tunnel>>

AnyKey == Keys \cup {None, Empty}
LoopPc == {"none", "check", "asking", "failed", "sleep", "ended"}
MainPc == {"idle", "keys", "register", "answer", "config", "tunnel", "connected",
           "threads", "failed", "join"}

\* The type invariant.
TypeOK ==
  /\ created \in BOOLEAN /\ running \in BOOLEAN /\ connected \in BOOLEAN
  /\ status \in {"disconnected", "initialized", "connected", "error"}
  /\ nodes \in {"none", "listed"}
  /\ machineKey \in AnyKey /\ nodeKey \in AnyKey /\ spent \subseteq Keys
  /\ client \in [machine : AnyKey, node : AnyKey, connected : BOOLEAN]
  /\ joinable \in Sessions \cup {None}
  /\ main \in [at : MainPc, call : {"none", "connect", "register", "disconnect"}]
  /\ keepalive \in [Sessions -> LoopPc]
  /\ stun \in [Sessions -> LoopPc]
  /\ tunnel \in [running : BOOLEAN, threads : {"none", "alive", "ended"},
                 peers : {"none", "listed"}]

Idle    == [at |-> "idle", call |-> "none"]
NoPeers == [running |-> FALSE, threads |-> "none", peers |-> "none"]

Init ==
  /\ created = FALSE /\ running = FALSE /\ connected = FALSE
  /\ status = "disconnected" /\ nodes = "none"
  /\ machineKey = None /\ nodeKey = None /\ spent = {}
  /\ client = [machine |-> None, node |-> None, connected |-> FALSE]
  /\ joinable = None /\ main = Idle
  /\ keepalive = [s \in Sessions |-> "none"]
  /\ stun = [s \in Sessions |-> "none"]
  /\ tunnel = NoPeers

Here(at, call) == main = [at |-> at, call |-> call]
Goto(at)       == main' = [main EXCEPT !.at = at]
NoLoopMoves    == UNCHANGED <<keepalive, stun>>

-----------------------------------------------------------------------------
(***************************************************************************)
(* The key manager.  Load returns the key in memory, or generates one; a   *)
(* failed generation leaves the manager without a key and returns an empty *)
(* one.  Nothing is ever stored outside the process.                       *)
(***************************************************************************)

\* The values a generation may leave: a fresh key, or the old one (failure).
Generated(old) == (Keys \ spent) \cup {old}

\* Mutant: the key is generated on every load, as the TODO in the code says.
LoadedAlwaysFresh(old) == Generated(old)
Loaded(old) == IF old = None THEN Generated(old) ELSE {old}

\* attemptConnection: an empty key that was saved is generated again.
LoadedForConnect(old) == IF old = Empty THEN Generated(old) ELSE Loaded(old)

IsKey(k) == k \in Keys

-----------------------------------------------------------------------------
(***************************************************************************)
(* The functions ArkTS calls.                                              *)
(***************************************************************************)

NapiInitialize ==
  /\ main = Idle
  /\ ~created
  /\ created' = TRUE
  /\ UNCHANGED <<flags, nodes, keyVars, client, joinable, main, tunnel>>
  /\ NoLoopMoves

\* initialize stores the configuration, whatever is running.
NapiInitializeWithConfig ==
  /\ main = Idle /\ created
  /\ status' = "initialized"
  /\ UNCHANGED <<created, running, connected, nodes, keyVars, client, joinable,
                 main, tunnel>>
  /\ NoLoopMoves

\* A bound of the model: connect is not called again when the threads of one
\* more session could not be named.
SessionLeft == \E s \in Sessions : keepalive[s] = "none"

\* connect while one is running only returns `connected'.
NapiConnect ==
  /\ main = Idle /\ created /\ SessionLeft
  /\ ~running
  /\ running' = TRUE /\ connected' = FALSE
  /\ main' = [at |-> "keys", call |-> "connect"]
  /\ UNCHANGED <<created, status, nodes, keyVars, client, joinable, tunnel>>
  /\ NoLoopMoves

\* registerWithAuthKey: the machine key is the one getMachinePublicKeyBase64
\* returns, whether or not its generation succeeded; only the node key is
\* checked.
NapiRegisterWithAuthKey ==
  /\ main = Idle /\ created
  /\ \E m \in Loaded(machineKey), n \in Loaded(nodeKey) :
       /\ (IsKey(m) /\ IsKey(n)) => m # n
       /\ machineKey' = m /\ nodeKey' = n
       /\ spent' = spent \cup ({m, n} \cap Keys)
       /\ IF IsKey(n)
          THEN /\ client' = [client EXCEPT !.machine = m, !.node = n]
               /\ main' = [at |-> "register", call |-> "register"]
               /\ UNCHANGED status
          ELSE /\ client' = [client EXCEPT !.machine = m]
               /\ status' = "error" /\ UNCHANGED main
  /\ UNCHANGED <<created, running, connected, nodes, joinable, tunnel>>
  /\ NoLoopMoves

\* generateMachineKey saves what the generation returned, an empty key too.
NapiGenerateMachineKey ==
  /\ main = Idle /\ created
  /\ \E k \in (Keys \ spent) \cup {Empty} :
       /\ machineKey' = k
       /\ spent' = spent \cup ({k} \cap Keys)
  /\ UNCHANGED <<created, flags, nodes, nodeKey, client, joinable, main, tunnel>>
  /\ NoLoopMoves

\* Mutant: the threads are left joinable when the session ends.
NapiDisconnectNotDetached ==
  /\ main = Idle /\ created
  /\ running' = FALSE /\ connected' = FALSE
  /\ tunnel' = [tunnel EXCEPT !.running = FALSE]
  /\ main' = [at |-> "join", call |-> "disconnect"]
  /\ UNCHANGED <<created, status, nodes, keyVars, client, joinable>>
  /\ NoLoopMoves

\* disconnect up to the join of the tunnel's threads.
NapiDisconnect ==
  /\ main = Idle /\ created
  /\ running' = FALSE /\ connected' = FALSE
  /\ joinable' = None
  /\ tunnel' = [tunnel EXCEPT !.running = FALSE]
  /\ main' = [at |-> "join", call |-> "disconnect"]
  /\ UNCHANGED <<created, status, nodes, keyVars, client>>
  /\ NoLoopMoves

\* WireGuardTunnel::stop has joined its threads.
DisconnectReturns ==
  /\ Here("join", "disconnect")
  /\ tunnel.threads # "alive"
  /\ status' = "disconnected"
  /\ tunnel' = [tunnel EXCEPT !.threads = "none"]
  /\ main' = Idle
  /\ UNCHANGED <<created, running, connected, nodes, keyVars, client, joinable>>
  /\ NoLoopMoves

-----------------------------------------------------------------------------
(***************************************************************************)
(* attemptConnection, and the end of connect.                              *)
(***************************************************************************)

\* The machine key, then the node key: either missing ends the attempt.
ConnectKeys ==
  /\ Here("keys", "connect")
  /\ \E m \in LoadedForConnect(machineKey) :
       /\ machineKey' = m
       /\ IF IsKey(m)
          THEN \E n \in LoadedForConnect(nodeKey) \ {m} :
                 /\ nodeKey' = n
                 /\ spent' = spent \cup ({m, n} \cap Keys)
                 /\ IF IsKey(n)
                    THEN /\ client' = [client EXCEPT !.machine = m, !.node = n]
                         /\ Goto("register") /\ UNCHANGED status
                    ELSE Goto("failed") /\ status' = "error" /\ UNCHANGED client
          ELSE /\ Goto("failed") /\ status' = "error"
               /\ UNCHANGED <<client, nodeKey, spent>>
  /\ UNCHANGED <<created, running, connected, nodes, joinable, tunnel>>
  /\ NoLoopMoves

\* The register request leaves, with the keys of the client.
RegisterSent ==
  /\ main.at = "register"
  /\ Goto("answer")
  /\ UNCHANGED <<created, flags, nodes, keyVars, client, joinable, tunnel>>
  /\ NoLoopMoves

\* attemptConnection refuses a configuration without an auth key.
ConnectWithoutAuthKey ==
  /\ Here("register", "connect")
  /\ Goto("failed") /\ status' = "error"
  /\ UNCHANGED <<created, running, connected, nodes, keyVars, client, joinable,
                 tunnel>>
  /\ NoLoopMoves

\* What the client reports reaches `status' only inside connect, which installs
\* a callback; registerWithAuthKey installs the one of the NAPI layer: none.
Reported(new) == IF main.call = "connect" THEN new ELSE status

RegisterSucceeds ==
  /\ main.at = "answer"
  /\ client' = [client EXCEPT !.connected = TRUE]
  /\ status' = Reported("connected")
  /\ main' = IF main.call = "connect" THEN [main EXCEPT !.at = "config"] ELSE Idle
  /\ UNCHANGED <<created, running, connected, nodes, keyVars, joinable, tunnel>>
  /\ NoLoopMoves

\* No answer, another status, or an AuthURL; client.connected stays as it is.
RegisterFails ==
  /\ main.at = "answer"
  /\ status' = Reported("error")
  /\ main' = IF main.call = "connect" THEN [main EXCEPT !.at = "failed"] ELSE Idle
  /\ UNCHANGED <<created, running, connected, nodes, keyVars, client, joinable,
                 tunnel>>
  /\ NoLoopMoves

\* The network configuration; a failed request leaves an empty node list and
\* does not end the attempt.
ConnectConfig ==
  /\ Here("config", "connect")
  /\ nodes' \in {"none", "listed"}
  /\ Goto("tunnel")
  /\ UNCHANGED <<created, flags, keyVars, client, joinable, tunnel>>
  /\ NoLoopMoves

\* WireGuardTunnel::initialize replaces the peers, start starts two threads
\* unless the tunnel is running.
ConnectTunnel ==
  /\ Here("tunnel", "connect")
  /\ tunnel' = [running |-> TRUE, threads |-> "alive", peers |-> nodes]
  /\ Goto("connected")
  /\ UNCHANGED <<created, flags, nodes, keyVars, client, joinable>>
  /\ NoLoopMoves

ConnectSucceeds ==
  /\ Here("connected", "connect")
  /\ connected' = TRUE /\ status' = "connected"
  /\ Goto("threads")
  /\ UNCHANGED <<created, running, nodes, keyVars, client, joinable, tunnel>>
  /\ NoLoopMoves

\* The two threads of the session are started and assigned to the members.
ConnectThreads(s) ==
  /\ Here("threads", "connect")
  /\ keepalive[s] = "none"
  /\ keepalive' = [keepalive EXCEPT ![s] = "check"]
  /\ stun' = [stun EXCEPT ![s] = "check"]
  /\ joinable' = s
  /\ main' = Idle
  /\ UNCHANGED <<created, flags, nodes, keyVars, client, tunnel>>

ConnectFails ==
  /\ Here("failed", "connect")
  /\ running' = FALSE /\ status' = "error"
  /\ main' = Idle
  /\ UNCHANGED <<created, connected, nodes, keyVars, client, joinable, tunnel>>
  /\ NoLoopMoves

MainThread ==
  \/ ConnectKeys \/ ConnectWithoutAuthKey
  \/ RegisterSent \/ RegisterSucceeds \/ RegisterFails
  \/ ConnectConfig \/ ConnectTunnel \/ ConnectSucceeds \/ ConnectFails
  \/ DisconnectReturns
  \/ \E s \in Sessions : ConnectThreads(s)

Calls ==
  \/ NapiInitialize \/ NapiInitializeWithConfig \/ NapiConnect
  \/ NapiRegisterWithAuthKey \/ NapiGenerateMachineKey \/ NapiDisconnect

-----------------------------------------------------------------------------
(***************************************************************************)
(* The threads.                                                            *)
(***************************************************************************)

\* The head of keepaliveLoop.
KeepaliveCheck(s) ==
  /\ keepalive[s] = "check"
  /\ keepalive' = [keepalive EXCEPT ![s] =
       CASE ~running  -> "ended"
         [] connected -> "asking"
         [] OTHER     -> "sleep"]
  /\ UNCHANGED <<created, flags, nodes, keyVars, client, joinable, main, stun, tunnel>>

KeepaliveAnswered(s) ==
  /\ keepalive[s] = "asking"
  /\ keepalive' = [keepalive EXCEPT ![s] = "sleep"]
  /\ UNCHANGED <<created, flags, nodes, keyVars, client, joinable, main, stun, tunnel>>

\* notifyStatus("error", "Keepalive failed, reconnecting...")
KeepaliveFails(s) ==
  /\ keepalive[s] = "asking"
  /\ keepalive' = [keepalive EXCEPT ![s] = "failed"]
  /\ status' = "error"
  /\ UNCHANGED <<created, running, connected, nodes, keyVars, client, joinable, main,
                 stun, tunnel>>

\* Mutant: the failed session is ended so that connect can be called again.
KeepaliveDropsSession(s) ==
  /\ keepalive[s] = "failed"
  /\ keepalive' = [keepalive EXCEPT ![s] = "sleep"]
  /\ connected' = FALSE /\ running' = FALSE
  /\ UNCHANGED <<created, status, nodes, keyVars, client, joinable, main, stun, tunnel>>

KeepaliveDrops(s) ==
  /\ keepalive[s] = "failed"
  /\ keepalive' = [keepalive EXCEPT ![s] = "sleep"]
  /\ connected' = FALSE
  /\ UNCHANGED <<created, running, status, nodes, keyVars, client, joinable, main,
                 stun, tunnel>>

KeepaliveWakes(s) ==
  /\ keepalive[s] = "sleep"
  /\ keepalive' = [keepalive EXCEPT ![s] = "check"]
  /\ UNCHANGED <<created, flags, nodes, keyVars, client, joinable, main, stun, tunnel>>

\* Mutant: the loop looks only at `connected', as if it could not outlive its core.
StunLoopEndless(s) ==
  /\ \/ /\ stun[s] = "check"
        /\ stun' = [stun EXCEPT ![s] = IF connected THEN "asking" ELSE "sleep"]
     \/ stun[s] = "asking" /\ stun' = [stun EXCEPT ![s] = "sleep"]
     \/ stun[s] = "sleep" /\ stun' = [stun EXCEPT ![s] = "check"]
  /\ UNCHANGED <<created, flags, nodes, keyVars, client, joinable, main, keepalive,
                 tunnel>>

\* stunLoop: a binding request while connected, whose result only goes to the
\* server (updateEndpoint).
StunLoop(s) ==
  /\ \/ /\ stun[s] = "check"
        /\ stun' = [stun EXCEPT ![s] =
             CASE ~running  -> "ended"
               [] connected -> "asking"
               [] OTHER     -> "sleep"]
     \/ stun[s] = "asking" /\ stun' = [stun EXCEPT ![s] = "sleep"]
     \/ stun[s] = "sleep" /\ stun' = [stun EXCEPT ![s] = "check"]
  /\ UNCHANGED <<created, flags, nodes, keyVars, client, joinable, main, keepalive,
                 tunnel>>

KeepaliveLoop(s) ==
  \/ KeepaliveCheck(s) \/ KeepaliveAnswered(s) \/ KeepaliveFails(s)
  \/ KeepaliveDrops(s) \/ KeepaliveWakes(s)

\* receiveLoop and handshakeLoop of the tunnel see that it has been stopped.
TunnelThreads ==
  /\ tunnel.threads = "alive" /\ ~tunnel.running
  /\ tunnel' = [tunnel EXCEPT !.threads = "ended"]
  /\ UNCHANGED <<created, flags, nodes, keyVars, client, joinable, main>>
  /\ NoLoopMoves

Threads ==
  \/ TunnelThreads
  \/ \E s \in Sessions : KeepaliveLoop(s) \/ StunLoop(s)

Next == Calls \/ MainThread \/ Threads

\* The threads and a call in progress go on: requests have timeouts of 10 s,
\* sleeps end.  No call has to be made.
Fairness ==
  /\ WF_vars(MainThread)
  /\ WF_vars(TunnelThreads)
  /\ \A s \in Sessions : WF_vars(KeepaliveLoop(s)) /\ WF_vars(StunLoop(s))

Spec     == Init /\ [][Next]_vars
FairSpec == Spec /\ Fairness

-----------------------------------------------------------------------------
\* The threads of a session are never assigned to members that still name
\* joinable threads (std::terminate): connect, its failure, disconnect and a
\* keepalive failure together keep `running' and the members in step.
ThreadsAreDetached == Here("threads", "connect") => joinable = None

\* The peers are replaced only while no thread of the tunnel reads them:
\* handshakeLoop walks the list without configMutex.
PeersAreNotRead == Here("tunnel", "connect") => tunnel.threads # "alive"

\* Between two calls the tunnel runs exactly while a session does, and the core
\* is connected only in a session, whose peers are the nodes shown.
SessionHasTunnel ==
  main = Idle =>
    /\ running = tunnel.running
    /\ connected => running
    /\ running => tunnel.peers = nodes

\* connect never sends a register request without both keys: "RegisterRequest
\* requires both MachineKey and NodeKey" (arkmesh_core.cpp:100).
ConnectCarriesBothKeys ==
  Here("register", "connect") => IsKey(client.machine) /\ IsKey(client.node)

\* No joinable thread is lost, and no list of peers is replaced under its reader.
ThreadsAreSafe == TypeOK /\ ThreadsAreDetached /\ PeersAreNotRead

\* A session that is connected, or asks to be, has what belongs to it.
SessionIsComplete == SessionHasTunnel /\ ConnectCarriesBothKeys

\* Once there is a machine key, connecting and registering never change it,
\* however often: the server would see another device.
IdentityIsKept ==
  [][IsKey(machineKey) /\ machineKey' # machineKey => NapiGenerateMachineKey]_vars

\* A session that has ended for good takes its keepalive and its STUN thread with
\* it, and those that earlier ends have detached.
LoopsEnd ==
  <>[](~running) =>
    <>[](\A s \in Sessions : {keepalive[s], stun[s]} \subseteq {"none", "ended"})

\* A call that was made comes back, whatever the loops do: again and again the
\* main thread is in none.
CallsReturn == []<>(main = Idle)

\* Neither a loop nor a call goes on without end.
EverythingEnds == LoopsEnd /\ CallsReturn

=============================================================================
