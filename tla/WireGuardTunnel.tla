-------------------------- MODULE WireGuardTunnel --------------------------
(***************************************************************************)
(* The tunnel object of the retired core                                   *)
(* (cpp/src/wireguard/wireguard_tunnel.cpp): its two threads, the calls    *)
(* that start and stop them, and the calls that change the peers under     *)
(* configMutex, made by any thread.                                        *)
(*                                                                         *)
(* The mutex is not recursive: a thread that locks it again waits for      *)
(* itself.  Contents of packets and the counters are left out: sessionKey  *)
(* is assigned nowhere, so no packet is ever encrypted, decrypted, passed  *)
(* on or counted.                                                          *)
(*                                                                         *)
(* An operator introduced as a mutant is no part of the specification: it  *)
(* is the next definition with a plausible bug, and breaks a property.     *)
(***************************************************************************)
EXTENDS Naturals, Sequences, SequencesExt

CONSTANTS Threads,   \* that call the object
          Owner,     \* the one of them that starts and stops it
          Nobody,    \* the holder of a free mutex
          Keys, Endpoints,
          MaxPeers   \* a bound of the model: peers in a configuration

\* What is assumed of the constants.
OwnerAssumption ==
  Owner \in Threads /\ Nobody \notin Threads /\ MaxPeers \in Nat

VARIABLES
  running, tunFd,     \* the atomics; tunFd is whether there is a descriptor
  receiveThread,      \* "none", at "top" or in "read" of its loop, or "ended"
  handshakeThread,    \* "none", "top", "peers" (going through them), "ended"
  configMutex,        \* who holds it
  peers, configPeers, \* peers and config.peers
  call,               \* of each thread: the operation and where it is
  terminated          \* a joinable std::thread was assigned to

vars == <<running, tunFd, receiveThread, handshakeThread, configMutex, peers,
          configPeers, call, terminated>>
loops  == <<receiveThread, handshakeThread>>
config == <<configMutex, peers, configPeers>>

Peer  == [publicKey : Keys, endpoint : Endpoints]
Idle  == [op |-> "none", at |-> "idle", arg |-> <<>>]

\* The calls that take the mutex, with their arguments.
ConfigCalls ==
       {[op |-> "initialize", at |-> "lock", arg |-> ps] : ps \in SeqOf(Peer, MaxPeers)}
  \cup {[op |-> o, at |-> "lock", arg |-> <<p>>] :
          o \in {"addPeer", "removePeer", "updatePeerEndpoint"}, p \in Peer}
  \cup {[op |-> o, at |-> "lock", arg |-> <<>>] : o \in {"getConfig", "performHandshakes"}}

\* The type invariant.
TypeOK ==
  /\ running \in BOOLEAN /\ tunFd \in BOOLEAN /\ terminated \in BOOLEAN
  /\ receiveThread \in {"none", "top", "read", "ended"}
  /\ handshakeThread \in {"none", "top", "peers", "ended"}
  /\ configMutex \in Threads \cup {Nobody}
  /\ \A t \in Threads : call[t].at \in {"idle", "lock", "body", "again", "join 1", "join 2"}
  /\ \A t \in Threads : call[t].at \in {"body", "again"} => configMutex = t

Init ==
  /\ running = FALSE /\ tunFd = FALSE
  /\ receiveThread = "none" /\ handshakeThread = "none"
  /\ configMutex = Nobody /\ peers = <<>> /\ configPeers = <<>>
  /\ call = [t \in Threads |-> Idle]
  /\ terminated = FALSE

-----------------------------------------------------------------------------
(***************************************************************************)
(* The calls.                                                              *)
(***************************************************************************)

\* start: std::terminate if one of the threads was not joined.
Start ==
  /\ call[Owner] = Idle /\ ~running
  /\ running' = TRUE
  /\ terminated' = (terminated \/ receiveThread # "none" \/ handshakeThread # "none")
  /\ receiveThread' = "top" /\ handshakeThread' = "top"
  /\ UNCHANGED <<tunFd, config, call>>

Stop ==
  /\ call[Owner] = Idle
  /\ running' = FALSE
  /\ call' = [call EXCEPT ![Owner] = [op |-> "stop", at |-> "join 1", arg |-> <<>>]]
  /\ UNCHANGED <<tunFd, loops, config, terminated>>

Joins(from, next) ==
  /\ call[Owner].at = from
  /\ call' = [call EXCEPT ![Owner] = next]
  /\ UNCHANGED <<running, tunFd, config, terminated>>

\* join returns when the thread has ended, or at once if there is none.
JoinReceive ==
  /\ receiveThread \in {"none", "ended"} /\ receiveThread' = "none"
  /\ Joins("join 1", [call[Owner] EXCEPT !.at = "join 2"])
  /\ UNCHANGED handshakeThread

JoinHandshake ==
  /\ handshakeThread \in {"none", "ended"} /\ handshakeThread' = "none"
  /\ Joins("join 2", Idle)
  /\ UNCHANGED receiveThread

SetTunFd ==
  /\ call[Owner] = Idle
  /\ tunFd' \in BOOLEAN
  /\ UNCHANGED <<running, loops, config, call, terminated>>

\* A call of one of the operations under the mutex, and its lock.
ConfigCall(t) ==
  /\ call[t] = Idle
  /\ \E c \in ConfigCalls : call' = [call EXCEPT ![t] = c]
  /\ UNCHANGED <<running, tunFd, loops, config, terminated>>

Lock(t) ==
  /\ call[t].at = "lock" /\ configMutex = Nobody
  /\ configMutex' = t /\ call' = [call EXCEPT ![t].at = "body"]
  /\ UNCHANGED <<running, tunFd, loops, peers, configPeers, terminated>>

\* The body of t's call under the mutex, which is then released.
Body(t, op) ==
  /\ call[t].op = op /\ call[t].at = "body"
  /\ configMutex' = Nobody /\ call' = [call EXCEPT ![t] = Idle]
  /\ UNCHANGED <<running, tunFd, loops, terminated>>

Initialize(t) ==
  /\ Body(t, "initialize")
  /\ peers' = call[t].arg /\ configPeers' = call[t].arg

\* addPeer calls removePeer, which locks the mutex once more.
AddPeer(t) ==
  /\ call[t].op = "addPeer" /\ call[t].at = "body"
  /\ call' = [call EXCEPT ![t].at = "again"]
  /\ UNCHANGED <<running, tunFd, loops, config, terminated>>

\* The peers without those that have key k: kept up to the i-th, for every i.
Without(ps, k) ==
  LET kept[i \in 0 .. Len(ps)] ==
        IF i = 0 THEN <<>>
        ELSE IF ps[i].publicKey = k THEN kept[i - 1]
        ELSE Append(kept[i - 1], ps[i])
  IN  kept[Len(ps)]

\* Mutant: only one of the lists loses the peer.
RemovePeerFromOne(t) ==
  /\ Body(t, "removePeer")
  /\ peers' = Without(peers, call[t].arg[1].publicKey) /\ UNCHANGED configPeers

RemovePeer(t) ==
  /\ Body(t, "removePeer")
  /\ peers' = Without(peers, call[t].arg[1].publicKey)
  /\ configPeers' = Without(configPeers, call[t].arg[1].publicKey)

\* The first peer with the key gets the endpoint, in peers alone.
UpdatePeerEndpoint(t) ==
  /\ Body(t, "updatePeerEndpoint")
  /\ LET new  == call[t].arg[1]
         here == {i \in 1 .. Len(peers) : peers[i].publicKey = new.publicKey}
     IN  peers' = IF here = {} THEN peers
                  ELSE [peers EXCEPT ![CHOOSE i \in here : \A j \in here : i <= j] = new]
  /\ UNCHANGED configPeers

GetConfig(t) == Body(t, "getConfig") /\ UNCHANGED <<peers, configPeers>>

\* A packet is built for every peer; none is sent.
PerformHandshakes(t) == Body(t, "performHandshakes") /\ UNCHANGED <<peers, configPeers>>

-----------------------------------------------------------------------------
(***************************************************************************)
(* The threads.                                                            *)
(***************************************************************************)

OnlyReceive   == UNCHANGED <<running, tunFd, handshakeThread, config, call, terminated>>
OnlyHandshake == UNCHANGED <<running, tunFd, receiveThread, config, call, terminated>>

\* receiveLoop looks at running and at the descriptor ...
ReceiveTop ==
  /\ receiveThread = "top"
  /\ receiveThread' = IF ~running THEN "ended" ELSE IF tunFd THEN "read" ELSE "top"
  /\ OnlyReceive

\* ... and reads: a packet, which it cannot decrypt, nothing, or an error.
ReceiveRead ==
  /\ receiveThread = "read" /\ receiveThread' = "top"
  /\ OnlyReceive

HandshakeTop ==
  /\ handshakeThread = "top"
  /\ handshakeThread' = IF running THEN "peers" ELSE "ended"
  /\ OnlyHandshake

\* The peers are gone through, without the mutex; no handshake is made.
HandshakePeers ==
  /\ handshakeThread = "peers" /\ handshakeThread' = "top"
  /\ OnlyHandshake

ReceiveLoop   == ReceiveTop \/ ReceiveRead
HandshakeLoop == HandshakeTop \/ HandshakePeers

Bodies(t) ==
  \/ Initialize(t) \/ AddPeer(t) \/ RemovePeer(t) \/ UpdatePeerEndpoint(t)
  \/ GetConfig(t) \/ PerformHandshakes(t)

Next ==
  \/ Start \/ Stop \/ JoinReceive \/ JoinHandshake \/ SetTunFd
  \/ \E t \in Threads : ConfigCall(t) \/ Lock(t) \/ Bodies(t)
  \/ ReceiveLoop \/ HandshakeLoop

\* Threads run; the descriptor does not block, or brings packets; a mutex that is
\* free again and again is got at some time.
Fairness ==
  /\ WF_vars(ReceiveLoop) /\ WF_vars(HandshakeLoop)
  /\ WF_vars(JoinReceive) /\ WF_vars(JoinHandshake)
  /\ \A t \in Threads : WF_vars(Bodies(t)) /\ SF_vars(Lock(t))

Spec     == Init /\ [][Next]_vars
FairSpec == Spec /\ Fairness

-----------------------------------------------------------------------------
\* start never assigns to a std::thread that still has to be joined, which would
\* end the process: stop has always waited for both.
ThreadsAreJoined == ~terminated

\* peers and config.peers list the same keys in the same order, whatever calls
\* of several threads came in between.
ListsAgree ==
  configMutex = Nobody =>
    /\ Len(peers) = Len(configPeers)
    /\ \A i \in 1 .. Len(peers) : peers[i].publicKey = configPeers[i].publicKey

\* stop returns, also while packets keep coming: again and again the owner is not
\* inside it.
StopReturns == []<>(call[Owner].op # "stop")

Adding(t) == call[t].op = "addPeer"

\* Every call returns, as long as no thread is in addPeer: then nobody keeps the
\* mutex, and a thread is again and again outside.
CallsReturn ==
  \A t \in Threads :
    []<>(call[t].at = "idle" \/ \E u \in Threads : Adding(u))

=============================================================================
