--------------------------- MODULE MCNativeModule ---------------------------
(***************************************************************************)
(* Parts of the native module (cpp/) with threads, blocking calls or       *)
(* callbacks, checked side by side: the retired core (LegacyCore, whose    *)
(* names are kept), its tunnel and its HTTP client, and the bridge to the  *)
(* Go libraries.  In the models they share no state, so a behaviour of all *)
(* of them is one of each; it is enough that one part moves and the others *)
(* stay as they began.                                                     *)
(***************************************************************************)
EXTENDS LegacyCore, Sequences

CONSTANTS Callers, Owner, Nobody, PeerKeys, Endpoints, MaxPeers, \* of WireGuardTunnel
          Statuses, NoStatus,                    \* of HeadscaleHttp
          Tasks, Gaps                            \* of GoBridge

VARIABLE part \* the part that moves

VARIABLES wireRunning, tunFd, receiveThread, handshakeThread, configMutex, wirePeers,
          configPeers, call, terminated
VARIABLES at, kind, https, res, sentBy, answer, response, httpConnected, outcome
VARIABLES exports, loaded, crashed, reply, work, promise, waiter

wireVars   == <<wireRunning, tunFd, receiveThread, handshakeThread, configMutex,
                wirePeers, configPeers, call, terminated>>
httpVars   == <<at, kind, https, res, sentBy, answer, response, httpConnected, outcome>>
libVars    == <<exports, loaded, crashed, reply, work, promise, waiter>>
nativeVars == <<part, vars, wireVars, httpVars, libVars>>

Wire   == INSTANCE WireGuardTunnel WITH Threads <- Callers, Keys <- PeerKeys,
                                        running <- wireRunning, peers <- wirePeers
Http   == INSTANCE HeadscaleHttp WITH connected <- httpConnected
Bridge == INSTANCE GoBridge WITH answer <- reply

ASSUME TunnelAssumption == Wire!OwnerAssumption
ASSUME StatusAssumption == Http!StatusAssumption

NativeInit ==
  /\ part \in {"core", "wire", "http", "bridge"}
  /\ Init /\ Wire!Init /\ Http!Init /\ Bridge!Init
  /\ part # "bridge" =>
       \A l \in Bridge!Libs : exports[l] = Bridge!Mandatory[l] \cup Bridge!Optional[l]

NativeNext ==
  \/ part = "core" /\ Next /\ UNCHANGED <<part, wireVars, httpVars, libVars>>
  \/ part = "wire" /\ Wire!Next /\ UNCHANGED <<part, vars, httpVars, libVars>>
  \/ part = "http" /\ Http!Next /\ UNCHANGED <<part, vars, wireVars, libVars>>
  \/ part = "bridge" /\ Bridge!Next /\ UNCHANGED <<part, vars, wireVars, httpVars>>

NativeFairness == Fairness /\ Wire!Fairness /\ Http!Fairness /\ Bridge!Fairness

NativeSpec == NativeInit /\ [][NativeNext]_nativeVars /\ NativeFairness

-----------------------------------------------------------------------------
\* start of the tunnel never overwrites a thread that has to be joined, and its
\* two lists of peers name the same keys whenever the mutex is free.
TunnelIsSound == Wire!TypeOK /\ Wire!ThreadsAreJoined /\ Wire!ListsAgree

\* Whatever fails, a request releases what it took, once; a request to an https
\* server never leaves unencrypted, and success is a 200 to this request.
HttpIsSound ==
  Http!TypeOK /\ Http!NothingIsHeld /\ Http!TlsIsNotDropped /\ Http!SuccessIsAnswered

\* A null function pointer is called only in a library that stayed loaded without
\* all its mandatory functions, and a probe task ends with its promise settled once.
BridgeIsSound == Bridge!TypeOK /\ Bridge!NoNullCall /\ Bridge!TaskEndsWithPromise

\* Nothing that was called is waited for without end: calls of the tunnel, but
\* for addPeer, and its stop; HTTP requests; probes that hang.
BlockingCallsReturn ==
  /\ Wire!StopReturns /\ Wire!CallsReturn
  /\ Http!RequestsReturn /\ Bridge!ProbesConverge
=============================================================================
