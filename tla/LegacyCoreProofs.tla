-------------------------- MODULE LegacyCoreProofs --------------------------
(***************************************************************************)
(* Proofs about LegacyCore, for any set of sessions and of keys.           *)
(*                                                                         *)
(* No lock is held over a call: what keeps the flags, the joinable threads *)
(* and the tunnel in step is the order in which connect, its failure,      *)
(* disconnect and the loops change them.  The inductive invariant says     *)
(* what holds at every point of a call, not only between two of them.      *)
(***************************************************************************)
EXTENDS LegacyCore, TLAPS

\* A point of the main thread belongs to one call, or to two that share it.
CallInv ==
  /\ main.at = "idle" <=> main.call = "none"
  /\ main.at \in {"register", "answer"} => main.call \in {"connect", "register"}
  /\ main.at \in {"keys", "config", "tunnel", "connected", "threads", "failed"}
       => main.call = "connect"
  /\ main.at = "join" => main.call = "disconnect"

\* While connect is on its way there is a session, which is not connected before
\* its last step and has no threads yet; disconnect leaves none.
SessionInv ==
  /\ connected \/ joinable # None => running
  /\ main.call = "connect" =>
       /\ running /\ joinable = None
       /\ main.at # "threads" => ~connected
  /\ main.call = "disconnect" => ~running

\* The tunnel runs with the session, except that connect starts it late; without
\* a session only disconnect still finds its threads alive.
TunnelInv ==
  /\ main.call = "connect" =>
       IF main.at \in {"connected", "threads"} THEN tunnel.running
       ELSE ~tunnel.running /\ tunnel.threads # "alive"
  /\ main.call # "connect" =>
       /\ running = tunnel.running
       /\ tunnel.threads = "alive" => running \/ main.at = "join"
  /\ tunnel.running => tunnel.peers = nodes

IInv ==
  TypeOK /\ CallInv /\ SessionInv /\ TunnelInv /\ ConnectCarriesBothKeys

-----------------------------------------------------------------------------
\* What a step of a loop may change beyond its own place: the keepalive loop
\* may report an error and drop the connection.
LoopsLeave ==
  /\ UNCHANGED <<created, running, nodes, keyVars, client, joinable, main, tunnel>>
  /\ connected' = connected \/ connected' = FALSE
  /\ status' \in {status, "error"}

LEMMA LoopStep ==
  ASSUME NEW s \in Sessions, KeepaliveLoop(s) \/ StunLoop(s)
  PROVE  LoopsLeave
<1>1. CASE KeepaliveLoop(s)
  BY <1>1
  DEF KeepaliveLoop, KeepaliveCheck, KeepaliveAnswered, KeepaliveFails,
      KeepaliveDrops, KeepaliveWakes, LoopsLeave, flags, keyVars
<1>2. CASE StunLoop(s)
  BY <1>2 DEF StunLoop, LoopsLeave, flags, keyVars
<1>3. QED
  BY <1>1, <1>2

\* Types are preserved.
LEMMA TypeStep ==
  ASSUME IInv, [Next]_vars
  PROVE  TypeOK'
<1>1. TypeOK
  BY DEF IInv
<1> USE LegacyAssumption
<1>2. ASSUME NapiInitialize
      PROVE  TypeOK'
  BY <1>2, <1>1 DEF NapiInitialize, Idle, flags, keyVars, NoLoopMoves, TypeOK,
      AnyKey, MainPc, LoopPc
<1>3. ASSUME NapiInitializeWithConfig
      PROVE  TypeOK'
  BY <1>3, <1>1
  DEF NapiInitializeWithConfig, Idle, keyVars, NoLoopMoves, TypeOK, AnyKey,
      MainPc, LoopPc
<1>4. ASSUME NapiConnect
      PROVE  TypeOK'
  <2>1. main' \in [at : MainPc, call : {"none", "connect", "register", "disconnect"}]
    BY <1>4 DEF NapiConnect, MainPc
  <2>2. running' \in BOOLEAN /\ connected' \in BOOLEAN
    BY <1>4 DEF NapiConnect
  <2>3. QED
    BY <1>4, <1>1, <2>1, <2>2 DEF NapiConnect, NoLoopMoves, keyVars, TypeOK
<1>5. ASSUME NapiRegisterWithAuthKey
      PROVE  TypeOK'
  <2>1. machineKey' \in AnyKey /\ nodeKey' \in AnyKey /\ spent' \subseteq Keys
    BY <1>5, <1>1 DEF NapiRegisterWithAuthKey, Loaded, Generated, TypeOK, AnyKey
  <2>2. \/ client' = [client EXCEPT !.machine = machineKey', !.node = nodeKey']
        \/ client' = [client EXCEPT !.machine = machineKey']
    BY <1>5 DEF NapiRegisterWithAuthKey
  <2>3. client' \in [machine : AnyKey, node : AnyKey, connected : BOOLEAN]
    BY <1>1, <2>1, <2>2 DEF TypeOK
  <2>4. main' \in [at : MainPc, call : {"none", "connect", "register", "disconnect"}]
    BY <1>5, <1>1 DEF NapiRegisterWithAuthKey, TypeOK, MainPc
  <2>5. status' \in {status, "error"}
    BY <1>5 DEF NapiRegisterWithAuthKey
  <2>6. QED
    BY <1>5, <1>1, <2>1, <2>3, <2>4, <2>5
    DEF NapiRegisterWithAuthKey, NoLoopMoves, TypeOK
<1>6. ASSUME NapiGenerateMachineKey
      PROVE  TypeOK'
  BY <1>6, <1>1
  DEF NapiGenerateMachineKey, Idle, flags, NoLoopMoves, TypeOK, AnyKey, MainPc,
      LoopPc
<1>7. ASSUME NapiDisconnect
      PROVE  TypeOK'
  BY <1>7, <1>1, ZenonT(60)
  DEF NapiDisconnect, Idle, keyVars, NoLoopMoves, TypeOK, AnyKey, MainPc,
      LoopPc
<1>8. ASSUME DisconnectReturns
      PROVE  TypeOK'
  BY <1>8, <1>1
  DEF DisconnectReturns, Here, Idle, keyVars, NoLoopMoves, TypeOK, AnyKey,
      MainPc, LoopPc
<1>9. ASSUME ConnectKeys
      PROVE  TypeOK'
  <2>1. machineKey' \in AnyKey /\ nodeKey' \in AnyKey /\ spent' \subseteq Keys
    BY <1>9, <1>1
    DEF ConnectKeys, LoadedForConnect, Loaded, Generated, TypeOK, AnyKey
  <2>2. client' = [client EXCEPT !.machine = machineKey', !.node = nodeKey']
        \/ client' = client
    BY <1>9 DEF ConnectKeys
  <2>3. client' \in [machine : AnyKey, node : AnyKey, connected : BOOLEAN]
    BY <1>1, <2>1, <2>2 DEF TypeOK
  <2>4. main' \in [at : MainPc, call : {"none", "connect", "register", "disconnect"}]
    BY <1>9, <1>1 DEF ConnectKeys, Goto, TypeOK, MainPc
  <2>5. status' \in {status, "error"}
    BY <1>9 DEF ConnectKeys
  <2>6. QED
    BY <1>9, <1>1, <2>1, <2>3, <2>4, <2>5, ZenonT(60) DEF ConnectKeys, NoLoopMoves, TypeOK
<1>10. ASSUME ConnectWithoutAuthKey
      PROVE  TypeOK'
  BY <1>10, <1>1
  DEF ConnectWithoutAuthKey, Here, Goto, keyVars, NoLoopMoves, TypeOK, AnyKey,
      MainPc, LoopPc
<1>11. ASSUME RegisterSent
      PROVE  TypeOK'
  BY <1>11, <1>1
  DEF RegisterSent, Goto, flags, keyVars, NoLoopMoves, TypeOK, AnyKey, MainPc,
      LoopPc
<1>12. ASSUME RegisterSucceeds
      PROVE  TypeOK'
  <2>1. client' \in [machine : AnyKey, node : AnyKey, connected : BOOLEAN]
    BY <1>12, <1>1 DEF RegisterSucceeds, TypeOK
  <2>2. main' \in [at : MainPc, call : {"none", "connect", "register", "disconnect"}]
    BY <1>12, <1>1 DEF RegisterSucceeds, Idle, TypeOK, MainPc
  <2>3. status' \in {status, "connected"}
    BY <1>12 DEF RegisterSucceeds, Reported
  <2>4. QED
    BY <1>12, <1>1, <2>1, <2>2, <2>3
    DEF RegisterSucceeds, NoLoopMoves, keyVars, TypeOK
<1>13. ASSUME RegisterFails
      PROVE  TypeOK'
  BY <1>13, <1>1
  DEF RegisterFails, Reported, Idle, keyVars, NoLoopMoves, TypeOK, AnyKey,
      MainPc, LoopPc
<1>14. ASSUME ConnectConfig
      PROVE  TypeOK'
  BY <1>14, <1>1
  DEF ConnectConfig, Here, Goto, flags, keyVars, NoLoopMoves, TypeOK, AnyKey,
      MainPc, LoopPc
<1>15. ASSUME ConnectTunnel
      PROVE  TypeOK'
  BY <1>15, <1>1
  DEF ConnectTunnel, Here, Goto, flags, keyVars, NoLoopMoves, TypeOK, AnyKey,
      MainPc, LoopPc
<1>16. ASSUME ConnectSucceeds
      PROVE  TypeOK'
  BY <1>16, <1>1
  DEF ConnectSucceeds, Here, Goto, keyVars, NoLoopMoves, TypeOK, AnyKey,
      MainPc, LoopPc
<1>17. ASSUME ConnectFails
      PROVE  TypeOK'
  <2>1. main' \in [at : MainPc, call : {"none", "connect", "register", "disconnect"}]
    BY <1>17 DEF ConnectFails, Idle, MainPc
  <2>2. running' \in BOOLEAN
    BY <1>17 DEF ConnectFails
  <2>3. QED
    BY <1>17, <1>1, <2>1, <2>2 DEF ConnectFails, NoLoopMoves, keyVars, TypeOK
<1>18. ASSUME NEW s \in Sessions, ConnectThreads(s)
      PROVE  TypeOK'
  BY <1>18, <1>1 DEF ConnectThreads, Here, Idle, flags, keyVars, TypeOK,
      AnyKey, MainPc, LoopPc
<1>19. ASSUME TunnelThreads
      PROVE  TypeOK'
  BY <1>19, <1>1 DEF TunnelThreads, NoLoopMoves, flags, keyVars, TypeOK,
      AnyKey, MainPc, LoopPc
<1>20. ASSUME NEW s \in Sessions, KeepaliveLoop(s) \/ StunLoop(s)
      PROVE  TypeOK'
  <2>1. LoopsLeave
    BY <1>20, <1>1, LoopStep
  <2>2. keepalive' \in [Sessions -> LoopPc] /\ stun' \in [Sessions -> LoopPc]
    BY <1>20, <1>1 DEF KeepaliveLoop, KeepaliveCheck, KeepaliveAnswered,
        KeepaliveFails, KeepaliveDrops, KeepaliveWakes, StunLoop, TypeOK,
        LoopPc
  <2>3. connected' \in BOOLEAN
    BY <1>1, <2>1 DEF LoopsLeave, TypeOK
  <2>4. status' \in {"disconnected", "initialized", "connected", "error"}
    BY <1>1, <2>1 DEF LoopsLeave, TypeOK
  <2>5. QED
    BY <1>1, <2>1, <2>2, <2>3, <2>4 DEF TypeOK, LoopsLeave, keyVars
<1>21. CASE UNCHANGED vars
  BY <1>21, <1>1 DEF vars, flags, keyVars, TypeOK
<1>22. QED
  BY <1>2, <1>3, <1>4, <1>5, <1>6, <1>7, <1>8, <1>9, <1>10, <1>11, <1>12,
      <1>13, <1>14, <1>15, <1>16, <1>17, <1>18, <1>19, <1>20, <1>21
  DEF Next, Calls, MainThread, Threads

\* Each call keeps to its own points.
LEMMA CallStep ==
  ASSUME IInv, [Next]_vars
  PROVE  CallInv'
<1>1. TypeOK /\ CallInv
  BY DEF IInv
<1> USE LegacyAssumption
<1>2. ASSUME NapiInitialize
      PROVE  CallInv'
  BY <1>2, <1>1 DEF NapiInitialize, Idle, flags, keyVars, NoLoopMoves, TypeOK,
      MainPc, CallInv
<1>3. ASSUME NapiInitializeWithConfig
      PROVE  CallInv'
  BY <1>3, <1>1 DEF NapiInitializeWithConfig, Idle, flags, keyVars,
      NoLoopMoves, TypeOK, MainPc, CallInv
<1>4. ASSUME NapiConnect
      PROVE  CallInv'
  BY <1>4, <1>1 DEF NapiConnect, Idle, flags, keyVars, NoLoopMoves, TypeOK,
      MainPc, CallInv
<1>5. ASSUME NapiRegisterWithAuthKey
      PROVE  CallInv'
  BY <1>5, <1>1
  DEF NapiRegisterWithAuthKey, Loaded, Generated, IsKey, Idle, flags,
      NoLoopMoves, TypeOK, MainPc, CallInv
<1>6. ASSUME NapiGenerateMachineKey
      PROVE  CallInv'
  BY <1>6, <1>1
  DEF NapiGenerateMachineKey, Idle, flags, NoLoopMoves, TypeOK, MainPc, CallInv
<1>7. ASSUME NapiDisconnect
      PROVE  CallInv'
  BY <1>7, <1>1 DEF NapiDisconnect, Idle, flags, keyVars, NoLoopMoves, TypeOK,
      MainPc, CallInv
<1>8. ASSUME DisconnectReturns
      PROVE  CallInv'
  BY <1>8, <1>1 DEF DisconnectReturns, Here, Idle, flags, keyVars, NoLoopMoves,
      TypeOK, MainPc, CallInv
<1>9. ASSUME ConnectKeys
      PROVE  CallInv'
  BY <1>9, <1>1, ZenonT(60)
  DEF ConnectKeys, Here, Goto, LoadedForConnect, Loaded, Generated, IsKey,
      flags, NoLoopMoves, TypeOK, MainPc, CallInv
<1>10. ASSUME ConnectWithoutAuthKey
      PROVE  CallInv'
  BY <1>10, <1>1
  DEF ConnectWithoutAuthKey, Here, Goto, flags, keyVars, NoLoopMoves, TypeOK,
      MainPc, CallInv
<1>11. ASSUME RegisterSent
      PROVE  CallInv'
  BY <1>11, <1>1
  DEF RegisterSent, Goto, flags, keyVars, NoLoopMoves, TypeOK, MainPc, CallInv
<1>12. ASSUME RegisterSucceeds
      PROVE  CallInv'
  BY <1>12, <1>1 DEF RegisterSucceeds, Reported, Idle, flags, keyVars,
      NoLoopMoves, TypeOK, MainPc, CallInv
<1>13. ASSUME RegisterFails
      PROVE  CallInv'
  BY <1>13, <1>1 DEF RegisterFails, Reported, Idle, flags, keyVars,
      NoLoopMoves, TypeOK, MainPc, CallInv
<1>14. ASSUME ConnectConfig
      PROVE  CallInv'
  BY <1>14, <1>1
  DEF ConnectConfig, Here, Goto, flags, keyVars, NoLoopMoves, TypeOK, MainPc,
      CallInv
<1>15. ASSUME ConnectTunnel
      PROVE  CallInv'
  BY <1>15, <1>1
  DEF ConnectTunnel, Here, Goto, flags, keyVars, NoLoopMoves, TypeOK, MainPc,
      CallInv
<1>16. ASSUME ConnectSucceeds
      PROVE  CallInv'
  BY <1>16, <1>1
  DEF ConnectSucceeds, Here, Goto, flags, keyVars, NoLoopMoves, TypeOK, MainPc,
      CallInv
<1>17. ASSUME ConnectFails
      PROVE  CallInv'
  BY <1>17, <1>1 DEF ConnectFails, Here, Idle, flags, keyVars, NoLoopMoves,
      TypeOK, MainPc, CallInv
<1>18. ASSUME NEW s \in Sessions, ConnectThreads(s)
      PROVE  CallInv'
  BY <1>18, <1>1 DEF ConnectThreads, Here, Idle, flags, keyVars, TypeOK,
      MainPc, CallInv
<1>19. ASSUME TunnelThreads
      PROVE  CallInv'
  BY <1>19, <1>1 DEF TunnelThreads, NoLoopMoves, flags, keyVars, TypeOK,
      MainPc, CallInv
<1>20. ASSUME NEW s \in Sessions, KeepaliveLoop(s) \/ StunLoop(s)
      PROVE  CallInv'
  <2>1. LoopsLeave
    BY <1>20, <1>1, LoopStep
  <2>2. QED
    BY <1>1, <2>1 DEF LoopsLeave, keyVars, TypeOK, MainPc, CallInv
<1>21. CASE UNCHANGED vars
  BY <1>21, <1>1 DEF vars, flags, keyVars, TypeOK, MainPc, CallInv
<1>22. QED
  BY <1>2, <1>3, <1>4, <1>5, <1>6, <1>7, <1>8, <1>9, <1>10, <1>11, <1>12,
      <1>13, <1>14, <1>15, <1>16, <1>17, <1>18, <1>19, <1>20, <1>21
  DEF Next, Calls, MainThread, Threads

\* The flags and the joinable threads stay in step.
LEMMA SessionStep ==
  ASSUME IInv, [Next]_vars
  PROVE  SessionInv'
<1>1. TypeOK /\ CallInv /\ SessionInv
  BY DEF IInv
<1> USE LegacyAssumption
<1>2. ASSUME NapiInitialize
      PROVE  SessionInv'
  BY <1>2, <1>1 DEF NapiInitialize, Idle, flags, keyVars, NoLoopMoves, TypeOK,
      MainPc, CallInv, SessionInv
<1>3. ASSUME NapiInitializeWithConfig
      PROVE  SessionInv'
  BY <1>3, <1>1
  DEF NapiInitializeWithConfig, Idle, keyVars, NoLoopMoves, TypeOK, MainPc,
      CallInv, SessionInv
<1>4. ASSUME NapiConnect
      PROVE  SessionInv'
  BY <1>4, <1>1
  DEF NapiConnect, Idle, keyVars, NoLoopMoves, TypeOK, MainPc, CallInv,
      SessionInv
<1>5. ASSUME NapiRegisterWithAuthKey
      PROVE  SessionInv'
  BY <1>5, <1>1
  DEF NapiRegisterWithAuthKey, Loaded, Generated, IsKey, Idle, NoLoopMoves,
      TypeOK, MainPc, CallInv, SessionInv
<1>6. ASSUME NapiGenerateMachineKey
      PROVE  SessionInv'
  BY <1>6, <1>1
  DEF NapiGenerateMachineKey, Idle, flags, NoLoopMoves, TypeOK, MainPc,
      CallInv, SessionInv
<1>7. ASSUME NapiDisconnect
      PROVE  SessionInv'
  BY <1>7, <1>1
  DEF NapiDisconnect, Idle, keyVars, NoLoopMoves, TypeOK, MainPc, CallInv,
      SessionInv
<1>8. ASSUME DisconnectReturns
      PROVE  SessionInv'
  BY <1>8, <1>1
  DEF DisconnectReturns, Here, Idle, keyVars, NoLoopMoves, TypeOK, MainPc,
      CallInv, SessionInv
<1>9. ASSUME ConnectKeys
      PROVE  SessionInv'
  BY <1>9, <1>1
  DEF ConnectKeys, Here, Goto, LoadedForConnect, Loaded, Generated, IsKey,
      NoLoopMoves, TypeOK, MainPc, CallInv, SessionInv
<1>10. ASSUME ConnectWithoutAuthKey
      PROVE  SessionInv'
  BY <1>10, <1>1
  DEF ConnectWithoutAuthKey, Here, Goto, keyVars, NoLoopMoves, TypeOK, MainPc,
      CallInv, SessionInv
<1>11. ASSUME RegisterSent
      PROVE  SessionInv'
  BY <1>11, <1>1
  DEF RegisterSent, Goto, flags, keyVars, NoLoopMoves, TypeOK, MainPc, CallInv,
      SessionInv
<1>12. ASSUME RegisterSucceeds
      PROVE  SessionInv'
  BY <1>12, <1>1
  DEF RegisterSucceeds, Reported, Idle, keyVars, NoLoopMoves, TypeOK, MainPc,
      CallInv, SessionInv
<1>13. ASSUME RegisterFails
      PROVE  SessionInv'
  BY <1>13, <1>1
  DEF RegisterFails, Reported, Idle, keyVars, NoLoopMoves, TypeOK, MainPc,
      CallInv, SessionInv
<1>14. ASSUME ConnectConfig
      PROVE  SessionInv'
  BY <1>14, <1>1
  DEF ConnectConfig, Here, Goto, flags, keyVars, NoLoopMoves, TypeOK, MainPc,
      CallInv, SessionInv
<1>15. ASSUME ConnectTunnel
      PROVE  SessionInv'
  BY <1>15, <1>1
  DEF ConnectTunnel, Here, Goto, flags, keyVars, NoLoopMoves, TypeOK, MainPc,
      CallInv, SessionInv
<1>16. ASSUME ConnectSucceeds
      PROVE  SessionInv'
  BY <1>16, <1>1
  DEF ConnectSucceeds, Here, Goto, keyVars, NoLoopMoves, TypeOK, MainPc,
      CallInv, SessionInv
<1>17. ASSUME ConnectFails
      PROVE  SessionInv'
  BY <1>17, <1>1
  DEF ConnectFails, Here, Idle, keyVars, NoLoopMoves, TypeOK, MainPc, CallInv,
      SessionInv
<1>18. ASSUME NEW s \in Sessions, ConnectThreads(s)
      PROVE  SessionInv'
  BY <1>18, <1>1 DEF ConnectThreads, Here, Idle, flags, keyVars, TypeOK,
      MainPc, CallInv, SessionInv
<1>19. ASSUME TunnelThreads
      PROVE  SessionInv'
  BY <1>19, <1>1 DEF TunnelThreads, NoLoopMoves, flags, keyVars, TypeOK,
      MainPc, CallInv, SessionInv
<1>20. ASSUME NEW s \in Sessions, KeepaliveLoop(s) \/ StunLoop(s)
      PROVE  SessionInv'
  <2>1. LoopsLeave
    BY <1>20, <1>1, LoopStep
  <2>2. QED
    BY <1>1, <2>1 DEF LoopsLeave, SessionInv
<1>21. CASE UNCHANGED vars
  BY <1>21, <1>1 DEF vars, flags, keyVars, TypeOK, MainPc, CallInv, SessionInv
<1>22. QED
  BY <1>2, <1>3, <1>4, <1>5, <1>6, <1>7, <1>8, <1>9, <1>10, <1>11, <1>12,
      <1>13, <1>14, <1>15, <1>16, <1>17, <1>18, <1>19, <1>20, <1>21
  DEF Next, Calls, MainThread, Threads

\* So does the tunnel.
LEMMA TunnelStep ==
  ASSUME IInv, [Next]_vars
  PROVE  TunnelInv'
<1>1. TypeOK /\ CallInv /\ SessionInv /\ TunnelInv
  BY DEF IInv
<1> USE LegacyAssumption
<1>2. ASSUME NapiInitialize
      PROVE  TunnelInv'
  BY <1>2, <1>1 DEF NapiInitialize, Idle, flags, keyVars, NoLoopMoves, TypeOK,
      MainPc, CallInv, SessionInv, TunnelInv
<1>3. ASSUME NapiInitializeWithConfig
      PROVE  TunnelInv'
  BY <1>3, <1>1
  DEF NapiInitializeWithConfig, Idle, keyVars, NoLoopMoves, TypeOK, MainPc,
      CallInv, SessionInv, TunnelInv
<1>4. ASSUME NapiConnect
      PROVE  TunnelInv'
  BY <1>4, <1>1
  DEF NapiConnect, Idle, keyVars, NoLoopMoves, TypeOK, MainPc, CallInv,
      SessionInv, TunnelInv
<1>5. ASSUME NapiRegisterWithAuthKey
      PROVE  TunnelInv'
  BY <1>5, <1>1
  DEF NapiRegisterWithAuthKey, Loaded, Generated, IsKey, Idle, NoLoopMoves,
      TypeOK, MainPc, CallInv, SessionInv, TunnelInv
<1>6. ASSUME NapiGenerateMachineKey
      PROVE  TunnelInv'
  BY <1>6, <1>1
  DEF NapiGenerateMachineKey, Idle, flags, NoLoopMoves, TypeOK, MainPc,
      CallInv, SessionInv, TunnelInv
<1>7. ASSUME NapiDisconnect
      PROVE  TunnelInv'
  BY <1>7, <1>1
  DEF NapiDisconnect, Idle, keyVars, NoLoopMoves, TypeOK, MainPc, CallInv,
      SessionInv, TunnelInv
<1>8. ASSUME DisconnectReturns
      PROVE  TunnelInv'
  BY <1>8, <1>1
  DEF DisconnectReturns, Here, Idle, keyVars, NoLoopMoves, TypeOK, MainPc,
      CallInv, SessionInv, TunnelInv
<1>9. ASSUME ConnectKeys
      PROVE  TunnelInv'
  BY <1>9, <1>1
  DEF ConnectKeys, Here, Goto, LoadedForConnect, Loaded, Generated, IsKey,
      NoLoopMoves, TypeOK, MainPc, CallInv, SessionInv, TunnelInv
<1>10. ASSUME ConnectWithoutAuthKey
      PROVE  TunnelInv'
  BY <1>10, <1>1
  DEF ConnectWithoutAuthKey, Here, Goto, keyVars, NoLoopMoves, TypeOK, MainPc,
      CallInv, SessionInv, TunnelInv
<1>11. ASSUME RegisterSent
      PROVE  TunnelInv'
  BY <1>11, <1>1
  DEF RegisterSent, Goto, flags, keyVars, NoLoopMoves, TypeOK, MainPc, CallInv,
      SessionInv, TunnelInv
<1>12. ASSUME RegisterSucceeds
      PROVE  TunnelInv'
  BY <1>12, <1>1
  DEF RegisterSucceeds, Reported, Idle, keyVars, NoLoopMoves, TypeOK, MainPc,
      CallInv, SessionInv, TunnelInv
<1>13. ASSUME RegisterFails
      PROVE  TunnelInv'
  BY <1>13, <1>1
  DEF RegisterFails, Reported, Idle, keyVars, NoLoopMoves, TypeOK, MainPc,
      CallInv, SessionInv, TunnelInv
<1>14. ASSUME ConnectConfig
      PROVE  TunnelInv'
  BY <1>14, <1>1
  DEF ConnectConfig, Here, Goto, flags, keyVars, NoLoopMoves, TypeOK, MainPc,
      CallInv, SessionInv, TunnelInv
<1>15. ASSUME ConnectTunnel
      PROVE  TunnelInv'
  BY <1>15, <1>1
  DEF ConnectTunnel, Here, Goto, flags, keyVars, NoLoopMoves, TypeOK, MainPc,
      CallInv, SessionInv, TunnelInv
<1>16. ASSUME ConnectSucceeds
      PROVE  TunnelInv'
  BY <1>16, <1>1
  DEF ConnectSucceeds, Here, Goto, keyVars, NoLoopMoves, TypeOK, MainPc,
      CallInv, SessionInv, TunnelInv
<1>17. ASSUME ConnectFails
      PROVE  TunnelInv'
  BY <1>17, <1>1
  DEF ConnectFails, Here, Idle, keyVars, NoLoopMoves, TypeOK, MainPc, CallInv,
      SessionInv, TunnelInv
<1>18. ASSUME NEW s \in Sessions, ConnectThreads(s)
      PROVE  TunnelInv'
  BY <1>18, <1>1 DEF ConnectThreads, Here, Idle, flags, keyVars, TypeOK,
      MainPc, CallInv, SessionInv, TunnelInv
<1>19. ASSUME TunnelThreads
      PROVE  TunnelInv'
  BY <1>19, <1>1 DEF TunnelThreads, NoLoopMoves, flags, keyVars, TypeOK,
      MainPc, CallInv, SessionInv, TunnelInv
<1>20. ASSUME NEW s \in Sessions, KeepaliveLoop(s) \/ StunLoop(s)
      PROVE  TunnelInv'
  <2>1. LoopsLeave
    BY <1>20, <1>1, LoopStep
  <2>2. QED
    BY <1>1, <2>1 DEF LoopsLeave, keyVars, TypeOK, MainPc, CallInv, SessionInv,
        TunnelInv
<1>21. CASE UNCHANGED vars
  BY <1>21, <1>1 DEF vars, flags, keyVars, TypeOK, MainPc, CallInv, SessionInv,
      TunnelInv
<1>22. QED
  BY <1>2, <1>3, <1>4, <1>5, <1>6, <1>7, <1>8, <1>9, <1>10, <1>11, <1>12,
      <1>13, <1>14, <1>15, <1>16, <1>17, <1>18, <1>19, <1>20, <1>21
  DEF Next, Calls, MainThread, Threads

\* The keys of a request are there before it is sent.
LEMMA KeysStep ==
  ASSUME IInv, [Next]_vars
  PROVE  ConnectCarriesBothKeys'
<1>1. TypeOK /\ CallInv /\ ConnectCarriesBothKeys
  BY DEF IInv
<1> USE LegacyAssumption
<1>2. ASSUME NapiInitialize
      PROVE  ConnectCarriesBothKeys'
  BY <1>2, <1>1 DEF NapiInitialize, Idle, flags, keyVars, NoLoopMoves, TypeOK,
      CallInv, ConnectCarriesBothKeys, Here, IsKey
<1>3. ASSUME NapiInitializeWithConfig
      PROVE  ConnectCarriesBothKeys'
  BY <1>3, <1>1
  DEF NapiInitializeWithConfig, Idle, keyVars, NoLoopMoves, TypeOK, CallInv,
      ConnectCarriesBothKeys, Here, IsKey
<1>4. ASSUME NapiConnect
      PROVE  ConnectCarriesBothKeys'
  BY <1>4, <1>1
  DEF NapiConnect, Idle, keyVars, NoLoopMoves, TypeOK, CallInv,
      ConnectCarriesBothKeys, Here, IsKey
<1>5. ASSUME NapiRegisterWithAuthKey
      PROVE  ConnectCarriesBothKeys'
  BY <1>5, <1>1
  DEF NapiRegisterWithAuthKey, Loaded, Generated, Idle, NoLoopMoves, TypeOK,
      CallInv, ConnectCarriesBothKeys, Here, IsKey
<1>6. ASSUME NapiGenerateMachineKey
      PROVE  ConnectCarriesBothKeys'
  BY <1>6, <1>1
  DEF NapiGenerateMachineKey, Idle, flags, NoLoopMoves, TypeOK, CallInv,
      ConnectCarriesBothKeys, Here, IsKey
<1>7. ASSUME NapiDisconnect
      PROVE  ConnectCarriesBothKeys'
  BY <1>7, <1>1
  DEF NapiDisconnect, Idle, keyVars, NoLoopMoves, TypeOK, CallInv,
      ConnectCarriesBothKeys, Here, IsKey
<1>8. ASSUME DisconnectReturns
      PROVE  ConnectCarriesBothKeys'
  BY <1>8, <1>1
  DEF DisconnectReturns, Idle, keyVars, NoLoopMoves, TypeOK, CallInv,
      ConnectCarriesBothKeys, Here, IsKey
<1>9. ASSUME ConnectKeys
      PROVE  ConnectCarriesBothKeys'
  <2>1. CASE /\ IsKey(machineKey') /\ IsKey(nodeKey')
             /\ client' = [client EXCEPT !.machine = machineKey', !.node = nodeKey']
    BY <2>1, <1>1 DEF TypeOK, ConnectCarriesBothKeys
  <2>2. CASE main' = [main EXCEPT !.at = "failed"]
    BY <2>2, <1>1 DEF TypeOK, ConnectCarriesBothKeys, Here
  <2>3. QED
    BY <1>9, <2>1, <2>2 DEF ConnectKeys, Goto
<1>10. ASSUME ConnectWithoutAuthKey
      PROVE  ConnectCarriesBothKeys'
  BY <1>10, <1>1
  DEF ConnectWithoutAuthKey, Goto, keyVars, NoLoopMoves, TypeOK, CallInv,
      ConnectCarriesBothKeys, Here, IsKey
<1>11. ASSUME RegisterSent
      PROVE  ConnectCarriesBothKeys'
  BY <1>11, <1>1
  DEF RegisterSent, Goto, flags, keyVars, NoLoopMoves, TypeOK, CallInv,
      ConnectCarriesBothKeys, Here, IsKey
<1>12. ASSUME RegisterSucceeds
      PROVE  ConnectCarriesBothKeys'
  BY <1>12, <1>1
  DEF RegisterSucceeds, Reported, Idle, keyVars, NoLoopMoves, TypeOK, CallInv,
      ConnectCarriesBothKeys, Here, IsKey
<1>13. ASSUME RegisterFails
      PROVE  ConnectCarriesBothKeys'
  BY <1>13, <1>1
  DEF RegisterFails, Reported, Idle, keyVars, NoLoopMoves, TypeOK, CallInv,
      ConnectCarriesBothKeys, Here, IsKey
<1>14. ASSUME ConnectConfig
      PROVE  ConnectCarriesBothKeys'
  BY <1>14, <1>1
  DEF ConnectConfig, Goto, flags, keyVars, NoLoopMoves, TypeOK, CallInv,
      ConnectCarriesBothKeys, Here, IsKey
<1>15. ASSUME ConnectTunnel
      PROVE  ConnectCarriesBothKeys'
  BY <1>15, <1>1
  DEF ConnectTunnel, Goto, flags, keyVars, NoLoopMoves, TypeOK, CallInv,
      ConnectCarriesBothKeys, Here, IsKey
<1>16. ASSUME ConnectSucceeds
      PROVE  ConnectCarriesBothKeys'
  BY <1>16, <1>1
  DEF ConnectSucceeds, Goto, keyVars, NoLoopMoves, TypeOK, CallInv,
      ConnectCarriesBothKeys, Here, IsKey
<1>17. ASSUME ConnectFails
      PROVE  ConnectCarriesBothKeys'
  BY <1>17, <1>1
  DEF ConnectFails, Idle, keyVars, NoLoopMoves, TypeOK, CallInv,
      ConnectCarriesBothKeys, Here, IsKey
<1>18. ASSUME NEW s \in Sessions, ConnectThreads(s)
      PROVE  ConnectCarriesBothKeys'
  BY <1>18, <1>1 DEF ConnectThreads, Here, Idle, flags, keyVars, TypeOK,
      CallInv, ConnectCarriesBothKeys, IsKey
<1>19. ASSUME TunnelThreads
      PROVE  ConnectCarriesBothKeys'
  BY <1>19, <1>1 DEF TunnelThreads, NoLoopMoves, flags, keyVars, TypeOK,
      CallInv, ConnectCarriesBothKeys, Here, IsKey
<1>20. ASSUME NEW s \in Sessions, KeepaliveLoop(s) \/ StunLoop(s)
      PROVE  ConnectCarriesBothKeys'
  <2>1. LoopsLeave
    BY <1>20, <1>1, LoopStep
  <2>2. QED
    BY <1>1, <2>1 DEF LoopsLeave, keyVars, TypeOK, CallInv,
        ConnectCarriesBothKeys, Here, IsKey
<1>21. CASE UNCHANGED vars
  BY <1>21, <1>1 DEF vars, flags, keyVars, TypeOK, CallInv,
      ConnectCarriesBothKeys, Here, IsKey
<1>22. QED
  BY <1>2, <1>3, <1>4, <1>5, <1>6, <1>7, <1>8, <1>9, <1>10, <1>11, <1>12,
      <1>13, <1>14, <1>15, <1>16, <1>17, <1>18, <1>19, <1>20, <1>21
  DEF Next, Calls, MainThread, Threads

LEMMA InitInv ==
  ASSUME Init
  PROVE  IInv
<1>1. TypeOK
  BY DEF Init, TypeOK, AnyKey, MainPc, LoopPc, Idle, NoPeers
<1>2. CallInv /\ SessionInv /\ TunnelInv /\ ConnectCarriesBothKeys
  BY DEF Init, Idle, NoPeers, CallInv, SessionInv, TunnelInv,
         ConnectCarriesBothKeys, Here
<1>3. QED
  BY <1>1, <1>2 DEF IInv

-----------------------------------------------------------------------------
\* Every reachable state satisfies the inductive invariant.
THEOREM IInvariance == Spec => []IInv
<1>1. Init => IInv
  BY InitInv
<1>2. IInv /\ [Next]_vars => IInv'
  BY TypeStep, CallStep, SessionStep, TunnelStep, KeysStep DEF IInv
<1>3. QED
  BY <1>1, <1>2, PTL DEF Spec

\* Whatever calls, loops and failures interleave, connect never assigns to
\* members that still name joinable threads (std::terminate), and never replaces
\* the list of peers while a thread of the tunnel goes through it.
THEOREM ThreadsSafe == Spec => []ThreadsAreSafe
<1>1. IInv => ThreadsAreSafe
  BY DEF IInv, ThreadsAreSafe, ThreadsAreDetached, PeersAreNotRead, Here,
         SessionInv, TunnelInv
<1>2. QED
  BY <1>1, IInvariance, PTL

\* Between two calls the tunnel runs exactly while a session does, with the
\* peers of the nodes shown; and connect registers with both keys.
THEOREM SessionComplete == Spec => []SessionIsComplete
<1>1. IInv => SessionIsComplete
  BY DEF IInv, SessionIsComplete, SessionHasTunnel, Idle, SessionInv, TunnelInv
<1>2. QED
  BY <1>1, IInvariance, PTL

-----------------------------------------------------------------------------
\* A key that is there is the one every load returns.
LEMMA KeyIsLoaded ==
  ASSUME NEW k, IsKey(k)
  PROVE  Loaded(k) = {k} /\ LoadedForConnect(k) = {k}
BY LegacyAssumption DEF IsKey, Loaded, LoadedForConnect

\* Once there is a machine key, only generateMachineKey replaces it: neither
\* connecting nor registering makes another device of this one, however often
\* and in whatever order they are called.
THEOREM IdentityKept == Spec => IdentityIsKept
<1>1. ASSUME [Next]_vars, IsKey(machineKey), machineKey' # machineKey
      PROVE  NapiGenerateMachineKey
  <2>1. CASE NapiRegisterWithAuthKey
    BY <2>1, <1>1, KeyIsLoaded DEF NapiRegisterWithAuthKey
  <2>2. CASE ConnectKeys
    BY <2>2, <1>1, KeyIsLoaded DEF ConnectKeys
  <2>3. CASE NapiInitialize \/ NapiInitializeWithConfig \/ NapiConnect
             \/ NapiDisconnect
    BY <2>3, <1>1
    DEF NapiInitialize, NapiInitializeWithConfig, NapiConnect, NapiDisconnect,
        keyVars
  <2>4. CASE \/ ConnectWithoutAuthKey \/ RegisterSent \/ RegisterSucceeds
             \/ RegisterFails \/ ConnectConfig \/ ConnectTunnel \/ ConnectSucceeds
             \/ ConnectFails \/ DisconnectReturns
             \/ \E s \in Sessions : ConnectThreads(s)
    BY <2>4, <1>1
    DEF ConnectWithoutAuthKey, RegisterSent, RegisterSucceeds, RegisterFails,
        ConnectConfig, ConnectTunnel, ConnectSucceeds, ConnectFails,
        DisconnectReturns, ConnectThreads, keyVars
  <2>5. CASE TunnelThreads
    BY <2>5, <1>1 DEF TunnelThreads, keyVars
  <2>6. CASE \E s \in Sessions : KeepaliveLoop(s) \/ StunLoop(s)
    BY <2>6, <1>1, LoopStep DEF LoopsLeave, keyVars
  <2>7. CASE UNCHANGED vars
    BY <2>7, <1>1 DEF vars, keyVars
  <2>8. QED
    BY <2>1, <2>2, <2>3, <2>4, <2>5, <2>6, <2>7, <1>1
    DEF Next, Calls, MainThread, Threads
<1>2. [Next]_vars => [IsKey(machineKey) /\ machineKey' # machineKey
                        => NapiGenerateMachineKey]_vars
  BY <1>1
<1>3. QED
  BY <1>2, PTL DEF Spec, IdentityIsKept

=============================================================================
