------------------------- MODULE NativeModuleProofs -------------------------
(***************************************************************************)
(* Proofs about the parts of the native module that MCNativeModule checks  *)
(* side by side, for any constants.  A part keeps its own invariant, and   *)
(* an invariant of one part cannot be disturbed by the others, which leave *)
(* its variables alone.                                                    *)
(***************************************************************************)
EXTENDS MCNativeModule, SequenceTheorems, NaturalsLemmas

-----------------------------------------------------------------------------
(***************************************************************************)
(* The HTTP client.                                                        *)
(***************************************************************************)

\* From the point reached it is known which of the four resources are held: on
\* the common end of sendHttpRequest that depends on https.
HttpHeld ==
  LET ending == {"send", "receive", "cleanup"}
  IN  /\ \A r \in Http!Resources :
           /\ res[r] # "twice"
           /\ res[r] = "released" =>
                r = "addrRes" \/ at \in {"parse", "returned", "idle"}
      /\ res["addrRes"] = "held" <=> at \in {"socket", "connect"}
      /\ res["sock"] = "held" <=>
           at \in {"connect", "method", "ctx", "ssl", "handshake"} \cup ending
      /\ res["ctx"] = "held" <=>
           at \in {"ssl", "handshake"} \/ (https /\ at \in ending)
      /\ res["ssl"] = "held" <=> at = "handshake" \/ (https /\ at \in ending)
      /\ at \in {"method", "ctx", "ssl", "handshake"} => https

\* The response is empty until the answer is parsed, and an answer exists only
\* to a request that has left.
HttpAnswered ==
  /\ https => sentBy # "plain"
  /\ answer.status # NoStatus => sentBy # "nothing"
  /\ at \notin {"returned", "idle"} => response = Http!Nothing
  /\ at # "idle" => outcome = "none"
  /\ response.status = 200 => answer.status = 200
  /\ outcome = "ok" => answer.status = 200 /\ sentBy # "nothing"

HttpInv == Http!TypeOK /\ HttpHeld /\ HttpAnswered

\* Types are preserved.
LEMMA HttpTypeStep ==
  ASSUME HttpInv, Http!Next
  PROVE  Http!TypeOK'
<1>1. Http!TypeOK
  BY DEF HttpInv
<1> USE StatusAssumption DEF Http!StatusAssumption
<1>2. ASSUME NEW k \in Http!Kinds, Http!Request(k)
      PROVE  Http!TypeOK'
  BY <1>2, <1>1
  DEF Http!Request, Http!NoneHeld, Http!NoAnswer, Http!Nothing, Http!Take,
      Http!Release, Http!TypeOK, Http!Kinds, Http!Resources, Http!Pieces
<1>3. ASSUME Http!Resolve
      PROVE  Http!TypeOK'
  BY <1>3, <1>1
  DEF Http!Resolve, Http!Setup, Http!Local, Http!Take, Http!Release,
      Http!TypeOK, Http!Kinds, Http!Resources, Http!Pieces
<1>4. ASSUME Http!Socket
      PROVE  Http!TypeOK'
  BY <1>4, <1>1
  DEF Http!Socket, Http!Setup, Http!Local, Http!Take, Http!Release,
      Http!TypeOK, Http!Kinds, Http!Resources, Http!Pieces
<1>5. ASSUME Http!Connect
      PROVE  Http!TypeOK'
  BY <1>5, <1>1
  DEF Http!Connect, Http!Local, Http!Take, Http!Release, Http!TypeOK,
      Http!Kinds, Http!Resources, Http!Pieces
<1>6. ASSUME Http!TlsMethod
      PROVE  Http!TypeOK'
  BY <1>6, <1>1
  DEF Http!TlsMethod, Http!Local, Http!Take, Http!Release, Http!TypeOK,
      Http!Kinds, Http!Resources, Http!Pieces
<1>7. ASSUME Http!SslContext
      PROVE  Http!TypeOK'
  BY <1>7, <1>1
  DEF Http!SslContext, Http!Setup, Http!Local, Http!Take, Http!Release,
      Http!TypeOK, Http!Kinds, Http!Resources, Http!Pieces
<1>8. ASSUME Http!SslNew
      PROVE  Http!TypeOK'
  BY <1>8, <1>1
  DEF Http!SslNew, Http!Setup, Http!Local, Http!Take, Http!Release,
      Http!TypeOK, Http!Kinds, Http!Resources, Http!Pieces
<1>9. ASSUME Http!Handshake
      PROVE  Http!TypeOK'
  BY <1>9, <1>1
  DEF Http!Handshake, Http!Local, Http!Take, Http!Release, Http!TypeOK,
      Http!Kinds, Http!Resources, Http!Pieces
<1>10. ASSUME Http!Send
      PROVE  Http!TypeOK'
  <2>1. \/ UNCHANGED answer
        \/ \E s \in Statuses \cup {NoStatus}, a \in BOOLEAN :
             answer' = [status |-> s, authUrl |-> a, come |-> 0]
    <3>1. \A s : \A a \in BOOLEAN : (a /\ s = 200 /\ kind = "register") \in BOOLEAN
      OBVIOUS
    <3>2. QED
      BY <1>10, <3>1, Zenon DEF Http!Send
  <2>2. answer' \in [status : Statuses \cup {NoStatus}, authUrl : BOOLEAN,
                    come : 0 .. Len(Http!Pieces)]
    BY <2>1, <1>1 DEF Http!TypeOK, Http!Pieces
  <2>3. sentBy' \in {"nothing", "plain", "tls"}
    BY <1>10, <1>1 DEF Http!Send, Http!TypeOK
  <2>4. QED
    BY <1>10, <1>1, <2>2, <2>3 DEF Http!Send, Http!Local, Http!TypeOK
<1>11. ASSUME Http!Receive
      PROVE  Http!TypeOK'
  BY <1>11, <1>1
  DEF Http!Receive, Http!Local, Http!Take, Http!Release, Http!TypeOK,
      Http!Kinds, Http!Resources, Http!Pieces
<1>12. ASSUME Http!ReceiveEnds
      PROVE  Http!TypeOK'
  BY <1>12, <1>1
  DEF Http!ReceiveEnds, Http!Local, Http!Take, Http!Release, Http!TypeOK,
      Http!Kinds, Http!Resources, Http!Pieces
<1>13. ASSUME Http!Cleanup
      PROVE  Http!TypeOK'
  BY <1>13, <1>1
  DEF Http!Cleanup, Http!Local, Http!Take, Http!Release, Http!TypeOK,
      Http!Kinds, Http!Resources, Http!Pieces
<1>14. ASSUME Http!Parse
      PROVE  Http!TypeOK'
  BY <1>14, <1>1
  DEF Http!Parse, Http!Local, Http!Take, Http!Release, Http!TypeOK, Http!Kinds,
      Http!Resources, Http!Pieces
<1>15. ASSUME Http!Register
      PROVE  Http!TypeOK'
  BY <1>15, <1>1
  DEF Http!Register, Http!Succeeds, Http!Take, Http!Release, Http!TypeOK,
      Http!Kinds, Http!Resources, Http!Pieces
<1>16. ASSUME Http!GetNetworkConfig
      PROVE  Http!TypeOK'
  BY <1>16, <1>1
  DEF Http!GetNetworkConfig, Http!Succeeds, Http!Take, Http!Release,
      Http!TypeOK, Http!Kinds, Http!Resources, Http!Pieces
<1>17. ASSUME Http!SendKeepalive
      PROVE  Http!TypeOK'
  BY <1>17, <1>1
  DEF Http!SendKeepalive, Http!Succeeds, Http!Take, Http!Release, Http!TypeOK,
      Http!Kinds, Http!Resources, Http!Pieces
<1>18. ASSUME Http!UpdateEndpoint
      PROVE  Http!TypeOK'
  BY <1>18, <1>1
  DEF Http!UpdateEndpoint, Http!Succeeds, Http!Take, Http!Release, Http!TypeOK,
      Http!Kinds, Http!Resources, Http!Pieces
<1>19. ASSUME Http!GetDERPMap
      PROVE  Http!TypeOK'
  BY <1>19, <1>1
  DEF Http!GetDERPMap, Http!Succeeds, Http!Take, Http!Release, Http!TypeOK,
      Http!Kinds, Http!Resources, Http!Pieces
<1>20. QED
  BY <1>2, <1>3, <1>4, <1>5, <1>6, <1>7, <1>8, <1>9, <1>10, <1>11, <1>12,
     <1>13, <1>14, <1>15, <1>16, <1>17, <1>18, <1>19
  DEF Http!Next, Http!SendHttpRequest, Http!Requesters

\* What is held follows the points of sendHttpRequest.
LEMMA HttpHeldStep ==
  ASSUME HttpInv, Http!Next
  PROVE  HttpHeld'
<1>1. Http!TypeOK /\ HttpHeld
  BY DEF HttpInv
<1> USE StatusAssumption DEF Http!StatusAssumption
<1>2. ASSUME NEW k \in Http!Kinds, Http!Request(k)
      PROVE  HttpHeld'
  BY <1>2, <1>1
  DEF Http!Request, Http!Take, Http!Release, Http!NoneHeld, HttpHeld,
      Http!TypeOK, Http!Resources
<1>3. ASSUME Http!Resolve
      PROVE  HttpHeld'
  BY <1>3, <1>1
  DEF Http!Resolve, Http!Setup, Http!Local, Http!Take, Http!Release,
      Http!NoneHeld, HttpHeld, Http!TypeOK, Http!Resources
<1>4. ASSUME Http!Socket
      PROVE  HttpHeld'
  BY <1>4, <1>1
  DEF Http!Socket, Http!Setup, Http!Local, Http!Take, Http!Release,
      Http!NoneHeld, HttpHeld, Http!TypeOK, Http!Resources
<1>5. ASSUME Http!Connect
      PROVE  HttpHeld'
  BY <1>5, <1>1
  DEF Http!Connect, Http!Local, Http!Take, Http!Release, Http!NoneHeld,
      HttpHeld, Http!TypeOK, Http!Resources
<1>6. ASSUME Http!TlsMethod
      PROVE  HttpHeld'
  BY <1>6, <1>1
  DEF Http!TlsMethod, Http!Local, Http!Take, Http!Release, Http!NoneHeld,
      HttpHeld, Http!TypeOK, Http!Resources
<1>7. ASSUME Http!SslContext
      PROVE  HttpHeld'
  BY <1>7, <1>1
  DEF Http!SslContext, Http!Setup, Http!Local, Http!Take, Http!Release,
      Http!NoneHeld, HttpHeld, Http!TypeOK, Http!Resources
<1>8. ASSUME Http!SslNew
      PROVE  HttpHeld'
  BY <1>8, <1>1
  DEF Http!SslNew, Http!Setup, Http!Local, Http!Take, Http!Release,
      Http!NoneHeld, HttpHeld, Http!TypeOK, Http!Resources
<1>9. ASSUME Http!Handshake
      PROVE  HttpHeld'
  BY <1>9, <1>1
  DEF Http!Handshake, Http!Local, Http!Take, Http!Release, Http!NoneHeld,
      HttpHeld, Http!TypeOK, Http!Resources
<1>10. ASSUME Http!Send
      PROVE  HttpHeld'
  BY <1>10, <1>1
  DEF Http!Send, Http!Local, Http!Take, Http!Release, Http!NoneHeld, HttpHeld,
      Http!TypeOK, Http!Resources
<1>11. ASSUME Http!Receive
      PROVE  HttpHeld'
  BY <1>11, <1>1
  DEF Http!Receive, Http!Local, Http!Take, Http!Release, Http!NoneHeld,
      HttpHeld, Http!TypeOK, Http!Resources
<1>12. ASSUME Http!ReceiveEnds
      PROVE  HttpHeld'
  BY <1>12, <1>1
  DEF Http!ReceiveEnds, Http!Local, Http!Take, Http!Release, Http!NoneHeld,
      HttpHeld, Http!TypeOK, Http!Resources
<1>13. ASSUME Http!Cleanup
      PROVE  HttpHeld'
  <2>1. res' = Http!Release({"ssl", "ctx", "sock"}) /\ UNCHANGED https
    BY <1>13 DEF Http!Cleanup, Http!Local
  <2>2. \A r \in {"ssl", "ctx", "sock"} : res[r] \in {"none", "held"}
    BY <1>13, <1>1 DEF Http!Cleanup, HttpHeld, Http!TypeOK, Http!Resources
  <2>3. res["addrRes"] \notin {"held", "twice"}
    BY <1>13, <1>1 DEF Http!Cleanup, HttpHeld, Http!Resources
  <2>4. \A r \in Http!Resources : res'[r] \notin {"twice", "held"}
    BY <2>1, <2>2, <2>3 DEF Http!Release, Http!Resources
  <2>5. QED
    BY <1>13, <2>1, <2>4 DEF Http!Cleanup, HttpHeld, Http!Resources
<1>14. ASSUME Http!Parse
      PROVE  HttpHeld'
  BY <1>14, <1>1
  DEF Http!Parse, Http!Local, Http!Take, Http!Release, Http!NoneHeld, HttpHeld,
      Http!TypeOK, Http!Resources
<1>15. ASSUME Http!Register
      PROVE  HttpHeld'
  BY <1>15, <1>1
  DEF Http!Register, Http!Succeeds, Http!Take, Http!Release, Http!NoneHeld,
      HttpHeld, Http!TypeOK, Http!Resources
<1>16. ASSUME Http!GetNetworkConfig
      PROVE  HttpHeld'
  BY <1>16, <1>1
  DEF Http!GetNetworkConfig, Http!Succeeds, Http!Take, Http!Release,
      Http!NoneHeld, HttpHeld, Http!TypeOK, Http!Resources
<1>17. ASSUME Http!SendKeepalive
      PROVE  HttpHeld'
  BY <1>17, <1>1
  DEF Http!SendKeepalive, Http!Succeeds, Http!Take, Http!Release,
      Http!NoneHeld, HttpHeld, Http!TypeOK, Http!Resources
<1>18. ASSUME Http!UpdateEndpoint
      PROVE  HttpHeld'
  BY <1>18, <1>1
  DEF Http!UpdateEndpoint, Http!Succeeds, Http!Take, Http!Release,
      Http!NoneHeld, HttpHeld, Http!TypeOK, Http!Resources
<1>19. ASSUME Http!GetDERPMap
      PROVE  HttpHeld'
  BY <1>19, <1>1
  DEF Http!GetDERPMap, Http!Succeeds, Http!Take, Http!Release, Http!NoneHeld,
      HttpHeld, Http!TypeOK, Http!Resources
<1>20. QED
  BY <1>2, <1>3, <1>4, <1>5, <1>6, <1>7, <1>8, <1>9, <1>10, <1>11, <1>12,
     <1>13, <1>14, <1>15, <1>16, <1>17, <1>18, <1>19
  DEF Http!Next, Http!SendHttpRequest, Http!Requesters

\* So does what is known of the answer.
LEMMA HttpAnsweredStep ==
  ASSUME HttpInv, Http!Next
  PROVE  HttpAnswered'
<1>1. Http!TypeOK /\ HttpHeld /\ HttpAnswered
  BY DEF HttpInv
<1> USE StatusAssumption DEF Http!StatusAssumption
<1>2. ASSUME NEW k \in Http!Kinds, Http!Request(k)
      PROVE  HttpAnswered'
  BY <1>2, <1>1
  DEF Http!Request, Http!Nothing, Http!NoAnswer, Http!Take, Http!Release,
      HttpAnswered, HttpHeld, Http!TypeOK, Http!Resources
<1>3. ASSUME Http!Resolve
      PROVE  HttpAnswered'
  BY <1>3, <1>1
  DEF Http!Resolve, Http!Setup, Http!Local, Http!Nothing, Http!NoAnswer,
      Http!Take, Http!Release, HttpAnswered, HttpHeld, Http!TypeOK,
      Http!Resources
<1>4. ASSUME Http!Socket
      PROVE  HttpAnswered'
  BY <1>4, <1>1
  DEF Http!Socket, Http!Setup, Http!Local, Http!Nothing, Http!NoAnswer,
      Http!Take, Http!Release, HttpAnswered, HttpHeld, Http!TypeOK,
      Http!Resources
<1>5. ASSUME Http!Connect
      PROVE  HttpAnswered'
  BY <1>5, <1>1
  DEF Http!Connect, Http!Local, Http!Nothing, Http!NoAnswer, Http!Take,
      Http!Release, HttpAnswered, HttpHeld, Http!TypeOK, Http!Resources
<1>6. ASSUME Http!TlsMethod
      PROVE  HttpAnswered'
  BY <1>6, <1>1
  DEF Http!TlsMethod, Http!Local, Http!Nothing, Http!NoAnswer, Http!Take,
      Http!Release, HttpAnswered, HttpHeld, Http!TypeOK, Http!Resources
<1>7. ASSUME Http!SslContext
      PROVE  HttpAnswered'
  BY <1>7, <1>1
  DEF Http!SslContext, Http!Setup, Http!Local, Http!Nothing, Http!NoAnswer,
      Http!Take, Http!Release, HttpAnswered, HttpHeld, Http!TypeOK,
      Http!Resources
<1>8. ASSUME Http!SslNew
      PROVE  HttpAnswered'
  BY <1>8, <1>1
  DEF Http!SslNew, Http!Setup, Http!Local, Http!Nothing, Http!NoAnswer,
      Http!Take, Http!Release, HttpAnswered, HttpHeld, Http!TypeOK,
      Http!Resources
<1>9. ASSUME Http!Handshake
      PROVE  HttpAnswered'
  BY <1>9, <1>1
  DEF Http!Handshake, Http!Local, Http!Nothing, Http!NoAnswer, Http!Take,
      Http!Release, HttpAnswered, HttpHeld, Http!TypeOK, Http!Resources
<1>10. ASSUME Http!Send
      PROVE  HttpAnswered'
  BY <1>10, <1>1
  DEF Http!Send, Http!Local, Http!Nothing, Http!NoAnswer, Http!Take,
      Http!Release, HttpAnswered, HttpHeld, Http!TypeOK, Http!Resources
<1>11. ASSUME Http!Receive
      PROVE  HttpAnswered'
  BY <1>11, <1>1
  DEF Http!Receive, Http!Local, Http!Nothing, Http!NoAnswer, Http!Take,
      Http!Release, HttpAnswered, HttpHeld, Http!TypeOK, Http!Resources
<1>12. ASSUME Http!ReceiveEnds
      PROVE  HttpAnswered'
  BY <1>12, <1>1
  DEF Http!ReceiveEnds, Http!Local, Http!Nothing, Http!NoAnswer, Http!Take,
      Http!Release, HttpAnswered, HttpHeld, Http!TypeOK, Http!Resources
<1>13. ASSUME Http!Cleanup
      PROVE  HttpAnswered'
  BY <1>13, <1>1
  DEF Http!Cleanup, Http!Local, Http!Nothing, Http!NoAnswer, Http!Take,
      Http!Release, HttpAnswered, HttpHeld, Http!TypeOK, Http!Resources
<1>14. ASSUME Http!Parse
      PROVE  HttpAnswered'
  BY <1>14, <1>1
  DEF Http!Parse, Http!Local, Http!Nothing, Http!NoAnswer, Http!Take,
      Http!Release, HttpAnswered, HttpHeld, Http!TypeOK, Http!Resources
<1>15. ASSUME Http!Register
      PROVE  HttpAnswered'
  BY <1>15, <1>1
  DEF Http!Register, Http!Succeeds, Http!Nothing, Http!NoAnswer, Http!Take,
      Http!Release, HttpAnswered, HttpHeld, Http!TypeOK, Http!Resources
<1>16. ASSUME Http!GetNetworkConfig
      PROVE  HttpAnswered'
  BY <1>16, <1>1
  DEF Http!GetNetworkConfig, Http!Succeeds, Http!Nothing, Http!NoAnswer,
      Http!Take, Http!Release, HttpAnswered, HttpHeld, Http!TypeOK,
      Http!Resources
<1>17. ASSUME Http!SendKeepalive
      PROVE  HttpAnswered'
  BY <1>17, <1>1
  DEF Http!SendKeepalive, Http!Succeeds, Http!Nothing, Http!NoAnswer,
      Http!Take, Http!Release, HttpAnswered, HttpHeld, Http!TypeOK,
      Http!Resources
<1>18. ASSUME Http!UpdateEndpoint
      PROVE  HttpAnswered'
  BY <1>18, <1>1
  DEF Http!UpdateEndpoint, Http!Succeeds, Http!Nothing, Http!NoAnswer,
      Http!Take, Http!Release, HttpAnswered, HttpHeld, Http!TypeOK,
      Http!Resources
<1>19. ASSUME Http!GetDERPMap
      PROVE  HttpAnswered'
  BY <1>19, <1>1
  DEF Http!GetDERPMap, Http!Succeeds, Http!Nothing, Http!NoAnswer, Http!Take,
      Http!Release, HttpAnswered, HttpHeld, Http!TypeOK, Http!Resources
<1>20. QED
  BY <1>2, <1>3, <1>4, <1>5, <1>6, <1>7, <1>8, <1>9, <1>10, <1>11, <1>12,
     <1>13, <1>14, <1>15, <1>16, <1>17, <1>18, <1>19
  DEF Http!Next, Http!SendHttpRequest, Http!Requesters

\* The invariant of the HTTP client holds at first, ...
LEMMA HttpInit == ASSUME Http!Init PROVE HttpInv
<1>1. Http!TypeOK
  <2>1. /\ Http!NoAnswer \in [status : Statuses \cup {NoStatus}, authUrl : BOOLEAN,
                             come : 0 .. Len(Http!Pieces)]
        /\ Http!Nothing \in [status : Statuses \cup {NoStatus}, authUrl : BOOLEAN,
                            body : BOOLEAN]
    BY DEF Http!NoAnswer, Http!Nothing, Http!Pieces
  <2>2. QED
    BY <2>1 DEF Http!Init, Http!TypeOK, Http!Kinds, Http!NoneHeld
<1>2. HttpHeld
  BY DEF Http!Init, HttpHeld, Http!NoneHeld, Http!Resources
<1>3. HttpAnswered
  BY StatusAssumption
  DEF Http!StatusAssumption, Http!Init, HttpAnswered, Http!NoAnswer, Http!Nothing
<1>4. QED
  BY <1>1, <1>2, <1>3 DEF HttpInv

\* ... and after every step, its own or one that leaves it alone, ...
LEMMA HttpStep ==
  ASSUME HttpInv, Http!Next \/ UNCHANGED httpVars
  PROVE  HttpInv'
<1>1. CASE Http!Next
  BY <1>1, HttpTypeStep, HttpHeldStep, HttpAnsweredStep DEF HttpInv
<1>2. CASE UNCHANGED httpVars
  <2>1. Http!TypeOK'
    BY <1>2 DEF httpVars, HttpInv, Http!TypeOK
  <2>2. HttpHeld'
    BY <1>2 DEF httpVars, HttpInv, HttpHeld
  <2>3. HttpAnswered'
    BY <1>2 DEF httpVars, HttpInv, HttpAnswered, Http!Nothing
  <2>4. QED
    BY <2>1, <2>2, <2>3 DEF HttpInv
<1>3. QED
  BY <1>1, <1>2

\* ... and what is wanted of the client follows from it.
LEMMA HttpSound == ASSUME HttpInv PROVE HttpIsSound
<1>1. Http!NothingIsHeld
  BY DEF HttpInv, HttpHeld, Http!TypeOK, Http!NothingIsHeld, Http!Resources
<1>2. Http!TlsIsNotDropped /\ Http!SuccessIsAnswered
  BY DEF HttpInv, HttpAnswered, Http!TlsIsNotDropped, Http!SuccessIsAnswered
<1>3. QED
  BY <1>1, <1>2 DEF HttpInv, HttpIsSound

-----------------------------------------------------------------------------
(***************************************************************************)
(* The bridge to the Go libraries.                                         *)
(***************************************************************************)

\* A promise is pending exactly as long as its task is on its way, and a call
\* that was not made yet has neither; what is queued found the core loaded.
TaskInv ==
  \A t \in Tasks :
    /\ work[t].at \in {"queued", "executed"} <=> promise[t] = "pending"
    /\ promise[t] # "twice"
    /\ waiter[t] = "none" => promise[t] = "none"
    /\ work[t].at = "queued" => loaded[Bridge!Core]

BridgeInv == Bridge!TypeOK /\ Bridge!NoNullCall /\ TaskInv

\* What an attempt to load a library leaves, whether or not it succeeds.
LEMMA EnsureStep ==
  ASSUME Bridge!TypeOK, NEW l \in Bridge!Libs, NEW err \in BOOLEAN,
         Bridge!Ensure(l, err)
  PROVE  /\ UNCHANGED exports
         /\ loaded' \in [Bridge!Libs -> BOOLEAN]
         /\ \A k \in Bridge!Libs : loaded[k] => loaded'[k]
         /\ ~err => loaded'[l]
BY DEF Bridge!Ensure, Bridge!TypeOK, Bridge!libVars

\* A library is loaded and lacks a mandatory function.
LoadedWithGap(isLoaded) ==
  \E l \in Bridge!Libs : isLoaded[l] /\ ~Bridge!Complete(l)

\* A synchronous entry point leaves the tasks alone, and crashes only in a library
\* that lacks a mandatory function.
CallLeaves ==
  /\ UNCHANGED <<exports, work, promise, waiter>>
  /\ loaded' \in [Bridge!Libs -> BOOLEAN]
  /\ crashed' \in BOOLEAN
  /\ reply' \in {"none", "ERR", "report", "promise"}
  /\ \A l \in Bridge!Libs : loaded[l] => loaded'[l]
  /\ crashed' => LoadedWithGap(loaded')

LEMMA EntryStep ==
  ASSUME Bridge!TypeOK, NEW f, NEW argsOk,
         \/ Bridge!S5(f, argsOk)
         \/ Bridge!CoreCall(f, argsOk)
  PROVE  CallLeaves
<1>1. PICK l \in Bridge!Libs, err \in BOOLEAN :
        /\ Bridge!Ensure(l, err)
        /\ IF err \/ f \notin exports[l] \/ ~argsOk
           THEN reply' = "ERR" /\ UNCHANGED crashed
           ELSE Bridge!CallsForString(l, f) /\ reply' = "report"
  BY DEF Bridge!S5, Bridge!CoreCall, Bridge!Entry, Bridge!EnsureLoaded,
         Bridge!EnsureCoreLoaded, Bridge!Libs
<1>2. UNCHANGED <<exports, work, promise, waiter>>
  BY <1>1, EnsureStep
  DEF Bridge!S5, Bridge!CoreCall, Bridge!Entry, Bridge!taskVars
<1>3. /\ loaded' \in [Bridge!Libs -> BOOLEAN] /\ (~err => loaded'[l])
      /\ \A k \in Bridge!Libs : loaded[k] => loaded'[k]
  BY <1>1, EnsureStep
<1>4. reply' \in {"none", "ERR", "report", "promise"} /\ ~crashed
  BY <1>1 DEF Bridge!S5, Bridge!CoreCall, Bridge!Entry
<1>5. crashed' => LoadedWithGap(loaded')
  <2>1. Bridge!Complete(l) => Bridge!Free[l] \in exports[l]
    BY DEF Bridge!Complete, Bridge!Free, Bridge!Mandatory, Bridge!Libs,
           Bridge!Hello, Bridge!Core
  <2>2. CASE err \/ f \notin exports[l] \/ ~argsOk
    BY <2>2, <1>1, <1>4
  <2>3. CASE ~(err \/ f \notin exports[l] \/ ~argsOk)
    <3>1. Bridge!Complete(l) => ~crashed'
      BY <2>3, <2>1, <1>1, <1>3
      DEF Bridge!CallsForString, Bridge!Resolved, Bridge!TakeGoString,
          Bridge!TakeCoreString, Bridge!Libs
    <3>2. QED
      BY <3>1, <2>3, <1>3 DEF LoadedWithGap
  <2>4. QED
    BY <2>2, <2>3
<1>6. crashed' \in BOOLEAN
  BY <1>1 DEF Bridge!CallsForString, Bridge!TypeOK
<1>7. QED
  BY <1>2, <1>3, <1>4, <1>5, <1>6 DEF CallLeaves

LEMMA CallStep ==
  ASSUME BridgeInv, Bridge!Calls
  PROVE  CallLeaves
<1>1. Bridge!TypeOK
  BY DEF BridgeInv
<1>2. ASSUME Bridge!Probe \/ Bridge!StartTicker
      PROVE  CallLeaves
  <2>1. PICK err \in BOOLEAN :
          /\ Bridge!Ensure(Bridge!Hello, err)
          /\ \/ err /\ reply' = "ERR" /\ UNCHANGED crashed
             \/ /\ ~err /\ reply' = "report"
                /\ \/ Bridge!CallsForString(Bridge!Hello, "GoHello")
                   \/ crashed' = ~Bridge!Resolved(Bridge!Hello, "GoStartTicker")
    BY <1>2 DEF Bridge!Probe, Bridge!StartTicker, Bridge!EnsureLoaded
  <2>2. UNCHANGED exports /\ loaded' \in [Bridge!Libs -> BOOLEAN]
        /\ (~err => loaded'[Bridge!Hello])
        /\ \A k \in Bridge!Libs : loaded[k] => loaded'[k]
    BY <2>1, <1>1, EnsureStep DEF Bridge!Libs
  <2>3. UNCHANGED <<work, promise, waiter>> /\ ~crashed
    BY <1>2 DEF Bridge!Probe, Bridge!StartTicker, Bridge!taskVars
  <2>4. crashed' \in BOOLEAN
    BY <2>1, <1>1 DEF Bridge!CallsForString, Bridge!TypeOK
  <2>5. crashed' => LoadedWithGap(loaded')
    <3>1. Bridge!Hello \in Bridge!Libs
          /\ (Bridge!Complete(Bridge!Hello) =>
                {"GoHello", "GoStartTicker", Bridge!Free[Bridge!Hello]}
                  \subseteq exports[Bridge!Hello])
      BY DEF Bridge!Complete, Bridge!Free, Bridge!Mandatory, Bridge!Libs,
             Bridge!Hello, Bridge!Core
    <3>2. CASE err
      BY <3>2, <2>1, <2>3
    <3>3. CASE ~err
      <4>1. Bridge!Complete(Bridge!Hello) => ~crashed'
        BY <3>3, <3>1, <2>1, <2>2
        DEF Bridge!CallsForString, Bridge!Resolved, Bridge!TakeGoString
      <4>2. QED
        BY <4>1, <3>1, <3>3, <2>2 DEF LoadedWithGap
    <3>4. QED
      BY <3>2, <3>3
  <2>6. QED
    BY <2>1, <2>2, <2>3, <2>4, <2>5 DEF CallLeaves
<1>3. ASSUME Bridge!Ticks
      PROVE  CallLeaves
  BY <1>3, <1>1
  DEF Bridge!Ticks, CallLeaves, Bridge!TypeOK, Bridge!libVars, Bridge!taskVars
<1>4. ASSUME \/ Bridge!UdpStart \/ Bridge!UdpStats \/ Bridge!UdpSendTo
             \/ Bridge!DnsLookup \/ Bridge!TunStart \/ Bridge!TunWrite
             \/ Bridge!TunStats \/ Bridge!TunCapture \/ Bridge!TunBuildUdp
      PROVE  CallLeaves
  BY <1>4, <1>1, EntryStep
  DEF Bridge!UdpStart, Bridge!UdpStats, Bridge!UdpSendTo, Bridge!DnsLookup,
      Bridge!TunStart, Bridge!TunWrite, Bridge!TunStats, Bridge!TunCapture,
      Bridge!TunBuildUdp
<1>5. ASSUME \/ Bridge!CoreControlUp \/ Bridge!CoreControlStatus
             \/ Bridge!CorePingPeers \/ Bridge!CoreDnsProbe \/ Bridge!CoreAttachTun
      PROVE  CallLeaves
  BY <1>5, <1>1, EntryStep
  DEF Bridge!CoreControlUp, Bridge!CoreControlStatus, Bridge!CorePingPeers,
      Bridge!CoreDnsProbe, Bridge!CoreAttachTun
<1>6. ASSUME Bridge!CoreControlDown
      PROVE  CallLeaves
  <2>1. PICK err \in BOOLEAN :
          Bridge!EnsureCoreLoaded(err) /\ reply' = IF err THEN "ERR" ELSE "report"
    BY <1>6 DEF Bridge!CoreControlDown
  <2>2. UNCHANGED exports /\ loaded' \in [Bridge!Libs -> BOOLEAN]
        /\ \A k \in Bridge!Libs : loaded[k] => loaded'[k]
    BY <2>1, <1>1, EnsureStep DEF Bridge!EnsureCoreLoaded, Bridge!Libs
  <2>3. UNCHANGED <<crashed, work, promise, waiter>> /\ ~crashed
    BY <1>6 DEF Bridge!CoreControlDown, Bridge!taskVars
  <2>4. QED
    BY <2>1, <2>2, <2>3, <1>1 DEF CallLeaves, Bridge!TypeOK
<1>7. QED
  BY <1>2, <1>3, <1>4, <1>5, <1>6 DEF Bridge!Calls

\* What the start of a task leaves: its promise is settled already and nothing is
\* queued, or both are on their way.
TaskStarts(t) ==
  /\ UNCHANGED <<exports, crashed>> /\ ~crashed
  /\ loaded' \in [Bridge!Libs -> BOOLEAN]
  /\ \A l \in Bridge!Libs : loaded[l] => loaded'[l]
  /\ reply' \in {"report", "promise"}
  /\ waiter[t] = "none"
  /\ \E w \in {"waiting", "rejected"} : waiter' = [waiter EXCEPT ![t] = w]
  /\ \/ /\ promise' = [promise EXCEPT ![t] = "pending"]
        /\ loaded'[Bridge!Core]
        /\ \E k \in Bridge!Kinds :
             work' = [work EXCEPT ![t] = [at |-> "queued", kind |-> k]]
     \/ /\ promise' \in {promise, [promise EXCEPT ![t] = "settled"]}
        /\ \/ UNCHANGED work
           \/ \E k \in Bridge!Kinds :
                work' = [work EXCEPT ![t] = [at |-> "deleted", kind |-> k]]

LEMMA StartStep ==
  ASSUME BridgeInv, NEW t \in Tasks,
         Bridge!CoreSelfTest(t) \/ Bridge!CoreNetCheck(t) \/ Bridge!CoreIfProbe(t)
  PROVE  TaskStarts(t)
<1>1. /\ Bridge!TypeOK
      /\ waiter[t] = "none" => promise[t] = "none"
  BY DEF BridgeInv, TaskInv
<1>2. waiter[t] = "none" /\ ~crashed /\ UNCHANGED crashed
  BY DEF Bridge!CoreSelfTest, Bridge!CoreNetCheck, Bridge!CoreIfProbe,
         Bridge!RefusedHost, Bridge!StartProbeAsync
<1>3. UNCHANGED exports /\ loaded' \in [Bridge!Libs -> BOOLEAN]
      /\ \A l \in Bridge!Libs : loaded[l] => loaded'[l]
  <2>1. CASE Bridge!RefusedHost(t)
    BY <2>1, <1>1 DEF Bridge!RefusedHost, Bridge!libVars, Bridge!TypeOK
  <2>2. CASE \E k \in Bridge!Kinds : Bridge!StartProbeAsync(t, k)
    BY <2>2, <1>1, EnsureStep
    DEF Bridge!StartProbeAsync, Bridge!EnsureCoreLoaded, Bridge!Libs
  <2>3. QED
    BY <2>1, <2>2
    DEF Bridge!CoreSelfTest, Bridge!CoreNetCheck, Bridge!CoreIfProbe, Bridge!Kinds
<1>4. \/ Bridge!ResolvedPromise(t)
      \/ loaded'[Bridge!Core] /\ \E k \in Bridge!Kinds : Bridge!Queued(t, k)
  <2>1. CASE Bridge!RefusedHost(t)
    BY <2>1 DEF Bridge!RefusedHost
  <2>2. CASE \E k \in Bridge!Kinds : Bridge!StartProbeAsync(t, k)
    BY <2>2, <1>1, EnsureStep
    DEF Bridge!StartProbeAsync, Bridge!EnsureCoreLoaded, Bridge!Libs
  <2>3. QED
    BY <2>1, <2>2
    DEF Bridge!CoreSelfTest, Bridge!CoreNetCheck, Bridge!CoreIfProbe, Bridge!Kinds
<1>5. Bridge!Settled(t) = "settled"
  BY <1>1, <1>2 DEF Bridge!Settled
<1>6. CASE Bridge!ResolvedPromise(t)
  BY <1>6, <1>2, <1>3, <1>5 DEF Bridge!ResolvedPromise, TaskStarts
<1>7. CASE loaded'[Bridge!Core] /\ \E k \in Bridge!Kinds : Bridge!Queued(t, k)
  BY <1>7, <1>2, <1>3, <1>5 DEF Bridge!Queued, TaskStarts
<1>8. QED
  BY <1>4, <1>6, <1>7

\* Types are preserved, and a crash takes a loaded library with a gap.
LEMMA BridgeTypeStep ==
  ASSUME BridgeInv, Bridge!Next
  PROVE  Bridge!TypeOK' /\ Bridge!NoNullCall'
<1>1. Bridge!TypeOK /\ Bridge!NoNullCall /\ TaskInv
  BY DEF BridgeInv
<1>2. CASE Bridge!Calls
  <2>1. CallLeaves
    BY <1>2, CallStep
  <2>2. QED
    BY <2>1, <1>1
    DEF CallLeaves, LoadedWithGap, Bridge!TypeOK, Bridge!NoNullCall, Bridge!Complete
<1>3. ASSUME NEW t \in Tasks, TaskStarts(t)
      PROVE  Bridge!TypeOK' /\ Bridge!NoNullCall'
  <2>1. work' \in [Tasks -> [at : {"none", "queued", "executed", "deleted"},
                             kind : Bridge!Kinds]]
    BY <1>3, <1>1 DEF TaskStarts, Bridge!TypeOK
  <2>2. promise' \in [Tasks -> {"none", "pending", "settled", "twice"}]
    BY <1>3, <1>1 DEF TaskStarts, Bridge!TypeOK
  <2>3. QED
    BY <1>3, <1>1, <2>1, <2>2
    DEF TaskStarts, Bridge!TypeOK, Bridge!NoNullCall, Bridge!Complete
<1>4. ASSUME NEW t \in Tasks, Bridge!ProbeExecute(t)
      PROVE  Bridge!TypeOK' /\ Bridge!NoNullCall'
  <2>1. work' \in [Tasks -> [at : {"none", "queued", "executed", "deleted"},
                             kind : Bridge!Kinds]]
    BY <1>4, <1>1 DEF Bridge!ProbeExecute, Bridge!TypeOK
  <2>2. crashed' \in BOOLEAN
    BY <1>4 DEF Bridge!ProbeExecute
  <2>3. ASSUME Bridge!Complete(Bridge!Core)
        PROVE  ~crashed'
    <3>1. {"ArkMeshSelfTest", "ArkMeshNetCheck", Bridge!Free[Bridge!Core]}
            \subseteq exports[Bridge!Core]
      BY <2>3 DEF Bridge!Complete, Bridge!Free, Bridge!Mandatory, Bridge!Libs,
                  Bridge!Hello, Bridge!Core
    <3>2. work[t].kind \in Bridge!Kinds
      BY <1>1 DEF Bridge!TypeOK
    <3>3. QED
      BY <1>4, <3>1, <3>2
      DEF Bridge!ProbeExecute, Bridge!Function, Bridge!Kinds
  <2>4. UNCHANGED <<exports, loaded, reply, promise, waiter>>
        /\ loaded[Bridge!Core] /\ Bridge!Core \in Bridge!Libs
    BY <1>4, <1>1 DEF Bridge!ProbeExecute, Bridge!libVars, TaskInv, Bridge!Libs
  <2>5. QED
    BY <1>1, <2>1, <2>2, <2>3, <2>4
    DEF Bridge!TypeOK, Bridge!NoNullCall, Bridge!Complete
<1>5. ASSUME NEW t \in Tasks, Bridge!ProbeComplete(t)
      PROVE  Bridge!TypeOK' /\ Bridge!NoNullCall'
  BY <1>5, <1>1
  DEF Bridge!ProbeComplete, Bridge!Settled, Bridge!TypeOK, Bridge!NoNullCall,
      Bridge!Complete, Bridge!libVars
<1>6. ASSUME NEW t \in Tasks, Bridge!ValueArrives(t) \/ Bridge!TimerFires(t)
      PROVE  Bridge!TypeOK' /\ Bridge!NoNullCall'
  BY <1>6, <1>1
  DEF Bridge!ValueArrives, Bridge!TimerFires, Bridge!TypeOK, Bridge!NoNullCall,
      Bridge!Complete, Bridge!libVars
<1>7. QED
  BY <1>2, <1>3, <1>4, <1>5, <1>6, StartStep DEF Bridge!Next

\* A promise stays pending exactly as long as its task is on its way.
LEMMA TaskInvStep ==
  ASSUME BridgeInv, Bridge!Next
  PROVE  TaskInv'
<1>1. Bridge!TypeOK /\ TaskInv
  BY DEF BridgeInv
<1>2. CASE Bridge!Calls
  BY <1>1, <1>2, CallStep DEF CallLeaves, TaskInv, Bridge!Libs
<1>3. ASSUME NEW t \in Tasks, TaskStarts(t)
      PROVE  TaskInv'
  BY <1>3, <1>1 DEF TaskStarts, TaskInv, Bridge!TypeOK, Bridge!Libs
<1>4. ASSUME NEW t \in Tasks, Bridge!ProbeExecute(t)
      PROVE  TaskInv'
  BY <1>4, <1>1 DEF Bridge!ProbeExecute, TaskInv, Bridge!TypeOK, Bridge!libVars
<1>5. ASSUME NEW t \in Tasks, Bridge!ProbeComplete(t)
      PROVE  TaskInv'
  BY <1>5, <1>1 DEF Bridge!ProbeComplete, Bridge!Settled, TaskInv, Bridge!TypeOK, Bridge!libVars
<1>6. ASSUME NEW t \in Tasks, Bridge!ValueArrives(t) \/ Bridge!TimerFires(t)
      PROVE  TaskInv'
  BY <1>6, <1>1 DEF Bridge!ValueArrives, Bridge!TimerFires, TaskInv, Bridge!TypeOK, Bridge!libVars
<1>7. QED
  BY <1>2, <1>3, <1>4, <1>5, <1>6, StartStep DEF Bridge!Next

\* The invariant of the bridge holds at first, after every step and after one
\* that leaves the bridge alone, and implies what is wanted of it.
LEMMA BridgeInit == ASSUME Bridge!Init PROVE BridgeInv
<1>1. Bridge!TypeOK
  <2>1. exports \in [Bridge!Libs -> SUBSET UNION {Bridge!Mandatory[l] \cup Bridge!Optional[l] :
                                                    l \in Bridge!Libs}]
    <3>1. PICK gap \in Gaps : exports = [l \in Bridge!Libs |->
                                (Bridge!Mandatory[l] \cup Bridge!Optional[l]) \ gap]
      BY DEF Bridge!Init
    <3>2. QED
      BY <3>1
  <2>2. QED
    BY <2>1 DEF Bridge!Init, Bridge!TypeOK, Bridge!NoWork, Bridge!Kinds
<1>2. Bridge!NoNullCall /\ TaskInv
  BY DEF Bridge!Init, Bridge!NoNullCall, TaskInv, Bridge!NoWork
<1>3. QED
  BY <1>1, <1>2 DEF BridgeInv

LEMMA BridgeStep ==
  ASSUME BridgeInv, Bridge!Next \/ UNCHANGED libVars
  PROVE  BridgeInv'
<1>1. CASE Bridge!Next
  BY <1>1, BridgeTypeStep, TaskInvStep DEF BridgeInv
<1>2. CASE UNCHANGED libVars
  BY <1>2 DEF libVars, BridgeInv, Bridge!TypeOK, Bridge!NoNullCall, Bridge!Complete, TaskInv
<1>3. QED
  BY <1>1, <1>2

LEMMA BridgeSound == ASSUME BridgeInv PROVE BridgeIsSound
BY DEF BridgeInv, TaskInv, BridgeIsSound, Bridge!TaskEndsWithPromise, Bridge!TypeOK

-----------------------------------------------------------------------------
(***************************************************************************)
(* The tunnel.  The two lists of peers have the same keys because every    *)
(* body of a call does the same to both; that the recursive function       *)
(* inside Without exists, and what it makes of two lists with the same     *)
(* keys, is shown by induction on the length of the list.                  *)
(***************************************************************************)

\* What the recursive function inside Without is.
IsKept(f, ps, k, n) ==
  f = [i \in 0 .. n |->
         IF i = 0 THEN <<>>
         ELSE IF ps[i].publicKey = k THEN f[i - 1] ELSE Append(f[i - 1], ps[i])]

\* There is such a function, so Without is its last value.
LEMMA WithoutIsKept ==
  ASSUME NEW S, NEW ps \in Seq(S), NEW k
  PROVE  \E f : IsKept(f, ps, k, Len(ps)) /\ Wire!Without(ps, k) = f[Len(ps)]
<1> DEFINE N == {n \in Nat : n <= Len(ps) =>
                   \E f \in [0 .. n -> Seq(S)] : IsKept(f, ps, k, n)}
<1>1. 0 \in N
  <2> DEFINE z == [i \in 0 .. 0 |-> <<>>]
  <2>1. z \in [0 .. 0 -> Seq(S)]
    OBVIOUS
  <2>2. IsKept(z, ps, k, 0)
    <3>1. \A i \in 0 .. 0 : i = 0 /\ z[i] = <<>>
      OBVIOUS
    <3>2. z = [i \in 0 .. 0 |-> z[i]]
      OBVIOUS
    <3> HIDE DEF z
    <3>3. QED
      BY <3>1, <3>2 DEF IsKept
  <2> HIDE DEF z
  <2>3. QED
    BY <2>1, <2>2
<1>2. ASSUME NEW n \in N
      PROVE  n + 1 \in N
  <2>1. SUFFICES ASSUME n + 1 <= Len(ps)
                 PROVE  \E f \in [0 .. n + 1 -> Seq(S)] : IsKept(f, ps, k, n + 1)
    OBVIOUS
  <2>2. PICK f \in [0 .. n -> Seq(S)] : IsKept(f, ps, k, n)
    BY <2>1
  <2> DEFINE x == IF ps[n + 1].publicKey = k THEN f[n] ELSE Append(f[n], ps[n + 1])
             g == [i \in 0 .. n + 1 |-> IF i <= n THEN f[i] ELSE x]
  <2>3. x \in Seq(S)
    BY <2>1
  <2>4. g \in [0 .. n + 1 -> Seq(S)]
    BY <2>3
  <2>5. /\ DOMAIN g = 0 .. n + 1
        /\ \A i \in 0 .. n : g[i] = f[i]
        /\ g[n + 1] = x
    OBVIOUS
  <2>6. ASSUME NEW i \in 0 .. n
        PROVE  g[i] = IF i = 0 THEN <<>>
                      ELSE IF ps[i].publicKey = k THEN g[i - 1]
                      ELSE Append(g[i - 1], ps[i])
    <3>1. f[i] = IF i = 0 THEN <<>>
                 ELSE IF ps[i].publicKey = k THEN f[i - 1]
                 ELSE Append(f[i - 1], ps[i])
      BY <2>2 DEF IsKept
    <3>2. CASE i = 0
      BY <3>1, <3>2, <2>5
    <3>3. CASE i # 0
      <4>1. g[i] = f[i] /\ g[i - 1] = f[i - 1]
        BY <3>3, <2>5
      <4>2. QED
        BY <3>1, <3>3, <4>1
    <3>4. QED
      BY <3>2, <3>3
  <2>7. g[n + 1] = IF ps[n + 1].publicKey = k THEN g[n] ELSE Append(g[n], ps[n + 1])
    BY <2>5
  <2>8. IsKept(g, ps, k, n + 1)
    <3> HIDE DEF g, x
    <3>1. g = [i \in 0 .. n + 1 |-> g[i]]
      BY <2>4
    <3>2. \A i \in 0 .. n + 1 :
            g[i] = IF i = 0 THEN <<>>
                   ELSE IF ps[i].publicKey = k THEN g[i - 1]
                   ELSE Append(g[i - 1], ps[i])
      <4> TAKE i \in 0 .. n + 1
      <4>1. CASE i \in 0 .. n
        BY <4>1, <2>6
      <4>2. CASE i = n + 1
        <5>1. i # 0 /\ i - 1 = n
          BY <4>2
        <5>2. QED
          BY <4>2, <5>1, <2>7
      <4>3. QED
        BY <4>1, <4>2
    <3>3. [i \in 0 .. n + 1 |-> g[i]] =
            [i \in 0 .. n + 1 |->
               IF i = 0 THEN <<>>
               ELSE IF ps[i].publicKey = k THEN g[i - 1]
               ELSE Append(g[i - 1], ps[i])]
      BY <3>2
    <3>4. QED
      BY <3>1, <3>3 DEF IsKept
  <2>9. QED
    BY <2>4, <2>8
<1>3. N = Nat
  <2> HIDE DEF N
  <2>1. N \in SUBSET Nat
    BY DEF N
  <2>2. QED
    BY <1>1, <1>2, <2>1, Induction
<1>4. PICK f \in [0 .. Len(ps) -> Seq(S)] : IsKept(f, ps, k, Len(ps))
  BY <1>3
<1> DEFINE h == CHOOSE e : IsKept(e, ps, k, Len(ps))
<1>5. IsKept(h, ps, k, Len(ps))
  BY <1>4
<1>6. Wire!Without(ps, k) = h[Len(ps)]
  BY DEF Wire!Without, IsKept
<1>7. QED
  BY <1>5, <1>6

\* ps and qs list the same keys in the same order.
SameKeys(ps, qs) ==
  /\ Len(ps) = Len(qs)
  /\ \A i \in 1 .. Len(ps) : ps[i].publicKey = qs[i].publicKey

LEMMA KeptValues ==
  ASSUME NEW f, NEW ps, NEW k, NEW n \in Nat, IsKept(f, ps, k, n)
  PROVE  /\ f[0] = <<>>
         /\ \A i \in 1 .. n :
              f[i] = IF ps[i].publicKey = k THEN f[i - 1] ELSE Append(f[i - 1], ps[i])
<1>1. \A i \in 0 .. n :
        f[i] = IF i = 0 THEN <<>>
               ELSE IF ps[i].publicKey = k THEN f[i - 1] ELSE Append(f[i - 1], ps[i])
  BY DEF IsKept
<1>2. 0 \in 0 .. n /\ \A i \in 1 .. n : i \in 0 .. n /\ i # 0
  OBVIOUS
<1>3. QED
  BY <1>1, <1>2

\* What remains of lists with the same keys has the same keys.
LEMMA WithoutAgrees ==
  ASSUME NEW S, NEW ps \in Seq(S), NEW qs \in Seq(S), NEW k, SameKeys(ps, qs)
  PROVE  /\ Wire!Without(ps, k) \in Seq(S) /\ Wire!Without(qs, k) \in Seq(S)
         /\ SameKeys(Wire!Without(ps, k), Wire!Without(qs, k))
<1>1. PICK f : IsKept(f, ps, k, Len(ps)) /\ Wire!Without(ps, k) = f[Len(ps)]
  BY WithoutIsKept
<1>2. PICK g : IsKept(g, qs, k, Len(qs)) /\ Wire!Without(qs, k) = g[Len(qs)]
  BY WithoutIsKept
<1>3. /\ Len(ps) \in Nat /\ Len(qs) = Len(ps)
      /\ \A i \in 1 .. Len(ps) : ps[i] \in S /\ qs[i] \in S
      /\ \A i \in 1 .. Len(ps) : ps[i].publicKey = qs[i].publicKey
  BY DEF SameKeys
<1>4. /\ f[0] = <<>> /\ g[0] = <<>>
      /\ \A i \in 1 .. Len(ps) :
           /\ f[i] = IF ps[i].publicKey = k THEN f[i - 1] ELSE Append(f[i - 1], ps[i])
           /\ g[i] = IF qs[i].publicKey = k THEN g[i - 1] ELSE Append(g[i - 1], qs[i])
  BY <1>1, <1>2, <1>3, KeptValues
<1> DEFINE N == {n \in Nat : n <= Len(ps) =>
                   f[n] \in Seq(S) /\ g[n] \in Seq(S) /\ SameKeys(f[n], g[n])}
<1>5. 0 \in N
  <2>1. <<>> \in Seq(S) /\ SameKeys(<<>>, <<>>)
    BY DEF SameKeys
  <2>2. QED
    BY <2>1, <1>4
<1>6. ASSUME NEW n \in N
      PROVE  n + 1 \in N
  <2>1. SUFFICES ASSUME n + 1 <= Len(ps)
                 PROVE  /\ f[n + 1] \in Seq(S) /\ g[n + 1] \in Seq(S)
                        /\ SameKeys(f[n + 1], g[n + 1])
    OBVIOUS
  <2>2. /\ n + 1 \in 1 .. Len(ps) /\ (n + 1) - 1 = n
        /\ f[n] \in Seq(S) /\ g[n] \in Seq(S) /\ SameKeys(f[n], g[n])
    BY <2>1, <1>3
  <2>3. CASE ps[n + 1].publicKey = k
    <3>1. f[n + 1] = f[n] /\ g[n + 1] = g[n]
      BY <2>2, <2>3, <1>3, <1>4
    <3>2. QED
      BY <3>1, <2>2
  <2>4. CASE ps[n + 1].publicKey # k
    <3>1. f[n + 1] = Append(f[n], ps[n + 1]) /\ g[n + 1] = Append(g[n], qs[n + 1])
      BY <2>2, <2>4, <1>3, <1>4
    <3>2. ps[n + 1].publicKey = qs[n + 1].publicKey /\ ps[n + 1] \in S /\ qs[n + 1] \in S
      BY <2>2, <1>3
    <3>3. QED
      BY <3>1, <3>2, <2>2, SMTT(30) DEF SameKeys
  <2>5. QED
    BY <2>3, <2>4
<1>7. N = Nat
  <2>1. N \in SUBSET Nat
    OBVIOUS
  <2> HIDE DEF N
  <2>2. QED
    BY <1>5, <1>6, <2>1, Induction
<1>8. f[Len(ps)] \in Seq(S) /\ g[Len(ps)] \in Seq(S) /\ SameKeys(f[Len(ps)], g[Len(ps)])
  BY <1>3, <1>7
<1>9. QED
  BY <1>1, <1>2, <1>3, <1>8

-----------------------------------------------------------------------------
\* The calls of the tunnel: where they are and with which argument.
OnePeer == {"addPeer", "removePeer", "updatePeerEndpoint"}
WireCalls ==
  [op  : {"none", "stop", "initialize", "getConfig", "performHandshakes"} \cup OnePeer,
   at  : {"idle", "lock", "body", "again", "join 1", "join 2"},
   arg : Seq(Wire!Peer)]

CallsTyped ==
  /\ call \in [Callers -> WireCalls]
  /\ \A t \in Callers :
       /\ call[t].op \in OnePeer => Len(call[t].arg) = 1
       /\ call[t].at \in {"body", "again"} => configMutex = t
       /\ call[t].at \in {"join 1", "join 2"} => t = Owner
       /\ call[t].at = "idle" => call[t] = Wire!Idle

\* The lists of peers, which every body of a call leaves with the same keys.
PeersAgree ==
  /\ wirePeers \in Seq(Wire!Peer) /\ configPeers \in Seq(Wire!Peer)
  /\ SameKeys(wirePeers, configPeers)

\* Both threads are gone whenever the object neither runs nor is being stopped.
ThreadsJoined ==
  /\ wireRunning \in BOOLEAN /\ tunFd \in BOOLEAN /\ terminated = FALSE
  /\ receiveThread \in {"none", "top", "read", "ended"}
  /\ handshakeThread \in {"none", "top", "peers", "ended"}
  /\ configMutex \in Callers \cup {Nobody}
  /\ call[Owner].at \in {"join 1", "join 2"} => ~wireRunning
  /\ call[Owner].at = "join 2" => receiveThread = "none"
  /\ ~wireRunning /\ call[Owner].at \notin {"join 1", "join 2"} =>
       receiveThread = "none" /\ handshakeThread = "none"

WireInv == CallsTyped /\ PeersAgree /\ ThreadsJoined

LEMMA WireInit == ASSUME Wire!OwnerAssumption, Wire!Init PROVE WireInv
<1>1. CallsTyped
  <2>1. Wire!Idle \in WireCalls
    BY DEF Wire!Idle, WireCalls
  <2>2. QED
    BY <2>1 DEF Wire!Init, CallsTyped, Wire!Idle, OnePeer
<1>2. PeersAgree
  BY DEF Wire!Init, PeersAgree, SameKeys
<1>3. ThreadsJoined
  BY DEF Wire!Init, ThreadsJoined, Wire!Idle, Wire!OwnerAssumption
<1>4. QED
  BY <1>1, <1>2, <1>3 DEF WireInv

\* The arguments a call is made with.
LEMMA ConfigCallsTyped ==
  ASSUME Wire!OwnerAssumption, NEW c \in Wire!ConfigCalls
  PROVE  /\ c \in WireCalls
         /\ c.at = "lock"
         /\ c.op \in OnePeer => Len(c.arg) = 1
<1>1. CASE c \in {[op |-> "initialize", at |-> "lock", arg |-> ps] :
                     ps \in Wire!SeqOf(Wire!Peer, MaxPeers)}
  <2>1. PICK ps \in Wire!SeqOf(Wire!Peer, MaxPeers) :
          c = [op |-> "initialize", at |-> "lock", arg |-> ps]
    BY <1>1
  <2>2. ps \in Seq(Wire!Peer)
    BY DEF Wire!SeqOf, Wire!OwnerAssumption
  <2>3. QED
    BY <2>1, <2>2 DEF WireCalls, OnePeer
<1>2. CASE c \in {[op |-> o, at |-> "lock", arg |-> <<p>>] : o \in OnePeer, p \in Wire!Peer}
  <2>1. PICK o \in OnePeer, p \in Wire!Peer : c = [op |-> o, at |-> "lock", arg |-> <<p>>]
    BY <1>2
  <2>2. <<p>> \in Seq(Wire!Peer) /\ Len(<<p>>) = 1
    OBVIOUS
  <2>3. QED
    BY <2>1, <2>2 DEF WireCalls
<1>3. CASE c \in {[op |-> o, at |-> "lock", arg |-> <<>>] :
                     o \in {"getConfig", "performHandshakes"}}
  <2>1. PICK o \in {"getConfig", "performHandshakes"} :
          c = [op |-> o, at |-> "lock", arg |-> <<>>]
    BY <1>3
  <2>2. <<>> \in Seq(Wire!Peer)
    OBVIOUS
  <2>3. QED
    BY <2>1, <2>2 DEF WireCalls, OnePeer
<1>4. QED
  BY <1>1, <1>2, <1>3 DEF Wire!ConfigCalls, OnePeer

\* A thread's call changes to another, and the mutex at most for this thread.
LEMMA CallChanges ==
  ASSUME Wire!OwnerAssumption, CallsTyped, NEW t \in Callers, NEW c \in WireCalls,
         call' = [call EXCEPT ![t] = c],
         configMutex' = configMutex \/ configMutex \in {t, Nobody},
         c.op \in OnePeer => Len(c.arg) = 1,
         c.at \in {"body", "again"} => configMutex' = t,
         c.at \in {"join 1", "join 2"} => t = Owner,
         c.at = "idle" => c = Wire!Idle
  PROVE  CallsTyped'
<1>1. call' \in [Callers -> WireCalls]
  BY DEF CallsTyped
<1>2. ASSUME NEW u \in Callers
      PROVE  /\ call'[u].op \in OnePeer => Len(call'[u].arg) = 1
             /\ call'[u].at \in {"body", "again"} => configMutex' = u
             /\ call'[u].at \in {"join 1", "join 2"} => u = Owner
             /\ call'[u].at = "idle" => call'[u] = Wire!Idle
  <2>1. CASE u = t
    <3>1. call'[u] = c
      BY <2>1 DEF CallsTyped
    <3>2. QED
      BY <2>1, <3>1
  <2>2. CASE u # t
    <3>1. call'[u] = call[u]
      BY <2>2 DEF CallsTyped
    <3>2. QED
      BY <2>2, <3>1 DEF CallsTyped, Wire!OwnerAssumption
  <2>3. QED
    BY <2>1, <2>2
<1>3. QED
  BY <1>1, <1>2 DEF CallsTyped

\* A body of a call leaves the mutex free and its thread idle.
LEMMA BodyStep ==
  ASSUME Wire!OwnerAssumption, WireInv, NEW t \in Callers, NEW op, Wire!Body(t, op)
  PROVE  CallsTyped' /\ ThreadsJoined'
<1>1. /\ call' = [call EXCEPT ![t] = Wire!Idle] /\ configMutex' = Nobody
      /\ UNCHANGED <<wireRunning, tunFd, receiveThread, handshakeThread, terminated>>
      /\ configMutex = t /\ call[t].at = "body"
  BY DEF Wire!Body, Wire!loops, WireInv, CallsTyped
<1>2. Wire!Idle \in WireCalls
  BY DEF Wire!Idle, WireCalls
<1>3. CallsTyped'
  BY <1>1, <1>2, CallChanges DEF WireInv, Wire!Idle, OnePeer
<1>4. ThreadsJoined'
  BY <1>1 DEF WireInv, CallsTyped, ThreadsJoined, Wire!Idle, Wire!OwnerAssumption
<1>5. QED
  BY <1>3, <1>4

\* What a body does to the lists.
LEMMA ListsStep ==
  ASSUME Wire!OwnerAssumption, WireInv, NEW t \in Callers,
         \/ Wire!Initialize(t) \/ Wire!RemovePeer(t) \/ Wire!UpdatePeerEndpoint(t)
         \/ Wire!GetConfig(t) \/ Wire!PerformHandshakes(t)
  PROVE  PeersAgree'
<1> DEFINE arg == call[t].arg
<1>1. arg \in Seq(Wire!Peer)
  BY DEF WireInv, CallsTyped, WireCalls
<1>2. CASE Wire!Initialize(t)
  BY <1>1, <1>2 DEF Wire!Initialize, PeersAgree, SameKeys
<1>3. CASE Wire!RemovePeer(t)
  <2>1. /\ wirePeers' = Wire!Without(wirePeers, arg[1].publicKey)
        /\ configPeers' = Wire!Without(configPeers, arg[1].publicKey)
    BY <1>3 DEF Wire!RemovePeer
  <2>2. QED
    BY <2>1, WithoutAgrees DEF WireInv, PeersAgree
<1>4. CASE Wire!UpdatePeerEndpoint(t)
  <2> DEFINE here == {i \in 1 .. Len(wirePeers) : wirePeers[i].publicKey = arg[1].publicKey}
             first == CHOOSE i \in here : \A j \in here : i <= j
  <2>1. CASE here = {}
    BY <2>1, <1>4 DEF Wire!UpdatePeerEndpoint, WireInv, PeersAgree
  <2>2. CASE here # {}
    <3>1. wirePeers' = [wirePeers EXCEPT ![first] = arg[1]] /\ UNCHANGED configPeers
      BY <2>2, <1>4 DEF Wire!UpdatePeerEndpoint
    <3>2. first \in here
      <4>1. here \in SUBSET Nat
        OBVIOUS
      <4> HIDE DEF here
      <4>2. \E i \in here : \A j \in here : i <= j
        BY <2>2, <4>1, LeastNatural
      <4>3. QED
        BY <4>2
    <3>3. arg[1] \in Wire!Peer
      <4>1. call[t].op = "updatePeerEndpoint"
        BY <1>4 DEF Wire!UpdatePeerEndpoint, Wire!Body
      <4>2. Len(arg) = 1
        BY <4>1 DEF WireInv, CallsTyped, OnePeer
      <4>3. QED
        BY <4>2, <1>1
    <3>4. first \in 1 .. Len(wirePeers) /\ wirePeers[first].publicKey = arg[1].publicKey
      BY <3>2
    <3>5. QED
      <4> HIDE DEF first, arg, here
      <4>1. QED
        BY <3>1, <3>3, <3>4 DEF WireInv, PeersAgree, SameKeys
  <2>3. QED
    BY <2>1, <2>2
<1>5. CASE Wire!GetConfig(t) \/ Wire!PerformHandshakes(t)
  BY <1>5 DEF Wire!GetConfig, Wire!PerformHandshakes, WireInv, PeersAgree
<1>6. QED
  BY <1>2, <1>3, <1>4, <1>5

\* The invariant of the tunnel is inductive: one step for every action.
LEMMA WireStep ==
  ASSUME Wire!OwnerAssumption, WireInv, Wire!Next
  PROVE  WireInv'
<1> USE DEF Wire!loops, Wire!config, WireInv
<1> DEFINE Same == UNCHANGED <<call, configMutex, wirePeers, configPeers>>
<1>0. ASSUME Same
      PROVE  CallsTyped' /\ PeersAgree'
  BY <1>0 DEF CallsTyped, PeersAgree
<1>1. CASE Wire!Start
  <2>1. call[Owner].at = "idle" /\ Same
    BY <1>1 DEF Wire!Start, Wire!Idle
  <2>2. ThreadsJoined'
    BY <1>1, <2>1 DEF Wire!Start, ThreadsJoined
  <2>3. QED
    BY <1>0, <2>1, <2>2
<1>2. CASE Wire!Stop
  <2> DEFINE c == [op |-> "stop", at |-> "join 1", arg |-> <<>>]
  <2>1. Owner \in Callers /\ c \in WireCalls
    BY DEF Wire!OwnerAssumption, WireCalls
  <2> /\ call' = [call EXCEPT ![Owner] = c]
      /\ UNCHANGED <<configMutex, wirePeers, configPeers>>
    BY <1>2 DEF Wire!Stop
  <2>2. CallsTyped'
    BY <2>1, CallChanges DEF OnePeer
  <2>3. call'[Owner].at = "join 1"
    BY <2>1 DEF CallsTyped
  <2>4. PeersAgree' /\ ThreadsJoined'
    BY <1>2, <2>3 DEF Wire!Stop, PeersAgree, ThreadsJoined
  <2>5. QED
    BY <2>2, <2>4
<1>3. CASE Wire!JoinReceive
  <2> DEFINE c == [call[Owner] EXCEPT !.at = "join 2"]
  <2>1. /\ Owner \in Callers /\ call[Owner] \in WireCalls /\ call[Owner].at = "join 1"
        /\ call' = [call EXCEPT ![Owner] = c]
        /\ UNCHANGED <<configMutex, wirePeers, configPeers>>
    BY <1>3 DEF Wire!JoinReceive, Wire!Joins, Wire!OwnerAssumption, CallsTyped
  <2>2. /\ c \in WireCalls /\ c.at = "join 2"
        /\ c.op = call[Owner].op /\ c.arg = call[Owner].arg
    BY <2>1 DEF WireCalls
  <2>3. CallsTyped'
    <3> HIDE DEF c
    <3>1. QED
      BY <2>1, <2>2, CallChanges DEF CallsTyped
  <2>4. call'[Owner].at = "join 2"
    BY <2>1, <2>2 DEF CallsTyped
  <2>5. PeersAgree' /\ ThreadsJoined'
    BY <1>3, <2>1, <2>4 DEF Wire!JoinReceive, Wire!Joins, PeersAgree, ThreadsJoined
  <2>6. QED
    BY <2>3, <2>5
<1>4. CASE Wire!JoinHandshake
  <2>1. /\ Owner \in Callers /\ call[Owner].at = "join 2"
        /\ call' = [call EXCEPT ![Owner] = Wire!Idle]
        /\ UNCHANGED <<configMutex, wirePeers, configPeers>>
    BY <1>4 DEF Wire!JoinHandshake, Wire!Joins, Wire!OwnerAssumption
  <2>2. Wire!Idle \in WireCalls
    BY DEF Wire!Idle, WireCalls
  <2>3. CallsTyped'
    BY <2>1, <2>2, CallChanges DEF Wire!Idle, OnePeer
  <2>4. PeersAgree' /\ ThreadsJoined'
    BY <1>4, <2>1 DEF Wire!JoinHandshake, Wire!Joins, CallsTyped, PeersAgree, ThreadsJoined,
                      Wire!Idle
  <2>5. QED
    BY <2>3, <2>4
<1>5. CASE Wire!SetTunFd
  <2>1. ThreadsJoined'
    BY <1>5 DEF Wire!SetTunFd, ThreadsJoined
  <2>2. QED
    BY <1>0, <1>5, <2>1 DEF Wire!SetTunFd
<1>6. ASSUME NEW t \in Callers, Wire!ConfigCall(t)
      PROVE  WireInv'
  <2>1. PICK c \in Wire!ConfigCalls : call' = [call EXCEPT ![t] = c]
    BY <1>6 DEF Wire!ConfigCall
  <2>2. c \in WireCalls /\ c.at = "lock" /\ (c.op \in OnePeer => Len(c.arg) = 1)
    BY ConfigCallsTyped
  <2>3. CallsTyped'
    BY <1>6, <2>1, <2>2, CallChanges DEF Wire!ConfigCall
  <2>4. /\ call[t].at = "idle" /\ call'[t].at = "lock"
        /\ \A u \in Callers : u # t => call'[u] = call[u]
    <3>1. call[t].at = "idle"
      BY <1>6 DEF Wire!ConfigCall, Wire!Idle
    <3>2. QED
      BY <3>1, <2>1, <2>2 DEF CallsTyped
  <2>5. ThreadsJoined'
    BY <1>6, <2>4 DEF Wire!ConfigCall, ThreadsJoined, Wire!OwnerAssumption
  <2>6. PeersAgree'
    BY <1>6 DEF Wire!ConfigCall, PeersAgree
  <2>7. QED
    BY <2>3, <2>5, <2>6
<1>7. ASSUME NEW t \in Callers, Wire!Lock(t) \/ Wire!AddPeer(t)
      PROVE  WireInv'
  <2>1. PICK place \in {"body", "again"} : call' = [call EXCEPT ![t].at = place]
    BY <1>7 DEF Wire!Lock, Wire!AddPeer
  <2> DEFINE c == [call[t] EXCEPT !.at = place]
  <2>2. /\ call' = [call EXCEPT ![t] = c]
        /\ call[t] \in WireCalls
    BY <2>1 DEF CallsTyped
  <2>3. /\ c \in WireCalls /\ c.at = place
        /\ c.op = call[t].op /\ c.arg = call[t].arg
    BY <2>2 DEF WireCalls
  <2>4. configMutex' = t /\ configMutex \in {t, Nobody} /\ call[t].at \in {"lock", "body"}
    BY <1>7 DEF Wire!Lock, Wire!AddPeer, CallsTyped
  <2>5. CallsTyped'
    <3> HIDE DEF c
    <3>1. /\ c.op \in OnePeer => Len(c.arg) = 1
          /\ c.at \notin {"join 1", "join 2", "idle"}
      BY <2>1, <2>3 DEF CallsTyped
    <3>2. QED
      BY <2>2, <2>3, <2>4, <3>1, CallChanges
  <2>6. /\ call'[t].at = place
        /\ \A u \in Callers : u # t => call'[u] = call[u]
    BY <2>2, <2>3 DEF CallsTyped
  <2>7. UNCHANGED <<wireRunning, tunFd, receiveThread, handshakeThread, terminated>>
    BY <1>7 DEF Wire!Lock, Wire!AddPeer
  <2>8. ThreadsJoined'
    <3>1. Owner = t \/ call'[Owner] = call[Owner]
      BY <2>6 DEF Wire!OwnerAssumption
    <3>2. QED
      BY <2>1, <2>4, <2>6, <2>7, <3>1 DEF ThreadsJoined
  <2>9. PeersAgree'
    BY <1>7 DEF Wire!Lock, Wire!AddPeer, PeersAgree
  <2>10. QED
    BY <2>5, <2>8, <2>9
<1>8. ASSUME NEW t \in Callers,
             \/ Wire!Initialize(t) \/ Wire!RemovePeer(t) \/ Wire!UpdatePeerEndpoint(t)
             \/ Wire!GetConfig(t) \/ Wire!PerformHandshakes(t)
      PROVE  WireInv'
  <2>1. CallsTyped' /\ ThreadsJoined'
    BY <1>8, BodyStep DEF Wire!Initialize, Wire!RemovePeer, Wire!UpdatePeerEndpoint,
                          Wire!GetConfig, Wire!PerformHandshakes
  <2>2. QED
    BY <1>8, <2>1, ListsStep
<1>9. CASE Wire!ReceiveLoop
  <2>1. Same /\ UNCHANGED <<wireRunning, tunFd, handshakeThread, terminated>>
    BY <1>9 DEF Wire!ReceiveLoop, Wire!ReceiveTop, Wire!ReceiveRead, Wire!OnlyReceive
  <2>2. receiveThread # "none" /\ receiveThread' \in {"top", "read", "ended"}
    BY <1>9 DEF Wire!ReceiveLoop, Wire!ReceiveTop, Wire!ReceiveRead
  <2>3. ThreadsJoined'
    BY <2>1, <2>2 DEF ThreadsJoined
  <2>4. QED
    BY <1>0, <2>1, <2>3
<1>10. CASE Wire!HandshakeLoop
  <2>1. Same /\ UNCHANGED <<wireRunning, tunFd, receiveThread, terminated>>
    BY <1>10 DEF Wire!HandshakeLoop, Wire!HandshakeTop, Wire!HandshakePeers,
                 Wire!OnlyHandshake
  <2>2. handshakeThread # "none" /\ handshakeThread' \in {"top", "peers", "ended"}
    BY <1>10 DEF Wire!HandshakeLoop, Wire!HandshakeTop, Wire!HandshakePeers
  <2>3. ThreadsJoined'
    BY <2>1, <2>2 DEF ThreadsJoined
  <2>4. QED
    BY <1>0, <2>1, <2>3
<1>11. QED
  BY <1>1, <1>2, <1>3, <1>4, <1>5, <1>6, <1>7, <1>8, <1>8, <1>9, <1>10
  DEF Wire!Next, Wire!Bodies

LEMMA WireStutter == ASSUME WireInv, UNCHANGED wireVars PROVE WireInv'
BY DEF wireVars, WireInv, CallsTyped, PeersAgree, ThreadsJoined

LEMMA WireSound == ASSUME Wire!OwnerAssumption, WireInv PROVE TunnelIsSound
<1>1. Wire!TypeOK
  BY DEF WireInv, CallsTyped, WireCalls, ThreadsJoined, Wire!TypeOK
<1>2. Wire!ThreadsAreJoined /\ Wire!ListsAgree
  BY DEF WireInv, ThreadsJoined, PeersAgree, SameKeys, Wire!ThreadsAreJoined, Wire!ListsAgree
<1>3. QED
  BY <1>1, <1>2 DEF TunnelIsSound

-----------------------------------------------------------------------------
(***************************************************************************)
(* The three side by side.  What the retired core keeps is in              *)
(* LegacyCoreProofs.                                                       *)
(***************************************************************************)

IInv == HttpInv /\ BridgeInv /\ WireInv

\* IInv is inductive.
THEOREM IInvariance == NativeSpec => []IInv
<1>1. ASSUME NativeInit
      PROVE  IInv
  BY <1>1, TunnelAssumption, HttpInit, BridgeInit, WireInit DEF NativeInit, IInv
<1>2. ASSUME IInv, [NativeNext]_nativeVars
      PROVE  IInv'
  <2>1. /\ Http!Next \/ UNCHANGED httpVars
        /\ Bridge!Next \/ UNCHANGED libVars
        /\ Wire!Next \/ UNCHANGED wireVars
    BY <1>2 DEF NativeNext, nativeVars
  <2>2. QED
    BY <1>2, <2>1, TunnelAssumption, HttpStep, BridgeStep, WireStep, WireStutter DEF IInv
<1>3. QED
  BY <1>1, <1>2, PTL DEF NativeSpec

\* sendHttpRequest releases what it took, once, sends nothing unencrypted to an
\* https server, and its callers succeed only on a 200 to their own request.
THEOREM HttpSafe == NativeSpec => []HttpIsSound
<1>1. IInv => HttpIsSound
  BY HttpSound DEF IInv
<1>2. QED
  BY <1>1, IInvariance, PTL

\* Whatever the builds of the two libraries lack (Gaps is any set of sets), a null
\* function pointer is called only in a library that is loaded although it lacks a
\* mandatory function; and no task of a probe is deleted before its promise is
\* settled, for any number of calls.
THEOREM BridgeSafe == NativeSpec => []BridgeIsSound
<1>1. IInv => BridgeIsSound
  BY BridgeSound DEF IInv
<1>2. QED
  BY <1>1, IInvariance, PTL

\* start of the tunnel finds no thread that has to be joined, and its two lists
\* of peers name the same keys, for any number of threads and lists of any length.
THEOREM TunnelSafe == NativeSpec => []TunnelIsSound
<1>1. IInv => TunnelIsSound
  BY TunnelAssumption, WireSound DEF IInv
<1>2. QED
  BY <1>1, IInvariance, PTL

=============================================================================
