--------------------------- MODULE HeadscaleHttp ---------------------------
(***************************************************************************)
(* The requests of the retired HeadscaleClient                             *)
(* (cpp/src/api/headscale_client.cpp): one at a time, over HTTP or TLS, in *)
(* the steps of sendHttpRequest, with what it acquires and releases, and   *)
(* what each caller makes of the answer.                                   *)
(*                                                                         *)
(* The resolver, the socket and OpenSSL are not in this repository: every  *)
(* call may fail.  The server answers in pieces; the connection may end,   *)
(* by a close, an error or the timeout of 10 s, after any of them.         *)
(*                                                                         *)
(* An operator introduced as a mutant is no part of the specification: it  *)
(* is the next definition with a plausible bug, and breaks a property.     *)
(***************************************************************************)
EXTENDS Naturals, Sequences

CONSTANTS Statuses, \* the status codes of answers; 200 is one of them
          NoStatus  \* response.statusCode = -1

\* What is assumed of the constants.
StatusAssumption == 200 \in Statuses /\ NoStatus \notin Statuses

VARIABLES
  at,        \* where sendHttpRequest is
  kind,      \* the function that called it
  https,
  res,       \* what is held: addrRes, sock, ctx, ssl
  sentBy,    \* how the request left
  answer,    \* what the server answers to it, and how many pieces have come
  response,  \* what sendHttpRequest returned
  connected, \* of the client
  outcome    \* what the caller returned

vars == <<at, kind, https, res, sentBy, answer, response, connected, outcome>>

Resources == {"addrRes", "sock", "ctx", "ssl"}
Kinds     == {"register", "map", "keepalive", "endpoint", "derp"}

\* The pieces of an answer: its status line, the rest of its header, and its
\* body, cut where a non-empty AuthURL begins.
Pieces == <<"status", "header", "start of body", "end of body">>

NoAnswer == [status |-> NoStatus, authUrl |-> FALSE, come |-> 0]
Nothing  == [status |-> NoStatus, authUrl |-> FALSE, body |-> FALSE]

\* The type invariant.
TypeOK ==
  /\ at \in {"idle", "resolve", "socket", "connect", "method", "ctx", "ssl", "handshake",
             "send", "receive", "cleanup", "parse", "returned"}
  /\ kind \in Kinds /\ https \in BOOLEAN
  /\ res \in [Resources -> {"none", "held", "released", "twice"}]
  /\ sentBy \in {"nothing", "plain", "tls"}
  /\ answer \in [status : Statuses \cup {NoStatus}, authUrl : BOOLEAN,
                 come : 0 .. Len(Pieces)]
  /\ response \in [status : Statuses \cup {NoStatus}, authUrl : BOOLEAN, body : BOOLEAN]
  /\ connected \in BOOLEAN
  /\ outcome \in {"none", "ok", "failed"}

NoneHeld == [r \in Resources |-> "none"]

Init ==
  /\ at = "idle" /\ kind = "map" /\ https = FALSE
  /\ res = NoneHeld /\ sentBy = "nothing"
  /\ answer = NoAnswer /\ response = Nothing
  /\ connected = FALSE /\ outcome = "none"

-----------------------------------------------------------------------------
(***************************************************************************)
(* sendHttpRequest.                                                        *)
(***************************************************************************)

Take(r)     == [res EXCEPT ![r] = "held"]
Release(rs) == [r \in Resources |->
                  IF r \notin rs \/ res[r] = "none" THEN res[r]
                  ELSE IF res[r] = "held" THEN "released" ELSE "twice"]

\* A caller starts a request; what it does with the answer depends on it.
Request(k) ==
  /\ at = "idle"
  /\ kind' = k /\ https' \in BOOLEAN
  /\ at' = "resolve"
  /\ res' = NoneHeld /\ sentBy' = "nothing"
  /\ answer' = NoAnswer /\ response' = Nothing /\ outcome' = "none"
  /\ UNCHANGED connected

Local == UNCHANGED <<kind, https, connected, outcome>>

\* One step of the setup: it takes r and goes on, or gives up releasing rs.
Setup(from, r, next, rs) ==
  /\ at = from
  /\ \/ at' = next /\ res' = Take(r)
     \/ at' = "returned" /\ res' = Release(rs)
  /\ Local /\ UNCHANGED <<sentBy, answer, response>>

Resolve == Setup("resolve", "addrRes", "socket", {})
Socket  == Setup("socket", "sock", "connect", {"addrRes"})

Connect ==
  /\ at = "connect"
  /\ \/ at' = (IF https THEN "method" ELSE "send") /\ res' = Release({"addrRes"})
     \/ at' = "returned" /\ res' = Release({"addrRes", "sock"})
  /\ Local /\ UNCHANGED <<sentBy, answer, response>>

TlsMethod ==
  /\ at = "method"
  /\ \/ at' = "ctx" /\ UNCHANGED res
     \/ at' = "returned" /\ res' = Release({"sock"})
  /\ Local /\ UNCHANGED <<sentBy, answer, response>>

SslContext == Setup("ctx", "ctx", "ssl", {"sock"})

\* Mutant: the context is forgotten when there is no SSL object.
SslNewLeaksContext == Setup("ssl", "ssl", "handshake", {"sock"})
SslNew             == Setup("ssl", "ssl", "handshake", {"ctx", "sock"})

Handshake ==
  /\ at = "handshake"
  /\ \/ at' = "send" /\ UNCHANGED res
     \/ at' = "returned" /\ res' = Release({"ssl", "ctx", "sock"})
  /\ Local /\ UNCHANGED <<sentBy, answer, response>>

\* The request is written, through TLS if there is an SSL object; the server
\* answers it or not.  A failed write is logged and otherwise ignored.
Send ==
  /\ at = "send"
  /\ at' = "receive"
  /\ \/ /\ sentBy' = IF https /\ res["ssl"] = "held" THEN "tls" ELSE "plain"
        /\ \E s \in Statuses \cup {NoStatus}, a \in BOOLEAN :
             answer' = [status |-> s, authUrl |-> a /\ s = 200 /\ kind = "register",
                        come |-> 0]
     \/ UNCHANGED <<sentBy, answer>>
  /\ Local /\ UNCHANGED <<res, response>>

\* A piece arrives ...
Receive ==
  /\ at = "receive"
  /\ answer.status # NoStatus /\ answer.come < Len(Pieces)
  /\ answer' = [answer EXCEPT !.come = @ + 1]
  /\ Local /\ UNCHANGED <<at, res, sentBy, response>>

\* ... or the connection ends.  An error is logged, what has come is kept.
ReceiveEnds ==
  /\ at = "receive"
  /\ at' = "cleanup"
  /\ Local /\ UNCHANGED <<res, sentBy, answer, response>>

Cleanup ==
  /\ at = "cleanup"
  /\ res' = Release({"ssl", "ctx", "sock"})
  /\ at' = "parse"
  /\ Local /\ UNCHANGED <<sentBy, answer, response>>

\* The status and the body as far as they have come.
Parse ==
  /\ at = "parse"
  /\ response' = [status  |-> IF answer.come >= 1 THEN answer.status ELSE NoStatus,
                  authUrl |-> answer.come >= 3 /\ answer.authUrl,
                  body    |-> answer.come >= 2]
  /\ at' = "returned"
  /\ Local /\ UNCHANGED <<res, sentBy, answer>>

-----------------------------------------------------------------------------
(***************************************************************************)
(* The callers.                                                            *)
(***************************************************************************)

Succeeds(ok) ==
  /\ outcome' = (IF ok THEN "ok" ELSE "failed")
  /\ at' = "idle"
  /\ UNCHANGED <<kind, https, res, sentBy, answer, response>>

\* registerWithAuthKey: 200, and no login is asked for.
Register ==
  /\ at = "returned" /\ kind = "register"
  /\ LET ok == response.status = 200 /\ ~response.authUrl
     IN  Succeeds(ok) /\ connected' = (connected \/ ok)

\* getNetworkConfig, getNodes: any other status yields an empty configuration.
GetNetworkConfig ==
  /\ at = "returned" /\ kind = "map"
  /\ Succeeds(response.status = 200) /\ UNCHANGED connected

SendKeepalive ==
  /\ at = "returned" /\ kind = "keepalive"
  /\ Succeeds(response.status = 200) /\ UNCHANGED connected

UpdateEndpoint ==
  /\ at = "returned" /\ kind = "endpoint"
  /\ Succeeds(response.status = 200) /\ UNCHANGED connected

GetDERPMap ==
  /\ at = "returned" /\ kind = "derp"
  /\ Succeeds(response.status = 200) /\ UNCHANGED connected

SendHttpRequest ==
  \/ Resolve \/ Socket \/ Connect \/ TlsMethod \/ SslContext \/ SslNew \/ Handshake
  \/ Send \/ Receive \/ ReceiveEnds \/ Cleanup \/ Parse

Requesters == Register \/ GetNetworkConfig \/ SendKeepalive \/ UpdateEndpoint \/ GetDERPMap

Next == (\E k \in Kinds : Request(k)) \/ SendHttpRequest \/ Requesters

\* Every system call on the way has a timeout or fails; a connection ends.
Fairness == WF_vars(SendHttpRequest \/ Requesters) /\ WF_vars(ReceiveEnds)

Spec     == Init /\ [][Next]_vars
FairSpec == Spec /\ Fairness

-----------------------------------------------------------------------------
\* Whatever fails, sendHttpRequest returns with everything it took released,
\* once.
NothingIsHeld ==
  /\ \A r \in Resources : res[r] # "twice"
  /\ at \in {"returned", "idle"} => \A r \in Resources : res[r] # "held"

\* A request to an https server never leaves unencrypted, whichever part of
\* OpenSSL fails.
TlsIsNotDropped == https => sentBy # "plain"

\* A caller succeeds only if the server said 200 to this very request.
SuccessIsAnswered == outcome = "ok" => answer.status = 200 /\ sentBy # "nothing"

\* Every request comes to an end, also when the server falls silent.
RequestsReturn == []<>(at = "idle")

=============================================================================
