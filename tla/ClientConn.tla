----------------------------- MODULE ClientConn -----------------------------
(***************************************************************************)
(* A client's connection, from its first byte to its end: the detection of *)
(* its protocol (capture/processors/registry.go), the loop over its HTTP/1 *)
(* requests, and what takes the connection over from the loop: CONNECT     *)
(* with its blind tunnel, TLS, HTTP/2 and WebSocket (processor.go,         *)
(* proxy_auth.go, tunnel.go, tls.go and h2.go under                        *)
(* capture/processors/http, websocket.go below it).                        *)
(*                                                                         *)
(* One goroutine reads requests one after another and answers each before  *)
(* it reads the next.  The deadlines of the connection are what lets it go *)
(* of a client that falls silent.  Settings (the credentials the listener  *)
(* demands, the scope of decryption) may change at any time.               *)
(*                                                                         *)
(* What happens to a request between its body and its answer is the        *)
(* subject of FlowPipeline, the frames of a WebSocket of WebSocket.        *)
(* Timeouts are configured; time is not modelled: a deadline that is set   *)
(* ends a wait whenever it likes.                                          *)
(***************************************************************************)
EXTENDS Integers, FiniteSets

CONSTANT MaxRequests   \* bound on the requests of the connection

ASSUME RequestsBounded == MaxRequests \in Nat

Kinds == {"plain", "connect", "websocket", "cert"}

(* The two copies of a request's headers (readRequestPreservingOrder): the *)
(* table, and the sequence as it was sent.                                 *)
HeaderCopies == {"table", "raw"}

(* A request: its kind, its body, whether it asks for the connection to be *)
(* closed, its proxy credentials and the header copies that hold them.     *)
ClientRequest ==
  [kind : Kinds, body : {"none", "whole", "broken"}, close : BOOLEAN,
   creds : {"none", "right", "wrong"}, shown : SUBSET HeaderCopies]
NoRequest == [kind |-> "none"]

VARIABLES
  at,          \* where the goroutine is
  request,     \* p.request
  proxyTunnel, closeAfterResponse,
  verified,    \* history: the request, or the CONNECT around it, passed the check
  bodyLeft,    \* part of the request's body has not been read
  readErr,     \* reading it failed
  readBy,      \* the read deadline: "none" or "set"
  writeBy,     \* the write deadline: "none", "set" for this answer, "old" for an earlier one
  copying,     \* the directions the blind tunnel still copies
  bothClosed,  \* the tunnel closed both connections
  auth,        \* the listener's credentials: "off", "on", or "half" configured
  silent,      \* the client will neither send nor read any more
  requests,    \* how many it has sent
  effects,     \* history: what requests have caused: [what, verified, shown]
  lateWrite    \* history: something was written under an old deadline

connVars == <<at, request, proxyTunnel, closeAfterResponse, verified, bodyLeft, readErr, readBy,
              writeBy, copying, bothClosed, auth, silent, requests, effects, lateWrite>>

Places == {"detect", "detect more", "read", "check", "challenge", "connect", "scope", "peek",
           "handshake", "dial", "tunnel", "await", "upgrade", "refused", "websocket", "h2",
           "handle", "answer", "relay", "after", "done"}

ConnTypeOK ==
  /\ at \in Places
  /\ request \in ClientRequest \cup {NoRequest}
  /\ proxyTunnel \in BOOLEAN /\ closeAfterResponse \in BOOLEAN /\ verified \in BOOLEAN
  /\ bodyLeft \in BOOLEAN /\ readErr \in BOOLEAN /\ bothClosed \in BOOLEAN
  /\ silent \in BOOLEAN /\ lateWrite \in BOOLEAN
  /\ readBy \in {"none", "set"} /\ writeBy \in {"none", "set", "old"}
  /\ copying \subseteq {"up", "down"}
  /\ auth \in {"off", "on", "half"}
  /\ requests \in 0..MaxRequests
  /\ effects \subseteq [what : {"recorded", "dialled", "profile"}, verified : BOOLEAN,
                        shown : SUBSET HeaderCopies]

ConnInit ==
  /\ at = "detect" /\ request = NoRequest
  /\ proxyTunnel = FALSE /\ closeAfterResponse = FALSE /\ verified = FALSE
  /\ bodyLeft = FALSE /\ readErr = FALSE
  /\ readBy = "none" /\ writeBy = "none"
  /\ copying = {} /\ bothClosed = FALSE
  /\ auth \in {"off", "on"}
  /\ silent = FALSE /\ requests = 0 /\ effects = {} /\ lateWrite = FALSE

loopVars   == <<request, proxyTunnel, closeAfterResponse, verified>>
bodyVars   == <<bodyLeft, readErr>>
tunnelVars == <<copying, bothClosed>>
peerVarsC  == <<auth, silent, requests>>
history    == <<effects, lateWrite>>

-----------------------------------------------------------------------------
(* Deadlines.  An answer written long ago leaves its deadline behind.      *)
Aged == IF writeBy = "set" THEN "old" ELSE writeBy

(* The top of the loop: armReadDeadline, then the next request's head.     *)
AwaitRequest == at' = "read" /\ writeBy' = Aged /\ readBy' = "set"

ClearDeadlines == readBy' = "none" /\ writeBy' = "none"

(* Something is written to the client under the deadline then in force.    *)
Written(by) == lateWrite' = (lateWrite \/ by = "old")

Causes(what) ==
  effects' = effects \cup {[what |-> what, verified |-> verified, shown |-> request.shown]}

-----------------------------------------------------------------------------
(* DetectProtocol.  Bytes that are not the start of an HTTP request go to  *)
(* processors that do nothing; some first bytes have it wait for more.     *)
Detect ==
  /\ at = "detect" /\ ~silent
  /\ \/ AwaitRequest
     \/ at' \in {"detect more", "done"} /\ UNCHANGED <<readBy, writeBy>>
  /\ UNCHANGED <<loopVars, bodyVars, tunnelVars, peerVarsC, history>>

DetectMore ==
  /\ at = "detect more" /\ ~silent
  /\ at' = "done"
  /\ UNCHANGED <<loopVars, bodyVars, readBy, writeBy, tunnelVars, peerVarsC, history>>

(* readRequestPreservingOrder.                                             *)
ReadRequest ==
  /\ at = "read" /\ ~silent /\ requests < MaxRequests
  /\ \E r \in ClientRequest :
       /\ r.shown = IF r.creds = "none" THEN {} ELSE HeaderCopies
       /\ r.kind = "connect" => r.body = "none"
       /\ request' = r
       /\ bodyLeft' = (r.body # "none")
  /\ requests' = requests + 1
  /\ readErr' = FALSE
  /\ verified' = (verified /\ proxyTunnel)
  /\ at' = "check"
  /\ UNCHANGED <<proxyTunnel, closeAfterResponse, readBy, writeBy, tunnelVars, auth, silent, history>>

(* The head does not come: the client closes, sends something else, or the *)
(* deadline passes.                                                        *)
ReadRequestFails ==
  /\ at = "read"
  /\ ~silent \/ readBy = "set"
  /\ at' = "done"
  /\ UNCHANGED <<loopVars, bodyVars, readBy, writeBy, tunnelVars, peerVarsC, history>>

-----------------------------------------------------------------------------
(* checkProxyAuthorization: a listener whose credentials are incomplete    *)
(* refuses everyone.                                                       *)
Authorized(r) == auth = "off" \/ (auth = "on" /\ r.creds = "right")

(* Mutant of MustShowCredentials: a connection is asked once.              *)
MustShowCredentialsOnce == ~proxyTunnel /\ requests = 1

(* Requests inside a tunnel are not asked again.                           *)
MustShowCredentials == ~proxyTunnel

(* stripProxyAuthorization.                                                *)
Stripped(r) == [r EXCEPT !.shown = {}]

(* The check, before anything the request could cause; then it goes where  *)
(* its kind says.                                                          *)
CheckAuthorization ==
  /\ at = "check"
  /\ verified' = (verified \/ Authorized(request))
  /\ IF MustShowCredentials /\ ~Authorized(request)
     THEN /\ closeAfterResponse' = TRUE
          /\ writeBy' = "set"
          /\ at' = "challenge"
          /\ UNCHANGED request
     ELSE /\ request' = Stripped(request)
          /\ closeAfterResponse' = FALSE
          /\ at' = CASE request.kind = "connect" -> "connect"
                     [] request.kind = "websocket" -> "dial"
                     [] OTHER -> "handle"
          /\ UNCHANGED writeBy
  /\ UNCHANGED <<proxyTunnel, bodyVars, readBy, tunnelVars, peerVarsC, history>>

(* writeProxyAuthChallenge, whether it can be written or not.              *)
Challenge ==
  /\ at = "challenge"
  /\ Written(writeBy)
  /\ at' = "done"
  /\ UNCHANGED <<loopVars, bodyVars, readBy, writeBy, tunnelVars, peerVarsC, effects>>

-----------------------------------------------------------------------------
(* handleConnect: the reply, then the scope of decryption decides.         *)
HandleConnect ==
  /\ at = "connect"
  /\ proxyTunnel' = TRUE
  /\ Written("set")
  /\ \/ at' = "scope" /\ ClearDeadlines
     \/ at' = "done" /\ writeBy' = "set" /\ UNCHANGED readBy
  /\ UNCHANGED <<request, closeAfterResponse, verified, bodyVars, tunnelVars, peerVarsC, effects>>

DecideScope ==
  /\ at = "scope"
  /\ at' \in {"peek", "dial"}
  /\ UNCHANGED <<loopVars, bodyVars, readBy, writeBy, tunnelVars, peerVarsC, history>>

(* The first byte tells TLS from HTTP in the clear; there is no deadline.  *)
PeekProtocol ==
  /\ at = "peek" /\ ~silent
  /\ \/ AwaitRequest
     \/ at' = "handshake" /\ readBy' = "set" /\ writeBy' = "set"
     \/ at' = "done" /\ UNCHANGED <<readBy, writeBy>>
  /\ UNCHANGED <<loopVars, bodyVars, tunnelVars, peerVarsC, history>>

(* handleTlsHandshake: a failure is recorded; HTTP/2 takes the connection  *)
(* over; otherwise the loop starts again inside.                           *)
Handshake ==
  /\ at = "handshake"
  /\ \/ /\ at' = "done"
        /\ Causes("recorded")
        /\ UNCHANGED <<request, readBy, writeBy>>
     \/ /\ at' = "h2"
        /\ ClearDeadlines
        /\ UNCHANGED <<request, effects>>
     \/ /\ at' = "read" /\ writeBy' = "none" /\ readBy' = "set"
        /\ request' = NoRequest
        /\ UNCHANGED effects
  /\ UNCHANGED <<proxyTunnel, closeAfterResponse, verified, bodyVars, tunnelVars, peerVarsC, lateWrite>>

(* dialTunnelTarget, whose CONNECT through a proxy is under the deadline   *)
(* too, or the dialling of a WebSocket's upstream, TLS included; its       *)
(* failure is answered.                                                    *)
DialTarget ==
  /\ at = "dial"
  /\ Causes("dialled")
  /\ IF request.kind = "connect"
     THEN /\ \/ at' = "done" /\ UNCHANGED <<readBy, writeBy, copying>>
             \/ at' = "tunnel" /\ ClearDeadlines /\ copying' = {"up", "down"}
          /\ UNCHANGED lateWrite
     ELSE /\ \/ at' = "done" /\ writeBy' = "set" /\ Written("set")
             \/ at' = "await" /\ UNCHANGED <<writeBy, lateWrite>>
          /\ UNCHANGED <<readBy, copying>>
  /\ UNCHANGED <<loopVars, bodyVars, bothClosed, peerVarsC>>

(* The handshake is written and the upstream's answer to it read, under no *)
(* deadline at all; the answer, or the failure, goes to the client.        *)
AwaitUpgrade ==
  /\ at = "await"
  /\ writeBy' = "set" /\ Written("set")
  /\ at' \in {"done", "upgrade"}
  /\ UNCHANGED <<loopVars, bodyVars, readBy, tunnelVars, peerVarsC, effects>>

(* The upstream's answer to the upgrade has been passed on.                *)
Upgrade ==
  /\ at = "upgrade"
  /\ \/ at' = "websocket" /\ ClearDeadlines
     \/ at' = "refused" /\ UNCHANGED <<readBy, writeBy>>
  /\ UNCHANGED <<loopVars, bodyVars, tunnelVars, peerVarsC, history>>

(* What an upstream says after a refusal is copied until it ends or the    *)
(* client's write deadline has passed; reading it has no deadline.         *)
RefusalEnds ==
  /\ at = "refused"
  /\ at' = "done"
  /\ UNCHANGED <<loopVars, bodyVars, readBy, writeBy, tunnelVars, peerVarsC, history>>

(* A WebSocket or an HTTP/2 connection ends when a peer ends it.           *)
TakeoverEnds ==
  /\ at \in {"websocket", "h2"} /\ ~silent
  /\ at' = "done"
  /\ UNCHANGED <<loopVars, bodyVars, readBy, writeBy, tunnelVars, peerVarsC, history>>

-----------------------------------------------------------------------------
(* The blind tunnel.  A direction ends with its source, with a failed      *)
(* write, or because the connections were closed under it.                 *)
CopyEnds(way) ==
  /\ at = "tunnel" /\ way \in copying
  /\ copying' = copying \ {way}
  /\ UNCHANGED <<at, loopVars, bodyVars, readBy, writeBy, bothClosed, peerVarsC, history>>

CopyIsCut(way) == bothClosed /\ CopyEnds(way)

CloseBoth ==
  /\ at = "tunnel" /\ copying # {"up", "down"} /\ ~bothClosed
  /\ bothClosed' = TRUE
  /\ UNCHANGED <<at, loopVars, bodyVars, readBy, writeBy, copying, peerVarsC, history>>

TunnelEnds ==
  /\ at = "tunnel" /\ bothClosed /\ copying = {}
  /\ at' = "done"
  /\ UNCHANGED <<loopVars, bodyVars, readBy, writeBy, tunnelVars, peerVarsC, history>>

-----------------------------------------------------------------------------
(* handleRequest.  The certificate profile is served without looking at    *)
(* the body, and the connection closed after it.  Otherwise the body is    *)
(* read, each read under a deadline of its own, and the flow recorded; a   *)
(* body that cannot be read to its end is refused, any other goes to the   *)
(* upstream, unless a hook answers.  The client of a stream or of a large  *)
(* body has no timeout for the whole exchange ("relay").                   *)
HandleRequest ==
  /\ at = "handle"
  /\ IF request.kind = "cert"
     THEN /\ at' = "answer"
          /\ closeAfterResponse' = TRUE
          /\ Causes("profile")
          /\ UNCHANGED <<bodyVars, readBy>>
     ELSE /\ readErr' = (request.body = "broken" \/ (silent /\ request.body = "whole"))
          /\ bodyLeft' = readErr'
          /\ readBy' = IF request.body = "none" THEN readBy ELSE "set"
          /\ closeAfterResponse' = (closeAfterResponse \/ readErr')
          /\ \/ at' = "answer" /\ Causes("recorded")
             \/ /\ ~readErr'
                /\ at' \in {"answer", "relay"}
                /\ effects' = effects \cup
                     {[what |-> w, verified |-> verified, shown |-> request.shown] :
                        w \in {"recorded", "dialled"}}
  /\ UNCHANGED <<request, proxyTunnel, verified, writeBy, tunnelVars, peerVarsC, lateWrite>>

(* armWriteDeadline, clientWriter.                                         *)
WriteDeadline == "set"

(* The answer is written; a write error ends the connection, and so do an  *)
(* abort without a status and an answer that was cut short, which leave    *)
(* closeAfterResponse set.                                                 *)
Answer ==
  /\ writeBy' = WriteDeadline
  /\ Written(writeBy')
  /\ closeAfterResponse' \in {closeAfterResponse, TRUE}
  /\ at' \in {"after", "done"}
  /\ UNCHANGED <<request, proxyTunnel, verified, bodyVars, readBy, tunnelVars, peerVarsC, effects>>

AnswerClient == at = "answer" /\ Answer

(* The answer of an upstream that may say nothing for as long as it likes. *)
RelayAnswer == at = "relay" /\ Answer

MayReadOn == ~(request.close \/ closeAfterResponse \/ readErr)

AfterRequest ==
  /\ at = "after"
  /\ IF MayReadOn THEN AwaitRequest ELSE at' = "done" /\ UNCHANGED <<readBy, writeBy>>
  /\ UNCHANGED <<loopVars, bodyVars, tunnelVars, peerVarsC, history>>

-----------------------------------------------------------------------------
FallSilent ==
  /\ ~silent
  /\ silent' = TRUE
  /\ UNCHANGED <<at, loopVars, bodyVars, readBy, writeBy, tunnelVars, auth, requests, history>>

SetProxyAuth(a) ==
  /\ a # auth
  /\ auth' = a
  /\ UNCHANGED <<at, loopVars, bodyVars, readBy, writeBy, tunnelVars, silent, requests, history>>

(* What the goroutines do without the client and without an upstream that  *)
(* may keep them waiting for ever.                                         *)
ConnRuns ==
  \/ CheckAuthorization \/ Challenge \/ HandleConnect \/ DecideScope \/ Handshake \/ DialTarget \/ Upgrade
  \/ CloseBoth \/ TunnelEnds \/ HandleRequest \/ AnswerClient \/ AfterRequest
  \/ \E way \in {"up", "down"} : CopyIsCut(way)

ConnNext ==
  \/ ConnRuns \/ AwaitUpgrade \/ RefusalEnds \/ RelayAnswer \/ Detect \/ DetectMore \/ ReadRequest \/ ReadRequestFails \/ PeekProtocol
  \/ TakeoverEnds \/ FallSilent
  \/ \E way \in {"up", "down"} : CopyEnds(way)
  \/ \E a \in {"off", "on", "half"} : SetProxyAuth(a)

(* The goroutines run, and deadlines pass: the client's, those of dialling *)
(* and the timeout of an ordinary exchange.  Nothing is assumed of an      *)
(* upstream that is read without one.                                      *)
ConnFairness ==
  /\ WF_connVars(ConnRuns)
  /\ WF_connVars(readBy = "set" /\ ReadRequestFails)

ConnSpec == ConnInit /\ [][ConnNext]_connVars /\ ConnFairness

-----------------------------------------------------------------------------
(* No request gets anything done, is recorded or reaches an upstream       *)
(* unless it or the CONNECT around it passed the check under the           *)
(* credentials in force when it was read, and none takes its proxy         *)
(* credentials along (processor.go:205 and :216).  The next request is     *)
(* never read in the middle of a body (processor.go:235).  Nothing is      *)
(* written under the deadline of an earlier answer, which may have passed  *)
(* (processor.go:262), and the loop never waits for a head without one.    *)
ConnSound ==
  /\ ConnTypeOK
  /\ \A e \in effects : e.verified /\ e.shown = {}
  /\ at = "read" => ~bodyLeft /\ readBy = "set"
  /\ ~lateWrite

(* A connection lets go of a client that has fallen silent, except while   *)
(* it waits for the first bytes, outside or in a CONNECT, after it was     *)
(* taken over (processor.go:199), and while an upstream is read that no    *)
(* timeout ends: its answer to an upgrade, what follows a refusal, and a   *)
(* relay without a timeout; and a tunnel of which one side has ended ends  *)
(* (tunnel.go:72).                                                         *)
ConnEnds ==
  /\ silent ~> at \in {"done", "detect", "detect more", "peek", "tunnel", "websocket", "h2",
                       "await", "refused", "relay"}
  /\ at = "tunnel" /\ copying # {"up", "down"} ~> at = "done"
=============================================================================
