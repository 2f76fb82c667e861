---------------------------- MODULE FlowPipeline ----------------------------
(***************************************************************************)
(* The life of one captured exchange: runFlowPipeline and the three relays *)
(* it hands over to (capture/processors/http: flow_pipeline.go,            *)
(* streaming.go, passthrough.go), the responders that write to the client  *)
(* (processor.go, h2.go) and the end of the HTTP/1 and HTTP/2 loops.       *)
(*                                                                         *)
(* Every exchange runs in a goroutine of its own; the exchanges meet in    *)
(* the breakpoint manager, whose module this one composes.  The manager    *)
(* sees a handler only through Pause and through f.State.                  *)
(*                                                                         *)
(* The straight-line code that ends an exchange (record it, write to the   *)
(* client, return) is the sequence `todo` of the calls still to be made,   *)
(* taken one at a time: their order is the code's.                         *)
(***************************************************************************)
EXTENDS Decisions, FiniteSets

CONSTANTS
  Flows, Calls, MaxOpen,  \* as in Breakpoint
  Protocols,              \* {"h1", "h2"}: a bound for TLC
  HookRuns,               \* sequences of hook results to try: a bound for TLC
  Bodies                  \* response bodies to try, of Relayed and "buffered"

None     == "none"
Streamed == {"stream", "grpc"}
Relayed  == Streamed \cup {"passthrough"}
Routes   == Relayed \cup {"buffered", "mock", "incomplete", None}
Written  == {"whole", "refusal", "bad_gateway"}   \* a complete reply ...
Partial  == {"head", "body"}                      \* ... and a cut one

ASSUME PipelineAssumption ==
  /\ MaxOpen \in Nat
  /\ Protocols \subseteq {"h1", "h2"}
  /\ HookRuns \subseteq Seq(Results)
  /\ Bodies \subseteq Relayed \cup {"buffered"}

VARIABLES
  paused, chan, state, prev, step, at, taken, modified, announced,
  callStep, callPause, callAnswer,   \* of Breakpoint
  ex                                 \* the local state of each exchange

BP == INSTANCE Breakpoint
        WITH HandlerStates <- {"pending", "awaiting_response", "completed",
                               "mocked", "blocked", "errored"}

bpVars == <<paused, chan, state, prev, step, at, taken, modified, announced,
            callStep, callPause, callAnswer>>
vars   == <<bpVars, ex>>

Exchange ==
  [proto    : {"h1", "h2", None},
   pc       : {"new", "body", "hooks", "paused", "decide", "upstream",
               "relay", "reply", "done"},
   phase    : {"request", "response"},
   verdict  : {"continue", "mock"} \cup Aborts,  \* of the hooks, then of the pause
   route    : Routes,                 \* which of the code's paths the reply takes
   upstream : BOOLEAN,                \* the request was handed to the client
   timed    : BOOLEAN,                \* ... to the one with a total timeout
   cut      : BOOLEAN,                \* the body read into memory broke off
   todo     : Seq({"finish", "write", "bad_gateway"} \cup Aborts),
   wire     : Written \cup Partial \cup {"short", None},  \* what the peer has received
   noReuse  : BOOLEAN,                \* closeAfterResponse
   err      : BOOLEAN,                \* what runFlowPipeline returns
   entry    : {"open", "committed", "aborted", None},  \* of the body cache
   recorded : Seq(BP!States),         \* f.State at every RecordFlowCompleted
   outcome  : {"kept", "closed", "ended", "reset", None}]

TypeOK == BP!TypeOK /\ ex \in [Flows -> Exchange]

Init ==
  /\ BP!Init
  /\ ex = [f \in Flows |->
       [proto |-> None, pc |-> "new", phase |-> "request", verdict |-> "continue",
        route |-> None, upstream |-> FALSE, timed |-> FALSE, cut |-> FALSE,
        todo |-> <<>>, wire |-> None,
        noReuse |-> FALSE, err |-> FALSE, entry |-> None, recorded |-> <<>>,
        outcome |-> None]]

(* A handler writes f.State and calls Pause where its code does; that this *)
(* is a moment when the manager allows it is what UsesManager says.        *)
SetState(f, s) ==
  /\ state' = [state EXCEPT ![f] = s]
  /\ UNCHANGED <<paused, chan, prev, step, at, taken, modified, announced,
                 callStep, callPause, callAnswer>>

CallPause(f, ph) == BP!PauseFull(f, ph) \/ BP!Publish(f, ph)

-----------------------------------------------------------------------------
(* The request is read.  A gRPC call over h2 is taken over before its body *)
(* is read.                                                                *)
Start(f) ==
  /\ ex[f].pc = "new"
  /\ \E p \in Protocols :
       \/ ex' = [ex EXCEPT ![f].proto = p, ![f].pc = "body"]
       \/ /\ p = "h2" /\ "grpc" \in Bodies
          /\ ex' = [ex EXCEPT ![f].proto = p, ![f].pc = "hooks", ![f].route = "grpc"]
  /\ UNCHANGED bpVars

ReadBody(f) ==
  /\ ex[f].pc = "body"
  /\ ex' = [ex EXCEPT ![f].pc = "hooks"]
  /\ UNCHANGED bpVars

(* A request cut short is never forwarded: it is recorded as errored and   *)
(* refused.                                                                *)
RefuseIncomplete(f) ==
  /\ ex[f].pc = "body"
  /\ SetState(f, "errored")
  /\ ex' = [ex EXCEPT ![f].pc = "reply", ![f].todo = <<"finish", "abort_status">>,
                      ![f].route = "incomplete", ![f].noReuse = TRUE]

Chain(phase, results) ==
  IF phase = "request" THEN OnRequest(results) ELSE OnResponse(results)

(* OnRequest or OnResponse up to the pause.  `hit` is what ShouldBreakFor  *)
(* says of the URL; an abort does not pause.                               *)
RunPhase(f, results, hit) ==
  LET run == Chain(ex[f].phase, results)
      pauses == run.decision.is \notin Aborts /\ (run.pause \/ hit)
  IN /\ ex[f].pc = "hooks"
     /\ IF pauses THEN CallPause(f, ex[f].phase) ELSE UNCHANGED bpVars
     /\ ex' = [ex EXCEPT ![f].verdict = run.decision.is,
                         ![f].pc = IF pauses THEN "paused" ELSE "decide"]

(* Mutant of AfterPause: the handler does not wait for Pause to return.    *)
AfterPauseEarly(f) ==
  /\ ex[f].pc = "paused"
  /\ ex' = [ex EXCEPT ![f].pc = "decide",
                      ![f].verdict = IF taken[<<f, ex[f].phase>>] = "abort"
                                     THEN "abort_close" ELSE @]
  /\ UNCHANGED bpVars

(* Pause has returned: an abort at the breakpoint replaces the decision,   *)
(* anything else leaves it as the hooks made it.                           *)
AfterPause(f) ==
  /\ ex[f].pc = "paused"
  /\ step[f] = "idle"
  /\ ex' = [ex EXCEPT ![f].pc = "decide",
                      ![f].verdict = IF taken[<<f, ex[f].phase>>] = "abort"
                                     THEN "abort_close" ELSE @]
  /\ UNCHANGED bpVars

-----------------------------------------------------------------------------
(* What the decision of a phase leads to.                                  *)

(* Mutant of Blocked: the reply is written before the exchange is recorded.*)
BlockedRepliesFirst(f) ==
  /\ ex[f].verdict \in Aborts
  /\ SetState(f, "blocked")
  /\ ex' = [ex EXCEPT ![f].pc = "reply", ![f].todo = <<ex[f].verdict, "finish">>]

Blocked(f) ==
  /\ ex[f].verdict \in Aborts
  /\ SetState(f, "blocked")
  /\ ex' = [ex EXCEPT ![f].pc = "reply", ![f].todo = <<"finish", ex[f].verdict>>]

(* A mock goes through the response hooks, but a gRPC call is never mocked.*)
Mocked(f) ==
  /\ ex[f].verdict = "mock"
  /\ ex[f].route # "grpc"
  /\ SetState(f, "mocked")
  /\ ex' = [ex EXCEPT ![f].pc = "hooks", ![f].phase = "response", ![f].route = "mock"]

(* A gRPC call, and a request that asks for a stream or for something      *)
(* large, goes out by the client that has no total timeout.                *)
Forwarded(f) ==
  /\ ex[f].verdict \notin Aborts
  /\ ex[f].verdict = "mock" => ex[f].route = "grpc"
  /\ IF ex[f].route = "grpc" THEN UNCHANGED bpVars
                             ELSE SetState(f, "awaiting_response")
  /\ \E timed \in BOOLEAN :
       /\ timed => ex[f].route # "grpc"
       /\ ex' = [ex EXCEPT ![f].pc = "upstream", ![f].upstream = TRUE,
                           ![f].timed = timed]

DecideRequest(f) ==
  /\ ex[f].pc = "decide"
  /\ ex[f].phase = "request"
  /\ Blocked(f) \/ Mocked(f) \/ Forwarded(f)

(* client.Do failed.  (Both responders can relay a stream.)                *)
NoAnswer(f) ==
  /\ ex[f].pc = "upstream"
  /\ SetState(f, "errored")
  /\ ex' = [ex EXCEPT ![f].pc = "reply", ![f].todo = <<"finish", "bad_gateway">>]

(* The answer's head is here, and tells how the body will be delivered;    *)
(* one that is buffered is read here to its end, or to where it breaks     *)
(* off, which nobody is told (flow/http.go:167).  f.State is completed     *)
(* from here on, except for gRPC.                                          *)
Answered(f) ==
  /\ ex[f].pc = "upstream"
  /\ \/ /\ ex[f].route = "grpc"
        /\ ex' = [ex EXCEPT ![f].pc = "hooks", ![f].phase = "response"]
        /\ UNCHANGED bpVars
     \/ /\ ex[f].route # "grpc"
        /\ \E b \in Bodies \ {"grpc"}, cut \in BOOLEAN :
             /\ cut => b = "buffered"
             /\ ex' = [ex EXCEPT ![f].pc = "hooks", ![f].phase = "response",
                                 ![f].route = b, ![f].cut = cut]
        /\ SetState(f, "completed")

(* The decision taken on a mocked response is not looked at.               *)
SendResponse(f) ==
  /\ \/ ex[f].route = "mock"
     \/ ex[f].route = "buffered" /\ ex[f].verdict \notin Aborts
  /\ ex' = [ex EXCEPT ![f].pc = "reply", ![f].todo = <<"write", "finish">>]
  /\ UNCHANGED bpVars

SendHead(f) ==
  /\ ex[f].route \in Relayed
  /\ ex[f].verdict \notin Aborts
  /\ ex' = [ex EXCEPT ![f].pc = "relay", ![f].wire = "head",
                      ![f].entry = IF ex[f].route = "passthrough" THEN "open" ELSE @]
  /\ UNCHANGED bpVars

HeadFails(f) ==
  /\ ex[f].route \in Relayed
  /\ ex[f].verdict \notin Aborts
  /\ SetState(f, "errored")
  /\ ex' = [ex EXCEPT ![f].pc = "reply", ![f].todo = <<"finish">>,
                      ![f].noReuse = TRUE, ![f].err = TRUE]

DecideResponse(f) ==
  /\ ex[f].pc = "decide"
  /\ ex[f].phase = "response"
  /\ \/ ex[f].route # "mock" /\ Blocked(f)
     \/ SendResponse(f)
     \/ SendHead(f)
     \/ HeadFails(f)

-----------------------------------------------------------------------------
(* The relay of a body, from the first byte to the last: the bytes that    *)
(* pass meanwhile are left out.                                            *)

RelayEnds(f, s, wire, entry, failed) ==
  /\ SetState(f, s)
  /\ ex' = [ex EXCEPT ![f].pc = "reply", ![f].todo = <<"finish">>,
                      ![f].wire = wire, ![f].noReuse = @ \/ failed,
                      ![f].err = failed,
                      ![f].entry = IF ex[f].route = "passthrough" THEN entry ELSE @]

RelayWhole(f) == RelayEnds(f, "completed", "whole", "committed", FALSE)

(* A hook aborts one message of a stream.                                  *)
RelayCut(f) ==
  /\ ex[f].route \in Streamed
  /\ RelayEnds(f, "blocked", "head", None, TRUE)

(* Mutant of RelayBroken: a short body is treated like a whole one.        *)
RelayBrokenUnnoticed(f) == RelayEnds(f, "completed", "head", "committed", FALSE)

(* One side fails in the middle of the body.                               *)
RelayBroken(f) == RelayEnds(f, "errored", "head", "aborted", TRUE)

(* The whole body has passed, the terminating chunk cannot be written.     *)
RelayUnterminated(f) == RelayEnds(f, "errored", "body", "committed", TRUE)

Relay(f) ==
  /\ ex[f].pc = "relay"
  /\ RelayWhole(f) \/ RelayCut(f) \/ RelayBroken(f) \/ RelayUnterminated(f)

-----------------------------------------------------------------------------
(* The calls that end an exchange.                                         *)
Calling(f, op) == ex[f].pc = "reply" /\ ex[f].todo # <<>> /\ Head(ex[f].todo) = op

Finish(f) ==
  /\ Calling(f, "finish")
  /\ ex' = [ex EXCEPT ![f].recorded = Append(@, state[f]), ![f].todo = Tail(@)]
  /\ UNCHANGED bpVars

Reply == [write |-> "whole", abort_status |-> "refusal", bad_gateway |-> "bad_gateway"]

(* A body that broke off is given the length of what came of it.           *)
ReplyOf(f, op) == IF op = "write" /\ ex[f].cut THEN "short" ELSE Reply[op]

WriteReply(f) ==
  /\ \E op \in DOMAIN Reply :
       /\ Calling(f, op)
       /\ ex' = [ex EXCEPT ![f].wire = ReplyOf(f, op), ![f].todo = Tail(@)]
  /\ UNCHANGED bpVars

(* The write fails, having sent a part of the reply or nothing.            *)
WriteFails(f) ==
  /\ \E op \in DOMAIN Reply, sent \in {"head", None} :
       /\ Calling(f, op)
       /\ ex' = [ex EXCEPT ![f].wire = sent, ![f].err = TRUE, ![f].todo = Tail(@),
                           ![f].noReuse = @ \/ op = "abort_status"]
  /\ UNCHANGED bpVars

(* An abort without a status writes nothing: HTTP/1 closes the connection  *)
(* later, HTTP/2 panics here and now with ErrAbortHandler, which skips     *)
(* whatever was still to be done except deferred calls, and resets the     *)
(* stream.                                                                 *)
CloseUnanswered(f) ==
  /\ Calling(f, "abort_close")
  /\ IF ex[f].proto = "h1"
     THEN ex' = [ex EXCEPT ![f].noReuse = TRUE, ![f].todo = Tail(@)]
     ELSE ex' = [ex EXCEPT ![f].err = TRUE, ![f].todo = <<>>]
  /\ UNCHANGED bpVars

(* What becomes of the connection (HTTP/1) or of the stream (HTTP/2);      *)
(* `asked` is request.Close.                                               *)
Ends(f, asked) ==
  IF ex[f].proto = "h2" THEN (IF ex[f].err THEN "reset" ELSE "ended")
  ELSE IF ex[f].err \/ asked \/ ex[f].noReuse \/ ex[f].route = "incomplete"
       THEN "closed" ELSE "kept"

Return(f) ==
  /\ ex[f].pc = "reply"
  /\ ex[f].todo = <<>>
  /\ \E asked \in BOOLEAN :
       ex' = [ex EXCEPT ![f].pc = "done", ![f].outcome = Ends(f, asked)]
  /\ UNCHANGED bpVars

-----------------------------------------------------------------------------
(* The emitter of the product publishes on the event bus and never panics, *)
(* so a handler inside Pause takes every step but EmitPanics.              *)
InPause(f) == /\ \/ BP!EmitHit(f) \/ BP!Receive(f) \/ BP!TimeOut(f)
                 \/ BP!Unpublish(f) \/ BP!Resolve(f)
              /\ UNCHANGED ex

UI == /\ \/ \E c \in Calls, f \in Flows, a \in BP!Answers : BP!Lookup(c, f, a)
         \/ \E c \in Calls : BP!Send(c)
      /\ UNCHANGED ex

Conclude(f) == Finish(f) \/ WriteReply(f) \/ WriteFails(f) \/ CloseUnanswered(f)
               \/ Return(f)

(* A handler's own steps, and those it waits for the upstream to make.     *)
Handler(f) ==
  \/ ReadBody(f) \/ RefuseIncomplete(f)
  \/ \E results \in HookRuns, hit \in BOOLEAN : RunPhase(f, results, hit)
  \/ AfterPause(f) \/ DecideRequest(f) \/ DecideResponse(f) \/ Conclude(f)
Upstream(f) == NoAnswer(f) \/ Answered(f) \/ Relay(f)

Next == (\E f \in Flows : Start(f) \/ Handler(f) \/ Upstream(f) \/ InPause(f)) \/ UI

(* Where an exchange may stay for ever.  Without a total timeout nothing   *)
(* bounds the upstream's answer: the read deadline is cleared after its    *)
(* head (transport.go:450).                                                *)
AwaitsUpstream(f) == ~ex[f].timed /\ ex[f].pc \in {"upstream", "relay"}

(* An HTTP/2 client opens its window when it likes: h2.go sets no          *)
(* WriteTimeout.                                                           *)
AwaitsWindow(f) ==
  /\ ex[f].proto = "h2"
  /\ ex[f].pc = "relay" \/ \E op \in DOMAIN Reply : Calling(f, op)

(* The deferred Close of a body that was not read to its end reads the     *)
(* rest, and has taken the guard of the timeout away (transport.go:552).   *)
(* A gRPC call has been cancelled before.                                  *)
Drains(f) ==
  /\ ex[f].pc = "reply" /\ ex[f].todo = <<>> /\ ex[f].phase = "response"
  /\ ex[f].route \in Relayed \ {"grpc"}
  /\ ex[f].wire \notin {"whole", "body"}

MayLast(f) == AwaitsUpstream(f) \/ AwaitsWindow(f) \/ Drains(f)

(* Goroutines keep running and the timer of the select in Pause fires; all *)
(* other reads and writes of the handler have a deadline, and a timed      *)
(* client.Do its timeout, which covers the body.  Nothing makes the UI     *)
(* call.                                                                   *)
Fairness ==
  /\ \A f \in Flows : /\ WF_vars(~MayLast(f) /\ Handler(f))
                      /\ WF_vars(InPause(f))
                      /\ WF_vars(~MayLast(f) /\ Upstream(f))
  /\ \A c \in Calls : WF_vars(BP!Send(c) /\ UNCHANGED ex)

Spec     == Init /\ [][Next]_vars
FairSpec == Spec /\ Fairness

-----------------------------------------------------------------------------
Aborted(f, ph) == taken[<<f, ph>>] = "abort"

Final == {"completed", "mocked", "blocked", "errored"}

(* Every exchange is recorded as completed exactly once, whatever path it  *)
(* takes; in particular the panic that aborts an HTTP/2 stream does not    *)
(* skip the record (flow_pipeline.go:93).  It is recorded in a final       *)
(* state, but for a mock whose response was aborted at a breakpoint.       *)
RecordedOnce ==
  \A f \in Flows :
     /\ Len(ex[f].recorded) <= 1
     /\ ex[f].pc = "done" => Len(ex[f].recorded) = 1
     /\ ex[f].recorded # <<>> =>
          \/ ex[f].recorded[1] \in Final
          \/ ex[f].route = "mock" /\ Aborted(f, "response")

Delimited(e) == e.wire \in Written \/ (e.wire = "short" /\ e.route = "buffered")

(* A connection is used for another request, and a stream is ended rather  *)
(* than reset, only after one reply that ends where its length or its last *)
(* chunk says, to a request read to its end: the client can tell every     *)
(* reply that the proxy cut short (passthrough.go:328).  It cannot tell    *)
(* one the upstream cut short while the proxy was reading it into memory.  *)
CleanEnd ==
  \A f \in Flows : ex[f].outcome \in {"kept", "ended"} =>
     /\ Delimited(ex[f])
     /\ ex[f].outcome = "kept" => ex[f].route # "incomplete"

(* On whatever way an exchange leaves its handler, it is recorded once and *)
(* the connection is left so that its peer knows where it stands.          *)
ExchangeSound == TypeOK /\ RecordedOnce /\ CleanEnd

(* What the user aborts at the request breakpoint never reaches the        *)
(* upstream, and of a response aborted at the response breakpoint the      *)
(* client receives nothing.  (A mock aborted there is the exception, see   *)
(* RecordedStateIsFinal.)                                                  *)
AbortStopsBytes ==
  \A f \in Flows :
     /\ Aborted(f, "request") => ~ex[f].upstream /\ ex[f].wire = None
     /\ Aborted(f, "response") /\ ex[f].route # "mock" => ex[f].wire = None

(* The state the exchange is recorded with agrees with what the client     *)
(* got: a relayed body recorded as completed was delivered to its end, an  *)
(* errored one was not, a blocked one was refused, closed or cut, and a    *)
(* mocked one never was sent upstream.                                     *)
RecordAgrees ==
  \A f \in Flows : ex[f].pc = "done" =>
     LET s == ex[f].recorded[1] IN
     /\ s = "completed" /\ ex[f].route \in Relayed => ex[f].wire = "whole"
     /\ s = "errored" => ex[f].wire \notin {"whole", "short"}
     /\ s = "blocked" => ex[f].wire \in {"refusal", "head", None}
     /\ s = "mocked" => ~ex[f].upstream

(* The body cache commits whole bodies only and is left no open entry.     *)
CacheHoldsWholeBodies ==
  \A f \in Flows :
     /\ ex[f].entry = "committed" => ex[f].wire \in {"body", "whole"}
     /\ ex[f].pc = "done" => ex[f].entry # "open"

(* What is kept of an exchange, in its record and of its body, is what the *)
(* client saw (flow_pipeline.go:127-166, passthrough.go:316-357).          *)
RecordTells == RecordAgrees /\ CacheHoldsWholeBodies

(* The handlers use the manager as its own module says: they enter Pause   *)
(* once a phase and write f.State only outside it (breakpoint.go:287).     *)
UsesManager == BP!Spec

(* An exchange ends, however the user, the upstream and the client behave, *)
(* unless it comes to wait where the code sets no bound: for an upstream   *)
(* without a timeout, for the window of an HTTP/2 client, or for the rest  *)
(* of a body it does not want.                                             *)
EveryExchangeEnds ==
  \A f \in Flows : ex[f].pc # "new" ~> ex[f].pc = "done" \/ MayLast(f)

(* A Resume or Abort returns to its caller, whatever the handlers do.      *)
CallsReturn == BP!CallsReturn

(* Neither the exchange nor a caller of the user interface waits for ever. *)
ExchangesEnd == EveryExchangeEnds /\ CallsReturn

(* breakpoint_test.go:157 says of a pause that was aborted that the caller *)
(* turns it into a block and sets the final state.                         *)
RecordedStateIsFinal ==
  \A f \in Flows : ex[f].recorded # <<>> => ex[f].recorded[1] \in Final
=============================================================================
