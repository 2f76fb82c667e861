---------------------------- MODULE StreamRelay -----------------------------
(***************************************************************************)
(* The relay of a streamed exchange and the recorder of its session:       *)
(* runResponseStream, runGRPCStream, pumpResponseStream and streamRecorder *)
(* of capture/processors/http/streaming.go.                                *)
(*                                                                         *)
(* The handler goroutine relays the response.  In a bidirectional gRPC     *)
(* call a second goroutine, the pump, relays the request beside it,        *)
(* through a pipe from which the transport reads.  Both pass every message *)
(* through the hooks and the recorder, whose session they share: it is     *)
(* changed and copied under a lock, and the copy is handed to the sink     *)
(* (the store of stream sessions) after the lock was released.             *)
(*                                                                         *)
(* Recording is on, and the store keeps a session from its first copy to   *)
(* its last.  A write returns when the other side has read it: a peer that *)
(* stops reading for ever is left out.                                     *)
(*                                                                         *)
(* The messages of a direction are numbered from 1 in the order in which   *)
(* their sender sends them; Scanners says how bytes become messages.       *)
(***************************************************************************)
EXTENDS Integers, Sequences, SequencesExt, FiniteSets

CONSTANTS
  MaxFrames,   \* bound on the messages of each direction
  Window       \* maxStreamMessages

ASSUME WindowAssumption == Window \in Nat \ {0} /\ MaxFrames \in Nat

Handler == "handler"
Pump    == "pump"
Relays  == {Handler, Pump}

VARIABLES
  kind,      \* "grpc", or "response" for a response alone (SSE, chunks)
  pc,        \* where each goroutine is
  seq,       \* its local sequence number
  snap,      \* the copy of the session it still has to hand to the sink
  result,    \* how the handler's relay ended
  rec,       \* the session: [open, next, count, messages], <<>> before it is created
  stored,    \* the last copy the sink received, <<>> if none
  sent,      \* the messages the sender of each relay has sent so far
  ended,     \* how the sender has ended: "no", "eof", "error"
  read,      \* the messages each relay has read
  wire,      \* the messages each relay has passed on, in order
  head,      \* the upstream has sent the response's head
  pipe,      \* the read end of the pipe is open
  requestEnd,   \* how the request body ended for the upstream
  added      \* history: what was added to the session, in order

handlerVars == <<pc, seq, snap, result>>
peerVars  == <<sent, ended, head>>
relayVars      == <<kind, handlerVars, rec, stored, peerVars, read, wire, pipe, requestEnd, added>>

PCs == {"off", "start", "do", "answer", "head", "open", "status", "push_status", "read",
        "seq", "hook", "add", "push", "write", "finish", "close", "push_close", "done"}
Results == {"none", "whole", "blocked", "errored"}

Session == [open : BOOLEAN, next : Nat, count : Nat, messages : Seq(Relays \X Nat)]

RelayTypeOK ==
  /\ kind \in {"grpc", "response"}
  /\ pc \in [Relays -> PCs]
  /\ seq \in [Relays -> Nat]
  /\ snap \in [Relays -> Session \cup {<<>>}]
  /\ result \in Results
  /\ rec = <<>> \/ rec \in Session
  /\ stored = <<>> \/ stored \in Session
  /\ sent \in [Relays -> 0..MaxFrames]
  /\ ended \in [Relays -> {"no", "eof", "error"}]
  /\ read \in [Relays -> 0..MaxFrames]
  /\ wire \in [Relays -> Seq(1..MaxFrames)]
  /\ head \in BOOLEAN /\ pipe \in BOOLEAN
  /\ requestEnd \in {"no", "eof", "error"}
  /\ added \in Seq(Relays \X Nat)
  /\ kind = "response" => pc[Pump] = "off"

RelayInit ==
  /\ kind \in {"grpc", "response"}
  /\ pc = [g \in Relays |-> IF g = Handler THEN "start" ELSE "off"]
  /\ seq = [g \in Relays |-> 0]
  /\ snap = [g \in Relays |-> <<>>]
  /\ result = "none"
  /\ rec = <<>> /\ stored = <<>>
  /\ sent = [g \in Relays |-> 0]
  /\ ended = [g \in Relays |-> "no"]
  /\ read = [g \in Relays |-> 0]
  /\ wire = [g \in Relays |-> <<>>]
  /\ head = (kind = "response")
  /\ pipe = TRUE
  /\ requestEnd = "no"
  /\ added = <<>>

Goto(g, step) == pc' = [pc EXCEPT ![g] = step]
At(g, step)   == pc[g] = step

(* The handler ends the relay: what is left to do is to close the session, *)
(* if there is one.                                                        *)
Ends(r) ==
  /\ result' = r
  /\ Goto(Handler, IF rec = <<>> THEN "done" ELSE "close")

-----------------------------------------------------------------------------
(* The handler up to the first message.                                    *)

NewSession == [open |-> TRUE, next |-> 0, count |-> 0, messages |-> <<>>]

(* Mutant of TakeOver: the pump starts when the upstream has answered.     *)
TakeOverLate ==
  /\ At(Handler, "start") /\ kind = "grpc"
  /\ rec' = NewSession /\ stored' = NewSession
  /\ pc' = [pc EXCEPT ![Handler] = "do", ![Pump] = IF head THEN "read" ELSE "off"]
  /\ UNCHANGED <<kind, seq, snap, peerVars, result, read, wire, pipe, requestEnd, added>>

(* runGRPCStream takes the call over before it has read the body: it       *)
(* creates the session, starts the pump and calls the upstream, unless the *)
(* request hooks abort or the outgoing request cannot be built.            *)
TakeOver ==
  /\ At(Handler, "start") /\ kind = "grpc"
  /\ \/ /\ rec' = NewSession /\ stored' = NewSession
        /\ pc' = [pc EXCEPT ![Handler] = "do", ![Pump] = "read"]
        /\ UNCHANGED result
     \/ /\ rec' = NewSession /\ stored' = NewSession
        /\ pc' = [pc EXCEPT ![Handler] = "close"]
        /\ result' = "errored"
     \/ /\ Ends("blocked")
        /\ UNCHANGED <<rec, stored>>
  /\ UNCHANGED <<kind, seq, snap, peerVars, read, wire, pipe, requestEnd, added>>

(* client.Do returns.                                                      *)
Answer ==
  /\ At(Handler, "do")
  /\ \/ /\ head
        /\ Goto(Handler, "status")
        /\ UNCHANGED result
     \/ /\ ended[Handler] = "error"
        /\ Ends("errored")
  /\ UNCHANGED <<kind, seq, snap, rec, stored, peerVars, read, wire, pipe, requestEnd, added>>

(* The response hooks, then the head to the client.  A response alone gets *)
(* its session only now.                                                   *)
ResponseHooks ==
  /\ \/ At(Handler, "answer")
     \/ At(Handler, "start") /\ kind = "response"
  /\ \/ Goto(Handler, "head") /\ UNCHANGED result
     \/ Ends("blocked")
  /\ UNCHANGED <<kind, seq, snap, rec, stored, peerVars, read, wire, pipe, requestEnd, added>>

SendHead ==
  /\ At(Handler, "head")
  /\ \/ Goto(Handler, IF kind = "grpc" THEN "read" ELSE "open") /\ UNCHANGED result
     \/ Ends("errored")
  /\ UNCHANGED <<kind, seq, snap, rec, stored, peerVars, read, wire, pipe, requestEnd, added>>

OpenSession ==
  /\ At(Handler, "open")
  /\ rec' = NewSession /\ stored' = NewSession
  /\ Goto(Handler, "status")
  /\ UNCHANGED <<kind, seq, snap, result, peerVars, read, wire, pipe, requestEnd, added>>

-----------------------------------------------------------------------------
(* The recorder: setStatus, add and close change the session and copy it   *)
(* under the lock.                                                         *)
Copies(g, session) == rec' = session /\ snap' = [snap EXCEPT ![g] = session]

SetStatus ==
  /\ At(Handler, "status")
  /\ Copies(Handler, rec)
  /\ Goto(Handler, "push_status")
  /\ UNCHANGED <<kind, seq, result, stored, peerVars, read, wire, pipe, requestEnd, added>>

NextSeq(g) ==
  /\ At(g, "seq")
  /\ seq' = [seq EXCEPT ![g] = rec.next]
  /\ rec' = [rec EXCEPT !.next = @ + 1]
  /\ Goto(g, "hook")
  /\ UNCHANGED <<kind, snap, result, stored, peerVars, read, wire, pipe, requestEnd, added>>

(* Only the last maxStreamMessages are kept.                               *)
Kept(messages) ==
  IF Len(messages) > Window
  THEN SubSeq(messages, Len(messages) - Window + 1, Len(messages)) ELSE messages

Add(g) ==
  LET message == <<g, seq[g]>> IN
  /\ At(g, "add")
  /\ Copies(g, [rec EXCEPT !.count = @ + 1, !.messages = Kept(Append(@, message))])
  /\ added' = Append(added, message)
  /\ Goto(g, "push")
  /\ UNCHANGED <<kind, seq, result, stored, peerVars, read, wire, pipe, requestEnd>>

Close ==
  /\ At(Handler, "close")
  /\ Copies(Handler, [rec EXCEPT !.open = FALSE])
  /\ Goto(Handler, "push_close")
  /\ UNCHANGED <<kind, seq, result, stored, peerVars, read, wire, pipe, requestEnd, added>>

(* RecordStreamSession, outside the lock: the store keeps the copy that    *)
(* comes last.                                                             *)
AfterPush == [push_status |-> IF kind = "grpc" THEN "answer" ELSE "read",
              push |-> "write", push_close |-> "done"]

PushSnapshot(g) ==
  /\ pc[g] \in DOMAIN AfterPush
  /\ stored' = snap[g]
  /\ snap' = [snap EXCEPT ![g] = <<>>]
  /\ Goto(g, AfterPush[pc[g]])
  /\ UNCHANGED <<kind, seq, result, rec, peerVars, read, wire, pipe, requestEnd, added>>

-----------------------------------------------------------------------------
(* The relay of a message, in either direction.                            *)
ReadMessage(g) ==
  /\ At(g, "read")
  /\ read[g] < sent[g]
  /\ read' = [read EXCEPT ![g] = @ + 1]
  /\ Goto(g, "seq")
  /\ UNCHANGED <<kind, seq, snap, result, rec, stored, peerVars, wire, pipe, requestEnd, added>>

(* Mutant of Hook: an aborted message is only left out of the session.     *)
HookUnheard(g) ==
  /\ At(g, "hook")
  /\ Goto(g, "add") \/ Goto(g, "write")
  /\ UNCHANGED <<kind, seq, snap, result, rec, stored, peerVars, read, wire, pipe, requestEnd,
                 added>>

(* A hook may abort the message: the handler ends the relay, the pump      *)
(* closes the pipe with an error, which fails the request.                 *)
Hook(g) ==
  /\ At(g, "hook")
  /\ \/ Goto(g, "add") /\ UNCHANGED <<result, requestEnd>>
     \/ g = Handler /\ Ends("blocked") /\ UNCHANGED requestEnd
     \/ g = Pump /\ Goto(g, "done") /\ requestEnd' = "error" /\ UNCHANGED result
  /\ UNCHANGED <<kind, seq, snap, rec, stored, peerVars, read, wire, pipe, added>>

PassesOn(g) == wire' = [wire EXCEPT ![g] = Append(@, read[g])] /\ Goto(g, "read")

(* A write to the client may fail at any time.                             *)
WriteResponse ==
  /\ At(Handler, "write")
  /\ \/ PassesOn(Handler) /\ UNCHANGED result
     \/ Ends("errored") /\ UNCHANGED wire
  /\ UNCHANGED <<kind, seq, snap, rec, stored, peerVars, read, pipe, requestEnd, added>>

(* A write to the pipe waits until the transport reads it or until the     *)
(* read end is closed.                                                     *)
WriteRequest ==
  /\ At(Pump, "write")
  /\ \/ pipe /\ PassesOn(Pump) /\ UNCHANGED requestEnd
     \/ ~pipe /\ Goto(Pump, "done") /\ requestEnd' = "error" /\ UNCHANGED wire
  /\ UNCHANGED <<kind, seq, snap, result, rec, stored, peerVars, read, pipe, added>>

(* The upstream's body ends; then the trailer and the last chunk, which    *)
(* over HTTP/1 may fail.                                                   *)
ResponseEnds ==
  /\ At(Handler, "read")
  /\ read[Handler] = sent[Handler] /\ ended[Handler] # "no"
  /\ \/ ended[Handler] = "eof" /\ Ends("whole")
     \/ (ended[Handler] = "error" \/ kind = "response") /\ Ends("errored")
  /\ UNCHANGED <<kind, seq, snap, rec, stored, peerVars, read, wire, pipe, requestEnd, added>>

(* The pump takes any end of the client's body, a failure included, for    *)
(* the end of the request; what is left of an incomplete message goes with *)
(* it.  When the handler has returned, the server closes that body.        *)
RequestEnds ==
  /\ At(Pump, "read")
  /\ \/ read[Pump] = sent[Pump] /\ ended[Pump] # "no"
     \/ At(Handler, "done")
  /\ Goto(Pump, "done")
  /\ requestEnd' = "eof"
  /\ UNCHANGED <<kind, seq, snap, result, rec, stored, peerVars, read, wire, pipe, added>>

(* The read end is closed: by the handler's deferred call, or earlier by   *)
(* the transport, when the response has ended or failed or the context was *)
(* cancelled (which every way out of the handler does first).              *)
ClosePipe ==
  /\ pipe /\ kind = "grpc"
  /\ result # "none" \/ ended[Handler] # "no"
  /\ pipe' = FALSE
  /\ UNCHANGED <<kind, handlerVars, rec, stored, peerVars, read, wire, requestEnd, added>>

-----------------------------------------------------------------------------
(* The peers.  Sender of the pump: the client; of the handler: the         *)
(* upstream.                                                               *)
SendMessage(g) ==
  /\ ended[g] = "no" /\ sent[g] < MaxFrames
  /\ g = Handler => head
  /\ g = Pump => kind = "grpc"
  /\ sent' = [sent EXCEPT ![g] = @ + 1]
  /\ UNCHANGED <<kind, handlerVars, rec, stored, ended, head, read, wire, pipe, requestEnd, added>>

SendEnd(g, how) ==
  /\ ended[g] = "no"
  /\ g = Handler /\ how = "eof" => head
  /\ g = Pump => kind = "grpc"
  /\ ended' = [ended EXCEPT ![g] = how]
  /\ UNCHANGED <<kind, handlerVars, rec, stored, sent, head, read, wire, pipe, requestEnd, added>>

UpstreamHead ==
  /\ ~head /\ ended[Handler] = "no"
  /\ head' = TRUE
  /\ UNCHANGED <<kind, handlerVars, rec, stored, sent, ended, read, wire, pipe, requestEnd, added>>

HandlerStep == \/ TakeOver \/ Answer \/ ResponseHooks \/ SendHead \/ OpenSession
               \/ SetStatus \/ Close \/ WriteResponse \/ ResponseEnds
               \/ NextSeq(Handler) \/ Add(Handler) \/ PushSnapshot(Handler)
               \/ ReadMessage(Handler) \/ Hook(Handler)
PumpStep    == \/ NextSeq(Pump) \/ Add(Pump) \/ PushSnapshot(Pump)
               \/ ReadMessage(Pump) \/ Hook(Pump) \/ WriteRequest \/ RequestEnds
Peers       == \/ \E g \in Relays : SendMessage(g) \/ \E how \in {"eof", "error"} : SendEnd(g, how)
               \/ UpstreamHead

RelayNext == HandlerStep \/ PumpStep \/ ClosePipe \/ Peers

-----------------------------------------------------------------------------
(* Two peers that take turns, as in a bidirectional call: each sends its   *)
(* next message only when it has received the one before, the upstream     *)
(* not even its head before it has a request, and each ends after its last.*)
TurnOfClient   == sent[Pump] <= Len(wire[Handler])
TurnOfUpstream == sent[Handler] < Len(wire[Pump]) \/ kind = "response"

(* Goroutines keep running, a pipe that may be closed is closed, and the   *)
(* peers take their turns; a request that failed fails the call.           *)
InProgress == ~At(Handler, "start")
RelayFairness ==
  /\ WF_relayVars(InProgress /\ HandlerStep) /\ WF_relayVars(PumpStep) /\ WF_relayVars(ClosePipe)
  /\ WF_relayVars(InProgress /\ TurnOfClient /\ SendMessage(Pump))
  /\ WF_relayVars(InProgress /\ TurnOfUpstream /\ UpstreamHead)
  /\ WF_relayVars(InProgress /\ TurnOfUpstream /\ SendMessage(Handler))
  /\ WF_relayVars(InProgress /\ Len(wire[Handler]) = MaxFrames /\ SendEnd(Pump, "eof"))
  /\ WF_relayVars(InProgress /\ (requestEnd = "eof" \/ kind = "response") /\ sent[Handler] = MaxFrames
                  /\ SendEnd(Handler, "eof"))
  /\ WF_relayVars(InProgress /\ requestEnd # "no" /\ SendEnd(Handler, "error"))

RelaySpec == RelayInit /\ [][RelayNext]_relayVars /\ RelayFairness

-----------------------------------------------------------------------------
Recorded(g) == Cardinality({i \in DOMAIN added : added[i][1] = g})

(* What is passed on is what was sent, in order and without a gap, and     *)
(* each message was accepted by the hooks and recorded before it was       *)
(* passed on: after an abort nothing more of that direction gets through.  *)
(* A stream ends regularly for the client only after the whole of the      *)
(* upstream's body (streaming.go:810).                                     *)
RelaySound ==
  /\ RelayTypeOK
  /\ \A g \in Relays :
       /\ \A i \in DOMAIN wire[g] : wire[g][i] = i
       /\ Len(wire[g]) <= Recorded(g) /\ Recorded(g) <= Len(wire[g]) + 1
       /\ Recorded(g) <= read[g]
  /\ result = "whole" => ended[Handler] = "eof" /\ Len(wire[Handler]) = sent[Handler]

(* The session counts every message once and keeps the last of them in the *)
(* order in which they were added, those of a direction with ascending     *)
(* numbers, none of which is used twice; and no way out of the handler     *)
(* leaves it open (streaming.go:264).                                      *)
SessionSound ==
  rec # <<>> =>
    /\ rec.count = Len(added)
    /\ rec.messages = SubSeq(added, Len(added) - Len(rec.messages) + 1, Len(added))
    /\ Len(rec.messages) = IF rec.count < Window THEN rec.count ELSE Window
    /\ \A i, j \in DOMAIN added : i < j =>
         /\ added[i][2] # added[j][2]
         /\ added[i][1] = added[j][1] => added[i][2] < added[j][2]
    /\ At(Handler, "done") => ~rec.open

(* What is relayed, and what is kept of it.                                *)
StreamSound == RelaySound /\ SessionSound

(* Peers that take turns are relayed to the end: neither waits for a       *)
(* message that is held back here (streaming.go:836), and when the handler *)
(* has returned the pump ends, too, wherever it was blocked                *)
(* (streaming.go:865).                                                     *)
RelayEnds == InProgress ~> [](At(Handler, "done") /\ pc[Pump] \in {"off", "done"})

(* streaming.go:340 says of close that it marks the session closed and     *)
(* pushes the final state: when both goroutines have ended, the session in *)
(* the store is closed.                                                    *)
StoredIsFinal ==
  At(Handler, "done") /\ pc[Pump] \in {"off", "done"} /\ stored # <<>> => ~stored.open
=============================================================================
