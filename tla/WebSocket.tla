----------------------------- MODULE WebSocket ------------------------------
(***************************************************************************)
(* An upgraded connection: the two pumps of proxyFrames and the recorder   *)
(* of the session, in websocket.go, frame.go and pipeline.go of            *)
(* capture/processors/http/websocket.                                      *)
(*                                                                         *)
(* Each pump reads frames from one side and writes them to the other;      *)
(* frames of data go through the hooks and the recorder on the way.  The   *)
(* first pump to end closes both connections, which wakes the other one.   *)
(* The handler waits for both and closes the session; a goroutine of its   *)
(* own resolves the client's process and adds it to the session.           *)
(*                                                                         *)
(* A frame is its opcode's kind and FIN; its payload is the position at    *)
(* which it was sent.  A hook may change the payload, which is not told    *)
(* apart, or abort.                                                        *)
(***************************************************************************)
EXTENDS Integers, Sequences, SequencesExt, FiniteSets

CONSTANTS
  Shapes,      \* the frames that are sent, a subset of FrameShapes
  MaxWsFrames, \* for each direction, the bound on its frames
  WsWindow     \* maxWSMessages

FrameShapes == [op : {"data", "continuation", "control", "close"}, fin : BOOLEAN]

Ways == {"up", "down"}    \* client to upstream, upstream to client
Recorders == Ways \cup {"handler", "resolver"}

ASSUME WebSocketAssumption ==
  Shapes \subseteq FrameShapes /\ MaxWsFrames \in [Ways -> Nat] /\ WsWindow \in Nat \ {0}

VARIABLES
  pump,       \* where each pump is; "off" before the upgrade
  frame,      \* the frame it holds: its number and what readFrame made of it
  framesRead, \* how many frames it has read
  sentFrames, \* the frames sent so far
  hungUp,     \* the side it reads from has closed its connection
  cut,        \* both connections are closed
  passed,     \* the frames written, in order
  aborted,    \* the numbers of the frames hooks aborted
  session,    \* the recorder's session: [open, count, messages, process]
  copy,       \* the copy of it that each recorder still has to hand over
  kept,       \* the last copy the store received
  noted,      \* history: the messages recorded, in order
  main,       \* where the handler is
  resolver    \* where the resolving goroutine is

frameVars == <<frame, framesRead, sentFrames, hungUp, passed, aborted>>
wsVars == <<pump, frameVars, cut, session, copy, kept, noted, main, resolver>>

NoFrame == [n |-> 0, op |-> "none", fin |-> FALSE]
WsSession == [open : BOOLEAN, count : Nat, messages : Seq(Ways \X Nat), process : BOOLEAN]

WsTypeOK ==
  /\ pump \in [Ways -> {"off", "read", "hook", "record", "push", "write", "done"}]
  /\ \A w \in Ways :
       /\ frame[w] = NoFrame \/ frame[w].n \in 1..MaxWsFrames[w]
       /\ framesRead[w] \in 0..Len(sentFrames[w]) /\ sentFrames[w] \in Seq(Shapes)
       /\ Len(passed[w]) <= framesRead[w] /\ aborted[w] \subseteq 1..framesRead[w]
  /\ hungUp \in [Ways -> BOOLEAN] /\ cut \in BOOLEAN
  /\ session = <<>> \/ session \in WsSession
  /\ kept = <<>> \/ kept \in WsSession
  /\ \A g \in Recorders : copy[g] = <<>> \/ copy[g] \in WsSession
  /\ main \in {"upgraded", "wait", "close", "push", "done"}
  /\ resolver \in {"off", "resolve", "push", "done"}

WsInit ==
  /\ pump = [w \in Ways |-> "off"]
  /\ frame = [w \in Ways |-> NoFrame] /\ framesRead = [w \in Ways |-> 0]
  /\ sentFrames = [w \in Ways |-> <<>>] /\ hungUp = [w \in Ways |-> FALSE]
  /\ cut = FALSE
  /\ passed = [w \in Ways |-> <<>>] /\ aborted = [w \in Ways |-> {}]
  /\ session = <<>> /\ copy = [g \in Recorders |-> <<>>] /\ kept = <<>> /\ noted = <<>>
  /\ main = "upgraded" /\ resolver = "off"

PumpAt(w, step) == pump' = [pump EXCEPT ![w] = step]

-----------------------------------------------------------------------------
(* newWSRecorder; resolveProcessAsync; the pumps are started.              *)
BeginFrames ==
  /\ main = "upgraded"
  /\ session' = [open |-> TRUE, count |-> 0, messages |-> <<>>, process |-> FALSE]
  /\ kept' = session'
  /\ resolver' \in {"resolve", "done"}
  /\ pump' = [w \in Ways |-> "read"]
  /\ main' = "wait"
  /\ UNCHANGED <<frameVars, cut, copy, noted>>

(* What readFrame keeps of a frame; its reserved bits get lost.            *)
Parsed(n, shape) == [n |-> n, op |-> shape.op, fin |-> shape.fin]

IsData(f) == f.op \in {"data", "continuation"}

(* A frame that has arrived can still be read from the buffer of a         *)
(* connection that was closed.                                             *)
ReadFrame(w) ==
  LET n == framesRead[w] + 1 IN
  /\ pump[w] = "read" /\ n <= Len(sentFrames[w])
  /\ framesRead' = [framesRead EXCEPT ![w] = n]
  /\ frame' = [frame EXCEPT ![w] = Parsed(n, sentFrames[w][n])]
  /\ PumpAt(w, IF IsData(frame'[w]) THEN "hook" ELSE "write")
  /\ UNCHANGED <<sentFrames, hungUp, passed, aborted, cut, session, copy, kept, noted, main, resolver>>

(* Mutant of PumpEnds: the connections are left open.                      *)
PumpEndsAlone(w) ==
  /\ PumpAt(w, "done")
  /\ UNCHANGED cut

PumpEnds(w) ==
  /\ PumpAt(w, "done")
  /\ cut' = TRUE

(* readFrame fails: the side has closed, or both connections are closed.   *)
ReadFrameFails(w) ==
  /\ pump[w] = "read"
  /\ cut \/ (hungUp[w] /\ framesRead[w] = Len(sentFrames[w]))
  /\ PumpEnds(w)
  /\ UNCHANGED <<frameVars, session, copy, kept, noted, main, resolver>>

(* Mutant of FrameHook: an aborted frame is only left out of the session.  *)
FrameHookUnheard(w) ==
  /\ pump[w] = "hook"
  /\ PumpAt(w, "record") \/ PumpAt(w, "write")
  /\ UNCHANGED <<frameVars, cut, session, copy, kept, noted, main, resolver>>

(* OnWebSocketMessage: an aborted frame is dropped, the pump reads on.     *)
FrameHook(w) ==
  /\ pump[w] = "hook"
  /\ \/ PumpAt(w, "record") /\ UNCHANGED aborted
     \/ PumpAt(w, "read") /\ aborted' = [aborted EXCEPT ![w] = @ \cup {frame[w].n}]
  /\ UNCHANGED <<frame, framesRead, sentFrames, hungUp, passed, cut, session, copy, kept, noted, main,
                 resolver>>

KeptMessages(messages) ==
  IF Len(messages) > WsWindow
  THEN SubSeq(messages, Len(messages) - WsWindow + 1, Len(messages)) ELSE messages

SnapshotBy(g, s) == session' = s /\ copy' = [copy EXCEPT ![g] = s]

(* record, under the lock; the copy is handed to the store outside.        *)
RecordFrame(w) ==
  LET message == <<w, frame[w].n>> IN
  /\ pump[w] = "record"
  /\ SnapshotBy(w, [session EXCEPT !.count = @ + 1, !.messages = KeptMessages(Append(@, message))])
  /\ noted' = Append(noted, message)
  /\ PumpAt(w, "push")
  /\ UNCHANGED <<frameVars, cut, kept, main, resolver>>

HandOver(g) == kept' = copy[g] /\ copy' = [copy EXCEPT ![g] = <<>>]

PushFrame(w) ==
  /\ pump[w] = "push"
  /\ HandOver(w)
  /\ PumpAt(w, "write")
  /\ UNCHANGED <<frameVars, cut, session, noted, main, resolver>>

(* writeFrame; after a Close frame the direction ends.  A peer that does   *)
(* not read may hold it up until the connections are closed.               *)
WriteFrame(w) ==
  /\ pump[w] = "write" /\ ~cut
  /\ passed' = [passed EXCEPT ![w] = Append(@, frame[w])]
  /\ IF frame[w].op = "close" THEN PumpEnds(w) ELSE PumpAt(w, "read") /\ UNCHANGED cut
  /\ UNCHANGED <<frame, framesRead, sentFrames, hungUp, aborted, session, copy, kept, noted, main, resolver>>

WriteFrameFails(w) ==
  /\ pump[w] = "write"
  /\ PumpEnds(w)
  /\ UNCHANGED <<frameVars, session, copy, kept, noted, main, resolver>>

-----------------------------------------------------------------------------
(* Both pumps have ended: the session is closed.                           *)
CloseSession ==
  /\ main = "wait" /\ pump = [w \in Ways |-> "done"]
  /\ SnapshotBy("handler", [session EXCEPT !.open = FALSE])
  /\ main' = "push"
  /\ UNCHANGED <<pump, frameVars, cut, kept, noted, resolver>>

PushClosed ==
  /\ main = "push"
  /\ HandOver("handler")
  /\ main' = "done"
  /\ UNCHANGED <<pump, frameVars, cut, session, noted, resolver>>

(* setProcess, if the process is found.                                    *)
SetProcess ==
  /\ resolver = "resolve"
  /\ \/ SnapshotBy("resolver", [session EXCEPT !.process = TRUE]) /\ resolver' = "push"
     \/ resolver' = "done" /\ UNCHANGED <<session, copy>>
  /\ UNCHANGED <<pump, frameVars, cut, kept, noted, main>>

PushProcess ==
  /\ resolver = "push"
  /\ HandOver("resolver")
  /\ resolver' = "done"
  /\ UNCHANGED <<pump, frameVars, cut, session, noted, main>>

-----------------------------------------------------------------------------
PeerSends(w, shape) ==
  /\ main = "wait" /\ ~hungUp[w] /\ ~cut
  /\ Len(sentFrames[w]) < MaxWsFrames[w]
  /\ sentFrames' = [sentFrames EXCEPT ![w] = Append(@, shape)]
  /\ UNCHANGED <<pump, frame, framesRead, hungUp, passed, aborted, cut, session, copy, kept, noted, main,
                 resolver>>

PeerHangsUp(w) ==
  /\ main = "wait" /\ ~hungUp[w]
  /\ hungUp' = [hungUp EXCEPT ![w] = TRUE]
  /\ UNCHANGED <<pump, frame, framesRead, sentFrames, passed, aborted, cut, session, copy, kept, noted,
                 main, resolver>>

PumpRuns(w) ==
  ReadFrame(w) \/ ReadFrameFails(w) \/ FrameHook(w) \/ RecordFrame(w) \/ PushFrame(w)

WsNext ==
  \/ BeginFrames \/ CloseSession \/ PushClosed \/ SetProcess \/ PushProcess
  \/ \E w \in Ways : PumpRuns(w) \/ WriteFrame(w) \/ WriteFrameFails(w) \/ PeerHangsUp(w)
  \/ \E w \in Ways, shape \in Shapes : PeerSends(w, shape)

(* Goroutines keep running; a write to a peer that does not read ends only *)
(* when the connections are closed.                                        *)
WsFairness ==
  /\ \A w \in Ways : WF_wsVars(PumpRuns(w)) /\ WF_wsVars(cut /\ WriteFrameFails(w))
  /\ WF_wsVars(CloseSession \/ PushClosed)

WsSpec == WsInit /\ [][WsNext]_wsVars /\ WsFairness

-----------------------------------------------------------------------------
NumbersOf(frames) == [i \in DOMAIN frames |-> frames[i].n]

(* Frames are passed on in order, with their kind and FIN; what is missing *)
(* in between was aborted by a hook, so no control frame is lost; nothing  *)
(* follows a Close frame.  Every frame of data that was passed on had been *)
(* recorded before.  The session counts each message once and keeps the    *)
(* last ones in order, and it is closed when the handler has returned      *)
(* (websocket.go:77, pipeline.go:96).                                      *)
WebSocketSound ==
  /\ WsTypeOK
  /\ \A w \in Ways :
       LET numbers == NumbersOf(passed[w]) IN
       /\ \A i \in DOMAIN passed[w] :
            /\ passed[w][i].op = sentFrames[w][numbers[i]].op
            /\ passed[w][i].fin = sentFrames[w][numbers[i]].fin
            /\ IsData(passed[w][i]) => Contains(noted, <<w, numbers[i]>>)
            /\ numbers[i] \notin aborted[w]
            /\ passed[w][i].op = "close" => i = Len(passed[w])
            /\ \A n \in 1..(numbers[i] - 1) :
                 n \in aborted[w] \/ \E j \in 1..(i - 1) : numbers[j] = n
       /\ \A i, j \in DOMAIN numbers : i < j => numbers[i] < numbers[j]
  /\ session # <<>> =>
       /\ session.count = Len(noted)
       /\ session.messages = SubSeq(noted, Len(noted) - Len(session.messages) + 1, Len(noted))
       /\ Len(session.messages) = IF session.count < WsWindow THEN session.count ELSE WsWindow
  /\ main = "done" => ~session.open /\ cut

(* When one direction has ended the other one ends, too, even if it is     *)
(* blocked in a write, and the session is closed (websocket.go:103).       *)
WebSocketEnds == (\E w \in Ways : pump[w] = "done") ~> main = "done"
=============================================================================
