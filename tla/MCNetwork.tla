----------------------------- MODULE MCNetwork ------------------------------
(***************************************************************************)
(* The goroutines around the exchanges: the listener and its connections,  *)
(* the WebSocket sessions, the hub of the user interfaces, the scripts.    *)
(* The components run side by side without sharing state, so that a        *)
(* behaviour is about one of them, its subject, and the others stay as     *)
(* they were initially; no fair action of a component is enabled in its    *)
(* initial state.                                                          *)
(***************************************************************************)
EXTENDS EventHub, PluginCalls, Listener, ClientConn, WebSocket

VARIABLE subject

vars == <<subject, hubVars, callVars, listenerVars, connVars, wsVars>>

(* The frames of a WebSocket: data, a ping and a close; the client may     *)
(* send one more than the server.                                          *)
MCShapes == {[op |-> op, fin |-> TRUE] : op \in {"data", "control", "close"}}
MCFrames == [w \in Ways |-> IF w = "up" THEN 2 ELSE 1]

Init ==
  /\ subject \in {"events", "calls", "listener", "connection", "websocket"}
  /\ HubInit /\ CallsInit /\ ListenerInit /\ ConnInit /\ WsInit
  /\ subject # "connection" => auth = "off"

Next ==
  /\ UNCHANGED subject
  /\ \/ subject = "events" /\ HubNext /\ UNCHANGED <<callVars, listenerVars, connVars, wsVars>>
     \/ subject = "calls" /\ CallsNext /\ UNCHANGED <<hubVars, listenerVars, connVars, wsVars>>
     \/ subject = "listener" /\ ListenerNext /\ UNCHANGED <<hubVars, callVars, connVars, wsVars>>
     \/ subject = "connection" /\ ConnNext /\ UNCHANGED <<hubVars, callVars, listenerVars, wsVars>>
     \/ subject = "websocket" /\ WsNext /\ UNCHANGED <<hubVars, callVars, listenerVars, connVars>>

(* The fairness of each component, as its module justifies it.             *)
Spec ==
  /\ Init /\ [][Next]_vars
  /\ HubFairness /\ CallsFairness /\ ListenerFairness
  /\ ConnFairness /\ WsFairness

-----------------------------------------------------------------------------
(* Whoever serves a connection of the proxy lets go of it: the listener,   *)
(* the request loop and the pumps of a WebSocket (tcp_listener.go:140,     *)
(* processor.go:199, websocket.go:103).                                    *)
ConnectionsEnd == ListenerLive /\ ConnEnds /\ WebSocketEnds

(* Whoever serves the user's side lets go as well: the pumps of a user     *)
(* interface that is gone and the goroutine of a plugin that hangs         *)
(* (ws_hub.go:150, plugin.go:571).                                         *)
ServantsEnd == PumpsEnd /\ LoopReturns
=============================================================================
