----------------------------- MODULE MCUpstream -----------------------------
(***************************************************************************)
(* The upstream side of an exchange: the transport's pool of connections   *)
(* and the relay of streams.  The two share no state, so that a behaviour  *)
(* is about one of them, its subject, and the other stays as it was        *)
(* initially, where none of its fair actions is enabled.                   *)
(***************************************************************************)
EXTENDS Transport, StreamRelay

VARIABLE subject

vars == <<subject, transportVars, relayVars>>

Init ==
  /\ subject \in {"transport", "relay"}
  /\ TransportInit /\ RelayInit
  /\ subject # "relay" => kind = "grpc"

Next ==
  /\ UNCHANGED subject
  /\ \/ subject = "transport" /\ TransportNext /\ UNCHANGED relayVars
     \/ subject = "relay" /\ RelayNext /\ UNCHANGED transportVars

(* The fairness of each component, as its module justifies it.             *)
Spec ==
  /\ Init /\ [][Next]_vars
  /\ TransportFairness /\ RelayFairness
=============================================================================
