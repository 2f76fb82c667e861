------------------------------ MODULE Fidelity -------------------------------
(***************************************************************************)
(* A message is received line by line; at each point hooks edit what came  *)
(* of it, and it is put on the wire again (Framing).                       *)
(***************************************************************************)
EXTENDS Framing

CONSTANTS
  ReceivedLines, \* the lines a message may have, "fold" and "junk" being none of their own
  Edits,         \* what hooks may set in the table: functions from names to values
  Codes          \* the codes of a response

ASSUME LinesAreLines == \A ln \in ReceivedLines :
         /\ ln = Line(ln.name, "raw", ln.value)
         /\ ln.name \in Names \cup {"fold", "junk"}
ASSUME EditsAreValues == \A e \in Edits : \A n \in DOMAIN e : e[n] \in Seq(ToSet(e[n]))

VARIABLE received \* the lines of the head, the first of which is none of a header

FirstLine == Line("junk", "raw", "")

FidelityInit == received = <<>>

ReadLine == \E ln \in IF received = <<>> THEN {FirstLine} ELSE ReceivedLines : received' = Append(received, ln)

FidelitySpec == FidelityInit /\ [][ReadLine]_received

-----------------------------------------------------------------------------
Raw == ParseHead(received)

(* The bodies that the lines may announce.                                 *)
SentBodies == {sent \in {"", "sent"} :
  \/ Values(Raw, "Transfer-Encoding") # <<>>
  \/ ToSet(Values(Raw, "Content-Length")) = {sent}
  \/ sent = "" /\ Values(Raw, "Content-Length") = <<>>}

(* What hooks may leave of the table and of the body.                      *)
Edited(e) == [n \in Names |-> IF n \in DOMAIN e THEN e[n] ELSE Table(Raw)[n]]
EditedBodies(sent) == {CaptureRequest(Raw, sent).body, "edited", ""}

Received == [proto |-> "HTTP/1.0", code |-> 200, reason |-> "Fine"]

(* A body has one length line, which is its own, and no transfer coding;   *)
(* it has a coding line if and only if its bytes are the coded ones.       *)
SelfConsistent(w) ==
  /\ Values(w.lines, "Transfer-Encoding") = <<>>
  /\ w.body # "" => Values(w.lines, "Content-Length") = <<w.body>>
  /\ Values(w.lines, "Content-Encoding") =
       LET coding == FirstValue(Raw, "Content-Encoding")
       IN IF w.body = "sent" /\ coding # "" THEN <<coding>> ELSE <<>>

RequestFramed(table, sent, body, viaProxy) ==
  LET w == WireRequest(ApplyRequest(CaptureRequest(Raw, sent), table, body), viaProxy) IN
  /\ SelfConsistent(w)
  /\ body = "edited" => w.body = "edited"
  /\ w.body = "" => ToSet(Values(w.lines, "Content-Length")) \subseteq {""}
  /\ Values(w.lines, "Proxy-Authorization") = IF viaProxy THEN <<"proxy">> ELSE <<>>

ResponseFramed(table, sent, body, code, method) ==
  LET w == WireResponse(CaptureResponse(Raw, sent, Received), code, method, table, body) IN
  IF Bodyless(code, method) THEN w.body = "" /\ Values(w.lines, "Transfer-Encoding") = <<>>
  ELSE SelfConsistent(w)

ForcedFramed(body) ==
  LET forced == NormalizeFraming(Raw, body) IN
  /\ Values(forced, "Transfer-Encoding") = <<>>
  /\ body # "" => Values(forced, "Content-Length") = <<body>>
  /\ Len(Values(forced, "Content-Length")) <= 1

(* Whatever the hooks did to the headers and the body, the lines and the   *)
(* body that are sent agree, so that the next message on the connection    *)
(* begins where this one ends; an edited body is the one that is sent; and *)
(* the credentials for this proxy go no further.  The transport makes them *)
(* agree for whatever lines it is given (transport.go:403, http.go:252).   *)
Framed == \A sent \in SentBodies : \A e \in Edits, body \in EditedBodies(sent) :
  /\ \A viaProxy \in BOOLEAN : RequestFramed(Edited(e), sent, body, viaProxy)
  /\ \A code \in Codes, method \in {"GET", "HEAD"} : ResponseFramed(Edited(e), sent, body, code, method)
  /\ SelfConsistent(BuildResponse(Edited(e), IF body = "sent" THEN "decoded" ELSE body))
  /\ ForcedFramed(body)

(* A message without lines for this hop, with one length and one coding at *)
(* most.                                                                   *)
Plain(sent) ==
  /\ \A n \in HopByHop : Values(Raw, n) = <<>>
  /\ Len(Values(Raw, "Content-Length")) <= 1
  /\ Len(Values(Raw, "Content-Encoding")) <= (IF sent = "" THEN 0 ELSE 1)
  /\ "" \notin ToSet(Values(Raw, "Content-Encoding"))

(* The lines that were received come first, in their order and with their  *)
(* spelling, and those that were added follow.                             *)
InOrder(lines) ==
  \E n \in 0..Len(Raw) : \E kept \in [1..n -> DOMAIN Raw] :
    /\ n <= Len(lines)
    /\ \A i, j \in 1..n : i < j => kept[i] < kept[j]
    /\ \A i \in 1..n : lines[i] = [Raw[kept[i]] EXCEPT !.value = lines[i].value]
    /\ \A i \in (n + 1)..Len(lines) : lines[i].as = "canon"

(* The names whose values are the hooks' alone.                            *)
EndToEnd == Names \ (HopByHop \cup {"Content-Encoding", "Content-Length", "Host"})

(* A message that no hook touched is repeated verbatim, in order, spelling *)
(* and bytes, unless it has lines for this hop only; of one that was       *)
(* edited, the lines that stay keep their order and spelling, every value  *)
(* of the table is sent once, and new lines follow (order.go:85).          *)
LinesKept == \A sent \in SentBodies :
  /\ LET m == CaptureResponse(Raw, sent, Received) IN
     Plain(sent) =>
       /\ Len(Values(Raw, "Host")) = 1 =>
            WireRequest(ApplyRequest(m, m.table, m.body), FALSE) = [lines |-> Raw, body |-> sent]
       /\ Values(Raw, "Host") = <<>> /\ Values(Raw, "Content-Length") # <<>> =>
            WireResponse(m, 200, "GET", m.table, m.body) = [status |-> m.status, lines |-> Raw, body |-> sent]
  /\ \A e \in Edits, body \in EditedBodies(sent) :
       LET lines == ApplyRequest(CaptureRequest(Raw, sent), Edited(e), body).lines IN
       /\ \A n \in EndToEnd : Values(lines, n) = Edited(e)[n]
       /\ InOrder(lines)

(* Messages are framed and repeated as they should be, at whatever line    *)
(* their heads end.                                                        *)
WireSound == received # <<>> => Framed /\ LinesKept
=============================================================================
