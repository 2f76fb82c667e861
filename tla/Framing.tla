------------------------------- MODULE Framing -------------------------------
(***************************************************************************)
(* How a message is put on the wire again after it was captured, decoded   *)
(* and perhaps edited: internal/flow/http.go and order.go, and the last    *)
(* corrections of internal/forward/transport.go.                           *)
(*                                                                         *)
(* A header line is a canonical name, a spelling ("raw" as received,       *)
(* "canon" as the program writes it) and a value.  A body is a name for    *)
(* its bytes: "" none, "sent" as received, "decoded", "edited"; the value  *)
(* of a Content-Length line is the name of a body of that length.          *)
(***************************************************************************)
EXTENDS Naturals, Sequences, FiniteSets, SequencesExt, Selection

(* Canonical names, in the order in which they are sorted.                 *)
NameOrder == <<"Accept", "Connection", "Content-Encoding", "Content-Length", "Host", "New",
               "Proxy-Authorization", "Te", "Transfer-Encoding">>
Names    == ToSet(NameOrder)
HopByHop == {"Connection", "Proxy-Authorization", "Te", "Transfer-Encoding"}

Line(name, spelling, value) == [name |-> name, as |-> spelling, value |-> value]

(* parseRequestHeaderLines, parseResponseHead: the first line is skipped,  *)
(* a folded line is joined to the value before it, a line without a colon  *)
(* is dropped.                                                             *)
WithLine(out, ln) ==
  CASE ln.name = "fold" -> IF out = <<>> THEN out
                           ELSE [out EXCEPT ![Len(out)].value = @ \o " " \o ln.value]
    [] ln.name = "junk" -> out
    [] OTHER            -> Append(out, ln)

ParseHead(head) ==
  LET out[k \in 0..Len(head)] ==
        IF k = 0 THEN <<>> ELSE IF k = 1 THEN out[k - 1] ELSE WithLine(out[k - 1], head[k])
  IN out[Len(head)]

-----------------------------------------------------------------------------
(* A table of values: what net/http keeps of the lines.                    *)
Values(lines, name) ==
  LET upTo[k \in 0..Len(lines)] ==
        IF k = 0 THEN <<>>
        ELSE IF lines[k].name = name THEN Append(upTo[k - 1], lines[k].value) ELSE upTo[k - 1]
  IN upTo[Len(lines)]
FirstValue(lines, name) == IF Values(lines, name) = <<>> THEN "" ELSE Values(lines, name)[1]

(* Reading takes the host and the transfer coding out of the table, and a  *)
(* length that a transfer coding overrides.                                *)
Table(raw) == [n \in Names |->
  IF n \in {"Host", "Transfer-Encoding"} THEN <<>>
  ELSE IF n = "Content-Length"
       THEN IF Values(raw, "Transfer-Encoding") # <<>> \/ Values(raw, n) = <<>> THEN <<>>
            ELSE <<FirstValue(raw, n)>>
  ELSE Values(raw, n)]

StripHopByHop(table) == [n \in Names |-> IF n \in HopByHop THEN <<>> ELSE table[n]]

(* reconcileOrderedHeaders: the lines as received, in their order and      *)
(* spelling, each with the next value of the table, if one is left; the    *)
(* values that are left then come last.                                    *)
Replay(s, ln) ==
  LET left == s.left[ln.name] IN
  IF left = <<>> THEN s
  ELSE [left |-> [s.left EXCEPT ![ln.name] = Tail(left)],
        out  |-> Append(s.out, [ln EXCEPT !.value = Head(left)])]

Added(out, name, values) == out \o [i \in 1..Len(values) |-> Line(name, "canon", values[i])]

Replayed(raw, table) ==
  LET upTo[k \in 0..Len(raw)] ==
        IF k = 0 THEN [left |-> table, out |-> <<>>] ELSE Replay(upTo[k - 1], raw[k])
  IN upTo[Len(raw)]

Reconciled(raw, table) ==
  LET end == Replayed(raw, table)
      sent[k \in 0..Len(NameOrder)] ==
        IF k = 0 THEN end.out ELSE Added(sent[k - 1], NameOrder[k], end.left[NameOrder[k]])
  IN sent[Len(NameOrder)]

-----------------------------------------------------------------------------
(* DecodeBody knows one coding here; the bytes of another stay as sent.    *)
Decoded(coding, sent) == IF sent # "" /\ coding = "gzip" THEN "decoded" ELSE sent

(* BuildRequestFlow: the message as the hooks get it.                      *)
CaptureRequest(raw, sent) ==
  LET coding == FirstValue(raw, "Content-Encoding")
  IN [raw |-> raw, sent |-> sent, coding |-> coding, table |-> Table(raw), body |-> Decoded(coding, sent)]

(* CaptureResponseToFlow.                                                  *)
CaptureResponse(raw, sent, status) ==
  LET coding == FirstValue(raw, "Content-Encoding")
  IN [raw |-> raw, sent |-> sent, coding |-> coding, table |-> Table(raw), body |-> Decoded(coding, sent),
      status |-> status]

(* OriginalEncodedBody: the coded bytes can be replayed, the body being    *)
(* what they were decoded to.                                              *)
Original(m, body) == m.coding # "" /\ m.sent # "" /\ body = m.body

Recoded(m, table, body) ==
  [table EXCEPT !["Content-Encoding"] = IF Original(m, body) THEN <<m.coding>> ELSE <<>>]

(* ApplyRequestToHTTP: the request with the table and the body that the    *)
(* hooks left.                                                             *)
ApplyRequest(m, table, body) ==
  LET out    == IF Original(m, body) THEN m.sent ELSE body
      framed == out # "" \/ Values(m.raw, "Content-Length") # <<>>
      final  == [Recoded(m, StripHopByHop(table), body) EXCEPT
                   !["Te"] = IF "trailers" \in ToSet(table["Te"]) THEN <<"trailers">> ELSE <<>>,
                   !["Content-Length"] = IF framed THEN <<out>> ELSE <<>>,
                   !["Host"] = IF Values(m.raw, "Host") = <<>> THEN <<"h">> ELSE <<FirstValue(m.raw, "Host")>>]
  IN [lines |-> Reconciled(m.raw, final), body |-> out]

Without(lines, names) == Only(lines, {ln \in ToSet(lines) : ln.name \notin names})

(* withProxyAuthorization: the proxy's credentials replace the client's.   *)
WithProxyAuthorization(lines) ==
  Append(Without(lines, {"Proxy-Authorization"}), Line("Proxy-Authorization", "canon", "proxy"))

Unframed(lines) == Without(lines, {"Content-Length", "Transfer-Encoding"})

(* Mutant of NormalizeFraming: one right length among several is enough.   *)
NormalizeFramingAnyRight(lines, body) ==
  IF \/ body = "" /\ Values(lines, "Content-Length") = <<>>
     \/ body \in ToSet(Values(lines, "Content-Length"))
  THEN lines
  ELSE IF body = "" THEN Unframed(lines)
  ELSE Append(Unframed(lines), Line("Content-Length", "canon", body))

(* normalizeFraming: lines that agree with the body stay as they are.      *)
NormalizeFraming(lines, body) ==
  LET lengths == Values(lines, "Content-Length")
      agree   == /\ Values(lines, "Transfer-Encoding") = <<>>
                 /\ (body = "" /\ lengths = <<>>) \/ lengths = <<body>>
  IN IF agree THEN lines
     ELSE IF body = "" THEN Unframed(lines)
     ELSE Append(Unframed(lines), Line("Content-Length", "canon", body))

(* writeFaithfulRequest.                                                   *)
WireRequest(request, viaProxy) ==
  LET lines == IF viaProxy THEN WithProxyAuthorization(request.lines) ELSE request.lines
  IN [request EXCEPT !.lines = NormalizeFraming(lines, request.body)]

-----------------------------------------------------------------------------
Bodyless(status, method) == method = "HEAD" \/ status \in {204, 304} \/ status \in 100..199

(* responseStatusLine: as received unless the code was changed.            *)
StatusLine(received, code) ==
  IF received.code = code THEN received ELSE [received EXCEPT !.code = code, !.reason = "edited"]

(* writeFaithfulResponse.                                                  *)
WireResponse(m, code, method, table, body) ==
  LET out      == IF Original(m, body) THEN m.sent ELSE body
      stripped == Recoded(m, StripHopByHop(table), body)
      bodyless == Bodyless(code, method)
      final    == IF ~bodyless THEN [stripped EXCEPT !["Content-Length"] = <<out>>]
                  ELSE IF Values(m.raw, "Content-Length") = <<>> THEN stripped
                  ELSE [stripped EXCEPT !["Content-Length"] = <<FirstValue(m.raw, "Content-Length")>>]
  IN [status |-> StatusLine(m.status, code), lines |-> Reconciled(m.raw, final),
      body |-> IF bodyless THEN "" ELSE out]

(* BuildHTTPResponse: without the lines of an upstream.                    *)
BuildResponse(table, body) ==
  [lines |-> Reconciled(<<>>, [StripHopByHop(table) EXCEPT !["Content-Encoding"] = <<>>,
                                                           !["Content-Length"] = <<body>>]),
   body |-> body]
=============================================================================
