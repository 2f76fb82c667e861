------------------------------ MODULE Scanners ------------------------------
(***************************************************************************)
(* The incremental scanners of capture/processors/http/streaming.go, which *)
(* cut a stream that arrives in reads of any length into messages, and the *)
(* bytes dispatchChunk writes on: sseScanner cuts after a blank line,      *)
(* grpcScanner after a frame whose prefix holds its length.  And the peek  *)
(* at the head of a message, readorder.go, which consumes nothing.         *)
(*                                                                         *)
(* A scanner is a record: its buffer, the messages it has returned, the    *)
(* bytes written on, and whether it gave up (gRPC only).  In an SSE stream *)
(* the bytes are "x", "r" (CR) and "n" (LF); a gRPC prefix is a flag and   *)
(* one byte for the length instead of four.                                *)
(***************************************************************************)
EXTENDS Integers, Sequences, SequencesExt

CONSTANTS
  MaxMessage,  \* grpcMaxMessage
  SSEReads,    \* what one read of an event stream, or of a head, may return
  GRPCReads    \* what one read of a gRPC stream may return

SSEBytes  == {"x", "r", "n"}
GRPCBytes == 0..(MaxMessage + 1)

ASSUME MaxMessageIsNatural == MaxMessage \in Nat
ASSUME ReadsAreBytes == SSEReads \subseteq Seq(SSEBytes) /\ GRPCReads \subseteq Seq(GRPCBytes)

VARIABLES
  format,   \* what the stream carries: "sse", "grpc" or the "head" of a message
  stream,   \* every byte that was read so far
  scanner   \* the scanner that was given them, read by read

scanVars == <<format, stream, scanner>>

NewScanner == [buf |-> <<>>, out |-> <<>>, wire |-> <<>>, overflow |-> FALSE]

(* The scanner after append(s.buf, p...).                                  *)
Buffer(s, p) == [buf |-> s.buf \o p, out |-> s.out, wire |-> s.wire, overflow |-> s.overflow]

(* A message of n bytes leaves the buffer, is returned and written on.     *)
CutOff(s, n) ==
  LET message == SubSeq(s.buf, 1, n)
  IN [buf |-> SubSeq(s.buf, n + 1, Len(s.buf)), out |-> Append(s.out, message),
      wire |-> s.wire \o message, overflow |-> s.overflow]

(* The rest of the buffer is written on as it is: flush.                   *)
Flush(s) == [buf |-> <<>>, out |-> s.out, wire |-> s.wire \o s.buf, overflow |-> s.overflow]

-----------------------------------------------------------------------------
(* The end of the blank line after a line feed at i, 0 if there is none.   *)
BlankLineEnd(b, i) ==
  LET j == IF i < Len(b) /\ b[i + 1] = "r" THEN i + 2 ELSE i + 1
  IN IF b[i] = "n" /\ j <= Len(b) /\ b[j] = "n" THEN j ELSE 0

(* indexSSEBoundary: the length of the first event block, 0 if incomplete. *)
Boundary(b) ==
  LET hits == {i \in 1..Len(b) : BlankLineEnd(b, i) # 0}
  IN IF hits = {} THEN 0 ELSE BlankLineEnd(b, Min(hits))

(* The body of sseScanner.push's loop; without a boundary it is over.      *)
CutEvent(s) == IF Boundary(s.buf) = 0 THEN s ELSE CutOff(s, Boundary(s.buf))

(* Every event takes a byte at least: Len(s.buf) rounds are enough.        *)
CutEvents(s) ==
  LET after[n \in 0..Len(s.buf)] == IF n = 0 THEN s ELSE CutEvent(after[n - 1])
  IN after[Len(s.buf)]

(* A read of an SSE stream: every complete event is passed on.             *)
PushSSE(s, p) == CutEvents(Buffer(s, p))

-----------------------------------------------------------------------------
(* Mutant of CutFrame: having given up, it looks for frames all the same.  *)
CutFrameAgain(s) ==
  IF Len(s.buf) < 2 THEN s
  ELSE IF s.buf[2] > MaxMessage THEN [buf |-> s.buf, out |-> s.out, wire |-> s.wire, overflow |-> TRUE]
  ELSE IF Len(s.buf) < 2 + s.buf[2] THEN s
  ELSE CutOff(s, 2 + s.buf[2])

(* The body of grpcScanner.push's loop: a frame that is too long makes it  *)
(* give up, one that is incomplete ends it.                                *)
CutFrame(s) ==
  IF s.overflow \/ Len(s.buf) < 2 THEN s
  ELSE IF s.buf[2] > MaxMessage THEN [buf |-> s.buf, out |-> s.out, wire |-> s.wire, overflow |-> TRUE]
  ELSE IF Len(s.buf) < 2 + s.buf[2] THEN s
  ELSE CutOff(s, 2 + s.buf[2])

CutFrames(s) ==
  LET after[n \in 0..Len(s.buf)] == IF n = 0 THEN s ELSE CutFrame(after[n - 1])
  IN after[Len(s.buf)]

(* A read of a gRPC stream: complete frames are passed on; from a frame    *)
(* that is too long on, everything is passed on as it comes.               *)
PushGRPC(s, p) ==
  LET cut == CutFrames(Buffer(s, p)) IN IF cut.overflow THEN Flush(cut) ELSE cut

-----------------------------------------------------------------------------
(* The head of a message is looked for in what has been read so far,       *)
(* without consuming it: peekRequestHeaderOrder, peekResponseHead.  It     *)
(* ends with the first CR LF CR LF, or else with the first LF LF.          *)
Occurrences(b, mark) == {i \in 1..Len(b) - Len(mark) + 1 : \A k \in DOMAIN mark : b[i + k - 1] = mark[k]}

CRLFs == <<"r", "n", "r", "n">>
LFs   == <<"n", "n">>

(* headerBlockEnd: the length of the head's lines, 0 if incomplete.        *)
HeadEnd(b) ==
  LET crlf == Occurrences(b, CRLFs)
      lf   == Occurrences(b, LFs)
  IN IF crlf # {} THEN Min(crlf) + 1 ELSE IF lf # {} THEN Min(lf) ELSE 0

(* A read; the head is captured once.                                      *)
PeekHead(s, p) ==
  LET b == s.buf \o p
      found == s.out = <<>> /\ HeadEnd(b) # 0
  IN [buf |-> b, out |-> IF found THEN <<SubSeq(b, 1, HeadEnd(b))>> ELSE s.out,
      wire |-> s.wire, overflow |-> s.overflow]

-----------------------------------------------------------------------------
ScanInit ==
  /\ format \in {"sse", "grpc", "head"}
  /\ stream = <<>>
  /\ scanner = NewScanner

ReadSSE(p) ==
  /\ format = "sse"
  /\ stream' = stream \o p
  /\ scanner' = PushSSE(scanner, p)
  /\ UNCHANGED format

ReadGRPC(p) ==
  /\ format = "grpc"
  /\ stream' = stream \o p
  /\ scanner' = PushGRPC(scanner, p)
  /\ UNCHANGED format

ReadOfHead(p) ==
  /\ format = "head"
  /\ stream' = stream \o p
  /\ scanner' = PeekHead(scanner, p)
  /\ UNCHANGED format

(* At the end, regular or not, what is left of the buffer is written on.   *)
StreamOver ==
  /\ format \in {"sse", "grpc"}
  /\ format' = "over"
  /\ scanner' = Flush(scanner)
  /\ UNCHANGED stream

ScanNext ==
  \/ \E p \in SSEReads  : ReadSSE(p) \/ ReadOfHead(p)
  \/ \E p \in GRPCReads : ReadGRPC(p)
  \/ StreamOver

ScanSpec == ScanInit /\ [][ScanNext]_scanVars

(* No line feed without a carriage return, and so no blank line but CR LF. *)
CRLFOnly(b) == \A i \in DOMAIN b : b[i] = "n" => i > 1 /\ b[i - 1] = "r"

(* However the network cuts a stream into reads, the scanner returns the   *)
(* messages it would have returned for the whole stream read at once, and  *)
(* no byte is lost, repeated or moved on its way to the other side: what   *)
(* was written on and what is still buffered is what was read, and when    *)
(* the stream is over all of it was written (streaming.go:108).  The head  *)
(* of a message whose lines all end with CR LF is found as well, and is    *)
(* never more than the head (readorder.go:40).                             *)
ReadsDoNotMatter ==
  /\ scanner.wire \o scanner.buf = stream
  /\ format = "over" => scanner.wire = stream
  /\ format = "sse"  => scanner = PushSSE(NewScanner, stream)
  /\ format = "grpc" => scanner = PushGRPC(NewScanner, stream)
  /\ format = "head" /\ CRLFOnly(stream) =>
       /\ scanner = PeekHead(NewScanner, stream)
       /\ \A i \in DOMAIN scanner.out : Occurrences(scanner.out[i], CRLFs) = {}
=============================================================================
