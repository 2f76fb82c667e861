---------------------------- MODULE MCAlgorithms ----------------------------
(***************************************************************************)
(* The pure algorithms of the system on all small inputs.  A behaviour is  *)
(* about one subject: "hooks" grows a sequence of hook results, one hook a *)
(* step, and compares what Decisions computes for it with a definition     *)
(* that has no loop; "pages" is a client that turns the pages of a list    *)
(* while flows are being added to it; "scan" feeds a scanner with reads of *)
(* one to three bytes; "lines" receives a message line by line, which is   *)
(* edited and put on the wire again; "rules" is a list of rules, "pattern" *)
(* a pattern that grows letter by letter; "account" is the configuration   *)
(* of the upstream account, patched; "script" is an exchange that a        *)
(* plugin's script edits.                                                  *)
(***************************************************************************)
EXTENDS HookChain, Paging, Scanners, Fidelity, MatchingCases, Account, ScriptView

CONSTANTS
  MaxHooks,   \* bound on the number of hooks
  MaxBytes,   \* bound on the length of a stream
  MaxLines,   \* bound on the header lines of a message
  MaxRules,   \* bound on the number of rules
  MaxPattern  \* bound on the length of a pattern

VARIABLE subject

textVars == <<received, matchVars>>
msgVars  == <<textVars, account, exchange, result>>
vars     == <<subject, answers, pageVars, scanVars, msgVars>>

(* Headers with several values, one or none.                               *)
SomeHeaders ==
  {"k" :> p[1] @@ "l" :> p[2] : p \in {
     << <<"a">>, <<"a", "b">> >>, << <<"a", "b">>, <<>> >>, << <<>>, <<>> >>}}

SomeExchanges ==
  {[request |-> [start |-> "u", host |-> "u", header |-> h, body |-> b], response |-> r] :
     h \in SomeHeaders, b \in {"text", "binary"},
     r \in {<<>>, << [start |-> "u", header |-> [n \in {"k", "l"} |-> <<"a", "b">>], body |-> "text"] >>}}

NoAccount == [on |-> FALSE, addr |-> Direct, auth |-> FALSE, user |-> "", pass |-> ""]

Init ==
  /\ subject \in {"hooks", "pages", "scan", "lines", "rules", "pattern", "account", "script"}
  /\ ChainInit
  /\ ScanInit /\ (subject # "scan" => format = "sse")
  /\ FidelityInit
  /\ MatchInit /\ (subject # "pattern" => text = <<>>)
  /\ PagesInit /\ (subject # "pages" => length = 0 /\ asked = 1 /\ per = 1)
  /\ AccountInit /\ (subject # "account" => account = NoAccount)
  /\ exchange \in IF subject = "script" THEN SomeExchanges ELSE {CHOOSE x \in SomeExchanges : TRUE}
  /\ ScriptInit

Hook ==
  /\ subject = "hooks"
  /\ Len(answers) < MaxHooks
  /\ NextHook
  /\ UNCHANGED <<subject, pageVars, scanVars, msgVars>>

Page ==
  /\ subject = "pages"
  /\ PagesNext
  /\ UNCHANGED <<subject, answers, scanVars, msgVars>>

(* The bytes of one read.                                                  *)
UpToThree(bytes) == UNION {[1..n -> bytes] : n \in 1..3}
SomeSSEReads  == UpToThree(SSEBytes)
SomeGRPCReads == UpToThree(GRPCBytes)

Scan ==
  /\ subject = "scan"
  /\ ScanNext
  /\ Len(stream') <= MaxBytes
  /\ UNCHANGED <<subject, answers, pageVars, msgVars>>

(* The lines a message may have, and what hooks may set in their table.   *)
SomeLines == {Line(p[1], "raw", p[2]) : p \in {
  <<"Accept", "a">>, <<"Accept", "b">>, <<"Connection", "close">>, <<"Content-Encoding", "gzip">>,
  <<"Content-Encoding", "odd">>, <<"Content-Length", "">>, <<"Content-Length", "sent">>, <<"Host", "h">>,
  <<"Proxy-Authorization", "client">>, <<"Te", "trailers">>, <<"Transfer-Encoding", "chunked">>,
  <<"fold", "c">>, <<"junk", "">>}}

SomeEdits == {"Accept" :> vs : vs \in {<<>>, <<"new">>, <<"new", "a", "b">>}} \cup
  {<<>>, "New" :> <<"x">> @@ "Content-Encoding" :> <<"odd">>}

Receive ==
  /\ subject = "lines"
  /\ Len(received) <= MaxLines
  /\ ReadLine
  /\ UNCHANGED <<subject, answers, pageVars, scanVars, matchVars, account, exchange, result>>

Rule ==
  /\ subject = "rules"
  /\ Len(rules) < MaxRules
  /\ CreateRule
  /\ UNCHANGED <<subject, answers, pageVars, scanVars, received, account, exchange, result>>

Letter ==
  /\ subject = "pattern"
  /\ Len(pattern) < MaxPattern
  /\ TypeLetter
  /\ UNCHANGED <<subject, answers, pageVars, scanVars, received, account, exchange, result>>

Configure ==
  /\ subject = "account"
  /\ Reconfigure
  /\ UNCHANGED <<subject, answers, pageVars, scanVars, textVars, exchange, result>>

Script ==
  /\ subject = "script"
  /\ ScriptNext
  /\ UNCHANGED <<subject, answers, pageVars, scanVars, textVars, account>>

Next == Hook \/ Page \/ Scan \/ Receive \/ Rule \/ Letter \/ Configure \/ Script
Spec == Init /\ [][Next]_vars

=============================================================================
