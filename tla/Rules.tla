-------------------------------- MODULE Rules --------------------------------
(***************************************************************************)
(* The rule engine, internal/rules/engine.go: rules in order of priority   *)
(* are matched against the flow as the rules before left it, and their     *)
(* actions rewrite it, answer it or block it.                              *)
(*                                                                         *)
(* A text is a string; the value of a condition (a literal to equal,       *)
(* contain, begin or end with, a list, a regular expression) is `pattern`, *)
(* the set of texts it matches, BadRegex when it does not compile, and     *)
(* itself where it is a number; bodies are sequences of words.  A response *)
(* is <<>> or <<r>>.                                                       *)
(***************************************************************************)
EXTENDS Integers, Sequences, FiniteSets, SequencesExt, Selection

BadRegex == {"(bad"}
Numbers  == "200" :> 200 @@ "404" :> 404
Text(url) == url.scheme \o "://" \o url.host \o url.path \o url.query
Parses(url) == url.scheme # ":"

(* The rules' order: enabled ones, sorted by insertion, equals staying in  *)
(* the order of the list.                                                  *)
Placed(out, r) ==
  InsertAt(out, 1 + Cardinality({i \in DOMAIN out : out[i].priority <= r.priority}), r)
SortedRules(rules) ==
  LET on == Only(rules, {r \in ToSet(rules) : r.enabled})
      sorted[n \in 0..Len(on)] == IF n = 0 THEN <<>> ELSE Placed(sorted[n - 1], on[n])
  IN sorted[Len(on)]

-----------------------------------------------------------------------------
HeaderValue(h, name) == IF name = "" THEN "" ELSE h[name]

(* fieldValue: <<text>>, or <<>> when the flow has no such field yet.      *)
FieldValue(c, f) ==
  LET req == f.request  resp == f.response IN
  CASE c.field = "url"             -> <<Text(req.url)>>
    [] c.field = "url_host"        -> <<req.host>>
    [] c.field = "url_path"        -> <<req.path>>
    [] c.field = "url_query"       -> <<IF Parses(req.url) THEN req.url.query ELSE "">>
    [] c.field = "scheme"          -> <<IF Parses(req.url) THEN req.url.scheme ELSE "">>
    [] c.field = "method"          -> <<req.method>>
    [] c.field = "request_header"  -> <<HeaderValue(req.header, c.header)>>
    [] c.field = "content_type"    -> <<HeaderValue((IF resp # <<>> THEN resp[1] ELSE req).header, "Content-Type")>>
    [] c.field = "response_status" -> IF resp = <<>> THEN <<>> ELSE <<resp[1].status>>
    [] c.field = "response_header" -> IF resp = <<>> THEN <<>> ELSE <<HeaderValue(resp[1].header, c.header)>>
    [] OTHER                       -> <<>>

IsNumber(text) == text \in DOMAIN Numbers

(* matchOp and compare.                                                    *)
MatchOp(c, text) ==
  CASE c.op = "exists"       -> text # ""
    [] c.op = "not_exists"   -> text = ""
    [] c.op = "greater_than" -> IsNumber(text) /\ IsNumber(c.value) /\ Numbers[text] > Numbers[c.value]
    [] c.op = "less_than"    -> IsNumber(text) /\ IsNumber(c.value) /\ Numbers[text] < Numbers[c.value]
    [] c.op = "between"      -> /\ IsNumber(text) /\ IsNumber(c.value) /\ IsNumber(c.value2)
                                /\ Numbers[text] \in Numbers[c.value]..Numbers[c.value2]
    [] c.op = "matches"      -> text \in c.pattern
    [] c.op = "not_matches"  -> text \notin c.pattern
    [] c.op = "regex"        -> c.pattern # BadRegex /\ text \in c.pattern
    [] c.op = "not_regex"    -> c.pattern # BadRegex /\ text \notin c.pattern
    [] OTHER                 -> FALSE

EvalCondition(c, f) ==
  LET v == FieldValue(c, f) IN v # <<>> /\ (MatchOp(c, v[1]) # c.negate)

Matches(r, f) ==
  \/ r.conditions = <<>>
  \/ r.logic = "OR"  /\ \E i \in DOMAIN r.conditions : EvalCondition(r.conditions[i], f)
  \/ r.logic # "OR"  /\ \A i \in DOMAIN r.conditions : EvalCondition(r.conditions[i], f)

-----------------------------------------------------------------------------
(* Each rewriting returns the request it leaves; it counts as modified when *)
(* the code says so, which may be of an equal one.                          *)
WithUrl(req, url) == [req EXCEPT !.url = url, !.host = url.host, !.path = url.path]

(* applyRedirect: the parts the target names replace those of the URL.     *)
Redirected(req, to) ==
  WithUrl(req, [p \in DOMAIN req.url |->
    IF to[p] = "" \/ (p = "path" /\ to[p] = "/") THEN req.url[p] ELSE to[p]])

(* Mutant of UrlModified: the host stays.                                  *)
UrlModifiedOnly(req, to) == [req EXCEPT !.url = to]

(* applyModifyURL: host and path follow if the new URL can be parsed.      *)
UrlModified(req, to) == IF Parses(to) THEN WithUrl(req, to) ELSE [req EXCEPT !.url = to]

(* applyHeaderOps: the flat form first, then add, modify and remove.       *)
HeaderOps(h, a) == [n \in DOMAIN h |->
  IF n \in a.remove THEN ""
  ELSE IF n \in DOMAIN a.modify THEN a.modify[n]
  ELSE IF n \in DOMAIN a.add THEN a.add[n]
  ELSE IF n = a.name THEN a.value ELSE h[n]]
HeadersChange(a) == a.name # "" \/ DOMAIN a.add # {} \/ DOMAIN a.modify # {} \/ a.remove # {}

HostSet(a) == a.name = "Host" /\ a.value # ""

Replaced(body, from, to) == IF from = "" THEN body ELSE ReplaceAll(body, from, to)

Modified(f, req) == [f EXCEPT !.request = req, !.modified = TRUE]

(* applyAutoRespond.                                                       *)
AutoResponded(f, a) ==
  [f EXCEPT !.response = <<[a.response EXCEPT !.status = IF @ = "" THEN "200" ELSE @]>>, !.modified = TRUE]

(* One action of a matching rule in the request phase.  A state of the     *)
(* engine is the flow and the verdict, which ends the run unless it is     *)
(* "continue".                                                             *)
RequestAction(s, a) ==
  LET f == s.flow  req == f.request
      Leaves(new) == [s EXCEPT !.flow = Modified(f, new)]
  IN IF s.verdict.is # "continue" THEN s ELSE
     CASE a.type = "block" ->
            [s EXCEPT !.verdict = [is |-> "abort", status |-> IF a.status = "" THEN "403" ELSE a.status]]
       [] a.type = "auto_respond" ->
            [flow |-> AutoResponded(f, a), verdict |-> [is |-> "mock", status |-> ""]]
       [] a.type = "redirect" ->
            IF (\A p \in DOMAIN a.to : a.to[p] = "") \/ ~Parses(req.url) THEN s ELSE Leaves(Redirected(req, a.to))
       [] a.type = "modify_url" ->
            IF req.url \notin a.pattern \/ a.to = req.url THEN s ELSE Leaves(UrlModified(req, a.to))
       [] a.type = "modify_method" ->
            IF a.method = "" THEN s ELSE Leaves([req EXCEPT !.method = a.method])
       [] a.type = "modify_headers" ->
            IF ~HeadersChange(a) THEN s
            ELSE Leaves([req EXCEPT !.header = HeaderOps(req.header, a),
                                    !.host   = IF HostSet(a) THEN a.value ELSE @])
       [] a.type = "modify_body" ->
            IF Replaced(req.body, a.from, a.to) = req.body THEN s
            ELSE Leaves([req EXCEPT !.body = Replaced(@, a.from, a.to)])
       [] a.type = "replace_body" ->
            Leaves([req EXCEPT !.body = a.body,
                               !.header["Content-Type"] = IF a.contentType = "" THEN @ ELSE a.contentType])
       [] OTHER -> s                                      \* a delay, or an action of the response

ResponseAction(f, a) ==
  LET resp == f.response[1]
      Leaves(new) == [f EXCEPT !.response = <<new>>, !.modified = TRUE]
  IN CASE a.type = "modify_status" ->
            IF a.status = "" THEN f ELSE Leaves([resp EXCEPT !.status = a.status])
       [] a.type = "modify_response_headers" ->
            IF ~HeadersChange(a) THEN f ELSE Leaves([resp EXCEPT !.header = HeaderOps(resp.header, a)])
       [] a.type = "modify_response_body" ->
            IF Replaced(resp.body, a.from, a.to) = resp.body THEN f
            ELSE Leaves([resp EXCEPT !.body = Replaced(@, a.from, a.to)])
       [] OTHER -> f

(* The actions of a rule, one after the other.                             *)
ApplyToRequest(s, r) ==
  LET after[n \in 0..Len(r.actions)] == IF n = 0 THEN s ELSE RequestAction(after[n - 1], r.actions[n])
  IN IF s.verdict.is = "continue" /\ Matches(r, s.flow) THEN after[Len(r.actions)] ELSE s

ApplyToResponse(f, r) ==
  LET after[n \in 0..Len(r.actions)] == IF n = 0 THEN f ELSE ResponseAction(after[n - 1], r.actions[n])
  IN IF Matches(r, f) THEN after[Len(r.actions)] ELSE f

(* What a list of rules that is sorted makes of a flow.                    *)
RunOnRequest(used, f) ==
  LET after[n \in 0..Len(used)] ==
        IF n = 0 THEN [flow |-> f, verdict |-> [is |-> "continue", status |-> ""]]
        ELSE ApplyToRequest(after[n - 1], used[n])
  IN after[Len(used)]

RunOnResponse(used, f) ==
  LET after[n \in 0..Len(used)] == IF n = 0 THEN f ELSE ApplyToResponse(after[n - 1], used[n])
  IN after[Len(used)]

RulesOnRequest(rules, f)  == RunOnRequest(SortedRules(rules), f)

RulesOnResponse(rules, f) == IF f.response = <<>> THEN f ELSE RunOnResponse(SortedRules(rules), f)
=============================================================================
