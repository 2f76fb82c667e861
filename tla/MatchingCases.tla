---------------------------- MODULE MatchingCases ----------------------------
(***************************************************************************)
(* Small rules, flows and texts for Matching.                              *)
(***************************************************************************)
EXTENDS Matching

Url(host, path) == [scheme |-> "https", host |-> host, path |-> path, query |-> ""]
BadUrl == [scheme |-> ":", host |-> "", path |-> "", query |-> ""]

NoHeader == [n \in {"Host", "Content-Type", "X"} |-> ""]
Response(status) == [status |-> status, header |-> NoHeader, body |-> <<"w">>]

(* A request as it was read, before any response and with one.             *)
MCFlowsMet == {[request  |-> [url |-> Url("h", "/p"), host |-> "h", path |-> "/p", method |-> "GET",
                               header |-> NoHeader, body |-> <<"v", "w">>],
                 response |-> r, modified |-> FALSE] : r \in {<<>>, <<Response("200")>>}}

On(field, op, texts, negate) ==
  [field |-> field, header |-> "X", op |-> op, value |-> "200", value2 |-> "404", pattern |-> texts, negate |-> negate]
OnHost(host)      == On("url_host", "matches", {host}, FALSE)
OnStatus(op, neg) == On("response_status", op, {}, neg)

HeaderAction(type, name, value) ==
  [type |-> type, name |-> name, value |-> value, add |-> <<>>, modify |-> <<>>, remove |-> {"X"}]

(* <<conditions, logic, actions>> *)
Bodies == <<
  << <<OnHost("h")>>, "AND", <<[type |-> "redirect", to |-> Url("t", "/")]>> >>,
  << <<OnHost("t")>>, "AND", <<[type |-> "block", status |-> ""]>> >>,
  << <<On("url", "regex", {"https://h/p"}, FALSE)>>, "AND",
    <<[type |-> "modify_url", pattern |-> {Url("h", "/p")}, to |-> Url("t", "/q")]>> >>,
  << <<On("url", "not_regex", BadRegex, FALSE), OnHost("h")>>, "OR",
    <<[type |-> "modify_url", pattern |-> {Url("h", "/p"), Url("t", "/p")}, to |-> BadUrl]>> >>,
  << <<>>, "AND", <<HeaderAction("modify_headers", "Host", "o"), [type |-> "delay"]>> >>,
  << <<OnStatus("between", TRUE)>>, "AND", <<[type |-> "block", status |-> "404"]>> >>,
  << <<OnStatus("greater_than", TRUE)>>, "AND",
    <<[type |-> "replace_body", body |-> <<>>, contentType |-> "t"],
      [type |-> "modify_status", status |-> "404"]>> >>,
  << <<OnStatus("less_than", FALSE), On("method", "not_matches", {"GET"}, FALSE),
     On("request_header", "exists", {}, TRUE)>>, "OR",
    <<[type |-> "auto_respond", response |-> Response("")], [type |-> "block", status |-> ""]>> >>,
  << <<On("content_type", "not_exists", {}, FALSE), On("scheme", "matches", {"https"}, FALSE)>>, "AND",
    <<[type |-> "modify_body", from |-> "w", to |-> "z"],
      [type |-> "modify_response_body", from |-> "w", to |-> "z"],
      HeaderAction("modify_response_headers", "X", "1")>> >> >>

(* A rule at place n of the list: a disabled one, or one of the bodies.    *)
RuleAt(n, priority, b) ==
  [id |-> n, enabled |-> TRUE, priority |-> priority,
   conditions |-> b[1], logic |-> b[2], actions |-> b[3]]
DisabledAt(n) ==
  [RuleAt(n, 1, << <<>>, "", <<[type |-> "block", status |-> "200"]>> >>) EXCEPT !.enabled = FALSE]

MCWrittenRules    == {RuleAt(n, p, Bodies[b]) : n \in 1..3, p \in 1..2, b \in DOMAIN Bodies} \cup {DisabledAt(n) : n \in 1..3}
MCMatchTexts == UNION {[1..n -> {"a", "b", "."}] : n \in 0..4}
=============================================================================
