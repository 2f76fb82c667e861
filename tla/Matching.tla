------------------------------ MODULE Matching -------------------------------
(***************************************************************************)
(* What users write, the rules of the engine and patterns with stars, and  *)
(* what it means: a list of rules grows rule by rule, a pattern letter by  *)
(* letter, and at each point they act on exchanges and texts as they say.  *)
(***************************************************************************)
EXTENDS Rules, Patterns

CONSTANTS
  WrittenRules, \* the rules that may be written, with the place in the list as id
  FlowsMet,     \* the flows they may meet
  Letters,      \* of patterns
  MatchTexts    \* URLs and host names

(* A flow whose request has been read has the host and the path of its URL.*)
Record(r, fields) == r = [k \in fields |-> r[k]]

AFlow(f) ==
  /\ Record(f, {"request", "response", "modified"})
  /\ Record(f.request, {"url", "host", "path", "method", "header", "body"})
  /\ Parses(f.request.url) => f.request.host = f.request.url.host /\ f.request.path = f.request.url.path

ASSUME FlowsAreMet    == \A f \in FlowsMet : AFlow(f)
ASSUME RulesArePlaced == \A r \in WrittenRules :
                           r.id \in Nat /\ r.priority \in Int /\ r.actions \in Seq(ToSet(r.actions))
ASSUME TextsAreTexts == Letters \subseteq STRING /\ \A text \in MatchTexts : text \in Seq(STRING)

VARIABLES
  rules,   \* the list of rules, in the order in which they were added
  pattern, \* what has been typed of a pattern
  text     \* a URL or a host name

matchVars == <<rules, pattern, text>>

MatchInit == rules = <<>> /\ pattern = <<>> /\ text \in MatchTexts

CreateRule ==
  /\ \E r \in WrittenRules : r.id = Len(rules) + 1 /\ rules' = Append(rules, r)
  /\ UNCHANGED <<pattern, text>>

TypeLetter ==
  /\ \E c \in Letters : pattern' = Append(pattern, c)
  /\ UNCHANGED <<rules, text>>

MatchNext == CreateRule \/ TypeLetter
MatchSpec == MatchInit /\ [][MatchNext]_matchVars

-----------------------------------------------------------------------------
(* A rule that asks for the response.                                      *)
OfResponse(r) == /\ r.logic = "AND"
                 /\ \E i \in DOMAIN r.conditions : r.conditions[i].field \in {"response_status", "response_header"}

(* The hosts that rules set without changing the URL.                      *)
HostsSet(used) == {a.value : a \in {b \in UNION {ToSet(used[i].actions) : i \in DOMAIN used} :
                                      b.type = "modify_headers" /\ HostSet(b)}}

(* The rules that are used are those that are enabled, by priority and,    *)
(* among equals, in the order of the list.                                 *)
WellSorted(used) ==
  /\ ToSet(used) = {r \in ToSet(rules) : r.enabled}
  /\ \A i, j \in DOMAIN used : i < j =>
       \/ used[i].priority < used[j].priority
       \/ used[i].priority = used[j].priority /\ used[i].id < used[j].id

(* What they make of a request, and of a response.                         *)
WellDecided(used, f) ==
  LET last == RulesOnRequest(rules, f)
      req  == last.flow.request
  IN /\ f.response = <<>> => last = RunOnRequest(Only(used, {r \in ToSet(used) : ~OfResponse(r)}), f)
     /\ \A k \in DOMAIN used :
          LET part == RunOnRequest(SubSeq(used, 1, k), f) IN part.verdict.is # "continue" => part = last
     /\ Parses(req.url) => req.path = req.url.path /\ req.host \in {req.url.host} \cup HostsSet(used)
     /\ ~last.flow.modified => last.flow = f

WellAnswered(f) ==
  LET answered == RulesOnResponse(rules, f)
  IN answered.request = f.request /\ (~answered.modified => answered = f)

(* Rules are tried by priority and, among equals, in the order of the      *)
(* list, whatever that order is otherwise; a disabled rule is as good as   *)
(* no rule; a rule that asks for the response, negated or not, has no say  *)
(* before there is one; the rule that decides is the last that acts; where *)
(* a rewriting leaves a URL, the host and the path that the request is     *)
(* sent to are that URL's, unless a rule set the host; and a flow that is  *)
(* not marked as modified is not (engine.go:47, engine.go:190).            *)
RulesAct ==
  /\ WellSorted(SortedRules(rules))
  /\ \A f \in FlowsMet : WellDecided(SortedRules(rules), f) /\ WellAnswered(f)

-----------------------------------------------------------------------------
(* A pattern covers a text if there is a way to say how far the text has   *)
(* come after each star, the other letters being one letter of the text    *)
(* each, that begins at `start` and reaches the end.                       *)
Reached(p, stretch, start) ==
  LET at[i \in 0..Len(p)] == IF i = 0 THEN start ELSE IF p[i] = "*" THEN stretch[i] ELSE at[i - 1] + 1
  IN at
Covers(p, t, start) ==
  \E stretch \in [Stars(p) -> 0..Len(t)] :
    LET at == Reached(p, stretch, start)
    IN /\ at[Len(p)] = Len(t)
       /\ \A i \in DOMAIN p :
            IF p[i] = "*" THEN at[i - 1] <= at[i] ELSE at[i] <= Len(t) /\ t[at[i]] = p[i]

(* A pattern with stars matches a whole URL, one without a part of it; the *)
(* host pattern "*.d" is d and its subdomains, never a host that only ends *)
(* in the letters of d; and where the two lists of hosts are the same, a   *)
(* host is decrypted in one mode exactly when it is not in the other; and  *)
(* a plugin's pattern with stars at its ends covers the same URLs          *)
(* (breakpoint.go:242, scope.go:95, plugin.go:1008).                       *)
PatternSound(p, t) ==
  LET domain == SubSeq(p, 3, Len(p))
      scope(mode) == [enabled |-> TRUE, mode |-> mode, allow |-> {p}, deny |-> {p}]
  IN /\ RuleMatches(p, t) <=>
          p # <<>> /\ IF Stars(p) = {} THEN \E i, j \in 0..Len(t) : p = SubSeq(t, i + 1, j) ELSE Covers(p, t, 0)
     /\ HostMatches(p, t) <=>
          p # <<>> /\ (Covers(p, t, 0) \/ (IsPrefix(<<"*", ".">>, p) /\ Covers(domain, t, 0)))
     /\ Stars(p) \subseteq {1, Len(p)} => (ListMatches(p, t) <=> p = <<>> \/ Covers(p, t, 0))
     /\ Allows(scope("allow"), t) <=> ~Allows(scope("deny"), t)
     /\ ShouldBreakFor({}, {[enabled |-> TRUE, phases |-> {"request"}, url |-> p]}, t, "request") <=> RuleMatches(p, t)

PatternsMean == PatternSound(pattern, text)

(* A rule acts on the exchanges its patterns mean, and as it says.         *)
RulesMean == RulesAct /\ PatternsMean
=============================================================================
