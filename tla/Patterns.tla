------------------------------ MODULE Patterns -------------------------------
(***************************************************************************)
(* Patterns with the wildcard "*": the URL of a breakpoint rule            *)
(* (internal/pipeline/breakpoint.go) and the hosts of the decryption scope *)
(* (capture/processors/http/scope.go).  Texts and patterns are sequences   *)
(* of letters, of which "*" and "." have a meaning.                        *)
(***************************************************************************)
EXTENDS Naturals, Sequences, SequencesExt, FiniteSets

Stars(p) == {i \in DOMAIN p : p[i] = "*"}

At(text, lit, i) == SubSeq(text, i + 1, i + Len(lit)) = lit

(* The regular expression made of a pattern: a star is ".*", any other     *)
(* letter is itself, and both ends are anchored: the lengths of text it    *)
(* can have matched after each letter, from one of the lengths in `from`.  *)
Glob(p, text, from) ==
  LET after[n \in 0..Len(p)] ==
        IF n = 0 THEN from
        ELSE IF p[n] = "*" THEN {k \in 0..Len(text) : \E j \in after[n - 1] : j <= k}
        ELSE {k \in 1..Len(text) : k - 1 \in after[n - 1] /\ text[k] = p[n]}
  IN Len(text) \in after[Len(p)]

(* matchesLocked: no star, a substring; an empty pattern matches nothing.  *)
RuleMatches(p, text) ==
  /\ p # <<>>
  /\ IF Stars(p) = {} THEN \E i \in 0..(Len(text) - Len(p)) : At(text, p, i)
     ELSE Glob(p, text, {0})

(* compileHostPattern: "*." also matches the bare domain, `(.*\.)?`.       *)
Dots(text) == {i \in DOMAIN text : text[i] = "."}
HostMatches(p, host) ==
  /\ p # <<>>
  /\ IF IsPrefix(<<"*", ".">>, p) THEN Glob(SubSeq(p, 3, Len(p)), host, {0} \cup Dots(host))
     ELSE Glob(p, host, {0})

(* decryptScope.allows.                                                    *)
Allows(scope, host) ==
  /\ scope.enabled
  /\ CASE scope.mode = "allow" -> \E p \in scope.allow : HostMatches(p, host)
       [] scope.mode = "deny"  -> \A p \in scope.deny : ~HostMatches(p, host)
       [] OTHER                -> TRUE

(* ShouldBreakFor: the switch of the phase, or a rule of it.               *)
ShouldBreakFor(switches, rules, url, phase) ==
  \/ phase \in switches
  \/ \E r \in rules : r.enabled /\ phase \in r.phases /\ RuleMatches(r.url, url)

(* matchPattern, of a plugin's lists: stars count only at the two ends.    *)
Trim(p) ==
  LET letters == {i \in DOMAIN p : p[i] # "*"}
  IN IF letters = {} THEN <<>> ELSE SubSeq(p, Min(letters), Max(letters))

ListMatches(p, text) ==
  \/ p \in {<<>>, <<"*">>}
  \/ IF p[1] = "*" /\ p[Len(p)] = "*" THEN \E i \in 0..(Len(text) - Len(Trim(p))) : At(text, Trim(p), i)
     ELSE IF p[Len(p)] = "*" THEN IsPrefix(Front(p), text)
     ELSE IF p[1] = "*" THEN IsSuffix(Tail(p), text)
     ELSE p = text
=============================================================================
