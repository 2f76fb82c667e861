----------------------------- MODULE ScriptView ------------------------------
(***************************************************************************)
(* What a plugin's script sees of an exchange and what is taken back from  *)
(* it (internal/plugin/js/plugin.go): the exchange enters the VM as JSON,  *)
(* its headers as one value each, and the fields in which the script's     *)
(* result differs are written back to the original, with its decision.  A  *)
(* result that does not unmarshal (a number for a body, a text for a       *)
(* status, an error of the script's engine) is dropped as a whole.         *)
(*                                                                         *)
(* Headers are functions from names to sequences of values; a request      *)
(* stands for its URL (always taken back) and its host (not when empty), a *)
(* response for its status (not when zero).  An exchange without a         *)
(* response has <<>> for it, else a sequence of one.  "table" says that    *)
(* what the script shows has a table of headers: json leaves an empty one  *)
(* out, and a script may remove it, which is not to remove the headers.    *)
(***************************************************************************)
EXTENDS Naturals, Sequences

CONSTANTS
    Starts,        \* URLs, and the status of a response
    Sites,         \* hosts
    Contents,      \* bodies
    HeaderNames,
    HeaderValues,
    Headers,       \* the headers that messages have
    UrlPatterns    \* of the lists of a plugin

ASSUME ScriptAssumption ==
    \A h \in Headers : DOMAIN h \subseteq HeaderNames /\ h \in [DOMAIN h -> Seq(HeaderValues)]

VARIABLES
    exchange,  \* the exchange a plugin is called with
    result     \* the object its script works on

\* json.Marshal replaces what is not UTF-8, so a binary body does not come back.
Marshalled(body) == IF body = "binary" THEN "replaced" ELSE body

Flatten(h) == [k \in {x \in DOMAIN h : h[x] # <<>>} |-> h[k][1]]
Unflatten(flat) == [k \in DOMAIN flat |-> <<flat[k]>>]

\* requestToJS, and the decision a script starts with
ViewOf(x) ==
    [request |-> [start |-> x.request.start, host |-> x.request.host,
                  table |-> DOMAIN Flatten(x.request.header) # {},
                  headers |-> Flatten(x.request.header), body |-> Marshalled(x.request.body)],
     response |-> IF x.response = <<>> THEN <<>>
                  ELSE LET r == x.response[1] IN
                       << [start |-> r.start, table |-> DOMAIN Flatten(r.header) # {},
                           headers |-> Flatten(r.header), body |-> Marshalled(r.body)] >>,
     decision |-> "continue", readable |-> TRUE]

\* Mutant of MergeHeaders: every header is written back as the script saw it.
MergeHeadersFlat(orig, edited) == Unflatten(edited)

\* A header that was not touched keeps all its values.
MergeHeaders(orig, edited) ==
    IF Flatten(orig) = edited THEN orig
    ELSE [k \in DOMAIN edited |->
             IF k \in DOMAIN orig /\ orig[k] # <<>> /\ orig[k][1] = edited[k]
             THEN orig[k] ELSE <<edited[k]>>]

\* Without a table the headers are left alone.
EditedHeaders(orig, v) == IF v.table THEN MergeHeaders(orig, v.headers) ELSE orig

EditedRequest(r, v) ==
    [r EXCEPT !.start = v.start, !.host = IF v.host = "" THEN @ ELSE v.host,
              !.header = EditedHeaders(@, v), !.body = v.body]

EditedResponse(r, v) ==
    [r EXCEPT !.start = IF v.start = "" THEN @ ELSE v.start,
              !.header = EditedHeaders(@, v), !.body = v.body]

\* A script that mocks a request brings the whole response; one that removes
\* the response leaves the original.
ResponseOf(x, v) ==
    IF v.response = <<>> THEN x.response
    ELSE IF x.response = <<>>
         THEN << [start |-> v.response[1].start, header |-> Unflatten(v.response[1].headers),
                  body |-> v.response[1].body] >>
         ELSE << EditedResponse(x.response[1], v.response[1]) >>

\* Nothing of a result that does not unmarshal is applied, nor its decision.
ApplyHTTP(x, v) ==
    IF v.readable
    THEN [request |-> EditedRequest(x.request, v.request), response |-> ResponseOf(x, v),
          decision |-> v.decision]
    ELSE [request |-> x.request, response |-> x.response, decision |-> "continue"]

\* Plugin.Match, of the patterns that match the URL: the black list first, then
\* the white list, which may be empty.
PluginMatch(lists, matching) ==
    /\ lists.black \cap matching = {}
    /\ lists.white = {} \/ \E p \in lists.white : p \in matching

-----------------------------------------------------------------------------
Responses == [start : Starts, header : Headers, body : Contents]

ScriptInit ==
    /\ exchange \in [request : [start : Starts, host : Sites, header : Headers, body : Contents],
                     response : {<<>>} \cup {<< r >> : r \in Responses}]
    /\ result = ViewOf(exchange)

Flat == UNION {[names -> HeaderValues] : names \in SUBSET HeaderNames}

SetHeader(h, n, v) == [k \in DOMAIN h \cup {n} |-> IF k = n THEN v ELSE h[k]]
DropHeader(h, n)   == [k \in DOMAIN h \ {n} |-> h[k]]

NoHeaders          == [k \in {} |-> k]

WithHeader(m, n, v) == [m EXCEPT !.table = TRUE, !.headers = SetHeader(@, n, v)]
Untabled(m)         == [m EXCEPT !.table = FALSE, !.headers = NoHeaders]

\* What may be assigned to the fields of a message.
Assigned(m) ==
    {[m EXCEPT !.start = t] : t \in Starts}
    \cup {[m EXCEPT !.body = Marshalled(b)] : b \in Contents}
    \cup {WithHeader(m, n, v) : n \in HeaderNames, v \in HeaderValues}
    \cup {[m EXCEPT !.headers = DropHeader(@, n)] : n \in HeaderNames}
    \cup {Untabled(m)}

\* A decision is thrown and ends the script: one that catches it leaves nothing
\* that it could not have assigned before.
Runs == result.readable /\ result.decision = "continue"

\* The user's script, one assignment at a time.
EditRequest ==
    /\ Runs
    /\ result' \in {[result EXCEPT !.request = m] :
                       m \in Assigned(result.request)
                             \cup {[result.request EXCEPT !.host = t] : t \in Sites}}
    /\ UNCHANGED exchange

EditResponse ==
    /\ Runs
    /\ result.response # <<>>
    /\ result' \in {[result EXCEPT !.response = << m >>] : m \in Assigned(result.response[1])}
    /\ UNCHANGED exchange

\* It brings a response of its own, or takes the response away.
Answer ==
    /\ Runs
    /\ \/ \E t \in Starts, h \in Flat, b \in Contents :
             result' = [result EXCEPT !.response =
               << [start |-> t, table |-> DOMAIN h # {}, headers |-> h, body |-> Marshalled(b)] >>]
       \/ result' = [result EXCEPT !.response = <<>>]
    /\ UNCHANGED exchange

\* mock, abort, setBreakpoint
Decide ==
    /\ Runs
    /\ \E d \in {"mock", "abort", "breakpoint"} : result' = [result EXCEPT !.decision = d]
    /\ UNCHANGED exchange

\* A field gets a value of another type, before or after it decided.
Misassign ==
    /\ result.readable
    /\ result' = [result EXCEPT !.readable = FALSE]
    /\ UNCHANGED exchange

ScriptNext == EditRequest \/ EditResponse \/ Answer \/ Decide \/ Misassign
ScriptSpec == ScriptInit /\ [][ScriptNext]_<<exchange, result>>

-----------------------------------------------------------------------------
\* What the headers are after a script left the flat ones: a header it shows
\* as it was keeps all its values, one that was set has one value, and one
\* that was deleted is gone.
HeadersKept(old, new, flat) ==
    /\ Flatten(new) = flat
    /\ \A k \in DOMAIN flat :
          new[k] = IF k \in DOMAIN Flatten(old) /\ Flatten(old)[k] = flat[k] THEN old[k] ELSE << flat[k] >>

\* A message without a table keeps its headers.
TableKept(old, new, m) == IF m.table THEN HeadersKept(old, new, m.headers) ELSE new = old

\* A script changes what it touches and nothing else, as long as the bodies are
\* text: headers with several values stay whole, the response stays when it
\* edits the request, and the other way round (plugin.go:842, 952).  It is all
\* or nothing: of a result that does not unmarshal no edit is taken and no
\* decision, not even an abort (plugin.go:846).  A plugin runs for a URL on its
\* white list, or any if it is empty, and never for one on its black list.
ScriptsEdit ==
    LET x == exchange
        v == ViewOf(x)
        y == ApplyHTTP(x, result)
    IN /\ ~result.readable =>
             y.request = x.request /\ y.response = x.response /\ y.decision = "continue"
       /\ result.readable =>
            /\ y.decision = result.decision
            /\ TableKept(x.request.header, y.request.header, result.request)
            /\ y.request.start = result.request.start /\ y.request.body = result.request.body
            /\ result.request = v.request /\ x.request.body # "binary" => y.request = x.request
            /\ result.response # <<>> =>
                  /\ y.response[1].body = result.response[1].body
                  /\ x.response # <<>> =>
                       /\ TableKept(x.response[1].header, y.response[1].header, result.response[1])
                       /\ result.response[1].start = "" => y.response[1].start = x.response[1].start
                  /\ x.response = <<>> => Flatten(y.response[1].header) = result.response[1].headers
            /\ result.response = <<>> => y.response = x.response
            /\ result.response = v.response /\ (x.response # <<>> => x.response[1].body # "binary")
                 => y.response = x.response
       /\ \A white, black, matching \in SUBSET UrlPatterns :
            PluginMatch([white |-> white, black |-> black], matching) =
              ((white = {} \/ \E p \in matching : p \in white) /\ \A p \in matching : p \notin black)
=============================================================================
