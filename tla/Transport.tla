------------------------------ MODULE Transport ------------------------------
(***************************************************************************)
(* The forward transport: round trips over a pool of upstream connections  *)
(* (internal/forward/transport.go) and the switch of the upstream proxy    *)
(* (internal/core/engine.go).                                              *)
(*                                                                         *)
(* A trip takes an idle connection or dials one, writes its request, reads *)
(* the head of the answer and hands the body to its caller, whose Close    *)
(* reads the rest and puts the connection back.  A guard closes the        *)
(* connection when the trip is cancelled, until Close takes it away.  An idle connection that the upstream has closed in the   *)
(* meantime is replaced once.  What cannot be sent faithfully is left to   *)
(* the standard transport ("bypassed"), which is not modelled.             *)
(***************************************************************************)
EXTENDS Integers, Sequences, FiniteSets, SequencesExt

CONSTANTS
  Trips,           \* round trips
  Replayable,      \* those with a method that may be replayed
  Cancellable,     \* those with a context that may be cancelled
  Links, NoLink,   \* upstream connections
  Proxies,         \* upstream proxies, one of which may stand for none
  MaxIdlePerHost,  \* idle connections kept for one target and proxy
  MaxSwitches      \* bound on the switches of the proxy

ASSUME TransportAssumption ==
  /\ Replayable \cup Cancellable \subseteq Trips
  /\ NoLink \notin Links
  /\ Proxies # {}
  /\ MaxIdlePerHost \in Nat \ {0}
  /\ MaxSwitches \in Nat

VARIABLES
  trip,      \* the locals of RoundTrip and of its pooledBody
  link,      \* the connections and what is on them
  idle,      \* proxy -> stack of idle connections; one target
  proxy,     \* the proxy new trips take
  switches,  \* of the proxy, so far
  dropping   \* SetUpstreamProxy has swapped, the pool is still to be emptied

proxyVars     == <<proxy, switches, dropping>>
transportVars == <<trip, link, idle, proxyVars>>

NoAnswer == [of |-> {}, part |-> "none", kind |-> "none"]

NewTrip ==
  [at |-> "begin", key |-> {}, link |-> NoLink, fromIdle |-> FALSE, attempt |-> 0,
   cancelled |-> FALSE, guard |-> "off",
   answer |-> NoAnswer, body |-> "none", sent |-> 0]

(* `gone`: the upstream has closed; `inbox` holds the requests it has      *)
(* received and `buf` what it sent and is unread.  An answer is "final",     *)
(* "last" when the connection is not reusable after it, or "info" (1xx).   *)
NewLink == [open |-> FALSE, key |-> {}, broken |-> FALSE, doomed |-> FALSE,
            gone |-> FALSE, inbox |-> <<>>, buf |-> <<>>, informed |-> FALSE]

TransportInit ==
  /\ trip = [r \in Trips |-> NewTrip]
  /\ link = [c \in Links |-> NewLink]
  /\ idle = [p \in Proxies |-> <<>>]
  /\ proxy = CHOOSE p \in Proxies : TRUE
  /\ switches = 0
  /\ dropping = FALSE

LinkOf(r) == link[trip[r].link]

(* A closed connection is forgotten, but for the guard that is at it; then *)
(* its name may stand for another one.                                     *)
Forgotten(c) == [NewLink EXCEPT !.doomed = link[c].doomed]
CloseAll(cs) == [c \in Links |-> IF c \in cs THEN Forgotten(c) ELSE link[c]]
Unused(c)    == link[c] = NewLink /\ \A r \in Trips : trip[r].link # c

-----------------------------------------------------------------------------
(* A trip that has ended keeps what the properties ask for.                *)
Ended(r, how) ==
  [trip EXCEPT ![r] = [NewTrip EXCEPT
     !.at = how, !.sent = IF how = "bypassed" THEN trip[r].sent + 1 ELSE trip[r].sent]]

(* The trip.  Begin reads the proxy once; later switches do not touch it.  *)
Begin(r) ==
  /\ trip[r].at = "begin"
  /\ trip' = [trip EXCEPT ![r].at = "acquire", ![r].key = proxy]
  /\ UNCHANGED <<link, idle, proxyVars>>

(* No ordered headers, an upgrade, a CONNECT, or a body that is too large. *)
Bypass(r) ==
  /\ trip[r].at = "begin"
  /\ trip' = Ended(r, "bypassed")
  /\ UNCHANGED <<link, idle, proxyVars>>

(* Dial, the proxy's CONNECT or the handshake fails, or the upstream       *)
(* insists on HTTP/2: nothing was sent yet.                                *)
DialFails(r) ==
  /\ trip[r].at = "acquire"
  /\ idle[trip[r].key] = <<>>
  /\ trip' = Ended(r, "bypassed")
  /\ UNCHANGED <<link, idle, proxyVars>>

Holding(r, c, fromIdle) ==
  [trip EXCEPT ![r].at = "write", ![r].link = c, ![r].fromIdle = fromIdle, ![r].guard = "armed"]

(* The most recently used connection; the guard is armed at once.          *)
TakeIdle(r) ==
  LET stack == idle[trip[r].key] IN
  /\ trip[r].at = "acquire"
  /\ stack # <<>>
  /\ idle' = [idle EXCEPT ![trip[r].key] = Front(stack)]
  /\ trip' = Holding(r, Last(stack), TRUE)
  /\ UNCHANGED <<link, proxyVars>>

(* When the latest has expired, so have those below it.                    *)
Expire(r) ==
  LET stack == idle[trip[r].key] IN
  /\ trip[r].at = "acquire"
  /\ stack # <<>>
  /\ idle' = [idle EXCEPT ![trip[r].key] = <<>>]
  /\ link' = CloseAll(Range(stack))
  /\ UNCHANGED <<trip, proxyVars>>

Dial(r) ==
  /\ trip[r].at = "acquire"
  /\ idle[trip[r].key] = <<>>
  /\ \E c \in Links :
       /\ Unused(c)
       /\ link' = [link EXCEPT ![c].open = TRUE, ![c].key = trip[r].key]
       /\ trip' = Holding(r, c, FALSE)
  /\ UNCHANGED <<idle, proxyVars>>

(* After an error: the guard is disarmed, the connection closed, and the   *)
(* trip fails, goes back for another connection, or is left to the         *)
(* standard transport.                                                     *)
GiveUpLink(r, retry, otherwise) ==
  LET next == IF trip[r].cancelled THEN "failed"
              ELSE IF ~retry THEN otherwise
              ELSE IF trip[r].attempt = 0 THEN "acquire" ELSE "bypassed"
  IN /\ trip' = IF next = "acquire"
                THEN [trip EXCEPT ![r].at = next, ![r].link = NoLink, ![r].guard = "off", ![r].attempt = @ + 1]
                ELSE Ended(r, next)
     /\ link' = CloseAll({trip[r].link})

(* A request that reaches an upstream that has gone is lost.               *)
Write(r) ==
  /\ trip[r].at = "write"
  /\ LinkOf(r).open
  /\ IF LinkOf(r).gone
     THEN trip' = [trip EXCEPT ![r].at = "read"] /\ UNCHANGED link
     ELSE /\ trip' = [trip EXCEPT ![r].at = "read", ![r].sent = @ + 1]
          /\ link' = [link EXCEPT ![trip[r].link].inbox = Append(@, r)]
  /\ UNCHANGED <<idle, proxyVars>>

WriteFails(r) ==
  /\ trip[r].at = "write"
  /\ ~LinkOf(r).open \/ LinkOf(r).gone
  /\ GiveUpLink(r, trip[r].fromIdle, "bypassed")
  /\ UNCHANGED <<idle, proxyVars>>

ReadHead(r) ==
  /\ trip[r].at = "read"
  /\ LinkOf(r).buf # <<>>
  /\ trip' = [trip EXCEPT ![r].at = "body", ![r].answer = Head(LinkOf(r).buf), ![r].body = "open"]
  /\ link' = [link EXCEPT ![trip[r].link].buf = Tail(@)]
  /\ UNCHANGED <<idle, proxyVars>>

(* Mutant of ReadFails: every method is replayed.                          *)
ReadFailsReplayed(r) ==
  /\ trip[r].at = "read"
  /\ LinkOf(r).buf = <<>> \/ ~LinkOf(r).open
  /\ GiveUpLink(r, trip[r].fromIdle, "failed")
  /\ UNCHANGED <<idle, proxyVars>>

(* The connection has ended, or no head came in time.  Once the request    *)
(* has been written it is replayed only when its method allows that.       *)
ReadFails(r) ==
  /\ trip[r].at = "read"
  /\ LinkOf(r).buf = <<>> \/ ~LinkOf(r).open
  /\ GiveUpLink(r, trip[r].fromIdle /\ r \in Replayable, "failed")
  /\ UNCHANGED <<idle, proxyVars>>

-----------------------------------------------------------------------------
(* The body, read and closed by the caller.  A 1xx answer has none.        *)
BodyEnds(r) ==
  /\ trip[r].at = "body"
  /\ trip[r].body = "open"
  /\ \/ /\ trip[r].answer.kind = "info"
        /\ UNCHANGED link
     \/ /\ trip[r].answer.kind # "info"
        /\ LinkOf(r).buf # <<>>
        /\ link' = [link EXCEPT ![trip[r].link].buf = Tail(@)]
  /\ trip' = [trip EXCEPT ![r].body = "eof"]
  /\ UNCHANGED <<idle, proxyVars>>

BodyFails(r) ==
  /\ trip[r].at = "body"
  /\ trip[r].body = "open"
  /\ ~LinkOf(r).open \/ (LinkOf(r).gone /\ LinkOf(r).buf = <<>>)
  /\ trip' = [trip EXCEPT ![r].body = "error"]
  /\ link' = [link EXCEPT ![trip[r].link].broken = TRUE]
  /\ UNCHANGED <<idle, proxyVars>>

(* Mutant of Reusable: without the result of disarm.                       *)
ReusableUnguarded(r) ==
  trip[r].answer.kind # "last" /\ trip[r].body = "eof" /\ ~LinkOf(r).broken

(* disarm won against the guard, the answer allows it, the body was read   *)
(* to its end, and nothing went wrong.                                     *)
Reusable(r) ==
  /\ trip[r].guard = "won"
  /\ trip[r].answer.kind # "last"
  /\ trip[r].body = "eof"
  /\ ~LinkOf(r).broken

(* Close, at any time: the guard is disarmed, unless it has fired.         *)
CloseBody(r) ==
  /\ trip[r].at = "body"
  /\ trip' = [trip EXCEPT ![r].at = "close",
                          ![r].guard = IF @ = "armed" THEN "won" ELSE @]
  /\ UNCHANGED <<link, idle, proxyVars>>

(* The body's own Close reads what was not read yet.                       *)
Drained(r) ==
  \/ trip[r].body # "open"
  \/ trip[r].answer.kind = "info"
  \/ LinkOf(r).buf # <<>>
  \/ ~LinkOf(r).open \/ LinkOf(r).gone

(* Then the connection is put back or closed.  On a full stack the oldest  *)
(* one is dropped.  A last answer may be closed without reading the rest.  *)
DrainEnds(r) ==
  LET c      == trip[r].link
      stack  == Append(idle[link[c].key], c)
      excess == Len(stack) - MaxIdlePerHost
  IN
  /\ trip[r].at = "close"
  /\ Drained(r) \/ trip[r].answer.kind = "last"
  /\ \/ /\ Reusable(r)
        /\ idle' = [idle EXCEPT ![link[c].key] = IF excess > 0 THEN Tail(stack) ELSE stack]
        /\ link' = IF excess > 0 THEN CloseAll({Head(stack)}) ELSE link
     \/ /\ ~Reusable(r)
        /\ link' = CloseAll({c})
        /\ UNCHANGED idle
  /\ trip' = Ended(r, "answered")
  /\ UNCHANGED <<proxyVars>>

-----------------------------------------------------------------------------
(* The caller's context, and the goroutine that guards the connection: it  *)
(* wins the flag first and closes the connection after that.               *)
Cancel(r) ==
  /\ r \in Cancellable
  /\ trip[r].at \in {"acquire", "write", "read", "body", "close"}
  /\ ~trip[r].cancelled
  /\ trip' = [trip EXCEPT ![r].cancelled = TRUE]
  /\ UNCHANGED <<link, idle, proxyVars>>

(* Mutant of GuardFires: the guard ends with the head.                     *)
GuardFiresBeforeBody(r) ==
  /\ trip[r].cancelled
  /\ trip[r].guard = "armed"
  /\ trip[r].at # "body"
  /\ trip' = [trip EXCEPT ![r].guard = "fired"]
  /\ link' = [link EXCEPT ![trip[r].link].doomed = TRUE]
  /\ UNCHANGED <<idle, proxyVars>>

GuardFires(r) ==
  /\ trip[r].cancelled
  /\ trip[r].guard = "armed"
  /\ trip' = [trip EXCEPT ![r].guard = "fired"]
  /\ link' = [link EXCEPT ![trip[r].link].doomed = TRUE]
  /\ UNCHANGED <<idle, proxyVars>>

GuardCloses(c) ==
  /\ link[c].doomed
  /\ link' = IF \E r \in Trips : trip[r].link = c
             THEN [link EXCEPT ![c].doomed = FALSE, ![c].broken = TRUE, ![c].open = FALSE]
             ELSE [link EXCEPT ![c] = NewLink]
  /\ UNCHANGED <<trip, idle, proxyVars>>

-----------------------------------------------------------------------------
(* SetUpstreamProxy: the pointer is swapped, then the pool is emptied.     *)
SwapProxy(p) ==
  /\ p # proxy
  /\ ~dropping
  /\ switches < MaxSwitches
  /\ switches' = switches + 1
  /\ proxy' = p
  /\ dropping' = TRUE
  /\ UNCHANGED <<trip, link, idle>>

CloseIdleConnections ==
  /\ dropping
  /\ idle' = [p \in Proxies |-> <<>>]
  /\ link' = CloseAll(UNION {Range(idle[p]) : p \in Proxies})
  /\ dropping' = FALSE
  /\ UNCHANGED <<trip, proxy, switches>>

-----------------------------------------------------------------------------
(* The upstream: answers the requests of a connection in turn, each with a *)
(* head and a body, at most once with a 1xx head before that, may fail in  *)
(* the middle of an answer, and leaves when it likes.                      *)
Part(c, part, kind) == <<[of |-> Head(link[c].inbox), part |-> part, kind |-> kind]>>

UpstreamInforms(c) ==
  /\ link[c].inbox # <<>>
  /\ ~link[c].gone /\ ~link[c].informed
  /\ link' = [link EXCEPT ![c].informed = TRUE, ![c].buf = @ \o Part(c, "head", "info")]
  /\ UNCHANGED <<trip, idle, proxyVars>>

UpstreamAnswers(c) ==
  /\ link[c].inbox # <<>>
  /\ ~link[c].gone
  /\ \E kind \in {"final", "last"} :
       link' = [link EXCEPT ![c].buf = @ \o Part(c, "head", kind) \o Part(c, "body", kind), ![c].inbox = Tail(@)]
  /\ UNCHANGED <<trip, idle, proxyVars>>

UpstreamFails(c) ==
  /\ link[c].inbox # <<>>
  /\ ~link[c].gone
  /\ link' = [link EXCEPT ![c].buf = @ \o Part(c, "head", "final"), ![c].inbox = <<>>, ![c].gone = TRUE]
  /\ UNCHANGED <<trip, idle, proxyVars>>

UpstreamLeaves(c) ==
  /\ link[c].open
  /\ ~link[c].gone
  /\ link[c].buf = <<>>
  /\ link' = [link EXCEPT ![c].gone = TRUE, ![c].inbox = <<>>]
  /\ UNCHANGED <<trip, idle, proxyVars>>

-----------------------------------------------------------------------------
Acquire(r) == TakeIdle(r) \/ Expire(r) \/ Dial(r) \/ DialFails(r)

RoundTrip(r) ==
  \/ Begin(r)
  \/ Bypass(r)
  \/ Acquire(r)
  \/ Write(r)
  \/ WriteFails(r)
  \/ ReadHead(r)
  \/ ReadFails(r)

Body(r) == BodyEnds(r) \/ BodyFails(r) \/ CloseBody(r) \/ DrainEnds(r)

Upstream(c) ==
  \/ UpstreamInforms(c)
  \/ UpstreamAnswers(c)
  \/ UpstreamFails(c)
  \/ UpstreamLeaves(c)

TransportNext ==
  \/ \E r \in Trips : RoundTrip(r) \/ Body(r) \/ Cancel(r) \/ GuardFires(r)
  \/ \E c \in Links : GuardCloses(c) \/ Upstream(c)
  \/ \E p \in Proxies : SwapProxy(p)
  \/ CloseIdleConnections

(* The goroutines run, and a read or write of a closed connection returns; *)
(* the wait for a head has a timeout.  Nothing is assumed of the upstream: *)
(* a write may wait for ever, and neither a head nor a byte need come.     *)
(* The caller closes a body whose read has ended.                          *)
TransportFairness ==
  /\ \A r \in Trips :
       /\ WF_transportVars(Acquire(r) \/ WriteFails(r) \/ ReadFails(r))
       /\ WF_transportVars(BodyFails(r))
       /\ WF_transportVars(trip[r].body # "open" /\ CloseBody(r))
       /\ WF_transportVars(DrainEnds(r) /\ Drained(r))
       /\ WF_transportVars(GuardFires(r))
  /\ \A c \in Links : WF_transportVars(GuardCloses(c))

TransportSpec == TransportInit /\ [][TransportNext]_transportVars /\ TransportFairness

-----------------------------------------------------------------------------
TransportTypeOK ==
  /\ \A r \in Trips :
       /\ trip[r].at \in {"begin", "acquire", "write", "read", "body", "close",
                         "answered", "failed", "bypassed"}
       /\ trip[r].link \in Links \cup {NoLink}
       /\ trip[r].guard \in {"off", "armed", "won", "fired"}
       /\ trip[r].sent \in Nat /\ trip[r].attempt \in 0..2
  /\ \A c \in Links : link[c].buf \in Seq([of : Trips, part : {"head", "body"}, kind : {"final", "last", "info"}])
  /\ idle \in [Proxies -> Seq(Links)]
  /\ proxy \in Proxies /\ switches \in 0..MaxSwitches /\ dropping \in BOOLEAN

Holds(r, c) == trip[r].link = c
Pooled(c)   == \E p \in Proxies : c \in Range(idle[p])

(* A connection has one owner: a trip in flight, or one place in the pool. *)
(* None is lost: what is open has an owner.  The pool holds open           *)
(* connections that no guard is going to close, each under the proxy it    *)
(* goes through, never more than MaxIdlePerHost; and a trip only uses      *)
(* connections through the proxy it was begun with (transport.go:552).     *)
PoolSound ==
  /\ TransportTypeOK
  /\ \A r \in Trips : trip[r].link # NoLink =>
       /\ trip[r].at \in {"write", "read", "body", "close"}
       /\ LinkOf(r).key = trip[r].key
       /\ ~Pooled(trip[r].link)
       /\ \A s \in Trips \ {r} : trip[s].link # trip[r].link
  /\ \A c \in Links : link[c].open => Pooled(c) \/ \E r \in Trips : Holds(r, c)
  /\ \A p \in Proxies :
       /\ Len(idle[p]) <= MaxIdlePerHost
       /\ IsInjective(idle[p])
       /\ \A c \in Range(idle[p]) :
            link[c].open /\ link[c].key = p /\ ~link[c].broken /\ ~link[c].doomed

(* A request that must not be replayed reaches an upstream at most once,   *)
(* whatever fails and however often the connection is replaced             *)
(* (transport.go:228).                                                     *)
SentOnce == \A r \in Trips : r \in Replayable \/ trip[r].sent <= 1

(* The answer a trip returns is the answer to its own request.             *)
AnswerIsOwn == \A r \in Trips :
  trip[r].at = "body" => trip[r].answer.of = r /\ trip[r].answer.part = "head"

(* A request and an answer each, in spite of reuse and retries: what must  *)
(* not be replayed is sent once; and, short of a 1xx answer, after which   *)
(* the next trip reads the answer this one has left, a reused connection   *)
(* never hands a trip the rest of another one's answer (transport.go:559). *)
AnswersMatch ==
  /\ SentOnce
  /\ \A r \in Trips : trip[r].at \in {"body", "close"} /\ ~LinkOf(r).informed =>
       trip[r].answer.of = r /\ trip[r].answer.part = "head"

(* A trip whose context is cancelled ends, although the upstream says      *)
(* nothing and never closes: the guard interrupts the write, the wait for  *)
(* the head and the read of the body (transport.go:130).  It does not end  *)
(* when Close has come before the guard and now reads the rest of a body:  *)
(* that nothing interrupts.                                                *)
CancelledEnds == \A r \in Trips :
  trip[r].cancelled ~>
    \/ trip[r].at \in {"answered", "failed", "bypassed"}
    \/ trip[r].at = "close" /\ trip[r].guard = "won" /\ ~Drained(r)
=============================================================================
