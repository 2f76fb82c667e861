--------------------------- MODULE UpstreamProofs ---------------------------
(***************************************************************************)
(* Proofs about the upstream side of an exchange: the pool of connections  *)
(* of Transport and its owners; the conversation on them, where whoever    *)
(* gets a connection finds it silent, so that the answer it reads is its   *)
(* own; the relay of streams with the session of its recorder; the         *)
(* scanners, which cut a stream alike however it is cut into reads; and    *)
(* the messages themselves, which are framed and repeated as they should   *)
(* be whatever lines they have and whatever hooks make of them (Fidelity). *)
(***************************************************************************)
EXTENDS Transport, StreamRelay, Scanners, Fidelity, SequenceLemmas, FiniteSetTheorems

-----------------------------------------------------------------------------
(* The pool.                                                               *)

Places == {"begin", "acquire", "write", "read", "body", "close", "answered", "failed", "bypassed"}
Using  == {"write", "read", "body", "close"}
Parts  == [of : Trips, part : {"head", "body"}, kind : {"final", "last", "info"}]
Keys   == Proxies \cup {{}}

TripStates ==
  [at : Places, key : Keys, link : Links \cup {NoLink}, fromIdle : BOOLEAN, attempt : 0..1,
   cancelled : BOOLEAN, guard : {"off", "armed", "won", "fired"},
   answer : Parts \cup {NoAnswer}, body : {"none", "open", "eof", "error"}, sent : Nat]

LinkStates ==
  [open : BOOLEAN, key : Keys, broken : BOOLEAN, doomed : BOOLEAN,
   gone : BOOLEAN, inbox : Seq(Trips), buf : Seq(Parts), informed : BOOLEAN]

TripTypes == trip \in [Trips -> TripStates]
LinkTypes == link \in [Links -> LinkStates]
RestTypes ==
  /\ idle \in [Proxies -> Seq(Links)]
  /\ proxy \in Proxies /\ switches \in 0..MaxSwitches /\ dropping \in BOOLEAN

(* A trip that uses a connection holds one, through its own proxy; while   *)
(* its guard is armed or has been taken away by Close, the connection is   *)
(* open and will stay so.                                                  *)
Unfired == {"armed", "won"}

Holders == \A r \in Trips :
  /\ trip[r].link # NoLink <=> trip[r].at \in Using
  /\ trip[r].at \in Using \cup {"acquire"} => trip[r].key \in Proxies
  /\ trip[r].link # NoLink => LinkOf(r).key = trip[r].key
  /\ trip[r].link # NoLink /\ trip[r].guard \in Unfired => LinkOf(r).open /\ ~LinkOf(r).doomed

Alone == \A r, s \in Trips : r # s /\ trip[r].link # NoLink => trip[s].link # trip[r].link

Apart == \A r \in Trips : trip[r].link # NoLink => ~Pooled(trip[r].link)

Owned == \A c \in Links : link[c].open => Pooled(c) \/ \E r \in Trips : Holds(r, c)

Stacks == \A p \in Proxies :
  /\ Len(idle[p]) <= MaxIdlePerHost
  /\ Distinct(idle[p])
  /\ \A c \in ToSet(idle[p]) : link[c].open /\ link[c].key = p /\ ~link[c].broken /\ ~link[c].doomed

Types   == TripTypes /\ LinkTypes /\ RestTypes
Owners  == Holders /\ Alone /\ Apart /\ Owned /\ Stacks
PoolInv == Types /\ Owners

LEMMA InvGivesPool == PoolInv => PoolSound
<1> SUFFICES ASSUME PoolInv PROVE PoolSound
    OBVIOUS
<1> USE DEF PoolInv, Types, Owners
<1>1. TransportTypeOK
  <2>1. \A r \in Trips : trip[r] \in TripStates
    BY DEF TripTypes
  <2>2. \A c \in Links : link[c] \in LinkStates
    BY DEF LinkTypes
  <2>3. \A r \in Trips :
          /\ trip[r].at \in {"begin", "acquire", "write", "read", "body", "close",
                            "answered", "failed", "bypassed"}
          /\ trip[r].link \in Links \cup {NoLink}
          /\ trip[r].guard \in {"off", "armed", "won", "fired"}
          /\ trip[r].sent \in Nat /\ trip[r].attempt \in 0..2
    BY <2>1 DEF TripStates, Places
  <2>4. \A c \in Links : link[c].buf \in Seq(Parts)
    BY <2>2 DEF LinkStates
  <2> QED BY <2>3, <2>4 DEF TransportTypeOK, RestTypes, Parts
<1>2. \A p \in Proxies : Range(idle[p]) = ToSet(idle[p]) /\ IsInjective(idle[p])
  BY DEF Stacks, Distinct, IsInjective, ToSet, Range
<1>3. \A r \in Trips : trip[r].link # NoLink =>
        /\ trip[r].at \in {"write", "read", "body", "close"}
        /\ LinkOf(r).key = trip[r].key
        /\ ~Pooled(trip[r].link)
        /\ \A s \in Trips \ {r} : trip[s].link # trip[r].link
  BY DEF Holders, Alone, Apart, Using
<1> QED BY <1>1, <1>2, <1>3 DEF PoolSound, Owned, Stacks

LEMMA NewTypes ==
  /\ NewTrip \in TripStates /\ NewTrip.link = NoLink /\ NewTrip.sent = 0
  /\ NewLink \in LinkStates /\ ~NewLink.open /\ ~NewLink.doomed
<1>1. {} \in Keys /\ "begin" \in Places /\ NoAnswer \in Parts \cup {NoAnswer}
  BY DEF Keys, Places
<1>2. NewTrip \in TripStates /\ NewTrip.link = NoLink /\ NewTrip.sent = 0
  BY <1>1 DEF NewTrip, TripStates
<1>3. <<>> \in Seq(Trips) /\ <<>> \in Seq(Parts)
  OBVIOUS
<1>4. NewLink \in LinkStates /\ ~NewLink.open /\ ~NewLink.doomed
  BY <1>1, <1>3 DEF NewLink, LinkStates
<1> QED BY <1>2, <1>4

LEMMA InitPool == TransportInit => PoolInv
<1> SUFFICES ASSUME TransportInit PROVE PoolInv
    OBVIOUS
<1>1. TripTypes /\ LinkTypes
  BY NewTypes DEF TransportInit, TripTypes, LinkTypes
<1>2. RestTypes
  <2>1. proxy \in Proxies
    BY TransportAssumption DEF TransportInit
  <2>2. <<>> \in Seq(Links)
    OBVIOUS
  <2>3. switches \in 0..MaxSwitches
    BY TransportAssumption DEF TransportInit
  <2> QED BY <2>1, <2>2, <2>3 DEF TransportInit, RestTypes
<1>3. \A p \in Proxies : idle[p] = <<>> /\ ToSet(idle[p]) = {} /\ Len(idle[p]) = 0 /\ Distinct(idle[p])
  BY DEF TransportInit, ToSet, Distinct
<1>4. Owners
  BY <1>3, TransportAssumption DEF TransportInit, Owners, Holders, Alone, Apart, Owned, Stacks, NewTrip, NewLink, Using
<1> QED BY <1>1, <1>2, <1>4 DEF PoolInv, Types

-----------------------------------------------------------------------------
LEMMA TripChanges ==
  ASSUME TripTypes, NEW r \in Trips, NEW t \in TripStates, trip' = [trip EXCEPT ![r] = t]
  PROVE  TripTypes'
  BY DEF TripTypes

LEMMA LinkChanges ==
  ASSUME LinkTypes, NEW c \in Links, NEW t \in LinkStates, link' = [link EXCEPT ![c] = t]
  PROVE  LinkTypes'
  BY DEF LinkTypes

LEMMA EndedTypes ==
  ASSUME TripTypes, NEW r \in Trips, NEW how \in {"answered", "failed", "bypassed"}, trip' = Ended(r, how)
  PROVE  TripTypes'
<1> DEFINE n == IF how = "bypassed" THEN trip[r].sent + 1 ELSE trip[r].sent
           t == [NewTrip EXCEPT !.at = how, !.sent = n]
<1>1. n \in Nat
  BY DEF TripTypes, TripStates
<1>2. trip' = [trip EXCEPT ![r] = t]
  BY DEF Ended
<1> HIDE DEF n
<1>3. t \in TripStates
  BY <1>1, NewTypes DEF TripStates, Places
<1> QED BY <1>2, <1>3, TripChanges

LEMMA CloseAllTypes ==
  ASSUME LinkTypes, NEW cs, link' = CloseAll(cs)
  PROVE  LinkTypes'
<1>1. ASSUME NEW c \in Links PROVE Forgotten(c) \in LinkStates
  <2>1. link[c].doomed \in BOOLEAN
    BY DEF LinkTypes, LinkStates
  <2> QED BY <2>1, NewTypes DEF LinkStates, Forgotten
<1> QED BY <1>1 DEF CloseAll, LinkTypes

LEMMA HoldingTypes ==
  ASSUME TripTypes, NEW r \in Trips, NEW c \in Links, NEW b \in BOOLEAN, trip' = Holding(r, c, b)
  PROVE  TripTypes'
<1> DEFINE t == [trip[r] EXCEPT !.at = "write", !.link = c, !.fromIdle = b, !.guard = "armed"]
<1>1. trip[r] \in TripStates
  BY DEF TripTypes
<1>2. trip' = [trip EXCEPT ![r] = t]
  BY DEF Holding
<1>3. t \in TripStates
  BY <1>1 DEF TripStates, Places
<1> QED BY <1>2, <1>3, TripChanges

LEMMA GiveUpTypes ==
  ASSUME TripTypes, LinkTypes, NEW r \in Trips, NEW retry \in BOOLEAN, NEW otherwise \in {"failed", "bypassed"},
         GiveUpLink(r, retry, otherwise)
  PROVE  TripTypes' /\ LinkTypes'
<1>1. LinkTypes'
  BY CloseAllTypes DEF GiveUpLink
<1> DEFINE again == ~trip[r].cancelled /\ retry /\ trip[r].attempt = 0
<1>2. CASE again
  <2> DEFINE n == trip[r].attempt + 1
             t == [trip[r] EXCEPT !.at = "acquire", !.link = NoLink, !.guard = "off", !.attempt = n]
  <2>1. trip[r] \in TripStates /\ n \in 0..1
    BY <1>2 DEF TripTypes
  <2>2. trip' = [trip EXCEPT ![r] = t]
    BY <1>2 DEF GiveUpLink
  <2> HIDE DEF n, again
  <2>3. t \in TripStates
    BY <2>1 DEF TripStates, Places
  <2> QED BY <1>1, <2>2, <2>3, TripChanges
<1>3. CASE ~again
  <2>1. PICK next \in {"failed", "bypassed"} : trip' = Ended(r, next)
    BY <1>3 DEF GiveUpLink
  <2>2. TripTypes'
    BY <2>1, EndedTypes
  <2> QED BY <1>1, <2>2
<1> QED BY <1>2, <1>3

LEMMA RoundTripTypes ==
  ASSUME Types, Holders, NEW r \in Trips, RoundTrip(r)
  PROVE  Types'
<1>0. TripTypes /\ LinkTypes /\ RestTypes
  BY DEF Types
<1> DEFINE t == trip[r]
           l == trip[r].link
<1>1. /\ t \in TripStates
      /\ t.at \in Using => l \in Links /\ link[l] \in LinkStates
      /\ t.at = "acquire" => t.key \in Proxies
  BY <1>0 DEF TripTypes, LinkTypes, TripStates, Holders
<1>2. /\ link' = link => LinkTypes'
      /\ trip' = trip => TripTypes'
      /\ idle' = idle /\ proxyVars' = proxyVars => RestTypes'
      /\ proxyVars' = proxyVars /\ idle' \in [Proxies -> Seq(Links)] => RestTypes'
  BY <1>0 DEF LinkTypes, TripTypes, RestTypes, proxyVars
<1>3. CASE Begin(r)
  <2> DEFINE u == [t EXCEPT !.at = "acquire", !.key = proxy]
  <2>1. trip' = [trip EXCEPT ![r] = u] /\ UNCHANGED <<link, idle, proxyVars>>
    BY <1>3 DEF Begin
  <2>2. u \in TripStates
    BY <1>0, <1>1 DEF TripStates, Places, Keys, RestTypes
  <2>3. TripTypes'
    BY <1>0, <2>1, <2>2, TripChanges
  <2> QED BY <1>2, <2>1, <2>3 DEF Types
<1>4. CASE Bypass(r) \/ DialFails(r)
  <2>1. trip' = Ended(r, "bypassed") /\ UNCHANGED <<link, idle, proxyVars>>
    BY <1>4 DEF Bypass, DialFails
  <2>2. TripTypes'
    BY <1>0, <2>1, EndedTypes
  <2> QED BY <1>2, <2>1, <2>2 DEF Types
<1>5. CASE TakeIdle(r)
  <2> DEFINE stack == idle[t.key]
  <2>1. /\ t.key \in Proxies /\ stack # <<>>
        /\ idle' = [idle EXCEPT ![t.key] = Front(stack)]
        /\ trip' = Holding(r, Last(stack), TRUE) /\ UNCHANGED <<link, proxyVars>>
    BY <1>1, <1>5 DEF TakeIdle
  <2>2. idle \in [Proxies -> Seq(Links)] /\ stack \in Seq(Links)
    BY <1>0, <2>1 DEF RestTypes
  <2>3. Front(stack) \in Seq(Links) /\ Last(stack) \in Links
    <3>1. \A c \in ToSet(stack) : c \in Links
      BY <2>2 DEF ToSet
    <3>2. Front(stack) \in Seq(Links) /\ Last(stack) \in ToSet(stack)
      BY <2>1, <2>2, FrontKeepsSet
    <3> QED BY <3>1, <3>2
  <2>4. TripTypes'
    BY <1>0, <2>1, <2>3, HoldingTypes
  <2>5. idle' \in [Proxies -> Seq(Links)]
    BY <2>1, <2>2, <2>3
  <2> QED BY <1>2, <2>1, <2>4, <2>5 DEF Types
<1>6. CASE Expire(r)
  <2>1. /\ idle' = [idle EXCEPT ![t.key] = <<>>] /\ link' = CloseAll(Range(idle[t.key]))
        /\ UNCHANGED <<trip, proxyVars>>
    BY <1>6 DEF Expire
  <2>2. idle' \in [Proxies -> Seq(Links)]
    <3>1. <<>> \in Seq(Links)
      OBVIOUS
    <3> QED BY <1>0, <2>1, <3>1 DEF RestTypes
  <2>3. LinkTypes'
    BY <1>0, <2>1, CloseAllTypes
  <2> QED BY <1>2, <2>1, <2>2, <2>3 DEF Types
<1>7. CASE Dial(r)
  <2>1. PICK c \in Links :
          /\ link' = [link EXCEPT ![c].open = TRUE, ![c].key = t.key]
          /\ trip' = Holding(r, c, FALSE)
    BY <1>7 DEF Dial
  <2>2. UNCHANGED <<idle, proxyVars>> /\ t.key \in Proxies
    BY <1>1, <1>7 DEF Dial
  <2>3. TripTypes'
    BY <1>0, <2>1, HoldingTypes
  <2>4. LinkTypes'
    <3> DEFINE m == [link[c] EXCEPT !.open = TRUE, !.key = t.key]
    <3>1. link[c] \in LinkStates
      BY <1>0 DEF LinkTypes
    <3>2. m \in LinkStates
      BY <2>2, <3>1 DEF LinkStates, Keys
    <3>3. link' = [link EXCEPT ![c] = m]
      BY <2>1
    <3> QED BY <1>0, <3>2, <3>3, LinkChanges
  <2> QED BY <1>2, <2>2, <2>3, <2>4 DEF Types
<1>8. CASE Write(r)
  <2>0. l \in Links /\ link[l] \in LinkStates /\ UNCHANGED <<idle, proxyVars>>
    BY <1>1, <1>8 DEF Write, Using
  <2>1. CASE link[l].gone
    <3> DEFINE u == [t EXCEPT !.at = "read"]
    <3>1. trip' = [trip EXCEPT ![r] = u] /\ link' = link
      BY <1>8, <2>1 DEF Write, LinkOf
    <3>2. u \in TripStates
      BY <1>1 DEF TripStates, Places
    <3>3. TripTypes'
      BY <1>0, <3>1, <3>2, TripChanges
    <3> QED BY <1>2, <2>0, <3>1, <3>3 DEF Types
  <2>2. CASE ~link[l].gone
    <3> DEFINE n == t.sent + 1
               u == [t EXCEPT !.at = "read", !.sent = n]
               m == [link[l] EXCEPT !.inbox = Append(link[l].inbox, r)]
    <3>1. trip' = [trip EXCEPT ![r] = u] /\ link' = [link EXCEPT ![l] = m]
      BY <1>8, <2>2 DEF Write, LinkOf
    <3> HIDE DEF m
    <3>2. u \in TripStates
      <4>1. n \in Nat
        BY <1>1 DEF TripStates
      <4> HIDE DEF n
      <4> QED BY <1>1, <4>1 DEF TripStates, Places
    <3> USE DEF m
    <3>3. link[l].inbox \in Seq(Trips)
      BY <2>0 DEF LinkStates
    <3>4. Append(link[l].inbox, r) \in Seq(Trips)
      BY <3>3
    <3>5. m \in LinkStates
      BY <2>0, <3>4 DEF LinkStates
    <3>6. TripTypes'
      BY <1>0, <3>1, <3>2, TripChanges
    <3>7. LinkTypes'
      BY <1>0, <2>0, <3>1, <3>5, LinkChanges
    <3> QED BY <1>2, <2>0, <3>6, <3>7 DEF Types
  <2> QED BY <2>1, <2>2
<1>9. CASE WriteFails(r)
  <2>1. /\ GiveUpLink(r, t.fromIdle, "bypassed") /\ UNCHANGED <<idle, proxyVars>>
        /\ t.fromIdle \in BOOLEAN
    BY <1>1, <1>9 DEF WriteFails, TripStates
  <2>2. TripTypes' /\ LinkTypes'
    BY <1>0, <2>1, GiveUpTypes
  <2> QED BY <1>2, <2>1, <2>2 DEF Types
<1>10. CASE ReadHead(r)
  <2> DEFINE u == [t EXCEPT !.at = "body", !.answer = Head(link[l].buf), !.body = "open"]
             m == [link[l] EXCEPT !.buf = Tail(link[l].buf)]
  <2>1. /\ l \in Links /\ link[l] \in LinkStates /\ link[l].buf # <<>>
        /\ UNCHANGED <<idle, proxyVars>>
    BY <1>1, <1>10 DEF ReadHead, Using, LinkOf
  <2>2. link[l].buf \in Seq(Parts)
    BY <2>1 DEF LinkStates
  <2>3. Head(link[l].buf) \in Parts /\ Tail(link[l].buf) \in Seq(Parts)
    BY <2>1, <2>2
  <2>4. trip' = [trip EXCEPT ![r] = u] /\ link' = [link EXCEPT ![l] = m]
    BY <1>10 DEF ReadHead, LinkOf
  <2>5. u \in TripStates
    BY <1>1, <2>3 DEF TripStates, Places
  <2>6. m \in LinkStates
    BY <2>1, <2>3 DEF LinkStates
  <2>7. TripTypes'
    BY <1>0, <2>4, <2>5, TripChanges
  <2>8. LinkTypes'
    BY <1>0, <2>1, <2>4, <2>6, LinkChanges
  <2> QED BY <1>2, <2>1, <2>7, <2>8 DEF Types
<1>11. CASE ReadFails(r)
  <2>1. /\ GiveUpLink(r, t.fromIdle /\ r \in Replayable, "failed") /\ UNCHANGED <<idle, proxyVars>>
        /\ (t.fromIdle /\ r \in Replayable) \in BOOLEAN
    BY <1>11 DEF ReadFails
  <2>2. TripTypes' /\ LinkTypes'
    BY <1>0, <2>1, GiveUpTypes
  <2> QED BY <1>2, <2>1, <2>2 DEF Types
<1> QED BY <1>3, <1>4, <1>5, <1>6, <1>7, <1>8, <1>9, <1>10, <1>11 DEF RoundTrip, Acquire

(* What the lemmas on a trip start from.                                   *)
LEMMA KnownTypes ==
  ASSUME Types, Holders, NEW r \in Trips
  PROVE  /\ TripTypes /\ LinkTypes /\ RestTypes /\ trip[r] \in TripStates
         /\ trip[r].at \in Using \/ trip[r].link # NoLink =>
              trip[r].link \in Links /\ link[trip[r].link] \in LinkStates
         /\ link' = link => LinkTypes'
         /\ trip' = trip => TripTypes'
         /\ idle' = idle /\ proxyVars' = proxyVars => RestTypes'
         /\ proxyVars' = proxyVars /\ idle' \in [Proxies -> Seq(Links)] => RestTypes'
<1>0. TripTypes /\ LinkTypes /\ RestTypes
  BY DEF Types
<1>1. /\ trip[r] \in TripStates
      /\ trip[r].at \in Using \/ trip[r].link # NoLink =>
           trip[r].link \in Links /\ link[trip[r].link] \in LinkStates
  BY <1>0 DEF TripTypes, LinkTypes, TripStates, Holders
<1> QED BY <1>0, <1>1 DEF LinkTypes, TripTypes, RestTypes, proxyVars

LEMMA BodyTypes ==
  ASSUME Types, Holders, NEW r \in Trips, Body(r) \/ Cancel(r) \/ GuardFires(r)
  PROVE  Types'
<1> DEFINE t == trip[r]
           l == trip[r].link
<1>1. /\ TripTypes /\ LinkTypes /\ RestTypes /\ t \in TripStates
      /\ t.at \in {"body", "close"} \/ l # NoLink => l \in Links /\ link[l] \in LinkStates
      /\ link' = link => LinkTypes'
      /\ idle' = idle /\ proxyVars' = proxyVars => RestTypes'
      /\ proxyVars' = proxyVars /\ idle' \in [Proxies -> Seq(Links)] => RestTypes'
  BY KnownTypes DEF Using
<1>2. CASE BodyEnds(r)
  <2> DEFINE u == [t EXCEPT !.body = "eof"]
             m == [link[l] EXCEPT !.buf = Tail(link[l].buf)]
  <2>1. /\ trip' = [trip EXCEPT ![r] = u] /\ UNCHANGED <<idle, proxyVars>>
        /\ l \in Links /\ link[l] \in LinkStates
    BY <1>1, <1>2 DEF BodyEnds
  <2>0. link' = link \/ (link[l].buf # <<>> /\ link' = [link EXCEPT ![l] = m])
    BY <1>2 DEF BodyEnds, LinkOf
  <2>2. u \in TripStates
    BY <1>1 DEF TripStates
  <2>3. TripTypes'
    BY <1>1, <2>1, <2>2, TripChanges
  <2>4. ASSUME link[l].buf # <<>>, link' = [link EXCEPT ![l] = m] PROVE LinkTypes'
    <3>1. link[l].buf \in Seq(Parts)
      BY <2>1 DEF LinkStates
    <3>2. Tail(link[l].buf) \in Seq(Parts)
      BY <2>4, <3>1
    <3>3. m \in LinkStates
      BY <2>1, <3>2 DEF LinkStates
    <3> QED BY <1>1, <2>1, <2>4, <3>3, LinkChanges
  <2> QED BY <1>1, <2>0, <2>1, <2>3, <2>4 DEF Types
<1>3. CASE BodyFails(r)
  <2> DEFINE u == [t EXCEPT !.body = "error"]
             m == [link[l] EXCEPT !.broken = TRUE]
  <2>1. /\ trip' = [trip EXCEPT ![r] = u] /\ UNCHANGED <<idle, proxyVars>>
        /\ l \in Links /\ link[l] \in LinkStates /\ link' = [link EXCEPT ![l] = m]
    BY <1>1, <1>3 DEF BodyFails
  <2>2. u \in TripStates
    BY <1>1 DEF TripStates
  <2>3. m \in LinkStates
    BY <2>1 DEF LinkStates
  <2>4. TripTypes'
    BY <1>1, <2>1, <2>2, TripChanges
  <2>5. LinkTypes'
    BY <1>1, <2>1, <2>3, LinkChanges
  <2> QED BY <1>1, <2>1, <2>4, <2>5 DEF Types
<1>4. CASE DrainEnds(r)
  <2> DEFINE k == link[l].key
  <2>1. l \in Links /\ k \in Proxies
    BY <1>1, <1>4 DEF DrainEnds, Holders, Using, LinkOf, TripStates
  <2>2. TripTypes'
    <3>1. trip' = Ended(r, "answered")
      BY <1>4 DEF DrainEnds
    <3> QED BY <1>1, <3>1, EndedTypes
  <2>3. LinkTypes'
    <3>1. link' = link \/ \E cs : link' = CloseAll(cs)
      BY <1>4 DEF DrainEnds
    <3> QED BY <1>1, <3>1, CloseAllTypes
  <2>4. idle' \in [Proxies -> Seq(Links)]
    <3> DEFINE stack == Append(idle[k], l)
    <3>1. idle' = idle \/ idle' = [idle EXCEPT ![k] = stack] \/ idle' = [idle EXCEPT ![k] = Tail(stack)]
      BY <1>4 DEF DrainEnds
    <3>2. idle \in [Proxies -> Seq(Links)] /\ idle[k] \in Seq(Links)
      BY <1>1, <2>1 DEF RestTypes
    <3>3. stack \in Seq(Links) /\ stack # <<>>
      BY SMTT(30), <2>1, <3>2
    <3> HIDE DEF stack
    <3>4. Tail(stack) \in Seq(Links)
      BY <3>3
    <3> QED BY <2>1, <3>1, <3>2, <3>3, <3>4
  <2>5. UNCHANGED proxyVars
    BY <1>4 DEF DrainEnds
  <2> QED BY <1>1, <2>2, <2>3, <2>4, <2>5 DEF Types
<1>7. CASE CloseBody(r)
  <2> DEFINE guard == IF t.guard = "armed" THEN "won" ELSE t.guard
             u == [t EXCEPT !.at = "close", !.guard = guard]
  <2>1. trip' = [trip EXCEPT ![r] = u] /\ UNCHANGED <<link, idle, proxyVars>>
    BY <1>1, <1>7 DEF CloseBody, TripStates
  <2>2. u \in TripStates
    BY <1>1 DEF TripStates, Places
  <2>3. TripTypes'
    BY <1>1, <2>1, <2>2, TripChanges
  <2> QED BY <1>1, <2>1, <2>3 DEF Types
<1>5. CASE Cancel(r)
  <2> DEFINE u == [t EXCEPT !.cancelled = TRUE]
  <2>1. trip' = [trip EXCEPT ![r] = u] /\ UNCHANGED <<link, idle, proxyVars>>
    BY <1>5 DEF Cancel
  <2>2. u \in TripStates
    BY <1>1 DEF TripStates
  <2>3. TripTypes'
    BY <1>1, <2>1, <2>2, TripChanges
  <2> QED BY <1>1, <2>1, <2>3 DEF Types
<1>6. CASE GuardFires(r)
  <2> DEFINE u == [t EXCEPT !.guard = "fired"]
             m == [link[l] EXCEPT !.doomed = TRUE]
  <2>1. /\ trip' = [trip EXCEPT ![r] = u] /\ UNCHANGED <<idle, proxyVars>>
        /\ link' = [link EXCEPT ![l] = m]
    BY <1>6 DEF GuardFires
  <2>2. u \in TripStates
    BY <1>1 DEF TripStates
  <2>3. TripTypes'
    BY <1>1, <2>1, <2>2, TripChanges
  <2>4. CASE l \in Links
    <3>1. link[l] \in LinkStates
      BY <1>1, <2>4 DEF LinkTypes
    <3>2. m \in LinkStates
      BY <3>1 DEF LinkStates
    <3>3. LinkTypes'
      BY <1>1, <2>1, <2>4, <3>2, LinkChanges
    <3> QED BY <1>1, <2>1, <2>3, <3>3 DEF Types
  <2>5. CASE l \notin Links
    <3>1. link' = link
      BY <1>1, <2>1, <2>5 DEF LinkTypes
    <3> QED BY <1>1, <2>1, <2>3, <3>1 DEF Types
  <2> QED BY <2>4, <2>5
<1> QED BY <1>2, <1>3, <1>4, <1>5, <1>6, <1>7 DEF Body

LEMMA UpstreamTypes ==
  ASSUME LinkTypes, NEW c \in Links, Upstream(c)
  PROVE  LinkTypes'
<1> DEFINE l == link[c]
<1>1. l \in LinkStates /\ l.inbox \in Seq(Trips) /\ l.buf \in Seq(Parts)
  BY DEF LinkTypes, LinkStates
<1>2. ASSUME l.inbox # <<>> PROVE Head(l.inbox) \in Trips /\ Tail(l.inbox) \in Seq(Trips)
  BY <1>1, <1>2
<1>3. ASSUME l.inbox # <<>>, NEW part \in {"head", "body"}, NEW form \in {"final", "last", "info"}
      PROVE  Part(c, part, form) \in Seq(Parts)
  <2>1. [of |-> Head(l.inbox), part |-> part, kind |-> form] \in Parts
    BY <1>2, <1>3 DEF Parts
  <2> QED BY <2>1 DEF Part
<1>4. CASE UpstreamInforms(c)
  <2> DEFINE buf == l.buf \o Part(c, "head", "info")
             m   == [l EXCEPT !.informed = TRUE, !.buf = buf]
  <2>1. l.inbox # <<>> /\ link' = [link EXCEPT ![c] = m]
    BY <1>4 DEF UpstreamInforms
  <2>2. buf \in Seq(Parts)
    BY <1>1, <1>3, <2>1, ConcatProperties
  <2> HIDE DEF buf
  <2>3. m \in LinkStates
    BY <1>1, <2>2 DEF LinkStates
  <2> QED BY <2>1, <2>3, LinkChanges
<1>5. CASE UpstreamAnswers(c)
  <2>1. PICK form \in {"final", "last"} :
          link' = [link EXCEPT ![c].buf = @ \o Part(c, "head", form) \o Part(c, "body", form), ![c].inbox = Tail(@)]
    BY <1>5 DEF UpstreamAnswers
  <2> DEFINE front == l.buf \o Part(c, "head", form)
             buf   == front \o Part(c, "body", form)
             inbox == Tail(l.inbox)
             m     == [l EXCEPT !.buf = buf, !.inbox = inbox]
  <2>2. l.inbox # <<>> /\ link' = [link EXCEPT ![c] = m]
    BY <1>5, <2>1 DEF UpstreamAnswers
  <2>3. front \in Seq(Parts)
    BY <1>1, <1>3, <2>2, ConcatProperties
  <2> HIDE DEF front
  <2>4. buf \in Seq(Parts) /\ inbox \in Seq(Trips)
    BY <1>2, <1>3, <2>2, <2>3, ConcatProperties
  <2> HIDE DEF buf, inbox
  <2>5. m \in LinkStates
    BY <1>1, <2>4 DEF LinkStates
  <2> QED BY <2>2, <2>5, LinkChanges
<1>6. CASE UpstreamFails(c)
  <2> DEFINE buf == l.buf \o Part(c, "head", "final")
             m   == [l EXCEPT !.buf = buf, !.inbox = <<>>, !.gone = TRUE]
  <2>1. l.inbox # <<>> /\ link' = [link EXCEPT ![c] = m]
    BY <1>6 DEF UpstreamFails
  <2>2. buf \in Seq(Parts) /\ <<>> \in Seq(Trips)
    BY <1>1, <1>3, <2>1, ConcatProperties
  <2> HIDE DEF buf
  <2>3. m \in LinkStates
    BY <1>1, <2>2 DEF LinkStates
  <2> QED BY <2>1, <2>3, LinkChanges
<1>7. CASE UpstreamLeaves(c)
  <2> DEFINE m == [l EXCEPT !.gone = TRUE, !.inbox = <<>>]
  <2>1. link' = [link EXCEPT ![c] = m]
    BY <1>7 DEF UpstreamLeaves
  <2>2. <<>> \in Seq(Trips)
    OBVIOUS
  <2>3. m \in LinkStates
    BY <1>1, <2>2 DEF LinkStates
  <2> QED BY <2>1, <2>3, LinkChanges
<1> QED BY <1>4, <1>5, <1>6, <1>7 DEF Upstream

LEMMA RestStepTypes ==
  ASSUME Types,
         \/ \E c \in Links : GuardCloses(c) \/ Upstream(c)
         \/ \E p \in Proxies : SwapProxy(p)
         \/ CloseIdleConnections
  PROVE  Types'
<1>0. /\ TripTypes /\ LinkTypes /\ RestTypes
      /\ link' = link => LinkTypes'
      /\ trip' = trip => TripTypes'
      /\ idle' = idle /\ proxyVars' = proxyVars => RestTypes'
  BY DEF Types, TripTypes, LinkTypes, RestTypes, proxyVars
<1>1. ASSUME NEW c \in Links, GuardCloses(c) PROVE Types'
  <2> DEFINE m == IF \E r \in Trips : trip[r].link = c
                  THEN [link[c] EXCEPT !.doomed = FALSE, !.broken = TRUE, !.open = FALSE]
                  ELSE NewLink
  <2>1. link' = [link EXCEPT ![c] = m] /\ UNCHANGED <<trip, idle, proxyVars>>
    BY <1>1 DEF GuardCloses
  <2>2. m \in LinkStates
    <3>1. link[c] \in LinkStates
      BY <1>0 DEF LinkTypes
    <3>2. [link[c] EXCEPT !.doomed = FALSE, !.broken = TRUE, !.open = FALSE] \in LinkStates
      BY <3>1 DEF LinkStates
    <3> QED BY <3>2, NewTypes
  <2> HIDE DEF m
  <2>3. LinkTypes'
    BY <1>0, <2>1, <2>2, LinkChanges
  <2> QED BY <1>0, <2>1, <2>3 DEF Types
<1>2. ASSUME NEW c \in Links, Upstream(c) PROVE Types'
  <2>1. LinkTypes'
    BY <1>0, <1>2, UpstreamTypes
  <2>2. UNCHANGED <<trip, idle, proxyVars>>
    BY <1>2 DEF Upstream, UpstreamInforms, UpstreamAnswers, UpstreamFails, UpstreamLeaves
  <2> QED BY <1>0, <2>1, <2>2 DEF Types
<1>3. ASSUME NEW p \in Proxies, SwapProxy(p) PROVE Types'
  <2>1. UNCHANGED <<trip, link, idle>>
    BY <1>3 DEF SwapProxy
  <2>2. RestTypes'
    BY <1>0, <1>3, TransportAssumption DEF SwapProxy, RestTypes
  <2> QED BY <1>0, <2>1, <2>2 DEF Types
<1>4. CASE CloseIdleConnections
  <2>1. LinkTypes'
    <3>1. \E cs : link' = CloseAll(cs)
      BY <1>4 DEF CloseIdleConnections
    <3> QED BY <1>0, <3>1, CloseAllTypes
  <2>2. trip' = trip
    BY <1>4 DEF CloseIdleConnections
  <2>3. RestTypes'
    <3>1. <<>> \in Seq(Links)
      OBVIOUS
    <3> QED BY <1>0, <1>4, <3>1 DEF CloseIdleConnections, RestTypes
  <2> QED BY <1>0, <2>1, <2>2, <2>3 DEF Types
<1> QED BY <1>1, <1>2, <1>3, <1>4

-----------------------------------------------------------------------------
(* Most steps leave the owners alone.                                      *)
LEMMA OwnersStay ==
  ASSUME PoolInv,
         \A r \in Trips :
           /\ trip'[r].link = trip[r].link
           /\ trip'[r].at \in Using <=> trip[r].at \in Using
           /\ trip'[r].at \in Using => trip'[r].key = trip[r].key
           /\ trip'[r].at = "acquire" => trip'[r].key \in Proxies
           /\ trip'[r].link # NoLink /\ trip'[r].guard \in Unfired =>
                /\ trip[r].guard \in Unfired
                /\ ~link[trip[r].link].doomed => ~link'[trip[r].link].doomed
         ,
         \A c \in Links :
           /\ link'[c].open = link[c].open /\ link'[c].key = link[c].key
           /\ Pooled(c) => link'[c].broken = link[c].broken /\ link'[c].doomed = link[c].doomed
         ,
         idle' = idle
  PROVE  Owners'
<1>1. \A r \in Trips : trip[r].link \in Links \cup {NoLink}
  BY DEF PoolInv, Types, TripTypes, TripStates
<1>2. Holders'
  BY <1>1 DEF PoolInv, Owners, Holders, LinkOf, Using
<1>3. Alone' /\ Apart'
  BY DEF PoolInv, Owners, Alone, Apart, Pooled
<1>4. Owned'
  BY DEF PoolInv, Owners, Owned, Pooled, Holds
<1>5. Stacks'
  <2>1. \A p \in Proxies : \A c \in ToSet(idle[p]) : c \in Links /\ Pooled(c)
    BY DEF PoolInv, Types, RestTypes, Pooled, ToSet, Range
  <2> QED BY <2>1 DEF PoolInv, Owners, Stacks
<1> QED BY <1>2, <1>3, <1>4, <1>5 DEF Owners

(* A trip lets go of its connection, which is closed.                      *)
LEMMA OwnerCloses ==
  ASSUME PoolInv, NEW r \in Trips, trip[r].link # NoLink,
         \A s \in Trips \ {r} : trip'[s] = trip[s],
         trip'[r].link = NoLink, trip'[r].at \notin Using,
         trip'[r].at = "acquire" => trip'[r].key = trip[r].key,
         link' = CloseAll({trip[r].link}), idle' = idle
  PROVE  Owners'
<1> DEFINE c == trip[r].link
<1>1. /\ c \in Links
      /\ \A s \in Trips : trip[s].link \in Links \cup {NoLink}
  BY DEF PoolInv, Types, TripTypes, TripStates
<1>2. \A d \in Links \ {c} : link'[d] = link[d]
  BY DEF CloseAll
<1>3. ~link'[c].open
  BY <1>1 DEF CloseAll, Forgotten, NewLink
<1>4. \A s \in Trips \ {r} : trip[s].link # c
  BY DEF PoolInv, Owners, Alone
<1>5. ~Pooled(c)
  BY DEF PoolInv, Owners, Apart
<1>6. Holders'
  <2>1. trip[r].at \in Using /\ trip[r].key \in Proxies
    BY DEF PoolInv, Owners, Holders
  <2>2. ASSUME NEW s \in Trips \ {r} PROVE trip[s].link # NoLink => link'[trip[s].link] = link[trip[s].link]
    BY <1>1, <1>2, <1>4
  <2> QED BY <2>1, <2>2 DEF PoolInv, Owners, Holders, LinkOf
<1>7. Alone' /\ Apart'
  BY DEF PoolInv, Owners, Alone, Apart, Pooled
<1>8. Owned'
  BY ZenonT(40), <1>2, <1>3 DEF PoolInv, Owners, Owned, Pooled, Holds
<1>9. Stacks'
  <2>1. \A p \in Proxies : \A d \in ToSet(idle[p]) : d \in Links \ {c}
    BY <1>5 DEF PoolInv, Types, RestTypes, Pooled, ToSet, Range
  <2> HIDE DEF c
  <2>2. \A p \in Proxies : \A d \in ToSet(idle[p]) : link'[d] = link[d]
    BY <1>2, <2>1
  <2>3. ASSUME NEW p \in Proxies, NEW d \in ToSet(idle[p])
        PROVE  link'[d].open /\ link'[d].key = p /\ ~link'[d].broken /\ ~link'[d].doomed
    <3>1. link[d].open /\ link[d].key = p /\ ~link[d].broken /\ ~link[d].doomed
      BY DEF PoolInv, Owners, Stacks
    <3>2. link'[d] = link[d]
      BY <2>2
    <3> QED BY <3>1, <3>2
  <2>4. \A p \in Proxies : Len(idle[p]) <= MaxIdlePerHost /\ Distinct(idle[p])
    BY DEF PoolInv, Owners, Stacks
  <2> QED BY <2>3, <2>4 DEF Stacks
<1> QED BY <1>6, <1>7, <1>8, <1>9 DEF Owners

(* Idle connections are closed: all of those of some proxies.              *)
LEMMA StacksClose ==
  ASSUME PoolInv, NEW ps \in SUBSET Proxies, trip' = trip,
         idle' = [p \in Proxies |-> IF p \in ps THEN <<>> ELSE idle[p]],
         link' = CloseAll(UNION {ToSet(idle[p]) : p \in ps})
  PROVE  Owners'
<1> DEFINE gone == UNION {ToSet(idle[p]) : p \in ps}
<1>1. \A c \in gone : Pooled(c)
  BY DEF Pooled, ToSet, Range
<1>2. \A c \in Links \ gone : link'[c] = link[c]
  BY DEF CloseAll
<1>3. \A c \in Links : c \in gone => ~link'[c].open
  BY DEF CloseAll, Forgotten, NewLink
<1>4. \A p \in Proxies : \A c \in ToSet(idle[p]) : c \in Links /\ link[c].key = p
  BY DEF PoolInv, Types, RestTypes, Owners, Stacks, ToSet
<1>5. \A p \in Proxies \ ps : \A c \in ToSet(idle[p]) : c \in Links \ gone
  BY <1>4
<1> HIDE DEF gone
<1>6. Holders'
  <2>1. \A r \in Trips : trip[r].link # NoLink => trip[r].link \in Links \ gone
    BY <1>1 DEF PoolInv, Types, TripTypes, TripStates, Owners, Apart
  <2> QED BY <1>2, <2>1 DEF PoolInv, Owners, Holders, LinkOf
<1>7. \A c : Pooled(c)' => Pooled(c)
  BY DEF Pooled, Range
<1>8. Alone' /\ Apart'
  BY <1>7 DEF PoolInv, Owners, Alone, Apart
<1>9. Owned'
  <2> SUFFICES ASSUME NEW c \in Links, link'[c].open PROVE Pooled(c)' \/ \E r \in Trips : Holds(r, c)'
      BY DEF Owned
  <2>1. c \notin gone /\ link[c].open
    BY <1>2, <1>3
  <2>2. CASE Pooled(c)
    <3>1. PICK p \in Proxies : c \in Range(idle[p])
      BY <2>2 DEF Pooled
    <3>2. p \notin ps
      BY <2>1, <3>1 DEF gone, Range, ToSet
    <3> QED BY <3>1, <3>2 DEF Pooled
  <2>3. CASE \E r \in Trips : Holds(r, c)
    BY <2>3 DEF Holds
  <2> QED BY <2>1, <2>2, <2>3 DEF PoolInv, Owners, Owned
<1>10. Stacks'
  <2>1. \A p \in ps : idle'[p] = <<>> /\ Len(idle'[p]) = 0 /\ Distinct(idle'[p]) /\ ToSet(idle'[p]) = {}
    BY DEF Distinct, ToSet
  <2>2. \A p \in Proxies \ ps : idle'[p] = idle[p] /\ \A c \in ToSet(idle[p]) : link'[c] = link[c]
    BY <1>2, <1>5
  <2>3. 0 <= MaxIdlePerHost
    BY TransportAssumption
  <2>4. ASSUME NEW p \in Proxies
        PROVE  /\ Len(idle'[p]) <= MaxIdlePerHost /\ Distinct(idle'[p])
               /\ \A c \in ToSet(idle'[p]) : /\ link'[c].open /\ link'[c].key = p
                                             /\ ~link'[c].broken /\ ~link'[c].doomed
    <3>1. CASE p \in ps
      BY <2>1, <2>3, <3>1
    <3>2. CASE p \notin ps
      BY <2>2, <3>2 DEF PoolInv, Owners, Stacks
    <3> QED BY <3>1, <3>2
  <2> QED BY <2>4 DEF Stacks
<1> QED BY <1>6, <1>8, <1>9, <1>10 DEF Owners

LEMMA TakeIdleOwners ==
  ASSUME PoolInv, NEW r \in Trips, TakeIdle(r)
  PROVE  Owners'
<1> DEFINE k     == trip[r].key
           stack == idle[k]
           c     == Last(stack)
<1>1. k \in Proxies /\ stack \in Seq(Links) /\ stack # <<>> /\ Distinct(stack)
  BY DEF TakeIdle, PoolInv, Types, RestTypes, Owners, Holders, Stacks
<1>2. /\ Distinct(Front(stack)) /\ Len(Front(stack)) = Len(stack) - 1
      /\ ToSet(Front(stack)) = ToSet(stack) \ {c} /\ c \in ToSet(stack)
  BY <1>1, FrontKeepsSet
<1>3. /\ c \in Links /\ Pooled(c)
      /\ link[c].open /\ link[c].key = k /\ ~link[c].doomed
  BY <1>1, <1>2 DEF Pooled, ToSet, Range, PoolInv, Owners, Stacks
<1>4. \A s \in Trips : trip[s].link # c
  BY <1>3, TransportAssumption DEF PoolInv, Owners, Apart
<1>5. /\ idle' = [idle EXCEPT ![k] = Front(stack)] /\ link' = link
      /\ \A s \in Trips \ {r} : trip'[s] = trip[s]
      /\ trip'[r].at = "write" /\ trip'[r].link = c /\ trip'[r].key = k
  BY DEF TakeIdle, Holding, PoolInv, Types, TripTypes, TripStates
<1>6. idle \in [Proxies -> Seq(Links)]
  BY DEF PoolInv, Types, RestTypes
<1>7. \A p \in Proxies : \A d \in ToSet(idle[p]) : link[d].key = p
  BY DEF PoolInv, Owners, Stacks
<1>8. \A d : Pooled(d)' <=> Pooled(d) /\ d # c
  <2>1. \A p \in Proxies : ToSet(idle'[p]) = ToSet(idle[p]) \ {c}
    BY <1>1, <1>2, <1>3, <1>5, <1>6, <1>7
  <2> QED BY <2>1 DEF Pooled, Range, ToSet
<1> HIDE DEF k, stack, c
<1>9. Holders'
  BY <1>1, <1>3, <1>5, TransportAssumption DEF PoolInv, Owners, Holders, LinkOf, Using
<1>10. Alone' /\ Apart'
  BY <1>4, <1>5, <1>8 DEF PoolInv, Owners, Alone, Apart
<1>11. Owned'
  <2> SUFFICES ASSUME NEW d \in Links, link'[d].open PROVE Pooled(d)' \/ \E s \in Trips : Holds(s, d)'
      BY DEF Owned
  <2>1. Pooled(d) \/ \E s \in Trips : Holds(s, d)
    BY <1>5 DEF PoolInv, Owners, Owned
  <2>2. CASE d = c
    BY <1>5, <2>2 DEF Holds
  <2>3. ASSUME d # c, NEW s \in Trips, Holds(s, d) PROVE Holds(s, d)'
    <3>1. trip[r].link = NoLink
      BY DEF TakeIdle, PoolInv, Owners, Holders, Using
    <3>2. s # r
      BY <2>3, <3>1, TransportAssumption DEF Holds
    <3> QED BY <1>5, <2>3, <3>2 DEF Holds
  <2> QED BY <1>8, <2>1, <2>2, <2>3
<1>12. Stacks'
  <2>1. Len(stack) \in Nat /\ Len(stack) <= MaxIdlePerHost
    BY <1>1 DEF PoolInv, Owners, Stacks, stack
  <2> QED BY <1>1, <1>2, <1>5, <1>6, <2>1, TransportAssumption DEF PoolInv, Owners, Stacks, stack
<1> QED BY <1>9, <1>10, <1>11, <1>12 DEF Owners

LEMMA DialOwners ==
  ASSUME PoolInv, NEW r \in Trips, Dial(r)
  PROVE  Owners'
<1>1. PICK c \in Links :
        /\ Unused(c)
        /\ link' = [link EXCEPT ![c].open = TRUE, ![c].key = trip[r].key]
        /\ trip' = Holding(r, c, FALSE)
  BY DEF Dial
<1>2. trip[r].key \in Proxies /\ trip[r].at = "acquire" /\ trip[r].link = NoLink /\ idle' = idle
  BY DEF Dial, PoolInv, Owners, Holders, Using
<1>3. /\ ~link[c].open /\ ~link[c].doomed /\ \A s \in Trips : trip[s].link # c
  BY <1>1 DEF Unused, NewLink
<1>4. ~Pooled(c)
  BY <1>3 DEF PoolInv, Owners, Stacks, Pooled, Range, ToSet
<1>5. /\ \A s \in Trips \ {r} : trip'[s] = trip[s]
      /\ trip'[r].at = "write" /\ trip'[r].link = c /\ trip'[r].key = trip[r].key
      /\ \A d \in Links \ {c} : link'[d] = link[d]
      /\ link'[c].open /\ link'[c].key = trip[r].key /\ ~link'[c].doomed
  BY <1>1, <1>3 DEF Holding, PoolInv, Types, TripTypes, TripStates, LinkTypes, LinkStates
<1>6. Holders'
  <2>1. \A s \in Trips \ {r} : trip[s].link # NoLink => link'[trip[s].link] = link[trip[s].link]
    BY <1>3, <1>5 DEF PoolInv, Types, TripTypes, TripStates
  <2>2. c # NoLink
    BY TransportAssumption
  <2> SUFFICES ASSUME NEW s \in Trips
               PROVE  /\ trip'[s].link # NoLink <=> trip'[s].at \in Using
                      /\ trip'[s].at \in Using \cup {"acquire"} => trip'[s].key \in Proxies
                      /\ trip'[s].link # NoLink => link'[trip'[s].link].key = trip'[s].key
                      /\ trip'[s].link # NoLink /\ trip'[s].guard \in Unfired =>
                           link'[trip'[s].link].open /\ ~link'[trip'[s].link].doomed
      BY DEF Holders, LinkOf
  <2>3. CASE s = r
    BY <1>2, <1>5, <2>2, <2>3 DEF Using
  <2>4. CASE s # r
    BY <1>5, <2>1, <2>4 DEF PoolInv, Owners, Holders, LinkOf
  <2> QED BY <2>3, <2>4
<1>7. Alone' /\ Apart'
  BY <1>2, <1>3, <1>4, <1>5 DEF PoolInv, Owners, Alone, Apart, Pooled
<1>8. Owned'
  <2> SUFFICES ASSUME NEW d \in Links, link'[d].open PROVE Pooled(d)' \/ \E s \in Trips : Holds(s, d)'
      BY DEF Owned
  <2>1. CASE d = c
    BY <1>5, <2>1 DEF Holds
  <2>2. CASE d # c
    <3>1. Pooled(d) \/ \E s \in Trips : Holds(s, d)
      BY <1>5, <2>2 DEF PoolInv, Owners, Owned
    <3>2. ASSUME NEW s \in Trips, Holds(s, d) PROVE Holds(s, d)'
      <4>1. s # r
        BY <1>2, <3>2, TransportAssumption DEF Holds
      <4> QED BY <1>5, <3>2, <4>1 DEF Holds
    <3> QED BY <1>2, <3>1, <3>2 DEF Pooled
  <2> QED BY <2>1, <2>2
<1>9. Stacks'
  <2>1. \A p \in Proxies : \A d \in ToSet(idle[p]) : d \in Links \ {c}
    BY <1>4 DEF PoolInv, Types, RestTypes, Pooled, ToSet, Range
  <2> QED BY <1>2, <1>5, <2>1 DEF PoolInv, Owners, Stacks
<1> QED BY <1>6, <1>7, <1>8, <1>9 DEF Owners

(* The connection goes back: the guard that has lost vouches for it.       *)
LEMMA PutBackOwners ==
  ASSUME PoolInv, NEW r \in Trips, DrainEnds(r), Reusable(r)
  PROVE  Owners'
<1> DEFINE c      == trip[r].link
           k      == link[c].key
           stack  == Append(idle[k], c)
           excess == Len(stack) - MaxIdlePerHost
<1>1. /\ c \in Links /\ c # NoLink /\ k \in Proxies /\ k = trip[r].key
      /\ link[c].open /\ ~link[c].doomed /\ ~link[c].broken
  BY DEF DrainEnds, Reusable, PoolInv, Types, TripTypes, TripStates, Owners, Holders, LinkOf,
       Using, Unfired
<1>2. ~Pooled(c) /\ \A s \in Trips \ {r} : trip[s].link # c
  BY <1>1 DEF PoolInv, Owners, Apart, Alone
<1>3. /\ idle \in [Proxies -> Seq(Links)] /\ Distinct(idle[k]) /\ Len(idle[k]) <= MaxIdlePerHost
      /\ c \notin ToSet(idle[k])
  BY <1>1, <1>2 DEF PoolInv, Types, RestTypes, Owners, Stacks, Pooled, ToSet, Range
<1>4. /\ stack \in Seq(Links) /\ stack # <<>> /\ Distinct(stack)
      /\ ToSet(stack) = ToSet(idle[k]) \cup {c}
      /\ Len(stack) = Len(idle[k]) + 1 /\ Len(idle[k]) \in Nat
  <2>1. /\ Append(idle[k], c) \in Seq(Links) /\ Distinct(Append(idle[k], c))
        /\ ToSet(Append(idle[k], c)) = ToSet(idle[k]) \cup {c}
    BY <1>1, <1>3, AppendKeepsSet
  <2>2. /\ Len(Append(idle[k], c)) = Len(idle[k]) + 1 /\ Append(idle[k], c) # <<>>
        /\ Len(idle[k]) \in Nat
    <3>1. idle[k] \in Seq(Links)
      BY <1>1, <1>3
    <3>2. c \in Links
      BY <1>1
    <3> HIDE DEF k, c
    <3> QED BY <3>1, <3>2, AppendProperties
  <2> QED BY <2>1, <2>2
<1>5. /\ \A s \in Trips \ {r} : trip'[s] = trip[s]
      /\ trip'[r].at = "answered" /\ trip'[r].link = NoLink
  BY DEF DrainEnds, Ended, NewTrip, PoolInv, Types, TripTypes, TripStates
<1>6. \A p \in Proxies : \A d \in ToSet(idle[p]) :
        /\ d \in Links /\ Pooled(d)
        /\ link[d].key = p /\ link[d].open /\ ~link[d].broken /\ ~link[d].doomed
  BY DEF PoolInv, Types, RestTypes, Owners, Stacks, Pooled, ToSet, Range
<1>7. \A s \in Trips \ {r} : trip[s].link # NoLink => trip[s].link \in Links \ {c} /\ ~Pooled(trip[s].link)
  BY <1>2 DEF PoolInv, Types, TripTypes, TripStates, Owners, Apart
<1>8. /\ idle' = [idle EXCEPT ![k] = IF excess > 0 THEN Tail(stack) ELSE stack]
      /\ link' = IF excess > 0 THEN CloseAll({Head(stack)}) ELSE link
  BY DEF DrainEnds
<1> HIDE DEF stack
(* What is left in the stack, and who it is that falls out.                *)
<1> DEFINE out == IF excess > 0 THEN {Head(stack)} ELSE {}
<1>9. /\ out \subseteq ToSet(stack)
      /\ idle'[k] \in Seq(Links) /\ Distinct(idle'[k]) /\ Len(idle'[k]) <= MaxIdlePerHost
      /\ ToSet(idle'[k]) = ToSet(stack) \ out
      /\ \A d \in Links \ out : link'[d] = link[d]
      /\ \A d \in Links : d \in out => ~link'[d].open
  <2>1. CASE excess > 0
    <3>1. /\ Tail(stack) \in Seq(Links) /\ Distinct(Tail(stack)) /\ Len(Tail(stack)) = Len(stack) - 1
          /\ ToSet(Tail(stack)) = ToSet(stack) \ {Head(stack)} /\ Head(stack) \in ToSet(stack)
      BY <1>4, TailKeepsSet
    <3>2. idle'[k] = Tail(stack) /\ link' = CloseAll({Head(stack)}) /\ out = {Head(stack)}
      BY <1>1, <1>3, <1>8, <2>1
    <3>3. Len(Tail(stack)) <= MaxIdlePerHost
      <4> DEFINE n == Len(idle[k])
      <4>1. n \in Nat /\ n <= MaxIdlePerHost /\ Len(stack) = n + 1
        BY <1>3, <1>4
      <4>2. Len(Tail(stack)) = Len(stack) - 1
        BY <3>1
      <4> HIDE DEF n
      <4> QED BY <4>1, <4>2, TransportAssumption
    <3>4. /\ \A d \in Links \ {Head(stack)} : link'[d] = link[d]
          /\ \A d \in Links : d \in {Head(stack)} => ~link'[d].open
      <4>1. ~Forgotten(Head(stack)).open
        BY DEF Forgotten, NewLink
      <4> QED BY <3>2, <4>1 DEF CloseAll
    <3> HIDE DEF out
    <3> QED BY <3>1, <3>2, <3>3, <3>4
  <2>2. CASE ~(excess > 0)
    <3>1. idle'[k] = stack /\ link' = link /\ Len(stack) <= MaxIdlePerHost /\ out = {}
      BY <1>1, <1>3, <1>4, <1>8, <2>2, TransportAssumption
    <3> HIDE DEF out
    <3> QED BY <1>4, <3>1
  <2> QED BY <2>1, <2>2
<1> HIDE DEF out
<1>10. /\ \A p \in Proxies \ {k} : idle'[p] = idle[p]
       /\ \A p \in Proxies \ {k} : \A d \in ToSet(idle[p]) : d \notin ToSet(stack)
  <2>1. \A p \in Proxies \ {k} : idle'[p] = idle[p]
    BY <1>1, <1>3, <1>8
  <2>2. ASSUME NEW p \in Proxies \ {k}, NEW d \in ToSet(idle[p]) PROVE d \notin ToSet(stack)
    <3>1. Pooled(d) /\ link[d].key = p
      BY <1>6
    <3> HIDE DEF c, k, excess
    <3>2. d # c
      BY <1>2, <3>1
    <3>3. d \notin ToSet(idle[k])
      BY <1>1, <1>6, <3>1
    <3> QED BY <1>4, <3>2, <3>3
  <2> QED BY <2>1, <2>2
<1> HIDE DEF c, k, excess
<1>11. \A d : Pooled(d)' <=> (Pooled(d) \/ d = c) /\ d \notin out
  <2>1. \A d : Pooled(d)' <=> \E p \in Proxies : d \in ToSet(idle'[p])
    BY DEF Pooled, Range, ToSet
  <2>2. \A d : Pooled(d) <=> \E p \in Proxies : d \in ToSet(idle[p])
    BY DEF Pooled, Range, ToSet
  <2> QED BY <1>1, <1>4, <1>9, <1>10, <2>1, <2>2
<1>12. \A s \in Trips \ {r} : trip[s].link # NoLink => link'[trip[s].link] = link[trip[s].link]
  <2>1. \A d \in out : d = c \/ Pooled(d)
    BY <1>1, <1>4, <1>6, <1>9
  <2> QED BY <1>7, <1>9, <2>1
<1>13. Holders'
  BY <1>5, <1>12 DEF PoolInv, Owners, Holders, LinkOf, Using
<1>14. Alone' /\ Apart'
  BY <1>5, <1>7, <1>11 DEF PoolInv, Owners, Alone, Apart
<1>15. Owned'
  <2> SUFFICES ASSUME NEW d \in Links, link'[d].open PROVE Pooled(d)' \/ \E s \in Trips : Holds(s, d)'
      BY DEF Owned
  <2>1. d \notin out /\ link[d].open
    BY <1>9
  <2>2. CASE \E s \in Trips : Holds(s, d)
    BY <1>5, <1>11, <2>1, <2>2 DEF Holds, c
  <2> QED BY <1>11, <2>1, <2>2 DEF PoolInv, Owners, Owned
<1>16. Stacks'
  <2>1. \A d \in ToSet(idle'[k]) : link'[d].open /\ link'[d].key = k /\ ~link'[d].broken /\ ~link'[d].doomed
    BY <1>1, <1>4, <1>6, <1>9 DEF c, k
  <2>2. \A p \in Proxies \ {k} : \A d \in ToSet(idle'[p]) : link'[d] = link[d]
    BY <1>6, <1>9, <1>10
  <2> QED BY <1>6, <1>9, <1>10, <2>1, <2>2 DEF PoolInv, Owners, Stacks
<1> QED BY <1>13, <1>14, <1>15, <1>16 DEF Owners

-----------------------------------------------------------------------------
LEMMA GiveUpOwners ==
  ASSUME PoolInv, NEW r \in Trips, trip[r].at \in Using, NEW retry, NEW otherwise \in {"failed", "bypassed"},
         GiveUpLink(r, retry, otherwise), idle' = idle
  PROVE  Owners'
<1>1. trip[r].link # NoLink /\ trip \in [Trips -> TripStates]
  BY DEF PoolInv, Types, TripTypes, Owners, Holders
<1>2. /\ \A s \in Trips \ {r} : trip'[s] = trip[s]
      /\ trip'[r].link = NoLink /\ trip'[r].at \notin Using
      /\ trip'[r].at = "acquire" => trip'[r].key = trip[r].key
  BY <1>1 DEF GiveUpLink, Ended, NewTrip, TripStates, Using
<1>3. link' = CloseAll({trip[r].link})
  BY DEF GiveUpLink
<1> QED BY <1>1, <1>2, <1>3, OwnerCloses

LEMMA RoundTripOwners ==
  ASSUME PoolInv, NEW r \in Trips, RoundTrip(r)
  PROVE  Owners'
<1>0. trip \in [Trips -> TripStates] /\ link \in [Links -> LinkStates] /\ proxy \in Proxies
  BY DEF PoolInv, Types, TripTypes, LinkTypes, RestTypes
<1>1. CASE Begin(r)
  BY <1>0, <1>1, OwnersStay DEF Begin, TripStates, Using, PoolInv, Owners, Holders
<1>2. CASE Bypass(r) \/ DialFails(r)
  <2>1. trip' = Ended(r, "bypassed") /\ link' = link /\ idle' = idle /\ trip[r].link = NoLink
    BY <1>2 DEF Bypass, DialFails, PoolInv, Owners, Holders, Using
  <2> QED BY <1>0, <1>2, <2>1, OwnersStay DEF Ended, NewTrip, TripStates, Using, Bypass, DialFails, PoolInv, Owners, Holders
<1>3. CASE Expire(r)
  <2> DEFINE k == trip[r].key
  <2>1. k \in Proxies /\ idle \in [Proxies -> Seq(Links)]
    BY <1>3 DEF Expire, PoolInv, Types, RestTypes, Owners, Holders
  <2>2. /\ trip' = trip /\ idle' = [idle EXCEPT ![k] = <<>>]
        /\ link' = CloseAll(Range(idle[k]))
    BY <1>3 DEF Expire
  <2>3. Range(idle[k]) = UNION {ToSet(idle[p]) : p \in {k}}
    BY DEF Range, ToSet
  <2>4. idle' = [p \in Proxies |-> IF p \in {k} THEN <<>> ELSE idle[p]]
    BY <2>1, <2>2
  <2> HIDE DEF k
  <2> QED BY <2>1, <2>2, <2>3, <2>4, StacksClose
<1>4. CASE Write(r) \/ ReadHead(r)
  <2>1. /\ idle' = idle
        /\ \A s \in Trips : /\ trip'[s].link = trip[s].link /\ trip'[s].key = trip[s].key
                            /\ trip'[s].guard = trip[s].guard
                            /\ trip'[s].at \in Using <=> trip[s].at \in Using
                            /\ trip'[s].at = "acquire" => trip[s].at = "acquire"
    <3>1. CASE Write(r)
      <4>1. PICK u : /\ trip' = [trip EXCEPT ![r] = u]
                     /\ u = [trip[r] EXCEPT !.at = "read"]
                        \/ u = [trip[r] EXCEPT !.at = "read", !.sent = @ + 1]
        BY <1>0, <3>1 DEF Write
      <4>2. /\ u.link = trip[r].link /\ u.key = trip[r].key /\ u.guard = trip[r].guard
            /\ u.at = "read" /\ trip[r].at = "write"
        BY <1>0, <3>1, <4>1 DEF Write, TripStates
      <4>3. trip'[r] = u /\ \A s \in Trips \ {r} : trip'[s] = trip[s]
        BY <1>0, <4>1
      <4> QED BY <3>1, <4>2, <4>3 DEF Write, Using
    <3>2. CASE ReadHead(r)
      BY <1>0, <3>2 DEF ReadHead, TripStates, Using
    <3> QED BY <1>4, <3>1, <3>2
  <2>2. \A c \in Links : /\ link'[c].open = link[c].open /\ link'[c].key = link[c].key
                         /\ link'[c].broken = link[c].broken /\ link'[c].doomed = link[c].doomed
    BY <1>0, <1>4 DEF Write, ReadHead, LinkStates
  <2>3. \A s \in Trips : trip[s].link \in Links \cup {NoLink}
    BY <1>0 DEF TripStates
  <2>4. \A s \in Trips : trip[s].at = "acquire" => trip[s].key \in Proxies
    BY DEF PoolInv, Owners, Holders
  <2> QED BY <2>1, <2>2, <2>3, <2>4, OwnersStay
<1>5. CASE WriteFails(r)
  BY <1>5, GiveUpOwners DEF WriteFails, Using
<1>6. CASE ReadFails(r)
  BY <1>6, GiveUpOwners DEF ReadFails, Using
<1> QED BY <1>1, <1>2, <1>3, <1>4, <1>5, <1>6, TakeIdleOwners, DialOwners DEF RoundTrip, Acquire

LEMMA BodyOwners ==
  ASSUME PoolInv, NEW r \in Trips, Body(r) \/ Cancel(r) \/ GuardFires(r)
  PROVE  Owners'
<1>0. /\ trip \in [Trips -> TripStates] /\ link \in [Links -> LinkStates]
      /\ \A s \in Trips : trip[s].link \in Links \cup {NoLink}
      /\ \A s \in Trips : trip[s].at = "acquire" => trip[s].key \in Proxies
      /\ \A s \in Trips : trip[s].link # NoLink => ~Pooled(trip[s].link)
      /\ \A s \in Trips : s # r /\ trip[r].link # NoLink => trip[s].link # trip[r].link
  BY DEF PoolInv, Types, TripTypes, LinkTypes, Owners, Holders, Apart, Alone, TripStates
<1>1. CASE BodyEnds(r)
  <2>1. /\ idle' = idle
        /\ \A s \in Trips : /\ trip'[s].link = trip[s].link /\ trip'[s].key = trip[s].key
                            /\ trip'[s].guard = trip[s].guard /\ trip'[s].at = trip[s].at
    BY <1>0, <1>1 DEF BodyEnds, TripStates
  <2>2. \A c \in Links : /\ link'[c].open = link[c].open /\ link'[c].key = link[c].key
                         /\ link'[c].broken = link[c].broken /\ link'[c].doomed = link[c].doomed
    <3>1. CASE link' = link
      BY <3>1
    <3>2. CASE link' = [link EXCEPT ![trip[r].link].buf = Tail(@)]
      BY <1>0, <3>2 DEF LinkStates
    <3> QED BY <1>1, <3>1, <3>2 DEF BodyEnds
  <2> QED BY <1>0, <2>1, <2>2, OwnersStay
<1>2. CASE BodyFails(r)
  <2>1. /\ idle' = idle /\ trip[r].link # NoLink
        /\ \A s \in Trips : /\ trip'[s].link = trip[s].link /\ trip'[s].key = trip[s].key
                            /\ trip'[s].guard = trip[s].guard /\ trip'[s].at = trip[s].at
    BY <1>0, <1>2 DEF BodyFails, TripStates, Using, PoolInv, Owners, Holders
  <2>2. \A c \in Links : /\ link'[c].open = link[c].open /\ link'[c].key = link[c].key
                         /\ link'[c].doomed = link[c].doomed
                         /\ c # trip[r].link => link'[c].broken = link[c].broken
    BY <1>0, <1>2 DEF BodyFails, LinkStates
  <2> QED BY <1>0, <2>1, <2>2, OwnersStay
<1>3. CASE DrainEnds(r)
  <2>1. trip[r].link # NoLink
    BY <1>3 DEF DrainEnds, Using, PoolInv, Owners, Holders
  <2>2. CASE ~Reusable(r)
    <3>1. /\ link' = CloseAll({trip[r].link}) /\ idle' = idle /\ trip' = Ended(r, "answered")
      BY <1>3, <2>2 DEF DrainEnds
    <3>2. /\ \A s \in Trips \ {r} : trip'[s] = trip[s]
          /\ trip'[r].link = NoLink /\ trip'[r].at = "answered"
      BY <1>0, <3>1 DEF Ended, NewTrip
    <3> QED BY <2>1, <3>1, <3>2, OwnerCloses DEF Using
  <2> QED BY <1>3, <2>2, PutBackOwners
<1>6. CASE CloseBody(r)
  <2>1. /\ idle' = idle /\ link' = link
        /\ \A s \in Trips : /\ trip'[s].link = trip[s].link /\ trip'[s].key = trip[s].key
                            /\ trip'[s].guard \in Unfired => trip[s].guard \in Unfired
        /\ \A s \in Trips \ {r} : trip'[s] = trip[s]
        /\ trip[r].at = "body" /\ trip'[r].at = "close"
    BY <1>0, <1>6 DEF CloseBody, TripStates, Unfired
  <2> QED BY <1>0, <2>1, OwnersStay DEF Using
<1>4. CASE Cancel(r)
  <2>1. /\ idle' = idle /\ link' = link
        /\ \A s \in Trips : /\ trip'[s].link = trip[s].link /\ trip'[s].key = trip[s].key
                            /\ trip'[s].guard = trip[s].guard /\ trip'[s].at = trip[s].at
    BY <1>0, <1>4 DEF Cancel, TripStates
  <2> QED BY <1>0, <2>1, OwnersStay
(* The guard that has fired no longer vouches for the connection.          *)
<1>5. CASE GuardFires(r)
  <2>1. /\ idle' = idle
        /\ \A s \in Trips : /\ trip'[s].link = trip[s].link /\ trip'[s].key = trip[s].key
                            /\ trip'[s].at = trip[s].at
        /\ trip'[r].guard = "fired"
        /\ \A s \in Trips \ {r} : trip'[s].guard = trip[s].guard
    BY <1>0, <1>5 DEF GuardFires, TripStates
  <2>2. \A c \in Links : /\ link'[c].open = link[c].open /\ link'[c].key = link[c].key
                         /\ link'[c].broken = link[c].broken
                         /\ c # trip[r].link => link'[c].doomed = link[c].doomed
    BY <1>0, <1>5 DEF GuardFires, LinkStates
  <2>3. trip[r].link = NoLink => link' = link
    BY <1>0, <1>5, TransportAssumption DEF GuardFires
  <2>4. ASSUME NEW s \in Trips, trip'[s].link # NoLink, trip'[s].guard \in Unfired
        PROVE  /\ trip[s].guard \in Unfired
               /\ ~link[trip[s].link].doomed => ~link'[trip[s].link].doomed
    <3>1. s # r
      BY <2>1, <2>4 DEF Unfired
    <3>2. trip[s].link \in Links /\ trip[s].link # trip[r].link
      BY <1>0, <2>1, <2>4, <3>1 DEF PoolInv, Owners, Alone, TripStates
    <3> QED BY <2>1, <2>2, <2>4, <3>1, <3>2
  <2>5. \A c \in Links : Pooled(c) => c # trip[r].link
    BY <1>0, <2>3, TransportAssumption DEF PoolInv, Owners, Apart
  <2>6. \A c \in Links : Pooled(c) => link'[c].doomed = link[c].doomed
    BY <2>2, <2>5
  <2> QED BY <1>0, <2>1, <2>2, <2>4, <2>6, OwnersStay
<1> QED BY <1>1, <1>2, <1>3, <1>4, <1>5, <1>6 DEF Body

LEMMA GuardClosesOwners ==
  ASSUME PoolInv, NEW c \in Links, GuardCloses(c)
  PROVE  Owners'
<1>2. link \in [Links -> LinkStates]
  BY DEF PoolInv, Types, LinkTypes
<1>1. /\ link[c].doomed /\ trip' = trip /\ idle' = idle
      /\ \A d \in Links \ {c} : link'[d] = link[d]
  BY <1>2 DEF GuardCloses
<1>3. ~link'[c].open /\ ((\E r \in Trips : trip[r].link = c) => link'[c].key = link[c].key)
  BY <1>2 DEF GuardCloses, LinkStates, NewLink
<1>4. ~Pooled(c)
  BY <1>1 DEF PoolInv, Owners, Stacks, Pooled, Range, ToSet
<1>5. \A r \in Trips : trip[r].link = c => trip[r].guard \notin Unfired
  BY <1>1, TransportAssumption DEF PoolInv, Owners, Holders, LinkOf
<1>6. Holders'
  <2>1. \A r \in Trips : trip[r].link \in Links \cup {NoLink}
    BY DEF PoolInv, Types, TripTypes, TripStates
  <2> QED BY <1>1, <1>3, <1>5, <2>1 DEF PoolInv, Owners, Holders, LinkOf
<1>7. Alone' /\ Apart'
  BY <1>1 DEF PoolInv, Owners, Alone, Apart, Pooled
<1>8. Owned'
  BY <1>1, <1>3 DEF PoolInv, Owners, Owned, Pooled, Holds
<1>9. Stacks'
  <2>1. \A p \in Proxies : \A d \in ToSet(idle[p]) : d \in Links \ {c}
    BY <1>4 DEF PoolInv, Types, RestTypes, Pooled, ToSet, Range
  <2> QED BY <1>1, <2>1 DEF PoolInv, Owners, Stacks
<1> QED BY <1>6, <1>7, <1>8, <1>9 DEF Owners

LEMMA RestStepOwners ==
  ASSUME PoolInv,
         \/ \E c \in Links : GuardCloses(c) \/ Upstream(c)
         \/ \E p \in Proxies : SwapProxy(p)
         \/ CloseIdleConnections
  PROVE  Owners'
<1>0. /\ link \in [Links -> LinkStates]
      /\ \A s \in Trips : trip[s].link \in Links \cup {NoLink}
      /\ \A s \in Trips : trip[s].at = "acquire" => trip[s].key \in Proxies
  BY DEF PoolInv, Types, TripTypes, LinkTypes, Owners, Holders, TripStates
<1>1. ASSUME NEW c \in Links, Upstream(c) PROVE Owners'
  <2>1. trip' = trip /\ idle' = idle
    BY <1>1 DEF Upstream, UpstreamInforms, UpstreamAnswers, UpstreamFails, UpstreamLeaves
  <2>2. \A d \in Links : /\ link'[d].open = link[d].open /\ link'[d].key = link[d].key
                         /\ link'[d].broken = link[d].broken /\ link'[d].doomed = link[d].doomed
    <3>1. CASE UpstreamInforms(c)
      BY <1>0, <3>1 DEF UpstreamInforms, LinkStates
    <3>2. CASE UpstreamAnswers(c)
      BY <1>0, <3>2 DEF UpstreamAnswers, LinkStates
    <3>3. CASE UpstreamFails(c)
      BY <1>0, <3>3 DEF UpstreamFails, LinkStates
    <3>4. CASE UpstreamLeaves(c)
      BY <1>0, <3>4 DEF UpstreamLeaves, LinkStates
    <3> QED BY <1>1, <3>1, <3>2, <3>3, <3>4 DEF Upstream
  <2> QED BY <1>0, <2>1, <2>2, OwnersStay
<1>2. ASSUME NEW p \in Proxies, SwapProxy(p) PROVE Owners'
  <2>1. trip' = trip /\ idle' = idle /\ link' = link
    BY <1>2 DEF SwapProxy
  <2> QED BY <1>0, <2>1, OwnersStay
<1>3. CASE CloseIdleConnections
  <2>1. /\ trip' = trip /\ idle' = [p \in Proxies |-> IF p \in Proxies THEN <<>> ELSE idle[p]]
        /\ link' = CloseAll(UNION {Range(idle[p]) : p \in Proxies})
    BY <1>3 DEF CloseIdleConnections
  <2>2. \A p \in Proxies : Range(idle[p]) = ToSet(idle[p])
    BY DEF Range, ToSet
  <2>3. UNION {Range(idle[p]) : p \in Proxies} = UNION {ToSet(idle[p]) : p \in Proxies}
    BY <2>2
  <2> QED BY <2>1, <2>3, StacksClose
<1> QED BY <1>1, <1>2, <1>3, GuardClosesOwners

LEMMA StepPool == PoolInv /\ [TransportNext]_transportVars => PoolInv'
<1> SUFFICES ASSUME PoolInv, [TransportNext]_transportVars PROVE PoolInv'
    OBVIOUS
<1>0. Types /\ Holders
  BY DEF PoolInv, Owners
<1>1. ASSUME NEW r \in Trips, RoundTrip(r) PROVE PoolInv'
  BY <1>0, <1>1, RoundTripTypes, RoundTripOwners DEF PoolInv
<1>2. ASSUME NEW r \in Trips, Body(r) \/ Cancel(r) \/ GuardFires(r) PROVE PoolInv'
  BY <1>0, <1>2, BodyTypes, BodyOwners DEF PoolInv
<1>3. CASE \/ \E c \in Links : GuardCloses(c) \/ Upstream(c)
           \/ \E p \in Proxies : SwapProxy(p)
           \/ CloseIdleConnections
  BY <1>0, <1>3, RestStepTypes, RestStepOwners DEF PoolInv
<1>4. CASE UNCHANGED transportVars
  BY <1>4 DEF transportVars, proxyVars, PoolInv, Types, TripTypes, LinkTypes, RestTypes,
       Owners, Holders, Alone, Apart, Owned, Stacks, LinkOf, Pooled, Holds
<1> QED BY <1>1, <1>2, <1>3, <1>4 DEF TransportNext

(* A connection of the transport has one owner, and the pool lends only    *)
(* what is open and what no guard will close (transport.go:552), for any   *)
(* number of trips, connections and proxies.                               *)
THEOREM PoolStaysSound == TransportSpec => []PoolSound
<1>1. TransportInit => PoolInv
  BY InitPool
<1>2. PoolInv /\ [TransportNext]_transportVars => PoolInv'
  BY StepPool
<1>3. PoolInv => PoolSound
  BY InvGivesPool
<1> QED BY <1>1, <1>2, <1>3, PTL DEF TransportSpec

-----------------------------------------------------------------------------
(* The conversations on the connections.                                   *)

(* Until its request has been written, nothing was sent for a trip; only   *)
(* replayable ones come back after that.                                   *)
Sending ==
  \A r \in Trips \ Replayable :
    /\ trip[r].sent <= 1
    /\ trip[r].at \in {"begin", "acquire", "write"} => trip[r].sent = 0

Silent(l) == l.inbox = <<>> /\ l.buf = <<>>

Own(r, answer) == answer.of = r /\ answer.part = "head" /\ answer.kind # "info"

(* The request is lost, with the upstream, or answered.                    *)
Awaited(r, l) ==
  \/ Silent(l)
  \/ l.inbox = <<r>> /\ l.buf = <<>>
  \/ l.inbox = <<>> /\ Len(l.buf) \in 1..2 /\ Own(r, Head(l.buf))

(* What is on the connection l of trip r, whose locals are t.              *)
Converses(r, t, l) ==
  /\ t.at = "write" => Silent(l)
  /\ t.at = "read" => Awaited(r, l)
  /\ t.at \in {"body", "close"} =>
       /\ Own(r, t.answer)
       /\ t.body = "open" => l.inbox = <<>> /\ Len(l.buf) <= 1
       /\ t.body = "eof" => Silent(l)
       /\ t.body = "error" => l.broken

(* Of connections without a 1xx answer: those no trip uses are silent.     *)
Rested == \A c \in Links :
  ~link[c].informed /\ (\A r \in Trips : trip[r].link # c) => Silent(link[c])

Talking == \A r \in Trips :
  trip[r].link # NoLink /\ ~LinkOf(r).informed => Converses(r, trip[r], LinkOf(r))

Conversed == Rested /\ Talking

AnswerInv == PoolInv /\ Sending /\ Conversed

LEMMA InvGivesAnswers == AnswerInv => AnswersMatch
<1> SUFFICES ASSUME AnswerInv PROVE AnswersMatch
    OBVIOUS
<1>1. SentOnce
  BY DEF AnswerInv, Sending, SentOnce
<1>2. ASSUME NEW r \in Trips, trip[r].at \in {"body", "close"}, ~LinkOf(r).informed
      PROVE  Own(r, trip[r].answer)
  <2>1. trip[r].link # NoLink
    BY <1>2 DEF AnswerInv, PoolInv, Owners, Holders, Using
  <2> QED BY <1>2, <2>1 DEF AnswerInv, Conversed, Talking, Converses
<1> QED BY <1>1, <1>2 DEF AnswersMatch, Own

LEMMA InitAnswers == TransportInit => AnswerInv
<1> SUFFICES ASSUME TransportInit PROVE AnswerInv
    OBVIOUS
<1>1. \A r \in Trips : trip[r].sent = 0 /\ trip[r].link = NoLink
  BY NewTypes DEF TransportInit
<1>2. \A c \in Links : Silent(link[c])
  BY DEF TransportInit, NewLink, Silent
<1> QED BY <1>1, <1>2, InitPool DEF AnswerInv, Sending, Conversed, Rested, Talking

-----------------------------------------------------------------------------
(* A step of trip r on connection c, which may silence others nobody uses. *)
LEMMA OneTalks ==
  ASSUME Conversed, NEW r \in Trips, NEW c \in Links \cup {NoLink},
         \A s \in Trips : trip[s].link \in Links \cup {NoLink},
         \A s \in Trips \ {r} : trip'[s] = trip[s] /\ (trip[s].link = c => c = NoLink),
         trip[r].link \in {c, NoLink}, trip'[r].link \in {c, NoLink},
         \A d \in Links \ {c} : \/ link'[d] = link[d]
                                \/ Silent(link'[d]) /\ \A s \in Trips : trip[s].link # d,
         c # NoLink /\ ~link'[c].informed =>
           IF trip'[r].link = c THEN Converses(r, trip'[r], link'[c]) ELSE Silent(link'[c])
  PROVE  Conversed'
<1>1. ASSUME NEW d \in Links, ~link'[d].informed, \A s \in Trips : trip'[s].link # d
      PROVE  Silent(link'[d])
  <2>1. CASE d = c
    BY <1>1, <2>1, TransportAssumption
  <2>2. CASE d # c
    <3>1. \A s \in Trips : trip[s].link # d
      BY <1>1, <2>2, TransportAssumption
    <3> QED BY <1>1, <2>2, <3>1 DEF Conversed, Rested
  <2> QED BY <2>1, <2>2
<1>2. ASSUME NEW s \in Trips, trip'[s].link # NoLink, ~link'[trip'[s].link].informed
      PROVE  Converses(s, trip'[s], link'[trip'[s].link])
  <2>1. CASE s = r
    BY <1>2, <2>1
  <2>2. CASE s # r
    <3>1. trip'[s] = trip[s] /\ trip[s].link \in Links \ {c}
      BY <1>2, <2>2
    <3>2. link'[trip[s].link] = link[trip[s].link]
      BY <3>1
    <3> QED BY <1>2, <3>1, <3>2 DEF Conversed, Talking, LinkOf
  <2> QED BY <2>1, <2>2
<1>3. Rested'
  BY <1>1 DEF Rested, Silent
<1>4. Talking'
  BY <1>2 DEF Talking, LinkOf, Converses, Awaited, Own, Silent
<1> QED BY <1>3, <1>4 DEF Conversed

(* A step of no trip, on connections nobody uses.                          *)
LEMMA NobodyTalks ==
  ASSUME Conversed, trip' = trip,
         \A s \in Trips : trip[s].link \in Links \cup {NoLink},
         \A d \in Links : \/ link'[d] = link[d]
                          \/ Silent(link'[d]) /\ \A s \in Trips : trip[s].link # d
  PROVE  Conversed'
<1>1. ASSUME NEW d \in Links, ~link'[d].informed, \A s \in Trips : trip'[s].link # d
      PROVE  Silent(link'[d])
  BY <1>1 DEF Conversed, Rested
<1>2. ASSUME NEW s \in Trips, trip'[s].link # NoLink, ~link'[trip'[s].link].informed
      PROVE  Converses(s, trip'[s], link'[trip'[s].link])
  <2>1. trip[s].link \in Links /\ link'[trip[s].link] = link[trip[s].link]
    BY <1>2
  <2> QED BY <1>2, <2>1 DEF Conversed, Talking, LinkOf
<1>3. Rested'
  BY <1>1 DEF Rested, Silent
<1>4. Talking'
  BY <1>2 DEF Talking, LinkOf, Converses, Awaited, Own, Silent
<1> QED BY <1>3, <1>4 DEF Conversed

(* What AnswerInv says of the trip at hand.                                *)
LEMMA AtHand ==
  ASSUME AnswerInv, NEW r \in Trips
  PROVE  /\ trip \in [Trips -> TripStates] /\ link \in [Links -> LinkStates]
         /\ trip[r] \in TripStates
         /\ \A s \in Trips : trip[s].link \in Links \cup {NoLink}
         /\ trip[r].link \in Links <=> trip[r].at \in Using
         /\ \A s \in Trips \ {r} : trip[s].link = trip[r].link => trip[r].link = NoLink
         /\ trip[r].link \in Links => link[trip[r].link] \in LinkStates
         /\ trip[r].link \in Links /\ ~link[trip[r].link].informed => Converses(r, trip[r], link[trip[r].link])
<1>1. trip \in [Trips -> TripStates] /\ link \in [Links -> LinkStates]
  BY DEF AnswerInv, PoolInv, Types, TripTypes, LinkTypes
<1>2. \A s \in Trips : trip[s].link \in Links \cup {NoLink}
  BY <1>1 DEF TripStates
<1>3. trip[r].link \in Links <=> trip[r].at \in Using
  BY <1>2, TransportAssumption DEF AnswerInv, PoolInv, Owners, Holders
<1>4. \A s \in Trips \ {r} : trip[s].link = trip[r].link => trip[r].link = NoLink
  BY DEF AnswerInv, PoolInv, Owners, Alone
<1>5. trip[r].link \in Links /\ ~link[trip[r].link].informed => Converses(r, trip[r], link[trip[r].link])
  BY TransportAssumption DEF AnswerInv, Conversed, Talking, LinkOf
<1> QED BY <1>1, <1>2, <1>3, <1>4, <1>5

(* What is in the pool is used by nobody.                                  *)
LEMMA PoolRests ==
  ASSUME AnswerInv, NEW p \in Proxies, NEW c \in ToSet(idle[p])
  PROVE  c \in Links /\ (\A s \in Trips : trip[s].link # c) /\ (~link[c].informed => Silent(link[c]))
<1>1. c \in Links
  BY DEF AnswerInv, PoolInv, Types, RestTypes, ToSet
<1>2. Pooled(c)
  BY DEF Pooled, ToSet, Range
<1>3. \A s \in Trips : trip[s].link # c
  BY <1>1, <1>2, TransportAssumption DEF AnswerInv, PoolInv, Owners, Apart
<1> QED BY <1>1, <1>3 DEF AnswerInv, Conversed, Rested

LEMMA ClosedAreSilent ==
  ASSUME NEW cs, link' = CloseAll(cs)
  PROVE  \A d \in Links : IF d \in cs THEN Silent(link'[d]) ELSE link'[d] = link[d]
  BY DEF CloseAll, Forgotten, NewLink, Silent

LEMMA EndedHoldsNone ==
  ASSUME trip \in [Trips -> TripStates], NEW r \in Trips, NEW how, trip' = Ended(r, how)
  PROVE  trip'[r].link = NoLink /\ trip'[r].at = how /\ \A s \in Trips \ {r} : trip'[s] = trip[s]
  BY DEF Ended, NewTrip

LEMMA OneSends ==
  ASSUME Sending, NEW r \in Trips, \A s \in Trips \ {r} : trip'[s] = trip[s],
         r \notin Replayable =>
           trip'[r].sent <= 1 /\ (trip'[r].at \in {"begin", "acquire", "write"} => trip'[r].sent = 0)
  PROVE  Sending'
  BY DEF Sending

LEMMA EndedSends ==
  ASSUME AnswerInv, NEW r \in Trips, NEW how \in {"answered", "failed", "bypassed"}, trip' = Ended(r, how),
         r \notin Replayable /\ how = "bypassed" => trip[r].sent = 0
  PROVE  Sending'
<1>1. Sending /\ trip \in [Trips -> TripStates]
  BY AtHand DEF AnswerInv
<1>2. trip'[r].at = how /\ \A s \in Trips \ {r} : trip'[s] = trip[s]
  BY <1>1, EndedHoldsNone
<1>3. trip'[r].sent = IF how = "bypassed" THEN trip[r].sent + 1 ELSE trip[r].sent
  BY <1>1 DEF Ended, NewTrip
<1>4. r \notin Replayable => trip'[r].sent <= 1
  BY <1>1, <1>3 DEF Sending
<1> QED BY <1>1, <1>2, <1>4, OneSends

(* Giving up after a request was written: only a replayable trip retries.  *)
LEMMA GiveUpAnswers ==
  ASSUME AnswerInv, NEW r \in Trips, NEW retry \in BOOLEAN, NEW otherwise \in {"failed", "bypassed"},
         GiveUpLink(r, retry, otherwise), trip[r].link \in Links,
         r \notin Replayable => trip[r].sent = 0 \/ (~retry /\ otherwise = "failed")
  PROVE  Sending' /\ Conversed'
<1> DEFINE c == trip[r].link
           again == ~trip[r].cancelled /\ retry /\ trip[r].attempt = 0
<1>1. /\ trip \in [Trips -> TripStates] /\ Sending /\ Conversed
      /\ \A s \in Trips : trip[s].link \in Links \cup {NoLink}
      /\ \A s \in Trips \ {r} : trip[s].link # c
  BY AtHand, TransportAssumption DEF AnswerInv
<1>2. \A d \in Links : IF d = c THEN Silent(link'[d]) ELSE link'[d] = link[d]
  BY ClosedAreSilent DEF GiveUpLink
<1>3. CASE again
  <2> DEFINE n == trip[r].attempt + 1
             t == [trip[r] EXCEPT !.at = "acquire", !.link = NoLink, !.guard = "off", !.attempt = n]
  <2>1. trip' = [trip EXCEPT ![r] = t]
    BY <1>3 DEF GiveUpLink
  <2> HIDE DEF n
  <2>2. t.link = NoLink /\ t.sent = trip[r].sent
    BY <1>1 DEF TripStates
  <2> HIDE DEF t
  <2>3. trip'[r] = t /\ \A s \in Trips \ {r} : trip'[s] = trip[s]
    BY <1>1, <2>1
  <2>4. r \notin Replayable => trip[r].sent = 0
    BY <1>3
  <2>5. Sending'
    BY <1>1, <2>2, <2>3, <2>4, OneSends
  <2>6. Conversed'
    BY <1>1, <1>2, <2>2, <2>3, TransportAssumption, OneTalks
  <2> QED BY <2>5, <2>6
<1>4. CASE ~again
  <2>1. PICK next \in {"failed", "bypassed"} :
          trip' = Ended(r, next) /\ (next = "bypassed" => ~trip[r].cancelled /\ (retry \/ otherwise = "bypassed"))
    BY <1>4 DEF GiveUpLink
  <2>2. Sending'
    BY <2>1, EndedSends
  <2>3. trip'[r].link = NoLink /\ \A s \in Trips \ {r} : trip'[s] = trip[s]
    BY <1>1, <2>1, EndedHoldsNone
  <2>4. Conversed'
    BY <1>1, <1>2, <2>3, TransportAssumption, OneTalks
  <2> QED BY <2>2, <2>4
<1> QED BY <1>3, <1>4

LEMMA AcquireAnswers ==
  ASSUME AnswerInv, NEW r \in Trips, Begin(r) \/ Bypass(r) \/ Acquire(r)
  PROVE  Sending' /\ Conversed'
<1> DEFINE t == trip[r]
<1>1. /\ trip \in [Trips -> TripStates] /\ link \in [Links -> LinkStates]
      /\ Sending /\ Conversed
      /\ \A s \in Trips : trip[s].link \in Links \cup {NoLink}
  BY AtHand DEF AnswerInv
<1>2. t.at \in {"begin", "acquire"}
  BY DEF Begin, Bypass, Acquire, TakeIdle, Expire, Dial, DialFails
<1>3. t.link = NoLink /\ (r \notin Replayable => t.sent = 0)
  BY <1>2, AtHand DEF AnswerInv, Sending, Using
<1>4. t.at = "acquire" => t.key \in Proxies
  BY DEF AnswerInv, PoolInv, Owners, Holders
<1>5. CASE Begin(r)
  <2> DEFINE u == [t EXCEPT !.at = "acquire", !.key = proxy]
  <2>1. trip' = [trip EXCEPT ![r] = u] /\ link' = link
    BY <1>5 DEF Begin
  <2>2. u.link = NoLink /\ u.sent = t.sent
    BY <1>1, <1>3 DEF TripStates
  <2> HIDE DEF u
  <2>3. trip'[r] = u /\ \A s \in Trips \ {r} : trip'[s] = trip[s]
    BY <1>1, <2>1
  <2>4. Sending'
    BY <1>1, <1>3, <2>2, <2>3, OneSends
  <2>5. Conversed'
    BY <1>1, <1>3, <2>1, <2>2, <2>3, OneTalks
  <2> QED BY <2>4, <2>5
<1>6. CASE Bypass(r) \/ DialFails(r)
  <2>1. trip' = Ended(r, "bypassed") /\ link' = link
    BY <1>6 DEF Bypass, DialFails
  <2>2. Sending'
    BY <1>3, <2>1, EndedSends
  <2>3. trip'[r].link = NoLink /\ \A s \in Trips \ {r} : trip'[s] = trip[s]
    BY <1>1, <2>1, EndedHoldsNone
  <2>4. Conversed'
    BY <1>1, <1>3, <2>1, <2>3, OneTalks
  <2> QED BY <2>2, <2>4
<1>7. ASSUME NEW c \in Links, NEW b \in BOOLEAN, trip' = Holding(r, c, b),
             \A s \in Trips : trip[s].link # c,
             \A d \in Links \ {c} : link'[d] = link[d],
             ~link'[c].informed => Silent(link'[c])
      PROVE  Sending' /\ Conversed'
  <2> DEFINE u == [t EXCEPT !.at = "write", !.link = c, !.fromIdle = b, !.guard = "armed"]
  <2>1. trip' = [trip EXCEPT ![r] = u]
    BY <1>7 DEF Holding
  <2>2. u.link = c /\ u.at = "write" /\ u.sent = t.sent
    BY <1>1 DEF TripStates
  <2> HIDE DEF u
  <2>3. trip'[r] = u /\ \A s \in Trips \ {r} : trip'[s] = trip[s]
    BY <1>1, <2>1
  <2>4. Sending'
    BY <1>1, <1>3, <2>2, <2>3, OneSends
  <2>5. ~link'[c].informed => Converses(r, u, link'[c])
    BY <1>7, <2>2 DEF Converses
  <2>6. Conversed'
    BY <1>1, <1>3, <1>7, <2>2, <2>3, <2>5, OneTalks
  <2> QED BY <2>4, <2>6
<1>8. CASE TakeIdle(r)
  <2> DEFINE stack == idle[t.key]
             c == Last(stack)
  <2>1. t.key \in Proxies /\ stack # <<>> /\ trip' = Holding(r, c, TRUE) /\ link' = link
    BY <1>4, <1>8 DEF TakeIdle
  <2>2. stack \in Seq(Links)
    BY <2>1 DEF AnswerInv, PoolInv, Types, RestTypes
  <2>3. c \in ToSet(stack)
    BY <2>1, <2>2, FrontKeepsSet
  <2> HIDE DEF c
  <2>4. c \in Links /\ (\A s \in Trips : trip[s].link # c) /\ (~link[c].informed => Silent(link[c]))
    BY <2>1, <2>3, PoolRests
  <2> QED BY <1>7, <2>1, <2>4
<1>9. CASE Expire(r)
  <2>1. t.key \in Proxies /\ trip' = trip /\ link' = CloseAll(Range(idle[t.key]))
    BY <1>4, <1>9 DEF Expire
  <2>2. Range(idle[t.key]) = ToSet(idle[t.key])
    BY DEF Range, ToSet
  <2>3. \A d \in Links : \/ link'[d] = link[d]
                         \/ Silent(link'[d]) /\ \A s \in Trips : trip[s].link # d
    BY <2>1, <2>2, ClosedAreSilent, PoolRests
  <2>4. Conversed'
    BY <1>1, <2>1, <2>3, NobodyTalks
  <2> QED BY <1>1, <2>1, <2>4 DEF Sending
<1>10. CASE Dial(r)
  <2>1. PICK c \in Links : /\ Unused(c)
                           /\ link' = [link EXCEPT ![c].open = TRUE, ![c].key = t.key]
                           /\ trip' = Holding(r, c, FALSE)
    BY <1>10 DEF Dial
  <2>2. \A d \in Links \ {c} : link'[d] = link[d]
    BY <1>1, <2>1
  <2>3. Silent(link'[c])
    <3>1. link[c].inbox = <<>> /\ link[c].buf = <<>>
      BY <2>1 DEF Unused, NewLink
    <3>2. link'[c].inbox = link[c].inbox /\ link'[c].buf = link[c].buf
      BY <1>1, <2>1 DEF LinkStates
    <3> QED BY <3>1, <3>2 DEF Silent
  <2> QED BY <1>7, <2>1, <2>2, <2>3 DEF Unused
<1> QED BY <1>5, <1>6, <1>8, <1>9, <1>10 DEF Acquire

(* The trip writes and reads: what is on its connection stays its own.     *)
LEMMA ExchangeAnswers ==
  ASSUME AnswerInv, NEW r \in Trips, Write(r) \/ WriteFails(r) \/ ReadHead(r) \/ ReadFails(r)
  PROVE  Sending' /\ Conversed'
<1> DEFINE t == trip[r]
           c == trip[r].link
<1>1. /\ trip \in [Trips -> TripStates] /\ link \in [Links -> LinkStates]
      /\ Sending /\ Conversed
      /\ \A s \in Trips : trip[s].link \in Links \cup {NoLink}
  BY AtHand DEF AnswerInv
<1>2. t.at \in {"write", "read"}
  BY DEF Write, WriteFails, ReadHead, ReadFails
<1>3. /\ c \in Links /\ link[c] \in LinkStates
      /\ \A s \in Trips \ {r} : trip[s].link # c
      /\ ~link[c].informed => Converses(r, t, link[c])
  BY <1>2, AtHand, TransportAssumption DEF Using
<1>4. r \notin Replayable => t.sent <= 1 /\ (t.at = "write" => t.sent = 0)
  BY <1>1 DEF Sending
<1>5. CASE Write(r)
  <2>0. t.at = "write" /\ (~link[c].informed => Silent(link[c]))
    BY <1>3, <1>5 DEF Write, Converses
  <2>1. CASE link[c].gone
    <3> DEFINE u == [t EXCEPT !.at = "read"]
    <3>1. trip' = [trip EXCEPT ![r] = u] /\ link' = link
      BY <1>5, <2>1 DEF Write, LinkOf
    <3>2. u.link = c /\ u.at = "read" /\ u.sent = t.sent
      BY <1>1 DEF TripStates
    <3> HIDE DEF u
    <3>3. trip'[r] = u /\ \A s \in Trips \ {r} : trip'[s] = trip[s]
      BY <1>1, <3>1
    <3>4. Sending'
      BY <1>1, <1>4, <3>2, <3>3, OneSends
    <3>5. ~link'[c].informed => Converses(r, u, link'[c])
      BY <2>0, <3>1, <3>2 DEF Converses, Awaited
    <3>6. Conversed'
      BY <1>1, <1>3, <3>1, <3>2, <3>3, <3>5, OneTalks
    <3> QED BY <3>4, <3>6
  <2>2. CASE ~link[c].gone
    <3> DEFINE n == t.sent + 1
               u == [t EXCEPT !.at = "read", !.sent = n]
               m == [link[c] EXCEPT !.inbox = Append(link[c].inbox, r)]
    <3>1. trip' = [trip EXCEPT ![r] = u] /\ link' = [link EXCEPT ![c] = m]
      BY <1>5, <2>2 DEF Write, LinkOf
    <3>2. u.link = c /\ u.at = "read" /\ u.sent = n
      <4> HIDE DEF n
      <4> QED BY <1>1 DEF TripStates
    <3>3. /\ m.informed = link[c].informed /\ m.buf = link[c].buf
          /\ link[c].inbox = <<>> => m.inbox = <<r>>
      <4>1. m.informed = link[c].informed /\ m.buf = link[c].buf /\ m.inbox = Append(link[c].inbox, r)
        BY <1>3 DEF LinkStates
      <4> HIDE DEF m
      <4>2. Append(<<>>, r) = <<r>>
        OBVIOUS
      <4> QED BY <4>1, <4>2
    <3>4. r \notin Replayable => n <= 1
      BY <1>4, <2>0
    <3> HIDE DEF u, m, n
    <3>5. /\ trip'[r] = u /\ \A s \in Trips \ {r} : trip'[s] = trip[s]
          /\ link'[c] = m /\ \A d \in Links \ {c} : link'[d] = link[d]
      BY <1>1, <1>3, <3>1
    <3>6. Sending'
      BY <1>1, <3>2, <3>4, <3>5, OneSends
    <3>7. ~m.informed => Converses(r, u, m)
      BY <2>0, <3>2, <3>3 DEF Converses, Awaited, Silent
    <3>8. Conversed'
      BY <1>1, <1>3, <3>2, <3>5, <3>7, OneTalks
    <3> QED BY <3>6, <3>8
  <2> QED BY <2>1, <2>2
<1>6. CASE WriteFails(r)
  <2> DEFINE again == t.fromIdle
  <2>1. GiveUpLink(r, again, "bypassed") /\ t.at = "write" /\ again \in BOOLEAN
    BY <1>1, <1>6 DEF WriteFails, TripStates
  <2> HIDE DEF again
  <2>2. r \notin Replayable => t.sent = 0
    BY <1>4, <2>1
  <2>3. c \in Links
    BY <1>3
  <2> QED BY <2>1, <2>2, <2>3, GiveUpAnswers
<1>7. CASE ReadFails(r)
  <2> DEFINE again == t.fromIdle /\ r \in Replayable
  <2>1. GiveUpLink(r, again, "failed") /\ again \in BOOLEAN /\ (r \notin Replayable => ~again)
    BY <1>1, <1>7 DEF ReadFails, TripStates
  <2> HIDE DEF again
  <2> QED BY <1>3, <2>1, GiveUpAnswers
<1>8. CASE ReadHead(r)
  <2> DEFINE u == [t EXCEPT !.at = "body", !.answer = Head(link[c].buf), !.body = "open"]
             m == [link[c] EXCEPT !.buf = Tail(link[c].buf)]
  <2>1. trip' = [trip EXCEPT ![r] = u] /\ link' = [link EXCEPT ![c] = m]
    BY <1>8 DEF ReadHead, LinkOf
  <2>2. u.link = c /\ u.at = "body" /\ u.body = "open" /\ u.sent = t.sent /\ u.answer = Head(link[c].buf)
    BY <1>1 DEF TripStates
  <2>3. m.informed = link[c].informed /\ m.inbox = link[c].inbox /\ m.buf = Tail(link[c].buf)
    BY <1>3 DEF LinkStates
  <2> HIDE DEF u, m
  <2>4. /\ trip'[r] = u /\ \A s \in Trips \ {r} : trip'[s] = trip[s]
        /\ link'[c] = m /\ \A d \in Links \ {c} : link'[d] = link[d]
    BY <1>1, <1>3, <2>1
  <2>5. Sending'
    BY <1>1, <1>4, <2>2, <2>4, OneSends
  <2>6. ASSUME ~m.informed PROVE Converses(r, u, m)
    <3>1. /\ link[c].inbox = <<>> /\ Len(link[c].buf) \in 1..2
          /\ Own(r, Head(link[c].buf)) /\ link[c].buf \in Seq(Parts)
      BY <1>3, <1>8, <2>3, <2>6 DEF ReadHead, LinkOf, Converses, Awaited, Silent, LinkStates
    <3>2. Len(Tail(link[c].buf)) <= 1
      <4>1. PICK b \in Seq(Parts) : b = link[c].buf
        BY <3>1
      <4>2. Len(b) \in 1..2 /\ b # <<>>
        BY <3>1, <4>1
      <4>3. Len(Tail(b)) = Len(b) - 1
        BY <4>2
      <4>4. ASSUME NEW n \in 1..2 PROVE n - 1 <= 1
        OBVIOUS
      <4>5. Len(b) - 1 <= 1
        BY <4>2, <4>4
      <4> QED BY <4>1, <4>3, <4>5
    <3> QED BY <2>2, <2>3, <3>1, <3>2 DEF Converses
  <2>7. Conversed'
    BY <1>1, <1>3, <2>2, <2>4, <2>6, OneTalks
  <2> QED BY <2>5, <2>7
<1> QED BY <1>5, <1>6, <1>7, <1>8

(* The body is read to its end, fails, and is closed.                      *)
LEMMA BodyAnswers ==
  ASSUME AnswerInv, NEW r \in Trips, Body(r)
  PROVE  Sending' /\ Conversed'
<1> DEFINE t == trip[r]
           c == trip[r].link
<1>1. /\ trip \in [Trips -> TripStates] /\ link \in [Links -> LinkStates]
      /\ Sending /\ Conversed
      /\ \A s \in Trips : trip[s].link \in Links \cup {NoLink}
  BY AtHand DEF AnswerInv
<1>2. t.at \in {"body", "close"} /\ (BodyEnds(r) \/ BodyFails(r) \/ CloseBody(r) => t.at = "body")
  BY DEF Body, BodyEnds, BodyFails, CloseBody, DrainEnds
<1>3. /\ c \in Links /\ link[c] \in LinkStates
      /\ \A s \in Trips \ {r} : trip[s].link # c
      /\ ~link[c].informed => Converses(r, t, link[c])
  BY <1>2, AtHand, TransportAssumption DEF Using
<1>4. r \notin Replayable => t.sent <= 1
  BY <1>1 DEF Sending
<1>5. CASE BodyEnds(r)
  <2> DEFINE u == [t EXCEPT !.body = "eof"]
             m == [link[c] EXCEPT !.buf = Tail(link[c].buf)]
  <2>1. trip' = [trip EXCEPT ![r] = u] /\ t.body = "open"
    BY <1>5 DEF BodyEnds
  <2>2. u.link = c /\ u.at = "body" /\ u.body = "eof" /\ u.sent = t.sent /\ u.answer = t.answer
    BY <1>1, <1>2, <1>5 DEF TripStates
  <2>3. m.informed = link[c].informed /\ m.inbox = link[c].inbox /\ m.buf = Tail(link[c].buf)
    BY <1>3 DEF LinkStates
  <2>4. /\ t.answer.kind = "info" => link' = link
        /\ t.answer.kind # "info" => link[c].buf # <<>> /\ link' = [link EXCEPT ![c] = m]
    BY <1>5 DEF BodyEnds, LinkOf
  <2> HIDE DEF u, m
  <2>5. trip'[r] = u /\ \A s \in Trips \ {r} : trip'[s] = trip[s]
    BY <1>1, <2>1
  <2>6. /\ \A d \in Links \ {c} : link'[d] = link[d]
        /\ link'[c] = IF t.answer.kind = "info" THEN link[c] ELSE m
    BY <1>1, <1>3, <2>4
  <2>7. Sending'
    BY <1>1, <1>2, <1>4, <2>2, <2>5, OneSends
  <2>8. ASSUME ~link'[c].informed PROVE Converses(r, u, link'[c])
    <3>1. /\ Own(r, t.answer) /\ link[c].inbox = <<>> /\ Len(link[c].buf) <= 1
          /\ link[c].buf \in Seq(Parts)
      BY <1>2, <1>3, <2>1, <2>3, <2>6, <2>8 DEF Converses, LinkStates
    <3>2. t.answer.kind # "info" /\ link[c].buf # <<>>
      BY <2>4, <3>1 DEF Own
    <3>3. Tail(link[c].buf) = <<>>
      BY <3>1, <3>2
    <3> QED BY <2>2, <2>3, <2>6, <3>1, <3>2, <3>3 DEF Converses, Silent
  <2>9. Conversed'
    BY <1>1, <1>3, <2>2, <2>5, <2>6, <2>8, OneTalks
  <2> QED BY <2>7, <2>9
<1>6. CASE BodyFails(r)
  <2> DEFINE u == [t EXCEPT !.body = "error"]
             m == [link[c] EXCEPT !.broken = TRUE]
  <2>1. trip' = [trip EXCEPT ![r] = u] /\ link' = [link EXCEPT ![c] = m]
    BY <1>6 DEF BodyFails
  <2>2. u.link = c /\ u.at = "body" /\ u.body = "error" /\ u.sent = t.sent /\ u.answer = t.answer
    BY <1>1, <1>2, <1>6 DEF TripStates
  <2>3. m.informed = link[c].informed /\ m.broken
    BY <1>3 DEF LinkStates
  <2> HIDE DEF u, m
  <2>4. /\ trip'[r] = u /\ \A s \in Trips \ {r} : trip'[s] = trip[s]
        /\ link'[c] = m /\ \A d \in Links \ {c} : link'[d] = link[d]
    BY <1>1, <1>3, <2>1
  <2>5. Sending'
    BY <1>1, <1>2, <1>4, <2>2, <2>4, OneSends
  <2>6. ~m.informed => Converses(r, u, m)
    BY <1>2, <1>3, <2>2, <2>3 DEF Converses
  <2>7. Conversed'
    BY <1>1, <1>3, <2>2, <2>4, <2>6, OneTalks
  <2> QED BY <2>5, <2>7
<1>7. CASE DrainEnds(r)
  <2>1. trip' = Ended(r, "answered")
    BY <1>7 DEF DrainEnds
  <2>2. Sending'
    BY <2>1, EndedSends
  <2>3. trip'[r].link = NoLink /\ \A s \in Trips \ {r} : trip'[s] = trip[s]
    BY <1>1, <2>1, EndedHoldsNone
  <2> DEFINE p == link[c].key
             stack == Append(idle[p], c)
  <2>4. CASE link' = CloseAll({c})
    <3>1. Silent(link'[c]) /\ \A d \in Links \ {c} : link'[d] = link[d]
      BY <1>3, <2>4, ClosedAreSilent
    <3> QED BY <1>1, <1>3, <2>2, <2>3, <3>1, TransportAssumption, OneTalks
  <2>5. CASE Reusable(r) /\ (link' = link \/ link' = CloseAll({Head(stack)}))
    <3>1. ~link[c].informed => Silent(link[c])
      BY <1>2, <1>3, <2>5 DEF Reusable, Converses, LinkOf
    <3>2. p \in Proxies /\ idle[p] \in Seq(Links)
      BY <1>2, <1>3, TransportAssumption DEF AnswerInv, PoolInv, Types, RestTypes, Owners, Holders, Using, LinkOf
    <3>3. Head(stack) = c \/ Head(stack) \in ToSet(idle[p])
      <4>1. CASE idle[p] = <<>>
        BY <3>2, <4>1
      <4>2. CASE idle[p] # <<>>
        <5>1. Head(stack) = idle[p][1] /\ 1 \in DOMAIN idle[p]
          BY <1>3, <3>2, <4>2
        <5> QED BY <5>1 DEF ToSet
      <4> QED BY <4>1, <4>2
    <3>4. \A d \in Links \ {c} : \/ link'[d] = link[d]
                                 \/ Silent(link'[d]) /\ \A s \in Trips : trip[s].link # d
      <4> TAKE d \in Links \ {c}
      <4>1. CASE link' = link
        BY <4>1
      <4>2. CASE link' = CloseAll({Head(stack)})
        <5>1. IF d = Head(stack) THEN Silent(link'[d]) ELSE link'[d] = link[d]
          BY <4>2, ClosedAreSilent
        <5>2. d = Head(stack) => \A s \in Trips : trip[s].link # d
          BY <3>2, <3>3, PoolRests
        <5> QED BY <5>1, <5>2
      <4> QED BY <2>5, <4>1, <4>2
    <3>5. ~link'[c].informed => Silent(link'[c])
      BY <1>3, <2>5, <3>1, ClosedAreSilent
    <3> HIDE DEF p, stack
    <3>6. Conversed'
      BY <1>1, <1>3, <2>3, <3>4, <3>5, TransportAssumption, OneTalks
    <3> QED BY <2>2, <3>6
  <2> QED BY <1>7, <2>4, <2>5 DEF DrainEnds
<1>8. CASE CloseBody(r)
  <2> DEFINE guard == IF t.guard = "armed" THEN "won" ELSE t.guard
             u == [t EXCEPT !.at = "close", !.guard = guard]
  <2>1. trip' = [trip EXCEPT ![r] = u] /\ link' = link
    BY <1>1, <1>8 DEF CloseBody, TripStates
  <2>2. u.link = c /\ u.at = "close" /\ u.body = t.body /\ u.sent = t.sent /\ u.answer = t.answer
    BY <1>1 DEF TripStates
  <2> HIDE DEF u
  <2>3. trip'[r] = u /\ \A s \in Trips \ {r} : trip'[s] = trip[s]
    BY <1>1, <2>1
  <2>4. Sending'
    BY <1>1, <1>2, <1>4, <2>2, <2>3, OneSends
  <2>5. ~link[c].informed => Converses(r, u, link[c])
    BY <1>2, <1>3, <2>2 DEF Converses
  <2>6. Conversed'
    BY <1>1, <1>3, <2>1, <2>2, <2>3, <2>5, OneTalks
  <2> QED BY <2>4, <2>6
<1> QED BY <1>5, <1>6, <1>7, <1>8 DEF Body

(* A flag of the trip or of its connection changes, nothing that was said. *)
LEMMA FlagsAnswer ==
  ASSUME AnswerInv, NEW r \in Trips, Cancel(r) \/ GuardFires(r)
  PROVE  Sending' /\ Conversed'
<1> DEFINE t == trip[r]
           c == trip[r].link
<1>1. /\ trip \in [Trips -> TripStates] /\ link \in [Links -> LinkStates] /\ t \in TripStates
      /\ Sending /\ Conversed
      /\ \A s \in Trips : trip[s].link \in Links \cup {NoLink}
      /\ \A s \in Trips \ {r} : trip[s].link = c => c = NoLink
  BY AtHand DEF AnswerInv
<1>2. /\ trip'[r].link = c /\ trip'[r].at = t.at /\ trip'[r].answer = t.answer
      /\ trip'[r].body = t.body /\ trip'[r].sent = t.sent
      /\ \A s \in Trips \ {r} : trip'[s] = trip[s]
  BY <1>1 DEF Cancel, GuardFires, TripStates
<1>3. \A d \in Links \ {c} : link'[d] = link[d]
  BY <1>1 DEF Cancel, GuardFires
<1>4. c \in Links => /\ link'[c].informed = link[c].informed /\ link'[c].broken = link[c].broken
                     /\ link'[c].inbox = link[c].inbox /\ link'[c].buf = link[c].buf
  BY ZenonT(40), <1>1 DEF Cancel, GuardFires, LinkStates
<1>5. Sending'
  BY <1>1, <1>2, OneSends DEF Sending
<1>6. c # NoLink /\ ~link'[c].informed => Converses(r, trip'[r], link'[c])
  <2>1. c # NoLink => c \in Links
    BY <1>1
  <2>2. c \in Links /\ ~link[c].informed => Converses(r, t, link[c])
    BY AtHand
  <2> QED BY <1>2, <1>4, <2>1, <2>2 DEF Converses, Awaited, Silent
<1>7. Conversed'
  BY <1>1, <1>2, <1>3, <1>6, OneTalks
<1> QED BY <1>5, <1>7

(* A step on connection c while nobody, or trip r, uses it.                *)
LEMMA LinkTalks ==
  ASSUME AnswerInv, NEW c \in Links, trip' = trip,
         \A d \in Links \ {c} : link'[d] = link[d],
         (\A s \in Trips : trip[s].link # c) => (~link'[c].informed => Silent(link'[c])),
         \A r \in Trips : trip[r].link = c =>
            (~link'[c].informed => Converses(r, trip[r], link'[c]))
  PROVE  Sending' /\ Conversed'
<1>1. /\ Sending /\ Conversed
      /\ \A s \in Trips : trip[s].link \in Links \cup {NoLink}
      /\ Alone
  BY DEF AnswerInv, PoolInv, Types, TripTypes, TripStates, Owners
<1>2. ASSUME NEW d \in Links, ~link'[d].informed, \A s \in Trips : trip[s].link # d
      PROVE  Silent(link'[d])
  BY <1>1, <1>2 DEF Conversed, Rested
<1>3. ASSUME NEW s \in Trips, trip[s].link # NoLink, ~link'[trip[s].link].informed
      PROVE  Converses(s, trip[s], link'[trip[s].link])
  BY <1>1, <1>3 DEF Conversed, Talking, LinkOf
<1>4. Rested'
  BY <1>2 DEF Rested, Silent
<1>5. Talking'
  BY <1>3 DEF Talking, LinkOf, Converses, Awaited, Own, Silent
<1> QED BY <1>1, <1>4, <1>5 DEF Conversed, Sending

LEMMA LinkStepAnswers ==
  ASSUME AnswerInv, NEW c \in Links, GuardCloses(c) \/ Upstream(c)
  PROVE  Sending' /\ Conversed'
<1> DEFINE l == link[c]
           m == link'[c]
<1>1. /\ link \in [Links -> LinkStates] /\ l \in LinkStates
      /\ trip \in [Trips -> TripStates]
  BY DEF AnswerInv, PoolInv, Types, LinkTypes, TripTypes
<1>2. trip' = trip /\ \A d \in Links \ {c} : link'[d] = link[d]
  BY <1>1 DEF GuardCloses, Upstream, UpstreamInforms, UpstreamAnswers, UpstreamFails, UpstreamLeaves
<1>3. /\ ~l.informed /\ (\A s \in Trips : trip[s].link # c) => Silent(l)
      /\ \A r \in Trips : trip[r].link = c /\ ~l.informed => Converses(r, trip[r], l)
      /\ \A r \in Trips : trip[r].link = c => trip[r].at \in Using
  BY TransportAssumption DEF AnswerInv, PoolInv, Owners, Holders, Conversed, Rested, Talking, LinkOf
<1>4. CASE GuardCloses(c) /\ \A s \in Trips : trip[s].link # c
  <2>1. m = NewLink
    BY <1>1, <1>4 DEF GuardCloses
  <2>2. Silent(m)
    BY <2>1 DEF NewLink, Silent
  <2> QED BY <1>2, <1>4, <2>2, LinkTalks
<1>5. CASE GuardCloses(c) /\ \E s \in Trips : trip[s].link = c
  <2>1. m.informed = l.informed /\ m.inbox = l.inbox /\ m.buf = l.buf /\ m.broken
    BY <1>1, <1>5 DEF GuardCloses, LinkStates
  <2> HIDE DEF m, l
  <2>2. \A r \in Trips : trip[r].link = c => (~m.informed => Converses(r, trip[r], m))
    BY <1>3, <2>1 DEF Converses, Awaited, Silent
  <2> USE DEF m, l
  <2> QED BY <1>2, <1>5, <2>2, LinkTalks
<1>6. CASE UpstreamInforms(c)
  <2>1. m.informed
    BY <1>1, <1>6 DEF UpstreamInforms, LinkStates
  <2> QED BY <1>2, <2>1, LinkTalks
(* A request that is there, with no 1xx answer, is of the trip that waits. *)
<1>7. ASSUME l.inbox # <<>>, ~l.informed
      PROVE  /\ \E r \in Trips : trip[r].link = c
             /\ \A r \in Trips : trip[r].link = c =>
                  \/ trip[r].at = "read" /\ l.inbox = <<r>> /\ l.buf = <<>>
                  \/ trip[r].at \in {"body", "close"} /\ trip[r].body \notin {"open", "eof"}
  BY <1>3, <1>7 DEF Converses, Awaited, Silent, Using
(* What reaches the trip that waits is a first part of its own, alone or   *)
(* with the rest.                                                          *)
<1>8. ASSUME m.informed = l.informed, m.broken = l.broken, l.inbox # <<>>,
             \A r \in Trips : l.inbox = <<r>> /\ l.buf = <<>> =>
                m.inbox = <<>> /\ Len(m.buf) \in 1..2 /\ Own(r, Head(m.buf))
      PROVE  Sending' /\ Conversed'
  <2>1. \A r \in Trips : trip[r].link = c => (~m.informed => Converses(r, trip[r], m))
    <3> SUFFICES ASSUME NEW r \in Trips, trip[r].link = c, ~m.informed PROVE Converses(r, trip[r], m)
        OBVIOUS
    <3>1. CASE trip[r].at = "read" /\ l.inbox = <<r>> /\ l.buf = <<>>
      <4> HIDE DEF m
      <4> QED BY <1>8, <3>1 DEF Converses, Awaited
    <3>2. CASE trip[r].at \in {"body", "close"} /\ trip[r].body \notin {"open", "eof"}
      <4>1. Converses(r, trip[r], l)
        BY <1>3, <1>8
      <4> HIDE DEF m, l
      <4> QED BY <1>8, <3>2, <4>1 DEF Converses
    <3> QED BY <1>7, <1>8, <3>1, <3>2
  <2>2. m.informed \/ \E r \in Trips : trip[r].link = c
    BY <1>7, <1>8
  <2> QED BY <1>2, <2>1, <2>2, LinkTalks
<1>9. CASE UpstreamAnswers(c)
  <2>1. PICK form \in {"final", "last"} :
          link' = [link EXCEPT ![c].buf = @ \o Part(c, "head", form) \o Part(c, "body", form), ![c].inbox = Tail(@)]
    BY <1>9 DEF UpstreamAnswers
  <2> DEFINE buf == l.buf \o Part(c, "head", form) \o Part(c, "body", form)
             inbox == Tail(l.inbox)
  <2>2. link' = [link EXCEPT ![c] = [l EXCEPT !.buf = buf, !.inbox = inbox]]
    BY <2>1
  <2>3. ASSUME NEW r \in Trips, l.inbox = <<r>>, l.buf = <<>>
        PROVE  inbox = <<>> /\ Len(buf) \in 1..2 /\ Own(r, Head(buf))
    <3>1. Head(<<r>>) = r /\ Tail(<<r>>) = <<>>
      OBVIOUS
    <3>2. \A x : <<>> \o <<x>> = <<x>>
      OBVIOUS
    <3>3. PICK x, y : x.of = r /\ x.part = "head" /\ x.kind = form /\ buf = <<x>> \o <<y>>
      BY <2>3, <3>1, <3>2 DEF Part
    <3>4. Len(<<x>> \o <<y>>) = 2 /\ Head(<<x>> \o <<y>>) = x
      OBVIOUS
    <3> HIDE DEF buf
    <3> QED BY <2>3, <3>1, <3>3, <3>4 DEF Own
  <2> HIDE DEF buf, inbox
  <2>4. m.informed = l.informed /\ m.broken = l.broken /\ m.inbox = inbox /\ m.buf = buf
    BY <1>1, <2>2 DEF LinkStates
  <2>5. l.inbox # <<>>
    BY <1>9 DEF UpstreamAnswers
  <2> QED BY <1>8, <2>3, <2>4, <2>5
<1>10. CASE UpstreamFails(c)
  <2> DEFINE buf == l.buf \o Part(c, "head", "final")
  <2>1. link' = [link EXCEPT ![c] = [l EXCEPT !.buf = buf, !.inbox = <<>>, !.gone = TRUE]]
    BY <1>10 DEF UpstreamFails
  <2>2. ASSUME NEW r \in Trips, l.inbox = <<r>>, l.buf = <<>>
        PROVE  Len(buf) \in 1..2 /\ Own(r, Head(buf))
    <3>1. Head(<<r>>) = r
      OBVIOUS
    <3>2. \A x : <<>> \o <<x>> = <<x>>
      OBVIOUS
    <3>3. PICK x : x.of = r /\ x.part = "head" /\ x.kind = "final" /\ buf = <<x>>
      BY <2>2, <3>1, <3>2 DEF Part
    <3>4. Len(<<x>>) = 1 /\ Head(<<x>>) = x
      OBVIOUS
    <3> HIDE DEF buf
    <3> QED BY <3>3, <3>4 DEF Own
  <2> HIDE DEF buf
  <2>3. m.informed = l.informed /\ m.broken = l.broken /\ m.inbox = <<>> /\ m.buf = buf
    BY <1>1, <2>1 DEF LinkStates
  <2>4. l.inbox # <<>>
    BY <1>10 DEF UpstreamFails
  <2> QED BY <1>8, <2>2, <2>3, <2>4
<1>11. CASE UpstreamLeaves(c)
  <2>1. m.informed = l.informed /\ m.broken = l.broken /\ m.inbox = <<>> /\ m.buf = <<>> /\ l.buf = <<>>
    BY <1>1, <1>11 DEF UpstreamLeaves, LinkStates
  <2> HIDE DEF m
  <2>2. \A r \in Trips : trip[r].link = c => (~m.informed => Converses(r, trip[r], m))
    BY <1>3, <2>1 DEF Converses, Awaited, Silent
  <2>3. Silent(m)
    BY <2>1 DEF Silent
  <2> USE DEF m
  <2> QED BY <1>2, <2>2, <2>3, LinkTalks
<1> QED BY <1>4, <1>5, <1>6, <1>9, <1>10, <1>11 DEF Upstream

LEMMA StepAnswers == AnswerInv /\ [TransportNext]_transportVars => AnswerInv'
<1> SUFFICES ASSUME AnswerInv, [TransportNext]_transportVars PROVE Sending' /\ Conversed'
    BY StepPool DEF AnswerInv
<1>1. ASSUME NEW r \in Trips, RoundTrip(r) PROVE Sending' /\ Conversed'
  BY <1>1, AcquireAnswers, ExchangeAnswers DEF RoundTrip
<1>2. ASSUME NEW r \in Trips, Body(r) PROVE Sending' /\ Conversed'
  BY <1>2, BodyAnswers
<1>3. ASSUME NEW r \in Trips, Cancel(r) \/ GuardFires(r) PROVE Sending' /\ Conversed'
  BY <1>3, FlagsAnswer
<1>4. ASSUME NEW c \in Links, GuardCloses(c) \/ Upstream(c) PROVE Sending' /\ Conversed'
  BY <1>4, LinkStepAnswers
<1>5. CASE CloseIdleConnections
  <2>1. trip' = trip /\ link' = CloseAll(UNION {Range(idle[p]) : p \in Proxies})
    BY <1>5 DEF CloseIdleConnections
  <2>2. \A d \in UNION {Range(idle[p]) : p \in Proxies} : \A s \in Trips : trip[s].link # d
    <3>1. \A p \in Proxies : Range(idle[p]) = ToSet(idle[p])
      BY DEF Range, ToSet
    <3> QED BY <3>1, PoolRests
  <2>3. \A d \in Links : \/ link'[d] = link[d]
                         \/ Silent(link'[d]) /\ \A s \in Trips : trip[s].link # d
    BY <2>1, <2>2, ClosedAreSilent
  <2>4. \A s \in Trips : trip[s].link \in Links \cup {NoLink}
    BY DEF AnswerInv, PoolInv, Types, TripTypes, TripStates
  <2>5. Conversed'
    BY <2>1, <2>3, <2>4, NobodyTalks DEF AnswerInv
  <2> QED BY <2>1, <2>5 DEF AnswerInv, Sending
<1>6. CASE (\E p \in Proxies : SwapProxy(p)) \/ UNCHANGED transportVars
  <2>1. trip' = trip /\ link' = link
    BY <1>6 DEF SwapProxy, transportVars
  <2> QED BY <2>1 DEF AnswerInv, Sending, Conversed, Rested, Talking, LinkOf
<1> QED BY <1>1, <1>2, <1>3, <1>4, <1>5, <1>6 DEF TransportNext

(* What must not be replayed is sent once, and, short of a 1xx answer, no  *)
(* trip is handed what was left of another's answer on a reused connection *)
(* (transport.go:228, 559), for any trips, connections and proxies.        *)
THEOREM AnswersStayMatched == TransportSpec => []AnswersMatch
<1>1. TransportInit => AnswerInv
  BY InitAnswers
<1>2. AnswerInv /\ [TransportNext]_transportVars => AnswerInv'
  BY StepAnswers
<1>3. AnswerInv => AnswersMatch
  BY InvGivesAnswers
<1> QED BY <1>1, <1>2, <1>3, PTL DEF TransportSpec

-----------------------------------------------------------------------------
(* The relay of streams.                                                   *)

(* A relay before its first message and after its last.                    *)
Before == {"off", "start", "do", "answer", "head", "open", "status", "push_status"}
After  == {"finish", "close", "push_close", "done"}

(* The messages of a direction are counted alike as read, recorded and     *)
(* passed on, up to the one in hand.                                       *)
Count(s, g) == Cardinality({i \in DOMAIN s : s[i][1] = g})

Counted(p, n, r, l) ==
  /\ p \in Before \cup {"read"} => (n = r /\ l = r)
  /\ p \in {"seq", "hook", "add"} => (n = l /\ r = l + 1)
  /\ p \in {"push", "write"} => (n = r /\ r = l + 1)
  /\ p \in After => (l <= n /\ n <= l + 1 /\ n <= r)

Relayed(g) ==
  /\ \A i \in DOMAIN wire[g] : wire[g][i] = i
  /\ read[g] <= sent[g]
  /\ Counted(pc[g], Count(added, g), read[g], Len(wire[g]))

(* Where the handler and the pump may be, with and without a session.      *)
Placed ==
  /\ rec = <<>> =>
       /\ pc[Handler] \in {"start", "head", "open", "done"} /\ pc[Pump] = "off"
       /\ added = <<>>
       /\ pc[Handler] = "head" => kind = "response"
  /\ pc[Handler] \in {"start", "open"} => (rec = <<>> /\ pc[Pump] = "off")
  /\ (pc[Handler] \in {"do", "answer"} \/ (pc[Handler] = "head" /\ rec # <<>>)) => kind = "grpc"
  /\ pc[Handler] # "off"
  /\ pc[Pump] \in {"off", "read", "seq", "hook", "add", "push", "write", "done"}
  /\ \A g \in Relays : pc[g] \in {"push_status", "push", "push_close"} => snap[g] \in Session

(* A relay ends with what it has passed on.                                *)
Resulted ==
  /\ result = "none" <=> pc[Handler] \notin {"close", "push_close", "done"}
  /\ result = "whole" => (ended[Handler] = "eof" /\ Len(wire[Handler]) = sent[Handler])

(* A number that was taken for a message and is not recorded yet is free,  *)
(* and the highest of its direction.                                       *)
Taken(g) == pc[g] \in {"hook", "add"}

Fresh(g) ==
  Taken(g) =>
    /\ seq[g] < rec.next
    /\ \A i \in DOMAIN added :
         /\ added[i][2] # seq[g]
         /\ added[i][1] = g => added[i][2] < seq[g]

Numbered ==
  /\ \A i \in DOMAIN added : added[i][2] < rec.next
  /\ \A i, j \in DOMAIN added : i < j =>
       /\ added[i][2] # added[j][2]
       /\ added[i][1] = added[j][1] => added[i][2] < added[j][2]
  /\ \A g \in Relays : Fresh(g)
  /\ (Taken(Handler) /\ Taken(Pump)) => seq[Handler] # seq[Pump]

Sessioned ==
  /\ rec.count = Len(added) /\ rec.messages = LastOf(added, Window)
  /\ pc[Handler] \in {"push_close", "done"} => ~rec.open
  /\ Numbered

StreamInv ==
  /\ RelayTypeOK
  /\ \A g \in Relays : Relayed(g)
  /\ Placed /\ Resulted
  /\ rec # <<>> => Sessioned

LEMMA RelaysAre == Relays = {Handler, Pump} /\ Handler # Pump
  BY DEF Relays, Handler, Pump

LEMMA CountTyped ==
  ASSUME NEW s \in Seq(Relays \X Nat), NEW g
  PROVE  /\ Count(s, g) \in Nat /\ IsFiniteSet({i \in DOMAIN s : s[i][1] = g})
<1>1. DOMAIN s = 1..Len(s) /\ Len(s) \in Nat
  BY LenProperties
<1>2. IsFiniteSet(1..Len(s))
  BY <1>1, FS_Interval
<1>3. {i \in DOMAIN s : s[i][1] = g} \in SUBSET (1..Len(s))
  BY <1>1
<1>4. IsFiniteSet({i \in DOMAIN s : s[i][1] = g})
  BY <1>2, <1>3, FS_Subset
<1> QED BY <1>4, FS_CardinalityType DEF Count

LEMMA CountGrows ==
  ASSUME NEW s \in Seq(Relays \X Nat), NEW g \in Relays, NEW n \in Nat, NEW h
  PROVE  Count(Append(s, <<g, n>>), h) = IF h = g THEN Count(s, h) + 1 ELSE Count(s, h)
<1> DEFINE t == Append(s, <<g, n>>)
           k == Len(s) + 1
           P == {i \in DOMAIN s : s[i][1] = h}
           Q == {i \in DOMAIN t : t[i][1] = h}
<1>1. /\ t \in Seq(Relays \X Nat) /\ Len(t) = k /\ Len(s) \in Nat
      /\ \A i \in 1..Len(s) : t[i] = s[i]
      /\ t[k] = <<g, n>>
  BY AppendFacts
<1>2. DOMAIN s = 1..Len(s) /\ DOMAIN t = 1..k
  BY <1>1, LenProperties
<1>3. IsFiniteSet(P) /\ k \notin P
  <2>1. IsFiniteSet(P)
    BY CountTyped
  <2> QED BY <1>1, <1>2, <2>1
<1> HIDE DEF t
<1>4. CASE h = g
  <2>1. Q = P \cup {k}
    BY <1>1, <1>2, <1>4
  <2> HIDE DEF P, Q, k
  <2>2. Cardinality(Q) = Cardinality(P) + 1
    BY <1>3, <2>1, FS_AddElement
  <2> QED BY <1>4, <2>2 DEF Count, P, Q, t
<1>5. CASE h # g
  <2>1. Q = P
    BY <1>1, <1>2, <1>5
  <2> QED BY <1>5, <2>1 DEF Count, t
<1> QED BY <1>4, <1>5

(* A step of a goroutine that neither reads nor records nor passes on      *)
(* stays on its side of these, or ends the relay.                          *)
Stays(p, q) ==
  \/ p = q
  \/ p \in Before \cup {"read"} /\ q \in Before \cup {"read"} \cup After
  \/ p \in {"seq", "hook", "add"} /\ q \in {"seq", "hook", "add"} \cup After
  \/ p \in {"push", "write"} /\ q \in {"push", "write"} \cup After
  \/ p \in After /\ q \in After

LEMMA RelayedStays ==
  ASSUME NEW h \in Relays, RelayTypeOK, Relayed(h),
         added' = added, read'[h] = read[h], wire'[h] = wire[h],
         sent'[h] \in Nat, sent[h] <= sent'[h], Stays(pc[h], pc'[h])
  PROVE  Relayed(h)'
<1> DEFINE n == Count(added, h)
           l == Len(wire[h])
<1>1. n \in Nat /\ l \in Nat /\ read[h] \in Nat /\ sent[h] \in Nat
  <2>1. /\ added \in Seq(Relays \X Nat) /\ wire[h] \in Seq(1..MaxFrames)
        /\ read[h] \in 0..MaxFrames /\ sent[h] \in 0..MaxFrames
    BY DEF RelayTypeOK
  <2>2. \A k \in 0..MaxFrames : k \in Nat
    BY WindowAssumption
  <2>3. Len(wire[h]) \in Nat /\ Count(added, h) \in Nat
    BY <2>1, CountTyped, LenProperties
  <2> QED BY <2>1, <2>2, <2>3
<1>2. Count(added, h)' = n /\ Len(wire'[h]) = l /\ read'[h] = read[h]
  OBVIOUS
<1> HIDE DEF n, l
<1>3. Counted(pc[h], n, read[h], l)
  BY DEF Relayed, n, l
<1>4. Counted(pc'[h], n, read[h], l)
  BY <1>1, <1>3 DEF Counted, Stays, Before, After
<1>5. read'[h] <= sent'[h]
  BY <1>1 DEF Relayed
<1> QED BY <1>2, <1>4, <1>5 DEF Relayed

LEMMA SessionSteps ==
  ASSUME NEW s \in Session
  PROVE  /\ [s EXCEPT !.open = FALSE] \in Session /\ [s EXCEPT !.open = FALSE] # <<>>
         /\ [s EXCEPT !.open = FALSE].next = s.next
         /\ [s EXCEPT !.open = FALSE].count = s.count
         /\ [s EXCEPT !.open = FALSE].messages = s.messages
         /\ ~[s EXCEPT !.open = FALSE].open
         /\ [s EXCEPT !.next = @ + 1] \in Session /\ [s EXCEPT !.next = @ + 1] # <<>>
         /\ [s EXCEPT !.next = @ + 1].next = s.next + 1
         /\ [s EXCEPT !.next = @ + 1].count = s.count
         /\ [s EXCEPT !.next = @ + 1].messages = s.messages
         /\ [s EXCEPT !.next = @ + 1].open = s.open
         /\ s # <<>> /\ s.next \in Nat /\ s.count \in Nat
         /\ s.messages \in Seq(Relays \X Nat) /\ s.open \in BOOLEAN
<1>1. \A t \in Session : t # <<>>
  <2> TAKE t \in Session
  <2>1. "open" \in DOMAIN t
    BY DEF Session
  <2>2. "open" \notin DOMAIN <<>>
    OBVIOUS
  <2> QED BY <2>1, <2>2
<1> DEFINE E == Seq(Relays \X Nat)
           t1 == [s EXCEPT !.open = FALSE]
           t2 == [s EXCEPT !.next = @ + 1]
<1>2. /\ s.open \in BOOLEAN /\ s.next \in Nat /\ s.count \in Nat /\ s.messages \in E
      /\ s = [open |-> s.open, next |-> s.next, count |-> s.count, messages |-> s.messages]
  BY DEF Session
<1>a. ASSUME NEW b \in BOOLEAN
      PROVE  [s EXCEPT !.open = b] =
               [open |-> b, next |-> s.next, count |-> s.count, messages |-> s.messages]
  BY DEF Session
<1>3. t1 = [open |-> FALSE, next |-> s.next, count |-> s.count, messages |-> s.messages]
  BY <1>a
<1>4. t2 = [open |-> s.open, next |-> s.next + 1, count |-> s.count, messages |-> s.messages]
  BY <1>2
<1> HIDE DEF E, t1, t2
<1>5. t1 \in Session /\ t2 \in Session
  BY <1>2, <1>3, <1>4 DEF Session, E
<1>6. t1.next = s.next /\ t1.count = s.count /\ t1.messages = s.messages /\ ~t1.open
  BY <1>3
<1>7. t2.next = s.next + 1 /\ t2.count = s.count /\ t2.messages = s.messages /\ t2.open = s.open
  BY <1>4
<1> QED BY <1>1, <1>2, <1>5, <1>6, <1>7 DEF t1, t2, E

LEMMA EmptyWindow ==
  /\ NewSession.count = Len(<<>>) /\ NewSession.messages = LastOf(<<>>, Window)
  /\ NewSession.next = 0 /\ NewSession.open /\ NewSession # <<>>
  /\ NewSession \in Session
<1>1. LastOf(<<>>, Window) = <<>>
  BY WindowAssumption DEF LastOf
<1> QED BY <1>1 DEF NewSession, Session

LEMMA SessionCounts ==
  ASSUME NEW s \in Session, NEW k \in Seq(Relays \X Nat)
  PROVE  LET t == [s EXCEPT !.count = @ + 1, !.messages = k] IN
         /\ t \in Session /\ t.open = s.open /\ t.next = s.next /\ t.count = s.count + 1
         /\ t.messages = k
<1> DEFINE E == Seq(Relays \X Nat)
           t == [s EXCEPT !.count = @ + 1, !.messages = k]
<1>1. Session = [open : BOOLEAN, next : Nat, count : Nat, messages : E] /\ k \in E
  BY DEF Session
<1> HIDE DEF E
<1>2. s.count \in Nat
  BY <1>1
<1>3. t.open = s.open /\ t.next = s.next /\ t.count = s.count + 1 /\ t.messages = k
  BY <1>1
<1>4. t \in Session
  <2> DEFINE c == s.count + 1
             u == [s EXCEPT !.count = c]
  <2>1. c \in Nat
    BY <1>2
  <2> HIDE DEF c
  <2>2. u \in Session
    BY <1>1, <2>1
  <2>3. t = [u EXCEPT !.messages = k]
    BY DEF c
  <2> HIDE DEF t, u
  <2> QED BY <1>1, <2>2, <2>3
<1> QED BY <1>3, <1>4

LEMMA SessionAdds ==
  ASSUME NEW s \in Session, NEW m \in Relays \X Nat, NEW a \in Seq(Relays \X Nat),
         s.count = Len(a), s.messages = LastOf(a, Window)
  PROVE  LET t == [s EXCEPT !.count = @ + 1, !.messages = Kept(Append(@, m))] IN
         /\ t \in Session /\ t # <<>> /\ t.open = s.open /\ t.next = s.next
         /\ t.count = Len(Append(a, m)) /\ t.messages = LastOf(Append(a, m), Window)
<1> DEFINE k == Kept(Append(s.messages, m))
           u == [s EXCEPT !.count = @ + 1, !.messages = k]
<1>1. Window \in Nat /\ Window > 0
  BY WindowAssumption
<1>2. k = Cut(Append(s.messages, m), Window)
  BY DEF Kept, Cut
<1>3. k \in Seq(Relays \X Nat) /\ k = LastOf(Append(a, m), Window)
  BY <1>1, <1>2, LastMoves
<1>4. Len(Append(a, m)) = Len(a) + 1
  BY AppendFacts
<1> HIDE DEF k
<1> HIDE DEF u
<1>5. u \in Session /\ u.open = s.open /\ u.next = s.next /\ u.count = s.count + 1 /\ u.messages = k
  BY <1>3, SessionCounts DEF u
<1>6. u # <<>>
  BY <1>5, SessionSteps
<1> QED BY <1>3, <1>4, <1>5, <1>6 DEF k, u

(* What is passed on has been recorded, and the counts meet again.         *)
LEMMA PassedOn ==
  ASSUME NEW h \in Relays, RelayTypeOK, Relayed(h), pc[h] = "write", pc'[h] = "read",
         added' = added, read' = read, sent' = sent, wire'[h] = Append(wire[h], read[h])
  PROVE  Relayed(h)'
<1> DEFINE l == Len(wire[h])
           w == Append(wire[h], read[h])
<1>1. wire[h] \in Seq(Nat) /\ l \in Nat /\ read[h] \in Nat
  <2>1. read[h] \in 0..MaxFrames /\ wire[h] \in Seq(1..MaxFrames)
    BY DEF RelayTypeOK
  <2>2. \A i \in 1..Len(wire[h]) : wire[h][i] \in Nat
    BY <2>1, ElementOfSeq, WindowAssumption
  <2> QED BY <2>1, <2>2, WindowAssumption, LenProperties
<1>2. Count(added, h) = read[h] /\ read[h] = l + 1 /\ \A i \in 1..l : wire[h][i] = i
  BY <1>1, LenProperties DEF Relayed, Counted
<1>3. /\ Len(w) = l + 1 /\ w \in Seq(Nat) /\ w[l + 1] = read[h]
      /\ \A i \in 1..l : w[i] = wire[h][i]
  BY <1>1, AppendFacts
<1>4. DOMAIN w = 1..(l + 1)
  BY <1>3, LenProperties
<1> HIDE DEF l, w
<1>5. \A i \in DOMAIN w : w[i] = i
  BY <1>1, <1>2, <1>3, <1>4
<1>6. Counted("read", Count(added, h), read[h], l + 1)
  BY <1>1, <1>2 DEF Counted, Before, After
<1>7. wire'[h] = w /\ Count(added, h)' = Count(added, h) /\ read'[h] <= sent'[h]
  BY DEF w, Relayed
<1> QED BY <1>3, <1>5, <1>6, <1>7 DEF Relayed

LEMMA TakeOverKeeps ==
  ASSUME StreamInv, TakeOver
  PROVE  StreamInv'
<1> USE RelaysAre DEF TakeOver, Ends, NewSession, Goto, At, peerVars, handlerVars
<1>0. /\ RelayTypeOK /\ Placed /\ Resulted /\ (rec # <<>> => Sessioned)
      /\ \A h \in Relays : Relayed(h)
  BY DEF StreamInv
<1>1. RelayTypeOK'
  <2>1. NewSession \in Session
    BY DEF Session
  <2>2. rec' \in Session \cup {<<>>} /\ stored' \in Session \cup {<<>>}
    BY <1>0, <2>1 DEF RelayTypeOK
  <2>3. pc' \in [Relays -> PCs] /\ result' \in Results
    BY <1>0 DEF RelayTypeOK, PCs, Results
  <2> QED BY <1>0, <2>2, <2>3 DEF RelayTypeOK
<1>2. \A h \in Relays : Relayed(h)'
  <2> TAKE h \in Relays
  <2>1. Stays(pc[h], pc'[h])
    <3>1. pc[Handler] = "start" /\ pc[Pump] = "off" /\ pc \in [Relays -> PCs]
      BY <1>0 DEF RelayTypeOK, Placed
    <3>2. \/ pc'[Handler] \in {"do", "close", "done"} /\ pc'[Pump] = "off"
          \/ pc'[Handler] = "do" /\ pc'[Pump] = "read"
      BY <1>0, <3>1
    <3> QED BY <3>1, <3>2 DEF Stays, Before, After
  <2>2. added' = added /\ read'[h] = read[h] /\ wire'[h] = wire[h]
    BY <1>0 DEF RelayTypeOK
  <2>3. sent'[h] \in Nat /\ sent[h] <= sent'[h]
    BY <1>0, WindowAssumption DEF RelayTypeOK
  <2> QED BY <1>0, <2>1, <2>2, <2>3, RelayedStays
<1>3. Placed'
  <2>1. pc[Handler] = "start" /\ pc[Pump] = "off" /\ rec = <<>> /\ pc \in [Relays -> PCs]
    BY <1>0 DEF RelayTypeOK, Placed
  <2>2. NewSession # <<>>
    OBVIOUS
  <2>3. CASE rec' = NewSession
    <3>1. \/ pc'[Handler] = "close" /\ pc'[Pump] = "off"
          \/ pc'[Handler] = "do" /\ pc'[Pump] = "read"
      BY <1>0, <2>1, <2>2, <2>3
    <3> QED BY <1>0, <2>2, <2>3, <3>1 DEF Placed, RelayTypeOK
  <2>4. CASE rec' = rec /\ Ends("blocked")
    <3>1. pc'[Handler] = "done" /\ pc'[Pump] = "off"
      BY <2>1, <2>4
    <3> QED BY <1>0, <2>1, <2>4, <3>1 DEF Placed, RelayTypeOK
  <2> QED BY <2>3, <2>4
<1>4. Resulted'
  BY <1>0 DEF RelayTypeOK, Resulted, Placed
<1>5. rec' # <<>> => Sessioned'
  <2>1. added = <<>> /\ added' = added /\ rec = <<>>
    BY <1>0 DEF Placed
  <2>2. CASE rec' = rec
    BY <2>1, <2>2
  <2>3. CASE rec' = NewSession
    <3>1. /\ pc'[Handler] \notin {"push_close", "done", "hook", "add"}
          /\ pc'[Pump] \notin {"hook", "add"}
      BY <1>0, <2>1, <2>3 DEF RelayTypeOK, Placed
    <3> QED BY <2>1, <2>3, <3>1, EmptyWindow DEF Sessioned, Numbered, Fresh, Taken
  <2> QED BY <2>2, <2>3
<1> QED BY <1>1, <1>2, <1>3, <1>4, <1>5 DEF StreamInv

LEMMA AnswerKeeps ==
  ASSUME StreamInv, Answer
  PROVE  StreamInv'
<1> USE RelaysAre DEF Answer, Ends, Goto, At, peerVars, handlerVars
<1>0. /\ RelayTypeOK /\ Placed /\ Resulted /\ (rec # <<>> => Sessioned)
      /\ \A h \in Relays : Relayed(h)
  BY DEF StreamInv
<1>1. RelayTypeOK'
  BY <1>0 DEF RelayTypeOK, PCs, Results, Placed, Session
<1>2. \A h \in Relays : Relayed(h)'
  <2> TAKE h \in Relays
  <2>1. Stays(pc[h], pc'[h])
    BY <1>0 DEF RelayTypeOK, Stays, Before, After
  <2>2. added' = added /\ read'[h] = read[h] /\ wire'[h] = wire[h]
    BY <1>0 DEF RelayTypeOK
  <2>3. sent'[h] \in Nat /\ sent[h] <= sent'[h]
    BY <1>0, WindowAssumption DEF RelayTypeOK
  <2> QED BY <1>0, <2>1, <2>2, <2>3, RelayedStays
<1>3. Placed'
  BY <1>0 DEF RelayTypeOK, Placed
<1>4. Resulted'
  BY <1>0 DEF RelayTypeOK, Resulted, Placed
<1>5. rec' # <<>> => Sessioned'
  BY <1>0 DEF RelayTypeOK, Sessioned, Numbered, Fresh, Taken, Placed
<1> QED BY <1>1, <1>2, <1>3, <1>4, <1>5 DEF StreamInv

LEMMA ResponseHooksKeeps ==
  ASSUME StreamInv, ResponseHooks
  PROVE  StreamInv'
<1> USE RelaysAre DEF ResponseHooks, Ends, Goto, At, peerVars, handlerVars
<1>0. /\ RelayTypeOK /\ Placed /\ Resulted /\ (rec # <<>> => Sessioned)
      /\ \A h \in Relays : Relayed(h)
  BY DEF StreamInv
<1>1. RelayTypeOK'
  BY <1>0 DEF RelayTypeOK, PCs, Results, Placed, Session
<1>2. \A h \in Relays : Relayed(h)'
  <2> TAKE h \in Relays
  <2>1. Stays(pc[h], pc'[h])
    BY <1>0 DEF RelayTypeOK, Stays, Before, After
  <2>2. added' = added /\ read'[h] = read[h] /\ wire'[h] = wire[h]
    BY <1>0 DEF RelayTypeOK
  <2>3. sent'[h] \in Nat /\ sent[h] <= sent'[h]
    BY <1>0, WindowAssumption DEF RelayTypeOK
  <2> QED BY <1>0, <2>1, <2>2, <2>3, RelayedStays
<1>3. Placed'
  <2>1. pc[Handler] \in {"start", "answer"} /\ pc \in [Relays -> PCs] /\ rec' = rec
    BY <1>0 DEF RelayTypeOK
  <2>2. pc'[Pump] = pc[Pump] /\ pc'[Handler] \in {"head", "close", "done"}
    BY <2>1
  <2>3. pc'[Handler] = "close" => rec # <<>>
    BY <2>1
  <2>4. pc'[Handler] = "done" => rec = <<>>
    BY <2>1
  <2>5. pc'[Handler] = "head" => (rec = <<>> <=> kind = "response")
    <3>1. CASE pc[Handler] = "answer"
      BY <1>0, <2>1, <3>1 DEF Placed, RelayTypeOK
    <3>2. CASE pc[Handler] = "start"
      BY <1>0, <2>1, <3>2 DEF Placed, RelayTypeOK
    <3> QED BY <2>1, <3>1, <3>2
  <2> QED BY <1>0, <2>1, <2>2, <2>3, <2>4, <2>5 DEF Placed, RelayTypeOK
<1>4. Resulted'
  BY <1>0 DEF RelayTypeOK, Resulted, Placed
<1>5. rec' # <<>> => Sessioned'
  BY <1>0 DEF RelayTypeOK, Sessioned, Numbered, Fresh, Taken, Placed
<1> QED BY <1>1, <1>2, <1>3, <1>4, <1>5 DEF StreamInv

LEMMA SendHeadKeeps ==
  ASSUME StreamInv, SendHead
  PROVE  StreamInv'
<1> USE RelaysAre DEF SendHead, Ends, Goto, At, peerVars, handlerVars
<1>0. /\ RelayTypeOK /\ Placed /\ Resulted /\ (rec # <<>> => Sessioned)
      /\ \A h \in Relays : Relayed(h)
  BY DEF StreamInv
<1>1. RelayTypeOK'
  BY <1>0 DEF RelayTypeOK, PCs, Results, Placed, Session
<1>2. \A h \in Relays : Relayed(h)'
  <2> TAKE h \in Relays
  <2>1. Stays(pc[h], pc'[h])
    BY <1>0 DEF RelayTypeOK, Stays, Before, After
  <2>2. added' = added /\ read'[h] = read[h] /\ wire'[h] = wire[h]
    BY <1>0 DEF RelayTypeOK
  <2>3. sent'[h] \in Nat /\ sent[h] <= sent'[h]
    BY <1>0, WindowAssumption DEF RelayTypeOK
  <2> QED BY <1>0, <2>1, <2>2, <2>3, RelayedStays
<1>3. Placed'
  BY <1>0 DEF RelayTypeOK, Placed
<1>4. Resulted'
  BY <1>0 DEF RelayTypeOK, Resulted, Placed
<1>5. rec' # <<>> => Sessioned'
  BY <1>0 DEF RelayTypeOK, Sessioned, Numbered, Fresh, Taken, Placed
<1> QED BY <1>1, <1>2, <1>3, <1>4, <1>5 DEF StreamInv

LEMMA OpenSessionKeeps ==
  ASSUME StreamInv, OpenSession
  PROVE  StreamInv'
<1> USE RelaysAre DEF OpenSession, NewSession, Goto, At, peerVars, handlerVars
<1>0. /\ RelayTypeOK /\ Placed /\ Resulted /\ (rec # <<>> => Sessioned)
      /\ \A h \in Relays : Relayed(h)
  BY DEF StreamInv
<1>1. RelayTypeOK'
  BY <1>0 DEF RelayTypeOK, PCs, Results, Placed, Session
<1>2. \A h \in Relays : Relayed(h)'
  <2> TAKE h \in Relays
  <2>1. Stays(pc[h], pc'[h])
    BY <1>0 DEF RelayTypeOK, Stays, Before, After
  <2>2. added' = added /\ read'[h] = read[h] /\ wire'[h] = wire[h]
    BY <1>0 DEF RelayTypeOK
  <2>3. sent'[h] \in Nat /\ sent[h] <= sent'[h]
    BY <1>0, WindowAssumption DEF RelayTypeOK
  <2> QED BY <1>0, <2>1, <2>2, <2>3, RelayedStays
<1>3. Placed'
  BY <1>0 DEF RelayTypeOK, Placed
<1>4. Resulted'
  BY <1>0 DEF RelayTypeOK, Resulted, Placed
<1>5. rec' # <<>> => Sessioned'
  <2>1. added = <<>> /\ added' = added /\ rec = <<>> /\ rec' = NewSession
    BY <1>0 DEF Placed
  <2>2. pc'[Handler] = "status" /\ pc'[Pump] = "off"
    BY <1>0 DEF Placed, RelayTypeOK
  <2> QED BY <2>1, <2>2, EmptyWindow DEF Sessioned, Numbered, Fresh, Taken
<1> QED BY <1>1, <1>2, <1>3, <1>4, <1>5 DEF StreamInv

LEMMA SetStatusKeeps ==
  ASSUME StreamInv, SetStatus
  PROVE  StreamInv'
<1> USE RelaysAre DEF SetStatus, Copies, Goto, At, peerVars, handlerVars
<1>0. /\ RelayTypeOK /\ Placed /\ Resulted /\ (rec # <<>> => Sessioned)
      /\ \A h \in Relays : Relayed(h)
  BY DEF StreamInv
<1>1. RelayTypeOK'
  BY <1>0 DEF RelayTypeOK, PCs, Results, Placed, Session
<1>2. \A h \in Relays : Relayed(h)'
  <2> TAKE h \in Relays
  <2>1. Stays(pc[h], pc'[h])
    BY <1>0 DEF RelayTypeOK, Stays, Before, After
  <2>2. added' = added /\ read'[h] = read[h] /\ wire'[h] = wire[h]
    BY <1>0 DEF RelayTypeOK
  <2>3. sent'[h] \in Nat /\ sent[h] <= sent'[h]
    BY <1>0, WindowAssumption DEF RelayTypeOK
  <2> QED BY <1>0, <2>1, <2>2, <2>3, RelayedStays
<1>3. Placed'
  BY <1>0 DEF RelayTypeOK, Placed
<1>4. Resulted'
  BY <1>0 DEF RelayTypeOK, Resulted, Placed
<1>5. rec' # <<>> => Sessioned'
  BY <1>0 DEF RelayTypeOK, Sessioned, Numbered, Fresh, Taken, Placed
<1> QED BY <1>1, <1>2, <1>3, <1>4, <1>5 DEF StreamInv

LEMMA CloseKeeps ==
  ASSUME StreamInv, Close
  PROVE  StreamInv'
<1> USE RelaysAre DEF Close, Copies, Goto, At, peerVars, handlerVars
<1>0. /\ RelayTypeOK /\ Placed /\ Resulted /\ (rec # <<>> => Sessioned)
      /\ \A h \in Relays : Relayed(h)
  BY DEF StreamInv
<1>1. RelayTypeOK'
  BY <1>0 DEF RelayTypeOK, PCs, Results, Placed, Session
<1>2. \A h \in Relays : Relayed(h)'
  <2> TAKE h \in Relays
  <2>1. Stays(pc[h], pc'[h])
    BY <1>0 DEF RelayTypeOK, Stays, Before, After
  <2>2. added' = added /\ read'[h] = read[h] /\ wire'[h] = wire[h]
    BY <1>0 DEF RelayTypeOK
  <2>3. sent'[h] \in Nat /\ sent[h] <= sent'[h]
    BY <1>0, WindowAssumption DEF RelayTypeOK
  <2> QED BY <1>0, <2>1, <2>2, <2>3, RelayedStays
<1>3. Placed'
  <2>1. rec \in Session /\ rec # <<>>
    BY <1>0 DEF RelayTypeOK, Placed
  <2> DEFINE t == [rec EXCEPT !.open = FALSE]
  <2>2. t \in Session /\ t # <<>>
    BY <2>1, SessionSteps
  <2> HIDE DEF t
  <2>3. /\ rec' = t /\ snap'[Handler] = t /\ pc'[Handler] = "push_close"
        /\ \A g \in Relays \ {Handler} : snap'[g] = snap[g] /\ pc'[g] = pc[g]
    BY <1>0 DEF t, RelayTypeOK
  <2> QED BY <1>0, <2>1, <2>2, <2>3 DEF Placed, RelayTypeOK
<1>4. Resulted'
  BY <1>0 DEF RelayTypeOK, Resulted, Placed
<1>5. rec' # <<>> => Sessioned'
  BY <1>0 DEF RelayTypeOK, Sessioned, Numbered, Fresh, Taken, Placed
<1> QED BY <1>1, <1>2, <1>3, <1>4, <1>5 DEF StreamInv

LEMMA WriteResponseKeeps ==
  ASSUME StreamInv, WriteResponse
  PROVE  StreamInv'
<1> USE RelaysAre DEF WriteResponse, PassesOn, Ends, Goto, At, peerVars, handlerVars
<1>0. /\ RelayTypeOK /\ Placed /\ Resulted /\ (rec # <<>> => Sessioned)
      /\ \A h \in Relays : Relayed(h)
  BY DEF StreamInv
<1>1. RelayTypeOK'
  <2>1. wire' \in [Relays -> Seq(1..MaxFrames)]
    <3>1. read[Handler] \in 1..MaxFrames
      <4>1. pc[Handler] = "write" /\ wire[Handler] \in Seq(1..MaxFrames) /\ read[Handler] \in 0..MaxFrames
        BY <1>0 DEF RelayTypeOK
      <4>2. read[Handler] = Len(wire[Handler]) + 1 /\ Len(wire[Handler]) \in Nat
        BY <1>0, <4>1, LenProperties DEF Relayed, Counted
      <4> QED BY <4>1, <4>2, WindowAssumption
    <3>2. wire[Handler] \in Seq(1..MaxFrames)
      BY <1>0 DEF RelayTypeOK
    <3> DEFINE w == Append(wire[Handler], read[Handler])
    <3>3. w \in Seq(1..MaxFrames)
      BY <3>1, <3>2, AppendFacts
    <3>4. wire' = wire \/ wire' = [wire EXCEPT ![Handler] = w]
      OBVIOUS
    <3> HIDE DEF w
    <3> QED BY <1>0, <3>3, <3>4 DEF RelayTypeOK
  <2>2. pc' \in [Relays -> PCs] /\ result' \in Results /\ requestEnd' \in {"no", "eof", "error"}
    BY <1>0 DEF RelayTypeOK, PCs, Results
  <2>3. kind' = "response" => pc'[Pump] = "off"
    BY <1>0 DEF RelayTypeOK
  <2> QED BY <1>0, <2>1, <2>2, <2>3 DEF RelayTypeOK
<1>2. \A h \in Relays : Relayed(h)'
  <2> TAKE h \in Relays
  <2>1. pc[Handler] = "write" /\ added' = added /\ read' = read /\ sent' = sent
    OBVIOUS
  <2>2. sent'[h] \in Nat /\ sent[h] <= sent'[h]
    BY <1>0, <2>1, WindowAssumption DEF RelayTypeOK
  <2>3. CASE wire' = wire
    <3>1. Stays(pc[h], pc'[h])
      BY <1>0, <2>1, <2>3 DEF RelayTypeOK, Stays, Before, After
    <3> QED BY <1>0, <2>1, <2>2, <2>3, <3>1, RelayedStays
  <2>4. CASE PassesOn(Handler)
    <3>1. CASE h # Handler
      <4>1. pc'[h] = pc[h] /\ wire'[h] = wire[h]
        BY <1>0, <2>4, <3>1 DEF RelayTypeOK
      <4>2. Stays(pc[h], pc'[h])
        BY <4>1 DEF Stays
      <4> QED BY <1>0, <2>1, <2>2, <4>1, <4>2, RelayedStays
    <3>2. CASE h = Handler
      <4>1. pc'[h] = "read" /\ wire'[h] = Append(wire[h], read[h])
        BY <1>0, <2>4, <3>2 DEF RelayTypeOK
      <4> QED BY <1>0, <2>1, <3>2, <4>1, PassedOn
    <3> QED BY <3>1, <3>2
  <2> QED BY <2>3, <2>4
<1>3. Placed'
  BY <1>0 DEF RelayTypeOK, Placed
<1>4. Resulted'
  BY <1>0 DEF RelayTypeOK, Resulted, Placed
<1>5. rec' # <<>> => Sessioned'
  BY <1>0 DEF RelayTypeOK, Sessioned, Numbered, Fresh, Taken, Placed
<1> QED BY <1>1, <1>2, <1>3, <1>4, <1>5 DEF StreamInv

LEMMA ResponseEndsKeeps ==
  ASSUME StreamInv, ResponseEnds
  PROVE  StreamInv'
<1> USE RelaysAre DEF ResponseEnds, Ends, Goto, At, peerVars, handlerVars
<1>0. /\ RelayTypeOK /\ Placed /\ Resulted /\ (rec # <<>> => Sessioned)
      /\ \A h \in Relays : Relayed(h)
  BY DEF StreamInv
<1>1. RelayTypeOK'
  BY <1>0 DEF RelayTypeOK, PCs, Results, Placed, Session
<1>2. \A h \in Relays : Relayed(h)'
  <2> TAKE h \in Relays
  <2>1. Stays(pc[h], pc'[h])
    BY <1>0 DEF RelayTypeOK, Stays, Before, After
  <2>2. added' = added /\ read'[h] = read[h] /\ wire'[h] = wire[h]
    BY <1>0 DEF RelayTypeOK
  <2>3. sent'[h] \in Nat /\ sent[h] <= sent'[h]
    BY <1>0, WindowAssumption DEF RelayTypeOK
  <2> QED BY <1>0, <2>1, <2>2, <2>3, RelayedStays
<1>3. Placed'
  BY <1>0 DEF RelayTypeOK, Placed
<1>4. Resulted'
  <2>1. pc[Handler] = "read" /\ result = "none" /\ pc \in [Relays -> PCs]
    BY <1>0 DEF RelayTypeOK, Resulted
  <2>2. pc'[Handler] \in {"close", "done"}
    BY <2>1
  <2>3. wire' = wire /\ sent' = sent /\ ended' = ended
    OBVIOUS
  <2>4. read[Handler] = Len(wire[Handler])
    BY <1>0, <2>1 DEF Relayed, Counted
  <2>5. result' = "whole" => (ended[Handler] = "eof" /\ read[Handler] = sent[Handler])
    OBVIOUS
  <2>6. result' # "none"
    OBVIOUS
  <2> QED BY <2>2, <2>3, <2>4, <2>5, <2>6 DEF Resulted
<1>5. rec' # <<>> => Sessioned'
  BY <1>0 DEF RelayTypeOK, Sessioned, Numbered, Fresh, Taken, Placed
<1> QED BY <1>1, <1>2, <1>3, <1>4, <1>5 DEF StreamInv

LEMMA NextSeqKeeps ==
  ASSUME NEW g \in Relays, StreamInv, NextSeq(g)
  PROVE  StreamInv'
<1> USE RelaysAre DEF NextSeq, Goto, At, peerVars, handlerVars
<1>0. /\ RelayTypeOK /\ Placed /\ Resulted /\ (rec # <<>> => Sessioned)
      /\ \A h \in Relays : Relayed(h)
  BY DEF StreamInv
<1>1. RelayTypeOK'
  <2>1. rec \in Session /\ rec # <<>>
    BY <1>0 DEF RelayTypeOK, Placed
  <2> DEFINE t == [rec EXCEPT !.next = @ + 1]
  <2>2. t \in Session /\ rec.next \in Nat
    BY <2>1, SessionSteps
  <2> HIDE DEF t
  <2>3. rec' = t /\ seq' \in [Relays -> Nat] /\ pc' \in [Relays -> PCs]
    BY <1>0, <2>2 DEF RelayTypeOK, PCs, t
  <2>4. kind' = "response" => pc'[Pump] = "off"
    BY <1>0 DEF RelayTypeOK
  <2> QED BY <1>0, <2>2, <2>3, <2>4 DEF RelayTypeOK
<1>2. \A h \in Relays : Relayed(h)'
  <2> TAKE h \in Relays
  <2>1. Stays(pc[h], pc'[h])
    BY <1>0 DEF RelayTypeOK, Stays, Before, After
  <2>2. added' = added /\ read'[h] = read[h] /\ wire'[h] = wire[h]
    BY <1>0 DEF RelayTypeOK
  <2>3. sent'[h] \in Nat /\ sent[h] <= sent'[h]
    BY <1>0, WindowAssumption DEF RelayTypeOK
  <2> QED BY <1>0, <2>1, <2>2, <2>3, RelayedStays
<1>3. Placed'
  BY <1>0 DEF RelayTypeOK, Placed
<1>4. Resulted'
  BY <1>0 DEF RelayTypeOK, Resulted, Placed
<1>5. rec' # <<>> => Sessioned'
  <2>1. rec \in Session /\ rec # <<>>
    BY <1>0 DEF RelayTypeOK, Placed
  <2> DEFINE t == [rec EXCEPT !.next = @ + 1]
  <2>2. /\ t \in Session /\ t.next = rec.next + 1 /\ t.count = rec.count /\ t.messages = rec.messages
        /\ t.open = rec.open /\ rec.next \in Nat
    BY <2>1, SessionSteps
  <2>3. /\ rec' = t /\ added' = added
        /\ seq' = [seq EXCEPT ![g] = rec.next] /\ pc' = [pc EXCEPT ![g] = "hook"]
    OBVIOUS
  <2> HIDE DEF t
  <2>4. \A h \in Relays : /\ pc'[h] = (IF h = g THEN "hook" ELSE pc[h])
                          /\ seq'[h] = (IF h = g THEN rec.next ELSE seq[h]) /\ seq[h] \in Nat
    BY <1>0, <2>3 DEF RelayTypeOK
  <2>5. Sessioned /\ Numbered
    BY <1>0, <2>1 DEF Sessioned
  <2>6. \A i \in DOMAIN added : added[i][2] \in Nat /\ added[i][2] < rec.next
    <3>1. added \in Seq(Relays \X Nat)
      BY <1>0 DEF RelayTypeOK
    <3>2. \A i \in DOMAIN added : added[i] \in Relays \X Nat
      BY <3>1, ElementOfSeq, LenProperties
    <3> QED BY <2>5, <3>2 DEF Numbered
  <2>7. \A i \in DOMAIN added : added[i][2] < t.next /\ added[i][2] # rec.next
    BY <2>2, <2>6
  <2>8. ASSUME NEW h \in Relays PROVE Fresh(h)'
    <3>1. CASE h = g
      <4>1. seq'[h] = rec.next /\ rec.next < t.next
        BY <2>2, <2>4, <3>1
      <4> QED BY <2>3, <2>6, <2>7, <4>1 DEF Fresh
    <3>2. CASE h # g
      <4>1. seq'[h] = seq[h] /\ pc'[h] = pc[h] /\ seq[h] \in Nat
        BY <2>4, <3>2
      <4>2. Fresh(h)
        BY <2>5 DEF Numbered
      <4>3. Taken(h) => seq[h] < t.next
        BY <2>2, <4>1, <4>2 DEF Fresh
      <4> QED BY <2>3, <4>1, <4>2, <4>3 DEF Fresh, Taken
    <3> QED BY <3>1, <3>2
  <2>9. (Taken(Handler)' /\ Taken(Pump)') => seq'[Handler] # seq'[Pump]
    <3>1. \A h \in Relays : Taken(h) => seq[h] # rec.next
      BY <2>2, <2>4, <2>5 DEF Numbered, Fresh
    <3> QED BY <2>4, <3>1 DEF Taken
  <2>10. Numbered'
    <3>1. \A i \in DOMAIN added' : added'[i][2] < rec'.next
      BY <2>3, <2>7
    <3>2. \A i, j \in DOMAIN added' : i < j =>
            /\ added'[i][2] # added'[j][2]
            /\ added'[i][1] = added'[j][1] => added'[i][2] < added'[j][2]
      BY <2>3, <2>5 DEF Numbered
    <3> HIDE DEF NextSeq
    <3> QED BY <2>8, <2>9, <3>1, <3>2 DEF Numbered
  <2> QED BY <2>2, <2>3, <2>4, <2>5, <2>10 DEF Sessioned
<1> QED BY <1>1, <1>2, <1>3, <1>4, <1>5 DEF StreamInv

LEMMA AddKeeps ==
  ASSUME NEW g \in Relays, StreamInv, Add(g)
  PROVE  StreamInv'
<1> USE RelaysAre DEF Add, Copies, Kept, Goto, At, peerVars, handlerVars
<1>0. /\ RelayTypeOK /\ Placed /\ Resulted /\ (rec # <<>> => Sessioned)
      /\ \A h \in Relays : Relayed(h)
  BY DEF StreamInv
<1>a. rec \in Session /\ rec # <<>>
  BY <1>0 DEF RelayTypeOK, Placed
<1> DEFINE t == [rec EXCEPT !.count = @ + 1, !.messages = Kept(Append(@, <<g, seq[g]>>))]
           a2 == Append(added, <<g, seq[g]>>)
<1>b. seq[g] \in Nat /\ <<g, seq[g]>> \in Relays \X Nat /\ added \in Seq(Relays \X Nat)
  BY <1>0 DEF RelayTypeOK
<1>c. Sessioned /\ Fresh(g) /\ pc[g] = "add"
  BY <1>0, <1>a DEF Sessioned, Numbered
<1>d. /\ t \in Session /\ t # <<>> /\ t.count = Len(a2) /\ t.messages = LastOf(a2, Window)
      /\ t.open = rec.open /\ t.next = rec.next
  <2>1. rec.count = Len(added) /\ rec.messages = LastOf(added, Window)
    BY <1>c DEF Sessioned
  <2>2. ASSUME NEW m \in Relays \X Nat
        PROVE  LET u == [rec EXCEPT !.count = @ + 1, !.messages = Kept(Append(@, m))] IN
               /\ u \in Session /\ u # <<>> /\ u.open = rec.open /\ u.next = rec.next
               /\ u.count = Len(Append(added, m)) /\ u.messages = LastOf(Append(added, m), Window)
    <3> HIDE DEF Add, Copies, Kept, Goto, At, peerVars, handlerVars
    <3>1. ASSUME NEW s \in Session, NEW a \in Seq(Relays \X Nat),
                 s.count = Len(a), s.messages = LastOf(a, Window)
          PROVE  LET u == [s EXCEPT !.count = @ + 1, !.messages = Kept(Append(@, m))] IN
                 /\ u \in Session /\ u # <<>> /\ u.open = s.open /\ u.next = s.next
                 /\ u.count = Len(Append(a, m)) /\ u.messages = LastOf(Append(a, m), Window)
      BY <3>1, SessionAdds
    <3>2. rec \in Session /\ added \in Seq(Relays \X Nat)
      BY <1>a, <1>b
    <3> QED BY <2>1, <3>1, <3>2
  <2> HIDE DEF Add
  <2> QED BY <1>b, <2>2
<1>e. rec' = t /\ added' = a2 /\ snap' = [snap EXCEPT ![g] = t] /\ pc' = [pc EXCEPT ![g] = "push"]
  OBVIOUS
<1>f. a2 \in Seq(Relays \X Nat) /\ Len(a2) = Len(added) + 1 /\ Len(added) \in Nat
  BY <1>b, AppendFacts
<1> HIDE DEF t, a2
<1>1. RelayTypeOK'
  <2>7. snap' \in [Relays -> Session \cup {<<>>}] /\ pc' \in [Relays -> PCs]
    <3>1. snap \in [Relays -> Session \cup {<<>>}] /\ pc \in [Relays -> PCs] /\ "push" \in PCs
      BY <1>0 DEF RelayTypeOK, PCs
    <3>2. snap' = [snap EXCEPT ![g] = t]
      BY <1>e
    <3>3. pc' = [pc EXCEPT ![g] = "push"]
      BY <1>e
    <3> HIDE DEF Add, Copies, Goto, At, Kept
    <3>4. snap' \in [Relays -> Session \cup {<<>>}]
      BY <1>d, <3>1, <3>2
    <3>5. pc' \in [Relays -> PCs]
      BY <3>1, <3>3
    <3> QED BY <3>4, <3>5
  <2>8. kind' = "response" => pc'[Pump] = "off"
    BY <1>0, <1>e DEF RelayTypeOK
  <2> QED BY <1>0, <1>d, <1>e, <1>f, <2>7, <2>8 DEF RelayTypeOK
<1>2. \A h \in Relays : Relayed(h)'
  <2> TAKE h \in Relays
  <2>1. read' = read /\ wire' = wire /\ sent' = sent /\ added' = Append(added, <<g, seq[g]>>)
    OBVIOUS
  <2>2. seq[g] \in Nat /\ added \in Seq(Relays \X Nat)
    BY <1>0 DEF RelayTypeOK
  <2>3. Count(added, h)' = IF h = g THEN Count(added, h) + 1 ELSE Count(added, h)
    <3>1. Count(Append(added, <<g, seq[g]>>), h) = IF h = g THEN Count(added, h) + 1 ELSE Count(added, h)
      BY <2>2, CountGrows
    <3> QED BY <2>1, <3>1
  <2>4. read[h] \in Nat /\ Count(added, h) \in Nat /\ Len(wire[h]) \in Nat
    <3>1. read[h] \in 0..MaxFrames /\ wire[h] \in Seq(1..MaxFrames)
      BY <1>0 DEF RelayTypeOK
    <3>2. Count(added, h) \in Nat
      BY <2>2, CountTyped
    <3> QED BY <3>1, <3>2, WindowAssumption, LenProperties
  <2>5. Counted(pc[h], Count(added, h), read[h], Len(wire[h]))
    BY <1>0 DEF Relayed
  <2>6. pc'[h] = IF h = g THEN "push" ELSE pc[h]
    BY <1>0 DEF RelayTypeOK
  <2>7. Counted(pc'[h], Count(added, h)', read[h], Len(wire[h]))
    <3>1. CASE h # g
      BY <2>3, <2>5, <2>6, <3>1
    <3>2. CASE h = g
      <4>1. pc[h] = "add"
        BY <3>2
      <4> QED BY <2>3, <2>4, <2>5, <2>6, <3>2, <4>1 DEF Counted, Before, After
    <3> QED BY <3>1, <3>2
  <2> QED BY <1>0, <2>1, <2>7 DEF Relayed
<1>3. Placed'
  <2>7. \A h \in Relays : /\ pc'[h] = (IF h = g THEN "push" ELSE pc[h])
                          /\ snap'[h] = (IF h = g THEN t ELSE snap[h])
    BY <1>0, <1>e DEF RelayTypeOK
  <2>8. kind' = kind
    OBVIOUS
  <2> QED BY <1>0, <1>a, <1>c, <1>d, <1>e, <2>7, <2>8 DEF Placed
<1>4. Resulted'
  BY <1>0 DEF RelayTypeOK, Resulted, Placed
<1>5. rec' # <<>> => Sessioned'
  <2>7. \A h \in Relays : pc'[h] = (IF h = g THEN "push" ELSE pc[h])
    BY <1>0, <1>e DEF RelayTypeOK
  <2>8. Numbered'
    <3> DEFINE k == Len(added) + 1
    <3>1. /\ DOMAIN added = 1..Len(added) /\ DOMAIN a2 = 1..k
          /\ \A i \in 1..Len(added) : a2[i] = added[i] /\ added[i][2] \in Nat
          /\ a2[k] = <<g, seq[g]>>
      <4>1. \A i \in 1..Len(added) : a2[i] = added[i] /\ added[i] \in Relays \X Nat
        BY <1>b, AppendFacts DEF a2
      <4>2. a2[k] = <<g, seq[g]>>
        BY <1>b, AppendFacts DEF a2
      <4> QED BY <1>b, <1>f, <4>1, <4>2, LenProperties
    <3>2. /\ \A i \in 1..Len(added) : added[i][2] < rec.next
          /\ \A i, j \in 1..Len(added) : i < j =>
               /\ added[i][2] # added[j][2]
               /\ added[i][1] = added[j][1] => added[i][2] < added[j][2]
          /\ seq[g] < rec.next
          /\ \A i \in 1..Len(added) :
               /\ added[i][2] # seq[g]
               /\ added[i][1] = g => added[i][2] < seq[g]
      BY <1>c, <3>1 DEF Sessioned, Numbered, Fresh, Taken
    <3>3. \A i \in 1..k : a2[i][2] < t.next
      BY <1>d, <1>f, <3>1, <3>2
    <3>4. \A i, j \in 1..k : i < j =>
            /\ a2[i][2] # a2[j][2]
            /\ a2[i][1] = a2[j][1] => a2[i][2] < a2[j][2]
      <4> TAKE i, j \in 1..k
      <4> HAVE i < j
      <4>1. i \in 1..Len(added) /\ (j \in 1..Len(added) \/ j = k)
        BY <1>f
      <4>2. CASE j = k
        BY <3>1, <3>2, <4>1, <4>2
      <4>3. CASE j \in 1..Len(added)
        BY <3>1, <3>2, <4>1, <4>3
      <4> QED BY <4>1, <4>2, <4>3
    <3>5. ASSUME NEW h \in Relays PROVE Fresh(h)'
      <4>1. CASE h = g
        BY <2>7, <4>1 DEF Fresh, Taken
      <4>2. CASE h # g /\ Taken(h)
        <5>1. seq[h] # seq[g] /\ Fresh(h) /\ seq' = seq /\ rec'.next = rec.next
          BY <1>c, <1>d, <1>e, <4>2 DEF Sessioned, Numbered, Taken
        <5>2. seq[h] < rec.next /\ \A i \in 1..Len(added) :
                 added[i][2] # seq[h] /\ (added[i][1] = h => added[i][2] < seq[h])
          BY <3>1, <4>2, <5>1 DEF Fresh
        <5>3. \A i \in 1..k : a2[i][2] # seq[h] /\ (a2[i][1] = h => a2[i][2] < seq[h])
          BY <1>f, <3>1, <4>2, <5>1, <5>2
        <5> QED BY <1>e, <3>1, <5>1, <5>2, <5>3 DEF Fresh
      <4>3. CASE h # g /\ ~Taken(h)
        BY <2>7, <4>3 DEF Fresh, Taken
      <4> QED BY <4>1, <4>2, <4>3
    <3>6. ~(Taken(Handler)' /\ Taken(Pump)')
      <4>1. pc'[g] = "push"
        BY <2>7
      <4>2. g = Handler \/ g = Pump
        BY RelaysAre
      <4> QED BY <4>1, <4>2 DEF Taken
    <3>7. \A i \in DOMAIN added' : added'[i][2] < rec'.next
      BY <1>e, <3>1, <3>3
    <3>8. \A i, j \in DOMAIN added' : i < j =>
            /\ added'[i][2] # added'[j][2]
            /\ added'[i][1] = added'[j][1] => added'[i][2] < added'[j][2]
      BY <1>e, <3>1, <3>4
    <3> HIDE DEF Add, Copies, Goto, At, Kept
    <3> QED BY <3>5, <3>6, <3>7, <3>8 DEF Numbered
  <2>9. pc'[Handler] \in {"push_close", "done"} => ~rec'.open
    BY <1>c, <1>d, <1>e, <2>7 DEF Sessioned
  <2> QED BY <1>d, <1>e, <2>8, <2>9 DEF Sessioned
<1> QED BY <1>1, <1>2, <1>3, <1>4, <1>5 DEF StreamInv

LEMMA PushSnapshotKeeps ==
  ASSUME NEW g \in Relays, StreamInv, PushSnapshot(g)
  PROVE  StreamInv'
<1> USE RelaysAre DEF PushSnapshot, AfterPush, Goto, At, peerVars, handlerVars
<1>0. /\ RelayTypeOK /\ Placed /\ Resulted /\ (rec # <<>> => Sessioned)
      /\ \A h \in Relays : Relayed(h)
  BY DEF StreamInv
<1>1. RelayTypeOK'
  <2>1. pc' \in [Relays -> PCs] /\ (kind' = "response" => pc'[Pump] = "off")
    BY <1>0 DEF RelayTypeOK, PCs
  <2>2. (stored' = <<>> \/ stored' \in Session) /\ snap' \in [Relays -> Session \cup {<<>>}]
    BY <1>0 DEF RelayTypeOK
  <2>3. UNCHANGED <<kind, seq, result, rec, sent, ended, read, wire, head, pipe, requestEnd, added>>
    OBVIOUS
  <2> QED BY <1>0, <2>1, <2>2, <2>3 DEF RelayTypeOK
<1>2. \A h \in Relays : Relayed(h)'
  <2> TAKE h \in Relays
  <2>1. Stays(pc[h], pc'[h])
    BY <1>0 DEF RelayTypeOK, Stays, Before, After
  <2>2. added' = added /\ read'[h] = read[h] /\ wire'[h] = wire[h]
    BY <1>0 DEF RelayTypeOK
  <2>3. sent'[h] \in Nat /\ sent[h] <= sent'[h]
    BY <1>0, WindowAssumption DEF RelayTypeOK
  <2> QED BY <1>0, <2>1, <2>2, <2>3, RelayedStays
<1>3. Placed'
  BY <1>0 DEF RelayTypeOK, Placed
<1>4. Resulted'
  BY <1>0 DEF RelayTypeOK, Resulted, Placed
<1>5. rec' # <<>> => Sessioned'
  <2>1. rec' = rec /\ added' = added /\ seq' = seq
    OBVIOUS
  <2>2. \A h \in Relays : Taken(h)' => Taken(h)
    BY <1>0 DEF RelayTypeOK, Taken
  <2>3. pc'[Handler] \in {"push_close", "done"} => pc[Handler] \in {"push_close", "done"}
    BY <1>0 DEF RelayTypeOK
  <2>4. ASSUME rec # <<>>, NEW h \in Relays PROVE Fresh(h)'
    BY <1>0, <2>1, <2>2, <2>4 DEF Sessioned, Numbered, Fresh
  <2> HIDE DEF PushSnapshot
  <2> QED BY <1>0, <2>1, <2>2, <2>3, <2>4 DEF Sessioned, Numbered
<1> QED BY <1>1, <1>2, <1>3, <1>4, <1>5 DEF StreamInv

LEMMA ReadMessageKeeps ==
  ASSUME NEW g \in Relays, StreamInv, ReadMessage(g)
  PROVE  StreamInv'
<1> USE RelaysAre DEF ReadMessage, Goto, At, peerVars, handlerVars
<1>0. /\ RelayTypeOK /\ Placed /\ Resulted /\ (rec # <<>> => Sessioned)
      /\ \A h \in Relays : Relayed(h)
  BY DEF StreamInv
<1>1. RelayTypeOK'
  <2>1. read[g] \in 0..MaxFrames /\ sent[g] \in 0..MaxFrames /\ MaxFrames \in Nat
    BY <1>0, WindowAssumption DEF RelayTypeOK
  <2>2. read[g] + 1 \in 0..MaxFrames
    BY <2>1
  <2>3. read' \in [Relays -> 0..MaxFrames] /\ pc' \in [Relays -> PCs]
    BY <1>0, <2>2 DEF RelayTypeOK, PCs
  <2>4. kind' = "response" => pc'[Pump] = "off"
    BY <1>0 DEF RelayTypeOK
  <2> QED BY <1>0, <2>3, <2>4 DEF RelayTypeOK
<1>2. \A h \in Relays : Relayed(h)'
  <2> TAKE h \in Relays
  <2>1. added' = added /\ wire' = wire /\ sent' = sent
    OBVIOUS
  <2>2. sent'[h] \in Nat /\ sent[h] <= sent'[h]
    BY <1>0, <2>1, WindowAssumption DEF RelayTypeOK
  <2>3. CASE h # g
    <3>1. pc'[h] = pc[h] /\ read'[h] = read[h]
      BY <1>0, <2>3 DEF RelayTypeOK
    <3>2. Stays(pc[h], pc'[h])
      BY <3>1 DEF Stays
    <3> QED BY <1>0, <2>1, <2>2, <3>1, <3>2, RelayedStays
  <2>4. CASE h = g
    <3>1. pc[h] = "read" /\ pc'[h] = "seq" /\ read'[h] = read[h] + 1 /\ read[h] < sent[h]
      BY <1>0, <2>4 DEF RelayTypeOK
    <3>2. read[h] \in Nat /\ sent[h] \in Nat
      BY <1>0, WindowAssumption DEF RelayTypeOK
    <3>3. Count(added, h)' = Count(added, h) /\ Count(added, h) = read[h] /\ Len(wire[h]) = read[h]
      BY <1>0, <2>1, <3>1 DEF Relayed, Counted
    <3>4. read'[h] <= sent'[h]
      BY <2>1, <3>1, <3>2
    <3>5. Counted("seq", Count(added, h), read[h] + 1, Len(wire[h]))
      BY <3>2, <3>3 DEF Counted, Before, After
    <3> QED BY <1>0, <2>1, <3>1, <3>3, <3>4, <3>5 DEF Relayed
  <2> QED BY <2>3, <2>4
<1>3. Placed'
  BY <1>0 DEF RelayTypeOK, Placed
<1>4. Resulted'
  BY <1>0 DEF RelayTypeOK, Resulted, Placed
<1>5. ASSUME rec' # <<>> PROVE Sessioned'
  <2>1. rec' = rec /\ added' = added /\ seq' = seq /\ Sessioned
    BY <1>0, <1>5
  <2>2. \A h \in Relays : pc'[h] = pc[h] \/ (pc[h] = "read" /\ pc'[h] = "seq")
    BY <1>0 DEF RelayTypeOK
  <2>3. \A h \in Relays : Taken(h)' <=> Taken(h)
    BY <2>2 DEF Taken
  <2>4. \A h \in Relays : Fresh(h) => Fresh(h)'
    BY <2>1, <2>3 DEF Fresh
  <2>5. Numbered'
    BY <2>1, <2>3, <2>4 DEF Sessioned, Numbered
  <2>6. pc'[Handler] \in {"push_close", "done"} => pc[Handler] \in {"push_close", "done"}
    BY <2>2
  <2> QED BY <2>1, <2>5, <2>6 DEF Sessioned
<1> QED BY <1>1, <1>2, <1>3, <1>4, <1>5 DEF StreamInv

LEMMA HookKeeps ==
  ASSUME NEW g \in Relays, StreamInv, Hook(g)
  PROVE  StreamInv'
<1> USE RelaysAre DEF Hook, Ends, Goto, At, peerVars, handlerVars
<1>0. /\ RelayTypeOK /\ Placed /\ Resulted /\ (rec # <<>> => Sessioned)
      /\ \A h \in Relays : Relayed(h)
  BY DEF StreamInv
<1>1. RelayTypeOK'
  <2>1. pc' \in [Relays -> PCs] /\ result' \in Results /\ requestEnd' \in {"no", "eof", "error"}
    BY <1>0 DEF RelayTypeOK, PCs, Results
  <2>2. kind' = "response" => pc'[Pump] = "off"
    BY <1>0 DEF RelayTypeOK
  <2> QED BY <1>0, <2>1, <2>2 DEF RelayTypeOK
<1>2. \A h \in Relays : Relayed(h)'
  <2> TAKE h \in Relays
  <2>1. Stays(pc[h], pc'[h])
    BY <1>0 DEF RelayTypeOK, Stays, Before, After
  <2>2. added' = added /\ read'[h] = read[h] /\ wire'[h] = wire[h]
    BY <1>0 DEF RelayTypeOK
  <2>3. sent'[h] \in Nat /\ sent[h] <= sent'[h]
    BY <1>0, WindowAssumption DEF RelayTypeOK
  <2> QED BY <1>0, <2>1, <2>2, <2>3, RelayedStays
<1>3. Placed'
  BY <1>0 DEF RelayTypeOK, Placed
<1>4. Resulted'
  BY <1>0 DEF RelayTypeOK, Resulted, Placed
<1>5. rec' # <<>> => Sessioned'
  BY <1>0 DEF RelayTypeOK, Sessioned, Numbered, Fresh, Taken, Placed
<1> QED BY <1>1, <1>2, <1>3, <1>4, <1>5 DEF StreamInv

LEMMA WriteRequestKeeps ==
  ASSUME StreamInv, WriteRequest
  PROVE  StreamInv'
<1> USE RelaysAre DEF WriteRequest, PassesOn, Goto, At, peerVars, handlerVars
<1>0. /\ RelayTypeOK /\ Placed /\ Resulted /\ (rec # <<>> => Sessioned)
      /\ \A h \in Relays : Relayed(h)
  BY DEF StreamInv
<1>1. RelayTypeOK'
  <2>1. wire' \in [Relays -> Seq(1..MaxFrames)]
    <3>1. read[Pump] \in 1..MaxFrames
      <4>1. pc[Pump] = "write" /\ wire[Pump] \in Seq(1..MaxFrames) /\ read[Pump] \in 0..MaxFrames
        BY <1>0 DEF RelayTypeOK
      <4>2. read[Pump] = Len(wire[Pump]) + 1 /\ Len(wire[Pump]) \in Nat
        BY <1>0, <4>1, LenProperties DEF Relayed, Counted
      <4> QED BY <4>1, <4>2, WindowAssumption
    <3>2. wire[Pump] \in Seq(1..MaxFrames)
      BY <1>0 DEF RelayTypeOK
    <3> DEFINE w == Append(wire[Pump], read[Pump])
    <3>3. w \in Seq(1..MaxFrames)
      BY <3>1, <3>2, AppendFacts
    <3>4. wire' = wire \/ wire' = [wire EXCEPT ![Pump] = w]
      OBVIOUS
    <3> HIDE DEF w
    <3> QED BY <1>0, <3>3, <3>4 DEF RelayTypeOK
  <2>2. pc' \in [Relays -> PCs] /\ result' \in Results /\ requestEnd' \in {"no", "eof", "error"}
    BY <1>0 DEF RelayTypeOK, PCs, Results
  <2>3. kind' = "response" => pc'[Pump] = "off"
    BY <1>0 DEF RelayTypeOK
  <2> QED BY <1>0, <2>1, <2>2, <2>3 DEF RelayTypeOK
<1>2. \A h \in Relays : Relayed(h)'
  <2> TAKE h \in Relays
  <2>1. pc[Pump] = "write" /\ added' = added /\ read' = read /\ sent' = sent
    OBVIOUS
  <2>2. sent'[h] \in Nat /\ sent[h] <= sent'[h]
    BY <1>0, <2>1, WindowAssumption DEF RelayTypeOK
  <2>3. CASE wire' = wire
    <3>1. Stays(pc[h], pc'[h])
      BY <1>0, <2>1, <2>3 DEF RelayTypeOK, Stays, Before, After
    <3> QED BY <1>0, <2>1, <2>2, <2>3, <3>1, RelayedStays
  <2>4. CASE PassesOn(Pump)
    <3>1. CASE h # Pump
      <4>1. pc'[h] = pc[h] /\ wire'[h] = wire[h]
        BY <1>0, <2>4, <3>1 DEF RelayTypeOK
      <4>2. Stays(pc[h], pc'[h])
        BY <4>1 DEF Stays
      <4> QED BY <1>0, <2>1, <2>2, <4>1, <4>2, RelayedStays
    <3>2. CASE h = Pump
      <4>1. pc'[h] = "read" /\ wire'[h] = Append(wire[h], read[h])
        BY <1>0, <2>4, <3>2 DEF RelayTypeOK
      <4> QED BY <1>0, <2>1, <3>2, <4>1, PassedOn
    <3> QED BY <3>1, <3>2
  <2> QED BY <2>3, <2>4
<1>3. Placed'
  BY <1>0 DEF RelayTypeOK, Placed
<1>4. Resulted'
  BY <1>0 DEF RelayTypeOK, Resulted, Placed
<1>5. rec' # <<>> => Sessioned'
  BY <1>0 DEF RelayTypeOK, Sessioned, Numbered, Fresh, Taken, Placed
<1> QED BY <1>1, <1>2, <1>3, <1>4, <1>5 DEF StreamInv

LEMMA RequestEndsKeeps ==
  ASSUME StreamInv, RequestEnds
  PROVE  StreamInv'
<1> USE RelaysAre DEF RequestEnds, Goto, At, peerVars, handlerVars
<1>0. /\ RelayTypeOK /\ Placed /\ Resulted /\ (rec # <<>> => Sessioned)
      /\ \A h \in Relays : Relayed(h)
  BY DEF StreamInv
<1>1. RelayTypeOK'
  BY <1>0 DEF RelayTypeOK, PCs, Results, Placed, Session
<1>2. \A h \in Relays : Relayed(h)'
  <2> TAKE h \in Relays
  <2>1. Stays(pc[h], pc'[h])
    BY <1>0 DEF RelayTypeOK, Stays, Before, After
  <2>2. added' = added /\ read'[h] = read[h] /\ wire'[h] = wire[h]
    BY <1>0 DEF RelayTypeOK
  <2>3. sent'[h] \in Nat /\ sent[h] <= sent'[h]
    BY <1>0, WindowAssumption DEF RelayTypeOK
  <2> QED BY <1>0, <2>1, <2>2, <2>3, RelayedStays
<1>3. Placed'
  BY <1>0 DEF RelayTypeOK, Placed
<1>4. Resulted'
  BY <1>0 DEF RelayTypeOK, Resulted, Placed
<1>5. rec' # <<>> => Sessioned'
  BY <1>0 DEF RelayTypeOK, Sessioned, Numbered, Fresh, Taken, Placed
<1> QED BY <1>1, <1>2, <1>3, <1>4, <1>5 DEF StreamInv

LEMMA ClosePipeKeeps ==
  ASSUME StreamInv, ClosePipe
  PROVE  StreamInv'
<1> USE RelaysAre DEF ClosePipe, Goto, At, peerVars, handlerVars
<1>0. /\ RelayTypeOK /\ Placed /\ Resulted /\ (rec # <<>> => Sessioned)
      /\ \A h \in Relays : Relayed(h)
  BY DEF StreamInv
<1>1. RelayTypeOK'
  BY <1>0 DEF RelayTypeOK, PCs, Results, Placed, Session
<1>2. \A h \in Relays : Relayed(h)'
  <2> TAKE h \in Relays
  <2>1. Stays(pc[h], pc'[h])
    BY <1>0 DEF RelayTypeOK, Stays, Before, After
  <2>2. added' = added /\ read'[h] = read[h] /\ wire'[h] = wire[h]
    BY <1>0 DEF RelayTypeOK
  <2>3. sent'[h] \in Nat /\ sent[h] <= sent'[h]
    BY <1>0, WindowAssumption DEF RelayTypeOK
  <2> QED BY <1>0, <2>1, <2>2, <2>3, RelayedStays
<1>3. Placed'
  BY <1>0 DEF RelayTypeOK, Placed
<1>4. Resulted'
  BY <1>0 DEF RelayTypeOK, Resulted, Placed
<1>5. rec' # <<>> => Sessioned'
  BY <1>0 DEF RelayTypeOK, Sessioned, Numbered, Fresh, Taken, Placed
<1> QED BY <1>1, <1>2, <1>3, <1>4, <1>5 DEF StreamInv

LEMMA SendMessageKeeps ==
  ASSUME NEW g \in Relays, StreamInv, SendMessage(g)
  PROVE  StreamInv'
<1> USE RelaysAre DEF SendMessage, Goto, At, peerVars, handlerVars
<1>0. /\ RelayTypeOK /\ Placed /\ Resulted /\ (rec # <<>> => Sessioned)
      /\ \A h \in Relays : Relayed(h)
  BY DEF StreamInv
<1>1. RelayTypeOK'
  <2>1. sent[g] \in 0..MaxFrames /\ MaxFrames \in Nat
    BY <1>0, WindowAssumption DEF RelayTypeOK
  <2>2. sent[g] + 1 \in 0..MaxFrames
    BY <2>1
  <2>3. sent' \in [Relays -> 0..MaxFrames]
    BY <1>0, <2>2 DEF RelayTypeOK
  <2> QED BY <1>0, <2>3 DEF RelayTypeOK
<1>2. \A h \in Relays : Relayed(h)'
  <2> TAKE h \in Relays
  <2>1. Stays(pc[h], pc'[h])
    BY <1>0 DEF RelayTypeOK, Stays, Before, After
  <2>2. added' = added /\ read'[h] = read[h] /\ wire'[h] = wire[h]
    BY <1>0 DEF RelayTypeOK
  <2>3. sent'[h] \in Nat /\ sent[h] <= sent'[h]
    BY <1>0, WindowAssumption DEF RelayTypeOK
  <2> QED BY <1>0, <2>1, <2>2, <2>3, RelayedStays
<1>3. Placed'
  BY <1>0 DEF RelayTypeOK, Placed
<1>4. Resulted'
  BY <1>0 DEF RelayTypeOK, Resulted, Placed
<1>5. rec' # <<>> => Sessioned'
  BY <1>0 DEF RelayTypeOK, Sessioned, Numbered, Fresh, Taken, Placed
<1> QED BY <1>1, <1>2, <1>3, <1>4, <1>5 DEF StreamInv

LEMMA SendEndKeeps ==
  ASSUME NEW g \in Relays, NEW how \in {"eof", "error"}, StreamInv, SendEnd(g, how)
  PROVE  StreamInv'
<1> USE RelaysAre DEF SendEnd, Goto, At, peerVars, handlerVars
<1>0. /\ RelayTypeOK /\ Placed /\ Resulted /\ (rec # <<>> => Sessioned)
      /\ \A h \in Relays : Relayed(h)
  BY DEF StreamInv
<1>1. RelayTypeOK'
  BY <1>0 DEF RelayTypeOK, PCs, Results, Placed, Session
<1>2. \A h \in Relays : Relayed(h)'
  <2> TAKE h \in Relays
  <2>1. Stays(pc[h], pc'[h])
    BY <1>0 DEF RelayTypeOK, Stays, Before, After
  <2>2. added' = added /\ read'[h] = read[h] /\ wire'[h] = wire[h]
    BY <1>0 DEF RelayTypeOK
  <2>3. sent'[h] \in Nat /\ sent[h] <= sent'[h]
    BY <1>0, WindowAssumption DEF RelayTypeOK
  <2> QED BY <1>0, <2>1, <2>2, <2>3, RelayedStays
<1>3. Placed'
  BY <1>0 DEF RelayTypeOK, Placed
<1>4. Resulted'
  BY <1>0 DEF RelayTypeOK, Resulted, Placed
<1>5. rec' # <<>> => Sessioned'
  BY <1>0 DEF RelayTypeOK, Sessioned, Numbered, Fresh, Taken, Placed
<1> QED BY <1>1, <1>2, <1>3, <1>4, <1>5 DEF StreamInv

LEMMA UpstreamHeadKeeps ==
  ASSUME StreamInv, UpstreamHead
  PROVE  StreamInv'
<1> USE RelaysAre DEF UpstreamHead, Goto, At, peerVars, handlerVars
<1>0. /\ RelayTypeOK /\ Placed /\ Resulted /\ (rec # <<>> => Sessioned)
      /\ \A h \in Relays : Relayed(h)
  BY DEF StreamInv
<1>1. RelayTypeOK'
  BY <1>0 DEF RelayTypeOK, PCs, Results, Placed, Session
<1>2. \A h \in Relays : Relayed(h)'
  <2> TAKE h \in Relays
  <2>1. Stays(pc[h], pc'[h])
    BY <1>0 DEF RelayTypeOK, Stays, Before, After
  <2>2. added' = added /\ read'[h] = read[h] /\ wire'[h] = wire[h]
    BY <1>0 DEF RelayTypeOK
  <2>3. sent'[h] \in Nat /\ sent[h] <= sent'[h]
    BY <1>0, WindowAssumption DEF RelayTypeOK
  <2> QED BY <1>0, <2>1, <2>2, <2>3, RelayedStays
<1>3. Placed'
  BY <1>0 DEF RelayTypeOK, Placed
<1>4. Resulted'
  BY <1>0 DEF RelayTypeOK, Resulted, Placed
<1>5. rec' # <<>> => Sessioned'
  BY <1>0 DEF RelayTypeOK, Sessioned, Numbered, Fresh, Taken, Placed
<1> QED BY <1>1, <1>2, <1>3, <1>4, <1>5 DEF StreamInv

LEMMA StreamStarts == RelayInit => StreamInv
<1> SUFFICES ASSUME RelayInit PROVE StreamInv
  OBVIOUS
<1> USE RelaysAre DEF RelayInit
<1>1. RelayTypeOK
  BY WindowAssumption DEF RelayTypeOK, PCs, Results
<1>2. ASSUME NEW g \in Relays PROVE Relayed(g)
  <2>1. wire[g] = <<>> /\ read[g] = 0 /\ sent[g] = 0 /\ pc[g] \in {"off", "start"} /\ added = <<>>
    OBVIOUS
  <2>2. Count(<<>>, g) = 0
    <3>1. {i \in DOMAIN <<>> : <<>>[i][1] = g} = {}
      OBVIOUS
    <3> QED BY <3>1, FS_EmptySet DEF Count
  <2> QED BY <2>1, <2>2 DEF Relayed, Counted, Before, After
<1>3. Placed /\ Resulted
  BY DEF Placed, Resulted
<1>4. rec = <<>>
  OBVIOUS
<1> QED BY <1>1, <1>2, <1>3, <1>4 DEF StreamInv

LEMMA StreamStep == StreamInv /\ [RelayNext]_relayVars => StreamInv'
<1> SUFFICES ASSUME StreamInv, [RelayNext]_relayVars PROVE StreamInv'
  OBVIOUS
<1>1. CASE HandlerStep
  BY <1>1, RelaysAre, TakeOverKeeps, AnswerKeeps, ResponseHooksKeeps, SendHeadKeeps, OpenSessionKeeps,
     SetStatusKeeps, CloseKeeps, WriteResponseKeeps, ResponseEndsKeeps, NextSeqKeeps, AddKeeps,
     PushSnapshotKeeps, ReadMessageKeeps, HookKeeps DEF HandlerStep
<1>2. CASE PumpStep
  BY <1>2, RelaysAre, NextSeqKeeps, AddKeeps, PushSnapshotKeeps, ReadMessageKeeps, HookKeeps,
     WriteRequestKeeps, RequestEndsKeeps DEF PumpStep
<1>3. CASE ClosePipe
  BY <1>3, ClosePipeKeeps
<1>4. CASE Peers
  BY <1>4, SendMessageKeeps, SendEndKeeps, UpstreamHeadKeeps DEF Peers
<1>5. CASE UNCHANGED relayVars
  <2> USE <1>5 DEF relayVars, handlerVars, peerVars
  <2>1. RelayTypeOK'
    BY DEF StreamInv, RelayTypeOK
  <2>2. ASSUME NEW g \in Relays PROVE Relayed(g)'
    BY DEF StreamInv, Relayed
  <2>3. Placed' /\ Resulted'
    BY DEF StreamInv, Placed, Resulted
  <2>4. rec' # <<>> => Sessioned'
    BY DEF StreamInv, Sessioned, Numbered, Fresh, Taken
  <2> QED BY <2>1, <2>2, <2>3, <2>4 DEF StreamInv
<1> QED BY <1>1, <1>2, <1>3, <1>4, <1>5 DEF RelayNext

LEMMA InvGivesStreams == StreamInv => StreamSound
<1> SUFFICES ASSUME StreamInv PROVE StreamSound
  OBVIOUS
<1>1. RelayTypeOK
  BY DEF StreamInv
<1>2. ASSUME NEW g \in Relays
      PROVE  /\ \A i \in DOMAIN wire[g] : wire[g][i] = i
             /\ Len(wire[g]) <= Recorded(g) /\ Recorded(g) <= Len(wire[g]) + 1
             /\ Recorded(g) <= read[g]
  <2> DEFINE n == Count(added, g)
             l == Len(wire[g])
             r == read[g]
  <2>1. Relayed(g)
    BY DEF StreamInv
  <2>2. n \in Nat /\ l \in Nat /\ r \in Nat
    <3>1. /\ added \in Seq(Relays \X Nat) /\ wire[g] \in Seq(1..MaxFrames) /\ r \in 0..MaxFrames
      BY <1>1 DEF RelayTypeOK
    <3>2. n \in Nat
      BY <3>1, CountTyped
    <3> QED BY <3>1, <3>2, WindowAssumption, LenProperties
  <2>3. pc[g] \in PCs
    BY <1>1 DEF RelayTypeOK
  <2>4. Counted(pc[g], n, r, l)
    BY <2>1 DEF Relayed
  <2> HIDE DEF n, l, r
  <2>5. l <= n /\ n <= l + 1 /\ n <= r
    <3>1. CASE pc[g] \in Before \cup {"read"}
      BY <2>2, <2>4, <3>1 DEF Counted
    <3>2. CASE pc[g] \in {"seq", "hook", "add"}
      BY <2>2, <2>4, <3>2 DEF Counted
    <3>3. CASE pc[g] \in {"push", "write"}
      BY <2>2, <2>4, <3>3 DEF Counted
    <3>4. CASE pc[g] \in After
      BY <2>2, <2>4, <3>4 DEF Counted
    <3> QED BY <2>3, <3>1, <3>2, <3>3, <3>4 DEF PCs, Before, After
  <2>6. Recorded(g) = n
    BY DEF Recorded, Count, n
  <2> QED BY <2>1, <2>5, <2>6 DEF Relayed, n, l, r
<1>3. result = "whole" => (ended[Handler] = "eof" /\ Len(wire[Handler]) = sent[Handler])
  BY DEF StreamInv, Resulted
<1>4. RelaySound
  BY <1>1, <1>2, <1>3 DEF RelaySound
<1>5. ASSUME rec # <<>> PROVE SessionSound
  <2> DEFINE n == Len(added)
             k == IF n < Window THEN n ELSE Window
  <2>1. Sessioned /\ added \in Seq(Relays \X Nat)
    BY <1>1, <1>5 DEF StreamInv, RelayTypeOK
  <2>2. n \in Nat /\ Window \in Nat
    BY <2>1, LenProperties, WindowAssumption
  <2>3. rec.messages = SubSeq(added, n - k + 1, n)
    BY <2>1 DEF Sessioned, LastOf
  <2>4. k \in 0..n
    BY <2>2
  <2>5. Len(rec.messages) = k
    <3> HIDE DEF k
    <3>1. n - k \in 0..n /\ n - (n - k) = k
      BY <2>2, <2>4
    <3>2. Len(SubSeq(added, (n - k) + 1, n)) = n - (n - k)
      BY <2>1, <3>1, SuffixElements
    <3> QED BY <2>3, <3>1, <3>2
  <2>6. rec.count = n
    BY <2>1 DEF Sessioned
  <2>7. \A i, j \in DOMAIN added : i < j =>
          /\ added[i][2] # added[j][2]
          /\ added[i][1] = added[j][1] => added[i][2] < added[j][2]
    BY <2>1 DEF Sessioned, Numbered
  <2>8. At(Handler, "done") => ~rec.open
    BY <2>1 DEF Sessioned, At
  <2>9. rec.messages = SubSeq(added, n - Len(rec.messages) + 1, n)
    BY <2>3, <2>5
  <2>10. Len(rec.messages) = IF rec.count < Window THEN rec.count ELSE Window
    BY <2>5, <2>6
  <2> QED BY <2>6, <2>7, <2>8, <2>9, <2>10 DEF SessionSound
<1>6. SessionSound
  BY <1>5 DEF SessionSound
<1> QED BY <1>4, <1>6 DEF StreamSound

(* What a stream relays is what was sent, in order and without a gap, each *)
(* message recorded before it was passed on; it ends regularly only after  *)
(* the whole of the upstream's body; and its session counts every message  *)
(* once, keeps the last ones in order and is closed when the handler has   *)
(* returned (streaming.go:264, :297, :577, :810): for any number of        *)
(* messages and any window.                                                *)
THEOREM StreamsStaySound == RelaySpec => []StreamSound
<1>1. RelayInit => StreamInv
  BY StreamStarts
<1>2. StreamInv /\ [RelayNext]_relayVars => StreamInv'
  BY StreamStep
<1>3. StreamInv => StreamSound
  BY InvGivesStreams
<1> QED BY <1>1, <1>2, <1>3, PTL DEF RelaySpec

-----------------------------------------------------------------------------
(* The scanners.                                                           *)
(*                                                                         *)
(* Their loops have one shape: a step take on a set S of scanners is       *)
(* repeated until a state of done is reached, and every step that does not *)
(* reach one makes the buffer shorter.  What take reaches from a scanner   *)
(* is what lies in every set that holds the scanner and is closed under    *)
(* take.                                                                   *)
ClosedUnder(R, take, done) == \A x \in R : x \notin done => take[x] \in R

Reaches(S, take, done, s, t) ==
  \A R \in SUBSET S : s \in R /\ ClosedUnder(R, take, done) => t \in R

(* Reaching is transitive.                                                 *)
LEMMA ReachesOn ==
  ASSUME NEW S, NEW take, NEW done, NEW s, NEW t, NEW u,
         Reaches(S, take, done, s, t), Reaches(S, take, done, t, u)
  PROVE  Reaches(S, take, done, s, u)
BY DEF Reaches

(* A step is determined: only one scanner of done is reached.              *)
LEMMA ReachesOnce ==
  ASSUME NEW S, NEW done, NEW take \in [S -> S], NEW s \in S, NEW t \in S \cap done, NEW u \in S \cap done,
         Reaches(S, take, done, s, t), Reaches(S, take, done, s, u)
  PROVE  t = u
<1> DEFINE R == {x \in S : Reaches(S, take, done, x, u)}
<1>1. s \in R
  OBVIOUS
<1>2. ASSUME NEW x \in R, x \notin done PROVE take[x] \in R
  <2>1. x \in S /\ take[x] \in S /\ Reaches(S, take, done, x, u) /\ x # u
    BY <1>2
  <2>2. SUFFICES ASSUME NEW Q \in SUBSET S, take[x] \in Q, ClosedUnder(Q, take, done) PROVE u \in Q
    BY <2>1 DEF Reaches
  <2>3. ClosedUnder(Q \cup {x}, take, done) /\ Q \cup {x} \in SUBSET S /\ x \in Q \cup {x}
    BY <2>1, <2>2 DEF ClosedUnder
  <2>4. u \in Q \cup {x}
    BY <2>1, <2>3 DEF Reaches
  <2> QED BY <2>1, <2>4
<1>3. t \in R
  <2>1. R \in SUBSET S /\ ClosedUnder(R, take, done)
    BY <1>2 DEF ClosedUnder
  <2> HIDE DEF R
  <2> QED BY <1>1, <2>1 DEF Reaches
<1>4. ClosedUnder({t}, take, done) /\ {t} \in SUBSET S
  BY DEF ClosedUnder
<1> QED BY <1>3, <1>4 DEF Reaches

(* What does not hinder a step can be done before or after it.             *)
LEMMA ReachesAlong ==
  ASSUME NEW S, NEW done, NEW take \in [S -> S], NEW grow \in [S -> S], NEW s \in S, NEW t \in S,
         \A x \in S \ done : grow[x] \notin done /\ take[grow[x]] = grow[take[x]],
         Reaches(S, take, done, s, t)
  PROVE  Reaches(S, take, done, grow[s], grow[t])
<1> SUFFICES ASSUME NEW R \in SUBSET S, grow[s] \in R, ClosedUnder(R, take, done) PROVE grow[t] \in R
  BY DEF Reaches
<1> DEFINE Q == {x \in S : grow[x] \in R}
<1>1. s \in Q /\ Q \in SUBSET S
  OBVIOUS
<1>2. ClosedUnder(Q, take, done)
  BY DEF ClosedUnder
<1>3. t \in Q
  <2> HIDE DEF Q
  <2> QED BY <1>1, <1>2 DEF Reaches
<1> QED BY <1>3

(* The rounds of a loop: a function that applies take to its last value.   *)
Rounds(after, take, s, n) ==
  after = [k \in 0..n |-> IF k = 0 THEN s ELSE take[after[k - 1]]]

LEMMA RoundsAreDefined ==
  ASSUME NEW S, NEW take \in [S -> S], NEW s \in S, NEW n \in Nat
  PROVE  \E after \in [0..n -> S] : Rounds(after, take, s, n)
<1> DEFINE D == {m \in Nat : \E after \in [0..m -> S] : Rounds(after, take, s, m)}
<1>1. 0 \in D
  <2>1. [k \in 0..0 |-> s] \in [0..0 -> S] /\ Rounds([k \in 0..0 |-> s], take, s, 0)
    BY DEF Rounds
  <2> QED BY <2>1
<1>2. ASSUME NEW m \in D PROVE m + 1 \in D
  <2>1. PICK f \in [0..m -> S] : Rounds(f, take, s, m)
    OBVIOUS
  <2>2. PICK g : g = [k \in 0..(m + 1) |-> IF k = m + 1 THEN take[f[m]] ELSE f[k]]
    OBVIOUS
  <2>3. m \in Nat /\ m \in 0..m /\ f[m] \in S /\ take[f[m]] \in S
    OBVIOUS
  <2>4. g \in [0..(m + 1) -> S]
    BY <2>2, <2>3
  <2>5. ASSUME NEW k \in 0..(m + 1) PROVE g[k] = IF k = 0 THEN s ELSE take[g[k - 1]]
    <3>1. CASE k = 0
      BY <2>1, <2>2, <2>3, <3>1 DEF Rounds
    <3>2. CASE k = m + 1
      BY <2>2, <2>3, <3>2
    <3>3. CASE k # 0 /\ k # m + 1
      <4>1. k \in 0..m /\ k - 1 \in 0..m /\ k - 1 # m + 1 /\ k - 1 \in 0..(m + 1)
        BY <2>3, <3>3
      <4>2. g[k] = f[k] /\ g[k - 1] = f[k - 1]
        BY <2>2, <3>3, <4>1
      <4> QED BY <2>1, <3>3, <4>1, <4>2 DEF Rounds
    <3> QED BY <3>1, <3>2, <3>3
  <2>6. g = [k \in 0..(m + 1) |-> IF k = 0 THEN s ELSE take[g[k - 1]]]
    BY <2>4, <2>5
  <2> QED BY <2>3, <2>4, <2>6 DEF Rounds
<1>3. D = Nat
  <2> HIDE DEF D
  <2> QED BY <1>1, <1>2, SetInduction DEF D
<1> QED BY <1>3

(* A loop: after holds the scanner after each round.                       *)
Loops(S, take, done, size, s, after) ==
  /\ take \in [S -> S] /\ size \in [S -> Nat] /\ s \in S
  /\ after[0] = s
  /\ \A k \in 1..size[s] : after[k - 1] \in S => after[k] = take[after[k - 1]]
  /\ \A x \in S : /\ size[x] = 0 => x \in done
                  /\ x \in done => take[x] = x
                  /\ x \notin done => take[x] \in done \/ size[take[x]] < size[x]

(* After as many rounds as there are bytes in the buffer the loop is over. *)
LEMMA RoundsReach ==
  ASSUME NEW S, NEW take, NEW done, NEW size, NEW s, NEW after, Loops(S, take, done, size, s, after)
  PROVE  /\ after[size[s]] \in S \cap done
         /\ Reaches(S, take, done, s, after[size[s]])
<1>0. /\ take \in [S -> S] /\ size \in [S -> Nat] /\ s \in S
      /\ after[0] = s
      /\ \A k \in 1..size[s] : after[k - 1] \in S => after[k] = take[after[k - 1]]
      /\ \A x \in S : /\ size[x] = 0 => x \in done
                      /\ x \in done => take[x] = x
                      /\ x \notin done => take[x] \in done \/ size[take[x]] < size[x]
  BY DEF Loops
<1>1. PICK N : N = size[s]
  OBVIOUS
<1>2. N \in Nat
  BY <1>0, <1>1
<1>3. after[0] = s /\ \A k \in 1..N : after[k - 1] \in S => after[k] = take[after[k - 1]]
  BY <1>0, <1>1
<1> DEFINE Reached(k) == /\ after[k] \in S
                         /\ after[k] \in done \/ size[after[k]] <= N - k
                         /\ Reaches(S, take, done, s, after[k])
           D == {k \in Nat : k <= N => Reached(k)}
<1>4. 0 \in D
  BY <1>0, <1>1, <1>2, <1>3 DEF Reaches
<1>5. ASSUME NEW k \in D PROVE k + 1 \in D
  <2>1. SUFFICES ASSUME k + 1 <= N PROVE Reached(k + 1)
    BY <1>5
  <2>2. k \in Nat /\ k \in 0..N /\ k + 1 \in 1..N /\ (k + 1) - 1 = k
    BY <1>2, <2>1
  <2>3. PICK x : x = after[k]
    OBVIOUS
  <2>4. x \in S /\ (x \in done \/ size[x] <= N - k) /\ Reaches(S, take, done, s, x)
    BY <1>2, <2>1, <2>2, <2>3
  <2>5. after[k + 1] = take[x]
    <3>1. after[(k + 1) - 1] \in S => after[k + 1] = take[after[(k + 1) - 1]]
      BY <1>3, <2>2
    <3>2. after[(k + 1) - 1] = x
      BY <2>2, <2>3
    <3> QED BY <2>4, <3>1, <3>2
  <2>6. take[x] \in S
    BY <1>0, <2>4
  <2>7. Reaches(S, take, done, s, take[x])
    <3>1. CASE x \in done
      <4>1. take[x] = x
        BY <1>0, <2>4, <3>1
      <4> QED BY <2>4, <4>1
    <3>2. CASE x \notin done
      BY <2>4, <3>2 DEF Reaches, ClosedUnder
    <3> QED BY <3>1, <3>2
  <2>8. take[x] \in done \/ size[take[x]] <= N - (k + 1)
    <3>1. CASE x \in done
      BY <1>0, <2>4, <3>1
    <3>2. CASE x \notin done
      <4>1. size[x] \in Nat /\ size[take[x]] \in Nat
        BY <1>0, <2>4, <2>6
      <4> QED BY <1>0, <1>2, <2>2, <2>4, <3>2, <4>1
    <3> QED BY <3>1, <3>2
  <2> QED BY <2>5, <2>6, <2>7, <2>8
<1>6. D = Nat
  <2> HIDE DEF D
  <2> QED BY <1>4, <1>5, SetInduction DEF D
<1>7. Reached(N)
  BY <1>2, <1>6
<1>8. after[N] \in done
  <2>1. PICK x : x = after[N]
    OBVIOUS
  <2>2. x \in S /\ size[x] \in Nat /\ (x \in done \/ size[x] <= N - N)
    BY <1>0, <1>7, <2>1
  <2>3. x \in done \/ size[x] = 0
    BY <1>2, <2>2
  <2> QED BY <1>0, <2>1, <2>2, <2>3
<1> QED BY <1>1, <1>7, <1>8

(* Scanners of a stream of these bytes.                                    *)
ScannersOf(B) == [buf : Seq(B), out : Seq(Seq(B)), wire : Seq(B), overflow : BOOLEAN]

Passing(s) == s.wire \o s.buf   \* the bytes written on and still to be written

LEMMA ScannerIs ==
  ASSUME NEW B, NEW s \in ScannersOf(B)
  PROVE  /\ s.buf \in Seq(B) /\ s.wire \in Seq(B) /\ s.out \in Seq(Seq(B)) /\ s.overflow \in BOOLEAN
         /\ s = [buf |-> s.buf, out |-> s.out, wire |-> s.wire, overflow |-> s.overflow]
BY DEF ScannersOf

LEMMA IsScanner ==
  ASSUME NEW B, NEW b \in Seq(B), NEW o \in Seq(Seq(B)), NEW w \in Seq(B), NEW v \in BOOLEAN
  PROVE  [buf |-> b, out |-> o, wire |-> w, overflow |-> v] \in ScannersOf(B)
BY DEF ScannersOf

LEMMA BufferFacts ==
  ASSUME NEW B, NEW s \in ScannersOf(B), NEW p \in Seq(B)
  PROVE  /\ Buffer(s, p) \in ScannersOf(B) /\ Len(s.buf) \in Nat
         /\ Buffer(s, p) = [buf |-> s.buf \o p, out |-> s.out, wire |-> s.wire, overflow |-> s.overflow]
         /\ Len(Buffer(s, p).buf) = Len(s.buf) + Len(p)
         /\ \A i \in 1..Len(s.buf) : Buffer(s, p).buf[i] = s.buf[i] /\ s.buf[i] \in B
         /\ Passing(Buffer(s, p)) = Passing(s) \o p
         /\ \A q \in Seq(B) : Buffer(Buffer(s, p), q) = Buffer(s, p \o q)
<1>1. /\ s.buf \in Seq(B) /\ s.wire \in Seq(B) /\ s.out \in Seq(Seq(B)) /\ s.overflow \in BOOLEAN
      /\ s = [buf |-> s.buf, out |-> s.out, wire |-> s.wire, overflow |-> s.overflow]
  BY ScannerIs
<1>2. s.buf \o p \in Seq(B) /\ Len(s.buf) \in Nat /\ Len(p) \in Nat
  BY <1>1, ConcatProperties, LenProperties
<1>3. \A r \in Seq(B) : Buffer(s, r) = [buf |-> s.buf \o r, out |-> s.out, wire |-> s.wire, overflow |-> s.overflow]
  BY DEF Buffer
<1>4. Buffer(s, p) \in ScannersOf(B) /\ Buffer(s, p).buf = s.buf \o p /\ Buffer(s, p).overflow = s.overflow
  <2>1. Buffer(s, p) = [buf |-> s.buf \o p, out |-> s.out, wire |-> s.wire, overflow |-> s.overflow]
    BY <1>3
  <2>2. Buffer(s, p) \in ScannersOf(B)
    BY <1>1, <1>2, <2>1, IsScanner
  <2> QED BY <2>1, <2>2
<1>5. Len(s.buf \o p) = Len(s.buf) + Len(p) /\ \A i \in 1..Len(s.buf) : (s.buf \o p)[i] = s.buf[i] /\ s.buf[i] \in B
  BY <1>1, <1>2, ConcatProperties, ElementOfSeq
<1>6. Passing(Buffer(s, p)) = Passing(s) \o p
  <2>1. Buffer(s, p).wire = s.wire
    BY <1>3
  <2>2. PICK w, b : w = s.wire /\ b = s.buf
    OBVIOUS
  <2>3. w \in Seq(B) /\ b \in Seq(B)
    BY <1>1, <2>2
  <2>4. (w \o b) \o p = w \o (b \o p)
    BY <2>3, ConcatAssociative
  <2> QED BY <1>4, <2>1, <2>2, <2>4 DEF Passing
<1>7. ASSUME NEW q \in Seq(B) PROVE Buffer(Buffer(s, p), q) = Buffer(s, p \o q)
  <2>1. PICK b \in Seq(B) : b = s.buf
    BY <1>1
  <2>2. (b \o p) \o q = b \o (p \o q)
    BY ConcatAssociative
  <2>3. p \o q \in Seq(B)
    BY ConcatProperties
  <2>4. Buffer(Buffer(s, p), q) = [buf |-> (s.buf \o p) \o q, out |-> s.out, wire |-> s.wire, overflow |-> s.overflow]
    BY <1>3 DEF Buffer
  <2> QED BY <1>3, <2>1, <2>2, <2>3, <2>4
<1> QED BY <1>2, <1>3, <1>4, <1>5, <1>6, <1>7

LEMMA CutOffFacts ==
  ASSUME NEW B, NEW s \in ScannersOf(B), NEW n \in 1..Len(s.buf)
  PROVE  /\ CutOff(s, n) \in ScannersOf(B)
         /\ Len(CutOff(s, n).buf) = Len(s.buf) - n
         /\ CutOff(s, n).overflow = s.overflow
         /\ Passing(CutOff(s, n)) = Passing(s)
         /\ \A p \in Seq(B) : CutOff(Buffer(s, p), n) = Buffer(CutOff(s, n), p)
<1>1. PICK b, o, w, v : b = s.buf /\ o = s.out /\ w = s.wire /\ v = s.overflow
  OBVIOUS
<1>2. /\ b \in Seq(B) /\ w \in Seq(B) /\ o \in Seq(Seq(B)) /\ v \in BOOLEAN
      /\ s = [buf |-> b, out |-> o, wire |-> w, overflow |-> v]
  BY <1>1, ScannerIs
<1>3. Len(b) \in Nat /\ n \in 1..Len(b) /\ n \in 0..Len(b)
  BY <1>1, <1>2, LenProperties
<1>4. PICK m, r : m = SubSeq(b, 1, n) /\ r = SubSeq(b, n + 1, Len(b))
  OBVIOUS
<1>5. m \in Seq(B) /\ r \in Seq(B) /\ Len(r) = Len(b) - n /\ m \o r = b
  <2>1. \A i \in 1..Len(b) : b[i] \in B
    BY <1>2, ElementOfSeq
  <2>2. m \in Seq(B)
    BY <1>3, <1>4, <2>1, SubSeqProperties
  <2>3. r \in Seq(B) /\ Len(r) = Len(b) - n
    BY <1>2, <1>3, <1>4, SuffixElements
  <2>4. m \o r = SubSeq(b, 1, Len(b))
    BY <1>2, <1>3, <1>4, ConcatAdjacentSubSeq
  <2> QED BY <1>2, <2>2, <2>3, <2>4, SubSeqFull
<1>6. CutOff(s, n) = [buf |-> r, out |-> Append(o, m), wire |-> w \o m, overflow |-> v]
  BY <1>1, <1>4 DEF CutOff
<1>7. Append(o, m) \in Seq(Seq(B)) /\ w \o m \in Seq(B)
  <2>1. o \in Seq(Seq(B)) /\ m \in Seq(B) /\ w \in Seq(B)
    BY <1>2, <1>5
  <2>2. Append(o, m) \in Seq(Seq(B))
    BY <2>1, AppendProperties
  <2>3. w \o m \in Seq(B)
    BY <2>1, ConcatProperties
  <2> QED BY <2>2, <2>3
<1>8. CutOff(s, n) \in ScannersOf(B)
  <2>1. PICK l, u : l = Append(o, m) /\ u = w \o m
    OBVIOUS
  <2>2. l \in Seq(Seq(B)) /\ u \in Seq(B) /\ r \in Seq(B) /\ v \in BOOLEAN
    BY <1>2, <1>5, <1>7, <2>1
  <2>3. [buf |-> r, out |-> l, wire |-> u, overflow |-> v] \in ScannersOf(B)
    BY <2>2, IsScanner
  <2> QED BY <1>6, <2>1, <2>3
<1>9. Passing(CutOff(s, n)) = Passing(s)
  <2>1. m \in Seq(B) /\ r \in Seq(B) /\ w \in Seq(B)
    BY <1>2, <1>5
  <2>2. (w \o m) \o r = w \o (m \o r)
    BY <2>1, ConcatAssociative
  <2>3. Passing(CutOff(s, n)) = (w \o m) \o r
    BY <1>6 DEF Passing
  <2>4. Passing(s) = w \o b
    BY <1>1 DEF Passing
  <2> QED BY <1>5, <2>2, <2>3, <2>4
<1>10. ASSUME NEW p \in Seq(B) PROVE CutOff(Buffer(s, p), n) = Buffer(CutOff(s, n), p)
  <2>1. Buffer(s, p) = [buf |-> b \o p, out |-> o, wire |-> w, overflow |-> v]
    BY <1>1, BufferFacts
  <2>2. /\ b \o p \in Seq(B) /\ Len(b \o p) = Len(b) + Len(p) /\ Len(p) \in Nat
        /\ \A i \in 1..Len(b) + Len(p) : (b \o p)[i] = IF i <= Len(b) THEN b[i] ELSE p[i - Len(b)]
    BY <1>2, ConcatProperties, LenProperties
  <2>3. PICK mp, rp : mp = SubSeq(b \o p, 1, n) /\ rp = SubSeq(b \o p, n + 1, Len(b \o p))
    OBVIOUS
  <2>4. CutOff(Buffer(s, p), n) = [buf |-> rp, out |-> Append(o, mp), wire |-> w \o mp, overflow |-> v]
    BY <2>1, <2>3 DEF CutOff
  <2>5. mp = m
    <3>1. b \in Seq(B) /\ p \in Seq(B) /\ 1 \in 1..Len(b) /\ n \in 1..Len(b)
      BY <1>2, <1>3
    <3>2. SubSeq(b \o p, 1, n) = SubSeq(b, 1, n)
      BY <3>1, SubSeqOfConcat1
    <3> QED BY <1>4, <2>3, <3>2
  <2>6. rp = r \o p
    <3>1. /\ rp \in Seq(B) /\ Len(rp) = Len(b) + Len(p) - n
          /\ \A i \in 1..(Len(b) + Len(p) - n) : rp[i] = (b \o p)[i + n]
      <4>1. PICK c : c = b \o p
        OBVIOUS
      <4>2. c \in Seq(B) /\ n \in 0..Len(c) /\ Len(c) = Len(b) + Len(p) /\ rp = SubSeq(c, n + 1, Len(c))
        BY <1>3, <2>2, <2>3, <4>1
      <4>3. /\ rp \in Seq(B) /\ Len(rp) = Len(c) - n
            /\ \A i \in 1..(Len(c) - n) : rp[i] = c[i + n]
        BY <4>2, SuffixElements
      <4>4. Len(c) - n = Len(b) + Len(p) - n
        BY <4>2
      <4>5. /\ rp \in Seq(B) /\ Len(rp) = Len(b) + Len(p) - n
            /\ \A i \in 1..(Len(b) + Len(p) - n) : rp[i] = c[i + n]
        BY <4>3, <4>4
      <4> QED BY <4>1, <4>5
    <3>2. /\ r \o p \in Seq(B) /\ Len(r \o p) = Len(r) + Len(p)
          /\ \A i \in 1..Len(r) + Len(p) : (r \o p)[i] = IF i <= Len(r) THEN r[i] ELSE p[i - Len(r)]
      BY <1>5, ConcatProperties
    <3>3. \A i \in 1..(Len(b) - n) : r[i] = b[i + n]
      BY <1>2, <1>3, <1>4, SuffixElements
    <3>4. ASSUME NEW i \in 1..Len(rp) PROVE rp[i] = (r \o p)[i]
      <4>1. i \in Nat /\ i \in 1..(Len(b) + Len(p) - n) /\ i + n \in 1..Len(b) + Len(p) /\ i \in 1..Len(r) + Len(p)
        BY <1>3, <1>5, <2>2, <3>1
      <4>2. rp[i] = IF i + n <= Len(b) THEN b[i + n] ELSE p[i + n - Len(b)]
        BY <2>2, <3>1, <4>1
      <4>3. (r \o p)[i] = IF i <= Len(b) - n THEN r[i] ELSE p[i - (Len(b) - n)]
        BY <1>5, <3>2, <4>1
      <4>4. CASE i <= Len(b) - n
        <5>1. i \in 1..(Len(b) - n) /\ i + n <= Len(b)
          BY <1>3, <4>1, <4>4
        <5>2. r[i] = b[i + n]
          BY <3>3, <5>1
        <5> QED BY <4>2, <4>3, <4>4, <5>1, <5>2
      <4>5. CASE ~(i <= Len(b) - n)
        <5>1. i - (Len(b) - n) = i + n - Len(b) /\ ~(i + n <= Len(b))
          BY <1>3, <4>1, <4>5
        <5> QED BY <4>2, <4>3, <4>5, <5>1
      <4> QED BY <4>4, <4>5
    <3>5. Len(rp) = Len(r \o p)
      BY <1>3, <1>5, <2>2, <3>1, <3>2
    <3> QED BY <3>1, <3>2, <3>4, <3>5, SeqEqual
  <2>7. Buffer(CutOff(s, n), p) = [buf |-> r \o p, out |-> Append(o, m), wire |-> w \o m, overflow |-> v]
    BY <1>6 DEF Buffer
  <2> QED BY <2>4, <2>5, <2>6, <2>7
<1>11. Len(CutOff(s, n).buf) = Len(s.buf) - n /\ CutOff(s, n).overflow = s.overflow
  BY <1>1, <1>5, <1>6
<1> QED BY <1>8, <1>9, <1>10, <1>11

(* A step is the same when more bytes follow in the buffer.                *)
Stable(B, take, done) ==
  /\ take \in [ScannersOf(B) -> ScannersOf(B)]
  /\ \A x \in ScannersOf(B) \ done : \A q \in Seq(B) :
       Buffer(x, q) \notin done /\ take[Buffer(x, q)] = Buffer(take[x], q)

(* A read of a scanner whose loop is over is a longer read of a new one.   *)
LEMMA ReadOn ==
  ASSUME NEW B, NEW take, NEW done, Stable(B, take, done),
         NEW s \in ScannersOf(B), NEW old \in Seq(B), NEW p \in Seq(B), NEW t \in ScannersOf(B), NEW u,
         Reaches(ScannersOf(B), take, done, Buffer(s, old), t),
         Reaches(ScannersOf(B), take, done, Buffer(t, p), u)
  PROVE  Reaches(ScannersOf(B), take, done, Buffer(s, old \o p), u)
<1>1. PICK S, first, grow : /\ S = ScannersOf(B) /\ first = Buffer(s, old)
                            /\ grow = [x \in S |-> Buffer(x, p)]
  OBVIOUS
<1>2. grow \in [S -> S] /\ first \in S /\ s \in S /\ t \in S /\ take \in [S -> S]
  BY <1>1, BufferFacts DEF Stable
<1>3. \A x \in S \ done : grow[x] \notin done /\ take[grow[x]] = grow[take[x]]
  BY <1>1, <1>2 DEF Stable
<1>4. Reaches(S, take, done, grow[first], grow[t])
  BY <1>1, <1>2, <1>3, ReachesAlong
<1>5. grow[first] = Buffer(s, old \o p) /\ grow[t] = Buffer(t, p)
  BY <1>1, <1>2, BufferFacts
<1> QED BY <1>1, <1>4, <1>5, ReachesOn

(* What no step changes is the same at the end.                            *)
LEMMA PassingStays ==
  ASSUME NEW B, NEW take \in [ScannersOf(B) -> ScannersOf(B)], NEW done,
         \A x \in ScannersOf(B) \ done : Passing(take[x]) = Passing(x),
         NEW s \in ScannersOf(B), NEW t, Reaches(ScannersOf(B), take, done, s, t)
  PROVE  Passing(t) = Passing(s)
<1>1. PICK R : R = {x \in ScannersOf(B) : Passing(x) = Passing(s)}
  OBVIOUS
<1>2. R \in SUBSET ScannersOf(B) /\ s \in R /\ ClosedUnder(R, take, done)
  BY <1>1 DEF ClosedUnder
<1>3. t \in R
  BY <1>2 DEF Reaches
<1> QED BY <1>1, <1>3

LEMMA NewScannerIs ==
  ASSUME NEW B, NEW p \in Seq(B)
  PROVE  /\ NewScanner \in ScannersOf(B) /\ Buffer(NewScanner, <<>>) = NewScanner
         /\ Buffer(NewScanner, p) \in ScannersOf(B) /\ Passing(Buffer(NewScanner, p)) = p
<1>1. <<>> \in Seq(B) /\ <<>> \in Seq(Seq(B)) /\ <<>> \o p = p /\ <<>> \o <<>> = <<>>
  BY EmptySeq, ConcatEmptySeq
<1>2. NewScanner \in ScannersOf(B)
  BY <1>1, IsScanner DEF NewScanner
<1>3. Buffer(NewScanner, <<>>) = NewScanner
  BY <1>1 DEF NewScanner, Buffer
<1>4. Buffer(NewScanner, p) \in ScannersOf(B) /\ Passing(Buffer(NewScanner, p)) = Passing(NewScanner) \o p
  BY <1>2, BufferFacts
<1>5. Passing(NewScanner) = <<>>
  BY <1>1 DEF NewScanner, Passing
<1> QED BY <1>1, <1>2, <1>3, <1>4, <1>5

-----------------------------------------------------------------------------
(* The scanner of event streams.                                           *)
SSEScanners == ScannersOf(SSEBytes)
EventTaken  == [x \in SSEScanners |-> CutEvent(x)]
NoEvent     == {x \in SSEScanners : Boundary(x.buf) = 0}
Sizes(B)    == [x \in ScannersOf(B) |-> Len(x.buf)]

LEMMA LeastIn ==
  ASSUME NEW T \in SUBSET Nat, T # {}
  PROVE  Min(T) \in T /\ \A y \in T : Min(T) <= y
<1>1. \E x \in T : \A y \in T : x <= y
  <2> DEFINE R == OpToRel(<, Nat)
  <2>1. IsWellFoundedOn(R, Nat)
    BY NatLessThanWellFounded
  <2>2. \A y, x \in Nat : (y < x) => <<y, x>> \in R
    BY DEF OpToRel
  <2> HIDE DEF R
  <2>3. PICK x \in T : \A y \in T : ~(<<y, x>> \in R)
    BY <2>1, WFMin
  <2>4. \A y \in T : ~(y < x)
    BY <2>2, <2>3
  <2> QED BY <2>4
<1> QED BY <1>1 DEF Min

(* The first blank line does not move when more bytes follow.              *)
LEMMA BoundaryStays ==
  ASSUME NEW B, NEW b \in Seq(B)
  PROVE  /\ Boundary(b) \in 0..Len(b)
         /\ \A p \in Seq(B) : Boundary(b) # 0 => Boundary(b \o p) = Boundary(b)
<1>1. Len(b) \in Nat
  BY LenProperties
<1>2. PICK hits : hits = {i \in 1..Len(b) : BlankLineEnd(b, i) # 0}
  OBVIOUS
<1>3. \A i \in 1..Len(b) : BlankLineEnd(b, i) # 0 => BlankLineEnd(b, i) \in (i + 1)..Len(b) /\ BlankLineEnd(b, i) <= i + 2
  BY <1>1 DEF BlankLineEnd
<1>4. CASE hits = {}
  <2>1. Boundary(b) = 0
    BY <1>2, <1>4 DEF Boundary
  <2> QED BY <1>1, <2>1
<1>5. CASE hits # {}
  <2>1. PICK i0 : i0 = Min(hits)
    OBVIOUS
  <2>2. i0 \in hits /\ \A y \in hits : i0 <= y
    <3>1. hits \in SUBSET Nat
      BY <1>1, <1>2
    <3> QED BY <1>5, <2>1, <3>1, LeastIn
  <2>3. Boundary(b) = BlankLineEnd(b, i0)
    BY <1>2, <1>5, <2>1 DEF Boundary
  <2>4. PICK e : e = BlankLineEnd(b, i0)
    OBVIOUS
  <2>5. /\ i0 \in 1..Len(b) /\ e # 0 /\ e \in (i0 + 1)..Len(b) /\ e <= i0 + 2
        /\ \A i \in 1..Len(b) : i < i0 => BlankLineEnd(b, i) = 0
    BY <1>1, <1>2, <1>3, <2>2, <2>4
  <2>6. ASSUME NEW p \in Seq(B) PROVE Boundary(b \o p) = e
    <3>1. PICK c : c = b \o p
      OBVIOUS
    <3>2. c \in Seq(B) /\ Len(c) \in Nat /\ Len(c) >= Len(b) /\ \A i \in 1..Len(b) : c[i] = b[i]
      <4>1. Len(p) \in Nat
        BY LenProperties
      <4> QED BY <1>1, <3>1, <4>1, ConcatProperties
    <3>3. ASSUME NEW i \in 1..Len(b), i <= i0 PROVE BlankLineEnd(c, i) = BlankLineEnd(b, i)
      <4>1. i \in Nat /\ i + 1 \in 1..Len(b) /\ i < Len(b) /\ i < Len(c) /\ c[i] = b[i] /\ c[i + 1] = b[i + 1]
        BY <1>1, <2>5, <3>2, <3>3
      <4>2. PICK j : j = IF b[i + 1] = "r" THEN i + 2 ELSE i + 1
        OBVIOUS
      <4>3. /\ BlankLineEnd(b, i) = (IF b[i] = "n" /\ j <= Len(b) /\ b[j] = "n" THEN j ELSE 0)
            /\ BlankLineEnd(c, i) = (IF b[i] = "n" /\ j <= Len(c) /\ c[j] = "n" THEN j ELSE 0)
        BY <4>1, <4>2 DEF BlankLineEnd
      <4>4. CASE j <= Len(b)
        <5>1. j \in 1..Len(b) /\ c[j] = b[j] /\ j <= Len(c)
          BY <1>1, <3>2, <4>1, <4>2, <4>4
        <5> QED BY <4>3, <4>4, <5>1
      <4>5. CASE ~(j <= Len(b))
        <5>1. i = i0
          BY <1>1, <2>5, <3>3, <4>1, <4>2, <4>5
        <5>2. e = 0
          BY <2>4, <4>3, <4>5, <5>1
        <5> QED BY <2>5, <5>2
      <4> QED BY <4>4, <4>5
    <3>4. PICK later : later = {i \in 1..Len(c) : BlankLineEnd(c, i) # 0}
      OBVIOUS
    <3>5. i0 \in later /\ later \in SUBSET Nat /\ later # {}
      <4>1. i0 \in 1..Len(c) /\ i0 <= i0
        BY <1>1, <2>5, <3>2
      <4>2. BlankLineEnd(c, i0) # 0
        BY <2>4, <2>5, <3>3, <4>1
      <4> QED BY <3>2, <3>4, <4>1, <4>2
    <3>6. PICK m : m = Min(later)
      OBVIOUS
    <3>7. m \in later /\ \A y \in later : m <= y
      BY <3>5, <3>6, LeastIn
    <3>8. m = i0
      <4>1. m \in Nat /\ m <= i0 /\ m \in 1..Len(c) /\ BlankLineEnd(c, m) # 0
        BY <3>4, <3>5, <3>7
      <4>2. SUFFICES ASSUME m < i0 PROVE FALSE
        BY <2>5, <4>1
      <4>3. m \in 1..Len(b)
        BY <1>1, <2>5, <4>1, <4>2
      <4> QED BY <2>5, <3>3, <4>1, <4>2, <4>3
    <3>9. Boundary(c) = BlankLineEnd(c, i0)
      BY <3>4, <3>5, <3>6, <3>8 DEF Boundary
    <3>10. BlankLineEnd(c, i0) = e
      BY <1>1, <2>4, <2>5, <3>3
    <3> QED BY <3>1, <3>9, <3>10
  <2> QED BY <1>1, <2>3, <2>4, <2>5, <2>6
<1> QED BY <1>4, <1>5

(* A round of the loop of push takes an event, whole and once, or ends it. *)
LEMMA EventSteps ==
  /\ EventTaken \in [SSEScanners -> SSEScanners]
  /\ Sizes(SSEBytes) \in [SSEScanners -> Nat]
  /\ \A x \in SSEScanners :
       /\ Len(x.buf) = 0 => x \in NoEvent
       /\ x \in NoEvent => EventTaken[x] = x
       /\ x \notin NoEvent => /\ Len(EventTaken[x].buf) < Len(x.buf)
                             /\ Passing(EventTaken[x]) = Passing(x)
                             /\ \A p \in Seq(SSEBytes) : /\ Buffer(x, p) \notin NoEvent
                                                        /\ EventTaken[Buffer(x, p)] = Buffer(EventTaken[x], p)
<1>1. ASSUME NEW x \in SSEScanners
      PROVE  /\ CutEvent(x) \in SSEScanners /\ Len(x.buf) \in Nat
             /\ Len(x.buf) = 0 => x \in NoEvent
             /\ x \in NoEvent => CutEvent(x) = x
             /\ x \notin NoEvent =>
                  /\ Len(CutEvent(x).buf) < Len(x.buf) /\ Passing(CutEvent(x)) = Passing(x)
                  /\ \A p \in Seq(SSEBytes) : /\ Buffer(x, p) \in SSEScanners \ NoEvent
                                             /\ CutEvent(Buffer(x, p)) = Buffer(CutEvent(x), p)
  <2>1. x \in ScannersOf(SSEBytes) /\ x.buf \in Seq(SSEBytes)
    BY ScannerIs DEF SSEScanners
  <2>2. PICK n : n = Boundary(x.buf)
    OBVIOUS
  <2>3. Len(x.buf) \in Nat /\ n \in 0..Len(x.buf)
    BY <2>1, <2>2, LenProperties, BoundaryStays
  <2>4. CASE n = 0
    <3>1. CutEvent(x) = x /\ x \in NoEvent
      BY <2>2, <2>4 DEF CutEvent, NoEvent
    <3> QED BY <2>3, <3>1
  <2>5. CASE n # 0
    <3>1. n \in 1..Len(x.buf) /\ x \notin NoEvent /\ CutEvent(x) = CutOff(x, n)
      BY <2>2, <2>3, <2>5 DEF CutEvent, NoEvent
    <3>2. /\ CutOff(x, n) \in SSEScanners /\ Len(CutOff(x, n).buf) = Len(x.buf) - n
          /\ Passing(CutOff(x, n)) = Passing(x)
          /\ \A p \in Seq(SSEBytes) : CutOff(Buffer(x, p), n) = Buffer(CutOff(x, n), p)
      BY <2>1, <3>1, CutOffFacts DEF SSEScanners
    <3>3. ASSUME NEW p \in Seq(SSEBytes)
          PROVE  /\ Buffer(x, p) \in SSEScanners \ NoEvent
                 /\ CutEvent(Buffer(x, p)) = Buffer(CutEvent(x), p)
      <4>1. Buffer(x, p) \in SSEScanners /\ Buffer(x, p).buf = x.buf \o p
        <5>1. Buffer(x, p) \in ScannersOf(SSEBytes)
          BY <2>1, BufferFacts
        <5>2. Buffer(x, p).buf = x.buf \o p
          BY DEF Buffer
        <5> QED BY <5>1, <5>2 DEF SSEScanners
      <4>2. Boundary(x.buf \o p) = n
        BY <2>1, <2>2, <2>5, BoundaryStays
      <4>3. Buffer(x, p) \notin NoEvent /\ CutEvent(Buffer(x, p)) = CutOff(Buffer(x, p), n)
        BY <2>5, <4>1, <4>2 DEF NoEvent, CutEvent
      <4> QED BY <3>1, <3>2, <4>1, <4>3
    <3> QED BY <2>3, <3>1, <3>2, <3>3
  <2> QED BY <2>4, <2>5
<1>2. \A x \in SSEScanners : EventTaken[x] = CutEvent(x)
  BY DEF EventTaken
<1>3. EventTaken \in [SSEScanners -> SSEScanners]
  BY <1>1 DEF EventTaken
<1>4. Sizes(SSEBytes) \in [SSEScanners -> Nat]
  BY <1>1 DEF Sizes, SSEScanners
<1>5. ASSUME NEW x \in SSEScanners, x \notin NoEvent, NEW p \in Seq(SSEBytes)
      PROVE  Buffer(x, p) \notin NoEvent /\ EventTaken[Buffer(x, p)] = Buffer(EventTaken[x], p)
  BY <1>1, <1>2, <1>5
<1> QED BY <1>1, <1>2, <1>3, <1>4, <1>5

(* What is left by the loop of push.                                       *)
LEMMA EventsAreCut ==
  ASSUME NEW s \in SSEScanners
  PROVE  CutEvents(s) \in SSEScanners \cap NoEvent /\ Reaches(SSEScanners, EventTaken, NoEvent, s, CutEvents(s))
<1>1. PICK N : N = Len(s.buf)
  OBVIOUS
<1>2. N \in Nat /\ Sizes(SSEBytes)[s] = N
  BY <1>1, ScannerIs, LenProperties DEF Sizes, SSEScanners
<1> DEFINE Loop(f) == f = [n \in 0..N |-> IF n = 0 THEN s ELSE CutEvent(f[n - 1])]
<1>3. \E f : Loop(f)
  <2>1. PICK f \in [0..N -> SSEScanners] : Rounds(f, EventTaken, s, N)
    BY <1>2, EventSteps, RoundsAreDefined
  <2>2. ASSUME NEW n \in 0..N PROVE f[n] = IF n = 0 THEN s ELSE CutEvent(f[n - 1])
    <3>1. f[n] = IF n = 0 THEN s ELSE EventTaken[f[n - 1]]
      BY <2>1 DEF Rounds
    <3>2. CASE n # 0
      <4>1. n - 1 \in 0..N /\ f[n - 1] \in SSEScanners
        BY <1>2, <3>2
      <4> QED BY <3>1, <3>2, <4>1 DEF EventTaken
    <3> QED BY <3>1, <3>2
  <2>3. f = [n \in 0..N |-> f[n]]
    OBVIOUS
  <2>4. Loop(f)
    BY <2>2, <2>3
  <2> QED BY <2>4
<1>4. PICK F : F = CHOOSE f : Loop(f)
  OBVIOUS
<1>5. Loop(F)
  <2> HIDE DEF Loop
  <2> QED BY <1>3, <1>4
<1>6. CutEvents(s) = F[N]
  BY <1>1, <1>4 DEF CutEvents
<1>7. F[0] = s /\ \A n \in 1..N : F[n] = CutEvent(F[n - 1])
  BY <1>2, <1>5
<1> HIDE DEF Loop
<1>8. \A n \in 1..N : F[n - 1] \in SSEScanners => F[n] = EventTaken[F[n - 1]]
  BY <1>7 DEF EventTaken
<1>9. \A x \in SSEScanners : /\ Sizes(SSEBytes)[x] = 0 => x \in NoEvent
                             /\ x \in NoEvent => EventTaken[x] = x
                             /\ x \notin NoEvent => EventTaken[x] \in NoEvent \/ Sizes(SSEBytes)[EventTaken[x]] < Sizes(SSEBytes)[x]
  <2>1. \A x \in SSEScanners : Sizes(SSEBytes)[x] = Len(x.buf)
    BY DEF Sizes, SSEScanners
  <2> QED BY <2>1, EventSteps
<1>10. PICK size : size = Sizes(SSEBytes)
  OBVIOUS
<1>11. EventTaken \in [SSEScanners -> SSEScanners] /\ size \in [SSEScanners -> Nat] /\ size[s] = N
  BY <1>2, <1>10, EventSteps
<1>12. \A x \in SSEScanners : /\ size[x] = 0 => x \in NoEvent
                              /\ x \in NoEvent => EventTaken[x] = x
                              /\ x \notin NoEvent => EventTaken[x] \in NoEvent \/ size[EventTaken[x]] < size[x]
  BY <1>9, <1>10
<1>13. F[0] = s /\ \A n \in 1..size[s] : F[n - 1] \in SSEScanners => F[n] = EventTaken[F[n - 1]]
  BY <1>7, <1>8, <1>11
<1>14. F[size[s]] \in SSEScanners \cap NoEvent /\ Reaches(SSEScanners, EventTaken, NoEvent, s, F[size[s]])
  <2>1. Loops(SSEScanners, EventTaken, NoEvent, size, s, F)
    BY <1>11, <1>12, <1>13 DEF Loops
  <2> QED BY <2>1, RoundsReach
<1> QED BY <1>6, <1>11, <1>14

-----------------------------------------------------------------------------
(* The scanner of gRPC streams.                                            *)
GRPCScanners == ScannersOf(GRPCBytes)
FrameTaken   == [x \in GRPCScanners |-> CutFrame(x)]
Incomplete(b) == Len(b) < 2 \/ (b[2] <= MaxMessage /\ Len(b) < 2 + b[2])
NoFrame      == {x \in GRPCScanners : x.overflow \/ Incomplete(x.buf)}

LEMMA FrameSteps ==
  /\ FrameTaken \in [GRPCScanners -> GRPCScanners]
  /\ Sizes(GRPCBytes) \in [GRPCScanners -> Nat]
  /\ \A x \in GRPCScanners :
       /\ Len(x.buf) = 0 => x \in NoFrame
       /\ x \in NoFrame => FrameTaken[x] = x
       /\ x \notin NoFrame => /\ FrameTaken[x] \in NoFrame \/ Len(FrameTaken[x].buf) < Len(x.buf)
                             /\ Passing(FrameTaken[x]) = Passing(x)
                             /\ \A p \in Seq(GRPCBytes) : /\ Buffer(x, p) \notin NoFrame
                                                         /\ FrameTaken[Buffer(x, p)] = Buffer(FrameTaken[x], p)
<1>1. ASSUME NEW x \in GRPCScanners
      PROVE  /\ CutFrame(x) \in GRPCScanners /\ Len(x.buf) \in Nat
             /\ Len(x.buf) = 0 => x \in NoFrame
             /\ x \in NoFrame => CutFrame(x) = x
             /\ x \notin NoFrame =>
                  /\ CutFrame(x) \in NoFrame \/ Len(CutFrame(x).buf) < Len(x.buf)
                  /\ Passing(CutFrame(x)) = Passing(x)
                  /\ \A p \in Seq(GRPCBytes) : /\ Buffer(x, p) \in GRPCScanners \ NoFrame
                                              /\ CutFrame(Buffer(x, p)) = Buffer(CutFrame(x), p)
  <2>1. x \in ScannersOf(GRPCBytes) /\ x.buf \in Seq(GRPCBytes) /\ x.overflow \in BOOLEAN
    BY ScannerIs DEF GRPCScanners
  <2>2. Len(x.buf) \in Nat /\ (Len(x.buf) >= 2 => x.buf[2] \in Nat)
    <3>1. Len(x.buf) \in Nat /\ \A i \in 1..Len(x.buf) : x.buf[i] \in GRPCBytes
      BY <2>1, LenProperties, ElementOfSeq
    <3> QED BY <3>1 DEF GRPCBytes
  <2>3. ASSUME NEW p \in Seq(GRPCBytes)
        PROVE  /\ Buffer(x, p) \in GRPCScanners /\ Buffer(x, p).overflow = x.overflow
               /\ Len(Buffer(x, p).buf) \in Nat /\ Len(Buffer(x, p).buf) >= Len(x.buf)
               /\ Len(x.buf) >= 2 => Buffer(x, p).buf[2] = x.buf[2]
    <3>1. Len(p) \in Nat
      BY LenProperties
    <3>2. /\ Buffer(x, p) \in ScannersOf(GRPCBytes)
          /\ Buffer(x, p) = [buf |-> x.buf \o p, out |-> x.out, wire |-> x.wire, overflow |-> x.overflow]
          /\ Len(Buffer(x, p).buf) = Len(x.buf) + Len(p)
          /\ \A i \in 1..Len(x.buf) : Buffer(x, p).buf[i] = x.buf[i]
      <4>1. x \in ScannersOf(GRPCBytes)
        BY <2>1
      <4> QED BY <4>1, BufferFacts
    <3>3. Len(x.buf) >= 2 => 2 \in 1..Len(x.buf)
      BY <2>2
    <3> QED BY <2>2, <3>1, <3>2, <3>3 DEF GRPCScanners
  <2>4. CASE x.overflow \/ Incomplete(x.buf)
    <3>1. x \in NoFrame
      BY <2>4 DEF NoFrame
    <3>2. CutFrame(x) = x
      BY <2>2, <2>4, MaxMessageIsNatural DEF CutFrame, Incomplete
    <3> QED BY <2>2, <3>1, <3>2
  <2>5. CASE ~x.overflow /\ ~Incomplete(x.buf)
    <3>1. x \notin NoFrame /\ Len(x.buf) >= 2 /\ Len(x.buf) # 0
      BY <2>2, <2>5 DEF NoFrame, Incomplete
    <3>2. CASE x.buf[2] > MaxMessage
      <4>1. PICK y : y = [buf |-> x.buf, out |-> x.out, wire |-> x.wire, overflow |-> TRUE]
        OBVIOUS
      <4>2. CutFrame(x) = y
        BY <2>2, <2>5, <3>1, <3>2, <4>1 DEF CutFrame
      <4>3. y \in GRPCScanners /\ y \in NoFrame /\ Passing(y) = Passing(x)
        <5>1. y \in GRPCScanners
          BY <2>1, <4>1, ScannerIs, IsScanner DEF GRPCScanners
        <5> QED BY <4>1, <5>1 DEF NoFrame, Passing
      <4>4. ASSUME NEW p \in Seq(GRPCBytes)
            PROVE  Buffer(x, p) \in GRPCScanners \ NoFrame /\ CutFrame(Buffer(x, p)) = Buffer(y, p)
        <5>1. PICK z : z = Buffer(x, p)
          OBVIOUS
        <5>2. /\ z \in GRPCScanners /\ ~z.overflow /\ Len(z.buf) \in Nat /\ Len(z.buf) >= 2
              /\ z.buf[2] = x.buf[2]
          BY <2>2, <2>3, <2>5, <3>1, <5>1
        <5>3. z \notin NoFrame
          BY <2>2, <3>1, <3>2, <5>2, MaxMessageIsNatural DEF NoFrame, Incomplete
        <5>4. CutFrame(z) = [buf |-> z.buf, out |-> z.out, wire |-> z.wire, overflow |-> TRUE]
          BY <3>2, <5>2 DEF CutFrame
        <5>5. Buffer(y, p) = [buf |-> x.buf \o p, out |-> x.out, wire |-> x.wire, overflow |-> TRUE]
          BY <4>1 DEF Buffer
        <5>6. z = [buf |-> x.buf \o p, out |-> x.out, wire |-> x.wire, overflow |-> x.overflow]
          BY <5>1 DEF Buffer
        <5> QED BY <5>1, <5>2, <5>3, <5>4, <5>5, <5>6
      <4> QED BY <2>2, <3>1, <4>2, <4>3, <4>4
    <3>3. CASE ~(x.buf[2] > MaxMessage)
      <4>1. PICK n : n = 2 + x.buf[2]
        OBVIOUS
      <4>2. n \in 1..Len(x.buf) /\ CutFrame(x) = CutOff(x, n)
        BY <2>2, <2>5, <3>1, <3>3, <4>1, MaxMessageIsNatural DEF CutFrame, Incomplete
      <4>3. /\ CutOff(x, n) \in GRPCScanners /\ Len(CutOff(x, n).buf) = Len(x.buf) - n
            /\ Passing(CutOff(x, n)) = Passing(x)
            /\ \A p \in Seq(GRPCBytes) : CutOff(Buffer(x, p), n) = Buffer(CutOff(x, n), p)
        BY <2>1, <4>2, CutOffFacts DEF GRPCScanners
      <4>4. ASSUME NEW p \in Seq(GRPCBytes)
            PROVE  Buffer(x, p) \in GRPCScanners \ NoFrame /\ CutFrame(Buffer(x, p)) = CutOff(Buffer(x, p), n)
        <5>1. PICK z : z = Buffer(x, p)
          OBVIOUS
        <5>2. /\ z \in GRPCScanners /\ ~z.overflow /\ Len(z.buf) \in Nat /\ Len(z.buf) >= Len(x.buf)
              /\ z.buf[2] = x.buf[2]
          BY <2>2, <2>3, <2>5, <3>1, <5>1
        <5>3. z \notin NoFrame
          BY <2>2, <3>1, <3>3, <4>1, <4>2, <5>2, MaxMessageIsNatural DEF NoFrame, Incomplete
        <5>4. CutFrame(z) = CutOff(z, n)
          BY <2>2, <3>1, <3>3, <4>1, <4>2, <5>2, MaxMessageIsNatural DEF CutFrame
        <5> QED BY <5>1, <5>2, <5>3, <5>4
      <4> QED BY <2>2, <3>1, <4>2, <4>3, <4>4
    <3> QED BY <3>2, <3>3
  <2> QED BY <2>1, <2>4, <2>5
<1>2. \A x \in GRPCScanners : FrameTaken[x] = CutFrame(x)
  BY DEF FrameTaken
<1>3. FrameTaken \in [GRPCScanners -> GRPCScanners]
  BY <1>1 DEF FrameTaken
<1>4. Sizes(GRPCBytes) \in [GRPCScanners -> Nat]
  BY <1>1 DEF Sizes, GRPCScanners
<1>5. ASSUME NEW x \in GRPCScanners, x \notin NoFrame, NEW p \in Seq(GRPCBytes)
      PROVE  Buffer(x, p) \notin NoFrame /\ FrameTaken[Buffer(x, p)] = Buffer(FrameTaken[x], p)
  BY <1>1, <1>2, <1>5
<1> QED BY <1>1, <1>2, <1>3, <1>4, <1>5

(* What is left by the loop of push, for gRPC.                                    *)
LEMMA FramesAreCut ==
  ASSUME NEW s \in GRPCScanners
  PROVE  CutFrames(s) \in GRPCScanners \cap NoFrame /\ Reaches(GRPCScanners, FrameTaken, NoFrame, s, CutFrames(s))
<1>1. PICK N : N = Len(s.buf)
  OBVIOUS
<1>2. N \in Nat /\ Sizes(GRPCBytes)[s] = N
  BY <1>1, ScannerIs, LenProperties DEF Sizes, GRPCScanners
<1> DEFINE Loop(f) == f = [n \in 0..N |-> IF n = 0 THEN s ELSE CutFrame(f[n - 1])]
<1>3. \E f : Loop(f)
  <2>1. PICK f \in [0..N -> GRPCScanners] : Rounds(f, FrameTaken, s, N)
    BY <1>2, FrameSteps, RoundsAreDefined
  <2>2. ASSUME NEW n \in 0..N PROVE f[n] = IF n = 0 THEN s ELSE CutFrame(f[n - 1])
    <3>1. f[n] = IF n = 0 THEN s ELSE FrameTaken[f[n - 1]]
      BY <2>1 DEF Rounds
    <3>2. CASE n # 0
      <4>1. n - 1 \in 0..N /\ f[n - 1] \in GRPCScanners
        BY <1>2, <3>2
      <4> QED BY <3>1, <3>2, <4>1 DEF FrameTaken
    <3> QED BY <3>1, <3>2
  <2>3. f = [n \in 0..N |-> f[n]]
    OBVIOUS
  <2>4. Loop(f)
    BY <2>2, <2>3
  <2> QED BY <2>4
<1>4. PICK F : F = CHOOSE f : Loop(f)
  OBVIOUS
<1>5. Loop(F)
  <2> HIDE DEF Loop
  <2> QED BY <1>3, <1>4
<1>6. CutFrames(s) = F[N]
  BY <1>1, <1>4 DEF CutFrames
<1>7. F[0] = s /\ \A n \in 1..N : F[n] = CutFrame(F[n - 1])
  BY <1>2, <1>5
<1> HIDE DEF Loop
<1>8. \A n \in 1..N : F[n - 1] \in GRPCScanners => F[n] = FrameTaken[F[n - 1]]
  BY <1>7 DEF FrameTaken
<1>9. \A x \in GRPCScanners : /\ Sizes(GRPCBytes)[x] = 0 => x \in NoFrame
                              /\ x \in NoFrame => FrameTaken[x] = x
                              /\ x \notin NoFrame => FrameTaken[x] \in NoFrame \/ Sizes(GRPCBytes)[FrameTaken[x]] < Sizes(GRPCBytes)[x]
  <2>1. \A x \in GRPCScanners : Sizes(GRPCBytes)[x] = Len(x.buf)
    BY DEF Sizes, GRPCScanners
  <2> QED BY <2>1, FrameSteps
<1>10. PICK size : size = Sizes(GRPCBytes)
  OBVIOUS
<1>11. FrameTaken \in [GRPCScanners -> GRPCScanners] /\ size \in [GRPCScanners -> Nat] /\ size[s] = N
  BY <1>2, <1>10, FrameSteps
<1>12. \A x \in GRPCScanners : /\ size[x] = 0 => x \in NoFrame
                               /\ x \in NoFrame => FrameTaken[x] = x
                               /\ x \notin NoFrame => FrameTaken[x] \in NoFrame \/ size[FrameTaken[x]] < size[x]
  BY <1>9, <1>10
<1>13. F[0] = s /\ \A n \in 1..size[s] : F[n - 1] \in GRPCScanners => F[n] = FrameTaken[F[n - 1]]
  BY <1>7, <1>8, <1>11
<1>14. F[size[s]] \in GRPCScanners \cap NoFrame /\ Reaches(GRPCScanners, FrameTaken, NoFrame, s, F[size[s]])
  <2>1. Loops(GRPCScanners, FrameTaken, NoFrame, size, s, F)
    BY <1>11, <1>12, <1>13 DEF Loops
  <2> QED BY <2>1, RoundsReach
<1> QED BY <1>6, <1>11, <1>14

-----------------------------------------------------------------------------
(* The peek at a head.                                                     *)

LEMMA MarksAre ==
  ASSUME NEW B, NEW d \in Seq(B)
  PROVE  /\ Occurrences(d, CRLFs) = {i \in 1..(Len(d) - 3) :
                                  d[i] = "r" /\ d[i + 1] = "n" /\ d[i + 2] = "r" /\ d[i + 3] = "n"}
         /\ Occurrences(d, LFs) = {i \in 1..(Len(d) - 1) : d[i] = "n" /\ d[i + 1] = "n"}
<1>1. Len(d) \in Nat
  BY LenProperties
<1>2. /\ Len(CRLFs) = 4 /\ DOMAIN CRLFs = {1, 2, 3, 4}
      /\ CRLFs[1] = "r" /\ CRLFs[2] = "n" /\ CRLFs[3] = "r" /\ CRLFs[4] = "n"
  BY DEF CRLFs
<1>3. Len(LFs) = 2 /\ DOMAIN LFs = {1, 2} /\ LFs[1] = "n" /\ LFs[2] = "n"
  BY DEF LFs
<1>4. ASSUME NEW i \in Int PROVE i + 1 - 1 = i /\ i + 2 - 1 = i + 1 /\ i + 3 - 1 = i + 2 /\ i + 4 - 1 = i + 3
  OBVIOUS
<1>5. Occurrences(d, CRLFs) = {i \in 1..(Len(d) - 3) : \A k \in {1, 2, 3, 4} : d[i + k - 1] = CRLFs[k]}
  BY <1>1, <1>2 DEF Occurrences
<1>6. Occurrences(d, LFs) = {i \in 1..(Len(d) - 1) : \A k \in {1, 2} : d[i + k - 1] = LFs[k]}
  BY <1>1, <1>3 DEF Occurrences
<1>7. ASSUME NEW i \in 1..(Len(d) - 3)
      PROVE  (\A k \in {1, 2, 3, 4} : d[i + k - 1] = CRLFs[k]) <=>
             (d[i] = "r" /\ d[i + 1] = "n" /\ d[i + 2] = "r" /\ d[i + 3] = "n")
  BY <1>1, <1>2, <1>4
<1>8. ASSUME NEW i \in 1..(Len(d) - 1)
      PROVE  (\A k \in {1, 2} : d[i + k - 1] = LFs[k]) <=> (d[i] = "n" /\ d[i + 1] = "n")
  BY <1>1, <1>3, <1>4
<1>9. Occurrences(d, CRLFs) = {i \in 1..(Len(d) - 3) :
                            d[i] = "r" /\ d[i + 1] = "n" /\ d[i + 2] = "r" /\ d[i + 3] = "n"}
  BY <1>5, <1>7
<1>10. Occurrences(d, LFs) = {i \in 1..(Len(d) - 1) : d[i] = "n" /\ d[i + 1] = "n"}
  BY <1>6, <1>8
<1> QED BY <1>9, <1>10

(* A head that was found is the head of whatever follows, and no more.     *)
LEMMA HeadStays ==
  ASSUME NEW B, NEW b \in Seq(B), NEW p \in Seq(B), CRLFOnly(b \o p), HeadEnd(b) # 0
  PROVE  /\ HeadEnd(b \o p) = HeadEnd(b)
         /\ SubSeq(b \o p, 1, HeadEnd(b)) = SubSeq(b, 1, HeadEnd(b))
         /\ Occurrences(SubSeq(b, 1, HeadEnd(b)), CRLFs) = {}
<1>1. PICK c : c = b \o p
  OBVIOUS
<1>2. /\ Len(b) \in Nat /\ Len(c) \in Nat /\ Len(c) >= Len(b) /\ c \in Seq(B) /\ DOMAIN c = 1..Len(c)
      /\ \A i \in 1..Len(b) : c[i] = b[i] /\ b[i] \in B
  <2>1. Len(p) \in Nat /\ Len(b) \in Nat /\ \A i \in 1..Len(b) : b[i] \in B
    BY LenProperties, ElementOfSeq
  <2>2. c \in Seq(B) /\ Len(c) = Len(b) + Len(p) /\ \A i \in 1..Len(b) : c[i] = b[i]
    BY <1>1, <2>1, ConcatProperties
  <2>3. DOMAIN c = 1..Len(c)
    BY <2>2, LenProperties
  <2> QED BY <2>1, <2>2, <2>3
<1>3. PICK found, later : found = Occurrences(b, CRLFs) /\ later = Occurrences(c, CRLFs)
  OBVIOUS
<1>4. /\ found = {i \in 1..(Len(b) - 3) : b[i] = "r" /\ b[i + 1] = "n" /\ b[i + 2] = "r" /\ b[i + 3] = "n"}
      /\ later = {i \in 1..(Len(c) - 3) : c[i] = "r" /\ c[i + 1] = "n" /\ c[i + 2] = "r" /\ c[i + 3] = "n"}
      /\ Occurrences(b, LFs) = {i \in 1..(Len(b) - 1) : b[i] = "n" /\ b[i + 1] = "n"}
  <2>1. Occurrences(b, CRLFs) = {i \in 1..(Len(b) - 3) :
                             b[i] = "r" /\ b[i + 1] = "n" /\ b[i + 2] = "r" /\ b[i + 3] = "n"}
    BY MarksAre
  <2>2. c \in Seq(B)
    BY <1>2
  <2>3. Occurrences(c, CRLFs) = {i \in 1..(Len(c) - 3) :
                             c[i] = "r" /\ c[i + 1] = "n" /\ c[i + 2] = "r" /\ c[i + 3] = "n"}
    BY <2>2, MarksAre
  <2>4. Occurrences(b, LFs) = {i \in 1..(Len(b) - 1) : b[i] = "n" /\ b[i + 1] = "n"}
    BY MarksAre
  <2> QED BY <1>3, <2>1, <2>3, <2>4
<1>5. Occurrences(b, LFs) = {}
  <2>1. SUFFICES ASSUME NEW i \in 1..(Len(b) - 1), b[i] = "n", b[i + 1] = "n" PROVE FALSE
    BY <1>4
  <2>2. i \in 1..Len(b) /\ i + 1 \in 1..Len(b) /\ i + 1 \in DOMAIN c /\ (i + 1) - 1 = i
    BY <1>2
  <2>3. c[i + 1] = "n" => c[(i + 1) - 1] = "r"
    BY <1>1, <2>2 DEF CRLFOnly
  <2> QED BY <1>2, <2>1, <2>2, <2>3
<1>6. found # {} /\ HeadEnd(b) = Min(found) + 1
  BY <1>3, <1>5 DEF HeadEnd
<1>7. \A i \in Nat : i + 3 <= Len(b) => (i \in found <=> i \in later)
  <2>1. ASSUME NEW i \in Nat, i + 3 <= Len(b), i > 0 PROVE i \in found <=> i \in later
    <3>1. /\ i \in 1..(Len(b) - 3) /\ i \in 1..(Len(c) - 3)
          /\ i \in 1..Len(b) /\ i + 1 \in 1..Len(b) /\ i + 2 \in 1..Len(b) /\ i + 3 \in 1..Len(b)
      BY <1>2, <2>1
    <3> QED BY <1>2, <1>4, <3>1
  <2>2. 0 \notin found /\ 0 \notin later
    BY <1>2, <1>4
  <2> QED BY <2>1, <2>2
<1>8. PICK m : m = Min(found)
  OBVIOUS
<1>9. m \in found /\ m \in Nat /\ m > 0 /\ m + 3 <= Len(b) /\ \A y \in found : m <= y
  <2>1. found \in SUBSET Nat
    BY <1>2, <1>4
  <2>2. m \in found /\ \A y \in found : m <= y
    BY <1>6, <1>8, <2>1, LeastIn
  <2> QED BY <1>2, <1>4, <2>2
<1>10. Min(later) = m /\ later # {}
  <2>1. later \in SUBSET Nat /\ m \in later
    BY <1>2, <1>4, <1>7, <1>9
  <2>2. PICK k : k = Min(later)
    OBVIOUS
  <2>3. k \in later /\ k \in Nat /\ k <= m
    BY <2>1, <2>2, LeastIn
  <2>4. k \in found
    BY <1>2, <1>7, <1>9, <2>3
  <2>5. m <= k
    BY <1>9, <2>4
  <2> QED BY <1>9, <2>1, <2>2, <2>3, <2>5
<1>11. HeadEnd(c) = m + 1
  BY <1>3, <1>10 DEF HeadEnd
<1>12. SubSeq(c, 1, m + 1) = SubSeq(b, 1, m + 1)
  <2>1. 1 \in 1..Len(b) /\ m + 1 \in 1..Len(b)
    BY <1>2, <1>9
  <2> QED BY <1>1, <2>1, SubSeqOfConcat1
<1>13. Occurrences(SubSeq(b, 1, m + 1), CRLFs) = {}
  <2>1. PICK h : h = SubSeq(b, 1, m + 1)
    OBVIOUS
  <2>2. h \in Seq(B) /\ Len(h) = m + 1 /\ \A i \in 1..(m + 1) : h[i] = b[i]
    <3>1. \A i \in 1..(m + 1) : b[i] \in B
      BY <1>2, <1>9
    <3>2. /\ h \in Seq(B) /\ Len(h) = (IF 1 <= m + 1 THEN m + 1 - 1 + 1 ELSE 0)
          /\ \A i \in 1..(m + 1) - 1 + 1 : h[i] = b[1 + i - 1]
      BY <1>9, <2>1, <3>1, SubSeqProperties
    <3> QED BY <1>9, <3>2
  <2>3. Occurrences(h, CRLFs) = {i \in 1..(Len(h) - 3) : h[i] = "r" /\ h[i + 1] = "n" /\ h[i + 2] = "r" /\ h[i + 3] = "n"}
    BY <2>2, MarksAre
  <2>4. SUFFICES ASSUME NEW i \in Occurrences(h, CRLFs) PROVE FALSE
    BY <2>1
  <2>5. /\ i \in Nat /\ i > 0 /\ i + 3 <= m + 1
        /\ h[i] = "r" /\ h[i + 1] = "n" /\ h[i + 2] = "r" /\ h[i + 3] = "n"
    BY <1>9, <2>2, <2>3, <2>4
  <2>6. i \in 1..(Len(b) - 3) /\ b[i] = "r" /\ b[i + 1] = "n" /\ b[i + 2] = "r" /\ b[i + 3] = "n"
    <3>1. i \in 1..(m + 1) /\ i + 1 \in 1..(m + 1) /\ i + 2 \in 1..(m + 1) /\ i + 3 \in 1..(m + 1)
      BY <1>9, <2>5
    <3>2. h[i] = b[i] /\ h[i + 1] = b[i + 1] /\ h[i + 2] = b[i + 2] /\ h[i + 3] = b[i + 3]
      BY <2>2, <3>1
    <3> QED BY <1>2, <1>9, <2>5, <3>2
  <2>7. i \in found
    BY <1>4, <2>6
  <2> QED BY <1>9, <2>5, <2>7
<1> QED BY <1>1, <1>6, <1>8, <1>11, <1>12, <1>13

-----------------------------------------------------------------------------
(* The scanners' invariant: in an event stream the scanner is what the     *)
(* loop reaches with the whole stream in the buffer; in a gRPC stream too, *)
(* but that a scanner that gave up has written the rest on; a head is the  *)
(* head of all that was read.                                              *)
SSEReached(t) ==
  /\ stream \in Seq(SSEBytes) /\ t \in SSEScanners \cap NoEvent
  /\ Reaches(SSEScanners, EventTaken, NoEvent, Buffer(NewScanner, stream), t)

GRPCReached(t) ==
  /\ stream \in Seq(GRPCBytes) /\ t \in GRPCScanners \cap NoFrame
  /\ Reaches(GRPCScanners, FrameTaken, NoFrame, Buffer(NewScanner, stream), t)

HeadPeeked ==
  /\ stream \in Seq(SSEBytes) /\ scanner.buf = stream /\ scanner.wire = <<>>
  /\ CRLFOnly(stream) => scanner = PeekHead(NewScanner, stream)

ScanInv ==
  /\ format \in {"sse", "grpc", "head", "over"}
  /\ format = "sse"  => SSEReached(scanner)
  /\ format = "grpc" => \E t \in GRPCScanners : GRPCReached(t) /\ scanner = IF t.overflow THEN Flush(t) ELSE t
  /\ format = "head" => HeadPeeked
  /\ format = "over" => (stream \in Seq(SSEBytes) \/ stream \in Seq(GRPCBytes)) /\ scanner.wire = stream /\ scanner.buf = <<>>

(* Nothing is lost on the way to the invariant's scanners.                 *)
LEMMA EventsPass ==
  ASSUME NEW t, SSEReached(t)
  PROVE  Passing(t) = stream
<1>1. stream \in Seq(SSEBytes) /\ Reaches(ScannersOf(SSEBytes), EventTaken, NoEvent, Buffer(NewScanner, stream), t)
  BY DEF SSEReached, SSEScanners
<1>2. Buffer(NewScanner, stream) \in ScannersOf(SSEBytes) /\ Passing(Buffer(NewScanner, stream)) = stream
  BY <1>1, NewScannerIs
<1>3. /\ EventTaken \in [ScannersOf(SSEBytes) -> ScannersOf(SSEBytes)]
      /\ \A x \in ScannersOf(SSEBytes) \ NoEvent : Passing(EventTaken[x]) = Passing(x)
  BY EventSteps DEF SSEScanners
<1> QED BY <1>1, <1>2, <1>3, PassingStays

LEMMA FramesPass ==
  ASSUME NEW t, GRPCReached(t)
  PROVE  Passing(t) = stream
<1>1. stream \in Seq(GRPCBytes) /\ Reaches(ScannersOf(GRPCBytes), FrameTaken, NoFrame, Buffer(NewScanner, stream), t)
  BY DEF GRPCReached, GRPCScanners
<1>2. Buffer(NewScanner, stream) \in ScannersOf(GRPCBytes) /\ Passing(Buffer(NewScanner, stream)) = stream
  BY <1>1, NewScannerIs
<1>3. /\ FrameTaken \in [ScannersOf(GRPCBytes) -> ScannersOf(GRPCBytes)]
      /\ \A x \in ScannersOf(GRPCBytes) \ NoFrame : Passing(FrameTaken[x]) = Passing(x)
  BY FrameSteps DEF GRPCScanners
<1> QED BY <1>1, <1>2, <1>3, PassingStays

(* Flush passes the buffer on.                                             *)
LEMMA FlushPasses ==
  ASSUME NEW B, NEW t \in ScannersOf(B)
  PROVE  Flush(t).wire = Passing(t) /\ Flush(t).buf = <<>> /\ Passing(Flush(t)) = Passing(t)
<1>1. t.wire \o t.buf \in Seq(B)
  BY ScannerIs, ConcatProperties
<1>2. (t.wire \o t.buf) \o <<>> = t.wire \o t.buf
  BY <1>1, ConcatEmptySeq
<1> QED BY <1>2 DEF Flush, Passing

LEMMA ScanInitHolds == ScanInit => ScanInv
<1> SUFFICES ASSUME ScanInit PROVE ScanInv
  OBVIOUS
<1>1. stream = <<>> /\ scanner = NewScanner /\ format \in {"sse", "grpc", "head"}
  BY DEF ScanInit
<1>2. /\ <<>> \in Seq(SSEBytes) /\ <<>> \in Seq(GRPCBytes)
      /\ Len(<<>>) = 0
  BY EmptySeq
<1>3. \A B : NewScanner \in ScannersOf(B) /\ Buffer(NewScanner, <<>>) = NewScanner
  BY EmptySeq, NewScannerIs
<1>4. NewScanner.buf = <<>> /\ NewScanner.wire = <<>> /\ NewScanner.overflow = FALSE
  BY DEF NewScanner
<1>5. CASE format = "sse"
  <2>1. NewScanner \in SSEScanners /\ NewScanner \in NoEvent
    BY <1>2, <1>3, <1>4, EventSteps DEF SSEScanners
  <2> QED BY <1>1, <1>2, <1>3, <1>5, <2>1 DEF ScanInv, SSEReached, Reaches
<1>6. CASE format = "grpc"
  <2>1. NewScanner \in GRPCScanners /\ NewScanner \in NoFrame
    BY <1>2, <1>3, <1>4, FrameSteps DEF GRPCScanners
  <2>2. GRPCReached(NewScanner)
    BY <1>1, <1>2, <1>3, <2>1 DEF GRPCReached, Reaches
  <2> QED BY <1>1, <1>4, <1>6, <2>1, <2>2 DEF ScanInv
<1>7. CASE format = "head"
  <2>1. PeekHead(NewScanner, <<>>) = NewScanner
    <3>1. <<>> \o <<>> = <<>>
      BY <1>2, ConcatEmptySeq
    <3>2. Occurrences(<<>>, CRLFs) = {} /\ Occurrences(<<>>, LFs) = {}
      <4>1. PICK e \in Seq(SSEBytes) : e = <<>>
        BY <1>2
      <4>2. 1..(Len(e) - 3) = {} /\ 1..(Len(e) - 1) = {}
        BY <1>2, <4>1
      <4>3. Occurrences(e, CRLFs) = {} /\ Occurrences(e, LFs) = {}
        BY <4>2, MarksAre
      <4> QED BY <4>1, <4>3
    <3>3. HeadEnd(<<>>) = 0
      BY <3>2 DEF HeadEnd
    <3> QED BY <3>1, <3>3 DEF PeekHead, NewScanner
  <2> QED BY <1>1, <1>2, <1>4, <1>7, <2>1 DEF ScanInv, HeadPeeked
<1> QED BY <1>1, <1>5, <1>6, <1>7

LEMMA ReadSSEKeeps ==
  ASSUME ScanInv, NEW p \in SSEReads, ReadSSE(p)
  PROVE  ScanInv'
<1>1. /\ format = "sse" /\ format' = "sse" /\ stream' = stream \o p /\ scanner' = CutEvents(Buffer(scanner, p))
      /\ p \in Seq(SSEBytes) /\ SSEReached(scanner)
  BY ReadsAreBytes DEF ReadSSE, PushSSE, ScanInv
<1>2. /\ stream \in Seq(SSEBytes) /\ scanner \in SSEScanners
      /\ Reaches(SSEScanners, EventTaken, NoEvent, Buffer(NewScanner, stream), scanner)
  BY <1>1 DEF SSEReached
<1>3. stream \o p \in Seq(SSEBytes)
  BY <1>1, <1>2, ConcatProperties
<1>4. Buffer(scanner, p) \in SSEScanners /\ NewScanner \in SSEScanners
  BY <1>1, <1>2, BufferFacts, NewScannerIs DEF SSEScanners
<1>5. PICK u : u = CutEvents(Buffer(scanner, p))
  OBVIOUS
<1>6. u \in SSEScanners \cap NoEvent /\ Reaches(SSEScanners, EventTaken, NoEvent, Buffer(scanner, p), u)
  BY <1>4, <1>5, EventsAreCut
<1>7. Reaches(SSEScanners, EventTaken, NoEvent, Buffer(NewScanner, stream \o p), u)
  <2>1. Stable(SSEBytes, EventTaken, NoEvent)
    BY EventSteps DEF Stable, SSEScanners
  <2>2. /\ NewScanner \in ScannersOf(SSEBytes) /\ scanner \in ScannersOf(SSEBytes)
        /\ Reaches(ScannersOf(SSEBytes), EventTaken, NoEvent, Buffer(NewScanner, stream), scanner)
        /\ Reaches(ScannersOf(SSEBytes), EventTaken, NoEvent, Buffer(scanner, p), u)
    BY <1>2, <1>4, <1>6 DEF SSEScanners
  <2>3. Reaches(ScannersOf(SSEBytes), EventTaken, NoEvent, Buffer(NewScanner, stream \o p), u)
    BY <1>1, <1>2, <2>1, <2>2, ReadOn
  <2> QED BY <2>3 DEF SSEScanners
<1>8. SSEReached(scanner)'
  <2>1. (stream \in Seq(SSEBytes))' /\ scanner' = u
    BY <1>1, <1>3, <1>5
  <2> QED BY <1>1, <1>6, <1>7, <2>1 DEF SSEReached
<1> QED BY <1>1, <1>8 DEF ScanInv

LEMMA ReadGRPCKeeps ==
  ASSUME ScanInv, NEW p \in GRPCReads, ReadGRPC(p)
  PROVE  ScanInv'
<1>1. /\ format = "grpc" /\ format' = "grpc" /\ stream' = stream \o p /\ scanner' = PushGRPC(scanner, p)
      /\ p \in Seq(GRPCBytes)
  BY ReadsAreBytes DEF ReadGRPC
<1>2. PICK t \in GRPCScanners : GRPCReached(t) /\ scanner = IF t.overflow THEN Flush(t) ELSE t
  BY <1>1 DEF ScanInv
<1>3. /\ stream \in Seq(GRPCBytes) /\ t \in GRPCScanners /\ t \in ScannersOf(GRPCBytes) /\ t \in NoFrame
      /\ Reaches(GRPCScanners, FrameTaken, NoFrame, Buffer(NewScanner, stream), t)
  BY <1>2 DEF GRPCReached, GRPCScanners
<1>4. stream \o p \in Seq(GRPCBytes)
  BY <1>1, <1>3, ConcatProperties
<1>5. Buffer(t, p) \in GRPCScanners /\ NewScanner \in GRPCScanners /\ Buffer(t, p).overflow = t.overflow
  <2>1. Buffer(t, p) \in ScannersOf(GRPCBytes) /\ NewScanner \in ScannersOf(GRPCBytes)
    BY <1>1, <1>3, BufferFacts, NewScannerIs
  <2>2. Buffer(t, p).overflow = t.overflow
    BY DEF Buffer
  <2> QED BY <2>1, <2>2 DEF GRPCScanners
<1>6. PICK u : u = CutFrames(Buffer(t, p))
  OBVIOUS
<1>7. u \in GRPCScanners \cap NoFrame /\ Reaches(GRPCScanners, FrameTaken, NoFrame, Buffer(t, p), u)
  BY <1>5, <1>6, FramesAreCut
<1>8. Reaches(GRPCScanners, FrameTaken, NoFrame, Buffer(NewScanner, stream \o p), u)
  <2>1. Stable(GRPCBytes, FrameTaken, NoFrame)
    BY FrameSteps DEF Stable, GRPCScanners
  <2>2. /\ NewScanner \in ScannersOf(GRPCBytes) /\ t \in ScannersOf(GRPCBytes)
        /\ Reaches(ScannersOf(GRPCBytes), FrameTaken, NoFrame, Buffer(NewScanner, stream), t)
        /\ Reaches(ScannersOf(GRPCBytes), FrameTaken, NoFrame, Buffer(t, p), u)
    BY <1>3, <1>5, <1>7 DEF GRPCScanners
  <2>3. Reaches(ScannersOf(GRPCBytes), FrameTaken, NoFrame, Buffer(NewScanner, stream \o p), u)
    BY <1>1, <1>3, <2>1, <2>2, ReadOn
  <2> QED BY <2>3 DEF GRPCScanners
<1>9. scanner' = IF u.overflow THEN Flush(u) ELSE u
  <2>1. CASE ~t.overflow
    <3>1. scanner = t
      BY <1>2, <2>1
    <3> QED BY <1>1, <1>6, <3>1 DEF PushGRPC
  <2>2. CASE t.overflow
    <3>1. u = Buffer(t, p) /\ u.overflow
      <4>1. Buffer(t, p) \in GRPCScanners \cap NoFrame
        BY <1>5, <2>2 DEF NoFrame
      <4>2. Reaches(GRPCScanners, FrameTaken, NoFrame, Buffer(t, p), Buffer(t, p))
        BY DEF Reaches
      <4>3. u = Buffer(t, p)
        BY <1>7, <4>1, <4>2, FrameSteps, ReachesOnce
      <4> QED BY <1>5, <2>2, <4>3
    <3>2. PICK z : z = Buffer(scanner, p)
      OBVIOUS
    <3>3. z = [buf |-> <<>> \o p, out |-> t.out, wire |-> t.wire \o t.buf, overflow |-> t.overflow]
      BY <1>2, <2>2, <3>2 DEF Buffer, Flush
    <3>4. z \in GRPCScanners /\ z.overflow /\ z.buf = p
      <4>1. <<>> \o p = p
        BY <1>1, ConcatEmptySeq
      <4>2. t.wire \o t.buf \in Seq(GRPCBytes) /\ t.out \in Seq(Seq(GRPCBytes)) /\ t.overflow \in BOOLEAN
        BY <1>3, ScannerIs, ConcatProperties
      <4>3. z \in ScannersOf(GRPCBytes)
        BY <1>1, <3>3, <4>1, <4>2, IsScanner
      <4> QED BY <2>2, <3>3, <4>1, <4>3 DEF GRPCScanners
    <3>5. CutFrames(z) = z
      <4>1. CutFrames(z) \in GRPCScanners \cap NoFrame /\ Reaches(GRPCScanners, FrameTaken, NoFrame, z, CutFrames(z))
        BY <3>4, FramesAreCut
      <4>2. z \in GRPCScanners \cap NoFrame /\ Reaches(GRPCScanners, FrameTaken, NoFrame, z, z)
        BY <3>4 DEF NoFrame, Reaches
      <4> QED BY <4>1, <4>2, FrameSteps, ReachesOnce
    <3>6. scanner' = Flush(z)
      BY <1>1, <3>2, <3>4, <3>5 DEF PushGRPC
    <3>7. Flush(z) = [buf |-> <<>>, out |-> t.out, wire |-> (t.wire \o t.buf) \o p, overflow |-> t.overflow]
      BY <3>3, <3>4 DEF Flush
    <3>8. Flush(u) = [buf |-> <<>>, out |-> t.out, wire |-> t.wire \o (t.buf \o p), overflow |-> t.overflow]
      BY <3>1 DEF Flush, Buffer
    <3>9. (t.wire \o t.buf) \o p = t.wire \o (t.buf \o p)
      <4>1. t.wire \in Seq(GRPCBytes) /\ t.buf \in Seq(GRPCBytes) /\ p \in Seq(GRPCBytes)
        BY <1>1, <1>3, ScannerIs
      <4>2. PICK a, b, c : a = t.wire /\ b = t.buf /\ c = p
        OBVIOUS
      <4>3. a \in Seq(GRPCBytes) /\ b \in Seq(GRPCBytes) /\ c \in Seq(GRPCBytes)
        BY <4>1, <4>2
      <4>4. (a \o b) \o c = a \o (b \o c)
        BY <4>3, ConcatAssociative
      <4> QED BY <4>2, <4>4
    <3> QED BY <3>1, <3>6, <3>7, <3>8, <3>9
  <2> QED BY <2>1, <2>2
<1>10. GRPCReached(u)'
  <2>1. stream' = stream \o p /\ u \in GRPCScanners \cap NoFrame
    BY <1>1, <1>7
  <2> QED BY <1>4, <1>8, <2>1 DEF GRPCReached
<1> QED BY <1>1, <1>7, <1>9, <1>10 DEF ScanInv

LEMMA ReadOfHeadKeeps ==
  ASSUME ScanInv, NEW p \in SSEReads, ReadOfHead(p)
  PROVE  ScanInv'
<1>1. /\ format = "head" /\ format' = "head" /\ stream' = stream \o p /\ scanner' = PeekHead(scanner, p)
      /\ p \in Seq(SSEBytes) /\ stream \in Seq(SSEBytes) /\ scanner.buf = stream /\ scanner.wire = <<>>
      /\ CRLFOnly(stream) => scanner = PeekHead(NewScanner, stream)
  BY ReadsAreBytes DEF ReadOfHead, ScanInv, HeadPeeked
<1>2. stream \o p \in Seq(SSEBytes)
  BY <1>1, ConcatProperties
<1>3. scanner'.buf = stream \o p /\ scanner'.wire = <<>>
  BY <1>1 DEF PeekHead
<1>4. ASSUME CRLFOnly(stream \o p) PROVE PeekHead(scanner, p) = PeekHead(NewScanner, stream \o p)
  <2>1. CRLFOnly(stream)
    <3>1. Len(stream) \in Nat /\ Len(p) \in Nat /\ DOMAIN stream = 1..Len(stream)
      BY <1>1, LenProperties
    <3>2. /\ DOMAIN (stream \o p) = 1..(Len(stream) + Len(p))
          /\ \A i \in 1..Len(stream) : (stream \o p)[i] = stream[i]
      BY <1>1, <1>2, <3>1, ConcatProperties, LenProperties
    <3>3. ASSUME NEW i \in DOMAIN stream, stream[i] = "n" PROVE i > 1 /\ stream[i - 1] = "r"
      <4>1. i \in DOMAIN (stream \o p) /\ (stream \o p)[i] = "n" /\ i \in Nat /\ i <= Len(stream)
        BY <3>1, <3>2, <3>3
      <4>2. i > 1 /\ (stream \o p)[i - 1] = "r"
        BY <1>4, <4>1 DEF CRLFOnly
      <4>3. i - 1 \in 1..Len(stream)
        BY <3>1, <4>1, <4>2
      <4> QED BY <3>2, <4>2, <4>3
    <3> QED BY <3>3 DEF CRLFOnly
  <2>2. scanner = PeekHead(NewScanner, stream)
    BY <1>1, <2>1
  <2>3. <<>> \o stream = stream /\ <<>> \o (stream \o p) = stream \o p
    BY <1>1, <1>2, ConcatEmptySeq
  <2>4. \A b : NewScanner.buf \o b = <<>> \o b /\ NewScanner.out = <<>> /\ NewScanner.wire = <<>> /\ NewScanner.overflow = FALSE
    BY DEF NewScanner
  <2>5. /\ scanner = [buf |-> stream, out |-> IF HeadEnd(stream) # 0 THEN <<SubSeq(stream, 1, HeadEnd(stream))>> ELSE <<>>,
                      wire |-> <<>>, overflow |-> FALSE]
    BY <2>2, <2>3, <2>4 DEF PeekHead
  <2>6. PICK c, n : c = stream \o p /\ n = HeadEnd(stream)
    OBVIOUS
  <2>7. PeekHead(NewScanner, c) =
          [buf |-> c, out |-> IF HeadEnd(c) # 0 THEN <<SubSeq(c, 1, HeadEnd(c))>> ELSE <<>>,
           wire |-> <<>>, overflow |-> FALSE]
    BY <2>3, <2>4, <2>6 DEF PeekHead
  <2>8. PeekHead(scanner, p) =
          [buf |-> c, out |-> IF scanner.out = <<>> /\ HeadEnd(c) # 0 THEN <<SubSeq(c, 1, HeadEnd(c))>> ELSE scanner.out,
           wire |-> <<>>, overflow |-> FALSE]
    BY <2>5, <2>6 DEF PeekHead
  <2>9. CASE n = 0
    <3>1. scanner.out = <<>>
      BY <2>5, <2>6, <2>9
    <3> QED BY <2>6, <2>7, <2>8, <3>1
  <2>10. CASE n # 0
    <3>1. scanner.out = <<SubSeq(stream, 1, n)>> /\ scanner.out # <<>>
      BY <2>5, <2>6, <2>10
    <3>2. HeadEnd(c) = n /\ SubSeq(c, 1, n) = SubSeq(stream, 1, n)
      BY <1>1, <1>4, <2>6, <2>10, HeadStays
    <3> QED BY <2>6, <2>7, <2>8, <2>10, <3>1, <3>2
  <2> QED BY <2>9, <2>10
<1>5. HeadPeeked'
  BY <1>1, <1>2, <1>3, <1>4 DEF HeadPeeked
<1> QED BY <1>1, <1>5 DEF ScanInv

LEMMA StreamOverKeeps ==
  ASSUME ScanInv, StreamOver
  PROVE  ScanInv'
<1>1. format' = "over" /\ scanner' = Flush(scanner) /\ stream' = stream
  BY DEF StreamOver
<1>2. CASE format = "sse"
  <2>1. SSEReached(scanner)
    BY <1>2 DEF ScanInv
  <2>2. scanner \in ScannersOf(SSEBytes) /\ stream \in Seq(SSEBytes) /\ Passing(scanner) = stream
    BY <2>1, EventsPass DEF SSEReached, SSEScanners
  <2>3. Flush(scanner).wire = stream /\ Flush(scanner).buf = <<>>
    BY <2>2, FlushPasses
  <2> QED BY <1>1, <2>2, <2>3 DEF ScanInv
<1>3. CASE format = "grpc"
  <2>1. PICK t \in GRPCScanners : GRPCReached(t) /\ scanner = IF t.overflow THEN Flush(t) ELSE t
    BY <1>3 DEF ScanInv
  <2>2. t \in ScannersOf(GRPCBytes) /\ stream \in Seq(GRPCBytes) /\ Passing(t) = stream
    BY <2>1, FramesPass DEF GRPCReached, GRPCScanners
  <2>3. Flush(t).wire = stream /\ Flush(t).buf = <<>> /\ Passing(Flush(t)) = stream
    BY <2>2, FlushPasses
  <2>4. Flush(scanner).wire = stream /\ Flush(scanner).buf = <<>>
    <3>1. Passing(scanner) = stream
      BY <2>1, <2>2, <2>3
    <3> QED BY <3>1 DEF Flush, Passing
  <2> QED BY <1>1, <2>2, <2>4 DEF ScanInv
<1> QED BY <1>2, <1>3 DEF StreamOver

LEMMA ScanNextKeeps ==
  ASSUME ScanInv, [ScanNext]_scanVars
  PROVE  ScanInv'
<1>1. CASE UNCHANGED scanVars
  BY <1>1 DEF ScanInv, SSEReached, GRPCReached, HeadPeeked, scanVars
<1>2. CASE ScanNext
  BY <1>2, ReadSSEKeeps, ReadGRPCKeeps, ReadOfHeadKeeps, StreamOverKeeps DEF ScanNext
<1> QED BY <1>1, <1>2

LEMMA ScanInvShows ==
  ASSUME ScanInv
  PROVE  ReadsDoNotMatter
<1>1. CASE format = "sse"
  <2>1. SSEReached(scanner) /\ stream \in Seq(SSEBytes)
    BY <1>1 DEF ScanInv, SSEReached
  <2>2. scanner.wire \o scanner.buf = stream
    BY <2>1, EventsPass DEF Passing
  <2>3. Buffer(NewScanner, stream) \in SSEScanners
    BY <2>1, NewScannerIs DEF SSEScanners
  <2>4. scanner = CutEvents(Buffer(NewScanner, stream))
    BY <2>1, <2>3, EventsAreCut, EventSteps, ReachesOnce DEF SSEReached
  <2> QED BY <1>1, <2>2, <2>4 DEF ReadsDoNotMatter, PushSSE
<1>2. CASE format = "grpc"
  <2>1. PICK t \in GRPCScanners : GRPCReached(t) /\ scanner = IF t.overflow THEN Flush(t) ELSE t
    BY <1>2 DEF ScanInv
  <2>2. stream \in Seq(GRPCBytes) /\ t \in ScannersOf(GRPCBytes)
    BY <2>1 DEF GRPCReached, GRPCScanners
  <2>3. Passing(scanner) = stream
    BY <2>1, <2>2, FramesPass, FlushPasses
  <2>4. Buffer(NewScanner, stream) \in GRPCScanners
    BY <2>2, NewScannerIs DEF GRPCScanners
  <2>5. t = CutFrames(Buffer(NewScanner, stream))
    BY <2>1, <2>4, FramesAreCut, FrameSteps, ReachesOnce DEF GRPCReached
  <2> QED BY <1>2, <2>1, <2>3, <2>5 DEF ReadsDoNotMatter, PushGRPC, Passing
<1>3. CASE format = "head"
  <2>1. /\ stream \in Seq(SSEBytes) /\ scanner.buf = stream /\ scanner.wire = <<>>
        /\ CRLFOnly(stream) => scanner = PeekHead(NewScanner, stream)
    BY <1>3 DEF ScanInv, HeadPeeked
  <2>2. <<>> \o stream = stream /\ stream \o <<>> = stream /\ <<>> \in Seq(SSEBytes)
    BY <2>1, ConcatEmptySeq, EmptySeq
  <2>3. ASSUME CRLFOnly(stream), NEW i \in DOMAIN scanner.out
        PROVE  Occurrences(scanner.out[i], CRLFs) = {}
    <3>1. PICK n : n = HeadEnd(stream)
      OBVIOUS
    <3>2. scanner.out = IF n # 0 THEN <<SubSeq(stream, 1, n)>> ELSE <<>>
      BY <2>1, <2>2, <2>3, <3>1 DEF PeekHead, NewScanner
    <3>3. n # 0 /\ scanner.out[i] = SubSeq(stream, 1, n)
      BY <2>3, <3>2
    <3> QED BY <2>1, <2>2, <2>3, <3>1, <3>3, HeadStays
  <2> QED BY <1>3, <2>1, <2>2, <2>3 DEF ReadsDoNotMatter
<1>4. CASE format = "over"
  <2>1. (stream \in Seq(SSEBytes) \/ stream \in Seq(GRPCBytes)) /\ scanner.wire = stream /\ scanner.buf = <<>>
    BY <1>4 DEF ScanInv
  <2>2. stream \o <<>> = stream
    BY <2>1, ConcatEmptySeq
  <2> QED BY <1>4, <2>1, <2>2 DEF ReadsDoNotMatter
<1> QED BY <1>1, <1>2, <1>3, <1>4 DEF ScanInv

(* However the network cuts a stream into reads, of any length and number, *)
(* the scanners return what they would return for the stream read at once, *)
(* and every byte goes on, once and in its place (streaming.go:108); the   *)
(* head of a message is found as well (readorder.go:40).                   *)
THEOREM ReadsNeverMatter == ScanSpec => []ReadsDoNotMatter
<1>1. ScanInit => ScanInv
  BY ScanInitHolds
<1>2. ScanInv /\ [ScanNext]_scanVars => ScanInv'
  BY ScanNextKeeps
<1>3. ScanInv => ReadsDoNotMatter
  BY ScanInvShows
<1> QED BY <1>1, <1>2, <1>3, PTL DEF ScanSpec

-----------------------------------------------------------------------------
(* Messages on the wire (Framing, Fidelity).  The values of lines are      *)
(* collected line by line; while lines are replayed, the values sent and   *)
(* those left make up the table; what is left is added name by name.       *)

(* One line more.                                                           *)
ValueStep(values, name, ln) == IF ln.name = name THEN Append(values, ln.value) ELSE values

HeadStep(out, heading, n) == IF n = 1 THEN out ELSE WithLine(out, heading[n])

(* The values of a name are collected line by line.                           *)
ValuesUpTo(lines, name, g) ==
  g[0] = <<>> /\ \A n \in 1..Len(lines) : g[n] = ValueStep(g[n - 1], name, lines[n])

(* The values of a name are collected line by line.                        *)
LEMMA ValuesInOrder ==
  ASSUME NEW S, NEW lines \in Seq(S), NEW name
  PROVE  \E g : ValuesUpTo(lines, name, g) /\ Values(lines, name) = g[Len(lines)]
<1> DEFINE Rec(g, m) == g = [n \in 0..m |-> IF n = 0 THEN <<>> ELSE ValueStep(g[n - 1], name, lines[n])]
           D == {m \in Nat : \E g : Rec(g, m)}
<1>1. 0 \in D
  <2>1. Rec([n \in 0..0 |-> <<>>], 0)
    OBVIOUS
  <2> QED BY <2>1
<1>2. ASSUME NEW m \in D PROVE m + 1 \in D
  <2>1. PICK g : Rec(g, m)
    OBVIOUS
  <2> DEFINE h == [n \in 0..(m + 1) |-> IF n = m + 1 THEN ValueStep(g[m], name, lines[m + 1]) ELSE g[n]]
  <2>2. ASSUME NEW n \in 0..(m + 1), n # 0
        PROVE  h[n] = ValueStep(h[n - 1], name, lines[n])
    <3>1. n - 1 \in 0..m /\ m \in Nat
      BY <2>2
    <3>2. h[n - 1] = g[n - 1]
      BY <3>1
    <3>3. CASE n = m + 1
      BY <3>2, <3>3
    <3>4. CASE n # m + 1
      BY <2>1, <2>2, <3>2, <3>4
    <3> QED BY <3>3, <3>4
  <2>3. h[0] = <<>>
    BY <2>1
  <2>4. h = [n \in 0..(m + 1) |-> h[n]]
    OBVIOUS
  <2> HIDE DEF h
  <2>5. Rec(h, m + 1)
    BY <2>2, <2>3, <2>4
  <2> QED BY <2>5
<1> HIDE DEF D
<1>3. D = Nat
  BY <1>1, <1>2, SetInduction DEF D
<1>4. Len(lines) \in Nat
  BY LenProperties
<1> DEFINE F == CHOOSE g : Rec(g, Len(lines))
<1>5. Rec(F, Len(lines))
  BY <1>3, <1>4 DEF D
<1>6. Values(lines, name) = F[Len(lines)]
  BY DEF Values, ValueStep
<1> HIDE DEF F
<1>7. ValuesUpTo(lines, name, F)
  BY <1>4, <1>5 DEF ValuesUpTo
<1> QED BY <1>6, <1>7

(* A head is parsed line by line.                                             *)
HeadUpTo(heading, g) ==
  g[0] = <<>> /\ \A n \in 1..Len(heading) : g[n] = HeadStep(g[n - 1], heading, n)

(* A head is parsed line by line.                                          *)
LEMMA HeadInOrder ==
  ASSUME NEW S, NEW heading \in Seq(S)
  PROVE  \E g : HeadUpTo(heading, g) /\ ParseHead(heading) = g[Len(heading)]
<1> DEFINE Rec(g, m) == g = [n \in 0..m |-> IF n = 0 THEN <<>> ELSE HeadStep(g[n - 1], heading, n)]
           D == {m \in Nat : \E g : Rec(g, m)}
<1>1. 0 \in D
  <2>1. Rec([n \in 0..0 |-> <<>>], 0)
    OBVIOUS
  <2> QED BY <2>1
<1>2. ASSUME NEW m \in D PROVE m + 1 \in D
  <2>1. PICK g : Rec(g, m)
    OBVIOUS
  <2> DEFINE h == [n \in 0..(m + 1) |-> IF n = m + 1 THEN HeadStep(g[m], heading, m + 1) ELSE g[n]]
  <2>2. ASSUME NEW n \in 0..(m + 1), n # 0
        PROVE  h[n] = HeadStep(h[n - 1], heading, n)
    <3>1. n - 1 \in 0..m /\ m \in Nat
      BY <2>2
    <3>2. h[n - 1] = g[n - 1]
      BY <3>1
    <3>3. CASE n = m + 1
      BY <3>2, <3>3
    <3>4. CASE n # m + 1
      BY <2>1, <2>2, <3>2, <3>4
    <3> QED BY <3>3, <3>4
  <2>3. h[0] = <<>>
    BY <2>1
  <2>4. h = [n \in 0..(m + 1) |-> h[n]]
    OBVIOUS
  <2> HIDE DEF h
  <2>5. Rec(h, m + 1)
    BY <2>2, <2>3, <2>4
  <2> QED BY <2>5
<1> HIDE DEF D
<1>3. D = Nat
  BY <1>1, <1>2, SetInduction DEF D
<1>4. Len(heading) \in Nat
  BY LenProperties
<1> DEFINE F == CHOOSE g : Rec(g, Len(heading))
<1>5. Rec(F, Len(heading))
  BY <1>3, <1>4 DEF D
<1>6. ParseHead(heading) = F[Len(heading)]
  BY DEF ParseHead, HeadStep
<1> HIDE DEF F
<1>7. HeadUpTo(heading, F)
  BY <1>4, <1>5 DEF HeadUpTo
<1> QED BY <1>6, <1>7

(* The received lines are replayed one by one.                                *)
ReplayUpTo(raw, table, g) ==
  g[0] = [left |-> table, out |-> <<>>] /\ \A n \in 1..Len(raw) : g[n] = Replay(g[n - 1], raw[n])

(* Received lines are replayed one by one.                                 *)
LEMMA ReplayInOrder ==
  ASSUME NEW S, NEW raw \in Seq(S), NEW table
  PROVE  \E g : ReplayUpTo(raw, table, g) /\ Replayed(raw, table) = g[Len(raw)]
<1> DEFINE Rec(g, m) == g = [n \in 0..m |-> IF n = 0 THEN [left |-> table, out |-> <<>>] ELSE Replay(g[n - 1], raw[n])]
           D == {m \in Nat : \E g : Rec(g, m)}
<1>1. 0 \in D
  <2>1. Rec([n \in 0..0 |-> [left |-> table, out |-> <<>>]], 0)
    OBVIOUS
  <2> QED BY <2>1
<1>2. ASSUME NEW m \in D PROVE m + 1 \in D
  <2>1. PICK g : Rec(g, m)
    OBVIOUS
  <2> DEFINE h == [n \in 0..(m + 1) |-> IF n = m + 1 THEN Replay(g[m], raw[m + 1]) ELSE g[n]]
  <2>2. ASSUME NEW n \in 0..(m + 1), n # 0
        PROVE  h[n] = Replay(h[n - 1], raw[n])
    <3>1. n - 1 \in 0..m /\ m \in Nat
      BY <2>2
    <3>2. h[n - 1] = g[n - 1]
      BY <3>1
    <3>3. CASE n = m + 1
      BY <3>2, <3>3
    <3>4. CASE n # m + 1
      BY <2>1, <2>2, <3>2, <3>4
    <3> QED BY <3>3, <3>4
  <2>3. h[0] = [left |-> table, out |-> <<>>]
    BY <2>1
  <2>4. h = [n \in 0..(m + 1) |-> h[n]]
    OBVIOUS
  <2> HIDE DEF h
  <2>5. Rec(h, m + 1)
    BY <2>2, <2>3, <2>4
  <2> QED BY <2>5
<1> HIDE DEF D
<1>3. D = Nat
  BY <1>1, <1>2, SetInduction DEF D
<1>4. Len(raw) \in Nat
  BY LenProperties
<1> DEFINE F == CHOOSE g : Rec(g, Len(raw))
<1>5. Rec(F, Len(raw))
  BY <1>3, <1>4 DEF D
<1>6. Replayed(raw, table) = F[Len(raw)]
  BY DEF Replayed
<1> HIDE DEF F
<1>7. ReplayUpTo(raw, table, F)
  BY <1>4, <1>5 DEF ReplayUpTo
<1> QED BY <1>6, <1>7

(* What is left is added name by name.                                        *)
AddedUpTo(raw, table, g) ==
  g[0] = Replayed(raw, table).out /\ \A n \in 1..Len(NameOrder) : g[n] = Added(g[n - 1], NameOrder[n], Replayed(raw, table).left[NameOrder[n]])

(* What is left in the table is added name by name.                        *)
LEMMA AddedInOrder ==
  ASSUME NEW raw, NEW table
  PROVE  \E g : AddedUpTo(raw, table, g) /\ Reconciled(raw, table) = g[Len(NameOrder)]
<1> DEFINE Rec(g, m) == g = [n \in 0..m |-> IF n = 0 THEN Replayed(raw, table).out ELSE Added(g[n - 1], NameOrder[n], Replayed(raw, table).left[NameOrder[n]])]
           D == {m \in Nat : \E g : Rec(g, m)}
<1>1. 0 \in D
  <2>1. Rec([n \in 0..0 |-> Replayed(raw, table).out], 0)
    OBVIOUS
  <2> QED BY <2>1
<1>2. ASSUME NEW m \in D PROVE m + 1 \in D
  <2>1. PICK g : Rec(g, m)
    OBVIOUS
  <2> DEFINE h == [n \in 0..(m + 1) |-> IF n = m + 1 THEN Added(g[m], NameOrder[m + 1], Replayed(raw, table).left[NameOrder[m + 1]]) ELSE g[n]]
  <2>2. ASSUME NEW n \in 0..(m + 1), n # 0
        PROVE  h[n] = Added(h[n - 1], NameOrder[n], Replayed(raw, table).left[NameOrder[n]])
    <3>1. n - 1 \in 0..m /\ m \in Nat
      BY <2>2
    <3>2. h[n - 1] = g[n - 1]
      BY <3>1
    <3>3. CASE n = m + 1
      BY <3>2, <3>3
    <3>4. CASE n # m + 1
      BY <2>1, <2>2, <3>2, <3>4
    <3> QED BY <3>3, <3>4
  <2>3. h[0] = Replayed(raw, table).out
    BY <2>1
  <2>4. h = [n \in 0..(m + 1) |-> h[n]]
    OBVIOUS
  <2> HIDE DEF h
  <2>5. Rec(h, m + 1)
    BY <2>2, <2>3, <2>4
  <2> QED BY <2>5
<1> HIDE DEF D
<1>3. D = Nat
  BY <1>1, <1>2, SetInduction DEF D
<1>4. Len(NameOrder) \in Nat
  BY LenProperties
<1> DEFINE F == CHOOSE g : Rec(g, Len(NameOrder))
<1>5. Rec(F, Len(NameOrder))
  BY <1>3, <1>4 DEF D
<1>6. Reconciled(raw, table) = F[Len(NameOrder)]
  BY DEF Reconciled
<1> HIDE DEF F
<1>7. AddedUpTo(raw, table, F)
  BY <1>4, <1>5 DEF AddedUpTo
<1> QED BY <1>6, <1>7

(* A sequence that is not empty is a shorter one with one element more.     *)
LEMMA OneMore ==
  ASSUME NEW S, NEW s \in Seq(S), NEW n \in Nat, Len(s) = n + 1
  PROVE  \E t \in Seq(S), x \in S : s = Append(t, x) /\ Len(t) = n
<1> DEFINE t == SubSeq(s, 1, n)
           all == Append(t, s[n + 1])
<1>1. s[n + 1] \in S
  BY ElementOfSeq
<1>2. t \in Seq(S) /\ Len(t) = n /\ \A i \in 1..n : t[i] = s[i]
  OBVIOUS
<1> HIDE DEF t
<1>3. all \in Seq(S) /\ Len(all) = n + 1 /\ \A i \in 1..(n + 1) : all[i] = s[i]
  BY <1>1, <1>2, AppendProperties
<1> HIDE DEF all
<1>4. s = all
  BY <1>3, SeqEqual
<1> QED BY <1>1, <1>2, <1>4 DEF all

(* Two ways to collect the values of a sequence's lines are one.            *)
LEMMA SameValues ==
  ASSUME NEW S, NEW lines \in Seq(S), NEW more \in Seq(S), NEW name, NEW g, NEW h,
         Len(lines) <= Len(more), \A i \in 1..Len(lines) : lines[i] = more[i],
         ValuesUpTo(lines, name, g), ValuesUpTo(more, name, h)
  PROVE  \A n \in 0..Len(lines) : g[n] = h[n]
<1>1. Len(lines) \in Nat /\ Len(more) \in Nat
  BY LenProperties
<1> DEFINE D == {n \in Nat : n <= Len(lines) => g[n] = h[n]}
<1>2. 0 \in D
  BY DEF ValuesUpTo
<1>3. ASSUME NEW n \in D PROVE n + 1 \in D
  <2>1. n \in Nat /\ (n + 1) - 1 = n
    OBVIOUS
  <2>2. ASSUME n + 1 <= Len(lines) PROVE g[n + 1] = h[n + 1]
    <3>1. n + 1 \in 1..Len(lines) /\ n + 1 \in 1..Len(more) /\ n <= Len(lines)
      BY <1>1, <2>1, <2>2
    <3>2. g[n] = h[n] /\ lines[n + 1] = more[n + 1]
      BY <3>1
    <3>3. g[n + 1] = ValueStep(g[n], name, lines[n + 1]) /\ h[n + 1] = ValueStep(h[n], name, more[n + 1])
      BY <2>1, <3>1 DEF ValuesUpTo
    <3> QED BY <3>2, <3>3
  <2> QED BY <2>1, <2>2
<1> HIDE DEF D
<1>4. D = Nat
  BY <1>2, <1>3, SetInduction DEF D
<1> QED BY <1>1, <1>4 DEF D

(* No lines have no values.                                                *)
LEMMA NoValues == ASSUME NEW name PROVE Values(<<>>, name) = <<>>
<1>1. <<>> \in Seq({}) /\ Len(<<>>) = 0
  OBVIOUS
<1>2. PICK g : ValuesUpTo(<<>>, name, g) /\ Values(<<>>, name) = g[Len(<<>>)]
  BY <1>1, ValuesInOrder
<1> QED BY <1>1, <1>2 DEF ValuesUpTo

(* One line more has its value more.                                       *)
LEMMA MoreValues ==
  ASSUME NEW S, NEW lines \in Seq(S), NEW ln \in S, NEW name
  PROVE  Values(Append(lines, ln), name) = ValueStep(Values(lines, name), name, ln)
<1> DEFINE more == Append(lines, ln)
<1>1. /\ Len(lines) \in Nat /\ more \in Seq(S) /\ Len(more) = Len(lines) + 1
      /\ more[Len(lines) + 1] = ln /\ \A i \in 1..Len(lines) : lines[i] = more[i]
  BY LenProperties, AppendProperties
<1> HIDE DEF more
<1>2. PICK g : ValuesUpTo(lines, name, g) /\ Values(lines, name) = g[Len(lines)]
  BY ValuesInOrder
<1>3. PICK h : ValuesUpTo(more, name, h) /\ Values(more, name) = h[Len(more)]
  BY <1>1, ValuesInOrder
<1>4. Len(lines) <= Len(more) /\ Len(lines) \in 0..Len(lines)
  BY <1>1
<1>5. g[Len(lines)] = h[Len(lines)]
  <2>1. \A n \in 0..Len(lines) : g[n] = h[n]
    BY <1>1, <1>2, <1>3, <1>4, SameValues
  <2> QED BY <1>4, <2>1
<1>6. Len(more) \in 1..Len(more) /\ Len(more) - 1 = Len(lines)
  BY <1>1
<1>7. h[Len(more)] = ValueStep(h[Len(lines)], name, ln)
  BY <1>1, <1>3, <1>6 DEF ValuesUpTo
<1> QED BY <1>2, <1>3, <1>5, <1>7 DEF more

(* The values of lines are values.                                         *)
LEMMA ValuesAreValues ==
  ASSUME NEW S, NEW lines \in Seq(S), NEW name
  PROVE  Values(lines, name) \in Seq({ln.value : ln \in S})
<1> DEFINE T == {ln.value : ln \in S}
           D == {n \in Nat : \A s \in Seq(S) : Len(s) = n => Values(s, name) \in Seq(T)}
<1>1. 0 \in D
  <2>1. ASSUME NEW s \in Seq(S), Len(s) = 0 PROVE Values(s, name) \in Seq(T)
    <3>1. s = <<>>
      BY <2>1, EmptySeq
    <3>2. <<>> \in Seq(T)
      OBVIOUS
    <3> QED BY <3>1, <3>2, NoValues
  <2> QED BY <2>1
<1>2. ASSUME NEW n \in D PROVE n + 1 \in D
  <2>1. ASSUME NEW s \in Seq(S), Len(s) = n + 1 PROVE Values(s, name) \in Seq(T)
    <3>1. n \in Nat
      OBVIOUS
    <3>2. PICK t \in Seq(S), x \in S : s = Append(t, x) /\ Len(t) = n
      BY <2>1, <3>1, OneMore
    <3>3. Values(t, name) \in Seq(T) /\ x.value \in T
      BY <3>2
    <3> DEFINE v == Values(t, name)
    <3>4. Values(s, name) = ValueStep(v, name, x)
      BY <3>2, MoreValues
    <3> HIDE DEF T, v
    <3>5. v \in Seq(T) /\ Append(v, x.value) \in Seq(T)
      BY <3>3, AppendProperties DEF v
    <3> QED BY <3>4, <3>5 DEF ValueStep
  <2> QED BY <2>1
<1> HIDE DEF D
<1>3. D = Nat
  BY <1>1, <1>2, SetInduction DEF D
<1>4. Len(lines) \in Nat
  BY LenProperties
<1> QED BY <1>3, <1>4 DEF D

(* The lines that are added for a name have its values.                     *)
LEMMA AddedOneMore ==
  ASSUME NEW S, NEW T, NEW out \in Seq(S), NEW name, NEW values \in Seq(T), NEW v \in T,
         \A x \in T : Line(name, "canon", x) \in S
  PROVE  /\ Added(out, name, values) \in Seq(S) /\ Added(out, name, Append(values, v)) \in Seq(S)
         /\ Added(out, name, Append(values, v)) = Append(Added(out, name, values), Line(name, "canon", v))
<1> DEFINE few  == [i \in 1..Len(values) |-> Line(name, "canon", values[i])]
           more == [i \in 1..Len(Append(values, v)) |-> Line(name, "canon", Append(values, v)[i])]
           l    == Line(name, "canon", v)
<1>1. /\ Len(values) \in Nat /\ \A i \in 1..Len(values) : values[i] \in T /\ Append(values, v)[i] = values[i]
      /\ Len(Append(values, v)) = Len(values) + 1 /\ Append(values, v)[Len(values) + 1] = v
  BY LenProperties, ElementOfSeq, AppendProperties
<1>2. l \in S
  OBVIOUS
<1>3. few \in Seq(S) /\ Len(few) = Len(values) /\ more \in Seq(S) /\ Len(more) = Len(values) + 1
  BY <1>1
<1>4. /\ \A i \in 1..Len(values) : few[i] = Line(name, "canon", values[i]) /\ more[i] = few[i]
      /\ more[Len(values) + 1] = l
  BY <1>1
<1> HIDE DEF few, more, l
<1>5. more = Append(few, l)
  <2> DEFINE a == Append(few, l)
  <2>1. a \in Seq(S) /\ Len(a) = Len(few) + 1 /\ a[Len(few) + 1] = l /\ \A i \in 1..Len(few) : a[i] = few[i]
    BY <1>2, <1>3, AppendProperties
  <2> HIDE DEF a
  <2>2. \A i \in 1..Len(more) : more[i] = a[i]
    <3> SUFFICES ASSUME NEW i \in 1..Len(more) PROVE more[i] = a[i]
      OBVIOUS
    <3>1. i \in 1..Len(values) \/ i = Len(values) + 1
      BY <1>1, <1>3
    <3> QED BY <1>3, <1>4, <2>1, <3>1
  <2>3. more = a
    BY <1>3, <2>1, <2>2, SeqEqual
  <2> QED BY <2>3 DEF a
<1>6. <<l>> \in Seq(S) /\ Append(few, l) = few \o <<l>>
  BY <1>2, <1>3, AppendIsConcat
<1>7. out \o (few \o <<l>>) = (out \o few) \o <<l>> /\ out \o few \in Seq(S)
  BY <1>3, <1>6, ConcatAssociative, ConcatProperties
<1>8. (out \o few) \o <<l>> = Append(out \o few, l) /\ Append(out \o few, l) \in Seq(S)
  BY <1>2, <1>7, AppendIsConcat, AppendProperties
<1>9. Added(out, name, values) = out \o few /\ Added(out, name, Append(values, v)) = out \o more
  BY DEF Added, few, more
<1>10. l = Line(name, "canon", v)
  BY DEF l
<1> QED BY <1>5, <1>6, <1>7, <1>8, <1>9, <1>10

(* A set that has the empty sequence, and with a sequence every one that   *)
(* is longer by one element, has all sequences.                            *)
LEMMA SequenceInduction ==
  ASSUME NEW S, NEW Q, <<>> \in Q, \A s \in Seq(S) : s \in Q => \A x \in S : Append(s, x) \in Q
  PROVE  Seq(S) \subseteq Q
<1> DEFINE D == {n \in Nat : \A s \in Seq(S) : Len(s) = n => s \in Q}
<1>1. 0 \in D
  <2>1. ASSUME NEW s \in Seq(S), Len(s) = 0 PROVE s \in Q
    BY <2>1, EmptySeq
  <2> QED BY <2>1
<1>2. ASSUME NEW n \in D PROVE n + 1 \in D
  <2>1. n \in Nat
    OBVIOUS
  <2>2. ASSUME NEW s \in Seq(S), Len(s) = n + 1 PROVE s \in Q
    <3>1. PICK t \in Seq(S), x \in S : s = Append(t, x) /\ Len(t) = n
      BY <2>1, <2>2, OneMore
    <3>2. t \in Q
      BY <3>1
    <3> QED BY <3>1, <3>2
  <2> QED BY <2>1, <2>2
<1> HIDE DEF D
<1>3. D = Nat
  BY <1>1, <1>2, SetInduction DEF D
<1> QED BY <1>3, LenProperties DEF D

(* The values of two sequences of lines, one after the other.              *)
LEMMA ValuesOfBoth ==
  ASSUME NEW S, NEW a \in Seq(S), NEW b \in Seq(S), NEW name
  PROVE  Values(a \o b, name) = Values(a, name) \o Values(b, name)
<1> DEFINE Q == {s \in Seq(S) : Values(a \o s, name) = Values(a, name) \o Values(s, name)}
           T == {ln.value : ln \in S}
<1>1. <<>> \in Q
  <2>1. <<>> \in Seq(S) /\ a \o <<>> = a
    BY ConcatEmptySeq
  <2>2. Values(a, name) \in Seq(T)
    BY ValuesAreValues
  <2> DEFINE v == Values(a, name)
  <2> HIDE DEF v, T
  <2>3. v \o <<>> = v
    BY <2>2, ConcatEmptySeq DEF v
  <2> QED BY <2>1, <2>3, NoValues DEF v
<1>2. ASSUME NEW s \in Seq(S), s \in Q, NEW x \in S PROVE Append(s, x) \in Q
  <2> DEFINE as == a \o s
             va == Values(a, name)
             vs == Values(s, name)
  <2>1. Append(s, x) \in Seq(S) /\ as \in Seq(S) /\ a \o Append(s, x) = Append(as, x)
    <3>1. Append(s, x) = s \o <<x>> /\ <<x>> \in Seq(S) /\ Append(s, x) \in Seq(S)
      BY AppendIsConcat, AppendProperties
    <3>2. as \in Seq(S) /\ a \o (s \o <<x>>) = as \o <<x>>
      BY <3>1, ConcatProperties, ConcatAssociative
    <3>3. Append(as, x) = as \o <<x>>
      BY <3>2, AppendIsConcat
    <3> QED BY <3>1, <3>2, <3>3
  <2>2. Values(as, name) = va \o vs
    BY <1>2
  <2>3. Values(Append(as, x), name) = ValueStep(Values(as, name), name, x)
    BY <2>1, MoreValues
  <2>4. Values(Append(s, x), name) = ValueStep(vs, name, x)
    BY MoreValues
  <2>5. va \in Seq(T) /\ vs \in Seq(T) /\ x.value \in T
    BY ValuesAreValues
  <2> HIDE DEF as, va, vs, T
  <2>6. va \o Append(vs, x.value) = Append(va \o vs, x.value)
    <3>1. Append(vs, x.value) = vs \o <<x.value>> /\ <<x.value>> \in Seq(T)
      BY <2>5, AppendIsConcat
    <3>2. va \o vs \in Seq(T) /\ va \o (vs \o <<x.value>>) = (va \o vs) \o <<x.value>>
      BY <2>5, <3>1, ConcatProperties, ConcatAssociative
    <3>3. Append(va \o vs, x.value) = (va \o vs) \o <<x.value>>
      BY <2>5, <3>2, AppendIsConcat
    <3> QED BY <3>1, <3>2, <3>3
  <2>7. ValueStep(va \o vs, name, x) = va \o ValueStep(vs, name, x)
    BY <2>6 DEF ValueStep
  <2>8. Values(a \o Append(s, x), name) = Values(a, name) \o Values(Append(s, x), name)
    BY <2>1, <2>2, <2>3, <2>4, <2>7 DEF va
  <2> QED BY <2>1, <2>8
<1> HIDE DEF Q
<1>3. Seq(S) \subseteq Q
  BY <1>1, <1>2, SequenceInduction
<1>4. b \in Q
  BY <1>3
<1> QED BY <1>4 DEF Q

(* Lines added for a name are lines, and their values those given.         *)
LEMMA AddedValues ==
  ASSUME NEW S, NEW T, NEW out \in Seq(S), NEW extra, NEW values \in Seq(T),
         \A x \in T : Line(extra, "canon", x) \in S, NEW name
  PROVE  /\ Added(out, extra, values) \in Seq(S)
         /\ Values(Added(out, extra, values), name) =
              IF name = extra THEN Values(out, name) \o values ELSE Values(out, name)
<1> DEFINE Good(vs) == Values(Added(out, extra, vs), name) =
                         IF name = extra THEN Values(out, name) \o vs ELSE Values(out, name)
           Q == {vs \in Seq(T) : Added(out, extra, vs) \in Seq(S) /\ Good(vs)}
           U == {ln.value : ln \in S} \cup T
           v == Values(out, name)
<1>0. v \in Seq(U) /\ Seq(T) \subseteq Seq(U)
  <2>1. v \in Seq({ln.value : ln \in S})
    BY ValuesAreValues
  <2> DEFINE R == {ln.value : ln \in S}
  <2> HIDE DEF v, R
  <2>2. Seq(R) \subseteq Seq(R \cup T) /\ Seq(T) \subseteq Seq(R \cup T)
    OBVIOUS
  <2> QED BY <2>1, <2>2 DEF R
<1> HIDE DEF U
<1>1. <<>> \in Q
  <2>1. [i \in 1..Len(<<>>) |-> Line(extra, "canon", <<>>[i])] = <<>>
    OBVIOUS
  <2>2. Added(out, extra, <<>>) = out
    BY <2>1, ConcatEmptySeq DEF Added
  <2> HIDE DEF v
  <2>3. v \o <<>> = v
    BY <1>0, ConcatEmptySeq
  <2>4. Good(<<>>)
    BY <2>2, <2>3 DEF v
  <2>5. Added(out, extra, <<>>) \in Seq(S) /\ <<>> \in Seq(T)
    BY <2>2
  <2> HIDE DEF Good
  <2> QED BY <2>4, <2>5
<1>2. ASSUME NEW vs \in Seq(T), vs \in Q, NEW x \in T PROVE Append(vs, x) \in Q
  <2> DEFINE few == Added(out, extra, vs)
             l   == Line(extra, "canon", x)
  <2>1. few \in Seq(S) /\ Added(out, extra, Append(vs, x)) \in Seq(S)
        /\ Added(out, extra, Append(vs, x)) = Append(few, l)
    BY AddedOneMore
  <2>2. l \in S /\ l.name = extra /\ l.value = x
    BY DEF Line
  <2>3. Values(few, name) = IF name = extra THEN v \o vs ELSE v
    BY <1>2
  <2> HIDE DEF few, l, v
  <2>4. Values(Append(few, l), name) = ValueStep(Values(few, name), name, l)
    BY <2>1, <2>2, MoreValues
  <2>5. v \o Append(vs, x) = Append(v \o vs, x)
    <3>0. vs \in Seq(U) /\ x \in U
      BY <1>0 DEF U
    <3>1. Append(vs, x) = vs \o <<x>> /\ <<x>> \in Seq(U)
      BY <3>0, AppendIsConcat
    <3>2. v \o vs \in Seq(U) /\ v \o (vs \o <<x>>) = (v \o vs) \o <<x>>
      BY <1>0, <3>0, <3>1, ConcatProperties, ConcatAssociative
    <3>3. Append(v \o vs, x) = (v \o vs) \o <<x>>
      BY <3>0, <3>2, AppendIsConcat
    <3> QED BY <3>1, <3>2, <3>3
  <2>6. Values(Append(few, l), name) = IF name = extra THEN v \o Append(vs, x) ELSE v
    BY <2>2, <2>3, <2>4, <2>5 DEF ValueStep
  <2>7. Good(Append(vs, x))
    BY <2>1, <2>6 DEF v
  <2>8. Append(vs, x) \in Seq(T)
    BY AppendProperties
  <2> QED BY <2>1, <2>7, <2>8
<1> HIDE DEF Q
<1>3. Seq(T) \subseteq Q
  BY <1>1, <1>2, SequenceInduction
<1>4. values \in Q
  BY <1>3
<1> QED BY <1>4 DEF Q

(* Lines taken out leave the values of the others.                         *)
LEMMA ValuesWithout ==
  ASSUME NEW S, NEW lines \in Seq(S), NEW names
  PROVE  /\ Without(lines, names) \in Seq(S)
         /\ \A name : Values(Without(lines, names), name) =
                        IF name \in names THEN <<>> ELSE Values(lines, name)
<1> DEFINE T == {ln \in ToSet(lines) : ln.name \notin names}
<1>0. /\ Len(lines) \in Nat
      /\ \A n \in 1..Len(lines) : lines[n] \in S /\ (lines[n] \in T <=> lines[n].name \notin names)
  BY LenProperties, ElementOfSeq DEF ToSet
<1> HIDE DEF T
<1>1. PICK f : /\ f[0] = <<>> /\ Only(lines, T) = f[Len(lines)]
               /\ \A n \in 1..Len(lines) : f[n] = Selected(lines, T, f[n - 1], n)
  BY OnlyIsDefined
<1>2. ASSUME NEW name
      PROVE  f[Len(lines)] \in Seq(S) /\ Values(f[Len(lines)], name) = IF name \in names THEN <<>> ELSE Values(lines, name)
  <2>1. PICK g : ValuesUpTo(lines, name, g) /\ Values(lines, name) = g[Len(lines)]
    BY ValuesInOrder
  <2> DEFINE D == {n \in Nat : n <= Len(lines) =>
                     f[n] \in Seq(S) /\ Values(f[n], name) = IF name \in names THEN <<>> ELSE g[n]}
  <2>2. 0 \in D
    <3>1. f[0] = <<>> /\ g[0] = <<>> /\ <<>> \in Seq(S)
      BY <1>1, <2>1 DEF ValuesUpTo
    <3> QED BY <3>1, NoValues
  <2>3. ASSUME NEW n \in D PROVE n + 1 \in D
    <3>1. n \in Nat /\ (n + 1) - 1 = n
      OBVIOUS
    <3>2. ASSUME n + 1 <= Len(lines)
          PROVE  f[n + 1] \in Seq(S) /\ Values(f[n + 1], name) = IF name \in names THEN <<>> ELSE g[n + 1]
      <4>1. n + 1 \in 1..Len(lines) /\ n <= Len(lines)
        BY <1>0, <3>1, <3>2
      <4> DEFINE ln == lines[n + 1]
                 fn == f[n]
      <4>2. ln \in S /\ (ln \in T <=> ln.name \notin names)
        BY <1>0, <4>1
      <4>3. fn \in Seq(S) /\ Values(fn, name) = IF name \in names THEN <<>> ELSE g[n]
        BY <4>1
      <4>4. f[n + 1] = IF ln \in T THEN Append(fn, ln) ELSE fn
        BY <1>1, <3>1, <4>1 DEF Selected
      <4>5. g[n + 1] = ValueStep(g[n], name, ln)
        BY <2>1, <3>1, <4>1 DEF ValuesUpTo
      <4> HIDE DEF ln, fn
      <4>6. Append(fn, ln) \in Seq(S) /\ Values(Append(fn, ln), name) = ValueStep(Values(fn, name), name, ln)
        BY <4>2, <4>3, MoreValues, AppendProperties
      <4>7. CASE ln \in T
        BY <4>2, <4>3, <4>4, <4>5, <4>6, <4>7 DEF ValueStep
      <4>8. CASE ln \notin T
        BY <4>2, <4>3, <4>4, <4>5, <4>8 DEF ValueStep
      <4> QED BY <4>7, <4>8
    <3> QED BY <3>1, <3>2
  <2> HIDE DEF D
  <2>4. D = Nat
    BY <2>2, <2>3, SetInduction DEF D
  <2> QED BY <1>0, <2>1, <2>4 DEF D
<1>3. Without(lines, names) = f[Len(lines)]
  BY <1>1 DEF Without, T
<1> QED BY <1>2, <1>3

(* Lines as they are received, and as they are sent.                       *)
RawLines(T)  == [name : Names, as : {"raw"}, value : T]
WireLines(T) == [name : Names, as : {"raw", "canon"}, value : T]

(* The names are in their order, each once.                                *)
LEMMA NameFacts ==
  /\ Len(NameOrder) = 9 /\ \A n \in 1..9 : NameOrder[n] \in Names
  /\ \A n, m \in 1..9 : n # m => NameOrder[n] # NameOrder[m]
  /\ \A name \in Names : \E n \in 1..9 : name = NameOrder[n]
<1>1. Len(NameOrder) = 9 /\ DOMAIN NameOrder = 1..9
  BY DEF NameOrder
<1>2. /\ NameOrder[1] = "Accept" /\ NameOrder[2] = "Connection" /\ NameOrder[3] = "Content-Encoding"
      /\ NameOrder[4] = "Content-Length" /\ NameOrder[5] = "Host" /\ NameOrder[6] = "New"
      /\ NameOrder[7] = "Proxy-Authorization" /\ NameOrder[8] = "Te" /\ NameOrder[9] = "Transfer-Encoding"
  BY DEF NameOrder
<1>3. \A n, m \in 1..9 : n # m => NameOrder[n] # NameOrder[m]
  BY <1>2
<1>4. Names = {NameOrder[n] : n \in 1..9}
  BY <1>1 DEF Names, ToSet
<1> QED BY <1>1, <1>3, <1>4

(* All the names are these.                                                *)
LEMMA NamesAre ==
  Names = {"Accept", "Connection", "Content-Encoding", "Content-Length", "Host", "New",
           "Proxy-Authorization", "Te", "Transfer-Encoding"}
<1>1. DOMAIN NameOrder = 1..9
  BY DEF NameOrder
<1>2. /\ NameOrder[1] = "Accept" /\ NameOrder[2] = "Connection" /\ NameOrder[3] = "Content-Encoding"
      /\ NameOrder[4] = "Content-Length" /\ NameOrder[5] = "Host" /\ NameOrder[6] = "New"
      /\ NameOrder[7] = "Proxy-Authorization" /\ NameOrder[8] = "Te" /\ NameOrder[9] = "Transfer-Encoding"
  BY DEF NameOrder
<1>3. Names = {NameOrder[n] : n \in 1..9}
  BY <1>1 DEF Names, ToSet
<1>4. {NameOrder[n] : n \in 1..9} = {NameOrder[1], NameOrder[2], NameOrder[3], NameOrder[4], NameOrder[5],
                                      NameOrder[6], NameOrder[7], NameOrder[8], NameOrder[9]}
  <2>1. 1..9 = {1, 2, 3, 4, 5, 6, 7, 8, 9}
    OBVIOUS
  <2> QED BY <2>1
<1> QED BY <1>2, <1>3, <1>4

(* A sequence is its first element and the others.                         *)
LEMMA FirstAndRest ==
  ASSUME NEW T, NEW s \in Seq(T), s # <<>>
  PROVE  Head(s) \in T /\ Tail(s) \in Seq(T) /\ \A v \in Seq(T) : Append(v, Head(s)) \o Tail(s) = v \o s
<1> DEFINE h == Head(s)
           t == Tail(s)
           b == <<h>> \o t
<1>1. h \in T /\ t \in Seq(T)
  BY HeadAndTail
<1>2. Len(s) \in Nat /\ Len(s) > 0 /\ h = s[1] /\ Len(t) = Len(s) - 1 /\ \A i \in 1..Len(t) : t[i] = s[i + 1]
  BY HeadTailProperties, LenProperties, EmptySeq
<1>3. <<h>> \in Seq(T) /\ Len(<<h>>) = 1 /\ <<h>>[1] = h
  BY <1>1
<1> HIDE DEF h, t
<1>4. b \in Seq(T) /\ Len(b) = 1 + Len(t)
  BY <1>1, <1>3, ConcatProperties
<1>5. \A i \in 1..Len(b) : b[i] = IF i <= 1 THEN h ELSE t[i - 1]
  BY <1>1, <1>3, ConcatProperties
<1> HIDE DEF b
<1>6. \A i \in 1..Len(s) : b[i] = s[i]
  <2> SUFFICES ASSUME NEW i \in 1..Len(s) PROVE b[i] = s[i]
    OBVIOUS
  <2>1. CASE i = 1
    BY <1>2, <1>4, <1>5, <2>1
  <2>2. CASE i # 1
    <3>1. i - 1 \in 1..Len(t) /\ i \in 1..Len(b) /\ ~(i <= 1) /\ (i - 1) + 1 = i
      BY <1>2, <1>4, <2>2
    <3>2. b[i] = t[i - 1] /\ t[i - 1] = s[(i - 1) + 1]
      BY <1>2, <1>5, <3>1
    <3> QED BY <3>1, <3>2
  <2> QED BY <2>1, <2>2
<1>7. b = s
  <2>1. Len(b) = Len(s)
    BY <1>2, <1>4
  <2> QED BY <1>4, <1>6, <2>1, SeqEqual
<1>8. ASSUME NEW v \in Seq(T) PROVE Append(v, h) \o t = v \o s
  <2>1. Append(v, h) = v \o <<h>>
    BY <1>1, AppendIsConcat
  <2>2. (v \o <<h>>) \o t = v \o (<<h>> \o t)
    BY <1>1, <1>3, ConcatAssociative
  <2> QED BY <1>7, <2>1, <2>2 DEF b
<1> QED BY <1>1, <1>8 DEF h, t

(* What was replayed and what is left are, together, the table.            *)
ReplaySplits(s, T, table) ==
  /\ s.left \in [Names -> Seq(T)] /\ s.out \in Seq(WireLines(T))
  /\ \A n \in Names : Values(s.out, n) \in Seq(T) /\ Values(s.out, n) \o s.left[n] = table[n]

(* One line replayed takes its value from the table, and only that.        *)
LEMMA ReplayStep ==
  ASSUME NEW T, NEW table, NEW s, ReplaySplits(s, T, table), NEW ln \in RawLines(T)
  PROVE  ReplaySplits(Replay(s, ln), T, table)
<1> DEFINE nm == ln.name
           l  == s.left[nm]
           h  == Head(l)
           t  == Tail(l)
           x  == [ln EXCEPT !.value = h]
           left == [s.left EXCEPT ![nm] = t]
           out  == Append(s.out, x)
<1>1. nm \in Names /\ l \in Seq(T) /\ s.left \in [Names -> Seq(T)] /\ s.out \in Seq(WireLines(T))
  BY DEF ReplaySplits, RawLines
<1>2. CASE l = <<>>
  BY <1>2 DEF Replay
<1>3. CASE l # <<>>
  <2>1. h \in T /\ t \in Seq(T) /\ \A v \in Seq(T) : Append(v, h) \o t = v \o l
    BY <1>1, <1>3, FirstAndRest
  <2>2. x \in WireLines(T) /\ x.name = nm /\ x.value = h
    <3>1. h \in T
      BY <2>1
    <3> HIDE DEF h
    <3> QED BY <3>1 DEF RawLines, WireLines
  <2>3. Replay(s, ln) = [left |-> left, out |-> out]
    BY <1>3 DEF Replay
  <2> HIDE DEF h, t, x
  <2>4. left \in [Names -> Seq(T)] /\ left[nm] = t /\ \A n \in Names : n # nm => left[n] = s.left[n]
    BY <1>1, <2>1
  <2> HIDE DEF l, left, nm
  <2>5. out \in Seq(WireLines(T))
    BY <1>1, <2>2, AppendProperties
  <2>6. ASSUME NEW n \in Names
        PROVE  Values(out, n) \in Seq(T) /\ Values(out, n) \o left[n] = table[n]
    <3> DEFINE v == Values(s.out, n)
    <3>1. v \in Seq(T) /\ v \o s.left[n] = table[n]
      BY DEF ReplaySplits
    <3>2. Values(out, n) = ValueStep(v, n, x)
      BY <1>1, <2>2, MoreValues
    <3> HIDE DEF v, out
    <3>3. CASE n = nm
      <4>1. Values(out, n) = Append(v, h)
        BY <2>2, <3>2, <3>3 DEF ValueStep
      <4>2. Append(v, h) \in Seq(T)
        BY <2>1, <3>1, AppendProperties
      <4>3. Append(v, h) \o t = v \o l /\ left[n] = t /\ s.left[n] = l
        BY <2>1, <2>4, <3>1, <3>3 DEF l
      <4> QED BY <3>1, <4>1, <4>2, <4>3
    <3>4. CASE n # nm
      <4>1. Values(out, n) = v /\ left[n] = s.left[n]
        BY <2>2, <2>4, <3>2, <3>4 DEF ValueStep
      <4> QED BY <3>1, <4>1
    <3> QED BY <3>3, <3>4
  <2> HIDE DEF out
  <2> DEFINE r == [left |-> left, out |-> out]
  <2>7. r.left = left /\ r.out = out
    OBVIOUS
  <2> HIDE DEF r
  <2>8. ReplaySplits(r, T, table)
    BY <2>4, <2>5, <2>6, <2>7 DEF ReplaySplits
  <2> QED BY <2>3, <2>8 DEF r
<1> QED BY <1>2, <1>3

(* Replayed lines have what is missing in what is left of the table.       *)
LEMMA ReplayedSplits ==
  ASSUME NEW T, NEW raw \in Seq(RawLines(T)), NEW table \in [Names -> Seq(T)], NEW g, ReplayUpTo(raw, table, g)
  PROVE  \A n \in 0..Len(raw) : ReplaySplits(g[n], T, table)
<1>1. Len(raw) \in Nat /\ \A n \in 1..Len(raw) : raw[n] \in RawLines(T)
  BY LenProperties, ElementOfSeq
<1> DEFINE D == {n \in Nat : n <= Len(raw) => ReplaySplits(g[n], T, table)}
<1>2. 0 \in D
  <2>1. g[0].left = table /\ g[0].out = <<>>
    BY DEF ReplayUpTo
  <2>2. <<>> \in Seq(WireLines(T)) /\ <<>> \in Seq(T)
    OBVIOUS
  <2>3. ASSUME NEW n \in Names PROVE Values(<<>>, n) = <<>> /\ <<>> \o table[n] = table[n]
    <3>1. table[n] \in Seq(T)
      OBVIOUS
    <3> QED BY <3>1, NoValues, ConcatEmptySeq
  <2>4. ReplaySplits(g[0], T, table)
    BY <2>1, <2>2, <2>3 DEF ReplaySplits
  <2> QED BY <2>4
<1>3. ASSUME NEW n \in D PROVE n + 1 \in D
  <2>1. n \in Nat /\ (n + 1) - 1 = n
    OBVIOUS
  <2>2. ASSUME n + 1 <= Len(raw) PROVE ReplaySplits(g[n + 1], T, table)
    <3>1. n + 1 \in 1..Len(raw) /\ n <= Len(raw)
      BY <1>1, <2>1, <2>2
    <3>2. g[n + 1] = Replay(g[n], raw[n + 1])
      BY <2>1, <3>1 DEF ReplayUpTo
    <3>3. ReplaySplits(g[n], T, table) /\ raw[n + 1] \in RawLines(T)
      BY <1>1, <3>1
    <3> QED BY <3>2, <3>3, ReplayStep
  <2> QED BY <2>1, <2>2
<1> HIDE DEF D
<1>4. D = Nat
  BY <1>2, <1>3, SetInduction DEF D
<1> QED BY <1>1, <1>4 DEF D

(* Lines of the program's own spelling come after the others.               *)
Follows(out, lines) ==
  /\ Len(out) <= Len(lines) /\ \A i \in 1..Len(out) : lines[i] = out[i]
  /\ \A i \in (Len(out) + 1)..Len(lines) : lines[i].as = "canon"

(* The values of a name are added to those that lines have.                 *)
AddsValues(lines, name, values, all) == \A n \in Names :
  Values(all, n) = IF n = name THEN Values(lines, n) \o values ELSE Values(lines, n)

(* Lines added for a name follow, and change no other name's values.       *)
LEMMA AddedFollows ==
  ASSUME NEW T, NEW out \in Seq(WireLines(T)), NEW lines \in Seq(WireLines(T)), Follows(out, lines),
         NEW name \in Names, NEW values \in Seq(T)
  PROVE  /\ Added(lines, name, values) \in Seq(WireLines(T)) /\ Follows(out, Added(lines, name, values))
         /\ AddsValues(lines, name, values, Added(lines, name, values))
         /\ values = <<>> => Added(lines, name, values) = lines
<1> DEFINE few == [i \in 1..Len(values) |-> Line(name, "canon", values[i])]
           all == lines \o few
<1>0. \A x \in T : Line(name, "canon", x) \in WireLines(T)
  BY DEF WireLines, Line
<1>1. /\ Added(lines, name, values) \in Seq(WireLines(T))
      /\ AddsValues(lines, name, values, Added(lines, name, values))
  <2>1. ASSUME NEW n
        PROVE  /\ Added(lines, name, values) \in Seq(WireLines(T))
               /\ Values(Added(lines, name, values), n) =
                    IF n = name THEN Values(lines, n) \o values ELSE Values(lines, n)
    <3> DEFINE W == WireLines(T)
    <3>1. lines \in Seq(W) /\ \A x \in T : Line(name, "canon", x) \in W
      BY <1>0
    <3> HIDE DEF W
    <3>2. /\ Added(lines, name, values) \in Seq(W)
          /\ Values(Added(lines, name, values), n) =
               IF n = name THEN Values(lines, n) \o values ELSE Values(lines, n)
      BY <3>1, AddedValues, Z3
    <3> QED BY <3>2 DEF W
  <2> QED BY <2>1 DEF AddsValues
<1>2. Len(values) \in Nat /\ Len(lines) \in Nat /\ Len(out) \in Nat /\ \A i \in 1..Len(values) : values[i] \in T
  BY LenProperties, ElementOfSeq
<1>3. /\ few \in Seq(WireLines(T)) /\ Len(few) = Len(values)
      /\ \A i \in 1..Len(few) : few[i].as = "canon"
  <2>1. \A i \in 1..Len(values) : Line(name, "canon", values[i]) \in WireLines(T)
    BY <1>0, <1>2
  <2>2. \A i \in 1..Len(values) : Line(name, "canon", values[i]).as = "canon"
    BY DEF Line
  <2> QED BY <1>2, <2>1, <2>2
<1>4. values = <<>> => few = <<>>
  OBVIOUS
<1> HIDE DEF few
<1>5. values = <<>> => all = lines
  BY <1>4, ConcatEmptySeq
<1>6. Len(all) = Len(lines) + Len(few) /\ \A i \in 1..Len(all) : all[i] = IF i <= Len(lines) THEN lines[i] ELSE few[i - Len(lines)]
  <2> DEFINE W == WireLines(T)
  <2>1. lines \in Seq(W) /\ few \in Seq(W)
    BY <1>3
  <2> HIDE DEF W
  <2> QED BY <2>1, ConcatProperties
<1> HIDE DEF all
<1>7. Len(out) <= Len(all)
  BY <1>2, <1>3, <1>6 DEF Follows
<1>8. ASSUME NEW i \in 1..Len(out) PROVE all[i] = out[i]
  <2>1. i \in 1..Len(all) /\ i <= Len(lines) /\ lines[i] = out[i]
    BY <1>2, <1>3, <1>6 DEF Follows
  <2> QED BY <1>6, <2>1
<1>9. ASSUME NEW i \in (Len(out) + 1)..Len(all) PROVE all[i].as = "canon"
  <2>1. i \in 1..Len(all)
    BY <1>2, <1>3, <1>6
  <2>2. CASE i <= Len(lines)
    <3>1. i \in (Len(out) + 1)..Len(lines)
      BY <1>2, <2>2
    <3>2. lines[i].as = "canon"
      BY <3>1 DEF Follows
    <3> QED BY <1>6, <2>1, <2>2, <3>2
  <2>3. CASE ~(i <= Len(lines))
    <3>1. i - Len(lines) \in 1..Len(few)
      BY <1>2, <1>3, <1>6, <2>1, <2>3
    <3>2. all[i] = few[i - Len(lines)]
      BY <1>6, <2>1, <2>3
    <3> QED BY <1>3, <3>1, <3>2
  <2> QED BY <2>2, <2>3
<1>10. Follows(out, all)
  BY <1>7, <1>8, <1>9 DEF Follows
<1>11. Added(lines, name, values) = all
  BY DEF Added, all, few
<1> QED BY <1>1, <1>5, <1>10, <1>11

(* Of the names up to n the lines have the table's values, of the others   *)
(* those that were replayed.                                               *)
AddsLeft(lines, s, T, table, n) ==
  /\ lines \in Seq(WireLines(T)) /\ Follows(s.out, lines)
  /\ \A k \in 1..9 : Values(lines, NameOrder[k]) =
       IF k <= n THEN table[NameOrder[k]] ELSE Values(s.out, NameOrder[k])
  /\ (\A name \in Names : s.left[name] = <<>>) => lines = s.out

(* Each name that is added gets the values that were left.                 *)
LEMMA AddedStep ==
  ASSUME NEW T, NEW table, NEW s, ReplaySplits(s, T, table), NEW n \in Nat, n < 9,
         NEW lines, AddsLeft(lines, s, T, table, n)
  PROVE  AddsLeft(Added(lines, NameOrder[n + 1], s.left[NameOrder[n + 1]]), s, T, table, n + 1)
<1> DEFINE name == NameOrder[n + 1]
           left == s.left[name]
           all  == Added(lines, name, left)
<1>1. n + 1 \in 1..9
  OBVIOUS
<1>2. /\ name \in Names /\ \A k \in 1..9 : NameOrder[k] \in Names
      /\ \A k \in 1..9 : NameOrder[k] = name => k = n + 1
  BY <1>1, NameFacts
<1>3. left \in Seq(T) /\ s.out \in Seq(WireLines(T)) /\ Values(s.out, name) \o left = table[name]
  BY <1>2 DEF ReplaySplits
<1>4. lines \in Seq(WireLines(T)) /\ Follows(s.out, lines)
  BY DEF AddsLeft
<1> HIDE DEF left
<1>5. /\ all \in Seq(WireLines(T)) /\ Follows(s.out, all)
      /\ AddsValues(lines, name, left, all)
      /\ left = <<>> => all = lines
  BY <1>2, <1>3, <1>4, AddedFollows
<1> HIDE DEF all
<1>6. ASSUME NEW k \in 1..9
      PROVE  Values(all, NameOrder[k]) = IF k <= n + 1 THEN table[NameOrder[k]] ELSE Values(s.out, NameOrder[k])
  <2> DEFINE m == NameOrder[k]
  <2>1. m \in Names /\ Values(lines, m) = IF k <= n THEN table[m] ELSE Values(s.out, m)
    BY <1>2 DEF AddsLeft
  <2>2. Values(all, m) = IF m = name THEN Values(lines, m) \o left ELSE Values(lines, m)
    BY <1>5, <2>1 DEF AddsValues
  <2>3. CASE k = n + 1
    <3>1. m = name /\ ~(k <= n) /\ k <= n + 1
      BY <2>3
    <3>2. Values(all, m) = Values(s.out, name) \o left
      BY <2>1, <2>2, <3>1
    <3> QED BY <1>3, <3>1, <3>2
  <2>4. CASE k # n + 1
    <3>1. m # name /\ (k <= n <=> k <= n + 1)
      BY <1>2, <2>4
    <3> QED BY <2>1, <2>2, <3>1
  <2> QED BY <2>3, <2>4
<1>7. ASSUME \A m \in Names : s.left[m] = <<>> PROVE all = s.out
  <2>1. left = <<>> /\ lines = s.out
    BY <1>2, <1>7 DEF AddsLeft, left
  <2> QED BY <1>5, <2>1
<1>8. AddsLeft(all, s, T, table, n + 1)
  BY <1>5, <1>6, <1>7 DEF AddsLeft
<1> QED BY <1>8 DEF all, left

(* After the last name, nothing is left to add.                            *)
LEMMA ReconciledAdds ==
  ASSUME NEW T, NEW raw \in Seq(RawLines(T)), NEW table \in [Names -> Seq(T)]
  PROVE  /\ ReplaySplits(Replayed(raw, table), T, table)
         /\ AddsLeft(Reconciled(raw, table), Replayed(raw, table), T, table, 9)
<1> DEFINE s == Replayed(raw, table)
<1>1. ReplaySplits(s, T, table)
  <2>1. PICK g : ReplayUpTo(raw, table, g) /\ s = g[Len(raw)]
    BY ReplayInOrder
  <2>2. Len(raw) \in 0..Len(raw)
    BY LenProperties
  <2>3. \A n \in 0..Len(raw) : ReplaySplits(g[n], T, table)
    BY <2>1, ReplayedSplits
  <2> QED BY <2>1, <2>2, <2>3
<1>2. PICK g : AddedUpTo(raw, table, g) /\ Reconciled(raw, table) = g[Len(NameOrder)]
  BY AddedInOrder
<1>3. /\ g[0] = s.out /\ Len(NameOrder) = 9
      /\ \A n \in 1..9 : g[n] = Added(g[n - 1], NameOrder[n], s.left[NameOrder[n]])
  BY <1>2, NameFacts DEF AddedUpTo
<1> HIDE DEF s
<1> DEFINE D == {n \in Nat : n <= 9 => AddsLeft(g[n], s, T, table, n)}
<1>4. 0 \in D
  <2>1. s.out \in Seq(WireLines(T)) /\ Len(s.out) \in Nat
    BY <1>1, LenProperties DEF ReplaySplits
  <2>2. Follows(s.out, s.out)
    BY <2>1 DEF Follows
  <2>3. AddsLeft(s.out, s, T, table, 0)
    BY <2>1, <2>2 DEF AddsLeft
  <2> QED BY <1>3, <2>3
<1>5. ASSUME NEW n \in D PROVE n + 1 \in D
  <2>1. n \in Nat /\ (n + 1) - 1 = n
    OBVIOUS
  <2>2. ASSUME n + 1 <= 9 PROVE AddsLeft(g[n + 1], s, T, table, n + 1)
    <3>1. n + 1 \in 1..9 /\ n < 9
      BY <2>1, <2>2
    <3>2. AddsLeft(g[n], s, T, table, n)
      BY <3>1
    <3>3. AddsLeft(Added(g[n], NameOrder[n + 1], s.left[NameOrder[n + 1]]), s, T, table, n + 1)
      BY <1>1, <2>1, <3>1, <3>2, AddedStep
    <3> QED BY <1>3, <2>1, <3>1, <3>3
  <2> QED BY <2>1, <2>2
<1> HIDE DEF D
<1>6. D = Nat
  BY <1>4, <1>5, SetInduction DEF D
<1>7. AddsLeft(g[9], s, T, table, 9)
  BY <1>6 DEF D
<1> QED BY <1>1, <1>2, <1>3, <1>7 DEF s

(* The lines that are sent have the values of the table.                   *)
LEMMA ReconciledValues ==
  ASSUME NEW T, NEW raw \in Seq(RawLines(T)), NEW table \in [Names -> Seq(T)]
  PROVE  /\ Reconciled(raw, table) \in Seq(WireLines(T))
         /\ \A name \in Names : Values(Reconciled(raw, table), name) = table[name]
<1> DEFINE lines == Reconciled(raw, table)
<1>1. AddsLeft(lines, Replayed(raw, table), T, table, 9)
  BY ReconciledAdds
<1> HIDE DEF lines
<1>2. lines \in Seq(WireLines(T)) /\ \A k \in 1..9 : Values(lines, NameOrder[k]) = table[NameOrder[k]]
  BY <1>1 DEF AddsLeft
<1>3. ASSUME NEW name \in Names PROVE Values(lines, name) = table[name]
  <2>1. PICK k \in 1..9 : name = NameOrder[k]
    BY NameFacts
  <2> QED BY <1>2, <2>1
<1> QED BY <1>2, <1>3 DEF lines

(* Lines that were kept of those that were received, up to the n-th, each  *)
(* with a value of its own.                                                *)
KeptOf(out, kept, raw, n) ==
  /\ kept \in [1..Len(out) -> 1..n] /\ Len(out) <= n
  /\ \A i, j \in 1..Len(out) : i < j => kept[i] < kept[j]
  /\ \A i \in 1..Len(out) : out[i] = [raw[kept[i]] EXCEPT !.value = out[i].value]

(* A line that is replayed is kept after those that were.                  *)
LEMMA KeptStep ==
  ASSUME NEW T, NEW raw \in Seq(RawLines(T)), NEW table, NEW s, ReplaySplits(s, T, table),
         NEW n \in Nat, n < Len(raw), NEW kept, KeptOf(s.out, kept, raw, n)
  PROVE  \E more : KeptOf(Replay(s, raw[n + 1]).out, more, raw, n + 1)
<1> DEFINE ln  == raw[n + 1]
           out == s.out
           m   == Len(out)
           r   == Replay(s, ln).out
<1>0. Len(raw) \in Nat /\ ln \in RawLines(T) /\ ln.name \in Names
  <2>1. Len(raw) \in Nat /\ ln \in RawLines(T)
    BY LenProperties, ElementOfSeq
  <2> QED BY <2>1 DEF RawLines
<1>1. /\ out \in Seq(WireLines(T)) /\ m \in Nat /\ s.left[ln.name] \in Seq(T)
  BY <1>0, LenProperties DEF ReplaySplits
<1>2. /\ kept \in [1..m -> 1..n] /\ m <= n
      /\ \A i, j \in 1..m : i < j => kept[i] < kept[j]
      /\ \A i \in 1..m : out[i] = [raw[kept[i]] EXCEPT !.value = out[i].value]
  BY Zenon DEF KeptOf
<1>3. CASE s.left[ln.name] = <<>>
  <2>1. r = out
    BY <1>3 DEF Replay
  <2>2. kept \in [1..m -> 1..(n + 1)] /\ m <= n + 1
    BY <1>1, <1>2
  <2>3. KeptOf(out, kept, raw, n + 1)
    BY <1>2, <2>2 DEF KeptOf
  <2> QED BY <2>1, <2>3
<1>4. CASE s.left[ln.name] # <<>>
  <2> DEFINE x    == [ln EXCEPT !.value = Head(s.left[ln.name])]
             more == [i \in 1..(m + 1) |-> IF i = m + 1 THEN n + 1 ELSE kept[i]]
  <2>1. r = Append(out, x)
    BY <1>4 DEF Replay
  <2>2. x \in WireLines(T) /\ x = [ln EXCEPT !.value = x.value]
    <3>1. Head(s.left[ln.name]) \in T
      BY <1>1, <1>4, HeadAndTail
    <3> DEFINE h == Head(s.left[ln.name])
    <3> HIDE DEF h
    <3> QED BY <1>0, <3>1 DEF h, RawLines, WireLines
  <2> HIDE DEF x, r
  <2>3. Len(r) = m + 1 /\ r[m + 1] = x /\ \A i \in 1..m : r[i] = out[i]
    BY <1>1, <2>1, <2>2, AppendProperties
  <2> HIDE DEF m, ln
  <2>4. more \in [1..(m + 1) -> 1..(n + 1)] /\ m + 1 <= n + 1
    BY <1>1, <1>2
  <2>5. more[m + 1] = n + 1 /\ \A i \in 1..m : more[i] = kept[i]
    BY <1>1
  <2> HIDE DEF more
  <2>6. ASSUME NEW i \in 1..(m + 1), NEW j \in 1..(m + 1), i < j PROVE more[i] < more[j]
    <3>1. i \in 1..m
      BY <1>1, <2>6
    <3>2. CASE j = m + 1
      BY <1>2, <2>5, <3>1, <3>2
    <3>3. CASE j # m + 1
      <4>1. j \in 1..m
        BY <1>1, <3>3
      <4> QED BY <1>2, <2>5, <2>6, <3>1, <4>1
    <3> QED BY <3>2, <3>3
  <2>7. ASSUME NEW i \in 1..(m + 1) PROVE r[i] = [raw[more[i]] EXCEPT !.value = r[i].value]
    <3>1. CASE i = m + 1
      <4>1. r[i] = x /\ raw[more[i]] = ln
        BY <2>3, <2>5, <3>1 DEF ln
      <4> QED BY <2>2, <4>1
    <3>2. CASE i # m + 1
      <4>1. i \in 1..m
        BY <1>1, <3>2
      <4>2. r[i] = out[i] /\ more[i] = kept[i]
        BY <2>3, <2>5, <4>1
      <4> QED BY <1>2, <4>1, <4>2
    <3> QED BY <3>1, <3>2
  <2>8. KeptOf(r, more, raw, n + 1)
    BY <2>3, <2>4, <2>6, <2>7 DEF KeptOf
  <2> QED BY <2>8 DEF r, ln
<1> QED BY <1>3, <1>4

(* All lines that are replayed are kept in order.                          *)
LEMMA ReplayedKeeps ==
  ASSUME NEW T, NEW raw \in Seq(RawLines(T)), NEW table \in [Names -> Seq(T)]
  PROVE  \E kept : KeptOf(Replayed(raw, table).out, kept, raw, Len(raw))
<1>1. PICK g : ReplayUpTo(raw, table, g) /\ Replayed(raw, table) = g[Len(raw)]
  BY ReplayInOrder
<1>2. Len(raw) \in Nat
  BY LenProperties
<1>3. \A n \in 0..Len(raw) : ReplaySplits(g[n], T, table)
  BY <1>1, ReplayedSplits
<1> DEFINE D == {n \in Nat : n <= Len(raw) => \E kept : KeptOf(g[n].out, kept, raw, n)}
<1>4. 0 \in D
  <2>1. g[0].out = <<>> /\ Len(<<>>) = 0
    BY <1>1 DEF ReplayUpTo
  <2> DEFINE none == [i \in 1..0 |-> i]
  <2>2. KeptOf(<<>>, none, raw, 0)
    BY <2>1 DEF KeptOf
  <2> QED BY <2>1, <2>2
<1>5. ASSUME NEW n \in D PROVE n + 1 \in D
  <2>1. n \in Nat /\ (n + 1) - 1 = n
    OBVIOUS
  <2>2. ASSUME n + 1 <= Len(raw) PROVE \E kept : KeptOf(g[n + 1].out, kept, raw, n + 1)
    <3>1. n + 1 \in 1..Len(raw) /\ n \in 0..Len(raw) /\ n < Len(raw)
      BY <1>2, <2>1, <2>2
    <3>2. g[n + 1] = Replay(g[n], raw[n + 1])
      BY <1>1, <2>1, <3>1 DEF ReplayUpTo
    <3>3. PICK kept : KeptOf(g[n].out, kept, raw, n)
      BY <3>1
    <3>4. ReplaySplits(g[n], T, table)
      BY <1>3, <3>1
    <3>5. \E more : KeptOf(Replay(g[n], raw[n + 1]).out, more, raw, n + 1)
      BY <2>1, <3>1, <3>3, <3>4, KeptStep
    <3> QED BY <3>2, <3>5
  <2> QED BY <2>1, <2>2
<1> HIDE DEF D
<1>6. D = Nat
  BY <1>4, <1>5, SetInduction DEF D
<1> QED BY <1>1, <1>2, <1>6 DEF D

(* A table that has the values of the received lines repeats them.         *)
LEMMA PrefixValues ==
  ASSUME NEW T, NEW raw \in Seq(RawLines(T)), NEW k \in Nat, NEW n \in 1..Len(raw), n = k + 1
  PROVE  /\ SubSeq(raw, 1, n) = Append(SubSeq(raw, 1, k), raw[n])
         /\ \E rest \in Seq(T) :
              Values(raw, raw[n].name) = Append(Values(SubSeq(raw, 1, k), raw[n].name), raw[n].value) \o rest
<1> DEFINE ln    == raw[n]
           first == SubSeq(raw, 1, k)
           upto  == SubSeq(raw, 1, n)
           after == SubSeq(raw, n + 1, Len(raw))
           L     == RawLines(T)
<1>1. Len(raw) \in Nat /\ ln \in L /\ ln.value \in T
  <2>1. Len(raw) \in Nat /\ ln \in L
    BY LenProperties, ElementOfSeq
  <2> QED BY <2>1 DEF RawLines
<1>2. first \in Seq(L) /\ Len(first) = k /\ \A i \in 1..(k) : first[i] = raw[i]
  <2>1. k \in 0..Len(raw) /\ raw \in Seq(L)
    BY <1>1
  <2> HIDE DEF L
  <2> QED BY <1>1, <2>1
<1>3. upto \in Seq(L) /\ Len(upto) = n /\ \A i \in 1..n : upto[i] = raw[i]
  OBVIOUS
<1>4. after \in Seq(L) /\ Len(after) = Len(raw) - n /\ \A i \in 1..(Len(raw) - n) : after[i] = raw[i + n]
  BY SuffixElements
<1>a. \A l \in L : l.value \in T
  BY DEF RawLines
<1> HIDE DEF first, upto, after, ln, L
<1>5. upto = Append(first, ln)
  <2> DEFINE a == Append(first, ln)
  <2>1. a \in Seq(L) /\ Len(a) = Len(first) + 1 /\ a[Len(first) + 1] = ln /\ \A i \in 1..Len(first) : a[i] = first[i]
    BY <1>1, <1>2, AppendProperties
  <2> HIDE DEF a
  <2>2. Len(a) = n
    BY <1>2, <2>1
  <2>3. \A i \in 1..Len(upto) : upto[i] = a[i]
    <3> SUFFICES ASSUME NEW i \in 1..n PROVE upto[i] = a[i]
      BY <1>3
    <3>1. CASE i = n
      <4>1. i = Len(first) + 1
        BY <1>2, <3>1
      <4> QED BY <1>3, <2>1, <3>1, <4>1 DEF ln
    <3>2. CASE i # n
      <4>1. i \in 1..(k)
        BY <3>2
      <4> QED BY <1>2, <1>3, <2>1, <4>1
    <3> QED BY <3>1, <3>2
  <2>4. upto = a
    BY <1>3, <2>1, <2>2, <2>3, SeqEqual
  <2> QED BY <2>4 DEF a
<1>6. raw = upto \o after
  <2> DEFINE b == upto \o after
  <2>1. b \in Seq(L) /\ Len(b) = Len(upto) + Len(after)
        /\ \A i \in 1..Len(b) : b[i] = IF i <= Len(upto) THEN upto[i] ELSE after[i - Len(upto)]
    <3>1. b \in Seq(L) /\ Len(b) = Len(upto) + Len(after)
      BY <1>3, <1>4, ConcatProperties
    <3>2. \A i \in 1..(Len(upto) + Len(after)) : b[i] = IF i <= Len(upto) THEN upto[i] ELSE after[i - Len(upto)]
      <4>1. upto \in Seq(L) /\ after \in Seq(L)
        BY <1>3, <1>4
      <4> QED BY <4>1, ConcatProperties
    <3> QED BY <3>1, <3>2
  <2> HIDE DEF b
  <2>2. Len(b) = Len(raw)
    BY <1>1, <1>3, <1>4, <2>1
  <2>3. \A i \in 1..Len(raw) : raw[i] = b[i]
    <3> SUFFICES ASSUME NEW i \in 1..Len(raw) PROVE raw[i] = b[i]
      OBVIOUS
    <3>1. CASE i <= n
      <4>1. i \in 1..n
        BY <3>1
      <4> QED BY <1>3, <2>1, <2>2, <3>1, <4>1
    <3>2. CASE ~(i <= n)
      <4>1. i - n \in 1..(Len(raw) - n) /\ (i - n) + n = i
        BY <1>1, <3>2
      <4>2. b[i] = after[i - n]
        BY <1>3, <2>1, <2>2, <3>2
      <4> QED BY <1>4, <4>1, <4>2
    <3> QED BY <3>1, <3>2
  <2>4. raw = b
    <3>1. raw \in Seq(L)
      BY DEF L
    <3> QED BY <2>1, <2>2, <2>3, <3>1, SeqEqual
  <2> QED BY <2>4 DEF b
<1> DEFINE name == ln.name
           rest == Values(after, name)
<1>7. Values(upto \o after, name) = Values(upto, name) \o rest
  BY <1>3, <1>4, ValuesOfBoth
<1>8. rest \in Seq(T)
  <2>1. rest \in Seq({l.value : l \in L})
    BY <1>4, ValuesAreValues
  <2>2. {l.value : l \in L} \subseteq T
    BY <1>a
  <2> DEFINE V == {l.value : l \in L}
  <2> HIDE DEF V, rest
  <2>3. Seq(V) \subseteq Seq(T)
    BY <2>2 DEF V
  <2> QED BY <2>1, <2>3 DEF V
<1>9. Values(Append(first, ln), name) = ValueStep(Values(first, name), name, ln)
  BY <1>1, <1>2, MoreValues
<1>10. Values(raw, name) = Append(Values(first, name), ln.value) \o rest
  BY <1>5, <1>6, <1>7, <1>9 DEF ValueStep
<1> QED BY <1>5, <1>8, <1>10 DEF first, upto, ln

(* A value at the end, and what follows it, is the same in two ways to     *)
(* take a sequence apart.                                                  *)
SameWhole(v, left, x, rest) == v \o left = Append(v, x) \o rest

(* Then the next value is the one that is put on.                          *)
LEMMA SameRest ==
  ASSUME NEW T, NEW v \in Seq(T), NEW x \in T, NEW rest \in Seq(T), NEW left \in Seq(T),
         SameWhole(v, left, x, rest)
  PROVE  left # <<>> /\ Head(left) = x
<1> DEFINE a == Append(v, x)
           b == v \o left
<1>1. Len(v) \in Nat /\ Len(rest) \in Nat /\ Len(left) \in Nat
  BY LenProperties
<1>2. a \in Seq(T) /\ Len(a) = Len(v) + 1 /\ a[Len(v) + 1] = x
  BY AppendProperties
<1> HIDE DEF a
<1>3. Len(a \o rest) = Len(a) + Len(rest)
  BY <1>2, ConcatProperties
<1>4. Len(v) + 1 \in 1..(Len(a) + Len(rest)) /\ Len(v) + 1 <= Len(a)
  BY <1>1, <1>2
<1>5. (a \o rest)[Len(v) + 1] = x
  <2>1. \A i \in 1..(Len(a) + Len(rest)) : (a \o rest)[i] = IF i <= Len(a) THEN a[i] ELSE rest[i - Len(a)]
    BY <1>2, ConcatProperties
  <2> QED BY <1>2, <1>4, <2>1
<1>6. b = a \o rest
  <2>1. v \o left = Append(v, x) \o rest
    BY DEF SameWhole
  <2> QED BY <2>1 DEF a
<1>7. Len(b) = Len(v) + Len(left)
  BY ConcatProperties
<1>8. Len(left) > 0
  BY <1>1, <1>2, <1>3, <1>6, <1>7
<1>9. b[Len(v) + 1] = left[1]
  <2>1. \A i \in 1..(Len(v) + Len(left)) : b[i] = IF i <= Len(v) THEN v[i] ELSE left[i - Len(v)]
    BY ConcatProperties
  <2>2. Len(v) + 1 \in 1..(Len(v) + Len(left)) /\ ~(Len(v) + 1 <= Len(v)) /\ (Len(v) + 1) - Len(v) = 1
    BY <1>1, <1>8
  <2> HIDE DEF b
  <2> QED BY <2>1, <2>2
<1>10. left # <<>>
  BY <1>8
<1>11. Head(left) = left[1]
  BY <1>10, HeadTailProperties
<1> QED BY <1>5, <1>6, <1>9, <1>10, <1>11

(* What adds nothing is empty.                                             *)
LEMMA NothingLeft ==
  ASSUME NEW T, NEW v \in Seq(T), NEW left \in Seq(T), v \o left = v
  PROVE  left = <<>>
<1>1. Len(v) \in Nat /\ Len(left) \in Nat /\ Len(v \o left) = Len(v) + Len(left)
  BY LenProperties, ConcatProperties
<1>2. Len(left) = 0
  BY <1>1
<1> QED BY <1>2, EmptySeq

(* Received lines whose values are the table's are repeated verbatim.      *)
LEMMA Verbatim ==
  ASSUME NEW T, NEW raw \in Seq(RawLines(T)), NEW table \in [Names -> Seq(T)],
         \A name \in Names : table[name] = Values(raw, name)
  PROVE  Reconciled(raw, table) = raw
<1>1. PICK g : ReplayUpTo(raw, table, g) /\ Replayed(raw, table) = g[Len(raw)]
  BY ReplayInOrder
<1>2. Len(raw) \in Nat /\ \A n \in 1..Len(raw) : raw[n] \in RawLines(T)
  BY LenProperties, ElementOfSeq
<1>3. \A n \in 0..Len(raw) : ReplaySplits(g[n], T, table)
  BY <1>1, ReplayedSplits
<1> DEFINE D == {n \in Nat : n <= Len(raw) => g[n].out = SubSeq(raw, 1, n)}
<1>4. 0 \in D
  <2>1. g[0].out = <<>>
    BY <1>1 DEF ReplayUpTo
  <2>2. SubSeq(raw, 1, 0) = <<>>
    OBVIOUS
  <2> QED BY <2>1, <2>2
<1>5. ASSUME NEW n \in D PROVE n + 1 \in D
  <2>1. n \in Nat /\ (n + 1) - 1 = n
    OBVIOUS
  <2>2. ASSUME n + 1 <= Len(raw) PROVE g[n + 1].out = SubSeq(raw, 1, n + 1)
    <3> DEFINE ln    == raw[n + 1]
               first == SubSeq(raw, 1, n)
               s     == g[n]
               name  == ln.name
               left  == s.left[name]
    <3>1. n + 1 \in 1..Len(raw) /\ n \in 0..Len(raw)
      BY <1>2, <2>1, <2>2
    <3>2. s.out = first
      BY <3>1
    <3>3. g[n + 1] = Replay(s, ln)
      BY <1>1, <2>1, <3>1 DEF ReplayUpTo
    <3>4. ln \in RawLines(T)
      BY <1>2, <3>1
    <3>5. ln = [ln EXCEPT !.value = ln.value] /\ name \in Names /\ ln.value \in T
      BY <3>4 DEF RawLines
    <3>6. ReplaySplits(s, T, table)
      BY <1>3, <3>1
    <3>k. PICK m \in 1..Len(raw) : m = n + 1
      BY <3>1
    <3>l. /\ SubSeq(raw, 1, m) = Append(SubSeq(raw, 1, n), raw[m])
          /\ \E rest \in Seq(T) :
               Values(raw, raw[m].name) = Append(Values(SubSeq(raw, 1, n), raw[m].name), raw[m].value) \o rest
      BY <2>1, <3>k, PrefixValues
    <3>7. SubSeq(raw, 1, n + 1) = Append(first, ln)
      BY <3>k, <3>l
    <3>8. PICK rest \in Seq(T) : Values(raw, name) = Append(Values(first, name), ln.value) \o rest
      BY <3>k, <3>l
    <3>9. left \in Seq(T) /\ Values(first, name) \in Seq(T) /\ Values(first, name) \o left = Values(raw, name)
      BY <3>2, <3>5, <3>6 DEF ReplaySplits
    <3> HIDE DEF first, s, ln, left, name
    <3>10. left # <<>> /\ Head(left) = ln.value
      <4> DEFINE v == Values(first, name)
                 x == ln.value
      <4>1. x \in T /\ v \in Seq(T) /\ left \in Seq(T)
        BY <3>5, <3>9
      <4>2. v \o left = Append(v, x) \o rest
        BY <3>8, <3>9
      <4> HIDE DEF v, x
      <4>3. SameWhole(v, left, x, rest)
        BY <4>2 DEF SameWhole
      <4>4. left # <<>> /\ Head(left) = x
        BY <4>1, <4>3, SameRest
      <4> QED BY <4>4 DEF x
    <3>11. Replay(s, ln).out = Append(s.out, [ln EXCEPT !.value = Head(left)])
      BY <3>10 DEF Replay, left, name
    <3> QED BY <3>2, <3>3, <3>5, <3>7, <3>10, <3>11
  <2> QED BY <2>1, <2>2
<1> HIDE DEF D
<1>6. D = Nat
  BY <1>4, <1>5, SetInduction DEF D
<1> DEFINE end == Replayed(raw, table)
<1>7. end.out = raw
  <2>1. g[Len(raw)].out = SubSeq(raw, 1, Len(raw))
    BY <1>2, <1>6 DEF D
  <2>2. SubSeq(raw, 1, Len(raw)) = raw
    OBVIOUS
  <2> QED BY <1>1, <2>1, <2>2
<1>8. ReplaySplits(end, T, table)
  BY <1>1, <1>2, <1>3
<1> HIDE DEF end
<1>9. ASSUME NEW name \in Names PROVE end.left[name] = <<>>
  <2> DEFINE v == Values(raw, name)
             left == end.left[name]
  <2>1. v \in Seq(T) /\ left \in Seq(T) /\ v \o left = v
    BY <1>7, <1>8 DEF ReplaySplits
  <2> HIDE DEF v, left
  <2>2. left = <<>>
    BY <2>1, NothingLeft
  <2> QED BY <2>2 DEF left
<1>10. AddsLeft(Reconciled(raw, table), end, T, table, 9)
  BY ReconciledAdds DEF end
<1>11. Reconciled(raw, table) = end.out
  BY <1>9, <1>10 DEF AddsLeft
<1> QED BY <1>7, <1>11

(* A line of the head, or the first one.                                   *)
HeadLines == ReceivedLines \cup {FirstLine}

(* One line more, or its fold, leaves lines.                               *)
LEMMA WithLineIsLines ==
  ASSUME NEW T, NEW out \in Seq(RawLines(T)), NEW ln \in HeadLines
  PROVE  \E U : WithLine(out, ln) \in Seq(RawLines(U))
<1>1. ln = Line(ln.name, "raw", ln.value) /\ ln.name \in Names \cup {"fold", "junk"}
  <2>1. CASE ln \in ReceivedLines
    BY <2>1, LinesAreLines
  <2>2. CASE ln = FirstLine
    BY <2>2 DEF Line, FirstLine
  <2> QED BY <2>1, <2>2 DEF HeadLines
<1>2. CASE ln.name = "fold" /\ out = <<>>
  <2>1. WithLine(out, ln) = out
    BY <1>2 DEF WithLine
  <2> QED BY <2>1
<1>3. CASE ln.name = "fold" /\ out # <<>>
  <2> DEFINE n   == Len(out)
             old == out[n]
             v   == old.value \o " " \o ln.value
             x   == [old EXCEPT !.value = v]
             U   == T \cup {v}
             all == [i \in 1..n |-> IF i = n THEN x ELSE out[i]]
  <2>1. n \in Nat /\ n > 0 /\ n \in 1..n
    BY <1>3, LenProperties, EmptySeq
  <2>2. old \in RawLines(T) /\ \A i \in 1..n : out[i] \in RawLines(T)
    BY <2>1, ElementOfSeq
  <2>3. out = [i \in 1..n |-> out[i]]
    BY LenProperties
  <2>4. WithLine(out, ln) = [out EXCEPT ![n] = x]
    <3>1. WithLine(out, ln) = [out EXCEPT ![Len(out)].value = @ \o " " \o ln.value]
      BY <1>3 DEF WithLine
    <3> QED BY <2>1, <2>3, <3>1
  <2> HIDE DEF v, old
  <2>5. x \in RawLines(U) /\ RawLines(T) \subseteq RawLines(U)
    BY <2>2 DEF RawLines
  <2> HIDE DEF x, U
  <2>6. all \in Seq(RawLines(U))
    <3>1. \A i \in 1..n : (IF i = n THEN x ELSE out[i]) \in RawLines(U)
      BY <2>2, <2>5
    <3> QED BY <2>1, <3>1
  <2>7. [out EXCEPT ![n] = x] = all
    BY <2>3
  <2> QED BY <2>4, <2>6, <2>7
<1>4. CASE ln.name = "junk"
  <2>1. WithLine(out, ln) = out
    BY <1>4 DEF WithLine
  <2> QED BY <2>1
<1>5. CASE ln.name \notin {"fold", "junk"}
  <2> DEFINE U == T \cup {ln.value}
  <2>1. WithLine(out, ln) = Append(out, ln)
    BY <1>5 DEF WithLine
  <2>2. ln \in RawLines(U) /\ RawLines(T) \subseteq RawLines(U)
    BY <1>1, <1>5 DEF RawLines, Line
  <2> HIDE DEF U
  <2>3. out \in Seq(RawLines(U))
    BY <2>2
  <2>4. Append(out, ln) \in Seq(RawLines(U))
    BY <2>2, <2>3, AppendProperties
  <2> QED BY <2>1, <2>4
<1> QED BY <1>2, <1>3, <1>4, <1>5

(* What is parsed of a head is lines.                                      *)
LEMMA ParsedIsLines ==
  ASSUME NEW heading \in Seq(HeadLines)
  PROVE  \E T : ParseHead(heading) \in Seq(RawLines(T))
<1>1. PICK g : HeadUpTo(heading, g) /\ ParseHead(heading) = g[Len(heading)]
  BY HeadInOrder
<1>2. Len(heading) \in Nat /\ \A n \in 1..Len(heading) : heading[n] \in HeadLines
  BY LenProperties, ElementOfSeq
<1> DEFINE D == {n \in Nat : n <= Len(heading) => \E T : g[n] \in Seq(RawLines(T))}
<1>3. 0 \in D
  <2>1. g[0] = <<>> /\ <<>> \in Seq(RawLines({}))
    BY <1>1 DEF HeadUpTo
  <2> QED BY <2>1
<1>4. ASSUME NEW n \in D PROVE n + 1 \in D
  <2>1. n \in Nat /\ (n + 1) - 1 = n
    OBVIOUS
  <2>2. ASSUME n + 1 <= Len(heading) PROVE \E T : g[n + 1] \in Seq(RawLines(T))
    <3>1. n + 1 \in 1..Len(heading) /\ n <= Len(heading)
      BY <1>2, <2>1, <2>2
    <3>2. PICK T : g[n] \in Seq(RawLines(T))
      BY <3>1
    <3>3. g[n + 1] = HeadStep(g[n], heading, n + 1)
      BY <1>1, <2>1, <3>1 DEF HeadUpTo
    <3>4. \E U : WithLine(g[n], heading[n + 1]) \in Seq(RawLines(U))
      BY <1>2, <3>1, <3>2, WithLineIsLines
    <3>5. CASE n + 1 = 1
      <4>1. g[n + 1] = g[n]
        BY <3>3, <3>5 DEF HeadStep
      <4> QED BY <3>2, <4>1
    <3>6. CASE n + 1 # 1
      <4>1. g[n + 1] = WithLine(g[n], heading[n + 1])
        BY <3>3, <3>6 DEF HeadStep
      <4> QED BY <3>4, <4>1
    <3> QED BY <3>5, <3>6
  <2> QED BY <2>1, <2>2
<1> HIDE DEF D
<1>5. D = Nat
  BY <1>3, <1>4, SetInduction DEF D
<1> QED BY <1>1, <1>2, <1>5 DEF D

(* Values that a message may have: those of its lines and those that the   *)
(* program writes.                                                         *)
Vocabulary(T) ==
  /\ {"", "sent", "decoded", "edited", "h", "trailers", "proxy"} \subseteq T
  /\ Raw \in Seq(RawLines(T))

(* The values that a message may ever have are a set.                      *)
LEMMA HasVocabulary == ASSUME received \in Seq(HeadLines) PROVE \E T : Vocabulary(T)
<1>1. PICK T : Raw \in Seq(RawLines(T))
  BY ParsedIsLines DEF Raw
<1> DEFINE F == {"", "sent", "decoded", "edited", "h", "trailers", "proxy"}
           U == T \cup F
<1>2. F \subseteq U
  OBVIOUS
<1> HIDE DEF F
<1>3. RawLines(T) \subseteq RawLines(U)
  BY DEF RawLines
<1> HIDE DEF U
<1>4. Raw \in Seq(RawLines(U))
  BY <1>1, <1>3
<1>5. Vocabulary(U)
  BY <1>2, <1>4 DEF Vocabulary, F
<1> QED BY <1>5

(* The values of received lines are of the vocabulary.                     *)
LEMMA RawValues ==
  ASSUME NEW T, NEW raw \in Seq(RawLines(T)), NEW name
  PROVE  Values(raw, name) \in Seq(T) /\ (Values(raw, name) # <<>> => FirstValue(raw, name) \in T)
<1> DEFINE V == {ln.value : ln \in RawLines(T)}
           v == Values(raw, name)
<1>1. v \in Seq(V)
  BY ValuesAreValues
<1>2. V \subseteq T
  BY DEF RawLines
<1> HIDE DEF V, v
<1>3. v \in Seq(T)
  BY <1>1, <1>2
<1>4. v # <<>> => v[1] \in T
  BY <1>3, HeadAndTail, HeadTailProperties
<1> QED BY <1>3, <1>4 DEF v, FirstValue

(* The table of received lines has them all.                               *)
LEMMA TableIsTable ==
  ASSUME NEW T, NEW raw \in Seq(RawLines(T))
  PROVE  Table(raw) \in [Names -> Seq(T)]
<1>1. ASSUME NEW n \in Names PROVE Table(raw)[n] \in Seq(T)
  <2>1. Values(raw, n) \in Seq(T) /\ (Values(raw, n) # <<>> => FirstValue(raw, n) \in T)
    BY RawValues
  <2>2. <<>> \in Seq(T) /\ (Values(raw, n) # <<>> => <<FirstValue(raw, n)>> \in Seq(T))
    BY <2>1
  <2> DEFINE one == <<FirstValue(raw, n)>>
             non == <<>>
  <2> HIDE DEF one, non
  <2>3. Table(raw)[n] = non \/ Table(raw)[n] = Values(raw, n) \/ (Table(raw)[n] = one /\ Values(raw, n) # <<>>)
    BY DEF Table, one, non
  <2> QED BY <2>1, <2>2, <2>3 DEF one, non
<1>2. Table(raw) = [n \in Names |-> Table(raw)[n]]
  BY DEF Table
<1> DEFINE t == Table(raw)
<1> HIDE DEF t
<1>3. t \in [Names -> Seq(T)]
  BY <1>1, <1>2 DEF t
<1> QED BY <1>3 DEF t

(* So has an edited one.                                                   *)
LEMMA EditedIsTable ==
  ASSUME NEW T, Vocabulary(T), NEW e \in Edits
  PROVE  \E U : Vocabulary(U) /\ Edited(e) \in [Names -> Seq(U)]
<1> DEFINE V == UNION {ToSet(e[n]) : n \in DOMAIN e}
           U == T \cup V
<1>1. T \subseteq U /\ \A n \in DOMAIN e : ToSet(e[n]) \subseteq U
  OBVIOUS
<1> HIDE DEF V, U
<1>2. Vocabulary(U)
  <2>1. RawLines(T) \subseteq RawLines(U)
    BY <1>1 DEF RawLines
  <2>2. Raw \in Seq(RawLines(T))
    BY DEF Vocabulary
  <2>3. Raw \in Seq(RawLines(U))
    BY <2>1, <2>2
  <2>4. {"", "sent", "decoded", "edited", "h", "trailers", "proxy"} \subseteq T
    BY DEF Vocabulary
  <2>5. {"", "sent", "decoded", "edited", "h", "trailers", "proxy"} \subseteq U
    BY <1>1, <2>4
  <2> QED BY <2>3, <2>5 DEF Vocabulary
<1>3. Table(Raw) \in [Names -> Seq(U)]
  BY <1>2, TableIsTable DEF Vocabulary
<1>4. ASSUME NEW n \in Names PROVE Edited(e)[n] \in Seq(U)
  <2>1. CASE n \in DOMAIN e
    <3>1. Edited(e)[n] = e[n]
      BY <2>1 DEF Edited
    <3>2. e[n] \in Seq(ToSet(e[n])) /\ ToSet(e[n]) \subseteq U
      BY <1>1, <2>1, EditsAreValues
    <3> DEFINE s == e[n]
               S == ToSet(e[n])
    <3> HIDE DEF s, S
    <3>3. s \in Seq(S) /\ S \subseteq U
      BY <3>2 DEF s, S
    <3>4. s \in Seq(U)
      BY <3>3
    <3> QED BY <3>1, <3>4 DEF s
  <2>2. CASE n \notin DOMAIN e
    <3>1. Edited(e)[n] = Table(Raw)[n]
      BY <2>2 DEF Edited
    <3> QED BY <1>3, <3>1
  <2> QED BY <2>1, <2>2
<1>5. Edited(e) = [n \in Names |-> Edited(e)[n]]
  BY DEF Edited
<1> DEFINE t == Edited(e)
<1> HIDE DEF t
<1>6. t \in [Names -> Seq(U)]
  BY <1>4, <1>5 DEF t
<1> QED BY <1>2, <1>6 DEF t

(* Names that frame a message.                                             *)
LEMMA Lengths == "Content-Length" \in Names /\ "Transfer-Encoding" \in Names /\ "Content-Encoding" \in Names
                 /\ "Proxy-Authorization" \in Names /\ "Host" \in Names /\ "Te" \in Names /\ HopByHop \subseteq Names
  BY NamesAre DEF HopByHop

(* Lines that agree with the body stay; the others are made to.            *)
Agree(leaving, lines, body) ==
  /\ Values(leaving, "Transfer-Encoding") = <<>>
  /\ Values(leaving, "Content-Length") \in {<<>>, <<body>>}
  /\ body # "" => Values(leaving, "Content-Length") = <<body>>
  /\ \A n \in Names \ {"Content-Length", "Transfer-Encoding"} : Values(leaving, n) = Values(lines, n)

(* The transport leaves one length, which is the body's.                   *)
LEMMA NormalizedLines ==
  ASSUME NEW T, NEW lines \in Seq(WireLines(T)), NEW body \in T
  PROVE  Agree(NormalizeFraming(lines, body), lines, body)
<1> DEFINE leaving    == NormalizeFraming(lines, body)
           lengths == Values(lines, "Content-Length")
           agree   == /\ Values(lines, "Transfer-Encoding") = <<>>
                      /\ (body = "" /\ lengths = <<>>) \/ lengths = <<body>>
           free    == Unframed(lines)
           W       == WireLines(T)
           ln      == Line("Content-Length", "canon", body)
<1>1. free \in Seq(W) /\ \A n : Values(free, n) =
             IF n \in {"Content-Length", "Transfer-Encoding"} THEN <<>> ELSE Values(lines, n)
  BY ValuesWithout DEF Unframed
<1>2. ln \in W /\ ln.name = "Content-Length" /\ ln.value = body
  BY Lengths DEF WireLines, Line
<1>3. leaving = IF agree THEN lines ELSE IF body = "" THEN free ELSE Append(free, ln)
  BY DEF NormalizeFraming
<1> HIDE DEF free, ln, W, leaving
<1>4. ASSUME NEW n PROVE Values(Append(free, ln), n) = IF n = "Content-Length" THEN Append(Values(free, n), body)
                                                     ELSE Values(free, n)
  <2>1. Values(Append(free, ln), n) = ValueStep(Values(free, n), n, ln)
    BY <1>1, <1>2, MoreValues
  <2> QED BY <1>2, <2>1 DEF ValueStep
<1>5. CASE agree
  <2>1. leaving = lines
    BY <1>3, <1>5
  <2> QED BY <1>5, <2>1 DEF leaving, Agree
<1>6. CASE ~agree /\ body = ""
  <2>1. leaving = free
    BY <1>3, <1>6
  <2>2. Values(leaving, "Transfer-Encoding") = <<>> /\ Values(leaving, "Content-Length") = <<>>
    BY <1>1, <2>1
  <2>3. \A n \in Names \ {"Content-Length", "Transfer-Encoding"} : Values(leaving, n) = Values(lines, n)
    BY <1>1, <2>1
  <2> QED BY <1>6, <2>2, <2>3 DEF leaving, Agree
<1>7. CASE ~agree /\ body # ""
  <2>1. leaving = Append(free, ln)
    BY <1>3, <1>7
  <2>2. Values(free, "Transfer-Encoding") = <<>> /\ Values(free, "Content-Length") = <<>>
    BY <1>1
  <2>3. Values(leaving, "Transfer-Encoding") = <<>>
    BY <1>4, <2>1, <2>2
  <2>4. Values(leaving, "Content-Length") = Append(<<>>, body)
    BY <1>4, <2>1, <2>2
  <2>5. Append(<<>>, body) = <<body>>
    OBVIOUS
  <2>6. \A n \in Names \ {"Content-Length", "Transfer-Encoding"} : Values(leaving, n) = Values(lines, n)
    BY <1>1, <1>4, <2>1
  <2> QED BY <2>3, <2>4, <2>5, <2>6 DEF leaving, Agree
<1> QED BY <1>5, <1>6, <1>7

(* The credentials that leave are those for the proxy.                     *)
LEMMA ProxyLines ==
  ASSUME NEW T, "proxy" \in T, NEW lines \in Seq(WireLines(T))
  PROVE  LET leaving == WithProxyAuthorization(lines) IN
         /\ leaving \in Seq(WireLines(T)) /\ Values(leaving, "Proxy-Authorization") = <<"proxy">>
         /\ \A n \in Names \ {"Proxy-Authorization"} : Values(leaving, n) = Values(lines, n)
<1> DEFINE leaving == WithProxyAuthorization(lines)
           free == Without(lines, {"Proxy-Authorization"})
           W    == WireLines(T)
           ln   == Line("Proxy-Authorization", "canon", "proxy")
<1>1. free \in Seq(W) /\ \A n : Values(free, n) = IF n \in {"Proxy-Authorization"} THEN <<>> ELSE Values(lines, n)
  BY ValuesWithout
<1>2. ln \in W /\ ln.name = "Proxy-Authorization" /\ ln.value = "proxy"
  BY Lengths DEF WireLines, Line
<1>3. leaving = Append(free, ln)
  BY DEF WithProxyAuthorization
<1> HIDE DEF free, ln, W, leaving
<1>4. ASSUME NEW n PROVE Values(leaving, n) = IF n = "Proxy-Authorization" THEN Append(Values(free, n), "proxy")
                                           ELSE Values(free, n)
  <2>1. Values(leaving, n) = ValueStep(Values(free, n), n, ln)
    BY <1>1, <1>2, <1>3, MoreValues
  <2> QED BY <1>2, <2>1 DEF ValueStep
<1>5. leaving \in Seq(W)
  BY <1>1, <1>2, <1>3, AppendProperties
<1>6. Values(leaving, "Proxy-Authorization") = <<"proxy">>
  <2>1. Values(leaving, "Proxy-Authorization") = Append(<<>>, "proxy")
    BY <1>1, <1>4
  <2>2. Append(<<>>, "proxy") = <<"proxy">>
    OBVIOUS
  <2> QED BY <2>1, <2>2
<1>7. \A n \in Names \ {"Proxy-Authorization"} : Values(leaving, n) = Values(lines, n)
  BY <1>1, <1>4
<1> QED BY <1>5, <1>6, <1>7 DEF leaving, W

(* What the lines of a message are made of: its table, with the lines for  *)
(* this hop replaced.                                                      *)
FinalTable(t, table, T, coding, lengths) ==
  /\ t \in [Names -> Seq(T)]
  /\ t["Transfer-Encoding"] = <<>> /\ t["Proxy-Authorization"] = <<>> /\ t["Connection"] = <<>>
  /\ t["Content-Encoding"] = coding /\ t["Content-Length"] = lengths
  /\ \A n \in EndToEnd : t[n] = table[n]

(* The lines for this hop are taken out of the table.                      *)
LEMMA StrippedTable ==
  ASSUME NEW T, NEW table \in [Names -> Seq(T)], NEW coding \in Seq(T)
  PROVE  LET t == [StripHopByHop(table) EXCEPT !["Content-Encoding"] = coding] IN
         /\ FinalTable(t, table, T, coding, table["Content-Length"])
         /\ t["Host"] = table["Host"] /\ t["Te"] = <<>>
<1> DEFINE s == StripHopByHop(table)
           t == [s EXCEPT !["Content-Encoding"] = coding]
<1>1. s = [n \in Names |-> IF n \in HopByHop THEN <<>> ELSE table[n]]
  BY DEF StripHopByHop
<1> HIDE DEF s
<1>2. \A n \in Names : s[n] = IF n \in HopByHop THEN <<>> ELSE table[n]
  BY <1>1
<1>3. ASSUME NEW n \in Names PROVE s[n] \in Seq(T)
  <2>1. CASE n \in HopByHop
    <3>1. s[n] = <<>> /\ <<>> \in Seq(T)
      BY <1>2, <2>1
    <3> QED BY <3>1
  <2>2. CASE n \notin HopByHop
    <3>1. s[n] = table[n] /\ table[n] \in Seq(T)
      BY <1>2, <2>2
    <3> QED BY <3>1
  <2> QED BY <2>1, <2>2
<1>4. s \in [Names -> Seq(T)]
  BY <1>1, <1>3
<1>5. t \in [Names -> Seq(T)]
  BY <1>4
<1>6. /\ t["Content-Encoding"] = coding
      /\ \A n \in Names : n # "Content-Encoding" => t[n] = s[n]
  BY <1>4, Lengths
<1> HIDE DEF t
<1>7. t["Transfer-Encoding"] = <<>> /\ t["Proxy-Authorization"] = <<>> /\ t["Connection"] = <<>> /\ t["Te"] = <<>>
  BY <1>2, <1>6, Lengths, NamesAre DEF HopByHop
<1>8. t["Content-Length"] = table["Content-Length"] /\ t["Host"] = table["Host"]
  BY <1>2, <1>6, Lengths DEF HopByHop
<1>9. \A n \in EndToEnd : t[n] = table[n]
  BY <1>2, <1>6 DEF EndToEnd
<1> QED BY <1>5, <1>6, <1>7, <1>8, <1>9 DEF FinalTable, t, s

(* One name's values are replaced.                                         *)
Changed(u, t, name, own) == u = [t EXCEPT ![name] = own]

(* A length is replaced by the body's own.                                 *)
LEMMA WithLengths ==
  ASSUME NEW T, NEW table, NEW t, NEW coding, NEW old, FinalTable(t, table, T, coding, old), NEW lengths \in Seq(T),
         NEW u, Changed(u, t, "Content-Length", lengths)
  PROVE  /\ FinalTable(u, table, T, coding, lengths)
         /\ u["Host"] = t["Host"] /\ u["Te"] = t["Te"]
<1>1. t \in [Names -> Seq(T)]
  BY DEF FinalTable
<1>2. u \in [Names -> Seq(T)] /\ u["Content-Length"] = lengths /\ \A n \in Names : n # "Content-Length" => u[n] = t[n]
  BY <1>1, Lengths DEF Changed
<1>3. u["Transfer-Encoding"] = <<>> /\ u["Proxy-Authorization"] = <<>> /\ u["Connection"] = <<>> /\ u["Content-Encoding"] = coding
  BY <1>2, Lengths, NamesAre DEF FinalTable
<1>4. \A n \in EndToEnd : u[n] = table[n]
  BY <1>2 DEF FinalTable, EndToEnd
<1>5. u["Host"] = t["Host"] /\ u["Te"] = t["Te"]
  BY <1>2, Lengths
<1> QED BY <1>2, <1>3, <1>4, <1>5 DEF FinalTable

(* A name that is not about the body is replaced.                          *)
LEMMA WithOwn ==
  ASSUME NEW T, NEW table, NEW t, NEW coding, NEW lengths, FinalTable(t, table, T, coding, lengths),
         NEW name \in {"Te", "Host"}, NEW own \in Seq(T), NEW u, Changed(u, t, name, own)
  PROVE  /\ FinalTable(u, table, T, coding, lengths) /\ u[name] = own
         /\ \A n \in Names : n # name => u[n] = t[n]
<1>1. t \in [Names -> Seq(T)] /\ name \in Names
  BY Lengths DEF FinalTable
<1>2. u \in [Names -> Seq(T)] /\ u[name] = own /\ \A n \in Names : n # name => u[n] = t[n]
  BY <1>1 DEF Changed
<1>3. /\ u["Transfer-Encoding"] = <<>> /\ u["Proxy-Authorization"] = <<>> /\ u["Connection"] = <<>>
      /\ u["Content-Encoding"] = coding /\ u["Content-Length"] = lengths
  BY <1>2, Lengths, NamesAre DEF FinalTable
<1>4. \A n \in EndToEnd : u[n] = table[n]
  BY <1>2 DEF FinalTable, EndToEnd, HopByHop
<1> QED BY <1>2, <1>3, <1>4 DEF FinalTable

(* The bytes of a message as they came.                                    *)
Bytes == {"", "sent"}

(* The body that the hooks leave.                                          *)
Leaves(body, m) == body \in {m.body, "edited", ""}

(* What a message is captured as.                                          *)
Coding == FirstValue(Raw, "Content-Encoding")

IsCaptured(m, came) == m.raw = Raw /\ m.sent = came /\ m.coding = Coding /\ m.body = Decoded(Coding, came)

(* What is captured has the lines, the body and its decoded form.          *)
LEMMA CapturedIs ==
  ASSUME NEW came
  PROVE  /\ IsCaptured(CaptureRequest(Raw, came), came)
         /\ IsCaptured(CaptureResponse(Raw, came, Received), came)
         /\ CaptureResponse(Raw, came, Received).status = Received
         /\ CaptureRequest(Raw, came).table = Table(Raw) /\ CaptureResponse(Raw, came, Received).table = Table(Raw)
  BY DEF IsCaptured, CaptureRequest, CaptureResponse, Coding

(* The body that is sent, and its coding.                                  *)
OutBody(m, body) == IF Original(m, body) THEN m.sent ELSE body
OutCoding(m, body) == IF Original(m, body) THEN <<m.coding>> ELSE <<>>

(* Sequences of at most one element.                                       *)
LEMMA Singles == ASSUME NEW T PROVE <<>> \in Seq(T) /\ \A x \in T : <<x>> \in Seq(T)
  OBVIOUS

(* The body that is sent has a coding if it is the original one.           *)
LEMMA BodyAndCoding ==
  ASSUME NEW T, Vocabulary(T), NEW came \in Bytes, NEW m, IsCaptured(m, came), NEW body, Leaves(body, m)
  PROVE  /\ OutBody(m, body) \in {"", "sent", "decoded", "edited"} /\ OutBody(m, body) \in T
         /\ OutCoding(m, body) \in Seq(T)
         /\ OutCoding(m, body) = IF OutBody(m, body) = "sent" /\ Coding # "" THEN <<Coding>> ELSE <<>>
         /\ body = "edited" => OutBody(m, body) = "edited"
         /\ Coding \in T
<1>1. m.sent = came /\ m.coding = Coding /\ m.body = Decoded(Coding, came)
  BY DEF IsCaptured
<1>0. (came = "" \/ came = "sent") /\ body \in {m.body, "edited", ""}
  BY DEF Bytes, Leaves
<1>2. Coding \in T
  <2>1. Raw \in Seq(RawLines(T)) /\ "" \in T
    BY DEF Vocabulary
  <2>2. Values(Raw, "Content-Encoding") # <<>> => FirstValue(Raw, "Content-Encoding") \in T
    BY <2>1, RawValues
  <2>3. Values(Raw, "Content-Encoding") = <<>> => FirstValue(Raw, "Content-Encoding") = ""
    BY DEF FirstValue
  <2> QED BY <2>1, <2>2, <2>3 DEF Coding
<1>3. Decoded(Coding, came) = IF came # "" /\ Coding = "gzip" THEN "decoded" ELSE came
  BY DEF Decoded
<1>4. OutBody(m, body) \in {"", "sent", "decoded", "edited"}
  BY <1>0, <1>1, <1>3 DEF OutBody
<1>5. OutBody(m, body) \in T
  BY <1>4 DEF Vocabulary
<1>6. Original(m, body) <=> Coding # "" /\ came # "" /\ body = m.body
  BY <1>1 DEF Original
<1>7. OutCoding(m, body) = IF OutBody(m, body) = "sent" /\ Coding # "" THEN <<Coding>> ELSE <<>>
  <2>1. CASE Original(m, body)
    <3>1. OutBody(m, body) = "sent" /\ Coding # ""
      BY <1>0, <1>1, <1>6, <2>1 DEF OutBody
    <3>2. OutCoding(m, body) = <<Coding>>
      BY <1>1, <2>1 DEF OutCoding
    <3> QED BY <3>1, <3>2
  <2>2. CASE ~Original(m, body)
    <3>1. OutBody(m, body) = body /\ OutCoding(m, body) = <<>>
      BY <2>2 DEF OutBody, OutCoding
    <3>2. ~(body = "sent" /\ Coding # "")
      BY <1>0, <1>1, <1>3, <1>6, <2>2
    <3> QED BY <3>1, <3>2
  <2> QED BY <2>1, <2>2
<1>8. OutCoding(m, body) \in Seq(T)
  <2>1. PICK c \in T : c = Coding
    BY <1>2
  <2>2. <<c>> \in Seq(T)
    BY Singles
  <2>3. <<>> \in Seq(T)
    BY Singles
  <2>4. OutCoding(m, body) = <<c>> \/ OutCoding(m, body) = <<>>
    BY <1>7, <2>1
  <2>5. CASE OutCoding(m, body) = <<c>>
    BY <2>2, <2>5
  <2>6. CASE OutCoding(m, body) = <<>>
    BY <2>3, <2>6
  <2> QED BY <2>4, <2>5, <2>6
<1>9. body = "edited" => OutBody(m, body) = "edited"
  BY <1>0, <1>1, <1>3, <1>6 DEF OutBody
<1> QED BY <1>2, <1>4, <1>5, <1>7, <1>8, <1>9

(* One change after the other is all at once.                              *)
LEMMA ThreeChanges ==
  ASSUME NEW t, NEW a, NEW b, NEW c
  PROVE  [t EXCEPT !["Te"] = a, !["Content-Length"] = b, !["Host"] = c] =
         [[[t EXCEPT !["Te"] = a] EXCEPT !["Content-Length"] = b] EXCEPT !["Host"] = c]
  OBVIOUS

(* The table of a request: its Te, its length and its host are replaced.   *)
LEMMA RequestTable ==
  ASSUME NEW T, NEW table, NEW c, NEW old, NEW u0, FinalTable(u0, table, T, c, old),
         NEW e \in Seq(T), NEW l \in Seq(T), NEW h \in Seq(T), NEW u1, NEW u2, NEW u3,
         Changed(u1, u0, "Te", e), Changed(u2, u1, "Content-Length", l), Changed(u3, u2, "Host", h)
  PROVE  FinalTable(u3, table, T, c, l) /\ u3["Host"] = h /\ u3["Te"] = e
<1>1. FinalTable(u1, table, T, c, old) /\ u1["Te"] = e
  BY WithOwn
<1>2. FinalTable(u2, table, T, c, l) /\ u2["Te"] = u1["Te"]
  BY <1>1, WithLengths
<1>3. FinalTable(u3, table, T, c, l) /\ u3["Host"] = h /\ \A n \in Names : n # "Host" => u3[n] = u2[n]
  BY <1>2, WithOwn
<1> QED BY <1>1, <1>2, <1>3, Lengths

OutLengths(m, body) ==
  IF OutBody(m, body) # "" \/ Values(Raw, "Content-Length") # <<>> THEN <<OutBody(m, body)>> ELSE <<>>
OutHost == IF Values(Raw, "Host") = <<>> THEN <<"h">> ELSE <<FirstValue(Raw, "Host")>>
OutTe(table) == IF "trailers" \in ToSet(table["Te"]) THEN <<"trailers">> ELSE <<>>

(* The lines and the body of a request that the hooks have left.           *)
RequestOf(r, t, m, table, body, T) ==
  /\ FinalTable(t, table, T, OutCoding(m, body), OutLengths(m, body))
  /\ t["Host"] = OutHost /\ t["Te"] = OutTe(table)
  /\ r = [lines |-> Reconciled(Raw, t), body |-> OutBody(m, body)]

(* The lines and the body of a request that the hooks have left.           *)
LEMMA RequestLines ==
  ASSUME NEW T, Vocabulary(T), NEW table \in [Names -> Seq(T)], NEW came \in Bytes,
         NEW m, IsCaptured(m, came), NEW body, Leaves(body, m)
  PROVE  \E t : RequestOf(ApplyRequest(m, table, body), t, m, table, body, T)
<1> DEFINE coding  == OutCoding(m, body)
           lengths == OutLengths(m, body)
           te      == OutTe(table)
           t0      == [StripHopByHop(table) EXCEPT !["Content-Encoding"] = coding]
           t1      == [t0 EXCEPT !["Te"] = te]
           t2      == [t1 EXCEPT !["Content-Length"] = lengths]
           t3      == [t2 EXCEPT !["Host"] = OutHost]
<1>1. coding \in Seq(T) /\ OutBody(m, body) \in T
  BY BodyAndCoding
<1>2. lengths \in Seq(T) /\ te \in Seq(T) /\ OutHost \in Seq(T)
  <2>1. "trailers" \in T /\ "h" \in T /\ Raw \in Seq(RawLines(T))
    BY DEF Vocabulary
  <2>2. lengths \in Seq(T)
    BY <1>1, Singles DEF OutLengths
  <2>3. te \in Seq(T)
    BY <2>1, Singles DEF OutTe
  <2>4. Values(Raw, "Host") # <<>> => FirstValue(Raw, "Host") \in T
    BY <2>1, RawValues
  <2>5. OutHost \in Seq(T)
    BY <2>1, <2>4, Singles DEF OutHost
  <2> QED BY <2>2, <2>3, <2>5
<1>3. ApplyRequest(m, table, body) = [lines |-> Reconciled(Raw, t3), body |-> OutBody(m, body)]
  <2> DEFINE r0 == Recoded(m, StripHopByHop(table), body)
             final == [r0 EXCEPT !["Te"] = te, !["Content-Length"] = lengths, !["Host"] = OutHost]
  <2>1. r0 = t0
    BY DEF Recoded, OutCoding
  <2>2. m.raw = Raw
    BY DEF IsCaptured
  <2>3. ApplyRequest(m, table, body) = [lines |-> Reconciled(Raw, final), body |-> OutBody(m, body)]
    BY <2>2, Zenon DEF ApplyRequest, OutBody, OutLengths, OutTe, OutHost
  <2> HIDE DEF t0, r0, te, lengths
  <2>4. final = t3
    BY <2>1, ThreeChanges
  <2> QED BY <2>3, <2>4
<1> HIDE DEF coding, lengths, te
<1>4. FinalTable(t0, table, T, coding, table["Content-Length"])
  BY <1>1, StrippedTable
<1>5. PICK u0, u1, u2, u3, c, old, e, l, h :
           /\ u0 = t0 /\ u1 = t1 /\ u2 = t2 /\ u3 = t3
           /\ c = coding /\ old = table["Content-Length"] /\ e = te /\ l = lengths /\ h = OutHost
  OBVIOUS
<1>6. Changed(u1, u0, "Te", e) /\ Changed(u2, u1, "Content-Length", l) /\ Changed(u3, u2, "Host", h)
  BY <1>5 DEF Changed
<1> HIDE DEF t0, t3
<1>7. FinalTable(u0, table, T, c, old) /\ l \in Seq(T) /\ e \in Seq(T) /\ h \in Seq(T)
  BY <1>2, <1>4, <1>5
<1>8. FinalTable(u3, table, T, c, l) /\ u3["Host"] = h /\ u3["Te"] = e
  BY <1>6, <1>7, RequestTable
<1> QED BY <1>3, <1>5, <1>8 DEF RequestOf, coding, lengths, te

(* A message with other lines.                                             *)
LEMMA OtherLines ==
  ASSUME NEW a, NEW b, NEW c PROVE [[lines |-> a, body |-> b] EXCEPT !.lines = c] = [lines |-> c, body |-> b]
  OBVIOUS

(* The sets of short sequences.                                            *)
LEMMA SmallSets == ASSUME NEW x PROVE ToSet(<<>>) = {} /\ ToSet(<<x>>) = {x}
  BY DEF ToSet

(* Lines with the table's values are as the transport wants them.          *)
LEMMA WireOfRaw ==
  ASSUME NEW T, NEW raw \in Seq(RawLines(T)) PROVE raw \in Seq(WireLines(T))
<1>1. RawLines(T) \subseteq WireLines(T)
  BY DEF RawLines, WireLines
<1> DEFINE A == RawLines(T)
           B == WireLines(T)
<1> HIDE DEF A, B
<1>2. raw \in Seq(A) /\ A \subseteq B
  BY <1>1 DEF A, B
<1>3. raw \in Seq(B)
  BY <1>2
<1> QED BY <1>3 DEF B

(* The bodies of a message that lines announce are its own.                *)
LEMMA RequestIsFramed ==
  ASSUME NEW T, Vocabulary(T), NEW table \in [Names -> Seq(T)], NEW came \in Bytes,
         NEW body \in EditedBodies(came), NEW viaProxy \in BOOLEAN
  PROVE  RequestFramed(table, came, body, viaProxy)
<1> DEFINE m == CaptureRequest(Raw, came)
           r == ApplyRequest(m, table, body)
           out == OutBody(m, body)
<1>1. IsCaptured(m, came)
  BY CapturedIs
<1>2. Leaves(body, m)
  BY DEF EditedBodies, Leaves
<1> HIDE DEF m
<1>3. PICK t : RequestOf(r, t, m, table, body, T)
  BY <1>1, <1>2, RequestLines
<1>4. /\ out \in {"", "sent", "decoded", "edited"} /\ out \in T
      /\ OutCoding(m, body) = IF out = "sent" /\ Coding # "" THEN <<Coding>> ELSE <<>>
      /\ body = "edited" => out = "edited"
  BY <1>1, <1>2, BodyAndCoding
<1> HIDE DEF r, out
<1>5. /\ t \in [Names -> Seq(T)] /\ t["Transfer-Encoding"] = <<>> /\ t["Proxy-Authorization"] = <<>>
      /\ t["Content-Encoding"] = OutCoding(m, body)
      /\ t["Content-Length"] = OutLengths(m, body)
      /\ r = [lines |-> Reconciled(Raw, t), body |-> out]
  BY <1>3 DEF RequestOf, FinalTable, out
<1>6. OutLengths(m, body) = <<>> \/ OutLengths(m, body) = <<out>>
  BY DEF OutLengths, out
<1> DEFINE lines == Reconciled(Raw, t)
           more  == IF viaProxy THEN WithProxyAuthorization(lines) ELSE lines
           final == NormalizeFraming(more, out)
           w     == WireRequest(r, viaProxy)
<1>7. lines \in Seq(WireLines(T)) /\ \A n \in Names : Values(lines, n) = t[n]
  BY <1>5, ReconciledValues DEF Vocabulary
<1>8. w = [lines |-> final, body |-> out]
  <2>1. r.lines = lines /\ r.body = out
    BY <1>5
  <2>2. [r EXCEPT !.lines = final] = [lines |-> final, body |-> out]
    BY <1>5, OtherLines
  <2> QED BY <2>1, <2>2 DEF WireRequest
<1> HIDE DEF lines
<1>9. /\ more \in Seq(WireLines(T))
      /\ Values(more, "Proxy-Authorization") = IF viaProxy THEN <<"proxy">> ELSE <<>>
      /\ \A n \in Names \ {"Proxy-Authorization"} : Values(more, n) = t[n]
  <2>1. CASE viaProxy
    <3>1. more = WithProxyAuthorization(lines) /\ "proxy" \in T
      BY <2>1 DEF Vocabulary
    <3> HIDE DEF more
    <3>2. /\ more \in Seq(WireLines(T)) /\ Values(more, "Proxy-Authorization") = <<"proxy">>
          /\ \A n \in Names \ {"Proxy-Authorization"} : Values(more, n) = Values(lines, n)
      BY <1>7, <3>1, ProxyLines
    <3> QED BY <1>7, <2>1, <3>2
  <2>2. CASE ~viaProxy
    <3>1. more = lines
      BY <2>2
    <3> QED BY <1>5, <1>7, <2>2, <3>1, Lengths
  <2> QED BY <2>1, <2>2
<1> HIDE DEF more
<1>a. Agree(final, more, out)
  BY <1>4, <1>9, NormalizedLines
<1> HIDE DEF final
<1>10. /\ Values(final, "Transfer-Encoding") = <<>> /\ Values(final, "Content-Length") \in {<<>>, <<out>>}
       /\ out # "" => Values(final, "Content-Length") = <<out>>
       /\ \A n \in Names \ {"Content-Length", "Transfer-Encoding"} : Values(final, n) = Values(more, n)
  BY <1>a DEF Agree
<1>11. /\ Values(final, "Content-Encoding") = IF out = "sent" /\ Coding # "" THEN <<Coding>> ELSE <<>>
       /\ Values(final, "Proxy-Authorization") = IF viaProxy THEN <<"proxy">> ELSE <<>>
  BY <1>4, <1>5, <1>9, <1>10, Lengths
<1> HIDE DEF w
<1>12. w.lines = final /\ w.body = out
  BY <1>8
<1>13. SelfConsistent(w)
  BY <1>10, <1>11, <1>12 DEF SelfConsistent, Coding
<1>14. w.body = "" => ToSet(Values(w.lines, "Content-Length")) \subseteq {""}
  <2>1. ToSet(<<>>) = {} /\ ToSet(<<out>>) = {out}
    BY SmallSets
  <2> QED BY <1>10, <1>12, <2>1
<1>15. body = "edited" => w.body = "edited"
  BY <1>4, <1>12
<1>16. Values(w.lines, "Proxy-Authorization") = IF viaProxy THEN <<"proxy">> ELSE <<>>
  BY <1>11, <1>12
<1> QED BY <1>13, <1>14, <1>15, <1>16 DEF RequestFramed, w, r, m

(* The lines and the body of a response that the hooks have left.          *)
ResponseOf(w, t, m, code, table, body, T) ==
  /\ FinalTable(t, table, T, OutCoding(m, body), <<OutBody(m, body)>>)
  /\ t["Host"] = table["Host"] /\ t["Te"] = <<>>
  /\ w = [status |-> StatusLine(m.status, code), lines |-> Reconciled(Raw, t), body |-> OutBody(m, body)]

(* The table of a response: its length is replaced, its Te taken out.      *)
LEMMA ResponseTable ==
  ASSUME NEW T, NEW table, NEW c, NEW old, NEW u0, FinalTable(u0, table, T, c, old), u0["Te"] = <<>>,
         u0["Host"] = table["Host"], NEW l \in Seq(T), NEW u1, Changed(u1, u0, "Content-Length", l)
  PROVE  FinalTable(u1, table, T, c, l) /\ u1["Host"] = table["Host"] /\ u1["Te"] = <<>>
  BY WithLengths

(* The lines and the body of a response that the hooks have left.          *)
LEMMA ResponseLines ==
  ASSUME NEW T, Vocabulary(T), NEW table \in [Names -> Seq(T)], NEW came \in Bytes,
         NEW m, IsCaptured(m, came), NEW body, Leaves(body, m), NEW code, NEW method
  PROVE  LET w == WireResponse(m, code, method, table, body) IN
         /\ ~Bodyless(code, method) => \E t : ResponseOf(w, t, m, code, table, body, T)
         /\ Bodyless(code, method) => w.body = "" /\ Values(w.lines, "Transfer-Encoding") = <<>>
<1> DEFINE coding == OutCoding(m, body)
           out    == OutBody(m, body)
           t0     == [StripHopByHop(table) EXCEPT !["Content-Encoding"] = coding]
           w      == WireResponse(m, code, method, table, body)
           t1     == [t0 EXCEPT !["Content-Length"] = <<out>>]
           first  == <<FirstValue(Raw, "Content-Length")>>
           t2     == IF Values(Raw, "Content-Length") = <<>> THEN t0 ELSE [t0 EXCEPT !["Content-Length"] = first]
           status == StatusLine(m.status, code)
<1>1. coding \in Seq(T) /\ out \in T
  BY BodyAndCoding
<1>2. Raw \in Seq(RawLines(T)) /\ m.raw = Raw
  BY DEF Vocabulary, IsCaptured
<1>3. Recoded(m, StripHopByHop(table), body) = t0
  BY DEF Recoded, OutCoding
<1>4. ~Bodyless(code, method) => w = [status |-> status, lines |-> Reconciled(Raw, t1), body |-> out]
  <2> DEFINE r0 == Recoded(m, StripHopByHop(table), body)
  <2>1. ~Bodyless(code, method) =>
          w = [status |-> status, lines |-> Reconciled(Raw, [r0 EXCEPT !["Content-Length"] = <<out>>]), body |-> out]
    BY <1>2, Zenon DEF WireResponse, OutBody
  <2> QED BY <1>3, <2>1
<1>5. Bodyless(code, method) => w = [status |-> status, lines |-> Reconciled(Raw, t2), body |-> ""]
  <2> DEFINE r0 == Recoded(m, StripHopByHop(table), body)
             r2 == IF Values(Raw, "Content-Length") = <<>> THEN r0 ELSE [r0 EXCEPT !["Content-Length"] = first]
  <2>1. Bodyless(code, method) => w = [status |-> status, lines |-> Reconciled(Raw, r2), body |-> ""]
    BY <1>2, Zenon DEF WireResponse, OutBody
  <2>2. r2 = t2
    BY <1>3
  <2> QED BY <2>1, <2>2
<1> HIDE DEF w, status
<1>6. FinalTable(t0, table, T, coding, table["Content-Length"]) /\ t0["Te"] = <<>> /\ t0["Host"] = table["Host"]
  BY <1>1, StrippedTable
<1>7. ASSUME ~Bodyless(code, method) PROVE \E t : ResponseOf(w, t, m, code, table, body, T)
  <2>1. PICK u0, u1, c, old, l : /\ u0 = t0 /\ u1 = t1 /\ c = coding
                                 /\ old = table["Content-Length"] /\ l = <<out>>
    OBVIOUS
  <2>2. Changed(u1, u0, "Content-Length", l) /\ l \in Seq(T)
    BY <1>1, <2>1, Singles DEF Changed
  <2> HIDE DEF t0, t1, coding, out
  <2>3. FinalTable(u0, table, T, c, old) /\ u0["Te"] = <<>> /\ u0["Host"] = table["Host"]
    BY <1>6, <2>1
  <2>4. FinalTable(u1, table, T, c, l) /\ u1["Host"] = table["Host"] /\ u1["Te"] = <<>>
    BY <2>2, <2>3, ResponseTable
  <2>5. w = [status |-> status, lines |-> Reconciled(Raw, u1), body |-> out]
    BY <1>4, <1>7, <2>1
  <2> QED BY <2>1, <2>4, <2>5 DEF ResponseOf, coding, out, status
<1>8. ASSUME Bodyless(code, method) PROVE w.body = "" /\ Values(w.lines, "Transfer-Encoding") = <<>>
  <2>1. t2 \in [Names -> Seq(T)] /\ t2["Transfer-Encoding"] = <<>>
    <3>1. CASE Values(Raw, "Content-Length") = <<>>
      BY <1>6, <3>1 DEF FinalTable
    <3>2. CASE Values(Raw, "Content-Length") # <<>>
      <4>1. PICK u0, u1, c, old, l : /\ u0 = t0 /\ u1 = t2 /\ c = coding
                                     /\ old = table["Content-Length"] /\ l = first
        OBVIOUS
      <4>2. Changed(u1, u0, "Content-Length", l) /\ l \in Seq(T)
        BY <1>2, <3>2, <4>1, RawValues, Singles DEF Changed
      <4> HIDE DEF t0, t2, coding, out, first
      <4>3. FinalTable(u0, table, T, c, old) /\ u0["Te"] = <<>> /\ u0["Host"] = table["Host"]
        BY <1>6, <4>1
      <4>4. FinalTable(u1, table, T, c, l)
        BY <4>2, <4>3, ResponseTable
      <4> QED BY <4>1, <4>4 DEF FinalTable
    <3> QED BY <3>1, <3>2
  <2> HIDE DEF t2
  <2>2. Values(Reconciled(Raw, t2), "Transfer-Encoding") = <<>>
    BY <1>2, <2>1, ReconciledValues, Lengths
  <2>3. w.body = "" /\ w.lines = Reconciled(Raw, t2)
    <3> DEFINE none  == ""
               lines == Reconciled(Raw, t2)
    <3>1. w = [status |-> status, lines |-> lines, body |-> none]
      BY <1>5, <1>8
    <3> HIDE DEF none, lines
    <3>2. w.body = none /\ w.lines = lines
      BY <3>1
    <3> QED BY <3>2 DEF none, lines
  <2> QED BY <2>2, <2>3
<1> QED BY <1>7, <1>8 DEF w

(* A response that has a body is framed by its own length.                 *)
LEMMA ResponseIsFramed ==
  ASSUME NEW T, Vocabulary(T), NEW table \in [Names -> Seq(T)], NEW came \in Bytes,
         NEW body \in EditedBodies(came), NEW code, NEW method
  PROVE  ResponseFramed(table, came, body, code, method)
<1> DEFINE m   == CaptureResponse(Raw, came, Received)
           w   == WireResponse(m, code, method, table, body)
           out == OutBody(m, body)
<1>1. IsCaptured(m, came) /\ IsCaptured(CaptureRequest(Raw, came), came)
  BY CapturedIs
<1>2. Leaves(body, m)
  BY <1>1 DEF EditedBodies, Leaves, IsCaptured
<1> HIDE DEF m
<1>3. /\ ~Bodyless(code, method) => \E t : ResponseOf(w, t, m, code, table, body, T)
      /\ Bodyless(code, method) => w.body = "" /\ Values(w.lines, "Transfer-Encoding") = <<>>
  BY <1>1, <1>2, ResponseLines
<1>4. /\ OutCoding(m, body) = IF out = "sent" /\ Coding # "" THEN <<Coding>> ELSE <<>>
  BY <1>1, <1>2, BodyAndCoding
<1> HIDE DEF w, out
<1>5. ASSUME ~Bodyless(code, method) PROVE SelfConsistent(w)
  <2>1. PICK t : ResponseOf(w, t, m, code, table, body, T)
    BY <1>3, <1>5
  <2>2. /\ t \in [Names -> Seq(T)] /\ t["Transfer-Encoding"] = <<>>
        /\ t["Content-Encoding"] = OutCoding(m, body) /\ t["Content-Length"] = <<out>>
        /\ w.lines = Reconciled(Raw, t) /\ w.body = out
    BY <2>1 DEF ResponseOf, FinalTable, out
  <2>3. \A n \in Names : Values(w.lines, n) = t[n]
    <3>1. Raw \in Seq(RawLines(T))
      BY DEF Vocabulary
    <3>2. \A n \in Names : Values(Reconciled(Raw, t), n) = t[n]
      BY <2>2, <3>1, ReconciledValues
    <3> QED BY <2>2, <3>2
  <2> QED BY <1>4, <2>2, <2>3, Lengths DEF SelfConsistent, Coding
<1> QED BY <1>3, <1>5 DEF ResponseFramed, w, m

(* What is built without an upstream is framed, too.                       *)
LEMMA BuiltIsFramed ==
  ASSUME NEW T, Vocabulary(T), NEW table \in [Names -> Seq(T)], NEW body \in T, body # "sent"
  PROVE  SelfConsistent(BuildResponse(table, body))
<1> DEFINE none == <<>>
           one  == <<body>>
           t0   == [StripHopByHop(table) EXCEPT !["Content-Encoding"] = none]
           t1   == [t0 EXCEPT !["Content-Length"] = one]
           w    == BuildResponse(table, body)
<1>1. none \in Seq(T) /\ one \in Seq(T)
  BY Singles
<1>2. w = [lines |-> Reconciled(<<>>, t1), body |-> body]
  BY DEF BuildResponse
<1> HIDE DEF w
<1>3. FinalTable(t0, table, T, none, table["Content-Length"]) /\ t0["Te"] = <<>> /\ t0["Host"] = table["Host"]
  BY <1>1, StrippedTable
<1>4. PICK u0, u1, old : u0 = t0 /\ u1 = t1 /\ old = table["Content-Length"]
  OBVIOUS
<1>5. Changed(u1, u0, "Content-Length", one)
  BY <1>4 DEF Changed
<1> HIDE DEF t0, t1, one
<1>6. FinalTable(u0, table, T, none, old) /\ u0["Te"] = <<>> /\ u0["Host"] = table["Host"]
  BY <1>3, <1>4
<1> HIDE DEF none
<1>7. FinalTable(u1, table, T, none, one)
  BY <1>1, <1>5, <1>6, ResponseTable
<1>8. /\ u1 \in [Names -> Seq(T)] /\ u1["Transfer-Encoding"] = <<>> /\ u1["Content-Encoding"] = <<>>
      /\ u1["Content-Length"] = <<body>>
  BY <1>7 DEF FinalTable, none, one
<1>9. <<>> \in Seq(RawLines(T))
  OBVIOUS
<1>10. w.lines = Reconciled(<<>>, u1) /\ w.body = body
  BY <1>2, <1>4
<1>11. \A n \in Names : Values(Reconciled(<<>>, u1), n) = u1[n]
  BY <1>8, <1>9, ReconciledValues
<1>12. SelfConsistent(w)
  BY <1>8, <1>10, <1>11, Lengths DEF SelfConsistent
<1> QED BY <1>12 DEF w

(* What the transport normalises is framed whatever it was.                *)
LEMMA ForcedIsFramed ==
  ASSUME NEW T, Vocabulary(T), NEW body \in T
  PROVE  ForcedFramed(body)
<1> DEFINE forced == NormalizeFraming(Raw, body)
<1>1. Raw \in Seq(WireLines(T))
  BY WireOfRaw DEF Vocabulary
<1>2. Agree(forced, Raw, body)
  BY <1>1, NormalizedLines
<1> HIDE DEF forced
<1>3. Len(<<>>) <= 1 /\ Len(<<body>>) <= 1
  OBVIOUS
<1>4. /\ Values(forced, "Transfer-Encoding") = <<>> /\ (body # "" => Values(forced, "Content-Length") = <<body>>)
      /\ Len(Values(forced, "Content-Length")) <= 1
  BY <1>2, <1>3 DEF Agree
<1> QED BY <1>4 DEF ForcedFramed, forced

(* All messages are framed.                                                *)
LEMMA AllFramed == ASSUME received \in Seq(HeadLines) PROVE Framed
<1>1. PICK T0 : Vocabulary(T0)
  BY HasVocabulary
<1>2. ASSUME NEW came \in SentBodies, NEW e \in Edits, NEW body \in EditedBodies(came)
      PROVE  /\ \A viaProxy \in BOOLEAN : RequestFramed(Edited(e), came, body, viaProxy)
             /\ \A code \in Codes, method \in {"GET", "HEAD"} : ResponseFramed(Edited(e), came, body, code, method)
             /\ SelfConsistent(BuildResponse(Edited(e), IF body = "sent" THEN "decoded" ELSE body))
             /\ ForcedFramed(body)
  <2>1. came \in Bytes
    BY DEF SentBodies, Bytes
  <2>2. PICK T : Vocabulary(T) /\ Edited(e) \in [Names -> Seq(T)]
    BY <1>1, EditedIsTable
  <2> DEFINE table == Edited(e)
             own   == IF body = "sent" THEN "decoded" ELSE body
  <2>3. own \in T /\ body \in T /\ own # "sent"
    <3>1. body \in {"", "sent", "decoded", "edited"}
      BY <2>1 DEF EditedBodies, CaptureRequest, Decoded, Bytes
    <3>2. {"", "sent", "decoded", "edited"} \subseteq T
      BY <2>2 DEF Vocabulary
    <3> QED BY <3>1, <3>2
  <2> HIDE DEF table, own
  <2>4. table \in [Names -> Seq(T)]
    BY <2>2 DEF table
  <2>5. ASSUME NEW viaProxy \in BOOLEAN PROVE RequestFramed(table, came, body, viaProxy)
    BY <2>1, <2>2, <2>4, RequestIsFramed
  <2>6. ASSUME NEW code, NEW method PROVE ResponseFramed(table, came, body, code, method)
    BY <2>1, <2>2, <2>4, ResponseIsFramed
  <2>7. SelfConsistent(BuildResponse(table, own))
    BY <2>2, <2>3, <2>4, BuiltIsFramed
  <2>8. ForcedFramed(body)
    BY <2>2, <2>3, ForcedIsFramed
  <2> QED BY <2>5, <2>6, <2>7, <2>8 DEF table, own
<1> QED BY <1>2 DEF Framed

(* Lines that are kept stay in order, and those that are added follow.     *)
LEMMA KeptInOrder ==
  ASSUME NEW T, Raw \in Seq(RawLines(T)), NEW t \in [Names -> Seq(T)]
  PROVE  InOrder(Reconciled(Raw, t))
<1> DEFINE out   == Replayed(Raw, t).out
           lines == Reconciled(Raw, t)
<1>1. PICK kept : KeptOf(out, kept, Raw, Len(Raw))
  BY ReplayedKeeps
<1>2. ReplaySplits(Replayed(Raw, t), T, t) /\ AddsLeft(lines, Replayed(Raw, t), T, t, 9)
  BY ReconciledAdds
<1>3. out \in Seq(WireLines(T)) /\ Follows(out, lines)
  BY <1>2 DEF ReplaySplits, AddsLeft
<1> HIDE DEF out, lines
<1>4. Len(out) \in Nat /\ Len(Raw) \in Nat /\ DOMAIN Raw = 1..Len(Raw)
  BY <1>3, LenProperties
<1> DEFINE n == Len(out)
<1>5. kept \in [1..n -> DOMAIN Raw] /\ n <= Len(Raw) /\ \A i, j \in 1..n : i < j => kept[i] < kept[j]
  BY <1>1, <1>4, Zenon DEF KeptOf
<1>6. n \in 0..Len(Raw)
  BY <1>4, <1>5
<1>7. \A i \in 1..n : out[i] = [Raw[kept[i]] EXCEPT !.value = out[i].value]
  BY <1>1, Zenon DEF KeptOf
<1>8. n <= Len(lines) /\ \A i \in (n + 1)..Len(lines) : lines[i].as = "canon"
  BY <1>3 DEF Follows
<1>9. \A i \in 1..n : lines[i] = out[i]
  BY <1>3 DEF Follows
<1>10. \A i \in 1..n : lines[i] = [Raw[kept[i]] EXCEPT !.value = lines[i].value]
  BY <1>7, <1>9, Zenon
<1> HIDE DEF n
<1>11. InOrder(lines)
  BY <1>5, <1>6, <1>8, <1>10, Zenon DEF InOrder
<1> QED BY <1>11 DEF lines

(* A sequence of at most one element is empty or has its first.            *)
LEMMA AtMostOne ==
  ASSUME NEW T, NEW s \in Seq(T), Len(s) <= 1
  PROVE  s = <<>> \/ \E x \in T : s = <<x>>
<1>1. CASE Len(s) = 0
  BY <1>1, EmptySeq
<1>2. CASE Len(s) = 1
  <2>1. s[1] \in T
    BY <1>2, ElementOfSeq
  <2> DEFINE t == <<s[1]>>
  <2>2. t \in Seq(T) /\ Len(t) = 1 /\ t[1] = s[1]
    BY <2>1
  <2> HIDE DEF t
  <2>3. s = t
    BY <1>2, <2>2, SeqEqual
  <2> QED BY <2>1, <2>3 DEF t
<1>3. Len(s) = 0 \/ Len(s) = 1
  <2>1. Len(s) \in Nat
    BY LenProperties
  <2> QED BY <2>1
<1> QED BY <1>1, <1>2, <1>3

(* The length of a plain message is that of its body, and its coding is    *)
(* that of its bytes.                                                      *)
LEMMA PlainLength ==
  ASSUME NEW T, Vocabulary(T), NEW came \in SentBodies, Plain(came)
  PROVE  LET lengths == Values(Raw, "Content-Length") IN lengths = <<came>> \/ (lengths = <<>> /\ came = "")
<1> DEFINE lengths == Values(Raw, "Content-Length")
<1>1. Values(Raw, "Transfer-Encoding") = <<>>
  BY DEF Plain, HopByHop
<1>2. ToSet(lengths) = {came} \/ (came = "" /\ lengths = <<>>)
  BY <1>1 DEF SentBodies
<1>3. lengths \in Seq(T) /\ Len(lengths) <= 1
  <2>1. Raw \in Seq(RawLines(T)) /\ Len(lengths) <= 1
    BY DEF Vocabulary, Plain
  <2> QED BY <2>1, RawValues
<1> HIDE DEF lengths
<1>4. lengths = <<>> \/ \E x \in T : lengths = <<x>>
  BY <1>3, AtMostOne
<1>5. CASE lengths = <<>>
  <2>1. ToSet(lengths) = {}
    BY <1>5, SmallSets
  <2> QED BY <1>2, <1>5, <2>1 DEF lengths
<1>6. ASSUME NEW x \in T, lengths = <<x>> PROVE lengths = <<came>>
  <2>1. ToSet(lengths) = {x} /\ lengths # <<>>
    BY <1>6, SmallSets
  <2>2. x = came
    BY <1>2, <2>1
  <2> QED BY <1>6, <2>2
<1> QED BY <1>4, <1>5, <1>6 DEF lengths

(* The coding of a plain message is that of its bytes.                     *)
LEMMA PlainCoding ==
  ASSUME NEW T, Vocabulary(T), NEW came \in SentBodies, Plain(came)
  PROVE  Values(Raw, "Content-Encoding") = IF came = "sent" /\ Coding # "" THEN <<Coding>> ELSE <<>>
<1> DEFINE codings == Values(Raw, "Content-Encoding")
           none    == ""
<1>1. /\ codings \in Seq(T) /\ (came = none => Len(codings) <= 0) /\ Len(codings) <= 1 /\ "" \notin ToSet(codings)
  <2>0. Raw \in Seq(RawLines(T))
    BY DEF Vocabulary
  <2>1. codings \in Seq(T)
    BY <2>0, RawValues
  <2>2. Len(codings) \in Nat
    BY <2>1, LenProperties
  <2>3. Len(codings) <= (IF came = none THEN 0 ELSE 1)
    BY DEF Plain
  <2>4. "" \notin ToSet(codings)
    BY DEF Plain
  <2> HIDE DEF codings, none
  <2>5. (came = none => Len(codings) <= 0) /\ Len(codings) <= 1
    BY <2>2, <2>3
  <2> QED BY <2>1, <2>4, <2>5
<1>2. came = "" \/ came = "sent"
  <2>1. came \in Bytes
    BY DEF SentBodies, Bytes
  <2> QED BY <2>1 DEF Bytes
<1>3. Coding = IF codings = <<>> THEN "" ELSE codings[1]
  BY DEF Coding, FirstValue
<1>4. came = none => codings = <<>>
  <2> HIDE DEF codings, none
  <2>1. Len(codings) \in Nat
    BY <1>1, LenProperties
  <2>2. ASSUME came = none PROVE codings = <<>>
    <3>1. Len(codings) <= 0
      <4>1. came = none => Len(codings) <= 0
        BY <1>1, Zenon
      <4> QED BY <2>2, <4>1
    <3>2. Len(codings) = 0
      BY <2>1, <3>1
    <3> QED BY <1>1, <3>2, EmptySeq
  <2> QED BY <2>2
<1> HIDE DEF codings
<1>5. codings = <<>> \/ \E x \in T : codings = <<x>>
  BY <1>1, AtMostOne
<1>6. CASE codings = <<>>
  <2>1. Coding = ""
    BY <1>3, <1>6
  <2> QED BY <1>6, <2>1 DEF codings
<1>7. ASSUME NEW x \in T, codings = <<x>>
      PROVE  codings = IF came = "sent" /\ Coding # "" THEN <<Coding>> ELSE <<>>
  <2>1. codings # <<>> /\ codings[1] = x /\ ToSet(codings) = {x}
    BY <1>7, SmallSets
  <2>2. Coding = x /\ x # "" /\ came = "sent"
    BY <1>1, <1>2, <1>3, <1>4, <2>1
  <2> QED BY <1>7, <2>2
<1> QED BY <1>5, <1>6, <1>7 DEF codings

(* A body that no hook touched is sent as it came.                         *)
LEMMA OutUntouched ==
  ASSUME NEW came \in Bytes, NEW m, IsCaptured(m, came)
  PROVE  OutBody(m, m.body) = came /\ Leaves(m.body, m)
<1>1. m.sent = came /\ m.coding = Coding /\ m.body = Decoded(Coding, came)
  BY DEF IsCaptured
<1>2. came = "" \/ came = "sent"
  BY DEF Bytes
<1>3. OutBody(m, m.body) = came
  BY <1>1, <1>2 DEF OutBody, Original, Decoded
<1> QED BY <1>3 DEF Leaves

(* The names whose lines the program does not touch keep their values.     *)
LEMMA TableEndToEnd == \A n \in EndToEnd : Table(Raw)[n] = Values(Raw, n)
  BY DEF EndToEnd, Table, HopByHop

(* A name is end to end, for this hop, or about the body or the host.      *)
LEMMA NamesSplit ==
  \A n \in Names : \/ n \in EndToEnd
                   \/ n \in {"Connection", "Content-Encoding", "Content-Length", "Host", "Proxy-Authorization", "Te",
                             "Transfer-Encoding"}
  BY DEF EndToEnd, HopByHop

(* The transport leaves lines alone that agree with the body.              *)
LEMMA AgreedStay ==
  ASSUME NEW lines, NEW body, Values(lines, "Transfer-Encoding") = <<>>,
         Values(lines, "Content-Length") = <<body>> \/ (Values(lines, "Content-Length") = <<>> /\ body = "")
  PROVE  NormalizeFraming(lines, body) = lines
  BY Zenon DEF NormalizeFraming

(* A plain request that no hook touched is repeated verbatim.              *)
LEMMA RequestRepeated ==
  ASSUME NEW T, Vocabulary(T), NEW came \in SentBodies, Plain(came), Len(Values(Raw, "Host")) = 1,
         NEW m, IsCaptured(m, came), m.table = Table(Raw)
  PROVE  WireRequest(ApplyRequest(m, m.table, m.body), FALSE) = [lines |-> Raw, body |-> came]
<1> DEFINE table == Table(Raw)
           r     == ApplyRequest(m, m.table, m.body)
<1>0. Raw \in Seq(RawLines(T)) /\ came \in Bytes
  BY DEF Vocabulary, SentBodies, Bytes
<1>1. table \in [Names -> Seq(T)]
  BY <1>0, TableIsTable
<1>2. OutBody(m, m.body) = came /\ Leaves(m.body, m)
  BY <1>0, OutUntouched
<1>3. PICK t : RequestOf(r, t, m, table, m.body, T)
  BY <1>0, <1>1, <1>2, RequestLines
<1>4. /\ FinalTable(t, table, T, OutCoding(m, m.body), OutLengths(m, m.body))
      /\ t["Host"] = OutHost /\ t["Te"] = OutTe(table) /\ r = [lines |-> Reconciled(Raw, t), body |-> came]
  BY <1>2, <1>3 DEF RequestOf
<1>5. /\ t \in [Names -> Seq(T)] /\ t["Connection"] = <<>> /\ t["Transfer-Encoding"] = <<>>
      /\ t["Proxy-Authorization"] = <<>> /\ \A n \in EndToEnd : t[n] = table[n]
  BY <1>4 DEF FinalTable
<1>6. \A n \in HopByHop : Values(Raw, n) = <<>>
  BY DEF Plain
<1>7. t["Content-Encoding"] = Values(Raw, "Content-Encoding")
  <2>1. OutCoding(m, m.body) = IF came = "sent" /\ Coding # "" THEN <<Coding>> ELSE <<>>
    BY <1>0, <1>2, BodyAndCoding
  <2>2. Values(Raw, "Content-Encoding") = IF came = "sent" /\ Coding # "" THEN <<Coding>> ELSE <<>>
    BY PlainCoding
  <2>3. t["Content-Encoding"] = OutCoding(m, m.body)
    BY <1>4 DEF FinalTable
  <2> QED BY <2>1, <2>2, <2>3, Zenon
<1>8. Values(Raw, "Content-Length") = <<came>> \/ (Values(Raw, "Content-Length") = <<>> /\ came = "")
  BY PlainLength
<1>9. t["Content-Length"] = Values(Raw, "Content-Length")
  <2>1. t["Content-Length"] = OutLengths(m, m.body)
    BY <1>4 DEF FinalTable
  <2>2. OutLengths(m, m.body) = IF came # "" \/ Values(Raw, "Content-Length") # <<>> THEN <<came>> ELSE <<>>
    BY <1>2, Zenon DEF OutLengths
  <2>3. CASE Values(Raw, "Content-Length") = <<came>>
    <3>1. <<came>> # <<>>
      OBVIOUS
    <3> QED BY <2>1, <2>2, <2>3, <3>1, Zenon
  <2>4. CASE Values(Raw, "Content-Length") = <<>> /\ came = ""
    BY <2>1, <2>2, <2>4, Zenon
  <2> QED BY <1>8, <2>3, <2>4
<1>10. t["Host"] = Values(Raw, "Host")
  <2>1. Values(Raw, "Host") \in Seq(T)
    BY <1>0, RawValues
  <2> DEFINE v == Values(Raw, "Host")
  <2> HIDE DEF v
  <2>2. v = <<>> \/ \E x \in T : v = <<x>>
    <3>0. v \in Seq(T) /\ Len(v) = 1
      BY <2>1 DEF v
    <3>1. v \in Seq(T) /\ Len(v) <= 1
      BY <3>0
    <3> QED BY <3>1, AtMostOne
  <2>3. v # <<>>
    <3>1. Len(v) = 1
      BY DEF v
    <3> QED BY <3>1
  <2>4. PICK x \in T : v = <<x>>
    BY <2>2, <2>3
  <2>5. OutHost = <<v[1]>>
    BY <2>3, Zenon DEF OutHost, FirstValue, v
  <2>6. v[1] = x
    BY <2>4
  <2> QED BY <1>4, <2>4, <2>5, <2>6 DEF v
<1>11. t["Te"] = Values(Raw, "Te")
  <2>1. "Te" \in HopByHop
    BY DEF HopByHop
  <2>2. Values(Raw, "Te") = <<>>
    BY <1>6, <2>1
  <2>3. table["Te"] = Values(Raw, "Te")
    BY Lengths DEF Table
  <2>4. ToSet(table["Te"]) = {}
    BY <2>2, <2>3, SmallSets
  <2>5. OutTe(table) = <<>>
    BY <2>4 DEF OutTe
  <2> QED BY <1>4, <2>2, <2>5
<1> HIDE DEF r, table
<1>12. ASSUME NEW n \in Names PROVE t[n] = Values(Raw, n)
  <2>1. CASE n \in EndToEnd
    BY <1>5, <2>1, TableEndToEnd DEF table
  <2>2. CASE n \in {"Connection", "Transfer-Encoding", "Proxy-Authorization"}
    BY <1>5, <1>6, <2>2 DEF HopByHop
  <2>3. CASE n \in {"Content-Encoding", "Content-Length", "Host", "Te"}
    BY <1>7, <1>9, <1>10, <1>11, <2>3
  <2> QED BY <2>1, <2>2, <2>3, NamesSplit
<1>13. Reconciled(Raw, t) = Raw
  BY <1>0, <1>5, <1>12, Verbatim
<1>14. r = [lines |-> Raw, body |-> came] /\ r.lines = Raw /\ r.body = came
  BY <1>4, <1>13
<1>15. NormalizeFraming(Raw, came) = Raw
  <2>1. Values(Raw, "Transfer-Encoding") = <<>>
    BY <1>6 DEF HopByHop
  <2> QED BY <1>8, <2>1, AgreedStay
<1>16. WireRequest(r, FALSE) = [r EXCEPT !.lines = NormalizeFraming(r.lines, r.body)]
  BY DEF WireRequest
<1>17. WireRequest(r, FALSE) = [lines |-> Raw, body |-> came]
  BY <1>14, <1>15, <1>16, OtherLines
<1> QED BY <1>17 DEF r

(* And a plain response.                                                   *)
LEMMA ResponseRepeated ==
  ASSUME NEW T, Vocabulary(T), NEW came \in SentBodies, Plain(came), Values(Raw, "Host") = <<>>,
         Values(Raw, "Content-Length") # <<>>,
         NEW m, IsCaptured(m, came), m.table = Table(Raw), m.status = Received
  PROVE  WireResponse(m, 200, "GET", m.table, m.body) = [status |-> m.status, lines |-> Raw, body |-> came]
<1> DEFINE table == Table(Raw)
           w     == WireResponse(m, 200, "GET", m.table, m.body)
<1>0. Raw \in Seq(RawLines(T)) /\ came \in Bytes
  BY DEF Vocabulary, SentBodies, Bytes
<1>1. table \in [Names -> Seq(T)]
  BY <1>0, TableIsTable
<1>2. OutBody(m, m.body) = came /\ Leaves(m.body, m)
  BY <1>0, OutUntouched
<1>a. ~Bodyless(200, "GET")
  BY DEF Bodyless
<1>3. PICK t : ResponseOf(w, t, m, 200, table, m.body, T)
  BY <1>0, <1>1, <1>2, <1>a, ResponseLines
<1>4. /\ FinalTable(t, table, T, OutCoding(m, m.body), <<came>>)
      /\ t["Host"] = table["Host"] /\ t["Te"] = <<>>
      /\ w = [status |-> StatusLine(m.status, 200), lines |-> Reconciled(Raw, t), body |-> came]
  BY <1>2, <1>3 DEF ResponseOf
<1>5. /\ t \in [Names -> Seq(T)] /\ t["Connection"] = <<>> /\ t["Transfer-Encoding"] = <<>>
      /\ t["Proxy-Authorization"] = <<>> /\ \A n \in EndToEnd : t[n] = table[n]
  BY <1>4 DEF FinalTable
<1>6. \A n \in HopByHop : Values(Raw, n) = <<>>
  BY DEF Plain
<1>7. t["Content-Encoding"] = Values(Raw, "Content-Encoding")
  <2>1. OutCoding(m, m.body) = IF came = "sent" /\ Coding # "" THEN <<Coding>> ELSE <<>>
    BY <1>0, <1>2, BodyAndCoding
  <2>2. Values(Raw, "Content-Encoding") = IF came = "sent" /\ Coding # "" THEN <<Coding>> ELSE <<>>
    BY PlainCoding
  <2>3. t["Content-Encoding"] = OutCoding(m, m.body)
    BY <1>4 DEF FinalTable
  <2> QED BY <2>1, <2>2, <2>3, Zenon
<1>8. t["Content-Length"] = Values(Raw, "Content-Length")
  <2>1. Values(Raw, "Content-Length") = <<came>>
    BY PlainLength
  <2> QED BY <1>4, <2>1 DEF FinalTable
<1>9. t["Host"] = Values(Raw, "Host")
  <2>1. table["Host"] = <<>>
    BY Lengths DEF Table
  <2> QED BY <1>4, <2>1
<1>10. t["Te"] = Values(Raw, "Te")
  BY <1>4, <1>6 DEF HopByHop
<1> HIDE DEF w, table
<1>11. ASSUME NEW n \in Names PROVE t[n] = Values(Raw, n)
  <2>1. CASE n \in EndToEnd
    BY <1>5, <2>1, TableEndToEnd DEF table
  <2>2. CASE n \in {"Connection", "Transfer-Encoding", "Proxy-Authorization"}
    BY <1>5, <1>6, <2>2 DEF HopByHop
  <2>3. CASE n \in {"Content-Encoding", "Content-Length", "Host", "Te"}
    BY <1>7, <1>8, <1>9, <1>10, <2>3
  <2> QED BY <2>1, <2>2, <2>3, NamesSplit
<1>12. Reconciled(Raw, t) = Raw
  BY <1>0, <1>5, <1>11, Verbatim
<1>13. StatusLine(m.status, 200) = m.status
  BY DEF StatusLine, Received
<1> QED BY <1>4, <1>12, <1>13 DEF w

(* Whatever the hooks did, lines are kept and values are sent.             *)
LEMMA EditsKeep ==
  ASSUME NEW T, Vocabulary(T), NEW table \in [Names -> Seq(T)], NEW came \in SentBodies, NEW body \in EditedBodies(came)
  PROVE  LET lines == ApplyRequest(CaptureRequest(Raw, came), table, body).lines IN
         /\ \A n \in EndToEnd : Values(lines, n) = table[n]
         /\ InOrder(lines)
<1> DEFINE m     == CaptureRequest(Raw, came)
           r     == ApplyRequest(m, table, body)
<1>1. Raw \in Seq(RawLines(T)) /\ came \in Bytes
  BY DEF Vocabulary, SentBodies, Bytes
<1>2. IsCaptured(m, came)
  BY CapturedIs
<1>3. Leaves(body, m)
  BY DEF EditedBodies, Leaves
<1> HIDE DEF m
<1>4. PICK t : RequestOf(r, t, m, table, body, T)
  BY <1>1, <1>2, <1>3, RequestLines
<1>5. /\ t \in [Names -> Seq(T)] /\ \A n \in EndToEnd : t[n] = table[n]
  BY <1>4 DEF RequestOf, FinalTable
<1>6. r.lines = Reconciled(Raw, t)
  BY <1>4 DEF RequestOf
<1> HIDE DEF r
<1>7. InOrder(r.lines)
  BY <1>1, <1>5, <1>6, KeptInOrder
<1>8. \A n \in Names : Values(Reconciled(Raw, t), n) = t[n]
  BY <1>1, <1>5, ReconciledValues
<1>9. ASSUME NEW n \in EndToEnd PROVE Values(r.lines, n) = table[n]
  <2>1. n \in Names
    BY DEF EndToEnd
  <2> QED BY <1>5, <1>6, <1>8, <2>1
<1> QED BY <1>7, <1>9 DEF r, m

(* All messages are kept.                                                  *)
LEMMA AllKept == ASSUME received \in Seq(HeadLines) PROVE LinesKept
<1>1. PICK T0 : Vocabulary(T0)
  BY HasVocabulary
<1>2. ASSUME NEW came \in SentBodies, Plain(came), Len(Values(Raw, "Host")) = 1
      PROVE  LET m == CaptureResponse(Raw, came, Received) IN
             WireRequest(ApplyRequest(m, m.table, m.body), FALSE) = [lines |-> Raw, body |-> came]
  <2> DEFINE m == CaptureResponse(Raw, came, Received)
  <2>1. IsCaptured(m, came) /\ m.table = Table(Raw)
    BY CapturedIs
  <2> HIDE DEF m
  <2>2. WireRequest(ApplyRequest(m, m.table, m.body), FALSE) = [lines |-> Raw, body |-> came]
    BY <1>1, <1>2, <2>1, RequestRepeated
  <2> QED BY <2>2 DEF m
<1>3. ASSUME NEW came \in SentBodies, Plain(came), Values(Raw, "Host") = <<>>, Values(Raw, "Content-Length") # <<>>
      PROVE  LET m == CaptureResponse(Raw, came, Received) IN
             WireResponse(m, 200, "GET", m.table, m.body) = [status |-> m.status, lines |-> Raw, body |-> came]
  <2> DEFINE m == CaptureResponse(Raw, came, Received)
  <2>1. IsCaptured(m, came) /\ m.table = Table(Raw) /\ m.status = Received
    BY CapturedIs
  <2> HIDE DEF m
  <2>2. WireResponse(m, 200, "GET", m.table, m.body) = [status |-> m.status, lines |-> Raw, body |-> came]
    BY <1>1, <1>3, <2>1, ResponseRepeated
  <2> QED BY <2>2 DEF m
<1>4. ASSUME NEW came \in SentBodies, NEW e \in Edits, NEW body \in EditedBodies(came)
      PROVE  LET lines == ApplyRequest(CaptureRequest(Raw, came), Edited(e), body).lines IN
             /\ \A n \in EndToEnd : Values(lines, n) = Edited(e)[n]
             /\ InOrder(lines)
  <2>1. PICK T : Vocabulary(T) /\ Edited(e) \in [Names -> Seq(T)]
    BY <1>1, EditedIsTable
  <2> QED BY <2>1, EditsKeep
<1> QED BY <1>2, <1>3, <1>4 DEF LinesKept

(* A head is made of lines.                                                 *)
LEMMA HeadsAreLines == FidelitySpec => [](received \in Seq(HeadLines))
<1> DEFINE Type == received \in Seq(HeadLines)
<1>1. FidelityInit => Type
  BY EmptySeq DEF FidelityInit
<1>2. Type /\ [ReadLine]_received => Type'
  <2>1. ASSUME Type, ReadLine PROVE Type'
    <3>1. PICK ln \in HeadLines : received' = Append(received, ln)
      BY <2>1 DEF ReadLine, HeadLines
    <3> DEFINE H == HeadLines
    <3>2. Append(received, ln) \in Seq(H)
      BY <2>1, AppendProperties
    <3> QED BY <3>1, <3>2
  <2>2. ASSUME Type, UNCHANGED received PROVE Type'
    BY <2>2 DEF HeadLines
  <2> QED BY <2>1, <2>2
<1> QED BY <1>1, <1>2, PTL DEF FidelitySpec

(* Whatever lines a message has, of any number and in any order, and       *)
(* whatever hooks set in its table and its body: what is sent is framed by *)
(* its own length, so that the next message begins where this one ends;    *)
(* an untouched message is repeated verbatim; an edited one keeps the      *)
(* order and the spelling of its lines (internal/flow/http.go and          *)
(* order.go; internal/forward/transport.go).                               *)
THEOREM WireAlwaysSound == FidelitySpec => []WireSound
<1>1. received \in Seq(HeadLines) => WireSound
  BY AllFramed, AllKept DEF WireSound
<1> QED BY <1>1, HeadsAreLines, PTL
=============================================================================
