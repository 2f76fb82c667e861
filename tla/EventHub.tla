------------------------------- MODULE EventHub -------------------------------
(***************************************************************************)
(* From an event to the user interface: the event bus of                   *)
(* internal/core/events.go, the WebSocket hub of internal/api/ws_hub.go    *)
(* with two goroutines per client, and the desktop shell, which subscribes *)
(* at its start and cancels when it shuts down.  An event that cannot be   *)
(* encoded, which the hub skips (ws_hub.go:66), is left out.               *)
(***************************************************************************)
EXTENDS Naturals, Sequences, FiniteSets, FiniteSetsExt, SequencesExt

CONSTANTS
  Publishers,    \* goroutines that emit events
  Clients,       \* WebSocket connections of user interfaces
  MaxEvents,     \* bound on the events of all publishers
  BusBuffer,     \* EventBus.bufferSize
  ClientBuffer   \* capacity of wsClient.send

ASSUME HubAssumption ==
  MaxEvents \in Nat /\ BusBuffer \in Nat \ {0} /\ ClientBuffer \in Nat \ {0}

Subscribers == {"hub", "desktop"}

VARIABLES
  publisher,  \* [Publishers -> events begun, subscribers still to be served]
  channel,    \* [Subscribers -> state and buffer of its channel]
  taken,      \* [Subscribers -> events it received, in order]
  missed,     \* [Subscribers -> events it may not get: full, or not subscribed]
  client,     \* [Clients -> its two pumps, connection and send channel]
  served,     \* Hub.clients
  panicked    \* somebody used a closed channel

hubVars == <<publisher, channel, taken, missed, client, served, panicked>>

NewClient == [read |-> "none", write |-> "none", open |-> FALSE, send |-> <<>>, closed |-> FALSE,
              got |-> <<>>, since |-> 0]

HubInit ==
  /\ publisher = [p \in Publishers |-> [begun |-> 0, todo |-> {}]]
  /\ channel = [s \in Subscribers |-> [state |-> "none", buffer |-> <<>>]]
  /\ taken = [s \in Subscribers |-> <<>>]
  /\ missed = [s \in Subscribers |-> {}]
  /\ client = [c \in Clients |-> NewClient]
  /\ served = {}
  /\ panicked = FALSE

-----------------------------------------------------------------------------
(* Subscribe and cancel take the lock that every Publish holds for reading.*)
Unlocked == \A p \in Publishers : publisher[p].todo = {}

Subscribe(s) ==
  /\ channel[s].state = "none" /\ Unlocked
  /\ channel' = [channel EXCEPT ![s].state = "open"]
  /\ UNCHANGED <<publisher, taken, missed, client, served, panicked>>

MayCancel(s) == channel[s].state = "open" /\ Unlocked

(* Only the desktop shell ever cancels; the server never ends its hub.     *)
CancelSubscription ==
  /\ MayCancel("desktop")
  /\ channel' = [channel EXCEPT !["desktop"].state = "closed"]
  /\ UNCHANGED <<publisher, taken, missed, client, served, panicked>>

Event(p) == <<p, publisher[p].begun>>

EventsBegun == MapThenSumSet(LAMBDA q : publisher[q].begun, Publishers)

Publish(p) ==
  /\ publisher[p].todo = {} /\ EventsBegun < MaxEvents
  /\ publisher' = [publisher EXCEPT ![p] = [begun |-> @.begun + 1,
                      todo |-> {s \in Subscribers : channel[s].state = "open"}]]
  /\ missed' = [s \in Subscribers |-> IF channel[s].state = "open" THEN missed[s]
                                      ELSE missed[s] \cup {<<p, publisher[p].begun + 1>>}]
  /\ UNCHANGED <<channel, taken, client, served, panicked>>

(* Mutant of Offer: a full buffer gives up its oldest event.               *)
OfferEvictsOldest(s, e) ==
  /\ channel' = [channel EXCEPT ![s].buffer =
       Append(IF Len(@) < BusBuffer THEN @ ELSE Tail(@), e)]
  /\ UNCHANGED missed

(* The select of Publish: a slow subscriber misses the event.              *)
Offer(s, e) ==
  IF Len(channel[s].buffer) < BusBuffer
  THEN channel' = [channel EXCEPT ![s].buffer = Append(@, e)] /\ UNCHANGED missed
  ELSE missed' = [missed EXCEPT ![s] = @ \cup {e}] /\ UNCHANGED channel

(* A range over a map serves the subscribers in any order.                 *)
Serve(p) ==
  \E s \in publisher[p].todo :
    /\ publisher' = [publisher EXCEPT ![p].todo = @ \ {s}]
    /\ Offer(s, Event(p))
    /\ panicked' = (panicked \/ channel[s].state = "closed")
    /\ UNCHANGED <<taken, client, served>>

(* forwardEvents of the desktop shell drains even a closed channel.        *)
Forward ==
  /\ channel["desktop"].buffer # <<>>
  /\ taken' = [taken EXCEPT !["desktop"] = Append(@, Head(channel["desktop"].buffer))]
  /\ channel' = [channel EXCEPT !["desktop"].buffer = Tail(@)]
  /\ UNCHANGED <<publisher, missed, client, served, panicked>>

-----------------------------------------------------------------------------
(* handleWS: the handler waits until the hub takes the registration, then  *)
(* starts the two pumps.                                                   *)
Connect(c) ==
  /\ client[c] = NewClient /\ channel["hub"].state = "open"
  /\ client' = [client EXCEPT ![c].read = "registering", ![c].open = TRUE]
  /\ UNCHANGED <<publisher, channel, taken, missed, served, panicked>>

Leave(c) ==
  /\ client[c].open
  /\ client' = [client EXCEPT ![c].open = FALSE]
  /\ UNCHANGED <<publisher, channel, taken, missed, served, panicked>>

Register(c) ==
  /\ client[c].read = "registering"
  /\ client' = [client EXCEPT ![c].read = "reading", ![c].write = "writing", ![c].since = Len(taken["hub"])]
  /\ served' = served \cup {c}
  /\ UNCHANGED <<publisher, channel, taken, missed, panicked>>

MustClose(c) == c \in served

Unregister(c) ==
  /\ client[c].read = "leaving"
  /\ client' = [client EXCEPT ![c].read = "gone", ![c].open = FALSE, ![c].closed = @ \/ MustClose(c)]
  /\ panicked' = (panicked \/ (MustClose(c) /\ client[c].closed))
  /\ served' = served \ {c}
  /\ UNCHANGED <<publisher, channel, taken, missed>>

Full(c) == Len(client[c].send) = ClientBuffer

(* One event for every client; one whose buffer is full is dropped.        *)
Broadcast ==
  /\ channel["hub"].buffer # <<>>
  /\ LET e == Head(channel["hub"].buffer)
         slow == {c \in served : Full(c)}
     IN /\ taken' = [taken EXCEPT !["hub"] = Append(@, e)]
        /\ client' = [c \in Clients |->
             IF c \in slow THEN [client[c] EXCEPT !.closed = TRUE]
             ELSE IF c \in served /\ Len(client[c].send) < ClientBuffer
                  THEN [client[c] EXCEPT !.send = Append(@, e)] ELSE client[c]]
        /\ served' = served \ slow
        /\ panicked' = (panicked \/ \E c \in served : client[c].closed)
  /\ channel' = [channel EXCEPT !["hub"].buffer = Tail(@)]
  /\ UNCHANGED <<publisher, missed>>

-----------------------------------------------------------------------------
(* Mutant of ClientReadFails: readPump returns without telling the hub.          *)
ClientReadFailsSilently(c) ==
  /\ client[c].read = "reading" /\ ~client[c].open
  /\ client' = [client EXCEPT ![c].read = "gone"]
  /\ UNCHANGED <<publisher, channel, taken, missed, served, panicked>>

(* readPump: the connection broke.                                         *)
ClientReadFails(c) ==
  /\ client[c].read = "reading" /\ ~client[c].open
  /\ client' = [client EXCEPT ![c].read = "leaving"]
  /\ UNCHANGED <<publisher, channel, taken, missed, served, panicked>>

(* writePump: a message, the end of the channel, or a ping.                *)
WriteMessage(c) ==
  /\ client[c].write = "writing" /\ client[c].send # <<>>
  /\ client' = [client EXCEPT ![c].send = Tail(@),
                  ![c].got = IF client[c].open THEN Append(@, Head(client[c].send)) ELSE @,
                  ![c].write = IF client[c].open THEN "writing" ELSE "gone"]
  /\ UNCHANGED <<publisher, channel, taken, missed, served, panicked>>

WriteEnds(c) ==
  /\ client[c].write = "writing" /\ client[c].send = <<>>
  /\ client[c].closed \/ ~client[c].open          \* Close frame, or a ping that fails
  /\ client' = [client EXCEPT ![c].write = "gone", ![c].open = FALSE]
  /\ UNCHANGED <<publisher, channel, taken, missed, served, panicked>>

HubNext ==
  \/ \E s \in Subscribers : Subscribe(s)
  \/ \E p \in Publishers : Publish(p) \/ Serve(p)
  \/ CancelSubscription \/ Forward \/ Broadcast
  \/ \E c \in Clients : Connect(c) \/ Leave(c) \/ Register(c) \/ Unregister(c)
                        \/ ClientReadFails(c) \/ WriteMessage(c) \/ WriteEnds(c)

(* The goroutines run on.  Nothing makes an event happen or a client leave,*)
(* and a client that reads nothing may keep its writePump waiting: no      *)
(* fairness for WriteMessage while the connection is open.                 *)
HubFairness ==
  \A c \in Clients : /\ WF_hubVars(Register(c)) /\ WF_hubVars(Unregister(c)) /\ WF_hubVars(ClientReadFails(c))
                     /\ WF_hubVars(~client[c].open /\ WriteMessage(c)) /\ WF_hubVars(WriteEnds(c))

HubSpec == HubInit /\ [][HubNext]_hubVars /\ HubFairness

-----------------------------------------------------------------------------
(* What reaches a subscriber is in the order its publisher emitted it, and *)
(* all of it but what met a full buffer; what reaches a client is a run of *)
(* what the hub received since it registered, without a gap, because a     *)
(* client that is too slow is dropped rather than skipped; and no closed   *)
(* channel is used or closed again (events.go:83, ws_hub.go:52).           *)
EventsInOrder ==
  /\ ~panicked
  /\ \A s \in Subscribers : LET all == taken[s] \o channel[s].buffer IN
       /\ \A i, j \in DOMAIN all : i < j /\ all[i][1] = all[j][1] => all[i][2] < all[j][2]
       /\ \A p \in Publishers : \A k \in 1..publisher[p].begun :
            \/ <<p, k>> \in missed[s] \cup ToSet(all)
            \/ k = publisher[p].begun /\ s \in publisher[p].todo
  /\ \A c \in Clients : LET run == client[c].got \o client[c].send IN
       /\ Len(client[c].send) <= ClientBuffer
       /\ client[c].write = "writing" =>
            IsPrefix(run, SubSeq(taken["hub"], client[c].since + 1, Len(taken["hub"])))
       /\ c \in served => ~client[c].closed /\ client[c].since + Len(run) <= Len(taken["hub"])
       /\ c \in served /\ client[c].write = "writing" => client[c].since + Len(run) = Len(taken["hub"])

(* A client that is gone, or that was dropped and reads its last messages, *)
(* leaves no goroutine and no place in the hub behind.                     *)
PumpsEnd ==
  \A c \in Clients :
    client[c].read # "none" /\ ~client[c].open
      ~> client[c].read = "gone" /\ client[c].write = "gone" /\ c \notin served
=============================================================================
