------------------------------ MODULE Listener ------------------------------
(***************************************************************************)
(* The capture listener (TCPListener of capture/tcp_listener.go): it is    *)
(* started and stopped by its owner, its accept loops run as goroutines of *)
(* their own, and each connection is handled in one more.                  *)
(*                                                                         *)
(* Stop does not wait for connections to end by themselves: it closes      *)
(* every connection the listener tracks, which wakes a handler that waits  *)
(* for its client, and then waits for the goroutines only for a limited    *)
(* time, because a handler may be waiting elsewhere (for an upstream, at a *)
(* breakpoint).  tl.mu and connMu are held for single actions here.        *)
(*                                                                         *)
(* The owner calls Start and Stop in turn, as the application (which       *)
(* starts once) and the tests (which restart) do.                          *)
(***************************************************************************)
EXTENDS Integers, FiniteSets

CONSTANTS
  Sockets,    \* the connections that clients make
  Threads,    \* config.GetThreads(), the number of accept loops
  MaxStarts   \* bound on the calls of Start

Rounds  == 1..MaxStarts
Workers == Rounds \X (1..Threads)   \* the accept loops of each start
NoSocket == 0

ASSUME ListenerAssumption ==
  Threads \in Nat \ {0} /\ MaxStarts \in Nat \ {0} /\ NoSocket \notin Sockets

VARIABLES
  isRunning,
  round,      \* how often Start succeeded; the context of a round bears its number
  ctx,        \* the context Start passed to the loops of each round
  cancelled,  \* contexts that were cancelled
  owner,      \* where the owner's call of Stop is; "idle" outside
  returned,   \* how the last Stop returned: "no", "done", "grace"
  closing, conns,
  sweep,      \* connections closeAllConns still has to close
  acceptor,   \* where each accept loop is
  held,       \* the connection an accept loop has accepted
  serving,    \* where the handler of each connection is
  queued,     \* connections waiting to be accepted
  closed,     \* accepted connections closed on this side
  left,       \* connections whose client has left
  running     \* tl.wg

ownerVars  == <<isRunning, round, ctx, cancelled, owner, returned, sweep>>
clientVars == <<queued, left>>
listenerVars == <<ownerVars, closing, conns, acceptor, held, serving, clientVars, closed, running>>

ListenerTypeOK ==
  /\ isRunning \in BOOLEAN /\ closing \in BOOLEAN
  /\ round \in 0..MaxStarts /\ ctx \in [Rounds -> 0..MaxStarts] /\ cancelled \subseteq Rounds
  /\ owner \in {"idle", "stopping", "sweeping", "waiting"}
  /\ returned \in {"no", "done", "grace"}
  /\ acceptor \in [Workers -> {"off", "check", "accept", "track", "spawn", "ended"}]
  /\ held \in [Workers -> Sockets \cup {NoSocket}]
  /\ serving \in [Sockets -> {"no", "client", "elsewhere", "close", "untrack", "done", "ended"}]
  /\ \A set \in {conns, sweep, queued, closed, left} : set \subseteq Sockets
  /\ running \in Int

ListenerInit ==
  /\ isRunning = FALSE /\ round = 0 /\ ctx = [r \in Rounds |-> 0] /\ cancelled = {}
  /\ owner = "idle" /\ returned = "no"
  /\ closing = FALSE /\ conns = {} /\ sweep = {}
  /\ acceptor = [w \in Workers |-> "off"] /\ held = [w \in Workers |-> NoSocket]
  /\ serving = [c \in Sockets |-> "no"]
  /\ queued = {} /\ closed = {} /\ left = {}
  /\ running = 0

-----------------------------------------------------------------------------
(* The owner.                                                              *)

NewContext(r) == r

(* Start: the connection tracking is reset, and the loops get the context  *)
(* of their own round.                                                     *)
StartListener ==
  /\ owner = "idle" /\ ~isRunning /\ round < MaxStarts
  /\ isRunning' = TRUE
  /\ round' = round + 1
  /\ ctx' = [ctx EXCEPT ![round'] = NewContext(round')]
  /\ closing' = FALSE /\ conns' = {}
  /\ running' = running + Threads
  /\ acceptor' = [w \in Workers |-> IF w[1] = round' THEN "check" ELSE acceptor[w]]
  /\ returned' = "no"
  /\ UNCHANGED <<cancelled, owner, sweep, held, serving, clientVars, closed>>

(* Stop, under tl.mu: the context is cancelled, the listening socket       *)
(* closed; what waits to be accepted is lost with it.                      *)
StopListener ==
  /\ owner = "idle" /\ isRunning
  /\ cancelled' = cancelled \cup {ctx[round]}
  /\ isRunning' = FALSE
  /\ queued' = {}
  /\ owner' = "stopping"
  /\ UNCHANGED <<round, ctx, returned, closing, conns, sweep, acceptor, held, serving, left, closed,
                 running>>

(* Mutant of CloseAllConns: new connections are not refused.               *)
CloseAllConnsOpen ==
  /\ owner = "stopping"
  /\ sweep' = conns /\ conns' = {}
  /\ owner' = "sweeping"
  /\ UNCHANGED <<isRunning, round, ctx, cancelled, returned, closing, acceptor, held, serving,
                 clientVars, closed, running>>

(* closeAllConns takes the tracked connections and has further ones        *)
(* refused, then closes those it took.                                     *)
CloseAllConns ==
  /\ owner = "stopping"
  /\ closing' = TRUE
  /\ sweep' = conns /\ conns' = {}
  /\ owner' = "sweeping"
  /\ UNCHANGED <<isRunning, round, ctx, cancelled, returned, acceptor, held, serving, clientVars,
                 closed, running>>

CloseNext ==
  /\ owner = "sweeping"
  /\ \/ \E c \in sweep : /\ closed' = closed \cup {c} /\ sweep' = sweep \ {c}
                         /\ UNCHANGED owner
     \/ sweep = {} /\ owner' = "waiting" /\ UNCHANGED <<closed, sweep>>
  /\ UNCHANGED <<isRunning, round, ctx, cancelled, returned, closing, conns, acceptor, held, serving,
                 clientVars, running>>

(* Stop returns when all goroutines have ended, or after shutdownGrace.    *)
StopReturns ==
  /\ owner = "waiting"
  /\ \/ running = 0 /\ returned' = "done"
     \/ returned' = "grace"
  /\ owner' = "idle"
  /\ UNCHANGED <<isRunning, round, ctx, cancelled, closing, conns, sweep, acceptor, held, serving,
                 clientVars, closed, running>>

-----------------------------------------------------------------------------
(* An accept loop.  It looks at its context, not at the listener's; the    *)
(* socket, however, it takes from the listener each time.                  *)
LoopGoes(w, step) == acceptor' = [acceptor EXCEPT ![w] = step]

CheckContext(w) ==
  /\ acceptor[w] = "check"
  /\ IF ctx[w[1]] \in cancelled
     THEN LoopGoes(w, "ended") /\ running' = running - 1
     ELSE LoopGoes(w, "accept") /\ UNCHANGED running
  /\ UNCHANGED <<ownerVars, closing, conns, held, serving, clientVars, closed>>

(* Accept fails when its socket was closed, and after a second; an error   *)
(* after the context was cancelled ends the loop.                          *)
AcceptSocket(w) ==
  /\ acceptor[w] = "accept"
  /\ \/ \E c \in queued :
          /\ queued' = queued \ {c}
          /\ held' = [held EXCEPT ![w] = c]
          /\ LoopGoes(w, "track")
          /\ UNCHANGED running
     \/ /\ ctx[w[1]] \in cancelled
        /\ LoopGoes(w, "ended") /\ running' = running - 1
        /\ UNCHANGED <<queued, held>>
     \/ /\ queued = {} /\ isRunning
        /\ LoopGoes(w, "check")
        /\ UNCHANGED <<queued, held, running>>
  /\ UNCHANGED <<ownerVars, closing, conns, serving, left, closed>>

(* trackConn; a refused connection is closed, and the loop ends.           *)
TrackSocket(w) ==
  /\ acceptor[w] = "track"
  /\ IF closing
     THEN /\ closed' = closed \cup {held[w]}
          /\ held' = [held EXCEPT ![w] = NoSocket]
          /\ LoopGoes(w, "ended") /\ running' = running - 1
          /\ UNCHANGED conns
     ELSE /\ conns' = conns \cup {held[w]}
          /\ LoopGoes(w, "spawn")
          /\ UNCHANGED <<closed, held, running>>
  /\ UNCHANGED <<ownerVars, closing, serving, clientVars>>

SpawnHandler(w) ==
  /\ acceptor[w] = "spawn"
  /\ running' = running + 1
  /\ serving' = [serving EXCEPT ![held[w]] = "client"]
  /\ held' = [held EXCEPT ![w] = NoSocket]
  /\ LoopGoes(w, "check")
  /\ UNCHANGED <<ownerVars, closing, conns, clientVars, closed>>

-----------------------------------------------------------------------------
(* The handler of a connection, handleConnection.  It waits for its client *)
(* or elsewhere; a read or a write of a closed connection fails.           *)
Serving(c, step) == serving' = [serving EXCEPT ![c] = step]

HandlerTurns(c) ==
  /\ \/ serving[c] = "client" /\ c \notin closed \cup left /\ Serving(c, "elsewhere")
     \/ serving[c] = "elsewhere" /\ Serving(c, "client")
  /\ UNCHANGED <<ownerVars, closing, conns, acceptor, held, clientVars, closed, running>>

HandlerLeaves(c) ==
  /\ serving[c] = "client"
  /\ c \in closed \cup left
  /\ Serving(c, "close")
  /\ UNCHANGED <<ownerVars, closing, conns, acceptor, held, clientVars, closed, running>>

(* The deferred calls, in their order: conn.Close, untrackConn, wg.Done.   *)
CloseSocket(c) ==
  /\ serving[c] = "close"
  /\ closed' = closed \cup {c}
  /\ Serving(c, "untrack")
  /\ UNCHANGED <<ownerVars, closing, conns, acceptor, held, clientVars, running>>

UntrackSocket(c) ==
  /\ serving[c] = "untrack"
  /\ conns' = conns \ {c}
  /\ Serving(c, "done")
  /\ UNCHANGED <<ownerVars, closing, acceptor, held, clientVars, closed, running>>

HandlerDone(c) ==
  /\ serving[c] = "done"
  /\ running' = running - 1
  /\ Serving(c, "ended")
  /\ UNCHANGED <<ownerVars, closing, conns, acceptor, held, clientVars, closed>>

-----------------------------------------------------------------------------
(* Clients connect while the socket is open, once each, and leave.         *)
Fresh(c) == serving[c] = "no" /\ c \notin queued \cup closed /\ \A w \in Workers : held[w] # c

ClientConnects(c) ==
  /\ isRunning /\ Fresh(c) /\ c \notin left
  /\ queued' = queued \cup {c}
  /\ UNCHANGED <<ownerVars, closing, conns, acceptor, held, serving, left, closed, running>>

ClientLeaves(c) ==
  /\ serving[c] = "client" /\ c \notin left
  /\ left' = left \cup {c}
  /\ UNCHANGED <<ownerVars, closing, conns, acceptor, held, serving, queued, closed, running>>

LoopStep(w)    == CheckContext(w) \/ AcceptSocket(w) \/ TrackSocket(w) \/ SpawnHandler(w)
HandlerEnds(c) == HandlerLeaves(c) \/ CloseSocket(c) \/ UntrackSocket(c) \/ HandlerDone(c)
StopStep       == CloseAllConns \/ CloseNext \/ StopReturns

ListenerNext ==
  \/ StartListener \/ StopListener \/ StopStep
  \/ \E w \in Workers : LoopStep(w)
  \/ \E c \in Sockets : HandlerEnds(c) \/ HandlerTurns(c) \/ ClientConnects(c) \/ ClientLeaves(c)

(* Goroutines keep running.  A handler that waits elsewhere may do so for  *)
(* ever, and an accept loop takes a connection that waits although its     *)
(* second may pass.                                                        *)
ListenerFairness ==
  /\ WF_listenerVars(StopStep)
  /\ \A w \in Workers : WF_listenerVars(LoopStep(w))
  /\ \A c \in Sockets : WF_listenerVars(HandlerEnds(c))

ListenerSpec == ListenerInit /\ [][ListenerNext]_listenerVars /\ ListenerFairness

-----------------------------------------------------------------------------
LoopRuns(w)    == acceptor[w] \notin {"off", "ended"}
HandlerRuns(c) == serving[c] \notin {"no", "ended"}

(* No connection escapes Stop (tcp_listener.go:172): one that is handled   *)
(* and open is tracked, so that a Stop would close it, or is about to be   *)
(* closed; while the listener is down none is open that is handled.  The   *)
(* counter counts the goroutines, so that a Stop that has not run into its *)
(* grace period leaves none behind and every accepted connection closed.   *)
ListenerSound ==
  /\ ListenerTypeOK
  /\ \A c \in Sockets : HandlerRuns(c) /\ c \notin closed => c \in conns \cup sweep
  /\ running = Cardinality({w \in Workers : LoopRuns(w)}) + Cardinality({c \in Sockets : HandlerRuns(c)})
  /\ owner = "idle" /\ ~isRunning => \A c \in Sockets : HandlerRuns(c) => c \in closed
  /\ returned = "done" /\ ~isRunning =>
       /\ \A w \in Workers : ~LoopRuns(w) /\ held[w] = NoSocket
       /\ \A c \in Sockets : ~HandlerRuns(c)
       /\ conns = {}

(* A listener that says it runs serves: a connection that waits is         *)
(* accepted, after a restart, too (tcp_listener.go:112), or is lost to a   *)
(* Stop.  And once it was stopped, every handler that does not wait        *)
(* elsewhere ends (tcp_listener.go:140).                                   *)
ListenerLive ==
  /\ \A c \in Sockets : c \in queued ~> c \notin queued
  /\ \A c \in Sockets :
       owner = "waiting" /\ HandlerRuns(c) ~> ~HandlerRuns(c) \/ serving[c] = "elsewhere"
=============================================================================
