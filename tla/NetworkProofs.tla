---------------------------- MODULE NetworkProofs ---------------------------
(***************************************************************************)
(* Proofs about the goroutines around the exchanges: the listener, a       *)
(* client's connection, the pumps of a WebSocket, the hub of the user      *)
(* interfaces and the calls of scripts.                                    *)
(***************************************************************************)
EXTENDS EventHub, PluginCalls, Listener, ClientConn, WebSocket, SequenceLemmas,
        FiniteSetTheorems

-----------------------------------------------------------------------------
(* The listener.                                                           *)

Loops    == {w \in Workers : LoopRuns(w)}
Handlers == {c \in Sockets : HandlerRuns(c)}

(* Stop is called once for each Start, and the loops of a round wait for   *)
(* its Start.                                                              *)
Rounded ==
  /\ isRunning => (owner = "idle" /\ returned = "no" /\ round > 0)
  /\ owner # "idle" => (returned = "no" /\ round > 0)
  /\ \A r \in 1..round : ctx[r] = r
  /\ \A w \in Workers : w[1] > round => acceptor[w] = "off"

Down == ~isRunning /\ owner # "stopping"

(* From closeAllConns to the next Start connections are refused, so that   *)
(* none is tracked then.                                                   *)
Refusing ==
  /\ closing <=> (round > 0 /\ Down)
  /\ Down => conns = {}
  /\ owner # "sweeping" => sweep = {}

(* An accepted connection has one holder: its loop, then its handler.      *)
Holding ==
  /\ \A w \in Workers :
       /\ held[w] # NoSocket <=> acceptor[w] \in {"track", "spawn"}
       /\ held[w] # NoSocket => (serving[held[w]] = "no" /\ held[w] \notin queued)
       /\ acceptor[w] = "spawn" => held[w] \in conns \cup sweep \cup closed
  /\ \A v, w \in Workers : (held[v] = held[w] /\ held[w] # NoSocket) => v = w
  /\ \A c \in queued : serving[c] = "no"

(* Open connections with a handler are tracked.                            *)
Tracked ==
  \A c \in Sockets :
    /\ serving[c] \in {"untrack", "done", "ended"} => c \in closed
    /\ (HandlerRuns(c) /\ c \notin closed) => c \in conns \cup sweep

Counted ==
  /\ IsFiniteSet(Handlers)
  /\ running = Cardinality(Loops) + Cardinality(Handlers)

Finished ==
  (returned = "done" /\ ~isRunning) => (owner = "idle" /\ Loops = {} /\ Handlers = {})

ListenerInv ==
  ListenerTypeOK /\ Rounded /\ Refusing /\ Holding /\ Tracked /\ Counted /\ Finished

(* The accept loops are finitely many, Threads of them in each round.      *)
LEMMA WorkersFinite ==
  /\ IsFiniteSet(Workers)
  /\ \A r \in Rounds : Cardinality({r} \X (1..Threads)) = Threads
<1>1. IsFiniteSet(Rounds) /\ IsFiniteSet(1..Threads) /\ Cardinality(1..Threads) = Threads
  BY FS_Interval, ListenerAssumption DEF Rounds
<1>2. ASSUME NEW r \in Rounds PROVE Cardinality({r} \X (1..Threads)) = Threads
  <2>1. IsFiniteSet({r}) /\ Cardinality({r}) = 1
    BY FS_Singleton
  <2>2. Cardinality({r} \X (1..Threads)) = Cardinality({r}) * Cardinality(1..Threads)
    BY <1>1, <2>1, FS_Product
  <2> QED BY <1>1, <2>1, <2>2, ListenerAssumption
<1>3. IsFiniteSet(Workers)
  BY <1>1, FS_Product DEF Workers
<1> QED BY <1>2, <1>3

LEMMA LoopsFinite == IsFiniteSet(Loops) /\ Cardinality(Loops) \in Nat
<1>1. Loops \in SUBSET Workers
  BY DEF Loops
<1>2. IsFiniteSet(Loops)
  BY <1>1, WorkersFinite, FS_Subset
<1> QED BY <1>2, FS_CardinalityType

(* A loop, or a handler, takes a step of its own.                          *)
LEMMA LoopMoves ==
  ASSUME NEW w \in Workers, NEW step,
         acceptor \in [Workers -> {"off", "check", "accept", "track", "spawn", "ended"}],
         LoopRuns(w), LoopGoes(w, step)
  PROVE  /\ step \notin {"off", "ended"} => Loops' = Loops
         /\ step \in {"off", "ended"} => /\ Loops' = Loops \ {w}
                                        /\ Cardinality(Loops') = Cardinality(Loops) - 1
<1>1. \A v \in Workers : acceptor'[v] = IF v = w THEN step ELSE acceptor[v]
  BY DEF LoopGoes
<1>2. step \notin {"off", "ended"} => Loops' = Loops
  BY <1>1 DEF Loops, LoopRuns
<1>3. step \in {"off", "ended"} => Loops' = Loops \ {w}
  BY <1>1 DEF Loops, LoopRuns
<1>4. w \in Loops
  BY DEF Loops
<1>5. Cardinality(Loops \ {w}) = Cardinality(Loops) - 1
  BY <1>4, LoopsFinite, FS_RemoveElement
<1> QED BY <1>2, <1>3, <1>5

LEMMA HandlerMoves ==
  ASSUME NEW c \in Sockets, NEW step, IsFiniteSet(Handlers),
         serving \in [Sockets -> {"no", "client", "elsewhere", "close", "untrack", "done", "ended"}],
         Serving(c, step)
  PROVE  /\ (HandlerRuns(c) /\ step \notin {"no", "ended"}) => Handlers' = Handlers
         /\ (~HandlerRuns(c) /\ step \notin {"no", "ended"}) =>
              (Handlers' = Handlers \cup {c} /\ Cardinality(Handlers') = Cardinality(Handlers) + 1)
         /\ (HandlerRuns(c) /\ step \in {"no", "ended"}) =>
              (Handlers' = Handlers \ {c} /\ Cardinality(Handlers') = Cardinality(Handlers) - 1)
         /\ IsFiniteSet(Handlers') /\ Cardinality(Handlers) \in Nat
<1>1. \A d \in Sockets : serving'[d] = IF d = c THEN step ELSE serving[d]
  BY DEF Serving
<1>2. step \notin {"no", "ended"} => Handlers' = Handlers \cup {c}
  BY <1>1 DEF Handlers, HandlerRuns
<1>3. step \in {"no", "ended"} => Handlers' = Handlers \ {c}
  BY <1>1 DEF Handlers, HandlerRuns
<1>4. c \in Handlers <=> HandlerRuns(c)
  BY DEF Handlers
<1>5. /\ IsFiniteSet(Handlers \cup {c})
      /\ Cardinality(Handlers \cup {c}) =
           IF c \in Handlers THEN Cardinality(Handlers) ELSE Cardinality(Handlers) + 1
  BY FS_AddElement
<1>6. /\ IsFiniteSet(Handlers \ {c})
      /\ Cardinality(Handlers \ {c}) =
           IF c \in Handlers THEN Cardinality(Handlers) - 1 ELSE Cardinality(Handlers)
  BY FS_RemoveElement
<1>7. c \in Handlers => Handlers \cup {c} = Handlers
  OBVIOUS
<1>8. Cardinality(Handlers) \in Nat
  BY FS_CardinalityType
<1> QED BY <1>2, <1>3, <1>4, <1>5, <1>6, <1>7, <1>8

LEMMA WorkerRounds == \A w \in Workers : w[1] \in Rounds
  BY DEF Workers

(* One lemma for each action.                                              *)
LEMMA StartKeeps ==
  ASSUME ListenerInv, StartListener
  PROVE  ListenerInv'
<1>0. round' \in Rounds /\ round' \in 0..MaxStarts
  BY ListenerAssumption DEF ListenerInv, StartListener, ListenerTypeOK, Rounded, Rounds
<1>1. ListenerTypeOK'
  <2>1. /\ isRunning' \in BOOLEAN /\ closing' \in BOOLEAN
        /\ round' \in 0..MaxStarts /\ ctx' \in [Rounds -> 0..MaxStarts]
        /\ cancelled' \subseteq Rounds
        /\ owner' \in {"idle", "stopping", "sweeping", "waiting"}
        /\ returned' \in {"no", "done", "grace"}
    BY <1>0 DEF ListenerInv, StartListener, ownerVars, clientVars, NewContext, ListenerTypeOK
  <2>2. /\ acceptor' \in [Workers -> {"off", "check", "accept", "track", "spawn", "ended"}]
        /\ held' \in [Workers -> Sockets \cup {NoSocket}]
        /\ serving' \in [Sockets -> {"no", "client", "elsewhere", "close", "untrack", "done", "ended"}]
    BY DEF ListenerInv, StartListener, ownerVars, clientVars, NewContext, ListenerTypeOK
  <2>3. /\ \A set \in {conns', sweep', queued', closed', left'} : set \subseteq Sockets
        /\ running' \in Int
    BY ListenerAssumption DEF ListenerInv, StartListener, ownerVars, clientVars, NewContext,
       ListenerTypeOK, Holding
  <2> QED BY <2>1, <2>2, <2>3 DEF ListenerTypeOK
<1>2. Rounded' /\ Refusing'
  <2>1. Rounded'
    BY <1>0, ListenerAssumption, WorkerRounds DEF ListenerInv, StartListener, ownerVars,
       clientVars, NewContext, ListenerTypeOK, Rounded, Rounds
  <2>2. Refusing'
    BY WorkerRounds DEF ListenerInv, StartListener, ownerVars, clientVars, NewContext,
       ListenerTypeOK, Rounded, Refusing, Down, Rounds
  <2> QED BY <2>1, <2>2
<1>3. Holding'
  BY ListenerAssumption DEF ListenerInv, StartListener, ownerVars, clientVars, NewContext,
     ListenerTypeOK, Rounded, Refusing, Down, Holding
<1>4. Tracked'
  BY DEF ListenerInv, StartListener, ownerVars, clientVars, NewContext, ListenerTypeOK, Rounded,
     Refusing, Down, Holding, Tracked, HandlerRuns
<1>5. Handlers' = Handlers
  BY DEF StartListener, Handlers, HandlerRuns
<1>6. Counted'
  <2> DEFINE new == {round'} \X (1..Threads)
  <2>1. new \subseteq Workers /\ \A w \in Workers : w \in new <=> w[1] = round'
    BY <1>0 DEF Workers
  <2>2. Cardinality(new) = Threads /\ IsFiniteSet(new)
    BY <1>0, <2>1, WorkersFinite, FS_Subset
  <2>3. \A w \in Workers : w \in new => ~LoopRuns(w)
    BY <2>1 DEF ListenerInv, StartListener, Rounded, ListenerTypeOK, LoopRuns
  <2> HIDE DEF new
  <2>4. Loops' = Loops \cup new
    BY <2>1, <2>3 DEF ListenerInv, StartListener, ListenerTypeOK, Loops, LoopRuns
  <2>5. Loops \cap new = {}
    BY <2>3 DEF Loops
  <2>6. Cardinality(Loops') = Cardinality(Loops) + Threads
    <3>1. Cardinality(Loops \cup new) =
            Cardinality(Loops) + Cardinality(new) - Cardinality(Loops \cap new)
      BY <2>2, LoopsFinite, FS_Union
    <3>2. Cardinality(Loops \cap new) = 0
      BY <2>5, FS_EmptySet
    <3> QED BY <2>2, <2>4, <3>1, <3>2, LoopsFinite, ListenerAssumption
  <2>7. Cardinality(Handlers) \in Nat
    BY FS_CardinalityType DEF ListenerInv, Counted
  <2> QED BY <1>5, <2>6, <2>7, LoopsFinite, ListenerAssumption DEF ListenerInv, StartListener, Counted
<1>7. Finished'
  BY DEF ListenerInv, StartListener, ownerVars, clientVars, NewContext, ListenerTypeOK, Rounded,
     Finished, Loops, LoopRuns
<1> QED BY <1>1, <1>2, <1>3, <1>4, <1>6, <1>7 DEF ListenerInv

LEMMA StopKeeps ==
  ASSUME ListenerInv, StopListener
  PROVE  ListenerInv'
<1>0. round \in Rounds /\ ctx[round] \in Rounds
  BY ListenerAssumption DEF ListenerInv, StopListener, ListenerTypeOK, Rounded, Rounds
<1>1. ListenerTypeOK'
  <2>1. /\ isRunning' \in BOOLEAN /\ closing' \in BOOLEAN
        /\ round' \in 0..MaxStarts /\ ctx' \in [Rounds -> 0..MaxStarts]
        /\ cancelled' \subseteq Rounds
        /\ owner' \in {"idle", "stopping", "sweeping", "waiting"}
        /\ returned' \in {"no", "done", "grace"}
    BY <1>0 DEF ListenerInv, StopListener, ownerVars, clientVars, ListenerTypeOK
  <2>2. /\ acceptor' \in [Workers -> {"off", "check", "accept", "track", "spawn", "ended"}]
        /\ held' \in [Workers -> Sockets \cup {NoSocket}]
        /\ serving' \in [Sockets -> {"no", "client", "elsewhere", "close", "untrack", "done", "ended"}]
    BY DEF ListenerInv, StopListener, ownerVars, clientVars, ListenerTypeOK
  <2>3. /\ \A set \in {conns', sweep', queued', closed', left'} : set \subseteq Sockets
        /\ running' \in Int
    BY ListenerAssumption DEF ListenerInv, StopListener, ownerVars, clientVars, ListenerTypeOK,
       Holding
  <2> QED BY <2>1, <2>2, <2>3 DEF ListenerTypeOK
<1>2. Rounded' /\ Refusing'
  <2>1. Rounded'
    BY <1>0, ListenerAssumption, WorkerRounds DEF ListenerInv, StopListener, ownerVars,
       clientVars, ListenerTypeOK, Rounded, Rounds
  <2>2. Refusing'
    BY WorkerRounds DEF ListenerInv, StopListener, ownerVars, clientVars, ListenerTypeOK, Rounded,
       Refusing, Down, Rounds
  <2> QED BY <2>1, <2>2
<1>3. Holding'
  BY ListenerAssumption DEF ListenerInv, StopListener, ownerVars, clientVars, ListenerTypeOK,
     Rounded, Refusing, Down, Holding
<1>4. Tracked'
  BY DEF ListenerInv, StopListener, ownerVars, clientVars, ListenerTypeOK, Rounded, Refusing,
     Down, Holding, Tracked, HandlerRuns
<1>5. Loops' = Loops /\ Handlers' = Handlers
  BY DEF ListenerInv, ListenerTypeOK, StopListener, Loops, LoopRuns, Handlers, HandlerRuns
<1>6. Counted'
  BY <1>5 DEF ListenerInv, StopListener, Counted
<1>7. Finished'
  BY <1>5 DEF ListenerInv, StopListener, ownerVars, clientVars, ListenerTypeOK, Rounded, Finished
<1> QED BY <1>1, <1>2, <1>3, <1>4, <1>6, <1>7 DEF ListenerInv

LEMMA CloseAllKeeps ==
  ASSUME ListenerInv, CloseAllConns
  PROVE  ListenerInv'
<1>1. ListenerTypeOK'
  BY DEF ListenerInv, CloseAllConns, ownerVars, clientVars, ListenerTypeOK
<1>2. Rounded' /\ Refusing'
  <2>1. Rounded'
    BY ListenerAssumption, WorkerRounds DEF ListenerInv, CloseAllConns, ownerVars, clientVars,
       ListenerTypeOK, Rounded, Rounds
  <2>2. Refusing'
    BY WorkerRounds DEF ListenerInv, CloseAllConns, ownerVars, clientVars, ListenerTypeOK,
       Rounded, Refusing, Down, Rounds
  <2> QED BY <2>1, <2>2
<1>3. Holding'
  BY ListenerAssumption DEF ListenerInv, CloseAllConns, ownerVars, clientVars, ListenerTypeOK,
     Rounded, Refusing, Down, Holding
<1>4. Tracked'
  BY DEF ListenerInv, CloseAllConns, ownerVars, clientVars, ListenerTypeOK, Rounded, Refusing,
     Down, Holding, Tracked, HandlerRuns
<1>5. Loops' = Loops /\ Handlers' = Handlers
  BY DEF ListenerInv, ListenerTypeOK, CloseAllConns, Loops, LoopRuns, Handlers, HandlerRuns
<1>6. Counted'
  BY <1>5 DEF ListenerInv, CloseAllConns, Counted
<1>7. Finished'
  BY <1>5 DEF ListenerInv, CloseAllConns, ownerVars, clientVars, ListenerTypeOK, Rounded, Finished
<1> QED BY <1>1, <1>2, <1>3, <1>4, <1>6, <1>7 DEF ListenerInv

LEMMA CloseNextKeeps ==
  ASSUME ListenerInv, CloseNext
  PROVE  ListenerInv'
<1>1. ListenerTypeOK'
  BY DEF ListenerInv, CloseNext, ownerVars, clientVars, ListenerTypeOK
<1>2. Rounded' /\ Refusing'
  <2>1. Rounded'
    BY ListenerAssumption, WorkerRounds DEF ListenerInv, CloseNext, ownerVars, clientVars,
       ListenerTypeOK, Rounded, Rounds
  <2>2. Refusing'
    BY WorkerRounds DEF ListenerInv, CloseNext, ownerVars, clientVars, ListenerTypeOK, Rounded,
       Refusing, Down, Rounds
  <2> QED BY <2>1, <2>2
<1>3. Holding'
  BY ListenerAssumption DEF ListenerInv, CloseNext, ownerVars, clientVars, ListenerTypeOK,
     Rounded, Refusing, Down, Holding
<1>4. Tracked'
  BY DEF ListenerInv, CloseNext, ownerVars, clientVars, ListenerTypeOK, Rounded, Refusing, Down,
     Holding, Tracked, HandlerRuns
<1>5. Loops' = Loops /\ Handlers' = Handlers
  BY DEF ListenerInv, ListenerTypeOK, CloseNext, Loops, LoopRuns, Handlers, HandlerRuns
<1>6. Counted'
  BY <1>5 DEF ListenerInv, CloseNext, Counted
<1>7. Finished'
  BY <1>5 DEF ListenerInv, CloseNext, ownerVars, clientVars, ListenerTypeOK, Rounded, Finished
<1> QED BY <1>1, <1>2, <1>3, <1>4, <1>6, <1>7 DEF ListenerInv

LEMMA StopReturnKeeps ==
  ASSUME ListenerInv, StopReturns
  PROVE  ListenerInv'
<1>1. ListenerTypeOK'
  BY DEF ListenerInv, StopReturns, ownerVars, clientVars, ListenerTypeOK
<1>2. Rounded' /\ Refusing'
  <2>1. Rounded'
    BY ListenerAssumption, WorkerRounds DEF ListenerInv, StopReturns, ownerVars, clientVars,
       ListenerTypeOK, Rounded, Rounds
  <2>2. Refusing'
    BY WorkerRounds DEF ListenerInv, StopReturns, ownerVars, clientVars, ListenerTypeOK, Rounded,
       Refusing, Down, Rounds
  <2> QED BY <2>1, <2>2
<1>3. Holding'
  BY ListenerAssumption DEF ListenerInv, StopReturns, ownerVars, clientVars, ListenerTypeOK,
     Rounded, Refusing, Down, Holding
<1>4. Tracked'
  BY DEF ListenerInv, StopReturns, ownerVars, clientVars, ListenerTypeOK, Rounded, Refusing, Down,
     Holding, Tracked, HandlerRuns
<1>5. Loops' = Loops /\ Handlers' = Handlers
  BY DEF ListenerInv, ListenerTypeOK, StopReturns, Loops, LoopRuns, Handlers, HandlerRuns
<1>6. Counted'
  BY <1>5 DEF ListenerInv, StopReturns, Counted
<1>7. Finished'
  <2>1. running = 0 => (Loops = {} /\ Handlers = {})
    BY LoopsFinite, FS_CardinalityType, FS_EmptySet DEF ListenerInv, Counted
  <2> QED BY <1>5, <2>1 DEF ListenerInv, StopReturns, Finished
<1> QED BY <1>1, <1>2, <1>3, <1>4, <1>6, <1>7 DEF ListenerInv

LEMMA CheckKeeps ==
  ASSUME NEW w \in Workers, ListenerInv, CheckContext(w)
  PROVE  ListenerInv'
<1>1. ListenerTypeOK'
  <2>1. /\ isRunning' \in BOOLEAN /\ closing' \in BOOLEAN
        /\ round' \in 0..MaxStarts /\ ctx' \in [Rounds -> 0..MaxStarts]
        /\ cancelled' \subseteq Rounds
        /\ owner' \in {"idle", "stopping", "sweeping", "waiting"}
        /\ returned' \in {"no", "done", "grace"}
    BY DEF ListenerInv, CheckContext, ownerVars, clientVars, LoopGoes, ListenerTypeOK
  <2>2. /\ acceptor' \in [Workers -> {"off", "check", "accept", "track", "spawn", "ended"}]
        /\ held' \in [Workers -> Sockets \cup {NoSocket}]
        /\ serving' \in [Sockets -> {"no", "client", "elsewhere", "close", "untrack", "done", "ended"}]
    BY DEF ListenerInv, CheckContext, ownerVars, clientVars, LoopGoes, ListenerTypeOK
  <2>3. /\ \A set \in {conns', sweep', queued', closed', left'} : set \subseteq Sockets
        /\ running' \in Int
    BY ListenerAssumption DEF ListenerInv, CheckContext, ownerVars, clientVars, LoopGoes,
       ListenerTypeOK, Holding
  <2> QED BY <2>1, <2>2, <2>3 DEF ListenerTypeOK
<1>2. Rounded' /\ Refusing'
  <2>1. Rounded'
    BY ListenerAssumption, WorkerRounds DEF ListenerInv, CheckContext, ownerVars, clientVars,
       LoopGoes, ListenerTypeOK, Rounded, Rounds
  <2>2. Refusing'
    BY WorkerRounds DEF ListenerInv, CheckContext, ownerVars, clientVars, LoopGoes,
       ListenerTypeOK, Rounded, Refusing, Down, Rounds
  <2> QED BY <2>1, <2>2
<1>3. Holding'
  BY ListenerAssumption DEF ListenerInv, CheckContext, ownerVars, clientVars, LoopGoes,
     ListenerTypeOK, Rounded, Refusing, Down, Holding
<1>4. Tracked'
  BY DEF ListenerInv, CheckContext, ownerVars, clientVars, LoopGoes, ListenerTypeOK, Rounded,
     Refusing, Down, Holding, Tracked, HandlerRuns
<1>5. Handlers' = Handlers
  BY DEF CheckContext, Handlers, HandlerRuns
<1>6. Counted'
  <2>0. /\ LoopRuns(w) /\ running \in Int
        /\ acceptor \in [Workers -> {"off", "check", "accept", "track", "spawn", "ended"}]
    BY DEF ListenerInv, CheckContext, ListenerTypeOK, LoopRuns
  <2>1. CASE running' = running - 1 /\ LoopGoes(w, "ended")
    <3>1. Cardinality(Loops') = Cardinality(Loops) - 1
      BY <2>0, <2>1, LoopMoves
    <3>2. Cardinality(Handlers) \in Nat
      BY FS_CardinalityType DEF ListenerInv, Counted
    <3> QED BY <1>5, <2>0, <2>1, <3>1, <3>2, LoopsFinite DEF ListenerInv, Counted
  <2>2. CASE running' = running
             /\ \E step \in {"check", "accept", "track", "spawn"} : LoopGoes(w, step)
    <3>1. Loops' = Loops
      BY <2>0, <2>2, LoopMoves
    <3> QED BY <1>5, <2>2, <3>1 DEF ListenerInv, Counted
  <2> QED BY <2>1, <2>2 DEF CheckContext
<1>7. Finished'
  BY <1>5 DEF ListenerInv, CheckContext, ownerVars, clientVars, LoopGoes, ListenerTypeOK, Rounded,
     Finished, Loops, LoopRuns
<1> QED BY <1>1, <1>2, <1>3, <1>4, <1>6, <1>7 DEF ListenerInv

LEMMA AcceptKeeps ==
  ASSUME NEW w \in Workers, ListenerInv, AcceptSocket(w)
  PROVE  ListenerInv'
<1>1. ListenerTypeOK'
  BY DEF ListenerInv, AcceptSocket, ownerVars, clientVars, LoopGoes, ListenerTypeOK
<1>2. Rounded' /\ Refusing'
  <2>1. Rounded'
    BY ListenerAssumption, WorkerRounds DEF ListenerInv, AcceptSocket, ownerVars, clientVars,
       LoopGoes, ListenerTypeOK, Rounded, Rounds
  <2>2. Refusing'
    BY WorkerRounds DEF ListenerInv, AcceptSocket, ownerVars, clientVars, LoopGoes,
       ListenerTypeOK, Rounded, Refusing, Down, Rounds
  <2> QED BY <2>1, <2>2
<1>3. Holding'
  BY ListenerAssumption DEF ListenerInv, AcceptSocket, ownerVars, clientVars, LoopGoes,
     ListenerTypeOK, Rounded, Refusing, Down, Holding
<1>4. Tracked'
  BY DEF ListenerInv, AcceptSocket, ownerVars, clientVars, LoopGoes, ListenerTypeOK, Rounded,
     Refusing, Down, Holding, Tracked, HandlerRuns
<1>5. Handlers' = Handlers
  BY DEF AcceptSocket, Handlers, HandlerRuns
<1>6. Counted'
  <2>0. /\ LoopRuns(w) /\ running \in Int
        /\ acceptor \in [Workers -> {"off", "check", "accept", "track", "spawn", "ended"}]
    BY DEF ListenerInv, AcceptSocket, ListenerTypeOK, LoopRuns
  <2>1. CASE running' = running - 1 /\ LoopGoes(w, "ended")
    <3>1. Cardinality(Loops') = Cardinality(Loops) - 1
      BY <2>0, <2>1, LoopMoves
    <3>2. Cardinality(Handlers) \in Nat
      BY FS_CardinalityType DEF ListenerInv, Counted
    <3> QED BY <1>5, <2>0, <2>1, <3>1, <3>2, LoopsFinite DEF ListenerInv, Counted
  <2>2. CASE running' = running
             /\ \E step \in {"check", "accept", "track", "spawn"} : LoopGoes(w, step)
    <3>1. Loops' = Loops
      BY <2>0, <2>2, LoopMoves
    <3> QED BY <1>5, <2>2, <3>1 DEF ListenerInv, Counted
  <2> QED BY <2>1, <2>2 DEF AcceptSocket
<1>7. Finished'
  BY <1>5 DEF ListenerInv, AcceptSocket, ownerVars, clientVars, LoopGoes, ListenerTypeOK, Rounded,
     Finished, Loops, LoopRuns
<1> QED BY <1>1, <1>2, <1>3, <1>4, <1>6, <1>7 DEF ListenerInv

LEMMA TrackKeeps ==
  ASSUME NEW w \in Workers, ListenerInv, TrackSocket(w)
  PROVE  ListenerInv'
<1>1. ListenerTypeOK'
  <2>1. /\ isRunning' \in BOOLEAN /\ closing' \in BOOLEAN
        /\ round' \in 0..MaxStarts /\ ctx' \in [Rounds -> 0..MaxStarts]
        /\ cancelled' \subseteq Rounds
        /\ owner' \in {"idle", "stopping", "sweeping", "waiting"}
        /\ returned' \in {"no", "done", "grace"}
    BY DEF ListenerInv, TrackSocket, ownerVars, clientVars, LoopGoes, ListenerTypeOK
  <2>2. /\ acceptor' \in [Workers -> {"off", "check", "accept", "track", "spawn", "ended"}]
        /\ held' \in [Workers -> Sockets \cup {NoSocket}]
        /\ serving' \in [Sockets -> {"no", "client", "elsewhere", "close", "untrack", "done", "ended"}]
    BY DEF ListenerInv, TrackSocket, ownerVars, clientVars, LoopGoes, ListenerTypeOK
  <2>3. /\ \A set \in {conns', sweep', queued', closed', left'} : set \subseteq Sockets
        /\ running' \in Int
    BY ListenerAssumption DEF ListenerInv, TrackSocket, ownerVars, clientVars, LoopGoes,
       ListenerTypeOK, Holding
  <2> QED BY <2>1, <2>2, <2>3 DEF ListenerTypeOK
<1>2. Rounded' /\ Refusing'
  <2>1. Rounded'
    BY ListenerAssumption, WorkerRounds DEF ListenerInv, TrackSocket, ownerVars, clientVars,
       LoopGoes, ListenerTypeOK, Rounded, Rounds
  <2>2. Refusing'
    BY WorkerRounds DEF ListenerInv, TrackSocket, ownerVars, clientVars, LoopGoes, ListenerTypeOK,
       Rounded, Refusing, Down, Rounds
  <2> QED BY <2>1, <2>2
<1>3. Holding'
  BY ListenerAssumption DEF ListenerInv, TrackSocket, ownerVars, clientVars, LoopGoes,
     ListenerTypeOK, Rounded, Refusing, Down, Holding
<1>4. Tracked'
  BY DEF ListenerInv, TrackSocket, ownerVars, clientVars, LoopGoes, ListenerTypeOK, Rounded,
     Refusing, Down, Holding, Tracked, HandlerRuns
<1>5. Handlers' = Handlers
  BY DEF TrackSocket, Handlers, HandlerRuns
<1>6. Counted'
  <2>0. /\ LoopRuns(w) /\ running \in Int
        /\ acceptor \in [Workers -> {"off", "check", "accept", "track", "spawn", "ended"}]
    BY DEF ListenerInv, TrackSocket, ListenerTypeOK, LoopRuns
  <2>1. CASE running' = running - 1 /\ LoopGoes(w, "ended")
    <3>1. Cardinality(Loops') = Cardinality(Loops) - 1
      BY <2>0, <2>1, LoopMoves
    <3>2. Cardinality(Handlers) \in Nat
      BY FS_CardinalityType DEF ListenerInv, Counted
    <3> QED BY <1>5, <2>0, <2>1, <3>1, <3>2, LoopsFinite DEF ListenerInv, Counted
  <2>2. CASE running' = running
             /\ \E step \in {"check", "accept", "track", "spawn"} : LoopGoes(w, step)
    <3>1. Loops' = Loops
      BY <2>0, <2>2, LoopMoves
    <3> QED BY <1>5, <2>2, <3>1 DEF ListenerInv, Counted
  <2> QED BY <2>1, <2>2 DEF TrackSocket
<1>7. Finished'
  BY <1>5 DEF ListenerInv, TrackSocket, ownerVars, clientVars, LoopGoes, ListenerTypeOK, Rounded,
     Finished, Loops, LoopRuns
<1> QED BY <1>1, <1>2, <1>3, <1>4, <1>6, <1>7 DEF ListenerInv

LEMMA SpawnKeeps ==
  ASSUME NEW w \in Workers, ListenerInv, SpawnHandler(w)
  PROVE  ListenerInv'
<1>1. ListenerTypeOK'
  <2>1. /\ isRunning' \in BOOLEAN /\ closing' \in BOOLEAN
        /\ round' \in 0..MaxStarts /\ ctx' \in [Rounds -> 0..MaxStarts]
        /\ cancelled' \subseteq Rounds
        /\ owner' \in {"idle", "stopping", "sweeping", "waiting"}
        /\ returned' \in {"no", "done", "grace"}
    BY DEF ListenerInv, SpawnHandler, ownerVars, clientVars, LoopGoes, ListenerTypeOK
  <2>2. /\ acceptor' \in [Workers -> {"off", "check", "accept", "track", "spawn", "ended"}]
        /\ held' \in [Workers -> Sockets \cup {NoSocket}]
        /\ serving' \in [Sockets -> {"no", "client", "elsewhere", "close", "untrack", "done", "ended"}]
    BY DEF ListenerInv, SpawnHandler, ownerVars, clientVars, LoopGoes, ListenerTypeOK
  <2>3. /\ \A set \in {conns', sweep', queued', closed', left'} : set \subseteq Sockets
        /\ running' \in Int
    BY ListenerAssumption DEF ListenerInv, SpawnHandler, ownerVars, clientVars, LoopGoes,
       ListenerTypeOK, Holding
  <2> QED BY <2>1, <2>2, <2>3 DEF ListenerTypeOK
<1>2. Rounded' /\ Refusing'
  <2>1. Rounded'
    BY ListenerAssumption, WorkerRounds DEF ListenerInv, SpawnHandler, ownerVars, clientVars,
       LoopGoes, ListenerTypeOK, Rounded, Rounds
  <2>2. Refusing'
    BY WorkerRounds DEF ListenerInv, SpawnHandler, ownerVars, clientVars, LoopGoes,
       ListenerTypeOK, Rounded, Refusing, Down, Rounds
  <2> QED BY <2>1, <2>2
<1>3. Holding'
  BY ListenerAssumption DEF ListenerInv, SpawnHandler, ownerVars, clientVars, LoopGoes,
     ListenerTypeOK, Rounded, Refusing, Down, Holding
<1>4. Tracked'
  BY DEF ListenerInv, SpawnHandler, ownerVars, clientVars, LoopGoes, ListenerTypeOK, Rounded,
     Refusing, Down, Holding, Tracked, HandlerRuns
<1>5. held[w] \in Sockets /\ ~HandlerRuns(held[w]) /\ Serving(held[w], "client")
  BY DEF ListenerInv, SpawnHandler, ListenerTypeOK, Holding, HandlerRuns, Serving
<1>6. Counted'
  <2>1. Loops' = Loops
    BY LoopMoves DEF ListenerInv, SpawnHandler, ListenerTypeOK, LoopRuns
  <2>2. /\ IsFiniteSet(Handlers') /\ Cardinality(Handlers) \in Nat
        /\ Cardinality(Handlers') = Cardinality(Handlers) + 1
    BY <1>5, HandlerMoves DEF ListenerInv, ListenerTypeOK, Counted
  <2> QED BY <2>1, <2>2, LoopsFinite DEF ListenerInv, SpawnHandler, Counted
<1>7. Finished'
  BY DEF ListenerInv, SpawnHandler, ownerVars, clientVars, LoopGoes, ListenerTypeOK, Rounded,
     Finished, Loops, LoopRuns
<1> QED BY <1>1, <1>2, <1>3, <1>4, <1>6, <1>7 DEF ListenerInv

LEMMA TurnKeeps ==
  ASSUME NEW c \in Sockets, ListenerInv, HandlerTurns(c)
  PROVE  ListenerInv'
<1>1. ListenerTypeOK'
  BY DEF ListenerInv, HandlerTurns, ownerVars, clientVars, Serving, ListenerTypeOK
<1>2. Rounded' /\ Refusing'
  <2>1. Rounded'
    BY ListenerAssumption, WorkerRounds DEF ListenerInv, HandlerTurns, ownerVars, clientVars,
       Serving, ListenerTypeOK, Rounded, Rounds
  <2>2. Refusing'
    BY WorkerRounds DEF ListenerInv, HandlerTurns, ownerVars, clientVars, Serving, ListenerTypeOK,
       Rounded, Refusing, Down, Rounds
  <2> QED BY <2>1, <2>2
<1>3. Holding'
  BY ListenerAssumption DEF ListenerInv, HandlerTurns, ownerVars, clientVars, Serving,
     ListenerTypeOK, Rounded, Refusing, Down, Holding
<1>4. Tracked'
  BY DEF ListenerInv, HandlerTurns, ownerVars, clientVars, Serving, ListenerTypeOK, Rounded,
     Refusing, Down, Holding, Tracked, HandlerRuns
<1>5. Loops' = Loops /\ Handlers' = Handlers
  BY DEF ListenerInv, ListenerTypeOK, HandlerTurns, Serving, Loops, LoopRuns, Handlers,
     HandlerRuns
<1>6. Counted'
  BY <1>5 DEF ListenerInv, HandlerTurns, Counted
<1>7. Finished'
  BY <1>5 DEF ListenerInv, HandlerTurns, ownerVars, clientVars, Serving, ListenerTypeOK, Rounded,
     Finished
<1> QED BY <1>1, <1>2, <1>3, <1>4, <1>6, <1>7 DEF ListenerInv

LEMMA LeaveKeeps ==
  ASSUME NEW c \in Sockets, ListenerInv, HandlerLeaves(c)
  PROVE  ListenerInv'
<1>1. ListenerTypeOK'
  BY DEF ListenerInv, HandlerLeaves, ownerVars, clientVars, Serving, ListenerTypeOK
<1>2. Rounded' /\ Refusing'
  <2>1. Rounded'
    BY ListenerAssumption, WorkerRounds DEF ListenerInv, HandlerLeaves, ownerVars, clientVars,
       Serving, ListenerTypeOK, Rounded, Rounds
  <2>2. Refusing'
    BY WorkerRounds DEF ListenerInv, HandlerLeaves, ownerVars, clientVars, Serving,
       ListenerTypeOK, Rounded, Refusing, Down, Rounds
  <2> QED BY <2>1, <2>2
<1>3. Holding'
  BY ListenerAssumption DEF ListenerInv, HandlerLeaves, ownerVars, clientVars, Serving,
     ListenerTypeOK, Rounded, Refusing, Down, Holding
<1>4. Tracked'
  BY DEF ListenerInv, HandlerLeaves, ownerVars, clientVars, Serving, ListenerTypeOK, Rounded,
     Refusing, Down, Holding, Tracked, HandlerRuns
<1>5. Loops' = Loops /\ Handlers' = Handlers
  BY DEF ListenerInv, ListenerTypeOK, HandlerLeaves, Serving, Loops, LoopRuns, Handlers,
     HandlerRuns
<1>6. Counted'
  BY <1>5 DEF ListenerInv, HandlerLeaves, Counted
<1>7. Finished'
  BY <1>5 DEF ListenerInv, HandlerLeaves, ownerVars, clientVars, Serving, ListenerTypeOK, Rounded,
     Finished
<1> QED BY <1>1, <1>2, <1>3, <1>4, <1>6, <1>7 DEF ListenerInv

LEMMA CloseSocketKeeps ==
  ASSUME NEW c \in Sockets, ListenerInv, CloseSocket(c)
  PROVE  ListenerInv'
<1>1. ListenerTypeOK'
  BY DEF ListenerInv, CloseSocket, ownerVars, clientVars, Serving, ListenerTypeOK
<1>2. Rounded' /\ Refusing'
  <2>1. Rounded'
    BY ListenerAssumption, WorkerRounds DEF ListenerInv, CloseSocket, ownerVars, clientVars,
       Serving, ListenerTypeOK, Rounded, Rounds
  <2>2. Refusing'
    BY WorkerRounds DEF ListenerInv, CloseSocket, ownerVars, clientVars, Serving, ListenerTypeOK,
       Rounded, Refusing, Down, Rounds
  <2> QED BY <2>1, <2>2
<1>3. Holding'
  BY ListenerAssumption DEF ListenerInv, CloseSocket, ownerVars, clientVars, Serving,
     ListenerTypeOK, Rounded, Refusing, Down, Holding
<1>4. Tracked'
  BY DEF ListenerInv, CloseSocket, ownerVars, clientVars, Serving, ListenerTypeOK, Rounded,
     Refusing, Down, Holding, Tracked, HandlerRuns
<1>5. Loops' = Loops /\ Handlers' = Handlers
  BY DEF ListenerInv, ListenerTypeOK, CloseSocket, Serving, Loops, LoopRuns, Handlers, HandlerRuns
<1>6. Counted'
  BY <1>5 DEF ListenerInv, CloseSocket, Counted
<1>7. Finished'
  BY <1>5 DEF ListenerInv, CloseSocket, ownerVars, clientVars, Serving, ListenerTypeOK, Rounded,
     Finished
<1> QED BY <1>1, <1>2, <1>3, <1>4, <1>6, <1>7 DEF ListenerInv

LEMMA UntrackKeeps ==
  ASSUME NEW c \in Sockets, ListenerInv, UntrackSocket(c)
  PROVE  ListenerInv'
<1>1. ListenerTypeOK'
  BY DEF ListenerInv, UntrackSocket, ownerVars, clientVars, Serving, ListenerTypeOK
<1>2. Rounded' /\ Refusing'
  <2>1. Rounded'
    BY ListenerAssumption, WorkerRounds DEF ListenerInv, UntrackSocket, ownerVars, clientVars,
       Serving, ListenerTypeOK, Rounded, Rounds
  <2>2. Refusing'
    BY WorkerRounds DEF ListenerInv, UntrackSocket, ownerVars, clientVars, Serving,
       ListenerTypeOK, Rounded, Refusing, Down, Rounds
  <2> QED BY <2>1, <2>2
<1>3. Holding'
  BY ListenerAssumption DEF ListenerInv, UntrackSocket, ownerVars, clientVars, Serving,
     ListenerTypeOK, Rounded, Refusing, Down, Holding
<1>4. Tracked'
  BY DEF ListenerInv, UntrackSocket, ownerVars, clientVars, Serving, ListenerTypeOK, Rounded,
     Refusing, Down, Holding, Tracked, HandlerRuns
<1>5. Loops' = Loops /\ Handlers' = Handlers
  BY DEF ListenerInv, ListenerTypeOK, UntrackSocket, Serving, Loops, LoopRuns, Handlers,
     HandlerRuns
<1>6. Counted'
  BY <1>5 DEF ListenerInv, UntrackSocket, Counted
<1>7. Finished'
  BY <1>5 DEF ListenerInv, UntrackSocket, ownerVars, clientVars, Serving, ListenerTypeOK, Rounded,
     Finished
<1> QED BY <1>1, <1>2, <1>3, <1>4, <1>6, <1>7 DEF ListenerInv

LEMMA DoneKeeps ==
  ASSUME NEW c \in Sockets, ListenerInv, HandlerDone(c)
  PROVE  ListenerInv'
<1>1. ListenerTypeOK'
  BY DEF ListenerInv, HandlerDone, ownerVars, clientVars, Serving, ListenerTypeOK
<1>2. Rounded' /\ Refusing'
  <2>1. Rounded'
    BY ListenerAssumption, WorkerRounds DEF ListenerInv, HandlerDone, ownerVars, clientVars,
       Serving, ListenerTypeOK, Rounded, Rounds
  <2>2. Refusing'
    BY WorkerRounds DEF ListenerInv, HandlerDone, ownerVars, clientVars, Serving, ListenerTypeOK,
       Rounded, Refusing, Down, Rounds
  <2> QED BY <2>1, <2>2
<1>3. Holding'
  BY ListenerAssumption DEF ListenerInv, HandlerDone, ownerVars, clientVars, Serving,
     ListenerTypeOK, Rounded, Refusing, Down, Holding
<1>4. Tracked'
  BY DEF ListenerInv, HandlerDone, ownerVars, clientVars, Serving, ListenerTypeOK, Rounded,
     Refusing, Down, Holding, Tracked, HandlerRuns
<1>5. Loops' = Loops
  BY DEF HandlerDone, Loops, LoopRuns
<1>6. Counted'
  <2>1. /\ IsFiniteSet(Handlers') /\ Cardinality(Handlers) \in Nat
        /\ Cardinality(Handlers') = Cardinality(Handlers) - 1
    BY HandlerMoves DEF ListenerInv, HandlerDone, ListenerTypeOK, HandlerRuns, Counted
  <2> QED BY <1>5, <2>1, LoopsFinite DEF ListenerInv, HandlerDone, Counted
<1>7. Finished'
  BY <1>5 DEF ListenerInv, HandlerDone, ownerVars, clientVars, Serving, ListenerTypeOK, Rounded,
     Finished, Handlers, HandlerRuns
<1> QED BY <1>1, <1>2, <1>3, <1>4, <1>6, <1>7 DEF ListenerInv

LEMMA ConnectKeeps ==
  ASSUME NEW c \in Sockets, ListenerInv, ClientConnects(c)
  PROVE  ListenerInv'
<1>1. ListenerTypeOK'
  BY DEF ListenerInv, ClientConnects, ownerVars, clientVars, Fresh, ListenerTypeOK
<1>2. Rounded' /\ Refusing'
  <2>1. Rounded'
    BY ListenerAssumption, WorkerRounds DEF ListenerInv, ClientConnects, ownerVars, clientVars,
       Fresh, ListenerTypeOK, Rounded, Rounds
  <2>2. Refusing'
    BY WorkerRounds DEF ListenerInv, ClientConnects, ownerVars, clientVars, Fresh, ListenerTypeOK,
       Rounded, Refusing, Down, Rounds
  <2> QED BY <2>1, <2>2
<1>3. Holding'
  BY ListenerAssumption DEF ListenerInv, ClientConnects, ownerVars, clientVars, Fresh,
     ListenerTypeOK, Rounded, Refusing, Down, Holding
<1>4. Tracked'
  BY DEF ListenerInv, ClientConnects, ownerVars, clientVars, Fresh, ListenerTypeOK, Rounded,
     Refusing, Down, Holding, Tracked, HandlerRuns
<1>5. Loops' = Loops /\ Handlers' = Handlers
  BY DEF ListenerInv, ListenerTypeOK, ClientConnects, Loops, LoopRuns, Handlers, HandlerRuns
<1>6. Counted'
  BY <1>5 DEF ListenerInv, ClientConnects, Counted
<1>7. Finished'
  BY <1>5 DEF ListenerInv, ClientConnects, ownerVars, clientVars, Fresh, ListenerTypeOK, Rounded,
     Finished
<1> QED BY <1>1, <1>2, <1>3, <1>4, <1>6, <1>7 DEF ListenerInv

LEMMA ClientLeaveKeeps ==
  ASSUME NEW c \in Sockets, ListenerInv, ClientLeaves(c)
  PROVE  ListenerInv'
<1>1. ListenerTypeOK'
  BY DEF ListenerInv, ClientLeaves, ownerVars, clientVars, ListenerTypeOK
<1>2. Rounded' /\ Refusing'
  <2>1. Rounded'
    BY ListenerAssumption, WorkerRounds DEF ListenerInv, ClientLeaves, ownerVars, clientVars,
       ListenerTypeOK, Rounded, Rounds
  <2>2. Refusing'
    BY WorkerRounds DEF ListenerInv, ClientLeaves, ownerVars, clientVars, ListenerTypeOK, Rounded,
       Refusing, Down, Rounds
  <2> QED BY <2>1, <2>2
<1>3. Holding'
  BY ListenerAssumption DEF ListenerInv, ClientLeaves, ownerVars, clientVars, ListenerTypeOK,
     Rounded, Refusing, Down, Holding
<1>4. Tracked'
  BY DEF ListenerInv, ClientLeaves, ownerVars, clientVars, ListenerTypeOK, Rounded, Refusing,
     Down, Holding, Tracked, HandlerRuns
<1>5. Loops' = Loops /\ Handlers' = Handlers
  BY DEF ListenerInv, ListenerTypeOK, ClientLeaves, Loops, LoopRuns, Handlers, HandlerRuns
<1>6. Counted'
  BY <1>5 DEF ListenerInv, ClientLeaves, Counted
<1>7. Finished'
  BY <1>5 DEF ListenerInv, ClientLeaves, ownerVars, clientVars, ListenerTypeOK, Rounded, Finished
<1> QED BY <1>1, <1>2, <1>3, <1>4, <1>6, <1>7 DEF ListenerInv

LEMMA ListenerInitInv == ListenerInit => ListenerInv
<1> SUFFICES ASSUME ListenerInit PROVE ListenerInv
    OBVIOUS
<1>1. ListenerTypeOK
  <2>1. \A set \in {conns, sweep, queued, closed, left} : set \subseteq Sockets
    BY DEF ListenerInit
  <2>2. 0 \in 0..MaxStarts
    BY ListenerAssumption
  <2>3. /\ acceptor \in [Workers -> {"off", "check", "accept", "track", "spawn", "ended"}]
        /\ held \in [Workers -> Sockets \cup {NoSocket}]
        /\ serving \in [Sockets -> {"no", "client", "elsewhere", "close", "untrack", "done", "ended"}]
        /\ ctx \in [Rounds -> 0..MaxStarts] /\ round \in 0..MaxStarts
    BY <2>2 DEF ListenerInit
  <2>4. running \in Int
    BY DEF ListenerInit
  <2>5. /\ isRunning \in BOOLEAN /\ closing \in BOOLEAN /\ cancelled \subseteq Rounds
        /\ owner \in {"idle", "stopping", "sweeping", "waiting"}
        /\ returned \in {"no", "done", "grace"}
    BY DEF ListenerInit
  <2> QED BY <2>1, <2>3, <2>4, <2>5 DEF ListenerTypeOK
<1>2. Rounded /\ Refusing /\ Holding /\ Tracked
  BY ListenerAssumption DEF ListenerInit, Rounded, Refusing, Down, Holding, Tracked, HandlerRuns
<1>3. Loops = {} /\ Handlers = {}
  BY DEF ListenerInit, Loops, LoopRuns, Handlers, HandlerRuns
<1>4. Counted
  BY <1>3, FS_EmptySet DEF ListenerInit, Counted
<1>5. Finished
  BY <1>3 DEF ListenerInit, Finished
<1> QED BY <1>1, <1>2, <1>4, <1>5 DEF ListenerInv

LEMMA ListenerStep == ListenerInv /\ [ListenerNext]_listenerVars => ListenerInv'
<1> SUFFICES ASSUME ListenerInv, [ListenerNext]_listenerVars PROVE ListenerInv'
    OBVIOUS
<1>1. CASE StartListener \/ StopListener \/ StopStep
  BY <1>1, StartKeeps, StopKeeps, CloseAllKeeps, CloseNextKeeps, StopReturnKeeps DEF StopStep
<1>2. ASSUME NEW w \in Workers, LoopStep(w) PROVE ListenerInv'
  BY <1>2, CheckKeeps, AcceptKeeps, TrackKeeps, SpawnKeeps DEF LoopStep
<1>3. ASSUME NEW c \in Sockets,
             HandlerEnds(c) \/ HandlerTurns(c) \/ ClientConnects(c) \/ ClientLeaves(c)
      PROVE  ListenerInv'
  BY <1>3, TurnKeeps, LeaveKeeps, CloseSocketKeeps, UntrackKeeps, DoneKeeps, ConnectKeeps,
     ClientLeaveKeeps DEF HandlerEnds
<1>4. CASE UNCHANGED listenerVars
  BY <1>4 DEF listenerVars, ownerVars, clientVars, ListenerInv, ListenerTypeOK, Rounded, Refusing,
     Down, Holding, Tracked, HandlerRuns, Counted, Finished, Loops, LoopRuns, Handlers
<1> QED BY <1>1, <1>2, <1>3, <1>4 DEF ListenerNext

LEMMA InvGivesListener == ListenerInv => ListenerSound
<1> SUFFICES ASSUME ListenerInv PROVE ListenerSound
    OBVIOUS
<1>1. Loops = {w \in Workers : LoopRuns(w)} /\ Handlers = {c \in Sockets : HandlerRuns(c)}
  BY DEF Loops, Handlers
<1>2. ListenerTypeOK /\ \A c \in Sockets : (HandlerRuns(c) /\ c \notin closed) => c \in conns \cup sweep
  BY DEF ListenerInv, Tracked
<1>3. running = Cardinality(Loops) + Cardinality(Handlers)
  BY DEF ListenerInv, Counted
<1>4. (owner = "idle" /\ ~isRunning) => \A c \in Sockets : HandlerRuns(c) => c \in closed
  BY <1>2 DEF ListenerInv, Refusing, Down
<1>5. ASSUME returned = "done", ~isRunning
      PROVE  /\ \A w \in Workers : ~LoopRuns(w) /\ held[w] = NoSocket
             /\ \A c \in Sockets : ~HandlerRuns(c)
             /\ conns = {}
  <2>1. owner = "idle" /\ Loops = {} /\ Handlers = {} /\ conns = {}
    BY <1>5 DEF ListenerInv, Finished, Refusing, Down
  <2>2. \A w \in Workers : ~LoopRuns(w)
    BY <2>1 DEF Loops
  <2>3. \A w \in Workers : held[w] = NoSocket
    BY <2>2 DEF ListenerInv, Holding, LoopRuns
  <2>4. \A c \in Sockets : ~HandlerRuns(c)
    BY <2>1 DEF Handlers
  <2> QED BY <2>1, <2>2, <2>3, <2>4
<1> QED BY <1>1, <1>2, <1>3, <1>4, <1>5 DEF ListenerSound

(* No connection escapes a Stop (tcp_listener.go:172): every open one that *)
(* is handled is tracked, or about to be closed; none is open while the    *)
(* listener is down; and the counter that Stop waits for counts its        *)
(* goroutines, so that a Stop in time leaves none behind.  This holds for  *)
(* every number of clients, accept loops and restarts.                     *)
THEOREM ListenerStaysSound == ListenerSpec => []ListenerSound
<1>1. ListenerInit => ListenerInv
  BY ListenerInitInv
<1>2. ListenerInv /\ [ListenerNext]_listenerVars => ListenerInv'
  BY ListenerStep
<1>3. ListenerInv => ListenerSound
  BY InvGivesListener
<1> QED BY <1>1, <1>2, <1>3, PTL DEF ListenerSpec

-----------------------------------------------------------------------------
(* The calls of a plugin's script.                                         *)

Busy == {"runs", "stop", "clear", "reply"}

CallsTyped ==
  /\ CallsTypeOK
  /\ loop \in [at : Busy \cup {"waits", "ended"}, job : PluginCallers \cup {Nobody},
               out : {"none", "nothing", "answer"}]

(* The loop has a job while it is busy, and an outcome once it has ended.  *)
Employed ==
  /\ loop.job # Nobody <=> loop.at \in Busy
  /\ loop.at \in {"stop", "clear", "reply"} => loop.out # "none"

(* A watchdog is started once, with its call, and is stopped with the      *)
(* script it watches.                                                      *)
Watched ==
  \A c \in PluginCallers :
    /\ calls[c].at \in {"idle", "offers"} => timer[c] = "off"
    /\ timer[c] \in {"armed", "fired"} => (c = loop.job /\ loop.at \in {"runs", "stop"})

(* What interrupts the VM is the watchdog of the job, until it is cleared, *)
(* or one that came late.                                                  *)
Interrupted ==
  flag # Nobody =>
    \/ timer[flag] = "late over"
    \/ timer[flag] = "over" /\ flag = loop.job /\ loop.at \in {"runs", "stop", "clear"}

Answered ==
  /\ loop.out = "answer" => loop.job \notin Endless
  /\ \A c \in PluginCallers :
       (reply[c] = "answer" \/ calls[c].got = "answer") => c \notin Endless

CallsInv == CallsTyped /\ Employed /\ Watched /\ Interrupted /\ Answered

CallRecord == [at : {"idle", "offers", "waits", "done"}, got : {"none", "nothing", "answer"}]

LEMMA CallMoves ==
  ASSUME NEW e \in CallRecord, NEW step \in {"idle", "offers", "waits", "done"}
  PROVE  [e EXCEPT !.at = step] \in CallRecord /\ [e EXCEPT !.at = step].at = step
  BY DEF CallRecord

LEMMA CallsInitInv == CallsInit => CallsInv
<1> SUFFICES ASSUME CallsInit PROVE CallsInv
    OBVIOUS
<1>1. CallsTyped
  BY DEF CallsInit, CallsTyped, CallsTypeOK, Busy
<1>2. Employed /\ Watched /\ Interrupted /\ Answered
  BY CallsAssumption DEF CallsInit, Busy, Employed, Watched, Interrupted, Answered
<1> QED BY <1>1, <1>2 DEF CallsInv

LEMMA CallsStep == CallsInv /\ [CallsNext]_callVars => CallsInv'
<1> SUFFICES ASSUME CallsInv, [CallsNext]_callVars PROVE CallsInv'
    OBVIOUS
<1> USE CallsAssumption DEF CallsInv, CallsTyped, CallsTypeOK, Busy
<1>1. ASSUME NEW c \in PluginCallers, Dispatch(c) PROVE CallsInv'
  <2>1. CallsTyped'
    <3>1. [calls[c] EXCEPT !.at = "offers"] \in CallRecord
      BY CallMoves DEF CallRecord
    <3>2. calls' \in [PluginCallers -> CallRecord]
      BY <1>1, <3>1 DEF Dispatch, CallRecord
    <3> QED BY <1>1, <3>2 DEF Dispatch, CallRecord
  <2>2. Employed'
    BY <1>1 DEF Dispatch, Employed
  <2>3. Watched'
    BY <1>1 DEF Dispatch, Employed, Watched
  <2>4. Interrupted'
    BY <1>1 DEF Dispatch, Employed, Watched, Interrupted
  <2>5. Answered'
    BY <1>1 DEF Dispatch, Employed, Answered
  <2> QED BY <2>1, <2>2, <2>3, <2>4, <2>5
<1>2. ASSUME NEW c \in PluginCallers, Accept(c) PROVE CallsInv'
  <2>1. CallsTyped'
    <3>1. [calls[c] EXCEPT !.at = "waits"] \in CallRecord
      BY CallMoves DEF CallRecord
    <3>2. calls' \in [PluginCallers -> CallRecord]
      BY <1>2, <3>1 DEF Accept, CallRecord
    <3> QED BY <1>2, <3>2 DEF Accept, CallRecord
  <2>2. Employed'
    BY <1>2 DEF Accept, Employed
  <2>3. Watched'
    <3>1. \A d \in PluginCallers : timer[d] \notin {"armed", "fired"}
      BY <1>2 DEF Accept, Watched
    <3>2. /\ timer \in [PluginCallers -> {"off", "armed", "stopped", "fired", "late", "over", "late over"}]
          /\ timer' = [timer EXCEPT ![c] = "armed"]
          /\ loop'.job = c /\ loop'.at = "runs"
      BY <1>2 DEF Accept
    <3>3. \A d \in PluginCallers : d # c => calls'[d] = calls[d]
      BY <1>2 DEF Accept
    <3>4. calls'[c].at = "waits"
      <4>1. calls'[c] = [calls[c] EXCEPT !.at = "waits"]
        BY <1>2 DEF Accept
      <4> QED BY <4>1, CallMoves DEF CallRecord
    <3> QED BY <1>2, <3>1, <3>2, <3>3, <3>4 DEF Watched
  <2>4. Interrupted'
    BY <1>2 DEF Accept, Employed, Watched, Interrupted
  <2>5. Answered'
    BY <1>2 DEF Accept, Employed, Answered
  <2> QED BY <2>1, <2>2, <2>3, <2>4, <2>5
<1>3. ASSUME NEW c \in PluginCallers, GiveUpOffer(c) PROVE CallsInv'
  <2>1. CallsTyped'
    BY <1>3 DEF GiveUpOffer, Employed
  <2>2. Employed'
    BY <1>3 DEF GiveUpOffer, Employed
  <2>3. Watched'
    BY <1>3 DEF GiveUpOffer, Employed, Watched
  <2>4. Interrupted'
    BY <1>3 DEF GiveUpOffer, Employed, Watched, Interrupted
  <2>5. Answered'
    BY <1>3 DEF GiveUpOffer, Employed, Answered
  <2> QED BY <2>1, <2>2, <2>3, <2>4, <2>5
<1>4. ASSUME NEW c \in PluginCallers, TakeReply(c) PROVE CallsInv'
  <2>1. CallsTyped'
    BY <1>4 DEF TakeReply, Employed
  <2>2. Employed'
    BY <1>4 DEF TakeReply, Employed
  <2>3. Watched'
    BY <1>4 DEF TakeReply, Employed, Watched
  <2>4. Interrupted'
    BY <1>4 DEF TakeReply, Employed, Watched, Interrupted
  <2>5. Answered'
    BY <1>4 DEF TakeReply, Employed, Answered
  <2> QED BY <2>1, <2>2, <2>3, <2>4, <2>5
<1>5. ASSUME NEW c \in PluginCallers, GiveUpReply(c) PROVE CallsInv'
  <2>1. CallsTyped'
    BY <1>5 DEF GiveUpReply, Employed
  <2>2. Employed'
    BY <1>5 DEF GiveUpReply, Employed
  <2>3. Watched'
    BY <1>5 DEF GiveUpReply, Employed, Watched
  <2>4. Interrupted'
    BY <1>5 DEF GiveUpReply, Employed, Watched, Interrupted
  <2>5. Answered'
    BY <1>5 DEF GiveUpReply, Employed, Answered
  <2> QED BY <2>1, <2>2, <2>3, <2>4, <2>5
<1>6. ASSUME NEW c \in PluginCallers, TimerFires(c) PROVE CallsInv'
  <2>1. CallsTyped'
    BY <1>6 DEF TimerFires, Watches, Employed
  <2>2. Employed'
    BY <1>6 DEF TimerFires, Watches, Employed
  <2>3. Watched'
    BY <1>6 DEF TimerFires, Watches, Employed, Watched
  <2>4. Interrupted'
    BY <1>6 DEF TimerFires, Watches, Employed, Watched, Interrupted
  <2>5. Answered'
    BY <1>6 DEF TimerFires, Watches, Employed, Answered
  <2> QED BY <2>1, <2>2, <2>3, <2>4, <2>5
<1>7. ASSUME NEW c \in PluginCallers, Interrupt(c) PROVE CallsInv'
  <2>1. CallsTyped'
    BY <1>7 DEF Interrupt, Employed
  <2>2. Employed'
    BY <1>7 DEF Interrupt, Employed
  <2>3. Watched'
    BY <1>7 DEF Interrupt, Employed, Watched
  <2>4. Interrupted'
    BY <1>7 DEF Interrupt, Employed, Watched, Interrupted
  <2>5. Answered'
    BY <1>7 DEF Interrupt, Employed, Answered
  <2> QED BY <2>1, <2>2, <2>3, <2>4, <2>5
<1>8. ASSUME ScriptEnds PROVE CallsInv'
  <2>1. CallsTyped'
    BY <1>8 DEF ScriptEnds, Employed
  <2>2. Employed'
    BY <1>8 DEF ScriptEnds, Employed
  <2>3. Watched'
    BY <1>8 DEF ScriptEnds, Employed, Watched
  <2>4. Interrupted'
    BY <1>8 DEF ScriptEnds, Employed, Watched, Interrupted
  <2>5. Answered'
    BY <1>8 DEF ScriptEnds, Employed, Answered
  <2> QED BY <2>1, <2>2, <2>3, <2>4, <2>5
<1>9. ASSUME ScriptInterrupted PROVE CallsInv'
  <2>1. CallsTyped'
    BY <1>9 DEF ScriptInterrupted, Employed
  <2>2. Employed'
    BY <1>9 DEF ScriptInterrupted, Employed
  <2>3. Watched'
    BY <1>9 DEF ScriptInterrupted, Employed, Watched
  <2>4. Interrupted'
    BY <1>9 DEF ScriptInterrupted, Employed, Watched, Interrupted
  <2>5. Answered'
    BY <1>9 DEF ScriptInterrupted, Employed, Answered
  <2> QED BY <2>1, <2>2, <2>3, <2>4, <2>5
<1>10. ASSUME StopTimer PROVE CallsInv'
  <2>1. CallsTyped'
    BY <1>10 DEF StopTimer, Stopped, Employed
  <2>2. Employed'
    BY <1>10 DEF StopTimer, Stopped, Employed
  <2>3. Watched'
    BY <1>10 DEF StopTimer, Stopped, Employed, Watched
  <2>4. Interrupted'
    BY <1>10 DEF StopTimer, Stopped, Employed, Watched, Interrupted
  <2>5. Answered'
    BY <1>10 DEF StopTimer, Stopped, Employed, Answered
  <2> QED BY <2>1, <2>2, <2>3, <2>4, <2>5
<1>11. ASSUME ClearInterrupt PROVE CallsInv'
  <2>1. CallsTyped'
    BY <1>11 DEF ClearInterrupt, Cleared, Employed
  <2>2. Employed'
    BY <1>11 DEF ClearInterrupt, Cleared, Employed
  <2>3. Watched'
    BY <1>11 DEF ClearInterrupt, Cleared, Employed, Watched
  <2>4. Interrupted'
    BY <1>11 DEF ClearInterrupt, Cleared, Employed, Watched, Interrupted
  <2>5. Answered'
    BY <1>11 DEF ClearInterrupt, Cleared, Employed, Answered
  <2> QED BY <2>1, <2>2, <2>3, <2>4, <2>5
<1>12. ASSUME SendAnswer PROVE CallsInv'
  <2>1. CallsTyped'
    BY <1>12 DEF SendAnswer, HasRoom, Employed
  <2>2. Employed'
    BY <1>12 DEF SendAnswer, HasRoom, Employed
  <2>3. Watched'
    BY <1>12 DEF SendAnswer, HasRoom, Employed, Watched
  <2>4. Interrupted'
    BY <1>12 DEF SendAnswer, HasRoom, Employed, Watched, Interrupted
  <2>5. Answered'
    BY <1>12 DEF SendAnswer, HasRoom, Employed, Answered
  <2> QED BY <2>1, <2>2, <2>3, <2>4, <2>5
<1>13. ASSUME Quit PROVE CallsInv'
  <2>1. CallsTyped'
    BY <1>13 DEF Quit, Employed
  <2>2. Employed'
    BY <1>13 DEF Quit, Employed
  <2>3. Watched'
    BY <1>13 DEF Quit, Employed, Watched
  <2>4. Interrupted'
    BY <1>13 DEF Quit, Employed, Watched, Interrupted
  <2>5. Answered'
    BY <1>13 DEF Quit, Employed, Answered
  <2> QED BY <2>1, <2>2, <2>3, <2>4, <2>5
<1>14. ASSUME LoopQuits PROVE CallsInv'
  <2>1. CallsTyped'
    BY <1>14 DEF LoopQuits, Employed
  <2>2. Employed'
    BY <1>14 DEF LoopQuits, Employed
  <2>3. Watched'
    BY <1>14 DEF LoopQuits, Employed, Watched
  <2>4. Interrupted'
    BY <1>14 DEF LoopQuits, Employed, Watched, Interrupted
  <2>5. Answered'
    BY <1>14 DEF LoopQuits, Employed, Answered
  <2> QED BY <2>1, <2>2, <2>3, <2>4, <2>5
<1>15. CASE UNCHANGED callVars
  BY <1>15 DEF callVars, Employed, Watched, Interrupted, Answered
<1> QED BY <1>1, <1>2, <1>3, <1>4, <1>5, <1>6, <1>7, <1>8, <1>9, <1>10, <1>11, <1>12, <1>13, <1>14, <1>15 DEF CallsNext

(* A script is interrupted only by its own watchdog or by one that came    *)
(* too late to be stopped, whatever was left of an earlier call is cleared *)
(* (plugin.go:571), and only a script that ended answers: for every number *)
(* of calls.                                                               *)
THEOREM InterruptsStayOwn == CallsSpec => []InterruptsOwn
<1>1. CallsInit => CallsInv
  BY CallsInitInv
<1>2. CallsInv /\ [CallsNext]_callVars => CallsInv'
  BY CallsStep
<1>3. CallsInv => InterruptsOwn
  BY DEF CallsInv, CallsTyped, Interrupted, Answered, InterruptsOwn
<1> QED BY <1>1, <1>2, <1>3, PTL DEF CallsSpec

-----------------------------------------------------------------------------
(* The loop over the requests of a client's connection.                    *)

(* Where the goroutine is once the request in hand has passed the check.   *)
Passed == {"connect", "scope", "peek", "handshake", "dial", "tunnel", "await", "upgrade",
           "refused", "websocket", "h2", "handle", "answer", "relay", "after"}

(* Past the check, the request or the CONNECT around it has shown its      *)
(* credentials, and they were taken out; inside a tunnel it need not.      *)
Checked ==
  /\ at \in Passed => (verified /\ request \in ClientRequest /\ request.shown = {})
  /\ at = "check" => request \in ClientRequest
  /\ proxyTunnel => verified

(* A CONNECT has no body; after any other request what is left of the body *)
(* ends the connection.                                                    *)
BodyRead ==
  /\ at \in {"detect", "detect more", "read", "connect", "scope", "peek", "handshake"} => ~bodyLeft
  /\ (at = "check" /\ request.kind = "connect") => ~bodyLeft
  /\ (at \in {"answer", "relay", "after"} /\ bodyLeft) => (closeAfterResponse \/ readErr)

Timed ==
  /\ at = "read" => readBy = "set"
  /\ at = "challenge" => writeBy = "set"
  /\ ~lateWrite

(* The effects of a request that has passed the check.                     *)
Permitted == [what : {"recorded", "dialled", "profile"}, verified : {TRUE}, shown : {{}}]

ConnInv == ConnTypeOK /\ Checked /\ BodyRead /\ Timed /\ effects \subseteq Permitted

LEMMA EffectsPermitted ==
  ASSUME ConnInv, at \in Passed
  PROVE  \A what \in {"recorded", "dialled", "profile"} :
           /\ [what |-> what, verified |-> verified, shown |-> request.shown] \in Permitted
           /\ Causes(what) => effects' \subseteq Permitted
<1>1. verified = TRUE /\ request.shown = {} /\ effects \subseteq Permitted
  BY DEF ConnInv, Checked, ConnTypeOK
<1>2. ASSUME NEW what \in {"recorded", "dialled", "profile"}
      PROVE  [what |-> what, verified |-> verified, shown |-> request.shown] \in Permitted
  BY <1>1 DEF Permitted
<1> QED BY <1>1, <1>2 DEF Causes

LEMMA PermittedTyped ==
  Permitted \subseteq [what : {"recorded", "dialled", "profile"}, verified : BOOLEAN,
                      shown : SUBSET HeaderCopies]
  BY DEF Permitted

LEMMA StrippedTyped ==
  ASSUME NEW r \in ClientRequest
  PROVE  Stripped(r) \in ClientRequest /\ Stripped(r).shown = {}
  BY DEF ClientRequest, Stripped

LEMMA ConnInitInv == ConnInit => ConnInv
<1> SUFFICES ASSUME ConnInit PROVE ConnInv
    OBVIOUS
<1>1. ConnTypeOK
  <2>1. requests \in 0..MaxRequests
    BY RequestsBounded DEF ConnInit
  <2> QED BY <2>1 DEF ConnInit, ConnTypeOK, Places
<1>2. Checked /\ BodyRead /\ Timed /\ effects \subseteq Permitted
  BY DEF ConnInit, Checked, Passed, BodyRead, Timed
<1> QED BY <1>1, <1>2 DEF ConnInv

LEMMA DetectConn ==
  ASSUME ConnInv, Detect
  PROVE  ConnInv'
<1>0. effects' \subseteq Permitted
  BY EffectsPermitted DEF ConnInv, Passed, Detect, loopVars, bodyVars, tunnelVars, peerVarsC,
     history, Aged, AwaitRequest
<1>1. ConnTypeOK'
  <2>1. /\ at' \in Places /\ readBy' \in {"none", "set"} /\ writeBy' \in {"none", "set", "old"}
        /\ copying' \subseteq {"up", "down"} /\ auth' \in {"off", "on", "half"}
    BY DEF ConnInv, ConnTypeOK, Places, Detect, loopVars, bodyVars, tunnelVars, peerVarsC, history,
       Aged, AwaitRequest
  <2>2. request' \in ClientRequest \cup {NoRequest}
    BY DEF ConnInv, ConnTypeOK, Checked, Passed, Detect, loopVars, bodyVars, tunnelVars, peerVarsC,
       history, Aged, AwaitRequest
  <2>3. /\ proxyTunnel' \in BOOLEAN /\ closeAfterResponse' \in BOOLEAN /\ verified' \in BOOLEAN
        /\ bodyLeft' \in BOOLEAN /\ readErr' \in BOOLEAN /\ bothClosed' \in BOOLEAN
        /\ silent' \in BOOLEAN /\ lateWrite' \in BOOLEAN
    BY DEF ConnInv, ConnTypeOK, Detect, loopVars, bodyVars, tunnelVars, peerVarsC, history, Aged,
       AwaitRequest
  <2>4. requests' \in 0..MaxRequests
    BY RequestsBounded DEF ConnInv, ConnTypeOK, Detect, loopVars, bodyVars, tunnelVars, peerVarsC,
       history, Aged, AwaitRequest
  <2> QED BY <1>0, <2>1, <2>2, <2>3, <2>4, PermittedTyped DEF ConnTypeOK
<1>2. Checked'
  BY DEF ConnInv, ConnTypeOK, Checked, Passed, Detect, loopVars, bodyVars, tunnelVars, peerVarsC,
     history, Aged, AwaitRequest
<1>3. BodyRead'
  BY DEF ConnInv, ConnTypeOK, Checked, Passed, BodyRead, Detect, loopVars, bodyVars, tunnelVars,
     peerVarsC, history, Aged, AwaitRequest
<1>4. Timed'
  BY DEF ConnInv, ConnTypeOK, Timed, Detect, loopVars, bodyVars, tunnelVars, peerVarsC, history,
     Aged, AwaitRequest
<1> QED BY <1>0, <1>1, <1>2, <1>3, <1>4 DEF ConnInv

LEMMA DetectMoreConn ==
  ASSUME ConnInv, DetectMore
  PROVE  ConnInv'
<1>0. effects' \subseteq Permitted
  BY EffectsPermitted DEF ConnInv, Passed, DetectMore, loopVars, bodyVars, tunnelVars, peerVarsC,
     history
<1>1. ConnTypeOK'
  <2>1. /\ at' \in Places /\ readBy' \in {"none", "set"} /\ writeBy' \in {"none", "set", "old"}
        /\ copying' \subseteq {"up", "down"} /\ auth' \in {"off", "on", "half"}
    BY DEF ConnInv, ConnTypeOK, Places, DetectMore, loopVars, bodyVars, tunnelVars, peerVarsC,
       history
  <2>2. request' \in ClientRequest \cup {NoRequest}
    BY DEF ConnInv, ConnTypeOK, Checked, Passed, DetectMore, loopVars, bodyVars, tunnelVars,
       peerVarsC, history
  <2>3. /\ proxyTunnel' \in BOOLEAN /\ closeAfterResponse' \in BOOLEAN /\ verified' \in BOOLEAN
        /\ bodyLeft' \in BOOLEAN /\ readErr' \in BOOLEAN /\ bothClosed' \in BOOLEAN
        /\ silent' \in BOOLEAN /\ lateWrite' \in BOOLEAN
    BY DEF ConnInv, ConnTypeOK, DetectMore, loopVars, bodyVars, tunnelVars, peerVarsC, history
  <2>4. requests' \in 0..MaxRequests
    BY RequestsBounded DEF ConnInv, ConnTypeOK, DetectMore, loopVars, bodyVars, tunnelVars,
       peerVarsC, history
  <2> QED BY <1>0, <2>1, <2>2, <2>3, <2>4, PermittedTyped DEF ConnTypeOK
<1>2. Checked'
  BY DEF ConnInv, ConnTypeOK, Checked, Passed, DetectMore, loopVars, bodyVars, tunnelVars,
     peerVarsC, history
<1>3. BodyRead'
  BY DEF ConnInv, ConnTypeOK, Checked, Passed, BodyRead, DetectMore, loopVars, bodyVars,
     tunnelVars, peerVarsC, history
<1>4. Timed'
  BY DEF ConnInv, ConnTypeOK, Timed, DetectMore, loopVars, bodyVars, tunnelVars, peerVarsC, history
<1> QED BY <1>0, <1>1, <1>2, <1>3, <1>4 DEF ConnInv

LEMMA ReadRequestConn ==
  ASSUME ConnInv, ReadRequest
  PROVE  ConnInv'
<1>0. effects' \subseteq Permitted
  BY EffectsPermitted DEF ConnInv, Passed, ReadRequest, tunnelVars, peerVarsC, history
<1>1. ConnTypeOK'
  <2>1. /\ at' \in Places /\ readBy' \in {"none", "set"} /\ writeBy' \in {"none", "set", "old"}
        /\ copying' \subseteq {"up", "down"} /\ auth' \in {"off", "on", "half"}
    BY DEF ConnInv, ConnTypeOK, Places, ReadRequest, tunnelVars, peerVarsC, history
  <2>2. request' \in ClientRequest \cup {NoRequest}
    BY DEF ConnInv, ConnTypeOK, Checked, Passed, ReadRequest, tunnelVars, peerVarsC, history
  <2>3. /\ proxyTunnel' \in BOOLEAN /\ closeAfterResponse' \in BOOLEAN /\ verified' \in BOOLEAN
        /\ bodyLeft' \in BOOLEAN /\ readErr' \in BOOLEAN /\ bothClosed' \in BOOLEAN
        /\ silent' \in BOOLEAN /\ lateWrite' \in BOOLEAN
    BY DEF ConnInv, ConnTypeOK, ReadRequest, tunnelVars, peerVarsC, history
  <2>4. requests' \in 0..MaxRequests
    BY RequestsBounded DEF ConnInv, ConnTypeOK, ReadRequest, tunnelVars, peerVarsC, history
  <2> QED BY <1>0, <2>1, <2>2, <2>3, <2>4, PermittedTyped DEF ConnTypeOK
<1>2. Checked'
  BY DEF ConnInv, ConnTypeOK, Checked, Passed, ReadRequest, tunnelVars, peerVarsC, history,
     ClientRequest, NoRequest, Kinds
<1>3. BodyRead'
  BY DEF ConnInv, ConnTypeOK, Checked, Passed, BodyRead, ReadRequest, tunnelVars, peerVarsC,
     history, ClientRequest, NoRequest, Kinds
<1>4. Timed'
  BY DEF ConnInv, ConnTypeOK, Timed, ReadRequest, tunnelVars, peerVarsC, history, ClientRequest,
     NoRequest, Kinds
<1> QED BY <1>0, <1>1, <1>2, <1>3, <1>4 DEF ConnInv

LEMMA ReadRequestFailsConn ==
  ASSUME ConnInv, ReadRequestFails
  PROVE  ConnInv'
<1>0. effects' \subseteq Permitted
  BY EffectsPermitted DEF ConnInv, Passed, ReadRequestFails, loopVars, bodyVars, tunnelVars,
     peerVarsC, history
<1>1. ConnTypeOK'
  <2>1. /\ at' \in Places /\ readBy' \in {"none", "set"} /\ writeBy' \in {"none", "set", "old"}
        /\ copying' \subseteq {"up", "down"} /\ auth' \in {"off", "on", "half"}
    BY DEF ConnInv, ConnTypeOK, Places, ReadRequestFails, loopVars, bodyVars, tunnelVars,
       peerVarsC, history
  <2>2. request' \in ClientRequest \cup {NoRequest}
    BY DEF ConnInv, ConnTypeOK, Checked, Passed, ReadRequestFails, loopVars, bodyVars, tunnelVars,
       peerVarsC, history
  <2>3. /\ proxyTunnel' \in BOOLEAN /\ closeAfterResponse' \in BOOLEAN /\ verified' \in BOOLEAN
        /\ bodyLeft' \in BOOLEAN /\ readErr' \in BOOLEAN /\ bothClosed' \in BOOLEAN
        /\ silent' \in BOOLEAN /\ lateWrite' \in BOOLEAN
    BY DEF ConnInv, ConnTypeOK, ReadRequestFails, loopVars, bodyVars, tunnelVars, peerVarsC,
       history
  <2>4. requests' \in 0..MaxRequests
    BY RequestsBounded DEF ConnInv, ConnTypeOK, ReadRequestFails, loopVars, bodyVars, tunnelVars,
       peerVarsC, history
  <2> QED BY <1>0, <2>1, <2>2, <2>3, <2>4, PermittedTyped DEF ConnTypeOK
<1>2. Checked'
  BY DEF ConnInv, ConnTypeOK, Checked, Passed, ReadRequestFails, loopVars, bodyVars, tunnelVars,
     peerVarsC, history
<1>3. BodyRead'
  BY DEF ConnInv, ConnTypeOK, Checked, Passed, BodyRead, ReadRequestFails, loopVars, bodyVars,
     tunnelVars, peerVarsC, history
<1>4. Timed'
  BY DEF ConnInv, ConnTypeOK, Timed, ReadRequestFails, loopVars, bodyVars, tunnelVars, peerVarsC,
     history
<1> QED BY <1>0, <1>1, <1>2, <1>3, <1>4 DEF ConnInv

LEMMA CheckAuthorizationConn ==
  ASSUME ConnInv, CheckAuthorization
  PROVE  ConnInv'
<1>0. effects' \subseteq Permitted
  BY EffectsPermitted DEF ConnInv, Passed, CheckAuthorization, bodyVars, tunnelVars, peerVarsC,
     history
<1>1. ConnTypeOK'
  <2>1. /\ at' \in Places /\ readBy' \in {"none", "set"} /\ writeBy' \in {"none", "set", "old"}
        /\ copying' \subseteq {"up", "down"} /\ auth' \in {"off", "on", "half"}
    BY DEF ConnInv, ConnTypeOK, Places, CheckAuthorization, bodyVars, tunnelVars, peerVarsC,
       history
  <2>2. request' \in ClientRequest \cup {NoRequest}
    BY StrippedTyped DEF ConnInv, ConnTypeOK, Checked, Passed, CheckAuthorization, bodyVars,
       tunnelVars, peerVarsC, history
  <2>3. /\ proxyTunnel' \in BOOLEAN /\ closeAfterResponse' \in BOOLEAN /\ verified' \in BOOLEAN
        /\ bodyLeft' \in BOOLEAN /\ readErr' \in BOOLEAN /\ bothClosed' \in BOOLEAN
        /\ silent' \in BOOLEAN /\ lateWrite' \in BOOLEAN
    BY DEF ConnInv, ConnTypeOK, CheckAuthorization, bodyVars, tunnelVars, peerVarsC, history
  <2>4. requests' \in 0..MaxRequests
    BY RequestsBounded DEF ConnInv, ConnTypeOK, CheckAuthorization, bodyVars, tunnelVars,
       peerVarsC, history
  <2> QED BY <1>0, <2>1, <2>2, <2>3, <2>4, PermittedTyped DEF ConnTypeOK
<1>2. Checked'
  <2>1. request \in ClientRequest /\ (proxyTunnel => verified) /\ proxyTunnel' = proxyTunnel
    BY DEF ConnInv, Checked, CheckAuthorization
  <2>2. CASE MustShowCredentials /\ ~Authorized(request)
    BY <2>1, <2>2 DEF CheckAuthorization, Checked, Passed, MustShowCredentials
  <2>3. CASE ~(MustShowCredentials /\ ~Authorized(request))
    <3>1. verified' = TRUE
      BY <2>1, <2>3 DEF ConnInv, ConnTypeOK, CheckAuthorization, MustShowCredentials
    <3>2. request' = Stripped(request) /\ at' # "check"
      BY <2>3 DEF CheckAuthorization
    <3> QED BY <2>1, <3>1, <3>2, StrippedTyped DEF Checked
  <2> QED BY <2>2, <2>3
<1>3. BodyRead'
  BY DEF ConnInv, ConnTypeOK, Checked, Passed, BodyRead, CheckAuthorization, bodyVars, tunnelVars,
     peerVarsC, history, MustShowCredentials, Stripped, Authorized
<1>4. Timed'
  BY DEF ConnInv, ConnTypeOK, Timed, CheckAuthorization, bodyVars, tunnelVars, peerVarsC, history,
     MustShowCredentials, Stripped, Authorized
<1> QED BY <1>0, <1>1, <1>2, <1>3, <1>4 DEF ConnInv

LEMMA ChallengeConn ==
  ASSUME ConnInv, Challenge
  PROVE  ConnInv'
<1>0. effects' \subseteq Permitted
  BY EffectsPermitted DEF ConnInv, Passed, Challenge, loopVars, bodyVars, tunnelVars, peerVarsC,
     history, Written
<1>1. ConnTypeOK'
  <2>1. /\ at' \in Places /\ readBy' \in {"none", "set"} /\ writeBy' \in {"none", "set", "old"}
        /\ copying' \subseteq {"up", "down"} /\ auth' \in {"off", "on", "half"}
    BY DEF ConnInv, ConnTypeOK, Places, Challenge, loopVars, bodyVars, tunnelVars, peerVarsC,
       history, Written
  <2>2. request' \in ClientRequest \cup {NoRequest}
    BY DEF ConnInv, ConnTypeOK, Checked, Passed, Challenge, loopVars, bodyVars, tunnelVars,
       peerVarsC, history, Written
  <2>3. /\ proxyTunnel' \in BOOLEAN /\ closeAfterResponse' \in BOOLEAN /\ verified' \in BOOLEAN
        /\ bodyLeft' \in BOOLEAN /\ readErr' \in BOOLEAN /\ bothClosed' \in BOOLEAN
        /\ silent' \in BOOLEAN /\ lateWrite' \in BOOLEAN
    BY DEF ConnInv, ConnTypeOK, Challenge, loopVars, bodyVars, tunnelVars, peerVarsC, history,
       Written
  <2>4. requests' \in 0..MaxRequests
    BY RequestsBounded DEF ConnInv, ConnTypeOK, Challenge, loopVars, bodyVars, tunnelVars,
       peerVarsC, history, Written
  <2> QED BY <1>0, <2>1, <2>2, <2>3, <2>4, PermittedTyped DEF ConnTypeOK
<1>2. Checked'
  BY DEF ConnInv, ConnTypeOK, Checked, Passed, Challenge, loopVars, bodyVars, tunnelVars,
     peerVarsC, history, Written
<1>3. BodyRead'
  BY DEF ConnInv, ConnTypeOK, Checked, Passed, BodyRead, Challenge, loopVars, bodyVars, tunnelVars,
     peerVarsC, history, Written
<1>4. Timed'
  BY DEF ConnInv, ConnTypeOK, Timed, Challenge, loopVars, bodyVars, tunnelVars, peerVarsC, history,
     Written
<1> QED BY <1>0, <1>1, <1>2, <1>3, <1>4 DEF ConnInv

LEMMA HandleConnectConn ==
  ASSUME ConnInv, HandleConnect
  PROVE  ConnInv'
<1>0. effects' \subseteq Permitted
  BY EffectsPermitted DEF ConnInv, Passed, HandleConnect, bodyVars, tunnelVars, peerVarsC, history,
     ClearDeadlines, Written
<1>1. ConnTypeOK'
  <2>1. /\ at' \in Places /\ readBy' \in {"none", "set"} /\ writeBy' \in {"none", "set", "old"}
        /\ copying' \subseteq {"up", "down"} /\ auth' \in {"off", "on", "half"}
    BY DEF ConnInv, ConnTypeOK, Places, HandleConnect, bodyVars, tunnelVars, peerVarsC, history,
       ClearDeadlines, Written
  <2>2. request' \in ClientRequest \cup {NoRequest}
    BY DEF ConnInv, ConnTypeOK, Checked, Passed, HandleConnect, bodyVars, tunnelVars, peerVarsC,
       history, ClearDeadlines, Written
  <2>3. /\ proxyTunnel' \in BOOLEAN /\ closeAfterResponse' \in BOOLEAN /\ verified' \in BOOLEAN
        /\ bodyLeft' \in BOOLEAN /\ readErr' \in BOOLEAN /\ bothClosed' \in BOOLEAN
        /\ silent' \in BOOLEAN /\ lateWrite' \in BOOLEAN
    BY DEF ConnInv, ConnTypeOK, HandleConnect, bodyVars, tunnelVars, peerVarsC, history,
       ClearDeadlines, Written
  <2>4. requests' \in 0..MaxRequests
    BY RequestsBounded DEF ConnInv, ConnTypeOK, HandleConnect, bodyVars, tunnelVars, peerVarsC,
       history, ClearDeadlines, Written
  <2> QED BY <1>0, <2>1, <2>2, <2>3, <2>4, PermittedTyped DEF ConnTypeOK
<1>2. Checked'
  BY DEF ConnInv, ConnTypeOK, Checked, Passed, HandleConnect, bodyVars, tunnelVars, peerVarsC,
     history, ClearDeadlines, Written
<1>3. BodyRead'
  BY DEF ConnInv, ConnTypeOK, Checked, Passed, BodyRead, HandleConnect, bodyVars, tunnelVars,
     peerVarsC, history, ClearDeadlines, Written
<1>4. Timed'
  BY DEF ConnInv, ConnTypeOK, Timed, HandleConnect, bodyVars, tunnelVars, peerVarsC, history,
     ClearDeadlines, Written
<1> QED BY <1>0, <1>1, <1>2, <1>3, <1>4 DEF ConnInv

LEMMA DecideScopeConn ==
  ASSUME ConnInv, DecideScope
  PROVE  ConnInv'
<1>0. effects' \subseteq Permitted
  BY EffectsPermitted DEF ConnInv, Passed, DecideScope, loopVars, bodyVars, tunnelVars, peerVarsC,
     history
<1>1. ConnTypeOK'
  <2>1. /\ at' \in Places /\ readBy' \in {"none", "set"} /\ writeBy' \in {"none", "set", "old"}
        /\ copying' \subseteq {"up", "down"} /\ auth' \in {"off", "on", "half"}
    BY DEF ConnInv, ConnTypeOK, Places, DecideScope, loopVars, bodyVars, tunnelVars, peerVarsC,
       history
  <2>2. request' \in ClientRequest \cup {NoRequest}
    BY DEF ConnInv, ConnTypeOK, Checked, Passed, DecideScope, loopVars, bodyVars, tunnelVars,
       peerVarsC, history
  <2>3. /\ proxyTunnel' \in BOOLEAN /\ closeAfterResponse' \in BOOLEAN /\ verified' \in BOOLEAN
        /\ bodyLeft' \in BOOLEAN /\ readErr' \in BOOLEAN /\ bothClosed' \in BOOLEAN
        /\ silent' \in BOOLEAN /\ lateWrite' \in BOOLEAN
    BY DEF ConnInv, ConnTypeOK, DecideScope, loopVars, bodyVars, tunnelVars, peerVarsC, history
  <2>4. requests' \in 0..MaxRequests
    BY RequestsBounded DEF ConnInv, ConnTypeOK, DecideScope, loopVars, bodyVars, tunnelVars,
       peerVarsC, history
  <2> QED BY <1>0, <2>1, <2>2, <2>3, <2>4, PermittedTyped DEF ConnTypeOK
<1>2. Checked'
  BY DEF ConnInv, ConnTypeOK, Checked, Passed, DecideScope, loopVars, bodyVars, tunnelVars,
     peerVarsC, history
<1>3. BodyRead'
  BY DEF ConnInv, ConnTypeOK, Checked, Passed, BodyRead, DecideScope, loopVars, bodyVars,
     tunnelVars, peerVarsC, history
<1>4. Timed'
  BY DEF ConnInv, ConnTypeOK, Timed, DecideScope, loopVars, bodyVars, tunnelVars, peerVarsC,
     history
<1> QED BY <1>0, <1>1, <1>2, <1>3, <1>4 DEF ConnInv

LEMMA PeekProtocolConn ==
  ASSUME ConnInv, PeekProtocol
  PROVE  ConnInv'
<1>0. effects' \subseteq Permitted
  BY EffectsPermitted DEF ConnInv, Passed, PeekProtocol, loopVars, bodyVars, tunnelVars, peerVarsC,
     history, Aged, AwaitRequest
<1>1. ConnTypeOK'
  <2>1. /\ at' \in Places /\ readBy' \in {"none", "set"} /\ writeBy' \in {"none", "set", "old"}
        /\ copying' \subseteq {"up", "down"} /\ auth' \in {"off", "on", "half"}
    BY DEF ConnInv, ConnTypeOK, Places, PeekProtocol, loopVars, bodyVars, tunnelVars, peerVarsC,
       history, Aged, AwaitRequest
  <2>2. request' \in ClientRequest \cup {NoRequest}
    BY DEF ConnInv, ConnTypeOK, Checked, Passed, PeekProtocol, loopVars, bodyVars, tunnelVars,
       peerVarsC, history, Aged, AwaitRequest
  <2>3. /\ proxyTunnel' \in BOOLEAN /\ closeAfterResponse' \in BOOLEAN /\ verified' \in BOOLEAN
        /\ bodyLeft' \in BOOLEAN /\ readErr' \in BOOLEAN /\ bothClosed' \in BOOLEAN
        /\ silent' \in BOOLEAN /\ lateWrite' \in BOOLEAN
    BY DEF ConnInv, ConnTypeOK, PeekProtocol, loopVars, bodyVars, tunnelVars, peerVarsC, history,
       Aged, AwaitRequest
  <2>4. requests' \in 0..MaxRequests
    BY RequestsBounded DEF ConnInv, ConnTypeOK, PeekProtocol, loopVars, bodyVars, tunnelVars,
       peerVarsC, history, Aged, AwaitRequest
  <2> QED BY <1>0, <2>1, <2>2, <2>3, <2>4, PermittedTyped DEF ConnTypeOK
<1>2. Checked'
  BY DEF ConnInv, ConnTypeOK, Checked, Passed, PeekProtocol, loopVars, bodyVars, tunnelVars,
     peerVarsC, history, Aged, AwaitRequest
<1>3. BodyRead'
  BY DEF ConnInv, ConnTypeOK, Checked, Passed, BodyRead, PeekProtocol, loopVars, bodyVars,
     tunnelVars, peerVarsC, history, Aged, AwaitRequest
<1>4. Timed'
  BY DEF ConnInv, ConnTypeOK, Timed, PeekProtocol, loopVars, bodyVars, tunnelVars, peerVarsC,
     history, Aged, AwaitRequest
<1> QED BY <1>0, <1>1, <1>2, <1>3, <1>4 DEF ConnInv

LEMMA HandshakeConn ==
  ASSUME ConnInv, Handshake
  PROVE  ConnInv'
<1>0. effects' \subseteq Permitted
  BY EffectsPermitted DEF ConnInv, Passed, Handshake, bodyVars, tunnelVars, peerVarsC, history,
     ClearDeadlines, Causes
<1>1. ConnTypeOK'
  <2>1. /\ at' \in Places /\ readBy' \in {"none", "set"} /\ writeBy' \in {"none", "set", "old"}
        /\ copying' \subseteq {"up", "down"} /\ auth' \in {"off", "on", "half"}
    BY DEF ConnInv, ConnTypeOK, Places, Handshake, bodyVars, tunnelVars, peerVarsC, history,
       ClearDeadlines, Causes
  <2>2. request' \in ClientRequest \cup {NoRequest}
    BY DEF ConnInv, ConnTypeOK, Checked, Passed, Handshake, bodyVars, tunnelVars, peerVarsC,
       history, ClearDeadlines, Causes
  <2>3. /\ proxyTunnel' \in BOOLEAN /\ closeAfterResponse' \in BOOLEAN /\ verified' \in BOOLEAN
        /\ bodyLeft' \in BOOLEAN /\ readErr' \in BOOLEAN /\ bothClosed' \in BOOLEAN
        /\ silent' \in BOOLEAN /\ lateWrite' \in BOOLEAN
    BY DEF ConnInv, ConnTypeOK, Handshake, bodyVars, tunnelVars, peerVarsC, history,
       ClearDeadlines, Causes
  <2>4. requests' \in 0..MaxRequests
    BY RequestsBounded DEF ConnInv, ConnTypeOK, Handshake, bodyVars, tunnelVars, peerVarsC,
       history, ClearDeadlines, Causes
  <2> QED BY <1>0, <2>1, <2>2, <2>3, <2>4, PermittedTyped DEF ConnTypeOK
<1>2. Checked'
  BY DEF ConnInv, ConnTypeOK, Checked, Passed, Handshake, bodyVars, tunnelVars, peerVarsC, history,
     ClearDeadlines, Causes, NoRequest
<1>3. BodyRead'
  BY DEF ConnInv, ConnTypeOK, Checked, Passed, BodyRead, Handshake, bodyVars, tunnelVars,
     peerVarsC, history, ClearDeadlines, Causes, NoRequest
<1>4. Timed'
  BY DEF ConnInv, ConnTypeOK, Timed, Handshake, bodyVars, tunnelVars, peerVarsC, history,
     ClearDeadlines, Causes, NoRequest
<1> QED BY <1>0, <1>1, <1>2, <1>3, <1>4 DEF ConnInv

LEMMA DialTargetConn ==
  ASSUME ConnInv, DialTarget
  PROVE  ConnInv'
<1>0. effects' \subseteq Permitted
  BY EffectsPermitted DEF ConnInv, Passed, DialTarget, loopVars, bodyVars, tunnelVars, peerVarsC,
     history, ClearDeadlines, Written, Causes
<1>1. ConnTypeOK'
  <2>1. /\ at' \in Places /\ readBy' \in {"none", "set"} /\ writeBy' \in {"none", "set", "old"}
        /\ copying' \subseteq {"up", "down"} /\ auth' \in {"off", "on", "half"}
    BY DEF ConnInv, ConnTypeOK, Places, DialTarget, loopVars, bodyVars, tunnelVars, peerVarsC,
       history, ClearDeadlines, Written, Causes
  <2>2. request' \in ClientRequest \cup {NoRequest}
    BY DEF ConnInv, ConnTypeOK, Checked, Passed, DialTarget, loopVars, bodyVars, tunnelVars,
       peerVarsC, history, ClearDeadlines, Written, Causes
  <2>3. /\ proxyTunnel' \in BOOLEAN /\ closeAfterResponse' \in BOOLEAN /\ verified' \in BOOLEAN
        /\ bodyLeft' \in BOOLEAN /\ readErr' \in BOOLEAN /\ bothClosed' \in BOOLEAN
        /\ silent' \in BOOLEAN /\ lateWrite' \in BOOLEAN
    BY DEF ConnInv, ConnTypeOK, DialTarget, loopVars, bodyVars, tunnelVars, peerVarsC, history,
       ClearDeadlines, Written, Causes
  <2>4. requests' \in 0..MaxRequests
    BY RequestsBounded DEF ConnInv, ConnTypeOK, DialTarget, loopVars, bodyVars, tunnelVars,
       peerVarsC, history, ClearDeadlines, Written, Causes
  <2> QED BY <1>0, <2>1, <2>2, <2>3, <2>4, PermittedTyped DEF ConnTypeOK
<1>2. Checked'
  BY DEF ConnInv, ConnTypeOK, Checked, Passed, DialTarget, loopVars, bodyVars, tunnelVars,
     peerVarsC, history, ClearDeadlines, Written, Causes
<1>3. BodyRead'
  BY DEF ConnInv, ConnTypeOK, Checked, Passed, BodyRead, DialTarget, loopVars, bodyVars,
     tunnelVars, peerVarsC, history, ClearDeadlines, Written, Causes
<1>4. Timed'
  BY DEF ConnInv, ConnTypeOK, Timed, DialTarget, loopVars, bodyVars, tunnelVars, peerVarsC,
     history, ClearDeadlines, Written, Causes
<1> QED BY <1>0, <1>1, <1>2, <1>3, <1>4 DEF ConnInv

LEMMA AwaitUpgradeConn ==
  ASSUME ConnInv, AwaitUpgrade
  PROVE  ConnInv'
<1>0. effects' \subseteq Permitted
  BY EffectsPermitted DEF ConnInv, Passed, AwaitUpgrade, loopVars, bodyVars, tunnelVars, peerVarsC,
     history, Written
<1>1. ConnTypeOK'
  <2>1. /\ at' \in Places /\ readBy' \in {"none", "set"} /\ writeBy' \in {"none", "set", "old"}
        /\ copying' \subseteq {"up", "down"} /\ auth' \in {"off", "on", "half"}
    BY DEF ConnInv, ConnTypeOK, Places, AwaitUpgrade, loopVars, bodyVars, tunnelVars, peerVarsC,
       history, Written
  <2>2. request' \in ClientRequest \cup {NoRequest}
    BY DEF ConnInv, ConnTypeOK, Checked, Passed, AwaitUpgrade, loopVars, bodyVars, tunnelVars,
       peerVarsC, history, Written
  <2>3. /\ proxyTunnel' \in BOOLEAN /\ closeAfterResponse' \in BOOLEAN /\ verified' \in BOOLEAN
        /\ bodyLeft' \in BOOLEAN /\ readErr' \in BOOLEAN /\ bothClosed' \in BOOLEAN
        /\ silent' \in BOOLEAN /\ lateWrite' \in BOOLEAN
    BY DEF ConnInv, ConnTypeOK, AwaitUpgrade, loopVars, bodyVars, tunnelVars, peerVarsC, history,
       Written
  <2>4. requests' \in 0..MaxRequests
    BY RequestsBounded DEF ConnInv, ConnTypeOK, AwaitUpgrade, loopVars, bodyVars, tunnelVars,
       peerVarsC, history, Written
  <2> QED BY <1>0, <2>1, <2>2, <2>3, <2>4, PermittedTyped DEF ConnTypeOK
<1>2. Checked'
  BY DEF ConnInv, ConnTypeOK, Checked, Passed, AwaitUpgrade, loopVars, bodyVars, tunnelVars,
     peerVarsC, history, Written
<1>3. BodyRead'
  BY DEF ConnInv, ConnTypeOK, Checked, Passed, BodyRead, AwaitUpgrade, loopVars, bodyVars,
     tunnelVars, peerVarsC, history, Written
<1>4. Timed'
  BY DEF ConnInv, ConnTypeOK, Timed, AwaitUpgrade, loopVars, bodyVars, tunnelVars, peerVarsC,
     history, Written
<1> QED BY <1>0, <1>1, <1>2, <1>3, <1>4 DEF ConnInv

LEMMA UpgradeConn ==
  ASSUME ConnInv, Upgrade
  PROVE  ConnInv'
<1>0. effects' \subseteq Permitted
  BY EffectsPermitted DEF ConnInv, Passed, Upgrade, loopVars, bodyVars, tunnelVars, peerVarsC,
     history, ClearDeadlines
<1>1. ConnTypeOK'
  <2>1. /\ at' \in Places /\ readBy' \in {"none", "set"} /\ writeBy' \in {"none", "set", "old"}
        /\ copying' \subseteq {"up", "down"} /\ auth' \in {"off", "on", "half"}
    BY DEF ConnInv, ConnTypeOK, Places, Upgrade, loopVars, bodyVars, tunnelVars, peerVarsC,
       history, ClearDeadlines
  <2>2. request' \in ClientRequest \cup {NoRequest}
    BY DEF ConnInv, ConnTypeOK, Checked, Passed, Upgrade, loopVars, bodyVars, tunnelVars,
       peerVarsC, history, ClearDeadlines
  <2>3. /\ proxyTunnel' \in BOOLEAN /\ closeAfterResponse' \in BOOLEAN /\ verified' \in BOOLEAN
        /\ bodyLeft' \in BOOLEAN /\ readErr' \in BOOLEAN /\ bothClosed' \in BOOLEAN
        /\ silent' \in BOOLEAN /\ lateWrite' \in BOOLEAN
    BY DEF ConnInv, ConnTypeOK, Upgrade, loopVars, bodyVars, tunnelVars, peerVarsC, history,
       ClearDeadlines
  <2>4. requests' \in 0..MaxRequests
    BY RequestsBounded DEF ConnInv, ConnTypeOK, Upgrade, loopVars, bodyVars, tunnelVars, peerVarsC,
       history, ClearDeadlines
  <2> QED BY <1>0, <2>1, <2>2, <2>3, <2>4, PermittedTyped DEF ConnTypeOK
<1>2. Checked'
  BY DEF ConnInv, ConnTypeOK, Checked, Passed, Upgrade, loopVars, bodyVars, tunnelVars, peerVarsC,
     history, ClearDeadlines
<1>3. BodyRead'
  BY DEF ConnInv, ConnTypeOK, Checked, Passed, BodyRead, Upgrade, loopVars, bodyVars, tunnelVars,
     peerVarsC, history, ClearDeadlines
<1>4. Timed'
  BY DEF ConnInv, ConnTypeOK, Timed, Upgrade, loopVars, bodyVars, tunnelVars, peerVarsC, history,
     ClearDeadlines
<1> QED BY <1>0, <1>1, <1>2, <1>3, <1>4 DEF ConnInv

LEMMA RefusalEndsConn ==
  ASSUME ConnInv, RefusalEnds
  PROVE  ConnInv'
<1>0. effects' \subseteq Permitted
  BY EffectsPermitted DEF ConnInv, Passed, RefusalEnds, loopVars, bodyVars, tunnelVars, peerVarsC,
     history
<1>1. ConnTypeOK'
  <2>1. /\ at' \in Places /\ readBy' \in {"none", "set"} /\ writeBy' \in {"none", "set", "old"}
        /\ copying' \subseteq {"up", "down"} /\ auth' \in {"off", "on", "half"}
    BY DEF ConnInv, ConnTypeOK, Places, RefusalEnds, loopVars, bodyVars, tunnelVars, peerVarsC,
       history
  <2>2. request' \in ClientRequest \cup {NoRequest}
    BY DEF ConnInv, ConnTypeOK, Checked, Passed, RefusalEnds, loopVars, bodyVars, tunnelVars,
       peerVarsC, history
  <2>3. /\ proxyTunnel' \in BOOLEAN /\ closeAfterResponse' \in BOOLEAN /\ verified' \in BOOLEAN
        /\ bodyLeft' \in BOOLEAN /\ readErr' \in BOOLEAN /\ bothClosed' \in BOOLEAN
        /\ silent' \in BOOLEAN /\ lateWrite' \in BOOLEAN
    BY DEF ConnInv, ConnTypeOK, RefusalEnds, loopVars, bodyVars, tunnelVars, peerVarsC, history
  <2>4. requests' \in 0..MaxRequests
    BY RequestsBounded DEF ConnInv, ConnTypeOK, RefusalEnds, loopVars, bodyVars, tunnelVars,
       peerVarsC, history
  <2> QED BY <1>0, <2>1, <2>2, <2>3, <2>4, PermittedTyped DEF ConnTypeOK
<1>2. Checked'
  BY DEF ConnInv, ConnTypeOK, Checked, Passed, RefusalEnds, loopVars, bodyVars, tunnelVars,
     peerVarsC, history
<1>3. BodyRead'
  BY DEF ConnInv, ConnTypeOK, Checked, Passed, BodyRead, RefusalEnds, loopVars, bodyVars,
     tunnelVars, peerVarsC, history
<1>4. Timed'
  BY DEF ConnInv, ConnTypeOK, Timed, RefusalEnds, loopVars, bodyVars, tunnelVars, peerVarsC,
     history
<1> QED BY <1>0, <1>1, <1>2, <1>3, <1>4 DEF ConnInv

LEMMA TakeoverEndsConn ==
  ASSUME ConnInv, TakeoverEnds
  PROVE  ConnInv'
<1>0. effects' \subseteq Permitted
  BY EffectsPermitted DEF ConnInv, Passed, TakeoverEnds, loopVars, bodyVars, tunnelVars, peerVarsC,
     history
<1>1. ConnTypeOK'
  <2>1. /\ at' \in Places /\ readBy' \in {"none", "set"} /\ writeBy' \in {"none", "set", "old"}
        /\ copying' \subseteq {"up", "down"} /\ auth' \in {"off", "on", "half"}
    BY DEF ConnInv, ConnTypeOK, Places, TakeoverEnds, loopVars, bodyVars, tunnelVars, peerVarsC,
       history
  <2>2. request' \in ClientRequest \cup {NoRequest}
    BY DEF ConnInv, ConnTypeOK, Checked, Passed, TakeoverEnds, loopVars, bodyVars, tunnelVars,
       peerVarsC, history
  <2>3. /\ proxyTunnel' \in BOOLEAN /\ closeAfterResponse' \in BOOLEAN /\ verified' \in BOOLEAN
        /\ bodyLeft' \in BOOLEAN /\ readErr' \in BOOLEAN /\ bothClosed' \in BOOLEAN
        /\ silent' \in BOOLEAN /\ lateWrite' \in BOOLEAN
    BY DEF ConnInv, ConnTypeOK, TakeoverEnds, loopVars, bodyVars, tunnelVars, peerVarsC, history
  <2>4. requests' \in 0..MaxRequests
    BY RequestsBounded DEF ConnInv, ConnTypeOK, TakeoverEnds, loopVars, bodyVars, tunnelVars,
       peerVarsC, history
  <2> QED BY <1>0, <2>1, <2>2, <2>3, <2>4, PermittedTyped DEF ConnTypeOK
<1>2. Checked'
  BY DEF ConnInv, ConnTypeOK, Checked, Passed, TakeoverEnds, loopVars, bodyVars, tunnelVars,
     peerVarsC, history
<1>3. BodyRead'
  BY DEF ConnInv, ConnTypeOK, Checked, Passed, BodyRead, TakeoverEnds, loopVars, bodyVars,
     tunnelVars, peerVarsC, history
<1>4. Timed'
  BY DEF ConnInv, ConnTypeOK, Timed, TakeoverEnds, loopVars, bodyVars, tunnelVars, peerVarsC,
     history
<1> QED BY <1>0, <1>1, <1>2, <1>3, <1>4 DEF ConnInv

LEMMA CopyEndsConn ==
  ASSUME NEW way \in {"up", "down"}, ConnInv, CopyEnds(way)
  PROVE  ConnInv'
<1>0. effects' \subseteq Permitted
  BY EffectsPermitted DEF ConnInv, Passed, CopyEnds, loopVars, bodyVars, tunnelVars, peerVarsC,
     history
<1>1. ConnTypeOK'
  <2>1. /\ at' \in Places /\ readBy' \in {"none", "set"} /\ writeBy' \in {"none", "set", "old"}
        /\ copying' \subseteq {"up", "down"} /\ auth' \in {"off", "on", "half"}
    BY DEF ConnInv, ConnTypeOK, Places, CopyEnds, loopVars, bodyVars, tunnelVars, peerVarsC,
       history
  <2>2. request' \in ClientRequest \cup {NoRequest}
    BY DEF ConnInv, ConnTypeOK, Checked, Passed, CopyEnds, loopVars, bodyVars, tunnelVars,
       peerVarsC, history
  <2>3. /\ proxyTunnel' \in BOOLEAN /\ closeAfterResponse' \in BOOLEAN /\ verified' \in BOOLEAN
        /\ bodyLeft' \in BOOLEAN /\ readErr' \in BOOLEAN /\ bothClosed' \in BOOLEAN
        /\ silent' \in BOOLEAN /\ lateWrite' \in BOOLEAN
    BY DEF ConnInv, ConnTypeOK, CopyEnds, loopVars, bodyVars, tunnelVars, peerVarsC, history
  <2>4. requests' \in 0..MaxRequests
    BY RequestsBounded DEF ConnInv, ConnTypeOK, CopyEnds, loopVars, bodyVars, tunnelVars,
       peerVarsC, history
  <2> QED BY <1>0, <2>1, <2>2, <2>3, <2>4, PermittedTyped DEF ConnTypeOK
<1>2. Checked'
  BY DEF ConnInv, ConnTypeOK, Checked, Passed, CopyEnds, loopVars, bodyVars, tunnelVars, peerVarsC,
     history
<1>3. BodyRead'
  BY DEF ConnInv, ConnTypeOK, Checked, Passed, BodyRead, CopyEnds, loopVars, bodyVars, tunnelVars,
     peerVarsC, history
<1>4. Timed'
  BY DEF ConnInv, ConnTypeOK, Timed, CopyEnds, loopVars, bodyVars, tunnelVars, peerVarsC, history
<1> QED BY <1>0, <1>1, <1>2, <1>3, <1>4 DEF ConnInv

LEMMA CloseBothConn ==
  ASSUME ConnInv, CloseBoth
  PROVE  ConnInv'
<1>0. effects' \subseteq Permitted
  BY EffectsPermitted DEF ConnInv, Passed, CloseBoth, loopVars, bodyVars, tunnelVars, peerVarsC,
     history
<1>1. ConnTypeOK'
  <2>1. /\ at' \in Places /\ readBy' \in {"none", "set"} /\ writeBy' \in {"none", "set", "old"}
        /\ copying' \subseteq {"up", "down"} /\ auth' \in {"off", "on", "half"}
    BY DEF ConnInv, ConnTypeOK, Places, CloseBoth, loopVars, bodyVars, tunnelVars, peerVarsC,
       history
  <2>2. request' \in ClientRequest \cup {NoRequest}
    BY DEF ConnInv, ConnTypeOK, Checked, Passed, CloseBoth, loopVars, bodyVars, tunnelVars,
       peerVarsC, history
  <2>3. /\ proxyTunnel' \in BOOLEAN /\ closeAfterResponse' \in BOOLEAN /\ verified' \in BOOLEAN
        /\ bodyLeft' \in BOOLEAN /\ readErr' \in BOOLEAN /\ bothClosed' \in BOOLEAN
        /\ silent' \in BOOLEAN /\ lateWrite' \in BOOLEAN
    BY DEF ConnInv, ConnTypeOK, CloseBoth, loopVars, bodyVars, tunnelVars, peerVarsC, history
  <2>4. requests' \in 0..MaxRequests
    BY RequestsBounded DEF ConnInv, ConnTypeOK, CloseBoth, loopVars, bodyVars, tunnelVars,
       peerVarsC, history
  <2> QED BY <1>0, <2>1, <2>2, <2>3, <2>4, PermittedTyped DEF ConnTypeOK
<1>2. Checked'
  BY DEF ConnInv, ConnTypeOK, Checked, Passed, CloseBoth, loopVars, bodyVars, tunnelVars,
     peerVarsC, history
<1>3. BodyRead'
  BY DEF ConnInv, ConnTypeOK, Checked, Passed, BodyRead, CloseBoth, loopVars, bodyVars, tunnelVars,
     peerVarsC, history
<1>4. Timed'
  BY DEF ConnInv, ConnTypeOK, Timed, CloseBoth, loopVars, bodyVars, tunnelVars, peerVarsC, history
<1> QED BY <1>0, <1>1, <1>2, <1>3, <1>4 DEF ConnInv

LEMMA TunnelEndsConn ==
  ASSUME ConnInv, TunnelEnds
  PROVE  ConnInv'
<1>0. effects' \subseteq Permitted
  BY EffectsPermitted DEF ConnInv, Passed, TunnelEnds, loopVars, bodyVars, tunnelVars, peerVarsC,
     history
<1>1. ConnTypeOK'
  <2>1. /\ at' \in Places /\ readBy' \in {"none", "set"} /\ writeBy' \in {"none", "set", "old"}
        /\ copying' \subseteq {"up", "down"} /\ auth' \in {"off", "on", "half"}
    BY DEF ConnInv, ConnTypeOK, Places, TunnelEnds, loopVars, bodyVars, tunnelVars, peerVarsC,
       history
  <2>2. request' \in ClientRequest \cup {NoRequest}
    BY DEF ConnInv, ConnTypeOK, Checked, Passed, TunnelEnds, loopVars, bodyVars, tunnelVars,
       peerVarsC, history
  <2>3. /\ proxyTunnel' \in BOOLEAN /\ closeAfterResponse' \in BOOLEAN /\ verified' \in BOOLEAN
        /\ bodyLeft' \in BOOLEAN /\ readErr' \in BOOLEAN /\ bothClosed' \in BOOLEAN
        /\ silent' \in BOOLEAN /\ lateWrite' \in BOOLEAN
    BY DEF ConnInv, ConnTypeOK, TunnelEnds, loopVars, bodyVars, tunnelVars, peerVarsC, history
  <2>4. requests' \in 0..MaxRequests
    BY RequestsBounded DEF ConnInv, ConnTypeOK, TunnelEnds, loopVars, bodyVars, tunnelVars,
       peerVarsC, history
  <2> QED BY <1>0, <2>1, <2>2, <2>3, <2>4, PermittedTyped DEF ConnTypeOK
<1>2. Checked'
  BY DEF ConnInv, ConnTypeOK, Checked, Passed, TunnelEnds, loopVars, bodyVars, tunnelVars,
     peerVarsC, history
<1>3. BodyRead'
  BY DEF ConnInv, ConnTypeOK, Checked, Passed, BodyRead, TunnelEnds, loopVars, bodyVars,
     tunnelVars, peerVarsC, history
<1>4. Timed'
  BY DEF ConnInv, ConnTypeOK, Timed, TunnelEnds, loopVars, bodyVars, tunnelVars, peerVarsC, history
<1> QED BY <1>0, <1>1, <1>2, <1>3, <1>4 DEF ConnInv

LEMMA HandleRequestConn ==
  ASSUME ConnInv, HandleRequest
  PROVE  ConnInv'
<1>0. effects' \subseteq Permitted
  BY EffectsPermitted DEF ConnInv, Passed, HandleRequest, bodyVars, tunnelVars, peerVarsC, history,
     Causes
<1>1. ConnTypeOK'
  <2>1. /\ at' \in Places /\ readBy' \in {"none", "set"} /\ writeBy' \in {"none", "set", "old"}
        /\ copying' \subseteq {"up", "down"} /\ auth' \in {"off", "on", "half"}
    BY DEF ConnInv, ConnTypeOK, Places, HandleRequest, bodyVars, tunnelVars, peerVarsC, history,
       Causes
  <2>2. request' \in ClientRequest \cup {NoRequest}
    BY DEF ConnInv, ConnTypeOK, Checked, Passed, HandleRequest, bodyVars, tunnelVars, peerVarsC,
       history, Causes
  <2>3. /\ proxyTunnel' \in BOOLEAN /\ closeAfterResponse' \in BOOLEAN /\ verified' \in BOOLEAN
        /\ bodyLeft' \in BOOLEAN /\ readErr' \in BOOLEAN /\ bothClosed' \in BOOLEAN
        /\ silent' \in BOOLEAN /\ lateWrite' \in BOOLEAN
    BY DEF ConnInv, ConnTypeOK, HandleRequest, bodyVars, tunnelVars, peerVarsC, history, Causes
  <2>4. requests' \in 0..MaxRequests
    BY RequestsBounded DEF ConnInv, ConnTypeOK, HandleRequest, bodyVars, tunnelVars, peerVarsC,
       history, Causes
  <2> QED BY <1>0, <2>1, <2>2, <2>3, <2>4, PermittedTyped DEF ConnTypeOK
<1>2. Checked'
  BY DEF ConnInv, ConnTypeOK, Checked, Passed, HandleRequest, bodyVars, tunnelVars, peerVarsC,
     history, Causes
<1>3. BodyRead'
  BY DEF ConnInv, ConnTypeOK, Checked, Passed, BodyRead, HandleRequest, bodyVars, tunnelVars,
     peerVarsC, history, Causes
<1>4. Timed'
  BY DEF ConnInv, ConnTypeOK, Timed, HandleRequest, bodyVars, tunnelVars, peerVarsC, history,
     Causes
<1> QED BY <1>0, <1>1, <1>2, <1>3, <1>4 DEF ConnInv

LEMMA AnswerConn ==
  ASSUME ConnInv, at \in {"answer", "relay"}, Answer
  PROVE  ConnInv'
<1>0. effects' \subseteq Permitted
  BY EffectsPermitted DEF ConnInv, Passed, Answer, bodyVars, tunnelVars, peerVarsC, history,
     Written, WriteDeadline
<1>1. ConnTypeOK'
  <2>1. /\ at' \in Places /\ readBy' \in {"none", "set"} /\ writeBy' \in {"none", "set", "old"}
        /\ copying' \subseteq {"up", "down"} /\ auth' \in {"off", "on", "half"}
    BY DEF ConnInv, ConnTypeOK, Places, Answer, bodyVars, tunnelVars, peerVarsC, history,
       Written, WriteDeadline
  <2>2. request' \in ClientRequest \cup {NoRequest}
    BY DEF ConnInv, ConnTypeOK, Checked, Passed, Answer, bodyVars, tunnelVars, peerVarsC,
       history, Written, WriteDeadline
  <2>3. /\ proxyTunnel' \in BOOLEAN /\ closeAfterResponse' \in BOOLEAN /\ verified' \in BOOLEAN
        /\ bodyLeft' \in BOOLEAN /\ readErr' \in BOOLEAN /\ bothClosed' \in BOOLEAN
        /\ silent' \in BOOLEAN /\ lateWrite' \in BOOLEAN
    BY DEF ConnInv, ConnTypeOK, Answer, bodyVars, tunnelVars, peerVarsC, history, Written,
       WriteDeadline
  <2>4. requests' \in 0..MaxRequests
    BY RequestsBounded DEF ConnInv, ConnTypeOK, Answer, bodyVars, tunnelVars, peerVarsC,
       history, Written, WriteDeadline
  <2> QED BY <1>0, <2>1, <2>2, <2>3, <2>4, PermittedTyped DEF ConnTypeOK
<1>2. Checked'
  BY DEF ConnInv, ConnTypeOK, Checked, Passed, Answer, bodyVars, tunnelVars, peerVarsC,
     history, Written, WriteDeadline
<1>3. BodyRead'
  <2>1. closeAfterResponse => closeAfterResponse'
    BY DEF ConnInv, ConnTypeOK, Answer
  <2> QED BY <2>1 DEF ConnInv, BodyRead, Answer, bodyVars
<1>4. Timed'
  BY DEF ConnInv, ConnTypeOK, Timed, Answer, bodyVars, tunnelVars, peerVarsC, history,
     Written, WriteDeadline
<1> QED BY <1>0, <1>1, <1>2, <1>3, <1>4 DEF ConnInv

LEMMA AfterRequestConn ==
  ASSUME ConnInv, AfterRequest
  PROVE  ConnInv'
<1>0. effects' \subseteq Permitted
  BY EffectsPermitted DEF ConnInv, Passed, AfterRequest, loopVars, bodyVars, tunnelVars, peerVarsC,
     history, Aged, AwaitRequest
<1>1. ConnTypeOK'
  <2>1. /\ at' \in Places /\ readBy' \in {"none", "set"} /\ writeBy' \in {"none", "set", "old"}
        /\ copying' \subseteq {"up", "down"} /\ auth' \in {"off", "on", "half"}
    BY DEF ConnInv, ConnTypeOK, Places, AfterRequest, loopVars, bodyVars, tunnelVars, peerVarsC,
       history, Aged, AwaitRequest
  <2>2. request' \in ClientRequest \cup {NoRequest}
    BY DEF ConnInv, ConnTypeOK, Checked, Passed, AfterRequest, loopVars, bodyVars, tunnelVars,
       peerVarsC, history, Aged, AwaitRequest
  <2>3. /\ proxyTunnel' \in BOOLEAN /\ closeAfterResponse' \in BOOLEAN /\ verified' \in BOOLEAN
        /\ bodyLeft' \in BOOLEAN /\ readErr' \in BOOLEAN /\ bothClosed' \in BOOLEAN
        /\ silent' \in BOOLEAN /\ lateWrite' \in BOOLEAN
    BY DEF ConnInv, ConnTypeOK, AfterRequest, loopVars, bodyVars, tunnelVars, peerVarsC, history,
       Aged, AwaitRequest
  <2>4. requests' \in 0..MaxRequests
    BY RequestsBounded DEF ConnInv, ConnTypeOK, AfterRequest, loopVars, bodyVars, tunnelVars,
       peerVarsC, history, Aged, AwaitRequest
  <2> QED BY <1>0, <2>1, <2>2, <2>3, <2>4, PermittedTyped DEF ConnTypeOK
<1>2. Checked'
  BY DEF ConnInv, ConnTypeOK, Checked, Passed, AfterRequest, loopVars, bodyVars, tunnelVars,
     peerVarsC, history, Aged, AwaitRequest, MayReadOn
<1>3. BodyRead'
  BY DEF ConnInv, ConnTypeOK, Checked, Passed, BodyRead, AfterRequest, loopVars, bodyVars,
     tunnelVars, peerVarsC, history, Aged, AwaitRequest, MayReadOn
<1>4. Timed'
  BY DEF ConnInv, ConnTypeOK, Timed, AfterRequest, loopVars, bodyVars, tunnelVars, peerVarsC,
     history, Aged, AwaitRequest, MayReadOn
<1> QED BY <1>0, <1>1, <1>2, <1>3, <1>4 DEF ConnInv

LEMMA FallSilentConn ==
  ASSUME ConnInv, FallSilent
  PROVE  ConnInv'
<1>0. effects' \subseteq Permitted
  BY EffectsPermitted DEF ConnInv, Passed, FallSilent, loopVars, bodyVars, tunnelVars, peerVarsC,
     history
<1>1. ConnTypeOK'
  <2>1. /\ at' \in Places /\ readBy' \in {"none", "set"} /\ writeBy' \in {"none", "set", "old"}
        /\ copying' \subseteq {"up", "down"} /\ auth' \in {"off", "on", "half"}
    BY DEF ConnInv, ConnTypeOK, Places, FallSilent, loopVars, bodyVars, tunnelVars, peerVarsC,
       history
  <2>2. request' \in ClientRequest \cup {NoRequest}
    BY DEF ConnInv, ConnTypeOK, Checked, Passed, FallSilent, loopVars, bodyVars, tunnelVars,
       peerVarsC, history
  <2>3. /\ proxyTunnel' \in BOOLEAN /\ closeAfterResponse' \in BOOLEAN /\ verified' \in BOOLEAN
        /\ bodyLeft' \in BOOLEAN /\ readErr' \in BOOLEAN /\ bothClosed' \in BOOLEAN
        /\ silent' \in BOOLEAN /\ lateWrite' \in BOOLEAN
    BY DEF ConnInv, ConnTypeOK, FallSilent, loopVars, bodyVars, tunnelVars, peerVarsC, history
  <2>4. requests' \in 0..MaxRequests
    BY RequestsBounded DEF ConnInv, ConnTypeOK, FallSilent, loopVars, bodyVars, tunnelVars,
       peerVarsC, history
  <2> QED BY <1>0, <2>1, <2>2, <2>3, <2>4, PermittedTyped DEF ConnTypeOK
<1>2. Checked'
  BY DEF ConnInv, ConnTypeOK, Checked, Passed, FallSilent, loopVars, bodyVars, tunnelVars,
     peerVarsC, history
<1>3. BodyRead'
  BY DEF ConnInv, ConnTypeOK, Checked, Passed, BodyRead, FallSilent, loopVars, bodyVars,
     tunnelVars, peerVarsC, history
<1>4. Timed'
  BY DEF ConnInv, ConnTypeOK, Timed, FallSilent, loopVars, bodyVars, tunnelVars, peerVarsC, history
<1> QED BY <1>0, <1>1, <1>2, <1>3, <1>4 DEF ConnInv

LEMMA SetProxyAuthConn ==
  ASSUME NEW a \in {"off", "on", "half"}, ConnInv, SetProxyAuth(a)
  PROVE  ConnInv'
<1>0. effects' \subseteq Permitted
  BY EffectsPermitted DEF ConnInv, Passed, SetProxyAuth, loopVars, bodyVars, tunnelVars, peerVarsC,
     history
<1>1. ConnTypeOK'
  <2>1. /\ at' \in Places /\ readBy' \in {"none", "set"} /\ writeBy' \in {"none", "set", "old"}
        /\ copying' \subseteq {"up", "down"} /\ auth' \in {"off", "on", "half"}
    BY DEF ConnInv, ConnTypeOK, Places, SetProxyAuth, loopVars, bodyVars, tunnelVars, peerVarsC,
       history
  <2>2. request' \in ClientRequest \cup {NoRequest}
    BY DEF ConnInv, ConnTypeOK, Checked, Passed, SetProxyAuth, loopVars, bodyVars, tunnelVars,
       peerVarsC, history
  <2>3. /\ proxyTunnel' \in BOOLEAN /\ closeAfterResponse' \in BOOLEAN /\ verified' \in BOOLEAN
        /\ bodyLeft' \in BOOLEAN /\ readErr' \in BOOLEAN /\ bothClosed' \in BOOLEAN
        /\ silent' \in BOOLEAN /\ lateWrite' \in BOOLEAN
    BY DEF ConnInv, ConnTypeOK, SetProxyAuth, loopVars, bodyVars, tunnelVars, peerVarsC, history
  <2>4. requests' \in 0..MaxRequests
    BY RequestsBounded DEF ConnInv, ConnTypeOK, SetProxyAuth, loopVars, bodyVars, tunnelVars,
       peerVarsC, history
  <2> QED BY <1>0, <2>1, <2>2, <2>3, <2>4, PermittedTyped DEF ConnTypeOK
<1>2. Checked'
  BY DEF ConnInv, ConnTypeOK, Checked, Passed, SetProxyAuth, loopVars, bodyVars, tunnelVars,
     peerVarsC, history
<1>3. BodyRead'
  BY DEF ConnInv, ConnTypeOK, Checked, Passed, BodyRead, SetProxyAuth, loopVars, bodyVars,
     tunnelVars, peerVarsC, history
<1>4. Timed'
  BY DEF ConnInv, ConnTypeOK, Timed, SetProxyAuth, loopVars, bodyVars, tunnelVars, peerVarsC,
     history
<1> QED BY <1>0, <1>1, <1>2, <1>3, <1>4 DEF ConnInv

LEMMA ConnStep == ConnInv /\ [ConnNext]_connVars => ConnInv'
<1> SUFFICES ASSUME ConnInv, [ConnNext]_connVars PROVE ConnInv'
    OBVIOUS
<1>1. CASE ConnRuns
  <2>1. ASSUME NEW way \in {"up", "down"}, CopyIsCut(way) PROVE ConnInv'
    BY <2>1, CopyEndsConn DEF CopyIsCut
  <2> QED BY <1>1, <2>1, CheckAuthorizationConn, ChallengeConn, HandleConnectConn, DecideScopeConn,
          HandshakeConn, DialTargetConn, UpgradeConn, CloseBothConn, TunnelEndsConn,
          HandleRequestConn, AnswerConn, AfterRequestConn DEF ConnRuns, AnswerClient
<1>2. CASE Detect \/ DetectMore \/ ReadRequest \/ ReadRequestFails \/ PeekProtocol \/ TakeoverEnds
  BY <1>2, DetectConn, DetectMoreConn, ReadRequestConn, ReadRequestFailsConn, PeekProtocolConn,
     TakeoverEndsConn
<1>3. CASE FallSilent \/ AwaitUpgrade \/ RefusalEnds \/ RelayAnswer
  BY <1>3, FallSilentConn, AwaitUpgradeConn, RefusalEndsConn, AnswerConn DEF RelayAnswer
<1>4. ASSUME NEW way \in {"up", "down"}, CopyEnds(way) PROVE ConnInv'
  BY <1>4, CopyEndsConn
<1>5. ASSUME NEW a \in {"off", "on", "half"}, SetProxyAuth(a) PROVE ConnInv'
  BY <1>5, SetProxyAuthConn
<1>6. CASE UNCHANGED connVars
  <2>1. ConnTypeOK' /\ effects' \subseteq Permitted
    BY <1>6 DEF connVars, ConnInv, ConnTypeOK
  <2>2. Checked'
    BY <1>6 DEF connVars, ConnInv, Checked
  <2>3. BodyRead' /\ Timed'
    BY <1>6 DEF connVars, ConnInv, BodyRead, Timed
  <2> QED BY <2>1, <2>2, <2>3 DEF ConnInv
<1> QED BY <1>1, <1>2, <1>3, <1>4, <1>5, <1>6 DEF ConnNext

(* Nothing is done, recorded or dialled for a request that did not pass    *)
(* the check of its credentials, and none takes them along                 *)
(* (processor.go:205 and :216); no head is read in the middle of a body    *)
(* (processor.go:235) or without a deadline, and no answer is written      *)
(* under an old one (processor.go:262): for every number of requests.      *)
THEOREM ConnStaysSound == ConnSpec => []ConnSound
<1>1. ConnInit => ConnInv
  BY ConnInitInv
<1>2. ConnInv /\ [ConnNext]_connVars => ConnInv'
  BY ConnStep
<1>3. ConnInv => ConnSound
  <2>1. \A e \in Permitted : e.verified /\ e.shown = {}
    BY DEF Permitted
  <2> QED BY <2>1 DEF ConnInv, ConnSound, BodyRead, Timed
<1> QED BY <1>1, <1>2, <1>3, PTL DEF ConnSpec

-----------------------------------------------------------------------------
(* The pumps of a WebSocket and the recorder of its session.               *)

PumpSteps == {"off", "read", "hook", "record", "push", "write", "done"}
Frames == [n : Nat, op : {"none", "data", "continuation", "control", "close"}, fin : BOOLEAN]
Messages == Ways \X Nat

Holds(p) == p \in {"hook", "record", "push", "write"}

(* The pump p of direction w has read r of the frames s and holds f; it    *)
(* has passed on ps, the hooks have aborted ab and nt is recorded.         *)
PumpTyped(w, p, f, r, s, ps, ab, nt) ==
  /\ p \in PumpSteps /\ f \in Frames /\ s \in Seq(Shapes) /\ ps \in Seq(Frames)
  /\ r \in 0..Len(s) /\ Len(s) <= MaxWsFrames[w] /\ ab \subseteq 1..r /\ Len(ps) <= r
  /\ f = NoFrame \/ f.n \in 1..r
  /\ nt \in Seq(Messages)

(* The frame in hand is the last one that was read.                        *)
InHand(w, p, f, r, s, ps, ab, nt) ==
  Holds(p) =>
    /\ f.n = r /\ r > 0 /\ f.op = s[r].op /\ f.fin = s[r].fin
    /\ Len(ps) < r /\ r \notin ab /\ \A i \in 1..Len(ps) : ps[i].n < r
    /\ p \in {"hook", "record", "push"} => IsData(f)
    /\ (p \in {"push", "write"} /\ IsData(f)) => Contains(nt, <<w, r>>)

(* What was passed on is what was sent, recorded and not aborted.          *)
Faithful(w, p, f, r, s, ps, ab, nt) ==
  \A i \in 1..Len(ps) :
    /\ ps[i].n \in 1..r /\ ps[i].n \notin ab
    /\ ps[i].op = s[ps[i].n].op /\ ps[i].fin = s[ps[i].n].fin
    /\ IsData(ps[i]) => Contains(nt, <<w, ps[i].n>>)
    /\ ps[i].op = "close" => (i = Len(ps) /\ p = "done")

Settled(n, k, ps, ab) == n \in ab \/ \E j \in 1..k : ps[j].n = n

(* It is in order, and nothing is missing but what was aborted.            *)
Gapless(w, p, f, r, s, ps, ab, nt) ==
  /\ \A i, j \in 1..Len(ps) : i < j => ps[i].n < ps[j].n
  /\ \A i \in 1..Len(ps) : \A n \in 1..(ps[i].n - 1) : Settled(n, i - 1, ps, ab)
  /\ p # "done" =>
       \A n \in 1..r : (Holds(p) /\ n = r) \/ Settled(n, Len(ps), ps, ab)

Pumped(w, p, f, r, s, ps, ab, nt) ==
  /\ PumpTyped(w, p, f, r, s, ps, ab, nt)
  /\ InHand(w, p, f, r, s, ps, ab, nt)
  /\ Faithful(w, p, f, r, s, ps, ab, nt)
  /\ Gapless(w, p, f, r, s, ps, ab, nt)

PumpOf(w) ==
  Pumped(w, pump[w], frame[w], framesRead[w], sentFrames[w], passed[w], aborted[w], noted)

(* The session keeps the last of the messages that were recorded.          *)
Windowed(messages, nt) ==
  LET k == IF Len(nt) < WsWindow THEN Len(nt) ELSE WsWindow IN
  messages = SubSeq(nt, Len(nt) - k + 1, Len(nt))

WsTyped ==
  /\ pump \in [Ways -> PumpSteps] /\ frame \in [Ways -> Frames] /\ framesRead \in [Ways -> Nat]
  /\ sentFrames \in [Ways -> Seq(Shapes)] /\ hungUp \in [Ways -> BOOLEAN]
  /\ passed \in [Ways -> Seq(Frames)] /\ aborted \in [Ways -> SUBSET Nat]
  /\ cut \in BOOLEAN /\ noted \in Seq(Messages)
  /\ copy \in [Recorders -> WsSession \cup {<<>>}] /\ kept \in WsSession \cup {<<>>}
  /\ main \in {"upgraded", "wait", "close", "push", "done"}
  /\ resolver \in {"off", "resolve", "push", "done"}

Noting ==
  /\ main = "upgraded" =>
       /\ pump = [w \in Ways |-> "off"] /\ resolver = "off"
       /\ session = <<>> /\ noted = <<>>
  /\ main # "upgraded" =>
       /\ session \in WsSession
       /\ session.count = Len(noted) /\ Windowed(session.messages, noted)

Ending ==
  /\ \A w \in Ways : pump[w] = "done" => cut
  /\ main \in {"push", "done"} => (cut /\ ~session.open)

WsInv == WsTyped /\ (\A w \in Ways : PumpOf(w)) /\ Noting /\ Ending

LEMMA ContainsGrows ==
  ASSUME NEW nt \in Seq(Messages), NEW m \in Messages
  PROVE  /\ Append(nt, m) \in Seq(Messages) /\ Contains(Append(nt, m), m)
         /\ \A e : Contains(nt, e) => Contains(Append(nt, m), e)
  BY AppendFacts DEF Contains

LEMMA FrameIsRead ==
  ASSUME NEW w \in Ways, NEW f, NEW r, NEW s, NEW ps, NEW ab, NEW nt,
         Pumped(w, "read", f, r, s, ps, ab, nt), r + 1 <= Len(s)
  PROVE  /\ Parsed(r + 1, s[r + 1]) \in Frames
         /\ Pumped(w, IF IsData(Parsed(r + 1, s[r + 1])) THEN "hook" ELSE "write",
                   Parsed(r + 1, s[r + 1]), r + 1, s, ps, ab, nt)
<1> DEFINE g == Parsed(r + 1, s[r + 1])
           q == IF IsData(g) THEN "hook" ELSE "write"
<1>1. PumpTyped(w, "read", f, r, s, ps, ab, nt)
  BY DEF Pumped
<1>2. r \in Nat /\ Len(s) \in Nat /\ Len(ps) \in Nat /\ r + 1 \in 1..Len(s) /\ s[r + 1] \in Shapes
  BY <1>1, LenProperties, ElementOfSeq DEF PumpTyped
<1>3. g \in Frames /\ g.n = r + 1 /\ g.op = s[r + 1].op /\ g.fin = s[r + 1].fin
  BY <1>2, WebSocketAssumption DEF Frames, Parsed, FrameShapes
<1>4. q \in {"hook", "write"} /\ (q = "hook" <=> IsData(g))
  OBVIOUS
<1> HIDE DEF g, q
<1>5. PumpTyped(w, q, g, r + 1, s, ps, ab, nt)
  BY <1>1, <1>2, <1>3, <1>4 DEF PumpTyped, PumpSteps
<1>6. \A i \in 1..Len(ps) : ps[i].n \in 1..r
  BY DEF Pumped, Faithful
<1>7. InHand(w, q, g, r + 1, s, ps, ab, nt)
  BY <1>1, <1>2, <1>3, <1>4, <1>6 DEF InHand, PumpTyped
<1>8. Faithful(w, q, g, r + 1, s, ps, ab, nt)
  BY <1>1, <1>2 DEF Pumped, Faithful, PumpTyped
<1>9. Gapless(w, q, g, r + 1, s, ps, ab, nt)
  <2>1. /\ \A i, j \in 1..Len(ps) : i < j => ps[i].n < ps[j].n
        /\ \A i \in 1..Len(ps) : \A n \in 1..(ps[i].n - 1) : Settled(n, i - 1, ps, ab)
        /\ \A n \in 1..r : Settled(n, Len(ps), ps, ab)
    BY DEF Pumped, Gapless, Holds
  <2>2. Holds(q)
    BY <1>4 DEF Holds
  <2>3. \A n \in 1..(r + 1) : n = r + 1 \/ n \in 1..r
    BY <1>2
  <2> QED BY <2>1, <2>2, <2>3 DEF Gapless
<1> QED BY <1>3, <1>5, <1>7, <1>8, <1>9 DEF Pumped, g, q

LEMMA FrameIsAborted ==
  ASSUME NEW w \in Ways, NEW f, NEW r, NEW s, NEW ps, NEW ab, NEW nt,
         Pumped(w, "hook", f, r, s, ps, ab, nt)
  PROVE  Pumped(w, "read", f, r, s, ps, ab \cup {f.n}, nt)
<1>1. PumpTyped(w, "hook", f, r, s, ps, ab, nt) /\ InHand(w, "hook", f, r, s, ps, ab, nt)
  BY DEF Pumped
<1>2. f.n = r /\ r \in Nat /\ r > 0 /\ \A i \in 1..Len(ps) : ps[i].n < r
  BY <1>1, LenProperties DEF PumpTyped, InHand, Holds
<1>3. PumpTyped(w, "read", f, r, s, ps, ab \cup {f.n}, nt)
  BY <1>1, <1>2 DEF PumpTyped, PumpSteps
<1>4. Faithful(w, "read", f, r, s, ps, ab \cup {f.n}, nt)
  BY <1>2 DEF Pumped, Faithful
<1>5. Gapless(w, "read", f, r, s, ps, ab \cup {f.n}, nt)
  BY <1>2 DEF Pumped, Gapless, Holds, Settled
<1> QED BY <1>3, <1>4, <1>5 DEF Pumped, InHand, Holds

LEMMA FrameGoesOn ==
  ASSUME NEW w \in Ways, NEW p, NEW q, NEW f, NEW r, NEW s, NEW ps, NEW ab, NEW nt,
         Pumped(w, p, f, r, s, ps, ab, nt),
         \/ p = "hook" /\ q = "record"
         \/ p = "push" /\ q = "write"
  PROVE  Pumped(w, q, f, r, s, ps, ab, nt)
<1>1. PumpTyped(w, q, f, r, s, ps, ab, nt)
  BY DEF Pumped, PumpTyped, PumpSteps
<1>2. InHand(w, q, f, r, s, ps, ab, nt)
  BY DEF Pumped, InHand, Holds
<1>3. Faithful(w, q, f, r, s, ps, ab, nt)
  BY DEF Pumped, Faithful
<1>4. Gapless(w, q, f, r, s, ps, ab, nt)
  BY DEF Pumped, Gapless, Holds
<1> QED BY <1>1, <1>2, <1>3, <1>4 DEF Pumped

LEMMA MessageIsNoted ==
  ASSUME NEW w \in Ways, NEW p, NEW f, NEW r, NEW s, NEW ps, NEW ab, NEW nt, NEW m \in Messages,
         Pumped(w, p, f, r, s, ps, ab, nt)
  PROVE  /\ Pumped(w, p, f, r, s, ps, ab, Append(nt, m))
         /\ (p = "record" /\ m = <<w, f.n>>) => Pumped(w, "push", f, r, s, ps, ab, Append(nt, m))
<1> DEFINE mt == Append(nt, m)
<1>1. PumpTyped(w, p, f, r, s, ps, ab, nt) /\ InHand(w, p, f, r, s, ps, ab, nt)
  BY DEF Pumped
<1>2. mt \in Seq(Messages) /\ Contains(mt, m) /\ \A e : Contains(nt, e) => Contains(mt, e)
  BY <1>1, ContainsGrows DEF PumpTyped
<1> HIDE DEF mt
<1>3. Pumped(w, p, f, r, s, ps, ab, mt)
  <2>1. PumpTyped(w, p, f, r, s, ps, ab, mt)
    BY <1>1, <1>2 DEF PumpTyped
  <2>2. InHand(w, p, f, r, s, ps, ab, mt)
    BY <1>1, <1>2 DEF InHand
  <2>3. Faithful(w, p, f, r, s, ps, ab, mt)
    BY <1>2 DEF Pumped, Faithful
  <2>4. Gapless(w, p, f, r, s, ps, ab, mt)
    BY DEF Pumped, Gapless
  <2> QED BY <2>1, <2>2, <2>3, <2>4 DEF Pumped
<1>4. ASSUME p = "record", m = <<w, f.n>> PROVE Pumped(w, "push", f, r, s, ps, ab, mt)
  <2>1. PumpTyped(w, "push", f, r, s, ps, ab, mt)
    BY <1>1, <1>2 DEF PumpTyped, PumpSteps
  <2>2. InHand(w, "push", f, r, s, ps, ab, mt)
    BY <1>1, <1>2, <1>4 DEF InHand, Holds
  <2>3. Faithful(w, "push", f, r, s, ps, ab, mt)
    BY <1>2, <1>4 DEF Pumped, Faithful
  <2>4. Gapless(w, "push", f, r, s, ps, ab, mt)
    BY <1>4 DEF Pumped, Gapless, Holds
  <2> QED BY <2>1, <2>2, <2>3, <2>4 DEF Pumped
<1> QED BY <1>3, <1>4 DEF mt

LEMMA FrameIsWritten ==
  ASSUME NEW w \in Ways, NEW f, NEW r, NEW s, NEW ps, NEW ab, NEW nt, NEW q,
         Pumped(w, "write", f, r, s, ps, ab, nt),
         q = IF f.op = "close" THEN "done" ELSE "read"
  PROVE  Pumped(w, q, f, r, s, Append(ps, f), ab, nt)
<1> DEFINE qs == Append(ps, f)
<1>1. PumpTyped(w, "write", f, r, s, ps, ab, nt) /\ InHand(w, "write", f, r, s, ps, ab, nt)
  BY DEF Pumped
<1>2. /\ f.n = r /\ r \in Nat /\ r > 0 /\ f.op = s[r].op /\ f.fin = s[r].fin
      /\ Len(ps) < r /\ r \notin ab /\ \A i \in 1..Len(ps) : ps[i].n < r
      /\ IsData(f) => Contains(nt, <<w, r>>)
  BY <1>1, LenProperties DEF PumpTyped, InHand, Holds
<1>3. /\ Len(ps) \in Nat /\ qs \in Seq(Frames) /\ Len(qs) = Len(ps) + 1
      /\ \A i \in 1..Len(ps) : qs[i] = ps[i]
      /\ qs[Len(ps) + 1] = f
  BY <1>1, AppendFacts DEF PumpTyped
<1> HIDE DEF qs
<1>4. PumpTyped(w, q, f, r, s, qs, ab, nt)
  BY <1>1, <1>2, <1>3 DEF PumpTyped, PumpSteps
<1>5. Faithful(w, q, f, r, s, qs, ab, nt)
  <2> SUFFICES ASSUME NEW i \in 1..(Len(ps) + 1)
               PROVE  /\ qs[i].n \in 1..r /\ qs[i].n \notin ab
                      /\ qs[i].op = s[qs[i].n].op /\ qs[i].fin = s[qs[i].n].fin
                      /\ IsData(qs[i]) => Contains(nt, <<w, qs[i].n>>)
                      /\ qs[i].op = "close" => (i = Len(ps) + 1 /\ q = "done")
      BY <1>3 DEF Faithful
  <2>1. CASE i \in 1..Len(ps)
    BY <1>3, <2>1 DEF Pumped, Faithful
  <2>2. CASE i = Len(ps) + 1
    BY <1>2, <1>3, <2>2
  <2> QED BY <1>3, <2>1, <2>2
<1>6. Gapless(w, q, f, r, s, qs, ab, nt)
  <2>0. /\ \A i, j \in 1..Len(ps) : i < j => ps[i].n < ps[j].n
        /\ \A i \in 1..Len(ps) : \A n \in 1..(ps[i].n - 1) : Settled(n, i - 1, ps, ab)
        /\ \A n \in 1..r : n = r \/ Settled(n, Len(ps), ps, ab)
    BY DEF Pumped, Gapless, Holds
  <2>1. \A i, j \in 1..Len(qs) : i < j => qs[i].n < qs[j].n
    BY <1>2, <1>3, <2>0
  <2>2. ASSUME NEW n, NEW k \in 0..Len(ps), Settled(n, k, ps, ab) PROVE Settled(n, k, qs, ab)
    BY <1>3, <2>2 DEF Settled
  <2>3. ASSUME NEW i \in 1..Len(qs), NEW n \in 1..(qs[i].n - 1) PROVE Settled(n, i - 1, qs, ab)
    <3>1. CASE i \in 1..Len(ps)
      BY <1>3, <2>0, <2>2, <3>1
    <3>2. CASE i = Len(ps) + 1
      <4>1. n \in 1..r /\ n # r /\ i - 1 = Len(ps) /\ Len(ps) \in 0..Len(ps)
        BY <1>2, <1>3, <3>2
      <4> QED BY <2>0, <2>2, <4>1
    <3> QED BY <1>3, <3>1, <3>2
  <2>4. ASSUME NEW n \in 1..r PROVE Settled(n, Len(qs), qs, ab)
    <3>1. CASE n = r
      BY <1>2, <1>3, <3>1 DEF Settled
    <3>2. CASE n # r
      BY <1>3, <2>0, <3>2 DEF Settled
    <3> QED BY <3>1, <3>2
  <2> QED BY <2>1, <2>3, <2>4 DEF Gapless
<1>7. InHand(w, q, f, r, s, qs, ab, nt)
  BY DEF InHand, Holds
<1> QED BY <1>4, <1>5, <1>6, <1>7 DEF Pumped, qs

LEMMA PumpIsDone ==
  ASSUME NEW w \in Ways, NEW p, NEW f, NEW r, NEW s, NEW ps, NEW ab, NEW nt,
         Pumped(w, p, f, r, s, ps, ab, nt)
  PROVE  Pumped(w, "done", f, r, s, ps, ab, nt)
<1>1. PumpTyped(w, "done", f, r, s, ps, ab, nt) /\ InHand(w, "done", f, r, s, ps, ab, nt)
  BY DEF Pumped, PumpTyped, PumpSteps, InHand, Holds
<1>2. Faithful(w, "done", f, r, s, ps, ab, nt) /\ Gapless(w, "done", f, r, s, ps, ab, nt)
  BY DEF Pumped, Faithful, Gapless
<1> QED BY <1>1, <1>2 DEF Pumped

LEMMA FrameIsSent ==
  ASSUME NEW w \in Ways, NEW p, NEW f, NEW r, NEW s, NEW ps, NEW ab, NEW nt, NEW shape \in Shapes,
         Pumped(w, p, f, r, s, ps, ab, nt), Len(s) < MaxWsFrames[w]
  PROVE  Pumped(w, p, f, r, Append(s, shape), ps, ab, nt)
<1> DEFINE t == Append(s, shape)
<1>1. PumpTyped(w, p, f, r, s, ps, ab, nt)
  BY DEF Pumped
<1>2. /\ t \in Seq(Shapes) /\ Len(t) = Len(s) + 1 /\ Len(s) \in Nat
      /\ \A i \in 1..Len(s) : t[i] = s[i]
  BY <1>1, AppendFacts DEF PumpTyped
<1>3. r \in 0..Len(s) /\ MaxWsFrames[w] \in Nat
  BY <1>1, WebSocketAssumption DEF PumpTyped
<1> HIDE DEF t
<1>4. PumpTyped(w, p, f, r, t, ps, ab, nt)
  BY <1>1, <1>2, <1>3 DEF PumpTyped
<1>5. InHand(w, p, f, r, t, ps, ab, nt)
  BY <1>2, <1>3 DEF Pumped, InHand
<1>6. Faithful(w, p, f, r, t, ps, ab, nt)
  <2>1. \A i \in 1..Len(ps) : ps[i].n \in 1..r
    BY DEF Pumped, Faithful
  <2>2. \A i \in 1..Len(ps) : t[ps[i].n] = s[ps[i].n]
    BY <1>2, <1>3, <2>1
  <2> QED BY <2>2 DEF Pumped, Faithful
<1>7. Gapless(w, p, f, r, t, ps, ab, nt)
  BY DEF Pumped, Gapless
<1> QED BY <1>4, <1>5, <1>6, <1>7 DEF Pumped, t

LEMMA PumpsStart ==
  ASSUME NEW w \in Ways, NEW f, NEW r, NEW s, NEW ps, NEW ab, NEW nt,
         Pumped(w, "off", f, r, s, ps, ab, nt)
  PROVE  Pumped(w, "read", f, r, s, ps, ab, nt)
<1>1. PumpTyped(w, "read", f, r, s, ps, ab, nt) /\ InHand(w, "read", f, r, s, ps, ab, nt)
  BY DEF Pumped, PumpTyped, PumpSteps, InHand, Holds
<1>2. Faithful(w, "read", f, r, s, ps, ab, nt) /\ Gapless(w, "read", f, r, s, ps, ab, nt)
  BY DEF Pumped, Faithful, Gapless, Holds
<1> QED BY <1>1, <1>2 DEF Pumped

(* Adding a message to the session: the oldest goes when it is full.       *)
LEMMA WindowMoves ==
  ASSUME NEW messages, NEW nt \in Seq(Messages), NEW m \in Messages, Windowed(messages, nt)
  PROVE  /\ messages \in Seq(Messages)
         /\ Windowed(KeptMessages(Append(messages, m)), Append(nt, m))
         /\ KeptMessages(Append(messages, m)) \in Seq(Messages)
<1>1. WsWindow \in Nat /\ WsWindow > 0
  BY WebSocketAssumption
<1>2. messages = LastOf(nt, WsWindow)
  BY DEF Windowed, LastOf
<1>3. /\ messages \in Seq(Messages) /\ Cut(Append(messages, m), WsWindow) \in Seq(Messages)
      /\ Cut(Append(messages, m), WsWindow) = LastOf(Append(nt, m), WsWindow)
  BY <1>1, <1>2, LastMoves
<1>4. KeptMessages(Append(messages, m)) = Cut(Append(messages, m), WsWindow)
  BY DEF KeptMessages, Cut
<1> QED BY <1>3, <1>4 DEF Windowed, LastOf

(* A step of one pump leaves the other one alone.                          *)
LEMMA OnePumps ==
  ASSUME NEW w \in Ways, WsInv, noted' = noted, PumpOf(w)',
         \A v \in Ways \ {w} :
           /\ pump'[v] = pump[v] /\ frame'[v] = frame[v] /\ framesRead'[v] = framesRead[v]
           /\ sentFrames'[v] = sentFrames[v] /\ passed'[v] = passed[v] /\ aborted'[v] = aborted[v]
  PROVE  \A v \in Ways : PumpOf(v)'
<1>1. ASSUME NEW v \in Ways, v # w PROVE PumpOf(v)'
  BY <1>1 DEF WsInv, PumpOf
<1> QED BY <1>1

(* The recorder's steps leave the pumps alone.                             *)
LEMMA PumpsRest ==
  ASSUME WsInv, UNCHANGED <<pump, frameVars, noted>>
  PROVE  \A v \in Ways : PumpOf(v)'
  BY DEF WsInv, PumpOf, frameVars

LEMMA SessionTyped ==
  ASSUME NEW s \in WsSession, NEW b \in BOOLEAN
  PROVE  /\ [s EXCEPT !.open = b] \in WsSession /\ [s EXCEPT !.open = b].open = b
         /\ [s EXCEPT !.open = b].count = s.count /\ [s EXCEPT !.open = b].messages = s.messages
         /\ [s EXCEPT !.process = b] \in WsSession /\ [s EXCEPT !.process = b].open = s.open
         /\ [s EXCEPT !.process = b].count = s.count
         /\ [s EXCEPT !.process = b].messages = s.messages
  BY DEF WsSession

LEMMA SessionGrows ==
  ASSUME NEW s \in WsSession, NEW m \in Messages, NEW nt \in Seq(Messages),
         s.count = Len(nt), Windowed(s.messages, nt)
  PROVE  LET t == [s EXCEPT !.count = @ + 1, !.messages = KeptMessages(Append(@, m))] IN
         /\ t \in WsSession /\ t.count = Len(Append(nt, m)) /\ Windowed(t.messages, Append(nt, m))
         /\ t.open = s.open
<1> DEFINE kept1 == KeptMessages(Append(s.messages, m))
           t == [s EXCEPT !.count = @ + 1, !.messages = kept1]
<1>1. kept1 \in Seq(Messages) /\ Windowed(kept1, Append(nt, m))
  BY WindowMoves
<1>2. Len(Append(nt, m)) = Len(nt) + 1 /\ Len(nt) \in Nat
  BY AppendFacts
<1> HIDE DEF kept1
<1>3. s.count + 1 \in Nat
  BY <1>2
<1>4. t \in WsSession /\ t.count = s.count + 1 /\ t.messages = kept1 /\ t.open = s.open
  BY <1>1, <1>3 DEF WsSession, Messages
<1> QED BY <1>1, <1>2, <1>4 DEF kept1

LEMMA BeginKeeps ==
  ASSUME WsInv, BeginFrames
  PROVE  WsInv'
<1>0. WsTyped /\ Noting /\ Ending /\ \A v \in Ways : PumpOf(v)
  BY DEF WsInv
<1>1. WsTyped'
  <2>1. kept' \in WsSession
    BY DEF BeginFrames, WsSession
  <2>2. pump' \in [Ways -> PumpSteps]
    BY DEF BeginFrames, PumpSteps
  <2> QED BY <1>0, <2>1, <2>2 DEF WsTyped, BeginFrames, frameVars
<1>2. \A v \in Ways : PumpOf(v)'
  <2> SUFFICES ASSUME NEW v \in Ways PROVE PumpOf(v)'
      OBVIOUS
  <2>1. Pumped(v, "off", frame[v], framesRead[v], sentFrames[v], passed[v], aborted[v], noted)
    BY <1>0 DEF Noting, BeginFrames, PumpOf
  <2>2. Pumped(v, "read", frame[v], framesRead[v], sentFrames[v], passed[v], aborted[v], noted)
    BY <2>1, PumpsStart
  <2> QED BY <2>2 DEF BeginFrames, frameVars, PumpOf
<1>3. Noting'
  <2>1. session' \in WsSession /\ session'.count = 0 /\ session'.messages = <<>>
    BY DEF BeginFrames, WsSession
  <2>2. noted' = <<>> /\ main' = "wait"
    BY <1>0 DEF Noting, BeginFrames
  <2>3. Windowed(<<>>, <<>>)
    BY WebSocketAssumption DEF Windowed
  <2> QED BY <2>1, <2>2, <2>3 DEF Noting
<1>4. Ending'
  BY <1>0 DEF Ending, WsTyped, BeginFrames, frameVars
<1> QED BY <1>1, <1>2, <1>3, <1>4 DEF WsInv

LEMMA CloseSessionKeeps ==
  ASSUME WsInv, CloseSession
  PROVE  WsInv'
<1>0. WsTyped /\ Noting /\ Ending /\ \A v \in Ways : PumpOf(v)
  BY DEF WsInv
<1>1. WsTyped'
  <2>1. session \in WsSession
    BY <1>0 DEF Noting, CloseSession
  <2>2. [session EXCEPT !.open = FALSE] \in WsSession
    BY <2>1, SessionTyped
  <2> QED BY <1>0, <2>2 DEF WsTyped, CloseSession, SnapshotBy, frameVars
<1>2. \A v \in Ways : PumpOf(v)'
  BY PumpsRest DEF CloseSession
<1>3. Noting'
  <2>1. session \in WsSession /\ session' = [session EXCEPT !.open = FALSE]
    BY <1>0 DEF Noting, CloseSession, SnapshotBy
  <2>2. /\ session' \in WsSession /\ session'.count = session.count
        /\ session'.messages = session.messages
    BY <2>1, SessionTyped
  <2> QED BY <1>0, <2>2 DEF Noting, CloseSession
<1>4. Ending'
  <2>1. session \in WsSession /\ session' = [session EXCEPT !.open = FALSE]
    BY <1>0 DEF Noting, CloseSession, SnapshotBy
  <2>2. ~session'.open
    BY <2>1, SessionTyped
  <2>3. cut
    BY <1>0 DEF Ending, CloseSession, Ways
  <2> QED BY <1>0, <2>2, <2>3 DEF Ending, CloseSession, frameVars
<1> QED BY <1>1, <1>2, <1>3, <1>4 DEF WsInv

LEMMA PushClosedKeeps ==
  ASSUME WsInv, PushClosed
  PROVE  WsInv'
<1>0. WsTyped /\ Noting /\ Ending /\ \A v \in Ways : PumpOf(v)
  BY DEF WsInv
<1>1. WsTyped'
  <2>1. copy' \in [Recorders -> WsSession \cup {<<>>}] /\ kept' \in WsSession \cup {<<>>}
    BY <1>0 DEF WsTyped, PushClosed, HandOver, Recorders
  <2> QED BY <1>0, <2>1 DEF WsTyped, PushClosed, frameVars
<1>2. \A v \in Ways : PumpOf(v)'
  BY PumpsRest DEF PushClosed
<1>3. Noting'
  BY <1>0 DEF Noting, WsTyped, PushClosed, HandOver, frameVars
<1>4. Ending'
  BY <1>0 DEF Ending, WsTyped, PushClosed, HandOver, frameVars
<1> QED BY <1>1, <1>2, <1>3, <1>4 DEF WsInv

LEMMA SetProcessKeeps ==
  ASSUME WsInv, SetProcess
  PROVE  WsInv'
<1>0. WsTyped /\ Noting /\ Ending /\ \A v \in Ways : PumpOf(v)
  BY DEF WsInv
<1>1. WsTyped'
  <2>1. session \in WsSession
    BY <1>0 DEF Noting, SetProcess
  <2>2. [session EXCEPT !.process = TRUE] \in WsSession
    BY <2>1, SessionTyped
  <2> QED BY <1>0, <2>2 DEF WsTyped, SetProcess, SnapshotBy, frameVars
<1>2. \A v \in Ways : PumpOf(v)'
  BY PumpsRest DEF SetProcess
<1>3. Noting'
  <2>1. session \in WsSession /\ main # "upgraded"
    BY <1>0 DEF Noting, SetProcess
  <2>2. \/ session' = session
        \/ session' = [session EXCEPT !.process = TRUE]
    BY DEF SetProcess, SnapshotBy
  <2>3. /\ session' \in WsSession /\ session'.count = session.count
        /\ session'.messages = session.messages
    <3>1. CASE session' = session
      BY <2>1, <3>1
    <3>2. CASE session' = [session EXCEPT !.process = TRUE]
      BY <2>1, <3>2, SessionTyped
    <3> QED BY <2>2, <3>1, <3>2
  <2> QED BY <1>0, <2>1, <2>3 DEF Noting, SetProcess
<1>4. Ending'
  <2>1. session \in WsSession
    BY <1>0 DEF Noting, SetProcess
  <2>2. CASE session' = session
    BY <1>0, <2>2 DEF Ending, SetProcess, frameVars
  <2>3. CASE session' = [session EXCEPT !.process = TRUE]
    <3>1. session'.open = session.open
      BY <2>1, <2>3, SessionTyped
    <3> QED BY <1>0, <3>1 DEF Ending, SetProcess, frameVars
  <2> QED BY <2>2, <2>3 DEF SetProcess, SnapshotBy
<1> QED BY <1>1, <1>2, <1>3, <1>4 DEF WsInv

LEMMA PushProcessKeeps ==
  ASSUME WsInv, PushProcess
  PROVE  WsInv'
<1>0. WsTyped /\ Noting /\ Ending /\ \A v \in Ways : PumpOf(v)
  BY DEF WsInv
<1>1. WsTyped'
  <2>1. copy' \in [Recorders -> WsSession \cup {<<>>}] /\ kept' \in WsSession \cup {<<>>}
    BY <1>0 DEF WsTyped, PushProcess, HandOver, Recorders
  <2> QED BY <1>0, <2>1 DEF WsTyped, PushProcess, frameVars
<1>2. \A v \in Ways : PumpOf(v)'
  BY PumpsRest DEF PushProcess
<1>3. Noting'
  BY <1>0 DEF Noting, WsTyped, PushProcess, HandOver, frameVars
<1>4. Ending'
  BY <1>0 DEF Ending, WsTyped, PushProcess, HandOver, frameVars
<1> QED BY <1>1, <1>2, <1>3, <1>4 DEF WsInv

LEMMA ReadFrameKeeps ==
  ASSUME NEW w \in Ways, WsInv, ReadFrame(w)
  PROVE  WsInv'
<1>0. WsTyped /\ Noting /\ Ending /\ \A v \in Ways : PumpOf(v)
  BY DEF WsInv
<1>1. WsTyped'
  <2>1. Parsed(framesRead[w] + 1, sentFrames[w][framesRead[w] + 1]) \in Frames
    BY <1>0, FrameIsRead DEF ReadFrame, PumpOf
  <2>2. framesRead[w] + 1 \in Nat
    BY <1>0 DEF WsTyped
  <2> QED BY <1>0, <2>1, <2>2 DEF WsTyped, PumpSteps, ReadFrame, PumpAt
<1>2. \A v \in Ways : PumpOf(v)'
  <2>1. PumpOf(w)'
    <3> DEFINE n == framesRead[w] + 1
               g == Parsed(n, sentFrames[w][n])
    <3>1. pump[w] = "read" /\ n <= Len(sentFrames[w])
      BY DEF ReadFrame
    <3>2. Pumped(w, IF IsData(g) THEN "hook" ELSE "write", g, n, sentFrames[w], passed[w],
                 aborted[w], noted)
      BY <1>0, <3>1, FrameIsRead DEF PumpOf
    <3>3. frame'[w] = g /\ framesRead'[w] = n
      BY <1>0 DEF ReadFrame, WsTyped
    <3>4. pump'[w] = IF IsData(g) THEN "hook" ELSE "write"
      BY <1>0, <3>3 DEF ReadFrame, WsTyped, PumpAt
    <3> HIDE DEF g, n
    <3> QED BY <3>2, <3>3, <3>4 DEF PumpOf, ReadFrame
  <2> QED BY <1>0, <2>1, OnePumps DEF WsInv, WsTyped, ReadFrame, PumpAt, frameVars
<1>3. Noting'
  BY <1>0 DEF Noting, WsTyped, ReadFrame, PumpAt, frameVars
<1>4. Ending'
  BY <1>0 DEF Ending, WsTyped, ReadFrame, PumpAt, frameVars
<1> QED BY <1>1, <1>2, <1>3, <1>4 DEF WsInv

LEMMA ReadFrameFailsKeeps ==
  ASSUME NEW w \in Ways, WsInv, ReadFrameFails(w)
  PROVE  WsInv'
<1>0. WsTyped /\ Noting /\ Ending /\ \A v \in Ways : PumpOf(v)
  BY DEF WsInv
<1>1. WsTyped'
  BY <1>0 DEF WsTyped, PumpSteps, ReadFrameFails, PumpEnds, PumpAt, frameVars
<1>2. \A v \in Ways : PumpOf(v)'
  <2>1. PumpOf(w)'
    <3>1. Pumped(w, "done", frame[w], framesRead[w], sentFrames[w], passed[w], aborted[w], noted)
      BY <1>0, PumpIsDone DEF PumpOf
    <3>2. pump'[w] = "done"
      BY <1>0 DEF ReadFrameFails, PumpEnds, PumpAt, WsTyped
    <3> QED BY <3>1, <3>2 DEF PumpOf, ReadFrameFails, frameVars
  <2> QED BY <1>0, <2>1, OnePumps DEF WsInv, WsTyped, ReadFrameFails, PumpEnds, PumpAt, frameVars
<1>3. Noting'
  BY <1>0 DEF Noting, WsTyped, ReadFrameFails, PumpEnds, PumpAt, frameVars
<1>4. Ending'
  BY <1>0 DEF Ending, WsTyped, ReadFrameFails, PumpEnds, PumpAt, frameVars
<1> QED BY <1>1, <1>2, <1>3, <1>4 DEF WsInv

LEMMA WriteFrameFailsKeeps ==
  ASSUME NEW w \in Ways, WsInv, WriteFrameFails(w)
  PROVE  WsInv'
<1>0. WsTyped /\ Noting /\ Ending /\ \A v \in Ways : PumpOf(v)
  BY DEF WsInv
<1>1. WsTyped'
  BY <1>0 DEF WsTyped, PumpSteps, WriteFrameFails, PumpEnds, PumpAt, frameVars
<1>2. \A v \in Ways : PumpOf(v)'
  <2>1. PumpOf(w)'
    <3>1. Pumped(w, "done", frame[w], framesRead[w], sentFrames[w], passed[w], aborted[w], noted)
      BY <1>0, PumpIsDone DEF PumpOf
    <3>2. pump'[w] = "done"
      BY <1>0 DEF WriteFrameFails, PumpEnds, PumpAt, WsTyped
    <3> QED BY <3>1, <3>2 DEF PumpOf, WriteFrameFails, frameVars
  <2> QED BY <1>0, <2>1, OnePumps DEF WsInv, WsTyped, WriteFrameFails, PumpEnds, PumpAt, frameVars
<1>3. Noting'
  BY <1>0 DEF Noting, WsTyped, WriteFrameFails, PumpEnds, PumpAt, frameVars
<1>4. Ending'
  BY <1>0 DEF Ending, WsTyped, WriteFrameFails, PumpEnds, PumpAt, frameVars
<1> QED BY <1>1, <1>2, <1>3, <1>4 DEF WsInv

LEMMA FrameHookKeeps ==
  ASSUME NEW w \in Ways, WsInv, FrameHook(w)
  PROVE  WsInv'
<1>0. WsTyped /\ Noting /\ Ending /\ \A v \in Ways : PumpOf(v)
  BY DEF WsInv
<1>1. WsTyped'
  <2>1. frame[w].n \in Nat
    BY <1>0 DEF WsTyped, Frames
  <2>2. aborted[w] \cup {frame[w].n} \in SUBSET Nat
    BY <1>0, <2>1 DEF WsTyped
  <2>3. aborted' \in [Ways -> SUBSET Nat]
    BY <1>0, <2>2 DEF WsTyped, FrameHook
  <2> QED BY <1>0, <2>3 DEF WsTyped, PumpSteps, FrameHook, PumpAt
<1>2. \A v \in Ways : PumpOf(v)'
  <2>1. PumpOf(w)'
    <3>0. Pumped(w, "hook", frame[w], framesRead[w], sentFrames[w], passed[w], aborted[w], noted)
      BY <1>0 DEF PumpOf, FrameHook
    <3>1. CASE PumpAt(w, "record") /\ UNCHANGED aborted
      <4>1. Pumped(w, "record", frame[w], framesRead[w], sentFrames[w], passed[w], aborted[w],
                   noted)
        BY <3>0, FrameGoesOn
      <4> QED BY <1>0, <3>1, <4>1 DEF PumpOf, FrameHook, PumpAt, WsTyped
    <3>2. CASE PumpAt(w, "read") /\ aborted' = [aborted EXCEPT ![w] = @ \cup {frame[w].n}]
      <4>1. Pumped(w, "read", frame[w], framesRead[w], sentFrames[w], passed[w],
                   aborted[w] \cup {frame[w].n}, noted)
        BY <3>0, FrameIsAborted
      <4> QED BY <1>0, <3>2, <4>1 DEF PumpOf, FrameHook, PumpAt, WsTyped
    <3> QED BY <3>1, <3>2 DEF FrameHook
  <2> QED BY <1>0, <2>1, OnePumps DEF WsInv, WsTyped, FrameHook, PumpAt, frameVars
<1>3. Noting'
  BY <1>0 DEF Noting, WsTyped, FrameHook, PumpAt, frameVars
<1>4. Ending'
  BY <1>0 DEF Ending, WsTyped, FrameHook, PumpAt, frameVars
<1> QED BY <1>1, <1>2, <1>3, <1>4 DEF WsInv

LEMMA RecordFrameKeeps ==
  ASSUME NEW w \in Ways, WsInv, RecordFrame(w)
  PROVE  WsInv'
<1>0. WsTyped /\ Noting /\ Ending /\ \A v \in Ways : PumpOf(v)
  BY DEF WsInv
<1>a. /\ session' \in WsSession /\ session'.count = Len(noted')
      /\ Windowed(session'.messages, noted') /\ session'.open = session.open
      /\ main # "upgraded" /\ <<w, frame[w].n>> \in Messages
      /\ noted \in Seq(Messages) /\ noted' = Append(noted, <<w, frame[w].n>>)
  <2>1. main # "upgraded"
    BY <1>0 DEF Noting, RecordFrame, Ways
  <2>2. <<w, frame[w].n>> \in Messages /\ noted \in Seq(Messages)
    BY <1>0 DEF WsTyped, Frames, Messages
  <2>3. session \in WsSession /\ session.count = Len(noted) /\ Windowed(session.messages, noted)
    BY <1>0, <2>1 DEF Noting
  <2> QED BY <2>1, <2>2, <2>3, SessionGrows DEF RecordFrame, SnapshotBy
<1>1. WsTyped'
  <2>1. session' \in WsSession /\ noted' \in Seq(Messages)
    BY <1>a, AppendFacts DEF RecordFrame, SnapshotBy
  <2> QED BY <1>0, <2>1 DEF WsTyped, PumpSteps, RecordFrame, PumpAt, SnapshotBy, frameVars,
     Recorders
<1>2. \A v \in Ways : PumpOf(v)'
  <2> DEFINE m == <<w, frame[w].n>>
  <2>0. m \in Messages /\ noted' = Append(noted, m)
    BY <1>0 DEF WsTyped, Frames, Messages, RecordFrame
  <2>1. ASSUME NEW v \in Ways, v # w PROVE PumpOf(v)'
    <3>1. Pumped(v, pump[v], frame[v], framesRead[v], sentFrames[v], passed[v], aborted[v],
                 Append(noted, m))
      BY <1>0, <2>0, MessageIsNoted DEF PumpOf
    <3>2. pump'[v] = pump[v]
      BY <1>0, <2>1 DEF RecordFrame, PumpAt, WsTyped
    <3> QED BY <2>0, <3>1, <3>2 DEF PumpOf, RecordFrame, frameVars
  <2>2. PumpOf(w)'
    <3>1. Pumped(w, "push", frame[w], framesRead[w], sentFrames[w], passed[w], aborted[w],
                 Append(noted, m))
      BY <1>0, <2>0, MessageIsNoted DEF PumpOf, RecordFrame
    <3>2. pump'[w] = "push"
      BY <1>0 DEF RecordFrame, PumpAt, WsTyped
    <3> QED BY <2>0, <3>1, <3>2 DEF PumpOf, RecordFrame, frameVars
  <2> QED BY <2>1, <2>2
<1>3. Noting'
  BY <1>a DEF Noting, RecordFrame
<1>4. Ending'
  BY <1>0, <1>a DEF Ending, WsTyped, RecordFrame, PumpAt, frameVars
<1> QED BY <1>1, <1>2, <1>3, <1>4 DEF WsInv

LEMMA PushFrameKeeps ==
  ASSUME NEW w \in Ways, WsInv, PushFrame(w)
  PROVE  WsInv'
<1>0. WsTyped /\ Noting /\ Ending /\ \A v \in Ways : PumpOf(v)
  BY DEF WsInv
<1>1. WsTyped'
  BY <1>0 DEF WsTyped, PumpSteps, PushFrame, PumpAt, HandOver, frameVars, Recorders
<1>2. \A v \in Ways : PumpOf(v)'
  <2>1. PumpOf(w)'
    <3>1. Pumped(w, "write", frame[w], framesRead[w], sentFrames[w], passed[w], aborted[w], noted)
      BY <1>0, FrameGoesOn DEF PumpOf, PushFrame
    <3>2. pump'[w] = "write"
      BY <1>0 DEF PushFrame, PumpAt, WsTyped
    <3> QED BY <3>1, <3>2 DEF PumpOf, PushFrame, frameVars
  <2> QED BY <1>0, <2>1, OnePumps DEF WsInv, WsTyped, PushFrame, PumpAt, frameVars
<1>3. Noting'
  BY <1>0 DEF Noting, WsTyped, PushFrame, PumpAt, HandOver, frameVars
<1>4. Ending'
  BY <1>0 DEF Ending, WsTyped, PushFrame, PumpAt, HandOver, frameVars
<1> QED BY <1>1, <1>2, <1>3, <1>4 DEF WsInv

LEMMA WriteFrameKeeps ==
  ASSUME NEW w \in Ways, WsInv, WriteFrame(w)
  PROVE  WsInv'
<1>0. WsTyped /\ Noting /\ Ending /\ \A v \in Ways : PumpOf(v)
  BY DEF WsInv
<1>1. WsTyped'
  <2>1. Append(passed[w], frame[w]) \in Seq(Frames)
    BY <1>0, AppendFacts DEF WsTyped
  <2> QED BY <1>0, <2>1 DEF WsTyped, PumpSteps, WriteFrame, PumpAt, PumpEnds
<1>2. \A v \in Ways : PumpOf(v)'
  <2>1. PumpOf(w)'
    <3> DEFINE q == IF frame[w].op = "close" THEN "done" ELSE "read"
    <3>1. Pumped(w, q, frame[w], framesRead[w], sentFrames[w], Append(passed[w], frame[w]),
                 aborted[w], noted)
      BY <1>0, FrameIsWritten DEF PumpOf, WriteFrame
    <3>2. pump'[w] = q /\ passed'[w] = Append(passed[w], frame[w])
      BY <1>0 DEF WriteFrame, PumpAt, PumpEnds, WsTyped
    <3> HIDE DEF q
    <3> QED BY <3>1, <3>2 DEF PumpOf, WriteFrame
  <2> QED BY <1>0, <2>1, OnePumps DEF WsInv, WsTyped, WriteFrame, PumpAt, PumpEnds, frameVars
<1>3. Noting'
  BY <1>0 DEF Noting, WsTyped, WriteFrame, PumpAt, PumpEnds, frameVars
<1>4. Ending'
  BY <1>0 DEF Ending, WsTyped, WriteFrame, PumpAt, PumpEnds, frameVars
<1> QED BY <1>1, <1>2, <1>3, <1>4 DEF WsInv

LEMMA PeerHangsUpKeeps ==
  ASSUME NEW w \in Ways, WsInv, PeerHangsUp(w)
  PROVE  WsInv'
<1>0. WsTyped /\ Noting /\ Ending /\ \A v \in Ways : PumpOf(v)
  BY DEF WsInv
<1>1. WsTyped'
  BY <1>0 DEF WsTyped, PumpSteps, PeerHangsUp, frameVars
<1>2. \A v \in Ways : PumpOf(v)'
  BY PumpsRest DEF PeerHangsUp, frameVars, WsInv, PumpOf
<1>3. Noting'
  BY <1>0 DEF Noting, WsTyped, PeerHangsUp, frameVars
<1>4. Ending'
  BY <1>0 DEF Ending, WsTyped, PeerHangsUp, frameVars
<1> QED BY <1>1, <1>2, <1>3, <1>4 DEF WsInv

LEMMA PeerSendsKeeps ==
  ASSUME NEW w \in Ways, NEW shape \in Shapes, WsInv, PeerSends(w, shape)
  PROVE  WsInv'
<1>0. WsTyped /\ Noting /\ Ending /\ \A v \in Ways : PumpOf(v)
  BY DEF WsInv
<1>1. WsTyped'
  <2>1. Append(sentFrames[w], shape) \in Seq(Shapes)
    BY <1>0, AppendFacts DEF WsTyped
  <2> QED BY <1>0, <2>1 DEF WsTyped, PeerSends
<1>2. \A v \in Ways : PumpOf(v)'
  <2>1. PumpOf(w)'
    <3>1. Pumped(w, pump[w], frame[w], framesRead[w], Append(sentFrames[w], shape), passed[w],
                 aborted[w], noted)
      BY <1>0, FrameIsSent DEF PumpOf, PeerSends
    <3>2. sentFrames'[w] = Append(sentFrames[w], shape)
      BY <1>0 DEF PeerSends, WsTyped
    <3> QED BY <3>1, <3>2 DEF PumpOf, PeerSends
  <2> QED BY <1>0, <2>1, OnePumps DEF WsInv, WsTyped, PeerSends, frameVars
<1>3. Noting'
  BY <1>0 DEF Noting, WsTyped, PeerSends, frameVars
<1>4. Ending'
  BY <1>0 DEF Ending, WsTyped, PeerSends, frameVars
<1> QED BY <1>1, <1>2, <1>3, <1>4 DEF WsInv

LEMMA WsStep == WsInv /\ [WsNext]_wsVars => WsInv'
<1> SUFFICES ASSUME WsInv, [WsNext]_wsVars PROVE WsInv'
    OBVIOUS
<1>1. CASE BeginFrames \/ CloseSession \/ PushClosed \/ SetProcess \/ PushProcess
  BY <1>1, BeginKeeps, CloseSessionKeeps, PushClosedKeeps, SetProcessKeeps, PushProcessKeeps
<1>2. ASSUME NEW w \in Ways, PumpRuns(w) \/ WriteFrame(w) \/ WriteFrameFails(w) \/ PeerHangsUp(w)
      PROVE  WsInv'
  BY <1>2, ReadFrameKeeps, ReadFrameFailsKeeps, FrameHookKeeps, RecordFrameKeeps, PushFrameKeeps,
     WriteFrameKeeps, WriteFrameFailsKeeps, PeerHangsUpKeeps DEF PumpRuns
<1>3. ASSUME NEW w \in Ways, NEW shape \in Shapes, PeerSends(w, shape) PROVE WsInv'
  BY <1>3, PeerSendsKeeps
<1>4. CASE UNCHANGED wsVars
  <2>1. \A v \in Ways : PumpOf(v)'
    BY <1>4, PumpsRest DEF wsVars
  <2>2. WsTyped'
    BY <1>4 DEF wsVars, frameVars, WsInv, WsTyped
  <2>3. Noting' /\ Ending'
    BY <1>4 DEF wsVars, frameVars, WsInv, Noting, Ending
  <2> QED BY <2>1, <2>2, <2>3 DEF WsInv
<1> QED BY <1>1, <1>2, <1>3, <1>4 DEF WsNext

LEMMA WsInitInv == WsInit => WsInv
<1> SUFFICES ASSUME WsInit PROVE WsInv
    OBVIOUS
<1>0. NoFrame \in Frames /\ <<>> \in Seq(Shapes) /\ <<>> \in Seq(Frames) /\ <<>> \in Seq(Messages)
  BY DEF NoFrame, Frames
<1>1. WsTyped
  BY <1>0 DEF WsInit, WsTyped, PumpSteps
<1>2. ASSUME NEW w \in Ways PROVE PumpOf(w)
  <2>1. /\ pump[w] = "off" /\ frame[w] = NoFrame /\ framesRead[w] = 0 /\ sentFrames[w] = <<>>
        /\ passed[w] = <<>> /\ aborted[w] = {} /\ noted = <<>>
    BY DEF WsInit
  <2>2. MaxWsFrames[w] \in Nat
    BY WebSocketAssumption
  <2>3. Pumped(w, "off", NoFrame, 0, <<>>, <<>>, {}, <<>>)
    <3>1. PumpTyped(w, "off", NoFrame, 0, <<>>, <<>>, {}, <<>>)
      BY <1>0, <2>2 DEF PumpTyped, PumpSteps
    <3>2. InHand(w, "off", NoFrame, 0, <<>>, <<>>, {}, <<>>)
      BY DEF InHand, Holds
    <3>3. Faithful(w, "off", NoFrame, 0, <<>>, <<>>, {}, <<>>)
      BY DEF Faithful
    <3>4. Gapless(w, "off", NoFrame, 0, <<>>, <<>>, {}, <<>>)
      BY DEF Gapless
    <3> QED BY <3>1, <3>2, <3>3, <3>4 DEF Pumped
  <2> QED BY <2>1, <2>3 DEF PumpOf
<1>3. Noting /\ Ending
  BY DEF WsInit, Noting, Ending
<1> QED BY <1>1, <1>2, <1>3 DEF WsInv

LEMMA InvGivesWs == WsInv => WebSocketSound
<1> SUFFICES ASSUME WsInv PROVE WebSocketSound
    OBVIOUS
<1>0. WsTyped /\ Noting /\ Ending /\ \A w \in Ways : PumpOf(w)
  BY DEF WsInv
<1>1. ASSUME NEW w \in Ways
      PROVE  /\ frame[w] = NoFrame \/ frame[w].n \in 1..MaxWsFrames[w]
             /\ framesRead[w] \in 0..Len(sentFrames[w]) /\ sentFrames[w] \in Seq(Shapes)
             /\ Len(passed[w]) <= framesRead[w] /\ aborted[w] \subseteq 1..framesRead[w]
  <2>1. PumpTyped(w, pump[w], frame[w], framesRead[w], sentFrames[w], passed[w], aborted[w], noted)
    BY <1>0 DEF PumpOf, Pumped
  <2>2. MaxWsFrames[w] \in Nat /\ Len(sentFrames[w]) \in Nat
    BY <2>1, WebSocketAssumption, LenProperties DEF PumpTyped
  <2> QED BY <2>1, <2>2 DEF PumpTyped
<1>2. WsTypeOK
  BY <1>0, <1>1 DEF WsTypeOK, WsTyped, PumpSteps, Noting
<1>3. ASSUME NEW w \in Ways
      PROVE  LET numbers == NumbersOf(passed[w]) IN
             /\ \A i \in DOMAIN passed[w] :
                  /\ passed[w][i].op = sentFrames[w][numbers[i]].op
                  /\ passed[w][i].fin = sentFrames[w][numbers[i]].fin
                  /\ IsData(passed[w][i]) => Contains(noted, <<w, numbers[i]>>)
                  /\ numbers[i] \notin aborted[w]
                  /\ passed[w][i].op = "close" => i = Len(passed[w])
                  /\ \A n \in 1..(numbers[i] - 1) :
                       n \in aborted[w] \/ \E j \in 1..(i - 1) : numbers[j] = n
             /\ \A i, j \in DOMAIN numbers : i < j => numbers[i] < numbers[j]
  <2> DEFINE nums == NumbersOf(passed[w])
  <2>1. /\ Faithful(w, pump[w], frame[w], framesRead[w], sentFrames[w], passed[w], aborted[w],
                    noted)
        /\ Gapless(w, pump[w], frame[w], framesRead[w], sentFrames[w], passed[w], aborted[w],
                   noted)
    BY <1>0 DEF PumpOf, Pumped
  <2>2. passed[w] \in Seq(Frames)
    BY <1>0 DEF WsTyped
  <2>3. /\ DOMAIN passed[w] = 1..Len(passed[w]) /\ Len(passed[w]) \in Nat
        /\ DOMAIN nums = 1..Len(passed[w])
        /\ \A i \in 1..Len(passed[w]) : nums[i] = passed[w][i].n
    BY <2>2, LenProperties DEF NumbersOf
  <2> HIDE DEF nums
  <2>4. ASSUME NEW i \in 1..Len(passed[w])
        PROVE  /\ passed[w][i].op = sentFrames[w][nums[i]].op
               /\ passed[w][i].fin = sentFrames[w][nums[i]].fin
               /\ IsData(passed[w][i]) => Contains(noted, <<w, nums[i]>>)
               /\ nums[i] \notin aborted[w]
               /\ passed[w][i].op = "close" => i = Len(passed[w])
    BY <2>1, <2>3 DEF Faithful
  <2>5. ASSUME NEW i \in 1..Len(passed[w]), NEW n \in 1..(nums[i] - 1)
        PROVE  n \in aborted[w] \/ \E j \in 1..(i - 1) : nums[j] = n
    <3>1. Settled(n, i - 1, passed[w], aborted[w])
      BY <2>1, <2>3 DEF Gapless
    <3> QED BY <2>3, <3>1 DEF Settled
  <2>6. \A i, j \in 1..Len(passed[w]) : i < j => nums[i] < nums[j]
    BY <2>1, <2>3 DEF Gapless
  <2> QED BY <2>3, <2>4, <2>5, <2>6 DEF nums
<1>4. ASSUME session # <<>>
      PROVE  /\ session.count = Len(noted)
             /\ session.messages = SubSeq(noted, Len(noted) - Len(session.messages) + 1, Len(noted))
             /\ Len(session.messages) = IF session.count < WsWindow THEN session.count ELSE WsWindow
  <2> DEFINE k == IF Len(noted) < WsWindow THEN Len(noted) ELSE WsWindow
  <2>1. session.count = Len(noted) /\ Windowed(session.messages, noted) /\ noted \in Seq(Messages)
    BY <1>0, <1>4 DEF Noting, WsTyped
  <2>2. WsWindow \in Nat /\ Len(noted) \in Nat
    BY <2>1, WebSocketAssumption, LenProperties
  <2>3. Len(noted) - k \in 0..Len(noted) /\ Len(noted) - (Len(noted) - k) = k
    BY <2>2
  <2>4. Len(SubSeq(noted, (Len(noted) - k) + 1, Len(noted))) = k
    BY <2>1, <2>3, SuffixElements
  <2>5. session.messages = SubSeq(noted, (Len(noted) - k) + 1, Len(noted))
    BY <2>1 DEF Windowed
  <2> QED BY <2>1, <2>4, <2>5
<1>5. main = "done" => (~session.open /\ cut)
  BY <1>0 DEF Ending
<1> QED BY <1>2, <1>3, <1>4, <1>5 DEF WebSocketSound

(* Frames are passed on in order and whole, nothing but what a hook        *)
(* aborted is missing, nothing follows a Close frame, and every frame of   *)
(* data was recorded before it went out (websocket.go:77); the session     *)
(* counts each message once, keeps the last ones and is closed in the end  *)
(* (pipeline.go:96): for every number of frames and every window.          *)
THEOREM WebSocketStaysSound == WsSpec => []WebSocketSound
<1>1. WsInit => WsInv
  BY WsInitInv
<1>2. WsInv /\ [WsNext]_wsVars => WsInv'
  BY WsStep
<1>3. WsInv => WebSocketSound
  BY InvGivesWs
<1> QED BY <1>1, <1>2, <1>3, PTL DEF WsSpec

-----------------------------------------------------------------------------
(* The event bus and the hub.                                              *)

Events == Publishers \X Nat

HubClients ==
  [read : {"none", "registering", "reading", "leaving", "gone"}, write : {"none", "writing", "gone"},
   open : BOOLEAN, send : Seq(Events), closed : BOOLEAN, got : Seq(Events), since : Nat]

Channels == [state : {"none", "open", "closed"}, buffer : Seq(Events)]

HubTyped ==
  /\ publisher \in [Publishers -> [begun : Nat, todo : SUBSET Subscribers]]
  /\ channel \in [Subscribers -> Channels]
  /\ taken \in [Subscribers -> Seq(Events)]
  /\ missed \in [Subscribers -> SUBSET Events]
  /\ client \in [Clients -> HubClients]
  /\ served \subseteq Clients
  /\ panicked = FALSE

(* Cancel waits for the publishers, so that they meet no closed channel.   *)
TodoOpen == \A p \in Publishers : \A s \in publisher[p].todo : channel[s].state = "open"

(* What a subscriber s has received and what waits for it are numbered as  *)
(* the publishers pub count, in order, and complete but for ms.            *)
Ordered(all) ==
  \A i, j \in DOMAIN all : (i < j /\ all[i][1] = all[j][1]) => all[i][2] < all[j][2]

Numbered(s, all, pub) ==
  \A i \in DOMAIN all :
    /\ all[i][2] <= pub[all[i][1]].begun
    /\ s \in pub[all[i][1]].todo => all[i][2] < pub[all[i][1]].begun

Complete(s, all, ms, pub) ==
  \A p \in Publishers : \A k \in 1..pub[p].begun :
    \/ <<p, k>> \in ms \cup ToSet(all)
    \/ k = pub[p].begun /\ s \in pub[p].todo

Delivered(s, all, ms, pub) == Ordered(all) /\ Numbered(s, all, pub) /\ Complete(s, all, ms, pub)

DeliveredTo(s) == Delivered(s, taken[s] \o channel[s].buffer, missed[s], publisher)

(* A client x has got, or will get, a run of the events h that the hub     *)
(* received; as long as the hub serves it, up to the last one.             *)
Behind(x, h) == x.since + Len(x.got \o x.send) <= Len(h)

RunOf(x, h) == \A i \in 1..Len(x.got \o x.send) : (x.got \o x.send)[i] = h[x.since + i]

Fed(x, h, c, srv) ==
  /\ Len(x.send) <= ClientBuffer
  /\ x.read \in {"none", "registering"} =>
       (x.send = <<>> /\ x.got = <<>> /\ ~x.closed /\ x.write = "none")
  /\ x.write = "writing" => (Behind(x, h) /\ RunOf(x, h))
  /\ c \in srv => (~x.closed /\ Behind(x, h) /\ x.read \in {"reading", "leaving"})
  /\ (c \in srv /\ x.write = "writing") => x.since + Len(x.got \o x.send) = Len(h)

FedClient(c) == Fed(client[c], taken["hub"], c, served)

HubInv ==
  /\ HubTyped /\ TodoOpen
  /\ \A s \in Subscribers : DeliveredTo(s)
  /\ \A c \in Clients : FedClient(c)

(* Moving the head of a buffer into what was taken, or appending to it.    *)
LEMMA HeadMoves ==
  ASSUME NEW S, NEW t \in Seq(S), NEW b \in Seq(S), b # <<>>
  PROVE  /\ Head(b) \in S /\ Tail(b) \in Seq(S) /\ Append(t, Head(b)) \in Seq(S)
         /\ Append(t, Head(b)) \o Tail(b) = t \o b
         /\ Len(Tail(b)) = Len(b) - 1 /\ Len(Append(t, Head(b))) = Len(t) + 1
<1>1. /\ Head(b) \in S /\ Tail(b) \in Seq(S) /\ Len(Tail(b)) = Len(b) - 1
      /\ \A i \in 1..Len(Tail(b)) : Tail(b)[i] = b[i + 1]
      /\ Head(b) = b[1] /\ Len(b) \in Nat /\ Len(b) > 0 /\ Len(t) \in Nat
  BY HeadTailProperties, LenProperties, EmptySeq
<1>2. /\ Append(t, Head(b)) \in Seq(S) /\ Len(Append(t, Head(b))) = Len(t) + 1
      /\ \A i \in 1..Len(t) : Append(t, Head(b))[i] = t[i]
      /\ Append(t, Head(b))[Len(t) + 1] = Head(b)
  BY <1>1, AppendFacts
<1> DEFINE a == Append(t, Head(b))
           r == Tail(b)
<1>3. /\ a \o r \in Seq(S) /\ Len(a \o r) = Len(a) + Len(r)
      /\ \A i \in 1..(Len(a) + Len(r)) :
           (a \o r)[i] = IF i <= Len(a) THEN a[i] ELSE r[i - Len(a)]
  BY <1>1, <1>2, ConcatProperties
<1>4. /\ t \o b \in Seq(S) /\ Len(t \o b) = Len(t) + Len(b)
      /\ \A i \in 1..(Len(t) + Len(b)) :
           (t \o b)[i] = IF i <= Len(t) THEN t[i] ELSE b[i - Len(t)]
  BY ConcatProperties
<1>5. Len(a) = Len(t) + 1 /\ Len(r) = Len(b) - 1 /\ a \in Seq(S) /\ r \in Seq(S)
      /\ (\A i \in 1..Len(t) : a[i] = t[i]) /\ a[Len(t) + 1] = b[1]
      /\ \A i \in 1..(Len(b) - 1) : r[i] = b[i + 1]
  BY <1>1, <1>2
<1> HIDE DEF a, r
<1>6. ASSUME NEW i \in 1..(Len(t) + Len(b)) PROVE (a \o r)[i] = (t \o b)[i]
  <2>1. CASE i <= Len(t)
    <3>1. i \in 1..Len(t) /\ i \in 1..(Len(a) + Len(r)) /\ i <= Len(a)
      BY <1>1, <1>5, <2>1
    <3>2. (a \o r)[i] = a[i] /\ (t \o b)[i] = t[i]
      BY <1>3, <1>4, <2>1, <3>1
    <3> QED BY <1>5, <3>1, <3>2
  <2>2. CASE i = Len(t) + 1
    BY <1>1, <1>3, <1>4, <1>5, <2>2
  <2>3. CASE i > Len(t) + 1
    <3> DEFINE j == i - (Len(t) + 1)
               k == i - Len(t)
    <3>1. j \in 1..(Len(b) - 1) /\ j + 1 = k
      BY <1>1, <2>3
    <3>2. (a \o r)[i] = r[j] /\ (t \o b)[i] = b[k]
      BY <1>1, <1>3, <1>4, <1>5, <2>3
    <3> HIDE DEF j, k
    <3>3. r[j] = b[j + 1] /\ b[j + 1] = b[k]
      BY <1>5, <3>1
    <3> QED BY <3>2, <3>3
  <2>4. i <= Len(t) \/ i = Len(t) + 1 \/ i > Len(t) + 1
    BY <1>1
  <2> QED BY <2>1, <2>2, <2>3, <2>4
<1>7. a \o r = t \o b
  <2>1. Len(a \o r) = Len(t) + Len(b)
    BY <1>1, <1>3, <1>5
  <2> QED BY <1>3, <1>4, <1>6, <2>1, SeqEqual
<1> QED BY <1>1, <1>2, <1>7 DEF a, r

LEMMA TailGrows ==
  ASSUME NEW S, NEW t \in Seq(S), NEW b \in Seq(S), NEW e \in S
  PROVE  /\ Append(b, e) \in Seq(S) /\ Len(Append(b, e)) = Len(b) + 1
         /\ t \o b \in Seq(S) /\ Len(t \o b) = Len(t) + Len(b)
         /\ t \o Append(b, e) = Append(t \o b, e)
<1> DEFINE u == t \o b
           a == Append(b, e)
           v == Append(u, e)
<1>1. /\ u \in Seq(S) /\ Len(u) = Len(t) + Len(b)
      /\ \A i \in 1..(Len(t) + Len(b)) : u[i] = IF i <= Len(t) THEN t[i] ELSE b[i - Len(t)]
  BY ConcatProperties
<1>2. /\ a \in Seq(S) /\ Len(a) = Len(b) + 1 /\ a[Len(b) + 1] = e
      /\ \A i \in 1..Len(b) : a[i] = b[i]
  BY AppendFacts
<1>3. /\ t \o a \in Seq(S) /\ Len(t \o a) = Len(t) + Len(a)
      /\ \A i \in 1..(Len(t) + Len(a)) : (t \o a)[i] = IF i <= Len(t) THEN t[i] ELSE a[i - Len(t)]
  BY <1>2, ConcatProperties
<1>4. Len(t) \in Nat /\ Len(b) \in Nat
  BY LenProperties
<1> HIDE DEF u, a
<1>5. /\ v \in Seq(S) /\ Len(v) = Len(u) + 1 /\ v[Len(u) + 1] = e
      /\ \A i \in 1..Len(u) : v[i] = u[i]
  BY <1>1, AppendFacts
<1> HIDE DEF v
<1>6. Len(t \o a) = Len(v) /\ Len(v) = Len(t) + Len(b) + 1
  BY <1>1, <1>2, <1>3, <1>4, <1>5
<1>7. ASSUME NEW i \in 1..Len(v) PROVE (t \o a)[i] = v[i]
  <2>1. CASE i <= Len(t)
    <3>1. i \in 1..Len(t) /\ i \in 1..Len(u) /\ i \in 1..(Len(t) + Len(a))
      BY <1>1, <1>2, <1>4, <1>6, <2>1
    <3>2. (t \o a)[i] = t[i] /\ u[i] = t[i] /\ v[i] = u[i]
      BY <1>1, <1>3, <1>5, <2>1, <3>1
    <3> QED BY <3>2
  <2>2. CASE i > Len(t) /\ i <= Len(t) + Len(b)
    <3>1. i - Len(t) \in 1..Len(b) /\ i \in 1..Len(u) /\ i \in 1..(Len(t) + Len(a))
      BY <1>1, <1>2, <1>4, <2>2
    <3>2. (t \o a)[i] = a[i - Len(t)] /\ u[i] = b[i - Len(t)]
      BY <1>1, <1>3, <1>4, <2>2, <3>1
    <3> QED BY <1>2, <1>5, <3>1, <3>2
  <2>3. CASE i = Len(t) + Len(b) + 1
    <3>1. (t \o a)[i] = a[Len(b) + 1]
      BY <1>2, <1>3, <1>4, <2>3
    <3> QED BY <1>1, <1>2, <1>5, <2>3, <3>1
  <2> QED BY <1>4, <1>6, <2>1, <2>2, <2>3
<1> QED BY <1>1, <1>2, <1>3, <1>5, <1>6, <1>7, SeqEqual DEF u, a, v

(* An event is begun: its subscribers have it still to come, the others    *)
(* miss it.                                                                *)
LEMMA EventIsBegun ==
  ASSUME NEW s \in Subscribers, NEW all \in Seq(Events), NEW ms, NEW ms2,
         NEW pub \in [Publishers -> [begun : Nat, todo : SUBSET Subscribers]],
         NEW pub2 \in [Publishers -> [begun : Nat, todo : SUBSET Subscribers]],
         NEW p \in Publishers, s \notin pub[p].todo, pub2[p].begun = pub[p].begun + 1,
         \A q \in Publishers : q # p => pub2[q] = pub[q],
         \A m \in ms : m \in ms2, s \notin pub2[p].todo => <<p, pub2[p].begun>> \in ms2,
         Delivered(s, all, ms, pub)
  PROVE  Delivered(s, all, ms2, pub2)
<1>0. /\ \A q \in Publishers : pub[q].begun \in Nat /\ pub2[q].begun \in Nat
      /\ pub2[p].begun = pub[p].begun + 1
  OBVIOUS
<1>1. \A i \in DOMAIN all : all[i][1] \in Publishers /\ all[i][2] \in Nat
  BY LenProperties, ElementOfSeq DEF Events
<1>2. Numbered(s, all, pub2)
  <2> SUFFICES ASSUME NEW i \in DOMAIN all
               PROVE  /\ all[i][2] <= pub2[all[i][1]].begun
                      /\ s \in pub2[all[i][1]].todo => all[i][2] < pub2[all[i][1]].begun
      BY DEF Numbered
  <2> DEFINE q == all[i][1]
             k == all[i][2]
  <2>1. q \in Publishers /\ k \in Nat /\ k <= pub[q].begun /\ (s \in pub[q].todo => k < pub[q].begun)
    BY <1>1 DEF Delivered, Numbered
  <2> HIDE DEF q, k
  <2>2. k <= pub2[q].begun /\ (s \in pub2[q].todo => k < pub2[q].begun)
    <3>1. CASE q = p
      BY <1>0, <2>1, <3>1
    <3>2. CASE q # p
      BY <1>0, <2>1, <3>2
    <3> QED BY <3>1, <3>2
  <2> QED BY <2>2 DEF q, k
<1>3. Complete(s, all, ms2, pub2)
  <2> SUFFICES ASSUME NEW q \in Publishers, NEW k \in 1..pub2[q].begun
               PROVE  \/ <<q, k>> \in ms2 \cup ToSet(all)
                      \/ k = pub2[q].begun /\ s \in pub2[q].todo
      BY DEF Complete
  <2>1. CASE q = p /\ k = pub[p].begun + 1
    BY <1>0, <2>1
  <2>2. CASE k \in 1..pub[q].begun
    <3>1. \/ <<q, k>> \in ms \cup ToSet(all)
          \/ k = pub[q].begun /\ s \in pub[q].todo
      BY <2>2 DEF Delivered, Complete
    <3> QED BY <3>1
  <2> QED BY <1>0, <2>1, <2>2
<1> QED BY <1>2, <1>3 DEF Delivered

(* A subscriber is served: its event goes into the buffer or is missed.    *)
LEMMA EventIsOffered ==
  ASSUME NEW s \in Subscribers, NEW all \in Seq(Events), NEW all2 \in Seq(Events), NEW ms, NEW ms2,
         NEW pub \in [Publishers -> [begun : Nat, todo : SUBSET Subscribers]],
         NEW pub2 \in [Publishers -> [begun : Nat, todo : SUBSET Subscribers]],
         NEW p \in Publishers, s \in pub[p].todo, pub2[p].begun = pub[p].begun, s \notin pub2[p].todo,
         \A q \in Publishers : q # p => pub2[q] = pub[q],
         \/ all2 = Append(all, <<p, pub[p].begun>>) /\ ms2 = ms
         \/ all2 = all /\ ms2 = ms \cup {<<p, pub[p].begun>>},
         Delivered(s, all, ms, pub)
  PROVE  Delivered(s, all2, ms2, pub2)
<1> DEFINE e == <<p, pub[p].begun>>
           n == Len(all)
<1>0. \A q \in Publishers : pub[q].begun \in Nat /\ pub2[q].begun = pub[q].begun
  OBVIOUS
<1>1. /\ DOMAIN all = 1..n /\ n \in Nat /\ e[1] = p /\ e[2] = pub[p].begun /\ e \in Events
      /\ \A i \in 1..n : all[i][1] \in Publishers /\ all[i][2] \in Nat
  <2>1. DOMAIN all = 1..n /\ n \in Nat
    BY LenProperties
  <2>2. e[1] = p /\ e[2] = pub[p].begun /\ e \in Events
    BY <1>0 DEF Events
  <2>3. ASSUME NEW i \in 1..n PROVE all[i][1] \in Publishers /\ all[i][2] \in Nat
    <3>1. all[i] \in Events
      BY <2>1, <2>3, ElementOfSeq
    <3> QED BY <3>1 DEF Events
  <2> QED BY <2>1, <2>2, <2>3
<1>2. \A i \in 1..n : /\ all[i][2] <= pub[all[i][1]].begun
                      /\ all[i][1] = p => all[i][2] < pub[p].begun
                      /\ s \in pub[all[i][1]].todo => all[i][2] < pub[all[i][1]].begun
  BY <1>1 DEF Delivered, Numbered
<1>3. \A i, j \in 1..n : (i < j /\ all[i][1] = all[j][1]) => all[i][2] < all[j][2]
  BY <1>1 DEF Delivered, Ordered
<1>4. ASSUME NEW q \in Publishers, NEW k \in 1..pub[q].begun
      PROVE  \/ <<q, k>> \in ms \cup ToSet(all) \cup {e}
             \/ k = pub[q].begun /\ s \in pub2[q].todo
  <2>1. \/ <<q, k>> \in ms \cup ToSet(all)
        \/ k = pub[q].begun /\ s \in pub[q].todo
    BY DEF Delivered, Complete
  <2> QED BY <2>1
<1>5. \A q \in Publishers : s \in pub2[q].todo => (q # p /\ s \in pub[q].todo)
  OBVIOUS
<1> HIDE DEF e, n
<1>6. CASE all2 = all /\ ms2 = ms \cup {e}
  <2>1. Ordered(all2) /\ Numbered(s, all2, pub2)
    BY <1>0, <1>1, <1>2, <1>3, <1>5, <1>6 DEF Ordered, Numbered
  <2>2. Complete(s, all2, ms2, pub2)
    BY <1>0, <1>4, <1>6 DEF Complete
  <2> QED BY <2>1, <2>2 DEF Delivered
<1>7. CASE all2 = Append(all, e) /\ ms2 = ms
  <2>1. /\ DOMAIN all2 = 1..(n + 1) /\ (\A i \in 1..n : all2[i] = all[i]) /\ all2[n + 1] = e
    <3>1. Append(all, e) \in Seq(Events) /\ Len(Append(all, e)) = n + 1
      BY <1>1, AppendFacts DEF n
    <3>2. DOMAIN Append(all, e) = 1..(n + 1)
      BY <3>1, LenProperties
    <3>3. (\A i \in 1..n : Append(all, e)[i] = all[i]) /\ Append(all, e)[n + 1] = e
      BY <1>1, AppendFacts DEF n
    <3> QED BY <1>7, <3>2, <3>3
  <2>2. Ordered(all2)
    <3> SUFFICES ASSUME NEW i \in 1..(n + 1), NEW j \in 1..(n + 1), i < j, all2[i][1] = all2[j][1]
                 PROVE  all2[i][2] < all2[j][2]
        BY <2>1 DEF Ordered
    <3>1. i \in 1..n /\ (j \in 1..n \/ j = n + 1)
      BY <1>1
    <3>2. CASE j \in 1..n
      BY <1>3, <2>1, <3>1, <3>2
    <3>3. CASE j = n + 1
      <4>1. all2[i] = all[i] /\ all2[j] = e
        BY <2>1, <3>1, <3>3
      <4> QED BY <1>1, <1>2, <3>1, <4>1
    <3> QED BY <3>1, <3>2, <3>3
  <2>3. Numbered(s, all2, pub2)
    <3> SUFFICES ASSUME NEW i \in 1..(n + 1)
                 PROVE  /\ all2[i][2] <= pub2[all2[i][1]].begun
                        /\ s \in pub2[all2[i][1]].todo => all2[i][2] < pub2[all2[i][1]].begun
        BY <2>1 DEF Numbered
    <3>1. CASE i \in 1..n
      BY <1>0, <1>1, <1>2, <1>5, <2>1, <3>1
    <3>2. CASE i = n + 1
      BY <1>0, <1>1, <1>5, <2>1, <3>2
    <3> QED BY <1>1, <3>1, <3>2
  <2>4. ToSet(all) \cup {e} \subseteq ToSet(all2)
    BY <1>1, <2>1 DEF ToSet
  <2>5. Complete(s, all2, ms2, pub2)
    BY <1>0, <1>4, <1>7, <2>4 DEF Complete
  <2> QED BY <2>2, <2>3, <2>5 DEF Delivered
<1> QED BY <1>6, <1>7 DEF e

(* Another subscriber is served.                                           *)
LEMMA OtherIsServed ==
  ASSUME NEW s \in Subscribers, NEW all, NEW ms, NEW p \in Publishers,
         NEW pub \in [Publishers -> [begun : Nat, todo : SUBSET Subscribers]],
         NEW pub2, \A q \in Publishers : pub2[q].begun = pub[q].begun,
         \A q \in Publishers : s \in pub2[q].todo <=> s \in pub[q].todo,
         all \in Seq(Events), Delivered(s, all, ms, pub)
  PROVE  Delivered(s, all, ms, pub2)
<1>1. \A i \in DOMAIN all : all[i][1] \in Publishers
  BY LenProperties, ElementOfSeq DEF Events
<1>2. Numbered(s, all, pub2)
  BY <1>1 DEF Delivered, Numbered
<1>3. Complete(s, all, ms, pub2)
  BY DEF Delivered, Complete
<1> QED BY <1>2, <1>3 DEF Delivered

LEMMA ClientLengths ==
  ASSUME NEW x \in HubClients
  PROVE  /\ x.got \in Seq(Events) /\ x.send \in Seq(Events) /\ x.since \in Nat
         /\ Len(x.got) \in Nat /\ Len(x.send) \in Nat /\ x.got \o x.send \in Seq(Events)
         /\ Len(x.got \o x.send) \in Nat /\ Len(x.got \o x.send) = Len(x.got) + Len(x.send)
<1>1. x.got \in Seq(Events) /\ x.send \in Seq(Events) /\ x.since \in Nat
  BY DEF HubClients
<1>2. Len(x.got) \in Nat /\ Len(x.send) \in Nat
  BY <1>1, LenProperties
<1>3. x.got \o x.send \in Seq(Events) /\ Len(x.got \o x.send) = Len(x.got) + Len(x.send)
  BY <1>1, ConcatProperties
<1>4. Len(x.got \o x.send) \in Nat
  BY <1>3, LenProperties
<1> QED BY <1>1, <1>2, <1>3, <1>4

(* What a client is fed, one move at a time: its pumps and its connection  *)
(* change state,                                                           *)
LEMMA ClientTurns ==
  ASSUME NEW x \in HubClients, NEW y \in HubClients, NEW h \in Seq(Events),
         NEW c, NEW srv, NEW srv2, Fed(x, h, c, srv),
         y.since = x.since, y.got = x.got, y.send = x.send, y.write \in {x.write, "gone"},
         y.read \in {"none", "registering"} =>
           (x.read \in {"none", "registering"} /\ y.write = x.write /\ y.closed = x.closed),
         c \in srv2 => (c \in srv /\ y.closed = x.closed /\ y.read \in {"reading", "leaving"})
  PROVE  Fed(y, h, c, srv2)
<1>1. Behind(x, h) => Behind(y, h)
  BY DEF Behind
<1>2. RunOf(x, h) => RunOf(y, h)
  BY DEF RunOf
<1>3. y.write = "writing" => x.write = "writing"
  OBVIOUS
<1> QED BY <1>1, <1>2, <1>3 DEF Fed

(* it is registered,                                                       *)
LEMMA ClientIsRegistered ==
  ASSUME NEW x \in HubClients, NEW y \in HubClients, NEW h \in Seq(Events), NEW c, NEW srv,
         Fed(x, h, c, srv), x.read = "registering", y.since = Len(h), y.got = x.got, y.send = x.send,
         y.read = "reading", y.closed = x.closed
  PROVE  \A srv2 : Fed(y, h, c, srv2)
<1>1. x.send = <<>> /\ x.got = <<>> /\ ~x.closed
  BY DEF Fed
<1>2. y.got \o y.send = <<>> /\ Len(y.got \o y.send) = 0 /\ Len(h) \in Nat
  BY <1>1, ConcatEmptySeq, EmptySeq, LenProperties
<1>3. Behind(y, h)
  BY <1>2 DEF Behind
<1>4. RunOf(y, h)
  BY <1>2 DEF RunOf
<1>5. Len(y.send) <= ClientBuffer
  BY <1>1, EmptySeq, HubAssumption
<1> QED BY <1>1, <1>2, <1>3, <1>4, <1>5 DEF Fed

(* it is handed a message that waits for it, or loses one as it breaks,    *)
LEMMA ClientIsWritten ==
  ASSUME NEW x \in HubClients, NEW y \in HubClients, NEW h \in Seq(Events), NEW c, NEW srv,
         Fed(x, h, c, srv), x.write = "writing", x.send # <<>>, y.send = Tail(x.send),
         y.since = x.since, y.closed = x.closed, y.read = x.read,
         \/ y.got = Append(x.got, Head(x.send)) /\ y.write = "writing"
         \/ y.got = x.got /\ y.write = "gone"
  PROVE  Fed(y, h, c, srv)
<1>1. /\ x.got \in Seq(Events) /\ x.send \in Seq(Events) /\ x.since \in Nat
      /\ Len(x.send) \in Nat /\ Len(x.got) \in Nat /\ Len(h) \in Nat
  BY ClientLengths, LenProperties
<1>2. /\ Append(x.got, Head(x.send)) \o Tail(x.send) = x.got \o x.send
      /\ Tail(x.send) \in Seq(Events) /\ Len(Tail(x.send)) = Len(x.send) - 1
  <2>1. ASSUME NEW g \in Seq(Events), NEW b \in Seq(Events), b # <<>>
        PROVE  /\ Append(g, Head(b)) \o Tail(b) = g \o b
               /\ Tail(b) \in Seq(Events) /\ Len(Tail(b)) = Len(b) - 1
    BY <2>1, HeadMoves
  <2> QED BY <1>1, <2>1
<1>3. Len(y.send) <= ClientBuffer
  BY <1>1, <1>2, HubAssumption DEF Fed
<1>4. CASE y.got = Append(x.got, Head(x.send)) /\ y.write = "writing"
  <2>1. y.got \o y.send = x.got \o x.send
    BY <1>2, <1>4
  <2>2. Behind(y, h) /\ RunOf(y, h)
    BY <2>1 DEF Fed, Behind, RunOf
  <2> QED BY <1>3, <2>1, <2>2 DEF Fed
<1>5. CASE y.got = x.got /\ y.write = "gone"
  <2> DEFINE m == Len(x.got \o x.send)
             n == Len(y.got \o y.send)
  <2>1. m = Len(x.got) + Len(x.send) /\ n = Len(x.got) + Len(Tail(x.send))
    BY <1>5, ClientLengths
  <2>2. n = m - 1 /\ m \in Nat
    <3> DEFINE g == Len(x.got)
               b == Len(x.send)
               r == Len(Tail(x.send))
    <3>1. r = b - 1 /\ m = g + b /\ n = g + r /\ g \in Nat /\ b \in Nat
      BY <1>1, <1>2, <2>1
    <3>2. m \in Nat
      BY ClientLengths
    <3> HIDE DEF m, n, g, b, r
    <3> QED BY <3>1, <3>2
  <2> HIDE DEF m, n
  <2>3. x.since + m <= Len(h) => y.since + n <= Len(h)
    BY <1>1, <2>2
  <2>4. Behind(x, h) => Behind(y, h)
    BY <2>3 DEF Behind, m, n
  <2> QED BY <1>3, <1>5, <2>4 DEF Fed
<1> QED BY <1>4, <1>5

(* and the hub passes an event to the clients that it serves.              *)
LEMMA HistoryGrows ==
  ASSUME NEW x \in HubClients, NEW h \in Seq(Events), NEW e \in Events
  PROVE  /\ Behind(x, h) => Behind(x, Append(h, e))
         /\ (Behind(x, h) /\ RunOf(x, h)) => RunOf(x, Append(h, e))
<1> DEFINE n == Len(x.got \o x.send)
           h2 == Append(h, e)
<1>0. n \in Nat /\ x.since \in Nat
  BY ClientLengths
<1>1. /\ Len(h) \in Nat /\ Len(h2) = Len(h) + 1
      /\ \A i \in 1..Len(h) : h2[i] = h[i]
  BY AppendFacts
<1> HIDE DEF n, h2
<1>2. Behind(x, h) => Behind(x, h2)
  <2>1. x.since + n <= Len(h) => x.since + n <= Len(h2)
    BY <1>0, <1>1
  <2> QED BY <2>1 DEF Behind, n
<1>3. ASSUME Behind(x, h), RunOf(x, h) PROVE RunOf(x, h2)
  <2>1. x.since + n <= Len(h)
    BY <1>3 DEF Behind, n
  <2>2. ASSUME NEW i \in 1..n PROVE (x.got \o x.send)[i] = h2[x.since + i]
    <3>1. x.since + i \in 1..Len(h)
      BY <1>0, <1>1, <2>1
    <3>2. (x.got \o x.send)[i] = h[x.since + i]
      BY <1>3 DEF RunOf, n
    <3> QED BY <1>1, <3>1, <3>2
  <2> QED BY <2>2 DEF RunOf, n
<1> QED BY <1>2, <1>3 DEF h2

LEMMA ClientIsDropped ==
  ASSUME NEW x \in HubClients, NEW y \in HubClients, NEW h \in Seq(Events), NEW e \in Events,
         NEW c, NEW srv, NEW srv2, Fed(x, h, c, srv), c \in srv, c \notin srv2,
         y = [x EXCEPT !.closed = TRUE]
  PROVE  Fed(y, Append(h, e), c, srv2)
<1>1. /\ y.read = x.read /\ y.write = x.write /\ y.send = x.send /\ y.got = x.got
      /\ y.since = x.since
  BY DEF HubClients
<1>2. y.read \notin {"none", "registering"}
  BY <1>1 DEF Fed
<1>3. y.write = "writing" => (Behind(y, Append(h, e)) /\ RunOf(y, Append(h, e)))
  <2>1. ASSUME y.write = "writing" PROVE Behind(x, Append(h, e)) /\ RunOf(x, Append(h, e))
    BY <1>1, <2>1, HistoryGrows DEF Fed
  <2> QED BY <1>1, <2>1 DEF Behind, RunOf
<1> QED BY <1>1, <1>2, <1>3 DEF Fed

LEMMA ClientIsLeftOut ==
  ASSUME NEW x \in HubClients, NEW h \in Seq(Events), NEW e \in Events,
         NEW c, NEW srv, NEW srv2, Fed(x, h, c, srv), c \notin srv, c \notin srv2
  PROVE  Fed(x, Append(h, e), c, srv2)
  BY HistoryGrows DEF Fed

LEMMA ClientIsServed ==
  ASSUME NEW x \in HubClients, NEW y \in HubClients, NEW h \in Seq(Events), NEW e \in Events,
         NEW c, NEW srv, NEW srv2, Fed(x, h, c, srv), c \in srv, Len(x.send) < ClientBuffer,
         y = [x EXCEPT !.send = Append(@, e)]
  PROVE  Fed(y, Append(h, e), c, srv2)
<1>1. /\ y.read = x.read /\ y.write = x.write /\ y.send = Append(x.send, e) /\ y.got = x.got
      /\ y.since = x.since /\ y.closed = x.closed
  BY DEF HubClients
<1> DEFINE s == x.got \o x.send
           t == y.got \o y.send
           n == Len(s)
           h2 == Append(h, e)
<1>0. /\ x.got \in Seq(Events) /\ x.send \in Seq(Events) /\ x.since \in Nat
      /\ s \in Seq(Events) /\ n \in Nat /\ Len(x.send) \in Nat
  BY ClientLengths
<1>2. t = Append(s, e) /\ Len(y.send) = Len(x.send) + 1
  <2>1. x.got \o Append(x.send, e) = Append(x.got \o x.send, e)
    <3>1. ASSUME NEW g \in Seq(Events), NEW b \in Seq(Events)
          PROVE  g \o Append(b, e) = Append(g \o b, e)
      BY TailGrows
    <3> QED BY <1>0, <3>1
  <2>2. Len(Append(x.send, e)) = Len(x.send) + 1
    BY <1>0, TailGrows
  <2> QED BY <1>1, <2>1, <2>2
<1> HIDE DEF s, t
<1>9. /\ Len(h) \in Nat /\ Len(h2) = Len(h) + 1
      /\ h2[Len(h) + 1] = e /\ (\A i \in 1..Len(h) : h2[i] = h[i])
  BY AppendFacts
<1>10. Len(t) = n + 1 /\ t[n + 1] = e /\ \A i \in 1..n : t[i] = s[i]
  BY <1>0, <1>2, AppendFacts
<1>3. /\ n \in Nat /\ Len(h) \in Nat /\ Len(x.send) \in Nat /\ Len(h2) = Len(h) + 1
      /\ h2[Len(h) + 1] = e /\ (\A i \in 1..Len(h) : h2[i] = h[i])
      /\ Len(t) = n + 1 /\ t[n + 1] = e /\ \A i \in 1..n : t[i] = s[i]
  BY <1>0, <1>9, <1>10
<1>4. /\ ~x.closed /\ x.read \in {"reading", "leaving"} /\ x.since + n <= Len(h)
      /\ x.write = "writing" => (x.since + n = Len(h) /\ \A i \in 1..n : s[i] = h[x.since + i])
  BY DEF Fed, Behind, RunOf, s
<1> HIDE DEF n, h2
<1>5. y.since + Len(t) <= Len(h2)
  BY <1>0, <1>1, <1>3, <1>4
<1>6. ASSUME y.write = "writing"
      PROVE  y.since + Len(t) = Len(h2) /\ RunOf(y, h2)
  <2>1. x.since + n = Len(h) /\ \A i \in 1..n : s[i] = h[x.since + i]
    BY <1>1, <1>4, <1>6
  <2>2. ASSUME NEW i \in 1..(n + 1) PROVE t[i] = h2[y.since + i]
    <3>1. CASE i \in 1..n
      <4>1. x.since + i \in 1..Len(h)
        BY <1>0, <1>3, <2>1, <3>1
      <4>2. t[i] = s[i] /\ s[i] = h[x.since + i] /\ h[x.since + i] = h2[x.since + i]
        BY <1>3, <2>1, <3>1, <4>1
      <4> QED BY <1>1, <4>2
    <3>2. CASE i = n + 1
      <4>1. x.since + i = Len(h) + 1
        BY <1>0, <1>3, <2>1, <3>2
      <4>2. t[i] = e /\ h2[x.since + i] = e
        BY <1>3, <3>2, <4>1
      <4> QED BY <1>1, <4>2
    <3> QED BY <1>3, <3>1, <3>2
  <2>3. RunOf(y, h2)
    BY <1>3, <2>2 DEF RunOf, t
  <2> QED BY <1>0, <1>1, <1>3, <2>1, <2>3
<1>7. Len(y.send) <= ClientBuffer
  BY <1>2, <1>3, HubAssumption
<1>8. Behind(y, h2)
  BY <1>5 DEF Behind, t
<1> QED BY <1>1, <1>4, <1>6, <1>7, <1>8 DEF Fed, h2, t

(* The actions.  A client's moves leave the bus and other clients alone.   *)
LEMMA OneClient ==
  ASSUME HubInv, NEW c \in Clients, client' \in [Clients -> HubClients],
         served' \subseteq Clients, Fed(client'[c], taken["hub"], c, served'),
         \A d \in Clients : d # c => client'[d] = client[d] /\ (d \in served' <=> d \in served),
         UNCHANGED <<publisher, channel, taken, missed, panicked>>
  PROVE  HubInv'
<1>1. HubTyped'
  BY DEF HubInv, HubTyped
<1>2. TodoOpen'
  BY DEF HubInv, TodoOpen
<1>3. ASSUME NEW s \in Subscribers PROVE DeliveredTo(s)'
  <2>1. DeliveredTo(s)
    BY DEF HubInv
  <2> QED BY <2>1 DEF DeliveredTo
<1>4. ASSUME NEW d \in Clients PROVE FedClient(d)'
  <2>1. CASE d = c
    BY <2>1 DEF FedClient
  <2>2. CASE d # c
    <3>1. FedClient(d)
      BY DEF HubInv
    <3>2. client'[d] = client[d] /\ (d \in served' <=> d \in served) /\ taken' = taken
      BY <2>2
    <3> QED BY <3>1, <3>2 DEF FedClient, Fed
  <2> QED BY <2>1, <2>2
<1> QED BY <1>1, <1>2, <1>3, <1>4 DEF HubInv

LEMMA OldClient ==
  ASSUME HubInv, NEW c \in Clients
  PROVE  /\ client[c] \in HubClients /\ client \in [Clients -> HubClients]
         /\ taken["hub"] \in Seq(Events) /\ served \subseteq Clients
         /\ Fed(client[c], taken["hub"], c, served)
  BY DEF HubInv, HubTyped, FedClient, Subscribers

LEMMA ConnectHub ==
  ASSUME HubInv, NEW c \in Clients, Connect(c)
  PROVE  HubInv'
<1> DEFINE x == client[c]
           y == client'[c]
<1>1. /\ client' \in [Clients -> HubClients] /\ \A d \in Clients : d # c => client'[d] = client[d]
      /\ y.since = x.since /\ y.got = x.got /\ y.send = x.send /\ y.write = x.write
      /\ y.closed = x.closed /\ y.read = "registering"
  BY OldClient DEF Connect, HubClients
<1>2. x.read = "none" /\ c \notin served
  <2>1. x.read = "none"
    BY DEF Connect, NewClient
  <2> QED BY <2>1, OldClient DEF Fed
<1>3. x \in HubClients /\ y \in HubClients
  BY <1>1, OldClient
<1>4. Fed(x, taken["hub"], c, served) /\ taken["hub"] \in Seq(Events)
  BY OldClient
<1> HIDE DEF x, y
<1>5. Fed(y, taken["hub"], c, served)
  BY <1>1, <1>2, <1>3, <1>4, ClientTurns
<1> QED BY <1>1, <1>5, OneClient, OldClient DEF Connect, y

LEMMA LeaveHub ==
  ASSUME HubInv, NEW c \in Clients, Leave(c)
  PROVE  HubInv'
<1> DEFINE x == client[c]
           y == client'[c]
<1>1. /\ client' \in [Clients -> HubClients] /\ \A d \in Clients : d # c => client'[d] = client[d]
      /\ y.since = x.since /\ y.got = x.got /\ y.send = x.send /\ y.write = x.write
      /\ y.closed = x.closed /\ y.read = x.read
  BY OldClient DEF Leave, HubClients
<1>3. x \in HubClients /\ y \in HubClients
  BY <1>1, OldClient
<1>4. Fed(x, taken["hub"], c, served) /\ taken["hub"] \in Seq(Events)
  BY OldClient
<1> HIDE DEF x, y
<1>5. Fed(y, taken["hub"], c, served)
  <2>1. c \in served => x.read \in {"reading", "leaving"}
    BY <1>4 DEF Fed
  <2> QED BY <1>1, <1>3, <1>4, <2>1, ClientTurns
<1> QED BY <1>1, <1>5, OneClient, OldClient DEF Leave, y

LEMMA RegisterHub ==
  ASSUME HubInv, NEW c \in Clients, Register(c)
  PROVE  HubInv'
<1> DEFINE x == client[c]
           y == client'[c]
<1>0. taken["hub"] \in Seq(Events) /\ Len(taken["hub"]) \in Nat
  BY OldClient, LenProperties
<1>1. /\ client' \in [Clients -> HubClients] /\ \A d \in Clients : d # c => client'[d] = client[d]
      /\ y.since = Len(taken["hub"]) /\ y.got = x.got /\ y.send = x.send
      /\ y.closed = x.closed /\ y.read = "reading" /\ x.read = "registering"
  <2> DEFINE n == Len(taken["hub"])
  <2>1. /\ client' = [client EXCEPT ![c].read = "reading", ![c].write = "writing", ![c].since = n]
        /\ x.read = "registering"
    BY DEF Register
  <2>2. x \in HubClients /\ n \in Nat
    BY <1>0, OldClient
  <2> HIDE DEF n
  <2>3. y = [x EXCEPT !.read = "reading", !.write = "writing", !.since = n]
    BY <2>1, OldClient
  <2>4. /\ y \in HubClients /\ y.since = n /\ y.got = x.got /\ y.send = x.send
        /\ y.closed = x.closed /\ y.read = "reading"
    BY <2>2, <2>3 DEF HubClients
  <2>5. client' \in [Clients -> HubClients] /\ \A d \in Clients : d # c => client'[d] = client[d]
    BY <2>1, <2>4, OldClient
  <2> QED BY <2>1, <2>4, <2>5 DEF n
<1>3. x \in HubClients /\ y \in HubClients
  BY <1>1, OldClient
<1>4. Fed(x, taken["hub"], c, served)
  BY OldClient
<1> HIDE DEF x, y
<1>5. Fed(y, taken["hub"], c, served')
  BY <1>0, <1>1, <1>3, <1>4, ClientIsRegistered
<1>6. served' \subseteq Clients
      /\ \A d \in Clients : d # c => (d \in served' <=> d \in served)
  BY OldClient DEF Register
<1> QED BY <1>1, <1>5, <1>6, OneClient DEF Register, y

LEMMA UnregisterHub ==
  ASSUME HubInv, NEW c \in Clients, Unregister(c)
  PROVE  HubInv'
<1> DEFINE x == client[c]
           y == client'[c]
<1>1. /\ client' \in [Clients -> HubClients] /\ \A d \in Clients : d # c => client'[d] = client[d]
      /\ y.since = x.since /\ y.got = x.got /\ y.send = x.send /\ y.write = x.write
      /\ y.read = "gone"
  <2> DEFINE z == client[c].closed \/ MustClose(c)
  <2>1. client' = [client EXCEPT ![c].read = "gone", ![c].open = FALSE, ![c].closed = z]
    BY DEF Unregister
  <2>2. z \in BOOLEAN
    OBVIOUS
  <2> HIDE DEF z
  <2>3. y = [x EXCEPT !.read = "gone", !.open = FALSE, !.closed = z]
    BY <2>1, OldClient
  <2>4. /\ y \in HubClients /\ y.since = x.since /\ y.got = x.got /\ y.send = x.send
        /\ y.write = x.write /\ y.read = "gone"
    BY <2>2, <2>3, OldClient DEF HubClients
  <2> QED BY <2>1, <2>4, OldClient
<1>3. x \in HubClients /\ y \in HubClients
  BY <1>1, OldClient
<1>4. Fed(x, taken["hub"], c, served) /\ taken["hub"] \in Seq(Events)
  BY OldClient
<1>2. panicked' = panicked
  <2>1. c \in served => ~client[c].closed
    BY <1>4 DEF Fed
  <2>2. panicked = FALSE
    BY DEF HubInv, HubTyped
  <2> QED BY <2>1, <2>2 DEF Unregister, MustClose
<1> HIDE DEF x, y
<1>5. Fed(y, taken["hub"], c, served')
  <2>1. c \notin served'
    BY DEF Unregister
  <2> QED BY <1>1, <1>3, <1>4, <2>1, ClientTurns
<1>6. served' \subseteq Clients
      /\ \A d \in Clients : d # c => (d \in served' <=> d \in served)
  BY OldClient DEF Unregister
<1> QED BY <1>1, <1>2, <1>5, <1>6, OneClient DEF Unregister, y

LEMMA ClientReadFailsHub ==
  ASSUME HubInv, NEW c \in Clients, ClientReadFails(c)
  PROVE  HubInv'
<1> DEFINE x == client[c]
           y == client'[c]
<1>1. /\ client' \in [Clients -> HubClients] /\ \A d \in Clients : d # c => client'[d] = client[d]
      /\ y.since = x.since /\ y.got = x.got /\ y.send = x.send /\ y.write = x.write
      /\ y.closed = x.closed /\ y.read = "leaving"
  BY OldClient DEF ClientReadFails, HubClients
<1>3. x \in HubClients /\ y \in HubClients
  BY <1>1, OldClient
<1>4. Fed(x, taken["hub"], c, served) /\ taken["hub"] \in Seq(Events)
  BY OldClient
<1> HIDE DEF x, y
<1>5. Fed(y, taken["hub"], c, served)
  BY <1>1, <1>3, <1>4, ClientTurns
<1> QED BY <1>1, <1>5, OneClient, OldClient DEF ClientReadFails, y

LEMMA WriteMessageHub ==
  ASSUME HubInv, NEW c \in Clients, WriteMessage(c)
  PROVE  HubInv'
<1> DEFINE x == client[c]
           y == client'[c]
<1>0. x \in HubClients /\ x.send \in Seq(Events) /\ x.got \in Seq(Events) /\ x.send # <<>>
  BY OldClient, ClientLengths DEF WriteMessage
<1>a. Tail(x.send) \in Seq(Events) /\ Append(x.got, Head(x.send)) \in Seq(Events)
  <2>1. ASSUME NEW g \in Seq(Events), NEW b \in Seq(Events), b # <<>>
        PROVE  Tail(b) \in Seq(Events) /\ Append(g, Head(b)) \in Seq(Events)
    BY <2>1, HeadMoves
  <2> QED BY <1>0, <2>1
<1>1. /\ client' \in [Clients -> HubClients] /\ \A d \in Clients : d # c => client'[d] = client[d]
      /\ x.write = "writing" /\ y.send = Tail(x.send) /\ y.since = x.since
      /\ y.closed = x.closed /\ y.read = x.read
      /\ \/ y.got = Append(x.got, Head(x.send)) /\ y.write = "writing"
         \/ y.got = x.got /\ y.write = "gone"
  <2> DEFINE t == Tail(client[c].send)
             g == IF client[c].open THEN Append(client[c].got, Head(client[c].send))
                  ELSE client[c].got
             q == IF client[c].open THEN "writing" ELSE "gone"
  <2>1. client' = [client EXCEPT ![c].send = t, ![c].got = g, ![c].write = q]
    BY DEF WriteMessage
  <2>2. t \in Seq(Events) /\ g \in Seq(Events) /\ q \in {"writing", "gone"} /\ t = Tail(x.send)
        /\ \/ g = Append(x.got, Head(x.send)) /\ q = "writing"
           \/ g = x.got /\ q = "gone"
    BY <1>0, <1>a
  <2>3. x.write = "writing"
    BY DEF WriteMessage
  <2> HIDE DEF t, g, q
  <2>4. y = [x EXCEPT !.send = t, !.got = g, !.write = q]
    BY <2>1, OldClient
  <2>5. y \in HubClients /\ y.send = t /\ y.got = g /\ y.write = q /\ y.since = x.since
        /\ y.closed = x.closed /\ y.read = x.read
    BY <1>0, <2>2, <2>4 DEF HubClients
  <2>6. client' \in [Clients -> HubClients] /\ \A d \in Clients : d # c => client'[d] = client[d]
    BY <2>1, <2>5, OldClient
  <2> QED BY <2>2, <2>3, <2>5, <2>6
<1>3. y \in HubClients
  BY <1>1
<1>4. Fed(x, taken["hub"], c, served) /\ taken["hub"] \in Seq(Events)
  BY OldClient
<1> HIDE DEF x, y
<1>5. Fed(y, taken["hub"], c, served)
  BY <1>0, <1>1, <1>3, <1>4, ClientIsWritten
<1> QED BY <1>1, <1>5, OneClient, OldClient DEF WriteMessage, y

LEMMA WriteEndsHub ==
  ASSUME HubInv, NEW c \in Clients, WriteEnds(c)
  PROVE  HubInv'
<1> DEFINE x == client[c]
           y == client'[c]
<1>1. /\ client' \in [Clients -> HubClients] /\ \A d \in Clients : d # c => client'[d] = client[d]
      /\ y.since = x.since /\ y.got = x.got /\ y.send = x.send /\ y.write = "gone"
      /\ y.closed = x.closed /\ y.read = x.read /\ x.write = "writing"
  <2>1. y = [x EXCEPT !.write = "gone", !.open = FALSE] /\ x.write = "writing"
    BY OldClient DEF WriteEnds
  <2>2. /\ y \in HubClients /\ y.since = x.since /\ y.got = x.got /\ y.send = x.send
        /\ y.write = "gone" /\ y.closed = x.closed /\ y.read = x.read
    BY <2>1, OldClient DEF HubClients
  <2> QED BY <2>1, <2>2, OldClient DEF WriteEnds
<1>3. x \in HubClients /\ y \in HubClients
  BY <1>1, OldClient
<1>4. Fed(x, taken["hub"], c, served) /\ taken["hub"] \in Seq(Events)
  BY OldClient
<1> HIDE DEF x, y
<1>5. Fed(y, taken["hub"], c, served)
  <2>1. x.read \notin {"none", "registering"} /\ (c \in served => x.read \in {"reading", "leaving"})
    BY <1>1, <1>4 DEF Fed
  <2> QED BY <1>1, <1>3, <1>4, <2>1, ClientTurns
<1> QED BY <1>1, <1>5, OneClient, OldClient DEF WriteEnds, y

LEMMA ClientsStay ==
  ASSUME HubInv, UNCHANGED <<client, taken, served>>
  PROVE  \A c \in Clients : FedClient(c)'
<1> SUFFICES ASSUME NEW c \in Clients PROVE FedClient(c)'
    OBVIOUS
<1>1. FedClient(c)
  BY DEF HubInv
<1> QED BY <1>1 DEF FedClient, Fed

LEMMA OldBus ==
  ASSUME HubInv
  PROVE  /\ publisher \in [Publishers -> [begun : Nat, todo : SUBSET Subscribers]]
         /\ channel \in [Subscribers -> Channels]
         /\ taken \in [Subscribers -> Seq(Events)] /\ missed \in [Subscribers -> SUBSET Events]
         /\ \A s \in Subscribers :
              /\ taken[s] \in Seq(Events) /\ channel[s].buffer \in Seq(Events)
              /\ taken[s] \o channel[s].buffer \in Seq(Events)
              /\ Delivered(s, taken[s] \o channel[s].buffer, missed[s], publisher)
<1>1. /\ publisher \in [Publishers -> [begun : Nat, todo : SUBSET Subscribers]]
      /\ channel \in [Subscribers -> Channels]
      /\ taken \in [Subscribers -> Seq(Events)] /\ missed \in [Subscribers -> SUBSET Events]
  BY DEF HubInv, HubTyped
<1>2. ASSUME NEW s \in Subscribers
      PROVE  /\ taken[s] \in Seq(Events) /\ channel[s].buffer \in Seq(Events)
             /\ taken[s] \o channel[s].buffer \in Seq(Events)
  <2>1. taken[s] \in Seq(Events) /\ channel[s].buffer \in Seq(Events)
    BY <1>1 DEF Channels
  <2> QED BY <2>1, ConcatProperties
<1>3. \A s \in Subscribers : Delivered(s, taken[s] \o channel[s].buffer, missed[s], publisher)
  BY DEF HubInv, DeliveredTo
<1> QED BY <1>1, <1>2, <1>3

LEMMA SubscribeHub ==
  ASSUME HubInv, NEW s \in Subscribers, Subscribe(s) \/ CancelSubscription
  PROVE  HubInv'
<1>1. PICK t \in Subscribers, st \in {"open", "closed"} :
        /\ channel' = [channel EXCEPT ![t].state = st] /\ Unlocked
        /\ UNCHANGED <<publisher, taken, missed, client, served, panicked>>
  BY DEF Subscribe, CancelSubscription, MayCancel, Subscribers
<1>2. /\ channel' \in [Subscribers -> Channels]
      /\ \A v \in Subscribers : channel'[v].buffer = channel[v].buffer
  BY <1>1, OldBus DEF Channels
<1>3. HubTyped'
  BY <1>1, <1>2 DEF HubInv, HubTyped
<1>4. TodoOpen'
  BY <1>1 DEF Unlocked, TodoOpen
<1>5. ASSUME NEW v \in Subscribers PROVE DeliveredTo(v)'
  <2>1. DeliveredTo(v)
    BY DEF HubInv
  <2> QED BY <1>1, <1>2, <2>1 DEF DeliveredTo
<1> QED BY <1>1, <1>3, <1>4, <1>5, ClientsStay DEF HubInv

LEMMA PublishHub ==
  ASSUME HubInv, NEW p \in Publishers, Publish(p)
  PROVE  HubInv'
<1> DEFINE ready == {s \in Subscribers : channel[s].state = "open"}
           e == <<p, publisher[p].begun + 1>>
<1>1. /\ publisher[p].todo = {} /\ publisher[p].begun \in Nat
      /\ publisher' = [publisher EXCEPT ![p] = [begun |-> publisher[p].begun + 1, todo |-> ready]]
      /\ missed' = [s \in Subscribers |-> IF channel[s].state = "open" THEN missed[s]
                                          ELSE missed[s] \cup {e}]
      /\ UNCHANGED <<channel, taken, client, served, panicked>>
  BY OldBus DEF Publish
<1>2. ready \subseteq Subscribers /\ e \in Events
  BY <1>1 DEF Events
<1>3. \A s \in Subscribers : s \in ready <=> channel[s].state = "open"
  OBVIOUS
<1> HIDE DEF ready, e
<1>4. /\ publisher' \in [Publishers -> [begun : Nat, todo : SUBSET Subscribers]]
      /\ publisher'[p].begun = publisher[p].begun + 1 /\ publisher'[p].todo = ready
      /\ \A q \in Publishers : q # p => publisher'[q] = publisher[q]
  BY <1>1, <1>2, OldBus
<1>5. missed' \in [Subscribers -> SUBSET Events]
  BY <1>1, <1>2, OldBus
<1>6. HubTyped'
  BY <1>1, <1>4, <1>5 DEF HubInv, HubTyped
<1>7. TodoOpen'
  BY <1>1, <1>3, <1>4 DEF HubInv, TodoOpen
<1>8. ASSUME NEW s \in Subscribers PROVE DeliveredTo(s)'
  <2> DEFINE all == taken[s] \o channel[s].buffer
  <2>1. /\ all \in Seq(Events) /\ Delivered(s, all, missed[s], publisher)
    BY OldBus
  <2>2. missed[s] \subseteq missed'[s] /\ (s \in publisher'[p].todo \/ e \in missed'[s])
    BY <1>1, <1>3, <1>4
  <2>3. (taken[s] \o channel[s].buffer)' = all
    BY <1>1
  <2> DEFINE ms == missed[s]
             ms2 == missed'[s]
             pub == publisher
             pub2 == publisher'
  <2>4. pub \in [Publishers -> [begun : Nat, todo : SUBSET Subscribers]]
        /\ pub2 \in [Publishers -> [begun : Nat, todo : SUBSET Subscribers]]
    BY <1>4, OldBus
  <2>5. /\ s \notin pub[p].todo /\ pub2[p].begun = pub[p].begun + 1
        /\ \A q \in Publishers : q # p => pub2[q] = pub[q]
        /\ (\A m \in ms : m \in ms2) /\ (s \notin pub2[p].todo => <<p, pub2[p].begun>> \in ms2)
        /\ Delivered(s, all, ms, pub)
    BY <1>1, <1>4, <2>1, <2>2 DEF e
  <2> HIDE DEF all, ms, ms2, pub, pub2
  <2>6. Delivered(s, all, ms2, pub2)
    BY <2>1, <2>4, <2>5, EventIsBegun
  <2> QED BY <2>3, <2>6 DEF DeliveredTo, ms2, pub2
<1> QED BY <1>1, <1>6, <1>7, <1>8, ClientsStay DEF HubInv

LEMMA ServeHub ==
  ASSUME HubInv, NEW p \in Publishers, Serve(p)
  PROVE  HubInv'
<1>0. PICK s \in publisher[p].todo :
        /\ publisher' = [publisher EXCEPT ![p].todo = @ \ {s}]
        /\ Offer(s, Event(p))
        /\ panicked' = (panicked \/ channel[s].state = "closed")
        /\ UNCHANGED <<taken, client, served>>
  BY DEF Serve
<1> DEFINE e == <<p, publisher[p].begun>>
<1>1. s \in Subscribers /\ e \in Events /\ Event(p) = e /\ channel[s].state = "open"
  <2>1. s \in Subscribers /\ publisher[p].begun \in Nat
    BY OldBus
  <2>2. channel[s].state = "open"
    BY DEF HubInv, TodoOpen
  <2> QED BY <2>1, <2>2 DEF Events, Event
<1>2. panicked' = panicked
  BY <1>0, <1>1 DEF HubInv, HubTyped
<1> HIDE DEF e
<1>3. /\ publisher' \in [Publishers -> [begun : Nat, todo : SUBSET Subscribers]]
      /\ publisher'[p].begun = publisher[p].begun /\ publisher'[p].todo = publisher[p].todo \ {s}
      /\ \A q \in Publishers : q # p => publisher'[q] = publisher[q]
  BY <1>0, OldBus
<1>4. /\ channel' \in [Subscribers -> Channels]
      /\ missed' \in [Subscribers -> SUBSET Events]
      /\ \A v \in Subscribers : /\ channel'[v].state = channel[v].state
                                /\ v # s => channel'[v] = channel[v] /\ missed'[v] = missed[v]
      /\ \/ channel'[s].buffer = Append(channel[s].buffer, e) /\ missed'[s] = missed[s]
         \/ channel'[s].buffer = channel[s].buffer /\ missed'[s] = missed[s] \cup {e}
  <2>1. CASE Len(channel[s].buffer) < BusBuffer
    <3>1. channel' = [channel EXCEPT ![s].buffer = Append(channel[s].buffer, e)] /\ missed' = missed
      BY <1>0, <1>1, <2>1 DEF Offer
    <3>2. Append(channel[s].buffer, e) \in Seq(Events)
      BY <1>1, OldBus, AppendFacts
    <3> QED BY <1>1, <3>1, <3>2, OldBus DEF Channels
  <2>2. CASE ~(Len(channel[s].buffer) < BusBuffer)
    <3>1. missed' = [missed EXCEPT ![s] = @ \cup {e}] /\ channel' = channel
      BY <1>0, <1>1, <2>2 DEF Offer
    <3> QED BY <1>1, <3>1, OldBus
  <2> QED BY <2>1, <2>2
<1>5. HubTyped'
  BY <1>0, <1>2, <1>3, <1>4 DEF HubInv, HubTyped
<1>6. TodoOpen'
  <2> SUFFICES ASSUME NEW q \in Publishers, NEW v \in publisher'[q].todo
               PROVE  channel'[v].state = "open"
      BY DEF TodoOpen
  <2>1. v \in publisher[q].todo /\ v \in Subscribers
    BY <1>3, OldBus
  <2> QED BY <1>4, <2>1 DEF HubInv, TodoOpen
<1>7. ASSUME NEW v \in Subscribers, v # s PROVE DeliveredTo(v)'
  <2> DEFINE all == taken[v] \o channel[v].buffer
  <2>1. all \in Seq(Events) /\ Delivered(v, all, missed[v], publisher)
    BY OldBus
  <2>2. (taken[v] \o channel[v].buffer)' = all /\ missed'[v] = missed[v]
    BY <1>0, <1>4, <1>7
  <2>3. \A q \in Publishers : /\ publisher'[q].begun = publisher[q].begun
                              /\ v \in publisher'[q].todo <=> v \in publisher[q].todo
    BY <1>3, <1>7
  <2> HIDE DEF all
  <2>4. Delivered(v, all, missed[v], publisher')
    BY <2>1, <2>3, OldBus, OtherIsServed
  <2> QED BY <2>2, <2>4 DEF DeliveredTo
<1>8. DeliveredTo(s)'
  <2> DEFINE all == taken[s] \o channel[s].buffer
             all2 == taken[s] \o channel'[s].buffer
  <2>1. all \in Seq(Events) /\ Delivered(s, all, missed[s], publisher)
    BY <1>1, OldBus
  <2>2. \/ all2 = Append(all, e) /\ missed'[s] = missed[s]
        \/ all2 = all /\ missed'[s] = missed[s] \cup {e}
    <3>1. taken[s] \in Seq(Events) /\ channel[s].buffer \in Seq(Events)
      BY <1>1, OldBus
    <3>2. taken[s] \o Append(channel[s].buffer, e) = Append(all, e)
      <4>1. ASSUME NEW g \in Seq(Events), NEW b \in Seq(Events)
            PROVE  g \o Append(b, e) = Append(g \o b, e)
        BY <1>1, TailGrows
      <4> QED BY <3>1, <4>1
    <3> QED BY <1>4, <3>2
  <2>3. (taken[s] \o channel[s].buffer)' = all2
    BY <1>0
  <2>4. all2 \in Seq(Events)
    <3>1. Append(all, e) \in Seq(Events)
      <4> HIDE DEF all
      <4> QED BY <1>1, <2>1, AppendFacts
    <3> QED BY <2>1, <2>2, <3>1
  <2>5. s \in publisher[p].todo /\ s \notin publisher'[p].todo
    BY <1>3
  <2> DEFINE ms == missed[s]
             ms2 == missed'[s]
             pub == publisher
             pub2 == publisher'
  <2>6. pub \in [Publishers -> [begun : Nat, todo : SUBSET Subscribers]]
        /\ pub2 \in [Publishers -> [begun : Nat, todo : SUBSET Subscribers]]
    BY <1>3, OldBus
  <2>7. /\ s \in pub[p].todo /\ pub2[p].begun = pub[p].begun /\ s \notin pub2[p].todo
        /\ \A q \in Publishers : q # p => pub2[q] = pub[q]
        /\ \/ all2 = Append(all, <<p, pub[p].begun>>) /\ ms2 = ms
           \/ all2 = all /\ ms2 = ms \cup {<<p, pub[p].begun>>}
        /\ Delivered(s, all, ms, pub)
    BY <1>3, <2>1, <2>2, <2>5 DEF e
  <2> HIDE DEF all, all2, ms, ms2, pub, pub2
  <2>8. Delivered(s, all2, ms2, pub2)
    BY <1>1, <2>1, <2>4, <2>6, <2>7, EventIsOffered
  <2> QED BY <2>3, <2>8 DEF DeliveredTo, ms2, pub2
<1>9. \A v \in Subscribers : DeliveredTo(v)'
  BY <1>7, <1>8
<1> QED BY <1>0, <1>5, <1>6, <1>9, ClientsStay DEF HubInv

(* A receiver takes the head of its buffer.                                *)
LEMMA HeadIsTaken ==
  ASSUME HubInv, NEW s \in Subscribers, channel[s].buffer # <<>>,
         taken' = [taken EXCEPT ![s] = Append(@, Head(channel[s].buffer))],
         channel' = [channel EXCEPT ![s].buffer = Tail(@)], UNCHANGED <<publisher, missed>>
  PROVE  /\ channel' \in [Subscribers -> Channels]
         /\ taken' \in [Subscribers -> Seq(Events)] /\ Head(channel[s].buffer) \in Events
         /\ TodoOpen' /\ \A v \in Subscribers : DeliveredTo(v)'
<1> DEFINE b == channel[s].buffer
           t == taken[s]
<1>1. b \in Seq(Events) /\ t \in Seq(Events) /\ b # <<>>
  BY OldBus
<1> HIDE DEF b, t
<1>2. /\ Head(b) \in Events /\ Tail(b) \in Seq(Events) /\ Append(t, Head(b)) \in Seq(Events)
      /\ Append(t, Head(b)) \o Tail(b) = t \o b
  BY <1>1, HeadMoves
<1>3. taken' = [taken EXCEPT ![s] = Append(t, Head(b))] /\ channel' = [channel EXCEPT ![s].buffer = Tail(b)]
  BY DEF t, b
<1>4. /\ channel' \in [Subscribers -> Channels]
      /\ taken' \in [Subscribers -> Seq(Events)]
      /\ taken'[s] = Append(t, Head(b)) /\ channel'[s].buffer = Tail(b)
      /\ \A v \in Subscribers : /\ channel'[v].state = channel[v].state
                                /\ v # s => (channel'[v] = channel[v] /\ taken'[v] = taken[v])
  <2>1. taken' \in [Subscribers -> Seq(Events)] /\ taken'[s] = Append(t, Head(b))
        /\ \A v \in Subscribers : v # s => taken'[v] = taken[v]
    BY <1>2, <1>3, OldBus
  <2> DEFINE r == Tail(b)
  <2>2. r \in Seq(Events) /\ channel' = [channel EXCEPT ![s].buffer = r]
    BY <1>2, <1>3
  <2> HIDE DEF r
  <2>3. /\ channel' \in [Subscribers -> Channels]
        /\ channel'[s].buffer = r
        /\ \A v \in Subscribers : /\ channel'[v].state = channel[v].state
                                  /\ v # s => channel'[v] = channel[v]
    <3> DEFINE u == [channel[s] EXCEPT !.buffer = r]
    <3>1. u \in Channels
          /\ u.buffer = r /\ u.state = channel[s].state
      <4>1. channel[s] \in Channels
        BY OldBus
      <4>2. ASSUME NEW k \in Channels
            PROVE  LET v == [k EXCEPT !.buffer = r] IN
                   /\ v \in Channels
                   /\ v.buffer = r /\ v.state = k.state
        BY <2>2 DEF Channels
      <4> QED BY <4>1, <4>2
    <3>2. channel' = [channel EXCEPT ![s] = u]
      BY <2>2
    <3> HIDE DEF u
    <3>3. /\ channel' \in [Subscribers -> Channels]
          /\ channel'[s] = u /\ \A v \in Subscribers : v # s => channel'[v] = channel[v]
      <4>1. channel \in [Subscribers -> Channels]
        BY OldBus
      <4> QED BY <3>1, <3>2, <4>1
    <3> QED BY <3>1, <3>3
  <2> QED BY <2>1, <2>3 DEF r
<1>5. TodoOpen'
  <2> SUFFICES ASSUME NEW q \in Publishers, NEW v \in publisher'[q].todo
               PROVE  channel'[v].state = "open"
      BY DEF TodoOpen
  <2>1. v \in publisher[q].todo /\ v \in Subscribers
    BY OldBus
  <2> QED BY <1>4, <2>1 DEF HubInv, TodoOpen
<1>6. ASSUME NEW v \in Subscribers PROVE DeliveredTo(v)'
  <2>1. (taken[v] \o channel[v].buffer)' = taken[v] \o channel[v].buffer
    <3>1. CASE v = s
      BY <1>2, <1>4, <3>1 DEF t, b
    <3>2. CASE v # s
      BY <1>4, <3>2
    <3> QED BY <3>1, <3>2
  <2>2. DeliveredTo(v)
    BY DEF HubInv
  <2> QED BY <2>1, <2>2 DEF DeliveredTo
<1> QED BY <1>2, <1>4, <1>5, <1>6 DEF b

LEMMA ForwardHub ==
  ASSUME HubInv, Forward
  PROVE  HubInv'
<1>1. /\ channel["desktop"].buffer # <<>>
      /\ taken' = [taken EXCEPT !["desktop"] = Append(@, Head(channel["desktop"].buffer))]
      /\ channel' = [channel EXCEPT !["desktop"].buffer = Tail(@)]
      /\ UNCHANGED <<publisher, missed, client, served, panicked>> /\ "desktop" \in Subscribers
  BY DEF Forward, Subscribers
<1>2. /\ channel' \in [Subscribers -> Channels]
      /\ taken' \in [Subscribers -> Seq(Events)]
      /\ TodoOpen' /\ \A v \in Subscribers : DeliveredTo(v)'
  BY <1>1, HeadIsTaken
<1>3. HubTyped'
  BY <1>1, <1>2 DEF HubInv, HubTyped
<1>4. taken'["hub"] = taken["hub"]
  BY <1>1, OldBus DEF Subscribers
<1>5. ASSUME NEW c \in Clients PROVE FedClient(c)'
  <2>1. FedClient(c)
    BY DEF HubInv
  <2> QED BY <1>1, <1>4, <2>1 DEF FedClient
<1> QED BY <1>2, <1>3, <1>5 DEF HubInv

LEMMA BroadcastHub ==
  ASSUME HubInv, Broadcast
  PROVE  HubInv'
<1> DEFINE e == Head(channel["hub"].buffer)
           h == taken["hub"]
           slow == {c \in served : Full(c)}
<1>1. /\ channel["hub"].buffer # <<>>
      /\ taken' = [taken EXCEPT !["hub"] = Append(@, Head(channel["hub"].buffer))]
      /\ channel' = [channel EXCEPT !["hub"].buffer = Tail(@)]
      /\ UNCHANGED <<publisher, missed>> /\ "hub" \in Subscribers
  BY DEF Broadcast, Subscribers
<1>2. /\ channel' \in [Subscribers -> Channels]
      /\ taken' \in [Subscribers -> Seq(Events)] /\ e \in Events
      /\ TodoOpen' /\ \A v \in Subscribers : DeliveredTo(v)'
  BY <1>1, HeadIsTaken
<1>3. taken'["hub"] = Append(h, e) /\ h \in Seq(Events)
  BY <1>1, OldBus
<1>4. /\ client' = [c \in Clients |->
           IF c \in slow THEN [client[c] EXCEPT !.closed = TRUE]
           ELSE IF c \in served /\ Len(client[c].send) < ClientBuffer
                THEN [client[c] EXCEPT !.send = Append(@, e)] ELSE client[c]]
      /\ served' = served \ slow
      /\ panicked' = (panicked \/ \E c \in served : client[c].closed)
  BY DEF Broadcast
<1>5. \A c : c \in slow <=> (c \in served /\ Len(client[c].send) = ClientBuffer)
  BY DEF Full
<1> HIDE DEF e, h, slow
<1>6. panicked' = panicked
  <2>1. ASSUME NEW c \in served PROVE ~client[c].closed
    <3>1. c \in Clients
      BY DEF HubInv, HubTyped
    <3>2. Fed(client[c], taken["hub"], c, served)
      BY <3>1, OldClient
    <3> QED BY <3>2 DEF Fed
  <2> QED BY <1>4, <2>1 DEF HubInv, HubTyped
<1>7. ASSUME NEW c \in Clients
      PROVE  client'[c] \in HubClients /\ Fed(client'[c], Append(h, e), c, served')
  <2> DEFINE x == client[c]
             y == client'[c]
  <2>1. x \in HubClients /\ Fed(x, h, c, served)
    BY OldClient DEF h
  <2>2. CASE c \in slow
    <3>1. y = [x EXCEPT !.closed = TRUE] /\ c \in served /\ c \notin served'
      BY <1>4, <1>5, <2>2
    <3>2. y \in HubClients
      BY <2>1, <3>1 DEF HubClients
    <3> HIDE DEF x, y
    <3>3. Fed(y, Append(h, e), c, served')
      BY <1>2, <1>3, <2>1, <3>1, <3>2, ClientIsDropped
    <3> QED BY <3>2, <3>3 DEF y
  <2>3. CASE c \in served /\ c \notin slow
    <3>1. Len(x.send) < ClientBuffer
      <4>1. Len(x.send) \in Nat
        BY <2>1, ClientLengths
      <4> QED BY <1>5, <2>1, <2>3, <4>1, HubAssumption DEF Fed
    <3>2. y = [x EXCEPT !.send = Append(@, e)]
      BY <1>4, <2>3, <3>1
    <3>3. y \in HubClients
      <4>1. Append(x.send, e) \in Seq(Events)
        <5>1. x.send \in Seq(Events)
          BY <2>1, ClientLengths
        <5> QED BY <1>2, <5>1, AppendFacts
      <4> HIDE DEF x, y
      <4> QED BY <2>1, <3>2, <4>1 DEF HubClients
    <3> HIDE DEF x, y
    <3>4. Fed(y, Append(h, e), c, served')
      BY <1>2, <1>3, <2>1, <2>3, <3>1, <3>2, <3>3, ClientIsServed
    <3> QED BY <3>3, <3>4 DEF y
  <2>4. CASE c \notin served
    <3>1. y = x /\ c \notin served'
      BY <1>4, <1>5, <2>4
    <3> HIDE DEF x, y
    <3>2. Fed(x, Append(h, e), c, served')
      BY <1>2, <1>3, <2>1, <2>4, <3>1, ClientIsLeftOut
    <3> QED BY <2>1, <3>1, <3>2 DEF y
  <2> QED BY <2>2, <2>3, <2>4
<1>8. HubTyped'
  <2>1. client' \in [Clients -> HubClients]
    BY <1>4, <1>7
  <2>2. served' \subseteq Clients
    BY <1>4, OldClient DEF HubInv, HubTyped
  <2> QED BY <1>1, <1>2, <1>6, <2>1, <2>2 DEF HubInv, HubTyped
<1>9. \A c \in Clients : FedClient(c)'
  BY <1>3, <1>7 DEF FedClient
<1> QED BY <1>2, <1>8, <1>9 DEF HubInv

LEMMA HubStep == HubInv /\ [HubNext]_hubVars => HubInv'
<1> SUFFICES ASSUME HubInv, [HubNext]_hubVars PROVE HubInv'
    OBVIOUS
<1>1. ASSUME NEW s \in Subscribers, Subscribe(s) PROVE HubInv'
  BY <1>1, SubscribeHub
<1>2. ASSUME NEW p \in Publishers, Publish(p) \/ Serve(p) PROVE HubInv'
  BY <1>2, PublishHub, ServeHub
<1>3. CASE CancelSubscription \/ Forward \/ Broadcast
  BY <1>3, SubscribeHub, ForwardHub, BroadcastHub DEF Subscribers
<1>4. ASSUME NEW c \in Clients,
             \/ Connect(c) \/ Leave(c) \/ Register(c) \/ Unregister(c)
             \/ ClientReadFails(c) \/ WriteMessage(c) \/ WriteEnds(c)
      PROVE  HubInv'
  BY <1>4, ConnectHub, LeaveHub, RegisterHub, UnregisterHub, ClientReadFailsHub, WriteMessageHub,
     WriteEndsHub
<1>5. CASE UNCHANGED hubVars
  <2>1. HubTyped' /\ TodoOpen'
    BY <1>5 DEF hubVars, HubInv, HubTyped, TodoOpen
  <2>2. ASSUME NEW s \in Subscribers PROVE DeliveredTo(s)'
    <3>1. DeliveredTo(s)
      BY DEF HubInv
    <3> QED BY <1>5, <3>1 DEF hubVars, DeliveredTo
  <2> QED BY <1>5, <2>1, <2>2, ClientsStay DEF hubVars, HubInv
<1> QED BY <1>1, <1>2, <1>3, <1>4, <1>5 DEF HubNext

LEMMA HubInitInv == HubInit => HubInv
<1> SUFFICES ASSUME HubInit PROVE HubInv
    OBVIOUS
<1>0. <<>> \in Seq(Events) /\ Len(<<>>) = 0 /\ <<>> \o <<>> = <<>>
  BY EmptySeq, ConcatEmptySeq
<1>1. HubTyped
  BY <1>0 DEF HubInit, HubTyped, NewClient, HubClients, Channels
<1>2. TodoOpen
  BY DEF HubInit, TodoOpen
<1>3. ASSUME NEW s \in Subscribers PROVE DeliveredTo(s)
  <2>1. taken[s] \o channel[s].buffer = <<>>
    BY <1>0 DEF HubInit
  <2>2. Ordered(<<>>) /\ Numbered(s, <<>>, publisher)
    BY DEF Ordered, Numbered
  <2>3. Complete(s, <<>>, missed[s], publisher)
    BY DEF Complete, HubInit
  <2> QED BY <2>1, <2>2, <2>3 DEF DeliveredTo, Delivered
<1>4. ASSUME NEW c \in Clients PROVE FedClient(c)
  <2>1. client[c] = NewClient /\ c \notin served
    BY DEF HubInit
  <2>2. 0 <= ClientBuffer
    BY HubAssumption
  <2> QED BY <1>0, <2>1, <2>2 DEF FedClient, Fed, NewClient
<1> QED BY <1>1, <1>2, <1>3, <1>4 DEF HubInv

LEMMA InvGivesHub == HubInv => EventsInOrder
<1> SUFFICES ASSUME HubInv PROVE EventsInOrder
    OBVIOUS
<1>1. ~panicked
  BY DEF HubInv, HubTyped
<1>2. ASSUME NEW s \in Subscribers
      PROVE  LET all == taken[s] \o channel[s].buffer IN
             /\ \A i, j \in DOMAIN all : i < j /\ all[i][1] = all[j][1] => all[i][2] < all[j][2]
             /\ \A p \in Publishers : \A k \in 1..publisher[p].begun :
                  \/ <<p, k>> \in missed[s] \cup ToSet(all)
                  \/ k = publisher[p].begun /\ s \in publisher[p].todo
  BY OldBus DEF Delivered, Ordered, Complete
<1>3. ASSUME NEW c \in Clients
      PROVE  LET run == client[c].got \o client[c].send IN
             /\ Len(client[c].send) <= ClientBuffer
             /\ client[c].write = "writing" =>
                  IsPrefix(run, SubSeq(taken["hub"], client[c].since + 1, Len(taken["hub"])))
             /\ c \in served => ~client[c].closed /\ client[c].since + Len(run) <= Len(taken["hub"])
             /\ c \in served /\ client[c].write = "writing" =>
                  client[c].since + Len(run) = Len(taken["hub"])
  <2> DEFINE x == client[c]
             h == taken["hub"]
             r == x.got \o x.send
             rest == SubSeq(h, x.since + 1, Len(h))
             n == Len(r)
  <2>1. x \in HubClients /\ h \in Seq(Events) /\ Fed(x, h, c, served)
    BY OldClient
  <2>2. x.since \in Nat /\ r \in Seq(Events) /\ n \in Nat /\ Len(h) \in Nat
    BY <2>1, ClientLengths, LenProperties
  <2>3. ASSUME x.write = "writing" PROVE IsPrefix(r, rest)
    <3>1. x.since + n <= Len(h) /\ \A i \in 1..n : r[i] = h[x.since + i]
      BY <2>1, <2>3 DEF Fed, Behind, RunOf
    <3> HIDE DEF x, h, r, n, rest
    <3>2. x.since \in 0..Len(h)
      BY <2>2, <3>1
    <3>3. /\ rest \in Seq(Events) /\ Len(rest) = Len(h) - x.since
          /\ \A i \in 1..Len(rest) : rest[i] = h[x.since + i]
      <4>1. /\ rest \in Seq(Events) /\ Len(rest) = Len(h) - x.since
            /\ \A i \in 1..(Len(h) - x.since) : rest[i] = h[i + x.since]
        BY <2>1, <3>2, SuffixElements DEF rest
      <4>2. ASSUME NEW i \in 1..Len(rest) PROVE rest[i] = h[x.since + i]
        <5>1. i + x.since = x.since + i
          BY <2>2, <4>1
        <5> QED BY <4>1, <5>1
      <4> QED BY <4>1, <4>2
    <3>4. n <= Len(rest) /\ n = Len(r)
      BY <2>2, <3>1, <3>3 DEF n
    <3>5. /\ SubSeq(rest, 1, n) \in Seq(Events) /\ Len(SubSeq(rest, 1, n)) = n
          /\ \A i \in 1..n : SubSeq(rest, 1, n)[i] = rest[i]
      <4>1. \A i \in 1..n : rest[i] \in Events
        BY <2>2, <3>3, <3>4, ElementOfSeq
      <4>2. /\ SubSeq(rest, 1, n) \in Seq(Events)
            /\ Len(SubSeq(rest, 1, n)) = IF 1 <= n THEN n - 1 + 1 ELSE 0
            /\ \A i \in 1..(n - 1 + 1) : SubSeq(rest, 1, n)[i] = rest[1 + i - 1]
        BY <2>2, <4>1, SubSeqProperties
      <4> QED BY <2>2, <4>2
    <3>6. /\ SubSeq(r, 1, n) \in Seq(Events) /\ Len(SubSeq(r, 1, n)) = n
          /\ \A i \in 1..n : SubSeq(r, 1, n)[i] = r[i]
      <4>1. \A i \in 1..n : r[i] \in Events
        BY <2>2, <3>4, ElementOfSeq
      <4>2. /\ SubSeq(r, 1, n) \in Seq(Events)
            /\ Len(SubSeq(r, 1, n)) = IF 1 <= n THEN n - 1 + 1 ELSE 0
            /\ \A i \in 1..(n - 1 + 1) : SubSeq(r, 1, n)[i] = r[1 + i - 1]
        BY <2>2, <4>1, SubSeqProperties
      <4> QED BY <2>2, <4>2
    <3>7. \A i \in 1..n : SubSeq(r, 1, n)[i] = SubSeq(rest, 1, n)[i]
      <4>1. \A i \in 1..n : rest[i] = h[x.since + i]
        BY <2>2, <3>3, <3>4
      <4> QED BY <3>1, <3>5, <3>6, <4>1
    <3>8. SubSeq(r, 1, n) = SubSeq(rest, 1, n)
      BY <3>5, <3>6, <3>7, SeqEqual
    <3> QED BY <3>4, <3>8 DEF IsPrefix
  <2>4. /\ Len(x.send) <= ClientBuffer
        /\ c \in served => (~x.closed /\ x.since + n <= Len(h))
        /\ (c \in served /\ x.write = "writing") => x.since + n = Len(h)
    BY <2>1 DEF Fed, Behind
  <2> QED BY <2>3, <2>4
<1> QED BY <1>1, <1>2, <1>3 DEF EventsInOrder

(* What reaches a subscriber is in the order its publisher emitted it, and *)
(* all of it but what met a full buffer; what reaches a client is a run of *)
(* what the hub received since it registered, without a gap; no closed     *)
(* channel is used or closed again (events.go:83, ws_hub.go:52): for every *)
(* number of publishers, events and clients and all sizes of the buffers.  *)
THEOREM HubStaysOrdered == HubSpec => []EventsInOrder
<1>1. HubInit => HubInv
  BY HubInitInv
<1>2. HubInv /\ [HubNext]_hubVars => HubInv'
  BY HubStep
<1>3. HubInv => EventsInOrder
  BY InvGivesHub
<1> QED BY <1>1, <1>2, <1>3, PTL DEF HubSpec
=============================================================================
