---------------------------- MODULE SessionStore ----------------------------
(***************************************************************************)
(* The session store of internal/service/sessions.go: a map from flow IDs  *)
(* to flows with the IDs in the order in which they came in, of which the  *)
(* newest `cap` are kept.  The store of WebSocket sessions and the one of  *)
(* streams in the same file are this store without Delete, SetCap and the  *)
(* callback.                                                               *)
(*                                                                         *)
(* A flow has one *flow.Flow from its start to its end, so the map is its  *)
(* set of keys.  Every operation is one critical section of s.mu; what it  *)
(* takes out is handed to onEvict when the lock has been released: until   *)
(* then it is in `evicting`.                                               *)
(***************************************************************************)
EXTENDS Integers, Sequences, SequencesExt

CONSTANTS
  Ids,    \* flow IDs
  Caps    \* capacities: MaxFlows of the configuration

ASSUME CapsAssumption == Caps \subseteq Nat \ {0} /\ Caps # {}

VARIABLES
  order,     \* s.order, the oldest first
  items,     \* the keys of s.items
  cap,       \* s.cap
  evicting   \* removed from the store, onEvict not yet called

storeVars == <<order, items, cap, evicting>>

StoreTypeOK ==
  /\ order \in Seq(Ids)
  /\ items \subseteq Ids
  /\ cap \in Caps
  /\ evicting \subseteq Ids

(* newSessionStore, which replaces a capacity that is not positive by the  *)
(* default.                                                                *)
StoreInit ==
  /\ order = <<>>
  /\ items = {}
  /\ cap \in Caps
  /\ evicting = {}

-----------------------------------------------------------------------------
(* Mutant of Excess: it trims to one more than the capacity.               *)
ExcessOffByOne(s, n) == IF Len(s) > n THEN Len(s) - n - 1 ELSE 0

(* trimLocked: how many of the oldest exceed capacity n.                   *)
Excess(s, n) == IF Len(s) > n THEN Len(s) - n ELSE 0

Oldest(s, n) == ToSet(SubSeq(s, 1, Excess(s, n)))

Newest(s, n) == SubSeq(s, Excess(s, n) + 1, Len(s))

(* put.  A flow that is already there only has its value replaced.         *)
PutNew(id) ==
  LET grown == Append(order, id) IN
  /\ id \notin items
  /\ order' = Newest(grown, cap)
  /\ items' = (items \ Oldest(grown, cap)) \cup {id}
  /\ evicting' = evicting \cup Oldest(grown, cap)

PutAgain(id) == id \in items /\ UNCHANGED <<order, items, evicting>>

Put(id) == (PutNew(id) \/ PutAgain(id)) /\ UNCHANGED cap

(* setCap ignores a capacity that is not positive.                         *)
SetCap(n) ==
  /\ n > 0
  /\ cap' = n
  /\ order' = Newest(order, n)
  /\ items' = items \ Oldest(order, n)
  /\ evicting' = evicting \cup Oldest(order, n)

Delete(id) ==
  /\ id \in items
  /\ items' = items \ {id}
  /\ order' = RemoveFirst(order, id)
  /\ evicting' = evicting \cup {id}
  /\ UNCHANGED cap

(* Mutant of Clear: nothing is handed to onEvict.                          *)
ClearSilently ==
  /\ items' = {}
  /\ order' = <<>>
  /\ UNCHANGED <<cap, evicting>>

Clear ==
  /\ items' = {}
  /\ order' = <<>>
  /\ evicting' = evicting \cup items
  /\ UNCHANGED cap

(* evictAll, outside the lock.                                             *)
OnEvict(id) ==
  /\ id \in evicting
  /\ evicting' = evicting \ {id}
  /\ UNCHANGED <<order, items, cap>>

StoreNext ==
  \/ \E id \in Ids : Put(id) \/ Delete(id) \/ OnEvict(id)
  \/ \E n \in Caps \cup {0} : SetCap(n)
  \/ Clear

StoreSpec == StoreInit /\ [][StoreNext]_storeVars

-----------------------------------------------------------------------------
NoDuplicates      == \A i, j \in DOMAIN order : order[i] = order[j] => i = j
OrderMatchesItems == ToSet(order) = items
Bounded           == Len(order) <= cap

(* The order and the map list the same flows, each once, and never more    *)
(* than the capacity, also right after it was lowered: list pages over one *)
(* and reads the other, and a flow that is only in the map would never be  *)
(* trimmed.                                                                *)
StoreSound == NoDuplicates /\ OrderMatchesItems /\ Bounded

(* Nothing leaves the store unnoticed: whatever a step takes out is handed *)
(* to onEvict, which removes its body from the disk.                       *)
NothingLost == [][items \ items' \subseteq evicting']_storeVars

(* What stays keeps the order in which it came in: an update of an old     *)
(* flow, or the removal of another, does not move it up or down the list.  *)
KeepsOrder ==
  [][\A id1, id2 \in items \cap items' :
       \A i1, i2 \in DOMAIN order, j1, j2 \in DOMAIN order' :
          /\ order[i1] = id1 /\ order[i2] = id2 /\ i1 < i2
          /\ order'[j1] = id1 /\ order'[j2] = id2
          => j1 < j2]_storeVars

(* Both: what leaves the store is handed on, and what stays keeps its      *)
(* place (sessions.go:67, 81).                                             *)
StoreKeeps == NothingLost /\ KeepsOrder
=============================================================================
