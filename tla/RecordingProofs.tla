-------------------------- MODULE RecordingProofs ---------------------------
(***************************************************************************)
(* Proofs about SessionStore, for any set of flow IDs and any capacities,  *)
(* about the store inside Recording, which implements it, about what the   *)
(* recorder leaves behind there, and about the pages a list is shown in.   *)
(*                                                                         *)
(* The invariant is the type invariant and the three parts of StoreSound:  *)
(* it is inductive as it stands.  The work is in what trimming and removal *)
(* do to the order (SequenceLemmas).                                       *)
(***************************************************************************)
EXTENDS Recording, Paging, SequenceLemmas, FiniteSetTheorems

StoreInv == StoreTypeOK /\ NoDuplicates /\ OrderMatchesItems /\ Bounded

-----------------------------------------------------------------------------
(* Trimming as the cut of a prefix.                                        *)
LEMMA ExcessBound ==
  ASSUME NEW s \in Seq(Ids), NEW n \in Nat
  PROVE  Excess(s, n) \in 0..Len(s) /\ Len(s) - Excess(s, n) <= n
<1>1. Len(s) \in Nat
  BY LenProperties
<1> QED BY <1>1 DEF Excess

(* The elements of what is left when the head is cut off.                  *)
LEMMA NewestElements ==
  ASSUME NEW s \in Seq(Ids), NEW n \in Nat
  PROVE  /\ Newest(s, n) \in Seq(Ids)
         /\ Len(Newest(s, n)) = Len(s) - Excess(s, n)
         /\ \A i \in 1..Len(Newest(s, n)) : Newest(s, n)[i] = s[i + Excess(s, n)]
  BY ExcessBound, SuffixElements DEF Newest

LEMMA TrimKeepsSet ==
  ASSUME NEW s \in Seq(Ids), NEW n \in Nat, Distinct(s)
  PROVE  /\ Distinct(Newest(s, n))
         /\ ToSet(Newest(s, n)) = ToSet(s) \ Oldest(s, n)
  BY ExcessBound, CutKeepsSet DEF Newest, Oldest

-----------------------------------------------------------------------------
(* The invariant.                                                          *)

LEMMA InitStoreInv == StoreInit => StoreInv
  BY CapsAssumption DEF StoreInit, StoreInv, StoreTypeOK, NoDuplicates, OrderMatchesItems,
                        Bounded, ToSet

(* Trimming a sequence of distinct IDs leaves the invariant true.          *)
LEMMA TrimInv ==
  ASSUME StoreInv, NEW s \in Seq(Ids), Distinct(s), cap' \in Caps,
         order' = Newest(s, cap'), items' = ToSet(s) \ Oldest(s, cap'),
         evicting' = evicting \cup Oldest(s, cap')
  PROVE  StoreInv'
<1>1. cap' \in Nat
  BY CapsAssumption
<1>2. ToSet(s) \subseteq Ids
  BY LenProperties, ElementOfSeq DEF ToSet
<1>3. Oldest(s, cap') \subseteq Ids
  <2>1. /\ Oldest(s, cap') = {s[i] : i \in 1..Excess(s, cap')}
        /\ Excess(s, cap') \in 0..Len(s)
    BY <1>1, ExcessBound, PrefixSet DEF Oldest
  <2>2. Len(s) \in Nat /\ \A i \in 1..Len(s) : s[i] \in Ids
    BY LenProperties, ElementOfSeq
  <2> QED BY <2>1, <2>2
<1>4. StoreTypeOK'
  BY <1>1, <1>2, <1>3, NewestElements DEF StoreInv, StoreTypeOK
<1>5. NoDuplicates' /\ OrderMatchesItems'
  BY <1>1, TrimKeepsSet DEF Distinct, NoDuplicates, OrderMatchesItems
<1>6. Bounded'
  BY <1>1, ExcessBound, NewestElements DEF Bounded
<1> QED BY <1>4, <1>5, <1>6 DEF StoreInv

(* The order with a newcomer at its end.                                   *)
LEMMA GrownOrder ==
  ASSUME StoreInv, NEW id \in Ids, id \notin items
  PROVE  /\ Append(order, id) \in Seq(Ids)
         /\ Distinct(Append(order, id))
         /\ ToSet(Append(order, id)) = items \cup {id}
<1>1. order \in Seq(Ids) /\ Distinct(order) /\ ToSet(order) = items
  BY DEF StoreInv, StoreTypeOK, NoDuplicates, OrderMatchesItems, Distinct
<1> QED BY <1>1, AppendKeepsSet

(* A newcomer is never trimmed itself: the capacity is at least one.       *)
LEMMA NewcomerStays ==
  ASSUME StoreInv, NEW id \in Ids, id \notin items
  PROVE  id \notin Oldest(Append(order, id), cap)
<1> DEFINE g == Append(order, id)
<1>1. /\ order \in Seq(Ids) /\ Len(order) \in Nat /\ DOMAIN order = 1..Len(order)
      /\ g \in Seq(Ids) /\ Len(g) = Len(order) + 1
      /\ \A i \in 1..Len(order) : g[i] = order[i]
  <2>1. order \in Seq(Ids)
    BY DEF StoreInv, StoreTypeOK
  <2> QED BY <2>1, AppendProperties, LenProperties
<1>2. cap \in Nat \ {0}
  BY CapsAssumption DEF StoreInv, StoreTypeOK
<1>3. Excess(g, cap) \in 0..Len(order)
  BY <1>1, <1>2 DEF Excess
<1>4. Oldest(g, cap) = {g[i] : i \in 1..Excess(g, cap)}
  BY <1>1, <1>2, ExcessBound, PrefixSet DEF Oldest
<1> HIDE DEF g
<1>5. \A i \in 1..Len(order) : order[i] \in items
  BY <1>1 DEF StoreInv, OrderMatchesItems, ToSet
<1>6. id \notin Oldest(g, cap)
  BY <1>1, <1>3, <1>4, <1>5
<1> QED BY <1>6 DEF g

(* The position of a stored ID.                                            *)
LEMMA StoredPosition ==
  ASSUME StoreInv, NEW id \in items
  PROVE  \E k \in DOMAIN order : order[k] = id
  BY DEF StoreInv, OrderMatchesItems, ToSet

LEMMA StepStoreInv == StoreInv /\ [StoreNext]_storeVars => StoreInv'
<1> SUFFICES ASSUME StoreInv, [StoreNext]_storeVars PROVE StoreInv'
    OBVIOUS
<1>0. /\ order \in Seq(Ids) /\ Distinct(order) /\ ToSet(order) = items
      /\ cap \in Caps /\ cap \in Nat
  BY CapsAssumption DEF StoreInv, StoreTypeOK, NoDuplicates, OrderMatchesItems, Distinct
<1>1. ASSUME NEW id \in Ids, PutNew(id), UNCHANGED cap PROVE StoreInv'
  <2> DEFINE g == Append(order, id)
  <2>1. g \in Seq(Ids) /\ Distinct(g) /\ ToSet(g) = items \cup {id}
    BY <1>1, GrownOrder DEF PutNew
  <2>2. id \notin Oldest(g, cap)
    BY <1>1, NewcomerStays DEF PutNew
  <2>3. /\ order' = Newest(g, cap') /\ cap' \in Caps
        /\ items' = ToSet(g) \ Oldest(g, cap')
        /\ evicting' = evicting \cup Oldest(g, cap')
    BY <1>0, <1>1, <2>1, <2>2 DEF PutNew
  <2> HIDE DEF g
  <2> QED BY <2>1, <2>3, TrimInv
<1>2. ASSUME NEW id \in Ids, PutAgain(id), UNCHANGED cap PROVE StoreInv'
  BY <1>2 DEF PutAgain, StoreInv, StoreTypeOK, NoDuplicates, OrderMatchesItems, Bounded
<1>3. ASSUME NEW n \in Caps \cup {0}, SetCap(n) PROVE StoreInv'
  <2>1. n \in Caps
    BY <1>3 DEF SetCap
  <2> QED BY <1>0, <1>3, <2>1, TrimInv DEF SetCap
<1>4. ASSUME NEW id \in Ids, Delete(id) PROVE StoreInv'
  <2>1. PICK k \in DOMAIN order : order[k] = id
    BY <1>4, StoredPosition DEF Delete
  <2>2. /\ order' \in Seq(Ids) /\ Len(order') = Len(order) - 1
        /\ Distinct(order') /\ ToSet(order') = items'
    BY <1>0, <1>4, <2>1, RemoveElements, RemoveKeepsSet DEF Delete
  <2>3. Len(order) \in Nat
    BY <1>0, LenProperties
  <2> QED BY <1>0, <1>4, <2>2, <2>3
          DEF Delete, StoreInv, StoreTypeOK, NoDuplicates, OrderMatchesItems, Bounded, Distinct
<1>5. CASE Clear
  BY <1>0, <1>5 DEF Clear, StoreInv, StoreTypeOK, NoDuplicates, OrderMatchesItems, Bounded, ToSet
<1>6. ASSUME NEW id \in Ids, OnEvict(id) PROVE StoreInv'
  BY <1>6 DEF OnEvict, StoreInv, StoreTypeOK, NoDuplicates, OrderMatchesItems, Bounded
<1>7. CASE UNCHANGED storeVars
  BY <1>7 DEF storeVars, StoreInv, StoreTypeOK, NoDuplicates, OrderMatchesItems, Bounded
<1> QED BY <1>1, <1>2, <1>3, <1>4, <1>5, <1>6, <1>7 DEF StoreNext, Put

LEMMA StoreInvariant == StoreSpec => []StoreInv
<1>1. StoreInit => StoreInv
  BY InitStoreInv
<1>2. StoreInv /\ [StoreNext]_storeVars => StoreInv'
  BY StepStoreInv
<1> QED BY <1>1, <1>2, PTL DEF StoreSpec

(* Every variable keeps its type, for any IDs and capacities.              *)
THEOREM StoreTypeCorrect == StoreSpec => []StoreTypeOK
<1>1. StoreInv => StoreTypeOK
  BY DEF StoreInv
<1> QED BY <1>1, StoreInvariant, PTL

(* The order and the map hold the same flows, each once, and never more    *)
(* than the capacity, whatever the sequence of puts, updates, deletions    *)
(* and changes of the capacity.                                            *)
THEOREM StoreStaysSound == StoreSpec => []StoreSound
<1>1. StoreInv => StoreSound
  BY DEF StoreInv, StoreSound
<1> QED BY <1>1, StoreInvariant, PTL

-----------------------------------------------------------------------------
(* What a step takes out of the map it hands to the eviction callback, so  *)
(* no body on the disk is left without one that may remove it.             *)
THEOREM NothingLeavesSilently == StoreSpec => NothingLost
<1>1. StoreInv /\ [StoreNext]_storeVars => [items \ items' \subseteq evicting']_storeVars
  <2> SUFFICES ASSUME StoreInv, StoreNext PROVE items \ items' \subseteq evicting'
      OBVIOUS
  <2>1. ASSUME NEW id \in Ids, Put(id) PROVE items \ items' \subseteq evicting'
    BY <2>1 DEF Put, PutNew, PutAgain
  <2>2. ASSUME NEW id \in Ids, Delete(id) PROVE items \ items' \subseteq evicting'
    BY <2>2 DEF Delete
  <2>3. ASSUME NEW id \in Ids, OnEvict(id) PROVE items \ items' \subseteq evicting'
    BY <2>3 DEF OnEvict
  <2>4. ASSUME NEW n \in Caps \cup {0}, SetCap(n) PROVE items \ items' \subseteq evicting'
    BY <2>4 DEF SetCap
  <2>5. CASE Clear
    BY <2>5 DEF Clear
  <2> QED BY <2>1, <2>2, <2>3, <2>4, <2>5 DEF StoreNext
<1> QED BY <1>1, StoreInvariant, PTL DEF StoreSpec, NothingLost

(* t keeps the order of the elements of X that s and t share.              *)
Ordered(s, t, X) ==
  \A id1, id2 \in X :
     \A i1, i2 \in DOMAIN s, j1, j2 \in DOMAIN t :
        /\ s[i1] = id1 /\ s[i2] = id2 /\ i1 < i2
        /\ t[j1] = id1 /\ t[j2] = id2
        => j1 < j2

LEMMA TrimOrdered ==
  ASSUME NEW s \in Seq(Ids), NEW n \in Nat, Distinct(s), NEW X
  PROVE  Ordered(s, Newest(s, n), X)
<1> DEFINE e == Excess(s, n)
           t == Newest(s, n)
<1>1. /\ Len(s) \in Nat /\ DOMAIN s = 1..Len(s)
      /\ e \in 0..Len(s) /\ t \in Seq(Ids) /\ Len(t) = Len(s) - e
      /\ \A i \in 1..Len(t) : t[i] = s[i + e]
      /\ DOMAIN t = 1..Len(t)
  BY ExcessBound, NewestElements, LenProperties
<1> HIDE DEF e, t
<1>2. ASSUME NEW i \in DOMAIN s, NEW j \in DOMAIN t, s[i] = t[j] PROVE i = j + e
  <2>1. j + e \in DOMAIN s /\ s[j + e] = s[i]
    BY <1>1, <1>2
  <2> QED BY <1>2, <2>1 DEF Distinct
<1>3. Ordered(s, t, X)
  <2> SUFFICES ASSUME NEW i1 \in DOMAIN s, NEW i2 \in DOMAIN s,
                      NEW j1 \in DOMAIN t, NEW j2 \in DOMAIN t,
                      s[i1] = t[j1], s[i2] = t[j2], i1 < i2
               PROVE  j1 < j2
      BY DEF Ordered
  <2>1. i1 = j1 + e /\ i2 = j2 + e
    BY <1>2
  <2> QED BY <1>1, <2>1
<1> QED BY <1>3 DEF t

LEMMA RemoveOrdered ==
  ASSUME NEW s \in Seq(Ids), Distinct(s), NEW k \in DOMAIN s, NEW X
  PROVE  Ordered(s, RemoveFirst(s, s[k]), X)
<1> DEFINE t == RemoveFirst(s, s[k])
           From(j) == IF j < k THEN j ELSE j + 1
<1>1. /\ Len(s) \in Nat /\ DOMAIN s = 1..Len(s) /\ k \in 1..Len(s)
      /\ t \in Seq(Ids) /\ Len(t) = Len(s) - 1 /\ DOMAIN t = 1..Len(t)
      /\ \A j \in 1..(Len(s) - 1) : t[j] = IF j < k THEN s[j] ELSE s[j + 1]
  BY RemoveElements, LenProperties
<1> HIDE DEF t
<1>2. ASSUME NEW i \in DOMAIN s, NEW j \in DOMAIN t, s[i] = t[j] PROVE i = From(j)
  <2>1. From(j) \in DOMAIN s /\ s[From(j)] = s[i]
    BY <1>1, <1>2
  <2> QED BY <1>2, <2>1 DEF Distinct
<1>3. Ordered(s, t, X)
  <2> SUFFICES ASSUME NEW i1 \in DOMAIN s, NEW i2 \in DOMAIN s,
                      NEW j1 \in DOMAIN t, NEW j2 \in DOMAIN t,
                      s[i1] = t[j1], s[i2] = t[j2], i1 < i2
               PROVE  j1 < j2
      BY DEF Ordered
  <2>1. i1 = From(j1) /\ i2 = From(j2)
    BY <1>2
  <2> QED BY <1>1, <2>1
<1> QED BY <1>3 DEF t

(* What stays in the store keeps its place relative to the rest: an update *)
(* moves no flow to the top, and a deletion swaps none.                    *)
THEOREM OrderIsKept == StoreSpec => KeepsOrder
<1> DEFINE Kept == Ordered(order, order', items \cap items')
<1>1. StoreInv /\ [StoreNext]_storeVars => [Kept]_storeVars
  <2> SUFFICES ASSUME StoreInv, StoreNext PROVE Kept
      OBVIOUS
  <2>0. /\ order \in Seq(Ids) /\ Distinct(order) /\ cap \in Nat
        /\ Len(order) \in Nat /\ DOMAIN order = 1..Len(order)
    <3>1. order \in Seq(Ids)
      BY DEF StoreInv, StoreTypeOK
    <3> QED BY <3>1, LenProperties, CapsAssumption
            DEF StoreInv, StoreTypeOK, NoDuplicates, Distinct
  <2>1. ASSUME NEW id \in Ids, PutNew(id) PROVE Kept
    <3> DEFINE g == Append(order, id)
    <3>1. /\ g \in Seq(Ids) /\ Distinct(g) /\ Len(g) = Len(order) + 1
          /\ DOMAIN g = 1..Len(g)
          /\ \A i \in 1..Len(order) : g[i] = order[i]
      BY <2>0, <2>1, GrownOrder, AppendProperties, LenProperties DEF PutNew
    <3>2. order' = Newest(g, cap)
      BY <2>1 DEF PutNew
    <3> HIDE DEF g
    <3>3. Ordered(g, order', items \cap items')
      BY <2>0, <3>1, <3>2, TrimOrdered
    <3>4. \A i \in DOMAIN order : i \in DOMAIN g /\ order[i] = g[i]
      BY <2>0, <3>1
    <3> QED BY <3>3, <3>4 DEF Ordered
  <2>2. ASSUME order' = order PROVE Kept
    <3> SUFFICES ASSUME NEW i1 \in DOMAIN order, NEW i2 \in DOMAIN order,
                        NEW j1 \in DOMAIN order, NEW j2 \in DOMAIN order,
                        order[i1] = order[j1], order[i2] = order[j2], i1 < i2
                 PROVE  j1 < j2
        BY <2>2 DEF Ordered
    <3> QED BY <2>0 DEF Distinct
  <2>3. ASSUME NEW id \in Ids, Delete(id) PROVE Kept
    <3>1. PICK k \in DOMAIN order : order[k] = id
      BY <2>3, StoredPosition DEF Delete
    <3> QED BY <2>0, <2>3, <3>1, RemoveOrdered DEF Delete
  <2>4. ASSUME NEW n \in Caps \cup {0}, SetCap(n) PROVE Kept
    <3>1. n \in Nat
      BY CapsAssumption
    <3> QED BY <2>0, <2>4, <3>1, TrimOrdered DEF SetCap
  <2>5. CASE Clear
    BY <2>5 DEF Clear, Ordered
  <2> QED BY <2>1, <2>2, <2>3, <2>4, <2>5 DEF StoreNext, Put, PutAgain, OnEvict
<1> QED BY <1>1, StoreInvariant, PTL DEF StoreSpec, KeepsOrder, Ordered

(* Both together: the store gives nothing up silently and moves nothing    *)
(* (sessions.go:67, 81).                                                   *)
THEOREM StoreStaysKept == StoreSpec => StoreKeeps
  BY NothingLeavesSilently, OrderIsKept DEF StoreKeeps

-----------------------------------------------------------------------------
(* The service uses the store through its operations alone.                *)
LEMMA StepUsesStore == [RecordingNext]_recordingVars => [StoreNext]_storeVars
<1> SUFFICES ASSUME RecordingNext PROVE [StoreNext]_storeVars
  BY DEF recordingVars, storeVars
<1>1. ASSUME NEW f \in Ids, Handler(f) PROVE [StoreNext]_storeVars
  BY <1>1 DEF Handler, Started, StartPut, StartEmit, Completed, CompleteCheck, CompletePut,
              Count, CompleteEmit, Stored, Untouched, StoreNext, storeVars
<1>2. ASSUME NEW f \in Ids, Resolver(f) PROVE [StoreNext]_storeVars
  BY <1>2 DEF Resolver, Resolved, UpdatedPut, UpdatedEmit, Stored, Untouched, StoreNext, storeVars
<1>3. CASE Switch
  BY <1>3 DEF Switch, Untouched
<1>4. CASE Manage
  BY <1>4 DEF Manage, Store, StoreNext
<1>5. CASE Evicted
  BY <1>5 DEF Evicted, StoreNext
<1> QED BY <1>1, <1>2, <1>3, <1>4, <1>5 DEF RecordingNext

(* Recording implements SessionStore: handlers, resolvers and the UI, in   *)
(* any number and interleaving, change the store by its operations only.   *)
THEOREM RecordingUsesStore == RecordingSpec => StoreSpec
<1>1. RecordingInit => StoreInit
  BY DEF RecordingInit
<1>2. [RecordingNext]_recordingVars => [StoreNext]_storeVars
  BY StepUsesStore
<1> QED BY <1>1, <1>2, PTL DEF RecordingSpec, StoreSpec

(* So what holds of the store holds of it in the running service: the list *)
(* is sound, nothing leaves it silently and nothing moves in it.           *)
THEOREM RecordingKeepsStore == RecordingSpec => []StoreSound /\ StoreKeeps
  BY RecordingUsesStore, StoreStaysSound, StoreStaysKept

-----------------------------------------------------------------------------
(* The switch, the store, the statistics and the events of a flow.         *)

RunTyped ==
  /\ recording \in BOOLEAN
  /\ handler \in [Ids -> HandlerSteps]
  /\ resolver \in [Ids -> ResolverSteps]
  /\ counted \in [Ids -> Nat]
  /\ events \in [Ids -> Seq(Events)]
  /\ captured \subseteq Ids
  /\ removed \subseteq Ids

(* A flow is counted once, on its way out; what has not begun is not       *)
(* captured, and a resent flow always is.                                  *)
Staged(f) ==
  /\ resolver[f] = "off" <=> handler[f] \in {"new", "start_put", "start_emit"}
  /\ handler[f] \in {"new", "start_put"} => f \notin captured
  /\ (f \in Imported /\ handler[f] \notin {"new", "start_put"}) => f \in captured
  /\ handler[f] = "complete_emit" => counted[f] = 1
  /\ handler[f] = "done" => counted[f] \in {0, 1}
  /\ handler[f] \notin {"complete_emit", "done"} => counted[f] = 0

(* A captured flow that never left the store is in it, but between the     *)
(* check that found it missing and the put that follows.                   *)
StaysIn(f) ==
  f \in captured \ removed =>
    /\ f \in items \/ handler[f] = "complete_put"
    /\ handler[f] # "complete_check"
    /\ handler[f] = "done" => counted[f] = 1

(* What is in the store, or on its way to be counted, was captured or      *)
(* updated.                                                                *)
CameFrom(f) ==
  \/ f \in captured \/ resolver[f] \in {"emit", "done"}
  \/ f \notin items /\ counted[f] = 0 /\ handler[f] \notin {"complete_put", "count"}

(* The events of a flow.                                                   *)
Told(f) ==
  /\ handler[f] \in {"new", "start_put", "start_emit"} => events[f] = <<>>
  /\ \A i \in DOMAIN events[f] : events[f][i] = "started" => i = 1
  /\ \A i \in DOMAIN events[f] :
       events[f][i] = "completed" => handler[f] = "done" /\ counted[f] = 1
  /\ \A i, j \in DOMAIN events[f] :
       (events[f][i] = "completed" /\ events[f][j] = "completed") => i = j

FlowTold(f) == Staged(f) /\ StaysIn(f) /\ CameFrom(f) /\ Told(f)

RecordingInv == StoreInv /\ RunTyped /\ \A f \in Ids : FlowTold(f)

LEMMA PutPuts ==
  ASSUME NEW f \in Ids, Stored(f)
  PROVE  /\ f \in items' /\ items' \subseteq items \cup {f}
         /\ removed' = removed \cup (items \ items')
  BY DEF Stored, Put, PutNew, PutAgain

(* What happens to one flow leaves what is said of the others true, also   *)
(* when it pushes them out of the store.                                   *)
LEMMA OthersStay ==
  ASSUME NEW f, NEW g \in Ids, g # f, FlowTold(g),
         items' \subseteq items \cup {f}, removed' = removed \cup (items \ items'),
         handler'[g] = handler[g], resolver'[g] = resolver[g], counted'[g] = counted[g],
         events'[g] = events[g], g \in captured' <=> g \in captured
  PROVE  FlowTold(g)'
<1>1. Staged(g)'
  BY DEF FlowTold, Staged
<1>2. StaysIn(g)'
  BY DEF FlowTold, StaysIn
<1>3. CameFrom(g)'
  BY DEF FlowTold, CameFrom
<1>4. Told(g)'
  BY DEF FlowTold, Told
<1> QED BY <1>1, <1>2, <1>3, <1>4 DEF FlowTold

LEMMA StartedTells ==
  ASSUME NEW f \in Ids, RecordingInv, Started(f)
  PROVE  RunTyped' /\ \A g \in Ids : FlowTold(g)'
<1>0. RunTyped /\ FlowTold(f) /\ (\A g \in Ids : FlowTold(g)) /\ items \subseteq Ids
  BY DEF RecordingInv, StoreInv, StoreTypeOK
<1>1. items' = items /\ removed' = removed
  BY DEF Started, Untouched, At, Goto, storeVars
<1>2. RunTyped'
  BY <1>0, <1>1 DEF Started, Untouched, At, Goto, RunTyped, HandlerSteps, ResolverSteps, Events
<1>3. Staged(f)'
  BY <1>0, <1>1 DEF Started, Untouched, At, Goto, RunTyped, FlowTold, Staged, HandlerSteps, ResolverSteps
<1>4. StaysIn(f)'
  BY <1>0, <1>1 DEF Started, Untouched, At, Goto, RunTyped, FlowTold, Staged, StaysIn
<1>5. CameFrom(f)'
  BY <1>0, <1>1 DEF Started, Untouched, At, Goto, RunTyped, FlowTold, Staged, CameFrom
<1>6. Told(f)'
  BY <1>0, <1>1 DEF Started, Untouched, At, Goto, RunTyped, FlowTold, Staged, Told
<1>7. ASSUME NEW g \in Ids, g # f PROVE FlowTold(g)'
  <2>1. /\ items' \subseteq items \cup {f} /\ removed' = removed \cup (items \ items')
        /\ handler'[g] = handler[g] /\ resolver'[g] = resolver[g] /\ counted'[g] = counted[g]
        /\ events'[g] = events[g] /\ (g \in captured' <=> g \in captured)
    BY <1>0, <1>1, <1>7 DEF Started, Untouched, At, Goto, RunTyped
  <2> QED BY <1>0, <1>7, <2>1, OthersStay
<1>8. FlowTold(f)'
  BY <1>3, <1>4, <1>5, <1>6 DEF FlowTold
<1> QED BY <1>2, <1>7, <1>8

LEMMA StartPutTells ==
  ASSUME NEW f \in Ids, RecordingInv, StartPut(f)
  PROVE  RunTyped' /\ \A g \in Ids : FlowTold(g)'
<1>0. RunTyped /\ FlowTold(f) /\ (\A g \in Ids : FlowTold(g)) /\ items \subseteq Ids
  BY DEF RecordingInv, StoreInv, StoreTypeOK
<1>1. f \in items' /\ items' \subseteq items \cup {f} /\ removed' = removed \cup (items \ items')
  BY PutPuts DEF StartPut
<1>2. RunTyped'
  BY <1>0, <1>1 DEF StartPut, Goto, At, RunTyped, HandlerSteps, ResolverSteps, Events
<1>3. Staged(f)'
  BY <1>0, <1>1 DEF StartPut, Goto, At, RunTyped, FlowTold, Staged, HandlerSteps, ResolverSteps
<1>4. StaysIn(f)'
  BY <1>0, <1>1 DEF StartPut, Goto, At, RunTyped, FlowTold, Staged, StaysIn
<1>5. CameFrom(f)'
  BY <1>0, <1>1 DEF StartPut, Goto, At, RunTyped, FlowTold, Staged, CameFrom
<1>6. Told(f)'
  BY <1>0, <1>1 DEF StartPut, Goto, At, RunTyped, FlowTold, Staged, Told
<1>7. ASSUME NEW g \in Ids, g # f PROVE FlowTold(g)'
  <2>1. /\ items' \subseteq items \cup {f} /\ removed' = removed \cup (items \ items')
        /\ handler'[g] = handler[g] /\ resolver'[g] = resolver[g] /\ counted'[g] = counted[g]
        /\ events'[g] = events[g] /\ (g \in captured' <=> g \in captured)
    BY <1>0, <1>1, <1>7 DEF StartPut, Goto, At, RunTyped
  <2> QED BY <1>0, <1>7, <2>1, OthersStay
<1>8. FlowTold(f)'
  BY <1>3, <1>4, <1>5, <1>6 DEF FlowTold
<1> QED BY <1>2, <1>7, <1>8

LEMMA StartEmitTells ==
  ASSUME NEW f \in Ids, RecordingInv, StartEmit(f)
  PROVE  RunTyped' /\ \A g \in Ids : FlowTold(g)'
<1>0. RunTyped /\ FlowTold(f) /\ (\A g \in Ids : FlowTold(g)) /\ items \subseteq Ids
  BY DEF RecordingInv, StoreInv, StoreTypeOK
<1>1. items' = items /\ removed' = removed
  BY DEF StartEmit, At, Goto, Emit, Untouched, storeVars
<1>2. RunTyped'
  BY <1>0, <1>1 DEF StartEmit, At, Goto, Emit, Untouched, RunTyped, HandlerSteps, ResolverSteps, Events
<1>3. Staged(f)'
  BY <1>0, <1>1 DEF StartEmit, At, Goto, Emit, Untouched, RunTyped, FlowTold, Staged, HandlerSteps, ResolverSteps
<1>4. StaysIn(f)'
  BY <1>0, <1>1 DEF StartEmit, At, Goto, Emit, Untouched, RunTyped, FlowTold, Staged, StaysIn
<1>5. CameFrom(f)'
  BY <1>0, <1>1 DEF StartEmit, At, Goto, Emit, Untouched, RunTyped, FlowTold, Staged, CameFrom
<1>6. Told(f)'
  BY <1>0, <1>1 DEF StartEmit, At, Goto, Emit, Untouched, RunTyped, FlowTold, Staged, Told
<1>7. ASSUME NEW g \in Ids, g # f PROVE FlowTold(g)'
  <2>1. /\ items' \subseteq items \cup {f} /\ removed' = removed \cup (items \ items')
        /\ handler'[g] = handler[g] /\ resolver'[g] = resolver[g] /\ counted'[g] = counted[g]
        /\ events'[g] = events[g] /\ (g \in captured' <=> g \in captured)
    BY <1>0, <1>1, <1>7 DEF StartEmit, At, Goto, Emit, Untouched, RunTyped
  <2> QED BY <1>0, <1>7, <2>1, OthersStay
<1>8. FlowTold(f)'
  BY <1>3, <1>4, <1>5, <1>6 DEF FlowTold
<1> QED BY <1>2, <1>7, <1>8

LEMMA CompletedTells ==
  ASSUME NEW f \in Ids, RecordingInv, Completed(f)
  PROVE  RunTyped' /\ \A g \in Ids : FlowTold(g)'
<1>0. RunTyped /\ FlowTold(f) /\ (\A g \in Ids : FlowTold(g)) /\ items \subseteq Ids
  BY DEF RecordingInv, StoreInv, StoreTypeOK
<1>1. items' = items /\ removed' = removed
  BY DEF Completed, At, Goto, Untouched, storeVars
<1>2. RunTyped'
  BY <1>0, <1>1 DEF Completed, At, Goto, Untouched, RunTyped, HandlerSteps, ResolverSteps, Events
<1>3. Staged(f)'
  BY <1>0, <1>1 DEF Completed, At, Goto, Untouched, RunTyped, FlowTold, Staged, HandlerSteps, ResolverSteps
<1>4. StaysIn(f)'
  BY <1>0, <1>1 DEF Completed, At, Goto, Untouched, RunTyped, FlowTold, Staged, StaysIn
<1>5. CameFrom(f)'
  BY <1>0, <1>1 DEF Completed, At, Goto, Untouched, RunTyped, FlowTold, Staged, CameFrom
<1>6. Told(f)'
  BY <1>0, <1>1 DEF Completed, At, Goto, Untouched, RunTyped, FlowTold, Staged, Told
<1>7. ASSUME NEW g \in Ids, g # f PROVE FlowTold(g)'
  <2>1. /\ items' \subseteq items \cup {f} /\ removed' = removed \cup (items \ items')
        /\ handler'[g] = handler[g] /\ resolver'[g] = resolver[g] /\ counted'[g] = counted[g]
        /\ events'[g] = events[g] /\ (g \in captured' <=> g \in captured)
    BY <1>0, <1>1, <1>7 DEF Completed, At, Goto, Untouched, RunTyped
  <2> QED BY <1>0, <1>7, <2>1, OthersStay
<1>8. FlowTold(f)'
  BY <1>3, <1>4, <1>5, <1>6 DEF FlowTold
<1> QED BY <1>2, <1>7, <1>8

LEMMA CompleteCheckTells ==
  ASSUME NEW f \in Ids, RecordingInv, CompleteCheck(f)
  PROVE  RunTyped' /\ \A g \in Ids : FlowTold(g)'
<1>0. RunTyped /\ FlowTold(f) /\ (\A g \in Ids : FlowTold(g)) /\ items \subseteq Ids
  BY DEF RecordingInv, StoreInv, StoreTypeOK
<1>1. items' = items /\ removed' = removed
  BY DEF CompleteCheck, At, Goto, Untouched, storeVars
<1>2. RunTyped'
  BY <1>0, <1>1 DEF CompleteCheck, At, Goto, Untouched, RunTyped, HandlerSteps, ResolverSteps, Events
<1>3. Staged(f)'
  BY <1>0, <1>1 DEF CompleteCheck, At, Goto, Untouched, RunTyped, FlowTold, Staged, HandlerSteps, ResolverSteps
<1>4. StaysIn(f)'
  BY <1>0, <1>1 DEF CompleteCheck, At, Goto, Untouched, RunTyped, FlowTold, Staged, StaysIn
<1>5. CameFrom(f)'
  BY <1>0, <1>1 DEF CompleteCheck, At, Goto, Untouched, RunTyped, FlowTold, Staged, CameFrom
<1>6. Told(f)'
  BY <1>0, <1>1 DEF CompleteCheck, At, Goto, Untouched, RunTyped, FlowTold, Staged, Told
<1>7. ASSUME NEW g \in Ids, g # f PROVE FlowTold(g)'
  <2>1. /\ items' \subseteq items \cup {f} /\ removed' = removed \cup (items \ items')
        /\ handler'[g] = handler[g] /\ resolver'[g] = resolver[g] /\ counted'[g] = counted[g]
        /\ events'[g] = events[g] /\ (g \in captured' <=> g \in captured)
    BY <1>0, <1>1, <1>7 DEF CompleteCheck, At, Goto, Untouched, RunTyped
  <2> QED BY <1>0, <1>7, <2>1, OthersStay
<1>8. FlowTold(f)'
  BY <1>3, <1>4, <1>5, <1>6 DEF FlowTold
<1> QED BY <1>2, <1>7, <1>8

LEMMA CompletePutTells ==
  ASSUME NEW f \in Ids, RecordingInv, CompletePut(f)
  PROVE  RunTyped' /\ \A g \in Ids : FlowTold(g)'
<1>0. RunTyped /\ FlowTold(f) /\ (\A g \in Ids : FlowTold(g)) /\ items \subseteq Ids
  BY DEF RecordingInv, StoreInv, StoreTypeOK
<1>1. f \in items' /\ items' \subseteq items \cup {f} /\ removed' = removed \cup (items \ items')
  BY PutPuts DEF CompletePut
<1>2. RunTyped'
  BY <1>0, <1>1 DEF CompletePut, At, Goto, RunTyped, HandlerSteps, ResolverSteps, Events
<1>3. Staged(f)'
  BY <1>0, <1>1 DEF CompletePut, At, Goto, RunTyped, FlowTold, Staged, HandlerSteps, ResolverSteps
<1>4. StaysIn(f)'
  BY <1>0, <1>1 DEF CompletePut, At, Goto, RunTyped, FlowTold, Staged, StaysIn
<1>5. CameFrom(f)'
  BY <1>0, <1>1 DEF CompletePut, At, Goto, RunTyped, FlowTold, Staged, CameFrom
<1>6. Told(f)'
  BY <1>0, <1>1 DEF CompletePut, At, Goto, RunTyped, FlowTold, Staged, Told
<1>7. ASSUME NEW g \in Ids, g # f PROVE FlowTold(g)'
  <2>1. /\ items' \subseteq items \cup {f} /\ removed' = removed \cup (items \ items')
        /\ handler'[g] = handler[g] /\ resolver'[g] = resolver[g] /\ counted'[g] = counted[g]
        /\ events'[g] = events[g] /\ (g \in captured' <=> g \in captured)
    BY <1>0, <1>1, <1>7 DEF CompletePut, At, Goto, RunTyped
  <2> QED BY <1>0, <1>7, <2>1, OthersStay
<1>8. FlowTold(f)'
  BY <1>3, <1>4, <1>5, <1>6 DEF FlowTold
<1> QED BY <1>2, <1>7, <1>8

LEMMA CountTells ==
  ASSUME NEW f \in Ids, RecordingInv, Count(f)
  PROVE  RunTyped' /\ \A g \in Ids : FlowTold(g)'
<1>0. RunTyped /\ FlowTold(f) /\ (\A g \in Ids : FlowTold(g)) /\ items \subseteq Ids
  BY DEF RecordingInv, StoreInv, StoreTypeOK
<1>1. items' = items /\ removed' = removed
  BY DEF Count, At, Goto, Untouched, storeVars
<1>2. RunTyped'
  BY <1>0, <1>1 DEF Count, At, Goto, Untouched, RunTyped, HandlerSteps, ResolverSteps, Events
<1>3. Staged(f)'
  BY <1>0, <1>1 DEF Count, At, Goto, Untouched, RunTyped, FlowTold, Staged, HandlerSteps, ResolverSteps
<1>4. StaysIn(f)'
  BY <1>0, <1>1 DEF Count, At, Goto, Untouched, RunTyped, FlowTold, Staged, StaysIn
<1>5. CameFrom(f)'
  BY <1>0, <1>1 DEF Count, At, Goto, Untouched, RunTyped, FlowTold, Staged, CameFrom
<1>6. Told(f)'
  BY <1>0, <1>1 DEF Count, At, Goto, Untouched, RunTyped, FlowTold, Staged, Told
<1>7. ASSUME NEW g \in Ids, g # f PROVE FlowTold(g)'
  <2>1. /\ items' \subseteq items \cup {f} /\ removed' = removed \cup (items \ items')
        /\ handler'[g] = handler[g] /\ resolver'[g] = resolver[g] /\ counted'[g] = counted[g]
        /\ events'[g] = events[g] /\ (g \in captured' <=> g \in captured)
    BY <1>0, <1>1, <1>7 DEF Count, At, Goto, Untouched, RunTyped
  <2> QED BY <1>0, <1>7, <2>1, OthersStay
<1>8. FlowTold(f)'
  BY <1>3, <1>4, <1>5, <1>6 DEF FlowTold
<1> QED BY <1>2, <1>7, <1>8

LEMMA CompleteEmitTells ==
  ASSUME NEW f \in Ids, RecordingInv, CompleteEmit(f)
  PROVE  RunTyped' /\ \A g \in Ids : FlowTold(g)'
<1>0. RunTyped /\ FlowTold(f) /\ (\A g \in Ids : FlowTold(g)) /\ items \subseteq Ids
  BY DEF RecordingInv, StoreInv, StoreTypeOK
<1>1. items' = items /\ removed' = removed
  BY DEF CompleteEmit, At, Goto, Untouched, storeVars
<1>2. RunTyped'
  <2>1. PICK response \in BOOLEAN :
          events' = [events EXCEPT ![f] = @ \o
            (IF response THEN <<"completed", "updated">> ELSE <<"updated">>)]
    BY DEF CompleteEmit
  <2> DEFINE new == IF response THEN <<"completed", "updated">> ELSE <<"updated">>
  <2>2. new \in Seq(Events) /\ events[f] \in Seq(Events)
    <3>1. <<"completed", "updated">> \in Seq(Events) /\ <<"updated">> \in Seq(Events)
      BY DEF Events
    <3> QED BY <1>0, <3>1 DEF RunTyped
  <2> HIDE DEF new
  <2>3. events[f] \o new \in Seq(Events)
    BY <2>2, ConcatProperties
  <2>4. events' \in [Ids -> Seq(Events)]
    BY <1>0, <2>1, <2>3 DEF RunTyped, new
  <2> QED BY <1>0, <1>1, <2>4 DEF CompleteEmit, At, Goto, RunTyped, HandlerSteps
<1>3. Staged(f)'
  BY <1>0, <1>1 DEF CompleteEmit, At, Goto, Untouched, RunTyped, FlowTold, Staged, HandlerSteps, ResolverSteps
<1>4. StaysIn(f)'
  BY <1>0, <1>1 DEF CompleteEmit, At, Goto, Untouched, RunTyped, FlowTold, Staged, StaysIn
<1>5. CameFrom(f)'
  BY <1>0, <1>1 DEF CompleteEmit, At, Goto, Untouched, RunTyped, FlowTold, Staged, CameFrom
<1>6. Told(f)'
  <2> DEFINE old == events[f]
             n == Len(old)
             now == events'[f]
  <2>1. PICK response \in BOOLEAN :
          events' = [events EXCEPT ![f] = @ \o
            (IF response THEN <<"completed", "updated">> ELSE <<"updated">>)]
    BY DEF CompleteEmit
  <2>2. /\ old \in Seq(Events) /\ n \in Nat /\ DOMAIN old = 1..n
        /\ \A i \in 1..n : old[i] # "completed" /\ (old[i] = "started" => i = 1)
    BY <1>0, LenProperties DEF RunTyped, FlowTold, Told, CompleteEmit, At
  <2>3. handler'[f] = "done" /\ counted'[f] = 1
    BY <1>0 DEF CompleteEmit, At, Goto, RunTyped, FlowTold, Staged
  <2>4. CASE response
    <3>1. now = old \o <<"completed", "updated">>
      BY <1>0, <2>1, <2>4 DEF RunTyped
    <3> HIDE DEF now, old
    <3>2. /\ DOMAIN now = 1..(n + 2) /\ \A i \in 1..n : now[i] = old[i]
          /\ now[n + 1] = "completed" /\ now[n + 2] = "updated"
      BY <2>2, <3>1
    <3>3. \A i \in DOMAIN now : i \in 1..n \/ i = n + 1 \/ i = n + 2
      BY <2>2, <3>2
    <3> HIDE DEF n
    <3> QED BY <2>2, <2>3, <3>2, <3>3 DEF Told, now
  <2>5. CASE ~response
    <3>1. now = old \o <<"updated">>
      BY <1>0, <2>1, <2>5 DEF RunTyped
    <3> HIDE DEF now, old
    <3>2. /\ DOMAIN now = 1..(n + 1) /\ \A i \in 1..n : now[i] = old[i]
          /\ now[n + 1] = "updated"
      BY <2>2, <3>1
    <3>3. \A i \in DOMAIN now : i \in 1..n \/ i = n + 1
      BY <2>2, <3>2
    <3> HIDE DEF n
    <3> QED BY <2>2, <2>3, <3>2, <3>3 DEF Told, now
  <2> QED BY <2>4, <2>5
<1>7. ASSUME NEW g \in Ids, g # f PROVE FlowTold(g)'
  <2>1. /\ items' \subseteq items \cup {f} /\ removed' = removed \cup (items \ items')
        /\ handler'[g] = handler[g] /\ resolver'[g] = resolver[g] /\ counted'[g] = counted[g]
        /\ events'[g] = events[g] /\ (g \in captured' <=> g \in captured)
    BY <1>0, <1>1, <1>7 DEF CompleteEmit, At, Goto, Untouched, RunTyped
  <2> QED BY <1>0, <1>7, <2>1, OthersStay
<1>8. FlowTold(f)'
  BY <1>3, <1>4, <1>5, <1>6 DEF FlowTold
<1> QED BY <1>2, <1>7, <1>8

LEMMA ResolvedTells ==
  ASSUME NEW f \in Ids, RecordingInv, Resolved(f)
  PROVE  RunTyped' /\ \A g \in Ids : FlowTold(g)'
<1>0. RunTyped /\ FlowTold(f) /\ (\A g \in Ids : FlowTold(g)) /\ items \subseteq Ids
  BY DEF RecordingInv, StoreInv, StoreTypeOK
<1>1. items' = items /\ removed' = removed
  BY DEF Resolved, ResolverGoto, Untouched, storeVars
<1>2. RunTyped'
  BY <1>0, <1>1 DEF Resolved, ResolverGoto, Untouched, RunTyped, HandlerSteps, ResolverSteps, Events
<1>3. Staged(f)'
  BY <1>0, <1>1 DEF Resolved, ResolverGoto, Untouched, RunTyped, FlowTold, Staged, HandlerSteps, ResolverSteps
<1>4. StaysIn(f)'
  BY <1>0, <1>1 DEF Resolved, ResolverGoto, Untouched, RunTyped, FlowTold, Staged, StaysIn
<1>5. CameFrom(f)'
  BY <1>0, <1>1 DEF Resolved, ResolverGoto, Untouched, RunTyped, FlowTold, Staged, CameFrom
<1>6. Told(f)'
  BY <1>0, <1>1 DEF Resolved, ResolverGoto, Untouched, RunTyped, FlowTold, Staged, Told
<1>7. ASSUME NEW g \in Ids, g # f PROVE FlowTold(g)'
  <2>1. /\ items' \subseteq items \cup {f} /\ removed' = removed \cup (items \ items')
        /\ handler'[g] = handler[g] /\ resolver'[g] = resolver[g] /\ counted'[g] = counted[g]
        /\ events'[g] = events[g] /\ (g \in captured' <=> g \in captured)
    BY <1>0, <1>1, <1>7 DEF Resolved, ResolverGoto, Untouched, RunTyped
  <2> QED BY <1>0, <1>7, <2>1, OthersStay
<1>8. FlowTold(f)'
  BY <1>3, <1>4, <1>5, <1>6 DEF FlowTold
<1> QED BY <1>2, <1>7, <1>8

LEMMA UpdatedPutTells ==
  ASSUME NEW f \in Ids, RecordingInv, UpdatedPut(f)
  PROVE  RunTyped' /\ \A g \in Ids : FlowTold(g)'
<1>0. RunTyped /\ FlowTold(f) /\ (\A g \in Ids : FlowTold(g)) /\ items \subseteq Ids
  BY DEF RecordingInv, StoreInv, StoreTypeOK
<1>1. f \in items' /\ items' \subseteq items \cup {f} /\ removed' = removed \cup (items \ items')
  BY PutPuts DEF UpdatedPut
<1>2. RunTyped'
  BY <1>0, <1>1 DEF UpdatedPut, ResolverGoto, RunTyped, HandlerSteps, ResolverSteps, Events
<1>3. Staged(f)'
  BY <1>0, <1>1 DEF UpdatedPut, ResolverGoto, RunTyped, FlowTold, Staged, HandlerSteps, ResolverSteps
<1>4. StaysIn(f)'
  BY <1>0, <1>1 DEF UpdatedPut, ResolverGoto, RunTyped, FlowTold, Staged, StaysIn
<1>5. CameFrom(f)'
  BY <1>0, <1>1 DEF UpdatedPut, ResolverGoto, RunTyped, FlowTold, Staged, CameFrom
<1>6. Told(f)'
  BY <1>0, <1>1 DEF UpdatedPut, ResolverGoto, RunTyped, FlowTold, Staged, Told
<1>7. ASSUME NEW g \in Ids, g # f PROVE FlowTold(g)'
  <2>1. /\ items' \subseteq items \cup {f} /\ removed' = removed \cup (items \ items')
        /\ handler'[g] = handler[g] /\ resolver'[g] = resolver[g] /\ counted'[g] = counted[g]
        /\ events'[g] = events[g] /\ (g \in captured' <=> g \in captured)
    BY <1>0, <1>1, <1>7 DEF UpdatedPut, ResolverGoto, RunTyped
  <2> QED BY <1>0, <1>7, <2>1, OthersStay
<1>8. FlowTold(f)'
  BY <1>3, <1>4, <1>5, <1>6 DEF FlowTold
<1> QED BY <1>2, <1>7, <1>8

LEMMA UpdatedEmitTells ==
  ASSUME NEW f \in Ids, RecordingInv, UpdatedEmit(f)
  PROVE  RunTyped' /\ \A g \in Ids : FlowTold(g)'
<1>0. RunTyped /\ FlowTold(f) /\ (\A g \in Ids : FlowTold(g)) /\ items \subseteq Ids
  BY DEF RecordingInv, StoreInv, StoreTypeOK
<1>1. items' = items /\ removed' = removed
  BY DEF UpdatedEmit, ResolverGoto, Emit, Untouched, storeVars
<1>2. RunTyped'
  BY <1>0, <1>1 DEF UpdatedEmit, ResolverGoto, Emit, Untouched, RunTyped, HandlerSteps, ResolverSteps, Events
<1>3. Staged(f)'
  BY <1>0, <1>1 DEF UpdatedEmit, ResolverGoto, Emit, Untouched, RunTyped, FlowTold, Staged, HandlerSteps, ResolverSteps
<1>4. StaysIn(f)'
  BY <1>0, <1>1 DEF UpdatedEmit, ResolverGoto, Emit, Untouched, RunTyped, FlowTold, Staged, StaysIn
<1>5. CameFrom(f)'
  BY <1>0, <1>1 DEF UpdatedEmit, ResolverGoto, Emit, Untouched, RunTyped, FlowTold, Staged, CameFrom
<1>6. Told(f)'
  BY <1>0, <1>1 DEF UpdatedEmit, ResolverGoto, Emit, Untouched, RunTyped, FlowTold, Staged, Told
<1>7. ASSUME NEW g \in Ids, g # f PROVE FlowTold(g)'
  <2>1. /\ items' \subseteq items \cup {f} /\ removed' = removed \cup (items \ items')
        /\ handler'[g] = handler[g] /\ resolver'[g] = resolver[g] /\ counted'[g] = counted[g]
        /\ events'[g] = events[g] /\ (g \in captured' <=> g \in captured)
    BY <1>0, <1>1, <1>7 DEF UpdatedEmit, ResolverGoto, Emit, Untouched, RunTyped
  <2> QED BY <1>0, <1>7, <2>1, OthersStay
<1>8. FlowTold(f)'
  BY <1>3, <1>4, <1>5, <1>6 DEF FlowTold
<1> QED BY <1>2, <1>7, <1>8

(* The user interface.                                                     *)
LEMMA StoreChanges ==
  ASSUME RecordingInv, UNCHANGED <<handler, resolver, counted, events, captured>>,
         recording' \in BOOLEAN, items' \subseteq items, items \subseteq Ids,
         removed' = removed \cup (items \ items')
  PROVE  RunTyped' /\ \A g \in Ids : FlowTold(g)'
<1>1. RunTyped'
  BY DEF RecordingInv, RunTyped
<1>2. ASSUME NEW g \in Ids PROVE FlowTold(g)'
  <2>1. FlowTold(g)
    BY DEF RecordingInv
  <2>2. Staged(g)'
    BY <2>1 DEF FlowTold, Staged
  <2>3. StaysIn(g)'
    BY <2>1 DEF FlowTold, StaysIn
  <2>4. CameFrom(g)'
    BY <2>1 DEF FlowTold, CameFrom
  <2>5. Told(g)'
    BY <2>1 DEF FlowTold, Told
  <2> QED BY <2>2, <2>3, <2>4, <2>5 DEF FlowTold
<1> QED BY <1>1, <1>2

LEMMA RecordingStep == RecordingInv /\ [RecordingNext]_recordingVars => RecordingInv'
<1> SUFFICES ASSUME RecordingInv, [RecordingNext]_recordingVars PROVE RecordingInv'
    OBVIOUS
<1>1. StoreInv'
  BY StepUsesStore, StepStoreInv DEF RecordingInv
<1>2. items \subseteq Ids /\ RunTyped
  BY DEF RecordingInv, StoreInv, StoreTypeOK
<1>3. ASSUME NEW f \in Ids, Handler(f) \/ Resolver(f)
      PROVE  RunTyped' /\ \A g \in Ids : FlowTold(g)'
  BY <1>3, StartedTells, StartPutTells, StartEmitTells, CompletedTells, CompleteCheckTells,
     CompletePutTells, CountTells, CompleteEmitTells, ResolvedTells, UpdatedPutTells,
     UpdatedEmitTells DEF Handler, Resolver
<1>4. ASSUME Switch PROVE RunTyped' /\ \A g \in Ids : FlowTold(g)'
  BY <1>2, <1>4, StoreChanges DEF Switch, Untouched, storeVars, RunTyped
<1>5. ASSUME Manage PROVE RunTyped' /\ \A g \in Ids : FlowTold(g)'
  <2>1. items' \subseteq items /\ removed' = removed \cup (items \ items')
    BY <1>5 DEF Manage, Store, Delete, Clear, SetCap
  <2> QED BY <1>2, <1>5, <2>1, StoreChanges DEF Manage, runVars, RunTyped
<1>6. ASSUME Evicted PROVE RunTyped' /\ \A g \in Ids : FlowTold(g)'
  <2>1. items' = items /\ removed' = removed
    BY <1>6 DEF Evicted, OnEvict
  <2> QED BY <1>2, <1>6, <2>1, StoreChanges DEF Evicted, runVars, RunTyped
<1>7. ASSUME UNCHANGED recordingVars PROVE RunTyped' /\ \A g \in Ids : FlowTold(g)'
  BY <1>2, <1>7, StoreChanges DEF recordingVars, runVars, storeVars, RunTyped
<1> QED BY <1>1, <1>3, <1>4, <1>5, <1>6, <1>7 DEF RecordingNext, RecordingInv

LEMMA RecordingInitInv == RecordingInit => RecordingInv
<1> SUFFICES ASSUME RecordingInit PROVE RecordingInv
    OBVIOUS
<1>1. StoreInv /\ items = {}
  BY InitStoreInv DEF RecordingInit, StoreInit
<1>2. RunTyped
  BY DEF RecordingInit, RunTyped, HandlerSteps, ResolverSteps
<1>3. ASSUME NEW f \in Ids PROVE FlowTold(f)
  BY <1>1 DEF RecordingInit, FlowTold, Staged, StaysIn, CameFrom, Told
<1> QED BY <1>1, <1>2, <1>3 DEF RecordingInv

LEMMA OneOrNone ==
  ASSUME NEW X, \A x, y \in X : x = y
  PROVE  Cardinality(X) <= 1
<1>1. CASE X = {}
  BY <1>1, FS_EmptySet
<1>2. ASSUME NEW x \in X PROVE Cardinality(X) <= 1
  <2>1. X = {x}
    OBVIOUS
  <2>2. Cardinality({x}) = 1
    BY FS_Singleton
  <2> QED BY <2>1, <2>2
<1> QED BY <1>1, <1>2

LEMMA InvGivesRecording == RecordingInv => RecordingAgrees
<1> SUFFICES ASSUME RecordingInv PROVE RecordingAgrees
    OBVIOUS
<1>0. RunTyped /\ StoreInv /\ \A f \in Ids : FlowTold(f)
  BY DEF RecordingInv
<1>1. RecordingTypeOK
  BY <1>0 DEF RunTyped, StoreInv, FlowTold, Staged, RecordingTypeOK
<1>2. CapturedIsCounted
  <2> SUFFICES ASSUME NEW f \in Ids
               PROVE  /\ counted[f] <= 1
                      /\ (handler[f] = "done" /\ f \in captured \ removed) =>
                           (counted[f] = 1 /\ f \in items)
      BY DEF CapturedIsCounted
  <2>1. counted[f] \in {0, 1}
    BY <1>0 DEF FlowTold, Staged
  <2> QED BY <1>0, <2>1 DEF FlowTold, StaysIn
<1>3. CountedWasStored
  BY <1>0 DEF CountedWasStored, FlowTold, CameFrom, RunTyped
<1>4. Announced
  <2> SUFFICES ASSUME NEW f \in Ids
               PROVE  LET at(event) == {i \in DOMAIN events[f] : events[f][i] = event} IN
                      /\ Cardinality(at("started")) <= 1 /\ Cardinality(at("completed")) <= 1
                      /\ \A i \in at("started") : i = 1
                      /\ at("completed") # {} => counted[f] = 1
      BY DEF Announced
  <2> DEFINE started == {i \in DOMAIN events[f] : events[f][i] = "started"}
             completed == {i \in DOMAIN events[f] : events[f][i] = "completed"}
  <2>1. /\ \A i \in started : i = 1
        /\ \A i, j \in completed : i = j
        /\ completed # {} => counted[f] = 1
    BY <1>0 DEF FlowTold, Told
  <2> HIDE DEF started, completed
  <2>2. Cardinality(started) <= 1 /\ Cardinality(completed) <= 1
    BY <2>1, OneOrNone
  <2> QED BY <2>1, <2>2 DEF started, completed
<1> QED BY <1>1, <1>2, <1>3, <1>4 DEF RecordingAgrees

(* A flow captured at its start and never taken out since is completed in  *)
(* the store and counted, once; what is counted was captured; and a        *)
(* completion is announced once, after the start and after it was counted  *)
(* (service.go:122-152): for any number of flows, whatever the switch and  *)
(* the user interface do between the steps.                                *)
THEOREM RecordingStaysAgreed == RecordingSpec => []RecordingAgrees
<1>1. RecordingInit => RecordingInv
  BY RecordingInitInv
<1>2. RecordingInv /\ [RecordingNext]_recordingVars => RecordingInv'
  BY RecordingStep
<1>3. RecordingInv => RecordingAgrees
  BY InvGivesRecording
<1> QED BY <1>1, <1>2, <1>3, PTL DEF RecordingSpec

-----------------------------------------------------------------------------
(* The pages of a list.                                                    *)

(* What fits in a word stays; a sum of two words that does not wraps to    *)
(* something negative.                                                     *)
LEMMA Fits == ASSUME NEW n \in Words PROVE Wrap(n) = n
<1>1. 0 <= n + MaxInt + 1 /\ n + MaxInt + 1 < 2 * MaxInt + 2
  BY PagingAssumption DEF Words
<1>. QED  BY <1>1, PagingAssumption DEF Wrap, Words

LEMMA WrapsBelow ==
  ASSUME NEW n \in Int, n > MaxInt, n <= 2 * MaxInt + 1
  PROVE  Wrap(n) \in Int /\ Wrap(n) < 0
<1>1. (n + MaxInt + 1) % (2 * MaxInt + 2) = n - MaxInt - 1
  BY PagingAssumption
<1>. QED  BY <1>1, PagingAssumption DEF Wrap

LEMMA WrapIsInt == ASSUME NEW n \in Int PROVE Wrap(n) \in Int
  BY PagingAssumption DEF Wrap

LEMMA ParamsTyped ==
  ASSUME NEW p \in Words, NEW s \in Words
  PROVE  Params(p, s).page \in 1..MaxInt /\ Params(p, s).size \in 1..MaxInt
  BY PagingAssumption DEF Params, Words

(* The bounds are within the list whatever wraps; as long as the first     *)
(* place is not beyond two words, they are those of unbounded integers.    *)
LEMMA BoundsWithin ==
  ASSUME NEW total \in 0..MaxInt, NEW p \in Words, NEW s \in Words,
         NEW b, b = PageBounds(total, p, s),
         NEW place \in Nat, NEW n \in 1..MaxInt,
         n = Params(p, s).size, place = (Params(p, s).page - 1) * n
  PROVE  /\ b.start \in 0..total /\ b.end \in b.start..total
         /\ place <= 2 * MaxInt + 1 =>
              /\ b.start = IF place > total THEN total ELSE place
              /\ b.end = IF place > total \/ place + n > total THEN total ELSE place + n
<1>1. PICK from \in Int : from = Wrap(place)  BY WrapIsInt
<1>2. PICK start \in 0..total : start = IF from < 0 \/ from > total THEN total ELSE from
  OBVIOUS
<1>3. PICK to \in Int : to = Wrap(start + n)  BY WrapIsInt
<1>4. /\ b.start = start
      /\ b.end = IF to < start \/ to > total THEN total ELSE to
  BY <1>1, <1>2, <1>3 DEF PageBounds
<1>5. to = start + n \/ to < 0
  <2>1. CASE start + n <= MaxInt
    <3>1. start + n \in Words  BY <2>1, PagingAssumption DEF Words
    <3>. QED  BY <1>3, <3>1, Fits
  <2>2. CASE start + n > MaxInt
    BY <1>3, <2>2, WrapsBelow, PagingAssumption
  <2>. QED  BY <2>1, <2>2, PagingAssumption
<1>6. to < 0 => start + n > total
  <2>1. start + n <= total => start + n \in Words  BY PagingAssumption DEF Words
  <2>. QED  BY <1>3, <2>1, Fits
<1>7. b.end = IF start + n > total THEN total ELSE start + n
  BY <1>4, <1>5, <1>6
<1>8. ASSUME place <= 2 * MaxInt + 1
      PROVE  start = IF place > total THEN total ELSE place
  <2>1. CASE place <= MaxInt
    <3>1. place \in Words  BY <2>1, PagingAssumption DEF Words
    <3>. QED  BY <1>1, <1>2, <3>1, Fits
  <2>2. CASE place > MaxInt
    BY <1>1, <1>2, <1>8, <2>2, WrapsBelow, PagingAssumption
  <2>. QED  BY <2>1, <2>2, PagingAssumption
<1>. QED  BY <1>4, <1>7, <1>8

LEMMA PlaceTyped ==
  ASSUME NEW p \in Words, NEW s \in Words
  PROVE  (Params(p, s).page - 1) * Params(p, s).size \in Nat
<1>1. PICK q \in Nat : q = Params(p, s).page - 1  BY ParamsTyped
<1>2. PICK n \in Nat : n = Params(p, s).size  BY ParamsTyped
<1>3. q * n \in Nat  OBVIOUS
<1>. QED  BY <1>1, <1>2, <1>3

LEMMA Times == \A q, n \in Nat : (q + 1) * n = q * n + n
  OBVIOUS

(* Turning the page: it has been read up to the place the next one begins. *)
Read == began <= 1 =>
  /\ asked <= 1 \/ (asked - 2) * Params(asked, per).size < length
  /\ \A f \in 1..oldest :
       f > length - (Params(asked, per).page - 1) * Params(asked, per).size => f \in seen

PagesInv ==
  /\ length \in 0..MaxTotal /\ oldest \in 0..length
  /\ began \in Words /\ asked \in Words /\ per \in Words
  /\ Read

LEMMA PagesStart == PagesInit => PagesInv
<1>. SUFFICES ASSUME PagesInit PROVE PagesInv  OBVIOUS
<1>1. (Params(asked, per).page = 1 /\ Params(asked, per).size \in Int) \/ asked > 1
  BY ParamsTyped DEF PagesInit, Params
<1>2. began <= 1 => Params(asked, per).page = 1 /\ Params(asked, per).size \in Int
  BY <1>1 DEF PagesInit, Words
<1>3. began <= 1 => (Params(asked, per).page - 1) * Params(asked, per).size = 0
  BY <1>2
<1>. QED  BY <1>3, PagingAssumption DEF PagesInit, PagesInv, Read

(* While a client turns pages from the first, nothing wraps but what is    *)
(* beyond the end.                                                         *)
LEMMA PlaceNear ==
  ASSUME PagesInv, began <= 1, NEW q \in 1..MaxInt, NEW n \in 1..MaxInt,
         q = Params(asked, per).page, n = Params(asked, per).size
  PROVE  (q - 1) * n \in Nat /\ (q - 1) * n <= 2 * MaxInt + 1
<1>1. (q - 1) * n \in Nat  BY PlaceTyped DEF PagesInv
<1>2. asked <= 1 \/ (asked - 2) * n < length  BY DEF PagesInv, Read
<1>3. CASE asked <= 1
  <2>1. q = 1  BY <1>3 DEF Params, PagesInv, Words
  <2>2. (q - 1) * n = 0  BY <2>1
  <2>. QED  BY <2>2, PagingAssumption
<1>4. CASE asked > 1 /\ (asked - 2) * n < length
  <2>1. PICK k \in Nat : k = asked - 2 /\ q - 1 = k + 1
    BY <1>4 DEF Params, PagesInv, Words
  <2>2. (q - 1) * n = k * n + n  BY <2>1, Times
  <2>3. k * n < length /\ k * n \in Nat  BY <1>4, <2>1
  <2>. QED  BY <1>1, <2>2, <2>3, PagingAssumption DEF PagesInv
<1>. QED  BY <1>1, <1>2, <1>3, <1>4 DEF PagesInv, Words

LEMMA ShownEmpty ==
  ASSUME NEW total \in 0..MaxInt, NEW p \in Words, NEW s \in Words,
         NEW place \in Nat, NEW n \in 1..MaxInt, place <= 2 * MaxInt + 1,
         n = Params(p, s).size, place = (Params(p, s).page - 1) * n
  PROVE  /\ Shown(total, p, s) # {} <=> place < total
         /\ \A f \in 1..total : f <= total - place /\ f > total - place - n => f \in Shown(total, p, s)
<1>1. PICK b : b = PageBounds(total, p, s)  OBVIOUS
<1>2. /\ b.start = IF place > total THEN total ELSE place
      /\ b.end = IF place > total \/ place + n > total THEN total ELSE place + n
  BY <1>1, BoundsWithin
<1>3. Shown(total, p, s) = (total - b.end + 1) .. (total - b.start)  BY <1>1 DEF Shown
<1>4. Shown(total, p, s) # {} <=> place < total
  <2>1. CASE place < total
    <3>1. total - place \in Shown(total, p, s)  BY <1>2, <1>3, <2>1
    <3>. QED  BY <2>1, <3>1
  <2>2. CASE place >= total
    BY <1>2, <1>3, <2>2
  <2>. QED  BY <2>1, <2>2
<1>5. \A f \in 1..total : f <= total - place /\ f > total - place - n => f \in Shown(total, p, s)
  <2>. SUFFICES ASSUME NEW f \in 1..total, f <= total - place, f > total - place - n
                PROVE  total - b.end + 1 <= f /\ f <= total - b.start
    <3>1. b.start \in Int /\ b.end \in Int  BY <1>2
    <3>2. \A f \in 1..total : total - b.end + 1 <= f /\ f <= total - b.start => f \in Shown(total, p, s)
      BY <1>3, <3>1
    <3>. QED  BY <3>2
  <2>1. place <= total  OBVIOUS
  <2>2. b.start = place  BY <1>2, <2>1
  <2>3. b.end = total \/ b.end = place + n  BY <1>2
  <2>. QED  BY <2>2, <2>3
<1>. QED  BY <1>4, <1>5

LEMMA ArriveKeeps == PagesInv /\ Arrive => PagesInv'
<1>. SUFFICES ASSUME PagesInv, Arrive PROVE PagesInv'  OBVIOUS
<1>1. PICK n \in 1..MaxInt : n = Params(asked, per).size  BY ParamsTyped DEF PagesInv
<1>2. PICK place \in Nat : place = (Params(asked, per).page - 1) * n
  BY <1>1, PlaceTyped DEF PagesInv
<1>3. /\ length' = length + 1 /\ length' \in 0..MaxTotal
      /\ UNCHANGED <<oldest, began, asked, per, seen>>
  BY PagingAssumption DEF Arrive, PagesInv
<1>4. began <= 1 => asked <= 1 \/ (asked - 2) * n < length'
  <2>1. (asked - 2) * n \in Int  BY DEF PagesInv, Words
  <2>. QED  BY <1>1, <1>3, <2>1 DEF PagesInv, Read
<1>5. began <= 1 => \A f \in 1..oldest : f > length' - place => f \in seen
  BY <1>1, <1>2, <1>3 DEF PagesInv, Read
<1>6. Read'  BY <1>1, <1>2, <1>3, <1>4, <1>5 DEF Read
<1>. QED  BY <1>3, <1>6 DEF PagesInv

LEMMA TurnKeeps == PagesInv /\ Turn => PagesInv'
<1>. SUFFICES ASSUME PagesInv, Turn PROVE PagesInv'  OBVIOUS
<1>1. PICK n \in 1..MaxInt : n = Params(asked, per).size  BY ParamsTyped DEF PagesInv
<1>2. PICK q \in 1..MaxInt : q = Params(asked, per).page  BY ParamsTyped DEF PagesInv
<1>3. PICK place \in Nat : place = (q - 1) * n
  BY <1>1, <1>2, PlaceTyped DEF PagesInv
<1>4. /\ asked' = q + 1 /\ asked' \in Words /\ seen' = seen \cup Shown(length, asked, per)
      /\ Shown(length, asked, per) # {}
      /\ UNCHANGED <<length, oldest, began, per>>
  BY <1>2, PagingAssumption DEF Turn, Words
<1>5. Params(asked', per').page = q + 1 /\ Params(asked', per').size = n
  BY <1>1, <1>4 DEF Params
<1>6. q * n = place + n
  <2>1. PICK k \in Nat : k = q - 1  OBVIOUS
  <2>. QED  BY <1>3, <2>1, Times
<1>7. ASSUME began <= 1
      PROVE  place < length /\ \A f \in 1..oldest : f > length - q * n => f \in seen'
  <2>1. place <= 2 * MaxInt + 1  BY <1>1, <1>2, <1>3, <1>7, PlaceNear
  <2>2. length \in 0..MaxInt /\ asked \in Words /\ per \in Words /\ oldest \in 0..length
    BY PagingAssumption DEF PagesInv
  <2>3. /\ place < length
        /\ \A f \in 1..length : f <= length - place /\ f > length - place - n => f \in Shown(length, asked, per)
    BY <1>1, <1>2, <1>3, <1>4, <2>1, <2>2, ShownEmpty
  <2>4. \A f \in 1..oldest : f > length - place => f \in seen
    BY <1>1, <1>2, <1>3, <1>7 DEF PagesInv, Read
  <2>5. ASSUME NEW f \in 1..oldest, f > length - q * n PROVE f \in seen'
    <3>1. f \in 1..length /\ f > length - place - n  BY <1>6, <2>2, <2>5
    <3>. QED  BY <1>4, <2>2, <2>3, <2>4, <3>1
  <2>. QED  BY <2>3, <2>5
<1>8. (asked' - 2) * n = place /\ (Params(asked', per').page - 1) * n = q * n
  <2>1. asked' - 2 = q - 1 /\ Params(asked', per').page - 1 = q  BY <1>4, <1>5
  <2>. QED  BY <1>3, <2>1
<1>9. Read'  BY <1>1, <1>4, <1>5, <1>7, <1>8 DEF Read
<1>. QED  BY <1>4, <1>9 DEF PagesInv

LEMMA PagesInvSound == PagesInv => PagesSound
<1>. SUFFICES ASSUME PagesInv PROVE PagesSound  OBVIOUS
<1>1. PICK n \in 1..MaxInt : n = Params(asked, per).size  BY ParamsTyped DEF PagesInv
<1>2. PICK q \in 1..MaxInt : q = Params(asked, per).page  BY ParamsTyped DEF PagesInv
<1>3. PICK place \in Nat : place = (q - 1) * n
  BY <1>1, <1>2, PlaceTyped DEF PagesInv
<1>4. PICK b : b = PageBounds(length, asked, per)  OBVIOUS
<1>5. length \in 0..MaxInt /\ asked \in Words /\ per \in Words /\ oldest \in 0..length
  BY PagingAssumption DEF PagesInv
<1>6. b.start \in 0..length /\ b.end \in b.start..length
  BY <1>1, <1>2, <1>3, <1>4, <1>5, BoundsWithin
<1>7. ASSUME q * n \in Words, q + 1 \in Words
      PROVE  HasNext(length, asked, per) <=> Shown(length, q + 1, per) # {}
  <2>1. HasNext(length, asked, per) <=> q * n < length
    BY <1>1, <1>2, <1>7, Fits DEF HasNext
  <2>2. Params(q + 1, per).page = q + 1 /\ Params(q + 1, per).size = n
    BY <1>1, <1>2 DEF Params
  <2>3. q * n \in Nat /\ q * n <= 2 * MaxInt + 1 /\ q * n = (Params(q + 1, per).page - 1) * n
    <3>1. q * n \in Nat  OBVIOUS
    <3>2. q * n <= 2 * MaxInt + 1  BY <1>7, PagingAssumption DEF Words
    <3>3. Params(q + 1, per).page - 1 = q  BY <2>2
    <3>. QED  BY <3>1, <3>2, <3>3
  <2>4. Shown(length, q + 1, per) # {} <=> q * n < length
    BY <1>5, <1>7, <2>2, <2>3, ShownEmpty
  <2>. QED  BY <2>1, <2>4
<1>8. ASSUME began <= 1, Shown(length, asked, per) = {} PROVE 1..oldest \subseteq seen
  <2>1. place <= 2 * MaxInt + 1  BY <1>1, <1>2, <1>3, <1>8, PlaceNear
  <2>2. ~(place < length)  BY <1>1, <1>2, <1>3, <1>5, <1>8, <2>1, ShownEmpty
  <2>3. \A f \in 1..oldest : f > length - place => f \in seen
    BY <1>1, <1>2, <1>3, <1>8 DEF PagesInv, Read
  <2>. QED  BY <1>5, <2>2, <2>3
<1>9. HasNext(length, asked, per) \in BOOLEAN  BY DEF HasNext
<1>10. 0 <= b.start /\ b.start <= b.end /\ b.end <= length  BY <1>6
<1>. QED  BY <1>1, <1>2, <1>4, <1>7, <1>8, <1>9, <1>10 DEF PagesSound

(* The bounds of a page are indexes of the list, hasNext tells the next    *)
(* page, and a client that turns the pages misses nothing (sessions.go:17, *)
(* response.go:45).                                                        *)
THEOREM PagesStaySound == PagesSpec => []PagesSound
<1>1. PagesInit => PagesInv  BY PagesStart
<1>2. PagesInv /\ [PagesNext]_pageVars => PagesInv'
  <2>1. PagesInv /\ UNCHANGED pageVars => PagesInv'
    BY DEF pageVars, PagesInv, Read
  <2>. QED  BY <2>1, ArriveKeeps, TurnKeeps DEF PagesNext
<1>. QED  BY <1>1, <1>2, PagesInvSound, PTL DEF PagesSpec
=============================================================================
