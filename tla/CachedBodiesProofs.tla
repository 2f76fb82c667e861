------------------------- MODULE CachedBodiesProofs -------------------------
(***************************************************************************)
(* Proofs about BodyCache, for any flows, managers, budgets and sizes, and *)
(* about the cache inside CachedBodies, which implements it: the files on  *)
(* the disk and the accounts never part, the accounts add up and fit, and  *)
(* what goes to make room is the oldest.                                   *)
(*                                                                         *)
(* For the files it does not matter how many copies an eviction takes,     *)
(* only that what it takes out of the accounts is what it goes on to       *)
(* delete.  The key of that invariant is that a file somebody is about to  *)
(* delete is committed and not registered: it cannot be written or         *)
(* registered again, so the late deletion hits no one else's copy.  How    *)
(* many it takes follows from the sums of the sizes, below.                *)
(***************************************************************************)
EXTENDS CachedBodies, SequenceLemmas

Types ==
  /\ order \in Seq(Flows)
  /\ disk \subseteq Flows
  /\ entry \in [Flows -> EntryStates]
  /\ unlinking \in [Callers -> SUBSET Flows]

Listed == Distinct(order) /\ ToSet(order) = Registered

OnlyCommitted == \A f \in Registered : entry[f] = "committed"

Doomed ==
  \A c \in Callers : \A f \in unlinking[c] : entry[f] = "committed" /\ f \notin Registered

(* A file is written only while it exists.                                 *)
OpenOnDisk == \A f \in Flows : entry[f] = "open" => f \in disk

CacheInv == /\ Types /\ Listed /\ OnlyCommitted /\ Doomed /\ OpenOnDisk
            /\ RegisteredOnDisk /\ NoOrphans

-----------------------------------------------------------------------------
(* What an eviction by c leaves: the order and the registered copies lose  *)
(* the same copies, and these are what c is about to delete.               *)
LEMMA Evicted ==
  ASSUME NEW c \in Callers, NEW ord \in Seq(Flows), Distinct(ord), NEW szs, NEW sum,
         NEW bud, ToSet(ord) = DOMAIN szs, unlinking \in [Callers -> SUBSET Flows],
         Evict(c, ord, szs, sum, bud)
  PROVE  \E gone \in SUBSET (DOMAIN szs) :
           /\ order' \in Seq(Flows) /\ Distinct(order')
           /\ ToSet(order') = (DOMAIN szs) \ gone
           /\ DOMAIN sizes' = (DOMAIN szs) \ gone
           /\ unlinking' = [unlinking EXCEPT ![c] = gone]
<1>1. PICK k \in 0..Len(ord) :
         /\ order' = SubSeq(ord, k + 1, Len(ord))
         /\ sizes' = [f \in (DOMAIN szs) \ ToSet(SubSeq(ord, 1, k)) |-> szs[f]]
         /\ unlinking' = [unlinking EXCEPT ![c] = ToSet(SubSeq(ord, 1, k))]
  BY DEF Evict
<1> DEFINE gone == ToSet(SubSeq(ord, 1, k))
<1>2. gone \subseteq ToSet(ord)
  <2>1. gone = {ord[i] : i \in 1..k}
    BY PrefixSet
  <2>2. Len(ord) \in Nat /\ DOMAIN ord = 1..Len(ord)
    BY LenProperties
  <2> HIDE DEF gone
  <2> QED BY <2>1, <2>2 DEF ToSet
<1>3. /\ order' \in Seq(Flows) /\ Distinct(order') /\ ToSet(order') = ToSet(ord) \ gone
  BY <1>1, SuffixElements, CutKeepsSet
<1>4. DOMAIN sizes' = (DOMAIN szs) \ gone
  BY <1>1
<1> HIDE DEF gone
<1> QED BY <1>1, <1>2, <1>3, <1>4 DEF gone

LEMMA InitCacheInv == CacheInit => CacheInv
  BY DEF CacheInit, CacheInv, Types, Listed, OnlyCommitted, Doomed, OpenOnDisk,
         RegisteredOnDisk, NoOrphans, Registered, Distinct, ToSet, EntryStates, Callers

LEMMA CommitCacheInv == ASSUME CacheInv, NEW f \in Flows, Idle(f), Commit(f) PROVE CacheInv'
<1> DEFINE ord == Append(order, f)
           szs == SizesWith(f)
<1>1. DOMAIN szs = Registered \cup {f}
  BY DEF SizesWith
<1>2. ord \in Seq(Flows) /\ Distinct(ord) /\ ToSet(ord) = DOMAIN szs
  <2>1. f \notin ToSet(order)
    BY DEF Commit, CacheInv, Listed
  <2>2. order \in Seq(Flows) /\ Distinct(order) /\ ToSet(order) = Registered
    BY DEF CacheInv, Types, Listed
  <2>3. /\ ord \in Seq(Flows) /\ Distinct(ord)
        /\ ToSet(ord) = ToSet(order) \cup {f}
    BY <2>1, <2>2, AppendKeepsSet
  <2> HIDE DEF ord, szs
  <2> QED BY <1>1, <2>2, <2>3
<1> HIDE DEF ord, szs
<1>3. f \in Callers /\ Evict(f, ord, szs, total + written[f], budget)
  BY DEF Commit, Callers, ord, szs
<1>4. PICK gone \in SUBSET (Registered \cup {f}) :
        /\ order' \in Seq(Flows) /\ Distinct(order')
        /\ ToSet(order') = Registered' /\ Registered' = (Registered \cup {f}) \ gone
        /\ unlinking' = [unlinking EXCEPT ![f] = gone]
  BY ZenonT(40), <1>1, <1>2, <1>3, Evicted DEF CacheInv, Types, Registered
<1>5. /\ entry[f] = "open" /\ f \notin Registered /\ f \in disk /\ disk' = disk
      /\ entry' = [entry EXCEPT ![f] = "committed"]
  BY DEF Commit, CacheInv, OpenOnDisk
<1>6. unlinking[f] = {} /\ \A c \in Callers : f \notin unlinking[c]
  BY <1>5 DEF CacheInv, Idle, Doomed
<1>7. gone \subseteq Flows /\ Registered \subseteq Flows
  BY DEF CacheInv, RegisteredOnDisk, Types
<1>8. Types'
  BY <1>4, <1>5, <1>7 DEF CacheInv, Types, EntryStates
<1>9. Listed' /\ OnlyCommitted' /\ OpenOnDisk' /\ RegisteredOnDisk'
  BY <1>4, <1>5, <1>7 DEF CacheInv, Types, Listed, OnlyCommitted, OpenOnDisk, RegisteredOnDisk
<1>10. Doomed'
  BY <1>3, <1>4, <1>5, <1>6, <1>7 DEF CacheInv, Types, OnlyCommitted, Doomed
<1>11. NoOrphans'
  <2> SUFFICES ASSUME NEW g \in disk', entry'[g] # "open", g \notin Registered'
               PROVE  \E c \in Callers : g \in unlinking'[c]
      BY DEF NoOrphans
  <2>1. CASE g \in Registered \cup {f}
    BY <1>3, <1>4, <2>1 DEF CacheInv, Types
  <2>2. CASE g \notin Registered \cup {f}
    <3>1. entry[g] # "open" /\ g \in disk
      BY <1>5, <2>2 DEF CacheInv, Types
    <3>2. PICK c \in Callers : g \in unlinking[c]
      BY <2>2, <3>1 DEF CacheInv, NoOrphans
    <3>3. c # f
      BY <1>6, <3>2
    <3> QED BY <1>4, <3>2, <3>3 DEF CacheInv, Types
  <2> QED BY <2>1, <2>2
<1> QED BY <1>8, <1>9, <1>10, <1>11 DEF CacheInv

(* What an idle goroutine takes out of the accounts it goes on to delete.  *)
LEMMA TakeOut ==
  ASSUME CacheInv, NEW m \in Callers, Idle(m), NEW gone \in SUBSET Flows,
         \A f \in gone : entry[f] = "committed",
         order' \in Seq(Flows), Distinct(order'), ToSet(order') = Registered',
         Registered' = Registered \ gone,
         unlinking' = [unlinking EXCEPT ![m] = gone],
         UNCHANGED <<disk, entry>>
  PROVE  CacheInv'
<1>1. unlinking[m] = {}
  BY DEF Idle
<1>2. Types' /\ Listed' /\ OnlyCommitted' /\ OpenOnDisk' /\ RegisteredOnDisk'
  BY <1>1 DEF CacheInv, Types, Listed, OnlyCommitted, OpenOnDisk, RegisteredOnDisk
<1>3. Doomed'
  BY <1>1 DEF CacheInv, Types, Doomed
<1>4. NoOrphans'
  <2> SUFFICES ASSUME NEW g \in disk, entry[g] # "open", g \notin Registered \ gone
               PROVE  \E c \in Callers : g \in unlinking'[c]
      BY DEF NoOrphans
  <2>1. CASE g \in gone
    BY <1>1, <2>1 DEF CacheInv, Types
  <2>2. CASE g \notin gone
    <3>1. PICK c \in Callers : g \in unlinking[c]
      BY <2>2 DEF CacheInv, NoOrphans
    <3>2. c # m
      BY <1>1, <3>1
    <3> QED BY <3>1, <3>2 DEF CacheInv, Types
  <2> QED BY <2>1, <2>2
<1> QED BY <1>2, <1>3, <1>4 DEF CacheInv

LEMMA Accounts ==
  CacheInv => /\ order \in Seq(Flows) /\ Distinct(order) /\ ToSet(order) = Registered
              /\ unlinking \in [Callers -> SUBSET Flows]
              /\ Registered \subseteq Flows /\ \A f \in Registered : entry[f] = "committed"
  BY DEF CacheInv, Types, Listed, RegisteredOnDisk, OnlyCommitted

LEMMA RemoveCacheInv ==
  ASSUME CacheInv, NEW c \in Callers, NEW f \in Flows, RemoveCopy(c, f) PROVE CacheInv'
<1>1. Registered' = Registered \ {f}
  BY DEF RemoveCopy, Registered
<1>2. order' \in Seq(Flows) /\ Distinct(order') /\ ToSet(order') = Registered \ {f}
  <2>1. CASE f \in Registered
    <3>1. PICK k \in DOMAIN order : order[k] = f
      BY Accounts, <2>1 DEF ToSet
    <3> QED BY Accounts, <3>1, RemoveElements, RemoveKeepsSet DEF RemoveCopy
  <2>2. CASE f \notin Registered
    <3>1. Len(order) \in Nat /\ DOMAIN order = 1..Len(order)
      BY Accounts, LenProperties
    <3>2. ~ \E i \in 1..Len(order) : order[i] = f
      BY Accounts, <2>2, <3>1 DEF ToSet
    <3>3. order' = order
      BY <3>2 DEF RemoveCopy, RemoveFirst
    <3> QED BY Accounts, <2>2, <3>3
  <2> QED BY <2>1, <2>2
<1> QED BY <1>1, <1>2, TakeOut DEF RemoveCopy

LEMMA ManagerCacheInv == ASSUME CacheInv, NEW m \in Managers, Manager(m) PROVE CacheInv'
<1>0. m \in Callers
  BY DEF Callers
<1>1. ASSUME NEW b \in Budgets, SetBudget(m, b) PROVE CacheInv'
  <2>1. PICK gone \in SUBSET Registered :
          /\ order' \in Seq(Flows) /\ Distinct(order')
          /\ ToSet(order') = Registered' /\ Registered' = Registered \ gone
          /\ unlinking' = [unlinking EXCEPT ![m] = gone]
    BY <1>0, <1>1, Accounts, Evicted DEF SetBudget, Registered
  <2> QED BY <1>0, <1>1, <2>1, Accounts, TakeOut DEF SetBudget
<1>2. CASE Clear(m)
  <2>1. order' = <<>> /\ Registered' = {} /\ Registered' = Registered \ Registered
    BY <1>2 DEF Clear, Registered
  <2>2. order' \in Seq(Flows) /\ Distinct(order') /\ ToSet(order') = Registered'
    BY <2>1 DEF Distinct, ToSet
  <2> QED BY <1>0, <1>2, <2>1, <2>2, Accounts, TakeOut DEF Clear
<1> QED BY <1>1, <1>2 DEF Manager

LEMMA StepCacheInv == CacheInv /\ [CacheNext]_cacheVars => CacheInv'
<1> USE DEF CacheInv, Types, Listed, OnlyCommitted, Doomed, OpenOnDisk,
            RegisteredOnDisk, NoOrphans, EntryStates
<1> SUFFICES ASSUME CacheInv, [CacheNext]_cacheVars PROVE CacheInv'
    OBVIOUS
<1>1. ASSUME NEW f \in Flows, Create(f) PROVE CacheInv'
  <2>1. Registered' = Registered
    BY <1>1 DEF Create, accounts, Registered
  <2> QED BY <1>1, <2>1 DEF Create, accounts
<1>2. ASSUME NEW f \in Flows, Write(f) PROVE CacheInv'
  BY <1>2 DEF Write, accounts, Registered
<1>3. ASSUME NEW f \in Flows, GiveUp(f) PROVE CacheInv'
  <2>1. Registered' = Registered
    BY <1>3 DEF GiveUp, accounts, Registered
  <2> QED BY <1>3, <2>1 DEF GiveUp, accounts
<1>4. ASSUME NEW f \in Flows, Idle(f), Commit(f) PROVE CacheInv'
  BY <1>4, CommitCacheInv
<1>5. ASSUME NEW m \in Managers, Manager(m) PROVE CacheInv'
  BY <1>5, ManagerCacheInv
<1>6. ASSUME NEW c \in Callers, NEW f \in Flows, Unlink(c, f) PROVE CacheInv'
  <2>1. Registered' = Registered /\ order' = order /\ entry' = entry
    BY <1>6 DEF Unlink, accounts, Registered
  <2>2. disk' = disk \ {f} /\ unlinking' = [unlinking EXCEPT ![c] = @ \ {f}]
    BY <1>6 DEF Unlink
  <2>3. entry[f] = "committed" /\ f \notin Registered
    BY <1>6 DEF Unlink
  <2> QED BY <2>1, <2>2, <2>3 DEF Callers
<1>7. CASE Restart
  BY <1>7 DEF Restart, Registered, Distinct, ToSet, Callers
<1>8. ASSUME NEW c \in Callers, NEW f \in Flows, RemoveCopy(c, f) PROVE CacheInv'
  BY <1>8, RemoveCacheInv
<1>9. CASE UNCHANGED cacheVars
  BY <1>9 DEF cacheVars, accounts, Registered
<1> QED BY <1>1, <1>2, <1>3, <1>4, <1>5, <1>6, <1>7, <1>8, <1>9 DEF CacheNext, Handler

LEMMA CacheInvariant == CacheSpec => []CacheInv
<1>1. CacheInit => CacheInv
  BY InitCacheInv
<1>2. CacheInv /\ [CacheNext]_cacheVars => CacheInv'
  BY StepCacheInv
<1> QED BY <1>1, <1>2, PTL DEF CacheSpec

(* The file of a registered copy exists, and every other file is being     *)
(* written or about to be deleted: deletions that come late, after the     *)
(* lock was released, hit nothing the accounts hold and forget nothing.    *)
THEOREM FilesStaySound == CacheSpec => []FilesSound
<1>1. CacheInv => FilesSound
  BY DEF CacheInv, FilesSound
<1> QED BY <1>1, CacheInvariant, PTL

-----------------------------------------------------------------------------
(* The accounts.                                                           *)

Amounts ==
  /\ \A f \in Registered : sizes[f] \in 0..MaxSize
  /\ written \in [Flows -> 0..MaxSize]
  /\ budget \in Budgets
  /\ total = SumOf(sizes, Registered)
  /\ total <= budget

AccountsInv == CacheInv /\ Amounts

LEMMA RegisteredFinite ==
  ASSUME CacheInv
  PROVE  IsFiniteSet(Registered) /\ Cardinality(Registered) = Len(order)
<1>1. order \in Seq(Flows) /\ Distinct(order) /\ ToSet(order) = Registered
  BY Accounts
<1> QED BY <1>1, DistinctLength

(* What an eviction leaves adds up and fits, and the last copy that went   *)
(* would not have fitted.                                                  *)
LEMMA EvictedAmounts ==
  ASSUME NEW c \in Callers, NEW ord \in Seq(Flows), Distinct(ord), NEW szs, NEW sum, NEW bud \in Nat,
         ToSet(ord) = DOMAIN szs, \A f \in DOMAIN szs : szs[f] \in 0..MaxSize,
         sum = SumOf(szs, DOMAIN szs), Evict(c, ord, szs, sum, bud)
  PROVE  \E k \in 0..Len(ord) :
           /\ DOMAIN sizes' = (DOMAIN szs) \ ToSet(SubSeq(ord, 1, k))
           /\ \A f \in DOMAIN sizes' : sizes'[f] \in 0..MaxSize
           /\ total' = SumOf(sizes', DOMAIN sizes') /\ total' <= bud
           /\ k > 0 => total' + szs[ord[k]] > bud
<1>1. PICK k \in 0..Len(ord) :
         /\ EvictCount(ord, szs, sum, bud, k)
         /\ sizes' = [f \in (DOMAIN szs) \ ToSet(SubSeq(ord, 1, k)) |-> szs[f]]
         /\ total' = sum - SumOf(szs, ToSet(SubSeq(ord, 1, k)))
  BY DEF Evict, SumOf
<1> DEFINE All == DOMAIN szs
           First(i) == ToSet(SubSeq(ord, 1, i))
           Rest(i) == All \ First(i)
<1>2. Len(ord) \in Nat /\ DOMAIN ord = 1..Len(ord) /\ IsFiniteSet(All)
  BY LenProperties, DistinctLength
<1>3. ASSUME NEW i \in 0..Len(ord) PROVE First(i) = {ord[j] : j \in 1..i} /\ First(i) \in SUBSET All
  <2>1. First(i) = {ord[j] : j \in 1..i}
    BY PrefixSet
  <2> HIDE DEF First
  <2> QED BY <1>2, <2>1 DEF ToSet
<1>4. \A x \in All : szs[x] \in Nat
  BY MaxSizeAssumption
<1>5. ASSUME NEW i \in 0..Len(ord)
      PROVE  sum - SumOf(szs, First(i)) = SumOf(szs, Rest(i)) /\ SumOf(szs, Rest(i)) \in Nat
  <2> HIDE DEF All
  <2>1. First(i) \in SUBSET All /\ Rest(i) \in SUBSET All
    BY <1>3
  <2>2. SumOf(szs, All) = SumOf(szs, First(i)) + SumOf(szs, Rest(i))
    BY <1>2, <1>4, <2>1, SumOfParts
  <2>3. IsFiniteSet(First(i)) /\ IsFiniteSet(Rest(i))
    BY <1>2, <2>1, FS_Subset
  <2>4. \A x \in First(i) : szs[x] \in Nat
    BY <1>4, <2>1
  <2>5. \A x \in Rest(i) : szs[x] \in Nat
    BY <1>4, <2>1
  <2>6. SumOf(szs, First(i)) \in Nat /\ SumOf(szs, Rest(i)) \in Nat
    BY <2>3, <2>4, <2>5, Sums
  <2> QED BY <2>2, <2>6 DEF All
<1>6. /\ \A i \in 0..(k - 1) : SumOf(szs, Rest(i)) > bud
      /\ SumOf(szs, Rest(k)) <= bud \/ k = Len(ord)
  <2>1. /\ \A i \in 0..(k - 1) : sum - SumOf(szs, First(i)) > bud
        /\ sum - SumOf(szs, First(k)) <= bud \/ k = Len(ord)
    BY <1>1 DEF EvictCount, SumOf
  <2>2. ASSUME NEW i \in 0..Len(ord) PROVE sum - SumOf(szs, First(i)) = SumOf(szs, Rest(i))
    BY <1>5
  <2>3. k - 1 \in Int /\ \A i \in 0..(k - 1) : i \in 0..Len(ord)
    BY <1>2
  <2> HIDE DEF First, Rest
  <2>4. \A i \in 0..(k - 1) : SumOf(szs, Rest(i)) > bud
    BY <2>1, <2>2, <2>3
  <2> QED BY <2>1, <2>2, <2>4
<1>7. DOMAIN sizes' = Rest(k) /\ \A f \in Rest(k) : sizes'[f] = szs[f]
  BY <1>1
<1>8. total' = SumOf(szs, Rest(k)) /\ total' \in Nat
  BY <1>1, <1>5
<1>9. total' = SumOf(sizes', Rest(k))
  <2>1. IsFiniteSet(Rest(k))
    BY <1>2, FS_Subset
  <2> DEFINE T == Rest(k)
             new == sizes'
  <2>2. \A x \in T : szs[x] = new[x]
    BY <1>7
  <2> HIDE DEF T, new
  <2>3. SumOf(szs, T) = SumOf(new, T)
    BY <2>1, <2>2, EqualSums DEF T
  <2> QED BY <1>8, <2>3 DEF T, new
<1>10. total' <= bud
  <2>1. CASE k = Len(ord)
    <3>1. Rest(k) = {}
      <4>1. First(k) = {ord[j] : j \in 1..k}
        BY <1>3
      <4> HIDE DEF First
      <4> QED BY <1>2, <2>1, <4>1 DEF ToSet
    <3>2. SumOf(szs, {}) = 0
      <4>1. \A x \in {} : szs[x] \in Nat
        OBVIOUS
      <4> QED BY <4>1, FS_EmptySet, Sums
    <3> HIDE DEF Rest
    <3> QED BY <1>8, <3>1, <3>2
  <2> QED BY <1>6, <1>8, <2>1
<1>11. k > 0 => total' + szs[ord[k]] > bud
  <2> SUFFICES ASSUME k > 0 PROVE total' + szs[ord[k]] > bud
    OBVIOUS
  <2>1. k - 1 \in 0..(k - 1) /\ k - 1 \in 0..Len(ord) /\ k \in 1..Len(ord)
    BY <1>2
  <2>2. ord[k] \in Rest(k - 1) /\ Rest(k - 1) \ {ord[k]} = Rest(k)
    <3>1. First(k) = {ord[j] : j \in 1..k} /\ First(k - 1) = {ord[j] : j \in 1..(k - 1)}
      BY <1>3, <2>1
    <3> HIDE DEF First
    <3>2. ord[k] \notin First(k - 1)
      BY <1>2, <2>1, <3>1 DEF Distinct
    <3>3. First(k) = First(k - 1) \cup {ord[k]}
      BY <2>1, <3>1
    <3>4. ord[k] \in All
      BY <1>2, <2>1 DEF ToSet
    <3> HIDE DEF All
    <3> QED BY <3>2, <3>3, <3>4
  <2> HIDE DEF Rest
  <2>3. IsFiniteSet(Rest(k - 1)) /\ \A x \in Rest(k - 1) : szs[x] \in Nat
    BY <1>2, <1>4, FS_Subset DEF Rest
  <2> DEFINE R == Rest(k - 1)
  <2>4. SumOf(szs, R) = szs[ord[k]] + SumOf(szs, R \ {ord[k]})
    <3> HIDE DEF R
    <3> QED BY <2>2, <2>3, Sums DEF R
  <2>5. SumOf(szs, Rest(k - 1)) > bud
    BY <1>6, <2>1
  <2>6. szs[ord[k]] \in Nat
    BY <2>2, <2>3
  <2>7. total' = SumOf(szs, R \ {ord[k]}) /\ total' \in Nat /\ SumOf(szs, R) > bud
    BY <1>8, <2>2, <2>5
  <2> HIDE DEF R
  <2> QED BY <2>4, <2>6, <2>7
<1> QED BY <1>7, <1>8, <1>9, <1>10, <1>11

(* What a commit adds to the accounts, and what it takes out of them.      *)
LEMMA CommitEvicts ==
  ASSUME AccountsInv, NEW f \in Flows, Commit(f)
  PROVE  /\ f \notin Registered /\ UNCHANGED <<budget, written>>
         /\ DOMAIN SizesWith(f) = Registered \cup {f}
         /\ \A g \in Registered \cup {f} : SizesWith(f)[g] = IF g = f THEN written[f] ELSE sizes[g]
         /\ Append(order, f) \in Seq(Flows) /\ Distinct(Append(order, f))
         /\ ToSet(Append(order, f)) = Registered \cup {f}
         /\ \E k \in 0..Len(Append(order, f)) :
              /\ DOMAIN sizes' = (Registered \cup {f}) \ ToSet(SubSeq(Append(order, f), 1, k))
              /\ \A g \in DOMAIN sizes' : sizes'[g] \in 0..MaxSize
              /\ total' = SumOf(sizes', DOMAIN sizes') /\ total' <= budget
              /\ k > 0 => total' + SizesWith(f)[Append(order, f)[k]] > budget
<1> DEFINE ord == Append(order, f)
           szs == SizesWith(f)
<1>1. /\ f \notin Registered /\ f \in Callers
      /\ Evict(f, ord, szs, total + written[f], budget)
      /\ UNCHANGED <<budget, written>>
  BY DEF Commit, Callers
<1>2. DOMAIN szs = Registered \cup {f} /\ szs[f] = written[f] /\ \A g \in Registered : szs[g] = sizes[g]
  BY <1>1 DEF SizesWith
<1>3. ord \in Seq(Flows) /\ Distinct(ord) /\ ToSet(ord) = Registered \cup {f}
  <2>1. order \in Seq(Flows) /\ Distinct(order) /\ ToSet(order) = Registered
    BY Accounts DEF AccountsInv
  <2>2. f \notin ToSet(order)
    BY <1>1, <2>1
  <2> QED BY <2>1, <2>2, AppendKeepsSet
<1>4. /\ \A g \in Registered : sizes[g] \in 0..MaxSize
      /\ written \in [Flows -> 0..MaxSize] /\ budget \in Nat /\ budget \in Budgets
      /\ total = SumOf(sizes, Registered)
  BY BudgetsAssumption DEF AccountsInv, Amounts
<1>5. IsFiniteSet(Registered)
  BY RegisteredFinite DEF AccountsInv
<1> HIDE DEF ord, szs
<1>6. \A g \in DOMAIN szs : szs[g] \in 0..MaxSize
  BY <1>2, <1>4
<1>7. total + written[f] = SumOf(szs, DOMAIN szs)
  <2> DEFINE All == Registered \cup {f}
  <2>1. IsFiniteSet(All)
    BY <1>5, FS_AddElement
  <2>2. \A g \in All : szs[g] \in Nat
    BY <1>2, <1>6, MaxSizeAssumption
  <2>3. f \in All /\ All \ {f} = Registered
    BY <1>1
  <2> HIDE DEF All
  <2>4. SumOf(szs, All) = szs[f] + SumOf(szs, All \ {f})
    BY <2>1, <2>2, <2>3, Sums
  <2>5. SumOf(szs, Registered) = SumOf(sizes, Registered)
    BY <1>2, <1>5, EqualSums
  <2>6. SumOf(sizes, Registered) = total
    BY <1>4
  <2>7. SumOf(sizes, Registered) \in Nat
    <3>1. \A g \in Registered : sizes[g] \in Nat
      BY <1>4, MaxSizeAssumption
    <3> QED BY <1>5, <3>1, Sums
  <2>8. written[f] \in Nat
    BY <1>4, MaxSizeAssumption
  <2>9. DOMAIN szs = All /\ szs[f] = written[f]
    BY <1>2 DEF All
  <2>10. SumOf(szs, All) = written[f] + total
    <3>1. SumOf(szs, All) = szs[f] + SumOf(szs, Registered)
      BY <2>3, <2>4
    <3> QED BY <2>5, <2>6, <2>9, <3>1
  <2>11. total + written[f] = written[f] + total
    BY <2>6, <2>7, <2>8
  <2> QED BY <2>9, <2>10, <2>11
<1>8. ToSet(ord) = DOMAIN szs
  BY <1>2, <1>3
<1>9. \E k \in 0..Len(ord) :
        /\ DOMAIN sizes' = (DOMAIN szs) \ ToSet(SubSeq(ord, 1, k))
        /\ \A g \in DOMAIN sizes' : sizes'[g] \in 0..MaxSize
        /\ total' = SumOf(sizes', DOMAIN sizes') /\ total' <= budget
        /\ k > 0 => total' + szs[ord[k]] > budget
  BY <1>1, <1>3, <1>4, <1>6, <1>7, <1>8, EvictedAmounts
<1>10. \A g \in Registered \cup {f} : szs[g] = IF g = f THEN written[f] ELSE sizes[g]
  BY <1>1, <1>2
<1> QED BY <1>1, <1>2, <1>3, <1>9, <1>10 DEF ord, szs

LEMMA CommitAmounts == ASSUME AccountsInv, NEW f \in Flows, Commit(f) PROVE Amounts'
<1>1. /\ UNCHANGED <<budget, written>>
      /\ \A g \in DOMAIN sizes' : sizes'[g] \in 0..MaxSize
      /\ total' = SumOf(sizes', DOMAIN sizes') /\ total' <= budget
  BY CommitEvicts
<1> QED BY <1>1 DEF AccountsInv, Amounts, Registered

LEMMA SetBudgetAmounts ==
  ASSUME AccountsInv, NEW m \in Callers, NEW b \in Budgets, SetBudget(m, b) PROVE Amounts'
<1>1. /\ budget' = b /\ UNCHANGED written
      /\ Evict(m, order, sizes, total, b)
  BY DEF SetBudget
<1>2. order \in Seq(Flows) /\ Distinct(order) /\ ToSet(order) = DOMAIN sizes
  BY Accounts DEF AccountsInv, Registered
<1>3. /\ \A g \in DOMAIN sizes : sizes[g] \in 0..MaxSize
      /\ b \in Nat /\ total = SumOf(sizes, DOMAIN sizes)
  BY BudgetsAssumption DEF AccountsInv, Amounts, Registered
<1>4. /\ \A g \in DOMAIN sizes' : sizes'[g] \in 0..MaxSize
      /\ total' = SumOf(sizes', DOMAIN sizes') /\ total' <= b
  BY <1>1, <1>2, <1>3, EvictedAmounts
<1> QED BY <1>1, <1>4 DEF AccountsInv, Amounts, Registered

LEMMA NoBytes == SumOf(<<>>, {}) = 0
<1>1. IsFiniteSet({}) /\ \A x \in {} : <<>>[x] \in Nat
  BY FS_EmptySet
<1> QED BY <1>1, Sums

LEMMA ClearAmounts == ASSUME AccountsInv, NEW m \in Callers, Clear(m) PROVE Amounts'
<1>1. sizes' = <<>> /\ total' = 0 /\ budget' = budget /\ written' = written
  BY DEF Clear
<1>2. DOMAIN sizes' = {}
  BY <1>1
<1>3. SumOf(sizes', DOMAIN sizes') = 0
  BY <1>1, <1>2, NoBytes
<1> QED BY <1>1, <1>2, <1>3, BudgetsAssumption DEF AccountsInv, Amounts, Registered

LEMMA RestartAmounts == ASSUME AccountsInv, Restart PROVE Amounts'
<1>1. sizes' = <<>> /\ total' = 0 /\ budget' = budget /\ written' = [f \in Flows |-> 0]
  BY DEF Restart
<1>2. DOMAIN sizes' = {}
  BY <1>1
<1>3. SumOf(sizes', DOMAIN sizes') = 0
  BY <1>1, <1>2, NoBytes
<1>4. written' \in [Flows -> 0..MaxSize]
  BY <1>1, MaxSizeAssumption
<1> QED BY <1>1, <1>2, <1>3, <1>4, BudgetsAssumption DEF AccountsInv, Amounts, Registered

LEMMA RemoveAmounts ==
  ASSUME AccountsInv, NEW c \in Callers, NEW f \in Flows, RemoveCopy(c, f) PROVE Amounts'
<1>1. /\ sizes' = [g \in Registered \ {f} |-> sizes[g]]
      /\ total' = IF f \in Registered THEN total - sizes[f] ELSE total
      /\ budget' = budget /\ written' = written
  BY DEF RemoveCopy
<1>2. /\ \A g \in Registered : sizes[g] \in 0..MaxSize /\ sizes[g] \in Nat
      /\ total = SumOf(sizes, Registered) /\ total <= budget /\ budget \in Nat
      /\ IsFiniteSet(Registered)
  BY RegisteredFinite, MaxSizeAssumption, BudgetsAssumption DEF AccountsInv, Amounts
<1> DEFINE T == Registered \ {f}
           new == sizes'
<1>3. DOMAIN new = T /\ \A g \in T : sizes[g] = new[g]
  BY <1>1
<1>4. IsFiniteSet(T)
  BY <1>2, FS_RemoveElement
<1> HIDE DEF new
<1>5. total' = SumOf(sizes, T) /\ total' <= budget
  <2>1. SumOf(sizes, T) \in Nat
    <3>1. \A g \in T : sizes[g] \in Nat
      BY <1>2
    <3> HIDE DEF T
    <3> QED BY <1>4, <3>1, Sums
  <2>2. CASE f \in Registered
    <3>1. SumOf(sizes, Registered) = sizes[f] + SumOf(sizes, Registered \ {f})
      BY <1>2, <2>2, Sums
    <3>2. sizes[f] \in Nat
      BY <1>2, <2>2
    <3>3. total' = total - sizes[f] /\ total = sizes[f] + SumOf(sizes, T)
      BY <1>1, <1>2, <2>2, <3>1
    <3> HIDE DEF T
    <3> QED BY <1>2, <2>1, <3>2, <3>3
  <2>3. CASE f \notin Registered
    BY <1>1, <1>2, <2>3
  <2> QED BY <2>2, <2>3
<1>6. SumOf(sizes, T) = SumOf(new, T)
  <2> HIDE DEF T
  <2> QED BY <1>3, <1>4, EqualSums
<1>7. DOMAIN sizes' = T /\ total' = SumOf(sizes', DOMAIN sizes') /\ \A g \in DOMAIN sizes' : sizes'[g] \in 0..MaxSize
  BY <1>2, <1>3, <1>5, <1>6 DEF new
<1> QED BY <1>1, <1>5, <1>7 DEF AccountsInv, Amounts, Registered

LEMMA StepAccounts == AccountsInv /\ [CacheNext]_cacheVars => AccountsInv'
<1> SUFFICES ASSUME AccountsInv, [CacheNext]_cacheVars PROVE Amounts'
  BY StepCacheInv DEF AccountsInv
<1> DEFINE Calm == UNCHANGED <<sizes, total, budget>> /\ written' \in [Flows -> 0..MaxSize]
<1>0. written \in [Flows -> 0..MaxSize]
  BY DEF AccountsInv, Amounts
<1>1. Calm => Amounts'
  BY DEF AccountsInv, Amounts, Registered
<1>2. ASSUME NEW f \in Flows, Handler(f) PROVE Amounts'
  <2>1. CASE Create(f) \/ GiveUp(f)
    BY <1>0, <1>1, <2>1 DEF Create, GiveUp, accounts
  <2>2. CASE Write(f)
    <3>1. written' = [written EXCEPT ![f] = @ + 1] /\ written[f] < MaxSize /\ written[f] \in 0..MaxSize
      BY <1>0, <2>2 DEF Write
    <3>2. written[f] + 1 \in 0..MaxSize
      BY <3>1, MaxSizeAssumption
    <3>3. written' \in [Flows -> 0..MaxSize]
      BY <1>0, <3>1, <3>2
    <3> QED BY <1>1, <2>2, <3>3 DEF Write, accounts
  <2>3. CASE Idle(f) /\ Commit(f)
    BY <2>3, CommitAmounts
  <2> QED BY <1>2, <2>1, <2>2, <2>3 DEF Handler
<1>3. ASSUME NEW m \in Managers, Manager(m) PROVE Amounts'
  BY <1>3, SetBudgetAmounts, ClearAmounts DEF Manager, Callers
<1>4. ASSUME NEW c \in Callers, NEW f \in Flows, RemoveCopy(c, f) PROVE Amounts'
  BY <1>4, RemoveAmounts
<1>5. ASSUME NEW c \in Callers, NEW f \in Flows, Unlink(c, f) PROVE Amounts'
  BY <1>0, <1>1, <1>5 DEF Unlink, accounts
<1>6. CASE Restart
  BY <1>6, RestartAmounts
<1>7. CASE UNCHANGED cacheVars
  BY <1>0, <1>1, <1>7 DEF cacheVars, accounts
<1> QED BY <1>2, <1>3, <1>4, <1>5, <1>6, <1>7 DEF CacheNext

LEMMA InitAccounts == CacheInit => AccountsInv
<1> SUFFICES ASSUME CacheInit PROVE Amounts
  BY InitCacheInv DEF AccountsInv
<1>1. sizes = <<>> /\ total = 0 /\ budget \in Budgets /\ written = [f \in Flows |-> 0]
  BY DEF CacheInit
<1>2. DOMAIN sizes = {} /\ SumOf(sizes, DOMAIN sizes) = 0
  BY <1>1, NoBytes
<1>3. written \in [Flows -> 0..MaxSize]
  BY <1>1, MaxSizeAssumption
<1> QED BY <1>1, <1>2, <1>3, BudgetsAssumption DEF Amounts, Registered

(* The order, the sizes and their sum agree, and what is registered never  *)
(* takes more than the budget, for any sizes and budgets (bodycache.go:148). *)
THEOREM AccountsStaySound == CacheSpec => []AccountsSound
<1>1. AccountsInv => AccountsSound
  <2> SUFFICES ASSUME AccountsInv PROVE AccountsSound
    OBVIOUS
  <2>1. ToSet(order) = Registered /\ Len(order) = Cardinality(Registered)
    BY Accounts, RegisteredFinite DEF AccountsInv
  <2>2. Bytes(Registered) = SumOf(sizes, Registered)
    BY DEF Bytes, SumOf
  <2> QED BY <2>1, <2>2 DEF AccountsInv, Amounts, AccountsSound, Consistent, WithinBudget
<1> QED BY <1>1, InitAccounts, StepAccounts, PTL DEF CacheSpec

(* A commit takes out the oldest copies and no more than it must, for any  *)
(* sizes and budgets (bodycache.go:13).                                    *)
THEOREM OldestAreEvicted == CacheSpec => EvictsOldest
<1>1. ASSUME AccountsInv, NEW f \in Flows, Commit(f) PROVE OldestGo(f)
  <2> DEFINE ord == Append(order, f)
             szs == SizesWith(f)
             out == {g \in ToSet(ord) : g \notin DOMAIN sizes'}
  <2>1. /\ ord \in Seq(Flows) /\ Distinct(ord) /\ ToSet(ord) = Registered \cup {f}
        /\ \A g \in Registered \cup {f} : szs[g] = IF g = f THEN written[f] ELSE sizes[g]
    BY <1>1, CommitEvicts
  <2>2. PICK k \in 0..Len(ord) :
          /\ DOMAIN sizes' = (Registered \cup {f}) \ ToSet(SubSeq(ord, 1, k))
          /\ k > 0 => total' + szs[ord[k]] > budget
    BY <1>1, CommitEvicts
  <2> HIDE DEF ord, szs
  <2>3. Len(ord) \in Nat /\ DOMAIN ord = 1..Len(ord) /\ \A i \in 1..Len(ord) : ord[i] \in ToSet(ord)
    BY <2>1, LenProperties DEF ToSet
  <2>4. out = {ord[i] : i \in 1..k}
    <3>1. ToSet(SubSeq(ord, 1, k)) = {ord[i] : i \in 1..k}
      BY <2>1, PrefixSet
    <3>2. \A i \in 1..k : ord[i] \in ToSet(ord)
      BY <2>3
    <3> QED BY <2>1, <2>2, <3>1, <3>2
  <2> HIDE DEF out
  <2>5. \A i, j \in DOMAIN ord : ord[i] \in out /\ ord[j] \notin out => i < j
    <3> SUFFICES ASSUME NEW i \in 1..Len(ord), NEW j \in 1..Len(ord), ord[i] \in out, ord[j] \notin out
                 PROVE  i < j
      BY <2>3
    <3>1. PICK h \in 1..k : ord[i] = ord[h]
      BY <2>4
    <3>2. i = h
      BY <2>1, <2>3, <3>1 DEF Distinct
    <3>3. ~(j <= k)
      BY <2>3, <2>4
    <3> QED BY <2>3, <3>2, <3>3
  <2>6. out # {} => \E g \in out : total' + (IF g = f THEN written[f] ELSE sizes[g]) > budget
    <3> SUFFICES ASSUME out # {} PROVE \E g \in out : total' + (IF g = f THEN written[f] ELSE sizes[g]) > budget
      OBVIOUS
    <3>1. k > 0 /\ k \in 1..k /\ k \in 1..Len(ord)
      BY <2>3, <2>4
    <3>2. ord[k] \in out /\ ord[k] \in Registered \cup {f}
      BY <2>1, <2>3, <2>4, <3>1
    <3>3. total' + (IF ord[k] = f THEN written[f] ELSE sizes[ord[k]]) > budget
      BY <2>1, <2>2, <3>1, <3>2
    <3> QED BY <3>2, <3>3
  <2> QED BY <2>5, <2>6 DEF ord, out, OldestGo
<1>2. ASSUME AccountsInv, CacheNext, NEW f \in Flows, Commits(f)
      PROVE  Commit(f)
  <2>0. entry \in [Flows -> EntryStates]
    BY <1>2 DEF AccountsInv, CacheInv, Types
  <2>1. ASSUME NEW g \in Flows, Handler(g) PROVE Commit(f)
    BY <1>2, <2>0, <2>1 DEF Commits, Handler, Create, Write, GiveUp, Commit
  <2>2. ~(UNCHANGED entry)
    BY <1>2 DEF Commits
  <2>3. ~Restart
    BY <1>2 DEF Commits, Restart
  <2> QED BY <1>2, <2>1, <2>2, <2>3 DEF CacheNext, Manager, Clear, SetBudget, RemoveCopy, Unlink
<1>3. AccountsInv /\ [CacheNext]_cacheVars =>
        [\A f \in Flows : Commits(f) => OldestGo(f)]_cacheVars
  BY <1>1, <1>2
<1> QED BY <1>3, InitAccounts, StepAccounts, PTL DEF CacheSpec, EvictsOldest

-----------------------------------------------------------------------------
(* The relays, the store's callback and the managers use the cache through *)
(* its operations alone.                                                   *)
LEMMA StepUsesCache == [Next]_vars => [CacheNext]_cacheVars
<1> SUFFICES ASSUME Next PROVE [CacheNext]_cacheVars
  BY DEF vars
<1>1. ASSUME NEW f \in Flows, Relay(f) PROVE [CacheNext]_cacheVars
  BY <1>1 DEF Relay, Start, Copy, RelayUncopied, RelayCopied, Publish, Complete, CompletePut,
              CacheNext, Handler, Free
<1>2. ASSUME NEW m \in Managers, Manage(m) \/ Maintain(m) PROVE [CacheNext]_cacheVars
  BY <1>2 DEF Manage, Maintain, CacheNext, Manager
<1>3. ASSUME NEW c \in Callers, NEW f \in Flows, Callback(c, f) PROVE [CacheNext]_cacheVars
  BY <1>3 DEF Callback, CacheNext, Manager
<1>4. CASE Switch
  BY <1>4 DEF Switch
<1>5. CASE Unlinked
  BY <1>5 DEF Unlinked, CacheNext
<1>6. CASE Crash
  BY <1>6 DEF Crash, CacheNext
<1> QED BY <1>1, <1>2, <1>3, <1>4, <1>5, <1>6 DEF Next

(* CachedBodies implements BodyCache, also through crashes.                *)
THEOREM BodiesUseCache == Spec => CacheSpec
<1>1. Init => CacheInit
  BY DEF Init
<1>2. [Next]_vars => [CacheNext]_cacheVars
  BY StepUsesCache
<1> QED BY <1>1, <1>2, PTL DEF Spec, CacheSpec

(* So in the running service, too, the directory and the accounts agree.   *)
THEOREM BodiesKeepFiles == Spec => []FilesSound
  BY BodiesUseCache, FilesStaySound

(* ... the accounts add up and fit, and the oldest copies make room.       *)
THEOREM BodiesKeepAccounts == Spec => []AccountsSound /\ EvictsOldest
  BY BodiesUseCache, AccountsStaySound, OldestAreEvicted

-----------------------------------------------------------------------------
(* Copies and flows.  What ties them together is who still has to call     *)
(* onEvict: a flow in someone's `duty` has left the store, so its copy may *)
(* go; one that never left it loses its copy to the budget only.           *)

StoreKept ==
  /\ listed \in Seq(Flows) /\ Distinct(listed) /\ ToSet(listed) = stored
  /\ cap \in Caps

Duties ==
  /\ duty \in [Callers -> SUBSET Flows]
  /\ evicting = UNION {duty[c] : c \in Callers}
  /\ \A c \in Callers : duty[c] \subseteq left

Runs ==
  /\ recording \in BOOLEAN
  /\ at \in [Flows -> HandlerSteps]
  /\ bodyFile \subseteq Flows /\ left \subseteq Flows
  /\ forced \subseteq Flows /\ unrecorded \subseteq Flows

(* A handler goes on only when it has called onEvict for what it put out.  *)
Returned(f) == at[f] \in {"new", "publish", "complete", "put"} => duty[f] = {}

(* The path is published once, after the commit.                           *)
Published(f) ==
  /\ f \in bodyFile => entry[f] = "committed"
  /\ entry[f] = "committed" => f \in bodyFile \/ at[f] = "publish"
  /\ at[f] = "publish" => entry[f] = "committed"
  /\ at[f] \in {"new", "relay"} => f \notin bodyFile

Kept(f)  == entry[f] = "committed" /\ f \notin left => f \in Registered \/ f \in forced
Owned(f) == f \in Registered /\ at[f] = "done" =>
              f \in stored \/ f \in evicting \/ f \in unrecorded

CopyOf(f) == Returned(f) /\ Published(f) /\ Kept(f) /\ Owned(f)

CopyInv == AccountsInv /\ StoreKept /\ Duties /\ Runs /\ \A f \in Flows : CopyOf(f)

(* What a put does: what it puts out is what is handed to onEvict.         *)
LEMMA PutKept ==
  ASSUME StoreKept, NEW f \in Flows, S!Put(f)
  PROVE  /\ StoreKept' /\ f \in stored' /\ stored' \subseteq stored \cup {f}
         /\ evicting' = evicting \cup (stored \ stored')
<1>1. CASE S!PutAgain(f)
  BY <1>1 DEF S!PutAgain, S!Put, StoreKept
<1>2. CASE S!PutNew(f) /\ UNCHANGED cap
  <2> DEFINE grown == Append(listed, f)
             n == S!Excess(grown, cap)
             out == S!Oldest(grown, cap)
  <2>1. /\ f \notin stored /\ listed' = SubSeq(grown, n + 1, Len(grown))
        /\ stored' = (stored \ out) \cup {f} /\ evicting' = evicting \cup out
        /\ out = ToSet(SubSeq(grown, 1, n)) /\ cap' = cap
    BY <1>2 DEF S!PutNew, S!Newest, S!Oldest, S!ToSet, ToSet
  <2>2. /\ grown \in Seq(Flows) /\ Distinct(grown) /\ ToSet(grown) = stored \cup {f}
        /\ Len(listed) \in Nat /\ Len(grown) = Len(listed) + 1
        /\ \A i \in 1..Len(listed) : grown[i] = listed[i] /\ listed[i] \in stored
    <3>1. listed \in Seq(Flows) /\ Distinct(listed) /\ ToSet(listed) = stored
      BY DEF StoreKept
    <3>2. grown \in Seq(Flows) /\ Distinct(grown) /\ ToSet(grown) = stored \cup {f}
      BY <2>1, <3>1, AppendKeepsSet
    <3>3. Len(listed) \in Nat /\ DOMAIN listed = 1..Len(listed)
      BY <3>1, LenProperties
    <3>4. Len(grown) = Len(listed) + 1 /\ \A i \in 1..Len(listed) : grown[i] = listed[i]
      BY <3>1, <3>3, AppendProperties
    <3> HIDE DEF grown
    <3> QED BY <3>1, <3>2, <3>3, <3>4 DEF ToSet
  <2>3. n \in 0..Len(listed)
    <3>1. cap \in Nat \ {0}
      BY CapsAssumption DEF StoreKept
    <3> HIDE DEF grown
    <3> QED BY <2>2, <3>1 DEF S!Excess
  <2> HIDE DEF grown, n, out
  <2>4. out = {grown[i] : i \in 1..n}
    BY <2>1, <2>2, <2>3, PrefixSet
  <2>5. out \subseteq stored
    BY <2>2, <2>3, <2>4
  <2>6. Distinct(listed') /\ ToSet(listed') = ToSet(grown) \ out
    BY <2>1, <2>2, <2>3, CutKeepsSet
  <2>7. listed' \in Seq(Flows)
    BY <2>1, <2>2, <2>3, SuffixElements
  <2> QED BY <2>1, <2>2, <2>5, <2>6, <2>7 DEF StoreKept
<1> QED BY <1>1, <1>2 DEF S!Put

(* Seen from here the store's sequence operators are the same operators.   *)
LEMMA SameRemoval == \A f : S!RemoveFirst(listed, f) = RemoveFirst(listed, f)
  BY DEF S!RemoveFirst, S!RemoveAt, S!SelectInSeq, S!Min, RemoveFirst, RemoveAt, SelectInSeq, Min

LEMMA RemovalKept ==
  ASSUME StoreKept, S!Clear \/ \E f \in Flows : S!Delete(f)
  PROVE  StoreKept' /\ stored' \subseteq stored /\ evicting' = evicting \cup (stored \ stored')
<1>1. CASE S!Clear
  BY <1>1 DEF S!Clear, StoreKept, Distinct, ToSet
<1>2. ASSUME NEW f \in Flows, S!Delete(f)
      PROVE  StoreKept' /\ stored' \subseteq stored /\ evicting' = evicting \cup (stored \ stored')
  <2>1. /\ f \in stored /\ stored' = stored \ {f} /\ listed' = RemoveFirst(listed, f)
        /\ evicting' = evicting \cup {f} /\ cap' = cap
    BY <1>2, SameRemoval DEF S!Delete
  <2>2. listed \in Seq(Flows) /\ Distinct(listed) /\ ToSet(listed) = stored
    BY DEF StoreKept
  <2>3. PICK k \in DOMAIN listed : listed[k] = f
    BY <2>1, <2>2 DEF ToSet
  <2>4. listed' \in Seq(Flows) /\ Distinct(listed') /\ ToSet(listed') = stored \ {f}
    BY <2>1, <2>2, <2>3, RemoveElements, RemoveKeepsSet
  <2> QED BY <2>1, <2>4 DEF StoreKept
<1> QED BY <1>1, <1>2

(* The goroutine that changed the store owes the calls for what went.      *)
LEMMA DutiesPassOn ==
  ASSUME Duties, NEW c \in Callers, duty[c] = {}, NEW T \in SUBSET Flows,
         duty' = [duty EXCEPT ![c] = T], left' = left \cup T, evicting' = evicting \cup T
  PROVE  Duties'
<1>1. duty' \in [Callers -> SUBSET Flows]
  BY DEF Duties
<1>2. \A d \in Callers : duty'[d] = IF d = c THEN T ELSE duty[d]
  BY DEF Duties
<1>3. evicting' = UNION {duty'[d] : d \in Callers}
  BY <1>2 DEF Duties
<1>4. \A d \in Callers : duty'[d] \subseteq left'
  BY <1>2 DEF Duties
<1> QED BY <1>1, <1>3, <1>4 DEF Duties

(* A commit loses copies to `unlinking` only.                              *)
LEMMA CommitGoes ==
  ASSUME CacheInv, NEW f \in Flows, Commit(f)
  PROVE  /\ Registered' \subseteq Registered \cup {f}
         /\ Registered \cup {f} \subseteq Registered' \cup unlinking'[f]
         /\ entry' = [entry EXCEPT ![f] = "committed"]
  <1> DEFINE ord == Append(order, f)
             szs == SizesWith(f)
  <1>1. f \in Callers /\ unlinking \in [Callers -> SUBSET Flows]
    BY DEF CacheInv, Types, Callers
  <1>2. ord \in Seq(Flows) /\ Distinct(ord) /\ ToSet(ord) = DOMAIN szs
    <2>1. order \in Seq(Flows) /\ Distinct(order) /\ ToSet(order) = Registered
      BY Accounts
    <2>2. f \notin ToSet(order)
      BY <2>1 DEF Commit
    <2> QED BY <2>1, <2>2, AppendKeepsSet DEF SizesWith
  <1>3. DOMAIN szs = Registered \cup {f}
    BY DEF SizesWith
  <1>4. Evict(f, ord, szs, total + written[f], budget)
    BY DEF Commit
  <1> HIDE DEF ord, szs
  <1>5. PICK gone \in SUBSET (DOMAIN szs) :
          /\ DOMAIN sizes' = (DOMAIN szs) \ gone
          /\ unlinking' = [unlinking EXCEPT ![f] = gone]
    BY <1>1, <1>2, <1>4, Evicted
  <1> QED BY <1>1, <1>3, <1>5 DEF Registered, Commit

LEMMA MaintainGoes ==
  ASSUME CacheInv, NEW m \in Managers, Clear(m) \/ \E b \in Budgets : SetBudget(m, b)
  PROVE  Registered' \subseteq Registered /\ Registered \subseteq Registered' \cup unlinking'[m]
  <1>1. m \in Callers /\ unlinking \in [Callers -> SUBSET Flows]
    BY DEF CacheInv, Types, Callers
  <1>2. order \in Seq(Flows) /\ Distinct(order) /\ ToSet(order) = Registered
    BY Accounts
  <1>3. CASE Clear(m)
    BY <1>1, <1>2, <1>3 DEF Clear, Registered
  <1>4. ASSUME NEW b \in Budgets, SetBudget(m, b)
        PROVE  Registered' \subseteq Registered /\ Registered \subseteq Registered' \cup unlinking'[m]
    <2>1. PICK gone \in SUBSET (DOMAIN sizes) :
            /\ DOMAIN sizes' = (DOMAIN sizes) \ gone
            /\ unlinking' = [unlinking EXCEPT ![m] = gone]
      BY <1>1, <1>2, <1>4, Evicted DEF SetBudget, Registered
    <2> QED BY <1>1, <2>1 DEF Registered
  <1> QED BY <1>3, <1>4

(* The part of CopyInv that is not about the accounts alone.               *)
Tied == StoreKept /\ Duties /\ Runs /\ \A f \in Flows : CopyOf(f)

LEMMA TiedFacts ==
  ASSUME CopyInv
  PROVE  /\ duty \in [Callers -> SUBSET Flows] /\ at \in [Flows -> HandlerSteps]
         /\ entry \in [Flows -> EntryStates] /\ Registered \subseteq Flows
         /\ unlinking \in [Callers -> SUBSET Flows]
         /\ Flows \subseteq Callers /\ Managers \subseteq Callers
         /\ stored \subseteq Flows
         /\ \A f \in Registered : entry[f] = "committed"
<1>1. stored \subseteq Flows
  <2>1. listed \in Seq(Flows) /\ ToSet(listed) = stored
    BY DEF CopyInv, StoreKept
  <2> QED BY <2>1, LenProperties, ElementOfSeq DEF ToSet
<1>2. order \in Seq(Flows) /\ ToSet(order) = Registered
  BY Accounts DEF CopyInv, AccountsInv
<1>3. Registered \subseteq Flows
  BY <1>2, LenProperties, ElementOfSeq DEF ToSet
<1> QED BY <1>1, <1>3 DEF CopyInv, AccountsInv, CacheInv, Types, OnlyCommitted, Duties, Runs, Callers

(* A put by the handler of f, which then goes on to `step`.                *)
LEMMA PutTied ==
  ASSUME CopyInv, NEW f \in Flows, at[f] \in {"new", "put"}, S!Put(f), Changes(f),
         NEW step, step = IF at[f] = "new" THEN "relay" ELSE "done", Goto(f, step),
         UNCHANGED <<cacheVars, recording, bodyFile, forced, unrecorded>>
  PROVE  Tied'
<1>0. /\ StoreKept /\ Duties /\ Runs /\ \A g \in Flows : CopyOf(g)
      /\ f \in Callers /\ duty[f] = {} /\ stored \subseteq Flows
  BY TiedFacts DEF CopyInv, CopyOf, Returned
<1>1. /\ StoreKept' /\ f \in stored' /\ stored' \subseteq stored \cup {f}
      /\ evicting' = evicting \cup (stored \ stored')
  BY <1>0, PutKept
<1>2. /\ duty' = [duty EXCEPT ![f] = stored \ stored'] /\ left' = left \cup (stored \ stored')
  BY DEF Changes
<1>3. Duties'
  BY <1>0, <1>1, <1>2, DutiesPassOn
<1>4. at' = [at EXCEPT ![f] = step] /\ step \in HandlerSteps /\ at \in [Flows -> HandlerSteps]
  BY <1>0 DEF Goto, HandlerSteps, Runs
<1>5. Runs'
  BY <1>0, <1>2, <1>4 DEF Runs
<1>6. UNCHANGED <<entry, sizes, unlinking, bodyFile, forced, unrecorded>>
  BY DEF cacheVars, accounts
<1>7. ASSUME NEW g \in Flows PROVE CopyOf(g)'
  <2>0. CopyOf(g) /\ CopyOf(f) /\ duty \in [Callers -> SUBSET Flows]
    BY <1>0 DEF Duties
  <2>1. Returned(g)'
    BY <1>2, <1>4, <2>0 DEF CopyOf, Returned, Callers
  <2>2. Published(g)'
    BY <1>4, <1>6, <2>0 DEF CopyOf, Published
  <2>3. Kept(g)'
    BY <1>2, <1>6, <2>0 DEF CopyOf, Kept, Registered
  <2>4. Owned(g)'
    BY <1>1, <1>4, <1>6, <2>0 DEF CopyOf, Owned, Registered
  <2> QED BY <2>1, <2>2, <2>3, <2>4 DEF CopyOf
<1> QED BY <1>1, <1>3, <1>5, <1>7 DEF Tied

(* A step of the handler that leaves the store alone.                      *)
LEMMA RelayTied ==
  ASSUME CopyInv, CacheInv', NEW f \in Flows,
         \/ Start(f) /\ ~recording
         \/ Copy(f) \/ RelayUncopied(f) \/ RelayCopied(f) \/ Publish(f) \/ Complete(f)
  PROVE  Tied'
<1>0. /\ StoreKept /\ Duties /\ Runs /\ \A g \in Flows : CopyOf(g)
      /\ entry \in [Flows -> EntryStates] /\ at \in [Flows -> HandlerSteps]
      /\ unlinking' \in [Callers -> SUBSET Flows] /\ f \in Callers
  BY TiedFacts DEF CopyInv, CacheInv, Types
<1>1. UNCHANGED sessionVars
  BY DEF Start, Copy, RelayUncopied, RelayCopied, Publish, Complete
<1>2. StoreKept' /\ Duties'
  BY <1>0, <1>1 DEF sessionVars, StoreKept, Duties
<1>3. CASE Start(f) /\ ~recording
  <2>1. /\ at[f] = "new" /\ at' = [at EXCEPT ![f] = "relay"]
        /\ UNCHANGED <<entry, sizes, recording, bodyFile, forced, unrecorded>>
    BY <1>3 DEF Start, Goto, cacheVars, accounts
  <2>2. Runs'
    BY <1>0, <1>1, <2>1 DEF Runs, HandlerSteps, sessionVars
  <2>3. ASSUME NEW g \in Flows PROVE CopyOf(g)'
    BY <1>0, <1>1, <2>1, <2>3 DEF CopyOf, Returned, Published, Kept, Owned, Registered, sessionVars
  <2> QED BY <1>2, <2>2, <2>3 DEF Tied
<1>4. CASE Copy(f)
  <2>1. /\ at[f] = "relay" /\ UNCHANGED flowVars /\ UNCHANGED sizes
        /\ \/ entry[f] = "none" /\ entry' = [entry EXCEPT ![f] = "open"]
           \/ UNCHANGED entry
    BY <1>4 DEF Copy, Create, Write, accounts
  <2>2. Runs'
    BY <1>0, <1>1, <2>1 DEF Runs, sessionVars, flowVars
  <2>3. ASSUME NEW g \in Flows PROVE CopyOf(g)'
    BY <1>0, <1>1, <2>1, <2>3
       DEF CopyOf, Returned, Published, Kept, Owned, Registered, sessionVars, flowVars
  <2> QED BY <1>2, <2>2, <2>3 DEF Tied
<1>5. CASE RelayUncopied(f)
  <2>1. /\ at[f] = "relay" /\ duty[f] = {} /\ at' = [at EXCEPT ![f] = "complete"]
        /\ UNCHANGED <<sizes, recording, bodyFile, forced, unrecorded>>
        /\ \/ entry[f] = "open" /\ entry' = [entry EXCEPT ![f] = "failed"]
           \/ UNCHANGED entry
    BY <1>5 DEF RelayUncopied, Goto, GiveUp, Free, accounts, cacheVars
  <2>2. Runs'
    BY <1>0, <1>1, <2>1 DEF Runs, HandlerSteps, sessionVars
  <2>3. ASSUME NEW g \in Flows PROVE CopyOf(g)'
    BY <1>0, <1>1, <2>1, <2>3 DEF CopyOf, Returned, Published, Kept, Owned, Registered, sessionVars
  <2> QED BY <1>2, <2>2, <2>3 DEF Tied
<1>6. CASE RelayCopied(f)
  <2>1. /\ at[f] = "relay" /\ duty[f] = {} /\ at' = [at EXCEPT ![f] = "publish"]
        /\ UNCHANGED <<recording, bodyFile, unrecorded>> /\ forced' = forced \cup unlinking'[f]
    BY <1>6 DEF RelayCopied, Goto, Free
  <2>2. /\ Registered' \subseteq Registered \cup {f}
        /\ Registered \cup {f} \subseteq Registered' \cup unlinking'[f]
        /\ entry' = [entry EXCEPT ![f] = "committed"]
    BY <1>6, CommitGoes DEF RelayCopied, CopyInv, AccountsInv
  <2>3. Runs'
    BY <1>0, <1>1, <2>1 DEF Runs, HandlerSteps, sessionVars
  <2>4. ASSUME NEW g \in Flows PROVE CopyOf(g)'
    <3>0. CopyOf(g) /\ UNCHANGED <<duty, left, stored, evicting>>
      BY <1>0, <1>1 DEF sessionVars
    <3>1. Returned(g)'
      BY <1>0, <2>1, <3>0 DEF CopyOf, Returned
    <3>2. Published(g)'
      BY <1>0, <2>1, <2>2, <3>0 DEF CopyOf, Published
    <3>3. Kept(g)'
      BY <1>0, <2>1, <2>2, <3>0 DEF CopyOf, Kept
    <3>4. Owned(g)'
      BY <1>0, <2>1, <2>2, <3>0 DEF CopyOf, Owned
    <3> QED BY <3>1, <3>2, <3>3, <3>4 DEF CopyOf
  <2> QED BY <1>2, <2>3, <2>4 DEF Tied
<1>7. CASE Publish(f)
  <2>1. /\ at[f] = "publish" /\ at' = [at EXCEPT ![f] = "complete"]
        /\ UNCHANGED <<entry, sizes, recording, forced, unrecorded>> /\ bodyFile' = bodyFile \cup {f}
    BY <1>7 DEF Publish, Goto, cacheVars, accounts
  <2>2. Runs'
    BY <1>0, <1>1, <2>1 DEF Runs, HandlerSteps, sessionVars
  <2>3. ASSUME NEW g \in Flows PROVE CopyOf(g)'
    BY <1>0, <1>1, <2>1, <2>3 DEF CopyOf, Returned, Published, Kept, Owned, Registered, sessionVars
  <2> QED BY <1>2, <2>2, <2>3 DEF Tied
<1>8. CASE Complete(f)
  <2>1. /\ at[f] = "complete"
        /\ \/ at' = [at EXCEPT ![f] = "put"] /\ UNCHANGED unrecorded
           \/ at' = [at EXCEPT ![f] = "done"] /\ unrecorded' = unrecorded \cup {f}
        /\ UNCHANGED <<entry, sizes, recording, bodyFile, forced>>
    BY <1>8 DEF Complete, Goto, cacheVars, accounts
  <2>2. Runs'
    BY <1>0, <1>1, <2>1 DEF Runs, HandlerSteps, sessionVars
  <2>3. ASSUME NEW g \in Flows PROVE CopyOf(g)'
    BY <1>0, <1>1, <2>1, <2>3 DEF CopyOf, Returned, Published, Kept, Owned, Registered, sessionVars
  <2> QED BY <1>2, <2>2, <2>3 DEF Tied
<1> QED BY <1>3, <1>4, <1>5, <1>6, <1>7, <1>8

(* A removal from the store by the UI.                                     *)
LEMMA ManageTied == ASSUME CopyInv, NEW m \in Managers, Manage(m) PROVE Tied'
<1>0. /\ StoreKept /\ Duties /\ Runs /\ \A g \in Flows : CopyOf(g)
      /\ m \in Callers /\ duty[m] = {} /\ stored \subseteq Flows
  BY TiedFacts DEF CopyInv, Manage, Free
<1>1. StoreKept' /\ stored' \subseteq stored /\ evicting' = evicting \cup (stored \ stored')
  BY <1>0, RemovalKept DEF Manage
<1>2. duty' = [duty EXCEPT ![m] = stored \ stored'] /\ left' = left \cup (stored \ stored')
  BY DEF Manage, Changes
<1>3. Duties'
  BY <1>0, <1>1, <1>2, DutiesPassOn
<1>4. UNCHANGED <<entry, sizes, recording, at, bodyFile, forced, unrecorded>>
  BY DEF Manage, cacheVars, accounts, flowVars
<1>5. Runs'
  BY <1>0, <1>2, <1>4 DEF Runs
<1>6. ASSUME NEW g \in Flows PROVE CopyOf(g)'
  <2>0. CopyOf(g) /\ m # g /\ duty \in [Callers -> SUBSET Flows] /\ g \in Callers
    BY <1>0, CallersAssumption DEF Duties, Callers
  <2>1. Returned(g)'
    BY <1>2, <1>4, <2>0 DEF CopyOf, Returned
  <2>2. Published(g)' /\ Kept(g)'
    BY <1>2, <1>4, <2>0 DEF CopyOf, Published, Kept, Registered
  <2>3. Owned(g)'
    BY <1>1, <1>4, <2>0 DEF CopyOf, Owned, Registered
  <2> QED BY <2>1, <2>2, <2>3 DEF CopyOf
<1> QED BY <1>1, <1>3, <1>5, <1>6 DEF Tied

(* The budget and Clear take out what they are about to delete.            *)
LEMMA MaintainTied == ASSUME CopyInv, CacheInv', NEW m \in Managers, Maintain(m) PROVE Tied'
<1>0. /\ StoreKept /\ Duties /\ Runs /\ \A g \in Flows : CopyOf(g)
      /\ m \in Callers /\ unlinking' \in [Callers -> SUBSET Flows]
  BY TiedFacts DEF CopyInv, CacheInv, Types
<1>1. Registered' \subseteq Registered /\ Registered \subseteq Registered' \cup unlinking'[m]
  BY MaintainGoes DEF Maintain, CopyInv, AccountsInv
<1>2. /\ UNCHANGED <<listed, stored, cap, evicting, duty, left, recording, at, bodyFile, unrecorded>>
      /\ forced' = forced \cup unlinking'[m] /\ UNCHANGED entry
  BY DEF Maintain, sessionVars, Clear, SetBudget
<1>3. StoreKept' /\ Duties' /\ Runs'
  BY <1>0, <1>2 DEF StoreKept, Duties, Runs
<1>4. ASSUME NEW g \in Flows PROVE CopyOf(g)'
  BY <1>0, <1>1, <1>2, <1>4 DEF CopyOf, Returned, Published, Kept, Owned
<1> QED BY <1>3, <1>4 DEF Tied

(* The callback removes the copy of a flow that has left the store.        *)
LEMMA CallbackTied == ASSUME CopyInv, NEW c \in Callers, NEW f \in Flows, Callback(c, f) PROVE Tied'
<1>0. /\ StoreKept /\ Duties /\ Runs /\ \A g \in Flows : CopyOf(g)
      /\ duty \in [Callers -> SUBSET Flows] /\ f \in duty[c] /\ f \in left
      /\ \A g \in Registered : entry[g] = "committed"
  BY TiedFacts DEF CopyInv, Callback, Duties
<1>1. /\ duty' = [duty EXCEPT ![c] = @ \ {f}] /\ evicting' = UNION {duty'[d] : d \in Callers}
      /\ UNCHANGED <<listed, stored, cap, left, recording, at, bodyFile, forced, unrecorded>>
  BY DEF Callback, flowVars
<1>2. /\ UNCHANGED entry /\ Registered \ {f} \subseteq Registered' /\ Registered' \subseteq Registered
      /\ f \in bodyFile => f \notin Registered'
  BY DEF Callback, RemoveCopy, cacheVars, accounts, Registered
<1>3. StoreKept' /\ Runs'
  BY <1>0, <1>1 DEF StoreKept, Runs
<1>4. \A d \in Callers : duty'[d] = IF d = c THEN duty[c] \ {f} ELSE duty[d]
  BY <1>0, <1>1
<1>5. Duties'
  <2>1. duty' \in [Callers -> SUBSET Flows]
    BY <1>0, <1>1
  <2>2. \A d \in Callers : duty'[d] \subseteq left'
    BY <1>0, <1>1, <1>4 DEF Duties
  <2> QED BY <1>1, <2>1, <2>2 DEF Duties
<1>6. \A g \in evicting \ {f} : g \in evicting'
  BY <1>0, <1>1, <1>4 DEF Duties
<1>7. ASSUME NEW g \in Flows PROVE CopyOf(g)'
  <2>0. CopyOf(g) /\ g \in Callers
    BY <1>0 DEF Callers
  <2>1. Returned(g)'
    BY <1>1, <1>4, <2>0 DEF CopyOf, Returned
  <2>2. Published(g)'
    BY <1>1, <1>2, <2>0 DEF CopyOf, Published
  <2>3. Kept(g)'
    BY <1>0, <1>1, <1>2, <2>0 DEF CopyOf, Kept
  <2>4. Owned(g)'
    <3>1. CASE g = f
      BY <1>0, <1>1, <1>2, <2>0, <3>1 DEF CopyOf, Owned, Published
    <3>2. CASE g # f
      BY <1>1, <1>2, <1>6, <2>0, <3>2 DEF CopyOf, Owned
    <3> QED BY <3>1, <3>2
  <2> QED BY <2>1, <2>2, <2>3, <2>4 DEF CopyOf
<1> QED BY <1>3, <1>5, <1>7 DEF Tied

LEMMA FreshTied ==
  ASSUME listed = <<>>, stored = {}, evicting = {}, cap \in Caps,
         duty = [c \in Callers |-> {}], recording \in BOOLEAN,
         at = [f \in Flows |-> "new"], entry = [f \in Flows |-> "none"], sizes = <<>>,
         bodyFile = {}, left = {}, forced = {}, unrecorded = {}
  PROVE  Tied
<1>1. StoreKept
  BY DEF StoreKept, Distinct, ToSet
<1>2. Duties /\ Runs
  BY DEF Duties, Runs, HandlerSteps
<1>3. ASSUME NEW f \in Flows PROVE CopyOf(f)
  <2>1. f \in Callers /\ f \notin Registered
    BY DEF Callers, Registered
  <2> QED BY <2>1 DEF CopyOf, Returned, Published, Kept, Owned
<1> QED BY <1>1, <1>2, <1>3 DEF Tied

LEMMA StepCopies == CopyInv /\ [Next]_vars => CopyInv'
<1> SUFFICES ASSUME CopyInv, [Next]_vars PROVE CopyInv'
  OBVIOUS
<1>0. AccountsInv' /\ CacheInv'
  BY StepUsesCache, StepAccounts DEF CopyInv, AccountsInv
<1>1. ASSUME NEW f \in Flows, Relay(f) PROVE Tied'
  <2>1. CASE Start(f) /\ recording
    BY <2>1, PutTied DEF Start
  <2>2. CASE CompletePut(f)
    BY <2>2, PutTied DEF CompletePut
  <2> QED BY <1>0, <1>1, <2>1, <2>2, RelayTied DEF Relay
<1>2. ASSUME NEW m \in Managers, Manage(m) \/ Maintain(m) PROVE Tied'
  BY <1>0, <1>2, ManageTied, MaintainTied
<1>3. ASSUME NEW c \in Callers, NEW f \in Flows, Callback(c, f) PROVE Tied'
  BY <1>3, CallbackTied
<1>4. CASE Switch \/ Unlinked \/ UNCHANGED vars
  <2>1. /\ UNCHANGED <<listed, stored, cap, evicting, duty, left, at, bodyFile, forced, unrecorded>>
        /\ UNCHANGED <<sizes, entry>> /\ recording' \in BOOLEAN
    BY <1>4 DEF Switch, Unlinked, Unlink, CopyInv, Runs, vars, sessionVars, flowVars, cacheVars, accounts
  <2>2. StoreKept' /\ Duties' /\ Runs'
    BY <2>1 DEF CopyInv, StoreKept, Duties, Runs
  <2>3. ASSUME NEW g \in Flows PROVE CopyOf(g)'
    BY <2>1, <2>3 DEF CopyInv, CopyOf, Returned, Published, Kept, Owned, Registered
  <2> QED BY <1>0, <2>2, <2>3 DEF CopyInv
<1>5. CASE Crash
  <2>1. /\ listed' = <<>> /\ stored' = {} /\ evicting' = {} /\ cap' \in Caps
        /\ duty' = [c \in Callers |-> {}] /\ recording' \in BOOLEAN
        /\ at' = [f \in Flows |-> "new"] /\ entry' = [f \in Flows |-> "none"] /\ sizes' = <<>>
        /\ bodyFile' = {} /\ left' = {} /\ forced' = {} /\ unrecorded' = {}
    BY <1>5 DEF Crash, Restart, CopyInv, StoreKept
  <2>2. StoreKept'
    BY <2>1 DEF StoreKept, Distinct, ToSet
  <2>3. Duties' /\ Runs'
    BY <2>1 DEF Duties, Runs, HandlerSteps
  <2>4. ASSUME NEW g \in Flows PROVE CopyOf(g)'
    <3>1. g \in Callers /\ g \notin Registered'
      BY <2>1 DEF Callers, Registered
    <3> QED BY <2>1, <3>1 DEF CopyOf, Returned, Published, Kept, Owned
  <2> QED BY <1>0, <2>2, <2>3, <2>4 DEF CopyInv
<1> QED BY <1>0, <1>1, <1>2, <1>3, <1>4, <1>5 DEF Next, CopyInv, Tied

(* Copies live as long as their flows, for any flows, capacities, budgets  *)
(* and any number of goroutines that remove them (service.go:61,           *)
(* bodycache.go:94).                                                       *)
THEOREM CopiesStayWithFlows == Spec => []CopiesFollowFlows
<1>1. Init => CopyInv
  <2> SUFFICES ASSUME Init PROVE CopyInv
    OBVIOUS
  <2>1. AccountsInv
    BY InitAccounts DEF Init
  <2>2. Tied
    BY FreshTied DEF Init, CacheInit, S!StoreInit
  <2> QED BY <2>1, <2>2 DEF CopyInv, Tied
<1>2. CopyInv => CopiesFollowFlows
  <2> SUFFICES ASSUME CopyInv PROVE CopiesFollowFlows
    OBVIOUS
  <2>1. total \in Nat
    <3>1. IsFiniteSet(Registered) /\ \A f \in Registered : sizes[f] \in Nat
      BY RegisteredFinite, MaxSizeAssumption DEF CopyInv, AccountsInv, Amounts
    <3>2. SumOf(sizes, Registered) \in Nat
      BY <3>1, Sums
    <3> QED BY <3>2 DEF CopyInv, AccountsInv, Amounts
  <2>2. CacheTypeOK
    BY <2>1, TiedFacts DEF CopyInv, AccountsInv, Amounts, CacheInv, Types, CacheTypeOK
  <2>3. S!StoreTypeOK
    BY TiedFacts DEF CopyInv, StoreKept, Duties, S!StoreTypeOK
  <2>4. TypeOK
    BY <2>2, <2>3 DEF CopyInv, Duties, Runs, CopyOf, Published, TypeOK
  <2>5. LeaksOnlyUnrecorded
    BY TiedFacts DEF CopyInv, CopyOf, Owned, LeaksOnlyUnrecorded
  <2>6. CopyKept
    BY DEF CopyInv, Runs, CopyOf, Kept, Published, CopyKept
  <2> QED BY <2>4, <2>5, <2>6 DEF CopiesFollowFlows
<1> QED BY <1>1, <1>2, StepCopies, PTL DEF Spec
=============================================================================
