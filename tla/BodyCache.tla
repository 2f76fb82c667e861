----------------------------- MODULE BodyCache ------------------------------
(***************************************************************************)
(* The cache of large response bodies on the disk,                         *)
(* internal/bodycache/bodycache.go: a budget, the committed copies in the  *)
(* order of their commits, their sizes and the sum of these, and the files *)
(* themselves.  A copy is written by the handler goroutine of its flow     *)
(* (Create, Write, then Commit or Abort); evictions, removals and Clear    *)
(* take copies out of the accounts under c.mu and delete the files after   *)
(* they have released it.                                                  *)
(*                                                                         *)
(* The file of a flow is named after it, and the ID of a flow is used      *)
(* once, so a flow stands for its path.  Deleting a file does not fail.    *)
(***************************************************************************)
EXTENDS Integers, Sequences, SequencesExt, FiniteSets

CONSTANTS
  Flows,     \* the flows, each with its file and its handler goroutine
  Managers,  \* the other goroutines that remove copies (of the UI)
  Budgets,   \* the budgets
  MaxSize    \* bound on the size of a body

ASSUME BudgetsAssumption == Budgets \subseteq Nat \ {0} /\ Budgets # {}
ASSUME MaxSizeAssumption == MaxSize \in Nat
ASSUME CallersAssumption == Flows \cap Managers = {}

Callers == Flows \cup Managers

VARIABLES
  order,      \* c.order: the committed copies, the oldest first
  sizes,      \* c.sizes
  total,      \* c.total
  budget,     \* c.budget
  disk,       \* the flows whose file is in the directory
  entry,      \* the Entry of each flow
  written,    \* Entry.n
  unlinking   \* what each goroutine still has to delete, its lock released

accounts  == <<order, sizes, total>>
cacheVars == <<accounts, budget, disk, entry, written, unlinking>>

(* The Entry of a flow: not created yet or nil, being written, given up or *)
(* committed.                                                              *)
EntryStates == {"none", "open", "failed", "committed"}

(* What a handler finds in the map.                                        *)
Registered == DOMAIN sizes

(* The bytes of a set of copies.                                           *)
Bytes(S) == FoldFunctionOnSet(+, 0, sizes, S)

CacheTypeOK ==
  /\ order \in Seq(Flows)
  /\ Registered \subseteq Flows
  /\ \A f \in Registered : sizes[f] \in 0..MaxSize
  /\ total \in Nat
  /\ budget \in Budgets
  /\ disk \subseteq Flows
  /\ entry \in [Flows -> EntryStates]
  /\ written \in [Flows -> 0..MaxSize]
  /\ unlinking \in [Callers -> SUBSET Flows]

CacheInit ==
  /\ order = <<>>
  /\ sizes = <<>>
  /\ total = 0
  /\ budget \in Budgets
  /\ disk = {}
  /\ entry = [f \in Flows |-> "none"]
  /\ written = [f \in Flows |-> 0]
  /\ unlinking = [c \in Callers |-> {}]

-----------------------------------------------------------------------------
Idle(c) == unlinking[c] = {}

(* evictLocked: the number k of copies that a loop over `ord`, whose sizes *)
(* are `szs` and add up to `sum`, takes from the head to get within `bud`. *)
EvictCount(ord, szs, sum, bud, k) ==
  LET rest(i) == sum - FoldFunctionOnSet(+, 0, szs, ToSet(SubSeq(ord, 1, i))) IN
  /\ \A i \in 0..(k - 1) : rest(i) > bud
  /\ rest(k) <= bud \/ k = Len(ord)

(* Mutant of Evict: the newest copies go.                                  *)
EvictNewest(c, ord, szs, sum, bud) ==
  \E k \in 0..Len(ord) :
     LET gone == ToSet(SubSeq(Reverse(ord), 1, k)) IN
     /\ EvictCount(Reverse(ord), szs, sum, bud, k)
     /\ order' = SubSeq(ord, 1, Len(ord) - k)
     /\ sizes' = [f \in (DOMAIN szs) \ gone |-> szs[f]]
     /\ total' = sum - FoldFunctionOnSet(+, 0, szs, gone)
     /\ unlinking' = [unlinking EXCEPT ![c] = gone]

(* The accounts after the goroutine c evicted from the given ones; it      *)
(* deletes the files later.                                                *)
Evict(c, ord, szs, sum, bud) ==
  \E k \in 0..Len(ord) :
     LET gone == ToSet(SubSeq(ord, 1, k)) IN
     /\ EvictCount(ord, szs, sum, bud, k)
     /\ order' = SubSeq(ord, k + 1, Len(ord))
     /\ sizes' = [f \in (DOMAIN szs) \ gone |-> szs[f]]
     /\ total' = sum - FoldFunctionOnSet(+, 0, szs, gone)
     /\ unlinking' = [unlinking EXCEPT ![c] = gone]

-----------------------------------------------------------------------------
(* The handler of a flow.  When the file cannot be created its entry is    *)
(* nil, which Write, Commit and Abort ignore.                              *)
Create(f) ==
  /\ entry[f] = "none"
  /\ entry' = [entry EXCEPT ![f] = "open"]
  /\ disk' = disk \cup {f}
  /\ UNCHANGED <<accounts, budget, written, unlinking>>

Write(f) ==
  /\ entry[f] = "open"
  /\ written[f] < MaxSize
  /\ written' = [written EXCEPT ![f] = @ + 1]
  /\ UNCHANGED <<accounts, budget, disk, entry, unlinking>>

(* A write that fails, a Close that fails in Commit, and Abort.            *)
GiveUp(f) ==
  /\ entry[f] = "open"
  /\ entry' = [entry EXCEPT ![f] = "failed"]
  /\ disk' = disk \ {f}
  /\ UNCHANGED <<accounts, budget, written, unlinking>>

(* c.sizes with the copy of f added.                                       *)
SizesWith(f) ==
  [g \in Registered \cup {f} |-> IF g = f THEN written[f] ELSE sizes[g]]

Commit(f) ==
  /\ entry[f] = "open"
  /\ f \notin Registered
  /\ entry' = [entry EXCEPT ![f] = "committed"]
  /\ Evict(f, Append(order, f), SizesWith(f), total + written[f], budget)
  /\ UNCHANGED <<budget, disk, written>>

-----------------------------------------------------------------------------
(* Mutant of RemoveCopy: the bytes stay in the sum.                        *)
RemoveCopyOnly(m, f) ==
  /\ entry[f] = "committed"
  /\ Idle(m)
  /\ sizes' = [g \in Registered \ {f} |-> sizes[g]]
  /\ order' = RemoveFirst(order, f)
  /\ UNCHANGED total
  /\ unlinking' = [unlinking EXCEPT ![m] = {f}]
  /\ UNCHANGED <<budget, disk, entry, written>>

(* The path of a copy is known once it is committed.                       *)
RemoveCopy(m, f) ==
  /\ entry[f] = "committed"
  /\ Idle(m)
  /\ sizes' = [g \in Registered \ {f} |-> sizes[g]]
  /\ order' = RemoveFirst(order, f)
  /\ total' = IF f \in Registered THEN total - sizes[f] ELSE total
  /\ unlinking' = [unlinking EXCEPT ![m] = {f}]
  /\ UNCHANGED <<budget, disk, entry, written>>

Clear(m) ==
  /\ Idle(m)
  /\ order' = <<>>
  /\ sizes' = <<>>
  /\ total' = 0
  /\ unlinking' = [unlinking EXCEPT ![m] = ToSet(order)]
  /\ UNCHANGED <<budget, disk, entry, written>>

SetBudget(m, b) ==
  /\ Idle(m)
  /\ budget' = b
  /\ Evict(m, order, sizes, total, b)
  /\ UNCHANGED <<disk, entry, written>>

(* os.Remove, outside the lock; a file that is not there is ignored.       *)
Unlink(c, f) ==
  /\ f \in unlinking[c]
  /\ disk' = disk \ {f}
  /\ unlinking' = [unlinking EXCEPT ![c] = @ \ {f}]
  /\ UNCHANGED <<accounts, budget, entry, written>>

(* Mutant of Restart: New keeps the files it finds.                        *)
RestartKeepsFiles ==
  /\ order' = <<>>
  /\ sizes' = <<>>
  /\ total' = 0
  /\ entry' = [f \in Flows |-> "none"]
  /\ written' = [f \in Flows |-> 0]
  /\ unlinking' = [c \in Callers |-> {}]
  /\ UNCHANGED <<budget, disk>>

(* The process dies at any point, with it what it still had to delete, and *)
(* New deletes what it finds in the directory.                             *)
Restart ==
  /\ order' = <<>>
  /\ sizes' = <<>>
  /\ total' = 0
  /\ disk' = {}
  /\ entry' = [f \in Flows |-> "none"]
  /\ written' = [f \in Flows |-> 0]
  /\ unlinking' = [c \in Callers |-> {}]
  /\ UNCHANGED budget

(* A handler removes copies, too: those of the flows its own flow replaced *)
(* in the session store.                                                   *)
Handler(f) == Idle(f) /\ (Create(f) \/ Write(f) \/ GiveUp(f) \/ Commit(f))
Manager(m) == Clear(m) \/ \E b \in Budgets : SetBudget(m, b)

CacheNext ==
  \/ \E f \in Flows : Handler(f)
  \/ \E m \in Managers : Manager(m)
  \/ \E c \in Callers, f \in Flows : RemoveCopy(c, f) \/ Unlink(c, f)
  \/ Restart

CacheSpec == CacheInit /\ [][CacheNext]_cacheVars

-----------------------------------------------------------------------------
Consistent ==
  /\ ToSet(order) = Registered
  /\ Len(order) = Cardinality(Registered)
  /\ total = Bytes(Registered)

WithinBudget == total <= budget

(* The order, the sizes and their sum always agree, and the copies they    *)
(* register never take more than the budget, also when one alone is larger *)
(* or the budget was just lowered (bodycache.go:148).                      *)
AccountsSound == Consistent /\ WithinBudget

(* The file of a registered copy exists: no eviction, removal or failed    *)
(* write of anyone deletes it behind the accounts.                         *)
RegisteredOnDisk == Registered \subseteq disk

(* No file is forgotten: it is being written, it is registered and counts  *)
(* against the budget, or somebody is about to delete it.                  *)
NoOrphans ==
  \A f \in disk : \/ entry[f] = "open"
                  \/ f \in Registered
                  \/ \E c \in Callers : f \in unlinking[c]

(* The accounts and the directory agree although files are deleted only    *)
(* after the lock was released (bodycache.go:143): a deletion that comes   *)
(* late hits no registered copy, and none is left out, also when the       *)
(* process dies in between.                                                *)
FilesSound == RegisteredOnDisk /\ NoOrphans

(* What a commit of f takes out: copies older than those that stay, which  *)
(* with the last of them exceed the budget.                                *)
OldestGo(f) ==
  LET all  == Append(order, f)
      gone == {g \in ToSet(all) : g \notin DOMAIN sizes'} IN
  /\ \A i, j \in DOMAIN all : all[i] \in gone /\ all[j] \notin gone => i < j
  /\ gone # {} => \E g \in gone :
       total' + (IF g = f THEN written[f] ELSE sizes[g]) > budget

Commits(f) == entry[f] = "open" /\ entry'[f] = "committed"

(* Eviction is first in, first out and takes no more than it must: while   *)
(* the budget is what forces copies out, those that stay are younger than  *)
(* those that go, and with the last that went they exceed the budget       *)
(* (bodycache.go:13).                                                      *)
EvictsOldest == [][\A f \in Flows : Commits(f) => OldestGo(f)]_cacheVars
=============================================================================
