------------------------------- MODULE RuleBook -------------------------------
(***************************************************************************)
(* The two rule lists a user edits: the interception rules of              *)
(* internal/service/rules.go, kept in a file, and the URL breakpoints of   *)
(* internal/pipeline/breakpoint.go, kept in memory, with their handlers in *)
(* internal/api.  Each operation holds its list's lock, and the lock is    *)
(* held while the file is written; user interfaces act on copies that they *)
(* fetched earlier.                                                        *)
(***************************************************************************)
EXTENDS Naturals, Sequences, FiniteSets, SequencesExt, Selection

CONSTANTS
  Editors,    \* user interfaces
  Urls,       \* what the pattern of a rule may be
  Matches,    \* pairs <<pattern, url>> that match
  MaxRuleIds, \* bound on the rules ever created
  MaxEdits    \* bound on the operations

ASSUME RuleBookAssumption ==
  Matches \subseteq Urls \X Urls /\ MaxRuleIds \in Nat /\ MaxEdits \in Nat

VARIABLES
  ruleOrder, ruleItems,   \* ruleStore: sequence of IDs, and their rules
  ruleFile,       \* rules.json; NoFile when there is none that can be decoded
  writing,        \* the file is truncated and not yet written
  stale,          \* the last save failed
  breaks,         \* BreakpointManager.rules; a url stands for a pattern and its phases
  breakAll,       \* the global switch
  copies,         \* [Editors -> the URL breakpoints it fetched last]
  said,           \* [breakpoint IDs -> what a user last said of its being enabled]
  verdict,        \* the last ShouldBreakFor: what it said, and what it should
  ids, edits

bookVars == <<ruleOrder, ruleItems, ruleFile, writing, stale, breaks, breakAll, copies, said, verdict, ids, edits>>

NoFile == <<[id |-> 0, enabled |-> FALSE]>>
RuleIds == 1..MaxRuleIds

BookInit ==
  /\ ruleOrder = <<>> /\ ruleItems = <<>> /\ ruleFile = NoFile /\ writing = FALSE /\ stale = TRUE
  /\ breaks = <<>> /\ breakAll = FALSE /\ copies = [e \in Editors |-> <<>>] /\ said = [i \in RuleIds |-> FALSE]
  /\ verdict = [said |-> FALSE, due |-> FALSE]
  /\ ids = 0 /\ edits = 0

MayEdit == edits < MaxEdits /\ edits' = edits + 1

-----------------------------------------------------------------------------
(* list: the rules in their order, those without an item left out.         *)
Listed == LET known == Only(ruleOrder, DOMAIN ruleItems)
          IN [i \in DOMAIN known |-> [id |-> known[i], enabled |-> ruleItems[known[i]]]]

(* save begins: os.WriteFile truncates the file, or cannot open it.        *)
BeginSave ==
  \/ writing' = TRUE /\ ruleFile' = NoFile /\ UNCHANGED stale
  \/ stale' = TRUE /\ UNCHANGED <<writing, ruleFile>>

EndSave ==
  /\ writing
  /\ writing' = FALSE
  /\ \/ ruleFile' = Listed /\ stale' = FALSE
     \/ stale' = TRUE /\ UNCHANGED ruleFile
  /\ UNCHANGED <<ruleOrder, ruleItems, breaks, breakAll, copies, said, verdict, ids, edits>>

Edit == ~writing /\ MayEdit /\ UNCHANGED <<breaks, breakAll, copies, said, verdict>>

CreateRule ==
  /\ Edit /\ ids < MaxRuleIds
  /\ ids' = ids + 1
  /\ \E on \in BOOLEAN : ruleItems' = [i \in DOMAIN ruleItems \cup {ids + 1} |-> IF i = ids + 1 THEN on ELSE ruleItems[i]]
  /\ ruleOrder' = Append(ruleOrder, ids + 1)
  /\ BeginSave

(* update and toggle: a rule that is gone is not found.                    *)
ChangeRule ==
  /\ Edit
  /\ \E i \in DOMAIN ruleItems : \E on \in BOOLEAN : ruleItems' = [ruleItems EXCEPT ![i] = on]
  /\ BeginSave
  /\ UNCHANGED <<ruleOrder, ids>>

Without(i) == Only(ruleOrder, RuleIds \ {i})

DeleteRule ==
  /\ Edit
  /\ \E i \in DOMAIN ruleItems :
       /\ ruleItems' = [j \in DOMAIN ruleItems \ {i} |-> ruleItems[j]]
       /\ ruleOrder' = Without(i)
  /\ BeginSave
  /\ UNCHANGED ids

(* A crash, also in the middle of a save, and the load at the next start.  *)
ReloadRules ==
  /\ MayEdit
  /\ LET loaded == IF ruleFile = NoFile THEN <<>> ELSE ruleFile IN
       /\ ruleOrder' = [i \in DOMAIN loaded |-> loaded[i].id]
       /\ ruleItems' = [i \in {loaded[k].id : k \in DOMAIN loaded} |->
                      (CHOOSE r \in ToSet(loaded) : r.id = i).enabled]
  /\ writing' = FALSE /\ stale' = (ruleFile = NoFile)
  /\ breaks' = <<>> /\ breakAll' = FALSE /\ said' = [i \in RuleIds |-> FALSE]
  /\ UNCHANGED <<ruleFile, copies, verdict, ids>>

-----------------------------------------------------------------------------
Fetch(e) ==
  /\ copies[e] # breaks
  /\ copies' = [copies EXCEPT ![e] = breaks]
  /\ UNCHANGED <<ruleOrder, ruleItems, ruleFile, writing, stale, breaks, breakAll, said, verdict, ids, edits>>

EditBreaks == MayEdit /\ UNCHANGED <<ruleOrder, ruleItems, ruleFile, writing, stale, breakAll, copies, verdict>>

SetGlobalBreak ==
  /\ MayEdit
  /\ breakAll' = ~breakAll
  /\ UNCHANGED <<ruleOrder, ruleItems, ruleFile, writing, stale, breaks, copies, said, verdict, ids>>

AddBreak ==
  /\ EditBreaks /\ ids < MaxRuleIds
  /\ ids' = ids + 1
  /\ \E on \in BOOLEAN, url \in Urls :
       /\ breaks' = Append(breaks, [id |-> ids + 1, url |-> url, enabled |-> on, compiled |-> "none"])
       /\ said' = [said EXCEPT ![ids + 1] = on]

Found(i) == CHOOSE k \in DOMAIN breaks : breaks[k].id = i

(* Mutant of NewEnabled: without a value the copy that the user looked at  *)
(* is written back.                                                        *)
NewEnabledOfCopy(copy, k, given) ==
  IF given # "same" THEN given = "on"
  ELSE IF \E r \in ToSet(copy) : r.id = breaks[k].id
       THEN (CHOOSE r \in ToSet(copy) : r.id = breaks[k].id).enabled ELSE breaks[k].enabled

(* UpdateRuleFields without a value for enabled keeps the present one.     *)
NewEnabled(copy, k, given) == IF given = "same" THEN breaks[k].enabled ELSE given = "on"

(* An editor changes a rule of its copy, or toggles it; the rule may be    *)
(* gone, which is not found, or have changed since.                        *)
ChangeBreak(e) ==
  /\ EditBreaks
  /\ \E r \in ToSet(copies[e]), given \in {"same", "on", "off"}, url \in Urls :
       /\ \E b \in ToSet(breaks) : b.id = r.id
       /\ LET k == Found(r.id) IN
            /\ breaks' = [breaks EXCEPT ![k].url = url, ![k].enabled = NewEnabled(copies[e], k, given)]
            /\ said' = IF given = "same" THEN said ELSE [said EXCEPT ![r.id] = (given = "on")]
  /\ UNCHANGED ids

DeleteBreak(e) ==
  /\ EditBreaks
  /\ \E r \in ToSet(copies[e]) : breaks' = Only(breaks, {b \in ToSet(breaks) : b.id # r.id})
  /\ UNCHANGED <<said, ids>>

(* matchesLocked compiles a pattern again when it has changed.             *)
Compiled(r) == r.url

(* ShouldBreakFor asks the global switch, then the enabled rules until one *)
(* matches, and compiles the patterns on its way.                          *)
ShouldBreakFor(url) ==
  LET hits == {k \in DOMAIN breaks : breaks[k].enabled /\ <<Compiled(breaks[k]), url>> \in Matches}
      last == IF breakAll THEN 0 ELSE IF hits = {} THEN Len(breaks) ELSE CHOOSE k \in hits : \A j \in hits : k <= j
  IN /\ breaks # <<>>
     /\ breaks' = [k \in DOMAIN breaks |->
          IF k <= last /\ breaks[k].enabled THEN [breaks[k] EXCEPT !.compiled = Compiled(breaks[k])] ELSE breaks[k]]
     /\ verdict' = [said |-> breakAll \/ hits # {},
                    due |-> breakAll \/ \E k \in DOMAIN breaks : said[breaks[k].id] /\ <<breaks[k].url, url>> \in Matches]
     /\ UNCHANGED <<ruleOrder, ruleItems, ruleFile, writing, stale, breakAll, copies, said, ids, edits>>

BookNext ==
  \/ CreateRule \/ ChangeRule \/ DeleteRule \/ EndSave \/ ReloadRules \/ AddBreak \/ SetGlobalBreak
  \/ \E e \in Editors : Fetch(e) \/ ChangeBreak(e) \/ DeleteBreak(e)
  \/ \E url \in Urls : ShouldBreakFor(url)

BookSpec == BookInit /\ [][BookNext]_bookVars

-----------------------------------------------------------------------------
(* A breakpoint is enabled exactly when the user last said so, whatever    *)
(* else was changed from an old copy, and it is obeyed with the pattern it *)
(* has now (breakpoint.go:193, 249).                                       *)
EnabledIsLastSaid ==
  /\ \A k \in DOMAIN breaks : breaks[k].enabled = said[breaks[k].id]
  /\ verdict.said = verdict.due

(* The order names each rule once and none that is gone, and the file has  *)
(* the rules as they are, unless it is being written or that failed        *)
(* (rules.go:79, 156); the breakpoints are as they were last said to be.   *)
BookSound ==
  /\ IsInjective(ruleOrder) /\ ToSet(ruleOrder) = DOMAIN ruleItems
  /\ ~writing /\ ~stale => ruleFile = Listed
  /\ EnabledIsLastSaid
=============================================================================
