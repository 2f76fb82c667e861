--------------------------- MODULE ManagementProofs --------------------------
(***************************************************************************)
(* Proofs about the components behind the user interfaces: the child       *)
(* windows and their timers, the configuration, the server certificates,   *)
(* both rule lists, the plugins and the account at the upstream proxy.     *)
(* They share no state, so that each has its own specification and its own *)
(* inductive invariant.                                                    *)
(***************************************************************************)
EXTENDS Settings, Account, Windows, ServerCerts, RuleBook, Plugins, SequenceLemmas

-----------------------------------------------------------------------------
(* The child windows.                                                      *)

WindowStates ==
  [screen : {"none", "opening", "visible", "hidden", "gone"}, closing : BOOLEAN,
   epoch : Nat, timer : Nat, raced : BOOLEAN]

OpenerStates == [pc : {"idle", "creating", "tracking", "showing"}, win : WindowIds \cup {NoWindow}]

WindowTyped ==
  /\ window \in [WindowIds -> WindowStates]
  /\ known \in WindowIds \cup {NoWindow}
  /\ fired \in SUBSET (WindowIds \X Nat)
  /\ dying \in SUBSET WindowIds
  /\ opener \in [Openers -> OpenerStates]
  /\ shown \in Nat

(* A window that is not tracked yet was never closed, and belongs to the   *)
(* one call that creates it.                                               *)
Untracked(w) == window[w].screen \in {"none", "opening"}

NewOnes ==
  /\ \A w \in WindowIds : Untracked(w) =>
       /\ ~window[w].closing /\ window[w].epoch = 0 /\ window[w].timer = 0
       /\ w \notin dying /\ w # known
       /\ \A o \in Openers : ~(opener[o].pc = "showing" /\ opener[o].win = w)
  /\ \A o \in Openers :
       /\ opener[o].pc = "tracking" => opener[o].win \in WindowIds /\ window[opener[o].win].screen = "opening"
       /\ opener[o].pc = "showing" => opener[o].win \in WindowIds
  /\ \A o, p \in Openers :
       opener[o].pc = "tracking" /\ opener[p].pc = "tracking" /\ opener[o].win = opener[p].win => o = p

(* The epochs of timers and of their callbacks are those of the window     *)
(* when it was closed.                                                     *)
Epochs ==
  /\ \A w \in WindowIds : window[w].timer = 0 \/ window[w].timer = window[w].epoch
  /\ \A f \in fired : 0 < f[2] /\ f[2] <= window[f[1]].epoch

(* A window that was destroyed, or will be unless its epoch changes.       *)
Condemned(w) ==
  \/ w \in dying \/ window[w].screen = "gone"
  \/ window[w].timer # 0 \/ <<w, window[w].epoch>> \in fired

Doomed == \A w \in WindowIds : Condemned(w) /\ Overlaps(w) => window[w].raced

KnownLives ==
  known # NoWindow => known \notin dying /\ window[known].screen \in {"visible", "hidden"}

WindowInv == WindowTyped /\ NewOnes /\ Epochs /\ Doomed /\ KnownLives

(* The records of a window change one field at a time.                     *)
LEMMA WindowFields ==
  ASSUME NEW v \in WindowStates, NEW n \in Nat, NEW b \in BOOLEAN
  PROVE  /\ [v EXCEPT !.timer = n] \in WindowStates
         /\ [v EXCEPT !.epoch = n] \in WindowStates
         /\ [v EXCEPT !.closing = FALSE] \in WindowStates
         /\ [v EXCEPT !.raced = b] \in WindowStates
<1>1. [v EXCEPT !.timer = n] \in WindowStates /\ [v EXCEPT !.epoch = n] \in WindowStates
  BY DEF WindowStates
<1>2. [v EXCEPT !.closing = FALSE] \in WindowStates /\ [v EXCEPT !.raced = b] \in WindowStates
  BY DEF WindowStates
<1> QED BY <1>1, <1>2

LEMMA ReusedFields ==
  ASSUME NEW v \in WindowStates
  PROVE  /\ Reused(v) \in WindowStates
         /\ Reused(v).screen = v.screen /\ Reused(v).closing = v.closing /\ Reused(v).raced = v.raced
         /\ Reused(v).timer = 0 /\ Reused(v).epoch = v.epoch + 1
<1> DEFINE u == [v EXCEPT !.timer = 0]
           e == v.epoch + 1
<1>1. e \in Nat /\ u \in WindowStates
  BY WindowFields DEF WindowStates
<1>2. Reused(v) = [u EXCEPT !.epoch = e]
  BY DEF Reused, WindowStates
<1> HIDE DEF u, e
<1>3. Reused(v) \in WindowStates
  BY <1>1, <1>2, WindowFields
<1>4. Reused(v).screen = v.screen /\ Reused(v).closing = v.closing
  BY DEF Reused, WindowStates
<1>5. Reused(v).raced = v.raced
  BY DEF Reused, WindowStates
<1>6. Reused(v).timer = 0 /\ Reused(v).epoch = v.epoch + 1
  BY DEF Reused, WindowStates
<1> QED BY <1>3, <1>4, <1>5, <1>6

LEMMA ScheduledFields ==
  ASSUME NEW v \in WindowStates, NEW b \in BOOLEAN
  PROVE  /\ Scheduled(v, b) \in WindowStates
         /\ Scheduled(v, b).screen = v.screen /\ ~Scheduled(v, b).closing
         /\ Scheduled(v, b).epoch = v.epoch + 1 /\ Scheduled(v, b).timer = v.epoch + 1
         /\ Scheduled(v, b).raced = b
<1> DEFINE e == v.epoch + 1
           t == [v EXCEPT !.closing = FALSE]
           u == [t EXCEPT !.epoch = e]
           w == [u EXCEPT !.timer = e]
<1>0. e \in Nat
  BY DEF WindowStates
<1>1. e \in Nat /\ t \in WindowStates
  BY <1>0, WindowFields
<1>2. Scheduled(v, b) = [w EXCEPT !.raced = b]
  BY DEF Scheduled, WindowStates
<1>3. u \in WindowStates
  <2> HIDE DEF e, t
  <2> QED BY <1>1, WindowFields
<1>4. w \in WindowStates
  <2> HIDE DEF e, u
  <2> QED BY <1>1, <1>3, WindowFields
<1>5. Scheduled(v, b) \in WindowStates
  <2> HIDE DEF w
  <2> QED BY <1>2, <1>4, WindowFields
<1>6. Scheduled(v, b).screen = v.screen /\ ~Scheduled(v, b).closing
  BY DEF Scheduled, WindowStates
<1>7. Scheduled(v, b).epoch = v.epoch + 1 /\ Scheduled(v, b).timer = v.epoch + 1
  BY DEF Scheduled, WindowStates
<1>8. Scheduled(v, b).raced = b
  BY DEF Scheduled, WindowStates
<1> QED BY <1>5, <1>6, <1>7, <1>8

LEMMA ReuseKeeps ==
  ASSUME NEW o \in Openers, WindowInv, Reuse(o)
  PROVE  WindowInv'
<1> USE WindowsAssumption
<1>0. WindowTyped /\ NewOnes /\ Epochs /\ Doomed /\ KnownLives
  BY DEF WindowInv
<1>1. /\ opener[o].pc = "idle" /\ shown' \in Nat
      /\ known' = known /\ fired' = fired /\ dying' = dying
  BY <1>0 DEF Reuse, WindowTyped
<1>2. CASE known = NoWindow
  <2>1. opener' = [opener EXCEPT ![o] = [pc |-> "creating", win |-> NoWindow]] /\ window' = window
    BY <1>2 DEF Reuse
  <2>2. WindowTyped'
    BY <1>0, <1>1, <2>1 DEF WindowTyped, OpenerStates
  <2>3. NewOnes'
    BY <1>0, <1>1, <2>1 DEF WindowTyped, OpenerStates, NewOnes, Untracked
  <2>4. Epochs' /\ KnownLives'
    BY <1>0, <1>1, <2>1 DEF Epochs, KnownLives
  <2>5. Doomed'
    BY <1>0, <1>1, <2>1 DEF WindowTyped, OpenerStates, Doomed, Condemned, Overlaps
  <2> QED BY <2>2, <2>3, <2>4, <2>5 DEF WindowInv
<1>3. CASE known # NoWindow
  <2>1. opener' = [opener EXCEPT ![o] = [pc |-> "showing", win |-> known]]
    BY <1>3 DEF Reuse
  <2>2. known \in WindowIds /\ window[known] \in WindowStates
    BY <1>0, <1>3 DEF WindowTyped
  <2>3. /\ window'[known] \in WindowStates
        /\ window'[known].screen = window[known].screen /\ window'[known].closing = window[known].closing
        /\ window'[known].raced = window[known].raced
        /\ window'[known].timer = 0 /\ window'[known].epoch = window[known].epoch + 1
    <3>1. window'[known] = Reused(window[known])
      BY <1>0, <1>3, <2>2 DEF Reuse, WindowTyped
    <3> QED BY <2>2, <3>1, ReusedFields
  <2>4. \A w \in WindowIds : w # known => window'[w] = window[w]
    BY <1>0, <1>3 DEF Reuse, WindowTyped
  <2>5. window' \in [WindowIds -> WindowStates]
    <3>1. DOMAIN window' = WindowIds /\ window' = [w \in WindowIds |-> window'[w]]
      BY <1>0, <1>3 DEF Reuse, WindowTyped
    <3> QED BY <1>0, <2>3, <2>4, <3>1 DEF WindowTyped
  <2>6. WindowTyped'
    BY <1>0, <1>1, <2>1, <2>2, <2>5 DEF WindowTyped, OpenerStates
  <2>7. NewOnes'
    BY <1>0, <1>1, <1>3, <2>1, <2>2, <2>3, <2>4 DEF WindowTyped, OpenerStates, NewOnes, Untracked, KnownLives
  <2>8. Epochs'
    BY <1>0, <1>1, <2>2, <2>3, <2>4 DEF WindowTyped, WindowStates, Epochs
  <2>9. Doomed'
    <3>1. ~Condemned(known)'
      <4>1. known \notin dying /\ window[known].screen # "gone"
        BY <1>0, <1>3 DEF KnownLives
      <4>2. <<known, window[known].epoch + 1>> \notin fired
        BY <1>0, <2>2 DEF WindowTyped, WindowStates, Epochs
      <4> QED BY <1>1, <2>3, <4>1, <4>2 DEF Condemned
    <3>2. ASSUME NEW w \in WindowIds, w # known, Condemned(w)', Overlaps(w)' PROVE window'[w].raced
      <4>1. Condemned(w) /\ Overlaps(w)
        BY <1>0, <1>1, <2>1, <2>4, <3>2 DEF WindowTyped, OpenerStates, Condemned, Overlaps
      <4> QED BY <1>0, <2>4, <3>2, <4>1 DEF Doomed
    <3> QED BY <1>1, <3>1, <3>2 DEF Doomed
  <2>10. KnownLives'
    BY <1>0, <1>1, <2>3 DEF KnownLives
  <2> QED BY <2>6, <2>7, <2>8, <2>9, <2>10 DEF WindowInv
<1> QED BY <1>2, <1>3

LEMMA ShowKeeps ==
  ASSUME NEW o \in Openers, WindowInv, Show(o)
  PROVE  WindowInv'
<1> USE WindowsAssumption DEF Show
<1>0. WindowTyped /\ NewOnes /\ Epochs /\ Doomed /\ KnownLives
  BY DEF WindowInv
<1>1. WindowTyped'
  <2>1. window' \in [WindowIds -> WindowStates]
    BY <1>0 DEF WindowTyped, WindowStates, NewOnes
  <2>2. opener' \in [Openers -> OpenerStates]
    BY <1>0 DEF WindowTyped, OpenerStates
  <2> QED BY <1>0, <2>1, <2>2 DEF WindowTyped
<1>2. NewOnes'
  BY <1>0 DEF WindowTyped, WindowStates, OpenerStates, NewOnes, Untracked
<1>3. Epochs'
  BY <1>0 DEF WindowTyped, WindowStates, OpenerStates, Epochs
<1>4. Doomed'
  BY <1>0 DEF WindowTyped, WindowStates, OpenerStates, Doomed, Condemned, Overlaps, NewOnes, Untracked, Epochs, KnownLives
<1>5. KnownLives'
  BY <1>0 DEF WindowTyped, WindowStates, OpenerStates, KnownLives, NewOnes, Untracked
<1> QED BY <1>1, <1>2, <1>3, <1>4, <1>5 DEF WindowInv

LEMMA CreateKeeps ==
  ASSUME NEW o \in Openers, WindowInv, Create(o)
  PROVE  WindowInv'
<1> USE WindowsAssumption DEF Create
<1>0. WindowTyped /\ NewOnes /\ Epochs /\ Doomed /\ KnownLives
  BY DEF WindowInv
<1>1. WindowTyped'
  BY <1>0 DEF WindowTyped, WindowStates, OpenerStates
<1>2. NewOnes'
  BY <1>0 DEF WindowTyped, WindowStates, OpenerStates, NewOnes, Untracked
<1>3. Epochs'
  BY <1>0 DEF WindowTyped, WindowStates, OpenerStates, Epochs
<1>4. Doomed'
  BY <1>0 DEF WindowTyped, WindowStates, OpenerStates, Doomed, Condemned, Overlaps, NewOnes, Untracked, Epochs, KnownLives
<1>5. KnownLives'
  BY <1>0 DEF WindowTyped, WindowStates, OpenerStates, KnownLives, NewOnes, Untracked
<1> QED BY <1>1, <1>2, <1>3, <1>4, <1>5 DEF WindowInv

LEMMA TrackKeeps ==
  ASSUME NEW o \in Openers, WindowInv, Track(o)
  PROVE  WindowInv'
<1> USE WindowsAssumption DEF Track
<1>0. WindowTyped /\ NewOnes /\ Epochs /\ Doomed /\ KnownLives
  BY DEF WindowInv
<1>1. WindowTyped'
  <2>1. window' \in [WindowIds -> WindowStates]
    BY <1>0 DEF WindowTyped, WindowStates, NewOnes
  <2>2. opener' \in [Openers -> OpenerStates] /\ known' \in WindowIds
    BY <1>0 DEF WindowTyped, OpenerStates, NewOnes
  <2> QED BY <1>0, <2>1, <2>2 DEF WindowTyped
<1>2. NewOnes'
  BY <1>0 DEF WindowTyped, WindowStates, OpenerStates, NewOnes, Untracked
<1>3. Epochs'
  BY <1>0 DEF WindowTyped, WindowStates, OpenerStates, Epochs
<1>4. Doomed'
  BY <1>0 DEF WindowTyped, WindowStates, OpenerStates, Doomed, Condemned, Overlaps, NewOnes, Untracked, Epochs, KnownLives
<1>5. KnownLives'
  BY <1>0 DEF WindowTyped, WindowStates, OpenerStates, KnownLives, NewOnes, Untracked
<1> QED BY <1>1, <1>2, <1>3, <1>4, <1>5 DEF WindowInv

LEMMA HideKeeps ==
  ASSUME NEW x \in WindowIds, WindowInv, Hide(x)
  PROVE  WindowInv'
<1> USE WindowsAssumption DEF Hide
<1>0. WindowTyped /\ NewOnes /\ Epochs /\ Doomed /\ KnownLives
  BY DEF WindowInv
<1>1. WindowTyped'
  BY <1>0 DEF WindowTyped, WindowStates, OpenerStates
<1>2. NewOnes'
  BY <1>0 DEF WindowTyped, WindowStates, OpenerStates, NewOnes, Untracked
<1>3. Epochs'
  BY <1>0 DEF WindowTyped, WindowStates, OpenerStates, Epochs
<1>4. Doomed'
  BY <1>0 DEF WindowTyped, WindowStates, OpenerStates, Doomed, Condemned, Overlaps, NewOnes, Untracked, Epochs, KnownLives
<1>5. KnownLives'
  BY <1>0 DEF WindowTyped, WindowStates, OpenerStates, KnownLives, NewOnes, Untracked
<1> QED BY <1>1, <1>2, <1>3, <1>4, <1>5 DEF WindowInv

LEMMA ScheduleKeeps ==
  ASSUME NEW x \in WindowIds, WindowInv, Schedule(x)
  PROVE  WindowInv'
<1> USE WindowsAssumption
<1>0. WindowTyped /\ NewOnes /\ Epochs /\ Doomed /\ KnownLives
  BY DEF WindowInv
<1>1. /\ window[x] \in WindowStates /\ window[x].closing /\ Overlaps(x) \in BOOLEAN
      /\ UNCHANGED <<known, fired, dying, opener, shown>>
  BY <1>0 DEF Schedule, WindowTyped, Overlaps
<1>2. /\ window'[x] \in WindowStates /\ window'[x].screen = window[x].screen /\ ~window'[x].closing
      /\ IF known # x
         THEN /\ window'[x].epoch = window[x].epoch /\ window'[x].timer = window[x].timer
              /\ window'[x].raced = window[x].raced
         ELSE /\ window'[x].epoch = window[x].epoch + 1 /\ window'[x].timer = window[x].epoch + 1
              /\ window'[x].raced = Overlaps(x)
  <2>1. CASE known = x
    <3>0. DOMAIN window = WindowIds
      BY <1>0 DEF WindowTyped
    <3>1. window'[x] = Scheduled(window[x], Overlaps(x))
      BY <2>1, <3>0 DEF Schedule
    <3> QED BY <1>1, <2>1, <3>1, ScheduledFields
  <2>2. CASE known # x
    <3>1. window'[x] = [window[x] EXCEPT !.closing = FALSE]
      BY <1>0, <2>2 DEF Schedule, WindowTyped
    <3>2. window'[x] \in WindowStates
      BY <1>1, <3>1, WindowFields
    <3> QED BY <1>1, <2>2, <3>1, <3>2 DEF WindowStates
  <2> QED BY <2>1, <2>2
<1>3. \A w \in WindowIds : w # x => window'[w] = window[w]
  BY <1>0 DEF Schedule, WindowTyped
<1>4. WindowTyped'
  <2>1. window' = [w \in WindowIds |-> window'[w]]
    BY <1>0 DEF Schedule, WindowTyped
  <2>2. \A w \in WindowIds : window'[w] \in WindowStates
    BY <1>0, <1>2, <1>3 DEF WindowTyped
  <2> QED BY <1>0, <1>1, <2>1, <2>2 DEF WindowTyped
<1>5. NewOnes'
  BY <1>0, <1>1, <1>2, <1>3 DEF WindowTyped, NewOnes, Untracked
<1>6. Epochs'
  <2>1. \A w \in WindowIds : window[w].epoch \in Nat /\ window'[w].epoch >= window[w].epoch
    <3>1. \A w \in WindowIds : window[w].epoch \in Nat
      BY <1>0 DEF WindowTyped, WindowStates
    <3> QED BY <1>2, <1>3, <3>1
  <2>2. \A w \in WindowIds : window'[w].timer = 0 \/ window'[w].timer = window'[w].epoch
    BY <1>0, <1>2, <1>3 DEF Epochs
  <2>3. \A f \in fired : 0 < f[2] /\ f[2] <= window'[f[1]].epoch
    <3>1. \A w \in WindowIds : window'[w].epoch \in Nat
      BY <1>4 DEF WindowTyped, WindowStates
    <3> TAKE f \in fired
    <3>2. f[1] \in WindowIds /\ f[2] \in Nat /\ 0 < f[2] /\ f[2] <= window[f[1]].epoch
      BY <1>0 DEF Epochs, WindowTyped
    <3> QED BY <2>1, <3>1, <3>2
  <2> QED BY <1>1, <2>2, <2>3 DEF Epochs
<1>7. Doomed'
  <2> SUFFICES ASSUME NEW w \in WindowIds, Condemned(w)', Overlaps(w)' PROVE window'[w].raced
    BY DEF Doomed
  <2>1. Overlaps(w)
    BY <1>1, <1>2, <1>3 DEF Overlaps
  <2>2. CASE w = x /\ known = x
    BY <1>2, <2>1, <2>2
  <2>3. CASE w # x \/ known # x
    <3>1. Condemned(w) /\ window'[w].raced = window[w].raced
      BY <1>1, <1>2, <1>3, <2>3 DEF Condemned
    <3> QED BY <1>0, <2>1, <3>1 DEF Doomed
  <2> QED BY <2>2, <2>3
<1>8. KnownLives'
  BY <1>0, <1>1, <1>2, <1>3 DEF WindowTyped, KnownLives
<1> QED BY <1>4, <1>5, <1>6, <1>7, <1>8 DEF WindowInv

LEMMA FireKeeps ==
  ASSUME NEW x \in WindowIds, WindowInv, Fire(x)
  PROVE  WindowInv'
<1> USE WindowsAssumption DEF Fire
<1>0. WindowTyped /\ NewOnes /\ Epochs /\ Doomed /\ KnownLives
  BY DEF WindowInv
<1>1. WindowTyped'
  BY <1>0 DEF WindowTyped, WindowStates, OpenerStates
<1>2. NewOnes'
  BY <1>0 DEF WindowTyped, WindowStates, OpenerStates, NewOnes, Untracked
<1>3. Epochs'
  BY <1>0 DEF WindowTyped, WindowStates, OpenerStates, Epochs
<1>4. Doomed'
  BY <1>0 DEF WindowTyped, WindowStates, OpenerStates, Doomed, Condemned, Overlaps, NewOnes, Untracked, Epochs, KnownLives
<1>5. KnownLives'
  BY <1>0 DEF WindowTyped, WindowStates, OpenerStates, KnownLives, NewOnes, Untracked
<1> QED BY <1>1, <1>2, <1>3, <1>4, <1>5 DEF WindowInv

LEMMA DestroyKeeps ==
  ASSUME NEW x \in WindowIds, WindowInv, Destroy(x)
  PROVE  WindowInv'
<1> USE WindowsAssumption DEF Destroy
<1>0. WindowTyped /\ NewOnes /\ Epochs /\ Doomed /\ KnownLives
  BY DEF WindowInv
<1>1. WindowTyped'
  BY <1>0 DEF WindowTyped, WindowStates, OpenerStates
<1>2. NewOnes'
  BY <1>0 DEF WindowTyped, WindowStates, OpenerStates, NewOnes, Untracked
<1>3. Epochs'
  BY <1>0 DEF WindowTyped, WindowStates, OpenerStates, Epochs
<1>4. Doomed'
  BY <1>0 DEF WindowTyped, WindowStates, OpenerStates, Doomed, Condemned, Overlaps, NewOnes, Untracked, Epochs, KnownLives
<1>5. KnownLives'
  BY <1>0 DEF WindowTyped, WindowStates, OpenerStates, KnownLives, NewOnes, Untracked
<1> QED BY <1>1, <1>2, <1>3, <1>4, <1>5 DEF WindowInv

LEMMA ExpireKeeps ==
  ASSUME WindowInv, Expire
  PROVE  WindowInv'
<1> USE WindowsAssumption DEF Expire, Obsolete
<1>0. WindowTyped /\ NewOnes /\ Epochs /\ Doomed /\ KnownLives
  BY DEF WindowInv
<1>1. WindowTyped'
  BY <1>0 DEF WindowTyped, WindowStates, OpenerStates
<1>2. NewOnes'
  BY <1>0 DEF WindowTyped, WindowStates, OpenerStates, NewOnes, Untracked
<1>3. Epochs'
  BY <1>0 DEF WindowTyped, WindowStates, OpenerStates, Epochs
<1>4. Doomed'
  BY <1>0 DEF WindowTyped, WindowStates, OpenerStates, Doomed, Condemned, Overlaps, NewOnes, Untracked, Epochs, KnownLives
<1>5. KnownLives'
  BY <1>0 DEF WindowTyped, WindowStates, OpenerStates, KnownLives, NewOnes, Untracked
<1> QED BY <1>1, <1>2, <1>3, <1>4, <1>5 DEF WindowInv

(* A window that is reopened lives on, for any windows, callers and timers: *)
(* one on the way to its destruction is out of the table, and is visible   *)
(* only if its closing overlapped a reopening.                             *)
THEOREM WindowsStayLive == WindowsSpec => []WindowsLive
<1>1. WindowsInit => WindowInv
  <2> SUFFICES ASSUME WindowsInit PROVE WindowInv
    OBVIOUS
  <2> USE WindowsAssumption DEF WindowsInit
  <2>1. WindowTyped
    BY DEF WindowTyped, WindowStates, OpenerStates
  <2>2. NewOnes /\ Epochs /\ KnownLives
    BY DEF NewOnes, Untracked, Epochs, KnownLives
  <2>3. Doomed
    BY DEF Doomed, Condemned, Overlaps
  <2> QED BY <2>1, <2>2, <2>3 DEF WindowInv
<1>2. WindowInv /\ [WindowsNext]_windowVars => WindowInv'
  <2> SUFFICES ASSUME WindowInv, [WindowsNext]_windowVars PROVE WindowInv'
    OBVIOUS
  <2>1. ASSUME NEW o \in Openers, Reuse(o) \/ Show(o) \/ Create(o) \/ Track(o) PROVE WindowInv'
    BY <2>1, ReuseKeeps, ShowKeeps, CreateKeeps, TrackKeeps
  <2>2. ASSUME NEW w \in WindowIds, Hide(w) \/ Schedule(w) \/ Fire(w) \/ Destroy(w) PROVE WindowInv'
    BY <2>2, HideKeeps, ScheduleKeeps, FireKeeps, DestroyKeeps
  <2>3. CASE Expire
    BY <2>3, ExpireKeeps
  <2>4. CASE UNCHANGED windowVars
    BY <2>4 DEF windowVars, WindowInv, WindowTyped, NewOnes, Untracked, Epochs, Doomed, Condemned,
                Overlaps, KnownLives
  <2> QED BY <2>1, <2>2, <2>3, <2>4 DEF WindowsNext
<1>3. WindowInv => WindowsLive
  <2> SUFFICES ASSUME WindowInv PROVE WindowsLive
    OBVIOUS
  <2>0. WindowTyped /\ NewOnes /\ Doomed /\ KnownLives
    BY DEF WindowInv
  <2>1. known # NoWindow => known \notin dying /\ window[known].screen \notin {"none", "gone"}
    BY <2>0 DEF KnownLives
  <2>2. \A w \in dying : window[w].screen = "visible" => window[w].raced
    BY <2>0 DEF WindowTyped, Doomed, Condemned, Overlaps
  <2>3. ASSUME NEW o \in Openers, opener[o].pc = "showing"
        PROVE  window[opener[o].win].screen # "gone" \/ window[opener[o].win].raced
    <3>1. opener[o].win \in WindowIds /\ opener[o] = [pc |-> "showing", win |-> opener[o].win]
      BY <2>0, <2>3 DEF WindowTyped, OpenerStates, NewOnes
    <3> QED BY <2>0, <3>1 DEF Doomed, Condemned, Overlaps
  <2> QED BY <2>1, <2>2, <2>3 DEF WindowsLive
<1> QED BY <1>1, <1>2, <1>3, PTL DEF WindowsSpec

-----------------------------------------------------------------------------
(* The configuration.                                                      *)

Values    == {c \in [Settings -> 0..Unparsable] : \A k \in Settings : c[k] \in ValuesOf(k)}
Appliable == Applied \cup {"systemProxy"}
Patches   == UNION {[S -> 0..2] : S \in SUBSET Patchable}

UpdateStates ==
  [pc : {"idle", "saving", "applying", "done"}, patch : Patches \cup {<<>>},
   merged : Values \cup {Torn}, todo : Seq(Appliable)]

SettingTyped ==
  /\ phase \in {"down", "starting", "up"} /\ starts \in Nat
  /\ cfg \in Values /\ file \in Values \cup {Torn}
  /\ engine \in [Applied \cup {"port"} -> 0..1]
  /\ osProxy \in 0..2 /\ proxyOn \in BOOLEAN /\ unsaved \in BOOLEAN
  /\ unset \in BOOLEAN
  /\ update \in [Updates -> UpdateStates]

OneUpdate ==
  /\ \A u, v \in Updates : Locked(u) /\ Locked(v) => u = v
  /\ \A u \in Updates : Locked(u) => phase = "up"

(* A setting the runtime works with, or that it cannot parse.              *)
InForce(k) == cfg[k] = Unparsable \/ engine[k] = cfg[k]
Pointed    == unset \/ (osProxy = engine["port"]) = (cfg["systemProxy"] = 1)

(* Between two updates everything is in force; during one, what it does not *)
(* have to apply any more.                                                 *)
Agreed ==
  /\ phase # "down" /\ Free => Pointed /\ \A k \in Applied \ {"recording"} : InForce(k)
  /\ \A u \in Updates : Locked(u) =>
       /\ update[u].merged = cfg
       /\ "systemProxy" \in ToSet(update[u].todo) \/ Pointed
       /\ \A k \in Applied \ {"recording"} : k \in ToSet(update[u].todo) \/ InForce(k)

SavedOrSaving == phase # "down" => Saving \/ unsaved \/ file = cfg

SettingInv == SettingTyped /\ OneUpdate /\ Agreed /\ SavedOrSaving

LEMMA SettingsDiffer ==
  /\ Applied \subseteq Settings /\ "systemProxy" \in Settings /\ "systemProxy" \notin Applied
  /\ "port" \in Settings /\ "port" \notin Applied /\ "autoProxy" \in Settings
  /\ "recording" \in Applied
BY DEF Applied, Settings, Always, WhenNamed

LEMMA DefaultValues == Defaults \in Values
BY DEF Defaults, Values, ValuesOf, Unparsable

(* Only the upstream address can be one that is not understood.            *)
LEMMA StoredValues ==
  ASSUME NEW c \in Values
  PROVE  /\ \A k \in Settings : c[k] \in 0..1 \/ (k = "upstream" /\ c[k] = Unparsable)
         /\ c["systemProxy"] \in 0..1 /\ c["autoProxy"] \in 0..1 /\ c["port"] \in 0..1
BY SettingsDiffer DEF Values, ValuesOf, Unparsable

LEMMA AppliersAll ==
  Appliers \in Seq(Appliable) /\ ToSet(Appliers) = Appliable
<1>1. /\ Appliers \in Seq(Appliable) /\ DOMAIN Appliers = 1..7
      /\ Appliers[1] = "recording" /\ Appliers[2] = "upstream" /\ Appliers[3] = "proxyAuth"
      /\ Appliers[4] = "scope" /\ Appliers[5] = "systemProxy" /\ Appliers[6] = "throttle"
      /\ Appliers[7] = "passthrough"
  BY DEF Appliers, Appliable, Applied, Always, WhenNamed
<1>2. ToSet(Appliers) = {Appliers[i] : i \in 1..7}
  BY <1>1 DEF ToSet
<1> HIDE DEF Appliers
<1>3. \A i \in 1..7 : i = 1 \/ i = 2 \/ i = 3 \/ i = 4 \/ i = 5 \/ i = 6 \/ i = 7
  OBVIOUS
<1>4. {Appliers[i] : i \in 1..7} \subseteq Appliable
  BY <1>1, <1>3 DEF Appliable, Applied, Always, WhenNamed
<1>5. Appliable \subseteq {Appliers[i] : i \in 1..7}
  BY <1>1 DEF Appliable, Applied, Always, WhenNamed
<1> QED BY <1>1, <1>2, <1>4, <1>5

(* What an update applies: what is always applied, and what it changes.    *)
LEMMA AppliedByPatch ==
  ASSUME NEW patch, NEW old
  PROVE  LET todo == ToApply(patch, old) IN
         /\ todo \in Seq(Appliable)
         /\ \A k \in Applied : k \notin ToSet(todo) => k \notin Named(patch)
         /\ "systemProxy" \notin ToSet(todo) => "systemProxy" \notin Named(patch) \/ patch["systemProxy"] = old
<1> DEFINE T == Always \cup {k \in Named(patch) : k \in WhenNamed \/ (k = "systemProxy" /\ patch[k] # old)}
           todo == ToApply(patch, old)
<1>1. todo = Only(Appliers, T)
  BY DEF ToApply
<1> HIDE DEF todo, T
<1>2. todo \in Seq(Appliable) /\ ToSet(todo) = Appliable \cap T
  BY <1>1, OnlyKeeps, AppliersAll
<1>3. \A k \in Applied : k \notin T => k \notin Named(patch)
  BY DEF T, Applied
<1>4. "systemProxy" \notin T => "systemProxy" \notin Named(patch) \/ patch["systemProxy"] = old
  BY DEF T
<1> QED BY <1>2, <1>3, <1>4 DEF todo, Appliable

(* What a call of UpdateConfig changes of itself.                          *)
LEMMA UpdateStep ==
  ASSUME NEW u \in Updates, SettingTyped, NEW r \in UpdateStates, update' = [update EXCEPT ![u] = r]
  PROVE  /\ update' \in [Updates -> UpdateStates] /\ update'[u] = r
         /\ \A v \in Updates : v # u => update'[v] = update[v]
BY DEF SettingTyped

LEMMA MergeKeeps ==
  ASSUME NEW u \in Updates, SettingInv, Merge(u)
  PROVE  SettingInv'
<1>0. SettingTyped /\ OneUpdate /\ Agreed
  BY DEF SettingInv
<1>1. PICK patch \in Patches :
        /\ cfg' = Merged(patch)
        /\ \/ /\ file' = Torn /\ unsaved' = unsaved
              /\ update' = [update EXCEPT ![u] = [pc |-> "saving", patch |-> patch, merged |-> Merged(patch),
                                                  todo |-> ToApply(patch, cfg["systemProxy"])]]
           \/ /\ unsaved' = TRUE /\ file' = file
              /\ update' = [update EXCEPT ![u] = [pc |-> "applying", patch |-> patch, merged |-> Merged(patch),
                                                  todo |-> ToApply(patch, cfg["systemProxy"])]]
  BY DEF Merge, Patches
<1>2. /\ phase = "up" /\ Free /\ \A v \in Updates : ~Locked(v)
      /\ UNCHANGED <<phase, starts, engine, osProxy, proxyOn, unset>>
  BY DEF Merge, MayLock, Free
<1> DEFINE todo == ToApply(patch, cfg["systemProxy"])
           merged == Merged(patch)
<1>3. merged \in Values
  <2> SUFFICES ASSUME NEW k \in Settings PROVE merged[k] \in ValuesOf(k)
    BY DEF Merged, Values, ValuesOf, Unparsable
  <2>1. cfg[k] \in ValuesOf(k)
    BY <1>0 DEF SettingTyped, Values
  <2> QED BY <2>1 DEF Merged, Named
<1>4. /\ todo \in Seq(Appliable)
      /\ \A k \in Applied : k \notin ToSet(todo) => k \notin Named(patch)
      /\ \/ "systemProxy" \in ToSet(todo) \/ "systemProxy" \notin Named(patch)
         \/ patch["systemProxy"] = cfg["systemProxy"]
  BY AppliedByPatch
<1>5. \A k \in Settings : k \notin Named(patch) \/ patch[k] = cfg[k] => merged[k] = cfg[k]
  BY DEF Merged
<1> DEFINE r1 == [pc |-> "saving", patch |-> patch, merged |-> merged, todo |-> todo]
           r2 == [pc |-> "applying", patch |-> patch, merged |-> merged, todo |-> todo]
<1> HIDE DEF todo, merged
<1>7. r1 \in UpdateStates /\ r2 \in UpdateStates
  BY <1>3, <1>4 DEF UpdateStates
<1>8. /\ cfg' = merged
      /\ \/ update' = [update EXCEPT ![u] = r1] /\ file' = Torn /\ unsaved' = unsaved
         \/ update' = [update EXCEPT ![u] = r2] /\ unsaved' = TRUE /\ file' = file
  BY <1>1 DEF todo, merged
<1>9. /\ update' \in [Updates -> UpdateStates]
      /\ update'[u].pc \in {"saving", "applying"} /\ update'[u].merged = merged /\ update'[u].todo = todo
      /\ \A v \in Updates : v # u => update'[v] = update[v]
      /\ update'[u].pc = "saving" \/ unsaved'
      /\ unsaved' \in BOOLEAN /\ file' \in Values \cup {Torn}
  <2>1. CASE update' = [update EXCEPT ![u] = r1] /\ file' = Torn /\ unsaved' = unsaved
    <3>1. /\ update' \in [Updates -> UpdateStates] /\ update'[u] = r1
          /\ \A v \in Updates : v # u => update'[v] = update[v]
      BY <1>0, <1>7, <2>1, UpdateStep
    <3> QED BY <1>0, <2>1, <3>1 DEF SettingTyped
  <2>2. CASE update' = [update EXCEPT ![u] = r2] /\ unsaved' = TRUE /\ file' = file
    <3>1. /\ update' \in [Updates -> UpdateStates] /\ update'[u] = r2
          /\ \A v \in Updates : v # u => update'[v] = update[v]
      BY <1>0, <1>7, <2>2, UpdateStep
    <3> QED BY <1>0, <2>2, <3>1 DEF SettingTyped
  <2> QED BY <1>8, <2>1, <2>2
<1>10. \A v \in Updates : Locked(v)' <=> v = u
  BY <1>2, <1>9 DEF Locked
<1>11. SettingTyped'
  BY <1>0, <1>2, <1>3, <1>8, <1>9 DEF SettingTyped
<1>12. OneUpdate'
  BY <1>2, <1>10 DEF OneUpdate
<1>13. Agreed'
  <2>1. ~Free'
    BY <1>10 DEF Free
  <2>2. Pointed /\ \A k \in Applied \ {"recording"} : InForce(k)
    BY <1>0, <1>2 DEF Agreed
  <2>3. "systemProxy" \in ToSet(todo) \/ Pointed'
    BY <1>2, <1>4, <1>5, <1>8, <2>2, SettingsDiffer DEF Pointed
  <2>4. \A k \in Applied \ {"recording"} : k \in ToSet(todo) \/ InForce(k)'
    BY <1>2, <1>4, <1>5, <1>8, <2>2, SettingsDiffer DEF InForce
  <2> QED BY <1>8, <1>9, <1>10, <2>1, <2>3, <2>4 DEF Agreed
<1>14. SavedOrSaving'
  BY <1>9 DEF SavedOrSaving, Saving
<1> QED BY <1>11, <1>12, <1>13, <1>14 DEF SettingInv

LEMMA WriteKeeps ==
  ASSUME NEW u \in Updates, SettingInv, Write(u)
  PROVE  SettingInv'
<1>0. SettingTyped /\ OneUpdate /\ Agreed /\ SavedOrSaving
  BY DEF SettingInv
<1>1. /\ update[u].pc = "saving" /\ update' = [update EXCEPT ![u].pc = "applying"]
      /\ \/ file' = cfg /\ unsaved' = FALSE
         \/ unsaved' = TRUE /\ file' = file
      /\ UNCHANGED <<phase, starts, cfg, engine, osProxy, proxyOn, unset>>
  BY DEF Write, Contents
<1>2. /\ update' \in [Updates -> UpdateStates] /\ update'[u].pc = "applying"
      /\ update'[u].merged = update[u].merged /\ update'[u].todo = update[u].todo
      /\ \A v \in Updates : v # u => update'[v] = update[v]
  BY <1>0, <1>1 DEF SettingTyped, UpdateStates
<1>3. \A v \in Updates : Locked(v)' <=> Locked(v)
  BY <1>1, <1>2 DEF Locked
<1>4. SettingTyped'
  BY <1>0, <1>1, <1>2 DEF SettingTyped
<1>5. OneUpdate'
  BY <1>0, <1>1, <1>3 DEF OneUpdate
<1>6. Agreed'
  BY <1>0, <1>1, <1>2, <1>3 DEF Agreed, Pointed, InForce, Free
<1>7. SavedOrSaving'
  BY <1>1 DEF SavedOrSaving
<1> QED BY <1>4, <1>5, <1>6, <1>7 DEF SettingInv

LEMMA ApplyKeeps ==
  ASSUME NEW u \in Updates, SettingInv, Apply(u)
  PROVE  SettingInv'
<1>0. SettingTyped /\ OneUpdate /\ Agreed /\ SavedOrSaving
  BY DEF SettingInv
<1>a. PICK k, v : k = Head(update[u].todo) /\ v = update[u].merged[k]
  OBVIOUS
<1>1. /\ update[u].pc = "applying" /\ update[u].todo # <<>>
      /\ update' = [update EXCEPT ![u].todo = Tail(@)]
      /\ UNCHANGED <<phase, starts, cfg, file, unsaved>>
  BY DEF Apply
<1>2. /\ Locked(u) /\ phase = "up" /\ update[u].merged = cfg
      /\ "systemProxy" \in ToSet(update[u].todo) \/ Pointed
      /\ \A j \in Applied \ {"recording"} : j \in ToSet(update[u].todo) \/ InForce(j)
      /\ \A w \in Updates : Locked(w) => w = u
  BY <1>0, <1>1 DEF Locked, OneUpdate, Agreed
<1>3. /\ Tail(update[u].todo) \in Seq(Appliable) /\ k \in Appliable
      /\ ToSet(update[u].todo) = {k} \cup ToSet(Tail(update[u].todo))
  <2>1. update[u].todo \in Seq(Appliable)
    BY <1>0 DEF SettingTyped, UpdateStates
  <2> QED BY <1>a, <1>1, <2>1, HeadAndTail
<1>4. /\ update' \in [Updates -> UpdateStates] /\ update'[u].pc = "applying"
      /\ update'[u].merged = cfg /\ update'[u].todo = Tail(update[u].todo)
      /\ \A w \in Updates : w # u => update'[w] = update[w]
  BY <1>0, <1>1, <1>2, <1>3 DEF SettingTyped, UpdateStates
<1>5. /\ v = cfg[k] /\ k \in Settings /\ (v \in 0..1 \/ v = Unparsable)
      /\ k = "systemProxy" => v \in 0..1
  <2>1. v = cfg[k] /\ k \in Settings
    BY <1>0, <1>a, <1>2, <1>3, SettingsDiffer DEF Appliable
  <2>2. cfg \in Values
    BY <1>0 DEF SettingTyped
  <2> QED BY <2>1, <2>2, StoredValues
<1>6. \/ /\ k = "systemProxy" /\ engine' = engine
         /\ \E works \in BOOLEAN : ApplySystemProxy(v = 1, works)
      \/ /\ k # "systemProxy" /\ UNCHANGED <<osProxy, proxyOn, unset>>
         /\ engine' = IF v = Unparsable THEN engine ELSE [engine EXCEPT ![k] = v]
  BY <1>a DEF Apply
<1>7. /\ engine' \in [Applied \cup {"port"} -> 0..1] /\ osProxy' \in 0..2 /\ proxyOn' \in BOOLEAN
      /\ unset' \in BOOLEAN
      /\ \A j \in Applied : j # k => (InForce(j)' <=> InForce(j))
      /\ k \in Applied => InForce(k)'
      /\ "systemProxy" # k /\ "port" # k => (Pointed' <=> Pointed)
      /\ "systemProxy" = k => Pointed'
  <2>1. CASE k = "systemProxy"
    <3>1. PICK works \in BOOLEAN : ApplySystemProxy(v = 1, works)
      BY <1>6, <2>1
    <3>2. engine' = engine /\ engine["port"] \in 0..1
      BY <1>0, <1>6, <2>1 DEF SettingTyped
    <3>3. proxyOn' \in BOOLEAN /\ osProxy' \in 0..2
      <4>1. proxyOn' \in BOOLEAN
        BY <1>0, <3>1 DEF ApplySystemProxy, SettingTyped
      <4>2. osProxy' \in {osProxy, engine["port"], 2}
        BY <3>1 DEF ApplySystemProxy
      <4> QED BY <1>0, <3>2, <4>1, <4>2 DEF SettingTyped
    <3>4. unset' = ~works
      BY <3>1 DEF ApplySystemProxy
    <3>5. works => (osProxy' = engine["port"]) = (cfg["systemProxy"] = 1)
      <4>1. CASE v = 1
        BY <1>5, <2>1, <3>1, <4>1 DEF ApplySystemProxy
      <4>2. CASE v = 0
        BY <1>5, <2>1, <3>1, <3>2, <4>2 DEF ApplySystemProxy
      <4> QED BY <1>5, <2>1, <4>1, <4>2
    <3>6. Pointed'
      BY <1>1, <3>2, <3>4, <3>5 DEF Pointed
    <3>7. \A j \in Applied : InForce(j)' <=> InForce(j)
      BY <1>1, <3>2 DEF InForce
    <3> QED BY <1>0, <2>1, <3>2, <3>3, <3>4, <3>6, <3>7, SettingsDiffer DEF SettingTyped
  <2>2. CASE k # "systemProxy"
    <3>1. /\ engine' \in [Applied \cup {"port"} -> 0..1] /\ unset' \in BOOLEAN
          /\ osProxy' = osProxy /\ proxyOn' = proxyOn
      BY <1>0, <1>5, <1>6, <2>2 DEF SettingTyped
    <3>2. \A j \in Applied : j # k => (InForce(j)' <=> InForce(j))
      BY <1>0, <1>1, <1>6, <2>2 DEF InForce, SettingTyped
    <3>3. k \in Applied => InForce(k)'
      <4> SUFFICES ASSUME k \in Applied PROVE InForce(k)'
        OBVIOUS
      <4>1. CASE v # Unparsable
        <5>1. engine'[k] = v /\ cfg'[k] = v
          BY <1>0, <1>1, <1>5, <1>6, <2>2, <4>1 DEF SettingTyped
        <5> QED BY <5>1 DEF InForce
      <4>2. CASE v = Unparsable
        BY <1>1, <1>5, <4>2 DEF InForce
      <4> QED BY <4>1, <4>2
    <3>4. "port" # k => (Pointed' <=> Pointed)
      BY <1>0, <1>1, <1>6, <2>2, SettingsDiffer DEF Pointed, SettingTyped
    <3> QED BY <1>0, <2>2, <3>1, <3>2, <3>3, <3>4 DEF SettingTyped
  <2> QED BY <2>1, <2>2
<1>8. k \in Applied \/ k = "systemProxy"
  BY <1>3 DEF Appliable
<1>9. \A w \in Updates : Locked(w)' <=> w = u
  BY <1>2, <1>4 DEF Locked
<1>10. SettingTyped'
  BY <1>0, <1>1, <1>4, <1>7 DEF SettingTyped
<1>11. OneUpdate'
  BY <1>1, <1>2, <1>9 DEF OneUpdate
<1>12. Agreed'
  <2>1. ~Free'
    BY <1>9 DEF Free
  <2>2. "systemProxy" \in ToSet(update'[u].todo) \/ Pointed'
    BY <1>2, <1>3, <1>4, <1>7, <1>8, SettingsDiffer
  <2>3. \A j \in Applied \ {"recording"} : j \in ToSet(update'[u].todo) \/ InForce(j)'
    <3> SUFFICES ASSUME NEW j \in Applied, j # "recording", j \notin ToSet(update'[u].todo) PROVE InForce(j)'
      OBVIOUS
    <3>1. CASE j = k
      BY <1>7, <3>1
    <3>2. CASE j # k
      <4>1. InForce(j)
        BY <1>2, <1>3, <1>4, <3>2
      <4> QED BY <1>7, <3>2, <4>1
    <3> QED BY <3>1, <3>2
  <2> QED BY <1>1, <1>4, <1>9, <2>1, <2>2, <2>3 DEF Agreed
<1>13. SavedOrSaving'
  BY <1>0, <1>1, <1>2, <1>4 DEF SavedOrSaving, Saving, Locked
<1> QED BY <1>10, <1>11, <1>12, <1>13 DEF SettingInv

LEMMA UnlockKeeps ==
  ASSUME NEW u \in Updates, SettingInv, Unlock(u)
  PROVE  SettingInv'
<1>0. SettingTyped /\ OneUpdate /\ Agreed /\ SavedOrSaving
  BY DEF SettingInv
<1>1. /\ update[u].pc = "applying" /\ update[u].todo = <<>>
      /\ update' = [update EXCEPT ![u] = [Idle EXCEPT !.pc = "done"]]
      /\ UNCHANGED <<phase, starts, cfg, file, engine, osProxy, proxyOn, unsaved, unset>>
  BY DEF Unlock
<1>2. [Idle EXCEPT !.pc = "done"] \in UpdateStates /\ [Idle EXCEPT !.pc = "done"].pc = "done"
  <2>1. <<>> \in Seq(Appliable)
    OBVIOUS
  <2> QED BY <2>1 DEF Idle, UpdateStates
<1>3. /\ update' \in [Updates -> UpdateStates] /\ update'[u].pc = "done"
      /\ \A v \in Updates : v # u => update'[v] = update[v]
  BY <1>0, <1>1, <1>2, UpdateStep
<1>4. \A v \in Updates : ~Locked(v)'
  BY <1>0, <1>1, <1>3 DEF Locked, OneUpdate
<1>5. /\ Locked(u) /\ phase = "up"
  BY <1>0, <1>1 DEF Locked, OneUpdate
<1>6. Pointed /\ \A k \in Applied \ {"recording"} : InForce(k)
  <2>1. ToSet(<<>>) = {}
    BY DEF ToSet
  <2> QED BY <1>0, <1>1, <1>5, <2>1 DEF Agreed
<1>7. SettingTyped' /\ OneUpdate'
  BY <1>0, <1>1, <1>3, <1>4 DEF SettingTyped, OneUpdate
<1>8. Agreed'
  BY <1>1, <1>4, <1>6 DEF Agreed, Pointed, InForce
<1>9. SavedOrSaving'
  BY <1>0, <1>1, <1>3 DEF SavedOrSaving, Saving
<1> QED BY <1>7, <1>8, <1>9 DEF SettingInv

LEMMA RecordKeeps ==
  ASSUME SettingInv, Record
  PROVE  SettingInv'
<1>0. SettingTyped /\ OneUpdate /\ Agreed /\ SavedOrSaving
  BY DEF SettingInv
<1>1. /\ \E on \in 0..1 : engine' = [engine EXCEPT !["recording"] = on]
      /\ UNCHANGED <<phase, starts, cfg, file, osProxy, proxyOn, update, unsaved, unset>>
  BY DEF Record
<1>2. engine' \in [Applied \cup {"port"} -> 0..1] /\ \A k \in Applied \cup {"port"} : k # "recording" => engine'[k] = engine[k]
  BY <1>0, <1>1 DEF SettingTyped
<1>3. (Pointed' <=> Pointed) /\ \A k \in Applied \ {"recording"} : InForce(k)' <=> InForce(k)
  BY <1>1, <1>2 DEF Pointed, InForce
<1>4. Agreed'
  BY <1>0, <1>1, <1>3 DEF Agreed, Free, Locked
<1>5. SettingTyped' /\ OneUpdate' /\ SavedOrSaving'
  BY <1>0, <1>1, <1>2 DEF SettingTyped, OneUpdate, SavedOrSaving, Saving, Locked
<1> QED BY <1>4, <1>5 DEF SettingInv

LEMMA StartKeeps ==
  ASSUME SettingInv, Start
  PROVE  SettingInv'
<1>0. SettingTyped /\ OneUpdate
  BY DEF SettingInv
<1> DEFINE loaded == Load(file)
           auto == loaded["autoProxy"]
<1>1. loaded \in Values
  BY <1>0, DefaultValues DEF Load, SettingTyped
<1>2. /\ phase = "down" /\ starts' = starts + 1 /\ update' = update
      /\ \/ phase' = "starting" /\ file' = Torn /\ unsaved' = FALSE
         \/ phase' = "up" /\ unsaved' = TRUE /\ file' = file
  BY DEF Start
<1>3. /\ cfg' = [loaded EXCEPT !["systemProxy"] = auto] /\ engine' = [k \in DOMAIN engine |-> IF loaded[k] = Unparsable THEN 0 ELSE loaded[k]]
      /\ proxyOn' = (auto = 1)
  BY DEF Start, Restored
<1>4. PICK works \in BOOLEAN :
        /\ osProxy' = IF ~works THEN osProxy
                      ELSE IF auto = 1 THEN loaded["port"]
                      ELSE IF osProxy = loaded["port"] THEN 2 ELSE osProxy
        /\ unset' = ((auto = 1 \/ osProxy = loaded["port"]) /\ ~works)
  BY DEF Start
<1> HIDE DEF loaded, auto
<1>5. auto \in 0..1 /\ auto = loaded["autoProxy"] /\ loaded["port"] \in 0..1
  BY <1>1, StoredValues DEF auto
<1>6. /\ cfg' \in Values /\ cfg'["systemProxy"] = auto
      /\ \A k \in Settings : k # "systemProxy" => cfg'[k] = loaded[k]
  <2>1. ValuesOf("systemProxy") = 0..1
    BY DEF ValuesOf
  <2> QED BY <1>1, <1>3, <1>5, <2>1, SettingsDiffer DEF Values
<1>7. /\ engine' \in [Applied \cup {"port"} -> 0..1]
      /\ \A k \in Applied \cup {"port"} : loaded[k] = Unparsable \/ engine'[k] = loaded[k]
      /\ engine'["port"] = loaded["port"]
  <2>1. \A k \in Applied \cup {"port"} : loaded[k] \in 0..1 \/ loaded[k] = Unparsable
    BY <1>1, StoredValues, SettingsDiffer
  <2>2. loaded["port"] # Unparsable
    BY <1>5 DEF Unparsable
  <2> QED BY <1>0, <1>3, <2>1, <2>2 DEF SettingTyped
<1>8. Pointed'
  <2>1. CASE works
    BY <1>4, <1>5, <1>6, <1>7, <2>1 DEF Pointed
  <2>2. CASE ~works
    BY <1>4, <1>5, <1>6, <1>7, <2>2 DEF Pointed
  <2> QED BY <2>1, <2>2
<1>9. \A k \in Applied : InForce(k)'
  BY <1>6, <1>7, SettingsDiffer DEF InForce
<1>10. osProxy' \in 0..2 /\ unset' \in BOOLEAN
  <2>1. osProxy' \in {osProxy, loaded["port"], 2} /\ unset' \in BOOLEAN
    BY <1>4
  <2> QED BY <1>0, <1>5, <2>1, SettingsDiffer DEF SettingTyped
<1>11. SettingTyped'
  <2>1. starts' \in Nat
    BY <1>0, <1>2 DEF SettingTyped
  <2>2. unsaved' \in BOOLEAN
    BY <1>2
  <2>3. proxyOn' \in BOOLEAN
    BY <1>3
  <2>4. phase' \in {"down", "starting", "up"} /\ file' \in Values \cup {Torn}
    BY <1>0, <1>2 DEF SettingTyped
  <2> QED BY <2>4, <1>0, <1>2, <1>6, <1>7, <1>10, <2>1, <2>2, <2>3 DEF SettingTyped
<1>12. \A u \in Updates : ~Locked(u)'
  BY <1>0, <1>2 DEF OneUpdate, Locked
<1>13. OneUpdate' /\ Agreed' /\ SavedOrSaving'
  BY <1>2, <1>8, <1>9, <1>12 DEF OneUpdate, Agreed, SavedOrSaving, Saving
<1> QED BY <1>11, <1>13 DEF SettingInv

LEMMA ProxyStartedKeeps ==
  ASSUME SettingInv, ProxyStarted
  PROVE  SettingInv'
<1>0. SettingTyped /\ OneUpdate /\ Agreed
  BY DEF SettingInv
<1>1. /\ phase = "starting" /\ phase' = "up"
      /\ (file' = cfg /\ unsaved' = unsaved) \/ (unsaved' = TRUE /\ file' = file)
      /\ UNCHANGED <<starts, cfg, engine, osProxy, proxyOn, update, unset>>
  BY DEF ProxyStarted, Contents
<1>2. SettingTyped' /\ OneUpdate' /\ SavedOrSaving'
  BY <1>0, <1>1 DEF SettingTyped, OneUpdate, Locked, SavedOrSaving
<1>3. Agreed'
  BY <1>0, <1>1 DEF Agreed, Pointed, InForce, Free, Locked
<1> QED BY <1>2, <1>3 DEF SettingInv

LEMMA ShutdownKeeps ==
  ASSUME SettingInv, Shutdown
  PROVE  SettingInv'
<1>0. SettingTyped /\ OneUpdate
  BY DEF SettingInv
<1>1. /\ phase' = "down" /\ proxyOn' = FALSE /\ Free
      /\ osProxy' \in {2, osProxy} /\ unset' \in {unset, TRUE}
      /\ UNCHANGED <<starts, cfg, file, engine, update, unsaved>>
  BY DEF Shutdown
<1>2. SettingTyped'
  <2>1. osProxy' \in 0..2
    BY <1>0, <1>1 DEF SettingTyped
  <2>3. proxyOn' \in BOOLEAN
    BY <1>1
  <2>2. unset' \in BOOLEAN
    BY <1>0, <1>1 DEF SettingTyped
  <2> QED BY <1>0, <1>1, <2>1, <2>2, <2>3 DEF SettingTyped
<1>3. \A u \in Updates : ~Locked(u)'
  BY <1>1 DEF Free, Locked
<1> QED BY <1>1, <1>2, <1>3 DEF SettingInv, OneUpdate, Agreed, SavedOrSaving

LEMMA DieKeeps ==
  ASSUME SettingInv, Die
  PROVE  SettingInv'
<1>0. SettingTyped /\ OneUpdate
  BY DEF SettingInv
<1>1. /\ phase' = "down" /\ proxyOn' = FALSE
      /\ update' = [u \in Updates |-> IF Locked(u) THEN [Idle EXCEPT !.pc = "done"] ELSE update[u]]
      /\ UNCHANGED <<starts, cfg, file, engine, osProxy, unsaved, unset>>
  BY DEF Die
<1>2. [Idle EXCEPT !.pc = "done"] \in UpdateStates /\ [Idle EXCEPT !.pc = "done"].pc = "done"
  <2>1. <<>> \in Seq(Appliable)
    OBVIOUS
  <2> QED BY <2>1 DEF Idle, UpdateStates
<1> DEFINE ended == [Idle EXCEPT !.pc = "done"]
<1> HIDE DEF ended
<1>3. update' \in [Updates -> UpdateStates] /\ \A u \in Updates : ~Locked(u)'
  <2>1. ASSUME NEW u \in Updates PROVE update'[u] \in UpdateStates /\ ~Locked(u)'
    <3>1. CASE Locked(u)
      BY <1>1, <1>2, <3>1 DEF Locked
    <3>2. CASE ~Locked(u)
      BY <1>0, <1>1, <3>2 DEF Locked, SettingTyped
    <3> QED BY <3>1, <3>2
  <2>2. update' = [u \in Updates |-> update'[u]]
    BY <1>1
  <2> QED BY <2>1, <2>2
<1>4. SettingTyped'
  BY <1>0, <1>1, <1>3 DEF SettingTyped
<1> QED BY <1>1, <1>3, <1>4 DEF SettingInv, OneUpdate, Agreed, SavedOrSaving

(* Between two updates the runtime works with the stored settings, but for *)
(* an upstream address it cannot parse, the system proxy points where the  *)
(* configuration says unless the system refused, and the file has the      *)
(* configuration unless it is being saved or that failed: for any settings,*)
(* updates, failures and crashes.                                          *)
THEOREM SettingsStayAgreed == SettingsSpec => []SettingsAgree
<1>1. SettingsInit => SettingInv
  <2> SUFFICES ASSUME SettingsInit PROVE SettingInv
    OBVIOUS
  <2>1. Idle \in UpdateStates /\ Idle.pc = "idle"
    <3>1. <<>> \in Seq(Appliable)
      OBVIOUS
    <3> QED BY <3>1 DEF Idle, UpdateStates
  <2>2. SettingTyped
    <3>1. starts \in Nat /\ osProxy \in 0..2
      BY DEF SettingsInit
    <3>3. proxyOn \in BOOLEAN /\ unsaved \in BOOLEAN
      BY DEF SettingsInit
    <3>2. engine \in [Applied \cup {"port"} -> 0..1] /\ update \in [Updates -> UpdateStates]
      BY <2>1 DEF SettingsInit
    <3> QED BY <3>1, <3>2, <3>3, DefaultValues DEF SettingsInit, SettingTyped
  <2>3. \A u \in Updates : ~Locked(u)
    BY <2>1 DEF SettingsInit, Locked
  <2> QED BY <2>2, <2>3 DEF SettingsInit, SettingInv, OneUpdate, Agreed, SavedOrSaving
<1>2. SettingInv /\ [SettingsNext]_settingVars => SettingInv'
  <2> SUFFICES ASSUME SettingInv, [SettingsNext]_settingVars PROVE SettingInv'
    OBVIOUS
  <2>1. ASSUME NEW u \in Updates, Merge(u) \/ Write(u) \/ Apply(u) \/ Unlock(u) PROVE SettingInv'
    BY <2>1, MergeKeeps, WriteKeeps, ApplyKeeps, UnlockKeeps
  <2>2. CASE Record \/ Start \/ ProxyStarted \/ Shutdown \/ Die
    BY <2>2, RecordKeeps, StartKeeps, ProxyStartedKeeps, ShutdownKeeps, DieKeeps
  <2>3. CASE UNCHANGED settingVars
    <3>1. SettingTyped' /\ OneUpdate'
      BY <2>3 DEF settingVars, SettingInv, SettingTyped, OneUpdate, Locked
    <3>2. Agreed' /\ SavedOrSaving'
      BY <2>3 DEF settingVars, SettingInv, Agreed, Pointed, InForce, Free, Locked, SavedOrSaving, Saving
    <3> QED BY <3>1, <3>2 DEF SettingInv
  <2> QED BY <2>1, <2>2, <2>3 DEF SettingsNext
<1>3. SettingInv => SettingsAgree
  BY DEF SettingInv, Agreed, Pointed, InForce, SavedOrSaving, SettingsAgree
<1> QED BY <1>1, <1>2, <1>3, PTL DEF SettingsSpec

-----------------------------------------------------------------------------
(* The server certificates.                                                *)

CallStates == [pc : {"idle", "reading", "handing", "done"}, list : Seq(CertIds), alone : BOOLEAN]

CertTyped ==
  /\ certItems \in Seq(CertIds) /\ certFile \in Seq(CertIds) /\ offered \in Seq(CertIds)
  /\ certCall \in [CertCalls -> CallStates]
  /\ settled \in BOOLEAN /\ crashes \in Nat

(* No two certificates of a list are for the same hosts.                   *)
HostsDiffer(s) == \A i, j \in 1..Len(s) : i < j => ~SameHosts(s[i], s[j])

Listing == ToSet(certItems) \subseteq ToSet(certFile) /\ HostsDiffer(certItems) /\ HostsDiffer(certFile)

(* A call that is alone read the list as it is; of calls that overlap none *)
(* is alone, and without any the last one settled what is offered.         *)
Handing ==
  /\ \A c, d \in CertCalls : UnderWay(c) /\ UnderWay(d) /\ c # d => ~certCall[c].alone
  /\ \A c \in CertCalls : certCall[c].pc = "handing" /\ certCall[c].alone => certCall[c].list = certItems
  /\ settled /\ (\A c \in CertCalls : ~UnderWay(c)) => offered = certItems

CertInv == CertTyped /\ Listing /\ Handing

LEMMA FewerCerts ==
  ASSUME NEW s \in Seq(CertIds), HostsDiffer(s), NEW T
  PROVE  /\ Only(s, T) \in Seq(CertIds) /\ HostsDiffer(Only(s, T))
         /\ ToSet(Only(s, T)) = ToSet(s) \cap T
<1> DEFINE o == Only(s, T)
<1>1. /\ o \in Seq(CertIds) /\ ToSet(o) = ToSet(s) \cap T
      /\ \A i, j \in 1..Len(o) : i < j =>
           \E k, l \in 1..Len(s) : k < l /\ o[i] = s[k] /\ o[j] = s[l]
  BY OnlyKeeps
<1> HIDE DEF o
<1>2. HostsDiffer(o)
  BY <1>1 DEF HostsDiffer
<1> QED BY <1>1, <1>2 DEF o

(* An import takes the place of what is for the same hosts.                *)
LEMMA NewCert ==
  ASSUME NEW s \in Seq(CertIds), HostsDiffer(s), NEW c \in CertIds
  PROVE  Append(Kept(s, c), c) \in Seq(CertIds) /\ HostsDiffer(Append(Kept(s, c), c))
<1> DEFINE T == {d \in CertIds : ~SameHosts(c, d)}
           o == Kept(s, c)
           a == Append(o, c)
<1>1. o \in Seq(CertIds) /\ HostsDiffer(o) /\ ToSet(o) = ToSet(s) \cap T
  BY FewerCerts DEF Kept
<1> HIDE DEF o
<1>2. /\ a \in Seq(CertIds) /\ Len(a) = Len(o) + 1 /\ Len(o) \in Nat /\ DOMAIN o = 1..Len(o)
      /\ \A i \in 1..Len(o) : a[i] = o[i]
      /\ a[Len(o) + 1] = c
  BY <1>1, AppendProperties, LenProperties
<1> HIDE DEF a
<1>3. \A i \in 1..Len(o) : ~SameHosts(o[i], c)
  <2> TAKE i \in 1..Len(o)
  <2>1. o[i] \in T
    BY <1>1, <1>2 DEF ToSet
  <2> QED BY <2>1 DEF SameHosts
<1>4. HostsDiffer(a)
  <2> SUFFICES ASSUME NEW i \in 1..Len(a), NEW j \in 1..Len(a), i < j PROVE ~SameHosts(a[i], a[j])
    BY DEF HostsDiffer
  <2>1. i \in 1..Len(o) /\ a[i] = o[i]
    BY <1>2
  <2>2. CASE j = Len(o) + 1
    BY <1>2, <1>3, <2>1, <2>2
  <2>3. CASE j # Len(o) + 1
    <3>1. j \in 1..Len(o) /\ a[j] = o[j]
      BY <1>2, <2>3
    <3> QED BY <1>1, <2>1, <3>1 DEF HostsDiffer
  <2> QED BY <2>2, <2>3
<1> QED BY <1>2, <1>4 DEF a, o

(* A call that has changed the list makes the overlapping ones not alone.  *)
LEMMA Proceeds ==
  ASSUME NEW k \in CertCalls, CertTyped, Handing, Proceed(k), certCall[k].pc = "idle"
  PROVE  /\ certCall' \in [CertCalls -> CallStates]
         /\ UnderWay(k)' /\ certCall'[k].pc = "reading"
         /\ \A c, d \in CertCalls : UnderWay(c)' /\ UnderWay(d)' /\ c # d => ~certCall'[c].alone
         /\ \A c \in CertCalls : ~(certCall'[c].pc = "handing" /\ certCall'[c].alone)
<1> DEFINE r == [pc |-> "reading", list |-> <<>>, alone |-> ~\E d \in CertCalls : UnderWay(d)]
<1>1. /\ certCall' = [c \in CertCalls |-> IF c = k THEN r
                        ELSE IF UnderWay(c) THEN [certCall[c] EXCEPT !.alone = FALSE] ELSE certCall[c]]
  BY DEF Proceed
<1>2. r \in CallStates /\ r.pc = "reading" /\ r.alone = (~\E d \in CertCalls : UnderWay(d))
  BY DEF CallStates
<1> HIDE DEF r
<1>3. certCall'[k] = r
  BY <1>1
<1>4. ASSUME NEW c \in CertCalls, c # k
      PROVE  /\ certCall'[c] \in CallStates /\ certCall'[c].pc = certCall[c].pc
             /\ UnderWay(c) => ~certCall'[c].alone
  <2>1. certCall[c] \in CallStates
    BY DEF CertTyped
  <2>2. CASE UnderWay(c)
    <3>1. certCall'[c] = [certCall[c] EXCEPT !.alone = FALSE]
      BY <1>1, <1>4, <2>2
    <3> QED BY <2>1, <3>1 DEF CallStates
  <2>3. CASE ~UnderWay(c)
    BY <1>1, <1>4, <2>1, <2>3
  <2> QED BY <2>2, <2>3
<1>5. certCall' \in [CertCalls -> CallStates]
  <2>1. \A c \in CertCalls : certCall'[c] \in CallStates
    BY <1>2, <1>3, <1>4
  <2> QED BY <1>1, <2>1
<1>6. UnderWay(k)' /\ \A c \in CertCalls : c # k => (UnderWay(c)' <=> UnderWay(c))
  BY <1>2, <1>3, <1>4 DEF UnderWay
<1>7. ASSUME NEW c \in CertCalls, NEW d \in CertCalls, UnderWay(c)', UnderWay(d)', c # d
      PROVE  ~certCall'[c].alone
  <2>1. CASE c = k
    BY <1>2, <1>3, <1>6, <1>7, <2>1
  <2>2. CASE c # k
    BY <1>4, <1>6, <1>7, <2>2
  <2> QED BY <2>1, <2>2
<1>8. ASSUME NEW c \in CertCalls, certCall'[c].pc = "handing", certCall'[c].alone PROVE FALSE
  <2>1. CASE c = k
    BY <1>2, <1>3, <1>8, <2>1
  <2>2. CASE c # k
    BY <1>4, <1>8, <2>2 DEF UnderWay
  <2> QED BY <2>1, <2>2
<1> QED BY <1>2, <1>3, <1>5, <1>6, <1>7, <1>8

(* A call that ends without a change leaves what is offered settled.       *)
LEMMA ImportKeeps ==
  ASSUME NEW k \in CertCalls, CertInv, Import(k)
  PROVE  CertInv'
<1>0. CertTyped /\ Listing /\ Handing /\ certCall[k].pc = "idle"
  BY DEF CertInv, Import
<1>1. PICK c \in CertIds :
        LET new == Append(Kept(certItems, c), c) IN
        \/ certItems' = new /\ certFile' = new /\ Proceed(k)
        \/ /\ certItems' = certItems /\ certFile' = certFile
           /\ certCall' = [certCall EXCEPT ![k].pc = "done"]
  BY DEF Import, Undone
<1>2. UNCHANGED <<offered, settled, crashes>>
  BY DEF Import
<1>3. CASE certItems' = Append(Kept(certItems, c), c) /\ certFile' = Append(Kept(certItems, c), c) /\ Proceed(k)
  <2> DEFINE new == Append(Kept(certItems, c), c)
  <2>1. new \in Seq(CertIds) /\ HostsDiffer(new)
    BY <1>0, NewCert DEF CertTyped, Listing
  <2> HIDE DEF new
  <2>2. certItems' = new /\ certFile' = new
    BY <1>3 DEF new
  <2>3. /\ certCall' \in [CertCalls -> CallStates] /\ UnderWay(k)'
        /\ \A d, e \in CertCalls : UnderWay(d)' /\ UnderWay(e)' /\ d # e => ~certCall'[d].alone
        /\ \A d \in CertCalls : ~(certCall'[d].pc = "handing" /\ certCall'[d].alone)
    BY <1>0, <1>3, Proceeds
  <2>4. CertTyped'
    BY <1>0, <1>2, <2>1, <2>2, <2>3 DEF CertTyped
  <2>5. Listing'
    BY <2>1, <2>2 DEF Listing, HostsDiffer
  <2>6. Handing'
    BY <2>3 DEF Handing
  <2> QED BY <2>4, <2>5, <2>6 DEF CertInv
<1>4. CASE certItems' = certItems /\ certFile' = certFile /\ certCall' = [certCall EXCEPT ![k].pc = "done"]
  <2>1. /\ certCall' \in [CertCalls -> CallStates] /\ certCall'[k].pc = "done"
        /\ \A d \in CertCalls : d # k => certCall'[d] = certCall[d]
    BY <1>0, <1>4 DEF CertTyped, CallStates
  <2>2. \A d \in CertCalls : UnderWay(d)' <=> UnderWay(d)
    BY <1>0, <2>1 DEF UnderWay
  <2>3. CertTyped'
    BY <1>0, <1>2, <1>4, <2>1 DEF CertTyped
  <2>4. Listing'
    BY <1>0, <1>4 DEF Listing, HostsDiffer
  <2>5. Handing'
    BY <1>0, <1>2, <1>4, <2>1, <2>2 DEF Handing, UnderWay
  <2> QED BY <2>3, <2>4, <2>5 DEF CertInv
<1> QED BY <1>1, <1>3, <1>4

LEMMA DeleteCertKeeps ==
  ASSUME NEW k \in CertCalls, CertInv, DeleteCert(k)
  PROVE  CertInv'
<1>0. CertTyped /\ Listing /\ Handing /\ certCall[k].pc = "idle"
  BY DEF CertInv, DeleteCert
<1>1. PICK c \in CertIds :
        /\ certItems' = Only(certItems, CertIds \ {c})
        /\ \/ certFile' = IF Contains(certItems, c) THEN certItems' ELSE certFile
           \/ certFile' = certFile
  BY DEF DeleteCert
<1>2. Proceed(k) /\ UNCHANGED <<offered, settled, crashes>>
  BY DEF DeleteCert
<1>3. /\ certItems' \in Seq(CertIds) /\ HostsDiffer(certItems')
      /\ ToSet(certItems') \subseteq ToSet(certItems)
  BY <1>0, <1>1, FewerCerts DEF CertTyped, Listing
<1>4. certFile' = certItems' \/ certFile' = certFile
  BY <1>1
<1>5. /\ certCall' \in [CertCalls -> CallStates] /\ UnderWay(k)'
      /\ \A d, e \in CertCalls : UnderWay(d)' /\ UnderWay(e)' /\ d # e => ~certCall'[d].alone
      /\ \A d \in CertCalls : ~(certCall'[d].pc = "handing" /\ certCall'[d].alone)
  BY <1>0, <1>2, Proceeds
<1>6. CertTyped'
  BY <1>0, <1>2, <1>3, <1>4, <1>5 DEF CertTyped
<1>7. Listing'
  BY <1>0, <1>3, <1>4 DEF Listing, HostsDiffer
<1>8. Handing'
  BY <1>5 DEF Handing
<1> QED BY <1>6, <1>7, <1>8 DEF CertInv

LEMMA ReadListKeeps ==
  ASSUME NEW k \in CertCalls, CertInv, ReadList(k)
  PROVE  CertInv'
<1>0. CertTyped /\ Listing /\ Handing
  BY DEF CertInv
<1>1. /\ certCall[k].pc = "reading"
      /\ certCall' = [certCall EXCEPT ![k].pc = "handing", ![k].list = certItems]
      /\ UNCHANGED <<certItems, certFile, offered, settled, crashes>>
  BY DEF ReadList
<1>2. /\ certCall' \in [CertCalls -> CallStates]
      /\ certCall'[k].pc = "handing" /\ certCall'[k].list = certItems
      /\ certCall'[k].alone = certCall[k].alone
      /\ \A d \in CertCalls : d # k => certCall'[d] = certCall[d]
  BY <1>0, <1>1 DEF CertTyped, CallStates
<1>3. \A d \in CertCalls : UnderWay(d)' <=> UnderWay(d)
  BY <1>1, <1>2 DEF UnderWay
<1>4. CertTyped'
  BY <1>0, <1>1, <1>2 DEF CertTyped
<1>5. Listing'
  BY <1>0, <1>1 DEF Listing, HostsDiffer
<1>6. Handing'
  BY <1>0, <1>1, <1>2, <1>3 DEF Handing
<1> QED BY <1>4, <1>5, <1>6 DEF CertInv

LEMMA HandOverKeeps ==
  ASSUME NEW k \in CertCalls, CertInv, HandOver(k)
  PROVE  CertInv'
<1>0. CertTyped /\ Listing /\ Handing
  BY DEF CertInv
<1>1. /\ certCall[k].pc = "handing"
      /\ certCall' = [certCall EXCEPT ![k].pc = "done"]
      /\ offered' = certCall[k].list /\ settled' = certCall[k].alone
      /\ UNCHANGED <<certItems, certFile, crashes>>
  BY DEF HandOver
<1>2. /\ certCall' \in [CertCalls -> CallStates] /\ certCall'[k].pc = "done"
      /\ \A d \in CertCalls : d # k => certCall'[d] = certCall[d]
  BY <1>0, <1>1 DEF CertTyped, CallStates
<1>3. UnderWay(k) /\ ~UnderWay(k)' /\ \A d \in CertCalls : d # k => (UnderWay(d)' <=> UnderWay(d))
  BY <1>1, <1>2 DEF UnderWay
<1>4. CertTyped'
  <2>1. offered' \in Seq(CertIds) /\ settled' \in BOOLEAN
    BY <1>0, <1>1 DEF CertTyped, CallStates
  <2> QED BY <1>0, <1>1, <1>2, <2>1 DEF CertTyped
<1>5. Listing'
  BY <1>0, <1>1 DEF Listing, HostsDiffer
<1>6. Handing'
  <2>1. settled' => offered' = certItems'
    BY <1>0, <1>1 DEF Handing
  <2> QED BY <1>0, <1>1, <1>2, <1>3, <2>1 DEF Handing
<1> QED BY <1>4, <1>5, <1>6 DEF CertInv

LEMMA ReloadKeeps ==
  ASSUME CertInv, Reload
  PROVE  CertInv'
<1>0. CertTyped /\ Listing
  BY DEF CertInv
<1>1. /\ certItems' = certFile /\ offered' = certFile /\ settled' = TRUE /\ certFile' = certFile
      /\ certCall' = [c \in CertCalls |-> [pc |-> "idle", list |-> <<>>, alone |-> TRUE]]
      /\ crashes' = crashes + 1
  BY DEF Reload
<1>2. [pc |-> "idle", list |-> <<>>, alone |-> TRUE] \in CallStates
  BY DEF CallStates
<1>3. certCall' \in [CertCalls -> CallStates] /\ \A c \in CertCalls : certCall'[c].pc = "idle"
  BY <1>1, <1>2
<1>4. CertTyped'
  <2>1. settled' \in BOOLEAN
    BY <1>1
  <2> QED BY <1>0, <1>1, <1>3, <2>1 DEF CertTyped
<1>5. Listing'
  BY <1>0, <1>1 DEF Listing, HostsDiffer
<1>6. Handing'
  BY <1>1, <1>3 DEF Handing, UnderWay
<1> QED BY <1>4, <1>5, <1>6 DEF CertInv

(* The choice of a handshake: the head of a selection.                     *)
LEMMA FirstOfSelection ==
  ASSUME NEW s \in Seq(CertIds), NEW T
  PROVE  /\ Only(s, T) = <<>> <=> ToSet(s) \cap T = {}
         /\ Only(s, T) # <<>> => Head(Only(s, T)) \in ToSet(s) \cap T
<1> DEFINE o == Only(s, T)
<1>1. o \in Seq(CertIds) /\ ToSet(o) = ToSet(s) \cap T
  BY OnlyKeeps
<1> HIDE DEF o
<1>2. o # <<>> => Head(o) \in ToSet(o)
  BY <1>1, HeadAndTail
<1>3. ToSet(<<>>) = {}
  BY DEF ToSet
<1> QED BY <1>1, <1>2, <1>3 DEF o

LEMMA BestCert ==
  ASSUME NEW list \in Seq(CertIds), NEW h \in Hosts
  PROVE  LET c   == CertFor(list, h)
             fit == {d \in ToSet(list) : Valid(d) /\ h \in Exact(d) \cup Wild(d)} IN
         /\ c = NoCert <=> fit = {}
         /\ c # NoCert => c \in fit /\ (h \in Exact(c) \/ \A d \in fit : h \notin Exact(d))
<1> DEFINE E == {c \in CertIds : h \in Exact(c) /\ Valid(c)}
           W == {c \in CertIds : h \in Wild(c) /\ Valid(c)}
           fit == {d \in ToSet(list) : Valid(d) /\ h \in Exact(d) \cup Wild(d)}
           c == CertFor(list, h)
           oe == Only(list, E)
           ow == Only(list, W)
<1>1. c = IF oe # <<>> THEN Head(oe) ELSE IF ow # <<>> THEN Head(ow) ELSE NoCert
  BY DEF CertFor
<1>2. /\ oe = <<>> <=> ToSet(list) \cap E = {}
      /\ oe # <<>> => Head(oe) \in ToSet(list) \cap E
      /\ ow = <<>> <=> ToSet(list) \cap W = {}
      /\ ow # <<>> => Head(ow) \in ToSet(list) \cap W
  BY FirstOfSelection
<1>3. ToSet(list) \subseteq CertIds /\ NoCert \notin CertIds
  <2>1. \A i \in DOMAIN list : list[i] \in CertIds
    BY LenProperties, ElementOfSeq
  <2> QED BY <2>1, CertsAssumption DEF ToSet
<1>4. /\ fit = (ToSet(list) \cap E) \cup (ToSet(list) \cap W)
      /\ \A d \in fit : h \in Exact(d) <=> d \in E
  BY <1>3
<1> HIDE DEF oe, ow, E, W, fit, c
<1>5. c = NoCert <=> fit = {}
  BY <1>1, <1>2, <1>3, <1>4
<1>6. ASSUME c # NoCert PROVE c \in fit /\ (h \in Exact(c) \/ \A d \in fit : h \notin Exact(d))
  <2>1. CASE oe # <<>>
    BY <1>1, <1>2, <1>4, <2>1
  <2>2. CASE oe = <<>>
    <3>1. c \in fit /\ ToSet(list) \cap E = {}
      BY <1>1, <1>2, <1>4, <1>6, <2>2
    <3>2. \A d \in fit : d \notin E
      BY <1>4, <3>1, <1>3 DEF fit
    <3> QED BY <1>4, <3>1, <3>2
  <2> QED BY <2>1, <2>2
<1> QED BY <1>5, <1>6 DEF c, fit

(* Imported certificates are in the file, no two for the same hosts, and   *)
(* handshakes choose the one that fits best of the stored list: for any    *)
(* certificates, hosts, calls and crashes.                                 *)
THEOREM CertsStayAgreed == CertsSpec => []CertsAgree
<1>1. CertsInit => CertInv
  <2> SUFFICES ASSUME CertsInit PROVE CertInv
    OBVIOUS
  <2>1. [pc |-> "idle", list |-> <<>>, alone |-> TRUE] \in CallStates
    BY DEF CallStates
  <2>2. certCall \in [CertCalls -> CallStates] /\ \A c \in CertCalls : certCall[c].pc = "idle"
    BY <2>1 DEF CertsInit
  <2>3. certItems = <<>> /\ certFile = <<>> /\ offered = <<>> /\ settled = TRUE /\ crashes = 0
    BY DEF CertsInit
  <2>4. settled \in BOOLEAN
    BY <2>3
  <2>5. CertTyped
    BY <2>2, <2>3, <2>4 DEF CertTyped
  <2>6. Listing /\ Handing
    BY <2>2, <2>3 DEF Listing, HostsDiffer, Handing, UnderWay
  <2> QED BY <2>5, <2>6 DEF CertInv
<1>2. CertInv /\ [CertsNext]_certVars => CertInv'
  <2> SUFFICES ASSUME CertInv, [CertsNext]_certVars PROVE CertInv'
    OBVIOUS
  <2>1. ASSUME NEW k \in CertCalls, Import(k) \/ DeleteCert(k) \/ ReadList(k) \/ HandOver(k) PROVE CertInv'
    BY <2>1, ImportKeeps, DeleteCertKeeps, ReadListKeeps, HandOverKeeps
  <2>2. CASE Reload
    BY <2>2, ReloadKeeps
  <2>3. CASE UNCHANGED certVars
    BY <2>3 DEF certVars, CertInv, CertTyped, Listing, HostsDiffer, Handing, UnderWay
  <2> QED BY <2>1, <2>2, <2>3 DEF CertsNext
<1>3. CertInv => CertsAgree
  <2> SUFFICES ASSUME CertInv PROVE CertsAgree
    OBVIOUS
  <2>1. CertTyped /\ Listing /\ Handing
    BY DEF CertInv
  <2>2. \A i, j \in DOMAIN certItems : i # j => ~SameHosts(certItems[i], certItems[j])
    <3>1. DOMAIN certItems = 1..Len(certItems) /\ Len(certItems) \in Nat
      BY <2>1, LenProperties DEF CertTyped
    <3> TAKE i, j \in DOMAIN certItems
    <3>2. i \in 1..Len(certItems) /\ j \in 1..Len(certItems)
      BY <3>1
    <3>3. i < j \/ j < i \/ i = j
      BY <3>1, <3>2
    <3> QED BY <2>1, <3>2, <3>3 DEF Listing, HostsDiffer, SameHosts
  <2>3. offered \in Seq(CertIds)
    BY <2>1 DEF CertTyped
  <2>4. settled /\ ~(\E c \in CertCalls : UnderWay(c)) => offered = certItems
    BY <2>1 DEF Handing
  <2> QED BY <2>1, <2>2, <2>3, <2>4, BestCert DEF CertsAgree, Listing
<1> QED BY <1>1, <1>2, <1>3, PTL DEF CertsSpec

-----------------------------------------------------------------------------
(* The rule lists.                                                         *)

Entries     == [id : RuleIds, enabled : BOOLEAN]
BreakStates == [id : RuleIds, url : Urls, enabled : BOOLEAN, compiled : Urls \cup {"none"}]

(* Every rule in the order has an item; the file was a list of rules.      *)
RulesKept ==
  /\ ruleOrder \in Seq(RuleIds) /\ Distinct(ruleOrder)
  /\ ruleItems \in [DOMAIN ruleItems -> BOOLEAN] /\ ToSet(ruleOrder) = DOMAIN ruleItems
  /\ \A i \in DOMAIN ruleItems : i <= ids

FileKept ==
  /\ writing \in BOOLEAN /\ stale \in BOOLEAN
  /\ ruleFile # NoFile =>
       /\ ruleFile \in Seq(Entries)
       /\ \A i, j \in DOMAIN ruleFile : ruleFile[i].id = ruleFile[j].id => i = j
       /\ \A i \in DOMAIN ruleFile : ruleFile[i].id <= ids
  /\ ~writing /\ ~stale => ruleFile = Listed

(* A breakpoint is as the user said it should be; copies may be old.       *)
BreaksKept ==
  /\ breaks \in Seq(BreakStates) /\ breakAll \in BOOLEAN
  /\ \A k, l \in DOMAIN breaks : breaks[k].id = breaks[l].id => k = l
  /\ \A k \in DOMAIN breaks : breaks[k].id <= ids /\ breaks[k].enabled = said[breaks[k].id]
  /\ said \in [RuleIds -> BOOLEAN]
  /\ copies \in [Editors -> Seq(BreakStates)]

Obeyed == verdict \in [said : BOOLEAN, due : BOOLEAN] /\ verdict.said = verdict.due

Counted == ids \in 0..MaxRuleIds /\ edits \in Nat

BookInv == Counted /\ RulesKept /\ FileKept /\ BreaksKept /\ Obeyed

LEMMA ElementsIn ==
  ASSUME NEW S, NEW s \in Seq(S)
  PROVE  /\ Len(s) \in Nat /\ DOMAIN s = 1..Len(s) /\ \A i \in DOMAIN s : s[i] \in S
         /\ ToSet(s) = {s[i] : i \in DOMAIN s} /\ ToSet(s) \cap S = ToSet(s)
<1>1. Len(s) \in Nat /\ DOMAIN s = 1..Len(s) /\ \A i \in DOMAIN s : s[i] \in S
  BY LenProperties, ElementOfSeq
<1> QED BY <1>1 DEF ToSet

(* A function on 1..n is a sequence.                                       *)
LEMMA AsSequence ==
  ASSUME NEW S, NEW n \in Nat, NEW f \in [1..n -> S]
  PROVE  f \in Seq(S) /\ Len(f) = n
OBVIOUS

LEMMA ListedRules ==
  ASSUME RulesKept
  PROVE  /\ Listed = [i \in DOMAIN ruleOrder |-> [id |-> ruleOrder[i], enabled |-> ruleItems[ruleOrder[i]]]]
         /\ Listed \in Seq(Entries)
         /\ \A i \in DOMAIN Listed : i \in DOMAIN ruleOrder /\ Listed[i].id = ruleOrder[i]
<1> DEFINE e == [i \in DOMAIN ruleOrder |-> [id |-> ruleOrder[i], enabled |-> ruleItems[ruleOrder[i]]]]
<1>1. /\ ruleOrder \in Seq(RuleIds) /\ ToSet(ruleOrder) = DOMAIN ruleItems
      /\ ruleItems \in [DOMAIN ruleItems -> BOOLEAN]
  BY DEF RulesKept
<1>2. ToSet(ruleOrder) \cap DOMAIN ruleItems = ToSet(ruleOrder)
  BY <1>1
<1>3. Only(ruleOrder, DOMAIN ruleItems) = ruleOrder
  BY <1>1, <1>2, OnlyAll
<1>4. Listed = e
  BY <1>3 DEF Listed
<1>5. /\ DOMAIN ruleOrder = 1..Len(ruleOrder) /\ Len(ruleOrder) \in Nat
      /\ \A i \in DOMAIN ruleOrder : ruleOrder[i] \in RuleIds /\ ruleOrder[i] \in DOMAIN ruleItems
  BY <1>1, ElementsIn DEF ToSet
<1>6. \A i \in DOMAIN ruleOrder : [id |-> ruleOrder[i], enabled |-> ruleItems[ruleOrder[i]]] \in Entries
  BY <1>1, <1>5 DEF Entries
<1>7. e \in [1..Len(ruleOrder) -> Entries]
  BY <1>5, <1>6
<1>8. /\ DOMAIN e = DOMAIN ruleOrder
      /\ \A i \in DOMAIN ruleOrder : e[i].id = ruleOrder[i]
  OBVIOUS
<1> HIDE DEF e
<1>9. e \in Seq(Entries)
  BY <1>5, <1>7, AsSequence
<1> QED BY <1>4, <1>8, <1>9 DEF e

(* Operations on one list leave the other as it is.                        *)
LEMMA RulesStay ==
  ASSUME Counted, RulesKept, FileKept, ids' \in Nat, ids <= ids',
         UNCHANGED <<ruleOrder, ruleItems, ruleFile, writing, stale>>
  PROVE  RulesKept' /\ FileKept'
<1>1. Listed' = Listed
  BY DEF Listed
<1>2. RulesKept'
  <2>1. \A i \in DOMAIN ruleItems : i \in RuleIds
    BY ElementsIn DEF RulesKept
  <2>2. \A i \in DOMAIN ruleItems : i <= ids'
    BY <2>1 DEF RulesKept, RuleIds, Counted
  <2> QED BY <2>2 DEF RulesKept
<1>3. ruleFile # NoFile => \A i \in DOMAIN ruleFile : ruleFile[i].id <= ids'
  <2> SUFFICES ASSUME ruleFile # NoFile, NEW i \in DOMAIN ruleFile PROVE ruleFile[i].id <= ids'
    OBVIOUS
  <2>1. ruleFile[i] \in Entries
    BY ElementsIn DEF FileKept
  <2>2. ruleFile[i].id \in Nat
    BY <2>1 DEF Entries, RuleIds
  <2> QED BY <2>2 DEF FileKept, Counted
<1> QED BY <1>1, <1>2, <1>3 DEF FileKept

LEMMA BreaksStay ==
  ASSUME Counted, BreaksKept, ids' \in Nat, ids <= ids', UNCHANGED <<breaks, breakAll, said, copies>>
  PROVE  BreaksKept'
<1>1. \A k \in DOMAIN breaks : breaks[k] \in BreakStates
  BY ElementsIn DEF BreaksKept
<1>2. \A k \in DOMAIN breaks : breaks[k].id \in Nat
  BY <1>1 DEF BreakStates, RuleIds
<1>3. \A k \in DOMAIN breaks : breaks[k].id <= ids'
  BY <1>2 DEF BreaksKept, Counted
<1> QED BY <1>3 DEF BreaksKept

(* A save that has begun takes the file away, or is known to have failed.  *)
LEMMA SaveBegins ==
  ASSUME Counted, FileKept, ~writing, BeginSave, ids' \in Nat, ids <= ids'
  PROVE  FileKept'
<1>1. CASE writing' = TRUE /\ ruleFile' = NoFile /\ UNCHANGED stale
  BY <1>1 DEF FileKept
<1>2. CASE stale' = TRUE /\ UNCHANGED <<writing, ruleFile>>
  <2>1. ruleFile # NoFile => \A i \in DOMAIN ruleFile : ruleFile[i].id <= ids'
    <3> SUFFICES ASSUME ruleFile # NoFile, NEW i \in DOMAIN ruleFile PROVE ruleFile[i].id <= ids'
      OBVIOUS
    <3>1. ruleFile[i] \in Entries
      BY ElementsIn DEF FileKept
    <3>2. ruleFile[i].id \in Nat
      BY <3>1 DEF Entries, RuleIds
    <3> QED BY <3>2 DEF FileKept, Counted
  <2> QED BY <1>2, <2>1 DEF FileKept
<1> QED BY <1>1, <1>2 DEF BeginSave

LEMMA Edits ==
  ASSUME Counted, MayEdit
  PROVE  edits' \in Nat
BY DEF Counted, MayEdit

LEMMA CreateRuleKeeps ==
  ASSUME BookInv, CreateRule
  PROVE  BookInv'
<1>0. Counted /\ RulesKept /\ FileKept /\ BreaksKept /\ Obeyed
  BY DEF BookInv
<1>1. /\ ~writing /\ ids < MaxRuleIds /\ ids' = ids + 1 /\ BeginSave /\ MayEdit
      /\ ruleOrder' = Append(ruleOrder, ids + 1)
      /\ UNCHANGED <<breaks, breakAll, copies, said, verdict>>
  BY DEF CreateRule, Edit
<1>2. PICK on \in BOOLEAN :
        ruleItems' = [i \in DOMAIN ruleItems \cup {ids + 1} |-> IF i = ids + 1 THEN on ELSE ruleItems[i]]
  BY DEF CreateRule
<1>3. Counted' /\ ids' \in Nat /\ ids <= ids' /\ ids + 1 \in RuleIds
  BY <1>0, <1>1, Edits, RuleBookAssumption DEF Counted, RuleIds
<1>4. DOMAIN ruleItems' = DOMAIN ruleItems \cup {ids + 1} /\ ruleItems' \in [DOMAIN ruleItems' -> BOOLEAN]
  BY <1>0, <1>2 DEF RulesKept
<1>5. ruleOrder \in Seq(RuleIds) /\ Distinct(ruleOrder) /\ ToSet(ruleOrder) = DOMAIN ruleItems
  BY <1>0 DEF RulesKept
<1>6. \A i \in DOMAIN ruleItems : i \in Nat /\ i <= ids
  <2>1. ToSet(ruleOrder) \cap RuleIds = ToSet(ruleOrder)
    BY <1>5, ElementsIn
  <2> QED BY <1>0, <1>5, <2>1 DEF RulesKept, RuleIds
<1>7. ids \in Nat /\ ids + 1 \notin DOMAIN ruleItems
  BY <1>0, <1>6 DEF Counted
<1>8. /\ ruleOrder' \in Seq(RuleIds) /\ Distinct(ruleOrder')
      /\ ToSet(ruleOrder') = DOMAIN ruleItems'
  BY <1>1, <1>3, <1>4, <1>5, <1>7, AppendKeepsSet
<1>9. RulesKept'
  <2>1. \A i \in DOMAIN ruleItems' : i <= ids'
    BY <1>1, <1>4, <1>6, <1>7
  <2> QED BY <1>4, <1>8, <2>1 DEF RulesKept, Distinct
<1>10. FileKept'
  BY <1>0, <1>1, <1>3, SaveBegins
<1>11. BreaksKept'
  BY <1>0, <1>1, <1>3, BreaksStay
<1> QED BY <1>0, <1>1, <1>3, <1>9, <1>10, <1>11 DEF BookInv, Obeyed

LEMMA ChangeRuleKeeps ==
  ASSUME BookInv, ChangeRule
  PROVE  BookInv'
<1>0. Counted /\ RulesKept /\ FileKept /\ BreaksKept /\ Obeyed
  BY DEF BookInv
<1>1. /\ ~writing /\ BeginSave /\ MayEdit
      /\ UNCHANGED <<ruleOrder, ids, breaks, breakAll, copies, said, verdict>>
  BY DEF ChangeRule, Edit
<1>2. PICK i \in DOMAIN ruleItems, on \in BOOLEAN : ruleItems' = [ruleItems EXCEPT ![i] = on]
  BY DEF ChangeRule
<1>3. Counted' /\ ids' \in Nat /\ ids <= ids'
  BY <1>0, <1>1, Edits DEF Counted
<1>4. DOMAIN ruleItems' = DOMAIN ruleItems /\ ruleItems' \in [DOMAIN ruleItems' -> BOOLEAN]
  BY <1>0, <1>2 DEF RulesKept
<1>5. RulesKept'
  BY <1>0, <1>1, <1>4 DEF RulesKept, Distinct
<1>6. FileKept'
  BY <1>0, <1>1, <1>3, SaveBegins
<1>7. BreaksKept'
  BY <1>0, <1>1, <1>3, BreaksStay
<1> QED BY <1>0, <1>1, <1>3, <1>5, <1>6, <1>7 DEF BookInv, Obeyed

LEMMA DeleteRuleKeeps ==
  ASSUME BookInv, DeleteRule
  PROVE  BookInv'
<1>0. Counted /\ RulesKept /\ FileKept /\ BreaksKept /\ Obeyed
  BY DEF BookInv
<1>1. /\ ~writing /\ BeginSave /\ MayEdit
      /\ UNCHANGED <<ids, breaks, breakAll, copies, said, verdict>>
  BY DEF DeleteRule, Edit
<1>2. PICK i \in DOMAIN ruleItems :
        /\ ruleItems' = [j \in DOMAIN ruleItems \ {i} |-> ruleItems[j]]
        /\ ruleOrder' = Only(ruleOrder, RuleIds \ {i})
  BY DEF DeleteRule, Without
<1>3. Counted' /\ ids' \in Nat /\ ids <= ids'
  BY <1>0, <1>1, Edits DEF Counted
<1>4. DOMAIN ruleItems' = DOMAIN ruleItems \ {i} /\ ruleItems' \in [DOMAIN ruleItems' -> BOOLEAN]
  BY <1>0, <1>2 DEF RulesKept
<1>5. /\ ruleOrder \in Seq(RuleIds) /\ Distinct(ruleOrder) /\ ToSet(ruleOrder) = DOMAIN ruleItems
      /\ ToSet(ruleOrder) \cap RuleIds = ToSet(ruleOrder)
  BY <1>0, ElementsIn DEF RulesKept
<1>6. /\ ruleOrder' \in Seq(RuleIds) /\ Distinct(ruleOrder')
      /\ ToSet(ruleOrder') = ToSet(ruleOrder) \cap (RuleIds \ {i})
  BY <1>2, <1>5, OnlyKeeps
<1>7. ToSet(ruleOrder') = DOMAIN ruleItems'
  BY <1>4, <1>5, <1>6
<1>8. RulesKept'
  BY <1>0, <1>1, <1>4, <1>6, <1>7 DEF RulesKept, Distinct
<1>9. FileKept'
  BY <1>0, <1>1, <1>3, SaveBegins
<1>10. BreaksKept'
  BY <1>0, <1>1, <1>3, BreaksStay
<1> QED BY <1>0, <1>1, <1>3, <1>8, <1>9, <1>10 DEF BookInv, Obeyed

LEMMA EndSaveKeeps ==
  ASSUME BookInv, EndSave
  PROVE  BookInv'
<1>0. Counted /\ RulesKept /\ FileKept /\ BreaksKept /\ Obeyed
  BY DEF BookInv
<1>1. /\ writing' = FALSE
      /\ \/ ruleFile' = Listed /\ stale' = FALSE
         \/ stale' = TRUE /\ UNCHANGED ruleFile
      /\ UNCHANGED <<ruleOrder, ruleItems, breaks, breakAll, copies, said, verdict, ids, edits>>
  BY DEF EndSave
<1>2. Counted' /\ ids' \in Nat /\ ids <= ids' /\ Listed' = Listed
  BY <1>0, <1>1 DEF Counted, Listed
<1>3. RulesKept'
  BY <1>0, <1>1 DEF RulesKept, Distinct
<1>4. BreaksKept'
  BY <1>0, <1>1, <1>2, BreaksStay
<1>5. FileKept'
  <2>1. CASE ruleFile' = Listed /\ stale' = FALSE
    <3>1. Listed \in Seq(Entries) /\ \A i \in DOMAIN Listed : i \in DOMAIN ruleOrder /\ Listed[i].id = ruleOrder[i]
      BY <1>0, ListedRules
    <3>2. \A i, j \in DOMAIN Listed : Listed[i].id = Listed[j].id => i = j
      BY <1>0, <3>1 DEF RulesKept, Distinct
    <3>3. \A i \in DOMAIN Listed : Listed[i].id <= ids
      BY <1>0, <3>1 DEF RulesKept, ToSet
    <3> HIDE DEF Listed
    <3> QED BY <1>1, <1>2, <2>1, <3>1, <3>2, <3>3 DEF FileKept
  <2>2. CASE stale' = TRUE /\ UNCHANGED ruleFile
    BY <1>0, <1>1, <2>2 DEF FileKept
  <2> QED BY <1>1, <2>1, <2>2
<1> QED BY <1>0, <1>1, <1>2, <1>3, <1>4, <1>5 DEF BookInv, Obeyed

(* A load makes the list of the rules in the file, each under its ID.      *)
LEMMA ReloadRulesKeeps ==
  ASSUME BookInv, ReloadRules
  PROVE  BookInv'
<1>0. Counted /\ RulesKept /\ FileKept /\ BreaksKept /\ Obeyed
  BY DEF BookInv
<1> DEFINE loaded == IF ruleFile = NoFile THEN <<>> ELSE ruleFile
<1>1. /\ MayEdit /\ writing' = FALSE /\ stale' = (ruleFile = NoFile)
      /\ breaks' = <<>> /\ breakAll' = FALSE /\ said' = [i \in RuleIds |-> FALSE]
      /\ UNCHANGED <<ruleFile, copies, verdict, ids>>
  BY DEF ReloadRules
<1>2. /\ ruleOrder' = [i \in DOMAIN loaded |-> loaded[i].id]
      /\ ruleItems' = [i \in {loaded[k].id : k \in DOMAIN loaded} |->
                         (CHOOSE r \in ToSet(loaded) : r.id = i).enabled]
  BY DEF ReloadRules
<1>3. Counted' /\ ids' = ids /\ ids' \in Nat /\ ids <= ids'
  BY <1>0, <1>1, Edits DEF Counted
<1>4. /\ loaded \in Seq(Entries)
      /\ \A i, j \in DOMAIN loaded : loaded[i].id = loaded[j].id => i = j
      /\ \A i \in DOMAIN loaded : loaded[i].id <= ids
      /\ ruleFile # NoFile => loaded = ruleFile
  BY <1>0 DEF FileKept
<1> HIDE DEF loaded
<1>5. /\ Len(loaded) \in Nat /\ DOMAIN loaded = 1..Len(loaded)
      /\ \A i \in DOMAIN loaded : loaded[i] \in Entries
      /\ ToSet(loaded) = {loaded[i] : i \in DOMAIN loaded}
  BY <1>4, ElementsIn
<1>6. \A i \in DOMAIN loaded : loaded[i].id \in RuleIds /\ loaded[i].enabled \in BOOLEAN
  BY <1>5 DEF Entries
<1>7. /\ ruleOrder' \in Seq(RuleIds) /\ DOMAIN ruleOrder' = DOMAIN loaded
      /\ \A i \in DOMAIN loaded : ruleOrder'[i] = loaded[i].id
  <2>1. ruleOrder' \in [1..Len(loaded) -> RuleIds]
    BY <1>2, <1>5, <1>6
  <2> QED BY <1>2, <1>5, <2>1, AsSequence
<1>8. /\ DOMAIN ruleItems' = {loaded[k].id : k \in DOMAIN loaded}
      /\ \A k \in DOMAIN loaded : ruleItems'[loaded[k].id] = loaded[k].enabled
  <2>1. DOMAIN ruleItems' = {loaded[k].id : k \in DOMAIN loaded}
    BY <1>2
  <2>2. ASSUME NEW k \in DOMAIN loaded PROVE ruleItems'[loaded[k].id] = loaded[k].enabled
    <3>1. \A r \in ToSet(loaded) : r.id = loaded[k].id => r = loaded[k]
      BY <1>4, <1>5
    <3>2. (CHOOSE r \in ToSet(loaded) : r.id = loaded[k].id) = loaded[k]
      BY <1>5, <3>1
    <3>3. ruleItems'[loaded[k].id] = (CHOOSE r \in ToSet(loaded) : r.id = loaded[k].id).enabled
      BY <1>2
    <3> QED BY <3>2, <3>3
  <2> QED BY <2>1, <2>2
<1>9. RulesKept'
  <2>1. Distinct(ruleOrder')
    BY <1>4, <1>7 DEF Distinct
  <2>2. ToSet(ruleOrder') = DOMAIN ruleItems'
    BY <1>7, <1>8 DEF ToSet
  <2>3. ruleItems' \in [DOMAIN ruleItems' -> BOOLEAN]
    <3>1. \A i \in DOMAIN ruleItems' : ruleItems'[i] \in BOOLEAN
      BY <1>6, <1>8
    <3>2. ruleItems' = [i \in DOMAIN ruleItems' |-> ruleItems'[i]]
      BY <1>2
    <3> QED BY <3>1, <3>2
  <2>4. \A i \in DOMAIN ruleItems' : i <= ids'
    BY <1>3, <1>4, <1>8
  <2> QED BY <1>7, <2>1, <2>2, <2>3, <2>4 DEF RulesKept, Distinct
<1>10. ruleFile # NoFile => ruleFile' = Listed'
  <2> SUFFICES ASSUME ruleFile # NoFile PROVE loaded = Listed'
    BY <1>1, <1>4
  <2>1. Listed' = [i \in DOMAIN ruleOrder' |-> [id |-> ruleOrder'[i], enabled |-> ruleItems'[ruleOrder'[i]]]]
    <3> DEFINE o == ruleOrder'
               D == DOMAIN ruleItems'
    <3>1. o \in Seq(RuleIds) /\ ToSet(o) = D
      BY <1>9 DEF RulesKept
    <3>2. ToSet(o) \cap D = ToSet(o)
      BY <3>1
    <3>3. Listed' = LET kept == Only(o, D)
                    IN [i \in DOMAIN kept |-> [id |-> kept[i], enabled |-> ruleItems'[kept[i]]]]
      BY DEF Listed
    <3> HIDE DEF o, D
    <3>4. Only(o, D) = o
      BY <3>1, <3>2, OnlyAll
    <3> QED BY <3>3, <3>4 DEF o
  <2> DEFINE l == Listed'
  <2>2. l = [i \in DOMAIN loaded |-> [id |-> loaded[i].id, enabled |-> loaded[i].enabled]]
    BY <1>7, <1>8, <2>1
  <2> HIDE DEF l
  <2>3. \A i \in DOMAIN loaded : l[i] = loaded[i]
    BY <1>5, <2>2 DEF Entries
  <2>4. l = [i \in 1..Len(loaded) |-> l[i]] /\ loaded = [i \in 1..Len(loaded) |-> loaded[i]]
    BY <1>4, <1>5, <2>2
  <2> QED BY <1>5, <2>3, <2>4 DEF l
<1>11. FileKept'
  <2>1. stale' \in BOOLEAN /\ writing' \in BOOLEAN
    BY <1>1
  <2>2. ~writing' /\ ~stale' => ruleFile' = Listed'
    BY <1>1, <1>10
  <2> QED BY <1>0, <1>1, <1>3, <2>1, <2>2 DEF FileKept
<1>12. BreaksKept'
  <2>1. said' \in [RuleIds -> BOOLEAN] /\ breakAll' \in BOOLEAN
    BY <1>1
  <2> QED BY <1>0, <1>1, <2>1 DEF BreaksKept
<1> QED BY <1>0, <1>1, <1>3, <1>9, <1>11, <1>12 DEF BookInv, Obeyed

(* What holds of the rules while the breakpoints change.                   *)
LEMMA BreakStep ==
  ASSUME BookInv, ids' \in Nat, ids <= ids', Counted', BreaksKept',
         UNCHANGED <<ruleOrder, ruleItems, ruleFile, writing, stale, verdict>>
  PROVE  BookInv'
<1>1. RulesKept' /\ FileKept'
  BY RulesStay DEF BookInv
<1> QED BY <1>1 DEF BookInv, Obeyed

LEMMA FetchKeeps ==
  ASSUME NEW e \in Editors, BookInv, Fetch(e)
  PROVE  BookInv'
<1>0. Counted /\ BreaksKept
  BY DEF BookInv
<1>1. /\ copies' = [copies EXCEPT ![e] = breaks]
      /\ UNCHANGED <<ruleOrder, ruleItems, ruleFile, writing, stale, breaks, breakAll, said, verdict, ids, edits>>
  BY DEF Fetch
<1>2. Counted' /\ ids' \in Nat /\ ids <= ids'
  BY <1>0, <1>1 DEF Counted
<1>3. BreaksKept'
  BY <1>0, <1>1 DEF BreaksKept
<1> QED BY <1>1, <1>2, <1>3, BreakStep

LEMMA SetGlobalBreakKeeps ==
  ASSUME BookInv, SetGlobalBreak
  PROVE  BookInv'
<1>0. Counted /\ BreaksKept
  BY DEF BookInv
<1>1. /\ MayEdit /\ breakAll' = ~breakAll
      /\ UNCHANGED <<ruleOrder, ruleItems, ruleFile, writing, stale, breaks, copies, said, verdict, ids>>
  BY DEF SetGlobalBreak
<1>2. Counted' /\ ids' \in Nat /\ ids <= ids'
  BY <1>0, <1>1, Edits DEF Counted
<1>3. BreaksKept'
  BY <1>0, <1>1 DEF BreaksKept
<1> QED BY <1>1, <1>2, <1>3, BreakStep

LEMMA AddBreakKeeps ==
  ASSUME BookInv, AddBreak
  PROVE  BookInv'
<1>0. Counted /\ BreaksKept
  BY DEF BookInv
<1>1. /\ MayEdit /\ ids < MaxRuleIds /\ ids' = ids + 1
      /\ UNCHANGED <<ruleOrder, ruleItems, ruleFile, writing, stale, breakAll, copies, verdict>>
  BY DEF AddBreak, EditBreaks
<1>2. PICK on \in BOOLEAN, url \in Urls :
        /\ breaks' = Append(breaks, [id |-> ids + 1, url |-> url, enabled |-> on, compiled |-> "none"])
        /\ said' = [said EXCEPT ![ids + 1] = on]
  BY DEF AddBreak
<1>3. Counted' /\ ids' \in Nat /\ ids <= ids' /\ ids \in Nat /\ ids + 1 \in RuleIds
  BY <1>0, <1>1, Edits, RuleBookAssumption DEF Counted, RuleIds
<1> DEFINE b == [id |-> ids + 1, url |-> url, enabled |-> on, compiled |-> "none"]
<1>4. b \in BreakStates /\ b.id = ids + 1 /\ b.enabled = on
  BY <1>3 DEF BreakStates
<1> HIDE DEF b
<1>5. /\ breaks \in Seq(BreakStates) /\ Len(breaks) \in Nat /\ DOMAIN breaks = 1..Len(breaks)
      /\ \A k \in DOMAIN breaks : breaks[k] \in BreakStates
  BY <1>0, ElementsIn DEF BreaksKept
<1>6. \A k \in DOMAIN breaks : breaks[k].id \in RuleIds /\ breaks[k].id \in Nat /\ breaks[k].id <= ids
  BY <1>0, <1>5 DEF BreakStates, RuleIds, BreaksKept
<1> DEFINE bs == breaks'
<1>7. /\ bs \in Seq(BreakStates) /\ Len(bs) = Len(breaks) + 1 /\ DOMAIN bs = 1..Len(bs)
      /\ \A k \in 1..Len(breaks) : bs[k] = breaks[k]
      /\ bs[Len(breaks) + 1] = b
  <2>1. bs = Append(breaks, b)
    BY <1>2 DEF b
  <2> HIDE DEF bs
  <2> QED BY <1>4, <1>5, <2>1, AppendProperties, LenProperties
<1> HIDE DEF bs
<1>8. \A k \in DOMAIN bs : \/ k \in DOMAIN breaks /\ bs[k] = breaks[k]
                           \/ k = Len(breaks) + 1 /\ bs[k] = b
  BY <1>5, <1>7
<1>9. \A k, l \in DOMAIN bs : bs[k].id = bs[l].id => k = l
  <2> SUFFICES ASSUME NEW k \in DOMAIN bs, NEW l \in DOMAIN bs, bs[k].id = bs[l].id PROVE k = l
    OBVIOUS
  <2>1. CASE k \in DOMAIN breaks /\ l \in DOMAIN breaks /\ bs[k] = breaks[k] /\ bs[l] = breaks[l]
    BY <1>0, <2>1 DEF BreaksKept
  <2>2. CASE k \in DOMAIN breaks /\ bs[k] = breaks[k] /\ bs[l] = b
    BY <1>3, <1>4, <1>6, <2>2
  <2>3. CASE l \in DOMAIN breaks /\ bs[l] = breaks[l] /\ bs[k] = b
    BY <1>3, <1>4, <1>6, <2>3
  <2>4. CASE k = Len(breaks) + 1 /\ l = Len(breaks) + 1
    BY <2>4
  <2> QED BY <1>8, <2>1, <2>2, <2>3, <2>4
<1>10. \A k \in DOMAIN bs : bs[k].id <= ids' /\ bs[k].enabled = said'[bs[k].id]
  <2> TAKE k \in DOMAIN bs
  <2>0. said \in [RuleIds -> BOOLEAN]
    BY <1>0 DEF BreaksKept
  <2>1. CASE k \in DOMAIN breaks /\ bs[k] = breaks[k]
    <3>1. breaks[k].id # ids + 1 /\ breaks[k].id <= ids'
      BY <1>1, <1>3, <1>6, <2>1
    <3>2. said'[breaks[k].id] = said[breaks[k].id]
      BY <1>2, <1>6, <2>0, <2>1, <3>1
    <3> QED BY <1>0, <2>1, <3>1, <3>2 DEF BreaksKept
  <2>2. CASE bs[k] = b
    BY <1>1, <1>2, <1>3, <1>4, <2>0, <2>2
  <2> QED BY <1>8, <2>1, <2>2
<1>11. said' \in [RuleIds -> BOOLEAN]
  BY <1>0, <1>2 DEF BreaksKept
<1>12. BreaksKept'
  BY <1>0, <1>1, <1>7, <1>9, <1>10, <1>11 DEF BreaksKept, bs
<1> QED BY <1>1, <1>3, <1>12, BreakStep

LEMMA DeleteBreakKeeps ==
  ASSUME NEW e \in Editors, BookInv, DeleteBreak(e)
  PROVE  BookInv'
<1>0. Counted /\ BreaksKept
  BY DEF BookInv
<1>1. /\ MayEdit
      /\ UNCHANGED <<ruleOrder, ruleItems, ruleFile, writing, stale, breakAll, copies, verdict, said, ids>>
  BY DEF DeleteBreak, EditBreaks
<1>2. PICK r : breaks' = Only(breaks, {b \in ToSet(breaks) : b.id # r.id})
  BY DEF DeleteBreak
<1>3. Counted' /\ ids' \in Nat /\ ids <= ids'
  BY <1>0, <1>1, Edits DEF Counted
<1> DEFINE bs == breaks'
           T == {b \in ToSet(breaks) : b.id # r.id}
<1>4. breaks \in Seq(BreakStates) /\ Len(breaks) \in Nat /\ DOMAIN breaks = 1..Len(breaks)
  BY <1>0, ElementsIn DEF BreaksKept
<1>5. bs = Only(breaks, T)
  BY <1>2
<1> HIDE DEF bs, T
<1>6. /\ bs \in Seq(BreakStates) /\ ToSet(bs) = ToSet(breaks) \cap T
      /\ \A i, j \in 1..Len(bs) : i < j => \E k, l \in 1..Len(breaks) : k < l /\ bs[i] = breaks[k] /\ bs[j] = breaks[l]
  <2>1. ASSUME NEW s \in Seq(BreakStates), NEW U
        PROVE  /\ Only(s, U) \in Seq(BreakStates) /\ ToSet(Only(s, U)) = ToSet(s) \cap U
               /\ \A i, j \in 1..Len(Only(s, U)) : i < j =>
                    \E k, l \in 1..Len(s) : k < l /\ Only(s, U)[i] = s[k] /\ Only(s, U)[j] = s[l]
    BY OnlyKeeps
  <2> QED BY <1>4, <1>5, <2>1
<1>7. Len(bs) \in Nat /\ DOMAIN bs = 1..Len(bs)
  BY <1>6, ElementsIn
<1>8. \A k \in DOMAIN bs : \E l \in DOMAIN breaks : bs[k] = breaks[l]
  BY <1>6 DEF ToSet
<1>9. \A i, j \in DOMAIN bs : bs[i].id = bs[j].id => i = j
  <2>1. ASSUME NEW i \in DOMAIN bs, NEW j \in DOMAIN bs, i < j PROVE bs[i].id # bs[j].id
    <3>0. i \in 1..Len(bs) /\ j \in 1..Len(bs)
      BY <1>7
    <3>1. PICK k, l \in 1..Len(breaks) : k < l /\ bs[i] = breaks[k] /\ bs[j] = breaks[l]
      BY <1>6, <2>1, <3>0
    <3>2. k # l
      BY <1>4, <3>1
    <3> QED BY <1>0, <1>4, <3>1, <3>2 DEF BreaksKept
  <2>2. \A i, j \in DOMAIN bs : i < j \/ j < i \/ i = j
    BY <1>7
  <2> QED BY <2>1, <2>2
<1>10. \A k \in DOMAIN bs : bs[k].id <= ids' /\ bs[k].enabled = said'[bs[k].id]
  BY <1>0, <1>1, <1>8 DEF BreaksKept
<1>11. BreaksKept'
  BY <1>0, <1>1, <1>6, <1>9, <1>10 DEF BreaksKept, bs
<1> QED BY <1>1, <1>3, <1>11, BreakStep

LEMMA ChangeBreakKeeps ==
  ASSUME NEW e \in Editors, BookInv, ChangeBreak(e)
  PROVE  BookInv'
<1>0. Counted /\ BreaksKept
  BY DEF BookInv
<1>1. /\ MayEdit
      /\ UNCHANGED <<ruleOrder, ruleItems, ruleFile, writing, stale, breakAll, copies, verdict, ids>>
  BY DEF ChangeBreak, EditBreaks
<1>2. PICK r \in ToSet(copies[e]), given \in {"same", "on", "off"}, url \in Urls :
        /\ \E b \in ToSet(breaks) : b.id = r.id
        /\ breaks' = [breaks EXCEPT ![Found(r.id)].url = url,
                                    ![Found(r.id)].enabled = NewEnabled(copies[e], Found(r.id), given)]
        /\ said' = IF given = "same" THEN said ELSE [said EXCEPT ![r.id] = (given = "on")]
  BY DEF ChangeBreak
<1>3. Counted' /\ ids' \in Nat /\ ids <= ids'
  BY <1>0, <1>1, Edits DEF Counted
<1>4. /\ breaks \in Seq(BreakStates) /\ Len(breaks) \in Nat /\ DOMAIN breaks = 1..Len(breaks)
      /\ \A k \in DOMAIN breaks : breaks[k] \in BreakStates
      /\ ToSet(breaks) = {breaks[k] : k \in DOMAIN breaks}
  BY <1>0, ElementsIn DEF BreaksKept
<1>5. PICK k : k = Found(r.id)
  OBVIOUS
<1>6. k \in DOMAIN breaks /\ breaks[k].id = r.id /\ r.id \in RuleIds
  <2>1. \E l \in DOMAIN breaks : breaks[l].id = r.id
    BY <1>2, <1>4
  <2>2. k \in DOMAIN breaks /\ breaks[k].id = r.id
    BY <1>5, <2>1 DEF Found
  <2> QED BY <1>4, <2>2 DEF BreakStates
<1>7. PICK on : on = NewEnabled(copies[e], k, given)
  OBVIOUS
<1>8. on \in BOOLEAN /\ on = said'[r.id] /\ said' \in [RuleIds -> BOOLEAN]
      /\ \A i \in RuleIds : i # r.id => said'[i] = said[i]
  <2>0. breaks[k].enabled \in BOOLEAN /\ breaks[k].enabled = said[r.id] /\ said \in [RuleIds -> BOOLEAN]
    BY <1>0, <1>4, <1>6 DEF BreaksKept, BreakStates
  <2>1. CASE given = "same"
    BY <1>2, <1>7, <2>0, <2>1 DEF NewEnabled
  <2>2. CASE given # "same"
    BY <1>2, <1>6, <1>7, <2>0, <2>2 DEF NewEnabled
  <2> QED BY <2>1, <2>2
<1> DEFINE b == [breaks[k] EXCEPT !.url = url, !.enabled = on]
           bs == breaks'
<1>9. b \in BreakStates /\ b.id = r.id /\ b.enabled = on
  <2>1. breaks[k] \in BreakStates /\ breaks[k].id = r.id
    BY <1>4, <1>6
  <2> QED BY <1>8, <2>1 DEF BreakStates
<1>10. bs = [breaks EXCEPT ![k] = b]
  <2>1. bs = [breaks EXCEPT ![k].url = url, ![k].enabled = on]
    BY <1>2, <1>5, <1>7
  <2>2. [breaks EXCEPT ![k].url = url, ![k].enabled = on] = [breaks EXCEPT ![k] = b]
    BY <1>4, <1>6
  <2> QED BY <2>1, <2>2
<1> HIDE DEF b, bs
<1>11. /\ bs \in Seq(BreakStates) /\ DOMAIN bs = DOMAIN breaks
       /\ \A l \in DOMAIN breaks : bs[l] = IF l = k THEN b ELSE breaks[l]
  <2>1. bs \in [1..Len(breaks) -> BreakStates]
    BY <1>4, <1>9, <1>10
  <2>2. \A l \in DOMAIN breaks : bs[l] = IF l = k THEN b ELSE breaks[l]
    BY <1>6, <1>10
  <2> QED BY <1>4, <2>1, <2>2, AsSequence
<1>12. \A i, j \in DOMAIN bs : bs[i].id = bs[j].id => i = j
  <2>1. \A l \in DOMAIN bs : bs[l].id = breaks[l].id
    BY <1>6, <1>9, <1>11
  <2> QED BY <1>0, <1>11, <2>1 DEF BreaksKept
<1>13. \A l \in DOMAIN bs : bs[l].id <= ids' /\ bs[l].enabled = said'[bs[l].id]
  <2> TAKE l \in DOMAIN bs
  <2>1. CASE l = k
    <3>1. bs[l] = b /\ breaks[k].id <= ids
      BY <1>0, <1>6, <1>11, <2>1 DEF BreaksKept
    <3> QED BY <1>1, <1>6, <1>8, <1>9, <3>1
  <2>2. CASE l # k
    <3>1. bs[l] = breaks[l] /\ l \in DOMAIN breaks /\ breaks[l].id \in RuleIds
      BY <1>4, <1>11, <2>2 DEF BreakStates
    <3>2. breaks[l].id # r.id /\ breaks[l].id <= ids /\ breaks[l].enabled = said[breaks[l].id]
      BY <1>0, <1>6, <2>2, <3>1 DEF BreaksKept
    <3> QED BY <1>1, <1>8, <3>1, <3>2
  <2> QED BY <2>1, <2>2
<1>14. BreaksKept'
  BY <1>0, <1>1, <1>8, <1>11, <1>12, <1>13 DEF BreaksKept, bs
<1> QED BY <1>1, <1>3, <1>14, BreakStep

(* The rules that are enabled and match are those the user wants.          *)
LEMMA ShouldBreakForKeeps ==
  ASSUME NEW url \in Urls, BookInv, ShouldBreakFor(url)
  PROVE  BookInv'
<1>0. Counted /\ RulesKept /\ FileKept /\ BreaksKept
  BY DEF BookInv
<1> DEFINE hits == {k \in DOMAIN breaks : breaks[k].enabled /\ <<Compiled(breaks[k]), url>> \in Matches}
           due  == \E k \in DOMAIN breaks : said[breaks[k].id] /\ <<breaks[k].url, url>> \in Matches
<1>1. /\ verdict' = [said |-> breakAll \/ hits # {}, due |-> breakAll \/ due]
      /\ UNCHANGED <<ruleOrder, ruleItems, ruleFile, writing, stale, breakAll, copies, said, ids, edits>>
  BY DEF ShouldBreakFor
<1>2. PICK last : breaks' = [k \in DOMAIN breaks |->
          IF k <= last /\ breaks[k].enabled THEN [breaks[k] EXCEPT !.compiled = Compiled(breaks[k])] ELSE breaks[k]]
  BY DEF ShouldBreakFor
<1>3. Counted' /\ ids' \in Nat /\ ids <= ids'
  BY <1>0, <1>1 DEF Counted
<1>4. /\ breaks \in Seq(BreakStates) /\ Len(breaks) \in Nat /\ DOMAIN breaks = 1..Len(breaks)
      /\ \A k \in DOMAIN breaks : breaks[k] \in BreakStates
  BY <1>0, ElementsIn DEF BreaksKept
<1>5. Obeyed'
  <2>1. (hits # {}) = due
    <3>1. \A k \in DOMAIN breaks : breaks[k].enabled = said[breaks[k].id]
      BY <1>0 DEF BreaksKept
    <3> QED BY <3>1 DEF Compiled
  <2>2. breakAll \in BOOLEAN
    BY <1>0 DEF BreaksKept
  <2> HIDE DEF hits, due
  <2>3. (breakAll \/ hits # {}) \in BOOLEAN /\ (breakAll \/ due) \in BOOLEAN
    OBVIOUS
  <2>4. (breakAll \/ hits # {}) = (breakAll \/ due)
    BY <2>1
  <2> DEFINE p == breakAll \/ hits # {}
             q == breakAll \/ due
  <2>5. verdict' = [said |-> p, due |-> q] /\ p \in BOOLEAN /\ q \in BOOLEAN /\ p = q
    BY <1>1, <2>3, <2>4
  <2> HIDE DEF p, q
  <2> QED BY <2>5 DEF Obeyed
<1> DEFINE bs == breaks'
<1>6. DOMAIN bs = DOMAIN breaks
  BY <1>2
<1>7. \A k \in DOMAIN breaks :
        bs[k] \in BreakStates /\ bs[k].id = breaks[k].id /\ bs[k].enabled = breaks[k].enabled
  <2> TAKE k \in DOMAIN breaks
  <2>1. CASE bs[k] = breaks[k]
    BY <1>4, <2>1
  <2>2. CASE bs[k] = [breaks[k] EXCEPT !.compiled = breaks[k].url]
    <3> HIDE DEF bs
    <3>1. breaks[k] \in BreakStates
      BY <1>4
    <3> QED BY <2>2, <3>1 DEF BreakStates
  <2> QED BY <1>2, <2>1, <2>2 DEF Compiled
<1>8. bs \in Seq(BreakStates)
  <2>1. bs = [k \in 1..Len(breaks) |-> bs[k]]
    BY <1>2, <1>4
  <2> HIDE DEF bs
  <2>2. bs \in [1..Len(breaks) -> BreakStates]
    BY <1>4, <1>7, <2>1
  <2> QED BY <1>4, <2>2, AsSequence
<1> HIDE DEF bs
<1>9. \A k, l \in DOMAIN bs : bs[k].id = bs[l].id => k = l
  BY <1>0, <1>6, <1>7 DEF BreaksKept
<1>10. \A k \in DOMAIN bs : bs[k].id <= ids' /\ bs[k].enabled = said'[bs[k].id]
  BY <1>0, <1>1, <1>6, <1>7 DEF BreaksKept
<1>11. BreaksKept'
  BY <1>0, <1>1, <1>8, <1>9, <1>10 DEF BreaksKept, bs
<1>12. RulesKept' /\ FileKept'
  BY <1>0, <1>1, <1>3, RulesStay
<1> QED BY <1>3, <1>5, <1>11, <1>12 DEF BookInv

LEMMA BookStarts ==
  BookInit => BookInv
<1> SUFFICES ASSUME BookInit PROVE BookInv
  OBVIOUS
<1>1. Counted
  BY RuleBookAssumption DEF BookInit, Counted
<1>2. RulesKept
  BY DEF BookInit, RulesKept, Distinct, ToSet
<1>3. FileKept
  BY DEF BookInit, FileKept
<1>4. BreaksKept
  <2>1. copies \in [Editors -> Seq(BreakStates)]
    <3>1. <<>> \in Seq(BreakStates)
      OBVIOUS
    <3> QED BY <3>1 DEF BookInit
  <2>2. said \in [RuleIds -> BOOLEAN]
    BY DEF BookInit
  <2>3. breaks \in Seq(BreakStates) /\ DOMAIN breaks = {}
    BY DEF BookInit
  <2>4. breakAll \in BOOLEAN
    BY DEF BookInit
  <2> QED BY <2>1, <2>2, <2>3, <2>4 DEF BreaksKept
<1>5. Obeyed
  BY DEF BookInit, Obeyed
<1> QED BY <1>1, <1>2, <1>3, <1>4, <1>5 DEF BookInv

LEMMA BookStepKeeps ==
  ASSUME BookInv, [BookNext]_bookVars
  PROVE  BookInv'
<1>1. CASE BookNext
  <2>1. CASE \/ CreateRule \/ ChangeRule \/ DeleteRule \/ EndSave \/ ReloadRules \/ AddBreak \/ SetGlobalBreak
    BY <2>1, CreateRuleKeeps, ChangeRuleKeeps, DeleteRuleKeeps, EndSaveKeeps, ReloadRulesKeeps, AddBreakKeeps,
       SetGlobalBreakKeeps
  <2>2. ASSUME NEW e \in Editors, Fetch(e) \/ ChangeBreak(e) \/ DeleteBreak(e) PROVE BookInv'
    BY <2>2, FetchKeeps, ChangeBreakKeeps, DeleteBreakKeeps
  <2>3. ASSUME NEW url \in Urls, ShouldBreakFor(url) PROVE BookInv'
    BY <2>3, ShouldBreakForKeeps
  <2> QED BY <1>1, <2>1, <2>2, <2>3 DEF BookNext
<1>2. CASE UNCHANGED bookVars
  <2>1. UNCHANGED <<ruleOrder, ruleItems, ruleFile, writing, stale, breaks, breakAll, copies, said, verdict, ids, edits>>
    BY <1>2 DEF bookVars
  <2>2. Counted /\ BreaksKept
    BY DEF BookInv
  <2>3. Counted' /\ ids' \in Nat /\ ids <= ids'
    BY <2>1, <2>2 DEF Counted
  <2>4. BreaksKept'
    BY <2>1, <2>2, <2>3, BreaksStay
  <2> QED BY <2>1, <2>3, <2>4, BreakStep
<1> QED BY <1>1, <1>2

(* The rule order names each rule once and none that is gone, the file has *)
(* the rules unless it is being written or that failed, and a breakpoint   *)
(* is enabled exactly when the user last said so (rules.go:79, 156;        *)
(* breakpoint.go:193, 249).                                                *)
THEOREM BookStaysSound == BookSpec => []BookSound
<1>1. BookInit => BookInv
  BY BookStarts
<1>2. BookInv /\ [BookNext]_bookVars => BookInv'
  BY BookStepKeeps
<1>3. BookInv => BookSound
  BY DEF BookInv, BookSound, RulesKept, FileKept, BreaksKept, Obeyed, EnabledIsLastSaid, Distinct, IsInjective
<1> QED BY <1>1, <1>2, <1>3, PTL DEF BookSpec

-----------------------------------------------------------------------------
(* The plugins.                                                            *)

(* Where a request is.                                                     *)
Making     == {"source", "build", "enter"}                    \* a create
Changing   == {"build", "write", "fill", "abandon", "swap", "closing"}  \* a save or an update
Bringing   == {"write", "fill", "swap", "closing", "enter"}  \* an instance for the table
Holding    == Bringing \cup {"abandon", "remove"}            \* an instance of its own
Rebuilding == {"rebuild", "register"}
Stages == {"idle", "done", "begun"} \cup Making \cup Changing \cup Holding \cup Rebuilding

InstStates ==
  [of : PluginIds \cup {"none"}, enabled : BOOLEAN, store : SUBSET Writes, dirty : BOOLEAN,
   quit : BOOLEAN, flusher : {"waits", "writes", "ended"}, held : SUBSET Writes, shut : BOOLEAN]

DirStates ==
  [there : BOOLEAN, source : {"none", "good", "torn"}, manifest : {"none", "on", "off", "torn"},
   state : SUBSET Writes]

RequestStates ==
  [kind : {"none", "save", "update", "create", "delete", "enable"}, id : PluginIds \cup {"none"},
   at : Stages, new : 0..MaxInstances, on : BOOLEAN, carried : SUBSET Writes]

PluginTyped ==
  /\ inst \in [Instances -> InstStates] /\ made \in 0..MaxInstances
  /\ plugins \in [PluginIds -> 0..MaxInstances]
  /\ failed \in SUBSET PluginIds /\ hooks \in SUBSET Instances
  /\ disk \in [PluginIds -> DirStates]
  /\ flowAt \in [Flows -> [at : {"idle", "listed", "set", "over"}, calls : SUBSET Instances,
                           in : 0..MaxInstances]]
  /\ life \in {"runs", "closing", "closed"}
  /\ left \in [requests : 0..MaxRequests, stops : Nat]
  /\ promised \in [PluginIds -> SUBSET Writes] /\ foreign \in [PluginIds -> SUBSET Writes]
  /\ doubtful \in SUBSET PluginIds /\ unflushed \in SUBSET PluginIds

InTable(i) == plugins[inst[i].of] = i

(* The instances that were built, and those that were not.                 *)
Instanced ==
  /\ \A i \in 1..made :
       /\ inst[i].of \in PluginIds /\ inst[i].held \subseteq inst[i].store
       /\ inst[i].shut => inst[i].flusher = "ended"
       /\ inst[i].flusher = "ended" => inst[i].quit
  /\ \A i \in Instances : i > made => inst[i] = Unbuilt

(* An instance that is not closed is in the table, or the request's own.   *)
Owned(r) == \A i \in 1..made :
  /\ inst[i].quit \/ InTable(i) \/ (r.at \in Bringing /\ r.new = i)
  /\ inst[i].shut \/ InTable(i) \/ (r.at \in Holding /\ r.new = i)

Tabled(r) == \A p \in PluginIds : plugins[p] # 0 =>
  /\ plugins[p] <= made /\ inst[plugins[p]].of = p /\ disk[p].there /\ p \notin failed
  /\ inst[plugins[p]].quit => life = "closing" \/ (r.at = "closing" /\ r.id = p)

(* A directory that did not load has no instance.                          *)
Unloaded == \A p \in failed :
  disk[p].there /\ promised[p] = {} /\ \A i \in 1..made : inst[i].of # p

(* The pipeline lists what is in the table, and besides it only what a     *)
(* delete took out.                                                        *)
Piped(r) ==
  /\ hooks \subseteq 1..made
  /\ r.at = "register" => \A i \in hooks : InTable(i)
  /\ life = "runs" /\ r.at \notin Rebuilding =>
       /\ \A p \in PluginIds : plugins[p] # 0 => plugins[p] \in hooks
       /\ \A i \in hooks : ~InTable(i) =>
            /\ plugins[inst[i].of] = 0 /\ disk[inst[i].of].there
            /\ inst[i].shut \/ (r.at = "remove" /\ r.new = i)

(* A restart would load a plugin as it is.                                 *)
Restartable(r) == \A p \in PluginIds :
  life = "runs" /\ p \notin doubtful /\ plugins[p] # 0 /\ ~(r.at = "fill" /\ r.id = p) =>
    Loads(disk[p]) /\ disk[p].manifest = OnOff(inst[plugins[p]].enabled)

(* What a store held when it was looked up.                                *)
Promised == \A p \in PluginIds :
  /\ plugins[p] # 0 =>
       /\ promised[p] \subseteq inst[plugins[p]].store
       /\ inst[plugins[p]].shut /\ p \notin unflushed => promised[p] \subseteq disk[p].state
  /\ plugins[p] = 0 /\ p \notin unflushed => promised[p] \subseteq disk[p].state

(* The flows that wrote to a store have begun, and the number of a request *)
(* is in none until its script is loaded.                                  *)
Used(w) ==
  \/ \E i \in Instances : w \in inst[i].store
  \/ \E p \in PluginIds : w \in disk[p].state \/ w \in promised[p] \/ w \in foreign[p]

Dated(r) ==
  /\ \A f \in Flows : Used(f) => flowAt[f].at # "idle"
  /\ \A n \in 0..MaxRequests : Used(n) =>
       /\ n >= left.requests
       /\ r.at \in {"begun", "source", "build"} => n > left.requests

(* What may still write to the store of a plugin is not foreign to it.     *)
Clean ==
  /\ \A p \in PluginIds : disk[p].state \cap foreign[p] = {} /\ promised[p] \cap foreign[p] = {}
  /\ \A i \in 1..made : inst[i].shut \/ inst[i].store \cap foreign[inst[i].of] = {}
  /\ \A f \in Flows : \A i \in flowAt[f].calls : inst[i].shut \/ f \notin foreign[inst[i].of]

Calling == \A f \in Flows :
  /\ flowAt[f].at \in {"idle", "over"} => flowAt[f].calls = {}
  /\ flowAt[f].calls \subseteq 1..made
  /\ flowAt[f].at = "set" => flowAt[f].in \in flowAt[f].calls

(* What a request r knows of its plugin, and of its own instance.          *)
KnowsPlugin(r) == LET p == r.id IN
  /\ r.at \in Making /\ r.kind = "create" =>
       /\ plugins[p] = 0 /\ p \notin failed /\ promised[p] = {}
       /\ disk[p].there /\ disk[p].manifest = OnOff(r.on)
       /\ r.at # "source" => disk[p].source = "good"
       /\ life = "runs" => \A i \in hooks : inst[i].of # p
  /\ r.at \in Changing /\ r.kind # "create" =>
       /\ disk[p].there /\ p \notin failed /\ r.carried = promised[p]
       /\ plugins[p] = 0 => life = "closed"
       /\ plugins[p] # 0 => r.on = inst[plugins[p]].enabled
  /\ r.at = "remove" => plugins[p] = 0 /\ p \notin failed /\ promised[p] = {} /\ disk[p].there
  /\ r.at = "fill" /\ p \notin doubtful /\ life = "runs" =>
       IF r.kind = "save" THEN disk[p].manifest = OnOff(r.on) ELSE disk[p].source = "good"

KnowsNew(r) == r.at \in Holding =>
  /\ r.new \in 1..made /\ inst[r.new].of = r.id
  /\ r.at \in Bringing => ~inst[r.new].quit /\ ~InTable(r.new) /\ inst[r.new].enabled = r.on
  /\ r.at \notin Bringing => inst[r.new].quit
  /\ promised[r.id] \subseteq inst[r.new].store
  /\ r.at # "remove" /\ inst[r.new].flusher = "writes" => promised[r.id] \subseteq inst[r.new].held

Knows(r) == r.at \notin {"idle", "done"} =>
  /\ r.id \in PluginIds
  /\ r.at \in {"source", "enter"} => r.kind = "create"
  /\ r.at = "build" => r.kind \in {"create", "save", "update"}
  /\ r.at \in Changing \ {"build"} => r.kind \in {"save", "update"}
  /\ r.at = "remove" => r.kind = "delete"
  /\ r.at \in {"closing", "register"} => life # "closing"
  /\ KnowsPlugin(r) /\ KnowsNew(r)

(* Everything, when r is the request under way.                            *)
Stands(r) ==
  /\ PluginTyped /\ Instanced /\ Unloaded /\ Promised /\ Clean /\ Calling
  /\ Owned(r) /\ Tabled(r) /\ Piped(r) /\ Restartable(r) /\ Dated(r) /\ Knows(r)

PluginInv ==
  /\ request \in [Requests -> RequestStates]
  /\ \A q, r \in Requests : Under(q) /\ Under(r) => q = r
  /\ \A q \in Requests : Under(q) => Stands(request[q])
  /\ (\A q \in Requests : ~Under(q)) => Stands(NoRequest)

-----------------------------------------------------------------------------
(* The request under way.                                                  *)

LEMMA NoRequestTyped == NoRequest \in RequestStates
<1>. "idle" \in Stages /\ 0 \in 0..MaxInstances /\ {} \in SUBSET Writes  BY PluginsAssumption DEF Stages
<1>. QED  BY DEF NoRequest, RequestStates

(* A step of the one request under way.                                    *)
LEMMA RequestMoves ==
  ASSUME PluginInv, NEW q \in Requests, NEW n \in RequestStates, MayOperate(q) \/ Under(q),
         request' = [request EXCEPT ![q] = n], Stands(n)'
  PROVE  PluginInv'
<1>1. request' \in [Requests -> RequestStates]  BY DEF PluginInv
<1>2. \A r \in Requests : request'[r] = IF r = q THEN n ELSE request[r]  BY DEF PluginInv
<1>3. \A r \in Requests : r # q => ~Under(r) /\ ~Under(r)'  BY <1>2 DEF PluginInv, Under, MayOperate
<1>4. n.at \in {"idle", "done"} => Stands(NoRequest)'
  <2>. SUFFICES ASSUME n.at \in {"idle", "done"} PROVE Stands(NoRequest)'  OBVIOUS
  <2>. /\ n.at \notin Bringing /\ n.at \notin Holding /\ n.at \notin Rebuilding
       /\ n.at \notin {"begun", "source", "build"} /\ n.at # "remove" /\ n.at # "fill"
       /\ n.at # "closing" /\ n.at # "register"
    BY DEF Bringing, Holding, Rebuilding
  <2>. /\ NoRequest.at \notin Rebuilding /\ NoRequest.at # "register" /\ NoRequest.at = "idle"
    BY DEF NoRequest, Rebuilding
  <2>1. Owned(NoRequest)'  BY DEF Stands, Owned
  <2>2. Tabled(NoRequest)'  BY DEF Stands, Tabled
  <2>3. Piped(NoRequest)'  BY DEF Stands, Piped
  <2>4. Restartable(NoRequest)' /\ Dated(NoRequest)' /\ Knows(NoRequest)'
    BY DEF Stands, Restartable, Dated, Knows
  <2>. QED  BY <2>1, <2>2, <2>3, <2>4 DEF Stands
<1>5. \A r \in Requests : Under(r)' => r = q /\ request'[r] = n  BY <1>2, <1>3
<1>6. (\A r \in Requests : ~Under(r)') => n.at \in {"idle", "done"}  BY <1>2 DEF Under
<1>. QED  BY <1>1, <1>4, <1>5, <1>6 DEF PluginInv

(* A step that leaves the requests alone.                                  *)
AtHand(r) == r = NoRequest \/ \E q \in Requests : r = request[q]

LEMMA RequestsRest ==
  ASSUME PluginInv, UNCHANGED request,
         \A r \in RequestStates : AtHand(r) /\ Stands(r) => Stands(r)'
  PROVE  PluginInv'
<1>2. \A q \in Requests : Under(q)' <=> Under(q)  BY DEF Under
<1>. QED  BY NoRequestTyped, <1>2 DEF PluginInv, AtHand

LEMMA TheRequest ==
  ASSUME PluginInv, NEW q \in Requests
  PROVE  /\ request[q] \in RequestStates
         /\ Under(q) => Stands(request[q])
         /\ MayOperate(q) => Stands(NoRequest)
BY DEF PluginInv, MayOperate

-----------------------------------------------------------------------------
(* The flows and the flushers.                                             *)

LEMMA ListHooksKeeps ==
  ASSUME NEW r \in RequestStates, Stands(r), NEW f \in Flows, ListHooks(f)
  PROVE  Stands(r)'
<1>. USE DEF ListHooks
<1>1. \A g \in Flows : flowAt'[g] = IF g = f THEN [at |-> "listed", calls |-> hooks, in |-> 0] ELSE flowAt[g]
  BY DEF Stands, PluginTyped
<1>2. PluginTyped'
  <2>. hooks \in SUBSET Instances /\ 0 \in 0..MaxInstances  BY PluginsAssumption DEF Stands, PluginTyped
  <2>. [at |-> "listed", calls |-> hooks, in |-> 0]
         \in [at : {"idle", "listed", "set", "over"}, calls : SUBSET Instances, in : 0..MaxInstances]
    OBVIOUS
  <2>. QED  BY DEF Stands, PluginTyped
<1>3. Instanced' /\ Unloaded' /\ Promised'  BY DEF Stands, Instanced, Unloaded, Promised
<1>4. Clean'
  <2>1. ~Used(f)  BY DEF Stands, Dated
  <2>2. \A i \in hooks : f \notin foreign[inst[i].of]
    BY <2>1 DEF Stands, Piped, Instanced, Used
  <2>. QED  BY <1>1, <2>2 DEF Stands, Clean
<1>5. Calling'
  <2>. /\ flowAt'[f].at = "listed" /\ flowAt'[f].calls = hooks
       /\ \A g \in Flows \ {f} : flowAt'[g] = flowAt[g]
    BY <1>1
  <2>. hooks \subseteq 1..made  BY DEF Stands, Piped
  <2>. QED  BY DEF Stands, Calling
<1>6. Owned(r)' /\ Tabled(r)' /\ Piped(r)' /\ Restartable(r)'
  BY DEF Stands, Owned, InTable, Tabled, Piped, Restartable
<1>7. Dated(r)'  BY <1>1 DEF Stands, Dated, Used
<1>8. Knows(r)'  BY DEF Stands, Knows, KnowsPlugin, KnowsNew, InTable
<1>. QED  BY <1>2, <1>3, <1>4, <1>5, <1>6, <1>7, <1>8 DEF Stands

(* Whatever only fills a store, writes it to disk or ends a flusher.       *)
Calmly ==
  /\ \A j \in Instances :
       /\ inst'[j].of = inst[j].of /\ inst'[j].enabled = inst[j].enabled
       /\ inst'[j].quit = inst[j].quit /\ (inst[j].shut => inst'[j].shut)
  /\ \A p \in PluginIds :
       /\ disk'[p].there = disk[p].there /\ disk'[p].source = disk[p].source
       /\ disk'[p].manifest = disk[p].manifest
  /\ UNCHANGED <<made, plugins, failed, hooks, life, left, promised, foreign, doubtful>>

LEMMA CalmKeeps ==
  ASSUME NEW r \in RequestStates, Stands(r), Calmly
  PROVE  /\ Unloaded' /\ Owned(r)' /\ Tabled(r)' /\ Piped(r)' /\ Restartable(r)'
         /\ r.at \notin {"idle", "done"} => KnowsPlugin(r)'
<1>. USE DEF Calmly
<1>. PluginTyped  BY DEF Stands
<1>1. 1..made \subseteq Instances /\ \A p \in PluginIds : plugins[p] # 0 => plugins[p] \in Instances
  BY PluginsAssumption DEF PluginTyped, Instances
<1>2. \A i \in Instances : InTable(i)' <=> InTable(i)  BY DEF InTable
<1>3. Unloaded'  BY <1>1 DEF Stands, Unloaded, PluginTyped
<1>4. Owned(r)'  BY <1>1, <1>2 DEF Stands, Owned
<1>5. Tabled(r)'  BY <1>1 DEF Stands, Tabled
<1>6. Piped(r)'
  <2>. hooks \subseteq 1..made /\ \A i \in 1..made : inst[i].of \in PluginIds
    BY DEF Stands, Piped, Instanced
  <2>. QED  BY <1>1, <1>2 DEF Stands, Piped
<1>7. Restartable(r)'  BY <1>1 DEF Stands, Restartable, Loads
<1>8. r.at \notin {"idle", "done"} => KnowsPlugin(r)'
  BY <1>1 DEF Stands, Knows, KnowsPlugin, PluginTyped
<1>. QED  BY <1>3, <1>4, <1>5, <1>6, <1>7, <1>8

LEMMA StoreSetKeeps ==
  ASSUME NEW r \in RequestStates, Stands(r), NEW f \in Flows, NEW i \in Instances, StoreSet(f, i)
  PROVE  Stands(r)'
<1>. PluginTyped  BY DEF Stands
<1>1. /\ flowAt[f].at = "listed" /\ i \in flowAt[f].calls
      /\ inst' = [inst EXCEPT ![i].store = @ \cup {f}]
      /\ flowAt' = [flowAt EXCEPT ![f].at = "set", ![f].in = i]
      /\ UNCHANGED <<made, plugins, failed, hooks, disk, request, life, left, promised, foreign, doubtful, unflushed>>
  BY DEF StoreSet
<1>2. inst \in [Instances -> InstStates] /\ inst[i] \in InstStates
  BY DEF PluginTyped
<1>3. /\ flowAt \in [Flows -> [at : {"idle", "listed", "set", "over"}, calls : SUBSET Instances, in : 0..MaxInstances]]
      /\ flowAt[f] \in [at : {"idle", "listed", "set", "over"}, calls : SUBSET Instances, in : 0..MaxInstances]
  BY DEF PluginTyped
<1>4. inst' \in [Instances -> InstStates]
  <2>1. PICK s : s = [inst[i] EXCEPT !.store = @ \cup {f}]  OBVIOUS
  <2>2. f \in Writes  BY DEF Writes
  <2>3. s \in InstStates  BY <1>2, <2>1, <2>2 DEF InstStates
  <2>4. inst' = [inst EXCEPT ![i] = s]  BY <1>1, <2>1
  <2>. QED  BY <1>2, <2>3, <2>4
<1>5. \A j \in Instances :
        /\ inst'[j].of = inst[j].of /\ inst'[j].enabled = inst[j].enabled
        /\ inst'[j].quit = inst[j].quit /\ inst'[j].shut = inst[j].shut
        /\ inst'[j].held = inst[j].held /\ inst'[j].flusher = inst[j].flusher
        /\ inst'[j].store = IF j = i THEN inst[j].store \cup {f} ELSE inst[j].store
        /\ j # i => inst'[j] = inst[j]
  <2>1. \A j \in Instances : j # i => inst'[j] = inst[j]  BY <1>1, <1>2
  <2>2. inst'[i] = [inst[i] EXCEPT !.store = @ \cup {f}]  BY <1>1, <1>2
  <2>3. /\ inst'[i].of = inst[i].of /\ inst'[i].enabled = inst[i].enabled
        /\ inst'[i].quit = inst[i].quit /\ inst'[i].shut = inst[i].shut
        /\ inst'[i].held = inst[i].held /\ inst'[i].flusher = inst[i].flusher
        /\ inst'[i].store = inst[i].store \cup {f}
    BY <1>2, <2>2 DEF InstStates
  <2>4. ASSUME NEW j \in Instances, j # i
        PROVE  /\ inst'[j] = inst[j]
               /\ inst'[j].store = IF j = i THEN inst[j].store \cup {f} ELSE inst[j].store
    BY <2>1, <2>4
  <2>. QED  BY <2>3, <2>4
<1>6. \A g \in Flows :
        /\ flowAt'[g].calls = flowAt[g].calls
        /\ flowAt'[g].at = IF g = f THEN "set" ELSE flowAt[g].at
        /\ flowAt'[g].in = IF g = f THEN i ELSE flowAt[g].in
  <2>1. \A g \in Flows : g # f => flowAt'[g] = flowAt[g]  BY <1>1, <1>3
  <2>2. flowAt'[f] = [flowAt[f] EXCEPT !.at = "set", !.in = i]  BY <1>1, <1>3
  <2>3. flowAt'[f].calls = flowAt[f].calls /\ flowAt'[f].at = "set" /\ flowAt'[f].in = i  BY <1>3, <2>2
  <2>4. ASSUME NEW g \in Flows, g # f
        PROVE  /\ flowAt'[g].calls = flowAt[g].calls
               /\ flowAt'[g].at = IF g = f THEN "set" ELSE flowAt[g].at
               /\ flowAt'[g].in = IF g = f THEN i ELSE flowAt[g].in
    BY <2>1, <2>4
  <2>. QED  BY <2>3, <2>4
<1>7. PluginTyped'
  <2>1. i \in 0..MaxInstances  BY PluginsAssumption DEF Instances
  <2>2. PICK c : c = [flowAt[f] EXCEPT !.at = "set", !.in = i]  OBVIOUS
  <2>3. c \in [at : {"idle", "listed", "set", "over"}, calls : SUBSET Instances, in : 0..MaxInstances]
    BY <1>3, <2>1, <2>2
  <2>4. flowAt' = [flowAt EXCEPT ![f] = c]  BY <1>1, <2>2
  <2>5. flowAt' \in [Flows -> [at : {"idle", "listed", "set", "over"}, calls : SUBSET Instances, in : 0..MaxInstances]]
    BY <1>3, <2>3, <2>4
  <2>. QED  BY <1>1, <1>4, <2>5, Zenon DEF PluginTyped
<1>8. i \in 1..made  BY <1>1 DEF Stands, Calling
<1>9. 1..made \subseteq Instances  BY PluginsAssumption DEF PluginTyped, Instances
<1>10. Calmly  BY <1>1, <1>5 DEF Calmly
<1>11. Instanced'  BY <1>1, <1>5, <1>8, <1>9 DEF Stands, Instanced, PluginTyped
<1>12. Promised'  BY <1>1, <1>5, <1>9 DEF Stands, Promised, PluginTyped, Tabled
<1>13. Clean'
  <2>. inst[i].shut \/ f \notin foreign[inst[i].of]  BY <1>1 DEF Stands, Clean
  <2>1. \A j \in 1..made : inst'[j].shut \/ inst'[j].store \cap foreign[inst'[j].of] = {}
    BY <1>1, <1>5, <1>9 DEF Stands, Clean
  <2>2. \A g \in Flows : \A j \in flowAt'[g].calls : inst'[j].shut \/ g \notin foreign[inst'[j].of]
    BY <1>1, <1>5, <1>6, <1>9 DEF Stands, Clean, Calling
  <2>. QED  BY <1>1, <2>1, <2>2 DEF Stands, Clean
<1>14. Calling'
  <2>. Calling  BY DEF Stands
  <2>1. \A g \in Flows : g # f =>
          flowAt'[g].at = flowAt[g].at /\ flowAt'[g].in = flowAt[g].in /\ flowAt'[g].calls = flowAt[g].calls
    BY <1>6
  <2>2. flowAt'[f].at = "set" /\ flowAt'[f].in = i /\ flowAt'[f].calls = flowAt[f].calls  BY <1>6
  <2>3. \A g \in Flows : g # f =>
          /\ flowAt'[g].at \in {"idle", "over"} => flowAt'[g].calls = {}
          /\ flowAt'[g].calls \subseteq 1..made
          /\ flowAt'[g].at = "set" => flowAt'[g].in \in flowAt'[g].calls
    BY <1>1, <2>1 DEF Calling
  <2>4. flowAt'[f].calls \subseteq 1..made  BY <1>1, <2>2 DEF Calling
  <2>. QED  BY <1>1, <2>2, <2>3, <2>4 DEF Calling
<1>15. Dated(r)'
  <2>. f \notin 0..MaxRequests  BY PluginsAssumption
  <2>1. \A w : w # f => (Used(w)' => Used(w))  BY <1>1, <1>5 DEF Used
  <2>2. \A g \in Flows : Used(g)' => flowAt'[g].at # "idle"
    <3>1. \A g \in Flows : Used(g) => flowAt[g].at # "idle"  BY DEF Stands, Dated
    <3>2. ASSUME NEW g \in Flows, Used(g)', g # f  PROVE flowAt'[g].at # "idle"
      <4>1. Used(g)  BY <2>1, <3>2
      <4>. QED  BY <1>6, <3>1, <3>2, <4>1
    <3>3. flowAt'[f].at = "set"  BY <1>6
    <3>. QED  BY <3>2, <3>3
  <2>3. \A n \in 0..MaxRequests : Used(n)' => Used(n)  BY <2>1
  <2>. QED  BY <1>1, <2>2, <2>3 DEF Stands, Dated
<1>16. Knows(r)'
  <2>1. r.at \notin {"idle", "done"} => KnowsPlugin(r)'  BY <1>10, CalmKeeps
  <2>2. (r.at \notin {"idle", "done"}) /\ KnowsNew(r) => KnowsNew(r)'
    BY <1>1, <1>5, <1>9 DEF KnowsNew, InTable
  <2>3. Knows(r)  BY DEF Stands
  <2>4. life' = life  BY <1>1
  <2>5. r.at \notin {"idle", "done"} => KnowsPlugin(r)' /\ KnowsNew(r)'
    BY <2>1, <2>2, <2>3 DEF Knows
  <2>. QED  BY <2>3, <2>4, <2>5 DEF Knows
<1>. QED  BY <1>7, <1>10, <1>11, <1>12, <1>13, <1>14, <1>15, <1>16, <1>1, CalmKeeps DEF Stands

LEMMA MarkDirtyKeeps ==
  ASSUME NEW r \in RequestStates, Stands(r), NEW f \in Flows, MarkDirty(f)
  PROVE  Stands(r)'
<1>. PluginTyped  BY DEF Stands
<1>1. PICK i : i = flowAt[f].in  OBVIOUS
<1>2. /\ flowAt[f].at = "set" /\ inst' = [inst EXCEPT ![i].dirty = TRUE]
      /\ flowAt' = [flowAt EXCEPT ![f].at = "listed", ![f].calls = @ \ {i}, ![f].in = 0]
      /\ UNCHANGED <<made, plugins, failed, hooks, disk, request, life, left, promised, foreign, doubtful, unflushed>>
  BY <1>1 DEF MarkDirty
<1>3. i \in 1..made  BY <1>1, <1>2 DEF Stands, Calling
<1>4. 1..made \subseteq Instances /\ 0 \in 0..MaxInstances  BY PluginsAssumption DEF PluginTyped, Instances
<1>5. inst' \in [Instances -> InstStates]
  <2>1. PICK s : s = [inst[i] EXCEPT !.dirty = TRUE]  OBVIOUS
  <2>2. inst \in [Instances -> InstStates] /\ inst[i] \in InstStates  BY <1>3, <1>4 DEF PluginTyped
  <2>3. s \in InstStates  BY <2>1, <2>2 DEF InstStates
  <2>4. inst' = [inst EXCEPT ![i] = s]  BY <1>2, <2>1
  <2>. QED  BY <2>2, <2>3, <2>4
<1>6. \A j \in Instances :
        /\ inst'[j].of = inst[j].of /\ inst'[j].enabled = inst[j].enabled
        /\ inst'[j].quit = inst[j].quit /\ inst'[j].shut = inst[j].shut
        /\ inst'[j].held = inst[j].held /\ inst'[j].flusher = inst[j].flusher
        /\ inst'[j].store = inst[j].store /\ (j # i => inst'[j] = inst[j])
  BY <1>2 DEF PluginTyped, InstStates
<1>7. \A g \in Flows :
        /\ g # f => flowAt'[g] = flowAt[g]
        /\ flowAt'[g].calls \subseteq flowAt[g].calls
        /\ flowAt'[g].at = IF g = f THEN "listed" ELSE flowAt[g].at
        /\ flowAt'[g].in = IF g = f THEN 0 ELSE flowAt[g].in
  BY <1>2 DEF PluginTyped
<1>8. PluginTyped'
  <2>1. PICK c : c = [flowAt[f] EXCEPT !.at = "listed", !.calls = @ \ {i}, !.in = 0]  OBVIOUS
  <2>2. c \in [at : {"idle", "listed", "set", "over"}, calls : SUBSET Instances, in : 0..MaxInstances]
    <3>. flowAt[f] \in [at : {"idle", "listed", "set", "over"}, calls : SUBSET Instances, in : 0..MaxInstances]
      BY DEF PluginTyped
    <3>. QED  BY <1>4, <2>1
  <2>3. flowAt' = [flowAt EXCEPT ![f] = c]  BY <1>2, <2>1
  <2>4. flowAt' \in [Flows -> [at : {"idle", "listed", "set", "over"}, calls : SUBSET Instances, in : 0..MaxInstances]]
    BY <2>2, <2>3 DEF PluginTyped
  <2>. QED  BY <1>2, <1>5, <2>4, Zenon DEF PluginTyped
<1>9. Calmly  BY <1>2, <1>6 DEF Calmly
<1>10. Instanced'  BY <1>2, <1>3, <1>4, <1>6 DEF Stands, Instanced, PluginTyped
<1>11. Promised'  BY <1>2, <1>4, <1>6 DEF Stands, Promised, PluginTyped, Tabled
<1>12. Clean'
  <2>1. \A j \in 1..made : inst'[j].shut \/ inst'[j].store \cap foreign[inst'[j].of] = {}
    BY <1>4, <1>6 DEF Stands, Clean
  <2>2. \A g \in Flows : \A j \in flowAt'[g].calls : inst'[j].shut \/ g \notin foreign[inst'[j].of]
    BY <1>4, <1>6, <1>7 DEF Stands, Clean, Calling
  <2>. QED  BY <1>2, <2>1, <2>2 DEF Stands, Clean
<1>13. Calling'
  <2>1. flowAt'[f].at = "listed"  BY <1>7
  <2>2. \A g \in Flows \ {f} : flowAt'[g] = flowAt[g]  BY <1>7
  <2>. QED  BY <1>2, <1>7, <2>1, <2>2 DEF Stands, Calling
<1>14. Dated(r)'
  <2>1. flowAt'[f].at = "listed"  BY <1>7
  <2>2. \A g \in Flows \ {f} : flowAt'[g] = flowAt[g]  BY <1>7
  <2>3. \A w : Used(w)' => Used(w)  BY <1>2, <1>6 DEF Used
  <2>4. \A g \in Flows : Used(g)' => flowAt'[g].at # "idle"  BY <2>1, <2>2, <2>3 DEF Stands, Dated
  <2>. QED  BY <1>2, <2>3, <2>4 DEF Stands, Dated
<1>15. Knows(r)'
  <2>. r.at \notin {"idle", "done"} => KnowsPlugin(r)'  BY <1>9, CalmKeeps
  <2>. (r.at \notin {"idle", "done"}) /\ KnowsNew(r) => KnowsNew(r)'
    BY <1>2, <1>4, <1>6 DEF KnowsNew, InTable
  <2>. QED  BY <1>2 DEF Stands, Knows
<1>. QED  BY <1>8, <1>9, <1>10, <1>11, <1>12, <1>13, <1>14, <1>15, CalmKeeps DEF Stands

(* A step of a flusher, or the end of Close: the store does not change, and *)
(* what is written to disk, if anything, is what is held or all of it.      *)
Puts(i, data) ==
  /\ disk' \in [PluginIds -> DirStates]
  /\ \A p \in PluginIds :
       /\ disk'[p].there = disk[p].there /\ disk'[p].source = disk[p].source
       /\ disk'[p].manifest = disk[p].manifest
       /\ disk'[p].state = IF p = inst[i].of /\ disk[p].there THEN data ELSE disk[p].state

FlusherMoves(i) ==
  /\ inst' \in [Instances -> InstStates] /\ ~inst[i].shut
  /\ \A j \in Instances :
       /\ inst'[j].of = inst[j].of /\ inst'[j].enabled = inst[j].enabled
       /\ inst'[j].quit = inst[j].quit /\ inst'[j].store = inst[j].store
       /\ j # i => inst'[j] = inst[j]
  /\ inst'[i].held \subseteq inst[i].store
  /\ inst'[i].shut => inst'[i].flusher = "ended"
  /\ inst'[i].flusher = "ended" => inst[i].quit
  /\ inst'[i].flusher = "writes" => inst'[i].held = inst[i].store
  /\ UNCHANGED <<made, plugins, failed, hooks, request, flowAt, life, left, promised, foreign, doubtful>>

LEMMA FlusherKeeps ==
  ASSUME NEW r \in RequestStates, Stands(r), NEW i \in 1..made, FlusherMoves(i), NEW data,
         \/ UNCHANGED <<disk, unflushed>> /\ ~inst'[i].shut
         \/ UNCHANGED disk /\ unflushed' = unflushed \cup {inst[i].of}
         \/ Puts(i, data) /\ data = inst[i].store /\ unflushed' = unflushed \ {inst[i].of}
         \/ Puts(i, data) /\ data = inst[i].held /\ inst[i].flusher = "writes" /\ ~inst'[i].shut
              /\ UNCHANGED unflushed
  PROVE  Stands(r)'
<1>. PluginTyped  BY DEF Stands
<1>1. 1..made \subseteq Instances /\ \A p \in PluginIds : plugins[p] # 0 => plugins[p] \in 1..made
  BY PluginsAssumption DEF Stands, Tabled, PluginTyped, Instances
<1>2. UNCHANGED <<made, plugins, failed, hooks, request, flowAt, life, left, promised, foreign, doubtful>>
  BY DEF FlusherMoves
<1>3. \A j \in Instances :
        /\ inst'[j].of = inst[j].of /\ inst'[j].enabled = inst[j].enabled
        /\ inst'[j].quit = inst[j].quit /\ inst'[j].store = inst[j].store
        /\ inst[j].shut => inst'[j].shut
  BY DEF FlusherMoves
<1>4. disk' \in [PluginIds -> DirStates]  BY DEF Puts, PluginTyped
<1>5. PluginTyped'
  <2>. unflushed' \in SUBSET PluginIds  BY DEF Stands, Instanced, PluginTyped
  <2>. QED  BY <1>2, <1>4 DEF FlusherMoves, PluginTyped
<1>6. Calmly  BY <1>2, <1>3 DEF Calmly, Puts
<1>7. PICK p \in PluginIds : p = inst[i].of  BY DEF Stands, Instanced
<1>8. /\ inst[i].held \subseteq inst[i].store /\ (data \subseteq inst[i].store \/ UNCHANGED disk)
      /\ \A o \in PluginIds :
           disk'[o].state = disk[o].state \/ (o = p /\ disk[p].there /\ disk'[p].state = data)
  BY <1>7 DEF Puts, Stands, Instanced
<1>9. Instanced'
  <2>1. ASSUME NEW j \in 1..made
        PROVE  /\ inst'[j].of \in PluginIds /\ inst'[j].held \subseteq inst'[j].store
               /\ inst'[j].shut => inst'[j].flusher = "ended"
               /\ inst'[j].flusher = "ended" => inst'[j].quit
    <3>1. CASE j = i  BY <1>1, <1>3, <3>1 DEF FlusherMoves, Stands, Instanced
    <3>2. CASE j # i  BY <1>1, <3>2 DEF FlusherMoves, Stands, Instanced
    <3>. QED  BY <3>1, <3>2
  <2>2. \A j \in Instances : j > made => inst'[j] = Unbuilt
    BY DEF FlusherMoves, Stands, Instanced, PluginTyped
  <2>. QED  BY <1>2, <2>1, <2>2 DEF Instanced
<1>10. Promised'
  <2>1. \A o \in PluginIds : plugins[o] # 0 => promised[o] \subseteq inst'[plugins[o]].store
    BY <1>1, <1>3 DEF Stands, Promised
  <2>2. ASSUME NEW o \in PluginIds, plugins[o] = 0 \/ inst'[plugins[o]].shut, o \notin unflushed'
        PROVE  promised[o] \subseteq disk'[o].state
    <3>. USE <2>2
    <3>1. CASE plugins[o] = i
      <4>1. inst'[i].shut  BY <3>1, <1>1
      <4>2. o = p  BY <1>1, <1>7, <3>1 DEF Stands, Tabled
      <4>3. Puts(i, data) /\ data = inst[i].store  BY <1>7, <4>1, <4>2
      <4>4. disk[o].there  BY <1>1, <3>1 DEF Stands, Tabled
      <4>5. disk'[o].state = data  BY <1>7, <4>2, <4>3, <4>4 DEF Puts
      <4>. QED  BY <1>1, <1>3, <2>1, <3>1, <4>3, <4>5
    <3>2. CASE plugins[o] # i
      <4>1. plugins[o] # 0 => inst[plugins[o]].shut  BY <1>1, <3>2 DEF FlusherMoves
      <4>2. o \notin unflushed => promised[o] \subseteq disk[o].state  BY <4>1 DEF Stands, Promised
      <4>3. CASE o \in unflushed \/ disk'[o].state # disk[o].state
        <5>1. /\ o = p /\ Puts(i, data)
              /\ data = inst[i].store \/ (data = inst[i].held /\ inst[i].flusher = "writes")
          BY <1>7, <1>8, <2>2, <4>3
        <5>2. ~InTable(i)  BY <1>7, <3>2, <5>1 DEF InTable
        <5>3. r.at \in Holding /\ r.new = i  BY <5>2 DEF Stands, Owned, FlusherMoves
        <5>4. r.at \notin {"idle", "done"}  BY <5>3 DEF Holding, Bringing
        <5>5. /\ KnowsNew(r) /\ KnowsPlugin(r) /\ r.id = p
              /\ r.at \in {"source", "enter"} => r.kind = "create"
              /\ r.at \in Changing \ {"build"} => r.kind \in {"save", "update"}
          BY <1>7, <5>3, <5>4 DEF Stands, Knows, KnowsNew
        <5>6. CASE r.at = "remove"  BY <5>1, <5>5, <5>6 DEF KnowsPlugin
        <5>7. CASE r.at # "remove"
          <6>1. promised[o] \subseteq data  BY <5>1, <5>3, <5>5, <5>7 DEF KnowsNew
          <6>2. disk[o].there
            <7>1. r.at = "enter" \/ r.at \in Changing \ {"build"}
              BY <5>3, <5>7 DEF Holding, Bringing, Changing
            <7>. QED  BY <5>1, <5>5, <7>1 DEF KnowsPlugin, Making
          <6>. QED  BY <1>7, <5>1, <6>1, <6>2 DEF Puts
        <5>. QED  BY <5>6, <5>7
      <4>. QED  BY <4>2, <4>3
    <3>. QED  BY <3>1, <3>2
  <2>. QED  BY <1>2, <2>1, <2>2 DEF Promised
<1>11. Clean'
  <2>1. \A o \in PluginIds : disk'[o].state \cap foreign[o] = {}
    <3>1. inst[i].store \cap foreign[p] = {}  BY <1>7 DEF Stands, Clean, FlusherMoves
    <3>. QED  BY <1>8, <3>1 DEF Stands, Clean
  <2>2. \A j \in 1..made : inst'[j].shut \/ inst'[j].store \cap foreign[inst'[j].of] = {}
    BY <1>1, <1>3 DEF Stands, Clean
  <2>3. \A g \in Flows : \A j \in flowAt[g].calls : inst'[j].shut \/ g \notin foreign[inst'[j].of]
    BY <1>1, <1>3 DEF Stands, Clean, Calling
  <2>4. \A o \in PluginIds : promised[o] \cap foreign[o] = {}  BY DEF Stands, Clean
  <2>. QED  BY <1>2, <2>1, <2>2, <2>3, <2>4 DEF Clean
<1>12. Calling'  BY <1>2 DEF Stands, Calling
<1>13. Dated(r)'
  <2>1. \A w : Used(w)' => Used(w)  BY <1>1, <1>2, <1>3, <1>8 DEF Used
  <2>. QED  BY <1>2, <2>1 DEF Stands, Dated
<1>14. Knows(r)'
  <2>. r.at \notin {"idle", "done"} => KnowsPlugin(r)'  BY <1>6, CalmKeeps
  <2>. ASSUME r.at \notin {"idle", "done"}, KnowsNew(r), r.at \in Holding
       PROVE  KnowsNew(r)'
    <3>1. r.new \in Instances  BY <1>1 DEF KnowsNew
    <3>2. r.at # "remove" /\ inst'[r.new].flusher = "writes" => promised[r.id] \subseteq inst'[r.new].held
      BY <1>1, <1>3, <3>1 DEF KnowsNew, FlusherMoves
    <3>. QED  BY <1>2, <1>3, <3>1, <3>2 DEF KnowsNew, InTable
  <2>. r.at \notin Holding => KnowsNew(r)'  BY DEF KnowsNew
  <2>. QED  BY <1>2 DEF Stands, Knows
<1>. QED  BY <1>5, <1>6, <1>9, <1>10, <1>11, <1>12, <1>13, <1>14, CalmKeeps DEF Stands

LEMMA FlushersKeep ==
  ASSUME NEW r \in RequestStates, Stands(r), NEW i \in Instances,
         FlushMarshals(i) \/ FlushWrites(i) \/ FlusherQuits(i) \/ FinalFlush(i)
  PROVE  Stands(r)'
<1>. PluginTyped  BY DEF Stands
<1>1. i \in 1..made /\ ~inst[i].shut
  <2>1. i > made => inst[i] = Unbuilt  BY DEF Stands, Instanced
  <2>2. inst[i].flusher # "ended" \/ ~inst[i].shut
    BY DEF FlushMarshals, FlushWrites, FlusherQuits, FinalFlush
  <2>3. i \in 1..made  BY <2>1, <2>2 DEF Unbuilt, PluginTyped, Instances
  <2>. QED  BY <2>2, <2>3 DEF Stands, Instanced
<1>2. inst[i].held \subseteq inst[i].store /\ inst[i].of \in PluginIds
  BY <1>1 DEF Stands, Instanced
<1>3. inst[i] \in InstStates  BY DEF PluginTyped
<1>8. inst \in [Instances -> InstStates]  BY DEF PluginTyped
<1>4. CASE FlushMarshals(i)
  <2>. USE <1>4
  <2>1. PICK s : s = IF Marshals(inst[i].store)
                     THEN [inst[i] EXCEPT !.flusher = "writes", !.held = inst[i].store, !.dirty = FALSE]
                     ELSE [inst[i] EXCEPT !.dirty = FALSE]
    OBVIOUS
  <2>2. s \in InstStates  BY <1>3, <2>1 DEF InstStates
  <2>3. inst' = [inst EXCEPT ![i] = s]  BY <2>1 DEF FlushMarshals
  <2>4. /\ s.of = inst[i].of /\ s.enabled = inst[i].enabled /\ s.quit = inst[i].quit
        /\ s.store = inst[i].store /\ ~s.shut /\ s.held \subseteq inst[i].store
        /\ s.flusher # "ended" /\ (s.flusher = "writes" => s.held = inst[i].store)
    <3>1. CASE Marshals(inst[i].store)  BY <1>1, <1>3, <2>1, <3>1 DEF InstStates
    <3>2. CASE ~Marshals(inst[i].store)  BY <1>1, <1>2, <1>3, <2>1, <3>2 DEF FlushMarshals, InstStates
    <3>. QED  BY <3>1, <3>2
  <2>6. inst'[i] = s /\ inst' \in [Instances -> InstStates] /\ \A j \in Instances : j # i => inst'[j] = inst[j]
    BY ONLY <1>8, <2>2, <2>3, i \in Instances
  <2>7. FlusherMoves(i)  BY <1>1, <2>4, <2>6 DEF FlusherMoves, FlushMarshals
  <2>5. UNCHANGED <<disk, unflushed>> /\ ~inst'[i].shut  BY <2>4, <2>6 DEF FlushMarshals
  <2>. QED  BY <1>1, <2>5, <2>7, FlusherKeeps
<1>5. CASE FlushWrites(i)
  <2>. USE <1>5
  <2>1. PICK s : s = [inst[i] EXCEPT !.flusher = "waits", !.held = {}]  OBVIOUS
  <2>2. s \in InstStates  BY <1>3, <2>1 DEF InstStates
  <2>3. inst' = [inst EXCEPT ![i] = s]  BY <2>1 DEF FlushWrites
  <2>4. FlusherMoves(i)  BY <1>1, <1>3, <2>1, <2>2, <2>3 DEF FlusherMoves, FlushWrites, PluginTyped, InstStates
  <2>5. ~inst'[i].shut  BY <1>1, <1>3, <2>1, <2>3 DEF PluginTyped, InstStates
  <2>6. CASE UNCHANGED disk  BY <1>1, <2>4, <2>5, <2>6, FlusherKeeps DEF FlushWrites
  <2>7. CASE Saved(inst[i].of, inst[i].held)
    <3>1. disk' = IF disk[inst[i].of].there THEN [disk EXCEPT ![inst[i].of].state = inst[i].held] ELSE disk
      BY <2>7 DEF Saved
    <3>2. inst[i].held \in SUBSET Writes  BY <1>3 DEF InstStates
    <3>3. disk \in [PluginIds -> DirStates] /\ inst[i].of \in PluginIds
      BY ONLY PluginTyped, <1>2 DEF PluginTyped
    <3>4. PICK d : d = [disk[inst[i].of] EXCEPT !.state = inst[i].held]  OBVIOUS
    <3>5. /\ d \in DirStates /\ d.state = inst[i].held /\ d.there = disk[inst[i].of].there
          /\ d.source = disk[inst[i].of].source /\ d.manifest = disk[inst[i].of].manifest
      BY ONLY <3>2, <3>3, <3>4 DEF DirStates
    <3>6. disk' = IF disk[inst[i].of].there THEN [disk EXCEPT ![inst[i].of] = d] ELSE disk
      BY ONLY <3>1, <3>4
    <3>7. Puts(i, inst[i].held)  BY ONLY <3>3, <3>5, <3>6 DEF Puts
    <3>. QED  BY <1>1, <2>4, <2>5, <3>7, FlusherKeeps DEF FlushWrites
  <2>. QED  BY <2>6, <2>7 DEF FlushWrites
<1>6. CASE FlusherQuits(i)
  <2>. USE <1>6
  <2>1. PICK s : s = [inst[i] EXCEPT !.flusher = "ended"]  OBVIOUS
  <2>2. s \in InstStates  BY <1>3, <2>1 DEF InstStates
  <2>3. inst' = [inst EXCEPT ![i] = s]  BY <2>1 DEF FlusherQuits
  <2>6. /\ s.of = inst[i].of /\ s.enabled = inst[i].enabled /\ s.quit = inst[i].quit /\ s.quit
        /\ s.store = inst[i].store /\ ~s.shut /\ s.held \subseteq inst[i].store /\ s.flusher = "ended"
    BY <1>1, <1>2, <1>3, <2>1 DEF FlusherQuits, InstStates
  <2>7. inst'[i] = s /\ inst' \in [Instances -> InstStates] /\ \A k \in Instances : k # i => inst'[k] = inst[k]
    BY ONLY <1>8, <2>2, <2>3, i \in Instances
  <2>4. FlusherMoves(i)  BY <1>1, <2>6, <2>7 DEF FlusherMoves, FlusherQuits
  <2>5. UNCHANGED <<disk, unflushed>> /\ ~inst'[i].shut
    BY <1>1, <1>3, <2>1, <2>3 DEF FlusherQuits, PluginTyped, InstStates
  <2>. QED  BY <1>1, <2>4, <2>5, FlusherKeeps
<1>7. CASE FinalFlush(i)
  <2>. USE <1>7
  <2>1. PICK s : s = [inst[i] EXCEPT !.shut = TRUE]  OBVIOUS
  <2>2. s \in InstStates  BY <1>3, <2>1 DEF InstStates
  <2>3. inst' = [inst EXCEPT ![i] = s]  BY <2>1 DEF FinalFlush
  <2>4. FlusherMoves(i)
    BY <1>1, <1>2, <1>3, <2>1, <2>2, <2>3 DEF FlusherMoves, FinalFlush, FlusherDone, PluginTyped, InstStates
  <2>5. CASE UNCHANGED disk /\ unflushed' = unflushed \cup {inst[i].of}
    BY <1>1, <2>4, <2>5, FlusherKeeps
  <2>6. CASE Saved(inst[i].of, inst[i].store) /\ unflushed' = unflushed \ {inst[i].of}
    <3>1. Puts(i, inst[i].store)  BY <1>2, <1>3, <2>6 DEF Puts, Saved, PluginTyped, DirStates, InstStates
    <3>. QED  BY <1>1, <2>4, <2>6, <3>1, FlusherKeeps
  <2>. QED  BY <2>5, <2>6 DEF FinalFlush
<1>. QED  BY <1>4, <1>5, <1>6, <1>7

-----------------------------------------------------------------------------
(* The program stops.                                                      *)

LEMMA LoadedIs ==
  ASSUME NEW r, Stands(r)
  PROVE  /\ Loaded \subseteq 1..made
         /\ \A i \in 1..made : i \in Loaded <=> InTable(i)
<1>1. \A p \in PluginIds : plugins[p] # 0 => plugins[p] \in 1..made /\ inst[plugins[p]].of = p
  BY PluginsAssumption DEF Stands, Tabled, PluginTyped
<1>2. \A i \in 1..made : inst[i].of \in PluginIds  BY DEF Stands, Instanced
<1>. QED  BY <1>1, <1>2 DEF Loaded, InTable

(* An instance is told to close.                                           *)
Quits(i) ==
  /\ inst' \in [Instances -> InstStates]
  /\ \A j \in Instances :
       /\ inst'[j].of = inst[j].of /\ inst'[j].enabled = inst[j].enabled
       /\ inst'[j].store = inst[j].store /\ inst'[j].held = inst[j].held
       /\ inst'[j].flusher = inst[j].flusher /\ inst'[j].shut = inst[j].shut
       /\ j # i => inst'[j] = inst[j]
  /\ inst'[i].quit

LEMMA QuitFields ==
  ASSUME PluginTyped, NEW i \in Instances, inst' = [inst EXCEPT ![i].quit = TRUE]
  PROVE  Quits(i)
<1>1. PICK s : s = [inst[i] EXCEPT !.quit = TRUE]  OBVIOUS
<1>7. inst \in [Instances -> InstStates]  BY DEF PluginTyped
<1>. inst[i] \in InstStates  BY <1>7
<1>2. s \in InstStates  BY <1>1 DEF InstStates
<1>3. inst' = [inst EXCEPT ![i] = s]  BY <1>1
<1>4. inst' \in [Instances -> InstStates] /\ inst'[i] = s /\ \A j \in Instances : j # i => inst'[j] = inst[j]
  BY ONLY <1>2, <1>3, <1>7, i \in Instances
<1>5. /\ s.of = inst[i].of /\ s.enabled = inst[i].enabled /\ s.store = inst[i].store
      /\ s.held = inst[i].held /\ s.flusher = inst[i].flusher /\ s.shut = inst[i].shut /\ s.quit
  BY <1>1 DEF InstStates
<1>6. ASSUME NEW j \in Instances
      PROVE  /\ inst'[j].of = inst[j].of /\ inst'[j].enabled = inst[j].enabled
             /\ inst'[j].store = inst[j].store /\ inst'[j].held = inst[j].held
             /\ inst'[j].flusher = inst[j].flusher /\ inst'[j].shut = inst[j].shut
  <2>1. CASE j = i  BY <1>4, <1>5, <2>1
  <2>2. CASE j # i
    <3>1. inst'[j] = inst[j]  BY <1>4, <2>2
    <3>. QED  BY <3>1
  <2>. QED  BY <2>1, <2>2
<1>. QED  BY <1>4, <1>5, <1>6 DEF Quits

LEMMA QuitKeeps ==
  ASSUME NEW r, Stands(r), NEW i \in 1..made, Quits(i),
         UNCHANGED <<made, plugins, failed, hooks, disk, flowAt, left, promised, foreign, unflushed>>
  PROVE  Instanced' /\ Unloaded' /\ Promised' /\ Clean' /\ Calling' /\ Dated(r)'
<1>. PluginTyped  BY DEF Stands
<1>1. 1..made \subseteq Instances /\ \A p \in PluginIds : plugins[p] # 0 => plugins[p] \in 1..made
  BY PluginsAssumption DEF Stands, Tabled, PluginTyped, Instances
<1>2. Instanced'
  <2>1. \A j \in 1..made : inst[j].quit => inst'[j].quit  BY <1>1 DEF Quits
  <2>2. \A j \in Instances : j > made => inst'[j] = Unbuilt
    BY DEF Quits, Stands, Instanced, PluginTyped
  <2>. QED  BY <1>1, <2>1, <2>2 DEF Quits, Stands, Instanced
<1>3. Unloaded' /\ Promised'  BY <1>1 DEF Quits, Stands, Unloaded, Promised, PluginTyped
<1>4. Clean'
  <2>1. \A j \in 1..made : inst'[j].shut \/ inst'[j].store \cap foreign[inst'[j].of] = {}
    BY <1>1 DEF Quits, Stands, Clean
  <2>2. \A g \in Flows : \A j \in flowAt[g].calls : inst'[j].shut \/ g \notin foreign[inst'[j].of]
    BY <1>1 DEF Quits, Stands, Clean, Calling
  <2>. QED  BY <2>1, <2>2 DEF Stands, Clean
<1>5. Calling'  BY DEF Stands, Calling
<1>6. Dated(r)'
  <2>1. \A w : Used(w)' => Used(w)  BY DEF Used, Quits
  <2>. QED  BY <2>1 DEF Stands, Dated
<1>. QED  BY <1>2, <1>3, <1>4, <1>5, <1>6

LEMMA CloseOneKeeps ==
  ASSUME NEW r \in RequestStates, Stands(r), NEW i \in Instances, CloseOne(i)
  PROVE  Stands(r)'
<1>. USE DEF CloseOne
<1>. PluginTyped  BY DEF Stands
<1>1. i \in 1..made /\ InTable(i)  BY LoadedIs
<1>2. Quits(i)  BY QuitFields
<1>3. 1..made \subseteq Instances /\ \A p \in PluginIds : plugins[p] # 0 => plugins[p] \in 1..made
  BY PluginsAssumption DEF Stands, Tabled, PluginTyped, Instances
<1>4. \A j \in Instances : inst[j].quit => inst'[j].quit  BY <1>2 DEF Quits
<1>5. \A j \in Instances : InTable(j)' <=> InTable(j)  BY <1>2 DEF InTable, Quits
<1>6. PluginTyped'  BY <1>2 DEF PluginTyped, Quits
<1>7. Instanced' /\ Unloaded' /\ Promised' /\ Clean' /\ Calling' /\ Dated(r)'  BY <1>1, <1>2, QuitKeeps
<1>8. Owned(r)'  BY <1>2, <1>3, <1>4, <1>5 DEF Quits, Stands, Owned
<1>9. Tabled(r)'  BY <1>2, <1>3 DEF Quits, Stands, Tabled
<1>10. Piped(r)' /\ Restartable(r)'  BY <1>5 DEF Stands, Piped, Restartable, PluginTyped
<1>11. Knows(r)'
  <2>1. KnowsPlugin(r) => KnowsPlugin(r)'
    BY <1>2, <1>3 DEF Quits, Stands, Knows, KnowsPlugin, PluginTyped
  <2>2. KnowsNew(r) => KnowsNew(r)'
    <3>1. CASE r.at \in Holding
      <4>1. KnowsNew(r) /\ r.at \in Bringing => r.new # i  BY <1>1, <3>1 DEF KnowsNew
      <4>. QED  BY <1>2, <1>3, <1>4, <1>5, <4>1 DEF Quits, KnowsNew
    <3>2. CASE r.at \notin Holding  BY <3>2 DEF KnowsNew
    <3>. QED  BY <3>1, <3>2
  <2>. QED  BY <2>1, <2>2 DEF Stands, Knows
<1>. QED  BY <1>6, <1>7, <1>8, <1>9, <1>10, <1>11 DEF Stands

LEMMA CloseBeginsKeeps ==
  ASSUME NEW r \in RequestStates, AtHand(r), Stands(r), CloseBegins
  PROVE  Stands(r)'
<1>. USE DEF CloseBegins
<1>1. r.at \notin {"closing", "register"}  BY DEF AtHand, HoldsMu, NoRequest
<1>2. PluginTyped'  BY DEF Stands, PluginTyped
<1>3. Instanced' /\ Unloaded' /\ Promised' /\ Clean' /\ Calling'
  BY DEF Stands, Instanced, Unloaded, Promised, Clean, Calling
<1>4. Owned(r)' /\ Tabled(r)' /\ Piped(r)' /\ Restartable(r)'
  BY <1>1 DEF Stands, Owned, Tabled, InTable, Piped, Restartable
<1>5. Dated(r)'  BY DEF Stands, Dated, Used
<1>6. Knows(r)'
  <2>1. KnowsPlugin(r) => KnowsPlugin(r)'  BY DEF KnowsPlugin
  <2>2. KnowsNew(r) => KnowsNew(r)'  BY DEF KnowsNew, InTable
  <2>. QED  BY <1>1, <2>1, <2>2 DEF Stands, Knows
<1>. QED  BY <1>2, <1>3, <1>4, <1>5, <1>6 DEF Stands

LEMMA CloseEndsKeeps ==
  ASSUME NEW r \in RequestStates, Stands(r), CloseEnds
  PROVE  Stands(r)'
<1>. USE DEF CloseEnds
<1>. PluginTyped  BY DEF Stands
<1>1. \A p \in PluginIds : plugins'[p] = 0  OBVIOUS
<1>2. PluginTyped'
  <2>. 0 \in 0..MaxInstances  BY PluginsAssumption
  <2>. QED  BY DEF PluginTyped
<1>3. Instanced' /\ Unloaded' /\ Clean' /\ Calling'
  BY DEF Stands, Instanced, Unloaded, Clean, Calling
<1>4. \A i \in 1..made : InTable(i) => inst[i].shut /\ inst[i].quit
  BY LoadedIs DEF Stands, Instanced
<1>5. Promised'
  <2>1. \A p \in PluginIds : plugins[p] # 0 => inst[plugins[p]].shut  BY DEF Loaded
  <2>. QED  BY <1>1, <2>1 DEF Stands, Promised
<1>6. Owned(r)'  BY <1>4 DEF Stands, Owned
<1>7. Tabled(r)'  BY <1>1 DEF Tabled
<1>8. Restartable(r)'  BY DEF Restartable
<1>9. Dated(r)'  BY DEF Stands, Dated, Used
<1>10. Knows(r)'
  <2>1. r.at \notin {"idle", "done"} /\ KnowsPlugin(r) => KnowsPlugin(r)'  BY <1>1 DEF Stands, Knows, KnowsPlugin
  <2>2. KnowsNew(r) => KnowsNew(r)'
    <3>1. \A i \in 1..made : inst[i].of \in PluginIds  BY DEF Stands, Instanced
    <3>2. \A i \in 1..made : ~InTable(i)'  BY <1>1, <3>1 DEF InTable
    <3>. QED  BY <3>2 DEF KnowsNew
  <2>. QED  BY <2>1, <2>2 DEF Stands, Knows
<1>11. Piped(r)'  BY DEF Stands, Piped, Knows
<1>. QED  BY <1>2, <1>3, <1>5, <1>6, <1>7, <1>8, <1>9, <1>10, <1>11 DEF Stands

-----------------------------------------------------------------------------
(* The program starts.                                                     *)

(* The instances of LoadAll are numbered from 1 on.                        *)
Dealt(number) == {number[p] : p \in PluginIds} \ {0}

LEMMA Numbered ==
  ASSUME NEW dirs \in [PluginIds -> DirStates], NEW number \in Numberings(dirs)
  PROVE  /\ number \in [PluginIds -> 0..MaxInstances]
         /\ Dealt(number) = 1..Cardinality(Dealt(number))
         /\ Cardinality(Dealt(number)) \in 0..MaxInstances
         /\ \A p \in PluginIds : number[p] # 0 <=> Loads(dirs[p])
         /\ \A p, r \in PluginIds : number[p] = number[r] /\ number[p] # 0 => p = r
<1>. PICK used : used = Dealt(number)  OBVIOUS
<1>1. PICK up : up = {p \in PluginIds : Loads(dirs[p])}  OBVIOUS
<1>2. PICK n : n = Cardinality(up)  OBVIOUS
<1>3. /\ number \in [PluginIds -> 0..n]
      /\ \A p \in PluginIds : number[p] # 0 <=> p \in up
      /\ \A p, r \in up : number[p] = number[r] => p = r
  BY <1>1, <1>2 DEF Numberings
<1>4. IsFiniteSet(up) /\ n \in Nat /\ n <= MaxInstances
  <2>1. IsFiniteSet(up) /\ Cardinality(up) <= Cardinality(PluginIds)
    BY <1>1, PluginsAssumption, FS_Subset, up \in SUBSET PluginIds
  <2>2. Cardinality(up) \in Nat /\ Cardinality(PluginIds) \in Nat
    BY <2>1, PluginsAssumption, FS_CardinalityType
  <2>. QED  BY <1>2, <2>1, <2>2, PluginsAssumption
<1>9. IsFiniteSet(1..n) /\ Cardinality(1..n) = n
  <2>1. IsFiniteSet(1..n) /\ Cardinality(1..n) = IF 1 > n THEN 0 ELSE n - 1 + 1
    BY <1>4, FS_Interval
  <2>2. n = 0 \/ n >= 1  BY <1>4
  <2>. QED  BY <1>4, <2>1, <2>2
<1>5. used = 1..n
  <2>1. PICK f : f = [p \in up |-> number[p]]  OBVIOUS
  <2>2. f \in Injection(up, 1..n)
    <3>1. \A p \in up : number[p] \in 1..n  BY <1>1, <1>3, <1>4
    <3>. QED  BY <1>3, <2>1, <3>1 DEF Injection, IsInjective
  <2>3. f \in Surjection(up, 1..n)  BY <1>2, <1>9, <2>2, FS_Injection
  <2>4. \A i \in 1..n : \E p \in up : number[p] = i  BY <2>1, <2>3 DEF Surjection
  <2>5. \A p \in PluginIds : number[p] # 0 => number[p] \in 1..n  BY <1>3, <1>4
  <2>. QED  BY <1>1, <1>3, <1>4, <2>4, <2>5 DEF Dealt
<1>6. Cardinality(used) = n  BY <1>5, <1>9
<1>7. number \in [PluginIds -> 0..MaxInstances]
  <2>1. \A p \in PluginIds : number[p] \in 0..MaxInstances  BY <1>3, <1>4, PluginsAssumption
  <2>. QED  BY <1>3, <2>1
<1>8. used = 1..Cardinality(used) /\ Cardinality(used) \in 0..MaxInstances
  <2>1. n \in 0..MaxInstances  BY <1>4, PluginsAssumption
  <2>. QED  BY <1>5, <1>6, <2>1
<1>10. \A p \in PluginIds : number[p] # 0 <=> Loads(dirs[p])  BY <1>1, <1>3
<1>11. \A p, r \in PluginIds : number[p] = number[r] /\ number[p] # 0 => p = r  BY <1>3
<1>. QED  BY <1>7, <1>8, <1>10, <1>11

LEMMA LoadedInstances ==
  ASSUME NEW dirs \in [PluginIds -> DirStates], NEW number \in Numberings(dirs)
  PROVE  /\ LoadedFrom(dirs, number) \in [Instances -> InstStates]
         /\ \A p \in PluginIds : number[p] # 0 =>
              LoadedFrom(dirs, number)[number[p]] = Fresh(p, dirs[p].manifest = "on", dirs[p].state, {})
         /\ \A i \in Instances : (\A p \in PluginIds : number[p] # i) =>
              LoadedFrom(dirs, number)[i] = Unbuilt
<1>1. /\ number \in [PluginIds -> 0..MaxInstances]
      /\ \A p, r \in PluginIds : number[p] = number[r] /\ number[p] # 0 => p = r
  BY Numbered
<1>2. \A p \in PluginIds : Fresh(p, dirs[p].manifest = "on", dirs[p].state, {}) \in InstStates
  BY DEF Fresh, InstStates, DirStates
<1>3. Unbuilt \in InstStates  BY DEF Unbuilt, InstStates
<1>4. ASSUME NEW p \in PluginIds, number[p] # 0
      PROVE  /\ number[p] \in Instances
             /\ LoadedFrom(dirs, number)[number[p]] = Fresh(p, dirs[p].manifest = "on", dirs[p].state, {})
  <2>1. number[p] \in Instances  BY <1>1, <1>4, PluginsAssumption DEF Instances
  <2>2. p = CHOOSE x \in PluginIds : number[x] = number[p]  BY <1>1, <1>4
  <2>. QED  BY <2>1, <2>2 DEF LoadedFrom
<1>5. ASSUME NEW i \in Instances, \A p \in PluginIds : number[p] # i
      PROVE  LoadedFrom(dirs, number)[i] = Unbuilt
  BY <1>5 DEF LoadedFrom
<1>6. \A i \in Instances : LoadedFrom(dirs, number)[i] \in InstStates
  <2>. TAKE i \in Instances
  <2>1. i # 0  BY DEF Instances
  <2>. QED  BY <1>2, <1>3, <1>4, <1>5, <2>1
<1>7. LoadedFrom(dirs, number) \in [Instances -> InstStates]
  <2>1. LoadedFrom(dirs, number) = [i \in Instances |-> LoadedFrom(dirs, number)[i]]  BY DEF LoadedFrom
  <2>. QED  BY <1>6, <2>1
<1>. QED  BY <1>4, <1>5, <1>7

(* What the program finds when it starts.                                  *)
Boot ==
  /\ disk \in [PluginIds -> DirStates] /\ foreign \in [PluginIds -> SUBSET Writes]
  /\ plugins \in Numberings(disk) /\ inst = LoadedFrom(disk, plugins)
  /\ hooks = {plugins[p] : p \in PluginIds} \ {0} /\ made = Cardinality(hooks)
  /\ \A p \in failed : p \in PluginIds /\ disk[p].there /\ ~Loads(disk[p]) /\ promised[p] = {}
  /\ flowAt \in [Flows -> [at : {"idle", "over"}, calls : {{}}, in : 0..MaxInstances]]
  /\ life = "runs" /\ left \in [requests : 0..MaxRequests, stops : Nat]
  /\ promised \in [PluginIds -> SUBSET Writes] /\ doubtful = {} /\ unflushed = {}
  /\ \A p \in PluginIds : promised[p] \subseteq disk[p].state /\ disk[p].state \cap foreign[p] = {}
  /\ \A p \in PluginIds, f \in Flows : f \in disk[p].state \/ f \in foreign[p] => flowAt[f].at = "over"
  /\ \A p \in PluginIds, n \in 0..MaxRequests :
       n \in disk[p].state \/ n \in foreign[p] => n >= left.requests

LEMMA BootStands == Boot => Stands(NoRequest)
<1>. SUFFICES ASSUME Boot PROVE Stands(NoRequest)  OBVIOUS
<1>1. /\ plugins \in [PluginIds -> 0..MaxInstances]
      /\ hooks = 1..made /\ made \in 0..MaxInstances
      /\ \A p \in PluginIds : plugins[p] # 0 <=> Loads(disk[p])
      /\ \A p, q \in PluginIds : plugins[p] = plugins[q] /\ plugins[p] # 0 => p = q
  <2>1. /\ disk \in [PluginIds -> DirStates] /\ plugins \in Numberings(disk)
        /\ hooks = Dealt(plugins) /\ made = Cardinality(hooks)
    BY DEF Boot, Dealt
  <2>2. /\ plugins \in [PluginIds -> 0..MaxInstances]
        /\ hooks = 1..Cardinality(hooks) /\ Cardinality(hooks) \in 0..MaxInstances
        /\ \A p \in PluginIds : plugins[p] # 0 <=> Loads(disk[p])
        /\ \A p, q \in PluginIds : plugins[p] = plugins[q] /\ plugins[p] # 0 => p = q
    BY <2>1, Numbered
  <2>. QED  BY <2>1, <2>2
<1>2. /\ inst \in [Instances -> InstStates]
      /\ \A p \in PluginIds : plugins[p] # 0 =>
           inst[plugins[p]] = Fresh(p, disk[p].manifest = "on", disk[p].state, {})
      /\ \A i \in Instances : (\A p \in PluginIds : plugins[p] # i) => inst[i] = Unbuilt
  BY LoadedInstances DEF Boot
<1>3. \A i \in 1..made : \E p \in PluginIds : plugins[p] = i
  BY <1>1 DEF Boot
<1>4. 1..made \subseteq Instances  BY <1>1, PluginsAssumption DEF Instances
<1>5. \A p \in PluginIds : plugins[p] # 0 => plugins[p] \in 1..made  BY <1>1 DEF Boot
<1>6. \A i \in 1..made :
        /\ inst[i].of \in PluginIds /\ plugins[inst[i].of] = i
        /\ inst[i] = Fresh(inst[i].of, disk[inst[i].of].manifest = "on", disk[inst[i].of].state, {})
  <2>. TAKE i \in 1..made
  <2>1. PICK p \in PluginIds : plugins[p] = i  BY <1>3
  <2>2. i # 0  BY <1>1
  <2>3. inst[i] = Fresh(p, disk[p].manifest = "on", disk[p].state, {})  BY <1>2, <2>1, <2>2
  <2>4. inst[i].of = p  BY <2>3 DEF Fresh
  <2>. QED  BY <2>1, <2>3, <2>4
<1>7. \A i \in 1..made :
        /\ inst[i].of \in PluginIds /\ plugins[inst[i].of] = i
        /\ inst[i].enabled = (disk[inst[i].of].manifest = "on") /\ inst[i].store = disk[inst[i].of].state
        /\ ~inst[i].quit /\ inst[i].flusher = "waits" /\ inst[i].held = {} /\ ~inst[i].shut
  <2>. TAKE i \in 1..made
  <2>1. PICK p : p = inst[i].of  OBVIOUS
  <2>2. p \in PluginIds /\ plugins[p] = i  BY <1>6, <2>1
  <2>3. inst[i] = Fresh(p, disk[p].manifest = "on", disk[p].state, {})  BY <1>6, <2>1
  <2>4. /\ inst[i].enabled = (disk[p].manifest = "on") /\ inst[i].store = disk[p].state
        /\ ~inst[i].quit /\ inst[i].flusher = "waits" /\ inst[i].held = {} /\ ~inst[i].shut
    BY <2>3 DEF Fresh
  <2>. QED  BY <2>1, <2>2, <2>4
<1>8. PluginTyped  BY <1>1, <1>2, <1>4 DEF Boot, PluginTyped
<1>9. Instanced
  <2>1. \A i \in Instances : i > made => \A p \in PluginIds : plugins[p] # i
    BY <1>1, <1>5 DEF Instances
  <2>2. \A i \in Instances : i > made => inst[i] = Unbuilt  BY <1>2, <2>1
  <2>3. \A i \in 1..made :
          /\ inst[i].of \in PluginIds /\ inst[i].held \subseteq inst[i].store
          /\ inst[i].shut => inst[i].flusher = "ended"
          /\ inst[i].flusher = "ended" => inst[i].quit
    <3>. TAKE i \in 1..made
    <3>1. inst[i].of \in PluginIds /\ inst[i].held \subseteq inst[i].store  BY <1>7
    <3>. QED  BY <1>7, <3>1
  <2>. QED  BY <2>2, <2>3 DEF Instanced
<1>10. Unloaded
  <2>1. \A p \in failed : p \in PluginIds /\ disk[p].there /\ promised[p] = {} /\ plugins[p] = 0
    BY <1>1 DEF Boot
  <2>2. ASSUME NEW p \in failed, NEW i \in 1..made PROVE inst[i].of # p
    <3>1. plugins[p] # i  BY <1>1, <2>1
    <3>. QED  BY <1>7, <3>1
  <2>. QED  BY <2>1, <2>2 DEF Unloaded
<1>11. Promised
  <2>1. \A p \in PluginIds : plugins[p] # 0 => inst[plugins[p]].store = disk[p].state /\ ~inst[plugins[p]].shut
    <3>1. ASSUME NEW p \in PluginIds, plugins[p] # 0
          PROVE  inst[plugins[p]].store = disk[p].state /\ ~inst[plugins[p]].shut
      <4>1. inst[plugins[p]] = Fresh(p, disk[p].manifest = "on", disk[p].state, {})  BY <1>2, <3>1
      <4>. QED  BY <4>1 DEF Fresh
    <3>. QED  BY <3>1
  <2>. QED  BY <2>1 DEF Boot, Promised
<1>12. Clean  BY <1>7 DEF Boot, Clean
<1>13. Calling  BY DEF Boot, Calling
<1>14. Owned(NoRequest)  BY <1>7 DEF Owned, InTable
<1>15. Tabled(NoRequest)
  <2>. ASSUME NEW p \in PluginIds, plugins[p] # 0
       PROVE  /\ plugins[p] <= made /\ inst[plugins[p]].of = p /\ disk[p].there /\ p \notin failed
              /\ ~inst[plugins[p]].quit
    <3>1. Loads(disk[p]) /\ plugins[p] \in 1..made  BY <1>1, <1>5
    <3>2. inst[plugins[p]] = Fresh(p, disk[p].manifest = "on", disk[p].state, {})  BY <1>2
    <3>3. inst[plugins[p]].of = p /\ ~inst[plugins[p]].quit  BY <3>2 DEF Fresh
    <3>4. disk[p].there /\ p \notin failed  BY <3>1 DEF Boot, Loads
    <3>5. plugins[p] <= made  BY <1>1, <3>1
    <3>. QED  BY <3>3, <3>4, <3>5
  <2>. QED  BY DEF Tabled
<1>16. Piped(NoRequest)  BY <1>1, <1>5, <1>7 DEF Piped, InTable, NoRequest
<1>17. Restartable(NoRequest)
  <2>. ASSUME NEW p \in PluginIds, plugins[p] # 0
       PROVE  Loads(disk[p]) /\ disk[p].manifest = OnOff(inst[plugins[p]].enabled)
    <3>1. Loads(disk[p])  BY <1>1
    <3>2. inst[plugins[p]] = Fresh(p, disk[p].manifest = "on", disk[p].state, {})  BY <1>2
    <3>3. inst[plugins[p]].enabled = (disk[p].manifest = "on")  BY <3>2 DEF Fresh
    <3>. QED  BY <3>1, <3>3 DEF Loads, OnOff
  <2>. QED  BY DEF Restartable
<1>18. Dated(NoRequest)
  <2>1. \A w : Used(w) => \E p \in PluginIds : w \in disk[p].state \/ w \in foreign[p]
    <3>. \A p \in PluginIds : promised[p] \subseteq disk[p].state  BY DEF Boot
    <3>1. \A i \in Instances : i \in 1..made \/ i > made  BY <1>1 DEF Instances
    <3>2. \A i \in Instances : i > made => inst[i].store = {}  BY <1>9 DEF Instanced, Unbuilt
    <3>. QED  BY <1>7, <3>1, <3>2 DEF Used
  <2>. QED  BY <2>1 DEF Boot, Dated, NoRequest
<1>19. Knows(NoRequest)  BY DEF Knows, NoRequest
<1>. QED  BY <1>8, <1>9, <1>10, <1>11, <1>12, <1>13, <1>14, <1>15, <1>16, <1>17, <1>18, <1>19 DEF Stands

LEMMA PluginsStart == PluginsInit => PluginInv
<1>. SUFFICES ASSUME PluginsInit PROVE PluginInv  OBVIOUS
<1>1. disk \in [PluginIds -> DirStates] /\ \A p \in PluginIds : disk[p].state = {}
  <2>1. disk \in [PluginIds -> {NoDir, Installed}]  BY DEF PluginsInit
  <2>2. NoDir \in DirStates /\ Installed \in DirStates /\ NoDir.state = {} /\ Installed.state = {}
    BY DEF NoDir, Installed, DirStates
  <2>. QED  BY <2>1, <2>2
<1>2. /\ foreign \in [PluginIds -> SUBSET Writes] /\ promised \in [PluginIds -> SUBSET Writes]
      /\ \A p \in PluginIds : foreign[p] = {} /\ promised[p] = {}
  BY DEF PluginsInit
<1>3. flowAt \in [Flows -> [at : {"idle", "over"}, calls : {{}}, in : 0..MaxInstances]]
  <2>. 0 \in 0..MaxInstances  BY PluginsAssumption
  <2>. QED  BY DEF PluginsInit
<1>4. left \in [requests : 0..MaxRequests, stops : Nat]
  <2>. MaxRequests \in 0..MaxRequests /\ MaxStops \in Nat  BY PluginsAssumption
  <2>. QED  BY DEF PluginsInit
<1>5. Boot  BY <1>1, <1>2, <1>3, <1>4 DEF PluginsInit, Boot, Loaded
<1>6. Stands(NoRequest)  BY <1>5, BootStands
<1>8. request \in [Requests -> RequestStates] /\ \A q \in Requests : ~Under(q)
  BY NoRequestTyped DEF PluginsInit, Under, NoRequest
<1>. QED  BY <1>6, <1>8 DEF PluginInv

LEMMA Data ==
  ASSUME PluginInv
  PROVE  \E r \in RequestStates : Stands(r)
<1>1. CASE \E q \in Requests : Under(q)  BY <1>1 DEF PluginInv
<1>2. CASE \A q \in Requests : ~Under(q)
  BY <1>2, NoRequestTyped DEF PluginInv
<1>. QED  BY <1>1, <1>2

LEMMA RestartBoots == PluginInv /\ Restart => Boot'
<1>. SUFFICES ASSUME PluginInv, Restart PROVE Boot'  OBVIOUS
<1>1. PICK r \in RequestStates : Stands(r)  BY Data
<1>. PluginTyped /\ Clean /\ Dated(r) /\ Calling  BY <1>1 DEF Stands
<1>2. /\ disk' \in [PluginIds -> DirStates] /\ foreign' \in [PluginIds -> SUBSET Writes]
      /\ plugins' \in Numberings(disk') /\ inst' = LoadedFrom(disk', plugins')
      /\ hooks' = {plugins'[p] : p \in PluginIds} \ {0} /\ made' = Cardinality(hooks')
      /\ life' = "runs" /\ doubtful' = {} /\ unflushed' = {} /\ UNCHANGED <<disk, foreign>>
  BY DEF Restart, PluginTyped
<1>3. /\ promised' \in [PluginIds -> SUBSET Writes]
      /\ \A p \in PluginIds : promised'[p] = IF plugins'[p] # 0 THEN disk[p].state ELSE {}
  <2>1. \A p \in PluginIds : disk[p].state \in SUBSET Writes  BY DEF PluginTyped, DirStates
  <2>. QED  BY <2>1 DEF Restart
<1>4. \A p \in PluginIds : plugins'[p] # 0 <=> Loads(disk[p])
  BY <1>2 DEF Numberings
<1>5. \A p \in failed' : p \in PluginIds /\ disk[p].there /\ ~Loads(disk[p]) /\ promised'[p] = {}
  BY <1>3, <1>4 DEF Restart
<1>6. /\ flowAt' \in [Flows -> [at : {"idle", "over"}, calls : {{}}, in : 0..MaxInstances]]
      /\ \A f \in Flows : flowAt[f].at # "idle" => flowAt'[f].at = "over"
  <2>. 0 \in 0..MaxInstances  BY PluginsAssumption
  <2>1. ASSUME NEW f \in Flows
        PROVE  /\ flowAt'[f] \in [at : {"idle", "over"}, calls : {{}}, in : 0..MaxInstances]
               /\ flowAt[f].at # "idle" => flowAt'[f].at = "over"
    <3>1. CASE flowAt[f].at = "idle"
      <4>1. flowAt'[f] = flowAt[f] /\ flowAt[f].calls = {}  BY <3>1 DEF Restart, Calling
      <4>. QED  BY <3>1, <4>1 DEF PluginTyped
    <3>2. CASE flowAt[f].at # "idle"
      <4>1. flowAt'[f] = [at |-> "over", calls |-> {}, in |-> 0]  BY <3>2 DEF Restart
      <4>. QED  BY <4>1
    <3>. QED  BY <3>1, <3>2
  <2>2. flowAt' = [f \in Flows |-> flowAt'[f]]  BY DEF Restart
  <2>. QED  BY <2>1, <2>2
<1>7. left' \in [requests : 0..MaxRequests, stops : Nat] /\ left'.requests = left.requests
  BY DEF Restart, PluginTyped
<1>8. \A p \in PluginIds : promised'[p] \subseteq disk[p].state /\ disk[p].state \cap foreign[p] = {}
  BY <1>3 DEF Clean
<1>9. \A p \in PluginIds, f \in Flows : f \in disk[p].state \/ f \in foreign[p] => flowAt'[f].at = "over"
  BY <1>6 DEF Dated, Used
<1>10. \A p \in PluginIds, n \in 0..MaxRequests :
         n \in disk[p].state \/ n \in foreign[p] => n >= left'.requests
  BY <1>7 DEF Dated, Used
<1>. QED  BY <1>2, <1>3, <1>5, <1>6, <1>7, <1>8, <1>9, <1>10 DEF Boot

LEMMA RestartKeeps == PluginInv /\ Restart => PluginInv'
<1>1. Boot' => Stands(NoRequest)'  BY BootStands, PTL
<1>. SUFFICES ASSUME PluginInv, Restart PROVE PluginInv'  OBVIOUS
<1>2. Stands(NoRequest)'  BY <1>1, RestartBoots
<1>4. request' \in [Requests -> RequestStates] /\ \A q \in Requests : ~Under(q)'
  BY NoRequestTyped DEF Restart, Under, NoRequest
<1>. QED  BY <1>2, <1>4 DEF PluginInv

-----------------------------------------------------------------------------
(* The steps of a request.                                                 *)

LEMMA Stage ==
  ASSUME PluginInv, NEW q \in Requests, NEW stage \in Stages, To(q, stage)
  PROVE  \E n \in RequestStates :
           /\ request' = [request EXCEPT ![q] = n] /\ n.at = stage
           /\ n.kind = request[q].kind /\ n.id = request[q].id /\ n.new = request[q].new
           /\ n.on = request[q].on /\ n.carried = request[q].carried
<1>1. PICK o \in RequestStates : o = request[q]  BY TheRequest
<1>2. PICK n : n = [o EXCEPT !.at = stage]  OBVIOUS
<1>3. n \in RequestStates /\ n.at = stage /\ n.kind = o.kind /\ n.id = o.id /\ n.new = o.new
      /\ n.on = o.on /\ n.carried = o.carried
  BY <1>2 DEF RequestStates
<1>4. request' = [request EXCEPT ![q] = n]  BY <1>1, <1>2 DEF To
<1>. QED  BY <1>1, <1>3, <1>4

(* Nothing but parts of a directory is written.                            *)
PartsOnly ==
  /\ disk' \in [PluginIds -> DirStates]
  /\ \A p \in PluginIds : disk'[p].there = disk[p].there /\ disk'[p].state = disk[p].state
  /\ UNCHANGED <<inst, made, plugins, failed, flowAt, promised, foreign, unflushed>>

LEMMA PartsKeep ==
  ASSUME NEW r, Stands(r), PartsOnly
  PROVE  /\ Instanced' /\ Unloaded' /\ Promised' /\ Clean' /\ Calling'
         /\ \A w : Used(w)' => Used(w)
<1>. USE DEF PartsOnly
<1>1. Instanced' /\ Calling'  BY DEF Stands, Instanced, Calling
<1>2. Unloaded'  BY DEF Stands, Unloaded, PluginTyped
<1>3. Promised'  BY DEF Stands, Promised
<1>4. Clean'  BY DEF Stands, Clean
<1>5. \A w : Used(w)' => Used(w)  BY DEF Used
<1>. QED  BY <1>1, <1>2, <1>3, <1>4, <1>5

(* A directory is removed.                                                 *)
DirGoes(p) ==
  /\ plugins[p] = 0 /\ promised[p] = {} /\ disk' = [disk EXCEPT ![p] = NoDir]
  /\ failed' \subseteq failed \ {p}
  /\ UNCHANGED <<inst, made, plugins, flowAt, promised, foreign, unflushed>>

LEMMA DirGoesKeeps ==
  ASSUME NEW r, Stands(r), NEW p \in PluginIds, DirGoes(p)
  PROVE  /\ disk' \in [PluginIds -> DirStates] /\ failed' \subseteq failed
         /\ disk'[p] = NoDir /\ \A d \in PluginIds \ {p} : disk'[d] = disk[d]
         /\ Instanced' /\ Unloaded' /\ Promised' /\ Clean' /\ Calling'
         /\ \A w : Used(w)' => Used(w)
<1>1. NoDir \in DirStates /\ NoDir.state = {}  BY DEF NoDir, DirStates
<1>2. /\ disk' \in [PluginIds -> DirStates] /\ failed' \subseteq failed
      /\ disk'[p] = NoDir /\ \A d \in PluginIds \ {p} : disk'[d] = disk[d]
  BY <1>1 DEF DirGoes, Stands, PluginTyped
<1>3. UNCHANGED <<inst, made, plugins, flowAt, promised, foreign, unflushed>>  BY DEF DirGoes
<1>4. Instanced' /\ Calling'  BY <1>3 DEF Stands, Instanced, Calling
<1>5. Unloaded'  BY <1>2, <1>3 DEF DirGoes, Stands, Unloaded, PluginTyped
<1>6. \A d \in PluginIds : disk'[d].state = IF d = p THEN {} ELSE disk[d].state  BY <1>1, <1>2
<1>7. Promised'  BY <1>3, <1>6 DEF DirGoes, Stands, Promised
<1>8. Clean'  BY <1>3, <1>6 DEF Stands, Clean
<1>9. \A w : Used(w)' => Used(w)  BY <1>3, <1>6 DEF Used
<1>. QED  BY <1>2, <1>4, <1>5, <1>7, <1>8, <1>9

LEMMA BeginKeeps ==
  ASSUME PluginInv, NEW q \in Requests,
         NEW kind \in {"save", "update", "create", "delete", "enable"}, NEW p \in PluginIds, Begin(q, kind, p)
  PROVE  PluginInv'
<1>. USE DEF Begin
<1>1. MayOperate(q) /\ Stands(NoRequest)  BY TheRequest
<1>2. PICK n : n = [NoRequest EXCEPT !.kind = kind, !.id = p, !.at = "begun"]  OBVIOUS
<1>3. n \in RequestStates /\ n.at = "begun" /\ n.id = p
  <2>. NoRequest \in RequestStates /\ "begun" \in Stages  BY NoRequestTyped DEF Stages
  <2>. QED  BY <1>2 DEF NoRequest, RequestStates
<1>4. request' = [request EXCEPT ![q] = n]  BY <1>2
<1>. PluginTyped  BY <1>1 DEF Stands
<1>5. left' \in [requests : 0..MaxRequests, stops : Nat] /\ left.requests \in Nat
      /\ left'.requests = left.requests - 1
  BY PluginsAssumption DEF PluginTyped
<1>6. PluginTyped'  BY <1>5 DEF PluginTyped
<1>7. PartsOnly  BY DEF PartsOnly, PluginTyped
<1>8. Owned(n)'
  <2>. NoRequest.at \notin Holding /\ NoRequest.at \notin Bringing  BY DEF NoRequest, Holding, Bringing
  <2>. QED  BY <1>1 DEF Stands, Owned, InTable
<1>9. Tabled(n)'  BY <1>1 DEF Stands, Tabled, NoRequest
<1>10. Piped(n)'  BY <1>1, <1>3 DEF Stands, Piped, InTable, NoRequest, Rebuilding
<1>11. Restartable(n)'  BY <1>1 DEF Stands, Restartable, NoRequest
<1>12. Dated(n)'
  <2>1. \A w : Used(w)' => Used(w)  BY <1>1, <1>7, PartsKeep
  <2>2. \A m \in 0..MaxRequests : Used(m) => m >= left.requests  BY <1>1 DEF Stands, Dated
  <2>. QED  BY <1>1, <1>5, <2>1, <2>2 DEF Stands, Dated
<1>13. Knows(n)'
  BY <1>3 DEF Knows, KnowsPlugin, KnowsNew, Making, Changing, Holding, Bringing
<1>14. Stands(n)'
  BY <1>1, <1>6, <1>7, <1>8, <1>9, <1>10, <1>11, <1>12, <1>13, PartsKeep DEF Stands
<1>. QED  BY <1>1, <1>3, <1>4, <1>14, RequestMoves

(* A request that ends without more ado.                                   *)
LEMMA EndKeeps ==
  ASSUME PluginInv, NEW q \in Requests, Under(q), Ended(q), PartsOnly, PluginTyped',
         UNCHANGED <<hooks, life, left>>, doubtful \subseteq doubtful',
         request[q].at \notin Bringing \cup Rebuilding \cup {"fill"},
         request[q].at \in Holding => inst[request[q].new].shut,
         \A p \in PluginIds : plugins[p] # 0 =>
            disk'[p] = disk[p] \/ p \in doubtful' \/
            (Loads(disk'[p]) /\ disk'[p].manifest = OnOff(inst[plugins[p]].enabled))
  PROVE  PluginInv'
<1>1. PICK o \in RequestStates : o = request[q] /\ Stands(o)  BY TheRequest
<1>2. PICK n \in RequestStates :
        request' = [request EXCEPT ![q] = n] /\ n.at = "done" /\ n.id = o.id /\ n.new = o.new
  BY <1>1, Stage DEF Ended, Stages
<1>3. UNCHANGED <<inst, made, plugins, failed, flowAt, promised, foreign, unflushed>>  BY DEF PartsOnly
<1>4. Owned(n)'  BY <1>1, <1>3 DEF Stands, Owned, InTable
<1>5. Tabled(n)'
  <2>1. o.at # "closing"  BY <1>1 DEF Bringing
  <2>. QED  BY <1>1, <1>3, <2>1 DEF PartsOnly, Stands, Tabled
<1>6. Piped(n)'
  <2>1. /\ \A p \in PluginIds : life = "runs" /\ plugins[p] # 0 => plugins[p] \in hooks
        /\ \A i \in hooks : life = "runs" /\ ~InTable(i) =>
             /\ plugins[inst[i].of] = 0 /\ disk[inst[i].of].there
             /\ inst[i].shut \/ (o.at = "remove" /\ o.new = i)
        /\ hooks \subseteq 1..made
    BY <1>1 DEF Stands, Piped
  <2>2. o.at = "remove" => inst[o.new].shut  BY <1>1 DEF Holding
  <2>3. \A i \in hooks : inst[i].of \in PluginIds  BY <1>1, <2>1 DEF Stands, Instanced
  <2>. QED  BY <1>2, <1>3, <2>1, <2>2, <2>3 DEF PartsOnly, Piped, InTable
<1>7. Restartable(n)'  BY <1>1, <1>3 DEF Stands, Restartable
<1>8. Dated(n)'  BY <1>1, <1>2, <1>3, PartsKeep DEF Stands, Dated
<1>9. Knows(n)'  BY <1>2 DEF Knows
<1>10. Stands(n)'  BY <1>1, <1>4, <1>5, <1>6, <1>7, <1>8, <1>9, PartsKeep DEF Stands
<1>. QED  BY <1>2, <1>10, RequestMoves

LEMMA NotFoundKeeps ==
  ASSUME PluginInv, NEW q \in Requests, NotFound(q)
  PROVE  PluginInv'
<1>1. Under(q) /\ Ended(q) /\ request[q].at = "begun"  BY DEF NotFound, Under
<1>2. UNCHANGED <<inst, made, plugins, failed, hooks, disk, flowAt, life, left, promised, foreign, doubtful, unflushed>>
  BY DEF NotFound
<1>3. PluginTyped  BY <1>1, TheRequest DEF Stands
<1>4. PluginTyped' /\ PartsOnly  BY <1>2, <1>3 DEF PluginTyped, PartsOnly
<1>. QED  BY <1>1, <1>2, <1>4, EndKeeps DEF Bringing, Holding, Rebuilding

LEMMA AbandonedKeeps ==
  ASSUME PluginInv, NEW q \in Requests, Abandoned(q)
  PROVE  PluginInv'
<1>1. Under(q) /\ Ended(q) /\ request[q].at = "abandon" /\ inst[request[q].new].shut
  BY DEF Abandoned, Under
<1>2. UNCHANGED <<inst, made, plugins, failed, hooks, disk, flowAt, life, left, promised, foreign, doubtful, unflushed>>
  BY DEF Abandoned
<1>3. PluginTyped  BY <1>1, TheRequest DEF Stands
<1>4. PluginTyped' /\ PartsOnly  BY <1>2, <1>3 DEF PluginTyped, PartsOnly
<1>. QED  BY <1>1, <1>2, <1>4, EndKeeps DEF Bringing, Rebuilding

(* Part of a file of a directory is written.                               *)
LEMMA PartPut ==
  ASSUME PluginTyped, NEW p \in PluginIds, NEW part \in {"source", "manifest"}, NEW value,
         part = "source" => value \in {"none", "good", "torn"},
         part = "manifest" => value \in {"none", "on", "off", "torn"},
         PutPart(p, part, value)
  PROVE  /\ disk' \in [PluginIds -> DirStates]
         /\ \A d \in PluginIds :
              /\ disk'[d].there = disk[d].there /\ disk'[d].state = disk[d].state
              /\ d # p => disk'[d] = disk[d]
         /\ part = "source" => disk'[p].source = value /\ disk'[p].manifest = disk[p].manifest
         /\ part = "manifest" => disk'[p].manifest = value /\ disk'[p].source = disk[p].source
<1>. disk[p] \in DirStates  BY DEF PluginTyped
<1>1. CASE part = "source"
  <2>1. PICK s : s = [disk[p] EXCEPT !.source = value]  OBVIOUS
  <2>2. /\ s \in DirStates /\ s.there = disk[p].there /\ s.state = disk[p].state
        /\ s.source = value /\ s.manifest = disk[p].manifest
    BY <1>1, <2>1 DEF DirStates
  <2>3. disk' = [disk EXCEPT ![p] = s]  BY <1>1, <2>1 DEF PutPart, PluginTyped, DirStates
  <2>4. disk' \in [PluginIds -> DirStates] /\ disk'[p] = s /\ \A d \in PluginIds : d # p => disk'[d] = disk[d]
    BY <2>2, <2>3 DEF PluginTyped
  <2>. QED  BY <1>1, <2>2, <2>4
<1>2. CASE part = "manifest"
  <2>1. PICK s : s = [disk[p] EXCEPT !.manifest = value]  OBVIOUS
  <2>2. /\ s \in DirStates /\ s.there = disk[p].there /\ s.state = disk[p].state
        /\ s.manifest = value /\ s.source = disk[p].source
    BY <1>2, <2>1 DEF DirStates
  <2>3. disk' = [disk EXCEPT ![p] = s]  BY <1>2, <2>1 DEF PutPart, PluginTyped, DirStates
  <2>4. disk' \in [PluginIds -> DirStates] /\ disk'[p] = s /\ \A d \in PluginIds : d # p => disk'[d] = disk[d]
    BY <2>2, <2>3 DEF PluginTyped
  <2>. QED  BY <1>2, <2>2, <2>4
<1>. QED  BY <1>1, <1>2

LEMMA RemoveFailsKeeps ==
  ASSUME PluginInv, NEW q \in Requests, RemoveFails(q)
  PROVE  PluginInv'
<1>1. Under(q) /\ Ended(q) /\ request[q].at = "remove" /\ inst[request[q].new].shut
  BY DEF RemoveFails, Under
<1>2. UNCHANGED <<inst, made, plugins, failed, hooks, flowAt, life, left, promised, foreign, doubtful, unflushed>>
  BY DEF RemoveFails
<1>3. Stands(request[q]) /\ PluginTyped  BY <1>1, TheRequest DEF Stands
<1>4. PICK p \in PluginIds : p = request[q].id /\ plugins[p] = 0
  BY <1>1, <1>3 DEF Stands, Knows, KnowsPlugin
<1>5. PICK gone \in {disk[p].source, "none"} : PutPart(p, "source", gone)
  BY <1>4 DEF RemoveFails
<1>6. gone \in {"none", "good", "torn"}  BY <1>3, <1>5 DEF PluginTyped, DirStates
<1>7. /\ disk' \in [PluginIds -> DirStates]
      /\ \A d \in PluginIds :
           /\ disk'[d].there = disk[d].there /\ disk'[d].state = disk[d].state
           /\ d # p => disk'[d] = disk[d]
  BY <1>3, <1>5, <1>6, PartPut
<1>8. PluginTyped' /\ PartsOnly  BY <1>2, <1>3, <1>7 DEF PluginTyped, PartsOnly
<1>. QED  BY <1>1, <1>2, <1>4, <1>7, <1>8, EndKeeps DEF Bringing, Rebuilding

LEMMA DirEnds ==
  ASSUME PluginInv, NEW q \in Requests, Under(q), NEW stage \in {"done", "rebuild"}, To(q, stage),
         NEW p \in PluginIds, DirGoes(p), UNCHANGED <<hooks, life, left, doubtful>>,
         request[q].at \notin Bringing \cup Rebuilding,
         request[q].at \in Holding => inst[request[q].new].shut,
         life = "runs" /\ stage = "done" => \A i \in hooks : inst[i].of # p,
         stage = "rebuild" => request[q].at # "begun" /\ request[q].id \in PluginIds
  PROVE  PluginInv'
<1>1. PICK o \in RequestStates : o = request[q] /\ Stands(o)  BY TheRequest
<1>2. PICK n \in RequestStates :
        request' = [request EXCEPT ![q] = n] /\ n.at = stage /\ n.id = o.id /\ n.new = o.new
  BY <1>1, Stage DEF Stages, Rebuilding
<1>3. UNCHANGED <<inst, made, plugins, flowAt, promised, foreign, unflushed>> /\ plugins[p] = 0  BY DEF DirGoes
<1>4. /\ disk' \in [PluginIds -> DirStates] /\ failed' \subseteq failed
      /\ disk'[p] = NoDir /\ \A d \in PluginIds \ {p} : disk'[d] = disk[d]
  BY <1>1, DirGoesKeeps
<1>5. PluginTyped'  BY <1>1, <1>3, <1>4 DEF Stands, PluginTyped
<1>6. o.at # "closing" /\ o.at # "fill"  BY <1>1 DEF Bringing
<1>7. \A d \in PluginIds : plugins[d] # 0 => disk'[d] = disk[d]  BY <1>3, <1>4
<1>8. Owned(n)'  BY <1>1, <1>3 DEF Stands, Owned, InTable
<1>9. Tabled(n)'  BY <1>1, <1>3, <1>4, <1>6, <1>7 DEF Stands, Tabled
<1>10. Piped(n)'
  <2>1. /\ \A d \in PluginIds : life = "runs" /\ plugins[d] # 0 => plugins[d] \in hooks
        /\ \A i \in hooks : life = "runs" /\ ~InTable(i) =>
             /\ plugins[inst[i].of] = 0 /\ disk[inst[i].of].there
             /\ inst[i].shut \/ (o.at = "remove" /\ o.new = i)
        /\ hooks \subseteq 1..made
    BY <1>1 DEF Stands, Piped
  <2>2. o.at = "remove" => inst[o.new].shut  BY <1>1 DEF Holding
  <2>3. \A i \in hooks : inst[i].of \in PluginIds  BY <1>1, <2>1 DEF Stands, Instanced
  <2>4. CASE stage = "rebuild"  BY <1>2, <1>3, <2>1, <2>4 DEF Piped, Rebuilding
  <2>5. CASE stage = "done"  BY <1>2, <1>3, <1>4, <2>1, <2>2, <2>3, <2>5 DEF Piped, InTable
  <2>. QED  BY <2>4, <2>5
<1>11. Restartable(n)'  BY <1>1, <1>3, <1>6, <1>7 DEF Stands, Restartable
<1>12. Dated(n)'  BY <1>1, <1>2, <1>3, DirGoesKeeps DEF Stands, Dated
<1>13. Knows(n)'
  <2>1. CASE stage = "done"  BY <1>2, <2>1 DEF Knows
  <2>2. CASE stage = "rebuild"
    BY <1>1, <1>2, <2>2 DEF Knows, KnowsPlugin, KnowsNew, Making, Changing, Holding, Bringing
  <2>. QED  BY <2>1, <2>2
<1>14. Stands(n)'
  BY <1>1, <1>5, <1>8, <1>9, <1>10, <1>11, <1>12, <1>13, DirGoesKeeps DEF Stands
<1>. QED  BY <1>2, <1>14, RequestMoves

LEMMA BuildFailsKeeps ==
  ASSUME PluginInv, NEW q \in Requests, BuildFails(q)
  PROVE  PluginInv'
<1>1. Under(q) /\ Ended(q) /\ request[q].at = "build"  BY DEF BuildFails, Under
<1>2. UNCHANGED <<inst, made, plugins, failed, hooks, flowAt, life, left, promised, foreign, doubtful, unflushed>>
  BY DEF BuildFails
<1>3. Stands(request[q]) /\ PluginTyped  BY <1>1, TheRequest DEF Stands
<1>4. CASE request[q].kind # "create"
  <2>1. UNCHANGED disk  BY <1>4 DEF BuildFails
  <2>2. PluginTyped' /\ PartsOnly  BY <1>2, <1>3, <2>1 DEF PluginTyped, PartsOnly
  <2>. QED  BY <1>1, <1>2, <2>1, <2>2, EndKeeps DEF Bringing, Holding, Rebuilding
<1>5. CASE request[q].kind = "create"
  <2>1. PICK p \in PluginIds : p = request[q].id  BY <1>1, <1>3 DEF Stands, Knows
  <2>2. /\ plugins[p] = 0 /\ p \notin failed /\ promised[p] = {}
        /\ life = "runs" => \A i \in hooks : inst[i].of # p
    BY <1>1, <1>3, <1>5, <2>1 DEF Stands, Knows, KnowsPlugin, Making
  <2>3. disk' = [disk EXCEPT ![p] = NoDir]  BY <1>5, <2>1 DEF BuildFails
  <2>4. DirGoes(p)  BY <1>2, <2>2, <2>3 DEF DirGoes
  <2>. QED  BY <1>1, <1>2, <2>2, <2>4, DirEnds DEF Ended, Bringing, Holding, Rebuilding
<1>. QED  BY <1>4, <1>5

LEMMA CreateFailsKeeps ==
  ASSUME PluginInv, NEW q \in Requests, CreateFails(q)
  PROVE  PluginInv'
<1>1. Under(q) /\ To(q, "done") /\ request[q].at = "source"  BY DEF CreateFails, Under, Ended
<1>2. UNCHANGED <<inst, made, plugins, failed, hooks, flowAt, life, left, promised, foreign, doubtful, unflushed>>
  BY DEF CreateFails
<1>3. Stands(request[q])  BY <1>1, TheRequest
<1>4. PICK p \in PluginIds : p = request[q].id  BY <1>1, <1>3 DEF Stands, Knows
<1>5. /\ plugins[p] = 0 /\ p \notin failed /\ promised[p] = {}
      /\ life = "runs" => \A i \in hooks : inst[i].of # p
  BY <1>1, <1>3, <1>4 DEF Stands, Knows, KnowsPlugin, Making
<1>6. DirGoes(p)  BY <1>2, <1>4, <1>5 DEF DirGoes, CreateFails
<1>. QED  BY <1>1, <1>2, <1>5, <1>6, DirEnds DEF Bringing, Holding, Rebuilding

LEMMA RemoveFailedKeeps ==
  ASSUME PluginInv, NEW q \in Requests, RemoveFailed(q)
  PROVE  PluginInv'
<1>1. Under(q) /\ To(q, "done") /\ request[q].at = "begun"  BY DEF RemoveFailed, Under, Ended
<1>2. UNCHANGED <<inst, made, plugins, hooks, flowAt, life, left, promised, foreign, doubtful, unflushed>>
  BY DEF RemoveFailed
<1>3. Stands(request[q])  BY <1>1, TheRequest
<1>4. PICK p \in PluginIds : p = request[q].id  BY <1>1, <1>3 DEF Stands, Knows
<1>5. /\ plugins[p] = 0 /\ p \in failed /\ failed' = failed \ {p} /\ disk' = [disk EXCEPT ![p] = NoDir]
  BY <1>4 DEF RemoveFailed
<1>6. promised[p] = {} /\ \A i \in hooks : inst[i].of # p
  BY <1>3, <1>5 DEF Stands, Unloaded, Piped
<1>7. DirGoes(p)  BY <1>2, <1>5, <1>6 DEF DirGoes
<1>. QED  BY <1>1, <1>2, <1>6, <1>7, DirEnds DEF Bringing, Holding, Rebuilding

LEMMA RemoveDirKeeps ==
  ASSUME PluginInv, NEW q \in Requests, RemoveDir(q)
  PROVE  PluginInv'
<1>1. Under(q) /\ To(q, "rebuild") /\ request[q].at = "remove" /\ inst[request[q].new].shut
  BY DEF RemoveDir, Under
<1>2. UNCHANGED <<inst, made, plugins, failed, hooks, flowAt, life, left, promised, foreign, doubtful, unflushed>>
  BY DEF RemoveDir
<1>3. Stands(request[q])  BY <1>1, TheRequest
<1>4. PICK p \in PluginIds : p = request[q].id  BY <1>1, <1>3 DEF Stands, Knows
<1>5. plugins[p] = 0 /\ p \notin failed /\ promised[p] = {}
  BY <1>1, <1>3, <1>4 DEF Stands, Knows, KnowsPlugin
<1>6. DirGoes(p)  BY <1>2, <1>4, <1>5 DEF DirGoes, RemoveDir
<1>. QED  BY <1>1, <1>2, <1>4, <1>6, DirEnds DEF Bringing, Rebuilding

LEMMA FileKeeps ==
  ASSUME PluginInv, NEW q \in Requests, Truncate(q) \/ Fill(q) \/ WriteSource(q)
  PROVE  PluginInv'
<1>1. PICK o \in RequestStates : o = request[q] /\ Stands(o)
  BY TheRequest DEF Truncate, Fill, WriteSource, Under
<1>2. PICK stage \in {"fill", "swap", "build"} :
        /\ To(q, stage)
        /\ stage = "fill" => o.at = "write" /\ Truncate(q)
        /\ stage = "swap" => o.at = "fill" /\ Fill(q)
        /\ stage = "build" => o.at = "source" /\ WriteSource(q)
  BY <1>1 DEF Truncate, Fill, WriteSource
<1>3. PICK n \in RequestStates :
        /\ request' = [request EXCEPT ![q] = n] /\ n.at = stage
        /\ n.kind = o.kind /\ n.id = o.id /\ n.new = o.new /\ n.on = o.on /\ n.carried = o.carried
  BY <1>1, <1>2, Stage DEF Stages, Making, Changing
<1>4. Under(q)  BY <1>1, <1>2 DEF Under
<1>5. UNCHANGED <<inst, made, plugins, failed, hooks, flowAt, life, left, promised, foreign, doubtful, unflushed>>
  BY DEF Truncate, Fill, WriteSource
<1>6. PICK p \in PluginIds : p = o.id  BY <1>1, <1>2 DEF Stands, Knows
<1>. PluginTyped  BY <1>1 DEF Stands
<1>7. /\ o.at \in {"write", "fill"} => o.kind \in {"save", "update"} /\ KnowsPlugin(o)
      /\ o.at = "source" => o.kind = "create" /\ KnowsPlugin(o)
      /\ KnowsNew(o)
  BY <1>1, <1>2 DEF Stands, Knows, Changing
<1>8. PICK part \in {"source", "manifest"}, value \in {"torn", "good", "on", "off"} :
        /\ part = "source" => value \in {"torn", "good"}
        /\ part = "manifest" => value \in {"on", "off", "torn"}
        /\ PutPart(p, part, value)
        /\ stage \in {"fill", "swap"} => (part = "source" <=> o.kind = "save")
        /\ stage = "swap" => value = IF part = "source" THEN "good" ELSE OnOff(o.on)
        /\ stage = "build" => part = "source" /\ value = "good"
  <2>1. CASE stage = "fill"
    BY <1>1, <1>2, <1>6, <2>1 DEF Truncate, Part
  <2>2. CASE stage = "swap"
    BY <1>1, <1>2, <1>6, <2>2 DEF Fill, Part, OnDisk, OnOff
  <2>3. CASE stage = "build"
    BY <1>1, <1>2, <1>6, <2>3 DEF WriteSource
  <2>. QED  BY <2>1, <2>2, <2>3
<1>9. /\ disk' \in [PluginIds -> DirStates]
      /\ \A d \in PluginIds :
           /\ disk'[d].there = disk[d].there /\ disk'[d].state = disk[d].state
           /\ d # p => disk'[d] = disk[d]
      /\ part = "source" => disk'[p].source = value /\ disk'[p].manifest = disk[p].manifest
      /\ part = "manifest" => disk'[p].manifest = value /\ disk'[p].source = disk[p].source
  BY <1>8, PartPut
<1>10. PluginTyped' /\ PartsOnly  BY <1>5, <1>9 DEF PluginTyped, PartsOnly
<1>11. /\ o.at \in Bringing <=> n.at \in Bringing
       /\ o.at \in Holding <=> n.at \in Holding
       /\ o.at \notin Rebuilding /\ n.at \notin Rebuilding
       /\ o.at \notin {"closing", "remove", "register"} /\ n.at \notin {"closing", "remove", "register"}
  BY <1>2, <1>3 DEF Bringing, Holding, Rebuilding
<1>12. Owned(n)'  BY <1>1, <1>3, <1>5, <1>11 DEF Stands, Owned, InTable
<1>13. Tabled(n)'  BY <1>1, <1>5, <1>9, <1>11 DEF Stands, Tabled
<1>14. Piped(n)'
  <2>1. /\ \A d \in PluginIds : life = "runs" /\ plugins[d] # 0 => plugins[d] \in hooks
        /\ \A i \in hooks : life = "runs" /\ ~InTable(i) =>
             plugins[inst[i].of] = 0 /\ disk[inst[i].of].there /\ inst[i].shut
        /\ hooks \subseteq 1..made
    BY <1>1, <1>11 DEF Stands, Piped
  <2>2. \A i \in hooks : inst[i].of \in PluginIds  BY <1>1, <2>1 DEF Stands, Instanced
  <2>. QED  BY <1>5, <1>9, <1>11, <2>1, <2>2 DEF Piped, InTable
<1>15. stage = "swap" => disk'[p].there /\ (life = "runs" /\ p \notin doubtful =>
         disk'[p].source = "good" /\ disk'[p].manifest = OnOff(o.on))
  <2>. SUFFICES ASSUME stage = "swap"
                PROVE  disk'[p].there /\ (life = "runs" /\ p \notin doubtful =>
                         disk'[p].source = "good" /\ disk'[p].manifest = OnOff(o.on))
    OBVIOUS
  <2>1. disk[p].there  BY <1>2, <1>6, <1>7 DEF KnowsPlugin, Changing
  <2>2. life = "runs" /\ p \notin doubtful =>
          IF o.kind = "save" THEN disk[p].manifest = OnOff(o.on) ELSE disk[p].source = "good"
    BY <1>2, <1>6, <1>7 DEF KnowsPlugin
  <2>3. CASE o.kind = "save"  BY <1>8, <1>9, <2>1, <2>2, <2>3
  <2>4. CASE o.kind # "save"  BY <1>8, <1>9, <2>1, <2>2, <2>4
  <2>. QED  BY <2>3, <2>4
<1>16. Restartable(n)'
  <2>1. ASSUME NEW d \in PluginIds, life = "runs", d \notin doubtful, plugins[d] # 0,
               ~(stage = "fill" /\ o.id = d)
        PROVE  Loads(disk'[d]) /\ disk'[d].manifest = OnOff(inst[plugins[d]].enabled)
    <3>1. CASE d # p
      BY <1>1, <1>6, <1>9, <2>1, <3>1 DEF Stands, Restartable
    <3>2. CASE d = p
      <4>1. stage # "build"  BY <1>2, <1>6, <1>7, <2>1, <3>2 DEF KnowsPlugin, Making
      <4>2. stage = "swap"  BY <1>6, <2>1, <3>2, <4>1
      <4>3. o.on = inst[plugins[p]].enabled
        BY <1>2, <1>6, <1>7, <2>1, <3>2, <4>2 DEF KnowsPlugin, Changing
      <4>. QED  BY <1>15, <2>1, <3>2, <4>2, <4>3 DEF Loads, OnOff
    <3>. QED  BY <3>1, <3>2
  <2>. QED  BY <1>3, <1>5, <2>1 DEF Restartable
<1>17. Dated(n)'  BY <1>1, <1>2, <1>3, <1>5, <1>10, PartsKeep DEF Stands, Dated
<1>18. KnowsNew(n)'
  BY <1>3, <1>5, <1>7, <1>11 DEF KnowsNew, InTable
<1>19. KnowsPlugin(n)'
  <2>1. CASE stage = "build"
    <3>1. /\ plugins[p] = 0 /\ p \notin failed /\ promised[p] = {}
          /\ disk[p].there /\ disk[p].manifest = OnOff(o.on)
          /\ life = "runs" => \A i \in hooks : inst[i].of # p
      BY <1>2, <1>6, <1>7, <2>1 DEF KnowsPlugin, Making
    <3>2. disk'[p].source = "good" /\ disk'[p].manifest = disk[p].manifest  BY <1>8, <1>9, <2>1
    <3>3. n.kind = "create" /\ n.id = p /\ n.at = "build"  BY <1>2, <1>3, <1>6, <1>7, <2>1
    <3>. QED  BY <1>3, <1>5, <1>9, <3>1, <3>2, <3>3 DEF KnowsPlugin
  <2>2. CASE stage \in {"fill", "swap"}
    <3>1. /\ disk[p].there /\ p \notin failed /\ o.carried = promised[p]
          /\ plugins[p] = 0 => life = "closed"
          /\ plugins[p] # 0 => o.on = inst[plugins[p]].enabled
      BY <1>2, <1>6, <1>7, <2>2 DEF KnowsPlugin, Changing
    <3>2. stage = "fill" /\ p \notin doubtful /\ life = "runs" =>
            IF o.kind = "save" THEN disk'[p].manifest = OnOff(o.on) ELSE disk'[p].source = "good"
      <4>. SUFFICES ASSUME stage = "fill", p \notin doubtful, life = "runs"
                    PROVE  IF o.kind = "save" THEN disk'[p].manifest = OnOff(o.on)
                           ELSE disk'[p].source = "good"
        OBVIOUS
      <4>1. plugins[p] # 0  BY <3>1
      <4>2. Loads(disk[p]) /\ disk[p].manifest = OnOff(inst[plugins[p]].enabled)
        BY <1>1, <1>2, <4>1 DEF Stands, Restartable
      <4>. QED  BY <1>8, <1>9, <3>1, <4>1, <4>2 DEF Loads
    <3>3. n.kind \in {"save", "update"} /\ n.id = p /\ n.at \in {"fill", "swap"}
      BY <1>2, <1>3, <1>6, <1>7, <2>2
    <3>. QED  BY <1>3, <1>5, <1>9, <3>1, <3>2, <3>3 DEF KnowsPlugin, Making
  <2>. QED  BY <2>1, <2>2
<1>20. Knows(n)'
  BY <1>2, <1>3, <1>6, <1>7, <1>11, <1>18, <1>19 DEF Knows, Changing
<1>21. Stands(n)'
  BY <1>1, <1>10, <1>12, <1>13, <1>14, <1>16, <1>17, <1>20, PartsKeep DEF Stands
<1>. QED  BY <1>3, <1>4, <1>21, RequestMoves

LEMMA SnapshotKeeps ==
  ASSUME PluginInv, NEW q \in Requests, Snapshot(q)
  PROVE  PluginInv'
<1>1. PICK o \in RequestStates : o = request[q] /\ Stands(o)
  BY TheRequest DEF Snapshot, Under
<1>2. o.at = "begun" /\ o.kind \in {"save", "update"} /\ Under(q) /\ life # "closing"
  BY <1>1 DEF Snapshot, Under, MuFree
<1>. PluginTyped  BY <1>1 DEF Stands
<1>3. PICK p \in PluginIds : p = o.id  BY <1>1, <1>2 DEF Stands, Knows
<1>4. PICK i \in 1..made : i = plugins[p] /\ plugins[p] # 0 /\ inst[i].of = p
  BY <1>1, <1>3, PluginsAssumption DEF Snapshot, Stands, Tabled, PluginTyped
<1>5. PICK store : store = CopyOf(inst[i].store)  OBVIOUS
<1>6. i \in Instances /\ store \in SUBSET Writes /\ store \subseteq inst[i].store
  <2>1. i \in Instances  BY PluginsAssumption DEF PluginTyped, Instances
  <2>. QED  BY <1>5, <2>1 DEF CopyOf, PluginTyped, InstStates
<1>7. PICK n : n = [o EXCEPT !.at = "build", !.carried = store, !.on = inst[i].enabled]  OBVIOUS
<1>8. /\ n \in RequestStates /\ n.at = "build" /\ n.carried = store /\ n.on = inst[i].enabled
      /\ n.id = o.id /\ n.kind = o.kind
  <2>1. inst[i].enabled \in BOOLEAN  BY <1>6 DEF PluginTyped, InstStates
  <2>2. "build" \in Stages  BY DEF Stages, Making
  <2>. QED  BY <1>6, <1>7, <2>1, <2>2 DEF RequestStates
<1>9. request' = [request EXCEPT ![q] = n]
  BY <1>1, <1>3, <1>4, <1>5, <1>7 DEF Snapshot
<1>10. UNCHANGED <<inst, made, plugins, failed, hooks, disk, flowAt, life, left, foreign, doubtful, unflushed>>
  BY DEF Snapshot
<1>11. promised' = [promised EXCEPT ![p] = store]  BY <1>1, <1>3, <1>4, <1>5 DEF Snapshot
<1>12. /\ promised' \in [PluginIds -> SUBSET Writes] /\ promised'[p] = store
       /\ \A d \in PluginIds : d # p => promised'[d] = promised[d]
  BY <1>6, <1>11 DEF PluginTyped
<1>13. PluginTyped'  BY <1>10, <1>12 DEF PluginTyped
<1>14. p \notin failed /\ disk[p].there /\ ~inst[i].quit  BY <1>1, <1>2, <1>3, <1>4 DEF Stands, Tabled
<1>15. ~inst[i].shut  BY <1>1, <1>14 DEF Stands, Instanced
<1>16. Instanced' /\ Calling'  BY <1>1, <1>10 DEF Stands, Instanced, Calling
<1>28. Clean'
  <2>1. inst[i].store \cap foreign[p] = {}  BY <1>1, <1>4, <1>15 DEF Stands, Clean
  <2>. QED  BY <1>1, <1>6, <1>10, <1>12, <2>1 DEF Stands, Clean
<1>17. Unloaded'  BY <1>1, <1>10, <1>12, <1>14 DEF Stands, Unloaded, PluginTyped
<1>18. Promised'
  <2>1. \A d \in PluginIds : d # p => promised'[d] = promised[d]  BY <1>12
  <2>. QED  BY <1>1, <1>4, <1>6, <1>10, <1>12, <1>15, <2>1 DEF Stands, Promised
<1>19. o.at \notin Holding /\ o.at \notin Bringing /\ o.at \notin Rebuilding
  BY <1>2 DEF Holding, Bringing, Rebuilding
<1>20. n.at \notin Holding /\ n.at \notin Bringing /\ n.at \notin Rebuilding
  BY <1>8 DEF Holding, Bringing, Rebuilding
<1>21. Owned(n)'  BY <1>1, <1>10, <1>19 DEF Stands, Owned, InTable
<1>22. Tabled(n)'  BY <1>1, <1>2, <1>10 DEF Stands, Tabled
<1>23. Piped(n)'  BY <1>1, <1>2, <1>8, <1>10, <1>19 DEF Stands, Piped, InTable
<1>24. Restartable(n)'  BY <1>1, <1>2, <1>10 DEF Stands, Restartable
<1>25. Dated(n)'
  <2>1. \A w : Used(w)' => Used(w)  BY <1>6, <1>10, <1>12 DEF Used
  <2>. QED  BY <1>1, <1>2, <1>10, <2>1 DEF Stands, Dated
<1>26. Knows(n)'
  <2>1. KnowsPlugin(n)'
    BY <1>2, <1>3, <1>4, <1>8, <1>10, <1>12, <1>14 DEF KnowsPlugin, Changing
  <2>2. KnowsNew(n)'  BY <1>20 DEF KnowsNew
  <2>. QED  BY <1>2, <1>3, <1>8, <2>1, <2>2 DEF Knows
<1>27. Stands(n)'
  BY <1>13, <1>16, <1>17, <1>18, <1>21, <1>22, <1>23, <1>24, <1>25, <1>26, <1>28 DEF Stands
<1>. QED  BY <1>2, <1>8, <1>9, <1>27, RequestMoves

LEMMA ClearHooksKeeps ==
  ASSUME PluginInv, NEW q \in Requests, ClearHooks(q)
  PROVE  PluginInv'
<1>1. PICK o \in RequestStates : o = request[q] /\ Stands(o)
  BY TheRequest DEF ClearHooks, Under
<1>2. o.at = "rebuild" /\ Under(q) /\ life # "closing"  BY <1>1 DEF ClearHooks, Under, MuFree
<1>3. PICK n \in RequestStates :
        request' = [request EXCEPT ![q] = n] /\ n.at = "register" /\ n.id = o.id
  BY <1>1, Stage DEF ClearHooks, Stages, Rebuilding
<1>4. hooks' = {} /\ UNCHANGED <<inst, made, plugins, failed, disk, flowAt, life, left, promised, foreign, doubtful, unflushed>>
  BY DEF ClearHooks
<1>5. PluginTyped' /\ PartsOnly  BY <1>1, <1>4 DEF Stands, PluginTyped, PartsOnly
<1>6. Owned(n)'
  <2>. o.at \notin Holding /\ o.at \notin Bringing  BY <1>2 DEF Holding, Bringing
  <2>. QED  BY <1>1, <1>4 DEF Stands, Owned, InTable
<1>7. Tabled(n)' /\ Restartable(n)'  BY <1>1, <1>2, <1>4 DEF Stands, Tabled, Restartable
<1>8. Piped(n)'  BY <1>3, <1>4 DEF Piped, Rebuilding
<1>9. Dated(n)'  BY <1>1, <1>3, <1>4, <1>5, PartsKeep DEF Stands, Dated
<1>10. Knows(n)'
  <2>1. o.id \in PluginIds  BY <1>1, <1>2 DEF Stands, Knows
  <2>. QED  BY <1>2, <1>3, <1>4, <2>1 DEF Knows, KnowsPlugin, KnowsNew, Making, Changing, Holding, Bringing
<1>11. Stands(n)'  BY <1>1, <1>5, <1>6, <1>7, <1>8, <1>9, <1>10, PartsKeep DEF Stands
<1>. QED  BY <1>2, <1>3, <1>11, RequestMoves

LEMMA RegisterHookKeeps ==
  ASSUME PluginInv, NEW q \in Requests, RegisterHook(q)
  PROVE  PluginInv'
<1>1. PICK o \in RequestStates : o = request[q] /\ Stands(o)
  BY TheRequest DEF RegisterHook, Under
<1>2. o.at = "register" /\ Under(q)  BY <1>1 DEF RegisterHook, Under
<1>3. UNCHANGED <<inst, made, plugins, failed, disk, flowAt, life, left, promised, foreign, doubtful, unflushed>>
  BY DEF RegisterHook
<1>. PluginTyped  BY <1>1 DEF Stands
<1>4. Loaded \subseteq 1..made /\ \A i \in 1..made : i \in Loaded <=> InTable(i)  BY <1>1, LoadedIs
<1>5. hooks \subseteq 1..made /\ \A i \in hooks : InTable(i)  BY <1>1, <1>2 DEF Stands, Piped
<1>6. PICK n \in RequestStates :
        /\ request' = [request EXCEPT ![q] = n] /\ n.id = o.id /\ hooks' \subseteq Loaded
        /\ \/ n.at = "register"
           \/ n.at = "done" /\ hooks' = hooks /\ Loaded \subseteq hooks
  <2>1. CASE Loaded \subseteq hooks
    <3>1. Ended(q) /\ UNCHANGED hooks  BY <2>1 DEF RegisterHook
    <3>2. hooks \subseteq Loaded  BY <1>4, <1>5
    <3>. QED  BY <1>1, <2>1, <3>1, <3>2, Stage DEF Ended, Stages
  <2>2. CASE ~(Loaded \subseteq hooks)
    <3>1. PICK i \in Loaded \ hooks : hooks' = hooks \cup {i} /\ UNCHANGED request
      BY <2>2 DEF RegisterHook
    <3>2. request' = [request EXCEPT ![q] = o]  BY <1>1, <3>1 DEF PluginInv
    <3>3. hooks' \subseteq Loaded  BY <1>4, <1>5, <3>1
    <3>. QED  BY <1>2, <3>2, <3>3
  <2>. QED  BY <2>1, <2>2
<1>7. hooks' \in SUBSET Instances /\ hooks' \subseteq 1..made
  BY <1>4, <1>6, PluginsAssumption DEF PluginTyped, Instances
<1>8. PluginTyped' /\ PartsOnly  BY <1>3, <1>7 DEF PluginTyped, PartsOnly
<1>9. Owned(n)'
  <2>. o.at \notin Holding /\ o.at \notin Bringing  BY <1>2 DEF Holding, Bringing
  <2>. QED  BY <1>1, <1>3 DEF Stands, Owned, InTable
<1>10. Tabled(n)' /\ Restartable(n)'  BY <1>1, <1>2, <1>3 DEF Stands, Tabled, Restartable
<1>11. Piped(n)'
  <2>1. \A i \in hooks' : InTable(i)'  BY <1>3, <1>4, <1>6 DEF InTable
  <2>2. n.at = "done" => \A p \in PluginIds : plugins[p] # 0 => plugins[p] \in hooks'
    BY <1>6 DEF Loaded
  <2>. QED  BY <1>3, <1>6, <1>7, <2>1, <2>2 DEF Piped, Rebuilding
<1>12. Dated(n)'  BY <1>1, <1>3, <1>6, <1>8, PartsKeep DEF Stands, Dated
<1>13. Knows(n)'
  <2>1. o.id \in PluginIds /\ life # "closing"  BY <1>1, <1>2 DEF Stands, Knows
  <2>. QED  BY <1>3, <1>6, <2>1 DEF Knows, KnowsPlugin, KnowsNew, Making, Changing, Holding, Bringing
<1>14. Stands(n)'  BY <1>1, <1>8, <1>9, <1>10, <1>11, <1>12, <1>13, PartsKeep DEF Stands
<1>. QED  BY <1>2, <1>6, <1>14, RequestMoves

LEMMA WriteFailsKeeps ==
  ASSUME PluginInv, NEW q \in Requests, WriteFails(q)
  PROVE  PluginInv'
<1>1. PICK o \in RequestStates : o = request[q] /\ Stands(o)
  BY TheRequest DEF WriteFails, Under
<1>2. o.at \in {"write", "fill"} /\ Under(q)  BY <1>1 DEF WriteFails, Under
<1>3. PICK n \in RequestStates :
        /\ request' = [request EXCEPT ![q] = n] /\ n.at = "abandon"
        /\ n.kind = o.kind /\ n.id = o.id /\ n.new = o.new /\ n.on = o.on /\ n.carried = o.carried
  BY <1>1, Stage DEF WriteFails, Stages, Changing
<1>. PluginTyped  BY <1>1 DEF Stands
<1>4. o.at \in Bringing /\ o.at \in Holding /\ o.at \in Changing  BY <1>2 DEF Bringing, Holding, Changing
<1>5. o.id \in PluginIds /\ o.kind \in {"save", "update"} /\ KnowsPlugin(o) /\ KnowsNew(o)
  BY <1>1, <1>2, <1>4 DEF Stands, Knows
<1>6. PICK i \in 1..made : i = o.new  BY <1>4, <1>5 DEF KnowsNew
<1>7. 1..made \subseteq Instances /\ \A p \in PluginIds : plugins[p] # 0 => plugins[p] \in 1..made
  BY <1>1, PluginsAssumption DEF Stands, Tabled, PluginTyped, Instances
<1>8. /\ UNCHANGED <<made, plugins, failed, hooks, disk, flowAt, life, left, promised, foreign, unflushed>>
      /\ doubtful' = doubtful \cup {o.id} /\ inst' = [inst EXCEPT ![i].quit = TRUE]
  BY <1>1, <1>6 DEF WriteFails
<1>9. Quits(i)  BY <1>7, <1>8, QuitFields
<1>10. \A j \in Instances : InTable(j)' <=> InTable(j)  BY <1>8, <1>9 DEF InTable, Quits
<1>11. ~InTable(i)  BY <1>4, <1>5, <1>6 DEF KnowsNew
<1>12. PluginTyped'  BY <1>5, <1>8, <1>9 DEF PluginTyped, Quits
<1>13. n.at \notin Bringing /\ n.at \in Holding /\ n.at \in Changing /\ n.at \notin Making
  BY <1>3 DEF Bringing, Holding, Changing, Making
<1>14. Owned(n)'
  <2>. SUFFICES ASSUME NEW j \in 1..made
                PROVE  /\ inst'[j].quit \/ InTable(j)'
                       /\ inst'[j].shut \/ InTable(j)' \/ n.new = j
    BY <1>8, <1>13 DEF Owned
  <2>1. CASE j = i  BY <1>3, <1>6, <1>9, <2>1 DEF Quits
  <2>2. CASE j # i
    BY <1>1, <1>6, <1>7, <1>9, <1>10, <2>2 DEF Quits, Stands, Owned
  <2>. QED  BY <2>1, <2>2
<1>15. Tabled(n)'
  <2>1. \A p \in PluginIds : plugins[p] # 0 => plugins[p] # i
    BY <1>1, <1>11 DEF Stands, Tabled, InTable
  <2>. QED  BY <1>1, <1>2, <1>7, <1>8, <1>9, <2>1 DEF Quits, Stands, Tabled
<1>16. Piped(n)'
  <2>1. o.at \notin Rebuilding /\ o.at # "remove" /\ n.at # "register"
    BY <1>2, <1>3 DEF Rebuilding
  <2>2. hooks \subseteq Instances  BY DEF PluginTyped
  <2>. QED  BY <1>1, <1>8, <1>9, <1>10, <2>1, <2>2 DEF Quits, Stands, Piped
<1>17. Restartable(n)'
  BY <1>1, <1>7, <1>8, <1>9 DEF Quits, Stands, Restartable
<1>18. Dated(n)'
  <2>1. Dated(o)'  BY <1>1, <1>8, <1>9, QuitKeeps
  <2>. QED  BY <1>3, <2>1 DEF Dated
<1>19. Knows(n)'
  <2>1. KnowsPlugin(n)'
    <3>1. /\ disk[o.id].there /\ o.id \notin failed /\ o.carried = promised[o.id]
          /\ plugins[o.id] = 0 => life = "closed"
          /\ plugins[o.id] # 0 => o.on = inst[plugins[o.id]].enabled
      BY <1>4, <1>5 DEF KnowsPlugin
    <3>. QED  BY <1>3, <1>5, <1>7, <1>8, <1>9, <1>13, <3>1 DEF Quits, KnowsPlugin
  <2>2. KnowsNew(n)'
    <3>1. /\ inst[i].of = o.id /\ promised[o.id] \subseteq inst[i].store
          /\ inst[i].flusher = "writes" => promised[o.id] \subseteq inst[i].held
      BY <1>2, <1>4, <1>5, <1>6 DEF KnowsNew
    <3>2. /\ inst'[i].of = o.id /\ inst'[i].quit /\ promised[o.id] \subseteq inst'[i].store
          /\ inst'[i].flusher = "writes" => promised[o.id] \subseteq inst'[i].held
      BY <1>7, <1>9, <3>1 DEF Quits
    <3>. QED  BY <1>3, <1>6, <1>8, <1>13, <3>2 DEF KnowsNew
  <2>. QED  BY <1>3, <1>5, <2>1, <2>2 DEF Knows, Changing
<1>20. Stands(n)'
  BY <1>1, <1>8, <1>9, <1>12, <1>14, <1>15, <1>16, <1>17, <1>18, <1>19, QuitKeeps DEF Stands
<1>. QED  BY <1>2, <1>3, <1>20, RequestMoves

LEMMA SwapClosesKeeps ==
  ASSUME PluginInv, NEW q \in Requests, SwapCloses(q)
  PROVE  PluginInv'
<1>1. PICK o \in RequestStates : o = request[q] /\ Stands(o)
  BY TheRequest DEF SwapCloses, Under
<1>2. o.at = "swap" /\ Under(q) /\ life # "closing"  BY <1>1 DEF SwapCloses, Under, MuFree
<1>3. PICK n \in RequestStates :
        /\ request' = [request EXCEPT ![q] = n] /\ n.at = "closing"
        /\ n.kind = o.kind /\ n.id = o.id /\ n.new = o.new /\ n.on = o.on /\ n.carried = o.carried
  BY <1>1, Stage DEF SwapCloses, Stages, Changing
<1>. PluginTyped  BY <1>1 DEF Stands
<1>4. o.at \in Bringing /\ o.at \in Holding /\ o.at \in Changing  BY <1>2 DEF Bringing, Holding, Changing
<1>5. o.id \in PluginIds /\ o.kind \in {"save", "update"} /\ KnowsPlugin(o) /\ KnowsNew(o)
  BY <1>1, <1>2, <1>4 DEF Stands, Knows
<1>6. 1..made \subseteq Instances /\ \A p \in PluginIds : plugins[p] # 0 => plugins[p] \in 1..made
  BY <1>1, PluginsAssumption DEF Stands, Tabled, PluginTyped, Instances
<1>7. UNCHANGED <<made, plugins, failed, hooks, disk, flowAt, life, left, promised, foreign, doubtful, unflushed>>
  BY DEF SwapCloses
<1>8. /\ inst' \in [Instances -> InstStates]
      /\ \A j \in Instances :
           /\ inst'[j].of = inst[j].of /\ inst'[j].enabled = inst[j].enabled
           /\ inst'[j].store = inst[j].store /\ inst'[j].held = inst[j].held
           /\ inst'[j].flusher = inst[j].flusher /\ inst'[j].shut = inst[j].shut
           /\ inst[j].quit => inst'[j].quit
           /\ j # plugins[o.id] => inst'[j] = inst[j]
      /\ Instanced' /\ Unloaded' /\ Promised' /\ Clean' /\ Calling' /\ Dated(o)'
  <2>1. CASE plugins[o.id] = 0
    <3>1. UNCHANGED inst  BY <1>1, <2>1 DEF SwapCloses
    <3>2. PartsOnly  BY <1>7, <3>1 DEF PartsOnly, PluginTyped
    <3>3. Dated(o)'  BY <1>1, <1>7, <3>1 DEF Stands, Dated, Used
    <3>. QED  BY <1>1, <3>1, <3>2, <3>3, PartsKeep DEF PluginTyped
  <2>2. CASE plugins[o.id] # 0
    <3>1. PICK i \in 1..made : i = plugins[o.id]  BY <1>5, <1>6, <2>2
    <3>2. inst' = [inst EXCEPT ![i].quit = TRUE]  BY <1>1, <2>2, <3>1 DEF SwapCloses
    <3>3. Quits(i)  BY <1>6, <3>1, <3>2, QuitFields
    <3>4. Instanced' /\ Unloaded' /\ Promised' /\ Clean' /\ Calling' /\ Dated(o)'
      BY <1>1, <1>7, <3>3, QuitKeeps
    <3>5. inst' \in [Instances -> InstStates]  BY <3>3 DEF Quits
    <3>6. \A j \in Instances :
           /\ inst'[j].of = inst[j].of /\ inst'[j].enabled = inst[j].enabled
           /\ inst'[j].store = inst[j].store /\ inst'[j].held = inst[j].held
           /\ inst'[j].flusher = inst[j].flusher /\ inst'[j].shut = inst[j].shut
           /\ inst[j].quit => inst'[j].quit
           /\ j # plugins[o.id] => inst'[j] = inst[j]
      BY <3>1, <3>3 DEF Quits
    <3>. QED  BY <3>4, <3>5, <3>6
  <2>. QED  BY <2>1, <2>2
<1>9. \A j \in Instances : InTable(j)' <=> InTable(j)  BY <1>7, <1>8 DEF InTable
<1>10. PluginTyped'  BY <1>7, <1>8 DEF PluginTyped
<1>11. n.at \in Bringing /\ n.at \in Holding /\ n.at \in Changing /\ n.at \notin Making
  BY <1>3 DEF Bringing, Holding, Changing, Making
<1>12. Owned(n)'
  <2>. SUFFICES ASSUME NEW j \in 1..made
                PROVE  /\ inst'[j].quit \/ InTable(j)' \/ n.new = j
                       /\ inst'[j].shut \/ InTable(j)' \/ n.new = j
    BY <1>7, <1>11 DEF Owned
  <2>. QED  BY <1>1, <1>3, <1>6, <1>8, <1>9 DEF Stands, Owned
<1>13. Tabled(n)'
  <2>. SUFFICES ASSUME NEW p \in PluginIds, plugins[p] # 0
                PROVE  /\ plugins[p] <= made /\ inst'[plugins[p]].of = p /\ disk[p].there /\ p \notin failed
                       /\ inst'[plugins[p]].quit => o.id = p
    BY <1>3, <1>7 DEF Tabled
  <2>1. /\ plugins[p] <= made /\ inst[plugins[p]].of = p /\ disk[p].there /\ p \notin failed
        /\ ~inst[plugins[p]].quit
    BY <1>1, <1>2 DEF Stands, Tabled
  <2>2. inst'[plugins[p]].quit => plugins[p] = plugins[o.id]  BY <1>6, <1>8, <2>1
  <2>3. plugins[p] = plugins[o.id] => o.id = p  BY <1>1, <1>5, <2>1 DEF Stands, Tabled
  <2>. QED  BY <1>6, <1>8, <2>1, <2>2, <2>3
<1>14. Piped(n)'
  <2>1. o.at \notin Rebuilding /\ o.at # "remove" /\ n.at # "register"
    BY <1>2, <1>3 DEF Rebuilding
  <2>2. hooks \subseteq Instances  BY DEF PluginTyped
  <2>. QED  BY <1>1, <1>7, <1>8, <1>9, <2>1, <2>2 DEF Stands, Piped
<1>15. Restartable(n)'
  BY <1>1, <1>2, <1>6, <1>7, <1>8 DEF Stands, Restartable
<1>16. Dated(n)'  BY <1>3, <1>8 DEF Dated
<1>17. Knows(n)'
  <2>1. KnowsPlugin(n)'
    <3>1. /\ disk[o.id].there /\ o.id \notin failed /\ o.carried = promised[o.id]
          /\ plugins[o.id] = 0 => life = "closed"
          /\ plugins[o.id] # 0 => o.on = inst[plugins[o.id]].enabled
      BY <1>4, <1>5 DEF KnowsPlugin
    <3>. QED  BY <1>3, <1>5, <1>6, <1>7, <1>8, <1>11, <3>1 DEF KnowsPlugin
  <2>2. KnowsNew(n)'
    <3>1. /\ o.new \in 1..made /\ inst[o.new].of = o.id
          /\ ~inst[o.new].quit /\ ~InTable(o.new) /\ inst[o.new].enabled = o.on
          /\ promised[o.id] \subseteq inst[o.new].store
          /\ inst[o.new].flusher = "writes" => promised[o.id] \subseteq inst[o.new].held
      BY <1>2, <1>4, <1>5 DEF KnowsNew
    <3>2. o.new # plugins[o.id]  BY <3>1 DEF InTable
    <3>3. inst'[o.new] = inst[o.new] /\ ~InTable(o.new)'  BY <1>6, <1>8, <1>9, <3>1, <3>2
    <3>. QED  BY <1>3, <1>7, <1>11, <3>1, <3>3 DEF KnowsNew
  <2>. QED  BY <1>2, <1>3, <1>5, <1>7, <2>1, <2>2 DEF Knows, Changing
<1>18. Stands(n)'
  BY <1>8, <1>10, <1>12, <1>13, <1>14, <1>15, <1>16, <1>17 DEF Stands
<1>. QED  BY <1>2, <1>3, <1>18, RequestMoves

LEMMA EnterKeeps ==
  ASSUME PluginInv, NEW q \in Requests, SwapEnters(q) \/ Enter(q)
  PROVE  PluginInv'
<1>1. PICK o \in RequestStates : o = request[q] /\ Stands(o)
  BY TheRequest DEF SwapEnters, Enter, Under
<1>2. o.at \in {"closing", "enter"} /\ Under(q)  BY <1>1 DEF SwapEnters, Enter, Under
<1>3. PICK n \in RequestStates :
        /\ request' = [request EXCEPT ![q] = n] /\ n.at = "rebuild" /\ n.id = o.id
  BY <1>1, Stage DEF SwapEnters, Enter, Stages, Rebuilding
<1>. PluginTyped  BY <1>1 DEF Stands
<1>4. o.at \in Bringing /\ o.at \in Holding  BY <1>2 DEF Bringing, Holding
<1>5. PICK p \in PluginIds : p = o.id  BY <1>1, <1>2 DEF Stands, Knows
<1>6. KnowsPlugin(o) /\ KnowsNew(o)  BY <1>1, <1>2 DEF Stands, Knows
<1>7. PICK i \in 1..made : i = o.new  BY <1>4, <1>6 DEF KnowsNew
<1>8. /\ inst[i].of = p /\ ~inst[i].quit /\ ~InTable(i) /\ inst[i].enabled = o.on
      /\ promised[p] \subseteq inst[i].store
  BY <1>4, <1>5, <1>6, <1>7 DEF KnowsNew
<1>9. i \in Instances /\ i # 0 /\ i \in 0..MaxInstances  BY PluginsAssumption DEF PluginTyped, Instances
<1>10. /\ UNCHANGED <<inst, made, hooks, disk, flowAt, life, left, promised, foreign, doubtful, unflushed>>
       /\ plugins' = [plugins EXCEPT ![p] = i] /\ failed' \subseteq failed
  BY <1>1, <1>5, <1>7 DEF SwapEnters, Enter
<1>11. plugins[p] # 0 => inst[plugins[p]].shut
  <2>1. CASE SwapEnters(q)  BY <1>1, <1>5, <2>1 DEF SwapEnters
  <2>2. CASE Enter(q)
    <3>1. o.at = "enter" /\ o.kind = "create"  BY <1>1, <2>2 DEF Enter, Stands, Knows
    <3>2. plugins[p] = 0  BY <1>5, <1>6, <3>1 DEF KnowsPlugin, Making
    <3>. QED  BY <3>2
  <2>. QED  BY <2>1, <2>2
<1>12. disk[p].there /\ p \notin failed /\ (life = "runs" /\ p \notin doubtful =>
         Loads(disk[p]) /\ disk[p].manifest = OnOff(o.on))
  <2>1. CASE o.at = "closing"
    <3>1. o.kind # "create"  BY <1>1, <2>1 DEF Stands, Knows, Changing
    <3>2. /\ disk[p].there /\ p \notin failed /\ (plugins[p] = 0 => life = "closed")
          /\ plugins[p] # 0 => o.on = inst[plugins[p]].enabled
      BY <1>5, <1>6, <2>1, <3>1 DEF KnowsPlugin, Changing
    <3>. QED  BY <1>1, <2>1, <3>2 DEF Stands, Restartable
  <2>2. CASE o.at = "enter"
    <3>1. o.kind = "create"  BY <1>1, <2>2 DEF Stands, Knows
    <3>. QED  BY <1>5, <1>6, <2>2, <3>1 DEF KnowsPlugin, Making, Loads, OnOff
  <2>. QED  BY <1>2, <2>1, <2>2
<1>13. /\ plugins' \in [PluginIds -> 0..MaxInstances] /\ plugins'[p] = i
       /\ \A d \in PluginIds : d # p => plugins'[d] = plugins[d]
  BY <1>9, <1>10 DEF PluginTyped
<1>14. PluginTyped'  BY <1>10, <1>13 DEF PluginTyped
<1>15. Instanced' /\ Calling' /\ Clean'  BY <1>1, <1>10 DEF Stands, Instanced, Calling, Clean
<1>16. Unloaded'  BY <1>1, <1>10 DEF Stands, Unloaded
<1>17. Promised'
  <2>1. ~inst[i].shut  BY <1>1, <1>8 DEF Stands, Instanced
  <2>2. \A d \in PluginIds : d # p => plugins'[d] = plugins[d]  BY <1>13
  <2>. QED  BY <1>1, <1>8, <1>9, <1>10, <1>13, <2>1, <2>2 DEF Stands, Promised
<1>18. n.at \notin Bringing /\ n.at \notin Holding /\ n.at \in Rebuilding /\ n.at # "register"
  BY <1>3 DEF Bringing, Holding, Rebuilding
<1>19. Owned(n)'
  <2>. SUFFICES ASSUME NEW j \in 1..made
                PROVE  (inst[j].quit /\ inst[j].shut) \/ InTable(j)'
    BY <1>10 DEF Owned
  <2>1. inst[j].of \in PluginIds  BY <1>1 DEF Stands, Instanced
  <2>2. CASE j = i  BY <1>8, <1>10, <1>13, <2>2 DEF InTable
  <2>3. CASE j # i /\ InTable(j) /\ inst[j].of = p
    <3>1. inst[j].shut  BY <1>11, <2>3 DEF InTable
    <3>. QED  BY <1>1, <3>1 DEF Stands, Instanced
  <2>4. CASE j # i /\ InTable(j) /\ inst[j].of # p  BY <1>10, <1>13, <2>1, <2>4 DEF InTable
  <2>5. CASE j # i /\ ~InTable(j)  BY <1>1, <1>7, <2>5 DEF Stands, Owned
  <2>. QED  BY <2>2, <2>3, <2>4, <2>5
<1>20. Tabled(n)'
  <2>. SUFFICES ASSUME NEW d \in PluginIds, plugins'[d] # 0
                PROVE  /\ plugins'[d] <= made /\ inst[plugins'[d]].of = d /\ disk[d].there /\ d \notin failed
                       /\ inst[plugins'[d]].quit => life = "closing"
    BY <1>10 DEF Tabled
  <2>1. CASE d = p  BY <1>8, <1>12, <1>13, <2>1 DEF PluginTyped
  <2>2. CASE d # p  BY <1>1, <1>5, <1>13, <2>2 DEF Stands, Tabled
  <2>. QED  BY <2>1, <2>2
<1>21. Piped(n)'  BY <1>1, <1>10, <1>18 DEF Stands, Piped
<1>22. Restartable(n)'
  <2>. SUFFICES ASSUME NEW d \in PluginIds, life = "runs", d \notin doubtful, plugins'[d] # 0
                PROVE  Loads(disk[d]) /\ disk[d].manifest = OnOff(inst[plugins'[d]].enabled)
    BY <1>10 DEF Restartable
  <2>1. CASE d = p  BY <1>8, <1>12, <1>13, <2>1
  <2>2. CASE d # p  BY <1>1, <1>2, <1>13, <2>2 DEF Stands, Restartable
  <2>. QED  BY <2>1, <2>2
<1>23. Dated(n)'  BY <1>1, <1>3, <1>10 DEF Stands, Dated, Used
<1>24. Knows(n)'
  BY <1>3, <1>5 DEF Knows, KnowsPlugin, KnowsNew, Making, Changing, Holding, Bringing
<1>25. Stands(n)'
  BY <1>14, <1>15, <1>16, <1>17, <1>19, <1>20, <1>21, <1>22, <1>23, <1>24 DEF Stands
<1>. QED  BY <1>2, <1>3, <1>25, RequestMoves

LEMMA TakeKeeps ==
  ASSUME PluginInv, NEW q \in Requests, Take(q)
  PROVE  PluginInv'
<1>1. PICK o \in RequestStates : o = request[q] /\ Stands(o)
  BY TheRequest DEF Take, Under
<1>2. o.at = "begun" /\ o.kind = "delete" /\ Under(q) /\ life # "closing"  BY <1>1 DEF Take, Under, MuFree
<1>. PluginTyped  BY <1>1 DEF Stands
<1>3. PICK p \in PluginIds : p = o.id  BY <1>1, <1>2 DEF Stands, Knows
<1>4. PICK i \in 1..made : i = plugins[p] /\ inst[i].of = p /\ disk[p].there /\ p \notin failed /\ InTable(i)
  BY <1>1, <1>3, PluginsAssumption DEF Take, Stands, Tabled, PluginTyped, InTable
<1>5. i \in Instances /\ i # 0 /\ i \in 0..MaxInstances  BY PluginsAssumption DEF PluginTyped, Instances
<1>6. PICK n : n = [o EXCEPT !.at = "remove", !.new = i]  OBVIOUS
<1>7. n \in RequestStates /\ n.at = "remove" /\ n.new = i /\ n.id = p /\ n.kind = "delete"
  <2>1. "remove" \in Stages  BY DEF Stages, Holding
  <2>. QED  BY <1>2, <1>3, <1>5, <1>6, <2>1 DEF RequestStates
<1>8. request' = [request EXCEPT ![q] = n]  BY <1>1, <1>3, <1>4, <1>6 DEF Take
<1>9. /\ plugins' = [plugins EXCEPT ![p] = 0] /\ inst' = [inst EXCEPT ![i].quit = TRUE]
      /\ promised' = [promised EXCEPT ![p] = {}]
      /\ UNCHANGED <<made, failed, hooks, disk, flowAt, life, left, foreign, doubtful, unflushed>>
  BY <1>1, <1>3, <1>4 DEF Take
<1>10. Quits(i)  BY <1>5, <1>9, QuitFields
<1>11. /\ plugins' \in [PluginIds -> 0..MaxInstances] /\ plugins'[p] = 0
       /\ \A d \in PluginIds : d # p => plugins'[d] = plugins[d]
  <2>. 0 \in 0..MaxInstances  BY PluginsAssumption
  <2>. QED  BY <1>9 DEF PluginTyped
<1>12. /\ promised' \in [PluginIds -> SUBSET Writes] /\ promised'[p] = {}
       /\ \A d \in PluginIds : d # p => promised'[d] = promised[d]
  BY <1>9 DEF PluginTyped
<1>13. PluginTyped'  BY <1>9, <1>10, <1>11, <1>12 DEF Quits, PluginTyped
<1>14. 1..made \subseteq Instances /\ \A d \in PluginIds : plugins[d] # 0 => plugins[d] \in 1..made
  BY <1>1, PluginsAssumption DEF Stands, Tabled, PluginTyped, Instances
<1>15. \A j \in Instances : inst[j].quit => inst'[j].quit  BY <1>10 DEF Quits
<1>16. Instanced'
  <2>1. \A j \in Instances : j > made => inst'[j] = Unbuilt
    BY <1>1, <1>10 DEF Quits, Stands, Instanced, PluginTyped
  <2>. QED  BY <1>1, <1>9, <1>10, <1>14, <1>15, <2>1 DEF Quits, Stands, Instanced
<1>17. Calling'  BY <1>1, <1>9 DEF Stands, Calling
<1>18. Clean'
  <2>1. \A j \in 1..made : inst'[j].shut \/ inst'[j].store \cap foreign[inst'[j].of] = {}
    BY <1>1, <1>10, <1>14 DEF Quits, Stands, Clean
  <2>2. \A g \in Flows : \A j \in flowAt[g].calls : inst'[j].shut \/ g \notin foreign[inst'[j].of]
    BY <1>1, <1>10, <1>14 DEF Quits, Stands, Clean, Calling
  <2>. QED  BY <1>1, <1>9, <2>1, <2>2 DEF Stands, Clean
<1>19. Unloaded'
  BY <1>1, <1>4, <1>9, <1>10, <1>12, <1>14 DEF Quits, Stands, Unloaded, PluginTyped
<1>20. Promised'
  <2>. SUFFICES ASSUME NEW d \in PluginIds, d # p
                PROVE  /\ plugins[d] # 0 =>
                            /\ promised[d] \subseteq inst'[plugins[d]].store
                            /\ inst'[plugins[d]].shut /\ d \notin unflushed => promised[d] \subseteq disk[d].state
                       /\ plugins[d] = 0 /\ d \notin unflushed => promised[d] \subseteq disk[d].state
    BY <1>9, <1>11, <1>12 DEF Promised
  <2>. QED  BY <1>1, <1>10, <1>14 DEF Quits, Stands, Promised
<1>21. \A j \in 1..made : j # i => (InTable(j)' <=> InTable(j))
  <2>. SUFFICES ASSUME NEW j \in 1..made, j # i PROVE InTable(j)' <=> InTable(j)  OBVIOUS
  <2>1. inst'[j].of = inst[j].of /\ inst[j].of \in PluginIds  BY <1>1, <1>10, <1>14 DEF Quits, Stands, Instanced
  <2>2. CASE inst[j].of = p  BY <1>4, <1>11, <2>1, <2>2 DEF InTable
  <2>3. CASE inst[j].of # p  BY <1>11, <2>1, <2>3 DEF InTable
  <2>. QED  BY <2>2, <2>3
<1>22. o.at \notin Holding /\ o.at \notin Bringing /\ o.at \notin Rebuilding
       /\ n.at \in Holding /\ n.at \notin Bringing /\ n.at \notin Rebuilding /\ n.at \notin Making /\ n.at \notin Changing
  BY <1>2, <1>7 DEF Holding, Bringing, Rebuilding, Making, Changing
<1>23. Owned(n)'
  <2>. SUFFICES ASSUME NEW j \in 1..made
                PROVE  /\ inst'[j].quit \/ InTable(j)'
                       /\ inst'[j].shut \/ InTable(j)' \/ i = j
    BY <1>7, <1>9, <1>22 DEF Owned
  <2>1. CASE j = i  BY <1>10, <2>1 DEF Quits
  <2>2. CASE j # i  BY <1>1, <1>10, <1>14, <1>21, <1>22, <2>2 DEF Quits, Stands, Owned
  <2>. QED  BY <2>1, <2>2
<1>24. Tabled(n)'
  <2>. SUFFICES ASSUME NEW d \in PluginIds, d # p, plugins[d] # 0
                PROVE  /\ plugins[d] <= made /\ inst'[plugins[d]].of = d /\ disk[d].there /\ d \notin failed
                       /\ ~inst'[plugins[d]].quit
    BY <1>9, <1>11 DEF Tabled
  <2>1. /\ plugins[d] <= made /\ inst[plugins[d]].of = d /\ disk[d].there /\ d \notin failed
        /\ ~inst[plugins[d]].quit
    BY <1>1, <1>2 DEF Stands, Tabled
  <2>2. plugins[d] # i  BY <1>4, <2>1
  <2>. QED  BY <1>10, <1>14, <2>1, <2>2 DEF Quits
<1>25. Piped(n)'
  <2>1. /\ hooks \subseteq 1..made
        /\ life = "runs" =>
             /\ \A d \in PluginIds : plugins[d] # 0 => plugins[d] \in hooks
             /\ \A j \in hooks : ~InTable(j) =>
                  plugins[inst[j].of] = 0 /\ disk[inst[j].of].there /\ inst[j].shut
    BY <1>1, <1>2, <1>22 DEF Stands, Piped
  <2>2. \A j \in 1..made : inst'[j].of = inst[j].of /\ inst'[j].shut = inst[j].shut /\ inst[j].of \in PluginIds
    BY <1>1, <1>10, <1>14 DEF Quits, Stands, Instanced
  <2>3. \A d \in PluginIds : plugins[d] = 0 => plugins'[d] = 0  BY <1>11
  <2>4. \A d \in PluginIds : plugins'[d] # 0 => plugins'[d] = plugins[d]  BY <1>11
  <2>5. ASSUME NEW j \in hooks, life = "runs", ~InTable(j)'
        PROVE  plugins'[inst'[j].of] = 0 /\ disk[inst'[j].of].there /\ (inst'[j].shut \/ i = j)
    <3>1. CASE j = i  BY <1>4, <1>11, <2>2, <3>1
    <3>2. CASE j # i  BY <1>21, <2>1, <2>2, <2>3, <2>5, <3>2
    <3>. QED  BY <3>1, <3>2
  <2>. QED  BY <1>7, <1>9, <2>1, <2>4, <2>5 DEF Piped
<1>26. Restartable(n)'
  <2>. SUFFICES ASSUME NEW d \in PluginIds, d # p, life = "runs", d \notin doubtful, plugins[d] # 0
                PROVE  Loads(disk[d]) /\ disk[d].manifest = OnOff(inst'[plugins[d]].enabled)
    BY <1>9, <1>11 DEF Restartable
  <2>. QED  BY <1>1, <1>2, <1>10, <1>14 DEF Quits, Stands, Restartable
<1>27. Dated(n)'
  <2>1. \A w : Used(w)' => Used(w)  BY <1>9, <1>10 DEF Quits, Used
  <2>. QED  BY <1>1, <1>7, <1>9, <2>1 DEF Stands, Dated
<1>28. Knows(n)'
  <2>1. KnowsPlugin(n)'  BY <1>4, <1>7, <1>9, <1>11, <1>12, <1>22 DEF KnowsPlugin
  <2>2. inst'[i].of = p /\ inst'[i].quit  BY <1>4, <1>5, <1>10 DEF Quits
  <2>3. KnowsNew(n)'  BY <1>7, <1>9, <1>12, <1>22, <2>2 DEF KnowsNew
  <2>. QED  BY <1>7, <1>22, <2>1, <2>3 DEF Knows
<1>29. Stands(n)'
  BY <1>13, <1>16, <1>17, <1>18, <1>19, <1>20, <1>23, <1>24, <1>25, <1>26, <1>27, <1>28 DEF Stands
<1>. QED  BY <1>2, <1>7, <1>8, <1>29, RequestMoves

LEMMA MakeDirKeeps ==
  ASSUME PluginInv, NEW q \in Requests, MakeDir(q)
  PROVE  PluginInv'
<1>1. PICK o \in RequestStates : o = request[q] /\ Stands(o)
  BY TheRequest DEF MakeDir, Under
<1>2. o.at = "begun" /\ o.kind = "create" /\ Under(q) /\ life # "closing"
  BY <1>1 DEF MakeDir, Under, MuFree
<1>. PluginTyped  BY <1>1 DEF Stands
<1>3. PICK p \in PluginIds : p = o.id  BY <1>1, <1>2 DEF Stands, Knows
<1>4. plugins[p] = 0 /\ ~disk[p].there  BY <1>1, <1>3 DEF MakeDir
<1>5. PICK on \in BOOLEAN :
        /\ disk' = [disk EXCEPT ![p] = [NoDir EXCEPT !.there = TRUE, !.manifest = OnOff(on)]]
        /\ request' = [request EXCEPT ![q] = [o EXCEPT !.at = "source", !.on = on]]
  <2>1. PICK on \in BOOLEAN :
          /\ disk' = [disk EXCEPT ![request[q].id] = [NoDir EXCEPT !.there = TRUE, !.manifest = OnOff(on)]]
          /\ request' = [request EXCEPT ![q].at = "source", ![q].on = on]
    BY Zenon DEF MakeDir
  <2>. QED  BY <1>1, <1>3, <2>1
<1>6. PICK n : n = [o EXCEPT !.at = "source", !.on = on]  OBVIOUS
<1>7. /\ n \in RequestStates /\ n.at = "source" /\ n.id = p /\ n.kind = "create" /\ n.on = on
      /\ request' = [request EXCEPT ![q] = n]
  <2>1. "source" \in Stages  BY DEF Stages, Making
  <2>. QED  BY <1>2, <1>3, <1>5, <1>6, <2>1 DEF RequestStates
<1>8. /\ promised' = [promised EXCEPT ![p] = {}]
      /\ foreign' = [foreign EXCEPT ![p] = foreign[p] \cup UNION {inst[i].store : i \in Instances}]
      /\ doubtful' = doubtful \ {p}
      /\ UNCHANGED <<inst, made, plugins, failed, hooks, flowAt, life, left, unflushed>>
  BY <1>1, <1>3 DEF MakeDir
<1>9. PICK dir : dir = [NoDir EXCEPT !.there = TRUE, !.manifest = OnOff(on)]  OBVIOUS
<1>10. dir \in DirStates /\ dir.there /\ dir.manifest = OnOff(on) /\ dir.state = {}
  BY <1>9 DEF NoDir, DirStates, OnOff
<1>11. /\ disk' \in [PluginIds -> DirStates] /\ disk'[p] = dir
       /\ \A d \in PluginIds : d # p => disk'[d] = disk[d]
  BY <1>5, <1>9, <1>10 DEF PluginTyped
<1>12. /\ promised' \in [PluginIds -> SUBSET Writes] /\ promised'[p] = {}
       /\ \A d \in PluginIds : d # p => promised'[d] = promised[d]
  BY <1>8 DEF PluginTyped
<1>13. /\ foreign' \in [PluginIds -> SUBSET Writes]
       /\ \A d \in PluginIds : d # p => foreign'[d] = foreign[d]
       /\ \A w : w \in foreign'[p] => (w \in foreign[p] \/ \E i \in Instances : w \in inst[i].store)
  <2>0. PICK all : all = UNION {inst[i].store : i \in Instances}  OBVIOUS
  <2>1. PICK old : old = foreign[p] \cup UNION {inst[i].store : i \in Instances}  OBVIOUS
  <2>8. old = all \cup foreign[p]  BY <2>0, <2>1
  <2>2. \A i \in Instances : inst[i].store \in SUBSET Writes  BY DEF PluginTyped, InstStates
  <2>3. ASSUME NEW w \in old PROVE w \in foreign[p] \/ \E i \in Instances : w \in inst[i].store
    <3>1. CASE w \in all
      <4>1. PICK s \in {inst[i].store : i \in Instances} : w \in s  BY <2>0, <3>1
      <4>2. PICK i \in Instances : s = inst[i].store  BY <4>1
      <4>. QED  BY <4>1, <4>2
    <3>. QED  BY <2>8, <3>1
  <2>4. foreign[p] \in SUBSET Writes  BY DEF PluginTyped
  <2>5. old \in SUBSET Writes
    <3>1. \A w \in old : w \in Writes  BY <2>2, <2>3, <2>4
    <3>. QED  BY <3>1
  <2>6. foreign' = [foreign EXCEPT ![p] = old]  BY <1>8, <2>1
  <2>7. foreign' \in [PluginIds -> SUBSET Writes] /\ foreign'[p] = old
        /\ \A d \in PluginIds : d # p => foreign'[d] = foreign[d]
    BY <2>5, <2>6 DEF PluginTyped
  <2>. QED  BY <2>3, <2>7
<1>14. PluginTyped'  BY <1>8, <1>11, <1>12, <1>13 DEF PluginTyped
<1>15. Instanced' /\ Calling'  BY <1>1, <1>8 DEF Stands, Instanced, Calling
<1>16. p \notin failed  BY <1>1, <1>4 DEF Stands, Unloaded
<1>17. Unloaded'  BY <1>1, <1>8, <1>11, <1>12, <1>16 DEF Stands, Unloaded, PluginTyped
<1>18. Promised'
  <2>1. \A d \in PluginIds : d # p => disk'[d] = disk[d] /\ promised'[d] = promised[d]  BY <1>11, <1>12
  <2>. QED  BY <1>1, <1>8, <1>12, <2>1 DEF Stands, Promised
<1>19. o.at \notin Holding /\ o.at \notin Bringing /\ o.at \notin Rebuilding
       /\ n.at \notin Holding /\ n.at \notin Bringing /\ n.at \notin Rebuilding
       /\ n.at \in Making /\ n.at \notin Changing
  BY <1>2, <1>7 DEF Holding, Bringing, Rebuilding, Making, Changing
<1>20. \A i \in 1..made : inst[i].of = p => inst[i].shut
  <2>. SUFFICES ASSUME NEW i \in 1..made, inst[i].of = p PROVE inst[i].shut  OBVIOUS
  <2>1. ~InTable(i)  BY <1>4 DEF InTable
  <2>. QED  BY <1>1, <1>19, <2>1 DEF Stands, Owned
<1>21. Clean'
  <2>1. \A d \in PluginIds : disk'[d].state \cap foreign'[d] = {}
    BY <1>1, <1>10, <1>11, <1>13 DEF Stands, Clean
  <2>4. \A d \in PluginIds : promised'[d] \cap foreign'[d] = {}
    BY <1>1, <1>12, <1>13 DEF Stands, Clean
  <2>2. \A i \in 1..made : inst[i].shut \/ inst[i].store \cap foreign'[inst[i].of] = {}
    BY <1>1, <1>13, <1>20 DEF Stands, Clean, Instanced
  <2>3. \A f \in Flows : \A i \in flowAt[f].calls : inst[i].shut \/ f \notin foreign'[inst[i].of]
    BY <1>1, <1>13, <1>20 DEF Stands, Clean, Instanced, Calling
  <2>. QED  BY <1>8, <2>1, <2>2, <2>3, <2>4 DEF Clean
<1>22. Owned(n)'  BY <1>1, <1>8, <1>19 DEF Stands, Owned, InTable
<1>23. Tabled(n)'
  <2>1. \A d \in PluginIds : plugins[d] # 0 => disk'[d] = disk[d]  BY <1>4, <1>11
  <2>. QED  BY <1>1, <1>2, <1>8, <2>1 DEF Stands, Tabled
<1>24. life = "runs" => \A i \in hooks : inst[i].of # p
  <2>. SUFFICES ASSUME life = "runs", NEW i \in hooks, inst[i].of = p PROVE FALSE  OBVIOUS
  <2>1. ~InTable(i)
    <3>1. i # 0  BY DEF PluginTyped, Instances
    <3>. QED  BY <1>4, <3>1 DEF InTable
  <2>. QED  BY <1>1, <1>4, <1>19, <2>1 DEF Stands, Piped
<1>25. Piped(n)'
  <2>1. \A d \in PluginIds : disk[d].there => disk'[d].there  BY <1>10, <1>11
  <2>2. \A i \in hooks : inst[i].of \in PluginIds  BY <1>1 DEF Stands, Piped, Instanced
  <2>3. /\ hooks \subseteq 1..made
        /\ life = "runs" =>
             /\ \A d \in PluginIds : plugins[d] # 0 => plugins[d] \in hooks
             /\ \A j \in hooks : ~InTable(j) =>
                  plugins[inst[j].of] = 0 /\ disk[inst[j].of].there /\ inst[j].shut
    BY <1>1, <1>2, <1>19 DEF Stands, Piped
  <2>. QED  BY <1>7, <1>8, <2>1, <2>2, <2>3 DEF Piped, InTable
<1>26. Restartable(n)'
  <2>1. \A d \in PluginIds : plugins[d] # 0 => disk'[d] = disk[d] /\ (d \notin doubtful' => d \notin doubtful)
    BY <1>4, <1>8, <1>11
  <2>. QED  BY <1>1, <1>2, <1>8, <2>1 DEF Stands, Restartable
<1>27. Dated(n)'
  <2>1. \A d \in PluginIds : disk'[d].state \subseteq disk[d].state  BY <1>10, <1>11
  <2>2. \A w : Used(w)' => Used(w)  BY <1>8, <1>13, <2>1 DEF Used
  <2>. QED  BY <1>1, <1>2, <1>8, <2>2 DEF Stands, Dated
<1>28. Knows(n)'
  <2>1. KnowsPlugin(n)'
    BY <1>4, <1>7, <1>8, <1>10, <1>11, <1>12, <1>16, <1>19, <1>24 DEF KnowsPlugin
  <2>2. KnowsNew(n)'  BY <1>19 DEF KnowsNew
  <2>. QED  BY <1>7, <1>19, <2>1, <2>2 DEF Knows
<1>29. Stands(n)'
  BY <1>14, <1>15, <1>17, <1>18, <1>21, <1>22, <1>23, <1>25, <1>26, <1>27, <1>28 DEF Stands
<1>. QED  BY <1>2, <1>7, <1>29, RequestMoves

LEMMA EnableKeeps ==
  ASSUME PluginInv, NEW q \in Requests, Enable(q)
  PROVE  PluginInv'
<1>1. PICK o \in RequestStates : o = request[q] /\ Stands(o)
  BY TheRequest DEF Enable, Under
<1>2. o.at = "begun" /\ Under(q) /\ life # "closing"  BY <1>1 DEF Enable, Under, MuFree
<1>3. PICK n \in RequestStates : request' = [request EXCEPT ![q] = n] /\ n.at = "done"
  BY <1>1, Stage DEF Enable, Ended, Stages
<1>. PluginTyped  BY <1>1 DEF Stands
<1>4. PICK p \in PluginIds : p = o.id  BY <1>1, <1>2 DEF Stands, Knows
<1>5. PICK i \in 1..made : i = plugins[p] /\ inst[i].of = p
  BY <1>1, <1>4, PluginsAssumption DEF Enable, Stands, Tabled, PluginTyped
<1>6. i \in Instances /\ 1..made \subseteq Instances  BY PluginsAssumption DEF PluginTyped, Instances
<1>7. PICK on \in BOOLEAN, erred \in BOOLEAN,
          value \in {disk[p].manifest, "on", "off", "torn"} :
        /\ inst' = [inst EXCEPT ![i].enabled = on]
        /\ PutPart(p, "manifest", value)
        /\ value \in {disk[p].manifest, "torn", OnOff(on)} /\ (~erred => value = OnOff(on))
        /\ doubtful' = IF erred THEN doubtful \cup {p} ELSE doubtful
  BY <1>1, <1>4, <1>5 DEF Enable, OnOff
<1>8. UNCHANGED <<made, plugins, failed, hooks, flowAt, life, left, promised, foreign, unflushed>>
  BY DEF Enable
<1>9. value \in {"none", "on", "off", "torn"}  BY <1>7 DEF OnOff, PluginTyped, DirStates
<1>10. /\ disk' \in [PluginIds -> DirStates]
       /\ \A d \in PluginIds :
            /\ disk'[d].there = disk[d].there /\ disk'[d].state = disk[d].state
            /\ d # p => disk'[d] = disk[d]
       /\ disk'[p].manifest = value /\ disk'[p].source = disk[p].source
  BY <1>7, <1>9, PartPut
<1>11. /\ inst' \in [Instances -> InstStates]
       /\ \A j \in Instances :
            /\ inst'[j].of = inst[j].of /\ inst'[j].quit = inst[j].quit
            /\ inst'[j].store = inst[j].store /\ inst'[j].held = inst[j].held
            /\ inst'[j].flusher = inst[j].flusher /\ inst'[j].shut = inst[j].shut
            /\ j # i => inst'[j] = inst[j]
       /\ inst'[i].enabled = on
  <2>. inst[i] \in InstStates  BY <1>6 DEF PluginTyped
  <2>1. PICK s : s = [inst[i] EXCEPT !.enabled = on]  OBVIOUS
  <2>2. s \in InstStates  BY <2>1 DEF InstStates
  <2>3. inst' = [inst EXCEPT ![i] = s]  BY <1>7, <2>1
  <2>4. /\ s.of = inst[i].of /\ s.quit = inst[i].quit /\ s.store = inst[i].store
        /\ s.held = inst[i].held /\ s.flusher = inst[i].flusher /\ s.shut = inst[i].shut /\ s.enabled = on
    BY <2>1 DEF InstStates
  <2>5. inst' \in [Instances -> InstStates] /\ inst'[i] = s /\ \A j \in Instances : j # i => inst'[j] = inst[j]
    BY <1>6, <2>2, <2>3 DEF PluginTyped
  <2>. QED  BY <2>4, <2>5
<1>12. PluginTyped'  BY <1>7, <1>8, <1>10, <1>11 DEF PluginTyped
<1>13. \A j \in Instances : InTable(j)' <=> InTable(j)  BY <1>8, <1>11 DEF InTable
<1>14. \A d \in PluginIds : plugins[d] # 0 => plugins[d] \in 1..made /\ (d # p => plugins[d] # i)
  <2>. SUFFICES ASSUME NEW d \in PluginIds, plugins[d] # 0
                PROVE  plugins[d] \in 1..made /\ (d # p => plugins[d] # i)
    OBVIOUS
  <2>1. plugins[d] <= made /\ inst[plugins[d]].of = d  BY <1>1 DEF Stands, Tabled
  <2>. QED  BY <1>5, <2>1, PluginsAssumption DEF PluginTyped
<1>15. Instanced'
  <2>1. \A j \in Instances : j > made => inst'[j] = Unbuilt
    BY <1>1, <1>11 DEF Stands, Instanced, PluginTyped
  <2>. QED  BY <1>1, <1>6, <1>8, <1>11, <2>1 DEF Stands, Instanced
<1>16. Unloaded'  BY <1>1, <1>6, <1>8, <1>10, <1>11 DEF Stands, Unloaded, PluginTyped
<1>17. Promised'  BY <1>1, <1>6, <1>8, <1>10, <1>11, <1>14 DEF Stands, Promised
<1>18. Calling'  BY <1>1, <1>8 DEF Stands, Calling
<1>19. Clean'
  <2>1. \A j \in 1..made : inst'[j].shut \/ inst'[j].store \cap foreign[inst'[j].of] = {}
    BY <1>1, <1>6, <1>11 DEF Stands, Clean
  <2>2. \A g \in Flows : \A j \in flowAt[g].calls : inst'[j].shut \/ g \notin foreign[inst'[j].of]
    BY <1>1, <1>6, <1>11 DEF Stands, Clean, Calling
  <2>. QED  BY <1>1, <1>8, <1>10, <2>1, <2>2 DEF Stands, Clean
<1>20. o.at \notin Holding /\ o.at \notin Bringing /\ o.at \notin Rebuilding
  BY <1>2 DEF Holding, Bringing, Rebuilding
<1>21. Owned(n)'  BY <1>1, <1>6, <1>8, <1>11, <1>13, <1>20 DEF Stands, Owned
<1>22. Tabled(n)'  BY <1>1, <1>2, <1>6, <1>8, <1>10, <1>11, <1>14 DEF Stands, Tabled
<1>23. Piped(n)'
  <2>1. /\ hooks \subseteq 1..made
        /\ life = "runs" =>
             /\ \A d \in PluginIds : plugins[d] # 0 => plugins[d] \in hooks
             /\ \A j \in hooks : ~InTable(j) =>
                  plugins[inst[j].of] = 0 /\ disk[inst[j].of].there /\ inst[j].shut
    BY <1>1, <1>2, <1>20 DEF Stands, Piped
  <2>2. \A j \in hooks : inst[j].of \in PluginIds /\ inst'[j].of = inst[j].of /\ inst'[j].shut = inst[j].shut
    BY <1>1, <1>6, <1>11, <2>1 DEF Stands, Instanced
  <2>3. \A j \in hooks : InTable(j)' <=> InTable(j)  BY <1>6, <1>13, <2>1
  <2>. QED  BY <1>3, <1>8, <1>10, <2>1, <2>2, <2>3 DEF Piped
<1>24. Restartable(n)'
  <2>. SUFFICES ASSUME NEW d \in PluginIds, life = "runs", d \notin doubtful', plugins[d] # 0
                PROVE  Loads(disk'[d]) /\ disk'[d].manifest = OnOff(inst'[plugins[d]].enabled)
    BY <1>8 DEF Restartable
  <2>1. d \notin doubtful  BY <1>7
  <2>2. Loads(disk[d]) /\ disk[d].manifest = OnOff(inst[plugins[d]].enabled)
    BY <1>1, <1>2, <2>1 DEF Stands, Restartable
  <2>3. CASE d = p
    <3>1. value = OnOff(on)  BY <1>7, <2>3
    <3>. QED  BY <1>5, <1>10, <1>11, <2>2, <2>3, <3>1 DEF Loads, OnOff
  <2>4. CASE d # p  BY <1>6, <1>10, <1>11, <1>14, <2>2, <2>4
  <2>. QED  BY <2>3, <2>4
<1>25. Dated(n)'
  <2>1. \A w : Used(w)' => Used(w)  BY <1>8, <1>10, <1>11 DEF Used
  <2>. QED  BY <1>1, <1>3, <1>8, <2>1 DEF Stands, Dated
<1>26. Knows(n)'  BY <1>3 DEF Knows
<1>27. Stands(n)'
  BY <1>12, <1>15, <1>16, <1>17, <1>18, <1>19, <1>21, <1>22, <1>23, <1>24, <1>25, <1>26 DEF Stands
<1>. QED  BY <1>2, <1>3, <1>27, RequestMoves

LEMMA BuiltKeeps ==
  ASSUME PluginInv, NEW q \in Requests, Built(q)
  PROVE  PluginInv'
<1>1. PICK o \in RequestStates : o = request[q] /\ Stands(o)
  BY TheRequest DEF Built, Under
<1>2. o.at = "build" /\ Under(q) /\ made < MaxInstances  BY <1>1 DEF Built, Under
<1>. PluginTyped  BY <1>1 DEF Stands
<1>3. PICK p \in PluginIds : p = o.id  BY <1>1, <1>2 DEF Stands, Knows
<1>4. o.kind \in {"create", "save", "update"} /\ KnowsPlugin(o)  BY <1>1, <1>2 DEF Stands, Knows
<1>5. PICK i : i = made + 1  OBVIOUS
<1>6. /\ i \in Instances /\ i \in 0..MaxInstances /\ i > made /\ i \notin 1..made /\ i # 0
      /\ 1..i = (1..made) \cup {i} /\ 1..made \subseteq Instances
  <2>1. made \in Nat /\ i \in Nat /\ i = made + 1 /\ i <= MaxInstances  BY <1>2, <1>5, PluginsAssumption DEF PluginTyped
  <2>2. i \in Instances /\ i \in 0..MaxInstances  BY <2>1, PluginsAssumption DEF Instances
  <2>3. i > made /\ i \notin 1..made /\ i # 0  BY <2>1
  <2>4. 1..i = (1..made) \cup {i}  BY <2>1
  <2>5. 1..made \subseteq Instances  BY <2>1, PluginsAssumption DEF Instances
  <2>. QED  BY <2>2, <2>3, <2>4, <2>5
<1>7. PICK top \in {{}, {left.requests}} :
        inst' = [inst EXCEPT ![i] = Fresh(p, o.on, InitialStore(o), top)]
  BY <1>1, <1>3, <1>5 DEF Built
<1>8. PICK at \in {"enter", "write"} : at = IF o.kind = "create" THEN "enter" ELSE "write"  OBVIOUS
<1>9. PICK n : n = [o EXCEPT !.new = i, !.at = at]  OBVIOUS
<1>10. /\ n \in RequestStates /\ n.at = at /\ n.new = i /\ n.id = p /\ n.kind = o.kind
       /\ n.on = o.on /\ n.carried = o.carried
  <2>1. at \in Stages  BY <1>8 DEF Stages, Making, Changing
  <2>. QED  BY <1>3, <1>6, <1>9, <2>1 DEF RequestStates
<1>11. request' = [request EXCEPT ![q] = n]  BY <1>1, <1>5, <1>8, <1>9 DEF Built
<1>12. made' = i /\ UNCHANGED <<plugins, failed, hooks, disk, flowAt, life, left, promised, foreign, doubtful, unflushed>>
  BY <1>5 DEF Built
<1>13. PICK store : store = InitialStore(o) \cup top  OBVIOUS
(* Nothing foreign is carried over, but everything promised.               *)
<1>14. /\ InitialStore(o) \in SUBSET Writes /\ promised[p] \subseteq InitialStore(o)
       /\ InitialStore(o) \cap foreign[p] = {} /\ \A w \in InitialStore(o) : Used(w)
  <2>1. CASE o.kind = "create"
    <3>1. InitialStore(o) = disk[p].state  BY <1>3, <2>1 DEF InitialStore
    <3>2. promised[p] = {}  BY <1>2, <1>3, <1>4, <2>1 DEF KnowsPlugin, Making
    <3>3. disk[p].state \in SUBSET Writes  BY DEF PluginTyped, DirStates
    <3>4. \A w \in disk[p].state : Used(w)  BY DEF Used
    <3>. QED  BY <1>1, <3>1, <3>2, <3>3, <3>4 DEF Stands, Clean
  <2>2. CASE o.kind # "create"
    <3>1. InitialStore(o) = promised[p]
      BY <1>2, <1>3, <1>4, <2>2 DEF InitialStore, KnowsPlugin, Changing
    <3>2. promised[p] \in SUBSET Writes  BY DEF PluginTyped
    <3>3. \A w \in promised[p] : Used(w)  BY DEF Used
    <3>. QED  BY <1>1, <3>1, <3>2, <3>3 DEF Stands, Clean
  <2>. QED  BY <2>1, <2>2
<1>15. /\ top \in SUBSET Writes /\ top \cap foreign[p] = {}
       /\ \A w \in top : w = left.requests /\ w \in 0..MaxRequests /\ w \notin Flows
  <2>1. left.requests \in 0..MaxRequests /\ left.requests \notin Flows
    BY PluginsAssumption DEF PluginTyped
  <2>2. left.requests \notin foreign[p]
    <3>1. Used(left.requests) => left.requests > left.requests  BY <1>1, <1>2, <2>1 DEF Stands, Dated
    <3>2. ~(left.requests > left.requests)  BY <2>1, PluginsAssumption
    <3>. QED  BY <3>1, <3>2 DEF Used
  <2>. QED  BY <1>7, <2>1, <2>2 DEF Writes
<1>16. PICK fresh : fresh = Fresh(p, o.on, InitialStore(o), top)  OBVIOUS
<1>17. /\ fresh \in InstStates /\ fresh.of = p /\ fresh.enabled = o.on /\ fresh.store = store
       /\ ~fresh.quit /\ fresh.flusher = "waits" /\ fresh.held = {} /\ ~fresh.shut
  <2>1. store \in SUBSET Writes  BY <1>13, <1>14, <1>15
  <2>2. (top # {}) \in BOOLEAN /\ o.on \in BOOLEAN  BY DEF RequestStates
  <2>. QED  BY <1>13, <1>16, <2>1, <2>2 DEF Fresh, InstStates
<1>18. /\ inst' \in [Instances -> InstStates] /\ inst'[i] = fresh
       /\ \A j \in Instances : j # i => inst'[j] = inst[j]
  BY <1>6, <1>7, <1>16, <1>17 DEF PluginTyped
<1>19. \A j \in 1..made : inst'[j] = inst[j] /\ j # i  BY <1>6, <1>18
<1>20. PluginTyped'  BY <1>6, <1>12, <1>18 DEF PluginTyped
<1>21. \A d \in PluginIds : plugins[d] # 0 => plugins[d] \in 1..made
  BY <1>1, PluginsAssumption DEF Stands, Tabled, PluginTyped
<1>22. \A j \in 1..made : InTable(j)' <=> InTable(j)  BY <1>12, <1>19 DEF InTable
<1>23. ~InTable(i)'
  <2>1. plugins[p] # i  BY <1>6, <1>21
  <2>. QED  BY <1>12, <1>17, <1>18, <2>1 DEF InTable
<1>24. Instanced'
  <2>1. \A j \in 1..made :
          /\ inst'[j].of \in PluginIds /\ inst'[j].held \subseteq inst'[j].store
          /\ inst'[j].shut => inst'[j].flusher = "ended"
          /\ inst'[j].flusher = "ended" => inst'[j].quit
    BY <1>1, <1>19 DEF Stands, Instanced
  <2>2. \A j \in Instances : j > i => inst'[j] = Unbuilt
    <3>1. \A j \in Instances : j > i => j > made /\ j # i
      BY <1>5, PluginsAssumption DEF PluginTyped, Instances
    <3>. QED  BY <1>1, <1>18, <3>1 DEF Stands, Instanced
  <2>3. 1..made' = (1..made) \cup {i}  BY <1>6, <1>12
  <2>. QED  BY <1>12, <1>17, <1>18, <2>1, <2>2, <2>3 DEF Instanced
<1>25. p \notin failed /\ (life = "runs" /\ o.kind = "create" => \A j \in hooks : inst[j].of # p)
  BY <1>2, <1>3, <1>4 DEF KnowsPlugin, Making, Changing
<1>26. 1..made' = (1..made) \cup {i}  BY <1>6, <1>12
<1>27. Unloaded'
  BY <1>1, <1>12, <1>17, <1>18, <1>19, <1>25, <1>26 DEF Stands, Unloaded
<1>28. Promised'  BY <1>1, <1>12, <1>19, <1>21 DEF Stands, Promised
<1>29. Calling'  BY <1>1, <1>12, <1>26 DEF Stands, Calling
<1>30. Clean'
  <2>1. \A j \in 1..made' : inst'[j].shut \/ inst'[j].store \cap foreign[inst'[j].of] = {}
    <3>1. inst'[i].store \cap foreign[inst'[i].of] = {}  BY <1>13, <1>14, <1>15, <1>17, <1>18
    <3>. QED  BY <1>1, <1>19, <1>26, <3>1 DEF Stands, Clean
  <2>2. \A g \in Flows : \A j \in flowAt[g].calls : inst'[j].shut \/ g \notin foreign[inst'[j].of]
    BY <1>1, <1>19 DEF Stands, Clean, Calling
  <2>. QED  BY <1>1, <1>12, <2>1, <2>2 DEF Stands, Clean
<1>31. /\ o.at \notin Bringing /\ o.at \notin Holding /\ o.at \notin Rebuilding
       /\ n.at \in Bringing /\ n.at \in Holding /\ n.at \notin Rebuilding
  BY <1>2, <1>8, <1>10 DEF Bringing, Holding, Rebuilding
<1>32. Owned(n)'
  BY <1>1, <1>10, <1>19, <1>22, <1>26, <1>31 DEF Stands, Owned
<1>33. Tabled(n)'
  <2>1. \A d \in PluginIds : plugins[d] # 0 => plugins[d] <= made' /\ inst'[plugins[d]] = inst[plugins[d]]
    BY <1>5, <1>12, <1>19, <1>21, PluginsAssumption DEF PluginTyped
  <2>. QED  BY <1>1, <1>2, <1>12, <2>1 DEF Stands, Tabled
<1>34. Piped(n)'
  <2>1. hooks \subseteq 1..made  BY <1>1 DEF Stands, Piped
  <2>2. \A j \in hooks : inst'[j] = inst[j] /\ (InTable(j)' <=> InTable(j))  BY <1>19, <1>22, <2>1
  <2>. QED  BY <1>1, <1>2, <1>12, <1>26, <1>31, <2>1, <2>2, <1>8, <1>10 DEF Stands, Piped
<1>35. Restartable(n)'
  <2>1. \A d \in PluginIds : plugins[d] # 0 => inst'[plugins[d]] = inst[plugins[d]]  BY <1>19, <1>21
  <2>. QED  BY <1>1, <1>2, <1>12, <2>1 DEF Stands, Restartable
<1>36. Dated(n)'
  <2>1. \A w : Used(w)' => Used(w) \/ w \in top
    <3>1. \A w : w \in inst'[i].store => Used(w) \/ w \in top  BY <1>13, <1>14, <1>17, <1>18
    <3>. QED  BY <1>12, <1>18, <3>1 DEF Used
  <2>2. \A f \in Flows : Used(f)' => Used(f)  BY <1>15, <2>1
  <2>3. n.at \notin {"begun", "source", "build"}  BY <1>8, <1>10
  <2>4. \A m \in 0..MaxRequests : Used(m)' => m >= left.requests
    <3>. SUFFICES ASSUME NEW m \in 0..MaxRequests, Used(m)' PROVE m >= left.requests  OBVIOUS
    <3>1. CASE Used(m)  BY <1>1, <3>1 DEF Stands, Dated
    <3>2. CASE m \in top
      <4>1. m = left.requests  BY <1>15, <3>2
      <4>. QED  BY <4>1, PluginsAssumption
    <3>. QED  BY <2>1, <3>1, <3>2
  <2>. QED  BY <1>1, <1>12, <2>2, <2>3, <2>4 DEF Stands, Dated
<1>37. Knows(n)'
  <2>1. KnowsNew(n)'
    <3>1. n.new \in 1..made'  BY <1>10, <1>26
    <3>2. promised[p] \subseteq store  BY <1>13, <1>14
    <3>. QED  BY <1>10, <1>12, <1>17, <1>18, <1>23, <1>31, <3>1, <3>2 DEF KnowsNew
  <2>2. KnowsPlugin(n)'
    <3>1. CASE o.kind = "create"
      <4>1. /\ plugins[p] = 0 /\ promised[p] = {}
            /\ disk[p].there /\ disk[p].manifest = OnOff(o.on) /\ disk[p].source = "good"
        BY <1>2, <1>3, <1>4, <3>1 DEF KnowsPlugin, Making
      <4>2. life = "runs" => \A j \in hooks : inst'[j].of # p
        <5>1. hooks \subseteq 1..made  BY <1>1 DEF Stands, Piped
        <5>. QED  BY <1>19, <1>25, <3>1, <5>1
      <4>3. n.at = "enter" /\ n.kind = "create"  BY <1>8, <1>10, <3>1
      <4>. QED  BY <1>10, <1>12, <1>25, <4>1, <4>2, <4>3 DEF KnowsPlugin
    <3>2. CASE o.kind # "create"
      <4>1. /\ disk[p].there /\ o.carried = promised[p]
            /\ plugins[p] = 0 => life = "closed"
            /\ plugins[p] # 0 => o.on = inst[plugins[p]].enabled
        BY <1>2, <1>3, <1>4, <3>2 DEF KnowsPlugin, Changing
      <4>2. plugins[p] # 0 => inst'[plugins[p]] = inst[plugins[p]]  BY <1>19, <1>21
      <4>3. n.at = "write" /\ n.kind # "create"  BY <1>8, <1>10, <3>2
      <4>. QED  BY <1>10, <1>12, <1>25, <4>1, <4>2, <4>3 DEF KnowsPlugin, Making
    <3>. QED  BY <3>1, <3>2
  <2>. QED  BY <1>4, <1>8, <1>10, <2>1, <2>2 DEF Knows, Changing
<1>38. Stands(n)'
  BY <1>20, <1>24, <1>27, <1>28, <1>29, <1>30, <1>32, <1>33, <1>34, <1>35, <1>36, <1>37 DEF Stands
<1>. QED  BY <1>2, <1>10, <1>11, <1>38, RequestMoves

-----------------------------------------------------------------------------
LEMMA PluginsStepKeeps == PluginInv /\ [PluginsNext]_pluginVars => PluginInv'
<1>. SUFFICES ASSUME PluginInv, [PluginsNext]_pluginVars PROVE PluginInv'  OBVIOUS
<1>1. CASE \E q \in Requests : RequestStep(q)
  <2>1. PICK q \in Requests : RequestStep(q)  BY <1>1
  <2>2. CASE \E kind \in {"save", "update", "create", "delete", "enable"}, p \in PluginIds : Begin(q, kind, p)
    BY <2>2, BeginKeeps
  <2>3. CASE NotFound(q)  BY <2>3, NotFoundKeeps
  <2>4. CASE Snapshot(q)  BY <2>4, SnapshotKeeps
  <2>5. CASE Built(q)  BY <2>5, BuiltKeeps
  <2>6. CASE BuildFails(q)  BY <2>6, BuildFailsKeeps
  <2>7. CASE Truncate(q) \/ Fill(q) \/ WriteSource(q)  BY <2>7, FileKeeps
  <2>8. CASE WriteFails(q)  BY <2>8, WriteFailsKeeps
  <2>9. CASE Abandoned(q)  BY <2>9, AbandonedKeeps
  <2>10. CASE SwapCloses(q)  BY <2>10, SwapClosesKeeps
  <2>11. CASE SwapEnters(q) \/ Enter(q)  BY <2>11, EnterKeeps
  <2>12. CASE ClearHooks(q)  BY <2>12, ClearHooksKeeps
  <2>13. CASE RegisterHook(q)  BY <2>13, RegisterHookKeeps
  <2>14. CASE MakeDir(q)  BY <2>14, MakeDirKeeps
  <2>15. CASE CreateFails(q)  BY <2>15, CreateFailsKeeps
  <2>16. CASE Take(q)  BY <2>16, TakeKeeps
  <2>17. CASE RemoveDir(q)  BY <2>17, RemoveDirKeeps
  <2>18. CASE RemoveFails(q)  BY <2>18, RemoveFailsKeeps
  <2>19. CASE RemoveFailed(q)  BY <2>19, RemoveFailedKeeps
  <2>20. CASE Enable(q)  BY <2>20, EnableKeeps
  <2>. QED
    BY <2>1, <2>2, <2>3, <2>4, <2>5, <2>6, <2>7, <2>8, <2>9, <2>10, <2>11, <2>12, <2>13, <2>14,
       <2>15, <2>16, <2>17, <2>18, <2>19, <2>20 DEF RequestStep
<1>2. CASE \E f \in Flows : ListHooks(f) \/ MarkDirty(f) \/ \E i \in Instances : StoreSet(f, i)
  <2>1. UNCHANGED request  BY <1>2 DEF ListHooks, MarkDirty, StoreSet
  <2>2. ASSUME NEW r \in RequestStates, Stands(r) PROVE Stands(r)'
    BY <1>2, <2>2, ListHooksKeeps, MarkDirtyKeeps, StoreSetKeeps
  <2>. QED  BY <2>1, <2>2, RequestsRest
<1>3. CASE \E i \in Instances :
             FlushMarshals(i) \/ FlushWrites(i) \/ FlusherQuits(i) \/ FinalFlush(i) \/ CloseOne(i)
  <2>1. UNCHANGED request
    BY <1>3 DEF FlushMarshals, FlushWrites, FlusherQuits, FinalFlush, CloseOne
  <2>2. ASSUME NEW r \in RequestStates, Stands(r) PROVE Stands(r)'
    BY <1>3, <2>2, FlushersKeep, CloseOneKeeps
  <2>. QED  BY <2>1, <2>2, RequestsRest
<1>4. CASE CloseBegins
  <2>1. UNCHANGED request  BY <1>4 DEF CloseBegins
  <2>. QED  BY <1>4, <2>1, CloseBeginsKeeps, RequestsRest
<1>5. CASE CloseEnds
  <2>1. UNCHANGED request  BY <1>5 DEF CloseEnds
  <2>. QED  BY <1>5, <2>1, CloseEndsKeeps, RequestsRest
<1>6. CASE Restart  BY <1>6, RestartKeeps
<1>7. CASE UNCHANGED pluginVars
  <2>. USE <1>7 DEF pluginVars
  <2>1. ASSUME NEW r \in RequestStates, Stands(r) PROVE Stands(r)'
    <3>1. PluginTyped'  BY <2>1 DEF Stands, PluginTyped
    <3>2. PartsOnly  BY <2>1 DEF Stands, PluginTyped, PartsOnly
    <3>3. Owned(r)' /\ Tabled(r)' /\ Restartable(r)'
      BY <2>1 DEF Stands, Owned, InTable, Tabled, Restartable
    <3>4. Piped(r)'  BY <2>1 DEF Stands, Piped, InTable
    <3>5. Dated(r)'  BY <2>1 DEF Stands, Dated, Used
    <3>6. Knows(r)'  BY <2>1 DEF Stands, Knows, KnowsPlugin, KnowsNew, InTable
    <3>. QED  BY <2>1, <3>1, <3>2, <3>3, <3>4, <3>5, <3>6, PartsKeep DEF Stands
  <2>. QED  BY <2>1, RequestsRest
<1>. QED  BY <1>1, <1>2, <1>3, <1>4, <1>5, <1>6, <1>7 DEF PluginsNext

LEMMA PluginsInvSound == PluginInv => PluginsSound
<1>. SUFFICES ASSUME PluginInv PROVE PluginsSound  OBVIOUS
<1>1. PICK r \in RequestStates : Stands(r)  BY Data
<1>. PluginTyped  BY <1>1 DEF Stands
<1>2. \A i \in Instances : i \in 1..made \/ i > made
  BY PluginsAssumption DEF PluginTyped, Instances
<1>3. \A p \in PluginIds : plugins[p] # 0 => plugins[p] \in 1..made /\ inst[plugins[p]].of = p
  BY <1>1, PluginsAssumption DEF Stands, Tabled, PluginTyped
<1>4. PluginsTypeOK
  <2>1. ASSUME NEW i \in Instances
        PROVE  /\ inst[i].store \subseteq Writes /\ inst[i].held \subseteq Writes
               /\ inst[i].shut => inst[i].flusher = "ended" /\ (i <= made => inst[i].quit)
    <3>1. inst[i].store \subseteq Writes /\ inst[i].held \subseteq Writes  BY DEF PluginTyped, InstStates
    <3>2. i > made => inst[i].flusher = "ended" /\ ~(i <= made)
      BY <1>1, PluginsAssumption DEF Stands, Instanced, Unbuilt, PluginTyped, Instances
    <3>3. i \in 1..made /\ inst[i].shut => inst[i].flusher = "ended" /\ inst[i].quit
      BY <1>1 DEF Stands, Instanced
    <3>. QED  BY <1>2, <3>1, <3>2, <3>3
  <2>. QED  BY <1>3, <2>1 DEF PluginsTypeOK, PluginTyped
<1>5. ASSUME life = "runs", \A q \in Requests : ~Under(q)
      PROVE  /\ \A i \in 1..made : i \in Loaded <=> ~inst[i].quit
             /\ Loaded \subseteq hooks
             /\ \A i \in hooks \ Loaded :
                   inst[i].shut /\ plugins[inst[i].of] = 0 /\ disk[inst[i].of].there
             /\ \A p \in PluginIds \ doubtful : plugins[p] # 0 =>
                   Loads(disk[p]) /\ disk[p].manifest = OnOff(inst[plugins[p]].enabled)
  <2>1. Stands(NoRequest)  BY <1>5 DEF PluginInv
  <2>2. Loaded \subseteq 1..made /\ \A i \in 1..made : i \in Loaded <=> InTable(i)  BY <2>1, LoadedIs
  <2>3. /\ NoRequest.at = "idle" /\ NoRequest.at \notin Bringing /\ NoRequest.at \notin Rebuilding
    BY DEF NoRequest, Bringing, Rebuilding
  <2>4. \A i \in 1..made : inst[i].quit \/ InTable(i)  BY <2>1, <2>3 DEF Stands, Owned
  <2>5. \A p \in PluginIds : plugins[p] # 0 => ~inst[plugins[p]].quit  BY <1>5, <2>1, <2>3 DEF Stands, Tabled
  <2>6. \A i \in 1..made : i \in Loaded <=> ~inst[i].quit
    BY <2>2, <2>4, <2>5 DEF Loaded
  <2>7. /\ hooks \subseteq 1..made /\ \A p \in PluginIds : plugins[p] # 0 => plugins[p] \in hooks
        /\ \A i \in hooks : ~InTable(i) => plugins[inst[i].of] = 0 /\ disk[inst[i].of].there /\ inst[i].shut
    BY <1>5, <2>1, <2>3 DEF Stands, Piped
  <2>8. Loaded \subseteq hooks  BY <2>7 DEF Loaded
  <2>9. \A i \in hooks \ Loaded : inst[i].shut /\ plugins[inst[i].of] = 0 /\ disk[inst[i].of].there
    BY <2>2, <2>7
  <2>10. \A p \in PluginIds \ doubtful : plugins[p] # 0 =>
           Loads(disk[p]) /\ disk[p].manifest = OnOff(inst[plugins[p]].enabled)
    BY <1>5, <2>1, <2>3 DEF Stands, Restartable
  <2>. QED  BY <2>6, <2>8, <2>9, <2>10
<1>6. PluginsAgree  BY <1>4, <1>5 DEF PluginsAgree
<1>7. StoreCarried  BY <1>1 DEF Stands, Promised, Clean, StoreCarried
<1>. QED  BY <1>6, <1>7 DEF PluginsSound

(* PluginsSound, for any number of plugins, requests, flows and restarts:  *)
(* the table, the pipeline and the directories agree between requests, and *)
(* a store survives every change of its plugin and every clean stop        *)
(* (internal/plugin/manager.go, internal/plugin/js/plugin.go).             *)
THEOREM PluginsStaySound == PluginsSpec => []PluginsSound
<1>1. PluginsInit => PluginInv  BY PluginsStart
<1>2. PluginInv /\ [PluginsNext]_pluginVars => PluginInv'  BY PluginsStepKeeps
<1>3. PluginInv => PluginsSound  BY PluginsInvSound
<1>. QED  BY <1>1, <1>2, <1>3, PTL DEF PluginsSpec

-----------------------------------------------------------------------------
(* The account of the upstream proxy.                                      *)

LEMMA MigratedTyped ==
  ASSUME NEW c \in Accounts
  PROVE  Migrated(c) \in Accounts
<1>1. CASE ~Embedded(c.addr)  BY <1>1 DEF Migrated
<1>2. CASE Embedded(c.addr)
  <2>1. c.addr.creds[1] \in Texts /\ c.addr.creds[2] \in Texts
    BY <1>2 DEF Embedded, Accounts, Addresses
  <2>2. PICK a \in Addresses : a = [c.addr EXCEPT !.creds = NoCreds]
    BY <1>2 DEF Embedded, Readable, Accounts, Addresses
  <2>3. /\ [c EXCEPT !.addr = a] \in Accounts
        /\ [c EXCEPT !.addr = a, !.auth = TRUE, !.user = c.addr.creds[1], !.pass = c.addr.creds[2]] \in Accounts
    BY <2>1 DEF Accounts
  <2>. QED  BY <1>2, <2>2, <2>3 DEF Migrated
<1>. QED  BY <1>1, <1>2

LEMMA NormalizeTyped ==
  ASSUME NEW c \in Accounts
  PROVE  Normalize(c) \in Accounts
<1>1. PICK m \in Accounts : m = Migrated(c)  BY MigratedTyped
<1>2. m \in Accounts /\ [m EXCEPT !.pass = ""] \in Accounts  BY TextsAssumption DEF Accounts
<1>. QED  BY <1>1, <1>2 DEF Normalize

AccountTyped == account \in Accounts

LEMMA ReconfigureTyped ==
  ASSUME AccountTyped, Reconfigure
  PROVE  AccountTyped'
<1>. USE DEF AccountTyped
<1>1. PICK n \in Accounts : n = Normalize(account)  BY NormalizeTyped
<1>2. [n EXCEPT !.on = ~@] \in Accounts  BY DEF Accounts
<1>3. [n EXCEPT !.auth = ~@] \in Accounts  BY DEF Accounts
<1>4. ASSUME NEW t \in Texts
      PROVE [n EXCEPT !.user = t] \in Accounts /\ [n EXCEPT !.pass = t] \in Accounts
  BY DEF Accounts
<1>5. ASSUME NEW a \in Addresses PROVE [n EXCEPT !.addr = a] \in Accounts
  BY DEF Accounts
<1>. QED  BY <1>1, <1>2, <1>3, <1>4, <1>5 DEF Reconfigure

(* Whether the account in an old address becomes that of the fields.       *)
Moves(c) ==
  Embedded(c.addr) /\ ~Given(c.user, c.pass) /\ Given(c.addr.creds[1], c.addr.creds[2])

LEMMA Normalized ==
  ASSUME NEW c \in Accounts, NEW n, n = Normalize(c)
  PROVE  /\ n \in Accounts /\ n.on = c.on
         /\ n.addr = [c.addr EXCEPT !.creds = IF Embedded(c.addr) THEN NoCreds ELSE @]
         /\ n.auth <=> c.auth \/ Moves(c)
         /\ n.user = IF Moves(c) THEN c.addr.creds[1] ELSE c.user
         /\ n.pass = IF Moves(c) THEN c.addr.creds[2] ELSE IF c.auth THEN c.pass ELSE ""
<1>1. PICK m \in Accounts : m = Migrated(c)  BY MigratedTyped
<1>2. n \in Accounts  BY NormalizeTyped
<1>3. /\ n.on = m.on /\ n.addr = m.addr /\ n.user = m.user /\ n.auth = m.auth
      /\ n.pass = IF m.auth THEN m.pass ELSE ""
  BY <1>1 DEF Normalize, Accounts
<1>4. /\ m.on = c.on
      /\ m.addr = [c.addr EXCEPT !.creds = IF Embedded(c.addr) THEN NoCreds ELSE @]
      /\ m.auth <=> c.auth \/ Moves(c)
      /\ m.user = IF Moves(c) THEN c.addr.creds[1] ELSE c.user
      /\ m.pass = IF Moves(c) THEN c.addr.creds[2] ELSE c.pass
  <2>1. CASE ~Embedded(c.addr)
    <3>1. m = c /\ ~Moves(c)  BY <1>1, <2>1 DEF Migrated, Moves
    <3>2. c.addr = [c.addr EXCEPT !.creds = @]  BY DEF Accounts, Addresses
    <3>. QED  BY <2>1, <3>1, <3>2
  <2>2. CASE Moves(c)
    <3>1. m = [c EXCEPT !.addr.creds = NoCreds, !.auth = TRUE, !.user = c.addr.creds[1], !.pass = c.addr.creds[2]]
      BY <1>1, <2>2 DEF Migrated, Moves
    <3>. QED  BY <2>2, <3>1 DEF Accounts, Addresses, Moves
  <2>3. CASE Embedded(c.addr) /\ ~Moves(c)
    <3>1. m = [c EXCEPT !.addr.creds = NoCreds]
      BY <1>1, <2>3 DEF Migrated, Moves
    <3>. QED  BY <2>3, <3>1 DEF Accounts, Addresses
  <2>. QED  BY <2>1, <2>2, <2>3 DEF Moves
<1>. QED  BY <1>2, <1>3, <1>4

LEMMA SameAccount ==
  ASSUME NEW c \in Accounts, NEW d \in Accounts,
         c.on <=> d.on, c.auth <=> d.auth, c.user = d.user, c.pass = d.pass,
         c.addr.host = d.addr.host, c.addr.creds = d.addr.creds, c.addr.fault = d.addr.fault
  PROVE  c = d
<1>1. c.addr = d.addr
  <2>1. /\ c.addr \in [host : Upstreams, creds : {NoCreds} \cup (Texts \X Texts), fault : {"none", "host", "creds"}]
        /\ d.addr \in [host : Upstreams, creds : {NoCreds} \cup (Texts \X Texts), fault : {"none", "host", "creds"}]
    BY DEF Accounts, Addresses
  <2>. QED  BY <2>1
<1>2. c.on = d.on /\ c.auth = d.auth  BY DEF Accounts
<1>. QED  BY <1>1, <1>2 DEF Accounts

(* What is normalised has nothing embedded, and stays as it is.            *)
LEMMA Settled ==
  ASSUME NEW c \in Accounts, NEW n \in Accounts, n = Normalize(c)
  PROVE  ~Embedded(n.addr) /\ Normalize(n) = n
<1>1. /\ n.addr = [c.addr EXCEPT !.creds = IF Embedded(c.addr) THEN NoCreds ELSE @]
      /\ n.auth <=> c.auth \/ Moves(c)
      /\ n.pass = IF Moves(c) THEN c.addr.creds[2] ELSE IF c.auth THEN c.pass ELSE ""
  BY Normalized
<1>2. ~Embedded(n.addr)
  <2>1. c.addr \in Addresses  BY DEF Accounts
  <2>2. /\ n.addr.host = c.addr.host /\ n.addr.fault = c.addr.fault
        /\ n.addr.creds = IF Embedded(c.addr) THEN NoCreds ELSE c.addr.creds
    BY <1>1, <2>1 DEF Addresses
  <2>. QED  BY <2>2 DEF Embedded, Readable
<1>3. PICK d \in Accounts : d = Normalize(n)  BY NormalizeTyped
<1>4. d = n
  <2>1. /\ d.on = n.on
        /\ d.addr = [n.addr EXCEPT !.creds = IF Embedded(n.addr) THEN NoCreds ELSE @]
        /\ d.auth <=> n.auth \/ Moves(n)
        /\ d.pass = IF Moves(n) THEN n.addr.creds[2] ELSE IF n.auth THEN n.pass ELSE ""
        /\ d.user = IF Moves(n) THEN n.addr.creds[1] ELSE n.user
    BY <1>3, Normalized
  <2>2. ~Moves(n)  BY <1>2 DEF Moves
  <2>3. d.user = n.user /\ d.pass = n.pass /\ (d.auth <=> n.auth)  BY <1>1, <2>1, <2>2
  <2>4. n.addr \in Addresses  BY DEF Accounts
  <2>5. d.addr.host = n.addr.host /\ d.addr.creds = n.addr.creds /\ d.addr.fault = n.addr.fault
    BY <1>2, <2>1, <2>4 DEF Addresses
  <2>. QED  BY <2>1, <2>2, <2>3, <2>5, SameAccount
<1>. QED  BY <1>2, <1>3, <1>4

LEMMA AccountSound == AccountTyped => AccountKept
<1>. SUFFICES ASSUME AccountTyped PROVE AccountKept  OBVIOUS
<1>1. PICK c \in Accounts : c = account  BY DEF AccountTyped
<1>2. PICK n \in Accounts : n = Normalize(c)  BY NormalizeTyped
<1>3. /\ n.on = c.on
      /\ n.addr = [c.addr EXCEPT !.creds = IF Embedded(c.addr) THEN NoCreds ELSE @]
      /\ n.auth <=> c.auth \/ Moves(c)
      /\ n.user = IF Moves(c) THEN c.addr.creds[1] ELSE c.user
      /\ n.pass = IF Moves(c) THEN c.addr.creds[2] ELSE IF c.auth THEN c.pass ELSE ""
  BY <1>2, Normalized
<1>4. ~Embedded(n.addr) /\ Normalize(n) = n  BY <1>2, Settled
<1>5. n.addr \in Addresses /\ c.addr \in Addresses  BY DEF Accounts
<1>6. /\ n.addr.host = c.addr.host /\ n.addr.fault = c.addr.fault
      /\ n.addr.creds = IF Embedded(c.addr) THEN NoCreds ELSE c.addr.creds
  BY <1>3, <1>5 DEF Addresses
<1>7. Readable(n.addr) => n.addr.creds = NoCreds
  BY <1>4, <1>5 DEF Embedded, Addresses
<1>8. n.auth \/ n.pass = ""  BY <1>3
<1>9. Given(c.user, c.pass) => n.user = c.user  BY <1>3 DEF Moves
<1>10. ASSUME n.on, n.addr.host # "", Readable(n.addr)
       PROVE  /\ Effective(n).creds = IF n.auth /\ Given(n.user, n.pass) THEN <<n.user, n.pass>> ELSE NoCreds
              /\ Moves(c) => Effective(n).creds = c.addr.creds
  <2>1. Effective(n).creds = IF n.auth /\ Given(n.user, n.pass) THEN <<n.user, n.pass>> ELSE NoCreds
    BY <1>5, <1>10 DEF Effective, Addresses
  <2>2. ASSUME Moves(c) PROVE Effective(n).creds = c.addr.creds
    <3>1. c.addr.creds \in Texts \X Texts  BY <1>5, <2>2 DEF Moves, Embedded, Addresses
    <3>2. c.addr.creds = <<c.addr.creds[1], c.addr.creds[2]>>  BY <3>1
    <3>3. n.auth /\ n.user = c.addr.creds[1] /\ n.pass = c.addr.creds[2]  BY <1>3, <2>2
    <3>. QED  BY <2>1, <2>2, <3>2, <3>3 DEF Moves
  <2>. QED  BY <2>1, <2>2
(* The view, and what comes back of it.                                    *)
<1>11. PICK a \in Addresses : a = ShownAddr(n.addr)
  BY <1>5 DEF ShownAddr, Addresses
<1>12. a.creds = NoCreds /\ View(n).addr = a /\ View(n).auth = n.auth /\ View(n).user = n.user
  BY <1>5, <1>11 DEF ShownAddr, View, Addresses
<1>13. PICK b \in Accounts : b = [n EXCEPT !.addr = a, !.auth = n.auth, !.user = n.user]
  BY DEF Accounts
<1>14. b.on = n.on /\ b.addr = a /\ b.auth = n.auth /\ b.user = n.user /\ b.pass = n.pass
  BY <1>13 DEF Accounts
<1>15. PICK r \in Accounts : r = Normalize(b)  BY NormalizeTyped
<1>16. Returned(n) = r
  BY <1>12, <1>13, <1>15 DEF Returned
<1>17. ~Embedded(b.addr)  BY <1>12, <1>14 DEF Embedded
<1>18. /\ r.on = n.on /\ r.user = n.user
       /\ r.auth <=> n.auth
       /\ r.pass = n.pass /\ r.addr = [a EXCEPT !.creds = @]
  <2>1. /\ r.on = b.on
        /\ r.addr = [b.addr EXCEPT !.creds = IF Embedded(b.addr) THEN NoCreds ELSE @]
        /\ r.auth <=> b.auth \/ Moves(b)
        /\ r.user = IF Moves(b) THEN b.addr.creds[1] ELSE b.user
        /\ r.pass = IF Moves(b) THEN b.addr.creds[2] ELSE IF b.auth THEN b.pass ELSE ""
    BY <1>15, Normalized
  <2>2. ~Moves(b)  BY <1>17 DEF Moves
  <2>. QED  BY <1>8, <1>14, <1>17, <2>1, <2>2
<1>19. r.addr = a  BY <1>18 DEF Addresses
<1>20. ASSUME Readable(n.addr) PROVE r = n
  <2>1. n.addr.creds = NoCreds /\ n.addr.fault = "none"  BY <1>7, <1>20 DEF Readable
  <2>2. a.host = n.addr.host /\ a.creds = n.addr.creds /\ a.fault = n.addr.fault
    BY <1>5, <1>11, <2>1 DEF ShownAddr, Addresses
  <2>. QED  BY <1>18, <1>19, <2>2, SameAccount
<1>21. r.auth = n.auth  BY <1>18 DEF Accounts
<1>. QED  BY <1>1, <1>2, <1>4, <1>7, <1>8, <1>9, <1>10, <1>12, <1>16, <1>18, <1>20, <1>21
       DEF AccountKept, Moves

(* After every load and every change, a configuration keeps the account    *)
(* where AccountKept says: what an old address carried is in the fields,   *)
(* in use unless one was set, and a view sent back makes up no account and *)
(* changes nothing of an address that works (config.go:192, 217, 248).     *)
THEOREM AccountStaysKept == AccountSpec => []AccountKept
<1>1. AccountInit => AccountTyped  BY DEF AccountInit, AccountTyped
<1>2. AccountTyped /\ [Reconfigure]_account => AccountTyped'
  BY ReconfigureTyped DEF AccountTyped
<1>3. AccountTyped => AccountKept  BY AccountSound
<1>. QED  BY <1>1, <1>2, <1>3, PTL DEF AccountSpec
=============================================================================
