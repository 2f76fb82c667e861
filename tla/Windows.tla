------------------------------- MODULE Windows -------------------------------
(***************************************************************************)
(* The child windows of the desktop shell on Windows, for one view:        *)
(* OpenWindow of internal/desktop/windows.go and the childWindowManager of *)
(* windowgc.go.  A window is hidden rather than closed, and destroyed by a *)
(* timer when it stays hidden.  Views do not share any state.              *)
(***************************************************************************)
EXTENDS Naturals, FiniteSets

CONSTANTS
  WindowIds,   \* windows that may be created
  Openers,     \* calls of OpenWindow under way
  NoWindow,
  MaxShown     \* bound on how often a window is shown

ASSUME WindowsAssumption == NoWindow \notin WindowIds /\ MaxShown \in Nat

VARIABLES
  window,     \* [WindowIds -> what the screen shows of it, its record and closing hook]
  known,      \* childWindowManager.wins[name]
  fired,      \* callbacks of timers that wait for the lock: <<window, epoch>>
  dying,      \* windows out of the table, on their way to Close
  opener,     \* [Openers -> step and window of the call]
  shown       \* how often a window was shown

windowVars == <<window, known, fired, dying, opener, shown>>

WindowsInit ==
  /\ window = [w \in WindowIds |-> [screen |-> "none", closing |-> FALSE, epoch |-> 0, timer |-> 0, raced |-> FALSE]]
  /\ known = NoWindow /\ fired = {} /\ dying = {}
  /\ opener = [o \in Openers |-> [pc |-> "idle", win |-> NoWindow]]
  /\ shown = 0

(* Mutant of Reused: the epoch stays, so a timer that fired is not undone. *)
ReusedSameEpoch(w) == [w EXCEPT !.timer = 0]

(* reuse stops the timer and invalidates a callback that already runs.     *)
Reused(w) == [w EXCEPT !.timer = 0, !.epoch = @ + 1]

Reuse(o) ==
  /\ opener[o].pc = "idle" /\ shown < MaxShown
  /\ shown' = shown + 1
  /\ IF known = NoWindow
     THEN /\ opener' = [opener EXCEPT ![o] = [pc |-> "creating", win |-> NoWindow]]
          /\ UNCHANGED window
     ELSE /\ opener' = [opener EXCEPT ![o] = [pc |-> "showing", win |-> known]]
          /\ window' = [window EXCEPT ![known] = Reused(@)]
  /\ UNCHANGED <<known, fired, dying>>

Show(o) ==
  /\ opener[o].pc = "showing"
  /\ window' = [window EXCEPT ![opener[o].win].screen = IF @ = "gone" THEN @ ELSE "visible"]
  /\ opener' = [opener EXCEPT ![o].pc = "idle"]
  /\ UNCHANGED <<known, fired, dying, shown>>

Create(o) ==
  /\ opener[o].pc = "creating"
  /\ \E w \in WindowIds :
       /\ window[w].screen = "none"
       /\ window' = [window EXCEPT ![w].screen = "opening"]
       /\ opener' = [opener EXCEPT ![o] = [pc |-> "tracking", win |-> w]]
  /\ UNCHANGED <<known, fired, dying, shown>>

(* track: the hook is registered before the window is known; a user cannot *)
(* close it in between.                                                    *)
Track(o) ==
  /\ opener[o].pc = "tracking"
  /\ window' = [window EXCEPT ![opener[o].win].screen = "visible"]
  /\ known' = opener[o].win
  /\ opener' = [opener EXCEPT ![o].pc = "idle"]
  /\ UNCHANGED <<fired, dying, shown>>

(* The closing hook: cancel the event, hide, schedule the destruction.     *)
Hide(w) ==
  /\ window[w].screen = "visible" /\ ~window[w].closing
  /\ window' = [window EXCEPT ![w].screen = "hidden", ![w].closing = TRUE]
  /\ UNCHANGED <<known, fired, dying, opener, shown>>

(* A closing that overlaps a reopening is marked: raced.                   *)
Overlaps(w) == window[w].screen = "visible" \/ \E o \in Openers : opener[o] = [pc |-> "showing", win |-> w]

Scheduled(w, overlaps) ==
  [w EXCEPT !.closing = FALSE, !.epoch = @ + 1, !.timer = w.epoch + 1, !.raced = overlaps]

Schedule(w) ==
  /\ window[w].closing
  /\ window' = [window EXCEPT ![w] =
       IF known # w THEN [@ EXCEPT !.closing = FALSE]
       ELSE Scheduled(@, Overlaps(w))]
  /\ UNCHANGED <<known, fired, dying, opener, shown>>

Fire(w) ==
  /\ window[w].timer # 0
  /\ fired' = fired \cup {<<w, window[w].timer>>}
  /\ window' = [window EXCEPT ![w].timer = 0]
  /\ UNCHANGED <<known, dying, opener, shown>>

Obsolete(w, epoch) == known # w \/ window[w].epoch # epoch

(* The callback of the timer with the lock: it gives up, or takes the      *)
(* window out of the table and only then destroys it.                      *)
Expire ==
  \E f \in fired :
    /\ fired' = fired \ {f}
    /\ IF Obsolete(f[1], f[2]) THEN UNCHANGED <<known, dying>>
       ELSE known' = NoWindow /\ dying' = dying \cup {f[1]}
    /\ UNCHANGED <<window, opener, shown>>

Destroy(w) ==
  /\ w \in dying
  /\ dying' = dying \ {w}
  /\ window' = [window EXCEPT ![w].screen = "gone"]
  /\ UNCHANGED <<known, fired, opener, shown>>

WindowsNext ==
  \/ \E o \in Openers : Reuse(o) \/ Show(o) \/ Create(o) \/ Track(o)
  \/ \E w \in WindowIds : Hide(w) \/ Schedule(w) \/ Fire(w) \/ Destroy(w)
  \/ Expire

WindowsSpec == WindowsInit /\ [][WindowsNext]_windowVars

-----------------------------------------------------------------------------
(* Whoever reopens a window gets one that lives on: a window on the way to *)
(* its destruction is out of the table, and a visible one is destroyed     *)
(* only if its closing overlapped its reopening (windowgc.go:71, 96).      *)
WindowsLive ==
  /\ known # NoWindow => known \notin dying /\ window[known].screen \notin {"none", "gone"}
  /\ \A w \in dying : window[w].screen = "visible" => window[w].raced
  /\ \A o \in Openers : opener[o].pc = "showing" =>
       window[opener[o].win].screen # "gone" \/ window[opener[o].win].raced
=============================================================================
