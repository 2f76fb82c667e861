------------------------- MODULE FlowPipelineProofs -------------------------
(***************************************************************************)
(* Proofs about the hooks and FlowPipeline, for any flows, calls, chains   *)
(* of hooks and limit of open pauses: a chain of any length decides what   *)
(* Decides says without a loop, which the run on short chains shows for    *)
(* those; the handlers use the breakpoint manager as its own module says,  *)
(* so that its theorems hold in the running pipeline; an abort stops the   *)
(* bytes; what is recorded is what the client got; an exchange is recorded *)
(* once and leaves its connection clean; what a script sees of an exchange *)
(* goes back without touching what the script did not; and rules and       *)
(* patterns of any length act and match as they say.                       *)
(*                                                                         *)
(* An exchange is followed through its handler: Guarded says where the     *)
(* manager may be at work for it, Course what it has received, written and *)
(* recorded at each point, Obeyed what an abort has stopped.               *)
(***************************************************************************)
EXTENDS FlowPipeline, HookChain, ScriptView, Matching, SequenceLemmas, TLAPS

-----------------------------------------------------------------------------
(* The hooks.                                                              *)

(* What the loops over the hooks have found so far.                        *)
Taken == [is : Results, by : Nat]
Found == [decision : Taken, pause : BOOLEAN, stopped : BOOLEAN]

(* OnRequest and OnResponse take one hook after the other.                 *)
LEMMA HooksInOrder ==
  ASSUME NEW results \in Seq(Results), NEW stops
  PROVE  \E acc : /\ RunHooks(results, stops) = acc[Len(results)]
                  /\ acc[0] = [decision |-> Continue, pause |-> FALSE, stopped |-> FALSE]
                  /\ \A k \in 1..Len(results) :
                       acc[k] = AfterHook(acc[k - 1], Hooked(results)[k], stops)
<1>1. PICK n \in Nat : n = Len(results)
  BY LenProperties
<1>2. PICK h : h = Hooked(results)
  OBVIOUS
<1>3. PICK start : start = [decision |-> Continue, pause |-> FALSE, stopped |-> FALSE]
  OBVIOUS
<1>4. DOMAIN h = 1..n /\ start \in Found /\ \A i \in 1..n : h[i] \in Taken
  <2>1. \A i \in 1..n : h[i] = [is |-> results[i], by |-> i] /\ results[i] \in Results
    BY <1>1, <1>2, LenProperties, ElementOfSeq DEF Hooked
  <2>2. DOMAIN h = 1..n
    BY <1>1, <1>2, LenProperties DEF Hooked
  <2> QED BY <1>3, <2>1, <2>2 DEF Continue, Taken, Found, Results
<1> DEFINE After(a, i) == AfterHook(a, h[i], stops)
<1>5. ASSUME NEW a \in Found, NEW i \in 1..n PROVE After(a, i) \in Found
  <2>1. a.decision \in Taken /\ h[i] \in Taken
    BY <1>4, <1>5 DEF Found
  <2>2. Merge(a.decision, h[i]) \in Taken
    BY <2>1 DEF Merge
  <2>3. (Merge(a.decision, h[i]).is \in stops) \in BOOLEAN
    OBVIOUS
  <2> QED BY <1>5, <2>1, <2>2, <2>3 DEF Found, AfterHook
<1>6. \E it : it = [s \in SUBSET (1..n) |->
                     IF s = {} THEN start ELSE After(it[s \ {Max(s)}], Max(s))]
  <2>1. PICK st : st = [p \in (1..n) \X Found |-> After(p[2], p[1])]
    OBVIOUS
  <2> HIDE DEF After
  <2>2. st \in [(1..n) \X Found -> Found]
    BY <1>5, <2>1
  <2>a. PICK it : FoldOf(it, n, Found, start, st)
    BY <1>4, <2>2, FoldIsDefined
  <2>3. /\ it \in [SUBSET (1..n) -> Found]
        /\ \A s \in SUBSET (1..n) : it[s] = FoldStep(it, s, start, st)
    BY <2>a DEF FoldOf
  <2>4. ASSUME NEW s \in SUBSET (1..n)
        PROVE  it[s] = IF s = {} THEN start ELSE After(it[s \ {Max(s)}], Max(s))
    <3>1. CASE s = {}
      BY <2>3, <3>1 DEF FoldStep
    <3>2. CASE s # {}
      <4>1. Max(s) \in 1..n /\ s \ {Max(s)} \in SUBSET (1..n)
        BY <3>2, MaxUpto
      <4>2. it[s \ {Max(s)}] \in Found
        BY <2>3, <4>1
      <4>3. it[s] = st[<<Max(s), it[s \ {Max(s)}]>>]
        BY <2>3, <3>2 DEF FoldStep
      <4> QED BY <2>1, <3>2, <4>1, <4>2, <4>3
    <3> QED BY <3>1, <3>2
  <2> QED BY <2>3, <2>4
<1> DEFINE Rec(it) == it = [s \in SUBSET DOMAIN h |->
                              IF s = {} THEN start ELSE After(it[s \ {Max(s)}], Max(s))]
<1>7. Rec(CHOOSE it : Rec(it))
  <2>1. \E it : Rec(it)
    <3> HIDE DEF After
    <3> QED BY <1>4, <1>6
  <2> HIDE DEF Rec
  <2> QED BY <2>1
<1>8. PICK F : F = CHOOSE it : Rec(it)
  OBVIOUS
<1>9. RunHooks(results, stops) = F[DOMAIN h]
  BY <1>2, <1>3, <1>8 DEF RunHooks, FoldLeft, MapThenFoldSet
<1>10. Rec(F)
  <2> HIDE DEF Rec
  <2> QED BY <1>7, <1>8
<1>11. \A s \in SUBSET (1..n) : F[s] = IF s = {} THEN start ELSE After(F[s \ {Max(s)}], Max(s))
  <2> HIDE DEF After
  <2> QED BY <1>4, <1>10
<1>12. PICK acc : acc = [k \in 0..n |-> F[1..k]]
  OBVIOUS
<1> HIDE DEF Rec
<1>13. acc[n] = F[DOMAIN h]
  BY <1>4, <1>12
<1>14. acc[0] = start
  <2>1. 0 \in 0..n /\ 1..0 = {} /\ {} \in SUBSET (1..n)
    OBVIOUS
  <2> QED BY <1>11, <1>12, <2>1
<1>15. ASSUME NEW k \in 1..n PROVE acc[k] = After(acc[k - 1], k)
  <2>0. (1..k) \in SUBSET (1..n) /\ 1..k # {}
    <3>1. (1..k) \in SUBSET (1..n)
      OBVIOUS
    <3>2. k \in 1..k
      OBVIOUS
    <3> QED BY <3>1, <3>2
  <2>1. k \in Nat \ {0} /\ k \in 0..n /\ k - 1 \in 0..n
    OBVIOUS
  <2>2. Max(1..k) = k /\ (1..k) \ {Max(1..k)} = 1..(k - 1)
    BY <2>1, MaxOfUpto
  <2> HIDE DEF After
  <2>3. F[1..k] = After(F[(1..k) \ {Max(1..k)}], Max(1..k))
    BY <1>11, <2>0
  <2>4. acc[k] = F[1..k] /\ acc[k - 1] = F[1..(k - 1)]
    BY <1>12, <2>1
  <2> QED BY <2>2, <2>3, <2>4
<1> QED BY <1>1, <1>2, <1>3, <1>9, <1>13, <1>14, <1>15

(* And so do OnWebSocketMessage and OnStreamMessage.                       *)
LEMMA MessagesInOrder ==
  ASSUME NEW results \in Seq(Results)
  PROVE  \E acc : /\ OnMessage(results) = acc[Len(results)]
                  /\ acc[0] = Continue
                  /\ \A k \in 1..Len(results) :
                       acc[k] = (IF acc[k - 1].is \in Aborts THEN acc[k - 1] ELSE Merge(acc[k - 1], Hooked(results)[k]))
<1>1. PICK n \in Nat : n = Len(results)
  BY LenProperties
<1>2. PICK h : h = Hooked(results)
  OBVIOUS
<1>3. PICK start : start = Continue
  OBVIOUS
<1>4. DOMAIN h = 1..n /\ start \in Taken /\ \A i \in 1..n : h[i] \in Taken
  <2>1. \A i \in 1..n : h[i] = [is |-> results[i], by |-> i] /\ results[i] \in Results
    BY <1>1, <1>2, LenProperties, ElementOfSeq DEF Hooked
  <2>2. DOMAIN h = 1..n
    BY <1>1, <1>2, LenProperties DEF Hooked
  <2> QED BY <1>3, <2>1, <2>2 DEF Continue, Taken, Results
<1> DEFINE After(a, i) == (IF a.is \in Aborts THEN a ELSE Merge(a, h[i]))
<1>5. ASSUME NEW a \in Taken, NEW i \in 1..n PROVE After(a, i) \in Taken
  BY <1>4, <1>5 DEF Merge
<1>6. \E it : it = [s \in SUBSET (1..n) |->
                     IF s = {} THEN start ELSE After(it[s \ {Max(s)}], Max(s))]
  <2>1. PICK st : st = [p \in (1..n) \X Taken |-> After(p[2], p[1])]
    OBVIOUS
  <2> HIDE DEF After
  <2>2. st \in [(1..n) \X Taken -> Taken]
    BY <1>5, <2>1
  <2>a. PICK it : FoldOf(it, n, Taken, start, st)
    BY <1>4, <2>2, FoldIsDefined
  <2>3. /\ it \in [SUBSET (1..n) -> Taken]
        /\ \A s \in SUBSET (1..n) : it[s] = FoldStep(it, s, start, st)
    BY <2>a DEF FoldOf
  <2>4. ASSUME NEW s \in SUBSET (1..n)
        PROVE  it[s] = IF s = {} THEN start ELSE After(it[s \ {Max(s)}], Max(s))
    <3>1. CASE s = {}
      BY <2>3, <3>1 DEF FoldStep
    <3>2. CASE s # {}
      <4>1. Max(s) \in 1..n /\ s \ {Max(s)} \in SUBSET (1..n)
        BY <3>2, MaxUpto
      <4>2. it[s \ {Max(s)}] \in Taken
        BY <2>3, <4>1
      <4>3. it[s] = st[<<Max(s), it[s \ {Max(s)}]>>]
        BY <2>3, <3>2 DEF FoldStep
      <4> QED BY <2>1, <3>2, <4>1, <4>2, <4>3
    <3> QED BY <3>1, <3>2
  <2> QED BY <2>3, <2>4
<1> DEFINE Rec(it) == it = [s \in SUBSET DOMAIN h |->
                              IF s = {} THEN start ELSE After(it[s \ {Max(s)}], Max(s))]
<1>7. Rec(CHOOSE it : Rec(it))
  <2>1. \E it : Rec(it)
    <3> HIDE DEF After
    <3> QED BY <1>4, <1>6
  <2> HIDE DEF Rec
  <2> QED BY <2>1
<1>8. PICK F : F = CHOOSE it : Rec(it)
  OBVIOUS
<1>9. OnMessage(results) = F[DOMAIN h]
  BY <1>2, <1>3, <1>8 DEF OnMessage, FoldLeft, MapThenFoldSet
<1>10. Rec(F)
  <2> HIDE DEF Rec
  <2> QED BY <1>7, <1>8
<1>11. \A s \in SUBSET (1..n) : F[s] = IF s = {} THEN start ELSE After(F[s \ {Max(s)}], Max(s))
  <2> HIDE DEF After
  <2> QED BY <1>4, <1>10
<1>12. PICK acc : acc = [k \in 0..n |-> F[1..k]]
  OBVIOUS
<1> HIDE DEF Rec
<1>13. acc[n] = F[DOMAIN h]
  BY <1>4, <1>12
<1>14. acc[0] = start
  <2>1. 0 \in 0..n /\ 1..0 = {} /\ {} \in SUBSET (1..n)
    OBVIOUS
  <2> QED BY <1>11, <1>12, <2>1
<1>15. ASSUME NEW k \in 1..n PROVE acc[k] = After(acc[k - 1], k)
  <2>0. (1..k) \in SUBSET (1..n) /\ 1..k # {}
    <3>1. (1..k) \in SUBSET (1..n)
      OBVIOUS
    <3>2. k \in 1..k
      OBVIOUS
    <3> QED BY <3>1, <3>2
  <2>1. k \in Nat \ {0} /\ k \in 0..n /\ k - 1 \in 0..n
    OBVIOUS
  <2>2. Max(1..k) = k /\ (1..k) \ {Max(1..k)} = 1..(k - 1)
    BY <2>1, MaxOfUpto
  <2> HIDE DEF After
  <2>3. F[1..k] = After(F[(1..k) \ {Max(1..k)}], Max(1..k))
    BY <1>11, <2>0
  <2>4. acc[k] = F[1..k] /\ acc[k - 1] = F[1..(k - 1)]
    BY <1>12, <2>1
  <2> QED BY <2>2, <2>3, <2>4
<1> QED BY <1>1, <1>2, <1>3, <1>9, <1>13, <1>14, <1>15

-----------------------------------------------------------------------------
(* k is the first of n hooks with a wanted result, or 0.                   *)
IsFirst(results, wanted, n, k) ==
  \/ k = 0 /\ \A i \in 1..n : results[i] \notin wanted
  \/ /\ k \in 1..n /\ results[k] \in wanted
     /\ \A i \in 1..n : i < k => results[i] \notin wanted

LEMMA FirstFound ==
  ASSUME NEW results \in Seq(Results), NEW wanted, NEW k, IsFirst(results, wanted, Len(results), k)
  PROVE  FirstOf(results, wanted) = k
<1>1. Len(results) \in Nat /\ DOMAIN results = 1..Len(results)
  BY LenProperties
<1>2. PICK hits : hits = {i \in DOMAIN results : results[i] \in wanted}
  OBVIOUS
<1>3. CASE k = 0
  <2>1. hits = {}
    BY <1>1, <1>2, <1>3 DEF IsFirst
  <2> QED BY <1>2, <1>3, <2>1 DEF FirstOf
<1>4. CASE k # 0
  <2>1. k \in hits /\ \A i \in hits : k <= i
    BY <1>1, <1>2, <1>4 DEF IsFirst
  <2>2. \A i \in hits : i \in Nat
    BY <1>1, <1>2
  <2>3. Min(hits) \in hits /\ \A i \in hits : Min(hits) <= i
    BY <2>1 DEF Min
  <2>4. Min(hits) = k
    BY <2>1, <2>2, <2>3
  <2> QED BY <1>2, <2>1, <2>4 DEF FirstOf
<1> QED BY <1>3, <1>4

LEMMA FirstSoFar ==
  ASSUME NEW results, NEW wanted, NEW n \in Nat \ {0}, NEW k, IsFirst(results, wanted, n - 1, k)
  PROVE  /\ IsFirst(results, wanted, n, IF k = 0 /\ results[n] \in wanted THEN n ELSE k)
         /\ k \in 0..(n - 1)
<1>1. CASE k = 0 /\ results[n] \in wanted
  BY <1>1 DEF IsFirst
<1>2. CASE k = 0 /\ results[n] \notin wanted
  BY <1>2 DEF IsFirst
<1>3. CASE k # 0
  BY <1>3 DEF IsFirst
<1> QED BY <1>1, <1>2, <1>3

LEMMA Priorities ==
  /\ \A r \in Aborts : Priority(r) = 3 /\ r # "breakpoint" /\ r # "mock" /\ r # "skipped"
  /\ Priority("mock") = 2 /\ Priority("breakpoint") = 1 /\ Priority("continue") = 0
  /\ Priority("panic") = 0
  BY DEF Priority, Aborts

LEMMA ResultsAre ==
  \A r \in Results : r \in Aborts \/ r \in {"skipped", "panic", "continue", "breakpoint", "mock"}
  BY DEF Results

(* What OnRequest has decided after n hooks ...                            *)
Asked(results, n, last) ==
  \E i \in 1..n : results[i] = "breakpoint" /\ (last = 0 \/ i < last)

RequestStage(results, acc, n) ==
  /\ acc \in Found
  /\ IsFirst(results, RequestStops, n, acc.decision.by)
  /\ acc.stopped = (acc.decision.by # 0)
  /\ acc.decision.is = IF acc.decision.by = 0 THEN "continue" ELSE results[acc.decision.by]
  /\ acc.pause = Asked(results, n, acc.decision.by)

(* ... OnResponse ...                                                      *)
ResponseStage(results, acc, n) ==
  /\ acc \in Found
  /\ \E a, m : /\ IsFirst(results, Aborts, n, a) /\ IsFirst(results, {"mock"}, n, m)
               /\ acc.decision.by = (IF a # 0 THEN a ELSE m)
               /\ acc.stopped = (a # 0)
               /\ acc.pause = Asked(results, n, a)
  /\ acc.decision.is = IF acc.decision.by = 0 THEN "continue" ELSE results[acc.decision.by]

(* ... and OnMessage.                                                      *)
MessageStage(results, acc, n) ==
  /\ acc \in Taken
  /\ \E a : /\ IsFirst(results, Aborts, n, a)
            /\ (acc.is \in Aborts) = (a # 0)
            /\ a # 0 => acc.by = a

LEMMA AskedSoFar ==
  ASSUME NEW results, NEW n \in Nat \ {0}, NEW k \in 0..(n - 1)
  PROVE  /\ results[n] # "breakpoint" => Asked(results, n, k) = Asked(results, n - 1, k)
         /\ k # 0 => Asked(results, n, k) = Asked(results, n - 1, k)
         /\ k = 0 /\ results[n] = "breakpoint" => Asked(results, n, k)
         /\ k = 0 => Asked(results, n, n) = Asked(results, n - 1, 0)
<1>1. \A i : i \in 1..n <=> i \in 1..(n - 1) \/ i = n
  OBVIOUS
<1>2. n \in 1..n /\ ~(n < k) /\ ~(n < n) /\ \A i \in 1..(n - 1) : i < n
  OBVIOUS
<1> QED BY <1>1, <1>2 DEF Asked

(* A hook whose result is merged.                                          *)
LEMMA Merged ==
  ASSUME NEW acc \in Found, NEW next \in Taken, NEW stops, NEW new, ~acc.stopped,
         next.is \notin {"skipped", "breakpoint"}, new = AfterHook(acc, next, stops)
  PROVE  /\ new \in Found /\ new.decision = Merge(acc.decision, next) /\ new.pause = acc.pause
         /\ new.stopped = (Merge(acc.decision, next).is \in stops)
<1>1. PICK d \in Taken : d = Merge(acc.decision, next)
  BY DEF Found, Merge
<1>2. PICK b : b = (d.is \in stops)
  OBVIOUS
<1>3. b \in BOOLEAN
  <2>1. CASE d.is \in stops
    BY <1>2, <2>1
  <2>2. CASE d.is \notin stops
    BY <1>2, <2>2
  <2> QED BY <2>1, <2>2
<1>4. new = [acc EXCEPT !.decision = d, !.stopped = d.is \in stops]
  BY <1>1 DEF AfterHook
<1>5. new = [acc EXCEPT !.decision = d, !.stopped = b]
  BY <1>2, <1>4, Zenon
<1>6. /\ new \in Found /\ new.decision = d /\ new.pause = acc.pause
      /\ new.stopped = b
  BY <1>1, <1>3, <1>5 DEF Found
<1> QED BY <1>1, <1>2, <1>6, Zenon

LEMMA RequestStep ==
  ASSUME NEW results \in Seq(Results), NEW n \in 1..Len(results), NEW acc,
         RequestStage(results, acc, n - 1)
  PROVE  RequestStage(results, AfterHook(acc, Hooked(results)[n], RequestStops), n)
<1>1. PICK next : next = Hooked(results)[n]
  OBVIOUS
<1>2. /\ next = [is |-> results[n], by |-> n] /\ results[n] \in Results
      /\ n \in Nat \ {0}
  BY <1>1, LenProperties, ElementOfSeq DEF Hooked
<1>3. PICK k : k = acc.decision.by
  OBVIOUS
<1>4. PICK j : j = IF k = 0 /\ results[n] \in RequestStops THEN n ELSE k
  OBVIOUS
<1>5. IsFirst(results, RequestStops, n, j) /\ k \in 0..(n - 1)
  BY <1>2, <1>3, <1>4, FirstSoFar DEF RequestStage
<1>6. /\ acc \in Found /\ acc.decision \in Taken
      /\ acc.stopped = (k # 0) /\ acc.decision.by = k
      /\ acc.decision.is = IF k = 0 THEN "continue" ELSE results[k]
      /\ acc.pause = Asked(results, n - 1, k)
  BY <1>3 DEF RequestStage, Found
<1>7. /\ results[n] # "breakpoint" => Asked(results, n, k) = Asked(results, n - 1, k)
      /\ k # 0 => Asked(results, n, k) = Asked(results, n - 1, k)
      /\ k = 0 /\ results[n] = "breakpoint" => Asked(results, n, k)
      /\ k = 0 => Asked(results, n, n) = Asked(results, n - 1, 0)
  BY <1>2, <1>5, AskedSoFar
<1>8. PICK new : new = AfterHook(acc, next, RequestStops)
  OBVIOUS
<1>9. CASE k # 0 \/ results[n] = "skipped"
  <2>1. new = acc /\ j = k
    BY <1>2, <1>4, <1>6, <1>8, <1>9 DEF AfterHook, RequestStops, Aborts
  <2>2. results[n] = "skipped" => results[n] # "breakpoint"
    OBVIOUS
  <2> QED BY <1>1, <1>5, <1>6, <1>7, <1>8, <1>9, <2>1, <2>2 DEF RequestStage
<1>10. CASE k = 0 /\ results[n] = "breakpoint"
  <2>1. new = [acc EXCEPT !.pause = TRUE] /\ j = k
    BY <1>2, <1>4, <1>6, <1>8, <1>10 DEF AfterHook, RequestStops, Aborts
  <2>2. new \in Found /\ new.decision = acc.decision /\ new.stopped = acc.stopped /\ new.pause = TRUE
    BY <1>6, <2>1 DEF Found
  <2> QED BY <1>1, <1>5, <1>6, <1>7, <1>8, <1>10, <2>1, <2>2 DEF RequestStage
<1>11. CASE k = 0 /\ results[n] \in {"panic", "continue"}
  <2>1. Merge(acc.decision, next) = acc.decision
    BY <1>2, <1>6, <1>11, Priorities DEF Merge
  <2>2. j = k /\ results[n] # "breakpoint"
    BY <1>4, <1>11 DEF RequestStops, Aborts
  <2>3. new \in Found /\ new.decision = acc.decision /\ new.stopped = FALSE /\ new.pause = acc.pause
    <3>1. acc.decision.is \notin RequestStops
      BY <1>6, <1>11 DEF RequestStops, Aborts
    <3>2. next \in Taken /\ next.is \notin {"skipped", "breakpoint"} /\ ~acc.stopped
      BY <1>2, <1>6, <1>11 DEF Taken
    <3>3. /\ new \in Found /\ new.decision = Merge(acc.decision, next) /\ new.pause = acc.pause
          /\ new.stopped = (Merge(acc.decision, next).is \in RequestStops)
      BY <1>6, <1>8, <3>2, Merged
    <3>4. new.stopped \in BOOLEAN
      BY <3>3 DEF Found
    <3> QED BY <2>1, <3>1, <3>3, <3>4
  <2> QED BY <1>1, <1>5, <1>6, <1>7, <1>8, <1>11, <2>2, <2>3 DEF RequestStage
<1>12. CASE k = 0 /\ results[n] \in RequestStops
  <2>1. Priority(results[n]) > 0 /\ results[n] # "breakpoint" /\ results[n] # "skipped"
    BY <1>12, Priorities DEF RequestStops
  <2>2. Merge(acc.decision, next) = next
    BY <1>2, <1>6, <1>12, <2>1, Priorities DEF Merge
  <2>4. next \in Taken /\ next.by = n /\ next.is = results[n] /\ j = n /\ n # 0
    BY <1>2, <1>4, <1>12 DEF Taken
  <2>5. /\ new \in Found /\ new.decision = next /\ new.pause = acc.pause
        /\ new.stopped = (next.is \in RequestStops)
    <3>1. next.is \notin {"skipped", "breakpoint"} /\ ~acc.stopped
      BY <1>6, <1>12, <2>1, <2>4
    <3> QED BY <1>6, <1>8, <2>2, <2>4, <3>1, Merged
  <2>7. new.stopped
    BY <1>12, <2>4, <2>5
  <2>8. new.pause = Asked(results, n, n)
    BY <1>6, <1>7, <1>12, <2>5
  <2> QED BY <1>1, <1>5, <1>8, <2>4, <2>5, <2>7, <2>8 DEF RequestStage
<1>13. \/ results[n] \in {"skipped", "panic", "continue", "breakpoint"}
       \/ results[n] \in RequestStops
  BY <1>2, ResultsAre DEF RequestStops
<1> QED BY <1>9, <1>10, <1>11, <1>12, <1>13

LEMMA ResponseStep ==
  ASSUME NEW results \in Seq(Results), NEW n \in 1..Len(results), NEW acc,
         ResponseStage(results, acc, n - 1)
  PROVE  ResponseStage(results, AfterHook(acc, Hooked(results)[n], ResponseStops), n)
<1>1. PICK next : next = Hooked(results)[n]
  OBVIOUS
<1>2. /\ next = [is |-> results[n], by |-> n] /\ results[n] \in Results
      /\ n \in Nat \ {0} /\ next \in Taken
  BY <1>1, LenProperties, ElementOfSeq DEF Hooked, Taken
<1>3. PICK a, m :
        /\ IsFirst(results, Aborts, n - 1, a) /\ IsFirst(results, {"mock"}, n - 1, m)
        /\ acc.decision.by = (IF a # 0 THEN a ELSE m)
        /\ acc.stopped = (a # 0)
        /\ acc.pause = Asked(results, n - 1, a)
  BY DEF ResponseStage
<1>4. PICK b, p : /\ b = IF a = 0 /\ results[n] \in Aborts THEN n ELSE a
                  /\ p = IF m = 0 /\ results[n] \in {"mock"} THEN n ELSE m
  OBVIOUS
<1>5. /\ IsFirst(results, Aborts, n, b) /\ a \in 0..(n - 1)
      /\ IsFirst(results, {"mock"}, n, p) /\ m \in 0..(n - 1)
  BY <1>2, <1>3, <1>4, FirstSoFar
<1>6. /\ acc \in Found /\ acc.decision \in Taken
      /\ acc.decision.is = IF acc.decision.by = 0 THEN "continue" ELSE results[acc.decision.by]
  BY DEF ResponseStage, Found
<1>7. /\ results[n] # "breakpoint" => Asked(results, n, a) = Asked(results, n - 1, a)
      /\ a # 0 => Asked(results, n, a) = Asked(results, n - 1, a)
      /\ a = 0 /\ results[n] = "breakpoint" => Asked(results, n, a)
      /\ a = 0 => Asked(results, n, n) = Asked(results, n - 1, 0)
  BY <1>2, <1>5, AskedSoFar
<1>8. PICK new : new = AfterHook(acc, next, ResponseStops)
  OBVIOUS
<1>9. SUFFICES /\ new \in Found
               /\ new.decision.by = (IF b # 0 THEN b ELSE p)
               /\ new.stopped = (b # 0)
               /\ new.pause = Asked(results, n, b)
               /\ new.decision.is = IF new.decision.by = 0 THEN "continue" ELSE results[new.decision.by]
  BY <1>1, <1>5, <1>8 DEF ResponseStage
<1>10. CASE a # 0
  <2>1. new = acc /\ b = a
    BY <1>3, <1>4, <1>8, <1>10 DEF AfterHook
  <2> QED BY <1>3, <1>6, <1>7, <1>10, <2>1
<1>11. CASE a = 0 /\ results[n] = "skipped"
  <2>1. new = acc /\ b = a /\ p = m
    BY <1>2, <1>3, <1>4, <1>8, <1>11 DEF AfterHook, Aborts
  <2> QED BY <1>3, <1>6, <1>7, <1>11, <2>1
<1>12. CASE a = 0 /\ results[n] = "breakpoint"
  <2>1. new = [acc EXCEPT !.pause = TRUE] /\ b = a /\ p = m
    BY <1>2, <1>3, <1>4, <1>8, <1>12 DEF AfterHook, Aborts
  <2>2. new \in Found /\ new.decision = acc.decision /\ new.stopped = acc.stopped /\ new.pause = TRUE
    BY <1>6, <2>1 DEF Found
  <2> QED BY <1>3, <1>6, <1>7, <1>12, <2>1, <2>2
<1>13. ASSUME a = 0, results[n] \notin {"skipped", "breakpoint"}
       PROVE  /\ new \in Found /\ new.decision = Merge(acc.decision, next)
              /\ new.stopped = (Merge(acc.decision, next).is \in Aborts)
              /\ new.pause = Asked(results, n, 0) /\ new.stopped \in BOOLEAN
  <2>1. ~acc.stopped /\ next.is \notin {"skipped", "breakpoint"}
    BY <1>2, <1>3, <1>13
  <2>2. /\ new \in Found /\ new.decision = Merge(acc.decision, next) /\ new.pause = acc.pause
        /\ new.stopped = (Merge(acc.decision, next).is \in ResponseStops)
    BY <1>2, <1>6, <1>8, <2>1, Merged
  <2>3. new.pause = Asked(results, n, 0)
    BY <1>3, <1>7, <1>13, <2>2
  <2>4. new.stopped \in BOOLEAN
    BY <2>2 DEF Found
  <2> QED BY <2>2, <2>3, <2>4 DEF ResponseStops
<1>14. a = 0 => /\ acc.decision.by = m
                /\ acc.decision.is = IF m = 0 THEN "continue" ELSE "mock"
  BY <1>3, <1>6 DEF IsFirst
<1>15. CASE a = 0 /\ results[n] \in Aborts
  <2>1. Priority(next.is) = 3 /\ results[n] \notin {"skipped", "breakpoint", "mock"}
    BY <1>2, <1>15, Priorities
  <2>2. Priority(acc.decision.is) < 3
    BY <1>14, <1>15, Priorities
  <2>3. Merge(acc.decision, next) = next /\ b = n /\ n # 0
    BY <1>2, <1>4, <1>15, <2>1, <2>2 DEF Merge
  <2>4. new.decision = next /\ new.stopped = TRUE /\ new.pause = Asked(results, n, 0) /\ new \in Found
    BY <1>2, <1>13, <1>15, <2>1, <2>3
  <2>5. Asked(results, n, n) = Asked(results, n, 0)
    BY <1>7, <1>15, <2>1
  <2>6. next.by = n /\ next.is = results[n]
    BY <1>2
  <2>7. new.decision.by = (IF b # 0 THEN b ELSE p)
    BY <2>3, <2>4, <2>6
  <2>8. new.stopped = (b # 0)
    BY <2>3, <2>4
  <2>9. new.pause = Asked(results, n, b)
    BY <2>3, <2>4, <2>5
  <2>10. new.decision.is = IF new.decision.by = 0 THEN "continue" ELSE results[new.decision.by]
    BY <2>3, <2>4, <2>6
  <2> QED BY <2>4, <2>7, <2>8, <2>9, <2>10
<1>16. CASE a = 0 /\ results[n] \in {"panic", "continue"}
  <2>1. Priority(next.is) = 0 /\ results[n] \notin Aborts /\ results[n] # "mock"
    BY <1>2, <1>16, Priorities DEF Aborts
  <2>2. Priority(acc.decision.is) \in {0, 2} /\ acc.decision.is \notin Aborts
    BY <1>14, <1>16, Priorities DEF Aborts
  <2>3. Merge(acc.decision, next) = acc.decision /\ b = 0 /\ p = m
    BY <1>4, <1>16, <2>1, <2>2 DEF Merge
  <2>4. /\ new.decision = acc.decision /\ new.stopped = FALSE /\ new.pause = Asked(results, n, 0)
        /\ new \in Found
    BY <1>13, <1>16, <2>2, <2>3
  <2> QED BY <1>6, <1>14, <1>16, <2>3, <2>4
<1>17. CASE a = 0 /\ results[n] = "mock"
  <2>1. Priority(next.is) = 2 /\ results[n] \notin Aborts /\ b = 0
    BY <1>2, <1>4, <1>17, Priorities DEF Aborts
  <2>2. CASE m = 0
    <3>1. Priority(acc.decision.is) = 0
      BY <1>14, <1>17, <2>2, Priorities
    <3>2. Merge(acc.decision, next) = next /\ p = n /\ n # 0
      BY <1>2, <1>4, <1>17, <2>1, <2>2, <3>1 DEF Merge
    <3>3. next.by = n /\ next.is = "mock" /\ results[n] = "mock"
      BY <1>2, <1>17
    <3>4. /\ new.decision = next /\ new.stopped = (next.is \in Aborts)
          /\ new.pause = Asked(results, n, 0) /\ new \in Found /\ new.stopped \in BOOLEAN
      BY <1>13, <1>17, <2>1, <3>2
    <3>5. next.is \notin Aborts
      BY <3>3 DEF Aborts
    <3>6. new.stopped = FALSE
      BY <3>4, <3>5
    <3> QED BY <2>1, <3>2, <3>3, <3>4, <3>6
  <2>3. CASE m # 0
    <3>1. Priority(acc.decision.is) = 2 /\ acc.decision.is = "mock"
      BY <1>14, <1>17, <2>3, Priorities
    <3>2. Merge(acc.decision, next) = acc.decision /\ p = m
      BY <1>4, <1>17, <2>1, <2>3, <3>1 DEF Merge
    <3>3. "mock" \notin Aborts
      BY DEF Aborts
    <3>4. /\ new.decision = acc.decision /\ new.stopped = FALSE /\ new.pause = Asked(results, n, 0)
          /\ new \in Found
      BY <1>13, <1>17, <3>1, <3>2, <3>3
    <3> QED BY <1>6, <1>14, <1>17, <2>1, <3>2, <3>4
  <2> QED BY <2>2, <2>3
<1> QED BY <1>2, <1>10, <1>11, <1>12, <1>15, <1>16, <1>17, ResultsAre

LEMMA MessageStep ==
  ASSUME NEW results \in Seq(Results), NEW n \in 1..Len(results), NEW acc,
         MessageStage(results, acc, n - 1)
  PROVE  MessageStage(results, IF acc.is \in Aborts THEN acc ELSE Merge(acc, Hooked(results)[n]), n)
<1>1. PICK next : next = Hooked(results)[n]
  OBVIOUS
<1>2. /\ next = [is |-> results[n], by |-> n] /\ results[n] \in Results
      /\ n \in Nat \ {0} /\ next \in Taken
  BY <1>1, LenProperties, ElementOfSeq DEF Hooked, Taken
<1>3. PICK a : /\ IsFirst(results, Aborts, n - 1, a)
               /\ (acc.is \in Aborts) = (a # 0)
               /\ a # 0 => acc.by = a
  BY DEF MessageStage
<1>4. PICK b : b = IF a = 0 /\ results[n] \in Aborts THEN n ELSE a
  OBVIOUS
<1>5. IsFirst(results, Aborts, n, b)
  BY <1>2, <1>3, <1>4, FirstSoFar
<1>6. acc \in Taken /\ acc.is \in Results
  BY DEF MessageStage, Taken
<1>7. PICK new : new = IF acc.is \in Aborts THEN acc ELSE Merge(acc, next)
  OBVIOUS
<1>8. CASE a # 0
  BY <1>1, <1>3, <1>4, <1>5, <1>6, <1>7, <1>8 DEF MessageStage
<1>9. CASE a = 0 /\ results[n] \in Aborts
  <2>1. acc.is \notin Aborts
    BY <1>3, <1>9
  <2>2. Priority(acc.is) < 3
    BY <1>6, <2>1 DEF Priority
  <2>3. new = next
    BY <1>2, <1>7, <1>9, <2>1, <2>2, Priorities DEF Merge
  <2> QED BY <1>1, <1>2, <1>4, <1>5, <1>7, <1>9, <2>3 DEF MessageStage
<1>10. CASE a = 0 /\ results[n] \notin Aborts
  <2>1. new \in Taken /\ new.is \notin Aborts
    BY <1>2, <1>3, <1>6, <1>7, <1>10 DEF Merge
  <2>2. b = 0
    BY <1>4, <1>10
  <2> QED BY <1>1, <1>5, <1>7, <2>1, <2>2 DEF MessageStage
<1> QED BY <1>8, <1>9, <1>10

LEMMA FirstStages ==
  ASSUME NEW results
  PROVE  /\ RequestStage(results, [decision |-> Continue, pause |-> FALSE, stopped |-> FALSE], 0)
         /\ ResponseStage(results, [decision |-> Continue, pause |-> FALSE, stopped |-> FALSE], 0)
         /\ MessageStage(results, Continue, 0)
<1>1. /\ Continue.by = 0 /\ Continue.is = "continue" /\ Continue.is \notin Aborts
      /\ Continue \in Taken
  BY DEF Continue, Taken, Results, Aborts
<1>2. \A wanted : IsFirst(results, wanted, 0, 0)
  BY DEF IsFirst
<1>3. Asked(results, 0, 0) = FALSE
  BY DEF Asked
<1>4. PICK acc : acc = [decision |-> Continue, pause |-> FALSE, stopped |-> FALSE]
  OBVIOUS
<1>5. acc \in Found /\ acc.decision = Continue /\ acc.pause = FALSE /\ acc.stopped = FALSE
  BY <1>1, <1>4 DEF Found
<1>6. RequestStage(results, acc, 0)
  BY <1>1, <1>2, <1>3, <1>5 DEF RequestStage
<1>7. ResponseStage(results, acc, 0)
  BY <1>1, <1>2, <1>3, <1>5 DEF ResponseStage
<1>8. MessageStage(results, Continue, 0)
  BY <1>1, <1>2 DEF MessageStage
<1> QED BY <1>4, <1>6, <1>7, <1>8

(* What the three chains have decided when the last hook has answered.     *)
LEMMA StagesReached ==
  ASSUME NEW results \in Seq(Results)
  PROVE  /\ RequestStage(results, OnRequest(results), Len(results))
         /\ ResponseStage(results, OnResponse(results), Len(results))
         /\ MessageStage(results, OnMessage(results), Len(results))
<1>1. PICK n \in Nat : n = Len(results)
  BY LenProperties
<1>2. PICK start : start = [decision |-> Continue, pause |-> FALSE, stopped |-> FALSE]
  OBVIOUS
<1>3. /\ RequestStage(results, start, 0) /\ ResponseStage(results, start, 0)
      /\ MessageStage(results, Continue, 0)
  BY <1>2, FirstStages
<1>4. RequestStage(results, OnRequest(results), Len(results))
  <2>0. PICK acc : /\ RunHooks(results, RequestStops) = acc[Len(results)]
                   /\ acc[0] = [decision |-> Continue, pause |-> FALSE, stopped |-> FALSE]
                   /\ \A k \in 1..Len(results) : acc[k] = AfterHook(acc[k - 1], Hooked(results)[k], RequestStops)
    BY HooksInOrder, Zenon
  <2>1. /\ RunHooks(results, RequestStops) = acc[n] /\ acc[0] = start
        /\ \A k \in 1..n : acc[k] = AfterHook(acc[k - 1], Hooked(results)[k], RequestStops)
    BY <1>1, <1>2, <2>0
  <2> DEFINE N == {k \in Nat : k <= n => RequestStage(results, acc[k], k)}
  <2>2. 0 \in N
    BY <1>3, <2>1
  <2>3. ASSUME NEW k \in N PROVE k + 1 \in N
    <3>1. k \in Nat /\ (k <= n => RequestStage(results, acc[k], k))
      OBVIOUS
    <3> SUFFICES ASSUME k + 1 <= n PROVE RequestStage(results, acc[k + 1], k + 1)
      BY <3>1
    <3>2. k + 1 \in 1..n /\ k <= n /\ (k + 1) - 1 = k
      BY <3>1
    <3>3. RequestStage(results, acc[k], k)
      BY <3>1, <3>2
    <3>4. PICK j \in 1..Len(results) : j = k + 1 /\ j - 1 = k
      BY <1>1, <3>2
    <3>5. acc[j] = AfterHook(acc[k], Hooked(results)[j], RequestStops)
      BY <1>1, <2>1, <3>4
    <3>6. RequestStage(results, AfterHook(acc[k], Hooked(results)[j], RequestStops), j)
      BY <3>3, <3>4, RequestStep
    <3> QED BY <3>4, <3>5, <3>6
  <2>4. N \in SUBSET Nat
    OBVIOUS
  <2>5. n \in N
    <3> HIDE DEF N
    <3> QED BY <2>2, <2>3, <2>4, SetInduction
  <2>6. RequestStage(results, acc[n], n)
    BY <2>5
  <2> QED BY <1>1, <2>1, <2>6 DEF OnRequest
<1>5. ResponseStage(results, OnResponse(results), Len(results))
  <2>0. PICK acc : /\ RunHooks(results, ResponseStops) = acc[Len(results)]
                   /\ acc[0] = [decision |-> Continue, pause |-> FALSE, stopped |-> FALSE]
                   /\ \A k \in 1..Len(results) : acc[k] = AfterHook(acc[k - 1], Hooked(results)[k], ResponseStops)
    BY HooksInOrder, Zenon
  <2>1. /\ RunHooks(results, ResponseStops) = acc[n] /\ acc[0] = start
        /\ \A k \in 1..n : acc[k] = AfterHook(acc[k - 1], Hooked(results)[k], ResponseStops)
    BY <1>1, <1>2, <2>0
  <2> DEFINE N == {k \in Nat : k <= n => ResponseStage(results, acc[k], k)}
  <2>2. 0 \in N
    BY <1>3, <2>1
  <2>3. ASSUME NEW k \in N PROVE k + 1 \in N
    <3>1. k \in Nat /\ (k <= n => ResponseStage(results, acc[k], k))
      OBVIOUS
    <3> SUFFICES ASSUME k + 1 <= n PROVE ResponseStage(results, acc[k + 1], k + 1)
      BY <3>1
    <3>2. k + 1 \in 1..n /\ k <= n /\ (k + 1) - 1 = k
      BY <3>1
    <3>3. ResponseStage(results, acc[k], k)
      BY <3>1, <3>2
    <3>4. PICK j \in 1..Len(results) : j = k + 1 /\ j - 1 = k
      BY <1>1, <3>2
    <3>5. acc[j] = AfterHook(acc[k], Hooked(results)[j], ResponseStops)
      BY <1>1, <2>1, <3>4
    <3>6. ResponseStage(results, AfterHook(acc[k], Hooked(results)[j], ResponseStops), j)
      BY <3>3, <3>4, ResponseStep
    <3> QED BY <3>4, <3>5, <3>6
  <2>4. N \in SUBSET Nat
    OBVIOUS
  <2>5. n \in N
    <3> HIDE DEF N
    <3> QED BY <2>2, <2>3, <2>4, SetInduction
  <2>6. ResponseStage(results, acc[n], n)
    BY <2>5
  <2> QED BY <1>1, <2>1, <2>6 DEF OnResponse
<1>6. MessageStage(results, OnMessage(results), Len(results))
  <2>1. PICK acc : /\ OnMessage(results) = acc[n] /\ acc[0] = Continue
                   /\ \A k \in 1..n :
                        acc[k] = (IF acc[k - 1].is \in Aborts THEN acc[k - 1] ELSE Merge(acc[k - 1], Hooked(results)[k]))
    BY <1>1, MessagesInOrder
  <2> DEFINE N == {k \in Nat : k <= n => MessageStage(results, acc[k], k)}
  <2>2. 0 \in N
    BY <1>3, <2>1
  <2>3. ASSUME NEW k \in N PROVE k + 1 \in N
    <3>1. k \in Nat /\ (k <= n => MessageStage(results, acc[k], k))
      OBVIOUS
    <3> SUFFICES ASSUME k + 1 <= n PROVE MessageStage(results, acc[k + 1], k + 1)
      BY <3>1
    <3>2. k + 1 \in 1..n /\ k <= n /\ (k + 1) - 1 = k
      BY <3>1
    <3>3. MessageStage(results, acc[k], k)
      BY <3>1, <3>2
    <3>4. PICK j \in 1..Len(results) : j = k + 1 /\ j - 1 = k
      BY <1>1, <3>2
    <3>5. acc[j] = IF acc[k].is \in Aborts THEN acc[k] ELSE Merge(acc[k], Hooked(results)[j])
      BY <1>1, <2>1, <3>4
    <3>6. MessageStage(results, IF acc[k].is \in Aborts THEN acc[k] ELSE Merge(acc[k], Hooked(results)[j]), j)
      BY <3>3, <3>4, MessageStep
    <3> QED BY <3>4, <3>5, <3>6
  <2>4. N \in SUBSET Nat
    OBVIOUS
  <2>5. n \in N
    <3> HIDE DEF N
    <3> QED BY <2>2, <2>3, <2>4, SetInduction
  <2>6. MessageStage(results, acc[n], n)
    BY <2>5
  <2> QED BY <1>1, <2>1, <2>6
<1> QED BY <1>4, <1>5, <1>6

(* A chain of hooks of any length decides what Decides says without a      *)
(* loop: a request stops at the first abort or mock, a response only at    *)
(* the first abort, a message is aborted by the first abort; and the flow  *)
(* pauses exactly when a hook that still runs asks for it                  *)
(* (pipeline.go:162).                                                      *)
THEOREM ChainsDecideAlways == \A results \in Seq(Results) : Decides(results)
<1> SUFFICES ASSUME NEW results \in Seq(Results) PROVE Decides(results)
  OBVIOUS
<1>1. PICK n \in Nat : n = Len(results) /\ DOMAIN results = 1..n
  BY LenProperties
<1>2. PICK request, response, message :
        /\ request = OnRequest(results) /\ response = OnResponse(results)
        /\ message = OnMessage(results)
  OBVIOUS
<1>3. /\ RequestStage(results, request, n) /\ ResponseStage(results, response, n)
      /\ MessageStage(results, message, n)
  BY <1>1, <1>2, StagesReached
<1>4. PICK first, abort, mock :
        /\ first = FirstOf(results, Aborts \cup {"mock"}) /\ abort = FirstOf(results, Aborts)
        /\ mock = FirstOf(results, {"mock"})
  OBVIOUS
<1>5. \A last : AskedBefore(results, last) = Asked(results, n, last)
  BY <1>1 DEF AskedBefore, Asked
<1>6. request.decision.by = first /\ request.pause = AskedBefore(results, first)
  <2>1. IsFirst(results, Aborts \cup {"mock"}, n, request.decision.by)
    BY <1>3 DEF RequestStage, RequestStops
  <2>2. request.decision.by = first
    BY <1>1, <1>4, <2>1, FirstFound
  <2> QED BY <1>3, <1>5, <2>2 DEF RequestStage
<1>7. /\ response.decision.by = (IF abort # 0 THEN abort ELSE mock)
      /\ response.pause = AskedBefore(results, abort)
  <2>1. PICK a, m : /\ IsFirst(results, Aborts, n, a) /\ IsFirst(results, {"mock"}, n, m)
                    /\ response.decision.by = (IF a # 0 THEN a ELSE m)
                    /\ response.pause = Asked(results, n, a)
    BY <1>3 DEF ResponseStage
  <2>2. a = abort /\ m = mock
    BY <1>1, <1>4, <2>1, FirstFound
  <2> QED BY <1>5, <2>1, <2>2
<1>8. (message.is \in Aborts) = (abort # 0) /\ (abort # 0 => message.by = abort)
  <2>1. PICK a : /\ IsFirst(results, Aborts, n, a) /\ (message.is \in Aborts) = (a # 0)
                 /\ a # 0 => message.by = a
    BY <1>3 DEF MessageStage
  <2>2. a = abort
    BY <1>1, <1>4, <2>1, FirstFound
  <2> QED BY <2>1, <2>2
<1> QED BY <1>2, <1>4, <1>6, <1>7, <1>8 DEF Decides

(* However a phase meets its hooks, one by one, the decision and the pause *)
(* it has come to are those the first abort or mock and the breakpoints    *)
(* before it ask for (pipeline.go:161, 194, 227).                          *)
THEOREM ChainsAlwaysDecide == ChainSpec => []ChainsDecide
<1> DEFINE Met == answers \in Seq(Results)
<1>1. ChainInit => Met
  BY DEF ChainInit
<1>2. Met /\ [NextHook]_answers => Met'
  <2> SUFFICES ASSUME Met, [NextHook]_answers PROVE Met'
    OBVIOUS
  <2>1. CASE UNCHANGED answers
    BY <2>1
  <2>2. CASE NextHook
    <3>1. PICK r \in Results : answers' = Append(answers, r)
      BY <2>2 DEF NextHook
    <3> QED BY <3>1, AppendProperties
  <2> QED BY <2>1, <2>2
<1>3. Met => ChainsDecide
  BY ChainsDecideAlways DEF ChainsDecide
<1> QED BY <1>1, <1>2, <1>3, PTL DEF ChainSpec

(* What a request or a response can come out as.                           *)
LEMMA WhatChainsDecide ==
  ASSUME NEW results \in Seq(Results)
  PROVE  /\ OnRequest(results) \in Found /\ OnResponse(results) \in Found
         /\ OnRequest(results).decision.is \in {"continue", "mock"} \cup Aborts
         /\ OnResponse(results).decision.is \in {"continue", "mock"} \cup Aborts
<1>1. PICK n \in Nat : n = Len(results)
  BY LenProperties
<1>2. PICK request, response : request = OnRequest(results) /\ response = OnResponse(results)
  OBVIOUS
<1>3. RequestStage(results, request, n) /\ ResponseStage(results, response, n)
  BY <1>1, <1>2, StagesReached
<1>4. request.decision.is \in {"continue", "mock"} \cup Aborts
  BY <1>3 DEF RequestStage, IsFirst, RequestStops
<1>5. response.decision.is \in {"continue", "mock"} \cup Aborts
  BY <1>3 DEF ResponseStage, IsFirst
<1>6. request \in Found /\ response \in Found
  BY <1>3 DEF RequestStage, ResponseStage
<1> QED BY <1>2, <1>4, <1>5, <1>6

-----------------------------------------------------------------------------
(* The exchanges.                                                          *)

P == INSTANCE BreakpointProofs
       WITH HandlerStates <- {"pending", "awaiting_response", "completed",
                              "mocked", "blocked", "errored"}

PhaseNames == {"request", "response"}

Todos == {"finish", "write", "bad_gateway"} \cup Aborts

(* The record of an exchange.                                              *)
Verdicts == {"continue", "mock"} \cup Aborts
Fields   == [proto : {"h1", "h2", None},
             pc : {"new", "body", "hooks", "paused", "decide", "upstream",
                   "relay", "reply", "done"},
             phase : PhaseNames, verdict : Verdicts, route : Routes, upstream : BOOLEAN,
             timed : BOOLEAN, cut : BOOLEAN, todo : Seq(Todos),
             wire : Written \cup Partial \cup {"short", None}, noReuse : BOOLEAN, err : BOOLEAN,
             entry : {"open", "committed", "aborted", None}, recorded : Seq(P!States),
             outcome : {"kept", "closed", "ended", "reset", None}]

ExTypes == ex \in [Flows -> Fields]

(* Where the manager may be at work for an exchange.                       *)
Guarded(f) ==
  /\ step[f] # "idle" => ex[f].pc = "paused" /\ at[f] = ex[f].phase /\ state[f] = P!Paused
  /\ ex[f].phase = "request" => taken[<<f, "response">>] = None
  /\ ex[f].pc \in {"new", "body", "hooks"} => taken[<<f, ex[f].phase>>] = None
  /\ ex[f].pc \in {"new", "body", "upstream"} => ex[f].phase = "request"

NoPanic == \A p \in P!Pauses : taken[p] # "panic"

-----------------------------------------------------------------------------
Routed(e) ==
  /\ e.phase = "request" => e.route \in {None, "grpc", "incomplete"}
  /\ e.phase = "response" => e.route \in Relayed \cup {"buffered", "mock"}
  /\ e.route = "incomplete" => e.pc \in {"reply", "done"}
  /\ e.phase = "request" /\ e.pc \in {"new", "body", "hooks", "paused", "decide"} => ~e.upstream
  /\ e.route = "mock" => ~e.upstream
  /\ e.cut => e.phase = "response" /\ e.route = "buffered"
  /\ e.pc = "relay" => e.phase = "response" /\ e.route \in Relayed

Before == {"new", "body", "hooks", "paused", "decide", "upstream"}

Unsaid(e) ==
  /\ e.pc \in Before => e.wire = None /\ e.entry = None
  /\ e.pc \in Before \cup {"relay"} => e.recorded = <<>>
  /\ e.pc # "done" => e.outcome = None

(* The state a mock and a buffered answer are recorded with is the one the *)
(* flow has since the answer came, unless it was aborted.                  *)
Base(e) == IF e.route = "mock" THEN "mocked" ELSE "completed"

Lasts(f, s) == s = Base(ex[f]) \/ (Aborted(f, "response") /\ s = P!Paused)

Kept(f) == ex[f].phase = "response" /\ ex[f].route \in {"mock", "buffered"} =>
  /\ ex[f].pc = "hooks" => state[f] = Base(ex[f])
  /\ ex[f].pc = "paused" /\ step[f] # "idle" => prev[f] = Base(ex[f])
  /\ (ex[f].pc = "paused" /\ step[f] = "idle") \/ ex[f].pc = "decide" => Lasts(f, state[f])

Refuses(op, s) ==
  \/ op \in Aborts /\ s = "blocked"
  \/ op \in {"abort_status", "bad_gateway"} /\ s = "errored"

Answers(f, s) ==
  \/ ex[f].route = "buffered" /\ s = "completed"
  \/ ex[f].route = "mock" /\ Lasts(f, s)

Passes(e, s) == e.route \in Relayed /\
  \/ s = "completed" /\ e.wire = "whole"
  \/ s = "blocked" /\ e.wire = "head" /\ e.err
  \/ s = "errored" /\ e.wire \in Partial \cup {None} /\ e.err

(* What the record and the client were told agree.                         *)
Tells(f, s) == LET e == ex[f] IN
  /\ s \in Final \/ (e.route = "mock" /\ Aborted(f, "response"))
  /\ s = "completed" /\ e.route \in Relayed => e.wire = "whole"
  /\ s = "errored" => e.wire \notin {"whole", "short"}
  /\ s = "blocked" => e.wire \in {"refusal", "head", None}
  /\ s = "mocked" => ~e.upstream

Closes(e) == Delimited(e) \/ e.err \/ (e.noReuse /\ e.proto = "h1")

WasSent(e) ==
  \/ e.wire = "whole"
  \/ e.wire = "short" /\ e.route = "buffered"
  \/ e.err /\ e.wire \in {"head", None}

Replies(f) == LET e == ex[f] IN
  \/ /\ e.recorded = <<>> /\ e.wire = None /\ e.entry = None
     /\ \E op \in Aborts \cup {"bad_gateway"} : e.todo = <<"finish", op>> /\ Refuses(op, state[f])
  \/ /\ e.recorded = <<>> /\ e.wire = None /\ e.entry = None
     /\ e.todo = <<"write", "finish">> /\ Answers(f, state[f])
  \/ /\ e.recorded = <<>> /\ e.todo = <<"finish">> /\ e.entry = None
     /\ Answers(f, state[f]) /\ WasSent(e)
  \/ /\ e.recorded = <<>> /\ e.todo = <<"finish">>
     /\ Passes(e, state[f])
  \/ /\ Len(e.recorded) = 1 /\ e.wire = None /\ e.entry = None
     /\ \E op \in Aborts \cup {"bad_gateway"} : e.todo = <<op>> /\ Refuses(op, e.recorded[1])
  \/ /\ Len(e.recorded) = 1 /\ e.todo = <<>> /\ Tells(f, e.recorded[1]) /\ Closes(e)

Cached(e) ==
  /\ e.pc = "relay" => e.entry = IF e.route = "passthrough" THEN "open" ELSE None
  /\ e.pc \in {"reply", "done"} => e.entry # "open"
  /\ e.entry = "committed" => e.wire \in {"body", "whole"}

Course(f) ==
  /\ Routed(ex[f]) /\ Unsaid(ex[f]) /\ Kept(f) /\ Cached(ex[f])
  /\ ex[f].pc = "reply" => Replies(f)
  /\ ex[f].pc = "done" =>
       /\ Len(ex[f].recorded) = 1 /\ Tells(f, ex[f].recorded[1])
       /\ ex[f].outcome \in {"kept", "ended"} => Delimited(ex[f])
       /\ ex[f].outcome = "kept" => ex[f].route # "incomplete"

(* What was aborted at a breakpoint, but for a mock.                       *)
Stopped(e) ==
  /\ e.wire = None
  /\ \/ e.pc \in {"paused", "done"}
     \/ e.pc = "decide" /\ e.verdict = "abort_close"
     \/ e.pc = "reply" /\ e.todo \in {<<"finish", "abort_close">>, <<"abort_close">>, <<>>}

Obeyed(f) == \A ph \in PhaseNames : Aborted(f, ph) =>
  /\ ex[f].phase = ph
  /\ ph = "request" => ~ex[f].upstream
  /\ Stopped(ex[f]) \/ (ph = "response" /\ ex[f].route = "mock")

Types       == P!TypeOK /\ ExTypes /\ NoPanic
Sound(f)    == Guarded(f) /\ Course(f) /\ Obeyed(f)
PipelineInv == Types /\ \A f \in Flows : Sound(f)

-----------------------------------------------------------------------------
(* The handlers keep to the manager's own specification.                   *)
HandlerStates == {"pending", "awaiting_response", "completed", "mocked", "blocked", "errored"}

LEMMA HandlersWrite == HandlerStates \subseteq P!Working
  BY DEF HandlerStates, P!Working

LEMMA ManagerTypes == P!TypeOK /\ [P!Next]_P!bpVars => P!TypeOK'
<1>1. MaxOpen \in Nat
  BY PipelineAssumption
<1> QED BY <1>1, P!StepTypeOK, HandlersWrite DEF HandlerStates

LEMMA InitUses == Init => P!Init /\ P!TypeOK
<1>1. Init => P!Init
  BY DEF Init, BP!Init, P!Init, BP!Pauses, P!Pauses, BP!Phases, P!Phases, BP!None, P!None
<1>2. MaxOpen \in Nat
  BY PipelineAssumption
<1> QED BY <1>1, <1>2, P!InitTypeOK, HandlersWrite DEF HandlerStates

LEMMA SameSize == BP!Cardinality(BP!Open) = P!Cardinality(P!Open)
<1>1. BP!Open = P!Open
  BY DEF BP!Open, P!Open, BP!None, P!None
<1>2. BP!Cardinality(P!Open) = P!Cardinality(P!Open)
  BY DEF BP!Cardinality, P!Cardinality, BP!IsFiniteSet, P!IsFiniteSet
<1> QED BY <1>1, <1>2

LEMMA HandlerUses ==
  ASSUME NEW f \in Flows, Guarded(f), ex[f].phase \in PhaseNames,
         Start(f) \/ Handler(f) \/ Upstream(f)
  PROVE  [P!Next]_P!bpVars
<1>1. ASSUME UNCHANGED bpVars PROVE [P!Next]_P!bpVars
  BY <1>1 DEF bpVars, P!bpVars, P!pauseVars, P!flowVars, P!callVars
<1>2. ASSUME NEW s \in HandlerStates, SetState(f, s), ex[f].pc # "paused" PROVE P!Next
  <2>1. step[f] = "idle"
    BY <1>2 DEF Guarded
  <2>2. P!SetState(f, s)
    BY <1>2, <2>1 DEF SetState, P!SetState, P!pauseVars, P!callVars
  <2> QED BY <2>2 DEF P!Next, HandlerStates
<1>3. ASSUME CallPause(f, ex[f].phase), ex[f].pc = "hooks" PROVE P!Next
  <2> DEFINE ph == ex[f].phase
  <2>1. step[f] = "idle" /\ taken[<<f, ph>>] = P!None
    BY <1>3 DEF Guarded, None, P!None
  <2>2. P!PauseFull(f, ph) \/ P!Publish(f, ph)
    <3>0. BP!Cardinality(BP!Open) = P!Cardinality(P!Open)
      BY SameSize
    <3>1. CASE BP!PauseFull(f, ph)
      BY <3>0, <3>1 DEF BP!PauseFull, P!PauseFull, BP!flowVars, P!flowVars,
                  BP!callVars, P!callVars, BP!None, P!None
    <3>2. CASE BP!Publish(f, ph)
      BY <3>0, <3>2 DEF BP!Publish, P!Publish, BP!callVars, P!callVars,
                  BP!None, P!None, BP!Paused, P!Paused
    <3> QED BY <1>3, <3>1, <3>2 DEF CallPause
  <2>3. ph \in P!Phases
    BY DEF PhaseNames, P!Phases
  <2> QED BY <2>1, <2>2, <2>3 DEF P!Pause, P!Next
<1>4. CASE \/ Start(f) \/ ReadBody(f) \/ AfterPause(f) \/ SendResponse(f) \/ SendHead(f)
           \/ Conclude(f)
  BY <1>1, <1>4 DEF Start, ReadBody, AfterPause, SendResponse, SendHead, Conclude,
       Finish, WriteReply, WriteFails, CloseUnanswered, Return
<1>5. CASE RefuseIncomplete(f) \/ NoAnswer(f)
  BY <1>2, <1>5 DEF RefuseIncomplete, NoAnswer, HandlerStates
<1>6. ASSUME NEW results \in HookRuns, NEW hit \in BOOLEAN, RunPhase(f, results, hit)
      PROVE  [P!Next]_P!bpVars
  BY <1>1, <1>3, <1>6 DEF RunPhase
<1>7. CASE DecideRequest(f)
  BY <1>1, <1>2, <1>7 DEF DecideRequest, Blocked, Mocked, Forwarded, HandlerStates
<1>8. CASE DecideResponse(f)
  BY <1>1, <1>2, <1>8 DEF DecideResponse, Blocked, SendResponse, SendHead, HeadFails,
       HandlerStates
<1>9. CASE Answered(f)
  BY <1>1, <1>2, <1>9 DEF Answered, HandlerStates
<1>10. CASE Relay(f)
  BY <1>2, <1>10 DEF Relay, RelayWhole, RelayCut, RelayBroken, RelayUnterminated,
       RelayEnds, HandlerStates
<1> QED BY <1>4, <1>5, <1>6, <1>7, <1>8, <1>9, <1>10 DEF Handler, Upstream

(* Inside Pause the steps are the manager's own; the product's emitter     *)
(* does not panic.                                                         *)
LEMMA PauseUses ==
  ASSUME NEW f \in Flows, InPause(f)
  PROVE  P!EmitHit(f) \/ P!Receive(f) \/ P!TimeOut(f) \/ P!Unpublish(f) \/ P!Resolve(f)
<1>1. CASE BP!EmitHit(f)
  BY <1>1 DEF BP!EmitHit, P!EmitHit, BP!flowVars, P!flowVars, BP!callVars, P!callVars
<1>2. CASE BP!Receive(f)
  BY <1>2 DEF BP!Receive, P!Receive, BP!flowVars, P!flowVars, BP!callVars, P!callVars,
       BP!None, P!None
<1>3. CASE BP!TimeOut(f)
  BY <1>3 DEF BP!TimeOut, P!TimeOut, BP!flowVars, P!flowVars, BP!callVars, P!callVars
<1>4. CASE BP!Unpublish(f)
  BY <1>4 DEF BP!Unpublish, P!Unpublish, BP!flowVars, P!flowVars, BP!callVars,
       P!callVars, BP!None, P!None
<1>5. CASE BP!Resolve(f)
  BY <1>5 DEF BP!Resolve, P!Resolve, BP!callVars, P!callVars, BP!None, P!None,
       BP!Restored, P!Restored
<1> QED BY <1>1, <1>2, <1>3, <1>4, <1>5 DEF InPause

LEMMA UIUses ==
  ASSUME UI
  PROVE  \/ \E c \in Calls, f \in Flows, a \in P!Answers : P!Lookup(c, f, a)
         \/ \E c \in Calls : P!Send(c)
<1>1. ASSUME NEW c \in Calls, NEW f \in Flows, NEW a \in BP!Answers, BP!Lookup(c, f, a)
      PROVE  a \in P!Answers /\ P!Lookup(c, f, a)
  BY <1>1 DEF BP!Answers, P!Answers, BP!Lookup, P!Lookup, BP!None, P!None,
       BP!pauseVars, P!pauseVars, BP!flowVars, P!flowVars
<1>2. ASSUME NEW c \in Calls, BP!Send(c) PROVE P!Send(c)
  BY <1>2 DEF BP!Send, P!Send, BP!SlotFree, P!SlotFree, BP!SlotFull, P!SlotFull, BP!None,
       P!None,
       BP!pauseVars, P!pauseVars, BP!flowVars, P!flowVars
<1> QED BY <1>1, <1>2 DEF UI

LEMMA StepUses == PipelineInv /\ [Next]_vars => [P!Next]_P!bpVars /\ P!TypeOK'
<1> SUFFICES ASSUME PipelineInv, [Next]_vars PROVE [P!Next]_P!bpVars
    BY ManagerTypes DEF PipelineInv, Types
<1>1. ASSUME NEW f \in Flows, Start(f) \/ Handler(f) \/ Upstream(f) PROVE [P!Next]_P!bpVars
  <2>1. Guarded(f) /\ ex[f].phase \in PhaseNames
    BY DEF PipelineInv, Types, ExTypes, Fields, Sound
  <2> QED BY <1>1, <2>1, HandlerUses
<1>2. ASSUME NEW f \in Flows, InPause(f) PROVE P!Next
  BY <1>2, PauseUses DEF P!Next, P!InPause
<1>3. CASE UI
  BY <1>3, UIUses DEF P!Next
<1>4. CASE UNCHANGED vars
  BY <1>4 DEF vars, bpVars, P!bpVars, P!pauseVars, P!flowVars, P!callVars
<1> QED BY <1>1, <1>2, <1>3, <1>4 DEF Next

-----------------------------------------------------------------------------
(* One exchange moves at a time; the manager holds still for it, or lets   *)
(* its handler write f.State.                                              *)
Stays(f) ==
  /\ state'[f] = state[f] /\ step'[f] = step[f] /\ at'[f] = at[f] /\ prev'[f] = prev[f]
  /\ \A ph \in PhaseNames : taken'[<<f, ph>>] = taken[<<f, ph>>]

LEMMA Given ==
  ASSUME PipelineInv, NEW f \in Flows
  PROVE  /\ ex \in [Flows -> Fields] /\ ex[f] \in Fields
         /\ Guarded(f) /\ Course(f) /\ Obeyed(f)
         /\ state \in [Flows -> P!States] /\ step \in [Flows -> P!Steps]
         /\ prev \in [Flows -> P!States \cup {None}] /\ at \in [Flows -> PhaseNames \cup {None}]
         /\ taken \in [P!Pauses -> P!Endings \cup {None}]
         /\ chan \in [P!Pauses -> P!Answers \cup {None}]
  BY DEF PipelineInv, Types, ExTypes, Sound, P!TypeOK, P!Phases, PhaseNames, P!None, None

LEMMA OneMoves ==
  ASSUME PipelineInv, P!TypeOK', NoPanic', NEW f \in Flows,
         ex' \in [Flows -> Fields], \A g \in Flows \ {f} : ex'[g] = ex[g] /\ Stays(g),
         Guarded(f)', Course(f)', Obeyed(f)'
  PROVE  PipelineInv'
<1>1. ASSUME NEW g \in Flows \ {f} PROVE Sound(g)'
  <2>1. Sound(g)
    BY DEF PipelineInv
  <2>2. ex'[g] = ex[g] /\ Stays(g) /\ ex[g].phase \in PhaseNames
    <3>1. ex[g] \in Fields
      BY Given
    <3> QED BY <3>1 DEF Fields
  <2>3. Guarded(g)'
    BY <2>1, <2>2 DEF Sound, Guarded, Stays, PhaseNames
  <2>4. \A ph \in PhaseNames : Aborted(g, ph)' <=> Aborted(g, ph)
    BY <2>2 DEF Aborted, Stays
  <2>5. \A s : Lasts(g, s)' <=> Lasts(g, s)
    BY <2>2, <2>4 DEF Lasts, PhaseNames
  <2>6. \A s : (Tells(g, s)' <=> Tells(g, s)) /\ (Answers(g, s)' <=> Answers(g, s))
    BY <2>2, <2>4, <2>5 DEF Tells, Answers, PhaseNames
  <2>7. Kept(g)' /\ (ex[g].pc = "reply" => Replies(g)')
    <3>1. Kept(g)'
      BY <2>1, <2>2, <2>5 DEF Sound, Course, Kept, Stays
    <3>2. ASSUME ex[g].pc = "reply" PROVE Replies(g)'
      <4>1. Replies(g)
        BY <2>1, <3>2 DEF Sound, Course
      <4>2. state'[g] = state[g]
        BY <2>2 DEF Stays
      <4> QED BY <4>1, <4>2, <2>2, <2>6 DEF Replies
    <3> QED BY <3>1, <3>2
  <2>8. Course(g)'
    BY <2>1, <2>2, <2>6, <2>7 DEF Sound, Course
  <2>9. Obeyed(g)'
    BY <2>1, <2>2, <2>4 DEF Sound, Obeyed
  <2> QED BY <2>3, <2>8, <2>9 DEF Sound
<1>2. Sound(f)'
  BY DEF Sound
<1>3. \A g \in Flows : Sound(g)'
  BY <1>1, <1>2
<1> QED BY <1>3 DEF PipelineInv, Types, ExTypes

LEMMA OneStill ==
  ASSUME PipelineInv, P!TypeOK', NEW f \in Flows, NEW u \in Fields,
         ex' = [ex EXCEPT ![f] = u], UNCHANGED bpVars,
         Guarded(f)', Course(f)', Obeyed(f)'
  PROVE  PipelineInv'
<1>1. \A g \in Flows : Stays(g)
  BY DEF bpVars, Stays
<1>2. NoPanic'
  BY DEF PipelineInv, Types, NoPanic, bpVars
<1>3. ex' \in [Flows -> Fields] /\ \A g \in Flows \ {f} : ex'[g] = ex[g]
  BY Given
<1> QED BY <1>1, <1>2, <1>3, OneMoves

LEMMA OneSets ==
  ASSUME PipelineInv, P!TypeOK', NEW f \in Flows, NEW u \in Fields, NEW s,
         ex' = [ex EXCEPT ![f] = u], SetState(f, s),
         Guarded(f)', Course(f)', Obeyed(f)'
  PROVE  PipelineInv'
<1>1. \A g \in Flows \ {f} : Stays(g)
  BY Given DEF SetState, Stays
<1>2. NoPanic'
  BY DEF PipelineInv, Types, NoPanic, SetState
<1>3. ex' \in [Flows -> Fields] /\ \A g \in Flows \ {f} : ex'[g] = ex[g]
  BY Given
<1> QED BY <1>1, <1>2, <1>3, OneMoves

-----------------------------------------------------------------------------
(* The fields of an exchange whose record a step changes.                  *)
LEMMA Read ==
  ASSUME NEW e \in Fields
  PROVE  /\ e.proto \in {"h1", "h2", None} /\ e.phase \in PhaseNames /\ e.verdict \in Verdicts
         /\ e.pc \in {"new", "body", "hooks", "paused", "decide", "upstream", "relay", "reply", "done"}
         /\ e.route \in Routes /\ e.upstream \in BOOLEAN /\ e.cut \in BOOLEAN /\ e.todo \in Seq(Todos)
         /\ e.wire \in Written \cup Partial \cup {"short", None} /\ e.noReuse \in BOOLEAN /\ e.err \in BOOLEAN
         /\ e.entry \in {"open", "committed", "aborted", None} /\ e.recorded \in Seq(P!States)
         /\ e.outcome \in {"kept", "closed", "ended", "reset", None}
  BY DEF Fields

LEMMA StartKeeps ==
  ASSUME PipelineInv, P!TypeOK', NEW f \in Flows, Start(f)
  PROVE  PipelineInv'
<1> DEFINE e == ex[f]
<1>0. e \in Fields /\ ex \in [Flows -> Fields] /\ Guarded(f) /\ Course(f) /\ Obeyed(f)
  BY Given
<1>1. ASSUME NEW u \in Fields, ex' = [ex EXCEPT ![f] = u], UNCHANGED bpVars, e.pc = "new",
             u.pc \in {"body", "hooks"}, u.route \in {"grpc", e.route}, u.phase = e.phase,
             u.upstream = e.upstream, u.cut = e.cut, u.wire = e.wire, u.entry = e.entry,
             u.recorded = e.recorded, u.outcome = e.outcome
      PROVE  PipelineInv'
  <2>1. ex'[f] = u /\ e.phase = "request" /\ Stays(f)
    BY <1>0, <1>1 DEF Guarded, bpVars, Stays
  <2>2. Guarded(f)'
    BY <1>0, <1>1, <2>1 DEF Guarded, Stays, PhaseNames
  <2>3. Course(f)'
    BY <1>0, <1>1, <2>1 DEF Course, Routed, Unsaid, Before, Kept, Cached
  <2>4. Obeyed(f)'
    BY <1>0, <1>1, <2>1 DEF Obeyed, Stays, Aborted, Stopped, PhaseNames, Guarded
  <2> QED BY <1>1, <2>2, <2>3, <2>4, OneStill
<1>2. ASSUME NEW p \in Protocols, ex' = [ex EXCEPT ![f].proto = p, ![f].pc = "body"]
      PROVE  PipelineInv'
  <2> DEFINE u == [e EXCEPT !.proto = p, !.pc = "body"]
  <2>1. ex' = [ex EXCEPT ![f] = u] /\ u \in Fields
    BY <1>0, <1>2, PipelineAssumption DEF Fields
  <2>2. /\ u.pc = "body" /\ u.route = e.route /\ u.phase = e.phase
        /\ u.upstream = e.upstream /\ u.cut = e.cut /\ u.wire = e.wire /\ u.entry = e.entry
        /\ u.recorded = e.recorded /\ u.outcome = e.outcome
    BY <1>0 DEF Fields
  <2> HIDE DEF u
  <2> QED BY <1>1, <2>1, <2>2 DEF Start
<1>3. ASSUME NEW p \in Protocols,
             ex' = [ex EXCEPT ![f].proto = p, ![f].pc = "hooks", ![f].route = "grpc"]
      PROVE  PipelineInv'
  <2> DEFINE u == [e EXCEPT !.proto = p, !.pc = "hooks", !.route = "grpc"]
  <2>1. ex' = [ex EXCEPT ![f] = u] /\ u \in Fields
    BY <1>0, <1>3, PipelineAssumption DEF Fields, Routes, Relayed, Streamed
  <2>2. /\ u.pc = "hooks" /\ u.route = "grpc" /\ u.phase = e.phase
        /\ u.upstream = e.upstream /\ u.cut = e.cut /\ u.wire = e.wire /\ u.entry = e.entry
        /\ u.recorded = e.recorded /\ u.outcome = e.outcome
    BY <1>0 DEF Fields
  <2> HIDE DEF u
  <2> QED BY <1>1, <2>1, <2>2 DEF Start
<1> QED BY <1>2, <1>3 DEF Start

LEMMA ReadBodyKeeps ==
  ASSUME PipelineInv, P!TypeOK', NEW f \in Flows, ReadBody(f)
  PROVE  PipelineInv'
<1> DEFINE e == ex[f]
           u == [e EXCEPT !.pc = "hooks"]
<1>0. e \in Fields /\ ex \in [Flows -> Fields] /\ Guarded(f) /\ Course(f) /\ Obeyed(f)
  BY Given
<1>1. ex' = [ex EXCEPT ![f] = u] /\ UNCHANGED bpVars /\ e.pc = "body" /\ u \in Fields
  BY <1>0 DEF ReadBody, Fields
<1>2. /\ u.pc = "hooks" /\ u.route = e.route /\ u.phase = e.phase
      /\ u.upstream = e.upstream /\ u.cut = e.cut /\ u.wire = e.wire /\ u.entry = e.entry
      /\ u.recorded = e.recorded /\ u.outcome = e.outcome
  BY <1>0 DEF Fields
<1> HIDE DEF u
<1>3. ex'[f] = u /\ e.phase = "request" /\ Stays(f)
  BY <1>0, <1>1 DEF Guarded, bpVars, Stays
<1>4. Guarded(f)'
  BY <1>0, <1>1, <1>2, <1>3 DEF Guarded, Stays, PhaseNames
<1>5. Course(f)'
  BY <1>0, <1>1, <1>2, <1>3 DEF Course, Routed, Unsaid, Before, Kept, Cached
<1>6. Obeyed(f)'
  BY <1>0, <1>1, <1>2, <1>3 DEF Obeyed, Stays, Aborted, Stopped, PhaseNames, Guarded
<1> QED BY <1>1, <1>4, <1>5, <1>6, OneStill

(* Pause, up to the release of the lock, touches only the flow it is       *)
(* called for.                                                             *)
LEMMA CallsPause ==
  ASSUME PipelineInv, NEW f \in Flows, NEW ph \in PhaseNames, CallPause(f, ph)
  PROVE  /\ \A g \in Flows \ {f} : Stays(g)
         /\ \A q \in PhaseNames \ {ph} : taken'[<<f, q>>] = taken[<<f, q>>]
         /\ \/ /\ step'[f] = step[f] /\ at'[f] = at[f] /\ state'[f] = state[f]
               /\ taken'[<<f, ph>>] = "full"
            \/ /\ step'[f] = "hit" /\ at'[f] = ph /\ prev'[f] = state[f] /\ state'[f] = P!Paused
               /\ taken'[<<f, ph>>] = taken[<<f, ph>>]
         /\ NoPanic'
<1> USE Given
<1>1. CASE BP!PauseFull(f, ph)
  <2>1. /\ taken' = [taken EXCEPT ![<<f, ph>>] = "full"] /\ step' = step /\ at' = at
        /\ prev' = prev /\ state' = state
    BY <1>1 DEF BP!PauseFull, BP!flowVars
  <2>2. \A p \in P!Pauses : taken'[p] = IF p = <<f, ph>> THEN "full" ELSE taken[p]
    BY <2>1
  <2>3. \A g \in Flows, q \in PhaseNames : <<g, q>> \in P!Pauses
    BY DEF P!Pauses, P!Phases, PhaseNames
  <2> QED BY <2>1, <2>2, <2>3 DEF Stays, NoPanic, PipelineInv, Types
<1>2. CASE BP!Publish(f, ph)
  BY <1>2 DEF BP!Publish, BP!Paused, P!Paused, Stays, NoPanic, PipelineInv, Types
<1> QED BY <1>1, <1>2 DEF CallPause

LEMMA RunPhaseKeeps ==
  ASSUME PipelineInv, P!TypeOK', NEW f \in Flows, NEW results \in HookRuns, NEW hit \in BOOLEAN,
         RunPhase(f, results, hit)
  PROVE  PipelineInv'
<1> DEFINE e == ex[f]
           v == Chain(e.phase, results).decision.is
<1>0. e \in Fields /\ ex \in [Flows -> Fields] /\ Guarded(f) /\ Course(f) /\ Obeyed(f)
  BY Given
<1>a. v \in Verdicts
  <2>1. results \in Seq(Results)
    BY PipelineAssumption
  <2> QED BY <2>1, WhatChainsDecide DEF Chain, Verdicts
<1>1. e.pc = "hooks" /\ v \in Verdicts /\ e.phase \in PhaseNames /\ step[f] = "idle"
  BY <1>a, <1>0, Read DEF RunPhase, Guarded
<1>2. /\ state \in [Flows -> P!States] /\ taken[<<f, e.phase>>] = None
      /\ ~Aborted(f, "request") /\ ~Aborted(f, "response")
  BY <1>0, <1>1, Given DEF Guarded, Obeyed, PhaseNames, Stopped, Aborted, None
<1> HIDE DEF v
<1>3. ASSUME NEW w \in {"paused", "decide"}, ex' = [ex EXCEPT ![f].verdict = v, ![f].pc = w],
             w = "paused" => CallPause(f, e.phase),
             w = "decide" => UNCHANGED bpVars
      PROVE  PipelineInv'
  <2> DEFINE u == [e EXCEPT !.verdict = v, !.pc = w]
  <2>1. ex' = [ex EXCEPT ![f] = u] /\ u \in Fields
    BY <1>0, <1>1, <1>3 DEF Fields
  <2>2. /\ u.pc = w /\ u.route = e.route /\ u.phase = e.phase
        /\ u.upstream = e.upstream /\ u.cut = e.cut /\ u.wire = e.wire /\ u.entry = e.entry
        /\ u.recorded = e.recorded /\ u.outcome = e.outcome
    BY <1>0 DEF Fields
  <2> HIDE DEF u
  <2>3. ex'[f] = u /\ ex' \in [Flows -> Fields] /\ \A g \in Flows \ {f} : ex'[g] = ex[g]
    BY <1>0, <2>1
  <2>4. CASE w = "decide"
    <3>1. Stays(f)
      BY <1>3, <2>4 DEF bpVars, Stays
    <3>2. Guarded(f)'
      BY <1>0, <1>1, <2>2, <2>3, <2>4, <3>1 DEF Guarded, Stays, PhaseNames
    <3>3. Course(f)'
      BY <1>0, <1>1, <2>2, <2>3, <2>4, <3>1 DEF Course, Routed, Unsaid, Before, Kept,
           Cached, Lasts, Base, Stays
    <3>4. Obeyed(f)'
      BY <1>2, <3>1 DEF Obeyed, Stays, Aborted, PhaseNames
    <3> QED BY <1>3, <2>1, <2>4, <3>2, <3>3, <3>4, OneStill
  <2>5. CASE w = "paused"
    <3>1. CallPause(f, e.phase)
      BY <1>3, <2>5
    <3>2. /\ \A g \in Flows \ {f} : Stays(g)
          /\ \A q \in PhaseNames \ {e.phase} : taken'[<<f, q>>] = taken[<<f, q>>]
          /\ \/ step'[f] = "idle" /\ state'[f] = state[f] /\ taken'[<<f, e.phase>>] = "full"
             \/ /\ step'[f] = "hit" /\ at'[f] = e.phase /\ prev'[f] = state[f]
                /\ state'[f] = P!Paused /\ taken'[<<f, e.phase>>] = None
          /\ NoPanic'
      BY <1>1, <1>2, <3>1, CallsPause
    <3>3. Guarded(f)'
      BY <1>0, <1>1, <2>2, <2>3, <2>5, <3>2 DEF Guarded, PhaseNames
    <3>4. ~Aborted(f, "request")' /\ ~Aborted(f, "response")'
      BY <1>1, <1>2, <3>2 DEF Aborted, PhaseNames, None
    <3>5. Course(f)'
      BY <1>0, <1>1, <2>2, <2>3, <2>5, <3>2, <3>4 DEF Course, Routed, Unsaid, Before,
           Kept, Cached, Lasts, Base
    <3>6. Obeyed(f)'
      BY <3>4 DEF Obeyed, PhaseNames
    <3> QED BY <2>3, <3>2, <3>3, <3>5, <3>6, OneMoves
  <2> QED BY <2>4, <2>5
<1> DEFINE pauses == Chain(e.phase, results).decision.is \notin Aborts
                     /\ (Chain(e.phase, results).pause \/ hit)
<1>4. /\ IF pauses THEN CallPause(f, e.phase) ELSE UNCHANGED bpVars
      /\ ex' = [ex EXCEPT ![f].verdict = v, ![f].pc = IF pauses THEN "paused" ELSE "decide"]
  BY DEF RunPhase, v
<1> HIDE DEF pauses
<1> QED BY <1>3, <1>4

LEMMA AfterPauseKeeps ==
  ASSUME PipelineInv, P!TypeOK', NEW f \in Flows, AfterPause(f)
  PROVE  PipelineInv'
<1> DEFINE e == ex[f]
           v == IF taken[<<f, e.phase>>] = "abort" THEN "abort_close" ELSE e.verdict
           u == [e EXCEPT !.pc = "decide", !.verdict = v]
<1>0. e \in Fields /\ ex \in [Flows -> Fields] /\ Guarded(f) /\ Course(f) /\ Obeyed(f)
  BY Given
<1>1. /\ v \in Verdicts /\ e.pc = "paused" /\ step[f] = "idle"
      /\ Aborted(f, e.phase) => v = "abort_close"
  BY <1>0 DEF AfterPause, Verdicts, Aborts, Fields, Aborted
<1>2. ex' = [ex EXCEPT ![f] = u] /\ UNCHANGED bpVars
  BY <1>0 DEF AfterPause, Fields
<1> HIDE DEF v
<1>3. /\ u.pc = "decide" /\ u.verdict = v /\ u.route = e.route /\ u.phase = e.phase
      /\ u.upstream = e.upstream /\ u.cut = e.cut /\ u.wire = e.wire /\ u.entry = e.entry
      /\ u.recorded = e.recorded /\ u.outcome = e.outcome /\ u \in Fields
  BY <1>0, <1>1 DEF Fields
<1> HIDE DEF u
<1>4. ex'[f] = u /\ Stays(f)
  BY <1>0, <1>2 DEF bpVars, Stays
<1>5. Guarded(f)'
  BY <1>0, <1>1, <1>3, <1>4 DEF Guarded, Stays, PhaseNames
<1>6. Course(f)'
  BY <1>0, <1>1, <1>3, <1>4 DEF Course, Routed, Unsaid, Before, Kept, Cached, Lasts,
       Base, Stays, Aborted, PhaseNames
<1>7. Obeyed(f)'
  BY <1>0, <1>1, <1>3, <1>4 DEF Obeyed, Stays, Aborted, Stopped, PhaseNames
<1> QED BY <1>2, <1>3, <1>5, <1>6, <1>7, OneStill

LEMMA Writes ==
  ASSUME PipelineInv, NEW f \in Flows, NEW s, SetState(f, s)
  PROVE  /\ state'[f] = s /\ step' = step /\ at' = at /\ prev' = prev /\ taken' = taken
         /\ \A ph \in PhaseNames : Aborted(f, ph)' <=> Aborted(f, ph)
  BY Given DEF SetState, Aborted

(* The sequence of the calls that end an exchange, taken one at a time.    *)
LEMMA Two ==
  ASSUME NEW a, NEW b
  PROVE  /\ Head(<<a, b>>) = a /\ Tail(<<a, b>>) = <<b>> /\ Len(<<a, b>>) = 2
         /\ <<a, b>> # <<>> /\ \A c : <<a, b>> # <<c>>
  OBVIOUS

(* A refusal, written from wherever nothing has been answered yet.         *)
LEMMA Refuse ==
  ASSUME PipelineInv, P!TypeOK', NEW f \in Flows, NEW u \in Fields, NEW s,
         NEW op \in Aborts \cup {"bad_gateway"}, Refuses(op, s),
         ex' = [ex EXCEPT ![f] = u], SetState(f, s), ex[f].pc \in Before \ {"paused"},
         u.pc = "reply", u.todo = <<"finish", op>>,
         u.route = ex[f].route \/ (u.route = "incomplete" /\ ex[f].pc = "body"),
         u.phase = ex[f].phase, u.upstream = ex[f].upstream, u.cut = ex[f].cut, u.wire = ex[f].wire,
         u.entry = ex[f].entry, u.recorded = ex[f].recorded, u.outcome = ex[f].outcome,
         \A ph \in PhaseNames : Aborted(f, ph) =>
           op = "abort_close" \/ (ph = "response" /\ ex[f].route = "mock")
  PROVE  PipelineInv'
<1>0. ex[f] \in Fields /\ ex \in [Flows -> Fields] /\ Guarded(f) /\ Course(f) /\ Obeyed(f)
  BY Given
<1>1. /\ ex'[f] = u /\ state'[f] = s /\ step' = step /\ at' = at /\ prev' = prev /\ taken' = taken
      /\ \A ph \in PhaseNames : Aborted(f, ph)' <=> Aborted(f, ph)
  BY <1>0, Writes
<1>2. step[f] = "idle" /\ ex[f].pc # "reply" /\ ex[f].pc # "done"
  BY <1>0 DEF Guarded, Before
<1>3. Guarded(f)'
  BY <1>0, <1>1, <1>2 DEF Guarded, PhaseNames
<1>4. u.recorded = <<>> /\ u.wire = None /\ u.entry = None /\ u.outcome = None
  BY <1>0, <1>2 DEF Course, Unsaid
<1>5. Replies(f)'
  <2>1. \E o \in Aborts \cup {"bad_gateway"} : u.todo = <<"finish", o>> /\ Refuses(o, s)
    OBVIOUS
  <2> QED BY <1>1, <1>4, <2>1 DEF Replies
<1>6. Course(f)'
  <2>1. Routed(u)
    BY <1>0 DEF Course, Routed, Before, Guarded
  <2>2. Unsaid(u) /\ Cached(u) /\ Kept(f)'
    BY <1>1, <1>4 DEF Unsaid, Before, Cached, Kept, None
  <2> QED BY <1>1, <1>5, <2>1, <2>2 DEF Course
<1>7. Obeyed(f)'
  <2> SUFFICES ASSUME NEW ph \in PhaseNames, Aborted(f, ph)
               PROVE  /\ u.phase = ph
                      /\ ph = "request" => ~u.upstream
                      /\ Stopped(u) \/ (ph = "response" /\ u.route = "mock")
    BY <1>1 DEF Obeyed
  <2>1. ex[f].phase = ph /\ (ph = "request" => ~ex[f].upstream)
    BY <1>0 DEF Obeyed
  <2>2. CASE op = "abort_close"
    BY <1>4, <2>1, <2>2 DEF Stopped
  <2>3. CASE ph = "response" /\ ex[f].route = "mock"
    BY <1>0, <2>1, <2>3 DEF Guarded
  <2> QED BY <2>1, <2>2, <2>3
<1> QED BY <1>3, <1>6, <1>7, OneSets

LEMMA RefuseIncompleteKeeps ==
  ASSUME PipelineInv, P!TypeOK', NEW f \in Flows, RefuseIncomplete(f)
  PROVE  PipelineInv'
<1> DEFINE e == ex[f]
           todo == <<"finish", "abort_status">>
           u == [e EXCEPT !.pc = "reply", !.todo = todo, !.route = "incomplete", !.noReuse = TRUE]
<1>0. e \in Fields /\ ex \in [Flows -> Fields] /\ Obeyed(f)
  BY Given
<1>1. /\ ex' = [ex EXCEPT ![f].pc = "reply", ![f].todo = todo, ![f].route = "incomplete", ![f].noReuse = TRUE]
      /\ SetState(f, "errored") /\ e.pc = "body"
  BY DEF RefuseIncomplete
<1>a. todo \in Seq(Todos)
  BY <1>1 DEF Todos, Aborts
<1> HIDE DEF todo
<1>2. /\ u.pc = "reply" /\ u.todo = todo /\ u.route = "incomplete" /\ u.phase = e.phase
      /\ u.upstream = e.upstream /\ u.cut = e.cut /\ u.wire = e.wire /\ u.entry = e.entry
      /\ u.recorded = e.recorded /\ u.outcome = e.outcome /\ u \in Fields
      /\ ex' = [ex EXCEPT ![f] = u]
  BY <1>0, <1>1, <1>a DEF Fields, Routes
<1> HIDE DEF u
<1>3. \A ph \in PhaseNames : Aborted(f, ph) => ph = "response" /\ e.route = "mock"
  BY <1>0, <1>1 DEF Obeyed, Stopped
<1>4. /\ "abort_status" \in Aborts \cup {"bad_gateway"} /\ Refuses("abort_status", "errored")
      /\ e.pc \in Before \ {"paused"} /\ u.todo = <<"finish", "abort_status">>
  BY <1>1, <1>2 DEF Refuses, Before, Aborts, todo
<1>5. u.route = e.route \/ (u.route = "incomplete" /\ e.pc = "body")
  BY <1>1, <1>2
<1>6. \A ph \in PhaseNames : Aborted(f, ph) =>
         "abort_status" = "abort_close" \/ (ph = "response" /\ e.route = "mock")
  BY <1>3
<1> QED BY ZenonT(30), <1>1, <1>2, <1>4, <1>5, <1>6, Refuse

LEMMA BlockedKeeps ==
  ASSUME PipelineInv, P!TypeOK', NEW f \in Flows, ex[f].pc = "decide", Blocked(f)
  PROVE  PipelineInv'
<1> DEFINE e == ex[f]
           todo == <<"finish", e.verdict>>
           u == [e EXCEPT !.pc = "reply", !.todo = todo]
<1>0. e \in Fields /\ ex \in [Flows -> Fields] /\ Obeyed(f)
  BY Given
<1>1. /\ ex' = [ex EXCEPT ![f].pc = "reply", ![f].todo = todo]
      /\ SetState(f, "blocked") /\ e.verdict \in Aborts
  BY DEF Blocked
<1>a. todo \in Seq(Todos)
  BY <1>1 DEF Todos, Aborts
<1> HIDE DEF todo
<1>2. /\ u.pc = "reply" /\ u.todo = todo /\ u.route = e.route /\ u.phase = e.phase
      /\ u.upstream = e.upstream /\ u.cut = e.cut /\ u.wire = e.wire /\ u.entry = e.entry
      /\ u.recorded = e.recorded /\ u.outcome = e.outcome /\ u \in Fields
      /\ ex' = [ex EXCEPT ![f] = u]
  BY <1>0, <1>1, <1>a DEF Fields
<1> HIDE DEF u
<1>3. \A ph \in PhaseNames : Aborted(f, ph) =>
         e.verdict = "abort_close" \/ (ph = "response" /\ e.route = "mock")
  BY <1>0 DEF Obeyed, Stopped
<1>4. /\ e.verdict \in Aborts \cup {"bad_gateway"} /\ Refuses(e.verdict, "blocked")
      /\ e.pc \in Before \ {"paused"} /\ u.todo = <<"finish", e.verdict>>
  BY <1>1, <1>2 DEF Refuses, Before, Aborts, todo
<1>5. u.route = e.route \/ (u.route = "incomplete" /\ e.pc = "body")
  BY <1>1, <1>2
<1>6. \A ph \in PhaseNames : Aborted(f, ph) =>
         e.verdict = "abort_close" \/ (ph = "response" /\ e.route = "mock")
  BY <1>3
<1> QED BY ZenonT(30), <1>1, <1>2, <1>4, <1>5, <1>6, Refuse

LEMMA NoAnswerKeeps ==
  ASSUME PipelineInv, P!TypeOK', NEW f \in Flows, NoAnswer(f)
  PROVE  PipelineInv'
<1> DEFINE e == ex[f]
           todo == <<"finish", "bad_gateway">>
           u == [e EXCEPT !.pc = "reply", !.todo = todo]
<1>0. e \in Fields /\ ex \in [Flows -> Fields] /\ Obeyed(f)
  BY Given
<1>1. /\ ex' = [ex EXCEPT ![f].pc = "reply", ![f].todo = todo]
      /\ SetState(f, "errored") /\ e.pc = "upstream"
  BY DEF NoAnswer
<1>a. todo \in Seq(Todos)
  BY <1>1 DEF Todos, Aborts
<1> HIDE DEF todo
<1>2. /\ u.pc = "reply" /\ u.todo = todo /\ u.route = e.route /\ u.phase = e.phase
      /\ u.upstream = e.upstream /\ u.cut = e.cut /\ u.wire = e.wire /\ u.entry = e.entry
      /\ u.recorded = e.recorded /\ u.outcome = e.outcome /\ u \in Fields
      /\ ex' = [ex EXCEPT ![f] = u]
  BY <1>0, <1>1, <1>a DEF Fields
<1> HIDE DEF u
<1>3. \A ph \in PhaseNames : Aborted(f, ph) => ph = "response" /\ e.route = "mock"
  BY <1>0, <1>1 DEF Obeyed, Stopped
<1>4. /\ "bad_gateway" \in Aborts \cup {"bad_gateway"} /\ Refuses("bad_gateway", "errored")
      /\ e.pc \in Before \ {"paused"} /\ u.todo = <<"finish", "bad_gateway">>
  BY <1>1, <1>2 DEF Refuses, Before, Aborts, todo
<1>5. u.route = e.route \/ (u.route = "incomplete" /\ e.pc = "body")
  BY <1>1, <1>2
<1>6. \A ph \in PhaseNames : Aborted(f, ph) =>
         "bad_gateway" = "abort_close" \/ (ph = "response" /\ e.route = "mock")
  BY <1>3
<1> QED BY ZenonT(30), <1>1, <1>2, <1>4, <1>5, <1>6, Refuse

(* Once a request was not aborted nothing was.                             *)
LEMMA NoneAborted ==
  ASSUME PipelineInv, NEW f \in Flows, ex[f].phase = "request",
         ex[f].pc = "upstream" \/ (ex[f].pc = "decide" /\ ex[f].verdict # "abort_close")
  PROVE  \A ph \in PhaseNames : ~Aborted(f, ph)
<1>1. Obeyed(f)
  BY Given
<1> QED BY <1>1 DEF Obeyed, Stopped, PhaseNames

LEMMA MockedKeeps ==
  ASSUME PipelineInv, P!TypeOK', NEW f \in Flows, ex[f].pc = "decide", ex[f].phase = "request",
         Mocked(f)
  PROVE  PipelineInv'
<1> DEFINE e == ex[f]
           u == [e EXCEPT !.pc = "hooks", !.phase = "response", !.route = "mock"]
<1>0. e \in Fields /\ ex \in [Flows -> Fields] /\ Guarded(f) /\ Course(f)
  BY Given
<1>1. ex' = [ex EXCEPT ![f] = u] /\ SetState(f, "mocked") /\ e.verdict = "mock"
  BY <1>0 DEF Mocked, Fields
<1>2. /\ u.pc = "hooks" /\ u.route = "mock" /\ u.phase = "response"
      /\ u.upstream = e.upstream /\ u.cut = e.cut /\ u.wire = e.wire /\ u.entry = e.entry
      /\ u.recorded = e.recorded /\ u.outcome = e.outcome /\ u \in Fields
  BY <1>0 DEF Fields, PhaseNames, Routes
<1> HIDE DEF u
<1>3. /\ ex'[f] = u /\ state'[f] = "mocked" /\ step' = step /\ at' = at /\ prev' = prev /\ taken' = taken
      /\ \A ph \in PhaseNames : Aborted(f, ph)' <=> Aborted(f, ph)
  BY <1>0, <1>1, Writes
<1>4. step[f] = "idle" /\ ~e.upstream
  BY <1>0 DEF Guarded, Course, Routed
<1>5. Guarded(f)'
  BY <1>0, <1>2, <1>3, <1>4 DEF Guarded, PhaseNames
<1>6. Course(f)'
  BY <1>0, <1>2, <1>3, <1>4 DEF Course, Routed, Unsaid, Before, Kept, Cached, Base
<1>7. Obeyed(f)'
  BY <1>1, <1>3, NoneAborted DEF Obeyed
<1> QED BY <1>1, <1>2, <1>5, <1>6, <1>7, OneSets

LEMMA ForwardedKeeps ==
  ASSUME PipelineInv, P!TypeOK', NEW f \in Flows, ex[f].pc = "decide", ex[f].phase = "request",
         Forwarded(f)
  PROVE  PipelineInv'
<1> DEFINE e == ex[f]
<1>0. e \in Fields /\ ex \in [Flows -> Fields] /\ Guarded(f) /\ Course(f)
  BY Given
<1>a. PICK timed \in BOOLEAN :
        ex' = [ex EXCEPT ![f].pc = "upstream", ![f].upstream = TRUE, ![f].timed = timed]
  BY DEF Forwarded
<1> DEFINE u == [e EXCEPT !.pc = "upstream", !.upstream = TRUE, !.timed = timed]
<1>1. /\ ex' = [ex EXCEPT ![f] = u]
      /\ (UNCHANGED bpVars) \/ SetState(f, "awaiting_response")
      /\ e.verdict # "abort_close"
  BY <1>0, <1>a DEF Forwarded, Fields, Aborts
<1>2. /\ u.pc = "upstream" /\ u.route = e.route /\ u.phase = e.phase
      /\ u.upstream = TRUE /\ u.cut = e.cut /\ u.wire = e.wire /\ u.entry = e.entry
      /\ u.recorded = e.recorded /\ u.outcome = e.outcome /\ u \in Fields
  BY <1>0 DEF Fields
<1> HIDE DEF u
<1>3. /\ ex'[f] = u /\ step' = step /\ at' = at /\ prev' = prev /\ taken' = taken
      /\ \A ph \in PhaseNames : Aborted(f, ph)' <=> Aborted(f, ph)
  BY <1>0, <1>1, Writes DEF bpVars, Aborted
<1>4. step[f] = "idle"
  BY <1>0 DEF Guarded
<1>5. Guarded(f)'
  BY <1>0, <1>2, <1>3, <1>4 DEF Guarded, PhaseNames
<1>6. Course(f)'
  BY <1>0, <1>2, <1>3, <1>4 DEF Course, Routed, Unsaid, Before, Kept, Cached, Relayed,
       Streamed, None
<1>7. Obeyed(f)'
  BY <1>1, <1>3, NoneAborted DEF Obeyed
<1> QED BY <1>1, <1>2, <1>5, <1>6, <1>7, OneSets, OneStill

LEMMA AnsweredKeeps ==
  ASSUME PipelineInv, P!TypeOK', NEW f \in Flows, Answered(f)
  PROVE  PipelineInv'
<1> DEFINE e == ex[f]
<1>0. e \in Fields /\ ex \in [Flows -> Fields] /\ Guarded(f) /\ Course(f)
  BY Given
<1>1. e.pc = "upstream" /\ e.phase = "request" /\ step[f] = "idle"
  BY <1>0 DEF Answered, Guarded
<1>2. ASSUME NEW u \in Fields, ex' = [ex EXCEPT ![f] = u],
             \/ u.route = "grpc" /\ UNCHANGED bpVars
             \/ u.route \in Relayed \cup {"buffered"} /\ SetState(f, "completed"),
             u.pc = "hooks", u.phase = "response", u.upstream = e.upstream, u.wire = e.wire,
             u.cut => u.route = "buffered", u.entry = e.entry, u.recorded = e.recorded, u.outcome = e.outcome
      PROVE  PipelineInv'
  <2>1. /\ ex'[f] = u /\ step' = step /\ at' = at /\ prev' = prev /\ taken' = taken
        /\ \A ph \in PhaseNames : Aborted(f, ph)' <=> Aborted(f, ph)
    BY <1>0, <1>2, Writes DEF bpVars, Aborted
  <2>2. Guarded(f)'
    BY <1>0, <1>1, <1>2, <2>1 DEF Guarded, PhaseNames
  <2>3. Kept(f)'
    <3>1. u.route = "buffered" => state'[f] = "completed"
      BY <1>2, Writes
    <3> QED BY <1>0, <1>2, <2>1, <3>1 DEF Kept, Base, Relayed, Streamed
  <2>4. Course(f)'
    BY <1>0, <1>1, <1>2, <2>1, <2>3 DEF Course, Routed, Unsaid, Before, Cached, Relayed,
         Streamed, None
  <2>5. Obeyed(f)'
    BY <1>1, <2>1, NoneAborted DEF Obeyed
  <2> QED BY <1>2, <2>2, <2>4, <2>5, OneSets, OneStill
<1>3. CASE e.route = "grpc"
  <2> DEFINE u == [e EXCEPT !.pc = "hooks", !.phase = "response"]
  <2>1. ex' = [ex EXCEPT ![f] = u] /\ UNCHANGED bpVars /\ u \in Fields
    BY <1>0, <1>3 DEF Answered, Fields, PhaseNames
  <2>2. /\ u.pc = "hooks" /\ u.route = "grpc" /\ u.phase = "response"
        /\ u.upstream = e.upstream /\ u.cut = e.cut /\ u.wire = e.wire /\ u.entry = e.entry
        /\ u.recorded = e.recorded /\ u.outcome = e.outcome
    BY <1>0, <1>3 DEF Fields
  <2>3. ~e.cut
    BY <1>0, <1>1 DEF Course, Routed
  <2> HIDE DEF u
  <2> QED BY <1>2, <2>1, <2>2, <2>3
<1>4. ASSUME NEW b \in Bodies \ {"grpc"}, NEW cut \in BOOLEAN, cut => b = "buffered",
             SetState(f, "completed"),
             ex' = [ex EXCEPT ![f].pc = "hooks", ![f].phase = "response",
                              ![f].route = b, ![f].cut = cut]
      PROVE  PipelineInv'
  <2> DEFINE u == [e EXCEPT !.pc = "hooks", !.phase = "response", !.route = b, !.cut = cut]
  <2>0. b \in Relayed \cup {"buffered"}
    BY PipelineAssumption
  <2>1. ex' = [ex EXCEPT ![f] = u] /\ u \in Fields
    BY <1>0, <1>4, <2>0 DEF Fields, PhaseNames, Routes
  <2>2. /\ u.pc = "hooks" /\ u.route = b /\ u.phase = "response"
        /\ u.upstream = e.upstream /\ u.cut = cut /\ u.wire = e.wire /\ u.entry = e.entry
        /\ u.recorded = e.recorded /\ u.outcome = e.outcome
    BY <1>0 DEF Fields
  <2> HIDE DEF u
  <2> QED BY <1>2, <1>4, <2>0, <2>1, <2>2
<1> QED BY <1>3, <1>4 DEF Answered

(* Of a response that is sent on nothing was aborted, unless it is a mock. *)
LEMMA NoneAbortedLater ==
  ASSUME PipelineInv, NEW f \in Flows, ex[f].phase = "response", ex[f].pc = "decide",
         ex[f].route # "mock", ex[f].verdict \notin Aborts
  PROVE  \A ph \in PhaseNames : ~Aborted(f, ph)
<1>1. Obeyed(f)
  BY Given
<1> QED BY <1>1 DEF Obeyed, Stopped, PhaseNames, Aborts

LEMMA SendResponseKeeps ==
  ASSUME PipelineInv, P!TypeOK', NEW f \in Flows, ex[f].pc = "decide", ex[f].phase = "response",
         SendResponse(f)
  PROVE  PipelineInv'
<1> DEFINE e == ex[f]
           todo == <<"write", "finish">>
           u == [e EXCEPT !.pc = "reply", !.todo = todo]
<1>0. e \in Fields /\ ex \in [Flows -> Fields] /\ Guarded(f) /\ Course(f) /\ Obeyed(f)
  BY Given
<1>1. /\ ex' = [ex EXCEPT ![f].pc = "reply", ![f].todo = todo] /\ UNCHANGED bpVars
      /\ e.route = "mock" \/ (e.route = "buffered" /\ e.verdict \notin Aborts)
  BY DEF SendResponse
<1>2. todo \in Seq(Todos)
  BY DEF Todos
<1> HIDE DEF todo
<1>3. /\ u.pc = "reply" /\ u.todo = todo /\ u.route = e.route /\ u.phase = e.phase
      /\ u.upstream = e.upstream /\ u.cut = e.cut /\ u.wire = e.wire /\ u.entry = e.entry
      /\ u.recorded = e.recorded /\ u.outcome = e.outcome /\ u \in Fields
      /\ ex' = [ex EXCEPT ![f] = u]
  BY <1>0, <1>1, <1>2 DEF Fields
<1> HIDE DEF u
<1>4. ex'[f] = u /\ Stays(f) /\ step[f] = "idle"
  BY <1>0, <1>1, <1>3 DEF bpVars, Stays, Guarded
<1>5. Guarded(f)'
  BY <1>0, <1>3, <1>4 DEF Guarded, Stays, PhaseNames
<1>6. e.route = "buffered" => \A ph \in PhaseNames : ~Aborted(f, ph)
  BY <1>1, NoneAbortedLater
<1>7. u.recorded = <<>> /\ u.wire = None /\ u.entry = None /\ u.outcome = None
  BY <1>0, <1>3 DEF Course, Unsaid, Before
<1>8. Answers(f, state[f])'
  <2>1. Lasts(f, state[f])
    BY <1>0, <1>1 DEF Course, Kept
  <2> QED BY <1>1, <1>3, <1>4, <1>6, <2>1 DEF Answers, Lasts, Base, Stays, Aborted,
       PhaseNames
<1>9. Replies(f)'
  BY <1>4, <1>7, <1>3, <1>8 DEF Replies, todo
<1>10. Course(f)'
  <2>1. Routed(u)
    BY <1>0, <1>1, <1>3 DEF Course, Routed
  <2>2. Unsaid(u) /\ Cached(u) /\ Kept(f)'
    BY <1>3, <1>4, <1>7 DEF Unsaid, Before, Cached, Kept, None
  <2> QED BY <1>3, <1>4, <1>9, <2>1, <2>2 DEF Course
<1>11. Obeyed(f)'
  BY <1>0, <1>1, <1>3, <1>4, <1>6 DEF Obeyed, Stays, Aborted, PhaseNames
<1> QED BY <1>1, <1>3, <1>5, <1>10, <1>11, OneStill

LEMMA SendHeadKeeps ==
  ASSUME PipelineInv, P!TypeOK', NEW f \in Flows, ex[f].pc = "decide", ex[f].phase = "response",
         SendHead(f)
  PROVE  PipelineInv'
<1> DEFINE e == ex[f]
           entry == IF e.route = "passthrough" THEN "open" ELSE e.entry
           u == [e EXCEPT !.pc = "relay", !.wire = "head", !.entry = entry]
<1>0. e \in Fields /\ ex \in [Flows -> Fields] /\ Guarded(f) /\ Course(f) /\ Obeyed(f)
  BY Given
<1>1. /\ ex' = [ex EXCEPT ![f].pc = "relay", ![f].wire = "head", ![f].entry = entry]
      /\ UNCHANGED bpVars /\ e.route \in Relayed /\ e.verdict \notin Aborts
  BY <1>0 DEF SendHead, Fields
<1>2. /\ entry = (IF e.route = "passthrough" THEN "open" ELSE None)
      /\ entry \in {"open", "committed", "aborted", None}
  BY <1>0 DEF Course, Unsaid, Before
<1> HIDE DEF entry
<1>3. /\ u.pc = "relay" /\ u.route = e.route /\ u.phase = e.phase
      /\ u.upstream = e.upstream /\ u.cut = e.cut /\ u.wire = "head" /\ u.entry = entry
      /\ u.recorded = e.recorded /\ u.outcome = e.outcome /\ u \in Fields
      /\ ex' = [ex EXCEPT ![f] = u]
  BY <1>0, <1>1, <1>2 DEF Fields, Partial
<1> HIDE DEF u
<1>4. ex'[f] = u /\ Stays(f) /\ step[f] = "idle"
  BY <1>0, <1>1, <1>3 DEF bpVars, Stays, Guarded
<1>5. Guarded(f)'
  BY <1>0, <1>3, <1>4 DEF Guarded, Stays, PhaseNames
<1>6. \A ph \in PhaseNames : ~Aborted(f, ph)
  BY <1>1, NoneAbortedLater DEF Relayed, Streamed
<1>7. Course(f)'
  <2>1. Routed(u)
    BY <1>0, <1>1, <1>3 DEF Course, Routed
  <2>2. Unsaid(u)
    BY <1>0, <1>3 DEF Course, Unsaid, Before
  <2>3. Cached(u) /\ Kept(f)'
    BY <1>2, <1>3, <1>4 DEF Cached, Kept, None
  <2> QED BY <1>3, <1>4, <2>1, <2>2, <2>3 DEF Course
<1>8. Obeyed(f)'
  BY <1>4, <1>6 DEF Obeyed, Stays, Aborted, PhaseNames
<1> QED BY <1>1, <1>3, <1>5, <1>7, <1>8, OneStill

LEMMA HeadFailsKeeps ==
  ASSUME PipelineInv, P!TypeOK', NEW f \in Flows, ex[f].pc = "decide", ex[f].phase = "response",
         HeadFails(f)
  PROVE  PipelineInv'
<1> DEFINE e == ex[f]
           todo == <<"finish">>
           u == [e EXCEPT !.pc = "reply", !.todo = todo, !.noReuse = TRUE, !.err = TRUE]
<1>0. e \in Fields /\ ex \in [Flows -> Fields] /\ Guarded(f) /\ Course(f) /\ Obeyed(f)
  BY Given
<1>1. /\ ex' = [ex EXCEPT ![f].pc = "reply", ![f].todo = todo, ![f].noReuse = TRUE, ![f].err = TRUE]
      /\ SetState(f, "errored") /\ e.route \in Relayed /\ e.verdict \notin Aborts
  BY DEF HeadFails
<1>2. todo \in Seq(Todos)
  BY DEF Todos
<1> HIDE DEF todo
<1>3. /\ u.pc = "reply" /\ u.todo = todo /\ u.route = e.route /\ u.phase = e.phase
      /\ u.upstream = e.upstream /\ u.cut = e.cut /\ u.wire = e.wire /\ u.entry = e.entry /\ u.err = TRUE
      /\ u.recorded = e.recorded /\ u.outcome = e.outcome /\ u \in Fields
      /\ ex' = [ex EXCEPT ![f] = u]
  BY <1>0, <1>1, <1>2 DEF Fields
<1> HIDE DEF u
<1>4. /\ ex'[f] = u /\ state'[f] = "errored" /\ step' = step /\ at' = at /\ taken' = taken
      /\ step[f] = "idle"
      /\ \A ph \in PhaseNames : Aborted(f, ph)' <=> Aborted(f, ph)
  <2>1. ex'[f] = u
    BY <1>0, <1>3
  <2>2. /\ state'[f] = "errored" /\ step' = step /\ at' = at /\ taken' = taken
        /\ \A ph \in PhaseNames : Aborted(f, ph)' <=> Aborted(f, ph)
    BY <1>1, Writes
  <2>3. step[f] = "idle"
    BY <1>0 DEF Guarded
  <2> QED BY <2>1, <2>2, <2>3
<1>5. Guarded(f)'
  BY <1>0, <1>3, <1>4 DEF Guarded, PhaseNames
<1>6. \A ph \in PhaseNames : ~Aborted(f, ph)
  BY <1>1, NoneAbortedLater DEF Relayed, Streamed
<1>7. u.recorded = <<>> /\ u.wire = None /\ u.entry = None /\ u.outcome = None
  BY <1>0, <1>3 DEF Course, Unsaid, Before
<1>8. Replies(f)'
  BY <1>1, <1>3, <1>4, <1>7 DEF Replies, Passes, todo
<1>9. Course(f)'
  <2>1. Routed(u)
    BY <1>0, <1>1, <1>3 DEF Course, Routed
  <2>2. Unsaid(u) /\ Cached(u) /\ Kept(f)'
    BY <1>3, <1>4, <1>7 DEF Unsaid, Before, Cached, Kept, None
  <2> QED BY <1>3, <1>4, <1>8, <2>1, <2>2 DEF Course
<1>10. Obeyed(f)'
  BY <1>4, <1>6 DEF Obeyed
<1> QED BY <1>1, <1>3, <1>5, <1>9, <1>10, OneSets

LEMMA RelayEndsKeeps ==
  ASSUME PipelineInv, P!TypeOK', NEW f \in Flows, ex[f].pc = "relay",
         NEW s, NEW w \in {"whole"} \cup Partial, NEW y, NEW failed \in BOOLEAN,
         RelayEnds(f, s, w, y, failed),
         \/ s = "completed" /\ w = "whole"
         \/ s = "blocked" /\ w = "head" /\ failed
         \/ s = "errored" /\ w \in Partial /\ failed,
         ex[f].route = "passthrough" =>
           y \in {"committed", "aborted"} /\ (y = "committed" => w \in {"body", "whole"})
  PROVE  PipelineInv'
<1> DEFINE e == ex[f]
           todo == <<"finish">>
           entry == IF e.route = "passthrough" THEN y ELSE e.entry
           close == e.noReuse \/ failed
           u == [e EXCEPT !.pc = "reply", !.todo = todo, !.wire = w, !.noReuse = close,
                          !.err = failed, !.entry = entry]
<1>0. e \in Fields /\ ex \in [Flows -> Fields] /\ Guarded(f) /\ Course(f) /\ Obeyed(f)
  BY Given
<1>1. /\ ex' = [ex EXCEPT ![f].pc = "reply", ![f].todo = todo, ![f].wire = w,
                          ![f].noReuse = @ \/ failed, ![f].err = failed,
                          ![f].entry = IF e.route = "passthrough" THEN y ELSE @]
      /\ SetState(f, s)
  BY DEF RelayEnds
<1>2. /\ todo \in Seq(Todos) /\ close \in BOOLEAN
      /\ entry \in {"committed", "aborted", None} /\ (entry = "committed" => w \in {"body", "whole"})
  BY <1>0 DEF Todos, Fields, Course, Cached, None
<1> HIDE DEF todo
<1>3. ex' = [ex EXCEPT ![f] = u]
  BY <1>0, <1>1 DEF Fields
<1> HIDE DEF entry, close
<1>4. /\ u.pc = "reply" /\ u.todo = todo /\ u.route = e.route /\ u.phase = e.phase
      /\ u.upstream = e.upstream /\ u.cut = e.cut /\ u.wire = w /\ u.entry = entry /\ u.err = failed
      /\ u.recorded = e.recorded /\ u.outcome = e.outcome
  BY <1>0 DEF Fields
<1>a. u \in Fields
  <2>1. w \in Written \cup Partial \cup {None}
    BY DEF Written
  <2>2. entry \in {"open", "committed", "aborted", None} /\ "reply" \in {"new", "body", "hooks",
          "paused", "decide", "upstream", "relay", "reply", "done"}
    BY <1>2
  <2> QED BY <1>0, <1>2, <2>1, <2>2 DEF Fields
<1> HIDE DEF u
<1>5. /\ ex'[f] = u /\ state'[f] = s /\ step' = step /\ at' = at /\ taken' = taken
      /\ step[f] = "idle"
      /\ \A ph \in PhaseNames : Aborted(f, ph)' <=> Aborted(f, ph)
  <2>1. ex'[f] = u
    BY <1>0, <1>3
  <2>2. /\ state'[f] = s /\ step' = step /\ at' = at /\ taken' = taken
        /\ \A ph \in PhaseNames : Aborted(f, ph)' <=> Aborted(f, ph)
    BY <1>1, Writes
  <2>3. step[f] = "idle"
    BY <1>0 DEF Guarded
  <2> QED BY <2>1, <2>2, <2>3
<1>6. Guarded(f)'
  BY <1>0, <1>4, <1>5 DEF Guarded, PhaseNames
<1>7. e.route \in Relayed /\ e.phase = "response" /\ u.recorded = <<>> /\ u.outcome = None
  BY <1>0, <1>4 DEF Course, Unsaid, Routed
<1>8. \A ph \in PhaseNames : ~Aborted(f, ph)
  BY <1>0, <1>7 DEF Obeyed, Stopped, Relayed, Streamed
<1>9. Replies(f)'
  <2>1. Passes(u, s)
    BY <1>4, <1>7 DEF Passes
  <2> QED BY <1>4, <1>5, <1>7, <2>1 DEF Replies, todo
<1>10. Course(f)'
  <2>1. Routed(u)
    BY <1>0, <1>4, <1>7 DEF Course, Routed
  <2>2. Unsaid(u) /\ Cached(u) /\ Kept(f)'
    BY <1>2, <1>4, <1>5, <1>7 DEF Unsaid, Before, Cached, Kept, None
  <2> QED BY <1>4, <1>5, <1>9, <2>1, <2>2 DEF Course
<1>11. Obeyed(f)'
  BY <1>5, <1>8 DEF Obeyed
<1> QED BY <1>1, <1>3, <1>a, <1>6, <1>10, <1>11, OneSets

LEMMA RelayKeeps ==
  ASSUME PipelineInv, P!TypeOK', NEW f \in Flows, Relay(f)
  PROVE  PipelineInv'
<1>1. CASE RelayWhole(f)
  BY <1>1, RelayEndsKeeps DEF Relay, RelayWhole, Partial
<1>2. CASE RelayCut(f)
  BY <1>2, RelayEndsKeeps DEF Relay, RelayCut, Streamed, Partial
<1>3. CASE RelayBroken(f)
  BY <1>3, RelayEndsKeeps DEF Relay, RelayBroken, Partial
<1>4. CASE RelayUnterminated(f)
  BY <1>4, RelayEndsKeeps DEF Relay, RelayUnterminated, Partial
<1> QED BY <1>1, <1>2, <1>3, <1>4 DEF Relay

(* A call of the ones that end an exchange: the manager is not at work for *)
(* it, and what is left of the invariant is that Replies goes on.          *)
LEMMA Concludes ==
  ASSUME PipelineInv, P!TypeOK', NEW f \in Flows, NEW u \in Fields, UNCHANGED bpVars,
         ex' = [ex EXCEPT ![f] = u], ex[f].pc = "reply", u.pc = "reply",
         u.route = ex[f].route, u.phase = ex[f].phase, u.upstream = ex[f].upstream, u.cut = ex[f].cut,
         u.entry = ex[f].entry, u.outcome = ex[f].outcome,
         u.entry = "committed" => u.wire = ex[f].wire,
         Replies(f)',
         \A ph \in PhaseNames : Aborted(f, ph) /\ Stopped(ex[f]) => Stopped(u)
  PROVE  PipelineInv'
<1>0. ex[f] \in Fields /\ ex \in [Flows -> Fields] /\ Guarded(f) /\ Course(f) /\ Obeyed(f)
  BY Given
<1>1. ex'[f] = u /\ Stays(f) /\ step[f] = "idle"
  BY <1>0 DEF bpVars, Stays, Guarded
<1>2. Guarded(f)'
  BY <1>0, <1>1 DEF Guarded, Stays, PhaseNames
<1>3. Course(f)'
  <2>1. Routed(u)
    BY <1>0 DEF Course, Routed
  <2>2. Unsaid(u) /\ Cached(u) /\ Kept(f)'
    BY <1>0, <1>1 DEF Course, Unsaid, Before, Cached, Kept
  <2> QED BY <1>1, <2>1, <2>2 DEF Course
<1>4. Obeyed(f)'
  BY <1>0, <1>1 DEF Obeyed, Stays, Aborted, PhaseNames
<1> QED BY <1>2, <1>3, <1>4, OneStill

Finals == Aborts \cup {"bad_gateway"}

(* What is still to be said when a call is due.                            *)
LEMMA Due ==
  ASSUME NEW f \in Flows, Replies(f), ex[f].todo # <<>>
  PROVE  LET e == ex[f] IN
         \/ /\ e.recorded = <<>> /\ e.wire = None /\ e.entry = None
            /\ Head(e.todo) = "finish"
            /\ \E op \in Finals : e.todo = <<"finish", op>> /\ Tail(e.todo) = <<op>> /\ Refuses(op, state[f])
         \/ /\ e.recorded = <<>> /\ e.wire = None /\ e.entry = None
            /\ Head(e.todo) = "write" /\ Tail(e.todo) = <<"finish">> /\ Answers(f, state[f])
            /\ e.todo = <<"write", "finish">>
         \/ /\ e.recorded = <<>> /\ e.entry = None /\ e.todo = <<"finish">>
            /\ Head(e.todo) = "finish" /\ Tail(e.todo) = <<>> /\ Answers(f, state[f])
            /\ WasSent(e)
         \/ /\ e.recorded = <<>> /\ e.todo = <<"finish">>
            /\ Head(e.todo) = "finish" /\ Tail(e.todo) = <<>> /\ Passes(e, state[f])
         \/ /\ Len(e.recorded) = 1 /\ e.wire = None /\ e.entry = None
            /\ \E op \in Finals : e.todo = <<op>> /\ Head(e.todo) = op /\ Tail(e.todo) = <<>>
                                  /\ Refuses(op, e.recorded[1])
<1> DEFINE e == ex[f]
<1>1. ASSUME NEW op \in Finals, e.todo = <<"finish", op>>
      PROVE  Head(e.todo) = "finish" /\ Tail(e.todo) = <<op>>
  BY <1>1, Two
<1>2. ASSUME e.todo = <<"write", "finish">>
      PROVE  Head(e.todo) = "write" /\ Tail(e.todo) = <<"finish">>
  BY <1>2, Two
<1>3. ASSUME NEW a, e.todo = <<a>>
      PROVE  Head(e.todo) = a /\ Tail(e.todo) = <<>>
  BY <1>3
<1> QED BY <1>1, <1>2, <1>3 DEF Replies, Finals

LEMMA FinishKeeps ==
  ASSUME PipelineInv, P!TypeOK', NEW f \in Flows, Finish(f)
  PROVE  PipelineInv'
<1> DEFINE e == ex[f]
           s == state[f]
           recorded == Append(e.recorded, s)
           todo == Tail(e.todo)
           u == [e EXCEPT !.recorded = recorded, !.todo = todo]
<1>0. e \in Fields /\ ex \in [Flows -> Fields] /\ Course(f) /\ state \in [Flows -> P!States]
  BY Given
<1>1. /\ e.pc = "reply" /\ e.todo # <<>> /\ Head(e.todo) = "finish" /\ UNCHANGED bpVars
      /\ ex' = [ex EXCEPT ![f].recorded = Append(@, s), ![f].todo = Tail(@)]
  BY DEF Finish, Calling
<1>2. ex' = [ex EXCEPT ![f] = u]
  BY <1>0, <1>1 DEF Fields
<1>3. recorded \in Seq(P!States) /\ todo \in Seq(Todos) /\ s \in P!States
  BY <1>0, <1>1, Read
<1>4. e.recorded = <<>> => Len(recorded) = 1 /\ recorded[1] = s
  OBVIOUS
<1> HIDE DEF recorded, todo
<1>5. /\ u.pc = "reply" /\ u.todo = todo /\ u.route = e.route /\ u.phase = e.phase
      /\ u.upstream = e.upstream /\ u.cut = e.cut /\ u.wire = e.wire /\ u.entry = e.entry /\ u.err = e.err
      /\ u.noReuse = e.noReuse /\ u.proto = e.proto
      /\ u.recorded = recorded /\ u.outcome = e.outcome /\ u \in Fields
  BY <1>0, <1>1, <1>3 DEF Fields
<1> HIDE DEF u
<1>6. ex'[f] = u /\ state'[f] = s /\ \A ph \in PhaseNames : Aborted(f, ph)' <=> Aborted(f, ph)
  BY <1>0, <1>1, <1>2 DEF bpVars, Aborted
<1>7. Replies(f)'
  <2>1. ASSUME NEW op \in Finals, e.recorded = <<>>, e.wire = None, e.entry = None,
               todo = <<op>>, Refuses(op, s)
        PROVE  Replies(f)'
    <3>1. \E o \in Aborts \cup {"bad_gateway"} : u.todo = <<o>> /\ Refuses(o, u.recorded[1])
      BY <1>4, <1>5, <2>1 DEF Finals
    <3> QED BY <1>4, <1>5, <1>6, <2>1, <3>1 DEF Replies
  <2>2. ASSUME e.recorded = <<>>, todo = <<>>, Answers(f, s),
               WasSent(e)
        PROVE  Replies(f)'
    <3>1. Tells(f, s)' /\ Closes(u)
      <4>1. e.route = "mock" => ~e.upstream
        BY <1>0 DEF Course, Routed
      <4>2. s = "completed" \/ s = "mocked" \/ (s = P!Paused /\ Aborted(f, "response") /\ e.route = "mock")
        BY <2>2 DEF Answers, Lasts, Base
      <4>3. e.route \in {"buffered", "mock"} /\ (s = "mocked" => e.route = "mock")
        BY <2>2 DEF Answers, Lasts, Base
      <4> QED BY <1>5, <1>6, <2>2, <4>1, <4>2, <4>3 DEF Tells, Closes, Delimited, WasSent,
           Final, Written, P!Paused, Relayed, Streamed, PhaseNames
    <3> QED BY <1>4, <1>5, <1>6, <2>2, <3>1 DEF Replies, Tells
  <2>3. ASSUME e.recorded = <<>>, todo = <<>>, Passes(e, s)
        PROVE  Replies(f)'
    <3>1. Tells(f, s)' /\ Closes(u)
      BY <1>5, <1>6, <2>3 DEF Passes, Tells, Closes, Delimited, Final, Written, Partial, None
    <3> QED BY <1>4, <1>5, <1>6, <2>3, <3>1 DEF Replies, Tells
  <2> QED BY <1>0, <1>1, <2>1, <2>2, <2>3, Due DEF Course, Finals, Aborts, todo
<1>8. Stopped(e) => Stopped(u)
  <2>1. CASE e.todo = <<"finish", "abort_close">>
    <3>1. todo = <<"abort_close">>
      BY <2>1, Two DEF todo
    <3> QED BY <1>1, <1>5, <3>1 DEF Stopped
  <2>2. e.todo # <<"abort_close">>
    BY <1>1
  <2> QED BY <1>1, <2>1, <2>2 DEF Stopped
<1> QED BY <1>1, <1>2, <1>5, <1>7, <1>8, Concludes

(* A write of the reply: the whole of it, or a part of it and an error.    *)
LEMMA Writing ==
  ASSUME PipelineInv, P!TypeOK', NEW f \in Flows, NEW u \in Fields,
         NEW op \in {"write", "abort_status", "bad_gateway"}, Calling(f, op), UNCHANGED bpVars,
         ex' = [ex EXCEPT ![f] = u], u.todo = Tail(ex[f].todo),
         \/ u.wire = ReplyOf(f, op) /\ u.err = ex[f].err
         \/ u.wire \in {"head", None} /\ u.err,
         u.pc = "reply", u.route = ex[f].route, u.phase = ex[f].phase, u.upstream = ex[f].upstream, u.cut = ex[f].cut,
         u.entry = ex[f].entry, u.outcome = ex[f].outcome, u.recorded = ex[f].recorded
  PROVE  PipelineInv'
<1> DEFINE e == ex[f]
<1>0. e \in Fields /\ ex \in [Flows -> Fields] /\ Course(f)
  BY Given
<1>1. /\ ex'[f] = u /\ state' = state /\ \A ph \in PhaseNames : Aborted(f, ph)' <=> Aborted(f, ph)
      /\ e.pc = "reply" /\ e.todo # <<>> /\ Head(e.todo) = op
  BY <1>0 DEF bpVars, Aborted, Calling
<1>2. /\ ReplyOf(f, "write") = "whole" \/ (ReplyOf(f, "write") = "short" /\ u.route = "buffered")
      /\ ReplyOf(f, "abort_status") = "refusal" /\ ReplyOf(f, "bad_gateway") = "bad_gateway"
  BY <1>0 DEF Reply, ReplyOf, Course, Routed
<1>3. Replies(f)'
  <2>1. ASSUME op = "write", e.recorded = <<>>, e.entry = None, u.todo = <<"finish">>,
               Answers(f, state[f])
        PROVE  Replies(f)'
    <3>1. Answers(f, state[f])'
      BY <1>1, <2>1 DEF Answers, Lasts, Base, PhaseNames
    <3>2. WasSent(u)
      BY <1>2, <2>1 DEF WasSent
    <3> QED BY <1>1, <2>1, <3>1, <3>2 DEF Replies
  <2>2. ASSUME op # "write", Len(e.recorded) = 1, u.todo = <<>>, e.wire = None,
               Refuses(op, e.recorded[1])
        PROVE  Replies(f)'
    <3>1. u.wire \in {"refusal", "bad_gateway", "head", None} /\ (op = "bad_gateway" \/ u.wire # "bad_gateway")
      BY <1>2, <2>2 DEF None
    <3>2. e.recorded[1] \in {"blocked", "errored"} /\ (e.recorded[1] = "blocked" => op # "bad_gateway")
      BY <2>2 DEF Refuses, Aborts
    <3>3. Tells(f, e.recorded[1])'
      BY <1>1, <3>1, <3>2 DEF Tells, Final, None
    <3>4. Closes(u)
      BY <1>2, <2>2 DEF Closes, Delimited, Written
    <3> QED BY <1>1, <2>2, <3>3, <3>4 DEF Replies, Tells
  <2>3. \/ /\ op = "write" /\ e.recorded = <<>> /\ e.entry = None /\ u.todo = <<"finish">>
           /\ Answers(f, state[f])
        \/ /\ op # "write" /\ Len(e.recorded) = 1 /\ u.todo = <<>> /\ e.wire = None
           /\ Refuses(op, e.recorded[1])
    BY <1>0, <1>1, Due DEF Course, Finals, Aborts
  <2> QED BY <2>1, <2>2, <2>3
<1>4. ~Stopped(e)
  BY <1>1, Two DEF Stopped
<1>5. u.entry = "committed" => u.wire = e.wire
  BY <1>0, <1>1, Due DEF Course, None, Finals, Aborts, Cached
<1> QED BY <1>1, <1>3, <1>4, <1>5, Concludes

LEMMA WriteReplyKeeps ==
  ASSUME PipelineInv, P!TypeOK', NEW f \in Flows, WriteReply(f)
  PROVE  PipelineInv'
<1> DEFINE e == ex[f]
           todo == Tail(e.todo)
<1>0. e \in Fields /\ ex \in [Flows -> Fields]
  BY Given
<1>1. PICK op \in {"write", "abort_status", "bad_gateway"} :
        /\ Calling(f, op) /\ UNCHANGED bpVars
        /\ ex' = [ex EXCEPT ![f].wire = ReplyOf(f, op), ![f].todo = Tail(@)]
  BY DEF WriteReply, Reply
<1> DEFINE wire == ReplyOf(f, op)
           u == [e EXCEPT !.wire = wire, !.todo = todo]
<1>2. ex' = [ex EXCEPT ![f] = u]
  BY <1>0, <1>1 DEF Fields
<1>3. wire \in Written \cup {"short"} /\ todo \in Seq(Todos) /\ e.pc = "reply"
  <2>1. wire \in Written \cup {"short"}
    BY DEF Reply, ReplyOf, Written
  <2> QED BY <1>0, <1>1, <2>1, Read DEF Calling
<1> HIDE DEF todo, wire
<1>4. /\ u.pc = "reply" /\ u.todo = todo /\ u.route = e.route /\ u.phase = e.phase
      /\ u.upstream = e.upstream /\ u.cut = e.cut /\ u.wire = wire /\ u.entry = e.entry /\ u.err = e.err
      /\ u.recorded = e.recorded /\ u.outcome = e.outcome /\ u \in Fields
  BY <1>0, <1>3 DEF Fields
<1> HIDE DEF u
<1> QED BY ZenonT(30), <1>1, <1>2, <1>4, Writing DEF todo, wire

LEMMA WriteFailsKeeps ==
  ASSUME PipelineInv, P!TypeOK', NEW f \in Flows, WriteFails(f)
  PROVE  PipelineInv'
<1> DEFINE e == ex[f]
           todo == Tail(e.todo)
<1>0. e \in Fields /\ ex \in [Flows -> Fields]
  BY Given
<1>1. PICK op \in {"write", "abort_status", "bad_gateway"}, sent \in {"head", None} :
        /\ Calling(f, op) /\ UNCHANGED bpVars
        /\ ex' = [ex EXCEPT ![f].wire = sent, ![f].err = TRUE, ![f].todo = Tail(@),
                            ![f].noReuse = @ \/ op = "abort_status"]
  BY DEF WriteFails, Reply
<1> DEFINE close == e.noReuse \/ op = "abort_status"
           u == [e EXCEPT !.wire = sent, !.err = TRUE, !.todo = todo, !.noReuse = close]
<1>2. ex' = [ex EXCEPT ![f] = u]
  BY <1>0, <1>1 DEF Fields
<1>3. todo \in Seq(Todos) /\ e.pc = "reply" /\ close \in BOOLEAN
  BY <1>0, <1>1, Read DEF Calling
<1> HIDE DEF todo, close
<1>4. /\ u.pc = "reply" /\ u.todo = todo /\ u.route = e.route /\ u.phase = e.phase
      /\ u.upstream = e.upstream /\ u.cut = e.cut /\ u.wire = sent /\ u.entry = e.entry /\ u.err = TRUE
      /\ u.recorded = e.recorded /\ u.outcome = e.outcome /\ u \in Fields
  BY <1>0, <1>3 DEF Fields, Partial
<1> HIDE DEF u
<1>5. u.todo = Tail(e.todo) /\ u.wire \in {"head", None} /\ u.err
  BY <1>1, <1>4 DEF todo
<1> QED BY ZenonT(30), <1>1, <1>2, <1>4, <1>5, Writing

(* The end of an exchange in its handler.                                  *)
LEMMA Leaves ==
  ASSUME PipelineInv, P!TypeOK', NEW f \in Flows, NEW u \in Fields, UNCHANGED bpVars,
         ex' = [ex EXCEPT ![f] = u], ex[f].pc = "reply", u.pc = "done",
         u.route = ex[f].route, u.phase = ex[f].phase, u.upstream = ex[f].upstream, u.cut = ex[f].cut,
         u.entry = ex[f].entry, u.recorded = ex[f].recorded, u.wire = ex[f].wire,
         Len(u.recorded) = 1, Tells(f, u.recorded[1]),
         u.outcome \in {"kept", "ended"} => Delimited(u),
         u.outcome = "kept" => u.route # "incomplete"
  PROVE  PipelineInv'
<1>0. ex[f] \in Fields /\ ex \in [Flows -> Fields] /\ Guarded(f) /\ Course(f) /\ Obeyed(f)
  BY Given
<1>1. ex'[f] = u /\ Stays(f) /\ step[f] = "idle"
  BY <1>0 DEF bpVars, Stays, Guarded
<1>2. Guarded(f)'
  BY <1>0, <1>1 DEF Guarded, Stays, PhaseNames
<1>3. Course(f)'
  <2>1. Routed(u)
    BY <1>0 DEF Course, Routed
  <2>2. Unsaid(u) /\ Cached(u) /\ Kept(f)'
    BY <1>0, <1>1 DEF Course, Unsaid, Before, Cached, Kept
  <2>3. Tells(f, u.recorded[1])'
    BY <1>1 DEF Tells, Aborted, Stays, PhaseNames
  <2> QED BY <1>1, <2>1, <2>2, <2>3 DEF Course, Tells
<1>4. Obeyed(f)'
  BY <1>0, <1>1 DEF Obeyed, Stopped, Stays, Aborted, PhaseNames
<1> QED BY <1>2, <1>3, <1>4, OneStill

LEMMA CloseUnansweredKeeps ==
  ASSUME PipelineInv, P!TypeOK', NEW f \in Flows, CloseUnanswered(f)
  PROVE  PipelineInv'
<1> DEFINE e == ex[f]
           todo == Tail(e.todo)
<1>0. e \in Fields /\ ex \in [Flows -> Fields] /\ Course(f)
  BY Given
<1>1. /\ e.pc = "reply" /\ e.todo # <<>> /\ Head(e.todo) = "abort_close" /\ UNCHANGED bpVars
      /\ todo \in Seq(Todos)
  BY <1>0, Read DEF CloseUnanswered, Calling
<1>2. /\ Len(e.recorded) = 1 /\ e.wire = None /\ e.entry = None /\ todo = <<>>
      /\ e.recorded[1] = "blocked"
  BY <1>0, <1>1, Due DEF Course, Refuses, Finals, Aborts
<1>4. CASE e.proto = "h1"
  <2> DEFINE u == [e EXCEPT !.noReuse = TRUE, !.todo = todo]
  <2>1. ex' = [ex EXCEPT ![f] = u]
    BY <1>0, <1>4 DEF CloseUnanswered, Fields
  <2> HIDE DEF todo
  <2>2. /\ u.pc = "reply" /\ u.todo = todo /\ u.route = e.route /\ u.phase = e.phase
        /\ u.upstream = e.upstream /\ u.cut = e.cut /\ u.wire = e.wire /\ u.entry = e.entry /\ u.noReuse = TRUE
        /\ u.recorded = e.recorded /\ u.outcome = e.outcome /\ u \in Fields /\ u.proto = "h1"
    BY <1>0, <1>1, <1>4 DEF Fields
  <2> HIDE DEF u
  <2>3. ex'[f] = u /\ \A ph \in PhaseNames : Aborted(f, ph)' <=> Aborted(f, ph)
    BY <1>0, <1>1, <2>1 DEF bpVars, Aborted
  <2>4. Replies(f)'
    <3>1. Closes(u)
      BY <2>2 DEF Closes
    <3>2. Tells(f, "blocked")'
      BY <1>2, <2>2, <2>3 DEF Tells, Final, None
    <3> QED BY <1>2, <2>2, <2>3, <3>1, <3>2 DEF Replies, Tells
  <2>5. Stopped(u)
    BY <1>2, <2>2 DEF Stopped
  <2> QED BY <1>1, <2>1, <2>2, <2>4, <2>5, <1>2, Concludes
<1>5. CASE e.proto # "h1"
  <2> DEFINE u == [e EXCEPT !.err = TRUE, !.todo = todo]
  <2>1. ex' = [ex EXCEPT ![f] = u]
    BY <1>0, <1>2, <1>5 DEF CloseUnanswered, Fields
  <2> HIDE DEF todo
  <2>2. /\ u.pc = "reply" /\ u.todo = todo /\ u.route = e.route /\ u.phase = e.phase
        /\ u.upstream = e.upstream /\ u.cut = e.cut /\ u.wire = e.wire /\ u.entry = e.entry
        /\ u.err = TRUE
        /\ u.recorded = e.recorded /\ u.outcome = e.outcome /\ u \in Fields
    BY <1>0, <1>1 DEF Fields
  <2> HIDE DEF u
  <2>3. ex'[f] = u /\ \A ph \in PhaseNames : Aborted(f, ph)' <=> Aborted(f, ph)
    BY <1>0, <1>1, <2>1 DEF bpVars, Aborted
  <2>4. Replies(f)'
    <3>1. Closes(u)
      BY <2>2 DEF Closes
    <3>2. Tells(f, "blocked")'
      BY <1>2, <2>2, <2>3 DEF Tells, Final, None
    <3> QED BY <1>2, <2>2, <2>3, <3>1, <3>2 DEF Replies, Tells
  <2>5. Stopped(u)
    BY <1>2, <2>2 DEF Stopped
  <2> QED BY <1>1, <2>1, <2>2, <2>4, <2>5, <1>2, Concludes
<1> QED BY <1>4, <1>5

LEMMA ReturnKeeps ==
  ASSUME PipelineInv, P!TypeOK', NEW f \in Flows, Return(f)
  PROVE  PipelineInv'
<1> DEFINE e == ex[f]
<1>0. e \in Fields /\ ex \in [Flows -> Fields] /\ Course(f)
  BY Given
<1>1. PICK asked \in BOOLEAN : ex' = [ex EXCEPT ![f].pc = "done", ![f].outcome = Ends(f, asked)]
  BY DEF Return
<1> DEFINE outcome == Ends(f, asked)
           u == [e EXCEPT !.pc = "done", !.outcome = outcome]
<1>2. e.pc = "reply" /\ e.todo = <<>> /\ UNCHANGED bpVars
  BY DEF Return
<1>3. Len(e.recorded) = 1 /\ Tells(f, e.recorded[1]) /\ Closes(e)
  BY <1>0, <1>2 DEF Course, Replies
<1>4. /\ outcome \in {"kept", "closed", "ended", "reset"}
      /\ outcome \in {"kept", "ended"} => Delimited(e)
      /\ outcome = "kept" => e.route # "incomplete"
  BY <1>3 DEF Ends, Closes
<1>5. ex' = [ex EXCEPT ![f] = u]
  BY <1>0, <1>1 DEF Fields
<1> HIDE DEF outcome
<1>6. /\ u.pc = "done" /\ u.route = e.route /\ u.phase = e.phase
      /\ u.upstream = e.upstream /\ u.cut = e.cut /\ u.wire = e.wire /\ u.entry = e.entry
      /\ u.recorded = e.recorded /\ u.outcome = outcome /\ u \in Fields
  BY <1>0, <1>4 DEF Fields
<1> HIDE DEF u
<1>7. outcome \in {"kept", "ended"} => Delimited(u)
  BY <1>4, <1>6 DEF Delimited
<1> QED BY <1>2, <1>3, <1>4, <1>5, <1>6, <1>7, Leaves

(* What a step of the manager inside Pause does to the flow it is for: an  *)
(* answer, the timer, or on return the state it had.                       *)
LEMMA InPauseKeeps ==
  ASSUME PipelineInv, P!TypeOK', NEW f \in Flows, InPause(f)
  PROVE  PipelineInv'
<1> DEFINE e == ex[f]
           ph == e.phase
<1>0. /\ e \in Fields /\ ex \in [Flows -> Fields] /\ Guarded(f) /\ Course(f) /\ Obeyed(f)
      /\ state \in [Flows -> P!States] /\ step \in [Flows -> P!Steps] /\ at \in [Flows -> PhaseNames \cup {None}]
      /\ prev \in [Flows -> P!States \cup {None}]
      /\ taken \in [P!Pauses -> P!Endings \cup {None}] /\ chan \in [P!Pauses -> P!Answers \cup {None}]
  BY Given
<1>1. P!EmitHit(f) \/ P!Receive(f) \/ P!TimeOut(f) \/ P!Unpublish(f) \/ P!Resolve(f)
  BY PauseUses
<1>2. /\ step[f] # "idle" /\ e.pc = "paused" /\ at[f] = ph /\ state[f] = P!Paused /\ ph \in PhaseNames
      /\ ex' = ex
      /\ ph = "request" => taken[<<f, "response">>] = None
  BY <1>0, <1>1, Read DEF InPause, P!EmitHit, P!Receive, P!TimeOut, P!Unpublish,
       P!Resolve, Guarded
<1>3. \A g \in Flows, q \in PhaseNames : <<g, q>> \in P!Pauses
  BY DEF P!Pauses, P!Phases, PhaseNames
<1>4. NoPanic /\ \A p \in P!Pauses : taken[p] # "panic"
  BY DEF PipelineInv, Types, NoPanic
<1>5. \A g \in Flows \ {f} : Stays(g)
  BY <1>0, <1>1, <1>3 DEF P!EmitHit, P!Receive, P!TimeOut, P!Unpublish, P!Resolve,
       P!flowVars, Stays
<1>6. ASSUME step'[f] # "idle", at'[f] = at[f], state'[f] = state[f], prev'[f] = prev[f], NoPanic',
             \A q \in PhaseNames \ {ph} : taken'[<<f, q>>] = taken[<<f, q>>]
      PROVE  PipelineInv'
  <2>1. Guarded(f)'
    BY <1>0, <1>2, <1>6 DEF Guarded, PhaseNames
  <2>2. Course(f)'
    BY <1>0, <1>2, <1>6 DEF Course, Kept
  <2>3. Obeyed(f)'
    BY <1>0, <1>2, <1>6 DEF Course, Routed, Unsaid, Before, Obeyed, Stopped, Aborted,
         PhaseNames
  <2>4. ex' \in [Flows -> Fields] /\ \A g \in Flows \ {f} : ex'[g] = ex[g] /\ Stays(g)
    BY <1>0, <1>2, <1>5
  <2> QED BY <1>6, <2>1, <2>2, <2>3, <2>4, OneMoves
<1>7. CASE P!EmitHit(f) \/ P!Unpublish(f)
  <2>1. /\ step'[f] # "idle" /\ at' = at /\ state' = state /\ prev' = prev /\ taken' = taken
    BY <1>0, <1>7 DEF P!EmitHit, P!Unpublish, P!flowVars
  <2> QED BY <1>4, <1>6, <2>1 DEF NoPanic
<1>8. CASE P!Receive(f) \/ P!TimeOut(f)
  <2>1. PICK x : /\ x # "panic" /\ taken' = [taken EXCEPT ![<<f, ph>>] = x]
                 /\ step'[f] # "idle" /\ at' = at /\ state' = state /\ prev' = prev
    <3>1. CASE P!Receive(f)
      <4>1. chan[<<f, ph>>] # "panic"
        BY <1>0, <1>2, <1>3 DEF P!Answers, None
      <4> QED BY <1>0, <1>2, <3>1, <4>1 DEF P!Receive, P!flowVars
    <3>2. CASE P!TimeOut(f)
      BY <1>0, <1>2, <3>2 DEF P!TimeOut, P!flowVars
    <3> QED BY <1>8, <3>1, <3>2
  <2>2. \A p \in P!Pauses : taken'[p] = IF p = <<f, ph>> THEN x ELSE taken[p]
    BY <1>0, <2>1
  <2>3. NoPanic'
    BY <1>4, <2>1, <2>2 DEF NoPanic
  <2>4. \A q \in PhaseNames \ {ph} : taken'[<<f, q>>] = taken[<<f, q>>]
    BY <1>3, <2>2
  <2> QED BY <1>6, <2>1, <2>3, <2>4
<1>9. CASE P!Resolve(f)
  <2>1. /\ step'[f] = "idle" /\ taken' = taken
        /\ state'[f] = (IF taken[<<f, ph>>] = "abort" THEN state[f] ELSE prev[f])
    <3>1. taken[<<f, ph>>] # "panic"
      BY <1>2, <1>3, <1>4
    <3> QED BY <1>0, <1>2, <1>9, <3>1 DEF P!Resolve, P!Restored
  <2>2. NoPanic'
    BY <1>4, <2>1 DEF NoPanic
  <2>3. Guarded(f)'
    BY <1>0, <1>2, <2>1 DEF Guarded, PhaseNames
  <2>4. Kept(f)'
    BY <1>0, <1>2, <2>1 DEF Course, Kept, Lasts, Aborted
  <2>5. Course(f)'
    BY <1>0, <1>2, <2>4 DEF Course
  <2>6. Obeyed(f)'
    BY <1>0, <1>2, <2>1 DEF Obeyed, Aborted
  <2>7. ex' \in [Flows -> Fields] /\ \A g \in Flows \ {f} : ex'[g] = ex[g] /\ Stays(g)
    BY <1>0, <1>2, <1>5
  <2> QED BY ZenonT(30), <2>2, <2>3, <2>5, <2>6, <2>7, OneMoves
<1> QED BY <1>1, <1>7, <1>8, <1>9

LEMMA NothingMoves ==
  ASSUME PipelineInv, P!TypeOK', UNCHANGED <<ex, state, step, at, prev, taken>>
  PROVE  PipelineInv'
<1>1. ASSUME NEW f \in Flows PROVE Sound(f)'
  <2>1. Sound(f)
    BY DEF PipelineInv
  <2> QED BY <2>1 DEF Sound, Guarded, Course, Obeyed, Kept, Lasts, Aborted, Replies,
       Tells, Answers
<1>2. Types'
  BY DEF PipelineInv, Types, ExTypes, NoPanic
<1> QED BY <1>1, <1>2 DEF PipelineInv

LEMMA PipelineInit == Init => PipelineInv
<1> SUFFICES ASSUME Init PROVE PipelineInv
  OBVIOUS
<1>1. P!TypeOK /\ P!Init
  BY InitUses
<1>2. NoPanic
  BY <1>1 DEF NoPanic, P!Init, P!None
<1> DEFINE e == [proto |-> None, pc |-> "new", phase |-> "request", verdict |-> "continue",
                 route |-> None, upstream |-> FALSE, timed |-> FALSE, cut |-> FALSE,
                 todo |-> <<>>, wire |-> None,
                 noReuse |-> FALSE, err |-> FALSE, entry |-> None, recorded |-> <<>>,
                 outcome |-> None]
<1>3. e \in Fields
  BY DEF Fields, PhaseNames, Verdicts, Routes
<1>4. \A f \in Flows : ex[f] = e
  BY DEF Init
<1>5. ExTypes
  BY <1>3 DEF Init, ExTypes
<1>6. /\ e.pc = "new" /\ e.phase = "request" /\ e.route = None /\ e.upstream = FALSE /\ e.cut = FALSE
      /\ e.wire = None /\ e.entry = None /\ e.recorded = <<>> /\ e.outcome = None
  OBVIOUS
<1> HIDE DEF e
<1>7. ASSUME NEW f \in Flows PROVE Sound(f)
  <2>1. step[f] = "idle" /\ \A ph \in PhaseNames : taken[<<f, ph>>] = None
    BY <1>1 DEF P!Init, P!Pauses, P!Phases, PhaseNames, P!None, None
  <2>2. Guarded(f)
    BY <1>4, <1>6, <2>1 DEF Guarded, PhaseNames
  <2>3. Course(f)
    BY <1>4, <1>6 DEF Course, Routed, Unsaid, Kept, Cached, None, Relayed, Streamed
  <2>4. Obeyed(f)
    BY <2>1 DEF Obeyed, Aborted, None
  <2> QED BY <2>2, <2>3, <2>4 DEF Sound
<1> QED BY <1>1, <1>2, <1>5, <1>7 DEF PipelineInv, Types

LEMMA PipelineStep == PipelineInv /\ [Next]_vars => PipelineInv'
<1> SUFFICES ASSUME PipelineInv, [Next]_vars PROVE PipelineInv'
  OBVIOUS
<1>0. P!TypeOK'
  BY StepUses
<1>1. ASSUME NEW f \in Flows, Start(f) PROVE PipelineInv'
  BY <1>0, <1>1, StartKeeps
<1>2. ASSUME NEW f \in Flows, Handler(f) PROVE PipelineInv'
  <2>1. CASE ReadBody(f) \/ RefuseIncomplete(f) \/ AfterPause(f)
    BY <1>0, <2>1, ReadBodyKeeps, RefuseIncompleteKeeps, AfterPauseKeeps
  <2>2. ASSUME NEW results \in HookRuns, NEW hit \in BOOLEAN, RunPhase(f, results, hit)
        PROVE  PipelineInv'
    BY <1>0, <2>2, RunPhaseKeeps
  <2>3. CASE DecideRequest(f)
    BY <1>0, <2>3, BlockedKeeps, MockedKeeps, ForwardedKeeps DEF DecideRequest
  <2>4. CASE DecideResponse(f)
    BY <1>0, <2>4, BlockedKeeps, SendResponseKeeps, SendHeadKeeps,
         HeadFailsKeeps DEF DecideResponse
  <2>5. CASE Conclude(f)
    BY <1>0, <2>5, FinishKeeps, WriteReplyKeeps, WriteFailsKeeps, CloseUnansweredKeeps,
         ReturnKeeps DEF Conclude
  <2> QED BY <1>2, <2>1, <2>2, <2>3, <2>4, <2>5 DEF Handler
<1>3. ASSUME NEW f \in Flows, Upstream(f) PROVE PipelineInv'
  BY <1>0, <1>3, NoAnswerKeeps, AnsweredKeeps, RelayKeeps DEF Upstream
<1>4. ASSUME NEW f \in Flows, InPause(f) PROVE PipelineInv'
  BY <1>0, <1>4, InPauseKeeps
<1>5. CASE UI
  <2>1. UNCHANGED <<ex, state, step, at, prev, taken>>
    <3>1. ASSUME NEW c \in Calls, NEW f \in Flows, NEW a \in P!Answers, P!Lookup(c, f, a)
          PROVE  UNCHANGED <<state, step, at, prev, taken>>
      BY <3>1 DEF P!Lookup, P!pauseVars, P!flowVars
    <3>2. ASSUME NEW c \in Calls, P!Send(c)
          PROVE  UNCHANGED <<state, step, at, prev, taken>>
      BY <3>2 DEF P!Send, P!pauseVars, P!flowVars
    <3> QED BY <1>5, <3>1, <3>2, UIUses DEF UI
  <2> QED BY <1>0, <2>1, NothingMoves
<1>6. CASE UNCHANGED vars
  BY <1>0, <1>6, NothingMoves DEF vars, bpVars
<1> QED BY <1>1, <1>2, <1>3, <1>4, <1>5, <1>6 DEF Next

-----------------------------------------------------------------------------
(* The same manager, seen through the two instances.                       *)
LEMMA SameVars == BP!bpVars = P!bpVars
  BY DEF BP!bpVars, P!bpVars, BP!pauseVars, P!pauseVars, BP!flowVars, P!flowVars,
       BP!callVars, P!callVars

LEMMA SameInit == BP!Init <=> P!Init
  BY DEF BP!Init, P!Init, BP!Pauses, P!Pauses, BP!Phases, P!Phases, BP!None, P!None

LEMMA SameNext == BP!Next <=> P!Next
  BY Zenon, SameSize DEF BP!Next, P!Next, BP!Pause, P!Pause, BP!PauseFull, P!PauseFull,
       BP!Publish, P!Publish,
   BP!InPause, P!InPause, BP!EmitHit, P!EmitHit, BP!EmitPanics, P!EmitPanics, BP!Receive,
   P!Receive,
   BP!TimeOut, P!TimeOut, BP!Unpublish, P!Unpublish, BP!Resolve, P!Resolve, BP!Restored,
   P!Restored,
   BP!Lookup, P!Lookup, BP!Send, P!Send, BP!SlotFree, P!SlotFree, BP!SlotFull, P!SlotFull,
   BP!SetState, P!SetState, BP!pauseVars, P!pauseVars, BP!flowVars, P!flowVars,
   BP!callVars, P!callVars,
   BP!Phases, P!Phases, BP!Answers, P!Answers, BP!None, P!None, BP!Paused, P!Paused,
   BP!Open, P!Open,
   BP!Cardinality, P!Cardinality

LEMMA PipelineInvariant == Spec => []PipelineInv
<1> QED BY PipelineInit, PipelineStep, PTL DEF Spec

(* The handlers use the breakpoint manager as its own module says, for any *)
(* flows, calls, hooks and bodies: Pause is entered once a phase and       *)
(* f.State is written outside it only (pipeline/breakpoint.go:287).        *)
THEOREM HandlersUseTheManager == Spec => UsesManager
<1>1. Init => BP!Init
  BY DEF Init
<1>2. PipelineInv /\ [Next]_vars => [BP!Next]_BP!bpVars
  <2>1. PipelineInv /\ [Next]_vars => [P!Next]_P!bpVars
    BY StepUses
  <2>2. BP!bpVars' = P!bpVars'
    BY DEF BP!bpVars, P!bpVars, BP!pauseVars, P!pauseVars, BP!flowVars, P!flowVars,
         BP!callVars, P!callVars
  <2> QED BY <2>1, <2>2, SameVars, SameNext
<1> QED BY <1>1, <1>2, PipelineInvariant, PTL DEF Spec, UsesManager, BP!Spec

(* So what BreakpointProofs says of the manager on its own holds of the    *)
(* manager in the running pipeline.                                        *)
THEOREM ManagerSoundInPipeline ==
  Spec => [](P!MapSound /\ P!AnswersComeFromCalls /\ P!AcceptedAccounted)
<1>1. MaxOpen \in Nat /\ HandlerStates \subseteq P!Working
  BY PipelineAssumption, HandlersWrite
<1>2. PipelineInv /\ [Next]_vars => [P!Next]_P!bpVars
  BY StepUses
<1>3. Init => P!Init
  BY InitUses
<1>4. Spec => P!Spec
  BY <1>2, <1>3, PipelineInvariant, PTL DEF Spec, P!Spec
<1>5. P!Spec => []P!MapSound
  BY <1>1, P!MapStaysSound DEF HandlerStates
<1>6. P!Spec => []P!AnswersComeFromCalls
  BY <1>1, P!OnlyCallsAnswer DEF HandlerStates
<1>7. P!Spec => []P!AcceptedAccounted
  BY <1>1, P!EveryAcceptedCallCounts DEF HandlerStates
<1> QED BY <1>4, <1>5, <1>6, <1>7, PTL

(* What is aborted at the request breakpoint is never handed to the        *)
(* upstream client, and of a response aborted at its breakpoint nothing is *)
(* written, unless it is a mock (flow_pipeline.go, streaming.go).          *)
THEOREM AbortsStopBytes == Spec => []AbortStopsBytes
<1>1. PipelineInv => AbortStopsBytes
  <2> SUFFICES ASSUME PipelineInv, NEW f \in Flows
               PROVE  /\ Aborted(f, "request") => ~ex[f].upstream /\ ex[f].wire = None
                      /\ (Aborted(f, "response") /\ ex[f].route # "mock") => ex[f].wire = None
    BY DEF AbortStopsBytes
  <2>1. Obeyed(f)
    BY Given
  <2> QED BY <2>1 DEF Obeyed, Stopped, PhaseNames
<1> QED BY <1>1, PipelineInvariant, PTL

(* The state an exchange is recorded with agrees with what its client got, *)
(* and the body cache commits whole bodies only and is left no open entry. *)
THEOREM RecordsTell == Spec => []RecordTells
<1>1. PipelineInv => RecordTells
  <2> SUFFICES ASSUME PipelineInv PROVE RecordTells
    OBVIOUS
  <2>1. \A f \in Flows : Course(f)
    BY Given
  <2>2. RecordAgrees
    BY <2>1 DEF RecordAgrees, Course, Tells
  <2>3. CacheHoldsWholeBodies
    BY <2>1 DEF CacheHoldsWholeBodies, Course, Cached
  <2> QED BY <2>2, <2>3 DEF RecordTells
<1> QED BY <1>1, PipelineInvariant, PTL

(* On every way out of the handler the exchange has been recorded once, in *)
(* a final state but for an aborted mock, and the connection is kept, or   *)
(* the stream ended, only after one reply that ends as it says: a complete *)
(* one, or a buffered one, which is given the length of what there is.     *)
THEOREM ExchangesEndCleanly == Spec => [](RecordedOnce /\ CleanEnd)
<1>1. PipelineInv => RecordedOnce /\ CleanEnd
  <2> SUFFICES ASSUME PipelineInv, NEW f \in Flows
               PROVE  /\ Len(ex[f].recorded) <= 1
                      /\ ex[f].pc = "done" => Len(ex[f].recorded) = 1
                      /\ ex[f].recorded # <<>> =>
                           \/ ex[f].recorded[1] \in Final
                           \/ ex[f].route = "mock" /\ Aborted(f, "response")
                      /\ ex[f].outcome \in {"kept", "ended"} =>
                           /\ Delimited(ex[f])
                           /\ ex[f].outcome = "kept" => ex[f].route # "incomplete"
    BY DEF RecordedOnce, CleanEnd
  <2> DEFINE e == ex[f]
             r == e.recorded
  <2>1. Course(f) /\ e \in Fields
    BY Given
  <2>2. CASE e.pc = "done"
    <3>1. Len(r) = 1 /\ Tells(f, r[1])
      BY <2>1, <2>2 DEF Course
    <3>2. r[1] \in Final \/ (e.route = "mock" /\ Aborted(f, "response"))
      BY <3>1 DEF Tells
    <3>3. Len(r) <= 1
      BY <3>1
    <3>4. /\ e.outcome \in {"kept", "ended"} => Delimited(e)
          /\ e.outcome = "kept" => e.route # "incomplete"
      BY <2>1, <2>2 DEF Course
    <3> QED BY <3>1, <3>2, <3>3, <3>4
  <2>3. CASE e.pc = "reply"
    <3>1. e.outcome = None /\ Replies(f)
      BY <2>1, <2>3 DEF Course, Unsaid
    <3>2. ASSUME NEW op, Refuses(op, r[1]) PROVE r[1] \in Final
      BY <3>2 DEF Refuses, Final
    <3>3. \/ r = <<>>
          \/ /\ Len(r) = 1
             /\ r[1] \in Final \/ (e.route = "mock" /\ Aborted(f, "response"))
      BY <3>1, <3>2 DEF Replies, Tells
    <3>4. Len(r) <= 1
      <4>1. r = <<>> => Len(r) = 0
        OBVIOUS
      <4>2. Len(r) = 0 \/ Len(r) = 1
        BY <3>3, <4>1
      <4>3. ASSUME NEW n, n = 0 \/ n = 1 PROVE n <= 1
        BY <4>3
      <4> QED BY <4>2, <4>3
    <3> QED BY <2>3, <3>1, <3>3, <3>4 DEF None
  <2>4. CASE e.pc \in Before \cup {"relay"}
    <3>1. e.outcome = None /\ r = <<>> /\ e.pc # "done"
      BY <2>1, <2>4 DEF Course, Unsaid, Before
    <3>2. Len(r) <= 1
      BY <3>1
    <3> QED BY <3>1, <3>2 DEF None
  <2> QED BY <2>1, <2>2, <2>3, <2>4, Read DEF Before
<1> QED BY <1>1, PipelineInvariant, PTL

LEMMA SameTypes == P!TypeOK => BP!TypeOK
  BY DEF P!TypeOK, BP!TypeOK, P!Pauses, BP!Pauses, P!Phases, BP!Phases, P!None, BP!None,
       P!Answers, BP!Answers, P!States, BP!States, P!Working, BP!Working, P!Paused, BP!Paused,
       P!Steps, BP!Steps, P!Endings, BP!Endings

(* An exchange is recorded once and leaves its peer knowing where it       *)
(* stands, and its record has the values the code gives it.                *)
THEOREM ExchangesStaySound == Spec => []ExchangeSound
<1>1. PipelineInv => TypeOK
  <2> SUFFICES ASSUME PipelineInv PROVE TypeOK
    OBVIOUS
  <2>1. BP!TypeOK
    BY SameTypes DEF PipelineInv, Types
  <2>2. P!States = BP!States
    BY DEF P!States, BP!States, P!Working, BP!Working, P!Paused, BP!Paused
  <2>3. Fields = Exchange
    BY <2>2 DEF Fields, Exchange, Verdicts, PhaseNames, Todos
  <2> QED BY <2>1, <2>3 DEF PipelineInv, Types, ExTypes, TypeOK
<1> QED BY <1>1, PipelineInvariant, ExchangesEndCleanly, PTL DEF ExchangeSound

-----------------------------------------------------------------------------
(* What a script sees and what is taken back.                              *)

LEMMA HeaderTyped ==
  ASSUME NEW h \in Headers
  PROVE  /\ h = [k \in DOMAIN h |-> h[k]] /\ DOMAIN h \subseteq HeaderNames
         /\ \A k \in DOMAIN h : h[k] \in Seq(HeaderValues) /\ (h[k] # <<>> => h[k][1] \in HeaderValues)
<1>1. DOMAIN h \subseteq HeaderNames /\ h \in [DOMAIN h -> Seq(HeaderValues)]
  BY ScriptAssumption
<1>2. ASSUME NEW k \in DOMAIN h PROVE h[k] \in Seq(HeaderValues) /\ (h[k] # <<>> => h[k][1] \in HeaderValues)
  <2>1. PICK s \in Seq(HeaderValues) : s = h[k]  BY <1>1
  <2>2. s # <<>> => Len(s) \in Nat /\ Len(s) # 0  BY <2>1
  <2>3. s # <<>> => s[1] \in HeaderValues  BY <2>2
  <2>. QED  BY <2>1, <2>3
<1>. QED  BY <1>1, <1>2

LEMMA FlattenTyped ==
  ASSUME NEW h \in Headers
  PROVE  Flatten(h) \in Flat
<1>1. PICK names \in SUBSET HeaderNames : names = {k \in DOMAIN h : h[k] # <<>>}  BY HeaderTyped
<1>2. Flatten(h) = [k \in names |-> h[k][1]]  BY <1>1 DEF Flatten
<1>3. [k \in names |-> h[k][1]] \in [names -> HeaderValues]  BY <1>1, HeaderTyped
<1>. QED  BY <1>2, <1>3 DEF Flat

(* A table of single values is as flat as it was.                          *)
LEMMA Unflattened ==
  ASSUME NEW flat \in Flat
  PROVE  Flatten(Unflatten(flat)) = flat
<1>1. PICK names \in SUBSET HeaderNames : flat \in [names -> HeaderValues]  BY DEF Flat
<1>2. PICK h : h = [k \in names |-> <<flat[k]>>]  OBVIOUS
<1>3. h = Unflatten(flat)  BY <1>1, <1>2 DEF Unflatten
<1>4. {x \in DOMAIN h : h[x] # <<>>} = names  BY <1>2
<1>5. Flatten(h) = [k \in names |-> h[k][1]]  BY <1>4 DEF Flatten
<1>6. \A k \in names : h[k][1] = flat[k]  BY <1>2
<1>. QED  BY <1>1, <1>3, <1>5, <1>6

LEMMA MergedHeaders ==
  ASSUME NEW old \in Headers, NEW flat \in Flat
  PROVE  HeadersKept(old, MergeHeaders(old, flat), flat)
<1>1. CASE Flatten(old) = flat
  <2>1. MergeHeaders(old, flat) = old  BY <1>1 DEF MergeHeaders
  <2>. QED  BY <1>1, <2>1 DEF HeadersKept
<1>2. CASE Flatten(old) # flat
  <2>1. PICK names \in SUBSET HeaderNames : flat \in [names -> HeaderValues]  BY DEF Flat
  <2>2. PICK shown : shown = Flatten(old)  OBVIOUS
  <2>3. /\ DOMAIN shown = {k \in DOMAIN old : old[k] # <<>>}
        /\ \A k \in DOMAIN shown : shown[k] = old[k][1]
    BY <2>2 DEF Flatten
  <2>4. PICK new : new = [k \in names |-> IF k \in DOMAIN shown /\ shown[k] = flat[k]
                                         THEN old[k] ELSE <<flat[k]>>]
    OBVIOUS
  <2>5. new = MergeHeaders(old, flat)
    <3>1. MergeHeaders(old, flat) =
            [k \in names |-> IF k \in DOMAIN old /\ old[k] # <<>> /\ old[k][1] = flat[k]
                             THEN old[k] ELSE <<flat[k]>>]
      BY <1>2, <2>1 DEF MergeHeaders
    <3>2. \A k \in names : (k \in DOMAIN shown /\ shown[k] = flat[k]) <=>
                           (k \in DOMAIN old /\ old[k] # <<>> /\ old[k][1] = flat[k])
      BY <2>3
    <3>. QED  BY <2>4, <3>1, <3>2
  <2>6. \A k \in names : new[k] # <<>> /\ new[k][1] = flat[k]
    BY <2>3, <2>4
  <2>7. Flatten(new) = [k \in names |-> new[k][1]]
    <3>1. {x \in DOMAIN new : new[x] # <<>>} = names  BY <2>4, <2>6
    <3>. QED  BY <3>1 DEF Flatten
  <2>8. Flatten(new) = flat  BY <2>1, <2>6, <2>7
  <2>9. \A k \in DOMAIN flat : new[k] = IF k \in DOMAIN shown /\ shown[k] = flat[k] THEN old[k] ELSE <<flat[k]>>
    BY <2>1, <2>4
  <2>. QED  BY <2>2, <2>5, <2>8, <2>9 DEF HeadersKept
<1>. QED  BY <1>1, <1>2

Sent == {Marshalled(b) : b \in Contents}
ShownMessages == [start : Starts, table : BOOLEAN, headers : Flat, body : Sent]
ShownRequests == [start : Starts, host : Sites, table : BOOLEAN, headers : Flat, body : Sent]

ScriptResults == [request : ShownRequests, response : {<<>>} \cup {<<m>> : m \in ShownMessages},
                  decision : {"continue", "mock", "abort", "breakpoint"}, readable : BOOLEAN]
Exchanges == [request : [start : Starts, host : Sites, header : Headers, body : Contents],
              response : {<<>>} \cup {<<r>> : r \in Responses}]

ScriptTyped == exchange \in Exchanges /\ result \in ScriptResults

LEMMA ViewTyped ==
  ASSUME NEW x \in Exchanges
  PROVE  ViewOf(x) \in ScriptResults
<1>1. x.request \in [start : Starts, host : Sites, header : Headers, body : Contents]
  BY DEF Exchanges
<1>2. [start |-> x.request.start, host |-> x.request.host,
       table |-> DOMAIN Flatten(x.request.header) # {}, headers |-> Flatten(x.request.header), body |-> Marshalled(x.request.body)] \in ShownRequests
  BY <1>1, FlattenTyped DEF ShownRequests, Sent
<1>3. CASE x.response = <<>>
  BY <1>2, <1>3 DEF ViewOf, ScriptResults
<1>4. CASE x.response # <<>>
  <2>1. PICK r \in Responses : x.response = <<r>>  BY <1>4 DEF Exchanges
  <2>2. PICK m : m = [start |-> r.start, table |-> DOMAIN Flatten(r.header) # {},
                      headers |-> Flatten(r.header), body |-> Marshalled(r.body)]
    OBVIOUS
  <2>3. m \in ShownMessages  BY <2>2, FlattenTyped DEF ShownMessages, Sent, Responses
  <2>4. x.response[1] = r  BY <2>1
  <2>5. ViewOf(x).response = <<m>>  BY <1>4, <2>2, <2>4 DEF ViewOf
  <2>6. ViewOf(x) = [request |-> ViewOf(x).request, response |-> <<m>>,
                     decision |-> "continue", readable |-> TRUE]
    BY <1>4, <2>2, <2>4 DEF ViewOf
  <2>. QED  BY <1>2, <2>3, <2>6 DEF ViewOf, ScriptResults
<1>. QED  BY <1>3, <1>4

LEMMA HeaderSet ==
  ASSUME NEW h \in Flat, NEW n \in HeaderNames, NEW v \in HeaderValues
  PROVE  SetHeader(h, n, v) \in Flat
<1>1. PICK names \in SUBSET HeaderNames : h \in [names -> HeaderValues]  BY DEF Flat
<1>2. SetHeader(h, n, v) \in [names \cup {n} -> HeaderValues]  BY <1>1 DEF SetHeader
<1>. QED  BY <1>1, <1>2 DEF Flat

LEMMA HeaderDropped ==
  ASSUME NEW h \in Flat, NEW n \in HeaderNames
  PROVE  DropHeader(h, n) \in Flat
<1>1. PICK names \in SUBSET HeaderNames : h \in [names -> HeaderValues]  BY DEF Flat
<1>2. DropHeader(h, n) \in [names \ {n} -> HeaderValues]  BY <1>1 DEF DropHeader
<1>. QED  BY <1>1, <1>2 DEF Flat

LEMMA NoneShown == NoHeaders \in Flat
<1>1. {} \in SUBSET HeaderNames  OBVIOUS
<1>2. NoHeaders \in [{} -> HeaderValues]  BY DEF NoHeaders
<1>. QED  BY <1>1, <1>2 DEF Flat

LEMMA AssignedTyped ==
  /\ \A m \in ShownRequests : Assigned(m) \subseteq ShownRequests
  /\ \A m \in ShownMessages : Assigned(m) \subseteq ShownMessages
<1>1. ASSUME NEW m \in ShownRequests, NEW a \in Assigned(m) PROVE a \in ShownRequests
  <2>1. CASE \E t \in Starts : a = [m EXCEPT !.start = t]  BY <2>1 DEF ShownRequests
  <2>2. CASE \E b \in Contents : a = [m EXCEPT !.body = Marshalled(b)]  BY <2>2 DEF ShownRequests, Sent
  <2>3. CASE \E n \in HeaderNames, v \in HeaderValues : a = WithHeader(m, n, v)
    BY <2>3, HeaderSet DEF ShownRequests, WithHeader
  <2>4. CASE \E n \in HeaderNames : a = [m EXCEPT !.headers = DropHeader(@, n)]
    BY <2>4, HeaderDropped DEF ShownRequests
  <2>5. CASE a = Untabled(m)  BY <2>5, NoneShown DEF ShownRequests, Untabled
  <2>. QED  BY <1>1, <2>1, <2>2, <2>3, <2>4, <2>5 DEF Assigned
<1>2. ASSUME NEW m \in ShownMessages, NEW a \in Assigned(m) PROVE a \in ShownMessages
  <2>1. CASE \E t \in Starts : a = [m EXCEPT !.start = t]  BY <2>1 DEF ShownMessages
  <2>2. CASE \E b \in Contents : a = [m EXCEPT !.body = Marshalled(b)]  BY <2>2 DEF ShownMessages, Sent
  <2>3. CASE \E n \in HeaderNames, v \in HeaderValues : a = WithHeader(m, n, v)
    BY <2>3, HeaderSet DEF ShownMessages, WithHeader
  <2>4. CASE \E n \in HeaderNames : a = [m EXCEPT !.headers = DropHeader(@, n)]
    BY <2>4, HeaderDropped DEF ShownMessages
  <2>5. CASE a = Untabled(m)  BY <2>5, NoneShown DEF ShownMessages, Untabled
  <2>. QED  BY <1>2, <2>1, <2>2, <2>3, <2>4, <2>5 DEF Assigned
<1>. QED  BY <1>1, <1>2

LEMMA ScriptKeeps == ScriptTyped /\ ScriptNext => ScriptTyped'
<1>. SUFFICES ASSUME ScriptTyped, ScriptNext PROVE ScriptTyped'  OBVIOUS
<1>1. exchange' = exchange  BY DEF ScriptNext, EditRequest, EditResponse, Answer, Decide, Misassign
<1>2. CASE EditRequest
  <2>1. PICK m : /\ m \in Assigned(result.request) \cup {[result.request EXCEPT !.host = t] : t \in Sites}
                 /\ result' = [result EXCEPT !.request = m]
    BY <1>2 DEF EditRequest
  <2>2. result.request \in ShownRequests  BY DEF ScriptTyped, ScriptResults
  <2>3. \A t \in Sites : [result.request EXCEPT !.host = t] \in ShownRequests
    BY <2>2 DEF ShownRequests
  <2>4. m \in ShownRequests  BY <2>1, <2>2, <2>3, AssignedTyped
  <2>. QED  BY <1>1, <2>1, <2>4 DEF ScriptTyped, ScriptResults
<1>3. CASE EditResponse
  <2>1. PICK r \in ShownMessages : result.response = <<r>>
    BY <1>3 DEF EditResponse, ScriptTyped, ScriptResults
  <2>2. PICK m \in Assigned(r) : result' = [result EXCEPT !.response = <<m>>]
    BY <1>3, <2>1 DEF EditResponse
  <2>3. m \in ShownMessages  BY <2>2, AssignedTyped
  <2>. QED  BY <1>1, <2>2, <2>3 DEF ScriptTyped, ScriptResults
<1>4. CASE Answer
  <2>1. ASSUME NEW t \in Starts, NEW h \in Flat, NEW b \in Contents,
               result' = [result EXCEPT !.response =
                 <<[start |-> t, table |-> DOMAIN h # {}, headers |-> h, body |-> Marshalled(b)]>>]
        PROVE  ScriptTyped'
    <3>1. PICK d \in BOOLEAN : d = (DOMAIN h # {})  OBVIOUS
    <3>2. PICK m \in ShownMessages : m = [start |-> t, table |-> d, headers |-> h, body |-> Marshalled(b)]
      BY DEF ShownMessages, Sent
    <3>3. result' = [result EXCEPT !.response = <<m>>]  BY <2>1, <3>1, <3>2
    <3>. QED  BY <1>1, <3>3 DEF ScriptTyped, ScriptResults
  <2>2. ASSUME result' = [result EXCEPT !.response = <<>>] PROVE ScriptTyped'
    BY <1>1, <2>2 DEF ScriptTyped, ScriptResults
  <2>. QED  BY <1>4, <2>1, <2>2 DEF Answer
<1>5. CASE Decide  BY <1>1, <1>5 DEF Decide, ScriptTyped, ScriptResults
<1>6. CASE Misassign  BY <1>1, <1>6 DEF Misassign, ScriptTyped, ScriptResults
<1>. QED  BY <1>2, <1>3, <1>4, <1>5, <1>6 DEF ScriptNext

LEMMA RequestKept ==
  ASSUME NEW x \in Exchanges, NEW m \in ShownRequests, NEW y, y = EditedRequest(x.request, m)
  PROVE  /\ TableKept(x.request.header, y.header, m)
         /\ y.start = m.start /\ y.body = m.body
         /\ m = ViewOf(x).request /\ x.request.body # "binary" => y = x.request
<1>1. PICK r \in [start : Starts, host : Sites, header : Headers, body : Contents] : r = x.request
  BY DEF Exchanges
<1>2. PICK new : new = EditedHeaders(r.header, m)  OBVIOUS
<1>3. y = [r EXCEPT !.start = m.start, !.host = IF m.host = "" THEN @ ELSE m.host,
                    !.header = new, !.body = m.body]
  BY <1>1, <1>2 DEF EditedRequest
<1>4. y.header = new /\ y.start = m.start /\ y.body = m.body  BY <1>3
<1>5. TableKept(r.header, new, m)  BY <1>2, MergedHeaders DEF ShownRequests, EditedHeaders, TableKept
<1>6. ASSUME m = ViewOf(x).request, r.body # "binary" PROVE y = r
  <2>1. m.start = r.start /\ m.host = r.host /\ m.headers = Flatten(r.header) /\ m.body = r.body
    BY <1>1, <1>6 DEF ViewOf, Marshalled
  <2>2. new = r.header  BY <1>2, <2>1 DEF EditedHeaders, MergeHeaders
  <2>3. y.host = r.host  BY <1>3, <2>1
  <2>4. y \in [start : Starts, host : Sites, header : Headers, body : Contents]
    BY <1>3, <2>1, <2>2
  <2>. QED  BY <1>4, <2>1, <2>2, <2>3, <2>4
<1>. QED  BY <1>1, <1>4, <1>5, <1>6

LEMMA ResponseKept ==
  ASSUME NEW r \in Responses, NEW m \in ShownMessages, NEW y, y = EditedResponse(r, m)
  PROVE  /\ TableKept(r.header, y.header, m)
         /\ y.body = m.body
         /\ m.start = "" => y.start = r.start
<1>2. PICK new : new = EditedHeaders(r.header, m)  OBVIOUS
<1>3. y = [r EXCEPT !.start = IF m.start = "" THEN @ ELSE m.start, !.header = new, !.body = m.body]
  BY <1>2 DEF EditedResponse
<1>4. y.header = new /\ y.body = m.body /\ (m.start = "" => y.start = r.start)
  BY <1>3 DEF Responses
<1>5. TableKept(r.header, new, m)
  BY <1>2, MergedHeaders DEF ShownMessages, Responses, EditedHeaders, TableKept
<1>. QED  BY <1>4, <1>5

LEMMA ResponseUntouched ==
  ASSUME NEW r \in Responses, NEW m \in ShownMessages,
         m.start = r.start, m.headers = Flatten(r.header), m.body = r.body
  PROVE  EditedResponse(r, m) = r
<1>1. EditedHeaders(r.header, m) = r.header  BY DEF EditedHeaders, MergeHeaders
<1>2. PICK y : y = EditedResponse(r, m)  OBVIOUS
<1>3. y = [r EXCEPT !.start = IF m.start = "" THEN @ ELSE m.start, !.header = r.header, !.body = r.body]
  BY <1>1, <1>2 DEF EditedResponse
<1>4. y.start = r.start /\ y.header = r.header /\ y.body = r.body /\ y \in Responses  BY <1>3 DEF Responses
<1>5. y = r  BY <1>4 DEF Responses
<1>. QED  BY <1>2, <1>5

(* What is taken over, as y, of a result o that unmarshals.                 *)
TakenOver(x, o, v, y) ==
  /\ y.decision = o.decision
  /\ TableKept(x.request.header, y.request.header, o.request)
  /\ y.request.start = o.request.start /\ y.request.body = o.request.body
  /\ o.request = v.request /\ x.request.body # "binary" => y.request = x.request
  /\ o.response # <<>> =>
       /\ y.response[1].body = o.response[1].body
       /\ x.response # <<>> =>
            /\ TableKept(x.response[1].header, y.response[1].header, o.response[1])
            /\ o.response[1].start = "" => y.response[1].start = x.response[1].start
       /\ x.response = <<>> => Flatten(y.response[1].header) = o.response[1].headers
  /\ o.response = <<>> => y.response = x.response
  /\ o.response = v.response /\ (x.response # <<>> => x.response[1].body # "binary") => y.response = x.response

LEMMA ReadableKept ==
  ASSUME NEW x \in Exchanges, NEW o \in ScriptResults, o.readable,
         NEW v \in ScriptResults, v = ViewOf(x), NEW y, y = ApplyHTTP(x, o)
  PROVE  TakenOver(x, o, v, y)
<1>3. v = ViewOf(x)  OBVIOUS
<1>5. /\ y.request = EditedRequest(x.request, o.request) /\ y.response = ResponseOf(x, o)
      /\ y.decision = o.decision
  BY DEF ApplyHTTP
<1>6. /\ TableKept(x.request.header, y.request.header, o.request)
      /\ y.request.start = o.request.start /\ y.request.body = o.request.body
      /\ o.request = v.request /\ x.request.body # "binary" => y.request = x.request
  BY <1>3, <1>5, RequestKept DEF ScriptResults
<1>7. o.response = <<>> => y.response = x.response
  BY <1>5 DEF ResponseOf
<1>8. ASSUME o.response # <<>>, x.response # <<>>
      PROVE  /\ y.response[1].body = o.response[1].body
             /\ TableKept(x.response[1].header, y.response[1].header, o.response[1])
             /\ o.response[1].start = "" => y.response[1].start = x.response[1].start
             /\ o.response = v.response /\ x.response[1].body # "binary" => y.response = x.response
  <2>1. PICK m \in ShownMessages : o.response = <<m>>  BY <1>8 DEF ScriptResults
  <2>2. PICK r \in Responses : x.response = <<r>>  BY <1>8 DEF Exchanges
  <2>3. o.response[1] = m /\ x.response[1] = r  BY <2>1, <2>2
  <2>4. PICK e : e = EditedResponse(r, m)  OBVIOUS
  <2>5. y.response = <<e>>
    <3>1. ResponseOf(x, o) = <<EditedResponse(x.response[1], o.response[1])>>  BY <1>8 DEF ResponseOf
    <3>. QED  BY <1>5, <2>3, <2>4, <3>1
  <2>6. y.response[1] = e  BY <2>5
  <2>7. ASSUME o.response = v.response, r.body # "binary" PROVE e = r
    <3>1. v.response[1] = [start |-> r.start, table |-> DOMAIN Flatten(r.header) # {},
                             headers |-> Flatten(r.header), body |-> Marshalled(r.body)]
      BY <1>3, <1>8, <2>3 DEF ViewOf
    <3>2. m.start = r.start /\ m.headers = Flatten(r.header) /\ m.body = r.body
      BY <2>3, <2>7, <3>1 DEF Marshalled
    <3>3. EditedResponse(r, m) = r  BY <3>2, ResponseUntouched
    <3>. QED  BY <2>4, <3>3
  <2>8. TableKept(r.header, e.header, m)  BY <2>4, ResponseKept
  <2>9. e.body = m.body /\ (m.start = "" => e.start = r.start)
    BY <2>4 DEF EditedResponse, Responses
  <2>. QED  BY <2>2, <2>3, <2>5, <2>6, <2>7, <2>8, <2>9
<1>9. ASSUME o.response # <<>>, x.response = <<>>
      PROVE  /\ y.response[1].body = o.response[1].body
             /\ Flatten(y.response[1].header) = o.response[1].headers
             /\ o.response # v.response
  <2>1. PICK m \in ShownMessages : o.response = <<m>>  BY <1>9 DEF ScriptResults
  <2>2. PICK e : e = [start |-> m.start, header |-> Unflatten(m.headers), body |-> m.body]  OBVIOUS
  <2>3. o.response[1] = m  BY <2>1
  <2>4. y.response = <<e>>  BY <1>5, <1>9, <2>2, <2>3 DEF ResponseOf
  <2>5. y.response[1] = e  BY <2>4
  <2>6. Flatten(e.header) = m.headers  BY <2>2, Unflattened DEF ShownMessages
  <2>7. v.response = <<>>  BY <1>3, <1>9 DEF ViewOf
  <2>. QED  BY <1>9, <2>2, <2>3, <2>5, <2>6, <2>7
<1>11. o.response = v.response /\ (x.response # <<>> => x.response[1].body # "binary") => y.response = x.response
  BY <1>7, <1>8, <1>9
<1>12. o.response # <<>> =>
         /\ y.response[1].body = o.response[1].body
         /\ x.response # <<>> =>
              /\ TableKept(x.response[1].header, y.response[1].header, o.response[1])
              /\ o.response[1].start = "" => y.response[1].start = x.response[1].start
         /\ x.response = <<>> => Flatten(y.response[1].header) = o.response[1].headers
  BY <1>8, <1>9
<1>. QED  BY <1>5, <1>6, <1>7, <1>11, <1>12 DEF TakenOver

LEMMA ListsMean ==
  ASSUME NEW white \in SUBSET UrlPatterns, NEW black \in SUBSET UrlPatterns, NEW matching \in SUBSET UrlPatterns
  PROVE  PluginMatch([white |-> white, black |-> black], matching) =
           ((white = {} \/ \E p \in matching : p \in white) /\ \A p \in matching : p \notin black)
<1>1. PluginMatch([white |-> white, black |-> black], matching) <=>
        (black \cap matching = {} /\ (white = {} \/ \E p \in white : p \in matching))
  BY DEF PluginMatch
<1>2. PluginMatch([white |-> white, black |-> black], matching) \in BOOLEAN
  BY DEF PluginMatch
<1>. QED  BY <1>1, <1>2

LEMMA ScriptSound == ScriptTyped => ScriptsEdit
<1>. SUFFICES ASSUME ScriptTyped PROVE ScriptsEdit  OBVIOUS
<1>1. PICK x \in Exchanges : x = exchange  BY DEF ScriptTyped
<1>2. PICK o \in ScriptResults : o = result  BY DEF ScriptTyped
<1>3. PICK v \in ScriptResults : v = ViewOf(x)  BY ViewTyped
<1>4. PICK y : y = ApplyHTTP(x, o)  OBVIOUS
<1>5. CASE o.readable
  <2>1. TakenOver(x, o, v, y)  BY <1>3, <1>4, <1>5, ReadableKept
  <2>. QED  BY ONLY <1>1, <1>2, <1>3, <1>4, <1>5, <2>1, ListsMean DEF ScriptsEdit, TakenOver
<1>6. CASE ~o.readable
  <2>1. y = [request |-> x.request, response |-> x.response, decision |-> "continue"]
    BY <1>4, <1>6 DEF ApplyHTTP
  <2>2. y.request = x.request /\ y.response = x.response /\ y.decision = "continue"
    BY <2>1
  <2>. QED  BY ONLY <1>1, <1>2, <1>3, <1>4, <1>6, <2>2, ListsMean DEF ScriptsEdit
<1>. QED  BY <1>5, <1>6

(* A script changes what it touches and nothing else, and nothing at all   *)
(* when its result does not unmarshal (plugin.go:815, 841, 846, 952).      *)
THEOREM ScriptsOnlyEdit == ScriptSpec => []ScriptsEdit
<1>1. ScriptInit => ScriptTyped
  BY ViewTyped DEF ScriptInit, ScriptTyped, Exchanges
<1>2. ScriptTyped /\ [ScriptNext]_<<exchange, result>> => ScriptTyped'
  <2>1. ScriptTyped /\ UNCHANGED <<exchange, result>> => ScriptTyped'
    BY DEF ScriptTyped
  <2>. QED  BY <2>1, ScriptKeeps
<1>. QED  BY <1>1, <1>2, ScriptSound, PTL DEF ScriptSpec

-----------------------------------------------------------------------------
(* Rules and patterns (Matching): a list of rules is run rule by rule, a    *)
(* rule action by action; a pattern is a way through a text.                *)

(* One letter more of a pattern. *)
GlobStep(ends, t, c) ==
  IF c = "*" THEN {k \in 0..Len(t) : \E j \in ends : j <= k} ELSE {k \in 1..Len(t) : k - 1 \in ends /\ t[k] = c}

(* The engine before the first rule.                                        *)
Begun(f) == [flow |-> f, verdict |-> [is |-> "continue", status |-> ""]]

(* What a loop has made, g, after each action, rule or letter.              *)
ActionsOf(r, s, g) == g[0] = s /\ \A n \in 1..Len(r.actions) : g[n] = RequestAction(g[n - 1], r.actions[n])
RepliesOf(r, f, g) == g[0] = f /\ \A n \in 1..Len(r.actions) : g[n] = ResponseAction(g[n - 1], r.actions[n])
RunOf(used, f, g)  == g[0] = Begun(f) /\ \A n \in 1..Len(used) : g[n] = ApplyToRequest(g[n - 1], used[n])
AnswersOf(used, f, g) == g[0] = f /\ \A n \in 1..Len(used) : g[n] = ApplyToResponse(g[n - 1], used[n])
GlobOf(p, t, from, g) == g[0] = from /\ \A n \in 1..Len(p) : g[n] = GlobStep(g[n - 1], t, p[n])
ReachOf(p, stretch, start, g) ==
  g[0] = start /\ \A n \in 1..Len(p) : g[n] = IF p[n] = "*" THEN stretch[n] ELSE g[n - 1] + 1

(* The actions of a rule on a request are taken one after the other.        *)
LEMMA ActionsOnRequest ==
  ASSUME NEW r, Len(r.actions) \in Nat, NEW s
  PROVE  \E g : /\ ActionsOf(r, s, g)
                /\ ApplyToRequest(s, r) = (IF s.verdict.is = "continue" /\ Matches(r, s.flow) THEN g[Len(r.actions)] ELSE s)
<1> DEFINE Rec(g, m) == g = [n \in 0..m |-> IF n = 0 THEN s ELSE RequestAction(g[n - 1], r.actions[n])]
           D == {m \in Nat : \E g : Rec(g, m)}
<1>1. 0 \in D
  <2>1. Rec([n \in 0..0 |-> s], 0)
    OBVIOUS
  <2> QED BY <2>1
<1>2. ASSUME NEW m \in D PROVE m + 1 \in D
  <2>1. PICK g : Rec(g, m)
    OBVIOUS
  <2> DEFINE h == [n \in 0..(m + 1) |-> IF n = m + 1 THEN RequestAction(g[m], r.actions[m + 1]) ELSE g[n]]
  <2>2. ASSUME NEW n \in 0..(m + 1), n # 0
        PROVE  h[n] = RequestAction(h[n - 1], r.actions[n])
    <3>1. n - 1 \in 0..m /\ m \in Nat
      BY <2>2
    <3>2. h[n - 1] = g[n - 1]
      BY <3>1
    <3>3. CASE n = m + 1
      BY <3>2, <3>3
    <3>4. CASE n # m + 1
      BY <2>1, <2>2, <3>2, <3>4
    <3> QED BY <3>3, <3>4
  <2>3. h[0] = s
    BY <2>1
  <2>4. h = [n \in 0..(m + 1) |-> h[n]]
    OBVIOUS
  <2> HIDE DEF h
  <2>5. Rec(h, m + 1)
    BY <2>2, <2>3, <2>4
  <2>6. m + 1 \in Nat
    OBVIOUS
  <2> HIDE DEF Rec
  <2> QED BY <2>5, <2>6
<1> HIDE DEF D
<1>3. D = Nat
  BY <1>1, <1>2, SetInduction DEF D
<1>4. Len(r.actions) \in Nat
  BY Len(r.actions) \in Nat
<1> DEFINE F == CHOOSE g : Rec(g, Len(r.actions))
<1>5. Rec(F, Len(r.actions))
  BY <1>3, <1>4 DEF D
<1>6. ApplyToRequest(s, r) = (IF s.verdict.is = "continue" /\ Matches(r, s.flow) THEN F[Len(r.actions)] ELSE s)
  BY DEF ApplyToRequest
<1> HIDE DEF F
<1>7. F[0] = s /\ \A n \in 1..Len(r.actions) : F[n] = RequestAction(F[n - 1], r.actions[n])
  BY <1>4, <1>5
<1> QED BY <1>6, <1>7 DEF ActionsOf

(* And on a response.                                                       *)
LEMMA ActionsOnResponse ==
  ASSUME NEW r, Len(r.actions) \in Nat, NEW f
  PROVE  \E g : /\ RepliesOf(r, f, g)
                /\ ApplyToResponse(f, r) = (IF Matches(r, f) THEN g[Len(r.actions)] ELSE f)
<1> DEFINE Rec(g, m) == g = [n \in 0..m |-> IF n = 0 THEN f ELSE ResponseAction(g[n - 1], r.actions[n])]
           D == {m \in Nat : \E g : Rec(g, m)}
<1>1. 0 \in D
  <2>1. Rec([n \in 0..0 |-> f], 0)
    OBVIOUS
  <2> QED BY <2>1
<1>2. ASSUME NEW m \in D PROVE m + 1 \in D
  <2>1. PICK g : Rec(g, m)
    OBVIOUS
  <2> DEFINE h == [n \in 0..(m + 1) |-> IF n = m + 1 THEN ResponseAction(g[m], r.actions[m + 1]) ELSE g[n]]
  <2>2. ASSUME NEW n \in 0..(m + 1), n # 0
        PROVE  h[n] = ResponseAction(h[n - 1], r.actions[n])
    <3>1. n - 1 \in 0..m /\ m \in Nat
      BY <2>2
    <3>2. h[n - 1] = g[n - 1]
      BY <3>1
    <3>3. CASE n = m + 1
      BY <3>2, <3>3
    <3>4. CASE n # m + 1
      BY <2>1, <2>2, <3>2, <3>4
    <3> QED BY <3>3, <3>4
  <2>3. h[0] = f
    BY <2>1
  <2>4. h = [n \in 0..(m + 1) |-> h[n]]
    OBVIOUS
  <2> HIDE DEF h
  <2>5. Rec(h, m + 1)
    BY <2>2, <2>3, <2>4
  <2>6. m + 1 \in Nat
    OBVIOUS
  <2> HIDE DEF Rec
  <2> QED BY <2>5, <2>6
<1> HIDE DEF D
<1>3. D = Nat
  BY <1>1, <1>2, SetInduction DEF D
<1>4. Len(r.actions) \in Nat
  BY Len(r.actions) \in Nat
<1> DEFINE F == CHOOSE g : Rec(g, Len(r.actions))
<1>5. Rec(F, Len(r.actions))
  BY <1>3, <1>4 DEF D
<1>6. ApplyToResponse(f, r) = (IF Matches(r, f) THEN F[Len(r.actions)] ELSE f)
  BY DEF ApplyToResponse
<1> HIDE DEF F
<1>7. F[0] = f /\ \A n \in 1..Len(r.actions) : F[n] = ResponseAction(F[n - 1], r.actions[n])
  BY <1>4, <1>5
<1> QED BY <1>6, <1>7 DEF RepliesOf

(* The rules of a sorted list, one after the other.                         *)
LEMMA RulesOfRequest ==
  ASSUME NEW S, NEW used \in Seq(S), NEW f
  PROVE  \E g : /\ RunOf(used, f, g)
                /\ RunOnRequest(used, f) = g[Len(used)]
<1> DEFINE Rec(g, m) == g = [n \in 0..m |-> IF n = 0 THEN Begun(f) ELSE ApplyToRequest(g[n - 1], used[n])]
           D == {m \in Nat : \E g : Rec(g, m)}
<1>1. 0 \in D
  <2>1. Rec([n \in 0..0 |-> Begun(f)], 0)
    OBVIOUS
  <2> QED BY <2>1
<1>2. ASSUME NEW m \in D PROVE m + 1 \in D
  <2>1. PICK g : Rec(g, m)
    OBVIOUS
  <2> DEFINE h == [n \in 0..(m + 1) |-> IF n = m + 1 THEN ApplyToRequest(g[m], used[m + 1]) ELSE g[n]]
  <2>2. ASSUME NEW n \in 0..(m + 1), n # 0
        PROVE  h[n] = ApplyToRequest(h[n - 1], used[n])
    <3>1. n - 1 \in 0..m /\ m \in Nat
      BY <2>2
    <3>2. h[n - 1] = g[n - 1]
      BY <3>1
    <3>3. CASE n = m + 1
      BY <3>2, <3>3
    <3>4. CASE n # m + 1
      BY <2>1, <2>2, <3>2, <3>4
    <3> QED BY <3>3, <3>4
  <2>3. h[0] = Begun(f)
    BY <2>1
  <2>4. h = [n \in 0..(m + 1) |-> h[n]]
    OBVIOUS
  <2> HIDE DEF h
  <2>5. Rec(h, m + 1)
    BY <2>2, <2>3, <2>4
  <2>6. m + 1 \in Nat
    OBVIOUS
  <2> HIDE DEF Rec
  <2> QED BY <2>5, <2>6
<1> HIDE DEF D
<1>3. D = Nat
  BY <1>1, <1>2, SetInduction DEF D
<1>4. Len(used) \in Nat
  BY LenProperties
<1> DEFINE F == CHOOSE g : Rec(g, Len(used))
<1>5. Rec(F, Len(used))
  BY <1>3, <1>4 DEF D
<1>6. RunOnRequest(used, f) = F[Len(used)]
  BY DEF RunOnRequest, Begun
<1> HIDE DEF F
<1>7. F[0] = Begun(f) /\ \A n \in 1..Len(used) : F[n] = ApplyToRequest(F[n - 1], used[n])
  BY <1>4, <1>5
<1> QED BY <1>6, <1>7 DEF RunOf

(* And of a response.                                                       *)
LEMMA RulesOfResponse ==
  ASSUME NEW S, NEW used \in Seq(S), NEW f
  PROVE  \E g : /\ AnswersOf(used, f, g)
                /\ RunOnResponse(used, f) = g[Len(used)]
<1> DEFINE Rec(g, m) == g = [n \in 0..m |-> IF n = 0 THEN f ELSE ApplyToResponse(g[n - 1], used[n])]
           D == {m \in Nat : \E g : Rec(g, m)}
<1>1. 0 \in D
  <2>1. Rec([n \in 0..0 |-> f], 0)
    OBVIOUS
  <2> QED BY <2>1
<1>2. ASSUME NEW m \in D PROVE m + 1 \in D
  <2>1. PICK g : Rec(g, m)
    OBVIOUS
  <2> DEFINE h == [n \in 0..(m + 1) |-> IF n = m + 1 THEN ApplyToResponse(g[m], used[m + 1]) ELSE g[n]]
  <2>2. ASSUME NEW n \in 0..(m + 1), n # 0
        PROVE  h[n] = ApplyToResponse(h[n - 1], used[n])
    <3>1. n - 1 \in 0..m /\ m \in Nat
      BY <2>2
    <3>2. h[n - 1] = g[n - 1]
      BY <3>1
    <3>3. CASE n = m + 1
      BY <3>2, <3>3
    <3>4. CASE n # m + 1
      BY <2>1, <2>2, <3>2, <3>4
    <3> QED BY <3>3, <3>4
  <2>3. h[0] = f
    BY <2>1
  <2>4. h = [n \in 0..(m + 1) |-> h[n]]
    OBVIOUS
  <2> HIDE DEF h
  <2>5. Rec(h, m + 1)
    BY <2>2, <2>3, <2>4
  <2>6. m + 1 \in Nat
    OBVIOUS
  <2> HIDE DEF Rec
  <2> QED BY <2>5, <2>6
<1> HIDE DEF D
<1>3. D = Nat
  BY <1>1, <1>2, SetInduction DEF D
<1>4. Len(used) \in Nat
  BY LenProperties
<1> DEFINE F == CHOOSE g : Rec(g, Len(used))
<1>5. Rec(F, Len(used))
  BY <1>3, <1>4 DEF D
<1>6. RunOnResponse(used, f) = F[Len(used)]
  BY DEF RunOnResponse
<1> HIDE DEF F
<1>7. F[0] = f /\ \A n \in 1..Len(used) : F[n] = ApplyToResponse(F[n - 1], used[n])
  BY <1>4, <1>5
<1> QED BY <1>6, <1>7 DEF AnswersOf

(* The rules that are enabled, in the order of the list.                    *)
Enabled(list) == Only(list, {r \in ToSet(list) : r.enabled})

(* They are placed one after the other.                                     *)
LEMMA Sorting ==
  ASSUME NEW S, NEW list, Enabled(list) \in Seq(S)
  PROVE  \E g : /\ g[0] = <<>> /\ SortedRules(list) = g[Len(Enabled(list))]
                /\ \A n \in 1..Len(Enabled(list)) : g[n] = Placed(g[n - 1], Enabled(list)[n])
<1> DEFINE Rec(g, m) == g = [n \in 0..m |-> IF n = 0 THEN <<>> ELSE Placed(g[n - 1], Enabled(list)[n])]
           D == {m \in Nat : \E g : Rec(g, m)}
<1>1. 0 \in D
  <2>1. Rec([n \in 0..0 |-> <<>>], 0)
    OBVIOUS
  <2> QED BY <2>1
<1>2. ASSUME NEW m \in D PROVE m + 1 \in D
  <2>1. PICK g : Rec(g, m)
    OBVIOUS
  <2> DEFINE h == [n \in 0..(m + 1) |-> IF n = m + 1 THEN Placed(g[m], Enabled(list)[m + 1]) ELSE g[n]]
  <2>2. ASSUME NEW n \in 0..(m + 1), n # 0
        PROVE  h[n] = Placed(h[n - 1], Enabled(list)[n])
    <3>1. n - 1 \in 0..m /\ m \in Nat
      BY <2>2
    <3>2. h[n - 1] = g[n - 1]
      BY <3>1
    <3>3. CASE n = m + 1
      BY <3>2, <3>3
    <3>4. CASE n # m + 1
      BY <2>1, <2>2, <3>2, <3>4
    <3> QED BY <3>3, <3>4
  <2>3. h[0] = <<>>
    BY <2>1
  <2>4. h = [n \in 0..(m + 1) |-> h[n]]
    OBVIOUS
  <2> HIDE DEF h
  <2>5. Rec(h, m + 1)
    BY <2>2, <2>3, <2>4
  <2>6. m + 1 \in Nat
    OBVIOUS
  <2> HIDE DEF Rec
  <2> QED BY <2>5, <2>6
<1> HIDE DEF D
<1>3. D = Nat
  BY <1>1, <1>2, SetInduction DEF D
<1>4. Len(Enabled(list)) \in Nat
  BY LenProperties
<1> DEFINE F == CHOOSE g : Rec(g, Len(Enabled(list)))
<1>5. Rec(F, Len(Enabled(list)))
  BY <1>3, <1>4 DEF D
<1>6. SortedRules(list) = F[Len(Enabled(list))]
  BY DEF SortedRules, Enabled
<1> HIDE DEF F
<1>7. F[0] = <<>> /\ \A n \in 1..Len(Enabled(list)) : F[n] = Placed(F[n - 1], Enabled(list)[n])
  BY <1>4, <1>5
<1> QED BY <1>6, <1>7

(* The lengths that a pattern can have matched, letter by letter.           *)
LEMMA Globbing ==
  ASSUME NEW S, NEW p \in Seq(S), NEW t, NEW from
  PROVE  \E g : /\ GlobOf(p, t, from, g)
                /\ (Glob(p, t, from) <=> Len(t) \in g[Len(p)])
<1> DEFINE Rec(g, m) == g = [n \in 0..m |-> IF n = 0 THEN from ELSE GlobStep(g[n - 1], t, p[n])]
           D == {m \in Nat : \E g : Rec(g, m)}
<1>1. 0 \in D
  <2>1. Rec([n \in 0..0 |-> from], 0)
    OBVIOUS
  <2> QED BY <2>1
<1>2. ASSUME NEW m \in D PROVE m + 1 \in D
  <2>1. PICK g : Rec(g, m)
    OBVIOUS
  <2> DEFINE h == [n \in 0..(m + 1) |-> IF n = m + 1 THEN GlobStep(g[m], t, p[m + 1]) ELSE g[n]]
  <2>2. ASSUME NEW n \in 0..(m + 1), n # 0
        PROVE  h[n] = GlobStep(h[n - 1], t, p[n])
    <3>1. n - 1 \in 0..m /\ m \in Nat
      BY <2>2
    <3>2. h[n - 1] = g[n - 1]
      BY <3>1
    <3>3. CASE n = m + 1
      BY <3>2, <3>3
    <3>4. CASE n # m + 1
      BY <2>1, <2>2, <3>2, <3>4
    <3> QED BY <3>3, <3>4
  <2>3. h[0] = from
    BY <2>1
  <2>4. h = [n \in 0..(m + 1) |-> h[n]]
    OBVIOUS
  <2> HIDE DEF h
  <2>5. Rec(h, m + 1)
    BY <2>2, <2>3, <2>4
  <2>6. m + 1 \in Nat
    OBVIOUS
  <2> HIDE DEF Rec
  <2> QED BY <2>5, <2>6
<1> HIDE DEF D
<1>3. D = Nat
  BY <1>1, <1>2, SetInduction DEF D
<1>4. Len(p) \in Nat
  BY LenProperties
<1> DEFINE F == CHOOSE g : Rec(g, Len(p))
<1>5. Rec(F, Len(p))
  BY <1>3, <1>4 DEF D
<1>6. (Glob(p, t, from) <=> Len(t) \in F[Len(p)])
  BY DEF Glob, GlobStep
<1> HIDE DEF F
<1>7. F[0] = from /\ \A n \in 1..Len(p) : F[n] = GlobStep(F[n - 1], t, p[n])
  BY <1>4, <1>5
<1> QED BY <1>6, <1>7 DEF GlobOf

(* How far a text has come after each letter of a pattern.                   *)
LEMMA Reaching ==
  ASSUME NEW S, NEW p \in Seq(S), NEW stretch, NEW start
  PROVE  \E g : /\ ReachOf(p, stretch, start, g)
                /\ Reached(p, stretch, start) = g
<1> DEFINE Rec(g, m) == g = [n \in 0..m |-> IF n = 0 THEN start ELSE IF p[n] = "*" THEN stretch[n] ELSE g[n - 1] + 1]
           D == {m \in Nat : \E g : Rec(g, m)}
<1>1. 0 \in D
  <2>1. Rec([n \in 0..0 |-> start], 0)
    OBVIOUS
  <2> QED BY <2>1
<1>2. ASSUME NEW m \in D PROVE m + 1 \in D
  <2>1. PICK g : Rec(g, m)
    OBVIOUS
  <2> DEFINE h == [n \in 0..(m + 1) |-> IF n = m + 1 THEN IF p[m + 1] = "*" THEN stretch[m + 1] ELSE g[m] + 1 ELSE g[n]]
  <2>2. ASSUME NEW n \in 0..(m + 1), n # 0
        PROVE  h[n] = IF p[n] = "*" THEN stretch[n] ELSE h[n - 1] + 1
    <3>1. n - 1 \in 0..m /\ m \in Nat
      BY <2>2
    <3>2. h[n - 1] = g[n - 1]
      BY <3>1
    <3>3. CASE n = m + 1
      BY <3>2, <3>3
    <3>4. CASE n # m + 1
      BY <2>1, <2>2, <3>2, <3>4
    <3> QED BY <3>3, <3>4
  <2>3. h[0] = start
    BY <2>1
  <2>4. h = [n \in 0..(m + 1) |-> h[n]]
    OBVIOUS
  <2> HIDE DEF h
  <2>5. Rec(h, m + 1)
    BY <2>2, <2>3, <2>4
  <2>6. m + 1 \in Nat
    OBVIOUS
  <2> HIDE DEF Rec
  <2> QED BY <2>5, <2>6
<1> HIDE DEF D
<1>3. D = Nat
  BY <1>1, <1>2, SetInduction DEF D
<1>4. Len(p) \in Nat
  BY LenProperties
<1> DEFINE F == CHOOSE g : Rec(g, Len(p))
<1>5. Rec(F, Len(p))
  BY <1>3, <1>4 DEF D
<1>6. Reached(p, stretch, start) = F
  BY DEF Reached
<1> HIDE DEF F
<1>7. F[0] = start /\ \A n \in 1..Len(p) : F[n] = IF p[n] = "*" THEN stretch[n] ELSE F[n - 1] + 1
  BY <1>4, <1>5
<1> QED BY <1>6, <1>7 DEF ReachOf

(* A run on the first k rules is the run on all of them, as far as it came. *)
LEMMA RunOnPrefix ==
  ASSUME NEW S, NEW used \in Seq(S), NEW f, NEW g, NEW k \in 0..Len(used), RunOf(used, f, g)
  PROVE  RunOnRequest(SubSeq(used, 1, k), f) = g[k]
<1> DEFINE part == SubSeq(used, 1, k)
<1>1. /\ Len(used) \in Nat /\ k \in Nat /\ part \in Seq(S) /\ Len(part) = k
      /\ \A n \in 1..k : n \in 1..Len(used) /\ part[n] = used[n]
  BY LenProperties
<1> HIDE DEF part
<1>2. PICK h : /\ h[0] = Begun(f) /\ RunOnRequest(part, f) = h[Len(part)]
               /\ \A n \in 1..Len(part) : h[n] = ApplyToRequest(h[n - 1], part[n])
  <2>1. PICK h : /\ RunOf(part, f, h)
                /\ RunOnRequest(part, f) = h[Len(part)]
    BY <1>1, RulesOfRequest
  <2> QED BY <2>1 DEF RunOf
<1> DEFINE D == {n \in Nat : n <= k => h[n] = g[n]}
<1>3. 0 \in D
  BY <1>2 DEF RunOf
<1>4. ASSUME NEW n \in D PROVE n + 1 \in D
  <2>1. n \in Nat /\ (n + 1) - 1 = n
    OBVIOUS
  <2>2. ASSUME n + 1 <= k PROVE h[n + 1] = g[n + 1]
    <3>1. n + 1 \in 1..k /\ n <= k
      BY <1>1, <2>1, <2>2
    <3>2. h[n] = g[n]
      BY <3>1
    <3>3. h[n + 1] = ApplyToRequest(h[n], part[n + 1]) /\ g[n + 1] = ApplyToRequest(g[n], used[n + 1])
      BY <1>1, <1>2, <2>1, <3>1 DEF RunOf
    <3> QED BY <1>1, <3>1, <3>2, <3>3
  <2> QED BY <2>1, <2>2
<1> HIDE DEF D
<1>5. D = Nat
  BY <1>3, <1>4, SetInduction DEF D
<1> QED BY <1>1, <1>2, <1>5 DEF D, part

LEMMA RunOnOneMore ==
  ASSUME NEW S, NEW used \in Seq(S), NEW r \in S, NEW f
  PROVE  RunOnRequest(Append(used, r), f) = ApplyToRequest(RunOnRequest(used, f), r)
<1> DEFINE more == Append(used, r)
<1>1. /\ Len(used) \in Nat /\ more \in Seq(S) /\ Len(more) = Len(used) + 1 /\ more[Len(more)] = r
      /\ \A n \in 1..Len(used) : more[n] = used[n]
  BY LenProperties, AppendProperties
<1> HIDE DEF more
<1>2. SubSeq(more, 1, Len(used)) = used /\ SubSeq(more, 1, Len(more)) = more
  <2>1. SubSeq(more, 1, Len(used)) = used
    <3> DEFINE cut == SubSeq(more, 1, Len(used))
    <3>1. cut \in Seq(S) /\ Len(cut) = Len(used) /\ \A n \in 1..Len(used) : cut[n] = used[n]
      BY <1>1
    <3> HIDE DEF cut
    <3>2. cut = used
      BY <3>1, SeqEqual
    <3> QED BY <3>2 DEF cut
  <2>2. SubSeq(more, 1, Len(more)) = more
    <3> DEFINE cut == SubSeq(more, 1, Len(more))
    <3>1. cut \in Seq(S) /\ Len(cut) = Len(more) /\ \A n \in 1..Len(more) : cut[n] = more[n]
      BY <1>1
    <3> HIDE DEF cut
    <3>2. cut = more
      BY <1>1, <3>1, SeqEqual
    <3> QED BY <3>2 DEF cut
  <2> QED BY <2>1, <2>2
<1>3. PICK g : /\ g[0] = Begun(f) /\ RunOnRequest(more, f) = g[Len(more)]
               /\ \A n \in 1..Len(more) : g[n] = ApplyToRequest(g[n - 1], more[n])
  <2>1. PICK g : /\ RunOf(more, f, g)
                /\ RunOnRequest(more, f) = g[Len(more)]
    BY <1>1, RulesOfRequest
  <2> QED BY <2>1 DEF RunOf
<1>4. Len(used) \in 0..Len(more) /\ Len(more) \in 1..Len(more) /\ Len(more) - 1 = Len(used)
  BY <1>1
<1>5. RunOnRequest(used, f) = g[Len(used)]
  <2> DEFINE k == Len(used)
  <2>1. k \in 0..Len(more) /\ more \in Seq(S) /\ RunOf(more, f, g)
    BY <1>1, <1>3, <1>4 DEF RunOf
  <2>2. SubSeq(more, 1, k) = used
    BY <1>2
  <2> HIDE DEF k
  <2>3. RunOnRequest(SubSeq(more, 1, k), f) = g[k]
    BY <2>1, RunOnPrefix
  <2> QED BY <2>2, <2>3 DEF k
<1> QED BY <1>1, <1>3, <1>4, <1>5 DEF more

LEMMA RunOnNone == ASSUME NEW f PROVE RunOnRequest(<<>>, f) = Begun(f)
<1>1. <<>> \in Seq({}) /\ Len(<<>>) = 0
  OBVIOUS
<1>2. PICK g : g[0] = Begun(f) /\ RunOnRequest(<<>>, f) = g[Len(<<>>)]
  <2>1. PICK g : /\ RunOf(<<>>, f, g)
                /\ RunOnRequest(<<>>, f) = g[Len(<<>>)]
    BY <1>1, RulesOfRequest
  <2> QED BY <2>1 DEF RunOf
<1> QED BY <1>1, <1>2

-----------------------------------------------------------------------------
(* What a rule may have made of the flow f, where hosts is the set of those *)
(* that rules set.                                                          *)
WellAddressed(req, hosts) ==
  /\ Record(req, {"url", "host", "path", "method", "header", "body"})
  /\ Parses(req.url) => req.path = req.url.path /\ req.host \in {req.url.host} \cup hosts

FromFlow(g, f, hosts) ==
  /\ Record(g, {"request", "response", "modified"})
  /\ WellAddressed(g.request, hosts)
  /\ g = f \/ g.modified = TRUE

Engine(s, f, hosts) ==
  /\ Record(s, {"flow", "verdict"})
  /\ FromFlow(s.flow, f, hosts)
  /\ s.verdict.is = "continue" => s.flow.response = f.response

LEMMA EngineBegins == ASSUME NEW f, AFlow(f), NEW hosts PROVE Engine(Begun(f), f, hosts)
<1>1. FromFlow(f, f, hosts)
  BY DEF AFlow, WellAddressed, FromFlow
<1>2. Record(Begun(f), {"flow", "verdict"})
  BY DEF Record, Begun
<1> QED BY <1>1, <1>2 DEF Engine, Begun

LEMMA LeavesFlow ==
  ASSUME NEW g, NEW f, NEW hosts, FromFlow(g, f, hosts), NEW new, WellAddressed(new, hosts)
  PROVE  FromFlow(Modified(g, new), f, hosts) /\ Modified(g, new).response = g.response
<1> DEFINE m == Modified(g, new)
<1>1. m = [g EXCEPT !.request = new, !.modified = TRUE] /\ Record(g, {"request", "response", "modified"})
  BY DEF FromFlow, Modified
<1> HIDE DEF m
<1>2. m.request = new /\ m.response = g.response /\ m.modified = TRUE /\ Record(m, {"request", "response", "modified"})
  BY <1>1 DEF Record
<1> QED BY <1>2 DEF FromFlow, m

LEMMA ActionLeaves ==
  ASSUME NEW s, NEW f, NEW hosts, Engine(s, f, hosts), NEW new, WellAddressed(new, hosts)
  PROVE  Engine([s EXCEPT !.flow = Modified(s.flow, new)], f, hosts)
<1> DEFINE m == Modified(s.flow, new)
<1>1. FromFlow(m, f, hosts) /\ m.response = s.flow.response
  BY LeavesFlow DEF Engine
<1> HIDE DEF m
<1> DEFINE z == [s EXCEPT !.flow = m]
<1>2. z.flow = m /\ z.verdict = s.verdict /\ Record(z, {"flow", "verdict"})
  BY DEF Engine, Record
<1> HIDE DEF z
<1> QED BY <1>1, <1>2 DEF Engine, z, m

LEMMA NewUrl ==
  ASSUME NEW req, NEW hosts, WellAddressed(req, hosts), NEW url
  PROVE  WellAddressed(WithUrl(req, url), hosts)
<1> DEFINE new == WithUrl(req, url)
<1>1. new.url = url /\ new.host = url.host /\ new.path = url.path
      /\ Record(new, {"url", "host", "path", "method", "header", "body"})
  BY DEF WellAddressed, WithUrl, Record
<1> HIDE DEF new
<1> QED BY <1>1 DEF WellAddressed, new

LEMMA SameUrl ==
  ASSUME NEW req, NEW hosts, WellAddressed(req, hosts),
         NEW new, Record(new, {"url", "host", "path", "method", "header", "body"}),
         new.url = req.url, new.path = req.path, new.host = req.host \/ new.host \in hosts
  PROVE  WellAddressed(new, hosts)
  BY DEF WellAddressed

(* Nothing happens once a rule has decided.                                 *)
LEMMA NothingAfter == ASSUME NEW s, NEW a, s.verdict.is # "continue" PROVE RequestAction(s, a) = s
  BY DEF RequestAction

(* One action of a rule.  A host is only set by an action that says so.     *)
LEMMA ActionKeeps ==
  ASSUME NEW s, NEW f, NEW hosts, Engine(s, f, hosts), NEW a,
         a.type = "modify_headers" /\ HostSet(a) => a.value \in hosts
  PROVE  Engine(RequestAction(s, a), f, hosts)
<1> DEFINE g == s.flow
           req == g.request
           fields == {"url", "host", "path", "method", "header", "body"}
           Does(new) == RequestAction(s, a) = [s EXCEPT !.flow = Modified(s.flow, new)]
<1>1. FromFlow(g, f, hosts) /\ WellAddressed(req, hosts) /\ Record(req, fields) /\ Record(s, {"flow", "verdict"})
  BY DEF Engine, FromFlow, WellAddressed
<1>2. ASSUME NEW new, WellAddressed(new, hosts), Does(new) PROVE Engine(RequestAction(s, a), f, hosts)
  BY <1>2, ActionLeaves
<1>3. CASE RequestAction(s, a) = s
  BY <1>3
<1>4. CASE s.verdict.is # "continue"
  <2>1. RequestAction(s, a) = s
    BY <1>4, NothingAfter
  <2> QED BY <1>3, <2>1
<1> SUFFICES ASSUME s.verdict.is = "continue", RequestAction(s, a) # s PROVE Engine(RequestAction(s, a), f, hosts)
  BY <1>3, <1>4
<1>5. CASE a.type = "block"
  <2> DEFINE v == [is |-> "abort", status |-> IF a.status = "" THEN "403" ELSE a.status]
             z == [s EXCEPT !.verdict = v]
  <2>1. RequestAction(s, a) = z /\ v.is = "abort"
    BY <1>5 DEF RequestAction
  <2> HIDE DEF v
  <2>2. z.flow = s.flow /\ z.verdict = v /\ Record(z, {"flow", "verdict"})
    BY <1>1 DEF Record
  <2> HIDE DEF z
  <2> QED BY <1>1, <2>1, <2>2 DEF Engine
<1>6. CASE a.type = "auto_respond"
  <2> DEFINE m == AutoResponded(g, a)
             v == [is |-> "mock", status |-> ""]
             z == [flow |-> m, verdict |-> v]
  <2>1. RequestAction(s, a) = z /\ v.is = "mock"
    BY <1>6 DEF RequestAction
  <2>2. PICK r : m = [g EXCEPT !.response = <<r>>, !.modified = TRUE]
    BY DEF AutoResponded
  <2> HIDE DEF m, v
  <2>3. m.request = req /\ m.modified = TRUE /\ Record(m, {"request", "response", "modified"})
    BY <1>1, <2>2 DEF FromFlow, Record
  <2>4. FromFlow(m, f, hosts)
    BY <1>1, <2>3 DEF FromFlow
  <2>5. z.flow = m /\ z.verdict = v /\ Record(z, {"flow", "verdict"})
    BY DEF Record
  <2> HIDE DEF z
  <2> QED BY <2>1, <2>4, <2>5 DEF Engine
<1>7. CASE a.type = "redirect"
  <2>1. Does(Redirected(req, a.to))
    BY <1>7 DEF RequestAction
  <2>2. WellAddressed(Redirected(req, a.to), hosts)
    BY <1>1, NewUrl DEF Redirected
  <2> QED BY <1>2, <2>1, <2>2
<1>8. CASE a.type = "modify_url"
  <2>1. Does(UrlModified(req, a.to))
    BY <1>8 DEF RequestAction
  <2>2. WellAddressed(UrlModified(req, a.to), hosts)
    <3>1. CASE Parses(a.to)
      BY <1>1, <3>1, NewUrl DEF UrlModified
    <3>2. CASE ~Parses(a.to)
      <4> DEFINE new == [req EXCEPT !.url = a.to]
      <4>1. new.url = a.to /\ Record(new, fields)
        BY <1>1 DEF Record
      <4> HIDE DEF new
      <4>2. WellAddressed(new, hosts)
        BY <3>2, <4>1 DEF WellAddressed
      <4> QED BY <3>2, <4>2 DEF UrlModified, new
    <3> QED BY <3>1, <3>2
  <2> QED BY <1>2, <2>1, <2>2
<1>9. CASE a.type = "modify_method"
  <2> DEFINE new == [req EXCEPT !.method = a.method]
  <2>1. Does(new)
    BY <1>9 DEF RequestAction
  <2>2. new.url = req.url /\ new.path = req.path /\ new.host = req.host /\ Record(new, fields)
    BY <1>1 DEF Record
  <2> HIDE DEF new
  <2>3. WellAddressed(new, hosts)
    BY <1>1, <2>2, SameUrl
  <2> QED BY <1>2, <2>1, <2>3
<1>10. CASE a.type = "modify_headers"
  <2> DEFINE new == [req EXCEPT !.header = HeaderOps(req.header, a), !.host = IF HostSet(a) THEN a.value ELSE @]
  <2>1. Does(new)
    BY <1>10 DEF RequestAction
  <2>2. /\ new.url = req.url /\ new.path = req.path /\ Record(new, fields)
        /\ new.host = IF HostSet(a) THEN a.value ELSE req.host
    BY <1>1 DEF Record
  <2> HIDE DEF new
  <2>3. WellAddressed(new, hosts)
    BY <1>1, <1>10, <2>2, SameUrl
  <2> QED BY <1>2, <2>1, <2>3
<1>11. CASE a.type = "modify_body"
  <2> DEFINE new == [req EXCEPT !.body = Replaced(@, a.from, a.to)]
  <2>1. Does(new)
    BY <1>11 DEF RequestAction
  <2>2. new.url = req.url /\ new.path = req.path /\ new.host = req.host /\ Record(new, fields)
    BY <1>1 DEF Record
  <2> HIDE DEF new
  <2>3. WellAddressed(new, hosts)
    BY <1>1, <2>2, SameUrl
  <2> QED BY <1>2, <2>1, <2>3
<1>12. CASE a.type = "replace_body"
  <2> DEFINE new == [req EXCEPT !.body = a.body,
                                !.header["Content-Type"] = IF a.contentType = "" THEN @ ELSE a.contentType]
  <2>1. Does(new)
    BY <1>12 DEF RequestAction
  <2>2. new.url = req.url /\ new.path = req.path /\ new.host = req.host /\ Record(new, fields)
    BY <1>1 DEF Record
  <2> HIDE DEF new
  <2>3. WellAddressed(new, hosts)
    BY <1>1, <2>2, SameUrl
  <2> QED BY <1>2, <2>1, <2>3
<1>13. CASE a.type \notin {"block", "auto_respond", "redirect", "modify_url", "modify_method", "modify_headers",
                           "modify_body", "replace_body"}
  <2>1. RequestAction(s, a) = s
    BY <1>13 DEF RequestAction
  <2> QED BY <1>3, <2>1
<1> QED BY <1>5, <1>6, <1>7, <1>8, <1>9, <1>10, <1>11, <1>12, <1>13

(* A rule keeps it too, and one after another.                              *)
LEMMA RuleKeeps ==
  ASSUME NEW s, NEW f, NEW hosts, Engine(s, f, hosts), NEW r, r.actions \in Seq(ToSet(r.actions)),
         \A a \in ToSet(r.actions) : a.type = "modify_headers" /\ HostSet(a) => a.value \in hosts
  PROVE  Engine(ApplyToRequest(s, r), f, hosts)
<1>1. Len(r.actions) \in Nat /\ \A n \in 1..Len(r.actions) : r.actions[n] \in ToSet(r.actions)
  BY LenProperties, ElementOfSeq
<1>2. PICK g : /\ g[0] = s
               /\ ApplyToRequest(s, r) =
                    (IF s.verdict.is = "continue" /\ Matches(r, s.flow) THEN g[Len(r.actions)] ELSE s)
               /\ \A n \in 1..Len(r.actions) : g[n] = RequestAction(g[n - 1], r.actions[n])
  <2>1. PICK g : /\ ActionsOf(r, s, g)
                /\ ApplyToRequest(s, r) =
                  (IF s.verdict.is = "continue" /\ Matches(r, s.flow) THEN g[Len(r.actions)] ELSE s)
    BY <1>1, ActionsOnRequest
  <2> QED BY <2>1 DEF ActionsOf
<1> DEFINE D == {n \in Nat : n <= Len(r.actions) => Engine(g[n], f, hosts)}
<1>3. 0 \in D
  BY <1>2
<1>4. ASSUME NEW n \in D PROVE n + 1 \in D
  <2>1. n \in Nat /\ (n + 1) - 1 = n
    OBVIOUS
  <2>2. ASSUME n + 1 <= Len(r.actions) PROVE Engine(g[n + 1], f, hosts)
    <3>1. n + 1 \in 1..Len(r.actions) /\ n <= Len(r.actions)
      BY <1>1, <2>1, <2>2
    <3>2. Engine(g[n], f, hosts)
      BY <3>1
    <3>3. g[n + 1] = RequestAction(g[n], r.actions[n + 1])
      BY <1>2, <2>1, <3>1
    <3> HIDE DEF D
    <3>4. r.actions[n + 1] \in ToSet(r.actions)
      BY <1>1, <3>1
    <3> DEFINE a == r.actions[n + 1]
    <3>5. a.type = "modify_headers" /\ HostSet(a) => a.value \in hosts
      BY <3>4
    <3> HIDE DEF a
    <3>6. Engine(RequestAction(g[n], a), f, hosts)
      BY <3>2, <3>5, ActionKeeps
    <3> QED BY <3>3, <3>6 DEF a
  <2> QED BY <2>1, <2>2
<1> HIDE DEF D
<1>5. D = Nat
  BY <1>3, <1>4, SetInduction DEF D
<1>6. Engine(g[Len(r.actions)], f, hosts)
  BY <1>1, <1>5 DEF D
<1> QED BY <1>2, <1>6

(* A rule that asks for the response does not match before there is one.    *)
LEMMA NoResponseNoMatch ==
  ASSUME NEW r, OfResponse(r), NEW f, f.response = <<>>
  PROVE  ~Matches(r, f)
<1>1. PICK i \in DOMAIN r.conditions : r.conditions[i].field \in {"response_status", "response_header"}
  BY DEF OfResponse
<1>2. FieldValue(r.conditions[i], f) = <<>>
  BY <1>1 DEF FieldValue
<1>3. ~EvalCondition(r.conditions[i], f)
  BY <1>2 DEF EvalCondition
<1>4. r.conditions # <<>>
  <2>1. DOMAIN <<>> = {}
    OBVIOUS
  <2> QED BY <1>1, <2>1
<1> QED BY <1>3, <1>4 DEF Matches, OfResponse

(* A verdict that ends the run stays.                                       *)
LEMMA VerdictStays ==
  ASSUME NEW S, NEW used \in Seq(S), NEW g, NEW k \in 0..Len(used), g[k].verdict.is # "continue",
         \A n \in 1..Len(used) : g[n] = ApplyToRequest(g[n - 1], used[n])
  PROVE  g[Len(used)] = g[k]
<1>1. Len(used) \in Nat
  BY LenProperties
<1> DEFINE D == {n \in Nat : k + n <= Len(used) => g[k + n] = g[k]}
<1>2. 0 \in D
  BY <1>1
<1>3. ASSUME NEW n \in D PROVE n + 1 \in D
  <2>1. n \in Nat /\ k + (n + 1) - 1 = k + n
    BY <1>1
  <2>2. ASSUME k + (n + 1) <= Len(used) PROVE g[k + (n + 1)] = g[k]
    <3> DEFINE m == k + (n + 1)
    <3>1. m \in 1..Len(used) /\ m - 1 = k + n /\ k + n <= Len(used)
      BY <1>1, <2>1, <2>2
    <3>2. g[k + n] = g[k]
      BY <3>1
    <3> HIDE DEF m
    <3>3. g[m] = ApplyToRequest(g[k], used[m])
      BY <3>1, <3>2
    <3> QED BY <3>3 DEF ApplyToRequest, m
  <2> QED BY <2>1, <2>2
<1> HIDE DEF D
<1>4. D = Nat
  BY <1>2, <1>3, SetInduction DEF D
<1>5. Len(used) - k \in D /\ k + (Len(used) - k) = Len(used)
  BY <1>1, <1>4
<1> QED BY <1>1, <1>5 DEF D

(* Every state of a run is one of the engine's.                             *)
LEMMA RunKeeps ==
  ASSUME NEW used \in Seq(WrittenRules), NEW f, AFlow(f), NEW g, g[0] = Begun(f),
         \A n \in 1..Len(used) : g[n] = ApplyToRequest(g[n - 1], used[n])
  PROVE  \A n \in 0..Len(used) : Engine(g[n], f, HostsSet(used))
<1> DEFINE hosts == HostsSet(used)
<1>1. Len(used) \in Nat /\ DOMAIN used = 1..Len(used) /\ \A n \in 1..Len(used) : used[n] \in WrittenRules
  BY LenProperties, ElementOfSeq
<1>2. ASSUME NEW n \in 1..Len(used), NEW a \in ToSet(used[n].actions), a.type = "modify_headers", HostSet(a)
      PROVE  a.value \in hosts
  BY <1>1, <1>2 DEF HostsSet
<1> HIDE DEF hosts
<1> DEFINE D == {n \in Nat : n <= Len(used) => Engine(g[n], f, hosts)}
<1>3. 0 \in D
  BY EngineBegins
<1>4. ASSUME NEW n \in D PROVE n + 1 \in D
  <2>1. n \in Nat /\ (n + 1) - 1 = n
    OBVIOUS
  <2>2. ASSUME n + 1 <= Len(used) PROVE Engine(g[n + 1], f, hosts)
    <3> DEFINE r == used[n + 1]
    <3>1. n + 1 \in 1..Len(used) /\ n <= Len(used)
      BY <1>1, <2>1, <2>2
    <3>2. Engine(g[n], f, hosts) /\ g[n + 1] = ApplyToRequest(g[n], r)
      BY <2>1, <3>1
    <3>3. r \in WrittenRules /\ \A a \in ToSet(r.actions) : a.type = "modify_headers" /\ HostSet(a) => a.value \in hosts
      BY <1>1, <1>2, <3>1
    <3> HIDE DEF r, D
    <3>4. r.actions \in Seq(ToSet(r.actions))
      BY <3>3, RulesArePlaced
    <3>5. Engine(ApplyToRequest(g[n], r), f, hosts)
      BY <3>2, <3>3, <3>4, RuleKeeps
    <3> QED BY <3>2, <3>5
  <2> QED BY <2>1, <2>2
<1> HIDE DEF D
<1>5. D = Nat
  BY <1>3, <1>4, SetInduction DEF D
<1>6. \A n \in 0..Len(used) : n \in D /\ n <= Len(used)
  BY <1>1, <1>5
<1> QED BY <1>6 DEF D, hosts

(* Without the rules that ask for a response, which is not there yet.       *)
LEMMA RunWithout ==
  ASSUME NEW used \in Seq(WrittenRules), NEW f, AFlow(f), f.response = <<>>, NEW T,
         \A r \in ToSet(used) : r \notin T => OfResponse(r)
  PROVE  RunOnRequest(used, f) = RunOnRequest(Only(used, T), f)
<1>1. Len(used) \in Nat /\ DOMAIN used = 1..Len(used) /\ \A n \in 1..Len(used) : used[n] \in WrittenRules
  BY LenProperties, ElementOfSeq
<1>2. PICK g : /\ g[0] = Begun(f) /\ RunOnRequest(used, f) = g[Len(used)]
               /\ \A n \in 1..Len(used) : g[n] = ApplyToRequest(g[n - 1], used[n])
  <2>1. PICK g : /\ RunOf(used, f, g)
                /\ RunOnRequest(used, f) = g[Len(used)]
    BY RulesOfRequest
  <2> QED BY <2>1 DEF RunOf
<1>3. PICK h : /\ h[0] = <<>> /\ Only(used, T) = h[Len(used)]
               /\ \A n \in 1..Len(used) : h[n] = Selected(used, T, h[n - 1], n)
  BY OnlyIsDefined
<1>4. \A n \in 0..Len(used) : Engine(g[n], f, HostsSet(used))
  <2>1. g[0] = Begun(f) /\ \A n \in 1..Len(used) : g[n] = ApplyToRequest(g[n - 1], used[n])
    BY <1>2
  <2> QED BY <2>1, RunKeeps
<1> DEFINE D == {n \in Nat : n <= Len(used) => h[n] \in Seq(WrittenRules) /\ RunOnRequest(h[n], f) = g[n]}
<1>5. 0 \in D
  <2>1. h[0] = <<>> /\ <<>> \in Seq(WrittenRules) /\ RunOnRequest(<<>>, f) = g[0]
    BY <1>2, <1>3, RunOnNone
  <2> QED BY <2>1
<1>6. ASSUME NEW n \in D PROVE n + 1 \in D
  <2>1. n \in Nat /\ (n + 1) - 1 = n
    OBVIOUS
  <2>2. ASSUME n + 1 <= Len(used) PROVE h[n + 1] \in Seq(WrittenRules) /\ RunOnRequest(h[n + 1], f) = g[n + 1]
    <3> DEFINE m == n + 1  r == used[m]
    <3>1. m \in 1..Len(used) /\ m - 1 = n /\ n <= Len(used) /\ n \in 0..Len(used)
      BY <1>1, <2>1, <2>2
    <3>2. h[n] \in Seq(WrittenRules) /\ RunOnRequest(h[n], f) = g[n]
      BY <3>1
    <3> HIDE DEF D, m
    <3>3. h[m] = Selected(used, T, h[n], m) /\ g[m] = ApplyToRequest(g[n], r) /\ r \in WrittenRules /\ r \in ToSet(used)
      BY <1>1, <1>2, <1>3, <3>1 DEF ToSet
    <3>4. CASE r \in T
      <4>1. h[m] = Append(h[n], r)
        BY <3>3, <3>4 DEF Selected
      <4> HIDE DEF r
      <4>2. RunOnRequest(Append(h[n], r), f) = ApplyToRequest(RunOnRequest(h[n], f), r)
        BY <3>2, <3>3, RunOnOneMore
      <4>3. Append(h[n], r) \in Seq(WrittenRules)
        BY <3>2, <3>3, AppendProperties
      <4> QED BY <3>2, <3>3, <4>1, <4>2, <4>3 DEF m
    <3>5. CASE r \notin T
      <4>1. h[m] = h[n]
        BY <3>3, <3>5 DEF Selected
      <4> HIDE DEF r
      <4>2. OfResponse(r)
        BY <3>3, <3>5
      <4>3. g[n].verdict.is = "continue" => g[n].flow.response = <<>>
        BY <1>4, <3>1 DEF Engine
      <4>4. ApplyToRequest(g[n], r) = g[n]
        BY <4>2, <4>3, NoResponseNoMatch DEF ApplyToRequest
      <4> QED BY <3>2, <3>3, <4>1, <4>4 DEF m
    <3> QED BY <3>4, <3>5
  <2> QED BY <2>1, <2>2
<1> HIDE DEF D
<1>7. D = Nat
  BY <1>5, <1>6, SetInduction DEF D
<1> QED BY <1>1, <1>2, <1>3, <1>7 DEF D

(* What the rules make of a request.                                        *)
LEMMA WellDecides ==
  ASSUME SortedRules(rules) \in Seq(WrittenRules), NEW f, AFlow(f)
  PROVE  WellDecided(SortedRules(rules), f)
<1> DEFINE used == SortedRules(rules)
           last == RulesOnRequest(rules, f)
<1>1. used \in Seq(WrittenRules) /\ last = RunOnRequest(used, f)
  BY DEF RulesOnRequest
<1> HIDE DEF used, last
<1>2. Len(used) \in Nat /\ DOMAIN used = 1..Len(used)
  BY <1>1, LenProperties
<1>3. PICK g : /\ g[0] = Begun(f) /\ RunOnRequest(used, f) = g[Len(used)]
               /\ \A n \in 1..Len(used) : g[n] = ApplyToRequest(g[n - 1], used[n])
  <2>1. PICK g : /\ RunOf(used, f, g)
                /\ RunOnRequest(used, f) = g[Len(used)]
    BY <1>1, RulesOfRequest
  <2> QED BY <2>1 DEF RunOf
<1>4. Engine(last, f, HostsSet(used))
  BY <1>1, <1>2, <1>3, RunKeeps
<1>5. ASSUME f.response = <<>> PROVE last = RunOnRequest(Only(used, {r \in ToSet(used) : ~OfResponse(r)}), f)
  <2> DEFINE T == {r \in ToSet(used) : ~OfResponse(r)}
  <2>1. \A r \in ToSet(used) : r \notin T => OfResponse(r)
    OBVIOUS
  <2> HIDE DEF T
  <2>2. RunOnRequest(used, f) = RunOnRequest(Only(used, T), f)
    BY <1>1, <1>5, <2>1, RunWithout
  <2> QED BY <1>1, <2>2 DEF T
<1>6. ASSUME NEW k \in DOMAIN used, RunOnRequest(SubSeq(used, 1, k), f).verdict.is # "continue"
      PROVE  RunOnRequest(SubSeq(used, 1, k), f) = last
  <2>1. k \in 0..Len(used)
    BY <1>2
  <2>2. RunOnRequest(SubSeq(used, 1, k), f) = g[k]
    <3>1. RunOf(used, f, g)
      BY <1>3 DEF RunOf
    <3> QED BY <1>1, <2>1, <3>1, RunOnPrefix
  <2>3. g[Len(used)] = g[k]
    <3>1. /\ g[k].verdict.is # "continue"
          /\ \A n \in 1..Len(used) : g[n] = ApplyToRequest(g[n - 1], used[n])
      BY <1>3, <1>6, <2>2
    <3> QED BY <1>1, <2>1, <3>1, VerdictStays
  <2> QED BY <1>1, <1>3, <2>2, <2>3
<1>7. /\ Parses(last.flow.request.url) =>
           /\ last.flow.request.path = last.flow.request.url.path
           /\ last.flow.request.host \in {last.flow.request.url.host} \cup HostsSet(used)
      /\ ~last.flow.modified => last.flow = f
  BY <1>4 DEF Engine, FromFlow, WellAddressed
<1> QED BY <1>5, <1>6, <1>7 DEF WellDecided, last, used

(* A response that rules act on: the request is left alone.                 *)
ActedOn(g, f) ==
  /\ Record(g, {"request", "response", "modified"})
  /\ g.request = f.request
  /\ g = f \/ g.modified = TRUE

LEMMA ActionAnswers ==
  ASSUME NEW g, NEW f, ActedOn(g, f), NEW a
  PROVE  ActedOn(ResponseAction(g, a), f)
<1> DEFINE Does(new) == ResponseAction(g, a) = [g EXCEPT !.response = <<new>>, !.modified = TRUE]
<1>1. ASSUME NEW new, Does(new) PROVE ActedOn(ResponseAction(g, a), f)
  <2> DEFINE z == [g EXCEPT !.response = <<new>>, !.modified = TRUE]
  <2>1. z.request = g.request /\ z.modified = TRUE /\ Record(z, {"request", "response", "modified"})
    BY DEF ActedOn, Record
  <2>2. ResponseAction(g, a) = z
    BY <1>1
  <2> HIDE DEF z
  <2> QED BY <2>1, <2>2 DEF ActedOn
<1>2. \/ ResponseAction(g, a) = g
      \/ \E new : Does(new)
  <2> DEFINE resp == g.response[1]
  <2>1. CASE a.type = "modify_status"
    <3>1. ResponseAction(g, a) = g \/ Does([resp EXCEPT !.status = a.status])
      BY <2>1 DEF ResponseAction
    <3> QED BY <3>1
  <2>2. CASE a.type = "modify_response_headers"
    <3>1. ResponseAction(g, a) = g \/ Does([resp EXCEPT !.header = HeaderOps(resp.header, a)])
      BY <2>2 DEF ResponseAction
    <3> QED BY <3>1
  <2>3. CASE a.type = "modify_response_body"
    <3>1. ResponseAction(g, a) = g \/ Does([resp EXCEPT !.body = Replaced(@, a.from, a.to)])
      BY <2>3 DEF ResponseAction
    <3> QED BY <3>1
  <2>4. CASE a.type \notin {"modify_status", "modify_response_headers", "modify_response_body"}
    BY <2>4 DEF ResponseAction
  <2> QED BY <2>1, <2>2, <2>3, <2>4
<1>3. CASE ResponseAction(g, a) = g
  BY <1>3
<1> QED BY <1>1, <1>2, <1>3

LEMMA RuleAnswers ==
  ASSUME NEW g, NEW f, ActedOn(g, f), NEW r, r.actions \in Seq(ToSet(r.actions))
  PROVE  ActedOn(ApplyToResponse(g, r), f)
<1>1. Len(r.actions) \in Nat
  BY LenProperties
<1>2. PICK h : /\ h[0] = g /\ ApplyToResponse(g, r) = (IF Matches(r, g) THEN h[Len(r.actions)] ELSE g)
               /\ \A n \in 1..Len(r.actions) : h[n] = ResponseAction(h[n - 1], r.actions[n])
  <2>1. PICK h : /\ RepliesOf(r, g, h)
                /\ ApplyToResponse(g, r) = (IF Matches(r, g) THEN h[Len(r.actions)] ELSE g)
    BY <1>1, ActionsOnResponse
  <2> QED BY <2>1 DEF RepliesOf
<1> DEFINE D == {n \in Nat : n <= Len(r.actions) => ActedOn(h[n], f)}
<1>3. 0 \in D
  BY <1>2
<1>4. ASSUME NEW n \in D PROVE n + 1 \in D
  <2>1. n \in Nat /\ (n + 1) - 1 = n
    OBVIOUS
  <2>2. ASSUME n + 1 <= Len(r.actions) PROVE ActedOn(h[n + 1], f)
    <3>1. n + 1 \in 1..Len(r.actions) /\ n <= Len(r.actions)
      BY <1>1, <2>1, <2>2
    <3>2. ActedOn(h[n], f) /\ h[n + 1] = ResponseAction(h[n], r.actions[n + 1])
      BY <1>2, <2>1, <3>1
    <3> HIDE DEF D
    <3>3. ActedOn(ResponseAction(h[n], r.actions[n + 1]), f)
      BY <3>2, ActionAnswers
    <3> QED BY <3>2, <3>3
  <2> QED BY <2>1, <2>2
<1> HIDE DEF D
<1>5. D = Nat
  BY <1>3, <1>4, SetInduction DEF D
<1>6. ActedOn(h[Len(r.actions)], f)
  BY <1>1, <1>5 DEF D
<1> QED BY <1>2, <1>6

LEMMA WellAnswers ==
  ASSUME SortedRules(rules) \in Seq(WrittenRules), NEW f, AFlow(f)
  PROVE  WellAnswered(f)
<1> DEFINE used == SortedRules(rules)
<1>0. used \in Seq(WrittenRules) /\ RulesOnResponse(rules, f) = (IF f.response = <<>> THEN f ELSE RunOnResponse(used, f))
  BY DEF RulesOnResponse
<1> HIDE DEF used
<1>1. Len(used) \in Nat /\ \A n \in 1..Len(used) : used[n] \in WrittenRules
  BY <1>0, LenProperties, ElementOfSeq
<1>2. PICK g : /\ g[0] = f /\ RunOnResponse(used, f) = g[Len(used)]
               /\ \A n \in 1..Len(used) : g[n] = ApplyToResponse(g[n - 1], used[n])
  <2>1. PICK g : /\ AnswersOf(used, f, g)
                /\ RunOnResponse(used, f) = g[Len(used)]
    BY <1>0, RulesOfResponse
  <2> QED BY <2>1 DEF AnswersOf
<1> DEFINE D == {n \in Nat : n <= Len(used) => ActedOn(g[n], f)}
<1>3. ActedOn(f, f)
  BY DEF ActedOn, AFlow
<1>4. 0 \in D
  BY <1>2, <1>3
<1>5. ASSUME NEW n \in D PROVE n + 1 \in D
  <2>1. n \in Nat /\ (n + 1) - 1 = n
    OBVIOUS
  <2>2. ASSUME n + 1 <= Len(used) PROVE ActedOn(g[n + 1], f)
    <3>1. n + 1 \in 1..Len(used) /\ n <= Len(used)
      BY <1>1, <2>1, <2>2
    <3>2. ActedOn(g[n], f) /\ g[n + 1] = ApplyToResponse(g[n], used[n + 1]) /\ used[n + 1] \in WrittenRules
      BY <1>1, <1>2, <2>1, <3>1
    <3> HIDE DEF D
    <3>3. used[n + 1].actions \in Seq(ToSet(used[n + 1].actions))
      BY <3>2, RulesArePlaced
    <3>4. ActedOn(ApplyToResponse(g[n], used[n + 1]), f)
      BY <3>2, <3>3, RuleAnswers
    <3> QED BY <3>2, <3>4
  <2> QED BY <2>1, <2>2
<1> HIDE DEF D
<1>6. D = Nat
  BY <1>4, <1>5, SetInduction DEF D
<1>7. ActedOn(g[Len(used)], f)
  BY <1>1, <1>6 DEF D
<1>8. ActedOn(RulesOnResponse(rules, f), f)
  BY <1>0, <1>2, <1>3, <1>7
<1> QED BY <1>8 DEF WellAnswered, ActedOn

-----------------------------------------------------------------------------
(* Sorting by insertion.                                                    *)
InRuleOrder(q, r) == q.priority < r.priority \/ (q.priority = r.priority /\ q.id < r.id)
Ordered(out) == \A i, j \in DOMAIN out : i < j => InRuleOrder(out[i], out[j])

(* The rules that stay before a new one are the first so many.              *)
LEMMA BeforeIt ==
  ASSUME NEW out \in Seq(WrittenRules), Ordered(out), NEW r \in WrittenRules
  PROVE  \E m \in 0..Len(out) :
           /\ Cardinality({i \in DOMAIN out : out[i].priority <= r.priority}) = m
           /\ \A i \in 1..Len(out) : out[i].priority <= r.priority <=> i <= m
<1> DEFINE Lower == {i \in DOMAIN out : out[i].priority <= r.priority}
<1>1. Len(out) \in Nat /\ DOMAIN out = 1..Len(out) /\ \A i \in 1..Len(out) : out[i] \in WrittenRules
  BY LenProperties, ElementOfSeq
<1>2. r.priority \in Int /\ \A i \in 1..Len(out) : out[i].priority \in Int
  BY <1>1, RulesArePlaced
<1>3. Lower \in SUBSET (1..Len(out)) /\ \A i \in 1..Len(out) : i \in Lower <=> out[i].priority <= r.priority
  BY <1>1
<1>4. ASSUME NEW i \in 1..Len(out), NEW j \in Lower, i < j PROVE i \in Lower
  <2>1. j \in 1..Len(out) /\ out[j].priority <= r.priority
    BY <1>3
  <2>2. out[i].priority <= out[j].priority
    BY <1>1, <1>2, <1>4, <2>1 DEF Ordered, InRuleOrder
  <2>3. out[i].priority <= r.priority
    BY <1>2, <2>1, <2>2
  <2> QED BY <1>3, <2>3
<1> HIDE DEF Lower
<1> DEFINE Fits(m) == Cardinality(Lower) = m /\ \A i \in 1..Len(out) : out[i].priority <= r.priority <=> i <= m
<1>5. CASE Lower = {}
  <2>1. Cardinality(Lower) = 0
    BY <1>5, FS_EmptySet
  <2>2. \A i \in 1..Len(out) : out[i].priority <= r.priority <=> i <= 0
    BY <1>1, <1>3, <1>5
  <2>3. 0 \in 0..Len(out) /\ Fits(0)
    BY <1>1, <2>1, <2>2
  <2> QED BY <2>3 DEF Lower
<1>6. CASE Lower # {}
  <2>1. PICK m \in Lower : \A y \in Lower : y <= m
    BY <1>1, <1>3, <1>6, MaxUpto
  <2>2. m \in 1..Len(out)
    BY <1>3
  <2>3. \A i \in 1..Len(out) : i \in Lower <=> i <= m
    BY <1>1, <1>4, <2>1, <2>2
  <2>4. Lower = 1..m
    <3>1. m \in Nat /\ (1..m) \subseteq 1..Len(out) /\ \A i \in 1..Len(out) : i <= m <=> i \in 1..m
      BY <1>1, <2>2
    <3>2. \A x : x \in Lower <=> x \in 1..m
      BY <1>3, <2>3, <3>1
    <3> HIDE DEF Fits
    <3> QED BY <3>2
  <2>5. Cardinality(Lower) = m
    <3>1. 1 \in Int /\ m \in Int /\ m - 1 + 1 = m /\ ~(1 > m)
      BY <1>1, <2>2
    <3> QED BY <2>4, <3>1, FS_Interval
  <2>6. m \in 0..Len(out) /\ Fits(m)
    BY <1>1, <1>3, <2>2, <2>3, <2>5
  <2> QED BY <2>6 DEF Lower
<1> QED BY <1>5, <1>6

(* The elements of what an insertion makes.                                 *)
LEMMA Inserted ==
  ASSUME NEW S, NEW s \in Seq(S), NEW e \in S, NEW m \in 0..Len(s)
  PROVE  /\ InsertAt(s, 1 + m, e) \in Seq(S) /\ Len(InsertAt(s, 1 + m, e)) = Len(s) + 1
         /\ \A i \in 1..(Len(s) + 1) :
              InsertAt(s, 1 + m, e)[i] = IF i <= m THEN s[i] ELSE IF i = m + 1 THEN e ELSE s[i - 1]
<1> DEFINE a == SubSeq(s, 1, m)  c == SubSeq(s, m + 1, Len(s))
<1>1. Len(s) \in Nat /\ m \in Nat /\ (1 + m) - 1 = m /\ 1 + m = m + 1
  BY LenProperties
<1>2. a \in Seq(S) /\ Len(a) = m /\ \A i \in 1..m : a[i] = s[i]
  <2>1. \A i \in 1..m : s[i] \in S
    BY <1>1, ElementOfSeq
  <2> QED BY <1>1, <2>1
<1>3. c \in Seq(S) /\ Len(c) = Len(s) - m /\ \A i \in 1..(Len(s) - m) : c[i] = s[i + m]
  BY <1>1, SuffixElements
<1>4. InsertAt(s, 1 + m, e) = a \o <<e>> \o c
  BY <1>1 DEF InsertAt
<1> HIDE DEF a, c
<1>5. <<e>> \in Seq(S) /\ Len(<<e>>) = 1 /\ <<e>>[1] = e
  OBVIOUS
<1> DEFINE b == a \o <<e>>
<1>6. b \in Seq(S) /\ Len(b) = m + 1 /\ \A i \in 1..(m + 1) : b[i] = IF i <= m THEN s[i] ELSE e
  BY <1>1, <1>2, <1>5
<1> HIDE DEF b
<1> DEFINE z == b \o c
<1>7. z \in Seq(S) /\ Len(z) = Len(s) + 1
  BY <1>1, <1>3, <1>6
<1>8. ASSUME NEW i \in 1..(Len(s) + 1) PROVE z[i] = IF i <= m THEN s[i] ELSE IF i = m + 1 THEN e ELSE s[i - 1]
  <2>1. CASE i <= m + 1
    <3>1. i \in 1..(m + 1) /\ z[i] = b[i]
      BY <1>1, <1>3, <1>6, <2>1
    <3> QED BY <1>1, <1>6, <3>1
  <2>2. CASE i > m + 1
    <3>1. i - (m + 1) \in 1..(Len(s) - m) /\ (i - (m + 1)) + m = i - 1 /\ z[i] = c[i - (m + 1)]
      BY <1>1, <1>3, <1>6, <2>2
    <3> QED BY <1>1, <1>3, <2>2, <3>1
  <2>3. i \in Nat /\ m + 1 \in Nat
    BY <1>1
  <2>4. i <= m + 1 \/ i > m + 1
    BY <2>3
  <2> HIDE DEF z
  <2> QED BY <2>1, <2>2, <2>4
<1>9. InsertAt(s, 1 + m, e) = z
  BY <1>4 DEF b
<1> HIDE DEF z
<1> QED BY <1>7, <1>8, <1>9

LEMMA PlacedInOrder ==
  ASSUME NEW out \in Seq(WrittenRules), Ordered(out), NEW r \in WrittenRules,
         \A i \in 1..Len(out) : out[i].id < r.id
  PROVE  /\ Placed(out, r) \in Seq(WrittenRules) /\ Ordered(Placed(out, r))
         /\ ToSet(Placed(out, r)) = ToSet(out) \cup {r}
<1>1. Len(out) \in Nat /\ DOMAIN out = 1..Len(out) /\ \A i \in 1..Len(out) : out[i] \in WrittenRules
  BY LenProperties, ElementOfSeq
<1>2. /\ r.priority \in Int /\ r.id \in Nat
      /\ \A i \in 1..Len(out) : out[i].priority \in Int /\ out[i].id \in Nat
  BY <1>1, RulesArePlaced
<1>3. PICK m \in 0..Len(out) : /\ Cardinality({i \in DOMAIN out : out[i].priority <= r.priority}) = m
                               /\ \A i \in 1..Len(out) : out[i].priority <= r.priority <=> i <= m
  BY BeforeIt
<1> DEFINE z == Placed(out, r)
<1>4. z = InsertAt(out, 1 + m, r)
  BY <1>3 DEF Placed
<1> HIDE DEF z
<1>5. /\ z \in Seq(WrittenRules) /\ Len(z) = Len(out) + 1
      /\ \A i \in 1..(Len(out) + 1) : z[i] = IF i <= m THEN out[i] ELSE IF i = m + 1 THEN r ELSE out[i - 1]
  <2>1. /\ InsertAt(out, 1 + m, r) \in Seq(WrittenRules) /\ Len(InsertAt(out, 1 + m, r)) = Len(out) + 1
        /\ \A i \in 1..(Len(out) + 1) :
             InsertAt(out, 1 + m, r)[i] = IF i <= m THEN out[i] ELSE IF i = m + 1 THEN r ELSE out[i - 1]
    BY Inserted
  <2> QED BY <1>4, <2>1
<1>6. DOMAIN z = 1..(Len(out) + 1) /\ m \in Nat /\ m <= Len(out)
  BY <1>1, <1>5, LenProperties
<1>7. Ordered(z)
  <2> SUFFICES ASSUME NEW i \in 1..(Len(out) + 1), NEW j \in 1..(Len(out) + 1), i < j
               PROVE  InRuleOrder(z[i], z[j])
    BY <1>6 DEF Ordered
  <2>0. \A k, l \in 1..Len(out) : k < l => InRuleOrder(out[k], out[l])
    BY <1>1 DEF Ordered
  <2>1. CASE j <= m
    <3>1. i \in 1..Len(out) /\ j \in 1..Len(out) /\ z[i] = out[i] /\ z[j] = out[j]
      BY <1>1, <1>5, <1>6, <2>1
    <3> QED BY <2>0, <3>1
  <2>2. CASE j = m + 1
    <3>1. i \in 1..Len(out) /\ i <= m /\ z[i] = out[i] /\ z[j] = r
      BY <1>1, <1>5, <1>6, <2>2
    <3>2. out[i].priority <= r.priority /\ out[i].id < r.id
      BY <1>3, <3>1
    <3> QED BY <1>2, <3>1, <3>2 DEF InRuleOrder
  <2>3. CASE j > m + 1 /\ i <= m
    <3>1. i \in 1..Len(out) /\ j - 1 \in 1..Len(out) /\ i < j - 1 /\ z[i] = out[i] /\ z[j] = out[j - 1]
      <4>1. i \in 1..Len(out) /\ j - 1 \in 1..Len(out) /\ i < j - 1 /\ ~(j <= m) /\ j # m + 1
        BY <1>6, <2>3
      <4>2. z[i] = out[i] /\ z[j] = out[j - 1]
        BY <1>5, <2>3, <4>1
      <4> QED BY <4>1, <4>2
    <3> QED BY <2>0, <3>1
  <2>4. CASE j > m + 1 /\ i = m + 1
    <3>1. j - 1 \in 1..Len(out) /\ ~(j - 1 <= m) /\ z[i] = r /\ z[j] = out[j - 1]
      <4>1. j - 1 \in 1..Len(out) /\ ~(j - 1 <= m) /\ ~(j <= m) /\ j # m + 1
        BY <1>6, <2>4
      <4>2. z[i] = r /\ z[j] = out[j - 1]
        BY <1>5, <1>6, <2>4, <4>1
      <4> QED BY <4>1, <4>2
    <3>2. r.priority < out[j - 1].priority
      BY <1>2, <1>3, <3>1
    <3> QED BY <3>1, <3>2 DEF InRuleOrder
  <2>5. CASE i > m + 1
    <3>1. i - 1 \in 1..Len(out) /\ j - 1 \in 1..Len(out) /\ i - 1 < j - 1 /\ z[i] = out[i - 1] /\ z[j] = out[j - 1]
      <4>1. i - 1 \in 1..Len(out) /\ j - 1 \in 1..Len(out) /\ i - 1 < j - 1
        BY <1>6, <2>5
      <4>2. ~(i <= m) /\ i # m + 1 /\ ~(j <= m) /\ j # m + 1
        BY <1>6, <2>5
      <4>3. z[i] = out[i - 1] /\ z[j] = out[j - 1]
        BY <1>5, <4>2
      <4> QED BY <4>1, <4>3
    <3> QED BY <2>0, <3>1
  <2> QED BY <1>1, <1>6, <2>1, <2>2, <2>3, <2>4, <2>5
<1>8. ASSUME NEW x \in ToSet(z) PROVE x \in ToSet(out) \cup {r}
  <2>1. PICK i \in 1..(Len(out) + 1) : x = z[i]
    BY <1>6 DEF ToSet
  <2>2. z[i] = r \/ \E k \in 1..Len(out) : z[i] = out[k]
    BY <1>1, <1>5, <1>6
  <2> QED BY <1>1, <2>1, <2>2 DEF ToSet
<1>9. ASSUME NEW x \in ToSet(out) PROVE x \in ToSet(z)
  <2>1. PICK k \in 1..Len(out) : x = out[k]
    BY <1>1 DEF ToSet
  <2>2. CASE k <= m
    BY <1>1, <1>5, <1>6, <2>1, <2>2 DEF ToSet
  <2>3. CASE k > m
    <3>1. k + 1 \in 1..(Len(out) + 1) /\ (k + 1) - 1 = k /\ ~(k + 1 <= m) /\ k + 1 # m + 1
      BY <1>1, <1>6, <2>3
    <3>2. z[k + 1] = x
      BY <1>5, <2>1, <3>1
    <3> QED BY <1>6, <3>1, <3>2 DEF ToSet
  <2> QED BY <1>1, <1>6, <2>2, <2>3
<1>10. r \in ToSet(z)
  <2>1. m + 1 \in 1..(Len(out) + 1) /\ z[m + 1] = r
    BY <1>1, <1>5, <1>6
  <2> QED BY <1>6, <2>1 DEF ToSet
<1> QED BY <1>5, <1>7, <1>8, <1>9, <1>10 DEF z

(* What is used of the list of rules.                                       *)
RulesInv == rules \in Seq(WrittenRules) /\ \A i \in 1..Len(rules) : rules[i].id = i

LEMMA RulesAreSorted ==
  ASSUME RulesInv
  PROVE  SortedRules(rules) \in Seq(WrittenRules) /\ WellSorted(SortedRules(rules))
<1> DEFINE T == {r \in ToSet(rules) : r.enabled}
           on == Enabled(rules)
<1>1. Len(rules) \in Nat /\ rules \in Seq(WrittenRules) /\ \A i \in 1..Len(rules) : rules[i] \in WrittenRules
  BY LenProperties, ElementOfSeq DEF RulesInv
<1>2. /\ on \in Seq(WrittenRules) /\ ToSet(on) = T
      /\ \A i, j \in 1..Len(on) : i < j => \E k, l \in 1..Len(rules) : k < l /\ on[i] = rules[k] /\ on[j] = rules[l]
  <2>1. on = Only(rules, T) /\ ToSet(rules) \cap T = T
    BY DEF Enabled
  <2> HIDE DEF on, T
  <2>2. /\ Only(rules, T) \in Seq(WrittenRules) /\ ToSet(Only(rules, T)) = ToSet(rules) \cap T
        /\ \A i, j \in 1..Len(Only(rules, T)) : i < j =>
             \E k, l \in 1..Len(rules) : k < l /\ Only(rules, T)[i] = rules[k] /\ Only(rules, T)[j] = rules[l]
    BY <1>1, OnlyKeeps
  <2> QED BY <2>1, <2>2
<1> HIDE DEF on
<1>3. Len(on) \in Nat /\ DOMAIN on = 1..Len(on) /\ \A i \in 1..Len(on) : on[i] \in WrittenRules
  BY <1>2, LenProperties, ElementOfSeq
<1>4. ASSUME NEW i \in 1..Len(on), NEW j \in 1..Len(on), i < j PROVE on[i].id < on[j].id
  <2>1. PICK k \in 1..Len(rules), l \in 1..Len(rules) : k < l /\ on[i] = rules[k] /\ on[j] = rules[l]
    BY <1>2, <1>4
  <2> QED BY <2>1 DEF RulesInv
<1>5. PICK g : /\ g[0] = <<>> /\ SortedRules(rules) = g[Len(on)]
               /\ \A n \in 1..Len(on) : g[n] = Placed(g[n - 1], on[n])
  BY <1>2, Sorting DEF on
<1> DEFINE D == {n \in Nat : n <= Len(on) =>
                  g[n] \in Seq(WrittenRules) /\ Ordered(g[n]) /\ ToSet(g[n]) = {on[i] : i \in 1..n}}
<1>6. 0 \in D
  <2>1. <<>> \in Seq(WrittenRules) /\ DOMAIN <<>> = {} /\ 1..0 = {}
    OBVIOUS
  <2>2. Ordered(<<>>) /\ ToSet(<<>>) = {on[i] : i \in 1..0}
    BY <2>1 DEF Ordered, ToSet
  <2> QED BY <1>5, <2>1, <2>2
<1>7. ASSUME NEW n \in D PROVE n + 1 \in D
  <2>1. n \in Nat /\ (n + 1) - 1 = n
    OBVIOUS
  <2>2. ASSUME n + 1 <= Len(on)
        PROVE  /\ g[n + 1] \in Seq(WrittenRules) /\ Ordered(g[n + 1])
               /\ ToSet(g[n + 1]) = {on[i] : i \in 1..(n + 1)}
    <3> DEFINE out == g[n]  r == on[n + 1]
    <3>1. n + 1 \in 1..Len(on) /\ n <= Len(on) /\ \A i \in 1..n : i \in 1..Len(on) /\ i < n + 1
      BY <1>3, <2>1, <2>2
    <3>2. out \in Seq(WrittenRules) /\ Ordered(out) /\ ToSet(out) = {on[i] : i \in 1..n}
      BY <3>1
    <3> HIDE DEF D
    <3>3. g[n + 1] = Placed(out, r) /\ r \in WrittenRules
      BY <1>3, <1>5, <2>1, <3>1
    <3>4. \A x \in ToSet(out) : x.id < r.id
      BY <1>4, <3>1, <3>2
    <3> HIDE DEF out, r
    <3>5. \A i \in 1..Len(out) : out[i].id < r.id
      <4>1. \A i \in 1..Len(out) : out[i] \in ToSet(out)
        BY <3>2, LenProperties DEF ToSet
      <4> QED BY <3>4, <4>1
    <3>6. /\ Placed(out, r) \in Seq(WrittenRules) /\ Ordered(Placed(out, r))
          /\ ToSet(Placed(out, r)) = ToSet(out) \cup {r}
      BY <3>2, <3>3, <3>5, PlacedInOrder
    <3>7. {on[i] : i \in 1..(n + 1)} = {on[i] : i \in 1..n} \cup {r}
      <4>1. 1..(n + 1) = (1..n) \cup {n + 1}
        BY <2>1
      <4> QED BY <4>1 DEF r
    <3> QED BY <3>2, <3>3, <3>6, <3>7
  <2> QED BY <2>1, <2>2
<1> HIDE DEF D
<1>8. D = Nat
  BY <1>6, <1>7, SetInduction DEF D
<1>9. Len(on) \in D /\ Len(on) <= Len(on)
  BY <1>3, <1>8
<1>10. /\ SortedRules(rules) \in Seq(WrittenRules) /\ Ordered(SortedRules(rules))
       /\ ToSet(SortedRules(rules)) = {on[i] : i \in 1..Len(on)}
  BY <1>5, <1>9 DEF D
<1>11. ToSet(on) = {on[i] : i \in 1..Len(on)}
  BY <1>3 DEF ToSet
<1> QED BY <1>2, <1>10, <1>11 DEF WellSorted, Ordered, InRuleOrder

LEMMA RulesInvAct == ASSUME RulesInv PROVE RulesAct
<1>1. SortedRules(rules) \in Seq(WrittenRules) /\ WellSorted(SortedRules(rules))
  BY RulesAreSorted
<1>2. ASSUME NEW f \in FlowsMet PROVE WellDecided(SortedRules(rules), f) /\ WellAnswered(f)
  <2>1. AFlow(f)
    BY FlowsAreMet
  <2> QED BY <1>1, <2>1, WellDecides, WellAnswers
<1> QED BY <1>1, <1>2 DEF RulesAct

(* A way through a text: where it is after each letter of a pattern.        *)
GoesOn(p, t, j, k, i) == IF p[i] = "*" THEN j <= k ELSE k = j + 1 /\ t[k] = p[i]
Way(p, t, n, way) ==
  /\ way \in [0..n -> 0..Len(t)]
  /\ \A i \in 1..n : GoesOn(p, t, way[i - 1], way[i], i)
LetsPass(p, t, from) == \E way : Way(p, t, Len(p), way) /\ way[0] \in from /\ way[Len(p)] = Len(t)

LEMMA GlobPasses ==
  ASSUME NEW p \in Seq(STRING), NEW t \in Seq(STRING), NEW from \in SUBSET (0..Len(t))
  PROVE  Glob(p, t, from) <=> LetsPass(p, t, from)
<1>1. Len(p) \in Nat /\ Len(t) \in Nat
  BY LenProperties
<1>2. PICK g : /\ g[0] = from /\ (Glob(p, t, from) <=> Len(t) \in g[Len(p)])
               /\ \A n \in 1..Len(p) : g[n] = GlobStep(g[n - 1], t, p[n])
  <2>1. PICK g : /\ GlobOf(p, t, from, g)
                /\ (Glob(p, t, from) <=> Len(t) \in g[Len(p)])
    BY Globbing
  <2> QED BY <2>1 DEF GlobOf
<1> DEFINE Reach(n, k) == \E way : Way(p, t, n, way) /\ way[0] \in from /\ way[n] = k
           D == {n \in Nat : n <= Len(p) => g[n] = {k \in 0..Len(t) : Reach(n, k)}}
<1>3. 0 \in D
  <2>1. ASSUME NEW k \in from PROVE k \in 0..Len(t) /\ Reach(0, k)
    <3> DEFINE way == [i \in 0..0 |-> k]
    <3>1. Way(p, t, 0, way) /\ way[0] = k
      BY DEF Way
    <3> HIDE DEF way
    <3> QED BY <3>1
  <2>2. ASSUME NEW k \in 0..Len(t), Reach(0, k) PROVE k \in from
    BY <2>2
  <2>3. from = {k \in 0..Len(t) : Reach(0, k)}
    <3> HIDE DEF Reach
    <3> QED BY <2>1, <2>2
  <2> HIDE DEF Reach
  <2> QED BY <1>2, <2>3
<1>4. ASSUME NEW n \in D PROVE n + 1 \in D
  <2>1. n \in Nat /\ (n + 1) - 1 = n
    OBVIOUS
  <2> SUFFICES ASSUME n + 1 <= Len(p) PROVE g[n + 1] = {k \in 0..Len(t) : Reach(n + 1, k)}
    <3> HIDE DEF Reach
    <3> QED BY <2>1
  <2> DEFINE m == n + 1
  <2>2. m \in 1..Len(p) /\ m - 1 = n /\ n <= Len(p) /\ n \in 0..n /\ m \in 0..m
    BY <1>1, <2>1
  <2>3. g[n] = {k \in 0..Len(t) : Reach(n, k)}
    <3> HIDE DEF Reach
    <3> QED BY <2>2
  <2> HIDE DEF D
  <2>4. g[m] = GlobStep(g[n], t, p[m])
    BY <1>2, <2>2
  <2>5. \A k \in 0..Len(t) : k \in g[m] <=> \E j \in g[n] : GoesOn(p, t, j, k, m)
    <3> DEFINE ends == g[n]
    <3>1. ends \in SUBSET (0..Len(t))
      BY <2>3
    <3> HIDE DEF ends
    <3> TAKE k \in 0..Len(t)
    <3>2. CASE p[m] = "*"
      BY <2>4, <3>2 DEF GoesOn, GlobStep, ends
    <3>3. CASE p[m] # "*"
      <4>1. k \in g[m] <=> k \in 1..Len(t) /\ k - 1 \in ends /\ t[k] = p[m]
        BY <2>4, <3>3 DEF GlobStep, ends
      <4>2. \A j \in ends : k = j + 1 <=> j = k - 1
        BY <1>1, <3>1
      <4>3. k - 1 \in ends => k \in 1..Len(t)
        BY <1>1, <3>1
      <4> QED BY <3>3, <4>1, <4>2, <4>3 DEF GoesOn, ends
    <3> QED BY <3>2, <3>3
  <2>6. g[m] \subseteq 0..Len(t)
    BY <1>1, <2>4 DEF GlobStep
  <2>7. ASSUME NEW k \in 0..Len(t), NEW j \in 0..Len(t), Reach(n, j), GoesOn(p, t, j, k, m) PROVE Reach(m, k)
    <3>1. PICK way : Way(p, t, n, way) /\ way[0] \in from /\ way[n] = j
      BY <2>7
    <3> DEFINE to == [i \in 0..m |-> IF i = m THEN k ELSE way[i]]
    <3>2. \A i \in 0..n : i \in 0..m /\ i # m /\ way[i] \in 0..Len(t)
      BY <2>1, <3>1 DEF Way
    <3>3. to[m] = k /\ \A i \in 0..n : to[i] = way[i]
      BY <2>2, <3>2
    <3>4. to \in [0..m -> 0..Len(t)]
      <4>1. \A i \in 0..m : i = m \/ i \in 0..n
        BY <2>1
      <4> QED BY <3>2, <4>1
    <3> HIDE DEF to
    <3>5. ASSUME NEW i \in 1..m PROVE GoesOn(p, t, to[i - 1], to[i], i)
      <4>1. CASE i = m
        <5>1. i - 1 = n /\ to[n] = j
          BY <2>2, <3>1, <3>3, <4>1
        <5> QED BY <2>7, <3>3, <4>1, <5>1
      <4>2. CASE i # m
        <5>1. i \in 1..n /\ i \in 0..n /\ i - 1 \in 0..n
          BY <2>1, <4>2
        <5> QED BY <3>1, <3>3, <5>1 DEF Way
      <4> QED BY <4>1, <4>2
    <3>6. to[0] = way[0]
      BY <2>1, <3>3
    <3>7. Way(p, t, m, to)
      BY <3>4, <3>5 DEF Way
    <3> QED BY <3>1, <3>3, <3>6, <3>7
  <2>8. ASSUME NEW k \in 0..Len(t), Reach(m, k) PROVE \E j \in 0..Len(t) : Reach(n, j) /\ GoesOn(p, t, j, k, m)
    <3>1. PICK to : Way(p, t, m, to) /\ to[0] \in from /\ to[m] = k
      BY <2>8
    <3> DEFINE way == [i \in 0..n |-> to[i]]
    <3>2. \A i \in 0..n : i \in 0..m /\ way[i] = to[i] /\ to[i] \in 0..Len(t)
      BY <2>1, <3>1 DEF Way
    <3>3. way \in [0..n -> 0..Len(t)]
      BY <3>2
    <3> HIDE DEF way
    <3>4. ASSUME NEW i \in 1..n PROVE GoesOn(p, t, way[i - 1], way[i], i)
      <4>1. i \in 1..m /\ i \in 0..n /\ i - 1 \in 0..n
        BY <2>1
      <4> QED BY <3>1, <3>2, <4>1 DEF Way
    <3>5. Way(p, t, n, way) /\ way[0] = to[0] /\ way[n] = to[n] /\ way[n] \in 0..Len(t)
      BY <2>1, <3>2, <3>3, <3>4 DEF Way
    <3>6. GoesOn(p, t, to[n], k, m)
      <4>1. m \in 1..m
        BY <2>1
      <4> QED BY <2>2, <3>1, <4>1 DEF Way
    <3>7. Reach(n, way[n])
      BY <3>1, <3>5
    <3> QED BY <3>5, <3>6, <3>7
  <2> HIDE DEF Reach, m
  <2>9. \A k \in 0..Len(t) : k \in g[m] <=> Reach(m, k)
    BY <2>3, <2>5, <2>7, <2>8
  <2>10. g[m] = {k \in 0..Len(t) : Reach(m, k)}
    BY <2>6, <2>9
  <2> QED BY <2>10 DEF m
<1> HIDE DEF D
<1>5. D = Nat
  BY <1>3, <1>4, SetInduction DEF D
<1>6. g[Len(p)] = {k \in 0..Len(t) : Reach(Len(p), k)}
  <2> HIDE DEF Reach
  <2> QED BY <1>1, <1>5 DEF D
<1>7. Len(t) \in g[Len(p)] <=> Reach(Len(p), Len(t))
  <2> HIDE DEF Reach
  <2>1. Len(t) \in 0..Len(t)
    BY <1>1
  <2> QED BY <1>6, <2>1
<1> QED BY <1>2, <1>7 DEF LetsPass

LEMMA CoversPasses ==
  ASSUME NEW p \in Seq(STRING), NEW t \in Seq(STRING)
  PROVE  Covers(p, t, 0) <=> LetsPass(p, t, {0})
<1>1. Len(p) \in Nat /\ Len(t) \in Nat /\ DOMAIN p = 1..Len(p) /\ Stars(p) = {i \in 1..Len(p) : p[i] = "*"}
  BY LenProperties DEF Stars
<1>2. ASSUME Covers(p, t, 0) PROVE LetsPass(p, t, {0})
  <2>1. PICK stretch \in [Stars(p) -> 0..Len(t)] :
          /\ Reached(p, stretch, 0)[Len(p)] = Len(t)
          /\ \A i \in DOMAIN p :
               IF p[i] = "*" THEN Reached(p, stretch, 0)[i - 1] <= Reached(p, stretch, 0)[i]
               ELSE Reached(p, stretch, 0)[i] <= Len(t) /\ t[Reached(p, stretch, 0)[i]] = p[i]
    BY <1>2 DEF Covers
  <2>2. PICK way : /\ way[0] = 0 /\ Reached(p, stretch, 0) = way
                  /\ \A n \in 1..Len(p) : way[n] = IF p[n] = "*" THEN stretch[n] ELSE way[n - 1] + 1
    <3>1. PICK way : /\ ReachOf(p, stretch, 0, way)
                  /\ Reached(p, stretch, 0) = way
      BY Reaching
    <3> QED BY <3>1 DEF ReachOf
  <2>3. /\ way[Len(p)] = Len(t)
        /\ \A i \in 1..Len(p) : IF p[i] = "*" THEN way[i - 1] <= way[i] ELSE way[i] <= Len(t) /\ t[way[i]] = p[i]
    BY <1>1, <2>1, <2>2
  <2> DEFINE D == {n \in Nat : n <= Len(p) => way[n] \in 0..Len(t)}
  <2>4. 0 \in D
    BY <1>1, <2>2
  <2>5. ASSUME NEW n \in D PROVE n + 1 \in D
    <3>1. n \in Nat /\ (n + 1) - 1 = n
      OBVIOUS
    <3>2. ASSUME n + 1 <= Len(p) PROVE way[n + 1] \in 0..Len(t)
      <4> DEFINE m == n + 1
      <4>1. m \in 1..Len(p) /\ m - 1 = n /\ way[n] \in 0..Len(t)
        BY <1>1, <3>1, <3>2
      <4> HIDE DEF D, m
      <4>2. CASE p[m] = "*"
        <5>1. way[m] = stretch[m] /\ m \in Stars(p)
          BY <1>1, <2>2, <4>1, <4>2
        <5> QED BY <5>1 DEF m
      <4>3. CASE p[m] # "*"
        <5>1. way[m] = way[n] + 1 /\ way[m] <= Len(t)
          BY <2>2, <2>3, <4>1, <4>3
        <5>2. way[m] \in 0..Len(t)
          BY <1>1, <4>1, <5>1
        <5> QED BY <5>2 DEF m
      <4> QED BY <4>2, <4>3
    <3> QED BY <3>1, <3>2
  <2> HIDE DEF D
  <2>6. D = Nat
    BY <2>4, <2>5, SetInduction DEF D
  <2>7. \A n \in 0..Len(p) : way[n] \in 0..Len(t)
    <3> TAKE n \in 0..Len(p)
    <3>1. n \in D /\ n <= Len(p)
      BY <1>1, <2>6
    <3> QED BY <3>1 DEF D
  <2> DEFINE to == [n \in 0..Len(p) |-> way[n]]
  <2>8. to \in [0..Len(p) -> 0..Len(t)] /\ \A n \in 0..Len(p) : to[n] = way[n]
    BY <2>7
  <2> HIDE DEF to
  <2>9. ASSUME NEW i \in 1..Len(p) PROVE GoesOn(p, t, to[i - 1], to[i], i)
    <3>1. i \in 0..Len(p) /\ i - 1 \in 0..Len(p)
      BY <1>1
    <3>2. to[i] = way[i] /\ to[i - 1] = way[i - 1]
      BY <2>8, <3>1
    <3>3. CASE p[i] = "*"
      BY <2>3, <3>2, <3>3 DEF GoesOn
    <3>4. CASE p[i] # "*"
      BY <2>2, <2>3, <3>2, <3>4 DEF GoesOn
    <3> QED BY <3>3, <3>4
  <2>10. Way(p, t, Len(p), to)
    BY <2>8, <2>9 DEF Way
  <2>11. 0 \in 0..Len(p) /\ Len(p) \in 0..Len(p)
    BY <1>1
  <2>12. to[0] \in {0} /\ to[Len(p)] = Len(t)
    BY <2>2, <2>3, <2>8, <2>11
  <2> QED BY <2>10, <2>12 DEF LetsPass
<1>3. ASSUME LetsPass(p, t, {0}) PROVE Covers(p, t, 0)
  <2>1. PICK to : Way(p, t, Len(p), to) /\ to[0] = 0 /\ to[Len(p)] = Len(t)
    BY <1>3 DEF LetsPass
  <2>2. /\ \A i \in 0..Len(p) : to[i] \in 0..Len(t)
        /\ \A i \in 1..Len(p) : GoesOn(p, t, to[i - 1], to[i], i)
    BY <2>1 DEF Way
  <2> DEFINE stretch == [i \in Stars(p) |-> to[i]]
  <2>3. stretch \in [Stars(p) -> 0..Len(t)] /\ \A i \in Stars(p) : stretch[i] = to[i]
    <3>1. Stars(p) \subseteq 0..Len(p)
      BY <1>1
    <3> QED BY <2>2, <3>1
  <2> HIDE DEF stretch
  <2>4. PICK way : /\ way[0] = 0 /\ Reached(p, stretch, 0) = way
                  /\ \A n \in 1..Len(p) : way[n] = IF p[n] = "*" THEN stretch[n] ELSE way[n - 1] + 1
    <3>1. PICK way : /\ ReachOf(p, stretch, 0, way)
                  /\ Reached(p, stretch, 0) = way
      BY Reaching
    <3> QED BY <3>1 DEF ReachOf
  <2> DEFINE D == {n \in Nat : n <= Len(p) => way[n] = to[n]}
  <2>5. 0 \in D
    BY <2>1, <2>4
  <2>6. ASSUME NEW n \in D PROVE n + 1 \in D
    <3>1. n \in Nat /\ (n + 1) - 1 = n
      OBVIOUS
    <3>2. ASSUME n + 1 <= Len(p) PROVE way[n + 1] = to[n + 1]
      <4> DEFINE m == n + 1
      <4>1. m \in 1..Len(p) /\ m - 1 = n /\ way[n] = to[n]
        BY <1>1, <3>1, <3>2
      <4> HIDE DEF D, m
      <4>2. CASE p[m] = "*"
        <5>1. way[m] = stretch[m] /\ m \in Stars(p)
          BY <1>1, <2>4, <4>1, <4>2
        <5> QED BY <2>3, <5>1 DEF m
      <4>3. CASE p[m] # "*"
        <5>1. way[m] = way[n] + 1
          BY <2>4, <4>1, <4>3
        <5>2. to[m] = to[n] + 1
          BY <2>2, <4>1, <4>3 DEF GoesOn
        <5> QED BY <4>1, <5>1, <5>2 DEF m
      <4> QED BY <4>2, <4>3
    <3> QED BY <3>1, <3>2
  <2> HIDE DEF D
  <2>7. D = Nat
    BY <2>5, <2>6, SetInduction DEF D
  <2>8. \A n \in 0..Len(p) : way[n] = to[n]
    <3> TAKE n \in 0..Len(p)
    <3>1. n \in D /\ n <= Len(p)
      BY <1>1, <2>7
    <3> QED BY <3>1 DEF D
  <2>9. ASSUME NEW i \in DOMAIN p
        PROVE  IF p[i] = "*" THEN way[i - 1] <= way[i] ELSE way[i] <= Len(t) /\ t[way[i]] = p[i]
    <3>1. i \in 1..Len(p) /\ i \in 0..Len(p) /\ i - 1 \in 0..Len(p)
      BY <1>1
    <3>2. way[i] = to[i] /\ way[i - 1] = to[i - 1] /\ to[i] \in 0..Len(t) /\ GoesOn(p, t, to[i - 1], to[i], i)
      BY <2>2, <2>8, <3>1
    <3>3. to[i] <= Len(t)
      BY <1>1, <3>2
    <3> QED BY <3>2, <3>3 DEF GoesOn
  <2>10. way[Len(p)] = Len(t)
    <3>1. Len(p) \in 0..Len(p)
      BY <1>1
    <3> QED BY <2>1, <2>8, <3>1
  <2> QED BY <2>3, <2>4, <2>9, <2>10 DEF Covers
<1> QED BY <1>2, <1>3

(* "*.d" is any text that ends in a dot and d.                              *)
LEMMA SubdomainPasses ==
  ASSUME NEW p \in Seq(STRING), NEW t \in Seq(STRING), NEW d \in Seq(STRING),
         Len(p) = Len(d) + 2, p[1] = "*", p[2] = ".", \A i \in 1..Len(d) : d[i] = p[i + 2]
  PROVE  LetsPass(p, t, {0}) <=> LetsPass(d, t, Dots(t))
<1>1. Len(d) \in Nat /\ Len(t) \in Nat /\ DOMAIN t = 1..Len(t)
  BY LenProperties
<1>2. ASSUME LetsPass(p, t, {0}) PROVE LetsPass(d, t, Dots(t))
  <2>1. PICK to : Way(p, t, Len(p), to) /\ to[Len(p)] = Len(t)
    BY <1>2 DEF LetsPass
  <2>2. /\ \A i \in 0..(Len(d) + 2) : to[i] \in 0..Len(t)
        /\ \A i \in 1..(Len(d) + 2) : GoesOn(p, t, to[i - 1], to[i], i)
    BY <2>1 DEF Way
  <2> DEFINE way == [i \in 0..Len(d) |-> to[i + 2]]
  <2>3. \A i \in 0..Len(d) : i + 2 \in 0..(Len(d) + 2) /\ way[i] = to[i + 2]
    BY <1>1
  <2>4. way \in [0..Len(d) -> 0..Len(t)]
    BY <2>2, <2>3
  <2> HIDE DEF way
  <2>5. ASSUME NEW i \in 1..Len(d) PROVE GoesOn(d, t, way[i - 1], way[i], i)
    <3>1. i \in 0..Len(d) /\ i - 1 \in 0..Len(d) /\ i + 2 \in 1..(Len(d) + 2) /\ (i - 1) + 2 = (i + 2) - 1
      BY <1>1
    <3>2. way[i] = to[i + 2] /\ way[i - 1] = to[(i + 2) - 1]
      BY <2>3, <3>1
    <3>3. GoesOn(p, t, to[(i + 2) - 1], to[i + 2], i + 2)
      BY <2>2, <3>1
    <3> QED BY <3>2, <3>3 DEF GoesOn
  <2>6. way[0] \in Dots(t)
    <3>1. 2 \in 1..(Len(d) + 2) /\ 1 \in 0..(Len(d) + 2) /\ 2 \in 0..(Len(d) + 2) /\ 0 \in 0..Len(d)
      BY <1>1
    <3>2. GoesOn(p, t, to[1], to[2], 2) /\ to[1] \in 0..Len(t) /\ to[2] \in 0..Len(t) /\ way[0] = to[2]
      <4>1. GoesOn(p, t, to[2 - 1], to[2], 2)
        BY <2>2, <3>1
      <4> QED BY <2>2, <2>3, <3>1, <4>1
    <3>3. to[2] = to[1] + 1 /\ t[to[2]] = "."
      BY <3>2 DEF GoesOn
    <3> QED BY <1>1, <3>2, <3>3 DEF Dots
  <2>7. way[Len(d)] = Len(t)
    <3>1. Len(d) \in 0..Len(d)
      BY <1>1
    <3> QED BY <2>1, <2>3, <3>1
  <2> QED BY <2>4, <2>5, <2>6, <2>7 DEF LetsPass, Way
<1>3. ASSUME LetsPass(d, t, Dots(t)) PROVE LetsPass(p, t, {0})
  <2>1. PICK way : Way(d, t, Len(d), way) /\ way[0] \in Dots(t) /\ way[Len(d)] = Len(t)
    BY <1>3 DEF LetsPass
  <2>2. /\ \A i \in 0..Len(d) : way[i] \in 0..Len(t)
        /\ \A i \in 1..Len(d) : GoesOn(d, t, way[i - 1], way[i], i)
        /\ way[0] \in 1..Len(t) /\ t[way[0]] = "."
    BY <1>1, <2>1 DEF Way, Dots
  <2> DEFINE to == [i \in 0..(Len(d) + 2) |-> IF i = 0 THEN 0 ELSE IF i = 1 THEN way[0] - 1 ELSE way[i - 2]]
  <2>3. to[0] = 0 /\ to[1] = way[0] - 1
    BY <1>1
  <2>4. \A i \in 2..(Len(d) + 2) : i - 2 \in 0..Len(d) /\ to[i] = way[i - 2]
    BY <1>1
  <2>5. to \in [0..(Len(d) + 2) -> 0..Len(t)]
    <3>1. to = [i \in 0..(Len(d) + 2) |-> to[i]]
      OBVIOUS
    <3> HIDE DEF to
    <3>2. ASSUME NEW i \in 0..(Len(d) + 2) PROVE to[i] \in 0..Len(t)
      <4>1. i = 0 \/ i = 1 \/ i \in 2..(Len(d) + 2)
        BY <1>1
      <4>2. 0 \in 0..Len(t) /\ way[0] - 1 \in 0..Len(t)
        BY <1>1, <2>2
      <4> QED BY <2>2, <2>3, <2>4, <4>1, <4>2
    <3> QED BY <3>1, <3>2
  <2> HIDE DEF to
  <2>6. ASSUME NEW i \in 1..(Len(d) + 2) PROVE GoesOn(p, t, to[i - 1], to[i], i)
    <3>1. CASE i = 1
      <4>1. to[i - 1] = 0 /\ to[i] = way[0] - 1 /\ 0 <= way[0] - 1
        BY <1>1, <2>2, <2>3, <3>1
      <4> QED BY <3>1, <4>1 DEF GoesOn
    <3>2. CASE i = 2
      <4>1. 2 \in 2..(Len(d) + 2) /\ 2 - 2 = 0 /\ 2 - 1 = 1
        BY <1>1
      <4>2. to[i - 1] = way[0] - 1 /\ to[i] = way[0]
        BY <2>3, <2>4, <3>2, <4>1
      <4>3. way[0] = (way[0] - 1) + 1
        BY <1>1, <2>2
      <4> QED BY <2>2, <3>2, <4>2, <4>3 DEF GoesOn
    <3>3. CASE i > 2
      <4> DEFINE j == i - 2
      <4>1. j \in 1..Len(d) /\ i \in 2..(Len(d) + 2) /\ i - 1 \in 2..(Len(d) + 2) /\ (i - 1) - 2 = j - 1 /\ j + 2 = i
        BY <1>1, <3>3
      <4>2. to[i] = way[j] /\ to[i - 1] = way[j - 1]
        BY <2>4, <4>1
      <4> HIDE DEF j
      <4>3. GoesOn(d, t, way[j - 1], way[j], j) /\ d[j] = p[i]
        BY <2>2, <4>1
      <4> QED BY <4>2, <4>3 DEF GoesOn
    <3> QED BY <1>1, <3>1, <3>2, <3>3
  <2>7. to[Len(d) + 2] = Len(t)
    <3>1. Len(d) + 2 \in 2..(Len(d) + 2) /\ (Len(d) + 2) - 2 = Len(d)
      BY <1>1
    <3> QED BY <2>1, <2>4, <3>1
  <2> QED BY <2>3, <2>5, <2>6, <2>7 DEF LetsPass, Way
<1> QED BY <1>2, <1>3

LEMMA PassesFromEither ==
  ASSUME NEW p, NEW t, NEW A, NEW B
  PROVE  LetsPass(p, t, A \cup B) <=> LetsPass(p, t, A) \/ LetsPass(p, t, B)
  BY DEF LetsPass

(* Part of a text, letter by letter.                                        *)
LEMMA PartOf ==
  ASSUME NEW t \in Seq(STRING), NEW d \in Seq(STRING), NEW k \in Nat, k + Len(d) <= Len(t)
  PROVE  At(t, d, k) <=> \A i \in 1..Len(d) : t[k + i] = d[i]
<1> DEFINE part == SubSeq(t, k + 1, k + Len(d))
<1>1. Len(t) \in Nat /\ Len(d) \in Nat /\ \A i \in 1..Len(t) : t[i] \in STRING
  BY LenProperties, ElementOfSeq
<1>2. /\ part \in Seq(STRING) /\ Len(part) = Len(d)
      /\ \A i \in 1..Len(d) : part[i] = t[k + i]
  <2>1. \A i \in (k + 1)..(k + Len(d)) : t[i] \in STRING
    BY <1>1
  <2> QED BY <1>1, <2>1
<1>3. At(t, d, k) <=> part = d
  BY DEF At
<1> HIDE DEF part
<1>4. ASSUME \A i \in 1..Len(d) : t[k + i] = d[i] PROVE part = d
  <2>1. \A i \in 1..Len(part) : part[i] = d[i]
    BY <1>2, <1>4
  <2> QED BY <1>2, <2>1, SeqEqual
<1> QED BY <1>2, <1>3, <1>4

(* A pattern without stars inside: a run of letters from lo to hi.          *)
LEMMA RunOfLetters ==
  ASSUME NEW p \in Seq(STRING), NEW t \in Seq(STRING), NEW way, Way(p, t, Len(p), way),
         NEW lo \in 0..Len(p), NEW hi \in 0..Len(p), lo <= hi, \A i \in (lo + 1)..hi : p[i] # "*"
  PROVE  /\ way[hi] = way[lo] + (hi - lo)
         /\ \A i \in 1..(hi - lo) : t[way[lo] + i] = p[lo + i]
<1>1. Len(p) \in Nat /\ Len(t) \in Nat
  BY LenProperties
<1>2. /\ \A i \in 0..Len(p) : way[i] \in 0..Len(t)
      /\ \A i \in 1..Len(p) : GoesOn(p, t, way[i - 1], way[i], i)
  BY DEF Way
<1> DEFINE D == {n \in Nat : n <= hi - lo => way[lo + n] = way[lo] + n /\ \A i \in 1..n : t[way[lo] + i] = p[lo + i]}
<1>3. 0 \in D
  BY <1>1, <1>2
<1>4. ASSUME NEW n \in D PROVE n + 1 \in D
  <2>1. n \in Nat
    OBVIOUS
  <2>2. ASSUME n + 1 <= hi - lo
        PROVE  way[lo + (n + 1)] = way[lo] + (n + 1) /\ \A i \in 1..(n + 1) : t[way[lo] + i] = p[lo + i]
    <3> DEFINE m == lo + (n + 1)
    <3>1. m \in 1..Len(p) /\ m - 1 = lo + n /\ m \in (lo + 1)..hi /\ n <= hi - lo
      BY <1>1, <2>1, <2>2
    <3>2. way[lo + n] = way[lo] + n /\ \A i \in 1..n : t[way[lo] + i] = p[lo + i]
      BY <3>1
    <3> HIDE DEF D, m
    <3>3. way[m] = (way[lo] + n) + 1 /\ t[way[m]] = p[m]
      BY <1>2, <3>1, <3>2 DEF GoesOn
    <3>4. (way[lo] + n) + 1 = way[lo] + (n + 1)
      <4> DEFINE a == way[lo]
      <4>1. a \in Nat
        BY <1>1, <1>2
      <4> HIDE DEF a
      <4>2. (a + n) + 1 = a + (n + 1)
        BY ONLY <2>1, <4>1
      <4> QED BY <4>2 DEF a
    <3>5. t[way[lo] + (n + 1)] = p[lo + (n + 1)]
      BY <3>3, <3>4 DEF m
    <3>6. \A i \in 1..(n + 1) : i = n + 1 \/ i \in 1..n
      BY <2>1
    <3> QED BY <3>2, <3>3, <3>4, <3>5, <3>6 DEF m
  <2> QED BY <2>1, <2>2
<1> HIDE DEF D
<1>5. D = Nat
  BY <1>3, <1>4, SetInduction DEF D
<1>6. hi - lo \in D /\ hi - lo <= hi - lo /\ lo + (hi - lo) = hi
  BY <1>1, <1>5
<1> QED BY <1>6 DEF D

(* The letters between the stars at the ends of a pattern.                  *)
Lo(p) == IF p[1] = "*" THEN 1 ELSE 0
Hi(p) == IF p[Len(p)] = "*" THEN Len(p) - 1 ELSE Len(p)
Middle(p, t, k) ==
  /\ k + (Hi(p) - Lo(p)) <= Len(t)
  /\ p[1] # "*" => k = 0
  /\ p[Len(p)] # "*" => k + (Hi(p) - Lo(p)) = Len(t)
  /\ \A i \in 1..(Hi(p) - Lo(p)) : t[k + i] = p[Lo(p) + i]

LEMMA MiddlePasses ==
  ASSUME NEW p \in Seq(STRING), NEW t \in Seq(STRING), p # <<>>, p # <<"*">>, Stars(p) \subseteq {1, Len(p)}
  PROVE  /\ Lo(p) \in 0..Len(p) /\ Hi(p) \in 0..Len(p) /\ Lo(p) <= Hi(p)
         /\ \A i \in (Lo(p) + 1)..Hi(p) : p[i] # "*"
         /\ (LetsPass(p, t, {0}) <=> \E k \in 0..Len(t) : Middle(p, t, k))
<1>1. /\ Len(p) \in Nat /\ Len(t) \in Nat /\ DOMAIN p = 1..Len(p) /\ Len(p) > 0
      /\ \A i \in 1..Len(p) : p[i] \in STRING
  BY LenProperties, ElementOfSeq, EmptySeq
<1>2. \A i \in 1..Len(p) : p[i] = "*" => i = 1 \/ i = Len(p)
  BY <1>1 DEF Stars
<1>3. Len(p) = 1 => p[1] # "*"
  <2>1. ASSUME Len(p) = 1, p[1] = "*" PROVE p = <<"*">>
    <3>1. PICK c \in STRING : p[1] = c
      <4>1. 1 \in 1..Len(p)
        BY <1>1
      <4> QED BY <1>1, <4>1
    <3> DEFINE s == <<c>>
    <3>2. s \in Seq(STRING) /\ Len(s) = Len(p) /\ \A i \in 1..Len(p) : p[i] = s[i]
      BY <2>1, <3>1
    <3> HIDE DEF s
    <3>3. p = s
      BY <3>2, SeqEqual
    <3> QED BY <2>1, <3>1, <3>3 DEF s
  <2> QED BY <2>1
<1> DEFINE lo == Lo(p)  hi == Hi(p)
<1>4. /\ (p[1] = "*" /\ lo = 1) \/ (p[1] # "*" /\ lo = 0)
      /\ (p[Len(p)] = "*" /\ hi = Len(p) - 1) \/ (p[Len(p)] # "*" /\ hi = Len(p))
  BY Zenon DEF Lo, Hi
<1> HIDE DEF lo, hi
<1>5. lo \in 0..Len(p) /\ hi \in 0..Len(p) /\ lo <= hi
  BY <1>1, <1>3, <1>4
<1>6. ASSUME NEW i \in (lo + 1)..hi PROVE p[i] # "*"
  <2>1. i \in 1..Len(p) /\ lo < i /\ i <= hi
    BY <1>1, <1>5
  <2>2. ASSUME p[i] = "*" PROVE FALSE
    <3>1. i = 1 \/ i = Len(p)
      BY <1>2, <2>1, <2>2
    <3>2. CASE i = 1
      <4>1. lo = 1
        BY <1>4, <2>2, <3>2
      <4> QED BY <2>1, <3>2, <4>1
    <3>3. CASE i = Len(p)
      <4>1. hi = Len(p) - 1
        BY <1>4, <2>2, <3>3
      <4> QED BY <1>1, <2>1, <3>3, <4>1
    <3> QED BY <3>1, <3>2, <3>3
  <2> QED BY <2>2
<1>7. ASSUME LetsPass(p, t, {0}) PROVE \E k \in 0..Len(t) : Middle(p, t, k)
  <2>1. PICK way : Way(p, t, Len(p), way) /\ way[0] = 0 /\ way[Len(p)] = Len(t)
    BY <1>7 DEF LetsPass
  <2>2. way[hi] = way[lo] + (hi - lo) /\ \A i \in 1..(hi - lo) : t[way[lo] + i] = p[lo + i]
    BY <1>5, <1>6, <2>1, RunOfLetters
  <2>3. way[lo] \in 0..Len(t) /\ way[hi] \in 0..Len(t)
    BY <1>5, <2>1 DEF Way
  <2>4. p[1] # "*" => way[lo] = 0
    BY <1>4, <2>1
  <2>5. p[Len(p)] # "*" => way[lo] + (hi - lo) = Len(t)
    BY <1>4, <2>1, <2>2
  <2>6. way[lo] + (hi - lo) <= Len(t)
    BY <1>1, <2>2, <2>3
  <2>7. Middle(p, t, way[lo])
    BY <2>2, <2>4, <2>5, <2>6 DEF Middle, lo, hi
  <2> QED BY <2>3, <2>7
<1>8. ASSUME NEW k \in 0..Len(t), Middle(p, t, k) PROVE LetsPass(p, t, {0})
  <2>1. /\ k + (hi - lo) <= Len(t) /\ (p[1] # "*" => k = 0)
        /\ p[Len(p)] # "*" => k + (hi - lo) = Len(t)
        /\ \A i \in 1..(hi - lo) : t[k + i] = p[lo + i]
    BY <1>8 DEF Middle, lo, hi
  <2> DEFINE way == [i \in 0..Len(p) |-> IF i < lo THEN 0 ELSE IF i <= hi THEN k + (i - lo) ELSE Len(t)]
  <2>2. \A i \in 0..Len(p) : way[i] = IF i < lo THEN 0 ELSE IF i <= hi THEN k + (i - lo) ELSE Len(t)
    OBVIOUS
  <2>3. way = [i \in 0..Len(p) |-> way[i]]
    OBVIOUS
  <2> HIDE DEF way
  <2>4. ASSUME NEW i \in 0..Len(p) PROVE way[i] \in 0..Len(t)
    <3>1. CASE i < lo
      BY <1>1, <2>2, <3>1
    <3>2. CASE ~(i < lo) /\ i <= hi
      <4>1. way[i] = k + (i - lo)
        BY <2>2, <3>2
      <4> QED BY <1>1, <1>5, <2>1, <3>2, <4>1
    <3>3. CASE ~(i < lo) /\ ~(i <= hi)
      BY <1>1, <2>2, <3>3
    <3> QED BY <3>1, <3>2, <3>3
  <2>5. way[0] = 0 /\ way[Len(p)] = Len(t)
    <3>1. 0 \in 0..Len(p) /\ Len(p) \in 0..Len(p) /\ ~(Len(p) < lo)
      BY <1>1, <1>5
    <3>2. way[0] = 0
      <4>1. CASE lo = 1
        BY <2>2, <3>1, <4>1
      <4>2. CASE lo = 0
        <5>1. k = 0 /\ 0 <= hi /\ ~(0 < lo)
          <6>1. p[1] # "*"
            BY <1>4, <4>2
          <6> QED BY <1>1, <1>5, <2>1, <4>2, <6>1
        <5> QED BY <2>2, <3>1, <4>2, <5>1
      <4> QED BY <1>4, <4>1, <4>2
    <3>3. way[Len(p)] = Len(t)
      <4>1. CASE p[Len(p)] = "*" /\ hi = Len(p) - 1
        <5>1. ~(Len(p) <= hi)
          BY <1>1, <4>1
        <5> QED BY <2>2, <3>1, <5>1
      <4>2. CASE p[Len(p)] # "*" /\ hi = Len(p)
        <5>1. Len(p) <= hi /\ k + (Len(p) - lo) = Len(t)
          BY <1>1, <2>1, <4>2
        <5> QED BY <2>2, <3>1, <5>1
      <4> QED BY <1>4, <4>1, <4>2
    <3> QED BY <3>2, <3>3
  <2>6. ASSUME NEW i \in 1..Len(p) PROVE GoesOn(p, t, way[i - 1], way[i], i)
    <3>1. i \in 0..Len(p) /\ i - 1 \in 0..Len(p)
      BY <1>1
    <3>2. CASE i <= lo
      <4>1. i = 1 /\ lo = 1 /\ p[i] = "*"
        BY <1>1, <1>4, <3>2
      <4>2. way[i - 1] = 0 /\ way[i] \in 0..Len(t)
        BY <2>4, <2>5, <3>1, <4>1
      <4> QED BY <1>1, <4>1, <4>2 DEF GoesOn
    <3>3. CASE lo < i /\ i <= hi
      <4>1. i \in (lo + 1)..hi /\ i - lo \in 1..(hi - lo) /\ lo + (i - lo) = i
        BY <1>1, <1>5, <3>3
      <4>2. way[i] = k + (i - lo) /\ way[i - 1] = k + ((i - 1) - lo)
        BY <1>1, <1>5, <2>2, <3>1, <3>3
      <4>3. t[k + (i - lo)] = p[i] /\ p[i] # "*"
        BY <1>6, <2>1, <4>1
      <4>4. k + (i - lo) = (k + ((i - 1) - lo)) + 1
        BY <1>1, <1>5
      <4> QED BY <4>2, <4>3, <4>4 DEF GoesOn
    <3>4. CASE i > hi
      <4>1. i = Len(p) /\ p[i] = "*"
        <5>1. p[Len(p)] = "*" /\ hi = Len(p) - 1
          BY <1>1, <1>4, <3>4
        <5>2. i = Len(p)
          <6>1. hi = Len(p) - 1
            BY <5>1
          <6>2. i \in 1..Len(p) /\ i > hi /\ Len(p) \in Nat
            BY <1>1, <3>4
          <6>3. i > Len(p) - 1
            BY <6>1, <6>2
          <6> QED BY <6>2, <6>3
        <5> QED BY <5>1, <5>2
      <4>2. way[i] = Len(t) /\ way[i - 1] \in 0..Len(t)
        BY <2>4, <2>5, <3>1, <4>1
      <4> QED BY <1>1, <4>1, <4>2 DEF GoesOn
    <3> QED BY <1>1, <1>5, <3>2, <3>3, <3>4
  <2>7. Way(p, t, Len(p), way)
    BY <2>3, <2>4, <2>6 DEF Way
  <2> QED BY <2>5, <2>7 DEF LetsPass
<1> QED BY <1>5, <1>6, <1>7, <1>8 DEF lo, hi

(* The middle of a pattern, as the plugin's list compares it.               *)
LEMMA CutOut ==
  ASSUME NEW p \in Seq(STRING), NEW lo \in 0..Len(p), NEW hi \in 0..Len(p), lo <= hi
  PROVE  /\ SubSeq(p, lo + 1, hi) \in Seq(STRING) /\ Len(SubSeq(p, lo + 1, hi)) = hi - lo
         /\ \A i \in 1..(hi - lo) : SubSeq(p, lo + 1, hi)[i] = p[lo + i]
<1>1. Len(p) \in Nat /\ \A i \in 1..Len(p) : p[i] \in STRING
  BY LenProperties, ElementOfSeq
<1>2. \A i \in (lo + 1)..hi : p[i] \in STRING
  BY <1>1
<1> QED BY <1>1, <1>2

LEMMA TrimmedIsMiddle ==
  ASSUME NEW p \in Seq(STRING), p # <<>>, p # <<"*">>, Stars(p) \subseteq {1, Len(p)}, p[1] = "*", p[Len(p)] = "*"
  PROVE  Trim(p) = SubSeq(p, Lo(p) + 1, Hi(p))
<1> DEFINE letters == {i \in DOMAIN p : p[i] # "*"}
<1>1. /\ Len(p) \in Nat /\ DOMAIN p = 1..Len(p) /\ Lo(p) = 1 /\ Hi(p) = Len(p) - 1 /\ Lo(p) <= Hi(p)
      /\ \A i \in (Lo(p) + 1)..Hi(p) : p[i] # "*"
  BY LenProperties, MiddlePasses, <<>> \in Seq(STRING) DEF Lo, Hi
<1>2. letters = 2..(Len(p) - 1)
  BY <1>1
<1>3. Trim(p) = IF letters = {} THEN <<>> ELSE SubSeq(p, Min(letters), Max(letters))
  BY DEF Trim
<1> HIDE DEF letters
<1>4. CASE letters = {}
  <2>1. Len(p) = 2
    <3>1. Len(p) >= 2 /\ ~(2 \in 2..(Len(p) - 1))
      BY <1>1, <1>2, <1>4
    <3> QED BY <1>1, <3>1
  <2>2. SubSeq(p, 2, 1) = <<>>
    <3>1. 1 \in 0..Len(p)
      BY <2>1
    <3>2. SubSeq(p, 1 + 1, 1) \in Seq(STRING) /\ Len(SubSeq(p, 1 + 1, 1)) = 1 - 1
      BY <3>1, CutOut
    <3>3. SubSeq(p, 1 + 1, 1) = <<>>
      BY <3>2, EmptySeq
    <3> QED BY <3>3
  <2> QED BY <1>1, <1>3, <1>4, <2>1, <2>2
<1>5. CASE letters # {}
  <2>1. 2 \in letters /\ Len(p) - 1 \in letters /\ \A i \in letters : i \in Nat /\ 2 <= i /\ i <= Len(p) - 1
    BY <1>1, <1>2, <1>5
  <2>2. Min(letters) = 2
    <3>1. \E x \in letters : \A y \in letters : x <= y
      BY <2>1
    <3>2. Min(letters) \in letters /\ \A y \in letters : Min(letters) <= y
      BY <3>1 DEF Min
    <3> QED BY <2>1, <3>2
  <2>3. Max(letters) = Len(p) - 1
    <3>1. \E x \in letters : \A y \in letters : x >= y
      BY <2>1
    <3>2. Max(letters) \in letters /\ \A y \in letters : Max(letters) >= y
      BY <3>1 DEF Max
    <3> QED BY <1>1, <2>1, <3>2
  <2> QED BY <1>1, <1>3, <1>5, <2>2, <2>3
<1> QED BY <1>4, <1>5

(* A text that begins, and one that ends with another.                      *)
LEMMA PrefixIs ==
  ASSUME NEW d \in Seq(STRING), NEW t \in Seq(STRING)
  PROVE  IsPrefix(d, t) <=> Len(d) <= Len(t) /\ At(t, d, 0)
<1>1. Len(d) \in Nat
  BY LenProperties
<1>2. SubSeq(d, 1, Len(d)) = d
  <2>1. 0 \in 0..Len(d) /\ Len(d) \in 0..Len(d) /\ 0 <= Len(d)
    BY <1>1
  <2> DEFINE s == SubSeq(d, 0 + 1, Len(d))
  <2>2. s \in Seq(STRING) /\ Len(s) = Len(d) - 0 /\ \A i \in 1..(Len(d) - 0) : s[i] = d[0 + i]
    BY <2>1, CutOut
  <2> HIDE DEF s
  <2>3. Len(s) = Len(d) /\ \A i \in 1..Len(s) : s[i] = d[i]
    BY <1>1, <2>2
  <2>4. s = d
    BY <2>2, <2>3, SeqEqual
  <2> QED BY <2>4 DEF s
<1>3. At(t, d, 0) <=> SubSeq(t, 1, Len(d)) = d
  BY <1>1 DEF At
<1> QED BY <1>2, <1>3 DEF IsPrefix

LEMMA Reversed ==
  ASSUME NEW s \in Seq(STRING)
  PROVE  /\ Reverse(s) \in Seq(STRING) /\ Len(Reverse(s)) = Len(s)
         /\ \A i \in 1..Len(s) : Reverse(s)[i] = s[(Len(s) - i) + 1]
<1>1. Len(s) \in Nat /\ \A i \in 1..Len(s) : s[i] \in STRING /\ (Len(s) - i) + 1 \in 1..Len(s)
  BY LenProperties, ElementOfSeq
<1>2. \A i \in 1..Len(s) : s[(Len(s) - i) + 1] \in STRING
  BY <1>1
<1> QED BY <1>1, <1>2 DEF Reverse

LEMMA SuffixIs ==
  ASSUME NEW d \in Seq(STRING), NEW t \in Seq(STRING)
  PROVE  IsSuffix(d, t) <=> Len(d) <= Len(t) /\ \A i \in 1..Len(d) : t[(Len(t) - Len(d)) + i] = d[i]
<1> DEFINE rd == Reverse(d)  rt == Reverse(t)
<1>1. Len(d) \in Nat /\ Len(t) \in Nat
  BY LenProperties
<1>2. /\ rd \in Seq(STRING) /\ Len(rd) = Len(d) /\ \A i \in 1..Len(d) : rd[i] = d[(Len(d) - i) + 1]
      /\ rt \in Seq(STRING) /\ Len(rt) = Len(t) /\ \A i \in 1..Len(t) : rt[i] = t[(Len(t) - i) + 1]
  BY Reversed
<1>3. IsSuffix(d, t) <=> IsPrefix(rd, rt)
  BY DEF IsSuffix
<1> HIDE DEF rd, rt
<1>4. IsPrefix(rd, rt) <=> Len(d) <= Len(t) /\ At(rt, rd, 0)
  BY <1>2, PrefixIs
<1>5. ASSUME Len(d) <= Len(t)
      PROVE  At(rt, rd, 0) <=> \A i \in 1..Len(d) : t[(Len(t) - Len(d)) + i] = d[i]
  <2>1. At(rt, rd, 0) <=> \A i \in 1..Len(rd) : rt[0 + i] = rd[i]
    <3>1. 0 \in Nat /\ 0 + Len(rd) <= Len(rt)
      BY <1>1, <1>2, <1>5
    <3> QED BY <1>2, <3>1, PartOf
  <2>2. \A i \in 1..Len(d) : rt[0 + i] = t[(Len(t) - i) + 1] /\ rd[i] = d[(Len(d) - i) + 1]
    <3> TAKE i \in 1..Len(d)
    <3>1. i \in 1..Len(t) /\ 0 + i = i
      BY <1>1, <1>5
    <3> QED BY <1>2, <3>1
  <2>3. At(rt, rd, 0) <=> \A i \in 1..Len(d) : t[(Len(t) - i) + 1] = d[(Len(d) - i) + 1]
    BY <1>2, <2>1, <2>2
  <2>4. ASSUME \A i \in 1..Len(d) : t[(Len(t) - i) + 1] = d[(Len(d) - i) + 1], NEW i \in 1..Len(d)
        PROVE  t[(Len(t) - Len(d)) + i] = d[i]
    <3> DEFINE j == (Len(d) - i) + 1
    <3>1. j \in 1..Len(d) /\ (Len(t) - j) + 1 = (Len(t) - Len(d)) + i /\ (Len(d) - j) + 1 = i
      BY <1>1
    <3> HIDE DEF j
    <3>2. t[(Len(t) - j) + 1] = d[(Len(d) - j) + 1]
      BY <2>4, <3>1
    <3> QED BY <3>1, <3>2
  <2>5. ASSUME \A i \in 1..Len(d) : t[(Len(t) - Len(d)) + i] = d[i], NEW i \in 1..Len(d)
        PROVE  t[(Len(t) - i) + 1] = d[(Len(d) - i) + 1]
    <3> DEFINE j == (Len(d) - i) + 1
    <3>1. j \in 1..Len(d) /\ (Len(t) - Len(d)) + j = (Len(t) - i) + 1
      BY <1>1
    <3>2. t[(Len(t) - Len(d)) + j] = d[j]
      <4> HIDE DEF j
      <4> QED BY <2>5, <3>1
    <3> QED BY <3>1, <3>2
  <2> QED BY <2>3, <2>4, <2>5
<1> QED BY <1>3, <1>4, <1>5

(* A plugin's pattern.                                                      *)
LEMMA ListsMatch ==
  ASSUME NEW p \in Seq(STRING), NEW t \in Seq(STRING), Stars(p) \subseteq {1, Len(p)}
  PROVE  ListMatches(p, t) <=> p = <<>> \/ LetsPass(p, t, {0})
<1>1. /\ Len(p) \in Nat /\ Len(t) \in Nat /\ DOMAIN p = 1..Len(p)
      /\ \A i \in 1..Len(t) : t[i] \in STRING
  BY LenProperties, ElementOfSeq
<1>2. CASE p = <<>>
  BY <1>2 DEF ListMatches
<1>3. CASE p = <<"*">>
  <2>1. Len(p) = 1 /\ p[1] = "*"
    BY <1>3
  <2> DEFINE way == [i \in 0..1 |-> IF i = 0 THEN 0 ELSE Len(t)]
  <2>2. way \in [0..1 -> 0..Len(t)] /\ way[0] = 0 /\ way[1] = Len(t)
    BY <1>1
  <2> HIDE DEF way
  <2>3. \A i \in 1..1 : GoesOn(p, t, way[i - 1], way[i], i)
    <3>1. GoesOn(p, t, way[0], way[1], 1)
      BY <1>1, <2>1, <2>2 DEF GoesOn
    <3> QED BY <3>1
  <2>4. LetsPass(p, t, {0})
    BY <2>1, <2>2, <2>3 DEF LetsPass, Way
  <2> QED BY <1>3, <2>4 DEF ListMatches
<1> SUFFICES ASSUME p # <<>>, p # <<"*">> PROVE ListMatches(p, t) <=> LetsPass(p, t, {0})
  BY <1>2, <1>3
<1>4. /\ Lo(p) \in 0..Len(p) /\ Hi(p) \in 0..Len(p) /\ Lo(p) <= Hi(p)
      /\ (LetsPass(p, t, {0}) <=> \E k \in 0..Len(t) : Middle(p, t, k))
  BY MiddlePasses
<1> DEFINE mid == SubSeq(p, Lo(p) + 1, Hi(p))
           len == Hi(p) - Lo(p)
<1>5. mid \in Seq(STRING) /\ Len(mid) = len /\ \A i \in 1..len : mid[i] = p[Lo(p) + i]
  BY <1>4, CutOut
<1>6. len \in Nat
  BY <1>1, <1>4
<1>7. \A k \in 0..Len(t) : Middle(p, t, k) <=>
        /\ k + len <= Len(t) /\ (p[1] # "*" => k = 0) /\ (p[Len(p)] # "*" => k + len = Len(t))
        /\ \A i \in 1..len : t[k + i] = mid[i]
  BY <1>5 DEF Middle
<1> HIDE DEF mid, len
<1>8. \A k \in 0..Len(t) : k + len <= Len(t) => (At(t, mid, k) <=> \A i \in 1..len : t[k + i] = mid[i])
  <2> TAKE k \in 0..Len(t)
  <2> HAVE k + len <= Len(t)
  <2>1. k \in Nat /\ k + Len(mid) <= Len(t)
    BY <1>1, <1>5
  <2>2. At(t, mid, k) <=> \A i \in 1..Len(mid) : t[k + i] = mid[i]
    BY <1>5, <2>1, PartOf
  <2> QED BY <1>5, <2>2
<1>9. CASE p[1] = "*" /\ p[Len(p)] = "*"
  <2>1. Trim(p) = mid
    BY <1>9, TrimmedIsMiddle DEF mid
  <2>2. ListMatches(p, t) <=> \E i \in 0..(Len(t) - Len(mid)) : At(t, mid, i)
    BY <1>9, <2>1 DEF ListMatches
  <2>3. \A k : k \in 0..(Len(t) - Len(mid)) <=> k \in 0..Len(t) /\ k + len <= Len(t)
    BY <1>1, <1>5, <1>6
  <2> QED BY <1>4, <1>7, <1>8, <1>9, <2>2, <2>3
<1>10. CASE p[1] # "*" /\ p[Len(p)] = "*"
  <2>1. Lo(p) = 0 /\ Hi(p) = Len(p) - 1
    BY <1>10 DEF Lo, Hi
  <2>2. mid = Front(p)
    BY <2>1 DEF mid, Front
  <2>3. ListMatches(p, t) <=> IsPrefix(mid, t)
    BY <1>10, <2>2 DEF ListMatches
  <2>4. IsPrefix(mid, t) <=> len <= Len(t) /\ At(t, mid, 0)
    BY <1>1, <1>5, PrefixIs
  <2>5. 0 \in 0..Len(t) /\ 0 + len = len
    BY <1>1, <1>6
  <2>6. Middle(p, t, 0) <=> len <= Len(t) /\ At(t, mid, 0)
    BY <1>7, <1>8, <1>10, <2>5
  <2>7. \A k \in 0..Len(t) : Middle(p, t, k) => k = 0
    BY <1>7, <1>10
  <2> QED BY <1>4, <2>3, <2>4, <2>5, <2>6, <2>7
<1>11. CASE p[1] = "*" /\ p[Len(p)] # "*"
  <2>1. Lo(p) = 1 /\ Hi(p) = Len(p)
    BY <1>11 DEF Lo, Hi
  <2>2. mid = Tail(p)
    <3>1. Tail(p) \in Seq(STRING) /\ Len(Tail(p)) = Len(p) - 1 /\ \A i \in 1..(Len(p) - 1) : Tail(p)[i] = p[i + 1]
      BY HeadTailProperties
    <3>2. mid \in Seq(STRING) /\ Len(mid) = Len(p) - 1 /\ \A i \in 1..(Len(p) - 1) : mid[i] = p[1 + i]
      BY <1>5, <2>1 DEF len
    <3>3. \A i \in 1..Len(mid) : mid[i] = Tail(p)[i]
      BY <1>1, <3>1, <3>2
    <3> QED BY <3>1, <3>2, <3>3, SeqEqual
  <2>3. ListMatches(p, t) <=> IsSuffix(mid, t)
    BY <1>11, <2>2 DEF ListMatches
  <2>4. IsSuffix(mid, t) <=> len <= Len(t) /\ \A i \in 1..len : t[(Len(t) - len) + i] = mid[i]
    BY <1>5, SuffixIs
  <2>5. ASSUME len <= Len(t) PROVE Len(t) - len \in 0..Len(t) /\ (Len(t) - len) + len = Len(t)
    BY <1>1, <1>6, <2>5
  <2>6. ASSUME len <= Len(t), \A i \in 1..len : t[(Len(t) - len) + i] = mid[i] PROVE Middle(p, t, Len(t) - len)
    <3> DEFINE k == Len(t) - len
    <3>1. k \in 0..Len(t) /\ k + len = Len(t) /\ k + len <= Len(t) /\ \A i \in 1..len : t[k + i] = mid[i]
      BY <1>1, <2>5, <2>6
    <3> HIDE DEF k
    <3>2. Middle(p, t, k)
      BY <1>7, <1>11, <3>1
    <3> QED BY <3>2 DEF k
  <2>7. ASSUME NEW k \in 0..Len(t), Middle(p, t, k)
        PROVE  len <= Len(t) /\ \A i \in 1..len : t[(Len(t) - len) + i] = mid[i]
    <3>1. k + len = Len(t) /\ \A i \in 1..len : t[k + i] = mid[i]
      BY <1>7, <1>11, <2>7
    <3>2. k = Len(t) - len /\ len <= Len(t)
      BY <1>1, <1>6, <3>1
    <3> QED BY <3>1, <3>2
  <2> QED BY <1>4, <2>3, <2>4, <2>5, <2>6, <2>7
<1>12. CASE p[1] # "*" /\ p[Len(p)] # "*"
  <2>1. Lo(p) = 0 /\ Hi(p) = Len(p)
    BY <1>12 DEF Lo, Hi
  <2>2. len = Len(p) /\ \A i \in 1..len : mid[i] = p[i]
    BY <1>1, <1>5, <2>1 DEF len
  <2>3. ListMatches(p, t) <=> p = t
    BY <1>12 DEF ListMatches
  <2>4. ASSUME p = t PROVE Middle(p, t, 0)
    <3>1. 0 \in 0..Len(t) /\ 0 + len = Len(t) /\ 0 + len <= Len(t) /\ \A i \in 1..len : 0 + i = i
      BY <1>1, <2>2, <2>4
    <3> QED BY <1>7, <2>2, <2>4, <3>1
  <2>5. ASSUME NEW k \in 0..Len(t), Middle(p, t, k) PROVE p = t
    <3>1. k = 0 /\ k + len = Len(t) /\ \A i \in 1..len : t[k + i] = mid[i]
      BY <1>7, <1>12, <2>5
    <3>2. Len(p) = Len(t) /\ \A i \in 1..Len(p) : p[i] = t[i]
      BY <1>1, <2>2, <3>1
    <3> QED BY <3>2, SeqEqual
  <2>6. 0 \in 0..Len(t)
    BY <1>1
  <2> QED BY <1>4, <2>3, <2>4, <2>5, <2>6
<1> QED BY <1>9, <1>10, <1>11, <1>12

-----------------------------------------------------------------------------
(* A breakpoint's pattern without a star is a part of the text.             *)
LEMMA PartMatches ==
  ASSUME NEW p \in Seq(STRING), NEW t \in Seq(STRING), p # <<>>
  PROVE  (\E i \in 0..(Len(t) - Len(p)) : At(t, p, i)) <=> (\E i, j \in 0..Len(t) : p = SubSeq(t, i + 1, j))
<1>1. Len(p) \in Nat /\ Len(t) \in Nat /\ Len(p) > 0 /\ \A i \in 1..Len(t) : t[i] \in STRING
  BY LenProperties, ElementOfSeq, EmptySeq
<1>2. ASSUME NEW i \in 0..(Len(t) - Len(p)), At(t, p, i) PROVE \E k, j \in 0..Len(t) : p = SubSeq(t, k + 1, j)
  <2>1. i \in 0..Len(t) /\ i + Len(p) \in 0..Len(t)
    BY <1>1
  <2>2. p = SubSeq(t, i + 1, i + Len(p))
    BY <1>2 DEF At
  <2> QED BY <2>1, <2>2
<1>3. ASSUME NEW i \in 0..Len(t), NEW j \in 0..Len(t), p = SubSeq(t, i + 1, j)
      PROVE  \E k \in 0..(Len(t) - Len(p)) : At(t, p, k)
  <2>1. i < j
    <3> SUFFICES ASSUME ~(i < j) PROVE FALSE
      OBVIOUS
    <3>1. Len(SubSeq(t, i + 1, j)) = 0
      BY <1>1
    <3> QED BY <1>1, <1>3, <3>1
  <2>2. Len(p) = j - i
    <3>1. Len(SubSeq(t, i + 1, j)) = j - i
      BY <1>1, <2>1
    <3> QED BY <1>3, <3>1
  <2>3. i \in 0..(Len(t) - Len(p)) /\ i + Len(p) = j
    BY <1>1, <2>1, <2>2
  <2> QED BY <1>3, <2>3 DEF At
<1> QED BY <1>2, <1>3

LEMMA RulesMatch ==
  ASSUME NEW p \in Seq(STRING), NEW t \in Seq(STRING)
  PROVE  RuleMatches(p, t) <=>
           p # <<>> /\ (IF Stars(p) = {} THEN \E i, j \in 0..Len(t) : p = SubSeq(t, i + 1, j) ELSE Covers(p, t, 0))
<1>1. Len(t) \in Nat
  BY LenProperties
<1>2. {0} \in SUBSET (0..Len(t))
  BY <1>1
<1>3. Glob(p, t, {0}) <=> Covers(p, t, 0)
  BY <1>2, GlobPasses, CoversPasses
<1>4. CASE p = <<>>
  BY <1>4 DEF RuleMatches
<1>5. CASE p # <<>> /\ Stars(p) = {}
  BY <1>5, PartMatches DEF RuleMatches
<1>6. CASE p # <<>> /\ Stars(p) # {}
  BY <1>3, <1>6 DEF RuleMatches
<1> QED BY <1>4, <1>5, <1>6

LEMMA HostsMatch ==
  ASSUME NEW p \in Seq(STRING), NEW t \in Seq(STRING)
  PROVE  HostMatches(p, t) <=>
           p # <<>> /\ (Covers(p, t, 0) \/ (IsPrefix(<<"*", ".">>, p) /\ Covers(SubSeq(p, 3, Len(p)), t, 0)))
<1>1. Len(t) \in Nat /\ Len(p) \in Nat /\ \A i \in 1..Len(p) : p[i] \in STRING
  BY LenProperties, ElementOfSeq
<1>2. {0} \in SUBSET (0..Len(t)) /\ {0} \cup Dots(t) \in SUBSET (0..Len(t))
  <2>1. DOMAIN t = 1..Len(t)
    BY LenProperties
  <2> QED BY <1>1, <2>1 DEF Dots
<1>3. Glob(p, t, {0}) <=> Covers(p, t, 0)
  BY <1>2, GlobPasses, CoversPasses
<1>4. CASE ~IsPrefix(<<"*", ".">>, p)
  BY <1>3, <1>4 DEF HostMatches
<1>5. CASE IsPrefix(<<"*", ".">>, p)
  <2> DEFINE d == SubSeq(p, 3, Len(p))
  <2>1. Len(p) >= 2 /\ p[1] = "*" /\ p[2] = "."
    <3>1. 2 <= Len(p) /\ SubSeq(<<"*", ".">>, 1, 2) = SubSeq(p, 1, 2)
      BY <1>5 DEF IsPrefix
    <3>2. SubSeq(<<"*", ".">>, 1, 2)[1] = "*" /\ SubSeq(<<"*", ".">>, 1, 2)[2] = "."
      OBVIOUS
    <3>3. SubSeq(p, 1, 2)[1] = p[1] /\ SubSeq(p, 1, 2)[2] = p[2]
      BY <1>1, <3>1
    <3> QED BY <3>1, <3>2, <3>3
  <2>2. d \in Seq(STRING) /\ Len(p) = Len(d) + 2 /\ \A i \in 1..Len(d) : d[i] = p[i + 2]
    <3>1. 2 \in 0..Len(p) /\ 2 + 1 = 3
      BY <1>1, <2>1
    <3>2. /\ SubSeq(p, 2 + 1, Len(p)) \in Seq(STRING) /\ Len(SubSeq(p, 2 + 1, Len(p))) = Len(p) - 2
          /\ \A i \in 1..(Len(p) - 2) : SubSeq(p, 2 + 1, Len(p))[i] = p[i + 2]
      BY <3>1, SuffixElements
    <3>3. d \in Seq(STRING) /\ Len(d) = Len(p) - 2 /\ \A i \in 1..(Len(p) - 2) : d[i] = p[i + 2]
      BY <3>1, <3>2
    <3> HIDE DEF d
    <3> QED BY <1>1, <3>3
  <2>3. HostMatches(p, t) <=> Glob(d, t, {0} \cup Dots(t))
    <3>1. p # <<>>
      BY <2>1
    <3> QED BY <1>5, <3>1 DEF HostMatches
  <2>4. p # <<>>
    BY <2>1
  <2> HIDE DEF d
  <2>5. Glob(d, t, {0} \cup Dots(t)) <=> LetsPass(d, t, {0} \cup Dots(t))
    BY <1>2, <2>2, GlobPasses
  <2>6. LetsPass(d, t, {0} \cup Dots(t)) <=> LetsPass(d, t, {0}) \/ LetsPass(d, t, Dots(t))
    BY PassesFromEither
  <2>7. LetsPass(p, t, {0}) <=> LetsPass(d, t, Dots(t))
    BY <2>1, <2>2, SubdomainPasses
  <2>8. (Covers(p, t, 0) <=> LetsPass(p, t, {0})) /\ (Covers(d, t, 0) <=> LetsPass(d, t, {0}))
    BY <2>2, CoversPasses
  <2>9. HostMatches(p, t) <=> Covers(p, t, 0) \/ Covers(d, t, 0)
    BY <2>3, <2>5, <2>6, <2>7, <2>8
  <2> QED BY <1>5, <2>4, <2>9 DEF d
<1> QED BY <1>4, <1>5

LEMMA PatternsAreSound == ASSUME NEW p \in Seq(STRING), NEW t \in Seq(STRING) PROVE PatternSound(p, t)
<1> DEFINE scope(mode) == [enabled |-> TRUE, mode |-> mode, allow |-> {p}, deny |-> {p}]
<1>1. Allows(scope("allow"), t) <=> HostMatches(p, t)
  BY DEF Allows
<1>2. Allows(scope("deny"), t) <=> ~HostMatches(p, t)
  BY DEF Allows
<1>3. ShouldBreakFor({}, {[enabled |-> TRUE, phases |-> {"request"}, url |-> p]}, t, "request") <=> RuleMatches(p, t)
  BY DEF ShouldBreakFor
<1>4. Stars(p) \subseteq {1, Len(p)} => (ListMatches(p, t) <=> p = <<>> \/ Covers(p, t, 0))
  BY ListsMatch, CoversPasses
<1>5. Allows(scope("allow"), t) <=> ~Allows(scope("deny"), t)
  BY <1>1, <1>2
<1> HIDE DEF scope
<1> QED BY <1>3, <1>4, <1>5, RulesMatch, HostsMatch DEF PatternSound, scope

(* A list of rules grows at its end, a pattern letter by letter.            *)
MatchInv == RulesInv /\ pattern \in Seq(STRING) /\ text \in MatchTexts

LEMMA MatchBegins == MatchInit => MatchInv
BY DEF MatchInit, MatchInv, RulesInv

LEMMA MatchGoesOn == MatchInv /\ [MatchNext]_matchVars => MatchInv'
<1> SUFFICES ASSUME MatchInv, [MatchNext]_matchVars PROVE MatchInv'
  OBVIOUS
<1>1. CASE CreateRule
  <2>1. PICK r \in WrittenRules : r.id = Len(rules) + 1 /\ rules' = Append(rules, r)
    BY <1>1 DEF CreateRule
  <2>2. rules \in Seq(WrittenRules) /\ Len(rules) \in Nat
    BY LenProperties DEF MatchInv, RulesInv
  <2>3. /\ rules' \in Seq(WrittenRules) /\ Len(rules') = Len(rules) + 1
        /\ \A i \in 1..Len(rules') : rules'[i] = IF i <= Len(rules) THEN rules[i] ELSE r
    BY <2>1, <2>2, AppendProperties
  <2>4. ASSUME NEW i \in 1..Len(rules') PROVE rules'[i].id = i
    <3>1. CASE i <= Len(rules)
      <4>1. i \in 1..Len(rules) /\ rules'[i] = rules[i]
        BY <2>2, <2>3, <3>1
      <4> QED BY <4>1 DEF MatchInv, RulesInv
    <3>2. CASE ~(i <= Len(rules))
      <4>1. rules'[i] = r /\ i = Len(rules) + 1
        BY <2>2, <2>3, <3>2
      <4> QED BY <2>1, <4>1
    <3> QED BY <3>1, <3>2
  <2> QED BY <1>1, <2>3, <2>4 DEF CreateRule, MatchInv, RulesInv
<1>2. CASE TypeLetter
  <2>1. PICK c \in Letters : pattern' = Append(pattern, c)
    BY <1>2 DEF TypeLetter
  <2>2. c \in STRING /\ pattern \in Seq(STRING)
    BY TextsAreTexts DEF MatchInv
  <2>3. pattern' \in Seq(STRING)
    BY <2>1, <2>2, AppendProperties
  <2> QED BY <1>2, <2>3 DEF TypeLetter, MatchInv, RulesInv
<1>3. CASE UNCHANGED matchVars
  BY <1>3 DEF matchVars, MatchInv, RulesInv
<1> QED BY <1>1, <1>2, <1>3 DEF MatchNext

LEMMA MatchMeans == MatchInv => RulesMean
<1> SUFFICES ASSUME MatchInv PROVE RulesMean
  OBVIOUS
<1>1. RulesAct
  BY RulesInvAct DEF MatchInv
<1>2. pattern \in Seq(STRING) /\ text \in Seq(STRING)
  BY TextsAreTexts DEF MatchInv
<1>3. PatternSound(pattern, text)
  BY <1>2, PatternsAreSound
<1> QED BY <1>1, <1>3 DEF RulesMean, PatternsMean

(* Whatever rules are written and in whatever order, they are tried by      *)
(* priority, the disabled ones and those that ask for a response have no    *)
(* say on a request, the one that decides is the last that acts, the host   *)
(* and path follow a rewritten URL, and only flows marked as modified are   *)
(* (engine.go:47, engine.go:190); and whatever pattern is typed, of a       *)
(* breakpoint, a scope or a plugin, it matches the texts that its stars can *)
(* be stretched to cover (breakpoint.go:242, scope.go:95, plugin.go:1008).  *)
THEOREM RulesAlwaysMean == MatchSpec => []RulesMean
<1>1. MatchInit => MatchInv
  BY MatchBegins
<1>2. MatchInv /\ [MatchNext]_matchVars => MatchInv'
  BY MatchGoesOn
<1>3. MatchInv => RulesMean
  BY MatchMeans
<1> QED BY <1>1, <1>2, <1>3, PTL DEF MatchSpec
=============================================================================
