--------------------------- MODULE SequenceLemmas ---------------------------
(***************************************************************************)
(* Facts about sequences without repetitions: the stores and the caches    *)
(* keep their keys in one, take them from its head when they are full and  *)
(* from its middle when one of them is deleted.                            *)
(***************************************************************************)
EXTENDS Integers, Sequences, SequencesExt, Selection, SequenceTheorems,
        FiniteSetTheorems, WellFoundedInduction, TLAPS

Distinct(s) == \A i, j \in DOMAIN s : s[i] = s[j] => i = j

(* Adding an element that is not there yet.                                *)
LEMMA AppendKeepsSet ==
  ASSUME NEW S, NEW s \in Seq(S), NEW x \in S
  PROVE  /\ Append(s, x) \in Seq(S)
         /\ ToSet(Append(s, x)) = ToSet(s) \cup {x}
         /\ Distinct(s) /\ x \notin ToSet(s) => Distinct(Append(s, x))
<1> DEFINE g == Append(s, x)
<1>1. /\ Len(s) \in Nat /\ DOMAIN s = 1..Len(s)
      /\ g \in Seq(S) /\ Len(g) = Len(s) + 1 /\ DOMAIN g = 1..Len(g)
      /\ \A i \in 1..Len(s) : g[i] = s[i]
      /\ g[Len(s) + 1] = x
  BY AppendProperties, LenProperties
<1> HIDE DEF g
<1>2. ASSUME NEW y \in ToSet(g) PROVE y \in ToSet(s) \cup {x}
  BY <1>1, <1>2 DEF ToSet
<1>3. ASSUME NEW y \in ToSet(s) PROVE y \in ToSet(g)
  <2>1. PICK i \in 1..Len(s) : y = s[i]
    BY <1>1, <1>3 DEF ToSet
  <2> QED BY <1>1, <2>1 DEF ToSet
<1>4. x \in ToSet(g)
  BY <1>1 DEF ToSet
<1>5. ASSUME Distinct(s), x \notin ToSet(s) PROVE Distinct(g)
  <2> SUFFICES ASSUME NEW i \in 1..Len(g), NEW j \in 1..Len(g), g[i] = g[j] PROVE i = j
      BY <1>1 DEF Distinct
  <2>1. CASE i \in 1..Len(s) /\ j \in 1..Len(s)
    BY <1>1, <1>5, <2>1 DEF Distinct
  <2>2. CASE ~ (i \in 1..Len(s) /\ j \in 1..Len(s))
    <3>1. \A l \in 1..Len(s) : s[l] # x
      BY <1>1, <1>5 DEF ToSet
    <3> QED BY <1>1, <2>2, <3>1
  <2> QED BY <2>1, <2>2
<1> QED BY <1>1, <1>2, <1>3, <1>4, <1>5 DEF g

(* Cutting off the first k elements.                                       *)
LEMMA SuffixElements ==
  ASSUME NEW S, NEW s \in Seq(S), NEW k \in 0..Len(s)
  PROVE  /\ SubSeq(s, k + 1, Len(s)) \in Seq(S)
         /\ Len(SubSeq(s, k + 1, Len(s))) = Len(s) - k
         /\ \A i \in 1..(Len(s) - k) : SubSeq(s, k + 1, Len(s))[i] = s[i + k]
<1>1. Len(s) \in Nat
  BY LenProperties
<1>2. \A i \in (k + 1)..Len(s) : s[i] \in S
  BY <1>1, ElementOfSeq
<1>3. /\ SubSeq(s, k + 1, Len(s)) \in Seq(S)
      /\ Len(SubSeq(s, k + 1, Len(s))) = Len(s) - k
      /\ \A i \in 1..(Len(s) - k) : SubSeq(s, k + 1, Len(s))[i] = s[k + 1 + i - 1]
  BY <1>1, <1>2
<1> QED BY <1>1, <1>3

LEMMA PrefixSet ==
  ASSUME NEW S, NEW s \in Seq(S), NEW k \in 0..Len(s)
  PROVE  ToSet(SubSeq(s, 1, k)) = {s[i] : i \in 1..k}
<1>1. Len(s) \in Nat
  BY LenProperties
<1>2. /\ DOMAIN SubSeq(s, 1, k) = 1..k
      /\ \A i \in 1..k : SubSeq(s, 1, k)[i] = s[i]
  BY <1>1
<1> QED BY <1>2 DEF ToSet

(* What is cut off and what is left share nothing and miss nothing.        *)
LEMMA CutKeepsSet ==
  ASSUME NEW S, NEW s \in Seq(S), Distinct(s), NEW k \in 0..Len(s)
  PROVE  /\ Distinct(SubSeq(s, k + 1, Len(s)))
         /\ ToSet(SubSeq(s, k + 1, Len(s))) = ToSet(s) \ ToSet(SubSeq(s, 1, k))
<1> DEFINE t == SubSeq(s, k + 1, Len(s))
<1>1. /\ Len(s) \in Nat /\ DOMAIN s = 1..Len(s)
      /\ t \in Seq(S) /\ Len(t) = Len(s) - k
      /\ \A i \in 1..Len(t) : t[i] = s[i + k]
      /\ DOMAIN t = 1..Len(t)
  BY SuffixElements, LenProperties
<1>2. ToSet(SubSeq(s, 1, k)) = {s[i] : i \in 1..k}
  BY PrefixSet
<1> HIDE DEF t
<1>3. Distinct(t)
  <2> SUFFICES ASSUME NEW i \in 1..Len(t), NEW j \in 1..Len(t), t[i] = t[j] PROVE i = j
      BY <1>1 DEF Distinct
  <2>1. i + k \in DOMAIN s /\ j + k \in DOMAIN s /\ s[i + k] = s[j + k]
    BY <1>1
  <2>2. i + k = j + k
    BY <2>1 DEF Distinct
  <2> QED BY <1>1, <2>2
<1>4. ToSet(t) = ToSet(s) \ {s[i] : i \in 1..k}
  <2>1. ASSUME NEW x \in ToSet(t) PROVE x \in ToSet(s) \ {s[i] : i \in 1..k}
    <3>1. PICK i \in 1..Len(t) : x = s[i + k]
      BY <1>1, <2>1 DEF ToSet
    <3>2. i + k \in DOMAIN s /\ i + k \notin 1..k
      BY <1>1, <3>1
    <3>3. \A j \in 1..k : s[j] # s[i + k]
      <4> TAKE j \in 1..k
      <4>1. j \in DOMAIN s /\ j # i + k
        BY <1>1, <3>2
      <4> QED BY <3>2, <4>1 DEF Distinct
    <3> QED BY <3>1, <3>2, <3>3 DEF ToSet
  <2>2. ASSUME NEW x \in ToSet(s) \ {s[i] : i \in 1..k} PROVE x \in ToSet(t)
    <3>1. PICK i \in 1..Len(s) : x = s[i]
      BY <1>1, <2>2 DEF ToSet
    <3>2. i - k \in 1..Len(t) /\ (i - k) + k = i
      BY <1>1, <2>2, <3>1
    <3> QED BY <1>1, <3>1, <3>2 DEF ToSet
  <2> QED BY <2>1, <2>2
<1> QED BY <1>2, <1>3, <1>4 DEF t

(* Taking one element out of the middle.                                   *)
LEMMA RemoveElements ==
  ASSUME NEW S, NEW s \in Seq(S), Distinct(s), NEW k \in DOMAIN s
  PROVE  /\ RemoveFirst(s, s[k]) \in Seq(S)
         /\ Len(RemoveFirst(s, s[k])) = Len(s) - 1
         /\ \A j \in 1..(Len(s) - 1) :
               RemoveFirst(s, s[k])[j] = IF j < k THEN s[j] ELSE s[j + 1]
<1> DEFINE t == SubSeq(s, 1, k - 1)
           u == SubSeq(s, k + 1, Len(s))
<1>1. Len(s) \in Nat /\ DOMAIN s = 1..Len(s) /\ k \in 1..Len(s)
  BY LenProperties
<1>2. RemoveFirst(s, s[k]) = t \o u
  <2>1. {i \in 1..Len(s) : s[i] = s[k]} = {k}
    BY <1>1 DEF Distinct
  <2>2. SelectInSeq(s, LAMBDA v : v = s[k]) = k
    BY <1>1, <2>1 DEF SelectInSeq, Min
  <2> QED BY <1>1, <2>2 DEF RemoveFirst, RemoveAt
<1>3. \A i \in 1..Len(s) : s[i] \in S
  BY ElementOfSeq
<1>4. /\ t \in Seq(S) /\ Len(t) = k - 1
      /\ \A i \in 1..(k - 1) : t[i] = s[i]
  BY <1>1, <1>3
<1>5. /\ u \in Seq(S) /\ Len(u) = Len(s) - k
      /\ \A i \in 1..(Len(s) - k) : u[i] = s[k + 1 + i - 1]
  BY <1>1, <1>3
<1> HIDE DEF t, u
<1>6. /\ t \o u \in Seq(S)
      /\ Len(t \o u) = Len(s) - 1
      /\ \A j \in 1..(Len(s) - 1) : (t \o u)[j] = IF j < k THEN s[j] ELSE s[j + 1]
  <2>0. /\ t \o u \in Seq(S) /\ Len(t \o u) = Len(t) + Len(u)
        /\ \A i \in 1..(Len(t) + Len(u)) :
              (t \o u)[i] = IF i <= Len(t) THEN t[i] ELSE u[i - Len(t)]
    BY <1>4, <1>5, ConcatProperties
  <2>1. t \o u \in Seq(S) /\ Len(t \o u) = Len(s) - 1
    BY <1>1, <1>4, <1>5, <2>0
  <2>2. ASSUME NEW j \in 1..(Len(s) - 1), j < k PROVE (t \o u)[j] = s[j]
    BY <1>1, <1>4, <1>5, <2>0, <2>2
  <2>3. ASSUME NEW j \in 1..(Len(s) - 1), ~ (j < k) PROVE (t \o u)[j] = s[j + 1]
    <3>1. j - (k - 1) \in 1..(Len(s) - k) /\ k + 1 + (j - (k - 1)) - 1 = j + 1
      BY <1>1, <2>3
    <3>2. (t \o u)[j] = u[j - (k - 1)]
      BY <1>1, <1>4, <1>5, <2>0, <2>3
    <3> QED BY <1>5, <3>1, <3>2
  <2> QED BY <2>1, <2>2, <2>3
<1> QED BY <1>2, <1>6

LEMMA RemoveKeepsSet ==
  ASSUME NEW S, NEW s \in Seq(S), Distinct(s), NEW k \in DOMAIN s
  PROVE  /\ Distinct(RemoveFirst(s, s[k]))
         /\ ToSet(RemoveFirst(s, s[k])) = ToSet(s) \ {s[k]}
<1> DEFINE t == RemoveFirst(s, s[k])
<1>1. /\ Len(s) \in Nat /\ DOMAIN s = 1..Len(s) /\ k \in 1..Len(s)
      /\ t \in Seq(S) /\ Len(t) = Len(s) - 1 /\ DOMAIN t = 1..Len(t)
      /\ \A j \in 1..(Len(s) - 1) : t[j] = IF j < k THEN s[j] ELSE s[j + 1]
  BY RemoveElements, LenProperties
<1> HIDE DEF t
<1>2. Distinct(t)
  <2> DEFINE From(j) == IF j < k THEN j ELSE j + 1
  <2> SUFFICES ASSUME NEW i \in 1..Len(t), NEW j \in 1..Len(t), t[i] = t[j] PROVE i = j
      BY <1>1 DEF Distinct
  <2>1. /\ From(i) \in DOMAIN s /\ From(j) \in DOMAIN s
        /\ s[From(i)] = s[From(j)]
    BY <1>1
  <2>2. From(i) = From(j)
    BY <2>1 DEF Distinct
  <2> QED BY <1>1, <2>2
<1>3. ASSUME NEW x \in ToSet(t) PROVE x \in ToSet(s) \ {s[k]}
  <2>1. PICK j \in 1..(Len(s) - 1) : x = IF j < k THEN s[j] ELSE s[j + 1]
    BY <1>1, <1>3 DEF ToSet
  <2> QED BY SMTT(30), <1>1, <2>1 DEF ToSet, Distinct
<1>4. ASSUME NEW x \in ToSet(s) \ {s[k]} PROVE x \in ToSet(t)
  <2>1. PICK i \in 1..Len(s) : x = s[i] /\ i # k
    BY <1>1, <1>4 DEF ToSet
  <2>2. CASE i < k
    BY <1>1, <2>1, <2>2 DEF ToSet
  <2>3. CASE i > k
    <3>1. i - 1 \in 1..(Len(s) - 1) /\ ~ (i - 1 < k) /\ (i - 1) + 1 = i
      BY <1>1, <2>1, <2>3
    <3>2. t[i - 1] = x
      BY <1>1, <2>1, <3>1
    <3> QED BY <1>1, <3>1, <3>2 DEF ToSet
  <2> QED BY <1>1, <2>1, <2>2, <2>3
<1> QED BY <1>2, <1>3, <1>4 DEF t

(* A stack: taking its last element off, and dropping its first one.       *)
LEMMA FrontKeepsSet ==
  ASSUME NEW S, NEW s \in Seq(S), s # <<>>
  PROVE  /\ Front(s) \in Seq(S) /\ Len(Front(s)) = Len(s) - 1
         /\ Last(s) \in ToSet(s)
         /\ Distinct(s) => /\ Distinct(Front(s))
                           /\ ToSet(Front(s)) = ToSet(s) \ {Last(s)}
<1> DEFINE t == Front(s)
<1>0. Len(s) \in Nat /\ Len(s) > 0 /\ DOMAIN s = 1..Len(s)
  BY EmptySeq, LenProperties
<1>1. /\ t \in Seq(S) /\ Len(t) = Len(s) - 1 /\ DOMAIN t = 1..(Len(s) - 1)
      /\ \A i \in 1..(Len(s) - 1) : t[i] = s[i]
      /\ Last(s) = s[Len(s)]
  BY <1>0 DEF Front, Last
<1> HIDE DEF t
<1>2. Last(s) \in ToSet(s)
  BY <1>0, <1>1 DEF ToSet
<1>3. ASSUME Distinct(s) PROVE Distinct(t)
  BY <1>0, <1>1, <1>3 DEF Distinct
<1>4. ASSUME Distinct(s) PROVE ToSet(t) = ToSet(s) \ {Last(s)}
  <2>1. ASSUME NEW x \in ToSet(t) PROVE x \in ToSet(s) \ {Last(s)}
    <3>1. PICK i \in 1..(Len(s) - 1) : x = s[i]
      BY <1>1, <2>1 DEF ToSet
    <3>2. i \in DOMAIN s /\ Len(s) \in DOMAIN s /\ i # Len(s)
      <4>1. Len(s) \in Nat /\ Len(s) > 0
        BY <1>0
      <4>2. i \in 1..Len(s) /\ Len(s) \in 1..Len(s) /\ i # Len(s)
        BY <4>1
      <4> QED BY <1>0, <4>2
    <3>3. s[i] # s[Len(s)]
      BY <1>4, <3>2 DEF Distinct
    <3> QED BY <1>1, <3>1, <3>2, <3>3 DEF ToSet
  <2>2. ASSUME NEW x \in ToSet(s) \ {Last(s)} PROVE x \in ToSet(t)
    <3>1. PICK i \in 1..Len(s) : x = s[i]
      BY <1>0, <2>2 DEF ToSet
    <3>2. i \in 1..(Len(s) - 1)
      BY <1>0, <1>1, <2>2, <3>1
    <3> QED BY <1>1, <3>1, <3>2 DEF ToSet
  <2> QED BY <2>1, <2>2
<1> QED BY <1>1, <1>2, <1>3, <1>4 DEF t

LEMMA TailKeepsSet ==
  ASSUME NEW S, NEW s \in Seq(S), s # <<>>, Distinct(s)
  PROVE  /\ Tail(s) \in Seq(S) /\ Len(Tail(s)) = Len(s) - 1
         /\ Distinct(Tail(s))
         /\ ToSet(Tail(s)) = ToSet(s) \ {Head(s)}
         /\ Head(s) \in ToSet(s)
<1>1. Len(s) \in Nat /\ Len(s) > 0 /\ DOMAIN s = 1..Len(s) /\ Head(s) = s[1]
  BY EmptySeq, LenProperties, HeadTailProperties
<1>2. Tail(s) = SubSeq(s, 2, Len(s)) /\ Tail(s) \in Seq(S) /\ Len(Tail(s)) = Len(s) - 1
  BY TailIsSubSeq, HeadTailProperties
<1>3. 1 \in 0..Len(s) /\ 1 + 1 = 2
  BY <1>1
<1>4. Distinct(Tail(s)) /\ ToSet(Tail(s)) = ToSet(s) \ ToSet(SubSeq(s, 1, 1))
  <2>1. /\ Distinct(SubSeq(s, 1 + 1, Len(s)))
        /\ ToSet(SubSeq(s, 1 + 1, Len(s))) = ToSet(s) \ ToSet(SubSeq(s, 1, 1))
    BY <1>3, CutKeepsSet
  <2> QED BY <1>2, <1>3, <2>1
<1>5. ToSet(SubSeq(s, 1, 1)) = {s[i] : i \in 1..1}
  BY <1>3, PrefixSet
<1>6. ToSet(SubSeq(s, 1, 1)) = {Head(s)}
  BY <1>1, <1>5
<1>7. Head(s) \in ToSet(s)
  BY <1>1 DEF ToSet
<1> QED BY <1>2, <1>4, <1>6, <1>7

(* What an element appended does to a sequence.                            *)
LEMMA AppendFacts ==
  ASSUME NEW S, NEW s \in Seq(S), NEW x \in S
  PROVE  /\ Len(s) \in Nat /\ Append(s, x) \in Seq(S) /\ Len(Append(s, x)) = Len(s) + 1
         /\ \A i \in 1..Len(s) : Append(s, x)[i] = s[i] /\ s[i] \in S
         /\ Append(s, x)[Len(s) + 1] = x
  BY AppendProperties, LenProperties, ElementOfSeq

(* The last n elements of a sequence, and what is left of a longer one     *)
(* when only n elements fit.                                               *)
LastOf(s, n) ==
  LET k == IF Len(s) < n THEN Len(s) ELSE n IN SubSeq(s, Len(s) - k + 1, Len(s))
Cut(s, n) == IF Len(s) > n THEN SubSeq(s, Len(s) - n + 1, Len(s)) ELSE s

(* A window over the last elements: a new one comes in at its end, and the *)
(* oldest goes when it is full.                                            *)
LEMMA LastMoves ==
  ASSUME NEW E, NEW n \in Nat, n > 0, NEW s \in Seq(E), NEW m \in E,
         NEW kept, kept = LastOf(s, n)
  PROVE  /\ kept \in Seq(E) /\ Len(kept) = (IF Len(s) < n THEN Len(s) ELSE n)
         /\ Cut(Append(kept, m), n) \in Seq(E)
         /\ Cut(Append(kept, m), n) = LastOf(Append(s, m), n)
<1> DEFINE k == IF Len(s) < n THEN Len(s) ELSE n
           mt == Append(s, m)
           longer == Append(kept, m)
           l == IF Len(mt) < n THEN Len(mt) ELSE n
           ending == SubSeq(mt, Len(mt) - l + 1, Len(mt))
<1>0. n \in Nat /\ n > 0 /\ Len(s) \in Nat
  BY LenProperties
<1>1. Len(s) - k \in 0..Len(s) /\ Len(s) - (Len(s) - k) = k
  BY <1>0
<1>2. /\ kept \in Seq(E) /\ Len(kept) = k
      /\ \A i \in 1..k : kept[i] = s[i + (Len(s) - k)]
  <2>1. /\ SubSeq(s, (Len(s) - k) + 1, Len(s)) \in Seq(E)
        /\ Len(SubSeq(s, (Len(s) - k) + 1, Len(s))) = Len(s) - (Len(s) - k)
        /\ \A i \in 1..(Len(s) - (Len(s) - k)) :
              SubSeq(s, (Len(s) - k) + 1, Len(s))[i] = s[i + (Len(s) - k)]
    BY <1>1, SuffixElements
  <2>2. kept = SubSeq(s, (Len(s) - k) + 1, Len(s))
    BY DEF LastOf
  <2> QED BY <1>1, <2>1, <2>2
<1>3. /\ mt \in Seq(E) /\ Len(mt) = Len(s) + 1
      /\ \A i \in 1..Len(s) : mt[i] = s[i]
      /\ mt[Len(s) + 1] = m
  BY AppendFacts
<1>4. /\ longer \in Seq(E) /\ Len(longer) = k + 1
      /\ \A i \in 1..k : longer[i] = kept[i]
      /\ longer[k + 1] = m
  BY <1>2, AppendFacts
<1> HIDE DEF mt, longer
<1> DEFINE few == Len(s) < n
<1>a. few => (k = Len(s) /\ l = Len(s) + 1)
  BY <1>0, <1>3
<1>b. ~few => (k = n /\ l = n)
  BY <1>0, <1>3
<1>c. few <=> Len(s) + 1 <= n
  BY <1>0
<1> HIDE DEF k, l, ending, few
<1>5. /\ Len(mt) - l \in 0..Len(mt) /\ Len(mt) - (Len(mt) - l) = l
      /\ (k + 1 > n) => (l = k /\ k = n)
      /\ ~(k + 1 > n) => (l = k + 1 /\ k = Len(s))
      /\ k \in Nat
  <2>1. CASE few
    BY <1>0, <1>3, <1>a, <1>c, <2>1
  <2>2. CASE ~few
    BY <1>0, <1>3, <1>b, <1>c, <2>2
  <2> QED BY <2>1, <2>2
<1>6. /\ ending \in Seq(E) /\ Len(ending) = l
      /\ \A i \in 1..l : ending[i] = mt[i + (Len(mt) - l)]
  <2>1. /\ SubSeq(mt, (Len(mt) - l) + 1, Len(mt)) \in Seq(E)
        /\ Len(SubSeq(mt, (Len(mt) - l) + 1, Len(mt))) = Len(mt) - (Len(mt) - l)
        /\ \A i \in 1..(Len(mt) - (Len(mt) - l)) :
              SubSeq(mt, (Len(mt) - l) + 1, Len(mt))[i] = mt[i + (Len(mt) - l)]
    BY <1>3, <1>5, SuffixElements
  <2> QED BY <1>5, <2>1 DEF ending
<1>7. ASSUME k + 1 > n PROVE Cut(longer, n) = ending
  <2> DEFINE rest == SubSeq(longer, Len(longer) - n + 1, Len(longer))
  <2>1. Len(longer) - n = 1 /\ 1 \in 0..Len(longer)
    BY <1>4, <1>5, <1>7
  <2>2. /\ SubSeq(longer, 1 + 1, Len(longer)) \in Seq(E)
        /\ Len(SubSeq(longer, 1 + 1, Len(longer))) = Len(longer) - 1
        /\ \A i \in 1..(Len(longer) - 1) : SubSeq(longer, 1 + 1, Len(longer))[i] = longer[i + 1]
    BY <1>4, <2>1, SuffixElements
  <2>3. rest \in Seq(E) /\ Len(rest) = k /\ \A i \in 1..k : rest[i] = longer[i + 1]
    <3>1. Len(longer) - 1 = k
      BY <1>4, <1>5
    <3>2. rest = SubSeq(longer, 1 + 1, Len(longer))
      BY <2>1
    <3> QED BY <2>2, <3>1, <3>2
  <2> HIDE DEF rest
  <2>4. \A i \in 1..k : rest[i] = ending[i]
    <3> TAKE i \in 1..k
    <3>1. ending[i] = mt[i + (Len(s) + 1 - k)]
      BY <1>3, <1>5, <1>6, <1>7
    <3>2. CASE i = k
      BY <1>0, <1>3, <1>4, <1>5, <2>3, <3>1, <3>2
    <3>3. CASE i # k
      <4>1. i + 1 \in 1..k /\ (i + 1) + (Len(s) - k) \in 1..Len(s)
        BY <1>0, <1>1, <1>5, <1>7, <3>3
      <4>2. rest[i] = s[(i + 1) + (Len(s) - k)]
        BY <1>2, <1>4, <2>3, <4>1
      <4>3. (i + 1) + (Len(s) - k) = i + (Len(s) + 1 - k)
        BY <1>0, <1>5
      <4> QED BY <1>3, <3>1, <4>1, <4>2, <4>3
    <3> QED BY <3>2, <3>3
  <2>5. rest = ending
    BY <1>5, <1>6, <1>7, <2>3, <2>4, SeqEqual
  <2>6. Len(longer) > n
    BY <1>4, <1>7
  <2> QED BY <2>5, <2>6 DEF Cut, rest
<1>8. ASSUME ~(k + 1 > n) PROVE Cut(longer, n) = ending
  <2>1. Cut(longer, n) = longer
    BY <1>4, <1>8 DEF Cut
  <2>2. \A i \in 1..l : longer[i] = ending[i]
    <3> TAKE i \in 1..l
    <3>1. ending[i] = mt[i]
      <4>1. i + (Len(mt) - l) = i
        BY <1>0, <1>3, <1>5, <1>8
      <4> QED BY <1>6, <4>1
    <3>2. CASE i \in 1..k
      <4>1. i + (Len(s) - k) = i /\ i \in 1..Len(s)
        BY <1>0, <1>5, <1>8, <3>2
      <4> QED BY <1>2, <1>3, <1>4, <3>1, <3>2, <4>1
    <3>3. CASE i = k + 1
      BY <1>3, <1>4, <1>5, <1>8, <3>1, <3>3
    <3> QED BY <1>5, <1>8, <3>2, <3>3
  <2>3. longer = ending
    BY <1>4, <1>5, <1>6, <1>8, <2>2, SeqEqual
  <2> QED BY <2>1, <2>3
<1>9. Cut(longer, n) = ending
  BY <1>7, <1>8
<1>10. ending = LastOf(mt, n)
  BY DEF LastOf, ending, l
<1>11. Len(kept) = (IF Len(s) < n THEN Len(s) ELSE n)
  BY <1>2 DEF k
<1> QED BY <1>2, <1>6, <1>9, <1>10, <1>11 DEF mt, longer

(* A sequence is its head and its tail.                                    *)
LEMMA HeadAndTail ==
  ASSUME NEW S, NEW s \in Seq(S), s # <<>>
  PROVE  Tail(s) \in Seq(S) /\ Head(s) \in S /\ ToSet(s) = {Head(s)} \cup ToSet(Tail(s))
<1>1. Len(s) \in Nat /\ Len(s) > 0 /\ DOMAIN s = 1..Len(s) /\ Head(s) = s[1] /\ s[1] \in S
  BY HeadTailProperties, LenProperties, EmptySeq, ElementOfSeq
<1>2. Tail(s) \in Seq(S) /\ Len(Tail(s)) = Len(s) - 1
  BY HeadTailProperties
<1>3. \A i \in 1..(Len(s) - 1) : Tail(s)[i] = s[i + 1]
  BY HeadTailProperties, <1>1, <1>2
<1> DEFINE t == Tail(s)
<1>4. DOMAIN t = 1..(Len(s) - 1)
  BY <1>1, <1>2, LenProperties
<1> HIDE DEF t
<1>5. ToSet(t) \subseteq ToSet(s) /\ Head(s) \in ToSet(s)
  BY <1>1, <1>3, <1>4 DEF ToSet, t
<1>6. ASSUME NEW x \in ToSet(s), x # Head(s) PROVE x \in ToSet(t)
  <2>1. PICK i \in 1..Len(s) : x = s[i]
    BY <1>1 DEF ToSet
  <2>2. i - 1 \in 1..(Len(s) - 1) /\ (i - 1) + 1 = i
    BY <1>1, <1>6, <2>1
  <2>3. t[i - 1] = x
    BY <1>3, <2>1, <2>2 DEF t
  <2> QED BY <1>4, <2>2, <2>3 DEF ToSet
<1> QED BY <1>1, <1>2, <1>5, <1>6 DEF t

-----------------------------------------------------------------------------
(* Selections.  What they contain follows by induction over the part of    *)
(* the sequence that was looked at; the natural numbers have a least       *)
(* element in every set that is not empty.                                 *)
LEMMA SetInduction ==
  ASSUME NEW S \in SUBSET Nat, 0 \in S, \A n \in S : n + 1 \in S
  PROVE  S = Nat
<1> SUFFICES ASSUME S # Nat PROVE FALSE
  OBVIOUS
<1> DEFINE T == Nat \ S
           R == OpToRel(<, Nat)
<1>1. T \subseteq Nat /\ T # {}
  OBVIOUS
<1>2. IsWellFoundedOn(R, Nat)
  BY NatLessThanWellFounded
<1>3. \A y, x \in Nat : (y < x) => <<y, x>> \in R
  BY DEF OpToRel
<1> HIDE DEF R
<1>4. PICK x \in T : \A y \in T : ~(<<y, x>> \in R)
  BY <1>1, <1>2, WFMin
<1>5. x \in Nat /\ x # 0 /\ x - 1 \in Nat /\ x - 1 < x
  OBVIOUS
<1>6. x - 1 \notin T
  BY <1>3, <1>4, <1>5
<1> QED BY <1>4, <1>5, <1>6

(* One step of Only.                                                        *)
Selected(s, T, o, n) == IF s[n] \in T THEN Append(o, s[n]) ELSE o

LEMMA OnlyIsDefined ==
  ASSUME NEW S, NEW s \in Seq(S), NEW T
  PROVE  \E f : /\ f[0] = <<>> /\ Only(s, T) = f[Len(s)]
                /\ \A n \in 1..Len(s) : f[n] = Selected(s, T, f[n - 1], n)
<1> DEFINE Rec(f, m) == f = [n \in 0..m |-> IF n = 0 THEN <<>> ELSE Selected(s, T, f[n - 1], n)]
           D == {m \in Nat : \E f : Rec(f, m)}
<1>1. 0 \in D
  <2>1. Rec([n \in 0..0 |-> <<>>], 0)
    OBVIOUS
  <2> QED BY <2>1
<1>2. ASSUME NEW m \in D PROVE m + 1 \in D
  <2>1. PICK f : Rec(f, m)
    OBVIOUS
  <2> DEFINE g == [n \in 0..(m + 1) |-> IF n = m + 1 THEN Selected(s, T, f[m], m + 1) ELSE f[n]]
  <2>2. ASSUME NEW n \in 0..(m + 1), n # 0
        PROVE  g[n] = Selected(s, T, g[n - 1], n)
    <3>1. n - 1 \in 0..m /\ m \in Nat
      BY <2>2
    <3>2. g[n - 1] = f[n - 1]
      BY <3>1
    <3>3. CASE n = m + 1
      BY <3>2, <3>3
    <3>4. CASE n # m + 1
      BY <2>1, <2>2, <3>2, <3>4
    <3> QED BY <3>3, <3>4
  <2>3. g[0] = <<>>
    BY <2>1
  <2>4. g = [n \in 0..(m + 1) |-> g[n]]
    OBVIOUS
  <2> HIDE DEF g
  <2>5. Rec(g, m + 1)
    BY <2>2, <2>3, <2>4
  <2> QED BY <2>5
<1> HIDE DEF D
<1>3. D = Nat
  BY <1>1, <1>2, SetInduction DEF D
<1>4. Len(s) \in Nat
  BY LenProperties
<1> DEFINE F == CHOOSE f : Rec(f, Len(s))
<1>5. Rec(F, Len(s))
  BY <1>3, <1>4 DEF D
<1>6. Only(s, T) = F[Len(s)]
  BY DEF Only, Selected
<1> HIDE DEF F
<1>7. F[0] = <<>> /\ \A n \in 1..Len(s) : F[n] = Selected(s, T, F[n - 1], n)
  BY <1>4, <1>5
<1> QED BY <1>6, <1>7

(* Where the elements of o, the selection from the first n of s, come from. *)
Embeds(s, T, o, n) ==
  \E h \in [1..Len(o) -> 1..n] :
    /\ \A i, j \in 1..Len(o) : i < j => h[i] < h[j]
    /\ \A i \in 1..Len(o) : o[i] = s[h[i]] /\ s[h[i]] \in T
    /\ \A j \in 1..n : s[j] \in T => \E i \in 1..Len(o) : h[i] = j

LEMMA OnlyEmbeds ==
  ASSUME NEW S, NEW s \in Seq(S), NEW T
  PROVE  Only(s, T) \in Seq(S) /\ Embeds(s, T, Only(s, T), Len(s))
<1>1. Len(s) \in Nat /\ \A n \in 1..Len(s) : s[n] \in S
  BY LenProperties, ElementOfSeq
<1>2. PICK f : /\ f[0] = <<>> /\ Only(s, T) = f[Len(s)]
               /\ \A n \in 1..Len(s) : f[n] = Selected(s, T, f[n - 1], n)
  BY OnlyIsDefined
<1> DEFINE D == {n \in Nat : n \in 0..Len(s) => f[n] \in Seq(S) /\ Embeds(s, T, f[n], n)}
<1>3. 0 \in D
  <2>1. Len(<<>>) = 0 /\ <<>> \in Seq(S)
    OBVIOUS
  <2>2. Embeds(s, T, <<>>, 0)
    <3> DEFINE h == [i \in 1..0 |-> i]
    <3>1. h \in [1..Len(<<>>) -> 1..0]
      BY <2>1
    <3>2. 1..Len(<<>>) = {} /\ 1..0 = {}
      BY <2>1
    <3> QED BY <3>1, <3>2 DEF Embeds
  <2> QED BY <1>2, <2>1, <2>2
<1>4. ASSUME NEW n \in D PROVE n + 1 \in D
  <2> SUFFICES ASSUME n + 1 \in 0..Len(s)
               PROVE  f[n + 1] \in Seq(S) /\ Embeds(s, T, f[n + 1], n + 1)
    BY <1>1
  <2>1. n \in Nat /\ n \in 0..Len(s) /\ n + 1 \in 1..Len(s) /\ (n + 1) - 1 = n
    BY <1>1
  <2> DEFINE o == f[n]
  <2>2. o \in Seq(S) /\ Embeds(s, T, o, n) /\ f[n + 1] = Selected(s, T, o, n + 1)
    BY <1>2, <2>1
  <2>3. s[n + 1] \in S
    BY <1>1, <2>1
  <2> HIDE DEF o, D
  <2>4. PICK h \in [1..Len(o) -> 1..n] :
          /\ \A i, j \in 1..Len(o) : i < j => h[i] < h[j]
          /\ \A i \in 1..Len(o) : o[i] = s[h[i]] /\ s[h[i]] \in T
          /\ \A j \in 1..n : s[j] \in T => \E i \in 1..Len(o) : h[i] = j
    BY <2>2 DEF Embeds
  <2>5. CASE s[n + 1] \notin T
    <3>1. f[n + 1] = o
      BY <2>2, <2>5 DEF Selected
    <3>2. h \in [1..Len(o) -> 1..(n + 1)]
      BY <2>1, <2>4
    <3>3. \A j \in 1..(n + 1) : s[j] \in T => \E i \in 1..Len(o) : h[i] = j
      BY <2>1, <2>4, <2>5
    <3>4. Embeds(s, T, o, n + 1)
      BY <2>4, <3>2, <3>3 DEF Embeds
    <3> QED BY <2>2, <3>1, <3>4
  <2>6. CASE s[n + 1] \in T
    <3> DEFINE p == Append(o, s[n + 1])
               l == Len(o)
               g == [i \in 1..(l + 1) |-> IF i = l + 1 THEN n + 1 ELSE h[i]]
    <3>1. f[n + 1] = p
      BY <2>2, <2>6 DEF Selected
    <3>2. /\ l \in Nat /\ p \in Seq(S) /\ Len(p) = l + 1 /\ p[l + 1] = s[n + 1]
          /\ \A i \in 1..l : p[i] = o[i]
      BY <2>2, <2>3, AppendProperties, LenProperties
    <3>3. \A i \in 1..l : h[i] \in 1..n /\ g[i] = h[i]
      BY <2>4, <3>2
    <3>4. g[l + 1] = n + 1 /\ g \in [1..(l + 1) -> 1..(n + 1)]
      BY <2>1, <3>2, <3>3
    <3> HIDE DEF p, g
    <3>5. \A i, j \in 1..(l + 1) : i < j => g[i] < g[j]
      <4> TAKE i, j \in 1..(l + 1)
      <4> HAVE i < j
      <4>1. i \in 1..l /\ g[i] = h[i] /\ h[i] \in 1..n
        BY <3>2, <3>3
      <4>2. CASE j = l + 1
        BY <2>1, <3>4, <4>1, <4>2
      <4>3. CASE j # l + 1
        <5>0. j \in 1..l
          BY <3>2, <4>3
        <5>1. j \in 1..l /\ g[j] = h[j]
          BY <3>3, <5>0
        <5>2. h[i] < h[j]
          BY <2>4, <4>1, <5>1
        <5> QED BY <4>1, <5>1, <5>2
      <4> QED BY <4>2, <4>3
    <3>6. \A i \in 1..(l + 1) : p[i] = s[g[i]] /\ s[g[i]] \in T
      <4> TAKE i \in 1..(l + 1)
      <4>1. CASE i = l + 1
        BY <2>6, <3>2, <3>4, <4>1
      <4>2. CASE i # l + 1
        <5>1. i \in 1..l
          BY <3>2, <4>2
        <5> QED BY <2>4, <3>2, <3>3, <5>1
      <4> QED BY <4>1, <4>2
    <3>7. ASSUME NEW j \in 1..(n + 1), s[j] \in T
          PROVE  \E i \in 1..(l + 1) : g[i] = j
      <4>1. CASE j = n + 1
        BY <3>2, <3>4, <4>1
      <4>2. CASE j # n + 1
        <5>1. PICK i \in 1..l : h[i] = j
          BY <2>1, <2>4, <3>7, <4>2
        <5>2. i \in 1..(l + 1) /\ g[i] = j
          BY <3>2, <3>3, <5>1
        <5> QED BY <5>2
      <4> QED BY <4>1, <4>2
    <3>8. Embeds(s, T, p, n + 1)
      <4>1. Len(p) = l + 1
        BY <3>2
      <4>2. g \in [1..Len(p) -> 1..(n + 1)] /\ \A i, j \in 1..Len(p) : i < j => g[i] < g[j]
        BY <3>4, <3>5, <4>1
      <4>3. \A i \in 1..Len(p) : p[i] = s[g[i]] /\ s[g[i]] \in T
        BY <3>6, <4>1
      <4>4. \A j \in 1..(n + 1) : s[j] \in T => \E i \in 1..Len(p) : g[i] = j
        BY <3>7, <4>1
      <4> HIDE DEF l
      <4> QED BY <4>2, <4>3, <4>4 DEF Embeds
    <3> QED BY <3>1, <3>2, <3>8
  <2> QED BY <2>5, <2>6
<1> HIDE DEF D
<1>5. D = Nat
  BY <1>3, <1>4, SetInduction DEF D
<1>6. f[Len(s)] \in Seq(S) /\ Embeds(s, T, f[Len(s)], Len(s))
  BY <1>1, <1>5 DEF D
<1> QED BY <1>2, <1>6

(* What is selected: the elements of s in T, none twice if s has none     *)
(* twice, and any relation between what comes first and later survives.    *)
LEMMA OnlyKeeps ==
  ASSUME NEW S, NEW s \in Seq(S), NEW T
  PROVE  /\ Only(s, T) \in Seq(S)
         /\ ToSet(Only(s, T)) = ToSet(s) \cap T
         /\ Distinct(s) => Distinct(Only(s, T))
         /\ \A i, j \in 1..Len(Only(s, T)) : i < j =>
              \E k, l \in 1..Len(s) : k < l /\ Only(s, T)[i] = s[k] /\ Only(s, T)[j] = s[l]
<1> DEFINE o == Only(s, T)
<1>1. /\ o \in Seq(S) /\ Embeds(s, T, o, Len(s))
  BY OnlyEmbeds
<1> HIDE DEF o
<1>2. Len(s) \in Nat /\ Len(o) \in Nat /\ DOMAIN s = 1..Len(s) /\ DOMAIN o = 1..Len(o)
  BY <1>1, LenProperties
<1>3. PICK h \in [1..Len(o) -> 1..Len(s)] :
          /\ \A i, j \in 1..Len(o) : i < j => h[i] < h[j]
          /\ \A i \in 1..Len(o) : o[i] = s[h[i]] /\ s[h[i]] \in T
          /\ \A j \in 1..Len(s) : s[j] \in T => \E i \in 1..Len(o) : h[i] = j
  BY <1>1 DEF Embeds
<1>4. ToSet(o) \subseteq ToSet(s) \cap T
  BY <1>2, <1>3 DEF ToSet
<1>5. ASSUME NEW x \in ToSet(s) \cap T PROVE x \in ToSet(o)
  <2>1. PICK j \in 1..Len(s) : x = s[j]
    BY <1>2 DEF ToSet
  <2>2. PICK i \in 1..Len(o) : h[i] = j
    BY <1>3, <2>1
  <2> QED BY <1>2, <1>3, <2>1, <2>2 DEF ToSet
<1>6. ASSUME Distinct(s) PROVE Distinct(o)
  <2> SUFFICES ASSUME NEW i \in 1..Len(o), NEW j \in 1..Len(o), o[i] = o[j] PROVE i = j
    BY <1>2 DEF Distinct
  <2>1. s[h[i]] = s[h[j]] /\ h[i] \in 1..Len(s) /\ h[j] \in 1..Len(s)
    BY <1>3
  <2>2. h[i] = h[j]
    BY <1>2, <1>6, <2>1 DEF Distinct
  <2>3. h[i] \in Nat /\ h[j] \in Nat /\ ~(h[i] < h[j]) /\ ~(h[j] < h[i])
    BY <1>2, <2>2
  <2>4. ~(i < j) /\ ~(j < i)
    BY <1>3, <2>3
  <2> QED BY <1>2, <2>4
<1>7. ASSUME NEW i \in 1..Len(o), NEW j \in 1..Len(o), i < j
      PROVE  \E k, l \in 1..Len(s) : k < l /\ o[i] = s[k] /\ o[j] = s[l]
  <2>1. h[i] \in 1..Len(s) /\ h[j] \in 1..Len(s) /\ h[i] < h[j] /\ o[i] = s[h[i]] /\ o[j] = s[h[j]]
    BY <1>3, <1>7
  <2> QED BY <2>1
<1> QED BY <1>1, <1>4, <1>5, <1>6, <1>7 DEF o

(* Nothing is left out.                                                    *)
LEMMA OnlyAll ==
  ASSUME NEW S, NEW s \in Seq(S), NEW T, ToSet(s) \cap T = ToSet(s)
  PROVE  Only(s, T) = s
<1>1. Len(s) \in Nat /\ DOMAIN s = 1..Len(s) /\ \A n \in 1..Len(s) : s[n] \in S /\ s[n] \in T
  BY LenProperties, ElementOfSeq DEF ToSet
<1>2. PICK f : /\ f[0] = <<>> /\ Only(s, T) = f[Len(s)]
               /\ \A n \in 1..Len(s) : f[n] = Selected(s, T, f[n - 1], n)
  BY OnlyIsDefined
<1> DEFINE D == {n \in Nat : n \in 0..Len(s) =>
                   f[n] \in Seq(S) /\ Len(f[n]) = n /\ \A i \in 1..n : f[n][i] = s[i]}
<1>3. 0 \in D
  <2>1. <<>> \in Seq(S) /\ Len(<<>>) = 0 /\ 1..0 = {}
    OBVIOUS
  <2> QED BY <1>2, <2>1
<1>4. ASSUME NEW n \in D PROVE n + 1 \in D
  <2> SUFFICES ASSUME n + 1 \in 0..Len(s)
               PROVE  /\ f[n + 1] \in Seq(S) /\ Len(f[n + 1]) = n + 1
                      /\ \A i \in 1..(n + 1) : f[n + 1][i] = s[i]
    BY <1>1
  <2>1. n \in Nat /\ n \in 0..Len(s) /\ n + 1 \in 1..Len(s) /\ (n + 1) - 1 = n
    BY <1>1
  <2> DEFINE o == f[n]
  <2>2. /\ o \in Seq(S) /\ Len(o) = n /\ \A i \in 1..n : o[i] = s[i]
        /\ f[n + 1] = Append(o, s[n + 1]) /\ s[n + 1] \in S
    BY <1>1, <1>2, <2>1 DEF Selected
  <2> HIDE DEF o, D
  <2> QED BY <2>1, <2>2, AppendProperties
<1> HIDE DEF D
<1>5. D = Nat
  BY <1>3, <1>4, SetInduction DEF D
<1>6. /\ f[Len(s)] \in Seq(S) /\ Len(f[Len(s)]) = Len(s)
      /\ \A i \in 1..Len(s) : f[Len(s)][i] = s[i]
  BY <1>1, <1>5 DEF D
<1> QED BY <1>2, <1>6, SeqEqual

(* A sequence without repetitions is as long as its set is large.          *)
LEMMA DistinctLength ==
  ASSUME NEW S, NEW s \in Seq(S), Distinct(s)
  PROVE  IsFiniteSet(ToSet(s)) /\ Cardinality(ToSet(s)) = Len(s)
<1>1. Len(s) \in Nat /\ DOMAIN s = 1..Len(s) /\ s \in [1..Len(s) -> ToSet(s)]
  BY LenProperties DEF ToSet
<1>2. s \in Bijection(1..Len(s), ToSet(s))
  BY <1>1 DEF Distinct, ToSet, Bijection, Injection, Surjection, IsInjective
<1>3. ExistsBijection(1..Len(s), ToSet(s))
  BY <1>2 DEF ExistsBijection
<1>4. IsFiniteSet(1..Len(s)) /\ Cardinality(1..Len(s)) = Len(s)
  <2>1. 1 \in Int /\ Len(s) \in Int
    BY <1>1
  <2> QED BY <1>1, <2>1, FS_Interval
<1> QED BY <1>3, <1>4, FS_Bijection

-----------------------------------------------------------------------------
(* Sums, with the fold that takes a function's values in any order.        *)

(* The sum of f over a set, as the model has it.                           *)
SumOf(f, S) == FoldFunctionOnSet(+, 0, f, S)
Choice(S) == CHOOSE x \in S : TRUE
AddsUp(it, f, S) ==
  \A s \in SUBSET S : it[s] = IF s = {} THEN 0 ELSE f[Choice(s)] + it[s \ {Choice(s)}]

(* The sum takes one element after the other away.                         *)
LEMMA SumIsDefined ==
  ASSUME NEW S, IsFiniteSet(S), NEW f
  PROVE  \E it : /\ SumOf(f, S) = it[S]
                 /\ AddsUp(it, f, S)
<1> DEFINE Upto(m) == {s \in SUBSET S : Cardinality(s) <= m}
           Step(it, s) == IF s = {} THEN 0 ELSE f[Choice(s)] + it[s \ {Choice(s)}]
           Rec(it, D) == it = [s \in D |-> Step(it, s)]
           Has(m) == \E it : Rec(it, Upto(m))
           N == {m \in Nat : Has(m)}
<1>0. \A s \in SUBSET S : IsFiniteSet(s) /\ Cardinality(s) \in Nat /\ (Cardinality(s) = 0 <=> s = {})
  <2> TAKE s \in SUBSET S
  <2>1. IsFiniteSet(s)
    BY FS_Subset
  <2> QED BY <2>1, FS_CardinalityType, FS_EmptySet
<1>a. \A s \in SUBSET S : s # {} =>
        Choice(s) \in s /\ s \ {Choice(s)} \in SUBSET S /\ Cardinality(s \ {Choice(s)}) = Cardinality(s) - 1
  <2> SUFFICES ASSUME NEW s \in SUBSET S, s # {}
               PROVE  Choice(s) \in s /\ s \ {Choice(s)} \in SUBSET S /\ Cardinality(s \ {Choice(s)}) = Cardinality(s) - 1
    OBVIOUS
  <2>1. Choice(s) \in s
    BY DEF Choice
  <2>2. IsFiniteSet(s)
    BY <1>0
  <2> QED BY <2>1, <2>2, FS_RemoveElement
<1>1. 0 \in N
  <2>1. Upto(0) = {{}}
    BY <1>0
  <2> DEFINE it == [s \in Upto(0) |-> 0]
  <2>2. \A s \in Upto(0) : Step(it, s) = 0
    BY <2>1
  <2>3. Rec(it, Upto(0))
    BY <2>2
  <2> QED BY <2>3
<1>2. ASSUME NEW m \in N PROVE m + 1 \in N
  <2>0. m \in Nat
    OBVIOUS
  <2>1. PICK it : Rec(it, Upto(m))
    OBVIOUS
  <2> DEFINE g == [s \in Upto(m + 1) |-> Step(it, s)]
  <2>2. \A s \in Upto(m) : s \in Upto(m + 1) /\ g[s] = it[s]
    <3>1. \A s \in Upto(m) : s \in Upto(m + 1)
      BY <1>0, <2>0
    <3>2. \A s \in Upto(m) : it[s] = Step(it, s)
      <4> HIDE DEF Upto, Step
      <4> QED BY <2>1
    <3>3. \A s \in Upto(m + 1) : g[s] = Step(it, s)
      <4> HIDE DEF Upto, Step
      <4> QED OBVIOUS
    <3> HIDE DEF Upto, Step, g
    <3> QED BY <3>1, <3>2, <3>3
  <2>3. ASSUME NEW s \in Upto(m + 1) PROVE Step(it, s) = Step(g, s)
    <3>1. CASE s = {}
      BY <3>1
    <3>2. CASE s # {}
      <4>1. s \ {Choice(s)} \in Upto(m)
        BY <1>0, <1>a, <2>0, <3>2
      <4>2. g[s \ {Choice(s)}] = it[s \ {Choice(s)}]
        BY <2>2, <4>1
      <4> QED BY <4>2
    <3> QED BY <3>1, <3>2
  <2>4. Rec(g, Upto(m + 1))
    BY <2>3
  <2>5. Has(m + 1)
    BY <2>4
  <2> HIDE DEF Has
  <2> QED BY <2>0, <2>5
<1>3. N = Nat
  <2> HIDE DEF N
  <2>1. N \in SUBSET Nat
    BY DEF N
  <2> QED BY <1>1, <1>2, <2>1, SetInduction
<1>4. Cardinality(S) \in Nat /\ Upto(Cardinality(S)) = SUBSET S
  <2>1. \A s \in SUBSET S : Cardinality(s) <= Cardinality(S)
    BY FS_Subset
  <2> QED BY <1>0, <2>1
<1>5. \E it : Rec(it, SUBSET S)
  <2>1. Has(Cardinality(S))
    <3> HIDE DEF Has
    <3> QED BY <1>3, <1>4
  <2>2. \E it : Rec(it, Upto(Cardinality(S)))
    BY <2>1
  <2> HIDE DEF Rec, Upto
  <2> QED BY <1>4, <2>2
<1> DEFINE F == CHOOSE it : Rec(it, SUBSET S)
<1>6. Rec(F, SUBSET S)
  BY <1>5
<1>7. SumOf(f, S) = F[S]
  BY DEF SumOf, FoldFunctionOnSet, MapThenFoldSet, Choice
<1> HIDE DEF F
<1>8. \A s \in SUBSET S : F[s] = Step(F, s)
  BY <1>6
<1> QED BY <1>7, <1>8 DEF AddsUp

(* What holds of a subset if it holds of the smaller ones holds of all.    *)
LEMMA SubsetInduction ==
  ASSUME NEW S, IsFiniteSet(S), NEW Q \in SUBSET (SUBSET S),
         \A s \in SUBSET S : (\A x \in s : s \ {x} \in Q) => s \in Q
  PROVE  S \in Q
<1> DEFINE P(m) == \A s \in SUBSET S : Cardinality(s) = m => s \in Q
           N == {m \in Nat : P(m)}
<1>0. \A s \in SUBSET S : IsFiniteSet(s) /\ Cardinality(s) \in Nat /\ (Cardinality(s) = 0 <=> s = {})
  <2> TAKE s \in SUBSET S
  <2>1. IsFiniteSet(s)
    BY FS_Subset
  <2> QED BY <2>1, FS_CardinalityType, FS_EmptySet
<1>1. P(0)
  BY <1>0
<1>2. ASSUME NEW m \in Nat, P(m) PROVE P(m + 1)
  <2> SUFFICES ASSUME NEW s \in SUBSET S, Cardinality(s) = m + 1 PROVE s \in Q
    OBVIOUS
  <2>1. ASSUME NEW x \in s PROVE s \ {x} \in Q
    <3>1. Cardinality(s \ {x}) = m
      <4>1. IsFiniteSet(s) /\ x \in s
        BY <1>0
      <4>2. Cardinality(s \ {x}) = Cardinality(s) - 1
        BY <4>1, FS_RemoveElement
      <4> QED BY <1>2, <4>2
    <3> QED BY <1>2, <3>1
  <2> QED BY <2>1
<1>3. N = Nat
  <2> HIDE DEF P
  <2>1. N \in SUBSET Nat /\ 0 \in N /\ \A n \in N : n + 1 \in N
    BY <1>1, <1>2
  <2> HIDE DEF N
  <2> QED BY <2>1, SetInduction
<1>4. P(Cardinality(S))
  <2> HIDE DEF P
  <2> QED BY <1>0, <1>3
<1> QED BY <1>4

LEMMA SumStep ==
  ASSUME NEW S, IsFiniteSet(S), NEW f, NEW it, \A x \in S : f[x] \in Nat,
         AddsUp(it, f, S)
  PROVE  it[S] \in Nat /\ \A x \in S : it[S] = f[x] + it[S \ {x}]
<1> DEFINE Q == {s \in SUBSET S : it[s] \in Nat /\ \A x \in s : it[s \ {x}] \in Nat /\ it[s] = f[x] + it[s \ {x}]}
<1>1. ASSUME NEW s \in SUBSET S, \A x \in s : s \ {x} \in Q PROVE s \in Q
  <2>1. CASE s = {}
    <3>1. it[s] = 0
      BY <2>1 DEF AddsUp
    <3> QED BY <2>1, <3>1
  <2>2. CASE s # {}
    <3> DEFINE c == Choice(s)
    <3>1. c \in s
      BY <2>2 DEF Choice
    <3>2. it[s] = f[c] + it[s \ {c}]
      BY <2>2 DEF AddsUp
    <3> HIDE DEF c
    <3>3. \A x \in s : it[s \ {x}] \in Nat
      BY <1>1
    <3>4. ASSUME NEW x \in s, x # c PROVE it[s] = f[x] + it[s \ {x}]
      <4> DEFINE t == (s \ {c}) \ {x}
      <4>1. t = (s \ {x}) \ {c} /\ x \in s \ {c} /\ c \in s \ {x}
        BY <3>1, <3>4
      <4>2. it[t] \in Nat /\ it[s \ {c}] = f[x] + it[t]
        BY <1>1, <3>1, <4>1
      <4>3. it[s \ {x}] = f[c] + it[t]
        BY <1>1, <3>4, <4>1
      <4>4. f[c] \in Nat /\ f[x] \in Nat
        BY <3>1
      <4> HIDE DEF t
      <4> QED BY <3>2, <4>2, <4>3, <4>4
    <3>5. it[s] \in Nat
      <4>1. f[c] \in Nat /\ it[s \ {c}] \in Nat
        BY <3>1, <3>3
      <4> QED BY <3>2, <4>1
    <3> QED BY <3>2, <3>3, <3>4, <3>5
  <2> QED BY <2>1, <2>2
<1>2. S \in Q
  <2> HIDE DEF Q
  <2>1. Q \in SUBSET (SUBSET S)
    BY DEF Q
  <2> QED BY <1>1, <2>1, SubsetInduction
<1> QED BY <1>2

LEMMA SameSums ==
  ASSUME NEW S, IsFiniteSet(S), NEW f, NEW g, NEW it, NEW jt, \A x \in S : f[x] = g[x],
         AddsUp(it, f, S),
         AddsUp(jt, g, S)
  PROVE  it[S] = jt[S]
<1> DEFINE Q == {s \in SUBSET S : it[s] = jt[s]}
<1>1. ASSUME NEW s \in SUBSET S, \A x \in s : s \ {x} \in Q PROVE s \in Q
  <2>1. CASE s = {}
    BY <2>1 DEF AddsUp
  <2>2. CASE s # {}
    <3> DEFINE c == Choice(s)
    <3>1. c \in s
      BY <2>2 DEF Choice
    <3>2. it[s] = f[c] + it[s \ {c}] /\ jt[s] = g[c] + jt[s \ {c}]
      BY <2>2 DEF AddsUp
    <3> HIDE DEF c
    <3> QED BY <1>1, <3>1, <3>2
  <2> QED BY <2>1, <2>2
<1>2. S \in Q
  <2> HIDE DEF Q
  <2>1. Q \in SUBSET (SUBSET S)
    BY DEF Q
  <2> QED BY <1>1, <2>1, SubsetInduction
<1> QED BY <1>2

(* The laws of sums of natural numbers.                                    *)
LEMMA Sums ==
  ASSUME NEW S, IsFiniteSet(S), NEW f, \A x \in S : f[x] \in Nat
  PROVE  /\ SumOf(f, S) \in Nat
         /\ S = {} => SumOf(f, S) = 0
         /\ \A x \in S : SumOf(f, S) = f[x] + SumOf(f, S \ {x})
<1>1. PICK it : /\ SumOf(f, S) = it[S]
                /\ AddsUp(it, f, S)
  BY SumIsDefined
<1>2. it[S] \in Nat /\ \A x \in S : it[S] = f[x] + it[S \ {x}]
  BY <1>1, SumStep
<1>3. ASSUME NEW x \in S PROVE SumOf(f, S \ {x}) = it[S \ {x}]
  <2> DEFINE T == S \ {x}
  <2>1. IsFiniteSet(T) /\ T \subseteq S
    BY FS_RemoveElement
  <2> HIDE DEF T
  <2>2. PICK jt : /\ SumOf(f, T) = jt[T]
                  /\ AddsUp(jt, f, T)
    BY <2>1, SumIsDefined
  <2>3. AddsUp(it, f, T)
    BY <1>1, <2>1 DEF AddsUp
  <2>4. it[T] = jt[T]
    BY <2>1, <2>2, <2>3, SameSums
  <2> QED BY <2>2, <2>4 DEF T
<1>4. S = {} => it[S] = 0
  BY <1>1 DEF AddsUp
<1> QED BY <1>1, <1>2, <1>3, <1>4

LEMMA EqualSums ==
  ASSUME NEW S, IsFiniteSet(S), NEW f, NEW g, \A x \in S : f[x] = g[x]
  PROVE  SumOf(f, S) = SumOf(g, S)
<1>1. PICK it : /\ SumOf(f, S) = it[S]
                /\ AddsUp(it, f, S)
  BY SumIsDefined
<1>2. PICK jt : /\ SumOf(g, S) = jt[S]
                /\ AddsUp(jt, g, S)
  BY SumIsDefined
<1> QED BY <1>1, <1>2, SameSums

(* Two parts of a set add up to the whole.                                 *)
LEMMA SumOfParts ==
  ASSUME NEW S, IsFiniteSet(S), NEW f, \A x \in S : f[x] \in Nat, NEW T \in SUBSET S
  PROVE  SumOf(f, S) = SumOf(f, T) + SumOf(f, S \ T)
<1> DEFINE Q == {s \in SUBSET T : SumOf(f, S) = SumOf(f, s) + SumOf(f, S \ s)}
<1>0. IsFiniteSet(T) /\ \A s \in SUBSET S : IsFiniteSet(s)
  BY FS_Subset
<1>1. ASSUME NEW s \in SUBSET T, \A x \in s : s \ {x} \in Q PROVE s \in Q
  <2>1. CASE s = {}
    <3>1. SumOf(f, s) = 0 /\ SumOf(f, S) \in Nat /\ S \ s = S
      BY <1>0, <2>1, Sums
    <3> QED BY <3>1
  <2>2. CASE s # {}
    <3>1. PICK x : x \in s
      BY <2>2
    <3> DEFINE u == S \ (s \ {x})
               v == S \ s
               t == s \ {x}
    <3>2. u \ {x} = v /\ x \in u /\ u \in SUBSET S /\ t \in SUBSET S /\ v \in SUBSET S
      BY <3>1
    <3>3. SumOf(f, S) = SumOf(f, t) + SumOf(f, u)
      BY <1>1, <3>1
    <3> HIDE DEF u, v
    <3>4. SumOf(f, u) = f[x] + SumOf(f, v) /\ SumOf(f, v) \in Nat
      <4>1. \A y \in u : f[y] \in Nat
        BY <3>2
      <4>2. SumOf(f, u) = f[x] + SumOf(f, u \ {x})
        BY <1>0, <3>2, <4>1, Sums
      <4>3. \A y \in v : f[y] \in Nat
        BY <3>2
      <4> QED BY <1>0, <3>2, <4>2, <4>3, Sums
    <3>5. SumOf(f, s) = f[x] + SumOf(f, t) /\ SumOf(f, t) \in Nat
      <4>1. \A y \in s : f[y] \in Nat
        OBVIOUS
      <4>2. SumOf(f, s) = f[x] + SumOf(f, s \ {x})
        BY <1>0, <3>1, <4>1, Sums
      <4> HIDE DEF t
      <4>3. \A y \in t : f[y] \in Nat
        BY <3>2
      <4> QED BY <1>0, <3>2, <4>2, <4>3, Sums DEF t
    <3>6. f[x] \in Nat
      BY <3>1
    <3> HIDE DEF t
    <3>7. SumOf(f, S) = SumOf(f, s) + SumOf(f, v)
      BY <3>3, <3>4, <3>5, <3>6
    <3> QED BY <3>7 DEF v
  <2> QED BY <2>1, <2>2
<1>2. T \in Q
  <2> HIDE DEF Q
  <2>1. Q \in SUBSET (SUBSET T)
    BY DEF Q
  <2> QED BY <1>0, <1>1, <2>1, SubsetInduction
<1> QED BY <1>2

-----------------------------------------------------------------------------
(* Folds over a sequence.  FoldLeft takes the positions away from the last *)
(* one; that its recursion defines a function is what the prover does not  *)
(* know.                                                                   *)
LEMMA MaxUpto ==
  ASSUME NEW m \in Nat, NEW s \in SUBSET (1..m), s # {}
  PROVE  Max(s) \in s /\ \A y \in s : y <= Max(s)
<1> DEFINE T == {k \in Nat : \E y \in s : y >= k}
<1>1. T # Nat
  <2>1. m + 1 \notin T
    OBVIOUS
  <2> QED BY <2>1
<1>2. T \in SUBSET Nat /\ 0 \in T
  <2>1. PICK y \in s : TRUE
    OBVIOUS
  <2>2. y >= 0
    OBVIOUS
  <2> QED BY <2>2
<1>3. PICK k \in T : k + 1 \notin T
  <2> HIDE DEF T
  <2> QED BY <1>1, <1>2, SetInduction
<1>4. PICK x \in s : x >= k
  BY <1>3
<1>5. \A y \in s : ~(y >= k + 1)
  BY <1>3
<1>6. \A y \in s : y \in Nat
  OBVIOUS
<1> HIDE DEF T
<1>7. k \in Nat
  BY <1>2, <1>3
<1>8. \A y \in s : x >= y
  BY <1>4, <1>5, <1>6, <1>7
<1>9. \E z \in s : \A y \in s : z >= y
  BY <1>8
<1>10. Max(s) \in s /\ \A y \in s : Max(s) >= y
  BY <1>9 DEF Max
<1> QED BY <1>6, <1>10

LEMMA MaxOfUpto == ASSUME NEW m \in Nat \ {0} PROVE Max(1..m) = m /\ (1..m) \ {Max(1..m)} = 1..(m - 1)
<1>1. (1..m) \in SUBSET (1..m) /\ 1..m # {} /\ m \in 1..m
  OBVIOUS
<1>2. Max(1..m) \in 1..m /\ m <= Max(1..m)
  BY <1>1, MaxUpto
<1> QED BY <1>2

(* One step of such a fold, st saying what a position does.                *)
FoldStep(it, s, base, st) ==
  IF s = {} THEN base ELSE st[<<Max(s), it[s \ {Max(s)}]>>]

FoldOf(it, n, A, base, st) ==
  /\ it \in [SUBSET (1..n) -> A]
  /\ \A s \in SUBSET (1..n) : it[s] = FoldStep(it, s, base, st)

LEMMA FoldIsDefined ==
  ASSUME NEW n \in Nat, NEW A, NEW base \in A, NEW st \in [(1..n) \X A -> A]
  PROVE  \E it : FoldOf(it, n, A, base, st)
<1> DEFINE Def(it, m) == /\ it \in [SUBSET (1..m) -> A]
                         /\ \A s \in SUBSET (1..m) : it[s] = FoldStep(it, s, base, st)
           N == {m \in Nat : m <= n => \E it : Def(it, m)}
<1>0. ASSUME NEW m \in Nat, NEW s \in SUBSET (1..m), s # {}
      PROVE  Max(s) \in 1..m /\ s \ {Max(s)} \in SUBSET (1..(m - 1))
  <2>1. Max(s) \in s /\ \A y \in s : y <= Max(s)
    BY <1>0, MaxUpto
  <2>2. ASSUME NEW y \in s, y # Max(s) PROVE y \in 1..(m - 1)
    <3> DEFINE top == Max(s)
    <3>1. y \in 1..m /\ top \in 1..m /\ y <= top /\ y # top
      BY <2>1, <2>2
    <3> HIDE DEF top
    <3> QED BY <3>1
  <2> QED BY <2>1, <2>2
<1>1. 0 \in N
  <2> DEFINE it == [s \in SUBSET (1..0) |-> base]
  <2>1. 1..0 = {}
    OBVIOUS
  <2>2. \A s \in SUBSET (1..0) : it[s] = FoldStep(it, s, base, st)
    BY <2>1 DEF FoldStep
  <2>3. Def(it, 0)
    BY <2>2
  <2> QED BY <2>3
<1>2. ASSUME NEW m \in N PROVE m + 1 \in N
  <2>a. m \in Nat /\ (m <= n => \E it : Def(it, m))
    <3> HIDE DEF Def
    <3> QED OBVIOUS
  <2> SUFFICES ASSUME m + 1 <= n PROVE \E it : Def(it, m + 1)
    <3> HIDE DEF Def
    <3> QED BY <2>a
  <2>0. m \in Nat /\ m <= n /\ m + 1 \in Nat /\ (m + 1) - 1 = m
    BY <2>a
  <2>1. PICK it : Def(it, m)
    <3> HIDE DEF Def
    <3> QED BY <2>a, <2>0
  <2> DEFINE g == [s \in SUBSET (1..(m + 1)) |-> FoldStep(it, s, base, st)]
  <2>2. ASSUME NEW s \in SUBSET (1..(m + 1)), s # {}
        PROVE  Max(s) \in 1..n /\ Max(s) \in 1..(m + 1) /\ s \ {Max(s)} \in SUBSET (1..m)
    BY <1>0, <2>0, <2>2
  <2>3. g \in [SUBSET (1..(m + 1)) -> A]
    <3>1. ASSUME NEW s \in SUBSET (1..(m + 1)) PROVE FoldStep(it, s, base, st) \in A
      <4>1. CASE s = {}
        BY <4>1 DEF FoldStep
      <4>2. CASE s # {}
        <5>1. Max(s) \in 1..n /\ it[s \ {Max(s)}] \in A
          BY <2>1, <2>2, <4>2
        <5> QED BY <4>2, <5>1 DEF FoldStep
      <4> QED BY <4>1, <4>2
    <3> QED BY <3>1
  <2>4. \A s \in SUBSET (1..m) : s \in SUBSET (1..(m + 1)) /\ g[s] = it[s]
    <3>1. \A s \in SUBSET (1..m) : s \in SUBSET (1..(m + 1))
      BY <2>0
    <3>2. \A s \in SUBSET (1..(m + 1)) : g[s] = FoldStep(it, s, base, st)
      OBVIOUS
    <3> HIDE DEF g
    <3> QED BY <2>1, <3>1, <3>2
  <2>5. ASSUME NEW s \in SUBSET (1..(m + 1)) PROVE g[s] = FoldStep(g, s, base, st)
    <3>1. g[s] = FoldStep(it, s, base, st)
      OBVIOUS
    <3> HIDE DEF g
    <3>2. CASE s = {}
      BY <3>1, <3>2 DEF FoldStep
    <3>3. CASE s # {}
      <4>1. it[s \ {Max(s)}] = g[s \ {Max(s)}]
        BY <2>2, <2>4, <3>3
      <4> QED BY <3>1, <3>3, <4>1 DEF FoldStep
    <3> QED BY <3>2, <3>3
  <2> HIDE DEF g
  <2>6. Def(g, m + 1)
    BY <2>3, <2>5
  <2> QED BY <2>6
<1>3. N = Nat
  <2>1. N \in SUBSET Nat
    OBVIOUS
  <2> HIDE DEF N
  <2> QED BY <1>1, <1>2, <2>1, SetInduction
<1>4. n \in N
  <2> HIDE DEF N
  <2> QED BY <1>3
<1>5. \E it : Def(it, n)
  <2> HIDE DEF Def
  <2> QED BY <1>4
<1> QED BY <1>5 DEF FoldOf
=============================================================================
