-------------------------- MODULE TimeSpecsProofs --------------------------
(***************************************************************************)
(* Times and windows, for files of any length, any cursors and any         *)
(* requests: what is answered is what the texts mean, and the two readers  *)
(* of a window agree.                                                      *)
(***************************************************************************)
EXTENDS TimeSpecs, FiniteSetTheorems, SequenceTheorems, TLAPS

Lists == INSTANCE RegistryDocProofs

-----------------------------------------------------------------------------
(* The clock's edges.  E stands for those of one direction.                  *)

Edged == SUBSET (1 .. LastTick)

LEMMA OutcomeFacts ==
  /\ \A t : Resolved(t).ok /\ Resolved(t).time = t
  /\ ~Refused.ok /\ Refused.time = 0
  /\ \A t : Resolved(t) # Refused
BY DEF Resolved, Refused

LEMMA EdgedIsFinite ==
  ASSUME NEW E \in Edged
  PROVE  E \in SUBSET Nat /\ \A I \in SUBSET E : IsFiniteSet(I)
<1>1. LastTick \in Nat /\ E \in SUBSET (1 .. LastTick)
  BY TimesAssumption DEF Edged
<1>2. IsFiniteSet(1 .. LastTick)
  BY <1>1, FS_Interval
<1>3. ASSUME NEW I \in SUBSET E PROVE IsFiniteSet(I)
  <2>1. I \in SUBSET (1 .. LastTick)
    BY <1>1
  <2> QED
    BY <1>2, <2>1, FS_Subset
<1> QED
  BY <1>1, <1>3

LEMMA EdgedFacts ==
  /\ LastTick \in Nat
  /\ \A E \in Edged : E \in SUBSET Nat /\ \A I \in SUBSET E : I \in SUBSET (1 .. LastTick)
BY TimesAssumption DEF Edged

\* NPI's position: the first edge from a time on, or, without one, a refusal or
\* the last edge.
LEMMA FirstFromFacts ==
  ASSUME NEW E \in Edged, NEW w, NEW t \in Nat
  PROVE  \/ \E e \in E : FirstFrom(w, t, E) = Resolved(e) /\ e >= t /\ \A d \in E : d >= t => e <= d
         \/ (\A e \in E : e < t) /\ w.stays /\ \E e \in E : FirstFrom(w, t, E) = Resolved(e) /\ \A d \in E : d <= e
         \/ (\A e \in E : e < t) /\ FirstFrom(w, t, E) = Refused /\ (~w.stays \/ E = {})
<1> DEFINE from == {e \in E : e >= t}
<1>0. LastTick \in Nat /\ E \in SUBSET Nat /\ \A I \in SUBSET E : I \in SUBSET (1 .. LastTick)
  BY EdgedFacts
<1>1. CASE from # {}
  <2>1. \E e \in from : \A d \in from : e <= d
    BY <1>0, <1>1, Lists!HasEnds
  <2>2. PICK e \in from : e = (CHOOSE x \in from : \A d \in from : x <= d) /\ \A d \in from : e <= d
    BY <2>1
  <2>3. FirstFrom(w, t, E) = Resolved(e)
    BY <1>1, <2>2 DEF FirstFrom
  <2> QED
    BY <2>2, <2>3
<1>2. CASE from = {} /\ E # {} /\ w.stays
  <2>1. \E e \in E : \A d \in E : d <= e
    BY <1>0, <1>2, Lists!HasEnds
  <2>2. PICK e \in E : e = (CHOOSE x \in E : \A d \in E : d <= x) /\ \A d \in E : d <= e
    BY <2>1
  <2>3. FirstFrom(w, t, E) = Resolved(e)
    BY <1>2, <2>2 DEF FirstFrom
  <2>4. \A d \in E : d < t
    BY <1>0, <1>2
  <2> QED
    BY <1>2, <2>2, <2>3, <2>4
<1>3. CASE from = {} /\ ~(E # {} /\ w.stays)
  <2>1. FirstFrom(w, t, E) = Refused
    BY <1>3 DEF FirstFrom
  <2>2. \A d \in E : d < t
    BY <1>0, <1>3
  <2> QED
    BY <1>3, <2>1, <2>2
<1> QED
  BY <1>1, <1>2, <1>3

\* The next edge after a time.
LEMMA FollowingFacts ==
  ASSUME NEW E \in Edged, NEW t \in Nat
  PROVE  \/ \E e \in E : Following(t, E) = Resolved(e) /\ e > t /\ \A d \in E : d > t => e <= d
         \/ Following(t, E) = Refused /\ \A e \in E : e <= t
<1> DEFINE none == [stays |-> FALSE]
<1>0. E \in SUBSET Nat /\ t + 1 \in Nat /\ ~none.stays
  BY EdgedFacts
<1>1. Following(t, E) = FirstFrom(none, t + 1, E)
  BY DEF Following
<1> HIDE DEF none
<1>2. \/ \E e \in E : FirstFrom(none, t + 1, E) = Resolved(e) /\ e >= t + 1 /\ \A d \in E : d >= t + 1 => e <= d
      \/ (\A e \in E : e < t + 1) /\ FirstFrom(none, t + 1, E) = Refused
  <2>1. ~none.stays
    BY <1>0
  <2>2. PICK u \in Nat : u = t + 1
    BY <1>0
  <2>3. \/ \E e \in E : FirstFrom(none, u, E) = Resolved(e) /\ e >= u /\ \A d \in E : d >= u => e <= d
        \/ (\A e \in E : e < u) /\ FirstFrom(none, u, E) = Refused
    BY <2>1, FirstFromFacts
  <2> QED
    BY <2>2, <2>3
<1>3. \A x \in Nat : (x >= t + 1 <=> x > t) /\ (x < t + 1 <=> x <= t)
  OBVIOUS
<1> QED
  BY <1>0, <1>1, <1>2, <1>3

LEMMA PreviousFacts ==
  ASSUME NEW E \in Edged, NEW t \in Nat
  PROVE  \/ \E e \in E : Previous(t, E) = Resolved(e) /\ e < t /\ \A d \in E : d < t => d <= e
         \/ Previous(t, E) = Refused /\ \A e \in E : e >= t
<1> DEFINE before == {e \in E : e < t}
<1>0. LastTick \in Nat /\ E \in SUBSET Nat /\ \A I \in SUBSET E : I \in SUBSET (1 .. LastTick)
  BY EdgedFacts
<1>1. CASE before # {}
  <2>1. \E e \in before : \A d \in before : d <= e
    BY <1>0, <1>1, Lists!HasEnds
  <2>2. PICK e \in before : e = (CHOOSE x \in before : \A d \in before : d <= x) /\ \A d \in before : d <= e
    BY <2>1
  <2>3. Previous(t, E) = Resolved(e)
    BY <1>1, <2>2 DEF Previous
  <2> QED
    BY <2>2, <2>3
<1>2. CASE before = {}
  <2>1. Previous(t, E) = Refused
    BY <1>2 DEF Previous
  <2> QED
    BY <1>0, <1>2, <2>1
<1> QED
  BY <1>1, <1>2

\* From a base, the first edge is the next one, however NPI answers behind the
\* last.
LEMMA FirstAfterFacts ==
  ASSUME NEW E \in Edged, NEW w, NEW t \in Nat
  PROVE  \/ \E e \in E : FirstAfter(w, t, E) = Resolved(e) /\ e > t /\ \A d \in E : d > t => e <= d
         \/ FirstAfter(w, t, E) = Refused /\ \A e \in E : e <= t
<1>0. LastTick \in Nat /\ E \in SUBSET Nat /\ \A I \in SUBSET E : I \in SUBSET (1 .. LastTick)
  BY EdgedFacts
<1>1. CASE \E e \in E : FirstFrom(w, t, E) = Resolved(e) /\ e > t /\ \A d \in E : d >= t => e <= d
  <2>1. PICK e \in E : FirstFrom(w, t, E) = Resolved(e) /\ e > t /\ \A d \in E : d >= t => e <= d
    BY <1>1
  <2>2. FirstAfter(w, t, E) = Resolved(e)
    BY <1>0, <2>1 DEF FirstAfter, Refused, Resolved
  <2> QED
    BY <1>0, <2>1, <2>2
<1>2. CASE \E e \in E : FirstFrom(w, t, E) = Resolved(e) /\ e = t
  <2>1. PICK e \in E : FirstFrom(w, t, E) = Resolved(e) /\ e = t
    BY <1>2
  <2>2. FirstAfter(w, t, E) = Following(t, E)
    BY <1>0, <2>1 DEF FirstAfter, Refused, Resolved
  <2> QED
    BY <2>2, FollowingFacts
<1>3. CASE (\A e \in E : e < t) /\ \E e \in E : FirstFrom(w, t, E) = Resolved(e) /\ \A d \in E : d <= e
  <2>1. PICK e \in E : FirstFrom(w, t, E) = Resolved(e) /\ \A d \in E : d <= e
    BY <1>3
  <2>2. FirstAfter(w, t, E) = Following(e, E)
    BY <1>0, <1>3, <2>1 DEF FirstAfter, Refused, Resolved
  <2>3. Following(e, E) = Refused
    BY <1>0, <2>1, FollowingFacts
  <2> QED
    BY <1>0, <1>3, <2>2, <2>3
<1>4. CASE (\A e \in E : e < t) /\ FirstFrom(w, t, E) = Refused
  <2>1. FirstAfter(w, t, E) = Refused
    BY <1>4 DEF FirstAfter, Refused, Resolved
  <2> QED
    BY <1>0, <1>4, <2>1
<1> QED
  BY <1>0, <1>1, <1>2, <1>3, <1>4, FirstFromFacts

\* Backwards, NPI has to find a position first.
LEMMA PrevBeforeFacts ==
  ASSUME NEW E \in Edged, NEW w, NEW t \in Nat
  PROVE  \/ \E e \in E : PrevBefore(w, t, E) = Resolved(e) /\ e < t /\ \A d \in E : d < t => d <= e
         \/ PrevBefore(w, t, E) = Refused /\ \A e \in E : e >= t
         \/ PrevBefore(w, t, E) = Refused /\ ~w.stays /\ \A e \in E : e < t
<1>0. LastTick \in Nat /\ E \in SUBSET Nat /\ \A I \in SUBSET E : I \in SUBSET (1 .. LastTick)
  BY EdgedFacts
<1>1. CASE \E e \in E : FirstFrom(w, t, E) = Resolved(e) /\ e >= t /\ \A d \in E : d >= t => e <= d
  <2>1. PICK e \in E : FirstFrom(w, t, E) = Resolved(e) /\ e >= t /\ \A d \in E : d >= t => e <= d
    BY <1>1
  <2>2. PrevBefore(w, t, E) = Previous(e, E)
    BY <1>0, <2>1 DEF PrevBefore, Refused, Resolved
  <2>3. \A d \in E : d < e <=> d < t
    BY <1>0, <2>1
  <2>4. \/ \E x \in E : Previous(e, E) = Resolved(x) /\ x < e /\ \A d \in E : d < e => d <= x
        \/ Previous(e, E) = Refused /\ \A x \in E : x >= e
    BY <1>0, PreviousFacts
  <2> QED
    BY <1>0, <2>1, <2>2, <2>3, <2>4
<1>3. CASE (\A e \in E : e < t) /\ \E e \in E : FirstFrom(w, t, E) = Resolved(e) /\ \A d \in E : d <= e
  <2>1. PICK e \in E : FirstFrom(w, t, E) = Resolved(e) /\ \A d \in E : d <= e
    BY <1>3
  <2>2. e < t
    BY <1>3
  <2>3. PrevBefore(w, t, E) = Resolved(e)
    BY <2>1, <2>2, OutcomeFacts DEF PrevBefore
  <2> QED
    BY <1>3, <2>1, <2>2, <2>3
<1>4. CASE (\A e \in E : e < t) /\ FirstFrom(w, t, E) = Refused /\ (~w.stays \/ E = {})
  <2>1. PrevBefore(w, t, E) = Refused
    BY <1>4 DEF PrevBefore, Refused, Resolved
  <2> QED
    BY <1>0, <1>4, <2>1
<1> QED
  BY <1>0, <1>1, <1>3, <1>4, FirstFromFacts
-----------------------------------------------------------------------------
(* Walking from edge to edge *)

IsWalk(f, first, step, n) ==
  f = [k \in 1 .. n |-> IF k = 1 THEN first ELSE IF f[k - 1].ok THEN step[f[k - 1].time] ELSE Refused]

LEMMA WalkExists ==
  ASSUME NEW first, NEW step, NEW n \in Nat \ {0}
  PROVE  \E f : IsWalk(f, first, step, n)
<1> DEFINE bad == {k \in 1 .. n : ~\E f : IsWalk(f, first, step, k)}
<1>1. SUFFICES ASSUME bad # {} PROVE FALSE
  OBVIOUS
<1>2. PICK b \in bad : \A k \in bad : b <= k
  BY <1>1, Lists!HasEnds
<1>3. b \in 1 .. n
  OBVIOUS
<1>4. CASE b = 1
  <2>1. IsWalk([k \in 1 .. 1 |-> first], first, step, 1)
    BY DEF IsWalk
  <2> QED
    BY <1>2, <1>4, <2>1
<1>5. CASE b > 1
  <2>1. b - 1 \in 1 .. n /\ b - 1 \notin bad
    BY <1>2, <1>3, <1>5
  <2>2. PICK f : IsWalk(f, first, step, b - 1)
    BY <2>1
  <2> DEFINE g == [k \in 1 .. b |->
                     IF k = b THEN (IF f[b - 1].ok THEN step[f[b - 1].time] ELSE Refused) ELSE f[k]]
  <2>3. ASSUME NEW k \in 1 .. b
        PROVE  g[k] = IF k = 1 THEN first ELSE IF g[k - 1].ok THEN step[g[k - 1].time] ELSE Refused
    <3>1. CASE k = b
      <4>1. g[k - 1] = f[b - 1] /\ g[k] = IF f[b - 1].ok THEN step[f[b - 1].time] ELSE Refused
        BY <1>3, <1>5, <3>1
      <4> HIDE DEF g
      <4> QED
        BY <1>5, <3>1, <4>1
    <3>2. CASE k # b /\ k # 1
      <4>1. k \in 1 .. b - 1 /\ k - 1 \in 1 .. b - 1 /\ g[k] = f[k] /\ g[k - 1] = f[k - 1]
        BY <1>3, <3>2
      <4>2. f[k] = IF f[k - 1].ok THEN step[f[k - 1].time] ELSE Refused
        BY <2>2, <3>2, <4>1 DEF IsWalk
      <4> HIDE DEF g
      <4> QED
        BY <3>2, <4>1, <4>2
    <3>3. CASE k # b /\ k = 1
      <4>1. 1 \in 1 .. b - 1 /\ g[k] = f[1]
        BY <1>3, <1>5, <3>3
      <4>2. f[1] = first
        BY <2>2, <4>1 DEF IsWalk
      <4> HIDE DEF g
      <4> QED
        BY <3>3, <4>1, <4>2
    <3> QED
      BY <3>1, <3>2, <3>3
  <2>4. IsWalk(g, first, step, b)
    <3>1. g = [k \in 1 .. b |-> g[k]]
      OBVIOUS
    <3> HIDE DEF g
    <3>2. [k \in 1 .. b |-> g[k]]
            = [k \in 1 .. b |-> IF k = 1 THEN first ELSE IF g[k - 1].ok THEN step[g[k - 1].time] ELSE Refused]
      BY <2>3
    <3> QED
      BY <3>1, <3>2 DEF IsWalk
  <2> QED
    BY <2>4
<1> QED
  BY <1>3, <1>4, <1>5

LEMMA NthSteps ==
  ASSUME NEW first, NEW step, NEW n \in Nat \ {0}
  PROVE  \E f : /\ Nth(first, step, n) = f[n]
               /\ f[1] = first
               /\ \A k \in 1 .. n : k > 1 => /\ \A t : f[k - 1] = Resolved(t) => f[k] = step[t]
                                             /\ f[k - 1] = Refused => f[k] = Refused
<1> DEFINE f == CHOOSE f : IsWalk(f, first, step, n)
<1>1. IsWalk(f, first, step, n)
  BY WalkExists
<1>2. Nth(first, step, n) = f[n]
  BY DEF Nth, IsWalk
<1> HIDE DEF f
<1>3. f[1] = first /\ DOMAIN f = 1 .. n
  BY <1>1 DEF IsWalk
<1>4. ASSUME NEW k \in 1 .. n, k > 1
      PROVE  /\ \A t : f[k - 1] = Resolved(t) => f[k] = step[t]
             /\ f[k - 1] = Refused => f[k] = Refused
  <2>1. f[k] = IF f[k - 1].ok THEN step[f[k - 1].time] ELSE Refused
    BY <1>1, <1>4 DEF IsWalk
  <2>2. ASSUME NEW t, f[k - 1] = Resolved(t) PROVE f[k] = step[t]
    <3>1. f[k - 1].ok /\ f[k - 1].time = t
      BY <2>2, OutcomeFacts, Zenon
    <3> QED
      BY <2>1, <3>1, Zenon
  <2>3. ASSUME f[k - 1] = Refused PROVE f[k] = Refused
    <3>1. ~f[k - 1].ok
      BY <2>3, OutcomeFacts, Zenon
    <3> QED
      BY <2>1, <3>1, Zenon
  <2> QED
    BY <2>2, <2>3
<1> QED
  BY <1>2, <1>3, <1>4

\* A walk that cannot begin goes nowhere.
LEMMA NthOfNone ==
  ASSUME NEW step, NEW n \in Nat \ {0}
  PROVE  Nth(Refused, step, n) = Refused
<1>1. PICK f : /\ Nth(Refused, step, n) = f[n]
               /\ f[1] = Refused
               /\ \A k \in 1 .. n : k > 1 => /\ \A t : f[k - 1] = Resolved(t) => f[k] = step[t]
                                             /\ f[k - 1] = Refused => f[k] = Refused
  BY NthSteps
<1> DEFINE bad == {k \in 1 .. n : f[k] # Refused}
<1>2. f[1] = Refused /\ \A k \in 1 .. n : k > 1 => (f[k - 1] = Refused => f[k] = Refused)
  BY <1>1
<1>3. SUFFICES ASSUME bad # {} PROVE FALSE
  BY <1>1
<1>4. PICK b \in bad : \A k \in bad : b <= k
  <2>1. bad \in SUBSET (1 .. n) /\ n \in Nat
    OBVIOUS
  <2> HIDE DEF bad
  <2> QED
    BY <1>3, <2>1, Lists!HasEnds
<1>5. b \in 1 .. n /\ f[b] # Refused
  OBVIOUS
<1>6. b > 1
  BY <1>2, <1>5
<1>7. b - 1 \in 1 .. n /\ b - 1 \notin bad
  BY <1>4, <1>5, <1>6
<1>8. f[b - 1] = Refused
  BY <1>7
<1> QED
  BY <1>2, <1>5, <1>6, <1>8

\* A walk over the ahead: B[t] are those of ahead it passes on its way to t.  It ends
\* at the one with n - 1 on the way, and is refused only if there is none.
LEMMA WalkIsNth ==
  ASSUME NEW ahead, IsFiniteSet(ahead), NEW B \in [ahead -> SUBSET ahead], NEW first, NEW step, NEW n \in Nat \ {0},
         (first = Refused /\ ahead = {}) \/ \E t \in ahead : first = Resolved(t) /\ B[t] = {},
         \A t \in ahead : /\ t \notin B[t]
                        /\ \/ step[t] = Refused /\ ahead = B[t] \cup {t}
                           \/ \E u \in ahead : step[t] = Resolved(u) /\ B[u] = B[t] \cup {t}
  PROVE  \/ \E t \in ahead : Nth(first, step, n) = Resolved(t) /\ Cardinality(B[t]) = n - 1
         \/ Nth(first, step, n) = Refused /\ Cardinality(ahead) < n
<1>1. PICK f : /\ Nth(first, step, n) = f[n]
               /\ f[1] = first
               /\ \A k \in 1 .. n : k > 1 => /\ \A t : f[k - 1] = Resolved(t) => f[k] = step[t]
                                             /\ f[k - 1] = Refused => f[k] = Refused
  BY NthSteps
<1> DEFINE There(k) == \E t \in ahead : f[k] = Resolved(t) /\ Cardinality(B[t]) = k - 1
           Over(k) == f[k] = Refused /\ Cardinality(ahead) < k
           bad == {k \in 1 .. n : ~(There(k) \/ Over(k))}
<1>2. Cardinality(ahead) \in Nat
  BY FS_CardinalityType
<1>3. \A t \in ahead : IsFiniteSet(B[t]) /\ B[t] \subseteq ahead /\ Cardinality(B[t]) \in Nat
  BY FS_Subset, FS_CardinalityType
<1>4. f[1] = first /\ \A k \in 1 .. n : k > 1 => /\ \A t : f[k - 1] = Resolved(t) => f[k] = step[t]
                                                 /\ f[k - 1] = Refused => f[k] = Refused
  BY <1>1
<1>5. SUFFICES ASSUME bad # {} PROVE FALSE
  BY <1>1
<1>6. PICK b \in bad : \A k \in bad : b <= k
  <2>1. bad \in SUBSET (1 .. n) /\ n \in Nat
    OBVIOUS
  <2> HIDE DEF bad
  <2> QED
    BY <1>5, <2>1, Lists!HasEnds
<1>7. b \in 1 .. n /\ ~There(b) /\ ~Over(b)
  OBVIOUS
<1>8. CASE b = 1
  <2>1. CASE first = Refused /\ ahead = {}
    <3>1. Cardinality(ahead) = 0
      BY <2>1, FS_EmptySet
    <3> QED
      BY <1>4, <1>7, <1>8, <2>1, <3>1
  <2>2. CASE \E t \in ahead : first = Resolved(t) /\ B[t] = {}
    <3>1. PICK t \in ahead : first = Resolved(t) /\ B[t] = {}
      BY <2>2
    <3>2. f[1] = Resolved(t) /\ Cardinality(B[t]) = 0
      BY <1>4, <3>1, FS_EmptySet
    <3>3. There(1)
      BY <3>2
    <3> QED
      BY <1>7, <1>8, <3>3
  <2> QED
    BY <2>1, <2>2
<1>9. CASE b > 1
  <2>1. b - 1 \in 1 .. n /\ b - 1 \notin bad
    BY <1>6, <1>7, <1>9
  <2>2. There(b - 1) \/ Over(b - 1)
    BY <2>1
  <2>3. CASE Over(b - 1)
    <3>1. f[b] = Refused
      BY <1>4, <1>7, <1>9, <2>3, OutcomeFacts
    <3> QED
      BY <1>2, <1>7, <2>3, <3>1
  <2>4. CASE There(b - 1)
    <3>1. PICK t \in ahead : f[b - 1] = Resolved(t) /\ Cardinality(B[t]) = b - 2
      BY <1>7, <2>4
    <3>2. f[b] = step[t]
      <4>1. \A k \in 1 .. n : k > 1 => \A x : f[k - 1] = Resolved(x) => f[k] = step[x]
        BY <1>4
      <4>2. b \in 1 .. n /\ b > 1 /\ f[b - 1] = Resolved(t)
        BY <1>7, <1>9, <3>1
      <4> QED
        BY <4>1, <4>2, Zenon
    <3>3. Cardinality(B[t] \cup {t}) = b - 1
      <4>1. IsFiniteSet(B[t]) /\ t \notin B[t]
        BY <1>3
      <4>2. Cardinality(B[t] \cup {t}) = Cardinality(B[t]) + 1
        BY <4>1, FS_AddElement
      <4>3. b \in Nat
        BY <1>7
      <4> QED
        BY <3>1, <4>2, <4>3
    <3>4. CASE step[t] = Refused /\ ahead = B[t] \cup {t}
      BY <1>7, <3>2, <3>3, <3>4
    <3>5. CASE \E u \in ahead : step[t] = Resolved(u) /\ B[u] = B[t] \cup {t}
      BY <1>7, <3>2, <3>3, <3>5
    <3> QED
      BY <3>4, <3>5
  <2> QED
    BY <2>2, <2>3, <2>4
<1> QED
  BY <1>7, <1>8, <1>9

\* r is the n-th edge after the base, or there is none; the n-th before, or there is
\* none, or no position to look back from.
Ahead(E, base, n, r) ==
  \/ \E t \in E : r = Resolved(t) /\ t > base /\ Cardinality(Between(E, base, t)) = n - 1
  \/ r = Refused /\ Cardinality({e \in E : e > base}) < n
Behind(w, E, base, n, r) ==
  \/ \E t \in E : r = Resolved(t) /\ t < base /\ Cardinality(Between(E, t, base)) = n - 1
  \/ r = Refused /\ Cardinality({e \in E : e < base}) < n
  \/ r = Refused /\ ~w.stays /\ \A e \in E : e < base

\* resolve_cycle_offset, forwards and backwards.
LEMMA ForwardFacts ==
  ASSUME NEW E \in Edged, NEW w, NEW base \in Nat, NEW n \in Nat \ {0},
         NEW r, r = Nth(FirstAfter(w, base, E), [t \in E |-> Following(t, E)], n)
  PROVE  Ahead(E, base, n, r)
<1> DEFINE ahead == {e \in E : e > base}
           step == [t \in E |-> Following(t, E)]
           B == [t \in ahead |-> Between(E, base, t)]
<1>1. E \in SUBSET Nat /\ IsFiniteSet(ahead)
  BY EdgedIsFinite
<1>2. B \in [ahead -> SUBSET ahead]
  BY DEF Between
<1>3. (FirstAfter(w, base, E) = Refused /\ ahead = {}) \/ \E t \in ahead : FirstAfter(w, base, E) = Resolved(t) /\ B[t] = {}
  <2>1. CASE FirstAfter(w, base, E) = Refused /\ \A e \in E : e <= base
    <3>1. \A e \in E : ~(e > base)
      BY <1>1, <2>1
    <3>2. ahead = {}
      BY <3>1
    <3> QED
      BY <2>1, <3>2
  <2>2. CASE \E t \in E : FirstAfter(w, base, E) = Resolved(t) /\ t > base /\ \A d \in E : d > base => t <= d
    <3>1. PICK t \in E : FirstAfter(w, base, E) = Resolved(t) /\ t > base /\ \A d \in E : d > base => t <= d
      BY <2>2
    <3>2. \A e \in E : ~(base < e /\ e < t)
      BY <1>1, <3>1
    <3>3. B[t] = {}
      BY <3>1, <3>2 DEF Between
    <3> QED
      BY <3>1, <3>3
  <2> QED
    BY <2>1, <2>2, FirstAfterFacts
<1>4. ASSUME NEW t \in ahead
      PROVE  /\ t \notin B[t]
             /\ \/ step[t] = Refused /\ ahead = B[t] \cup {t}
                \/ \E u \in ahead : step[t] = Resolved(u) /\ B[u] = B[t] \cup {t}
  <2>1. t \in Nat /\ t \in E /\ t > base /\ B[t] = Between(E, base, t) /\ step[t] = Following(t, E)
    BY <1>1
  <2>2. t \notin B[t]
    BY <2>1 DEF Between
  <2>3. CASE Following(t, E) = Refused /\ \A e \in E : e <= t
    <3>1. \A e \in E : e > base <=> (base < e /\ e < t) \/ e = t
      BY <1>1, <2>1, <2>3
    <3>2. ahead = Between(E, base, t) \cup {t}
      BY <2>1, <3>1 DEF Between
    <3> QED
      BY <2>1, <2>2, <2>3, <3>2
  <2>4. CASE \E u \in E : Following(t, E) = Resolved(u) /\ u > t /\ \A d \in E : d > t => u <= d
    <3>1. PICK u \in E : Following(t, E) = Resolved(u) /\ u > t /\ \A d \in E : d > t => u <= d
      BY <2>4
    <3>2. u \in ahead /\ B[u] = Between(E, base, u)
      BY <1>1, <2>1, <3>1
    <3>3. \A e \in E : base < e /\ e < u <=> (base < e /\ e < t) \/ e = t
      BY <1>1, <2>1, <3>1
    <3>4. Between(E, base, u) = Between(E, base, t) \cup {t}
      BY <2>1, <3>3 DEF Between
    <3> QED
      BY <2>1, <2>2, <3>1, <3>2, <3>4
  <2> QED
    BY <2>1, <2>3, <2>4, FollowingFacts
<1>5. \/ \E t \in ahead : Nth(FirstAfter(w, base, E), step, n) = Resolved(t) /\ Cardinality(B[t]) = n - 1
      \/ Nth(FirstAfter(w, base, E), step, n) = Refused /\ Cardinality(ahead) < n
  <2> HIDE DEF ahead, step, B
  <2> QED
    BY <1>1, <1>2, <1>3, <1>4, WalkIsNth
<1> QED
  BY <1>5 DEF Ahead

LEMMA BackwardFacts ==
  ASSUME NEW E \in Edged, NEW w, NEW base \in Nat, NEW n \in Nat \ {0},
         NEW r, r = Nth(PrevBefore(w, base, E), [t \in E |-> PrevBefore(w, t, E)], n)
  PROVE  Behind(w, E, base, n, r)
<1> DEFINE ahead == {e \in E : e < base}
           step == [t \in E |-> PrevBefore(w, t, E)]
           B == [t \in ahead |-> Between(E, t, base)]
<1>1. E \in SUBSET Nat /\ IsFiniteSet(ahead)
  BY EdgedIsFinite
<1>2. B \in [ahead -> SUBSET ahead]
  BY DEF Between
<1>3. CASE PrevBefore(w, base, E) = Refused /\ ~w.stays /\ \A e \in E : e < base
  <2>1. r = Refused
    BY <1>3, NthOfNone
  <2> QED
    BY <1>3, <2>1 DEF Behind
<1>4. ASSUME (PrevBefore(w, base, E) = Refused /\ ahead = {})
             \/ \E t \in ahead : PrevBefore(w, base, E) = Resolved(t) /\ B[t] = {}
      PROVE  Behind(w, E, base, n, r)
  <2>1. ASSUME NEW t \in ahead
        PROVE  /\ t \notin B[t]
               /\ \/ step[t] = Refused /\ ahead = B[t] \cup {t}
                  \/ \E u \in ahead : step[t] = Resolved(u) /\ B[u] = B[t] \cup {t}
    <3>1. t \in Nat /\ t \in E /\ t < base /\ B[t] = Between(E, t, base) /\ step[t] = PrevBefore(w, t, E)
      BY <1>1
    <3>2. t \notin B[t]
      BY <3>1 DEF Between
    <3>3. CASE PrevBefore(w, t, E) = Refused /\ \A e \in E : e >= t
      <4>1. \A e \in E : e < base <=> (t < e /\ e < base) \/ e = t
        BY <1>1, <3>1, <3>3
      <4>2. ahead = Between(E, t, base) \cup {t}
        BY <3>1, <4>1 DEF Between
      <4> QED
        BY <3>1, <3>2, <3>3, <4>2
    <3>4. CASE \E u \in E : PrevBefore(w, t, E) = Resolved(u) /\ u < t /\ \A d \in E : d < t => d <= u
      <4>1. PICK u \in E : PrevBefore(w, t, E) = Resolved(u) /\ u < t /\ \A d \in E : d < t => d <= u
        BY <3>4
      <4>2. u \in ahead /\ B[u] = Between(E, u, base)
        BY <1>1, <3>1, <4>1
      <4>3. \A e \in E : u < e /\ e < base <=> (t < e /\ e < base) \/ e = t
        BY <1>1, <3>1, <4>1
      <4>4. Between(E, u, base) = Between(E, t, base) \cup {t}
        BY <3>1, <4>3 DEF Between
      <4> QED
        BY <3>1, <3>2, <4>1, <4>2, <4>4
    <3>5. ~\A e \in E : e < t
      BY <3>1
    <3> QED
      BY <3>1, <3>3, <3>4, <3>5, PrevBeforeFacts
  <2> HIDE DEF ahead, step, B
  <2>2. \/ \E t \in ahead : Nth(PrevBefore(w, base, E), step, n) = Resolved(t) /\ Cardinality(B[t]) = n - 1
        \/ Nth(PrevBefore(w, base, E), step, n) = Refused /\ Cardinality(ahead) < n
    BY <1>1, <1>2, <1>4, <2>1, WalkIsNth
  <2> USE DEF step
  <2>3. \/ \E t \in ahead : r = Resolved(t) /\ Cardinality(B[t]) = n - 1
        \/ r = Refused /\ Cardinality(ahead) < n
    BY <2>2
  <2> USE DEF ahead, B
  <2> QED
    BY <2>3 DEF Behind
<1>5. CASE PrevBefore(w, base, E) = Refused /\ \A e \in E : e >= base
  <2>1. \A e \in E : ~(e < base)
    BY <1>1, <1>5
  <2>2. ahead = {}
    BY <2>1
  <2> QED
    BY <1>4, <1>5, <2>2
<1>6. CASE \E t \in E : PrevBefore(w, base, E) = Resolved(t) /\ t < base /\ \A d \in E : d < base => d <= t
  <2>1. PICK t \in E : PrevBefore(w, base, E) = Resolved(t) /\ t < base /\ \A d \in E : d < base => d <= t
    BY <1>6
  <2>2. \A e \in E : ~(t < e /\ e < base)
    BY <1>1, <2>1
  <2>3. t \in ahead /\ B[t] = {}
    BY <2>1, <2>2 DEF Between
  <2> QED
    BY <1>4, <2>1, <2>3
<1> QED
  BY <1>3, <1>5, <1>6, PrevBeforeFacts
-----------------------------------------------------------------------------
(* Offsets *)

LEMMA EdgesAreEdged ==
  ASSUME Len(file) = LastTick + 1, NEW u
  PROVE  EdgeTicks(u) \in Edged
<1>1. LastTick \in Nat
  BY TimesAssumption
<1>2. Len(file) - 1 = LastTick
  BY <1>1
<1> QED
  BY <1>2 DEF EdgeTicks, Edged

LEMMA SumWraps ==
  ASSUME NEW T \in Nat, NEW a \in 0 .. T, NEW p \in 0 .. T
  PROVE  /\ a + p <= T => (a + p) % (T + 1) = a + p
         /\ a + p > T => (a + p) % (T + 1) < a
OBVIOUS

LEMMA DurationFacts ==
  /\ \A v, u : Duration(v, u).ok /\ Duration(v, u).value = v /\ Duration(v, u).unit = u
  /\ ~Bad.ok
BY DEF Duration, Bad

\* apply_duration_offset, with ticks.
LEMMA TickOffset ==
  ASSUME NEW w, NEW base \in 0 .. Top, NEW k \in DOMAIN Numbers, NEW u \in DOMAIN Ticks
  PROVE  /\ Numbers[k] * Ticks[u] \in Nat
         /\ base + Numbers[k] * Ticks[u] <= Top =>
              Offset(w, base, Duration(Numbers[k], u)) = Resolved(base + Numbers[k] * Ticks[u])
         /\ base + Numbers[k] * Ticks[u] > Top => Offset(w, base, Duration(Numbers[k], u)) = Refused
         /\ base - Numbers[k] * Ticks[u] >= 0 =>
              Offset(w, base, Duration(-Numbers[k], u)) = Resolved(base - Numbers[k] * Ticks[u])
         /\ base - Numbers[k] * Ticks[u] < 0 => Offset(w, base, Duration(-Numbers[k], u)) = Refused
<1>1. Top \in Nat /\ Numbers[k] \in Nat /\ Ticks[u] \in Nat /\ Numbers[k] * Ticks[u] <= Top /\ u \notin Edges
  BY TimesAssumption
<1>2. PICK n \in Nat, m \in Nat : n = Numbers[k] /\ m = Ticks[u]
  BY <1>1
<1>3. PICK p \in 0 .. Top : p = n * m /\ p = m * n
  BY <1>1, <1>2
<1>4. /\ (n = 0 => p = 0) /\ -n \in Int /\ -(-n) = n /\ base \in Nat /\ p \in Nat
      /\ (-n < 0 <=> n # 0) /\ ~(n < 0)
  <2>1. n = 0 => p = 0
    BY <1>3
  <2> QED
    BY <1>1, <2>1
<1>5. Offset(w, base, Duration(n, u)) = IF (base + p) % (Top + 1) < base THEN Refused ELSE Resolved((base + p) % (Top + 1))
  <2>1. PICK d : d = Duration(n, u) /\ d.value = n /\ d.unit = u
    BY DurationFacts
  <2>2. Ticks[d.unit] * (IF d.value < 0 THEN -d.value ELSE d.value) = p
    BY <1>2, <1>3, <1>4, <2>1
  <2>3. Offset(w, base, d) = IF (base + p) % (Top + 1) < base THEN Refused ELSE Resolved((base + p) % (Top + 1))
    BY <1>1, <1>4, <2>1, <2>2, Zenon DEF Offset
  <2> QED
    BY <2>1, <2>3
<1>6. ASSUME n # 0 PROVE Offset(w, base, Duration(-n, u)) = IF base < p THEN Refused ELSE Resolved(base - p)
  <2>1. PICK d : d = Duration(-n, u) /\ d.value = -n /\ d.unit = u
    BY DurationFacts
  <2>2. Ticks[d.unit] * (IF d.value < 0 THEN -d.value ELSE d.value) = p
    BY <1>2, <1>3, <1>4, <1>6, <2>1
  <2>3. Offset(w, base, d) = IF base < p THEN Refused ELSE Resolved(base - p)
    BY <1>1, <1>4, <1>6, <2>1, <2>2, Zenon DEF Offset
  <2> QED
    BY <2>1, <2>3
<1>7. ASSUME n = 0 PROVE -n = n /\ p = 0 /\ base + p <= Top /\ base - p = base + p /\ base - p >= 0
  BY <1>1, <1>4, <1>7
<1>8. /\ base + p <= Top => (base + p) % (Top + 1) = base + p /\ ~(base + p < base)
      /\ base + p > Top => (base + p) % (Top + 1) < base
  BY <1>1, <1>4, SumWraps
<1>9. CASE base + p <= Top
  <2>1. Offset(w, base, Duration(n, u)) = Resolved(base + p)
    BY <1>5, <1>8, <1>9, Zenon
  <2>2. ~(base + p > Top)
    BY <1>1, <1>4, <1>9
  <2>3. CASE n = 0
    BY <1>2, <1>3, <1>4, <1>7, <2>1, <2>2, <2>3
  <2>4. CASE n # 0
    BY <1>2, <1>3, <1>4, <1>6, <2>1, <2>2, <2>4
  <2> QED
    BY <2>3, <2>4
<1>10. CASE base + p > Top
  <2>1. Offset(w, base, Duration(n, u)) = Refused
    BY <1>5, <1>8, <1>10, Zenon
  <2>2. ~(base + p <= Top) /\ n # 0
    BY <1>1, <1>4, <1>10
  <2> QED
    BY <1>2, <1>3, <1>4, <1>6, <2>1, <2>2
<1> QED
  BY <1>1, <1>4, <1>9, <1>10

\* With edges of the clock.
LEMMA EdgeOffset ==
  ASSUME Len(file) = LastTick + 1, NEW w, NEW base \in 0 .. Top, NEW n \in Nat, NEW u \in Edges
  PROVE  /\ n = 0 => Offset(w, base, Duration(n, u)) = Resolved(base) /\ Offset(w, base, Duration(-n, u)) = Resolved(base)
         /\ n # 0 => /\ Ahead(EdgeTicks(u), base, n, Offset(w, base, Duration(n, u)))
                     /\ Behind(w, EdgeTicks(u), base, n, Offset(w, base, Duration(-n, u)))
<1> DEFINE E == EdgeTicks(u)
<1> HIDE DEF E
<1>1. E \in Edged /\ base \in Nat /\ E = EdgeTicks(u)
  BY EdgesAreEdged, TimesAssumption DEF E
<1>2. -n \in Int /\ -(-n) = n /\ (n = 0 => -n = 0) /\ (n # 0 => ~(-n = 0) /\ ~(-n > 0) /\ n > 0)
  OBVIOUS
<1>3. \A v : Offset(w, base, Duration(v, u)) = CycleOffset(w, base, Duration(v, u))
  BY DurationFacts DEF Offset
<1>4. CASE n = 0
  <2>1. Offset(w, base, Duration(n, u)) = Resolved(base)
    BY <1>3, <1>4, DurationFacts DEF CycleOffset
  <2> QED
    BY <1>2, <1>4, <2>1
<1>5. CASE n # 0
  <2>1. Offset(w, base, Duration(n, u)) = Nth(FirstAfter(w, base, E), [t \in E |-> Following(t, E)], n)
    <3>1. PICK d : d = Duration(n, u) /\ d.value = n /\ d.unit = u
      BY DurationFacts
    <3>2. d.value # 0 /\ d.value > 0 /\ EdgeTicks(d.unit) = E
      BY <1>1, <1>2, <1>5, <3>1
    <3>3. CycleOffset(w, base, d) = Nth(FirstAfter(w, base, E), [t \in E |-> Following(t, E)], n)
      BY <3>1, <3>2, Zenon DEF CycleOffset
    <3> QED
      BY <1>3, <3>1, <3>3, Zenon
  <2>2. Offset(w, base, Duration(-n, u)) = Nth(PrevBefore(w, base, E), [t \in E |-> PrevBefore(w, t, E)], n)
    <3>1. PICK d : d = Duration(-n, u) /\ d.value = -n /\ d.unit = u
      BY DurationFacts
    <3>2. d.value # 0 /\ ~(d.value > 0) /\ EdgeTicks(d.unit) = E /\ -d.value = n
      BY <1>1, <1>2, <1>5, <3>1
    <3>3. CycleOffset(w, base, d) = Nth(PrevBefore(w, base, E), [t \in E |-> PrevBefore(w, t, E)], n)
      BY <3>2, Zenon DEF CycleOffset
    <3> QED
      BY <1>3, <3>1, <3>3, Zenon
  <2>3. Ahead(E, base, n, Offset(w, base, Duration(n, u)))
    BY <1>1, <1>5, <2>1, ForwardFacts
  <2>4. Behind(w, E, base, n, Offset(w, base, Duration(-n, u)))
    BY <1>1, <1>5, <2>2, BackwardFacts
  <2> QED
    BY <1>1, <1>5, <2>3, <2>4
<1> QED
  BY <1>4, <1>5

\* So many edges from a base are what is meant.
LEMMA EdgeIsMeant ==
  ASSUME Len(file) = LastTick + 1, NEW base \in 0 .. Top, NEW n \in Nat, NEW u \in Edges
  PROVE  /\ Meant("+", n, u, base, Offset(ask, base, Duration(n, u)))
         /\ Meant("-", n, u, base, Offset(ask, base, Duration(-n, u)))
<1>1. Top \in Nat /\ base \in Nat /\ ("-" = "+" <=> FALSE)
  BY TimesAssumption
<1>2. CASE n = 0
  <2>1. Offset(ask, base, Duration(n, u)) = Resolved(base) /\ Offset(ask, base, Duration(-n, u)) = Resolved(base)
    BY <1>2, EdgeOffset, Zenon
  <2> QED
    BY <1>2, <2>1, Zenon DEF Meant
<1>3. CASE n # 0
  <2> DEFINE E == EdgeTicks(u)
             f == Offset(ask, base, Duration(n, u))
             b == Offset(ask, base, Duration(-n, u))
  <2>1. E \in SUBSET Nat
    BY EdgesAreEdged, EdgedFacts
  <2>2. /\ \/ \E t \in E : f = Resolved(t) /\ t > base /\ Cardinality(Between(E, base, t)) = n - 1
           \/ f = Refused /\ Cardinality({e \in E : e > base}) < n
        /\ \/ \E t \in E : b = Resolved(t) /\ t < base /\ Cardinality(Between(E, t, base)) = n - 1
           \/ b = Refused /\ Cardinality({e \in E : e < base}) < n
           \/ b = Refused /\ ~ask.stays /\ \A e \in E : e < base
    <3>1. Ahead(E, base, n, f) /\ Behind(ask, E, base, n, b)
      <4>1. base \in 0 .. Top /\ n \in Nat /\ u \in Edges /\ Len(file) = LastTick + 1
        OBVIOUS
      <4> QED
        BY <1>3, <4>1, EdgeOffset, Zenon
    <3> HIDE DEF E, f, b
    <3> QED
      BY <3>1, Zenon DEF Ahead, Behind
  <2> HIDE DEF E, f, b
  <2>3. ASSUME NEW t \in E, t > base, Cardinality(Between(E, base, t)) = n - 1
        PROVE  IsNth(n, base, t, E)
    <3>1. Between(E, t, base) = {}
      <4>1. \A e \in E : ~(t < e /\ e < base)
        BY <1>1, <2>1, <2>3
      <4> QED
        BY <4>1 DEF Between
    <3>2. Between(E, base, t) \cup Between(E, t, base) = Between(E, base, t)
      BY <3>1
    <3>3. Cardinality(Between(E, base, t) \cup Between(E, t, base)) = n - 1
      BY <2>3, <3>2, Zenon
    <3>4. n = 1 + (n - 1)
      OBVIOUS
    <3> QED
      BY <3>3, <3>4, Zenon DEF IsNth
  <2>4. ASSUME NEW t \in E, t < base, Cardinality(Between(E, t, base)) = n - 1
        PROVE  IsNth(n, base, t, E)
    <3>1. Between(E, base, t) = {}
      <4>1. \A e \in E : ~(base < e /\ e < t)
        BY <1>1, <2>1, <2>4
      <4> QED
        BY <4>1 DEF Between
    <3>2. Between(E, base, t) \cup Between(E, t, base) = Between(E, t, base)
      BY <3>1
    <3>3. Cardinality(Between(E, base, t) \cup Between(E, t, base)) = n - 1
      BY <2>4, <3>2, Zenon
    <3>4. n = 1 + (n - 1)
      OBVIOUS
    <3> QED
      BY <3>3, <3>4, Zenon DEF IsNth
  <2>5. Meant("+", n, u, base, f)
    <3>1. CASE \E t \in E : f = Resolved(t) /\ t > base /\ Cardinality(Between(E, base, t)) = n - 1
      <4>1. PICK t \in E : f = Resolved(t) /\ t > base /\ IsNth(n, base, t, E)
        BY <2>3, <3>1
      <4>2. f.ok /\ f.time = t
        BY <4>1, OutcomeFacts, Zenon
      <4>3. t \in {e \in E : IF "+" = "+" THEN e > base ELSE e < base}
        BY <4>1
      <4>4. f.time \in {e \in E : IF "+" = "+" THEN e > base ELSE e < base} /\ IsNth(n, base, f.time, E)
        BY <4>1, <4>2, <4>3, Zenon
      <4> QED
        BY <1>3, <4>2, <4>4, Zenon DEF Meant, E
    <3>2. CASE f = Refused /\ Cardinality({e \in E : e > base}) < n
      <4>1. ~f.ok
        BY <3>2, OutcomeFacts, Zenon
      <4>2. {e \in E : IF "+" = "+" THEN e > base ELSE e < base} = {e \in E : e > base}
        OBVIOUS
      <4>3. Cardinality({e \in E : IF "+" = "+" THEN e > base ELSE e < base}) < n
        BY <3>2, <4>2
      <4> QED
        BY <1>3, <4>1, <4>3, Zenon DEF Meant, E
    <3> QED
      BY <2>2, <3>1, <3>2
  <2>6. Meant("-", n, u, base, b)
    <3>1. CASE \E t \in E : b = Resolved(t) /\ t < base /\ Cardinality(Between(E, t, base)) = n - 1
      <4>1. PICK t \in E : b = Resolved(t) /\ t < base /\ IsNth(n, base, t, E)
        BY <2>4, <3>1
      <4>2. b.ok /\ b.time = t
        BY <4>1, OutcomeFacts, Zenon
      <4>3. t \in {e \in E : IF "-" = "+" THEN e > base ELSE e < base}
        BY <1>1, <4>1
      <4>4. b.time \in {e \in E : IF "-" = "+" THEN e > base ELSE e < base} /\ IsNth(n, base, b.time, E)
        BY <4>1, <4>2, <4>3, Zenon
      <4> QED
        BY <1>3, <4>2, <4>4, Zenon DEF Meant, E
    <3>2. CASE b = Refused /\ Cardinality({e \in E : e < base}) < n
      <4>1. ~b.ok
        BY <3>2, OutcomeFacts, Zenon
      <4>2. {e \in E : IF "-" = "+" THEN e > base ELSE e < base} = {e \in E : e < base}
        BY <1>1
      <4>3. Cardinality({e \in E : IF "-" = "+" THEN e > base ELSE e < base}) < n
        BY <3>2, <4>2
      <4> QED
        BY <1>3, <4>1, <4>3, Zenon DEF Meant, E
    <3>3. CASE b = Refused /\ ~ask.stays /\ \A e \in E : e < base
      <4>1. ~b.ok
        BY <3>3, OutcomeFacts, Zenon
      <4> QED
        BY <1>3, <3>3, <4>1, Zenon DEF Meant, E
    <3> QED
      BY <2>2, <3>1, <3>2, <3>3
  <2> QED
    BY <2>5, <2>6 DEF f, b
<1> QED
  BY <1>2, <1>3

\* A time so many ticks or edges from a base is what is meant.
LEMMA OffsetIsMeant ==
  ASSUME Len(file) = LastTick + 1, NEW base \in 0 .. Top, NEW k \in DOMAIN Numbers, NEW u \in DOMAIN Ticks \cup Edges
  PROVE  /\ Meant("+", Numbers[k], u, base, Offset(ask, base, Duration(Numbers[k], u)))
         /\ Meant("-", Numbers[k], u, base, Offset(ask, base, Duration(-Numbers[k], u)))
<1>1. Top \in Nat /\ base \in Nat /\ Numbers[k] \in Nat /\ ("-" = "+" <=> FALSE)
  BY TimesAssumption
<1>2. CASE u \notin Edges
  <2>1. PICK p \in Nat : p = Numbers[k] * Ticks[u]
    BY <1>2, TickOffset
  <2>2. /\ base + p <= Top => Offset(ask, base, Duration(Numbers[k], u)) = Resolved(base + p)
        /\ base + p > Top => Offset(ask, base, Duration(Numbers[k], u)) = Refused
        /\ base - p >= 0 => Offset(ask, base, Duration(-Numbers[k], u)) = Resolved(base - p)
        /\ base - p < 0 => Offset(ask, base, Duration(-Numbers[k], u)) = Refused
    BY <1>2, <2>1, TickOffset
  <2>3. /\ base + p \in 0 .. Top <=> ~(base + p > Top)
        /\ base - p \in 0 .. Top <=> ~(base - p < 0)
        /\ ~(base + p > Top) => base + p <= Top
        /\ ~(base - p < 0) => base - p >= 0
    BY <1>1, <2>1
  <2>4. Offset(ask, base, Duration(Numbers[k], u)) = IF base + p \in 0 .. Top THEN Resolved(base + p) ELSE Refused
    BY <2>2, <2>3, Zenon
  <2>5. Offset(ask, base, Duration(-Numbers[k], u)) = IF base - p \in 0 .. Top THEN Resolved(base - p) ELSE Refused
    BY <2>2, <2>3, Zenon
  <2> QED
    BY <1>1, <1>2, <2>1, <2>4, <2>5, Zenon DEF Meant
<1>3. CASE u \in Edges
  BY <1>1, <1>3, EdgeIsMeant
<1> QED
  BY <1>2, <1>3

\* r, if it is accepted, is from low to high.
Within(r, low, high) == r = Refused \/ \E t \in low .. high : r = Resolved(t)

\* A time from a base is one that fits, and on the side asked for.
LEMMA OffsetBounds ==
  ASSUME Len(file) = LastTick + 1, NEW w, NEW base \in 0 .. Top, NEW k \in DOMAIN Numbers, NEW u \in DOMAIN Ticks \cup Edges
  PROVE  Within(Offset(w, base, Duration(Numbers[k], u)), base, Top) /\ Within(Offset(w, base, Duration(-Numbers[k], u)), 0, base)
<1>1. Top \in Nat /\ LastTick \in 0 .. Top /\ base \in Nat /\ Numbers[k] \in Nat
  BY TimesAssumption
<1>2. CASE u \notin Edges
  <2>1. PICK p \in Nat : p = Numbers[k] * Ticks[u]
    BY <1>2, TickOffset
  <2>2. /\ base + p <= Top => Offset(w, base, Duration(Numbers[k], u)) = Resolved(base + p)
        /\ base + p > Top => Offset(w, base, Duration(Numbers[k], u)) = Refused
        /\ base - p >= 0 => Offset(w, base, Duration(-Numbers[k], u)) = Resolved(base - p)
        /\ base - p < 0 => Offset(w, base, Duration(-Numbers[k], u)) = Refused
    BY <1>2, <2>1, TickOffset
  <2>3. /\ base + p <= Top => base + p \in base .. Top
        /\ base + p <= Top \/ base + p > Top
        /\ base - p >= 0 => base - p \in 0 .. base
        /\ base - p >= 0 \/ base - p < 0
    BY <1>1, <2>1
  <2> QED
    BY <2>2, <2>3, Zenon DEF Within
<1>3. CASE u \in Edges
  <2>1. EdgeTicks(u) \in SUBSET Nat /\ \A e \in EdgeTicks(u) : e \in 0 .. Top
    <3>1. EdgeTicks(u) \in SUBSET (1 .. LastTick)
      BY EdgesAreEdged DEF Edged
    <3> QED
      BY <1>1, <3>1
  <2>2. base \in base .. Top /\ base \in 0 .. base
    BY <1>1
  <2>3. \A e \in EdgeTicks(u) : (e > base => e \in base .. Top) /\ (e < base => e \in 0 .. base)
    BY <1>1, <2>1
  <2> DEFINE E == EdgeTicks(u)
             n == Numbers[k]
             f == Offset(w, base, Duration(n, u))
             b == Offset(w, base, Duration(-n, u))
  <2>4. n \in Nat /\ (n = 0 => f = Resolved(base) /\ b = Resolved(base)) /\ (n # 0 => Ahead(E, base, n, f) /\ Behind(w, E, base, n, b))
    BY <1>1, <1>3, EdgeOffset, Zenon
  <2> HIDE DEF E, f, b, n
  <2>5. (f = Resolved(base) \/ f = Refused \/ \E t \in E : f = Resolved(t) /\ t > base)
        /\ (b = Resolved(base) \/ b = Refused \/ \E t \in E : b = Resolved(t) /\ t < base)
    BY <2>4, Zenon DEF Ahead, Behind
  <2>6. Within(f, base, Top) /\ Within(b, 0, base)
    BY <2>2, <2>3, <2>5, Zenon DEF E, Within
  <2> QED
    BY <2>6 DEF f, b, n
<1> QED
  BY <1>2, <1>3

LEMMA TextFacts ==
  ASSUME NEW t \in Text
  PROVE  /\ Len(t) \in Nat /\ (t = << >> <=> Len(t) = 0)
         /\ \A i \in 1 .. Len(t) : t[i] \in STRING
         /\ t # << >> => /\ Tail(t) \in Text /\ Len(Tail(t)) = Len(t) - 1
                         /\ \A i \in 1 .. Len(t) - 1 : Tail(t)[i] = t[i + 1]
                         /\ Tail(t) = SubSeq(t, 2, Len(t))
<1>1. t \in Seq(STRING)
  BY DEF Text
<1>2. Len(t) \in Nat /\ (t = << >> <=> Len(t) = 0) /\ \A i \in 1 .. Len(t) : t[i] \in STRING
  BY <1>1, EmptySeq, LenProperties, ElementOfSeq
<1>3. ASSUME t # << >>
      PROVE  /\ Tail(t) \in Text /\ Len(Tail(t)) = Len(t) - 1
             /\ \A i \in 1 .. Len(t) - 1 : Tail(t)[i] = t[i + 1]
             /\ Tail(t) = SubSeq(t, 2, Len(t))
  BY <1>1, <1>3, HeadTailProperties, TailIsSubSeq DEF Text
<1> QED
  BY <1>2, <1>3

\* parse_duration_spec: a number, with a sign of its own or without, and a unit.
LEMMA ParseFacts ==
  ASSUME NEW text \in Text, ParseDuration(text).ok
  PROVE  /\ Len(text) > 0
         /\ Unsigned(text) \in Text /\ Len(Unsigned(text)) \in {1, 2}
         /\ \E k \in DOMAIN Numbers, u \in DOMAIN Ticks \cup Edges :
              \/ ParseDuration(text) = Duration(Numbers[k], u)
              \/ ParseDuration(text) = Duration(-Numbers[k], u) /\ At(text, 1, {"-"})
<1> DEFINE n == Unsigned(text)
<1>1. n \in Text /\ (text = << >> => n = << >>)
  <2>1. At(text, 1, Signs) => text # << >>
    BY TextFacts DEF At
  <2> QED
    BY <2>1, TextFacts DEF Unsigned
<1>2. \A k \in DOMAIN Numbers : Numbers[k] \in Nat /\ 1 * Numbers[k] = Numbers[k] /\ -1 * Numbers[k] = -Numbers[k]
  BY TimesAssumption
<1>3. "ns" \in DOMAIN Ticks \cup Edges
  BY TimesAssumption
<1>4. ~Bad.ok
  BY DurationFacts
<1> DEFINE s == IF At(text, 1, {"-"}) THEN -1 ELSE 1
<1>5. ParseDuration(text) = IF n = << >> \/ ~IsNumber(n[1]) \/ Len(n) > 2 THEN Bad
                            ELSE IF Len(n) = 1 THEN Duration(s * Numbers[n[1]], "ns")
                            ELSE IF n[2] \in DOMAIN Ticks \cup Edges THEN Duration(s * Numbers[n[1]], n[2])
                            ELSE Bad
  BY DEF ParseDuration
<1>6. s = 1 \/ (s = -1 /\ At(text, 1, {"-"}))
  OBVIOUS
<1> HIDE DEF n, s
<1>7. n # << >> /\ IsNumber(n[1]) /\ ~(Len(n) > 2)
  BY <1>4, <1>5, Zenon
<1>8. PICK u \in DOMAIN Ticks \cup Edges : ParseDuration(text) = Duration(s * Numbers[n[1]], u)
  <2>1. CASE Len(n) = 1
    BY <1>3, <1>5, <1>7, <2>1, Zenon
  <2>2. CASE Len(n) # 1
    <3>1. n[2] \in DOMAIN Ticks \cup Edges
      BY <1>4, <1>5, <1>7, <2>2, Zenon
    <3> QED
      BY <1>5, <1>7, <2>2, <3>1, Zenon
  <2> QED
    BY <2>1, <2>2
<1>9. n[1] \in DOMAIN Numbers /\ Len(n) \in {1, 2}
  <2>1. Len(n) \in Nat /\ Len(n) # 0
    BY <1>1, <1>7, TextFacts
  <2>2. Len(n) = 1 \/ Len(n) = 2
    <3>1. PICK m \in Nat : m = Len(n) /\ m # 0 /\ ~(m > 2)
      BY <1>7, <2>1, Zenon
    <3> QED
      BY <3>1
  <2> QED
    BY <1>7, <2>2, Zenon DEF IsNumber
<1>10. Len(text) > 0
  BY <1>1, <1>7, TextFacts
<1>11. s * Numbers[n[1]] = Numbers[n[1]] \/ (s * Numbers[n[1]] = -Numbers[n[1]] /\ At(text, 1, {"-"}))
  BY <1>2, <1>6, <1>9
<1>12. Unsigned(text) = n
  BY DEF n
<1> QED
  BY <1>1, <1>8, <1>9, <1>10, <1>11, <1>12, Zenon
-----------------------------------------------------------------------------
(* Texts *)

\* A cursor's name ends here.
IsEnd(text, i) == text[i] = "+" \/ (text[i] = "-" /\ i < Len(text) /\ IsNumber(text[i + 1]))

LEMMA NameEndFacts ==
  ASSUME NEW text \in Text
  PROVE  \/ NameEnd(text) = Len(text) + 1 /\ \A i \in 2 .. Len(text) : ~IsEnd(text, i)
         \/ /\ NameEnd(text) \in 2 .. Len(text) /\ IsEnd(text, NameEnd(text))
            /\ \A i \in 2 .. Len(text) : IsEnd(text, i) => NameEnd(text) <= i
<1> DEFINE ends == {i \in 2 .. Len(text) : IsEnd(text, i)}
<1>1. Len(text) \in Nat
  BY TextFacts
<1>2. NameEnd(text) = IF ends = {} THEN Len(text) + 1 ELSE CHOOSE i \in ends : \A j \in ends : i <= j
  BY DEF NameEnd, IsEnd
<1>3. CASE ends = {}
  <2>1. NameEnd(text) = Len(text) + 1
    BY <1>2, <1>3
  <2> QED
    BY <1>3, <2>1
<1>4. CASE ends # {}
  <2>1. ends \in SUBSET (1 .. Len(text))
    BY <1>1
  <2>2. \E i \in ends : \A j \in ends : i <= j
    <3> HIDE DEF ends
    <3> QED
      BY <1>1, <1>4, <2>1, Lists!HasEnds
  <2>3. NameEnd(text) \in ends /\ \A j \in ends : NameEnd(text) <= j
    <3> HIDE DEF ends
    <3> QED
      BY <1>2, <1>4, <2>2
  <2> QED
    BY <2>3
<1> QED
  BY <1>3, <1>4

LEMMA SignFacts ==
  ASSUME NEW s \in Signs
  PROVE  s \in STRING /\ (s = "+" \/ s = "-") /\ ~IsNumber(s)
<1>1. s = "+" \/ s = "-"
  BY DEF Signs
<1>3. s \in STRING
  BY TimesAssumption, Zenon
<1>2. s \notin DOMAIN Numbers
  BY TimesAssumption, Zenon
<1> QED
  BY <1>1, <1>2, <1>3, Zenon DEF IsNumber

\* A text, a sign, and another text.
IsJoin(T, a, s, b) ==
  /\ Len(a) \in Nat /\ Len(b) \in Nat /\ Len(T) = Len(a) + 1 + Len(b)
  /\ \A i \in 1 .. Len(a) : T[i] = a[i]
  /\ T[Len(a) + 1] = s
  /\ \A i \in 1 .. Len(b) : T[Len(a) + 1 + i] = b[i]
  /\ SubSeq(T, Len(a) + 2, Len(T)) = b
  /\ \A i \in 2 .. Len(a) + 1 : SubSeq(T, 2, i - 1) = SubSeq(a, 2, i - 1)

LEMMA Joined ==
  ASSUME NEW Q, NEW a \in Seq(Q), NEW s \in Q, NEW b \in Seq(Q), NEW T, T = a \o <<s>> \o b
  PROVE  T \in Seq(Q) /\ IsJoin(T, a, s, b)
<1> DEFINE S == <<s>>
<1>1. a \in Seq(Q) /\ b \in Seq(Q) /\ S \in Seq(Q) /\ Len(S) = 1 /\ S[1] = s
  <2>1. a \in Seq(Q) /\ b \in Seq(Q)
    OBVIOUS
  <2>2. S \in Seq(Q)
    OBVIOUS
  <2>3. Len(S) = 1
    OBVIOUS
  <2>4. S[1] = s
    OBVIOUS
  <2> QED
    BY <2>1, <2>2, <2>3, <2>4
<1> HIDE DEF S
<1>2. Len(a) \in Nat /\ Len(b) \in Nat
  BY <1>1, LenProperties
<1> DEFINE A == a \o S
<1>3. A \in Seq(Q) /\ Len(A) = Len(a) + 1 /\ \A i \in 1 .. Len(a) + 1 : A[i] = IF i <= Len(a) THEN a[i] ELSE S[i - Len(a)]
  <2>1. /\ A \in Seq(Q) /\ Len(A) = Len(a) + Len(S)
        /\ \A i \in 1 .. Len(a) + Len(S) : A[i] = IF i <= Len(a) THEN a[i] ELSE S[i - Len(a)]
    BY <1>1, ConcatProperties, Zenon
  <2> QED
    BY <1>1, <2>1, Zenon
<1> HIDE DEF A
<1>4. T = A \o b
  BY DEF A, S
<1>5. /\ T \in Seq(Q) /\ Len(T) = Len(A) + Len(b)
      /\ \A i \in 1 .. Len(A) + Len(b) : T[i] = IF i <= Len(A) THEN A[i] ELSE b[i - Len(A)]
  <2>0. A \in Seq(Q) /\ b \in Seq(Q)
    BY <1>1, <1>3
  <2>1. /\ A \o b \in Seq(Q) /\ Len(A \o b) = Len(A) + Len(b)
        /\ \A i \in 1 .. Len(A) + Len(b) : (A \o b)[i] = IF i <= Len(A) THEN A[i] ELSE b[i - Len(A)]
    BY <2>0, ConcatProperties, Zenon
  <2> QED
    BY <1>4, <2>1, Zenon
<1>6. \A i \in 1 .. Len(a) : T[i] = a[i]
  BY <1>2, <1>3, <1>5
<1>7. T[Len(a) + 1] = s
  <2>1. Len(a) + 1 \in 1 .. Len(A) + Len(b) /\ Len(a) + 1 <= Len(A) /\ Len(a) + 1 \in 1 .. Len(a) + 1 /\ ~(Len(a) + 1 <= Len(a)) /\ Len(a) + 1 - Len(a) = 1
    BY <1>2, <1>3
  <2>2. T[Len(a) + 1] = A[Len(a) + 1]
    BY <1>5, <2>1, Zenon
  <2>3. A[Len(a) + 1] = S[1]
    BY <1>3, <2>1
  <2> QED
    BY <1>1, <2>2, <2>3
<1>8. \A i \in 1 .. Len(b) : T[Len(a) + 1 + i] = b[i]
  BY <1>2, <1>3, <1>5
<1>9. Len(T) = Len(a) + 1 + Len(b)
  BY <1>3, <1>5
<1>10. SubSeq(T, Len(a) + 2, Len(T)) = b
  <2>1. SubSeq(T, Len(a) + 2, Len(T)) = [i \in 1 .. Len(b) |-> T[Len(a) + 1 + i]]
    BY <1>2, <1>5, <1>9
  <2>2. [i \in 1 .. Len(b) |-> T[Len(a) + 1 + i]] = [i \in 1 .. Len(b) |-> b[i]]
    BY <1>8
  <2>3. b = [i \in 1 .. Len(b) |-> b[i]]
    BY <1>1, LenProperties
  <2> QED
    BY <2>1, <2>2, <2>3
<1>11. ASSUME NEW i \in 2 .. Len(a) + 1 PROVE SubSeq(T, 2, i - 1) = SubSeq(a, 2, i - 1)
  <2>1. SubSeq(T, 2, i - 1) = [j \in 1 .. i - 2 |-> T[j + 1]]
    BY <1>2, <1>5
  <2>2. SubSeq(a, 2, i - 1) = [j \in 1 .. i - 2 |-> a[j + 1]]
    BY <1>1, <1>2
  <2>3. \A j \in 1 .. i - 2 : T[j + 1] = a[j + 1]
    BY <1>2, <1>6
  <2> QED
    BY <2>1, <2>2, <2>3
<1> QED
  BY <1>2, <1>5, <1>6, <1>7, <1>8, <1>9, <1>10, <1>11, Zenon DEF IsJoin

LEMMA JoinFacts ==
  ASSUME NEW a \in Text, NEW s \in STRING, NEW b \in Text
  PROVE  a \o <<s>> \o b \in Text /\ IsJoin(a \o <<s>> \o b, a, s, b)
BY Joined, Zenon DEF Text

\* A name that has ended stays as it is, and one that has not goes on to the sign.
LEMMA NameEndOfJoin ==
  ASSUME NEW a \in Text, a # << >>, NEW s \in Signs, NEW b \in Text, b # << >>, s = "-" => IsNumber(b[1]) \/ NameEnd(a) <= Len(a),
         NEW T, T = a \o <<s>> \o b
  PROVE  NameEnd(T) = NameEnd(a)
<1>1. s \in STRING /\ (s = "+" \/ s = "-") /\ ~IsNumber(s)
  BY SignFacts
<1>2. /\ T \in Text /\ Len(a) \in Nat /\ Len(b) \in Nat /\ Len(T) = Len(a) + 1 + Len(b)
      /\ \A i \in 1 .. Len(a) : T[i] = a[i]
      /\ T[Len(a) + 1] = s
      /\ \A i \in 1 .. Len(b) : T[Len(a) + 1 + i] = b[i]
  <2>1. T \in Text /\ IsJoin(T, a, s, b)
    BY <1>1, JoinFacts, Zenon
  <2> QED
    BY <2>1, Zenon DEF IsJoin
<1>3. Len(a) >= 1 /\ Len(b) >= 1
  BY <1>2, TextFacts
<1>4. ASSUME NEW i \in 2 .. Len(a) PROVE IsEnd(T, i) <=> IsEnd(a, i)
  <2>1. T[i] = a[i] /\ i < Len(T)
    BY <1>2
  <2>2. CASE i < Len(a)
    <3>1. T[i + 1] = a[i + 1]
      BY <1>2, <2>2
    <3> QED
      BY <2>1, <2>2, <3>1 DEF IsEnd
  <2>3. CASE i = Len(a)
    <3>1. T[i + 1] = s /\ ~(i < Len(a))
      BY <1>2, <2>3
    <3> QED
      BY <1>1, <2>1, <3>1, Zenon DEF IsEnd
  <2> QED
    BY <1>2, <2>2, <2>3
<1>5. CASE NameEnd(a) = Len(a) + 1 /\ \A i \in 2 .. Len(a) : ~IsEnd(a, i)
  <2>1. IsEnd(T, Len(a) + 1)
    <3>1. s = "-" => IsNumber(b[1])
      BY <1>2, <1>5
    <3>2. T[Len(a) + 1 + 1] = b[1] /\ Len(a) + 1 < Len(T)
      BY <1>2, <1>3
    <3> QED
      BY <1>1, <1>2, <3>1, <3>2, Zenon DEF IsEnd
  <2>2. \A i \in 2 .. Len(a) : ~IsEnd(T, i)
    BY <1>4, <1>5
  <2>3. Len(a) + 1 \in 2 .. Len(T)
    BY <1>2, <1>3
  <2>4. \/ NameEnd(T) = Len(T) + 1 /\ \A i \in 2 .. Len(T) : ~IsEnd(T, i)
        \/ /\ NameEnd(T) \in 2 .. Len(T) /\ IsEnd(T, NameEnd(T))
           /\ \A i \in 2 .. Len(T) : IsEnd(T, i) => NameEnd(T) <= i
    BY <1>2, NameEndFacts, Zenon
  <2>5. /\ NameEnd(T) \in 2 .. Len(T) /\ IsEnd(T, NameEnd(T)) /\ NameEnd(T) <= Len(a) + 1
    BY <2>1, <2>3, <2>4, Zenon
  <2>6. NameEnd(T) \notin 2 .. Len(a)
    BY <2>2, <2>5, Zenon
  <2> QED
    BY <1>2, <1>5, <2>5, <2>6
<1>6. CASE NameEnd(a) \in 2 .. Len(a) /\ IsEnd(a, NameEnd(a)) /\ \A i \in 2 .. Len(a) : IsEnd(a, i) => NameEnd(a) <= i
  <2>1. PICK e \in 2 .. Len(a) : e = NameEnd(a) /\ IsEnd(a, e) /\ \A i \in 2 .. Len(a) : IsEnd(a, i) => e <= i
    BY <1>6
  <2>2. IsEnd(T, e) /\ e \in 2 .. Len(T)
    BY <1>2, <1>4, <2>1
  <2>3. \A i \in 2 .. Len(T) : IsEnd(T, i) => e <= i
    BY <1>2, <1>4, <2>1
  <2>4. \/ NameEnd(T) = Len(T) + 1 /\ \A i \in 2 .. Len(T) : ~IsEnd(T, i)
        \/ /\ NameEnd(T) \in 2 .. Len(T) /\ IsEnd(T, NameEnd(T))
           /\ \A i \in 2 .. Len(T) : IsEnd(T, i) => NameEnd(T) <= i
    BY <1>2, NameEndFacts, Zenon
  <2>5. NameEnd(T) \in 2 .. Len(T) /\ NameEnd(T) <= e /\ e <= NameEnd(T)
    BY <2>2, <2>3, <2>4, Zenon
  <2> QED
    BY <1>2, <2>1, <2>5
<1> QED
  BY <1>5, <1>6, NameEndFacts

\* A text that goes on behind a duration is none.
LEMMA TooLong ==
  ASSUME NEW d \in Text, ParseDuration(d).ok, NEW x \in Text, Len(x) >= Len(d) + 2, x[1] = d[1]
  PROVE  ~ParseDuration(x).ok
<1>1. Len(d) > 0 /\ Len(d) \in Nat /\ Len(x) \in Nat /\ d # << >> /\ x # << >>
  BY ParseFacts, TextFacts
<1>2. Len(Unsigned(d)) >= 1
  BY ParseFacts, SMTT(30)
<1>3. At(d, 1, Signs) <=> At(x, 1, Signs)
  BY <1>1 DEF At
<1>4. CASE At(d, 1, Signs)
  <2>1. Unsigned(d) = Tail(d) /\ Unsigned(x) = Tail(x)
    BY <1>3, <1>4, Zenon DEF Unsigned
  <2>2. Len(Tail(d)) = Len(d) - 1 /\ Len(Tail(x)) = Len(x) - 1
    BY <1>1, TextFacts
  <2>3. Len(Unsigned(x)) > 2
    BY <1>1, <1>2, <2>1, <2>2
  <2> QED
    BY <2>3, DurationFacts, Zenon DEF ParseDuration
<1>5. CASE ~At(d, 1, Signs)
  <2>1. Unsigned(d) = d /\ Unsigned(x) = x
    BY <1>3, <1>5, Zenon DEF Unsigned
  <2>2. Len(Unsigned(x)) > 2
    BY <1>1, <2>1
  <2> QED
    BY <2>2, DurationFacts, Zenon DEF ParseDuration
<1> QED
  BY <1>4, <1>5

\* A text that is a cursor, and its name.
IsBare(a) == a # << >> /\ a[1] = "@" /\ (Len(a) = 1 \/ (a[2] \notin Signs /\ NameEnd(a) = Len(a) + 1))
NameOf(w, a) == IF Len(a) = 1 THEN w.active ELSE Tail(a)

LEMMA BareFacts ==
  ASSUME NEW a \in Text, BareCursor(a)
  PROVE  IsBare(a)
<1>1. Len(a) \in Nat /\ Len(a) >= 1 /\ a[1] = "@" /\ a # << >>
  BY TextFacts DEF BareCursor, At
<1>2. /\ Tail(a) \in Text /\ Len(Tail(a)) = Len(a) - 1
      /\ \A i \in 1 .. Len(a) - 1 : Tail(a)[i] = a[i + 1]
  BY <1>1, TextFacts
<1>3. /\ ~At(Tail(a), 1, Signs)
      /\ \A i \in DOMAIN Tail(a) : ~IsEnd(Tail(a), i)
  BY Zenon DEF BareCursor, Plain, IsEnd
<1>4. DOMAIN Tail(a) = 1 .. Len(a) - 1
  BY <1>2, LenProperties DEF Text
<1>5. ASSUME NEW i \in 2 .. Len(a) PROVE ~IsEnd(a, i)
  <2>1. i - 1 \in 1 .. Len(a) - 1 /\ Tail(a)[i - 1] = a[i] /\ (i - 1 < Len(a) - 1 <=> i < Len(a))
    <3>1. i - 1 \in 1 .. Len(a) - 1 /\ i - 1 + 1 = i /\ (i - 1 < Len(a) - 1 <=> i < Len(a))
      BY <1>1
    <3> QED
      BY <1>2, <3>1
  <2>2. i < Len(a) => Tail(a)[i - 1 + 1] = a[i + 1]
    BY <1>1, <1>2
  <2>3. ~IsEnd(Tail(a), i - 1)
    BY <1>3, <1>4, <2>1, Zenon
  <2> QED
    BY <1>2, <2>1, <2>2, <2>3, Zenon DEF IsEnd
<1>6. NameEnd(a) = Len(a) + 1
  BY <1>5, NameEndFacts
<1>7. Len(a) # 1 => a[2] \notin Signs
  <2>1. Len(a) # 1 => 1 <= Len(Tail(a)) /\ Tail(a)[1] = a[2]
    BY <1>1, <1>2
  <2> QED
    BY <1>3, <2>1, Zenon DEF At
<1> QED
  BY <1>1, <1>6, <1>7 DEF IsBare

LEMMA AtBare ==
  ASSUME NEW w, NEW a \in Text, IsBare(a)
  PROVE  AtCursor(w, a) = IF NameOf(w, a) \notin DOMAIN Cursors THEN Refused ELSE Resolved(Cursors[NameOf(w, a)])
<1> DEFINE active == Len(a) = 1 \/ At(a, 2, Signs)
           end == IF active THEN 2 ELSE NameEnd(a)
           name == IF active THEN w.active ELSE SubSeq(a, 2, end - 1)
<1>1. Len(a) \in Nat /\ a # << >> /\ Len(a) >= 1
  BY TextFacts DEF IsBare
<1>2. active <=> Len(a) = 1
  BY <1>1 DEF IsBare, At
<1>3. end = Len(a) + 1 /\ ~(end <= Len(a)) /\ end > Len(a) /\ end - 1 = Len(a)
  <2>1. CASE Len(a) = 1
    <3>1. end = 2
      BY <1>2, <2>1, Zenon
    <3> HIDE DEF end
    <3> QED
      BY <2>1, <3>1
  <2>2. CASE Len(a) # 1
    <3>1. end = Len(a) + 1
      BY <1>2, <2>2, Zenon DEF IsBare
    <3> HIDE DEF end
    <3> QED
      BY <1>1, <3>1
  <2> QED
    BY <2>1, <2>2, Zenon
<1>4. name = NameOf(w, a)
  <2>1. CASE Len(a) = 1
    BY <1>2, <2>1 DEF NameOf
  <2>2. CASE Len(a) # 1
    <3>1. SubSeq(a, 2, end - 1) = Tail(a)
      BY <1>1, <1>3, TextFacts
    <3> QED
      BY <1>2, <2>2, <3>1 DEF NameOf
  <2> QED
    BY <2>1, <2>2
<1> HIDE DEF active
<1> DEFINE d == ParseDuration(SubSeq(a, end + 1, Len(a)))
           offset == IF At(a, end, {"-"}) THEN Duration(-d.value, d.unit) ELSE d
<1>5. AtCursor(w, a) = IF end <= Len(a) /\ ~d.ok THEN Refused
                       ELSE IF name \notin DOMAIN Cursors THEN Refused
                       ELSE IF end > Len(a) THEN Resolved(Cursors[name])
                       ELSE Offset(w, Cursors[name], offset)
  BY DEF AtCursor, active
<1> HIDE DEF end, name, d, offset
<1> QED
  BY <1>3, <1>4, <1>5, Zenon

\* A duration behind a cursor is from the cursor.
LEMMA AtOffset ==
  ASSUME NEW w, NEW a \in Text, IsBare(a), NEW s \in Signs, NEW b \in Text, b # << >>, s = "-" => IsNumber(b[1])
  PROVE  AtCursor(w, a \o <<s>> \o b) =
           IF ~ParseDuration(b).ok \/ NameOf(w, a) \notin DOMAIN Cursors THEN Refused
           ELSE Offset(w, Cursors[NameOf(w, a)],
                       IF s = "-" THEN Duration(-ParseDuration(b).value, ParseDuration(b).unit) ELSE ParseDuration(b))
<1> DEFINE T == a \o <<s>> \o b
           active == Len(T) = 1 \/ At(T, 2, Signs)
           end == IF active THEN 2 ELSE NameEnd(T)
           name == IF active THEN w.active ELSE SubSeq(T, 2, end - 1)
           d == ParseDuration(SubSeq(T, end + 1, Len(T)))
           offset == IF At(T, end, {"-"}) THEN Duration(-d.value, d.unit) ELSE d
<1>1. AtCursor(w, T) = IF end <= Len(T) /\ ~d.ok THEN Refused
                       ELSE IF name \notin DOMAIN Cursors THEN Refused
                       ELSE IF end > Len(T) THEN Resolved(Cursors[name])
                       ELSE Offset(w, Cursors[name], offset)
  BY DEF AtCursor
<1>2. s \in STRING /\ (s = "+" \/ s = "-")
  BY SignFacts
<1>3. T \in Text /\ IsJoin(T, a, s, b) /\ NameEnd(T) = NameEnd(a)
  <2> HIDE DEF active, end, name, d, offset
  <2>1. T \in Text /\ IsJoin(T, a, s, b)
    BY <1>2, JoinFacts, Zenon
  <2>2. a # << >>
    BY Zenon DEF IsBare
  <2>3. NameEnd(T) = NameEnd(a)
    BY <2>2, NameEndOfJoin, Zenon
  <2> QED
    BY <2>1, <2>3, Zenon
<1> HIDE DEF T
<1>4. Len(a) \in Nat /\ Len(b) \in Nat /\ Len(a) >= 1 /\ Len(b) >= 1 /\ Len(T) = Len(a) + 1 + Len(b)
  BY <1>3, TextFacts DEF IsBare, IsJoin
<1>5. active <=> Len(a) = 1
  <2>1. Len(a) = 1 => T[2] = s
    BY <1>3 DEF IsJoin
  <2>2. Len(a) # 1 => T[2] = a[2]
    <3>1. Len(a) # 1 => 2 \in 1 .. Len(a)
      <4>1. PICK m \in Nat : m = Len(a) /\ m >= 1
        BY <1>4, Zenon
      <4> QED
        BY <4>1
    <3> QED
      BY <1>3, <3>1, Zenon DEF IsJoin
  <2> QED
    BY <1>4, <2>1, <2>2 DEF IsBare, At
<1>6. end = Len(a) + 1 /\ end + 1 = Len(a) + 2 /\ end <= Len(T) /\ ~(end > Len(T)) /\ end - 1 = Len(a)
  <2>1. end = Len(a) + 1
    <3>1. CASE Len(a) = 1
      <4>1. end = 2
        BY <1>5, <3>1, Zenon
      <4> HIDE DEF end
      <4> QED
        BY <3>1, <4>1
    <3>2. CASE Len(a) # 1
      BY <1>3, <1>5, <3>2, Zenon DEF IsBare
    <3> QED
      BY <3>1, <3>2
  <2> HIDE DEF end
  <2> QED
    BY <1>4, <2>1
<1>7. name = NameOf(w, a)
  <2>1. CASE Len(a) = 1
    BY <1>5, <2>1 DEF NameOf
  <2>2. CASE Len(a) # 1
    <3>1. SubSeq(T, 2, end - 1) = SubSeq(a, 2, end - 1)
      <4>1. end \in 2 .. Len(a) + 1
        BY <1>4, <1>6
      <4> HIDE DEF end
      <4> QED
        BY <1>3, <4>1, Zenon DEF IsJoin
    <3>2. SubSeq(a, 2, end - 1) = Tail(a)
      BY <1>4, <1>6, TextFacts, SMTT(30)
    <3> QED
      BY <1>5, <2>2, <3>1, <3>2 DEF NameOf
  <2> QED
    BY <2>1, <2>2
<1>8. d = ParseDuration(b) /\ T[end] = s
  <2> HIDE DEF end
  <2>1. SubSeq(T, end + 1, Len(T)) = b
    BY <1>3, <1>6, Zenon DEF IsJoin
  <2> QED
    BY <1>3, <1>6, <2>1, Zenon DEF IsJoin
<1>9. offset = IF s = "-" THEN Duration(-ParseDuration(b).value, ParseDuration(b).unit) ELSE ParseDuration(b)
  <2> HIDE DEF end, d
  <2> QED
    BY <1>6, <1>8, Zenon DEF At
<1> HIDE DEF active, end, name, d, offset
<1>10. CASE ~ParseDuration(b).ok
  BY <1>1, <1>6, <1>8, <1>10, Zenon DEF T
<1>11. CASE ParseDuration(b).ok /\ NameOf(w, a) \notin DOMAIN Cursors
  BY <1>1, <1>6, <1>7, <1>8, <1>11, Zenon DEF T
<1>12. CASE ParseDuration(b).ok /\ NameOf(w, a) \in DOMAIN Cursors
  BY <1>1, <1>6, <1>7, <1>8, <1>9, <1>12, Zenon DEF T
<1> QED
  BY <1>10, <1>11, <1>12, Zenon

LEMMA Rest ==
  ASSUME NEW Q, NEW t \in Seq(Q), NEW e \in 1 .. Len(t)
  PROVE  /\ SubSeq(t, e + 1, Len(t)) \in Seq(Q) /\ Len(SubSeq(t, e + 1, Len(t))) = Len(t) - e
         /\ Len(t) - e > 0 => SubSeq(t, e + 1, Len(t))[1] = t[e + 1]
<1>1. SubSeq(t, e + 1, Len(t)) = [j \in 1 .. Len(t) - e |-> t[e + j]]
  OBVIOUS
<1>2. SubSeq(t, e + 1, Len(t)) \in Seq(Q) /\ Len(SubSeq(t, e + 1, Len(t))) = Len(t) - e
  OBVIOUS
<1>3. ASSUME Len(t) - e > 0 PROVE SubSeq(t, e + 1, Len(t))[1] = t[e + 1]
  BY <1>1, <1>3
<1> QED
  BY <1>2, <1>3

LEMMA SubSeqFacts ==
  ASSUME NEW t \in Text, NEW e \in 1 .. Len(t)
  PROVE  /\ SubSeq(t, e + 1, Len(t)) \in Text /\ Len(SubSeq(t, e + 1, Len(t))) = Len(t) - e
         /\ Len(t) - e > 0 => SubSeq(t, e + 1, Len(t))[1] = t[e + 1]
BY Rest, Zenon DEF Text

\* Behind a cursor with an offset of its own, another one is refused.
LEMMA AtTwice ==
  ASSUME NEW w, NEW a \in Text, a # << >>, a[1] = "@", ~IsBare(a), AtCursor(w, a).ok,
         NEW s \in Signs, NEW b \in Text, b # << >>
  PROVE  ~AtCursor(w, a \o <<s>> \o b).ok
<1> DEFINE T == a \o <<s>> \o b
           end == IF At(a, 2, Signs) THEN 2 ELSE NameEnd(a)
           d == SubSeq(a, end + 1, Len(a))
           x == SubSeq(T, end + 1, Len(T))
<1>1. Len(a) \in Nat /\ Len(a) >= 1 /\ Len(b) \in Nat /\ Len(b) >= 1
  BY TextFacts
<1>2. Len(a) # 1 /\ end \in 2 .. Len(a)
  <2>1. Len(a) # 1 /\ (a[2] \in Signs \/ NameEnd(a) # Len(a) + 1)
    BY DEF IsBare
  <2>0. 2 <= Len(a) /\ 2 \in 2 .. Len(a)
    <3>1. PICK m \in Nat : m = Len(a) /\ m >= 1 /\ m # 1
      BY <1>1, <2>1, Zenon
    <3> QED
      BY <3>1
  <2>2. CASE At(a, 2, Signs)
    BY <2>0, <2>1, <2>2, Zenon
  <2>3. CASE ~At(a, 2, Signs)
    <3>1. a[2] \notin Signs
      BY <2>0, <2>3, Zenon DEF At
    <3>2. NameEnd(a) \in 2 .. Len(a)
      BY <2>1, <3>1, NameEndFacts, Zenon
    <3> QED
      BY <2>1, <2>3, <3>2
  <2> QED
    BY <2>2, <2>3
<1> HIDE DEF end, T
<1>3. s \in STRING
  BY SignFacts
<1>4. T \in Text /\ IsJoin(T, a, s, b)
  BY <1>3, JoinFacts, Zenon DEF T
<1>5. Len(T) = Len(a) + 1 + Len(b) /\ Len(T) # 1 /\ (\A i \in 1 .. Len(a) : T[i] = a[i]) /\ T[Len(a) + 1] = s
  <2>1. Len(T) = Len(a) + 1 + Len(b) /\ (\A i \in 1 .. Len(a) : T[i] = a[i]) /\ T[Len(a) + 1] = s
    BY <1>4, Zenon DEF IsJoin
  <2> QED
    BY <1>1, <2>1
<1>6. At(T, 2, Signs) <=> At(a, 2, Signs)
  BY <1>1, <1>2, <1>5 DEF At
<1>7. end = IF Len(T) = 1 \/ At(T, 2, Signs) THEN 2 ELSE NameEnd(T)
  <2>1. CASE At(a, 2, Signs)
    BY <1>6, <2>1, Zenon DEF end
  <2>2. CASE ~At(a, 2, Signs)
    <3>1. end = NameEnd(a)
      BY <2>2, Zenon DEF end
    <3>2. NameEnd(a) <= Len(a)
      BY <1>1, <1>2, <3>1
    <3>3. NameEnd(T) = NameEnd(a)
      BY <3>2, NameEndOfJoin, Zenon DEF T
    <3> QED
      BY <1>5, <1>6, <2>2, <3>1, <3>3, Zenon
  <2> QED
    BY <2>1, <2>2
<1>8. end = IF Len(a) = 1 \/ At(a, 2, Signs) THEN 2 ELSE NameEnd(a)
  BY <1>2, Zenon DEF end
<1>9. end <= Len(a) /\ end <= Len(T)
  BY <1>1, <1>2, <1>5
<1>10. ParseDuration(d).ok
  <2>1. CASE ~ParseDuration(d).ok
    <3>1. AtCursor(w, a) = Refused
      BY <1>8, <1>9, <2>1, Zenon DEF AtCursor
    <3> QED
      BY <3>1, OutcomeFacts, Zenon
  <2> QED
    BY <2>1
<1>11. d \in Text /\ x \in Text /\ Len(d) = Len(a) - end /\ Len(x) = Len(T) - end /\ (Len(d) > 0 => x[1] = d[1])
  <2>1. PICK e \in Nat : e = end /\ e >= 2 /\ e <= Len(a)
    BY <1>1, <1>2
  <2>2. PICK m \in Nat, n \in Nat : m = Len(a) /\ n = Len(T) /\ n > m /\ e <= m
    BY <1>1, <1>5, <2>1
  <2>3. d \in Text /\ x \in Text /\ Len(d) = m - e /\ Len(x) = n - e
        /\ (m - e > 0 => d[1] = a[e + 1]) /\ (n - e > 0 => x[1] = T[e + 1])
    <3>1. e \in 1 .. Len(a) /\ e \in 1 .. Len(T)
      BY <2>1, <2>2
    <3> QED
      BY <1>4, <2>1, <2>2, <3>1, SubSeqFacts, Zenon
  <2>4. m - e > 0 => T[e + 1] = a[e + 1] /\ n - e > 0
    <3>1. m - e > 0 => e + 1 \in 1 .. m /\ n - e > 0
      BY <2>2
    <3> QED
      BY <1>5, <2>2, <3>1, Zenon
  <2> HIDE DEF d, x
  <2> QED
    BY <2>1, <2>2, <2>3, <2>4, Zenon
<1> HIDE DEF d, x
<1>12. Len(x) >= Len(d) + 2 /\ Len(d) > 0
  <2>1. Len(d) > 0
    BY <1>10, <1>11, ParseFacts
  <2> QED
    BY <1>1, <1>2, <1>5, <1>11, <2>1
<1>13. ~ParseDuration(x).ok
  BY <1>10, <1>11, <1>12, TooLong
<1>14. AtCursor(w, T) = Refused
  BY <1>7, <1>9, <1>13, Zenon DEF AtCursor, x
<1> QED
  BY <1>14, OutcomeFacts, Zenon DEF T

\* The same behind an absolute time; and a text with a duration behind it is no
\* other than one.
LEMMA AbsoluteTwice ==
  ASSUME NEW a \in Text, Absolute(a).ok, NEW s \in Signs, NEW b \in Text, b # << >>
  PROVE  ~Absolute(a \o <<s>> \o b).ok
<1> DEFINE T == a \o <<s>> \o b
<1>1. s \in STRING
  BY SignFacts
<1>2. T \in Text /\ IsJoin(T, a, s, b)
  BY <1>1, JoinFacts, Zenon
<1> HIDE DEF T
<1>3. ParseDuration(a).ok
  <2>1. CASE ~ParseDuration(a).ok
    <3>1. Absolute(a) = Refused
      BY <2>1, Zenon DEF Absolute
    <3> QED
      BY <3>1, OutcomeFacts, Zenon
  <2> QED
    BY <2>1
<1>4. Len(a) > 0 /\ Len(a) \in Nat /\ Len(b) \in Nat /\ Len(b) >= 1 /\ Len(T) = Len(a) + 1 + Len(b)
  <2>1. Len(a) > 0
    BY <1>3, ParseFacts
  <2>2. Len(T) = Len(a) + 1 + Len(b)
    BY <1>2, Zenon DEF IsJoin
  <2> QED
    BY <2>1, <2>2, TextFacts
<1>5. T[1] = a[1]
  <2>1. 1 \in 1 .. Len(a)
    BY <1>4
  <2> QED
    BY <1>2, <2>1, Zenon DEF IsJoin
<1>6. Len(T) >= Len(a) + 2
  BY <1>4
<1>7. ~ParseDuration(T).ok
  BY <1>2, <1>3, <1>5, <1>6, TooLong
<1>8. Absolute(T) = Refused
  BY <1>7, Zenon DEF Absolute
<1> QED
  BY <1>8, OutcomeFacts, Zenon DEF T

LEMMA UserTimeFacts ==
  ASSUME NEW w, NEW a \in Text, a # << >>
  PROVE  UserTime(w, a, FALSE) = IF a[1] = "@" THEN AtCursor(w, a) ELSE Absolute(a)
BY Zenon DEF UserTime

LEMMA UserTimeOfJoin ==
  ASSUME NEW w, NEW a \in Text, a # << >>, NEW s \in Signs, NEW b \in Text, b # << >>, NEW m \in BOOLEAN
  PROVE  UserTime(w, a \o <<s>> \o b, m) = IF a[1] = "@" THEN AtCursor(w, a \o <<s>> \o b) ELSE Absolute(a \o <<s>> \o b)
<1> DEFINE T == a \o <<s>> \o b
<1>1. s \in STRING
  BY SignFacts
<1>2. T \in Text /\ IsJoin(T, a, s, b)
  BY <1>1, JoinFacts, Zenon
<1> HIDE DEF T
<1>3. Len(a) \in Nat /\ Len(a) >= 1 /\ Len(b) \in Nat /\ Len(b) >= 1
  BY TextFacts
<1>4. Len(T) = Len(a) + 1 + Len(b)
  BY <1>2, Zenon DEF IsJoin
<1>5. T # << >> /\ T # <<"max">> /\ T[1] = a[1]
  <2>1. Len(T) # 0 /\ Len(T) # 1 /\ 1 \in 1 .. Len(a)
    BY <1>3, <1>4
  <2>2. Len(<< >>) = 0 /\ Len(<<"max">>) = 1
    OBVIOUS
  <2>3. T[1] = a[1]
    BY <1>2, <2>1, Zenon DEF IsJoin
  <2>4. T # << >> /\ T # <<"max">>
    BY <2>1, <2>2, Zenon
  <2> QED
    BY <2>3, <2>4
<1>6. UserTime(w, T, m) = IF a[1] = "@" THEN AtCursor(w, T) ELSE Absolute(T)
  BY <1>5, Zenon DEF UserTime
<1> QED
  BY <1>6 DEF T

\* A duration of a window, on its side of the time it is around.
LEMMA BoundFacts ==
  ASSUME Len(file) = LastTick + 1, NEW w, NEW base \in 0 .. Top, NEW text \in Text
  PROVE  Within(Bound(w, base, text, TRUE), 0, base) /\ Within(Bound(w, base, text, FALSE), base, Top)
<1>1. CASE ~ParseDuration(text).ok \/ ParseDuration(text).value < 0
  BY <1>1, Zenon DEF Bound, Within
<1>2. CASE ParseDuration(text).ok /\ ~(ParseDuration(text).value < 0)
  <2>1. PICK k \in DOMAIN Numbers, u \in DOMAIN Ticks \cup Edges :
          ParseDuration(text) = Duration(Numbers[k], u) \/ ParseDuration(text) = Duration(-Numbers[k], u)
    BY <1>2, ParseFacts, Zenon
  <2>2. ParseDuration(text) = Duration(Numbers[k], u)
    <3>1. CASE ParseDuration(text) = Duration(-Numbers[k], u)
      <4>1. ParseDuration(text).value = -Numbers[k]
        BY <3>1, DurationFacts, Zenon
      <4>2. Numbers[k] \in Nat
        BY TimesAssumption
      <4>3. -Numbers[k] = Numbers[k]
        BY <1>2, <4>1, <4>2
      <4> QED
        BY <3>1, <4>3, Zenon
    <3> QED
      BY <2>1, <3>1
  <2>3. ParseDuration(text).value = Numbers[k] /\ ParseDuration(text).unit = u
    BY <2>2, DurationFacts
  <2>4. Bound(w, base, text, TRUE) = Offset(w, base, Duration(-Numbers[k], u))
    BY <1>2, <2>3, Zenon DEF Bound
  <2>5. Bound(w, base, text, FALSE) = Offset(w, base, Duration(Numbers[k], u))
    BY <1>2, <2>2, Zenon DEF Bound
  <2> QED
    BY <2>4, <2>5, OffsetBounds, Zenon
<1> QED
  BY <1>1, <1>2

\* A time that is accepted fits.
LEMMA UserTimeBounds ==
  ASSUME Len(file) = LastTick + 1, NEW w, NEW a \in Text, a # << >>, UserTime(w, a, FALSE).ok
  PROVE  \E t \in 0 .. Top : UserTime(w, a, FALSE) = Resolved(t)
<1>0. Len(a) \in Nat /\ Len(a) >= 1 /\ Top \in Nat
  BY TextFacts, TimesAssumption
<1>1. CASE a[1] = "@"
  <2> DEFINE active == Len(a) = 1 \/ At(a, 2, Signs)
             end == IF active THEN 2 ELSE NameEnd(a)
             name == IF active THEN w.active ELSE SubSeq(a, 2, end - 1)
             x == SubSeq(a, end + 1, Len(a))
             d == ParseDuration(x)
             offset == IF At(a, end, {"-"}) THEN Duration(-d.value, d.unit) ELSE d
  <2>1. AtCursor(w, a) = IF end <= Len(a) /\ ~d.ok THEN Refused
                         ELSE IF name \notin DOMAIN Cursors THEN Refused
                         ELSE IF end > Len(a) THEN Resolved(Cursors[name])
                         ELSE Offset(w, Cursors[name], offset)
    BY DEF AtCursor
  <2>2. UserTime(w, a, FALSE) = AtCursor(w, a) /\ AtCursor(w, a) # Refused
    <3>1. UserTime(w, a, FALSE) = AtCursor(w, a)
      BY <1>1, UserTimeFacts, Zenon
    <3> QED
      BY <3>1, OutcomeFacts, Zenon
  <2>3. end \in Nat /\ end >= 2
    <3>1. NameEnd(a) \in Nat /\ (Len(a) # 1 => NameEnd(a) >= 2)
      BY <1>0, NameEndFacts
    <3>2. CASE active
      <4>1. end = 2
        BY <3>2, Zenon
      <4> HIDE DEF end
      <4> QED
        BY <4>1
    <3>3. CASE ~active
      <4>1. end = NameEnd(a) /\ Len(a) # 1
        BY <3>3, Zenon
      <4> QED
        BY <3>1, <4>1, Zenon
    <3> QED
      BY <3>2, <3>3, Zenon
  <2> HIDE DEF active, end, name
  <2>4. name \in DOMAIN Cursors
    BY <2>1, <2>2, Zenon
  <2>5. Cursors[name] \in 0 .. Top
    BY <2>4, TimesAssumption, Zenon
  <2>6. CASE end > Len(a)
    <3>1. ~(end <= Len(a))
      BY <1>0, <2>3, <2>6
    <3>2. AtCursor(w, a) = Resolved(Cursors[name])
      BY <2>1, <2>4, <2>6, <3>1, Zenon
    <3> QED
      BY <2>2, <2>5, <3>2, Zenon
  <2>7. CASE ~(end > Len(a))
    <3>1. end \in 1 .. Len(a) /\ end <= Len(a)
      BY <1>0, <2>3, <2>7
    <3>2. x \in Text
      BY <3>1, SubSeqFacts, Zenon
    <3> HIDE DEF x
    <3>3. d.ok
      BY <2>1, <2>2, <3>1, Zenon
    <3>4. PICK k \in DOMAIN Numbers, u \in DOMAIN Ticks \cup Edges : d = Duration(Numbers[k], u) \/ d = Duration(-Numbers[k], u)
      BY <3>2, <3>3, ParseFacts, Zenon
    <3>5. Numbers[k] \in Nat
      BY TimesAssumption
    <3> HIDE DEF d
    <3>6. -(-Numbers[k]) = Numbers[k]
      BY <3>5
    <3>7. offset = Duration(Numbers[k], u) \/ offset = Duration(-Numbers[k], u)
      <4>1. CASE d = Duration(Numbers[k], u)
        <5>1. d.value = Numbers[k] /\ d.unit = u
          BY <4>1, DurationFacts, Zenon
        <5> QED
          BY <4>1, <5>1, Zenon
      <4>2. CASE d = Duration(-Numbers[k], u)
        <5>1. d.value = -Numbers[k] /\ d.unit = u
          BY <4>2, DurationFacts, Zenon
        <5>2. Duration(-d.value, d.unit) = Duration(Numbers[k], u)
          BY <3>6, <5>1, Zenon
        <5> QED
          BY <4>2, <5>2, Zenon
      <4> QED
        BY <3>4, <4>1, <4>2
    <3> HIDE DEF offset
    <3>8. AtCursor(w, a) = Offset(w, Cursors[name], offset)
      BY <2>1, <2>4, <2>7, <3>3, Zenon
    <3>9. PICK base \in 0 .. Top : base = Cursors[name]
      BY <2>5, Zenon
    <3>10. \E t \in 0 .. Top : AtCursor(w, a) = Resolved(t)
      <4>1. base .. Top \subseteq 0 .. Top /\ 0 .. base \subseteq 0 .. Top
        BY <1>0
      <4>2. CASE offset = Duration(Numbers[k], u)
        <5>1. Within(AtCursor(w, a), base, Top)
          BY <3>8, <3>9, <4>2, OffsetBounds, Zenon
        <5> QED
          BY <2>2, <4>1, <5>1, Zenon DEF Within
      <4>3. CASE offset = Duration(-Numbers[k], u)
        <5>1. Within(AtCursor(w, a), 0, base)
          BY <3>8, <3>9, <4>3, OffsetBounds, Zenon
        <5> QED
          BY <2>2, <4>1, <5>1, Zenon DEF Within
      <4> QED
        BY <3>7, <4>2, <4>3
    <3> QED
      BY <2>2, <3>10, Zenon
  <2> QED
    BY <2>6, <2>7
<1>2. CASE a[1] # "@"
  <2> DEFINE d == ParseDuration(a)
  <2>1. UserTime(w, a, FALSE) = Absolute(a) /\ Absolute(a) # Refused
    <3>1. UserTime(w, a, FALSE) = Absolute(a)
      BY <1>2, UserTimeFacts, Zenon
    <3> QED
      BY <3>1, OutcomeFacts, Zenon
  <2>2. Absolute(a) = IF At(a, 1, {"-"}) \/ ~d.ok \/ d.unit \in Edges THEN Refused ELSE Resolved(d.value * Ticks[d.unit])
    BY DEF Absolute
  <2>3. ~At(a, 1, {"-"}) /\ d.ok /\ d.unit \notin Edges /\ Absolute(a) = Resolved(d.value * Ticks[d.unit])
    <3> HIDE DEF d
    <3> QED
      BY <2>1, <2>2, Zenon
  <2>4. PICK k \in DOMAIN Numbers, u \in DOMAIN Ticks \cup Edges : d = Duration(Numbers[k], u)
    BY <2>3, ParseFacts, Zenon
  <2>5. d.value = Numbers[k] /\ d.unit = u
    BY <2>4, DurationFacts
  <2> HIDE DEF d
  <2>6. Numbers[k] * Ticks[u] \in 0 .. Top
    <3>1. u \in DOMAIN Ticks
      BY <2>3, <2>5
    <3>2. Numbers[k] * Ticks[u] <= Top
      BY <3>1, TimesAssumption, Zenon
    <3>3. Numbers[k] * Ticks[u] \in Nat
      <4>1. 0 \in 0 .. Top
        BY <1>0
      <4> QED
        BY <3>1, <4>1, TickOffset, Zenon
    <3> QED
      BY <1>0, <3>2, <3>3
  <2> QED
    BY <2>1, <2>3, <2>5, <2>6, Zenon
<1> QED
  BY <1>1, <1>2
-----------------------------------------------------------------------------
(* Windows *)

LEMMA WindowFacts ==
  /\ \A b, e : /\ WindowOf(b, e).ok <=> b.ok /\ e.ok
               /\ WindowOf(b, e).begin = b.time /\ WindowOf(b, e).end = e.time
  /\ ~NoRange.ok
<1>1. \A b, e : WindowOf(b, e).ok <=> b.ok /\ e.ok
  BY Zenon DEF WindowOf
<1>2. \A b, e : WindowOf(b, e).begin = b.time /\ WindowOf(b, e).end = e.time
  BY DEF WindowOf
<1>3. ~NoRange.ok
  BY <1>1, OutcomeFacts, Zenon DEF NoRange
<1> QED
  BY <1>1, <1>2, <1>3, Zenon

LEMMA PairFacts ==
  ASSUME NEW Q, NEW x \in Q, NEW y \in Q
  PROVE  <<x, y>> \in Seq(Q) /\ Len(<<x, y>>) = 2 /\ <<x, y>> # << >> /\ <<x, y>>[1] = x /\ <<x, y>>[2] = y
<1>1. <<x, y>> \in Seq(Q)
  OBVIOUS
<1>2. Len(<<x, y>>) = 2 /\ Len(<< >>) = 0
  OBVIOUS
<1>3. <<x, y>>[1] = x /\ <<x, y>>[2] = y
  OBVIOUS
<1>4. <<x, y>> # << >>
  BY <1>2
<1> QED
  BY <1>1, <1>2, <1>3, <1>4

\* The texts of a window around a time.
LEMMA FieldFacts ==
  /\ None \notin Text
  /\ NoTime \in Text \ {<< >>} /\ IsNumber(NoTime[1])
  /\ \A w \in Asks : w.kind = "window" /\ ~ByTimes(w) =>
       /\ w.around \in Text \ {<< >>}
       /\ Given(w.before, NoTime) \in Text \ {<< >>} /\ Given(w.after, NoTime) \in Text \ {<< >>}
       /\ NoSign(w.before) => IsNumber(Given(w.before, NoTime)[1])
       /\ NoSign(w.after) => IsNumber(Given(w.after, NoTime)[1])
<1>1. "0" \in DOMAIN Numbers /\ "0" \in STRING /\ "ns" \in STRING
  BY TimesAssumption, Zenon
<1>2. NoTime \in Text /\ NoTime # << >> /\ NoTime[1] = "0"
  BY <1>1, PairFacts, Zenon DEF NoTime, Text
<1>3. None \notin Text
  BY TimesAssumption, Zenon
<1>4. ASSUME NEW w \in Asks, w.kind = "window", ~ByTimes(w)
      PROVE  /\ w.around \in Text \ {<< >>}
             /\ Given(w.before, NoTime) \in Text \ {<< >>} /\ Given(w.after, NoTime) \in Text \ {<< >>}
             /\ NoSign(w.before) => IsNumber(Given(w.before, NoTime)[1])
             /\ NoSign(w.after) => IsNumber(Given(w.after, NoTime)[1])
  <2>1. {w.begin, w.end, w.around, w.before, w.after} \subseteq Fields
    BY <1>4, TimesAssumption, Zenon
  <2>2. w.around \in Fields /\ w.before \in Fields /\ w.after \in Fields
    BY <2>1, Zenon
  <2>3. w.around \in Text \ {<< >>}
    BY <1>4, <2>2, Zenon DEF ByTimes, Fields
  <2>4. ASSUME NEW f \in Fields
        PROVE  Given(f, NoTime) \in Text \ {<< >>} /\ (NoSign(f) => IsNumber(Given(f, NoTime)[1]))
    <3>1. CASE f = None
      BY <1>1, <1>2, <3>1, Zenon DEF Given, IsNumber
    <3>2. CASE f # None
      BY <2>4, <3>2, Zenon DEF Given, Fields, NoSign
    <3> QED
      BY <3>1, <3>2
  <2> QED
    BY <2>2, <2>3, <2>4, Zenon
<1> QED
  BY <1>1, <1>2, <1>3, <1>4, Zenon DEF IsNumber

\* A window around a time has the time in it.
LEMMA AroundIsInside ==
  ASSUME Len(file) = LastTick + 1, NEW w \in Asks, w.kind = "window", ~ByTimes(w), JsonTimeRange(w).ok
  PROVE  JsonTimeRange(w).begin <= UserTime(w, w.around, FALSE).time /\ UserTime(w, w.around, FALSE).time <= JsonTimeRange(w).end
<1> DEFINE around == UserTime(w, w.around, FALSE)
           before == Bound(w, around.time, Given(w.before, NoTime), TRUE)
           after == Bound(w, around.time, Given(w.after, NoTime), FALSE)
<1>1. JsonTimeRange(w) = IF ~around.ok THEN NoRange ELSE WindowOf(before, after)
  BY Zenon DEF JsonTimeRange
<1>2. around.ok
  <2>1. CASE ~around.ok
    <3>1. JsonTimeRange(w) = NoRange
      BY <1>1, <2>1, Zenon
    <3> QED
      BY <3>1, WindowFacts, Zenon
  <2> QED
    BY <2>1
<1>3. JsonTimeRange(w) = WindowOf(before, after)
  BY <1>1, <1>2, Zenon
<1>4. w.around \in Text \ {<< >>} /\ Given(w.before, NoTime) \in Text /\ Given(w.after, NoTime) \in Text
  BY FieldFacts, Zenon
<1>5. PICK base \in 0 .. Top : around = Resolved(base)
  BY <1>2, <1>4, UserTimeBounds, Zenon
<1>6. around.time = base
  BY <1>5, OutcomeFacts, Zenon
<1>7. Within(before, 0, base) /\ Within(after, base, Top)
  BY <1>4, <1>6, BoundFacts, Zenon
<1> HIDE DEF around, before, after
<1>8. before.ok /\ after.ok /\ JsonTimeRange(w).begin = before.time /\ JsonTimeRange(w).end = after.time
  <2>1. WindowOf(before, after).ok
    BY <1>3, Zenon
  <2>2. before.ok /\ after.ok
    BY <2>1, WindowFacts, Zenon
  <2>3. JsonTimeRange(w).begin = before.time
    BY <1>3, WindowFacts, Zenon
  <2>4. JsonTimeRange(w).end = after.time
    <3>1. WindowOf(before, after).end = after.time
      BY DEF WindowOf
    <3> QED
      BY <1>3, <3>1, Zenon
  <2> QED
    BY <2>2, <2>3, <2>4
<1>9. PICK x \in 0 .. base, y \in base .. Top : before = Resolved(x) /\ after = Resolved(y)
  BY <1>7, <1>8, OutcomeFacts, Zenon DEF Within
<1>10. before.time = x /\ after.time = y
  BY <1>9, OutcomeFacts, Zenon
<1>11. x <= base /\ base <= y
  BY TimesAssumption
<1> QED
  BY <1>6, <1>8, <1>10, <1>11, Zenon DEF around

\* A duration at a cursor, written as a text or applied to its time.
LEMMA SameBound ==
  ASSUME NEW w, NEW a \in Text, IsBare(a), NEW b \in Text, b # << >>
  PROVE  /\ ~UserTime(w, a, FALSE).ok =>
              /\ UserTime(w, a \o <<"+">> \o b, TRUE) = Refused
              /\ IsNumber(b[1]) => UserTime(w, a \o <<"-">> \o b, FALSE) = Refused
         /\ UserTime(w, a, FALSE).ok =>
              /\ IsNumber(b[1]) => UserTime(w, a \o <<"-">> \o b, FALSE) = Bound(w, UserTime(w, a, FALSE).time, b, TRUE)
              /\ IsNumber(b[1]) \/ Bound(w, UserTime(w, a, FALSE).time, b, FALSE).ok =>
                   UserTime(w, a \o <<"+">> \o b, TRUE) = Bound(w, UserTime(w, a, FALSE).time, b, FALSE)
<1> DEFINE name == NameOf(w, a)
           d == ParseDuration(b)
           at == UserTime(w, a, FALSE)
           down == UserTime(w, a \o <<"-">> \o b, FALSE)
           up == UserTime(w, a \o <<"+">> \o b, TRUE)
<1>1. a # << >> /\ a[1] = "@" /\ "+" \in Signs /\ "-" \in Signs /\ "+" # "-"
  BY DEF IsBare, Signs
<1>2. /\ at = AtCursor(w, a)
      /\ down = AtCursor(w, a \o <<"-">> \o b)
      /\ up = AtCursor(w, a \o <<"+">> \o b)
  <2>1. at = AtCursor(w, a)
    BY <1>1, UserTimeFacts, Zenon
  <2>2. down = AtCursor(w, a \o <<"-">> \o b)
    BY <1>1, UserTimeOfJoin, Zenon
  <2>3. up = AtCursor(w, a \o <<"+">> \o b)
    BY <1>1, UserTimeOfJoin, Zenon
  <2> QED
    BY <2>1, <2>2, <2>3
<1>3. at = IF name \notin DOMAIN Cursors THEN Refused ELSE Resolved(Cursors[name])
  BY <1>2, AtBare, Zenon
<1>4. up = IF ~d.ok \/ name \notin DOMAIN Cursors THEN Refused ELSE Offset(w, Cursors[name], d)
  BY <1>1, <1>2, AtOffset, Zenon
<1>5. ASSUME IsNumber(b[1])
      PROVE  down = IF ~d.ok \/ name \notin DOMAIN Cursors THEN Refused ELSE Offset(w, Cursors[name], Duration(-d.value, d.unit))
  BY <1>1, <1>2, <1>5, AtOffset, Zenon
<1>6. ASSUME IsNumber(b[1]), d.ok PROVE ~(d.value < 0)
  <2>1. b[1] # "-"
    BY <1>1, <1>5, <1>6, SignFacts, Zenon
  <2>2. ~At(b, 1, {"-"})
    BY <2>1, Zenon DEF At
  <2>3. PICK k \in DOMAIN Numbers, u \in DOMAIN Ticks \cup Edges : d = Duration(Numbers[k], u)
    BY <1>6, <2>2, ParseFacts, Zenon
  <2>4. d.value = Numbers[k]
    BY <2>3, DurationFacts
  <2>5. Numbers[k] \in Nat
    BY TimesAssumption
  <2> HIDE DEF d
  <2> QED
    BY <2>4, <2>5
<1>7. \A base : Bound(w, base, b, TRUE) = IF ~d.ok \/ d.value < 0 THEN Refused ELSE Offset(w, base, Duration(-d.value, d.unit))
  BY Zenon DEF Bound
<1>8. \A base : Bound(w, base, b, FALSE) = IF ~d.ok \/ d.value < 0 THEN Refused ELSE Offset(w, base, d)
  BY Zenon DEF Bound
<1> HIDE DEF name, d, at, down, up
<1>9. CASE name \notin DOMAIN Cursors
  <2>1. at = Refused /\ up = Refused /\ (IsNumber(b[1]) => down = Refused)
    BY <1>3, <1>4, <1>5, <1>9, Zenon
  <2> QED
    BY <2>1, OutcomeFacts, Zenon DEF at, up, down
<1>10. CASE name \in DOMAIN Cursors
  <2>1. at = Resolved(Cursors[name]) /\ at.ok /\ at.time = Cursors[name]
    BY <1>3, <1>10, OutcomeFacts, Zenon
  <2>2. ASSUME IsNumber(b[1]) PROVE down = Bound(w, at.time, b, TRUE) /\ up = Bound(w, at.time, b, FALSE)
    <3>1. CASE ~d.ok
      BY <1>4, <1>5, <1>7, <1>8, <2>2, <3>1, Zenon
    <3>2. CASE d.ok
      BY <1>4, <1>5, <1>6, <1>7, <1>8, <1>10, <2>1, <2>2, <3>2, Zenon
    <3> QED
      BY <3>1, <3>2
  <2>3. ASSUME Bound(w, at.time, b, FALSE).ok PROVE up = Bound(w, at.time, b, FALSE)
    <3>1. d.ok /\ ~(d.value < 0)
      <4>1. CASE ~d.ok \/ d.value < 0
        <5>1. Bound(w, at.time, b, FALSE) = Refused
          BY <1>8, <4>1, Zenon
        <5> QED
          BY <2>3, <5>1, OutcomeFacts, Zenon
      <4> QED
        BY <4>1
    <3> QED
      BY <1>4, <1>8, <1>10, <2>1, <3>1, Zenon
  <2> QED
    BY <2>1, <2>2, <2>3, Zenon DEF at, up, down
<1> QED
  BY <1>9, <1>10

\* A text the daemon takes for a time, with a duration behind it, is one only when it
\* is a cursor.
LEMMA OnlyBare ==
  ASSUME NEW w, NEW a \in Text, a # << >>, UserTime(w, a, FALSE).ok, ~IsBare(a),
         NEW s \in Signs, NEW b \in Text, b # << >>, NEW m \in BOOLEAN
  PROVE  ~UserTime(w, a \o <<s>> \o b, m).ok
<1>1. CASE a[1] = "@"
  <2>1. UserTime(w, a, FALSE) = AtCursor(w, a) /\ UserTime(w, a \o <<s>> \o b, m) = AtCursor(w, a \o <<s>> \o b)
    BY <1>1, UserTimeFacts, UserTimeOfJoin, Zenon
  <2>2. AtCursor(w, a).ok
    BY <2>1, Zenon
  <2>3. ~AtCursor(w, a \o <<s>> \o b).ok
    BY <1>1, <2>2, AtTwice, Zenon
  <2> QED
    BY <2>1, <2>3, Zenon
<1>2. CASE a[1] # "@"
  <2>1. UserTime(w, a, FALSE) = Absolute(a) /\ UserTime(w, a \o <<s>> \o b, m) = Absolute(a \o <<s>> \o b)
    BY <1>2, UserTimeFacts, UserTimeOfJoin, Zenon
  <2>2. Absolute(a).ok
    BY <2>1, Zenon
  <2>3. ~Absolute(a \o <<s>> \o b).ok
    BY <2>2, AbsoluteTwice, Zenon
  <2> QED
    BY <2>1, <2>3, Zenon
<1> QED
  BY <1>1, <1>2

\* What the client sends for a window around a time.
LEMMA SpecsFacts ==
  ASSUME NEW w, ~ByTimes(w)
  PROVE  \/ /\ At(Given(w.before, << >>), 1, {"@"}) \/ At(Given(w.after, << >>), 1, {"@"})
            /\ SpecRange(w) = NoRange
         \/ SpecRange(w) = WindowOf(UserTime(w, w.around \o <<"-">> \o Given(w.before, NoTime), FALSE),
                                    UserTime(w, w.around \o <<"+">> \o Given(w.after, NoTime), TRUE))
<1> DEFINE X == w.around \o <<"-">> \o Given(w.before, NoTime)
           Y == w.around \o <<"+">> \o Given(w.after, NoTime)
<1>1. RangeSpecs(w) = <<X, Y>>
  BY Zenon DEF RangeSpecs
<1> HIDE DEF X, Y
<1>2. <<X, Y>>[1] = X /\ <<X, Y>>[2] = Y
  OBVIOUS
<1>3. RangeSpecs(w)[1] = X /\ RangeSpecs(w)[2] = Y
  BY <1>1, <1>2, Zenon
<1>4. CASE At(Given(w.before, << >>), 1, {"@"}) \/ At(Given(w.after, << >>), 1, {"@"})
  <2>1. SpecRange(w) = NoRange
    BY <1>4, Zenon DEF SpecRange
  <2> QED
    BY <1>4, <2>1, Zenon
<1>5. CASE ~(At(Given(w.before, << >>), 1, {"@"}) \/ At(Given(w.after, << >>), 1, {"@"}))
  <2>1. SpecRange(w) = WindowOf(UserTime(w, X, FALSE), UserTime(w, Y, TRUE))
    BY <1>3, <1>5, Zenon DEF SpecRange
  <2> QED
    BY <2>1, Zenon DEF X, Y
<1> QED
  BY <1>4, <1>5

\* Both readers, around a cursor, with durations that have no sign.
LEMMA SameAtCursor ==
  ASSUME NEW w \in Asks, w.kind = "window", ~ByTimes(w), BareCursor(w.around), NoSign(w.before), NoSign(w.after)
  PROVE  JsonTimeRange(w) = SpecRange(w)
<1> DEFINE A == w.around
           B == Given(w.before, NoTime)
           C == Given(w.after, NoTime)
           at == UserTime(w, A, FALSE)
           X == UserTime(w, A \o <<"-">> \o B, FALSE)
           Y == UserTime(w, A \o <<"+">> \o C, TRUE)
<1>1. A \in Text /\ B \in Text /\ B # << >> /\ C \in Text /\ C # << >> /\ IsNumber(B[1]) /\ IsNumber(C[1])
  BY FieldFacts, Zenon
<1>2. IsBare(A)
  BY <1>1, BareFacts, Zenon
<1>3. SpecRange(w) = WindowOf(X, Y)
  <2>1. ASSUME NEW f, NoSign(f) PROVE ~At(Given(f, << >>), 1, {"@"})
    <3>1. CASE f = None
      <4>1. Given(f, << >>) = << >>
        BY <3>1, Zenon DEF Given
      <4>2. ~(1 <= Len(<< >>))
        OBVIOUS
      <4> QED
        BY <4>1, <4>2, Zenon DEF At
    <3>2. CASE f # None
      <4>1. IsNumber(f[1]) /\ Given(f, << >>) = f
        BY <2>1, <3>2, Zenon DEF NoSign, Given
      <4>2. ~IsNumber("@")
        BY TimesAssumption, Zenon DEF IsNumber
      <4>3. f[1] # "@"
        BY <4>1, <4>2, Zenon
      <4> QED
        BY <4>1, <4>3, Zenon DEF At
    <3> QED
      BY <3>1, <3>2
  <2> QED
    BY <2>1, SpecsFacts, Zenon
<1>4. JsonTimeRange(w) = IF ~at.ok THEN NoRange ELSE WindowOf(Bound(w, at.time, B, TRUE), Bound(w, at.time, C, FALSE))
  BY Zenon DEF JsonTimeRange
<1>5. CASE ~at.ok
  <2>1. X = Refused /\ Y = Refused
    BY <1>1, <1>2, <1>5, SameBound, Zenon
  <2> HIDE DEF X, Y, at
  <2> QED
    BY <1>3, <1>4, <1>5, <2>1, Zenon DEF NoRange
<1>6. CASE at.ok
  <2>1. X = Bound(w, at.time, B, TRUE) /\ Y = Bound(w, at.time, C, FALSE)
    BY <1>1, <1>2, <1>6, SameBound, Zenon
  <2> HIDE DEF X, Y, at
  <2> QED
    BY <1>3, <1>4, <1>6, <2>1, Zenon
<1> QED
  BY <1>5, <1>6

\* Both readers, around any time, when both accept.
LEMMA SameWhenAccepted ==
  ASSUME NEW w \in Asks, w.kind = "window", ~ByTimes(w), JsonTimeRange(w).ok, SpecRange(w).ok, NoSign(w.before)
  PROVE  JsonTimeRange(w) = SpecRange(w)
<1> DEFINE A == w.around
           B == Given(w.before, NoTime)
           C == Given(w.after, NoTime)
           at == UserTime(w, A, FALSE)
           X == UserTime(w, A \o <<"-">> \o B, FALSE)
           Y == UserTime(w, A \o <<"+">> \o C, TRUE)
           before == Bound(w, at.time, B, TRUE)
           after == Bound(w, at.time, C, FALSE)
<1>1. A \in Text /\ A # << >> /\ B \in Text /\ B # << >> /\ C \in Text /\ C # << >> /\ IsNumber(B[1])
  BY FieldFacts, Zenon
<1>2. SpecRange(w) = WindowOf(X, Y)
  <2>1. SpecRange(w) # NoRange
    BY WindowFacts, Zenon
  <2> QED
    BY <2>1, SpecsFacts, Zenon
<1>3. JsonTimeRange(w) = IF ~at.ok THEN NoRange ELSE WindowOf(before, after)
  BY Zenon DEF JsonTimeRange
<1>4. at.ok /\ JsonTimeRange(w) = WindowOf(before, after)
  <2> HIDE DEF at, before, after
  <2>1. JsonTimeRange(w) # NoRange
    BY WindowFacts, Zenon
  <2> QED
    BY <1>3, <2>1, Zenon
<1>5. after.ok
  <2> HIDE DEF before, after
  <2>1. WindowOf(before, after).ok
    BY <1>4, Zenon
  <2> QED
    BY <2>1, WindowFacts, Zenon
<1>6. X.ok
  <2> HIDE DEF X, Y
  <2>1. WindowOf(X, Y).ok
    BY <1>2, Zenon
  <2> QED
    BY <2>1, WindowFacts, Zenon
<1>7. IsBare(A)
  <2>1. "-" \in Signs /\ FALSE \in BOOLEAN
    BY DEF Signs
  <2> QED
    BY <1>1, <1>4, <1>6, <2>1, OnlyBare, Zenon
<1>8. X = before /\ Y = after
  BY <1>1, <1>4, <1>5, <1>7, SameBound, Zenon
<1> HIDE DEF X, Y, before, after
<1> QED
  BY <1>2, <1>4, <1>8, Zenon
-----------------------------------------------------------------------------
(* The answers *)

LEMMA ConsFacts ==
  ASSUME NEW Q, NEW x \in Q, NEW t \in Seq(Q)
  PROVE  /\ <<x>> \o t \in Seq(Q) /\ Len(<<x>> \o t) = Len(t) + 1 /\ <<x>> \o t # << >>
         /\ (<<x>> \o t)[1] = x /\ Tail(<<x>> \o t) = t
<1> DEFINE S == <<x>>
           T == S \o t
<1>1. S \in Seq(Q)
  OBVIOUS
<1>2. Len(S) = 1
  OBVIOUS
<1>3. S[1] = x
  OBVIOUS
<1>4. Len(t) \in Nat
  BY LenProperties
<1> HIDE DEF S
<1>5. T \in Seq(Q) /\ Len(T) = Len(S) + Len(t) /\ \A i \in 1 .. Len(S) + Len(t) : T[i] = IF i <= Len(S) THEN S[i] ELSE t[i - Len(S)]
  BY <1>1, ConcatProperties, Zenon
<1> HIDE DEF T
<1>6. Len(T) = Len(t) + 1
  BY <1>2, <1>4, <1>5
<1>7. \A i \in 1 .. Len(t) + 1 : T[i] = IF i <= 1 THEN S[i] ELSE t[i - 1]
  <2>1. Len(S) + Len(t) = Len(t) + 1
    BY <1>2, <1>4
  <2> QED
    BY <1>2, <1>5, <2>1, Zenon
<1>8. T # << >>
  <2>1. Len(T) # 0 /\ Len(<< >>) = 0
    BY <1>4, <1>6
  <2> QED
    BY <2>1, Zenon
<1>9. T[1] = x
  BY <1>3, <1>4, <1>7
<1>10. Tail(T) \in Seq(Q) /\ Len(Tail(T)) = Len(T) - 1 /\ \A i \in 1 .. Len(Tail(T)) : Tail(T)[i] = T[i + 1]
  BY <1>5, <1>8, HeadTailProperties, Zenon
<1>11. Len(Tail(T)) = Len(t)
  BY <1>4, <1>6, <1>10
<1>12. ASSUME NEW i \in 1 .. Len(Tail(T)) PROVE Tail(T)[i] = t[i]
  <2>1. i + 1 \in 1 .. Len(t) + 1 /\ ~(i + 1 <= 1) /\ i + 1 - 1 = i
    BY <1>4, <1>11
  <2>2. PICK j \in 1 .. Len(t) + 1 : j = i + 1 /\ ~(j <= 1) /\ j - 1 = i
    BY <2>1
  <2>3. T[j] = IF j <= 1 THEN S[j] ELSE t[j - 1]
    BY <1>7, <2>2, Zenon
  <2>4. T[i + 1] = t[i]
    BY <2>2, <2>3, Zenon
  <2> QED
    BY <1>10, <2>4, Zenon
<1>13. Tail(T) = t
  BY <1>10, <1>11, <1>12, SeqEqual, Zenon
<1> QED
  BY <1>5, <1>6, <1>8, <1>9, <1>13, Zenon DEF T, S

LEMMA ConsOfPair ==
  ASSUME NEW Q, NEW x \in Q, NEW y \in Q, NEW z \in Q
  PROVE  <<x>> \in Seq(Q) /\ <<y, z>> \in Seq(Q) /\ <<x>> \o <<y, z>> = <<x, y, z>>
<1> DEFINE S == <<x>>
           P == <<y, z>>
           T == <<x, y, z>>
<1>1. S \in Seq(Q) /\ Len(S) = 1 /\ S[1] = x
  OBVIOUS
<1>2. P \in Seq(Q) /\ Len(P) = 2 /\ P[1] = y /\ P[2] = z
  OBVIOUS
<1>3. T \in Seq(Q) /\ Len(T) = 3 /\ T[1] = x /\ T[2] = y /\ T[3] = z
  OBVIOUS
<1> HIDE DEF S, P, T
<1>4. S \o P \in Seq(Q) /\ Len(S \o P) = Len(S) + Len(P)
      /\ \A i \in 1 .. Len(S) + Len(P) : (S \o P)[i] = IF i <= Len(S) THEN S[i] ELSE P[i - Len(S)]
  BY <1>1, <1>2, ConcatProperties, Zenon
<1> DEFINE C == S \o P
<1> HIDE DEF C
<1>5. C \in Seq(Q) /\ Len(C) = 3 /\ \A i \in 1 .. 3 : C[i] = IF i <= 1 THEN S[i] ELSE P[i - 1]
  <2>1. Len(S) + Len(P) = 3 /\ Len(S) = 1
    BY <1>1, <1>2
  <2> QED
    BY <1>4, <2>1, Zenon DEF C
<1>6. C[1] = x /\ C[2] = y /\ C[3] = z
  BY <1>1, <1>2, <1>5
<1>7. \A i \in 1 .. Len(C) : C[i] = T[i]
  BY <1>3, <1>5, <1>6
<1>8. C = T
  BY <1>3, <1>5, <1>7, SeqEqual, Zenon
<1> QED
  BY <1>1, <1>2, <1>8, Zenon DEF C, S, P, T

Associates(p, q, r) == p \o q \o r = p \o (q \o r)
LEMMA AssociatesAll ==
  ASSUME NEW Q, NEW p \in Seq(Q), NEW q \in Seq(Q), NEW r \in Seq(Q)
  PROVE  Associates(p, q, r)
BY ConcatAssociative, SMTT(30) DEF Associates

\* What a user writes for an offset is the cursor, the sign, and the duration.
LEMMA WrittenFacts ==
  ASSUME NEW w \in Asks, w.kind = "time", Plain(w.name)
  PROVE  /\ <<"@">> \o w.name \in Text /\ IsBare(<<"@">> \o w.name)
         /\ NameOf(w, <<"@">> \o w.name) = IF w.name = << >> THEN w.active ELSE w.name
         /\ w.sign = None => Written(w) = <<"@">> \o w.name
         /\ w.sign # None => Written(w) = <<"@">> \o w.name \o <<w.sign>> \o <<w.number, w.unit>>
<1> DEFINE a == <<"@">> \o w.name
<1>1. w.name \in Text /\ "@" \in STRING
  BY TimesAssumption, Zenon
<1>2. a \in Text /\ Len(a) = Len(w.name) + 1 /\ a # << >> /\ a[1] = "@" /\ Tail(a) = w.name
  <2>1. w.name \in Seq(STRING)
    BY <1>1, Zenon DEF Text
  <2>2. a \in Seq(STRING) /\ Len(a) = Len(w.name) + 1 /\ a # << >> /\ a[1] = "@" /\ Tail(a) = w.name
    <3>1. ASSUME NEW x \in STRING, NEW t \in Seq(STRING)
          PROVE  /\ <<x>> \o t \in Seq(STRING) /\ Len(<<x>> \o t) = Len(t) + 1 /\ <<x>> \o t # << >>
                 /\ (<<x>> \o t)[1] = x /\ Tail(<<x>> \o t) = t
      BY ConsFacts, Zenon
    <3> QED
      BY <1>1, <2>1, <3>1, Zenon
  <2> HIDE DEF a
  <2> QED
    BY <2>2, Zenon DEF Text
<1> HIDE DEF a
<1>3. Len(w.name) \in Nat /\ (w.name = << >> <=> Len(w.name) = 0)
  BY <1>1, TextFacts
<1>4. Len(a) = 1 <=> w.name = << >>
  BY <1>2, <1>3
<1>5. IsBare(a)
  <2>1. 1 <= Len(a)
    BY <1>2, <1>3
  <2>2. BareCursor(a)
    BY <1>2, <2>1, Zenon DEF BareCursor, At
  <2> QED
    BY <1>2, <2>2, BareFacts, Zenon
<1>6. NameOf(w, a) = IF w.name = << >> THEN w.active ELSE w.name
  BY <1>2, <1>4, Zenon DEF NameOf
<1>7. Written(w) = a \o IF w.sign = None THEN << >> ELSE <<w.sign, w.number, w.unit>>
  BY Zenon DEF Written, a
<1>8. ASSUME w.sign = None PROVE Written(w) = a
  <2>1. Written(w) = a \o << >>
    BY <1>7, <1>8, Zenon
  <2>2. a \o << >> = a
    BY <1>2, ConcatEmptySeq, Zenon DEF Text
  <2> QED
    BY <2>1, <2>2, Zenon
<1>9. ASSUME w.sign # None PROVE Written(w) = a \o <<w.sign>> \o <<w.number, w.unit>>
  <2>1. Written(w) = a \o <<w.sign, w.number, w.unit>>
    BY <1>7, <1>9, Zenon
  <2>2. w.sign \in STRING /\ w.number \in STRING /\ w.unit \in STRING
    BY <1>9, TimesAssumption, Zenon
  <2>3. ASSUME NEW Q, NEW x \in Q, NEW y \in Q, NEW z \in Q
        PROVE  <<x>> \in Seq(Q) /\ <<y, z>> \in Seq(Q) /\ <<x>> \o <<y, z>> = <<x, y, z>>
    BY ConsOfPair, Zenon
  <2>4. /\ <<w.sign>> \in Seq(STRING) /\ <<w.number, w.unit>> \in Seq(STRING)
        /\ <<w.sign>> \o <<w.number, w.unit>> = <<w.sign, w.number, w.unit>>
    BY <2>2, <2>3, Zenon
  <2>5. a \o <<w.sign>> \o <<w.number, w.unit>> = a \o (<<w.sign>> \o <<w.number, w.unit>>)
    <3>1. a \in Seq(STRING)
      BY <1>2, Zenon DEF Text
    <3> QED
      <4>1. Associates(a, <<w.sign>>, <<w.number, w.unit>>)
        BY <2>4, <3>1, AssociatesAll, Zenon
      <4> QED
        BY <4>1, Zenon DEF Associates
  <2> QED
    BY <2>1, <2>4, <2>5, Zenon
<1> QED
  BY <1>2, <1>5, <1>6, <1>8, <1>9, Zenon DEF a

\* What is asked for is answered.
LEMMA AnswerIsMeant ==
  ASSUME Len(file) = LastTick + 1, ask \in Asks, ask.kind = "time", Plain(ask.name), reply = UserTime(ask, Written(ask), FALSE),
         NEW name, name = IF ask.name = << >> THEN ask.active ELSE ask.name
  PROVE  /\ name \notin DOMAIN Cursors => reply = Refused
         /\ name \in DOMAIN Cursors /\ ask.sign = None => reply = Resolved(Cursors[name])
         /\ name \in DOMAIN Cursors /\ ask.sign # None => Meant(ask.sign, Numbers[ask.number], ask.unit, Cursors[name], reply)
<1> DEFINE a == <<"@">> \o ask.name
<1>1. /\ a \in Text /\ IsBare(a) /\ NameOf(ask, a) = name
      /\ ask.sign = None => Written(ask) = a
      /\ ask.sign # None => Written(ask) = a \o <<ask.sign>> \o <<ask.number, ask.unit>>
  BY WrittenFacts, Zenon
<1> HIDE DEF a
<1>2. a # << >> /\ a[1] = "@"
  BY <1>1, Zenon DEF IsBare
<1>3. CASE ask.sign = None
  <2>1. reply = AtCursor(ask, a)
    BY <1>1, <1>2, <1>3, UserTimeFacts, Zenon
  <2>2. reply = IF name \notin DOMAIN Cursors THEN Refused ELSE Resolved(Cursors[name])
    BY <1>1, <2>1, AtBare, Zenon
  <2> QED
    BY <1>3, <2>2, Zenon
<1>4. CASE ask.sign # None
  <2> DEFINE b == <<ask.number, ask.unit>>
  <2>1. ask.sign \in Signs /\ ask.number \in DOMAIN Numbers /\ ask.unit \in DOMAIN Ticks \cup Edges
    BY <1>4, TimesAssumption, Zenon
  <2>2. ask.number \in STRING /\ ask.unit \in STRING
    BY <2>1, TimesAssumption, Zenon
  <2>3. b \in Text /\ Len(b) = 2 /\ b # << >> /\ b[1] = ask.number /\ b[2] = ask.unit
    BY <2>2, PairFacts, Zenon DEF Text
  <2> HIDE DEF b
  <2>4. ParseDuration(b) = Duration(Numbers[ask.number], ask.unit)
    <3>1. IsNumber(b[1]) /\ b[1] \notin Signs /\ b[1] # "-"
      BY <2>1, <2>3, SignFacts, TimesAssumption, Zenon DEF IsNumber, Signs
    <3>2. Unsigned(b) = b /\ ~At(b, 1, {"-"})
      BY <3>1, Zenon DEF Unsigned, At
    <3>3. ~(Len(b) > 2) /\ Len(b) # 1
      BY <2>3
    <3>4. 1 * Numbers[b[1]] = Numbers[b[1]]
      BY <2>1, <2>3, TimesAssumption
    <3>5. ParseDuration(b) = Duration((IF At(b, 1, {"-"}) THEN -1 ELSE 1) * Numbers[b[1]], b[2])
      BY <2>1, <2>3, <3>1, <3>2, <3>3, Zenon DEF ParseDuration
    <3>6. (IF At(b, 1, {"-"}) THEN -1 ELSE 1) = 1
      BY <3>2, Zenon
    <3> QED
      BY <2>3, <3>4, <3>5, <3>6, Zenon
  <2>5. IsNumber(b[1]) /\ ParseDuration(b).ok /\ ParseDuration(b).value = Numbers[ask.number] /\ ParseDuration(b).unit = ask.unit
    BY <2>1, <2>3, <2>4, DurationFacts DEF IsNumber
  <2>6. reply = AtCursor(ask, a \o <<ask.sign>> \o b)
    <3>1. FALSE \in BOOLEAN /\ reply = UserTime(ask, a \o <<ask.sign>> \o b, FALSE)
      BY <1>1, <1>4, Zenon DEF b
    <3> QED
      BY <1>1, <1>2, <2>1, <2>3, <3>1, UserTimeOfJoin, Zenon
  <2>7. reply = IF ~ParseDuration(b).ok \/ name \notin DOMAIN Cursors THEN Refused
                ELSE Offset(ask, Cursors[name],
                            IF ask.sign = "-" THEN Duration(-ParseDuration(b).value, ParseDuration(b).unit) ELSE ParseDuration(b))
    <3>1. ask.sign = "-" => IsNumber(b[1])
      BY <2>5, Zenon
    <3>2. AtCursor(ask, a \o <<ask.sign>> \o b) =
            IF ~ParseDuration(b).ok \/ NameOf(ask, a) \notin DOMAIN Cursors THEN Refused
            ELSE Offset(ask, Cursors[NameOf(ask, a)],
                        IF ask.sign = "-" THEN Duration(-ParseDuration(b).value, ParseDuration(b).unit) ELSE ParseDuration(b))
      BY <1>1, <2>1, <2>3, <3>1, AtOffset, Zenon
    <3> QED
      BY <1>1, <2>6, <3>2, Zenon
  <2>8. CASE name \notin DOMAIN Cursors
    BY <2>7, <2>8, Zenon
  <2>9. CASE name \in DOMAIN Cursors
    <3>1. PICK base \in 0 .. Top : base = Cursors[name]
      BY <2>9, TimesAssumption, Zenon
    <3>2. CASE ask.sign = "-"
      <4>1. reply = Offset(ask, base, Duration(-Numbers[ask.number], ask.unit))
        BY <2>5, <2>7, <2>9, <3>1, <3>2, Zenon
      <4>2. Meant("-", Numbers[ask.number], ask.unit, base, Offset(ask, base, Duration(-Numbers[ask.number], ask.unit)))
        BY <2>1, OffsetIsMeant, Zenon
      <4> QED
        BY <1>4, <2>9, <3>1, <3>2, <4>1, <4>2, Zenon
    <3>3. CASE ask.sign # "-"
      <4>1. reply = Offset(ask, base, Duration(Numbers[ask.number], ask.unit))
        BY <2>4, <2>5, <2>7, <2>9, <3>1, <3>3, Zenon
      <4>2. Meant("+", Numbers[ask.number], ask.unit, base, Offset(ask, base, Duration(Numbers[ask.number], ask.unit)))
        BY <2>1, OffsetIsMeant, Zenon
      <4>3. ask.sign = "+"
        BY <2>1, <3>3, Zenon DEF Signs
      <4> QED
        BY <1>4, <2>9, <3>1, <4>1, <4>2, <4>3, Zenon
    <3> QED
      BY <3>2, <3>3
  <2> QED
    BY <2>8, <2>9
<1> QED
  BY <1>3, <1>4

\* What a user writes for an offset is answered with what it means.
LEMMA OffsetIsAnswered ==
  ASSUME Len(file) = LastTick + 1, ask \in Asks, ask.kind = "time", reply = Answer(ask)
  PROVE  OffsetsAreMeant
<1> DEFINE name == IF ask.name = << >> THEN ask.active ELSE ask.name
<1>1. reply = UserTime(ask, Written(ask), FALSE)
  BY Zenon DEF Answer
<1>2. ASSUME Plain(ask.name)
      PROVE  /\ name \notin DOMAIN Cursors => reply = Refused
             /\ name \in DOMAIN Cursors /\ ask.sign = None => reply = Resolved(Cursors[name])
             /\ name \in DOMAIN Cursors /\ ask.sign # None => Meant(ask.sign, Numbers[ask.number], ask.unit, Cursors[name], reply)
  BY <1>1, <1>2, AnswerIsMeant, Zenon
<1> HIDE DEF name
<1>3. Plain(ask.name) =>
        IF name \notin DOMAIN Cursors THEN reply = Refused
        ELSE IF ask.sign = None THEN reply = Resolved(Cursors[name])
        ELSE Meant(ask.sign, Numbers[ask.number], ask.unit, Cursors[name], reply)
  BY <1>2, Zenon
<1> QED
  BY <1>3, Zenon DEF OffsetsAreMeant, name

\* What both readers make of a window agrees.
LEMMA WindowIsAnswered ==
  ASSUME Len(file) = LastTick + 1, ask \in Asks, ask.kind = "window", reply = Answer(ask)
  PROVE  WindowsAgree
<1>1. reply.used = JsonTimeRange(ask) /\ reply.specs = SpecRange(ask)
  <2>1. "window" # "time"
    OBVIOUS
  <2>2. reply = [used |-> JsonTimeRange(ask), specs |-> SpecRange(ask)]
    BY <2>1, Zenon DEF Answer
  <2> DEFINE used == JsonTimeRange(ask)
             specs == SpecRange(ask)
  <2> HIDE DEF used, specs
  <2>3. [used |-> used, specs |-> specs].used = used /\ [used |-> used, specs |-> specs].specs = specs
    OBVIOUS
  <2>4. reply = [used |-> used, specs |-> specs]
    BY <2>2, Zenon DEF used, specs
  <2>5. reply.used = used /\ reply.specs = specs
    BY <2>3, <2>4, Zenon
  <2> QED
    BY <2>5, Zenon DEF used, specs
<1>2. ASSUME ByTimes(ask) PROVE JsonTimeRange(ask) = SpecRange(ask)
  <2> DEFINE begin == Given(ask.begin, NoTime)
             end == Given(ask.end, <<"max">>)
  <2>1. RangeSpecs(ask)[1] = begin /\ RangeSpecs(ask)[2] = end
    <3>1. RangeSpecs(ask) = <<begin, end>>
      BY <1>2, Zenon DEF RangeSpecs
    <3> HIDE DEF begin, end
    <3>2. <<begin, end>>[1] = begin /\ <<begin, end>>[2] = end
      OBVIOUS
    <3> QED
      BY <3>1, <3>2, Zenon
  <2>2. JsonTimeRange(ask) = WindowOf(UserTime(ask, begin, FALSE), UserTime(ask, end, TRUE))
    BY <1>2, Zenon DEF JsonTimeRange
  <2>3. SpecRange(ask) = WindowOf(UserTime(ask, RangeSpecs(ask)[1], FALSE), UserTime(ask, RangeSpecs(ask)[2], TRUE))
    BY <1>2, Zenon DEF SpecRange
  <2> HIDE DEF begin, end
  <2> QED
    BY <2>1, <2>2, <2>3, Zenon
<1>3. ASSUME JsonTimeRange(ask).ok, SpecRange(ask).ok, NoSign(ask.before) PROVE JsonTimeRange(ask) = SpecRange(ask)
  <2>1. CASE ByTimes(ask)
    BY <1>2, <2>1, Zenon
  <2>2. CASE ~ByTimes(ask)
    BY <1>3, <2>2, SameWhenAccepted, Zenon
  <2> QED
    BY <2>1, <2>2, Zenon
<1>4. ASSUME ~ByTimes(ask), BareCursor(ask.around), NoSign(ask.before), NoSign(ask.after)
      PROVE  JsonTimeRange(ask).ok = SpecRange(ask).ok
  BY <1>4, SameAtCursor, Zenon
<1>5. ASSUME ~ByTimes(ask), JsonTimeRange(ask).ok
      PROVE  /\ JsonTimeRange(ask).begin <= UserTime(ask, ask.around, FALSE).time
             /\ UserTime(ask, ask.around, FALSE).time <= JsonTimeRange(ask).end
  BY <1>5, AroundIsInside, Zenon
<1> QED
  BY <1>1, <1>2, <1>3, <1>4, <1>5, Zenon DEF WindowsAgree

-----------------------------------------------------------------------------
(* Every state's answer is the answer its file still gives. *)

\* The file does not change once there is an answer.
TimesInv == ask # None => Len(file) = LastTick + 1 /\ ask \in Asks /\ reply = Answer(ask)

LEMMA SameEdges ==
  ASSUME file' = file
  PROVE  \A unit : EdgeTicks(unit)' = EdgeTicks(unit)
BY Zenon DEF EdgeTicks, Level

LEMMA SameOffset ==
  ASSUME file' = file
  PROVE  \A w, base, d : Offset(w, base, d)' = Offset(w, base, d)
<1>1. ASSUME NEW w, NEW base, NEW d PROVE CycleOffset(w, base, d)' = CycleOffset(w, base, d)
  <2> DEFINE C(edges) == IF d.value = 0 THEN Resolved(base)
                         ELSE IF d.value > 0
                         THEN Nth(FirstAfter(w, base, edges), [t \in edges |-> Following(t, edges)], d.value)
                         ELSE Nth(PrevBefore(w, base, edges), [t \in edges |-> PrevBefore(w, t, edges)], -d.value)
  <2>1. CycleOffset(w, base, d) = C(EdgeTicks(d.unit))
    BY Zenon DEF CycleOffset
  <2>2. CycleOffset(w, base, d)' = C(EdgeTicks(d.unit)')
    BY Zenon DEF CycleOffset
  <2>3. EdgeTicks(d.unit)' = EdgeTicks(d.unit)
    BY SameEdges, Zenon
  <2> HIDE DEF C
  <2> QED
    BY <2>1, <2>2, <2>3, Zenon
<1> QED
  BY <1>1, ZenonT(60) DEF Offset

LEMMA SameUserTime ==
  ASSUME file' = file
  PROVE  \A w, text, allowMax : UserTime(w, text, allowMax)' = UserTime(w, text, allowMax)
<1>1. ASSUME NEW w, NEW text PROVE AtCursor(w, text)' = AtCursor(w, text)
  BY SameOffset, Zenon DEF AtCursor
<1> QED
  BY <1>1, Zenon DEF UserTime

LEMMA SameAnswer ==
  ASSUME file' = file
  PROVE  \A w : Answer(w)' = Answer(w)
<1>1. ASSUME NEW w, NEW t, NEW text, NEW before PROVE Bound(w, t, text, before)' = Bound(w, t, text, before)
  BY SameOffset, Zenon DEF Bound
<1>2. ASSUME NEW w PROVE JsonTimeRange(w)' = JsonTimeRange(w)
  BY <1>1, SameUserTime, Zenon DEF JsonTimeRange
<1>3. ASSUME NEW w PROVE SpecRange(w)' = SpecRange(w)
  BY SameUserTime, Zenon DEF SpecRange
<1> QED
  BY <1>2, <1>3, SameUserTime, Zenon DEF Answer

LEMMA InvGivesTimes ==
  ASSUME TimesInv
  PROVE  TimesAreMeant
<1>1. CASE ask = None
  BY <1>1, Zenon DEF TimesAreMeant, OffsetsAreMeant, WindowsAgree, Asked
<1>2. CASE ask # None /\ ask.kind = "time"
  <2>1. OffsetsAreMeant
    BY <1>2, OffsetIsAnswered, Zenon DEF TimesInv
  <2>2. ~Asked("window")
    BY <1>2, Zenon DEF Asked
  <2> QED
    BY <2>1, <2>2, Zenon DEF TimesAreMeant, WindowsAgree
<1>3. CASE ask # None /\ ask.kind = "window"
  <2>1. WindowsAgree
    BY <1>3, WindowIsAnswered, Zenon DEF TimesInv
  <2>2. ~Asked("time")
    BY <1>3, Zenon DEF Asked
  <2> QED
    BY <2>1, <2>2, Zenon DEF TimesAreMeant, OffsetsAreMeant
<1>4. ask # None => ask.kind \in {"time", "window"}
  BY TimesAssumption, Zenon DEF TimesInv
<1> QED
  BY <1>1, <1>2, <1>3, <1>4, Zenon

LEMMA InvIsKept ==
  ASSUME TimesInv, [Next]_vars
  PROVE  TimesInv'
<1>1. CASE Write
  BY <1>1, Zenon DEF Write, TimesInv
<1>2. CASE Ask
  <2>1. PICK w \in Asks : ask' = w /\ reply' = Answer(w)
    BY <1>2, Zenon DEF Ask
  <2>2. file' = file /\ Len(file) = LastTick + 1
    BY <1>2, Zenon DEF Ask
  <2>3. Answer(w)' = Answer(w)
    BY <2>2, SameAnswer, Zenon
  <2>4. Answer(ask)' = Answer(w)'
    BY <2>1, Zenon
  <2> QED
    BY <2>1, <2>2, <2>3, <2>4, Zenon DEF TimesInv
<1>3. CASE UNCHANGED vars
  <2>1. file' = file /\ ask' = ask /\ reply' = reply
    BY <1>3, Zenon DEF vars
  <2>2. Answer(ask)' = Answer(ask)
    BY <2>1, SameAnswer, Zenon
  <2> QED
    BY <2>1, <2>2, Zenon DEF TimesInv
<1> QED
  BY <1>1, <1>2, <1>3, Zenon DEF Next

\* Whatever the file, the cursors and the request: a time at a cursor is so many ticks
\* or edges of the clock from it (apply_duration_offset, resolve_cycle_offset), and
\* json_time_range and build_range_specs make the same window of a request.
THEOREM TimesHold == Spec => []TimesAreMeant
<1>1. Init => TimesInv
  BY Zenon DEF Init, TimesInv
<1>2. TimesInv /\ [Next]_vars => TimesInv'
  BY InvIsKept
<1>3. TimesInv => TimesAreMeant
  BY InvGivesTimes
<1> QED
  BY <1>1, <1>2, <1>3, PTL DEF Spec
=============================================================================
