------------------------- MODULE RegistryDocProofs -------------------------
(***************************************************************************)
(* What the list edits of RegistryDoc return, for lists of any length.     *)
(* Finite sets of numbers are enumerated by rank: there is no induction.   *)
(***************************************************************************)
EXTENDS RegistryDoc, FiniteSetTheorems, TLAPS

LEMMA KeptIsFinite ==
  ASSUME NEW S, NEW doc \in Seq(S), NEW Q \in SUBSET DOMAIN doc
  PROVE  Q \in SUBSET Nat /\ IsFiniteSet(Q)
<1>1. DOMAIN doc = 1 .. Len(doc) /\ Len(doc) \in Nat
  OBVIOUS
<1>2. IsFiniteSet(1 .. Len(doc))
  BY <1>1, FS_Interval
<1> QED
  BY <1>1, <1>2, FS_Subset

\* Ranks number a finite set of naturals from 1 to its size, without gaps.
LEMMA RanksAreOneToSize ==
  ASSUME NEW Q \in SUBSET Nat, IsFiniteSet(Q)
  PROVE  /\ Cardinality(Q) \in Nat
         /\ \A i \in Q : Rank(Q, i) \in 1 .. Cardinality(Q)
         /\ \A k \in 1 .. Cardinality(Q) : \E i \in Q : Rank(Q, i) = k
<1> DEFINE UpTo(i) == {j \in Q : j <= i}
           n == Cardinality(Q)
           rank == [i \in Q |-> Rank(Q, i)]
<1>1. n \in Nat
  BY FS_CardinalityType
<1>2. ASSUME NEW i \in Q
      PROVE  IsFiniteSet(UpTo(i)) /\ Rank(Q, i) \in 1 .. n /\ Rank(Q, i) = Cardinality(UpTo(i))
  <2>1. UpTo(i) \in SUBSET Q /\ i \in UpTo(i)
    OBVIOUS
  <2>2. IsFiniteSet(UpTo(i)) /\ Cardinality(UpTo(i)) <= n
    BY <2>1, FS_Subset
  <2>3. Cardinality(UpTo(i)) \in Nat /\ Cardinality(UpTo(i)) # 0
    BY <2>1, <2>2, FS_CardinalityType, FS_EmptySet
  <2> QED
    BY <1>1, <2>2, <2>3 DEF Rank
<1>3. ASSUME NEW i \in Q, NEW j \in Q, i < j PROVE Rank(Q, i) # Rank(Q, j)
  <2>1. UpTo(i) \in SUBSET UpTo(j) /\ UpTo(i) # UpTo(j)
    <3>1. j \in UpTo(j) /\ j \notin UpTo(i)
      BY <1>3
    <3>2. UpTo(i) \subseteq UpTo(j)
      <4>1. \A x \in Nat : x <= i => x <= j
        BY <1>3
      <4> QED
        BY <4>1
    <3> QED
      BY <3>1, <3>2
  <2> HIDE DEF UpTo
  <2> QED
    BY <1>2, <2>1, FS_Subset
<1>4. rank \in Injection(Q, 1 .. n)
  <2>1. rank \in [Q -> 1 .. n]
    BY <1>2
  <2>2. ASSUME NEW i \in Q, NEW j \in Q, i # j PROVE rank[i] # rank[j]
    BY <2>2, <1>3
  <2> HIDE DEF rank
  <2> QED
    BY <2>1, <2>2 DEF Injection, IsInjective
<1>5. IsFiniteSet(1 .. n) /\ Cardinality(1 .. n) = n
  BY <1>1, FS_Interval
<1>6. rank \in Surjection(Q, 1 .. n)
  <2> HIDE DEF rank, n
  <2> QED
    BY <1>4, <1>5, FS_Injection DEF n
<1>7. \A k \in 1 .. n : \E i \in Q : rank[i] = k
  <2> HIDE DEF rank
  <2> QED
    BY <1>6 DEF Surjection
<1> QED
  BY <1>1, <1>2, <1>7

LEMMA NthFacts ==
  ASSUME NEW Q \in SUBSET Nat, IsFiniteSet(Q)
  PROVE  /\ \A k \in 1 .. Cardinality(Q) : Nth(Q, k) \in Q
         /\ \A i \in Q : \E k \in 1 .. Cardinality(Q) : Nth(Q, k) = i
         /\ \A k, l \in 1 .. Cardinality(Q) : Nth(Q, k) = Nth(Q, l) => k = l
<1>1. \A k \in 1 .. Cardinality(Q) : Nth(Q, k) \in Q /\ Rank(Q, Nth(Q, k)) = k
  BY RanksAreOneToSize DEF Nth
<1>2. ASSUME NEW i \in Q, NEW j \in Q, Rank(Q, i) = Rank(Q, j), i < j PROVE FALSE
  <2> DEFINE I == {x \in Q : x <= i}
             J == {x \in Q : x <= j}
  <2>1. \A x \in Nat : x <= i => x <= j
    BY <1>2
  <2>2. I \in SUBSET J /\ j \in J /\ j \notin I /\ J \in SUBSET Q
    <3>1. j <= j /\ ~(j <= i)
      BY <1>2
    <3> QED
      BY <2>1, <3>1, Zenon
  <2>3. Cardinality(I) = Cardinality(J)
    BY <1>2 DEF Rank
  <2> HIDE DEF I, J
  <2> QED
    BY <2>2, <2>3, FS_Subset
<1>3. ASSUME NEW i \in Q PROVE \E k \in 1 .. Cardinality(Q) : Nth(Q, k) = i
  <2>1. Rank(Q, i) \in 1 .. Cardinality(Q)
    BY RanksAreOneToSize
  <2> DEFINE j == Nth(Q, Rank(Q, i))
  <2>2. j \in Q /\ Rank(Q, j) = Rank(Q, i)
    BY <1>1, <2>1
  <2>3. i \in Nat /\ j \in Nat
    BY <2>2
  <2> QED
    BY <1>2, <2>1, <2>2, <2>3
<1> QED
  BY <1>1, <1>3

\* Picked returns the entries of the list at the indices it is given, each once.
LEMMA PickedFacts ==
  ASSUME NEW S, NEW doc \in Seq(S), NEW Q \in SUBSET DOMAIN doc
  PROVE  /\ Picked(doc, Q) \in Seq(S)
         /\ \A k \in DOMAIN Picked(doc, Q) : \E i \in Q : Picked(doc, Q)[k] = doc[i]
         /\ \A i \in Q : \E k \in DOMAIN Picked(doc, Q) : Picked(doc, Q)[k] = doc[i]
         /\ \A k, l \in DOMAIN Picked(doc, Q) : k # l =>
              \E i, j \in Q : i # j /\ Picked(doc, Q)[k] = doc[i] /\ Picked(doc, Q)[l] = doc[j]
<1> DEFINE n == Cardinality(Q)
           w == Picked(doc, Q)
<1>1. Q \in SUBSET Nat /\ IsFiniteSet(Q)
  BY KeptIsFinite
<1>2. n \in Nat
  BY <1>1, FS_CardinalityType
<1>3. DOMAIN w = 1 .. n /\ \A k \in 1 .. n : w[k] = doc[Nth(Q, k)] /\ Nth(Q, k) \in Q
  BY <1>1, NthFacts DEF Picked
<1>4. w \in Seq(S)
  <2>1. \A i \in DOMAIN doc : doc[i] \in S
    OBVIOUS
  <2>2. w = [k \in 1 .. n |-> w[k]]
    BY DEF Picked
  <2>3. \A k \in 1 .. n : w[k] \in S
    BY <1>1, <1>3, <2>1
  <2> HIDE DEF w, n
  <2> QED
    BY <1>2, <2>2, <2>3
<1>5. \A k \in DOMAIN w : \E i \in Q : w[k] = doc[i]
  BY <1>1, <1>3
<1>6. \A i \in Q : \E k \in DOMAIN w : w[k] = doc[i]
  <2> SUFFICES ASSUME NEW i \in Q PROVE \E k \in DOMAIN w : w[k] = doc[i]
    OBVIOUS
  <2>1. PICK k \in 1 .. n : Nth(Q, k) = i
    BY <1>1, NthFacts
  <2> HIDE DEF w
  <2> QED
    BY <1>3, <2>1
<1>7. ASSUME NEW k \in DOMAIN w, NEW l \in DOMAIN w, k # l
      PROVE  \E i, j \in Q : i # j /\ w[k] = doc[i] /\ w[l] = doc[j]
  <2>1. k \in 1 .. n /\ l \in 1 .. n
    BY <1>3
  <2>2. Nth(Q, k) # Nth(Q, l)
    BY <1>1, <1>7, <2>1, NthFacts
  <2> HIDE DEF w
  <2> QED
    BY <1>3, <2>1, <2>2
<1> HIDE DEF w
<1>8. \A k, l \in DOMAIN w : k # l => \E i, j \in Q : i # j /\ w[k] = doc[i] /\ w[l] = doc[j]
  BY <1>7
<1> QED
  BY <1>4, <1>5, <1>6, <1>8 DEF w

\* The ids of what is picked.
LEMMA PickedIds ==
  ASSUME NEW S, NEW doc \in Seq(S), NEW Q \in SUBSET DOMAIN doc
  PROVE  IdsOf(Picked(doc, Q)) = {doc[i].id : i \in Q}
<1>1. PICK w : w = Picked(doc, Q)
  OBVIOUS
<1>2. (\A k \in DOMAIN w : \E i \in Q : w[k] = doc[i]) /\ (\A i \in Q : \E k \in DOMAIN w : w[k] = doc[i])
  BY <1>1, PickedFacts
<1>3. IdsOf(w) = {doc[i].id : i \in Q}
  BY <1>2 DEF IdsOf
<1> QED
  BY <1>1, <1>3

\* Without returns records of the list, and exactly those whose id is not in ids.
LEMMA WithoutFacts ==
  ASSUME NEW S, NEW doc \in Seq(S), NEW ids
  PROVE  /\ Without(doc, ids) \in Seq(S)
         /\ IdsOf(Without(doc, ids)) = IdsOf(doc) \ ids
         /\ \A k \in DOMAIN Without(doc, ids) : \E i \in DOMAIN doc : Without(doc, ids)[k] = doc[i]
<1>1. Kept(doc, ids) \in SUBSET DOMAIN doc
  BY DEF Kept
<1>2. {doc[i].id : i \in Kept(doc, ids)} = IdsOf(doc) \ ids
  BY DEF Kept, IdsOf
<1>3. IdsOf(Without(doc, ids)) = IdsOf(doc) \ ids
  BY <1>1, <1>2, PickedIds DEF Without
<1>4. /\ Without(doc, ids) \in Seq(S)
      /\ \A k \in DOMAIN Without(doc, ids) : \E i \in Kept(doc, ids) : Without(doc, ids)[k] = doc[i]
  BY <1>1, PickedFacts DEF Without
<1> QED
  BY <1>1, <1>3, <1>4

\* The first record of an id that has one.
LEMMA FirstOfFacts ==
  ASSUME NEW S, NEW doc \in Seq(S), NEW id \in IdsOf(doc)
  PROVE  FirstOf(doc, id) \in DOMAIN doc /\ doc[FirstOf(doc, id)].id = id
<1> DEFINE Q == {i \in DOMAIN doc : doc[i].id = id}
<1>1. Q \in SUBSET DOMAIN doc /\ Q \in SUBSET Nat /\ IsFiniteSet(Q) /\ Q # {}
  BY KeptIsFinite DEF IdsOf
<1>2. 1 \in 1 .. Cardinality(Q)
  <2> HIDE DEF Q
  <2> QED
    BY <1>1, FS_EmptySet, FS_CardinalityType
<1>3. PICK m \in Q : Rank(Q, m) = 1
  <2> HIDE DEF Q
  <2> QED
    BY <1>1, <1>2, RanksAreOneToSize
<1>4. ASSUME NEW j \in Q PROVE m <= j
  <2> DEFINE M == {x \in Q : x <= m}
  <2>1. IsFiniteSet(M) /\ Cardinality(M) = 1 /\ m \in M
    <3>1. M \in SUBSET Q /\ m \in M /\ Cardinality(M) = 1
      BY <1>1, <1>3 DEF Rank
    <3> HIDE DEF M, Q
    <3> QED
      BY <1>1, <3>1, FS_Subset
  <2>2. M = {m}
    <3> HIDE DEF M
    <3> QED
      BY <2>1, FS_Singleton
  <2>3. m \in Nat /\ j \in Nat
    BY <1>1
  <2> QED
    BY <2>2, <2>3
<1> QED
  BY <1>1, <1>4 DEF FirstOf

LEMMA AppendFacts ==
  ASSUME NEW S, NEW doc \in Seq(S), NEW rec \in S
  PROVE  /\ Append(doc, rec) \in Seq(S)
         /\ IdsOf(Append(doc, rec)) = IdsOf(doc) \cup {rec.id}
<1>1. Append(doc, rec) \in Seq(S)
  OBVIOUS
<1>2. /\ DOMAIN Append(doc, rec) = DOMAIN doc \cup {Len(doc) + 1}
      /\ \A i \in DOMAIN doc : Append(doc, rec)[i] = doc[i]
      /\ Append(doc, rec)[Len(doc) + 1] = rec
  OBVIOUS
<1> QED
  BY <1>1, <1>2, Zenon DEF IdsOf

\* upsert keeps the other records and leaves one with rec's id.
LEMMA UpsertedFacts ==
  ASSUME NEW S, NEW doc \in Seq(S), NEW rec \in S
  PROVE  /\ Upserted(doc, rec) \in Seq(S)
         /\ IdsOf(Upserted(doc, rec)) = IdsOf(doc) \cup {rec.id}
<1>1. CASE rec.id \in IdsOf(doc)
  <2> DEFINE f == FirstOf(doc, rec.id)
  <2>1. f \in DOMAIN doc /\ doc[f].id = rec.id
    BY <1>1, FirstOfFacts
  <2>2. Upserted(doc, rec) = [doc EXCEPT ![f] = rec]
    BY <1>1 DEF Upserted
  <2> HIDE DEF f
  <2> QED
    BY <1>1, <2>1, <2>2 DEF IdsOf
<1>2. CASE rec.id \notin IdsOf(doc)
  <2>1. Upserted(doc, rec) = Append(doc, rec)
    BY <1>2 DEF Upserted
  <2> QED
    BY <2>1, AppendFacts
<1> QED
  BY <1>1, <1>2

(***************************************************************************)
(* The enumeration of a set of indices is the only one that grows.         *)
(***************************************************************************)
LEMMA NthGrows ==
  ASSUME NEW Q \in SUBSET Nat, IsFiniteSet(Q),
         NEW k \in 1 .. Cardinality(Q), NEW l \in 1 .. Cardinality(Q), k < l
  PROVE  Nth(Q, k) < Nth(Q, l)
<1>1. Nth(Q, k) \in Q /\ Nth(Q, l) \in Q /\ Rank(Q, Nth(Q, k)) = k /\ Rank(Q, Nth(Q, l)) = l
  BY RanksAreOneToSize DEF Nth
<1>2. PICK i \in Q, j \in Q : i = Nth(Q, k) /\ j = Nth(Q, l)
  BY <1>1
<1>3. i \in Nat /\ j \in Nat /\ Cardinality(Q) \in Nat
  BY FS_CardinalityType
<1>4. ASSUME j <= i PROVE FALSE
  <2>1. PICK I \in SUBSET Q : I = {x \in Q : x <= i}
    OBVIOUS
  <2>2. PICK J : J = {x \in Q : x <= j}
    OBVIOUS
  <2>3. \A x \in Nat : x <= j => x <= i
    BY <1>3, <1>4
  <2>4. J \in SUBSET I
    BY <2>1, <2>2, <2>3
  <2>5. Cardinality(J) <= Cardinality(I)
    BY <2>4, FS_Subset
  <2>6. Cardinality(I) = k /\ Cardinality(J) = l
    BY <1>1, <1>2, <2>1, <2>2 DEF Rank
  <2> QED
    BY <1>3, <2>5, <2>6
<1> QED
  BY <1>2, <1>3, <1>4

LEMMA Enumeration ==
  ASSUME NEW Q \in SUBSET Nat, NEW n \in Nat, NEW f \in [1 .. n -> Q],
         \A k, l \in 1 .. n : k < l => f[k] < f[l],
         \A i \in Q : \E k \in 1 .. n : f[k] = i
  PROVE  IsFiniteSet(Q) /\ Cardinality(Q) = n /\ \A k \in 1 .. n : Nth(Q, k) = f[k]
<1>1. \A k, l \in 1 .. n : k # l => f[k] # f[l]
  <2>1. \A k \in 1 .. n : f[k] \in Nat
    OBVIOUS
  <2> QED
    BY <2>1
<1>2. \A m \in 0 .. n : IsFiniteSet(1 .. m) /\ Cardinality(1 .. m) = m
  <2> SUFFICES ASSUME NEW m \in 0 .. n PROVE IsFiniteSet(1 .. m) /\ Cardinality(1 .. m) = m
    OBVIOUS
  <2>1. m \in Int /\ m >= 0
    OBVIOUS
  <2> QED
    BY <2>1, FS_Interval
<1>3. ASSUME NEW m \in 0 .. n, NEW P \in SUBSET Q, \A k \in 1 .. m : f[k] \in P,
             \A i \in P : \E k \in 1 .. m : f[k] = i
      PROVE  IsFiniteSet(P) /\ Cardinality(P) = m
  <2>1. PICK g : g = [k \in 1 .. m |-> f[k]]
    OBVIOUS
  <2>2. \A k \in 1 .. m : k \in 1 .. n
    OBVIOUS
  <2>3. g \in [1 .. m -> P]
    BY <1>3, <2>1
  <2>4. \A k, l \in 1 .. m : k # l => g[k] # g[l]
    BY <1>1, <2>1, <2>2
  <2>5. \A i \in P : \E k \in 1 .. m : g[k] = i
    BY <1>3, <2>1
  <2>6. g \in Bijection(1 .. m, P)
    BY <2>3, <2>4, <2>5 DEF Bijection, Injection, Surjection, IsInjective
  <2>7. ExistsBijection(1 .. m, P)
    BY <2>6 DEF ExistsBijection
  <2>8. IsFiniteSet(1 .. m) /\ Cardinality(1 .. m) = m
    BY <1>2
  <2> QED
    BY <2>7, <2>8, FS_Bijection
<1>4. IsFiniteSet(Q) /\ Cardinality(Q) = n
  <2>1. n \in 0 .. n /\ \A k \in 1 .. n : f[k] \in Q
    OBVIOUS
  <2> QED
    BY <2>1, <1>3
<1>5. ASSUME NEW k \in 1 .. n PROVE Nth(Q, k) = f[k]
  <2>1. PICK P \in SUBSET Q : P = {j \in Q : j <= f[k]}
    OBVIOUS
  <2>2. \A l \in 1 .. k : l \in 1 .. n /\ f[l] \in Nat /\ f[k] \in Nat
    <3>1. \A l \in 1 .. k : l \in 1 .. n
      OBVIOUS
    <3>2. \A l \in 1 .. n : f[l] \in Nat
      OBVIOUS
    <3> QED
      BY <3>1, <3>2
  <2>3. \A l \in 1 .. k : f[l] <= f[k]
    BY <2>2
  <2>4. \A l \in 1 .. k : f[l] \in P
    BY <2>1, <2>2, <2>3
  <2>5. ASSUME NEW i \in P PROVE \E l \in 1 .. k : f[l] = i
    <3>1. PICK l \in 1 .. n : f[l] = i
      OBVIOUS
    <3>2. f[l] <= f[k] /\ f[l] \in Nat /\ f[k] \in Nat
      BY <2>1, <3>1
    <3>3. ~(k < l)
      BY <3>2
    <3>4. l \in 1 .. k
      BY <3>3
    <3> QED
      BY <3>1, <3>4
  <2>6. k \in 0 .. n
    OBVIOUS
  <2>7. Cardinality(P) = k
    BY <1>3, <2>4, <2>5, <2>6
  <2>8. Rank(Q, f[k]) = k
    BY <2>1, <2>7 DEF Rank
  <2>9. f[k] \in Q
    OBVIOUS
  <2>10. PICK l \in 1 .. Cardinality(Q) : Nth(Q, l) = f[k]
    BY <1>4, <2>9, NthFacts
  <2>11. Rank(Q, Nth(Q, l)) = l
    BY <1>4, RanksAreOneToSize DEF Nth
  <2> QED
    BY <2>8, <2>10, <2>11
<1> QED
  BY <1>4, <1>5

\* What is picked, by any enumeration that grows.
LEMMA PickedBy ==
  ASSUME NEW doc, NEW Q \in SUBSET Nat, NEW n \in Nat, NEW f \in [1 .. n -> Q],
         \A k, l \in 1 .. n : k < l => f[k] < f[l],
         \A i \in Q : \E k \in 1 .. n : f[k] = i
  PROVE  Picked(doc, Q) = [k \in 1 .. n |-> doc[f[k]]]
<1>1. Cardinality(Q) = n /\ \A k \in 1 .. n : Nth(Q, k) = f[k]
  BY Enumeration
<1> QED
  BY <1>1 DEF Picked

\* A stretch of a list is a part of it, in one piece.
LEMMA PickedStretch ==
  ASSUME NEW S, NEW doc \in Seq(S), NEW a \in 1 .. Len(doc) + 1, NEW b \in 0 .. Len(doc)
  PROVE  Picked(doc, a .. b) = SubSeq(doc, a, b)
<1>1. Len(doc) \in Nat /\ DOMAIN doc = 1 .. Len(doc)
  OBVIOUS
<1>2. a .. b \in SUBSET DOMAIN doc
  BY <1>1
<1>3. PICK n \in Nat : n = IF a <= b THEN b - a + 1 ELSE 0
  <2>1. (IF a <= b THEN b - a + 1 ELSE 0) \in Nat
    BY <1>1
  <2> QED
    BY <2>1
<1>4. PICK f : f = [k \in 1 .. n |-> a + k - 1]
  OBVIOUS
<1>5. f \in [1 .. n -> a .. b]
  BY <1>1, <1>3, <1>4
<1>6. \A k, l \in 1 .. n : k < l => f[k] < f[l]
  BY <1>1, <1>4
<1>7. ASSUME NEW i \in a .. b PROVE \E k \in 1 .. n : f[k] = i
  <2>1. i - a + 1 \in 1 .. n /\ a + (i - a + 1) - 1 = i
    BY <1>1, <1>3
  <2> QED
    BY <1>4, <2>1
<1>8. Picked(doc, a .. b) = [k \in 1 .. n |-> doc[f[k]]]
  <2>1. PICK Q \in SUBSET Nat : Q = a .. b
    BY <1>1, <1>2
  <2>2. f \in [1 .. n -> Q] /\ (\A i \in Q : \E k \in 1 .. n : f[k] = i)
    BY <1>5, <1>7, <2>1
  <2>3. \A k, l \in 1 .. n : k < l => f[k] < f[l]
    BY <1>6
  <2>4. Picked(doc, Q) = [k \in 1 .. n |-> doc[f[k]]]
    BY <2>2, <2>3, PickedBy
  <2> QED
    BY <2>1, <2>4
<1>9. Picked(doc, a .. b) = [k \in 1 .. n |-> doc[a + k - 1]]
  BY <1>4, <1>8
<1>10. SubSeq(doc, a, b) = [k \in 1 .. n |-> doc[a + k - 1]]
  BY <1>1, <1>3
<1> QED
  BY <1>9, <1>10

\* What is picked of what is picked.
LEMMA PickedTwice ==
  ASSUME NEW S, NEW doc \in Seq(S), NEW Q \in SUBSET DOMAIN doc, NEW P \in SUBSET Q,
         NEW R, R = {k \in DOMAIN Picked(doc, Q) : Nth(Q, k) \in P}
  PROVE  Picked(Picked(doc, Q), R) = Picked(doc, P)
<1>1. Q \in SUBSET Nat /\ IsFiniteSet(Q)
  BY KeptIsFinite
<1>2. PICK m \in Nat : m = Cardinality(Q)
  BY <1>1, FS_CardinalityType
<1>3. PICK w : w = Picked(doc, Q)
  OBVIOUS
<1>4. DOMAIN w = 1 .. m /\ \A k \in 1 .. m : w[k] = doc[Nth(Q, k)]
  BY <1>2, <1>3 DEF Picked
<1>5. R \in SUBSET (1 .. m) /\ R \in SUBSET Nat /\ IsFiniteSet(R) /\ \A k \in R : Nth(Q, k) \in P
  <2>1. R \in SUBSET (1 .. m) /\ \A k \in R : Nth(Q, k) \in P
    BY <1>3, <1>4
  <2>2. IsFiniteSet(1 .. m)
    BY FS_Interval
  <2> QED
    BY <2>1, <2>2, FS_Subset
<1>6. PICK n \in Nat : n = Cardinality(R)
  BY <1>5, FS_CardinalityType
<1>7. PICK f : f = [k \in 1 .. n |-> Nth(Q, Nth(R, k))]
  OBVIOUS
<1>8. \A k \in 1 .. n : Nth(R, k) \in R
  BY <1>5, <1>6, NthFacts
<1>9. f \in [1 .. n -> P]
  BY <1>5, <1>7, <1>8
<1>10. ASSUME NEW k \in 1 .. n, NEW l \in 1 .. n, k < l PROVE f[k] < f[l]
  <2>1. Nth(R, k) < Nth(R, l)
    BY <1>5, <1>6, <1>10, NthGrows
  <2>2. PICK x \in 1 .. m, y \in 1 .. m : x = Nth(R, k) /\ y = Nth(R, l)
    BY <1>5, <1>8
  <2>3. Nth(Q, x) < Nth(Q, y)
    BY <1>1, <1>2, <2>1, <2>2, NthGrows
  <2> QED
    BY <1>7, <2>2, <2>3
<1>11. ASSUME NEW i \in P PROVE \E k \in 1 .. n : f[k] = i
  <2>1. PICK x \in 1 .. m : Nth(Q, x) = i
    BY <1>1, <1>2, NthFacts
  <2>2. x \in R
    BY <1>3, <1>4, <2>1
  <2>3. PICK k \in 1 .. n : Nth(R, k) = x
    BY <1>5, <1>6, <2>2, NthFacts
  <2> QED
    BY <1>7, <2>1, <2>3
<1>12. P \in SUBSET Nat
  BY <1>1
<1>13. Picked(doc, P) = [k \in 1 .. n |-> doc[f[k]]]
  BY <1>9, <1>10, <1>11, <1>12, PickedBy
<1>14. Picked(w, R) = [k \in 1 .. n |-> w[Nth(R, k)]]
  BY <1>6 DEF Picked
<1>15. \A k \in 1 .. n : w[Nth(R, k)] = doc[f[k]]
  BY <1>4, <1>5, <1>7, <1>8
<1>16. Picked(w, R) = [k \in 1 .. n |-> doc[f[k]]]
  BY <1>14, <1>15
<1> QED
  BY <1>3, <1>13, <1>16

\* A set of indices has a first and a last one.
LEMMA HasEnds ==
  ASSUME NEW n \in Nat, NEW I \in SUBSET (1 .. n), I # {}
  PROVE  /\ \E m \in I : \A i \in I : m <= i
         /\ \E m \in I : \A i \in I : i <= m
<1>1. I \in SUBSET Nat /\ IsFiniteSet(I)
  <2>1. IsFiniteSet(1 .. n) /\ (1 .. n) \in SUBSET Nat
    BY FS_Interval
  <2> QED
    BY <2>1, FS_Subset
<1>2. PICK c \in Nat : c = Cardinality(I) /\ c # 0
  BY <1>1, FS_EmptySet, FS_CardinalityType
<1>3. 1 \in 1 .. c /\ c \in 1 .. c
  BY <1>2
<1>4. PICK f : f = [k \in 1 .. c |-> Nth(I, k)]
  OBVIOUS
<1>5. f[1] \in I /\ f[c] \in I /\ \A i \in I : \E k \in 1 .. c : f[k] = i
  BY <1>1, <1>2, <1>3, <1>4, NthFacts
<1>6. \A k, l \in 1 .. c : k < l => f[k] < f[l]
  BY <1>1, <1>2, <1>4, NthGrows
<1>7. ASSUME NEW i \in I PROVE f[1] <= i /\ i <= f[c]
  <2>1. PICK k \in 1 .. c : f[k] = i
    BY <1>5
  <2>2. (k = 1 \/ 1 < k) /\ (k = c \/ k < c)
    OBVIOUS
  <2>3. (k = 1 \/ f[1] < f[k]) /\ (k = c \/ f[k] < f[c])
    BY <1>3, <1>6, <2>2
  <2>4. f[1] \in Nat /\ f[c] \in Nat /\ f[k] \in Nat
    BY <1>1, <1>5, <2>1
  <2> QED
    BY <2>1, <2>3, <2>4
<1> QED
  BY <1>5, <1>7
===============================================================================
