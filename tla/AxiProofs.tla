------------------------------- MODULE AxiProofs -------------------------------
(***************************************************************************)
(* The theorems about AxiAnalyzer and AxiQueries, for what BusMC composes: *)
(* waveforms of any length with any ids, any number of transactions in     *)
(* flight, bursts of any length and resets at any time.                    *)
(***************************************************************************)
EXTENDS AxiScanProofs

(***************************************************************************)
(* The invariant.                                                          *)
(***************************************************************************)
\* Until the end the analyzer follows the bus; then its two vectors are all that the
\* bus has completed, in the order of the addresses, writes only when data came first.
AllInTurn(done, did) == AreAll(done, did) /\ InTurn(done)
AxiInv ==
  /\ t \in Nat /\ t <= LastEdge /\ IsReported(an.writes, bus.wrote)
  /\ result = None => Follows(bus, an, t, t) /\ WritesFollow(bus, an, t) /\ ReadsFollow(bus, an, t)
  /\ result # None => AllInTurn(an.reads, bus.did) /\ (bus.dataFirst => AllInTurn(an.writes, bus.wrote))

\* Every step keeps the invariant.
LEMMA AxiStep == AxiInv /\ [Next]_vars => AxiInv'
<1> SUFFICES ASSUME AxiInv, [Next]_vars PROVE AxiInv'
  OBVIOUS
<1>1. CASE Edge
  <2>1. result = None /\ t \in Nat /\ t' = t + 1 /\ result' = result /\ t < LastEdge
    BY <1>1 DEF Edge, AxiInv
  <2>2. Follows(bus', an', t', t') /\ WritesFollow(bus', an', t')
    BY <1>1, <2>1, EdgeFollows DEF AxiInv
  <2>3. DOMAIN bus = BusFields /\ DOMAIN an = AnFields
    BY <2>1 DEF AxiInv, Follows
  <2>4. ReadsFollow(bus', an', t')
    BY <1>1, <2>1, <2>3, EdgeReadsFollow DEF AxiInv
  <2>5. IsReported(an'.writes, bus'.wrote)
    BY <2>2 DEF Follows
  <2>6. t' \in Nat /\ t' <= LastEdge
    BY <2>1, EdgeAssumption
  <2> QED
    BY <2>1, <2>2, <2>4, <2>5, <2>6 DEF AxiInv
<1>2. CASE Finish
  <2>1. PICK all : all = SortedByAddr(an.writes \o an.reads)
    OBVIOUS
  <2>2. result = None /\ result' = [all |-> all, byResp |-> ByResp(all)]
    BY <1>2, <2>1 DEF Finish
  <2>3. PICK w, r : w = SortedByAddr(an.writes) /\ r = SortedByAddr(an.reads)
    OBVIOUS
  <2>4. an' = [Fresh EXCEPT !.writes = w, !.reads = r, !.samples = an.samples] /\ bus' = bus /\ t' = t
    BY <1>2, <2>3 DEF Finish
  <2>5. an'.writes = w /\ an'.reads = r
    BY <2>4 DEF Fresh
  <2>6. IsReported(an'.writes, bus'.wrote)
    BY <2>3, <2>4, <2>5, SortKeepsReported DEF AxiInv
  <2>7. AreAll(an.reads, bus.did) /\ an.reads \in Seq(Transaction)
    BY <2>2 DEF AxiInv, ReadsFollow, ReadsTied, AreAll
  <2>8. result' # None
    BY <2>1, <2>2, <2>7, ResultIsSome DEF AxiInv
  <2>9. AllInTurn(an'.reads, bus'.did)
    BY <2>3, <2>4, <2>5, <2>7, SortedAreAll DEF AllInTurn
  <2>10. bus'.dataFirst => AllInTurn(an'.writes, bus'.wrote)
    <3>1. bus.dataFirst => AreAll(an.writes, bus.wrote)
      BY <2>2 DEF AxiInv, WritesFollow
    <3> QED
      BY <2>3, <2>4, <2>5, <3>1, SortedAreAll DEF AllInTurn
  <2> QED
    BY <2>4, <2>6, <2>8, <2>9, <2>10 DEF AxiInv
<1>3. CASE Done
  BY <1>3 DEF Done, AxiInv, vars
<1>4. CASE UNCHANGED vars
  BY <1>4 DEF AxiInv, vars
<1> QED
  BY <1>1, <1>2, <1>3, <1>4 DEF Next

\* The waveform's beginning.
LEMMA InitIsFine == Init => AxiInv
<1> SUFFICES ASSUME Init PROVE AxiInv
  OBVIOUS
<1>1. PICK e : e = << >>
  OBVIOUS
<1>2. /\ DOMAIN bus = BusFields /\ bus.aw = e /\ bus.bursts = e /\ bus.wrote = {} /\ bus.reads = e /\ bus.did = {}
      /\ DOMAIN an = AnFields /\ an.pw = e /\ an.buf = e /\ an.writes = e /\ an.reads = e
      /\ an.pr = [i \in TxnIds |-> << >>] /\ t = 0 /\ result = None
      /\ an.ow = 0 /\ an.or = 0 /\ an.owId = NoneById /\ an.orId = NoneById
  BY <1>1 DEF Init, Quiet, Fresh, BusFields, AnFields
<1>3. ASSUME NEW S PROVE e \in Seq(S) /\ DOMAIN e = {} /\ Len(e) = 0
  BY <1>1
<1>4. IsReported(an.writes, bus.wrote) /\ OnceEach(an.writes, an.pw, t)
  BY <1>2, <1>3 DEF IsReported, OnceEach
<1>5. Tied(bus.aw, bus.bursts, an.pw, e, e, 0, [j \in Nat \ {0} |-> j], bus.wrote, t)
  BY <1>1, <1>2, ResetKeeps
<1>6. Buffered(an.buf, e, 0)
  <2>1. 0 = 0 - 0 /\ 1 .. 0 = {}
    OBVIOUS
  <2> QED
    BY <1>2, <1>3, <2>1 DEF Buffered
<1>7. AreAll(e, {})
  BY <1>3 DEF AreAll
<1>8. NoneById \in [TxnIds -> Nat] /\ \A id \in TxnIds : NoneById[id] = 0
  BY DEF NoneById
<1>9. WritesFollow(bus, an, t)
  <2>1. Prompt(e, e, e)
    BY <1>3 DEF Prompt
  <2>2. Counted(e, 0, NoneById)
    <3>1. \A id \in TxnIds : Size(OfOneId(e, id)) = 0
      BY <1>3, Lists!FS_EmptySet DEF Size, OfOneId
    <3> QED
      BY <1>3, <1>8, <3>1 DEF Counted
  <2> QED
    BY <1>2, <1>3, <1>7, <1>8, <2>1, <2>2 DEF WritesFollow
<1>10. ReadsFollow(bus, an, t)
  <2>1. PICK pr : pr = [i \in TxnIds |-> << >>]
    OBVIOUS
  <2>2. pr \in [TxnIds -> Seq(PendingRead)] /\ \A id \in TxnIds : pr[id] = e
    BY <1>1, <1>3, <2>1
  <2>3. Queued(e, pr)
    BY <1>3, <2>2 DEF Queued, InTurn
  <2> QED
    BY <1>2, <1>3, <1>7, <1>8, <2>1, <2>2, <2>3 DEF ReadsFollow, ReadsTied
<1> QED
  BY <1>2, <1>4, <1>5, <1>6, <1>9, <1>10, EdgeAssumption DEF AxiInv, Follows

AxiKept == IsAxi => AxiInv

\* Of the behaviours BusMC composes, those that are of the AXI analyzer.
LEMMA AxiIsKept == MCSpec => []AxiKept
<1> DEFINE all == <<vars, now, wave, edge, scan, truth, transfers, cursor, shown, walk>>
<1>1. MCInit => AxiKept
  <2> SUFFICES ASSUME MCInit, IsAxi PROVE AxiInv
    BY DEF AxiKept
  <2>1. CASE Init
    BY <2>1, InitIsFine
  <2>2. CASE Apb!Init
    <3>1. edge \in BOOLEAN
      BY <2>2 DEF Apb!Init
    <3> QED
      BY <3>1, ApbAssumption DEF IsAxi
  <2> QED
    BY <2>1, <2>2 DEF MCInit
<1>2. AxiKept /\ [MCNext]_all => AxiKept'
  <2> SUFFICES ASSUME AxiKept, [MCNext]_all, IsAxi' PROVE AxiInv'
    BY DEF AxiKept
  <2>1. edge' = edge
    <3>1. Apb!Next => edge' = edge
      BY DEF Apb!Next, Apb!Change, Apb!Finish, Apb!CursorBegin, Apb!CursorNext, Apb!CursorPrev, Apb!CursorLast, Apb!file
    <3> QED
      BY <3>1 DEF MCNext
  <2>2. IsAxi /\ [Next]_vars
    BY <2>1 DEF MCNext, IsAxi
  <2> QED
    BY <2>2, AxiStep DEF AxiKept
<1> QED
  BY <1>1, <1>2, PTL DEF MCSpec

\* A write that is reported is one the bus made, once, with its own data, and not
\* before its response: W before, with or after AW, ids out of order, and resets.
THEOREM AxiWritesHold == MCSpec => []AxiWritesAreTrue
<1>1. AxiKept => AxiWritesAreTrue
  BY ReportedAreTrue DEF AxiKept, AxiInv, AxiWritesAreTrue
<1> QED
  BY <1>1, AxiIsKept, PTL

(***************************************************************************)
(* Look-ups: the places of what is sought are ranked as what is due is     *)
(* numbered, for both are in the order of the addresses.                   *)
(***************************************************************************)
SoughtIn(v, addr, id) == {i \in DOMAIN v : Sought(v[i], addr, id)}
Due(did, addr, id) == {d \in did : Sought(d, addr, id)}
CountsOn(c, v, addr, id) ==
  c = [i \in 0 .. Len(v) |-> IF i = 0 THEN 0 ELSE IF Sought(v[i], addr, id) THEN c[i - 1] + 1 ELSE c[i - 1]]

\* A set of places.
LEMMA PlacesAreFinite ==
  ASSUME NEW n \in Nat, NEW H \in SUBSET (1 .. n)
  PROVE  H \in SUBSET Nat /\ Lists!IsFiniteSet(H) /\ Lists!Cardinality(H) \in 0 .. n
<1>1. 1 \in Int /\ n \in Int /\ (IF 1 > n THEN 0 ELSE n - 1 + 1) = n
  OBVIOUS
<1>2. Lists!IsFiniteSet(1 .. n) /\ Lists!Cardinality(1 .. n) = n
  BY <1>1, Lists!FS_Interval
<1>3. Lists!IsFiniteSet(H) /\ Lists!Cardinality(H) <= n
  BY <1>2, Lists!FS_Subset
<1>4. Lists!Cardinality(H) \in Nat
  BY <1>3, Lists!FS_CardinalityType
<1> QED
  BY <1>3, <1>4

\* There is one counter: at the first place two would differ, they would not.
LEMMA OneCounter ==
  ASSUME NEW v, NEW n \in Nat, n = Len(v), DOMAIN v = 1 .. n, NEW addr, NEW id, NEW c, CountsOn(c, v, addr, id)
  PROVE  \A i \in 1 .. n : c[i] = Lists!Cardinality(UpTo(SoughtIn(v, addr, id), i))
<1>1. PICK H \in SUBSET (1 .. n) : H = SoughtIn(v, addr, id)
  BY DEF SoughtIn
<1>2. H \in SUBSET Nat /\ Lists!IsFiniteSet(H)
  BY PlacesAreFinite
<1>3. c[0] = 0 /\ \A i \in 1 .. n : c[i] = IF i \in H THEN c[i - 1] + 1 ELSE c[i - 1]
  <2>1. 0 \in 0 .. n /\ \A i \in 1 .. n : i \in 0 .. n /\ i # 0
    OBVIOUS
  <2>2. \A i \in 1 .. n : Sought(v[i], addr, id) <=> i \in H
    BY <1>1 DEF SoughtIn
  <2> QED
    BY <2>1, <2>2 DEF CountsOn
<1>4. Lists!Cardinality(UpTo(H, 0)) = 0
  <2>1. UpTo(H, 0) = {}
    BY <1>1 DEF UpTo
  <2> QED
    BY <2>1, Lists!FS_EmptySet
<1>5. PICK D \in SUBSET (1 .. n) : D = {i \in 1 .. n : c[i] # Lists!Cardinality(UpTo(H, i))}
  OBVIOUS
<1>6. ASSUME D # {} PROVE FALSE
  <2>1. PICK m \in D : \A i \in D : m <= i
    BY <1>6, Lists!HasEnds
  <2>2. m \in Nat \ {0} /\ m - 1 \notin D /\ (m - 1 \in 1 .. n \/ m - 1 = 0)
    <3>1. m \in 1 .. n /\ ~(m <= m - 1)
      OBVIOUS
    <3> QED
      BY <2>1, <3>1
  <2>3. c[m - 1] = Lists!Cardinality(UpTo(H, m - 1))
    BY <1>3, <1>4, <1>5, <2>2
  <2>4. Lists!Cardinality(UpTo(H, m)) =
          IF m \in H THEN Lists!Cardinality(UpTo(H, m - 1)) + 1 ELSE Lists!Cardinality(UpTo(H, m - 1))
    BY <1>2, <2>2, UpToGrows
  <2> QED
    BY <1>3, <1>5, <2>1, <2>3, <2>4
<1> QED
  BY <1>1, <1>5, <1>6

\* And the loop's is it.
LEMMA CountersAreRanks ==
  ASSUME NEW v, NEW n \in Nat, n = Len(v), DOMAIN v = 1 .. n, NEW addr, NEW id
  PROVE  \A i \in 1 .. n : Counts(v, addr, id)[i] = Lists!Cardinality(UpTo(SoughtIn(v, addr, id), i))
<1>1. PICK H \in SUBSET (1 .. n) : H = SoughtIn(v, addr, id)
  BY DEF SoughtIn
<1>2. H \in SUBSET Nat /\ Lists!IsFiniteSet(H)
  BY PlacesAreFinite
<1>3. PICK c : c = [i \in 0 .. n |-> Lists!Cardinality(UpTo(H, i))]
  OBVIOUS
<1>4. CountsOn(c, v, addr, id)
  <2>1. ASSUME NEW i \in 0 .. n
        PROVE  c[i] = IF i = 0 THEN 0 ELSE IF Sought(v[i], addr, id) THEN c[i - 1] + 1 ELSE c[i - 1]
    <3>1. CASE i = 0
      <4>1. UpTo(H, 0) = {}
        BY <1>1 DEF UpTo
      <4> QED
        BY <1>3, <3>1, <4>1, Lists!FS_EmptySet
    <3>2. CASE i # 0
      <4>1. i \in 1 .. n /\ i - 1 \in 0 .. n /\ i \in Nat \ {0}
        BY <3>2
      <4>2. Sought(v[i], addr, id) <=> i \in H
        BY <1>1, <4>1 DEF SoughtIn
      <4>3. Lists!Cardinality(UpTo(H, i)) =
              IF i \in H THEN Lists!Cardinality(UpTo(H, i - 1)) + 1 ELSE Lists!Cardinality(UpTo(H, i - 1))
        BY <1>2, <4>1, UpToGrows
      <4> QED
        BY <1>3, <3>2, <4>1, <4>2, <4>3
    <3> QED
      BY <3>1, <3>2
  <2> QED
    BY <1>3, <2>1 DEF CountsOn
<1>5. CountsOn(Counts(v, addr, id), v, addr, id)
  <2>1. Counts(v, addr, id) = CHOOSE d : CountsOn(d, v, addr, id)
    BY DEF Counts, CountsOn
  <2> QED
    BY <1>4, <2>1
<1> QED
  BY <1>5, OneCounter

\* The first and the last place of a search.
LEMMA MinMax ==
  ASSUME NEW n \in Nat, NEW I \in SUBSET (1 .. n), I # {}
  PROVE  Min(I) \in I /\ (\A i \in I : Min(I) <= i) /\ Max(I) \in I /\ \A i \in I : i <= Max(I)
<1>1. Min(I) \in I /\ \A i \in I : Min(I) <= i
  BY Lists!HasEnds DEF Min
<1>2. PICK x : x = Max(I) /\ x \in I /\ \A i \in I : x >= i
  <2>1. PICK m \in I : \A i \in I : i <= m
    BY Lists!HasEnds
  <2>2. \A i \in I : i \in Nat /\ m \in Nat
    OBVIOUS
  <2>3. \A i \in I : m >= i
    BY <2>1, <2>2
  <2> QED
    BY <2>3 DEF Max
<1>3. \A i \in I : i \in Nat /\ x \in Nat
  BY <1>2
<1> QED
  BY <1>1, <1>2, <1>3

\* The loops, by the ranks.
LEMMA LoopFacts ==
  ASSUME NEW v, NEW n \in Nat, n = Len(v), DOMAIN v = 1 .. n, NEW addr, NEW id,
         NEW H \in SUBSET (1 .. n), H = SoughtIn(v, addr, id)
  PROVE  /\ \A num \in Nat : \A i \in H : Lists!Cardinality(UpTo(H, i)) = num => NumberOf(v, addr, id, num) = i
         /\ \A num \in Nat : (\A i \in H : Lists!Cardinality(UpTo(H, i)) # num) => NumberOf(v, addr, id, num) = 0
         /\ H = {} => LastOf(v, addr, id) = 0
         /\ H # {} => /\ FirstOf(v, addr, id) \in H /\ \A i \in H : FirstOf(v, addr, id) <= i
                      /\ LastOf(v, addr, id) \in H /\ \A i \in H : i <= LastOf(v, addr, id)
<1>1. H = {i \in 1 .. n : Sought(v[i], addr, id)}
  BY DEF SoughtIn
<1>2. FirstOf(v, addr, id) = (IF H # {} THEN Min(H) ELSE 0) /\ LastOf(v, addr, id) = (IF H # {} THEN Max(H) ELSE 0)
  BY <1>1 DEF FirstOf, LastOf, SelectInSeq, SelectLastInSeq
<1>3. H # {} => Min(H) \in H /\ (\A i \in H : Min(H) <= i) /\ Max(H) \in H /\ \A i \in H : i <= Max(H)
  BY MinMax
<1>4. ASSUME NEW num \in Nat, NEW I \in SUBSET (1 .. n), I = {i \in H : Lists!Cardinality(UpTo(H, i)) = num}
      PROVE  NumberOf(v, addr, id, num) = IF I # {} THEN Min(I) ELSE 0
  <2>1. PICK places : places = [i \in DOMAIN v |-> i]
    OBVIOUS
  <2>2. places \in Seq(Nat) /\ Len(places) = n /\ \A i \in 1 .. n : places[i] = i
    BY <2>1
  <2>3. \A i \in 1 .. n : (Sought(v[i], addr, id) /\ Counts(v, addr, id)[i] = num) <=> i \in I
    <3>1. \A i \in 1 .. n : Counts(v, addr, id)[i] = Lists!Cardinality(UpTo(H, i))
      BY CountersAreRanks
    <3>2. \A i \in 1 .. n : Sought(v[i], addr, id) <=> i \in H
      BY <1>1
    <3> QED
      BY <1>4, <3>1, <3>2
  <2>4. {i \in 1 .. Len(places) : Sought(v[places[i]], addr, id) /\ Counts(v, addr, id)[places[i]] = num} = I
    BY <2>2, <2>3
  <2> QED
    BY <2>1, <2>4 DEF NumberOf, SelectInSeq
<1>5. ASSUME NEW num \in Nat, NEW i \in H, Lists!Cardinality(UpTo(H, i)) = num PROVE NumberOf(v, addr, id, num) = i
  <2>1. PICK I \in SUBSET (1 .. n) : I = {j \in H : Lists!Cardinality(UpTo(H, j)) = num}
    OBVIOUS
  <2>2. \A x, y \in H : Lists!Cardinality(UpTo(H, x)) = Lists!Cardinality(UpTo(H, y)) => x = y
    BY RankFacts
  <2>3. i \in I /\ \A j \in I : j = i
    BY <1>5, <2>1, <2>2
  <2>4. Min(I) \in I
    BY <2>3, MinMax
  <2> QED
    BY <1>4, <2>1, <2>3, <2>4
<1>6. ASSUME NEW num \in Nat, \A i \in H : Lists!Cardinality(UpTo(H, i)) # num PROVE NumberOf(v, addr, id, num) = 0
  <2>1. PICK I \in SUBSET (1 .. n) : I = {j \in H : Lists!Cardinality(UpTo(H, j)) = num}
    OBVIOUS
  <2> QED
    BY <1>4, <1>6, <2>1
<1> QED
  BY <1>2, <1>3, <1>5, <1>6

\* What is due is where it is sought, and numbered as its place is ranked.
LEMMA DueIsSought ==
  ASSUME NEW v, NEW did, AllInTurn(v, did), NEW n \in Nat, n = Len(v), DOMAIN v = 1 .. n, NEW addr, NEW id,
         NEW H \in SUBSET (1 .. n), H = SoughtIn(v, addr, id),
         NEW due, due = Due(did, addr, id)
  PROVE  /\ \A i \in H : v[i] \in due /\ Numbered(v[i], due) = Lists!Cardinality(UpTo(H, i))
         /\ \A d \in due : \E i \in H : v[i] = d
         /\ Cardinality(due) = Lists!Cardinality(H)
<1>1. \A i \in H : v[i] \in due
  BY DEF SoughtIn, AllInTurn, AreAll, Due
<1>2. ASSUME NEW d \in due PROVE \E i \in H : v[i] = d
  <2>1. PICK i \in 1 .. n : v[i] = d
    BY DEF AllInTurn, AreAll, Due
  <2> QED
    BY <2>1 DEF SoughtIn, Due
<1>3. \A i, j \in 1 .. n : v[i].addr = v[j].addr => i = j
  BY DEF AllInTurn, AreAll
<1>4. ASSUME NEW I \in SUBSET H, NEW D, \A i \in I : v[i] \in D, \A d \in D : \E i \in I : v[i] = d
      PROVE  Cardinality(D) = Lists!Cardinality(I)
  <2>1. PICK f : f = [i \in I |-> v[i]]
    OBVIOUS
  <2>2. f \in [I -> D] /\ (\A i, j \in I : f[i] = f[j] => i = j) /\ \A d \in D : \E i \in I : f[i] = d
    BY <1>3, <1>4, <2>1
  <2>3. f \in Lists!Bijection(I, D)
    BY <2>2 DEF Lists!Bijection, Lists!Injection, Lists!Surjection, Lists!IsInjective
  <2>4. Lists!IsFiniteSet(I)
    BY PlacesAreFinite
  <2>5. Lists!Cardinality(D) = Lists!Cardinality(I)
    BY <2>3, <2>4, Lists!FS_Bijection DEF Lists!ExistsBijection
  <2> QED
    BY <2>5 DEF Cardinality, Lists!Cardinality
<1>5. Cardinality(due) = Lists!Cardinality(H)
  BY <1>1, <1>2, <1>4
<1>6. \A i \in 1 .. n : v[i].addr \in Nat
  <2>1. \A i \in 1 .. n : v[i] \in Transaction
    BY DEF AllInTurn, AreAll
  <2> QED
    BY <2>1 DEF Transaction
<1>7. ASSUME NEW i \in 1 .. n, NEW j \in 1 .. n PROVE v[j].addr <= v[i].addr <=> j <= i
  <2>1. \A x, y \in 1 .. n : x < y => v[x].addr < v[y].addr
    BY DEF AllInTurn, InTurn
  <2>2. i < j \/ j < i \/ i = j
    OBVIOUS
  <2> QED
    BY <1>6, <2>1, <2>2
<1>8. ASSUME NEW i \in H PROVE Numbered(v[i], due) = Lists!Cardinality(UpTo(H, i))
  <2>1. PICK I \in SUBSET H : I = UpTo(H, i)
    BY DEF UpTo
  <2>2. PICK D : D = {e \in due : e.addr <= v[i].addr}
    OBVIOUS
  <2>3. \A j \in I : v[j] \in D
    BY <1>1, <1>7, <2>1, <2>2 DEF UpTo
  <2>4. ASSUME NEW d \in D PROVE \E j \in I : v[j] = d
    <3>1. PICK j \in H : v[j] = d /\ d.addr <= v[i].addr
      BY <1>2, <2>2
    <3>2. j <= i
      BY <1>7, <3>1
    <3> QED
      BY <2>1, <3>1, <3>2 DEF UpTo
  <2>5. Cardinality(D) = Lists!Cardinality(I)
    BY <1>4, <2>3, <2>4
  <2> QED
    BY <2>1, <2>2, <2>5 DEF Numbered
<1> QED
  BY <1>1, <1>2, <1>5, <1>8

\* A vector in the order of the addresses looks up what is due.
LEMMA LooksUpDue ==
  ASSUME NEW v, NEW did, AllInTurn(v, did), NEW addr, NEW id
  PROVE  LooksUp(v, Due(did, addr, id), addr, id)
<1>1. PICK n \in Nat : n = Len(v) /\ DOMAIN v = 1 .. n
  BY DEF AllInTurn, AreAll
<1>2. PICK H \in SUBSET (1 .. n) : H = SoughtIn(v, addr, id)
  BY <1>1 DEF SoughtIn
<1>3. PICK due : due = Due(did, addr, id)
  OBVIOUS
<1>4. PICK m \in Nat : m = Lists!Cardinality(H) /\ (H = {} <=> m = 0) /\ m <= n
  <2>1. Lists!Cardinality(H) \in Nat /\ (H = {} <=> Lists!Cardinality(H) = 0)
    BY RankFacts
  <2>2. Lists!Cardinality(H) \in 0 .. n
    BY PlacesAreFinite
  <2> QED
    BY <2>1, <2>2
<1>5. /\ \A i \in H : v[i] \in due /\ Numbered(v[i], due) = Lists!Cardinality(UpTo(H, i))
      /\ \A d \in due : \E i \in H : v[i] = d
      /\ Cardinality(due) = m
  <2>1. /\ \A i \in H : v[i] \in due /\ Numbered(v[i], due) = Lists!Cardinality(UpTo(H, i))
        /\ \A d \in due : \E i \in H : v[i] = d
        /\ Cardinality(due) = Lists!Cardinality(H)
    BY <1>1, <1>2, <1>3, DueIsSought
  <2> QED
    BY <1>4, <2>1
<1>6. \A num \in Nat \ {0} : Lookup(v, addr, id, num, FALSE) = NumberOf(v, addr, id, num)
  BY DEF Lookup
<1>7. Lookup(v, addr, id, 0, TRUE) = LastOf(v, addr, id) /\ (addr # None => Lookup(v, addr, id, 0, FALSE) = FirstOf(v, addr, id))
  BY DEF Lookup
<1>8. \A i \in H : Lists!Cardinality(UpTo(H, i)) \in 1 .. m
  BY <1>4, RankFacts
<1>9. /\ \A num \in Nat : \A i \in H : Lists!Cardinality(UpTo(H, i)) = num => NumberOf(v, addr, id, num) = i
      /\ \A num \in Nat : (\A i \in H : Lists!Cardinality(UpTo(H, i)) # num) => NumberOf(v, addr, id, num) = 0
      /\ H = {} => LastOf(v, addr, id) = 0
      /\ H # {} => /\ FirstOf(v, addr, id) \in H /\ \A i \in H : FirstOf(v, addr, id) <= i
                   /\ LastOf(v, addr, id) \in H /\ \A i \in H : i <= LastOf(v, addr, id)
  BY <1>1, <1>2, LoopFacts
<1>10. ASSUME NEW d \in due PROVE IsNth(v, Lookup(v, addr, id, Numbered(d, due), FALSE), d)
  <2>1. PICK i \in H : v[i] = d
    BY <1>5
  <2>2. PICK k \in Nat \ {0} : k = Lists!Cardinality(UpTo(H, i)) /\ k = Numbered(d, due)
    BY <1>5, <1>8, <2>1
  <2>3. NumberOf(v, addr, id, k) = i /\ i # 0
    <3>1. Lists!Cardinality(UpTo(H, i)) = k /\ k \in Nat
      BY <2>2
    <3>2. i # 0
      OBVIOUS
    <3> QED
      BY <1>9, <3>1, <3>2
  <2>4. Lookup(v, addr, id, k, FALSE) = NumberOf(v, addr, id, k)
    BY <1>6
  <2> QED
    BY <2>1, <2>2, <2>3, <2>4 DEF IsNth
<1>11. NumberOf(v, addr, id, m + 1) = 0
  <2>1. m + 1 \in Nat /\ \A i \in H : Lists!Cardinality(UpTo(H, i)) # m + 1
    BY <1>8
  <2> QED
    BY <1>9, <2>1
<1>12. Lookup(v, addr, id, m + 1, FALSE) = 0
  <2>1. m + 1 \in Nat \ {0}
    OBVIOUS
  <2> QED
    BY <1>6, <1>11, <2>1
<1>13. ASSUME H # {} PROVE FirstOf(v, addr, id) = NumberOf(v, addr, id, 1)
  <2>1. PICK i \in H : i = FirstOf(v, addr, id) /\ \A j \in H : i <= j
    BY <1>9, <1>13
  <2>2. Lists!Cardinality(UpTo(H, i)) = 1
    <3>1. \A x \in H : (\A j \in H : x <= j) => Lists!Cardinality(UpTo(H, x)) = 1
      BY RankFacts
    <3> QED
      BY <2>1, <3>1
  <2> QED
    BY <1>9, <2>1, <2>2
<1>14. ASSUME H # {} PROVE LastOf(v, addr, id) = NumberOf(v, addr, id, m)
  <2>1. PICK i \in H : i = LastOf(v, addr, id) /\ \A j \in H : j <= i
    BY <1>9, <1>14
  <2>2. Lists!Cardinality(UpTo(H, i)) = m
    <3>1. \A x \in H : (\A j \in H : j <= x) => Lists!Cardinality(UpTo(H, x)) = Lists!Cardinality(H)
      BY RankFacts
    <3> QED
      BY <1>4, <2>1, <3>1
  <2> QED
    BY <1>9, <2>1, <2>2
<1>15. due = {} <=> H = {}
  BY <1>5
<1>16. due # {} => \A last \in IF addr = None THEN {TRUE} ELSE BOOLEAN :
          Lookup(v, addr, id, 0, last) = NumberOf(v, addr, id, IF last THEN Cardinality(due) ELSE 1)
  <2> SUFFICES ASSUME due # {}, NEW last \in BOOLEAN, addr = None => last
               PROVE  Lookup(v, addr, id, 0, last) = NumberOf(v, addr, id, IF last THEN m ELSE 1)
    BY <1>5
  <2>1. CASE last
    BY <1>7, <1>14, <1>15, <2>1
  <2>2. CASE ~last
    BY <1>7, <1>13, <1>15, <2>2
  <2> QED
    BY <2>1, <2>2
<1>17. due = {} => Lookup(v, addr, id, 0, TRUE) = 0
  BY <1>7, <1>9, <1>15
<1>18. ASSUME addr = None PROVE CountOf(v, id) = m
  <2>1. ASSUME NEW k \in 1 .. m PROVE NumberOf(v, addr, id, k) # 0
    <3>1. PICK i \in H : Lists!Rank(H, i) = k
      <4>1. H \in SUBSET Nat /\ Lists!IsFiniteSet(H)
        BY PlacesAreFinite
      <4> QED
        BY <1>4, <4>1, Lists!RanksAreOneToSize
    <3>2. Lists!Cardinality(UpTo(H, i)) = k
      BY <3>1 DEF UpTo, Lists!Rank
    <3> QED
      BY <1>9, <3>2
  <2>2. PICK Stops : Stops = {x \in 0 .. n : NumberOf(v, None, id, x + 1) = 0 /\ \A k \in 1 .. x : NumberOf(v, None, id, k) # 0}
    OBVIOUS
  <2>3. m \in Stops
    BY <1>4, <1>11, <1>18, <2>1, <2>2
  <2>4. ASSUME NEW x \in Stops PROVE x = m
    <3>1. x \in Nat /\ NumberOf(v, None, id, x + 1) = 0 /\ \A k \in 1 .. x : NumberOf(v, None, id, k) # 0
      BY <2>2
    <3>2. ~(x < m)
      <4>1. x < m => x + 1 \in 1 .. m
        BY <3>1
      <4> QED
        BY <1>18, <2>1, <3>1, <4>1
    <3>3. ~(m < x)
      <4>1. m < x => m + 1 \in 1 .. x
        BY <3>1
      <4> QED
        BY <1>11, <1>18, <3>1, <4>1
    <3> QED
      BY <3>1, <3>2, <3>3
  <2>5. CountOf(v, id) = CHOOSE x \in 0 .. n : NumberOf(v, None, id, x + 1) = 0 /\ \A k \in 1 .. x : NumberOf(v, None, id, k) # 0
    BY <1>1 DEF CountOf
  <2>6. CountOf(v, id) \in Stops
    BY <2>2, <2>3, <2>5
  <2> QED
    BY <2>4, <2>6
<1> QED
  BY <1>3, <1>5, <1>10, <1>12, <1>16, <1>17, <1>18 DEF LooksUp

\* wr and rd answer from all the reads of the bus, and from all its writes when their
\* data came first, in the order the bus asked for them.
THEOREM AxiLookupsHold == MCSpec => []AxiLookupsAreTheBus
<1>1. AxiKept => AxiLookupsAreTheBus
  <2> SUFFICES ASSUME AxiInv, result # None PROVE LookupsAreTheBus
    BY DEF AxiKept, AxiLookupsAreTheBus, LookupsAreTheBus
  <2>1. AllInTurn(an.reads, bus.did) /\ (bus.dataFirst => AllInTurn(an.writes, bus.wrote))
    BY DEF AxiInv
  <2> QED
    BY <2>1, LooksUpDue DEF LookupsAreTheBus, Due
<1> QED
  BY <1>1, AxiIsKept, PTL

(***************************************************************************)
(* Samples and the result.                                                 *)
(***************************************************************************)
\* There is one sample for each edge out of reset, in order of time, and the last one
\* has the counters as they are, if it is of the last edge.
OneSample == [time : Nat, wr : Nat, rd : Nat, wrById : [TxnIds -> Nat], rdById : [TxnIds -> Nat]]
Sampled(samples, time) ==
  /\ samples \in Seq(OneSample)
  /\ \A i \in DOMAIN samples : samples[i].time <= time
  /\ \A i, j \in DOMAIN samples : i < j => samples[i].time < samples[j].time
CountersNow(a, time) == [time |-> time, wr |-> a.ow, rd |-> a.or, wrById |-> a.owId, rdById |-> a.orId]
LastIsNow(a, time) ==
  \A i \in DOMAIN a.samples : i = Len(a.samples) /\ a.samples[i].time = time => a.samples[i] = CountersNow(a, time)

\* The parts of an edge leave the samples alone, but for the last: reads ...
LEMMA ReadsLeaveSamples ==
  ASSUME NEW a, DOMAIN a = AnFields, NEW h
  PROVE  DOMAIN TakeReadData(AddRead(a, h), h) = AnFields /\ TakeReadData(AddRead(a, h), h).samples = a.samples
<1>1. PICK a1 : a1 = AddRead(a, h)
  OBVIOUS
<1>2. DOMAIN a1 = AnFields /\ a1.samples = a.samples
  <2>1. ASSUME NEW i, NEW q, NEW n, NEW m, a1 = [a EXCEPT !.pr[i] = q, !.or = n, !.orId = m]
        PROVE  DOMAIN a1 = AnFields /\ a1.samples = a.samples
    BY <2>1 DEF AnFields
  <2>2. a1 = a \/ \E i, q, n, m : a1 = [a EXCEPT !.pr[i] = q, !.or = n, !.orId = m]
    BY <1>1 DEF AddRead
  <2> QED
    BY <2>1, <2>2
<1>3. PICK c : c = TakeReadData(a1, h)
  OBVIOUS
<1> SUFFICES DOMAIN c = AnFields /\ c.samples = a.samples
  BY <1>1, <1>3
<1>4. ASSUME NEW i, NEW q, NEW r, NEW n, NEW m, c = [a1 EXCEPT !.reads = r, !.pr[i] = q, !.or = n, !.orId = m]
      PROVE  DOMAIN c = AnFields /\ c.samples = a.samples
  BY <1>2, <1>4 DEF AnFields
<1>5. ASSUME NEW i, NEW r, c = [a1 EXCEPT !.pr[i][1] = r]
      PROVE  DOMAIN c = AnFields /\ c.samples = a.samples
  BY <1>2, <1>5 DEF AnFields
<1>6. c = a1 \/ (\E i, q, r, n, m : c = [a1 EXCEPT !.reads = r, !.pr[i] = q, !.or = n, !.orId = m])
      \/ \E i, r : c = [a1 EXCEPT !.pr[i][1] = r]
  BY <1>3 DEF TakeReadData
<1>7. CASE \E i, q, r, n, m : c = [a1 EXCEPT !.reads = r, !.pr[i] = q, !.or = n, !.orId = m]
  <2>1. PICK i, q, r, n, m : c = [a1 EXCEPT !.reads = r, !.pr[i] = q, !.or = n, !.orId = m]
    BY <1>7
  <2> QED
    BY <1>4, <2>1
<1>8. CASE \E i, r : c = [a1 EXCEPT !.pr[i][1] = r]
  <2>1. PICK i, r : c = [a1 EXCEPT !.pr[i][1] = r]
    BY <1>8
  <2> QED
    BY <1>5, <2>1
<1>9. CASE c = a1
  BY <1>2, <1>9
<1> QED
  BY <1>6, <1>7, <1>8, <1>9

\* ... and with them the writes.
LEMMA SamplesStay ==
  ASSUME NEW a, DOMAIN a = AnFields, NEW h, NEW c,
         c = TakeReadData(AddRead(MatchResponse(AddWrite(PushBeat(a, h), h), h), h), h)
  PROVE  DOMAIN c = AnFields /\ c.samples = a.samples
<1>1. PICK a3 : a3 = MatchResponse(AddWrite(PushBeat(a, h), h), h)
  OBVIOUS
<1>2. DOMAIN a3 = AnFields /\ a3.samples = a.samples
  BY <1>1, WritesLeaveReads
<1> QED
  BY <1>1, <1>2, ReadsLeaveSamples

\* An edge.
LEMMA EdgeSamples ==
  ASSUME t \in Nat, DOMAIN an = AnFields, Sampled(an.samples, t), Edge,
         an'.ow \in Nat, an'.or \in Nat, an'.owId \in [TxnIds -> Nat], an'.orId \in [TxnIds -> Nat]
  PROVE  Sampled(an'.samples, t') /\ LastIsNow(an', t')
<1>1. PICK h : an' = Processed(an, h) /\ t' = t + 1
  BY DEF Edge
<1>2. PICK n \in Nat : n = Len(an.samples) /\ DOMAIN an.samples = 1 .. n /\ an.samples \in Seq(OneSample)
  BY DEF Sampled
<1>3. \A i \in 1 .. n : an.samples[i].time \in Nat /\ an.samples[i].time <= t
  <2>1. \A i \in 1 .. n : an.samples[i] \in OneSample
    BY <1>2
  <2> QED
    BY <1>2, <2>1 DEF OneSample, Sampled
<1>4. CASE h.rst
  <2>1. an' = [Fresh EXCEPT !.writes = an.writes, !.reads = an.reads, !.samples = an.samples]
    BY <1>1, <1>4 DEF Processed, Cleared
  <2>2. an'.samples = an.samples
    BY <2>1 DEF Fresh
  <2>3. \A i \in 1 .. n : an.samples[i].time <= t + 1 /\ an.samples[i].time # t + 1
    BY <1>3
  <2> QED
    BY <1>1, <1>2, <2>2, <2>3 DEF Sampled, LastIsNow
<1>5. CASE ~h.rst
  <2>1. PICK c : c = TakeReadData(AddRead(MatchResponse(AddWrite(PushBeat(an, h), h), h), h), h)
    OBVIOUS
  <2>2. DOMAIN c = AnFields /\ c.samples = an.samples
    BY <2>1, SamplesStay
  <2>3. PICK s : s = [time |-> t + 1, wr |-> c.ow, rd |-> c.or, wrById |-> c.owId, rdById |-> c.orId]
    OBVIOUS
  <2>4. an' = [c EXCEPT !.samples = Append(an.samples, s)]
    <3>1. an' = Sample(c)
      BY <1>1, <1>5, <2>1 DEF Processed
    <3> QED
      BY <2>2, <2>3, <3>1 DEF Sample
  <2>5. an'.samples = Append(an.samples, s) /\ an'.ow = c.ow /\ an'.or = c.or /\ an'.owId = c.owId /\ an'.orId = c.orId
    BY <2>2, <2>4 DEF AnFields
  <2>6. s = CountersNow(an', t + 1)
    BY <2>3, <2>5 DEF CountersNow
  <2>7. s \in OneSample /\ s.time = t + 1
    BY <2>3, <2>5 DEF OneSample
  <2>8. PICK q : q = Append(an.samples, s)
    OBVIOUS
  <2>9. q \in Seq(OneSample) /\ Len(q) = n + 1 /\ DOMAIN q = 1 .. n + 1 /\ q[n + 1] = s /\ \A i \in 1 .. n : q[i] = an.samples[i]
    BY <1>2, <2>7, <2>8
  <2>10. \A i \in 1 .. n + 1 : i = n + 1 \/ i \in 1 .. n
    OBVIOUS
  <2>11. ASSUME NEW i \in 1 .. n + 1 PROVE q[i].time <= t + 1
    BY <1>3, <2>7, <2>9, <2>10
  <2>12. ASSUME NEW i \in 1 .. n + 1, NEW j \in 1 .. n + 1, i < j PROVE q[i].time < q[j].time
    <3>1. i \in 1 .. n
      BY <2>12
    <3>2. CASE j = n + 1
      <4>1. q[j].time = t + 1 /\ q[i].time = an.samples[i].time
        BY <2>7, <2>9, <3>1, <3>2
      <4>2. an.samples[i].time \in Nat /\ an.samples[i].time <= t
        BY <1>3, <3>1
      <4> QED
        BY <4>1, <4>2
    <3>3. CASE j \in 1 .. n
      BY <1>2, <2>9, <2>12, <3>1, <3>3 DEF Sampled
    <3> QED
      BY <2>10, <3>2, <3>3
  <2>13. Sampled(q, t + 1)
    BY <2>9, <2>11, <2>12 DEF Sampled
  <2>14. an'.samples = q
    BY <2>5, <2>8
  <2>15. LastIsNow(an', t + 1)
    BY <2>6, <2>9, <2>14 DEF LastIsNow
  <2> QED
    BY <1>1, <2>13, <2>14, <2>15
<1> QED
  BY <1>4, <1>5

\* The result: the transactions in the order of their addresses, none of which is after
\* its response, and the places by response time.
ResultFits(r, time) ==
  /\ r.all \in Seq(Transaction) /\ r.byResp = ByResp(r.all)
  /\ \A i \in DOMAIN r.all : r.all[i].addr <= r.all[i].resp /\ r.all[i].resp <= time
  /\ \A i, j \in DOMAIN r.all : i < j => r.all[i].addr <= r.all[j].addr

LEMMA FinishFits ==
  ASSUME NEW done \in Seq(Transaction), NEW time,
         \A i \in DOMAIN done : done[i].addr <= done[i].resp /\ done[i].resp <= time
  PROVE  ResultFits([all |-> SortedByAddr(done), byResp |-> ByResp(SortedByAddr(done))], time)
<1>1. PICK n \in Nat : n = Len(done) /\ DOMAIN done = 1 .. n
  OBVIOUS
<1>2. PICK key : key = [i \in 1 .. n |-> done[i].addr]
  OBVIOUS
<1>3. key \in [1 .. n -> Int]
  <2>1. \A i \in 1 .. n : done[i] \in Transaction
    BY <1>1
  <2>2. \A i \in 1 .. n : done[i].addr \in Nat
    BY <2>1 DEF Transaction
  <2>3. \A i \in 1 .. n : done[i].addr \in Int
    BY <2>2
  <2> QED
    BY <1>2, <2>3
<1>4. PICK p : IsSorting(p, SortedBy(done, key), done, n) /\ InKeyOrder(p, key, n)
  BY <1>1, <1>3, SortedFacts
<1>5. PICK all : all = SortedByAddr(done) /\ all = [k \in 1 .. n |-> done[p[k]]]
  BY <1>1, <1>2, <1>4 DEF SortedByAddr, IsSorting
<1>6. \A k \in 1 .. n : p[k] \in 1 .. n /\ all[k] = done[p[k]]
  BY <1>4, <1>5 DEF IsSorting
<1>7. all \in Seq(Transaction) /\ DOMAIN all = 1 .. n
  BY <1>5, SortedByAddrTyped
<1>8. \A i \in 1 .. n : all[i].addr <= all[i].resp /\ all[i].resp <= time
  BY <1>1, <1>6
<1>9. \A i, j \in 1 .. n : i < j => all[i].addr <= all[j].addr
  BY <1>2, <1>4, <1>6 DEF InKeyOrder
<1> QED
  BY <1>5, <1>7, <1>8, <1>9 DEF ResultFits

QueryInv ==
  /\ Sampled(an.samples, t)
  /\ result = None => LastIsNow(an, t)
  /\ result # None => ResultFits(result, t) /\ bus.wrote \subseteq Txn /\ \A d \in bus.did : ~d.write

LEMMA QueryStep == AxiInv /\ AxiInv' /\ QueryInv /\ [Next]_vars => QueryInv'
<1> SUFFICES ASSUME AxiInv, AxiInv', QueryInv, [Next]_vars PROVE QueryInv'
  OBVIOUS
<1>1. CASE Edge
  <2>1. result = None /\ result' = None
    BY <1>1 DEF Edge
  <2>2. t \in Nat /\ DOMAIN an = AnFields /\ WritesFollow(bus', an', t') /\ ReadsFollow(bus', an', t')
    BY <2>1 DEF AxiInv, Follows
  <2>3. an'.ow \in Nat /\ an'.owId \in [TxnIds -> Nat]
    BY <2>2 DEF WritesFollow
  <2>4. an'.or \in Nat /\ an'.orId \in [TxnIds -> Nat]
    <3>1. bus'.reads \in Seq(PendingRead)
      BY <2>2 DEF ReadsFollow, ReadsTied, Queued
    <3> QED
      BY <2>2, <3>1 DEF ReadsFollow, ReadsTied
  <2>5. Sampled(an'.samples, t') /\ LastIsNow(an', t')
    BY <1>1, <2>2, <2>3, <2>4, EdgeSamples DEF QueryInv
  <2> QED
    BY <2>1, <2>5 DEF QueryInv
<1>2. CASE Finish
  <2>1. PICK all, done : all = SortedByAddr(done) /\ done = an.writes \o an.reads
    OBVIOUS
  <2>2. result = None /\ result' = [all |-> all, byResp |-> ByResp(all)] /\ bus' = bus /\ t' = t
    BY <1>2, <2>1 DEF Finish
  <2>3. PICK w, r : w = SortedByAddr(an.writes) /\ r = SortedByAddr(an.reads)
    OBVIOUS
  <2>4. an' = [Fresh EXCEPT !.writes = w, !.reads = r, !.samples = an.samples]
    BY <1>2, <2>3 DEF Finish
  <2>5. an'.samples = an.samples
    BY <2>4 DEF Fresh
  <2>6. IsReported(an.writes, bus.wrote) /\ WritesFollow(bus, an, t) /\ ReadsFollow(bus, an, t) /\ Follows(bus, an, t, t) /\ t \in Nat
    BY <2>2 DEF AxiInv
  <2>7. AreAll(an.reads, bus.did) /\ \A i \in DOMAIN an.reads : ~an.reads[i].write /\ an.reads[i].resp <= t
    BY <2>6 DEF ReadsFollow, ReadsTied
  <2>8. an.reads \in Seq(Transaction) /\ \A i \in DOMAIN an.reads : an.reads[i].addr <= an.reads[i].resp
    BY <2>7 DEF AreAll
  <2>9. an.writes \in Seq(Transaction)
    <3>1. \A x \in Txn : x \in Transaction
      BY DEF Txn, Transaction
    <3>2. an.writes \in Seq(Txn)
      BY <2>6 DEF IsReported
    <3> QED
      BY <3>1, <3>2
  <2>10. \A i \in DOMAIN an.writes : an.writes[i].addr <= an.writes[i].resp /\ an.writes[i].resp <= t
    BY <2>6 DEF WritesFollow
  <2>11. PICK n \in Nat, m \in Nat : n = Len(an.writes) /\ m = Len(an.reads)
    BY <2>8, <2>9
  <2>12. done \in Seq(Transaction) /\ DOMAIN done = 1 .. n + m
    BY <2>1, <2>8, <2>9, <2>11
  <2>13. ASSUME NEW i \in 1 .. n + m PROVE done[i].addr <= done[i].resp /\ done[i].resp <= t
    <3>1. CASE i <= n
      <4>1. i \in DOMAIN an.writes /\ done[i] = an.writes[i]
        BY <2>1, <2>8, <2>9, <2>11, <3>1
      <4> QED
        BY <2>10, <4>1
    <3>2. CASE ~(i <= n)
      <4>1. i - n \in 1 .. m /\ i > n
        BY <3>2
      <4>2. DOMAIN an.reads = 1 .. m
        BY <2>8, <2>11
      <4>3. done[i] = an.reads[i - n]
        BY <2>1, <2>8, <2>9, <2>11, <4>1
      <4> QED
        BY <2>7, <2>8, <4>1, <4>2, <4>3
    <3> QED
      BY <3>1, <3>2
  <2>14. ResultFits(result', t')
    BY <2>1, <2>2, <2>12, <2>13, FinishFits
  <2>15. \A d \in bus.did : ~d.write
    BY <2>7 DEF AreAll
  <2>16. bus.wrote \subseteq Txn
    BY <2>6 DEF Follows
  <2>17. result' # None
    BY <2>1, <2>2, <2>6, <2>8, ResultIsSome
  <2> QED
    BY <2>2, <2>5, <2>14, <2>15, <2>16, <2>17 DEF QueryInv
<1>3. CASE Done
  BY <1>3 DEF Done, QueryInv, vars
<1>4. CASE UNCHANGED vars
  BY <1>4 DEF QueryInv, vars
<1> QED
  BY <1>1, <1>2, <1>3, <1>4 DEF Next

LEMMA QueryInit == Init => QueryInv
<1> SUFFICES ASSUME Init PROVE QueryInv
  OBVIOUS
<1>1. PICK e : e = << >>
  OBVIOUS
<1>2. an.samples = e /\ t = 0 /\ result = None
  BY <1>1 DEF Init, Fresh
<1>3. e \in Seq(OneSample) /\ DOMAIN e = {}
  BY <1>1
<1> QED
  BY <1>2, <1>3 DEF QueryInv, Sampled, LastIsNow

(***************************************************************************)
(* Windows: what lies in a window is a stretch of an index, the two        *)
(* stretches are put together with each transaction once, and sorting and  *)
(* cutting leave a listing of some of them.                                *)
(***************************************************************************)
\* The first place from which on something holds.
IsRest(Q, n) == Q \subseteq 1 .. n /\ \A i, j \in 1 .. n : i \in Q /\ i <= j => j \in Q
RestBegins(Q, n, k, f) == (k = 0 => f = n) /\ (k # 0 => k = f + 1) /\ \A j \in 1 .. n : j \in Q <=> f < j
LEMMA FirstOfRest ==
  ASSUME NEW n \in Nat, NEW Q, IsRest(Q, n), NEW k, k = IF Q # {} THEN Min(Q) ELSE 0
  PROVE  \E f \in 0 .. n : RestBegins(Q, n, k, f)
<1>1. CASE Q = {}
  <2>1. n \in 0 .. n /\ \A j \in 1 .. n : ~(n < j)
    OBVIOUS
  <2> QED
    BY <1>1, <2>1 DEF RestBegins
<1>2. CASE Q # {}
  <2>1. k \in 1 .. n /\ k \in Q /\ \A i \in Q : k <= i
    BY <1>2, MinMax DEF IsRest
  <2>2. PICK f \in 0 .. n : k = f + 1
    BY <2>1
  <2>3. \A j \in 1 .. n : j \in Q <=> f < j
    BY <2>1, <2>2 DEF IsRest
  <2> QED
    BY <2>1, <2>2, <2>3 DEF RestBegins
<1> QED
  BY <1>1, <1>2

IsWindow(w, s, time, begin, end, off) ==
  /\ off \in Nat /\ off + Len(w) <= Len(s)
  /\ \A k \in DOMAIN w : w[k] = s[off + k]
  /\ \A j \in DOMAIN s : begin <= time[s[j]] /\ time[s[j]] <= end <=> off < j /\ j <= off + Len(w)
LEMMA WindowFacts ==
  ASSUME NEW S, NEW s \in Seq(S), NEW time, \A x \in S : time[x] \in Nat, NEW begin \in Int, NEW end \in Int,
         \A i, j \in DOMAIN s : i < j => time[s[i]] <= time[s[j]]
  PROVE  Window(s, time, begin, end) \in Seq(S) /\ \E off : IsWindow(Window(s, time, begin, end), s, time, begin, end, off)
<1>1. PICK n \in Nat : n = Len(s) /\ DOMAIN s = 1 .. n
  OBVIOUS
<1>2. PICK key : key = [j \in 1 .. n |-> time[s[j]]]
  OBVIOUS
<1>3. \A j \in 1 .. n : key[j] = time[s[j]] /\ key[j] \in Nat
  <2>1. \A j \in 1 .. n : s[j] \in S
    BY <1>1
  <2> QED
    BY <1>2, <2>1
<1>4. \A i, j \in 1 .. n : i <= j => key[i] <= key[j]
  <2>1. SUFFICES ASSUME NEW i \in 1 .. n, NEW j \in 1 .. n, i <= j PROVE key[i] <= key[j]
    OBVIOUS
  <2>2. CASE i = j
    BY <1>3, <2>2
  <2>3. CASE i < j
    BY <1>1, <1>3, <2>3
  <2> QED
    BY <2>1, <2>2, <2>3
<1>5. PICK F, P : F = {j \in 1 .. n : key[j] >= begin} /\ P = {j \in 1 .. n : key[j] > end}
  OBVIOUS
<1>6. PICK from, past : from = SelectInSeq(s, LAMBDA i : time[i] >= begin) /\ past = SelectInSeq(s, LAMBDA i : time[i] > end)
  OBVIOUS
<1>7. from = IF F # {} THEN Min(F) ELSE 0
  <2>1. F = {j \in 1 .. Len(s) : time[s[j]] >= begin}
    BY <1>1, <1>3, <1>5
  <2> QED
    BY <1>6, <2>1 DEF SelectInSeq
<1>8. past = IF P # {} THEN Min(P) ELSE 0
  <2>1. P = {j \in 1 .. Len(s) : time[s[j]] > end}
    BY <1>1, <1>3, <1>5
  <2> QED
    BY <1>6, <2>1 DEF SelectInSeq
<1>9. F \in SUBSET (1 .. n) /\ P \in SUBSET (1 .. n)
  BY <1>5
<1>10. IsRest(F, n)
  <2>1. SUFFICES ASSUME NEW i \in 1 .. n, NEW j \in 1 .. n, i \in F, i <= j PROVE key[j] >= begin
    BY <1>5, <1>9 DEF IsRest
  <2>2. key[i] >= begin /\ key[i] <= key[j] /\ key[i] \in Nat /\ key[j] \in Nat
    BY <1>3, <1>4, <1>5, <2>1
  <2> QED
    BY <2>2
<1>11. IsRest(P, n)
  <2>1. SUFFICES ASSUME NEW i \in 1 .. n, NEW j \in 1 .. n, i \in P, i <= j PROVE key[j] > end
    BY <1>5, <1>9 DEF IsRest
  <2>2. key[i] > end /\ key[i] <= key[j] /\ key[i] \in Nat /\ key[j] \in Nat
    BY <1>3, <1>4, <1>5, <2>1
  <2> QED
    BY <2>2
<1>12. PICK low \in 0 .. n : (from = 0 => low = n) /\ (from # 0 => from = low + 1) /\ \A j \in 1 .. n : j \in F <=> low < j
  <2>1. \E low \in 0 .. n : RestBegins(F, n, from, low)
    BY <1>7, <1>10, FirstOfRest
  <2> QED
    BY <2>1 DEF RestBegins
<1>13. PICK high \in 0 .. n : (past = 0 => high = n) /\ (past # 0 => past = high + 1) /\ \A j \in 1 .. n : j \in P <=> high < j
  <2>1. \E high \in 0 .. n : RestBegins(P, n, past, high)
    BY <1>8, <1>11, FirstOfRest
  <2> QED
    BY <2>1 DEF RestBegins
<1>14. PICK len \in 0 .. n : len = (IF high > low THEN high - low ELSE 0) /\ low + len <= n
  <2>1. CASE high > low
    <3>1. high - low \in 0 .. n /\ low + (high - low) <= n
      BY <2>1
    <3> QED
      BY <2>1, <3>1
  <2>2. CASE ~(high > low)
    BY <2>2
  <2> QED
    BY <2>1, <2>2
<1>15. PICK w : w = Window(s, time, begin, end)
  OBVIOUS
<1>16. w = IF from = 0 THEN << >> ELSE SubSeq(s, from, IF past = 0 THEN n ELSE past - 1)
  BY <1>1, <1>6, <1>15 DEF Window, Stretch
<1>17. w \in Seq(S) /\ Len(w) = len /\ \A k \in 1 .. len : w[k] = s[low + k]
  <2>1. CASE from = 0
    <3>1. len = 0 /\ w = << >>
      BY <1>12, <1>14, <1>16, <2>1
    <3> QED
      BY <3>1
  <2>2. CASE from # 0
    <3>1. w = SubSeq(s, low + 1, high)
      <4>1. (IF past = 0 THEN n ELSE past - 1) = high
        BY <1>13
      <4> QED
        BY <1>12, <1>16, <2>2, <4>1
    <3>2. CASE high > low
      <4>1. low + 1 \in 1 .. n /\ high \in 1 .. n /\ high - (low + 1) + 1 = len
        BY <1>14, <3>2
      <4> QED
        BY <1>1, <1>14, <3>1, <4>1
    <3>3. CASE ~(high > low)
      <4>1. len = 0 /\ low + 1 > high
        BY <1>14, <3>3
      <4>2. w = << >>
        BY <1>1, <3>1, <4>1
      <4> QED
        BY <4>1, <4>2
    <3> QED
      BY <3>2, <3>3
  <2> QED
    BY <2>1, <2>2
<1>18. ASSUME NEW j \in 1 .. n PROVE begin <= time[s[j]] /\ time[s[j]] <= end <=> low < j /\ j <= low + len
  <2>1. key[j] = time[s[j]] /\ key[j] \in Nat
    BY <1>3
  <2>2. begin <= key[j] <=> low < j
    BY <1>5, <1>12, <2>1
  <2>3. key[j] <= end <=> j <= high
    BY <1>5, <1>13, <2>1
  <2> QED
    BY <1>14, <2>1, <2>2, <2>3
<1>19. IsWindow(w, s, time, begin, end, low)
  <2>1. low \in Nat /\ low + Len(w) <= Len(s)
    BY <1>1, <1>14, <1>17
  <2>2. DOMAIN w = 1 .. len
    BY <1>17
  <2>3. \A k \in DOMAIN w : w[k] = s[low + k]
    BY <1>17, <2>2
  <2>4. \A j \in DOMAIN s : begin <= time[s[j]] /\ time[s[j]] <= end <=> low < j /\ j <= low + Len(w)
    BY <1>1, <1>17, <1>18
  <2> QED
    BY <2>1, <2>3, <2>4 DEF IsWindow
<1> QED
  BY <1>15, <1>17, <1>19

\* An answer in the making: some of the transactions that are due, each once, with the
\* time that matched.
Found == [txn : Nat, match : Nat]
Shows(found, due, begin) ==
  /\ found \in Seq(Found)
  /\ \A k \in DOMAIN found : found[k].txn \in due /\ found[k].match = Matched(found[k].txn, begin)
  /\ \A k, l \in DOMAIN found : found[k].txn = found[l].txn => k = l
IsWhole(found, due) == \A i \in due : \E k \in DOMAIN found : found[k].txn = i
ByTime(found) == \A k, l \in DOMAIN found : k < l => found[k].match <= found[l].match

LEMMA FoundFields ==
  ASSUME NEW found \in Seq(Found), NEW k \in DOMAIN found
  PROVE  found[k] \in Found /\ found[k].txn \in Nat /\ found[k].match \in Nat
<1>1. found[k] \in Found
  OBVIOUS
<1> QED
  BY <1>1 DEF Found

\* A limit keeps the beginning.
LEMMA CutIsStart ==
  ASSUME NEW S, NEW s \in Seq(S), NEW limit \in Nat \cup {NoLimit}
  PROVE  LET over == limit # NoLimit /\ limit < Len(s) IN
         /\ Cut(s, limit) \in Seq(S) /\ Len(Cut(s, limit)) = IF over THEN limit ELSE Len(s)
         /\ \A k \in DOMAIN Cut(s, limit) : k \in DOMAIN s /\ Cut(s, limit)[k] = s[k]
         /\ Cut(s, limit) # s <=> over
<1>1. PICK n \in Nat : n = Len(s) /\ DOMAIN s = 1 .. n
  OBVIOUS
<1>2. CASE limit # NoLimit /\ limit < n
  <2>1. limit \in Nat /\ limit \in 0 .. n
    BY <1>2
  <2>2. PICK w : w = SubSeq(s, 1, limit)
    OBVIOUS
  <2>3. w \in Seq(S) /\ Len(w) = limit /\ \A k \in 1 .. limit : w[k] = s[k]
    BY <1>1, <2>1, <2>2
  <2>4. Cut(s, limit) = w
    BY <1>1, <1>2, <2>1, <2>2 DEF Cut
  <2>5. DOMAIN w = 1 .. limit /\ \A k \in 1 .. limit : k \in 1 .. n
    BY <2>1, <2>3
  <2>6. w # s
    BY <1>1, <1>2, <2>1, <2>3
  <2> QED
    BY <1>1, <1>2, <2>3, <2>4, <2>5, <2>6
<1>3. CASE ~(limit # NoLimit /\ limit < n)
  <2>1. Cut(s, limit) = s
    BY <1>1, <1>3 DEF Cut, NoLimit
  <2> QED
    BY <1>1, <1>3, <2>1
<1> QED
  BY <1>1, <1>2, <1>3

LEMMA CutShows ==
  ASSUME NEW found, NEW due, NEW begin, Shows(found, due, begin), NEW limit \in Nat \cup {NoLimit}
  PROVE  /\ Shows(Cut(found, limit), due, begin)
         /\ ByTime(found) => ByTime(Cut(found, limit))
<1>1. PICK w : w = Cut(found, limit)
  OBVIOUS
<1>2. w \in Seq(Found) /\ \A k \in DOMAIN w : k \in DOMAIN found /\ w[k] = found[k]
  BY <1>1, CutIsStart DEF Shows
<1> QED
  BY <1>1, <1>2 DEF Shows, ByTime

\* Sorting by the time that matched.
LEMMA ByMatchShows ==
  ASSUME NEW found, NEW due, NEW begin, Shows(found, due, begin)
  PROVE  /\ Shows(ByMatch(found), due, begin) /\ ByTime(ByMatch(found)) /\ Len(ByMatch(found)) = Len(found)
         /\ IsWhole(found, due) => IsWhole(ByMatch(found), due)
<1>1. PICK n \in Nat : n = Len(found) /\ DOMAIN found = 1 .. n /\ found \in Seq(Found)
  BY DEF Shows
<1>2. PICK key : key = [i \in 1 .. n |-> found[i].match]
  OBVIOUS
<1>3. \A i \in 1 .. n : found[i].match \in Int
  BY <1>1, FoundFields
<1>4. key \in [1 .. n -> Int]
  BY <1>2, <1>3
<1>5. PICK p : IsSorting(p, SortedBy(found, key), found, n) /\ InKeyOrder(p, key, n)
  BY <1>1, <1>4, SortedFacts
<1>6. PICK w : w = ByMatch(found) /\ w = [k \in 1 .. n |-> found[p[k]]]
  BY <1>1, <1>2, <1>5 DEF ByMatch, IsSorting
<1>7. p \in [1 .. n -> 1 .. n] /\ \A k, l \in 1 .. n : p[k] = p[l] => k = l
  BY <1>5 DEF IsSorting
<1>8. \A k \in 1 .. n : p[k] \in 1 .. n /\ w[k] = found[p[k]]
  BY <1>6, <1>7
<1>9. w \in Seq(Found) /\ DOMAIN w = 1 .. n /\ Len(w) = n
  <2>1. \A k \in 1 .. n : w[k] \in Found
    BY <1>1, <1>8
  <2> QED
    BY <1>6, <2>1
<1>10. Shows(w, due, begin)
  <2>1. \A k \in 1 .. n : w[k].txn \in due /\ w[k].match = Matched(w[k].txn, begin)
    BY <1>1, <1>8 DEF Shows
  <2>2. ASSUME NEW k \in 1 .. n, NEW l \in 1 .. n, w[k].txn = w[l].txn PROVE k = l
    <3>1. p[k] = p[l]
      BY <1>1, <1>8, <2>2 DEF Shows
    <3> QED
      BY <1>7, <3>1
  <2> QED
    BY <1>9, <2>1, <2>2 DEF Shows
<1>11. ByTime(w)
  <2>1. ASSUME NEW k \in 1 .. n, NEW l \in 1 .. n, k < l PROVE w[k].match <= w[l].match
    <3>1. key[p[k]] <= key[p[l]]
      BY <1>5, <2>1 DEF InKeyOrder
    <3> QED
      BY <1>2, <1>8, <3>1
  <2> QED
    BY <1>9, <2>1 DEF ByTime
<1>12. ASSUME IsWhole(found, due) PROVE IsWhole(w, due)
  <2>1. p \in Lists!Surjection(1 .. n, 1 .. n)
    <3>1. p \in Lists!Injection(1 .. n, 1 .. n)
      BY <1>7 DEF Lists!Injection, Lists!IsInjective
    <3>2. 1 .. n \in SUBSET (1 .. n)
      OBVIOUS
    <3> QED
      BY <3>1, <3>2, PlacesAreFinite, Lists!FS_Injection
  <2>2. ASSUME NEW i \in due PROVE \E k \in 1 .. n : w[k].txn = i
    <3>1. PICK m \in 1 .. n : found[m].txn = i
      BY <1>1, <1>12 DEF IsWhole
    <3>2. PICK k \in 1 .. n : p[k] = m
      BY <2>1 DEF Lists!Surjection
    <3> QED
      BY <1>8, <3>1, <3>2
  <2> QED
    BY <1>9, <2>2 DEF IsWhole
<1> QED
  BY <1>1, <1>6, <1>9, <1>10, <1>11, <1>12

\* How many they are.
LEMMA LenShows ==
  ASSUME NEW n \in Nat, NEW due \in SUBSET (1 .. n), NEW begin, NEW found, Shows(found, due, begin)
  PROVE  /\ TxnsOf(found) \subseteq due /\ Cardinality(TxnsOf(found)) = Len(found)
         /\ Cardinality(due) \in Nat /\ Len(found) \in Nat /\ Len(found) <= Cardinality(due)
         /\ IsWhole(found, due) => TxnsOf(found) = due /\ Len(found) = Cardinality(due)
<1>1. PICK m \in Nat : m = Len(found) /\ DOMAIN found = 1 .. m
  BY DEF Shows
<1>2. PICK A : A = TxnsOf(found)
  OBVIOUS
<1>3. PICK f : f = [k \in 1 .. m |-> found[k].txn]
  OBVIOUS
<1>4. (\A k \in 1 .. m : f[k] \in A) /\ \A a \in A : \E k \in 1 .. m : f[k] = a
  BY <1>1, <1>2, <1>3 DEF TxnsOf, ToSet
<1>5. \A k, l \in 1 .. m : f[k] = f[l] => k = l
  BY <1>1, <1>3 DEF Shows
<1>6. f \in [1 .. m -> A]
  BY <1>3, <1>4
<1>7. f \in Lists!Bijection(1 .. m, A)
  BY <1>4, <1>5, <1>6 DEF Lists!Bijection, Lists!Injection, Lists!Surjection, Lists!IsInjective
<1>8. Lists!IsFiniteSet(1 .. m) /\ Lists!Cardinality(1 .. m) = m
  <2>1. 1 \in Int /\ m \in Int /\ (IF 1 > m THEN 0 ELSE m - 1 + 1) = m
    OBVIOUS
  <2> QED
    BY <2>1, Lists!FS_Interval
<1>9. Lists!IsFiniteSet(A) /\ Lists!Cardinality(A) = m
  BY <1>7, <1>8, Lists!FS_Bijection DEF Lists!ExistsBijection
<1>10. \A a \in A : a \in due
  BY <1>1, <1>3, <1>4 DEF Shows
<1>11. Lists!IsFiniteSet(due) /\ Lists!Cardinality(due) \in Nat
  BY PlacesAreFinite
<1>12. m <= Lists!Cardinality(due)
  BY <1>9, <1>10, <1>11, Lists!FS_Subset
<1>13. Cardinality(A) = Lists!Cardinality(A) /\ Cardinality(due) = Lists!Cardinality(due)
  BY DEF Cardinality, Lists!Cardinality
<1>14. IsWhole(found, due) => A = due
  <2>1. SUFFICES ASSUME IsWhole(found, due) PROVE \A i \in due : i \in A
    BY <1>10
  <2>2. \A i \in due : \E k \in 1 .. m : f[k] = i
    BY <1>1, <1>3, <2>1 DEF IsWhole
  <2> QED
    BY <1>4, <2>2
<1> QED
  BY <1>1, <1>2, <1>9, <1>10, <1>11, <1>12, <1>13, <1>14

\* What is picked, of any list.
LEMMA ChosenFacts ==
  ASSUME NEW S, NEW w \in Seq(S), NEW Q \in SUBSET DOMAIN w, NEW c, c = Picked(w, Q)
  PROVE  /\ c \in Seq(S) /\ \A k \in DOMAIN c : \E i \in Q : c[k] = w[i]
         /\ \A i \in Q : \E k \in DOMAIN c : c[k] = w[i]
         /\ \A k, l \in DOMAIN c : k # l => \E i, j \in Q : i # j /\ c[k] = w[i] /\ c[l] = w[j]
<1>1. c = Lists!Picked(w, Q)
  BY Zenon DEF Picked, Lists!Picked, Nth, Lists!Nth, Rank, Lists!Rank, Cardinality, Lists!Cardinality
<1>2. c \in Seq(S)
  BY <1>1, Lists!PickedFacts
<1>3. \A k \in DOMAIN c : \E i \in Q : c[k] = w[i]
  BY <1>1, Lists!PickedFacts
<1>4. \A i \in Q : \E k \in DOMAIN c : c[k] = w[i]
  BY <1>1, Lists!PickedFacts
<1>5. \A k, l \in DOMAIN c : k # l => \E i, j \in Q : i # j /\ c[k] = w[i] /\ c[l] = w[j]
  BY <1>1, Lists!PickedFacts
<1> QED
  BY <1>2, <1>3, <1>4, <1>5

\* Those of one direction.
LEMMA DirectionShows ==
  ASSUME NEW found, NEW due, NEW begin, Shows(found, due, begin), NEW filter,
         NEW some, some = {i \in due : OfDirection(result.all[i], filter)}
  PROVE  /\ Shows(OfOneDirection(result, found, filter), some, begin)
         /\ ByTime(found) => ByTime(OfOneDirection(result, found, filter))
         /\ IsWhole(found, due) => IsWhole(OfOneDirection(result, found, filter), some)
         /\ filter = "all" => Len(OfOneDirection(result, found, filter)) = Len(found)
<1>1. PICK m \in Nat : m = Len(found) /\ DOMAIN found = 1 .. m /\ found \in Seq(Found)
  BY DEF Shows
<1>2. PICK Q \in SUBSET (1 .. m) : Q = {k \in DOMAIN found : OfDirection(result.all[found[k].txn], filter)}
  BY <1>1
<1>3. PICK w : w = Picked(found, Q)
  OBVIOUS
<1>4. w = Lists!Picked(found, Q)
  BY <1>3, Zenon DEF Picked, Lists!Picked, Nth, Lists!Nth, Rank, Lists!Rank, Cardinality, Lists!Cardinality
<1>5. w = OfOneDirection(result, found, filter)
  BY <1>2, <1>3 DEF OfOneDirection
<1>6. Q \in SUBSET Nat /\ Lists!IsFiniteSet(Q) /\ Lists!Cardinality(Q) \in Nat
  BY PlacesAreFinite
<1>7. PICK q \in Nat : q = Lists!Cardinality(Q)
  BY <1>6
<1>8. PICK at : at = [k \in 1 .. q |-> Lists!Nth(Q, k)]
  OBVIOUS
<1>9. \A k \in 1 .. q : at[k] \in Q /\ at[k] \in 1 .. m
  BY <1>6, <1>7, <1>8, Lists!NthFacts
<1>10. \A i \in Q : \E k \in 1 .. q : at[k] = i
  BY <1>6, <1>7, <1>8, Lists!NthFacts
<1>11. \A k, l \in 1 .. q : at[k] = at[l] => k = l
  BY <1>6, <1>7, <1>8, Lists!NthFacts
<1>12. \A k, l \in 1 .. q : k < l => at[k] < at[l]
  BY <1>6, <1>7, <1>8, Lists!NthGrows
<1>13. w = [k \in 1 .. q |-> found[Lists!Nth(Q, k)]]
  BY <1>4, <1>7 DEF Lists!Picked
<1>14. \A k \in 1 .. q : w[k] = found[at[k]]
  BY <1>8, <1>13
<1>15. w \in Seq(Found) /\ DOMAIN w = 1 .. q /\ Len(w) = q
  <2>1. \A k \in 1 .. q : w[k] \in Found
    BY <1>1, <1>9, <1>14
  <2> QED
    BY <1>13, <2>1
<1>16. Shows(w, some, begin)
  <2>1. ASSUME NEW k \in 1 .. q PROVE w[k].txn \in some /\ w[k].match = Matched(w[k].txn, begin)
    <3>1. found[at[k]].txn \in due /\ found[at[k]].match = Matched(found[at[k]].txn, begin)
      BY <1>1, <1>9 DEF Shows
    <3>2. OfDirection(result.all[found[at[k]].txn], filter)
      BY <1>2, <1>9
    <3> QED
      BY <1>14, <3>1, <3>2
  <2>2. ASSUME NEW k \in 1 .. q, NEW l \in 1 .. q, w[k].txn = w[l].txn PROVE k = l
    <3>1. at[k] = at[l]
      BY <1>1, <1>9, <1>14, <2>2 DEF Shows
    <3> QED
      BY <1>11, <3>1
  <2> QED
    BY <1>15, <2>1, <2>2 DEF Shows
<1>17. ASSUME ByTime(found) PROVE ByTime(w)
  <2>1. \A k, l \in 1 .. q : k < l => found[at[k]].match <= found[at[l]].match
    BY <1>1, <1>9, <1>12, <1>17 DEF ByTime
  <2> QED
    BY <1>14, <1>15, <2>1 DEF ByTime
<1>18. ASSUME IsWhole(found, due) PROVE IsWhole(w, some)
  <2>1. ASSUME NEW i \in some PROVE \E k \in 1 .. q : w[k].txn = i
    <3>1. PICK j \in 1 .. m : found[j].txn = i
      BY <1>1, <1>18 DEF IsWhole
    <3>2. j \in Q
      BY <1>1, <1>2, <3>1
    <3>3. PICK k \in 1 .. q : at[k] = j
      BY <1>10, <3>2
    <3> QED
      BY <1>14, <3>1, <3>3
  <2> QED
    BY <1>15, <2>1 DEF IsWhole
<1>19. ASSUME filter = "all" PROVE q = m
  <2>1. Q = 1 .. m
    BY <1>1, <1>2, <1>19 DEF OfDirection
  <2>2. 1 \in Int /\ m \in Int /\ (IF 1 > m THEN 0 ELSE m - 1 + 1) = m
    OBVIOUS
  <2> QED
    BY <1>7, <2>1, <2>2, Lists!FS_Interval
<1> QED
  BY <1>1, <1>5, <1>15, <1>16, <1>17, <1>18, <1>19

\* A list of places that has each once.
OnceAll(w, I) ==
  /\ w \in Seq(I)
  /\ \A k, l \in DOMAIN w : w[k] = w[l] => k = l
  /\ \A i \in I : \E k \in DOMAIN w : w[k] = i

LEMMA WindowOnce ==
  ASSUME NEW I, NEW s, OnceAll(s, I), NEW time, \A x \in I : time[x] \in Nat, NEW begin \in Int, NEW end \in Int,
         \A i, j \in DOMAIN s : i < j => time[s[i]] <= time[s[j]]
  PROVE  OnceAll(Window(s, time, begin, end), {x \in I : begin <= time[x] /\ time[x] <= end})
<1>1. PICK n \in Nat : n = Len(s) /\ DOMAIN s = 1 .. n /\ s \in Seq(I)
  BY DEF OnceAll
<1>2. PICK w : w = Window(s, time, begin, end)
  OBVIOUS
<1>3. w \in Seq(I) /\ \E off : IsWindow(w, s, time, begin, end, off)
  BY <1>1, <1>2, WindowFacts
<1>4. PICK off : IsWindow(w, s, time, begin, end, off)
  BY <1>3
<1>5. PICK m \in Nat : m = Len(w) /\ DOMAIN w = 1 .. m
  BY <1>3
<1>6. off \in Nat /\ off + m <= n /\ \A k \in 1 .. m : w[k] = s[off + k]
  BY <1>1, <1>4, <1>5 DEF IsWindow
<1>7. \A j \in 1 .. n : begin <= time[s[j]] /\ time[s[j]] <= end <=> off < j /\ j <= off + m
  BY <1>1, <1>4, <1>5 DEF IsWindow
<1>8. \A k \in 1 .. m : off + k \in 1 .. n /\ off < off + k /\ off + k <= off + m
  BY <1>6
<1>9. PICK W : W = {x \in I : begin <= time[x] /\ time[x] <= end}
  OBVIOUS
<1>10. w \in Seq(W)
  <2>1. \A k \in 1 .. m : w[k] \in W
    <3>1. \A k \in 1 .. m : w[k] \in I
      BY <1>3, <1>5
    <3>2. \A k \in 1 .. m : begin <= time[w[k]] /\ time[w[k]] <= end
      BY <1>6, <1>7, <1>8
    <3> QED
      BY <1>9, <3>1, <3>2
  <2> QED
    BY <1>3, <1>5, <2>1
<1>11. ASSUME NEW k \in 1 .. m, NEW l \in 1 .. m, w[k] = w[l] PROVE k = l
  <2>1. PICK i \in 1 .. n, j \in 1 .. n : i = off + k /\ j = off + l
    BY <1>8
  <2>2. s[i] = s[j]
    BY <1>6, <1>11, <2>1
  <2>3. i = j
    BY <1>1, <2>1, <2>2 DEF OnceAll
  <2>4. off + k = off + l
    BY <2>1, <2>3
  <2>5. off \in Nat
    BY <1>6
  <2> QED
    BY <2>4, <2>5
<1>12. ASSUME NEW x \in W PROVE \E k \in 1 .. m : w[k] = x
  <2>1. PICK j \in 1 .. n : s[j] = x
    BY <1>1, <1>9 DEF OnceAll
  <2>2. off < j /\ j <= off + m
    BY <1>7, <1>9, <2>1
  <2>3. PICK k \in 1 .. m : j = off + k
    BY <1>6, <2>2
  <2> QED
    BY <1>6, <2>1, <2>3
<1>13. OnceAll(w, W)
  BY <1>5, <1>10, <1>11, <1>12 DEF OnceAll
<1> QED
  BY <1>2, <1>9, <1>13

LEMMA WithoutOnce ==
  ASSUME NEW I, NEW w, OnceAll(w, I), NEW J
  PROVE  OnceAll(Picked(w, {k \in DOMAIN w : w[k] \notin J}), I \ J)
<1>1. PICK m \in Nat : m = Len(w) /\ DOMAIN w = 1 .. m /\ w \in Seq(I)
  BY DEF OnceAll
<1>2. PICK Q \in SUBSET DOMAIN w : Q = {k \in DOMAIN w : w[k] \notin J}
  OBVIOUS
<1>3. PICK c : c = Picked(w, Q)
  OBVIOUS
<1>4. w \in Seq(I)
  BY <1>1
<1>5. /\ c \in Seq(I) /\ \A k \in DOMAIN c : \E i \in Q : c[k] = w[i]
      /\ \A i \in Q : \E k \in DOMAIN c : c[k] = w[i]
      /\ \A k, l \in DOMAIN c : k # l => \E i, j \in Q : i # j /\ c[k] = w[i] /\ c[l] = w[j]
  BY <1>3, <1>4, ChosenFacts
<1>6. c \in Seq(I \ J)
  <2>1. \A k \in DOMAIN c : c[k] \in I \ J
    <3>1. \A k \in DOMAIN c : c[k] \in I
      BY <1>5
    <3>2. \A k \in DOMAIN c : c[k] \notin J
      BY <1>2, <1>5
    <3> QED
      BY <3>1, <3>2
  <2> QED
    BY <1>5, <2>1
<1>7. \A k, l \in DOMAIN c : c[k] = c[l] => k = l
  <2>1. \A i, j \in Q : w[i] = w[j] => i = j
    BY DEF OnceAll
  <2> QED
    BY <1>5, <2>1
<1>8. ASSUME NEW x \in I \ J PROVE \E k \in DOMAIN c : c[k] = x
  <2>1. PICK i \in DOMAIN w : w[i] = x
    BY DEF OnceAll
  <2>2. i \in Q
    BY <1>2, <2>1
  <2> QED
    BY <1>5, <2>1, <2>2
<1>9. OnceAll(c, I \ J)
  BY <1>6, <1>7, <1>8 DEF OnceAll
<1> QED
  BY <1>2, <1>3, <1>9

\* One list behind the other.
LEMMA HitsTogether ==
  ASSUME NEW I \in SUBSET Nat, NEW J \in SUBSET Nat, I \cap J = {}, NEW a, OnceAll(a, I), NEW c, OnceAll(c, J), NEW due, due = I \cup J,
         NEW f, NEW g, NEW begin, \A i \in I : f[i] = Matched(i, begin) /\ f[i] \in Nat, \A j \in J : g[j] = Matched(j, begin) /\ g[j] \in Nat,
         NEW found, found = Hits(a, f) \o Hits(c, g)
  PROVE  Shows(found, due, begin) /\ IsWhole(found, due)
<1>1. PICK n \in Nat, m \in Nat : n = Len(a) /\ DOMAIN a = 1 .. n /\ m = Len(c) /\ DOMAIN c = 1 .. m /\ a \in Seq(I) /\ c \in Seq(J)
  BY DEF OnceAll
<1>2. PICK x, y : x = Hits(a, f) /\ y = Hits(c, g)
  OBVIOUS
<1>3. \A k \in 1 .. n : a[k] \in I
  BY <1>1
<1>4. \A k \in 1 .. m : c[k] \in J
  BY <1>1
<1>5. x = [k \in 1 .. n |-> [txn |-> a[k], match |-> f[a[k]]]]
  BY <1>1, <1>2 DEF Hits
<1>6. y = [k \in 1 .. m |-> [txn |-> c[k], match |-> g[c[k]]]]
  BY <1>1, <1>2 DEF Hits
<1>7. x \in Seq(Found) /\ Len(x) = n
  <2>1. \A k \in 1 .. n : [txn |-> a[k], match |-> f[a[k]]] \in Found
    BY <1>3 DEF Found
  <2> QED
    BY <1>5, <2>1
<1>8. y \in Seq(Found) /\ Len(y) = m
  <2>1. \A k \in 1 .. m : [txn |-> c[k], match |-> g[c[k]]] \in Found
    BY <1>4 DEF Found
  <2> QED
    BY <1>6, <2>1
<1>9. found = x \o y
  BY <1>2
<1>10. found \in Seq(Found) /\ DOMAIN found = 1 .. n + m
  <2>1. found \in Seq(Found)
    BY <1>7, <1>8, <1>9
  <2>2. ASSUME NEW v \in Seq(Found), NEW z \in Seq(Found) PROVE Len(v \o z) = Len(v) + Len(z)
    OBVIOUS
  <2>3. Len(found) = n + m
    BY <1>7, <1>8, <1>9, <2>2
  <2> QED
    BY <1>1, <2>1, <2>3
<1>11. ASSUME NEW k \in 1 .. n PROVE k \in 1 .. n + m /\ found[k].txn = a[k] /\ found[k].match = f[a[k]]
  <2>1. found[k] = x[k] /\ k \in 1 .. n + m
    BY <1>7, <1>8, <1>9
  <2> QED
    BY <1>5, <2>1
<1>12. ASSUME NEW k \in 1 .. m PROVE n + k \in 1 .. n + m /\ found[n + k].txn = c[k] /\ found[n + k].match = g[c[k]]
  <2>1. n + k > n /\ n + k <= n + m /\ n + k - n = k /\ n + k \in 1 .. n + m
    OBVIOUS
  <2>2. found[n + k] = y[k]
    BY <1>7, <1>8, <1>9, <2>1
  <2> QED
    BY <1>6, <2>1, <2>2
<1>13. ASSUME NEW k \in 1 .. n + m PROVE k \in 1 .. n \/ \E l \in 1 .. m : k = n + l
  <2>1. k > n => k - n \in 1 .. m /\ k = n + (k - n)
    OBVIOUS
  <2> QED
    BY <2>1
<1>14. \A k \in 1 .. n + m : found[k].txn \in due /\ found[k].match = Matched(found[k].txn, begin)
  <2>1. ASSUME NEW k \in 1 .. n PROVE found[k].txn \in due /\ found[k].match = Matched(found[k].txn, begin)
    <3>1. PICK i \in I : i = a[k]
      BY <1>3
    <3>2. found[k].txn = i /\ found[k].match = f[i]
      BY <1>11, <3>1
    <3> QED
      BY <3>2
  <2>2. ASSUME NEW l \in 1 .. m PROVE found[n + l].txn \in due /\ found[n + l].match = Matched(found[n + l].txn, begin)
    <3>1. PICK j \in J : j = c[l]
      BY <1>4
    <3>2. found[n + l].txn = j /\ found[n + l].match = g[j]
      BY <1>12, <3>1
    <3> QED
      BY <3>2
  <2>3. SUFFICES ASSUME NEW k \in 1 .. n + m PROVE found[k].txn \in due /\ found[k].match = Matched(found[k].txn, begin)
    OBVIOUS
  <2>4. CASE k \in 1 .. n
    BY <2>1, <2>4
  <2>5. CASE \E l \in 1 .. m : k = n + l
    BY <2>2, <2>5
  <2> QED
    BY <1>13, <2>4, <2>5
<1>15. ASSUME NEW k \in 1 .. n + m, NEW l \in 1 .. n + m, found[k].txn = found[l].txn PROVE k = l
  <2>1. CASE k \in 1 .. n /\ l \in 1 .. n
    <3>1. a[k] = a[l]
      BY <1>11, <1>15, <2>1
    <3> QED
      BY <1>1, <2>1, <3>1 DEF OnceAll
  <2>2. ASSUME NEW o \in 1 .. n, NEW q \in 1 .. m PROVE found[o].txn # found[n + q].txn
    <3>1. a[o] \in I /\ c[q] \in J
      BY <1>3, <1>4
    <3> QED
      BY <1>11, <1>12, <3>1
  <2>3. ~(k \in 1 .. n /\ \E o \in 1 .. m : l = n + o) /\ ~(l \in 1 .. n /\ \E o \in 1 .. m : k = n + o)
    BY <1>15, <2>2
  <2>4. ASSUME NEW o \in 1 .. m, NEW q \in 1 .. m, k = n + o, l = n + q PROVE k = l
    <3>1. c[o] = c[q]
      BY <1>12, <1>15, <2>4
    <3> QED
      BY <1>1, <2>4, <3>1 DEF OnceAll
  <2> QED
    BY <1>13, <2>1, <2>2, <2>3, <2>4
<1>16. ASSUME NEW i \in due PROVE \E k \in 1 .. n + m : found[k].txn = i
  <2>1. CASE i \in I
    <3>1. PICK k \in 1 .. n : a[k] = i
      BY <1>1, <2>1 DEF OnceAll
    <3> QED
      BY <1>11, <3>1
  <2>2. CASE i \in J
    <3>1. PICK k \in 1 .. m : c[k] = i
      BY <1>1, <2>2 DEF OnceAll
    <3> QED
      BY <1>12, <3>1
  <2> QED
    BY <2>1, <2>2
<1> QED
  BY <1>10, <1>14, <1>15, <1>16 DEF Shows, IsWhole

\* The index by response time has each place once, in order of it.
LEMMA ByRespFacts ==
  ASSUME NEW all \in Seq(Transaction)
  PROVE  /\ OnceAll(ByResp(all), DOMAIN all)
         /\ \A k, l \in DOMAIN ByResp(all) : k < l => all[ByResp(all)[k]].resp <= all[ByResp(all)[l]].resp
<1>1. PICK n \in Nat : n = Len(all) /\ DOMAIN all = 1 .. n
  OBVIOUS
<1>2. PICK s : s = [i \in 1 .. n |-> i]
  OBVIOUS
<1>3. s \in Seq(1 .. n) /\ Len(s) = n
  BY <1>2
<1>4. PICK key : key = [i \in 1 .. n |-> all[i].resp]
  OBVIOUS
<1>5. key \in [1 .. n -> Int]
  <2>1. \A i \in 1 .. n : all[i] \in Transaction
    BY <1>1
  <2>2. \A i \in 1 .. n : all[i].resp \in Nat
    BY <2>1 DEF Transaction
  <2>3. \A i \in 1 .. n : all[i].resp \in Int
    BY <2>2
  <2> QED
    BY <1>4, <2>3
<1>6. PICK p : IsSorting(p, SortedBy(s, key), s, n) /\ InKeyOrder(p, key, n)
  BY <1>3, <1>5, SortedFacts
<1>7. PICK w : w = ByResp(all) /\ w = SortedBy(s, key)
  BY <1>1, <1>2, <1>4 DEF ByResp
<1>8. p \in [1 .. n -> 1 .. n] /\ (\A k, l \in 1 .. n : p[k] = p[l] => k = l) /\ w = [k \in 1 .. n |-> s[p[k]]]
  BY <1>6, <1>7 DEF IsSorting
<1>9. \A k \in 1 .. n : w[k] = p[k] /\ w[k] \in 1 .. n
  BY <1>2, <1>8
<1>10. w \in Seq(1 .. n) /\ DOMAIN w = 1 .. n
  BY <1>8, <1>9
<1>11. p \in Lists!Surjection(1 .. n, 1 .. n)
  <2>1. p \in Lists!Injection(1 .. n, 1 .. n)
    BY <1>8 DEF Lists!Injection, Lists!IsInjective
  <2>2. 1 .. n \in SUBSET (1 .. n)
    OBVIOUS
  <2> QED
    BY <2>1, <2>2, PlacesAreFinite, Lists!FS_Injection
<1>12. \A i \in 1 .. n : \E k \in 1 .. n : w[k] = i
  BY <1>9, <1>11 DEF Lists!Surjection
<1>13. \A k, l \in 1 .. n : w[k] = w[l] => k = l
  BY <1>8, <1>9
<1>14. OnceAll(w, 1 .. n)
  BY <1>10, <1>12, <1>13 DEF OnceAll
<1>15. ASSUME NEW k \in 1 .. n, NEW l \in 1 .. n, k < l PROVE all[w[k]].resp <= all[w[l]].resp
  <2>1. key[p[k]] <= key[p[l]]
    BY <1>6, <1>15 DEF InKeyOrder
  <2> QED
    BY <1>4, <1>8, <1>9, <2>1
<1> QED
  BY <1>1, <1>7, <1>10, <1>14, <1>15

\* get_transactions_in_range, before the limit.
Ending(begin, end) == {i \in DOMAIN result.all : EndsIn(i, begin, end)}
Collected(r, begin, end) ==
  Emitted(Window([i \in DOMAIN r.all |-> i], Times(r).addr, begin, end), Window(r.byResp, Times(r).resp, begin, end), Times(r))
LEMMA EmittedShows ==
  ASSUME NEW time, ResultFits(result, time), NEW begin \in Nat, NEW end \in Nat
  PROVE  Shows(Collected(result, begin, end), Ending(begin, end), begin) /\ IsWhole(Collected(result, begin, end), Ending(begin, end))
<1>1. PICK all : all = result.all /\ all \in Seq(Transaction) /\ result.byResp = ByResp(all)
  BY DEF ResultFits
<1>2. PICK n \in Nat : n = Len(all) /\ DOMAIN all = 1 .. n
  BY <1>1
<1>3. PICK addr, resp : addr = [i \in 1 .. n |-> all[i].addr] /\ resp = [i \in 1 .. n |-> all[i].resp]
  OBVIOUS
<1>4. Times(result) = [addr |-> addr, resp |-> resp]
  BY <1>1, <1>2, <1>3 DEF Times
<1>5. \A i \in 1 .. n : addr[i] = all[i].addr /\ resp[i] = all[i].resp /\ addr[i] \in Nat /\ resp[i] \in Nat /\ addr[i] <= resp[i]
  <2>1. \A i \in 1 .. n : all[i] \in Transaction
    BY <1>1, <1>2
  <2>2. \A i \in 1 .. n : all[i].addr \in Nat /\ all[i].resp \in Nat
    BY <2>1 DEF Transaction
  <2>3. \A i \in 1 .. n : all[i].addr <= all[i].resp
    BY <1>1, <1>2 DEF ResultFits
  <2> QED
    BY <1>3, <2>2, <2>3
<1>6. PICK s : s = [i \in 1 .. n |-> i]
  OBVIOUS
<1>7. OnceAll(s, 1 .. n) /\ DOMAIN s = 1 .. n
  <2>1. s \in Seq(1 .. n)
    BY <1>6
  <2> QED
    BY <1>6, <2>1 DEF OnceAll
<1>8. \A i, j \in DOMAIN s : i < j => addr[s[i]] <= addr[s[j]]
  <2>1. \A i, j \in 1 .. n : i < j => all[i].addr <= all[j].addr
    BY <1>1, <1>2 DEF ResultFits
  <2> QED
    BY <1>5, <1>6, <1>7, <2>1
<1>9. PICK a : a = Window(s, addr, begin, end)
  OBVIOUS
<1>10. PICK I \in SUBSET (1 .. n) : I = {i \in 1 .. n : begin <= addr[i] /\ addr[i] <= end}
  OBVIOUS
<1>11. OnceAll(a, I)
  <2>1. begin \in Int /\ end \in Int /\ \A i \in 1 .. n : addr[i] \in Nat
    BY <1>5
  <2>2. PICK S : S = 1 .. n
    OBVIOUS
  <2>3. OnceAll(s, S) /\ \A x \in S : addr[x] \in Nat
    BY <1>7, <2>1, <2>2
  <2>4. OnceAll(Window(s, addr, begin, end), {x \in S : begin <= addr[x] /\ addr[x] <= end})
    BY <1>8, <2>1, <2>3, WindowOnce
  <2> QED
    BY <1>9, <1>10, <2>2, <2>4
<1>12. PICK by : by = ByResp(all) /\ OnceAll(by, 1 .. n) /\ \A k, l \in DOMAIN by : k < l => all[by[k]].resp <= all[by[l]].resp
  BY <1>1, <1>2, ByRespFacts
<1>13. \A k, l \in DOMAIN by : k < l => resp[by[k]] <= resp[by[l]]
  <2>1. by \in Seq(1 .. n)
    BY <1>12 DEF OnceAll
  <2>2. \A k \in DOMAIN by : by[k] \in 1 .. n
    BY <2>1
  <2> QED
    BY <1>5, <1>12, <2>2
<1>14. PICK b : b = Window(by, resp, begin, end)
  OBVIOUS
<1>15. PICK B \in SUBSET (1 .. n) : B = {i \in 1 .. n : begin <= resp[i] /\ resp[i] <= end}
  OBVIOUS
<1>16. OnceAll(b, B)
  <2>1. begin \in Int /\ end \in Int /\ \A i \in 1 .. n : resp[i] \in Nat
    BY <1>5
  <2> QED
    BY <1>12, <1>13, <1>14, <1>15, <2>1, WindowOnce
<1>17. ToSet(a) = I
  <2>1. \A k \in DOMAIN a : a[k] \in I
    <3>1. a \in Seq(I)
      BY <1>11 DEF OnceAll
    <3> QED
      BY <3>1
  <2>2. \A i \in I : \E k \in DOMAIN a : a[k] = i
    BY <1>11 DEF OnceAll
  <2> QED
    BY <2>1, <2>2 DEF ToSet
<1>18. PICK c : c = Picked(b, {k \in DOMAIN b : b[k] \notin I})
  OBVIOUS
<1>19. PICK J \in SUBSET (1 .. n) : J = B \ I
  OBVIOUS
<1>20. OnceAll(c, J)
  BY <1>16, <1>18, <1>19, WithoutOnce
<1>21. PICK found : found = Hits(a, addr) \o Hits(c, resp)
  OBVIOUS
<1>22. found = Collected(result, begin, end)
  <2>1. Collected(result, begin, end) = Emitted(a, b, Times(result))
    BY <1>1, <1>2, <1>4, <1>6, <1>9, <1>12, <1>14 DEF Collected
  <2>2. Emitted(a, b, Times(result)) = Hits(a, addr) \o Hits(Picked(b, {k \in DOMAIN b : b[k] \notin ToSet(a)}), resp)
    BY <1>4 DEF Emitted
  <2> QED
    BY <1>17, <1>18, <1>21, <2>1, <2>2
<1>23. \A i \in I : addr[i] = Matched(i, begin) /\ addr[i] \in Nat
  <2>1. \A i \in I : i \in 1 .. n /\ all[i].addr >= begin
    BY <1>5, <1>10
  <2> QED
    BY <1>1, <1>5, <2>1 DEF Matched
<1>24. \A i \in J : resp[i] = Matched(i, begin) /\ resp[i] \in Nat
  <2>1. ASSUME NEW i \in J PROVE i \in 1 .. n /\ ~(all[i].addr >= begin)
    <3>1. begin <= resp[i] /\ resp[i] <= end /\ ~(begin <= addr[i] /\ addr[i] <= end) /\ i \in 1 .. n
      BY <1>10, <1>15, <1>19
    <3> QED
      BY <1>5, <3>1
  <2> QED
    BY <1>1, <1>5, <2>1 DEF Matched
<1>25. Ending(begin, end) = I \cup J
  <2>1. \A i \in 1 .. n : EndsIn(i, begin, end) <=> (begin <= addr[i] /\ addr[i] <= end) \/ (begin <= resp[i] /\ resp[i] <= end)
    BY <1>1, <1>5 DEF EndsIn, Ends
  <2>2. Ending(begin, end) = {i \in 1 .. n : EndsIn(i, begin, end)}
    BY <1>1, <1>2 DEF Ending
  <2> QED
    BY <1>10, <1>15, <1>19, <2>1, <2>2
<1>26. I \in SUBSET Nat /\ J \in SUBSET Nat /\ I \cap J = {}
  BY <1>19
<1>27. PICK due : due = Ending(begin, end)
  OBVIOUS
<1>28. Shows(found, due, begin) /\ IsWhole(found, due)
  BY <1>11, <1>20, <1>21, <1>23, <1>24, <1>25, <1>26, <1>27, HitsTogether
<1> QED
  BY <1>22, <1>27, <1>28

\* latency_outlier: of all that are due, the first by latency is the slowest.
LEMMA SlowestFirst ==
  ASSUME NEW time, ResultFits(result, time), NEW due \in SUBSET DOMAIN result.all, due # {}, NEW begin,
         NEW list, Shows(list, due, begin), IsWhole(list, due)
  PROVE  IsSlowest(LatencyOutliers(result, list, 1), due)
<1>1. PICK m \in Nat : m = Len(list) /\ DOMAIN list = 1 .. m /\ list \in Seq(Found)
  BY DEF Shows
<1>2. PICK all : all = result.all /\ all \in Seq(Transaction)
  BY DEF ResultFits
<1>3. \A i \in due : Latency(all[i]) \in Int
  <2>1. \A i \in due : all[i] \in Transaction
    BY <1>2
  <2>2. \A i \in due : all[i].addr \in Nat /\ all[i].resp \in Nat
    BY <2>1 DEF Transaction
  <2> QED
    BY <2>2 DEF Latency
<1>4. \A k \in 1 .. m : list[k].txn \in due
  BY <1>1 DEF Shows
<1>5. PICK key : key = [k \in 1 .. m |-> -Latency(all[list[k].txn])]
  OBVIOUS
<1>6. \A k \in 1 .. m : key[k] = -Latency(all[list[k].txn]) /\ key[k] \in Int
  BY <1>3, <1>4, <1>5
<1>7. key \in [1 .. m -> Int]
  BY <1>5, <1>6
<1>8. PICK p : IsSorting(p, SortedBy(list, key), list, m) /\ InKeyOrder(p, key, m)
  BY <1>1, <1>7, SortedFacts
<1>9. PICK w : w = SortedBy(list, key) /\ w = [k \in 1 .. m |-> list[p[k]]]
  BY <1>8 DEF IsSorting
<1>10. p \in [1 .. m -> 1 .. m] /\ \A k, l \in 1 .. m : p[k] = p[l] => k = l
  BY <1>8 DEF IsSorting
<1>11. \A k \in 1 .. m : p[k] \in 1 .. m /\ w[k] = list[p[k]]
  BY <1>9, <1>10
<1>12. w \in Seq(Found) /\ Len(w) = m
  <2>1. \A k \in 1 .. m : w[k] \in Found
    BY <1>1, <1>11
  <2> QED
    BY <1>9, <2>1
<1>13. PICK i0 \in due : \E k \in 1 .. m : list[k].txn = i0
  BY <1>1 DEF IsWhole
<1>14. 1 \in 1 .. m
  BY <1>13
<1>15. PICK s : s = LatencyOutliers(result, list, 1)
  OBVIOUS
<1>16. Len(s) = 1 /\ s[1] = w[1]
  <2>1. s = Cut(w, 1)
    BY <1>1, <1>2, <1>5, <1>9, <1>15 DEF LatencyOutliers
  <2>2. 1 \in Nat \cup {NoLimit} /\ 1 # NoLimit
    BY DEF NoLimit
  <2>3. /\ Len(Cut(w, 1)) = (IF 1 # NoLimit /\ 1 < Len(w) THEN 1 ELSE Len(w)) /\ Cut(w, 1) \in Seq(Found)
        /\ \A k \in DOMAIN Cut(w, 1) : Cut(w, 1)[k] = w[k]
    BY <1>12, <2>2, CutIsStart
  <2>4. Len(w) = 1 \/ 1 < Len(w)
    BY <1>12, <1>14
  <2>5. Len(s) = 1 /\ s \in Seq(Found)
    BY <2>1, <2>2, <2>3, <2>4
  <2>6. 1 \in DOMAIN s
    BY <2>5
  <2> QED
    BY <2>1, <2>3, <2>5, <2>6
<1>17. ASSUME NEW i \in due PROVE Latency(all[i]) <= Latency(all[w[1].txn])
  <2>1. PICK j \in 1 .. m : list[j].txn = i
    BY <1>1 DEF IsWhole
  <2>2. p \in Lists!Surjection(1 .. m, 1 .. m)
    <3>1. p \in Lists!Injection(1 .. m, 1 .. m)
      BY <1>10 DEF Lists!Injection, Lists!IsInjective
    <3>2. 1 .. m \in SUBSET (1 .. m)
      OBVIOUS
    <3> QED
      BY <3>1, <3>2, PlacesAreFinite, Lists!FS_Injection
  <2>3. PICK k \in 1 .. m : p[k] = j
    BY <2>1, <2>2 DEF Lists!Surjection
  <2>4. PICK f \in 1 .. m : f = p[1]
    BY <1>11, <1>14
  <2>5. key[f] <= key[j]
    <3>1. CASE k = 1
      BY <1>6, <2>3, <2>4, <3>1
    <3>2. CASE k # 1
      <4>1. 1 < k
        BY <3>2
      <4> QED
        BY <1>8, <1>14, <2>3, <2>4, <4>1 DEF InKeyOrder
    <3> QED
      BY <3>1, <3>2
  <2>6. PICK x \in Int, y \in Int : x = Latency(all[i]) /\ y = Latency(all[list[f].txn])
    BY <1>3, <1>4
  <2>7. key[f] = -y /\ key[j] = -x
    BY <1>6, <2>1, <2>6
  <2>8. x <= y
    BY <2>5, <2>6, <2>7
  <2> QED
    BY <1>11, <1>14, <2>4, <2>6, <2>8
<1> QED
  BY <1>2, <1>15, <1>16, <1>17 DEF IsSlowest

\* What is shown, in order, and is all that is due or one more than the limit, makes
\* the answer.
LEMMA AreOfShows ==
  ASSUME NEW n \in Nat, NEW due \in SUBSET (1 .. n), NEW begin, NEW found, Shows(found, due, begin), ByTime(found)
  PROVE  AreOf(found, due)
<1>1. PICK m \in Nat : m = Len(found) /\ DOMAIN found = 1 .. m
  BY DEF Shows
<1>2. TxnsOf(found) \subseteq due /\ Cardinality(TxnsOf(found)) = Len(found)
  BY LenShows
<1>3. \A x \in ToSet(found) : x.match \in Ends(x.txn)
  <2>1. SUFFICES ASSUME NEW k \in 1 .. m PROVE found[k].match \in Ends(found[k].txn)
    BY <1>1 DEF ToSet
  <2>2. found[k].match = Matched(found[k].txn, begin)
    BY <1>1 DEF Shows
  <2> QED
    BY <2>2 DEF Matched, Ends
<1>4. ASSUME NEW k \in 2 .. m PROVE found[k - 1].match <= found[k].match
  <2>1. k \in 1 .. m /\ k - 1 \in 1 .. m /\ k - 1 < k
    OBVIOUS
  <2> QED
    BY <1>1, <2>1 DEF ByTime
<1> QED
  BY <1>1, <1>2, <1>3, <1>4 DEF AreOf

LEMMA ReplyShows ==
  ASSUME NEW time, ResultFits(result, time), NEW due \in SUBSET DOMAIN result.all, NEW begin,
         NEW found, Shows(found, due, begin), ByTime(found), NEW limit \in Nat \cup {NoLimit}, NEW filter,
         IsWhole(found, due) \/ (filter = "all" /\ limit \in Nat /\ Len(found) = limit + 1)
  PROVE  WindowIsExact(Listed(found, limit), due, begin, filter, limit)
<1>1. PICK n \in Nat : DOMAIN result.all = 1 .. n
  BY DEF ResultFits
<1>2. due \in SUBSET (1 .. n)
  BY <1>1
<1>3. PICK m \in Nat : m = Len(found) /\ DOMAIN found = 1 .. m /\ found \in Seq(Found)
  BY DEF Shows
<1>4. PICK c \in Nat : c = Cardinality(due) /\ m <= c
  BY <1>2, <1>3, LenShows
<1>5. IsWhole(found, due) => m = c
  BY <1>2, <1>3, <1>4, LenShows
<1>6. PICK list : list = Cut(found, limit)
  OBVIOUS
<1>7. PICK over \in BOOLEAN : over = (limit # NoLimit /\ limit < m)
  OBVIOUS
<1>8. /\ Len(list) = (IF over THEN limit ELSE m) /\ (list # found <=> over)
      /\ \A k \in DOMAIN list : k \in 1 .. m /\ list[k] = found[k]
  BY <1>3, <1>6, <1>7, CutIsStart
<1>9. Shows(list, due, begin) /\ ByTime(list)
  BY <1>6, CutShows
<1>10. PICK reply : reply = Listed(found, limit) /\ reply.list = list /\ reply.truncated = over
  <2>1. PICK cut \in BOOLEAN : cut = (list # found)
    OBVIOUS
  <2>2. cut = over
    BY <1>8, <2>1
  <2>3. Listed(found, limit) = [list |-> list, truncated |-> cut]
    BY <1>6, <2>1 DEF Listed
  <2> QED
    BY <2>2, <2>3
<1>11. (over => limit # NoLimit /\ limit < m) /\ (~over => ~(limit # NoLimit /\ limit < m)) /\ NoLimit \notin Nat
  <2>1. NoLimit \notin Nat
    BY DEF NoLimit
  <2>2. (over => limit # NoLimit /\ limit < m) /\ (~over => ~(limit # NoLimit /\ limit < m))
    BY <1>7
  <2> QED
    BY <2>1, <2>2
<1>12. over <=> limit # NoLimit /\ limit < c
  <2>1. CASE IsWhole(found, due)
    BY <1>5, <1>11, <2>1
  <2>2. CASE limit \in Nat /\ m = limit + 1
    <3>1. limit # NoLimit /\ limit < m /\ limit < c
      BY <1>4, <1>11, <2>2
    <3> QED
      BY <1>11, <3>1
  <2> QED
    BY <1>3, <2>1, <2>2
<1>13. ~over => IsWhole(found, due) /\ list = found
  <2>1. limit \in Nat /\ m = limit + 1 => limit # NoLimit /\ limit < m
    BY <1>11
  <2> QED
    BY <1>3, <1>8, <1>11, <2>1
<1>14. IsCut(reply, due, limit)
  <2>1. Len(list) = IF over THEN limit ELSE c
    BY <1>5, <1>8, <1>13
  <2> QED
    BY <1>4, <1>10, <1>12, <2>1 DEF IsCut
<1>15. AreOf(list, due)
  BY <1>2, <1>9, AreOfShows
<1>16. ASSUME filter # "all" PROVE AreEarliest(TxnsOf(list), due, begin)
  <2>1. IsWhole(found, due)
    BY <1>16
  <2>2. SUFFICES ASSUME NEW i \in TxnsOf(list), NEW j \in due \ TxnsOf(list) PROVE Matched(i, begin) <= Matched(j, begin)
    BY DEF AreEarliest
  <2>3. PICK k \in DOMAIN list : i = list[k].txn
    BY <2>2 DEF TxnsOf, ToSet
  <2>4. PICK l \in 1 .. m : found[l].txn = j
    BY <1>3, <2>1, <2>2 DEF IsWhole
  <2>5. l \notin DOMAIN list
    <3>1. SUFFICES ASSUME l \in DOMAIN list PROVE FALSE
      OBVIOUS
    <3>2. list[l].txn = j
      BY <1>8, <2>4, <3>1
    <3>3. j \in TxnsOf(list)
      BY <3>1, <3>2 DEF TxnsOf, ToSet
    <3> QED
      BY <2>2, <3>3
  <2>6. k \in 1 .. m /\ k < l
    <3>1. PICK d \in Nat : d = Len(list) /\ DOMAIN list = 1 .. d
      BY <1>9 DEF Shows
    <3> QED
      BY <1>8, <2>3, <2>5, <3>1
  <2>7. found[k].match <= found[l].match
    BY <1>3, <2>6 DEF ByTime
  <2>8. found[k].match = Matched(i, begin) /\ found[l].match = Matched(j, begin)
    BY <1>3, <1>8, <2>3, <2>4, <2>6 DEF Shows
  <2> QED
    BY <2>7, <2>8
<1>17. ASSUME ~over, due # {} PROVE IsSlowest(LatencyOutliers(result, list, 1), due)
  BY <1>9, <1>13, <1>17, SlowestFirst
<1> QED
  BY <1>10, <1>14, <1>15, <1>16, <1>17 DEF WindowIsExact

\* get_transactions_in_range.
LEMMA InRangeShows ==
  ASSUME NEW time, ResultFits(result, time), NEW begin \in Nat, NEW end \in Nat, NEW limit \in Nat \cup {NoLimit},
         NEW found, found = InRange(result, begin, end, limit)
  PROVE  /\ Shows(found, Ending(begin, end), begin) /\ ByTime(found)
         /\ IsWhole(found, Ending(begin, end)) \/ (limit \in Nat /\ Len(found) = limit)
<1>1. PICK due, all, some : due = Ending(begin, end) /\ all = Collected(result, begin, end) /\ some = Cut(all, limit)
  OBVIOUS
<1>2. Shows(all, due, begin) /\ IsWhole(all, due)
  BY <1>1, EmittedShows
<1>3. found = ByMatch(some)
  BY <1>1 DEF InRange, Collected
<1>4. Shows(some, due, begin)
  BY <1>1, <1>2, CutShows
<1>5. Shows(found, due, begin) /\ ByTime(found) /\ Len(found) = Len(some) /\ (IsWhole(some, due) => IsWhole(found, due))
  BY <1>3, <1>4, ByMatchShows
<1>6. some = all \/ (limit \in Nat /\ Len(some) = limit)
  <2>1. all \in Seq(Found)
    BY <1>2 DEF Shows
  <2>2. CASE limit # NoLimit /\ limit < Len(all)
    BY <1>1, <2>1, <2>2, CutIsStart
  <2>3. CASE ~(limit # NoLimit /\ limit < Len(all))
    BY <1>1, <2>1, <2>3, CutIsStart
  <2> QED
    BY <2>2, <2>3
<1> QED
  BY <1>1, <1>2, <1>5, <1>6

\* ai_axi_transactions_window.
LEMMA TransactionsWindowShows ==
  ASSUME NEW time, ResultFits(result, time), NEW w \in Windows, NEW limit \in {0, 1, NoLimit}, NEW filter \in Filters
  PROVE  WindowIsExact(TransactionsWindow(result, w, filter, limit),
           {i \in DOMAIN result.all : OfDirection(result.all[i], filter) /\ EndsIn(i, w.begin, w.end)}, w.begin, filter, limit)
<1>1. PICK begin \in Nat, end \in Nat : begin = w.begin /\ end = w.end
  <2>1. w \in [begin : Nat, end : Nat]
    BY QueriesAssumption
  <2> QED
    BY <2>1
<1>2. PICK most : most = IF filter = "all" THEN OneMore(limit) ELSE NoLimit
  OBVIOUS
<1>3. most \in Nat \cup {NoLimit} /\ (most \in Nat => filter = "all" /\ limit \in Nat /\ most = limit + 1)
  <2>1. NoLimit \notin Nat
    BY DEF NoLimit
  <2>2. CASE filter = "all" /\ limit # NoLimit
    <3>1. limit \in Nat /\ most = limit + 1
      BY <1>2, <2>2 DEF OneMore
    <3> QED
      BY <2>2, <3>1
  <2>3. CASE ~(filter = "all" /\ limit # NoLimit)
    <3>1. most = NoLimit
      BY <1>2, <2>3 DEF OneMore
    <3> QED
      BY <2>1, <3>1
  <2> QED
    BY <2>2, <2>3
<1>4. PICK all, due : all = Ending(begin, end) /\ due = {i \in all : OfDirection(result.all[i], filter)}
  OBVIOUS
<1>5. PICK near, found : near = InRange(result, begin, end, most) /\ found = OfOneDirection(result, near, filter)
  OBVIOUS
<1>6. Shows(near, all, begin) /\ ByTime(near) /\ (IsWhole(near, all) \/ (most \in Nat /\ Len(near) = most))
  BY <1>3, <1>4, <1>5, InRangeShows
<1>7. Shows(found, due, begin) /\ ByTime(found) /\ (IsWhole(near, all) => IsWhole(found, due))
       /\ (filter = "all" => Len(found) = Len(near))
  BY <1>4, <1>5, <1>6, DirectionShows
<1>8. PICK n \in Nat : DOMAIN result.all = 1 .. n
  BY DEF ResultFits
<1>9. all \in SUBSET (1 .. n) /\ due \in SUBSET DOMAIN result.all
  BY <1>4, <1>8 DEF Ending
<1>10. ASSUME ~IsWhole(near, all) PROVE filter = "all" /\ limit \in Nat /\ Len(found) = limit + 1
  <2>1. most \in Nat /\ Len(near) = most
    BY <1>6, <1>10
  <2>2. filter = "all" /\ limit \in Nat /\ most = limit + 1
    BY <1>3, <2>1
  <2>3. Len(found) = Len(near)
    BY <1>7, <2>2
  <2> QED
    BY <2>1, <2>2, <2>3
<1>11. limit \in Nat \cup {NoLimit}
  OBVIOUS
<1>12. WindowIsExact(Listed(found, limit), due, begin, filter, limit)
  BY <1>7, <1>9, <1>10, <1>11, ReplyShows
<1>13. TransactionsWindow(result, w, filter, limit) = Listed(found, limit)
  BY <1>1, <1>2, <1>5 DEF TransactionsWindow
<1>14. due = {i \in DOMAIN result.all : OfDirection(result.all[i], filter) /\ EndsIn(i, w.begin, w.end)}
  BY <1>1, <1>4 DEF Ending
<1> QED
  BY <1>1, <1>12, <1>13, <1>14

\* What is around an event: everything with an end in the window, in order.
LEMMA AroundShows ==
  ASSUME NEW time, ResultFits(result, time), NEW begin \in Nat, NEW end \in Nat, NEW found, found = InRange(result, begin, end, NoLimit)
  PROVE  AreOf(found, DOMAIN result.all) /\ TxnsOf(found) = Ending(begin, end)
<1>1. PICK n \in Nat : DOMAIN result.all = 1 .. n
  BY DEF ResultFits
<1>2. PICK due : due = Ending(begin, end)
  OBVIOUS
<1>3. due \in SUBSET (1 .. n)
  BY <1>1, <1>2 DEF Ending
<1>4. NoLimit \in Nat \cup {NoLimit} /\ NoLimit \notin Nat
  BY DEF NoLimit
<1>5. Shows(found, due, begin) /\ ByTime(found) /\ IsWhole(found, due)
  BY <1>2, <1>4, InRangeShows
<1>6. AreOf(found, due)
  BY <1>3, <1>5, AreOfShows
<1>7. TxnsOf(found) = due
  BY <1>3, <1>5, LenShows
<1>8. AreOf(found, DOMAIN result.all)
  BY <1>1, <1>3, <1>6 DEF AreOf
<1> QED
  BY <1>2, <1>7, <1>8

LEMMA ContextShows ==
  ASSUME ResultFits(result, t), t \in Nat, t <= LastEdge, NEW time \in {1, LastEdge}, NEW window \in {1, 3}
  PROVE  /\ AreOf(Context(result, time, window), DOMAIN result.all)
         /\ TxnsOf(Context(result, time, window)) = {i \in DOMAIN result.all : EndsIn(i, time - window, time + window)}
<1>1. LastEdge \in Nat /\ Top \in Nat /\ LastEdge <= Top /\ 3 <= Top
  BY EdgeAssumption, QueriesAssumption
<1>2. time \in Nat /\ window \in Nat /\ time <= Top /\ window <= Top
  BY <1>1
<1>3. PICK begin : begin = IF time > window THEN time - window ELSE 0
  OBVIOUS
<1>4. PICK sum : sum = (time + window) % (Top + 1)
  OBVIOUS
<1>5. PICK end : end = Saturated(sum, time)
  OBVIOUS
<1>6. begin \in Nat /\ \A e \in Nat : begin <= e <=> time - window <= e
  BY <1>2, <1>3
<1>7. end \in Nat /\ \A e \in Nat : e <= LastEdge => (e <= end <=> e <= time + window)
  <2>1. CASE time + window <= Top
    <3>1. sum = time + window
      BY <1>1, <1>2, <1>4, <2>1
    <3>2. end = time + window
      BY <1>2, <1>5, <3>1 DEF Saturated
    <3> QED
      BY <1>2, <3>2
  <2>2. CASE time + window > Top
    <3>1. PICK rest \in Nat : rest = time + window - (Top + 1)
      BY <1>1, <1>2, <2>2
    <3>2. rest < Top + 1 /\ time + window = rest + (Top + 1) /\ rest < time
      BY <1>1, <1>2, <3>1
    <3>3. (rest + (Top + 1)) % (Top + 1) = rest
      BY <1>1, <3>1, <3>2
    <3>4. sum = rest
      BY <1>4, <3>2, <3>3
    <3>5. end = Top
      BY <1>5, <3>2, <3>4 DEF Saturated
    <3> QED
      BY <1>1, <1>2, <2>2, <3>5
  <2> QED
    BY <1>1, <1>2, <2>1, <2>2
<1>8. PICK found : found = InRange(result, begin, end, NoLimit)
  OBVIOUS
<1>9. AreOf(found, DOMAIN result.all) /\ TxnsOf(found) = Ending(begin, end)
  BY <1>6, <1>7, <1>8, AroundShows
<1>10. Context(result, time, window) = found
  BY <1>3, <1>4, <1>5, <1>8 DEF Context
<1>11. ASSUME NEW i \in DOMAIN result.all PROVE EndsIn(i, begin, end) <=> EndsIn(i, time - window, time + window)
  <2>1. result.all[i] \in Transaction
    BY <1>11 DEF ResultFits
  <2>2. result.all[i].addr \in Nat /\ result.all[i].resp \in Nat
    BY <2>1 DEF Transaction
  <2>3. result.all[i].addr <= result.all[i].resp /\ result.all[i].resp <= t
    BY <1>11 DEF ResultFits
  <2>4. \A e \in Ends(i) : e \in Nat /\ e <= LastEdge
    BY <1>1, <2>2, <2>3 DEF Ends
  <2>5. \A e \in Ends(i) : (begin <= e /\ e <= end) <=> (time - window <= e /\ e <= time + window)
    BY <1>6, <1>7, <2>4
  <2> QED
    BY <2>5 DEF EndsIn
<1>12. Ending(begin, end) = {i \in DOMAIN result.all : EndsIn(i, time - window, time + window)}
  BY <1>11 DEF Ending
<1> QED
  BY <1>9, <1>10, <1>12

\* How many places there are between two.
LEMMA PlacesBetween ==
  ASSUME NEW off \in Nat, NEW len \in Nat
  PROVE  Cardinality(off + 1 .. off + len) = len
<1>1. PICK low \in Int, high \in Int : low = off + 1 /\ high = off + len
  OBVIOUS
<1>2. Lists!Cardinality(low .. high) = IF low > high THEN 0 ELSE high - low + 1
  BY Lists!FS_Interval
<1>3. (IF low > high THEN 0 ELSE high - low + 1) = len
  BY <1>1
<1>4. Cardinality(low .. high) = Lists!Cardinality(low .. high)
  BY DEF Cardinality, Lists!Cardinality
<1> QED
  BY <1>1, <1>2, <1>3, <1>4

\* A limit on a listing of which there may be one more than the limit.
IsListing(list, over, v, limit) ==
  /\ over <=> limit # NoLimit /\ limit < Len(v)
  /\ Len(list) = (IF over THEN limit ELSE Len(v)) /\ Len(list) <= Len(v)
  /\ \A k \in DOMAIN list : list[k] = v[k]
LEMMA ListedOnce ==
  ASSUME NEW S, NEW s \in Seq(S), NEW limit \in Nat \cup {NoLimit}
  PROVE  \E over \in BOOLEAN, list \in Seq(S) :
           /\ Listed(Cut(s, OneMore(limit)), limit) = [list |-> list, truncated |-> over]
           /\ IsListing(list, over, s, limit)
<1>1. PICK n \in Nat : n = Len(s) /\ DOMAIN s = 1 .. n
  OBVIOUS
<1>2. PICK most : most = OneMore(limit)
  OBVIOUS
<1>3. NoLimit \notin Nat /\ most \in Nat \cup {NoLimit} /\ (limit # NoLimit => most # NoLimit /\ most = limit + 1) /\ (limit = NoLimit => most = NoLimit)
  <2>1. NoLimit \notin Nat
    BY DEF NoLimit
  <2>2. CASE limit # NoLimit
    <3>1. limit + 1 \in Nat
      BY <2>2
    <3> QED
      BY <1>2, <2>1, <2>2, <3>1 DEF OneMore
  <2>3. CASE limit = NoLimit
    BY <1>2, <2>1, <2>3 DEF OneMore
  <2> QED
    BY <2>1, <2>2, <2>3
<1>4. PICK all : all = Cut(s, most)
  OBVIOUS
<1>5. PICK above \in BOOLEAN : above <=> most # NoLimit /\ most < n
  OBVIOUS
<1>6. all \in Seq(S) /\ Len(all) = (IF above THEN most ELSE n) /\ \A k \in DOMAIN all : k \in 1 .. n /\ all[k] = s[k]
  BY <1>1, <1>3, <1>4, <1>5, CutIsStart
<1>7. PICK d \in Nat : d = Len(all) /\ DOMAIN all = 1 .. d
  BY <1>6
<1>8. PICK over \in BOOLEAN : over <=> limit # NoLimit /\ limit < d
  OBVIOUS
<1>9. PICK list : list = Cut(all, limit)
  OBVIOUS
<1>10. list \in Seq(S) /\ Len(list) = (IF over THEN limit ELSE d) /\ (list # all <=> over)
       /\ \A k \in DOMAIN list : k \in 1 .. d /\ list[k] = all[k]
  BY <1>6, <1>7, <1>8, <1>9, CutIsStart
<1>11. over <=> limit # NoLimit /\ limit < n
  <2>1. CASE limit = NoLimit
    BY <1>8, <2>1
  <2>2. CASE limit # NoLimit
    BY <1>3, <1>5, <1>6, <1>7, <1>8, <2>2
  <2> QED
    BY <2>1, <2>2
<1>12. (IF over THEN limit ELSE d) = IF over THEN limit ELSE n
  <2>1. CASE limit = NoLimit
    BY <1>3, <1>5, <1>6, <1>7, <1>8, <2>1
  <2>2. CASE limit # NoLimit
    BY <1>3, <1>5, <1>6, <1>7, <1>8, <2>2
  <2> QED
    BY <2>1, <2>2
<1>13. PICK m \in Nat : m = Len(list) /\ DOMAIN list = 1 .. m
  BY <1>10
<1>14. m <= n
  <2>1. CASE over
    BY <1>3, <1>10, <1>11, <1>13, <2>1
  <2>2. CASE ~over
    BY <1>10, <1>12, <1>13, <2>2
  <2> QED
    BY <2>1, <2>2
<1>15. \A k \in 1 .. m : list[k] = s[k]
  BY <1>6, <1>7, <1>10, <1>13
<1>16. Listed(all, limit) = [list |-> list, truncated |-> over]
  <2>1. PICK cut \in BOOLEAN : cut = (list # all)
    OBVIOUS
  <2>2. cut = over
    BY <1>10, <2>1
  <2>3. Listed(all, limit) = [list |-> list, truncated |-> cut]
    BY <1>9, <2>1 DEF Listed
  <2> QED
    BY <2>2, <2>3
<1>17. m = IF over THEN limit ELSE n
  BY <1>10, <1>12, <1>13
<1>18. IsListing(list, over, s, limit)
  BY <1>1, <1>11, <1>13, <1>14, <1>15, <1>17 DEF IsListing
<1> QED
  BY <1>2, <1>4, <1>10, <1>16, <1>18

\* The timeline: samples are in order of time.
LEMMA TimelineShows ==
  ASSUME NEW time, Sampled(an.samples, time), NEW w \in Windows, NEW limit \in {0, 1, NoLimit}
  PROVE  TimelineIsExact(Timeline(an.samples, w, limit),
           {i \in DOMAIN an.samples : w.begin <= an.samples[i].time /\ an.samples[i].time <= w.end}, limit)
<1>1. PICK begin \in Nat, end \in Nat : begin = w.begin /\ end = w.end
  <2>1. w \in [begin : Nat, end : Nat]
    BY QueriesAssumption
  <2> QED
    BY <2>1
<1>2. PICK samples : samples = an.samples /\ samples \in Seq(OneSample)
  BY DEF Sampled
<1>3. PICK n \in Nat : n = Len(samples) /\ DOMAIN samples = 1 .. n
  BY <1>2
<1>4. PICK at : at = [i \in 1 .. n |-> samples[i].time]
  OBVIOUS
<1>5. \A i \in 1 .. n : at[i] = samples[i].time /\ at[i] \in Nat
  <2>1. \A i \in 1 .. n : samples[i] \in OneSample
    BY <1>2, <1>3
  <2> QED
    BY <1>4, <2>1 DEF OneSample
<1>6. PICK s : s = [i \in 1 .. n |-> i]
  OBVIOUS
<1>7. s \in Seq(1 .. n) /\ DOMAIN s = 1 .. n /\ Len(s) = n /\ \A i \in 1 .. n : s[i] = i
  BY <1>6
<1>8. \A i, j \in DOMAIN s : i < j => at[s[i]] <= at[s[j]]
  <2>1. \A i, j \in 1 .. n : i < j => samples[i].time < samples[j].time
    BY <1>2, <1>3 DEF Sampled
  <2> QED
    BY <1>5, <1>7, <2>1
<1>9. PICK v : v = Window(s, at, begin, end)
  OBVIOUS
<1>10. v \in Seq(1 .. n) /\ \E off : IsWindow(v, s, at, begin, end, off)
  <2>1. begin \in Int /\ end \in Int /\ \A x \in 1 .. n : at[x] \in Nat
    BY <1>5
  <2>2. s \in Seq(1 .. n)
    BY <1>7
  <2>3. Window(s, at, begin, end) \in Seq(1 .. n) /\ \E off : IsWindow(Window(s, at, begin, end), s, at, begin, end, off)
    BY <1>8, <2>1, <2>2, WindowFacts, SMTT(60)
  <2> QED
    BY <1>9, <2>3
<1>11. PICK off \in Nat : IsWindow(v, s, at, begin, end, off)
  BY <1>10 DEF IsWindow
<1>12. PICK len \in Nat : len = Len(v) /\ DOMAIN v = 1 .. len
  BY <1>10
<1>13. off + len <= n /\ \A k \in 1 .. len : v[k] = off + k
  <2>1. off + len <= n /\ \A k \in 1 .. len : v[k] = s[off + k]
    BY <1>7, <1>11, <1>12 DEF IsWindow
  <2>2. \A k \in 1 .. len : off + k \in 1 .. n
    BY <2>1
  <2> QED
    BY <1>7, <2>1, <2>2
<1>14. PICK due : due = {i \in 1 .. n : begin <= samples[i].time /\ samples[i].time <= end}
  OBVIOUS
<1>15. due = off + 1 .. off + len
  <2>1. ASSUME NEW i \in 1 .. n PROVE i \in due <=> off < i /\ i <= off + len
    <3>1. begin <= at[s[i]] /\ at[s[i]] <= end <=> off < i /\ i <= off + len
      BY <1>7, <1>11, <1>12 DEF IsWindow
    <3>2. s[i] = i /\ at[i] = samples[i].time
      BY <1>5, <1>7
    <3> QED
      BY <1>14, <3>1, <3>2
  <2>2. \A i \in due : i \in off + 1 .. off + len
    BY <1>14, <2>1
  <2>3. \A i \in off + 1 .. off + len : i \in 1 .. n /\ off < i /\ i <= off + len
    BY <1>13
  <2> QED
    BY <2>1, <2>2, <2>3
<1>16. Cardinality(due) = len
  BY <1>15, PlacesBetween
<1>17. limit \in Nat \cup {NoLimit}
  OBVIOUS
<1>18. PICK reply : reply = Listed(Cut(v, OneMore(limit)), limit)
  OBVIOUS
<1>19. PICK over \in BOOLEAN, list \in Seq(1 .. n) : reply = [list |-> list, truncated |-> over] /\ IsListing(list, over, v, limit)
  BY <1>10, <1>17, <1>18, ListedOnce
<1>20. reply.list = list /\ reply.truncated = over
  BY <1>19
<1>21. IsCut(reply, due, limit)
  BY <1>12, <1>16, <1>19, <1>20 DEF IsCut, IsListing
<1>22. PICK m \in Nat : DOMAIN list = 1 .. m /\ \A k \in 1 .. m : k \in 1 .. len /\ list[k] = off + k
  <2>1. PICK m \in Nat : m = Len(list) /\ DOMAIN list = 1 .. m
    OBVIOUS
  <2>2. m <= len /\ \A k \in 1 .. m : list[k] = v[k]
    BY <1>12, <1>19, <2>1 DEF IsListing
  <2>3. \A k \in 1 .. m : k \in 1 .. len
    BY <2>2
  <2> QED
    BY <1>13, <2>1, <2>2, <2>3
<1>23. \A x \in ToSet(list) : \E k \in 1 .. m : x = off + k
  BY <1>22 DEF ToSet
<1>24. \A k \in 1 .. m : off + k \in ToSet(list)
  BY <1>22 DEF ToSet
<1>25. ToSet(list) \subseteq due
  BY <1>15, <1>22, <1>23
<1>26. ASSUME NEW i \in ToSet(list), NEW j \in due, j \notin ToSet(list) PROVE i < j
  <2>1. PICK k \in 1 .. m : i = off + k
    BY <1>23
  <2>2. PICK l \in 1 .. len : j = off + l
    <3>1. j - off \in 1 .. len /\ j = off + (j - off)
      BY <1>15
    <3> QED
      BY <3>1
  <2>3. l \notin 1 .. m
    BY <1>24, <1>26, <2>2
  <2> QED
    BY <2>1, <2>2, <2>3
<1>27. TimelineIsExact(reply, due, limit)
  BY <1>20, <1>21, <1>25, <1>26 DEF TimelineIsExact
<1>28. Timeline(an.samples, w, limit) = reply
  BY <1>1, <1>2, <1>3, <1>4, <1>6, <1>9, <1>18 DEF Timeline
<1> QED
  BY <1>1, <1>2, <1>3, <1>14, <1>27, <1>28

\* All of it.
LEMMA WindowsShow == AxiInv /\ QueryInv => WindowsAreExact
<1> SUFFICES ASSUME AxiInv, QueryInv, result # None PROVE WindowsAreExact
  BY DEF WindowsAreExact
<1>1. ResultFits(result, t) /\ Sampled(an.samples, t) /\ t \in Nat /\ t <= LastEdge
  BY DEF AxiInv, QueryInv
<1>2. ASSUME NEW w \in Windows, NEW limit \in {0, 1, NoLimit}, NEW filter \in Filters
      PROVE  WindowIsExact(TransactionsWindow(result, w, filter, limit),
               {i \in DOMAIN result.all : OfDirection(result.all[i], filter) /\ EndsIn(i, w.begin, w.end)}, w.begin, filter, limit)
  BY <1>1, TransactionsWindowShows
<1>3. ASSUME NEW w \in Windows, NEW limit \in {0, 1, NoLimit}
      PROVE  TimelineIsExact(Timeline(an.samples, w, limit),
               {i \in DOMAIN an.samples : w.begin <= an.samples[i].time /\ an.samples[i].time <= w.end}, limit)
  BY <1>1, TimelineShows
<1>4. ASSUME NEW time \in {1, LastEdge}, NEW window \in {1, 3}
      PROVE  /\ AreOf(Context(result, time, window), DOMAIN result.all)
             /\ TxnsOf(Context(result, time, window)) = {i \in DOMAIN result.all : EndsIn(i, time - window, time + window)}
  BY <1>1, ContextShows
<1> QED
  BY <1>2, <1>3, <1>4 DEF WindowsAreExact

QueryKept == IsAxi => QueryInv

LEMMA QueryIsKept == MCSpec => []QueryKept
<1> DEFINE all == <<vars, now, wave, edge, scan, truth, transfers, cursor, shown, walk>>
<1>1. MCInit => QueryKept
  <2> SUFFICES ASSUME MCInit, IsAxi PROVE QueryInv
    BY DEF QueryKept
  <2>1. CASE Init
    BY <2>1, QueryInit
  <2>2. CASE Apb!Init
    <3>1. edge \in BOOLEAN
      BY <2>2 DEF Apb!Init
    <3> QED
      BY <3>1, ApbAssumption DEF IsAxi
  <2> QED
    BY <2>1, <2>2 DEF MCInit
<1>2. AxiKept /\ AxiKept' /\ QueryKept /\ [MCNext]_all => QueryKept'
  <2> SUFFICES ASSUME AxiKept, AxiKept', QueryKept, [MCNext]_all, IsAxi' PROVE QueryInv'
    BY DEF QueryKept
  <2>1. edge' = edge
    <3>1. Apb!Next => edge' = edge
      BY DEF Apb!Next, Apb!Change, Apb!Finish, Apb!CursorBegin, Apb!CursorNext, Apb!CursorPrev, Apb!CursorLast, Apb!file
    <3> QED
      BY <3>1 DEF MCNext
  <2>2. IsAxi /\ [Next]_vars
    BY <2>1 DEF MCNext, IsAxi
  <2>3. AxiInv /\ AxiInv' /\ QueryInv
    BY <2>2 DEF AxiKept, QueryKept
  <2> QED
    BY <2>2, <2>3, QueryStep
<1> QED
  BY <1>1, <1>2, AxiIsKept, PTL DEF MCSpec

\* What is asked of a window is answered with the transactions of that direction that
\* have an end in it, each once and in order, and told to be cut when it is; so are the
\* samples, and what is around an event.
THEOREM AxiWindowsHold == MCSpec => []AxiWindowsAreExact
<1>1. AxiKept /\ QueryKept => AxiWindowsAreExact
  BY WindowsShow DEF AxiKept, QueryKept, AxiWindowsAreExact
<1> QED
  BY <1>1, AxiIsKept, QueryIsKept, PTL

(***************************************************************************)
(* Statistics.                                                             *)
(***************************************************************************)
\* Two sets, the one told by the other.
LEMMA SameSize ==
  ASSUME NEW S, Finite(S), NEW T, NEW f \in [S -> T], \A x, y \in S : f[x] = f[y] => x = y, \A z \in T : \E x \in S : f[x] = z
  PROVE  Finite(T) /\ Size(T) = Size(S)
<1>1. f \in Lists!Bijection(S, T)
  BY DEF Lists!Bijection, Lists!Injection, Lists!Surjection, Lists!IsInjective
<1>2. Lists!IsFiniteSet(S)
  BY DEF Finite
<1>3. Lists!IsFiniteSet(T) /\ Lists!Cardinality(T) = Lists!Cardinality(S)
  BY <1>1, <1>2, Lists!FS_Bijection DEF Lists!ExistsBijection
<1> QED
  BY <1>3 DEF Finite, Size

LEMMA SizeOfInterval ==
  ASSUME NEW n \in Nat
  PROVE  Finite(1 .. n) /\ Size(1 .. n) = n
<1>1. 1 \in Int /\ n \in Int /\ (IF 1 > n THEN 0 ELSE n - 1 + 1) = n
  OBVIOUS
<1> QED
  BY <1>1, Lists!FS_Interval DEF Finite, Size

LEMMA SizeIsNat == ASSUME NEW S, Finite(S) PROVE Size(S) \in Nat /\ Size(S) = Cardinality(S)
<1>1. Lists!Cardinality(S) \in Nat
  BY Lists!FS_CardinalityType DEF Finite
<1>2. Cardinality(S) = Lists!Cardinality(S)
  BY DEF Cardinality, Lists!Cardinality
<1> QED
  BY <1>1, <1>2 DEF Size

\* One more number has its units.
LEMMA UnitsGrow ==
  ASSUME NEW numbers, NEW k \in Nat, numbers[k + 1] \in Nat, Finite(Units(numbers, 1 .. k))
  PROVE  /\ Finite(Units(numbers, 1 .. k + 1))
         /\ Size(Units(numbers, 1 .. k + 1)) = Size(Units(numbers, 1 .. k)) + numbers[k + 1]
<1>1. PICK x, U : x = numbers[k + 1] /\ U = Units(numbers, 1 .. k) /\ x \in Nat
  OBVIOUS
<1>2. PICK N : N = {k + 1} \X (1 .. x)
  OBVIOUS
<1>3. Finite(N) /\ Size(N) = x
  <2>1. PICK f : f = [i \in 1 .. x |-> <<k + 1, i>>]
    OBVIOUS
  <2>2. f \in [1 .. x -> N] /\ (\A i, j \in 1 .. x : f[i] = f[j] => i = j) /\ \A z \in N : \E i \in 1 .. x : f[i] = z
    BY <1>2, <2>1
  <2> QED
    <3>1. Finite(1 .. x) /\ Size(1 .. x) = x
      BY <1>1, SizeOfInterval
    <3> QED
      BY <2>2, <3>1, SameSize
<1>4. Units(numbers, 1 .. k + 1) = U \cup N
  <2>1. 1 .. k + 1 = 1 .. k \cup {k + 1}
    OBVIOUS
  <2>2. UNION {{d} \X (1 .. numbers[d]) : d \in 1 .. k \cup {k + 1}} =
          (UNION {{d} \X (1 .. numbers[d]) : d \in 1 .. k}) \cup ({k + 1} \X (1 .. numbers[k + 1]))
    OBVIOUS
  <2> QED
    BY <1>1, <1>2, <2>1, <2>2 DEF Units
<1>5. U \cap N = {}
  <2>1. SUFFICES ASSUME NEW z \in U, z \in N PROVE FALSE
    OBVIOUS
  <2>2. PICK d \in 1 .. k : z \in {d} \X (1 .. numbers[d])
    BY <1>1 DEF Units
  <2>3. z[1] = d /\ z[1] = k + 1
    BY <1>2, <2>1, <2>2
  <2> QED
    BY <2>3
<1>6. Lists!IsFiniteSet(U) /\ Lists!IsFiniteSet(N)
  BY <1>1, <1>3 DEF Finite
<1>7. /\ Lists!IsFiniteSet(U \cup N)
      /\ Lists!Cardinality(U \cup N) = Lists!Cardinality(U) + Lists!Cardinality(N) - Lists!Cardinality(U \cap N)
  BY <1>6, Lists!FS_Union
<1>8. Lists!Cardinality(U \cap N) = 0 /\ Lists!Cardinality(U) \in Nat
  BY <1>5, <1>6, Lists!FS_EmptySet, Lists!FS_CardinalityType
<1>9. Size(U \cup N) = Size(U) + x
  BY <1>1, <1>3, <1>7, <1>8 DEF Size
<1> QED
  BY <1>1, <1>4, <1>7, <1>9 DEF Finite

\* The statistics of the first numbers.
StatsFields == [samples : Nat, total : Nat, max : Nat, min : Nat]
IsStats(s, numbers, k) ==
  /\ s \in StatsFields /\ s.samples = k
  /\ Finite(Units(numbers, 1 .. k)) /\ s.total = Size(Units(numbers, 1 .. k))
  /\ k = 0 => s.max = 0 /\ s.min = 0
  /\ k # 0 => \E i, j \in 1 .. k : s.max = numbers[i] /\ s.min = numbers[j]
  /\ \A i \in 1 .. k : s.min <= numbers[i] /\ numbers[i] <= s.max

LEMMA StatsAreOne ==
  ASSUME NEW numbers, NEW k \in Nat, NEW s, IsStats(s, numbers, k), NEW r, IsStats(r, numbers, k)
  PROVE  s = r
<1>1. s.samples = r.samples /\ s.total = r.total /\ s \in StatsFields /\ r \in StatsFields
  BY DEF IsStats
<1>2. s.max \in Nat /\ r.max \in Nat /\ s.min \in Nat /\ r.min \in Nat
  BY <1>1 DEF StatsFields
<1>3. s.max = r.max /\ s.min = r.min
  <2>1. CASE k = 0
    BY <2>1 DEF IsStats
  <2>2. CASE k # 0
    <3>1. PICK i \in 1 .. k, j \in 1 .. k : s.max = numbers[i] /\ s.min = numbers[j]
      BY <2>2 DEF IsStats
    <3>2. PICK m \in 1 .. k, n \in 1 .. k : r.max = numbers[m] /\ r.min = numbers[n]
      BY <2>2 DEF IsStats
    <3>3. s.max <= r.max /\ r.max <= s.max /\ s.min <= r.min /\ r.min <= s.min
      BY <3>1, <3>2 DEF IsStats
    <3> QED
      BY <1>2, <3>3
  <2> QED
    BY <2>1, <2>2
<1> QED
  BY <1>1, <1>3 DEF StatsFields

LEMMA NoneAreUnseen == ASSUME NEW numbers PROVE IsStats(Unseen, numbers, 0)
<1>1. Units(numbers, 1 .. 0) = {}
  BY DEF Units
<1>2. Finite({}) /\ Size({}) = 0
  BY Lists!FS_EmptySet DEF Finite, Size
<1>3. Unseen \in StatsFields /\ Unseen.samples = 0 /\ Unseen.total = 0 /\ Unseen.max = 0 /\ Unseen.min = 0
  BY DEF Unseen, StatsFields
<1>4. \A i \in 1 .. 0 : FALSE
  OBVIOUS
<1> QED
  BY <1>1, <1>2, <1>3, <1>4 DEF IsStats

LEMMA VisitedStats ==
  ASSUME NEW numbers, NEW k \in Nat, \A i \in 1 .. k + 1 : numbers[i] \in Nat, NEW s, IsStats(s, numbers, k)
  PROVE  IsStats(Visited(s, numbers[k + 1]), numbers, k + 1)
<1>1. PICK x \in Nat : x = numbers[k + 1]
  OBVIOUS
<1>2. PICK r : r = Visited(s, x)
  OBVIOUS
<1>3. PICK a \in Nat, b \in Nat, c \in Nat : s \in StatsFields /\ s.samples = k /\ a = s.total /\ b = s.max /\ c = s.min
  BY DEF IsStats, StatsFields
<1>4. PICK max \in Nat, min \in Nat : max = (IF k = 0 \/ x > b THEN x ELSE b) /\ min = (IF k = 0 \/ x < c THEN x ELSE c)
  OBVIOUS
<1>5. r = [samples |-> k + 1, total |-> a + x, max |-> max, min |-> min]
  BY <1>2, <1>3, <1>4 DEF Visited
<1>6. r \in StatsFields /\ r.samples = k + 1 /\ r.total = a + x /\ r.max = max /\ r.min = min
  BY <1>5 DEF StatsFields
<1>7. Finite(Units(numbers, 1 .. k + 1)) /\ r.total = Size(Units(numbers, 1 .. k + 1))
  <2>1. Finite(Units(numbers, 1 .. k)) /\ a = Size(Units(numbers, 1 .. k))
    BY <1>3 DEF IsStats
  <2> QED
    BY <1>1, <1>6, <2>1, UnitsGrow
<1>8. \A i \in 1 .. k : numbers[i] \in Nat /\ c <= numbers[i] /\ numbers[i] <= b
  BY <1>3 DEF IsStats
<1>9. ASSUME NEW i \in 1 .. k + 1 PROVE min <= numbers[i] /\ numbers[i] <= max
  <2>1. CASE i = k + 1
    BY <1>1, <1>4, <2>1
  <2>2. CASE i # k + 1
    <3>1. i \in 1 .. k /\ k # 0
      BY <2>2
    <3> QED
      BY <1>4, <1>8, <3>1
  <2> QED
    BY <2>1, <2>2
<1>10. \E i, j \in 1 .. k + 1 : max = numbers[i] /\ min = numbers[j]
  <2>1. CASE k = 0
    <3>1. 1 \in 1 .. k + 1 /\ k + 1 = 1
      BY <2>1
    <3>2. max = numbers[1] /\ min = numbers[1]
      BY <1>1, <1>4, <2>1, <3>1
    <3> QED
      BY <3>1, <3>2
  <2>2. CASE k # 0
    <3>1. PICK i \in 1 .. k, j \in 1 .. k : b = numbers[i] /\ c = numbers[j]
      BY <1>3, <2>2 DEF IsStats
    <3>2. i \in 1 .. k + 1 /\ j \in 1 .. k + 1 /\ k + 1 \in 1 .. k + 1
      OBVIOUS
    <3>3. (max = numbers[k + 1] \/ max = numbers[i]) /\ (min = numbers[k + 1] \/ min = numbers[j])
      BY <1>1, <1>4, <2>2, <3>1
    <3> QED
      BY <3>2, <3>3
  <2> QED
    BY <2>1, <2>2
<1>11. IsStats(r, numbers, k + 1)
  <2>1. k + 1 # 0
    OBVIOUS
  <2> QED
    BY <1>6, <1>7, <1>9, <1>10, <2>1 DEF IsStats
<1> QED
  BY <1>1, <1>2, <1>11

\* The loop computes them.
StatsOn(c, numbers) == c = [n \in 0 .. Len(numbers) |-> IF n = 0 THEN Unseen ELSE Visited(c[n - 1], numbers[n])]
LEMMA StatsExist ==
  ASSUME NEW n \in Nat, NEW numbers, \A i \in 1 .. n : numbers[i] \in Nat
  PROVE  \A k \in 0 .. n : \E s : IsStats(s, numbers, k)
<1>1. PICK D \in SUBSET (1 .. n) : D = {k \in 1 .. n : ~\E s : IsStats(s, numbers, k)}
  OBVIOUS
<1>2. ASSUME D # {} PROVE FALSE
  <2>1. PICK m \in D : \A i \in D : m <= i
    BY <1>2, Lists!HasEnds
  <2>2. PICK k \in Nat : m = k + 1 /\ k \notin D /\ (k \in 1 .. n \/ k = 0)
    <3>1. m \in 1 .. n /\ m - 1 \in Nat /\ m = m - 1 + 1 /\ ~(m <= m - 1) /\ (m - 1 \in 1 .. n \/ m - 1 = 0)
      OBVIOUS
    <3> QED
      BY <2>1, <3>1
  <2>3. PICK s : IsStats(s, numbers, k)
    BY <1>1, <2>2, NoneAreUnseen
  <2>4. \A i \in 1 .. k + 1 : numbers[i] \in Nat
    BY <2>2
  <2>5. IsStats(Visited(s, numbers[k + 1]), numbers, k + 1)
    BY <2>3, <2>4, VisitedStats
  <2> QED
    BY <1>1, <2>2, <2>5
<1> QED
  BY <1>1, <1>2, NoneAreUnseen

LEMMA StatsFacts ==
  ASSUME NEW n \in Nat, NEW numbers, Len(numbers) = n, \A i \in 1 .. n : numbers[i] \in Nat
  PROVE  IsStats(Stats(numbers), numbers, n)
<1>1. PICK c : c = [k \in 0 .. n |-> CHOOSE s : IsStats(s, numbers, k)]
  OBVIOUS
<1>2. \A k \in 0 .. n : IsStats(c[k], numbers, k)
  BY <1>1, StatsExist
<1>3. ASSUME NEW k \in 0 .. n PROVE c[k] = IF k = 0 THEN Unseen ELSE Visited(c[k - 1], numbers[k])
  <2>1. CASE k = 0
    <3>1. IsStats(c[k], numbers, k) /\ IsStats(Unseen, numbers, k) /\ k \in Nat
      BY <1>2, <2>1, NoneAreUnseen
    <3> QED
      BY <2>1, <3>1, StatsAreOne
  <2>2. CASE k # 0
    <3>1. PICK j \in Nat : j + 1 = k /\ j = k - 1 /\ j \in 0 .. n /\ \A i \in 1 .. j + 1 : i \in 1 .. n
      <4>1. k - 1 \in Nat /\ k - 1 + 1 = k /\ k - 1 \in 0 .. n /\ \A i \in 1 .. k - 1 + 1 : i \in 1 .. n
        BY <2>2
      <4> QED
        BY <4>1
    <3>2. IsStats(Visited(c[j], numbers[j + 1]), numbers, j + 1)
      BY <1>2, <3>1, VisitedStats
    <3>3. IsStats(c[k], numbers, k) /\ k \in Nat
      BY <1>2
    <3>4. IsStats(Visited(c[k - 1], numbers[k]), numbers, k)
      BY <3>1, <3>2
    <3>5. c[k] = Visited(c[k - 1], numbers[k])
      BY <3>3, <3>4, StatsAreOne
    <3> QED
      BY <2>2, <3>5
  <2> QED
    BY <2>1, <2>2
<1>4. StatsOn(c, numbers)
  BY <1>1, <1>3 DEF StatsOn
<1>5. PICK d : d = (CHOOSE e : StatsOn(e, numbers)) /\ StatsOn(d, numbers)
  BY <1>4
<1>6. Stats(numbers) = d[n]
  BY <1>5 DEF Stats, StatsOn
<1>7. d[0] = Unseen /\ \A k \in 1 .. n : d[k] = Visited(d[k - 1], numbers[k])
  <2>1. 0 \in 0 .. n /\ \A k \in 1 .. n : k \in 0 .. n /\ k # 0
    OBVIOUS
  <2>2. d = [k \in 0 .. n |-> IF k = 0 THEN Unseen ELSE Visited(d[k - 1], numbers[k])]
    BY <1>5 DEF StatsOn
  <2> QED
    BY <2>1, <2>2
<1>8. PICK D \in SUBSET (1 .. n) : D = {k \in 1 .. n : ~IsStats(d[k], numbers, k)}
  OBVIOUS
<1>9. ASSUME D # {} PROVE FALSE
  <2>1. PICK m \in D : \A i \in D : m <= i
    BY <1>9, Lists!HasEnds
  <2>2. PICK k \in Nat : m = k + 1 /\ k = m - 1 /\ k \notin D /\ (k \in 1 .. n \/ k = 0) /\ \A i \in 1 .. k + 1 : i \in 1 .. n
    <3>1. m \in 1 .. n /\ m - 1 \in Nat /\ m = m - 1 + 1 /\ ~(m <= m - 1) /\ (m - 1 \in 1 .. n \/ m - 1 = 0)
          /\ \A i \in 1 .. m - 1 + 1 : i \in 1 .. n
      OBVIOUS
    <3> QED
      BY <2>1, <3>1
  <2>3. IsStats(d[k], numbers, k)
    BY <1>7, <1>8, <2>2, NoneAreUnseen
  <2>4. IsStats(Visited(d[k], numbers[k + 1]), numbers, k + 1)
    BY <2>2, <2>3, VisitedStats
  <2>5. d[m] = Visited(d[k], numbers[k + 1])
    BY <1>7, <2>2
  <2> QED
    BY <1>8, <2>2, <2>4, <2>5
<1>10. IsStats(d[n], numbers, n)
  <2>1. n \in 1 .. n \/ n = 0
    OBVIOUS
  <2> QED
    BY <1>7, <1>8, <1>9, <2>1, NoneAreUnseen
<1> QED
  BY <1>6, <1>10

\* Numbers that are told one by one by those of a set sum it up.
Tells(b, numbers, n, f, D) ==
  /\ b \in [1 .. n -> D] /\ \A i, j \in 1 .. n : b[i] = b[j] => i = j
  /\ \A d \in D : \E i \in 1 .. n : b[i] = d
  /\ \A i \in 1 .. n : f[b[i]] = numbers[i]
LEMMA UnitsTold ==
  ASSUME NEW n \in Nat, NEW numbers, NEW D, NEW f, NEW b, Tells(b, numbers, n, f, D), Finite(Units(numbers, 1 .. n))
  PROVE  Finite(Units(f, D)) /\ Size(Units(f, D)) = Size(Units(numbers, 1 .. n))
<1> USE DEF Tells
<1>1. PICK U, V : U = Units(numbers, 1 .. n) /\ V = Units(f, D)
  OBVIOUS
<1>2. ASSUME NEW z PROVE z \in U <=> \E i \in 1 .. n : z \in {i} \X (1 .. numbers[i])
  BY <1>1 DEF Units
<1>3. ASSUME NEW z PROVE z \in V <=> \E d \in D : z \in {d} \X (1 .. f[d])
  BY <1>1 DEF Units
<1>4. \A z \in U : z[1] \in 1 .. n /\ z[2] \in 1 .. numbers[z[1]] /\ z = <<z[1], z[2]>>
  BY <1>2
<1>5. PICK g : g = [z \in U |-> <<b[z[1]], z[2]>>]
  OBVIOUS
<1>6. ASSUME NEW z \in U PROVE g[z] \in V
  <2>1. PICK i \in 1 .. n : i = z[1] /\ z[2] \in 1 .. numbers[i]
    BY <1>4
  <2>2. g[z] = <<b[i], z[2]>> /\ b[i] \in D /\ z[2] \in 1 .. f[b[i]]
    BY <1>5, <2>1
  <2>3. <<b[i], z[2]>> \in {b[i]} \X (1 .. f[b[i]])
    BY <2>2
  <2> QED
    BY <1>3, <2>2, <2>3
<1>7. g \in [U -> V]
  BY <1>5, <1>6
<1>8. ASSUME NEW y \in U, NEW z \in U, g[y] = g[z] PROVE y = z
  <2>1. b[y[1]] = b[z[1]] /\ y[2] = z[2]
    BY <1>5, <1>8
  <2>2. y[1] = z[1]
    BY <1>4, <2>1
  <2> QED
    BY <1>4, <2>1, <2>2
<1>9. ASSUME NEW v \in V PROVE \E z \in U : g[z] = v
  <2>1. PICK d \in D : v \in {d} \X (1 .. f[d])
    BY <1>3
  <2>2. PICK i \in 1 .. n : b[i] = d
    OBVIOUS
  <2>3. PICK z : z = <<i, v[2]>>
    OBVIOUS
  <2>4. v = <<d, v[2]>> /\ v[2] \in 1 .. f[d]
    BY <2>1
  <2>5. f[d] = numbers[i]
    BY <2>2
  <2>6. z \in {i} \X (1 .. numbers[i])
    BY <2>3, <2>4, <2>5
  <2>7. z \in U
    BY <1>2, <2>6
  <2>8. g[z] = v
    BY <1>5, <2>2, <2>3, <2>4, <2>7
  <2> QED
    BY <2>7, <2>8
<1> QED
  BY <1>1, <1>7, <1>8, <1>9, SameSize

LEMMA NumbersSumUp ==
  ASSUME NEW n \in Nat, NEW numbers, Len(numbers) = n, \A i \in 1 .. n : numbers[i] \in Nat,
         NEW D, NEW f, f = [d \in D |-> f[d]], NEW b, Tells(b, numbers, n, f, D)
  PROVE  SummedUp(Stats(numbers), f)
<1>1. PICK s : s = Stats(numbers)
  OBVIOUS
<1>2. IsStats(s, numbers, n)
  BY <1>1, StatsFacts
<1>3. DOMAIN f = D
  OBVIOUS
<1>4. s.samples = Cardinality(D)
  <2>1. Finite(1 .. n) /\ Size(1 .. n) = n
    BY SizeOfInterval
  <2>2. b \in [1 .. n -> D] /\ (\A i, j \in 1 .. n : b[i] = b[j] => i = j) /\ \A d \in D : \E i \in 1 .. n : b[i] = d
    BY DEF Tells
  <2>3. PICK S : S = 1 .. n
    OBVIOUS
  <2>4. b \in [S -> D] /\ (\A i, j \in S : b[i] = b[j] => i = j) /\ \A d \in D : \E i \in S : b[i] = d
    BY <2>2, <2>3
  <2>5. Finite(S) /\ Size(S) = n
    BY <2>1, <2>3
  <2>6. Finite(D) /\ Size(D) = Size(S)
    BY <2>4, <2>5, SameSize
  <2> QED
    BY <1>2, <2>5, <2>6, SizeIsNat DEF IsStats
<1>5. s.total = Cardinality(Units(f, D))
  <2>1. Finite(Units(numbers, 1 .. n)) /\ s.total = Size(Units(numbers, 1 .. n))
    BY <1>2 DEF IsStats
  <2>2. Finite(Units(f, D)) /\ Size(Units(f, D)) = s.total
    BY <2>1, UnitsTold
  <2> QED
    BY <2>2, SizeIsNat
<1>6. ASSUME f # << >> PROVE {s.max, s.min} \subseteq {f[d] : d \in D}
  <2>1. n # 0
    <3>1. SUFFICES ASSUME n = 0 PROVE FALSE
      OBVIOUS
    <3>2. D = {}
      BY <3>1 DEF Tells
    <3>3. f = << >>
      BY <3>2
    <3> QED
      BY <1>6, <3>3
  <2>2. PICK i \in 1 .. n, j \in 1 .. n : s.max = numbers[i] /\ s.min = numbers[j]
    BY <1>2, <2>1 DEF IsStats
  <2>3. b[i] \in D /\ b[j] \in D /\ s.max = f[b[i]] /\ s.min = f[b[j]]
    BY <2>2 DEF Tells
  <2> QED
    BY <2>3
<1>7. ASSUME NEW d \in D PROVE s.min <= f[d] /\ f[d] <= s.max
  <2>1. PICK i \in 1 .. n : b[i] = d /\ f[b[i]] = numbers[i]
    BY DEF Tells
  <2>2. s.min <= numbers[i] /\ numbers[i] <= s.max
    BY <1>2 DEF IsStats
  <2> QED
    BY <2>1, <2>2
<1> QED
  BY <1>1, <1>3, <1>4, <1>5, <1>6, <1>7 DEF SummedUp

\* What is outstanding, of all samples.
LEMMA OutstandingIsNat ==
  ASSUME NEW s \in OneSample, NEW id \in TxnIds \cup {None}, NEW filter
  PROVE  OutstandingIn(s, filter, id) \in Nat
<1>1. s.wr \in Nat /\ s.rd \in Nat /\ s.wrById \in [TxnIds -> Nat] /\ s.rdById \in [TxnIds -> Nat]
  BY DEF OneSample
<1>2. PICK x \in Nat : x = IF filter = "rd" THEN 0 ELSE IF id = None THEN s.wr ELSE s.wrById[id]
  BY <1>1
<1>3. PICK y \in Nat : y = IF filter = "wr" THEN 0 ELSE IF id = None THEN s.rd ELSE s.rdById[id]
  BY <1>1
<1>4. OutstandingIn(s, filter, id) = x + y
  BY <1>2, <1>3 DEF OutstandingIn
<1> QED
  BY <1>4

LEMMA OutstandingShows ==
  ASSUME NEW samples \in Seq(OneSample), NEW id \in TxnIds \cup {None}, NEW filter
  PROVE  SummedUp(OutstandingStats(samples, filter, id), [i \in DOMAIN samples |-> OutstandingIn(samples[i], filter, id)])
<1>1. PICK n \in Nat : n = Len(samples) /\ DOMAIN samples = 1 .. n
  OBVIOUS
<1>2. PICK f : f = [i \in 1 .. n |-> OutstandingIn(samples[i], filter, id)]
  OBVIOUS
<1>3. \A i \in 1 .. n : f[i] \in Nat
  <2>1. \A i \in 1 .. n : samples[i] \in OneSample
    BY <1>1
  <2> QED
    BY <1>2, <2>1, OutstandingIsNat
<1>4. f \in Seq(Nat) /\ Len(f) = n /\ f = [i \in 1 .. n |-> f[i]]
  BY <1>2, <1>3
<1>5. PICK b : b = [i \in 1 .. n |-> i]
  OBVIOUS
<1>6. Tells(b, f, n, f, 1 .. n)
  BY <1>5 DEF Tells
<1>7. SummedUp(Stats(f), f)
  BY <1>3, <1>4, <1>6, NumbersSumUp
<1>8. OutstandingStats(samples, filter, id) = Stats(f)
  BY <1>1, <1>2 DEF OutstandingStats
<1> QED
  BY <1>1, <1>2, <1>7, <1>8

\* The queue of an id is as long as its reads in flight are many.
LEMMA QueueSize ==
  ASSUME NEW reads, NEW pr, Queued(reads, pr), NEW id \in TxnIds
  PROVE  Len(pr[id]) = Size(OfOneId(reads, id))
<1>1. PICK q : q = pr[id] /\ q \in Seq(PendingRead) /\ InTurn(q)
  BY DEF Queued
<1>2. PICK m \in Nat : m = Len(q) /\ DOMAIN q = 1 .. m
  BY <1>1
<1>3. reads \in Seq(PendingRead) /\ InTurn(reads)
  BY DEF Queued
<1>4. PICK n \in Nat : n = Len(reads) /\ DOMAIN reads = 1 .. n
  BY <1>3
<1>5. PICK K \in SUBSET (1 .. n) : K = OfOneId(reads, id)
  BY <1>4 DEF OfOneId
<1>6. \A i \in 1 .. m : \E k \in K : reads[k] = q[i]
  <2>1. ASSUME NEW i \in 1 .. m PROVE \E k \in K : reads[k] = q[i]
    <3>1. q[i].id = id /\ \E k \in 1 .. n : reads[k] = q[i]
      BY <1>1, <1>2, <1>4 DEF Queued
    <3> QED
      BY <1>4, <1>5, <3>1 DEF OfOneId
  <2> QED
    BY <2>1
<1>7. PICK f : f = [i \in 1 .. m |-> CHOOSE k \in K : reads[k] = q[i]]
  OBVIOUS
<1>8. \A i \in 1 .. m : f[i] \in K /\ reads[f[i]] = q[i]
  BY <1>6, <1>7
<1>9. f \in [1 .. m -> K]
  BY <1>7, <1>8
<1>10. \A i, j \in 1 .. m : q[i].addr = q[j].addr => i = j
  <2>1. \A i \in 1 .. m : q[i] \in PendingRead
    BY <1>1, <1>2
  <2>2. \A i \in 1 .. m : q[i].addr \in Nat
    BY <2>1 DEF PendingRead
  <2>3. \A i, j \in 1 .. m : i < j => q[i].addr < q[j].addr
    BY <1>1, <1>2 DEF InTurn
  <2> QED
    BY <2>2, <2>3
<1>11. \A i, j \in 1 .. n : reads[i].addr = reads[j].addr => i = j
  <2>1. \A i \in 1 .. n : reads[i].addr \in Nat
    BY <1>3, <1>4, ReadFields
  <2>2. \A i, j \in 1 .. n : i < j => reads[i].addr < reads[j].addr
    BY <1>3, <1>4 DEF InTurn
  <2> QED
    BY <2>1, <2>2
<1>12. ASSUME NEW i \in 1 .. m, NEW j \in 1 .. m, f[i] = f[j] PROVE i = j
  <2>1. q[i] = q[j]
    BY <1>8, <1>12
  <2> QED
    BY <1>10, <2>1
<1>13. ASSUME NEW k \in K PROVE \E i \in 1 .. m : f[i] = k
  <2>1. k \in 1 .. n /\ reads[k].id = id
    BY <1>5 DEF OfOneId
  <2>2. PICK i \in 1 .. m : q[i] = reads[k]
    BY <1>1, <1>2, <1>4, <2>1 DEF Queued
  <2>3. reads[f[i]] = reads[k] /\ f[i] \in 1 .. n
    BY <1>8, <2>2
  <2>4. f[i] = k
    BY <1>11, <2>1, <2>3
  <2> QED
    BY <2>4
<1>14. Finite(1 .. m) /\ Size(1 .. m) = m
  BY SizeOfInterval
<1>15. Size(K) = m
  BY <1>9, <1>12, <1>13, <1>14, SameSize
<1> QED
  BY <1>1, <1>2, <1>5, <1>15

\* How many are in flight of an id, or in all.
LEMMA OfIdSize ==
  ASSUME NEW S, NEW s \in Seq(S), NEW id \in TxnIds \cup {None}
  PROVE  Cardinality({i \in DOMAIN s : OfId(s[i], id)}) = IF id = None THEN Len(s) ELSE Size(OfOneId(s, id))
<1>1. PICK n \in Nat : n = Len(s) /\ DOMAIN s = 1 .. n
  OBVIOUS
<1>2. CASE id = None
  <2>1. {i \in DOMAIN s : OfId(s[i], id)} = 1 .. n
    BY <1>1, <1>2 DEF OfId
  <2>2. Finite(1 .. n) /\ Size(1 .. n) = n
    BY SizeOfInterval
  <2> QED
    BY <1>1, <1>2, <2>1, <2>2, SizeIsNat
<1>3. CASE id # None
  <2>1. {i \in DOMAIN s : OfId(s[i], id)} = OfOneId(s, id)
    BY <1>3 DEF OfId, OfOneId
  <2>2. Finite(OfOneId(s, id))
    BY IdsAreFinite
  <2> QED
    BY <1>3, <2>1, <2>2, SizeIsNat
<1> QED
  BY <1>2, <1>3

LEMMA LastShows ==
  ASSUME t \in Nat, DOMAIN an = AnFields, Follows(bus, an, t, t), WritesFollow(bus, an, t), ReadsFollow(bus, an, t),
         Sampled(an.samples, t), LastIsNow(an, t), an.samples # << >>, Last(an.samples).time = t,
         NEW id \in TxnIds \cup {None}, NEW filter \in Filters, filter = "rd" \/ bus.dataFirst
  PROVE  OutstandingIn(Last(an.samples), filter, id) = InFlight(filter, id)
<1>1. PICK n \in Nat : n = Len(an.samples) /\ DOMAIN an.samples = 1 .. n
  BY DEF Sampled
<1>2. n \in 1 .. n
  BY <1>1
<1>3. an.samples[n] = CountersNow(an, t) /\ Last(an.samples) = an.samples[n]
  BY <1>1, <1>2 DEF LastIsNow, Last
<1>4. PICK s : s = CountersNow(an, t)
  OBVIOUS
<1>5. s.wr = an.ow /\ s.rd = an.or /\ s.wrById = an.owId /\ s.rdById = an.orId
  BY <1>4 DEF CountersNow
<1>6. PICK aw, reads : aw = bus.aw /\ reads = bus.reads
  OBVIOUS
<1>7. ReadsTied(reads, bus.did, an.pr, an.reads, an.or, an.orId, t)
  BY <1>6 DEF ReadsFollow
<1>8. Queued(reads, an.pr) /\ an.or = Len(reads) /\ \A i \in TxnIds : an.orId[i] = Len(an.pr[i])
  BY <1>7 DEF ReadsTied
<1>9. reads \in Seq(PendingRead)
  BY <1>8 DEF Queued
<1>10. (IF id = None THEN s.rd ELSE s.rdById[id]) = Cardinality({i \in DOMAIN reads : OfId(reads[i], id)})
  <2>1. CASE id = None
    BY <1>5, <1>8, <1>9, <2>1, OfIdSize
  <2>2. CASE id # None
    <3>1. id \in TxnIds /\ s.rdById[id] = Len(an.pr[id])
      BY <1>5, <1>8, <2>2
    <3>2. Len(an.pr[id]) = Size(OfOneId(reads, id))
      BY <1>8, <3>1, QueueSize
    <3> QED
      BY <1>9, <2>2, <3>1, <3>2, OfIdSize
  <2> QED
    BY <2>1, <2>2
<1>11. aw \in Seq(Address)
  <2>1. PICK stream, cut, fed, place : Tied(bus.aw, bus.bursts, an.pw, stream, cut, fed, place, bus.wrote, t)
    BY DEF Follows
  <2> QED
    BY <1>6, <2>1 DEF Tied, Typed
<1>12. ASSUME filter # "rd" PROVE (IF id = None THEN s.wr ELSE s.wrById[id]) = Cardinality({i \in DOMAIN aw : OfId(aw[i], id)})
  <2>1. Counted(aw, an.ow, an.owId)
    BY <1>6, <1>12 DEF WritesFollow
  <2>2. an.ow = Len(aw) /\ \A i \in TxnIds : an.owId[i] = Size(OfOneId(aw, i))
    BY <2>1 DEF Counted
  <2> QED
    BY <1>5, <1>11, <2>2, OfIdSize
<1>13. PICK x, y, u, v : /\ x = (IF id = None THEN s.wr ELSE s.wrById[id]) /\ y = (IF id = None THEN s.rd ELSE s.rdById[id])
                         /\ u = Cardinality({i \in DOMAIN aw : OfId(aw[i], id)}) /\ v = Cardinality({i \in DOMAIN reads : OfId(reads[i], id)})
  OBVIOUS
<1>14. OutstandingIn(s, filter, id) = (IF filter = "rd" THEN 0 ELSE x) + (IF filter = "wr" THEN 0 ELSE y)
  BY <1>13 DEF OutstandingIn
<1>15. InFlight(filter, id) = (IF filter = "rd" THEN 0 ELSE u) + (IF filter = "wr" THEN 0 ELSE v)
  BY <1>6, <1>13 DEF InFlight
<1>16. y = v /\ (filter # "rd" => x = u)
  BY <1>10, <1>12, <1>13
<1>17. OutstandingIn(s, filter, id) = InFlight(filter, id)
  BY <1>14, <1>15, <1>16
<1> QED
  BY <1>3, <1>4, <1>17

\* Writes and then reads, each once, are those of the bus that are asked for.
Wanted(filter, id) == {x \in bus.wrote \cup bus.did : OfDirection(x, filter) /\ OfId(x, id)}
IsDone(done, filter, id) ==
  /\ done \in Seq(Transaction)
  /\ \A i \in DOMAIN done : OfDirection(done[i], filter) =>
       done[i] \in bus.wrote \cup bus.did /\ done[i].addr <= done[i].resp
  /\ \A i, j \in DOMAIN done : done[i] = done[j] => i = j
  /\ \A x \in Wanted(filter, id) : \E i \in DOMAIN done : done[i] = x
LEMMA DoneFacts ==
  ASSUME NEW writes \in Seq(Txn), \A i, j \in DOMAIN writes : writes[i].addr = writes[j].addr => i = j,
         NEW reads, AreAll(reads, bus.did), \A d \in bus.did : ~d.write, bus.wrote \subseteq Txn,
         bus.dataFirst => AreAll(writes, bus.wrote), NEW filter \in Filters, filter = "rd" \/ bus.dataFirst, NEW id
  PROVE  IsDone(writes \o reads, filter, id)
<1>1. PICK n \in Nat : n = Len(writes) /\ DOMAIN writes = 1 .. n
  OBVIOUS
<1>2. reads \in Seq(Transaction)
  BY DEF AreAll
<1>3. PICK m \in Nat : m = Len(reads) /\ DOMAIN reads = 1 .. m
  BY <1>2
<1>4. \A x \in Txn : x \in Transaction /\ x.write = TRUE
  BY DEF Txn, Transaction
<1>5. writes \in Seq(Transaction)
  BY <1>4
<1>6. PICK done : done = writes \o reads
  OBVIOUS
<1>7. done \in Seq(Transaction) /\ DOMAIN done = 1 .. n + m
  <2>1. done \in Seq(Transaction)
    BY <1>2, <1>5, <1>6
  <2>2. ASSUME NEW v \in Seq(Transaction), NEW z \in Seq(Transaction) PROVE Len(v \o z) = Len(v) + Len(z)
    OBVIOUS
  <2>3. Len(done) = n + m
    BY <1>1, <1>2, <1>3, <1>5, <1>6, <2>2
  <2> QED
    BY <1>1, <1>3, <2>1, <2>3
<1>8. ASSUME NEW k \in 1 .. n PROVE k \in 1 .. n + m /\ done[k] = writes[k]
  BY <1>1, <1>2, <1>3, <1>5, <1>6
<1>9. ASSUME NEW k \in 1 .. m PROVE n + k \in 1 .. n + m /\ done[n + k] = reads[k]
  <2>1. n + k > n /\ n + k <= n + m /\ n + k - n = k /\ n + k \in 1 .. n + m
    OBVIOUS
  <2> QED
    BY <1>1, <1>2, <1>3, <1>5, <1>6, <2>1
<1>10. ASSUME NEW k \in 1 .. n + m PROVE k \in 1 .. n \/ \E l \in 1 .. m : k = n + l
  <2>1. k > n => k - n \in 1 .. m /\ k = n + (k - n)
    OBVIOUS
  <2> QED
    BY <2>1
<1>11. \A k \in 1 .. n : writes[k] \in Txn /\ writes[k].write = TRUE
  BY <1>1, <1>4
<1>12. \A k \in 1 .. m : reads[k] \in bus.did /\ ~reads[k].write /\ reads[k].addr <= reads[k].resp
  BY <1>3 DEF AreAll
<1>13. ASSUME NEW i \in 1 .. n + m, OfDirection(done[i], filter)
       PROVE  done[i] \in bus.wrote \cup bus.did /\ done[i].addr <= done[i].resp
  <2>1. CASE i \in 1 .. n
    <3>1. done[i] = writes[i] /\ writes[i].write = TRUE
      BY <1>8, <1>11, <2>1
    <3>2. filter # "rd"
      BY <1>13, <3>1 DEF OfDirection
    <3>3. AreAll(writes, bus.wrote)
      BY <3>2
    <3> QED
      BY <1>1, <2>1, <3>1, <3>3 DEF AreAll
  <2>2. CASE \E l \in 1 .. m : i = n + l
    <3>1. PICK l \in 1 .. m : i = n + l
      BY <2>2
    <3> QED
      BY <1>9, <1>12, <3>1
  <2> QED
    BY <1>10, <2>1, <2>2
<1>14. ASSUME NEW i \in 1 .. n + m, NEW j \in 1 .. n + m, done[i] = done[j] PROVE i = j
  <2>1. CASE i \in 1 .. n /\ j \in 1 .. n
    <3>1. writes[i] = writes[j]
      BY <1>8, <1>14, <2>1
    <3> QED
      BY <1>1, <2>1, <3>1
  <2>2. CASE i \in 1 .. n /\ \E l \in 1 .. m : j = n + l
    <3>1. PICK l \in 1 .. m : j = n + l
      BY <2>2
    <3>2. done[i].write = TRUE /\ ~done[j].write
      BY <1>8, <1>9, <1>11, <1>12, <2>2, <3>1
    <3> QED
      BY <1>14, <3>2
  <2>3. CASE j \in 1 .. n /\ \E l \in 1 .. m : i = n + l
    <3>1. PICK l \in 1 .. m : i = n + l
      BY <2>3
    <3>2. done[j].write = TRUE /\ ~done[i].write
      BY <1>8, <1>9, <1>11, <1>12, <2>3, <3>1
    <3> QED
      BY <1>14, <3>2
  <2>4. CASE (\E k \in 1 .. m : i = n + k) /\ \E l \in 1 .. m : j = n + l
    <3>1. PICK k \in 1 .. m, l \in 1 .. m : i = n + k /\ j = n + l
      BY <2>4
    <3>2. reads[k] = reads[l]
      BY <1>9, <1>14, <3>1
    <3>3. k = l
      BY <1>3, <3>2 DEF AreAll
    <3> QED
      BY <3>1, <3>3
  <2> QED
    BY <1>10, <2>1, <2>2, <2>3, <2>4
<1>15. ASSUME NEW x \in Wanted(filter, id) PROVE \E i \in 1 .. n + m : done[i] = x
  <2>1. OfDirection(x, filter) /\ (x \in bus.wrote \/ x \in bus.did)
    BY DEF Wanted
  <2>2. CASE x \in bus.wrote
    <3>1. x.write = TRUE
      BY <1>4, <2>2
    <3>2. filter # "rd"
      BY <2>1, <3>1 DEF OfDirection
    <3>3. AreAll(writes, bus.wrote)
      BY <3>2
    <3>4. PICK i \in 1 .. n : writes[i] = x
      BY <1>1, <2>2, <3>3 DEF AreAll
    <3> QED
      BY <1>8, <3>4
  <2>3. CASE x \in bus.did
    <3>1. PICK l \in 1 .. m : reads[l] = x
      BY <1>3, <2>3 DEF AreAll
    <3> QED
      BY <1>9, <3>1
  <2> QED
    BY <2>1, <2>2, <2>3
<1> QED
  BY <1>6, <1>7, <1>13, <1>14, <1>15 DEF IsDone

LEMMA LatenciesShow ==
  ASSUME NEW writes, NEW reads, NEW filter, NEW id, IsDone(writes \o reads, filter, id)
  PROVE  SummedUp(LatencyStats(writes, reads, filter, id), [d \in Wanted(filter, id) |-> Latency(d)])
<1>1. PICK done : done = writes \o reads
  OBVIOUS
<1>2. done \in Seq(Transaction)
  BY <1>1 DEF IsDone
<1>3. PICK Q \in SUBSET DOMAIN done : Q = {i \in DOMAIN done : OfDirection(done[i], filter) /\ OfId(done[i], id)}
  OBVIOUS
<1>4. PICK all : all = Picked(done, Q)
  OBVIOUS
<1>5. /\ all \in Seq(Transaction) /\ \A k \in DOMAIN all : \E i \in Q : all[k] = done[i]
      /\ \A i \in Q : \E k \in DOMAIN all : all[k] = done[i]
      /\ \A k, l \in DOMAIN all : k # l => \E i, j \in Q : i # j /\ all[k] = done[i] /\ all[l] = done[j]
  BY <1>2, <1>4, ChosenFacts
<1>6. PICK n \in Nat : n = Len(all) /\ DOMAIN all = 1 .. n
  BY <1>5
<1>7. PICK D, f : D = Wanted(filter, id) /\ f = [d \in D |-> Latency(d)]
  OBVIOUS
<1>8. PICK numbers : numbers = [k \in 1 .. n |-> Latency(all[k])]
  OBVIOUS
<1>9. ASSUME NEW i \in Q PROVE done[i] \in D /\ Latency(done[i]) \in Nat
  <2>1. i \in DOMAIN done /\ OfDirection(done[i], filter) /\ OfId(done[i], id)
    BY <1>3
  <2>2. done[i] \in bus.wrote \cup bus.did /\ done[i].addr <= done[i].resp
    BY <1>1, <2>1 DEF IsDone
  <2>3. done[i] \in D
    BY <1>7, <2>1, <2>2 DEF Wanted
  <2>4. done[i] \in Transaction
    BY <1>2, <2>1
  <2>5. done[i].addr \in Nat /\ done[i].resp \in Nat
    BY <2>4 DEF Transaction
  <2>6. done[i].resp - done[i].addr \in Nat
    BY <2>2, <2>5
  <2> QED
    BY <2>3, <2>6 DEF Latency
<1>10. \A k \in 1 .. n : all[k] \in D /\ numbers[k] = Latency(all[k]) /\ numbers[k] \in Nat
  <2>1. ASSUME NEW k \in 1 .. n PROVE all[k] \in D /\ numbers[k] = Latency(all[k]) /\ numbers[k] \in Nat
    <3>1. PICK i \in Q : all[k] = done[i]
      BY <1>5, <1>6
    <3> QED
      BY <1>8, <1>9, <3>1
  <2> QED
    BY <2>1
<1>11. ASSUME NEW d \in D PROVE \E k \in 1 .. n : all[k] = d
  <2>1. PICK i \in DOMAIN done : done[i] = d
    BY <1>1, <1>7 DEF IsDone
  <2>2. OfDirection(d, filter) /\ OfId(d, id)
    BY <1>7 DEF Wanted
  <2>3. i \in Q
    BY <1>3, <2>1, <2>2
  <2> QED
    BY <1>5, <1>6, <2>1, <2>3
<1>12. ASSUME NEW k \in 1 .. n, NEW l \in 1 .. n, all[k] = all[l] PROVE k = l
  <2>1. SUFFICES ASSUME k # l PROVE FALSE
    OBVIOUS
  <2>2. PICK i \in Q, j \in Q : i # j /\ all[k] = done[i] /\ all[l] = done[j]
    <3>1. k \in DOMAIN all /\ l \in DOMAIN all
      BY <1>6
    <3>2. \A x, y \in DOMAIN all : x # y => \E i, j \in Q : i # j /\ all[x] = done[i] /\ all[y] = done[j]
      BY <1>5
    <3> QED
      BY <2>1, <3>1, <3>2, Zenon
  <2>3. i = j
    BY <1>1, <1>12, <2>2 DEF IsDone
  <2> QED
    BY <2>2, <2>3
<1>13. PICK b : b = [k \in 1 .. n |-> all[k]]
  OBVIOUS
<1>14. \A k \in 1 .. n : b[k] = all[k] /\ f[b[k]] = numbers[k]
  BY <1>7, <1>10, <1>13
<1>15. Tells(b, numbers, n, f, D)
  <2>1. b \in [1 .. n -> D]
    BY <1>10, <1>13
  <2> QED
    BY <1>11, <1>12, <1>14, <2>1 DEF Tells
<1>16. numbers \in Seq(Nat) /\ Len(numbers) = n
  BY <1>8, <1>10
<1>17. f = [d \in D |-> f[d]]
  BY <1>7
<1>18. SummedUp(Stats(numbers), f)
  BY <1>10, <1>15, <1>16, <1>17, NumbersSumUp
<1>19. LatencyStats(writes, reads, filter, id) = Stats(numbers)
  BY <1>1, <1>3, <1>4, <1>6, <1>8 DEF LatencyStats
<1> QED
  BY <1>7, <1>18, <1>19

\* All of it.
LEMMA StatsShow == AxiInv /\ QueryInv => StatsAreTheBus
<1> SUFFICES ASSUME AxiInv, QueryInv, NEW id \in TxnIds \cup {None}, NEW filter \in Filters, filter = "rd" \/ bus.dataFirst
             PROVE  /\ result = None /\ an.samples # << >> /\ Last(an.samples).time = t =>
                         OutstandingIn(Last(an.samples), filter, id) = InFlight(filter, id)
                    /\ result # None =>
                         /\ SummedUp(LatencyStats(an.writes, an.reads, filter, id), [d \in Wanted(filter, id) |-> Latency(d)])
                         /\ SummedUp(OutstandingStats(an.samples, filter, id),
                                     [i \in DOMAIN an.samples |-> OutstandingIn(an.samples[i], filter, id)])
  BY DEF StatsAreTheBus, Wanted
<1>1. ASSUME result = None, an.samples # << >>, Last(an.samples).time = t
      PROVE  OutstandingIn(Last(an.samples), filter, id) = InFlight(filter, id)
  <2>1. t \in Nat /\ Follows(bus, an, t, t) /\ WritesFollow(bus, an, t) /\ ReadsFollow(bus, an, t)
    BY <1>1 DEF AxiInv
  <2>2. DOMAIN an = AnFields
    BY <2>1 DEF Follows
  <2>3. Sampled(an.samples, t) /\ LastIsNow(an, t)
    BY <1>1 DEF QueryInv
  <2> QED
    BY <1>1, <2>1, <2>2, <2>3, LastShows
<1>2. ASSUME result # None
      PROVE  SummedUp(LatencyStats(an.writes, an.reads, filter, id), [d \in Wanted(filter, id) |-> Latency(d)])
  <2>1. IsReported(an.writes, bus.wrote) /\ AreAll(an.reads, bus.did) /\ (bus.dataFirst => AreAll(an.writes, bus.wrote))
    BY <1>2 DEF AxiInv, AllInTurn
  <2>2. bus.wrote \subseteq Txn /\ \A d \in bus.did : ~d.write
    BY <1>2 DEF QueryInv
  <2>3. PICK writes, reads : writes = an.writes /\ reads = an.reads
    OBVIOUS
  <2>4. writes \in Seq(Txn) /\ \A i, j \in DOMAIN writes : writes[i].addr = writes[j].addr => i = j
    BY <2>1, <2>3 DEF IsReported
  <2>5. AreAll(reads, bus.did) /\ (bus.dataFirst => AreAll(writes, bus.wrote))
    BY <2>1, <2>3
  <2>6. IsDone(writes \o reads, filter, id)
    BY <2>2, <2>4, <2>5, DoneFacts
  <2> QED
    BY <2>3, <2>6, LatenciesShow
<1>3. ASSUME result # None
      PROVE  SummedUp(OutstandingStats(an.samples, filter, id), [i \in DOMAIN an.samples |-> OutstandingIn(an.samples[i], filter, id)])
  <2>1. an.samples \in Seq(OneSample)
    BY DEF QueryInv, Sampled
  <2> QED
    BY <2>1, OutstandingShows
<1> QED
  BY <1>1, <1>2, <1>3

\* The counters of an edge are the transactions in flight, and the statistics those of
\* the bus's transactions: what is counted up and down, and summed up in a loop, is what
\* a count of the sets gives.
THEOREM AxiStatsHold == MCSpec => []AxiStatsAreTheBus
<1>1. AxiKept /\ QueryKept => AxiStatsAreTheBus
  BY StatsShow DEF AxiKept, QueryKept, AxiStatsAreTheBus
<1> QED
  BY <1>1, AxiIsKept, QueryIsKept, PTL
================================================================================
