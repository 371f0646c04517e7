------------------------------ MODULE BusProofs ------------------------------
(***************************************************************************)
(* The theorems about ApbAnalyzer, for what BusMC composes: files of any   *)
(* length, any addresses, any number of cursor moves.                      *)
(***************************************************************************)
EXTENDS BusMC, TLAPS

\* What is known of the choice of entries by their indices.
Lists == INSTANCE RegistryDocProofs

ApbTxns == [time : Nat, addr : Addrs, write : BOOLEAN]

(***************************************************************************)
(* The vectors of one direction.                                           *)
(***************************************************************************)
LEMMA SamePicked == \A doc, S : Apb!Picked(doc, S) = Lists!Picked(doc, S)
BY DEF Apb!Picked, Lists!Picked, Apb!Nth, Lists!Nth, Apb!Rank, Lists!Rank, Apb!Cardinality, Lists!Cardinality

LEMMA DirectionFacts ==
  ASSUME NEW all \in Seq(ApbTxns), NEW write \in BOOLEAN
  PROVE  LET I == {i \in DOMAIN all : all[i].write = write}
             w == Apb!OfDirection(all, write) IN
         /\ w \in Seq(ApbTxns) /\ Len(w) = Lists!Cardinality(I) /\ Lists!Cardinality(I) \in Nat
         /\ \A i \in I : all[i] \in Apb!ToSet(w)
<1>1. PICK I \in SUBSET DOMAIN all : I = {i \in DOMAIN all : all[i].write = write}
  OBVIOUS
<1>2. PICK w : w = Apb!OfDirection(all, write)
  OBVIOUS
<1>3. w = Lists!Picked(all, I)
  BY <1>1, <1>2, SamePicked DEF Apb!OfDirection
<1>4. w \in Seq(ApbTxns) /\ \A i \in I : \E k \in DOMAIN w : w[k] = all[i]
  BY <1>3, Lists!PickedFacts
<1>5. Lists!Cardinality(I) \in Nat
  BY Lists!KeptIsFinite, Lists!FS_CardinalityType
<1>6. DOMAIN w = 1 .. Lists!Cardinality(I)
  BY <1>3 DEF Lists!Picked
<1>7. Len(w) = Lists!Cardinality(I)
  BY <1>4, <1>5, <1>6
<1>8. \A i \in I : all[i] \in Apb!ToSet(w)
  BY <1>4 DEF Apb!ToSet
<1> QED
  BY <1>1, <1>2, <1>4, <1>5, <1>7, <1>8

\* Every transfer is in the vector of its direction, and nothing else is there.
LEMMA DirectionsShareAll ==
  ASSUME NEW all \in Seq(ApbTxns)
  PROVE  /\ Len(Apb!OfDirection(all, TRUE)) + Len(Apb!OfDirection(all, FALSE)) = Len(all)
         /\ \A x \in Apb!ToSet(all) : x \in Apb!ToSet(Apb!OfDirection(all, x.write))
<1>1. \A i \in DOMAIN all : all[i] \in ApbTxns /\ all[i].write \in BOOLEAN
  <2>1. \A i \in DOMAIN all : all[i] \in ApbTxns
    OBVIOUS
  <2>2. \A x \in ApbTxns : x.write \in BOOLEAN
    BY DEF ApbTxns
  <2> QED
    BY <2>1, <2>2
<1>2. DOMAIN all = 1 .. Len(all) /\ Len(all) \in Nat
  OBVIOUS
<1>3. PICK I \in SUBSET DOMAIN all : I = {i \in DOMAIN all : all[i].write = TRUE}
  OBVIOUS
<1>4. PICK J \in SUBSET DOMAIN all : J = {i \in DOMAIN all : all[i].write = FALSE}
  OBVIOUS
<1>5. I \cup J = 1 .. Len(all) /\ I \cap J = {}
  BY <1>1, <1>2, <1>3, <1>4
<1>6. Lists!IsFiniteSet(I) /\ Lists!IsFiniteSet(J)
  BY Lists!KeptIsFinite
<1>7. Lists!Cardinality(I \cup J) = Lists!Cardinality(I) + Lists!Cardinality(J) - Lists!Cardinality(I \cap J)
  BY <1>6, Lists!FS_Union
<1>8. Lists!Cardinality(1 .. Len(all)) = Len(all)
  <2>1. Lists!Cardinality(1 .. Len(all)) = IF 1 > Len(all) THEN 0 ELSE Len(all) - 1 + 1
    BY <1>2, Lists!FS_Interval
  <2> QED
    BY <1>2, <2>1
<1>9. Lists!Cardinality(I \cap J) = 0
  BY <1>5, Lists!FS_EmptySet
<1>10. /\ Len(Apb!OfDirection(all, TRUE)) = Lists!Cardinality(I) /\ Lists!Cardinality(I) \in Nat
       /\ Len(Apb!OfDirection(all, FALSE)) = Lists!Cardinality(J) /\ Lists!Cardinality(J) \in Nat
  BY <1>3, <1>4, DirectionFacts
<1>11. Len(Apb!OfDirection(all, TRUE)) + Len(Apb!OfDirection(all, FALSE)) = Len(all)
  <2>1. PICK a \in Nat, b \in Nat, n \in Nat :
          a = Lists!Cardinality(I) /\ b = Lists!Cardinality(J) /\ n = Lists!Cardinality(1 .. Len(all)) /\ n = Len(all)
    BY <1>2, <1>8, <1>10
  <2>2. n = a + b - 0
    BY <1>5, <1>7, <1>9, <2>1
  <2>3. Len(Apb!OfDirection(all, TRUE)) = a /\ Len(Apb!OfDirection(all, FALSE)) = b /\ Len(all) = n
    BY <1>10, <2>1
  <2>4. n = a + b
    BY <2>2
  <2> QED
    BY <2>3, <2>4
<1>12. ASSUME NEW i \in DOMAIN all PROVE all[i] \in Apb!ToSet(Apb!OfDirection(all, all[i].write))
  BY <1>1, DirectionFacts
<1> QED
  BY <1>11, <1>12 DEF Apb!ToSet

(***************************************************************************)
(* The scan.  Between two times nothing of a group is left over, and the   *)
(* analyzer's levels are those of the file.                                *)
(***************************************************************************)
Scanned(s, old, new, levels, all) ==
  s = [posedge |-> edge, clk |-> levels.clk, old |-> old, new |-> new, moved |-> FALSE,
       values |-> [x \in Apb!Data |-> levels[x]], all |-> all]

LEMMA GroupFacts ==
  ASSUME NEW was \in Apb!Levels, NEW levels \in Apb!Levels, NEW before \in {{}, Apb!Data}, NEW all \in Seq(ApbTxns),
         NEW old, NEW new, NEW s, Scanned(s, old, new, was, all), NEW time \in Nat, edge \in BOOLEAN
  PROVE  /\ \E o, n : Scanned(Apb!Group(s, was, levels, before, time), o, n, levels, all \o Apb!Transfer(was, levels, time))
         /\ all \o Apb!Transfer(was, levels, time) \in Seq(ApbTxns)
<1>1. /\ levels.clk \in {"0", "1", "X"} /\ was.clk \in {"0", "1", "X"}
      /\ levels.rst_n \in {"0", "1"} /\ levels.psel \in {"0", "1"} /\ levels.penable \in {"0", "1"}
      /\ levels.pwrite \in {"0", "1", "X"} /\ levels.paddr \in Addrs
  BY DEF Apb!Levels, Apb!Level
<1>2. Apb!Transfer(was, levels, time) \in Seq(ApbTxns)
  <2>1. [time |-> time, addr |-> levels.paddr, write |-> levels.pwrite = "1"] \in ApbTxns
    BY <1>1 DEF ApbTxns
  <2>2. << >> \in Seq(ApbTxns)
    OBVIOUS
  <2> QED
    BY <2>1, <2>2 DEF Apb!Transfer
<1>3. PICK b : b = Apb!Taken(s, levels, before)
  OBVIOUS
<1>4. PICK some : b = [posedge |-> edge, clk |-> was.clk, old |-> old, new |-> new, moved |-> FALSE, values |-> some, all |-> all]
  BY <1>3 DEF Apb!Taken, Scanned
<1>5. PICK values : values = [x \in Apb!Data |-> levels[x]]
  OBVIOUS
<1>6. \A c : [x \in Apb!Data |-> IF x \in Apb!Data THEN levels[x] ELSE c.values[x]] = values
  BY <1>5
<1>7. \A c : Apb!Taken(c, levels, Apb!Data) = [c EXCEPT !.values = values]
  BY <1>6 DEF Apb!Taken
<1>8. all \o Apb!Transfer(was, levels, time) \in Seq(ApbTxns)
  BY <1>2
<1>9. CASE was.clk = levels.clk
  <2>1. PICK e : e = [posedge |-> edge, clk |-> levels.clk, old |-> old, new |-> new, moved |-> FALSE, values |-> values, all |-> all]
    OBVIOUS
  <2>2. Apb!Taken(b, levels, Apb!Data) = e
    <3>1. PICK d : d = [b EXCEPT !.values = values]
      OBVIOUS
    <3>2. d = [posedge |-> edge, clk |-> levels.clk, old |-> old, new |-> new, moved |-> FALSE, values |-> values, all |-> all]
      BY <1>4, <1>9, <3>1
    <3> QED
      BY <1>7, <2>1, <3>1, <3>2
  <2>3. Apb!FinishGroup(e, time) = e
    <3>1. PICK d : d = [e EXCEPT !.moved = FALSE]
      OBVIOUS
    <3>2. d = [posedge |-> edge, clk |-> levels.clk, old |-> old, new |-> new, moved |-> FALSE, values |-> values, all |-> all]
      BY <2>1, <3>1
    <3>3. d = e /\ ~e.moved
      BY <2>1, <3>2
    <3> QED
      BY <3>1, <3>3 DEF Apb!FinishGroup
  <2>4. Apb!Group(s, was, levels, before, time) = e
    BY <1>3, <1>9, <2>2, <2>3 DEF Apb!Group
  <2>5. Apb!Transfer(was, levels, time) = << >> /\ all \o << >> = all
    BY <1>9 DEF Apb!Transfer
  <2>6. Scanned(e, old, new, levels, all)
    BY <1>5, <2>1 DEF Scanned
  <2> QED
    BY <1>8, <2>4, <2>5, <2>6
<1>10. CASE was.clk # levels.clk
  <2>1. PICK e : e = [posedge |-> edge, clk |-> levels.clk, old |-> was.clk, new |-> levels.clk, moved |-> TRUE, values |-> values, all |-> all]
    OBVIOUS
  <2>2. Apb!Taken(Apb!TakenClock(b, levels.clk, time), levels, Apb!Data) = e
    <3>1. PICK c : c = [b EXCEPT !.old = b.clk, !.new = levels.clk, !.clk = levels.clk, !.moved = TRUE]
      OBVIOUS
    <3>2. Apb!TakenClock(b, levels.clk, time) = c
      BY <3>1 DEF Apb!TakenClock
    <3>3. c = [posedge |-> edge, clk |-> levels.clk, old |-> was.clk, new |-> levels.clk, moved |-> TRUE, values |-> some, all |-> all]
      BY <1>4, <3>1
    <3>4. PICK d : d = [c EXCEPT !.values = values]
      OBVIOUS
    <3>5. d = [posedge |-> edge, clk |-> levels.clk, old |-> was.clk, new |-> levels.clk, moved |-> TRUE, values |-> values, all |-> all]
      BY <3>3, <3>4
    <3> QED
      BY <1>7, <2>1, <3>2, <3>4, <3>5
  <2>3. Apb!Group(s, was, levels, before, time) = Apb!FinishGroup(e, time)
    BY <1>3, <1>10, <2>2 DEF Apb!Group
  <2>4. PICK f : f = [e EXCEPT !.moved = FALSE]
    OBVIOUS
  <2>5. f = [posedge |-> edge, clk |-> levels.clk, old |-> was.clk, new |-> levels.clk, moved |-> FALSE, values |-> values, all |-> all]
    BY <2>1, <2>4
  <2>6. PICK counts \in BOOLEAN : counts = ((edge /\ was.clk = "0" /\ levels.clk = "1") \/ (~edge /\ was.clk = "1" /\ levels.clk = "0"))
    BY Zenon
  <2>7. Apb!FinishGroup(e, time) = IF counts THEN Apb!ProcessEdge(f, time) ELSE f
    BY <2>1, <2>4, <2>6 DEF Apb!FinishGroup
  <2>8. PICK txn : txn = [time |-> time, addr |-> levels.paddr, write |-> levels.pwrite = "1"]
    OBVIOUS
  <2>9. PICK selected \in BOOLEAN : selected = (levels.rst_n = "1" /\ levels.psel = "1" /\ levels.penable = "1")
    OBVIOUS
  <2>10. Apb!ProcessEdge(f, time) = IF selected THEN [f EXCEPT !.all = Append(all, txn)] ELSE f
    <3>1. /\ f.values.rst_n = levels.rst_n /\ f.values.psel = levels.psel /\ f.values.penable = levels.penable
          /\ f.values.pwrite = levels.pwrite /\ f.values.paddr = levels.paddr /\ f.all = all
      BY <1>5, <2>5 DEF Apb!Data
    <3>2. (Apb!On(levels.rst_n) /\ Apb!On(levels.psel) /\ Apb!On(levels.penable)) = selected
      BY <1>1, <2>9 DEF Apb!On
    <3>3. Apb!On(levels.pwrite) = (levels.pwrite = "1")
      BY <1>1 DEF Apb!On
    <3> QED
      BY <2>8, <3>1, <3>2, <3>3 DEF Apb!ProcessEdge
  <2>11. Apb!Transfer(was, levels, time) = IF counts /\ selected THEN <<txn>> ELSE << >>
    BY <2>6, <2>8, <2>9 DEF Apb!Transfer
  <2>12. all \o <<txn>> = Append(all, txn) /\ all \o << >> = all
    OBVIOUS
  <2>13. Scanned(f, was.clk, levels.clk, levels, all)
    BY <1>5, <2>5 DEF Scanned
  <2>14. Scanned([f EXCEPT !.all = Append(all, txn)], was.clk, levels.clk, levels, Append(all, txn))
    <3>1. PICK d : d = [f EXCEPT !.all = Append(all, txn)]
      OBVIOUS
    <3>2. d = [posedge |-> edge, clk |-> levels.clk, old |-> was.clk, new |-> levels.clk, moved |-> FALSE,
               values |-> values, all |-> Append(all, txn)]
      BY <2>5, <3>1
    <3>3. Scanned(d, was.clk, levels.clk, levels, Append(all, txn))
      BY <1>5, <3>2 DEF Scanned
    <3> QED
      BY <3>1, <3>3
  <2>15. CASE counts /\ selected
    BY <1>8, <2>3, <2>7, <2>10, <2>11, <2>12, <2>14, <2>15
  <2>16. CASE ~(counts /\ selected)
    BY <1>8, <2>3, <2>7, <2>10, <2>11, <2>12, <2>13, <2>16
  <2> QED
    BY <2>15, <2>16
<1> QED
  BY <1>9, <1>10

Results == [f \in Apb!Filters |-> IF f = "all" THEN truth ELSE Apb!OfDirection(truth, f = "wr")]

ScanInv ==
  /\ edge \in BOOLEAN /\ now \in Nat /\ truth \in Seq(ApbTxns)
  /\ transfers = None => wave \in Apb!Levels /\ \E old, new : Scanned(scan, old, new, wave, truth)
  /\ transfers # None => transfers = Results

(***************************************************************************)
(* The cursors.  A cursor that has shown nothing is at 0, and a walk has   *)
(* shown something.                                                        *)
(***************************************************************************)
CursorFits(f) ==
  /\ cursor[f] \in Nat /\ shown[f] \in Nat
  /\ shown[f] = 0 => cursor[f] = 0
  /\ shown[f] # 0 => transfers # None /\ shown[f] = cursor[f] + 1 /\ shown[f] <= Len(transfers[f])
  /\ walk[f] # None =>
       /\ walk[f] \in [count : Nat, over : BOOLEAN]
       /\ shown[f] # 0 /\ walk[f].count = shown[f] /\ (walk[f].over => walk[f].count = Len(transfers[f]))

WalkInv ==
  /\ DOMAIN cursor = Apb!Filters /\ DOMAIN shown = Apb!Filters /\ DOMAIN walk = Apb!Filters
  /\ \A f \in Apb!Filters : CursorFits(f)

(***************************************************************************)
(* The transfers are in order of time, and none is later than what was     *)
(* read of the file: why a window of them is a stretch.                    *)
(***************************************************************************)
Sorted(s) == \A i, j \in DOMAIN s : i <= j => s[i].time <= s[j].time

TimesGrow == Sorted(truth) /\ \A i \in DOMAIN truth : truth[i].time <= now

IInv == ScanInv /\ WalkInv /\ TimesGrow

LEMMA ResultsFacts ==
  ASSUME truth \in Seq(ApbTxns)
  PROVE  Results # None /\ \A f \in Apb!Filters : Results[f] \in Seq(ApbTxns) /\ Len(Results[f]) \in Nat
<1>1. ASSUME NEW f \in Apb!Filters PROVE Results[f] \in Seq(ApbTxns)
  <2>1. CASE f = "all"
    BY <2>1 DEF Results
  <2>2. CASE f # "all"
    <3>1. PICK write \in BOOLEAN : write = (f = "wr")
      OBVIOUS
    <3>2. Apb!OfDirection(truth, write) \in Seq(ApbTxns)
      BY DirectionFacts
    <3> QED
      BY <2>2, <3>1, <3>2 DEF Results
  <2> QED
    BY <2>1, <2>2
<1>2. Results \in [{"all", "wr", "rd"} -> Seq(ApbTxns)]
  BY <1>1 DEF Results, Apb!Filters
<1>3. Results # None
  BY <1>2, ApbAssumption DEF ApbTxns
<1> QED
  BY <1>1, <1>3

LEMMA ApbInitIsFine == Apb!Init => IInv
<1> SUFFICES ASSUME Apb!Init PROVE IInv
  OBVIOUS
<1>1. Scanned(scan, "", "", wave, << >>)
  BY DEF Apb!Init, Scanned
<1>2. << >> \in Seq(ApbTxns)
  OBVIOUS
<1>3. ScanInv
  BY <1>1, <1>2 DEF Apb!Init, ScanInv
<1>4. WalkInv
  BY DEF Apb!Init, WalkInv, CursorFits
<1>5. TimesGrow
  <2>1. truth = << >>
    BY DEF Apb!Init
  <2>2. \A i : i \notin DOMAIN << >>
    OBVIOUS
  <2> QED
    BY <2>1, <2>2 DEF TimesGrow, Sorted
<1> QED
  BY <1>3, <1>4, <1>5 DEF IInv

LEMMA ScanStep == ScanInv /\ [Apb!Next]_<<now, wave, edge, scan, truth, transfers, cursor, shown, walk>> => ScanInv'
<1> SUFFICES ASSUME ScanInv, [Apb!Next]_<<now, wave, edge, scan, truth, transfers, cursor, shown, walk>> PROVE ScanInv'
  OBVIOUS
<1>1. ASSUME NEW levels \in Apb!Levels, NEW before \in {{}, Apb!Data}, Apb!Change(levels, before) PROVE ScanInv'
  <2>1. /\ transfers = None /\ transfers' = transfers /\ edge' = edge /\ now' = now + 1 /\ wave' = levels
        /\ scan' = Apb!Group(scan, wave, levels, before, now + 1)
        /\ truth' = truth \o Apb!Transfer(wave, levels, now + 1)
    BY <1>1 DEF Apb!Change
  <2>2. PICK old, new : Scanned(scan, old, new, wave, truth)
    BY <2>1 DEF ScanInv
  <2>3. wave \in Apb!Levels /\ truth \in Seq(ApbTxns) /\ now + 1 \in Nat /\ edge \in BOOLEAN
    BY <2>1 DEF ScanInv
  <2>4. truth' \in Seq(ApbTxns) /\ \E o, n : Scanned(scan', o, n, levels, truth')
    BY <2>1, <2>2, <2>3, GroupFacts
  <2>5. \E o, n : Scanned(scan, o, n, wave, truth)'
    BY <2>1, <2>4 DEF Scanned
  <2> QED
    BY <2>1, <2>3, <2>4, <2>5 DEF ScanInv
<1>2. CASE Apb!Finish
  <2>1. PICK old, new : Scanned(scan, old, new, wave, truth)
    BY <1>2 DEF ScanInv, Apb!Finish
  <2>2. scan.all = truth
    BY <2>1 DEF Scanned
  <2>3. transfers' = Results /\ edge' = edge /\ now' = now /\ truth' = truth
    BY <1>2, <2>2 DEF Apb!Finish, Results
  <2>4. Results' = Results
    BY <2>3 DEF Results
  <2>5. Results # None
    BY ResultsFacts DEF ScanInv
  <2> QED
    BY <2>3, <2>4, <2>5 DEF ScanInv
<1>3. CASE UNCHANGED <<now, wave, edge, truth, scan, transfers>>
  <2>1. Results' = Results
    BY <1>3 DEF Results
  <2>2. \A o, n : Scanned(scan, o, n, wave, truth)' <=> Scanned(scan, o, n, wave, truth)
    BY <1>3 DEF Scanned
  <2> QED
    BY <1>3, <2>1, <2>2 DEF ScanInv
<1>4. \A f : Apb!CursorBegin(f) \/ Apb!CursorNext(f) \/ Apb!CursorPrev(f) \/ Apb!CursorLast(f) =>
        UNCHANGED <<now, wave, edge, truth, scan, transfers>>
  BY DEF Apb!CursorBegin, Apb!CursorNext, Apb!CursorPrev, Apb!CursorLast, Apb!file
<1> QED
  BY <1>1, <1>2, <1>3, <1>4 DEF Apb!Next

\* A move of one cursor leaves the others where they are.
LEMMA OtherCursorsStay ==
  ASSUME NEW g, CursorFits(g), UNCHANGED transfers, cursor'[g] = cursor[g], shown'[g] = shown[g], walk'[g] = walk[g]
  PROVE  CursorFits(g)'
BY DEF CursorFits

LEMMA WalkStep ==
  ScanInv /\ WalkInv /\ [Apb!Next]_<<now, wave, edge, scan, truth, transfers, cursor, shown, walk>> => WalkInv'
<1> SUFFICES ASSUME ScanInv, WalkInv, [Apb!Next]_<<now, wave, edge, scan, truth, transfers, cursor, shown, walk>>
             PROVE  WalkInv'
  OBVIOUS
<1>1. CASE UNCHANGED <<transfers, cursor, shown, walk>>
  BY <1>1, OtherCursorsStay DEF WalkInv
<1>2. CASE Apb!Finish
  <2>1. transfers = None /\ cursor' = [f \in Apb!Filters |-> 0] /\ shown' = shown /\ walk' = walk
    BY <1>2 DEF Apb!Finish
  <2>2. ASSUME NEW f \in Apb!Filters PROVE CursorFits(f)'
    BY <2>1 DEF WalkInv, CursorFits
  <2> QED
    BY <2>1, <2>2 DEF WalkInv
<1>3. ASSUME NEW f \in Apb!Filters,
             Apb!CursorBegin(f) \/ Apb!CursorNext(f) \/ Apb!CursorPrev(f) \/ Apb!CursorLast(f)
      PROVE  WalkInv'
  <2>1. transfers # None /\ transfers' = transfers
    BY <1>3 DEF Apb!CursorBegin, Apb!CursorNext, Apb!CursorPrev, Apb!CursorLast
  <2>2. transfers[f] \in Seq(ApbTxns) /\ Len(transfers[f]) \in Nat
    BY <2>1, ResultsFacts DEF ScanInv
  <2>3. transfers[f] # << >> => Len(transfers[f]) > 0
    BY <2>2
  <2>4. CursorFits(f)
    BY DEF WalkInv
  <2>5. /\ DOMAIN cursor' = Apb!Filters /\ DOMAIN shown' = Apb!Filters /\ DOMAIN walk' = Apb!Filters
        /\ \A g \in Apb!Filters \ {f} : cursor'[g] = cursor[g] /\ shown'[g] = shown[g] /\ walk'[g] = walk[g]
    BY <1>3 DEF Apb!CursorBegin, Apb!CursorNext, Apb!CursorPrev, Apb!CursorLast, Apb!Show, WalkInv
  <2>6. ASSUME Apb!CursorBegin(f) PROVE CursorFits(f)'
    <3>1. CASE transfers[f] # << >>
      <4>1. cursor'[f] = 0 /\ shown'[f] = 1 /\ walk'[f] = [count |-> 1, over |-> FALSE]
        BY <2>6, <3>1 DEF Apb!CursorBegin, Apb!Show, WalkInv
      <4> QED
        BY <2>1, <2>2, <2>3, <3>1, <4>1 DEF CursorFits
    <3>2. CASE transfers[f] = << >>
      <4>1. cursor'[f] = 0 /\ shown' = shown /\ walk' = walk
        BY <2>6, <3>2 DEF Apb!CursorBegin, WalkInv
      <4>2. shown[f] = 0
        BY <2>4, <3>2 DEF CursorFits
      <4> QED
        BY <2>1, <2>4, <4>1, <4>2 DEF CursorFits
    <3> QED
      BY <3>1, <3>2
  <2>7. ASSUME Apb!CursorNext(f) PROVE CursorFits(f)'
    <3>1. CASE cursor[f] + 1 < Len(transfers[f])
      <4>1. /\ cursor' = [cursor EXCEPT ![f] = cursor[f] + 1] /\ shown' = [shown EXCEPT ![f] = cursor[f] + 1 + 1]
            /\ walk' = [walk EXCEPT ![f] = Apb!Onward(walk[f])]
        BY <2>7, <3>1 DEF Apb!CursorNext, Apb!Show
      <4>2. cursor'[f] = cursor[f] + 1 /\ shown'[f] = cursor[f] + 1 + 1
        BY <4>1 DEF WalkInv
      <4>3. CASE walk[f] = None
        <5>1. walk'[f] = None
          BY <4>1, <4>3 DEF WalkInv, Apb!Onward
        <5> QED
          BY <2>1, <2>2, <2>4, <3>1, <4>2, <5>1 DEF CursorFits
      <4>4. CASE walk[f] # None
        <5>1. PICK count \in Nat, over \in BOOLEAN : walk[f] = [count |-> count, over |-> over]
          BY <2>4, <4>4 DEF CursorFits
        <5>2. walk'[f] = Apb!Onward(walk[f])
          BY <4>1 DEF WalkInv
        <5>3. walk'[f] = [count |-> count + 1, over |-> over]
          <6>1. PICK w : w = walk[f] /\ w = [count |-> count, over |-> over] /\ w # None
            BY <4>4, <5>1
          <6>2. Apb!Onward(w) = [w EXCEPT !.count = w.count + 1]
            BY <6>1 DEF Apb!Onward
          <6> QED
            BY <5>2, <6>1, <6>2
        <5>4. /\ shown[f] # 0 /\ count = shown[f] /\ (over => count = Len(transfers[f]))
              /\ cursor[f] \in Nat /\ shown[f] = cursor[f] + 1
          BY <2>4, <4>4, <5>1 DEF CursorFits
        <5>5. ~over
          BY <2>2, <3>1, <5>4
        <5> QED
          BY <2>1, <2>2, <3>1, <4>2, <5>3, <5>4, <5>5 DEF CursorFits
      <4> QED
        BY <4>3, <4>4
    <3>2. CASE ~(cursor[f] + 1 < Len(transfers[f]))
      <4>1. /\ cursor' = cursor /\ shown' = shown
            /\ walk' = [walk EXCEPT ![f] = Apb!Ended(walk[f])]
        BY <2>7, <3>2 DEF Apb!CursorNext
      <4>2. CASE walk[f] = None
        <5>1. walk'[f] = None
          BY <4>1, <4>2 DEF WalkInv, Apb!Ended
        <5> QED
          BY <2>1, <2>4, <4>1, <5>1 DEF CursorFits
      <4>3. CASE walk[f] # None
        <5>1. PICK count \in Nat, over \in BOOLEAN : walk[f] = [count |-> count, over |-> over]
          BY <2>4, <4>3 DEF CursorFits
        <5>2. walk'[f] = Apb!Ended(walk[f])
          BY <4>1 DEF WalkInv
        <5>3. walk'[f] = [count |-> count, over |-> TRUE]
          <6>1. PICK w : w = walk[f] /\ w = [count |-> count, over |-> over] /\ w # None
            BY <4>3, <5>1
          <6>2. Apb!Ended(w) = [w EXCEPT !.over = TRUE]
            BY <6>1 DEF Apb!Ended
          <6>3. w = [count |-> count, over |-> over]
            BY <6>1
          <6>4. PICK d : d = [w EXCEPT !.over = TRUE]
            OBVIOUS
          <6>5. d = [count |-> count, over |-> TRUE]
            BY <6>3, <6>4
          <6>6. Apb!Ended(walk[f]) = d
            BY <6>1, <6>2, <6>4
          <6> QED
            BY <5>2, <6>5, <6>6
        <5>4. /\ shown[f] # 0 /\ count = shown[f] /\ cursor[f] \in Nat
              /\ shown[f] = cursor[f] + 1 /\ shown[f] <= Len(transfers[f])
          BY <2>4, <4>3, <5>1 DEF CursorFits
        <5>5. count = Len(transfers[f])
          BY <2>2, <3>2, <5>4
        <5>6. cursor'[f] = cursor[f] /\ shown'[f] = shown[f] /\ transfers'[f] = transfers[f]
          BY <2>1, <4>1
        <5>7. /\ walk'[f] \in [count : Nat, over : BOOLEAN]
              /\ walk'[f].count = count /\ walk'[f].over = TRUE
          BY <5>3
        <5> QED
          BY <2>1, <2>2, <2>4, <5>4, <5>5, <5>6, <5>7 DEF CursorFits
      <4> QED
        BY <4>2, <4>3
    <3> QED
      BY <3>1, <3>2
  <2>8. ASSUME Apb!CursorPrev(f) PROVE CursorFits(f)'
    <3>1. walk'[f] = None
      BY <2>8 DEF Apb!CursorPrev, WalkInv
    <3>2. CASE cursor[f] > 0
      <4>1. cursor'[f] = cursor[f] - 1 /\ shown'[f] = cursor[f] - 1 + 1
        BY <2>8, <3>2 DEF Apb!CursorPrev, Apb!Show, WalkInv
      <4> QED
        BY <2>1, <2>2, <2>4, <3>1, <3>2, <4>1 DEF CursorFits
    <3>3. CASE ~(cursor[f] > 0)
      <4>1. cursor' = cursor /\ shown' = shown
        BY <2>8, <3>3 DEF Apb!CursorPrev
      <4> QED
        BY <2>1, <2>4, <3>1, <4>1 DEF CursorFits
    <3> QED
      BY <3>2, <3>3
  <2>9. ASSUME Apb!CursorLast(f) PROVE CursorFits(f)'
    <3>1. walk'[f] = None
      BY <2>9 DEF Apb!CursorLast, WalkInv
    <3>2. CASE transfers[f] # << >>
      <4>1. cursor'[f] = Len(transfers[f]) - 1 /\ shown'[f] = Len(transfers[f]) - 1 + 1
        BY <2>9, <3>2 DEF Apb!CursorLast, Apb!Show, WalkInv
      <4> QED
        BY <2>1, <2>2, <2>3, <3>1, <3>2, <4>1 DEF CursorFits
    <3>3. CASE transfers[f] = << >>
      <4>1. cursor' = cursor /\ shown' = shown
        BY <2>9, <3>3 DEF Apb!CursorLast
      <4> QED
        BY <2>1, <2>4, <3>1, <4>1 DEF CursorFits
    <3> QED
      BY <3>2, <3>3
  <2>10. CursorFits(f)'
    BY <1>3, <2>6, <2>7, <2>8, <2>9
  <2>11. \A g \in Apb!Filters \ {f} : CursorFits(g)'
    BY <2>1, <2>5, OtherCursorsStay DEF WalkInv
  <2> QED
    BY <2>5, <2>10, <2>11 DEF WalkInv
<1>4. \A levels, before : Apb!Change(levels, before) => UNCHANGED <<transfers, cursor, shown, walk>>
  BY DEF Apb!Change
<1> QED
  BY <1>1, <1>2, <1>3, <1>4 DEF Apb!Next

LEMMA TimesStep ==
  ScanInv /\ TimesGrow /\ [Apb!Next]_<<now, wave, edge, scan, truth, transfers, cursor, shown, walk>> => TimesGrow'
<1> SUFFICES ASSUME ScanInv, TimesGrow, [Apb!Next]_<<now, wave, edge, scan, truth, transfers, cursor, shown, walk>>
             PROVE  TimesGrow'
  OBVIOUS
<1>1. CASE UNCHANGED <<now, truth>>
  BY <1>1 DEF TimesGrow, Sorted
<1>2. ASSUME NEW levels \in Apb!Levels, NEW before \in {{}, Apb!Data}, Apb!Change(levels, before) PROVE TimesGrow'
  <2>1. now' = now + 1 /\ truth' = truth \o Apb!Transfer(wave, levels, now + 1)
    BY <1>2 DEF Apb!Change
  <2>2. now \in Nat /\ truth \in Seq(ApbTxns)
    BY DEF ScanInv
  <2>3. CASE truth' = truth
    <3>1. ASSUME NEW i \in DOMAIN truth PROVE truth[i].time <= now + 1
      <4>1. truth[i] \in ApbTxns
        BY <2>2
      <4>2. truth[i].time \in Nat /\ truth[i].time <= now
        BY <4>1 DEF ApbTxns, TimesGrow
      <4> QED
        BY <2>2, <4>2
    <3> QED
      BY <2>1, <2>3, <3>1 DEF TimesGrow, Sorted
  <2>4. ASSUME NEW txn, txn.time = now + 1, truth' = Append(truth, txn) PROVE TimesGrow'
    <3>1. PICK n \in Nat : n = Len(truth) /\ DOMAIN truth = 1 .. n
      BY <2>2
    <3>2. DOMAIN truth' = 1 .. n + 1 /\ truth'[n + 1] = txn /\ \A i \in 1 .. n : truth'[i] = truth[i]
      BY <2>2, <2>4, <3>1
    <3>3. ASSUME NEW i \in 1 .. n PROVE truth[i].time \in Nat /\ truth[i].time <= now
      <4>1. truth[i] \in ApbTxns
        BY <2>2, <3>1
      <4> QED
        BY <3>1, <4>1 DEF ApbTxns, TimesGrow
    <3>4. \A i \in 1 .. n + 1 : i \in 1 .. n \/ i = n + 1
      BY <3>1
    <3>5. \A i \in 1 .. n + 1 : truth'[i].time <= now + 1
      BY <2>2, <2>4, <3>2, <3>3, <3>4
    <3>6. ASSUME NEW i \in 1 .. n + 1, NEW j \in 1 .. n + 1, i <= j PROVE truth'[i].time <= truth'[j].time
      <4>1. CASE j = n + 1
        BY <2>4, <3>2, <3>5, <4>1
      <4>2. CASE j \in 1 .. n
        <5>1. i \in 1 .. n
          BY <3>6, <4>2
        <5>2. truth[i].time <= truth[j].time
          BY <3>1, <3>6, <4>2, <5>1 DEF TimesGrow, Sorted
        <5> QED
          BY <3>2, <4>2, <5>1, <5>2
      <4> QED
        BY <3>4, <4>1, <4>2
    <3> QED
      BY <2>1, <3>2, <3>5, <3>6 DEF TimesGrow, Sorted
  <2>5. CASE Apb!Transfer(wave, levels, now + 1) = << >>
    BY <2>1, <2>2, <2>3, <2>5
  <2>6. CASE Apb!Transfer(wave, levels, now + 1) # << >>
    <3>1. PICK txn : txn = [time |-> now + 1, addr |-> levels.paddr, write |-> levels.pwrite = "1"]
      OBVIOUS
    <3>2. Apb!Transfer(wave, levels, now + 1) = <<txn>> /\ txn.time = now + 1
      BY <2>6, <3>1 DEF Apb!Transfer
    <3>3. \A s \in Seq(ApbTxns) : s \o <<txn>> = Append(s, txn)
      OBVIOUS
    <3>4. truth' = Append(truth, txn)
      BY <2>1, <2>2, <3>2, <3>3
    <3> QED
      BY <2>4, <3>2, <3>4
  <2> QED
    BY <2>5, <2>6
<1>3. CASE Apb!Finish
  BY <1>1, <1>3 DEF Apb!Finish
<1>4. \A f : Apb!CursorBegin(f) \/ Apb!CursorNext(f) \/ Apb!CursorPrev(f) \/ Apb!CursorLast(f) => UNCHANGED <<now, truth>>
  BY DEF Apb!CursorBegin, Apb!CursorNext, Apb!CursorPrev, Apb!CursorLast, Apb!file
<1> QED
  BY <1>1, <1>2, <1>3, <1>4 DEF Apb!Next

(***************************************************************************)
(* Windows: the transfers are in order of time, so the first entry of the  *)
(* window and the first behind it have the window between them.            *)
(***************************************************************************)
LEMMA FirstIndex ==
  ASSUME NEW n \in Nat, NEW I \in SUBSET (1 .. n), I # {}
  PROVE  /\ Apb!Min(I) \in I /\ \A i \in I : Apb!Min(I) <= i
         /\ Apb!Max(I) \in I /\ \A i \in I : i <= Apb!Max(I)
<1>1. Apb!Min(I) \in I /\ \A i \in I : Apb!Min(I) <= i
  BY Lists!HasEnds DEF Apb!Min
<1>2. Apb!Max(I) \in I /\ \A i \in I : i <= Apb!Max(I)
  <2>1. PICK m \in I : \A i \in I : i <= m
    BY Lists!HasEnds
  <2>2. \A i \in I : m >= i
    <3>1. \A i \in I : i \in Nat /\ m \in Nat
      OBVIOUS
    <3> QED
      BY <2>1, <3>1
  <2>3. PICK x : x = Apb!Max(I)
    OBVIOUS
  <2>4. x \in I /\ \A i \in I : x >= i
    BY <2>2, <2>3 DEF Apb!Max
  <2>5. \A i \in I : i \in Nat /\ x \in Nat
    BY <2>4
  <2> QED
    BY <2>3, <2>4, <2>5
<1> QED
  BY <1>1, <1>2

LEMMA WindowIsStretch ==
  ASSUME NEW s \in Seq(ApbTxns), Sorted(s), NEW begin \in Nat, NEW end \in Nat
  PROVE  LET from == Apb!SelectInSeq(s, LAMBDA x : x.time >= begin)
             past == Apb!SelectInSeq(s, LAMBDA x : x.time > end)
         IN IF from = 0 THEN Apb!Within(s, begin, end) = << >>
            ELSE SubSeq(s, from, IF past = 0 THEN Len(s) ELSE past - 1) = Apb!Within(s, begin, end)
<1>1. PICK n \in Nat : n = Len(s) /\ DOMAIN s = 1 .. n
  OBVIOUS
<1>2. \A i \in 1 .. n : s[i] \in ApbTxns /\ s[i].time \in Nat
  <2>1. \A i \in 1 .. n : s[i] \in ApbTxns
    BY <1>1
  <2> QED
    BY <2>1 DEF ApbTxns
<1>3. PICK F \in SUBSET (1 .. n) : F = {i \in 1 .. n : s[i].time >= begin}
  OBVIOUS
<1>4. PICK from : from = Apb!SelectInSeq(s, LAMBDA x : x.time >= begin)
  OBVIOUS
<1>5. from = IF F # {} THEN Apb!Min(F) ELSE 0
  BY <1>1, <1>3, <1>4 DEF Apb!SelectInSeq
<1>6. /\ F = {i \in 1 .. n : s[i].time >= begin} /\ from = IF F # {} THEN Apb!Min(F) ELSE 0
      /\ from = Apb!SelectInSeq(s, LAMBDA x : x.time >= begin)
  BY <1>3, <1>4, <1>5
<1>7. PICK P \in SUBSET (1 .. n) : P = {i \in 1 .. n : s[i].time > end}
  OBVIOUS
<1>8. PICK past : past = Apb!SelectInSeq(s, LAMBDA x : x.time > end)
  OBVIOUS
<1>9. past = IF P # {} THEN Apb!Min(P) ELSE 0
  BY <1>1, <1>7, <1>8 DEF Apb!SelectInSeq
<1>10. /\ P = {i \in 1 .. n : s[i].time > end} /\ past = IF P # {} THEN Apb!Min(P) ELSE 0
      /\ past = Apb!SelectInSeq(s, LAMBDA x : x.time > end)
  BY <1>7, <1>8, <1>9
<1>11. PICK W \in SUBSET (1 .. n) : W = {i \in 1 .. n : begin <= s[i].time /\ s[i].time <= end}
  OBVIOUS
<1>12. Apb!Within(s, begin, end) = Lists!Picked(s, W)
  BY <1>1, <1>11, SamePicked DEF Apb!Within
<1>13. CASE F = {}
  <2>1. W = {}
    BY <1>2, <1>6, <1>11, <1>13
  <2>2. 1 .. 0 = {} /\ 1 \in 1 .. Len(s) + 1 /\ 0 \in 0 .. Len(s)
    BY <1>1
  <2>3. Lists!Picked(s, 1 .. 0) = SubSeq(s, 1, 0)
    BY <2>2, Lists!PickedStretch
  <2>4. SubSeq(s, 1, 0) = << >>
    BY <1>1
  <2>5. Apb!Within(s, begin, end) = << >> /\ from = 0
    BY <1>6, <1>12, <1>13, <2>1, <2>2, <2>3, <2>4
  <2> QED
    BY <1>6, <2>5
<1>14. CASE F # {}
  <2>1. from \in F /\ \A i \in F : from <= i
    <3>1. Apb!Min(F) \in F /\ \A i \in F : Apb!Min(F) <= i
      BY <1>14, FirstIndex
    <3> QED
      BY <1>6, <1>14, <3>1
  <2>2. from \in 1 .. n /\ s[from].time >= begin /\ s[from].time \in Nat
    BY <1>2, <1>6, <2>1
  <2>3. ASSUME NEW i \in 1 .. n PROVE begin <= s[i].time <=> from <= i
    <3>1. s[i].time \in Nat
      BY <1>2
    <3>2. begin <= s[i].time => from <= i
      BY <1>6, <2>1, <3>1
    <3>3. from <= i => s[from].time <= s[i].time
      BY <1>1, <2>2 DEF Sorted
    <3> QED
      BY <2>2, <3>1, <3>2, <3>3
  <2>4. PICK b \in 0 .. n : (b = IF past = 0 THEN n ELSE past - 1) /\ \A i \in 1 .. n : s[i].time <= end <=> i <= b
    <3>1. CASE P = {}
      <4>1. past = 0
        BY <1>10, <3>1
      <4>2. ASSUME NEW i \in 1 .. n PROVE s[i].time <= end <=> i <= n
        <5>1. ~(s[i].time > end) /\ s[i].time \in Nat
          BY <1>2, <1>10, <3>1
        <5> QED
          BY <5>1
      <4>3. n \in 0 .. n
        OBVIOUS
      <4> QED
        BY <4>1, <4>2, <4>3
    <3>2. CASE P # {}
      <4>1. past \in P /\ \A i \in P : past <= i
        <5>1. Apb!Min(P) \in P /\ \A i \in P : Apb!Min(P) <= i
          BY <3>2, FirstIndex
        <5> QED
          BY <1>10, <3>2, <5>1
      <4>2. past \in 1 .. n /\ s[past].time > end /\ s[past].time \in Nat
        BY <1>2, <1>10, <4>1
      <4>3. ASSUME NEW i \in 1 .. n PROVE s[i].time <= end <=> i <= past - 1
        <5>1. s[i].time \in Nat
          BY <1>2
        <5>2. s[i].time > end => past <= i
          BY <1>10, <4>1, <5>1
        <5>3. past <= i => s[past].time <= s[i].time
          BY <1>1, <4>2 DEF Sorted
        <5> QED
          BY <4>2, <5>1, <5>2, <5>3
      <4>4. past # 0 /\ past - 1 \in 0 .. n
        BY <4>2
      <4> QED
        BY <4>3, <4>4
    <3> QED
      BY <3>1, <3>2
  <2>5. W = from .. b
    BY <1>11, <2>2, <2>3, <2>4
  <2>6. from \in 1 .. Len(s) + 1 /\ b \in 0 .. Len(s) /\ from # 0
    BY <1>1, <2>2, <2>4
  <2>7. Lists!Picked(s, from .. b) = SubSeq(s, from, b)
    BY <2>6, Lists!PickedStretch
  <2> QED
    BY <1>1, <1>6, <1>10, <1>12, <2>4, <2>5, <2>6, <2>7
<1> QED
  BY <1>13, <1>14

LEMMA InRangeIsTheWindow ==
  ASSUME NEW s \in Seq(ApbTxns), Sorted(s), NEW begin \in Nat, NEW end \in Nat,
         NEW limit \in Nat \cup {Apb!NoLimit}
  PROVE  Apb!InRange(s, begin, end, limit) = Apb!Cut(Apb!Within(s, begin, end), limit)
<1>1. PICK w : w = Apb!Within(s, begin, end)
  OBVIOUS
<1>2. w = << >> => Apb!Cut(w, limit) = << >>
  BY DEF Apb!Cut, Apb!NoLimit
<1> QED
  BY <1>1, <1>2, WindowIsStretch DEF Apb!InRange

LEMMA StartFacts ==
  ASSUME NEW w \in Seq(ApbTxns), NEW k \in 0 .. Len(w)
  PROVE  /\ SubSeq(w, 1, k) \in Seq(ApbTxns) /\ Len(SubSeq(w, 1, k)) = k /\ SubSeq(w, 1, Len(w)) = w
         /\ \A l \in 0 .. k : SubSeq(SubSeq(w, 1, k), 1, l) = SubSeq(w, 1, l)
<1>1. PICK n \in Nat : n = Len(w) /\ DOMAIN w = 1 .. n /\ k \in Nat /\ k <= n
  OBVIOUS
<1>2. PICK v : v = SubSeq(w, 1, k)
  OBVIOUS
<1>3. v \in Seq(ApbTxns) /\ Len(v) = k /\ \A i \in 1 .. k : v[i] = w[i]
  BY <1>1, <1>2
<1>4. SubSeq(w, 1, Len(w)) = w
  OBVIOUS
<1>5. ASSUME NEW l \in 0 .. k PROVE SubSeq(v, 1, l) = SubSeq(w, 1, l)
  <2>1. SubSeq(v, 1, l) = [i \in 1 .. l |-> v[i]] /\ SubSeq(w, 1, l) = [i \in 1 .. l |-> w[i]]
    BY <1>1, <1>3
  <2>2. \A i \in 1 .. l : v[i] = w[i]
    BY <1>1, <1>3
  <2> QED
    BY <2>1, <2>2
<1> QED
  BY <1>2, <1>3, <1>4, <1>5

LEMMA CutFacts ==
  ASSUME NEW w \in Seq(ApbTxns), NEW limit \in Nat \cup {Apb!NoLimit}
  PROVE  LET over == limit # Apb!NoLimit /\ Len(w) > limit IN
         /\ Apb!Cut(w, limit) = SubSeq(w, 1, IF over THEN limit ELSE Len(w))
         /\ Apb!Cut(w, limit) \in Seq(ApbTxns)
         /\ Len(Apb!Cut(w, limit)) = IF over THEN limit ELSE Len(w)
         /\ Apb!Cut(w, limit) # w <=> over
<1>1. Len(w) \in Nat /\ Apb!NoLimit \notin Nat
  BY DEF Apb!NoLimit
<1>2. CASE limit # Apb!NoLimit /\ Len(w) > limit
  <2>1. limit \in 0 .. Len(w)
    BY <1>1, <1>2
  <2>2. Apb!Cut(w, limit) = SubSeq(w, 1, limit)
    BY <1>2 DEF Apb!Cut
  <2>3. SubSeq(w, 1, limit) \in Seq(ApbTxns) /\ Len(SubSeq(w, 1, limit)) = limit
    BY <2>1, StartFacts
  <2> QED
    BY <1>1, <1>2, <2>1, <2>2, <2>3
<1>3. CASE ~(limit # Apb!NoLimit /\ Len(w) > limit)
  <2>1. Apb!Cut(w, limit) = w
    BY <1>3 DEF Apb!Cut
  <2>2. SubSeq(w, 1, Len(w)) = w
    OBVIOUS
  <2> QED
    BY <1>1, <1>3, <2>1, <2>2
<1> QED
  BY <1>2, <1>3

\* One more than the limit is enough to know whether there are more.
LEMMA ReplyIsExact ==
  ASSUME NEW w \in Seq(ApbTxns), NEW limit \in Nat \cup {Apb!NoLimit}, NEW due,
         due = w \/ due = Apb!Cut(w, IF limit = Apb!NoLimit THEN Apb!NoLimit ELSE limit + 1)
  PROVE  Apb!WindowIsExact([list |-> Apb!Cut(due, limit), truncated |-> Apb!Cut(due, limit) # due], w, limit)
<1>1. PICK n \in Nat : n = Len(w)
  OBVIOUS
<1>2. Apb!NoLimit \notin Nat /\ \A k \in Nat : k + 1 # Apb!NoLimit
  BY DEF Apb!NoLimit
<1>3. PICK over \in BOOLEAN : over = (limit # Apb!NoLimit /\ n > limit)
  OBVIOUS
<1>4. over => limit \in Nat /\ n > limit
  BY <1>3
<1>5. PICK m \in 0 .. n : due = SubSeq(w, 1, m) /\ (IF over THEN m > limit ELSE m = n)
  <2>1. CASE due = w
    <3>1. n \in 0 .. n /\ due = SubSeq(w, 1, n)
      BY <1>1, <2>1
    <3> QED
      BY <1>3, <3>1
  <2>2. CASE due = Apb!Cut(w, Apb!NoLimit) /\ limit = Apb!NoLimit
    <3>1. due = SubSeq(w, 1, n) /\ n \in 0 .. n
      BY <1>1, <2>2, CutFacts
    <3> QED
      BY <1>2, <1>3, <2>2, <3>1
  <2>3. CASE due = Apb!Cut(w, limit + 1) /\ limit \in Nat
    <3>1. due = SubSeq(w, 1, IF n > limit + 1 THEN limit + 1 ELSE n)
      BY <1>1, <1>2, <2>3, CutFacts
    <3>2. CASE n > limit + 1
      <4>1. limit + 1 \in 0 .. n /\ limit + 1 > limit /\ n > limit
        BY <2>3, <3>2
      <4> QED
        BY <1>2, <1>3, <2>3, <3>1, <3>2, <4>1
    <3>3. CASE ~(n > limit + 1)
      <4>1. n \in 0 .. n
        OBVIOUS
      <4> QED
        BY <1>4, <3>1, <3>3, <4>1
    <3> QED
      BY <3>2, <3>3
  <2> QED
    BY <1>2, <2>1, <2>2, <2>3
<1>6. due \in Seq(ApbTxns) /\ Len(due) = m /\ \A l \in 0 .. m : SubSeq(due, 1, l) = SubSeq(w, 1, l)
  BY <1>1, <1>5, StartFacts
<1>7. (limit # Apb!NoLimit /\ Len(due) > limit) <=> over
  BY <1>3, <1>5, <1>6
<1>8. PICK list : list = Apb!Cut(due, limit)
  OBVIOUS
<1>9. /\ list = SubSeq(due, 1, IF over THEN limit ELSE m)
      /\ Len(list) = IF over THEN limit ELSE m
      /\ list # due <=> over
  BY <1>6, <1>7, <1>8, CutFacts
<1>10. PICK l \in 0 .. m : l = IF over THEN limit ELSE m
  BY <1>4, <1>5
<1>11. list = SubSeq(w, 1, l) /\ Len(list) = l /\ l \in 0 .. n
  BY <1>6, <1>9, <1>10
<1>12. SubSeq(list, 1, l) = SubSeq(w, 1, l)
  BY <1>1, <1>11, StartFacts
<1>13. Apb!IsPrefix(list, w)
  BY <1>1, <1>11, <1>12 DEF Apb!IsPrefix
<1> QED
  BY <1>1, <1>3, <1>5, <1>8, <1>9, <1>10, <1>11, <1>13 DEF Apb!WindowIsExact

\* The entries of one direction in a window are the window of that direction's.
LEMMA DirectionOfWindow ==
  ASSUME NEW s \in Seq(ApbTxns), NEW write \in BOOLEAN, NEW begin \in Nat, NEW end \in Nat
  PROVE  /\ Apb!OfDirection(Apb!Within(s, begin, end), write) = Apb!Within(Apb!OfDirection(s, write), begin, end)
         /\ Apb!Within(s, begin, end) \in Seq(ApbTxns) /\ Apb!OfDirection(s, write) \in Seq(ApbTxns)
<1>1. PICK W \in SUBSET DOMAIN s : W = {i \in DOMAIN s : begin <= s[i].time /\ s[i].time <= end}
  OBVIOUS
<1>2. PICK D \in SUBSET DOMAIN s : D = {i \in DOMAIN s : s[i].write = write}
  OBVIOUS
<1>3. PICK P : P = W \cap D
  OBVIOUS
<1>4. Apb!Within(s, begin, end) = Lists!Picked(s, W) /\ Apb!OfDirection(s, write) = Lists!Picked(s, D)
  BY <1>1, <1>2, SamePicked DEF Apb!Within, Apb!OfDirection
<1>5. Lists!Picked(s, W) \in Seq(ApbTxns) /\ Lists!Picked(s, D) \in Seq(ApbTxns)
  BY Lists!PickedFacts
<1>6. ASSUME NEW Q \in SUBSET DOMAIN s, NEW k \in DOMAIN Lists!Picked(s, Q)
      PROVE  Lists!Picked(s, Q)[k] = s[Lists!Nth(Q, k)] /\ Lists!Nth(Q, k) \in Q
  <2>1. Q \in SUBSET Nat /\ Lists!IsFiniteSet(Q)
    BY Lists!KeptIsFinite
  <2>2. k \in 1 .. Lists!Cardinality(Q)
    BY <1>6 DEF Lists!Picked
  <2> QED
    BY <2>1, <2>2, Lists!NthFacts DEF Lists!Picked
<1>7. Apb!OfDirection(Lists!Picked(s, W), write) = Lists!Picked(s, P)
  <2>1. PICK w : w = Lists!Picked(s, W)
    OBVIOUS
  <2>2. PICK R : R = {k \in DOMAIN w : w[k].write = write}
    OBVIOUS
  <2>3. R = {k \in DOMAIN Lists!Picked(s, W) : Lists!Nth(W, k) \in P}
    BY <1>2, <1>3, <1>6, <2>1, <2>2
  <2>4. P \in SUBSET W
    BY <1>3
  <2>5. Lists!Picked(Lists!Picked(s, W), R) = Lists!Picked(s, P)
    BY <2>3, <2>4, Lists!PickedTwice
  <2> QED
    BY <2>1, <2>2, <2>5, SamePicked DEF Apb!OfDirection
<1>8. Apb!Within(Lists!Picked(s, D), begin, end) = Lists!Picked(s, P)
  <2>1. PICK w : w = Lists!Picked(s, D)
    OBVIOUS
  <2>2. PICK R : R = {k \in DOMAIN w : begin <= w[k].time /\ w[k].time <= end}
    OBVIOUS
  <2>3. R = {k \in DOMAIN Lists!Picked(s, D) : Lists!Nth(D, k) \in P}
    BY <1>1, <1>3, <1>6, <2>1, <2>2
  <2>4. P \in SUBSET D
    BY <1>3
  <2>5. Lists!Picked(Lists!Picked(s, D), R) = Lists!Picked(s, P)
    BY <2>3, <2>4, Lists!PickedTwice
  <2> QED
    BY <2>1, <2>2, <2>5, SamePicked DEF Apb!Within
<1> QED
  BY <1>4, <1>5, <1>7, <1>8

LEMMA TransferWindowIsExact ==
  ASSUME NEW s \in Seq(ApbTxns), Sorted(s), NEW begin \in Nat, NEW end \in Nat,
         NEW limit \in Nat \cup {Apb!NoLimit}, NEW f \in Apb!Filters
  PROVE  Apb!WindowIsExact(Apb!TransferWindow(s, begin, end, f, limit),
           Apb!Within(IF f = "all" THEN s ELSE Apb!OfDirection(s, f = "wr"), begin, end), limit)
<1>1. PICK w : w = Apb!Within(IF f = "all" THEN s ELSE Apb!OfDirection(s, f = "wr"), begin, end)
  OBVIOUS
<1>2. PICK write \in BOOLEAN : write = (f = "wr")
  OBVIOUS
<1>3. PICK read : read = IF f # "all" \/ limit = Apb!NoLimit THEN Apb!NoLimit ELSE limit + 1
  OBVIOUS
<1>4. read \in Nat \cup {Apb!NoLimit} /\ (read = IF f # "all" \/ limit = Apb!NoLimit THEN Apb!NoLimit ELSE limit + 1)
  <2>1. limit # Apb!NoLimit => limit \in Nat /\ limit + 1 \in Nat
    OBVIOUS
  <2> QED
    BY <1>3, <2>1
<1>5. PICK found : found = Apb!InRange(s, begin, end, read)
  OBVIOUS
<1>6. found = Apb!Cut(Apb!Within(s, begin, end), read)
  BY <1>4, <1>5, InRangeIsTheWindow
<1>7. PICK due : due = IF f = "all" THEN found ELSE Apb!OfDirection(found, write)
  OBVIOUS
<1>8. Apb!TransferWindow(s, begin, end, f, limit) = [list |-> Apb!Cut(due, limit), truncated |-> Apb!Cut(due, limit) # due]
  BY <1>2, <1>4, <1>5, <1>7 DEF Apb!TransferWindow
<1>9. /\ Apb!OfDirection(Apb!Within(s, begin, end), write) = Apb!Within(Apb!OfDirection(s, write), begin, end)
      /\ Apb!Within(s, begin, end) \in Seq(ApbTxns) /\ Apb!OfDirection(s, write) \in Seq(ApbTxns)
  BY DirectionOfWindow
<1>10. w \in Seq(ApbTxns) /\ (due = w \/ due = Apb!Cut(w, IF limit = Apb!NoLimit THEN Apb!NoLimit ELSE limit + 1))
  <2>1. CASE f = "all"
    <3>1. w = Apb!Within(s, begin, end) /\ due = found
      BY <1>1, <1>7, <2>1
    <3> QED
      BY <1>4, <1>6, <1>9, <2>1, <3>1
  <2>2. CASE f # "all"
    <3>1. w = Apb!Within(Apb!OfDirection(s, write), begin, end)
      BY <1>1, <1>2, <2>2
    <3>2. found = Apb!Within(s, begin, end)
      BY <1>4, <1>6, <2>2 DEF Apb!Cut
    <3>3. due = w
      BY <1>7, <1>9, <2>2, <3>1, <3>2
    <3>4. Apb!Within(Apb!OfDirection(s, write), begin, end) \in Seq(ApbTxns)
      BY <1>9, DirectionOfWindow
    <3> QED
      BY <3>1, <3>3, <3>4
  <2> QED
    BY <2>1, <2>2
<1>11. Apb!WindowIsExact([list |-> Apb!Cut(due, limit), truncated |-> Apb!Cut(due, limit) # due], w, limit)
  BY <1>10, ReplyIsExact
<1> QED
  BY <1>1, <1>8, <1>11

LEMMA ContextIsTheWindow ==
  ASSUME NEW s \in Seq(ApbTxns), Sorted(s), NEW begin \in Nat, NEW end \in Nat,
         (begin + end) % 2 = 0, begin <= end
  PROVE  Apb!Context(s, (begin + end) \div 2, (end - begin) \div 2) = Apb!Within(s, begin, end)
<1>1. PICK mid \in Nat : mid = (begin + end) \div 2 /\ begin + end = 2 * mid
  OBVIOUS
<1>2. PICK half \in Nat : half = (end - begin) \div 2 /\ half = mid - begin
  <2>1. end - begin = 2 * (mid - begin) /\ mid - begin \in Nat
    BY <1>1
  <2> QED
    BY <2>1
<1>3. mid + half = end /\ (IF mid > half THEN mid - half ELSE 0) = begin
  <2>1. mid + half = end /\ mid - half = begin
    BY <1>1, <1>2
  <2>2. mid > half => mid - half = begin
    BY <2>1
  <2>3. ~(mid > half) => begin = 0
    BY <2>1
  <2> QED
    BY <2>1, <2>2, <2>3
<1>4. Apb!Context(s, mid, half) = Apb!InRange(s, begin, end, Apb!NoLimit)
  <2>1. \A lo, hi : lo = begin /\ hi = end =>
          Apb!InRange(s, lo, hi, Apb!NoLimit) = Apb!InRange(s, begin, end, Apb!NoLimit)
    OBVIOUS
  <2>2. Apb!Context(s, mid, half) = Apb!InRange(s, IF mid > half THEN mid - half ELSE 0, mid + half, Apb!NoLimit)
    BY DEF Apb!Context
  <2> QED
    BY <1>3, <2>1, <2>2
<1>5. Apb!InRange(s, begin, end, Apb!NoLimit) = Apb!Cut(Apb!Within(s, begin, end), Apb!NoLimit)
  <2>1. Apb!NoLimit \in Nat \cup {Apb!NoLimit}
    OBVIOUS
  <2> QED
    BY <2>1, InRangeIsTheWindow
<1> QED
  BY <1>1, <1>2, <1>4, <1>5 DEF Apb!Cut

(***************************************************************************)
(* Look-ups: the counter of hits at an entry is the rank of the entry      *)
(* among the hits.  The counter is a recursive function: that there is one *)
(* is shown by giving it, and that it is the only one by the first entry   *)
(* at which another would differ.                                          *)
(***************************************************************************)
HitsOf(v, addr) == {i \in DOMAIN v : v[i].addr = addr}
UpTo(H, i) == {j \in H : j <= i}
Recounts(c, v, addr) ==
  c = [i \in 0 .. Len(v) |-> IF i = 0 THEN 0 ELSE IF v[i].addr = addr THEN c[i - 1] + 1 ELSE c[i - 1]]

LEMMA UpToGrows ==
  ASSUME NEW H \in SUBSET Nat, Lists!IsFiniteSet(H), NEW i \in Nat \ {0}
  PROVE  /\ Lists!Cardinality(UpTo(H, i)) \in Nat
         /\ Lists!Cardinality(UpTo(H, i)) =
              IF i \in H THEN Lists!Cardinality(UpTo(H, i - 1)) + 1 ELSE Lists!Cardinality(UpTo(H, i - 1))
<1>1. PICK I \in SUBSET H : I = UpTo(H, i)
  BY DEF UpTo
<1>2. PICK J \in SUBSET H : J = UpTo(H, i - 1)
  BY DEF UpTo
<1>3. Lists!IsFiniteSet(I) /\ Lists!IsFiniteSet(J)
  BY Lists!FS_Subset
<1>4. Lists!Cardinality(I) \in Nat
  BY <1>3, Lists!FS_CardinalityType
<1>5. \A j \in Nat : j <= i <=> j <= i - 1 \/ j = i
  OBVIOUS
<1>6. CASE i \in H
  <2>1. I = J \cup {i} /\ i \notin J
    <3>1. \A j \in H : j \in I <=> j <= i
      BY <1>1 DEF UpTo
    <3>2. \A j \in H : j \in J <=> j <= i - 1
      BY <1>2 DEF UpTo
    <3>3. i <= i /\ ~(i <= i - 1)
      OBVIOUS
    <3>4. \A j \in H : j \in I <=> j \in J \/ j = i
      BY <1>5, <3>1, <3>2
    <3>5. i \in I /\ i \notin J
      BY <1>6, <3>1, <3>2, <3>3
    <3> QED
      BY <1>6, <3>4, <3>5
  <2>2. Lists!Cardinality(J \cup {i}) = Lists!Cardinality(J) + 1
    BY <1>3, <2>1, Lists!FS_AddElement
  <2> QED
    BY <1>1, <1>2, <1>4, <1>6, <2>1, <2>2
<1>7. CASE i \notin H
  <2>1. I = J
    BY <1>1, <1>2, <1>5, <1>7 DEF UpTo
  <2> QED
    BY <1>1, <1>2, <1>4, <1>7, <2>1
<1> QED
  BY <1>6, <1>7

LEMMA OneCount ==
  ASSUME NEW v \in Seq(ApbTxns), NEW addr, NEW c, Recounts(c, v, addr)
  PROVE  \A i \in DOMAIN v : c[i] = Lists!Cardinality(UpTo(HitsOf(v, addr), i))
<1>1. PICK n \in Nat : n = Len(v) /\ DOMAIN v = 1 .. n
  OBVIOUS
<1>2. PICK H \in SUBSET (1 .. n) : H = HitsOf(v, addr)
  BY <1>1 DEF HitsOf
<1>3. H \in SUBSET Nat /\ Lists!IsFiniteSet(H)
  <2>1. 1 \in Int /\ n \in Int
    OBVIOUS
  <2>2. Lists!IsFiniteSet(1 .. n)
    BY <2>1, Lists!FS_Interval
  <2>3. H \in SUBSET Nat
    OBVIOUS
  <2> QED
    BY <2>2, <2>3, Lists!FS_Subset
<1>4. c[0] = 0 /\ \A i \in 1 .. n : c[i] = IF i \in H THEN c[i - 1] + 1 ELSE c[i - 1]
  <2>1. 0 \in 0 .. n /\ \A i \in 1 .. n : i \in 0 .. n /\ i # 0
    OBVIOUS
  <2>2. \A i \in 1 .. n : v[i].addr = addr <=> i \in H
    BY <1>1, <1>2 DEF HitsOf
  <2> QED
    BY <1>1, <2>1, <2>2 DEF Recounts
<1>5. Lists!Cardinality(UpTo(H, 0)) = 0
  <2>1. UpTo(H, 0) = {}
    BY <1>2 DEF UpTo
  <2> QED
    BY <2>1, Lists!FS_EmptySet
<1>6. PICK D \in SUBSET (1 .. n) : D = {i \in 1 .. n : c[i] # Lists!Cardinality(UpTo(H, i))}
  OBVIOUS
<1>7. ASSUME D # {} PROVE FALSE
  <2>1. PICK m \in D : \A i \in D : m <= i
    BY <1>7, Lists!HasEnds
  <2>2. m \in Nat \ {0} /\ m - 1 \notin D /\ (m - 1 \in 1 .. n \/ m - 1 = 0)
    <3>1. m \in 1 .. n /\ ~(m <= m - 1)
      OBVIOUS
    <3> QED
      BY <2>1, <3>1
  <2>3. c[m - 1] = Lists!Cardinality(UpTo(H, m - 1))
    BY <1>4, <1>5, <1>6, <2>2
  <2>4. Lists!Cardinality(UpTo(H, m)) =
          IF m \in H THEN Lists!Cardinality(UpTo(H, m - 1)) + 1 ELSE Lists!Cardinality(UpTo(H, m - 1))
    BY <1>3, <2>2, UpToGrows
  <2> QED
    BY <1>4, <1>6, <2>1, <2>3, <2>4
<1> QED
  BY <1>1, <1>2, <1>6, <1>7

LEMMA CountsAreRanks ==
  ASSUME NEW v \in Seq(ApbTxns), NEW addr
  PROVE  \A i \in DOMAIN v : Apb!Counts(v, addr)[i] = Lists!Cardinality(UpTo(HitsOf(v, addr), i))
<1>1. PICK n \in Nat : n = Len(v) /\ DOMAIN v = 1 .. n
  OBVIOUS
<1>2. PICK H \in SUBSET (1 .. n) : H = HitsOf(v, addr)
  BY <1>1 DEF HitsOf
<1>3. H \in SUBSET Nat /\ Lists!IsFiniteSet(H)
  <2>1. 1 \in Int /\ n \in Int
    OBVIOUS
  <2>2. Lists!IsFiniteSet(1 .. n)
    BY <2>1, Lists!FS_Interval
  <2>3. H \in SUBSET Nat
    OBVIOUS
  <2> QED
    BY <2>2, <2>3, Lists!FS_Subset
<1>4. PICK c : c = [i \in 0 .. n |-> Lists!Cardinality(UpTo(H, i))]
  OBVIOUS
<1>5. Recounts(c, v, addr)
  <2>1. ASSUME NEW i \in 0 .. n
        PROVE  c[i] = IF i = 0 THEN 0 ELSE IF v[i].addr = addr THEN c[i - 1] + 1 ELSE c[i - 1]
    <3>1. CASE i = 0
      <4>1. UpTo(H, 0) = {}
        BY <1>2 DEF UpTo
      <4> QED
        BY <1>4, <3>1, <4>1, Lists!FS_EmptySet
    <3>2. CASE i # 0
      <4>1. i \in 1 .. n /\ i - 1 \in 0 .. n /\ i \in Nat \ {0}
        BY <3>2
      <4>2. v[i].addr = addr <=> i \in H
        BY <1>1, <1>2, <4>1 DEF HitsOf
      <4>3. Lists!Cardinality(UpTo(H, i)) =
              IF i \in H THEN Lists!Cardinality(UpTo(H, i - 1)) + 1 ELSE Lists!Cardinality(UpTo(H, i - 1))
        BY <1>3, <4>1, UpToGrows
      <4> QED
        BY <1>4, <3>2, <4>1, <4>2, <4>3
    <3> QED
      BY <3>1, <3>2
  <2> QED
    BY <1>1, <1>4, <2>1 DEF Recounts
<1>6. Recounts(Apb!Counts(v, addr), v, addr)
  <2>1. Apb!Counts(v, addr) = CHOOSE d : Recounts(d, v, addr)
    BY DEF Apb!Counts, Recounts
  <2> QED
    BY <1>5, <2>1
<1> QED
  BY <1>6, OneCount

LEMMA RankFacts ==
  ASSUME NEW n \in Nat, NEW H \in SUBSET (1 .. n)
  PROVE  LET rank(i) == Lists!Cardinality(UpTo(H, i)) IN
         /\ Lists!Cardinality(H) \in Nat /\ (H = {} <=> Lists!Cardinality(H) = 0)
         /\ \A i \in H : rank(i) \in 1 .. Lists!Cardinality(H)
         /\ \A i, j \in H : rank(i) = rank(j) => i = j
         /\ \A i \in H : (\A j \in H : i <= j) => rank(i) = 1
         /\ \A i \in H : (\A j \in H : j <= i) => rank(i) = Lists!Cardinality(H)
<1> DEFINE rank(i) == Lists!Cardinality(UpTo(H, i))
<1>1. H \in SUBSET Nat /\ Lists!IsFiniteSet(H)
  <2>1. 1 \in Int /\ n \in Int
    OBVIOUS
  <2>2. Lists!IsFiniteSet(1 .. n)
    BY <2>1, Lists!FS_Interval
  <2>3. H \in SUBSET Nat
    OBVIOUS
  <2> QED
    BY <2>2, <2>3, Lists!FS_Subset
<1>2. Lists!Cardinality(H) \in Nat /\ (H = {} <=> Lists!Cardinality(H) = 0)
  BY <1>1, Lists!FS_CardinalityType, Lists!FS_EmptySet
<1>3. \A i : rank(i) = Lists!Rank(H, i)
  BY DEF UpTo, Lists!Rank
<1>4. \A i \in H : rank(i) \in 1 .. Lists!Cardinality(H)
  BY <1>1, <1>3, Lists!RanksAreOneToSize
<1>5. ASSUME NEW i \in H, NEW j \in H, rank(i) = rank(j) PROVE i = j
  <2> HIDE DEF rank
  <2>1. /\ \A k \in 1 .. Lists!Cardinality(H) : \E x \in H : Lists!Rank(H, x) = k
        /\ \A x \in H : \E k \in 1 .. Lists!Cardinality(H) : Lists!Nth(H, k) = x
    BY <1>1, Lists!RanksAreOneToSize, Lists!NthFacts
  <2>2. \A k \in 1 .. Lists!Cardinality(H) : Lists!Rank(H, Lists!Nth(H, k)) = k
    BY <2>1 DEF Lists!Nth
  <2>3. PICK k \in 1 .. Lists!Cardinality(H) : Lists!Nth(H, k) = i
    BY <2>1
  <2>4. PICK l \in 1 .. Lists!Cardinality(H) : Lists!Nth(H, l) = j
    BY <2>1
  <2> QED
    BY <1>3, <1>5, <2>2, <2>3, <2>4
<1>6. ASSUME NEW i \in H, \A j \in H : i <= j PROVE rank(i) = 1
  <2>1. UpTo(H, i) = {i}
    <3>1. \A j \in H : j <= i <=> j = i
      BY <1>1, <1>6
    <3> QED
      BY <3>1 DEF UpTo
  <2> QED
    BY <2>1, Lists!FS_Singleton
<1>7. ASSUME NEW i \in H, \A j \in H : j <= i PROVE rank(i) = Lists!Cardinality(H)
  <2>1. UpTo(H, i) = H
    BY <1>7 DEF UpTo
  <2> QED
    BY <2>1
<1> QED
  BY <1>2, <1>4, <1>5, <1>6, <1>7

LEMMA SearchFacts ==
  ASSUME NEW v \in Seq(ApbTxns), NEW addr
  PROVE  LET H == HitsOf(v, addr) IN
         /\ \A num \in Nat : \A i \in H : Lists!Cardinality(UpTo(H, i)) = num => Apb!NumberAt(v, addr, num) = i
         /\ \A num \in Nat : (\A i \in H : Lists!Cardinality(UpTo(H, i)) # num) => Apb!NumberAt(v, addr, num) = 0
         /\ H = {} => Apb!FirstAt(v, addr) = 0 /\ Apb!LastAt(v, addr) = 0
         /\ H # {} => /\ Apb!FirstAt(v, addr) \in H /\ \A i \in H : Apb!FirstAt(v, addr) <= i
                      /\ Apb!LastAt(v, addr) \in H /\ \A i \in H : i <= Apb!LastAt(v, addr)
<1>1. PICK n \in Nat : n = Len(v) /\ DOMAIN v = 1 .. n
  OBVIOUS
<1>2. PICK H \in SUBSET (1 .. n) : H = HitsOf(v, addr)
  BY <1>1 DEF HitsOf
<1>3. H = {i \in 1 .. n : v[i].addr = addr}
  BY <1>1, <1>2 DEF HitsOf
<1>4. Apb!FirstAt(v, addr) = (IF H # {} THEN Apb!Min(H) ELSE 0) /\ Apb!LastAt(v, addr) = (IF H # {} THEN Apb!Max(H) ELSE 0)
  BY <1>1, <1>3 DEF Apb!FirstAt, Apb!LastAt, Apb!SelectInSeq, Apb!SelectLastInSeq
<1>5. H # {} => /\ Apb!Min(H) \in H /\ \A i \in H : Apb!Min(H) <= i
                /\ Apb!Max(H) \in H /\ \A i \in H : i <= Apb!Max(H)
  BY FirstIndex
<1>6. ASSUME NEW num \in Nat, NEW I \in SUBSET (1 .. n), I = {i \in H : Lists!Cardinality(UpTo(H, i)) = num}
      PROVE  Apb!NumberAt(v, addr, num) = IF I # {} THEN Apb!Min(I) ELSE 0
  <2>1. PICK places : places = [i \in DOMAIN v |-> i]
    OBVIOUS
  <2>2. places \in Seq(Nat) /\ Len(places) = n /\ \A i \in 1 .. n : places[i] = i
    BY <1>1, <2>1
  <2>3. \A i \in 1 .. n : (v[i].addr = addr /\ Apb!Counts(v, addr)[i] = num) <=> i \in I
    <3>1. \A i \in 1 .. n : Apb!Counts(v, addr)[i] = Lists!Cardinality(UpTo(H, i))
      BY <1>1, <1>2, CountsAreRanks
    <3>2. \A i \in 1 .. n : v[i].addr = addr <=> i \in H
      BY <1>3
    <3> QED
      BY <1>6, <3>1, <3>2
  <2>4. {i \in 1 .. Len(places) : v[places[i]].addr = addr /\ Apb!Counts(v, addr)[places[i]] = num} = I
    BY <2>2, <2>3
  <2> QED
    BY <2>1, <2>4 DEF Apb!NumberAt, Apb!SelectInSeq
<1>7. ASSUME NEW num \in Nat, NEW i \in H, Lists!Cardinality(UpTo(H, i)) = num PROVE Apb!NumberAt(v, addr, num) = i
  <2>1. PICK I \in SUBSET (1 .. n) : I = {j \in H : Lists!Cardinality(UpTo(H, j)) = num}
    OBVIOUS
  <2>2. \A x, y \in H : Lists!Cardinality(UpTo(H, x)) = Lists!Cardinality(UpTo(H, y)) => x = y
    BY RankFacts
  <2>3. i \in I /\ \A j \in I : j = i
    BY <1>7, <2>1, <2>2
  <2>4. Apb!Min(I) \in I
    BY <2>3, FirstIndex
  <2> QED
    BY <1>6, <2>1, <2>3, <2>4
<1>8. ASSUME NEW num \in Nat, \A i \in H : Lists!Cardinality(UpTo(H, i)) # num PROVE Apb!NumberAt(v, addr, num) = 0
  <2>1. PICK I \in SUBSET (1 .. n) : I = {j \in H : Lists!Cardinality(UpTo(H, j)) = num}
    OBVIOUS
  <2> QED
    BY <1>6, <1>8, <2>1
<1> QED
  BY <1>2, <1>4, <1>5, <1>7, <1>8

LEMMA LookupFacts ==
  ASSUME NEW v \in Seq(ApbTxns), NEW addr \in Addrs
  PROVE  LET H == HitsOf(v, addr) IN
         /\ \A i \in H : Apb!Lookup(v, addr, Lists!Cardinality(UpTo(H, i)), FALSE) = i
         /\ Apb!Lookup(v, addr, Lists!Cardinality(H) + 1, FALSE) = 0
         /\ Apb!Lookup(v, addr, 0, FALSE) = Apb!Lookup(v, addr, 1, FALSE)
         /\ H # {} => Apb!Lookup(v, addr, 0, TRUE) = Apb!Lookup(v, addr, Lists!Cardinality(H), TRUE)
         /\ Apb!Lookup(v, None, 0, TRUE) = Lists!Cardinality(DOMAIN v)
<1>1. PICK n \in Nat : n = Len(v) /\ DOMAIN v = 1 .. n
  OBVIOUS
<1>2. PICK H \in SUBSET (1 .. n) : H = HitsOf(v, addr)
  BY <1>1 DEF HitsOf
<1>3. PICK m \in Nat : m = Lists!Cardinality(H) /\ (H = {} <=> m = 0)
  BY RankFacts
<1>4. \A num \in Nat \ {0} : \A last \in BOOLEAN : Apb!Lookup(v, addr, num, last) = Apb!NumberAt(v, addr, num)
  BY ApbAssumption DEF Apb!Lookup
<1>5. /\ Apb!Lookup(v, addr, 0, FALSE) = Apb!FirstAt(v, addr)
      /\ Apb!Lookup(v, addr, 0, TRUE) = Apb!LastAt(v, addr)
      /\ Apb!Lookup(v, None, 0, TRUE) = n
  BY <1>1, ApbAssumption DEF Apb!Lookup
<1>6. \A i \in H : Lists!Cardinality(UpTo(H, i)) \in 1 .. m
  BY <1>3, RankFacts
<1>7. ASSUME NEW i \in H PROVE Apb!Lookup(v, addr, Lists!Cardinality(UpTo(H, i)), FALSE) = i
  <2>1. PICK k \in Nat \ {0} : k = Lists!Cardinality(UpTo(H, i))
    BY <1>6
  <2> QED
    <3>1. Apb!NumberAt(v, addr, k) = i
      BY <1>2, <2>1, SearchFacts
    <3> QED
      BY <1>4, <2>1, <3>1
<1>8. Apb!Lookup(v, addr, m + 1, FALSE) = 0
  <2>1. \A i \in H : Lists!Cardinality(UpTo(H, i)) # m + 1
    BY <1>6
  <2>2. m + 1 \in Nat \ {0}
    OBVIOUS
  <2> QED
    <3>1. Apb!NumberAt(v, addr, m + 1) = 0
      BY <1>2, <2>1, <2>2, SearchFacts
    <3> QED
      BY <1>4, <2>2, <3>1
<1>9. ASSUME H # {} PROVE Apb!FirstAt(v, addr) = Apb!NumberAt(v, addr, 1)
  <2>1. PICK i \in H : i = Apb!FirstAt(v, addr) /\ \A j \in H : i <= j
    <3>1. Apb!FirstAt(v, addr) \in H /\ \A j \in H : Apb!FirstAt(v, addr) <= j
      BY <1>2, <1>9, SearchFacts
    <3> QED
      BY <3>1
  <2>2. Lists!Cardinality(UpTo(H, i)) = 1
    <3>1. \A x \in H : (\A j \in H : x <= j) => Lists!Cardinality(UpTo(H, x)) = 1
      BY RankFacts
    <3> QED
      BY <2>1, <3>1
  <2> QED
    BY <1>2, <2>1, <2>2, SearchFacts
<1>10. ASSUME H # {} PROVE Apb!LastAt(v, addr) = Apb!NumberAt(v, addr, m)
  <2>1. PICK i \in H : i = Apb!LastAt(v, addr) /\ \A j \in H : j <= i
    BY <1>2, <1>10, SearchFacts
  <2>2. Lists!Cardinality(UpTo(H, i)) = m
    BY <1>3, <2>1, RankFacts
  <2> QED
    BY <1>2, <2>1, <2>2, SearchFacts
<1>11. Lists!Cardinality(DOMAIN v) = n
  <2>1. 1 \in Int /\ n \in Int
    OBVIOUS
  <2>2. Lists!Cardinality(1 .. n) = IF 1 > n THEN 0 ELSE n - 1 + 1
    BY <2>1, Lists!FS_Interval
  <2> QED
    BY <1>1, <2>2
<1>12. Apb!Lookup(v, addr, 0, FALSE) = Apb!Lookup(v, addr, 1, FALSE)
  <2>1. CASE H = {}
    <3>1. Apb!FirstAt(v, addr) = 0 /\ Apb!NumberAt(v, addr, 1) = 0
      BY <1>2, <2>1, SearchFacts
    <3> QED
      BY <1>4, <1>5, <3>1
  <2>2. CASE H # {}
    BY <1>4, <1>5, <1>9, <2>2
  <2> QED
    BY <2>1, <2>2
<1>13. H # {} => Apb!Lookup(v, addr, 0, TRUE) = Apb!Lookup(v, addr, m, TRUE)
  BY <1>3, <1>4, <1>5, <1>10
<1> QED
  BY <1>2, <1>3, <1>5, <1>7, <1>8, <1>11, <1>12, <1>13

(***************************************************************************)
(* The theorems.                                                           *)
(***************************************************************************)
ApbKept == ~IsAxi => IInv

LEMMA ApbIsKept == MCSpec => []ApbKept
<1> DEFINE all == <<vars, now, wave, edge, scan, truth, transfers, cursor, shown, walk>>
           ours == <<now, wave, edge, scan, truth, transfers, cursor, shown, walk>>
<1>1. MCInit => ApbKept
  BY ApbInitIsFine DEF MCInit, IsAxi, ApbKept
<1>2. ApbKept /\ [MCNext]_all => ApbKept'
  <2> SUFFICES ASSUME ApbKept, [MCNext]_all, ~IsAxi' PROVE IInv'
    BY DEF ApbKept
  <2>1. ~IsAxi /\ [Apb!Next]_ours
    BY DEF MCNext, IsAxi
  <2>2. IInv
    BY <2>1 DEF ApbKept
  <2> QED
    BY <2>1, <2>2, ScanStep, WalkStep, TimesStep DEF IInv
<1> QED
  BY <1>1, <1>2, PTL DEF MCSpec

\* analyze reports exactly the transfers of the bus, in order, each in the vector
\* of its direction, in whatever order the changes of one time come.
THEOREM ApbScanReportsTheBus == MCSpec => []ApbScanIsTheBus
<1>1. ApbKept => ApbScanIsTheBus
  <2> SUFFICES ASSUME ScanInv PROVE Apb!ScanIsTheBus
    BY DEF ApbKept, ApbScanIsTheBus, IInv
  <2>1. ASSUME transfers = None PROVE scan.all = truth
    BY <2>1 DEF ScanInv, Scanned
  <2>2. ASSUME transfers # None
        PROVE  /\ transfers.all = truth
               /\ Len(transfers.wr) + Len(transfers.rd) = Len(truth)
               /\ \A x \in Apb!ToSet(truth) : x \in Apb!ToSet(IF x.write THEN transfers.wr ELSE transfers.rd)
    <3>1. transfers = Results /\ truth \in Seq(ApbTxns)
      BY <2>2 DEF ScanInv
    <3>2. transfers.all = truth /\ transfers.wr = Apb!OfDirection(truth, TRUE) /\ transfers.rd = Apb!OfDirection(truth, FALSE)
      BY <3>1 DEF Results, Apb!Filters
    <3>3. ASSUME NEW x \in Apb!ToSet(truth) PROVE x.write \in BOOLEAN
      <4>1. PICK i \in DOMAIN truth : x = truth[i]
        BY <3>3 DEF Apb!ToSet
      <4>2. truth[i] \in ApbTxns
        BY <3>1
      <4> QED
        BY <4>1, <4>2 DEF ApbTxns
    <3> QED
      BY <3>1, <3>2, <3>3, DirectionsShareAll
  <2> QED
    BY <2>1, <2>2 DEF Apb!ScanIsTheBus
<1> QED
  BY <1>1, ApbIsKept, PTL

\* begin, and next until it says there are no more, shows every transaction of a
\* filter once, however often the cursors of the others move in between.
THEOREM ApbWalksShowAll == MCSpec => []ApbWalkShowsAll
<1>1. ApbKept => ApbWalkShowsAll
  BY DEF ApbKept, IInv, WalkInv, CursorFits, ApbWalkShowsAll, Apb!WalkShowsAll
<1> QED
  BY <1>1, ApbIsKept, PTL

\* apb.transfer_window and the context of an event: of the direction asked for,
\* what is in the window and nothing else, in order, the first of it when there
\* is a limit, which the answer tells.
THEOREM ApbWindowsHold == MCSpec => []ApbWindowsAreExact
<1>1. ApbKept => ApbWindowsAreExact
  <2> SUFFICES ASSUME ScanInv, TimesGrow, transfers # None, NEW begin \in 0 .. LastTime, NEW end \in 0 .. LastTime
               PROVE  /\ \A f \in Apb!Filters, limit \in {Apb!NoLimit, 0, 1} :
                           Apb!WindowIsExact(Apb!TransferWindow(transfers.all, begin, end, f, limit),
                             Apb!Within(transfers[f], begin, end), limit)
                      /\ (begin + end) % 2 = 0 /\ begin <= end =>
                           Apb!Context(transfers.all, (begin + end) \div 2, (end - begin) \div 2)
                             = Apb!Within(transfers.all, begin, end)
    BY DEF ApbKept, ApbWindowsAreExact, IInv, Apb!WindowsAreExact, Apb!Unmoved
  <2>1. transfers = Results /\ truth \in Seq(ApbTxns) /\ Sorted(truth)
    BY DEF ScanInv, TimesGrow
  <2>2. transfers.all = truth
    BY <2>1 DEF Results, Apb!Filters
  <2>3. begin \in Nat /\ end \in Nat
    BY ApbAssumption
  <2>4. ASSUME NEW f \in Apb!Filters, NEW limit \in {Apb!NoLimit, 0, 1}
        PROVE  Apb!WindowIsExact(Apb!TransferWindow(truth, begin, end, f, limit),
                 Apb!Within(transfers[f], begin, end), limit)
    <3>1. transfers[f] = IF f = "all" THEN truth ELSE Apb!OfDirection(truth, f = "wr")
      BY <2>1 DEF Results
    <3>2. limit \in Nat \cup {Apb!NoLimit}
      OBVIOUS
    <3> QED
      BY <2>1, <2>3, <3>1, <3>2, TransferWindowIsExact
  <2> QED
    BY <2>1, <2>2, <2>3, <2>4, ContextIsTheWindow
<1> QED
  BY <1>1, ApbIsKept, PTL

\* wr and rd: by number, first or last, the transaction at an address that an
\* answer shows is the one that stands there in the vector, and none past the last.
THEOREM ApbLookupsHold == MCSpec => []ApbLookupsAgree
<1>1. ApbKept => ApbLookupsAgree
  <2> SUFFICES ASSUME ScanInv, transfers # None, NEW f \in {"wr", "rd"}, NEW addr \in Addrs
               PROVE  Apb!PlacesAgree(transfers[f], addr)
    BY DEF ApbKept, ApbLookupsAgree, IInv, Apb!LookupsAgree, Apb!Unmoved
  <2>1. PICK v : v = transfers[f]
    OBVIOUS
  <2>2. v \in Seq(ApbTxns)
    BY <2>1, ResultsFacts DEF ScanInv, Apb!Filters
  <2> QED
    BY <2>1, <2>2, LookupFacts DEF Apb!PlacesAgree, HitsOf, UpTo, Apb!Cardinality, Lists!Cardinality
<1> QED
  BY <1>1, ApbIsKept, PTL

\* Look-ups, windows and contexts of APB, together.
THEOREM ApbAnswersHold == MCSpec => []ApbAnswersAgree
  BY ApbLookupsHold, ApbWindowsHold, PTL DEF ApbAnswersAgree
===============================================================================
