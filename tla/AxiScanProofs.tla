----------------------------- MODULE AxiScanProofs -----------------------------
(***************************************************************************)
(* The scan of AxiAnalyzer, for the theorems of AxiProofs: what every part *)
(* of an edge keeps between the pending writes, the buffered data, the     *)
(* queued reads, the counters and the bus.                                 *)
(***************************************************************************)
EXTENDS BusProofs

(***************************************************************************)
(* What ties AxiAnalyzer to the bus.  stream is every beat of data since   *)
(* the last reset, and cut says which of them belong to one write: those   *)
(* after lo up to hi.  fed of them have gone to pending writes, the rest   *)
(* is in the buffer.                                                       *)
(***************************************************************************)
Beat == [time : Nat, last : BOOLEAN]
Share == [lo : Nat, hi : Nat, done : BOOLEAN]
Burst == [beats : Seq(Nat), done : BOOLEAN]
Address == [id : TxnIds, addr : Nat]
Pending == [id : TxnIds, addr : Nat, beats : Seq(Nat), complete : BOOLEAN]

Beats(stream, lo, hi) == [l \in 1 .. hi - lo |-> stream[lo + l].time]

\* The bursts are one behind the other, and only the last may be open.
InOrder(stream, cut) ==
  /\ \A i \in DOMAIN cut : cut[i].lo < cut[i].hi /\ cut[i].hi <= Len(stream)
  /\ \A i, j \in DOMAIN cut : i < j => cut[i].hi <= cut[j].lo /\ cut[i].done
  /\ \A i \in DOMAIN cut : ~cut[i].done => cut[i].hi = Len(stream)

\* The k-th pending write has of the k-th burst what was fed.
Fed(stream, cut, fed, pw) ==
  /\ fed \in 0 .. Len(stream)
  /\ \A k \in DOMAIN pw : pw[k].complete <=> k \in DOMAIN cut /\ cut[k].done /\ cut[k].hi <= fed
  /\ \A k \in DOMAIN pw :
       pw[k].beats = IF k \in DOMAIN cut /\ cut[k].lo < fed
                     THEN Beats(stream, cut[k].lo, IF fed < cut[k].hi THEN fed ELSE cut[k].hi) ELSE << >>
  /\ \A i \in DOMAIN cut : i > Len(pw) => cut[i].lo >= fed
  /\ \A x \in fed + 1 .. Len(stream) :
       \E i \in DOMAIN cut : /\ cut[i].lo < x /\ x <= cut[i].hi
                             /\ stream[x].last <=> cut[i].done /\ x = cut[i].hi

\* place[j] is where the j-th address that the bus has not responded to, or the
\* j-th burst, is among the pending writes.
Linked(aw, bursts, pw, stream, cut, place) ==
  /\ place \in [Nat \ {0} -> Nat \ {0}]
  /\ \A i, j \in Nat \ {0} : i < j => place[i] < place[j]
  /\ \A j \in Nat \ {0} : j > Len(aw) => place[j] = Len(pw) + j - Len(aw)
  /\ \A j \in DOMAIN aw : place[j] <= Len(pw) /\ pw[place[j]].id = aw[j].id /\ pw[place[j]].addr = aw[j].addr
  /\ \A j \in Nat \ {0} : j <= Len(bursts) <=> place[j] <= Len(cut)
  /\ \A j \in DOMAIN bursts :
       LET c == cut[place[j]] IN bursts[j] = [beats |-> Beats(stream, c.lo, c.hi), done |-> c.done]

\* A pending write that the bus has responded to is one it has made.
Made(d, id, addr, beats, time) == d.id = id /\ d.addr = addr /\ d.beats = beats /\ d.resp <= time
Responses(aw, pw, stream, cut, place, wrote, time) ==
  \A k \in DOMAIN pw : (\A j \in DOMAIN aw : place[j] # k) =>
    /\ k \in DOMAIN cut /\ cut[k].done
    /\ \E d \in wrote : Made(d, pw[k].id, pw[k].addr, Beats(stream, cut[k].lo, cut[k].hi), time)

Typed(aw, bursts, pw, stream, cut) ==
  /\ aw \in Seq(Address) /\ bursts \in Seq(Burst) /\ pw \in Seq(Pending)
  /\ stream \in Seq(Beat) /\ cut \in Seq(Share)

\* The beats of a stretch of the stream, and of one that is a beat longer.
LEMMA BeatsFacts ==
  ASSUME NEW stream \in Seq(Beat), NEW lo \in Nat, NEW hi \in Nat, lo <= hi, hi <= Len(stream)
  PROVE  /\ Beats(stream, lo, hi) \in Seq(Nat) /\ Len(Beats(stream, lo, hi)) = hi - lo
         /\ \A beat \in Beat : Beats(Append(stream, beat), lo, hi) = Beats(stream, lo, hi)
         /\ hi < Len(stream) => Beats(stream, lo, hi + 1) = Append(Beats(stream, lo, hi), stream[hi + 1].time)
         /\ Beats(stream, lo, lo) = << >>
<1>1. PICK n \in Nat : n = hi - lo
  OBVIOUS
<1>2. \A l \in 1 .. n : lo + l \in 1 .. Len(stream)
  BY <1>1
<1>3. \A x \in 1 .. Len(stream) : stream[x].time \in Nat
  <2>1. \A x \in 1 .. Len(stream) : stream[x] \in Beat
    OBVIOUS
  <2> QED
    BY <2>1 DEF Beat
<1>4. Beats(stream, lo, hi) = [l \in 1 .. n |-> stream[lo + l].time]
  BY <1>1 DEF Beats
<1>5. Beats(stream, lo, hi) \in Seq(Nat) /\ Len(Beats(stream, lo, hi)) = n
  BY <1>2, <1>3, <1>4
<1>6. ASSUME NEW beat \in Beat PROVE Beats(Append(stream, beat), lo, hi) = Beats(stream, lo, hi)
  <2>1. \A x \in 1 .. Len(stream) : Append(stream, beat)[x] = stream[x]
    OBVIOUS
  <2> QED
    BY <1>1, <1>2, <1>4, <2>1 DEF Beats
<1>7. ASSUME hi < Len(stream) PROVE Beats(stream, lo, hi + 1) = Append(Beats(stream, lo, hi), stream[hi + 1].time)
  <2>1. Beats(stream, lo, hi + 1) = [l \in 1 .. n + 1 |-> stream[lo + l].time]
    BY <1>1 DEF Beats
  <2>2. Append(Beats(stream, lo, hi), stream[hi + 1].time)
          = [l \in 1 .. n + 1 |-> IF l = n + 1 THEN stream[hi + 1].time ELSE Beats(stream, lo, hi)[l]]
    BY <1>3, <1>5, <1>7
  <2>3. ASSUME NEW l \in 1 .. n + 1
        PROVE  stream[lo + l].time = IF l = n + 1 THEN stream[hi + 1].time ELSE Beats(stream, lo, hi)[l]
    BY <1>1, <1>4
  <2> QED
    BY <2>1, <2>2, <2>3
<1>8. Beats(stream, lo, lo) = << >>
  <2>1. lo - lo = 0
    OBVIOUS
  <2>2. Beats(stream, lo, lo) = [l \in 1 .. 0 |-> stream[lo + l].time]
    BY <2>1 DEF Beats
  <2>3. 1 .. 0 = {}
    OBVIOUS
  <2>4. [l \in 1 .. 0 |-> stream[lo + l].time] = << >>
    BY <2>3
  <2> QED
    BY <2>2, <2>4
<1> QED
  BY <1>1, <1>5, <1>6, <1>7, <1>8

\* Every place from the first burst that is missing on is somebody's.
LEMMA PlacesAreTaken ==
  ASSUME NEW aw, NEW bursts, NEW pw, NEW stream, NEW cut, NEW place, Typed(aw, bursts, pw, stream, cut),
         Linked(aw, bursts, pw, stream, cut, place),
         NEW m \in Nat \ {0}, m <= Len(pw) => \E j \in DOMAIN aw : place[j] = m
  PROVE  \E j \in Nat \ {0} : place[j] = m
<1>1. Len(aw) \in Nat /\ Len(pw) \in Nat /\ DOMAIN aw = 1 .. Len(aw)
  BY DEF Typed
<1>2. CASE m <= Len(pw)
  BY <1>1, <1>2
<1>3. CASE m > Len(pw)
  <2>1. PICK j \in Nat \ {0} : j = m - Len(pw) + Len(aw) /\ j > Len(aw)
    <3>1. PICK p \in Nat, a \in Nat : p = Len(pw) /\ a = Len(aw)
      BY <1>1
    <3>2. m - p + a \in Nat \ {0} /\ m - p + a > a
      BY <1>3, <3>1
    <3> QED
      BY <3>1, <3>2
  <2>2. place[j] = Len(pw) + j - Len(aw)
    BY <2>1 DEF Linked
  <2> QED
    BY <1>1, <2>1, <2>2
<1> QED
  BY <1>1, <1>2, <1>3

\* A beat arrives: the last burst of the bus is the last burst there is.
LEMMA OpenBurst ==
  ASSUME NEW aw, NEW bursts, NEW pw, NEW stream, NEW cut, NEW place, Typed(aw, bursts, pw, stream, cut),
         InOrder(stream, cut), Linked(aw, bursts, pw, stream, cut, place),
         NEW wrote, NEW time, Responses(aw, pw, stream, cut, place, wrote, time)
  PROVE  LET y == Len(bursts) z == Len(cut) IN
         IF bursts # << >> /\ ~bursts[y].done
         THEN y \in Nat \ {0} /\ z \in Nat \ {0} /\ place[y] = z /\ ~cut[z].done
         ELSE place[y + 1] = z + 1 /\ \A i \in DOMAIN cut : cut[i].done
<1>1. PICK y \in Nat, z \in Nat : y = Len(bursts) /\ z = Len(cut) /\ DOMAIN bursts = 1 .. y /\ DOMAIN cut = 1 .. z
  BY DEF Typed
<1>2. \A i, j \in Nat \ {0} : i < j => place[i] < place[j]
  BY DEF Linked
<1>3. \A j \in Nat \ {0} : place[j] \in Nat \ {0} /\ (j <= y <=> place[j] <= z)
  BY <1>1 DEF Linked
<1>4. bursts # << >> <=> y \in Nat \ {0}
  BY <1>1 DEF Typed
<1>5. \A j \in 1 .. y : bursts[j].done = cut[place[j]].done
  <2> TAKE j \in 1 .. y
  <2>1. bursts[j] = [beats |-> Beats(stream, cut[place[j]].lo, cut[place[j]].hi), done |-> cut[place[j]].done]
    BY <1>1 DEF Linked
  <2> QED
    BY <2>1
<1>6. \A i \in 1 .. z : i < z => cut[i].done
  BY <1>1 DEF InOrder
<1>7. ASSUME bursts # << >>, ~bursts[y].done
      PROVE  y \in Nat \ {0} /\ z \in Nat \ {0} /\ place[y] = z /\ ~cut[z].done
  <2>1. y \in Nat \ {0} /\ y \in 1 .. y /\ place[y] \in 1 .. z
    BY <1>3, <1>4, <1>7
  <2>2. ~cut[place[y]].done
    BY <1>5, <1>7, <2>1
  <2>3. place[y] = z
    BY <1>6, <2>1, <2>2
  <2> QED
    BY <2>1, <2>2, <2>3
<1>8. ASSUME ~(bursts # << >> /\ ~bursts[y].done), NEW i \in 1 .. z, ~cut[i].done PROVE FALSE
  <2>1. i = z
    BY <1>6, <1>8
  <2>2. i <= Len(pw) => \E j \in DOMAIN aw : place[j] = i
    <3>1. i <= Len(pw) => i \in DOMAIN pw
      BY DEF Typed
    <3> QED
      BY <1>8, <3>1 DEF Responses
  <2>3. PICK j \in Nat \ {0} : place[j] = i
    BY <2>2, PlacesAreTaken
  <2>4. j \in 1 .. y
    BY <1>3, <2>3
  <2>5. ~bursts[j].done
    BY <1>5, <1>8, <2>3, <2>4
  <2>6. j = y
    <3>1. j < y => place[j] < place[y] /\ place[y] \in Nat /\ place[y] <= z
      BY <1>2, <1>3, <2>4
    <3> QED
      BY <2>1, <2>3, <2>4, <3>1
  <2> QED
    BY <1>4, <1>8, <2>5, <2>6
<1>9. place[y + 1] = z + 1
  <2>1. z + 1 <= Len(pw) => \E j \in DOMAIN aw : place[j] = z + 1
    <3>1. z + 1 <= Len(pw) => z + 1 \in DOMAIN pw
      BY DEF Typed
    <3>2. z + 1 \notin DOMAIN cut
      BY <1>1
    <3> QED
      BY <3>1, <3>2 DEF Responses
  <2>2. z + 1 \in Nat \ {0} /\ y + 1 \in Nat \ {0}
    OBVIOUS
  <2>3. PICK j \in Nat \ {0} : place[j] = z + 1
    BY <2>1, <2>2, PlacesAreTaken
  <2>4. j > y
    BY <1>3, <2>3
  <2>5. y + 1 < j => place[y + 1] < z + 1 /\ place[y + 1] \in Nat
    BY <1>2, <1>3, <2>2, <2>3
  <2>6. ~(place[y + 1] <= z)
    BY <1>3, <2>2
  <2>7. j = y + 1
    BY <2>4, <2>5, <2>6
  <2> QED
    BY <2>3, <2>7
<1> QED
  BY <1>1, <1>7, <1>8, <1>9

Tied(aw, bursts, pw, stream, cut, fed, place, wrote, time) ==
  /\ Typed(aw, bursts, pw, stream, cut) /\ InOrder(stream, cut) /\ Fed(stream, cut, fed, pw)
  /\ Linked(aw, bursts, pw, stream, cut, place) /\ Responses(aw, pw, stream, cut, place, wrote, time)

\* A beat goes to the last burst of the bus, the y-th, or begins it.
IsSent(beat, lo, n, y, bursts, bursts2, stream, cut, cut2, place) ==
  /\ n = Len(stream) /\ Len(bursts2) = y /\ (place[y] = Len(cut) \/ place[y] = Len(cut) + 1)
  /\ \A i \in 1 .. y - 1 : i \in DOMAIN bursts /\ bursts2[i] = bursts[i]
  /\ bursts2[y] = [beats |-> Beats(Append(stream, beat), lo, n + 1), done |-> beat.last]
  /\ Len(cut2) = place[y]
  /\ \A i \in 1 .. place[y] - 1 : i \in DOMAIN cut /\ cut2[i] = cut[i] /\ cut[i].done
  /\ cut2[place[y]] = [lo |-> lo, hi |-> n + 1, done |-> beat.last]
  /\ IF place[y] = Len(cut) THEN cut[place[y]].lo = lo /\ ~cut[place[y]].done ELSE lo = n
LEMMA SendKeeps ==
  ASSUME NEW aw, NEW bursts, NEW pw, NEW stream, NEW cut, NEW fed, NEW place, NEW wrote, NEW time,
         Tied(aw, bursts, pw, stream, cut, fed, place, wrote, time),
         NEW beat \in Beat, NEW lo \in Nat, NEW n \in Nat, NEW y \in Nat \ {0},
         NEW bursts2 \in Seq(Burst), NEW cut2 \in Seq(Share),
         IsSent(beat, lo, n, y, bursts, bursts2, stream, cut, cut2, place)
  PROVE  Tied(aw, bursts2, pw, Append(stream, beat), cut2, fed, place, wrote, time)
<1> USE DEF IsSent
<1>1. Typed(aw, bursts, pw, stream, cut) /\ InOrder(stream, cut) /\ Fed(stream, cut, fed, pw)
      /\ Linked(aw, bursts, pw, stream, cut, place) /\ Responses(aw, pw, stream, cut, place, wrote, time)
  BY DEF Tied
<1>2. PICK z \in Nat, zc \in Nat : z = place[y] /\ zc = Len(cut) /\ z >= 1
  <2>1. Len(cut) \in Nat
    BY <1>1 DEF Typed
  <2>2. place[y] \in Nat /\ place[y] >= 1
    BY <1>1 DEF Linked
  <2> QED
    BY <2>1, <2>2
<1>3. DOMAIN cut = 1 .. zc /\ DOMAIN cut2 = 1 .. z
  BY <1>1, <1>2 DEF Typed
<1>4. z = zc \/ z = zc + 1
  BY <1>2
<1>5. \A i : i \in 1 .. zc => i \in 1 .. z
  BY <1>4
<1>6. (z = Len(cut) \/ z = Len(cut) + 1) /\ DOMAIN cut = 1 .. Len(cut) /\ DOMAIN cut2 = 1 .. z /\ DOMAIN cut \subseteq DOMAIN cut2
      /\ z \in DOMAIN cut2
  <2>1. DOMAIN cut \subseteq DOMAIN cut2
    BY <1>3, <1>5
  <2>2. z \in 1 .. z
    BY <1>2
  <2> QED
    BY <1>2, <1>3, <2>1, <2>2
<1>7. \A i \in 1 .. z : i < z \/ i = z
  OBVIOUS
<1>8. \A i \in 1 .. z - 1 : i \in DOMAIN cut /\ cut2[i] = cut[i] /\ cut[i].done
  BY <1>2
<1>9. \A i \in 1 .. z : i < z => i \in 1 .. z - 1
  OBVIOUS
<1>10. cut2[z].lo = lo /\ cut2[z].hi = n + 1 /\ cut2[z].done = beat.last
  <2>1. cut2[z] = [lo |-> lo, hi |-> n + 1, done |-> beat.last]
    BY <1>2
  <2> QED
    BY <2>1
<1>11. z = Len(cut) => cut[z].lo = lo /\ ~cut[z].done /\ z \in DOMAIN cut
  BY <1>2, <1>6
<1>12. z # Len(cut) => lo = n /\ z \notin DOMAIN cut
  BY <1>2, <1>6
<1>13. PICK stream2 : stream2 = Append(stream, beat)
  OBVIOUS
<1>14. /\ stream \in Seq(Beat) /\ stream2 \in Seq(Beat) /\ Len(stream2) = n + 1 /\ stream2[n + 1] = beat
       /\ \A x \in 1 .. n : stream2[x] = stream[x]
  <2>1. stream \in Seq(Beat)
    BY <1>1 DEF Typed
  <2> QED
    BY <1>13, <2>1
<1>15. \A i \in DOMAIN cut : /\ cut[i].lo \in Nat /\ cut[i].hi \in Nat /\ cut[i].done \in BOOLEAN
                             /\ cut[i].lo < cut[i].hi /\ cut[i].hi <= n
  <2>1. \A i \in DOMAIN cut : cut[i] \in Share
    BY <1>1 DEF Typed
  <2> QED
    BY <1>1, <2>1 DEF Share, InOrder
<1>16. lo <= n
  BY <1>11, <1>12, <1>15
<1>17. beat.time \in Nat /\ beat.last \in BOOLEAN
  BY DEF Beat
<1>18. Typed(aw, bursts2, pw, stream2, cut2)
  BY <1>1, <1>14 DEF Typed
<1>19. InOrder(stream2, cut2)
  <2>1. ASSUME NEW i \in DOMAIN cut2 PROVE cut2[i].lo < cut2[i].hi /\ cut2[i].hi <= n + 1
    <3>1. CASE i = z
      BY <1>10, <1>16, <3>1
    <3>2. CASE i < z
      <4>1. i \in DOMAIN cut /\ cut2[i] = cut[i]
        BY <1>8, <1>9, <1>3, <3>2
      <4> QED
        BY <1>15, <4>1
    <3> QED
      BY <1>6, <1>7, <3>1, <3>2
  <2>2. ASSUME NEW i \in DOMAIN cut2, NEW j \in DOMAIN cut2, i < j PROVE cut2[i].hi <= cut2[j].lo /\ cut2[i].done
    <3>1. i \in 1 .. z - 1 /\ i \in DOMAIN cut /\ cut2[i] = cut[i] /\ cut[i].done
      <4>1. i \in 1 .. z /\ j \in 1 .. z
        BY <1>3
      <4>2. i \in 1 .. z - 1
        BY <2>2, <4>1
      <4> QED
        BY <1>8, <4>2
    <3>2. CASE j = z
      <4>1. CASE z = Len(cut)
        <5>1. cut[i].hi <= cut[z].lo
          BY <1>1, <1>11, <2>2, <3>1, <3>2, <4>1 DEF InOrder
        <5> QED
          BY <1>10, <1>11, <3>1, <3>2, <4>1, <5>1
      <4>2. CASE z # Len(cut)
        BY <1>10, <1>12, <1>15, <3>1, <3>2, <4>2
      <4> QED
        BY <4>1, <4>2
    <3>3. CASE j < z
      <4>1. j \in DOMAIN cut /\ cut2[j] = cut[j]
        BY <1>6, <1>8, <1>9, <3>3
      <4>2. cut[i].hi <= cut[j].lo
        BY <1>1, <2>2, <3>1, <4>1 DEF InOrder
      <4> QED
        BY <3>1, <4>1, <4>2
    <3> QED
      BY <1>6, <1>7, <3>2, <3>3
  <2>3. ASSUME NEW i \in DOMAIN cut2, ~cut2[i].done PROVE cut2[i].hi = n + 1
    BY <1>6, <1>7, <1>8, <1>9, <1>10, <2>3
  <2> QED
    BY <1>14, <2>1, <2>2, <2>3 DEF InOrder
<1>20. \A i \in 1 .. z : i < z => Beats(stream2, cut2[i].lo, cut2[i].hi) = Beats(stream, cut[i].lo, cut[i].hi)
  <2> SUFFICES ASSUME NEW i \in 1 .. z, i < z PROVE Beats(stream2, cut2[i].lo, cut2[i].hi) = Beats(stream, cut[i].lo, cut[i].hi)
    OBVIOUS
  <2>1. i \in DOMAIN cut /\ cut2[i] = cut[i]
    BY <1>8, <1>9
  <2>2. cut[i].lo \in Nat /\ cut[i].hi \in Nat /\ cut[i].lo <= cut[i].hi /\ cut[i].hi <= Len(stream)
    BY <1>15, <2>1
  <2> QED
    BY <1>13, <1>14, <2>1, <2>2, BeatsFacts
<1>21. Fed(stream2, cut2, fed, pw)
  <2>1. fed \in 0 .. n
    BY <1>1 DEF Fed
  <2>2. ASSUME NEW k \in DOMAIN pw
        PROVE  pw[k].complete <=> k \in DOMAIN cut2 /\ cut2[k].done /\ cut2[k].hi <= fed
    <3>1. pw[k].complete <=> k \in DOMAIN cut /\ cut[k].done /\ cut[k].hi <= fed
      BY <1>1 DEF Fed
    <3>2. CASE k = z
      <4>1. ~pw[k].complete
        BY <1>11, <1>12, <3>1, <3>2
      <4> QED
        BY <1>10, <2>1, <3>2, <4>1
    <3>3. CASE k # z
      <4>1. k \in DOMAIN cut2 => k \in DOMAIN cut /\ cut2[k] = cut[k]
        BY <1>6, <1>7, <1>8, <1>9, <3>3
      <4>2. k \in DOMAIN cut => k \in DOMAIN cut2
        BY <1>6
      <4> QED
        BY <3>1, <4>1, <4>2
    <3> QED
      BY <3>2, <3>3
  <2>3. ASSUME NEW k \in DOMAIN pw
        PROVE  pw[k].beats = IF k \in DOMAIN cut2 /\ cut2[k].lo < fed
                             THEN Beats(stream2, cut2[k].lo, IF fed < cut2[k].hi THEN fed ELSE cut2[k].hi) ELSE << >>
    <3>1. pw[k].beats = IF k \in DOMAIN cut /\ cut[k].lo < fed
                        THEN Beats(stream, cut[k].lo, IF fed < cut[k].hi THEN fed ELSE cut[k].hi) ELSE << >>
      BY <1>1 DEF Fed
    <3>2. ASSUME NEW a \in Nat, NEW b \in Nat, a <= b, b <= n PROVE Beats(stream2, a, b) = Beats(stream, a, b)
      BY <1>13, <1>14, <3>2, BeatsFacts
    <3>3. CASE k = z
      <4>1. CASE z = Len(cut)
        <5>1. k \in DOMAIN cut /\ k \in DOMAIN cut2 /\ cut[k].lo = lo /\ cut2[k].lo = lo /\ cut2[k].hi = n + 1
          BY <1>6, <1>10, <1>11, <3>3, <4>1
        <5>2. cut[k].hi = n
          BY <1>1, <1>11, <3>3, <4>1, <5>1 DEF InOrder
        <5>3. CASE lo < fed
          <6>1. (IF fed < n + 1 THEN fed ELSE n + 1) = fed /\ (IF fed < n THEN fed ELSE n) = fed
            BY <2>1
          <6>2. Beats(stream2, lo, fed) = Beats(stream, lo, fed)
            BY <2>1, <3>2, <5>3
          <6> QED
            BY <3>1, <5>1, <5>2, <5>3, <6>1, <6>2
        <5>4. CASE ~(lo < fed)
          BY <3>1, <5>1, <5>4
        <5> QED
          BY <5>3, <5>4
      <4>2. CASE z # Len(cut)
        <5>1. k \notin DOMAIN cut /\ cut2[k].lo = n
          BY <1>10, <1>12, <3>3, <4>2
        <5> QED
          BY <2>1, <3>1, <5>1
      <4> QED
        BY <4>1, <4>2
    <3>4. CASE k # z
      <4>1. k \in DOMAIN cut2 => k \in DOMAIN cut /\ cut2[k] = cut[k]
        BY <1>6, <1>7, <1>8, <1>9, <3>4
      <4>2. k \in DOMAIN cut => k \in DOMAIN cut2
        BY <1>6
      <4>3. CASE k \in DOMAIN cut /\ cut[k].lo < fed
        <5>1. PICK b \in Nat : b = IF fed < cut[k].hi THEN fed ELSE cut[k].hi
          BY <1>15, <2>1, <4>3
        <5>2. cut[k].lo <= b /\ b <= n /\ cut[k].lo \in Nat
          BY <1>15, <2>1, <4>3, <5>1
        <5>3. Beats(stream2, cut[k].lo, b) = Beats(stream, cut[k].lo, b)
          BY <3>2, <5>2
        <5> QED
          BY <3>1, <4>1, <4>2, <4>3, <5>1, <5>3
      <4>4. CASE ~(k \in DOMAIN cut /\ cut[k].lo < fed)
        BY <3>1, <4>1, <4>4
      <4> QED
        BY <4>3, <4>4
    <3> QED
      BY <3>3, <3>4
  <2>4. ASSUME NEW i \in DOMAIN cut2, i > Len(pw) PROVE cut2[i].lo >= fed
    <3>1. i \in DOMAIN cut => cut[i].lo >= fed
      BY <1>1, <2>4 DEF Fed
    <3>2. CASE i = z
      BY <1>10, <1>11, <1>12, <2>1, <3>1, <3>2
    <3>3. CASE i < z
      BY <1>6, <1>8, <1>9, <3>1, <3>3
    <3> QED
      BY <1>6, <1>7, <3>2, <3>3
  <2>5. ASSUME NEW x \in fed + 1 .. n + 1
        PROVE  \E i \in DOMAIN cut2 : /\ cut2[i].lo < x /\ x <= cut2[i].hi
                                      /\ stream2[x].last <=> cut2[i].done /\ x = cut2[i].hi
    <3>1. CASE x = n + 1
      <4>1. cut2[z].lo < x /\ x <= cut2[z].hi /\ x = cut2[z].hi
        BY <1>10, <1>16, <3>1
      <4>2. stream2[x].last <=> cut2[z].done
        BY <1>10, <1>14, <3>1
      <4> QED
        BY <1>6, <4>1, <4>2
    <3>2. CASE x # n + 1
      <4>1. x \in fed + 1 .. n /\ x \in 1 .. n
        BY <2>1, <3>2
      <4>2. PICK i \in DOMAIN cut : /\ cut[i].lo < x /\ x <= cut[i].hi
                                    /\ stream[x].last <=> cut[i].done /\ x = cut[i].hi
        BY <1>1, <4>1 DEF Fed
      <4>3. stream2[x] = stream[x]
        BY <1>14, <4>1
      <4>4. i \in DOMAIN cut2
        BY <1>6
      <4>5. CASE i = z
        <5>1. z = Len(cut)
          BY <1>12, <4>5
        <5>2. ~stream[x].last /\ cut2[i].lo = cut[i].lo /\ cut2[i].hi = n + 1
          BY <1>10, <1>11, <4>2, <4>5, <5>1
        <5>3. x <= n + 1 /\ x # n + 1
          BY <4>1
        <5> QED
          BY <4>2, <4>3, <4>4, <5>2, <5>3
      <4>6. CASE i # z
        <5>1. cut2[i] = cut[i]
          BY <1>6, <1>7, <1>8, <1>9, <4>4, <4>6
        <5> QED
          BY <4>2, <4>3, <4>4, <5>1
      <4> QED
        BY <4>5, <4>6
    <3> QED
      BY <3>1, <3>2
  <2> QED
    BY <1>14, <2>1, <2>2, <2>3, <2>4, <2>5 DEF Fed
<1>22. Linked(aw, bursts2, pw, stream2, cut2, place)
  <2>1. ASSUME NEW j \in Nat \ {0} PROVE j <= y <=> place[j] <= z
    <3>1. place[j] \in Nat /\ (j < y => place[j] < z) /\ (y < j => z < place[j])
      BY <1>1, <1>2 DEF Linked
    <3> QED
      BY <1>2, <1>6, <3>1
  <2>2. ASSUME NEW j \in DOMAIN bursts2
        PROVE  bursts2[j] = [beats |-> Beats(stream2, cut2[place[j]].lo, cut2[place[j]].hi), done |-> cut2[place[j]].done]
    <3>1. CASE j = y
      <4>1. bursts2[y] = [beats |-> Beats(stream2, lo, n + 1), done |-> beat.last]
        BY <1>13
      <4> QED
        BY <1>2, <1>10, <3>1, <4>1
    <3>2. CASE j # y
      <4>1. j \in 1 .. y - 1 /\ j \in DOMAIN bursts /\ bursts2[j] = bursts[j] /\ j < y
        BY <3>2
      <4>2. place[j] \in 1 .. z /\ place[j] < z
        <5>1. /\ place \in [Nat \ {0} -> Nat \ {0}]
              /\ \A i, l \in Nat \ {0} : i < l => place[i] < place[l]
          BY <1>1 DEF Linked
        <5>2. j \in Nat \ {0} /\ y \in Nat \ {0} /\ j < y
          BY <4>1
        <5>3. place[j] \in Nat \ {0} /\ place[j] < place[y]
          BY <5>1, <5>2
        <5> QED
          BY <1>2, <5>3
      <4>3. bursts[j] = [beats |-> Beats(stream, cut[place[j]].lo, cut[place[j]].hi), done |-> cut[place[j]].done]
        BY <1>1, <4>1 DEF Linked
      <4>4. cut2[place[j]] = cut[place[j]]
        BY <1>8, <1>9, <4>2
      <4> QED
        BY <1>20, <4>1, <4>2, <4>3, <4>4
    <3> QED
      BY <3>1, <3>2
  <2> QED
    BY <1>1, <1>2, <2>1, <2>2 DEF Linked
<1>23. Responses(aw, pw, stream2, cut2, place, wrote, time)
  <2> SUFFICES ASSUME NEW k \in DOMAIN pw, \A j \in DOMAIN aw : place[j] # k
               PROVE  /\ k \in DOMAIN cut2 /\ cut2[k].done
                      /\ \E d \in wrote : Made(d, pw[k].id, pw[k].addr, Beats(stream2, cut2[k].lo, cut2[k].hi), time)
    BY DEF Responses
  <2>1. /\ k \in DOMAIN cut /\ cut[k].done
        /\ \E d \in wrote : Made(d, pw[k].id, pw[k].addr, Beats(stream, cut[k].lo, cut[k].hi), time)
    BY <1>1 DEF Responses
  <2>2. k \in 1 .. z /\ k < z
    <3>1. k \in 1 .. z
      BY <1>3, <1>5, <2>1
    <3>2. k # z
      BY <1>11, <1>12, <2>1
    <3> QED
      BY <3>1, <3>2
  <2> QED
    BY <1>6, <1>8, <1>9, <1>20, <2>1, <2>2
<1> QED
  BY <1>13, <1>18, <1>19, <1>21, <1>22, <1>23 DEF Tied

\* A pending write whose turn has not come has not been fed.
LEMMA CutFields ==
  ASSUME NEW aw, NEW bursts, NEW pw, NEW stream, NEW cut, Typed(aw, bursts, pw, stream, cut)
  PROVE  /\ Len(aw) \in Nat /\ DOMAIN aw = 1 .. Len(aw) /\ Len(bursts) \in Nat /\ DOMAIN bursts = 1 .. Len(bursts)
         /\ Len(pw) \in Nat /\ DOMAIN pw = 1 .. Len(pw) /\ Len(cut) \in Nat /\ DOMAIN cut = 1 .. Len(cut)
         /\ Len(stream) \in Nat /\ DOMAIN stream = 1 .. Len(stream)
         /\ \A i \in DOMAIN cut : cut[i].lo \in Nat /\ cut[i].hi \in Nat /\ cut[i].done \in BOOLEAN
         /\ \A x \in DOMAIN stream : stream[x].time \in Nat /\ stream[x].last \in BOOLEAN
         /\ \A k \in DOMAIN pw : /\ pw[k].id \in TxnIds /\ pw[k].addr \in Nat /\ pw[k].beats \in Seq(Nat)
                                 /\ pw[k].complete \in BOOLEAN
<1>1. \A i \in DOMAIN cut : cut[i] \in Share
  BY DEF Typed
<1>2. \A x \in DOMAIN stream : stream[x] \in Beat
  BY DEF Typed
<1>3. \A k \in DOMAIN pw : pw[k] \in Pending
  BY DEF Typed
<1>4. \A i \in DOMAIN cut : cut[i].lo \in Nat /\ cut[i].hi \in Nat /\ cut[i].done \in BOOLEAN
  BY <1>1 DEF Share
<1>5. \A x \in DOMAIN stream : stream[x].time \in Nat /\ stream[x].last \in BOOLEAN
  BY <1>2 DEF Beat
<1>6. \A k \in DOMAIN pw : /\ pw[k].id \in TxnIds /\ pw[k].addr \in Nat /\ pw[k].beats \in Seq(Nat)
                           /\ pw[k].complete \in BOOLEAN
  BY <1>3 DEF Pending
<1> QED
  BY <1>4, <1>5, <1>6 DEF Typed

\* A write address: the write goes to the end of what is pending, with no data.
LEMMA AddressKeeps ==
  ASSUME NEW aw, NEW bursts, NEW pw, NEW stream, NEW cut, NEW fed, NEW place, NEW wrote, NEW time,
         Tied(aw, bursts, pw, stream, cut, fed, place, wrote, time),
         NEW id \in TxnIds, NEW addr \in Nat
  PROVE  Tied(Append(aw, [id |-> id, addr |-> addr]), bursts,
              Append(pw, [id |-> id, addr |-> addr, beats |-> << >>, complete |-> FALSE]),
              stream, cut, fed, place, wrote, time)
<1>1. Typed(aw, bursts, pw, stream, cut) /\ InOrder(stream, cut) /\ Fed(stream, cut, fed, pw)
      /\ Linked(aw, bursts, pw, stream, cut, place) /\ Responses(aw, pw, stream, cut, place, wrote, time)
  BY DEF Tied
<1>2. PICK u \in Nat, n \in Nat : u = Len(aw) /\ n = Len(pw) /\ DOMAIN aw = 1 .. u /\ DOMAIN pw = 1 .. n
  BY <1>1, CutFields
<1>3. PICK p, d : p = [id |-> id, addr |-> addr, beats |-> << >>, complete |-> FALSE] /\ d = [id |-> id, addr |-> addr]
  OBVIOUS
<1>4. p \in Pending /\ d \in Address
  <2>1. << >> \in Seq(Nat)
    OBVIOUS
  <2> QED
    BY <1>3, <2>1 DEF Pending, Address
<1>5. PICK aw2, pw2 : aw2 = Append(aw, d) /\ pw2 = Append(pw, p)
  OBVIOUS
<1>6. /\ pw2 \in Seq(Pending) /\ Len(pw2) = n + 1 /\ DOMAIN pw2 = 1 .. n + 1 /\ pw2[n + 1] = p
      /\ \A k \in 1 .. n : pw2[k] = pw[k]
  <2>1. pw \in Seq(Pending)
    BY <1>1 DEF Typed
  <2> QED
    BY <1>2, <1>4, <1>5, <2>1
<1>7. /\ aw2 \in Seq(Address) /\ Len(aw2) = u + 1 /\ DOMAIN aw2 = 1 .. u + 1 /\ aw2[u + 1] = d
      /\ \A k \in 1 .. u : aw2[k] = aw[k]
  <2>1. aw \in Seq(Address)
    BY <1>1 DEF Typed
  <2> QED
    BY <1>2, <1>4, <1>5, <2>1
<1>8. \A k \in 1 .. n + 1 : k = n + 1 \/ k \in 1 .. n
  OBVIOUS
<1>9. Typed(aw2, bursts, pw2, stream, cut)
  BY <1>1, <1>6, <1>7 DEF Typed
<1>10. n + 1 \in DOMAIN cut => cut[n + 1].lo >= fed /\ cut[n + 1].hi > fed
  <2>1. n + 1 > Len(pw) /\ fed \in Nat
    BY <1>1, <1>2, CutFields DEF Fed
  <2> QED
    BY <1>1, <2>1, CutFields DEF Fed, InOrder
<1>11. Fed(stream, cut, fed, pw2)
  <2>1. fed \in 0 .. Len(stream) /\ fed \in Nat
    BY <1>1, CutFields DEF Fed
  <2>2. ASSUME NEW k \in DOMAIN pw2 PROVE pw2[k].complete <=> k \in DOMAIN cut /\ cut[k].done /\ cut[k].hi <= fed
    <3>1. CASE k = n + 1
      <4>1. ~pw2[k].complete
        BY <1>3, <1>6, <3>1
      <4>2. k \in DOMAIN cut => ~(cut[k].hi <= fed)
        BY <1>1, <1>10, <2>1, <3>1, CutFields
      <4> QED
        BY <4>1, <4>2
    <3>2. CASE k \in 1 .. n
      BY <1>1, <1>2, <1>6, <3>2 DEF Fed
    <3> QED
      BY <1>6, <1>8, <3>1, <3>2
  <2>3. ASSUME NEW k \in DOMAIN pw2
        PROVE  pw2[k].beats = IF k \in DOMAIN cut /\ cut[k].lo < fed
                             THEN Beats(stream, cut[k].lo, IF fed < cut[k].hi THEN fed ELSE cut[k].hi) ELSE << >>
    <3>1. CASE k = n + 1
      <4>1. pw2[k].beats = << >>
        BY <1>3, <1>6, <3>1
      <4>2. k \in DOMAIN cut => ~(cut[k].lo < fed)
        BY <1>1, <1>10, <2>1, <3>1, CutFields
      <4> QED
        BY <4>1, <4>2
    <3>2. CASE k \in 1 .. n
      BY <1>1, <1>2, <1>6, <3>2 DEF Fed
    <3> QED
      BY <1>6, <1>8, <3>1, <3>2
  <2>4. ASSUME NEW i \in DOMAIN cut, i > Len(pw2) PROVE cut[i].lo >= fed
    <3>1. i > Len(pw)
      BY <1>1, <1>2, <1>6, <2>4, CutFields
    <3> QED
      BY <1>1, <3>1 DEF Fed
  <2> QED
    BY <1>1, <2>1, <2>2, <2>3, <2>4 DEF Fed
<1>12. \A j \in Nat \ {0} : j > u => place[j] = n + j - u
  BY <1>1, <1>2 DEF Linked
<1>13. u + 1 \in Nat \ {0} /\ place[u + 1] = n + 1
  <2>1. u + 1 \in Nat \ {0} /\ u + 1 > u /\ n + (u + 1) - u = n + 1
    OBVIOUS
  <2> QED
    BY <1>12, <2>1
<1>14. Linked(aw2, bursts, pw2, stream, cut, place)
  <2>1. ASSUME NEW j \in Nat \ {0}, j > Len(aw2) PROVE place[j] = Len(pw2) + j - Len(aw2)
    BY <1>6, <1>7, <1>12, <2>1
  <2>2. ASSUME NEW j \in DOMAIN aw2
        PROVE place[j] <= Len(pw2) /\ pw2[place[j]].id = aw2[j].id /\ pw2[place[j]].addr = aw2[j].addr
    <3>1. CASE j = u + 1
      BY <1>3, <1>6, <1>7, <1>13, <3>1
    <3>2. CASE j \in 1 .. u
      <4>1. place[j] <= n /\ pw[place[j]].id = aw[j].id /\ pw[place[j]].addr = aw[j].addr
        BY <1>1, <1>2, <3>2 DEF Linked
      <4>2. place[j] \in Nat \ {0}
        BY <1>1, <3>2 DEF Linked
      <4>3. place[j] \in 1 .. n /\ place[j] <= n + 1
        BY <4>1, <4>2
      <4> QED
        BY <1>6, <1>7, <3>2, <4>1, <4>3
    <3> QED
      BY <1>7, <3>1, <3>2
  <2> QED
    BY <1>1, <2>1, <2>2 DEF Linked
<1>15. Responses(aw2, pw2, stream, cut, place, wrote, time)
  <2> SUFFICES ASSUME NEW k \in DOMAIN pw2, \A j \in DOMAIN aw2 : place[j] # k
               PROVE  /\ k \in DOMAIN cut /\ cut[k].done
                      /\ \E d2 \in wrote : Made(d2, pw2[k].id, pw2[k].addr, Beats(stream, cut[k].lo, cut[k].hi), time)
    BY DEF Responses
  <2>1. k # n + 1
    BY <1>7, <1>13
  <2>2. k \in 1 .. n /\ pw2[k] = pw[k]
    BY <1>6, <1>8, <2>1
  <2>3. \A j \in DOMAIN aw : place[j] # k
    BY <1>2, <1>7
  <2> QED
    BY <1>1, <1>2, <2>2, <2>3 DEF Responses
<1> QED
  BY <1>1, <1>3, <1>5, <1>9, <1>11, <1>14, <1>15 DEF Tied

\* One beat of what is in the buffer goes to the first pending write that lacks data:
\* it is the next of that write's burst.
LEMMA FeedKeeps ==
  ASSUME NEW aw, NEW bursts, NEW pw, NEW stream, NEW cut, NEW fed, NEW place, NEW wrote, NEW time,
         Tied(aw, bursts, pw, stream, cut, fed, place, wrote, time), fed < Len(stream),
         NEW k \in DOMAIN pw, ~pw[k].complete, \A i \in DOMAIN pw : ~pw[i].complete => k <= i
  PROVE  Tied(aw, bursts, [pw EXCEPT ![k] = [pw[k] EXCEPT !.beats = Append(@, stream[fed + 1].time), !.complete = stream[fed + 1].last]],
              stream, cut, fed + 1, place, wrote, time)
<1>1. Typed(aw, bursts, pw, stream, cut) /\ InOrder(stream, cut) /\ Fed(stream, cut, fed, pw)
      /\ Linked(aw, bursts, pw, stream, cut, place) /\ Responses(aw, pw, stream, cut, place, wrote, time)
  BY DEF Tied
<1>2. PICK n \in Nat, z \in Nat, m \in Nat :
        /\ n = Len(pw) /\ DOMAIN pw = 1 .. n /\ z = Len(cut) /\ DOMAIN cut = 1 .. z
        /\ m = Len(stream) /\ DOMAIN stream = 1 .. m
  BY <1>1, CutFields
<1>3. \A i \in 1 .. z : /\ cut[i].lo \in Nat /\ cut[i].hi \in Nat /\ cut[i].done \in BOOLEAN
                        /\ cut[i].lo < cut[i].hi /\ cut[i].hi <= m
  BY <1>1, <1>2, CutFields DEF InOrder
<1>4. \A i, j \in 1 .. z : i < j => cut[i].hi <= cut[j].lo /\ cut[i].done
  BY <1>1, <1>2 DEF InOrder
<1>5. \A i \in 1 .. n : pw[i].complete <=> i \in 1 .. z /\ cut[i].done /\ cut[i].hi <= fed
  BY <1>1, <1>2 DEF Fed
<1>6. fed \in Nat /\ fed < m /\ fed + 1 \in 1 .. m /\ fed + 1 \in fed + 1 .. m
  <2>1. fed \in 0 .. m
    BY <1>1, <1>2 DEF Fed
  <2>2. fed \in Nat /\ fed < m
    BY <1>2, <2>1
  <2> QED
    BY <2>2
<1>7. k \in 1 .. n /\ ~pw[k].complete
  BY <1>2
<1>8. PICK i \in 1 .. z : /\ cut[i].lo < fed + 1 /\ fed + 1 <= cut[i].hi
                          /\ stream[fed + 1].last <=> cut[i].done /\ fed + 1 = cut[i].hi
  BY <1>1, <1>2, <1>6 DEF Fed
<1>9. i = k
  <2>1. ~(k < i)
    <3>1. SUFFICES ASSUME k < i PROVE FALSE
      OBVIOUS
    <3>2. k \in 1 .. z
      BY <1>7, <3>1
    <3>3. cut[k].done /\ cut[k].hi <= cut[i].lo
      BY <1>4, <3>1, <3>2
    <3>4. cut[k].hi <= fed
      BY <1>3, <1>6, <1>8, <3>2, <3>3
    <3> QED
      BY <1>5, <1>7, <3>2, <3>3, <3>4
  <2>2. ~(i < k)
    <3>1. SUFFICES ASSUME i < k PROVE FALSE
      OBVIOUS
    <3>2. i \in 1 .. n
      BY <1>7, <3>1
    <3>3. ~(cut[i].hi <= fed)
      BY <1>3, <1>6, <1>8
    <3>4. ~pw[i].complete
      BY <1>5, <3>2, <3>3
    <3>5. k <= i
      BY <1>2, <3>2, <3>4
    <3> QED
      BY <1>7, <3>1, <3>5
  <2> QED
    BY <1>7, <2>1, <2>2
<1>10. /\ k \in 1 .. z /\ cut[k].lo \in Nat /\ cut[k].hi \in Nat /\ cut[k].lo <= fed /\ fed < cut[k].hi
       /\ stream[fed + 1].last <=> cut[k].done /\ cut[k].hi = fed + 1
  BY <1>3, <1>6, <1>8, <1>9
<1>11. PICK q : q = [pw[k] EXCEPT !.beats = Append(@, stream[fed + 1].time), !.complete = stream[fed + 1].last]
  OBVIOUS
<1>12. PICK pw2 : pw2 = [pw EXCEPT ![k] = q]
  OBVIOUS
<1>13. pw2 = [pw EXCEPT ![k] = [pw[k] EXCEPT !.beats = Append(@, stream[fed + 1].time), !.complete = stream[fed + 1].last]]
  BY <1>11, <1>12
<1>14. /\ DOMAIN pw2 = 1 .. n /\ \A j \in 1 .. n : j # k => pw2[j] = pw[j]
       /\ pw2[k] = [pw[k] EXCEPT !.beats = Append(@, stream[fed + 1].time), !.complete = stream[fed + 1].last]
  <2>1. DOMAIN pw2 = 1 .. n /\ (\A j \in 1 .. n : j # k => pw2[j] = pw[j]) /\ pw2[k] = q
    BY <1>2, <1>12
  <2> QED
    BY <1>11, <2>1
<1>15. pw[k] \in Pending /\ pw \in Seq(Pending)
  BY <1>1, <1>2 DEF Typed
<1>16. stream[fed + 1].time \in Nat /\ stream[fed + 1].last \in BOOLEAN
  BY <1>1, <1>2, <1>6, CutFields
<1>17. /\ pw2[k].id = pw[k].id /\ pw2[k].addr = pw[k].addr /\ pw2[k].complete = stream[fed + 1].last
       /\ pw2[k].beats = Append(pw[k].beats, stream[fed + 1].time) /\ pw2[k] \in Pending
  <2>1. pw[k].beats \in Seq(Nat)
    BY <1>15 DEF Pending
  <2>2. Append(pw[k].beats, stream[fed + 1].time) \in Seq(Nat)
    BY <1>16, <2>1
  <2> QED
    BY <1>14, <1>15, <1>16, <2>2 DEF Pending
<1>18. pw2 \in Seq(Pending) /\ Len(pw2) = n
  <2>1. \A j \in 1 .. n : pw2[j] \in Pending
    BY <1>2, <1>14, <1>15, <1>17
  <2>2. pw2 = [j \in 1 .. n |-> pw2[j]]
    BY <1>13, <1>14
  <2> QED
    BY <1>2, <2>1, <2>2
<1>19. \A j \in 1 .. n : pw2[j].id = pw[j].id /\ pw2[j].addr = pw[j].addr
  BY <1>14, <1>17
<1>20. Typed(aw, bursts, pw2, stream, cut)
  BY <1>1, <1>18 DEF Typed
<1>21. \A j \in 1 .. z : (j < k => cut[j].hi <= fed) /\ (k < j => cut[j].lo >= fed + 1 /\ cut[j].hi > fed + 1)
  <2> TAKE j \in 1 .. z
  <2>1. CASE j < k
    <3>1. cut[j].hi <= cut[k].lo /\ ~(k < j)
      BY <1>4, <1>7, <1>10, <2>1
    <3>2. cut[j].hi \in Nat
      BY <1>3
    <3>3. cut[j].hi <= fed
      BY <1>6, <1>10, <3>1, <3>2
    <3> QED
      BY <3>1, <3>3
  <2>2. CASE k < j
    <3>1. cut[k].hi <= cut[j].lo /\ ~(j < k)
      BY <1>4, <1>7, <1>10, <2>2
    <3>2. cut[j].lo \in Nat /\ cut[j].hi \in Nat /\ cut[j].lo < cut[j].hi
      BY <1>3, <1>4
    <3>3. fed + 1 <= cut[k].hi
      BY <1>6, <1>10
    <3>4. cut[j].lo >= fed + 1
      BY <1>6, <1>10, <3>1, <3>2, <3>3
    <3>5. cut[j].hi > fed + 1
      BY <1>6, <3>2, <3>4
    <3> QED
      BY <3>1, <3>4, <3>5
  <2> QED
    BY <1>7, <2>1, <2>2
<1>22. \A j \in 1 .. n : j < k \/ k < j \/ j = k
  BY <1>7
<1>23. Fed(stream, cut, fed + 1, pw2)
  <2>1. fed + 1 \in 0 .. Len(stream)
    BY <1>2, <1>6
  <2>2. ASSUME NEW j \in 1 .. n PROVE pw2[j].complete <=> j \in 1 .. z /\ cut[j].done /\ cut[j].hi <= fed + 1
    <3>1. CASE j = k
      BY <1>6, <1>10, <1>17, <3>1
    <3>2. CASE j # k
      <4>1. j \in 1 .. z => (cut[j].hi <= fed <=> cut[j].hi <= fed + 1)
        BY <1>3, <1>6, <1>21, <1>22, <3>2
      <4> QED
        BY <1>5, <1>14, <3>2, <4>1
    <3> QED
      BY <3>1, <3>2
  <2>3. ASSUME NEW j \in 1 .. n
        PROVE  pw2[j].beats = IF j \in 1 .. z /\ cut[j].lo < fed + 1
                              THEN Beats(stream, cut[j].lo, IF fed + 1 < cut[j].hi THEN fed + 1 ELSE cut[j].hi) ELSE << >>
    <3>1. pw[j].beats = IF j \in 1 .. z /\ cut[j].lo < fed
                        THEN Beats(stream, cut[j].lo, IF fed < cut[j].hi THEN fed ELSE cut[j].hi) ELSE << >>
      BY <1>1, <1>2 DEF Fed
    <3>2. CASE j = k
      <4>1. pw[k].beats = Beats(stream, cut[k].lo, fed)
        <5>1. CASE cut[k].lo < fed
          BY <1>10, <3>1, <3>2, <5>1
        <5>2. CASE cut[k].lo = fed
          <6>1. Beats(stream, fed, fed) = << >>
            BY <1>1, <1>2, <1>6, BeatsFacts DEF Typed
          <6>2. ~(cut[k].lo < fed)
            BY <1>10, <5>2
          <6> QED
            BY <3>1, <3>2, <5>2, <6>1, <6>2
        <5> QED
          BY <1>6, <1>10, <5>1, <5>2
      <4>2. Beats(stream, cut[k].lo, fed + 1) = Append(Beats(stream, cut[k].lo, fed), stream[fed + 1].time)
        <5>1. stream \in Seq(Beat) /\ fed <= Len(stream) /\ fed < Len(stream) /\ cut[k].lo <= fed /\ fed \in Nat
          BY <1>1, <1>2, <1>6, <1>10 DEF Typed
        <5> QED
          BY <1>10, <5>1, BeatsFacts, ZenonT(60)
      <4>3. (IF fed + 1 < cut[k].hi THEN fed + 1 ELSE cut[k].hi) = fed + 1 /\ cut[k].lo < fed + 1
        BY <1>6, <1>10
      <4> QED
        BY <1>10, <1>17, <3>2, <4>1, <4>2, <4>3
    <3>3. CASE j < k
      <4>1. pw2[j] = pw[j] /\ j \in 1 .. z
        BY <1>10, <1>14, <3>3
      <4>2. cut[j].lo < fed /\ cut[j].lo < fed + 1 /\ ~(fed < cut[j].hi) /\ ~(fed + 1 < cut[j].hi)
        BY <1>3, <1>6, <1>21, <3>3, <4>1
      <4> QED
        BY <3>1, <4>1, <4>2
    <3>4. CASE k < j
      <4>1. pw2[j] = pw[j]
        BY <1>7, <1>14, <3>4
      <4>2. j \in 1 .. z => ~(cut[j].lo < fed) /\ ~(cut[j].lo < fed + 1)
        BY <1>3, <1>6, <1>21, <3>4
      <4> QED
        BY <3>1, <4>1, <4>2
    <3> QED
      BY <1>22, <3>2, <3>3, <3>4
  <2>4. ASSUME NEW j \in 1 .. z, j > n PROVE cut[j].lo >= fed + 1
    <3>1. k < j
      BY <1>7, <2>4
    <3> QED
      BY <1>21, <3>1
  <2>5. ASSUME NEW x \in fed + 1 + 1 .. m
        PROVE  \E j \in 1 .. z : /\ cut[j].lo < x /\ x <= cut[j].hi
                                 /\ stream[x].last <=> cut[j].done /\ x = cut[j].hi
    <3>1. x \in fed + 1 .. m
      BY <1>6
    <3> QED
      BY <1>1, <1>2, <3>1 DEF Fed
  <2> QED
    BY <1>2, <1>14, <1>18, <2>1, <2>2, <2>3, <2>4, <2>5 DEF Fed
<1>24. Linked(aw, bursts, pw2, stream, cut, place)
  <2>1. ASSUME NEW j \in DOMAIN aw
        PROVE place[j] <= Len(pw2) /\ pw2[place[j]].id = aw[j].id /\ pw2[place[j]].addr = aw[j].addr
    <3>1. place[j] <= n /\ pw[place[j]].id = aw[j].id /\ pw[place[j]].addr = aw[j].addr
      BY <1>1, <1>2 DEF Linked
    <3>2. j \in Nat \ {0}
      BY <1>1, CutFields
    <3>3. place[j] \in Nat \ {0}
      BY <1>1, <3>2 DEF Linked
    <3>4. place[j] \in 1 .. n
      BY <3>1, <3>3
    <3> QED
      BY <1>18, <1>19, <3>1, <3>4
  <2> QED
    BY <1>1, <1>2, <1>18, <2>1 DEF Linked
<1>25. Responses(aw, pw2, stream, cut, place, wrote, time)
  BY <1>1, <1>2, <1>14, <1>19 DEF Responses
<1> QED
  BY <1>1, <1>13, <1>20, <1>23, <1>24, <1>25 DEF Tied

\* A sequence without its k-th entry: what RemoveAt returns.
IsWithout(r, s, k, n) ==
  /\ Len(r) = n - 1 /\ n - 1 \in Nat /\ DOMAIN r = 1 .. n - 1
  /\ \A i \in 1 .. n - 1 : r[i] = s[IF i < k THEN i ELSE i + 1]
LEMMA RemoveAtFacts ==
  ASSUME NEW S, NEW s \in Seq(S), NEW n \in Nat, Len(s) = n, NEW k \in 1 .. n
  PROVE  RemoveAt(s, k) \in Seq(S) /\ IsWithout(RemoveAt(s, k), s, k, n)
<1>1. PICK a, b : a = SubSeq(s, 1, k - 1) /\ b = SubSeq(s, k + 1, n)
  OBVIOUS
<1>2. a \in Seq(S) /\ Len(a) = k - 1 /\ \A i \in 1 .. k - 1 : a[i] = s[i]
  <2>1. k - 1 \in 0 .. n /\ 1 \in 1 .. n + 1
    OBVIOUS
  <2> QED
    BY <1>1, <2>1
<1>3. b \in Seq(S) /\ Len(b) = n - k /\ \A i \in 1 .. n - k : b[i] = s[k + i]
  BY <1>1
<1>4. RemoveAt(s, k) = a \o b
  BY <1>1 DEF RemoveAt
<1>5. a \o b \in Seq(S) /\ Len(a \o b) = n - 1
  <2>1. a \in Seq(S) /\ b \in Seq(S)
    BY <1>2, <1>3
  <2>2. a \o b \in Seq(S) /\ Len(a \o b) = Len(a) + Len(b)
    BY <2>1
  <2>3. (k - 1) + (n - k) = n - 1
    OBVIOUS
  <2> QED
    BY <1>2, <1>3, <2>2, <2>3
<1>6. ASSUME NEW i \in 1 .. n - 1 PROVE (a \o b)[i] = s[IF i < k THEN i ELSE i + 1]
  <2>1. CASE i < k
    <3>1. i \in 1 .. Len(a) /\ i \in 1 .. k - 1
      BY <1>2, <2>1
    <3>2. (a \o b)[i] = a[i]
      BY <1>2, <1>3, <3>1
    <3> QED
      BY <1>2, <2>1, <3>1, <3>2
  <2>2. CASE ~(i < k)
    <3>1. PICK l \in Nat : l = i - (k - 1)
      BY <2>2
    <3>2. l \in 1 .. n - k /\ i = Len(a) + l /\ k + l = i + 1
      BY <1>2, <2>2, <3>1
    <3>3. (a \o b)[i] = b[l]
      BY <1>2, <1>3, <1>5, <3>2
    <3> QED
      BY <1>3, <2>2, <3>2, <3>3
  <2> QED
    BY <2>1, <2>2
<1>7. n - 1 \in Nat
  OBVIOUS
<1> QED
  BY <1>4, <1>5, <1>6, <1>7 DEF IsWithout

\* The bus responds to the first write of an id: its address and its burst are gone
\* from the bus, and the pending write is one that has been made.
Shifted(place, m) == [j \in Nat \ {0} |-> IF j < m THEN place[j] ELSE place[j + 1]]
LEMMA ResponseKeeps ==
  ASSUME NEW aw, NEW bursts, NEW pw, NEW stream, NEW cut, NEW fed, NEW place, NEW wrote, NEW time,
         Tied(aw, bursts, pw, stream, cut, fed, place, wrote, time),
         NEW m \in DOMAIN aw, m \in DOMAIN bursts, bursts[m].done,
         NEW txn, Made(txn, aw[m].id, aw[m].addr, bursts[m].beats, time)
  PROVE  Tied(RemoveAt(aw, m), RemoveAt(bursts, m), pw, stream, cut, fed, Shifted(place, m), wrote \cup {txn}, time)
<1>1. Typed(aw, bursts, pw, stream, cut) /\ InOrder(stream, cut) /\ Fed(stream, cut, fed, pw)
      /\ Linked(aw, bursts, pw, stream, cut, place) /\ Responses(aw, pw, stream, cut, place, wrote, time)
  BY DEF Tied
<1>2. PICK u \in Nat, y \in Nat, n \in Nat, z \in Nat :
        /\ u = Len(aw) /\ DOMAIN aw = 1 .. u /\ y = Len(bursts) /\ DOMAIN bursts = 1 .. y
        /\ n = Len(pw) /\ DOMAIN pw = 1 .. n /\ z = Len(cut) /\ DOMAIN cut = 1 .. z
  BY <1>1, CutFields
<1>3. m \in 1 .. u /\ m \in 1 .. y /\ m \in Nat
  BY <1>2
<1>4. PICK aw2, bursts2, place2 : aw2 = RemoveAt(aw, m) /\ bursts2 = RemoveAt(bursts, m) /\ place2 = Shifted(place, m)
  OBVIOUS
<1>5. /\ aw2 \in Seq(Address) /\ Len(aw2) = u - 1 /\ u - 1 \in Nat /\ DOMAIN aw2 = 1 .. u - 1
      /\ \A i \in 1 .. u - 1 : aw2[i] = aw[IF i < m THEN i ELSE i + 1]
  <2>1. aw \in Seq(Address) /\ Len(aw) = u
    BY <1>1, <1>2 DEF Typed
  <2>2. RemoveAt(aw, m) \in Seq(Address) /\ IsWithout(RemoveAt(aw, m), aw, m, u)
    BY <1>3, <2>1, RemoveAtFacts
  <2> QED
    BY <1>4, <2>2 DEF IsWithout
<1>6. /\ bursts2 \in Seq(Burst) /\ Len(bursts2) = y - 1 /\ y - 1 \in Nat /\ DOMAIN bursts2 = 1 .. y - 1
      /\ \A i \in 1 .. y - 1 : bursts2[i] = bursts[IF i < m THEN i ELSE i + 1]
  <2>1. bursts \in Seq(Burst) /\ Len(bursts) = y
    BY <1>1, <1>2 DEF Typed
  <2>2. RemoveAt(bursts, m) \in Seq(Burst) /\ IsWithout(RemoveAt(bursts, m), bursts, m, y)
    BY <1>3, <2>1, RemoveAtFacts
  <2> QED
    BY <1>4, <2>2 DEF IsWithout
<1>7. Typed(aw2, bursts2, pw, stream, cut)
  BY <1>1, <1>5, <1>6 DEF Typed
<1>8. \A j \in Nat \ {0} : j + 1 \in Nat \ {0} /\ (IF j < m THEN j ELSE j + 1) \in Nat \ {0}
                           /\ place2[j] = place[IF j < m THEN j ELSE j + 1]
  BY <1>4 DEF Shifted
<1>9. \A j \in Nat \ {0} : place[j] \in Nat \ {0}
  BY <1>1 DEF Linked
<1>10. \A i, j \in Nat \ {0} : i < j => place[i] < place[j]
  BY <1>1 DEF Linked
<1>11. ASSUME NEW j \in 1 .. u - 1
       PROVE  (IF j < m THEN j ELSE j + 1) \in 1 .. u /\ j \in Nat \ {0} /\ aw2[j] = aw[IF j < m THEN j ELSE j + 1]
  BY <1>3, <1>5
<1>12. Linked(aw2, bursts2, pw, stream, cut, place2)
  <2>1. place2 \in [Nat \ {0} -> Nat \ {0}]
    <3>1. \A j \in Nat \ {0} : (IF j < m THEN place[j] ELSE place[j + 1]) \in Nat \ {0}
      BY <1>8, <1>9
    <3> QED
      BY <1>4, <3>1 DEF Shifted
  <2>2. ASSUME NEW i \in Nat \ {0}, NEW j \in Nat \ {0}, i < j PROVE place2[i] < place2[j]
    <3>1. PICK a \in Nat \ {0}, b \in Nat \ {0} : a = (IF i < m THEN i ELSE i + 1) /\ b = (IF j < m THEN j ELSE j + 1)
      BY <1>8
    <3>2. a < b
      BY <1>3, <2>2, <3>1
    <3> QED
      BY <1>8, <1>10, <3>1, <3>2
  <2>3. ASSUME NEW j \in Nat \ {0}, j > u - 1 PROVE place2[j] = n + j - (u - 1)
    <3>1. ~(j < m) /\ j + 1 > u /\ n + (j + 1) - u = n + j - (u - 1)
      BY <1>3, <2>3
    <3>2. place[j + 1] = n + (j + 1) - u
      BY <1>1, <1>2, <1>8, <3>1 DEF Linked
    <3> QED
      BY <1>8, <3>1, <3>2
  <2>4. ASSUME NEW j \in 1 .. u - 1 PROVE place2[j] <= n /\ pw[place2[j]].id = aw2[j].id /\ pw[place2[j]].addr = aw2[j].addr
    <3>1. PICK l : l = IF j < m THEN j ELSE j + 1
      OBVIOUS
    <3>2. l \in 1 .. u /\ place2[j] = place[l] /\ aw2[j] = aw[l]
      BY <1>8, <1>11, <3>1
    <3>3. place[l] <= n /\ pw[place[l]].id = aw[l].id /\ pw[place[l]].addr = aw[l].addr
      BY <1>1, <1>2, <3>2 DEF Linked
    <3> QED
      BY <3>2, <3>3
  <2>5. ASSUME NEW j \in Nat \ {0} PROVE j <= y - 1 <=> place2[j] <= z
    <3>1. \A l \in Nat \ {0} : l <= y <=> place[l] <= z
      BY <1>1, <1>2 DEF Linked
    <3>2. CASE j < m
      <4>1. j <= y - 1 /\ j <= y
        BY <1>3, <3>2
      <4> QED
        BY <1>8, <3>1, <3>2, <4>1
    <3>3. CASE ~(j < m)
      <4>1. j <= y - 1 <=> j + 1 <= y
        OBVIOUS
      <4> QED
        BY <1>8, <3>1, <3>3, <4>1
    <3> QED
      BY <3>2, <3>3
  <2>6. ASSUME NEW j \in 1 .. y - 1
        PROVE  bursts2[j] = [beats |-> Beats(stream, cut[place2[j]].lo, cut[place2[j]].hi), done |-> cut[place2[j]].done]
    <3>1. PICK l : l = IF j < m THEN j ELSE j + 1
      OBVIOUS
    <3>2. l \in 1 .. y /\ j \in Nat \ {0}
      BY <1>3, <3>1
    <3>3. place2[j] = place[l] /\ bursts2[j] = bursts[l]
      BY <1>6, <1>8, <3>1, <3>2
    <3>4. bursts[l] = [beats |-> Beats(stream, cut[place[l]].lo, cut[place[l]].hi), done |-> cut[place[l]].done]
      BY <1>1, <1>2, <3>2 DEF Linked
    <3> QED
      BY <3>3, <3>4
  <2> QED
    BY <1>2, <1>5, <1>6, <2>1, <2>2, <2>3, <2>4, <2>5, <2>6 DEF Linked
<1>13. Responses(aw2, pw, stream, cut, place2, wrote \cup {txn}, time)
  <2> SUFFICES ASSUME NEW k \in 1 .. n, \A j \in 1 .. u - 1 : place2[j] # k
               PROVE  /\ k \in 1 .. z /\ cut[k].done
                      /\ \E d \in wrote \cup {txn} : Made(d, pw[k].id, pw[k].addr, Beats(stream, cut[k].lo, cut[k].hi), time)
    BY <1>2, <1>5 DEF Responses
  <2>1. CASE k = place[m]
    <3>1. bursts[m] = [beats |-> Beats(stream, cut[k].lo, cut[k].hi), done |-> cut[k].done]
      BY <1>1, <2>1 DEF Linked
    <3>2. pw[k].id = aw[m].id /\ pw[k].addr = aw[m].addr
      BY <1>1, <2>1 DEF Linked
    <3>3. k <= z
      <4>1. m \in Nat \ {0} /\ m <= y
        BY <1>3
      <4> QED
        BY <1>1, <1>2, <2>1, <4>1 DEF Linked
    <3>4. k \in 1 .. z
      BY <3>3
    <3>5. Made(txn, pw[k].id, pw[k].addr, Beats(stream, cut[k].lo, cut[k].hi), time)
      BY <3>1, <3>2
    <3> QED
      BY <3>1, <3>4, <3>5
  <2>2. CASE k # place[m]
    <3>1. ASSUME NEW j \in 1 .. u PROVE place[j] # k
      <4>1. CASE j < m
        <5>1. j \in 1 .. u - 1 /\ j \in Nat \ {0}
          BY <1>3, <4>1
        <5>2. place2[j] # k
          BY <5>1
        <5> QED
          BY <1>8, <4>1, <5>1, <5>2
      <4>2. CASE j = m
        BY <2>2, <4>2
      <4>3. CASE j > m
        <5>1. PICK l \in Nat \ {0} : l = j - 1
          BY <1>3, <4>3
        <5>2. l \in 1 .. u - 1 /\ ~(l < m) /\ l + 1 = j
          BY <1>3, <4>3, <5>1
        <5>3. place2[l] # k
          BY <5>2
        <5> QED
          BY <1>8, <5>1, <5>2, <5>3
      <4> QED
        BY <1>3, <4>1, <4>2, <4>3
    <3>2. /\ k \in DOMAIN cut /\ cut[k].done
          /\ \E d \in wrote : Made(d, pw[k].id, pw[k].addr, Beats(stream, cut[k].lo, cut[k].hi), time)
      BY <1>1, <1>2, <3>1 DEF Responses
    <3> QED
      BY <1>2, <3>2
  <2> QED
    BY <2>1, <2>2
<1> QED
  BY <1>1, <1>4, <1>7, <1>12, <1>13 DEF Tied

\* A pending write that has been made is reported: it and its burst are gone.
Closed(place, k) == [j \in Nat \ {0} |-> IF place[j] > k THEN place[j] - 1 ELSE place[j]]
LEMMA ReportKeeps ==
  ASSUME NEW aw, NEW bursts, NEW pw, NEW stream, NEW cut, NEW fed, NEW place, NEW wrote, NEW time,
         Tied(aw, bursts, pw, stream, cut, fed, place, wrote, time),
         NEW k \in DOMAIN pw, pw[k].complete, \A j \in DOMAIN aw : place[j] # k
  PROVE  Tied(aw, bursts, RemoveAt(pw, k), stream, RemoveAt(cut, k), fed, Closed(place, k), wrote, time)
<1>1. Typed(aw, bursts, pw, stream, cut) /\ InOrder(stream, cut) /\ Fed(stream, cut, fed, pw)
      /\ Linked(aw, bursts, pw, stream, cut, place) /\ Responses(aw, pw, stream, cut, place, wrote, time)
  BY DEF Tied
<1>2. PICK u \in Nat, y \in Nat, n \in Nat, z \in Nat, m \in Nat :
        /\ u = Len(aw) /\ DOMAIN aw = 1 .. u /\ y = Len(bursts) /\ DOMAIN bursts = 1 .. y
        /\ n = Len(pw) /\ DOMAIN pw = 1 .. n /\ z = Len(cut) /\ DOMAIN cut = 1 .. z /\ m = Len(stream)
  BY <1>1, CutFields
<1>3. k \in 1 .. n /\ k \in 1 .. z /\ k \in Nat /\ cut[k].done /\ cut[k].hi <= fed
  BY <1>1, <1>2 DEF Fed
<1>4. PICK pw2, cut2, place2 : pw2 = RemoveAt(pw, k) /\ cut2 = RemoveAt(cut, k) /\ place2 = Closed(place, k)
  OBVIOUS
<1>5. /\ pw2 \in Seq(Pending) /\ Len(pw2) = n - 1 /\ n - 1 \in Nat /\ DOMAIN pw2 = 1 .. n - 1
      /\ \A i \in 1 .. n - 1 : pw2[i] = pw[IF i < k THEN i ELSE i + 1]
  <2>1. pw \in Seq(Pending) /\ Len(pw) = n
    BY <1>1, <1>2 DEF Typed
  <2>2. RemoveAt(pw, k) \in Seq(Pending) /\ IsWithout(RemoveAt(pw, k), pw, k, n)
    BY <1>3, <2>1, RemoveAtFacts
  <2> QED
    BY <1>4, <2>2 DEF IsWithout
<1>6. /\ cut2 \in Seq(Share) /\ Len(cut2) = z - 1 /\ z - 1 \in Nat /\ DOMAIN cut2 = 1 .. z - 1
      /\ \A i \in 1 .. z - 1 : cut2[i] = cut[IF i < k THEN i ELSE i + 1]
  <2>1. cut \in Seq(Share) /\ Len(cut) = z
    BY <1>1, <1>2 DEF Typed
  <2>2. RemoveAt(cut, k) \in Seq(Share) /\ IsWithout(RemoveAt(cut, k), cut, k, z)
    BY <1>3, <2>1, RemoveAtFacts
  <2> QED
    BY <1>4, <2>2 DEF IsWithout
<1>7. \A i \in 1 .. n - 1 : (IF i < k THEN i ELSE i + 1) \in 1 .. n
  BY <1>3
<1>8. \A i \in 1 .. z - 1 : (IF i < k THEN i ELSE i + 1) \in 1 .. z
  BY <1>3
<1>9. Typed(aw, bursts, pw2, stream, cut2)
  BY <1>1, <1>5, <1>6 DEF Typed
<1>10. fed \in Nat
  BY <1>1, <1>2 DEF Fed
<1>11. InOrder(stream, cut2)
  <2>1. ASSUME NEW i \in 1 .. z - 1 PROVE /\ cut2[i].lo < cut2[i].hi /\ cut2[i].hi <= Len(stream)
                                          /\ ~cut2[i].done => cut2[i].hi = Len(stream)
    <3>1. PICK a \in 1 .. z : a = IF i < k THEN i ELSE i + 1
      BY <1>8
    <3>2. cut2[i] = cut[a]
      BY <1>6, <3>1
    <3>3. /\ cut[a].lo < cut[a].hi /\ cut[a].hi <= Len(stream)
          /\ ~cut[a].done => cut[a].hi = Len(stream)
      BY <1>1, <1>2 DEF InOrder
    <3> QED
      BY <3>2, <3>3
  <2>2. ASSUME NEW i \in 1 .. z - 1, NEW j \in 1 .. z - 1, i < j PROVE cut2[i].hi <= cut2[j].lo /\ cut2[i].done
    <3>1. PICK a \in 1 .. z, b \in 1 .. z : a = (IF i < k THEN i ELSE i + 1) /\ b = (IF j < k THEN j ELSE j + 1)
      BY <1>8
    <3>2. cut2[i] = cut[a] /\ cut2[j] = cut[b]
      BY <1>6, <3>1
    <3>3. a < b
      BY <1>3, <2>2, <3>1
    <3>4. cut[a].hi <= cut[b].lo /\ cut[a].done
      BY <1>1, <1>2, <3>3 DEF InOrder
    <3> QED
      BY <3>2, <3>4
  <2> QED
    BY <1>6, <2>1, <2>2 DEF InOrder
<1>12. Fed(stream, cut2, fed, pw2)
  <2>1. ASSUME NEW i \in 1 .. n - 1
        PROVE  LET a == IF i < k THEN i ELSE i + 1 IN
               a \in 1 .. n /\ pw2[i] = pw[a] /\ (a \in 1 .. z <=> i \in 1 .. z - 1) /\ (i \in 1 .. z - 1 => cut2[i] = cut[a])
    BY <1>3, <1>5, <1>6, <1>7
  <2>2. ASSUME NEW i \in 1 .. n - 1 PROVE pw2[i].complete <=> i \in 1 .. z - 1 /\ cut2[i].done /\ cut2[i].hi <= fed
    <3>1. PICK a \in 1 .. n : pw2[i] = pw[a] /\ (a \in 1 .. z <=> i \in 1 .. z - 1) /\ (i \in 1 .. z - 1 => cut2[i] = cut[a])
      BY <2>1
    <3>2. pw[a].complete <=> a \in 1 .. z /\ cut[a].done /\ cut[a].hi <= fed
      BY <1>1, <1>2 DEF Fed
    <3> QED
      BY <3>1, <3>2
  <2>3. ASSUME NEW i \in 1 .. n - 1
        PROVE  pw2[i].beats = IF i \in 1 .. z - 1 /\ cut2[i].lo < fed
                              THEN Beats(stream, cut2[i].lo, IF fed < cut2[i].hi THEN fed ELSE cut2[i].hi) ELSE << >>
    <3>1. PICK a \in 1 .. n : pw2[i] = pw[a] /\ (a \in 1 .. z <=> i \in 1 .. z - 1) /\ (i \in 1 .. z - 1 => cut2[i] = cut[a])
      BY <2>1
    <3>2. pw[a].beats = IF a \in 1 .. z /\ cut[a].lo < fed
                        THEN Beats(stream, cut[a].lo, IF fed < cut[a].hi THEN fed ELSE cut[a].hi) ELSE << >>
      BY <1>1, <1>2 DEF Fed
    <3> QED
      BY <3>1, <3>2
  <2>4. ASSUME NEW i \in 1 .. z - 1, i > n - 1 PROVE cut2[i].lo >= fed
    <3>1. ~(i < k) /\ i + 1 \in 1 .. z /\ i + 1 > n /\ cut2[i] = cut[i + 1]
      BY <1>3, <1>6, <2>4
    <3> QED
      BY <1>1, <1>2, <3>1 DEF Fed
  <2>5. ASSUME NEW x \in fed + 1 .. m
        PROVE  \E i \in 1 .. z - 1 : /\ cut2[i].lo < x /\ x <= cut2[i].hi
                                     /\ stream[x].last <=> cut2[i].done /\ x = cut2[i].hi
    <3>1. PICK a \in 1 .. z : /\ cut[a].lo < x /\ x <= cut[a].hi
                              /\ stream[x].last <=> cut[a].done /\ x = cut[a].hi
      BY <1>1, <1>2 DEF Fed
    <3>2. a # k
      <4>1. cut[k].hi \in Nat
        BY <1>1, <1>2, <1>3, CutFields
      <4> QED
        BY <1>3, <1>10, <3>1, <4>1
    <3>3. PICK i \in 1 .. z - 1 : a = IF i < k THEN i ELSE i + 1
      <4>1. CASE a < k
        <5>1. a \in 1 .. z - 1
          BY <1>3, <4>1
        <5> QED
          BY <4>1, <5>1
      <4>2. CASE k < a
        <5>1. a - 1 \in 1 .. z - 1 /\ ~(a - 1 < k) /\ (a - 1) + 1 = a
          BY <1>3, <4>2
        <5> QED
          BY <5>1
      <4> QED
        BY <1>3, <3>2, <4>1, <4>2
    <3>4. cut2[i] = cut[a]
      BY <1>6, <3>3
    <3> QED
      BY <3>1, <3>4
  <2>6. fed \in 0 .. Len(stream)
    BY <1>1 DEF Fed
  <2>7. \A i \in DOMAIN pw2 : pw2[i].complete <=> i \in DOMAIN cut2 /\ cut2[i].done /\ cut2[i].hi <= fed
    BY <1>5, <1>6, <2>2
  <2>8. \A i \in DOMAIN pw2 :
          pw2[i].beats = IF i \in DOMAIN cut2 /\ cut2[i].lo < fed
                         THEN Beats(stream, cut2[i].lo, IF fed < cut2[i].hi THEN fed ELSE cut2[i].hi) ELSE << >>
    BY <1>5, <1>6, <2>3
  <2>9. \A i \in DOMAIN cut2 : i > Len(pw2) => cut2[i].lo >= fed
    BY <1>5, <1>6, <2>4
  <2>10. \A x \in fed + 1 .. Len(stream) :
           \E i \in DOMAIN cut2 : /\ cut2[i].lo < x /\ x <= cut2[i].hi
                                  /\ stream[x].last <=> cut2[i].done /\ x = cut2[i].hi
    <3>1. DOMAIN cut2 = 1 .. z - 1 /\ Len(stream) = m
      BY <1>2, <1>6
    <3> QED
      BY <2>5, <3>1
  <2> QED
    BY <2>6, <2>7, <2>8, <2>9, <2>10 DEF Fed
<1>13. \A j \in Nat \ {0} : place[j] \in Nat \ {0}
  BY <1>1 DEF Linked
<1>14. \A j \in Nat \ {0} : j > u => place[j] = n + j - u /\ place[j] > k
  <2> TAKE j \in Nat \ {0}
  <2>1. j > u => place[j] = n + j - u
    BY <1>1, <1>2 DEF Linked
  <2> QED
    BY <1>3, <2>1
<1>15. \A j \in Nat \ {0} : place[j] # k
  <2> TAKE j \in Nat \ {0}
  <2>1. CASE j > u
    BY <1>3, <1>13, <1>14, <2>1
  <2>2. CASE j \in 1 .. u
    BY <1>2, <2>2
  <2> QED
    BY <2>1, <2>2
<1>16. \A j \in Nat \ {0} : place2[j] = IF place[j] > k THEN place[j] - 1 ELSE place[j]
  BY <1>4 DEF Closed
<1>17. ASSUME NEW j \in Nat \ {0}
       PROVE  /\ place2[j] \in Nat \ {0} /\ place[j] = IF place2[j] < k THEN place2[j] ELSE place2[j] + 1
              /\ \A l \in Nat : l >= k => (place[j] <= l <=> place2[j] <= l - 1)
  <2>1. PICK p \in Nat \ {0} : p = place[j] /\ p # k
    BY <1>13, <1>15
  <2>2. CASE p > k
    <3>1. place2[j] = p - 1 /\ p - 1 \in Nat /\ p - 1 >= k
      BY <1>3, <1>16, <2>1, <2>2
    <3> QED
      BY <1>3, <2>1, <2>2, <3>1
  <2>3. CASE p < k
    BY <1>3, <1>16, <2>1, <2>3
  <2> QED
    BY <1>3, <2>1, <2>2, <2>3
<1>18. Linked(aw, bursts, pw2, stream, cut2, place2)
  <2>1. place2 \in [Nat \ {0} -> Nat \ {0}]
    <3>1. place2 = [j \in Nat \ {0} |-> place2[j]]
      BY <1>4 DEF Closed
    <3> QED
      BY <1>17, <3>1
  <2>2. ASSUME NEW i \in Nat \ {0}, NEW j \in Nat \ {0}, i < j PROVE place2[i] < place2[j]
    <3>1. place[i] < place[j]
      BY <1>1, <2>2 DEF Linked
    <3> QED
      BY <1>3, <1>13, <1>15, <1>16, <3>1
  <2>3. ASSUME NEW j \in Nat \ {0}, j > u PROVE place2[j] = (n - 1) + j - u
    BY <1>14, <1>16, <2>3
  <2>4. ASSUME NEW j \in 1 .. u PROVE place2[j] <= n - 1 /\ pw2[place2[j]].id = aw[j].id /\ pw2[place2[j]].addr = aw[j].addr
    <3>1. place[j] <= n /\ pw[place[j]].id = aw[j].id /\ pw[place[j]].addr = aw[j].addr
      BY <1>1, <1>2 DEF Linked
    <3>2. j \in Nat \ {0} /\ n >= k
      BY <1>3
    <3>3. place2[j] <= n - 1 /\ place2[j] \in 1 .. n - 1
      BY <1>17, <3>1, <3>2
    <3>4. pw2[place2[j]] = pw[place[j]]
      BY <1>5, <1>17, <3>2, <3>3
    <3> QED
      BY <3>1, <3>3, <3>4
  <2>5. ASSUME NEW j \in Nat \ {0} PROVE j <= y <=> place2[j] <= z - 1
    <3>1. j <= y <=> place[j] <= z
      BY <1>1, <1>2 DEF Linked
    <3> QED
      BY <1>3, <1>17, <3>1
  <2>6. ASSUME NEW j \in 1 .. y
        PROVE  bursts[j] = [beats |-> Beats(stream, cut2[place2[j]].lo, cut2[place2[j]].hi), done |-> cut2[place2[j]].done]
    <3>1. j \in Nat \ {0} /\ j <= y
      OBVIOUS
    <3>2. place2[j] \in 1 .. z - 1
      BY <1>17, <2>5, <3>1
    <3>3. cut2[place2[j]] = cut[place[j]]
      BY <1>6, <1>17, <3>1, <3>2
    <3>4. bursts[j] = [beats |-> Beats(stream, cut[place[j]].lo, cut[place[j]].hi), done |-> cut[place[j]].done]
      BY <1>1, <1>2 DEF Linked
    <3> QED
      BY <3>3, <3>4
  <2> QED
    BY <1>2, <1>5, <1>6, <2>1, <2>2, <2>3, <2>4, <2>5, <2>6 DEF Linked
<1>19. Responses(aw, pw2, stream, cut2, place2, wrote, time)
  <2> SUFFICES ASSUME NEW i \in 1 .. n - 1, \A j \in 1 .. u : place2[j] # i
               PROVE  /\ i \in 1 .. z - 1 /\ cut2[i].done
                      /\ \E d \in wrote : Made(d, pw2[i].id, pw2[i].addr, Beats(stream, cut2[i].lo, cut2[i].hi), time)
    BY <1>2, <1>5, <1>6 DEF Responses
  <2>1. PICK a \in 1 .. n : a = IF i < k THEN i ELSE i + 1
    BY <1>7
  <2>2. ASSUME NEW j \in 1 .. u PROVE place[j] # a
    <3>1. j \in Nat \ {0} /\ place2[j] # i
      OBVIOUS
    <3>2. PICK p \in Nat : p = place2[j] /\ place[j] = IF p < k THEN p ELSE p + 1
      BY <1>17, <3>1
    <3>3. p # i
      BY <3>1, <3>2
    <3> QED
      BY <1>3, <2>1, <3>2, <3>3
  <2>3. /\ a \in 1 .. z /\ cut[a].done
        /\ \E d \in wrote : Made(d, pw[a].id, pw[a].addr, Beats(stream, cut[a].lo, cut[a].hi), time)
    BY <1>1, <1>2, <2>2 DEF Responses
  <2>4. i \in 1 .. z - 1
    BY <1>3, <2>1, <2>3
  <2>5. cut2[i] = cut[a] /\ pw2[i] = pw[a]
    BY <1>5, <1>6, <2>1, <2>4
  <2> QED
    BY <2>3, <2>4, <2>5
<1> QED
  BY <1>1, <1>4, <1>9, <1>11, <1>12, <1>18, <1>19 DEF Tied

\* What is known of responses up to some time holds up to the next.
LEMMA TimePasses ==
  ASSUME NEW aw, NEW bursts, NEW pw, NEW stream, NEW cut, NEW fed, NEW place, NEW wrote, NEW time \in Nat,
         Tied(aw, bursts, pw, stream, cut, fed, place, wrote, time), \A d \in wrote : d.resp \in Nat
  PROVE  Tied(aw, bursts, pw, stream, cut, fed, place, wrote, time + 1)
<1>1. \A d \in wrote : \A id, addr, beats : Made(d, id, addr, beats, time) => Made(d, id, addr, beats, time + 1)
  BY DEF Made
<1>2. Responses(aw, pw, stream, cut, place, wrote, time)
  BY DEF Tied
<1>3. Responses(aw, pw, stream, cut, place, wrote, time + 1)
  BY <1>1, <1>2 DEF Responses
<1> QED
  BY <1>3 DEF Tied

\* A reset: nothing is pending, and nothing has been sent since.
LEMMA ResetKeeps ==
  ASSUME NEW wrote, NEW time
  PROVE  Tied(<< >>, << >>, << >>, << >>, << >>, 0, [j \in Nat \ {0} |-> j], wrote, time)
<1>1. /\ << >> \in Seq(Address) /\ << >> \in Seq(Burst) /\ << >> \in Seq(Pending)
      /\ << >> \in Seq(Beat) /\ << >> \in Seq(Share) /\ Len(<< >>) = 0 /\ DOMAIN << >> = {}
  OBVIOUS
<1>2. Typed(<< >>, << >>, << >>, << >>, << >>)
  BY <1>1 DEF Typed
<1>3. InOrder(<< >>, << >>)
  BY <1>1 DEF InOrder
<1>4. Fed(<< >>, << >>, 0, << >>)
  <2>1. 0 \in 0 .. 0 /\ 0 + 1 .. 0 = {}
    OBVIOUS
  <2> QED
    BY <1>1, <2>1 DEF Fed
<1>5. Linked(<< >>, << >>, << >>, << >>, << >>, [j \in Nat \ {0} |-> j])
  BY <1>1 DEF Linked
<1>6. Responses(<< >>, << >>, << >>, << >>, [j \in Nat \ {0} |-> j], wrote, time)
  BY <1>1 DEF Responses
<1> QED
  BY <1>2, <1>3, <1>4, <1>5, <1>6 DEF Tied

\* What Append returns.
IsOneMore(r, s, x, n) == Len(r) = n + 1 /\ DOMAIN r = 1 .. n + 1 /\ r[n + 1] = x /\ \A i \in 1 .. n : r[i] = s[i]
LEMMA OneMoreFacts ==
  ASSUME NEW S, NEW s \in Seq(S), NEW x \in S, NEW n \in Nat, n = Len(s)
  PROVE  Append(s, x) \in Seq(S) /\ IsOneMore(Append(s, x), s, x, n)
BY DEF IsOneMore

BusFields == {"aw", "bursts", "reads", "wrote", "did", "dataFirst"}
AnFields == {"buf", "pw", "pr", "ow", "or", "owId", "orId", "writes", "reads", "samples"}

\* What the buffer has is what has not been fed.
Buffered(buf, stream, fed) ==
  buf \in Seq(Beat) /\ Len(buf) = Len(stream) - fed /\ \A l \in 1 .. Len(buf) : buf[l] = stream[fed + l]

\* PushBeat: the beat that comes goes into both stream and buffer.
LEMMA BufferedMore ==
  ASSUME NEW stream \in Seq(Beat), NEW fed \in 0 .. Len(stream), NEW buf, Buffered(buf, stream, fed), NEW beat \in Beat
  PROVE  Buffered(Append(buf, beat), Append(stream, beat), fed)
<1>1. PICK n \in Nat, m \in Nat : n = Len(buf) /\ m = Len(stream)
  <2>1. buf \in Seq(Beat)
    BY DEF Buffered
  <2> QED
    BY <2>1
<1>2. n = Len(buf) /\ m = Len(stream) /\ buf \in Seq(Beat) /\ fed \in Nat /\ m = fed + n
  <2>1. fed \in 0 .. m
    BY <1>1
  <2>2. fed \in Nat /\ m - fed = n
    BY <1>1, <2>1 DEF Buffered
  <2> QED
    BY <1>1, <2>2 DEF Buffered
<1>3. PICK buf2, stream2 : buf2 = Append(buf, beat) /\ stream2 = Append(stream, beat)
  OBVIOUS
<1>4. buf2 \in Seq(Beat) /\ Len(buf2) = n + 1 /\ buf2[n + 1] = beat /\ \A l \in 1 .. n : buf2[l] = buf[l]
  BY <1>2, <1>3
<1>5. Len(stream2) = m + 1 /\ stream2[m + 1] = beat /\ \A l \in 1 .. m : stream2[l] = stream[l]
  <2>1. Append(stream, beat) \in Seq(Beat) /\ IsOneMore(Append(stream, beat), stream, beat, m)
    BY <1>1, OneMoreFacts
  <2> QED
    BY <1>3, <2>1 DEF IsOneMore
<1>6. ASSUME NEW l \in 1 .. n + 1 PROVE buf2[l] = stream2[fed + l]
  <2>1. CASE l = n + 1
    BY <1>2, <1>4, <1>5, <2>1
  <2>2. CASE l \in 1 .. n
    <3>1. fed + l \in 1 .. m
      BY <1>2, <2>2
    <3> QED
      BY <1>2, <1>4, <1>5, <2>2, <3>1 DEF Buffered
  <2> QED
    BY <2>1, <2>2
<1>7. n + 1 = m + 1 - fed
  BY <1>2
<1>8. Len(buf2) = Len(stream2) - fed /\ \A l \in 1 .. Len(buf2) : buf2[l] = stream2[fed + l]
  BY <1>4, <1>5, <1>6, <1>7
<1> QED
  BY <1>3, <1>4, <1>8 DEF Buffered

\* What Sent leaves alone, and what it makes of the bursts.
LEMMA SentFrame ==
  ASSUME NEW b, DOMAIN b = BusFields, NEW h, NEW time
  PROVE  LET s == Sent(b, h, time) IN
         /\ DOMAIN s = BusFields /\ s.aw = b.aw /\ s.reads = b.reads /\ s.wrote = b.wrote /\ s.did = b.did
         /\ s.dataFirst = b.dataFirst
         /\ s.bursts = IF h.w = "none" THEN b.bursts
                       ELSE LET c == Current(b)
                                burst == [beats |-> Append(c.beats, time), done |-> h.w = "last"]
                            IN IF c.beats = << >> THEN Append(b.bursts, burst) ELSE Append(Front(b.bursts), burst)
<1>1. PICK q1, q2 : /\ q1 = Append(b.bursts, [beats |-> Append(Current(b).beats, time), done |-> h.w = "last"])
                    /\ q2 = Append(Front(b.bursts), [beats |-> Append(Current(b).beats, time), done |-> h.w = "last"])
  OBVIOUS
<1>2. Sent(b, h, time) = IF h.w = "none" THEN b
                         ELSE IF Current(b).beats = << >> THEN [b EXCEPT !.bursts = q1] ELSE [b EXCEPT !.bursts = q2]
  BY <1>1 DEF Sent
<1>3. ASSUME NEW q
      PROVE  LET s == [b EXCEPT !.bursts = q] IN
             /\ DOMAIN s = BusFields /\ s.aw = b.aw /\ s.reads = b.reads /\ s.wrote = b.wrote /\ s.did = b.did
             /\ s.bursts = q /\ s.dataFirst = b.dataFirst
  BY DEF BusFields
<1>4. CASE h.w = "none"
  BY <1>2, <1>4
<1>5. CASE h.w # "none" /\ Current(b).beats = << >>
  BY <1>1, <1>2, <1>3, <1>5
<1>6. CASE h.w # "none" /\ Current(b).beats # << >>
  BY <1>1, <1>2, <1>3, <1>6
<1> QED
  BY <1>4, <1>5, <1>6

\* What PushBeat leaves alone, and what it makes of the buffer.
LEMMA PushFrame ==
  ASSUME NEW a, DOMAIN a = AnFields, NEW h
  PROVE  LET p == PushBeat(a, h) IN
         /\ DOMAIN p = AnFields /\ p.pw = a.pw /\ p.writes = a.writes /\ p.ow = a.ow /\ p.owId = a.owId
         /\ p.buf = IF h.w = "none" THEN a.buf ELSE Append(a.buf, [time |-> t + 1, last |-> h.w = "last"])
<1>1. PICK q : q = Append(a.buf, [time |-> t + 1, last |-> h.w = "last"])
  OBVIOUS
<1>2. LET p == [a EXCEPT !.buf = q] IN
      DOMAIN p = AnFields /\ p.pw = a.pw /\ p.writes = a.writes /\ p.ow = a.ow /\ p.owId = a.owId /\ p.buf = q
  BY DEF AnFields
<1>3. PushBeat(a, h) = IF h.w = "none" THEN a ELSE [a EXCEPT !.buf = q]
  BY <1>1 DEF PushBeat
<1> QED
  BY <1>1, <1>2, <1>3

\* Write data: the analyzer and the bus take the beat in.
IsTaken(beat, bursts, bursts2) ==
  \E old, burst :
    /\ old = IF bursts # << >> /\ ~Last(bursts).done THEN Last(bursts) ELSE [beats |-> << >>, done |-> FALSE]
    /\ burst = [beats |-> Append(old.beats, beat.time), done |-> beat.last]
    /\ bursts2 = IF old.beats = << >> THEN Append(bursts, burst) ELSE Append(Front(bursts), burst)
LEMMA SentIsTied ==
  ASSUME NEW aw, NEW bursts, NEW pw, NEW stream, NEW cut, NEW fed, NEW place, NEW wrote, NEW time,
         Tied(aw, bursts, pw, stream, cut, fed, place, wrote, time), NEW buf, Buffered(buf, stream, fed),
         NEW beat \in Beat, NEW bursts2, IsTaken(beat, bursts, bursts2)
  PROVE  /\ \E stream2, cut2 : /\ Tied(aw, bursts2, pw, stream2, cut2, fed, place, wrote, time)
                               /\ Buffered(Append(buf, beat), stream2, fed)
         /\ \A k \in DOMAIN bursts : bursts[k].done => k \in DOMAIN bursts2 /\ bursts2[k] = bursts[k]
<1>1. PICK old, burst :
    /\ old = IF bursts # << >> /\ ~Last(bursts).done THEN Last(bursts) ELSE [beats |-> << >>, done |-> FALSE]
    /\ burst = [beats |-> Append(old.beats, beat.time), done |-> beat.last]
    /\ bursts2 = IF old.beats = << >> THEN Append(bursts, burst) ELSE Append(Front(bursts), burst)
  BY DEF IsTaken
<1>2. Typed(aw, bursts, pw, stream, cut) /\ InOrder(stream, cut) /\ Fed(stream, cut, fed, pw)
      /\ Linked(aw, bursts, pw, stream, cut, place) /\ Responses(aw, pw, stream, cut, place, wrote, time)
  BY DEF Tied
<1>3. PICK y \in Nat, z \in Nat, n \in Nat :
        /\ y = Len(bursts) /\ DOMAIN bursts = 1 .. y /\ z = Len(cut) /\ DOMAIN cut = 1 .. z /\ n = Len(stream)
  BY <1>2, CutFields
<1>4. bursts \in Seq(Burst) /\ cut \in Seq(Share) /\ stream \in Seq(Beat)
  BY <1>2 DEF Typed
<1>5. beat.time \in Nat /\ beat.last \in BOOLEAN
  BY DEF Beat
<1>6. PICK stream2 \in Seq(Beat) : /\ stream2 = Append(stream, beat) /\ Len(stream2) = n + 1 /\ stream2[n + 1] = beat
                                   /\ Buffered(Append(buf, beat), stream2, fed)
  <2>1. fed \in 0 .. Len(stream)
    BY <1>2 DEF Fed
  <2>2. Append(stream, beat) \in Seq(Beat) /\ Len(Append(stream, beat)) = n + 1 /\ Append(stream, beat)[n + 1] = beat
    BY <1>3, <1>4
  <2> QED
    BY <1>4, <2>1, <2>2, BufferedMore
<1>7. ASSUME NEW lo \in Nat, lo <= n, old.beats = Beats(stream, lo, n)
      PROVE  burst = [beats |-> Beats(stream2, lo, n + 1), done |-> beat.last] /\ burst \in Burst
  <2>1. Beats(stream2, lo, n) = Beats(stream, lo, n)
    BY <1>3, <1>4, <1>6, <1>7, BeatsFacts
  <2>2. n <= Len(stream2) /\ n < Len(stream2) /\ lo <= n /\ stream2[n + 1].time = beat.time
    BY <1>6, <1>7
  <2>3. /\ Beats(stream2, lo, n + 1) = Append(Beats(stream2, lo, n), stream2[n + 1].time)
        /\ Beats(stream2, lo, n) \in Seq(Nat)
    BY <2>2, BeatsFacts
  <2>4. PICK s \in Seq(Nat) : s = Beats(stream2, lo, n) /\ s = old.beats
    BY <1>7, <2>1, <2>3
  <2>5. burst = [beats |-> Beats(stream2, lo, n + 1), done |-> beat.last]
    BY <1>1, <2>2, <2>3, <2>4
  <2>6. Append(s, beat.time) \in Seq(Nat)
    BY <1>5
  <2>7. PICK r \in Seq(Nat) : r = Beats(stream2, lo, n + 1)
    BY <2>2, <2>3, <2>4, <2>6
  <2>8. [beats |-> r, done |-> beat.last] \in Burst
    BY <1>5 DEF Burst
  <2> QED
    BY <2>5, <2>7, <2>8
<1>8. CASE bursts # << >> /\ ~bursts[y].done
  <2>1. y \in Nat \ {0} /\ z \in Nat \ {0} /\ place[y] = z /\ ~cut[z].done /\ y \in 1 .. y /\ z \in 1 .. z
    BY <1>2, <1>3, <1>8, OpenBurst
  <2>2. PICK lo \in Nat : lo = cut[z].lo /\ lo < cut[z].hi /\ cut[z].hi = n
    BY <1>2, <1>3, <2>1, CutFields DEF InOrder
  <2>3. bursts[y] = [beats |-> Beats(stream, lo, n), done |-> FALSE]
    <3>1. bursts[y] = [beats |-> Beats(stream, cut[z].lo, cut[z].hi), done |-> cut[z].done]
      BY <1>2, <1>3, <2>1 DEF Linked
    <3>2. cut[z].done = FALSE
      BY <1>2, <1>3, <2>1, CutFields
    <3> QED
      BY <2>2, <3>1, <3>2
  <2>4. old = bursts[y] /\ old.beats = Beats(stream, lo, n)
    BY <1>3, <1>8, <1>1, <2>3 DEF Last
  <2>5. old.beats # << >>
    <3>1. lo <= n /\ n <= Len(stream) /\ n - lo # 0
      BY <1>3, <2>2
    <3>2. Len(Beats(stream, lo, n)) = n - lo
      BY <1>4, <3>1, BeatsFacts
    <3> QED
      BY <2>4, <3>1, <3>2
  <2>6. burst = [beats |-> Beats(stream2, lo, n + 1), done |-> beat.last] /\ burst \in Burst
    <3>1. lo <= n
      BY <2>2
    <3> QED
      BY <1>7, <2>4, <3>1
  <2>7. PICK f : f = SubSeq(bursts, 1, y - 1) /\ bursts2 = Append(f, burst)
    BY <1>3, <1>1, <2>5 DEF Front
  <2>8. f \in Seq(Burst) /\ Len(f) = y - 1 /\ \A i \in 1 .. y - 1 : f[i] = bursts[i]
    <3>1. y - 1 \in 0 .. y
      BY <2>1
    <3> QED
      BY <1>3, <1>4, <2>7, <3>1
  <2>9. bursts2 \in Seq(Burst) /\ Len(bursts2) = y /\ bursts2[y] = burst /\ \A i \in 1 .. y - 1 : bursts2[i] = f[i]
    <3>1. y - 1 + 1 = y /\ y - 1 \in Nat
      BY <2>1
    <3>2. Append(f, burst) \in Seq(Burst) /\ IsOneMore(Append(f, burst), f, burst, y - 1)
      BY <2>6, <2>8, <3>1, OneMoreFacts
    <3> QED
      BY <2>7, <3>1, <3>2 DEF IsOneMore
  <2>10. PICK cut2 : cut2 = [cut EXCEPT ![z] = [lo |-> lo, hi |-> n + 1, done |-> beat.last]]
    OBVIOUS
  <2>11. /\ cut2 \in Seq(Share) /\ Len(cut2) = z /\ cut2[z] = [lo |-> lo, hi |-> n + 1, done |-> beat.last]
         /\ \A i \in 1 .. z - 1 : cut2[i] = cut[i]
    <3>1. [lo |-> lo, hi |-> n + 1, done |-> beat.last] \in Share
      BY <1>5 DEF Share
    <3>2. \A i \in 1 .. z - 1 : i \in 1 .. z /\ i # z
      OBVIOUS
    <3>3. DOMAIN cut = 1 .. z /\ z \in DOMAIN cut /\ cut \in Seq(Share)
      BY <1>3, <1>4, <2>1
    <3>4. cut2 \in Seq(Share) /\ Len(cut2) = Len(cut)
      BY <2>10, <3>1, <3>3
    <3>5. Len(cut2) = z
      BY <1>3, <3>4
    <3>6. cut2[z] = [lo |-> lo, hi |-> n + 1, done |-> beat.last] /\ \A i \in 1 .. z - 1 : cut2[i] = cut[i]
      BY <2>10, <3>2, <3>3
    <3> QED
      BY <3>4, <3>5, <3>6
  <2>12. \A i \in 1 .. z - 1 : i \in DOMAIN cut /\ cut[i].done
    BY <1>2, <1>3, <2>1 DEF InOrder
  <2>13. \A i \in 1 .. y - 1 : i \in DOMAIN bursts /\ bursts2[i] = bursts[i]
    <3>1. \A i \in 1 .. y - 1 : bursts2[i] = bursts[i]
      BY <2>8, <2>9
    <3>2. \A i \in 1 .. y - 1 : i \in DOMAIN bursts
      BY <1>3, <2>1
    <3> QED
      BY <3>1, <3>2
  <2>14. Tied(aw, bursts2, pw, Append(stream, beat), cut2, fed, place, wrote, time)
    <3>1. /\ Len(bursts2) = y /\ place[y] = Len(cut) /\ Len(cut2) = place[y] /\ cut[place[y]].lo = lo /\ ~cut[place[y]].done
          /\ cut2[place[y]] = [lo |-> lo, hi |-> n + 1, done |-> beat.last]
          /\ bursts2[y] = [beats |-> Beats(Append(stream, beat), lo, n + 1), done |-> beat.last]
      BY <1>3, <1>6, <2>1, <2>2, <2>6, <2>9, <2>11
    <3>2. \A i \in 1 .. place[y] - 1 : i \in DOMAIN cut /\ cut2[i] = cut[i] /\ cut[i].done
      BY <2>1, <2>11, <2>12
    <3>3. IsSent(beat, lo, n, y, bursts, bursts2, stream, cut, cut2, place)
      BY <1>3, <2>13, <3>1, <3>2 DEF IsSent
    <3> QED
      BY <2>1, <2>2, <2>9, <2>11, <3>3, SendKeeps
  <2>15. ASSUME NEW k \in DOMAIN bursts, bursts[k].done PROVE k \in DOMAIN bursts2 /\ bursts2[k] = bursts[k]
    <3>1. k \in 1 .. y /\ k # y
      BY <1>3, <1>8, <2>15
    <3>2. k \in 1 .. y - 1 /\ DOMAIN bursts2 = 1 .. y
      BY <2>9, <3>1
    <3> QED
      BY <2>13, <3>1, <3>2
  <2> QED
    BY <1>6, <2>14, <2>15
<1>9. CASE ~(bursts # << >> /\ ~bursts[y].done)
  <2>1. place[y + 1] = z + 1 /\ \A i \in DOMAIN cut : cut[i].done
    BY <1>2, <1>3, <1>9, OpenBurst
  <2>2. old.beats = << >> /\ old.beats = Beats(stream, n, n)
    <3>1. Beats(stream, n, n) = << >>
      BY <1>3, <1>4, BeatsFacts
    <3> QED
      BY <1>3, <1>9, <1>1, <3>1 DEF Last
  <2>3. burst = [beats |-> Beats(stream2, n, n + 1), done |-> beat.last] /\ burst \in Burst
    BY <1>7, <2>2
  <2>4. bursts2 = Append(bursts, burst)
    BY <1>1, <2>2
  <2>5. /\ bursts2 \in Seq(Burst) /\ Len(bursts2) = y + 1 /\ bursts2[y + 1] = burst
        /\ \A i \in 1 .. y : bursts2[i] = bursts[i]
    <3>1. Append(bursts, burst) \in Seq(Burst) /\ IsOneMore(Append(bursts, burst), bursts, burst, y)
      BY <1>3, <1>4, <2>3, OneMoreFacts
    <3> QED
      BY <2>4, <3>1 DEF IsOneMore
  <2>6. PICK cut2 : cut2 = Append(cut, [lo |-> n, hi |-> n + 1, done |-> beat.last])
    OBVIOUS
  <2>7. /\ cut2 \in Seq(Share) /\ Len(cut2) = z + 1 /\ cut2[z + 1] = [lo |-> n, hi |-> n + 1, done |-> beat.last]
        /\ \A i \in 1 .. z : cut2[i] = cut[i]
    <3>1. [lo |-> n, hi |-> n + 1, done |-> beat.last] \in Share
      BY <1>5 DEF Share
    <3> QED
      BY <1>3, <1>4, <2>6, <3>1
  <2>8. y + 1 \in Nat \ {0} /\ y + 1 - 1 = y /\ z + 1 - 1 = z /\ z + 1 # z
    OBVIOUS
  <2>9. \A i \in 1 .. y + 1 - 1 : i \in DOMAIN bursts /\ bursts2[i] = bursts[i]
    BY <1>3, <2>5, <2>8
  <2>10. \A i \in 1 .. place[y + 1] - 1 : i \in DOMAIN cut /\ cut2[i] = cut[i] /\ cut[i].done
    <3>1. place[y + 1] - 1 = z
      BY <2>1, <2>8
    <3> QED
      BY <1>3, <2>1, <2>7, <3>1
  <2>11. Tied(aw, bursts2, pw, Append(stream, beat), cut2, fed, place, wrote, time)
    <3>1. /\ Len(bursts2) = y + 1 /\ place[y + 1] = Len(cut) + 1 /\ Len(cut2) = place[y + 1] /\ place[y + 1] # Len(cut)
          /\ cut2[place[y + 1]] = [lo |-> n, hi |-> n + 1, done |-> beat.last]
          /\ bursts2[y + 1] = [beats |-> Beats(Append(stream, beat), n, n + 1), done |-> beat.last]
      BY <1>3, <1>6, <2>1, <2>3, <2>5, <2>7, <2>8
    <3>2. IsSent(beat, n, n, y + 1, bursts, bursts2, stream, cut, cut2, place)
      BY <1>3, <2>9, <2>10, <3>1 DEF IsSent
    <3> QED
      BY <2>5, <2>7, <2>8, <3>2, SendKeeps
  <2>12. \A k \in DOMAIN bursts : k \in DOMAIN bursts2 /\ bursts2[k] = bursts[k]
    BY <1>3, <2>5
  <2> QED
    BY <1>6, <2>11, <2>12
<1> QED
  BY <1>8, <1>9

\* The pending writes are the same ones, with other data.
SameWrites(pw, pw2) ==
  /\ Len(pw2) = Len(pw) /\ DOMAIN pw2 = DOMAIN pw
  /\ \A i \in DOMAIN pw : pw2[i].id = pw[i].id /\ pw2[i].addr = pw[i].addr

\* The function of Drain exists: were there a last place it is not defined to, it
\* could be extended there.
DrainsTo(s, a, n) ==
  s = [i \in 0 .. n |-> IF i = 0 THEN [pw |-> a.pw, buf |-> << >>] ELSE Drained(s[i - 1], a.buf[i])]
LEMMA DrainExists ==
  ASSUME NEW a, NEW n \in Nat, Len(a.buf) = n
  PROVE  DrainsTo(DrainedTo(a), a, n)
<1>1. \E s : DrainsTo(s, a, 0)
  <2>1. PICK s : s = [i \in 0 .. 0 |-> [pw |-> a.pw, buf |-> << >>]]
    OBVIOUS
  <2>2. \A i \in 0 .. 0 : i = 0
    OBVIOUS
  <2>3. s = [i \in 0 .. 0 |-> IF i = 0 THEN [pw |-> a.pw, buf |-> << >>] ELSE Drained(s[i - 1], a.buf[i])]
    BY <2>1, <2>2
  <2> QED
    BY <2>3 DEF DrainsTo
<1>2. ASSUME NEW m \in Nat, NEW s, DrainsTo(s, a, m) PROVE \E s2 : DrainsTo(s2, a, m + 1)
  <2>1. PICK s2 : s2 = [i \in 0 .. m + 1 |-> IF i = m + 1 THEN Drained(s[m], a.buf[m + 1]) ELSE s[i]]
    OBVIOUS
  <2>2. s = [i \in 0 .. m |-> IF i = 0 THEN [pw |-> a.pw, buf |-> << >>] ELSE Drained(s[i - 1], a.buf[i])]
    BY <1>2 DEF DrainsTo
  <2>3. ASSUME NEW i \in 0 .. m + 1
        PROVE  s2[i] = IF i = 0 THEN [pw |-> a.pw, buf |-> << >>] ELSE Drained(s2[i - 1], a.buf[i])
    <3>1. CASE i = m + 1
      <4>1. i # 0 /\ i - 1 = m /\ m \in 0 .. m + 1 /\ m # m + 1
        BY <3>1
      <4>2. s2[m] = s[m]
        BY <2>1, <4>1
      <4> QED
        BY <2>1, <3>1, <4>1, <4>2
    <3>2. CASE i = 0
      <4>1. i \in 0 .. m /\ i # m + 1
        BY <3>2
      <4>2. s2[i] = s[i]
        BY <2>1, <4>1
      <4> QED
        BY <2>2, <3>2, <4>1, <4>2
    <3>3. CASE i # 0 /\ i # m + 1
      <4>1. i \in 0 .. m /\ i - 1 \in 0 .. m + 1 /\ i - 1 # m + 1
        BY <3>3
      <4>2. s2[i] = s[i] /\ s2[i - 1] = s[i - 1]
        BY <2>1, <3>3, <4>1
      <4> QED
        BY <2>2, <3>3, <4>1, <4>2
    <3> QED
      BY <3>1, <3>2, <3>3
  <2>4. s2 = [i \in 0 .. m + 1 |-> s2[i]]
    BY <2>1
  <2>5. s2 = [i \in 0 .. m + 1 |-> IF i = 0 THEN [pw |-> a.pw, buf |-> << >>] ELSE Drained(s2[i - 1], a.buf[i])]
    BY <2>3, <2>4
  <2> QED
    BY <2>5 DEF DrainsTo
<1>3. PICK D \in SUBSET (1 .. n) : D = {i \in 1 .. n : ~\E s : DrainsTo(s, a, i)}
  OBVIOUS
<1>4. D = {}
  <2>1. SUFFICES ASSUME D # {} PROVE FALSE
    OBVIOUS
  <2>2. PICK m \in D : \A i \in D : m <= i
    BY <2>1, Lists!HasEnds
  <2>3. m \in 1 .. n /\ m - 1 \in Nat /\ m - 1 \notin D /\ (m - 1 = 0 \/ m - 1 \in 1 .. n) /\ m - 1 + 1 = m
    <3>1. m \in 1 .. n /\ ~(m <= m - 1)
      OBVIOUS
    <3> QED
      BY <2>2, <3>1
  <2>4. \E s : DrainsTo(s, a, m - 1)
    BY <1>1, <1>3, <2>3
  <2>5. \E s : DrainsTo(s, a, m)
    BY <1>2, <2>3, <2>4
  <2> QED
    BY <1>3, <2>2, <2>5
<1>5. \E s : DrainsTo(s, a, n)
  <2>1. n = 0 \/ n \in 1 .. n
    OBVIOUS
  <2> QED
    BY <1>1, <1>3, <1>4, <2>1
<1>6. DrainedTo(a) = CHOOSE s : DrainsTo(s, a, n)
  BY DEF DrainedTo, DrainsTo
<1> QED
  BY <1>5, <1>6

\* After n beats of the buffer some went to pending writes, and the rest stays
\* because none of those lacks data.
HasDrained(s, n, aw, bursts, pw, stream, cut, fed, place, wrote, time) ==
  \E d \in 0 .. n :
    /\ Tied(aw, bursts, s.pw, stream, cut, fed + d, place, wrote, time) /\ SameWrites(pw, s.pw)
    /\ s.buf \in Seq(Beat) /\ Len(s.buf) = n - d /\ \A l \in 1 .. n - d : s.buf[l] = stream[fed + d + l]
    /\ d < n => \A i \in DOMAIN s.pw : s.pw[i].complete
    /\ DOMAIN s = {"pw", "buf"}
LEMMA DrainedStep ==
  ASSUME NEW s, NEW n \in Nat, NEW aw, NEW bursts, NEW pw, NEW stream \in Seq(Beat), NEW cut, NEW fed \in Nat, NEW place,
         NEW wrote, NEW time, HasDrained(s, n, aw, bursts, pw, stream, cut, fed, place, wrote, time),
         fed + n + 1 <= Len(stream)
  PROVE  HasDrained(Drained(s, stream[fed + n + 1]), n + 1, aw, bursts, pw, stream, cut, fed, place, wrote, time)
<1>1. PICK d \in 0 .. n :
    /\ Tied(aw, bursts, s.pw, stream, cut, fed + d, place, wrote, time) /\ SameWrites(pw, s.pw)
    /\ s.buf \in Seq(Beat) /\ Len(s.buf) = n - d /\ \A l \in 1 .. n - d : s.buf[l] = stream[fed + d + l]
    /\ d < n => \A i \in DOMAIN s.pw : s.pw[i].complete
    /\ DOMAIN s = {"pw", "buf"}
  BY DEF HasDrained
<1>2. PICK beat : beat = stream[fed + n + 1]
  OBVIOUS
<1>3. beat \in Beat
  BY <1>2
<1>4. PICK m \in Nat : m = Len(s.pw) /\ DOMAIN s.pw = 1 .. m
  BY <1>1, CutFields DEF Tied
<1>5. PICK I : I = {i \in 1 .. Len(s.pw) : ~s.pw[i].complete}
  OBVIOUS
<1>6. PICK k : k = IF I # {} THEN Min(I) ELSE 0
  OBVIOUS
<1>7. Drained(s, beat) = IF k = 0 THEN [s EXCEPT !.buf = Append(@, beat)]
                         ELSE [s EXCEPT !.pw[k] = [s.pw[k] EXCEPT !.beats = Append(@, beat.time), !.complete = beat.last]]
  BY <1>5, <1>6 DEF Drained, SelectInSeq
<1>8. I \in SUBSET (1 .. m)
  BY <1>4, <1>5
<1>9. CASE I = {}
  <2>1. \A i \in DOMAIN s.pw : s.pw[i].complete
    BY <1>4, <1>5, <1>9
  <2>2. PICK q : q = Append(s.buf, beat)
    OBVIOUS
  <2>3. PICK l \in Nat : l = n - d /\ n + 1 - d = l + 1
    OBVIOUS
  <2>4. q \in Seq(Beat) /\ IsOneMore(q, s.buf, beat, l)
    BY <1>1, <1>3, <2>2, <2>3, OneMoreFacts
  <2>5. PICK s2 : s2 = [s EXCEPT !.buf = q] /\ Drained(s, beat) = s2
    BY <1>6, <1>7, <1>9, <2>2
  <2>6. DOMAIN s2 = {"pw", "buf"} /\ s2.pw = s.pw /\ s2.buf = q
    BY <1>1, <2>5
  <2>7. ASSUME NEW i \in 1 .. l + 1 PROVE q[i] = stream[fed + d + i]
    <3>1. CASE i = l + 1
      <4>1. fed + d + i = fed + n + 1
        BY <2>3, <3>1
      <4> QED
        BY <1>2, <2>4, <3>1, <4>1 DEF IsOneMore
    <3>2. CASE i \in 1 .. l
      BY <1>1, <2>3, <2>4, <3>2 DEF IsOneMore
    <3> QED
      BY <3>1, <3>2
  <2>8. d \in 0 .. n + 1
    OBVIOUS
  <2>9. q \in Seq(Beat) /\ Len(q) = n + 1 - d /\ \A i \in 1 .. n + 1 - d : q[i] = stream[fed + d + i]
    BY <2>3, <2>4, <2>7 DEF IsOneMore
  <2>10. HasDrained(s2, n + 1, aw, bursts, pw, stream, cut, fed, place, wrote, time)
    BY <1>1, <2>1, <2>6, <2>8, <2>9 DEF HasDrained
  <2> QED
    BY <1>2, <2>5, <2>10
<1>10. CASE I # {}
  <2>1. k \in I /\ \A i \in I : k <= i
    <3>1. \E i \in I : \A j \in I : i <= j
      BY <1>8, <1>10, Lists!HasEnds
    <3> QED
      BY <1>6, <1>10, <3>1 DEF Min
  <2>2. k \in 1 .. m /\ k # 0 /\ ~s.pw[k].complete /\ \A i \in DOMAIN s.pw : ~s.pw[i].complete => k <= i
    BY <1>4, <1>5, <2>1
  <2>3. d = n
    BY <1>1, <1>4, <2>2
  <2>4. fed + d < Len(stream) /\ fed + d + 1 = fed + n + 1 /\ fed + (n + 1) = fed + d + 1
    BY <2>3
  <2>5. PICK p : p = [s.pw[k] EXCEPT !.beats = Append(@, beat.time), !.complete = beat.last]
    OBVIOUS
  <2>6. PICK pw2 : pw2 = [s.pw EXCEPT ![k] = p]
    OBVIOUS
  <2>7. Tied(aw, bursts, pw2, stream, cut, fed + d + 1, place, wrote, time)
    <3>1. pw2 = [s.pw EXCEPT ![k] = [s.pw[k] EXCEPT !.beats = Append(@, stream[fed + d + 1].time), !.complete = stream[fed + d + 1].last]]
      BY <1>2, <2>4, <2>5, <2>6
    <3> QED
      BY <1>1, <1>4, <2>2, <2>4, <3>1, FeedKeeps
  <2>8. SameWrites(pw, pw2)
    <3>1. p.id = s.pw[k].id /\ p.addr = s.pw[k].addr
      <4>1. s.pw[k] \in Pending
        BY <1>1, <1>4, <2>2 DEF Tied, Typed
      <4> QED
        BY <2>5, <4>1 DEF Pending
    <3>2. s.pw \in Seq(Pending)
      BY <1>1 DEF Tied, Typed
    <3>3. Len(pw2) = Len(s.pw) /\ DOMAIN pw2 = DOMAIN s.pw
      <4>1. Tied(aw, bursts, pw2, stream, cut, fed + d + 1, place, wrote, time)
        BY <2>7
      <4>2. pw2 \in Seq(Pending)
        BY <4>1 DEF Tied, Typed
      <4> QED
        BY <2>6, <3>2, <4>2
    <3>4. \A i \in 1 .. m : pw2[i] = IF i = k THEN p ELSE s.pw[i]
      BY <1>4, <2>6
    <3> QED
      BY <1>1, <1>4, <3>1, <3>3, <3>4 DEF SameWrites
  <2>9. PICK s2 : s2 = [s EXCEPT !.pw = pw2]
    OBVIOUS
  <2>10. DOMAIN s2 = {"pw", "buf"} /\ s2.pw = pw2 /\ s2.buf = s.buf
    BY <1>1, <2>9
  <2>11. Drained(s, beat) = s2
    <3>1. Drained(s, beat) = [s EXCEPT !.pw[k] = p]
      BY <1>7, <2>2, <2>5
    <3> QED
      BY <1>1, <2>6, <2>9, <3>1
  <2>12. n + 1 \in 0 .. n + 1 /\ (n + 1) - (n + 1) = 0 /\ n - d = 0 /\ 1 .. 0 = {}
    BY <2>3
  <2>13. HasDrained(s2, n + 1, aw, bursts, pw, stream, cut, fed, place, wrote, time)
    <3>1. Tied(aw, bursts, s2.pw, stream, cut, fed + (n + 1), place, wrote, time)
      BY <2>4, <2>7, <2>10
    <3>2. s2.buf \in Seq(Beat) /\ Len(s2.buf) = (n + 1) - (n + 1)
          /\ \A l \in 1 .. (n + 1) - (n + 1) : s2.buf[l] = stream[fed + (n + 1) + l]
      BY <1>1, <2>10, <2>12
    <3>3. ~(n + 1 < n + 1)
      OBVIOUS
    <3> QED
      BY <2>8, <2>10, <2>12, <3>1, <3>2, <3>3 DEF HasDrained
  <2> QED
    BY <1>2, <2>11, <2>13
<1> QED
  BY <1>9, <1>10

\* Draining the buffer.
LEMMA DrainIsTied ==
  ASSUME NEW a, DOMAIN a = AnFields, NEW aw, NEW bursts, NEW stream, NEW cut, NEW fed, NEW place, NEW wrote, NEW time,
         Tied(aw, bursts, a.pw, stream, cut, fed, place, wrote, time), Buffered(a.buf, stream, fed)
  PROVE  /\ \E fed2 : /\ Tied(aw, bursts, Drain(a).pw, stream, cut, fed2, place, wrote, time)
                      /\ Buffered(Drain(a).buf, stream, fed2)
         /\ SameWrites(a.pw, Drain(a).pw) /\ DOMAIN Drain(a) = AnFields /\ Drain(a).writes = a.writes
         /\ Drain(a).buf = << >> \/ \A i \in DOMAIN Drain(a).pw : Drain(a).pw[i].complete
         /\ Drain(a).ow = a.ow /\ Drain(a).owId = a.owId
<1>1. stream \in Seq(Beat) /\ Len(stream) \in Nat /\ fed \in 0 .. Len(stream) /\ a.buf \in Seq(Beat)
  BY DEF Tied, Typed, Fed, Buffered
<1>2. PICK n \in Nat : n = Len(a.buf) /\ Len(stream) = fed + n /\ fed \in Nat /\ \A l \in 1 .. n : a.buf[l] = stream[fed + l]
  <2>1. PICK n \in Nat, m \in Nat : n = Len(a.buf) /\ m = Len(stream)
    BY <1>1
  <2>2. n = m - fed /\ fed \in Nat
    BY <1>1, <2>1 DEF Buffered
  <2> QED
    BY <2>1, <2>2 DEF Buffered
<1>3. PICK s : s = DrainedTo(a)
  OBVIOUS
<1>4. s = [i \in 0 .. n |-> IF i = 0 THEN [pw |-> a.pw, buf |-> << >>] ELSE Drained(s[i - 1], a.buf[i])]
  BY <1>2, <1>3, DrainExists DEF DrainsTo
<1>5. PICK G : G = {i \in 0 .. n : HasDrained(s[i], i, aw, bursts, a.pw, stream, cut, fed, place, wrote, time)}
  OBVIOUS
<1>6. 0 \in G
  <2>1. s[0] = [pw |-> a.pw, buf |-> << >>] /\ 0 \in 0 .. n /\ 0 \in 0 .. 0 /\ 0 - 0 = 0 /\ 1 .. 0 = {} /\ ~(0 < 0)
    BY <1>4
  <2>2. PICK s0 : s0 = [pw |-> a.pw, buf |-> << >>]
    OBVIOUS
  <2>3. DOMAIN s0 = {"pw", "buf"} /\ s0.pw = a.pw /\ s0.buf = << >> /\ << >> \in Seq(Beat) /\ Len(<< >>) = 0
    BY <2>2
  <2>4. SameWrites(a.pw, a.pw)
    BY DEF SameWrites
  <2>5. fed + 0 = fed
    BY <1>2
  <2>6. HasDrained(s0, 0, aw, bursts, a.pw, stream, cut, fed, place, wrote, time)
    BY <2>1, <2>3, <2>4, <2>5 DEF HasDrained
  <2> QED
    BY <1>5, <2>1, <2>2, <2>6
<1>7. ASSUME NEW i \in 1 .. n, i - 1 \in G PROVE i \in G
  <2>1. i - 1 \in Nat /\ i - 1 + 1 = i /\ i \in 0 .. n /\ i # 0 /\ fed + (i - 1) + 1 = fed + i /\ fed + i <= Len(stream)
    BY <1>2
  <2>2. s[i] = Drained(s[i - 1], stream[fed + (i - 1) + 1])
    <3>1. a.buf[i] = stream[fed + (i - 1) + 1]
      BY <1>2, <2>1
    <3>2. s[i] = Drained(s[i - 1], a.buf[i])
      BY <1>4, <2>1
    <3> QED
      BY <3>1, <3>2
  <2>3. HasDrained(s[i - 1], i - 1, aw, bursts, a.pw, stream, cut, fed, place, wrote, time)
    BY <1>5, <1>7
  <2>4. fed + (i - 1) + 1 <= Len(stream)
    BY <2>1
  <2>5. HasDrained(Drained(s[i - 1], stream[fed + (i - 1) + 1]), i - 1 + 1, aw, bursts, a.pw, stream, cut, fed, place, wrote, time)
    BY <1>1, <1>2, <2>1, <2>3, <2>4, DrainedStep
  <2> QED
    BY <1>5, <2>1, <2>2, <2>5
<1>8. n \in G
  <2>1. PICK D \in SUBSET (1 .. n) : D = {i \in 1 .. n : i \notin G}
    OBVIOUS
  <2>2. ASSUME D # {} PROVE FALSE
    <3>1. PICK m \in D : \A i \in D : m <= i
      BY <2>2, Lists!HasEnds
    <3>2. m \in 1 .. n /\ m - 1 \notin D /\ (m - 1 = 0 \/ m - 1 \in 1 .. n)
      <4>1. m \in 1 .. n /\ ~(m <= m - 1)
        OBVIOUS
      <4> QED
        BY <3>1, <4>1
    <3>3. m - 1 \in G
      BY <1>6, <2>1, <3>2
    <3> QED
      BY <1>7, <2>1, <3>1, <3>2, <3>3
  <2>3. n = 0 \/ n \in 1 .. n
    OBVIOUS
  <2> QED
    BY <1>6, <2>1, <2>2, <2>3
<1>9. PICK d \in 0 .. n :
    /\ Tied(aw, bursts, s[n].pw, stream, cut, fed + d, place, wrote, time) /\ SameWrites(a.pw, s[n].pw)
    /\ s[n].buf \in Seq(Beat) /\ Len(s[n].buf) = n - d /\ \A l \in 1 .. n - d : s[n].buf[l] = stream[fed + d + l]
    /\ d < n => \A i \in DOMAIN s[n].pw : s[n].pw[i].complete
  BY <1>5, <1>8 DEF HasDrained
<1>10. PICK p, q : p = s[n].pw /\ q = s[n].buf
  OBVIOUS
<1>11. Drain(a) = [a EXCEPT !.pw = p, !.buf = q]
  BY <1>2, <1>3, <1>10 DEF Drain
<1>12. /\ Drain(a).pw = p /\ Drain(a).buf = q /\ DOMAIN Drain(a) = AnFields /\ Drain(a).writes = a.writes
       /\ Drain(a).ow = a.ow /\ Drain(a).owId = a.owId
  BY <1>11 DEF AnFields
<1>13. Buffered(q, stream, fed + d)
  <2>1. n - d = Len(stream) - (fed + d)
    BY <1>2
  <2> QED
    BY <1>9, <1>10, <2>1 DEF Buffered
<1>14. q = << >> \/ \A i \in DOMAIN p : p[i].complete
  <2>1. CASE d < n
    BY <1>9, <1>10, <2>1
  <2>2. CASE ~(d < n)
    <3>1. n - d = 0
      BY <2>2
    <3>2. q \in Seq(Beat) /\ Len(q) = 0
      BY <1>9, <1>10, <3>1
    <3> QED
      BY <3>2
  <2> QED
    BY <2>1, <2>2
<1> QED
  BY <1>9, <1>10, <1>12, <1>13, <1>14

\* The writes that are reported, and no address of one is another's or pending.
PendingRead == [id : TxnIds, addr : Nat, beats : Seq(Nat)]
Txn == [write : {TRUE}, id : TxnIds, addr : Nat, beats : Seq(Nat), resp : Nat]
IsReported(writes, wrote) ==
  /\ writes \in Seq(Txn)
  /\ \A i \in DOMAIN writes : \E d \in wrote : Made(d, writes[i].id, writes[i].addr, writes[i].beats, writes[i].resp)
  /\ \A i, j \in DOMAIN writes : writes[i].addr = writes[j].addr => i = j
OnceEach(writes, pw, time) ==
  /\ \A i \in DOMAIN pw : pw[i].addr <= time
  /\ \A i \in DOMAIN writes : writes[i].addr <= time
  /\ \A i, j \in DOMAIN pw : pw[i].addr = pw[j].addr => i = j
  /\ \A i \in DOMAIN writes, j \in DOMAIN pw : writes[i].addr # pw[j].addr

\* Within an edge: responses are known up to time, addresses up to since.
Follows(b, a, time, since) ==
  /\ DOMAIN b = BusFields /\ DOMAIN a = AnFields /\ b.wrote \subseteq Txn
  /\ \E stream, cut, fed, place : /\ Tied(b.aw, b.bursts, a.pw, stream, cut, fed, place, b.wrote, time)
                                  /\ Buffered(a.buf, stream, fed)
  /\ IsReported(a.writes, b.wrote) /\ OnceEach(a.writes, a.pw, since)

\* The bus's writes have times.
LEMMA WroteTimes == ASSUME NEW b, NEW a, NEW time, NEW since, Follows(b, a, time, since) PROVE \A d \in b.wrote : d.resp \in Nat
<1>1. \A d \in b.wrote : d \in Txn
  BY DEF Follows
<1> QED
  BY <1>1 DEF Txn

\* An edge's write data, on the bus and in the analyzer.
LEMMA SendFollows ==
  ASSUME NEW b, NEW a, t \in Nat, Follows(b, a, t, t), NEW h, h.w \in {"none", "beat", "last"}
  PROVE  /\ Follows(Sent(b, h, t + 1), PushBeat(a, h), t + 1, t) /\ Sent(b, h, t + 1).aw = b.aw
         /\ \A k \in DOMAIN b.bursts : b.bursts[k].done =>
              k \in DOMAIN Sent(b, h, t + 1).bursts /\ Sent(b, h, t + 1).bursts[k] = b.bursts[k]
<1>1. PICK stream, cut, fed, place : Tied(b.aw, b.bursts, a.pw, stream, cut, fed, place, b.wrote, t) /\ Buffered(a.buf, stream, fed)
  BY DEF Follows
<1>2. Tied(b.aw, b.bursts, a.pw, stream, cut, fed, place, b.wrote, t + 1)
  BY <1>1, WroteTimes, TimePasses
<1>3. PICK s, p : s = Sent(b, h, t + 1) /\ p = PushBeat(a, h)
  OBVIOUS
<1>4. /\ DOMAIN s = BusFields /\ s.aw = b.aw /\ s.wrote = b.wrote
      /\ DOMAIN p = AnFields /\ p.pw = a.pw /\ p.writes = a.writes
  <2>1. DOMAIN b = BusFields /\ DOMAIN a = AnFields
    BY DEF Follows
  <2>2. DOMAIN s = BusFields /\ s.aw = b.aw /\ s.wrote = b.wrote
    <3>1. LET s0 == Sent(b, h, t + 1) IN DOMAIN s0 = BusFields /\ s0.aw = b.aw /\ s0.wrote = b.wrote
      BY <2>1, SentFrame, ZenonT(60)
    <3> QED
      BY <1>3, <3>1
  <2>3. DOMAIN p = AnFields /\ p.pw = a.pw /\ p.writes = a.writes
    BY <1>3, <2>1, PushFrame
  <2> QED
    BY <2>2, <2>3
<1>5. CASE h.w = "none"
  <2>1. s = b /\ p = a
    BY <1>3, <1>5 DEF Sent, PushBeat
  <2> QED
    BY <1>1, <1>2, <1>3, <1>4, <2>1 DEF Follows
<1>6. CASE h.w # "none"
  <2>1. PICK beat : beat = [time |-> t + 1, last |-> h.w = "last"]
    OBVIOUS
  <2>2. beat \in Beat /\ beat.time = t + 1 /\ beat.last = (h.w = "last")
    BY <2>1 DEF Beat
  <2>3. PICK old : old = Current(b)
    OBVIOUS
  <2>4. old = (IF b.bursts # << >> /\ ~Last(b.bursts).done THEN Last(b.bursts) ELSE [beats |-> << >>, done |-> FALSE])
    BY <2>3 DEF Current
  <2>5. PICK burst : burst = [beats |-> Append(old.beats, beat.time), done |-> beat.last]
    OBVIOUS
  <2>6. s.bursts = IF old.beats = << >> THEN Append(b.bursts, burst) ELSE Append(Front(b.bursts), burst)
    <3>1. DOMAIN b = BusFields
      BY DEF Follows
    <3>2. s.bursts = LET c == Current(b)
                         new == [beats |-> Append(c.beats, t + 1), done |-> h.w = "last"]
                     IN IF c.beats = << >> THEN Append(b.bursts, new) ELSE Append(Front(b.bursts), new)
      BY <1>3, <1>6, <3>1, SentFrame
    <3> QED
      BY <2>2, <2>3, <2>5, <3>2
  <2>7. p.buf = Append(a.buf, beat)
    <3>1. DOMAIN a = AnFields
      BY DEF Follows
    <3> QED
      BY <1>3, <1>6, <2>1, <3>1, PushFrame
  <2>8. /\ \E stream2, cut2 : /\ Tied(b.aw, s.bursts, a.pw, stream2, cut2, fed, place, b.wrote, t + 1)
                              /\ Buffered(Append(a.buf, beat), stream2, fed)
        /\ \A k \in DOMAIN b.bursts : b.bursts[k].done => k \in DOMAIN s.bursts /\ s.bursts[k] = b.bursts[k]
    <3>1. IsTaken(beat, b.bursts, s.bursts)
      BY <2>4, <2>5, <2>6 DEF IsTaken
    <3> QED
      BY <1>1, <1>2, <2>2, <3>1, SentIsTied
  <2>9. \E stream2, cut2, fed2, place2 : /\ Tied(s.aw, s.bursts, p.pw, stream2, cut2, fed2, place2, s.wrote, t + 1)
                                         /\ Buffered(p.buf, stream2, fed2)
    BY <1>4, <2>7, <2>8
  <2>10. Follows(s, p, t + 1, t)
    BY <1>4, <2>9 DEF Follows
  <2> QED
    BY <1>3, <1>4, <2>8, <2>10
<1> QED
  BY <1>5, <1>6

\* What Addressed leaves alone, and what it makes of the write addresses.
IsReady(b) == Len(b.aw) + 1 <= Len(b.bursts) /\ b.bursts[Len(b.aw) + 1].done
LEMMA AddressFrame ==
  ASSUME NEW b, DOMAIN b = BusFields, NEW h, NEW time
  PROVE  LET s == Addressed(b, h, time) IN
         /\ DOMAIN s = BusFields /\ s.bursts = b.bursts /\ s.wrote = b.wrote
         /\ s.aw = IF h.aw = None THEN b.aw ELSE Append(b.aw, [id |-> h.aw, addr |-> time])
         /\ s.dataFirst = (b.dataFirst /\ (h.aw = None \/ IsReady(b)))
<1>1. PICK q, d, r : Addressed(b, h, time) = [b EXCEPT !.aw = q, !.dataFirst = d, !.reads = r]
                     /\ q = (IF h.aw = None THEN b.aw ELSE Append(b.aw, [id |-> h.aw, addr |-> time]))
                     /\ d = (b.dataFirst /\ (h.aw = None \/ IsReady(b)))
  BY DEF Addressed, BusFields, IsReady
<1>2. LET s == [b EXCEPT !.aw = q, !.dataFirst = d, !.reads = r] IN
      DOMAIN s = BusFields /\ s.bursts = b.bursts /\ s.wrote = b.wrote /\ s.aw = q /\ s.dataFirst = d
  BY DEF BusFields
<1> QED
  BY <1>1, <1>2

\* A write address: the analyzer also drains its buffer.
LEMMA AddressFollows ==
  ASSUME NEW b, NEW a, t \in Nat, Follows(b, a, t + 1, t), NEW h, h.aw \in TxnIds \cup {None}
  PROVE  /\ Follows(Addressed(b, h, t + 1), AddWrite(a, h), t + 1, t + 1) /\ AddWrite(a, h).writes = a.writes
         /\ h.aw # None =>
              /\ Len(AddWrite(a, h).pw) = Len(a.pw) + 1
              /\ AddWrite(a, h).buf = << >> \/ \A i \in DOMAIN AddWrite(a, h).pw : AddWrite(a, h).pw[i].complete
              /\ AddWrite(a, h).ow = a.ow + 1 /\ AddWrite(a, h).owId = Inc(a.owId, h.aw)
<1>1. PICK stream, cut, fed, place : Tied(b.aw, b.bursts, a.pw, stream, cut, fed, place, b.wrote, t + 1) /\ Buffered(a.buf, stream, fed)
  BY DEF Follows
<1>2. DOMAIN b = BusFields /\ DOMAIN a = AnFields /\ b.wrote \subseteq Txn /\ IsReported(a.writes, b.wrote) /\ OnceEach(a.writes, a.pw, t)
  BY DEF Follows
<1>3. PICK s : s = Addressed(b, h, t + 1)
  OBVIOUS
<1>4. /\ DOMAIN s = BusFields /\ s.bursts = b.bursts /\ s.wrote = b.wrote
      /\ s.aw = IF h.aw = None THEN b.aw ELSE Append(b.aw, [id |-> h.aw, addr |-> t + 1])
  BY <1>2, <1>3, AddressFrame
<1>5. PICK m \in Nat : m = Len(a.pw) /\ DOMAIN a.pw = 1 .. m /\ a.pw \in Seq(Pending)
  BY <1>1, CutFields DEF Tied, Typed
<1>6. \A i \in 1 .. m : a.pw[i].addr \in Nat
  BY <1>1, <1>5, CutFields DEF Tied
<1>7. \A i \in DOMAIN a.writes : a.writes[i].addr \in Nat
  <2>1. \A i \in DOMAIN a.writes : a.writes[i] \in Txn
    BY <1>2 DEF IsReported
  <2> QED
    BY <2>1 DEF Txn
<1>8. CASE h.aw = None
  <2>1. AddWrite(a, h) = a /\ s.aw = b.aw
    BY <1>4, <1>8 DEF AddWrite
  <2>2. OnceEach(a.writes, a.pw, t + 1)
    <3>1. (\A i \in DOMAIN a.pw : a.pw[i].addr <= t + 1) /\ \A i \in DOMAIN a.writes : a.writes[i].addr <= t + 1
      BY <1>2, <1>5, <1>6, <1>7 DEF OnceEach
    <3> QED
      BY <1>2, <3>1 DEF OnceEach
  <2> QED
    BY <1>1, <1>2, <1>3, <1>4, <1>8, <2>1, <2>2 DEF Follows
<1>9. CASE h.aw # None
  <2>1. PICK p : p = [id |-> h.aw, addr |-> t + 1, beats |-> << >>, complete |-> FALSE]
    OBVIOUS
  <2>2. PICK pw2 : pw2 = Append(a.pw, p)
    OBVIOUS
  <2>3. h.aw \in TxnIds /\ t + 1 \in Nat
    BY <1>9
  <2>4. p \in Pending /\ p.addr = t + 1
    <3>1. << >> \in Seq(Nat)
      OBVIOUS
    <3> QED
      BY <2>1, <2>3, <3>1 DEF Pending
  <2>5. pw2 \in Seq(Pending) /\ IsOneMore(pw2, a.pw, p, m)
    BY <1>5, <2>2, <2>4, OneMoreFacts
  <2>6. Tied(s.aw, b.bursts, pw2, stream, cut, fed, place, b.wrote, t + 1)
    BY <1>1, <1>4, <1>9, <2>1, <2>2, <2>3, AddressKeeps
  <2>7. PICK x, y : x = a.ow + 1 /\ y = Inc(a.owId, h.aw)
    OBVIOUS
  <2>8. PICK a2 : a2 = [a EXCEPT !.pw = pw2, !.ow = x, !.owId = y]
    OBVIOUS
  <2>9. DOMAIN a2 = AnFields /\ a2.pw = pw2 /\ a2.buf = a.buf /\ a2.writes = a.writes /\ a2.ow = x /\ a2.owId = y
    BY <1>2, <2>8 DEF AnFields
  <2>10. AddWrite(a, h) = Drain(a2)
    BY <1>9, <2>1, <2>2, <2>7, <2>8 DEF AddWrite
  <2>11. PICK d : d = Drain(a2)
    OBVIOUS
  <2>12. /\ \E fed2 : Tied(s.aw, s.bursts, d.pw, stream, cut, fed2, place, s.wrote, t + 1) /\ Buffered(d.buf, stream, fed2)
         /\ SameWrites(pw2, d.pw) /\ DOMAIN d = AnFields /\ d.writes = a.writes
         /\ d.buf = << >> \/ \A i \in DOMAIN d.pw : d.pw[i].complete
         /\ d.ow = x /\ d.owId = y
    <3>1. Tied(s.aw, s.bursts, a2.pw, stream, cut, fed, place, s.wrote, t + 1) /\ Buffered(a2.buf, stream, fed)
      BY <1>1, <1>4, <2>6, <2>9
    <3> QED
      BY <2>9, <2>11, <3>1, DrainIsTied
  <2>13. DOMAIN d.pw = 1 .. m + 1 /\ \A i \in 1 .. m + 1 : d.pw[i].addr = IF i = m + 1 THEN t + 1 ELSE a.pw[i].addr
    <3>1. DOMAIN pw2 = 1 .. m + 1 /\ pw2[m + 1] = p /\ \A i \in 1 .. m : pw2[i] = a.pw[i]
      BY <2>5 DEF IsOneMore
    <3>2. DOMAIN d.pw = 1 .. m + 1 /\ \A i \in 1 .. m + 1 : d.pw[i].addr = pw2[i].addr
      BY <2>12, <3>1 DEF SameWrites
    <3>3. \A i \in 1 .. m + 1 : i = m + 1 \/ i \in 1 .. m
      OBVIOUS
    <3> QED
      BY <2>4, <3>1, <3>2, <3>3
  <2>14. OnceEach(a.writes, d.pw, t + 1)
    <3>1. \A i \in 1 .. m : a.pw[i].addr <= t /\ a.pw[i].addr <= t + 1 /\ a.pw[i].addr # t + 1
      BY <1>2, <1>5, <1>6 DEF OnceEach
    <3>2. \A i \in DOMAIN a.writes : a.writes[i].addr <= t + 1 /\ a.writes[i].addr # t + 1
      BY <1>2, <1>7 DEF OnceEach
    <3>3. \A i \in 1 .. m + 1 : i = m + 1 \/ i \in 1 .. m
      OBVIOUS
    <3>4. \A i \in 1 .. m + 1 : d.pw[i].addr <= t + 1
      BY <2>13, <3>1, <3>3
    <3>5. ASSUME NEW i \in 1 .. m + 1, NEW j \in 1 .. m + 1, d.pw[i].addr = d.pw[j].addr PROVE i = j
      <4>1. \A k, l \in 1 .. m : a.pw[k].addr = a.pw[l].addr => k = l
        BY <1>2, <1>5 DEF OnceEach
      <4>2. CASE i \in 1 .. m /\ j \in 1 .. m
        BY <2>13, <3>5, <4>1, <4>2
      <4>3. CASE ~(i \in 1 .. m /\ j \in 1 .. m)
        BY <2>13, <3>1, <3>3, <3>5, <4>3
      <4> QED
        BY <4>2, <4>3
    <3>6. ASSUME NEW i \in DOMAIN a.writes, NEW j \in 1 .. m + 1 PROVE a.writes[i].addr # d.pw[j].addr
      <4>1. CASE j = m + 1
        BY <2>13, <3>2, <4>1
      <4>2. CASE j \in 1 .. m
        <5>1. a.writes[i].addr # a.pw[j].addr
          BY <1>2, <1>5, <4>2 DEF OnceEach
        <5>2. d.pw[j].addr = a.pw[j].addr
          BY <2>13, <4>2
        <5> QED
          BY <5>1, <5>2
      <4> QED
        BY <3>3, <4>1, <4>2
    <3> QED
      BY <2>13, <3>2, <3>4, <3>5, <3>6 DEF OnceEach
  <2>15. Follows(s, d, t + 1, t + 1)
    BY <1>2, <1>4, <2>12, <2>14 DEF Follows
  <2>16. Len(d.pw) = m + 1
    BY <2>5, <2>12 DEF SameWrites, IsOneMore
  <2> QED
    BY <1>3, <1>5, <2>7, <2>10, <2>11, <2>12, <2>15, <2>16
<1> QED
  BY <1>8, <1>9

\* The address that a response, or read data, of its id is for.
IsFirst(aw, id, m) == m \in DOMAIN aw /\ aw[m].id = id /\ \A i \in DOMAIN aw : aw[i].id = id => m <= i
LEMMA FirstFacts ==
  ASSUME NEW S, NEW aw \in Seq(S), NEW id
  PROVE  /\ FirstOfId(aw, id) # 0 => IsFirst(aw, id, FirstOfId(aw, id))
         /\ \A m : IsFirst(aw, id, m) => FirstOfId(aw, id) = m
<1>1. PICK u \in Nat : u = Len(aw) /\ DOMAIN aw = 1 .. u
  OBVIOUS
<1>2. PICK I : I = {i \in 1 .. Len(aw) : aw[i].id = id}
  OBVIOUS
<1>3. FirstOfId(aw, id) = IF I # {} THEN Min(I) ELSE 0
  BY <1>2 DEF FirstOfId, SelectInSeq
<1>4. I \in SUBSET (1 .. u)
  BY <1>1, <1>2
<1>5. ASSUME I # {} PROVE Min(I) \in I /\ \A i \in I : Min(I) <= i
  <2>1. \E i \in I : \A j \in I : i <= j
    BY <1>4, <1>5, Lists!HasEnds
  <2> QED
    BY <2>1 DEF Min
<1>6. ASSUME FirstOfId(aw, id) # 0 PROVE IsFirst(aw, id, FirstOfId(aw, id))
  BY <1>1, <1>2, <1>3, <1>5, <1>6 DEF IsFirst
<1>7. ASSUME NEW m, IsFirst(aw, id, m) PROVE FirstOfId(aw, id) = m
  <2>1. m \in I
    BY <1>1, <1>2, <1>7 DEF IsFirst
  <2>2. PICK k \in 1 .. u : k = Min(I) /\ k = FirstOfId(aw, id) /\ k \in I
    BY <1>3, <1>4, <1>5, <2>1
  <2>3. k <= m
    BY <1>5, <2>1, <2>2
  <2>4. m <= k /\ m \in 1 .. u
    BY <1>1, <1>2, <1>7, <2>2 DEF IsFirst
  <2> QED
    BY <2>2, <2>3, <2>4
<1> QED
  BY <1>6, <1>7

\* The bus responds in order, per id: when a pending write has all its data, so have
\* those before it.
LEMMA OldestIsMade ==
  ASSUME NEW aw, NEW bursts, NEW pw, NEW stream, NEW cut, NEW fed, NEW place, NEW wrote, NEW time,
         Tied(aw, bursts, pw, stream, cut, fed, place, wrote, time),
         NEW id, NEW m, IsFirst(aw, id, m), m \in DOMAIN bursts, bursts[m].done,
         NEW k \in DOMAIN pw, pw[k].complete, pw[k].id = id, \A i \in DOMAIN pw : pw[i].complete /\ pw[i].id = id => k <= i
  PROVE  \A j \in 1 .. Len(aw) - 1 : Shifted(place, m)[j] # k
<1>1. Typed(aw, bursts, pw, stream, cut) /\ InOrder(stream, cut) /\ Fed(stream, cut, fed, pw)
      /\ Linked(aw, bursts, pw, stream, cut, place)
  BY DEF Tied
<1>2. PICK u \in Nat, y \in Nat, n \in Nat, z \in Nat :
        /\ u = Len(aw) /\ DOMAIN aw = 1 .. u /\ y = Len(bursts) /\ DOMAIN bursts = 1 .. y
        /\ n = Len(pw) /\ DOMAIN pw = 1 .. n /\ z = Len(cut) /\ DOMAIN cut = 1 .. z
  BY <1>1, CutFields
<1>3. m \in 1 .. u /\ m \in 1 .. y /\ aw[m].id = id /\ \A i \in 1 .. u : aw[i].id = id => m <= i
  BY <1>2 DEF IsFirst
<1>4. SUFFICES ASSUME NEW l \in 1 .. u, l # m, place[l] = k PROVE FALSE
  <2>1. ASSUME NEW j \in 1 .. u - 1 PROVE \E l \in 1 .. u : l # m /\ Shifted(place, m)[j] = place[l]
    <3>1. j \in Nat \ {0} /\ Shifted(place, m)[j] = IF j < m THEN place[j] ELSE place[j + 1]
      BY DEF Shifted
    <3>2. CASE j < m
      BY <1>3, <3>1, <3>2
    <3>3. CASE ~(j < m)
      <4>1. j + 1 \in 1 .. u /\ j + 1 # m
        BY <1>3, <3>3
      <4> QED
        BY <3>1, <3>3, <4>1
    <3> QED
      BY <3>2, <3>3
  <2>2. ASSUME NEW j \in 1 .. Len(aw) - 1 PROVE Shifted(place, m)[j] # k
    <3>1. PICK l \in 1 .. u : l # m /\ Shifted(place, m)[j] = place[l]
      BY <1>2, <2>1
    <3> QED
      BY <3>1
  <2> QED
    BY <2>2
<1>5. aw[l].id = id
  BY <1>1, <1>2, <1>4 DEF Linked
<1>6. m < l
  BY <1>3, <1>4, <1>5
<1>7. place[m] < k /\ place[m] \in Nat \ {0} /\ place[m] <= z /\ place[m] <= n /\ pw[place[m]].id = id
  <2>1. m \in Nat \ {0} /\ l \in Nat \ {0} /\ m <= y
    BY <1>3
  <2>2. place[m] < place[l] /\ place[m] \in Nat \ {0} /\ place[m] <= z
    BY <1>1, <1>2, <1>6, <2>1 DEF Linked
  <2>3. place[m] <= n /\ pw[place[m]].id = id
    BY <1>1, <1>2, <1>3 DEF Linked
  <2> QED
    BY <1>4, <2>2, <2>3
<1>8. PICK p \in Nat : p = place[m] /\ p \in 1 .. z /\ p \in 1 .. n /\ p < k
  BY <1>7
<1>9. cut[p].done
  <2>1. bursts[m] = [beats |-> Beats(stream, cut[p].lo, cut[p].hi), done |-> cut[p].done]
    BY <1>1, <1>8 DEF Linked
  <2> QED
    BY <2>1
<1>10. k \in 1 .. z /\ cut[k].hi <= fed /\ cut[p].hi <= cut[k].lo /\ cut[k].lo < cut[k].hi
  <2>1. k \in 1 .. z /\ cut[k].hi <= fed
    BY <1>1, <1>2 DEF Fed
  <2>2. /\ \A i, j \in 1 .. z : i < j => cut[i].hi <= cut[j].lo
        /\ \A i \in 1 .. z : cut[i].lo < cut[i].hi
    BY <1>1, <1>2 DEF InOrder
  <2>3. cut[p].hi <= cut[k].lo /\ cut[k].lo < cut[k].hi
    BY <1>8, <2>1, <2>2
  <2> QED
    BY <2>1, <2>3
<1>11. cut[p].hi <= fed
  <2>1. \A i \in 1 .. z : cut[i].lo \in Nat /\ cut[i].hi \in Nat
    BY <1>1, <1>2, CutFields
  <2>2. fed \in Nat
    BY <1>1 DEF Fed
  <2>3. cut[p].hi \in Nat /\ cut[k].lo \in Nat /\ cut[k].hi \in Nat
    BY <1>8, <1>10, <2>1
  <2> QED
    BY <1>10, <2>2, <2>3
<1>12. pw[p].complete
  BY <1>1, <1>2, <1>8, <1>9, <1>11 DEF Fed
<1>13. k <= p
  BY <1>2, <1>7, <1>8, <1>12
<1> QED
  BY <1>2, <1>8, <1>13

\* One more write of the bus makes none that was reported untrue.
LEMMA ReportedStays ==
  ASSUME NEW writes, NEW wrote, IsReported(writes, wrote), NEW txn
  PROVE  IsReported(writes, wrote \cup {txn})
BY DEF IsReported

\* A write response.
LEMMA ResponseFollows ==
  ASSUME NEW b, NEW a, t \in Nat, Follows(b, a, t + 1, t + 1), NEW h, h.b \in TxnIds \cup {None},
         h.b # None => \E m \in DOMAIN b.bursts : IsFirst(b.aw, h.b, m) /\ b.bursts[m].done
  PROVE  Follows(Responded(b, h, t + 1), MatchResponse(a, h), t + 1, t + 1)
<1>1. PICK stream, cut, fed, place : Tied(b.aw, b.bursts, a.pw, stream, cut, fed, place, b.wrote, t + 1) /\ Buffered(a.buf, stream, fed)
  BY DEF Follows
<1>2. /\ DOMAIN b = BusFields /\ DOMAIN a = AnFields /\ b.wrote \subseteq Txn
      /\ IsReported(a.writes, b.wrote) /\ OnceEach(a.writes, a.pw, t + 1)
  BY DEF Follows
<1>3. CASE h.b = None
  <2>1. Responded(b, h, t + 1) = b /\ MatchResponse(a, h) = a
    BY <1>3 DEF Responded, MatchResponse
  <2> QED
    BY <2>1
<1>4. CASE h.b # None
  <2>1. PICK m \in DOMAIN b.bursts : IsFirst(b.aw, h.b, m) /\ b.bursts[m].done
    BY <1>4
  <2>2. b.aw \in Seq(Address) /\ b.bursts \in Seq(Burst) /\ a.pw \in Seq(Pending)
    BY <1>1 DEF Tied, Typed
  <2>3. FirstOfId(b.aw, h.b) = m /\ m \in DOMAIN b.aw /\ b.aw[m].id = h.b
    <3>1. FirstOfId(b.aw, h.b) = m
      BY <2>1, <2>2, FirstFacts
    <3> QED
      BY <2>1, <3>1 DEF IsFirst
  <2>4. PICK txn : txn = [write |-> TRUE, id |-> h.b, addr |-> b.aw[m].addr, beats |-> b.bursts[m].beats, resp |-> t + 1]
    OBVIOUS
  <2>5. /\ txn \in Txn
        /\ Made(txn, b.aw[m].id, b.aw[m].addr, b.bursts[m].beats, t + 1)
    <3>1. b.aw[m] \in Address /\ b.bursts[m] \in Burst
      BY <2>1, <2>2, <2>3
    <3>2. b.aw[m].addr \in Nat /\ b.bursts[m].beats \in Seq(Nat) /\ h.b \in TxnIds
      BY <1>4, <3>1 DEF Address, Burst
    <3>3. txn \in Txn
      BY <2>4, <3>2 DEF Txn
    <3> QED
      BY <2>3, <2>4, <3>3 DEF Made
  <2>6. PICK aw2, bursts2, wrote2 : aw2 = RemoveAt(b.aw, m) /\ bursts2 = RemoveAt(b.bursts, m) /\ wrote2 = b.wrote \cup {txn}
    OBVIOUS
  <2>7. PICK s : s = Responded(b, h, t + 1)
    OBVIOUS
  <2>8. DOMAIN s = BusFields /\ s.aw = aw2 /\ s.bursts = bursts2 /\ s.wrote = wrote2
    <3>1. s = [b EXCEPT !.aw = aw2, !.bursts = bursts2, !.wrote = wrote2]
      BY <1>4, <2>3, <2>4, <2>6, <2>7 DEF Responded
    <3> QED
      BY <1>2, <3>1 DEF BusFields
  <2>9. Tied(aw2, bursts2, a.pw, stream, cut, fed, Shifted(place, m), wrote2, t + 1)
    BY <1>1, <2>1, <2>3, <2>5, <2>6, ResponseKeeps
  <2>10. wrote2 \subseteq Txn /\ IsReported(a.writes, wrote2)
    BY <1>2, <2>5, <2>6, ReportedStays
  <2>11. PICK n \in Nat : n = Len(a.pw) /\ DOMAIN a.pw = 1 .. n
    BY <2>2
  <2>12. PICK I : I = {i \in 1 .. Len(a.pw) : a.pw[i].complete /\ a.pw[i].id = h.b}
    OBVIOUS
  <2>13. I \in SUBSET (1 .. n)
    BY <2>11, <2>12
  <2>14. PICK k : k = SelectInSeq(a.pw, LAMBDA p : p.complete /\ p.id = h.b)
    OBVIOUS
  <2>15. k = IF I # {} THEN Min(I) ELSE 0
    BY <2>12, <2>14 DEF SelectInSeq
  <2>16. CASE I = {}
    <3>1. MatchResponse(a, h) = a
      BY <2>14, <2>15, <2>16 DEF MatchResponse
    <3> QED
      BY <1>1, <1>2, <2>7, <2>8, <2>9, <2>10, <3>1 DEF Follows
  <2>17. CASE I # {}
    <3>1. k \in I /\ \A i \in I : k <= i
      <4>1. \E i \in I : \A j \in I : i <= j
        BY <2>13, <2>17, Lists!HasEnds
      <4> QED
        BY <2>15, <2>17, <4>1 DEF Min
    <3>2. k \in 1 .. n /\ a.pw[k].complete /\ a.pw[k].id = h.b /\ \A i \in 1 .. n : a.pw[i].complete /\ a.pw[i].id = h.b => k <= i
      BY <2>11, <2>12, <3>1
    <3>3. \A j \in DOMAIN aw2 : Shifted(place, m)[j] # k
      <4>1. PICK u \in Nat : u = Len(b.aw) /\ DOMAIN b.aw = 1 .. u
        BY <2>2
      <4>2. IsWithout(aw2, b.aw, m, u)
        BY <2>2, <2>3, <2>6, <4>1, RemoveAtFacts
      <4>3. \A j \in 1 .. u - 1 : Shifted(place, m)[j] # k
        <5>1. /\ k \in DOMAIN a.pw /\ a.pw[k].complete /\ a.pw[k].id = h.b
              /\ \A i \in DOMAIN a.pw : a.pw[i].complete /\ a.pw[i].id = h.b => k <= i
          BY <2>11, <3>2
        <5>2. \A j \in 1 .. Len(b.aw) - 1 : Shifted(place, m)[j] # k
          BY <1>1, <2>1, <5>1, OldestIsMade
        <5> QED
          BY <4>1, <5>2
      <4> QED
        BY <4>2, <4>3 DEF IsWithout
    <3>4. PICK p : p = a.pw[k]
      OBVIOUS
    <3>5. PICK pw2, cut2 : pw2 = RemoveAt(a.pw, k) /\ cut2 = RemoveAt(cut, k)
      OBVIOUS
    <3>6. Tied(aw2, bursts2, pw2, stream, cut2, fed, Closed(Shifted(place, m), k), wrote2, t + 1)
      BY <2>9, <2>11, <3>2, <3>3, <3>5, ReportKeeps
    <3>7. PICK w : w = [write |-> TRUE, id |-> p.id, addr |-> p.addr, beats |-> p.beats, resp |-> t + 1]
      OBVIOUS
    <3>8. w \in Txn /\ w.addr = p.addr
      <4>1. p \in Pending
        BY <2>2, <2>11, <3>2, <3>4
      <4> QED
        BY <3>7, <4>1 DEF Pending, Txn
    <3>9. PICK writes2 : writes2 = Append(a.writes, w)
      OBVIOUS
    <3>10. PICK c \in Nat : c = Len(a.writes) /\ DOMAIN a.writes = 1 .. c /\ a.writes \in Seq(Txn)
      BY <1>2 DEF IsReported
    <3>11. writes2 \in Seq(Txn) /\ IsOneMore(writes2, a.writes, w, c)
      BY <3>8, <3>9, <3>10, OneMoreFacts
    <3>12. PICK d \in wrote2 : Made(d, w.id, w.addr, w.beats, w.resp)
      <4>1. Responses(aw2, a.pw, stream, cut, Shifted(place, m), wrote2, t + 1)
        BY <2>9 DEF Tied
      <4>2. \E d \in wrote2 : Made(d, p.id, p.addr, Beats(stream, cut[k].lo, cut[k].hi), t + 1)
        BY <2>11, <3>2, <3>3, <3>4, <4>1 DEF Responses
      <4>3. p.beats = Beats(stream, cut[k].lo, cut[k].hi)
        <5>1. Fed(stream, cut, fed, a.pw) /\ InOrder(stream, cut) /\ Typed(aw2, bursts2, a.pw, stream, cut)
          BY <2>9 DEF Tied
        <5>2. k \in DOMAIN cut /\ cut[k].hi <= fed /\ cut[k].lo < cut[k].hi /\ fed \in Nat
          BY <2>11, <3>2, <5>1 DEF Fed, InOrder
        <5>3. cut[k].lo \in Nat /\ cut[k].hi \in Nat
          BY <5>1, <5>2, CutFields
        <5>4. cut[k].lo < fed /\ ~(fed < cut[k].hi)
          BY <5>2, <5>3
        <5> QED
          BY <2>11, <3>2, <3>4, <5>1, <5>2, <5>4 DEF Fed
      <4> QED
        BY <3>7, <4>2, <4>3
    <3>13. PICK x, y : x = Less(a.ow) /\ y = Dec(a.owId, p.id)
      OBVIOUS
    <3>14. PICK a2 : a2 = [a EXCEPT !.writes = writes2, !.pw = pw2, !.ow = x, !.owId = y]
      OBVIOUS
    <3>15. DOMAIN a2 = AnFields /\ a2.writes = writes2 /\ a2.pw = pw2 /\ a2.buf = a.buf
      BY <1>2, <3>14 DEF AnFields
    <3>16. MatchResponse(a, h) = a2
      <4>1. k # 0
        BY <3>2
      <4> QED
        BY <1>4, <2>14, <3>4, <3>5, <3>7, <3>9, <3>13, <3>14, <4>1 DEF MatchResponse
    <3>17. \A i \in 1 .. c + 1 : i = c + 1 \/ i \in 1 .. c
      OBVIOUS
    <3>18. DOMAIN writes2 = 1 .. c + 1 /\ writes2[c + 1] = w /\ \A i \in 1 .. c : writes2[i] = a.writes[i]
      BY <3>11 DEF IsOneMore
    <3>19. \A i \in 1 .. c : a.writes[i].addr # p.addr
      BY <1>2, <2>11, <3>2, <3>4, <3>10 DEF OnceEach
    <3>20. IsReported(writes2, wrote2)
      <4>1. \A i \in 1 .. c + 1 : \E e \in wrote2 : Made(e, writes2[i].id, writes2[i].addr, writes2[i].beats, writes2[i].resp)
        BY <2>10, <3>10, <3>12, <3>17, <3>18 DEF IsReported
      <4>2. ASSUME NEW i \in 1 .. c + 1, NEW j \in 1 .. c + 1, writes2[i].addr = writes2[j].addr PROVE i = j
        <5>1. CASE i \in 1 .. c /\ j \in 1 .. c
          BY <2>10, <3>10, <3>18, <4>2, <5>1 DEF IsReported
        <5>2. CASE i \in 1 .. c /\ j = c + 1
          BY <3>8, <3>18, <3>19, <4>2, <5>2
        <5>3. CASE i = c + 1 /\ j \in 1 .. c
          BY <3>8, <3>18, <3>19, <4>2, <5>3
        <5> QED
          BY <3>17, <5>1, <5>2, <5>3
      <4> QED
        BY <3>11, <3>18, <4>1, <4>2 DEF IsReported
    <3>21. IsWithout(pw2, a.pw, k, n)
      BY <2>2, <2>11, <3>2, <3>5, RemoveAtFacts
    <3>22. DOMAIN pw2 = 1 .. n - 1 /\ \A i \in 1 .. n - 1 : pw2[i] = a.pw[IF i < k THEN i ELSE i + 1]
      BY <3>21 DEF IsWithout
    <3>23. \A i \in 1 .. n - 1 : (IF i < k THEN i ELSE i + 1) \in 1 .. n /\ (IF i < k THEN i ELSE i + 1) # k
      BY <3>2
    <3>24. OnceEach(writes2, pw2, t + 1)
      <4>1. \A i \in 1 .. n : a.pw[i].addr <= t + 1 /\ \A j \in 1 .. n : a.pw[i].addr = a.pw[j].addr => i = j
        BY <1>2, <2>11 DEF OnceEach
      <4>2. \A i \in 1 .. n - 1 : pw2[i].addr <= t + 1 /\ pw2[i].addr # p.addr
        BY <3>2, <3>4, <3>22, <3>23, <4>1
      <4>3. ASSUME NEW i \in 1 .. n - 1, NEW j \in 1 .. n - 1, pw2[i].addr = pw2[j].addr PROVE i = j
        <5>1. PICK i2 \in 1 .. n, j2 \in 1 .. n : i2 = (IF i < k THEN i ELSE i + 1) /\ j2 = (IF j < k THEN j ELSE j + 1)
          BY <3>23
        <5>2. i2 = j2
          BY <3>22, <4>1, <4>3, <5>1
        <5> QED
          BY <3>2, <5>1, <5>2
      <4>4. \A i \in 1 .. c + 1 : writes2[i].addr <= t + 1
        BY <1>2, <3>2, <3>4, <3>8, <3>10, <3>17, <3>18, <4>1 DEF OnceEach
      <4>5. ASSUME NEW i \in 1 .. c + 1, NEW j \in 1 .. n - 1 PROVE writes2[i].addr # pw2[j].addr
        <5>1. CASE i = c + 1
          BY <3>8, <3>18, <4>2, <5>1
        <5>2. CASE i \in 1 .. c
          <6>1. PICK j2 \in 1 .. n : pw2[j] = a.pw[j2]
            BY <3>22, <3>23
          <6>2. a.writes[i].addr # a.pw[j2].addr
            BY <1>2, <2>11, <3>10, <5>2 DEF OnceEach
          <6> QED
            BY <3>18, <5>2, <6>1, <6>2
        <5> QED
          BY <3>17, <5>1, <5>2
      <4> QED
        BY <3>18, <3>22, <4>2, <4>3, <4>4, <4>5 DEF OnceEach
    <3> QED
      BY <1>1, <2>7, <2>8, <2>10, <3>6, <3>15, <3>16, <3>20, <3>24 DEF Follows
  <2> QED
    BY <2>16, <2>17
<1> QED
  BY <1>3, <1>4

(***************************************************************************)
(* The reads.                                                              *)
(***************************************************************************)
\* The reads in flight are those in the queues: each in the queue of its id, and in
\* the order of their addresses.
InTurn(s) == \A i, j \in DOMAIN s : i < j => s[i].addr < s[j].addr
Queued(reads, pr) ==
  /\ reads \in Seq(PendingRead) /\ InTurn(reads)
  /\ pr \in [TxnIds -> Seq(PendingRead)] /\ \A id \in TxnIds : InTurn(pr[id])
  /\ \A k \in DOMAIN reads : \E i \in DOMAIN pr[reads[k].id] : pr[reads[k].id][i] = reads[k]
  /\ \A id \in TxnIds : \A i \in DOMAIN pr[id] : pr[id][i].id = id /\ \E k \in DOMAIN reads : reads[k] = pr[id][i]

LEMMA ReadFields ==
  ASSUME NEW reads \in Seq(PendingRead), NEW k \in DOMAIN reads
  PROVE  reads[k] \in PendingRead /\ reads[k].id \in TxnIds /\ reads[k].addr \in Nat /\ reads[k].beats \in Seq(Nat)
<1>1. reads[k] \in PendingRead
  OBVIOUS
<1> QED
  BY <1>1 DEF PendingRead

\* The first read of an id is at the head of the queue of that id.
LEMMA HeadIsFirst ==
  ASSUME NEW reads, NEW pr, Queued(reads, pr), NEW id \in TxnIds, NEW k, IsFirst(reads, id, k)
  PROVE  pr[id] # << >> /\ Head(pr[id]) = reads[k] /\ pr[id][1] = reads[k] /\ 1 \in DOMAIN pr[id]
<1>1. PICK n \in Nat, q \in Seq(PendingRead) : n = Len(reads) /\ DOMAIN reads = 1 .. n /\ q = pr[id] /\ reads \in Seq(PendingRead)
  BY DEF Queued
<1>2. k \in 1 .. n /\ reads[k].id = id /\ \A i \in 1 .. n : reads[i].id = id => k <= i
  BY <1>1 DEF IsFirst
<1>3. PICK i \in DOMAIN q : q[i] = reads[k]
  BY <1>1, <1>2 DEF Queued
<1>4. q # << >> /\ 1 \in DOMAIN q /\ DOMAIN q = 1 .. Len(q)
  BY <1>1, <1>3
<1>5. PICK m \in 1 .. n : reads[m] = q[1] /\ q[1].id = id
  <2>1. 1 \in DOMAIN pr[id]
    BY <1>1, <1>4
  <2>2. pr[id][1].id = id /\ \E m \in DOMAIN reads : reads[m] = pr[id][1]
    BY <2>1 DEF Queued
  <2> QED
    BY <1>1, <2>2
<1>6. k <= m
  BY <1>2, <1>5
<1>7. \A j \in 1 .. n : reads[j].addr \in Nat
  BY <1>1, ReadFields
<1>8. reads[k].addr <= reads[m].addr
  <2>1. CASE k = m
    BY <1>7, <2>1
  <2>2. CASE k < m
    <3>1. reads[k].addr < reads[m].addr
      BY <1>1, <1>2, <2>2 DEF Queued, InTurn
    <3> QED
      BY <1>2, <1>7, <3>1
  <2> QED
    BY <1>2, <1>6, <2>1, <2>2
<1>9. i = 1
  <2>1. SUFFICES ASSUME i # 1 PROVE FALSE
    OBVIOUS
  <2>2. 1 < i
    BY <1>3, <1>4, <2>1
  <2>3. q[1].addr < q[i].addr
    BY <1>1, <1>3, <1>4, <2>2 DEF Queued, InTurn
  <2> QED
    BY <1>2, <1>3, <1>5, <1>7, <1>8, <2>3
<1> QED
  BY <1>1, <1>3, <1>4, <1>9

\* A read address: the read goes to the end of its queue.
LEMMA QueueGrows ==
  ASSUME NEW reads, NEW pr, Queued(reads, pr), NEW r \in PendingRead,
         \A k \in DOMAIN reads : reads[k].addr < r.addr
  PROVE  Queued(Append(reads, r), [pr EXCEPT ![r.id] = Append(@, r)])
<1>1. PICK n \in Nat, id \in TxnIds, q \in Seq(PendingRead) :
         n = Len(reads) /\ DOMAIN reads = 1 .. n /\ id = r.id /\ q = pr[id] /\ reads \in Seq(PendingRead)
  <2>1. r.id \in TxnIds
    BY DEF PendingRead
  <2> QED
    BY <2>1 DEF Queued
<1>2. PICK l \in Nat : l = Len(q) /\ DOMAIN q = 1 .. l
  BY <1>1
<1>3. PICK reads2 \in Seq(PendingRead) : reads2 = Append(reads, r) /\ IsOneMore(reads2, reads, r, n)
  BY <1>1, OneMoreFacts
<1>4. PICK q2 \in Seq(PendingRead) : q2 = Append(q, r) /\ IsOneMore(q2, q, r, l)
  BY <1>1, <1>2, OneMoreFacts
<1>5. PICK pr2 : pr2 = [pr EXCEPT ![r.id] = Append(@, r)]
  OBVIOUS
<1>6. pr \in [TxnIds -> Seq(PendingRead)]
  BY DEF Queued
<1>7. pr2 = [pr EXCEPT ![id] = q2]
  BY <1>1, <1>4, <1>5, <1>6
<1>8. pr2 \in [TxnIds -> Seq(PendingRead)] /\ pr2[id] = q2 /\ \A other \in TxnIds \ {id} : pr2[other] = pr[other]
  BY <1>6, <1>7
<1>9. /\ DOMAIN reads2 = 1 .. n + 1 /\ reads2[n + 1] = r /\ \A i \in 1 .. n : reads2[i] = reads[i]
      /\ DOMAIN q2 = 1 .. l + 1 /\ q2[l + 1] = r /\ \A i \in 1 .. l : q2[i] = q[i]
  BY <1>3, <1>4 DEF IsOneMore
<1>10. \A i \in 1 .. n + 1 : i = n + 1 \/ i \in 1 .. n
  OBVIOUS
<1>11. \A i \in 1 .. l + 1 : i = l + 1 \/ i \in 1 .. l
  OBVIOUS
<1>12. InTurn(reads2)
  <2>1. ASSUME NEW i \in 1 .. n + 1, NEW j \in 1 .. n + 1, i < j PROVE reads2[i].addr < reads2[j].addr
    <3>1. i \in 1 .. n
      BY <1>10, <2>1
    <3>2. CASE j = n + 1
      BY <1>1, <1>9, <3>1, <3>2
    <3>3. CASE j \in 1 .. n
      BY <1>1, <1>9, <2>1, <3>1, <3>3 DEF Queued, InTurn
    <3> QED
      BY <1>10, <3>2, <3>3
  <2> QED
    BY <1>9, <2>1 DEF InTurn
<1>13. InTurn(q2)
  <2>1. ASSUME NEW i \in 1 .. l + 1, NEW j \in 1 .. l + 1, i < j PROVE q2[i].addr < q2[j].addr
    <3>1. i \in 1 .. l
      BY <1>11, <2>1
    <3>2. CASE j = l + 1
      <4>1. PICK k \in 1 .. n : reads[k] = q[i]
        <5>1. \A x \in DOMAIN pr[id] : \E k \in DOMAIN reads : reads[k] = pr[id][x]
          BY DEF Queued
        <5> QED
          BY <1>1, <1>2, <3>1, <5>1
      <4> QED
        BY <1>1, <1>9, <3>1, <3>2, <4>1
    <3>3. CASE j \in 1 .. l
      <4>1. InTurn(q)
        BY <1>1 DEF Queued
      <4>2. q[i].addr < q[j].addr
        BY <1>2, <2>1, <3>1, <3>3, <4>1 DEF InTurn
      <4> QED
        BY <1>9, <3>1, <3>3, <4>2
    <3> QED
      BY <1>11, <3>2, <3>3
  <2> QED
    BY <1>9, <2>1 DEF InTurn
<1>14. \A other \in TxnIds : InTurn(pr2[other])
  <2>1. ASSUME NEW other \in TxnIds PROVE InTurn(pr2[other])
    <3>1. CASE other = id
      BY <1>8, <1>13, <3>1
    <3>2. CASE other # id
      BY <1>8, <3>2 DEF Queued
    <3> QED
      BY <3>1, <3>2
  <2> QED
    BY <2>1
<1>15. ASSUME NEW k \in 1 .. n + 1 PROVE \E i \in DOMAIN pr2[reads2[k].id] : pr2[reads2[k].id][i] = reads2[k]
  <2>1. CASE k = n + 1
    <3>1. l + 1 \in DOMAIN pr2[id] /\ pr2[id][l + 1] = r
      BY <1>8, <1>9
    <3> QED
      BY <1>1, <1>9, <2>1, <3>1
  <2>2. CASE k \in 1 .. n
    <3>1. reads2[k] = reads[k]
      BY <1>9, <2>2
    <3>2. PICK o \in TxnIds : o = reads[k].id
      BY <1>1, <2>2, ReadFields
    <3>3. PICK i \in DOMAIN pr[o] : pr[o][i] = reads[k]
      BY <1>1, <2>2, <3>2 DEF Queued
    <3>4. i \in DOMAIN pr2[o] /\ pr2[o][i] = reads[k]
      <4>1. CASE o = id
        <5>1. i \in 1 .. l
          BY <1>1, <1>2, <3>3, <4>1
        <5>2. i \in 1 .. l + 1
          BY <5>1
        <5> QED
          BY <1>1, <1>8, <1>9, <3>3, <4>1, <5>1, <5>2
      <4>2. CASE o # id
        BY <1>8, <3>3, <4>2
      <4> QED
        BY <4>1, <4>2
    <3> QED
      BY <3>1, <3>2, <3>4
  <2> QED
    BY <1>10, <2>1, <2>2
<1>16. ASSUME NEW o \in TxnIds, NEW i \in DOMAIN pr2[o]
       PROVE  pr2[o][i].id = o /\ \E k \in 1 .. n + 1 : reads2[k] = pr2[o][i]
  <2>1. CASE o = id /\ i = l + 1
    <3>1. pr2[o][i] = r /\ n + 1 \in 1 .. n + 1
      BY <1>8, <1>9, <2>1
    <3> QED
      BY <1>1, <1>9, <2>1, <3>1
  <2>2. CASE ~(o = id /\ i = l + 1)
    <3>1. i \in DOMAIN pr[o] /\ pr2[o][i] = pr[o][i]
      <4>1. CASE o = id
        <5>1. i \in 1 .. l
          BY <1>8, <1>9, <1>11, <2>2, <4>1
        <5> QED
          BY <1>1, <1>2, <1>8, <1>9, <4>1, <5>1
      <4>2. CASE o # id
        BY <1>8, <4>2
      <4> QED
        BY <4>1, <4>2
    <3>2. pr[o][i].id = o /\ \E k \in 1 .. n : reads[k] = pr[o][i]
      BY <1>1, <3>1 DEF Queued
    <3>3. PICK k \in 1 .. n : reads[k] = pr[o][i]
      BY <3>2
    <3>4. k \in 1 .. n + 1 /\ reads2[k] = reads[k]
      BY <1>9
    <3> QED
      BY <3>1, <3>2, <3>3, <3>4
  <2> QED
    BY <2>1, <2>2
<1>17. Queued(reads2, pr2)
  <2>1. \A k \in DOMAIN reads2 : \E i \in DOMAIN pr2[reads2[k].id] : pr2[reads2[k].id][i] = reads2[k]
    BY <1>9, <1>15
  <2>2. ASSUME NEW o \in TxnIds, NEW i \in DOMAIN pr2[o]
        PROVE  pr2[o][i].id = o /\ \E k \in DOMAIN reads2 : reads2[k] = pr2[o][i]
    <3>1. DOMAIN reads2 = 1 .. n + 1
      BY <1>9
    <3> QED
      BY <1>16, <3>1
  <2> QED
    BY <1>3, <1>8, <1>12, <1>14, <2>1, <2>2 DEF Queued
<1> QED
  BY <1>3, <1>5, <1>17

\* Read data: the first read of the id has a beat more, on the bus and in its queue.
LEMMA QueueTakes ==
  ASSUME NEW reads, NEW pr, Queued(reads, pr), NEW id \in TxnIds, NEW k, IsFirst(reads, id, k),
         NEW r \in PendingRead, r.id = id, r.addr = reads[k].addr
  PROVE  Queued([reads EXCEPT ![k] = r], [pr EXCEPT ![id][1] = r])
<1>1. PICK n \in Nat, q \in Seq(PendingRead) : n = Len(reads) /\ DOMAIN reads = 1 .. n /\ q = pr[id] /\ reads \in Seq(PendingRead)
  BY DEF Queued
<1>2. PICK l \in Nat : l = Len(q) /\ DOMAIN q = 1 .. l
  BY <1>1
<1>3. k \in 1 .. n /\ reads[k].id = id
  BY <1>1 DEF IsFirst
<1>4. q[1] = reads[k] /\ 1 \in 1 .. l
  BY <1>1, <1>2, HeadIsFirst
<1>5. PICK reads2, q2, pr2 : reads2 = [reads EXCEPT ![k] = r] /\ q2 = [q EXCEPT ![1] = r] /\ pr2 = [pr EXCEPT ![id][1] = r]
  OBVIOUS
<1>6. pr \in [TxnIds -> Seq(PendingRead)]
  BY DEF Queued
<1>7. reads2 \in Seq(PendingRead) /\ q2 \in Seq(PendingRead)
  BY <1>1, <1>2, <1>3, <1>4, <1>5
<1>8. pr2 = [pr EXCEPT ![id] = q2]
  BY <1>1, <1>5, <1>6
<1>9. pr2 \in [TxnIds -> Seq(PendingRead)] /\ pr2[id] = q2 /\ \A other \in TxnIds \ {id} : pr2[other] = pr[other]
  BY <1>6, <1>7, <1>8
<1>10. DOMAIN reads2 = 1 .. n /\ reads2[k] = r /\ \A i \in 1 .. n : i # k => reads2[i] = reads[i]
  BY <1>1, <1>3, <1>5
<1>11. DOMAIN q2 = 1 .. l /\ q2[1] = r /\ \A i \in 1 .. l : i # 1 => q2[i] = q[i]
  BY <1>2, <1>4, <1>5
<1>12. \A i \in 1 .. n : reads2[i].addr = reads[i].addr /\ reads2[i].id = reads[i].id
  BY <1>3, <1>10
<1>13. \A i \in 1 .. l : q2[i].addr = q[i].addr /\ q2[i].id = q[i].id
  BY <1>3, <1>4, <1>11
<1>14. InTurn(reads2)
  <2>1. \A i, j \in 1 .. n : i < j => reads[i].addr < reads[j].addr
    BY <1>1 DEF Queued, InTurn
  <2>2. \A i, j \in 1 .. n : i < j => reads2[i].addr < reads2[j].addr
    BY <1>12, <2>1
  <2> QED
    BY <1>10, <2>2 DEF InTurn
<1>15. InTurn(q2)
  <2>1. InTurn(q)
    BY <1>1 DEF Queued
  <2> QED
    BY <1>2, <1>11, <1>13, <2>1 DEF InTurn
<1>16. \A other \in TxnIds : InTurn(pr2[other])
  <2>1. ASSUME NEW other \in TxnIds PROVE InTurn(pr2[other])
    <3>1. CASE other = id
      BY <1>9, <1>15, <3>1
    <3>2. CASE other # id
      BY <1>9, <3>2 DEF Queued
    <3> QED
      BY <3>1, <3>2
  <2> QED
    BY <2>1
<1>17. ASSUME NEW j \in 1 .. n PROVE \E i \in DOMAIN pr2[reads2[j].id] : pr2[reads2[j].id][i] = reads2[j]
  <2>1. CASE j = k
    BY <1>4, <1>9, <1>10, <1>11, <2>1
  <2>2. CASE j # k
    <3>1. PICK o \in TxnIds : o = reads[j].id /\ reads2[j] = reads[j]
      BY <1>1, <1>10, <2>2, ReadFields
    <3>2. PICK i \in DOMAIN pr[o] : pr[o][i] = reads[j]
      BY <1>1, <3>1 DEF Queued
    <3>3. CASE o = id
      <4>1. i \in 1 .. l /\ q[i] = reads[j]
        BY <1>1, <1>2, <3>2, <3>3
      <4>2. i # 1
        <5>1. SUFFICES ASSUME i = 1 PROVE FALSE
          OBVIOUS
        <5>2. reads[j] = reads[k]
          BY <1>4, <4>1, <5>1
        <5>3. reads[j].addr \in Nat /\ reads[j].addr = reads[k].addr
          BY <1>1, <5>2, ReadFields
        <5>4. \A x, y \in 1 .. n : x < y => reads[x].addr < reads[y].addr
          BY <1>1 DEF Queued, InTurn
        <5>5. j < k \/ k < j
          BY <1>3, <2>2
        <5> QED
          BY <1>3, <5>3, <5>4, <5>5
      <4> QED
        BY <1>9, <1>11, <3>1, <3>3, <4>1, <4>2
    <3>4. CASE o # id
      BY <1>9, <3>1, <3>2, <3>4
    <3> QED
      BY <3>3, <3>4
  <2> QED
    BY <2>1, <2>2
<1>18. ASSUME NEW o \in TxnIds, NEW i \in DOMAIN pr2[o]
       PROVE  pr2[o][i].id = o /\ \E j \in 1 .. n : reads2[j] = pr2[o][i]
  <2>1. CASE o = id /\ i = 1
    BY <1>3, <1>9, <1>10, <1>11, <2>1
  <2>2. CASE ~(o = id /\ i = 1)
    <3>1. i \in DOMAIN pr[o] /\ pr2[o][i] = pr[o][i]
      <4>1. CASE o = id
        BY <1>1, <1>2, <1>9, <1>11, <2>2, <4>1
      <4>2. CASE o # id
        BY <1>9, <4>2
      <4> QED
        BY <4>1, <4>2
    <3>2. PICK j \in 1 .. n : pr[o][i].id = o /\ reads[j] = pr[o][i]
      BY <1>1, <3>1 DEF Queued
    <3>3. j # k
      <4>1. SUFFICES ASSUME j = k PROVE FALSE
        OBVIOUS
      <4>2. o = id /\ i # 1
        BY <1>3, <2>2, <3>2, <4>1
      <4>3. i \in 1 .. l /\ q[i] = q[1] /\ 1 < i
        BY <1>1, <1>2, <1>4, <3>1, <3>2, <4>1, <4>2
      <4>4. q[1].addr < q[i].addr
        BY <1>1, <1>2, <1>4, <4>3 DEF Queued, InTurn
      <4>5. q[1].addr \in Nat
        BY <1>1, <1>3, <1>4, ReadFields
      <4> QED
        BY <4>3, <4>4, <4>5
    <3> QED
      BY <1>10, <3>1, <3>2, <3>3
  <2> QED
    BY <2>1, <2>2
<1>19. Queued(reads2, pr2)
  <2>1. \A j \in DOMAIN reads2 : \E i \in DOMAIN pr2[reads2[j].id] : pr2[reads2[j].id][i] = reads2[j]
    BY <1>10, <1>17
  <2>2. \A o \in TxnIds : \A i \in DOMAIN pr2[o] : pr2[o][i].id = o /\ \E j \in DOMAIN reads2 : reads2[j] = pr2[o][i]
    BY <1>10, <1>18
  <2> QED
    BY <1>7, <1>9, <1>14, <1>16, <2>1, <2>2 DEF Queued
<1> QED
  BY <1>5, <1>19

\* The last beat: the read leaves the bus and its queue.
LEMMA QueueEnds ==
  ASSUME NEW reads, NEW pr, Queued(reads, pr), NEW id \in TxnIds, NEW k, IsFirst(reads, id, k)
  PROVE  Queued(RemoveAt(reads, k), [pr EXCEPT ![id] = Tail(@)])
<1>1. PICK n \in Nat, q \in Seq(PendingRead) : n = Len(reads) /\ DOMAIN reads = 1 .. n /\ q = pr[id] /\ reads \in Seq(PendingRead)
  BY DEF Queued
<1>2. PICK l \in Nat : l = Len(q) /\ DOMAIN q = 1 .. l
  BY <1>1
<1>3. k \in 1 .. n /\ reads[k].id = id
  BY <1>1 DEF IsFirst
<1>4. q # << >> /\ q[1] = reads[k] /\ 1 \in 1 .. l
  BY <1>1, <1>2, HeadIsFirst
<1>5. PICK reads2, q2, pr2 : reads2 = RemoveAt(reads, k) /\ q2 = Tail(q) /\ pr2 = [pr EXCEPT ![id] = Tail(@)]
  OBVIOUS
<1>6. pr \in [TxnIds -> Seq(PendingRead)]
  BY DEF Queued
<1>7. reads2 \in Seq(PendingRead) /\ n - 1 \in Nat /\ DOMAIN reads2 = 1 .. n - 1
      /\ \A i \in 1 .. n - 1 : reads2[i] = reads[IF i < k THEN i ELSE i + 1]
  <2>1. reads2 \in Seq(PendingRead) /\ IsWithout(reads2, reads, k, n)
    BY <1>1, <1>3, <1>5, RemoveAtFacts
  <2> QED
    BY <2>1 DEF IsWithout
<1>8. q2 \in Seq(PendingRead) /\ DOMAIN q2 = 1 .. l - 1 /\ l - 1 \in Nat /\ \A i \in 1 .. l - 1 : q2[i] = q[i + 1]
  BY <1>1, <1>2, <1>4, <1>5
<1>9. pr2 \in [TxnIds -> Seq(PendingRead)] /\ pr2[id] = q2 /\ \A other \in TxnIds \ {id} : pr2[other] = pr[other]
  BY <1>1, <1>5, <1>6, <1>8
<1>10. \A x, y \in 1 .. n : x < y => reads[x].addr < reads[y].addr
  BY <1>1 DEF Queued, InTurn
<1>11. \A x, y \in 1 .. l : x < y => q[x].addr < q[y].addr
  BY <1>1, <1>2 DEF Queued, InTurn
<1>12. \A x \in 1 .. n : reads[x].addr \in Nat /\ reads[x].id \in TxnIds
  BY <1>1, ReadFields
<1>13. InTurn(reads2)
  <2>1. ASSUME NEW i \in 1 .. n - 1, NEW j \in 1 .. n - 1, i < j PROVE reads2[i].addr < reads2[j].addr
    <3>1. PICK x \in 1 .. n, y \in 1 .. n : x = (IF i < k THEN i ELSE i + 1) /\ y = (IF j < k THEN j ELSE j + 1)
      OBVIOUS
    <3>2. x < y
      BY <1>3, <2>1, <3>1
    <3> QED
      BY <1>7, <1>10, <3>1, <3>2
  <2> QED
    BY <1>7, <2>1 DEF InTurn
<1>14. InTurn(q2)
  <2>1. ASSUME NEW i \in 1 .. l - 1, NEW j \in 1 .. l - 1, i < j PROVE q2[i].addr < q2[j].addr
    <3>1. i + 1 \in 1 .. l /\ j + 1 \in 1 .. l /\ i + 1 < j + 1
      BY <2>1
    <3> QED
      BY <1>8, <1>11, <3>1
  <2> QED
    BY <1>8, <2>1 DEF InTurn
<1>15. \A other \in TxnIds : InTurn(pr2[other])
  <2>1. ASSUME NEW other \in TxnIds PROVE InTurn(pr2[other])
    <3>1. CASE other = id
      BY <1>9, <1>14, <3>1
    <3>2. CASE other # id
      BY <1>9, <3>2 DEF Queued
    <3> QED
      BY <3>1, <3>2
  <2> QED
    BY <2>1
<1>16. ASSUME NEW j \in 1 .. n - 1 PROVE \E i \in DOMAIN pr2[reads2[j].id] : pr2[reads2[j].id][i] = reads2[j]
  <2>1. PICK x \in 1 .. n : x = (IF j < k THEN j ELSE j + 1) /\ reads2[j] = reads[x] /\ x # k
    <3>1. PICK x \in 1 .. n : x = (IF j < k THEN j ELSE j + 1)
      OBVIOUS
    <3> QED
      BY <1>3, <1>7, <3>1
  <2>2. PICK o \in TxnIds : o = reads[x].id
    BY <1>12
  <2>3. PICK i \in DOMAIN pr[o] : pr[o][i] = reads[x]
    BY <1>1, <2>2 DEF Queued
  <2>4. CASE o = id
    <3>1. i \in 1 .. l /\ q[i] = reads[x]
      BY <1>1, <1>2, <2>3, <2>4
    <3>2. i # 1
      <4>1. SUFFICES ASSUME i = 1 PROVE FALSE
        OBVIOUS
      <4>2. reads[x].addr = reads[k].addr
        BY <1>4, <3>1, <4>1
      <4>3. x < k \/ k < x
        BY <1>3, <2>1
      <4> QED
        BY <1>3, <1>10, <1>12, <4>2, <4>3
    <3>3. PICK j2 \in 1 .. l - 1 : i = j2 + 1
      <4>1. i - 1 \in 1 .. l - 1 /\ i = i - 1 + 1
        BY <3>1, <3>2
      <4> QED
        BY <4>1
    <3>4. q2[j2] = reads[x]
      BY <1>8, <3>1, <3>3
    <3> QED
      BY <1>8, <1>9, <2>1, <2>2, <2>4, <3>4
  <2>5. CASE o # id
    BY <1>9, <2>1, <2>2, <2>3, <2>5
  <2> QED
    BY <2>4, <2>5
<1>17. ASSUME NEW o \in TxnIds, NEW i \in DOMAIN pr2[o]
       PROVE  pr2[o][i].id = o /\ \E j \in 1 .. n - 1 : reads2[j] = pr2[o][i]
  <2>1. PICK m \in DOMAIN pr[o] : pr2[o][i] = pr[o][m] /\ (o = id => m \in 1 .. l /\ 1 < m)
    <3>1. CASE o = id
      <4>1. i \in 1 .. l - 1 /\ i + 1 \in 1 .. l /\ 1 < i + 1
        BY <1>8, <1>9, <3>1
      <4>2. pr2[o][i] = pr[o][i + 1] /\ i + 1 \in DOMAIN pr[o]
        BY <1>1, <1>2, <1>8, <1>9, <3>1, <4>1
      <4> QED
        BY <4>1, <4>2
    <3>2. CASE o # id
      BY <1>9, <3>2
    <3> QED
      BY <3>1, <3>2
  <2>2. PICK x \in 1 .. n : pr[o][m].id = o /\ reads[x] = pr[o][m]
    BY <1>1, <2>1 DEF Queued
  <2>3. x # k
    <3>1. SUFFICES ASSUME x = k PROVE FALSE
      OBVIOUS
    <3>2. o = id
      BY <1>3, <2>2, <3>1
    <3>3. q[1].addr < q[m].addr /\ q[m] = q[1]
      BY <1>1, <1>4, <1>11, <2>1, <2>2, <3>1, <3>2
    <3> QED
      BY <1>3, <1>4, <1>12, <3>3
  <2>4. PICK j \in 1 .. n - 1 : x = IF j < k THEN j ELSE j + 1
    <3>1. CASE x < k
      <4>1. x \in 1 .. n - 1
        BY <1>3, <3>1
      <4> QED
        BY <3>1, <4>1
    <3>2. CASE ~(x < k)
      <4>1. x - 1 \in 1 .. n - 1 /\ ~(x - 1 < k) /\ x - 1 + 1 = x
        BY <1>3, <2>3, <3>2
      <4> QED
        BY <4>1
    <3> QED
      BY <3>1, <3>2
  <2>5. reads2[j] = reads[x]
    BY <1>7, <2>4
  <2> QED
    BY <2>1, <2>2, <2>5
<1>18. Queued(reads2, pr2)
  <2>1. \A j \in DOMAIN reads2 : \E i \in DOMAIN pr2[reads2[j].id] : pr2[reads2[j].id][i] = reads2[j]
    BY <1>7, <1>16
  <2>2. \A o \in TxnIds : \A i \in DOMAIN pr2[o] : pr2[o][i].id = o /\ \E j \in DOMAIN reads2 : reads2[j] = pr2[o][i]
    BY <1>7, <1>17
  <2> QED
    BY <1>7, <1>9, <1>13, <1>15, <2>1, <2>2 DEF Queued
<1> QED
  BY <1>5, <1>18

\* All of what the bus has completed is reported, each once, and nothing else.
AreAll(done, did) ==
  /\ done \in Seq(Transaction)
  /\ \A i \in DOMAIN done : done[i] \in did /\ done[i].addr <= done[i].resp
  /\ \A d \in did : \E i \in DOMAIN done : done[i] = d
  /\ \A i, j \in DOMAIN done : done[i].addr = done[j].addr => i = j
LEMMA OneMoreDone ==
  ASSUME NEW done, NEW did, AreAll(done, did), NEW txn \in Transaction, txn.addr <= txn.resp,
         \A i \in DOMAIN done : done[i].addr # txn.addr
  PROVE  AreAll(Append(done, txn), did \cup {txn})
<1>1. PICK n \in Nat : n = Len(done) /\ DOMAIN done = 1 .. n /\ done \in Seq(Transaction)
  BY DEF AreAll
<1>2. PICK done2 \in Seq(Transaction) : done2 = Append(done, txn) /\ IsOneMore(done2, done, txn, n)
  <2>1. Append(done, txn) \in Seq(Transaction) /\ IsOneMore(Append(done, txn), done, txn, n)
    BY <1>1, OneMoreFacts
  <2> QED
    BY <2>1
<1>3. DOMAIN done2 = 1 .. n + 1 /\ done2[n + 1] = txn /\ \A i \in 1 .. n : done2[i] = done[i]
  BY <1>2 DEF IsOneMore
<1>4. \A i \in 1 .. n + 1 : i = n + 1 \/ i \in 1 .. n
  OBVIOUS
<1>5. \A i \in 1 .. n + 1 : done2[i] \in did \cup {txn} /\ done2[i].addr <= done2[i].resp
  BY <1>1, <1>3, <1>4 DEF AreAll
<1>6. ASSUME NEW d \in did \cup {txn} PROVE \E i \in 1 .. n + 1 : done2[i] = d
  <2>1. CASE d = txn
    <3>1. n + 1 \in 1 .. n + 1
      OBVIOUS
    <3> QED
      BY <1>3, <2>1, <3>1
  <2>2. CASE d \in did
    <3>1. PICK i \in 1 .. n : done[i] = d
      BY <1>1, <2>2 DEF AreAll
    <3>2. i \in 1 .. n + 1 /\ done2[i] = d
      BY <1>3, <3>1
    <3> QED
      BY <3>2
  <2> QED
    BY <2>1, <2>2
<1>7. ASSUME NEW i \in 1 .. n + 1, NEW j \in 1 .. n + 1, done2[i].addr = done2[j].addr PROVE i = j
  <2>1. CASE i \in 1 .. n /\ j \in 1 .. n
    BY <1>1, <1>3, <1>7, <2>1 DEF AreAll
  <2>2. CASE i = n + 1 /\ j \in 1 .. n
    BY <1>1, <1>3, <1>7, <2>2
  <2>3. CASE i \in 1 .. n /\ j = n + 1
    BY <1>1, <1>3, <1>7, <2>3
  <2> QED
    BY <1>4, <2>1, <2>2, <2>3
<1> QED
  BY <1>2, <1>3, <1>5, <1>6, <1>7 DEF AreAll

\* The reads of the bus and of the analyzer: those in flight, those that are done, and
\* the counters of those outstanding.
ReadsTied(reads, did, pr, done, or, orId, time) ==
  /\ Queued(reads, pr) /\ AreAll(done, did)
  /\ \A k \in DOMAIN reads : reads[k].addr <= time
  /\ \A i \in DOMAIN done :
       ~done[i].write /\ done[i].addr <= time /\ done[i].resp <= time /\ \A k \in DOMAIN reads : done[i].addr # reads[k].addr
  /\ or = Len(reads) /\ orId \in [TxnIds -> Nat] /\ \A id \in TxnIds : orId[id] = Len(pr[id])

\* What is known of the addresses.
LEMMA ReadAddresses ==
  ASSUME NEW reads, NEW did, NEW pr, NEW done, NEW or, NEW orId, NEW time,
         ReadsTied(reads, did, pr, done, or, orId, time)
  PROVE  /\ \A k \in DOMAIN reads : reads[k].addr \in Nat /\ reads[k].id \in TxnIds /\ reads[k].addr <= time
         /\ \A i \in DOMAIN done : /\ done[i].addr \in Nat /\ done[i].addr <= time
                                   /\ done[i].resp \in Nat /\ done[i].resp <= time
<1>1. reads \in Seq(PendingRead) /\ done \in Seq(Transaction)
  BY DEF ReadsTied, Queued, AreAll
<1>2. \A k \in DOMAIN reads : reads[k].addr \in Nat /\ reads[k].id \in TxnIds
  BY <1>1, ReadFields
<1>3. \A i \in DOMAIN done : done[i] \in Transaction
  BY <1>1
<1>4. \A i \in DOMAIN done : done[i].addr \in Nat /\ done[i].resp \in Nat
  BY <1>3 DEF Transaction
<1>5. (\A k \in DOMAIN reads : reads[k].addr <= time) /\ \A i \in DOMAIN done : done[i].addr <= time /\ done[i].resp <= time
  BY DEF ReadsTied
<1> QED
  BY <1>2, <1>4, <1>5

\* Time passes.
LEMMA ReadsLast ==
  ASSUME NEW reads, NEW did, NEW pr, NEW done, NEW or, NEW orId, NEW time \in Nat,
         ReadsTied(reads, did, pr, done, or, orId, time)
  PROVE  ReadsTied(reads, did, pr, done, or, orId, time + 1)
<1>1. \A k \in DOMAIN reads : reads[k].addr \in Nat /\ reads[k].addr <= time
  BY ReadAddresses
<1>2. \A i \in DOMAIN done : done[i].addr \in Nat /\ done[i].addr <= time /\ done[i].resp \in Nat /\ done[i].resp <= time
  BY ReadAddresses
<1> QED
  BY <1>1, <1>2 DEF ReadsTied

\* A read address.
LEMMA ReadBegins ==
  ASSUME NEW reads, NEW did, NEW pr, NEW done, NEW or, NEW orId, NEW time \in Nat,
         ReadsTied(reads, did, pr, done, or, orId, time), NEW r \in PendingRead, r.addr = time + 1
  PROVE  ReadsTied(Append(reads, r), did, [pr EXCEPT ![r.id] = Append(@, r)], done, or + 1, Inc(orId, r.id), time + 1)
<1>1. PICK n \in Nat, id \in TxnIds, q \in Seq(PendingRead) :
         n = Len(reads) /\ DOMAIN reads = 1 .. n /\ id = r.id /\ q = pr[id] /\ reads \in Seq(PendingRead)
  <2>1. r.id \in TxnIds
    BY DEF PendingRead
  <2>2. reads \in Seq(PendingRead) /\ pr \in [TxnIds -> Seq(PendingRead)]
    BY DEF ReadsTied, Queued
  <2>3. Len(reads) \in Nat /\ DOMAIN reads = 1 .. Len(reads) /\ pr[r.id] \in Seq(PendingRead)
    BY <2>1, <2>2
  <2> QED
    BY <2>1, <2>2, <2>3
<1>2. ReadsTied(reads, did, pr, done, or, orId, time + 1)
  BY ReadsLast
<1>3. \A k \in 1 .. n : reads[k].addr \in Nat /\ reads[k].addr < time + 1
  <2>1. \A k \in DOMAIN reads : reads[k].addr \in Nat /\ reads[k].addr <= time
    BY ReadAddresses
  <2> QED
    BY <1>1, <2>1
<1>4. PICK reads2, pr2 : reads2 = Append(reads, r) /\ pr2 = [pr EXCEPT ![r.id] = Append(@, r)]
  OBVIOUS
<1>5. Queued(reads2, pr2)
  BY <1>1, <1>3, <1>4, QueueGrows DEF ReadsTied
<1>6. IsOneMore(reads2, reads, r, n)
  BY <1>1, <1>4, OneMoreFacts
<1>7. \A k \in 1 .. n + 1 : k = n + 1 \/ k \in 1 .. n
  OBVIOUS
<1>8. \A k \in DOMAIN reads2 : reads2[k].addr <= time + 1
  BY <1>3, <1>6, <1>7 DEF IsOneMore
<1>9. ASSUME NEW i \in DOMAIN done, NEW k \in DOMAIN reads2 PROVE done[i].addr # reads2[k].addr
  <2>1. CASE k = n + 1
    <3>1. done[i].addr \in Nat /\ done[i].addr <= time
      BY ReadAddresses
    <3> QED
      BY <1>6, <2>1, <3>1 DEF IsOneMore
  <2>2. CASE k \in 1 .. n
    BY <1>1, <1>6, <2>2 DEF IsOneMore, ReadsTied
  <2> QED
    BY <1>6, <1>7, <2>1, <2>2 DEF IsOneMore
<1>10. pr \in [TxnIds -> Seq(PendingRead)] /\ orId \in [TxnIds -> Nat]
  BY DEF ReadsTied, Queued
<1>11. PICK orId2 : orId2 = Inc(orId, r.id)
  OBVIOUS
<1>12. orId2 \in [TxnIds -> Nat] /\ orId2[id] = orId[id] + 1 /\ \A o \in TxnIds \ {id} : orId2[o] = orId[o]
  BY <1>1, <1>10, <1>11 DEF Inc
<1>13. pr2[id] = Append(q, r) /\ Len(pr2[id]) = Len(q) + 1 /\ \A o \in TxnIds \ {id} : pr2[o] = pr[o]
  BY <1>1, <1>4, <1>10
<1>14. ASSUME NEW o \in TxnIds PROVE orId2[o] = Len(pr2[o])
  <2>1. CASE o = id
    BY <1>1, <1>12, <1>13, <2>1 DEF ReadsTied
  <2>2. CASE o # id
    BY <1>12, <1>13, <2>2 DEF ReadsTied
  <2> QED
    BY <2>1, <2>2
<1>15. or + 1 = Len(reads2)
  BY <1>1, <1>6 DEF IsOneMore, ReadsTied
<1>16. ReadsTied(reads2, did, pr2, done, or + 1, orId2, time + 1)
  BY <1>2, <1>5, <1>8, <1>9, <1>12, <1>14, <1>15 DEF ReadsTied
<1> QED
  BY <1>4, <1>11, <1>16

\* A beat of read data that is not the last.
LEMMA ReadGoesOn ==
  ASSUME NEW reads, NEW did, NEW pr, NEW done, NEW or, NEW orId, NEW time,
         ReadsTied(reads, did, pr, done, or, orId, time), NEW id \in TxnIds, NEW k, IsFirst(reads, id, k),
         NEW r \in PendingRead, r.id = id, r.addr = reads[k].addr
  PROVE  ReadsTied([reads EXCEPT ![k] = r], did, [pr EXCEPT ![id][1] = r], done, or, orId, time)
<1>1. PICK n \in Nat, q \in Seq(PendingRead) : n = Len(reads) /\ DOMAIN reads = 1 .. n /\ q = pr[id] /\ reads \in Seq(PendingRead)
  BY DEF ReadsTied, Queued
<1>2. k \in 1 .. n
  BY <1>1 DEF IsFirst
<1>3. PICK reads2, pr2 : reads2 = [reads EXCEPT ![k] = r] /\ pr2 = [pr EXCEPT ![id][1] = r]
  OBVIOUS
<1>4. Queued(reads2, pr2)
  BY <1>3, QueueTakes DEF ReadsTied
<1>5. reads2 \in Seq(PendingRead) /\ DOMAIN reads2 = 1 .. n /\ \A i \in 1 .. n : reads2[i].addr = reads[i].addr
  BY <1>1, <1>2, <1>3
<1>6. Len(reads2) = n
  BY <1>1, <1>5
<1>7. pr \in [TxnIds -> Seq(PendingRead)] /\ 1 \in DOMAIN q
  BY <1>1, HeadIsFirst DEF ReadsTied, Queued
<1>8. PICK q2 : q2 = [q EXCEPT ![1] = r]
  OBVIOUS
<1>9. q2 \in Seq(PendingRead) /\ Len(q2) = Len(q)
  BY <1>1, <1>7, <1>8
<1>10. pr2 = [pr EXCEPT ![id] = q2]
  BY <1>1, <1>3, <1>7, <1>8
<1>11. ASSUME NEW o \in TxnIds PROVE Len(pr2[o]) = Len(pr[o])
  <2>1. pr2[o] = IF o = id THEN q2 ELSE pr[o]
    BY <1>7, <1>10
  <2> QED
    BY <1>1, <1>9, <2>1
<1>12. ReadsTied(reads2, did, pr2, done, or, orId, time)
  <2>1. AreAll(done, did) /\ or = Len(reads2) /\ orId \in [TxnIds -> Nat]
    BY <1>1, <1>6 DEF ReadsTied
  <2>2. \A o \in TxnIds : orId[o] = Len(pr2[o])
    BY <1>11 DEF ReadsTied
  <2>3. \A i \in 1 .. n : reads2[i].addr <= time
    BY <1>1, <1>5 DEF ReadsTied
  <2>4. \A i \in DOMAIN done : /\ ~done[i].write /\ done[i].addr <= time /\ done[i].resp <= time
                               /\ \A m \in 1 .. n : done[i].addr # reads2[m].addr
    BY <1>1, <1>5 DEF ReadsTied
  <2> QED
    BY <1>4, <1>5, <2>1, <2>2, <2>3, <2>4 DEF ReadsTied
<1> QED
  BY <1>3, <1>12

\* The last beat of read data.
LEMMA ReadEnds ==
  ASSUME NEW reads, NEW did, NEW pr, NEW done, NEW or, NEW orId, NEW time \in Nat,
         ReadsTied(reads, did, pr, done, or, orId, time), NEW id \in TxnIds, NEW k, IsFirst(reads, id, k),
         NEW txn \in Transaction, ~txn.write, txn.addr = reads[k].addr, txn.resp = time
  PROVE  ReadsTied(RemoveAt(reads, k), did \cup {txn}, [pr EXCEPT ![id] = Tail(@)], Append(done, txn), Less(or), Dec(orId, id), time)
<1>1. PICK n \in Nat, q \in Seq(PendingRead) : n = Len(reads) /\ DOMAIN reads = 1 .. n /\ q = pr[id] /\ reads \in Seq(PendingRead)
  BY DEF ReadsTied, Queued
<1>2. k \in 1 .. n
  BY <1>1 DEF IsFirst
<1>3. PICK reads2, pr2, done2 : reads2 = RemoveAt(reads, k) /\ pr2 = [pr EXCEPT ![id] = Tail(@)] /\ done2 = Append(done, txn)
  OBVIOUS
<1>4. Queued(reads2, pr2)
  BY <1>3, QueueEnds DEF ReadsTied
<1>5. \A i \in 1 .. n : reads[i].addr \in Nat /\ reads[i].addr <= time
  <2>1. \A i \in DOMAIN reads : reads[i].addr \in Nat /\ reads[i].addr <= time
    BY ReadAddresses
  <2> QED
    BY <1>1, <2>1
<1>6. AreAll(done2, did \cup {txn})
  BY <1>1, <1>2, <1>3, <1>5, OneMoreDone DEF ReadsTied
<1>7. PICK m \in Nat : m = Len(done) /\ DOMAIN done = 1 .. m /\ done \in Seq(Transaction)
  BY DEF ReadsTied, AreAll
<1>8. IsOneMore(done2, done, txn, m)
  BY <1>3, <1>7, OneMoreFacts
<1>9. DOMAIN done2 = 1 .. m + 1 /\ done2[m + 1] = txn /\ (\A i \in 1 .. m : done2[i] = done[i]) /\ \A i \in 1 .. m + 1 : i = m + 1 \/ i \in 1 .. m
  BY <1>8 DEF IsOneMore
<1>10. reads2 \in Seq(PendingRead) /\ IsWithout(reads2, reads, k, n)
  BY <1>1, <1>2, <1>3, RemoveAtFacts
<1>11. \A j \in DOMAIN reads2 : \E i \in 1 .. n : i # k /\ reads2[j] = reads[i]
  <2>1. ASSUME NEW j \in 1 .. n - 1 PROVE \E i \in 1 .. n : i # k /\ reads2[j] = reads[i]
    <3>1. PICK i \in 1 .. n : i = (IF j < k THEN j ELSE j + 1)
      OBVIOUS
    <3>2. i # k
      BY <1>2, <3>1
    <3> QED
      BY <1>10, <3>1, <3>2 DEF IsWithout
  <2> QED
    BY <1>10, <2>1 DEF IsWithout
<1>12. \A j \in DOMAIN reads2 : reads2[j].addr <= time
  BY <1>5, <1>11
<1>13. ASSUME NEW i \in 1 .. n, i # k PROVE reads[i].addr # reads[k].addr
  <2>1. \A x, y \in 1 .. n : x < y => reads[x].addr < reads[y].addr
    BY <1>1 DEF ReadsTied, Queued, InTurn
  <2>2. i < k \/ k < i
    BY <1>2, <1>13
  <2> QED
    BY <1>2, <1>5, <2>1, <2>2
<1>14. ASSUME NEW i \in 1 .. m + 1
       PROVE  ~done2[i].write /\ done2[i].addr <= time /\ done2[i].resp <= time /\ \A j \in DOMAIN reads2 : done2[i].addr # reads2[j].addr
  <2>1. CASE i = m + 1
    <3>1. done2[i] = txn /\ txn.addr <= time /\ txn.resp <= time
      BY <1>2, <1>5, <1>9, <2>1
    <3>2. \A j \in DOMAIN reads2 : reads[k].addr # reads2[j].addr
      BY <1>11, <1>13
    <3> QED
      BY <3>1, <3>2
  <2>2. CASE i \in 1 .. m
    <3>1. ~done[i].write /\ done[i].addr <= time /\ done[i].resp <= time /\ \A j \in 1 .. n : done[i].addr # reads[j].addr
      BY <1>1, <1>7, <2>2 DEF ReadsTied
    <3> QED
      BY <1>9, <1>11, <2>2, <3>1
  <2> QED
    BY <1>9, <2>1, <2>2
<1>15. n > 0 /\ Len(reads2) = n - 1
  BY <1>2, <1>10 DEF IsWithout
<1>16. Less(or) = Len(reads2)
  BY <1>1, <1>15 DEF Less, ReadsTied
<1>17. pr \in [TxnIds -> Seq(PendingRead)] /\ q # << >> /\ orId \in [TxnIds -> Nat]
  <2>1. Queued(reads, pr)
    BY DEF ReadsTied
  <2>2. q # << >>
    BY <1>1, <2>1, HeadIsFirst
  <2> QED
    BY <2>1, <2>2 DEF ReadsTied, Queued
<1>18. pr2[id] = Tail(q) /\ \A o \in TxnIds \ {id} : pr2[o] = pr[o]
  BY <1>1, <1>3, <1>17
<1>19. PICK l \in Nat : l = Len(q) /\ l > 0 /\ Len(Tail(q)) = l - 1 /\ orId[id] = l
  BY <1>1, <1>17 DEF ReadsTied
<1>20. PICK orId2 : orId2 = Dec(orId, id)
  OBVIOUS
<1>21. orId2 \in [TxnIds -> Nat] /\ orId2[id] = l - 1 /\ \A o \in TxnIds \ {id} : orId2[o] = orId[o]
  BY <1>17, <1>19, <1>20 DEF Dec
<1>22. ASSUME NEW o \in TxnIds PROVE orId2[o] = Len(pr2[o])
  <2>1. CASE o = id
    BY <1>18, <1>19, <1>21, <2>1
  <2>2. CASE o # id
    BY <1>18, <1>21, <2>2 DEF ReadsTied
  <2> QED
    BY <2>1, <2>2
<1>23. ReadsTied(reads2, did \cup {txn}, pr2, done2, Less(or), orId2, time)
  BY <1>4, <1>6, <1>9, <1>12, <1>14, <1>16, <1>21, <1>22 DEF ReadsTied
<1> QED
  BY <1>3, <1>20, <1>23

\* Writes leave the reads and the samples alone, in the analyzer ...
LEMMA WritesLeaveReads ==
  ASSUME NEW a, DOMAIN a = AnFields, NEW h, NEW c, c = MatchResponse(AddWrite(PushBeat(a, h), h), h)
  PROVE  /\ DOMAIN c = AnFields /\ c.pr = a.pr /\ c.reads = a.reads /\ c.or = a.or /\ c.orId = a.orId
         /\ c.samples = a.samples
<1> DEFINE Kept(c2) == DOMAIN c2 = AnFields /\ c2.pr = a.pr /\ c2.reads = a.reads /\ c2.or = a.or /\ c2.orId = a.orId /\ c2.samples = a.samples
<1>1. PICK a1 : a1 = PushBeat(a, h)
  OBVIOUS
<1>2. Kept(a1)
  <2>1. a1 = a \/ \E q : a1 = [a EXCEPT !.buf = q]
    BY <1>1 DEF PushBeat
  <2>2. CASE a1 = a
    BY <2>2
  <2>3. CASE \E q : a1 = [a EXCEPT !.buf = q]
    <3>1. PICK q : a1 = [a EXCEPT !.buf = q]
      BY <2>3
    <3> QED
      BY <3>1 DEF AnFields
  <2> QED
    BY <2>1, <2>2, <2>3
<1>3. PICK a2 : a2 = AddWrite(a1, h)
  OBVIOUS
<1>4. Kept(a2)
  <2>1. CASE h.aw = None
    BY <1>2, <1>3, <2>1 DEF AddWrite
  <2>2. CASE h.aw # None
    <3>1. PICK p, n, m : a2 = Drain([a1 EXCEPT !.pw = p, !.ow = n, !.owId = m])
      BY <1>3, <2>2 DEF AddWrite
    <3>2. PICK d : d = [a1 EXCEPT !.pw = p, !.ow = n, !.owId = m]
      OBVIOUS
    <3>3. Kept(d)
      BY <1>2, <3>2 DEF AnFields
    <3>4. PICK p2, q : a2 = [d EXCEPT !.pw = p2, !.buf = q]
      BY <3>1, <3>2 DEF Drain
    <3> QED
      BY <3>3, <3>4 DEF AnFields
  <2> QED
    BY <2>1, <2>2
<1>5. PICK k : k = SelectInSeq(a2.pw, LAMBDA p : p.complete /\ p.id = h.b)
  OBVIOUS
<1>6. c = MatchResponse(a2, h)
  BY <1>1, <1>3
<1>7. CASE h.b = None \/ k = 0
  BY <1>4, <1>5, <1>6, <1>7 DEF MatchResponse
<1>8. CASE ~(h.b = None \/ k = 0)
  <2>1. PICK p : p = a2.pw[k]
    OBVIOUS
  <2>2. PICK w : w = Append(a2.writes, [write |-> TRUE, id |-> p.id, addr |-> p.addr, beats |-> p.beats, resp |-> t + 1])
    OBVIOUS
  <2>3. PICK q, n, m : q = RemoveAt(a2.pw, k) /\ n = Less(a2.ow) /\ m = Dec(a2.owId, p.id)
    OBVIOUS
  <2>4. c = [a2 EXCEPT !.writes = w, !.pw = q, !.ow = n, !.owId = m]
    BY <1>5, <1>6, <1>8, <2>1, <2>2, <2>3 DEF MatchResponse
  <2> QED
    BY <1>4, <2>4 DEF AnFields
<1> QED
  BY <1>7, <1>8

\* ... and on the bus, where an edge may begin a read before it takes data.
LEMMA BusLeavesReads ==
  ASSUME NEW b, DOMAIN b = BusFields, NEW h, NEW time,
         NEW c, c = Responded(Addressed(Sent(b, h, time), h, time), h, time)
  PROVE  /\ DOMAIN c = BusFields /\ c.did = b.did
         /\ c.reads = IF h.ar = None THEN b.reads ELSE Append(b.reads, [id |-> h.ar, addr |-> time, beats |-> << >>])
<1>1. PICK b1 : b1 = Sent(b, h, time)
  OBVIOUS
<1>2. DOMAIN b1 = BusFields /\ b1.reads = b.reads /\ b1.did = b.did
  <2>1. b1 = b \/ \E q : b1 = [b EXCEPT !.bursts = q]
    BY <1>1 DEF Sent
  <2>2. CASE b1 = b
    BY <2>2
  <2>3. CASE \E q : b1 = [b EXCEPT !.bursts = q]
    <3>1. PICK q : b1 = [b EXCEPT !.bursts = q]
      BY <2>3
    <3> QED
      BY <3>1 DEF BusFields
  <2> QED
    BY <2>1, <2>2, <2>3
<1>3. PICK b2 : b2 = Addressed(b1, h, time)
  OBVIOUS
<1>4. PICK r : r = IF h.ar = None THEN b.reads ELSE Append(b.reads, [id |-> h.ar, addr |-> time, beats |-> << >>])
  OBVIOUS
<1>5. DOMAIN b2 = BusFields /\ b2.reads = r /\ b2.did = b.did
  <2>1. PICK q, d : b2 = [b1 EXCEPT !.aw = q, !.dataFirst = d, !.reads = r]
    BY <1>2, <1>3, <1>4 DEF Addressed, BusFields
  <2> QED
    BY <1>2, <2>1 DEF BusFields
<1>6. c = b2 \/ \E q, d, w : c = [b2 EXCEPT !.aw = q, !.bursts = d, !.wrote = w]
  <2>1. c = Responded(b2, h, time)
    BY <1>1, <1>3
  <2>2. CASE h.b = None
    BY <2>1, <2>2 DEF Responded
  <2>3. CASE h.b # None
    <3>1. PICK q, d, w : c = [b2 EXCEPT !.aw = q, !.bursts = d, !.wrote = w]
      BY <2>1, <2>3 DEF Responded
    <3> QED
      BY <3>1
  <2> QED
    BY <2>2, <2>3
<1>7. DOMAIN c = BusFields /\ c.reads = r /\ c.did = b.did
  <2>1. CASE c = b2
    BY <1>5, <2>1
  <2>2. CASE \E q, d, w : c = [b2 EXCEPT !.aw = q, !.bursts = d, !.wrote = w]
    <3>1. PICK q, d, w : c = [b2 EXCEPT !.aw = q, !.bursts = d, !.wrote = w]
      BY <2>2
    <3> QED
      BY <1>5, <3>1 DEF BusFields
  <2> QED
    BY <1>6, <2>1, <2>2
<1> QED
  BY <1>4, <1>7

\* A read address and read data, in the analyzer and on the bus.
ReadsFollow(b, a, time) == ReadsTied(b.reads, b.did, a.pr, a.reads, a.or, a.orId, time)
LEMMA AddReadFollows ==
  ASSUME t \in Nat, NEW b, NEW a, DOMAIN a = AnFields, ReadsFollow(b, a, t), NEW h, h.ar \in TxnIds \cup {None},
         NEW reads, reads = IF h.ar = None THEN b.reads ELSE Append(b.reads, [id |-> h.ar, addr |-> t + 1, beats |-> << >>]),
         NEW c, c = AddRead(a, h)
  PROVE  DOMAIN c = AnFields /\ ReadsTied(reads, b.did, c.pr, c.reads, c.or, c.orId, t + 1)
<1>1. CASE h.ar = None
  <2>1. c = a /\ reads = b.reads
    BY <1>1 DEF AddRead
  <2> QED
    BY <2>1, ReadsLast DEF ReadsFollow
<1>2. CASE h.ar # None
  <2>1. PICK r : r = [id |-> h.ar, addr |-> t + 1, beats |-> << >>]
    OBVIOUS
  <2>2. r \in PendingRead /\ r.addr = t + 1 /\ r.id = h.ar
    BY <1>2, <2>1 DEF PendingRead
  <2>3. PICK id, q, n, m : id = r.id /\ q = Append(a.pr[id], r) /\ n = a.or + 1 /\ m = Inc(a.orId, id)
    OBVIOUS
  <2>4. c = [a EXCEPT !.pr[id] = q, !.or = n, !.orId = m]
    BY <1>2, <2>1, <2>2, <2>3 DEF AddRead
  <2>5. DOMAIN c = AnFields /\ c.pr = [a.pr EXCEPT ![id] = q] /\ c.reads = a.reads /\ c.or = n /\ c.orId = m
    BY <2>4 DEF AnFields
  <2>6. reads = Append(b.reads, r)
    BY <1>2, <2>1
  <2>7. [a.pr EXCEPT ![id] = q] = [a.pr EXCEPT ![id] = Append(@, r)]
    BY <2>3
  <2>8. ReadsTied(Append(b.reads, r), b.did, [a.pr EXCEPT ![r.id] = Append(@, r)], a.reads, a.or + 1, Inc(a.orId, r.id), t + 1)
    BY <2>2, ReadBegins DEF ReadsFollow
  <2> QED
    BY <2>3, <2>5, <2>6, <2>7, <2>8
<1> QED
  BY <1>1, <1>2

LEMMA TakeReadFollows ==
  ASSUME t \in Nat, NEW b, DOMAIN b = BusFields, NEW a, DOMAIN a = AnFields, ReadsFollow(b, a, t + 1),
         NEW h, h.r \in TxnIds \cup {None},
         h.r # None => FirstOfId(b.reads, h.r) # 0,
         NEW b2, b2 = Read(b, h, t + 1), NEW a2, a2 = TakeReadData(a, h)
  PROVE  DOMAIN a2 = AnFields /\ ReadsFollow(b2, a2, t + 1)
<1>1. CASE h.r = None
  <2>1. b2 = b /\ a2 = a
    BY <1>1 DEF Read, TakeReadData
  <2> QED
    BY <2>1
<1>2. CASE h.r # None
  <2>1. PICK id \in TxnIds : id = h.r
    BY <1>2
  <2>2. PICK k : id = h.r /\ k = FirstOfId(b.reads, id)
    BY <2>1
  <2>3. b.reads \in Seq(PendingRead) /\ Queued(b.reads, a.pr) /\ a.pr \in [TxnIds -> Seq(PendingRead)]
    BY DEF ReadsFollow, ReadsTied, Queued
  <2>4. IsFirst(b.reads, id, k)
    BY <1>2, <2>2, <2>3, FirstFacts
  <2>5. PICK first : first = b.reads[k]
    OBVIOUS
  <2>6. k \in DOMAIN b.reads /\ first.id = id
    BY <2>4, <2>5 DEF IsFirst
  <2>7. first \in PendingRead /\ first.id \in TxnIds /\ first.addr \in Nat /\ first.beats \in Seq(Nat)
    BY <2>3, <2>5, <2>6, ReadFields
  <2>8. PICK q : q = a.pr[id] /\ q # << >> /\ Head(q) = first /\ q[1] = first
    BY <2>2, <2>3, <2>4, <2>5, HeadIsFirst
  <2>9. PICK r : r = [first EXCEPT !.beats = Append(@, t + 1)]
    OBVIOUS
  <2>10. r \in PendingRead /\ r.id = id /\ r.addr = first.addr /\ r.beats \in Seq(Nat)
    <3>1. PICK beats \in Seq(Nat) : beats = Append(first.beats, t + 1)
      <4>1. PICK old \in Seq(Nat), n \in Nat : old = first.beats /\ n = t + 1
        BY <2>7
      <4>2. Append(old, n) \in Seq(Nat)
        OBVIOUS
      <4> QED
        BY <4>1, <4>2
    <3>2. r = [id |-> first.id, addr |-> first.addr, beats |-> beats]
      BY <2>7, <2>9, <3>1 DEF PendingRead
    <3> QED
      BY <2>6, <2>7, <3>2 DEF PendingRead
  <2>11. CASE h.rlast
    <3>1. PICK txn : txn = [write |-> FALSE, id |-> id, addr |-> r.addr, beats |-> r.beats, resp |-> t + 1]
      OBVIOUS
    <3>2. txn \in Transaction /\ ~txn.write /\ txn.addr = first.addr /\ txn.resp = t + 1
      BY <2>7, <2>10, <3>1 DEF Transaction
    <3>3. PICK rest, did : rest = RemoveAt(b.reads, k) /\ did = b.did \cup {txn}
      OBVIOUS
    <3>4. b2 = [b EXCEPT !.reads = rest, !.did = did]
      BY <1>2, <2>2, <2>5, <2>9, <2>11, <3>1, <3>3 DEF Read
    <3>5. b2.reads = rest /\ b2.did = did
      BY <3>4 DEF BusFields
    <3>6. PICK done, tail, n, m : done = Append(a.reads, txn) /\ tail = Tail(q) /\ n = Less(a.or) /\ m = Dec(a.orId, id)
      OBVIOUS
    <3>7. a2 = [a EXCEPT !.reads = done, !.pr[id] = tail, !.or = n, !.orId = m]
      BY <1>2, <2>2, <2>8, <2>9, <2>10, <2>11, <3>1, <3>6 DEF TakeReadData
    <3>8. DOMAIN a2 = AnFields /\ a2.reads = done /\ a2.pr = [a.pr EXCEPT ![id] = tail] /\ a2.or = n /\ a2.orId = m
      BY <3>7 DEF AnFields
    <3>9. [a.pr EXCEPT ![id] = tail] = [a.pr EXCEPT ![id] = Tail(@)]
      BY <2>8, <3>6
    <3>10. ReadsTied(RemoveAt(b.reads, k), b.did \cup {txn}, [a.pr EXCEPT ![id] = Tail(@)], Append(a.reads, txn), Less(a.or), Dec(a.orId, id), t + 1)
      <4>1. PICK reads, did0, pr, done0, or, orId, time :
              reads = b.reads /\ did0 = b.did /\ pr = a.pr /\ done0 = a.reads /\ or = a.or /\ orId = a.orId /\ time = t + 1
        OBVIOUS
      <4>2. ReadsTied(reads, did0, pr, done0, or, orId, time) /\ IsFirst(reads, id, k)
        BY <2>4, <4>1 DEF ReadsFollow
      <4>3. txn.addr = reads[k].addr /\ time \in Nat /\ txn.resp = time
        BY <2>5, <3>2, <4>1
      <4>4. ReadsTied(RemoveAt(reads, k), did0 \cup {txn}, [pr EXCEPT ![id] = Tail(@)], Append(done0, txn), Less(or), Dec(orId, id), time)
        BY <3>2, <4>2, <4>3, ReadEnds
      <4> QED
        BY <4>1, <4>4
    <3> QED
      BY <3>3, <3>5, <3>6, <3>8, <3>9, <3>10 DEF ReadsFollow
  <2>12. CASE ~h.rlast
    <3>1. PICK rest : rest = [b.reads EXCEPT ![k] = r]
      OBVIOUS
    <3>2. b2 = [b EXCEPT !.reads[k] = r]
      BY <1>2, <2>2, <2>5, <2>9, <2>12 DEF Read
    <3>3. b2.reads = rest /\ b2.did = b.did
      BY <3>1, <3>2 DEF BusFields
    <3>4. a2 = [a EXCEPT !.pr[id][1] = r]
      BY <1>2, <2>2, <2>8, <2>9, <2>12 DEF TakeReadData
    <3>5. DOMAIN a2 = AnFields /\ a2.reads = a.reads /\ a2.pr = [a.pr EXCEPT ![id][1] = r] /\ a2.or = a.or /\ a2.orId = a.orId
      BY <3>4 DEF AnFields
    <3>6. ReadsTied([b.reads EXCEPT ![k] = r], b.did, [a.pr EXCEPT ![id][1] = r], a.reads, a.or, a.orId, t + 1)
      BY <2>4, <2>5, <2>10, ReadGoesOn DEF ReadsFollow
    <3> QED
      BY <3>1, <3>3, <3>5, <3>6 DEF ReadsFollow
  <2> QED
    BY <2>11, <2>12
<1> QED
  BY <1>1, <1>2

\* A reset drops the reads that are in flight, and the counters.
LEMMA ReadsReset ==
  ASSUME NEW reads, NEW did, NEW pr, NEW done, NEW or, NEW orId, NEW time \in Nat,
         ReadsTied(reads, did, pr, done, or, orId, time)
  PROVE  ReadsTied(<< >>, did, [i \in TxnIds |-> << >>], done, 0, NoneById, time + 1)
<1>1. PICK pr2, e : pr2 = [i \in TxnIds |-> << >>] /\ e = << >>
  OBVIOUS
<1>2. ReadsTied(reads, did, pr, done, or, orId, time + 1)
  BY ReadsLast
<1>3. e \in Seq(PendingRead) /\ DOMAIN e = {} /\ Len(e) = 0
  BY <1>1
<1>4. Queued(e, pr2)
  <2>1. pr2 \in [TxnIds -> Seq(PendingRead)] /\ \A id \in TxnIds : pr2[id] = e
    BY <1>1, <1>3
  <2> QED
    BY <1>3, <2>1 DEF Queued, InTurn
<1>5. NoneById \in [TxnIds -> Nat] /\ \A id \in TxnIds : NoneById[id] = 0 /\ pr2[id] = e
  BY <1>1 DEF NoneById
<1>6. ReadsTied(e, did, pr2, done, 0, NoneById, time + 1)
  BY <1>2, <1>3, <1>4, <1>5 DEF ReadsTied
<1> QED
  BY <1>1, <1>6

\* An edge.
LEMMA EdgeReadsFollow ==
  ASSUME t \in Nat, DOMAIN bus = BusFields, DOMAIN an = AnFields, ReadsFollow(bus, an, t), Edge
  PROVE  ReadsFollow(bus', an', t')
<1>1. PICK h \in Edges(bus) : bus' = BusAfter(bus, h, t + 1) /\ an' = Processed(an, h) /\ t' = t + 1
  BY DEF Edge
<1>2. CASE h.rst
  <2>1. PICK e : e = << >>
    OBVIOUS
  <2>2. bus' = [bus EXCEPT !.aw = e, !.bursts = e, !.reads = e]
    BY <1>1, <1>2, <2>1 DEF BusAfter
  <2>3. bus'.reads = e /\ bus'.did = bus.did
    BY <2>2 DEF BusFields
  <2>4. an' = [Fresh EXCEPT !.writes = an.writes, !.reads = an.reads, !.samples = an.samples]
    BY <1>1, <1>2 DEF Processed, Cleared
  <2>5. an'.pr = [i \in TxnIds |-> << >>] /\ an'.reads = an.reads /\ an'.or = 0 /\ an'.orId = NoneById
    BY <2>4 DEF Fresh
  <2> QED
    BY <1>1, <2>1, <2>3, <2>5, ReadsReset DEF ReadsFollow
<1>3. CASE ~h.rst
  <2>1. h \in Handshakes /\ MayRead(bus, h)
    BY <1>1, <1>3 DEF Edges, Reset
  <2>2. h.ar \in TxnIds \cup {None} /\ h.r \in TxnIds \cup {None}
    BY <2>1 DEF Handshakes
  <2>3. PICK a : a = MatchResponse(AddWrite(PushBeat(an, h), h), h)
    OBVIOUS
  <2>4. DOMAIN a = AnFields /\ a.pr = an.pr /\ a.reads = an.reads /\ a.or = an.or /\ a.orId = an.orId
    BY <2>3, WritesLeaveReads
  <2>5. PICK b : b = Responded(Addressed(Sent(bus, h, t + 1), h, t + 1), h, t + 1)
    OBVIOUS
  <2>6. /\ DOMAIN b = BusFields /\ b.did = bus.did
        /\ b.reads = IF h.ar = None THEN bus.reads ELSE Append(bus.reads, [id |-> h.ar, addr |-> t + 1, beats |-> << >>])
    BY <2>5, BusLeavesReads
  <2>7. PICK c : c = AddRead(a, h)
    OBVIOUS
  <2>8. DOMAIN c = AnFields /\ ReadsTied(b.reads, bus.did, c.pr, c.reads, c.or, c.orId, t + 1)
    <3>1. ReadsFollow(bus, a, t)
      BY <2>4 DEF ReadsFollow
    <3> QED
      BY <2>2, <2>4, <2>6, <2>7, <3>1, AddReadFollows
  <2>9. ReadsFollow(b, c, t + 1)
    BY <2>6, <2>8 DEF ReadsFollow
  <2>10. h.r # None => FirstOfId(b.reads, h.r) # 0
    <3>1. SUFFICES ASSUME h.r # None PROVE FirstOfId(b.reads, h.r) # 0
      OBVIOUS
    <3>2. PICK k : k = FirstOfId(bus.reads, h.r) /\ k # 0
      BY <2>1, <3>1 DEF MayRead
    <3>3. bus.reads \in Seq(PendingRead)
      BY DEF ReadsFollow, ReadsTied, Queued
    <3>4. IsFirst(bus.reads, h.r, k)
      BY <3>2, <3>3, FirstFacts
    <3>5. CASE h.ar = None
      BY <2>6, <3>2, <3>5
    <3>6. CASE h.ar # None
      <4>1. PICK r : r = [id |-> h.ar, addr |-> t + 1, beats |-> << >>]
        OBVIOUS
      <4>2. r \in PendingRead
        BY <2>2, <3>6, <4>1 DEF PendingRead
      <4>3. PICK n \in Nat : n = Len(bus.reads) /\ DOMAIN bus.reads = 1 .. n
        BY <3>3
      <4>4. IsOneMore(b.reads, bus.reads, r, n) /\ b.reads \in Seq(PendingRead)
        BY <2>6, <3>3, <3>6, <4>1, <4>2, <4>3, OneMoreFacts
      <4>5. k \in 1 .. n /\ bus.reads[k].id = h.r /\ \A i \in 1 .. n : bus.reads[i].id = h.r => k <= i
        BY <3>4, <4>3 DEF IsFirst
      <4>6. \A i \in 1 .. n + 1 : i = n + 1 \/ i \in 1 .. n
        OBVIOUS
      <4>7. IsFirst(b.reads, h.r, k)
        <5>1. k \in 1 .. n + 1 /\ b.reads[k].id = h.r
          BY <4>4, <4>5 DEF IsOneMore
        <5>2. \A i \in 1 .. n + 1 : b.reads[i].id = h.r => k <= i
          BY <4>4, <4>5, <4>6 DEF IsOneMore
        <5> QED
          BY <4>4, <5>1, <5>2 DEF IsOneMore, IsFirst
      <4> QED
        BY <3>2, <4>4, <4>7, FirstFacts
    <3> QED
      BY <3>5, <3>6
  <2>11. PICK b2, a2 : b2 = Read(b, h, t + 1) /\ a2 = TakeReadData(c, h)
    OBVIOUS
  <2>12. DOMAIN a2 = AnFields /\ ReadsFollow(b2, a2, t + 1)
    BY <2>2, <2>6, <2>8, <2>9, <2>10, <2>11, TakeReadFollows
  <2>13. bus' = b2 /\ an' = Sample(a2)
    BY <1>1, <1>3, <2>3, <2>5, <2>7, <2>11 DEF BusAfter, Processed
  <2>14. PICK q : an' = [a2 EXCEPT !.samples = q]
    BY <2>13 DEF Sample
  <2>15. an'.pr = a2.pr /\ an'.reads = a2.reads /\ an'.or = a2.or /\ an'.orId = a2.orId
    BY <2>12, <2>14 DEF AnFields
  <2> QED
    BY <1>1, <2>12, <2>13, <2>15 DEF ReadsFollow
<1> QED
  BY <1>2, <1>3

(***************************************************************************)
(* The writes, when their data come first.                                 *)
(***************************************************************************)
\* The bus's writes in flight are the pending ones, and all of them have their data.
Prompt(aw, bursts, pw) ==
  /\ Len(pw) = Len(aw)
  /\ \A j \in DOMAIN aw : j \in DOMAIN bursts /\ bursts[j].done /\ pw[j].complete

\* Each of them has its own place then: were there a first or a last one that has
\* another, two of them would have the same.
LEMMA PlacesAreOwn ==
  ASSUME NEW aw, NEW bursts, NEW pw, NEW stream, NEW cut, NEW place, Typed(aw, bursts, pw, stream, cut),
         Linked(aw, bursts, pw, stream, cut, place), Len(pw) = Len(aw)
  PROVE  \A j \in DOMAIN aw : place[j] = j
<1>1. PICK u \in Nat : u = Len(aw) /\ DOMAIN aw = 1 .. u
  BY CutFields
<1>2. \A i, j \in Nat \ {0} : i < j => place[i] < place[j]
  BY DEF Linked
<1>3. \A j \in Nat \ {0} : place[j] \in Nat \ {0}
  BY DEF Linked
<1>4. \A j \in 1 .. u : place[j] <= u
  BY <1>1 DEF Linked
<1>5. PICK low \in SUBSET (1 .. u), high \in SUBSET (1 .. u) : low = {j \in 1 .. u : place[j] < j} /\ high = {j \in 1 .. u : place[j] > j}
  OBVIOUS
<1>6. low = {}
  <2>1. SUFFICES ASSUME low # {} PROVE FALSE
    OBVIOUS
  <2>2. PICK j \in low : \A i \in low : j <= i
    BY <2>1, Lists!HasEnds
  <2>3. j \in 1 .. u /\ place[j] < j /\ place[j] \in Nat \ {0}
    BY <1>3, <1>5
  <2>4. j # 1
    BY <2>3
  <2>5. j - 1 \in 1 .. u /\ j - 1 \in Nat \ {0} /\ j \in Nat \ {0} /\ j - 1 < j
    BY <2>3, <2>4
  <2>6. place[j - 1] < place[j] /\ place[j - 1] \in Nat \ {0}
    BY <1>2, <1>3, <2>5
  <2>7. j - 1 \in low
    BY <1>5, <2>3, <2>5, <2>6
  <2> QED
    BY <2>2, <2>3, <2>7
<1>7. high = {}
  <2>1. SUFFICES ASSUME high # {} PROVE FALSE
    OBVIOUS
  <2>2. PICK j \in high : \A i \in high : i <= j
    BY <2>1, Lists!HasEnds
  <2>3. j \in 1 .. u /\ place[j] > j /\ place[j] \in Nat \ {0} /\ place[j] <= u
    BY <1>3, <1>4, <1>5
  <2>4. j + 1 \in 1 .. u /\ j + 1 \in Nat \ {0} /\ j \in Nat \ {0} /\ j < j + 1
    BY <2>3
  <2>5. place[j] < place[j + 1] /\ place[j + 1] \in Nat \ {0}
    BY <1>2, <1>3, <2>4
  <2>6. j + 1 \in high
    BY <1>5, <2>3, <2>4, <2>5
  <2> QED
    BY <2>2, <2>3, <2>6
<1>8. ASSUME NEW j \in 1 .. u PROVE place[j] = j
  <2>1. place[j] \in Nat /\ ~(place[j] < j) /\ ~(place[j] > j)
    BY <1>3, <1>5, <1>6, <1>7
  <2> QED
    BY <2>1
<1> QED
  BY <1>1, <1>8

\* What is drained has all its data, and a write that has them has its own.
LEMMA PromptFacts ==
  ASSUME NEW aw, NEW bursts, NEW pw, NEW stream, NEW cut, NEW fed, NEW place, NEW wrote, NEW time,
         Tied(aw, bursts, pw, stream, cut, fed, place, wrote, time), Len(pw) = Len(aw),
         NEW j \in DOMAIN aw, j \in DOMAIN bursts, bursts[j].done
  PROVE  /\ j \in DOMAIN pw /\ pw[j].id = aw[j].id /\ pw[j].addr = aw[j].addr
         /\ fed = Len(stream) => pw[j].complete
         /\ pw[j].complete => pw[j].beats = bursts[j].beats
<1>1. Typed(aw, bursts, pw, stream, cut) /\ InOrder(stream, cut) /\ Fed(stream, cut, fed, pw)
      /\ Linked(aw, bursts, pw, stream, cut, place)
  BY DEF Tied
<1>2. PICK u \in Nat, y \in Nat, z \in Nat :
        /\ u = Len(aw) /\ DOMAIN aw = 1 .. u /\ DOMAIN pw = 1 .. u /\ y = Len(bursts) /\ DOMAIN bursts = 1 .. y
        /\ z = Len(cut) /\ DOMAIN cut = 1 .. z
  BY <1>1, CutFields
<1>3. place[j] = j /\ j \in 1 .. u /\ j \in 1 .. y /\ j \in Nat \ {0}
  BY <1>1, <1>2, PlacesAreOwn
<1>4. pw[j].id = aw[j].id /\ pw[j].addr = aw[j].addr
  BY <1>1, <1>3 DEF Linked
<1>5. j \in 1 .. z
  <2>1. j <= Len(bursts) <=> place[j] <= Len(cut)
    BY <1>1, <1>3 DEF Linked
  <2> QED
    BY <1>2, <1>3, <2>1
<1>6. bursts[j] = [beats |-> Beats(stream, cut[j].lo, cut[j].hi), done |-> cut[j].done]
  BY <1>1, <1>3 DEF Linked
<1>7. cut[j].done /\ bursts[j].beats = Beats(stream, cut[j].lo, cut[j].hi)
  BY <1>6
<1>8. cut[j].lo \in Nat /\ cut[j].hi \in Nat /\ cut[j].lo < cut[j].hi /\ cut[j].hi <= Len(stream)
  BY <1>1, <1>2, <1>5, CutFields DEF InOrder
<1>9. pw[j].complete <=> cut[j].hi <= fed
  BY <1>1, <1>2, <1>3, <1>5, <1>7 DEF Fed
<1>10. fed \in Nat
  BY <1>1, CutFields DEF Fed
<1>11. ASSUME pw[j].complete PROVE pw[j].beats = bursts[j].beats
  <2>1. cut[j].lo < fed /\ ~(fed < cut[j].hi)
    BY <1>8, <1>9, <1>10, <1>11
  <2> QED
    BY <1>1, <1>2, <1>3, <1>5, <1>7, <2>1 DEF Fed
<1> QED
  BY <1>2, <1>3, <1>4, <1>8, <1>9, <1>11

\* How many of a vector are of an id, as one is added or taken out.
Size(S) == Lists!Cardinality(S)
Finite(S) == Lists!IsFiniteSet(S)
OfOneId(s, id) == {i \in DOMAIN s : s[i].id = id}
LEMMA IdsAreFinite ==
  ASSUME NEW S, NEW s \in Seq(S), NEW id
  PROVE  Finite(OfOneId(s, id)) /\ Size(OfOneId(s, id)) \in Nat
<1>1. PICK n \in Nat : n = Len(s) /\ DOMAIN s = 1 .. n
  OBVIOUS
<1>2. Lists!IsFiniteSet(1 .. n)
  <2>1. 1 \in Int /\ n \in Int
    OBVIOUS
  <2> QED
    BY <2>1, Lists!FS_Interval
<1>3. OfOneId(s, id) \in SUBSET (1 .. n)
  BY <1>1 DEF OfOneId
<1> QED
  BY <1>2, <1>3, Lists!FS_Subset, Lists!FS_CardinalityType DEF Size, Finite

LEMMA IdsWithOneMore ==
  ASSUME NEW S, NEW s \in Seq(S), NEW x \in S, NEW id
  PROVE  Size(OfOneId(Append(s, x), id)) = Size(OfOneId(s, id)) + IF x.id = id THEN 1 ELSE 0
<1>1. PICK n \in Nat, s2 \in Seq(S) : n = Len(s) /\ DOMAIN s = 1 .. n /\ s2 = Append(s, x) /\ IsOneMore(s2, s, x, n)
  <2>1. PICK n \in Nat : n = Len(s) /\ DOMAIN s = 1 .. n
    OBVIOUS
  <2> QED
    BY <2>1, OneMoreFacts
<1>2. DOMAIN s2 = 1 .. n + 1 /\ s2[n + 1] = x /\ \A i \in 1 .. n : s2[i] = s[i]
  BY <1>1 DEF IsOneMore
<1>3. \A i \in 1 .. n + 1 : i = n + 1 \/ i \in 1 .. n
  OBVIOUS
<1>4. \A i \in 1 .. n : i \in 1 .. n + 1 /\ i # n + 1
  OBVIOUS
<1>5. PICK O, O2 : O = OfOneId(s, id) /\ O2 = OfOneId(s2, id)
  OBVIOUS
<1>6. Finite(O) /\ Size(O) \in Nat
  BY <1>5, IdsAreFinite
<1>7. O = {i \in 1 .. n : s[i].id = id} /\ O2 = {i \in 1 .. n + 1 : s2[i].id = id}
  BY <1>1, <1>2, <1>5 DEF OfOneId
<1>8. CASE x.id = id
  <2>1. O2 = O \cup {n + 1} /\ n + 1 \notin O
    BY <1>2, <1>3, <1>4, <1>7, <1>8
  <2>2. Size(O \cup {n + 1}) = IF n + 1 \in O THEN Size(O) ELSE Size(O) + 1
    BY <1>6, Lists!FS_AddElement DEF Size, Finite
  <2> QED
    BY <1>1, <1>5, <1>6, <1>8, <2>1, <2>2
<1>9. CASE x.id # id
  <2>1. O2 = O
    BY <1>2, <1>3, <1>4, <1>7, <1>9
  <2> QED
    BY <1>1, <1>5, <1>6, <1>9, <2>1
<1> QED
  BY <1>8, <1>9

LEMMA IdsWithoutOne ==
  ASSUME NEW S, NEW s \in Seq(S), NEW k \in DOMAIN s, NEW id
  PROVE  Size(OfOneId(RemoveAt(s, k), id)) = Size(OfOneId(s, id)) - IF s[k].id = id THEN 1 ELSE 0
<1>1. PICK n \in Nat, s2 \in Seq(S) : n = Len(s) /\ DOMAIN s = 1 .. n /\ s2 = RemoveAt(s, k) /\ IsWithout(s2, s, k, n)
  <2>1. PICK n \in Nat : n = Len(s) /\ DOMAIN s = 1 .. n
    OBVIOUS
  <2> QED
    BY <2>1, RemoveAtFacts
<1>2. PICK f : f = [i \in 1 .. n - 1 |-> IF i < k THEN i ELSE i + 1]
  OBVIOUS
<1>3. k \in 1 .. n
  BY <1>1
<1>4. \A i \in 1 .. n - 1 : f[i] \in 1 .. n /\ f[i] # k
  BY <1>2, <1>3
<1>5. \A i, j \in 1 .. n - 1 : f[i] = f[j] => i = j
  BY <1>2, <1>3
<1>6. ASSUME NEW j \in 1 .. n, j # k PROVE \E i \in 1 .. n - 1 : f[i] = j
  <2>1. CASE j < k
    <3>1. j \in 1 .. n - 1
      BY <1>3, <2>1
    <3> QED
      BY <1>2, <2>1, <3>1
  <2>2. CASE ~(j < k)
    <3>1. j - 1 \in 1 .. n - 1 /\ ~(j - 1 < k) /\ j - 1 + 1 = j
      BY <1>3, <1>6, <2>2
    <3> QED
      BY <1>2, <3>1
  <2> QED
    BY <2>1, <2>2
<1>7. DOMAIN s2 = 1 .. n - 1 /\ \A i \in 1 .. n - 1 : s2[i] = s[f[i]]
  BY <1>1, <1>2 DEF IsWithout
<1>8. PICK O, O2 : O = OfOneId(s, id) /\ O2 = OfOneId(s2, id)
  OBVIOUS
<1>9. Finite(O) /\ Size(O) \in Nat /\ Finite(O2) /\ Size(O2) \in Nat
  BY <1>8, IdsAreFinite
<1>10. O = {i \in 1 .. n : s[i].id = id} /\ O2 = {i \in 1 .. n - 1 : s2[i].id = id}
  BY <1>1, <1>7, <1>8 DEF OfOneId
<1>11. PICK g : g = [i \in O2 |-> f[i]]
  OBVIOUS
<1>12. \A i \in O2 : g[i] \in O \ {k}
  BY <1>4, <1>7, <1>10, <1>11
<1>13. \A j \in O \ {k} : \E i \in O2 : g[i] = j
  <2>1. ASSUME NEW j \in O \ {k} PROVE \E i \in O2 : g[i] = j
    <3>1. PICK i \in 1 .. n - 1 : f[i] = j
      BY <1>6, <1>10
    <3>2. i \in O2
      BY <1>7, <1>10, <3>1
    <3> QED
      BY <1>11, <3>1, <3>2
  <2> QED
    BY <2>1
<1>14. \A i, j \in O2 : g[i] = g[j] => i = j
  BY <1>5, <1>10, <1>11
<1>15. g \in [O2 -> O \ {k}]
  BY <1>11, <1>12
<1>16. g \in Lists!Bijection(O2, O \ {k})
  BY <1>13, <1>14, <1>15 DEF Lists!Bijection, Lists!Injection, Lists!Surjection, Lists!IsInjective
<1>17. Size(O \ {k}) = Size(O2)
  BY <1>9, <1>16, Lists!FS_Bijection DEF Lists!ExistsBijection, Size, Finite
<1>18. Size(O \ {k}) = IF k \in O THEN Size(O) - 1 ELSE Size(O)
  BY <1>9, Lists!FS_RemoveElement DEF Size, Finite
<1>19. k \in O <=> s[k].id = id
  BY <1>3, <1>10
<1> QED
  BY <1>1, <1>8, <1>9, <1>17, <1>18, <1>19

\* The counters of what is outstanding.
Counted(aw, ow, owId) ==
  ow = Len(aw) /\ owId \in [TxnIds -> Nat] /\ \A id \in TxnIds : owId[id] = Size(OfOneId(aw, id))
LEMMA CountedMore ==
  ASSUME NEW aw \in Seq(Address), NEW ow, NEW owId, Counted(aw, ow, owId), NEW d \in Address
  PROVE  Counted(Append(aw, d), ow + 1, Inc(owId, d.id))
<1>1. PICK id \in TxnIds, n \in Nat : id = d.id /\ n = Len(aw) /\ Len(Append(aw, d)) = n + 1
  BY DEF Address
<1>2. owId \in [TxnIds -> Nat]
  BY DEF Counted
<1>3. PICK owId2 : owId2 = Inc(owId, d.id)
  OBVIOUS
<1>4. owId2 \in [TxnIds -> Nat] /\ \A o \in TxnIds : owId2[o] = owId[o] + IF o = id THEN 1 ELSE 0
  BY <1>1, <1>2, <1>3 DEF Inc
<1>5. ASSUME NEW o \in TxnIds PROVE owId2[o] = Size(OfOneId(Append(aw, d), o))
  <2>1. Size(OfOneId(Append(aw, d), o)) = Size(OfOneId(aw, o)) + IF d.id = o THEN 1 ELSE 0
    BY IdsWithOneMore
  <2>2. owId[o] = Size(OfOneId(aw, o))
    BY DEF Counted
  <2> QED
    BY <1>1, <1>4, <2>1, <2>2
<1>6. ow + 1 = Len(Append(aw, d))
  BY <1>1 DEF Counted
<1> QED
  BY <1>3, <1>4, <1>5, <1>6 DEF Counted

LEMMA CountedLess ==
  ASSUME NEW aw \in Seq(Address), NEW ow, NEW owId, Counted(aw, ow, owId), NEW k \in DOMAIN aw
  PROVE  Counted(RemoveAt(aw, k), Less(ow), Dec(owId, aw[k].id))
<1>1. aw[k] \in Address
  OBVIOUS
<1>2. PICK id \in TxnIds, n \in Nat : id = aw[k].id /\ n = Len(aw) /\ k \in 1 .. n
  BY <1>1 DEF Address
<1>3. Len(RemoveAt(aw, k)) = n - 1 /\ n > 0
  BY <1>2, RemoveAtFacts DEF IsWithout
<1>4. owId \in [TxnIds -> Nat]
  BY DEF Counted
<1>5. PICK owId2 : owId2 = Dec(owId, aw[k].id)
  OBVIOUS
<1>6. owId[id] # 0
  <2>1. k \in OfOneId(aw, id) /\ Finite(OfOneId(aw, id))
    BY <1>2, IdsAreFinite DEF OfOneId
  <2>2. Size(OfOneId(aw, id)) # 0
    BY <2>1, Lists!FS_EmptySet DEF Size, Finite
  <2> QED
    BY <2>2 DEF Counted
<1>7. owId2 \in [TxnIds -> Nat] /\ \A o \in TxnIds : owId2[o] = owId[o] - IF o = id THEN 1 ELSE 0
  <2>1. owId[id] > 0 /\ owId[id] - 1 \in Nat
    BY <1>4, <1>6
  <2>2. owId2 = [owId EXCEPT ![id] = owId[id] - 1]
    BY <1>2, <1>5, <2>1 DEF Dec
  <2> QED
    BY <1>4, <2>1, <2>2
<1>8. ASSUME NEW o \in TxnIds PROVE owId2[o] = Size(OfOneId(RemoveAt(aw, k), o))
  <2>1. Size(OfOneId(RemoveAt(aw, k), o)) = Size(OfOneId(aw, o)) - IF aw[k].id = o THEN 1 ELSE 0
    BY IdsWithoutOne
  <2>2. owId[o] = Size(OfOneId(aw, o))
    BY DEF Counted
  <2> QED
    BY <1>2, <1>7, <2>1, <2>2
<1>9. Less(ow) = Len(RemoveAt(aw, k))
  BY <1>2, <1>3 DEF Less, Counted
<1> QED
  BY <1>5, <1>7, <1>8, <1>9 DEF Counted

\* The writes of the analyzer that are done, and those in flight.
WritesFollow(b, a, time) ==
  /\ \A i \in DOMAIN a.writes : a.writes[i].addr <= a.writes[i].resp /\ a.writes[i].resp <= time
  /\ a.ow \in Nat /\ a.owId \in [TxnIds -> Nat]
  /\ b.dataFirst => Prompt(b.aw, b.bursts, a.pw) /\ AreAll(a.writes, b.wrote) /\ Counted(b.aw, a.ow, a.owId)

\* Write data.
LEMMA SendWrites ==
  ASSUME NEW b, NEW a, t \in Nat, Follows(b, a, t, t), WritesFollow(b, a, t), NEW h, h.w \in {"none", "beat", "last"}
  PROVE  WritesFollow(Sent(b, h, t + 1), PushBeat(a, h), t + 1)
<1>1. DOMAIN b = BusFields /\ DOMAIN a = AnFields
  BY DEF Follows
<1>2. PICK s, p : s = Sent(b, h, t + 1) /\ p = PushBeat(a, h)
  OBVIOUS
<1>3. s.aw = b.aw /\ s.wrote = b.wrote /\ s.dataFirst = b.dataFirst
  <2>1. LET s0 == Sent(b, h, t + 1) IN s0.aw = b.aw /\ s0.wrote = b.wrote /\ s0.dataFirst = b.dataFirst
    BY <1>1, SentFrame, ZenonT(60)
  <2> QED
    BY <1>2, <2>1
<1>4. p.pw = a.pw /\ p.writes = a.writes /\ p.ow = a.ow /\ p.owId = a.owId
  BY <1>1, <1>2, PushFrame
<1>5. \A k \in DOMAIN b.bursts : b.bursts[k].done => k \in DOMAIN s.bursts /\ s.bursts[k] = b.bursts[k]
  BY <1>2, SendFollows
<1>6. Prompt(b.aw, b.bursts, a.pw) => Prompt(s.aw, s.bursts, p.pw)
  <2>1. SUFFICES ASSUME Prompt(b.aw, b.bursts, a.pw) PROVE Prompt(s.aw, s.bursts, p.pw)
    OBVIOUS
  <2>2. \A j \in DOMAIN b.aw : j \in DOMAIN s.bursts /\ s.bursts[j].done /\ a.pw[j].complete
    BY <1>5, <2>1 DEF Prompt
  <2> QED
    BY <1>3, <1>4, <2>1, <2>2 DEF Prompt
<1>7. \A i \in DOMAIN a.writes : a.writes[i].resp <= t + 1
  <2>1. \A i \in DOMAIN a.writes : a.writes[i] \in Txn
    BY DEF Follows, IsReported
  <2>2. \A i \in DOMAIN a.writes : a.writes[i].resp \in Nat
    BY <2>1 DEF Txn
  <2>3. \A i \in DOMAIN a.writes : a.writes[i].resp <= t
    BY DEF WritesFollow
  <2> QED
    BY <2>2, <2>3
<1>8. WritesFollow(s, p, t + 1)
  BY <1>3, <1>4, <1>6, <1>7 DEF WritesFollow
<1> QED
  BY <1>2, <1>8

\* A write address: with its data before it, it has them as soon as it is known.
LEMMA AddressWrites ==
  ASSUME NEW b, NEW a, t \in Nat, Follows(b, a, t + 1, t), WritesFollow(b, a, t + 1), NEW h, h.aw \in TxnIds \cup {None}
  PROVE  WritesFollow(Addressed(b, h, t + 1), AddWrite(a, h), t + 1)
<1>1. DOMAIN b = BusFields /\ DOMAIN a = AnFields
  BY DEF Follows
<1>2. PICK s, c : s = Addressed(b, h, t + 1) /\ c = AddWrite(a, h)
  OBVIOUS
<1>3. /\ s.bursts = b.bursts /\ s.wrote = b.wrote
      /\ s.aw = IF h.aw = None THEN b.aw ELSE Append(b.aw, [id |-> h.aw, addr |-> t + 1])
      /\ s.dataFirst = (b.dataFirst /\ (h.aw = None \/ IsReady(b)))
  BY <1>1, <1>2, AddressFrame
<1>4. CASE h.aw = None
  <2>1. c = a /\ s.aw = b.aw /\ (s.dataFirst => b.dataFirst)
    BY <1>2, <1>3, <1>4 DEF AddWrite
  <2>2. WritesFollow(s, a, t + 1)
    BY <1>3, <2>1 DEF WritesFollow
  <2> QED
    BY <1>2, <2>1, <2>2
<1>5. CASE h.aw # None
  <2>1. /\ Follows(s, c, t + 1, t + 1) /\ c.writes = a.writes /\ Len(c.pw) = Len(a.pw) + 1
        /\ c.buf = << >> \/ \A i \in DOMAIN c.pw : c.pw[i].complete
        /\ c.ow = a.ow + 1 /\ c.owId = Inc(a.owId, h.aw)
    BY <1>2, <1>5, AddressFollows
  <2>2. SUFFICES ASSUME s.dataFirst PROVE Prompt(s.aw, s.bursts, c.pw) /\ AreAll(c.writes, s.wrote) /\ Counted(s.aw, c.ow, c.owId)
    <3>1. a.ow \in Nat /\ a.owId \in [TxnIds -> Nat] /\ h.aw \in TxnIds
      BY <1>5 DEF WritesFollow
    <3>2. c.ow \in Nat /\ c.owId \in [TxnIds -> Nat]
      BY <2>1, <3>1 DEF Inc
    <3> QED
      BY <1>2, <2>1, <3>2 DEF WritesFollow
  <2>3. b.dataFirst /\ IsReady(b)
    BY <1>3, <1>5, <2>2
  <2>4. Prompt(b.aw, b.bursts, a.pw) /\ AreAll(a.writes, b.wrote) /\ Counted(b.aw, a.ow, a.owId)
    BY <2>3 DEF WritesFollow
  <2>5. b.aw \in Seq(Address)
    BY DEF Follows, Tied, Typed
  <2>6. PICK u \in Nat : u = Len(b.aw) /\ DOMAIN b.aw = 1 .. u
    BY <2>5
  <2>7. PICK d : d = [id |-> h.aw, addr |-> t + 1] /\ d.id = h.aw /\ d \in Address
    <3>1. h.aw \in TxnIds /\ t + 1 \in Nat
      BY <1>5
    <3>2. PICK d : d = [id |-> h.aw, addr |-> t + 1]
      OBVIOUS
    <3>3. d \in Address /\ d.id = h.aw
      BY <3>1, <3>2 DEF Address
    <3> QED
      BY <3>2, <3>3
  <2>8. s.aw = Append(b.aw, d) /\ IsOneMore(s.aw, b.aw, d, u)
    BY <1>3, <1>5, <2>5, <2>6, <2>7, OneMoreFacts
  <2>9. Counted(s.aw, c.ow, c.owId)
    BY <2>1, <2>4, <2>5, <2>7, <2>8, CountedMore
  <2>10. PICK stream, cut, fed, place : Tied(s.aw, s.bursts, c.pw, stream, cut, fed, place, s.wrote, t + 1) /\ Buffered(c.buf, stream, fed)
    BY <2>1 DEF Follows
  <2>11. Len(c.pw) = Len(s.aw)
    BY <2>1, <2>4, <2>6, <2>8 DEF Prompt, IsOneMore
  <2>12. DOMAIN s.bursts = 1 .. Len(s.bursts) /\ Len(s.bursts) \in Nat
    BY <2>10, CutFields DEF Tied
  <2>13. ASSUME NEW j \in DOMAIN s.aw PROVE j \in DOMAIN s.bursts /\ s.bursts[j].done
    <3>1. CASE j = u + 1
      <4>1. u + 1 <= Len(s.bursts) /\ s.bursts[u + 1].done
        BY <1>3, <2>3, <2>6 DEF IsReady
      <4>2. u + 1 \in 1 .. Len(s.bursts)
        BY <2>12, <4>1
      <4> QED
        BY <2>12, <3>1, <4>1, <4>2
    <3>2. CASE j \in 1 .. u
      BY <1>3, <2>4, <2>6, <3>2 DEF Prompt
    <3> QED
      BY <2>8, <3>1, <3>2 DEF IsOneMore
  <2>14. c.buf = << >> => fed = Len(stream)
    <3>1. Len(stream) \in Nat /\ fed \in Nat
      BY <2>10, CutFields DEF Tied, Fed
    <3>2. SUFFICES ASSUME c.buf = << >> PROVE fed = Len(stream)
      OBVIOUS
    <3>3. Len(c.buf) = Len(stream) - fed /\ Len(c.buf) = 0
      BY <2>10, <3>2 DEF Buffered
    <3> QED
      BY <3>1, <3>3
  <2>15. ASSUME NEW j \in DOMAIN s.aw PROVE c.pw[j].complete
    <3>1. j \in DOMAIN s.bursts /\ s.bursts[j].done
      BY <2>13
    <3>2. j \in DOMAIN c.pw /\ (fed = Len(stream) => c.pw[j].complete)
      BY <2>10, <2>11, <3>1, PromptFacts
    <3> QED
      BY <2>1, <2>14, <3>2
  <2>16. Prompt(s.aw, s.bursts, c.pw)
    BY <2>11, <2>13, <2>15 DEF Prompt
  <2> QED
    BY <1>3, <2>1, <2>4, <2>9, <2>16
<1> QED
  BY <1>4, <1>5

\* A response takes out the write it is for, here and there.
LEMMA PromptWithout ==
  ASSUME NEW aw \in Seq(Address), NEW bursts \in Seq(Burst), NEW pw \in Seq(Pending), Prompt(aw, bursts, pw), NEW m \in DOMAIN aw
  PROVE  Prompt(RemoveAt(aw, m), RemoveAt(bursts, m), RemoveAt(pw, m))
<1>1. PICK u \in Nat, y \in Nat : u = Len(aw) /\ DOMAIN aw = 1 .. u /\ u = Len(pw) /\ DOMAIN pw = 1 .. u /\ y = Len(bursts) /\ DOMAIN bursts = 1 .. y
  BY DEF Prompt
<1>2. \A j \in 1 .. u : j \in 1 .. y /\ bursts[j].done /\ pw[j].complete
  BY <1>1 DEF Prompt
<1>3. m \in 1 .. u /\ m \in 1 .. y
  BY <1>1, <1>2
<1>4. PICK aw2, bursts2, pw2 : aw2 = RemoveAt(aw, m) /\ bursts2 = RemoveAt(bursts, m) /\ pw2 = RemoveAt(pw, m)
  OBVIOUS
<1>5. IsWithout(aw2, aw, m, u) /\ IsWithout(bursts2, bursts, m, y) /\ IsWithout(pw2, pw, m, u)
  BY <1>1, <1>3, <1>4, RemoveAtFacts
<1>6. ASSUME NEW j \in 1 .. u - 1 PROVE j \in 1 .. y - 1 /\ bursts2[j].done /\ pw2[j].complete
  <2>1. PICK i \in 1 .. u : i = IF j < m THEN j ELSE j + 1
    OBVIOUS
  <2>2. i \in 1 .. y /\ bursts[i].done /\ pw[i].complete
    BY <1>2
  <2>3. j \in 1 .. y - 1
    BY <1>3, <2>1, <2>2
  <2> QED
    BY <1>5, <2>1, <2>2, <2>3 DEF IsWithout
<1> QED
  BY <1>4, <1>5, <1>6 DEF IsWithout, Prompt

LEMMA ResponseWrites ==
  ASSUME NEW b, NEW a, t \in Nat, Follows(b, a, t + 1, t + 1), WritesFollow(b, a, t + 1), NEW h, h.b \in TxnIds \cup {None},
         h.b # None => \E m \in DOMAIN b.bursts : IsFirst(b.aw, h.b, m) /\ b.bursts[m].done
  PROVE  WritesFollow(Responded(b, h, t + 1), MatchResponse(a, h), t + 1)
<1>1. PICK stream, cut, fed, place : Tied(b.aw, b.bursts, a.pw, stream, cut, fed, place, b.wrote, t + 1)
  BY DEF Follows
<1>2. DOMAIN b = BusFields /\ DOMAIN a = AnFields /\ OnceEach(a.writes, a.pw, t + 1) /\ a.writes \in Seq(Txn)
  BY DEF Follows, IsReported
<1>3. CASE h.b = None
  <2>1. Responded(b, h, t + 1) = b /\ MatchResponse(a, h) = a
    BY <1>3 DEF Responded, MatchResponse
  <2> QED
    BY <2>1
<1>4. CASE h.b # None
  <2>1. PICK m \in DOMAIN b.bursts : IsFirst(b.aw, h.b, m) /\ b.bursts[m].done
    BY <1>4
  <2>2. b.aw \in Seq(Address) /\ b.bursts \in Seq(Burst) /\ a.pw \in Seq(Pending)
    BY <1>1 DEF Tied, Typed
  <2>3. FirstOfId(b.aw, h.b) = m /\ m \in DOMAIN b.aw /\ b.aw[m].id = h.b
    <3>1. FirstOfId(b.aw, h.b) = m
      BY <2>1, <2>2, FirstFacts
    <3> QED
      BY <2>1, <3>1 DEF IsFirst
  <2>4. PICK txn : txn = [write |-> TRUE, id |-> h.b, addr |-> b.aw[m].addr, beats |-> b.bursts[m].beats, resp |-> t + 1]
    OBVIOUS
  <2>5. PICK aw2, bursts2, wrote2 : aw2 = RemoveAt(b.aw, m) /\ bursts2 = RemoveAt(b.bursts, m) /\ wrote2 = b.wrote \cup {txn}
    OBVIOUS
  <2>6. PICK s : s = Responded(b, h, t + 1)
    OBVIOUS
  <2>7. s.aw = aw2 /\ s.bursts = bursts2 /\ s.wrote = wrote2 /\ s.dataFirst = b.dataFirst
    <3>1. s = [b EXCEPT !.aw = aw2, !.bursts = bursts2, !.wrote = wrote2]
      BY <1>4, <2>3, <2>4, <2>5, <2>6 DEF Responded
    <3> QED
      BY <1>2, <3>1 DEF BusFields
  <2>8. PICK n \in Nat : n = Len(a.pw) /\ DOMAIN a.pw = 1 .. n
    BY <2>2
  <2>9. PICK I : I = {i \in 1 .. Len(a.pw) : a.pw[i].complete /\ a.pw[i].id = h.b}
    OBVIOUS
  <2>10. I \in SUBSET (1 .. n)
    BY <2>8, <2>9
  <2>11. PICK k : k = SelectInSeq(a.pw, LAMBDA p : p.complete /\ p.id = h.b)
    OBVIOUS
  <2>12. k = IF I # {} THEN Min(I) ELSE 0
    BY <2>9, <2>11 DEF SelectInSeq
  <2>13. ASSUME b.dataFirst
         PROVE  /\ DOMAIN b.aw = 1 .. n
                /\ \A j \in 1 .. n : a.pw[j].complete /\ a.pw[j].id = b.aw[j].id /\ a.pw[j].addr = b.aw[j].addr
                                     /\ a.pw[j].beats = b.bursts[j].beats
    <3>1. Prompt(b.aw, b.bursts, a.pw)
      BY <2>13 DEF WritesFollow
    <3>2. DOMAIN b.aw = 1 .. n /\ Len(a.pw) = Len(b.aw)
      BY <2>2, <2>8, <3>1 DEF Prompt
    <3>3. ASSUME NEW j \in 1 .. n
          PROVE  a.pw[j].complete /\ a.pw[j].id = b.aw[j].id /\ a.pw[j].addr = b.aw[j].addr /\ a.pw[j].beats = b.bursts[j].beats
      <4>1. j \in DOMAIN b.aw /\ j \in DOMAIN b.bursts /\ b.bursts[j].done /\ a.pw[j].complete
        BY <3>1, <3>2 DEF Prompt
      <4> QED
        BY <1>1, <3>2, <4>1, PromptFacts
    <3> QED
      BY <3>2, <3>3
  <2>14. CASE I = {}
    <3>1. MatchResponse(a, h) = a
      BY <2>11, <2>12, <2>14 DEF MatchResponse
    <3>2. ASSUME b.dataFirst PROVE FALSE
      BY <2>3, <2>8, <2>9, <2>13, <2>14, <3>2
    <3> QED
      BY <2>6, <2>7, <3>1, <3>2 DEF WritesFollow
  <2>15. CASE I # {}
    <3>1. k \in I /\ \A i \in I : k <= i
      <4>1. \E i \in I : \A j \in I : i <= j
        BY <2>10, <2>15, Lists!HasEnds
      <4> QED
        BY <2>12, <2>15, <4>1 DEF Min
    <3>2. k \in 1 .. n /\ a.pw[k].complete /\ a.pw[k].id = h.b /\ \A i \in 1 .. n : a.pw[i].complete /\ a.pw[i].id = h.b => k <= i
      BY <2>8, <2>9, <3>1
    <3>3. PICK p : p = a.pw[k]
      OBVIOUS
    <3>4. p.addr \in Nat /\ p.addr <= t + 1 /\ p.id \in TxnIds /\ p.beats \in Seq(Nat)
      <4>1. p \in Pending
        BY <2>2, <2>8, <3>2, <3>3
      <4>2. p.addr <= t + 1
        BY <1>2, <2>8, <3>2, <3>3 DEF OnceEach
      <4> QED
        BY <4>1, <4>2 DEF Pending
    <3>5. PICK w : w = [write |-> TRUE, id |-> p.id, addr |-> p.addr, beats |-> p.beats, resp |-> t + 1]
      OBVIOUS
    <3>6. w \in Txn /\ w.addr = p.addr /\ w.resp = t + 1
      BY <3>4, <3>5 DEF Txn
    <3>7. PICK c \in Nat : c = Len(a.writes) /\ DOMAIN a.writes = 1 .. c
      BY <1>2
    <3>8. PICK writes2, pw2 : writes2 = Append(a.writes, w) /\ pw2 = RemoveAt(a.pw, k)
      OBVIOUS
    <3>9. IsOneMore(writes2, a.writes, w, c)
      BY <1>2, <3>6, <3>7, <3>8, OneMoreFacts
    <3>10. PICK x, y : x = Less(a.ow) /\ y = Dec(a.owId, p.id)
      OBVIOUS
    <3>11. PICK a2 : a2 = [a EXCEPT !.writes = writes2, !.pw = pw2, !.ow = x, !.owId = y]
      OBVIOUS
    <3>12. DOMAIN a2 = AnFields /\ a2.writes = writes2 /\ a2.pw = pw2 /\ a2.ow = x /\ a2.owId = y
      BY <1>2, <3>11 DEF AnFields
    <3>13. MatchResponse(a, h) = a2
      <4>1. k # 0
        BY <3>2
      <4> QED
        BY <1>4, <2>11, <3>3, <3>5, <3>8, <3>10, <3>11, <4>1 DEF MatchResponse
    <3>14. \A i \in DOMAIN writes2 : writes2[i].addr <= writes2[i].resp /\ writes2[i].resp <= t + 1
      <4>1. \A i \in 1 .. c : a.writes[i].addr <= a.writes[i].resp /\ a.writes[i].resp <= t + 1
        BY <3>7 DEF WritesFollow
      <4>2. \A i \in 1 .. c + 1 : i = c + 1 \/ i \in 1 .. c
        OBVIOUS
      <4> QED
        BY <3>4, <3>6, <3>9, <4>1, <4>2 DEF IsOneMore
    <3>15. ASSUME b.dataFirst PROVE Prompt(aw2, bursts2, pw2) /\ AreAll(writes2, wrote2) /\ Counted(aw2, x, y)
      <4>1. Prompt(b.aw, b.bursts, a.pw) /\ AreAll(a.writes, b.wrote) /\ Counted(b.aw, a.ow, a.owId)
        BY <3>15 DEF WritesFollow
      <4>2. k = m
        <5>1. m \in 1 .. n /\ b.aw[k].id = h.b /\ k \in DOMAIN b.aw
          BY <2>3, <2>13, <3>2, <3>15
        <5>2. m <= k
          BY <2>1, <5>1 DEF IsFirst
        <5>3. k <= m
          BY <2>3, <2>13, <3>2, <3>15, <5>1
        <5> QED
          BY <3>2, <5>1, <5>2, <5>3
      <4>3. Prompt(aw2, bursts2, pw2)
        BY <2>2, <2>3, <2>5, <3>8, <4>1, <4>2, PromptWithout
      <4>4. w = txn
        BY <2>4, <2>13, <3>2, <3>3, <3>5, <3>15, <4>2
      <4>5. w \in Transaction /\ w.addr <= w.resp
        BY <3>4, <3>6 DEF Txn, Transaction
      <4>6. \A i \in DOMAIN a.writes : a.writes[i].addr # w.addr
        BY <1>2, <2>8, <3>2, <3>3, <3>6 DEF OnceEach
      <4>7. AreAll(writes2, wrote2)
        BY <2>5, <3>8, <4>1, <4>4, <4>5, <4>6, OneMoreDone
      <4>8. Counted(aw2, x, y)
        BY <2>2, <2>3, <2>5, <3>2, <3>3, <3>10, <4>1, <4>2, CountedLess
      <4> QED
        BY <4>3, <4>7, <4>8
    <3>16. x \in Nat /\ y \in [TxnIds -> Nat]
      <4>1. a.ow \in Nat /\ a.owId \in [TxnIds -> Nat]
        BY DEF WritesFollow
      <4>2. a.owId[p.id] \in Nat
        BY <3>4, <4>1
      <4>3. (IF a.owId[p.id] > 0 THEN a.owId[p.id] - 1 ELSE a.owId[p.id]) \in Nat
        BY <4>2
      <4>4. y \in [TxnIds -> Nat]
        BY <3>4, <3>10, <4>1, <4>3 DEF Dec
      <4>5. x \in Nat
        BY <3>10, <4>1 DEF Less
      <4> QED
        BY <4>4, <4>5
    <3>17. WritesFollow(s, a2, t + 1)
      BY <2>7, <3>12, <3>14, <3>15, <3>16 DEF WritesFollow
    <3> QED
      BY <2>6, <3>13, <3>17
  <2> QED
    BY <2>14, <2>15
<1> QED
  BY <1>3, <1>4

\* Reads leave the writes alone.
LEMMA ReadFollows ==
  ASSUME NEW b, NEW a, NEW time, NEW since, Follows(b, a, time, since), WritesFollow(b, a, time), NEW h,
         NEW c, c = Sample(TakeReadData(AddRead(a, h), h))
  PROVE  Follows(Read(b, h, time), c, time, since) /\ WritesFollow(Read(b, h, time), c, time)
<1>1. DOMAIN b = BusFields /\ DOMAIN a = AnFields
  BY DEF Follows
<1>2. PICK s : s = Read(b, h, time)
  OBVIOUS
<1>3. DOMAIN s = BusFields /\ s.aw = b.aw /\ s.bursts = b.bursts /\ s.wrote = b.wrote /\ s.dataFirst = b.dataFirst
  <2>1. ASSUME NEW q, NEW r, s = [b EXCEPT !.reads = q, !.did = r]
        PROVE  DOMAIN s = BusFields /\ s.aw = b.aw /\ s.bursts = b.bursts /\ s.wrote = b.wrote /\ s.dataFirst = b.dataFirst
    BY <1>1, <2>1 DEF BusFields
  <2>2. ASSUME NEW k, NEW q, s = [b EXCEPT !.reads[k] = q]
        PROVE  DOMAIN s = BusFields /\ s.aw = b.aw /\ s.bursts = b.bursts /\ s.wrote = b.wrote /\ s.dataFirst = b.dataFirst
    BY <1>1, <2>2 DEF BusFields
  <2>3. s = b \/ (\E q, r : s = [b EXCEPT !.reads = q, !.did = r]) \/ \E k, q : s = [b EXCEPT !.reads[k] = q]
    BY <1>2 DEF Read
  <2> QED
    BY <1>1, <2>1, <2>2, <2>3
<1>4. PICK a1 : a1 = AddRead(a, h)
  OBVIOUS
<1>5. DOMAIN a1 = AnFields /\ a1.pw = a.pw /\ a1.buf = a.buf /\ a1.writes = a.writes /\ a1.ow = a.ow /\ a1.owId = a.owId
  <2>1. ASSUME NEW i, NEW q, NEW n, NEW m, a1 = [a EXCEPT !.pr[i] = q, !.or = n, !.orId = m]
        PROVE  DOMAIN a1 = AnFields /\ a1.pw = a.pw /\ a1.buf = a.buf /\ a1.writes = a.writes /\ a1.ow = a.ow /\ a1.owId = a.owId
    BY <1>1, <2>1 DEF AnFields
  <2>2. a1 = a \/ \E i, q, n, m : a1 = [a EXCEPT !.pr[i] = q, !.or = n, !.orId = m]
    BY <1>4 DEF AddRead
  <2> QED
    BY <1>1, <2>1, <2>2
<1>6. PICK a2 : a2 = TakeReadData(a1, h)
  OBVIOUS
<1>7. DOMAIN a2 = AnFields /\ a2.pw = a1.pw /\ a2.buf = a1.buf /\ a2.writes = a1.writes /\ a2.ow = a1.ow /\ a2.owId = a1.owId
  <2>1. ASSUME NEW i, NEW q, NEW r, NEW n, NEW m, a2 = [a1 EXCEPT !.reads = r, !.pr[i] = q, !.or = n, !.orId = m]
        PROVE  DOMAIN a2 = AnFields /\ a2.pw = a1.pw /\ a2.buf = a1.buf /\ a2.writes = a1.writes /\ a2.ow = a1.ow /\ a2.owId = a1.owId
    BY <1>5, <2>1 DEF AnFields
  <2>2. ASSUME NEW i, NEW r, a2 = [a1 EXCEPT !.pr[i][1] = r]
        PROVE  DOMAIN a2 = AnFields /\ a2.pw = a1.pw /\ a2.buf = a1.buf /\ a2.writes = a1.writes /\ a2.ow = a1.ow /\ a2.owId = a1.owId
    BY <1>5, <2>2 DEF AnFields
  <2>3. a2 = a1 \/ (\E i, q, r, n, m : a2 = [a1 EXCEPT !.reads = r, !.pr[i] = q, !.or = n, !.orId = m])
        \/ \E i, r : a2 = [a1 EXCEPT !.pr[i][1] = r]
    BY <1>6 DEF TakeReadData
  <2>4. CASE a2 = a1
    BY <1>5, <2>4
  <2>5. CASE \E i, q, r, n, m : a2 = [a1 EXCEPT !.reads = r, !.pr[i] = q, !.or = n, !.orId = m]
    <3>1. PICK i, q, r, n, m : a2 = [a1 EXCEPT !.reads = r, !.pr[i] = q, !.or = n, !.orId = m]
      BY <2>5
    <3> QED
      BY <2>1, <3>1
  <2>6. CASE \E i, r : a2 = [a1 EXCEPT !.pr[i][1] = r]
    <3>1. PICK i, r : a2 = [a1 EXCEPT !.pr[i][1] = r]
      BY <2>6
    <3> QED
      BY <2>2, <3>1
  <2> QED
    BY <2>3, <2>4, <2>5, <2>6
<1>8. PICK a3 : a3 = Sample(a2)
  OBVIOUS
<1>9. DOMAIN a3 = AnFields /\ a3.pw = a2.pw /\ a3.buf = a2.buf /\ a3.writes = a2.writes /\ a3.ow = a2.ow /\ a3.owId = a2.owId
  <2>1. PICK q : a3 = [a2 EXCEPT !.samples = q]
    BY <1>8 DEF Sample
  <2> QED
    BY <1>7, <2>1 DEF AnFields
<1>10. a3.pw = a.pw /\ a3.buf = a.buf /\ a3.writes = a.writes /\ a3.ow = a.ow /\ a3.owId = a.owId
  BY <1>5, <1>7, <1>9
<1>11. Follows(s, a3, time, since) /\ WritesFollow(s, a3, time)
  BY <1>3, <1>9, <1>10 DEF Follows, WritesFollow
<1> QED
  BY <1>2, <1>4, <1>6, <1>8, <1>11

\* An edge.
LEMMA EdgeFollows ==
  ASSUME t \in Nat, Follows(bus, an, t, t), WritesFollow(bus, an, t), Edge
  PROVE  Follows(bus', an', t', t') /\ WritesFollow(bus', an', t')
<1>1. PICK h \in Edges(bus) : bus' = BusAfter(bus, h, t + 1) /\ an' = Processed(an, h) /\ t' = t + 1
  BY DEF Edge
<1>2. DOMAIN bus = BusFields /\ DOMAIN an = AnFields /\ bus.wrote \subseteq Txn /\ IsReported(an.writes, bus.wrote)
      /\ OnceEach(an.writes, an.pw, t)
  BY DEF Follows
<1>3. CASE h.rst
  <2>1. PICK e : e = << >>
    OBVIOUS
  <2>2. bus' = [bus EXCEPT !.aw = e, !.bursts = e, !.reads = e]
    BY <1>1, <1>3, <2>1 DEF BusAfter
  <2>3. DOMAIN bus' = BusFields /\ bus'.aw = e /\ bus'.bursts = e /\ bus'.wrote = bus.wrote /\ bus'.dataFirst = bus.dataFirst
    BY <1>2, <2>2 DEF BusFields
  <2>4. an' = [Fresh EXCEPT !.writes = an.writes, !.reads = an.reads, !.samples = an.samples]
    BY <1>1, <1>3 DEF Processed, Cleared
  <2>5. DOMAIN an' = AnFields /\ an'.pw = e /\ an'.buf = e /\ an'.writes = an.writes /\ an'.ow = 0 /\ an'.owId = NoneById
    BY <2>1, <2>4 DEF Fresh, AnFields
  <2>6. Tied(bus'.aw, bus'.bursts, an'.pw, e, e, 0, [j \in Nat \ {0} |-> j], bus'.wrote, t + 1)
    BY <2>1, <2>3, <2>5, ResetKeeps
  <2>7. Buffered(an'.buf, e, 0)
    <3>1. << >> \in Seq(Beat) /\ Len(<< >>) = 0 /\ 0 = 0 - 0 /\ 1 .. 0 = {}
      OBVIOUS
    <3> QED
      BY <2>1, <2>5, <3>1 DEF Buffered
  <2>8. OnceEach(an'.writes, an'.pw, t + 1)
    <3>1. DOMAIN << >> = {}
      OBVIOUS
    <3>2. \A i \in DOMAIN an.writes : an.writes[i].addr <= t + 1
      <4>1. \A i \in DOMAIN an.writes : an.writes[i] \in Txn
        BY <1>2 DEF IsReported
      <4>2. \A i \in DOMAIN an.writes : an.writes[i].addr \in Nat /\ an.writes[i].addr <= t
        BY <1>2, <4>1 DEF OnceEach, Txn
      <4> QED
        BY <4>2
    <3> QED
      BY <2>1, <2>5, <3>1, <3>2 DEF OnceEach
  <2>9. WritesFollow(bus', an', t + 1)
    <3>1. \A i \in DOMAIN an.writes : an.writes[i].addr <= an.writes[i].resp /\ an.writes[i].resp <= t + 1
      <4>1. \A i \in DOMAIN an.writes : an.writes[i] \in Txn
        BY <1>2 DEF IsReported
      <4>2. \A i \in DOMAIN an.writes : an.writes[i].resp \in Nat /\ an.writes[i].resp <= t /\ an.writes[i].addr <= an.writes[i].resp
        BY <4>1 DEF WritesFollow, Txn
      <4> QED
        BY <4>2
    <3>2. DOMAIN e = {} /\ Len(e) = 0 /\ e \in Seq(Address)
      BY <2>1
    <3>3. Prompt(e, e, e)
      BY <3>2 DEF Prompt
    <3>4. Counted(e, 0, NoneById)
      <4>1. \A id \in TxnIds : Size(OfOneId(e, id)) = 0
        BY <3>2, Lists!FS_EmptySet DEF Size, OfOneId
      <4> QED
        BY <3>2, <4>1 DEF Counted, NoneById
    <3>5. NoneById \in [TxnIds -> Nat]
      BY DEF NoneById
    <3> QED
      BY <2>3, <2>5, <3>1, <3>3, <3>4, <3>5 DEF WritesFollow
  <2> QED
    BY <1>1, <1>2, <2>3, <2>5, <2>6, <2>7, <2>8, <2>9 DEF Follows
<1>4. CASE ~h.rst
  <2>1. h \in Handshakes /\ MayRespond(bus, h)
    BY <1>1, <1>4 DEF Edges, Reset
  <2>2. h.aw \in TxnIds \cup {None} /\ h.w \in {"none", "beat", "last"} /\ h.b \in TxnIds \cup {None}
    BY <2>1 DEF Handshakes
  <2>3. PICK b1, a1 : b1 = Sent(bus, h, t + 1) /\ a1 = PushBeat(an, h)
    OBVIOUS
  <2>4. /\ Follows(b1, a1, t + 1, t) /\ b1.aw = bus.aw
        /\ \A k \in DOMAIN bus.bursts : bus.bursts[k].done => k \in DOMAIN b1.bursts /\ b1.bursts[k] = bus.bursts[k]
        /\ WritesFollow(b1, a1, t + 1)
    BY <2>2, <2>3, SendFollows, SendWrites
  <2>5. PICK b2, a2 : b2 = Addressed(b1, h, t + 1) /\ a2 = AddWrite(a1, h)
    OBVIOUS
  <2>6. Follows(b2, a2, t + 1, t + 1) /\ WritesFollow(b2, a2, t + 1)
    BY <2>2, <2>4, <2>5, AddressFollows, AddressWrites
  <2>7. b2.bursts = b1.bursts /\ b2.aw = IF h.aw = None THEN bus.aw ELSE Append(bus.aw, [id |-> h.aw, addr |-> t + 1])
    <3>1. DOMAIN b1 = BusFields
      BY <2>4 DEF Follows
    <3> QED
      BY <2>4, <2>5, <3>1, AddressFrame
  <2>8. ASSUME h.b # None PROVE \E m \in DOMAIN b2.bursts : IsFirst(b2.aw, h.b, m) /\ b2.bursts[m].done
    <3>1. bus.aw \in Seq(Address) /\ bus.bursts \in Seq(Burst)
      BY DEF Follows, Tied, Typed
    <3>2. PICK m : m = FirstOfId(bus.aw, h.b) /\ m \in 1 .. Len(bus.bursts) /\ bus.bursts[m].done
      BY <2>1, <2>8 DEF MayRespond
    <3>3. m # 0 /\ m \in DOMAIN bus.bursts
      BY <3>1, <3>2
    <3>4. IsFirst(bus.aw, h.b, m)
      BY <3>1, <3>2, <3>3, FirstFacts
    <3>5. m \in DOMAIN b2.bursts /\ b2.bursts[m].done
      BY <2>4, <2>7, <3>2, <3>3
    <3>6. IsFirst(b2.aw, h.b, m)
      <4>1. CASE h.aw = None
        BY <2>7, <3>4, <4>1
      <4>2. CASE h.aw # None
        <5>1. PICK d : d = [id |-> h.aw, addr |-> t + 1]
          OBVIOUS
        <5>2. d \in Address
          BY <2>2, <4>2, <5>1 DEF Address
        <5>3. PICK u \in Nat : u = Len(bus.aw) /\ DOMAIN bus.aw = 1 .. u
          BY <3>1
        <5>4. IsOneMore(b2.aw, bus.aw, d, u)
          BY <2>7, <3>1, <4>2, <5>1, <5>2, <5>3, OneMoreFacts
        <5>5. m \in 1 .. u /\ bus.aw[m].id = h.b /\ \A i \in 1 .. u : bus.aw[i].id = h.b => m <= i
          BY <3>4, <5>3 DEF IsFirst
        <5>6. m \in 1 .. u + 1 /\ m <= u + 1
          BY <5>5
        <5>7. \A i \in 1 .. u + 1 : i = u + 1 \/ i \in 1 .. u
          OBVIOUS
        <5> QED
          BY <5>4, <5>5, <5>6, <5>7 DEF IsOneMore, IsFirst
      <4> QED
        BY <4>1, <4>2
    <3> QED
      BY <3>5, <3>6
  <2>9. PICK b3, a3 : b3 = Responded(b2, h, t + 1) /\ a3 = MatchResponse(a2, h)
    OBVIOUS
  <2>10. Follows(b3, a3, t + 1, t + 1) /\ WritesFollow(b3, a3, t + 1)
    BY <2>2, <2>6, <2>8, <2>9, ResponseFollows, ResponseWrites
  <2>11. /\ Follows(Read(b3, h, t + 1), Sample(TakeReadData(AddRead(a3, h), h)), t + 1, t + 1)
         /\ WritesFollow(Read(b3, h, t + 1), Sample(TakeReadData(AddRead(a3, h), h)), t + 1)
    BY <2>10, ReadFollows
  <2>12. bus' = Read(b3, h, t + 1) /\ an' = Sample(TakeReadData(AddRead(a3, h), h))
    BY <1>1, <1>4, <2>3, <2>5, <2>9 DEF BusAfter, Processed
  <2> QED
    BY <1>1, <2>11, <2>12
<1> QED
  BY <1>3, <1>4

\* std::sort: the same entries in another order.  Each place has as many before it, by
\* the key, as no other place has.
IsSorting(p, r, s, n) ==
  /\ p \in [1 .. n -> 1 .. n] /\ \A k, l \in 1 .. n : p[k] = p[l] => k = l
  /\ r = [k \in 1 .. n |-> s[p[k]]]
InKeyOrder(p, key, n) == \A k, l \in 1 .. n : k < l => key[p[k]] <= key[p[l]]
LEMMA SortedFacts ==
  ASSUME NEW S, NEW s \in Seq(S), NEW n \in Nat, n = Len(s), NEW key \in [1 .. n -> Int]
  PROVE  \E p : IsSorting(p, SortedBy(s, key), s, n) /\ InKeyOrder(p, key, n)
<1>1. DOMAIN s = 1 .. n /\ DOMAIN key = 1 .. n
  OBVIOUS
<1>2. PICK up : up = [i \in 1 .. n |-> UpToPlace(key, i)]
  OBVIOUS
<1>3. \A i \in 1 .. n : up[i] = {j \in 1 .. n : key[j] < key[i] \/ (key[j] = key[i] /\ j <= i)}
  BY <1>1, <1>2 DEF UpToPlace
<1>4. Lists!IsFiniteSet(1 .. n) /\ Lists!Cardinality(1 .. n) = n
  <2>1. 1 \in Int /\ n \in Int /\ (IF 1 > n THEN 0 ELSE n - 1 + 1) = n
    OBVIOUS
  <2> QED
    BY <2>1, Lists!FS_Interval
<1>5. ASSUME NEW i \in 1 .. n PROVE Lists!IsFiniteSet(up[i]) /\ Lists!Cardinality(up[i]) \in 1 .. n
  <2>1. up[i] \in SUBSET (1 .. n) /\ i \in up[i]
    BY <1>3
  <2>2. Lists!IsFiniteSet(up[i]) /\ Lists!Cardinality(up[i]) <= n
    BY <1>4, <2>1, Lists!FS_Subset
  <2>3. Lists!Cardinality(up[i]) \in Nat /\ Lists!Cardinality(up[i]) # 0
    BY <2>1, <2>2, Lists!FS_CardinalityType, Lists!FS_EmptySet
  <2> QED
    BY <2>2, <2>3
<1>6. ASSUME NEW i \in 1 .. n, NEW j \in 1 .. n, key[i] < key[j] \/ (key[i] = key[j] /\ i < j)
      PROVE  Lists!Cardinality(up[i]) # Lists!Cardinality(up[j]) /\ Lists!Cardinality(up[i]) <= Lists!Cardinality(up[j])
  <2>1. \A l \in 1 .. n : key[l] \in Int
    OBVIOUS
  <2>2. ASSUME NEW l \in up[i] PROVE l \in up[j]
    <3>1. l \in 1 .. n /\ (key[l] < key[i] \/ (key[l] = key[i] /\ l <= i))
      BY <1>3, <2>2
    <3>2. key[l] < key[j] \/ (key[l] = key[j] /\ l <= j)
      BY <1>6, <2>1, <3>1
    <3> QED
      BY <1>3, <3>1, <3>2
  <2>3. j \in up[j] /\ j \notin up[i]
    <3>1. ~(key[j] < key[i] \/ (key[j] = key[i] /\ j <= i))
      BY <1>6, <2>1
    <3> QED
      BY <1>3, <3>1
  <2>4. up[i] \in SUBSET up[j] /\ up[i] # up[j]
    BY <2>2, <2>3
  <2> QED
    BY <1>5, <2>4, Lists!FS_Subset
<1>7. PICK rank : rank = [i \in 1 .. n |-> Lists!Cardinality(up[i])]
  OBVIOUS
<1>8. rank \in Lists!Injection(1 .. n, 1 .. n)
  <2>1. rank \in [1 .. n -> 1 .. n]
    BY <1>5, <1>7
  <2>2. ASSUME NEW i \in 1 .. n, NEW j \in 1 .. n, i # j PROVE rank[i] # rank[j]
    <3>1. key[i] \in Int /\ key[j] \in Int
      OBVIOUS
    <3>2. (key[i] < key[j] \/ (key[i] = key[j] /\ i < j)) \/ (key[j] < key[i] \/ (key[j] = key[i] /\ j < i))
      BY <2>2, <3>1
    <3> QED
      BY <1>6, <1>7, <3>2
  <2> QED
    BY <2>1, <2>2 DEF Lists!Injection, Lists!IsInjective
<1>9. rank \in Lists!Surjection(1 .. n, 1 .. n)
  BY <1>4, <1>8, Lists!FS_Injection
<1>10. \A k \in 1 .. n : \E i \in 1 .. n : Lists!Cardinality(up[i]) = k
  BY <1>7, <1>9 DEF Lists!Surjection
<1>11. PICK p : p = [k \in 1 .. n |-> CHOOSE i \in 1 .. n : Lists!Cardinality(up[i]) = k]
  OBVIOUS
<1>12. \A k \in 1 .. n : p[k] \in 1 .. n /\ Lists!Cardinality(up[p[k]]) = k
  BY <1>10, <1>11
<1>13. SortedBy(s, key) = [k \in 1 .. n |-> s[p[k]]]
  <2>1. ASSUME NEW k PROVE (CHOOSE i \in 1 .. n : Cardinality(UpToPlace(key, i)) = k)
                             = CHOOSE i \in 1 .. n : Lists!Cardinality(up[i]) = k
    <3>1. \A i \in 1 .. n : Cardinality(UpToPlace(key, i)) = Lists!Cardinality(up[i])
      BY <1>2 DEF Cardinality, Lists!Cardinality
    <3> QED
      BY <3>1
  <2>2. SortedBy(s, key) = [k \in 1 .. n |-> s[CHOOSE i \in 1 .. n : Cardinality(UpToPlace(key, i)) = k]]
    BY <1>1 DEF SortedBy
  <2>3. PICK q : q = [k \in 1 .. n |-> CHOOSE i \in 1 .. n : Cardinality(UpToPlace(key, i)) = k]
    OBVIOUS
  <2>4. ASSUME NEW k \in 1 .. n PROVE q[k] = p[k]
    <3>1. q[k] = CHOOSE i \in 1 .. n : Cardinality(UpToPlace(key, i)) = k
      BY <2>3
    <3>2. p[k] = CHOOSE i \in 1 .. n : Lists!Cardinality(up[i]) = k
      BY <1>11
    <3> QED
      BY <2>1, <3>1, <3>2
  <2>5. SortedBy(s, key) = [k \in 1 .. n |-> s[q[k]]]
    BY <2>2, <2>3
  <2> QED
    BY <2>4, <2>5
<1>14. p \in [1 .. n -> 1 .. n]
  <2>1. DOMAIN p = 1 .. n /\ \A k \in 1 .. n : p[k] \in 1 .. n
    BY <1>11, <1>12
  <2> QED
    BY <1>11, <2>1
<1>15. \A k, l \in 1 .. n : p[k] = p[l] => k = l
  BY <1>12
<1>16. ASSUME NEW k \in 1 .. n, NEW l \in 1 .. n, k < l PROVE key[p[k]] <= key[p[l]]
  <2>1. PICK i, j : i = p[l] /\ j = p[k]
    OBVIOUS
  <2>2. i \in 1 .. n /\ j \in 1 .. n /\ Lists!Cardinality(up[i]) = l /\ Lists!Cardinality(up[j]) = k
    BY <1>12, <2>1
  <2>3. key[i] \in Int /\ key[j] \in Int /\ ~(l <= k)
    BY <1>16, <2>2
  <2>4. ~(key[i] < key[j])
    BY <1>6, <2>2, <2>3
  <2> QED
    BY <2>1, <2>3, <2>4
<1>17. InKeyOrder(p, key, n)
  BY <1>16 DEF InKeyOrder
<1> QED
  BY <1>13, <1>14, <1>15, <1>17 DEF IsSorting

\* The end of the waveform sorts the writes.
LEMMA SortKeepsReported ==
  ASSUME NEW writes, NEW wrote, IsReported(writes, wrote)
  PROVE  IsReported(SortedByAddr(writes), wrote)
<1>1. PICK n \in Nat : n = Len(writes) /\ DOMAIN writes = 1 .. n /\ writes \in Seq(Txn)
  BY DEF IsReported
<1>2. PICK key : key = [i \in 1 .. n |-> writes[i].addr]
  OBVIOUS
<1>3. key \in [1 .. n -> Int]
  <2>1. \A i \in 1 .. n : writes[i] \in Txn
    BY <1>1
  <2>2. \A i \in 1 .. n : writes[i].addr \in Nat
    BY <2>1 DEF Txn
  <2>3. \A i \in 1 .. n : writes[i].addr \in Int
    BY <2>2
  <2> QED
    BY <1>2, <2>3
<1>4. PICK p : IsSorting(p, SortedBy(writes, key), writes, n)
  BY <1>1, <1>3, SortedFacts
<1>5. PICK w : w = SortedByAddr(writes) /\ w = [k \in 1 .. n |-> writes[p[k]]]
  BY <1>1, <1>2, <1>4 DEF SortedByAddr, IsSorting
<1>6. \A k \in 1 .. n : p[k] \in 1 .. n /\ w[k] = writes[p[k]]
  BY <1>4, <1>5 DEF IsSorting
<1>7. w \in Seq(Txn) /\ DOMAIN w = 1 .. n
  <2>1. \A k \in 1 .. n : w[k] \in Txn
    BY <1>1, <1>6
  <2> QED
    BY <1>5, <2>1
<1>8. ASSUME NEW i \in 1 .. n PROVE \E d \in wrote : Made(d, w[i].id, w[i].addr, w[i].beats, w[i].resp)
  <2>1. PICK m \in 1 .. n : w[i] = writes[m]
    BY <1>6
  <2> QED
    BY <1>1, <2>1 DEF IsReported
<1>9. ASSUME NEW i \in 1 .. n, NEW j \in 1 .. n, w[i].addr = w[j].addr PROVE i = j
  <2>1. PICK l \in 1 .. n, m \in 1 .. n : l = p[i] /\ m = p[j] /\ w[i] = writes[l] /\ w[j] = writes[m]
    BY <1>6
  <2>2. l = m
    BY <1>1, <1>9, <2>1 DEF IsReported
  <2>3. \A k1, k2 \in 1 .. n : p[k1] = p[k2] => k1 = k2
    BY <1>4 DEF IsSorting
  <2> QED
    BY <2>1, <2>2, <2>3
<1> QED
  BY <1>5, <1>7, <1>8, <1>9 DEF IsReported

\* std::sort keeps the type of its vector.
LEMMA SortTyped ==
  ASSUME NEW S, NEW s \in Seq(S), NEW key \in [DOMAIN s -> Int]
  PROVE  SortedBy(s, key) \in Seq(S)
<1>1. PICK n \in Nat : n = Len(s) /\ DOMAIN s = 1 .. n
  OBVIOUS
<1>2. PICK p : IsSorting(p, SortedBy(s, key), s, n)
  BY <1>1, SortedFacts
<1>3. PICK r : r = SortedBy(s, key) /\ r = [k \in 1 .. n |-> s[p[k]]]
  BY <1>2 DEF IsSorting
<1>4. \A k \in 1 .. n : p[k] \in 1 .. n
  BY <1>2 DEF IsSorting
<1>5. \A k \in 1 .. n : s[p[k]] \in S
  BY <1>1, <1>4
<1> QED
  BY <1>3, <1>5

\* So do the sort by address time ...
LEMMA SortedByAddrTyped ==
  ASSUME NEW s \in Seq(Transaction)
  PROVE  SortedByAddr(s) \in Seq(Transaction)
<1>1. PICK key : key = [i \in DOMAIN s |-> s[i].addr]
  OBVIOUS
<1>2. \A i \in DOMAIN s : s[i] \in Transaction
  OBVIOUS
<1>3. \A i \in DOMAIN s : s[i].addr \in Nat
  BY <1>2 DEF Transaction
<1>4. \A i \in DOMAIN s : s[i].addr \in Int
  BY <1>3
<1>5. key \in [DOMAIN s -> Int]
  BY <1>1, <1>4
<1> QED
  BY <1>1, <1>5, SortTyped DEF SortedByAddr

\* ... and the index by response time.
LEMMA ByRespTyped ==
  ASSUME NEW s \in Seq(Transaction)
  PROVE  ByResp(s) \in Seq(Nat)
<1>1. PICK key : key = [i \in DOMAIN s |-> s[i].resp]
  OBVIOUS
<1>2. \A i \in DOMAIN s : s[i] \in Transaction
  OBVIOUS
<1>3. \A i \in DOMAIN s : s[i].resp \in Nat
  BY <1>2 DEF Transaction
<1>4. \A i \in DOMAIN s : s[i].resp \in Int
  BY <1>3
<1>5. PICK places : places = [i \in DOMAIN s |-> i]
  OBVIOUS
<1>6. places \in Seq(Nat) /\ DOMAIN places = DOMAIN s
  BY <1>5
<1>7. key \in [DOMAIN places -> Int]
  BY <1>1, <1>4, <1>6
<1> QED
  BY <1>1, <1>5, <1>6, <1>7, SortTyped DEF ByResp

\* A result is no None: an analysis that is finished stays so.
LEMMA ResultIsSome ==
  ASSUME NEW writes, NEW wrote, IsReported(writes, wrote), NEW reads \in Seq(Transaction),
         NEW all, all = SortedByAddr(writes \o reads)
  PROVE  [all |-> all, byResp |-> ByResp(all)] # None
<1>1. writes \in Seq(Transaction)
  <2>1. \A x \in Txn : x \in Transaction
    BY DEF Txn, Transaction
  <2>2. writes \in Seq(Txn)
    BY DEF IsReported
  <2> QED
    BY <2>1, <2>2
<1>2. writes \o reads \in Seq(Transaction)
  BY <1>1
<1>3. all \in Seq(Transaction) /\ ByResp(all) \in Seq(Nat)
  BY <1>2, SortedByAddrTyped, ByRespTyped
<1>4. PICK by : by = ByResp(all) /\ by \in Seq(Nat)
  BY <1>3
<1>5. PICK V : V = Seq(Transaction) \cup Seq(Nat)
  OBVIOUS
<1>6. all \in V /\ by \in V
  BY <1>3, <1>4, <1>5
<1>7. [all |-> all, byResp |-> by] \in [{"all", "byResp"} -> V]
  BY <1>6
<1> QED
  BY <1>4, <1>5, <1>7, EdgeAssumption

\* The property from the invariant: as many addresses as reported writes.
LEMMA ReportedAreTrue ==
  ASSUME IsReported(an.writes, bus.wrote)
  PROVE  WritesAreTrue
<1>1. PICK n \in Nat : n = Len(an.writes) /\ DOMAIN an.writes = 1 .. n
  BY DEF IsReported
<1>2. ASSUME NEW w \in ToSet(an.writes)
      PROVE  \E d \in bus.wrote : d.addr = w.addr /\ d.id = w.id /\ d.beats = w.beats /\ d.resp <= w.resp
  <2>1. PICK i \in DOMAIN an.writes : an.writes[i] = w
    BY DEF ToSet
  <2> QED
    BY <2>1 DEF IsReported, Made
<1>3. Cardinality({w.addr : w \in ToSet(an.writes)}) = Len(an.writes)
  <2>1. PICK A : A = {w.addr : w \in ToSet(an.writes)}
    OBVIOUS
  <2>2. PICK f : f = [i \in 1 .. n |-> an.writes[i].addr]
    OBVIOUS
  <2>3. \A i \in 1 .. n : f[i] \in A
    BY <1>1, <2>1, <2>2 DEF ToSet
  <2>4. \A a \in A : \E i \in 1 .. n : f[i] = a
    BY <1>1, <2>1, <2>2 DEF ToSet
  <2>5. \A i, j \in 1 .. n : f[i] = f[j] => i = j
    BY <1>1, <2>2 DEF IsReported
  <2>6. f \in [1 .. n -> A]
    BY <2>2, <2>3
  <2>7. f \in Lists!Bijection(1 .. n, A)
    BY <2>4, <2>5, <2>6 DEF Lists!Bijection, Lists!Injection, Lists!Surjection, Lists!IsInjective
  <2>8. Lists!IsFiniteSet(1 .. n) /\ Lists!Cardinality(1 .. n) = n
    <3>1. 1 \in Int /\ n \in Int /\ (IF 1 > n THEN 0 ELSE n - 1 + 1) = n
      OBVIOUS
    <3> QED
      BY <3>1, Lists!FS_Interval
  <2>9. Lists!Cardinality(A) = n
    BY <2>7, <2>8, Lists!FS_Bijection DEF Lists!ExistsBijection
  <2>10. Cardinality(A) = Lists!Cardinality(A)
    BY DEF Cardinality, Lists!Cardinality
  <2> QED
    BY <1>1, <2>1, <2>9, <2>10
<1> QED
  BY <1>2, <1>3 DEF WritesAreTrue

\* The sort by address time: the reported transactions, in the order of their
\* addresses.
LEMMA SortedAreAll ==
  ASSUME NEW done, NEW did, AreAll(done, did)
  PROVE  AreAll(SortedByAddr(done), did) /\ InTurn(SortedByAddr(done))
<1>1. PICK n \in Nat : n = Len(done) /\ DOMAIN done = 1 .. n /\ done \in Seq(Transaction)
  BY DEF AreAll
<1>2. PICK key : key = [i \in 1 .. n |-> done[i].addr]
  OBVIOUS
<1>3. \A i \in 1 .. n : done[i].addr \in Nat
  <2>1. \A i \in 1 .. n : done[i] \in Transaction
    BY <1>1
  <2> QED
    BY <2>1 DEF Transaction
<1>4. key \in [1 .. n -> Int]
  <2>1. \A i \in 1 .. n : done[i].addr \in Int
    BY <1>3
  <2> QED
    BY <1>2, <2>1
<1>5. PICK p : IsSorting(p, SortedBy(done, key), done, n) /\ InKeyOrder(p, key, n)
  BY <1>1, <1>4, SortedFacts
<1>6. PICK w : w = SortedByAddr(done) /\ w = [k \in 1 .. n |-> done[p[k]]]
  BY <1>1, <1>2, <1>5 DEF SortedByAddr, IsSorting
<1>7. \A k \in 1 .. n : p[k] \in 1 .. n /\ w[k] = done[p[k]]
  BY <1>5, <1>6 DEF IsSorting
<1>8. w \in Seq(Transaction) /\ DOMAIN w = 1 .. n
  <2>1. \A k \in 1 .. n : w[k] \in Transaction
    BY <1>1, <1>7
  <2> QED
    BY <1>6, <2>1
<1>9. \A k, l \in 1 .. n : p[k] = p[l] => k = l
  BY <1>5 DEF IsSorting
<1>10. \A i, j \in 1 .. n : done[i].addr = done[j].addr => i = j
  BY <1>1 DEF AreAll
<1>11. ASSUME NEW i \in 1 .. n, NEW j \in 1 .. n, w[i].addr = w[j].addr PROVE i = j
  <2>1. PICK l \in 1 .. n, m \in 1 .. n : l = p[i] /\ m = p[j] /\ w[i] = done[l] /\ w[j] = done[m]
    BY <1>7
  <2>2. l = m
    BY <1>10, <1>11, <2>1
  <2> QED
    BY <1>9, <2>1, <2>2
<1>12. ASSUME NEW i \in 1 .. n, NEW j \in 1 .. n, i < j PROVE w[i].addr < w[j].addr
  <2>1. PICK l \in 1 .. n, m \in 1 .. n : l = p[i] /\ m = p[j] /\ w[i] = done[l] /\ w[j] = done[m]
    BY <1>7
  <2>2. key[l] <= key[m]
    BY <1>5, <1>12, <2>1 DEF InKeyOrder
  <2>3. key[l] = w[i].addr /\ key[m] = w[j].addr /\ w[i].addr \in Nat /\ w[j].addr \in Nat
    BY <1>2, <1>3, <2>1
  <2>4. w[i].addr # w[j].addr
    BY <1>11, <1>12
  <2> QED
    BY <2>2, <2>3, <2>4
<1>13. \A i \in 1 .. n : w[i] \in did /\ w[i].addr <= w[i].resp
  BY <1>1, <1>7 DEF AreAll
<1>14. ASSUME NEW d \in did PROVE \E i \in 1 .. n : w[i] = d
  <2>1. PICK m \in 1 .. n : done[m] = d
    BY <1>1 DEF AreAll
  <2>2. 1 .. n \in SUBSET Nat /\ p \in [1 .. n -> 1 .. n]
    BY <1>5 DEF IsSorting
  <2>3. p \in Lists!Surjection(1 .. n, 1 .. n)
    <3>1. p \in Lists!Injection(1 .. n, 1 .. n)
      BY <1>9, <2>2 DEF Lists!Injection, Lists!IsInjective
    <3>2. Lists!IsFiniteSet(1 .. n)
      <4>1. 1 \in Int /\ n \in Int
        OBVIOUS
      <4> QED
        BY <4>1, Lists!FS_Interval
    <3> QED
      BY <3>1, <3>2, Lists!FS_Injection
  <2>4. PICK i \in 1 .. n : p[i] = m
    BY <2>3 DEF Lists!Surjection
  <2> QED
    BY <1>7, <2>1, <2>4
<1>15. AreAll(w, did)
  BY <1>8, <1>11, <1>13, <1>14 DEF AreAll
<1>16. InTurn(w)
  BY <1>8, <1>12 DEF InTurn
<1> QED
  BY <1>6, <1>15, <1>16
================================================================================
