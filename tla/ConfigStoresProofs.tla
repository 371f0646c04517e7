-------------------------- MODULE ConfigStoresProofs --------------------------
(***************************************************************************)
(* The stores of a session, for any number of commands, names, lists and   *)
(* configurations.                                                         *)
(***************************************************************************)
EXTENDS ConfigStores, RegistryDocProofs, SequenceTheorems

(***************************************************************************)
(* Edits of a list of entries.                                             *)
(***************************************************************************)
Unique(doc) == \A i, j \in DOMAIN doc : doc[i].name = doc[j].name => i = j

LEMMA MinFacts ==
  ASSUME NEW n \in Nat, NEW I \in SUBSET (1 .. n), I # {}
  PROVE  Min(I) \in I /\ \A i \in I : Min(I) <= i
BY HasEnds DEF Min

LEMMA AtFacts ==
  ASSUME NEW E, NEW doc \in Seq(E), NEW name
  PROVE  /\ Has(doc, name) <=> \E i \in DOMAIN doc : doc[i].name = name
         /\ Has(doc, name) => At(doc, name) \in DOMAIN doc /\ doc[At(doc, name)].name = name
         /\ Unique(doc) => \A i \in DOMAIN doc : doc[i].name = name => At(doc, name) = i
<1> DEFINE I == {i \in 1 .. Len(doc) : doc[i].name = name}
<1>1. Len(doc) \in Nat /\ DOMAIN doc = 1 .. Len(doc) /\ I \in SUBSET (1 .. Len(doc))
  OBVIOUS
<1>2. I # {} => Min(I) \in I
  <2> HIDE DEF I
  <2> QED
    BY <1>1, MinFacts
<1>3. At(doc, name) = IF I # {} THEN Min(I) ELSE 0
  BY DEF At, SelectInSeq
<1>4. Has(doc, name) <=> I # {}
  <2> HIDE DEF I
  <2> QED
    BY <1>1, <1>2, <1>3 DEF Has
<1> QED
  BY <1>1, <1>2, <1>3, <1>4 DEF Unique

LEMMA RemoveAtFacts ==
  ASSUME NEW E, NEW s \in Seq(E), NEW i \in 1 .. Len(s)
  PROVE  /\ RemoveAt(s, i) \in Seq(E)
         /\ Len(RemoveAt(s, i)) = Len(s) - 1
         /\ \A k \in 1 .. Len(s) - 1 : RemoveAt(s, i)[k] = IF k < i THEN s[k] ELSE s[k + 1]
<1> DEFINE a == SubSeq(s, 1, i - 1)
           b == SubSeq(s, i + 1, Len(s))
<1>1. a \in Seq(E) /\ Len(a) = i - 1 /\ \A k \in 1 .. i - 1 : a[k] = s[k]
  OBVIOUS
<1>2. b \in Seq(E) /\ Len(b) = Len(s) - i /\ \A k \in 1 .. Len(s) - i : b[k] = s[i + k]
  OBVIOUS
<1>3. RemoveAt(s, i) = a \o b /\ Len(s) \in Nat /\ i \in Nat
  BY DEF RemoveAt
<1>4. PICK n \in Nat : n = Len(s)
  BY <1>3
<1> HIDE DEF a, b
<1>5. a \o b \in Seq(E) /\ Len(a \o b) = (i - 1) + (n - i)
  <2>1. a \o b \in Seq(E) /\ Len(a \o b) = Len(a) + Len(b)
    BY <1>1, <1>2, ConcatProperties
  <2> QED
    BY <1>1, <1>2, <1>4, <2>1
<1>6. Len(a \o b) = n - 1
  BY <1>3, <1>4, <1>5
<1>7. ASSUME NEW k \in 1 .. n - 1 PROVE (a \o b)[k] = IF k < i THEN s[k] ELSE s[k + 1]
  <2>1. k \in 1 .. Len(a) + Len(b)
    BY <1>1, <1>2, <1>3, <1>4
  <2>2. (a \o b)[k] = IF k <= Len(a) THEN a[k] ELSE b[k - Len(a)]
    BY <1>1, <1>2, <2>1, ConcatProperties
  <2>3. CASE k < i
    BY <1>1, <1>3, <1>4, <2>2, <2>3
  <2>4. CASE ~(k < i)
    <3>1. k - Len(a) \in 1 .. Len(s) - i /\ i + (k - Len(a)) = k + 1 /\ ~(k <= Len(a))
      BY <1>1, <1>3, <1>4, <2>4
    <3> QED
      BY <1>2, <2>2, <2>4, <3>1
  <2> QED
    BY <2>3, <2>4
<1> QED
  BY <1>3, <1>4, <1>5, <1>6, <1>7

(***************************************************************************)
(* Lists with one entry for each name; B are the bodies an entry may have. *)
(***************************************************************************)
EntriesOf(B) == [name : Names, body : B]

\* SameBut(w, doc, name): w has the entries of doc, whatever there is of name.
SameBut(w, doc, name) ==
  \A n : n # name => (Has(w, n) <=> Has(doc, n)) /\ (Has(doc, n) => BodyOf(w, n) = BodyOf(doc, n))

\* The entry of a name is the one that Has and BodyOf find.
LEMMA EntryFacts ==
  ASSUME NEW B, NEW doc \in Seq(EntriesOf(B)), Unique(doc)
  PROVE  /\ \A i \in DOMAIN doc : Has(doc, doc[i].name) /\ BodyOf(doc, doc[i].name) = doc[i].body
         /\ \A n : Has(doc, n) => BodyOf(doc, n) \in B
                                  /\ \E i \in DOMAIN doc : doc[i].name = n /\ doc[i].body = BodyOf(doc, n)
<1>1. \A i \in DOMAIN doc : doc[i] \in EntriesOf(B)
  OBVIOUS
<1>2. ASSUME NEW i \in DOMAIN doc PROVE Has(doc, doc[i].name) /\ At(doc, doc[i].name) = i
  BY AtFacts
<1>3. ASSUME NEW n, Has(doc, n) PROVE At(doc, n) \in DOMAIN doc /\ doc[At(doc, n)].name = n
  BY <1>3, AtFacts
<1> QED
  BY <1>1, <1>2, <1>3 DEF BodyOf, EntriesOf

\* Two lists of which each entry of one is an entry of the other, but for a name.
LEMMA SameButFacts ==
  ASSUME NEW B, NEW doc \in Seq(EntriesOf(B)), Unique(doc), NEW w \in Seq(EntriesOf(B)), Unique(w), NEW name,
         \A i \in DOMAIN w : w[i].name # name => \E j \in DOMAIN doc : doc[j] = w[i],
         \A j \in DOMAIN doc : doc[j].name # name => \E i \in DOMAIN w : doc[j] = w[i]
  PROVE  SameBut(w, doc, name)
<1> SUFFICES ASSUME NEW n, n # name
             PROVE  (Has(w, n) <=> Has(doc, n)) /\ (Has(doc, n) => BodyOf(w, n) = BodyOf(doc, n))
  BY DEF SameBut
<1>1. ASSUME Has(w, n) PROVE Has(doc, n)
  <2>1. PICK i \in DOMAIN w : w[i].name = n
    BY <1>1, EntryFacts
  <2> QED
    BY <2>1, EntryFacts
<1>2. ASSUME Has(doc, n) PROVE Has(w, n) /\ BodyOf(w, n) = BodyOf(doc, n)
  <2>1. PICK j \in DOMAIN doc : doc[j].name = n /\ doc[j].body = BodyOf(doc, n)
    BY <1>2, EntryFacts
  <2>2. PICK i \in DOMAIN w : w[i] = doc[j]
    BY <2>1
  <2>3. Has(w, w[i].name) /\ BodyOf(w, w[i].name) = w[i].body
    BY EntryFacts
  <2> QED
    BY <2>1, <2>2, <2>3
<1> QED
  BY <1>1, <1>2

LEMMA AppendEntryFacts ==
  ASSUME NEW B, NEW doc \in Seq(EntriesOf(B)), Unique(doc), NEW e \in EntriesOf(B), ~Has(doc, e.name)
  PROVE  LET w == Append(doc, e) IN
         /\ w \in Seq(EntriesOf(B)) /\ Unique(w)
         /\ w # << >> /\ Last(w) = e
         /\ Has(w, e.name) /\ BodyOf(w, e.name) = e.body
         /\ SameBut(w, doc, e.name)
<1> DEFINE w == Append(doc, e)
<1>1. w \in Seq(EntriesOf(B)) /\ Len(w) = Len(doc) + 1 /\ w # << >>
  <2>1. w \in Seq(EntriesOf(B)) /\ Len(w) = Len(doc) + 1 /\ Len(doc) \in Nat
    OBVIOUS
  <2> HIDE DEF w
  <2>2. Len(w) # 0
    BY <2>1
  <2> QED
    BY <2>1, <2>2, EmptySeq
<1>2. /\ Len(doc) + 1 \in DOMAIN w /\ w[Len(doc) + 1] = e
      /\ \A i \in DOMAIN doc : i \in DOMAIN w /\ w[i] = doc[i]
      /\ \A i \in DOMAIN w : i \in DOMAIN doc \/ i = Len(doc) + 1
  OBVIOUS
<1>3. \A i \in DOMAIN doc : doc[i].name # e.name
  BY AtFacts
<1>4. Last(w) = e
  BY <1>1, <1>2 DEF Last
<1> HIDE DEF w
<1>5. Unique(w)
  BY <1>2, <1>3 DEF Unique
<1>6. Has(w, e.name) /\ BodyOf(w, e.name) = e.body
  BY <1>1, <1>2, <1>5, EntryFacts
<1>7. SameBut(w, doc, e.name)
  BY <1>1, <1>2, <1>5, SameButFacts
<1> QED
  BY <1>1, <1>4, <1>5, <1>6, <1>7 DEF w

LEMMA RemoveEntryFacts ==
  ASSUME NEW B, NEW doc \in Seq(EntriesOf(B)), Unique(doc), NEW name, Has(doc, name)
  PROVE  LET w == RemoveAt(doc, At(doc, name)) IN
         w \in Seq(EntriesOf(B)) /\ Unique(w) /\ ~Has(w, name) /\ SameBut(w, doc, name)
<1> DEFINE w == RemoveAt(doc, At(doc, name))
<1>1. PICK i \in DOMAIN doc : i = At(doc, name) /\ doc[i].name = name
  BY AtFacts
<1>2. DOMAIN doc = 1 .. Len(doc) /\ Len(doc) \in Nat /\ i \in 1 .. Len(doc)
  OBVIOUS
<1>3. /\ w \in Seq(EntriesOf(B)) /\ Len(w) = Len(doc) - 1
      /\ \A k \in 1 .. Len(doc) - 1 : w[k] = IF k < i THEN doc[k] ELSE doc[k + 1]
  BY <1>1, <1>2, RemoveAtFacts
<1> HIDE DEF w
<1>4. DOMAIN w = 1 .. Len(doc) - 1
  BY <1>3
<1> DEFINE Old(k) == IF k < i THEN k ELSE k + 1
<1>5. \A k \in DOMAIN w : Old(k) \in DOMAIN doc /\ Old(k) # i /\ w[k] = doc[Old(k)]
  BY <1>2, <1>3, <1>4
<1>6. \A k, l \in DOMAIN w : Old(k) = Old(l) => k = l
  BY <1>2, <1>4
<1>7. \A j \in DOMAIN doc : j # i => \E k \in DOMAIN w : Old(k) = j
  <2> SUFFICES ASSUME NEW j \in DOMAIN doc, j # i PROVE \E k \in DOMAIN w : Old(k) = j
    OBVIOUS
  <2>1. CASE j < i
    <3> j \in DOMAIN w /\ Old(j) = j
      BY <1>2, <1>4, <2>1
    <3> QED
      OBVIOUS
  <2>2. CASE ~(j < i)
    <3> j - 1 \in DOMAIN w /\ Old(j - 1) = j
      BY <1>2, <1>4, <2>2
    <3> QED
      OBVIOUS
  <2> QED
    BY <2>1, <2>2
<1> HIDE DEF Old
<1>8. Unique(w)
  BY <1>5, <1>6 DEF Unique
<1>9. \A k \in DOMAIN w : w[k].name # name
  BY <1>1, <1>5 DEF Unique
<1>10. ~Has(w, name)
  BY <1>3, <1>9, AtFacts
<1>11. SameBut(w, doc, name)
  <2>1. \A k \in DOMAIN w : \E j \in DOMAIN doc : doc[j] = w[k]
    BY <1>5
  <2>2. \A j \in DOMAIN doc : doc[j].name # name => \E k \in DOMAIN w : doc[j] = w[k]
    BY <1>1, <1>5, <1>7
  <2> QED
    BY <1>3, <1>8, <2>1, <2>2, SameButFacts
<1> QED
  BY <1>3, <1>8, <1>10, <1>11 DEF w

LEMMA ToBackFacts ==
  ASSUME NEW B, NEW doc \in Seq(EntriesOf(B)), Unique(doc), NEW name \in Names, Has(doc, name), NEW body \in B
  PROVE  LET w == ToBack(doc, name, body) IN
         /\ w \in Seq(EntriesOf(B)) /\ Unique(w)
         /\ w # << >> /\ Last(w).name = name
         /\ Has(w, name) /\ BodyOf(w, name) = body
         /\ SameBut(w, doc, name)
<1>1. PICK r : r = RemoveAt(doc, At(doc, name))
  OBVIOUS
<1>2. PICK e \in EntriesOf(B) : e = Entry(name, body) /\ e.name = name /\ e.body = body
  <2>1. Entry(name, body) \in EntriesOf(B) /\ Entry(name, body).name = name /\ Entry(name, body).body = body
    BY DEF EntriesOf, Entry
  <2> QED
    BY <2>1
<1>3. r \in Seq(EntriesOf(B)) /\ Unique(r) /\ ~Has(r, name) /\ SameBut(r, doc, name)
  BY <1>1, RemoveEntryFacts
<1>4. PICK w : w = Append(r, e) /\ w = ToBack(doc, name, body)
  BY <1>1, <1>2 DEF ToBack
<1>5. /\ w \in Seq(EntriesOf(B)) /\ Unique(w)
      /\ w # << >> /\ Last(w) = e
      /\ Has(w, name) /\ BodyOf(w, name) = body
      /\ SameBut(w, r, name)
  <2>1. ~Has(r, e.name)
    BY <1>2, <1>3
  <2>2. LET v == Append(r, e) IN
        /\ v \in Seq(EntriesOf(B)) /\ Unique(v)
        /\ v # << >> /\ Last(v) = e
        /\ Has(v, e.name) /\ BodyOf(v, e.name) = e.body
        /\ SameBut(v, r, e.name)
    BY <1>3, <2>1, AppendEntryFacts
  <2> QED
    BY <1>2, <1>4, <2>2
<1>6. SameBut(w, doc, name)
  BY <1>3, <1>5 DEF SameBut
<1>7. Last(w).name = name
  BY <1>2, <1>5
<1> QED
  BY <1>4, <1>5, <1>6, <1>7

LEMMA OthersFacts ==
  ASSUME NEW B, NEW doc \in Seq(EntriesOf(B)), Unique(doc), NEW name
  PROVE  LET w == Picked(doc, {i \in DOMAIN doc : doc[i].name # name}) IN
         w \in Seq(EntriesOf(B)) /\ Unique(w) /\ ~Has(w, name) /\ SameBut(w, doc, name)
<1>1. PICK Q \in SUBSET DOMAIN doc : Q = {i \in DOMAIN doc : doc[i].name # name}
  OBVIOUS
<1>2. PICK w : w = Picked(doc, Q)
  OBVIOUS
<1>3. /\ w \in Seq(EntriesOf(B))
      /\ \A k \in DOMAIN w : \E i \in Q : w[k] = doc[i]
      /\ \A i \in Q : \E k \in DOMAIN w : w[k] = doc[i]
      /\ \A k, l \in DOMAIN w : k # l => \E i, j \in Q : i # j /\ w[k] = doc[i] /\ w[l] = doc[j]
  BY <1>2, PickedFacts
<1>4. Unique(w)
  <2>1. ASSUME NEW k \in DOMAIN w, NEW l \in DOMAIN w, k # l PROVE w[k].name # w[l].name
    <3>1. PICK i \in Q, j \in Q : i # j /\ w[k] = doc[i] /\ w[l] = doc[j]
      BY <1>3, <2>1
    <3>2. i \in DOMAIN doc /\ j \in DOMAIN doc
      OBVIOUS
    <3> QED
      BY <3>1, <3>2 DEF Unique
  <2> QED
    BY <2>1 DEF Unique
<1>5. ~Has(w, name)
  <2>1. \A k \in DOMAIN w : w[k].name # name
    BY <1>1, <1>3
  <2>2. w \in Seq(EntriesOf(B))
    BY <1>3
  <2>3. Has(w, name) <=> \E k \in DOMAIN w : w[k].name = name
    BY <2>2, AtFacts
  <2> QED
    BY <2>1, <2>3
<1>6. SameBut(w, doc, name)
  BY <1>1, <1>3, <1>4, SameButFacts
<1> QED
  BY <1>1, <1>2, <1>3, <1>4, <1>5, <1>6

(***************************************************************************)
(* Edits of a signal list.                                                 *)
(***************************************************************************)
LEMMA DroppedFacts ==
  ASSUME NEW S, NEW body \in Seq(S), NEW signal, Contains(body, signal)
  PROVE  Dropped(body, signal) \in Seq(S)
<1> DEFINE I == {i \in 1 .. Len(body) : body[i] = signal}
           at == SelectInSeq(body, LAMBDA s : s = signal)
<1>1. Len(body) \in Nat /\ I \in SUBSET (1 .. Len(body)) /\ I # {}
  BY DEF Contains
<1>2. Min(I) \in I
  <2> HIDE DEF I
  <2> QED
    BY <1>1, MinFacts
<1>3. at = Min(I)
  BY <1>1 DEF SelectInSeq
<1>4. at \in 1 .. Len(body)
  BY <1>1, <1>2, <1>3
<1>5. Dropped(body, signal) = RemoveAt(body, at)
  BY DEF Dropped
<1> HIDE DEF at
<1> QED
  BY <1>4, <1>5, RemoveAtFacts

(***************************************************************************)
(* What a command may do, and what an edit returns.                        *)
(***************************************************************************)
LEMMA OpsFacts ==
  ASSUME NEW o \in Ops
  PROVE  /\ o.kind \in Kinds /\ o.name \in Names
         /\ o.kind \in {"add", "del"} => o.arg \in Signals
         /\ o.kind = "at" => o.arg \in 1 .. 2
         /\ o.kind \in {"apb", "event"} => o.arg \in Configs
         /\ o.kind \in {"new", "add", "del", "at"} => StoreOf(o.kind) = "lists"
         /\ o.kind = "apb" <=> StoreOf(o.kind) = "apb"
         /\ o.kind = "event" => StoreOf(o.kind) = "events"
         /\ StoreOf(o.kind) \in Stores
  BY DEF Ops, Kinds, StoreOf, Stores

\* The bodies of the entries of a store: signals that were looked up, unless a
\* probe was cut short, or one configuration.
Listed == IF unanswered THEN Signals ELSE Existing
Bodies(store) == IF store = "lists" THEN Seq(Listed) ELSE {<<c>> : c \in Configs}
Docs(store) == {doc \in Seq(EntriesOf(Bodies(store))) : Unique(doc)}

\* What the edit o makes of the body of its entry.
NewBody(o, doc) ==
  CASE o.kind = "new" -> << >>
    [] o.kind = "apb" -> <<o.arg>>
    [] o.kind = "event" -> <<o.arg>>
    [] o.kind = "add" -> Append(BodyOf(doc, o.name), o.arg)
    [] o.kind = "del" -> Dropped(BodyOf(doc, o.name), o.arg)
    [] o.kind = "at" -> RemoveAt(BodyOf(doc, o.name), o.arg)

\* w is doc after the edit o.
IsEdit(o, doc, w) ==
  /\ w # << >> /\ Last(w).name = o.name
  /\ Has(w, o.name) /\ BodyOf(w, o.name) = NewBody(o, doc)
  /\ SameBut(w, doc, o.name)
  /\ o.kind \in {"add", "del", "at"} => Has(doc, o.name)
  /\ o.kind \in {"new", "apb"} => ~Has(doc, o.name)

LEMMA EditFacts ==
  ASSUME NEW o \in Ops, Loaded(StoreOf(o.kind)) \in Docs(StoreOf(o.kind)), o.kind = "add" => o.arg \in Listed,
         ~Refused(o, StoreOf(o.kind))
  PROVE  LET doc == Loaded(StoreOf(o.kind))
             w == Edited(o, doc) IN
         w \in Docs(StoreOf(o.kind)) /\ IsEdit(o, doc, w)
<1>1. PICK store : store = StoreOf(o.kind)
  OBVIOUS
<1>2. PICK doc : doc = Loaded(store)
  OBVIOUS
<1>3. PICK B : B = Bodies(store)
  OBVIOUS
<1>4. doc \in Seq(EntriesOf(B)) /\ Unique(doc) /\ ~Refused(o, store)
  BY <1>1, <1>2, <1>3 DEF Docs
<1>5. PICK body : body = NewBody(o, doc)
  OBVIOUS
<1>6. o.name \in Names /\ o.kind \in {"new", "apb", "event", "add", "del", "at"}
  BY OpsFacts DEF Kinds
<1>7. /\ o.kind \in {"new", "add", "del", "at"} => B = Seq(Listed)
      /\ o.kind \in {"apb", "event"} => B = {<<c>> : c \in Configs} /\ o.arg \in Configs
  BY <1>1, <1>3, OpsFacts DEF Bodies
<1>8. ASSUME o.kind \in {"add", "del", "at"} PROVE Has(doc, o.name) /\ BodyOf(doc, o.name) \in Seq(Listed)
  <2>1. Has(doc, o.name)
    BY <1>1, <1>2, <1>4, <1>8 DEF Refused
  <2> QED
    BY <1>4, <1>7, <1>8, <2>1, EntryFacts
<1>9. body \in B
  <2>1. CASE o.kind = "new"
    BY <1>5, <1>7, <2>1, EmptySeq DEF NewBody
  <2>2. CASE o.kind = "apb"
    BY <1>5, <1>7, <2>2 DEF NewBody
  <2>3. CASE o.kind = "event"
    BY <1>5, <1>7, <2>3 DEF NewBody
  <2>4. CASE o.kind = "add"
    BY <1>5, <1>7, <1>8, <2>4 DEF NewBody
  <2>5. CASE o.kind = "del"
    <3>1. Contains(BodyOf(doc, o.name), o.arg)
      BY <1>1, <1>2, <1>4, <1>8, <2>5 DEF Refused
    <3>2. body = Dropped(BodyOf(doc, o.name), o.arg)
      BY <1>5, <2>5 DEF NewBody
    <3> QED
      BY <1>7, <1>8, <2>5, <3>1, <3>2, DroppedFacts
  <2>6. CASE o.kind = "at"
    <3>1. PICK b \in Seq(Listed) : b = BodyOf(doc, o.name)
      BY <1>8, <2>6
    <3>2. ~(o.arg > Len(b)) /\ o.arg \in 1 .. 2
      BY <1>1, <1>2, <1>4, <1>8, <2>6, <3>1, OpsFacts DEF Refused
    <3>3. body = RemoveAt(b, o.arg)
      BY <1>5, <2>6, <3>1 DEF NewBody
    <3>4. o.arg \in 1 .. Len(b)
      BY <3>2
    <3> QED
      BY <1>7, <2>6, <3>3, <3>4, RemoveAtFacts
  <2> QED
    BY <1>6, <2>1, <2>2, <2>3, <2>4, <2>5, <2>6
<1>10. PICK e \in EntriesOf(B) : e = Entry(o.name, body) /\ e.name = o.name /\ e.body = body
  <2>1. Entry(o.name, body) \in EntriesOf(B) /\ Entry(o.name, body).name = o.name /\ Entry(o.name, body).body = body
    BY <1>6, <1>9 DEF EntriesOf, Entry
  <2> QED
    BY <2>1
<1>11. PICK w : w = Edited(o, doc)
  OBVIOUS
<1>12. /\ w \in Seq(EntriesOf(B)) /\ Unique(w)
       /\ w # << >> /\ Last(w).name = o.name
       /\ Has(w, o.name) /\ BodyOf(w, o.name) = body
       /\ SameBut(w, doc, o.name)
  <2>1. CASE o.kind \in {"new", "apb"}
    <3>1. ~Has(doc, o.name)
      BY <1>1, <1>2, <1>4, <2>1 DEF Refused
    <3>2. w = Append(doc, e)
      BY <1>5, <1>10, <1>11, <2>1 DEF Edited, NewBody
    <3> QED
      BY <1>4, <1>10, <3>1, <3>2, AppendEntryFacts
  <2>2. CASE o.kind = "event"
    <3>1. PICK r : r = Picked(doc, {i \in DOMAIN doc : doc[i].name # o.name})
      OBVIOUS
    <3>2. r \in Seq(EntriesOf(B)) /\ Unique(r) /\ ~Has(r, o.name) /\ SameBut(r, doc, o.name)
      BY <1>4, <3>1, OthersFacts
    <3>3. w = Append(r, e)
      BY <1>5, <1>10, <1>11, <2>2, <3>1 DEF Edited, NewBody
    <3>4. /\ w \in Seq(EntriesOf(B)) /\ Unique(w)
          /\ w # << >> /\ Last(w) = e
          /\ Has(w, o.name) /\ BodyOf(w, o.name) = body
          /\ SameBut(w, r, o.name)
      BY <1>10, <3>2, <3>3, AppendEntryFacts
    <3> QED
      BY <1>10, <3>2, <3>4 DEF SameBut
  <2>3. CASE o.kind \in {"add", "del", "at"}
    <3>1. w = ToBack(doc, o.name, body)
      BY <1>5, <1>11, <2>3 DEF Edited, NewBody
    <3> QED
      BY <1>4, <1>6, <1>8, <1>9, <2>3, <3>1, ToBackFacts
  <2> QED
    BY <1>6, <2>1, <2>2, <2>3
<1>13. o.kind \in {"new", "apb"} => ~Has(doc, o.name)
  BY <1>1, <1>2, <1>4 DEF Refused
<1>14. w \in Docs(store)
  BY <1>3, <1>12 DEF Docs
<1>15. IsEdit(o, doc, w)
  BY <1>5, <1>8, <1>12, <1>13 DEF IsEdit
<1> QED
  BY <1>1, <1>2, <1>11, <1>14, <1>15

(***************************************************************************)
(* Files.                                                                  *)
(***************************************************************************)
LEMMA SizesAreNumbers ==
  ASSUME NEW store, NEW doc \in Docs(store)
  PROVE  SizeOf(doc) \in Nat
<1> DEFINE part == [i \in DOMAIN doc |-> {i} \X DOMAIN doc[i].body]
           T == {{i} \X DOMAIN doc[i].body : i \in DOMAIN doc}
<1>1. doc \in Seq(EntriesOf(Bodies(store))) /\ Len(doc) \in Nat /\ DOMAIN doc = 1 .. Len(doc)
  BY DEF Docs
<1>2. IsFiniteSet(DOMAIN doc)
  BY <1>1, FS_Interval
<1>3. ASSUME NEW i \in DOMAIN doc PROVE IsFiniteSet({i} \X DOMAIN doc[i].body)
  <2>1. doc[i] \in EntriesOf(Bodies(store))
    BY <1>1
  <2>2. PICK body \in Bodies(store) : body = doc[i].body
    BY <2>1 DEF EntriesOf
  <2>3. PICK n \in Nat : DOMAIN body = 1 .. n
    <3>1. CASE store = "lists"
      BY <3>1 DEF Bodies
    <3>2. CASE store # "lists"
      <4>1. PICK c : body = <<c>>
        BY <3>2 DEF Bodies
      <4> DOMAIN body = 1 .. 1
        BY <4>1
      <4> QED
        OBVIOUS
    <3> QED
      BY <3>1, <3>2
  <2>4. IsFiniteSet(DOMAIN doc[i].body)
    BY <2>2, <2>3, FS_Interval
  <2>5. IsFiniteSet({i})
    BY FS_Singleton
  <2> QED
    BY <2>4, <2>5, FS_Product
<1>4. part \in Surjection(DOMAIN doc, T)
  BY DEF Surjection
<1>5. IsFiniteSet(T)
  <2> HIDE DEF part, T
  <2> QED
    BY <1>2, <1>4, FS_Surjection
<1>6. \A t \in T : IsFiniteSet(t)
  BY <1>3
<1>7. Parts(doc) = UNION T
  BY DEF Parts
<1>8. Cardinality(Parts(doc)) \in Nat
  <2> HIDE DEF T
  <2> QED
    BY <1>5, <1>6, <1>7, FS_UNION, FS_CardinalityType
<1> QED
  BY <1>1, <1>8 DEF SizeOf

LEMMA WrittenFacts ==
  ASSUME NEW store, NEW doc \in Docs(store), NEW f
  PROVE  /\ Written(f, doc).doc \in {doc, << >>}
         /\ f = EmptyFile => Written(f, doc).ok /\ Written(f, doc).doc = doc
<1>1. SizeOf(doc) \in Nat
  BY SizesAreNumbers
<1>2. EmptyFile.size <= SizeOf(doc)
  BY <1>1 DEF EmptyFile
<1> QED
  BY <1>2 DEF Written

LEMMA EmptyFacts ==
  /\ EmptyFile.ok /\ EmptyFile.doc = << >>
  /\ \A store : << >> \in Docs(store)
  /\ \A n : ~Has(<< >>, n)
<1>1. ASSUME NEW store PROVE << >> \in Docs(store)
  BY EmptySeq DEF Docs, Unique
<1>2. ASSUME NEW n PROVE ~Has(<< >>, n)
  <2>1. << >> \in Seq({}) /\ DOMAIN << >> = {}
    BY EmptySeq
  <2> QED
    BY <2>1, AtFacts
<1> QED
  BY <1>1, <1>2 DEF EmptyFile

\* What a store may have only grows.
LEMMA DocsGrow ==
  ASSUME Listed \subseteq Listed'
  PROVE  \A store : Docs(store) \subseteq Docs(store)'
<1> SUFFICES ASSUME NEW store, NEW doc \in Docs(store) PROVE doc \in Docs(store)'
  OBVIOUS
<1>1. Bodies(store) \subseteq Bodies(store)'
  <2>1. Seq(Listed) \subseteq Seq(Listed')
    BY SeqMonotonic
  <2> QED
    BY <2>1 DEF Bodies
<1>2. EntriesOf(Bodies(store)) \subseteq EntriesOf(Bodies(store)')
  BY <1>1 DEF EntriesOf
<1>3. doc \in Seq(EntriesOf(Bodies(store)')) /\ Unique(doc)
  BY <1>2, SeqMonotonic DEF Docs
<1> QED
  BY <1>3 DEF Docs

(***************************************************************************)
(* The invariant.  TypesFit says what each store and each command may      *)
(* hold.  TurnsKept says, of a store whose edits took turns, what it       *)
(* stands for: what is in the file, or, from the open that truncates it to *)
(* the write, some document d that the writer has edited.                  *)
(***************************************************************************)

\* StoresMC assumes it.
StoresDiffer == Existing \subseteq Signals /\ None \notin Seq(Signals)

EditStates == {"truncate", "write"}
States == {"idle", "check", "load"} \cup EditStates
Writing(p, store) == pc[p] = "write" /\ StoreOf(op[p].kind) = store

Framed ==
  /\ DOMAIN pc = Procs /\ DOMAIN op = Procs /\ DOMAIN snap = Procs
  /\ DOMAIN file = Stores /\ DOMAIN cache = Names /\ DOMAIN held = Names

ProcFits(p) ==
  /\ pc[p] \in States
  /\ pc[p] # "idle" => op[p] \in Ops
  /\ pc[p] = "load" /\ op[p].kind = "add" => op[p].arg \in Listed
  /\ pc[p] \in EditStates => snap[p] \in Docs(StoreOf(op[p].kind))

TypesFit ==
  /\ Framed
  /\ \A p \in Procs : ProcFits(p)
  /\ \A s \in Stores : file[s].doc \in Docs(s)

\* Of each name the lists have what was added and not deleted.
Matches(doc) ==
  /\ \A n \in Names : IF Has(doc, n) THEN held[n] = BodyOf(doc, n) ELSE held[n] = None
  /\ doc # << >> => Last(doc).name = last

\* What is cached is stored.
CacheIn(doc) == \A n \in Names : cache[n] # None => Has(doc, n) /\ BodyOf(doc, n) = <<cache[n]>>

Stands(store, doc) ==
  /\ doc \in Docs(store)
  /\ store = "lists" => Matches(doc)
  /\ store = "apb" => CacheIn(doc)

TurnOf(s) ==
  /\ file[s].ok
  /\ \A p, q \in Procs : Editing(p, s) /\ Editing(q, s) => p = q
  /\ \A p \in Procs : pc[p] = "truncate" /\ StoreOf(op[p].kind) = s => IsEdit(op[p], file[s].doc, snap[p])
  /\ (\A p \in Procs : ~Writing(p, s)) => Stands(s, file[s].doc)
  /\ \A p \in Procs : Writing(p, s) =>
       file[s] = EmptyFile /\ \E d : Stands(s, d) /\ IsEdit(op[p], d, snap[p])

TurnsKept == \A s \in Stores \ disturbed : TurnOf(s)

CursorsFit ==
  cursors \in [names : SUBSET Names, active : Names \cup {None}] /\ ActiveCursorExists

IInv == TypesFit /\ TurnsKept /\ CursorsFit

LEMMA InitIsFine == Init => IInv
<1> SUFFICES ASSUME Init PROVE IInv
  OBVIOUS
<1>1. /\ \A s \in Stores : file[s].doc = << >> /\ file[s].ok
      /\ \A p \in Procs : pc[p] = "idle"
  BY EmptyFacts DEF Init
<1>2. TypesFit
  BY <1>1, EmptyFacts DEF Init, TypesFit, Framed, ProcFits, States, EditStates
<1>3. Matches(<< >>) /\ CacheIn(<< >>)
  BY EmptyFacts DEF Init, Matches, CacheIn
<1>4. TurnsKept
  BY <1>1, <1>3, EmptyFacts DEF TurnsKept, TurnOf, Stands, Editing, Writing
<1>5. CursorsFit
  BY DEF Init, CursorsFit, NoCursors, ActiveCursorExists
<1> QED
  BY <1>2, <1>4, <1>5 DEF IInv

\* An edit does to the lists by name what it does to the file.
LEMMA EditKeepsMatches ==
  ASSUME StoresDiffer, NEW o \in Ops, StoreOf(o.kind) = "lists", NEW d, Stands("lists", d), NEW w, IsEdit(o, d, w),
         DOMAIN held = Names, held' = Holding(o), last' = o.name
  PROVE  Matches(w)'
<1>1. o.kind \in {"new", "add", "del", "at"} /\ o.name \in Names
  BY OpsFacts DEF Kinds
<1>2. d \in Seq(EntriesOf(Seq(Listed))) /\ Unique(d) /\ Matches(d)
  BY DEF Stands, Docs, Bodies
<1>3. ASSUME Has(d, o.name) PROVE held[o.name] = BodyOf(d, o.name) /\ held[o.name] # None
  <2>1. held[o.name] = BodyOf(d, o.name)
    BY <1>1, <1>2, <1>3 DEF Matches
  <2>2. BodyOf(d, o.name) \in Seq(Signals)
    <3>1. BodyOf(d, o.name) \in Seq(Listed)
      BY <1>2, <1>3, EntryFacts
    <3>2. Listed \subseteq Signals
      BY DEF Listed, StoresDiffer
    <3> QED
      BY <3>1, <3>2, SeqMonotonic
  <2> QED
    BY <2>1, <2>2 DEF StoresDiffer
<1>4. held' = [held EXCEPT ![o.name] = NewBody(o, d)]
  <2>1. CASE o.kind = "new"
    BY <2>1 DEF Holding, NewBody
  <2>2. CASE o.kind = "add"
    BY <1>3, <2>2 DEF Holding, NewBody, IsEdit
  <2>3. CASE o.kind = "del"
    BY <1>3, <2>3 DEF Holding, NewBody, IsEdit
  <2>4. CASE o.kind = "at"
    BY <1>3, <2>4 DEF Holding, NewBody, IsEdit
  <2> QED
    BY <1>1, <2>1, <2>2, <2>3, <2>4
<1>5. ASSUME NEW n \in Names PROVE IF Has(w, n) THEN held'[n] = BodyOf(w, n) ELSE held'[n] = None
  <2>1. CASE n = o.name
    BY <1>1, <1>4, <2>1 DEF IsEdit
  <2>2. CASE n # o.name
    <3>1. held'[n] = held[n]
      BY <1>4, <2>2
    <3>2. (Has(w, n) <=> Has(d, n)) /\ (Has(d, n) => BodyOf(w, n) = BodyOf(d, n))
      BY <2>2 DEF IsEdit, SameBut
    <3> QED
      BY <1>2, <3>1, <3>2 DEF Matches
  <2> QED
    BY <2>1, <2>2
<1> QED
  BY <1>5 DEF Matches, IsEdit

\* An edit of the configurations leaves those that are there.
LEMMA EditKeepsCache ==
  ASSUME NEW o \in Ops, o.kind = "apb", NEW d, CacheIn(d), NEW w, IsEdit(o, d, w)
  PROVE  CacheIn(w)
<1> SUFFICES ASSUME NEW n \in Names, cache[n] # None PROVE Has(w, n) /\ BodyOf(w, n) = <<cache[n]>>
  BY DEF CacheIn
<1>1. Has(d, n) /\ BodyOf(d, n) = <<cache[n]>>
  BY DEF CacheIn
<1>2. n # o.name
  BY <1>1 DEF IsEdit
<1> QED
  BY <1>1, <1>2 DEF IsEdit, SameBut

LEMMA ListedGrows ==
  ASSUME StoresDiffer, [Next]_vars
  PROVE  Listed \subseteq Listed'
<1>1. unanswered => unanswered'
  BY DEF Next, vars, history, Call, Check, CheckCut, Load, Truncate, Write, Crash, DaemonDies, DaemonLeaves,
     Query, CursorSet, CursorUse, CursorDelete
<1> QED
  BY <1>1 DEF Listed, StoresDiffer

\* A command that is left alone stays of its type.
LEMMA ProcsStay ==
  ASSUME NEW p, ProcFits(p), Listed \subseteq Listed', pc'[p] = pc[p], op'[p] = op[p], snap'[p] = snap[p]
  PROVE  ProcFits(p)'
<1>1. \A s : Docs(s) \subseteq Docs(s)'
  BY DocsGrow
<1> QED
  BY <1>1 DEF ProcFits

LEMMA StepKeepsFrame ==
  ASSUME Framed, [Next]_vars
  PROVE  Framed'
<1>1. ASSUME NEW p \in Procs, NEW o \in Ops, Call(p, o) PROVE Framed'
  BY <1>1 DEF Call, Goto, Framed, history
<1>2. ASSUME NEW p \in Procs, Check(p) PROVE Framed'
  BY <1>2 DEF Check, Goto, Framed, history
<1>3. ASSUME NEW p \in Procs, CheckCut(p) PROVE Framed'
  BY <1>3 DEF CheckCut, Goto, Framed
<1>4. ASSUME NEW p \in Procs, Load(p) PROVE Framed'
  BY <1>4 DEF Load, Goto, Framed
<1>5. ASSUME NEW p \in Procs, Truncate(p) PROVE Framed'
  BY <1>5 DEF Truncate, Goto, Framed, history
<1>6. ASSUME NEW p \in Procs, Write(p) PROVE Framed'
  <2>1. DOMAIN Holding(op[p]) = Names
    BY DEF Holding, Framed
  <2> QED
    BY <1>6, <2>1 DEF Write, Goto, Framed
<1>7. ASSUME NEW p \in Procs, Crash(p) PROVE Framed'
  BY <1>7 DEF Crash, Goto, Framed
<1>8. CASE DaemonDies
  BY <1>8 DEF DaemonDies, Framed, client, history
<1>9. CASE DaemonLeaves
  BY <1>9 DEF DaemonLeaves, Framed
<1>10. ASSUME NEW n \in Names, Query(n) PROVE Framed'
  BY <1>10 DEF Query, Framed, client, history
<1>11. ASSUME NEW n \in Names, CursorDelete(n) \/ CursorUse(n) \/ \E a \in BOOLEAN : CursorSet(n, a) PROVE Framed'
  BY <1>11 DEF CursorDelete, CursorUse, CursorSet, Framed, client, history
<1>12. CASE UNCHANGED vars
  BY <1>12 DEF vars, client, history, Framed
<1> QED
  BY <1>1, <1>2, <1>3, <1>4, <1>5, <1>6, <1>7, <1>8, <1>9, <1>10, <1>11, <1>12 DEF Next

LEMMA StepKeepsFiles ==
  ASSUME TypesFit, Listed \subseteq Listed', [Next]_vars, NEW s \in Stores
  PROVE  file'[s].doc \in Docs(s)'
<1>1. Docs(s) \subseteq Docs(s)' /\ << >> \in Docs(s)'
  BY DocsGrow, EmptyFacts
<1>2. CASE file'[s] = file[s]
  BY <1>1, <1>2 DEF TypesFit
<1>3. ASSUME NEW p \in Procs, Truncate(p) PROVE file'[s].doc \in Docs(s)'
  <2>1. file'[s] = file[s] \/ file'[s] = EmptyFile
    BY <1>3 DEF Truncate, TypesFit, Framed
  <2> QED
    BY <1>1, <1>2, <2>1, EmptyFacts
<1>4. ASSUME NEW p \in Procs, Write(p) PROVE file'[s].doc \in Docs(s)'
  <2>1. PICK store : store = StoreOf(op[p].kind)
    OBVIOUS
  <2>2. pc[p] = "write" /\ file' = [file EXCEPT ![store] = Written(file[store], snap[p])]
    BY <1>4, <2>1 DEF Write
  <2>3. CASE s # store
    BY <1>2, <2>2, <2>3
  <2>4. CASE s = store
    <3>1. snap[p] \in Docs(s)
      BY <2>1, <2>2, <2>4 DEF TypesFit, ProcFits, EditStates
    <3>2. file'[s].doc \in {snap[p], << >>}
      BY <2>2, <2>4, <3>1, WrittenFacts DEF TypesFit, Framed
    <3> QED
      BY <1>1, <3>1, <3>2
  <2> QED
    BY <2>3, <2>4
<1>5. CASE DaemonLeaves
  BY <1>1, <1>5, EmptyFacts DEF DaemonLeaves
<1>6. file' = file \/ DaemonLeaves \/ \E p \in Procs : Truncate(p) \/ Write(p)
  BY DEF Next, vars, history, Call, Check, CheckCut, Load, Crash, DaemonDies, Query, CursorSet, CursorUse, CursorDelete
<1> QED
  BY <1>2, <1>3, <1>4, <1>5, <1>6

LEMMA StepKeepsProcs ==
  ASSUME TypesFit, Listed \subseteq Listed', [Next]_vars, NEW q \in Procs, StoresDiffer
  PROVE  ProcFits(q)'
<1>1. \A s : Docs(s) \subseteq Docs(s)'
  BY DocsGrow
<1> DEFINE Stays == pc'[q] = pc[q] /\ op'[q] = op[q] /\ snap'[q] = snap[q]
           Idles == pc'[q] = "idle"
<1>2. CASE Stays
  BY <1>2, ProcsStay DEF TypesFit
<1>3. CASE Idles
  BY <1>3 DEF ProcFits, States, EditStates
<1>4. ASSUME NEW p \in Procs, NEW o \in Ops, Call(p, o) PROVE ProcFits(q)'
  <2>1. CASE q # p
    BY <1>2, <1>4, <2>1 DEF Call, Goto, TypesFit, Framed
  <2>2. CASE q = p
    <3>1. pc'[q] \in {"check", "load"} /\ (pc'[q] = "load" => o.kind # "add") /\ op'[q] = o
      BY <1>4, <2>2 DEF Call, Goto, TypesFit, Framed
    <3> QED
      BY <3>1 DEF ProcFits, States, EditStates
  <2> QED
    BY <2>1, <2>2
<1>5. ASSUME NEW p \in Procs, Check(p) PROVE ProcFits(q)'
  <2>1. CASE q # p
    BY <1>2, <1>5, <2>1 DEF Check, Goto, TypesFit, Framed
  <2>2. CASE q = p
    <3>1. Idles \/ (pc'[q] = "load" /\ op'[q] = op[q] /\ op[q].arg \in Existing)
      BY <1>5, <2>2 DEF Check, Goto, TypesFit, Framed
    <3>2. op[q] \in Ops /\ Existing \subseteq Listed
      BY <1>5, <2>2 DEF Check, TypesFit, ProcFits, Listed, StoresDiffer
    <3> QED
      BY <1>3, <3>1, <3>2 DEF ProcFits, States, EditStates
  <2> QED
    BY <2>1, <2>2
<1>6. ASSUME NEW p \in Procs, CheckCut(p) PROVE ProcFits(q)'
  <2>1. CASE q # p
    BY <1>2, <1>6, <2>1 DEF CheckCut, Goto, TypesFit, Framed
  <2>2. CASE q = p
    <3>1. pc'[q] = "load" /\ op'[q] = op[q] /\ unanswered'
      BY <1>6, <2>2 DEF CheckCut, Goto, TypesFit, Framed
    <3>2. op[q] \in Ops
      BY <1>6, <2>2 DEF CheckCut, TypesFit, ProcFits
    <3>3. op[q].kind = "add" => op[q].arg \in Listed'
      BY <3>1, <3>2, OpsFacts DEF Listed
    <3> QED
      BY <3>1, <3>2, <3>3 DEF ProcFits, States, EditStates
  <2> QED
    BY <2>1, <2>2
<1>7. ASSUME NEW p \in Procs, Load(p) PROVE ProcFits(q)'
  <2>1. CASE q # p
    BY <1>2, <1>7, <2>1 DEF Load, Goto, TypesFit, Framed
  <2>2. CASE q = p
    <3>1. PICK s : s = StoreOf(op[q].kind)
      OBVIOUS
    <3>2. Idles \/ (pc'[q] = "truncate" /\ op'[q] = op[q] /\ ~Refused(op[q], s) /\ snap'[q] = Edited(op[q], Loaded(s)))
      BY <1>7, <2>2, <3>1 DEF Load, Goto, TypesFit, Framed
    <3>3. op[q] \in Ops /\ (op[q].kind = "add" => op[q].arg \in Listed)
      BY <1>7, <2>2 DEF Load, TypesFit, ProcFits
    <3>4. Loaded(s) \in Docs(s)
      BY <3>1, <3>3, OpsFacts DEF TypesFit, Loaded
    <3>5. ~Refused(op[q], s) => Edited(op[q], Loaded(s)) \in Docs(s)
      BY <3>1, <3>3, <3>4, EditFacts
    <3> QED
      BY <1>1, <1>3, <3>1, <3>2, <3>3, <3>5 DEF ProcFits, States, EditStates
  <2> QED
    BY <2>1, <2>2
<1>8. ASSUME NEW p \in Procs, Truncate(p) PROVE ProcFits(q)'
  <2>1. CASE q # p
    BY <1>2, <1>8, <2>1 DEF Truncate, Goto, TypesFit, Framed
  <2>2. CASE q = p
    <3>1. pc'[q] = "write" /\ op'[q] = op[q] /\ snap'[q] = snap[q]
      BY <1>8, <2>2 DEF Truncate, Goto, TypesFit, Framed
    <3>2. op[q] \in Ops /\ snap[q] \in Docs(StoreOf(op[q].kind))
      BY <1>8, <2>2 DEF Truncate, TypesFit, ProcFits, EditStates
    <3> QED
      BY <1>1, <3>1, <3>2 DEF ProcFits, States, EditStates
  <2> QED
    BY <2>1, <2>2
<1>9. ASSUME NEW p \in Procs, Write(p) \/ Crash(p) PROVE ProcFits(q)'
  <2>1. Stays \/ Idles
    BY <1>9 DEF Write, Crash, Goto, TypesFit, Framed
  <2> QED
    BY <1>2, <1>3, <2>1
<1>10. CASE DaemonLeaves
  <2>1. Stays \/ Idles
    BY <1>10 DEF DaemonLeaves
  <2> QED
    BY <1>2, <1>3, <2>1
<1>11. CASE UNCHANGED client
  BY <1>2, <1>11 DEF client
<1>12. \/ UNCHANGED client \/ DaemonLeaves
       \/ \E p \in Procs :
            \/ \E o \in Ops : Call(p, o)
            \/ Check(p) \/ CheckCut(p) \/ Load(p) \/ Truncate(p) \/ Write(p) \/ Crash(p)
  BY DEF Next, vars, DaemonDies, Query, CursorSet, CursorUse, CursorDelete
<1> QED
  BY <1>4, <1>5, <1>6, <1>7, <1>8, <1>9, <1>10, <1>11, <1>12

LEMMA StepKeepsTypes ==
  ASSUME StoresDiffer, TypesFit, [Next]_vars
  PROVE  TypesFit'
BY ListedGrows, StepKeepsFrame, StepKeepsFiles, StepKeepsProcs DEF TypesFit

(***************************************************************************)
(* Edits take turns.  Most steps are calm: they neither touch a file nor   *)
(* begin or end a write that counts.                                       *)
(***************************************************************************)
Calm ==
  /\ file' = file /\ disturbed \subseteq disturbed' /\ held' = held /\ last' = last
  /\ \A n \in Names : cache'[n] \in {cache[n], None}
  /\ \A p \in Procs : pc'[p] \in EditStates => pc'[p] = pc[p] /\ op'[p] = op[p] /\ snap'[p] = snap[p]
  /\ \A p \in Procs : pc[p] = "write" /\ StoreOf(op[p].kind) \notin disturbed' =>
       pc'[p] = "write" /\ op'[p] = op[p] /\ snap'[p] = snap[p]

LEMMA StandsStays ==
  ASSUME held' = held, last' = last, \A n \in Names : cache'[n] \in {cache[n], None}, Listed \subseteq Listed',
         NEW store, NEW doc, Stands(store, doc)
  PROVE  Stands(store, doc)'
<1>1. doc \in Docs(store)'
  BY DocsGrow DEF Stands
<1>2. Matches(doc) => Matches(doc)'
  BY DEF Matches
<1>3. CacheIn(doc) => CacheIn(doc)'
  BY DEF CacheIn
<1> QED
  BY <1>1, <1>2, <1>3 DEF Stands

LEMMA CalmKeepsTurns ==
  ASSUME TurnsKept, Calm, Listed \subseteq Listed'
  PROVE  TurnsKept'
<1> SUFFICES ASSUME NEW s \in Stores \ disturbed' PROVE TurnOf(s)'
  BY DEF TurnsKept
<1>1. TurnOf(s)
  BY DEF TurnsKept, Calm
<1>2. \A p \in Procs : Editing(p, s)' => Editing(p, s)
  BY DEF Calm, Editing, EditStates
<1>3. \A p \in Procs : Writing(p, s)' => Writing(p, s) /\ op'[p] = op[p] /\ snap'[p] = snap[p]
  BY DEF Calm, Writing, EditStates
<1>4. \A p \in Procs : Writing(p, s) => Writing(p, s)'
  BY DEF Calm, Writing, EditStates
<1>5. \A doc : Stands(s, doc) => Stands(s, doc)'
  BY StandsStays DEF Calm
<1>6. file'[s] = file[s]
  BY DEF Calm
<1>7. ASSUME NEW p \in Procs, pc'[p] = "truncate", StoreOf(op'[p].kind) = s PROVE IsEdit(op'[p], file'[s].doc, snap'[p])
  <2>1. pc[p] = "truncate" /\ op'[p] = op[p] /\ snap'[p] = snap[p]
    BY <1>7 DEF Calm, EditStates
  <2> QED
    BY <1>1, <1>6, <1>7, <2>1 DEF TurnOf
<1>8. (\A p \in Procs : ~Writing(p, s)') => Stands(s, file[s].doc)'
  <2>1. PICK doc : doc = file[s].doc
    OBVIOUS
  <2>2. (\A p \in Procs : ~Writing(p, s)') => Stands(s, doc)'
    BY <1>1, <1>4, <1>5, <2>1 DEF TurnOf
  <2>3. doc = file'[s].doc
    BY <1>6, <2>1
  <2> QED
    BY <2>2, <2>3
<1>9. ASSUME NEW p \in Procs, Writing(p, s)'
      PROVE  file'[s] = EmptyFile /\ \E d : Stands(s, d)' /\ IsEdit(op'[p], d, snap'[p])
  BY <1>1, <1>3, <1>5, <1>6, <1>9 DEF TurnOf
<1>10. \A p, q \in Procs : Editing(p, s)' /\ Editing(q, s)' => p = q
  BY <1>1, <1>2 DEF TurnOf
<1> QED
  BY <1>1, <1>6, <1>7, <1>8, <1>9, <1>10 DEF TurnOf

\* A step of p to a store in use by no other command keeps what holds of the rest.
LEMMA LoadKeepsTurns ==
  ASSUME TypesFit, TurnsKept, NEW p \in Procs, Load(p), Listed \subseteq Listed'
  PROVE  TurnsKept'
<1>1. PICK store : store = StoreOf(op[p].kind)
  OBVIOUS
<1>2. CASE Refused(op[p], store)
  <2>1. Calm
    BY <1>1, <1>2 DEF Load, Goto, Calm, TypesFit, Framed, EditStates
  <2> QED
    BY <2>1, CalmKeepsTurns
<1>3. CASE ~Refused(op[p], store)
  <2>1. /\ pc' = [pc EXCEPT ![p] = "truncate"] /\ op' = op
        /\ snap' = [snap EXCEPT ![p] = Edited(op[p], Loaded(store))]
        /\ pc[p] = "load" /\ file' = file /\ held' = held /\ last' = last /\ cache' = cache
        /\ disturbed \subseteq disturbed'
        /\ store \notin disturbed' => \A q \in Procs \ {p} : ~Editing(q, store)
    BY <1>1, <1>3 DEF Load, Goto
  <2>2. op[p] \in Ops /\ (op[p].kind = "add" => op[p].arg \in Listed) /\ store \in Stores
    BY <1>1, <2>1, OpsFacts DEF TypesFit, ProcFits
  <2>3. IsEdit(op[p], Loaded(store), Edited(op[p], Loaded(store)))
    BY <1>1, <1>3, <2>2, EditFacts DEF TypesFit, Loaded
  <2>4. /\ pc'[p] = "truncate" /\ snap'[p] = Edited(op[p], Loaded(store))
        /\ \A q \in Procs \ {p} : pc'[q] = pc[q] /\ snap'[q] = snap[q]
    BY <2>1 DEF TypesFit, Framed
  <2> SUFFICES ASSUME NEW s \in Stores \ disturbed' PROVE TurnOf(s)'
    BY DEF TurnsKept
  <2>5. TurnOf(s)
    BY <2>1 DEF TurnsKept
  <2>6. \A q \in Procs : Writing(q, s)' <=> Writing(q, s)
    BY <2>1, <2>4 DEF Writing
  <2>7. \A q \in Procs : Writing(q, s) => q # p
    BY <2>1 DEF Writing
  <2>8. \A doc : Stands(s, doc) => Stands(s, doc)'
    BY <2>1, StandsStays
  <2>9. \A q, r \in Procs : Editing(q, s)' /\ Editing(r, s)' => q = r
    <3>1. \A q \in Procs \ {p} : Editing(q, s)' => Editing(q, s)
      BY <2>1, <2>4 DEF Editing
    <3>2. Editing(p, s)' => s = store
      BY <1>1, <2>1 DEF Editing
    <3> QED
      BY <2>1, <2>5, <3>1, <3>2 DEF TurnOf
  <2>10. ASSUME NEW q \in Procs, pc'[q] = "truncate", StoreOf(op'[q].kind) = s
         PROVE  IsEdit(op'[q], file'[s].doc, snap'[q])
    <3>1. CASE q = p
      BY <1>1, <2>1, <2>3, <2>4, <2>10, <3>1 DEF Loaded
    <3>2. CASE q # p
      BY <2>1, <2>4, <2>5, <2>10, <3>2 DEF TurnOf
    <3> QED
      BY <3>1, <3>2
  <2>11. (\A q \in Procs : ~Writing(q, s)') => Stands(s, file[s].doc)'
    <3>1. PICK doc : doc = file[s].doc
      OBVIOUS
    <3>2. (\A q \in Procs : ~Writing(q, s)') => Stands(s, doc)'
      BY <2>5, <2>6, <2>8, <3>1 DEF TurnOf
    <3>3. doc = file'[s].doc
      BY <2>1, <3>1
    <3> QED
      BY <3>2, <3>3
  <2>12. ASSUME NEW q \in Procs, Writing(q, s)'
         PROVE  file'[s] = EmptyFile /\ \E d : Stands(s, d)' /\ IsEdit(op'[q], d, snap'[q])
    BY <2>1, <2>4, <2>5, <2>6, <2>7, <2>8, <2>12 DEF TurnOf
  <2> QED
    BY <2>1, <2>5, <2>9, <2>10, <2>11, <2>12 DEF TurnOf
<1> QED
  BY <1>2, <1>3

LEMMA TruncateKeepsTurns ==
  ASSUME TypesFit, TurnsKept, NEW p \in Procs, Truncate(p), Listed \subseteq Listed'
  PROVE  TurnsKept'
<1>1. PICK store : store = StoreOf(op[p].kind)
  OBVIOUS
<1>2. /\ pc[p] = "truncate" /\ pc' = [pc EXCEPT ![p] = "write"] /\ op' = op /\ snap' = snap
      /\ file' = [file EXCEPT ![store] = EmptyFile]
      /\ held' = held /\ last' = last /\ cache' = cache /\ disturbed' = disturbed
  BY <1>1 DEF Truncate, Goto, history
<1>3. pc'[p] = "write" /\ \A q \in Procs \ {p} : pc'[q] = pc[q]
  BY <1>2 DEF TypesFit, Framed
<1> SUFFICES ASSUME NEW s \in Stores \ disturbed' PROVE TurnOf(s)'
  BY DEF TurnsKept
<1>4. TurnOf(s)
  BY <1>2 DEF TurnsKept
<1>5. \A doc : Stands(s, doc) => Stands(s, doc)'
  BY <1>2, StandsStays
<1>6. \A q \in Procs : Editing(q, s)' <=> Editing(q, s)
  BY <1>2, <1>3 DEF Editing
<1>7. \A q, r \in Procs : Editing(q, s)' /\ Editing(r, s)' => q = r
  BY <1>4, <1>6 DEF TurnOf
<1>8. CASE s # store
  <2>1. file'[s] = file[s]
    BY <1>2, <1>8
  <2>2. \A q \in Procs : Writing(q, s)' <=> Writing(q, s)
    BY <1>1, <1>2, <1>3, <1>8 DEF Writing
  <2>3. ASSUME NEW q \in Procs, pc'[q] = "truncate", StoreOf(op'[q].kind) = s
        PROVE  IsEdit(op'[q], file'[s].doc, snap'[q])
    BY <1>2, <1>3, <1>4, <2>1, <2>3 DEF TurnOf
  <2>4. (\A q \in Procs : ~Writing(q, s)') => Stands(s, file[s].doc)'
    <3>1. PICK doc : doc = file[s].doc
      OBVIOUS
    <3>2. (\A q \in Procs : ~Writing(q, s)') => Stands(s, doc)'
      BY <1>4, <1>5, <2>2, <3>1 DEF TurnOf
    <3>3. doc = file'[s].doc
      BY <2>1, <3>1
    <3> QED
      BY <3>2, <3>3
  <2>5. ASSUME NEW q \in Procs, Writing(q, s)'
        PROVE  file'[s] = EmptyFile /\ \E d : Stands(s, d)' /\ IsEdit(op'[q], d, snap'[q])
    BY <1>2, <1>4, <1>5, <2>1, <2>2, <2>5 DEF TurnOf
  <2> QED
    BY <1>4, <1>7, <2>1, <2>3, <2>4, <2>5 DEF TurnOf
<1>9. CASE s = store
  <2>1. Editing(p, s)
    BY <1>1, <1>2, <1>9 DEF Editing
  <2>2. \A q \in Procs : Editing(q, s)' => q = p
    BY <1>4, <1>6, <2>1 DEF TurnOf
  <2>3. \A q \in Procs : pc'[q] = "truncate" => StoreOf(op'[q].kind) # s
    BY <1>3, <2>2 DEF Editing
  <2>4. Writing(p, s)'
    BY <1>1, <1>2, <1>3, <1>9 DEF Writing
  <2>5. \A q \in Procs : Writing(q, s)' => q = p
    BY <2>2 DEF Editing, Writing
  <2>6. \A q \in Procs : ~Writing(q, s)
    BY <1>2, <1>4, <2>1 DEF TurnOf, Editing, Writing
  <2>7. file'[s] = EmptyFile
    BY <1>2, <1>9 DEF TypesFit, Framed
  <2>8. PICK d : Stands(s, d) /\ IsEdit(op[p], d, snap[p])
    BY <1>1, <1>2, <1>4, <1>9, <2>6 DEF TurnOf
  <2>9. \E e : Stands(s, e)' /\ IsEdit(op'[p], e, snap'[p])
    BY <1>2, <1>5, <2>8
  <2> QED
    BY <1>7, <2>3, <2>4, <2>5, <2>7, <2>9, EmptyFacts DEF TurnOf
<1> QED
  BY <1>8, <1>9

LEMMA WriteKeepsTurns ==
  ASSUME StoresDiffer, TypesFit, TurnsKept, NEW p \in Procs, Write(p), Listed \subseteq Listed'
  PROVE  TurnsKept'
<1>1. PICK store : store = StoreOf(op[p].kind)
  OBVIOUS
<1>2. /\ pc[p] = "write" /\ pc' = [pc EXCEPT ![p] = "idle"]
      /\ op' = [op EXCEPT ![p] = None] /\ snap' = [snap EXCEPT ![p] = << >>]
      /\ file' = [file EXCEPT ![store] = Written(file[store], snap[p])]
      /\ cache' = cache /\ disturbed' = disturbed
      /\ IF store = "lists" /\ store \notin disturbed THEN held' = Holding(op[p]) /\ last' = op[p].name
         ELSE held' = held /\ last' = last
  BY <1>1 DEF Write, Goto
<1>3. pc'[p] = "idle" /\ \A q \in Procs \ {p} : pc'[q] = pc[q] /\ op'[q] = op[q] /\ snap'[q] = snap[q]
  BY <1>2 DEF TypesFit, Framed
<1>4. op[p] \in Ops /\ store \in Stores /\ snap[p] \in Docs(store)
  BY <1>1, <1>2, OpsFacts DEF TypesFit, ProcFits, EditStates
<1> SUFFICES ASSUME NEW s \in Stores \ disturbed' PROVE TurnOf(s)'
  BY DEF TurnsKept
<1>5. TurnOf(s)
  BY <1>2 DEF TurnsKept
<1>6. \A q \in Procs : Editing(q, s)' => Editing(q, s) /\ q # p
  BY <1>3 DEF Editing
<1>7. \A q, r \in Procs : Editing(q, s)' /\ Editing(r, s)' => q = r
  BY <1>5, <1>6 DEF TurnOf
<1>8. \A doc : doc \in Docs(s) => doc \in Docs(s)'
  BY DocsGrow
<1>9. \A doc : CacheIn(doc) => CacheIn(doc)'
  BY <1>2 DEF CacheIn
<1>10. CASE s # store
  <2>1. file'[s] = file[s]
    BY <1>2, <1>10
  <2>2. \A q \in Procs : Writing(q, s)' <=> Writing(q, s)
    BY <1>1, <1>3, <1>10 DEF Writing
  <2>3. \A q \in Procs : Writing(q, s) => q # p
    BY <1>1, <1>10 DEF Writing
  <2>4. \A doc : Stands(s, doc) => Stands(s, doc)'
    <3>1. s = "lists" => held' = held /\ last' = last
      BY <1>2, <1>10
    <3>2. \A doc : s = "lists" => (Matches(doc) => Matches(doc)')
      BY <3>1 DEF Matches
    <3> QED
      BY <1>8, <1>9, <3>2 DEF Stands
  <2>5. ASSUME NEW q \in Procs, pc'[q] = "truncate", StoreOf(op'[q].kind) = s
        PROVE  IsEdit(op'[q], file'[s].doc, snap'[q])
    BY <1>3, <1>5, <2>1, <2>5 DEF TurnOf
  <2>6. (\A q \in Procs : ~Writing(q, s)') => Stands(s, file[s].doc)'
    <3>1. PICK doc : doc = file[s].doc
      OBVIOUS
    <3>2. (\A q \in Procs : ~Writing(q, s)') => Stands(s, doc)'
      BY <1>5, <2>2, <2>4, <3>1 DEF TurnOf
    <3>3. doc = file'[s].doc
      BY <2>1, <3>1
    <3> QED
      BY <3>2, <3>3
  <2>7. ASSUME NEW q \in Procs, Writing(q, s)'
        PROVE  file'[s] = EmptyFile /\ \E d : Stands(s, d)' /\ IsEdit(op'[q], d, snap'[q])
    BY <1>3, <1>5, <2>1, <2>2, <2>3, <2>4, <2>7 DEF TurnOf
  <2> QED
    BY <1>5, <1>7, <2>1, <2>5, <2>6, <2>7 DEF TurnOf
<1>11. CASE s = store
  <2>1. Writing(p, s) /\ Editing(p, s)
    BY <1>1, <1>2, <1>11 DEF Writing, Editing
  <2>2. \A q \in Procs : ~Editing(q, s)'
    BY <1>5, <1>6, <2>1 DEF TurnOf
  <2>3. \A q \in Procs : ~Writing(q, s)'
    BY <2>2 DEF Editing, Writing
  <2>4. \A q \in Procs : pc'[q] = "truncate" => StoreOf(op'[q].kind) # s
    BY <2>2 DEF Editing
  <2>5. PICK d : file[s] = EmptyFile /\ Stands(s, d) /\ IsEdit(op[p], d, snap[p])
    BY <1>5, <2>1 DEF TurnOf
  <2>6. PICK w : w = snap[p]
    OBVIOUS
  <2>7. file'[s].ok /\ file'[s].doc = w
    <3>1. file'[s] = Written(EmptyFile, w)
      BY <1>2, <1>4, <1>11, <2>5, <2>6 DEF TypesFit, Framed
    <3> QED
      BY <1>4, <2>6, <3>1, WrittenFacts
  <2>8. s = "lists" => Matches(w)'
    <3> SUFFICES ASSUME s = "lists" PROVE Matches(w)'
      OBVIOUS
    <3>1. held' = Holding(op[p]) /\ last' = op[p].name
      BY <1>2, <1>11
    <3>2. StoreOf(op[p].kind) = "lists" /\ Stands("lists", d) /\ IsEdit(op[p], d, w)
      BY <1>1, <1>11, <2>5, <2>6
    <3>3. DOMAIN held = Names
      BY DEF TypesFit, Framed
    <3> QED
      BY <1>4, <3>1, <3>2, <3>3, EditKeepsMatches
  <2>9. s = "apb" => CacheIn(w)'
    <3> SUFFICES ASSUME s = "apb" PROVE CacheIn(w)'
      OBVIOUS
    <3>1. op[p].kind = "apb" /\ CacheIn(d)
      BY <1>1, <1>4, <1>11, <2>5, OpsFacts DEF Stands
    <3> QED
      BY <1>4, <1>9, <2>5, <2>6, <3>1, EditKeepsCache
  <2>10. Stands(s, w)'
    BY <1>4, <1>8, <1>11, <2>6, <2>8, <2>9 DEF Stands
  <2>11. Stands(s, file[s].doc)'
    BY <2>7, <2>10
  <2> QED
    BY <1>7, <2>3, <2>4, <2>7, <2>11 DEF TurnOf
<1> QED
  BY <1>10, <1>11

LEMMA QueryKeepsTurns ==
  ASSUME TypesFit, TurnsKept, NEW n \in Names, Query(n), Listed \subseteq Listed'
  PROVE  TurnsKept'
<1>1. /\ pc' = pc /\ op' = op /\ snap' = snap /\ file' = file /\ held' = held /\ last' = last /\ disturbed' = disturbed
      /\ Has(file["apb"].doc, n)
      /\ cache' = [cache EXCEPT ![n] = IF cache[n] = None THEN BodyOf(file["apb"].doc, n)[1] ELSE cache[n]]
  BY DEF Query, client, history, Loaded
<1>2. \A m \in Names : m # n => cache'[m] = cache[m]
  BY <1>1
<1>3. cache'[n] = IF cache[n] = None THEN BodyOf(file["apb"].doc, n)[1] ELSE cache[n]
  BY <1>1 DEF TypesFit, Framed
<1> SUFFICES ASSUME NEW s \in Stores \ disturbed' PROVE TurnOf(s)'
  BY DEF TurnsKept
<1>4. TurnOf(s)
  BY <1>1 DEF TurnsKept
<1>5. \A doc : doc \in Docs(s) => doc \in Docs(s)'
  BY DocsGrow
<1>6. \A doc : Matches(doc) => Matches(doc)'
  BY <1>1 DEF Matches
<1>7. \A q \in Procs : Writing(q, s)' <=> Writing(q, s)
  BY <1>1 DEF Writing
<1>8. PICK doc : doc = file[s].doc /\ doc = file'[s].doc
  BY <1>1
<1>9. CASE s # "apb"
  <2>1. \A d : Stands(s, d) => Stands(s, d)'
    BY <1>5, <1>6, <1>9 DEF Stands
  <2>2. (\A q \in Procs : ~Writing(q, s)') => Stands(s, file[s].doc)'
    <3>1. (\A q \in Procs : ~Writing(q, s)') => Stands(s, doc)'
      BY <1>4, <1>7, <1>8, <2>1 DEF TurnOf
    <3> QED
      BY <1>8, <3>1
  <2> QED
    BY <1>1, <1>4, <1>7, <2>1, <2>2 DEF TurnOf, Editing
<1>10. CASE s = "apb"
  <2>1. \A q \in Procs : ~Writing(q, s)
    BY <1>1, <1>4, <1>10, EmptyFacts DEF TurnOf
  <2>2. Stands(s, doc)
    BY <1>4, <1>8, <2>1 DEF TurnOf
  <2>3. BodyOf(doc, n) \in {<<c>> : c \in Configs}
    <3>1. doc \in Seq(EntriesOf({<<c>> : c \in Configs})) /\ Unique(doc)
      BY <1>10, <2>2 DEF Stands, Docs, Bodies
    <3> QED
      BY <1>1, <1>8, <1>10, <3>1, EntryFacts
  <2>4. PICK c \in Configs : BodyOf(doc, n) = <<c>>
    BY <2>3
  <2>5. cache[n] # None => BodyOf(doc, n) = <<cache[n]>>
    BY <1>10, <2>2 DEF Stands, CacheIn
  <2>6. Has(doc, n) /\ BodyOf(doc, n) = <<cache'[n]>>
    BY <1>1, <1>3, <1>8, <1>10, <2>4, <2>5
  <2>7. CacheIn(doc)'
    BY <1>2, <1>10, <2>2, <2>6 DEF Stands, CacheIn
  <2>8. Stands(s, doc)'
    BY <1>5, <1>10, <2>2, <2>7 DEF Stands
  <2>9. Stands(s, file[s].doc)'
    BY <1>8, <2>8
  <2> QED
    BY <1>1, <1>4, <1>7, <2>1, <2>9 DEF TurnOf, Editing
<1> QED
  BY <1>9, <1>10

LEMMA DaemonLeavesKeepsTurns ==
  ASSUME TypesFit, TurnsKept, DaemonLeaves, Listed \subseteq Listed'
  PROVE  TurnsKept'
<1> SUFFICES ASSUME NEW s \in Stores \ disturbed' PROVE TurnOf(s)'
  BY DEF TurnsKept
<1>1. \A p \in Procs : ~Editing(p, s)
  BY DEF DaemonLeaves
<1>2. \A p \in Procs : pc'[p] # "idle" => pc'[p] = pc[p] /\ op'[p] = op[p]
  BY DEF DaemonLeaves
<1>3. \A p \in Procs : ~Editing(p, s)'
  BY <1>1, <1>2 DEF Editing
<1>4. file'[s] = EmptyFile
  BY DEF DaemonLeaves
<1>5. Matches(<< >>)' /\ CacheIn(<< >>)' /\ << >> \in Docs(s)'
  <2>1. << >> \in Docs(s)'
    BY EmptyFacts, DocsGrow
  <2>2. Matches(<< >>)' /\ CacheIn(<< >>)'
    BY EmptyFacts DEF DaemonLeaves, Matches, CacheIn
  <2> QED
    BY <2>1, <2>2
<1>6. Stands(s, << >>)'
  BY <1>5 DEF Stands
<1>7. Stands(s, file[s].doc)'
  BY <1>4, <1>6, EmptyFacts
<1>8. \A p \in Procs : ~Writing(p, s)' /\ ~(pc'[p] = "truncate" /\ StoreOf(op'[p].kind) = s)
  BY <1>3 DEF Editing, Writing
<1> QED
  BY <1>3, <1>4, <1>7, <1>8, EmptyFacts DEF TurnOf

LEMMA StepKeepsTurns ==
  ASSUME StoresDiffer, TypesFit, TurnsKept, [Next]_vars
  PROVE  TurnsKept'
<1>1. Listed \subseteq Listed'
  BY ListedGrows
<1>2. CASE Calm
  BY <1>1, <1>2, CalmKeepsTurns
<1>3. ASSUME NEW p \in Procs, NEW o \in Ops, Call(p, o) PROVE Calm
  BY <1>3 DEF Call, Goto, Calm, EditStates, history, TypesFit, Framed
<1>4. ASSUME NEW p \in Procs, Check(p) PROVE Calm
  BY <1>4 DEF Check, Goto, Calm, EditStates, history, TypesFit, Framed
<1>5. ASSUME NEW p \in Procs, CheckCut(p) PROVE Calm
  BY <1>5 DEF CheckCut, Goto, Calm, EditStates, TypesFit, Framed
<1>6. ASSUME NEW p \in Procs, Crash(p) PROVE Calm
  BY <1>6 DEF Crash, Goto, Calm, EditStates, TypesFit, Framed
<1> DEFINE Beside == UNCHANGED <<file, client, held, last, disturbed>> /\ (\A n \in Names : cache'[n] \in {cache[n], None})
<1>7. Beside => Calm
  BY DEF Calm, client
<1>8. DaemonDies => Beside
  BY DEF DaemonDies, history
<1>9. ASSUME NEW n \in Names, CursorDelete(n) \/ CursorUse(n) \/ \E a \in BOOLEAN : CursorSet(n, a) PROVE Beside
  BY <1>9 DEF CursorDelete, CursorUse, CursorSet, history
<1>10. UNCHANGED vars => Beside
  BY DEF vars, history
<1> HIDE DEF Beside
<1>11. \/ Calm
       \/ \E p \in Procs : Load(p) \/ Truncate(p) \/ Write(p)
       \/ DaemonLeaves \/ \E n \in Names : Query(n)
  BY <1>3, <1>4, <1>5, <1>6, <1>7, <1>8, <1>9, <1>10 DEF Next
<1> QED
  BY <1>1, <1>2, <1>11,
     LoadKeepsTurns, TruncateKeepsTurns, WriteKeepsTurns, QueryKeepsTurns, DaemonLeavesKeepsTurns

(***************************************************************************)
(* Cursors, and the whole invariant.                                       *)
(***************************************************************************)
LEMMA StepKeepsCursors ==
  ASSUME CursorsFit, [Next]_vars
  PROVE  CursorsFit'
<1>1. CASE cursors' = cursors
  BY <1>1 DEF CursorsFit, ActiveCursorExists
<1>2. CASE cursors' = NoCursors
  BY <1>2 DEF CursorsFit, ActiveCursorExists, NoCursors
<1>3. PICK names \in SUBSET Names, active \in Names \cup {None} :
        cursors = [names |-> names, active |-> active] /\ (active # None => active \in names)
  BY DEF CursorsFit, ActiveCursorExists
<1>4. ASSUME NEW n \in Names, CursorDelete(n) PROVE CursorsFit'
  <2>1. cursors' = [names |-> names \ {n}, active |-> IF active = n THEN None ELSE active] \/ cursors' = NoCursors
    BY <1>3, <1>4 DEF CursorDelete, Saved
  <2>2. ASSUME cursors' = [names |-> names \ {n}, active |-> IF active = n THEN None ELSE active] PROVE CursorsFit'
    BY <1>3, <2>2 DEF CursorsFit, ActiveCursorExists
  <2> QED
    BY <1>2, <2>1, <2>2
<1>5. ASSUME NEW n \in Names, CursorUse(n) PROVE CursorsFit'
  <2>1. n \in names /\ (cursors' = [names |-> names, active |-> n] \/ cursors' = NoCursors)
    BY <1>3, <1>5 DEF CursorUse, Saved
  <2>2. ASSUME cursors' = [names |-> names, active |-> n] PROVE CursorsFit'
    BY <2>1, <2>2 DEF CursorsFit, ActiveCursorExists
  <2> QED
    BY <1>2, <2>1, <2>2
<1>6. ASSUME NEW n \in Names, NEW a \in BOOLEAN, CursorSet(n, a) PROVE CursorsFit'
  <2>1. cursors' = [names |-> names \cup {n}, active |-> IF a THEN n ELSE active] \/ cursors' = NoCursors
    BY <1>3, <1>6 DEF CursorSet, Saved
  <2>2. ASSUME cursors' = [names |-> names \cup {n}, active |-> IF a THEN n ELSE active] PROVE CursorsFit'
    BY <1>3, <2>2 DEF CursorsFit, ActiveCursorExists
  <2> QED
    BY <1>2, <2>1, <2>2
<1>7. \/ cursors' = cursors \/ cursors' = NoCursors
      \/ \E n \in Names : CursorDelete(n) \/ CursorUse(n) \/ \E a \in BOOLEAN : CursorSet(n, a)
  BY DEF Next, vars, Call, Check, CheckCut, Load, Truncate, Write, Crash, DaemonDies, DaemonLeaves, Query
<1> QED
  BY <1>1, <1>2, <1>4, <1>5, <1>6, <1>7

LEMMA StepKeepsIInv ==
  ASSUME StoresDiffer
  PROVE  IInv /\ [Next]_vars => IInv'
BY StepKeepsTypes, StepKeepsTurns, StepKeepsCursors DEF IInv

(***************************************************************************)
(* What follows from it.                                                   *)
(***************************************************************************)
LEMMA FilesFit ==
  ASSUME TypesFit, NEW s \in Stores
  PROVE  file[s].doc \in Seq(EntriesOf(Bodies(s))) /\ Unique(file[s].doc)
BY DEF TypesFit, Docs

LEMMA IInvGivesUnique == IInv => NamesAreUnique
BY FilesFit DEF IInv, NamesAreUnique, Unique

LEMMA IInvGivesListed == IInv => ListedSignalsExist
<1> SUFFICES ASSUME IInv, ~unanswered, NEW i \in DOMAIN file["lists"].doc
             PROVE  ToSet(file["lists"].doc[i].body) \subseteq Existing
  BY DEF ListedSignalsExist
<1>1. file["lists"].doc \in Seq(EntriesOf(Seq(Existing)))
  BY FilesFit DEF IInv, Stores, Bodies, Listed
<1>2. file["lists"].doc[i] \in EntriesOf(Seq(Existing))
  BY <1>1
<1>3. PICK body \in Seq(Existing) : body = file["lists"].doc[i].body
  BY <1>2 DEF EntriesOf
<1> QED
  BY <1>3 DEF ToSet

LEMMA IInvGivesSerial == IInv => SerialListsAreKept
<1> SUFFICES ASSUME IInv, "lists" \notin disturbed, \A p \in Procs : ~Writing(p, "lists")
             PROVE  file["lists"].ok /\ Matches(file["lists"].doc)
  BY Zenon DEF SerialListsAreKept, Matches, Writing
<1> QED
  BY DEF IInv, TurnsKept, TurnOf, Stands, Stores

LEMMA IInvGivesCached == IInv => CachedIsStored
<1> SUFFICES ASSUME IInv, "apb" \notin disturbed, \A p \in Procs : ~(pc[p] = "write" /\ op[p].kind = "apb")
             PROVE  CacheIn(file["apb"].doc)
  BY DEF CachedIsStored, CacheIn, Loaded
<1>1. \A p \in Procs : ~Writing(p, "apb")
  BY OpsFacts DEF IInv, TypesFit, ProcFits, Writing
<1> QED
  BY <1>1 DEF IInv, TurnsKept, TurnOf, Stands, Stores

LEMMA IInvGivesCursor == IInv => ActiveCursorExists
BY DEF IInv, CursorsFit
===============================================================================
