------------------------------ MODULE ListDiff ------------------------------
(***************************************************************************)
(* list diff: find_list_diff (src/server/fsdb_value_reader.cpp), which     *)
(* looks for the time in a window at which the signals of a list begin to  *)
(* differ.  It goes from change to change and counts the values there are; *)
(* unlike the other scans it judges after each change, and not after all   *)
(* the changes of a time.                                                  *)
(*                                                                         *)
(* A list may have a signal twice, and NPI may have one handle for both    *)
(* ("one"); it may also have one that the file does not have.              *)
(***************************************************************************)
EXTENDS ClockedFile, FiniteSetsExt

CONSTANTS
  Asks,      \* bound: what is asked
  LastTick   \* bound: the last tick of the file

VARIABLES
  ask,     \* the request, or None before
  reply    \* the time that is answered, or None

vars == <<file, ask, reply>>
Signals == {"a", "b"}
Bits == {"0", "1"}

\* The value of each entry, and how many entries have each value.
Counts(values) == [v \in Bits |-> Cardinality({i \in DOMAIN values : values[i] = v})]
Start(w) ==
  LET values == [i \in DOMAIN w.list |-> Level(w.begin, w.list[i])]
  IN [values |-> values, counts |-> Counts(values), at |-> None]

Differ(s) == Cardinality({v \in Bits : s.counts[v] > 0}) > 1
DiffAt(s, t) == IF Differ(s) THEN [s EXCEPT !.at = t] ELSE s

\* Mutant of Moved1: the value that was there is still counted.
Moved1Uncounted(s, i, v) == [s EXCEPT !.values[i] = v, !.counts[v] = @ + 1]

Moved1(s, i, v) ==
  LET old == [s.counts EXCEPT ![s.values[i]] = @ - 1]
  IN [s EXCEPT !.values[i] = v, !.counts = [old EXCEPT ![v] = @ + 1]]

\* The entries NPI reports a change for: with one handle, only the first of a signal
\* is found by it.
Entries(w) == {i \in DOMAIN w.list : w.one => \A j \in 1 .. i - 1 : w.list[j] # w.list[i]}
EntriesOf(w, sig) == SelectSeq([i \in DOMAIN w.list |-> i], LAMBDA i : i \in Entries(w) /\ w.list[i] = sig)
Reports(w) ==
  LET moves == Changes(w, w.order)
  IN FlattenSeq([k \in DOMAIN moves |->
       LET its == EntriesOf(w, moves[k].sig)
       IN [n \in DOMAIN its |-> [time |-> moves[k].time, entry |-> its[n], value |-> Level(moves[k].time, moves[k].sig)]]])

FindListDiff(w) ==
  IF w.list = << >> \/ ~(ToSet(w.list) \subseteq Signals) THEN None
  ELSE FoldLeft(LAMBDA s, r : IF s.at # None THEN s ELSE DiffAt(Moved1(s, r.entry, r.value), r.time),
                DiffAt(Start(w), w.begin), Reports(w)).at
-----------------------------------------------------------------------------
Init == file \in {<<l>> : l \in [Signals -> Bits]} /\ ask = None /\ reply = None

\* The simulator writes the next tick.
Write ==
  /\ Len(file) <= LastTick /\ ask = None
  /\ \E l \in [Signals -> Bits] : file' = Append(file, l)
  /\ UNCHANGED <<ask, reply>>

Ask ==
  /\ Len(file) = LastTick + 1 /\ ask = None
  /\ \E w \in Asks : ask' = w /\ reply' = FindListDiff(w)
  /\ UNCHANGED file

Next == Write \/ Ask
Spec == Init /\ [][Next]_vars
-----------------------------------------------------------------------------
Listed == ToSet(ask.list)
Differing == {t \in ask.begin .. ask.end : \E x, y \in Listed : Level(t, x) # Level(t, y)}
MovesAt(t) == {i \in DOMAIN ask.list : Moved(t, ask.list[i])}

\* list diff misses no difference: the time it gives is not later than the earliest
\* one.  An earlier one is a time at which several entries of the list move, judged
\* in the middle.  A list with a signal the file does not have is not looked at.
DiffIsNotMissed ==
  ask # None =>
    IF ~(Listed \subseteq Signals) THEN reply = None
    ELSE /\ Differing # {} => reply # None /\ reply <= Min(Differing)
         /\ reply # None => reply \in Differing \/ Cardinality(MovesAt(reply)) > 1

\* README.md:355: list diff is to "Find the earliest difference time": at the time
\* it gives, the signals differ.
DiffIsThere ==
  ask # None /\ Cardinality(Listed) > 1 => (reply # None => reply \in Differing)
=============================================================================
