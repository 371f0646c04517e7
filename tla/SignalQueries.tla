--------------------------- MODULE SignalQueries ---------------------------
(***************************************************************************)
(* Requests about one signal (src/server/server.cpp).  signal.changes,     *)
(* signal.stability, inspect_signal and detect_anomaly go by the changes   *)
(* of a window, signal.trend and signal.statistics by the edges of a       *)
(* clock.                                                                  *)
(*                                                                         *)
(* The file has the clock "clk", a signal "sig", and "alias", the clock's  *)
(* own waveform under a handle of its own; a level is a sequence of bits   *)
(* from the left.  Whether NPI's iterator also hands over the level at the *)
(* beginning of a window is part of a request.                             *)
(***************************************************************************)
EXTENDS ClockedFile

CONSTANTS
  Values,    \* levels of "sig"; in one file they have one width
  Asks,      \* bound: what is asked
  LastTick,  \* bound: the last tick of the file
  WordBits   \* the bits of an unsigned long long

VARIABLES
  ask,     \* the request, or None before
  reply    \* what it is answered

vars == <<file, ask, reply>>

Clk(t) == IF t % 2 = 1 THEN "1" ELSE "0"
Levelled(v, t) == [clk |-> Clk(t), alias |-> <<Clk(t)>>, sig |-> v]
-----------------------------------------------------------------------------
(* read_signal_changes *)

Change(t, sig) == [time |-> t, value |-> Level(t, sig)]
Reported(w, sig) ==
  LET moved == Changes(w, <<sig>>)
      first == IF w.initial /\ ~Moved(w.begin, sig) THEN <<Change(w.begin, sig)>> ELSE << >>
  IN first \o [i \in DOMAIN moved |-> Change(moved[i].time, sig)]

NoLimit == -1
Cut(seq, limit) == IF limit >= 0 /\ Len(seq) > limit THEN SubSeq(seq, 1, limit) ELSE seq

\* Mutant of SignalChanges: no more is read than is listed.
SignalChangesToLimit(w) ==
  LET read == Cut(Reported(w, w.sig), w.limit)
      list == Cut(read, w.limit)
  IN [list |-> list, truncated |-> Len(list) < Len(read), count |-> Len(read),
      final |-> IF read = << >> THEN None ELSE Last(read)]

\* signal.changes reads one change more than it lists, to know of it; the count,
\* the final value and the last change are of all it read.
SignalChanges(w) ==
  LET read == Cut(Reported(w, w.sig), IF w.limit >= 0 THEN w.limit + 1 ELSE NoLimit)
      list == Cut(read, w.limit)
  IN [list |-> list, truncated |-> Len(list) < Len(read), count |-> Len(read),
      final |-> IF read = << >> THEN None ELSE Last(read)]

\* Mutant of SignalStability: the change that ends the scan is not listed.
SignalStabilityUpTo(w) ==
  LET all == Reported(w, w.sig)
      k == SelectInSeq(all, LAMBDA c : c.value # all[1].value)
  IN [stable |-> k = 0, list |-> IF k = 0 THEN all ELSE SubSeq(all, 1, k - 1)]

\* signal.stability reads up to the first value that is not the first one.
SignalStability(w) ==
  LET all == Reported(w, w.sig)
      k == SelectInSeq(all, LAMBDA c : c.value # all[1].value)
  IN [stable |-> k = 0, list |-> IF k = 0 THEN all ELSE SubSeq(all, 1, k)]

\* inspect_signal: the widths between the changes listed.
Sum(set) == FoldLeft(LAMBDA n, p : n + p[2] - p[1], 0, SetToSeq(set))
Widths(list) == {<<list[i - 1].time, list[i].time>> : i \in 2 .. Len(list)}
InspectSignal(w) ==
  LET c == SignalChanges(w)
      widths == Widths(c.list)
  IN [edges |-> Len(c.list), periods |-> Cardinality(widths), total |-> Sum(widths),
      glitches |-> Cardinality({p \in widths : p[2] - p[1] < w.glitch}), truncated |-> c.truncated]
-----------------------------------------------------------------------------
(* signal.trend and signal.statistics *)

\* Of the clock's own handle only edges are taken.
SampledBits(values, sig) == IF sig = "clk" THEN <<values.clk>> ELSE values[sig]
IsKnown(bits) == \A i \in DOMAIN bits : bits[i] # "x"
\* Bits shifted into a word: those on the left are lost.
Number(bits) == FoldLeft(LAMBDA n, b : (2 * n + IF b = "1" THEN 1 ELSE 0) % 2^WordBits, 0, bits)
Greater(a, b) == IF a > b THEN a ELSE b
Smaller(a, b) == IF a < b THEN a ELSE b
Count(n, yes) == IF yes THEN n + 1 ELSE n

TrendOf(s, v) ==
  IF ~s.have
  THEN [s EXCEPT !.have = TRUE, !.first = v, !.final = v, !.min = v, !.max = v]
  ELSE [s EXCEPT !.stable = @ /\ v = s.final, !.inc = @ /\ v >= s.final, !.dec = @ /\ v <= s.final,
                 !.min = Smaller(v, @), !.max = Greater(v, @), !.final = v]

Monotonic(s) ==
  CASE s.stable -> "stable"
    [] ~s.stable /\ s.inc -> "increasing"
    [] ~s.stable /\ ~s.inc /\ s.dec -> "decreasing"
    [] OTHER -> "none"

\* One sample of signal.trend, and one of signal.statistics, whose transitions
\* and change times are those from known value to known value.
TrendSample(w, s, x) ==
  LET bits == SampledBits(x.values, w.sig)
  IN IF IsKnown(bits) THEN TrendOf(s, Number(bits)) ELSE [s EXCEPT !.unknown = @ + 1]

\* Mutant of StatisticsOf: a transition is counted from any value but the first.
StatisticsOfFirst(s, bits, t) ==
  LET v == Number(bits)
      moves == s.have /\ v # s.first
  IN [TrendOf(s, v) EXCEPT
        !.known = @ + 1, !.low = Count(@, v = 0), !.high = Count(@, v # 0 /\ Len(bits) = 1),
        !.transitions = Count(@, moves),
        !.firstChange = IF moves /\ @ = None THEN t ELSE @, !.lastChange = IF moves THEN t ELSE @]

StatisticsOf(s, bits, t) ==
  LET v == Number(bits)
      moves == s.have /\ v # s.final
  IN [TrendOf(s, v) EXCEPT
        !.known = @ + 1, !.low = Count(@, v = 0), !.high = Count(@, v # 0 /\ Len(bits) = 1),
        !.transitions = Count(@, moves),
        !.firstChange = IF moves /\ @ = None THEN t ELSE @, !.lastChange = IF moves THEN t ELSE @]
StatisticsSample(w, s, x) ==
  LET bits == SampledBits(x.values, w.sig)
  IN IF IsKnown(bits) THEN StatisticsOf(s, bits, x.time) ELSE [s EXCEPT !.unknown = @ + 1]

NoTrend ==
  [have |-> FALSE, stable |-> TRUE, inc |-> TRUE, dec |-> TRUE, unknown |-> 0,
   first |-> 0, final |-> 0, min |-> 0, max |-> 0] @@ Fresh
NoStatistics ==
  [known |-> 0, low |-> 0, high |-> 0, transitions |-> 0, firstChange |-> None, lastChange |-> None] @@ NoTrend

SignalTrend(w) ==
  LET s == FoldLeft(LAMBDA a, x : Visited(w, a, TrendSample(w, Counted(a), x)), NoTrend, SampleOnClock(w))
  IN [monotonic |-> Monotonic(s)] @@ s
SignalStatistics(w) ==
  FoldLeft(LAMBDA a, x : Visited(w, a, StatisticsSample(w, Counted(a), x)), NoStatistics, SampleOnClock(w))
-----------------------------------------------------------------------------
(* detect_anomaly *)

Anomaly(type, sig, begin, end) == [type |-> type, sig |-> sig, begin |-> begin, end |-> end]

\* The findings at one change; the last change has no width.
AnomaliesAt(w, sig, changes, i) ==
  LET t == changes[i].time
      u == IF i < Len(changes) THEN changes[i + 1].time ELSE None
  IN (IF w.unknown /\ ~IsKnown(changes[i].value) THEN <<Anomaly("unknown", sig, t, t)>> ELSE << >>)
     \o (IF w.glitch # None /\ u # None /\ u - t < w.glitch THEN <<Anomaly("glitch", sig, t, u)>> ELSE << >>)
     \o (IF w.stuck # None /\ u # None /\ u - t >= w.stuck THEN <<Anomaly("stuck", sig, t, u)>> ELSE << >>)

Full(w, findings) == w.limit >= 0 /\ Len(findings) >= w.limit

\* Mutant of SignalAnomalies: the limit ends the request only between signals.
SignalAnomaliesWhole(w, findings, sig) ==
  LET changes == Reported(w, sig)
  IN IF Full(w, findings) THEN findings
     ELSE findings \o FlattenSeq([i \in DOMAIN changes |-> AnomaliesAt(w, sig, changes, i)])

\* The limit is looked at before each signal and before each change.
SignalAnomalies(w, findings, sig) ==
  LET changes == Reported(w, sig)
  IN FoldLeft(LAMBDA f, i : IF Full(w, f) THEN f ELSE f \o AnomaliesAt(w, sig, changes, i),
              findings, [i \in DOMAIN changes |-> i])

DetectAnomaly(w) ==
  LET findings == FoldLeft(LAMBDA f, sig : SignalAnomalies(w, f, sig), << >>, w.sigs)
  IN [findings |-> findings, truncated |-> Full(w, findings)]
-----------------------------------------------------------------------------
Init ==
  /\ \E v \in Values : file = <<Levelled(v, 0)>>
  /\ ask = None /\ reply = None

\* The simulator writes the next tick.
Write ==
  /\ Len(file) <= LastTick /\ ask = None
  /\ \E v \in Values :
       /\ Len(v) = Len(file[1].sig)
       /\ file' = Append(file, Levelled(v, Len(file)))
  /\ UNCHANGED <<ask, reply>>

Answer(w) ==
  CASE w.kind = "changes" -> SignalChanges(w)
    [] w.kind = "stability" -> SignalStability(w)
    [] w.kind = "inspect" -> InspectSignal(w)
    [] w.kind = "trend" -> SignalTrend(w)
    [] w.kind = "statistics" -> SignalStatistics(w)
    [] w.kind = "anomaly" -> DetectAnomaly(w)

\* A request, of a window of the file.
Ask ==
  /\ Len(file) = LastTick + 1 /\ ask = None
  /\ \E w \in Asks : ask' = w /\ reply' = Answer(w)
  /\ UNCHANGED file

Next == Write \/ Ask
Spec == Init /\ [][Next]_vars
-----------------------------------------------------------------------------
Asked(kind) == ask # None /\ ask.kind = kind
Window(w) == w.begin .. w.end
MovesIn(w, sig) == {t \in Window(w) : Moved(t, sig)}
Latest(changes) == CHOOSE c \in changes : \A d \in changes : d.time <= c.time
Least(S) == CHOOSE t \in S : \A u \in S : t <= u
Greatest(S) == CHOOSE t \in S : \A u \in S : u <= t

\* signal.changes: the list rebuilds the signal, over the window, or, when it was
\* cut, up to the one change that was read and not listed; and the final value is
\* the level there.
Rebuilt(t) ==
  LET before == {c \in ToSet(reply.list) : c.time <= t}
  IN IF before = {} THEN Level(ask.begin, ask.sig) ELSE Latest(before).value
ChangesRebuildTheSignal ==
  Asked("changes") =>
    LET end == IF reply.truncated THEN reply.final.time - 1 ELSE ask.end
    IN /\ \A t \in ask.begin .. end : Level(t, ask.sig) = Rebuilt(t)
       /\ reply.final # None => reply.final.value = Level(IF reply.truncated THEN end + 1 ELSE end, ask.sig)
       /\ reply.truncated => Len(reply.list) = ask.limit /\ reply.count = ask.limit + 1

\* signal.stability calls a signal stable when it keeps one level: from the
\* beginning of the window, or, if NPI does not report that level, from the first
\* change; and otherwise ends its list with the first other level.
StableFrom == IF ask.initial \/ MovesIn(ask, ask.sig) = {} THEN ask.begin ELSE Least(MovesIn(ask, ask.sig))
StabilityIsConstancy ==
  Asked("stability") =>
    LET other == {t \in StableFrom .. ask.end : Level(t, ask.sig) # Level(StableFrom, ask.sig)}
    IN /\ reply.stable = (other = {})
       /\ ~reply.stable => Last(reply.list).time = Least(other)

\* signal.trend and signal.statistics tell of the levels at the edges of the
\* clock, in the order of the edges and without the unknown ones: what is counted,
\* the extremes, the transitions and the trend.  A signal wider than a word is its
\* low bits, and the clock itself, as long as NPI knows it by one handle, is what
\* it was before the window.
AtEdge(t) ==
  IF ask.sig = "clk" THEN <<Level(IF ask.begin > 0 THEN ask.begin - 1 ELSE 0, "clk")>> ELSE Level(t, ask.sig)
Word(t) == Number(AtEdge(t))
KnownTicks == {t \in Seen(ask) : IsKnown(AtEdge(t))}
Steps == {p \in KnownTicks \X KnownTicks : p[1] < p[2] /\ \A t \in KnownTicks : t <= p[1] \/ p[2] <= t}
Turns == {p \in Steps : Word(p[1]) # Word(p[2])}
Rises == \A t, u \in KnownTicks : t <= u => Word(t) <= Word(u)
Falls == \A t, u \in KnownTicks : t <= u => Word(t) >= Word(u)
Extremes ==
  KnownTicks # {} =>
    /\ reply.first = Word(Least(KnownTicks)) /\ reply.final = Word(Greatest(KnownTicks))
    /\ {Word(t) : t \in KnownTicks} \subseteq reply.min .. reply.max
    /\ {reply.min, reply.max} \subseteq {Word(t) : t \in KnownTicks}
SamplesAreSummedUp ==
  Asked("trend") \/ Asked("statistics") =>
    /\ Extremes
    /\ reply.unknown = Cardinality(Seen(ask) \ KnownTicks)
    /\ reply.truncated = (Seen(ask) # SampleTicks(ask))
    /\ Asked("trend") =>
         reply.monotonic = IF Rises /\ Falls THEN "stable" ELSE IF Rises THEN "increasing" ELSE IF Falls THEN "decreasing" ELSE "none"
    /\ Asked("statistics") =>
         /\ reply.low = Cardinality({t \in KnownTicks : Word(t) = 0})
         /\ Len(file[1].sig) = 1 => reply.low + reply.high = Cardinality(KnownTicks)
         /\ reply.transitions = Cardinality(Turns)
         /\ Turns # {} => /\ reply.firstChange = Least({p[2] : p \in Turns})
                          /\ reply.lastChange = Greatest({p[2] : p \in Turns})

\* detect_anomaly: what is found is there, each once, and an answer that is not cut
\* has all unknown values, all pulses shorter than asked, and all levels held as
\* long as asked between two changes; one that is cut has at most two findings
\* more than the limit.  A level held to the end of the window may be found too,
\* see StuckToTheEndIsFound.  inspect_signal, when its list is not cut, counts the
\* same pulses.
Marks(sig) == MovesIn(ask, sig) \cup IF ask.initial THEN {ask.begin} ELSE {}
Spans(sig) ==
  {p \in Marks(sig) \X Marks(sig) : p[1] < p[2] /\ \A t \in Marks(sig) : t <= p[1] \/ p[2] <= t}
LastSpan(sig) == {<<t, ask.end>> : t \in {u \in Marks(sig) : \A v \in Marks(sig) : v <= u}}
StuckIn(sig, spans) ==
  {Anomaly("stuck", sig, p[1], p[2]) : p \in {q \in spans : ask.stuck # None /\ q[2] - q[1] >= ask.stuck}}
Anomalies(sig) ==
  {Anomaly("unknown", sig, t, t) : t \in {u \in Marks(sig) : ask.unknown /\ ~IsKnown(Level(u, sig))}}
  \cup {Anomaly("glitch", sig, p[1], p[2]) : p \in {q \in Spans(sig) : ask.glitch # None /\ q[2] - q[1] < ask.glitch}}
  \cup StuckIn(sig, Spans(sig))
AnomaliesAreFound ==
  /\ Asked("anomaly") =>
       LET found == ToSet(reply.findings)
       IN /\ Len(reply.findings) = Cardinality(found)
          /\ found \subseteq UNION {Anomalies(sig) \cup StuckIn(sig, LastSpan(sig)) : sig \in ToSet(ask.sigs)}
          /\ ~reply.truncated => UNION {Anomalies(sig) : sig \in ToSet(ask.sigs)} \subseteq found
          /\ reply.truncated => Len(reply.findings) \in ask.limit .. ask.limit + 2
  /\ Asked("inspect") /\ ~reply.truncated =>
       /\ reply.glitches = Cardinality({p \in Spans(ask.sig) : p[2] - p[1] < ask.glitch})
       /\ reply.periods = Cardinality(Spans(ask.sig))
       /\ Spans(ask.sig) # {} => reply.total = Greatest(Marks(ask.sig)) - Least(Marks(ask.sig))

\* "Find waveform anomalies such as glitches, stuck values, and x/z" (SKILL.md:556):
\* a signal that does not change any more, for as long as asked before the end of
\* the window, is found stuck.  The code measures a level only up to the next
\* change.
StuckToTheEndIsFound ==
  Asked("anomaly") /\ ~reply.truncated /\ ask.stuck # None =>
    \A sig \in ToSet(ask.sigs), t \in Window(ask) :
      /\ t \in MovesIn(ask, sig) /\ \A u \in MovesIn(ask, sig) : u <= t
      /\ ask.end - t >= ask.stuck
      => \E f \in ToSet(reply.findings) : f.type = "stuck" /\ f.sig = sig /\ f.begin = t
=============================================================================
