----------------------------- MODULE TimeSpecs -----------------------------
(***************************************************************************)
(* Times and windows as a user writes them: absolute, at a cursor, or so   *)
(* many units or clock edges from it (src/common/time_spec.cpp), resolved  *)
(* by the daemon on the clock of its file (src/server/server.cpp); and     *)
(* windows around a time, which the daemon resolves from durations         *)
(* (json_time_range), while the client, for event.find, event.export,      *)
(* list.diff and the window it reports beside an answer, writes them as    *)
(* two times (build_range_specs in src/commands/cmd_ai.cpp).               *)
(*                                                                         *)
(* A text is a sequence of tokens: "@", "+", "-", numbers, units and       *)
(* words.  "cycle", "posedge" and "negedge" stand for the unit with its    *)
(* clock, which is the file's; a tick is the shortest duration.  NPI       *)
(* positions a clock at the first edge from a time on; what it does when   *)
(* there is none, fail or stay at the last, is part of a request.          *)
(***************************************************************************)
EXTENDS ClockedFile

CONSTANTS
  Numbers,   \* what a number token stands for
  Ticks,     \* the ticks of a unit
  Cursors,   \* the session's cursors: names, sequences of tokens, and times
  Asks,      \* bound: what is asked
  LastTick,  \* bound: the last tick of the file
  Top        \* the largest time, 2^64 - 1

VARIABLES
  ask,     \* the request, or None before
  reply    \* what it is answered

vars == <<file, ask, reply>>

Signs == {"+", "-"}
Edges == {"cycle", "posedge", "negedge"}

\* The tokens of a text; a field of a request is one, or None when it is not given.
Text == Seq(STRING)
Fields == (Text \ {<< >>}) \cup {None}

\* Tokens are strings, of one kind each, and a duration NPI can convert fits a time.
\* A request is for a time, at the cursor of a name, or the active one, or for a window.
ASSUME TimesAssumption ==
  /\ Top \in Nat /\ LastTick \in 0 .. Top /\ None \notin Asks \cup STRING \cup Text
  /\ Numbers \in [DOMAIN Numbers -> Nat] /\ "0" \in DOMAIN Numbers /\ Numbers["0"] = 0
  /\ Ticks \in [DOMAIN Ticks -> Nat] /\ "ns" \in DOMAIN Ticks
  /\ DOMAIN Numbers \cup DOMAIN Ticks \cup Signs \cup Edges \cup {"@", "max"} \subseteq STRING
  /\ DOMAIN Numbers \cap (Signs \cup {"@", "max"}) = {} /\ DOMAIN Ticks \cap (Signs \cup Edges) = {}
  /\ \A k \in DOMAIN Numbers, u \in DOMAIN Ticks : Numbers[k] * Ticks[u] <= Top
  /\ DOMAIN Cursors \subseteq Text \ {<< >>} /\ \A c \in DOMAIN Cursors : Cursors[c] \in 0 .. Top
  /\ \A w \in Asks :
       /\ w.kind \in {"time", "window"} /\ w.stays \in BOOLEAN /\ w.active \in Fields
       /\ w.kind = "time" =>
            /\ w.name \in Text /\ w.sign \in Signs \cup {None}
            /\ w.sign # None => w.number \in DOMAIN Numbers /\ w.unit \in DOMAIN Ticks \cup Edges
       /\ w.kind = "window" => {w.begin, w.end, w.around, w.before, w.after} \subseteq Fields

IsNumber(token) == token \in DOMAIN Numbers
At(text, i, tokens) == i <= Len(text) /\ text[i] \in tokens

\* A duration, or a refusal.
Bad == [ok |-> FALSE, value |-> 0, unit |-> "ns"]
Duration(value, unit) == [ok |-> TRUE, value |-> value, unit |-> unit]

\* parse_duration_spec: strtod takes a sign; without a unit it is ns.
Unsigned(text) == IF At(text, 1, Signs) THEN Tail(text) ELSE text
ParseDuration(text) ==
  LET n == Unsigned(text)
      sign == IF At(text, 1, {"-"}) THEN -1 ELSE 1
  IN IF n = << >> \/ ~IsNumber(n[1]) \/ Len(n) > 2 THEN Bad
     ELSE IF Len(n) = 1 THEN Duration(sign * Numbers[n[1]], "ns")
     ELSE IF n[2] \in DOMAIN Ticks \cup Edges THEN Duration(sign * Numbers[n[1]], n[2])
     ELSE Bad

\* parse_time_spec_text: a cursor's name goes on to a plus, or to a minus with a
\* number after it.
NameEnd(text) ==
  LET ends == {i \in 2 .. Len(text) : \/ text[i] = "+"
                                      \/ text[i] = "-" /\ i < Len(text) /\ IsNumber(text[i + 1])}
  IN IF ends = {} THEN Len(text) + 1 ELSE CHOOSE i \in ends : \A j \in ends : i <= j
-----------------------------------------------------------------------------
(* Resolving, with a time or a refusal. *)

Refused == [ok |-> FALSE, time |-> 0]
Resolved(t) == [ok |-> TRUE, time |-> t]

\* ClockEdgeCursor: the edges of the clock in the file.
EdgeTicks(unit) ==
  {t \in 1 .. Len(file) - 1 : IsEdge([posedge |-> unit # "negedge"], Level(t - 1, "clk"), Level(t, "clk"))}
FirstFrom(w, t, edges) ==
  LET from == {e \in edges : e >= t}
  IN IF from # {} THEN Resolved(CHOOSE e \in from : \A d \in from : e <= d)
     ELSE IF w.stays /\ edges # {} THEN Resolved(CHOOSE e \in edges : \A d \in edges : d <= e)
     ELSE Refused
Following(t, edges) == FirstFrom([stays |-> FALSE], t + 1, edges)
Previous(t, edges) ==
  LET before == {e \in edges : e < t}
  IN IF before = {} THEN Refused ELSE Resolved(CHOOSE e \in before : \A d \in before : d <= e)
PrevBefore(w, t, edges) ==
  LET at == FirstFrom(w, t, edges)
  IN IF ~at.ok \/ at.time < t THEN at ELSE Previous(at.time, edges)

\* Mutant of FirstAfter: an edge at the base is the first one.
FirstAfterInclusive(w, base, edges) == FirstFrom(w, base, edges)

\* The first edge after the base: an edge at it does not count.
FirstAfter(w, base, edges) ==
  LET at == FirstFrom(w, base, edges)
  IN IF at.ok /\ at.time <= base THEN Following(at.time, edges) ELSE at

\* resolve_cycle_offset: edge by edge, as many as asked.
Nth(first, step, n) ==
  LET at[k \in 1 .. n] == IF k = 1 THEN first ELSE IF at[k - 1].ok THEN step[at[k - 1].time] ELSE Refused
  IN at[n]
CycleOffset(w, base, d) ==
  LET edges == EdgeTicks(d.unit)
  IN IF d.value = 0 THEN Resolved(base)
     ELSE IF d.value > 0
     THEN Nth(FirstAfter(w, base, edges), [t \in edges |-> Following(t, edges)], d.value)
     ELSE Nth(PrevBefore(w, base, edges), [t \in edges |-> PrevBefore(w, t, edges)], -d.value)

\* apply_duration_offset: unsigned arithmetic, and a wrap is noticed.
Offset(w, base, d) ==
  IF d.unit \in Edges THEN CycleOffset(w, base, d)
  ELSE LET delta == Ticks[d.unit] * (IF d.value < 0 THEN -d.value ELSE d.value)
           sum == (base + delta) % (Top + 1)
       IN IF d.value < 0
          THEN IF base < delta THEN Refused ELSE Resolved(base - delta)
          ELSE IF sum < base THEN Refused ELSE Resolved(sum)

\* parse_user_time of a text without a cursor: a number and a unit, and
\* nothing else.
Absolute(text) ==
  LET d == ParseDuration(text)
  IN IF At(text, 1, {"-"}) \/ ~d.ok \/ d.unit \in Edges THEN Refused ELSE Resolved(d.value * Ticks[d.unit])

\* parse_user_time of a text with a cursor's name, or of the active one.
AtCursor(w, text) ==
  LET active == Len(text) = 1 \/ At(text, 2, Signs)
      end == IF active THEN 2 ELSE NameEnd(text)
      name == IF active THEN w.active ELSE SubSeq(text, 2, end - 1)
      d == ParseDuration(SubSeq(text, end + 1, Len(text)))
      offset == IF At(text, end, {"-"}) THEN Duration(-d.value, d.unit) ELSE d
  IN IF end <= Len(text) /\ ~d.ok THEN Refused
     ELSE IF name \notin DOMAIN Cursors THEN Refused
     ELSE IF end > Len(text) THEN Resolved(Cursors[name])
     ELSE Offset(w, Cursors[name], offset)

UserTime(w, text, allowMax) ==
  IF text = << >> THEN Refused
  ELSE IF allowMax /\ text = <<"max">> THEN Resolved(Top)
  ELSE IF text[1] = "@" THEN AtCursor(w, text) ELSE Absolute(text)
-----------------------------------------------------------------------------
(* Windows *)

Given(text, default) == IF text = None THEN default ELSE text
NoTime == <<"0", "ns">>
WindowOf(begin, end) == [ok |-> begin.ok /\ end.ok, begin |-> begin.time, end |-> end.time]
NoRange == WindowOf(Refused, Refused)

\* json_time_range: the durations are applied to the resolved time.
Bound(w, around, text, before) ==
  LET d == ParseDuration(text)
  IN IF ~d.ok \/ d.value < 0 THEN Refused
     ELSE Offset(w, around, IF before THEN Duration(-d.value, d.unit) ELSE d)
ByTimes(w) == w.begin # None \/ w.end # None \/ w.around = None
JsonTimeRange(w) ==
  IF ByTimes(w)
  THEN WindowOf(UserTime(w, Given(w.begin, NoTime), FALSE), UserTime(w, Given(w.end, <<"max">>), TRUE))
  ELSE LET around == UserTime(w, w.around, FALSE)
       IN IF ~around.ok THEN NoRange
          ELSE WindowOf(Bound(w, around.time, Given(w.before, NoTime), TRUE),
                     Bound(w, around.time, Given(w.after, NoTime), FALSE))

\* build_range_specs: the two times as texts, which the daemon resolves later.
RangeSpecs(w) ==
  IF ByTimes(w)
  THEN <<Given(w.begin, NoTime), Given(w.end, <<"max">>)>>
  ELSE <<w.around \o <<"-">> \o Given(w.before, NoTime), w.around \o <<"+">> \o Given(w.after, NoTime)>>
SpecRange(w) ==
  IF ~ByTimes(w) /\ (At(Given(w.before, << >>), 1, {"@"}) \/ At(Given(w.after, << >>), 1, {"@"}))
  THEN NoRange
  ELSE WindowOf(UserTime(w, RangeSpecs(w)[1], FALSE), UserTime(w, RangeSpecs(w)[2], TRUE))
-----------------------------------------------------------------------------
Init == file = <<[clk |-> "0"]>> /\ ask = None /\ reply = None

\* The simulator writes the next tick.
Write ==
  /\ Len(file) <= LastTick /\ ask = None
  /\ \E v \in {"0", "1"} : file' = Append(file, [clk |-> v])
  /\ UNCHANGED <<ask, reply>>

\* What a user writes for an offset from a cursor; with no sign, for the cursor.
Written(w) ==
  <<"@">> \o w.name \o IF w.sign = None THEN << >> ELSE <<w.sign, w.number, w.unit>>

\* A time, or a window by both of its readers.
Answer(w) ==
  CASE w.kind = "time" -> UserTime(w, Written(w), FALSE)
    [] w.kind = "window" -> [used |-> JsonTimeRange(w), specs |-> SpecRange(w)]
Ask ==
  /\ Len(file) = LastTick + 1 /\ ask = None
  /\ \E w \in Asks : ask' = w /\ reply' = Answer(w)
  /\ UNCHANGED file

Next == Write \/ Ask
Spec == Init /\ [][Next]_vars
-----------------------------------------------------------------------------
Asked(kind) == ask # None /\ ask.kind = kind

\* A name that begins with a minus, or has one before a number, is read as a shorter
\* name, or none, and an offset.
Plain(name) ==
  /\ ~At(name, 1, Signs)
  /\ \A i \in DOMAIN name : name[i] # "+" /\ ~(name[i] = "-" /\ i < Len(name) /\ IsNumber(name[i + 1]))

\* What "sign number unit" means at a base: so many ticks, or the n-th edge
\* strictly after or before.
Between(S, a, b) == {e \in S : a < e /\ e < b}
IsNth(n, base, t, edges) ==
  /\ t \in edges
  /\ n = 1 + Cardinality(Between(edges, base, t) \cup Between(edges, t, base))
Meant(sign, n, unit, base, r) ==
  LET edges == EdgeTicks(unit)
      ahead == {e \in edges : IF sign = "+" THEN e > base ELSE e < base}
      far == IF sign = "+" THEN base + n * Ticks[unit] ELSE base - n * Ticks[unit]
  IN IF unit \notin Edges THEN r = IF far \in 0 .. Top THEN Resolved(far) ELSE Refused
     ELSE IF n = 0 THEN r = Resolved(base)
     ELSE IF r.ok THEN r.time \in ahead /\ IsNth(n, base, r.time, edges)
     ELSE Cardinality(ahead) < n \/ (sign = "-" /\ ~ask.stays /\ \A e \in edges : e < base)

\* A time at a cursor is the cursor's, so many ticks from it, or the n-th edge of
\* the clock after or before it, never an edge at it; and it is refused only when
\* there is no such time, or, behind the last edge of the clock, when NPI cannot
\* position the clock there.
OffsetsAreMeant ==
  Asked("time") /\ Plain(ask.name) =>
    LET name == IF ask.name = << >> THEN ask.active ELSE ask.name
    IN IF name \notin DOMAIN Cursors THEN reply = Refused
       ELSE IF ask.sign = None THEN reply = Resolved(Cursors[name])
       ELSE Meant(ask.sign, Numbers[ask.number], ask.unit, Cursors[name], reply)

\* A window is the same to the daemon and to the client, which writes it as two
\* times, whenever both accept it; and at a cursor both do, or neither.  Except for a
\* duration with a sign of its own, which the text before it may take for a part of
\* the cursor's name.  A window around a time has that time in it.
NoSign(text) == text = None \/ IsNumber(text[1])
BareCursor(text) == At(text, 1, {"@"}) /\ Plain(Tail(text))
WindowsAgree ==
  Asked("window") =>
    /\ ByTimes(ask) => reply.used = reply.specs
    /\ reply.used.ok /\ reply.specs.ok /\ NoSign(ask.before) => reply.used = reply.specs
    /\ ~ByTimes(ask) /\ BareCursor(ask.around) /\ NoSign(ask.before) /\ NoSign(ask.after) => reply.used.ok = reply.specs.ok
    /\ ~ByTimes(ask) /\ reply.used.ok =>
         LET around == UserTime(ask, ask.around, FALSE).time
         IN reply.used.begin <= around /\ around <= reply.used.end

\* A time at a cursor is so many ticks or edges from it, and a window around a time
\* is the same whichever of its two readers resolves it.
TimesAreMeant == OffsetsAreMeant /\ WindowsAgree
=============================================================================
