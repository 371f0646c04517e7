--------------------------- MODULE EventAnalyzer ---------------------------
(***************************************************************************)
(* EventAnalyzer::analyze (src/event/event_analyzer.cpp): the clock edges  *)
(* of a window at which an expression holds.  export scans every value     *)
(* change; find goes from change to change of the signals the expression   *)
(* names and samples the edge that follows, when it can.                   *)
(*                                                                         *)
(* The file has a clock, a reset, and a signal.  "v" is an alias of the    *)
(* signal, "hi" a field of it, and "c" an alias of the clock.  The file is *)
(* written first and then asked.  NPI's order of the changes of one time,  *)
(* and whether it has one handle for the clock and for c, are part of a    *)
(* query.                                                                  *)
(***************************************************************************)
EXTENDS EventExpr, FiniteSets, FiniteSetsExt

CONSTANTS
  Values,      \* values of the signal: sequences of bits from the left
  Literals,    \* literals of expressions: their text to their value
  None,        \* no query yet
  Queries,     \* bound: what is asked
  LastTime     \* bound: the last time of the file

VARIABLES
  wave,    \* levels by time, wave[t + 1] those of time t
  query,   \* what is asked, or None before
  answer   \* what find, export and its groups say

vars == <<wave, query, answer>>
Time == 0 .. LastTime

Levels == [clk : {"0", "1"}, rst : {"0", "1"}, v : Values]

\* tree: the expression; begin, end: the window; gated: rst_n is configured;
\* field: the bits that hi is, from the right; lost: what of the configuration the
\* file or the aliases do not have; first: the changes NPI hands over before the
\* clock's, in every time; one: c has the clock's handle; by: what events are
\* grouped by.
Query ==
  [tree : {q.tree : q \in Queries}, begin : Time, end : Time, posedge : BOOLEAN, gated : BOOLEAN,
   field : Nat \X Nat, lost : {None, "clk", "rst", "v", "hi"}, first : SUBSET {"rst", "v", "c"},
   one : BOOLEAN, by : {"v", "hi"}]

\* What is asked can be asked, and no name is a literal.
EventsFit ==
  /\ LastTime \in Nat \ {0}
  /\ DOMAIN Literals \cap {"v", "c", "hi"} = {}
  /\ Queries \subseteq Query

At_(t) == wave[t + 1]
IsEdge(q, was, is) == was = (IF q.posedge THEN "0" ELSE "1") /\ is = (IF q.posedge THEN "1" ELSE "0")
-----------------------------------------------------------------------------
(* One edge *)

\* extract_slice_value: nothing when a bit is not there.
Slice(bits, field) ==
  LET hi == Max({field[1], field[2]})
      lo == Min({field[1], field[2]})
  IN IF hi >= Len(bits) THEN << >> ELSE SubSeq(bits, Len(bits) - hi, Len(bits) - lo)

Env(v, c, field) ==
  [x \in {"v"} |-> Signal(v)] @@ [x \in {"c"} |-> Signal(<<c>>)] @@ [x \in {"hi"} |-> Signal(Slice(v, field))] @@ Literals

Judged(s, t, holds) ==
  CASE holds = "error" -> [s EXCEPT !.error = TRUE]
    [] holds = "T" -> [s EXCEPT !.records = Append(@, [time |-> t, v |-> s.v, c |-> s.c])]
    [] OTHER -> s

\* process_edge; an error ends the whole query.
ProcessEdge(q, s, t) ==
  IF q.gated /\ s.rst # "1" THEN s
  ELSE IF Slice(s.v, q.field) = << >> THEN [s EXCEPT !.error = TRUE]
  ELSE Judged(s, t, Evaluated(TokensOf(q.tree), Env(s.v, s.c, q.field)))

\* The values before the window.
Before(q) == IF q.begin > 0 THEN q.begin - 1 ELSE q.begin
Initial(q) ==
  LET w == At_(Before(q))
  IN [clk |-> w.clk, rst |-> w.rst, v |-> w.v, c |-> w.clk, edge |-> FALSE, records |-> << >>, error |-> FALSE]

\* Before a query: the signals and aliases of the configuration, of which rst_n
\* may be empty, and the expression on values of zero.
ConfigIsValid(q) == q.lost = None \/ (q.lost = "rst" /\ ~q.gated)
ExprIsValid(q) ==
  Evaluated(TokensOf(q.tree), [x \in {"v", "c", "hi"} |-> Signal(<<"0">>)] @@ Literals) # "error"
-----------------------------------------------------------------------------
(* The scan *)

Full(s, limit) == limit > 0 /\ Len(s.records) >= limit

\* Mutant of TakenClock: what a time changes after the clock is not waited for.
TakenClockFirst(q, s, w, t) ==
  IF s.clk = w.clk THEN s
  ELSE LET e == [s EXCEPT !.clk = w.clk] IN IF IsEdge(q, s.clk, w.clk) THEN ProcessEdge(q, e, t) ELSE e

TakenClock(q, s, w, t) ==
  IF s.clk = w.clk THEN s ELSE [s EXCEPT !.clk = w.clk, !.edge = IsEdge(q, s.clk, w.clk)]

\* A change of the clock's handle is nobody else's.
TakenData(q, s, w, sigs) ==
  [s EXCEPT !.rst = IF "rst" \in sigs THEN w.rst ELSE @, !.v = IF "v" \in sigs THEN w.v ELSE @,
            !.c = IF "c" \in sigs /\ ~q.one THEN w.clk ELSE @]

FinishGroup(q, s, t) == IF s.edge THEN ProcessEdge(q, [s EXCEPT !.edge = FALSE], t) ELSE s

\* The changes of one time; the scan stops at an error and at the limit.
ScanTime(q, s, t, limit) ==
  IF s.error \/ Full(s, limit) THEN s
  ELSE LET w == At_(t) IN
       FinishGroup(q, TakenData(q, TakenClock(q, TakenData(q, s, w, q.first), w, t), w, {"rst", "v", "c"}), t)

Window(q) == [i \in 1 .. (IF q.end < q.begin THEN 0 ELSE q.end - q.begin + 1) |-> q.begin + i - 1]

Scan(q, limit) == FoldLeft(LAMBDA s, t : ScanTime(q, s, t, limit), Initial(q), Window(q))
-----------------------------------------------------------------------------
(* find *)

Edges(q) == {t \in Time \ {0} : IsEdge(q, At_(t - 1).clk, At_(t).clk)}

\* ClockEdgeCursor::first_at_or_after; LastTime + 1 when there is none.
EdgeFrom(q, t) ==
  LET later == {e \in Edges(q) : e >= t}
  IN IF later = {} THEN LastTime + 1 ELSE CHOOSE e \in later : \A f \in later : e <= f

\* Mutant of Candidates: the reset is not watched.
CandidatesWithoutReset(q) == {"v", "c"} \cap IdsIn(q.tree)

\* The signals whose changes are followed: those the expression names, and the
\* reset.
Candidates(q) == ({"v", "c"} \cap IdsIn(q.tree)) \cup (IF q.gated THEN {"rst"} ELSE {})

\* A field, or an expression without names, is left to the scan.
IsFast(q) ==
  /\ IdsIn(q.tree) \ DOMAIN Literals \subseteq {"v", "c"} /\ IdsIn(q.tree) \ DOMAIN Literals # {}
  /\ Candidates(q) # {}

Changes(q) ==
  LET signals == {IF s = "c" THEN "clk" ELSE s : s \in Candidates(q)}
  IN SelectSeq(Window(q), LAMBDA t : t > 0 /\ \E s \in signals : At_(t)[s] # At_(t - 1)[s])

\* sample_edge_and_process: all values at the edge; an edge is sampled once.
Sampled(q, s, e) ==
  IF s.over \/ s.error \/ s.records # << >> THEN s
  ELSE IF e > q.end THEN [s EXCEPT !.over = TRUE]
  ELSE IF e \in s.seen THEN s
  ELSE ProcessEdge(q, [s EXCEPT !.seen = @ \cup {e}, !.rst = At_(e).rst, !.v = At_(e).v, !.c = At_(e).clk], e)

\* The first edge of the window, and then the one after each change.
FastFind(q) ==
  LET s == [rst |-> "1", v |-> << >>, c |-> "0", seen |-> {}, over |-> FALSE, records |-> << >>, error |-> FALSE]
      first == IF EdgeFrom(q, q.begin) <= q.end THEN Sampled(q, s, EdgeFrom(q, q.begin)) ELSE s
  IN FoldLeft(LAMBDA a, t : Sampled(q, a, EdgeFrom(q, t)), first, Changes(q))

\* An answer: an error, or the events.
Refusal == [error |-> TRUE, events |-> << >>]
Said(s) == IF s.error THEN Refusal ELSE [error |-> FALSE, events |-> s.records]
Find(q) == Said(IF IsFast(q) THEN FastFind(q) ELSE Scan(q, 1))
Analyzed(q, answered) == IF ConfigIsValid(q) /\ ExprIsValid(q) THEN answered ELSE Refusal
Export(q, limit) == Analyzed(q, Said(Scan(q, limit)))
-----------------------------------------------------------------------------
(* aggregate_events in src/commands/cmd_ai.cpp: the client counts the events *)
(* it was sent, in groups of one value.                                      *)

\* event_group_value
Shown(bits) == IF bits = << >> \/ Has(bits, "x") THEN <<"unknown">> ELSE bits
GroupOf(q, e) == Shown(IF q.by = "v" THEN e.v ELSE Slice(e.v, q.field))

\* Mutant of Grouped: the last event of a group is the first one.
GroupedByFirst(groups, key, t) ==
  IF key \notin DOMAIN groups THEN (key :> [count |-> 1, first |-> t, last |-> t]) @@ groups
  ELSE [groups EXCEPT ![key].count = @ + 1]

Grouped(groups, key, t) ==
  IF key \notin DOMAIN groups THEN (key :> [count |-> 1, first |-> t, last |-> t]) @@ groups
  ELSE [groups EXCEPT ![key].count = @ + 1, ![key].last = t]
Aggregate(q, events, limit) ==
  [limited |-> limit > 0 /\ Len(events) >= limit,
   groups |-> FoldLeft(LAMBDA g, e : Grouped(g, GroupOf(q, e), e.time), << >>, events)]
-----------------------------------------------------------------------------
Init == wave = << >> /\ query = None /\ answer = None

\* The simulator writes the next time.
Write ==
  /\ Len(wave) <= LastTime /\ query = None
  /\ \E w \in Levels : wave' = Append(wave, w)
  /\ UNCHANGED <<query, answer>>

\* event find of one window, and event export and its groups, without a limit and
\* with one.
Ask ==
  /\ Len(wave) = LastTime + 1 /\ query = None
  /\ \E q \in Queries :
       LET all == Export(q, 0)
           first == Export(q, 1)
       IN /\ query' = q
          /\ answer' = [find |-> Analyzed(q, Find(q)), all |-> all, first |-> first,
                        groups |-> <<Aggregate(q, all.events, 0), Aggregate(q, first.events, 1)>>]
  /\ UNCHANGED wave

Next == Write \/ Ask
Spec == Init /\ [][Next]_vars
-----------------------------------------------------------------------------
\* The edges of the window outside reset, and those at which the expression is
\* true by its meaning.  With one handle for both, c is in a scan what the clock was
\* before the window.
Open(q) == {t \in Edges(q) : q.begin <= t /\ t <= q.end /\ (q.gated => At_(t).rst = "1")}
ClockAlias(q, t) == At_(IF q.one THEN Before(q) ELSE t).clk
Matching(q) == {t \in Open(q) : Meaning(q.tree, Env(At_(t).v, ClockAlias(q, t), q.field)) = 2}
Refused(q) == \/ q.lost \in {"clk", "v", "hi"} \/ (q.gated /\ q.lost = "rst")
              \/ ~(IdsIn(q.tree) \subseteq {"v", "c", "hi"} \cup DOMAIN Literals)
Broken(q) == Refused(q) \/ (Open(q) # {} /\ \E v \in Values : Slice(v, q.field) = << >>)

\* event export: every edge of the window at which the expression is true, with
\* the levels after all the changes of that time, once and in order; a limit
\* keeps the first ones; a field that is not in the signal is an error.
ExportIsExact ==
  query # None =>
    LET hits == Matching(query)
        times == SelectSeq(Window(query), LAMBDA t : t \in hits)
        due == [i \in DOMAIN times |-> [time |-> times[i], v |-> At_(times[i]).v, c |-> ClockAlias(query, times[i])]]
    IN IF Broken(query) THEN answer.all.error /\ answer.first.error
       ELSE /\ answer.all = [error |-> FALSE, events |-> due]
            /\ answer.first = [error |-> FALSE, events |-> IF due = << >> THEN due ELSE <<due[1]>>]

\* event export with groups: unless it says that it was limited, the groups are of
\* all the edges of the window at which the expression is true, each with as many
\* as have its value, and with the first and the last of those.
GroupsAreExact ==
  query # None /\ ~Broken(query) =>
    LET Value(t) == GroupOf(query, [v |-> At_(t).v])
        hits == Matching(query)
        InGroup(k) == {t \in hits : Value(t) = k}
    IN \A i \in {1, 2} : ~answer.groups[i].limited =>
         answer.groups[i].groups =
           [k \in {Value(t) : t \in hits} |->
              [count |-> Cardinality(InGroup(k)), first |-> Min(InGroup(k)), last |-> Max(InGroup(k))]]

\* event find: the edge that export lists first, although it samples few of them:
\* nothing it does not follow can make the expression true.  Not so for c when it
\* has the clock's handle: the scan never sees it move, and find does.
FindIsFirst ==
  query # None /\ ~(query.one /\ "c" \in IdsIn(query.tree)) =>
    /\ answer.find.error = answer.first.error
    /\ [e \in DOMAIN answer.find.events |-> answer.find.events[e].time]
         = [e \in DOMAIN answer.first.events |-> answer.first.events[e].time]

\* README: "Boolean values or comparisons containing x/z evaluate to unknown and
\* do not match events": what matches holds however the unknown bits turn out.
Resolved(bits) ==
  {b \in [DOMAIN bits -> {"0", "1"}] : \A i \in DOMAIN bits : bits[i] # "x" => b[i] = bits[i]}
MatchesAreCertain ==
  query # None =>
    \A e \in ToSet(answer.all.events) :
      \A v \in Resolved(At_(e.time).v) : Evaluated(TokensOf(query.tree), Env(v, e.c, query.field)) = "T"
=============================================================================
