--------------------------- MODULE ClockedWindows ---------------------------
(***************************************************************************)
(* Requests that sample a window of the FSDB file on a clock               *)
(* (src/server/server.cpp): window.verify and handshake.inspect look at    *)
(* the levels of every clock edge, axi.channel_stall at the intervals in   *)
(* which valid and ready keep their levels and the edges in each.          *)
(*                                                                         *)
(* The file has a clock, valid, ready and data.  It is written first and   *)
(* then asked.                                                             *)
(***************************************************************************)
EXTENDS EventExpr, ClockedFile

CONSTANTS
  Levels,    \* of valid, ready and data together
  Asks,      \* bound: what is asked
  LastTick   \* bound: the last tick of the file

VARIABLES
  ask,     \* the request, or None before
  reply    \* what it is answered

vars == <<file, ask, reply>>
Signals == {"valid", "ready", "data"}

\* The clock rises at every odd tick.
Clk(t) == IF t % 2 = 1 THEN "1" ELSE "0"
Levelled(l, t) == l @@ ("clk" :> Clk(t))
-----------------------------------------------------------------------------
(* window.verify *)

Env(values) == [x \in Signals |-> Signal(<<values[x]>>)]
Eventual(w) == {k \in DOMAIN w.conds : w.conds[k].mode = "eventually"}

Bucket(mode, r) ==
  CASE r = "U" -> "unknown"
    [] r = (IF mode = "never" THEN "F" ELSE "T") -> "pass"
    [] OTHER -> "fail"

\* One condition at one sample; an error ends the scan, and so does a condition
\* that had to hold.
Judged(w, s, k, r) ==
  IF r = "error" THEN [s EXCEPT !.error = TRUE, !.over = TRUE]
  ELSE [s EXCEPT !.tally[k][Bucket(w.conds[k].mode, r)] = @ + 1,
                 !.over = k \notin Eventual(w) /\ Bucket(w.conds[k].mode, r) # "pass"]

\* Mutant of StopWhenSeen: one eventually condition is enough.
StopWhenOneSeen(w, s) ==
  [s EXCEPT !.over = @ \/ \E k \in Eventual(w) : s.tally[k].pass > 0]

\* When every eventually condition has come true, the rest is not looked at.
StopWhenSeen(w, s) ==
  [s EXCEPT !.over = @ \/ (Eventual(w) # {} /\ \A k \in Eventual(w) : s.tally[k].pass > 0)]

VerifySample(w, s, x) ==
  StopWhenSeen(w, FoldLeft(
    LAMBDA a, k : IF a.over THEN a ELSE Judged(w, a, k, Evaluated(TokensOf(w.conds[k].tree), Env(x.values))),
    s, [k \in DOMAIN w.conds |-> k]))

Verdict(w, s) ==
  [error |-> s.error, n |-> s.n, truncated |-> s.truncated,
   passed |-> \A k \in DOMAIN w.conds :
                IF k \in Eventual(w) THEN s.tally[k].pass > 0 ELSE s.tally[k].fail = 0 /\ s.tally[k].unknown = 0]

WindowVerify(w) ==
  Verdict(w, FoldLeft(
    LAMBDA s, x : Visited(w, s, VerifySample(w, Counted(s), x)),
    [error |-> FALSE, tally |-> [k \in DOMAIN w.conds |-> [pass |-> 0, fail |-> 0, unknown |-> 0]]] @@ Fresh,
    SampleOnClock(w)))
-----------------------------------------------------------------------------
(* expr.eval_at *)

\* Mutant of EvalAt: the levels before the changes of the time.
EvalAtBefore(w) ==
  LET r == Evaluated(TokensOf(w.tree), Env(file[w.at]))
  IN [error |-> r = "error", status |-> r]

\* An expression at a time, on the levels NPI gives for it.
EvalAt(w) ==
  LET r == Evaluated(TokensOf(w.tree), Env(file[w.at + 1]))
  IN [error |-> r = "error", status |-> r]
-----------------------------------------------------------------------------
(* handshake.inspect *)

Truth1(values, sig) == Truth(<<values[sig]>>)
IsTransfer(values) == Truth1(values, "valid") = "T" /\ Truth1(values, "ready") = "T"
IsStall(values) == Truth1(values, "valid") = "T" /\ Truth1(values, "ready") = "F"
IsReadyOnly(values) == Truth1(values, "ready") = "T" /\ Truth1(values, "valid") = "F"
Count(n, yes) == IF yes THEN n + 1 ELSE n
Longer(a, b) == IF a > b THEN a ELSE b

Stalls(w, s, x) ==
  IF ~s.stalled THEN [s EXCEPT !.cycles = @ + 1, !.stalled = TRUE, !.since = x]
  ELSE [s EXCEPT !.cycles = @ + 1,
                 !.violations = Count(@, w.check /\ s.since.values.data # x.values.data)]

Finding(begin, end, cycles) == [begin |-> begin, end |-> end, cycles |-> cycles]

\* Mutant of StallEnds: the cycles of one stall count for the next.
StallEndsKeepingCycles(w, s, t) ==
  IF ~s.stalled THEN s
  ELSE [s EXCEPT !.maxStall = Longer(s.cycles, @), !.stalled = FALSE,
                 !.findings = IF s.cycles > w.wait THEN Append(@, Finding(s.since.time, t, s.cycles)) ELSE @]

StallEnds(w, s, t) ==
  IF ~s.stalled THEN s
  ELSE [s EXCEPT !.maxStall = Longer(s.cycles, @), !.stalled = FALSE, !.cycles = 0,
                 !.findings = IF s.cycles > w.wait THEN Append(@, Finding(s.since.time, t, s.cycles)) ELSE @]

HandshakeSample(w, s, x) ==
  LET c == [s EXCEPT !.transfers = Count(@, IsTransfer(x.values)), !.readyOnly = Count(@, IsReadyOnly(x.values))]
  IN IF IsStall(x.values) THEN Stalls(w, c, x) ELSE StallEnds(w, c, x.time)

\* A stall that is open at the end counts for the longest, and is no finding.
Inspected(s) ==
  [n |-> s.n, truncated |-> s.truncated, transfers |-> s.transfers, readyOnly |-> s.readyOnly,
   violations |-> s.violations, findings |-> s.findings,
   maxStall |-> IF s.stalled THEN Longer(s.cycles, s.maxStall) ELSE s.maxStall]

HandshakeInspect(w) ==
  Inspected(FoldLeft(
    LAMBDA s, x : Visited(w, s, HandshakeSample(w, Counted(s), x)),
    [transfers |-> 0, readyOnly |-> 0, maxStall |-> 0, violations |-> 0, cycles |-> 0,
     stalled |-> FALSE, since |-> None, findings |-> << >>] @@ Fresh,
    SampleOnClock(w)))
-----------------------------------------------------------------------------
(* axi.channel_stall *)

\* ClockEdgeCursor: the edges from one tick to another.
EdgesIn(w, start, stop) == {t \in start .. stop : t > 0 /\ IsEdge(w, Level(t - 1, "clk"), Level(t, "clk"))}

\* visit_interval: the levels are the same at all of its edges, and with neither
\* valid nor ready they are not counted; the limit ends the request at once.
VisitEdges(w, s, edges, stop) ==
  LET k == Cardinality(edges)
      cut == s.n + k > w.max
      m == IF cut THEN w.max - s.n ELSE k
      long == IsStall(s.values) /\ ~cut /\ k > 0
  IN [s EXCEPT !.n = @ + m, !.truncated = cut, !.over = cut,
               !.transfers = IF IsTransfer(s.values) THEN @ + m ELSE @,
               !.readyOnly = IF IsReadyOnly(s.values) THEN @ + m ELSE @,
               !.maxStall = IF long THEN Longer(k, @) ELSE @,
               !.findings = IF long /\ k > w.wait
                            THEN Append(@, Finding(CHOOSE t \in edges : \A u \in edges : t <= u, stop, k)) ELSE @]
VisitInterval(w, s, start, stop) ==
  IF Truth1(s.values, "valid") = "T" \/ Truth1(s.values, "ready") = "T"
  THEN VisitEdges(w, s, EdgesIn(w, start, stop), stop) ELSE s

\* Mutant of Until: the interval includes the tick of the change.
UntilWith(w, s, t) ==
  IF t <= s.from THEN s ELSE [VisitInterval(w, s, s.from, t) EXCEPT !.from = t]

\* A change at a later tick ends the interval.
Until(w, s, t) ==
  IF t <= s.from THEN s ELSE [VisitInterval(w, s, s.from, t - 1) EXCEPT !.from = t]

TakenLevel(s, c) == IF s.over THEN s ELSE [s EXCEPT !.values[c.sig] = Level(c.time, c.sig)]

StallReply(s) ==
  [n |-> s.n, truncated |-> s.truncated, transfers |-> s.transfers, readyOnly |-> s.readyOnly,
   findings |-> s.findings, maxStall |-> s.maxStall]

ChannelStall(w) ==
  LET s == FoldLeft(LAMBDA a, c : IF a.over THEN a ELSE TakenLevel(Until(w, a, c.time), c),
                    [values |-> file[w.begin + 1], from |-> w.begin, transfers |-> 0, readyOnly |-> 0,
                     maxStall |-> 0, findings |-> << >>] @@ Fresh,
                    Changes(w, SelectSeq(w.order, LAMBDA x : x \in {"valid", "ready"})))
  IN StallReply(IF s.over THEN s ELSE VisitInterval(w, s, s.from, w.end))
-----------------------------------------------------------------------------
BeforeAll == <<Levelled([s \in Signals |-> "0"], 0)>>
Init == file = BeforeAll /\ ask = None /\ reply = None

\* The simulator writes the next tick.  Bound: when the clock falls for the first
\* time, valid or ready moves, or neither; later only edges bring changes.
Moves(l) == {s \in Signals : l[s] # Last(file)[s]}
Write ==
  /\ Len(file) <= LastTick /\ ask = None
  /\ \E l \in Levels :
       /\ Clk(Len(file)) = "0" => Moves(l) \in {{}} \cup IF Len(file) = 2 THEN {{"valid"}, {"ready"}} ELSE {}
       /\ file' = Append(file, Levelled(l, Len(file)))
  /\ UNCHANGED <<ask, reply>>

\* A request, of a window of the file.
Answer(w) ==
  CASE w.kind = "verify" -> WindowVerify(w)
    [] w.kind = "eval" -> EvalAt(w)
    [] w.kind = "handshake" -> HandshakeInspect(w)
    [] w.kind = "stall" -> ChannelStall(w)
Ask ==
  /\ Len(file) = LastTick + 1 /\ ask = None
  /\ \E w \in Asks : ask' = w /\ reply' = Answer(w)
  /\ UNCHANGED file

Next == Write \/ Ask
Spec == Init /\ [][Next]_vars
-----------------------------------------------------------------------------
Asked(kind) == ask # None /\ ask.kind = kind

\* What the verdict is about: over the ticks of S, an eventually condition is true
\* at some, an always one at each, a never one is false at each, and unknown is
\* neither.
Holds(w, k, t) ==
  Meaning(w.conds[k].tree, Env(file[t + 1])) = IF w.conds[k].mode = "never" THEN 0 ELSE 2
Met(w, k, S) ==
  IF k \in Eventual(w) THEN \E t \in S : Holds(w, k, t) ELSE \A t \in S : Holds(w, k, t)
AllMet(w, S) == \A k \in DOMAIN w.conds : Met(w, k, S)

\* window.verify: although it stops early, what holds over the samples passes, and
\* what passes holds, except that always and never conditions beside eventually
\* ones are left to VerifiedOverTheWindow.  A verdict of less than the window
\* says so.
IsMixed(w) == Eventual(w) # {} /\ Eventual(w) # DOMAIN w.conds
VerdictIsTheRange ==
  Asked("verify") =>
    IF \E k \in DOMAIN ask.conds : ~(IdsIn(ask.conds[k].tree) \subseteq Signals)
    THEN reply.error = (Seen(ask) # {})
    ELSE /\ ~reply.error
         /\ AllMet(ask, Seen(ask)) => reply.passed
         /\ reply.passed /\ ~IsMixed(ask) => AllMet(ask, Seen(ask))
         /\ reply.passed => \A k \in Eventual(ask) : Met(ask, k, Seen(ask))
         /\ reply.passed /\ Eventual(ask) = {} /\ Seen(ask) # SampleTicks(ask) => reply.truncated

\* "Verify expressions sampled on clock edges over a window" (SKILL.md:508): what
\* passes, and is not said to be cut, holds over all samples of the window.  Once
\* the eventually conditions have come true, the code looks at no more samples.
VerifiedOverTheWindow ==
  Asked("verify") /\ ~reply.error /\ reply.passed /\ ~reply.truncated => AllMet(ask, SampleTicks(ask))

\* expr.eval_at and window.verify are of one mind: at an edge of the clock, an
\* expression is true exactly if it holds always in a window of that edge alone.
EvalIsVerify ==
  Asked("eval") /\ ask.at > 0 =>
    LET edge == [kind |-> "verify", begin |-> ask.at, end |-> ask.at, max |-> 1, order |-> ask.order,
                 posedge |-> Level(ask.at, "clk") = "1", conds |-> <<[tree |-> ask.tree, mode |-> "always"]>>]
        v == WindowVerify(edge)
    IN v.error = reply.error /\ v.n = 1 /\ (~v.error => v.passed = (reply.status = "T"))

\* handshake.inspect: transfers and stalls are those of the sampled levels: a
\* stall is as long as valid waits from sample to sample, a finding is one that
\* ended after more than the allowed wait, and data must stay as it began.
StalledAt(t) == IsStall(file[t + 1])
Within(S, a, b) == {t \in S : a <= t /\ t <= b}
Waits(S) == {p \in S \X S : p[1] <= p[2] /\ \A t \in Within(S, p[1], p[2]) : StalledAt(t)}
Longest(S) ==
  {p \in Waits(S) : \A q \in Waits(S) : q[1] <= p[1] /\ p[2] <= q[2] => q = p}
Cycles(S, p) == Cardinality(Within(S, p[1], p[2]))
Spoilt(S, p) == {t \in Within(S, p[1], p[2]) : file[t + 1].data # file[p[1] + 1].data}
HandshakeIsExact ==
  Asked("handshake") =>
    LET S == Seen(ask)
        After(p) == {t \in S : t > p[2]}
    IN /\ reply.transfers = Cardinality({t \in S : IsTransfer(file[t + 1])})
       /\ reply.readyOnly = Cardinality({t \in S : IsReadyOnly(file[t + 1])})
       /\ reply.maxStall = Max({0} \cup {Cycles(S, p) : p \in Longest(S)})
       /\ reply.violations = IF ask.check THEN Cardinality(UNION {Spoilt(S, p) : p \in Longest(S)}) ELSE 0
       /\ ToSet(reply.findings) =
            {Finding(p[1], Min(After(p)), Cycles(S, p)) :
               p \in {q \in Longest(S) : Cycles(S, q) > ask.wait /\ After(q) # {}}}
       /\ reply.truncated = (S # SampleTicks(ask))

\* axi.channel_stall goes by intervals, handshake.inspect by edges: they count the
\* same transfers and waits of ready, and, as long as valid and ready only move at
\* edges, find the same stalls; a movement between two edges only makes one
\* shorter.
Steady(w) ==
  \A t \in w.begin + 1 .. w.end : t \notin SampleTicks(w) => ~Moved(t, "valid") /\ ~Moved(t, "ready")
Found(findings) == {[begin |-> f.begin, cycles |-> f.cycles] : f \in ToSet(findings)}
ChannelStallIsHandshake ==
  Asked("stall") /\ ~reply.truncated =>
    LET h == HandshakeInspect([ask EXCEPT !.max = LastTick])
    IN /\ reply.transfers = h.transfers /\ reply.readyOnly = h.readyOnly
       /\ reply.maxStall <= h.maxStall
       /\ Steady(ask) => reply.maxStall = h.maxStall /\ Found(h.findings) \subseteq Found(reply.findings)
=============================================================================
