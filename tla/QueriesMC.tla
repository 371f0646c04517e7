----------------------------- MODULE QueriesMC -----------------------------
(* TimeSpecs, and beside it EventAnalyzer, ClockedWindows, SignalQueries    *)
(* and ListDiff, on the small files and requests that TLC checks, and a     *)
(* check of the parser on every expression of two levels.  A daemon answers *)
(* one request at a time from a file nobody else writes, so the parts share *)
(* nothing, and a behaviour is of one.                                      *)
EXTENDS TimeSpecs

CONSTANT LastTime \* bound: the last time of EventAnalyzer's file

VARIABLES wave, query, answer  \* of EventAnalyzer

MCValues == {<<"0", "0">>, <<"1", "0">>, <<"0", "x">>}

\* 2 has no digit that is a bit.
MCLiterals ==
  [d \in {"0", "1", "2"} |-> IF d = "2" THEN [bits |-> <<"1", "0">>, text |-> << >>] ELSE [bits |-> <<d>>, text |-> <<d>>]]

Is(a) == [op |-> "is", l |-> a]
Eq(a, b) == [op |-> "==", l |-> a, r |-> b]
Ne(a, b) == [op |-> "!=", l |-> a, r |-> b]
Not(a) == [op |-> "not", l |-> a]
And(a, b) == [op |-> "and", l |-> a, r |-> b]
Or(a, b) == [op |-> "or", l |-> a, r |-> b]

\* Expressions with the signal alone, with the field, with neither, and with both.
Conditions == {Is("v"), Ne("v", "0"), Is("1"), Or(Is("hi"), Eq("v", "2")), Not(And(Is("hi"), Is("v")))}

Base ==
  [tree |-> Is("v"), begin |-> 1, end |-> LastTime, posedge |-> TRUE, gated |-> TRUE, field |-> <<1, 1>>,
   lost |-> None, first |-> {}, one |-> FALSE, by |-> "v"]
MCQueries ==
  {[Base EXCEPT !.tree = e] : e \in Conditions}
  \cup {[Base EXCEPT !.tree = Not(And(Is("hi"), Is("v"))), !.first = {"rst", "v"}]}
  \cup {[Base EXCEPT !.tree = Not(Is("v")), !.gated = FALSE, !.by = "hi"]}
  \cup {[Base EXCEPT !.tree = Not(Is("v")), !.begin = w[1], !.end = w[2]] : w \in {<<0, LastTime - 1>>, <<2, LastTime>>}}
  \cup {[Base EXCEPT !.posedge = FALSE, !.gated = FALSE, !.field = f, !.by = "hi"] : f \in {<<0, 1>>, <<0, 2>>}}
  \cup {[Base EXCEPT !.tree = Not(And(Is("c"), Is("v"))), !.one = o, !.first = {"c"}] : o \in BOOLEAN}
  \cup {[Base EXCEPT !.tree = And(Is("0"), Is("nope"))], [Base EXCEPT !.lost = "hi"], [Base EXCEPT !.lost = "rst", !.gated = FALSE]}

Events == INSTANCE EventAnalyzer WITH Values <- MCValues, Literals <- MCLiterals, Queries <- MCQueries

ASSUME QueriesFit == Events!EventsFit

Leaves == {Is("v"), Is("2"), Eq("hi", "1"), Ne("v", "0")}
Level1 == Leaves \cup {Not(a) : a \in Leaves} \cup {And(a, b) : a, b \in Leaves} \cup {Or(a, b) : a, b \in Leaves}
Level2 == Level1 \cup {Not(a) : a \in Level1} \cup {And(a, b) : a, b \in Level1} \cup {Or(a, b) : a, b \in Level1}

-----------------------------------------------------------------------------
(* A behaviour is of one part, which the names in its file tell. *)

IsEventFile == file = << >>
IsFileOf(sigs) == ~IsEventFile /\ DOMAIN file[1] = sigs
-----------------------------------------------------------------------------
(* Windows *)

\* ready may be unknown.
MCLevels == [valid : {"0", "1"}, ready : {"0", "1", "x"}, data : {"0", "1"}]

Always(a) == [tree |-> a, mode |-> "always"]
Never(a) == [tree |-> a, mode |-> "never"]
Eventually(a) == [tree |-> a, mode |-> "eventually"]

\* Beyond LastTick, max is no limit.
Whole == [posedge |-> TRUE, begin |-> 0, end |-> LastTick, max |-> LastTick + 1, order |-> <<"valid", "clk", "ready", "data">>]
Verify(w, conds) == [kind |-> "verify", conds |-> conds] @@ w
Stalls(kind, w, wait) == [kind |-> kind, wait |-> wait, check |-> TRUE] @@ w

MCAsks ==
  {Verify(Whole, c) : c \in {<<Always(Not(And(Is("valid"), Is("ready"))))>>,
                              <<Eventually(Is("ready")), Eventually(Is("valid")), Never(Is("data"))>>}}
  \cup {Verify([Whole EXCEPT !.max = 2], <<Always(Not(Is("ready"))), Eventually(Is("valid"))>>),
        Verify([Whole EXCEPT !.max = 2], <<Never(Is("ready"))>>),
        Verify([Whole EXCEPT !.end = 1], <<Always(Is("hi"))>>),
        [kind |-> "eval", tree |-> Not(And(Is("valid"), Is("ready"))), at |-> 3] @@ Whole,
        [kind |-> "eval", tree |-> Or(Is("hi"), Is("data")), at |-> 2] @@ Whole,
        Stalls("handshake", Whole, 1),
        Stalls("handshake", [Whole EXCEPT !.posedge = FALSE, !.begin = 2, !.max = 1], 0),
        Stalls("stall", Whole, 1),
        Stalls("stall", [Whole EXCEPT !.begin = 1, !.end = LastTick - 1, !.order = <<"clk", "ready", "valid", "data">>], 0)}

Windows == INSTANCE ClockedWindows WITH Levels <- MCLevels, Asks <- MCAsks

\* What holds over the samples of its window passes window.verify, and what passes
\* holds there, but for the always and never conditions beside eventually ones; and
\* expr.eval_at, which reads the levels at its one time itself, judges that time
\* the same way.
VerdictsAreTheRange == Windows!VerdictIsTheRange /\ Windows!EvalIsVerify

\* SKILL.md:508 says that window.verify is to "Verify expressions sampled on clock
\* edges over a window": what passes uncut holds over the whole window.
VerifiedOverTheWindow == Windows!VerifiedOverTheWindow

\* handshake.inspect, which samples a clock, counts the transfers and the stalls
\* of the window, and axi.channel_stall, which goes by the intervals between
\* changes, counts the same edges.
StallsAreCounted == Windows!HandshakeIsExact /\ Windows!ChannelStallIsHandshake
-----------------------------------------------------------------------------
(* Signals *)

\* One bit, unknown at times, and three bits, which is more than a word of two.
SignalValues == {<<"0">>, <<"1">>, <<"x">>, <<"0", "0", "1">>, <<"1", "0", "1">>, <<"0", "1", "0">>}

Of(kind, sig) == [kind |-> kind, begin |-> 0, end |-> LastTick, sig |-> sig, initial |-> TRUE]
Limited(n, w) == [limit |-> n] @@ w
OnClock(p, n, order, w) == [posedge |-> p, max |-> n, order |-> order] @@ w
Checked(unknown, glitch, stuck, w) == [sigs |-> <<"sig", "alias">>, unknown |-> unknown, glitch |-> glitch, stuck |-> stuck] @@ w
WithAndWithout(asks) == asks \cup {[w EXCEPT !.initial = FALSE] : w \in asks}

SignalAsks ==
  WithAndWithout({Limited(n, Of("changes", "sig")) : n \in {-1, 0, 2}})
  \cup WithAndWithout({[Of("stability", "sig") EXCEPT !.begin = 2]})
  \cup {Limited(3, [glitch |-> 2] @@ Of("inspect", "sig"))}
  \cup {OnClock(p, n, <<"sig", "clk">>, Of(k, "sig")) : k \in {"trend", "statistics"}, p \in BOOLEAN, n \in {2, LastTick}}
  \cup {OnClock(TRUE, LastTick, <<"clk", "alias">>, Of("statistics", x)) : x \in {"clk", "alias"}}
  \cup WithAndWithout({Limited(n, Checked(TRUE, 2, 2, Of("anomaly", "sig"))) : n \in {-1, 0, 2}})
  \cup WithAndWithout({Limited(-1, Checked(FALSE, None, 3, Of("anomaly", "sig")))})

OneSignal == INSTANCE SignalQueries WITH Values <- SignalValues, Asks <- SignalAsks, WordBits <- 2

\* Lists of one signal, with a signal twice, with one handle for both or not, and with
\* one that is not there, at either end of the window, and with the changes of a tick in both
\* orders.
DiffAsks ==
  {[kind |-> "diff", list |-> l[1], one |-> l[2], begin |-> b, end |-> LastTick - 1, order |-> o] :
     l \in {<<<<"a">>, FALSE>>, <<<<"a", "b">>, FALSE>>, <<<<"a", "b", "gone">>, FALSE>>}
             \cup {<<<<"b", "a", "b">>, n>> : n \in BOOLEAN},
     b \in {0, 2}, o \in {<<"a", "b">>, <<"b", "a">>}}

Lists == INSTANCE ListDiff WITH Asks <- DiffAsks

\* signal.changes lists what rebuilds the signal, whether cut or not, and
\* signal.stability calls stable what keeps its level.  list diff is not later than
\* the first difference of its signals.
ChangesTellTheSignal ==
  /\ OneSignal!ChangesRebuildTheSignal /\ OneSignal!StabilityIsConstancy
  /\ IsFileOf({"a", "b"}) => Lists!DiffIsNotMissed

\* README.md:355 says that list diff is to "Find the earliest difference time": at
\* the time it gives, the signals differ.
DiffIsThere == IsFileOf({"a", "b"}) => Lists!DiffIsThere

\* signal.trend and signal.statistics are of the levels at the clock's edges.
SamplesAreSummedUp == OneSignal!SamplesAreSummedUp

\* detect_anomaly and inspect_signal find the unknown levels, the short pulses and
\* the long levels between two changes, each once, and nothing that is not there.
AnomaliesAreFound == OneSignal!AnomaliesAreFound

\* SKILL.md:556 says that detect_anomaly is to "Find waveform anomalies such as
\* glitches, stuck values, and x/z": a signal that stays at its last level to the
\* end of the window is found stuck.
StuckToTheEndIsFound == OneSignal!StuckToTheEndIsFound
-----------------------------------------------------------------------------
(* Times *)

TimeNumbers == ("0" :> 0) @@ ("1" :> 1) @@ ("2" :> 2)
TimeTicks == ("ns" :> 1) @@ ("us" :> 3)

\* In the file, behind its end, and with a minus in the name or before it.
TimeCursors ==
  (<<"a">> :> 3) @@ (<<"b">> :> LastTick + 1) @@ (<<"a", "-">> :> 1) @@ (<<"a", "-", "1">> :> 4) @@ (<<"-", "a">> :> 2)

CursorTime(name, active, stays) == [kind |-> "time", name |-> name, sign |-> None, active |-> active, stays |-> stays]
NoFields ==
  [kind |-> "window", begin |-> None, end |-> None, around |-> None, before |-> None, after |-> None,
   active |-> <<"a">>, stays |-> TRUE]
TimeAsks ==
  LET names == DOMAIN TimeCursors \cup {<< >>, <<"c">>}
  IN {CursorTime(n, a, TRUE) : n \in names, a \in {<<"b">>, None}}
     \cup {[CursorTime(n, <<"a">>, y) EXCEPT !.sign = s] @@ [number |-> k, unit |-> u] :
             n \in names, s \in {"+", "-"}, k \in DOMAIN TimeNumbers, u \in {"us", "posedge", "negedge"}, y \in BOOLEAN}
     \cup {NoFields, [NoFields EXCEPT !.begin = <<"1", "ns">>, !.around = <<"@">>], [NoFields EXCEPT !.end = <<"@", "-", "1">>]}
     \cup {[NoFields EXCEPT !.around = c, !.before = b, !.after = a] :
             c \in {<<"@">>, <<"@", "a">>, <<"@", "a", "-">>, <<"@", "-", "a">>, <<"@", "a", "+", "1">>, <<"2", "ns">>},
             b \in {None, <<"1">>, <<"2", "cycle">>, <<"-", "1", "ns">>, <<"+", "1">>},
             a \in {<<"1", "us">>, <<"1", "negedge">>, <<"+", "2">>}}
-----------------------------------------------------------------------------
(* The parts side by side *)

MCInit ==
  /\ Events!Init
  /\ \/ IsEventFile /\ ask = None /\ reply = None
     \/ Init
     \/ OneSignal!Init
     \/ Lists!Init
     \/ Windows!Init
MCNext ==
  \/ IsEventFile /\ Events!Next /\ UNCHANGED vars
  \/ IsFileOf(Windows!Signals \cup {"clk"}) /\ Windows!Next /\ UNCHANGED <<wave, query, answer>>
  \/ IsFileOf({"clk", "alias", "sig"}) /\ OneSignal!Next /\ UNCHANGED <<wave, query, answer>>
  \/ IsFileOf({"a", "b"}) /\ Lists!Next /\ UNCHANGED <<wave, query, answer>>
  \/ IsFileOf({"clk"}) /\ Next /\ UNCHANGED <<wave, query, answer>>
MCSpec == MCInit /\ [][MCNext]_<<vars, wave, query, answer>>
-----------------------------------------------------------------------------
\* event export, its groups, and event find, of one mind on every window.
ExportsAreExact == Events!ExportIsExact /\ Events!GroupsAreExact

\* event find gives the edge that export lists first.
FindIsFirst == Events!FindIsFirst

\* What matches holds however the unknown bits turn out.
MatchesAreCertain == Events!MatchesAreCertain

\* parse_or, parse_and, parse_unary, parse_primary: a text is evaluated as its
\* syntax tree means, with as few parentheses as its operators allow, whatever
\* the values; so an expression that is accepted with all values zero is accepted
\* with every value.
ParserFollowsSyntax ==
  wave = << >> /\ IsEventFile =>
    \A tree \in Level2, v \in MCValues :
      LET env == Events!Env(v, "0", <<0, 0>>)
      IN Events!Evaluated(Events!TokensOf(tree), env) = <<"F", "U", "T">>[Events!Meaning(tree, env) + 1]
=============================================================================
