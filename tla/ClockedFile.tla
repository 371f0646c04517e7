---------------------------- MODULE ClockedFile ----------------------------
(***************************************************************************)
(* An FSDB file as the daemon reads it: the level of every signal at every *)
(* tick, the changes NPI's time-based iterator hands over in a window, and *)
(* sample_on_clock (src/server/server.cpp), which turns them into the      *)
(* levels at the edges of a clock.  NPI's order of the changes of one tick *)
(* is part of a request.                                                   *)
(***************************************************************************)
EXTENDS Integers, Sequences, SequencesExt, FiniteSets

CONSTANT None  \* no request yet, no time

VARIABLE file  \* levels by tick, file[t + 1] those of tick t

Level(t, sig) == file[t + 1][sig]
Moved(t, sig) == t > 0 /\ Level(t, sig) # Level(t - 1, sig)

\* What the iterator hands over: tick by tick, in the order of the request.
ChangesAt(t, sigs) ==
  LET moved == SelectSeq(sigs, LAMBDA s : Moved(t, s))
  IN [i \in DOMAIN moved |-> [time |-> t, sig |-> moved[i]]]
Changes(w, sigs) == FlattenSeq([i \in 1 .. (w.end - w.begin + 1) |-> ChangesAt(w.begin + i - 1, sigs)])
-----------------------------------------------------------------------------
(* sample_on_clock *)

\* The levels before the window.
Initial(w) ==
  LET t == IF w.begin > 0 THEN w.begin - 1 ELSE w.begin
  IN [time |-> None, edge |-> FALSE, clk |-> Level(t, "clk"), values |-> file[t + 1], samples |-> << >>]

IsEdge(w, was, is) == was = (IF w.posedge THEN "0" ELSE "1") /\ is = (IF w.posedge THEN "1" ELSE "0")

\* finish_group: the levels after all changes of a tick with an edge.
FinishGroup(s) ==
  IF s.edge THEN [s EXCEPT !.samples = Append(@, [time |-> s.time, values |-> s.values])] ELSE s

\* The first change of a tick ends the group of the tick before.
EnterGroup(s, t) == IF s.time = t THEN s ELSE [FinishGroup(s) EXCEPT !.time = t, !.edge = FALSE]

\* A change of the clock's handle is an edge or none, and no alias's new level.
Taken(w, s, c) ==
  IF c.sig = "clk"
  THEN [s EXCEPT !.clk = Level(c.time, "clk"), !.edge = IsEdge(w, s.clk, Level(c.time, "clk"))]
  ELSE [s EXCEPT !.values[c.sig] = Level(c.time, c.sig)]

SampleOnClock(w) ==
  FinishGroup(FoldLeft(LAMBDA s, c : Taken(w, EnterGroup(s, c.time), c), Initial(w), Changes(w, w.order))).samples

\* The callback is given a sample at a time, at most max of them, until it ends
\* the scan.
Fresh == [n |-> 0, truncated |-> FALSE, over |-> FALSE]
Counted(s) == [s EXCEPT !.n = @ + 1]
Visited(w, s, called) ==
  IF s.over THEN s
  ELSE IF s.n >= w.max THEN [Counted(s) EXCEPT !.truncated = TRUE, !.over = TRUE]
  ELSE called

\* The ticks of a window with an edge, and those the limit lets through.
SampleTicks(w) == {t \in w.begin .. w.end : t > 0 /\ IsEdge(w, Level(t - 1, "clk"), Level(t, "clk"))}
Seen(w) == {t \in SampleTicks(w) : Cardinality({u \in SampleTicks(w) : u <= t}) <= w.max}
=============================================================================
