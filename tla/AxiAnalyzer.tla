---------------------------- MODULE AxiAnalyzer ----------------------------
(***************************************************************************)
(* AxiAnalyzer::analyze (src/axi/axi_analyzer.cpp): one pass over the      *)
(* clock edges of a waveform that turns handshakes into transactions, and  *)
(* then the sorted vectors that queries are answered from.                 *)
(*                                                                         *)
(* An edge's number is its time.  Addresses, data, strobes, lengths and    *)
(* responses are carried along by the code unread: a transaction is told   *)
(* apart by its times here.  All five channels have their signals, as the  *)
(* README asks.                                                            *)
(***************************************************************************)
EXTENDS AxiBus

CONSTANT LastEdge \* bound: clock edges in the waveform

\* A transaction of the result.
Transaction == [write : BOOLEAN, id : TxnIds, addr : Nat, beats : Seq(Nat), resp : Nat]

ASSUME EdgeAssumption ==
  /\ LastEdge \in Nat
  /\ None \notin [{"all", "byResp"} -> Seq(Transaction) \cup Seq(Nat)]

VARIABLES
  t,      \* time of the last edge
  bus,    \* the interface: environment and truth
  an,     \* the analyzer's local state and its two result vectors
  result  \* what is cached at the end: all, all_by_resp_time; or None

vars == <<t, bus, an, result>>

\* w_beat_buffer, pending_writes, pending_reads, the outstanding counters, in
\* all and by id (an absent map entry is a zero), and of the result writes, reads
\* and outstanding_samples.
NoneById == [i \in TxnIds |-> 0]
Fresh ==
  [buf |-> << >>, pw |-> << >>, pr |-> [i \in TxnIds |-> << >>],
   ow |-> 0, or |-> 0, owId |-> NoneById, orId |-> NoneById,
   writes |-> << >>, reads |-> << >>, samples |-> << >>]

\* inc_osd and dec_osd, on the counter by id; the one in all goes along.
Inc(byId, id) == [byId EXCEPT ![id] = @ + 1]
Dec(byId, id) == [byId EXCEPT ![id] = IF @ > 0 THEN @ - 1 ELSE @]
Less(n) == IF n > 0 THEN n - 1 ELSE n

\* Mutant of Cleared: the counters survive a reset.
ClearedKeepsCounters(a) == [a EXCEPT !.buf = << >>, !.pw = << >>, !.pr = [i \in TxnIds |-> << >>]]

\* Reset forgets everything but the results.
Cleared(a) == [Fresh EXCEPT !.writes = a.writes, !.reads = a.reads, !.samples = a.samples]
-----------------------------------------------------------------------------
(* The channels, in the order the code looks at them *)

PushBeat(a, h) ==
  IF h.w = "none" THEN a ELSE [a EXCEPT !.buf = Append(@, [time |-> t + 1, last |-> h.w = "last"])]

\* One beat of the buffer goes to the first pending write that lacks data; with
\* none of those it stays.
Drained(s, beat) ==
  LET k == SelectInSeq(s.pw, LAMBDA p : ~p.complete)
  IN IF k = 0 THEN [s EXCEPT !.buf = Append(@, beat)]
     ELSE [s EXCEPT !.pw[k] = [s.pw[k] EXCEPT !.beats = Append(@, beat.time), !.complete = beat.last]]

\* After each beat of the buffer.
DrainedTo(a) ==
  LET s[n \in 0 .. Len(a.buf)] == IF n = 0 THEN [pw |-> a.pw, buf |-> << >>] ELSE Drained(s[n - 1], a.buf[n])
  IN s

\* Mutant of Drain: beats go to the newest pending write.
DrainToNewest(a) ==
  [a EXCEPT !.pw[Len(a.pw)] = [@ EXCEPT !.beats = @ \o [i \in DOMAIN a.buf |-> a.buf[i].time],
                                        !.complete = a.buf # << >> /\ Last(a.buf).last],
            !.buf = << >>]
Drain(a) == [a EXCEPT !.pw = DrainedTo(a)[Len(a.buf)].pw, !.buf = DrainedTo(a)[Len(a.buf)].buf]

\* Only a write address drains the buffer.
AddWrite(a, h) ==
  IF h.aw = None THEN a
  ELSE Drain([a EXCEPT !.pw = Append(@, [id |-> h.aw, addr |-> t + 1, beats |-> << >>, complete |-> FALSE]),
                       !.ow = @ + 1, !.owId = Inc(@, h.aw)])

\* A response goes to the first pending write of its id that has all its data;
\* with none of those it is ignored.
MatchResponse(a, h) ==
  LET k == SelectInSeq(a.pw, LAMBDA p : p.complete /\ p.id = h.b)
  IN IF h.b = None \/ k = 0 THEN a
     ELSE LET p == a.pw[k] IN
          [a EXCEPT !.writes = Append(@, [write |-> TRUE, id |-> p.id, addr |-> p.addr, beats |-> p.beats, resp |-> t + 1]),
                    !.pw = RemoveAt(@, k), !.ow = Less(@), !.owId = Dec(@, p.id)]

AddRead(a, h) ==
  IF h.ar = None THEN a
  ELSE [a EXCEPT !.pr[h.ar] = Append(@, [id |-> h.ar, addr |-> t + 1, beats |-> << >>]),
                 !.or = @ + 1, !.orId = Inc(@, h.ar)]

TakeReadData(a, h) ==
  IF h.r = None \/ a.pr[h.r] = << >> THEN a
  ELSE LET r == [Head(a.pr[h.r]) EXCEPT !.beats = Append(@, t + 1)]
       IN IF h.rlast
          THEN [a EXCEPT !.reads = Append(@, [write |-> FALSE, id |-> r.id, addr |-> r.addr, beats |-> r.beats, resp |-> t + 1]),
                         !.pr[h.r] = Tail(@), !.or = Less(@), !.orId = Dec(@, h.r)]
          ELSE [a EXCEPT !.pr[h.r][1] = r]

\* What is outstanding after an edge.
Sample(a) ==
  [a EXCEPT !.samples = Append(@, [time |-> t + 1, wr |-> a.ow, rd |-> a.or, wrById |-> a.owId, rdById |-> a.orId])]

\* process_edge.
Processed(a, h) ==
  IF h.rst THEN Cleared(a)
  ELSE Sample(TakeReadData(AddRead(MatchResponse(AddWrite(PushBeat(a, h), h), h), h), h))
-----------------------------------------------------------------------------
(* The result *)

\* Mutant of SortedByAddr: the order in which they completed.
AsCompleted(s) == s
SortedByAddr(s) == SortedBy(s, [i \in DOMAIN s |-> s[i].addr])

ByResp(all) == SortedBy([i \in DOMAIN all |-> i], [i \in DOMAIN all |-> all[i].resp])

-----------------------------------------------------------------------------
Init == t = 0 /\ bus = Quiet /\ an = Fresh /\ result = None

Edge ==
  /\ result = None /\ t < LastEdge
  /\ \E h \in Edges(bus) :
       /\ bus' = BusAfter(bus, h, t + 1)
       /\ an' = Processed(an, h)
  /\ t' = t + 1
  /\ UNCHANGED result

\* The end of the waveform: what is pending is dropped, the rest is sorted by
\* address time, and indexed by response time.
Finish ==
  /\ result = None
  /\ LET all == SortedByAddr(an.writes \o an.reads)
     IN result' = [all |-> all, byResp |-> ByResp(all)]
  /\ an' = [Fresh EXCEPT !.writes = SortedByAddr(an.writes), !.reads = SortedByAddr(an.reads), !.samples = an.samples]
  /\ UNCHANGED <<t, bus>>

Done == result # None /\ UNCHANGED vars

Next == Edge \/ Finish \/ Done
Spec == Init /\ [][Next]_vars
-----------------------------------------------------------------------------
\* A write that is reported (W, AW and B handling) is one the bus made, once,
\* with its own data, and not before its response.
WritesAreTrue ==
  /\ \A w \in ToSet(an.writes) : \E d \in bus.wrote :
       d.addr = w.addr /\ d.id = w.id /\ d.beats = w.beats /\ d.resp <= w.resp
  /\ Cardinality({w.addr : w \in ToSet(an.writes)}) = Len(an.writes)

\* README: "xwave can query read/write transactions": the writes the bus
\* completed are there at the end.
WritesAreReported == result # None => bus.wrote \subseteq ToSet(an.writes)
=============================================================================
