---------------------------- MODULE ApbAnalyzer ----------------------------
(***************************************************************************)
(* ApbAnalyzer (src/apb/apb_analyzer.cpp): analyze scans the value changes *)
(* of a waveform once; look-ups, ranges and cursors answer from the result *)
(* it caches.  The cursors of AxiAnalyzer (axi_analyzer.cpp:700-800) are   *)
(* the same code over AXI transactions.                                    *)
(*                                                                         *)
(* NPI hands over the changes by time, those of one time in any order; a   *)
(* signal changes at most once at a time.  Data are carried along unread.  *)
(***************************************************************************)
EXTENDS Integers, Sequences, SequencesExt, Selections

CONSTANTS
  Addrs,     \* values of paddr
  MaybeX,    \* bound: the signals that may be unknown
  None,      \* no transaction
  LastTime   \* bound: times at which something changes

Data == {"rst_n", "psel", "penable", "pwrite", "paddr"}
Level(s) == {"0", "1"} \cup (IF s \in MaybeX THEN {"X"} ELSE {})
Levels == [clk : Level("clk"), rst_n : Level("rst_n"), psel : Level("psel"),
           penable : Level("penable"), pwrite : Level("pwrite"), paddr : Addrs]

\* 0 all, 1 writes, 2 reads in the code.
Filters == {"all", "wr", "rd"}

VARIABLES
  now, wave,  \* the file: a time, and the levels after it; None once it is read
  edge,       \* config.posedge
  scan,       \* locals of analyze
  truth,      \* the transfers on the bus, by the levels between times
  result,     \* results_[name]: all, writes, reads; or None
  cursor,     \* cursors_[name]
  shown,      \* number of the transaction each cursor showed last; 0: none
  walk        \* per cursor, how many were shown since begin by next alone, and
              \* whether next has said there are no more; or None

file == <<now, wave, edge, truth>>
vars == <<file, scan, result, cursor, shown, walk>>
-----------------------------------------------------------------------------
(* analyze *)

On(level) == level \notin {"0", "X", "Z"}

\* One edge: no ready signal, so every edge of an access phase counts.
ProcessEdge(s, t) ==
  IF ~(On(s.values.rst_n) /\ On(s.values.psel) /\ On(s.values.penable)) THEN s
  ELSE [s EXCEPT !.all = Append(@, [time |-> t, addr |-> s.values.paddr, write |-> On(s.values.pwrite)])]

\* Mutant of TakenClock: an edge is processed as soon as the clock changes.
TakenClockAtOnce(s, level, t) ==
  LET c == [s EXCEPT !.old = s.clk, !.new = level, !.clk = level]
  IN IF (s.posedge /\ s.clk = "0" /\ level = "1") \/ (~s.posedge /\ s.clk = "1" /\ level = "0")
     THEN ProcessEdge(c, t) ELSE c

TakenClock(s, level, t) == [s EXCEPT !.old = s.clk, !.new = level, !.clk = level, !.moved = TRUE]
Taken(s, levels, sigs) ==
  [s EXCEPT !.values = [x \in Data |-> IF x \in sigs THEN levels[x] ELSE @[x]]]

\* finish_group: an edge counts when all the changes of its time are in.
FinishGroup(s, t) ==
  LET e == [s EXCEPT !.moved = FALSE]
  IN IF s.moved /\ ((s.posedge /\ s.old = "0" /\ s.new = "1") \/ (~s.posedge /\ s.old = "1" /\ s.new = "0"))
     THEN ProcessEdge(e, t) ELSE e

\* The changes of one time: those of "before", the clock's if it has one, and the
\* rest.  Those of different data signals commute.
Group(s, was, levels, before, t) ==
  LET b == Taken(s, levels, before)
      c == IF was.clk = levels.clk THEN b ELSE TakenClock(b, levels.clk, t)
  IN FinishGroup(Taken(c, levels, Data), t)

OfDirection(all, write) == Picked(all, {i \in DOMAIN all : all[i].write = write})

Init ==
  /\ now = 0 /\ wave \in Levels /\ edge \in BOOLEAN
  /\ scan = [posedge |-> edge, clk |-> wave.clk, old |-> "", new |-> "", moved |-> FALSE,
             values |-> [x \in Data |-> wave[x]], all |-> << >>]
  /\ truth = << >> /\ result = None
  /\ cursor = [f \in Filters |-> 0] /\ shown = [f \in Filters |-> 0] /\ walk = [f \in Filters |-> None]

\* The file's next time, and what the bus does there.
Transfer(was, levels, t) ==
  LET rises == was.clk = "0" /\ levels.clk = "1"
      falls == was.clk = "1" /\ levels.clk = "0"
  IN IF (IF edge THEN rises ELSE falls) /\ levels.rst_n = "1" /\ levels.psel = "1" /\ levels.penable = "1"
     THEN <<[time |-> t, addr |-> levels.paddr, write |-> levels.pwrite = "1"]>> ELSE << >>

Change(levels, before) ==
  /\ result = None /\ now < LastTime /\ levels # wave
  /\ before # {} => levels.clk # wave.clk
  /\ now' = now + 1 /\ wave' = levels
  /\ scan' = Group(scan, wave, levels, before, now + 1)
  /\ truth' = truth \o Transfer(wave, levels, now + 1)
  /\ UNCHANGED <<edge, result, cursor, shown, walk>>

\* The end of the file: the result is cached, with cursors at 0.
Finish ==
  /\ result = None /\ now = LastTime
  /\ result' = [f \in Filters |-> IF f = "all" THEN scan.all ELSE OfDirection(scan.all, f = "wr")]
  /\ cursor' = [f \in Filters |-> 0]
  /\ wave' = None /\ scan' = None
  /\ UNCHANGED <<now, edge, truth, shown, walk>>
-----------------------------------------------------------------------------
(* Cursors: each filter has an index of its own into its vector, from 0 *)

Show(f, index) ==
  /\ cursor' = [cursor EXCEPT ![f] = index]
  /\ shown' = [shown EXCEPT ![f] = index + 1]

\* A walk goes on, or has come to its end.
Onward(w) == IF w = None THEN w ELSE [w EXCEPT !.count = @ + 1]
Ended(w) == IF w = None THEN w ELSE [w EXCEPT !.over = TRUE]

CursorBegin(f) ==
  /\ result # None
  /\ IF result[f] # << >>
     THEN Show(f, 0) /\ walk' = [walk EXCEPT ![f] = [count |-> 1, over |-> FALSE]]
     ELSE cursor' = [cursor EXCEPT ![f] = 0] /\ UNCHANGED <<shown, walk>>
  /\ UNCHANGED <<file, scan, result>>

\* Mutant of CursorNext: the last transaction is not reached.
CursorNextShort(f) ==
  /\ result # None
  /\ IF cursor[f] + 2 < Len(result[f])
     THEN /\ Show(f, cursor[f] + 1)
          /\ walk' = [walk EXCEPT ![f] = Onward(@)]
     ELSE /\ walk' = [walk EXCEPT ![f] = Ended(@)]
          /\ UNCHANGED <<cursor, shown>>
  /\ UNCHANGED <<file, scan, result>>

CursorNext(f) ==
  /\ result # None
  /\ IF cursor[f] + 1 < Len(result[f])
     THEN /\ Show(f, cursor[f] + 1)
          /\ walk' = [walk EXCEPT ![f] = Onward(@)]
     ELSE /\ walk' = [walk EXCEPT ![f] = Ended(@)]
          /\ UNCHANGED <<cursor, shown>>
  /\ UNCHANGED <<file, scan, result>>

CursorPrev(f) ==
  /\ result # None /\ walk' = [walk EXCEPT ![f] = None]
  /\ IF cursor[f] > 0 THEN Show(f, cursor[f] - 1) ELSE UNCHANGED <<cursor, shown>>
  /\ UNCHANGED <<file, scan, result>>

CursorLast(f) ==
  /\ result # None /\ walk' = [walk EXCEPT ![f] = None]
  /\ IF result[f] # << >> THEN Show(f, Len(result[f]) - 1) ELSE UNCHANGED <<cursor, shown>>
  /\ UNCHANGED <<file, scan, result>>

Next ==
  \/ \E levels \in Levels, before \in {{}, Data} : Change(levels, before)
  \/ Finish
  \/ \E f \in Filters : CursorBegin(f) \/ CursorNext(f) \/ CursorPrev(f) \/ CursorLast(f)

Spec == Init /\ [][Next]_vars
-----------------------------------------------------------------------------
(* Look-ups, in a vector v of one direction: a place in it, or 0 *)

NoLimit == -1
Cut(seq, limit) == IF limit # NoLimit /\ Len(seq) > limit THEN SubSeq(seq, 1, limit) ELSE seq

FirstAt(v, addr) == SelectInSeq(v, LAMBDA x : x.addr = addr)
LastAt(v, addr) == SelectLastInSeq(v, LAMBDA x : x.addr = addr)

\* The counter of hits, after each entry.
Counts(v, addr) ==
  LET count[i \in 0 .. Len(v)] == IF i = 0 THEN 0 ELSE IF v[i].addr = addr THEN count[i - 1] + 1 ELSE count[i - 1]
  IN count

\* Mutant of NumberAt: the search goes on past the num-th.
NumberAtOverrun(v, addr, num) ==
  SelectLastInSeq([i \in DOMAIN v |-> i], LAMBDA i : v[i].addr = addr /\ Counts(v, addr)[i] >= num)

\* The loop that counts hits up to num.
NumberAt(v, addr, num) ==
  SelectInSeq([i \in DOMAIN v |-> i], LAMBDA i : v[i].addr = addr /\ Counts(v, addr)[i] = num)

\* handle_apb_wr and handle_apb_rd: what -addr, -num and -last ask for together;
\* num is 0 when it is not given, addr None.
Lookup(v, addr, num, last) ==
  CASE addr # None /\ num > 0 -> NumberAt(v, addr, num)
    [] addr # None /\ num = 0 /\ last -> LastAt(v, addr)
    [] addr # None /\ num = 0 /\ ~last -> FirstAt(v, addr)
    [] addr = None /\ num > 0 -> IF num <= Len(v) THEN num ELSE 0
    [] addr = None /\ num = 0 /\ last -> Len(v)

\* Mutant of InRange: upper_bound for lower_bound.
InRangeAfter(all, begin, end, limit) ==
  LET from == SelectInSeq(all, LAMBDA x : x.time > begin)
      past == SelectInSeq(all, LAMBDA x : x.time > end)
  IN IF from = 0 THEN << >> ELSE Cut(SubSeq(all, from, IF past = 0 THEN Len(all) ELSE past - 1), limit)

\* get_transactions_in_range: lower_bound, and on to the window's end or the limit.
InRange(all, begin, end, limit) ==
  LET from == SelectInSeq(all, LAMBDA x : x.time >= begin)
      past == SelectInSeq(all, LAMBDA x : x.time > end)
  IN IF from = 0 THEN << >> ELSE Cut(SubSeq(all, from, IF past = 0 THEN Len(all) ELSE past - 1), limit)

\* ai_apb_transfer_window: of both directions, one more than the limit is read.
TransferWindow(all, begin, end, filter, limit) ==
  LET found == InRange(all, begin, end, IF filter # "all" \/ limit = NoLimit THEN NoLimit ELSE limit + 1)
      due == IF filter = "all" THEN found ELSE OfDirection(found, filter = "wr")
  IN [list |-> Cut(due, limit), truncated |-> Cut(due, limit) # due]

\* handle_event_query: what is around an event.
Context(all, time, window) ==
  InRange(all, IF time > window THEN time - window ELSE 0, time + window, NoLimit)
-----------------------------------------------------------------------------
\* analyze reports the transfers of the bus, in order, with the levels that hold
\* after each clock edge, however NPI orders the changes of one time; and every
\* one is in the vector of its direction.
ScanIsTheBus ==
  /\ result = None => scan.all = truth
  /\ result # None =>
       /\ result.all = truth
       /\ Len(result.wr) + Len(result.rd) = Len(truth)
       /\ \A x \in ToSet(truth) : x \in ToSet(IF x.write THEN result.wr ELSE result.rd)

\* What a cursor showed last is where its next move starts from, and still there;
\* and begin and then next, until it says there are no more, shows every matching
\* transaction once: whatever moves of the other two filters come in between.
WalkShowsAll ==
  \A f \in Filters :
    /\ shown[f] # 0 => shown[f] = cursor[f] + 1 /\ shown[f] <= Len(result[f])
    /\ walk[f] # None => walk[f].count = shown[f] /\ (walk[f].over => walk[f].count = Len(result[f]))

\* A result stays as it is: the first state with it will do.
Unmoved == result # None /\ \A f \in Filters : shown[f] = 0 /\ walk[f] = None

\* wr and rd: the num-th, the first and the last at an address are the places
\* that hold it, in order, and there is none past the last.
PlacesAgree(v, addr) ==
  LET hits == {i \in DOMAIN v : v[i].addr = addr}
      Numbered(i) == Cardinality({j \in hits : j <= i})
  IN /\ \A i \in hits : Lookup(v, addr, Numbered(i), FALSE) = i
     /\ Lookup(v, addr, Cardinality(hits) + 1, FALSE) = 0
     /\ Lookup(v, addr, 0, FALSE) = Lookup(v, addr, 1, FALSE)
     /\ hits # {} => Lookup(v, addr, 0, TRUE) = Lookup(v, addr, Cardinality(hits), TRUE)
     /\ Lookup(v, None, 0, TRUE) = Cardinality(DOMAIN v)
LookupsAgree ==
  Unmoved => \A f \in {"wr", "rd"}, addr \in Addrs : PlacesAgree(result[f], addr)

\* apb.transfer_window and the context of an event: the transfers of that direction
\* in the window, the first of them when there is a limit, which the answer says.
Within(s, begin, end) == Picked(s, {i \in DOMAIN s : begin <= s[i].time /\ s[i].time <= end})
WindowIsExact(reply, due, limit) ==
  /\ IsPrefix(reply.list, due)
  /\ Len(reply.list) = IF reply.truncated THEN limit ELSE Len(due)
  /\ reply.truncated = (limit # NoLimit /\ Len(due) > limit)
WindowsAreExact ==
  Unmoved =>
    \A begin, end \in 0 .. LastTime :
      /\ \A f \in Filters, limit \in {NoLimit, 0, 1} :
           WindowIsExact(TransferWindow(result.all, begin, end, f, limit), Within(result[f], begin, end), limit)
      /\ (begin + end) % 2 = 0 /\ begin <= end =>
           Context(result.all, (begin + end) \div 2, (end - begin) \div 2) = Within(result.all, begin, end)
=============================================================================
