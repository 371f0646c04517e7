----------------------------- MODULE AxiQueries -----------------------------
(***************************************************************************)
(* What AxiAnalyzer's result is asked for (src/axi/axi_analyzer.cpp, and   *)
(* the requests of src/server/server.cpp around it): look-ups by address,  *)
(* id and number, statistics, windows of transactions and of outstanding   *)
(* samples, and the context of an event.                                   *)
(*                                                                         *)
(* An id or an address that is not given is None, a limit that is not      *)
(* NoLimit.  Filters are "all", "wr" and "rd" (0, 1 and 2 in the code).    *)
(***************************************************************************)
EXTENDS AxiAnalyzer

CONSTANTS
  Windows,  \* bound: the windows asked for, with begin and end
  Top       \* the largest time, 2^64 - 1

\* A waveform is shorter than time can be counted.
ASSUME QueriesAssumption ==
  /\ Windows \subseteq [begin : Nat, end : Nat]
  /\ Top \in Nat /\ LastEdge <= Top /\ 3 <= Top

NoLimit == -1
Cut(seq, limit) == IF limit # NoLimit /\ Len(seq) > limit THEN SubSeq(seq, 1, limit) ELSE seq
Filters == {"all", "wr", "rd"}
OfDirection(x, filter) == filter = "all" \/ x.write = (filter = "wr")
-----------------------------------------------------------------------------
(* Look-ups *)

\* Bound: the address of a transaction goes by its time; one of them has no digit
\* that can be read.
AddressOf(x) == x.addr % 3
Unread == 2

OfId(x, id) == id = None \/ x.id = id
OfAddress(x, addr) == addr = None \/ (AddressOf(x) # Unread /\ AddressOf(x) = addr)
Sought(x, addr, id) == OfAddress(x, addr) /\ OfId(x, id)

\* The first, the num-th and the last that is sought in a vector, by its place; 0
\* is none.
FirstOf(v, addr, id) == SelectInSeq(v, LAMBDA x : Sought(x, addr, id))
LastOf(v, addr, id) == SelectLastInSeq(v, LAMBDA x : Sought(x, addr, id))
\* The counter of those found, after each entry.
Counts(v, addr, id) ==
  LET count[i \in 0 .. Len(v)] == IF i = 0 THEN 0 ELSE IF Sought(v[i], addr, id) THEN count[i - 1] + 1 ELSE count[i - 1]
  IN count
NumberOf(v, addr, id, num) ==
  SelectInSeq([i \in DOMAIN v |-> i], LAMBDA i : Sought(v[i], addr, id) /\ Counts(v, addr, id)[i] = num)

\* handle_axi_rw: what -addr, -id, -num and -last ask for together; num is 0 when
\* it is not given.
Lookup(v, addr, id, num, last) ==
  CASE num > 0 -> NumberOf(v, addr, id, num)
    [] num = 0 /\ last -> LastOf(v, addr, id)
    [] num = 0 /\ ~last /\ addr # None -> FirstOf(v, addr, id)

\* With none of the three, a count, by the first number that is not found.
CountOf(v, id) ==
  CHOOSE n \in 0 .. Len(v) : NumberOf(v, None, id, n + 1) = 0 /\ \A m \in 1 .. n : NumberOf(v, None, id, m) # 0
-----------------------------------------------------------------------------
(* Statistics *)

Latency(x) == x.resp - x.addr
Unseen == [samples |-> 0, total |-> 0, max |-> 0, min |-> 0]

Visited(s, n) ==
  [samples |-> s.samples + 1, total |-> s.total + n,
   max |-> IF s.samples = 0 \/ n > s.max THEN n ELSE s.max,
   min |-> IF s.samples = 0 \/ n < s.min THEN n ELSE s.min]
Stats(numbers) ==
  LET s[n \in 0 .. Len(numbers)] == IF n = 0 THEN Unseen ELSE Visited(s[n - 1], numbers[n])
  IN s[Len(numbers)]

\* get_latency_stats: writes and then reads.
LatencyStats(writes, reads, filter, id) ==
  LET done == writes \o reads
      all == Picked(done, {i \in DOMAIN done : OfDirection(done[i], filter) /\ OfId(done[i], id)})
  IN Stats([i \in DOMAIN all |-> Latency(all[i])])

\* get_outstanding_stats: one number for each edge.
OutstandingIn(sample, filter, id) ==
  (IF filter = "rd" THEN 0 ELSE IF id = None THEN sample.wr ELSE sample.wrById[id])
  + (IF filter = "wr" THEN 0 ELSE IF id = None THEN sample.rd ELSE sample.rdById[id])
OutstandingStats(samples, filter, id) ==
  Stats([i \in DOMAIN samples |-> OutstandingIn(samples[i], filter, id)])
-----------------------------------------------------------------------------
(* Windows *)

\* lower_bound, then on while the time of the transaction is in the window; s is
\* sorted by it.
Stretch(s, from, past) ==
  IF from = 0 THEN << >> ELSE SubSeq(s, from, IF past = 0 THEN Len(s) ELSE past - 1)
Window(s, time, begin, end) ==
  Stretch(s, SelectInSeq(s, LAMBDA i : time[i] >= begin), SelectInSeq(s, LAMBDA i : time[i] > end))

\* get_transactions_in_range: those whose address is in the window, then those
\* whose response is and that are not there yet, at most limit of them, by the
\* time that matched.
Times(r) == [addr |-> [i \in DOMAIN r.all |-> r.all[i].addr], resp |-> [i \in DOMAIN r.all |-> r.all[i].resp]]
Hits(s, time) == [n \in DOMAIN s |-> [txn |-> s[n], match |-> time[s[n]]]]
Emitted(byAddr, byResp, time) ==
  Hits(byAddr, time.addr) \o Hits(Picked(byResp, {n \in DOMAIN byResp : byResp[n] \notin ToSet(byAddr)}), time.resp)
ByMatch(found) == SortedBy(found, [i \in DOMAIN found |-> found[i].match])
InRange(r, begin, end, limit) ==
  ByMatch(Cut(Emitted(Window([i \in DOMAIN r.all |-> i], Times(r).addr, begin, end),
                      Window(r.byResp, Times(r).resp, begin, end), Times(r)), limit))

\* A list, and whether it was cut.
Listed(due, limit) == [list |-> Cut(due, limit), truncated |-> Cut(due, limit) # due]
OneMore(limit) == IF limit = NoLimit THEN NoLimit ELSE limit + 1

\* Those of one direction.
OfOneDirection(r, found, filter) ==
  Picked(found, {n \in DOMAIN found : OfDirection(r.all[found[n].txn], filter)})

\* Mutant of TransactionsWindow: the limit is applied before the direction.
TransactionsWindowFetched(r, w, filter, limit) ==
  Listed(OfOneDirection(r, InRange(r, w.begin, w.end, OneMore(limit)), filter), limit)

\* ai_axi_transactions_window: of one direction, all are fetched and then cut.
TransactionsWindow(r, w, filter, limit) ==
  Listed(OfOneDirection(r, InRange(r, w.begin, w.end, IF filter = "all" THEN OneMore(limit) ELSE NoLimit), filter), limit)

\* ai_axi_latency_outlier: the slowest of those listed.
LatencyOutliers(r, list, top) ==
  Cut(SortedBy(list, [i \in DOMAIN list |-> -Latency(r.all[list[i].txn])]), top)

\* ai_axi_outstanding_timeline.
Timeline(samples, w, limit) ==
  Listed(Cut(Window([i \in DOMAIN samples |-> i], [i \in DOMAIN samples |-> samples[i].time], w.begin, w.end),
             OneMore(limit)), limit)

\* handle_event_query: what is around an event; the window ends where times do.
Saturated(sum, time) == IF sum < time THEN Top ELSE sum
Context(r, time, window) ==
  InRange(r, IF time > window THEN time - window ELSE 0, Saturated((time + window) % (Top + 1), time), NoLimit)
-----------------------------------------------------------------------------
\* wr and rd by address, id and number: the n-th read is the n-th the bus asked
\* for, of that address and id or of all, whatever the order they completed in, the
\* first is the first and the last the last of these, and there is none past it;
\* likewise the writes, when their data came first.
Numbered(d, due) == Cardinality({e \in due : e.addr <= d.addr})
IsNth(v, i, d) == i # 0 /\ v[i] = d
LooksUp(v, due, addr, id) ==
  /\ \A d \in due : IsNth(v, Lookup(v, addr, id, Numbered(d, due), FALSE), d)
  /\ Lookup(v, addr, id, Cardinality(due) + 1, FALSE) = 0
  /\ due # {} => \A last \in IF addr = None THEN {TRUE} ELSE BOOLEAN :
       Lookup(v, addr, id, 0, last) = NumberOf(v, addr, id, IF last THEN Cardinality(due) ELSE 1)
  /\ due = {} => Lookup(v, addr, id, 0, TRUE) = 0
  /\ addr = None => CountOf(v, id) = Cardinality(due)
LookupsAreTheBus ==
  result # None =>
    \A addr \in {0, 1, None}, id \in TxnIds \cup {None} :
      /\ LooksUp(an.reads, {d \in bus.did : Sought(d, addr, id)}, addr, id)
      /\ bus.dataFirst => LooksUp(an.writes, {d \in bus.wrote : Sought(d, addr, id)}, addr, id)

\* README: "analyze latency/outstanding behavior": the counters that an edge samples
\* (inc_osd, dec_osd, and the reset) are the transactions the bus has in flight,
\* in all and by id; the statistics of latency are those of the bus's transactions
\* of that kind and id, and those of the outstanding numbers are of all samples.
\* (Of writes, when their data came first.)
InFlight(filter, id) ==
  (IF filter = "rd" THEN 0 ELSE Cardinality({i \in DOMAIN bus.aw : OfId(bus.aw[i], id)}))
  + (IF filter = "wr" THEN 0 ELSE Cardinality({i \in DOMAIN bus.reads : OfId(bus.reads[i], id)}))
\* As many as there are units in the numbers.
Units(f, S) == UNION {{d} \X (1 .. f[d]) : d \in S}
SummedUp(stats, f) ==
  /\ stats.samples = Cardinality(DOMAIN f) /\ stats.total = Cardinality(Units(f, DOMAIN f))
  /\ f # << >> => {stats.max, stats.min} \subseteq {f[d] : d \in DOMAIN f}
  /\ \A d \in DOMAIN f : stats.min <= f[d] /\ f[d] <= stats.max
StatsAreTheBus ==
  \A id \in TxnIds \cup {None}, filter \in Filters :
    filter = "rd" \/ bus.dataFirst =>
      /\ result = None /\ an.samples # << >> /\ Last(an.samples).time = t =>
           OutstandingIn(Last(an.samples), filter, id) = InFlight(filter, id)
      /\ result # None =>
           /\ SummedUp(LatencyStats(an.writes, an.reads, filter, id),
                       [d \in {x \in bus.wrote \cup bus.did : OfDirection(x, filter) /\ OfId(x, id)} |-> Latency(d)])
           /\ SummedUp(OutstandingStats(an.samples, filter, id),
                       [i \in DOMAIN an.samples |-> OutstandingIn(an.samples[i], filter, id)])

\* axi.request_response_pair, axi.latency_outlier, axi.outstanding_timeline and the
\* context of an event: an answer has the transactions of that direction with an
\* end in the window, each once and in order, although two indexes are merged, and
\* says whether it was cut; what is cut are the latest, unless both directions are
\* asked for: then those whose address is in the window go first.
Ends(i) == {result.all[i].addr, result.all[i].resp}
EndsIn(i, begin, end) == \E e \in Ends(i) : begin <= e /\ e <= end
TxnsOf(found) == {x.txn : x \in ToSet(found)}
Matched(i, begin) == IF result.all[i].addr >= begin THEN result.all[i].addr ELSE result.all[i].resp
IsCut(reply, due, limit) ==
  /\ reply.truncated = (limit # NoLimit /\ limit < Cardinality(due))
  /\ Len(reply.list) = IF reply.truncated THEN limit ELSE Cardinality(due)
AreOf(found, due) ==
  /\ TxnsOf(found) \subseteq due /\ Cardinality(TxnsOf(found)) = Len(found)
  /\ \A x \in ToSet(found) : x.match \in Ends(x.txn)
  /\ \A n \in 2 .. Len(found) : found[n - 1].match <= found[n].match
AreEarliest(listed, due, begin) ==
  \A i \in listed, j \in due \ listed : Matched(i, begin) <= Matched(j, begin)
IsSlowest(slowest, due) ==
  Len(slowest) = 1 /\ \A i \in due : Latency(result.all[i]) <= Latency(result.all[slowest[1].txn])
WindowIsExact(reply, due, begin, filter, limit) ==
  /\ AreOf(reply.list, due) /\ IsCut(reply, due, limit)
  /\ filter # "all" => AreEarliest(TxnsOf(reply.list), due, begin)
  /\ ~reply.truncated /\ due # {} => IsSlowest(LatencyOutliers(result, reply.list, 1), due)
TimelineIsExact(reply, due, limit) ==
  /\ IsCut(reply, due, limit) /\ ToSet(reply.list) \subseteq due
  /\ \A i \in ToSet(reply.list), j \in due \ ToSet(reply.list) : i < j
WindowsAreExact ==
  result # None =>
    /\ \A w \in Windows, limit \in {0, 1, NoLimit} :
         /\ \A filter \in Filters :
              WindowIsExact(TransactionsWindow(result, w, filter, limit),
                {i \in DOMAIN result.all : OfDirection(result.all[i], filter) /\ EndsIn(i, w.begin, w.end)},
                w.begin, filter, limit)
         /\ TimelineIsExact(Timeline(an.samples, w, limit),
              {i \in DOMAIN an.samples : w.begin <= an.samples[i].time /\ an.samples[i].time <= w.end}, limit)
    /\ \A time \in {1, LastEdge}, window \in {1, 3} :
         /\ AreOf(Context(result, time, window), DOMAIN result.all)
         /\ TxnsOf(Context(result, time, window)) = {i \in DOMAIN result.all : EndsIn(i, time - window, time + window)}
=============================================================================
