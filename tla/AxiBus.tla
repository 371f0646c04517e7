------------------------------- MODULE AxiBus -------------------------------
(***************************************************************************)
(* What an AXI interface does, one clock edge at a time: the input of      *)
(* AxiAnalyzer and the truth its result is compared with.  The bus obeys   *)
(* AMBA AXI4: write data come in the order of the write addresses, before, *)
(* with or after them; a response follows both, in order per id; read data *)
(* follow their address, in order per id, and interleave between ids.      *)
(***************************************************************************)
EXTENDS Integers, Sequences, SequencesExt, Selections

CONSTANTS
  TxnIds,    \* values of AWID, BID, ARID and RID
  None,      \* no handshake on a channel
  MaxTxns,   \* bound: transactions in flight or complete
  MaxBeats   \* bound: beats of a burst

ASSUME BusAssumption ==
  /\ MaxTxns \in Nat /\ MaxBeats \in Nat \ {0}
  /\ None \notin TxnIds

\* One edge: reset, or the handshakes of the five channels.
Reset == [rst |-> TRUE, aw |-> None, w |-> "none", b |-> None, ar |-> None, r |-> None, rlast |-> FALSE]
Handshakes ==
  [rst : {FALSE}, aw : TxnIds \cup {None}, w : {"none", "beat", "last"}, b : TxnIds \cup {None},
   ar : TxnIds \cup {None}, r : TxnIds \cup {None}, rlast : BOOLEAN]

\* The bus: addresses and bursts of writes in flight (the n-th burst is the n-th
\* address's), reads in flight, the writes and reads that are complete, and
\* whether every write address so far came with all of its data.
Quiet == [aw |-> << >>, bursts |-> << >>, reads |-> << >>, wrote |-> {}, did |-> {}, dataFirst |-> TRUE]

FirstOfId(s, id) == SelectInSeq(s, LAMBDA x : x.id = id)

\* The burst that is being sent, or a new one.
Current(bus) ==
  IF bus.bursts # << >> /\ ~Last(bus.bursts).done THEN Last(bus.bursts) ELSE [beats |-> << >>, done |-> FALSE]
MaySend(bus, h) ==
  Len(Current(bus).beats) = MaxBeats - 1 => h.w # "beat"

MayRespond(bus, h) ==
  h.b # None =>
    LET k == FirstOfId(bus.aw, h.b) IN k \in 1 .. Len(bus.bursts) /\ bus.bursts[k].done
MayRead(bus, h) ==
  IF h.r = None THEN ~h.rlast
  ELSE LET k == FirstOfId(bus.reads, h.r)
       IN k # 0 /\ (Len(bus.reads[k].beats) = MaxBeats - 1 => h.rlast)

-----------------------------------------------------------------------------
Sent(bus, h, t) ==
  LET c == Current(bus)
      burst == [beats |-> Append(c.beats, t), done |-> h.w = "last"]
  IN CASE h.w = "none" -> bus
       [] h.w # "none" /\ c.beats = << >> -> [bus EXCEPT !.bursts = Append(@, burst)]
       [] OTHER -> [bus EXCEPT !.bursts = Append(Front(@), burst)]

Addressed(bus, h, t) ==
  LET n == Len(bus.aw) + 1
      ready == n <= Len(bus.bursts) /\ bus.bursts[n].done
  IN [bus EXCEPT
        !.aw = IF h.aw = None THEN @ ELSE Append(@, [id |-> h.aw, addr |-> t]),
        !.dataFirst = @ /\ (h.aw = None \/ ready),
        !.reads = IF h.ar = None THEN @ ELSE Append(@, [id |-> h.ar, addr |-> t, beats |-> << >>])]

Responded(bus, h, t) ==
  IF h.b = None THEN bus
  ELSE LET k == FirstOfId(bus.aw, h.b)
           txn == [write |-> TRUE, id |-> h.b, addr |-> bus.aw[k].addr, beats |-> bus.bursts[k].beats, resp |-> t]
       IN [bus EXCEPT !.aw = RemoveAt(@, k), !.bursts = RemoveAt(@, k), !.wrote = @ \cup {txn}]

Read(bus, h, t) ==
  IF h.r = None THEN bus
  ELSE LET k == FirstOfId(bus.reads, h.r)
           txn == [bus.reads[k] EXCEPT !.beats = Append(@, t)]
       IN IF h.rlast
          THEN [bus EXCEPT !.reads = RemoveAt(@, k),
                           !.did = @ \cup {[write |-> FALSE, id |-> h.r, addr |-> txn.addr, beats |-> txn.beats, resp |-> t]}]
          ELSE [bus EXCEPT !.reads[k] = txn]

\* A reset drops what is in flight; what is complete stays complete.
BusAfter(bus, h, t) ==
  IF h.rst
  THEN [bus EXCEPT !.aw = << >>, !.bursts = << >>, !.reads = << >>]
  ELSE Read(Responded(Addressed(Sent(bus, h, t), h, t), h, t), h, t)

\* The edges that may come next, within the bound.
Txns(bus) ==
  Cardinality(bus.wrote) + Cardinality(bus.did) + Len(bus.reads)
  + (IF Len(bus.aw) > Len(bus.bursts) THEN Len(bus.aw) ELSE Len(bus.bursts))
Edges(bus) ==
  {Reset} \cup {h \in Handshakes : MaySend(bus, h) /\ MayRespond(bus, h) /\ MayRead(bus, h)
                                   /\ Txns(BusAfter(bus, h, 0)) <= MaxTxns}
=============================================================================
