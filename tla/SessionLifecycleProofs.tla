----------------------- MODULE SessionLifecycleProofs -----------------------
(***************************************************************************)
(* For any number of clients, daemons and sessions, rewrites of the FSDB   *)
(* file and crashes: registry.lock keeps create_session and                *)
(* restart_session apart (LockDiscipline), and every answer is made of the *)
(* file as it was when the daemon checked it (FreshAnswer).  The state     *)
(* keeps its types (TypeOK), a process that stop_process is through with   *)
(* is gone (StoppedMeansDead), and queries are reads of the FSDB file at   *)
(* one moment between request and answer (QueriesAreFreshReads).           *)
(***************************************************************************)
EXTENDS SessionLifecycle, RegistryDocProofs, TLAPS

\* A daemon's record.  Its fingerprint was taken before the file was opened, and
\* it serves a client only while it is busy, on data equal to what it checked, or in
\* the handler that interrupted it.
DaemonOk(d) ==
  /\ d \in [pc : Running \cup {"unborn", "dead"}, id : {d.id}, fp : Nat, data : Nat,
            client : Clients \cup {NoClient}, asof : Nat, quit : {d.quit},
            gone : {d.gone}, snap : {d.snap}, handler : {d.handler}]
  /\ d.pc \in {"stated", "opened"} \cup Listening => d.fp <= fsdb
  /\ d.pc \in {"opened"} \cup Listening => d.fp <= d.data /\ d.data <= fsdb
  /\ d.pc \in Busy => d.data = d.asof
  /\ d.pc \notin Busy \cup Ending => d.client = NoClient

\* A client's record: it is on the path of its command, and an answer it has is fresh.
ClientOk(k) ==
  /\ k \in [pc : {k.pc}, cmd : AllCommands, id : {k.id}, rec : {k.rec}, new : {k.new},
            srv : {k.srv}, snap : {k.snap}, todo : {k.todo},
            reply : [kind : {"none", "data", "changed", "eof"}, data : Nat, asof : Nat]]
  /\ k.pc \in Path(k.cmd)
  /\ k.reply.kind = "data" => k.reply.data = k.reply.asof

Shapes ==
  /\ fsdb \in Nat
  /\ dm = [p \in Pids |-> dm[p]] /\ \A p \in Pids : DaemonOk(dm[p])
  /\ cl = [c \in Clients |-> cl[c]] /\ \A c \in Clients : ClientOk(cl[c])

\* The client a daemon serves is waiting for that daemon.
ServedWaits ==
  \A p \in Pids : LET c == dm[p].client IN
    c # NoClient => cl[c].pc = "waiting" /\ cl[c].srv = p

IInv == Shapes /\ ServedWaits /\ LockDiscipline

(***************************************************************************)
(* What one step does, as far as the invariant can tell.                   *)
(***************************************************************************)
CriticalOn(cmd, l) ==
  \/ cmd = "open" /\ l \in InOpen
  \/ cmd \in {"config", "query"} /\ l \in InRestart
CriticalAt(k) == CriticalOn(k.cmd, k.pc)

\* One daemon changes and serves nobody it did not serve before, or none changes.
DaemonMove ==
  \/ UNCHANGED dm
  \/ \E q, d : /\ dm' = [dm EXCEPT ![q] = d]
               /\ q \in Pids => DaemonOk(d) /\ d.client \in {NoClient, dm[q].client}

\* registry.lock is kept as it was, taken from free, or given back by its holder.
LockSame == \A c \in Clients : c \in lock' <=> c \in lock
LockMove(c, k) ==
  \/ LockSame /\ (CriticalAt(k) <=> CriticalAt(cl[c]))
  \/ lock = {} /\ lock' = {c} /\ CriticalAt(k)
  \/ CriticalAt(cl[c]) /\ lock' = {} /\ ~CriticalAt(k)

\* A client goes on to the record k.
ClientMove(c, k) ==
  /\ cl' = [cl EXCEPT ![c] = k] /\ ClientOk(k) /\ cl[c].pc # "waiting"
  /\ DaemonMove /\ LockMove(c, k) /\ UNCHANGED fsdb

LEMMA ClientMoveKeepsIInv ==
  ASSUME IInv, NEW c \in Clients, NEW k, ClientMove(c, k)
  PROVE  IInv'
<1> USE DEF IInv, ClientMove
<1>1. Shapes'
  <2>1. fsdb' \in Nat /\ (\A p \in Pids : DaemonOk(dm'[p])) /\ dm' = [p \in Pids |-> dm'[p]]
    BY DEF Shapes, DaemonMove
  <2>2. (\A d \in Clients : ClientOk(cl'[d])) /\ cl' = [d \in Clients |-> cl'[d]]
    BY DEF Shapes
  <2> QED
    BY <2>1, <2>2 DEF Shapes, DaemonOk, ClientOk
<1>2. ServedWaits'
  <2> SUFFICES ASSUME NEW p \in Pids, dm'[p].client # NoClient
               PROVE  cl'[dm'[p].client].pc = "waiting" /\ cl'[dm'[p].client].srv = p
    BY DEF ServedWaits
  <2>1. dm'[p].client = dm[p].client
    BY DEF DaemonMove, Shapes
  <2>2. cl[dm[p].client].pc = "waiting" /\ cl[dm[p].client].srv = p /\ dm[p].client # c
    BY <2>1 DEF ServedWaits
  <2>3. dm[p].client \in Clients
    BY <2>1 DEF Shapes, DaemonOk
  <2> QED
    BY <2>1, <2>2, <2>3 DEF Shapes
<1>3. LockDiscipline'
  <2>1. \A d \in Clients : cl'[d] = IF d = c THEN k ELSE cl[d]
    BY DEF Shapes
  <2>2. \A d \in Clients : Critical(d) <=> CriticalAt(cl[d])
    BY DEF Critical, CriticalAt, CriticalOn
  <2>3. \A d \in Clients : Critical(d)' <=> CriticalAt(cl'[d])
    BY DEF Critical, CriticalAt, CriticalOn
  <2> QED
    BY <2>1, <2>2, <2>3 DEF LockDiscipline, LockMove, LockSame
<1> QED
  BY <1>1, <1>2, <1>3

\* A daemon goes on to the record d, and no client moves.
LEMMA DaemonMoveKeepsIInv ==
  ASSUME IInv, NEW p \in Pids, NEW d, DaemonTo(p, d), DaemonOk(d),
         UNCHANGED <<fsdb, cl>>,
         d.client # NoClient => cl[d.client].pc = "waiting" /\ cl[d.client].srv = p
  PROVE  IInv'
<1> USE DEF IInv, DaemonTo
<1>1. Shapes'
  <2>1. (\A q \in Pids : DaemonOk(dm'[q])) /\ dm' = [q \in Pids |-> dm'[q]]
    BY DEF Shapes
  <2> QED
    BY <2>1 DEF Shapes, DaemonOk, ClientOk
<1>2. ServedWaits'
  BY DEF ServedWaits, Shapes
<1>3. LockDiscipline'
  BY LifecycleAssumption DEF LockDiscipline, Critical
<1> QED
  BY <1>1, <1>2, <1>3

(***************************************************************************)
(* Records that are fine.                                                  *)
(***************************************************************************)
LEMMA FinishOk ==
  ASSUME NEW m \in AllCommands, NEW i
  PROVE  LET k == [Idle EXCEPT !.cmd = m, !.id = i]
         IN ClientOk(k) /\ ~CriticalAt(k)
<1> DEFINE k == [Idle EXCEPT !.cmd = m, !.id = i]
<1>1. NoReply \in [kind : {"none", "data", "changed", "eof"}, data : Nat, asof : Nat] /\ NoReply.kind # "data"
  BY DEF NoReply
<1>2. k.pc = "idle" /\ k.cmd = m /\ k.reply = NoReply
  BY DEF Idle
<1>3. k \in [pc : {k.pc}, cmd : AllCommands, id : {k.id}, rec : {k.rec}, new : {k.new},
             srv : {k.srv}, snap : {k.snap}, todo : {k.todo},
             reply : [kind : {"none", "data", "changed", "eof"}, data : Nat, asof : Nat]]
  BY <1>1 DEF Idle
<1> HIDE DEF k
<1>4. ~CriticalAt(k) /\ k.pc \in Path(k.cmd)
  BY <1>2 DEF CriticalAt, CriticalOn, Path, AllCommands, InOpen, InRestart, InRequest, InStop
<1>5. ClientOk(k)
  BY <1>1, <1>2, <1>3, <1>4 DEF ClientOk
<1> QED
  BY <1>4, <1>5 DEF k

LEMMA NewDaemonOk ==
  /\ DaemonOk(Dead) /\ Dead.client = NoClient /\ Dead.pc = "dead"
  /\ \A i : LET d == [Unborn EXCEPT !.pc = "forked", !.id = i]
            IN DaemonOk(d) /\ d.client = NoClient /\ d.pc = "forked"
  BY DEF DaemonOk, Dead, Unborn, Running, Starting, Listening, Busy, Ending

LEMMA HandledOk ==
  ASSUME NEW p \in Pids, DaemonOk(dm[p]), NEW h
  PROVE  DaemonOk(Handled(p, h)) /\ Handled(p, h).client = dm[p].client
  BY DEF Handled, DaemonOk, Starting, Running, Listening, Busy, Ending

LEMMA TerminatedOk ==
  ASSUME NEW p \in Pids, DaemonOk(dm[p]), Alive(p), NEW d \in Terminated(p)
  PROVE  DaemonOk(d) /\ d.client \in {NoClient, dm[p].client}
<1>1. \/ d = Dead \/ d = dm[p] \/ d = Handled(p, "on") \/ d = Handled(p, "locked")
      \/ dm[p].pc = "opened" /\ d = [dm[p] EXCEPT !.pc = "removing", !.handler = "on"]
  BY DEF Terminated
<1>2. ASSUME dm[p].pc = "opened", d = [dm[p] EXCEPT !.pc = "removing", !.handler = "on"]
      PROVE  DaemonOk(d) /\ d.client = dm[p].client
  BY <1>2 DEF DaemonOk, Starting, Running, Listening, Busy, Ending
<1>3. \A h : DaemonOk(Handled(p, h)) /\ Handled(p, h).client = dm[p].client
  BY HandledOk
<1>4. DaemonOk(Dead) /\ Dead.client = NoClient
  BY NewDaemonOk
<1> QED
  BY <1>1, <1>2, <1>3, <1>4

LEMMA SignalMoves ==
  ASSUME Shapes, NEW q, Signal(q, Terminated(q)) \/ Signal(q, Killed(q))
  PROVE  DaemonMove /\ LockSame
<1>1. CASE ~Alive(q)
  BY <1>1 DEF Signal, DaemonMove, LockSame
<1>2. CASE Alive(q)
  <2>1. q \in Pids
    BY <1>2 DEF Alive
  <2>2. PICK d \in Terminated(q) \cup Killed(q) : DaemonTo(q, d)
    BY <1>2 DEF Signal
  <2>3. DaemonOk(d) /\ d.client \in {NoClient, dm[q].client}
    BY <1>2, <2>1, <2>2, TerminatedOk, NewDaemonOk DEF Killed, Shapes
  <2> QED
    BY <2>1, <2>2, <2>3, LifecycleAssumption DEF DaemonTo, DaemonMove, LockSame
<1> QED
  BY <1>1, <1>2

LEMMA DiagnosedMoves ==
  ASSUME Shapes, NEW i, Diagnosed(i, TRUE) \/ Diagnosed(i, FALSE)
  PROVE  DaemonMove
<1>1. CASE UNCHANGED dm
  BY <1>1 DEF DaemonMove
<1>2. CASE dm' = [dm EXCEPT ![sock[i]].gone = @ \cup {"ping"}]
  <2> DEFINE d == [dm[sock[i]] EXCEPT !.gone = @ \cup {"ping"}]
  <2>1. dm' = [dm EXCEPT ![sock[i]] = d]
    BY <1>2
  <2>2. sock[i] \in Pids => DaemonOk(d) /\ d.client = dm[sock[i]].client
    BY DEF Shapes, DaemonOk
  <2> QED
    BY <2>1, <2>2 DEF DaemonMove
<1> QED
  BY <1>1, <1>2 DEF Diagnosed

LEMMA ForkMoves ==
  ASSUME NEW c, NEW i, Forkable # {}, Fork(c, CHOOSE p \in Forkable : TRUE, i)
  PROVE  DaemonMove /\ LockSame
<1> DEFINE p == CHOOSE q \in Forkable : TRUE
<1>1. p \in Pids
  BY DEF Forkable
<1> HIDE DEF p
<1>2. DaemonMove
  BY <1>1, NewDaemonOk DEF Fork, DaemonMove, p
<1>3. LockSame
  BY <1>1, LifecycleAssumption DEF Fork, LockSame, p
<1> QED
  BY <1>2, <1>3

(***************************************************************************)
(* A client's step to its next label, whatever else its record gets.       *)
(***************************************************************************)
Advances(c, l) ==
  \E k : cl' = [cl EXCEPT ![c] = k] /\ ClientOk(k) /\ k.pc = l /\ k.cmd = cl[c].cmd

LockAdvance(c, l) ==
  \/ LockSame /\ (CriticalOn(cl[c].cmd, l) <=> CriticalOn(cl[c].cmd, cl[c].pc))
  \/ lock = {} /\ lock' = {c} /\ CriticalOn(cl[c].cmd, l)
  \/ CriticalOn(cl[c].cmd, cl[c].pc) /\ lock' = {} /\ ~CriticalOn(cl[c].cmd, l)

LEMMA AdvanceKeepsIInv ==
  ASSUME IInv, NEW c \in Clients, NEW l, Advances(c, l), cl[c].pc # "waiting",
         DaemonMove, LockAdvance(c, l), UNCHANGED fsdb
  PROVE  IInv'
<1>1. PICK k : cl' = [cl EXCEPT ![c] = k] /\ ClientOk(k) /\ k.pc = l /\ k.cmd = cl[c].cmd
  BY DEF Advances
<1>2. LockMove(c, k)
  BY <1>1 DEF LockAdvance, LockMove, CriticalAt
<1> QED
  BY <1>1, <1>2, ClientMoveKeepsIInv DEF ClientMove

LEMMA AdvancesIf ==
  ASSUME Shapes, NEW c \in Clients
  PROVE  /\ Finish(c) => Advances(c, "idle")
         /\ \A l \in Path(cl[c].cmd) :
              /\ To(c, l) => Advances(c, l)
              /\ \A s : cl' = [cl EXCEPT ![c].pc = l, ![c].snap = s] => Advances(c, l)
              /\ \A r : cl' = [cl EXCEPT ![c].pc = l, ![c].rec = r] => Advances(c, l)
              /\ \A n : cl' = [cl EXCEPT ![c].new = n, ![c].pc = l] => Advances(c, l)
              /\ \A n : cl' = [cl EXCEPT ![c].pc = l, ![c].srv = n] => Advances(c, l)
              /\ \A t : cl' = [cl EXCEPT ![c].pc = l, ![c].todo = t] => Advances(c, l)
              /\ \A i, r, t : cl' = [cl EXCEPT ![c] = [@ EXCEPT !.pc = l, !.id = i, !.rec = r, !.todo = t]] => Advances(c, l)
<1> DEFINE k == cl[c]
<1>1. ClientOk(k) /\ k.cmd \in AllCommands
  BY DEF Shapes, ClientOk
<1>2. Finish(c) => Advances(c, "idle")
  <2> DEFINE f == [Idle EXCEPT !.cmd = cl[c].cmd, !.id = cl[c].id]
  <2>1. ClientOk(f)
    BY <1>1, FinishOk
  <2>2. f.pc = "idle" /\ f.cmd = cl[c].cmd
    BY DEF Idle
  <2> QED
    BY <2>1, <2>2 DEF Finish, Advances
<1> SUFFICES ASSUME NEW l \in Path(cl[c].cmd)
             PROVE  /\ To(c, l) => Advances(c, l)
                    /\ \A s : cl' = [cl EXCEPT ![c].pc = l, ![c].snap = s] => Advances(c, l)
                    /\ \A r : cl' = [cl EXCEPT ![c].pc = l, ![c].rec = r] => Advances(c, l)
                    /\ \A n : cl' = [cl EXCEPT ![c].new = n, ![c].pc = l] => Advances(c, l)
                    /\ \A n : cl' = [cl EXCEPT ![c].pc = l, ![c].srv = n] => Advances(c, l)
                    /\ \A t : cl' = [cl EXCEPT ![c].pc = l, ![c].todo = t] => Advances(c, l)
                    /\ \A i, r, t : cl' = [cl EXCEPT ![c] = [@ EXCEPT !.pc = l, !.id = i, !.rec = r, !.todo = t]] => Advances(c, l)
  BY <1>2
<1>3. To(c, l) => Advances(c, l)
  <2> DEFINE e == [k EXCEPT !.pc = l]
  <2>1. ClientOk(e) /\ e.pc = l /\ e.cmd = k.cmd
    BY <1>1 DEF ClientOk
  <2> QED
    BY <2>1 DEF To, Advances, Shapes
<1>4. ASSUME NEW s, cl' = [cl EXCEPT ![c].pc = l, ![c].snap = s] PROVE Advances(c, l)
  <2> DEFINE e == [k EXCEPT !.pc = l, !.snap = s]
  <2>1. ClientOk(e) /\ e.pc = l /\ e.cmd = k.cmd
    BY <1>1 DEF ClientOk
  <2>2. cl' = [cl EXCEPT ![c] = e]
    BY <1>4 DEF Shapes
  <2> QED
    BY <2>1, <2>2 DEF Advances
<1>5. ASSUME NEW r, cl' = [cl EXCEPT ![c].pc = l, ![c].rec = r] PROVE Advances(c, l)
  <2> DEFINE e == [k EXCEPT !.pc = l, !.rec = r]
  <2>1. ClientOk(e) /\ e.pc = l /\ e.cmd = k.cmd
    BY <1>1 DEF ClientOk
  <2>2. cl' = [cl EXCEPT ![c] = e]
    BY <1>5 DEF Shapes
  <2> QED
    BY <2>1, <2>2 DEF Advances
<1>6. ASSUME NEW n, cl' = [cl EXCEPT ![c].new = n, ![c].pc = l] PROVE Advances(c, l)
  <2> DEFINE e == [k EXCEPT !.new = n, !.pc = l]
  <2>1. ClientOk(e) /\ e.pc = l /\ e.cmd = k.cmd
    BY <1>1 DEF ClientOk
  <2>2. cl' = [cl EXCEPT ![c] = e]
    BY <1>6 DEF Shapes
  <2> QED
    BY <2>1, <2>2 DEF Advances
<1>7. ASSUME NEW n, cl' = [cl EXCEPT ![c].pc = l, ![c].srv = n] PROVE Advances(c, l)
  <2> DEFINE e == [k EXCEPT !.pc = l, !.srv = n]
  <2>1. ClientOk(e) /\ e.pc = l /\ e.cmd = k.cmd
    BY <1>1 DEF ClientOk
  <2>2. cl' = [cl EXCEPT ![c] = e]
    BY <1>7 DEF Shapes
  <2> QED
    BY <2>1, <2>2 DEF Advances
<1>8. ASSUME NEW t, cl' = [cl EXCEPT ![c].pc = l, ![c].todo = t] PROVE Advances(c, l)
  <2> DEFINE e == [k EXCEPT !.pc = l, !.todo = t]
  <2>1. ClientOk(e) /\ e.pc = l /\ e.cmd = k.cmd
    BY <1>1 DEF ClientOk
  <2>2. cl' = [cl EXCEPT ![c] = e]
    BY <1>8 DEF Shapes
  <2> QED
    BY <2>1, <2>2 DEF Advances
<1>9. ASSUME NEW i, NEW r, NEW t, cl' = [cl EXCEPT ![c] = [@ EXCEPT !.pc = l, !.id = i, !.rec = r, !.todo = t]]
      PROVE  Advances(c, l)
  <2> DEFINE e == [k EXCEPT !.pc = l, !.id = i, !.rec = r, !.todo = t]
  <2>1. ClientOk(e) /\ e.pc = l /\ e.cmd = k.cmd
    BY <1>1 DEF ClientOk
  <2> QED
    BY <1>9, <2>1 DEF Advances
<1> QED
  BY <1>3, <1>4, <1>5, <1>6, <1>7, <1>8, <1>9

LEMMA PathFacts ==
  ASSUME Shapes, NEW c \in Clients
  PROVE  cl[c].cmd \in AllCommands /\ cl[c].pc \in Path(cl[c].cmd)
  BY DEF Shapes, ClientOk

LEMMA StopMoves ==
  ASSUME Shapes, NEW c \in Clients, Stop(c)
  PROVE  DaemonMove
<1>1. CASE UNCHANGED dm
  BY <1>1 DEF DaemonMove
<1>2. ASSUME NEW q, dm' = [dm EXCEPT ![sock[cl[c].id]].quit = q] PROVE DaemonMove
  <2> DEFINE s == sock[cl[c].id]
             d == [dm[s] EXCEPT !.quit = q]
  <2>1. dm' = [dm EXCEPT ![s] = d]
    BY <1>2
  <2>2. ASSUME NEW o, DaemonOk(o) PROVE LET e == [o EXCEPT !.quit = q] IN DaemonOk(e) /\ e.client = o.client
    BY <2>2 DEF DaemonOk
  <2>3. s \in Pids => DaemonOk(dm[s])
    BY DEF Shapes
  <2>4. s \in Pids => DaemonOk(d) /\ d.client = dm[s].client
    BY <2>2, <2>3
  <2> QED
    BY <2>1, <2>4 DEF DaemonMove
<1> QED
  BY <1>1, <1>2 DEF Stop

LEMMA GiveUpMoves ==
  ASSUME Shapes, NEW c \in Clients, GiveUp(c)
  PROVE  DaemonMove
<1>1. CASE UNCHANGED dm
  BY <1>1 DEF DaemonMove
<1>2. CASE Alive(cl[c].new) /\ \E d \in Terminated(cl[c].new) : dm' = [dm EXCEPT ![cl[c].new] = d]
  <2>1. cl[c].new \in Pids
    BY <1>2 DEF Alive
  <2>2. PICK d \in Terminated(cl[c].new) : dm' = [dm EXCEPT ![cl[c].new] = d]
    BY <1>2
  <2>3. DaemonOk(d) /\ d.client \in {NoClient, dm[cl[c].new].client}
    BY <1>2, <2>1, <2>2, TerminatedOk DEF Shapes
  <2> QED
    BY <2>2, <2>3 DEF DaemonMove
<1> QED
  BY <1>1, <1>2 DEF GiveUp

\* The record of a client that nobody serves is replaced, outside the lock.
LEMMA QuietClientKeepsIInv ==
  ASSUME IInv, NEW c \in Clients, NEW k, ClientOk(k), ~CriticalAt(k), ~Critical(c),
         cl' = [cl EXCEPT ![c] = k], \A p \in Pids : dm[p].client # c,
         UNCHANGED <<fsdb, lock, dm>>
  PROVE  IInv'
<1> USE DEF IInv
<1>1. Shapes'
  <2>1. (\A d \in Clients : ClientOk(cl'[d])) /\ cl' = [d \in Clients |-> cl'[d]]
    BY DEF Shapes
  <2> QED
    BY <2>1 DEF Shapes, DaemonOk, ClientOk
<1>2. ServedWaits'
  BY DEF ServedWaits, Shapes, DaemonOk
<1>3. LockDiscipline'
  BY DEF LockDiscipline, Critical, CriticalAt, CriticalOn, Shapes
<1> QED
  BY <1>1, <1>2, <1>3

\* The early returns inside create_session and restart_session unlock.
LEMMA ReturnKeepsIInv ==
  ASSUME IInv, NEW c \in Clients, cl[c].pc # "waiting", Finish(c), UNCHANGED fsdb, DaemonMove,
         \/ Unlock /\ CriticalOn(cl[c].cmd, cl[c].pc)
         \/ UNCHANGED lock /\ ~CriticalOn(cl[c].cmd, cl[c].pc)
  PROVE  IInv'
<1>1. Shapes /\ ~CriticalOn(cl[c].cmd, "idle")
  BY DEF IInv, CriticalOn, InOpen, InRestart
<1>2. Advances(c, "idle") /\ LockAdvance(c, "idle")
  BY <1>1, AdvancesIf DEF LockAdvance, LockSame, Unlock
<1> QED
  BY <1>2, AdvanceKeepsIInv

LEMMA GiveUpKeepsIInv ==
  ASSUME IInv, NEW c \in Clients, cl[c].pc # "waiting", CriticalOn(cl[c].cmd, cl[c].pc), GiveUp(c)
  PROVE  IInv'
  BY GiveUpMoves, ReturnKeepsIInv DEF IInv, GiveUp

LEMMA FileErrorKeepsIInv ==
  ASSUME IInv, NEW c \in Clients, FileError(c)
  PROVE  IInv'
<1>1. Shapes
  BY DEF IInv
<1>2. CASE StatFailed(c)
  <2>1. ~CriticalOn(cl[c].cmd, cl[c].pc) /\ cl[c].pc # "waiting"
    BY <1>2 DEF StatFailed, CriticalOn, InOpen, InRestart
  <2> QED
    BY <1>2, <2>1, ReturnKeepsIInv DEF StatFailed, DaemonMove
<1>3. CASE AddFailed(c)
  <2>1. CriticalOn(cl[c].cmd, cl[c].pc) /\ cl[c].pc # "waiting"
    BY <1>1, <1>3, PathFacts DEF AddFailed, Path, AllCommands, InOpen, InRestart, InRequest, InStop, CriticalOn
  <2> QED
    BY <1>3, <2>1, GiveUpKeepsIInv DEF AddFailed
<1>4. CASE UpsertFailed(c)
  <2>1. CriticalOn(cl[c].cmd, cl[c].pc) /\ cl[c].pc # "waiting"
    BY <1>1, <1>4, PathFacts DEF UpsertFailed, Path, AllCommands, InOpen, InRestart, InRequest, InStop, CriticalOn
  <2> QED
    BY <1>4, <2>1, ReturnKeepsIInv DEF UpsertFailed, DaemonMove
<1> QED
  BY <1>2, <1>3, <1>4 DEF FileError

LEMMA ClientStepKeepsIInv ==
  ASSUME IInv, NEW c \in Clients, ClientStep(c)
  PROVE  IInv'
<1>1. Shapes
  BY DEF IInv
<1> USE <1>1
<1>2. ASSUME Clean(c) PROVE IInv'
  <2>1. "cleanSave" \in Path(cl[c].cmd) /\ (CriticalOn(cl[c].cmd, "cleanSave") <=> CriticalOn(cl[c].cmd, cl[c].pc))
    BY <1>2, PathFacts DEF Clean, Path, AllCommands, InOpen, InRestart, InRequest, InStop, CriticalOn
  <2>2. Advances(c, "cleanSave")
    BY <1>2, <2>1, AdvancesIf DEF Clean
  <2>3. DaemonMove /\ LockAdvance(c, "cleanSave")
    BY <1>2, <2>1 DEF Clean, LockAdvance, DaemonMove, LockSame
  <2> QED
    BY <1>2, <2>2, <2>3, AdvanceKeepsIInv DEF Clean
<1>3. ASSUME CleanSave(c) PROVE IInv'
  <2>1. CASE cl[c].cmd = "open"
    <3>1. "exists" \in Path(cl[c].cmd) /\ (CriticalOn(cl[c].cmd, "exists") <=> CriticalOn(cl[c].cmd, cl[c].pc))
      BY <1>3, <2>1, PathFacts DEF CleanSave, Path, AllCommands, InOpen, InRestart, InRequest, InStop, CriticalOn
    <3>2. Advances(c, "exists")
      BY <1>3, <2>1, <3>1, AdvancesIf DEF CleanSave
    <3>3. DaemonMove /\ LockAdvance(c, "exists")
      BY <1>3, <2>1, <3>1 DEF CleanSave, LockAdvance, DaemonMove, LockSame
    <3> QED
      BY <1>3, <2>1, <3>2, <3>3, AdvanceKeepsIInv DEF CleanSave
  <2>2. CASE cl[c].cmd = "list"
    <3>1. "idle" \in Path(cl[c].cmd) /\ (CriticalOn(cl[c].cmd, "idle") <=> CriticalOn(cl[c].cmd, cl[c].pc))
      BY <1>3, <2>2, PathFacts DEF CleanSave, Path, AllCommands, InOpen, InRestart, InRequest, InStop, CriticalOn
    <3>2. Advances(c, "idle")
      BY <1>3, <2>2, <3>1, AdvancesIf DEF CleanSave
    <3>3. DaemonMove /\ LockAdvance(c, "idle")
      BY <1>3, <2>2, <3>1 DEF CleanSave, LockAdvance, DaemonMove, LockSame
    <3> QED
      BY <1>3, <2>2, <3>2, <3>3, AdvanceKeepsIInv DEF CleanSave
  <2>3. CASE cl[c].cmd \notin {"open", "list"}
    <3>1. "listed" \in Path(cl[c].cmd) /\ (CriticalOn(cl[c].cmd, "listed") <=> CriticalOn(cl[c].cmd, cl[c].pc))
      BY <1>3, <2>3, PathFacts DEF CleanSave, Path, AllCommands, InOpen, InRestart, InRequest, InStop, CriticalOn
    <3>2. Advances(c, "listed")
      BY <1>3, <2>3, <3>1, AdvancesIf DEF CleanSave
    <3>3. DaemonMove /\ LockAdvance(c, "listed")
      BY <1>3, <2>3, <3>1 DEF CleanSave, LockAdvance, DaemonMove, LockSame
    <3> QED
      BY <1>3, <2>3, <3>2, <3>3, AdvanceKeepsIInv DEF CleanSave
  <2> QED
    BY <2>1, <2>2, <2>3
<1>4. ASSUME RemoveLoad(c) PROVE IInv'
  <2>1. CASE Known(cl[c].id)
    <3>1. "rmSave" \in Path(cl[c].cmd) /\ (CriticalOn(cl[c].cmd, "rmSave") <=> CriticalOn(cl[c].cmd, cl[c].pc))
      BY <1>4, <2>1, PathFacts DEF RemoveLoad, Path, AllCommands, InOpen, InRestart, InRequest, InStop, CriticalOn
    <3>2. Advances(c, "rmSave")
      BY <1>4, <2>1, <3>1, AdvancesIf DEF RemoveLoad, Removed
    <3>3. DaemonMove /\ LockAdvance(c, "rmSave")
      BY <1>4, <2>1, <3>1 DEF RemoveLoad, LockAdvance, DaemonMove, LockSame
    <3> QED
      BY <1>4, <2>1, <3>2, <3>3, AdvanceKeepsIInv DEF RemoveLoad
  <2>2. CASE ~Known(cl[c].id) /\ cl[c].cmd = "open"
    <3>1. "unlink" \in Path(cl[c].cmd) /\ (CriticalOn(cl[c].cmd, "unlink") <=> CriticalOn(cl[c].cmd, cl[c].pc))
      BY <1>4, <2>2, PathFacts DEF RemoveLoad, Path, AllCommands, InOpen, InRestart, InRequest, InStop, CriticalOn
    <3>2. Advances(c, "unlink")
      BY <1>4, <2>2, <3>1, AdvancesIf DEF RemoveLoad, Removed
    <3>3. DaemonMove /\ LockAdvance(c, "unlink")
      BY <1>4, <2>2, <3>1 DEF RemoveLoad, LockAdvance, DaemonMove, LockSame
    <3> QED
      BY <1>4, <2>2, <3>2, <3>3, AdvanceKeepsIInv DEF RemoveLoad
  <2>3. CASE ~Known(cl[c].id) /\ cl[c].cmd = "kill"
    <3>1. "idle" \in Path(cl[c].cmd) /\ (CriticalOn(cl[c].cmd, "idle") <=> CriticalOn(cl[c].cmd, cl[c].pc))
      BY <1>4, <2>3, PathFacts DEF RemoveLoad, Path, AllCommands, InOpen, InRestart, InRequest, InStop, CriticalOn
    <3>2. Advances(c, "idle")
      BY <1>4, <2>3, <3>1, AdvancesIf DEF RemoveLoad, Removed
    <3>3. DaemonMove /\ LockAdvance(c, "idle")
      BY <1>4, <2>3, <3>1 DEF RemoveLoad, LockAdvance, DaemonMove, LockSame
    <3> QED
      BY <1>4, <2>3, <3>2, <3>3, AdvanceKeepsIInv DEF RemoveLoad
  <2>4. CASE ~Known(cl[c].id) /\ cl[c].cmd \notin {"open", "kill"}
    <3>1. "each" \in Path(cl[c].cmd) /\ (CriticalOn(cl[c].cmd, "each") <=> CriticalOn(cl[c].cmd, cl[c].pc))
      BY <1>4, <2>4, PathFacts DEF RemoveLoad, Path, AllCommands, InOpen, InRestart, InRequest, InStop, CriticalOn
    <3>2. Advances(c, "each")
      BY <1>4, <2>4, <3>1, AdvancesIf DEF RemoveLoad, Removed
    <3>3. DaemonMove /\ LockAdvance(c, "each")
      BY <1>4, <2>4, <3>1 DEF RemoveLoad, LockAdvance, DaemonMove, LockSame
    <3> QED
      BY <1>4, <2>4, <3>2, <3>3, AdvanceKeepsIInv DEF RemoveLoad
  <2> QED
    BY <2>1, <2>2, <2>3, <2>4
<1>5. ASSUME RemoveSave(c) PROVE IInv'
  <2>1. CASE cl[c].cmd = "open"
    <3>1. "unlink" \in Path(cl[c].cmd) /\ (CriticalOn(cl[c].cmd, "unlink") <=> CriticalOn(cl[c].cmd, cl[c].pc))
      BY <1>5, <2>1, PathFacts DEF RemoveSave, Path, AllCommands, InOpen, InRestart, InRequest, InStop, CriticalOn
    <3>2. Advances(c, "unlink")
      BY <1>5, <2>1, <3>1, AdvancesIf DEF RemoveSave, Removed
    <3>3. DaemonMove /\ LockAdvance(c, "unlink")
      BY <1>5, <2>1, <3>1 DEF RemoveSave, LockAdvance, DaemonMove, LockSame
    <3> QED
      BY <1>5, <2>1, <3>2, <3>3, AdvanceKeepsIInv DEF RemoveSave
  <2>2. CASE cl[c].cmd = "kill"
    <3>1. "idle" \in Path(cl[c].cmd) /\ (CriticalOn(cl[c].cmd, "idle") <=> CriticalOn(cl[c].cmd, cl[c].pc))
      BY <1>5, <2>2, PathFacts DEF RemoveSave, Path, AllCommands, InOpen, InRestart, InRequest, InStop, CriticalOn
    <3>2. Advances(c, "idle")
      BY <1>5, <2>2, <3>1, AdvancesIf DEF RemoveSave, Removed
    <3>3. DaemonMove /\ LockAdvance(c, "idle")
      BY <1>5, <2>2, <3>1 DEF RemoveSave, LockAdvance, DaemonMove, LockSame
    <3> QED
      BY <1>5, <2>2, <3>2, <3>3, AdvanceKeepsIInv DEF RemoveSave
  <2>3. CASE cl[c].cmd \notin {"open", "kill"}
    <3>1. "each" \in Path(cl[c].cmd) /\ (CriticalOn(cl[c].cmd, "each") <=> CriticalOn(cl[c].cmd, cl[c].pc))
      BY <1>5, <2>3, PathFacts DEF RemoveSave, Path, AllCommands, InOpen, InRestart, InRequest, InStop, CriticalOn
    <3>2. Advances(c, "each")
      BY <1>5, <2>3, <3>1, AdvancesIf DEF RemoveSave, Removed
    <3>3. DaemonMove /\ LockAdvance(c, "each")
      BY <1>5, <2>3, <3>1 DEF RemoveSave, LockAdvance, DaemonMove, LockSame
    <3> QED
      BY <1>5, <2>3, <3>2, <3>3, AdvanceKeepsIInv DEF RemoveSave
  <2> QED
    BY <2>1, <2>2, <2>3
<1>6. ASSUME LockOpen(c) PROVE IInv'
  <2>1. "clean" \in Path(cl[c].cmd) /\ CriticalOn(cl[c].cmd, "clean")
    BY <1>6, PathFacts DEF LockOpen, Path, AllCommands, InOpen, InRestart, InRequest, InStop, CriticalOn
  <2>2. Advances(c, "clean")
    BY <1>6, <2>1, AdvancesIf DEF LockOpen
  <2>3. DaemonMove /\ LockAdvance(c, "clean")
    BY <1>6, <2>1 DEF LockOpen, LockAdvance, DaemonMove
  <2> QED
    BY <1>6, <2>2, <2>3, AdvanceKeepsIInv DEF LockOpen
<1>7. ASSUME Exists(c) PROVE IInv'
  <2>1. CASE Finish(c) /\ Unlock /\ UNCHANGED dm
    <3>1. "idle" \in Path(cl[c].cmd) /\ CriticalOn(cl[c].cmd, cl[c].pc) /\ ~CriticalOn(cl[c].cmd, "idle")
      BY <1>7, <2>1, PathFacts DEF Exists, Path, AllCommands, InOpen, InRestart, InRequest, InStop, CriticalOn
    <3>2. Advances(c, "idle")
      BY <1>7, <2>1, <3>1, AdvancesIf DEF Exists
    <3>3. DaemonMove /\ LockAdvance(c, "idle")
      BY <1>7, <2>1, <3>1 DEF Exists, LockAdvance, DaemonMove, Unlock
    <3> QED
      BY <1>7, <2>1, <3>2, <3>3, AdvanceKeepsIInv DEF Exists
  <2>2. CASE Forkable # {} /\ Fork(c, CHOOSE p \in Forkable : TRUE, cl[c].id)
    <3>1. "wait" \in Path(cl[c].cmd) /\ (CriticalOn(cl[c].cmd, "wait") <=> CriticalOn(cl[c].cmd, cl[c].pc))
      BY <1>7, <2>2, PathFacts DEF Exists, Path, AllCommands, InOpen, InRestart, InRequest, InStop, CriticalOn
    <3>2. Advances(c, "wait")
      BY <1>7, <2>2, <3>1, AdvancesIf DEF Exists, Fork
    <3>3. DaemonMove /\ LockAdvance(c, "wait")
      BY <1>7, <2>2, <3>1, ForkMoves DEF Exists, LockAdvance
    <3> QED
      BY <1>7, <2>2, <3>2, <3>3, AdvanceKeepsIInv DEF Exists
  <2> QED
    BY <1>7, <2>1, <2>2 DEF Exists
<1>8. ASSUME WaitReady(c) PROVE IInv'
  <2>1. CASE cl[c].cmd = "open"
    <3>1. "addLoad" \in Path(cl[c].cmd) /\ (CriticalOn(cl[c].cmd, "addLoad") <=> CriticalOn(cl[c].cmd, cl[c].pc))
      BY <1>8, <2>1, PathFacts DEF WaitReady, Path, AllCommands, InOpen, InRestart, InRequest, InStop, CriticalOn
    <3>2. Advances(c, "addLoad")
      BY <1>8, <2>1, <3>1, AdvancesIf DEF WaitReady
    <3>3. DaemonMove /\ LockAdvance(c, "addLoad")
      BY <1>8, <2>1, <3>1 DEF WaitReady, LockAdvance, DaemonMove, LockSame
    <3> QED
      BY <1>8, <2>1, <3>2, <3>3, AdvanceKeepsIInv DEF WaitReady
  <2>2. CASE cl[c].cmd # "open"
    <3>1. "upsertLoad" \in Path(cl[c].cmd) /\ (CriticalOn(cl[c].cmd, "upsertLoad") <=> CriticalOn(cl[c].cmd, cl[c].pc))
      BY <1>8, <2>2, PathFacts DEF WaitReady, Path, AllCommands, InOpen, InRestart, InRequest, InStop, CriticalOn
    <3>2. Advances(c, "upsertLoad")
      BY <1>8, <2>2, <3>1, AdvancesIf DEF WaitReady
    <3>3. DaemonMove /\ LockAdvance(c, "upsertLoad")
      BY <1>8, <2>2, <3>1 DEF WaitReady, LockAdvance, DaemonMove, LockSame
    <3> QED
      BY <1>8, <2>2, <3>2, <3>3, AdvanceKeepsIInv DEF WaitReady
  <2> QED
    BY <1>8, <2>1, <2>2 DEF WaitReady
<1>9. ASSUME WaitFailed(c) PROVE IInv'
  <2>1. GiveUp(c) /\ CriticalOn(cl[c].cmd, cl[c].pc) /\ cl[c].pc = "wait"
    BY <1>9, PathFacts DEF WaitFailed, Path, AllCommands, InOpen, InRestart, InRequest, InStop, CriticalOn
  <2> QED
    BY <2>1, GiveUpKeepsIInv
<1>10. ASSUME AddLoad(c) PROVE IInv'
  <2>1. "addSave" \in Path(cl[c].cmd) /\ (CriticalOn(cl[c].cmd, "addSave") <=> CriticalOn(cl[c].cmd, cl[c].pc))
    BY <1>10, PathFacts DEF AddLoad, Path, AllCommands, InOpen, InRestart, InRequest, InStop, CriticalOn
  <2>2. Advances(c, "addSave")
    BY <1>10, <2>1, AdvancesIf DEF AddLoad
  <2>3. DaemonMove /\ LockAdvance(c, "addSave")
    BY <1>10, <2>1 DEF AddLoad, LockAdvance, DaemonMove, LockSame
  <2> QED
    BY <1>10, <2>2, <2>3, AdvanceKeepsIInv DEF AddLoad
<1>11. ASSUME AddSave(c) PROVE IInv'
  <2>1. "check" \in Path(cl[c].cmd) /\ (CriticalOn(cl[c].cmd, "check") <=> CriticalOn(cl[c].cmd, cl[c].pc))
    BY <1>11, PathFacts DEF AddSave, Path, AllCommands, InOpen, InRestart, InRequest, InStop, CriticalOn
  <2>2. Advances(c, "check")
    BY <1>11, <2>1, AdvancesIf DEF AddSave
  <2>3. DaemonMove /\ LockAdvance(c, "check")
    BY <1>11, <2>1 DEF AddSave, LockAdvance, DaemonMove, LockSame
  <2> QED
    BY <1>11, <2>2, <2>3, AdvanceKeepsIInv DEF AddSave
<1>12. ASSUME OpenCheck(c) PROVE IInv'
  <2>1. CASE Diagnosed(cl[c].id, TRUE) /\ Finish(c) /\ Unlock
    <3>1. "idle" \in Path(cl[c].cmd) /\ CriticalOn(cl[c].cmd, cl[c].pc) /\ ~CriticalOn(cl[c].cmd, "idle")
      BY <1>12, <2>1, PathFacts DEF OpenCheck, Path, AllCommands, InOpen, InRestart, InRequest, InStop, CriticalOn
    <3>2. Advances(c, "idle")
      BY <1>12, <2>1, <3>1, AdvancesIf DEF OpenCheck
    <3>3. DaemonMove /\ LockAdvance(c, "idle")
      BY <1>12, <2>1, <3>1, DiagnosedMoves DEF OpenCheck, LockAdvance, Unlock
    <3> QED
      BY <1>12, <2>1, <3>2, <3>3, AdvanceKeepsIInv DEF OpenCheck
  <2>2. CASE Diagnosed(cl[c].id, FALSE) /\ To(c, "termNew") /\ UNCHANGED lock
    <3>1. "termNew" \in Path(cl[c].cmd) /\ (CriticalOn(cl[c].cmd, "termNew") <=> CriticalOn(cl[c].cmd, cl[c].pc))
      BY <1>12, <2>2, PathFacts DEF OpenCheck, Path, AllCommands, InOpen, InRestart, InRequest, InStop, CriticalOn
    <3>2. Advances(c, "termNew")
      BY <1>12, <2>2, <3>1, AdvancesIf DEF OpenCheck
    <3>3. DaemonMove /\ LockAdvance(c, "termNew")
      BY <1>12, <2>2, <3>1, DiagnosedMoves DEF OpenCheck, LockAdvance, LockSame
    <3> QED
      BY <1>12, <2>2, <3>2, <3>3, AdvanceKeepsIInv DEF OpenCheck
  <2> QED
    BY <1>12, <2>1, <2>2 DEF OpenCheck
<1>13. ASSUME TerminateNew(c) PROVE IInv'
  <2>1. "rmLoad" \in Path(cl[c].cmd) /\ (CriticalOn(cl[c].cmd, "rmLoad") <=> CriticalOn(cl[c].cmd, cl[c].pc))
    BY <1>13, PathFacts DEF TerminateNew, Path, AllCommands, InOpen, InRestart, InRequest, InStop, CriticalOn
  <2>2. Advances(c, "rmLoad")
    BY <1>13, <2>1, AdvancesIf DEF TerminateNew
  <2>3. DaemonMove /\ LockAdvance(c, "rmLoad")
    BY <1>13, <2>1, SignalMoves DEF TerminateNew, LockAdvance
  <2> QED
    BY <1>13, <2>2, <2>3, AdvanceKeepsIInv DEF TerminateNew
<1>14. ASSUME UnlinkNew(c) PROVE IInv'
  <2>1. "idle" \in Path(cl[c].cmd) /\ CriticalOn(cl[c].cmd, cl[c].pc) /\ ~CriticalOn(cl[c].cmd, "idle")
    BY <1>14, PathFacts DEF UnlinkNew, Path, AllCommands, InOpen, InRestart, InRequest, InStop, CriticalOn
  <2>2. Advances(c, "idle")
    BY <1>14, <2>1, AdvancesIf DEF UnlinkNew
  <2>3. DaemonMove /\ LockAdvance(c, "idle")
    BY <1>14, <2>1 DEF UnlinkNew, LockAdvance, DaemonMove, Unlock
  <2> QED
    BY <1>14, <2>2, <2>3, AdvanceKeepsIInv DEF UnlinkNew
<1>15. ASSUME Ensure(c) PROVE IInv'
  <2>1. CASE To(c, "lockRestart") /\ UNCHANGED dm
    <3>1. "lockRestart" \in Path(cl[c].cmd) /\ (CriticalOn(cl[c].cmd, "lockRestart") <=> CriticalOn(cl[c].cmd, cl[c].pc))
      BY <1>15, <2>1, PathFacts DEF Ensure, Path, AllCommands, InOpen, InRestart, InRequest, InStop, CriticalOn
    <3>2. Advances(c, "lockRestart")
      BY <1>15, <2>1, <3>1, AdvancesIf DEF Ensure
    <3>3. DaemonMove /\ LockAdvance(c, "lockRestart")
      BY <1>15, <2>1, <3>1 DEF Ensure, LockAdvance, DaemonMove, LockSame
    <3> QED
      BY <1>15, <2>1, <3>2, <3>3, AdvanceKeepsIInv DEF Ensure
  <2>2. CASE Diagnosed(cl[c].id, TRUE) /\ To(c, "connect")
    <3>1. "connect" \in Path(cl[c].cmd) /\ (CriticalOn(cl[c].cmd, "connect") <=> CriticalOn(cl[c].cmd, cl[c].pc))
      BY <1>15, <2>2, PathFacts DEF Ensure, Path, AllCommands, InOpen, InRestart, InRequest, InStop, CriticalOn
    <3>2. Advances(c, "connect")
      BY <1>15, <2>2, <3>1, AdvancesIf DEF Ensure
    <3>3. DaemonMove /\ LockAdvance(c, "connect")
      BY <1>15, <2>2, <3>1, DiagnosedMoves DEF Ensure, LockAdvance, LockSame
    <3> QED
      BY <1>15, <2>2, <3>2, <3>3, AdvanceKeepsIInv DEF Ensure
  <2>3. CASE Diagnosed(cl[c].id, FALSE) /\ Finish(c)
    <3>1. "idle" \in Path(cl[c].cmd) /\ (CriticalOn(cl[c].cmd, "idle") <=> CriticalOn(cl[c].cmd, cl[c].pc))
      BY <1>15, <2>3, PathFacts DEF Ensure, Path, AllCommands, InOpen, InRestart, InRequest, InStop, CriticalOn
    <3>2. Advances(c, "idle")
      BY <1>15, <2>3, <3>1, AdvancesIf DEF Ensure
    <3>3. DaemonMove /\ LockAdvance(c, "idle")
      BY <1>15, <2>3, <3>1, DiagnosedMoves DEF Ensure, LockAdvance, LockSame
    <3> QED
      BY <1>15, <2>3, <3>2, <3>3, AdvanceKeepsIInv DEF Ensure
  <2> QED
    BY <1>15, <2>1, <2>2, <2>3 DEF Ensure
<1>16. ASSUME LockRestart(c) PROVE IInv'
  <2>1. "restartGet" \in Path(cl[c].cmd) /\ CriticalOn(cl[c].cmd, "restartGet")
    BY <1>16, PathFacts DEF LockRestart, Path, AllCommands, InOpen, InRestart, InRequest, InStop, CriticalOn
  <2>2. Advances(c, "restartGet")
    BY <1>16, <2>1, AdvancesIf DEF LockRestart
  <2>3. DaemonMove /\ LockAdvance(c, "restartGet")
    BY <1>16, <2>1 DEF LockRestart, LockAdvance, DaemonMove
  <2> QED
    BY <1>16, <2>2, <2>3, AdvanceKeepsIInv DEF LockRestart
<1>17. ASSUME RestartGet(c) PROVE IInv'
  <2>1. CASE cl' = [cl EXCEPT ![c].pc = "stop", ![c].rec = Find(reg, cl[c].id)] /\ UNCHANGED lock
    <3>1. "stop" \in Path(cl[c].cmd) /\ (CriticalOn(cl[c].cmd, "stop") <=> CriticalOn(cl[c].cmd, cl[c].pc))
      BY <1>17, <2>1, PathFacts DEF RestartGet, Path, AllCommands, InOpen, InRestart, InRequest, InStop, CriticalOn
    <3>2. Advances(c, "stop")
      BY <1>17, <2>1, <3>1, AdvancesIf DEF RestartGet
    <3>3. DaemonMove /\ LockAdvance(c, "stop")
      BY <1>17, <2>1, <3>1 DEF RestartGet, LockAdvance, DaemonMove, LockSame
    <3> QED
      BY <1>17, <2>1, <3>2, <3>3, AdvanceKeepsIInv DEF RestartGet
  <2>2. CASE Finish(c) /\ Unlock
    <3>1. "idle" \in Path(cl[c].cmd) /\ CriticalOn(cl[c].cmd, cl[c].pc) /\ ~CriticalOn(cl[c].cmd, "idle")
      BY <1>17, <2>2, PathFacts DEF RestartGet, Path, AllCommands, InOpen, InRestart, InRequest, InStop, CriticalOn
    <3>2. Advances(c, "idle")
      BY <1>17, <2>2, <3>1, AdvancesIf DEF RestartGet
    <3>3. DaemonMove /\ LockAdvance(c, "idle")
      BY <1>17, <2>2, <3>1 DEF RestartGet, LockAdvance, DaemonMove, Unlock
    <3> QED
      BY <1>17, <2>2, <3>2, <3>3, AdvanceKeepsIInv DEF RestartGet
  <2> QED
    BY <1>17, <2>1, <2>2 DEF RestartGet
<1>18. ASSUME Stop(c) PROVE IInv'
  <2>1. "stopWait" \in Path(cl[c].cmd) /\ (CriticalOn(cl[c].cmd, "stopWait") <=> CriticalOn(cl[c].cmd, cl[c].pc))
    BY <1>18, PathFacts DEF Stop, Path, AllCommands, InOpen, InRestart, InRequest, InStop, CriticalOn
  <2>2. Advances(c, "stopWait")
    BY <1>18, <2>1, AdvancesIf DEF Stop
  <2>3. DaemonMove /\ LockAdvance(c, "stopWait")
    BY <1>18, <2>1, StopMoves DEF Stop, LockAdvance, LockSame
  <2> QED
    BY <1>18, <2>2, <2>3, AdvanceKeepsIInv DEF Stop
<1>19. ASSUME StopWait(c) PROVE IInv'
  <2>1. CASE Alive(cl[c].rec.pid)
    <3>1. "termWait" \in Path(cl[c].cmd) /\ (CriticalOn(cl[c].cmd, "termWait") <=> CriticalOn(cl[c].cmd, cl[c].pc))
      BY <1>19, <2>1, PathFacts DEF StopWait, Path, AllCommands, InOpen, InRestart, InRequest, InStop, CriticalOn
    <3>2. Advances(c, "termWait")
      BY <1>19, <2>1, <3>1, AdvancesIf DEF StopWait
    <3>3. DaemonMove /\ LockAdvance(c, "termWait")
      BY <1>19, <2>1, <3>1, SignalMoves DEF StopWait, LockAdvance
    <3> QED
      BY <1>19, <2>1, <3>2, <3>3, AdvanceKeepsIInv DEF StopWait
  <2>2. CASE ~Alive(cl[c].rec.pid)
    <3>1. "stopped" \in Path(cl[c].cmd) /\ (CriticalOn(cl[c].cmd, "stopped") <=> CriticalOn(cl[c].cmd, cl[c].pc))
      BY <1>19, <2>2, PathFacts DEF StopWait, Path, AllCommands, InOpen, InRestart, InRequest, InStop, CriticalOn
    <3>2. Advances(c, "stopped")
      BY <1>19, <2>2, <3>1, AdvancesIf DEF StopWait
    <3>3. DaemonMove /\ LockAdvance(c, "stopped")
      BY <1>19, <2>2, <3>1 DEF StopWait, LockAdvance, DaemonMove, LockSame
    <3> QED
      BY <1>19, <2>2, <3>2, <3>3, AdvanceKeepsIInv DEF StopWait
  <2> QED
    BY <1>19, <2>1, <2>2 DEF StopWait
<1>20. ASSUME TermWait(c) PROVE IInv'
  <2>1. "stopped" \in Path(cl[c].cmd) /\ (CriticalOn(cl[c].cmd, "stopped") <=> CriticalOn(cl[c].cmd, cl[c].pc))
    BY <1>20, PathFacts DEF TermWait, Path, AllCommands, InOpen, InRestart, InRequest, InStop, CriticalOn
  <2>2. Advances(c, "stopped")
    BY <1>20, <2>1, AdvancesIf DEF TermWait
  <2>3. DaemonMove /\ LockAdvance(c, "stopped")
    BY <1>20, <2>1, SignalMoves DEF TermWait, LockAdvance
  <2> QED
    BY <1>20, <2>2, <2>3, AdvanceKeepsIInv DEF TermWait
<1>21. ASSUME Stopped(c) PROVE IInv'
  <2>1. CASE ~Restarts(c) /\ To(c, "rmLoad") /\ UNCHANGED <<dm, lock>>
    <3>1. "rmLoad" \in Path(cl[c].cmd) /\ (CriticalOn(cl[c].cmd, "rmLoad") <=> CriticalOn(cl[c].cmd, cl[c].pc))
      BY <1>21, <2>1, PathFacts DEF Stopped, Restarts, Path, AllCommands, InOpen, InRestart, InRequest, InStop, CriticalOn
    <3>2. Advances(c, "rmLoad")
      BY <1>21, <2>1, <3>1, AdvancesIf DEF Stopped
    <3>3. DaemonMove /\ LockAdvance(c, "rmLoad")
      BY <1>21, <2>1, <3>1 DEF Stopped, LockAdvance, DaemonMove, LockSame
    <3> QED
      BY <1>21, <2>1, <3>2, <3>3, AdvanceKeepsIInv DEF Stopped
  <2>2. CASE Restarts(c) /\ Forkable # {} /\ Fork(c, CHOOSE p \in Forkable : TRUE, cl[c].id)
    <3>1. "wait" \in Path(cl[c].cmd) /\ (CriticalOn(cl[c].cmd, "wait") <=> CriticalOn(cl[c].cmd, cl[c].pc))
      BY <1>21, <2>2, PathFacts DEF Stopped, Restarts, Path, AllCommands, InOpen, InRestart, InRequest, InStop, CriticalOn
    <3>2. Advances(c, "wait")
      BY <1>21, <2>2, <3>1, AdvancesIf DEF Stopped, Fork
    <3>3. DaemonMove /\ LockAdvance(c, "wait")
      BY <1>21, <2>2, <3>1, ForkMoves DEF Stopped, LockAdvance
    <3> QED
      BY <1>21, <2>2, <3>2, <3>3, AdvanceKeepsIInv DEF Stopped
  <2>3. CASE Restarts(c) /\ Finish(c) /\ Unlock /\ UNCHANGED dm
    <3>1. "idle" \in Path(cl[c].cmd) /\ CriticalOn(cl[c].cmd, cl[c].pc) /\ ~CriticalOn(cl[c].cmd, "idle")
      BY <1>21, <2>3, PathFacts DEF Stopped, Restarts, Path, AllCommands, InOpen, InRestart, InRequest, InStop, CriticalOn
    <3>2. Advances(c, "idle")
      BY <1>21, <2>3, <3>1, AdvancesIf DEF Stopped
    <3>3. DaemonMove /\ LockAdvance(c, "idle")
      BY <1>21, <2>3, <3>1 DEF Stopped, LockAdvance, DaemonMove, Unlock
    <3> QED
      BY <1>21, <2>3, <3>2, <3>3, AdvanceKeepsIInv DEF Stopped
  <2> QED
    BY <1>21, <2>1, <2>2, <2>3 DEF Stopped
<1>22. ASSUME UpsertLoad(c) PROVE IInv'
  <2>1. "upsertSave" \in Path(cl[c].cmd) /\ (CriticalOn(cl[c].cmd, "upsertSave") <=> CriticalOn(cl[c].cmd, cl[c].pc))
    BY <1>22, PathFacts DEF UpsertLoad, Path, AllCommands, InOpen, InRestart, InRequest, InStop, CriticalOn
  <2>2. Advances(c, "upsertSave")
    BY <1>22, <2>1, AdvancesIf DEF UpsertLoad
  <2>3. DaemonMove /\ LockAdvance(c, "upsertSave")
    BY <1>22, <2>1 DEF UpsertLoad, LockAdvance, DaemonMove, LockSame
  <2> QED
    BY <1>22, <2>2, <2>3, AdvanceKeepsIInv DEF UpsertLoad
<1>23. ASSUME UpsertSave(c) PROVE IInv'
  <2>1. "connect" \in Path(cl[c].cmd) /\ CriticalOn(cl[c].cmd, cl[c].pc) /\ ~CriticalOn(cl[c].cmd, "connect")
    BY <1>23, PathFacts DEF UpsertSave, Path, AllCommands, InOpen, InRestart, InRequest, InStop, CriticalOn
  <2>2. Advances(c, "connect")
    BY <1>23, <2>1, AdvancesIf DEF UpsertSave
  <2>3. DaemonMove /\ LockAdvance(c, "connect")
    BY <1>23, <2>1 DEF UpsertSave, LockAdvance, DaemonMove, Unlock
  <2> QED
    BY <1>23, <2>2, <2>3, AdvanceKeepsIInv DEF UpsertSave
<1>24. ASSUME Connect(c) PROVE IInv'
  <2>1. CASE Finish(c)
    <3>1. "idle" \in Path(cl[c].cmd) /\ (CriticalOn(cl[c].cmd, "idle") <=> CriticalOn(cl[c].cmd, cl[c].pc))
      BY <1>24, <2>1, PathFacts DEF Connect, Path, AllCommands, InOpen, InRestart, InRequest, InStop, CriticalOn
    <3>2. Advances(c, "idle")
      BY <1>24, <2>1, <3>1, AdvancesIf DEF Connect
    <3>3. DaemonMove /\ LockAdvance(c, "idle")
      BY <1>24, <2>1, <3>1 DEF Connect, LockAdvance, DaemonMove, LockSame
    <3> QED
      BY <1>24, <2>1, <3>2, <3>3, AdvanceKeepsIInv DEF Connect
  <2>2. CASE cl[c].cmd = "query" /\ cl' = [cl EXCEPT ![c].pc = "waiting", ![c].srv = sock[cl[c].id]]
    <3>1. "waiting" \in Path(cl[c].cmd) /\ (CriticalOn(cl[c].cmd, "waiting") <=> CriticalOn(cl[c].cmd, cl[c].pc))
      BY <1>24, <2>2, PathFacts DEF Connect, Path, AllCommands, InOpen, InRestart, InRequest, InStop, CriticalOn
    <3>2. Advances(c, "waiting")
      BY <1>24, <2>2, <3>1, AdvancesIf DEF Connect
    <3>3. DaemonMove /\ LockAdvance(c, "waiting")
      BY <1>24, <2>2, <3>1 DEF Connect, LockAdvance, DaemonMove, LockSame
    <3> QED
      BY <1>24, <2>2, <3>2, <3>3, AdvanceKeepsIInv DEF Connect
  <2> QED
    BY <1>24, <2>1, <2>2 DEF Connect
<1>25. ASSUME KillCheck(c) PROVE IInv'
  <2>1. CASE Diagnosed(cl[c].id, TRUE) /\ To(c, "stop")
    <3>1. "stop" \in Path(cl[c].cmd) /\ (CriticalOn(cl[c].cmd, "stop") <=> CriticalOn(cl[c].cmd, cl[c].pc))
      BY <1>25, <2>1, PathFacts DEF KillCheck, Path, AllCommands, InOpen, InRestart, InRequest, InStop, CriticalOn
    <3>2. Advances(c, "stop")
      BY <1>25, <2>1, <3>1, AdvancesIf DEF KillCheck
    <3>3. DaemonMove /\ LockAdvance(c, "stop")
      BY <1>25, <2>1, <3>1, DiagnosedMoves DEF KillCheck, LockAdvance, LockSame
    <3> QED
      BY <1>25, <2>1, <3>2, <3>3, AdvanceKeepsIInv DEF KillCheck
  <2>2. CASE Diagnosed(cl[c].id, FALSE) /\ To(c, "killTerm")
    <3>1. "killTerm" \in Path(cl[c].cmd) /\ (CriticalOn(cl[c].cmd, "killTerm") <=> CriticalOn(cl[c].cmd, cl[c].pc))
      BY <1>25, <2>2, PathFacts DEF KillCheck, Path, AllCommands, InOpen, InRestart, InRequest, InStop, CriticalOn
    <3>2. Advances(c, "killTerm")
      BY <1>25, <2>2, <3>1, AdvancesIf DEF KillCheck
    <3>3. DaemonMove /\ LockAdvance(c, "killTerm")
      BY <1>25, <2>2, <3>1, DiagnosedMoves DEF KillCheck, LockAdvance, LockSame
    <3> QED
      BY <1>25, <2>2, <3>2, <3>3, AdvanceKeepsIInv DEF KillCheck
  <2> QED
    BY <1>25, <2>1, <2>2 DEF KillCheck
<1>26. ASSUME KillTerminate(c) PROVE IInv'
  <2>1. "killWait" \in Path(cl[c].cmd) /\ (CriticalOn(cl[c].cmd, "killWait") <=> CriticalOn(cl[c].cmd, cl[c].pc))
    BY <1>26, PathFacts DEF KillTerminate, Path, AllCommands, InOpen, InRestart, InRequest, InStop, CriticalOn
  <2>2. Advances(c, "killWait")
    BY <1>26, <2>1, AdvancesIf DEF KillTerminate
  <2>3. DaemonMove /\ LockAdvance(c, "killWait")
    BY <1>26, <2>1, SignalMoves DEF KillTerminate, LockAdvance
  <2> QED
    BY <1>26, <2>2, <2>3, AdvanceKeepsIInv DEF KillTerminate
<1>27. ASSUME KillWait(c) PROVE IInv'
  <2>1. "rmLoad" \in Path(cl[c].cmd) /\ (CriticalOn(cl[c].cmd, "rmLoad") <=> CriticalOn(cl[c].cmd, cl[c].pc))
    BY <1>27, PathFacts DEF KillWait, Path, AllCommands, InOpen, InRestart, InRequest, InStop, CriticalOn
  <2>2. Advances(c, "rmLoad")
    BY <1>27, <2>1, AdvancesIf DEF KillWait
  <2>3. DaemonMove /\ LockAdvance(c, "rmLoad")
    BY <1>27, <2>1, SignalMoves DEF KillWait, LockAdvance
  <2> QED
    BY <1>27, <2>2, <2>3, AdvanceKeepsIInv DEF KillWait
<1>28. ASSUME Hangup(c) PROVE IInv'
  <2> DEFINE e == [[Idle EXCEPT !.cmd = "query", !.id = cl[c].id] EXCEPT !.reply.kind = "eof"]
  <2>1. ClientOk(e) /\ ~CriticalAt(e)
    <3> DEFINE f == [Idle EXCEPT !.cmd = "query", !.id = cl[c].id]
    <3>1. ClientOk(f) /\ ~CriticalAt(f)
      BY FinishOk DEF AllCommands
    <3> HIDE DEF f
    <3> SUFFICES ClientOk([f EXCEPT !.reply.kind = "eof"]) /\ ~CriticalAt([f EXCEPT !.reply.kind = "eof"])
      BY DEF f
    <3> QED
      BY <3>1 DEF ClientOk, CriticalAt, CriticalOn
  <2>2. cl' = [cl EXCEPT ![c] = e]
    BY <1>28 DEF Hangup
  <2>3. ~Critical(c)
    BY <1>28 DEF Hangup, Critical, InOpen, InRestart
  <2>4. \A p \in Pids : dm[p].client # c
    <3> SUFFICES ASSUME NEW p \in Pids, dm[p].client = c PROVE FALSE
      OBVIOUS
    <3>1. c # NoClient
      BY LifecycleAssumption
    <3>2. cl[c].srv = p
      BY <3>1 DEF IInv, ServedWaits
    <3> QED
      BY <1>28, <3>2 DEF Hangup
  <2> HIDE DEF e
  <2> QED
    BY <1>28, <2>1, <2>2, <2>3, <2>4, QuietClientKeepsIInv DEF Hangup
<1>29. ASSUME ListLoad(c) PROVE IInv'
  <2>1. "each" \in Path(cl[c].cmd) /\ (CriticalOn(cl[c].cmd, "each") <=> CriticalOn(cl[c].cmd, cl[c].pc))
    BY <1>29, PathFacts DEF ListLoad, Path, AllCommands, InOpen, InRestart, InRequest, InStop, CriticalOn
  <2>2. PICK l : cl' = [cl EXCEPT ![c].pc = "each", ![c].todo = l]
    BY <1>29 DEF ListLoad
  <2>3. Advances(c, "each")
    BY <2>1, <2>2, AdvancesIf
  <2>4. DaemonMove /\ LockAdvance(c, "each")
    BY <1>29, <2>1 DEF ListLoad, LockAdvance, DaemonMove, LockSame
  <2> QED
    BY <1>29, <2>3, <2>4, AdvanceKeepsIInv DEF ListLoad
<1>30. ASSUME Each(c) PROVE IInv'
  <2> DEFINE h == Head(cl[c].todo)
             l == IF cl[c].cmd = "gc" THEN "stop" ELSE IF Known(h.id) THEN "killCheck" ELSE "each"
             r == IF cl[c].cmd = "gc" THEN h ELSE IF Known(h.id) THEN Find(reg, h.id) ELSE cl[c].rec
             t == Tail(cl[c].todo)
  <2>1. cl' = [cl EXCEPT ![c] = [@ EXCEPT !.pc = l, !.id = h.id, !.rec = r, !.todo = t]]
    <3>1. cl[c].pc = "each"
      BY <1>30 DEF Each
    <3>2. cl' = [cl EXCEPT ![c] =
            CASE cl[c].cmd = "gc" -> [[cl[c] EXCEPT !.id = h.id, !.todo = t] EXCEPT !.pc = "stop", !.rec = h]
              [] cl[c].cmd # "gc" /\ Known(h.id) ->
                   [[cl[c] EXCEPT !.id = h.id, !.todo = t] EXCEPT !.pc = "killCheck", !.rec = Find(reg, h.id)]
              [] OTHER -> [cl[c] EXCEPT !.id = h.id, !.todo = t]]
      BY <1>30 DEF Each
    <3> HIDE DEF h, t
    <3>3. [cl[c] EXCEPT !.id = h.id, !.todo = t]
            = [cl[c] EXCEPT !.pc = "each", !.id = h.id, !.rec = cl[c].rec, !.todo = t]
      BY <3>1 DEF Shapes, ClientOk
    <3> QED
      BY <3>2, <3>3 DEF Shapes, ClientOk
  <2> HIDE DEF h, r, t
  <2>2. l \in Path(cl[c].cmd) /\ (CriticalOn(cl[c].cmd, l) <=> CriticalOn(cl[c].cmd, cl[c].pc))
    BY <1>30, PathFacts DEF Each, Path, AllCommands, InOpen, InRestart, InRequest, InStop, CriticalOn
  <2> HIDE DEF l
  <2>3. Advances(c, l)
    BY <2>1, <2>2, AdvancesIf
  <2>4. DaemonMove /\ LockAdvance(c, l)
    BY <1>30, <2>2 DEF Each, LockAdvance, DaemonMove, LockSame
  <2> QED
    BY <1>30, <2>3, <2>4, AdvanceKeepsIInv DEF Each
<1>31. ASSUME AllStopped(c) PROVE IInv'
  <2>1. CASE cl[c].cmd = "gc"
    <3> DEFINE k == [Idle EXCEPT !.cmd = "list", !.id = cl[c].id, !.pc = "clean"]
               f == [Idle EXCEPT !.cmd = "list", !.id = cl[c].id]
    <3>1. ClientOk(f) /\ f.cmd = "list" /\ k = [f EXCEPT !.pc = "clean"]
      BY FinishOk DEF Idle, AllCommands
    <3>2. cl' = [cl EXCEPT ![c] = k]
      BY <1>31, <2>1 DEF AllStopped
    <3> HIDE DEF k, f
    <3>3. ClientOk(k) /\ k.cmd = "list" /\ k.pc = "clean"
      BY <3>1 DEF ClientOk, Path
    <3>4. ~CriticalAt(k) /\ ~CriticalAt(cl[c])
      BY <2>1, <3>3 DEF CriticalAt, CriticalOn
    <3>5. DaemonMove /\ LockMove(c, k)
      BY <1>31, <3>4 DEF AllStopped, DaemonMove, LockMove, LockSame
    <3> QED
      BY <1>31, <3>2, <3>3, <3>5, ClientMoveKeepsIInv DEF AllStopped, ClientMove
  <2>2. CASE cl[c].cmd # "gc"
    <3>1. "clear" \in Path(cl[c].cmd) /\ (CriticalOn(cl[c].cmd, "clear") <=> CriticalOn(cl[c].cmd, cl[c].pc))
      BY <1>31, <2>2, PathFacts DEF AllStopped, Path, AllCommands, InOpen, InRestart, InRequest, InStop, CriticalOn
    <3>2. To(c, "clear")
      BY <1>31, <2>2 DEF AllStopped, To, Shapes
    <3>3. Advances(c, "clear")
      BY <3>1, <3>2, AdvancesIf
    <3>4. DaemonMove /\ LockAdvance(c, "clear")
      BY <1>31, <3>1 DEF AllStopped, LockAdvance, DaemonMove, LockSame
    <3> QED
      BY <1>31, <3>3, <3>4, AdvanceKeepsIInv DEF AllStopped
  <2> QED
    BY <2>1, <2>2
<1>32. ASSUME Clear(c) PROVE IInv'
  <2>1. "clearSave" \in Path(cl[c].cmd) /\ (CriticalOn(cl[c].cmd, "clearSave") <=> CriticalOn(cl[c].cmd, cl[c].pc))
    BY <1>32, PathFacts DEF Clear, Path, AllCommands, InOpen, InRestart, InRequest, InStop, CriticalOn
  <2>2. Advances(c, "clearSave")
    BY <1>32, <2>1, AdvancesIf DEF Clear
  <2>3. DaemonMove /\ LockAdvance(c, "clearSave")
    BY <1>32, <2>1 DEF Clear, LockAdvance, DaemonMove, LockSame
  <2> QED
    BY <1>32, <2>2, <2>3, AdvanceKeepsIInv DEF Clear
<1>33. ASSUME ClearSave(c) PROVE IInv'
  <2>1. "idle" \in Path(cl[c].cmd) /\ (CriticalOn(cl[c].cmd, "idle") <=> CriticalOn(cl[c].cmd, cl[c].pc))
    BY <1>33, PathFacts DEF ClearSave, Path, AllCommands, InOpen, InRestart, InRequest, InStop, CriticalOn
  <2>2. Advances(c, "idle")
    BY <1>33, <2>1, AdvancesIf DEF ClearSave
  <2>3. DaemonMove /\ LockAdvance(c, "idle")
    BY <1>33, <2>1 DEF ClearSave, LockAdvance, DaemonMove, LockSame
  <2> QED
    BY <1>33, <2>2, <2>3, AdvanceKeepsIInv DEF ClearSave
<1> QED
  BY <1>2, <1>3, <1>4, <1>5, <1>6, <1>7, <1>8, <1>9, <1>10, <1>11, <1>12, <1>13, <1>14,
     <1>15, <1>16, <1>17, <1>18, <1>19, <1>20, <1>21, <1>22, <1>23, <1>24, <1>25, <1>26, <1>27, <1>28,
     <1>29, <1>30, <1>31, <1>32, <1>33 DEF ClientStep

(***************************************************************************)
(* Daemons                                                                 *)
(***************************************************************************)
\* A daemon goes on to d, and the client it served, or refuses, gets its reply.
LEMMA AnsweredKeepsIInv ==
  ASSUME IInv, NEW p \in Pids, NEW d, DaemonTo(p, d), DaemonOk(d), d.client = NoClient,
         NEW c \in Clients, cl[c].pc = "waiting", cl[c].srv = p, UNCHANGED fsdb,
         NEW k, ClientOk(k), ~CriticalAt(k), cl' = [cl EXCEPT ![c] = k]
  PROVE  IInv'
<1> USE DEF IInv, DaemonTo
<1>1. Shapes'
  <2>1. (\A q \in Pids : DaemonOk(dm'[q])) /\ dm' = [q \in Pids |-> dm'[q]]
    BY DEF Shapes
  <2>2. (\A e \in Clients : ClientOk(cl'[e])) /\ cl' = [e \in Clients |-> cl'[e]]
    BY DEF Shapes
  <2> QED
    BY <2>1, <2>2 DEF Shapes, DaemonOk, ClientOk
<1>2. ServedWaits'
  BY DEF ServedWaits, Shapes, DaemonOk
<1>3. LockDiscipline'
  <2>1. ~Critical(c)
    BY DEF Critical, InOpen, InRestart
  <2> QED
    BY <2>1, LifecycleAssumption DEF LockDiscipline, Critical, CriticalAt, CriticalOn, Shapes
<1> QED
  BY <1>1, <1>2, <1>3

LEMMA ReplyOk ==
  ASSUME NEW i, NEW r, r \in [kind : {"none", "data", "changed", "eof"}, data : Nat, asof : Nat],
         r.kind = "data" => r.data = r.asof
  PROVE  LET k == [Idle EXCEPT !.cmd = "query", !.id = i, !.reply = r]
         IN ClientOk(k) /\ ~CriticalAt(k)
<1> DEFINE f == [Idle EXCEPT !.cmd = "query", !.id = i]
<1>1. ClientOk(f) /\ ~CriticalAt(f)
  BY FinishOk DEF AllCommands
<1> HIDE DEF f
<1>2. ClientOk([f EXCEPT !.reply = r]) /\ ~CriticalAt([f EXCEPT !.reply = r])
  BY <1>1 DEF ClientOk, CriticalAt, CriticalOn
<1> QED
  BY <1>2 DEF f

LEMMA DaemonStepKeepsIInv ==
  ASSUME IInv, NEW p \in Pids, DaemonStep(p) \/ CrashDaemon(p)
  PROVE  IInv'
<1>1. Shapes /\ DaemonOk(dm[p]) /\ fsdb \in Nat
  BY DEF IInv, Shapes
<1> USE <1>1 DEF Others
<1>2. CASE StatFsdb(p)
  <2> DEFINE d == [dm[p] EXCEPT !.pc = "stated", !.fp = fsdb]
  <2>1. dm[p].pc = "forked" /\ DaemonTo(p, d) /\ UNCHANGED Others
    BY <1>2 DEF StatFsdb
  <2>2. /\ d.pc = "stated" /\ d.fp = fsdb /\ d.client = NoClient
        /\ d \in [pc : Running \cup {"unborn", "dead"}, id : {d.id}, fp : Nat, data : Nat,
                  client : Clients \cup {NoClient}, asof : Nat, quit : {d.quit},
                  gone : {d.gone}, snap : {d.snap}, handler : {d.handler}]
    BY <2>1 DEF DaemonOk, Running, Starting, Busy, Ending
  <2> HIDE DEF d
  <2>3. DaemonOk(d)
    BY <2>2 DEF DaemonOk, Listening, Busy
  <2> QED
    BY <2>1, <2>2, <2>3, DaemonMoveKeepsIInv
<1>3. CASE OpenFsdb(p)
  <2> DEFINE d == [dm[p] EXCEPT !.pc = "opened", !.data = fsdb]
  <2>1. dm[p].pc = "stated" /\ (DaemonTo(p, d) \/ DaemonTo(p, Dead)) /\ UNCHANGED Others
    BY <1>3 DEF OpenFsdb
  <2>2. dm[p].fp <= fsdb
    BY <2>1 DEF DaemonOk
  <2>3. /\ d.pc = "opened" /\ d.data = fsdb /\ d.fp = dm[p].fp /\ d.client = NoClient
        /\ d \in [pc : Running \cup {"unborn", "dead"}, id : {d.id}, fp : Nat, data : Nat,
                  client : Clients \cup {NoClient}, asof : Nat, quit : {d.quit},
                  gone : {d.gone}, snap : {d.snap}, handler : {d.handler}]
    BY <2>1 DEF DaemonOk, Running, Starting, Busy, Ending
  <2> HIDE DEF d
  <2>4. DaemonOk(d)
    BY <2>2, <2>3 DEF DaemonOk, Listening, Busy
  <2> QED
    BY <2>1, <2>3, <2>4, NewDaemonOk, DaemonMoveKeepsIInv
<1>4. CASE Bind(p)
  <2>1. LET d == [dm[p] EXCEPT !.pc = "serving"] IN DaemonOk(d) /\ d.client = NoClient
    BY <1>4 DEF Bind, DaemonOk, Running, Starting, Listening, Busy, Ending
  <2> QED
    BY <1>4, <2>1, NewDaemonOk, DaemonMoveKeepsIInv DEF Bind
<1>5. CASE AnswerGonePing(p) \/ CrashDaemon(p)
  BY <1>5, NewDaemonOk, DaemonMoveKeepsIInv DEF AnswerGonePing, CrashDaemon
<1>6. CASE Refuse(p)
  <2>1. PICK c \in Requests(p) :
          IF c = NoClient
          THEN DaemonTo(p, Dead) /\ UNCHANGED cl
          ELSE /\ cl' = [cl EXCEPT ![c] = [Idle EXCEPT !.cmd = "query", !.id = dm[p].id, !.reply.kind = "changed"]]
               /\ UNCHANGED <<dm, lock>>
    BY <1>6 DEF Refuse
  <2>2. CASE c = NoClient
    BY <1>6, <2>1, <2>2, NewDaemonOk, DaemonMoveKeepsIInv DEF Refuse
  <2>3. CASE c # NoClient
    <3> DEFINE r == [NoReply EXCEPT !.kind = "changed"]
               k == [Idle EXCEPT !.cmd = "query", !.id = dm[p].id, !.reply = r]
    <3>1. c \in Clients /\ cl[c].pc = "waiting" /\ cl[c].srv = p
      BY <2>3 DEF Requests
    <3>2. ClientOk(k) /\ ~CriticalAt(k)
      BY ReplyOk DEF NoReply
    <3>3. cl' = [cl EXCEPT ![c] = k]
      BY <2>1, <2>3 DEF Idle
    <3>4. dm[p].client = NoClient /\ DaemonTo(p, dm[p])
      BY <1>6, <2>1, <2>3 DEF Refuse, DaemonTo, DaemonOk, Shapes, Busy, Ending
    <3> HIDE DEF k
    <3> QED
      BY <1>6, <3>1, <3>2, <3>3, <3>4, AnsweredKeepsIInv DEF Refuse
  <2> QED
    BY <2>2, <2>3
<1>7. CASE Accept(p)
  <2>1. PICK c \in Requests(p) :
          DaemonTo(p, [dm[p] EXCEPT !.pc = IF Known(dm[p].id) THEN "touching" ELSE "answering",
                                    !.client = c, !.asof = fsdb,
                                    !.snap = IF Known(dm[p].id) THEN <<Find(reg, dm[p].id)>> ELSE << >>,
                                    !.gone = IF c = NoClient THEN @ \ {"query"} ELSE @])
    BY <1>7 DEF Accept, FsdbChanged
  <2> DEFINE d == [dm[p] EXCEPT !.pc = IF Known(dm[p].id) THEN "touching" ELSE "answering",
                                !.client = c, !.asof = fsdb,
                                    !.snap = IF Known(dm[p].id) THEN <<Find(reg, dm[p].id)>> ELSE << >>,
                                !.gone = IF c = NoClient THEN @ \ {"query"} ELSE @]
  <2>2. c # NoClient => c \in Clients /\ cl[c].pc = "waiting" /\ cl[c].srv = p
    BY DEF Requests
  <2>3. dm[p].data = fsdb
    BY <1>7 DEF Accept, FsdbChanged, DaemonOk, Listening
  <2>4. DaemonOk(d) /\ d.client = c
    BY <1>7, <2>2, <2>3 DEF Accept, FsdbChanged, DaemonOk, Running, Starting, Listening, Busy, Ending
  <2> HIDE DEF d
  <2> QED
    BY <1>7, <2>1, <2>2, <2>4, DaemonMoveKeepsIInv DEF Accept, FsdbChanged, d
<1>8. CASE TouchLoad(p) \/ TouchSave(p)
  <2>1. LET d == [dm[p] EXCEPT !.pc = "answering", !.snap = << >>]
        IN dm[p].pc = "touched" => DaemonOk(d) /\ d.client = dm[p].client
    BY DEF DaemonOk, Running, Starting, Listening, Busy, Ending
  <2>2. LET d == [dm[p] EXCEPT !.pc = "touched", !.snap = Upserted(reg, dm[p].snap[1])]
        IN dm[p].pc = "touching" => DaemonOk(d) /\ d.client = dm[p].client
    BY DEF DaemonOk, Running, Starting, Listening, Busy, Ending
  <2>3. dm[p].client # NoClient => cl[dm[p].client].pc = "waiting" /\ cl[dm[p].client].srv = p
    BY DEF IInv, ServedWaits
  <2>4. CASE TouchLoad(p)
    BY <2>2, <2>3, <2>4, DaemonMoveKeepsIInv DEF TouchLoad
  <2>5. CASE TouchSave(p)
    BY <2>1, <2>3, <2>5, DaemonMoveKeepsIInv DEF TouchSave
  <2> QED
    BY <1>8, <2>4, <2>5
<1>9. CASE Answer(p)
  <2> DEFINE r == [kind |-> "data", data |-> dm[p].data, asof |-> dm[p].asof]
             d == [dm[p] EXCEPT !.pc = "serving", !.client = NoClient, !.asof = 0, !.snap = << >>]
             k == [Idle EXCEPT !.cmd = "query", !.id = dm[p].id, !.reply = r]
  <2>1. CASE dm[p].client = NoClient
    BY <1>9, <2>1, NewDaemonOk, DaemonMoveKeepsIInv DEF Answer, Reply
  <2>2. CASE dm[p].client # NoClient
    <3> DEFINE c == dm[p].client
    <3>1. c \in Clients /\ cl[c].pc = "waiting" /\ cl[c].srv = p
      BY <2>2 DEF IInv, ServedWaits, DaemonOk
    <3>2. ClientOk(k) /\ ~CriticalAt(k)
      <4>1. dm[p].data = dm[p].asof /\ dm[p].data \in Nat /\ dm[p].asof \in Nat
        BY <1>9 DEF Answer, DaemonOk, Busy
      <4> QED
        BY <4>1, ReplyOk
    <3>3. DaemonOk(d) /\ d.client = NoClient
      BY <1>9 DEF Answer, DaemonOk, Running, Starting, Listening, Busy, Ending
    <3>4. DaemonTo(p, d) /\ cl' = [cl EXCEPT ![c] = k] /\ UNCHANGED fsdb
      BY <1>9, <2>2 DEF Answer, Reply
    <3> HIDE DEF k, d, c
    <3> QED
      BY <3>1, <3>2, <3>3, <3>4, AnsweredKeepsIInv
  <2> QED
    BY <2>1, <2>2
<1>10. CASE StopServing(p)
  <2>1. LET d == [dm[p] EXCEPT !.pc = "exiting", !.quit = "no", !.gone = {}] IN DaemonOk(d) /\ d.client = NoClient
    BY <1>10 DEF StopServing, DaemonOk, Running, Starting, Listening, Busy, Ending
  <2> QED
    BY <1>10, <2>1, NewDaemonOk, DaemonMoveKeepsIInv DEF StopServing
<1> DEFINE served == dm[p].client # NoClient => cl[dm[p].client].pc = "waiting" /\ cl[dm[p].client].srv = p
<1>14. served
  BY DEF IInv, ServedWaits
<1>11. CASE UnlinkSocket(p)
  <2>1. LET d == [dm[p] EXCEPT !.pc = "removing"] IN DaemonOk(d) /\ d.client = dm[p].client
    BY <1>11 DEF UnlinkSocket, DaemonOk, Running, Starting, Listening, Busy, Ending
  <2> QED
    BY <1>11, <1>14, <2>1, DaemonMoveKeepsIInv DEF UnlinkSocket
<1>12. CASE RemovingLoad(p)
  <2>1. LET d == [dm[p] EXCEPT !.pc = "saving", !.snap = Without(reg, {dm[p].id})]
        IN DaemonOk(d) /\ d.client = dm[p].client
    BY <1>12 DEF RemovingLoad, DaemonOk, Running, Starting, Listening, Busy, Ending
  <2> QED
    BY <1>12, <1>14, <2>1, NewDaemonOk, DaemonMoveKeepsIInv DEF RemovingLoad
<1>13. CASE RemovingSave(p)
  BY <1>13, NewDaemonOk, DaemonMoveKeepsIInv DEF RemovingSave
<1> QED
  BY <1>2, <1>3, <1>4, <1>5, <1>6, <1>7, <1>8, <1>9, <1>10, <1>11, <1>12, <1>13 DEF DaemonStep

(***************************************************************************)
(* Commands that start or are interrupted, and the file                    *)
(***************************************************************************)
LEMMA BeginKeepsIInv ==
  ASSUME IInv, NEW c \in Clients, Begin(c)
  PROVE  IInv'
<1>1. PICK cmd \in Commands, i \in Ids :
        LET refused == (cmd = "open" /\ Known(i)) \/ (cmd \in {"config", "query", "kill"} /\ ~Known(i))
        IN cl' = [cl EXCEPT ![c] =
             [Idle EXCEPT !.cmd = cmd, !.id = i, !.pc = IF refused THEN "idle" ELSE First(cmd),
                          !.rec = IF Known(i) /\ cmd # "open" THEN Find(reg, i) ELSE NoRecord]]
  BY DEF Begin
<1> DEFINE refused == (cmd = "open" /\ Known(i)) \/ (cmd \in {"config", "query", "kill"} /\ ~Known(i))
           r == IF Known(i) /\ cmd # "open" THEN Find(reg, i) ELSE NoRecord
           f == [Idle EXCEPT !.cmd = cmd, !.id = i]
           l == IF refused THEN "idle" ELSE First(cmd)
           k == [f EXCEPT !.pc = l, !.rec = r]
<1>2. cmd \in AllCommands
  BY LifecycleAssumption
<1>3. ClientOk(f) /\ f.cmd = cmd
  BY <1>2, FinishOk DEF Idle
<1>4. l \in Path(cmd) /\ ~CriticalOn(cmd, l)
  BY <1>2 DEF First, Path, CriticalOn, AllCommands, InOpen, InRestart, InRequest
<1>5. cl' = [cl EXCEPT ![c] = k]
  BY <1>1
<1> HIDE DEF f, l, r, refused
<1>6. ClientOk(k) /\ ~CriticalAt(k)
  BY <1>3, <1>4 DEF ClientOk, CriticalAt, CriticalOn
<1>7. cl[c].pc = "idle" /\ UNCHANGED <<fsdb, lock, dm>>
  BY DEF Begin
<1>8. ~Critical(c)
  BY <1>7 DEF Critical, InOpen, InRestart
<1>9. \A p \in Pids : dm[p].client # c
  BY <1>7, LifecycleAssumption DEF IInv, ServedWaits
<1> HIDE DEF k
<1> QED
  BY <1>6, <1>5, <1>7, <1>8, <1>9, QuietClientKeepsIInv

LEMMA InterruptKeepsIInv ==
  ASSUME IInv, NEW c \in Clients, Interrupt(c)
  PROVE  IInv'
<1> DEFINE k == [Idle EXCEPT !.cmd = cl[c].cmd, !.id = cl[c].id]
<1>1. Shapes
  BY DEF IInv
<1>2. ClientOk(k) /\ ~CriticalAt(k)
  BY <1>1, PathFacts, FinishOk
<1>3. cl' = [cl EXCEPT ![c] = k] /\ UNCHANGED fsdb /\ lock' = lock \ {c}
  BY DEF Interrupt, Finish
<1> HIDE DEF k
<1>4. \A p \in Pids : DaemonOk(dm'[p]) /\ dm'[p].client \in {NoClient, dm[p].client} \ {c}
  <2> SUFFICES ASSUME NEW p \in Pids
               PROVE  DaemonOk(dm'[p]) /\ dm'[p].client \in {NoClient, dm[p].client} \ {c}
    OBVIOUS
  <2>1. CASE dm[p].client = c
    <3>1. dm'[p] = [dm[p] EXCEPT !.client = NoClient]
      BY <2>1 DEF Interrupt
    <3> QED
      BY <1>1, <3>1, LifecycleAssumption DEF Shapes, DaemonOk
  <2>2. CASE dm[p].client # c
    <3>1. dm'[p] = dm[p] \/ dm'[p] = [dm[p] EXCEPT !.gone = @ \cup {"query"}]
      BY <2>2 DEF Interrupt
    <3> QED
      BY <1>1, <2>2, <3>1 DEF Shapes, DaemonOk
  <2> QED
    BY <2>1, <2>2
<1>5. Shapes'
  <2>1. dm' = [p \in Pids |-> dm'[p]]
    BY DEF Interrupt
  <2>2. (\A d \in Clients : ClientOk(cl'[d])) /\ cl' = [d \in Clients |-> cl'[d]]
    BY <1>1, <1>2, <1>3 DEF Shapes
  <2> QED
    BY <1>1, <1>3, <1>4, <2>1, <2>2 DEF Shapes, DaemonOk, ClientOk
<1>6. ServedWaits'
  BY <1>1, <1>3, <1>4 DEF IInv, ServedWaits, Shapes, DaemonOk
<1>7. LockDiscipline'
  BY <1>1, <1>2, <1>3 DEF IInv, LockDiscipline, Critical, CriticalAt, CriticalOn, Shapes
<1> QED
  BY <1>5, <1>6, <1>7 DEF IInv

LEMMA NextIInv == IInv /\ [Next]_vars => IInv'
<1> SUFFICES ASSUME IInv, [Next]_vars PROVE IInv'
  OBVIOUS
<1>1. CASE RewriteFsdb
  <2>1. fsdb \in Nat /\ fsdb' \in Nat /\ fsdb' >= fsdb
    BY <1>1 DEF RewriteFsdb, IInv, Shapes
  <2>2. \A d : DaemonOk(d) => DaemonOk(d)'
    BY <2>1 DEF DaemonOk
  <2>3. Shapes' /\ ServedWaits'
    BY <1>1, <2>1, <2>2 DEF RewriteFsdb, IInv, Shapes, ServedWaits, ClientOk
  <2>4. LockDiscipline'
    BY <1>1 DEF RewriteFsdb, IInv, LockDiscipline, Critical
  <2> QED
    BY <2>3, <2>4 DEF IInv
<1>2. CASE UNCHANGED vars
  BY <1>2 DEF vars, IInv, Shapes, DaemonOk, ClientOk, ServedWaits, LockDiscipline, Critical
<1> QED
  BY <1>1, <1>2, ClientStepKeepsIInv, FileErrorKeepsIInv, DaemonStepKeepsIInv, BeginKeepsIInv, InterruptKeepsIInv
     DEF Next, Done

LEMMA InitIInv == Init => IInv
<1> SUFFICES ASSUME Init PROVE IInv
  OBVIOUS
<1>1. Unborn.pc = "unborn" /\ Unborn.client = NoClient /\ DaemonOk(Unborn)
  BY DEF DaemonOk, Unborn, Running, Starting, Listening, Busy, Ending
<1>2. Idle.pc = "idle" /\ ClientOk(Idle)
  BY DEF Idle, NoReply, ClientOk, Path, AllCommands
<1>3. Shapes /\ ServedWaits
  BY <1>1, <1>2 DEF Init, Shapes, ServedWaits
<1>4. LockDiscipline
  BY <1>2 DEF Init, LockDiscipline, Critical, InOpen, InRestart
<1> QED
  BY <1>3, <1>4 DEF IInv

\* registry.lock keeps two processes from being inside create_session or
\* restart_session together, and every way out of them gives it back, whatever is
\* interrupted or killed and although daemons inherit it.
THEOREM RegistryLockHeld == Spec => []LockDiscipline
<1>1. IInv => LockDiscipline
  BY DEF IInv
<1> QED
  BY InitIInv, NextIInv, <1>1, PTL DEF Spec

\* Every answer of handle_client is made of the contents the FSDB file had when
\* the request passed fsdb_changed.
THEOREM AnswersAreFresh == Spec => []FreshAnswer
<1>1. IInv => FreshAnswer
  BY DEF IInv, Shapes, ClientOk, FreshAnswer
<1> QED
  BY InitIInv, NextIInv, <1>1, PTL DEF Spec

(***************************************************************************)
(* Types, the processes that are gone, and the refinement.                 *)
(***************************************************************************)
\* Every pid that is written down somewhere is of a process that was forked:
\* no other process gets it later on.
Born == {p \in Pids : dm[p].pc # "unborn"}
BornRecord == [id : Ids, pid : Born, fp : Version]

DaemonTyped(d) ==
  /\ d \in [pc : {d.pc}, id : Ids, fp : Version, data : Version,
            client : {d.client}, asof : Version, quit : {"no", "asked", "late"},
            gone : SUBSET {"ping", "query"}, snap : Seq(BornRecord), handler : {"off", "on", "locked"}]
  /\ d.pc = "touching" => d.snap # << >>

\* stop_process and kill_session are through with the recorded process.
Through(k) == k.pc = "stopped" \/ (k.cmd # "open" /\ k.pc \in {"rmLoad", "rmSave"})

ClientTyped(k) ==
  /\ k \in [pc : {k.pc}, cmd : {k.cmd}, id : Ids, rec : BornRecord \cup {NoRecord},
            new : Born \cup {NoPid}, srv : Pids \cup {NoPid},
            snap : Seq(BornRecord), todo : Seq(BornRecord),
            reply : [kind : {"none", "data", "changed", "eof"}, data : Version, asof : Version]]
  /\ k.pc \in {"wait", "addLoad", "upsertLoad"} => k.new \in Born
  /\ k.pc = "waiting" => k.srv \in Pids
  /\ k.reply.kind = "data" => k.pc = "idle"
  /\ Through(k) => ~Alive(k.rec.pid)

FilesTyped ==
  /\ fsdb \in Version
  /\ reg \in Seq(BornRecord)
  /\ dir \in [Ids -> {"none", "bare", "configs"}]
  /\ sock \in [Ids -> Pids \cup {NoPid}]
  /\ lock \subseteq Clients \cup Pids
  /\ left \in [Clients -> 0 .. OpsPerClient]
  /\ crashes \in 0 .. MaxCrashes

TInv ==
  /\ FilesTyped
  /\ \A p \in Pids : DaemonTyped(dm[p])
  /\ \A c \in Clients : ClientTyped(cl[c])

(***************************************************************************)
(* What a step does to the daemons.                                        *)
(***************************************************************************)
\* A daemon goes on to d: it is born, and does not come back from the dead.
DaemonAges(p, d) ==
  /\ DaemonTyped(d) /\ d.pc # "unborn"
  /\ d.pc \in Running => dm[p].pc \in Running \cup {"unborn"}
DaemonsAge ==
  \/ UNCHANGED dm
  \/ \E p \in Pids : \E d : dm' = [dm EXCEPT ![p] = d] /\ DaemonAges(p, d)

\* And it serves a client only if it did, on the same data.
DaemonGoes(p, d) ==
  /\ DaemonAges(p, d)
  /\ d.pc \in Busy => dm[p].pc \in Busy /\ d.client = dm[p].client /\ d.data = dm[p].data
DaemonsGo ==
  \/ UNCHANGED dm
  \/ \E p \in Pids : \E d : dm' = [dm EXCEPT ![p] = d] /\ DaemonGoes(p, d)

\* What is typed stays so: the born remain, and the dead remain dead.
LEMMA BornStay ==
  ASSUME Shapes, NEW B, B = Born', Born \subseteq B, \A p \in Born : ~Alive(p) => ~Alive(p)', UNCHANGED fsdb
  PROVE  /\ \A d : DaemonTyped(d) => DaemonTyped(d)'
         /\ \A k : ClientTyped(k) => ClientTyped(k)'
         /\ \A s : s \in Seq(BornRecord) => s \in Seq(BornRecord)'
<1>1. BornRecord \subseteq BornRecord'
  BY DEF BornRecord
<1>2. \A s : s \in Seq(BornRecord) => s \in Seq(BornRecord)'
  BY <1>1
<1>3. \A d : DaemonTyped(d) => DaemonTyped(d)'
  BY <1>2 DEF DaemonTyped
<1>4. \A k : ClientTyped(k) => ClientTyped(k)'
  <2> SUFFICES ASSUME NEW k, ClientTyped(k) PROVE ClientTyped(k)'
    OBVIOUS
  <2>1. k \in [pc : {k.pc}, cmd : {k.cmd}, id : Ids, rec : BornRecord' \cup {NoRecord},
            new : Born' \cup {NoPid}, srv : Pids \cup {NoPid},
            snap : Seq(BornRecord'), todo : Seq(BornRecord'),
            reply : [kind : {"none", "data", "changed", "eof"}, data : Version, asof : Version]]
    BY <1>1, <1>2 DEF ClientTyped
  <2>2. Through(k) => ~Alive(k.rec.pid)'
    <3>1. CASE k.rec \in BornRecord
      BY <3>1 DEF ClientTyped, BornRecord
    <3>2. CASE k.rec = NoRecord
      BY <3>2, LifecycleAssumption DEF NoRecord, Alive
    <3> QED
      BY <3>1, <3>2 DEF ClientTyped
  <2> QED
    BY <2>1, <2>2 DEF ClientTyped, Through
<1> QED
  BY <1>2, <1>3, <1>4

LEMMA DaemonsAgeFacts ==
  ASSUME Shapes, \A p \in Pids : DaemonTyped(dm[p]), DaemonsAge, UNCHANGED fsdb
  PROVE  /\ Born \subseteq Born' /\ \A p \in Born : ~Alive(p) => ~Alive(p)'
         /\ \A p \in Pids : DaemonTyped(dm[p])'
         /\ \A k : ClientTyped(k) => ClientTyped(k)'
         /\ \A s : s \in Seq(BornRecord) => s \in Seq(BornRecord)'
<1>1. Born \subseteq Born' /\ \A p \in Born : ~Alive(p) => ~Alive(p)'
  BY DEF DaemonsAge, DaemonAges, Born, Alive, Shapes
<1>2. \A p \in Pids : DaemonTyped(dm'[p])
  BY DEF DaemonsAge, DaemonAges, Shapes
<1>3. \A p \in Pids : DaemonTyped(dm[p])'
  <2> SUFFICES ASSUME NEW p \in Pids PROVE DaemonTyped(dm[p])'
    OBVIOUS
  <2>1. PICK d : d = dm'[p]
    OBVIOUS
  <2>2. DaemonTyped(d)
    BY <1>2, <2>1
  <2>3. DaemonTyped(d)'
    BY <1>1, <2>2, BornStay
  <2> QED
    BY <2>1, <2>3 DEF DaemonTyped
<1> QED
  BY <1>1, <1>3, BornStay

LEMMA DaemonsGoFacts ==
  ASSUME Shapes, \A p \in Pids : DaemonTyped(dm[p]), DaemonsGo, UNCHANGED fsdb
  PROVE  /\ Born \subseteq Born' /\ \A p \in Born : ~Alive(p) => ~Alive(p)'
         /\ \A p \in Pids : DaemonTyped(dm[p])'
         /\ \A k : ClientTyped(k) => ClientTyped(k)'
         /\ \A s : s \in Seq(BornRecord) => s \in Seq(BornRecord)'
BY DaemonsAgeFacts DEF DaemonsGo, DaemonGoes, DaemonsAge

(***************************************************************************)
(* A client's step, as far as types and reads can tell.                    *)
(***************************************************************************)
FilesGo ==
  /\ reg' \in Seq(BornRecord)
  /\ dir' \in [Ids -> {"none", "bare", "configs"}]
  /\ sock' \in [Ids -> Pids \cup {NoPid}]
  /\ lock' \subseteq Clients \cup Pids
  /\ UNCHANGED <<fsdb, left, crashes>>

\* A command that neither starts nor asks a daemon goes on to the record k.
Goes(c, k) ==
  /\ cl' = [cl EXCEPT ![c] = k] /\ ClientTyped(k)'
  /\ cl[c].pc \notin {"idle", "waiting"} /\ k.pc # "waiting" /\ k.reply.kind # "data"
CommandGoes(c) == (\E k : Goes(c, k)) /\ DaemonsGo /\ FilesGo

LEMMA FilesStayTyped ==
  ASSUME Shapes, TInv, DaemonsGo, FilesGo
  PROVE  FilesTyped' /\ \A p \in Pids : DaemonTyped(dm[p])'
BY DaemonsGoFacts DEF TInv, FilesGo, FilesTyped, Version

LEMMA ClientStaysTyped ==
  ASSUME Shapes, TInv, NEW c \in Clients, NEW k, cl' = [cl EXCEPT ![c] = k], ClientTyped(k)', DaemonsGo, FilesGo
  PROVE  TInv'
<1>1. FilesTyped' /\ \A p \in Pids : DaemonTyped(dm[p])'
  BY FilesStayTyped
<1>2. \A e \in Clients : ClientTyped(cl[e])'
  <2> SUFFICES ASSUME NEW e \in Clients PROVE ClientTyped(cl[e])'
    OBVIOUS
  <2>1. PICK j : j = cl'[e]
    OBVIOUS
  <2>2. IF e = c THEN j = k ELSE j = cl[e]
    BY <2>1 DEF Shapes
  <2>3. e # c => ClientTyped(cl[e])
    BY DEF TInv
  <2>4. ClientTyped(j)'
    BY <2>2, <2>3, DaemonsGoFacts DEF TInv, FilesGo
  <2> QED
    BY <2>1, <2>4 DEF ClientTyped
<1> QED
  BY <1>1, <1>2 DEF TInv

\* The client record k may go on to the label l as it is.
MayGo(k, l) ==
  /\ l \notin {"wait", "waiting"}
  /\ l \in {"addLoad", "upsertLoad"} => k.new \in Born
  /\ l = "stopped" \/ (k.cmd # "open" /\ l \in {"rmLoad", "rmSave"}) => ~Alive(k.rec.pid)

\* What a client is after its command m on session i.
IdleAfter(m, i) == [Idle EXCEPT !.cmd = m, !.id = i]

LEMMA IdleTyped ==
  ASSUME NEW m, NEW i \in Ids, NEW k, k = IdleAfter(m, i)
  PROVE  ClientTyped(k) /\ k.pc = "idle" /\ k.cmd = m /\ k.reply = NoReply /\ k.reply.kind = "none"
<1>1. 0 \in Version
  BY LifecycleAssumption DEF Version
<1>2. << >> \in Seq(BornRecord)
  OBVIOUS
<1>3. /\ k.pc = "idle" /\ k.cmd = m /\ k.reply = NoReply
      /\ k \in [pc : {k.pc}, cmd : {k.cmd}, id : Ids, rec : {NoRecord}, new : {NoPid}, srv : {NoPid},
                snap : {<< >>}, todo : {<< >>}, reply : {NoReply}]
  BY DEF Idle, IdleAfter
<1>4. NoReply \in [kind : {"none", "data", "changed", "eof"}, data : Version, asof : Version] /\ NoReply.kind = "none"
  BY <1>1 DEF NoReply
<1>5. ClientTyped(k)
  BY <1>2, <1>3, <1>4 DEF ClientTyped, Through
<1> QED
  BY <1>3, <1>4, <1>5

LEMMA FinishGoes ==
  ASSUME Shapes, TInv, NEW c \in Clients, cl[c].pc \notin {"idle", "waiting"}, DaemonsGo, UNCHANGED fsdb, Finish(c)
  PROVE  \E k : Goes(c, k)
<1>1. PICK k : k = IdleAfter(cl[c].cmd, cl[c].id)
  OBVIOUS
<1>2. cl[c].id \in Ids
  BY DEF TInv, ClientTyped
<1>3. ClientTyped(k) /\ k.pc = "idle" /\ k.reply.kind = "none"
  BY <1>1, <1>2, IdleTyped
<1>4. ClientTyped(k)'
  BY <1>3, DaemonsGoFacts DEF TInv
<1> QED
  BY <1>1, <1>3, <1>4 DEF Goes, Finish, IdleAfter

\* A command's step to its next label, with what else its record gets.
LEMMA GoesIf ==
  ASSUME Shapes, TInv, NEW c \in Clients, cl[c].pc \notin {"idle", "waiting"}, DaemonsGo, UNCHANGED fsdb,
         NEW l, MayGo(cl[c], l)
  PROVE  /\ To(c, l) => \E k : Goes(c, k)
         /\ \A s \in Seq(BornRecord) : cl' = [cl EXCEPT ![c].pc = l, ![c].snap = s] => \E k : Goes(c, k)
         /\ \A r \in BornRecord : l = "stop" /\ cl' = [cl EXCEPT ![c].pc = l, ![c].rec = r] => \E k : Goes(c, k)
         /\ \A t \in Seq(BornRecord) : cl' = [cl EXCEPT ![c].pc = l, ![c].todo = t] => \E k : Goes(c, k)
<1>1. ClientTyped(cl[c]) /\ cl[c].reply.kind # "data" /\ cl = [d \in Clients |-> cl[d]]
  BY DEF TInv, ClientTyped, Shapes
<1>2. \A k : ClientTyped(k) => ClientTyped(k)'
  BY DaemonsGoFacts DEF TInv
<1>3. ASSUME NEW k, ClientTyped(k), k.pc = l, k.reply.kind # "data", cl' = [cl EXCEPT ![c] = k]
      PROVE  \E j : Goes(c, j)
  BY <1>2, <1>3 DEF Goes, MayGo
<1> USE DEF MayGo, Through, ClientTyped
<1>4. ASSUME To(c, l) PROVE \E k : Goes(c, k)
  <2>1. PICK k : k = [cl[c] EXCEPT !.pc = l]
    OBVIOUS
  <2>2. ClientTyped(k) /\ k.pc = l /\ k.reply.kind # "data"
    BY <1>1, <2>1
  <2>3. cl' = [cl EXCEPT ![c] = k]
    BY ONLY <1>1, <1>4, <2>1, c \in Clients DEF To
  <2> QED
    BY <1>3, <2>2, <2>3
<1>5. ASSUME NEW s \in Seq(BornRecord), cl' = [cl EXCEPT ![c].pc = l, ![c].snap = s] PROVE \E k : Goes(c, k)
  <2>1. PICK k : k = [cl[c] EXCEPT !.pc = l, !.snap = s]
    OBVIOUS
  <2>2. ClientTyped(k) /\ k.pc = l /\ k.reply.kind # "data"
    BY <1>1, <2>1
  <2>3. cl' = [cl EXCEPT ![c] = k]
    BY ONLY <1>1, <1>5, <2>1, c \in Clients DEF To
  <2> QED
    BY <1>3, <2>2, <2>3
<1>6. ASSUME NEW r \in BornRecord, l = "stop", cl' = [cl EXCEPT ![c].pc = l, ![c].rec = r] PROVE \E k : Goes(c, k)
  <2>1. PICK k : k = [cl[c] EXCEPT !.pc = l, !.rec = r]
    OBVIOUS
  <2>2. ClientTyped(k) /\ k.pc = l /\ k.reply.kind # "data"
    BY <1>1, <1>6, <2>1
  <2>3. cl' = [cl EXCEPT ![c] = k]
    BY ONLY <1>1, <1>6, <2>1, c \in Clients DEF To
  <2> QED
    BY <1>3, <2>2, <2>3
<1>7. ASSUME NEW t \in Seq(BornRecord), cl' = [cl EXCEPT ![c].pc = l, ![c].todo = t] PROVE \E k : Goes(c, k)
  <2>1. PICK k : k = [cl[c] EXCEPT !.pc = l, !.todo = t]
    OBVIOUS
  <2>2. ClientTyped(k) /\ k.pc = l /\ k.reply.kind # "data"
    BY <1>1, <2>1
  <2>3. cl' = [cl EXCEPT ![c] = k]
    BY ONLY <1>1, <1>7, <2>1, c \in Clients DEF To
  <2> QED
    BY <1>3, <2>2, <2>3
<1> QED
  BY <1>4, <1>5, <1>6, <1>7

(***************************************************************************)
(* What commands do to daemons.                                            *)
(***************************************************************************)
LEMMA NewDaemonGoes ==
  ASSUME NEW p \in Pids
  PROVE  /\ \A d : d = Dead => DaemonGoes(p, d) /\ d.pc = "dead"
         /\ \A i \in Ids : \A d : d = [Unborn EXCEPT !.pc = "forked", !.id = i] /\ dm[p].pc = "unborn" =>
              DaemonGoes(p, d) /\ d.pc = "forked"
<1>1. 0 \in Version /\ AnyId \in Ids /\ << >> \in Seq(BornRecord)
  BY LifecycleAssumption DEF Version, AnyId
<1>2. ASSUME NEW d, d = Dead PROVE DaemonGoes(p, d) /\ d.pc = "dead"
  <2>1. d.pc = "dead" /\ d \in [pc : {d.pc}, id : {AnyId}, fp : {0}, data : {0}, client : {d.client}, asof : {0},
                                quit : {"no"}, gone : {{}}, snap : {<< >>}, handler : {"off"}]
    BY <1>2 DEF Dead, Unborn
  <2> QED
    BY <1>1, <2>1 DEF DaemonGoes, DaemonAges, DaemonTyped, Running, Starting, Listening, Busy, Ending
<1>3. ASSUME NEW i \in Ids, NEW d, d = [Unborn EXCEPT !.pc = "forked", !.id = i], dm[p].pc = "unborn"
      PROVE  DaemonGoes(p, d) /\ d.pc = "forked"
  <2>1. d.pc = "forked" /\ d \in [pc : {d.pc}, id : {i}, fp : {0}, data : {0}, client : {d.client}, asof : {0},
                                  quit : {"no"}, gone : {{}}, snap : {<< >>}, handler : {"off"}]
    BY <1>3 DEF Unborn
  <2> QED
    BY <1>1, <1>3, <2>1 DEF DaemonGoes, DaemonAges, DaemonTyped, Running, Starting, Listening, Busy, Ending
<1> QED
  BY <1>2, <1>3

LEMMA TerminatedGoes ==
  ASSUME NEW p \in Pids, DaemonTyped(dm[p]), Alive(p), NEW d \in Terminated(p)
  PROVE  DaemonGoes(p, d)
<1>1. dm[p].pc \in Running /\ 0 \in Version
  BY LifecycleAssumption DEF Alive, Version
<1>2. CASE d = Dead
  BY <1>2, NewDaemonGoes
<1>3. CASE dm[p].pc = "opened" /\ d = [dm[p] EXCEPT !.pc = "removing", !.handler = "on"]
  BY <1>3 DEF DaemonGoes, DaemonAges, DaemonTyped, Running, Starting, Listening, Busy, Ending
<1>4. ASSUME NEW h \in {"on", "locked"}, d = Handled(p, h) PROVE DaemonGoes(p, d)
  <2>1. << >> \in Seq(BornRecord)
    OBVIOUS
  <2> QED
    BY <1>1, <1>4, <2>1 DEF Handled, DaemonGoes, DaemonAges, DaemonTyped, Running, Starting, Listening, Busy, Ending
<1>5. CASE d = dm[p]
  BY <1>1, <1>5 DEF DaemonGoes, DaemonAges, Running, Starting, Listening, Busy, Ending
<1> QED
  BY <1>2, <1>3, <1>4, <1>5 DEF Terminated

LEMMA SignalGoes ==
  ASSUME Shapes, TInv, NEW q
  PROVE  /\ Signal(q, Terminated(q)) => DaemonsGo /\ lock' \subseteq Clients \cup Pids
         /\ Signal(q, Killed(q)) => DaemonsGo /\ lock' \subseteq Clients \cup Pids /\ ~Alive(q)'
<1>1. CASE ~Alive(q)
  BY <1>1 DEF Signal, DaemonsGo, TInv, FilesTyped, Alive
<1>2. CASE Alive(q)
  <2>1. q \in Pids /\ DaemonTyped(dm[q])
    BY <1>2 DEF Alive, TInv
  <2>2. ASSUME NEW d, DaemonGoes(q, d), DaemonTo(q, d) PROVE DaemonsGo /\ lock' \subseteq Clients \cup Pids
    BY <2>1, <2>2 DEF DaemonTo, DaemonsGo, TInv, FilesTyped
  <2>3. Signal(q, Terminated(q)) => DaemonsGo /\ lock' \subseteq Clients \cup Pids
    BY <1>2, <2>1, <2>2, TerminatedGoes DEF Signal
  <2>4. ASSUME Signal(q, Killed(q)) PROVE DaemonsGo /\ lock' \subseteq Clients \cup Pids /\ ~Alive(q)'
    <3>1. PICK d : d = Dead
      OBVIOUS
    <3>2. DaemonTo(q, d) /\ DaemonGoes(q, d) /\ d.pc = "dead"
      BY <1>2, <2>1, <2>4, <3>1, NewDaemonGoes DEF Signal, Killed
    <3>3. dm'[q] = d
      BY <2>1, <3>2 DEF DaemonTo, Shapes
    <3> QED
      BY <2>2, <3>2, <3>3 DEF Alive, Running, Starting, Listening, Busy, Ending
  <2> QED
    BY <2>3, <2>4
<1> QED
  BY <1>1, <1>2

LEMMA DiagnosedGoes ==
  ASSUME Shapes, TInv, NEW i \in Ids, NEW h, Diagnosed(i, h)
  PROVE  DaemonsGo
<1>1. CASE UNCHANGED dm
  BY <1>1 DEF DaemonsGo
<1>2. CASE LooksAlive(i) /\ dm' = [dm EXCEPT ![sock[i]].gone = @ \cup {"ping"}]
  <2>1. PICK s : s = sock[i]
    OBVIOUS
  <2>2. s \in Pids /\ DaemonTyped(dm[s]) /\ dm[s].pc \in Listening
    BY <1>2, <2>1 DEF LooksAlive, TInv, FilesTyped
  <2>3. PICK d : d = [dm[s] EXCEPT !.gone = @ \cup {"ping"}]
    OBVIOUS
  <2>4. DaemonGoes(s, d)
    BY <2>2, <2>3 DEF DaemonGoes, DaemonAges, DaemonTyped, Running, Starting, Listening, Busy, Ending
  <2>5. dm' = [dm EXCEPT ![s] = d]
    BY <1>2, <2>1, <2>3
  <2> QED
    BY <2>2, <2>4, <2>5 DEF DaemonsGo
<1> QED
  BY <1>1, <1>2 DEF Diagnosed

LEMMA StopGoes ==
  ASSUME Shapes, TInv, NEW c \in Clients, Stop(c)
  PROVE  DaemonsGo
<1>1. CASE UNCHANGED dm
  BY <1>1 DEF DaemonsGo
<1>2. PICK s : s = sock[cl[c].id]
  OBVIOUS
<1>3. ASSUME NEW q \in {"late", "asked"}, s # NoPid, dm[s].pc \in Listening, dm' = [dm EXCEPT ![s].quit = q] PROVE DaemonsGo
  <2>1. s \in Pids /\ DaemonTyped(dm[s])
    BY <1>2, <1>3 DEF TInv, FilesTyped, ClientTyped
  <2>2. PICK d : d = [dm[s] EXCEPT !.quit = q]
    OBVIOUS
  <2>3. DaemonGoes(s, d)
    BY <1>3, <2>1, <2>2 DEF DaemonGoes, DaemonAges, DaemonTyped, Running, Starting, Listening, Busy, Ending
  <2>4. dm' = [dm EXCEPT ![s] = d]
    BY <1>3, <2>2
  <2> QED
    BY <2>1, <2>3, <2>4 DEF DaemonsGo
<1>4. ~UNCHANGED dm => /\ s # NoPid /\ dm[s].pc \in Listening
                       /\ \E q \in {"late", "asked"} : dm' = [dm EXCEPT ![s].quit = q]
  BY <1>2 DEF Stop
<1> QED
  BY <1>1, <1>3, <1>4

LEMMA GiveUpGoes ==
  ASSUME Shapes, TInv, NEW c \in Clients, GiveUp(c)
  PROVE  DaemonsGo
<1>1. CASE UNCHANGED dm
  BY <1>1 DEF DaemonsGo
<1>2. CASE Alive(cl[c].new) /\ \E d \in Terminated(cl[c].new) : dm' = [dm EXCEPT ![cl[c].new] = d]
  BY <1>2, TerminatedGoes DEF DaemonsGo, Alive, TInv
<1> QED
  BY <1>1, <1>2 DEF GiveUp

\* spawn_server: the client waits for a daemon that is born now.
LEMMA ForkGoes ==
  ASSUME Shapes, TInv, NEW c \in Clients, cl[c].pc \notin {"idle", "waiting"}, Forkable # {},
         Fork(c, CHOOSE p \in Forkable : TRUE, cl[c].id), UNCHANGED fsdb
  PROVE  DaemonsGo /\ (\E k : Goes(c, k)) /\ lock' \subseteq Clients \cup Pids
<1>1. PICK p : p = (CHOOSE q \in Forkable : TRUE)
  OBVIOUS
<1>2. p \in Pids /\ dm[p].pc = "unborn"
  BY <1>1 DEF Forkable
<1>3. PICK d : d = [Unborn EXCEPT !.pc = "forked", !.id = cl[c].id]
  OBVIOUS
<1>4. cl[c].id \in Ids /\ ClientTyped(cl[c])
  BY DEF TInv, ClientTyped
<1>5. DaemonGoes(p, d) /\ d.pc = "forked"
  <2>1. PICK i \in Ids : i = cl[c].id
    BY <1>4
  <2> QED
    BY <1>2, <1>3, <2>1, NewDaemonGoes DEF Unborn
<1>6. dm' = [dm EXCEPT ![p] = d]
  BY <1>1, <1>3 DEF Fork
<1>7. DaemonsGo
  BY <1>2, <1>5, <1>6 DEF DaemonsGo
<1>8. p \in Born'
  BY <1>2, <1>5, <1>6 DEF Born, Shapes
<1>9. lock' \subseteq Clients \cup Pids
  BY <1>1, <1>2 DEF Fork, TInv, FilesTyped
<1>10. PICK k : k = [cl[c] EXCEPT !.new = p, !.pc = "wait"]
  OBVIOUS
<1>11. cl' = [cl EXCEPT ![c] = k]
  BY <1>1, <1>10 DEF Fork, Shapes
<1>12. PICK e : e = cl[c]
  OBVIOUS
<1>13. ClientTyped(e) /\ e.reply.kind # "data"
  BY <1>4, <1>12 DEF ClientTyped
<1>14. ClientTyped(e)'
  BY <1>7, <1>13, DaemonsGoFacts DEF TInv
<1>15. k = [e EXCEPT !.new = p, !.pc = "wait"]
  BY <1>10, <1>12
<1>16. ClientTyped(k)'
  BY <1>8, <1>14, <1>13, <1>15 DEF ClientTyped, Through
<1>17. k.pc = "wait" /\ k.reply.kind # "data"
  BY <1>13, <1>15 DEF ClientTyped
<1> QED
  BY <1>7, <1>9, <1>11, <1>16, <1>17 DEF Goes

LEMMA FileFacts ==
  ASSUME TInv
  PROVE  /\ \A S : RemoveDirs(S) => /\ dir' \in [Ids -> {"none", "bare", "configs"}]
                                    /\ sock' \in [Ids -> Pids \cup {NoPid}]
         /\ \A doc : Save(doc) => /\ reg' = doc /\ dir' \in [Ids -> {"none", "bare", "configs"}]
                                  /\ sock' \in [Ids -> Pids \cup {NoPid}]
         /\ \A doc, i : SaveAndRemoveDir(doc, i) => /\ reg' = doc /\ dir' \in [Ids -> {"none", "bare", "configs"}]
                                                    /\ sock' \in [Ids -> Pids \cup {NoPid}]
         /\ \A i : [sock EXCEPT ![i] = NoPid] \in [Ids -> Pids \cup {NoPid}]
BY DEF TInv, FilesTyped, RemoveDirs, Save, Saved, SaveAndRemoveDir

LEMMA ListFacts ==
  ASSUME TInv
  PROVE  /\ \A i : Known(i) => Find(reg, i) \in BornRecord
         /\ \A ids : Without(reg, ids) \in Seq(BornRecord)
         /\ \A Q \in SUBSET DOMAIN reg : Picked(reg, Q) \in Seq(BornRecord)
         /\ \A r \in BornRecord : Append(reg, r) \in Seq(BornRecord) /\ Upserted(reg, r) \in Seq(BornRecord)
<1>1. reg \in Seq(BornRecord)
  BY DEF TInv, FilesTyped
<1>2. \A i : Known(i) => Find(reg, i) \in BornRecord
  BY <1>1, FirstOfFacts DEF Known, Find
<1>3. \A Q \in SUBSET DOMAIN reg : Picked(reg, Q) \in Seq(BornRecord)
  BY <1>1, PickedFacts
<1>4. \A r \in BornRecord : Append(reg, r) \in Seq(BornRecord) /\ Upserted(reg, r) \in Seq(BornRecord)
  BY <1>1, UpsertedFacts
<1> QED
  BY <1>1, <1>2, <1>3, <1>4, WithoutFacts

\* SIGKILL, and on to a label where the recorded process is gone.
LEMMA KilledGoes ==
  ASSUME Shapes, TInv, NEW c \in Clients, cl[c].pc \notin {"idle", "waiting"}, UNCHANGED fsdb,
         Signal(cl[c].rec.pid, Killed(cl[c].rec.pid)), NEW l \in {"stopped", "rmLoad"}, To(c, l)
  PROVE  DaemonsGo /\ (\E k : Goes(c, k)) /\ lock' \subseteq Clients \cup Pids
<1>1. PICK q : q = cl[c].rec.pid
  OBVIOUS
<1>2. DaemonsGo /\ lock' \subseteq Clients \cup Pids /\ ~Alive(q)'
  BY <1>1, SignalGoes
<1>3. PICK e : e = cl[c]
  OBVIOUS
<1>4. ClientTyped(e) /\ e.reply.kind # "data"
  BY <1>3 DEF TInv, ClientTyped
<1>5. ClientTyped(e)'
  BY <1>2, <1>4, DaemonsGoFacts DEF TInv
<1>6. PICK k : k = [e EXCEPT !.pc = l]
  OBVIOUS
<1>7. ClientTyped(k)' /\ k.pc = l /\ k.reply.kind # "data"
  BY <1>1, <1>2, <1>3, <1>4, <1>5, <1>6 DEF ClientTyped, Through
<1>8. cl' = [cl EXCEPT ![c] = k]
  BY <1>3, <1>6 DEF To, Shapes
<1> QED
  BY <1>2, <1>7, <1>8 DEF Goes

\* The new daemon is given up.
LEMMA GivenUpGoes ==
  ASSUME Shapes, TInv, NEW c \in Clients, cl[c].pc \notin {"idle", "waiting"}, GiveUp(c)
  PROVE  CommandGoes(c)
<1>1. DaemonsGo /\ UNCHANGED <<fsdb, left, crashes>>
  BY GiveUpGoes DEF GiveUp
<1>2. FilesGo
  BY FileFacts DEF TInv, FilesTyped, FilesGo, Unlock, GiveUp
<1> QED
  BY <1>1, <1>2, FinishGoes DEF CommandGoes, GiveUp

LEMMA FileErrorGoes ==
  ASSUME IInv, TInv, NEW c \in Clients, FileError(c)
  PROVE  CommandGoes(c)
<1>1. Shapes
  BY DEF IInv
<1>2. CASE StatFailed(c) \/ UpsertFailed(c)
  <2>1. DaemonsGo /\ UNCHANGED <<fsdb, left, crashes>> /\ cl[c].pc \notin {"idle", "waiting"} /\ Finish(c)
    BY <1>2 DEF DaemonsGo, StatFailed, UpsertFailed
  <2>2. FilesGo
    BY <1>2 DEF TInv, FilesTyped, FilesGo, Unlock, StatFailed, UpsertFailed
  <2> QED
    BY <1>1, <2>1, <2>2, FinishGoes DEF CommandGoes
<1>3. CASE AddFailed(c)
  BY <1>1, <1>3, GivenUpGoes DEF AddFailed
<1> QED
  BY <1>2, <1>3 DEF FileError

(***************************************************************************)
(* Every step of a command, but for what it asks a daemon.                 *)
(***************************************************************************)
LEMMA CommandStepGoes ==
  ASSUME IInv, TInv, NEW c \in Clients, ClientStep(c), ~Connect(c), ~Hangup(c)
  PROVE  CommandGoes(c)
<1>1. Shapes /\ ClientTyped(cl[c]) /\ cl[c].id \in Ids /\ cl[c].cmd \in AllCommands /\ cl[c].pc \in Path(cl[c].cmd)
  BY PathFacts DEF IInv, TInv, ClientTyped
<1> USE <1>1
<1>2. ASSUME Clean(c) PROVE CommandGoes(c)
  <2>1. DaemonsGo /\ UNCHANGED <<fsdb, left, crashes>> /\ cl[c].pc \notin {"idle", "waiting"}
    BY <1>2 DEF DaemonsGo, Clean
  <2>2. FilesGo
    BY <1>2, FileFacts DEF TInv, FilesTyped, FilesGo, Clean
  <2>3. \A Q : Picked(reg, DOMAIN reg \ Q) \in Seq(BornRecord)
    BY ListFacts
  <2>4. \E k : Goes(c, k)
    BY <1>2, <2>1, <2>3, GoesIf DEF MayGo, Clean
  <2> QED
    BY <2>1, <2>2, <2>4 DEF CommandGoes
<1>3. ASSUME CleanSave(c) PROVE CommandGoes(c)
  <2>1. DaemonsGo /\ UNCHANGED <<fsdb, left, crashes>> /\ cl[c].pc \notin {"idle", "waiting"}
    BY <1>3 DEF DaemonsGo, CleanSave
  <2>2. FilesGo
    BY <1>3, <1>1, FileFacts DEF TInv, FilesTyped, FilesGo, ClientTyped, CleanSave
  <2>3. \E k : Goes(c, k)
    BY <1>3, <2>1, GoesIf, FinishGoes DEF MayGo, CleanSave
  <2> QED
    BY <2>1, <2>2, <2>3 DEF CommandGoes
<1>4. ASSUME RemoveLoad(c) PROVE CommandGoes(c)
  <2>1. DaemonsGo /\ UNCHANGED <<fsdb, left, crashes>> /\ cl[c].pc = "rmLoad"
    BY <1>4 DEF DaemonsGo, RemoveLoad
  <2>2. FilesGo
    BY <1>4 DEF TInv, FilesTyped, FilesGo, RemoveLoad
  <2>3. CASE Known(cl[c].id)
    <3>1. PICK s \in Seq(BornRecord) : s = Without(reg, {cl[c].id})
      BY ListFacts
    <3>2. MayGo(cl[c], "rmSave")
      BY <1>1, <2>1 DEF MayGo, ClientTyped, Through
    <3>3. cl' = [cl EXCEPT ![c].pc = "rmSave", ![c].snap = s]
      BY <1>4, <2>3, <3>1 DEF RemoveLoad
    <3> QED
      BY <2>1, <2>2, <3>2, <3>3, GoesIf DEF CommandGoes
  <2>4. CASE ~Known(cl[c].id)
    BY <1>4, <2>1, <2>2, <2>4, GoesIf, FinishGoes DEF CommandGoes, MayGo, RemoveLoad, Removed
  <2> QED
    BY <2>3, <2>4
<1>5. ASSUME RemoveSave(c) PROVE CommandGoes(c)
  <2>1. DaemonsGo /\ UNCHANGED <<fsdb, left, crashes>> /\ cl[c].pc = "rmSave"
    BY <1>5 DEF DaemonsGo, RemoveSave
  <2>2. FilesGo
    BY <1>5, <1>1, FileFacts DEF TInv, FilesTyped, FilesGo, ClientTyped, RemoveSave
  <2> QED
    BY <1>5, <2>1, <2>2, GoesIf, FinishGoes DEF CommandGoes, MayGo, RemoveSave, Removed
<1>6. ASSUME LockOpen(c) PROVE CommandGoes(c)
  <2>1. DaemonsGo /\ UNCHANGED <<fsdb, left, crashes>> /\ cl[c].pc \notin {"idle", "waiting"}
    BY <1>6 DEF DaemonsGo, LockOpen
  <2>2. FilesGo
    BY <1>6 DEF TInv, FilesTyped, FilesGo, LockOpen
  <2>3. \E k : Goes(c, k)
    BY <1>6, <2>1, GoesIf, FinishGoes DEF MayGo, LockOpen
  <2> QED
    BY <2>1, <2>2, <2>3 DEF CommandGoes
<1>7. ASSUME Exists(c) PROVE CommandGoes(c)
  <2>1. UNCHANGED <<fsdb, reg, left, crashes>> /\ cl[c].pc = "exists"
    BY <1>7 DEF Exists
  <2>2. CASE Finish(c) /\ Unlock /\ UNCHANGED dm /\ dir' \in [Ids -> {"none", "bare", "configs"}] /\ sock' \in [Ids -> Pids \cup {NoPid}]
    <3>1. DaemonsGo /\ FilesGo
      BY <2>1, <2>2 DEF DaemonsGo, FilesGo, Unlock, TInv, FilesTyped
    <3> QED
      BY <2>1, <2>2, <3>1, FinishGoes DEF CommandGoes
  <2>3. CASE /\ Forkable # {} /\ Fork(c, CHOOSE p \in Forkable : TRUE, cl[c].id) /\ UNCHANGED sock
             /\ dir' = [dir EXCEPT ![cl[c].id] = IF @ = "none" THEN "bare" ELSE @]
    <3>1. DaemonsGo /\ (\E k : Goes(c, k)) /\ lock' \subseteq Clients \cup Pids
      BY <2>1, <2>3, ForkGoes
    <3>2. dir' \in [Ids -> {"none", "bare", "configs"}]
      BY <2>3 DEF TInv, FilesTyped
    <3> QED
      BY <2>1, <2>3, <3>1, <3>2 DEF CommandGoes, FilesGo, TInv, FilesTyped
  <2>4. Finish(c) /\ Unlock /\ UNCHANGED <<dir, sock, dm>> => dir' \in [Ids -> {"none", "bare", "configs"}] /\ sock' \in [Ids -> Pids \cup {NoPid}]
    BY DEF TInv, FilesTyped
  <2> QED
    BY <1>7, <2>2, <2>3, <2>4, FileFacts DEF Exists
<1>8. ASSUME WaitReady(c) PROVE CommandGoes(c)
  <2>1. DaemonsGo /\ UNCHANGED <<fsdb, left, crashes>> /\ cl[c].pc \notin {"idle", "waiting"}
    BY <1>8 DEF DaemonsGo, WaitReady
  <2>2. FilesGo
    BY <1>8 DEF TInv, FilesTyped, FilesGo, WaitReady
  <2>3. \E k : Goes(c, k)
    BY <1>8, <1>1, <2>1, GoesIf DEF MayGo, ClientTyped, WaitReady
  <2> QED
    BY <2>1, <2>2, <2>3 DEF CommandGoes
<1>9. ASSUME WaitFailed(c) PROVE CommandGoes(c)
  BY <1>9, GivenUpGoes DEF WaitFailed
<1>10. ASSUME AddLoad(c) PROVE CommandGoes(c)
  <2>1. DaemonsGo /\ UNCHANGED <<fsdb, left, crashes>> /\ cl[c].pc = "addLoad"
    BY <1>10 DEF DaemonsGo, AddLoad
  <2>2. FilesGo
    BY <1>10 DEF TInv, FilesTyped, FilesGo, AddLoad
  <2>3. NewRecord(c) \in BornRecord
    BY <1>1, <2>1 DEF ClientTyped, NewRecord, BornRecord, TInv, FilesTyped
  <2>4. PICK s \in Seq(BornRecord) : s = Append(reg, NewRecord(c))
    BY <2>3, ListFacts
  <2> QED
    BY <1>10, <2>1, <2>2, <2>4, GoesIf DEF CommandGoes, MayGo, AddLoad
<1>11. ASSUME UpsertLoad(c) PROVE CommandGoes(c)
  <2>1. DaemonsGo /\ UNCHANGED <<fsdb, left, crashes>> /\ cl[c].pc = "upsertLoad"
    BY <1>11 DEF DaemonsGo, UpsertLoad
  <2>2. FilesGo
    BY <1>11 DEF TInv, FilesTyped, FilesGo, UpsertLoad
  <2>3. NewRecord(c) \in BornRecord
    BY <1>1, <2>1 DEF ClientTyped, NewRecord, BornRecord, TInv, FilesTyped
  <2>4. PICK s \in Seq(BornRecord) : s = Upserted(reg, NewRecord(c))
    BY <2>3, ListFacts
  <2> QED
    BY <1>11, <2>1, <2>2, <2>4, GoesIf DEF CommandGoes, MayGo, UpsertLoad
<1>12. ASSUME AddSave(c) PROVE CommandGoes(c)
  <2>1. DaemonsGo /\ UNCHANGED <<fsdb, left, crashes>> /\ cl[c].pc \notin {"idle", "waiting"}
    BY <1>12 DEF DaemonsGo, AddSave
  <2>2. FilesGo
    BY <1>12, <1>1, FileFacts DEF TInv, FilesTyped, FilesGo, ClientTyped, AddSave
  <2>3. \E k : Goes(c, k)
    BY <1>12, <2>1, GoesIf, FinishGoes DEF MayGo, AddSave
  <2> QED
    BY <2>1, <2>2, <2>3 DEF CommandGoes
<1>13. ASSUME OpenCheck(c) PROVE CommandGoes(c)
  <2>1. DaemonsGo /\ UNCHANGED <<fsdb, left, crashes>> /\ cl[c].pc \notin {"idle", "waiting"}
    BY <1>13, <1>1, DiagnosedGoes DEF OpenCheck, ClientTyped
  <2>2. FilesGo
    BY <1>13 DEF TInv, FilesTyped, FilesGo, Unlock, OpenCheck
  <2>3. \E k : Goes(c, k)
    BY <1>13, <2>1, GoesIf, FinishGoes DEF MayGo, OpenCheck
  <2> QED
    BY <2>1, <2>2, <2>3 DEF CommandGoes
<1>14. ASSUME TerminateNew(c) PROVE CommandGoes(c)
  <2>1. DaemonsGo /\ lock' \subseteq Clients \cup Pids /\ UNCHANGED <<fsdb, left, crashes>> /\ cl[c].pc = "termNew"
    BY <1>14, SignalGoes DEF TerminateNew
  <2>2. FilesGo
    BY <1>14, <2>1 DEF TInv, FilesTyped, FilesGo, TerminateNew
  <2>3. cl[c].cmd = "open"
    BY <1>1, <2>1 DEF Path, AllCommands, InRequest, InRestart, InStop
  <2> QED
    BY <1>14, <2>1, <2>2, <2>3, GoesIf DEF CommandGoes, MayGo, TerminateNew
<1>15. ASSUME UnlinkNew(c) PROVE CommandGoes(c)
  <2>1. DaemonsGo /\ UNCHANGED <<fsdb, left, crashes>> /\ cl[c].pc \notin {"idle", "waiting"}
    BY <1>15 DEF DaemonsGo, UnlinkNew
  <2>2. FilesGo
    BY <1>15, FileFacts DEF TInv, FilesTyped, FilesGo, Unlock, UnlinkNew
  <2>3. \E k : Goes(c, k)
    BY <1>15, <2>1, GoesIf, FinishGoes DEF MayGo, UnlinkNew
  <2> QED
    BY <2>1, <2>2, <2>3 DEF CommandGoes
<1>16. ASSUME Ensure(c) PROVE CommandGoes(c)
  <2>1. DaemonsGo /\ UNCHANGED <<fsdb, left, crashes>> /\ cl[c].pc \notin {"idle", "waiting"}
    BY <1>16, <1>1, DiagnosedGoes DEF Ensure, ClientTyped, DaemonsGo
  <2>2. FilesGo
    BY <1>16 DEF TInv, FilesTyped, FilesGo, Ensure
  <2>3. \E k : Goes(c, k)
    BY <1>16, <2>1, GoesIf, FinishGoes DEF MayGo, Ensure
  <2> QED
    BY <2>1, <2>2, <2>3 DEF CommandGoes
<1>17. ASSUME LockRestart(c) PROVE CommandGoes(c)
  <2>1. DaemonsGo /\ UNCHANGED <<fsdb, left, crashes>> /\ cl[c].pc \notin {"idle", "waiting"}
    BY <1>17 DEF DaemonsGo, LockRestart
  <2>2. FilesGo
    BY <1>17 DEF TInv, FilesTyped, FilesGo, LockRestart
  <2>3. \E k : Goes(c, k)
    BY <1>17, <2>1, GoesIf, FinishGoes DEF MayGo, LockRestart
  <2> QED
    BY <2>1, <2>2, <2>3 DEF CommandGoes
<1>18. ASSUME RestartGet(c) PROVE CommandGoes(c)
  <2>1. DaemonsGo /\ UNCHANGED <<fsdb, left, crashes>> /\ cl[c].pc = "restartGet"
    BY <1>18 DEF DaemonsGo, RestartGet
  <2>2. FilesGo
    BY <1>18 DEF TInv, FilesTyped, FilesGo, Unlock, RestartGet
  <2>3. CASE Known(cl[c].id) /\ cl' = [cl EXCEPT ![c].pc = "stop", ![c].rec = Find(reg, cl[c].id)]
    <3>1. PICK r \in BornRecord : r = Find(reg, cl[c].id)
      BY <2>3, ListFacts
    <3>2. cl' = [cl EXCEPT ![c].pc = "stop", ![c].rec = r]
      BY <1>18, <2>3, <3>1 DEF RestartGet
    <3> QED
      BY <2>1, <2>2, <3>2, GoesIf DEF CommandGoes, MayGo
  <2>4. CASE Finish(c)
    BY <1>18, <2>1, <2>2, <2>4, FinishGoes DEF CommandGoes, RestartGet
  <2> QED
    BY <1>18, <2>3, <2>4 DEF RestartGet
<1>19. ASSUME Stop(c) PROVE CommandGoes(c)
  <2>1. DaemonsGo /\ UNCHANGED <<fsdb, left, crashes>> /\ cl[c].pc \notin {"idle", "waiting"}
    BY <1>19, StopGoes DEF Stop
  <2>2. FilesGo
    BY <1>19 DEF TInv, FilesTyped, FilesGo, Stop
  <2>3. \E k : Goes(c, k)
    BY <1>19, <2>1, GoesIf, FinishGoes DEF MayGo, Stop
  <2> QED
    BY <2>1, <2>2, <2>3 DEF CommandGoes
<1>20. ASSUME StopWait(c) PROVE CommandGoes(c)
  <2>1. UNCHANGED <<fsdb, reg, dir, sock, left, crashes>> /\ cl[c].pc = "stopWait"
    BY <1>20 DEF StopWait
  <2>2. DaemonsGo /\ lock' \subseteq Clients \cup Pids
    BY <1>20, SignalGoes DEF StopWait, DaemonsGo, TInv, FilesTyped
  <2>3. FilesGo
    BY <2>1, <2>2 DEF TInv, FilesTyped, FilesGo
  <2> QED
    BY <1>20, <2>1, <2>2, <2>3, GoesIf DEF CommandGoes, MayGo, StopWait
<1>21. ASSUME TermWait(c) PROVE CommandGoes(c)
  <2>1. UNCHANGED <<fsdb, reg, dir, sock, left, crashes>> /\ cl[c].pc = "termWait"
    BY <1>21 DEF TermWait
  <2>2. DaemonsGo /\ (\E k : Goes(c, k)) /\ lock' \subseteq Clients \cup Pids
    BY <1>21, <2>1, KilledGoes DEF TermWait
  <2> QED
    BY <2>1, <2>2 DEF CommandGoes, FilesGo, TInv, FilesTyped
<1>22. ASSUME KillWait(c) PROVE CommandGoes(c)
  <2>1. UNCHANGED <<fsdb, reg, dir, sock, left, crashes>> /\ cl[c].pc = "killWait"
    BY <1>22 DEF KillWait
  <2>2. DaemonsGo /\ (\E k : Goes(c, k)) /\ lock' \subseteq Clients \cup Pids
    BY <1>22, <2>1, KilledGoes DEF KillWait
  <2> QED
    BY <2>1, <2>2 DEF CommandGoes, FilesGo, TInv, FilesTyped
<1>23. ASSUME Stopped(c) PROVE CommandGoes(c)
  <2>1. UNCHANGED <<fsdb, reg, dir, left, crashes>> /\ cl[c].pc = "stopped" /\ sock' \in [Ids -> Pids \cup {NoPid}]
    BY <1>23, FileFacts DEF Stopped
  <2>2. CASE ~Restarts(c) /\ To(c, "rmLoad") /\ UNCHANGED <<dm, lock>>
    <3>1. MayGo(cl[c], "rmLoad") /\ DaemonsGo
      BY <1>1, <2>1, <2>2 DEF MayGo, ClientTyped, Through, DaemonsGo
    <3> QED
      BY <2>1, <2>2, <3>1, GoesIf DEF CommandGoes, FilesGo, TInv, FilesTyped
  <2>3. CASE Forkable # {} /\ Fork(c, CHOOSE p \in Forkable : TRUE, cl[c].id)
    <3>1. DaemonsGo /\ (\E k : Goes(c, k)) /\ lock' \subseteq Clients \cup Pids
      BY <2>1, <2>3, ForkGoes
    <3> QED
      BY <2>1, <3>1 DEF CommandGoes, FilesGo, TInv, FilesTyped
  <2>4. CASE Finish(c) /\ Unlock /\ UNCHANGED dm
    <3>1. DaemonsGo /\ FilesGo
      BY <2>1, <2>4 DEF DaemonsGo, FilesGo, Unlock, TInv, FilesTyped
    <3> QED
      BY <2>1, <2>4, <3>1, FinishGoes DEF CommandGoes
  <2> QED
    BY <1>23, <2>2, <2>3, <2>4 DEF Stopped
<1>24. ASSUME UpsertSave(c) PROVE CommandGoes(c)
  <2>1. DaemonsGo /\ UNCHANGED <<fsdb, left, crashes>> /\ cl[c].pc \notin {"idle", "waiting"}
    BY <1>24 DEF DaemonsGo, UpsertSave
  <2>2. FilesGo
    BY <1>24, <1>1, FileFacts DEF TInv, FilesTyped, FilesGo, ClientTyped, Unlock, UpsertSave
  <2>3. \E k : Goes(c, k)
    BY <1>24, <2>1, GoesIf, FinishGoes DEF MayGo, UpsertSave
  <2> QED
    BY <2>1, <2>2, <2>3 DEF CommandGoes
<1>25. ASSUME KillCheck(c) PROVE CommandGoes(c)
  <2>1. DaemonsGo /\ UNCHANGED <<fsdb, left, crashes>> /\ cl[c].pc \notin {"idle", "waiting"}
    BY <1>25, <1>1, DiagnosedGoes DEF KillCheck, ClientTyped
  <2>2. FilesGo
    BY <1>25 DEF TInv, FilesTyped, FilesGo, KillCheck
  <2>3. \E k : Goes(c, k)
    BY <1>25, <2>1, GoesIf, FinishGoes DEF MayGo, KillCheck
  <2> QED
    BY <2>1, <2>2, <2>3 DEF CommandGoes
<1>26. ASSUME KillTerminate(c) PROVE CommandGoes(c)
  <2>1. DaemonsGo /\ lock' \subseteq Clients \cup Pids /\ UNCHANGED <<fsdb, left, crashes>> /\ cl[c].pc = "killTerm"
    BY <1>26, SignalGoes DEF KillTerminate
  <2>2. FilesGo
    BY <1>26, <2>1 DEF TInv, FilesTyped, FilesGo, KillTerminate
  <2> QED
    BY <1>26, <2>1, <2>2, GoesIf DEF CommandGoes, MayGo, KillTerminate
<1>27. ASSUME ListLoad(c) PROVE CommandGoes(c)
  <2>1. DaemonsGo /\ UNCHANGED <<fsdb, left, crashes>> /\ cl[c].pc = "listed"
    BY <1>27 DEF DaemonsGo, ListLoad
  <2>2. FilesGo
    BY <1>27 DEF TInv, FilesTyped, FilesGo, ListLoad
  <2>3. PICK S : cl' = [cl EXCEPT ![c].pc = "each", ![c].todo = Without(reg, S)]
    BY <1>27 DEF ListLoad
  <2>4. PICK t \in Seq(BornRecord) : t = Without(reg, S)
    BY ListFacts
  <2> QED
    BY <2>1, <2>2, <2>3, <2>4, GoesIf DEF CommandGoes, MayGo
<1>28. ASSUME Each(c) PROVE CommandGoes(c)
  <2>1. DaemonsGo /\ UNCHANGED <<fsdb, reg, dir, sock, lock, dm, left, crashes>> /\ cl[c].pc = "each" /\ cl[c].todo # << >>
    BY <1>28 DEF DaemonsGo, Each
  <2>2. FilesGo
    BY <2>1 DEF TInv, FilesTyped, FilesGo
  <2>3. PICK r, t : r = Head(cl[c].todo) /\ t = Tail(cl[c].todo)
    OBVIOUS
  <2>4. r \in BornRecord /\ t \in Seq(BornRecord)
    BY <1>1, <2>1, <2>3 DEF ClientTyped
  <2>5. PICK e : e = [cl[c] EXCEPT !.id = r.id, !.todo = t]
    OBVIOUS
  <2>6. ClientTyped(e) /\ e.pc = "each" /\ e.cmd = cl[c].cmd /\ e.reply.kind # "data"
    BY <1>1, <2>1, <2>4, <2>5 DEF ClientTyped, BornRecord, Through
  <2>7. PICK k : /\ cl' = [cl EXCEPT ![c] = k]
                 /\ k \in {e, [e EXCEPT !.pc = "stop", !.rec = r], [e EXCEPT !.pc = "killCheck", !.rec = Find(reg, r.id)]}
                 /\ k.pc = "killCheck" => Known(r.id)
    <3>1. PICK k : k = CASE cl[c].cmd = "gc" -> [e EXCEPT !.pc = "stop", !.rec = r]
                         [] cl[c].cmd # "gc" /\ Known(r.id) -> [e EXCEPT !.pc = "killCheck", !.rec = Find(reg, r.id)]
                         [] OTHER -> e
      OBVIOUS
    <3>2. cl' = [cl EXCEPT ![c] = k]
      BY <1>28, <2>3, <2>5, <3>1 DEF Each
    <3>3. k \in {e, [e EXCEPT !.pc = "stop", !.rec = r], [e EXCEPT !.pc = "killCheck", !.rec = Find(reg, r.id)]}
      BY <3>1
    <3>4. k.pc = "killCheck" => Known(r.id)
      BY <2>6, <3>1 DEF ClientTyped
    <3> QED
      BY <3>2, <3>3, <3>4
  <2>8. ClientTyped(k) /\ k.pc \in {"each", "stop", "killCheck"} /\ k.reply.kind # "data"
    <3>1. CASE k = e
      BY <2>6, <3>1
    <3>2. CASE k = [e EXCEPT !.pc = "stop", !.rec = r]
      BY <2>4, <2>6, <3>2 DEF ClientTyped, Through
    <3>3. CASE k = [e EXCEPT !.pc = "killCheck", !.rec = Find(reg, r.id)]
      <4>1. k.pc = "killCheck"
        BY <2>6, <3>3 DEF ClientTyped
      <4>2. PICK f \in BornRecord : f = Find(reg, r.id)
        BY <2>7, <4>1, ListFacts
      <4> QED
        BY <2>6, <3>3, <4>2 DEF ClientTyped, Through
    <3> QED
      BY <2>7, <3>1, <3>2, <3>3
  <2>9. ClientTyped(k)'
    BY <2>1, <2>8, DaemonsGoFacts DEF TInv
  <2> QED
    BY <2>1, <2>2, <2>7, <2>8, <2>9 DEF CommandGoes, Goes
<1>29. ASSUME AllStopped(c) PROVE CommandGoes(c)
  <2>1. DaemonsGo /\ UNCHANGED <<fsdb, reg, dir, sock, lock, dm, left, crashes>> /\ cl[c].pc = "each"
    BY <1>29 DEF DaemonsGo, AllStopped
  <2>2. FilesGo
    BY <2>1 DEF TInv, FilesTyped, FilesGo
  <2>3. CASE cl[c].cmd # "gc"
    <3>1. To(c, "clear")
      BY <1>29, <2>3 DEF AllStopped, To, Shapes
    <3> QED
      BY <2>1, <2>2, <3>1, GoesIf DEF CommandGoes, MayGo
  <2>4. CASE cl[c].cmd = "gc"
    <3>1. PICK e : e = IdleAfter("list", cl[c].id)
      OBVIOUS
    <3>2. ClientTyped(e) /\ e.reply.kind = "none"
      BY <1>1, <3>1, IdleTyped DEF ClientTyped
    <3>3. PICK k : k = [e EXCEPT !.pc = "clean"]
      OBVIOUS
    <3>4. ClientTyped(k) /\ k.pc = "clean" /\ k.reply.kind = "none"
      BY <3>2, <3>3 DEF ClientTyped, Through
    <3>5. cl' = [cl EXCEPT ![c] = k]
      BY <1>29, <2>4, <3>1, <3>3 DEF AllStopped, IdleAfter
    <3>6. ClientTyped(k)'
      BY <2>1, <3>4, DaemonsGoFacts DEF TInv
    <3> QED
      BY <2>1, <2>2, <3>4, <3>5, <3>6 DEF CommandGoes, Goes
  <2> QED
    BY <2>3, <2>4
<1>30. ASSUME Clear(c) PROVE CommandGoes(c)
  <2>1. DaemonsGo /\ UNCHANGED <<fsdb, left, crashes>> /\ cl[c].pc \notin {"idle", "waiting"}
    BY <1>30 DEF DaemonsGo, Clear
  <2>2. FilesGo
    BY <1>30, FileFacts DEF TInv, FilesTyped, FilesGo, Clear
  <2>3. \E k : Goes(c, k)
    BY <1>30, <2>1, GoesIf, FinishGoes DEF MayGo, Clear
  <2> QED
    BY <2>1, <2>2, <2>3 DEF CommandGoes
<1>31. ASSUME ClearSave(c) PROVE CommandGoes(c)
  <2>1. DaemonsGo /\ UNCHANGED <<fsdb, left, crashes>> /\ cl[c].pc \notin {"idle", "waiting"}
    BY <1>31 DEF DaemonsGo, ClearSave
  <2>2. << >> \in Seq(BornRecord)
    OBVIOUS
  <2>3. FilesGo
    BY <1>31, <2>2, FileFacts DEF TInv, FilesTyped, FilesGo, ClearSave
  <2>4. \E k : Goes(c, k)
    BY <1>31, <2>1, GoesIf, FinishGoes DEF MayGo, ClearSave
  <2> QED
    BY <2>1, <2>3, <2>4 DEF CommandGoes
<1> QED
  BY <1>2, <1>3, <1>4, <1>5, <1>6, <1>7, <1>8, <1>9, <1>10, <1>11, <1>12, <1>13, <1>14, <1>15, <1>16, <1>17, <1>18, <1>19, <1>20, <1>21, <1>22, <1>23, <1>24, <1>25, <1>26, <1>27, <1>28, <1>29, <1>30, <1>31 DEF ClientStep

LEMMA CommandKeepsTypes ==
  ASSUME IInv, TInv, NEW c \in Clients, CommandGoes(c)
  PROVE  TInv'
BY ClientStaysTyped DEF CommandGoes, Goes, IInv

\* A client that leaves its daemons alone goes on to the record k.
LEMMA AskerKeepsTypes ==
  ASSUME IInv, TInv, NEW c \in Clients, NEW k, cl' = [cl EXCEPT ![c] = k], ClientTyped(k),
         dir' \in [Ids -> {"none", "bare", "configs"}], left' \in [Clients -> 0 .. OpsPerClient],
         UNCHANGED <<fsdb, reg, sock, lock, dm, crashes>>
  PROVE  TInv'
<1>1. DaemonsGo /\ Shapes
  BY DEF DaemonsGo, IInv
<1>2. (\A p \in Pids : DaemonTyped(dm[p])') /\ (\A j : ClientTyped(j) => ClientTyped(j)') /\ reg' \in Seq(BornRecord)'
  BY <1>1, DaemonsGoFacts DEF TInv, FilesTyped
<1>3. FilesTyped'
  BY <1>2 DEF TInv, FilesTyped
<1>4. \A e \in Clients : ClientTyped(cl[e])'
  <2> SUFFICES ASSUME NEW e \in Clients PROVE ClientTyped(cl[e])'
    OBVIOUS
  <2>1. PICK j : j = cl'[e]
    OBVIOUS
  <2>2. ClientTyped(j)
    BY <1>1, <2>1 DEF Shapes, TInv
  <2> QED
    BY <1>2, <2>1, <2>2 DEF ClientTyped
<1> QED
  BY <1>2, <1>3, <1>4 DEF TInv

\* A query that connects, and then waits for the daemon that listens.
Connects(c, s) ==
  /\ cl[c].pc = "connect" /\ s \in Pids /\ s = sock[cl[c].id]
  /\ cl' = [cl EXCEPT ![c].pc = "waiting", ![c].srv = s]
  /\ UNCHANGED <<fsdb, dm>>

LEMMA ConnectGoes ==
  ASSUME IInv, TInv, NEW c \in Clients, Connect(c)
  PROVE  CommandGoes(c) \/ (TInv' /\ \E s : Connects(c, s))
<1>1. Shapes /\ ClientTyped(cl[c]) /\ cl[c].id \in Ids /\ dir \in [Ids -> {"none", "bare", "configs"}]
  BY DEF IInv, TInv, ClientTyped, FilesTyped
<1>2. CASE Finish(c) /\ dir' \in [Ids -> {"none", "bare", "configs"}]
  <2>1. DaemonsGo /\ UNCHANGED <<fsdb, left, crashes>> /\ cl[c].pc = "connect"
    BY DEF DaemonsGo, Connect
  <2>2. FilesGo
    BY <1>2 DEF TInv, FilesTyped, FilesGo, Connect
  <2> QED
    BY <1>1, <1>2, <2>1, <2>2, FinishGoes DEF CommandGoes
<1>3. ASSUME NEW s, s = sock[cl[c].id], s # NoPid, UNCHANGED dir, cl' = [cl EXCEPT ![c].pc = "waiting", ![c].srv = s]
      PROVE  TInv' /\ Connects(c, s)
  <2>1. s \in Pids
    BY <1>1, <1>3 DEF TInv, FilesTyped
  <2>2. PICK k : k = [cl[c] EXCEPT !.pc = "waiting", !.srv = s]
    OBVIOUS
  <2>3. ClientTyped(k)
    BY <1>1, <2>1, <2>2 DEF ClientTyped, Through, Connect
  <2>4. cl' = [cl EXCEPT ![c] = k]
    BY <1>1, <1>3, <2>2 DEF Shapes
  <2>5. UNCHANGED <<fsdb, reg, dir, sock, lock, dm, left, crashes>> /\ cl[c].pc = "connect"
    BY <1>3 DEF Connect
  <2>6. TInv'
    BY <2>3, <2>4, <2>5, AskerKeepsTypes DEF TInv, FilesTyped
  <2> QED
    BY <1>3, <2>1, <2>5, <2>6 DEF Connects
<1>4. dir' \in [Ids -> {"none", "bare", "configs"}]
  BY <1>1 DEF Connect
<1> QED
  BY <1>2, <1>3, <1>4 DEF Connect

\* A client is back at its prompt, without data.
Leaves(c) ==
  \E k : cl' = [cl EXCEPT ![c] = k] /\ k.pc = "idle" /\ k.reply.kind # "data"

LEMMA HangupGoes ==
  ASSUME IInv, TInv, NEW c \in Clients, Hangup(c)
  PROVE  TInv' /\ Leaves(c)
<1>1. PICK e : e = IdleAfter("query", cl[c].id)
  OBVIOUS
<1>2. ClientTyped(e) /\ e.pc = "idle" /\ e.reply.kind = "none"
  BY <1>1, IdleTyped DEF TInv, ClientTyped
<1>3. PICK k : k = [e EXCEPT !.reply.kind = "eof"]
  OBVIOUS
<1>4. ClientTyped(k) /\ k.pc = "idle" /\ k.reply.kind = "eof"
  BY <1>2, <1>3 DEF ClientTyped, Through
<1>5. cl' = [cl EXCEPT ![c] = k]
  BY <1>1, <1>3 DEF Hangup, IdleAfter
<1>6. UNCHANGED <<fsdb, reg, dir, sock, lock, dm, left, crashes>>
  BY DEF Hangup
<1>7. TInv'
  BY <1>4, <1>5, <1>6, AskerKeepsTypes DEF TInv, FilesTyped
<1> QED
  BY <1>4, <1>5, <1>7 DEF Leaves

LEMMA BeginGoes ==
  ASSUME IInv, TInv, NEW c \in Clients, Begin(c)
  PROVE  TInv' /\ \E k : /\ cl' = [cl EXCEPT ![c] = k]
                         /\ k.pc \notin {"waiting"} /\ k.reply.kind # "data"
<1>1. PICK m \in Commands, i \in Ids : \E l, r :
        /\ cl' = [cl EXCEPT ![c] = [Idle EXCEPT !.cmd = m, !.id = i, !.pc = l, !.rec = r]]
        /\ l \in {"idle", First(m)} /\ r \in {NoRecord} \cup (IF Known(i) THEN {Find(reg, i)} ELSE {})
  <2>1. PICK m \in Commands, i \in Ids : \E refused \in BOOLEAN :
          cl' = [cl EXCEPT ![c] = [Idle EXCEPT !.cmd = m, !.id = i, !.pc = IF refused THEN "idle" ELSE First(m),
                                               !.rec = IF Known(i) /\ m # "open" THEN Find(reg, i) ELSE NoRecord]]
    BY DEF Begin
  <2> QED
    BY <2>1
<1>2. PICK l, r :
        /\ cl' = [cl EXCEPT ![c] = [Idle EXCEPT !.cmd = m, !.id = i, !.pc = l, !.rec = r]]
        /\ l \in {"idle", First(m)} /\ r \in {NoRecord} \cup (IF Known(i) THEN {Find(reg, i)} ELSE {})
  BY <1>1
<1>3. l \in {"idle", "lockOpen", "ensure", "killCheck", "clean"}
  BY <1>2, LifecycleAssumption DEF First, AllCommands
<1>4. r \in BornRecord \cup {NoRecord}
  BY <1>2, ListFacts
<1>5. PICK e : e = IdleAfter(m, i)
  OBVIOUS
<1>6. ClientTyped(e) /\ e.reply.kind = "none"
  BY <1>5, IdleTyped
<1>7. PICK k : k = [e EXCEPT !.pc = l, !.rec = r]
  OBVIOUS
<1>8. ClientTyped(k) /\ k.pc = l /\ k.reply.kind = "none"
  BY <1>3, <1>4, <1>6, <1>7 DEF ClientTyped, Through
<1>9. cl' = [cl EXCEPT ![c] = k]
  BY <1>2, <1>5, <1>7 DEF IdleAfter
<1>10. left' \in [Clients -> 0 .. OpsPerClient]
  BY LifecycleAssumption DEF Begin, TInv, FilesTyped
<1>11. UNCHANGED <<fsdb, reg, dir, sock, lock, dm, crashes>>
  BY DEF Begin
<1>12. TInv'
  BY <1>8, <1>9, <1>10, <1>11, AskerKeepsTypes DEF TInv, FilesTyped
<1> QED
  BY <1>3, <1>8, <1>9, <1>12

\* ^C may change several daemons, but none is born or dies.
LEMMA InterruptGoes ==
  ASSUME IInv, TInv, NEW c \in Clients, Interrupt(c)
  PROVE  TInv' /\ Leaves(c)
<1>1. UNCHANGED <<fsdb, reg, dir, sock, left>>
  BY DEF Interrupt
<1>2. PICK k : k = IdleAfter(cl[c].cmd, cl[c].id)
  OBVIOUS
<1>3. ClientTyped(k) /\ k.pc = "idle" /\ k.reply.kind = "none"
  BY <1>2, IdleTyped DEF TInv, ClientTyped
<1>4. cl' = [cl EXCEPT ![c] = k]
  BY <1>2 DEF Interrupt, Finish, IdleAfter
<1>5. ASSUME NEW p \in Pids PROVE DaemonTyped(dm'[p]) /\ dm'[p].pc = dm[p].pc
  <2>1. DaemonTyped(dm[p])
    BY DEF TInv
  <2>2. PICK d : d = dm'[p]
    OBVIOUS
  <2>3. d \in {dm[p], [dm[p] EXCEPT !.client = NoClient], [dm[p] EXCEPT !.gone = @ \cup {"query"}]}
    BY <2>2 DEF Interrupt
  <2>4. DaemonTyped(d) /\ d.pc = dm[p].pc
    BY <2>1, <2>3 DEF DaemonTyped
  <2> QED
    BY <2>2, <2>4
<1>6. Born' = Born /\ \A p \in Born : ~Alive(p) => ~Alive(p)'
  BY <1>5 DEF Born, Alive
<1>7. /\ \A d : DaemonTyped(d) => DaemonTyped(d)'
      /\ \A j : ClientTyped(j) => ClientTyped(j)'
      /\ \A s : s \in Seq(BornRecord) => s \in Seq(BornRecord)'
  BY <1>1, <1>6, BornStay DEF IInv
<1>8. FilesTyped'
  <2>1. crashes' \in 0 .. MaxCrashes /\ lock' \subseteq Clients \cup Pids
    BY LifecycleAssumption DEF Interrupt, TInv, FilesTyped
  <2> QED
    BY <1>1, <1>7, <2>1 DEF TInv, FilesTyped, Version
<1>9. \A p \in Pids : DaemonTyped(dm[p])'
  <2> SUFFICES ASSUME NEW p \in Pids PROVE DaemonTyped(dm[p])'
    OBVIOUS
  <2>1. PICK d : d = dm'[p]
    OBVIOUS
  <2> QED
    BY <1>5, <1>7, <2>1 DEF DaemonTyped
<1>10. \A e \in Clients : ClientTyped(cl[e])'
  <2> SUFFICES ASSUME NEW e \in Clients PROVE ClientTyped(cl[e])'
    OBVIOUS
  <2>1. PICK j : j = cl'[e]
    OBVIOUS
  <2>2. ClientTyped(j)
    BY <1>3, <1>4, <2>1 DEF IInv, Shapes, TInv
  <2> QED
    BY <1>7, <2>1, <2>2 DEF ClientTyped
<1>11. TInv'
  BY <1>8, <1>9, <1>10 DEF TInv
<1> QED
  BY <1>3, <1>4, <1>11 DEF Leaves

(***************************************************************************)
(* A daemon's step.                                                        *)
(***************************************************************************)
LEMMA DaemonKeepsTypes ==
  ASSUME IInv, TInv, NEW p \in Pids, NEW d, DaemonTo(p, d), DaemonAges(p, d), UNCHANGED <<fsdb, left>>,
         reg' \in Seq(BornRecord), dir' \in [Ids -> {"none", "bare", "configs"}],
         sock' \in [Ids -> Pids \cup {NoPid}], crashes' \in 0 .. MaxCrashes,
         \A e \in Clients : ClientTyped(cl'[e])
  PROVE  TInv'
<1>1. DaemonsAge /\ Shapes
  BY DEF DaemonTo, DaemonsAge, IInv
<1>2. /\ \A q \in Pids : DaemonTyped(dm[q])'
      /\ \A k : ClientTyped(k) => ClientTyped(k)'
      /\ \A s : s \in Seq(BornRecord) => s \in Seq(BornRecord)'
  BY <1>1, DaemonsAgeFacts DEF TInv
<1>3. FilesTyped'
  BY <1>2 DEF TInv, FilesTyped, DaemonTo, Version
<1>4. \A e \in Clients : ClientTyped(cl[e])'
  <2> SUFFICES ASSUME NEW e \in Clients PROVE ClientTyped(cl[e])'
    OBVIOUS
  <2>1. PICK j : j = cl'[e]
    OBVIOUS
  <2> QED
    BY <1>2, <2>1 DEF ClientTyped
<1> QED
  BY <1>2, <1>3, <1>4 DEF TInv

\* The daemon p serves nobody new, and no client moves.
DaemonActs(p) == (\E d : DaemonTo(p, d) /\ DaemonGoes(p, d)) /\ UNCHANGED <<fsdb, cl>>

\* It checked the request of c, or of somebody who is gone, and takes it up.
TakesUp(p, c) ==
  /\ dm[p].pc = "serving" /\ dm[p].fp = fsdb /\ UNCHANGED <<fsdb, cl>>
  /\ c # NoClient => c \in Clients /\ cl[c].pc = "waiting" /\ cl[c].srv = p
  /\ \E d : /\ dm' = [dm EXCEPT ![p] = d]
            /\ d.pc \in Busy /\ d.client = c /\ d.data = dm[p].data

\* It answers its client c.
Answers(p, c) ==
  /\ dm[p].pc = "answering" /\ dm[p].client = c /\ c \in Clients /\ UNCHANGED fsdb
  /\ \E d : dm' = [dm EXCEPT ![p] = d] /\ d.pc \notin Busy
  /\ \E k : cl' = [cl EXCEPT ![c] = k] /\ k.reply.kind = "data" /\ k.reply.data = dm[p].data /\ k.pc = "idle"

DaemonDoes(p) ==
  \/ DaemonActs(p)
  \/ \E c : TakesUp(p, c)
  \/ \E c : Answers(p, c)
  \/ \E c \in Clients : Leaves(c) /\ cl[c].pc = "waiting" /\ dm[p].pc = "serving" /\ cl[c].srv = p /\ UNCHANGED <<fsdb, dm>>

LEMMA ActsKeepsTypes ==
  ASSUME IInv, TInv, NEW p \in Pids, NEW d, DaemonTo(p, d), DaemonGoes(p, d), UNCHANGED <<fsdb, left, cl>>,
         reg' \in Seq(BornRecord), dir' \in [Ids -> {"none", "bare", "configs"}],
         sock' \in [Ids -> Pids \cup {NoPid}], crashes' \in 0 .. MaxCrashes
  PROVE  TInv' /\ DaemonActs(p)
BY DaemonKeepsTypes DEF DaemonGoes, DaemonActs, TInv

\* What a client is after an answer r of session i.
Answered(i, r) == [Idle EXCEPT !.cmd = "query", !.id = i, !.reply = r]

LEMMA AnsweredGoes ==
  ASSUME TInv, NEW i \in Ids, NEW r, r \in [kind : {"data", "changed"}, data : Version, asof : Version],
         NEW k, k = Answered(i, r)
  PROVE  ClientTyped(k) /\ k.pc = "idle" /\ k.reply = r
<1>1. PICK e : e = IdleAfter("query", i)
  OBVIOUS
<1>2. k = [e EXCEPT !.reply = r]
  BY <1>1 DEF IdleAfter, Idle, Answered
<1>3. ClientTyped(e) /\ e.pc = "idle"
  BY <1>1, IdleTyped
<1>4. k \in [pc : {e.pc}, cmd : {e.cmd}, id : Ids, rec : BornRecord \cup {NoRecord},
            new : Born \cup {NoPid}, srv : Pids \cup {NoPid},
            snap : Seq(BornRecord), todo : Seq(BornRecord), reply : {r}]
  BY <1>2, <1>3 DEF ClientTyped
<1>5. k.cmd = e.cmd /\ k.pc = "idle" /\ k.reply = r
  BY <1>2, <1>4, <1>3
<1> QED
  BY <1>4, <1>5, <1>3 DEF ClientTyped, Through

LEMMA DaemonStepGoes ==
  ASSUME IInv, TInv, NEW p \in Pids, DaemonStep(p) \/ CrashDaemon(p)
  PROVE  TInv' /\ DaemonDoes(p)
<1>1. /\ DaemonTyped(dm[p]) /\ DaemonOk(dm[p]) /\ dm[p].id \in Ids
      /\ fsdb \in Version /\ reg \in Seq(BornRecord) /\ dir \in [Ids -> {"none", "bare", "configs"}]
      /\ sock \in [Ids -> Pids \cup {NoPid}] /\ crashes \in 0 .. MaxCrashes
  BY DEF IInv, Shapes, TInv, FilesTyped, DaemonTyped
<1>2. PICK o : o = dm[p]
  OBVIOUS
<1>3. DaemonTyped(o)
  BY <1>1, <1>2
<1> DEFINE Same == UNCHANGED <<fsdb, reg, dir, sock, cl, left, crashes>>
<1>4. ASSUME NEW d, DaemonTo(p, d), DaemonGoes(p, d), Same PROVE TInv' /\ DaemonDoes(p)
  BY <1>1, <1>4, ActsKeepsTypes DEF DaemonDoes
<1>5. ASSUME DaemonTo(p, Dead), Same PROVE TInv' /\ DaemonDoes(p)
  <2>1. PICK d : d = Dead
    OBVIOUS
  <2> QED
    BY <1>4, <1>5, <2>1, NewDaemonGoes
<1> USE DEF Running, Starting, Listening, Busy, Ending
<1>6. ASSUME StatFsdb(p) PROVE TInv' /\ DaemonDoes(p)
  <2>1. PICK d : d = [o EXCEPT !.pc = "stated", !.fp = fsdb]
    OBVIOUS
  <2>2. DaemonTo(p, d) /\ Same /\ o.pc = "forked"
    BY <1>2, <1>6, <2>1 DEF StatFsdb, Others
  <2>3. DaemonGoes(p, d)
    BY <1>1, <1>2, <1>3, <2>1, <2>2 DEF DaemonGoes, DaemonAges, DaemonTyped
  <2> QED
    BY <1>4, <2>2, <2>3
<1>7. ASSUME OpenFsdb(p) PROVE TInv' /\ DaemonDoes(p)
  <2>1. PICK d : d = [o EXCEPT !.pc = "opened", !.data = fsdb]
    OBVIOUS
  <2>2. Same /\ o.pc = "stated" /\ (DaemonTo(p, d) \/ DaemonTo(p, Dead))
    BY <1>2, <1>7, <2>1 DEF OpenFsdb, Others
  <2>3. DaemonGoes(p, d)
    BY <1>1, <1>2, <1>3, <2>1, <2>2 DEF DaemonGoes, DaemonAges, DaemonTyped
  <2> QED
    BY <1>4, <1>5, <2>2, <2>3
<1>8. ASSUME Bind(p) PROVE TInv' /\ DaemonDoes(p)
  <2>1. PICK d : d = [o EXCEPT !.pc = "serving"]
    OBVIOUS
  <2>2. o.pc = "opened" /\ UNCHANGED <<fsdb, reg, dir, cl, left, crashes>>
    BY <1>2, <1>8 DEF Bind
  <2>3. CASE DaemonTo(p, Dead) /\ UNCHANGED sock
    BY <1>5, <2>2, <2>3
  <2>4. CASE DaemonTo(p, d) /\ sock' = [sock EXCEPT ![dm[p].id] = p]
    <3>1. DaemonGoes(p, d)
      BY <1>2, <1>3, <2>1, <2>2 DEF DaemonGoes, DaemonAges, DaemonTyped
    <3>2. sock' \in [Ids -> Pids \cup {NoPid}]
      BY <1>1, <2>4
    <3> QED
      BY <1>1, <2>2, <2>4, <3>1, <3>2, ActsKeepsTypes DEF DaemonDoes
  <2> QED
    BY <1>2, <1>8, <2>1, <2>3, <2>4 DEF Bind
<1>9. ASSUME AnswerGonePing(p) PROVE TInv' /\ DaemonDoes(p)
  BY <1>5, <1>9 DEF AnswerGonePing, Others
<1>10. ASSUME TouchLoad(p) PROVE TInv' /\ DaemonDoes(p)
  <2>1. o.pc = "touching" /\ Same
    BY <1>2, <1>10 DEF TouchLoad, Others
  <2>2. o.snap[1] \in BornRecord
    BY <1>3, <2>1 DEF DaemonTyped
  <2>3. PICK s \in Seq(BornRecord) : s = Upserted(reg, o.snap[1])
    BY <2>2, ListFacts
  <2>4. PICK d : d = [o EXCEPT !.pc = "touched", !.snap = s]
    OBVIOUS
  <2>5. DaemonGoes(p, d)
    BY <1>2, <1>3, <2>1, <2>3, <2>4 DEF DaemonGoes, DaemonAges, DaemonTyped
  <2>6. DaemonTo(p, d)
    BY <1>2, <1>10, <2>3, <2>4 DEF TouchLoad
  <2> QED
    BY <1>4, <2>1, <2>5, <2>6
<1>11. ASSUME TouchSave(p) PROVE TInv' /\ DaemonDoes(p)
  <2>1. PICK d : d = [o EXCEPT !.pc = "answering", !.snap = << >>]
    OBVIOUS
  <2>2. o.pc = "touched" /\ UNCHANGED <<fsdb, cl, left, crashes>> /\ DaemonTo(p, d) /\ Save(o.snap)
    BY <1>2, <1>11, <2>1 DEF TouchSave
  <2>3. << >> \in Seq(BornRecord)
    OBVIOUS
  <2>4. DaemonGoes(p, d)
    BY <1>2, <1>3, <2>1, <2>2, <2>3 DEF DaemonGoes, DaemonAges, DaemonTyped
  <2>5. reg' \in Seq(BornRecord) /\ dir' \in [Ids -> {"none", "bare", "configs"}] /\ sock' \in [Ids -> Pids \cup {NoPid}]
    BY <1>3, <2>2, FileFacts DEF DaemonTyped
  <2> QED
    BY <1>1, <2>2, <2>4, <2>5, ActsKeepsTypes DEF DaemonDoes
<1>12. ASSUME StopServing(p) PROVE TInv' /\ DaemonDoes(p)
  <2>1. PICK d : d = [o EXCEPT !.pc = "exiting", !.quit = "no", !.gone = {}]
    OBVIOUS
  <2>2. Same /\ o.pc = "serving" /\ (DaemonTo(p, d) \/ DaemonTo(p, Dead))
    BY <1>2, <1>12, <2>1 DEF StopServing, Others
  <2>3. DaemonGoes(p, d)
    BY <1>1, <1>2, <1>3, <2>1, <2>2 DEF DaemonGoes, DaemonAges, DaemonTyped
  <2> QED
    BY <1>4, <1>5, <2>2, <2>3
<1>13. ASSUME UnlinkSocket(p) PROVE TInv' /\ DaemonDoes(p)
  <2>1. PICK d : d = [o EXCEPT !.pc = "removing"]
    OBVIOUS
  <2>2. o.pc = "exiting" /\ UNCHANGED <<fsdb, reg, dir, cl, left, crashes>> /\ DaemonTo(p, d)
    BY <1>2, <1>13, <2>1 DEF UnlinkSocket
  <2>3. DaemonGoes(p, d)
    BY <1>2, <1>3, <2>1, <2>2 DEF DaemonGoes, DaemonAges, DaemonTyped
  <2>4. sock' \in [Ids -> Pids \cup {NoPid}]
    BY <1>1, <1>13 DEF UnlinkSocket
  <2> QED
    BY <1>1, <2>2, <2>3, <2>4, ActsKeepsTypes DEF DaemonDoes
<1>14. ASSUME RemovingLoad(p) PROVE TInv' /\ DaemonDoes(p)
  <2>1. PICK s \in Seq(BornRecord) : s = Without(reg, {o.id})
    BY ListFacts
  <2>2. PICK d : d = [o EXCEPT !.pc = "saving", !.snap = s]
    OBVIOUS
  <2>3. Same /\ o.pc = "removing" /\ (DaemonTo(p, d) \/ DaemonTo(p, Dead))
    BY <1>2, <1>14, <2>1, <2>2 DEF RemovingLoad, Others
  <2>4. DaemonGoes(p, d)
    BY <1>2, <1>3, <2>1, <2>2, <2>3 DEF DaemonGoes, DaemonAges, DaemonTyped
  <2> QED
    BY <1>4, <1>5, <2>3, <2>4
<1>15. ASSUME RemovingSave(p) PROVE TInv' /\ DaemonDoes(p)
  <2>1. PICK d : d = Dead
    OBVIOUS
  <2>2. DaemonGoes(p, d) /\ DaemonTo(p, d) /\ UNCHANGED <<fsdb, cl, left, crashes>> /\ SaveAndRemoveDir(o.snap, o.id)
    BY <1>2, <1>15, <2>1, NewDaemonGoes DEF RemovingSave
  <2>3. reg' \in Seq(BornRecord) /\ dir' \in [Ids -> {"none", "bare", "configs"}] /\ sock' \in [Ids -> Pids \cup {NoPid}]
    BY <1>3, <2>2, FileFacts DEF DaemonTyped
  <2> QED
    BY <1>1, <2>2, <2>3, ActsKeepsTypes DEF DaemonDoes
<1>16. ASSUME CrashDaemon(p) PROVE TInv' /\ DaemonDoes(p)
  <2>1. PICK d : d = Dead
    OBVIOUS
  <2>2. DaemonGoes(p, d) /\ DaemonTo(p, d) /\ UNCHANGED <<fsdb, reg, dir, sock, cl, left>> /\ crashes > 0 /\ crashes' = crashes - 1
    BY <1>16, <2>1, NewDaemonGoes DEF CrashDaemon
  <2>3. crashes' \in 0 .. MaxCrashes
    BY <1>1, <2>2, LifecycleAssumption
  <2> QED
    BY <1>1, <2>2, <2>3, ActsKeepsTypes DEF DaemonDoes
<1>17. ASSUME Refuse(p) PROVE TInv' /\ DaemonDoes(p)
  <2>1. PICK c \in Requests(p) :
          IF c = NoClient
          THEN DaemonTo(p, Dead) /\ UNCHANGED cl
          ELSE /\ cl' = [cl EXCEPT ![c] = [Idle EXCEPT !.cmd = "query", !.id = o.id, !.reply.kind = "changed"]]
               /\ UNCHANGED <<dm, lock>>
    BY <1>2, <1>17 DEF Refuse
  <2>2. UNCHANGED <<fsdb, reg, dir, sock, left, crashes>> /\ o.pc = "serving"
    BY <1>2, <1>17 DEF Refuse
  <2>3. CASE c = NoClient
    BY <1>5, <2>1, <2>2, <2>3
  <2>4. CASE c # NoClient
    <3>1. c \in Clients /\ cl[c].pc = "waiting" /\ cl[c].srv = p
      BY <2>1, <2>4 DEF Requests
    <3>2. PICK e : e = IdleAfter("query", o.id)
      OBVIOUS
    <3>3. ClientTyped(e) /\ e.pc = "idle" /\ e.reply.kind = "none"
      BY <1>1, <1>2, <3>2, IdleTyped
    <3>4. PICK k : k = [e EXCEPT !.reply.kind = "changed"]
      OBVIOUS
    <3>5. ClientTyped(k) /\ k.pc = "idle" /\ k.reply.kind = "changed"
      BY <3>3, <3>4 DEF ClientTyped, Through
    <3>6. cl' = [cl EXCEPT ![c] = k] /\ UNCHANGED <<dm, lock>>
      BY <2>1, <2>4, <3>2, <3>4 DEF IdleAfter
    <3>7. TInv'
      BY <2>2, <3>1, <3>5, <3>6, AskerKeepsTypes DEF TInv, FilesTyped
    <3>8. Leaves(c)
      BY <3>5, <3>6 DEF Leaves
    <3> QED
      BY <1>2, <2>2, <3>1, <3>6, <3>7, <3>8 DEF DaemonDoes
  <2> QED
    BY <2>3, <2>4
<1>18. ASSUME Accept(p) PROVE TInv' /\ DaemonDoes(p)
  <2>0. PICK c \in Requests(p), l \in {"touching", "answering"} : \E s, g :
          /\ DaemonTo(p, [o EXCEPT !.pc = l, !.client = c, !.asof = fsdb, !.snap = s, !.gone = g])
          /\ (l = "touching" /\ Known(o.id) /\ s = <<Find(reg, o.id)>>) \/ (l = "answering" /\ s = << >>)
          /\ g \in {o.gone, o.gone \ {"query"}}
    <3>1. PICK c \in Requests(p) :
            DaemonTo(p, [o EXCEPT !.pc = IF Known(o.id) THEN "touching" ELSE "answering",
                                  !.client = c, !.asof = fsdb,
                                  !.snap = IF Known(o.id) THEN <<Find(reg, o.id)>> ELSE << >>,
                                  !.gone = IF c = NoClient THEN o.gone \ {"query"} ELSE o.gone])
      BY <1>2, <1>18 DEF Accept
    <3> QED
      BY <3>1
  <2>1. PICK s, g :
          /\ DaemonTo(p, [o EXCEPT !.pc = l, !.client = c, !.asof = fsdb, !.snap = s, !.gone = g])
          /\ (l = "touching" /\ Known(o.id) /\ s = <<Find(reg, o.id)>>) \/ (l = "answering" /\ s = << >>)
          /\ g \in {o.gone, o.gone \ {"query"}}
    BY <2>0
  <2>2. Same /\ o.pc = "serving" /\ o.fp = fsdb
    BY <1>2, <1>18 DEF Accept, FsdbChanged, Others
  <2>3. s \in Seq(BornRecord) /\ (l = "touching" => s # << >>)
    <3>1. << >> \in Seq(BornRecord)
      OBVIOUS
    <3>2. \A r \in BornRecord : <<r>> \in Seq(BornRecord) /\ <<r>> # << >>
      OBVIOUS
    <3> QED
      BY <2>1, <3>1, <3>2, ListFacts
  <2>4. PICK d : d = [o EXCEPT !.pc = l, !.client = c, !.asof = fsdb, !.snap = s, !.gone = g]
    OBVIOUS
  <2>5. DaemonTo(p, d) /\ DaemonAges(p, d) /\ d.pc \in Busy /\ d.client = c /\ d.data = o.data
    BY <1>1, <1>2, <1>3, <2>1, <2>2, <2>3, <2>4 DEF DaemonAges, DaemonTyped
  <2>6. TInv'
    BY <1>1, <2>2, <2>5, DaemonKeepsTypes DEF TInv
  <2>7. c # NoClient => c \in Clients /\ cl[c].pc = "waiting" /\ cl[c].srv = p
    BY <2>1 DEF Requests
  <2>8. TakesUp(p, c)
    BY <1>2, <2>2, <2>5, <2>7 DEF TakesUp, DaemonTo
  <2> QED
    BY <2>6, <2>8 DEF DaemonDoes
<1>19. ASSUME Answer(p) PROVE TInv' /\ DaemonDoes(p)
  <2>1. PICK d, r : /\ d = [o EXCEPT !.pc = "serving", !.client = NoClient, !.asof = 0, !.snap = << >>]
                    /\ r = [kind |-> "data", data |-> o.data, asof |-> o.asof]
    OBVIOUS
  <2>2. Reply(p, d, r) /\ o.pc = "answering" /\ UNCHANGED <<fsdb, reg, dir, sock, left, crashes>>
    BY <1>2, <1>19, <2>1 DEF Answer
  <2>3. CASE o.client = NoClient
    BY <1>2, <1>5, <2>2, <2>3 DEF Reply
  <2>4. CASE o.client # NoClient
    <3>1. PICK c : c = o.client
      OBVIOUS
    <3>2. c \in Clients
      BY <1>1, <1>2, <2>4, <3>1 DEF DaemonOk
    <3>3. 0 \in Version /\ << >> \in Seq(BornRecord)
      BY LifecycleAssumption DEF Version
    <3>4. DaemonAges(p, d) /\ d.pc \notin Busy
      BY <1>2, <1>3, <2>1, <2>2, <3>3 DEF DaemonAges, DaemonTyped
    <3>5. r \in [kind : {"data", "changed"}, data : Version, asof : Version] /\ r.kind = "data" /\ r.data = o.data
      BY <1>3, <2>1 DEF DaemonTyped
    <3>6. PICK k : k = Answered(o.id, r)
      OBVIOUS
    <3>7. ClientTyped(k) /\ k.pc = "idle" /\ k.reply = r
      BY <1>1, <1>2, <3>5, <3>6, AnsweredGoes
    <3>8. DaemonTo(p, d) /\ cl' = [cl EXCEPT ![c] = k]
      BY <1>2, <2>2, <2>4, <3>1, <3>6 DEF Reply, Answered
    <3>9. \A e \in Clients : ClientTyped(cl'[e])
      BY <3>7, <3>8 DEF IInv, Shapes, TInv
    <3>10. TInv'
      BY <1>1, <2>2, <3>4, <3>8, <3>9, DaemonKeepsTypes
    <3>11. Answers(p, c)
      BY <1>2, <2>2, <3>1, <3>2, <3>4, <3>5, <3>7, <3>8 DEF Answers, DaemonTo
    <3> QED
      BY <3>10, <3>11 DEF DaemonDoes
  <2> QED
    BY <2>3, <2>4
<1> QED
  BY <1>6, <1>7, <1>8, <1>9, <1>10, <1>11, <1>12, <1>13, <1>14, <1>15, <1>16, <1>17, <1>18, <1>19 DEF DaemonStep

(***************************************************************************)
(* TInv is an invariant.                                                   *)
(***************************************************************************)
LEMMA InitTInv == Init => TInv
<1> SUFFICES ASSUME Init PROVE TInv
  OBVIOUS
<1> USE LifecycleAssumption DEF Init
<1>1. << >> \in Seq(BornRecord) /\ 0 \in Version /\ AnyId \in Ids
  BY DEF Version, AnyId
<1>2. FilesTyped
  BY <1>1 DEF FilesTyped
<1>3. ASSUME NEW p \in Pids PROVE DaemonTyped(dm[p])
  <2>1. PICK d : d = Unborn
    OBVIOUS
  <2>2. DaemonTyped(d)
    BY <1>1, <2>1 DEF DaemonTyped, Unborn
  <2> QED
    BY <2>1, <2>2
<1>4. ASSUME NEW c \in Clients PROVE ClientTyped(cl[c])
  <2>1. PICK k : k = IdleAfter("list", AnyId)
    OBVIOUS
  <2>2. ClientTyped(k)
    BY <1>1, <2>1, IdleTyped
  <2>3. k = Idle
    BY <2>1 DEF IdleAfter, Idle
  <2> QED
    BY <2>2, <2>3
<1> QED
  BY <1>2, <1>3, <1>4 DEF TInv

LEMMA RewriteKeepsTypes ==
  ASSUME TInv, RewriteFsdb \/ UNCHANGED vars
  PROVE  TInv'
<1>1. Born' = Born /\ BornRecord' = BornRecord /\ UNCHANGED <<reg, dir, sock, lock, dm, cl, left, crashes>>
  BY DEF Born, BornRecord, Version, RewriteFsdb, vars
<1>2. FilesTyped'
  BY <1>1, LifecycleAssumption DEF TInv, FilesTyped, RewriteFsdb, vars, Version
<1>3. (\A p \in Pids : DaemonTyped(dm[p])') /\ (\A c \in Clients : ClientTyped(cl[c])')
  BY <1>1 DEF TInv, DaemonTyped, ClientTyped, Version, Alive, Through
<1> QED
  BY <1>2, <1>3 DEF TInv

LEMMA NextTInv == IInv /\ TInv /\ [Next]_vars => TInv'
<1> SUFFICES ASSUME IInv, TInv, [Next]_vars PROVE TInv'
  OBVIOUS
<1>1. ASSUME NEW c \in Clients, Begin(c) PROVE TInv'
  BY <1>1, BeginGoes
<1>2. ASSUME NEW c \in Clients, ClientStep(c) PROVE TInv'
  BY <1>2, CommandStepGoes, ConnectGoes, HangupGoes, CommandKeepsTypes
<1>6. ASSUME NEW c \in Clients, FileError(c) PROVE TInv'
  BY <1>6, FileErrorGoes, CommandKeepsTypes
<1>3. ASSUME NEW c \in Clients, Interrupt(c) PROVE TInv'
  BY <1>3, InterruptGoes
<1>4. ASSUME NEW p \in Pids, DaemonStep(p) \/ CrashDaemon(p) PROVE TInv'
  BY <1>4, DaemonStepGoes
<1>5. ASSUME RewriteFsdb \/ UNCHANGED vars PROVE TInv'
  BY <1>5, RewriteKeepsTypes
<1> QED
  BY <1>1, <1>2, <1>3, <1>4, <1>5, <1>6 DEF Next, Done

LEMMA TInvIsEnough == IInv /\ TInv => TypeOK /\ StoppedMeansDead
<1> SUFFICES ASSUME IInv, TInv PROVE TypeOK /\ StoppedMeansDead
  OBVIOUS
<1>1. BornRecord \subseteq Record
  BY DEF BornRecord, Born, Record
<1>2. Seq(BornRecord) \subseteq Seq(Record)
  BY <1>1
<1>3. dm \in [Pids -> [pc : Running \cup {"unborn", "dead"}, id : Ids, fp : Version, data : Version,
                      client : Clients \cup {NoClient}, asof : Version, quit : {"no", "asked", "late"},
                      gone : SUBSET {"ping", "query"}, snap : Seq(Record), handler : {"off", "on", "locked"}]]
  <2>1. ASSUME NEW p \in Pids
        PROVE  dm[p] \in [pc : Running \cup {"unborn", "dead"}, id : Ids, fp : Version, data : Version,
                      client : Clients \cup {NoClient}, asof : Version, quit : {"no", "asked", "late"},
                      gone : SUBSET {"ping", "query"}, snap : Seq(Record), handler : {"off", "on", "locked"}]
    <3>1. PICK d : d = dm[p]
      OBVIOUS
    <3>2. DaemonTyped(d) /\ DaemonOk(d)
      BY <3>1 DEF IInv, Shapes, TInv
    <3> QED
      BY <1>2, <3>1, <3>2 DEF DaemonTyped, DaemonOk
  <2> QED
    BY <2>1 DEF IInv, Shapes
<1>4. cl \in [Clients -> [pc : ClientPc, cmd : AllCommands, id : Ids, rec : Record \cup {NoRecord},
                         new : Pids \cup {NoPid}, srv : Pids \cup {NoPid}, snap : Seq(Record), todo : Seq(Record),
                         reply : [kind : {"none", "data", "changed", "eof"}, data : Version, asof : Version]]]
  <2>1. ASSUME NEW c \in Clients
        PROVE  cl[c] \in [pc : ClientPc, cmd : AllCommands, id : Ids, rec : Record \cup {NoRecord},
                         new : Pids \cup {NoPid}, srv : Pids \cup {NoPid}, snap : Seq(Record), todo : Seq(Record),
                         reply : [kind : {"none", "data", "changed", "eof"}, data : Version, asof : Version]]
    <3>1. PICK k : k = cl[c]
      OBVIOUS
    <3>2. ClientTyped(k) /\ ClientOk(k)
      BY <3>1 DEF IInv, Shapes, TInv
    <3>3. k.pc \in ClientPc /\ k.cmd \in AllCommands
      BY <3>2 DEF ClientPc, ClientOk
    <3>4. Born \subseteq Pids
      BY DEF Born
    <3> QED
      BY <1>1, <1>2, <3>1, <3>2, <3>3, <3>4 DEF ClientTyped
  <2> QED
    BY <2>1 DEF IInv, Shapes
<1>5. \A c \in Clients : cl[c].pc \in Path(cl[c].cmd)
  BY DEF IInv, Shapes, ClientOk
<1>6. StoppedMeansDead
  BY DEF StoppedMeansDead, TInv, ClientTyped, Through
<1>7. reg \in Seq(Record)
  BY <1>2 DEF TInv, FilesTyped
<1> QED
  BY <1>3, <1>4, <1>5, <1>6, <1>7 DEF TypeOK, TInv, FilesTyped

\* Every variable keeps its type, in every reachable state.
THEOREM TypesHold == Spec => []TypeOK
<1>1. Init => IInv /\ TInv
  BY InitIInv, InitTInv
<1>2. (IInv /\ TInv) /\ [Next]_vars => (IInv /\ TInv)'
  BY NextIInv, NextTInv
<1>3. IInv /\ TInv => TypeOK
  BY TInvIsEnough
<1> QED
  BY <1>1, <1>2, <1>3, PTL DEF Spec

\* When a restart, kill, kill all or gc has got past stop_process or
\* kill_session's own signals, the recorded process is gone, and stays gone until
\* the record is removed or replaced: SIGKILL was sent, or it was seen to be gone,
\* and no daemon that is forked meanwhile is that process.
THEOREM StoppedIsDead == Spec => []StoppedMeansDead
<1>1. Init => IInv /\ TInv
  BY InitIInv, InitTInv
<1>2. (IInv /\ TInv) /\ [Next]_vars => (IInv /\ TInv)'
  BY NextIInv, NextTInv
<1>3. IInv /\ TInv => StoppedMeansDead
  BY TInvIsEnough
<1> QED
  BY <1>1, <1>2, <1>3, PTL DEF Spec

(***************************************************************************)
(* What the readers of FreshReads see of a step.                           *)
(***************************************************************************)
Reads == [c \in Clients |-> ReadOf(c)]

Seen(v) == [state |-> "seen", value |-> v]
Told(v) == [state |-> "answered", value |-> v]

\* ReadOf by the client's record and the record of the daemon it is connected to.
InHand(c, d) == d.pc \in Busy /\ d.client = c
ReadBy(c, k, d) ==
  CASE k.reply.kind = "data" -> Told(k.reply.data)
    [] k.pc = "waiting" /\ InHand(c, d) -> Seen(d.data)
    [] k.pc = "waiting" /\ ~InHand(c, d) -> Fresh!Asked
    [] OTHER -> Fresh!Away

LEMMA ReadFacts ==
  ASSUME NEW c
  PROVE  /\ ReadOf(c) = ReadBy(c, cl[c], dm[cl[c].srv])
         /\ ReadOf(c)' = ReadBy(c, cl'[c], dm'[cl'[c].srv])
         /\ ReadOf(c) \in {Fresh!Asked, Fresh!Away} \/ \E v : ReadOf(c) \in {Told(v), Seen(v)}
<1>1. /\ ReadOf(c) = ReadBy(c, cl[c], dm[cl[c].srv])
      /\ ReadOf(c)' = ReadBy(c, cl'[c], dm'[cl'[c].srv])
  BY DEF ReadOf, ReadBy, InHand, Told, Seen, Fresh!Asked, Fresh!Away
<1>2. ASSUME NEW k, NEW d
      PROVE  ReadBy(c, k, d) \in {Fresh!Asked, Fresh!Away} \/ \E v : ReadBy(c, k, d) \in {Told(v), Seen(v)}
  BY DEF ReadBy
<1> QED
  BY <1>1, <1>2

LEMMA ReadByFacts ==
  ASSUME NEW c, NEW k, NEW d, k.reply.kind = "data" => k.pc = "idle"
  PROVE  /\ k.reply.kind = "data" => ReadBy(c, k, d) = Told(k.reply.data)
         /\ k.reply.kind # "data" /\ k.pc # "waiting" => ReadBy(c, k, d) = Fresh!Away
         /\ k.pc = "waiting" /\ InHand(c, d) => ReadBy(c, k, d) = Seen(d.data)
         /\ k.pc = "waiting" /\ ~InHand(c, d) => ReadBy(c, k, d) = Fresh!Asked
<1>1. ASSUME k.reply.kind = "data" PROVE ReadBy(c, k, d) = Told(k.reply.data)
  BY <1>1 DEF ReadBy
<1>2. ASSUME k.reply.kind # "data", k.pc # "waiting" PROVE ReadBy(c, k, d) = Fresh!Away
  BY <1>2 DEF ReadBy
<1>3. ASSUME k.pc = "waiting", InHand(c, d) PROVE ReadBy(c, k, d) = Seen(d.data)
  BY <1>3 DEF ReadBy
<1>4. ASSUME k.pc = "waiting", ~InHand(c, d) PROVE ReadBy(c, k, d) = Fresh!Asked
  BY <1>4 DEF ReadBy
<1> QED
  BY <1>1, <1>2, <1>3, <1>4

\* A step in which one reader moves is a step of FreshReads.
LEMMA OneReadMoves ==
  ASSUME NEW c \in Clients, UNCHANGED fsdb, \A e \in Clients \ {c} : ReadOf(e)' = ReadOf(e),
         \/ ReadOf(c)' = ReadOf(c)
         \/ ReadOf(c) = Fresh!Away /\ ReadOf(c)' = Fresh!Asked
         \/ ReadOf(c) = Fresh!Asked /\ ReadOf(c)' = Seen(fsdb)
         \/ \E v : ReadOf(c) = Seen(v) /\ ReadOf(c)' \in {Told(v), Fresh!Asked}
         \/ ReadOf(c)' = Fresh!Away
  PROVE  [Fresh!Next]_<<fsdb, Reads>>
<1>1. Reads' = [Reads EXCEPT ![c] = ReadOf(c)'] /\ \A e \in Clients : Reads[e] = ReadOf(e)
  BY DEF Reads
<1> DEFINE v == ReadOf(c)' u == ReadOf(c)
<1>2. CASE v = u
  <2>1. Reads' = Reads
    BY <1>1, <1>2 DEF Reads
  <2> QED
    BY <2>1
<1>3. CASE u = Fresh!Away /\ v = Fresh!Asked
  <2>1. Fresh!Ask(c)
    BY <1>1, <1>3 DEF Fresh!Ask, Fresh!Move, Fresh!Away, Reads
  <2> QED
    BY <2>1 DEF Fresh!Next
<1>4. CASE u = Fresh!Asked /\ v = Seen(fsdb)
  <2>1. Fresh!See(c)
    BY <1>1, <1>4 DEF Fresh!See, Fresh!Move, Fresh!Asked, Seen, Reads
  <2> QED
    BY <2>1 DEF Fresh!Next
<1>5. ASSUME NEW w, u = Seen(w), v = Told(w) PROVE [Fresh!Next]_<<fsdb, Reads>>
  <2>1. Fresh!Answer(c)
    <3>1. Reads[c].state = "seen" /\ Reads[c].value = w
      BY <1>1, <1>5 DEF Seen
    <3>2. Reads' = [Reads EXCEPT ![c] = Told(w)]
      BY <1>1, <1>5
    <3> QED
      BY <3>1, <3>2 DEF Fresh!Answer, Fresh!Move, Told, Reads
  <2> QED
    BY <2>1 DEF Fresh!Next
<1>6. ASSUME NEW w, u = Seen(w), v = Fresh!Asked PROVE [Fresh!Next]_<<fsdb, Reads>>
  <2>1. Fresh!Drop(c)
    BY <1>1, <1>6 DEF Fresh!Drop, Fresh!Move, Seen, Reads
  <2> QED
    BY <2>1 DEF Fresh!Next
<1>7. CASE v = Fresh!Away /\ u # Fresh!Away
  <2>1. u.state \in {"asked", "seen", "answered"}
    BY <1>7, ReadFacts DEF Fresh!Asked, Seen, Told
  <2>2. Fresh!Leave(c)
    BY <1>1, <1>7, <2>1 DEF Fresh!Leave, Fresh!Move, Reads
  <2> QED
    BY <2>2 DEF Fresh!Next
<1> QED
  BY <1>2, <1>3, <1>4, <1>5, <1>6, <1>7

\* A client that does not move reads on, unless its daemon does.
LEMMA ReadStays ==
  ASSUME TInv, NEW e \in Clients, cl'[e] = cl[e],
         cl[e].pc = "waiting" => /\ InHand(e, dm'[cl[e].srv]) <=> InHand(e, dm[cl[e].srv])
                                 /\ InHand(e, dm[cl[e].srv]) => dm'[cl[e].srv].data = dm[cl[e].srv].data
  PROVE  ReadOf(e)' = ReadOf(e)
<1>1. PICK k, a, b : k = cl[e] /\ a = dm[cl[e].srv] /\ b = dm'[cl[e].srv]
  OBVIOUS
<1>2. k.reply.kind = "data" => k.pc = "idle"
  BY <1>1 DEF TInv, ClientTyped
<1>3. k.pc = "waiting" => (InHand(e, a) <=> InHand(e, b)) /\ (InHand(e, a) => a.data = b.data)
  BY <1>1
<1>4. ReadBy(e, k, a) = ReadBy(e, k, b)
  BY <1>2, <1>3, ReadByFacts
<1> QED
  BY <1>1, <1>4, ReadFacts

\* Nobody reads before it asks, nor when it has left.
LEMMA AwayIf ==
  ASSUME NEW c
  PROVE  /\ cl[c].pc # "waiting" /\ cl[c].reply.kind # "data" => ReadOf(c) = Fresh!Away
         /\ cl'[c].pc # "waiting" /\ cl'[c].reply.kind # "data" => ReadOf(c)' = Fresh!Away
BY ReadFacts, ReadByFacts

\* The daemon of a client may drop its request, nothing else of it.
LEMMA DaemonsDrop ==
  ASSUME IInv, TInv, DaemonsGo, UNCHANGED fsdb,
         \A e \in Clients : cl'[e] = cl[e] \/ (ReadOf(e) = Fresh!Away /\ ReadOf(e)' = Fresh!Away)
  PROVE  [Fresh!Next]_<<fsdb, Reads>>
<1>1. CASE UNCHANGED dm
  <2>1. \A e \in Clients : ReadOf(e)' = ReadOf(e)
    BY <1>1, ReadStays
  <2>2. Reads' = Reads
    BY <2>1 DEF Reads
  <2> QED
    BY <2>2
<1>2. ASSUME NEW p \in Pids, NEW d, dm' = [dm EXCEPT ![p] = d], DaemonGoes(p, d)
      PROVE  [Fresh!Next]_<<fsdb, Reads>>
  <2>1. PICK o : o = dm[p]
    OBVIOUS
  <2>2. d.pc \in Busy => o.pc \in Busy /\ d.client = o.client /\ d.data = o.data
    BY <1>2, <2>1 DEF DaemonGoes
  <2>3. \A q \in Pids : dm'[q] = IF q = p THEN d ELSE dm[q]
    BY <1>2 DEF IInv, Shapes
  <2>4. \A e \in Clients : cl[e].pc = "waiting" => cl[e].srv \in Pids
    BY DEF TInv, ClientTyped
  <2>5. ASSUME NEW e \in Clients, e # o.client PROVE ReadOf(e)' = ReadOf(e)
    <3>1. ~InHand(e, o) /\ ~InHand(e, d)
      BY <2>2, <2>5 DEF InHand
    <3> QED
      BY <2>1, <2>3, <2>4, <3>1, ReadStays
  <2>6. CASE o.client \in Clients
    <3>1. PICK c \in Clients : c = o.client
      BY <2>6
    <3>2. CASE ReadOf(c)' = ReadOf(c)
      BY <2>5, <3>1, <3>2, OneReadMoves
    <3>3. CASE ReadOf(c)' # ReadOf(c)
      <4>1. cl'[c] = cl[c] /\ cl[c].pc = "waiting" /\ cl[c].srv = p
        <5>1. cl'[c] = cl[c]
          BY <3>3
        <5>2. cl[c].pc = "waiting"
          BY <3>3, <5>1, ReadStays
        <5> QED
          BY <2>3, <2>4, <3>3, <5>1, <5>2, ReadStays
      <4>2. PICK k : k = cl[c]
        OBVIOUS
      <4>3. k.pc = "waiting" /\ (k.reply.kind = "data" => k.pc = "idle")
        BY <4>1, <4>2 DEF TInv, ClientTyped
      <4>4. ReadOf(c) = ReadBy(c, k, o) /\ ReadOf(c)' = ReadBy(c, k, d)
        BY <2>1, <2>3, <4>1, <4>2, ReadFacts
      <4>5. InHand(c, d) => InHand(c, o) /\ d.data = o.data
        BY <2>2 DEF InHand
      <4>6. ReadOf(c) = Seen(o.data) /\ ReadOf(c)' = Fresh!Asked
        BY <3>3, <4>3, <4>4, <4>5, ReadByFacts
      <4> QED
        BY <2>5, <3>1, <4>6, OneReadMoves
    <3> QED
      BY <3>2, <3>3
  <2>7. CASE o.client \notin Clients
    <3>1. Reads' = Reads
      BY <2>5, <2>7 DEF Reads
    <3> QED
      BY <3>1
  <2> QED
    BY <2>6, <2>7
<1> QED
  BY <1>1, <1>2 DEF DaemonsGo

LEMMA CommandReads ==
  ASSUME IInv, TInv, NEW c \in Clients, CommandGoes(c)
  PROVE  [Fresh!Next]_<<fsdb, Reads>>
<1>1. PICK k : cl' = [cl EXCEPT ![c] = k] /\ cl[c].pc \notin {"idle", "waiting"} /\ k.pc # "waiting" /\ k.reply.kind # "data"
  BY DEF CommandGoes, Goes
<1>2. \A e \in Clients : cl'[e] = IF e = c THEN k ELSE cl[e]
  BY <1>1 DEF IInv, Shapes
<1>3. ReadOf(c) = Fresh!Away /\ ReadOf(c)' = Fresh!Away
  BY <1>1, <1>2, AwayIf DEF TInv, ClientTyped
<1> QED
  BY <1>2, <1>3, DaemonsDrop DEF CommandGoes, FilesGo

\* A client goes its way, and the daemons theirs, but not on anybody's request.
LEMMA OneClientReads ==
  ASSUME IInv, TInv, NEW c \in Clients, NEW k, cl' = [cl EXCEPT ![c] = k], UNCHANGED <<fsdb, dm>>
  PROVE  /\ k.pc # "waiting" /\ k.reply.kind # "data" => [Fresh!Next]_<<fsdb, Reads>>
         /\ Connects(c, k.srv) => [Fresh!Next]_<<fsdb, Reads>>
<1>1. \A e \in Clients : cl'[e] = IF e = c THEN k ELSE cl[e]
  BY DEF IInv, Shapes
<1>2. \A e \in Clients \ {c} : ReadOf(e)' = ReadOf(e)
  BY <1>1, ReadStays
<1>3. ASSUME k.pc # "waiting", k.reply.kind # "data" PROVE [Fresh!Next]_<<fsdb, Reads>>
  <2>1. ReadOf(c)' = Fresh!Away
    BY <1>1, <1>3, AwayIf
  <2> QED
    BY <1>2, <2>1, OneReadMoves
<1>4. ASSUME Connects(c, k.srv) PROVE [Fresh!Next]_<<fsdb, Reads>>
  <2>1. PICK j : j = cl[c]
    OBVIOUS
  <2>2. j.pc = "connect" /\ j.reply.kind # "data" /\ k.srv \in Pids
    BY <1>4, <2>1 DEF TInv, ClientTyped, Connects
  <2>3. k.pc = "waiting" /\ k.reply.kind # "data"
    <3>1. cl'[c] = [cl[c] EXCEPT !.pc = "waiting", !.srv = k.srv]
      BY <1>4 DEF Connects, IInv, Shapes
    <3>2. k = [j EXCEPT !.pc = "waiting", !.srv = k.srv]
      BY <1>1, <2>1, <3>1
    <3>3. ClientTyped(j)
      BY <2>1 DEF TInv
    <3> QED
      BY <2>2, <3>2, <3>3 DEF ClientTyped
  <2>4. ~InHand(c, dm[k.srv])
    <3>1. dm[k.srv].client = NoClient \/ cl[dm[k.srv].client].pc = "waiting"
      BY <2>2 DEF IInv, ServedWaits
    <3> QED
      BY <2>1, <2>2, <3>1, LifecycleAssumption DEF InHand
  <2>5. ReadOf(c) = Fresh!Away
    BY <2>1, <2>2, AwayIf
  <2>6. ReadOf(c)' = Fresh!Asked
    BY <1>1, <2>3, <2>4, ReadFacts, ReadByFacts
  <2> QED
    BY <1>2, <2>5, <2>6, OneReadMoves
<1> QED
  BY <1>3, <1>4

\* The reader sees the version the daemon checked the request against: the data is
\* not older than the fingerprint, and not newer than the file.
LEMMA TakesUpReads ==
  ASSUME IInv, TInv, NEW p \in Pids, NEW c, TakesUp(p, c)
  PROVE  [Fresh!Next]_<<fsdb, Reads>>
<1>1. PICK d : dm' = [dm EXCEPT ![p] = d] /\ d.pc \in Busy /\ d.client = c /\ d.data = dm[p].data
  BY DEF TakesUp
<1>2. \A q \in Pids : dm'[q] = IF q = p THEN d ELSE dm[q]
  BY <1>1 DEF IInv, Shapes
<1>3. UNCHANGED <<fsdb, cl>> /\ dm[p].pc = "serving" /\ dm[p].fp = fsdb
  BY DEF TakesUp
<1>4. dm[p].data = fsdb
  <2>1. PICK o : o = dm[p]
    OBVIOUS
  <2>2. DaemonOk(o) /\ fsdb \in Nat
    BY <2>1 DEF IInv, Shapes
  <2>3. o.fp \in Nat /\ o.data \in Nat /\ o.fp <= o.data /\ o.data <= fsdb
    BY <1>3, <2>1, <2>2 DEF DaemonOk, Listening
  <2> QED
    BY <1>3, <2>1, <2>2, <2>3
<1>5. \A e : ~InHand(e, dm[p])
  BY <1>3 DEF InHand, Busy
<1>6. \A e \in Clients : cl[e].pc = "waiting" => cl[e].srv \in Pids
  BY DEF TInv, ClientTyped
<1>7. \A e \in Clients : e # c => ReadOf(e)' = ReadOf(e)
  <2> SUFFICES ASSUME NEW e \in Clients, e # c PROVE ReadOf(e)' = ReadOf(e)
    OBVIOUS
  <2>1. ~InHand(e, d)
    BY <1>1 DEF InHand
  <2> QED
    BY <1>2, <1>3, <1>5, <1>6, <2>1, ReadStays
<1>8. CASE c \notin Clients
  <2>1. Reads' = Reads
    BY <1>7, <1>8 DEF Reads
  <2> QED
    BY <1>3, <2>1
<1>9. CASE c \in Clients
  <2>1. PICK k : k = cl[c]
    OBVIOUS
  <2>2. k.pc = "waiting" /\ k.srv = p /\ (k.reply.kind = "data" => k.pc = "idle")
    BY <1>9, <2>1, LifecycleAssumption DEF TakesUp, TInv, ClientTyped
  <2>3. ReadOf(c) = ReadBy(c, k, dm[p]) /\ ReadOf(c)' = ReadBy(c, k, d)
    BY <1>2, <1>3, <2>1, <2>2, ReadFacts
  <2>4. InHand(c, d)
    BY <1>1 DEF InHand
  <2>5. ReadOf(c) = Fresh!Asked /\ ReadOf(c)' = Seen(fsdb)
    BY <1>1, <1>4, <1>5, <2>2, <2>3, <2>4, ReadByFacts
  <2> QED
    BY <1>3, <1>7, <1>9, <2>5, OneReadMoves
<1> QED
  BY <1>8, <1>9

LEMMA AnswersReads ==
  ASSUME IInv, TInv, NEW p \in Pids, NEW c, Answers(p, c)
  PROVE  [Fresh!Next]_<<fsdb, Reads>>
<1>1. PICK d : dm' = [dm EXCEPT ![p] = d] /\ d.pc \notin Busy
  BY DEF Answers
<1>2. PICK k : cl' = [cl EXCEPT ![c] = k] /\ k.reply.kind = "data" /\ k.reply.data = dm[p].data /\ k.pc = "idle"
  BY DEF Answers
<1>3. /\ \A q \in Pids : dm'[q] = IF q = p THEN d ELSE dm[q]
      /\ \A e \in Clients : cl'[e] = IF e = c THEN k ELSE cl[e]
  BY <1>1, <1>2 DEF IInv, Shapes
<1>4. UNCHANGED fsdb /\ c \in Clients /\ dm[p].client = c /\ InHand(c, dm[p])
  BY DEF Answers, InHand, Busy
<1>5. \A e \in Clients : cl[e].pc = "waiting" => cl[e].srv \in Pids
  BY DEF TInv, ClientTyped
<1>6. \A e \in Clients : e # c => ReadOf(e)' = ReadOf(e)
  <2> SUFFICES ASSUME NEW e \in Clients, e # c PROVE ReadOf(e)' = ReadOf(e)
    OBVIOUS
  <2>1. ~InHand(e, d) /\ ~InHand(e, dm[p])
    BY <1>1, <1>4 DEF InHand
  <2> QED
    BY <1>3, <1>5, <2>1, ReadStays
<1>7. PICK j : j = cl[c]
  OBVIOUS
<1>8. j.pc = "waiting" /\ j.srv = p /\ (j.reply.kind = "data" => j.pc = "idle")
  BY <1>4, <1>7, LifecycleAssumption DEF IInv, ServedWaits, TInv, ClientTyped
<1>9. ReadOf(c) = Seen(dm[p].data)
  BY <1>4, <1>7, <1>8, ReadFacts, ReadByFacts
<1>10. ReadOf(c)' = Told(dm[p].data)
  <2>1. ReadOf(c)' = ReadBy(c, k, dm'[k.srv])
    BY <1>3, <1>4, ReadFacts
  <2>2. \A b : ReadBy(c, k, b) = Told(k.reply.data)
    BY <1>2, ReadByFacts
  <2> QED
    BY <1>2, <2>1, <2>2
<1> QED
  BY <1>4, <1>6, <1>9, <1>10, OneReadMoves

LEMMA InterruptReads ==
  ASSUME IInv, TInv, NEW c \in Clients, Interrupt(c), Leaves(c)
  PROVE  [Fresh!Next]_<<fsdb, Reads>>
<1>1. PICK k : cl' = [cl EXCEPT ![c] = k] /\ k.pc = "idle" /\ k.reply.kind # "data"
  BY DEF Leaves
<1>2. \A e \in Clients : cl'[e] = IF e = c THEN k ELSE cl[e]
  BY <1>1 DEF IInv, Shapes
<1>3. ReadOf(c)' = Fresh!Away /\ UNCHANGED fsdb
  BY <1>1, <1>2, AwayIf DEF Interrupt
<1>4. ASSUME NEW p \in Pids, NEW e \in Clients, e # c
      PROVE  (InHand(e, dm'[p]) <=> InHand(e, dm[p])) /\ dm'[p].data = dm[p].data
  <2>1. PICK o, d : o = dm[p] /\ d = dm'[p]
    OBVIOUS
  <2>2. DaemonTyped(o)
    BY <2>1 DEF TInv
  <2>3. (o.client = c /\ d = [o EXCEPT !.client = NoClient]) \/ d \in {o, [o EXCEPT !.gone = @ \cup {"query"}]}
    BY <2>1 DEF Interrupt
  <2>4. d.pc = o.pc /\ d.data = o.data /\ (d.client = o.client \/ (o.client = c /\ d.client = NoClient))
    BY <2>2, <2>3 DEF DaemonTyped
  <2> QED
    BY <1>4, <2>1, <2>4, LifecycleAssumption DEF InHand
<1>5. \A e \in Clients \ {c} : ReadOf(e)' = ReadOf(e)
  <2>1. \A e \in Clients : cl[e].pc = "waiting" => cl[e].srv \in Pids
    BY DEF TInv, ClientTyped
  <2> QED
    BY <1>2, <1>4, <2>1, ReadStays
<1> QED
  BY <1>3, <1>5, OneReadMoves

(***************************************************************************)
(* Every step is a step of FreshReads, or none.                            *)
(***************************************************************************)
LEMMA StepReads == IInv /\ TInv /\ [Next]_vars => [Fresh!Next]_<<fsdb, Reads>>
<1> SUFFICES ASSUME IInv, TInv, [Next]_vars PROVE [Fresh!Next]_<<fsdb, Reads>>
  OBVIOUS
<1>1. ASSUME NEW c \in Clients, Begin(c) PROVE [Fresh!Next]_<<fsdb, Reads>>
  <2>1. PICK k : cl' = [cl EXCEPT ![c] = k] /\ k.pc \notin {"waiting"} /\ k.reply.kind # "data"
    BY <1>1, BeginGoes
  <2>2. UNCHANGED <<fsdb, dm>>
    BY <1>1 DEF Begin
  <2> QED
    BY <2>1, <2>2, OneClientReads
<1>2. ASSUME NEW c \in Clients, Hangup(c) PROVE [Fresh!Next]_<<fsdb, Reads>>
  <2>1. PICK k : cl' = [cl EXCEPT ![c] = k] /\ k.pc = "idle" /\ k.reply.kind # "data"
    BY <1>2, HangupGoes DEF Leaves
  <2>2. UNCHANGED <<fsdb, dm>>
    BY <1>2 DEF Hangup
  <2> QED
    BY <2>1, <2>2, OneClientReads
<1>3. ASSUME NEW c \in Clients, Connect(c) PROVE [Fresh!Next]_<<fsdb, Reads>>
  <2>1. CASE CommandGoes(c)
    BY <2>1, CommandReads
  <2>2. ASSUME NEW s, Connects(c, s) PROVE [Fresh!Next]_<<fsdb, Reads>>
    <3>1. PICK j : j = cl[c]
      OBVIOUS
    <3>2. PICK k : k = [j EXCEPT !.pc = "waiting", !.srv = s]
      OBVIOUS
    <3>3. cl' = [cl EXCEPT ![c] = k]
      BY <2>2, <3>1, <3>2 DEF Connects, IInv, Shapes
    <3>4. k.srv = s
      BY <3>1, <3>2 DEF TInv, ClientTyped
    <3>5. UNCHANGED <<fsdb, dm>>
      BY <2>2 DEF Connects
    <3>6. Connects(c, k.srv)
      BY <2>2, <3>4
    <3> QED
      BY <3>3, <3>5, <3>6, OneClientReads
  <2> QED
    BY <1>3, <2>1, <2>2, ConnectGoes
<1>4. ASSUME NEW c \in Clients, ClientStep(c), ~Connect(c), ~Hangup(c) PROVE [Fresh!Next]_<<fsdb, Reads>>
  BY <1>4, CommandStepGoes, CommandReads
<1>9. ASSUME NEW c \in Clients, FileError(c) PROVE [Fresh!Next]_<<fsdb, Reads>>
  BY <1>9, FileErrorGoes, CommandReads
<1>5. ASSUME NEW c \in Clients, Interrupt(c) PROVE [Fresh!Next]_<<fsdb, Reads>>
  BY <1>5, InterruptGoes, InterruptReads
<1>6. ASSUME NEW p \in Pids, DaemonStep(p) \/ CrashDaemon(p) PROVE [Fresh!Next]_<<fsdb, Reads>>
  <2>1. CASE DaemonActs(p)
    <3>1. DaemonsGo
      BY <2>1 DEF DaemonActs, DaemonsGo, DaemonTo
    <3> QED
      BY <2>1, <3>1, DaemonsDrop DEF DaemonActs
  <2>2. ASSUME NEW c \in Clients, Leaves(c), UNCHANGED <<fsdb, dm>> PROVE [Fresh!Next]_<<fsdb, Reads>>
    BY <2>2, OneClientReads DEF Leaves
  <2> QED
    BY <1>6, <2>1, <2>2, DaemonStepGoes, TakesUpReads, AnswersReads DEF DaemonDoes
<1>7. CASE RewriteFsdb
  <2>1. \A c \in Clients : ReadOf(c)' = ReadOf(c)
    BY <1>7 DEF RewriteFsdb, ReadOf
  <2>2. Reads' = Reads
    BY <2>1 DEF Reads
  <2>3. Fresh!Rewrite
    BY <1>7, <2>2 DEF RewriteFsdb, Fresh!Rewrite, Reads
  <2> QED
    BY <2>3 DEF Fresh!Next
<1>8. CASE UNCHANGED vars
  <2>1. \A c \in Clients : ReadOf(c)' = ReadOf(c)
    BY <1>8 DEF vars, ReadOf
  <2>2. Reads' = Reads
    BY <2>1 DEF Reads
  <2> QED
    BY <1>8, <2>2 DEF vars
<1> QED
  BY <1>1, <1>2, <1>3, <1>4, <1>5, <1>6, <1>7, <1>8, <1>9 DEF Next, ClientStep, Done

LEMMA InitReads == Init => Fresh!Init
<1> SUFFICES ASSUME Init PROVE Fresh!Init
  OBVIOUS
<1>1. Idle.pc = "idle" /\ Idle.reply.kind = "none"
  BY DEF Idle, NoReply
<1>2. \A c \in Clients : ReadOf(c) = Fresh!Away
  BY <1>1, AwayIf DEF Init
<1> QED
  BY <1>2 DEF Init, Fresh!Init

\* A query is a read of the FSDB file at one moment between its request and its
\* answer, through whatever daemons, restarts, kills and crashes: SessionLifecycle
\* implements FreshReads.
THEOREM ReadsAreFresh == Spec => QueriesAreFreshReads
<1>1. Init => IInv /\ TInv /\ Fresh!Init
  BY InitIInv, InitTInv, InitReads
<1>2. (IInv /\ TInv) /\ [Next]_vars => (IInv /\ TInv)'
  BY NextIInv, NextTInv
<1>3. (IInv /\ TInv) /\ [Next]_vars => [Fresh!Next]_<<fsdb, [c \in Clients |-> ReadOf(c)]>>
  BY StepReads DEF Reads
<1> QED
  BY <1>1, <1>2, <1>3, PTL DEF Spec, QueriesAreFreshReads, Fresh!Spec
===============================================================================
