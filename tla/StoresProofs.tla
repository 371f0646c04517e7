------------------------------ MODULE StoresProofs ------------------------------
(***************************************************************************)
(* The theorems about SessionRegistry, ConfigStores and DaemonExit, for    *)
(* what StoresMC composes: the properties its run checks.                  *)
(***************************************************************************)
EXTENDS StoresMC, RegistryDocProofs, TLAPS

(***************************************************************************)
(* The registry.  For any number of processes, sessions and calls: edits   *)
(* of registry.json that do not overlap are all in the file, and the       *)
(* directories follow it.  The invariant says what an undisturbed process  *)
(* may rely on at each point of its load, edit, save.                      *)
(***************************************************************************)
\* pc, op and snap have an entry for each process.
PerProcess ==
  /\ pc = [p \in Procs |-> pc[p]]
  /\ op = [p \in Procs |-> op[p]]
  /\ snap = [p \in Procs |-> snap[p]]
  /\ disturbed \in BOOLEAN

\* At most one process is between its load and the end of its call.
OneEditor == \A p, q \in Procs : Editing(p) /\ Editing(q) => p = q

\* Between open and write the file is empty, so the write leaves no old tail.
EmptyUntilWritten == \A p \in Procs : pc[p] = "truncated" => file = EmptyFile

\* What a process is about to save is its edit of the current list.
SnapIsCurrent ==
  \A p \in Procs : pc[p] \in {"loaded", "truncated"} => snap[p] = Edited(op[p], truth)

FileHoldsTruth ==
  (\A p \in Procs : pc[p] # "truncated") => file.ok /\ file.doc = truth

IInv ==
  /\ PerProcess
  /\ ~disturbed => OneEditor /\ EmptyUntilWritten /\ SnapIsCurrent /\ FileHoldsTruth

LEMMA InitIInv == Init => IInv
<1> SUFFICES ASSUME Init PROVE IInv
  OBVIOUS
<1>1. op = [p \in Procs |-> op[p]]
  <2> DEFINE Gets == {[kind |-> "get", id |-> i, pid |-> n, dead |-> {}] : i \in Ids, n \in Pids}
  <2>1. op \in [Procs -> Gets]
    BY DEF Init
  <2> HIDE DEF Gets
  <2> QED
    BY <2>1
<1>2. PerProcess
  <2>1. pc = [p \in Procs |-> "idle"] /\ snap = [p \in Procs |-> << >>] /\ disturbed = FALSE
    BY Zenon DEF Init
  <2> QED
    BY <1>1, <2>1 DEF PerProcess
<1>3. OneEditor /\ EmptyUntilWritten /\ SnapIsCurrent /\ FileHoldsTruth
  BY DEF Init, OneEditor, EmptyUntilWritten, SnapIsCurrent, FileHoldsTruth, Editing, EmptyFile
<1> QED
  BY <1>2, <1>3 DEF IInv

\* A process that starts an edit undisturbed finds the whole truth in the file.
LEMMA AloneMeansCurrent ==
  ASSUME IInv, ~disturbed, NEW p \in Procs, ~OthersEditing(p), pc[p] # "truncated"
  PROVE  file.ok /\ file.doc = truth
  BY DEF IInv, FileHoldsTruth, OthersEditing, Editing

LEMMA NextIInv == IInv /\ [Next]_vars => IInv'
<1> SUFFICES ASSUME IInv, [Next]_vars PROVE IInv'
  OBVIOUS
<1> USE DEF IInv, PerProcess
<1>1. ASSUME NEW p \in Procs, Call(p) PROVE IInv'
  <2>1. PICK o \in Op : op' = [op EXCEPT ![p] = o]
    BY <1>1 DEF Call
  <2>2. PerProcess'
    BY <1>1, <2>1 DEF Call, Goto, unchangedHistory
  <2>3. ASSUME ~disturbed PROVE SnapIsCurrent'
    BY <1>1, <2>1, <2>3 DEF Call, Goto, unchangedHistory, SnapIsCurrent
  <2>4. ASSUME ~disturbed PROVE (OneEditor /\ EmptyUntilWritten /\ FileHoldsTruth)'
    BY <1>1, <2>4 DEF Call, Goto, unchangedHistory, OneEditor, EmptyUntilWritten, FileHoldsTruth, Editing
  <2> QED
    BY <1>1, <2>2, <2>3, <2>4 DEF Call, unchangedHistory
<1>2. ASSUME NEW p \in Procs, Get(p) PROVE IInv'
  BY <1>2, SMT DEF Get, Goto, OneEditor, EmptyUntilWritten, SnapIsCurrent, FileHoldsTruth,
                   Editing, unchangedHistory
<1>3. ASSUME NEW p \in Procs, TouchGet(p) PROVE IInv'
  <2>1. PerProcess'
    BY <1>3 DEF TouchGet, Goto
  <2>2. ASSUME ~disturbed' PROVE ~disturbed /\ ~OthersEditing(p)
    BY <1>3, <2>2 DEF TouchGet
  <2>3. ASSUME ~disturbed' PROVE (OneEditor /\ EmptyUntilWritten /\ SnapIsCurrent /\ FileHoldsTruth)'
    BY <1>3, <2>1, <2>2, <2>3, SMT
       DEF TouchGet, Goto, OneEditor, EmptyUntilWritten, SnapIsCurrent, FileHoldsTruth, Editing, OthersEditing
  <2> QED
    BY <2>1, <2>3
<1>4. ASSUME NEW p \in Procs, Load(p) PROVE IInv'
  <2>1. PerProcess'
    BY <1>4 DEF Load, Goto
  <2>2. ASSUME ~disturbed'
        PROVE  ~disturbed /\ ~OthersEditing(p) /\ file.ok /\ file.doc = truth
    BY <1>4, <2>2, AloneMeansCurrent DEF Load
  <2>3. ASSUME ~disturbed' PROVE (OneEditor /\ EmptyUntilWritten /\ FileHoldsTruth)'
    BY <1>4, <2>1, <2>2, <2>3, SMT
       DEF Load, Goto, OneEditor, EmptyUntilWritten, FileHoldsTruth, Editing, OthersEditing
  <2>4. ASSUME ~disturbed' PROVE SnapIsCurrent'
    BY <1>4, <2>1, <2>2, <2>4, SMT
       DEF Load, Goto, SnapIsCurrent, Editing, OthersEditing, Loaded
  <2> QED
    BY <2>1, <2>3, <2>4
<1>5. ASSUME NEW p \in Procs, Truncate(p) PROVE IInv'
  BY <1>5, SMT DEF Truncate, Goto, OneEditor, EmptyUntilWritten, SnapIsCurrent, FileHoldsTruth,
                   Editing, unchangedHistory
<1>6. ASSUME NEW p \in Procs, Write(p) PROVE IInv'
  <2>1. PerProcess' /\ disturbed' = disturbed
    BY <1>6 DEF Write, Goto
  <2>2. ASSUME ~disturbed PROVE file' = [ok |-> TRUE, doc |-> snap[p], size |-> SizeOf(snap[p])]
    BY <1>6, <2>2 DEF Write, EmptyUntilWritten, Overwritten
  <2>3. ASSUME ~disturbed PROVE truth' = snap[p]
    BY <1>6, <2>3 DEF Write, SnapIsCurrent
  <2>4. ASSUME ~disturbed, NEW q \in Procs, q # p PROVE ~Editing(q)
    BY <1>6, <2>4 DEF Write, OneEditor, Editing
  <2>5. ASSUME ~disturbed PROVE (OneEditor /\ EmptyUntilWritten /\ SnapIsCurrent /\ FileHoldsTruth)'
    BY <1>6, <2>1, <2>2, <2>3, <2>4, <2>5, SMT
       DEF Write, Goto, OneEditor, EmptyUntilWritten, SnapIsCurrent, FileHoldsTruth, Editing
  <2> QED
    BY <2>1, <2>5
<1>7. ASSUME NEW p \in Procs, WriteSessionFiles(p) \/ RemoveDir(p) PROVE IInv'
  BY <1>7, SMT DEF WriteSessionFiles, RemoveDir, Goto, OneEditor, EmptyUntilWritten, SnapIsCurrent,
                   FileHoldsTruth, Editing, unchangedHistory
<1>8. ASSUME NEW p \in Procs, Crash(p) PROVE IInv'
  BY <1>8 DEF Crash, Goto
<1>9. CASE UNCHANGED vars
  BY <1>9 DEF vars, OneEditor, EmptyUntilWritten, SnapIsCurrent, FileHoldsTruth, Editing
<1> QED
  BY <1>1, <1>2, <1>3, <1>4, <1>5, <1>6, <1>7, <1>8, <1>9 DEF Next, Done

(***************************************************************************)
(* The state's types, and what each edit does to the list of ids.          *)
(***************************************************************************)

\* The ids whose directory a call removes between load and save, and after it.
Gone(o, doc) ==
  CASE o.kind = "cleanup_stale" -> o.dead
    [] o.kind = "clear_all"     -> IdsOf(doc)
    [] OTHER                    -> {}
Last(o) == IF o.kind = "remove" THEN {o.id} ELSE {}

LEMMA IdsOfRecords ==
  ASSUME NEW doc \in Seq(Record)
  PROVE  IdsOf(doc) \subseteq Ids
<1>1. \A i \in DOMAIN doc : doc[i] \in Record
  OBVIOUS
<1>2. \A i \in DOMAIN doc : doc[i].id \in Ids
  BY <1>1 DEF Record
<1> QED
  BY <1>2 DEF IdsOf

LEMMA EditedFacts ==
  ASSUME NEW o \in Op, NEW doc \in Seq(Record)
  PROVE  /\ Edited(o, doc) \in Seq(Record)
         /\ IdsOf(doc) \ Gone(o, doc) \subseteq IdsOf(Edited(o, doc)) \cup Last(o)
         /\ IdsOf(Edited(o, doc)) \cap Last(o) = {}
<1> DEFINE rec == [id |-> o.id, pid |-> o.pid]
<1>1. rec \in Record /\ rec.id = o.id
  BY DEF Op, Record
<1>2. CASE o.kind = "add"
  <2>1. Edited(o, doc) = Append(doc, rec) /\ Last(o) = {}
    BY <1>2 DEF Edited, Last
  <2> HIDE DEF rec
  <2> QED
    BY <1>1, <2>1, AppendFacts
<1>3. CASE o.kind \in {"upsert", "touch"}
  <2>1. Edited(o, doc) = Upserted(doc, rec) /\ Last(o) = {}
    BY <1>3 DEF Edited, Last
  <2> HIDE DEF rec
  <2> QED
    BY <1>1, <2>1, UpsertedFacts
<1>4. CASE o.kind = "remove"
  <2>1. Edited(o, doc) = Without(doc, {o.id}) /\ Last(o) = {o.id}
    BY <1>4 DEF Edited, Last
  <2> QED
    BY <2>1, WithoutFacts
<1>5. CASE o.kind = "cleanup_stale"
  <2>1. Edited(o, doc) = Without(doc, o.dead) /\ Last(o) = {} /\ Gone(o, doc) = o.dead
    BY <1>5 DEF Edited, Last, Gone
  <2> QED
    BY <2>1, WithoutFacts
<1>6. CASE o.kind = "clear_all"
  BY <1>6 DEF Edited, Last, Gone, IdsOf
<1>7. CASE o.kind = "get"
  BY <1>7 DEF Edited, Last
<1> QED
  BY <1>2, <1>3, <1>4, <1>5, <1>6, <1>7 DEF Op, Kinds

LEMMA InitTypeOK == Init => TypeOK
<1> SUFFICES ASSUME Init PROVE TypeOK
  OBVIOUS
<1>1. op \in [Procs -> Op]
  <2> DEFINE Gets == {[kind |-> "get", id |-> i, pid |-> n, dead |-> {}] : i \in Ids, n \in Pids}
  <2>1. op \in [Procs -> Gets]
    BY DEF Init
  <2>2. Gets \subseteq Op
    BY DEF Op, Kinds
  <2> HIDE DEF Gets
  <2> QED
    BY <2>1, <2>2
<1>2. snap \in [Procs -> Seq(Record)] /\ truth \in Seq(Record)
  BY DEF Init
<1>3. file \in [ok : BOOLEAN, doc : Seq(Record), size : Nat]
  BY DEF Init, EmptyFile
<1>4. left \in [Procs -> 0 .. OpsPerProc]
  BY OpsAssumption DEF Init
<1>5. pc \in [Procs -> {"idle", "load", "got", "loaded", "truncated", "written", "purge"}]
  BY DEF Init
<1> QED
  BY <1>1, <1>2, <1>3, <1>4, <1>5 DEF Init, TypeOK

LEMMA NextTypeOK == TypeOK /\ [Next]_vars => TypeOK'
<1> SUFFICES ASSUME TypeOK, [Next]_vars PROVE TypeOK'
  OBVIOUS
<1> USE DEF TypeOK
<1>1. ASSUME NEW p \in Procs, Call(p) PROVE TypeOK'
  <2>1. PICK o \in Op : op' = [op EXCEPT ![p] = o]
    BY <1>1 DEF Call
  <2>2. left' \in [Procs -> 0 .. OpsPerProc]
    BY <1>1, OpsAssumption DEF Call
  <2> QED
    BY <1>1, <2>1, <2>2 DEF Call, Goto, unchangedHistory
<1>2. ASSUME NEW p \in Procs, Get(p) \/ Crash(p) PROVE TypeOK'
  BY <1>2 DEF Get, Crash, Goto, unchangedHistory
<1>3. ASSUME NEW p \in Procs, TouchGet(p) PROVE TypeOK'
  <2>1. op' \in [Procs -> Op]
    <3>1. CASE LoadOk /\ op[p].id \in IdsOf(Loaded)
      <4> DEFINE r == Find(Loaded, op[p].id)
      <4>1. Loaded \in Seq(Record)
        BY DEF Loaded
      <4>2. r \in Record
        BY <3>1, <4>1, FirstOfFacts DEF Find
      <4>3. op' = [op EXCEPT ![p].pid = r.pid] /\ r.pid \in Pids
        BY <1>3, <3>1, <4>2 DEF TouchGet, Record
      <4>4. op \in [Procs -> Op]
        OBVIOUS
      <4>5. ASSUME NEW o \in Op PROVE [o EXCEPT !.pid = r.pid] \in Op
        <5> HIDE DEF r
        <5> QED
          BY <4>3 DEF Op
      <4> HIDE DEF r
      <4> QED
        BY <4>3, <4>4, <4>5
    <3> QED
      BY <1>3, <3>1 DEF TouchGet
  <2>2. pc' \in [Procs -> {"idle", "load", "got", "loaded", "truncated", "written", "purge"}]
    BY <1>3 DEF TouchGet, Goto
  <2>3. disturbed' \in BOOLEAN
    BY <1>3, Zenon DEF TouchGet
  <2> QED
    BY <1>3, <2>1, <2>2, <2>3 DEF TouchGet
<1>4. ASSUME NEW p \in Procs, Load(p) PROVE TypeOK'
  <2>1. Edited(op[p], Loaded) \in Seq(Record)
    BY EditedFacts DEF Loaded
  <2>2. snap' \in [Procs -> Seq(Record)] /\ dirs' \subseteq Ids
    BY <1>4, <2>1 DEF Load
  <2>3. pc' \in [Procs -> {"idle", "load", "got", "loaded", "truncated", "written", "purge"}]
    BY <1>4 DEF Load, Goto
  <2>4. disturbed' \in BOOLEAN
    BY <1>4, Zenon DEF Load
  <2> QED
    BY <1>4, <2>2, <2>3, <2>4 DEF Load
<1>5. ASSUME NEW p \in Procs, Truncate(p) PROVE TypeOK'
  BY <1>5 DEF Truncate, Goto, unchangedHistory, EmptyFile
<1>6. ASSUME NEW p \in Procs, Write(p) PROVE TypeOK'
  <2>1. Edited(op[p], truth) \in Seq(Record)
    BY EditedFacts
  <2>2. snap[p] \in Seq(Record) /\ SizeOf(snap[p]) \in Nat
    BY DEF SizeOf
  <2>3. Overwritten(file, snap[p]) \in [ok : BOOLEAN, doc : Seq(Record), size : Nat]
    BY <2>2 DEF Overwritten
  <2> QED
    BY <1>6, <2>1, <2>3 DEF Write, Goto
<1>7. ASSUME NEW p \in Procs, WriteSessionFiles(p) PROVE TypeOK'
  <2>1. IdsOf(snap[p]) \subseteq Ids
    BY IdsOfRecords
  <2> QED
    BY <1>7, <2>1 DEF WriteSessionFiles, Goto, unchangedHistory
<1>8. ASSUME NEW p \in Procs, RemoveDir(p) PROVE TypeOK'
  BY <1>8 DEF RemoveDir, Goto, unchangedHistory
<1>9. CASE UNCHANGED vars
  BY <1>9 DEF vars
<1> QED
  BY <1>1, <1>2, <1>3, <1>4, <1>5, <1>6, <1>7, <1>8, <1>9 DEF Next, Done

(***************************************************************************)
(* The directories, at each point of an undisturbed call.                  *)
(***************************************************************************)
DirsAt(p) ==
  /\ pc[p] = "got" => dirs = IdsOf(truth)
  /\ pc[p] \in {"loaded", "truncated"} => dirs = IdsOf(truth) \ Gone(op[p], truth)
  /\ pc[p] = "written" =>
       /\ snap[p] = truth
       /\ dirs \subseteq IdsOf(truth) \cup Last(op[p])
       /\ IdsOf(truth) \cap Last(op[p]) = {}
  /\ pc[p] = "purge" => op[p].kind = "remove" /\ dirs \ {op[p].id} = IdsOf(truth)

DirsInv ==
  ~disturbed => /\ (\A p \in Procs : ~Editing(p)) => dirs = IdsOf(truth)
                /\ \A p \in Procs : DirsAt(p)

LEMMA InitDirsInv == Init => DirsInv
  BY DEF Init, DirsInv, DirsAt, IdsOf, Editing

LEMMA NextDirsInv == TypeOK /\ IInv /\ DirsInv /\ [Next]_vars => DirsInv'
<1> SUFFICES ASSUME TypeOK, IInv, DirsInv, [Next]_vars, ~disturbed'
             PROVE  /\ (\A p \in Procs : ~Editing(p)') => dirs' = IdsOf(truth')
                    /\ \A p \in Procs : DirsAt(p)'
  BY DEF DirsInv
<1> USE DEF TypeOK
\* The others are not editing, then or now, and what they are at is unchanged.
<1>0. ~disturbed /\ OneEditor
  BY DEF Next, Done, vars, Call, Get, TouchGet, Load, Truncate, Write, WriteSessionFiles,
         RemoveDir, Crash, unchangedHistory, IInv
<1>1. ASSUME NEW p \in Procs, Call(p) \/ Get(p)
      PROVE  /\ (\A q \in Procs : ~Editing(q)') => dirs' = IdsOf(truth')
             /\ \A q \in Procs : DirsAt(q)'
  <2>1. \A q \in Procs : Editing(q)' = Editing(q) /\ (Editing(q) => pc'[q] = pc[q] /\ op'[q] = op[q])
    BY <1>1 DEF Call, Get, Goto, Editing
  <2>2. dirs' = dirs /\ truth' = truth /\ snap' = snap
    BY <1>1 DEF Call, Get, unchangedHistory
  <2>3. (\A q \in Procs : ~Editing(q)') => dirs' = IdsOf(truth')
    BY <1>0, <2>1, <2>2 DEF DirsInv
  <2>4. ASSUME NEW q \in Procs PROVE DirsAt(q)'
    <3>1. CASE Editing(q)
      BY <1>0, <2>1, <2>2, <3>1 DEF DirsInv, DirsAt
    <3>2. CASE ~Editing(q)
      BY <2>1, <3>2 DEF DirsAt, Editing
    <3> QED
      BY <3>1, <3>2
  <2> QED
    BY <2>3, <2>4
<1>2. ASSUME NEW p \in Procs, TouchGet(p) \/ Load(p)
      PROVE  /\ (\A q \in Procs : ~Editing(q)') => dirs' = IdsOf(truth')
             /\ \A q \in Procs : DirsAt(q)'
  <2>1. \A q \in Procs \ {p} : ~Editing(q)
    BY <1>2 DEF TouchGet, Load, OthersEditing
  <2>2. \A q \in Procs \ {p} : pc'[q] = pc[q]
    BY <1>2 DEF TouchGet, Load, Goto
  <2>3. truth' = truth /\ dirs = IdsOf(truth)
    BY <1>0, <1>2, <2>1 DEF TouchGet, Load, DirsInv, DirsAt, Editing
  <2>4. file.doc = truth
    BY <1>0, <1>2, <2>1, AloneMeansCurrent DEF TouchGet, Load, OthersEditing
  <2>5. \/ dirs' = IdsOf(truth) /\ pc'[p] \in {"idle", "got"}
        \/ dirs' = IdsOf(truth) \ Gone(op'[p], truth) /\ pc'[p] = "loaded"
    <3>1. CASE TouchGet(p)
      <4>1. dirs' = dirs /\ (Goto(p, "got") \/ Goto(p, "idle"))
        BY <3>1, Zenon DEF TouchGet
      <4> QED
        BY <2>3, <4>1 DEF Goto
    <3>2. CASE Load(p) /\ Refused(op[p])
      <4>1. dirs' = dirs /\ Goto(p, "idle")
        BY <3>2 DEF Load
      <4> QED
        BY <2>3, <4>1 DEF Goto
    <3>3. CASE Load(p) /\ ~Refused(op[p])
      <4>1. dirs' = IdsOf(truth) \ Purged(op[p]) /\ pc'[p] = "loaded" /\ op' = op
        BY <2>3, <3>3 DEF Load, Goto
      <4>2. IdsOf(truth) \ Purged(op[p]) = IdsOf(truth) \ Gone(op[p], truth)
        BY <2>4 DEF Purged, Gone, Loaded
      <4> QED
        BY <4>1, <4>2
    <3> QED
      BY <1>2, <3>1, <3>2, <3>3
  <2>6. \A q \in Procs \ {p} : DirsAt(q)'
    BY <2>1, <2>2 DEF DirsAt, Editing
  <2>7. DirsAt(p)'
    BY <2>3, <2>5 DEF DirsAt
  <2>8. (\A q \in Procs : ~Editing(q)') => dirs' = IdsOf(truth')
    BY <2>3, <2>5 DEF Editing
  <2> QED
    BY <2>6, <2>7, <2>8
<1>3. ASSUME NEW p \in Procs, Truncate(p) \/ Write(p) \/ WriteSessionFiles(p) \/ RemoveDir(p)
      PROVE  /\ (\A q \in Procs : ~Editing(q)') => dirs' = IdsOf(truth')
             /\ \A q \in Procs : DirsAt(q)'
  <2>1. Editing(p) /\ \A q \in Procs \ {p} : ~Editing(q)
    BY <1>0, <1>3 DEF Truncate, Write, WriteSessionFiles, RemoveDir, Editing, OneEditor
  <2>2. op' = op /\ snap' = snap /\ \A q \in Procs \ {p} : pc'[q] = pc[q]
    BY <1>3 DEF Truncate, Write, WriteSessionFiles, RemoveDir, Goto
  <2>3. \A q \in Procs \ {p} : DirsAt(q)'
    BY <2>1, <2>2 DEF DirsAt, Editing
  <2>4. DirsAt(p)
    BY <1>0 DEF DirsInv
  <2>5. CASE Truncate(p)
    <3>1. pc[p] = "loaded" /\ pc'[p] = "truncated" /\ dirs' = dirs /\ truth' = truth
      BY <2>5 DEF Truncate, Goto, unchangedHistory
    <3> QED
      BY <2>2, <2>3, <2>4, <3>1 DEF DirsAt, Editing
  <2>6. CASE Write(p)
    <3>1. pc[p] = "truncated" /\ pc'[p] = "written" /\ dirs' = dirs /\ truth' = Edited(op[p], truth)
      BY <2>6 DEF Write, Goto
    <3>2. snap[p] = truth'
      BY <1>0, <3>1 DEF IInv, SnapIsCurrent
    <3>3. dirs \subseteq IdsOf(truth') \cup Last(op[p]) /\ IdsOf(truth') \cap Last(op[p]) = {}
      BY <2>4, <3>1, EditedFacts DEF DirsAt
    <3> QED
      BY <2>2, <2>3, <3>1, <3>2, <3>3 DEF DirsAt, Editing
  <2>7. CASE WriteSessionFiles(p)
    <3>1. /\ pc[p] = "written" /\ dirs' = dirs \cup IdsOf(snap[p]) /\ truth' = truth
          /\ pc'[p] = IF op[p].kind = "remove" THEN "purge" ELSE "idle"
      BY <2>7 DEF WriteSessionFiles, Goto, unchangedHistory
    <3>2. dirs' \subseteq IdsOf(truth) \cup Last(op[p]) /\ IdsOf(truth) \subseteq dirs'
          /\ IdsOf(truth) \cap Last(op[p]) = {}
      BY <2>4, <3>1 DEF DirsAt
    <3>3. CASE op[p].kind = "remove"
      <4>1. dirs' \ {op[p].id} = IdsOf(truth) /\ pc'[p] = "purge"
        BY <3>1, <3>2, <3>3 DEF Last
      <4> QED
        BY <2>2, <2>3, <3>1, <3>3, <4>1 DEF DirsAt, Editing
    <3>4. CASE op[p].kind # "remove"
      <4>1. dirs' = IdsOf(truth) /\ pc'[p] = "idle"
        BY <3>1, <3>2, <3>4 DEF Last
      <4> QED
        BY <2>2, <2>3, <3>1, <4>1 DEF DirsAt, Editing
    <3> QED
      BY <3>3, <3>4
  <2>8. CASE RemoveDir(p)
    <3>1. pc[p] = "purge" /\ pc'[p] = "idle" /\ dirs' = dirs \ {op[p].id} /\ truth' = truth
      BY <2>8 DEF RemoveDir, Goto, unchangedHistory
    <3> QED
      BY <2>2, <2>3, <2>4, <3>1 DEF DirsAt, Editing
  <2> QED
    BY <1>3, <2>5, <2>6, <2>7, <2>8
<1>4. ASSUME NEW p \in Procs, Crash(p) PROVE FALSE
  BY <1>4 DEF Crash
<1>5. CASE UNCHANGED vars
  BY <1>0, <1>5 DEF vars, DirsInv, DirsAt, Editing
<1> QED
  BY <1>1, <1>2, <1>3, <1>4, <1>5 DEF Next, Done

\* Edits that take turns are never lost, whatever the number of processes,
\* sessions and calls: load_all and save_all are right without a lock across them
\* exactly as long as nobody overlaps.
THEOREM EditsKept == Spec => []SerialEditsAreKept
<1>1. IInv => SerialEditsAreKept
  BY DEF IInv, FileHoldsTruth, SerialEditsAreKept
<1> QED
  BY InitIInv, NextIInv, <1>1, PTL DEF Spec

\* registry.json, the calls and the directories keep their types, whatever
\* overlaps or dies.
THEOREM RegistryTypes == Spec => []TypeOK
  BY InitTypeOK, NextTypeOK, PTL DEF Spec

\* As long as edits take turns, the sessions with a directory between calls are
\* exactly those with a record (write_session_file, remove, cleanup_stale,
\* clear_all).
THEOREM DirsMatchRecords == Spec => []DirsFollowRecords
<1>1. DirsInv => DirsFollowRecords
  BY DEF DirsInv, DirsFollowRecords
<1> QED
  BY InitTypeOK, NextTypeOK, InitIInv, NextIInv, InitDirsInv, NextDirsInv, <1>1, PTL DEF Spec

(***************************************************************************)
(* The daemon that the processes stop.                                     *)
(***************************************************************************)
\* The callers of the registry are different, and nobody is none of them.
CallersDiffer == Exiting!OfDaemon \cap Procs = {} /\ None \notin Exiting!Callers

ExitTypes ==
  /\ dm \in {"serving", "leaving", "handling", "dead"}
  /\ todo \in [Exiting!Callers -> Seq({"load", "save"})]
  /\ lock \in Exiting!Callers \cup {None}
  /\ stop \in [Procs -> {"idle", "waiting", "term", "removing"}]
  /\ abandoned \in BOOLEAN

\* The flock is held within a call, by a process that is there: the main program
\* may be interrupted in it, its handler and a command never are.
HeldInCalls ==
  /\ lock # None => todo[lock] # << >>
  /\ lock \in Exiting!OfDaemon => dm # "dead"
  /\ lock = "handler" => dm = "handling"
  /\ lock \in Procs => stop[lock] = "removing"

\* A daemon in its handler was sent SIGTERM by someone who follows it up, or not.
SignalsAreFollowedUp ==
  dm = "handling" => abandoned \/ \E p \in Procs : stop[p] = "term"

ExitInv == ExitTypes /\ HeldInCalls /\ SignalsAreFollowedUp

\* A lock that is held, and a handler that is followed up, are all it takes.
LEMMA ExitInvIsEnough == CallersDiffer /\ ExitInv => Exiting!NobodyWaitsForEver
BY DEF CallersDiffer, ExitInv, ExitTypes, HeldInCalls, SignalsAreFollowedUp, Exiting!NobodyWaitsForEver, Exiting!Runs, Exiting!Callers, Exiting!OfDaemon

LEMMA ExitInitIsFine == CallersDiffer /\ Exiting!Init => ExitInv
<1> SUFFICES ASSUME CallersDiffer, Exiting!Init PROVE ExitInv
  OBVIOUS
<1>1. << >> \in Seq({"load", "save"})
  OBVIOUS
<1>2. ExitTypes
  BY <1>1 DEF Exiting!Init, ExitTypes
<1>3. HeldInCalls /\ SignalsAreFollowedUp
  BY DEF CallersDiffer, Exiting!Init, HeldInCalls, SignalsAreFollowedUp, Exiting!Callers, Exiting!OfDaemon
<1> QED
  BY <1>2, <1>3 DEF ExitInv

\* A call's accesses.
LEMMA AccessFacts ==
  /\ Exiting!Touch \in Seq({"load", "save"}) /\ Exiting!Touch # << >>
  /\ Exiting!Remove \in Seq({"load", "save"}) /\ Exiting!Remove # << >>
BY DEF Exiting!Touch, Exiting!Remove

\* The daemon's own steps, and those of whoever has the flock.
LEMMA CallKeepsExitInv ==
  ASSUME CallersDiffer, ExitInv, NEW c \in Exiting!Callers, Exiting!Lock(c) \/ Exiting!Unlock(c)
  PROVE  ExitInv'
<1> USE DEF CallersDiffer, ExitInv, ExitTypes, HeldInCalls, SignalsAreFollowedUp, Exiting!Callers, Exiting!OfDaemon, Exiting!Runs
<1>1. CASE Exiting!Lock(c)
  BY <1>1 DEF Exiting!Lock
<1>2. CASE Exiting!Unlock(c)
  <2>1. todo[c] # << >> /\ todo[c] \in Seq({"load", "save"})
    BY <1>2 DEF Exiting!Unlock
  <2>2. << >> \in Seq({"load", "save"}) /\ Tail(todo[c]) \in Seq({"load", "save"})
    BY <2>1
  <2>3. PICK t \in Seq({"load", "save"}) : todo' = [todo EXCEPT ![c] = t]
    BY <1>2, <2>2 DEF Exiting!Unlock
  <2> QED
    BY <1>2, <2>3 DEF Exiting!Unlock
<1> QED
  BY <1>1, <1>2

LEMMA DaemonKeepsExitInv ==
  ASSUME CallersDiffer, ExitInv, Exiting!Serve \/ Exiting!Leave \/ Exiting!Exit
  PROVE  ExitInv'
<1> USE AccessFacts DEF CallersDiffer, ExitInv, ExitTypes, HeldInCalls, SignalsAreFollowedUp, Exiting!Callers, Exiting!OfDaemon
<1>1. CASE Exiting!Serve
  BY <1>1 DEF Exiting!Serve
<1>2. CASE Exiting!Leave
  BY <1>2 DEF Exiting!Leave
<1>3. CASE Exiting!Exit
  BY <1>3 DEF Exiting!Exit, Exiting!Dies
<1> QED
  BY <1>1, <1>2, <1>3

LEMMA StopperKeepsExitInv ==
  ASSUME CallersDiffer, ExitInv, NEW p \in Procs,
         Exiting!Stop(p) \/ Exiting!Term(p) \/ Exiting!Kill(p) \/ Exiting!GiveUp(p) \/ Exiting!Removed(p) \/ Exiting!Interrupt(p)
  PROVE  ExitInv'
<1> USE AccessFacts DEF CallersDiffer, ExitInv, ExitTypes, HeldInCalls, SignalsAreFollowedUp, Exiting!Callers, Exiting!OfDaemon, Exiting!Goto
<1>1. CASE Exiting!Stop(p)
  BY <1>1 DEF Exiting!Stop
<1>2. CASE Exiting!Term(p)
  BY <1>2 DEF Exiting!Term, Exiting!Signalled
<1>3. CASE Exiting!Kill(p)
  BY <1>3 DEF Exiting!Kill
<1>4. CASE Exiting!GiveUp(p)
  BY <1>4 DEF Exiting!GiveUp
<1>5. CASE Exiting!Removed(p)
  BY <1>5 DEF Exiting!Removed
<1>6. CASE Exiting!Interrupt(p)
  <2>1. abandoned' \in BOOLEAN /\ (abandoned => abandoned') /\ (stop[p] = "term" => abandoned')
    BY <1>6, Zenon DEF Exiting!Interrupt
  <2>2. /\ stop' = [stop EXCEPT ![p] = "idle"] /\ todo' = [todo EXCEPT ![p] = << >>]
        /\ lock' = (IF lock = p THEN None ELSE lock) /\ dm' = dm
    BY <1>6, Zenon DEF Exiting!Interrupt
  <2>3. << >> \in Seq({"load", "save"})
    OBVIOUS
  <2>4. ExitTypes' /\ HeldInCalls'
    BY <2>1, <2>2, <2>3
  <2>5. ASSUME dm = "handling", NEW q \in Procs, stop[q] = "term", ~abandoned'
        PROVE  stop'[q] = "term"
    BY <2>1, <2>2, <2>5
  <2>6. SignalsAreFollowedUp'
    BY <2>1, <2>2, <2>5
  <2> QED
    BY <2>4, <2>6
<1> QED
  BY <1>1, <1>2, <1>3, <1>4, <1>5, <1>6

LEMMA ExitStep == CallersDiffer /\ ExitInv /\ [Exiting!Next]_Exiting!vars => ExitInv'
<1> SUFFICES ASSUME CallersDiffer, ExitInv, [Exiting!Next]_Exiting!vars PROVE ExitInv'
  OBVIOUS
<1>1. CASE UNCHANGED Exiting!vars
  BY <1>1 DEF Exiting!vars, ExitInv, ExitTypes, HeldInCalls, SignalsAreFollowedUp
<1>2. CASE Exiting!Next
  BY <1>2, CallKeepsExitInv, DaemonKeepsExitInv, StopperKeepsExitInv DEF Exiting!Next
<1> QED
  BY <1>1, <1>2

\* Whoever has the flock on registry.json can go on, or a SIGKILL is due to the
\* daemon that waits for itself, unless that daemon was left alone.
THEOREM LockGoesOn == MCSpec => []NobodyWaitsForEver
<1> DEFINE I == IsExiting => ExitInv
<1>1. CallersDiffer
  BY StoresAssumption DEF CallersDiffer, Exiting!Callers, Exiting!OfDaemon
<1>2. MCInit => I
  BY <1>1, ExitInitIsFine DEF MCInit, NoExit, IsExiting
<1>3. I /\ [MCNext]_<<vars, storeVars, exitVars>> => I'
  <2> SUFFICES ASSUME I, [MCNext]_<<vars, storeVars, exitVars>>, IsExiting' PROVE ExitInv'
    OBVIOUS
  <2>1. CASE UNCHANGED exitVars
    <3>1. ExitInv
      BY <2>1 DEF IsExiting, exitVars
    <3> QED
      BY <1>1, <2>1, <3>1, ExitStep DEF exitVars, Exiting!vars
  <2>2. CASE IsExiting /\ Exiting!Next
    BY <1>1, <2>2, ExitStep
  <2> QED
    BY <2>1, <2>2 DEF MCNext
<1>4. I => NobodyWaitsForEver
  BY <1>1, ExitInvIsEnough DEF NobodyWaitsForEver
<1> QED
  BY <1>2, <1>3, <1>4, PTL DEF MCSpec

(***************************************************************************)
(* The stores of a session: the theorems of ConfigStoresProofs.            *)
(***************************************************************************)
Keeping == INSTANCE ConfigStoresProofs WITH
  file <- stores, pc <- commands, op <- edits, snap <- saving, disturbed <- overlapped

\* The operators that actions use are the same.
LEMMA SameOperators ==
  /\ Keeping!Stores = Stored!Stores /\ Keeping!Ops = Stored!Ops
  /\ Keeping!EmptyFile = Stored!EmptyFile /\ Keeping!NoCursors = Stored!NoCursors
  /\ \A kind : Keeping!StoreOf(kind) = Stored!StoreOf(kind)
  /\ \A f, doc : Keeping!Written(f, doc) = Stored!Written(f, doc)
  /\ \A store : Keeping!Loaded(store) = Stored!Loaded(store)
  /\ \A doc, name : Keeping!Has(doc, name) <=> Stored!Has(doc, name)
  /\ \A doc, name : Keeping!BodyOf(doc, name) = Stored!BodyOf(doc, name)
  /\ \A o, doc : Keeping!Edited(o, doc) = Stored!Edited(o, doc)
  /\ \A o, store : Keeping!Refused(o, store) <=> Stored!Refused(o, store)
  /\ \A o : Keeping!Holding(o) = Stored!Holding(o)
<1>1. Keeping!Stores = Stored!Stores
  BY DEF Keeping!Stores, Stored!Stores
<1>2. Keeping!Ops = Stored!Ops
  BY DEF Keeping!Ops, Stored!Ops
<1>3. Keeping!EmptyFile = Stored!EmptyFile /\ Keeping!NoCursors = Stored!NoCursors
  BY DEF Keeping!EmptyFile, Stored!EmptyFile, Keeping!NoCursors, Stored!NoCursors
<1>4. \A kind : Keeping!StoreOf(kind) = Stored!StoreOf(kind)
  BY DEF Keeping!StoreOf, Stored!StoreOf
<1>5. \A doc : Keeping!SizeOf(doc) = Stored!SizeOf(doc)
  BY DEF Keeping!SizeOf, Stored!SizeOf, Keeping!Parts, Stored!Parts, Keeping!Cardinality, Stored!Cardinality
<1>6. \A f, doc : Keeping!Written(f, doc) = Stored!Written(f, doc)
  BY <1>5 DEF Keeping!Written, Stored!Written
<1>7. \A store : Keeping!Loaded(store) = Stored!Loaded(store)
  BY DEF Keeping!Loaded, Stored!Loaded
<1>8. \A doc, name : Keeping!At(doc, name) = Stored!At(doc, name)
  BY DEF Keeping!At, Stored!At, Keeping!SelectInSeq, Stored!SelectInSeq, Keeping!Min, Stored!Min
<1>9. \A doc, name : Keeping!Has(doc, name) <=> Stored!Has(doc, name)
  BY <1>8 DEF Keeping!Has, Stored!Has
<1>10. \A doc, name : Keeping!BodyOf(doc, name) = Stored!BodyOf(doc, name)
  BY <1>8 DEF Keeping!BodyOf, Stored!BodyOf
<1>11. \A name, body : Keeping!Entry(name, body) = Stored!Entry(name, body)
  BY DEF Keeping!Entry, Stored!Entry
<1>12. \A doc, name, body : Keeping!ToBack(doc, name, body) = Stored!ToBack(doc, name, body)
  BY <1>8, <1>11 DEF Keeping!ToBack, Stored!ToBack, Keeping!RemoveAt, Stored!RemoveAt
<1>13. \A body, signal : Keeping!Dropped(body, signal) = Stored!Dropped(body, signal)
  BY DEF Keeping!Dropped, Stored!Dropped, Keeping!RemoveAt, Stored!RemoveAt, Keeping!SelectInSeq, Stored!SelectInSeq, Keeping!Min, Stored!Min
<1>14. \A o, doc : Keeping!Edited(o, doc) = Stored!Edited(o, doc)
  <2>1. \A d, S : Keeping!Picked(d, S) = Stored!Picked(d, S)
    BY DEF Keeping!Picked, Stored!Picked, Keeping!Nth, Stored!Nth, Keeping!Rank, Stored!Rank,
       Keeping!Cardinality, Stored!Cardinality
  <2>2. \A s, i : Keeping!RemoveAt(s, i) = Stored!RemoveAt(s, i)
    BY DEF Keeping!RemoveAt, Stored!RemoveAt
  <2> QED
    BY <1>10, <1>11, <1>12, <1>13, <2>1, <2>2 DEF Keeping!Edited, Stored!Edited
<1>15. \A o, store : Keeping!Refused(o, store) <=> Stored!Refused(o, store)
  <2>1. \A s, x : Keeping!Contains(s, x) <=> Stored!Contains(s, x)
    BY DEF Keeping!Contains, Stored!Contains
  <2> QED
    BY <1>7, <1>9, <1>10, <2>1, Zenon DEF Keeping!Refused, Stored!Refused
<1>16. \A o : Keeping!Holding(o) = Stored!Holding(o)
  BY <1>13 DEF Keeping!Holding, Stored!Holding, Keeping!RemoveAt, Stored!RemoveAt
<1> QED
  BY <1>1, <1>2, <1>3, <1>4, <1>6, <1>7, <1>9, <1>10, <1>14, <1>15, <1>16

\* So are its steps, and what it says of them.
LEMMA SameStores ==
  /\ Keeping!Init <=> Stored!Init
  /\ Keeping!Next <=> Stored!Next
  /\ UNCHANGED storeVars => UNCHANGED Keeping!vars
<1>1. Keeping!Init <=> Stored!Init
  BY SameOperators DEF Keeping!Init, Stored!Init
<1>2. \A p, o : Keeping!Call(p, o) <=> Stored!Call(p, o)
  BY SameOperators DEF Keeping!Call, Stored!Call, Keeping!MayCall, Stored!MayCall, Keeping!Goto, Stored!Goto,
     Keeping!history, Stored!history
<1>3. \A p : Keeping!Check(p) <=> Stored!Check(p)
  BY SameOperators DEF Keeping!Check, Stored!Check, Keeping!Goto, Stored!Goto, Keeping!history, Stored!history
<1>4. \A p : Keeping!CheckCut(p) <=> Stored!CheckCut(p)
  BY SameOperators DEF Keeping!CheckCut, Stored!CheckCut, Keeping!Goto, Stored!Goto
<1>5. \A p : Keeping!Load(p) <=> Stored!Load(p)
  BY SameOperators DEF Keeping!Load, Stored!Load, Keeping!Goto, Stored!Goto, Keeping!Editing, Stored!Editing
<1>6. \A p : Keeping!Truncate(p) <=> Stored!Truncate(p)
  BY SameOperators DEF Keeping!Truncate, Stored!Truncate, Keeping!Goto, Stored!Goto, Keeping!history, Stored!history
<1>7. \A p : Keeping!Write(p) <=> Stored!Write(p)
  BY SameOperators DEF Keeping!Write, Stored!Write, Keeping!Goto, Stored!Goto
<1>8. \A p : Keeping!Crash(p) <=> Stored!Crash(p)
  BY SameOperators DEF Keeping!Crash, Stored!Crash, Keeping!Goto, Stored!Goto
<1>9. \A n : Keeping!Query(n) <=> Stored!Query(n)
  BY SameOperators DEF Keeping!Query, Stored!Query, Keeping!MayCall, Stored!MayCall, Keeping!client,
     Stored!client, Keeping!history, Stored!history
<1>10. Keeping!DaemonDies <=> Stored!DaemonDies
  BY SameOperators DEF Keeping!DaemonDies, Stored!DaemonDies, Keeping!MayCall, Stored!MayCall, Keeping!client,
     Stored!client, Keeping!history, Stored!history
<1>11. Keeping!DaemonLeaves <=> Stored!DaemonLeaves
  BY SameOperators DEF Keeping!DaemonLeaves, Stored!DaemonLeaves, Keeping!MayCall, Stored!MayCall,
     Keeping!Editing, Stored!Editing
<1>12. \A n, a : Keeping!CursorSet(n, a) <=> Stored!CursorSet(n, a)
  BY SameOperators DEF Keeping!CursorSet, Stored!CursorSet, Keeping!MayCall, Stored!MayCall, Keeping!Saved,
     Stored!Saved, Keeping!client, Stored!client, Keeping!history, Stored!history
<1>13. \A n : Keeping!CursorDelete(n) <=> Stored!CursorDelete(n)
  BY SameOperators DEF Keeping!CursorDelete, Stored!CursorDelete, Keeping!MayCall, Stored!MayCall, Keeping!Saved,
     Stored!Saved, Keeping!client, Stored!client, Keeping!history, Stored!history
<1>14. \A n : Keeping!CursorUse(n) <=> Stored!CursorUse(n)
  BY SameOperators DEF Keeping!CursorUse, Stored!CursorUse, Keeping!MayCall, Stored!MayCall, Keeping!Saved,
     Stored!Saved, Keeping!client, Stored!client, Keeping!history, Stored!history
<1>15. Keeping!Next <=> Stored!Next
  BY SameOperators, <1>2, <1>3, <1>4, <1>5, <1>6, <1>7, <1>8, <1>9, <1>10, <1>11, <1>12, <1>13, <1>14 DEF
     Keeping!Next, Stored!Next
<1>16. UNCHANGED storeVars => UNCHANGED Keeping!vars
  BY DEF storeVars, Keeping!vars, Keeping!client, Keeping!history
<1> QED
  BY <1>1, <1>15, <1>16


LEMMA SameProperties ==
  /\ Keeping!NamesAreUnique <=> Stored!NamesAreUnique
  /\ Keeping!ListedSignalsExist <=> Stored!ListedSignalsExist
  /\ Keeping!SerialListsAreKept <=> Stored!SerialListsAreKept
  /\ Keeping!CachedIsStored <=> Stored!CachedIsStored
  /\ Keeping!ActiveCursorExists <=> Stored!ActiveCursorExists
<1>1. Keeping!NamesAreUnique <=> Stored!NamesAreUnique
  BY SameOperators DEF Keeping!NamesAreUnique, Stored!NamesAreUnique
<1>2. Keeping!ListedSignalsExist <=> Stored!ListedSignalsExist
  BY DEF Keeping!ListedSignalsExist, Stored!ListedSignalsExist, Keeping!ToSet, Stored!ToSet
<1>3. Keeping!SerialListsAreKept <=> Stored!SerialListsAreKept
  BY SameOperators DEF Keeping!SerialListsAreKept, Stored!SerialListsAreKept, Keeping!Last, Stored!Last
<1>4. Keeping!CachedIsStored <=> Stored!CachedIsStored
  BY SameOperators DEF Keeping!CachedIsStored, Stored!CachedIsStored
<1>5. Keeping!ActiveCursorExists <=> Stored!ActiveCursorExists
  BY DEF Keeping!ActiveCursorExists, Stored!ActiveCursorExists
<1> QED
  BY <1>1, <1>2, <1>3, <1>4, <1>5

\* The inductive invariant of the stores holds in every behaviour of the run.
StoresKept == IsStored => Keeping!IInv

LEMMA StoresAreKept == MCSpec => []StoresKept
<1>1. Keeping!StoresDiffer
  BY StoresAssumption DEF Keeping!StoresDiffer
<1>2. MCInit => StoresKept
  BY Keeping!InitIsFine, SameStores DEF MCInit, NoStores, IsStored, StoresKept
<1>3. StoresKept /\ [MCNext]_<<vars, storeVars, exitVars>> => StoresKept'
  <2> SUFFICES ASSUME StoresKept, [MCNext]_<<vars, storeVars, exitVars>>, IsStored' PROVE Keeping!IInv'
    BY DEF StoresKept
  <2>1. CASE UNCHANGED storeVars
    <3>1. Keeping!IInv
      BY <2>1 DEF IsStored, storeVars, StoresKept
    <3> QED
      BY <1>1, <2>1, <3>1, Keeping!StepKeepsIInv, SameStores
  <2>2. CASE IsStored /\ Stored!Next
    BY <1>1, <2>2, Keeping!StepKeepsIInv, SameStores DEF StoresKept
  <2> QED
    BY <2>1, <2>2 DEF MCNext
<1> QED
  BY <1>2, <1>3, PTL DEF MCSpec

\* create_list, create_apb, create_event: no store ever has two entries of one
\* name, however commands overlap and wherever one is killed.
THEOREM StoreNamesAreUnique == MCSpec => []NamesAreUnique
<1>1. StoresKept => NamesAreUnique
  BY Keeping!IInvGivesUnique, SameProperties DEF StoresKept, NamesAreUnique
<1> QED
  BY <1>1, StoresAreKept, PTL

\* list add: only signals that were looked up and found are listed, unless a
\* daemon died over a lookup.
THEOREM StoreListsExist == MCSpec => []ListedSignalsExist
<1>1. StoresKept => ListedSignalsExist
  BY Keeping!IInvGivesListed, SameProperties DEF StoresKept, ListedSignalsExist
<1> QED
  BY <1>1, StoresAreKept, PTL

\* Lists whose edits took turns hold what was added and not deleted, in order,
\* and the last of the file is the one edited last.
THEOREM SerialEditsOfLists == MCSpec => []SerialListsAreKept
<1>1. StoresKept => SerialListsAreKept
  BY Keeping!IInvGivesSerial, SameProperties DEF StoresKept, SerialListsAreKept
<1> QED
  BY <1>1, StoresAreKept, PTL

\* A result that a daemon has cached under a name is of the configuration stored
\* under that name, as long as edits take turns.
THEOREM CacheIsOfTheStore == MCSpec => []CachedIsStored
<1>1. StoresKept => CachedIsStored
  BY Keeping!IInvGivesCached, SameProperties DEF StoresKept, CachedIsStored
<1> QED
  BY <1>1, StoresAreKept, PTL

\* The active cursor is one there is.
THEOREM CursorExists == MCSpec => []ActiveCursorExists
<1>1. StoresKept => ActiveCursorExists
  BY Keeping!IInvGivesCursor, SameProperties DEF StoresKept, ActiveCursorExists
<1> QED
  BY <1>1, StoresAreKept, PTL
===============================================================================
