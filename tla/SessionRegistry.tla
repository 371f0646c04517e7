-------------------------- MODULE SessionRegistry --------------------------
(***************************************************************************)
(* The registry file protocol of src/session/session_registry.cpp.         *)
(*                                                                         *)
(* Every xwave command and every daemon edits registry.json by a load of   *)
(* the whole file, an edit of the list in memory and a save of the whole   *)
(* file.  load_all reads under flock; save_all opens with O_TRUNC first,   *)
(* takes the flock second and writes third, at offset 0.  No lock spans    *)
(* the load and the save.  A load holds the flock for one read, and a save *)
(* for one write: the flock makes each of the two atomic and nothing more, *)
(* so it is represented by their being single steps, while the truncation, *)
(* which needs no lock, is a step of its own.                              *)
(*                                                                         *)
(* truth is what the file would hold had each edit been applied atomically *)
(* when it was written.  disturbed is set when an edit starts inside       *)
(* another's, or a process dies inside its own.                            *)
(***************************************************************************)
EXTENDS RegistryDoc

CONSTANTS
  Procs,      \* processes that use the registry: commands and daemons
  Ids,        \* session ids
  Pids,       \* values of server_pid
  OpsPerProc  \* bound: calls each process makes

ASSUME OpsAssumption == OpsPerProc \in Nat

VARIABLES
  file,       \* registry.json: does it parse, to which list, how long is it
  dirs,       \* sessions that have a directory under ~/.xwave/sessions
  pc,         \* where each process is in its call
  op,         \* the call: kind, id, pid, and for cleanup the dead sessions
  snap,       \* the list a process is about to save
  left,       \* calls each process may still make
  truth,      \* history: the edits applied atomically
  disturbed   \* history: two edits overlapped, or one was cut short

vars == <<file, dirs, pc, op, snap, left, truth, disturbed>>
unchangedHistory == UNCHANGED <<truth, disturbed>>

Record == [id : Ids, pid : Pids]
Kinds == {"get", "add", "upsert", "touch", "remove", "cleanup_stale", "clear_all"}
Op == [kind : Kinds, id : Ids, pid : Pids, dead : SUBSET Ids]

-----------------------------------------------------------------------------
\* The text grows with the number of records; an empty list is not an empty file.
SizeOf(doc) == Len(doc) + 1
EmptyFile == [ok |-> TRUE, doc |-> << >>, size |-> 0]

\* A write at offset 0 of a file that was not truncated since: a shorter text
\* leaves the tail of the longer one behind it, which the parser rejects.
Overwritten(f, doc) ==
  IF f = EmptyFile \/ f.size <= SizeOf(doc)
  THEN [ok |-> TRUE, doc |-> doc, size |-> SizeOf(doc)]
  ELSE [ok |-> FALSE, doc |-> << >>, size |-> f.size]

\* load_all: no file and an empty file are an empty list; a text the parser
\* rejects is an empty list and FALSE.
LoadOk == file.ok
Loaded == file.doc

\* The list each call saves, given the list it loaded.
Edited(o, doc) ==
  CASE o.kind = "add"           -> Append(doc, [id |-> o.id, pid |-> o.pid])
    [] o.kind \in {"upsert", "touch"} -> Upserted(doc, [id |-> o.id, pid |-> o.pid])
    [] o.kind = "remove"        -> Without(doc, {o.id})
    [] o.kind = "cleanup_stale" -> Without(doc, o.dead)
    [] o.kind = "clear_all"     -> << >>
    [] OTHER                    -> doc

\* A process is editing from its first load to the end of its call.
Editing(p) == pc[p] \in {"got", "loaded", "truncated", "written", "purge"}
OthersEditing(p) == \E q \in Procs \ {p} : Editing(q)

Goto(p, l) == pc' = [pc EXCEPT ![p] = l]
-----------------------------------------------------------------------------
Init ==
  /\ file = EmptyFile
  /\ dirs = {}
  /\ pc = [p \in Procs |-> "idle"]
  /\ op \in [Procs -> {[kind |-> "get", id |-> i, pid |-> n, dead |-> {}] : i \in Ids, n \in Pids}]
  /\ snap = [p \in Procs |-> << >>]
  /\ left = [p \in Procs |-> OpsPerProc]
  /\ truth = << >>
  /\ disturbed = FALSE

\* create_session and restart_session edit under registry.lock, and only after
\* exists found no record, or get found one; no other caller takes the lock.
HoldsRegistryLock(p) == pc[p] # "idle" /\ op[p].kind \in {"add", "upsert"}
Callable(p, o) ==
  /\ o.kind \in {"add", "upsert"} => \A q \in Procs \ {p} : ~HoldsRegistryLock(q)
  /\ o.kind = "add" => o.id \notin IdsOf(Loaded)
  /\ o.kind = "upsert" => o.id \in IdsOf(Loaded)
  /\ o.kind # "cleanup_stale" => o.dead = {}

\* A process calls one of the registry's methods.
Call(p) ==
  /\ pc[p] = "idle" /\ left[p] > 0
  /\ left' = [left EXCEPT ![p] = @ - 1]
  /\ \E o \in Op :
       /\ Callable(p, o)
       /\ op' = [op EXCEPT ![p] = o]
  /\ Goto(p, "load")
  /\ UNCHANGED <<file, dirs, snap>> /\ unchangedHistory

\* exists and get: a load, and nothing is written.
Get(p) ==
  /\ pc[p] = "load" /\ op[p].kind = "get"
  /\ Goto(p, "idle")
  /\ UNCHANGED <<file, dirs, op, snap, left>> /\ unchangedHistory

\* touch looks the record up first and returns if it is not there.
TouchGet(p) ==
  /\ pc[p] = "load" /\ op[p].kind = "touch"
  /\ IF LoadOk /\ op[p].id \in IdsOf(Loaded)
     THEN /\ op' = [op EXCEPT ![p].pid = Find(Loaded, op[p].id).pid]
          /\ Goto(p, "got")
     ELSE Goto(p, "idle") /\ UNCHANGED op
  /\ disturbed' = (disturbed \/ OthersEditing(p))
  /\ UNCHANGED <<file, dirs, snap, left, truth>>

\* remove and cleanup_stale stop when the file does not parse, remove also when
\* it has no such record; add, upsert and clear_all carry on from an empty list.
Refused(o) ==
  \/ ~LoadOk /\ o.kind \in {"remove", "cleanup_stale"}
  \/ o.kind = "remove" /\ o.id \notin IdsOf(Loaded)

\* The directories a call removes between its load and its save.
Purged(o) ==
  CASE o.kind = "cleanup_stale" -> o.dead \cap IdsOf(Loaded)
    [] o.kind = "clear_all"     -> IdsOf(Loaded)
    [] OTHER                    -> {}

\* The load an edit is based on, and the edit in memory.
Load(p) ==
  /\ \/ pc[p] = "load" /\ op[p].kind \notin {"get", "touch"}
     \/ pc[p] = "got"
  /\ IF Refused(op[p])
     THEN Goto(p, "idle") /\ UNCHANGED <<dirs, snap>>
     ELSE /\ snap' = [snap EXCEPT ![p] = Edited(op[p], Loaded)]
          /\ dirs' = dirs \ Purged(op[p])
          /\ Goto(p, "loaded")
  /\ disturbed' = (disturbed \/ OthersEditing(p))
  /\ UNCHANGED <<file, op, left, truth>>

\* Mutant of Truncate: the file is opened without O_TRUNC.
OpenWithoutTruncate(p) ==
  /\ pc[p] = "loaded"
  /\ Goto(p, "truncated")
  /\ UNCHANGED <<file, dirs, op, snap, left>> /\ unchangedHistory

\* save_all: open(O_TRUNC), before any lock is taken.
Truncate(p) ==
  /\ pc[p] = "loaded"
  /\ file' = EmptyFile
  /\ Goto(p, "truncated")
  /\ UNCHANGED <<dirs, op, snap, left>> /\ unchangedHistory

\* save_all: flock, write, unlock.
Write(p) ==
  /\ pc[p] = "truncated"
  /\ file' = Overwritten(file, snap[p])
  /\ truth' = Edited(op[p], truth)
  /\ Goto(p, "written")
  /\ UNCHANGED <<dirs, op, snap, left, disturbed>>

\* Mutant of WriteSessionFiles: the directory is named after the pid, through the
\* overload of xwave_ensure_session_dir that takes a number.
WriteSessionFilesByPid(p) ==
  /\ pc[p] = "written"
  /\ dirs' = dirs \cup {snap[p][i].pid : i \in DOMAIN snap[p]}
  /\ Goto(p, IF op[p].kind = "remove" THEN "purge" ELSE "idle")
  /\ UNCHANGED <<file, op, snap, left>> /\ unchangedHistory

\* save_all writes session.json of every session it saved, making its directory.
WriteSessionFiles(p) ==
  /\ pc[p] = "written"
  /\ dirs' = dirs \cup IdsOf(snap[p])
  /\ Goto(p, IF op[p].kind = "remove" THEN "purge" ELSE "idle")
  /\ UNCHANGED <<file, op, snap, left>> /\ unchangedHistory

\* Mutant of RemoveDir: remove ends with the save.
RemoveDirForgotten(p) ==
  /\ pc[p] = "purge"
  /\ Goto(p, "idle")
  /\ UNCHANGED <<file, dirs, op, snap, left>> /\ unchangedHistory

\* remove deletes the session's directory last.
RemoveDir(p) ==
  /\ pc[p] = "purge"
  /\ dirs' = dirs \ {op[p].id}
  /\ Goto(p, "idle")
  /\ UNCHANGED <<file, op, snap, left>> /\ unchangedHistory

\* The process is killed (SIGKILL, or ^C of a command) inside a call.
Crash(p) ==
  /\ pc[p] # "idle"
  /\ Goto(p, "idle")
  /\ disturbed' = TRUE
  /\ UNCHANGED <<file, dirs, op, snap, left, truth>>

Done == (\A p \in Procs : pc[p] = "idle" /\ left[p] = 0) /\ UNCHANGED vars

Next ==
  \/ \E p \in Procs :
       \/ Call(p) \/ Get(p) \/ TouchGet(p) \/ Load(p) \/ Truncate(p)
       \/ Write(p) \/ WriteSessionFiles(p) \/ RemoveDir(p) \/ Crash(p)
  \/ Done

Spec == Init /\ [][Next]_vars
-----------------------------------------------------------------------------
TypeOK ==
  /\ file \in [ok : BOOLEAN, doc : Seq(Record), size : Nat]
  /\ dirs \subseteq Ids
  /\ pc \in [Procs -> {"idle", "load", "got", "loaded", "truncated", "written", "purge"}]
  /\ op \in [Procs -> Op]
  /\ snap \in [Procs -> Seq(Record)]
  /\ left \in [Procs -> 0 .. OpsPerProc]
  /\ truth \in Seq(Record)
  /\ disturbed \in BOOLEAN

\* The read-edit-write of session_registry.cpp is right exactly when edits take
\* turns: unless two of them overlapped or one died, a file nobody is saving
\* holds every edit made so far (load_all, save_all).
SerialEditsAreKept ==
  ~disturbed /\ (\A p \in Procs : pc[p] # "truncated") => file.ok /\ file.doc = truth

\* Under the same condition, between calls, exactly the sessions with a record
\* have a directory: write_session_file makes it, remove, cleanup_stale and
\* clear_all delete it.
DirsFollowRecords ==
  ~disturbed /\ (\A p \in Procs : ~Editing(p)) => dirs = IdsOf(truth)

\* session_registry.h: "File locking for concurrent access".  An edit of one
\* session does not take another session's record out of the file.
OnlyOwnRecordsDropped ==
  [][\A p \in Procs : Write(p) /\ op[p].kind \in {"add", "upsert", "touch", "remove"} =>
       IdsOf(truth) \ {op[p].id} \subseteq IdsOf(file'.doc)]_vars
=============================================================================
