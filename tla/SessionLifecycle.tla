-------------------------- MODULE SessionLifecycle --------------------------
(***************************************************************************)
(* Sessions: the commands that open, query, restart, kill and clean up     *)
(* sessions (src/session/session_manager.cpp, src/client/client.cpp) and   *)
(* the daemons they fork (server_main and handle_client in                 *)
(* src/server/server.cpp).  They share the registry, registry.lock, the    *)
(* session directories, the socket path in each of them and the FSDB file. *)
(*                                                                         *)
(* One load or one save of the registry is one step here; what happens     *)
(* inside a save is SessionRegistry's subject.  A version of the FSDB file *)
(* stands for its fingerprint (mtime, size, device, inode) and contents.   *)
(* Pids are not reused.  Nothing in src/ changes how SIGPIPE is handled,   *)
(* so a daemon that answers a peer that is gone dies of it.                *)
(*                                                                         *)
(* Each load and each save takes the flock on registry.json.  A daemon     *)
(* whose SIGTERM handler interrupts one of its own keeps that flock, and   *)
(* waits for it in the handler; so does everybody else then.               *)
(***************************************************************************)
EXTENDS RegistryDoc

CONSTANTS
  Clients,      \* xwave command processes
  Pids,         \* daemon processes that may be forked
  Ids,          \* session ids
  Commands,     \* the commands run: a subset of AllCommands
  MaxVersion,   \* bound: how often the FSDB file is rewritten
  OpsPerClient, \* bound: commands each client runs
  MaxCrashes,   \* bound: processes interrupted or killed from outside
  CanIdle,      \* whether a session is left alone for its idle timeout
  NoPid, NoClient

AllCommands == {"open", "config", "query", "kill", "list", "gc", "killAll"}

ASSUME LifecycleAssumption ==
  /\ MaxVersion \in Nat /\ OpsPerClient \in Nat /\ MaxCrashes \in Nat
  /\ Commands \subseteq AllCommands /\ CanIdle \in BOOLEAN /\ Ids # {}
  /\ NoPid \notin Pids /\ NoClient \notin Clients /\ Clients \cap Pids = {}

VARIABLES
  fsdb,    \* version of the FSDB file on disk
  reg,     \* registry.json: sequence of [id, pid, fp]
  dir,     \* each session directory: "none", "bare", or with "configs"
  sock,    \* the daemon bound to each session's socket path, dead or alive
  lock,    \* processes that hold the locked description of registry.lock
  dm,      \* daemons
  cl,      \* clients
  left,    \* commands each client may still run
  crashes  \* crashes that may still happen

vars == <<fsdb, reg, dir, sock, lock, dm, cl, left, crashes>>

Version == 0 .. MaxVersion
Record == [id : Ids, pid : Pids, fp : Version]
AnyId == CHOOSE i \in Ids : TRUE
NoRecord == [id |-> AnyId, pid |-> NoPid, fp |-> 0]

\* A daemon: what it stat'ed (fp) and opened (data), the client it serves, the
\* version it checked against (asof), QUIT ("late" when it was busy), the
\* connections in its backlog whose peer has gone, and its signal handler: off, on,
\* or on with registry.json "locked" by the call it interrupted.
Starting == {"forked", "stated", "opened"}
Busy == {"touching", "touched", "answering"}
Listening == {"serving"} \cup Busy
Ending == {"exiting", "removing", "saving"}
Running == Starting \cup Listening \cup Ending
InRegistry == {"touching", "touched", "removing", "saving"}
Unborn == [pc |-> "unborn", id |-> AnyId, fp |-> 0, data |-> 0,
           client |-> NoClient, asof |-> 0, quit |-> "no", gone |-> {}, snap |-> << >>,
           handler |-> "off"]
Dead == [Unborn EXCEPT !.pc = "dead"]

\* A client: the record it got, the daemon it forked, the daemon it is
\* connected to, the list it is about to save, the sessions that gc and kill all
\* still have to stop, and its last answer.
NoReply == [kind |-> "none", data |-> 0, asof |-> 0]
Idle == [pc |-> "idle", cmd |-> "list", id |-> AnyId, rec |-> NoRecord,
         new |-> NoPid, srv |-> NoPid, snap |-> << >>, todo |-> << >>, reply |-> NoReply]
InOpen == {"clean", "cleanSave", "exists", "wait", "addLoad", "addSave", "check",
           "termNew", "rmLoad", "rmSave", "unlink"}
InRestart == {"restartGet", "stop", "stopWait", "termWait", "stopped", "wait",
              "upsertLoad", "upsertSave"}
\* create_session and restart_session, from flock to their last return.
Critical(c) ==
  \/ cl[c].cmd = "open" /\ cl[c].pc \in InOpen
  \/ cl[c].cmd \in {"config", "query"} /\ cl[c].pc \in InRestart

\* stop_process, with the removal of the record.
InStop == {"stop", "stopWait", "termWait", "stopped", "rmLoad", "rmSave"}
InRequest == {"idle", "ensure", "lockRestart", "connect", "waiting"} \cup InRestart
Path(cmd) ==
  CASE cmd = "open" -> {"idle", "lockOpen"} \cup InOpen
    [] cmd \in {"config", "query"} -> InRequest
    [] cmd = "kill" -> {"idle", "killCheck", "killTerm", "killWait"} \cup InStop
    [] cmd = "list" -> {"idle", "clean", "cleanSave"}
    [] cmd = "gc" -> {"idle", "clean", "cleanSave", "listed", "each"} \cup InStop
    [] cmd = "killAll" -> {"idle", "clean", "cleanSave", "listed", "each", "killCheck", "killTerm",
                           "killWait", "clear", "clearSave"} \cup InStop
ClientPc == UNION {Path(cmd) : cmd \in AllCommands}
-----------------------------------------------------------------------------
Init ==
  /\ fsdb = 0
  /\ reg = << >>
  /\ dir = [i \in Ids |-> "none"]
  /\ sock = [i \in Ids |-> NoPid]
  /\ lock = {}
  /\ dm = [p \in Pids |-> Unborn]
  /\ cl = [c \in Clients |-> Idle]
  /\ left = [c \in Clients |-> OpsPerClient]
  /\ crashes = MaxCrashes

Alive(p) == p \in Pids /\ dm[p].pc \in Running
Known(i) == i \in IdsOf(reg)

\* What a load or a save waits for.
RegistryFree == \A p \in Pids : dm[p].handler # "locked"

\* xwave_remove_session_dir takes the socket file with the directory.
RemoveDirs(S) ==
  /\ dir' = [i \in Ids |-> IF i \in S THEN "none" ELSE dir[i]]
  /\ sock' = [i \in Ids |-> IF i \in S THEN NoPid ELSE sock[i]]

\* save_all: the list, then a directory for each session in it.
Saved(doc) == [i \in Ids |-> IF i \in IdsOf(doc) /\ dir[i] = "none" THEN "bare" ELSE dir[i]]
Save(doc) == RegistryFree /\ reg' = doc /\ dir' = Saved(doc) /\ UNCHANGED sock

\* remove, its second half: save the list without the session, then its directory.
SaveAndRemoveDir(doc, i) ==
  /\ RegistryFree
  /\ reg' = doc
  /\ dir' = [Saved(doc) EXCEPT ![i] = "none"]
  /\ sock' = [sock EXCEPT ![i] = NoPid]

\* SIGKILL, and what SIGTERM does.  Before the handler is installed it kills; then
\* cleanup_and_exit runs, without unlinking when there is no socket path yet, and
\* while it runs another SIGTERM waits.  It closes the socket but not the connection
\* being served, and where it interrupts the registry's code that may have the flock.
\* Each is a set of next values of the running daemon p.
Killed(p) == {Dead}
Handled(p, h) == [dm[p] EXCEPT !.pc = "exiting", !.asof = 0, !.gone = {}, !.quit = "no",
                               !.snap = << >>, !.handler = h]
Terminated(p) ==
  CASE dm[p].pc \in {"forked", "stated"} -> {Dead}
    [] dm[p].handler # "off" -> {dm[p]}
    [] dm[p].handler = "off" /\ dm[p].pc = "opened" -> {Dead, [dm[p] EXCEPT !.pc = "removing", !.handler = "on"]}
    [] dm[p].handler = "off" /\ dm[p].pc \in InRegistry -> {Handled(p, "on"), Handled(p, "locked")}
    [] OTHER -> {Handled(p, "on")}

\* A daemon that is gone no longer holds what it inherited of registry.lock.
DaemonTo(p, d) ==
  /\ dm' = [dm EXCEPT ![p] = d]
  /\ lock' = IF d.pc = "dead" THEN lock \ {p} ELSE lock

\* A signal to a process that is gone does nothing.
Signal(p, outcomes) ==
  IF Alive(p) THEN \E d \in outcomes : DaemonTo(p, d) ELSE UNCHANGED <<dm, lock>>

To(c, l) == cl' = [cl EXCEPT ![c].pc = l]
Finish(c) == cl' = [cl EXCEPT ![c] = [Idle EXCEPT !.cmd = cl[c].cmd, !.id = cl[c].id]]
Unlock == lock' = {}
-----------------------------------------------------------------------------
(* What commands share *)

\* fsdb_metadata_matches, and in the daemon fsdb_changed: the file on disk against
\* a fingerprint taken earlier.
FsdbMatches(rec) == rec.fp = fsdb
FsdbChanged(p) == dm[p].fp # fsdb

\* diagnose_session up to the ping: a record with the current fingerprint, a
\* live process of that pid, a socket file; then whoever listens must answer.
LooksAlive(i) ==
  /\ Known(i) /\ FsdbMatches(Find(reg, i)) /\ Alive(Find(reg, i).pid)
  /\ sock[i] # NoPid /\ dm[sock[i]].pc \in Listening
Healthy(i) == LooksAlive(i) /\ dm[sock[i]].pc = "serving" /\ dm[sock[i]].quit = "no"
Ill(i) == LooksAlive(i) => dm[sock[i]].quit # "no"

\* A busy daemon may leave the ping unanswered for two seconds; the ping then
\* stays in its backlog, its peer gone.
Diagnosed(i, healthy) ==
  /\ RegistryFree
  /\ \/ healthy /\ Healthy(i) /\ UNCHANGED dm
     \/ ~healthy /\ Ill(i) /\ UNCHANGED dm
     \/ /\ ~healthy /\ LooksAlive(i) /\ dm[sock[i]].pc \in Busy
        /\ dm' = [dm EXCEPT ![sock[i]].gone = @ \cup {"ping"}]

\* spawn_server; the child inherits the open registry.lock.
Fork(c, p, i) ==
  /\ dm' = [dm EXCEPT ![p] = [Unborn EXCEPT !.pc = "forked", !.id = i]]
  /\ cl' = [cl EXCEPT ![c].new = p, ![c].pc = "wait"]
  /\ lock' = lock \cup {p}
Forkable == {p \in Pids : dm[p].pc = "unborn"}

\* A command starts.  cmd_open looks whether the session exists, the others get
\* its record; list, gc and kill all go straight to cleanup, without the lock.
First(cmd) ==
  CASE cmd = "open" -> "lockOpen"
    [] cmd \in {"config", "query"} -> "ensure"
    [] cmd = "kill" -> "killCheck"
    [] cmd \in {"list", "gc", "killAll"} -> "clean"
Begin(c) ==
  /\ cl[c].pc = "idle" /\ left[c] > 0
  /\ left' = [left EXCEPT ![c] = @ - 1]
  /\ \E cmd \in Commands, i \in Ids :
       /\ First(cmd) = "clean" \/ RegistryFree
       /\ LET refused == (cmd = "open" /\ Known(i)) \/ (cmd \in {"config", "query", "kill"} /\ ~Known(i))
          IN cl' = [cl EXCEPT ![c] =
               [Idle EXCEPT !.cmd = cmd, !.id = i, !.pc = IF refused THEN "idle" ELSE First(cmd),
                            !.rec = IF Known(i) /\ cmd # "open" THEN Find(reg, i) ELSE NoRecord]]
  /\ UNCHANGED <<fsdb, reg, dir, sock, lock, dm, crashes>>

\* cleanup_stale: sessions whose process or socket is gone lose their directory,
\* then the rest is saved.
Stale(r) == ~Alive(r.pid) \/ sock[r.id] = NoPid
Clean(c) ==
  /\ cl[c].pc = "clean" /\ RegistryFree
  /\ LET stale == {n \in DOMAIN reg : Stale(reg[n])}
     IN /\ RemoveDirs({reg[n].id : n \in stale})
        /\ cl' = [cl EXCEPT ![c].pc = "cleanSave", ![c].snap = Picked(reg, DOMAIN reg \ stale)]
  /\ UNCHANGED <<fsdb, reg, lock, dm, left, crashes>>

CleanSave(c) ==
  /\ cl[c].pc = "cleanSave"
  /\ Save(cl[c].snap)
  /\ CASE cl[c].cmd = "open" -> To(c, "exists")
       [] cl[c].cmd = "list" -> Finish(c)
       [] OTHER -> To(c, "listed")
  /\ UNCHANGED <<fsdb, lock, dm, left, crashes>>

\* What follows remove.
Removed(c) ==
  CASE cl[c].cmd = "open" -> To(c, "unlink")
    [] cl[c].cmd = "kill" -> Finish(c)
    [] OTHER -> To(c, "each")

\* remove: nothing happens when the record is not there.
RemoveLoad(c) ==
  /\ cl[c].pc = "rmLoad" /\ RegistryFree
  /\ IF Known(cl[c].id)
     THEN cl' = [cl EXCEPT ![c].pc = "rmSave", ![c].snap = Without(reg, {cl[c].id})]
     ELSE Removed(c)
  /\ UNCHANGED <<fsdb, reg, dir, sock, lock, dm, left, crashes>>

RemoveSave(c) ==
  /\ cl[c].pc = "rmSave"
  /\ SaveAndRemoveDir(cl[c].snap, cl[c].id)
  /\ Removed(c)
  /\ UNCHANGED <<fsdb, lock, dm, left, crashes>>
-----------------------------------------------------------------------------
(* open: create_session *)

LockOpen(c) ==
  /\ cl[c].pc = "lockOpen" /\ lock = {}
  /\ lock' = {c}
  /\ To(c, "clean")
  /\ UNCHANGED <<fsdb, reg, dir, sock, dm, left, crashes>>

\* Looks again under the lock, makes the directory, if it can, and forks the daemon.
Exists(c) ==
  /\ cl[c].pc = "exists" /\ RegistryFree
  /\ IF Known(cl[c].id)
     THEN Finish(c) /\ Unlock /\ UNCHANGED <<dir, sock, dm>>
     ELSE \/ Finish(c) /\ Unlock /\ UNCHANGED <<dir, sock, dm>>
          \/ /\ Forkable # {}
             /\ Fork(c, CHOOSE p \in Forkable : TRUE, cl[c].id)
             /\ dir' = [dir EXCEPT ![cl[c].id] = IF @ = "none" THEN "bare" ELSE @]
             /\ UNCHANGED sock
          \/ /\ Forkable = {}
             /\ RemoveDirs({cl[c].id}) /\ Finish(c) /\ Unlock /\ UNCHANGED dm
  /\ UNCHANGED <<fsdb, reg, left, crashes>>

\* wait_for_server: whoever is bound to the path answers the ping.
Ready(i) == sock[i] # NoPid /\ dm[sock[i]].pc = "serving" /\ dm[sock[i]].quit = "no"
WaitReady(c) ==
  /\ cl[c].pc = "wait" /\ Ready(cl[c].id)
  /\ To(c, IF cl[c].cmd = "open" THEN "addLoad" ELSE "upsertLoad")
  /\ UNCHANGED <<fsdb, reg, dir, sock, lock, dm, left, crashes>>

\* Mutant of WaitFailed: the early return forgets the unlock.
WaitFailedKeepsLock(c) ==
  /\ cl[c].pc = "wait" /\ ~Ready(cl[c].id)
  /\ Signal(cl[c].new, Terminated(cl[c].new))
  /\ IF cl[c].cmd = "open" THEN RemoveDirs({cl[c].id})
     ELSE sock' = [sock EXCEPT ![cl[c].id] = NoPid] /\ UNCHANGED dir
  /\ Finish(c)
  /\ UNCHANGED <<fsdb, reg, left, crashes>>

\* The new daemon is given up: SIGTERM, unlink, for open the directory, unlock.
GiveUp(c) ==
  /\ IF Alive(cl[c].new)
     THEN \E d \in Terminated(cl[c].new) : dm' = [dm EXCEPT ![cl[c].new] = d]
     ELSE UNCHANGED dm
  /\ IF cl[c].cmd = "open" THEN RemoveDirs({cl[c].id})
     ELSE sock' = [sock EXCEPT ![cl[c].id] = NoPid] /\ UNCHANGED dir
  /\ Finish(c) /\ Unlock
  /\ UNCHANGED <<fsdb, reg, left, crashes>>

\* The child exited or the time is up.
WaitFailed(c) ==
  /\ cl[c].pc = "wait" /\ ~Ready(cl[c].id)
  /\ GiveUp(c)

\* Mutant of NewRecord: the pid of the session being replaced.
OldPidRecord(c) == [id |-> cl[c].id, pid |-> cl[c].rec.pid, fp |-> fsdb]

\* The fingerprint in the record is the file's now, not when the daemon opened it.
NewRecord(c) == [id |-> cl[c].id, pid |-> cl[c].new, fp |-> fsdb]
AddLoad(c) ==
  /\ cl[c].pc = "addLoad" /\ RegistryFree
  /\ cl' = [cl EXCEPT ![c].pc = "addSave", ![c].snap = Append(reg, NewRecord(c))]
  /\ UNCHANGED <<fsdb, reg, dir, sock, lock, dm, left, crashes>>

AddSave(c) ==
  /\ cl[c].pc = "addSave"
  /\ Save(cl[c].snap)
  /\ To(c, "check")
  /\ UNCHANGED <<fsdb, lock, dm, left, crashes>>

\* registry_->add cannot open the file.
AddFailed(c) == cl[c].pc = "addSave" /\ GiveUp(c)

\* The health check after the registration; a session that fails it is undone.
OpenCheck(c) ==
  /\ cl[c].pc = "check"
  /\ \/ Diagnosed(cl[c].id, TRUE) /\ Finish(c) /\ Unlock
     \/ Diagnosed(cl[c].id, FALSE) /\ To(c, "termNew") /\ UNCHANGED lock
  /\ UNCHANGED <<fsdb, reg, dir, sock, left, crashes>>

TerminateNew(c) ==
  /\ cl[c].pc = "termNew"
  /\ Signal(cl[c].new, Terminated(cl[c].new))
  /\ To(c, "rmLoad")
  /\ UNCHANGED <<fsdb, reg, dir, sock, left, crashes>>

UnlinkNew(c) ==
  /\ cl[c].pc = "unlink"
  /\ sock' = [sock EXCEPT ![cl[c].id] = NoPid]
  /\ Finish(c) /\ Unlock
  /\ UNCHANGED <<fsdb, reg, dir, dm, left, crashes>>
-----------------------------------------------------------------------------
(* query and config: ensure_session_current, restart_session, the request *)

\* The file changed since the record was made: restart.  Otherwise diagnose.
Ensure(c) ==
  /\ cl[c].pc = "ensure"
  /\ IF ~FsdbMatches(cl[c].rec)
     THEN To(c, "lockRestart") /\ UNCHANGED dm
     ELSE \/ Diagnosed(cl[c].id, TRUE) /\ To(c, "connect")
          \/ Diagnosed(cl[c].id, FALSE) /\ Finish(c)
  /\ UNCHANGED <<fsdb, reg, dir, sock, lock, left, crashes>>

\* The FSDB file cannot be stat'ed, or registry.lock not be opened.
StatFailed(c) ==
  /\ cl[c].pc \in {"lockOpen", "ensure", "lockRestart"}
  /\ Finish(c)
  /\ UNCHANGED <<fsdb, reg, dir, sock, lock, dm, left, crashes>>

LockRestart(c) ==
  /\ cl[c].pc = "lockRestart" /\ lock = {}
  /\ lock' = {c}
  /\ To(c, "restartGet")
  /\ UNCHANGED <<fsdb, reg, dir, sock, dm, left, crashes>>

\* Without a record, or when the FSDB file cannot be stat'ed, it returns.
RestartGet(c) ==
  /\ cl[c].pc = "restartGet" /\ RegistryFree
  /\ \/ /\ Known(cl[c].id)
        /\ cl' = [cl EXCEPT ![c].pc = "stop", ![c].rec = Find(reg, cl[c].id)]
        /\ UNCHANGED lock
     \/ Finish(c) /\ Unlock
  /\ UNCHANGED <<fsdb, reg, dir, sock, dm, left, crashes>>

\* stop_process: QUIT to whoever listens on the session's path; a busy daemon
\* may get to it after the sender has gone.
Stop(c) ==
  /\ cl[c].pc = "stop"
  /\ LET s == sock[cl[c].id]
     IN IF s # NoPid /\ dm[s].pc \in Listening
        THEN dm' = [dm EXCEPT ![s].quit = IF dm[s].pc \in Busy THEN "late" ELSE "asked"]
        ELSE UNCHANGED dm
  /\ To(c, "stopWait")
  /\ UNCHANGED <<fsdb, reg, dir, sock, lock, left, crashes>>

\* For a second it waits for the recorded process to go, then SIGTERM.
StopWait(c) ==
  /\ cl[c].pc = "stopWait"
  /\ IF Alive(cl[c].rec.pid)
     THEN Signal(cl[c].rec.pid, Terminated(cl[c].rec.pid)) /\ To(c, "termWait")
     ELSE UNCHANGED <<dm, lock>> /\ To(c, "stopped")
  /\ UNCHANGED <<fsdb, reg, dir, sock, left, crashes>>

\* Mutant of TermWait: no SIGKILL after SIGTERM.
TermWaitNoKill(c) ==
  /\ cl[c].pc = "termWait"
  /\ To(c, "stopped")
  /\ UNCHANGED <<fsdb, reg, dir, sock, lock, dm, left, crashes>>

\* 300 ms later, SIGKILL if it is still there.
TermWait(c) ==
  /\ cl[c].pc = "termWait"
  /\ Signal(cl[c].rec.pid, Killed(cl[c].rec.pid))
  /\ To(c, "stopped")
  /\ UNCHANGED <<fsdb, reg, dir, sock, left, crashes>>

Restarts(c) == cl[c].cmd \in {"config", "query"}

\* unlink; a restart forks the new daemon, the others go on to remove the record.
Stopped(c) ==
  /\ cl[c].pc = "stopped"
  /\ sock' = [sock EXCEPT ![cl[c].id] = NoPid]
  /\ \/ ~Restarts(c) /\ To(c, "rmLoad") /\ UNCHANGED <<dm, lock>>
     \/ /\ Restarts(c) /\ Forkable # {}
        /\ Fork(c, CHOOSE p \in Forkable : TRUE, cl[c].id)
     \/ Restarts(c) /\ Forkable = {} /\ Finish(c) /\ Unlock /\ UNCHANGED dm
  /\ UNCHANGED <<fsdb, reg, dir, left, crashes>>

UpsertLoad(c) ==
  /\ cl[c].pc = "upsertLoad" /\ RegistryFree
  /\ cl' = [cl EXCEPT ![c].pc = "upsertSave", ![c].snap = Upserted(reg, NewRecord(c))]
  /\ UNCHANGED <<fsdb, reg, dir, sock, lock, dm, left, crashes>>

UpsertSave(c) ==
  /\ cl[c].pc = "upsertSave"
  /\ Save(cl[c].snap)
  /\ To(c, "connect") /\ Unlock
  /\ UNCHANGED <<fsdb, dm, left, crashes>>

\* registry_->upsert cannot open the file.
UpsertFailed(c) ==
  /\ cl[c].pc = "upsertSave"
  /\ Finish(c) /\ Unlock
  /\ UNCHANGED <<fsdb, reg, dir, sock, dm, left, crashes>>

\* config load writes the session's directory; a query connects and sends.
Connect(c) ==
  /\ cl[c].pc = "connect"
  /\ LET s == sock[cl[c].id]
         up == s # NoPid /\ dm[s].pc \in Listening
     IN \/ cl[c].cmd = "config" /\ Finish(c) /\ dir' = [dir EXCEPT ![cl[c].id] = "configs"]
        \/ /\ cl[c].cmd = "query" /\ up /\ UNCHANGED dir
           /\ cl' = [cl EXCEPT ![c].pc = "waiting", ![c].srv = s]
        \/ cl[c].cmd = "query" /\ ~up /\ Finish(c) /\ UNCHANGED dir
  /\ UNCHANGED <<fsdb, reg, sock, lock, dm, left, crashes>>

\* The daemon stopped listening without answering, or, once it had accepted the
\* request, is gone: end of file, an empty payload.
Hangup(c) ==
  /\ cl[c].pc = "waiting" /\ dm[cl[c].srv].pc \notin Listening /\ dm[cl[c].srv].client # c
  /\ cl' = [cl EXCEPT ![c] = [Idle EXCEPT !.cmd = "query", !.id = cl[c].id, !.reply.kind = "eof"]]
  /\ UNCHANGED <<fsdb, reg, dir, sock, lock, dm, left, crashes>>
-----------------------------------------------------------------------------
(* kill: kill_session, without registry.lock *)

KillCheck(c) ==
  /\ cl[c].pc = "killCheck"
  /\ \/ Diagnosed(cl[c].id, TRUE) /\ To(c, "stop")
     \/ Diagnosed(cl[c].id, FALSE) /\ To(c, "killTerm")
  /\ UNCHANGED <<fsdb, reg, dir, sock, lock, left, crashes>>

KillTerminate(c) ==
  /\ cl[c].pc = "killTerm"
  /\ Signal(cl[c].rec.pid, Terminated(cl[c].rec.pid))
  /\ To(c, "killWait")
  /\ UNCHANGED <<fsdb, reg, dir, sock, left, crashes>>

KillWait(c) ==
  /\ cl[c].pc = "killWait"
  /\ Signal(cl[c].rec.pid, Killed(cl[c].rec.pid))
  /\ To(c, "rmLoad")
  /\ UNCHANGED <<fsdb, reg, dir, sock, left, crashes>>
-----------------------------------------------------------------------------
(* gc and kill all: gc_sessions, kill_all_sessions, without registry.lock *)

\* After the cleanup, what there is to stop: all but the sessions in S, which for
\* gc are those that were not idle for too long.
ListLoad(c) ==
  /\ cl[c].pc = "listed" /\ RegistryFree
  /\ \E S \in SUBSET IdsOf(reg) :
       /\ cl[c].cmd = "killAll" => S = {}
       /\ cl[c].cmd = "gc" /\ ~CanIdle => S = IdsOf(reg)
       /\ cl' = [cl EXCEPT ![c].pc = "each", ![c].todo = Without(reg, S)]
  /\ UNCHANGED <<fsdb, reg, dir, sock, lock, dm, left, crashes>>

\* gc stops each by the record it loaded; kill all gets the record again.
Each(c) ==
  /\ cl[c].pc = "each" /\ cl[c].todo # << >>
  /\ LET r == Head(cl[c].todo)
         k == [cl[c] EXCEPT !.id = r.id, !.todo = Tail(@)]
     IN /\ cl[c].cmd = "gc" \/ RegistryFree
        /\ cl' = [cl EXCEPT ![c] =
          CASE cl[c].cmd = "gc" -> [k EXCEPT !.pc = "stop", !.rec = r]
            [] cl[c].cmd # "gc" /\ Known(r.id) -> [k EXCEPT !.pc = "killCheck", !.rec = Find(reg, r.id)]
            [] OTHER -> k]
  /\ UNCHANGED <<fsdb, reg, dir, sock, lock, dm, left, crashes>>

\* In the end gc cleans up as list does, and kill all clears the registry.
AllStopped(c) ==
  /\ cl[c].pc = "each" /\ cl[c].todo = << >>
  /\ cl' = [cl EXCEPT ![c] =
       IF cl[c].cmd = "gc" THEN [Idle EXCEPT !.cmd = "list", !.id = cl[c].id, !.pc = "clean"] ELSE [@ EXCEPT !.pc = "clear"]]
  /\ UNCHANGED <<fsdb, reg, dir, sock, lock, dm, left, crashes>>

\* clear_all: the directories of all records, then an empty list.
Clear(c) ==
  /\ cl[c].pc = "clear" /\ RegistryFree
  /\ RemoveDirs(IdsOf(reg))
  /\ To(c, "clearSave")
  /\ UNCHANGED <<fsdb, reg, lock, dm, left, crashes>>

ClearSave(c) ==
  /\ cl[c].pc = "clearSave"
  /\ Save(<< >>)
  /\ Finish(c)
  /\ UNCHANGED <<fsdb, lock, dm, left, crashes>>
-----------------------------------------------------------------------------
(* The daemon: server_main, handle_client, cleanup_and_exit *)

Others == <<fsdb, reg, dir, sock, cl, left, crashes>>

StatFsdb(p) ==
  /\ dm[p].pc = "forked"
  /\ DaemonTo(p, [dm[p] EXCEPT !.pc = "stated", !.fp = fsdb])
  /\ UNCHANGED Others

\* npi_fsdb_open fixes the data that answers are made of, or fails.
OpenFsdb(p) ==
  /\ dm[p].pc = "stated"
  /\ \/ DaemonTo(p, [dm[p] EXCEPT !.pc = "opened", !.data = fsdb])
     \/ DaemonTo(p, Dead)
  /\ UNCHANGED Others

\* Mutant of Bind: the fingerprint is taken when the daemon is ready, not first.
BindThenStat(p) ==
  /\ dm[p].pc = "opened"
  /\ IF dir[dm[p].id] = "none"
     THEN DaemonTo(p, Dead) /\ UNCHANGED sock
     ELSE /\ DaemonTo(p, [dm[p] EXCEPT !.pc = "serving", !.fp = fsdb])
          /\ sock' = [sock EXCEPT ![dm[p].id] = p]
  /\ UNCHANGED <<fsdb, reg, dir, cl, left, crashes>>

\* unlink, bind, listen; bind fails when the session has no directory.
Bind(p) ==
  /\ dm[p].pc = "opened"
  /\ IF dir[dm[p].id] = "none"
     THEN DaemonTo(p, Dead) /\ UNCHANGED sock
     ELSE /\ DaemonTo(p, [dm[p] EXCEPT !.pc = "serving"])
          /\ sock' = [sock EXCEPT ![dm[p].id] = p]
  /\ UNCHANGED <<fsdb, reg, dir, cl, left, crashes>>

\* The write of an answer, a refusal or a PONG: SIGPIPE when nobody reads it.
Reply(p, next, reply) ==
  IF dm[p].client = NoClient
  THEN DaemonTo(p, Dead) /\ UNCHANGED cl
  ELSE /\ DaemonTo(p, next)
       /\ cl' = [cl EXCEPT ![dm[p].client] =
                   [Idle EXCEPT !.cmd = "query", !.id = dm[p].id, !.reply = reply]]

AnswerGonePing(p) ==
  /\ dm[p].pc = "serving" /\ "ping" \in dm[p].gone
  /\ DaemonTo(p, Dead)
  /\ UNCHANGED Others

\* accept and read a request, whose sender may have gone since.
Requests(p) == {c \in Clients : cl[c].pc = "waiting" /\ cl[c].srv = p}
               \cup (IF "query" \in dm[p].gone THEN {NoClient} ELSE {})

\* fsdb_changed: the request is refused.
Refuse(p) ==
  /\ dm[p].pc = "serving" /\ FsdbChanged(p)
  /\ \E c \in Requests(p) :
       IF c = NoClient
       THEN DaemonTo(p, Dead) /\ UNCHANGED cl
       ELSE /\ cl' = [cl EXCEPT ![c] = [Idle EXCEPT !.cmd = "query", !.id = dm[p].id, !.reply.kind = "changed"]]
            /\ UNCHANGED <<dm, lock>>
  /\ UNCHANGED <<fsdb, reg, dir, sock, left, crashes>>

\* Mutant of Accept: fsdb_changed is not asked.
AcceptUnchecked(p) ==
  /\ dm[p].pc = "serving" /\ RegistryFree
  /\ \E c \in Requests(p) :
       DaemonTo(p, [dm[p] EXCEPT !.pc = IF Known(dm[p].id) THEN "touching" ELSE "answering",
                                 !.client = c, !.asof = fsdb,
                                 !.snap = IF Known(dm[p].id) THEN <<Find(reg, dm[p].id)>> ELSE << >>,
                                 !.gone = IF c = NoClient THEN @ \ {"query"} ELSE @])
  /\ UNCHANGED Others

\* The file is unchanged: touch gets the record; without one it does nothing.
Accept(p) ==
  /\ dm[p].pc = "serving" /\ ~FsdbChanged(p) /\ RegistryFree
  /\ \E c \in Requests(p) :
       DaemonTo(p, [dm[p] EXCEPT !.pc = IF Known(dm[p].id) THEN "touching" ELSE "answering",
                                 !.client = c, !.asof = fsdb,
                                 !.snap = IF Known(dm[p].id) THEN <<Find(reg, dm[p].id)>> ELSE << >>,
                                 !.gone = IF c = NoClient THEN @ \ {"query"} ELSE @])
  /\ UNCHANGED Others

\* touch puts the record, with a new last_active, into the list it now loads, and
\* saves that.
TouchLoad(p) ==
  /\ dm[p].pc = "touching" /\ RegistryFree
  /\ DaemonTo(p, [dm[p] EXCEPT !.pc = "touched", !.snap = Upserted(reg, dm[p].snap[1])])
  /\ UNCHANGED Others

TouchSave(p) ==
  /\ dm[p].pc = "touched"
  /\ Save(dm[p].snap)
  /\ DaemonTo(p, [dm[p] EXCEPT !.pc = "answering", !.snap = << >>])
  /\ UNCHANGED <<fsdb, cl, left, crashes>>

Answer(p) ==
  /\ dm[p].pc = "answering"
  /\ Reply(p, [dm[p] EXCEPT !.pc = "serving", !.client = NoClient, !.asof = 0, !.snap = << >>],
           [kind |-> "data", data |-> dm[p].data, asof |-> dm[p].asof])
  /\ UNCHANGED <<fsdb, reg, dir, sock, left, crashes>>

\* Mutant of StopServing: no idle timeout.
StopServingOnQuit(p) ==
  /\ dm[p].pc = "serving" /\ dm[p].quit # "no"
  /\ \/ DaemonTo(p, [dm[p] EXCEPT !.pc = "exiting", !.quit = "no", !.gone = {}])
     \/ dm[p].quit = "late" /\ DaemonTo(p, Dead)
  /\ UNCHANGED Others

\* QUIT ends the loop; so does the idle timeout.  A late QUIT has no reader for
\* its end marker any more.
StopServing(p) ==
  /\ dm[p].pc = "serving"
  /\ dm[p].quit # "no" \/ (CanIdle /\ Requests(p) = {})
  /\ \/ DaemonTo(p, [dm[p] EXCEPT !.pc = "exiting", !.quit = "no", !.gone = {}])
     \/ dm[p].quit = "late" /\ DaemonTo(p, Dead)
  /\ UNCHANGED Others

\* unlink of the path, whoever is bound to it by now.
UnlinkSocket(p) ==
  /\ dm[p].pc = "exiting"
  /\ sock' = [sock EXCEPT ![dm[p].id] = NoPid]
  /\ DaemonTo(p, [dm[p] EXCEPT !.pc = "removing"])
  /\ UNCHANGED <<fsdb, reg, dir, cl, left, crashes>>

\* registry.remove, whoever the record belongs to by now; from the handler too, which
\* then may wait for the process it interrupted.
RemovingLoad(p) ==
  /\ dm[p].pc = "removing" /\ RegistryFree
  /\ DaemonTo(p, IF Known(dm[p].id)
                 THEN [dm[p] EXCEPT !.pc = "saving", !.snap = Without(reg, {dm[p].id})]
                 ELSE Dead)
  /\ UNCHANGED Others

RemovingSave(p) ==
  /\ dm[p].pc = "saving"
  /\ SaveAndRemoveDir(dm[p].snap, dm[p].id)
  /\ DaemonTo(p, Dead)
  /\ UNCHANGED <<fsdb, cl, left, crashes>>
-----------------------------------------------------------------------------
(* The outside *)

\* Someone regenerates the FSDB file.
RewriteFsdb ==
  /\ fsdb < MaxVersion
  /\ fsdb' = fsdb + 1
  /\ UNCHANGED <<reg, dir, sock, lock, dm, cl, left, crashes>>

\* ^C of a command: what it asked for stays in a daemon's backlog.
Interrupt(c) ==
  /\ crashes > 0 /\ cl[c].pc # "idle"
  /\ crashes' = crashes - 1
  /\ Finish(c)
  /\ lock' = lock \ {c}
  /\ dm' = [p \in Pids |->
       CASE dm[p].client = c -> [dm[p] EXCEPT !.client = NoClient]
         [] c \in Requests(p) /\ dm[p].client # c /\ dm[p].pc \in Listening ->
              [dm[p] EXCEPT !.gone = @ \cup {"query"}]
         [] OTHER -> dm[p]]
  /\ UNCHANGED <<fsdb, reg, dir, sock, left>>

\* A daemon is killed from outside, or NPI takes it down.
CrashDaemon(p) ==
  /\ crashes > 0 /\ Alive(p)
  /\ crashes' = crashes - 1
  /\ DaemonTo(p, Dead)
  /\ UNCHANGED <<fsdb, reg, dir, sock, cl, left>>

ClientStep(c) ==
  \/ Clean(c) \/ CleanSave(c) \/ RemoveLoad(c) \/ RemoveSave(c)
  \/ LockOpen(c) \/ Exists(c) \/ WaitReady(c) \/ WaitFailed(c) \/ AddLoad(c) \/ AddSave(c)
  \/ OpenCheck(c) \/ TerminateNew(c) \/ UnlinkNew(c)
  \/ Ensure(c) \/ LockRestart(c) \/ RestartGet(c) \/ Stop(c) \/ StopWait(c) \/ TermWait(c)
  \/ Stopped(c) \/ UpsertLoad(c) \/ UpsertSave(c) \/ Connect(c) \/ Hangup(c)
  \/ KillCheck(c) \/ KillTerminate(c) \/ KillWait(c)
  \/ ListLoad(c) \/ Each(c) \/ AllStopped(c) \/ Clear(c) \/ ClearSave(c)

\* Nobody may count on a file error to get on.
FileError(c) == StatFailed(c) \/ AddFailed(c) \/ UpsertFailed(c)

DaemonStep(p) ==
  \/ StatFsdb(p) \/ OpenFsdb(p) \/ Bind(p) \/ AnswerGonePing(p) \/ Refuse(p) \/ Accept(p)
  \/ TouchLoad(p) \/ TouchSave(p) \/ Answer(p) \/ StopServing(p) \/ UnlinkSocket(p) \/ RemovingLoad(p) \/ RemovingSave(p)

\* Nothing is left to do, or nobody can until a daemon that waits for itself is killed.
Done ==
  /\ \/ /\ \A c \in Clients : cl[c].pc = "idle" /\ left[c] = 0
        /\ \A p \in Pids : Alive(p) => dm[p].pc = "serving" /\ ~CanIdle
     \/ ~RegistryFree
  /\ UNCHANGED vars

Next ==
  \/ \E c \in Clients : Begin(c) \/ ClientStep(c) \/ FileError(c) \/ Interrupt(c)
  \/ \E p \in Pids : DaemonStep(p) \/ CrashDaemon(p)
  \/ RewriteFsdb \/ Done

Spec == Init /\ [][Next]_vars

\* Running processes are scheduled, and their timeouts (idle, ping, start, stop)
\* expire; nothing obliges a user to run a command or the file to change.
FairSpec == Spec /\ (\A c \in Clients : WF_vars(ClientStep(c)))
                 /\ (\A p \in Pids : WF_vars(DaemonStep(p)))
-----------------------------------------------------------------------------
(* Properties *)

TypeOK ==
  /\ fsdb \in Version
  /\ reg \in Seq(Record)
  /\ dir \in [Ids -> {"none", "bare", "configs"}]
  /\ sock \in [Ids -> Pids \cup {NoPid}]
  /\ lock \subseteq Clients \cup Pids
  /\ dm \in [Pids -> [pc : Running \cup {"unborn", "dead"}, id : Ids, fp : Version, data : Version,
                      client : Clients \cup {NoClient}, asof : Version, quit : {"no", "asked", "late"},
                      gone : SUBSET {"ping", "query"}, snap : Seq(Record),
                      handler : {"off", "on", "locked"}]]
  /\ cl \in [Clients -> [pc : ClientPc, cmd : AllCommands, id : Ids, rec : Record \cup {NoRecord},
                         new : Pids \cup {NoPid}, srv : Pids \cup {NoPid}, snap : Seq(Record), todo : Seq(Record),
                         reply : [kind : {"none", "data", "changed", "eof"}, data : Version, asof : Version]]]
  /\ \A c \in Clients : cl[c].pc \in Path(cl[c].cmd)
  /\ left \in [Clients -> 0 .. OpsPerClient]
  /\ crashes \in 0 .. MaxCrashes

\* registry.lock: two processes are never both inside create_session or
\* restart_session, and a process inside holds the lock: no return forgets it, be it
\* early, and no interrupted command lets another in beside it.
LockDiscipline ==
  /\ \A c \in Clients : (Critical(c) => c \in lock) /\ (c \in lock => Critical(c))
  /\ \A c, d \in Clients : Critical(c) /\ Critical(d) => c = d

\* An answer is made of the FSDB contents that were on disk when the daemon
\* checked the request (handle_client): the fingerprint is taken before the
\* file is opened, so an equal fingerprint means nothing happened in between.
FreshAnswer ==
  \A c \in Clients : cl[c].reply.kind = "data" => cl[c].reply.data = cl[c].reply.asof

\* A client as a reader of FreshReads: it has asked once it is connected, and
\* the version is fixed when the daemon accepts the request.
ReadOf(c) ==
  LET s == cl[c].srv IN
  CASE cl[c].reply.kind = "data" -> [state |-> "answered", value |-> cl[c].reply.data]
    [] cl[c].pc = "waiting" /\ dm[s].pc \in Busy /\ dm[s].client = c -> [state |-> "seen", value |-> dm[s].data]
    [] cl[c].pc = "waiting" /\ ~(dm[s].pc \in Busy /\ dm[s].client = c) -> [state |-> "asked", value |-> 0]
    [] OTHER -> [state |-> "away", value |-> 0]

Fresh == INSTANCE FreshReads WITH
  Readers <- Clients, LastVersion <- MaxVersion,
  version <- fsdb, read <- [c \in Clients |-> ReadOf(c)]

\* Queries through daemons, restarts and kills are reads of the file itself,
\* each at one moment between request and answer (client.cpp, handle_client).
QueriesAreFreshReads == Fresh!Spec

\* When stop_process or kill_session is through, in a restart, kill, kill all or gc,
\* the recorded process is gone, also when it ignored QUIT or was restarting its
\* cleanup on SIGTERM.
StoppedMeansDead ==
  \A c \in Clients :
    \/ cl[c].pc = "stopped"
    \/ cl[c].cmd # "open" /\ cl[c].pc \in {"rmLoad", "rmSave"}
    => ~Alive(cl[c].rec.pid)

\* Every command that was started returns, whatever dies around it, unless a daemon
\* keeps registry.json for ever: one that create_session, restart_session or a
\* command that was interrupted left alone with a SIGTERM, and that waits in
\* cleanup_and_exit for what it had locked itself.
CommandsEnd ==
  \/ <>[]~RegistryFree
  \/ \A c \in Clients : cl[c].pc # "idle" ~> cl[c].pc = "idle"

\* session_manager.h: ensure_session_current sees to it that "the daemon matches
\* the current FSDB fingerprint".
EnsuredIsCurrent ==
  [][\A c \in Clients : Ensure(c) /\ cl'[c].pc = "connect" =>
       dm[sock[cl[c].id]].fp = fsdb]_vars

\* README: each session owns one daemon process.
OneDaemonPerSession ==
  \A p, q \in Pids : dm[p].pc \in Listening /\ dm[q].pc \in Listening /\ dm[p].id = dm[q].id => p = q

\* README: a changed FSDB restarts the daemon "while preserving the session ID
\* and loaded configs"; session_manager.h says the same of restart_session.
Restarting(c) == cl[c].cmd \in {"config", "query"} /\ cl[c].pc \in InRestart \ {"restartGet", "stop"}
RestartKeepsConfigs ==
  [][\A c \in Clients : Restarting(c) /\ dir[cl[c].id] = "configs" => dir'[cl[c].id] = "configs"]_vars
=============================================================================
