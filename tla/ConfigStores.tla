---------------------------- MODULE ConfigStores ----------------------------
(***************************************************************************)
(* What a session keeps in files of its directory: signal lists, protocol  *)
(* and event configurations, and cursors (src/list, src/apb, src/axi,      *)
(* src/event, src/cursor: the *_manager.cpp), and what its daemon caches   *)
(* by configuration name (src/server/server.cpp).                          *)
(*                                                                         *)
(* Lists and configurations are edited by the commands' own processes: a   *)
(* locked load, an edit in memory, an open that truncates without a lock,  *)
(* and a locked write.  Cursors are edited by the daemon alone, one        *)
(* request at a time.  A command that names no list or configuration      *)
(* takes the last one of the file, so any name stands for it.              *)
(***************************************************************************)
EXTENDS Naturals, Sequences, SequencesExt, Selections

CONSTANTS
  Procs,     \* commands that run at a time
  Names,     \* names of lists, configurations and cursors
  Configs,   \* contents of a configuration
  Signals,   \* signal paths a user may type
  Existing,  \* those the FSDB file has
  None,      \* nothing
  MaxCalls   \* bound: commands

\* "apb" stands for the stores of APB and AXI, which have the same code.
Stores == {"lists", "apb", "events"}

VARIABLES
  file,      \* store files: does it parse, to which entries, how long is it
  pc,        \* where each command is: idle, check, load, truncate, write
  op,        \* what it does: kind, name, argument
  snap,      \* the entries it is about to save
  calls,     \* commands so far
  cache,     \* results_ of the daemon's analyzers: the configuration each is of
  cursors,   \* cursors.json: names, and the active one
  held, last,   \* history: the lists by name had edits been atomic, the last edited
  disturbed,    \* history: stores with overlapping edits, or one cut short
  unanswered    \* history: the daemon died while it looked a signal up

client == <<pc, op, snap>>
history == <<held, last, disturbed, unanswered>>
vars == <<file, client, calls, cache, cursors, history>>

Kinds == {"new", "add", "del", "at", "apb", "event"}
StoreOf(kind) == CASE kind \in {"new", "add", "del", "at"} -> "lists" [] kind = "apb" -> "apb" [] kind = "event" -> "events"

\* list new, add <signal>, del <signal>, del <index>; apb and event <config>.
Ops ==
  [kind : {"new"}, name : Names, arg : {None}]
  \cup [kind : {"add", "del"}, name : Names, arg : Signals]
  \cup [kind : {"at"}, name : Names, arg : 1 .. 2]
  \cup [kind : {"apb", "event"}, name : Names, arg : Configs]
-----------------------------------------------------------------------------
(* Files *)

EmptyFile == [ok |-> TRUE, doc |-> << >>, size |-> 0]

\* Names are equally long, and so are signals and configurations.
Parts(doc) == UNION {{i} \X DOMAIN doc[i].body : i \in DOMAIN doc}
SizeOf(doc) == 1 + 2 * Len(doc) + Cardinality(Parts(doc))

\* A write at offset 0: a longer text that is there keeps its tail.
Written(f, doc) ==
  IF f.size <= SizeOf(doc) THEN [ok |-> TRUE, doc |-> doc, size |-> SizeOf(doc)]
  ELSE [ok |-> FALSE, doc |-> << >>, size |-> f.size]

\* load_session; a text that does not parse has no entries.
Loaded(store) == file[store].doc
At(doc, name) == SelectInSeq(doc, LAMBDA e : e.name = name)
Has(doc, name) == At(doc, name) # 0
BodyOf(doc, name) == doc[At(doc, name)].body
-----------------------------------------------------------------------------
(* Edits in memory *)

Entry(name, body) == [name |-> name, body |-> body]

\* Mutant of ToBack: an edited list stays where it is.
InPlace(doc, name, body) == [doc EXCEPT ![At(doc, name)] = Entry(name, body)]

\* An edited list goes to the end.
ToBack(doc, name, body) == Append(RemoveAt(doc, At(doc, name)), Entry(name, body))

\* del_signal, by path: the first of that path.
Dropped(body, signal) == RemoveAt(body, SelectInSeq(body, LAMBDA s : s = signal))

\* Mutant of Refused: a configuration of that name is no reason to stop.
RefusedUnlessListed(o, store) ==
  LET doc == Loaded(store) IN
  CASE o.kind = "new" -> Has(doc, o.name)
    [] o.kind = "apb" -> FALSE
    [] o.kind = "event" -> ~file[store].ok
    [] o.kind = "add" -> ~Has(doc, o.name)
    [] o.kind = "del" -> ~Has(doc, o.name) \/ ~Contains(BodyOf(doc, o.name), o.arg)
    [] o.kind = "at" -> ~Has(doc, o.name) \/ o.arg > Len(BodyOf(doc, o.name))

\* create_list and create_apb refuse a name that is taken, and carry on from an
\* empty store when the file does not parse; create_event stops at that; the
\* others need their list, and what they delete.
Refused(o, store) ==
  LET doc == Loaded(store) IN
  CASE o.kind \in {"new", "apb"} -> Has(doc, o.name)
    [] o.kind = "event" -> ~file[store].ok
    [] o.kind = "add" -> ~Has(doc, o.name)
    [] o.kind = "del" -> ~Has(doc, o.name) \/ ~Contains(BodyOf(doc, o.name), o.arg)
    [] o.kind = "at" -> ~Has(doc, o.name) \/ o.arg > Len(BodyOf(doc, o.name))

\* create_event replaces the event of its name.
Edited(o, doc) ==
  CASE o.kind = "new" -> Append(doc, Entry(o.name, << >>))
    [] o.kind = "apb" -> Append(doc, Entry(o.name, <<o.arg>>))
    [] o.kind = "event" -> Append(Picked(doc, {i \in DOMAIN doc : doc[i].name # o.name}), Entry(o.name, <<o.arg>>))
    [] o.kind = "add" -> ToBack(doc, o.name, Append(BodyOf(doc, o.name), o.arg))
    [] o.kind = "del" -> ToBack(doc, o.name, Dropped(BodyOf(doc, o.name), o.arg))
    [] o.kind = "at" -> ToBack(doc, o.name, RemoveAt(BodyOf(doc, o.name), o.arg))
-----------------------------------------------------------------------------
(* Commands *)

Goto(p, l) == pc' = [pc EXCEPT ![p] = l]
Editing(p, store) == pc[p] \in {"truncate", "write"} /\ StoreOf(op[p].kind) = store

NoCursors == [names |-> {}, active |-> None]

Init ==
  /\ file = [s \in Stores |-> EmptyFile]
  /\ pc = [p \in Procs |-> "idle"] /\ op = [p \in Procs |-> None] /\ snap = [p \in Procs |-> << >>]
  /\ calls = 0 /\ cache = [n \in Names |-> None] /\ cursors = NoCursors
  /\ held = [n \in Names |-> None] /\ last = None /\ disturbed = {} /\ unanswered = FALSE

MayCall == calls < MaxCalls /\ calls' = calls + 1

\* list add asks the daemon about the signal first.
Call(p, o) ==
  /\ pc[p] = "idle" /\ MayCall
  /\ op' = [op EXCEPT ![p] = o]
  /\ Goto(p, IF o.kind = "add" THEN "check" ELSE "load")
  /\ UNCHANGED <<file, snap, cache, cursors, history>>

\* Mutant of Check: the answer is not looked at.
CheckIgnored(p) ==
  /\ pc[p] = "check"
  /\ Goto(p, "load")
  /\ UNCHANGED <<op, file, snap, calls, cache, cursors, history>>

\* SIGNAL_CHECK is answered.
Check(p) ==
  /\ pc[p] = "check"
  /\ IF op[p].arg \in Existing THEN Goto(p, "load") /\ UNCHANGED op
     ELSE Goto(p, "idle") /\ op' = [op EXCEPT ![p] = None]
  /\ UNCHANGED <<file, snap, calls, cache, cursors, history>>

\* The daemon dies instead: to send_command_capture the end of the connection is
\* an answer without an error.  The next command starts another daemon.
CheckCut(p) ==
  /\ pc[p] = "check"
  /\ Goto(p, "load")
  /\ cache' = [n \in Names |-> None] /\ unanswered' = TRUE
  /\ UNCHANGED <<op, file, snap, calls, cursors, held, last, disturbed>>

Load(p) ==
  LET store == StoreOf(op[p].kind) IN
  /\ pc[p] = "load"
  /\ IF Refused(op[p], store)
     THEN Goto(p, "idle") /\ op' = [op EXCEPT ![p] = None] /\ UNCHANGED snap
     ELSE Goto(p, "truncate") /\ snap' = [snap EXCEPT ![p] = Edited(op[p], Loaded(store))] /\ UNCHANGED op
  /\ disturbed' = IF \E q \in Procs \ {p} : Editing(q, store) THEN disturbed \cup {store} ELSE disturbed
  /\ UNCHANGED <<file, calls, cache, cursors, held, last, unanswered>>

\* save_session opens the file.
Truncate(p) ==
  /\ pc[p] = "truncate"
  /\ file' = [file EXCEPT ![StoreOf(op[p].kind)] = EmptyFile]
  /\ Goto(p, "write")
  /\ UNCHANGED <<op, snap, calls, cache, cursors, history>>

\* What an edit means for the lists, whatever their order.
Holding(o) ==
  CASE o.kind = "new" -> [held EXCEPT ![o.name] = << >>]
    [] o.kind = "add" /\ held[o.name] # None -> [held EXCEPT ![o.name] = Append(@, o.arg)]
    [] o.kind = "del" /\ held[o.name] # None -> [held EXCEPT ![o.name] = Dropped(@, o.arg)]
    [] o.kind = "at" /\ held[o.name] # None -> [held EXCEPT ![o.name] = RemoveAt(@, o.arg)]
    [] OTHER -> held

\* save_session locks and writes.
Write(p) ==
  LET store == StoreOf(op[p].kind) IN
  /\ pc[p] = "write"
  /\ file' = [file EXCEPT ![store] = Written(@, snap[p])]
  /\ Goto(p, "idle") /\ op' = [op EXCEPT ![p] = None] /\ snap' = [snap EXCEPT ![p] = << >>]
  /\ IF store = "lists" /\ store \notin disturbed
     THEN held' = Holding(op[p]) /\ last' = op[p].name
     ELSE UNCHANGED <<held, last>>
  /\ UNCHANGED <<calls, cache, cursors, disturbed, unanswered>>

\* A command is killed.
Crash(p) ==
  /\ pc[p] # "idle"
  /\ Goto(p, "idle") /\ op' = [op EXCEPT ![p] = None] /\ snap' = [snap EXCEPT ![p] = << >>]
  /\ disturbed' = IF pc[p] = "write" THEN disturbed \cup {StoreOf(op[p].kind)} ELSE disturbed
  /\ UNCHANGED <<file, calls, cache, cursors, held, last, unanswered>>
-----------------------------------------------------------------------------
(* The daemon *)

\* Mutant of Query: whatever the name, the configuration loaded last.
QueryLatest(n) ==
  /\ MayCall
  /\ Has(Loaded("apb"), n)
  /\ cache' = [cache EXCEPT ![n] = IF @ = None THEN Last(Loaded("apb")).body[1] ELSE @]
  /\ UNCHANGED <<file, client, cursors, history>>

\* apb and axi queries (handle_apb_wr and the like): the configuration is looked
\* up in the file each time; analyze computes a result only for a new name.
Query(n) ==
  /\ MayCall
  /\ Has(Loaded("apb"), n)
  /\ cache' = [cache EXCEPT ![n] = IF @ = None THEN BodyOf(Loaded("apb"), n)[1] ELSE @]
  /\ UNCHANGED <<file, client, cursors, history>>

\* A daemon is killed, and the next open or query starts another.
DaemonDies ==
  /\ MayCall
  /\ cache' = [n \in Names |-> None]
  /\ UNCHANGED <<file, client, cursors, history>>

\* QUIT, a restart, or an idle daemon: it removes the session's directory.  What a
\* command writes to a file it has open is then lost with it.
DaemonLeaves ==
  LET cut == {p \in Procs : pc[p] = "write"} IN
  /\ MayCall
  /\ cache' = [n \in Names |-> None] /\ cursors' = NoCursors
  /\ file' = [s \in Stores |-> EmptyFile]
  /\ pc' = [p \in Procs |-> IF p \in cut THEN "idle" ELSE pc[p]]
  /\ op' = [p \in Procs |-> IF p \in cut THEN None ELSE op[p]]
  /\ snap' = [p \in Procs |-> IF p \in cut THEN << >> ELSE snap[p]]
  /\ held' = [n \in Names |-> None] /\ last' = None
  /\ disturbed' = disturbed \cup {s \in Stores : \E p \in Procs : Editing(p, s)}
  /\ UNCHANGED unanswered

\* save_store, after the edit; a daemon that dies in it leaves an empty file.
Saved(store) == cursors' = store \/ cursors' = NoCursors

CursorSet(n, active) ==
  /\ MayCall
  /\ Saved([names |-> cursors.names \cup {n}, active |-> IF active THEN n ELSE cursors.active])
  /\ UNCHANGED <<file, client, cache, history>>

\* Mutant of CursorDelete: the active cursor is not looked at.
CursorDeleteOnly(n) ==
  /\ MayCall
  /\ n \in cursors.names
  /\ Saved([cursors EXCEPT !.names = @ \ {n}])
  /\ UNCHANGED <<file, client, cache, history>>

CursorDelete(n) ==
  /\ MayCall
  /\ n \in cursors.names
  /\ Saved([names |-> cursors.names \ {n}, active |-> IF cursors.active = n THEN None ELSE cursors.active])
  /\ UNCHANGED <<file, client, cache, history>>

CursorUse(n) ==
  /\ MayCall
  /\ n \in cursors.names
  /\ Saved([cursors EXCEPT !.active = n])
  /\ UNCHANGED <<file, client, cache, history>>

Next ==
  \/ \E p \in Procs :
       \/ \E o \in Ops : Call(p, o)
       \/ Check(p) \/ CheckCut(p) \/ Load(p) \/ Truncate(p) \/ Write(p) \/ Crash(p)
  \/ DaemonDies \/ DaemonLeaves
  \/ \E n \in Names : Query(n) \/ CursorDelete(n) \/ CursorUse(n) \/ \E a \in BOOLEAN : CursorSet(n, a)

Spec == Init /\ [][Next]_vars
-----------------------------------------------------------------------------
\* create_list, create_apb, create_event: a store never has two entries of one
\* name, not even when two commands that add it overlap, or a file is torn.
NamesAreUnique ==
  \A s \in Stores : \A i, j \in DOMAIN file[s].doc : file[s].doc[i].name = file[s].doc[j].name => i = j

\* list new, add and del, when they take turns: the lists hold what was added and
\* not deleted, in order, and the last of the file is the one edited last, which
\* is what a command without -l works on (cli-reference.md: the session's most
\* recently modified list).
SerialListsAreKept ==
  "lists" \notin disturbed /\ (\A p \in Procs : ~(pc[p] = "write" /\ StoreOf(op[p].kind) = "lists")) =>
    LET doc == file["lists"].doc IN
    /\ file["lists"].ok
    /\ \A n \in Names : IF Has(doc, n) THEN held[n] = BodyOf(doc, n) ELSE held[n] = None
    /\ doc # << >> => Last(doc).name = last

\* cli-reference.md, list add: the signal is probed before the list is written,
\* and a failure does not touch the list.  It holds as long as no daemon died
\* over a probe.
ListedSignalsExist ==
  unanswered \/ \A i \in DOMAIN file["lists"].doc : ToSet(file["lists"].doc[i].body) \subseteq Existing

\* analyze: the result that is cached under a name is of the configuration that
\* the store has under that name, as long as edits take turns.
CachedIsStored ==
  "apb" \notin disturbed /\ (\A p \in Procs : ~(pc[p] = "write" /\ op[p].kind = "apb")) =>
    \A n \in Names : cache[n] # None =>
      Has(Loaded("apb"), n) /\ BodyOf(Loaded("apb"), n) = <<cache[n]>>

\* cursor set, delete and use: the active cursor is one there is, which is what
\* a time "@" needs, also after a daemon that died in a save.
ActiveCursorExists == cursors.active # None => cursors.active \in cursors.names
=============================================================================
