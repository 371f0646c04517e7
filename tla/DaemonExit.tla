------------------------------ MODULE DaemonExit ------------------------------
(***************************************************************************)
(* A daemon that is stopped while it uses the registry.  Its handler of    *)
(* SIGTERM, cleanup_and_exit in src/server/server.cpp, removes the session *)
(* from registry.json with the same load_all and save_all that it may have *)
(* interrupted, and these take the flock anew on a file of their own: a    *)
(* lock the interrupted call holds is then waited for by the process that  *)
(* holds it.  What ends that is stop_process in                            *)
(* src/session/session_manager.cpp, with SIGKILL.                          *)
(*                                                                         *)
(* A call of the registry is its locked accesses, "load" and "save"; what  *)
(* is in the file is SessionRegistry's matter.                             *)
(***************************************************************************)
EXTENDS Naturals, Sequences

CONSTANTS
  Stoppers,  \* commands that stop the daemon, or open it and give up
  None       \* nobody

VARIABLES
  dm,        \* the daemon: serving, leaving, handling (a signal), dead
  todo,      \* accesses to the registry each call still makes
  lock,      \* whose call has the flock on registry.json
  stop,      \* where each command is: idle, waiting, term, removing
  abandoned  \* history: a signal was sent that nobody follows up

vars == <<dm, todo, lock, stop, abandoned>>

\* The calls of the daemon's main program and of its handler.
OfDaemon == {"main", "handler"}
Callers == OfDaemon \cup Stoppers

Touch == <<"load", "load", "save">>
Remove == <<"load", "save">>

\* The handler interrupts the main program, and does not return to it.
Runs(c) ==
  CASE c = "main" -> dm \in {"serving", "leaving"}
    [] c = "handler" -> dm = "handling"
    [] OTHER -> stop[c] = "removing"

Init ==
  /\ dm = "serving" /\ lock = None /\ abandoned = FALSE
  /\ todo = [c \in Callers |-> << >>]
  /\ stop = [p \in Stoppers |-> "idle"]

\* lock_file
Lock(c) ==
  /\ Runs(c) /\ todo[c] # << >> /\ lock = None
  /\ lock' = c
  /\ UNCHANGED <<dm, todo, stop, abandoned>>

\* The end of load_all or save_all; a load that does not find the record is the
\* end of the call.
Unlock(c) ==
  /\ Runs(c) /\ lock = c
  /\ lock' = None
  /\ \/ todo' = [todo EXCEPT ![c] = Tail(@)]
     \/ Head(todo[c]) = "load" /\ todo' = [todo EXCEPT ![c] = << >>]
  /\ UNCHANGED <<dm, stop, abandoned>>

\* The process ends, and what it has locked is free.
Dies ==
  /\ dm' = "dead"
  /\ lock' = IF lock \in OfDaemon THEN None ELSE lock
  /\ todo' = [c \in Callers |-> IF c \in OfDaemon THEN << >> ELSE todo[c]]

\* handle_client
Serve ==
  /\ dm = "serving" /\ todo["main"] = << >>
  /\ todo' = [todo EXCEPT !["main"] = Touch]
  /\ UNCHANGED <<dm, lock, stop, abandoned>>

\* QUIT, or the idle timeout.
Leave ==
  /\ dm = "serving" /\ todo["main"] = << >>
  /\ dm' = "leaving" /\ todo' = [todo EXCEPT !["main"] = Remove]
  /\ UNCHANGED <<lock, stop, abandoned>>

Exit ==
  /\ \/ dm = "leaving" /\ todo["main"] = << >>
     \/ dm = "handling" /\ todo["handler"] = << >>
  /\ Dies
  /\ UNCHANGED <<stop, abandoned>>

\* SIGTERM; while the handler runs, another one waits.
Signalled ==
  IF dm \in {"serving", "leaving"}
  THEN dm' = "handling" /\ todo' = [todo EXCEPT !["handler"] = Remove]
  ELSE UNCHANGED <<dm, todo>>
-----------------------------------------------------------------------------
(* stop_process, and kill_session of an ill session *)

Goto(p, l) == stop' = [stop EXCEPT ![p] = l]

Stop(p) ==
  /\ stop[p] = "idle"
  /\ Goto(p, "waiting")
  /\ UNCHANGED <<dm, todo, lock, abandoned>>

\* The wait for QUIT is over.
Term(p) ==
  /\ stop[p] = "waiting"
  /\ Signalled /\ Goto(p, "term")
  /\ UNCHANGED <<lock, abandoned>>

\* Mutant of Kill: SIGTERM is all.
KillForgotten(p) ==
  /\ stop[p] = "term"
  /\ todo' = [todo EXCEPT ![p] = Remove] /\ Goto(p, "removing")
  /\ UNCHANGED <<dm, lock, abandoned>>

\* SIGKILL, if it is still there 0.3 s later; then the record is removed.
Kill(p) ==
  /\ stop[p] = "term"
  /\ dm' = "dead" /\ lock' = IF lock \in OfDaemon THEN None ELSE lock
  /\ todo' = [c \in Callers |-> IF c \in OfDaemon THEN << >> ELSE IF c = p THEN Remove ELSE todo[c]]
  /\ Goto(p, "removing")
  /\ UNCHANGED abandoned

\* create_session, when the new daemon's health is bad: SIGTERM, and on.
GiveUp(p) ==
  /\ stop[p] = "idle"
  /\ dm' = IF dm \in {"serving", "leaving"} THEN "handling" ELSE dm
  /\ todo' = [todo EXCEPT !["handler"] = IF dm \in {"serving", "leaving"} THEN Remove ELSE @, ![p] = Remove]
  /\ Goto(p, "removing") /\ abandoned' = TRUE
  /\ UNCHANGED lock

Removed(p) ==
  /\ stop[p] = "removing" /\ todo[p] = << >>
  /\ Goto(p, "idle")
  /\ UNCHANGED <<dm, todo, lock, abandoned>>

\* ^C of a command; after its SIGTERM nobody sends SIGKILL.
Interrupt(p) ==
  /\ stop[p] # "idle"
  /\ Goto(p, "idle") /\ todo' = [todo EXCEPT ![p] = << >>]
  /\ lock' = IF lock = p THEN None ELSE lock
  /\ abandoned' = (abandoned \/ stop[p] = "term")
  /\ UNCHANGED dm

Next ==
  \/ \E c \in Callers : Lock(c) \/ Unlock(c)
  \/ Serve \/ Leave \/ Exit
  \/ \E p \in Stoppers : Stop(p) \/ Term(p) \/ Kill(p) \/ GiveUp(p) \/ Removed(p) \/ Interrupt(p)

Spec == Init /\ [][Next]_vars
-----------------------------------------------------------------------------
\* Every command and daemon needs the flock on registry.json: whoever has it goes
\* on, or is a stopped daemon that stop_process is about to kill; unless an open
\* or a ^C left a daemon alone with its SIGTERM, which then may wait for itself,
\* and everybody for it.
NobodyWaitsForEver ==
  lock # None => Runs(lock) \/ abandoned \/ \E p \in Stoppers : stop[p] = "term"
=============================================================================
