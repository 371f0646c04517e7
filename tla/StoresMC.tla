------------------------------- MODULE StoresMC -------------------------------
(***************************************************************************)
(* The instances of SessionRegistry, ConfigStores and DaemonExit that TLC  *)
(* checks: what xwave keeps in files.  The registry and the stores of a    *)
(* session are different files, and DaemonExit looks at the flock alone,   *)
(* so the three share nothing, and a behaviour is of one.                  *)
(***************************************************************************)
EXTENDS SessionRegistry

CONSTANTS Names, Configs, Signals, Existing, None, MaxCalls  \* of ConfigStores

\* Processes are neither the calls of a daemon nor nobody (CallersDiffer), and
\* nothing is not a list (StoresDiffer).
ASSUME StoresAssumption ==
  /\ MaxCalls \in Nat /\ Existing \subseteq Signals /\ None \notin Seq(Signals)
  /\ {"main", "handler"} \cap Procs = {} /\ None \notin {"main", "handler"} \cup Procs

VARIABLES
  stores, commands, edits, saving, calls, cache, cursors, held, last, overlapped, unanswered,
  dm, todo, lock, stop, abandoned

storeVars == <<stores, commands, edits, saving, calls, cache, cursors, held, last, overlapped, unanswered>>
exitVars == <<dm, todo, lock, stop, abandoned>>

Stored == INSTANCE ConfigStores WITH
  file <- stores, pc <- commands, op <- edits, snap <- saving, disturbed <- overlapped
Exiting == INSTANCE DaemonExit WITH Stoppers <- Procs

\* A behaviour is of one part, which its first state chooses; beside it the
\* registry stays as it begins.
IsStored == stores # None
IsExiting == dm # None

Unused ==
  /\ file = EmptyFile /\ dirs = {} /\ truth = << >> /\ disturbed = FALSE
  /\ pc = [p \in Procs |-> "idle"] /\ snap = [p \in Procs |-> << >>] /\ left = [p \in Procs |-> OpsPerProc]
  /\ op = [p \in Procs |-> [kind |-> "get", id |-> CHOOSE i \in Ids : TRUE, pid |-> CHOOSE n \in Pids : TRUE, dead |-> {}]]
NoStores ==
  /\ stores = None /\ commands = None /\ edits = None /\ saving = None /\ calls = None /\ cache = None
  /\ cursors = None /\ held = None /\ last = None /\ overlapped = None /\ unanswered = None
NoExit == dm = None /\ todo = None /\ lock = None /\ stop = None /\ abandoned = None

MCInit ==
  \/ Init /\ NoStores /\ NoExit
  \/ Unused /\ Stored!Init /\ NoExit
  \/ Unused /\ NoStores /\ Exiting!Init
MCNext ==
  \/ ~IsStored /\ ~IsExiting /\ Next /\ UNCHANGED <<storeVars, exitVars>>
  \/ IsStored /\ Stored!Next /\ UNCHANGED <<vars, exitVars>>
  \/ IsExiting /\ Exiting!Next /\ UNCHANGED <<vars, storeVars>>
MCSpec == MCInit /\ [][MCNext]_<<vars, storeVars, exitVars>>

NamesAreUnique == IsStored => Stored!NamesAreUnique
SerialListsAreKept == IsStored => Stored!SerialListsAreKept
ListedSignalsExist == IsStored => Stored!ListedSignalsExist
CachedIsStored == IsStored => Stored!CachedIsStored
ActiveCursorExists == IsStored => Stored!ActiveCursorExists
NobodyWaitsForEver == IsExiting => Exiting!NobodyWaitsForEver
=============================================================================
