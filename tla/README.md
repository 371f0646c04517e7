# A TLA+ model of xwave

xwave answers questions about FSDB waveforms. A command (`xwave open`, `value`,
`apb`, `axi`, `event`, ...) is a short process; a session is a daemon that keeps
one FSDB file open and answers over a Unix socket. Sessions are found through
files in `~/.xwave`. This directory models the parts of the program where order,
failure and bookkeeping decide whether the answers are right.

Run everything from this directory: `tlc -workers 2 -config X.cfg M` for a run of
`PROJECT.json`, `tlapm M.tla` for a module of proofs.

## The system

Paths are below `src/src/`.

| component | state it keeps | operations | talks to |
|---|---|---|---|
| session registry (`session/session_registry.cpp`) | `registry.json`, a list of records; a directory and `session.json` per session | `add`, `upsert`, `touch`, `remove`, `get`, `exists`, `cleanup_stale`, `clear_all`, all as load, edit, save of the whole list | every other process that does the same, through the file |
| session manager (`session/session_manager.cpp`) | `registry.lock` while it creates or restarts | `create_session`, `restart_session`, `ensure_session_current`, `kill_session`, `kill_all_sessions`, `list_sessions`, `gc_sessions`, `diagnose_session` | the registry; forks the daemon; PING, QUIT, SIGTERM, SIGKILL |
| daemon (`server/server.cpp`) | the open FSDB file and its fingerprint, the listening socket, last activity, caches of the analyzers | `server_main`, the accept loop, `handle_client`, `cleanup_and_exit` (signal handler) | the registry (`touch`, `remove`), the client, NPI |
| client (`client/client.cpp`) | one connection | `session_connect`, `send_command_and_print`, `send_command_capture` | manager (`ensure_session_current`), daemon |
| commands (`commands/*.cpp`, `main.cpp`) | nothing | parse, call the manager or the client, format | manager, client |
| AXI analyzer (`axi/axi_analyzer.cpp`) | results by configuration name, cursors into them | `analyze`, look-ups, range queries, statistics | clock edges and values from NPI |
| APB analyzer (`apb/apb_analyzer.cpp`) | likewise | `analyze`, look-ups, cursors | NPI |
| clocked queries (`server/server.cpp`) | nothing | `window.verify`, `expr.eval_at`, `handshake.inspect`, `axi.channel_stall`, `signal.trend`, `signal.statistics`: over the edges of a window; `signal.changes`, `signal.stability`, `inspect_signal`, `detect_anomaly`: over the changes of a signal | expressions, NPI |
| time specifications (`common/time_spec.cpp`, resolved in `server/server.cpp`; `build_range_specs` in `commands/cmd_ai.cpp`) | none | a time at a cursor with an offset of durations or clock edges; a window around a time | cursors, NPI |
| event analyzer and expressions (`event/*.cpp`) | a compiled expression | find the samples at which it holds | NPI |
| config stores (`list/`, `apb/`, `axi/`, `event/`, `cursor/*_manager.cpp`) | one JSON file per session and store | load, edit, save | the session's directory |
| FSDB scanning (`server/fsdb_*.cpp`), paths (`common/xwave_paths.cpp`), protocol (`protocol/protocol.h`) | none | iterate, parse, name | NPI, file system |

How they interact. There is no broker: commands and daemons are equal processes
that meet in files. A record in the registry says which daemon (pid) serves a
session and which fingerprint (mtime, size, device, inode) of the FSDB file it
was started for. `create_session` and `restart_session` hold `registry.lock`
(flock) from start to end; nobody else takes it. Each `load_all` and `save_all`
takes a flock on `registry.json` for itself; nothing holds one across the two.
The daemon accepts one connection at a time, checks the file's fingerprint,
touches the registry and answers. It leaves by itself when idle, on QUIT, or on
a signal, and then unlinks its socket and removes its session.

What is hard. Overlapping load-edit-save cycles; a save that truncates before it
locks; a daemon that comes up after its opener gave up; a daemon on its way out
that shares file names with its successor; a file rewritten between a stat and
an open; a lock inherited by a forked child; a QUIT that is lost; a signal handler
that waits for a lock its own process holds; a peer that is
gone when the answer comes (SIGPIPE); and, in the analyzers, channels whose
handshakes come in more orders than the one the code was written for; in the
queries, the two ends of a window, and a limit that must cut only after all else is
done. The full list, with lines and with the properties that cover each item, is `hazards` in
`PROJECT.json`.

What makes each component correct. Registry: no edit of one session loses
another's; directories follow records. Manager: create and restart exclude one
another and always give the lock back; a stopped process is dead; every command
returns, unless a daemon keeps the registry's lock for ever; one daemon per session; a restart keeps the configurations. Daemon and
client: an answer is the file as it was at one moment between request and
answer. Analyzers: what is reported is what the bus did, and every question about it has one
answer. Queries: verdicts and counts are those of the samples of the window, and a
time is the one that is written. Stores: a failed edit
changes nothing, and a cached result belongs to the configuration that is loaded.

## Modules

| module | models | state and actions |
|---|---|---|
| `Selections` | the loops that copy the entries of a vector they keep, and `std::sort` | `Picked` and `SortedBy`, written with ranks and not with `SelectSeq`, which is recursive |
| `RegistryDoc` | the list of records as a value | `IdsOf`, `Find`, `Upserted`, `Without`: the list edits of `get`, `upsert`, `remove`, `cleanup_stale` |
| `SessionRegistry` | `registry.json` under concurrent calls | `file` (parses or not, list, length), `dirs`, and for each process `pc`, `op`, `snap`. `Call`, `Get`, `TouchGet`, `Load`, `Truncate`, `Write`, `WriteSessionFiles`, `RemoveDir`, `Crash`. `truth` and `disturbed` are history |
| `FreshReads` | abstract: readers of a file that is rewritten | `Ask`, `See`, `Answer`, `Drop`, `Leave`, `Rewrite` |
| `SessionLifecycle` | manager, daemons, clients and what they share | `reg`, `dir`, `sock`, `lock`, `fsdb`, a record per daemon (`dm`, with its signal handler) and per client (`cl`); one action per step between two shared effects; `FileError` is a file that cannot be read or written |
| `DaemonExit` | a daemon that is signalled while it uses the registry, and the commands that stop it | `dm`, `todo` (locked accesses still to make, per call), `lock` (whose call has the flock), `stop`; `Lock`, `Unlock`, `Serve`, `Leave`, `Exit`, `Stop`, `Term`, `Kill`, `GiveUp`, `Removed`, `Interrupt`. `abandoned` is history |
| `AxiBus` | external: a legal AXI4 interface, edge by edge | `Edges(bus)`, `BusAfter` |
| `AxiAnalyzer` | `AxiAnalyzer::analyze` | `an` is the local state of `analyze`, counters included; `Edge` is one `process_edge`, channel by channel in the code's order; `Finish` sorts and indexes |
| `AxiQueries` | what its result is asked: look-ups by address, id, number and last, latency and outstanding statistics, windows of transactions and of samples, the timeline of an event | pure operators over `result` |
| `ApbAnalyzer` | `ApbAnalyzer::analyze`, its look-ups, windows and cursors (`AxiAnalyzer`'s cursors are the same code) | `scan` is the local state of `analyze`, `Change` one time of the file (`Group`: the changes of it, then `FinishGroup`), `Finish` caches; then `CursorBegin`, `CursorNext`, `CursorPrev`, `CursorLast` on three cursors. `truth` is what the bus did |
| `EventExpr` | the expression parser and its three-valued logic, over tokens; beside it the syntax trees and what they mean | `ParseOr`, `ParseAnd`, `ParseUnary`, `ParsePrimary`, `Compare`, `Truth` |
| `EventAnalyzer` | `EventAnalyzer::analyze`: what it refuses (`ConfigIsValid`, `ExprIsValid`), its scan (`Scan`) and its fast find (`FastFind`); and the groups `aggregate_events` makes of an export (`Aggregate`) | `Write` adds a time to the file, `Ask` answers one query in all these ways; the work is in pure operators |
| `ClockedFile` | a file by ticks, NPI's changes of a window, and `sample_on_clock` | `Changes`, `SampleOnClock` |
| `ClockedWindows` | `window.verify`, `expr.eval_at` and `handshake.inspect` on samples, `axi.channel_stall` by intervals | `Write` adds a tick, `Ask` answers one request; `WindowVerify`, `EvalAt`, `HandshakeInspect`, `ChannelStall` |
| `SignalQueries` | `signal.changes`, `signal.stability`, `inspect_signal`, `detect_anomaly`, by changes; `signal.trend`, `signal.statistics`, by samples | likewise |
| `ListDiff` | `find_list_diff` | likewise; `FindListDiff` |
| `TimeSpecs` | `parse_time_spec_text`, `parse_duration_spec`, `parse_user_time`, `resolve_cycle_offset`, `apply_duration_offset`; `json_time_range` and `build_range_specs` side by side | likewise |
| `ConfigStores` | the files of a session's directory and what the daemon caches by name | `file` by store, `pc`, `op`, `snap` by command (`Call`, `Check`, `CheckCut`, `Load`, `Truncate`, `Write`, `Crash`), and the daemon's `cache` and `cursors` (`Query`, `CursorSet`, `CursorDelete`, `CursorUse`, `DaemonDies`, `DaemonLeaves`). `held`, `last`, `disturbed`, `unanswered` are history |
| `StoresMC`, `BusMC`, `QueriesMC` | instances for TLC; each puts parts side by side that share nothing, and a behaviour is of one of them | |
| `RegistryDocProofs`, `SessionLifecycleProofs`, `ConfigStoresProofs`, `TimeSpecsProofs` | the theorems and their lemmas about a module each | |
| `StoresProofs`, `BusProofs`, `AxiScanProofs`, `AxiProofs` | the same for the properties `StoresMC` and `BusMC` check; `StoresProofs` holds all there is about `SessionRegistry` and `DaemonExit`, `BusProofs` about `ApbAnalyzer`; `AxiScanProofs` has what an edge does to writes, reads and counters, `AxiProofs` the invariant and the theorems about `AxiAnalyzer` and `AxiQueries` | |

`SessionRegistry` looks inside a save: opening truncates without a lock, then one
locked write at offset 0. A text written over a longer one leaves a tail, and the
file no longer parses. `SessionLifecycle` takes a load and a save as one step
each and looks at what happens between them and around them; so the two split
the grain, and what is found inside a save is not found again outside.

`SessionLifecycle` follows the code by control points. `open` begins with a look
whether the session exists (`cmd_open`); then `create_session` is `lockOpen`, `clean`,
`cleanSave` (`cleanup` under the lock), `exists` (refuse, or make the directory and
fork), `wait` (until somebody bound to the path answers PING; or give up and
terminate), `addLoad`, `addSave` (or give up), `check` (the record's diagnosis, and
`termNew`, `rmLoad`, `rmSave`, `unlink` when it is bad). A query is `ensure` (current, or restart),
`lockRestart`, `restartGet`, `stop`, `stopWait`, `termWait`, `stopped`, `wait`,
`upsertLoad`, `upsertSave`, `connect`, `waiting`. `kill` is `killCheck`,
`killTerm`, `killWait`, then `stop...` and `rmLoad`, `rmSave`. `list` is `clean`,
`cleanSave`. `killAll` is `listed` (the records as loaded), `each` in turn a kill,
then `clear`, `clearSave`. `gc` is `clean`, `cleanSave`, `listed`, `each` in turn a
stop and a removal by the record it loaded (`todo` holds those), and ends as a
`list`. A `config` command is a query that also leaves a configuration in
the session's directory. A daemon goes `forked`, `stated`, `opened`, `serving`,
`touching`, `touched`, `answering`, back to `serving`, and in the end `exiting`
(unlink), `removing`, `saving`, `dead`.

Choices worth knowing:
- A version of the FSDB file stands for its contents and its fingerprint. The
  code compares mtimes in whole seconds, so a rewrite in the same second to the
  same size would go unnoticed; the model does not have that.
- Nothing in `src/` handles SIGPIPE: a daemon whose peer is gone dies of its
  answer, without its cleanup. A client killed by SIGPIPE is a command that
  fails. A connection that ends early is a success to the client, with reply
  "eof", as in `send_command_capture`.
- The child inherits `registry.lock` (no O_CLOEXEC); `lock` is the set of
  processes holding the locked description, and an explicit unlock frees it for
  all of them.
- Pids are not reused.
- A SIGTERM handler that interrupts its daemon's own use of `registry.json` may find
  the flock taken by that very process (`Terminated`, `handler = "locked"`). It then
  waits until it is killed, and so does whoever loads or saves the registry
  (`RegistryFree`). `kill` and `stop_process` follow their SIGTERM with SIGKILL;
  `create_session` and `restart_session` do not. The hang in full: an open
  registers its session; a query makes the daemon `touch` it; the FSDB file is
  rewritten; the open's last check finds the session ill and sends SIGTERM into the
  `touch`; the handler's `registry.remove` waits for the flock, and every later
  command with it. A SIGTERM with a ^C before the SIGKILL does the same.
  `CommandsEnd` says "every command returns, or the registry stays locked for ever";
  `DaemonExit` looks at the accesses one by one, and `NobodyWaitsForEver` says that
  it takes an abandoned SIGTERM (`abandoned`) to hang. No document says anything of
  the hang, so no run is made for it.
- A file that cannot be stat'ed, read or written is modelled where the command then
  returns (`Exists`, `RestartGet`, `StatFailed`, `AddFailed`, `UpsertFailed`).
- `gc` stops a session whose `last_used` is too old; under `CanIdle` any may be.
- In AXI, data and responses are carried unread, so a transaction is its times and
  its id; its address is `AddressOf` its time, one of two or one without a digit;
  every channel is configured.
- `get_transactions_in_range` cuts to `max_count` before it sorts, address hits first,
  so a limited answer of both directions is not the earliest; `WindowIsExact` asks
  for the earliest of one direction only.
- NPI reports a signal at most once for a time and the signals of one time in any
  order; `before` (APB) and `first` (events) are the changes that come ahead of
  the clock's. A level that an edge is judged by is the one after all changes of
  its time; an edge is 0 to 1 (or 1 to 0), never from or to an unknown level.
- APB has no ready signal in the code: `Transfer`, like the code, takes every edge
  with psel and penable for one.
- The first `next` of an APB cursor without a `begin` shows the second
  transaction; `WalkShowsAll` is about walks from `begin`.
- Events: values are binary, x and z are one; `!a == b` is read as `!(a == b)`; a
  bare decimal literal without a digit 0 or 1 in it is unknown as a condition; a
  limit of 0 or less is no limit. An error in one edge ends the query.
- The clock edges that find asks NPI for are taken to be those the scan sees.
- Whether an alias of the clock (`c`) has the clock's own handle is part of a query
  (`one`). If so a scan, which gives a change to the first handle it fits, shows for
  it what the clock was before the window; find reads it anew. `ExportIsExact`
  says the former (`ClockAlias`), and `FindIsFirst` leaves such queries out. Likewise
  for a signal that is twice in a list.
- `window.verify` stops when all its eventually conditions have come true, and no
  longer looks whether an always or never condition beside them holds to the end
  of the window. `VerdictIsTheRange` says what is right all the same: what holds over
  the window passes, a pass of conditions of one kind is a pass over the window, and
  what passes has its eventually conditions come true. `VerifiedOverTheWindow`, what
  one would expect of every pass, is violated.
- `handshake.inspect` reports a long stall when it ends; one that is still open at
  the end of the window is only in the longest. `axi.channel_stall` cuts a stall
  where valid or ready moves between two edges, even when it is back at the next
  edge, so its stalls may be shorter. Both are as the code does it.
- Requests about signals: whether NPI's iterator also reports the level at the
  beginning of a window is part of a request. `signal.stability` on a signal it does
  not report judges from the first change on. Only the low `WordBits` bits of a value
  are compared. In `signal.statistics` of the clock's own handle only the level before
  the window is seen, because `sample_on_clock` takes its changes for edges.
- Texts of times are tokens; fractions and the case of units are left out. A cursor
  named with a minus before a number cannot be reached (`Plain`). What NPI does when
  it is to stand at an edge behind the last one is part of a request (`stays`).
- In `ConfigStores` a new list or protocol configuration of a taken name is
  refused, a new event replaces the one of its name; a store that does not parse
  reads as empty, except to a new event, which stops. A daemon that leaves takes
  the directory and every store in it along (the finding of
  `SessionLifecycle_configs`), so a write to a file still open is lost. A command
  that names no list works on the last of the file; any name stands for it.
  Cursors are edited by the daemon only, between two requests.

## Runs

| run | expects | shows | instance |
|---|---|---|---|
| `Stores_kept` | pass | registry: `TypeOK`, `SerialEditsAreKept` (as long as edits take turns, the file holds all of them), `DirsFollowRecords`; stores: `NamesAreUnique`, `SerialListsAreKept`, `ListedSignalsExist`, `CachedIsStored`, `ActiveCursorExists`; exit: `NobodyWaitsForEver` | 2 processes, 2 sessions, 2 calls each, a crash anywhere; 2 commands at a time, 4 calls, 2 names, 2 configurations, 2 signals of which 1 exists, deaths anywhere; 2 commands that stop a daemon |
| `SessionRegistry_lost_record` | violation of `OnlyOwnRecordsDropped` | two overlapping edits lose another session's record | 2 processes, 2 sessions, 2 calls each |
| `SessionLifecycle_kept` | pass | `TypeOK`, `FreshAnswer`, `StoppedMeansDead`, `LockDiscipline`; queries refine `FreshReads` (`QueriesAreFreshReads`); `CommandsEnd` (liveness): every command returns, or the registry stays locked for ever | 2 clients, 1 command each of all seven; 2 daemons; 1 rewrite; 2 crashes or interrupts anywhere |
| `SessionLifecycle_fingerprint` | violation of `EnsuredIsCurrent` | the record's fingerprint is newer than the daemon's | 1 client: open, query |
| `SessionLifecycle_one_daemon` | violation of `OneDaemonPerSession` | a late cleanup removes another daemon's record, and a second daemon is started | 2 clients, 2 opens each, 3 daemons |
| `SessionLifecycle_configs` | violation of `RestartKeepsConfigs` | the stopped daemon deletes the directory the restart should keep | 1 client, 3 commands |
| `Bus_exact` | pass | `AxiWritesAreTrue`; `AxiLookupsAreTheBus`: every transaction of the bus is found under its number (reads always, writes when their data come first), and no other; `AxiStatsAreTheBus`: latencies, and counters at every edge; `AxiWindowsAreExact`; `ApbScanIsTheBus`, `ApbWalkShowsAll`, `ApbAnswersAgree` | every legal AXI waveform of 5 edges, 2 transactions of up to 2 beats, 2 ids; every APB waveform of 5 times, 2 addresses, clock and pwrite possibly unknown, both edges; any moves of the three cursors |
| `Queries_exact` | pass | `ExportsAreExact` (events and groups), `FindIsFirst`, `MatchesAreCertain`, `ParserFollowsSyntax`; `VerdictsAreTheRange`, `StallsAreCounted`; `ChangesTellTheSignal`, `SamplesAreSummedUp`, `AnomaliesAreFound`; `TimesAreMeant` | every waveform of 4 times with a 2-bit signal of 3 values, 16 queries; every expression of two levels over 4 leaves; every file of 6 ticks of three interface signals, of one signal of one or three bits, of a list's two signals, and of a clock, with the requests of `QueriesMC` |
| `Queries_diff` | violation of `DiffIsThere` | `list diff` gives a time at which the signals are equal | as `Queries_exact`, waveforms of 3 times |
| `Queries_verify` | violation of `VerifiedOverTheWindow` | `window.verify` passes a never condition that fails after the eventually ones have come true | likewise |
| `Queries_stuck` | violation of `StuckToTheEndIsFound` | `detect_anomaly` does not find a signal stuck that stopped for good | likewise |
| `AxiAnalyzer_lost_write` | violation of `WritesAreReported` | a write whose data follow its address is in no result | 3 edges, 1 write |

Why the bounds are enough. Two overlapping editors are what it takes to lose an
edit, and two calls each let one overlap begin after the other ended; two
sessions tell "own record" from "another's". One session is enough in
`SessionLifecycle`, because records of different sessions meet only in
`registry.json`, where `SessionRegistry` has two. Two daemons give a session its
old and its new one (three for the violation with a late one), two clients any two
commands beside each other, and one rewrite separates before from after, in any
place. More clients, daemons and rewrites are left to the proofs, which cover all
safety properties of this run. Two crashes let a client die inside the lock and the
daemon that inherited the lock after it, or a SIGTERM be left alone. Two stoppers of `DaemonExit` let one interrupt
the other's daemon while the other waits for the flock. For AXI, five edges are what
a write needs whose response was ignored, whose data the next address hands over at
the fourth, and which takes that one's response at the fifth; two ids
interleave, two beats tell a last beat from others, and a reset may fall on any
edge; the windows begin and end at a time of the file and of its middle. The ids are interchangeable model values, hence the symmetry.
Five changes give APB two transfers with the clock back down between them, so
two hits or one of each direction, and a reset, an unknown level or a late change
at any of them; unknown levels of the other inputs go the way of pwrite's through
`On`. Four times give the event scan two edges of one kind, a window that leaves
one out at either end, and a change between edges. Two levels of operators are
what precedence and associativity need. Six ticks give the windows three rising edges
(a clock rises at odd ticks): a stall of two samples and its end, two stalls, or data
that change and change back; when the clock falls at most one of valid and ready
moves, which is enough for a movement between two edges. The requests have limits of
one and two samples, windows that begin late or end early, both edges and two orders
of a tick's changes. Three bits are more than a word of two (`WordBits`). The times
have a cursor in the file, one behind its end, and names with a minus in them and before them; `Top` is a
tick above the latter, so an offset may reach it and wrap. Four calls let a list be made, filled,
left for another and edited again; two commands let any two edits overlap.

Every property of a passing run has a mutant in `PROJECT.json`: a plausible bug
in a mapped definition (a lock that is not given back on an early return, a bind
before the stat, a kill that is not waited for, a counter that survives reset)
that makes TLC report that property.

Fairness. `FairSpec` asks weak fairness of each client's and each daemon's own
steps, but not of file errors (`FileError`), which nobody may count on: a running process is scheduled, and its timeouts (`wait_for_server`,
`stop_process`, PING, the idle timeout of the accept loop) expire, all of which
the code has as bounded loops, `poll` or `SO_RCVTIMEO`. Nothing obliges a user to
start a command, the file to change, or a process to crash. `CanIdle` says whether
a session is left alone long enough for its daemon to leave; a client that waits
for a daemon relies on that daemon's steps, and one that waits for
`registry.lock` on its holder's, which may be an orphaned daemon that only the
idle timeout ends.

## Where the code and its documents differ

Each of these is a run above and an entry of `findings`, but for the two that say
that they have none.
- The registry's locking does not cover load and save together
  (`session_registry.h:80` promises locking for concurrent access).
- The record's fingerprint and the daemon's are taken at different moments, so a
  session can be "current" and refuse every request until something else changes.
- The cleanup of a daemon that is on its way out removes whatever has its
  session's name by then.
- A restart loses the session's configurations, which the README says it keeps.
- `list add` adds a signal that does not exist when the daemon dies while it looks
  it up: to `send_command_capture` an early end of the connection is an answer
  (`skill/references/cli-reference.md:159` says a failed probe leaves the list alone).
  `ListedSignalsExist` exempts this by `unanswered`; it has no run of its own.
- An AXI write whose data come after its address is lost, or gets a later
  response's time; only a write address drains the data buffer.
- `window.verify` looks at no more samples once its eventually conditions have come
  true, so an always or never condition beside them may fail later in the window and
  is said to have passed (`skill/SKILL.md:508`: over a window).
- `detect_anomaly` measures a level between two changes, so a signal that stops for
  good is not reported as stuck (`skill/SKILL.md:556`). `AnomaliesAreFound` asks for
  what lies between two changes, and neither demands nor forbids what lies after the
  last.
- `list diff` judges after each change and not after all changes of a time. Signals
  that are equal when the window begins differ after the first change of any of
  them, so signals that move together are said to differ where they move
  (`README.md:355`). `ChangesTellTheSignal` says what is left: the answer is never
  late, and it is a difference unless several entries move at that time.
- A window around a time is resolved by the daemon for most actions; for `event.find`,
  `event.export` and `list.diff` the client appends `-before` and `+after` to the text
  of the time, which only a bare cursor can take, although `README.md:107` says that
  range actions accept it; it has no run of its own. `WindowsAgree` is about the
  windows that both accept.

## Proofs

`RegistryDocProofs`: what the list edits return, for lists of any length, and what it
is to choose entries of a list by their indices, once or twice over.
`Without` is written with ranks (the k-th kept record is at the kept index with
k - 1 kept ones before it) and not with `SelectSeq`, which is recursive and so out
of the prover's reach; TLC finds the two equal. That ranks number a finite set
without gaps (`RanksAreOneToSize`) follows from counting alone: ranks are an
injection into 1..n, and an injection between sets of one size is onto. The first
record of an id is the one of rank 1 (`FirstOfFacts`).

`StoresProofs`, its first part: `RegistryTypes` (`Spec => []TypeOK`), `EditsKept`
(`Spec => []SerialEditsAreKept`) and `DirsMatchRecords`
(`Spec => []DirsFollowRecords`), for any number of processes, sessions and calls,
from `OpsAssumption`. `SerialEditsAreKept` alone is not inductive: that the file
is right after a write depends on what the writer had in memory. `IInv` adds, as
long as nothing was disturbed, that there is one editor (`OneEditor`), that the
file is empty between open and write, so no tail is left (`EmptyUntilWritten`),
and that what a process will save is its edit of the current truth
(`SnapIsCurrent`). `DirsInv` says what the directories are at each point of a
call: cleanups remove them before the save, `remove` after it, and a save makes
those of the records it wrote.

`SessionLifecycleProofs`: `RegistryLockHeld` (`LockDiscipline`) and
`AnswersAreFresh` (`FreshAnswer`), for any number of commands, daemons, sessions,
rewrites and crashes, from `LifecycleAssumption`. The invariant adds to
`LockDiscipline` the shape of the records (`DaemonOk`, `ClientOk`) and
`ServedWaits`. Two facts in it carry the argument. Every client stays on the path
of its command, so the lock is held exactly on the critical stretch of that path;
and a file error on that stretch unlocks as well.
And a daemon's fingerprint was taken before its data: `fp <= data <= fsdb`, so
when `fp = fsdb` at the check, `data = fsdb` too. Most actions are shown to be a
`ClientMove` or a `DaemonMove`, one lemma each says that such a move keeps the
invariant, and the proof of an action only says which move it is.

Its second part: `TypesHold` (`TypeOK`), `StoppedIsDead` (`StoppedMeansDead`) and
`ReadsAreFresh` (`Spec => QueriesAreFreshReads`), from the same assumption. `TypeOK`
is not inductive, because a step may copy a pid out of a record. `TInv` therefore
says of every pid that is written down, in the registry, in a list that somebody
loaded, in a command's record, that its process was forked (`Born`), and of a
command that is through with stopping a process (`Through`) that it is dead. The two
need each other: a pid that was never forked could be forked later, and then "dead"
would not last. That no born process becomes unborn and no dead one runs
(`DaemonsAge`) keeps both. For the refinement, `ReadOf` maps a command and the daemon
it asks to a reader of `FreshReads`; `Init` maps to `Init`, and every step to one move
of one reader (`OneReadMoves`), a rewrite, or a stutter. The step that needs
the invariants is the check of the fingerprint: the data the daemon has are the file's
at that moment, which is where the read takes place. From then on the daemon keeps the
data until the answer is sent or its client is gone.

`StoresProofs.LockGoesOn`, for any number of commands that stop or give up a daemon: `ExitInv` says that a flock is only held within a call, by a process
that is there (`HeldInCalls`), and that a daemon in its handler was sent SIGTERM by
someone who still follows it up, or was abandoned (`SignalsAreFollowedUp`).
`CallersDiffer` says that the processes, the daemon's two threads of control and
`None` are different values; `StoresMC` assumes as much (`StoresAssumption`).

`ConfigStoresProofs` and `StoresProofs`: `StoreNamesAreUnique`, `StoreListsExist`,
`SerialEditsOfLists`, `CacheIsOfTheStore`, `CursorExists`, for any commands, names,
configurations, signals and calls. The invariant has three parts. `TypesFit` says of
every list of entries, in a file and in the memory of a command that is about to save
it, that it has a name once and that its signals exist; so it does not matter who
overwrites whom. `TurnsKept` is for a store nobody disturbed: at most one command is
between load and the end of its write, the file is empty while it is being written,
and what will be written is that command's edit of the entries that `held`, `last` and
`cache` are about. `CursorsFit` is for the cursors. The lemmas about edits
(`RemoveAtFacts`, `AtFacts`, `EntryFacts`, `SameButFacts`) say what each does to the
entry of a name and that it leaves the others alone. `StoresAssumption` has that
`None` is no name, command, configuration, or list of signals.

`BusProofs`: `ApbScanReportsTheBus`, `ApbWalksShowAll` and `ApbAnswersHold` (from
`ApbWindowsHold` and `ApbLookupsHold`), all that a run checks of `ApbAnalyzer`, for files of any length, any
addresses and any moves of the three cursors, from `ApbAssumption` (`None` is no
result). `Scanned` says what `scan` is between two times of the file: it has the
levels of the file, no change is pending, and `all` is what the bus did.
`GroupFacts` shows that a time keeps this, whether the data change ahead of the clock
or after it. `DirectionsShareAll` shows that the two vectors of a direction have as
many entries as there are transfers, and each transfer in its own: the indices of
reads and writes are disjoint and all there are. For the cursors, `CursorFits` adds to
`WalkShowsAll` that a cursor that has shown nothing is at 0 and that a walk has shown
something. For windows, `TimesGrow` adds that the transfers are in order of time, so
that what lies in a window is a stretch (`WindowIsStretch`), which the two binary
searches bound; and choosing by direction and by time may change places
(`DirectionOfWindow`, from `RegistryDocProofs.PickedTwice`). For look-ups, the counter
of the loop is the rank of an entry among the hits. It is a recursive function, so
that takes two lemmas: the ranks satisfy its equation, hence there is one
(`CountsAreRanks`), and there is no other, because there is no first place at which
another could differ (`OneCount`).

`AxiScanProofs` and `AxiProofs`: `AxiWritesHold`, `AxiLookupsHold`, `AxiWindowsHold` and
`AxiStatsHold`, all that a run checks of `AxiAnalyzer` and `AxiQueries`, for waveforms of
any length with any ids, any number of transactions in flight, bursts and resets, from
`EdgeAssumption` and `ApbAssumption` (`None` is no result and no truth value) and
`QueriesAssumption` (the file ends before the largest time).

`AxiWritesHold` (`AxiWritesAreTrue`). That the reported writes are the bus's
is not inductive: it rests on what is still pending, and pending writes have their
data by position, not by id. `Follows` therefore says that there is a stream of all
beats since the last reset, a cut of it into bursts, and a number `fed` of beats that
have left the buffer (`Tied`, `Buffered`): the bus's bursts are shares of the stream
(`InOrder`, `Linked`), the k-th pending write has of the k-th share what was fed of it
(`Fed`), and a pending write whose address the bus no longer has is one the bus
completed (`Responses`). The bus drops a write when it responds, the analyzer when it
reports it, and that can be much later or never (the finding of
`AxiAnalyzer_lost_write`), so `place` maps the writes the bus has to the pending ones.
The step at which this could go wrong is the response: the bus responds to the first
write of the id that it has, and the analyzer reports the first pending one of the id
whose data are complete. The two may differ, but then the analyzer's is an older one
that the bus has responded to before (`OldestIsMade`), because shares are fed in order.
`OnceEach` keeps addresses apart. The buffer is drained by a recursive function: a
function that satisfies its equation up to one beat extends to the next, and there is
no least beat up to which there is none (`DrainExists`). `SortedFacts` shows that
`SortedBy` only permutes, whatever ties there are: so nothing here rests on what
`std::sort` does with them.

`AxiLookupsHold` (`AxiLookupsAreTheBus`). `AxiInv` adds to `Follows` what the reads and the
counters are. Reads (`ReadsFollow`, `Queued`): the queue of an id has the reads in flight of
that id, both in the order of the addresses, so the first the bus has of an id is
the head of its queue (`HeadIsFirst`); what is reported is what the bus completed.
Writes (`WritesFollow`), when their data come first: every write in flight has its data
(`Prompt`), so `place` is the identity (`PlacesAreOwn`) and the bus and the analyzer
respond to the same write. After `Finish` both vectors are all that the bus has
completed, by address (`AllInTurn`; `SortedFacts` and its `InKeyOrder`). The loop of a
look-up counts hits: its counter is the rank of an entry (`CountersAreRanks`), and there is
no other such counter (`OneCounter`), so the entry it stops at has as many hits up to it
as the property numbers, for `SoughtIn` the vector and `Due` on the bus match one to one
(`DueIsSought`).

`AxiWindowsHold` (`AxiWindowsAreExact`). `QueryInv` adds what is between a scan and its
queries: samples in order of time (`Sampled`), and a result in the order of the addresses,
with no response ahead of its address and the places in order of the responses
(`ResultFits`). In either order a window is a stretch (`WindowFacts`), found by two binary
searches; by response the place is looked up through a permutation (`ByRespFacts`).
`WindowOnce` and `WithoutOnce` put the two stretches together: a transaction with both ends
in the window is dropped from the second. So what is gathered is, each once, what has
an end in the window (`EmittedShows`), and cutting it short and sorting it keeps that and
says whether something is missing (`ReplyShows`). `Context` adds and subtracts times that
may wrap; by `QueriesAssumption` it is the window it should be (`AroundShows`).

`AxiStatsHold` (`AxiStatsAreTheBus`). At an edge: the total of a direction is the length of
a queue or of the pending writes, and the counter of an id the number of those that are of
the id (`Counted`, `ReadsTied`, `QueueSize`), in the analyzer as on the bus. That the last
sample has the counters as they are now is part of `QueryInv` (`LastIsNow`). Statistics: the
loop is a recursive function, so it is shown that a function that satisfies its equation
up to one number extends to the next (`StatsExist`) and that there is one only
(`StatsAreOne`). Its total is not stated as a sum, which would be a second recursion, but
as the size of a set that has as many units for each number as the number says (`Units`). Then the numbers may be counted
off in any order, by index or by transaction (`Tells`, `NumbersSumUp`), and the transactions
in the code's two vectors are those of the bus (`DoneFacts`, `LatenciesShow`).

`TimeSpecsProofs.TimesHold` (`TimesAreMeant`), for files of any length, any numbers,
units, cursors and requests, from `TimesAssumption`: tokens are strings of one kind
each, a duration fits a time, and a request is a time or a window. `TimesInv` says that
the file is complete when there is an answer and that the answer is the one it gives; all
else is about what the operators give for such a file. It has three parts. Edges: `Nth`
is a recursive function, so, as for the look-ups, a function that satisfies its equation
up to one step extends to the next, and there is one only; that its k-th value is the k-th edge
is then that no value is the first to miss (`EdgeIsMeant`), with the edges between counted as
sets. `resolve_cycle_offset` goes back from the first edge at or after the base; when
there is none and NPI does not stay at the last, it refuses, hence the exception in `Meant`. Sums: `OffsetIsMeant`, with the wrap of unsigned
addition (`SumWraps`). Texts: what `build_range_specs` appends comes apart again where it
was joined exactly when the text before it is a bare cursor
(`IsBare`, `NameEndOfJoin`, `AtOffset`), and any other text of a time, with a duration
appended, is refused (`AtTwice`, `AbsoluteTwice`, `OnlyBare`). So both
readers agree around a bare cursor (`SameAtCursor`), and wherever both accept
(`SameWhenAccepted`).

The instances of `StoresMC` and `BusMC` are of modules with a namespace of their own,
so lemmas beginning with `Same` bridge the operators of an instance of a proof module
and those of the run's.

Only model-checked, and why:
- `CommandsEnd`: liveness under fairness.
- Everything in `QueriesMC` but `TimesAreMeant`: `EventExpr`, `EventAnalyzer` and
  `ClockedWindows` declare RECURSIVE operators (the parser recurses, and so do syntax
  trees), and the samples of a window are folds over its changes.
- The properties of the runs that expect a violation.

## Not modelled

- `cleanup_idle`, `delete_list`, `delete_apb`, `delete_axi`, `delete_event`,
  `time_parser.cpp`, and the expressions in `cmd_ai.cpp`: nothing calls them.
  `doctor` only reads.
- Request parsing and formatting, `cmd_ai.cpp`'s JSON, paths: wording around the
  modelled calls. `list value` and `list validate`, scopes and values: what NPI
  returns, formatted. `value.batch_at` and `verify.conditions` are one request for
  each item, and the resolved range of an answer is one more, so such an answer is
  not of one moment; nothing says that it is.
- NPI and nlohmann/json (`json.hpp`, 24765 of the repository's 38231 lines of code):
  external.
- AXI cursors are the code of APB's, checked there; events over more aliases than a
  signal, a field of it and the clock;
  the lexer of expressions and the bases of literals.
- Changes of a signal under a handle that two names share: what NPI hands out for two
  names of one signal cannot be told from this code.
- A pid that belongs to another process by the time it is signalled, and a rewrite
  within the second of the last one to the same size.

## Plan

1. Events over two signals, and an alias of the reset.
2. Theorems about the queries that need no parser: `ClockedWindows` and
   `SignalQueries` with their loops as recursive functions, in a module apart from
   `EventExpr`.

A new question goes into a run there is, or takes the place of a weaker one.
