\* Two clients, one command each, out of all seven, and two processes that die
\* anywhere: clients interrupted inside the lock or a query, daemons killed.
CONSTANTS
  Clients = {c1, c2}
  Pids = {d1, d2}
  Ids = {s}
  Commands = {"open", "config", "query", "kill", "list", "gc", "killAll"}
  MaxVersion = 1
  OpsPerClient = 1
  MaxCrashes = 2
  CanIdle = TRUE
  NoPid = NoPid
  NoClient = NoClient
SPECIFICATION FairSpec
INVARIANTS TypeOK FreshAnswer StoppedMeansDead LockDiscipline
PROPERTIES QueriesAreFreshReads CommandsEnd
