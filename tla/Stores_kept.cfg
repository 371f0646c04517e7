\* The registry: two processes, two sessions, every interleaving of two calls
\* each.  The stores of a session: two commands at a time, four calls.  A daemon
\* that two commands stop.
CONSTANTS
  Procs = {p1, p2}
  Ids = {a, b}
  Pids = {1}
  OpsPerProc = 2
  Names = {n1, n2}
  Configs = {c1, c2}
  Signals = {s1, s2}
  Existing = {s1}
  None = None
  MaxCalls = 4
SPECIFICATION MCSpec
INVARIANTS
  TypeOK
  SerialEditsAreKept
  DirsFollowRecords
  NamesAreUnique
  SerialListsAreKept
  ListedSignalsExist
  CachedIsStored
  ActiveCursorExists
  NobodyWaitsForEver
CHECK_DEADLOCK FALSE
