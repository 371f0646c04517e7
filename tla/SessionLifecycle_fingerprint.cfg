\* One client: open, query; the FSDB is rewritten while the daemon starts.
CONSTANTS
  Clients = {c1}
  Pids = {d1, d2}
  Ids = {s}
  Commands = {"open", "query"}
  MaxVersion = 1
  OpsPerClient = 2
  MaxCrashes = 0
  CanIdle = TRUE
  NoPid = NoPid
  NoClient = NoClient
SPECIFICATION Spec
PROPERTIES EnsuredIsCurrent
