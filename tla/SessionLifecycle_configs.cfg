\* One client: open, config load, query after the FSDB was rewritten;
\* the session is never left alone for long.
CONSTANTS
  Clients = {c1}
  Pids = {d1, d2}
  Ids = {s}
  Commands = {"open", "config", "query"}
  MaxVersion = 1
  OpsPerClient = 3
  MaxCrashes = 0
  CanIdle = FALSE
  NoPid = NoPid
  NoClient = NoClient
SPECIFICATION Spec
PROPERTIES RestartKeepsConfigs
