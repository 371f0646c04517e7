\* Two clients, two opens each; nothing dies on its own.
CONSTANTS
  Clients = {c1, c2}
  Pids = {d1, d2, d3}
  Ids = {s}
  Commands = {"open"}
  MaxVersion = 0
  OpsPerClient = 2
  MaxCrashes = 0
  CanIdle = TRUE
  NoPid = NoPid
  NoClient = NoClient
SPECIFICATION Spec
INVARIANTS OneDaemonPerSession
