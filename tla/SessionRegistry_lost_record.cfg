\* Two processes, two sessions, two calls each; the first violation is the finding.
CONSTANTS
  Procs = {p1, p2}
  Ids = {a, b}
  Pids = {1}
  OpsPerProc = 2
SPECIFICATION Spec
PROPERTY OnlyOwnRecordsDropped
