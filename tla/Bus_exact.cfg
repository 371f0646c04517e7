\* Two interchangeable ids, two AXI transactions of at most two beats, five edges;
\* five times of an APB file, with two addresses.
CONSTANTS
  TxnIds = {i1, i2}
  None = None
  MaxTxns = 2
  MaxBeats = 2
  LastEdge = 5
  Windows <- MCWindows
  Top = 6
  Addrs = {a1, a2}
  LastTime = 5
SPECIFICATION MCSpec
SYMMETRY Symmetry
INVARIANTS
  AxiWritesAreTrue
  AxiLookupsAreTheBus
  AxiStatsAreTheBus
  AxiWindowsAreExact
  ApbScanIsTheBus
  ApbWalkShowsAll
  ApbAnswersAgree
CHECK_DEADLOCK FALSE
