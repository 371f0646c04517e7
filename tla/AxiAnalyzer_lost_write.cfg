\* One write is enough: address, data, response.
CONSTANTS
  TxnIds = {i1}
  None = None
  MaxTxns = 1
  MaxBeats = 1
  LastEdge = 3
SPECIFICATION Spec
INVARIANTS WritesAreReported
