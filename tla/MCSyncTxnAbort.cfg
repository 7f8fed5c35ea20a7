\* A transaction on one column whose Commit races a reader's timeout Abort.
CONSTANTS
  c1 = c1
  c2 = c2
  c3 = c3
  Clients <- MCClients
  Writers <- MCClients
  Columns <- MCOneColumn
  Upcalls <- MCOneColumn
  Calls <- MCTxnCalls
  MaxRow = 4
  MaxCalls = 2
  MaxDepth = 4
SPECIFICATION Spec
CONSTRAINT DepthBound
SYMMETRY MCSymmetry
INVARIANT TxnAgreement
CHECK_DEADLOCK FALSE
