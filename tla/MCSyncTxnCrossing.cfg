\* Two writers whose transactions' start entries cross, read by get_next_unseen.
CONSTANTS
  c1 = c1
  c2 = c2
  c3 = c3
  Clients <- MCClients
  Writers <- MCClients
  Columns <- MCColumns
  Upcalls <- MCColumns
  Calls <- MCTxnCalls
  MaxRow = 4
  MaxCalls = 2
  MaxDepth = 8
SPECIFICATION Spec
CONSTRAINT DepthBound
SYMMETRY MCSymmetry
INVARIANT AppliedOnce
CHECK_DEADLOCK FALSE
