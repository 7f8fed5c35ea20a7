\* Transactions by one writer, read by both clients, over two columns.
CONSTANTS
  c1 = c1
  c2 = c2
  c3 = c3
  Clients <- MCClients
  Writers <- MCWriter
  Columns <- MCColumns
  Upcalls <- MCColumns
  Calls <- MCTxnCalls
  MaxRow = 6
  MaxCalls = 2
  MaxDepth = 8
SPECIFICATION Spec
CONSTRAINT DepthBound
INVARIANTS AppliedOnce TxnAllOrNothing NoPanic
PROPERTY FuzzyColumnsSpec CallsReturn
\* A client between calls may stop calling.
CHECK_DEADLOCK FALSE
