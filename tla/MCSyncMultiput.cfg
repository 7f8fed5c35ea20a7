\* Multiputs and appends by two clients over two columns, read by both.
CONSTANTS
  c1 = c1
  c2 = c2
  c3 = c3
  Clients <- MCClients
  Writers <- MCClients
  Columns <- MCColumns
  Upcalls <- MCOneColumn
  Calls <- MCMultiputCalls
  MaxRow = 4
  MaxCalls = 3
  MaxDepth = 6
SPECIFICATION Spec
CONSTRAINT DepthBound
SYMMETRY MCSymmetry
INVARIANTS ColumnOrder HorizonOwned ColumnsGapless
\* A client between calls may stop calling; a panicked client stops.
CHECK_DEADLOCK FALSE
