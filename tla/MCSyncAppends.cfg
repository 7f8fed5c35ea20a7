\* append, get_next_unseen and play_foward by two clients over two columns.
CONSTANTS
  c1 = c1
  c2 = c2
  c3 = c3
  Clients <- MCClients
  Writers <- MCClients
  Columns <- MCColumns
  Upcalls <- MCOneColumn
  Calls <- MCAppendCalls
  MaxRow = 6
  MaxCalls = 3
  MaxDepth <- MCMaxDepth
SPECIFICATION Spec
CONSTRAINT DepthBound
SYMMETRY MCSymmetry
INVARIANTS TypeOK PlayedInOrder HorizonOwned DepsPlayedFirst
PROPERTY CallsReturn
\* A client between calls may stop calling.
CHECK_DEADLOCK FALSE
