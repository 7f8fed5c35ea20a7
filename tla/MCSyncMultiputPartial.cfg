\* Multiputs and appends over two columns, read by get_next_unseen.
CONSTANTS
  c1 = c1
  c2 = c2
  c3 = c3
  Clients <- MCClients
  Writers <- MCClients
  Columns <- MCColumns
  Upcalls <- MCColumns
  Calls <- MCMultiputCalls
  MaxRow = 3
  MaxCalls = 2
  MaxDepth = 4
SPECIFICATION Spec
CONSTRAINT DepthBound
SYMMETRY MCSymmetry
INVARIANT MultiputAtomic
CHECK_DEADLOCK FALSE
