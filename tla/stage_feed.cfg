SPECIFICATION Spec
CONSTANTS
  Changes = {r1, r2}
  Pages = {p1}
  Connections = {1, 2}
  Capacity = 1
  MaxEvents = 3
  Connecting = Connecting
  Closed = Closed
INVARIANT NoGaps
PROPERTY Shown
CHECK_DEADLOCK FALSE
