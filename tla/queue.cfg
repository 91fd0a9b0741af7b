SPECIFICATION Spec
CONSTANTS
  Nodes = {n1, n2, n3}
  Payloads = {p1, p2}
  Nothing = null
INVARIANTS
  TypeOK
  LinksConsistent
PROPERTY ImplementsFifo
CHECK_DEADLOCK FALSE
