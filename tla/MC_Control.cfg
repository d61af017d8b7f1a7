SPECIFICATION Spec
CONSTANTS
  Pids = {p1, p2, p3}
  NoPid = NoPid
  OnInt = "exits"
INVARIANTS NoOrphan OneUnstopped
