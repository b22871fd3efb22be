CONSTANTS
  Conns = {c1, c2}
  DrainPolls = 2
  MaxPosts = 4
  MaxDepth = 6
SPECIFICATION Spec
INVARIANT HandledOnce
CHECK_DEADLOCK FALSE
