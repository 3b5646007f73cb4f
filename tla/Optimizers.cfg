SPECIFICATION OptimizersSpec
CONSTANTS
  Widths = {1, 2, 3, 4, 5}
  MemDepth = 3
  AddrWidth = 5
INVARIANTS PacketsSound HybridExact
CHECK_DEADLOCK FALSE
