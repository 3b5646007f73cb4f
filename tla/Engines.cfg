SPECIFICATION EnginesSpec
CONSTANTS
  Widths = {1, 2, 3, 4, 5}
  MemDepth = 3
  AddrWidth = 5
  LimbBits = 2
  UsizeLimbs = 2
  WordBits = 2
  WideBits = 8
  UsizeBits = 4
INVARIANTS EnginesExact ExpressionsExact
CHECK_DEADLOCK FALSE
