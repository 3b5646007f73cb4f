SPECIFICATION DesignSpec
CONSTANTS
  None = None
  SvIdent <- MCSvIdent
  Calls <- MCCalls
  Designs <- MCDesigns
  MaxCalls <- MCMaxCalls
  NoItem = NoItem
  Values = {v0, v1}
  Zero = v0
  RegDepth = 3
  MemDepth = 4
  Endpoints <- MCEndpoints
  Depths = {1, 2, 3, 4}
  UsizeMax = 4
INVARIANTS
  HierarchySound
  CompiledWhole
  ReadyValidSound
PROPERTIES
  LeafForLeaf
  ImplementsChannel
CHECK_DEADLOCK FALSE
