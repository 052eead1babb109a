SPECIFICATION Spec
CONSTANTS
  Sources <- MCSources
  MainSource <- MCMain
  Lines <- MCLines
  PCs <- MCPCs
  PCsOf <- MCPCsOf
  Functions <- MCFunctions
  Start <- MCStart
  End <- MCEnd
  MaxItems = 2
  MaxId = 3
  MaxHits = 1
INVARIANTS TypeOK TablesAgree
PROPERTIES StopsWhereAsked
