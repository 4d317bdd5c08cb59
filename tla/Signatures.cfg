SPECIFICATION SystemSpec
CONSTANTS
  NoArea = NoArea
  NoRecord = NoRecord
  Areas = {1, 2}
  Objects <- IpCore
  Slices <- IpCoreSlices
  Type <- MCType
  Graphs <- MCGraphs
  Later <- MCLater
  Retained <- MCRetained
  Built <- MCBuilt
  CompiledSlices <- MCCompiled
  ChangingSlices <- MCChanging
  Records <- MCRecords
  EdgesSupplied = TRUE
  MaxDepth = 3
  MaxRetries = 1
INVARIANTS
  WalksAreLeast
  AreaWalksPartition
  FateSharedLinksTravel
  TrailsKeepToTheirArea
  EverySeedHasItsTrails
  SignaturesAreCascades
  CausesAreProjected
PROPERTIES
  CompileEnds
CHECK_DEADLOCK FALSE
