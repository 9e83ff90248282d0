SPECIFICATION FairSpec
CONSTANTS
  ReadyType = {"Read", "Closed"}
  Platforms = {"Edge", "EmulatedEdge"}
INVARIANTS ArmedIffInjected NoLostEdge
PROPERTIES ReportsOnlyRelevant ActivatedIsReported
