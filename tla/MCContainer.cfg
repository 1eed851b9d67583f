SPECIFICATION FairSpec
CONSTANTS
  Types = {"a", "b", "c"}
  Goroutines = {g1, g2}
  Graphs <- AllGraphs
INVARIANTS OneInstance VerdictSound LifecycleExact
PROPERTY ResolutionEnds
CHECK_DEADLOCK FALSE
