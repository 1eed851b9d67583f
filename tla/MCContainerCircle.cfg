SPECIFICATION FairSpec
CONSTANTS
  Types = {"a", "b", "c"}
  Goroutines = {g1, g2}
  Graphs <- CircularGraphs
PROPERTY FailsFast
CHECK_DEADLOCK FALSE
