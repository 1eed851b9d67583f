SPECIFICATION WorkerSpec
CONSTANTS
  Conns = {c1, c2, c3}
  PoolGs = {g1, g2}
  Setups <- SoundSetups
  Posters = {p1, p2, p3}
  MaxPosts = 2
  SpinLimit = 1
  Traffic = 1
  Timeouts = TRUE
INVARIANTS NoWriteAfterClose FdsExact NoLostWakeup
PROPERTIES ShutdownCompletes ReportsHandled
