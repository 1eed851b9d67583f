SPECIFICATION FairSpec
CONSTANTS
  Conns = {c1, c2}
  PoolGs = {g1}
  Setups <- FullSetups
PROPERTY ShutdownCompletes
CHECK_DEADLOCK FALSE
