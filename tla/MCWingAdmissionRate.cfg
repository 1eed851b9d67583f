SPECIFICATION FairSpec
CONSTANTS
  Workers = {w1}
  Fds = {f1, f2}
  IPs = {}
  MaxConns = 1
  MaxConnsPerIP = 0
  AcceptRatePerSec = 1
  AcceptRateBurst = 2
  Unit = 2
  MaxTime = 5
  MaxArrivals = 5
  acceptCapCeiling = 4
  acceptCapReserve = 2
INVARIANT RateHolds
PROPERTY ShutdownReleasesAll
