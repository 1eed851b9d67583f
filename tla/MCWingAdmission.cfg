SPECIFICATION Spec
CONSTANTS
  Workers = {w1, w2, w3}
  Fds = {f1, f2, f3}
  IPs = {p1, p2}
  MaxConns = 2
  MaxConnsPerIP = 1
  AcceptRatePerSec = 0
  AcceptRateBurst = 0
  Unit = 1
  MaxTime = 0
  MaxArrivals = 5
  acceptCapCeiling = 4
  acceptCapReserve = 2
INVARIANTS CountExact BooksBalance FdNotRecycled
PROPERTY ImplementsCap
SYMMETRY Symmetry
