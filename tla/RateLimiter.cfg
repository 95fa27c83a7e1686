SPECIFICATION LimiterSpec
CONSTANTS
  s1 = s1  s2 = s2
  e1 = e1  e2 = e2  e3 = e3  e4 = e4  e5 = e5
  Sock = {s1, s2}
  Event = {e1, e2, e3, e4, e5}
  SockOf <- MCSockOf
  ConfigRate = 0
  ConfigBurst = 2
  DefaultRate = 1
  Second = 2
  MaxTime = 5
  NoBucket = NoBucket
SYMMETRY EventSymmetry
INVARIANTS LimiterTypeOK WindowBound 
PROPERTIES IsAWindowLimit
\* all sockets may have closed and the clock may have reached its bound
CHECK_DEADLOCK FALSE
