SPECIFICATION MCSpec
CONSTANTS
  n1 = n1  n2 = n2
  a = a  b = b
  s0 = s0  s1 = s1  s2 = s2
  Node = {n1, n2}
  Erp = {a, b}
  Sock = {s0, s1, s2}
  Proc = {p1}
  NodeOf <- MCNodeOf
  Accounts <- MCAccounts
  SerialDispatch = TRUE
  NoErp = NoErp
  NoSock = NoSock
  Msg = {1, 2}
  Group = {2}
  From <- MCFrom
  To <- MCTo
INVARIANTS RoutingTypeOK OnlyToAddressee EmittedOnce 
INVARIANTS PublishedReachesSteadySocket OfflineOnlyIfStale
\* every socket may have closed for good
CHECK_DEADLOCK FALSE
