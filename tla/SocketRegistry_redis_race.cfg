SPECIFICATION Spec
CONSTANTS
  n1 = n1  n2 = n2
  a = a  b = b
  s1 = s1  s2 = s2  s3 = s3
  Node = {n1, n2}
  Erp = {a, b}
  Sock = {s1, s2, s3}
  Proc = {p1, p2}
  NodeOf <- MCNodeOf
  Accounts <- MCOnlyA
  SerialDispatch = TRUE
  NoErp = NoErp
  NoSock = NoSock
PROPERTIES RedisRouteLostOnlyWithItsSocket
CHECK_DEADLOCK FALSE
