SPECIFICATION Spec
CONSTANTS
  g = g  h = h  x = x
  a = a  b = b  c = c  d = d
  k = k
  r1 = r1  r2 = r2  r3 = r3  r4 = r4  r5 = r5  r6 = r6
  erpA = erpA  erpA0 = erpA0  erpD = erpD  erpText = erpText
  User = {a, b, c, d}
  Erp = {erpA, erpA0, erpD, erpText}
  UserOf <- MCUserOf
  NoUser = NoUser
  Conv = {g, h}
  Group = {g}
  Req = {r1, r2}
  Payload <- MCPayload
  Key = {k}
  NoKey = NoKey
  Founders <- MCFounders
  PageSize = 2
  PageMax = 2
  DefaultLimit = 1
  MaxLimit = 2
  Limits = {0, 3}
  MaxChanges = 0
INVARIANTS OneMessagePerKey
\* every request may have been answered for good
CHECK_DEADLOCK FALSE
