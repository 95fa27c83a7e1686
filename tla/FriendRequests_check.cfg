SPECIFICATION Spec
CONSTANTS
  a = a  b = b  c = c
  o1 = o1  o2 = o2  o3 = o3  o4 = o4  o5 = o5  o6 = o6  o7 = o7  o8 = o8
  User = {a, b, c}
  Op = {o6}
  Payload <- MCAccept
  Requests0 <- MCTwoOpen
  Joined <- MCJoined
  NoUser = NoUser
  ListMax = 3
  MaxExpiries = 0
INVARIANTS CachedFriendsPass
\* every handler may have ended
CHECK_DEADLOCK FALSE
