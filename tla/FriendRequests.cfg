SPECIFICATION MCSpec
CONSTANTS
  a = a  b = b  c = c
  o1 = o1  o2 = o2  o3 = o3  o4 = o4  o5 = o5  o6 = o6  o7 = o7  o8 = o8
  User = {a, b, c}
  Op = {o1, o2, o3, o4, o5, o6, o7, o8}
  Payload <- MCBoth
  Requests0 <- MCTwoOpen
  Joined <- MCJoined
  NoUser = NoUser
  ListMax = 3
  MaxExpiries = 1
INVARIANTS TypeOK AcceptedAreFriends HalfOnlyBetweenInserts CrossingOverlap
INVARIANTS CacheHoldsFriends RefreshedListsFriend LastingOnlyBetweenCalls
PROPERTY IsAFriendGraph
\* every handler may have ended
CHECK_DEADLOCK FALSE
