------------------------- MODULE MessageHistoryProofs ----------------------
(***************************************************************************)
(* What a client has read below a cursor no request changes, and the pages *)
(* he reads one after another leave nothing out, whatever is stored and    *)
(* whatever page sizes he asks for.                                        *)
(***************************************************************************)
EXTENDS MessageHistory, GroupChatProofs, FiniteSetTheorems, WellFoundedInduction

(* Messages are only ever added, at the end.                               *)
LEMMA MessagesAppended ==
  ASSUME TypeOK, [Next]_vars, messages' # messages
  PROVE  \E m : messages' = Append(messages, m)
<1>1. CASE UNCHANGED vars
  BY <1>1 DEF vars
<1>2. ASSUME NEW r \in Req, Insert(r) PROVE \E m : messages' = Append(messages, m)
  BY <1>2 DEF Insert
<1>3. ASSUME NEW r \in Req, \/ Begin(r) \/ CheckMember(r) \/ LookupNothing(r) \/ LookupFirst(r)
                            \/ Touch(r) \/ ListPage(r) \/ FanOut(r) \/ Fail(r)
      PROVE  FALSE
  BY <1>3 DEF Begin, CheckMember, LookupNothing, LookupFirst, Touch, ListPage, FanOut, Fail, store
<1>4. ASSUME NEW c \in Group, NEW u \in User, Join(c, u) PROVE FALSE
  BY <1>4 DEF Join, store
<1>5. ASSUME NEW c \in Group, NEW i \in DOMAIN members[c], Leave(c, i) PROVE FALSE
  BY <1>5 DEF Leave, store
<1>6. QED
  BY <1>1, <1>2, <1>3, <1>4, <1>5 DEF Next, Work

(* A page below a cursor is made of older messages alone.                  *)
LEMMA RowsStay ==
  ASSUME TypeOK, NEW m, messages' = Append(messages, m),
         NEW c \in Group, NEW before \in 1 .. Len(messages) + 1
  PROVE  Rows(c, before)' = Rows(c, before)
<1>1. messages \in Seq(Message) /\ Len(messages) \in Nat /\ DOMAIN messages = 1 .. Len(messages)
  BY LenProperties DEF TypeOK
<1>2. /\ DOMAIN messages' = 1 .. Len(messages) + 1
      /\ \A i \in 1 .. Len(messages) : messages'[i] = messages[i]
  BY <1>1
<1>3. ASSUME NEW i \in DOMAIN messages', Older(i, before) PROVE i \in DOMAIN messages
  BY <1>1, <1>2, <1>3 DEF Older
<1>4. \A i \in DOMAIN messages : i \in DOMAIN messages' /\ messages'[i] = messages[i]
  BY <1>1, <1>2
<1>5. QED
  BY <1>3, <1>4 DEF Rows

(* A page below a cursor never changes, whoever sends meanwhile            *)
(* (message_repository.go:91-99).                                          *)
THEOREM PagesStay == Spec => PagesStable
<1>1. ASSUME TypeOK, [Next]_vars, messages' # messages,
             NEW c \in Group, NEW before \in 1 .. Len(messages) + 1, NEW offset \in 0 .. 1,
             NEW limit \in Limits
      PROVE  HistoryPage(c, before, offset, limit)' = HistoryPage(c, before, offset, limit)
  <2>1. Rows(c, before)' = Rows(c, before)
    BY <1>1, MessagesAppended, RowsStay
  <2>2. QED
    BY <2>1 DEF HistoryPage
<1>2. TypeOK /\ [Next]_vars =>
        [messages' # messages =>
           \A c \in Group, before \in 1 .. Len(messages) + 1, offset \in 0 .. 1, limit \in Limits :
             HistoryPage(c, before, offset, limit)' = HistoryPage(c, before, offset, limit)]_vars
  BY <1>1
<1>3. QED
  BY <1>2, GroupTypeCorrect, PTL DEF Spec, PagesStable

----------------------------------------------------------------------------
(* The least and the greatest of some ids.                                 *)
LEMMA LeastId ==
  ASSUME NEW S \in SUBSET Nat, S # {}
  PROVE  \E m \in S : \A i \in S : m <= i
<1>1. PICK m \in S : \A i \in S : ~ (<<i, m>> \in OpToRel(<, Nat))
  BY WFMin, NatLessThanWellFounded
<1>2. \A i \in S : ~ (i < m)
  BY <1>1 DEF OpToRel
<1>3. QED
  BY <1>2

LEMMA GreatestId ==
  ASSUME NEW n \in Nat, NEW S \in SUBSET (1 .. n), S # {}
  PROVE  \E m \in S : \A i \in S : i <= m
<1> DEFINE T == {k \in Nat : k <= n /\ n - k \in S}
<1>1. PICK i \in S : i \in 1 .. n
  OBVIOUS
<1>2. n - i \in T
  BY <1>1
<1>3. PICK k \in T : \A j \in T : k <= j
  <2> T \in SUBSET Nat /\ T # {}
    BY <1>2
  <2> HIDE DEF T
  <2> QED
    BY LeastId
<1>4. n - k \in S /\ k \in Nat /\ k <= n
  BY <1>3
<1>5. ASSUME NEW j \in S PROVE j <= n - k
  <2>1. j \in 1 .. n /\ n - j \in T
    OBVIOUS
  <2>2. k <= n - j
    BY <1>3, <2>1
  <2>3. QED
    BY <1>4, <2>1, <2>2
<1> HIDE DEF T
<1>6. QED
  BY <1>4, <1>5

\* The newest few of some ids.
NewestOf(S, size) == {i \in S : Cardinality({j \in S : j > i}) \in 0 .. size - 1}

(* They are some if there are any, and with an id all that are newer.      *)
LEMMA NewestFew ==
  ASSUME NEW n \in Nat, NEW S \in SUBSET (1 .. n), NEW size \in Nat \ {0}
  PROVE  /\ NewestOf(S, size) \subseteq S
         /\ S # {} => NewestOf(S, size) # {}
         /\ \A i \in NewestOf(S, size), j \in S : j > i => j \in NewestOf(S, size)
<1> DEFINE Newer(i) == {j \in S : j > i}
           P == NewestOf(S, size)
<1>0. P = {i \in S : Cardinality(Newer(i)) \in 0 .. size - 1}
  BY DEF NewestOf
<1> HIDE DEF P
<1>1. IsFiniteSet(S)
  <2>1. IsFiniteSet(1 .. n)
    BY FS_Interval
  <2>2. QED
    BY <2>1, FS_Subset, Zenon
<1>2. ASSUME NEW i
      PROVE  IsFiniteSet(Newer(i)) /\ Cardinality(Newer(i)) \in Nat
  <2>1. Newer(i) \in SUBSET S
    OBVIOUS
  <2>2. IsFiniteSet(Newer(i))
    BY <1>1, <2>1, FS_Subset, Zenon
  <2>3. QED
    BY <2>2, FS_CardinalityType, Zenon
<1>3. ASSUME S # {} PROVE P # {}
  <2>1. PICK m \in S : \A i \in S : i <= m
    BY <1>3, GreatestId
  <2>2. Newer(m) = {}
    <3>1. m \in Nat /\ \A i \in S : i \in Nat
      OBVIOUS
    <3>2. \A i \in S : ~ (i > m)
      BY <2>1, <3>1
    <3>3. QED
      BY <3>2
  <2>3. Cardinality(Newer(m)) = 0
    BY <2>2, FS_EmptySet, Zenon
  <2>4. m \in P
    BY <1>0, <2>3
  <2>5. QED
    BY <2>4
<1>4. ASSUME NEW i \in P, NEW j \in S, j > i PROVE j \in P
  <2>1. Newer(j) \in SUBSET Newer(i)
    <3>1. i \in Nat /\ j \in Nat /\ \A k \in S : k \in Nat
      BY <1>0
    <3>2. \A k \in S : k > j => k > i
      BY <1>4, <3>1
    <3>3. QED
      BY <3>2
  <2>2. Cardinality(Newer(j)) <= Cardinality(Newer(i))
    BY <1>2, <2>1, FS_Subset, Zenon
  <2>3. Cardinality(Newer(j)) \in Nat /\ Cardinality(Newer(i)) \in Nat
    BY <1>2
  <2>4. Cardinality(Newer(i)) \in 0 .. size - 1
    BY <1>0
  <2> HIDE DEF Newer
  <2>5. Cardinality(Newer(j)) \in 0 .. size - 1
    BY <2>2, <2>3, <2>4
  <2>6. QED
    BY <1>0, <2>5 DEF Newer
<1>5. QED
  BY <1>0, <1>3, <1>4 DEF P

(* A page is the newest few of the rows below the cursor.                  *)
LEMMA PageIsNewest ==
  ASSUME TypeOK, NEW c \in Group, NEW before, NEW limit \in Limits
  PROVE  /\ HistoryPage(c, before, 0, limit) \subseteq Rows(c, before)
         /\ Rows(c, before) # {} => HistoryPage(c, before, 0, limit) # {}
         /\ \A i \in HistoryPage(c, before, 0, limit), j \in Rows(c, before) :
              j > i => j \in HistoryPage(c, before, 0, limit)
<1> DEFINE S == Rows(c, before)
           P == HistoryPage(c, before, 0, limit)
           n == Len(messages)
<1>1. n \in Nat /\ S \in SUBSET (1 .. n)
  BY DEF TypeOK, Rows
<1>2. Size(limit) \in Nat \ {0}
  BY HistoryAssumption DEF Size
<1>3. Skip(0) .. Skip(0) + Size(limit) - 1 = 0 .. Size(limit) - 1
  BY <1>2 DEF Skip
<1>4. P = NewestOf(S, Size(limit))
  BY <1>3 DEF HistoryPage, NewestOf
<1> HIDE DEF P, S, n
<1>5. /\ P \subseteq S
      /\ S # {} => P # {}
      /\ \A i \in P, j \in S : j > i => j \in P
  BY <1>1, <1>2, <1>4, NewestFew
<1>6. QED
  BY <1>5 DEF P, S

(* The two pages a client reads one after the other meet.                  *)
LEMMA PagesAlwaysMeet == TypeOK => PagesMeet
<1> SUFFICES ASSUME TypeOK, NEW c \in Group, NEW before \in 0 .. Len(messages) + 1,
                    NEW limit \in Limits, NEW newer, NEW older,
                    newer = HistoryPage(c, before, 0, limit),
                    older = HistoryPage(c, Min(newer), 0, limit)
             PROVE  IF newer = {} THEN Rows(c, before) = {}
                    ELSE /\ newer \cap older = {}
                         /\ \A i \in Rows(c, before) \ (newer \cup older) :
                              \A j \in newer \cup older : i < j
  BY DEF PagesMeet
<1>1. /\ newer \subseteq Rows(c, before)
      /\ Rows(c, before) # {} => newer # {}
      /\ \A i \in newer, j \in Rows(c, before) : j > i => j \in newer
  BY PageIsNewest
<1>2. CASE newer = {}
  BY <1>1, <1>2
<1>3. CASE newer # {}
  <2> DEFINE m == Min(newer)
  <2>1. Len(messages) \in Nat /\ DOMAIN messages = 1 .. Len(messages)
    BY DEF TypeOK
  <2>2. \A b : Rows(c, b) \subseteq 1 .. Len(messages)
    BY <2>1 DEF Rows
  <2>3. newer \in SUBSET Nat
    BY <1>1, <2>1, <2>2
  <2>4. m \in newer /\ \A i \in newer : m <= i
    <3>1. \E k \in newer : \A i \in newer : k <= i
      BY <1>3, <2>3, LeastId
    <3>2. QED
      BY <3>1 DEF Min
  <2> HIDE DEF m
  <2>5. m \in Nat /\ m > 0
    BY <1>1, <2>1, <2>2, <2>4
  <2>6. /\ older \subseteq Rows(c, m)
        /\ \A i \in older, j \in Rows(c, m) : j > i => j \in older
    BY PageIsNewest DEF m
  <2>7. \A i \in Rows(c, m) : i < m
    BY <2>5 DEF Rows, Older
  <2>8. \A i \in Rows(c, before) : i < m => i \in Rows(c, m)
    BY DEF Rows, Older
  <2>9. \A i \in Rows(c, before) \ newer : i < m
    BY <1>1, <2>1, <2>2, <2>4, <2>5
  <2>10. newer \cap older = {}
    BY <2>1, <2>2, <2>4, <2>5, <2>6, <2>7
  <2>11. ASSUME NEW i \in Rows(c, before) \ (newer \cup older), NEW j \in newer \cup older
         PROVE  i < j
    <3>1. i \in Rows(c, m) /\ i < m
      BY <2>8, <2>9
    <3>2. i \in Nat /\ j \in Nat
      BY <1>1, <2>1, <2>2, <2>3, <2>6
    <3>3. CASE j \in newer
      BY <2>4, <2>5, <3>1, <3>2, <3>3
    <3>4. CASE j \in older
      BY <2>6, <3>1, <3>2, <3>4
    <3>5. QED
      BY <3>3, <3>4
  <2>12. QED
    BY <1>3, <2>10, <2>11
<1>4. QED
  BY <1>2, <1>3

(* Whatever has been stored and whatever page sizes are asked for, a       *)
(* client that scrolls back by the oldest id it has meets every message of *)
(* the conversation once (message_repository.go:80-99).                    *)
THEOREM ScrollMeetsAll == Spec => PagesJoin
<1>1. Spec => []PagesMeet
  BY PagesAlwaysMeet, GroupTypeCorrect, PTL
<1>2. PagesMeet' => [messages' # messages => PagesMeet']_vars
  OBVIOUS
<1>3. QED
  BY <1>1, <1>2, PTL DEF PagesJoin
============================================================================
