---------------------------- MODULE MessageHistory -------------------------
(***************************************************************************)
(* GET /conversations/:id/messages over the messages that GroupChat keeps  *)
(* storing: ListConversationMessages and the query behind it.  A client    *)
(* scrolls back by asking for what is older than the oldest it has.        *)
(***************************************************************************)
EXTENDS GroupChat, Integers, FiniteSets

CONSTANTS
  DefaultLimit,  \* rows of a page when none or nonsense is asked for
  MaxLimit,      \* the most rows of a page
  Limits         \* page sizes asked for

ASSUME HistoryAssumption == DefaultLimit \in 1 .. MaxLimit /\ MaxLimit \in Nat /\ Limits \subseteq Int

\* WHERE id < before, if a cursor is given; with the cursor's own row, and
\* with the cursor overlooked.
OlderOrSame(i, before) == before > 0 => i <= before
OlderAny(i, before) == TRUE
Older(i, before) == before > 0 => i < before

\* Rows of conversation c older than the cursor.
Rows(c, before) == {i \in DOMAIN messages : messages[i].conv = c /\ Older(i, before)}

Size(limit) == IF limit <= 0 THEN DefaultLimit
               ELSE IF limit > MaxLimit THEN MaxLimit ELSE limit
Skip(offset) == IF offset < 0 THEN 0 ELSE offset

(* ListByConversation: ORDER BY id DESC OFFSET offset LIMIT limit.         *)
HistoryPage(c, before, offset, limit) ==
  LET rows == Rows(c, before)
  IN {i \in rows : Cardinality({j \in rows : j > i})
                     \in Skip(offset) .. Skip(offset) + Size(limit) - 1}

\* The page before the oldest message of a page follows it without gap or
\* repetition, and only the end of the history is an empty page.
PagesMeet ==
  \A c \in Group, before \in 0 .. Len(messages) + 1, limit \in Limits :
    LET newer == HistoryPage(c, before, 0, limit)
        older == HistoryPage(c, Min(newer), 0, limit)
    IN IF newer = {} THEN Rows(c, before) = {}
       ELSE /\ newer \cap older = {}
            /\ \A i \in Rows(c, before) \ (newer \cup older) :
                 \A j \in newer \cup older : i < j

\* Whatever has been stored and whatever page size is asked for, a client
\* that scrolls back by the oldest id it has meets every message once
\* (message_repository.go:80-99).
PagesJoin == [][messages' # messages => PagesMeet']_vars

\* What a client reads below a cursor stays as it is, whoever sends, retries
\* or fails meanwhile: scrolling back never meets a shifted page, as it
\* would with offsets alone.
PagesStable ==
  [][messages' # messages =>
       \A c \in Group, before \in 1 .. Len(messages) + 1, offset \in 0 .. 1, limit \in Limits :
         HistoryPage(c, before, offset, limit)' = HistoryPage(c, before, offset, limit)]_vars
============================================================================
