---------------------------- MODULE WindowLimit ----------------------------
(***************************************************************************)
(* What a send limit of Rate events a second with bursts of Burst promises *)
(* a socket, without saying how.  An event counts as of the clock reading  *)
(* it came with, or of the latest that an event of its socket was judged   *)
(* with, and passes if and only if no stretch of time would come to hold   *)
(* more than Burst events plus Rate a second.                              *)
(***************************************************************************)
EXTENDS Integers, Sequences

CONSTANTS
  Sock, Event,
  SockOf,   \* the socket an event is received on
  MaxTime,  \* bound: the last clock reading
  Second,   \* ticks in a second
  Rate, Burst

VARIABLES
  now,      \* the clock
  open,     \* sockets that have not disconnected
  call,     \* per event: whether it is new, waiting, allowed or refused, and its reading
  latest,   \* per socket: the latest reading judged, of refused events also
  passed    \* per socket: the times as of which its events passed

winVars == <<now, open, call, latest, passed>>

WindowInit ==
  /\ now = 0
  /\ open = Sock
  /\ call = [v \in Event |-> [pc |-> "new", read |-> 0]]
  /\ latest = [s \in Sock |-> 0]
  /\ passed = [s \in Sock |-> <<>>]

\* An event more at time t keeps every stretch that ends with it in bounds.
Fits(ts, t) ==
  \A i \in DOMAIN ts : (Len(ts) - i + 2) * Second <= Burst * Second + Rate * (t - ts[i])

TimePasses ==
  /\ now < MaxTime
  /\ now' = now + 1
  /\ UNCHANGED <<open, call, latest, passed>>

(* An event comes in.                                                      *)
Come(v) ==
  /\ call[v].pc = "new"
  /\ SockOf[v] \in open
  /\ call' = [call EXCEPT ![v] = [pc |-> "waiting", read |-> now]]
  /\ UNCHANGED <<now, open, latest, passed>>

(* An event is judged; the time it is judged as of is no choice.           *)
Judge(v) ==
  LET s == SockOf[v]
      t == IF call[v].read > latest[s] THEN call[v].read ELSE latest[s]
  IN /\ call[v].pc = "waiting"
     /\ latest' = [latest EXCEPT ![s] = t]
     /\ \/ /\ Fits(passed[s], t)
           /\ passed' = [passed EXCEPT ![s] = Append(@, t)]
           /\ call' = [call EXCEPT ![v] = [pc |-> "allowed", read |-> 0]]
        \/ /\ ~Fits(passed[s], t)
           /\ call' = [call EXCEPT ![v] = [pc |-> "refused", read |-> 0]]
           /\ UNCHANGED passed
     /\ UNCHANGED <<now, open>>

(* A socket closes, once, and what it has sent is forgotten.               *)
Forget(s) ==
  /\ s \in open
  /\ open' = open \ {s}
  /\ latest' = [latest EXCEPT ![s] = 0]
  /\ passed' = [passed EXCEPT ![s] = <<>>]
  /\ UNCHANGED <<now, call>>

WindowNext ==
  \/ TimePasses
  \/ \E v \in Event : Come(v) \/ Judge(v)
  \/ \E s \in Sock : Forget(s)

WindowSpec == WindowInit /\ [][WindowNext]_winVars
============================================================================
