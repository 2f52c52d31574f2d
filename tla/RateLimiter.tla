---------------------------- MODULE RateLimiter -----------------------------
(***************************************************************************)
(* The sliding-window rate limiter every request passes                    *)
(* (core/rate_limit.py), in the memory of each worker.  dispatch does not  *)
(* await before it has decided, so that an arrival is one step.  The times *)
(* a worker keeps are the requests it admitted at those times.  One client *)
(* address; the lists of others do not meet it.                            *)
(***************************************************************************)
EXTENDS Requests

CONSTANTS
  Window,         \* WINDOW_SECONDS
  CleanupPeriod,  \* seconds between two clean-ups
  DefaultRate,    \* DEFAULT_RATE
  AuthRate,       \* AUTH_RATE
  BurstRate       \* BURST_RATE

ASSUME LimiterAssumption ==
  /\ {Window, CleanupPeriod, DefaultRate, AuthRate, BurstRate} \subseteq Nat \ {0}
  /\ BurstRate <= DefaultRate

VARIABLES
  recent,   \* _requests: worker -> key -> requests it remembers
  cleaned,  \* _last_cleanup
  served    \* history: what each worker process has admitted or refused since it began

limiterVars == <<recent, cleaned, served>>

AuthPaths == {"login", "refresh"}

\* Login and refresh have a list each, everything else shares one.
RateKeys == AuthPaths \cup {"rest"}

RateKey(o) == IF o.name \in AuthPaths THEN o.name ELSE "rest"

RateLimit(o) ==
  IF o.name \in AuthPaths THEN AuthRate
  ELSE IF o.name \in {"read", "look"} THEN DefaultRate ELSE BurstRate

\* The largest limit that applies to a list.
KeyLimit(k) == IF k \in AuthPaths THEN AuthRate ELSE DefaultRate

InWindow(S) == {r \in S : arrival[r].time > now - Window}

Swept(w) ==
  IF now - cleaned[w] < CleanupPeriod THEN recent[w]
  ELSE [k \in RateKeys |-> InWindow(recent[w][k])]

\* Fault: a client may fill its window and send one more.
AdmitsOneMore(o, S) == Cardinality(S) <= RateLimit(o)

Admits(o, S) == Cardinality(S) < RateLimit(o)

\* Fault: the second that int() cuts off is not added.
RetryAfterCut(oldest) == Window - (now - oldest) - 1

\* The oldest of the list leaves the window; int() cuts, hence the second.
RetryAfter(oldest) == Window - (now - oldest) + 1

Admit(r, w, o) ==
  LET mine == InWindow(Swept(w)[RateKey(o)]) IN
  /\ Admits(o, mine)
  /\ recent' = [recent EXCEPT ![w] = [Swept(w) EXCEPT ![RateKey(o)] = mine \cup {r}]]
  /\ arrival' = [arrival EXCEPT ![r] = [op |-> o, worker |-> w, time |-> now, retry |-> 0]]
  /\ met' = met \cup {{r, q} : q \in {p \in Requests : pc[p] \in InProgress}}
  /\ Goto(r, "admitted")

Refuse(r, w, o) ==
  LET mine == InWindow(Swept(w)[RateKey(o)]) IN
  /\ ~Admits(o, mine)
  /\ recent' = [recent EXCEPT ![w] = [Swept(w) EXCEPT ![RateKey(o)] = mine]]
  /\ \E q \in mine :
       /\ \A p \in mine : arrival[q].time <= arrival[p].time
       /\ arrival' = [arrival EXCEPT ![r] = [op |-> o, worker |-> w, time |-> now,
                                             retry |-> RetryAfter(arrival[q].time)]]
  /\ Goto(r, "refused")
  /\ UNCHANGED met

Arrive(r, w, o) ==
  /\ pc[r] = "new"
  /\ cleaned' = [cleaned EXCEPT ![w] = IF now - @ < CleanupPeriod THEN @ ELSE now]
  /\ Admit(r, w, o) \/ Refuse(r, w, o)
  /\ served' = [served EXCEPT ![w] = @ \cup {r}]
  /\ UNCHANGED now

\* A new process starts with empty lists; what was in progress is cut off.
\* (Bound: where nothing is in progress, a restart only empties the lists.)
Restart(w) ==
  /\ \E r \in Requests : arrival[r].worker = w /\ pc[r] \in InProgress
  /\ recent' = [recent EXCEPT ![w] = [k \in RateKeys |-> {}]]
  /\ cleaned' = [cleaned EXCEPT ![w] = now]
  /\ served' = [served EXCEPT ![w] = {}]
  /\ pc' = [r \in Requests |->
              IF arrival[r].worker = w /\ pc[r] \in InProgress THEN "cut" ELSE pc[r]]
  /\ UNCHANGED <<now, arrival, met>>

LimiterInit ==
  /\ recent = [w \in Workers |-> [k \in RateKeys |-> {}]]
  /\ cleaned = [w \in Workers |-> 0]
  /\ served = [w \in Workers |-> {}]

----------------------------------------------------------------------------
(* Properties *)

LimiterTypeOK ==
  /\ recent \in [Workers -> [RateKeys -> SUBSET Requests]]
  /\ cleaned \in [Workers -> Nat]
  /\ served \in [Workers -> SUBSET Requests]

\* What a worker process has admitted of a list since it began.
Admitted(w, k) == {r \in served[w] : pc[r] # "refused" /\ RateKey(Op(r)) = k}

AdmittedUpTo(w, k, t) ==
  {r \in Admitted(w, k) : arrival[r].time > t - Window /\ arrival[r].time <= t}

\* In no window of WINDOW_SECONDS, wherever it begins, does a worker admit
\* more of a client than the limit of the list, although it forgets times
\* while it cleans up and lists are shared by reads and writes (dispatch).
WindowBound ==
  \A w \in Workers, k \in RateKeys :
    \A t \in 0..now : Cardinality(AdmittedUpTo(w, k, t)) <= KeyLimit(k)

\* Of what had been admitted of its list when a request was refused, what is
\* still in the window when the time it was told has passed.
StillIn(r) ==
  {q \in Admitted(arrival[r].worker, RateKey(Op(r))) :
     /\ arrival[q].time <= arrival[r].time
     /\ arrival[q].time > arrival[r].time + arrival[r].retry - Window}

\* Retry-After tells when: a read, a login or a refresh that waits so long and
\* sends nothing meanwhile finds its list below the limit.  (A write need
\* not: its list may hold more reads than its own limit allows.)
RetryAfterEnough ==
  \A r \in Requests :
    /\ pc[r] = "refused" /\ r \in served[arrival[r].worker]
    /\ RateLimit(Op(r)) = KeyLimit(RateKey(Op(r)))
    => Cardinality(StillIn(r)) < RateLimit(Op(r))
============================================================================
