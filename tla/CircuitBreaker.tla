--------------------------- MODULE CircuitBreaker ---------------------------
(***************************************************************************)
(* What the circuit breaker promises to the clients of a worker, whatever  *)
(* it counts and stores: an open provider stays open until its cooldown is *)
(* over or the process is replaced, one failure of a provider on trial     *)
(* opens it again, a report sends nobody to a provider that is not closed  *)
(* and turns nobody away while a provider of the chain is not open.        *)
(* ProviderHealth implements this module.                                  *)
(***************************************************************************)
EXTENDS Callers, Sequences

CONSTANTS Workers, Providers, ProviderOf, Chain

VARIABLES
  call,     \* call -> its client's progress and the model it is asking for
  breaker   \* worker -> provider -> "closed", "open", or "trial" after the
            \* cooldown, when nobody has asked for the provider's health yet

breakerVars == <<call, breaker>>

Members(m) == {Chain[m][i] : i \in DOMAIN Chain[m]}

BreakerInit ==
  /\ call = [c \in Calls |-> [state |-> "idle", model |-> Nothing]]
  /\ breaker = [w \in Workers |-> [p \in Providers |-> "closed"]]

\* A client starts a call, asks its provider, or goes away, on its own.
Client(c) ==
  /\ \/ /\ call[c].state \in {"idle", "served", "refused"}
        /\ \E m \in Models : call' = [call EXCEPT ![c] = [state |-> "calling", model |-> m]]
     \/ /\ call[c].state = "calling"
        /\ call' = [call EXCEPT ![c].state = "failed"]
     \/ /\ call[c].state = "calling"
        /\ call' = [call EXCEPT ![c].state = "served"]
     \/ /\ call[c].state = "failed"
        /\ call' = [call EXCEPT ![c] = [state |-> "refused", model |-> Nothing]]
     \/ /\ call[c].state = "served"
        /\ call' = [call EXCEPT ![c] = [state |-> "idle", model |-> Nothing]]
  /\ UNCHANGED breaker

\* The breakers of worker w after a failure of provider p and a look at some.
Failed(w, p) ==
  /\ breaker'[w][p] \in {"closed", "open"}
  /\ breaker[w][p] # "closed" => breaker'[w][p] = "open"
  /\ \A q \in Providers \ {p} :
       breaker'[w][q] # breaker[w][q] => breaker[w][q] = "trial" /\ breaker'[w][q] = "closed"
  /\ breaker' = [breaker EXCEPT ![w] = breaker'[w]]

\* A failed call is reported to worker w: it is sent on, turned away, or the
\* answer is lost.
Report(c, w) ==
  LET m == call[c].model
  IN /\ call[c].state = "failed"
     /\ Failed(w, ProviderOf[m])
     /\ \/ \E n \in Members(m) :
             /\ breaker'[w][ProviderOf[n]] = "closed"
             /\ call' = [call EXCEPT ![c] = [state |-> "calling", model |-> n]]
        \/ /\ \A n \in Members(m) : breaker'[w][ProviderOf[n]] = "open"
           /\ call' = [call EXCEPT ![c] = [state |-> "refused", model |-> Nothing]]
        \/ UNCHANGED call

\* The cooldown of a provider is over; its health is asked for.
Cool(w, p) ==
  /\ breaker[w][p] = "open"
  /\ breaker' = [breaker EXCEPT ![w][p] = "trial"]
  /\ UNCHANGED call

Close(w) ==
  /\ breaker' = [breaker EXCEPT ![w] = [p \in Providers |-> IF @[p] = "trial" THEN "closed" ELSE @[p]]]
  /\ UNCHANGED call

Replace(w) ==
  /\ breaker' = [breaker EXCEPT ![w] = [p \in Providers |-> "closed"]]
  /\ UNCHANGED call

BreakerNext ==
  \/ \E c \in Calls : Client(c)
  \/ \E c \in Calls, w \in Workers : Report(c, w)
  \/ \E w \in Workers : Close(w) \/ Replace(w) \/ \E p \in Providers : Cool(w, p)

BreakerSpec == BreakerInit /\ [][BreakerNext]_breakerVars
=============================================================================
