------------------------------ MODULE Outbound ------------------------------
(***************************************************************************)
(* A client's call on its way out: the provider is asked, a failure is     *)
(* answered with a fallback (ProviderHealth, in the memory of a worker),   *)
(* and a call that was served is reported with the model that served it,   *)
(* which is looked up in the semantic cache and stored there               *)
(* (SemanticCache, in Redis).  The fallback is what brings two models to   *)
(* the cache under the id of one prompt.                                   *)
(***************************************************************************)
EXTENDS ProviderHealth, SemanticCache

outboundVars == <<healthVars, cacheVars>>

\* The client of a call that was served reports it: POST /log with its model.
ReportCall(c) ==
  /\ call[c].state = "served"
  /\ \E p \in Prompts : Begin(c, p, call[c].model)
  /\ End(c, "idle", Nothing)
  /\ UNCHANGED <<failures, cooldown>>

\* A client has one call at a time.
AskNext(c) ==
  /\ req[c] = NoRequest
  /\ call[c].state # "served"
  /\ \E m \in Models : Ask(c, m)
  /\ UNCHANGED cacheVars

OutboundInit == HealthInit /\ CacheInit

OutboundNext ==
  \/ \E c \in Calls : AskNext(c) \/ ReportCall(c)
  \/ HealthStep /\ UNCHANGED cacheVars
  \/ CacheStep /\ UNCHANGED healthVars

Spec == OutboundInit /\ [][OutboundNext]_outboundVars

----------------------------------------------------------------------------
\* Types of the memory of the workers and of the cache.
OutboundTypeOK == HealthTypeOK /\ CacheTypeOK

\* The breaker that a deadline stands for.
BreakerOf(deadline) ==
  CASE deadline = "none" -> "closed"
    [] deadline = "running" -> "open"
    [] deadline = "over" -> "trial"

breaker == [w \in Workers |-> [p \in Providers |-> BreakerOf(cooldown[w][p])]]

CB == INSTANCE CircuitBreaker

\* Counting, deadlines that lapse by themselves, checks that forget them and
\* restarts are a circuit breaker (record_failure, is_healthy, resolve_fallback):
\* a provider on trial is opened by one failure although its deadline is what
\* the check drops, and a client is turned away only when all its chain is open.
ImplementsBreaker == CB!BreakerSpec
============================================================================
