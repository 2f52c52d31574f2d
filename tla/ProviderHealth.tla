--------------------------- MODULE ProviderHealth ---------------------------
(***************************************************************************)
(* Fallback after a provider's failure (resolve_fallback) and the circuit  *)
(* breaker behind it (ProviderHealthTracker).  The breaker lives in the    *)
(* memory of each server process (Workers) and is used between awaits, so  *)
(* a worker's report is one step: record the failure, drop the providers   *)
(* that are cooling down from the chain, choose the first that is left.    *)
(* Clients are the environment: they ask a provider, report a failure to   *)
(* some worker, and go on with the model they are told.                    *)
(***************************************************************************)
EXTENDS Callers, Naturals, Sequences

CONSTANTS
  Workers,           \* server processes
  Providers,         \* providers, "unknown" included
  ProviderOf,        \* get_provider_for_model
  Chain,             \* get_fallback_chain: model -> sequence of models
  FailureThreshold   \* FAILURE_THRESHOLD

ASSUME HealthAssumption ==
  /\ FailureThreshold \in Nat \ {0}
  /\ ProviderOf \in [Models -> Providers]
  /\ Chain \in [Models -> Seq(Models)]

VARIABLES
  failures,  \* worker -> provider -> failures recorded, up to the threshold
  cooldown,  \* worker -> provider -> "none", or its deadline: "running", "over"
  call,      \* call -> its client's progress and the model it is asking for
  via,       \* history: the workers a call has reported to
  sent       \* history: how often the one worker of a call has sent it to a
             \* provider since a cooldown of it ended or that worker was replaced

healthVars == <<failures, cooldown, call, via, sent>>

States == {"idle", "calling", "failed", "served", "refused"}

Ended == {"idle", "served", "refused"}

NoTries == [p \in Providers |-> 0]

\* Bound of the history: one try more than the breaker allows.
MaxTries == FailureThreshold + 1

----------------------------------------------------------------------------
\* Fault: the count goes on.
CountedOn(count) == count + 1

\* Failures are counted up to the threshold: larger counts are treated alike.
Counted(count) == IF count < FailureThreshold THEN count + 1 ELSE FailureThreshold

\* record_failure: worker w's counts after a failure of provider p.
CountsAfter(w, p) == [failures[w] EXCEPT ![p] = Counted(@)]

\* record_failure: at the threshold and beyond, the deadline is set anew.
DeadlinesAfter(w, p) ==
  IF CountsAfter(w, p)[p] >= FailureThreshold
  THEN [cooldown[w] EXCEPT ![p] = "running"] ELSE cooldown[w]

\* Fault: the deadline is compared the wrong way round.
LapsedRunning(deadlines) == {p \in Providers : deadlines[p] = "running"}

\* is_healthy forgets the providers whose deadline has passed ...
Lapsed(deadlines) == {p \in Providers : deadlines[p] = "over"}

\* ... and those whose deadline has not passed are skipped.
Cooling(deadlines) == {p \in Providers : deadlines[p] # "none"} \ Lapsed(deadlines)

\* Fault: the deadline is dropped and the count is kept.
ForgetDeadlines(w, counts, deadlines, gone) ==
  /\ failures' = [failures EXCEPT ![w] = counts]
  /\ cooldown' = [cooldown EXCEPT ![w] = [p \in Providers |-> IF p \in gone THEN "none" ELSE deadlines[p]]]

\* is_healthy drops count and deadline of the providers gone.
Forget(w, counts, deadlines, gone) ==
  /\ failures' = [failures EXCEPT ![w] = [p \in Providers |-> IF p \in gone THEN 0 ELSE counts[p]]]
  /\ cooldown' = [cooldown EXCEPT ![w] = [p \in Providers |-> IF p \in gone THEN "none" ELSE deadlines[p]]]

\* The tries on record when worker w is free to use the providers ps again.
TriesAgain(w, ps) ==
  [c \in Calls |-> [p \in Providers |-> IF via[c] \subseteq {w} /\ p \in ps THEN 0 ELSE sent[c][p]]]

ChainProviders(m) == {ProviderOf[Chain[m][i]] : i \in DOMAIN Chain[m]}

----------------------------------------------------------------------------
\* A client starts a call of model m.
Ask(c, m) ==
  /\ call[c].state \in Ended
  /\ call' = [call EXCEPT ![c] = [state |-> "calling", model |-> m]]
  /\ UNCHANGED <<failures, cooldown, via, sent>>

\* A call comes to its end; its history ends with it.
End(c, state, m) ==
  /\ call' = [call EXCEPT ![c] = [state |-> state, model |-> m]]
  /\ via' = [via EXCEPT ![c] = {}]
  /\ sent' = [sent EXCEPT ![c] = NoTries]

ProviderAnswers(c) ==
  /\ call[c].state = "calling"
  /\ End(c, "served", call[c].model)
  /\ UNCHANGED <<failures, cooldown>>

ProviderFails(c) ==
  /\ call[c].state = "calling"
  /\ call' = [call EXCEPT ![c].state = "failed"]
  /\ UNCHANGED <<failures, cooldown, via, sent>>

\* The status is not one of RETRYABLE_STATUS_CODES: nothing is recorded.  A
\* client that gives up ends its call the same way.
NotRetryable(c) ==
  /\ call[c].state = "failed"
  /\ End(c, "refused", Nothing)
  /\ UNCHANGED <<failures, cooldown>>

\* The memory a retryable failure of call c leaves in worker w: every member of
\* the chain is checked, whichever is chosen.
Recorded(c, w) ==
  LET m == call[c].model
      deadlines == DeadlinesAfter(w, ProviderOf[m])
  IN Forget(w, CountsAfter(w, ProviderOf[m]), deadlines, Lapsed(deadlines) \cap ChainProviders(m))

\* The history of that report, which sends the call on to the providers to.
Reported(c, w, to) ==
  LET again == [p \in Providers |-> IF p \in to /\ sent[c][p] < MaxTries
                                     THEN sent[c][p] + 1 ELSE sent[c][p]]
  IN /\ via' = [via EXCEPT ![c] = @ \cup {w}]
     /\ sent' = [sent EXCEPT ![c] = IF via[c] \subseteq {w} THEN again ELSE NoTries]

\* Fault: the chain is looked at before the failure is recorded.
ViableBefore(c, w) ==
  LET m == call[c].model
  IN {i \in DOMAIN Chain[m] : ProviderOf[Chain[m][i]] \notin Cooling(cooldown[w])}

\* The places of the chain whose provider is not cooling down.
Viable(c, w) ==
  LET m == call[c].model
  IN {i \in DOMAIN Chain[m] :
        ProviderOf[Chain[m][i]] \notin Cooling(DeadlinesAfter(w, ProviderOf[m]))}

\* resolve_fallback answers with the first viable model.
Redirect(c, w) ==
  /\ call[c].state = "failed"
  /\ \E i \in Viable(c, w) :
       /\ \A j \in Viable(c, w) : i <= j
       /\ call' = [call EXCEPT ![c] = [state |-> "calling", model |-> Chain[call[c].model][i]]]
       /\ Reported(c, w, {ProviderOf[Chain[call[c].model][i]]})
  /\ Recorded(c, w)

\* resolve_fallback answers that there is none.
NoFallback(c, w) ==
  /\ call[c].state = "failed"
  /\ Viable(c, w) = {}
  /\ End(c, "refused", Nothing)
  /\ Recorded(c, w)

\* The decision's flush or commit raises, or the answer is lost: the memory of
\* the breaker stays, and the client may report the same failure again.
AnswerLost(c, w) ==
  /\ call[c].state = "failed"
  /\ Reported(c, w, {})
  /\ Recorded(c, w)
  /\ UNCHANGED call

\* get_fallback_chain_info: asking for the status forgets what has lapsed.
ShowHealth(w) ==
  /\ Lapsed(cooldown[w]) # {}
  /\ Forget(w, failures[w], cooldown[w], Lapsed(cooldown[w]))
  /\ UNCHANGED <<call, via, sent>>

\* COOLDOWN_SECONDS are over.
CooldownPasses(w, p) ==
  /\ cooldown[w][p] = "running"
  /\ cooldown' = [cooldown EXCEPT ![w][p] = "over"]
  /\ sent' = TriesAgain(w, {p})
  /\ UNCHANGED <<failures, call, via>>

\* The process of worker w is replaced by a new one.
Restart(w) ==
  /\ Forget(w, failures[w], cooldown[w], Providers)
  /\ sent' = TriesAgain(w, Providers)
  /\ UNCHANGED <<call, via>>

----------------------------------------------------------------------------
HealthInit ==
  /\ failures = [w \in Workers |-> [p \in Providers |-> 0]]
  /\ cooldown = [w \in Workers |-> [p \in Providers |-> "none"]]
  /\ call = [c \in Calls |-> [state |-> "idle", model |-> Nothing]]
  /\ via = [c \in Calls |-> {}]
  /\ sent = [c \in Calls |-> NoTries]

\* The steps of a call, once it has been asked for, and those of the workers.
HealthStep ==
  \/ \E c \in Calls :
       \/ ProviderAnswers(c)
       \/ ProviderFails(c)
       \/ NotRetryable(c)
       \/ \E w \in Workers : Redirect(c, w) \/ NoFallback(c, w) \/ AnswerLost(c, w)
  \/ \E w \in Workers :
       \/ ShowHealth(w)
       \/ Restart(w)
       \/ \E p \in Providers : CooldownPasses(w, p)

HealthNext ==
  \/ \E c \in Calls, m \in Models : Ask(c, m)
  \/ HealthStep

----------------------------------------------------------------------------
\* Types; counts stay within the threshold.
HealthTypeOK ==
  /\ failures \in [Workers -> [Providers -> 0..FailureThreshold]]
  /\ cooldown \in [Workers -> [Providers -> {"none", "running", "over"}]]
  /\ call \in [Calls -> [state : States, model : Models \cup {Nothing}]]
  /\ via \in [Calls -> SUBSET Workers]
  /\ sent \in [Calls -> [Providers -> 0..MaxTries]]

\* A provider has a deadline exactly when its failures have reached the
\* threshold: no sequence of failures, checks and lapses leaves a count that
\* would never open the breaker again, or a deadline without cause.
BreakerConsistent ==
  \A w \in Workers, p \in Providers :
    (cooldown[w][p] # "none") <=> (failures[w][p] = FailureThreshold)

\* The promise of the breaker to a client that goes on as it is told: as long
\* as it reports to one worker, it is sent to a provider at most
\* FailureThreshold times before a cooldown of that provider has ended.
RetriesBounded ==
  \A c \in Calls, p \in Providers :
    (\E w \in Workers : via[c] \subseteq {w}) => sent[c][p] <= FailureThreshold

HealthSpec == HealthInit /\ [][HealthNext]_healthVars
============================================================================
