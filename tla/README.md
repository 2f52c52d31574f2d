# Verification of the LLM gateway platform

TLA+ models of the platform in `src/` (FastAPI, Celery, PostgreSQL, Redis), the
TLC runs that check them on small instances, and TLAPS proofs of what matters
most for every instance. The modules are written from the code; where the code
and one of its comments, docstrings or tests disagree, a run shows the
disagreement.

## 1. The system

One FastAPI application runs as four uvicorn worker processes (`Dockerfile`) or one
(`Procfile`), beside Celery workers and a beat schedule. All processes share
PostgreSQL and Redis; everything kept in a Python object (event-bus handlers,
rate-limit windows, provider health, configuration overrides, alert cooldowns,
WebSocket connections) exists once per process. Within a process, coroutines
interleave at `await`; between processes, anything interleaves. Sessions are
READ COMMITTED and no SELECT takes a lock.

| part (repository name) | state | operations | talks to | what is hard |
|---|---|---|---|---|
| M1 gateway, M7 governance (`modules/gateway`) | rules, log and decision rows (PostgreSQL); cached rules and quota counters (Redis) | `log_call`, playground, prompt alias, rule CRUD, fallback resolution | event bus, semantic cache, prompts, experiments | usage checked before and counted after; cached rules; swallowed failures |
| semantic cache (`core/response_cache.py`) | hash of embeddings per tenant, one entry per prompt | lookup, store, invalidate | Redis | two commands per store |
| provider health, smart router (`gateway/services`) | failures per provider, cooldown | record failure, healthy?, resolve a fallback, route | gateway | per process; chains that lead back |
| M2 analytics (`modules/analytics`) | daily and monthly cost rows, price rules | nightly aggregation, roll-up, backfill; increment per event (which always fails); price rules | event bus, Celery | runs that overlap each other and the log; late and repeated messages |
| M3 detection, M4 explainer (`modules/detection`) | baselines, anomalies, explanations | evaluate a call, explain an anomaly | event bus, LLM providers | baselines updated concurrently; background tasks |
| M5 forecasting and optimizer (`modules/forecasting`) | forecasts, recommendations, prompt versions | forecast, recommend, create/rollback version | LLM providers | one active version |
| M6 dashboard (`modules/dashboard`) | WebSocket connections per tenant | connect, disconnect, broadcast; reports | event bus | iteration across `await` |
| M8 assistant (`dashboard/services/assistant_service.py`) | none of its own | question answering over reports | LLM providers | - |
| M9 tracing: sessions, experiments, alerts (`modules/tracing`) | session rows, experiments and their counters | start/pause/complete, record result, upsert session | gateway | read-modify-write on shared rows |
| M10 billing (`modules/billing`) | invoices, lines, credit notes, contracts | generate, finalize, credit, credit note, contract life cycle, webhooks | analytics rows, webhooks | read, compute, write without locks |
| prompt registry (`modules/prompts`) | prompt versions, one of them published | create, update, publish, rollback, render | gateway | clear-then-set |
| auth, tenants (`modules/auth`, `modules/tenants`) | users, refresh tokens, virtual keys, tenants, credentials | login, rotate, revoke, CRUD | Redis | rotation and reuse of tokens |
| core: event bus, rate limit, config registry, audit, observability (`core`) | handlers, windows, overrides, logs | publish, subscribe; admit; get, set | all modules | callbacks that change the list they run from; window boundaries |
| simulator (`simulator`) | none | generates demonstration traffic | gateway | - |

What makes each part correct, and at which line it is hard, is the list of
hazards in `PROJECT.json`. The five that decide whether the platform can be
trusted are these:

- *money*: an invoice's header, lines and credits agree, an issued invoice does
  not change, credit notes are numbered without gaps;
- *limits*: how far the tokens of a day and the cost of a month can pass the
  limits an administrator sets;
- *accounting*: a call made at a provider is logged once, counted once,
  announced only when saved;
- *freshness*: a rule change is enforced after a bounded delay;
- *access*: revoking, rotating, limiting and agreeing take effect, whoever else is at work.

## 2. Plan

Order of work, most important first. Each component has its own module; where
components share a process, a queue or a table, a module composes them and the
runs are of the composition.

| module | code | abstract specification | theorems |
|---|---|---|---|
| `Billing` (done) | M10 invoices | `InvoiceLifecycle` (done) | types, credit-note trail, numbering, refinement, frozen, total, lines (done) |
| `Gateway` (done) | M1, M7 hot path | bound on the limits | types, daily bound, budget bound, counters, log, cached rules (done) |
| `PromptRegistry` (done) | `modules/prompts` | one published version | types, numbering, published together, kept (done) |
| `ProviderHealth`, `SemanticCache`, composed as `Outbound` (done) | `mode_router.py`, `resolve_fallback`, `core/response_cache.py` | `CircuitBreaker` (done); a hit is of the model asked for | types, breaker, retries, refinement, hits, clean-up (done) |
| `RateLimiter`, `Tokens`, `Keys`, `Terms`, composed as `Access` (done) | `core/rate_limit.py`, `modules/auth`, `modules/tenants`, price rules, contracts, the optimizer's versions | at most N requests in a window; a refresh token is used once; one of each | every invariant (done) |
| `Ledger` (done) | session rows, M2 aggregation, Celery | a day is the log, a month its days | types, sessions, days, months, row locks, waiting (done) |
| experiments, webhooks, broadcast | `modules/tracing`, `webhook_service.py`, `dashboard/websocket.py` | see section 5 | - |

## 3. Modules

### Billing, InvoiceLifecycle, MCBilling, BillingProofs

`Billing` is one tenant's month: the row of `llm_billing_monthly` (`inv`), its
line items (`lines`), the tenant's credit notes (`notes`, by number), the
contract, and the month's usage. The requests of the API are processes: each
reads (`GenerateReadUsage`, `GenerateReadInvoice`, `FinalizeRead`, `ApplyCreditRead`,
`NoteRead`, `NextNoteNo`) into `snap[p]` and writes in one flush-and-commit step
(`GenerateCommit`, `FinalizeCommit`, `ApplyCreditCommit`, `NoteCommit`), because
the repositories read without locks, SQLAlchemy writes only the attributes
that differ from what was loaded (`Flushed`), and each service commits once.
Unique constraints are the conflict actions. Calls keep arriving (`LogUsage`): the header's
usage counts every call of the month, the lines' breakdown only those with status
`success` (`succeeded`), and failed calls are priced too. The contract may change (`ChangeContract`). Contract arithmetic (`RawCost`, `Overage`,
`BaseFee`, `Billed`) is integer arithmetic over small amounts; decimals
and rounding are left out.

`InvoiceLifecycle` is the promise: none, draft, finalized, corrected, with
credit notes 1..n against issued invoices only. `Billing` implements it
(`ImplementsLifecycle`).

| run | shows |
|---|---|
| `billing` | two requests with stale reads, lost updates and conflicts, under a forfait and the default contract: all the properties below |
| `billing_frozen` (violation) | a finalized invoice is corrected by a credit note, then a credit is applied to it: its numbers change (`FrozenForever`) |
| `billing_charges` (violation) | under pay-as-you-go a failed call with a cost is in the total and on no line (`EveryChargeOnALine`) |

Nothing is assumed of how requests meet. Two history variables record it, and nothing but the properties
reads them: `overtaken[p]` is what was written to the row over the copy that `p` holds; `met` is which
kinds of writes have so been overtaken since the last generation that was not and had a line to write.

| property | what it says | what it leaves open, because the code does |
|---|---|---|
| `CreditNoteTrail`, `NotesGapless`, `NeverReopened` | credit notes only against issued invoices, numbered 1, 2, 3, ...; an issued invoice is never a draft again | nothing |
| `ImplementsLifecycle` | every step is one of `InvoiceLifecycle`, or leaves it alone | nothing |
| `TotalFormula` | the total is fee and overage less credits; under another contract the raw usage, and zero after the first credit, of whatever amount | a generation that overlapped with another write. Overlapping credits are not excused: each writes total and credits from one copy |
| `LinesCoverHeader` | fees are the same on header and lines, the header has no credit without a line, usage without a line is that of failed calls | a credit line without its header only after two credits overlapped; a generation that overlapped, or had no line to write: the empty list keeps the old ones (`StoredLines`) |
| `FrozenToNewRequests` | numbers and lines of a finalized invoice are changed only by a request that had read the row before it was finalized, when it commits | exactly that request |

`generate` and `apply_credit` both refuse `finalized` only, so that a `corrected` invoice is open
to either; the shortest counterexample of `billing_frozen` is the credit. The usage of header and lines
also comes from two SELECTs, so that a call saved between them is on a line and not in the header: the last
part of `LinesCoverHeader` is an inequality.

Bounds: two requests, a forfait and a pay-as-you-go contract that replace each other, one call
(successful or failed; two in the runs that expect a violation), credits of one up to
`MaxCredit` = 2, a note ceiling of two in place of 100; credits on lines and notes together are two
(`CreditsOrNotes`; the step beyond is checked, not followed). Two requests suffice for a stale read, since each
step reads or writes one row; the ceiling is reached, and so is each excuse in the table. Larger
amounts, a free model and inactive contracts are covered by the theorems.

Proved for any number of requests, contracts, amounts and any ceiling: types
(`TypeCorrect`), `CreditNoteTrail` (`CreditNotesBacked`), `NotesGapless`
(`NotesNumbered`), `NeverReopened` (`NotReopened`) and the refinement
(`Implementation`). The inductive invariant `IInv` adds to the properties that a
request's copy of the row is behind the row's status and never ahead of it
(`SnapBehind`), and that the guards a request has passed held of its copy
(`SnapGuards`): without them a write from a stale copy could reopen an invoice.

Also of `Spec`, with no further assumption: `TotalFormula` (`TotalExplained`), `LinesCoverHeader`
(`LinesCover`) and `FrozenToNewRequests` (`FrozenToNew`). `NumbersInv` is their invariant: a request
that was not overtaken holds the numbers of the row, one that only credits have overtaken its usage and
fees (`CopyKept`); the total of a copy follows from its other numbers (`CopyTotal`), and its credits are on
lines (`CopyLines`); usage that a generation has read and will not put on a line is of failed calls
(`UsageReads`: the breakdown is read later and calls only grow). A step then leaves the numbers alone, or is
the commit of a credit or of a generation (`NumbersStep`), which is why three lemmas per property suffice.

### Gateway, MCGateway, GatewayProofs

`Gateway` is one tenant's hot path. A request (`Calls`) walks through the labels of
`Pcs`; every label ends at an `await`. Its local state is `snap[p]`: what was asked,
whether it is in the check before the call (`"pre"`) or in `log_call` (`"log"`), the
rules it read, the verdict, and whether its row was saved. Three callers
enter: `/gateway/log` at the semantic-cache lookup (the call has been made: its
tokens are `spent`), the playground at the rules (or at the call itself when
governance is not applied), the alias endpoint at the experiment.

| code | action |
|---|---|
| `_check_semantic_cache` | `LookupHit`, `LookupMiss` |
| `evaluate_governance` | `Experiment`, `CachedRules`, `CacheMiss`, `LoadRules`, `FillCache`, `Decide` |
| `_apply_rule` and the loop over the rules | `Triggers`, `Blocked`, `Downgraded`, `RuleVerdicts` |
| `_record_blocked_decision`, commit, `call.blocked` | `RecordBlock` |
| alias: `render`; playground: `complete` | `Render`, `Execute` |
| `_persist_log_async` | `Persist` (`Saved` or, swallowed, `NotSaved`) |
| `_update_usage_counters` | `CountTokens`, `CountCost`, `CountFails` |
| `_publish_call_logged_event` | `Announce` |
| `_store_semantic_cache` | `Store` |
| rule CRUD; TTLs; experiments; date in the keys | `ChangeRules`, `RuleCacheExpires`, `AnswerExpires`, `ToggleExperiment`, `Midnight` |
| exceptions | `Fail` |

The rule engine is written with quantifiers over the priority-ordered list; the
smart router is the choice between "allow" and "downgrade" when no rule
triggers. Prompts stand for their similarity classes. The semantic cache is
one value per prompt here.

| run | shows |
|---|---|
| `gateway_quota` | two concurrent calls, two rule lists exchanged under a stale cache, midnight and month end, Redis failing at any step: tokens and cost pass the limits by no more than the calls in flight |
| `gateway_accounting` | without faults, blocks and cached answers: counters = log at every step, and every call served is logged |
| `gateway_rules` | when the rules rest, the cached list becomes the active one or is absent for ever, with one call, cached answers, experiments, and Redis and the database failing |
| `gateway_unlogged` (violation) | a playground call is made and then blocked: no row |

Bounds: two requests (the overshoot needs a call that is admitted while another
is in flight, and the bound depends on their number, which the proof leaves
free), tokens and costs up to two, limits up to three, `MaxSpent` on the tokens
consumed. Symmetry of the requests is used in runs without liveness.

Fairness in `gateway_rules` (`FairSpec`): weak fairness of each request (the event
loop runs what is ready, and a Redis or database call returns or raises) and
of `RuleCacheExpires` (Redis drops a key when its time to live is over).
Administrators are not fair: the property is about rules that rest.

Proved for any set of requests, any number of concurrent calls, any rule
lists and any faults: types (`TypeCorrect`); `DailyBound`: tokens stay below
`DailyCap + (n - 1) * MaxTokens` if every rule list that can be active has a daily
limit of at most `DailyCap` not preceded by a downgrade; `BudgetBound`: cost
stays below `BudgetCap - 1 + n * MaxCost`. The invariants behind them: for the
budget, what is counted plus the largest cost for each call in flight
(`BudgetInv`). For tokens this is not inductive, because the limit is compared
with the call's own tokens included: `Room` says that some call in flight fits
below the limit with an allowance for every call that is not in flight. Then
the last call to leave leaves one allowance fewer, which gives n - 1.

Proved, too, of counters and log. `Total` adds up what calls carry by counting pairs of a call and a unit, so
that the sums of both properties are cardinalities, and the lemmas about it (`TotalAdd`,
`TotalMoves`) need no induction. `CountersAddUp`: `CountersMatchLog` where nothing fails and the day does not
end (`Faults = {}`, no `Rollover`). It needs `Stage`: which of the three callers
can be at which label, and that what is not saved when it is to be counted is an alias call.
`CallsLogged`: `EveryCallLogged` under `Lossless`, which adds that no rule blocks and that completed calls are
not answered from the semantic cache; each of the two is needed (`gateway_unlogged` is the
first). Every step keeps what has been spent and what is due in balance (`Balanced`, `Due`). `FreshStays` is
the safety under `StaleRulesGo`: once the cached list is the active one or absent and no request
is about to store another (`Fresh`), this lasts while nobody changes the rules. That it comes
about is liveness and stays with TLC.
Assumptions: requests are within `MaxTokens` and `MaxCost`, alias calls carry
neither, `Calls` is finite and not empty.

### PromptRegistry, MCPromptRegistry, PromptRegistryProofs

`PromptRegistry` is the table of the versions of one prompt (`status`; `is_published` is the
status `"published"`, since every write sets the two together) under concurrent requests
(`Procs`). Creating a version is two steps (`NumberVersion` reads MAX(version),
`InsertVersion` or `InsertConflict` follows), publishing and rolling back are one
transaction of three statements, and each statement sees what was committed
when it began: `Unpublish` takes that view (`seen`), `LockVersions` is the moment all
rows of the view are changed and held, `SelectFound` or `SelectMissing` looks the target
up with a new view, `PublishCommit` writes and commits. What a transaction has
written shows at its commit. Waiting transactions go on in any order. `Abort`
ends any of them without a trace.

| code | action |
|---|---|
| `get_latest_version_number` in `create_prompt`, `update_prompt` | `NumberVersion` |
| `repository.create`, commit; unique constraint | `InsertVersion`; `InsertConflict` |
| `publish`, `rollback` | `Publish` |
| `update_published_status`: UPDATE of all versions | `Unpublish`, `LockVersions` |
| its SELECT | `SelectFound`, `SelectMissing` |
| its flush, and the service's commit | `PublishCommit` |

| run | shows |
|---|---|
| `prompt_publish` | three requests, three versions: numbers have no gap, only a rollback to a missing version takes the published version away, and of two versions published together one was created while a publication was in progress |
| `prompt_rollback` (violation) | a rollback to a missing version archives everything and commits, behind a 404 |

The run finds states with two published versions: a version inserted
after the first UPDATE of one publication began, published by another, is not
archived by the first. `get_published` then raises. `late` is a history
variable that says when this can have happened.

Bounds: three requests, because a pair of publications and a creation are
needed for two published versions; three versions, because the first is
published as it is created and the other two are published explicitly.

Proved for any requests and any number of versions: `TypeCorrect`, `Gapless`
(`NumbersGapless`), `Together` (`PublishedTogether`), `Kept` (`KeepsPublished`). The
inductive invariant adds that a number in use is at most one beyond the
versions there are, and that what a publication in progress does not see is
late.

### Callers, ProviderHealth, CircuitBreaker, SemanticCache, Outbound, MCOutbound, OutboundProofs

A client asks a provider itself and reports to the gateway. `Callers` declares what
the modules of this path share. `ProviderHealth` is `resolve_fallback` with the circuit
breaker behind it: `failures` and `cooldown` are the two dictionaries of
`ProviderHealthTracker`, once per worker process, and a deadline is `"running"` or `"over"`.
The code between two awaits is one step, so that a report records the failure,
forgets what has lapsed in the chain and chooses, all in `Redirect`, `NoFallback` or
`AnswerLost` (the row of the decision is not saved, but the memory is).
`SemanticCache` is `lookup` and `store` of one tenant, one Redis command per step:
`index` is the hash of fields, `entry` the answers. `Outbound` composes the two: a call that was
served is reported with the model that served it (`ReportCall`), which is what brings two
models to the cache under the id of one prompt.

| code | action |
|---|---|
| `record_failure` and the health of the chain's members | `Recorded`, in every report |
| `resolve_fallback`: status not retryable; a model; none; flush raises | `NotRetryable`; `Redirect`; `NoFallback`; `AnswerLost` |
| `get_fallback_chain_info`, `get_status` | `ShowHealth` |
| `COOLDOWN_SECONDS`; a new process | `CooldownPasses`; `Restart` |
| `lookup`: HGETALL and match; GET; HDEL; RedisError | `LookupMatch`, `LookupNothing`; `FetchHit`, `FetchNothing`; `CleanIndex`; `LookupFails` |
| `store`: HSET, EXPIRE; SET; RedisError before and after a command | `StoreIndex`; `StoreEntry`; `StoreFails`, `StoreBreaksOff` |
| time to live, `allkeys-lru` | `EntryGoes`, `IndexGoes` |
| the client | `Ask`, `ProviderAnswers`, `ProviderFails`, `End`, `ReportCall` |

| run | shows |
|---|---|
| `outbound` | a call is sent to a provider at most `FailureThreshold` times before a cooldown of the provider has ended; a provider has a deadline exactly when its count is at the threshold; the two dictionaries implement a circuit breaker; a hit is of the model asked for and similar enough, unless a store of its id was torn or came between; the clean-up deletes a live field only where a store came between |

`CircuitBreaker` is the promise, without counts, deadlines or the order of a chain: closed, open, on
trial. An open provider stays open until its cooldown is over or the process is replaced; one failure
of a provider on trial opens it again; a report sends nobody to a provider that is not
closed and turns nobody away while one of the chain is not open. (What a client asks on its own is not
asked of the breaker.) `Outbound` implements it (`ImplementsBreaker`) with `breaker` read off the deadlines.

Three history variables say what the properties are about. `via` and `sent` are the
workers a call has reported to and its tries since a cooldown ended; `RetriesBounded` is
about calls that report to one worker. With several workers there is no bound: each
counts some of the failures, and a call can go round until one of them has
counted enough for every provider of its chain. `MAX_FALLBACK_RETRIES` (`mode_router.py`) is
never used, so the breaker is the only bound there is. `torn` marks the ids whose last store
was overtaken or cut off: there field and entry may be of different prompts or
models, until a store of the id is left alone.

What the docstrings say and the code does not: failures need not be
consecutive, since `record_success` has no caller; configuration overrides live in
the process that set them, so chains are constants here and may differ between
workers in the code.

Bounds: two calls, so that a store can come between the commands of another
request; two providers with one model each, whose chains lead to each other, one of them
to itself as well; threshold two, so that a count can be below, at and (dropped by the
cap of `Counted`) above it; two prompts that share an id and are not similar. One worker: the
second would add the states in which `RetriesBounded` is silent, and the proof covers any number.
Symmetry of the calls is used.

Proved in `OutboundProofs` for any calls, workers, providers, models, chains, prompts, ids
and similarities: `Retries` (`RetriesBounded`), `Breaker` (`BreakerConsistent`), `Hits` (`HitsMatch`), `Cleans`
(`CleansStale`), the types (`OutboundTypes`) and the refinement (`BreakerImplemented`). For the breaker the inductive invariant adds that a call's tries of a
provider are at most what its worker has counted plus the one in progress
(`TriesCounted`): a fallback goes only where the count is below the threshold, and a count
is dropped only after a cooldown, which drops the tries too. The refinement rests on the
same invariant: that a failure on trial opens the breaker follows from a count that
stayed at the threshold as long as there was a deadline (`BreakerConsistent`), and that a redirect goes
to a closed provider from the chain being looked at after the failure is recorded (`ViableIsClosed`). For the cache it adds that
field and entry agree where no store is at work or torn (`Agreed`), and that a store
left alone is the only one of its id (`Alone`).

### Requests, RateLimiter, Tokens, Keys, Terms, Access, MCAccess, AccessProofs

The administrative API. `Requests` is what its parts share: a request asks for an
operation, arrives at a worker, is admitted or refused, and goes from one await or
COMMIT to the next (`pc`). `Access` composes four parts on one clock: every request
passes the limiter of its worker; every one that is not a login, an exchange or a
rewrite needs an access token that `Tokens` accepts (`Allowed`); then it changes users
(`Tokens`), virtual keys or credentials (`Keys`), or prices, the contract or prompt
versions (`Terms`). A step of one part leaves the others alone.

| code | action |
|---|---|
| `dispatch`, `_cleanup_old_entries`, `_get_rate_limit` | `Arrive` = `Admit` or `Refuse`, with `Swept`, `RateLimit`, `RetryAfter` |
| a worker process that starts again | `Restart` |
| `authenticate`, `login` | `LoginRead`, `LoginRefused`, `IssuePair` |
| `rotate_refresh_token`: `is_blacklisted`; `blacklist_token`; SELECT; pair | `RefreshAsk`, `RefreshRefused`; `RefreshMark`; `RefreshRead`, `RefreshUserGone`; `IssuePair` |
| expiry and eviction in Redis | `EntryLost` |
| `get_current_user`, `require_super_admin`, `require_tenant_admin` | `Allowed`, `Answered` |
| `create_user`, `update_user`, `deactivate_user`, `reactivate_user` | `UserRead`, `UserRefused`, `UserCommit`, `UserConflict` |
| `create_virtual_key`, `revoke_virtual_key`, `rotate_virtual_key` | `CreateKey`, `KeyRead`, `KeyMissing`, `RevokeCommit`, `RotateCommit` |
| `set_credential`, `delete_credential` | `CredRead`, `CredUnread`, `SetCommit` |
| `create_versioned_rule` | `PriceRead`, `PriceUnread`, `PriceCommit` |
| `get_contract` by the tenant | `ContractShown` |
| `update_contract`, `accept_contract`, `reject_contract` | `ContractRead`, `ContractRefused`, `ContractCommit`, `ContractConflict` |
| `generate_optimized_prompt`, `create_prompt_version` | `RewriteRead`, `RewriteUnanswered`, `Deactivate`, `Number`, `RewriteCommit` |

`dispatch` does not await before it has decided, so an arrival is one step. The
blacklist is asked and written through the synchronous Redis client, without an await
between: a worker does both for one request before it turns to another (`Undisturbed`),
and only two processes can both be told no. A row is read without a lock and
written later, and only the attributes that differ from what was loaded are written
(`Written`, `ContractCommit`). The UPDATE of `create_prompt_version` sees the versions there are
when it begins and waits for rows that another transaction holds (`Locked`).

None of these tables is protected by more than a unique constraint, so that most of
what should hold fails when two requests are in progress together. The properties
say exactly that: the damage is there only if the two requests that did it had
met (`met`), or for one of the reasons named below. Without the excuse each is
violated in the run's own instance (for writes in `RetryAfterEnough`, once the read limit is
larger than the write limit). Where the excuse is a hazard of `PROJECT.json` itself (stale administrators, keys rotated
or terms accepted by two hands, insert after find, rewrites that meet), the property does not claim that the code
is protected: it says that nothing else than that hazard does the damage.

| property | what it says | what it excuses |
|---|---|---|
| `WindowBound` | in no window does a worker admit more of a client than the limit of the list | nothing; the limit is per worker, so that a client of four workers has four of them |
| `RetryAfterEnough` | a read, login or refresh that waits as long as it was told finds its list below the limit | writes, whose list may hold more reads than their own limit; a worker that was restarted |
| `SingleUse` | a refresh token passes the blacklist once | two workers that handle it at once; an entry Redis lost or never got (`weak`) |
| `RevocationReaches` | the tokens of a user who is switched off end with the access tokens issued before | exchanges that had read the user when he was switched off (`late`) |
| `AdminRemains` | an active super_admin remains | an update took one away, or a change was made with the token of a former one (`stale`) |
| `RotationReplaces` | a rotated key is revoked and has one successor | rotations that met; a key revoked before, which nothing refuses |
| `OneCredential` | a provider has one row | requests that met |
| `PriceHistory` | no gap in the prices after the first date; one open rule | of the second part, requests that met |
| `TermsAgreed` | the terms in force were shown to the tenant before it accepted, or were imposed; a contract proposed anew is not in force | an upsert between what the tenant was shown and its acceptance (which names no terms: hazard H23); an upsert that met another change |
| `OneActiveVersion` | one active version, and numbers that differ | rewrites that met |

| run | shows |
|---|---|
| `access` | all of these, with three requests to two workers on one of seven topics |

Bounds: three requests, since two make a race and the third sees what it left (a
second rotation of a revoked key; a price between two others); two workers, because
`SingleUse` differs between one and two; one topic per behaviour (`OneTopic`), since operations of
different topics share nothing but the limiter; a clock of two instants with an access
token that ends with the first and a refresh token that lasts for both; limits of one
and two and a window of one, so that a window fills with three requests. Times, limits and
windows that large are where the proofs matter: `WindowBound` and `RetryAfterEnough` are proved for
all of them. The topic of contracts
looks, proposes, imposes, accepts and rejects, with a contract of terms `Proposal` open at the start or none,
and that of administrators changes users; in both the clock stands still, since it does no more than end tokens. A restart is taken only where a request is cut off by it. Symmetry of requests and of workers
is used (the run has no liveness). `Rest` is the state in which every request is
over, so that deadlock stays checked.

Proved in `AccessProofs` for any requests, workers, operations, users, keys, providers, clocks,
limits and lifetimes (`RequestsAssumption`, `LimiterAssumption`, `TokensAssumption`, `TermsAssumption`):
all eleven invariants of the run. The composition shapes the proof. `StepsOf` says that every
step is one of four kinds: the clock, an arrival or a restart (`Quiet`), or a step of one part
(`ByTokens`, `ByKeys`, `ByTerms`), and that each moves a request in one of a few ways (`Flow`, `Moved`, `Arrived`).
`Common` holds for all: what is in progress has arrived, and any two requests in progress at
the same time have met (`MetTogether`). Then each part has its own invariant, kept by its own
steps and by all the others at once:

- `KeysInv`: a request that read something and has yet to write has met whoever
  changed it since (`Replacements`, `Insertions`);
- `TermsInv`: `PriceInv` (every rule that was closed has a rule that begins where it ends, or before),
  `ContractInv` (what was read is what is there unless a change has met; what the tenant
  was shown is in the row until the next upsert), `VersionInv`
  (what a rewrite does not see was created by one it has met);
- `AccountsInv`: `AdminInv`, `OffInv` (who issues for a user who was switched off is late or the
  user was on when read), `ExchangeInv` (who passed with a token has marked it, or is
  the one its worker is busy with);
- `LimiterInv`: the lists hold all that was admitted in the current window (`Remembered`), no
  window holds more than the limit (`Bounded`), and the list of a refused request was full
  (`FullOnRefusal`).

### Ledger, MCLedger, LedgerProofs

From a call to the month's cost. `OpenTransaction` adds the log row and counts up the session
(`upsert_and_aggregate`: the row stays locked until the commit), `CommitCall` or `LoseCall` ends
it. Celery messages are numbered (`task`); beat sends them once a day and on
the first of a month, people send dates. A pool process takes a message (`BeginDay`, `BeginMonth`),
and the nightly task computes its day then, not when it was sent. `Sum` and `Upsert` are the two statements
for each tenant; the second waits for a run that has written the same row (`Holds`), and
runs can wait for each other in a circle (`Circular`), which the database ends (`Deadlock`). `CommitDay` and `CommitMonth` make the rows visible.
Sums are compared by the sets of calls they are made of.

| code | action |
|---|---|
| `log_call` up to `_persist_log_async`; its transaction; its commit; whatever fails | `Serve`; `OpenTransaction`; `CommitCall`; `LoseCall` |
| beat; `aggregate_date`, `backfill_all` | `BeatNightly`, `BeatRollup`; `SendDate` |
| `aggregate_yesterday`, `aggregate_date`, `_aggregate_date` | `BeginDay`, `Sum`, `Upsert`, `CommitDay`, `NoActivity` |
| `rollup_last_month`, `_rollup_month` | `BeginMonth`, `CommitMonth` |
| database, event loop, pool process; the database's deadlock detection | `Fails`; `Deadlock` |
| `task_acks_late` | `WorkerLost`, `Redelivered`; `Repeat` when the worker dies after the commit and before it acknowledges |

What the code does beside its comments: every aggregation ends in a `TypeError` of the logger, after the
commit, so that tasks are recorded as failed and `backfill_all` stops after its first
date (so it is `SendDate`, too). The increment of every `call.logged` event names no id, which has no
default in the table (`migrations`, 9c1f3aa8cf1f): it fails every time, and the day's row is the nightly
run's alone. "Running this twice for the same date is safe" holds when one run ends
before the other begins; otherwise the one that read first may write last.

| run | shows |
|---|---|
| `ledger` | a session is its saved calls; a day is made of calls of the day only, and has all that were saved when one of its last runs began: runs that overlap may leave the older of their sums, and nothing older; a month is the sum of its days if nothing overlapped its roll-up or came after it; every message that was sent is carried out or fails |

`before` and `missed` are history: which runs had committed when a run began, and which
calls were saved since. The last runs of a day (`LastRuns`) are those that no other has followed. A
nightly run is `OnTime` if it began on the day it was sent; a late one aggregates another day, and its own
is aggregated by nobody.

Bounds: three calls in one session, two of one tenant, so that a day's sum may be of one, the other or both and a stale
sum may overwrite a fresher one; the other tenant's call is saved on the first day before anything else, and
of the two that differ in nothing one is served first (`InOrder`); two messages, enough for an overlap, a stale
overwrite, a deadlock and a redelivery before or after the commit; three days in months of two, so that a month
ends and another begins; one worker death, two pool processes (`docker-compose.yml`). Deadlock is not checked
because the model ends: calls, messages and days are used up. Behaviours that leave `InOrder` are cut off.

Fairness (`FairSpec`): weak fairness of each message's own steps (`Goes`). A worker that is
alive takes what is queued and its statements return or raise; the database ends a wait that
cannot end by itself; a dead worker is started again (`restart: unless-stopped`), and `MaxLost` bounds how
often. Calls, days and senders are not fair.

Proved in `LedgerProofs` for any calls, tenants, sessions, calendar, numbers of messages, deaths
and pool processes (`LedgerAssumption`): every invariant of the run. None is inductive by itself.

- *Sessions* need `RowsLocked`: a transaction that has a session's row has read what is in it, and no
  other has the row. The commit then adds one call to what is there now.
- `MessageInv` is what the two others share: messages are numbered (`Numbered`), dated within the
  calendar (`Dated`), a run is about the day or month before the one it began in (`Targets`), and
  what had committed when another began stays committed (`Past`).
- *Days* need `SumsOf`: while a run goes on, a tenant's sums hold what was saved when it began
  except for calls saved since (`missed`), and a tenant it passes over had no calls but those.
  A run that commits has been followed by nobody yet, and so covers the day as one of `LastRuns` (`DaysCovered`);
  a run that had been one before is a last run still unless the new one follows it.
- *Months* need `RollUps`: the roll-up that read the days is their sum until a run about the same month
  commits, which makes it `Disturbed`; and `MonthsFilled`: a day that was filled is never emptied, so
  that a roll-up which skips a tenant without days leaves no older sum behind.
- *Waiting*, beside the invariants of the run: no two uncommitted runs have written the row of one day and tenant
  (`RowsHeldOnce`), so that whoever waits, waits for one run; and of runs that wait only for
  one another, one can make its next statement or is in a circle (`NobodyWaitsForever`). The
  circle is a set of waiting runs that is as small as possible: it exists because the order of finite subsets is
  well founded (`WaitingEndsInCircle`). With two pool processes circles are pairs; the theorem is for any number.

## 4. Checked only by TLC

Every invariant and action property of a passing run, and each of the two refinements, is
a theorem. Liveness is not: `StaleRulesGo` and `TasksEnd` are checked on their instances, since the
prover has no rule for fairness and ENABLED. Of both, the safety they rest on is proved (`FreshStays`;
`RowsHeldOnce` and `NobodyWaitsForever`). What the theorems assume beyond the constants' assumptions is in their
statements: no faults and no midnight for the sums of the gateway, `Lossless` for its log. Where these do not hold, the
properties do not: the counterexamples are in the runs that expect a violation, or described above.

## 5. Not modelled

Wording, logging, layout, HTML/PDF rendering, forecasting and machine-learning
numerics, the assistant's prompts, read-only reports, the front ends, migrations
as such (their constraints are used) and the simulator: together more than half of
the code, and the reason why the map covers a small share of its lines. Decimal
rounding: amounts are natural numbers. Several tenants: outside `Ledger` no operation of
the modelled parts touches two.

Parts without a module, and what reading them showed:

- *M3 detection, M4 explainer, ML engine.* `ml_engine.py:233` passes a field that `EnsembleResult` does not
  have: `detect` raises for every tenant with two weeks of history, so that no anomaly is stored,
  explained or pushed. A model of the code would be a model of that exception.
- *WebSocket broadcast.* Iterates over a dictionary across awaits (`websocket.py:81-91`), so that a client who
  connects meanwhile ends the broadcast with a `RuntimeError`; its events are those of M3, which do not come.
- *Event bus.* `publish` runs its handlers concurrently, reports what they raise and goes on;
  `Gateway` has the publication as its step `Announce`. Of its events, `governance.decision` and
  `health.changed` are published by nobody.
- *Webhooks.* The retry loop keeps no state; a timeout raises instead of being tried again
  (keyword arguments of a standard-library logger). `generate_monthly_drafts` is an async
  function made a Celery task: its coroutine is never awaited, and no draft is generated by beat.
- *Experiments.* `route_traffic` and `record_result` have no caller; starting, pausing and completing
  write one column from any state. `Gateway` takes a running experiment as an environment.
- *Blocked-call alerts, configuration registry, assistant history.* One dictionary per process, or one Redis key that is read and
  written back: what one process does is not seen by the others, and nothing in the code relies on it.
- *Of the modelled parts*: passwords, API keys, budgets of virtual keys, registration, CRUD of tenants, the
  bootstrap of the first administrator; `pricing_tasks` (in no worker's include list);
  `rollback_prompt_version`, `auto_assign_from_usage`, `update_status` of contracts (no caller).

Where docstrings and code of the modelled parts disagree beyond the findings: `logout` says that it
blacklists the token and does not; `create_versioned_rule` says that the old rule ends the day
before the new one begins and ends it on that day; `get_contract_dict` bills a contract
that is proposed or rejected as if it were in force; rotation of a virtual key accepts a revoked one.
