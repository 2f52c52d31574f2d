------------------------------ MODULE Gateway ------------------------------
(***************************************************************************)
(* The gateway hot path of one tenant (M1 and M7): GatewayService.log_call *)
(* and its three callers, POST /gateway/log (a completed call is           *)
(* reported), the playground (governance first, then the call is made and  *)
(* reported) and the prompt alias endpoint (governance first, then the     *)
(* prompt is rendered and reported with no tokens).                        *)
(*                                                                         *)
(* Requests run concurrently in several worker processes; between two      *)
(* awaits anything may happen.  Shared state lives in PostgreSQL (rules,   *)
(* log) and in Redis (rule cache, quota counters, semantic cache).  The    *)
(* Redis calls of the code are single commands or pipelines whose parts    *)
(* commute, so each of them is one step.                                   *)
(***************************************************************************)
EXTENDS Integers, Sequences, FiniteSets

CONSTANTS
  Calls,        \* requests in progress
  Requests,     \* what a caller may ask for
  Models,       \* model names
  AnyModel,     \* model_name of a rule that applies to every model
  Prompts,      \* prompt texts, up to similarity
  NoPrompt,     \* prompt_text of a call that has none
  RuleLists,    \* active rules in priority order, as administrators set them
  Experiments,  \* whether an A/B experiment runs: subset of BOOLEAN
  Faults,       \* components that may fail: subset of {"redis", "db"}
  Rollover,     \* whether midnight and the end of the month may come
  MaxSpent,     \* bound: tokens consumed at the providers
  DailyCap,     \* largest daily token limit among the rule lists
  BudgetCap,    \* largest monthly budget among the rule lists
  MaxTokens,    \* largest call, in tokens
  MaxCost       \* dearest call

RuleKinds ==
  {"model_block", "rate_limit", "tenant_limit", "budget_cap", "model_downgrade"}

\* limit is the field that the kind of rule uses; 0 and NULL are no limit.  For
\* model_downgrade it says whether the rule names a model to downgrade to.
RuleSet == [kind : RuleKinds, model : Models \cup {AnyModel}, limit : Nat]

RequestSet == [via : {"log", "playground", "alias"}, model : Models,
               tokens : Nat, cost : Nat, prompt : Prompts \cup {NoPrompt}]

ASSUME GatewayAssumption ==
  /\ IsFiniteSet(Calls) /\ Calls # {}
  /\ Requests \subseteq RequestSet
  /\ \A r \in Requests :
       /\ r.tokens <= MaxTokens
       /\ r.cost <= MaxCost
       /\ r.via = "alias" => r.tokens = 0 /\ r.cost = 0
  /\ DailyCap \in Nat /\ BudgetCap \in Nat
  /\ MaxTokens \in Nat /\ MaxCost \in Nat
  /\ NoPrompt \notin Prompts
  /\ AnyModel \notin Models
  /\ RuleLists \subseteq Seq(RuleSet)
  /\ Experiments \subseteq BOOLEAN
  /\ Rollover \in BOOLEAN
  /\ MaxSpent \in Nat

VARIABLES
  rules,       \* active rules of llm_governance_rules, highest priority first
  ruleCache,   \* Redis rules:{tenant}: a set with the cached list, or empty
  experiment,  \* an experiment is running for the tenant's prompt
  answers,     \* semantic cache: prompt -> model that answered, or AnyModel
  tokens,      \* Redis quota:{tenant}:tokens:daily
  cost,        \* Redis quota:{tenant}:cost:monthly
  spent,       \* history: tokens consumed at the providers
  logged,      \* llm_token_log: sums over the tenant's rows
  pc,          \* where each request stands
  snap         \* what each request knows

vars == <<rules, ruleCache, experiment, answers, tokens, cost, spent, logged,
          pc, snap>>

shared == <<rules, ruleCache, experiment, answers, tokens, cost, spent, logged>>

\* "pre" is the check before the call, "log" the one inside log_call.
Phases == {"pre", "log"}

Verdicts == {"none", "allow", "downgrade", "block", "ab_test"}

Pcs == {"idle", "lookup", "experiment", "cached_rules", "load_rules",
        "fill_cache", "decide", "record_block", "render", "execute",
        "persist", "count_tokens", "count_cost", "announce", "store"}

NoRequest == [via |-> "log", model |-> CHOOSE m \in Models : TRUE,
              tokens |-> 0, cost |-> 0, prompt |-> NoPrompt]

NoSnap == [req |-> NoRequest, phase |-> "log", rules |-> <<>>,
           verdict |-> "none", saved |-> FALSE]

----------------------------------------------------------------------------
(* The rule engine: _apply_rule and the loop over the rules *)

ModelMatches(rule, req) == rule.model \in {AnyModel, req.model}

\* Asked for the pre-check, a request has no tokens yet.
Asked(s) == IF s.phase = "pre" THEN 0 ELSE s.req.tokens

\* Fault: the daily limit is compared with what has been used so far only.
TriggersAtLimit(rule, s) ==
  \/ rule.kind = "model_block" /\ ModelMatches(rule, s.req)
  \/ rule.kind = "model_downgrade" /\ ModelMatches(rule, s.req) /\ rule.limit # 0
  \/ rule.kind = "rate_limit" /\ rule.limit # 0 /\ Asked(s) > rule.limit
  \/ rule.kind = "tenant_limit" /\ rule.limit # 0 /\ tokens > rule.limit
  \/ rule.kind = "budget_cap" /\ rule.limit # 0 /\ cost >= rule.limit

\* Fault: the budget may be passed before the rule triggers.
TriggersPastBudget(rule, s) ==
  \/ rule.kind = "model_block" /\ ModelMatches(rule, s.req)
  \/ rule.kind = "model_downgrade" /\ ModelMatches(rule, s.req) /\ rule.limit # 0
  \/ rule.kind = "rate_limit" /\ rule.limit # 0 /\ Asked(s) > rule.limit
  \/ rule.kind = "tenant_limit" /\ rule.limit # 0 /\ tokens + Asked(s) > rule.limit
  \/ rule.kind = "budget_cap" /\ rule.limit # 0 /\ cost > rule.limit

Triggers(rule, s) ==
  \/ rule.kind = "model_block" /\ ModelMatches(rule, s.req)
  \/ rule.kind = "model_downgrade" /\ ModelMatches(rule, s.req) /\ rule.limit # 0
  \/ rule.kind = "rate_limit" /\ rule.limit # 0 /\ Asked(s) > rule.limit
  \/ rule.kind = "tenant_limit" /\ rule.limit # 0 /\ tokens + Asked(s) > rule.limit
  \/ rule.kind = "budget_cap" /\ rule.limit # 0 /\ cost >= rule.limit

Downgrades(rule) == rule.kind = "model_downgrade"

\* The first rule that triggers decides: a blocking rule blocks unless a
\* downgrade of higher priority triggers as well, and the other way round.
Blocked(s) ==
  \E i \in DOMAIN s.rules :
    /\ Triggers(s.rules[i], s) /\ ~Downgrades(s.rules[i])
    /\ \A j \in 1..(i - 1) :
         Downgrades(s.rules[j]) => ~Triggers(s.rules[j], s)

Downgraded(s) ==
  \E i \in DOMAIN s.rules :
    /\ Triggers(s.rules[i], s) /\ Downgrades(s.rules[i])
    /\ \A j \in 1..(i - 1) : ~Triggers(s.rules[j], s)

\* The smart router may replace the model when no rule triggers.
RuleVerdicts(s) ==
  IF Blocked(s) THEN {"block"}
  ELSE IF Downgraded(s) THEN {"downgrade"}
  ELSE IF s.rules = <<>> THEN {"allow"}
  ELSE {"allow", "downgrade"}

----------------------------------------------------------------------------
(* Steps of a request *)

Goto(p, label) == pc' = [pc EXCEPT ![p] = label]

Return(p) ==
  /\ pc' = [pc EXCEPT ![p] = "idle"]
  /\ snap' = [snap EXCEPT ![p] = NoSnap]

\* The playground may be told not to apply governance before the call.
FirstSteps(req) ==
  CASE req.via = "log" -> {"lookup"}
    [] req.via = "alias" -> {"experiment"}
    [] req.via = "playground" -> {"cached_rules", "execute"}

\* A call reported to /log has already been made; the other two have not.
Start(p, req) ==
  /\ pc[p] = "idle"
  /\ spent + req.tokens <= MaxSpent
  /\ snap' = [snap EXCEPT ![p] =
                [NoSnap EXCEPT !.req = req,
                               !.phase = IF req.via = "log" THEN "log" ELSE "pre"]]
  /\ spent' = IF req.via = "log" THEN spent + req.tokens ELSE spent
  /\ \E label \in FirstSteps(req) : Goto(p, label)
  /\ UNCHANGED <<rules, ruleCache, experiment, answers, tokens, cost, logged>>

\* _check_semantic_cache: same prompt, answered by the model asked for.
SemanticHit(req) == req.prompt # NoPrompt /\ answers[req.prompt] = req.model

LookupHit(p) ==
  /\ pc[p] = "lookup"
  /\ SemanticHit(snap[p].req)
  /\ Return(p)
  /\ UNCHANGED shared

LookupMiss(p) ==
  /\ pc[p] = "lookup"
  /\ ~SemanticHit(snap[p].req) \/ "redis" \in Faults
  /\ Goto(p, IF snap[p].req.via = "alias" THEN "experiment" ELSE "cached_rules")
  /\ UNCHANGED <<shared, snap>>

\* Fault: whatever is not an "allow" is recorded as a block.
AfterVerdictAllowOnly(p, verdict) ==
  LET s == snap[p]
  IN IF s.phase = "pre"
     THEN IF s.req.via = "alias" THEN "render"
          ELSE IF verdict # "allow" THEN "record_block" ELSE "execute"
     ELSE IF verdict # "allow" THEN "record_block" ELSE "persist"

\* Where a verdict leads.  The playground reads an attribute that the result
\* does not have when it is told to downgrade, and answers 500; the alias
\* endpoint does not look at the verdict before log_call does.
AfterVerdict(p, verdict) ==
  LET s == snap[p]
  IN IF s.phase = "pre"
     THEN IF s.req.via = "alias" THEN "render"
          ELSE IF verdict = "block" THEN "record_block"
          ELSE IF verdict = "downgrade" THEN "idle"
          ELSE "execute"
     ELSE IF verdict = "block" THEN "record_block" ELSE "persist"

Conclude(p, verdict) ==
  /\ Goto(p, AfterVerdict(p, verdict))
  /\ snap' = [snap EXCEPT ![p] =
                IF AfterVerdict(p, verdict) = "idle" THEN NoSnap
                ELSE [snap[p] EXCEPT !.verdict = verdict]]
  /\ UNCHANGED shared

\* A call with a prompt name: a running experiment decides before any rule.
Experiment(p) ==
  /\ pc[p] = "experiment"
  /\ IF experiment THEN Conclude(p, "ab_test")
     ELSE Goto(p, "cached_rules") /\ UNCHANGED <<shared, snap>>

CachedRules(p) ==
  /\ pc[p] = "cached_rules"
  /\ \E rs \in ruleCache : snap' = [snap EXCEPT ![p].rules = rs]
  /\ Goto(p, "decide")
  /\ UNCHANGED shared

\* No entry, or Redis did not answer.
CacheMiss(p) ==
  /\ pc[p] = "cached_rules"
  /\ ruleCache = {} \/ "redis" \in Faults
  /\ Goto(p, "load_rules")
  /\ UNCHANGED <<shared, snap>>

LoadRules(p) ==
  /\ pc[p] = "load_rules"
  /\ snap' = [snap EXCEPT ![p].rules = rules]
  /\ Goto(p, "fill_cache")
  /\ UNCHANGED shared

\* Fault: the list that is there stays beside the new one.
FillCacheAdding(p) ==
  /\ pc[p] = "fill_cache"
  /\ ruleCache' = ruleCache \cup {snap[p].rules}
  /\ Goto(p, "decide")
  /\ UNCHANGED <<rules, experiment, answers, tokens, cost, spent, logged, snap>>

FillCache(p) ==
  /\ pc[p] = "fill_cache"
  /\ \/ ruleCache' = {snap[p].rules}
     \/ "redis" \in Faults /\ ruleCache' = ruleCache
  /\ Goto(p, "decide")
  /\ UNCHANGED <<rules, experiment, answers, tokens, cost, spent, logged, snap>>

\* Usage is read and the rules are applied without another await.  Without
\* rules usage is not read.
Decide(p) ==
  /\ pc[p] = "decide"
  /\ \E verdict \in RuleVerdicts(snap[p]) : Conclude(p, verdict)

\* An exception (usage unreadable, database down, prompt missing) ends the
\* request with an error before anything is recorded.
Fail(p) ==
  /\ \/ pc[p] = "decide" /\ snap[p].rules # <<>> /\ "redis" \in Faults
     \/ pc[p] \in {"experiment", "load_rules", "record_block"} /\ "db" \in Faults
     \/ pc[p] = "render"
  /\ Return(p)
  /\ UNCHANGED shared

\* The decision row of a blocked call is committed and call.blocked published.
RecordBlock(p) ==
  /\ pc[p] = "record_block"
  /\ Return(p)
  /\ UNCHANGED shared

\* The alias endpoint renders the published prompt.
Render(p) ==
  /\ pc[p] = "render"
  /\ snap' = [snap EXCEPT ![p].phase = "log", ![p].verdict = "none"]
  /\ Goto(p, "lookup")
  /\ UNCHANGED shared

\* The playground calls the provider, and then log_call as /log would.
Execute(p) ==
  /\ pc[p] = "execute"
  /\ spent' = spent + snap[p].req.tokens
  /\ snap' = [snap EXCEPT ![p].phase = "log", ![p].verdict = "none"]
  /\ Goto(p, "lookup")
  /\ UNCHANGED <<rules, ruleCache, experiment, answers, tokens, cost, logged>>

\* Log row and decision row are one commit.  The decision of an experiment
\* carries the experiment's id where a rule's id belongs, and the foreign key
\* refuses it; _persist_log_async swallows that, as any other failure.
CanPersist(p) == snap[p].verdict # "ab_test"

Saved(p) ==
  /\ CanPersist(p)
  /\ logged' = [logged EXCEPT !.tokens = @ + snap[p].req.tokens,
                              !.cost = @ + snap[p].req.cost]
  /\ snap' = [snap EXCEPT ![p].saved = TRUE]

NotSaved(p) ==
  /\ ~CanPersist(p) \/ "db" \in Faults
  /\ UNCHANGED <<logged, snap>>

Persist(p) ==
  /\ pc[p] = "persist"
  /\ Saved(p) \/ NotSaved(p)
  /\ Goto(p, "count_tokens")
  /\ UNCHANGED <<rules, ruleCache, experiment, answers, tokens, cost, spent>>

\* Fault: a failed pipeline is sent again although it was applied.
CountTokensRetrying(p) ==
  /\ pc[p] = "count_tokens"
  /\ tokens' = tokens + snap[p].req.tokens
  /\ \/ Goto(p, "count_cost") \/ UNCHANGED pc
  /\ UNCHANGED <<rules, ruleCache, experiment, answers, cost, spent, logged, snap>>

CountTokens(p) ==
  /\ pc[p] = "count_tokens"
  /\ tokens' = tokens + snap[p].req.tokens
  /\ Goto(p, "count_cost")
  /\ UNCHANGED <<rules, ruleCache, experiment, answers, cost, spent, logged, snap>>

\* Fault: the cost is counted twice, for the day and for the month.
CountCostTwice(p) ==
  /\ pc[p] = "count_cost"
  /\ cost' = cost + 2 * snap[p].req.cost
  /\ Goto(p, "announce")
  /\ UNCHANGED <<rules, ruleCache, experiment, answers, tokens, spent, logged, snap>>

CountCost(p) ==
  /\ pc[p] = "count_cost"
  /\ cost' = cost + snap[p].req.cost
  /\ Goto(p, "announce")
  /\ UNCHANGED <<rules, ruleCache, experiment, answers, tokens, spent, logged, snap>>

\* A counter that cannot be updated is logged; what follows it is skipped.
CountFails(p) ==
  /\ pc[p] \in {"count_tokens", "count_cost"}
  /\ "redis" \in Faults
  /\ Goto(p, "announce")
  /\ UNCHANGED <<shared, snap>>

\* call.logged and llm.usage.logged are published.
Announce(p) ==
  /\ pc[p] = "announce"
  /\ Goto(p, "store")
  /\ UNCHANGED <<shared, snap>>

\* The answer is cached, if there is one: an alias call has no completion.
Store(p) ==
  /\ pc[p] = "store"
  /\ LET req == snap[p].req IN
       \/ /\ req.prompt # NoPrompt /\ req.via # "alias"
          /\ answers' = [answers EXCEPT ![req.prompt] = req.model]
       \/ /\ req.prompt = NoPrompt \/ req.via = "alias" \/ "redis" \in Faults
          /\ UNCHANGED answers
  /\ Return(p)
  /\ UNCHANGED <<rules, ruleCache, experiment, tokens, cost, spent, logged>>

----------------------------------------------------------------------------
(* Everything else *)

\* create_rule, update_rule, deactivate_rule, or a rule's effective dates.
\* None of them touches the cached list.
ChangeRules ==
  /\ rules' \in RuleLists \ {rules}
  /\ UNCHANGED <<ruleCache, experiment, answers, tokens, cost, spent, logged,
                 pc, snap>>

\* Fault: the cached list is stored without a time to live.
RuleCacheStays == FALSE /\ UNCHANGED vars

\* The time to live of the cached list runs out.
RuleCacheExpires ==
  /\ ruleCache # {}
  /\ ruleCache' = {}
  /\ UNCHANGED <<rules, experiment, answers, tokens, cost, spent, logged,
                 pc, snap>>

AnswerExpires(prompt) ==
  /\ answers[prompt] # AnyModel
  /\ answers' = [answers EXCEPT ![prompt] = AnyModel]
  /\ UNCHANGED <<rules, ruleCache, experiment, tokens, cost, spent, logged,
                 pc, snap>>

\* start_experiment, pause_experiment, complete_experiment.
ToggleExperiment ==
  /\ experiment' \in Experiments \ {experiment}
  /\ UNCHANGED <<rules, ruleCache, answers, tokens, cost, spent, logged, pc, snap>>

\* The quota keys carry the date: a new day, and possibly a new month.
Midnight ==
  /\ Rollover
  /\ tokens' = 0
  /\ cost' \in {0, cost}
  /\ UNCHANGED <<rules, ruleCache, experiment, answers, spent, logged, pc, snap>>

----------------------------------------------------------------------------
Init ==
  /\ rules \in RuleLists
  /\ ruleCache = {}
  /\ experiment \in Experiments
  /\ answers = [q \in Prompts |-> AnyModel]
  /\ tokens = 0
  /\ cost = 0
  /\ spent = 0
  /\ logged = [tokens |-> 0, cost |-> 0]
  /\ pc = [p \in Calls |-> "idle"]
  /\ snap = [p \in Calls |-> NoSnap]

Proceed(p) ==
  \/ LookupHit(p) \/ LookupMiss(p) \/ Experiment(p)
  \/ CachedRules(p) \/ CacheMiss(p) \/ LoadRules(p) \/ FillCache(p)
  \/ Decide(p) \/ Fail(p) \/ RecordBlock(p) \/ Render(p) \/ Execute(p)
  \/ Persist(p) \/ CountTokens(p) \/ CountCost(p) \/ CountFails(p)
  \/ Announce(p) \/ Store(p)

Environment ==
  \/ ChangeRules \/ RuleCacheExpires \/ ToggleExperiment \/ Midnight
  \/ \E prompt \in Prompts : AnswerExpires(prompt)

Next ==
  \/ \E p \in Calls : Proceed(p) \/ \E req \in Requests : Start(p, req)
  \/ Environment

Spec == Init /\ [][Next]_vars

\* Requests in progress go on, and Redis drops a key whose time has come.
FairSpec ==
  Spec /\ WF_vars(RuleCacheExpires) /\ \A p \in Calls : WF_vars(Proceed(p))

----------------------------------------------------------------------------
(* Properties *)

Snaps == [req : Requests \cup {NoRequest}, phase : Phases,
          rules : RuleLists \cup {<<>>}, verdict : Verdicts, saved : BOOLEAN]

\* The types of the stores and of the requests' local state; the cached rule
\* list is one that an administrator has set.
TypeOK ==
  /\ rules \in RuleLists
  /\ ruleCache = {} \/ \E rs \in RuleLists : ruleCache = {rs}
  /\ experiment \in BOOLEAN
  /\ answers \in [Prompts -> Models \cup {AnyModel}]
  /\ tokens \in Nat /\ cost \in Nat /\ spent \in Nat
  /\ logged \in [tokens : Nat, cost : Nat]
  /\ pc \in [Calls -> Pcs]
  /\ snap \in [Calls -> Snaps]

\* A list that no downgrade of higher priority can keep from blocking at cap.
Enforces(rs, kind, cap) ==
  \E i \in DOMAIN rs :
    /\ rs[i].kind = kind /\ rs[i].limit \in 1..cap
    /\ \A j \in 1..(i - 1) : ~Downgrades(rs[j])

DailyEnforced == \A rs \in RuleLists : Enforces(rs, "tenant_limit", DailyCap)

BudgetEnforced == \A rs \in RuleLists : Enforces(rs, "budget_cap", BudgetCap)

\* How far concurrent calls can pass the daily limit: usage is checked before
\* and counted after the call is saved, so every call but one may come on top,
\* whatever rule lists (all of them with a limit) are cached or changed, at
\* midnight, and when Redis or the database fails in between.
DailyOvershoot ==
  DailyEnforced => tokens <= DailyCap + (Cardinality(Calls) - 1) * MaxTokens

\* How far they can pass the budget: the check is made on what has been
\* counted, without the cost of the call itself.
BudgetOvershoot ==
  BudgetEnforced => cost <= BudgetCap - 1 + Cardinality(Calls) * MaxCost

\* The sum of size over S, counted unit by unit.
Total(S, size, most) ==
  Cardinality({u \in S \X (1..most) : u[2] <= size[u[1]]})

Sizes == [p \in Calls |-> snap[p].req.tokens]

Costs == [p \in Calls |-> snap[p].req.cost]

\* The row is saved, and the tokens, or the cost, have not been counted.
Booked == {p \in Calls : pc[p] = "count_tokens"}

Priced == {p \in Calls : pc[p] \in {"count_tokens", "count_cost"}}

\* The call has been made at the provider and its row is not there yet.
Unsaved ==
  {p \in Calls : /\ pc[p] # "idle" /\ ~snap[p].saved
                 /\ snap[p].req.via = "log" \/ snap[p].phase = "log"}

\* Apart from the calls between the commit and the counters, the counters in
\* Redis are the sums of the log (no faults, one day).
CountersMatchLog ==
  /\ tokens + Total(Booked, Sizes, MaxTokens) = logged.tokens
  /\ cost + Total(Priced, Costs, MaxCost) = logged.cost

\* models.py: one log row per call, the source of truth for billing.  What
\* the providers served is in the log or on its way there.
EveryCallLogged == spent = logged.tokens + Total(Unsaved, Sizes, MaxTokens)

\* Once administrators leave the rules alone, the cached list is the active
\* one or absent for ever, although a slow request may still store an old one.
StaleRulesGo ==
  \A rs \in RuleLists : <>[](rules = rs) => <>[](ruleCache \subseteq {rs})
============================================================================
