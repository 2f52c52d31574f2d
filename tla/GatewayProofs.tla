--------------------------- MODULE GatewayProofs ---------------------------
(***************************************************************************)
(* Theorems about Gateway for any set of concurrent calls, requests, rule  *)
(* lists and faults: the stores are well typed; the quota counters pass    *)
(* their limits by no more than the calls in flight can add; counters and  *)
(* log add up to what the providers served; and a cached rule list that is *)
(* up to date stays so.                                                    *)
(***************************************************************************)
EXTENDS Gateway, FiniteSetTheorems, TLAPS

(* Types *)

\* Between reading the rules and deciding, a request holds an active list, and
\* only alias calls ask for an experiment.
Reads ==
  \A p \in Calls :
    /\ pc[p] \in {"fill_cache", "decide"} => snap[p].rules \in RuleLists
    /\ pc[p] = "experiment" => snap[p].req.via = "alias"
    /\ pc[p] = "execute" => snap[p].req.via # "alias"

TInv == TypeOK /\ Reads

\* Requests, and the one that stands for none, count tokens and cost.
LEMMA RequestType ==
  \A req \in Requests \cup {NoRequest} :
    /\ req.tokens \in Nat /\ req.tokens <= MaxTokens
    /\ req.cost \in Nat /\ req.cost <= MaxCost
    /\ req.via = "alias" => req.tokens = 0 /\ req.cost = 0
<1>1. ASSUME NEW req \in Requests
      PROVE  /\ req.tokens \in Nat /\ req.tokens <= MaxTokens
             /\ req.cost \in Nat /\ req.cost <= MaxCost
             /\ req.via = "alias" => req.tokens = 0 /\ req.cost = 0
  BY GatewayAssumption DEF RequestSet
<1>2. NoRequest.tokens = 0 /\ NoRequest.cost = 0
  BY DEF NoRequest
<1>3. 0 <= MaxTokens /\ 0 <= MaxCost
  BY GatewayAssumption
<1> QED BY <1>1, <1>2, <1>3

\* The same of the request that a call carries.
LEMMA CallType ==
  ASSUME TypeOK, NEW p \in Calls
  PROVE  /\ snap[p] \in Snaps
         /\ snap[p].req \in Requests \cup {NoRequest}
         /\ snap[p].req.tokens \in Nat /\ snap[p].req.tokens <= MaxTokens
         /\ snap[p].req.cost \in Nat /\ snap[p].req.cost <= MaxCost
         /\ snap[p].req.via = "alias" =>
              snap[p].req.tokens = 0 /\ snap[p].req.cost = 0
<1>1. snap[p] \in Snaps
  BY DEF TypeOK
<1>2. snap[p].req \in Requests \cup {NoRequest}
  BY <1>1 DEF Snaps
<1> QED BY <1>1, <1>2, RequestType

\* A request that has just started, or ended, is well typed.
LEMMA NoSnapType == NoSnap \in Snaps
  BY DEF NoSnap, Snaps, Phases, Verdicts

\* Initially everything is well typed.
LEMMA InitTInv == Init => TInv
<1> SUFFICES ASSUME Init PROVE TInv
  OBVIOUS
<1>1. TypeOK
  BY NoSnapType, GatewayAssumption DEF Init, TypeOK, Pcs
<1>2. Reads
  BY DEF Init, Reads
<1> QED BY <1>1, <1>2 DEF TInv

\* A verdict keeps the request well typed.
LEMMA ConcludeType ==
  ASSUME TInv, NEW p \in Calls, NEW verdict \in Verdicts, Conclude(p, verdict)
  PROVE  TInv'
<1>1. AfterVerdict(p, verdict) \in
        {"render", "record_block", "idle", "execute", "persist"}
  BY DEF AfterVerdict
<1>2. AfterVerdict(p, verdict) = "execute" => snap[p].req.via # "alias"
  BY DEF AfterVerdict
<1>3. AfterVerdict(p, verdict) \in Pcs
  BY <1>1 DEF Pcs
<1>4. pc' \in [Calls -> Pcs]
  BY <1>3 DEF Conclude, Goto, TInv, TypeOK
<1>5. snap' \in [Calls -> Snaps]
  BY NoSnapType DEF Conclude, TInv, TypeOK, Snaps
<1>6. TypeOK'
  BY <1>4, <1>5 DEF Conclude, shared, TInv, TypeOK
<1>7. Reads'
  BY <1>1, <1>2 DEF Conclude, Goto, TInv, TypeOK, Reads, NoSnap
<1> QED BY <1>6, <1>7 DEF TInv

\* Types are preserved, action by action.
LEMMA StepTInv == TInv /\ [Next]_vars => TInv'
<1> SUFFICES ASSUME TInv, [Next]_vars PROVE TInv'
  OBVIOUS
<1> USE RequestType, NoSnapType DEF TInv
<1>1. ASSUME NEW p \in Calls, NEW req \in Requests, Start(p, req)
      PROVE  TInv'
  <2>1. [NoSnap EXCEPT !.req = req,
                       !.phase = IF req.via = "log" THEN "log" ELSE "pre"]
          \in Snaps
    BY DEF NoSnap, Snaps, Phases, Verdicts
  <2>2. PICK label \in FirstSteps(req) : Goto(p, label)
    BY <1>1 DEF Start
  <2>3. /\ label \in {"lookup", "experiment", "cached_rules", "execute"}
        /\ label = "experiment" => req.via = "alias"
        /\ label = "execute" => req.via # "alias"
    BY GatewayAssumption DEF FirstSteps, RequestSet
  <2>4. TypeOK'
    BY <1>1, <2>1, <2>2, <2>3 DEF Start, Goto, TypeOK, Pcs
  <2>5. Reads'
    BY <1>1, <2>2, <2>3 DEF Start, Goto, TypeOK, Reads, NoSnap
  <2> QED BY <2>4, <2>5
<1>2. ASSUME NEW p \in Calls, LookupHit(p) \/ Fail(p) \/ RecordBlock(p)
      PROVE  TInv'
  <2>1. Return(p) /\ UNCHANGED shared
    BY <1>2 DEF LookupHit, Fail, RecordBlock
  <2>2. TypeOK'
    BY <2>1 DEF Return, shared, TypeOK, Pcs
  <2>3. Reads'
    BY <2>1 DEF Return, TypeOK, Reads
  <2> QED BY <2>2, <2>3
<1>3. ASSUME NEW p \in Calls, LookupMiss(p)
      PROVE  TInv'
  <2>1. TypeOK'
    BY <1>3 DEF LookupMiss, Goto, shared, TypeOK, Pcs
  <2>2. Reads'
    BY <1>3 DEF LookupMiss, Goto, TypeOK, Reads
  <2> QED BY <2>1, <2>2
<1>4. ASSUME NEW p \in Calls, Experiment(p)
      PROVE  TInv'
  <2>1. CASE experiment
    BY <1>4, <2>1, ConcludeType DEF Experiment, Verdicts
  <2>2. CASE ~experiment
    <3>1. TypeOK'
      BY <1>4, <2>2 DEF Experiment, Goto, shared, TypeOK, Pcs
    <3>2. Reads'
      BY <1>4, <2>2 DEF Experiment, Goto, TypeOK, Reads
    <3> QED BY <3>1, <3>2
  <2> QED BY <2>1, <2>2
<1>5. ASSUME NEW p \in Calls, CachedRules(p)
      PROVE  TInv'
  <2>1. PICK rs \in RuleLists : snap' = [snap EXCEPT ![p].rules = rs]
    <3>1. PICK rs \in ruleCache : snap' = [snap EXCEPT ![p].rules = rs]
      BY <1>5 DEF CachedRules
    <3>2. rs \in RuleLists
      BY <3>1 DEF TypeOK
    <3> QED BY <3>1, <3>2
  <2>2. TypeOK'
    BY <1>5, <2>1 DEF CachedRules, Goto, shared, TypeOK, Pcs, Snaps
  <2>3. Reads'
    BY <1>5, <2>1 DEF CachedRules, Goto, TypeOK, Reads, Snaps
  <2> QED BY <2>2, <2>3
<1>6. ASSUME NEW p \in Calls, CacheMiss(p)
      PROVE  TInv'
  <2>1. TypeOK'
    BY <1>6 DEF CacheMiss, Goto, shared, TypeOK, Pcs
  <2>2. Reads'
    BY <1>6 DEF CacheMiss, Goto, TypeOK, Reads
  <2> QED BY <2>1, <2>2
<1>7. ASSUME NEW p \in Calls, LoadRules(p)
      PROVE  TInv'
  <2>1. TypeOK'
    BY <1>7 DEF LoadRules, Goto, shared, TypeOK, Pcs, Snaps
  <2>2. Reads'
    BY <1>7 DEF LoadRules, Goto, TypeOK, Reads, Snaps
  <2> QED BY <2>1, <2>2
<1>8. ASSUME NEW p \in Calls, FillCache(p)
      PROVE  TInv'
  <2>1. snap[p].rules \in RuleLists
    BY <1>8 DEF FillCache, Reads
  <2>2. TypeOK'
    BY <1>8, <2>1 DEF FillCache, Goto, TypeOK, Pcs
  <2>3. Reads'
    BY <1>8, <2>1 DEF FillCache, Goto, TypeOK, Reads
  <2> QED BY <2>2, <2>3
<1>9. ASSUME NEW p \in Calls, Decide(p)
      PROVE  TInv'
  <2>1. PICK verdict \in RuleVerdicts(snap[p]) : Conclude(p, verdict)
    BY <1>9 DEF Decide
  <2>2. verdict \in Verdicts
    BY <2>1 DEF RuleVerdicts, Verdicts
  <2> QED BY <2>1, <2>2, ConcludeType
<1>10. ASSUME NEW p \in Calls, Render(p)
       PROVE  TInv'
  <2>1. TypeOK'
    <3>1. [snap[p] EXCEPT !.phase = "log", !.verdict = "none"] \in Snaps
      BY CallType DEF Snaps, Phases, Verdicts
    <3>2. snap' = [snap EXCEPT ![p] =
                     [snap[p] EXCEPT !.phase = "log", !.verdict = "none"]]
      BY <1>10 DEF Render, TypeOK
    <3>3. snap' \in [Calls -> Snaps]
      BY <3>1, <3>2 DEF TypeOK
    <3> QED BY <1>10, <3>3, CallType DEF Render, Goto, shared, TypeOK, Pcs
  <2>2. Reads'
    BY <1>10 DEF Render, Goto, TypeOK, Reads, Snaps
  <2> QED BY <2>1, <2>2
<1>11. ASSUME NEW p \in Calls, Execute(p)
       PROVE  TInv'
  <2>1. TypeOK'
    <3>1. [snap[p] EXCEPT !.phase = "log", !.verdict = "none"] \in Snaps
      BY CallType DEF Snaps, Phases, Verdicts
    <3>2. snap' = [snap EXCEPT ![p] =
                     [snap[p] EXCEPT !.phase = "log", !.verdict = "none"]]
      BY <1>11 DEF Execute, TypeOK
    <3>3. snap' \in [Calls -> Snaps]
      BY <3>1, <3>2 DEF TypeOK
    <3> QED BY <1>11, <3>3, CallType DEF Execute, Goto, TypeOK, Pcs
  <2>2. Reads'
    BY <1>11 DEF Execute, Goto, TypeOK, Reads, Snaps
  <2> QED BY <2>1, <2>2
<1>12. ASSUME NEW p \in Calls, Persist(p)
       PROVE  TInv'
  <2>1. logged' \in [tokens : Nat, cost : Nat] /\ snap' \in [Calls -> Snaps]
    <3>1. CASE Saved(p)
      <4>1. snap' \in [Calls -> Snaps]
        BY <3>1 DEF Saved, TypeOK, Snaps
      <4>2. logged' \in [tokens : Nat, cost : Nat]
        <5>1. snap[p].req.tokens \in Nat /\ snap[p].req.cost \in Nat
          BY CallType
        <5>2. logged \in [tokens : Nat, cost : Nat]
          BY DEF TypeOK
        <5>3. logged.tokens + snap[p].req.tokens \in Nat
              /\ logged.cost + snap[p].req.cost \in Nat
          BY <5>1, <5>2
        <5>4. logged' = [logged EXCEPT !.tokens = logged.tokens + snap[p].req.tokens,
                                       !.cost = logged.cost + snap[p].req.cost]
          BY <3>1 DEF Saved
        <5> QED BY <5>2, <5>3, <5>4
      <4> QED BY <4>1, <4>2
    <3>2. CASE NotSaved(p)
      BY <3>2 DEF NotSaved, TypeOK
    <3> QED BY <1>12, <3>1, <3>2 DEF Persist
  <2>2. TypeOK'
    BY <1>12, <2>1 DEF Persist, Goto, TypeOK, Pcs
  <2>3. Reads'
    BY <1>12 DEF Persist, Saved, NotSaved, Goto, TypeOK, Reads, Snaps
  <2> QED BY <2>2, <2>3
<1>13. ASSUME NEW p \in Calls, CountTokens(p) \/ CountCost(p) \/ CountFails(p)
       PROVE  TInv'
  <2>1. tokens' \in Nat /\ cost' \in Nat
    BY <1>13 DEF CountTokens, CountCost, CountFails, shared, TypeOK, Snaps
  <2>2. TypeOK'
    BY <1>13, <2>1
       DEF CountTokens, CountCost, CountFails, Goto, shared, TypeOK, Pcs
  <2>3. Reads'
    BY <1>13 DEF CountTokens, CountCost, CountFails, Goto, TypeOK, Reads
  <2> QED BY <2>2, <2>3
<1>14. ASSUME NEW p \in Calls, Announce(p)
       PROVE  TInv'
  <2>1. TypeOK'
    BY <1>14 DEF Announce, Goto, shared, TypeOK, Pcs
  <2>2. Reads'
    BY <1>14 DEF Announce, Goto, TypeOK, Reads
  <2> QED BY <2>1, <2>2
<1>15. ASSUME NEW p \in Calls, Store(p)
       PROVE  TInv'
  <2>1. answers' \in [Prompts -> Models \cup {AnyModel}]
    <3>1. CASE UNCHANGED answers
      BY <3>1 DEF TypeOK
    <3>2. CASE /\ snap[p].req.prompt # NoPrompt
               /\ snap[p].req.via # "alias"
               /\ answers' = [answers EXCEPT ![snap[p].req.prompt]
                                               = snap[p].req.model]
      <4>1. snap[p].req \in Requests
        BY <3>2 DEF TypeOK, Snaps, NoRequest
      <4>2. snap[p].req.model \in Models
        BY <4>1, GatewayAssumption DEF RequestSet
      <4> QED BY <3>2, <4>2 DEF TypeOK
    <3> QED BY <1>15, <3>1, <3>2 DEF Store
  <2>2. TypeOK'
    BY <1>15, <2>1 DEF Store, Return, TypeOK, Pcs
  <2>3. Reads'
    BY <1>15 DEF Store, Return, TypeOK, Reads
  <2> QED BY <2>2, <2>3
<1>16. ASSUME Environment
       PROVE  TInv'
  <2>1. tokens' \in Nat /\ cost' \in Nat
    BY <1>16 DEF Environment, ChangeRules, RuleCacheExpires, AnswerExpires,
                 ToggleExperiment, Midnight, TypeOK
  <2>2. rules' \in RuleLists /\ experiment' \in BOOLEAN
    BY <1>16, GatewayAssumption
       DEF Environment, ChangeRules, RuleCacheExpires, AnswerExpires,
           ToggleExperiment, Midnight, TypeOK
  <2>3. TypeOK'
    BY <1>16, <2>1, <2>2
       DEF Environment, ChangeRules, RuleCacheExpires, AnswerExpires,
           ToggleExperiment, Midnight, TypeOK
  <2>4. Reads'
    BY <1>16 DEF Environment, ChangeRules, RuleCacheExpires, AnswerExpires,
                 ToggleExperiment, Midnight, Reads
  <2> QED BY <2>3, <2>4
<1>17. CASE UNCHANGED vars
  BY <1>17 DEF vars, TypeOK, Reads
<1> QED
  BY <1>1, <1>2, <1>3, <1>4, <1>5, <1>6, <1>7, <1>8, <1>9, <1>10, <1>11,
     <1>12, <1>13, <1>14, <1>15, <1>16, <1>17 DEF Next, Proceed

\* The stores and the requests' local state are well typed in every reachable
\* state, and the cached rule list is always one that was active.
THEOREM TypeCorrect == Spec => []TypeOK
<1>1. TInv => TypeOK
  BY DEF TInv
<1> QED BY InitTInv, StepTInv, <1>1, PTL DEF Spec

----------------------------------------------------------------------------
(* The daily limit *)

\* Who has been admitted and not been counted yet.  Alias calls are never
\* counted: they carry no tokens.
Admitted(labels) == {p \in Calls : pc[p] \in labels /\ snap[p].req.via # "alias"}

Uncounted == Admitted({"persist", "count_tokens"})

Uncosted == Admitted({"persist", "count_tokens", "count_cost"})

N == Cardinality(Calls)

\* What may still come on top of used when the calls of P are in flight: the
\* last one admitted saw the others' tokens missing, and no more than that.
Room(P, used, size) ==
  /\ \A p \in P : size[p] <= DailyCap
  /\ P = {} => used <= DailyCap + (N - 1) * MaxTokens
  /\ P # {} => \E p \in P :
       used + size[p] <= DailyCap + (N - Cardinality(P)) * MaxTokens

\* There is at least one call, and sets of calls are no larger than all of them.
LEMMA CallCount ==
  /\ N \in Nat \ {0}
  /\ \A P \in SUBSET Calls : /\ IsFiniteSet(P)
                             /\ Cardinality(P) \in 0..N
                             /\ P # {} <=> Cardinality(P) # 0
<1>1. IsFiniteSet(Calls) /\ Calls # {}
  BY GatewayAssumption
<1>2. N \in Nat /\ N # 0
  BY <1>1, FS_CardinalityType, FS_EmptySet DEF N
<1>3. ASSUME NEW P \in SUBSET Calls
      PROVE  /\ IsFiniteSet(P) /\ Cardinality(P) \in 0..N
             /\ P # {} <=> Cardinality(P) # 0
  <2>1. IsFiniteSet(P) /\ Cardinality(P) <= N
    BY <1>1, FS_Subset DEF N
  <2>2. Cardinality(P) \in Nat
    BY <2>1, FS_CardinalityType
  <2> QED BY <1>2, <2>1, <2>2, FS_EmptySet
<1> QED BY <1>2, <1>3

\* The allowance grows by one call when one call leaves.
LEMMA Allowance ==
  \A k \in Nat : /\ k * MaxTokens \in Nat
                 /\ (k + 1) * MaxTokens = k * MaxTokens + MaxTokens
                 /\ k * MaxCost \in Nat
                 /\ (k + 1) * MaxCost = k * MaxCost + MaxCost
<1>1. MaxTokens \in Nat /\ MaxCost \in Nat
  BY GatewayAssumption
<1> QED BY <1>1

\* A call that fits below the limit is admitted.
LEMMA RoomToJoin ==
  ASSUME NEW P \in SUBSET Calls, NEW q \in Calls, NEW used \in Nat,
         NEW size \in [Calls -> 0..MaxTokens],
         used + size[q] <= DailyCap,
         \A p \in P : size[p] <= DailyCap
  PROVE  Room(P \cup {q}, used, size)
<1> DEFINE Q == P \cup {q}
<1>1. Cardinality(Q) \in 0..N /\ N \in Nat
  BY CallCount
<1>2. N - Cardinality(Q) \in Nat
  BY <1>1
<1>3. (N - Cardinality(Q)) * MaxTokens \in Nat
  BY <1>2, Allowance
<1>4. DailyCap \in Nat /\ size[q] \in Nat
  BY GatewayAssumption
<1>5. size[q] <= DailyCap
  BY <1>4
<1>6. used + size[q] <= DailyCap + (N - Cardinality(Q)) * MaxTokens
  BY <1>3, <1>4
<1>7. q \in Q /\ \A p \in Q : size[p] <= DailyCap
  BY <1>5
<1> QED BY <1>6, <1>7 DEF Room

\* A call leaves, having counted its tokens or failed to.
LEMMA RoomToLeave ==
  ASSUME NEW P \in SUBSET Calls, NEW q \in P, NEW used \in Nat,
         NEW size \in [Calls -> 0..MaxTokens], Room(P, used, size),
         NEW more \in {0, size[q]}
  PROVE  Room(P \ {q}, used + more, size)
<1> DEFINE Q == P \ {q}
           slack == N - Cardinality(P)
<1>1. \A p \in Calls : size[p] \in Nat /\ size[p] <= MaxTokens
  BY GatewayAssumption
<1>2. IsFiniteSet(P) /\ Cardinality(P) \in 1..N /\ N \in Nat
  BY CallCount
<1>3. Cardinality(Q) = Cardinality(P) - 1
  BY <1>2, FS_RemoveElement
<1>4. slack \in Nat /\ N - Cardinality(Q) = slack + 1
  BY <1>2, <1>3
<1>5. slack * MaxTokens \in Nat
      /\ (slack + 1) * MaxTokens = slack * MaxTokens + MaxTokens
  BY <1>4, Allowance
<1>6. PICK p \in P : used + size[p] <= DailyCap + slack * MaxTokens
  BY DEF Room
<1>7. DailyCap \in Nat /\ MaxTokens \in Nat /\ more \in Nat /\ more <= size[q]
  BY <1>1, GatewayAssumption
<1>8. \A r \in Q : size[r] <= DailyCap
  BY DEF Room
<1> HIDE DEF slack
<1>9. CASE Q = {}
  <2>1. p = q
    BY <1>9
  <2>2. Cardinality(P) = 1
    BY <1>2, <1>3, <1>9, FS_EmptySet
  <2>3. slack = N - 1
    BY <2>2 DEF slack
  <2>4. used + more <= DailyCap + (N - 1) * MaxTokens
    BY <1>1, <1>5, <1>6, <1>7, <2>1, <2>3
  <2> QED BY <1>9, <2>4 DEF Room
<1>10. CASE Q # {}
  <2>1. \E r \in Q : used + more + size[r]
                       <= DailyCap + (slack + 1) * MaxTokens
    <3>1. CASE p # q
      <4>1. p \in Q /\ used + more + size[p] <= DailyCap + (slack + 1) * MaxTokens
        BY <1>1, <1>5, <1>6, <1>7, <3>1
      <4> QED BY <4>1
    <3>2. CASE p = q
      <4>1. PICK r \in Q : TRUE
        BY <1>10
      <4>2. used + more + size[r] <= DailyCap + (slack + 1) * MaxTokens
        BY <1>1, <1>5, <1>6, <1>7, <3>2, <4>1
      <4> QED BY <4>2
    <3> QED BY <3>1, <3>2
  <2> QED BY <1>4, <1>8, <1>10, <2>1 DEF Room
<1> QED BY <1>9, <1>10

\* A new day begins with the calls of the old one still in flight.
LEMMA RoomAtMidnight ==
  ASSUME NEW P \in SUBSET Calls, NEW used \in Nat,
         NEW size \in [Calls -> 0..MaxTokens], Room(P, used, size)
  PROVE  Room(P, 0, size)
<1>1. DailyCap \in Nat /\ MaxTokens \in Nat
  BY GatewayAssumption
<1>2. N - 1 \in Nat /\ Cardinality(P) \in 0..N /\ N - Cardinality(P) \in Nat
  BY CallCount
<1>3. (N - 1) * MaxTokens \in Nat /\ (N - Cardinality(P)) * MaxTokens \in Nat
  BY <1>2, Allowance
<1>4. CASE P = {}
  BY <1>1, <1>3, <1>4 DEF Room
<1>5. CASE P # {}
  <2>1. PICK p \in P : TRUE
    BY <1>5
  <2>2. size[p] \in Nat /\ size[p] <= DailyCap
    BY <1>1 DEF Room
  <2>3. 0 + size[p] <= DailyCap + (N - Cardinality(P)) * MaxTokens
    BY <1>1, <1>3, <2>2
  <2> QED BY <1>5, <2>3 DEF Room
<1> QED BY <1>4, <1>5

\* Room bounds what is used.
LEMMA RoomBounds ==
  ASSUME NEW P \in SUBSET Calls, NEW used \in Nat,
         NEW size \in [Calls -> 0..MaxTokens], Room(P, used, size)
  PROVE  used <= DailyCap + (N - 1) * MaxTokens
<1>1. DailyCap \in Nat /\ MaxTokens \in Nat
  BY GatewayAssumption
<1>2. CASE P = {}
  BY <1>2 DEF Room
<1>3. CASE P # {}
  <2>1. PICK p \in P : used + size[p] <= DailyCap + (N - Cardinality(P)) * MaxTokens
    BY <1>3 DEF Room
  <2>2. Cardinality(P) \in 1..N /\ N \in Nat
    BY <1>3, CallCount
  <2>3. (N - Cardinality(P)) * MaxTokens <= (N - 1) * MaxTokens
    <3>1. PICK a, b \in Nat : N - Cardinality(P) = a /\ N - 1 = a + b
      <4>1. N - Cardinality(P) \in Nat /\ Cardinality(P) - 1 \in Nat
            /\ N - 1 = (N - Cardinality(P)) + (Cardinality(P) - 1)
        BY <2>2
      <4> QED BY <4>1
    <3>2. (a + b) * MaxTokens = a * MaxTokens + b * MaxTokens
      BY <1>1
    <3>3. a * MaxTokens \in Nat /\ b * MaxTokens \in Nat
      BY Allowance
    <3> QED BY <3>1, <3>2, <3>3
  <2>4. size[p] \in Nat
    BY <1>1
  <2>5. (N - Cardinality(P)) * MaxTokens \in Nat /\ (N - 1) * MaxTokens \in Nat
    BY <2>2, Allowance
  <2> QED BY <1>1, <2>1, <2>3, <2>4, <2>5
<1> QED BY <1>2, <1>3

----------------------------------------------------------------------------
(* What a step does to the counters and to the calls in flight *)

Late == {"persist", "count_tokens", "count_cost"}

\* The limits that a call admitted now respects.
Fits(p) ==
  \/ snap[p].req.via = "alias"
  \/ /\ DailyEnforced => tokens + snap[p].req.tokens <= DailyCap
     /\ BudgetEnforced => cost <= BudgetCap - 1

SameCounters == tokens' = tokens /\ cost' = cost

\* The ways a call can go through the end of the pipeline.
Moves(p) ==
  \/ pc[p] \notin Late /\ pc'[p] \notin Late /\ SameCounters
  \/ /\ pc[p] \notin Late /\ pc'[p] = "persist"
     /\ SameCounters /\ Fits(p) /\ snap'[p].req = snap[p].req
  \/ /\ pc[p] = "persist" /\ pc'[p] = "count_tokens"
     /\ SameCounters /\ snap'[p].req = snap[p].req
  \/ /\ pc[p] = "count_tokens" /\ pc'[p] = "count_cost"
     /\ tokens' = tokens + snap[p].req.tokens /\ cost' = cost
     /\ snap'[p].req = snap[p].req
  \/ /\ pc[p] = "count_cost" /\ pc'[p] = "announce"
     /\ tokens' = tokens /\ cost' = cost + snap[p].req.cost
  \/ /\ pc[p] \in {"count_tokens", "count_cost"} /\ pc'[p] = "announce"
     /\ SameCounters

OthersStay(p) ==
  \A q \in Calls \ {p} : pc'[q] = pc[q] /\ snap'[q] = snap[q]

\* A list that enforces a limit lets only those pass that respect it.
LEMMA Admission ==
  ASSUME TInv, NEW p \in Calls, pc[p] = "decide", snap[p].phase = "log",
         ~Blocked(snap[p])
  PROVE  Fits(p)
<1> DEFINE rs == snap[p].rules
<1>1. rs \in RuleLists
  BY DEF TInv, Reads
<1>2. ASSUME NEW i \in DOMAIN rs, ~Downgrades(rs[i]),
             \A j \in 1..(i - 1) : ~Downgrades(rs[j])
      PROVE  ~Triggers(rs[i], snap[p])
  BY <1>2 DEF Blocked
<1>3. tokens \in Nat /\ cost \in Nat /\ snap[p].req.tokens \in Nat
  BY CallType DEF TInv, TypeOK
<1>4. ASSUME DailyEnforced
      PROVE  tokens + snap[p].req.tokens <= DailyCap
  <2>1. PICK i \in DOMAIN rs :
          /\ rs[i].kind = "tenant_limit" /\ rs[i].limit \in 1..DailyCap
          /\ \A j \in 1..(i - 1) : ~Downgrades(rs[j])
    BY <1>1, <1>4 DEF DailyEnforced, Enforces
  <2>2. ~Triggers(rs[i], snap[p])
    BY <1>2, <2>1 DEF Downgrades
  <2>3. ~(tokens + snap[p].req.tokens > rs[i].limit)
    BY <2>1, <2>2, GatewayAssumption DEF Triggers, Asked
  <2> QED BY <1>3, <2>1, <2>3, GatewayAssumption
<1>5. ASSUME BudgetEnforced
      PROVE  cost <= BudgetCap - 1
  <2>1. PICK i \in DOMAIN rs :
          /\ rs[i].kind = "budget_cap" /\ rs[i].limit \in 1..BudgetCap
          /\ \A j \in 1..(i - 1) : ~Downgrades(rs[j])
    BY <1>1, <1>5 DEF BudgetEnforced, Enforces
  <2>2. ~Triggers(rs[i], snap[p])
    BY <1>2, <2>1 DEF Downgrades
  <2>3. ~(cost >= rs[i].limit)
    BY <2>1, <2>2, GatewayAssumption DEF Triggers
  <2> QED BY <1>3, <2>1, <2>3, GatewayAssumption
<1> QED BY <1>4, <1>5 DEF Fits

\* Every step of a call is one of its moves, and leaves the other calls alone.
LEMMA ProceedMoves ==
  ASSUME TInv, NEW p \in Calls, Proceed(p)
  PROVE  Moves(p) /\ OthersStay(p)
<1> USE DEF TInv, TypeOK
<1>1. CASE LookupHit(p) \/ Fail(p) \/ RecordBlock(p)
  BY <1>1 DEF LookupHit, Fail, RecordBlock, Return, shared, Moves, OthersStay,
              Late, SameCounters
<1>2. CASE LookupMiss(p)
  BY <1>2 DEF LookupMiss, Goto, shared, Moves, OthersStay, Late, SameCounters
<1>3. CASE Experiment(p)
  <2>1. CASE experiment
    <3>1. AfterVerdict(p, "ab_test") \in {"render", "execute", "persist"}
      BY DEF AfterVerdict
    <3>2. Fits(p)
      BY <1>3 DEF Experiment, Reads, Fits
    <3>3. OthersStay(p) /\ pc[p] = "experiment" /\ SameCounters
          /\ pc'[p] = AfterVerdict(p, "ab_test")
      BY <1>3, <2>1 DEF Experiment, Conclude, Goto, shared, OthersStay,
                        SameCounters
    <3>4. snap'[p].req = snap[p].req
      BY <1>3, <2>1, <3>1, CallType DEF Experiment, Conclude, Snaps
    <3> QED BY <3>1, <3>2, <3>3, <3>4 DEF Moves, Late
  <2>2. CASE ~experiment
    BY <1>3, <2>2 DEF Experiment, Goto, shared, Moves, OthersStay, Late,
                      SameCounters
  <2> QED BY <2>1, <2>2
<1>4. CASE CachedRules(p)
  BY <1>4 DEF CachedRules, Goto, shared, Moves, OthersStay, Late, SameCounters
<1>5. CASE CacheMiss(p) \/ LoadRules(p)
  BY <1>5 DEF CacheMiss, LoadRules, Goto, shared, Moves, OthersStay, Late,
              SameCounters
<1>6. CASE FillCache(p)
  BY <1>6 DEF FillCache, Goto, Moves, OthersStay, Late, SameCounters
<1>7. CASE Decide(p)
  <2>1. PICK verdict \in RuleVerdicts(snap[p]) : Conclude(p, verdict)
    BY <1>7 DEF Decide
  <2>2. AfterVerdict(p, verdict) \in
          {"render", "record_block", "idle", "execute", "persist"}
    BY DEF AfterVerdict
  <2>3. AfterVerdict(p, verdict) = "persist" =>
          snap[p].phase = "log" /\ verdict # "block"
    <3>1. snap[p].phase \in Phases
      BY CallType DEF Snaps
    <3> QED BY <3>1 DEF AfterVerdict, Phases
  <2>4. verdict # "block" => ~Blocked(snap[p])
    BY <2>1 DEF RuleVerdicts
  <2>5. AfterVerdict(p, verdict) = "persist" => Fits(p)
    BY <1>7, <2>3, <2>4, Admission DEF Decide
  <2>6. OthersStay(p) /\ pc[p] = "decide" /\ SameCounters
        /\ pc'[p] = AfterVerdict(p, verdict)
    BY <1>7, <2>1 DEF Decide, Conclude, Goto, shared, OthersStay, SameCounters
  <2>7. AfterVerdict(p, verdict) = "persist" => snap'[p].req = snap[p].req
    BY <2>1, CallType DEF Conclude, Snaps
  <2> QED BY <2>2, <2>5, <2>6, <2>7 DEF Moves, Late
<1>8. CASE Render(p)
  BY <1>8 DEF Render, Goto, shared, Moves, OthersStay, Late, SameCounters
<1>9. CASE Execute(p)
  BY <1>9 DEF Execute, Goto, Moves, OthersStay, Late, SameCounters
<1>10. CASE Persist(p)
  <2>1. snap'[p].req = snap[p].req
    BY <1>10, CallType DEF Persist, Saved, NotSaved, Snaps
  <2>2. OthersStay(p)
    BY <1>10 DEF Persist, Saved, NotSaved, Goto, OthersStay
  <2> QED BY <1>10, <2>1, <2>2 DEF Persist, Goto, Moves, SameCounters
<1>11. CASE CountTokens(p) \/ CountCost(p) \/ CountFails(p)
  BY <1>11 DEF CountTokens, CountCost, CountFails, Goto, shared, Moves,
               OthersStay, SameCounters
<1>12. CASE Announce(p)
  BY <1>12 DEF Announce, Goto, shared, Moves, OthersStay, Late, SameCounters
<1>13. CASE Store(p)
  BY <1>13 DEF Store, Return, Moves, OthersStay, Late, SameCounters
<1> QED
  BY <1>1, <1>2, <1>3, <1>4, <1>5, <1>6, <1>7, <1>8, <1>9, <1>10, <1>11,
     <1>12, <1>13 DEF Proceed

\* A step is a move of one call, or leaves every call where it is and at most
\* resets the counters.
LEMMA NextMoves ==
  ASSUME TInv, [Next]_vars
  PROVE  \/ \E p \in Calls : Moves(p) /\ OthersStay(p)
         \/ /\ pc' = pc /\ snap' = snap
            /\ tokens' \in {0, tokens} /\ cost' \in {0, cost}
<1> USE DEF TInv, TypeOK
<1>1. ASSUME NEW p \in Calls, NEW req \in Requests, Start(p, req)
      PROVE  Moves(p) /\ OthersStay(p)
  <2>1. PICK label \in FirstSteps(req) : Goto(p, label)
    BY <1>1 DEF Start
  <2>2. label \in {"lookup", "experiment", "cached_rules", "execute"}
    BY GatewayAssumption DEF FirstSteps, RequestSet
  <2> QED BY <1>1, <2>1, <2>2 DEF Start, Goto, Moves, OthersStay, Late, SameCounters
<1>2. ASSUME Environment \/ UNCHANGED vars
      PROVE  /\ pc' = pc /\ snap' = snap
             /\ tokens' \in {0, tokens} /\ cost' \in {0, cost}
  BY <1>2 DEF Environment, ChangeRules, RuleCacheExpires, AnswerExpires,
              ToggleExperiment, Midnight, vars
<1> QED BY <1>1, <1>2, ProceedMoves DEF Next

----------------------------------------------------------------------------
(* The bound on the daily tokens *)

DailyInv == DailyEnforced => Room(Uncounted, tokens, Sizes)

\* Sizes of calls are within the largest call's.
LEMMA SizesType == TypeOK => Sizes \in [Calls -> 0..MaxTokens]
<1> SUFFICES ASSUME TypeOK PROVE Sizes \in [Calls -> 0..MaxTokens]
  OBVIOUS
<1>1. \A p \in Calls : snap[p].req.tokens \in 0..MaxTokens
  BY CallType, GatewayAssumption
<1> QED BY <1>1 DEF Sizes

\* Only the sizes of the calls in flight matter.
LEMMA RoomSame ==
  ASSUME NEW P \in SUBSET Calls, NEW used \in Nat, NEW size, NEW other,
         \A p \in P : other[p] = size[p], Room(P, used, size)
  PROVE  Room(P, used, other)
  BY DEF Room

\* How a call's move changes who is in flight: nothing, or one call joins that
\* fits below the limit, or one leaves that may have counted its tokens.
LEMMA UncountedMoves ==
  ASSUME TInv, TInv', NEW p \in Calls, Moves(p), OthersStay(p)
  PROVE  /\ \A q \in Uncounted' : Sizes'[q] = Sizes[q]
         /\ \/ Uncounted' = Uncounted /\ tokens' = tokens
            \/ /\ Uncounted' = Uncounted \cup {p} /\ tokens' = tokens
               /\ DailyEnforced => tokens + Sizes[p] <= DailyCap
            \/ /\ p \in Uncounted /\ Uncounted' = Uncounted \ {p}
               /\ \E more \in {0, Sizes[p]} : tokens' = tokens + more
<1> DEFINE In(q) == pc[q] \in {"persist", "count_tokens"}
                    /\ snap[q].req.via # "alias"
<1>1. Uncounted = {q \in Calls : In(q)} /\ Uncounted' = {q \in Calls : In(q)'}
  BY DEF Uncounted, Admitted
<1>2. \A q \in Calls \ {p} : In(q)' <=> In(q)
  BY DEF OthersStay
<1>3. \A q \in Calls : Sizes[q] = snap[q].req.tokens /\ Sizes'[q] = snap'[q].req.tokens
  BY DEF Sizes
<1>4. \A q \in Calls \ {p} : Sizes'[q] = Sizes[q]
  BY <1>3 DEF OthersStay
<1>5. tokens \in Nat /\ Sizes[p] \in Nat /\ (snap[p].req.via = "alias" => Sizes[p] = 0)
  BY <1>3, CallType DEF TInv, TypeOK
<1>6. In(p)' => snap'[p].req = snap[p].req
  BY DEF Moves, Late
<1>7. \A q \in Uncounted' : Sizes'[q] = Sizes[q]
  BY <1>1, <1>3, <1>4, <1>6
<1>8. CASE In(p)' = In(p) /\ tokens' = tokens
  <2>1. Uncounted' = Uncounted
    BY <1>1, <1>2, <1>8
  <2> QED BY <1>7, <1>8, <2>1
<1>9. CASE In(p)' /\ ~In(p)
  <2>1. SameCounters /\ Fits(p) /\ snap[p].req.via # "alias"
    BY <1>6, <1>9 DEF Moves, Late
  <2>2. Uncounted' = Uncounted \cup {p}
    BY <1>1, <1>2, <1>9
  <2> QED BY <1>3, <1>7, <2>1, <2>2 DEF SameCounters, Fits
<1>10. CASE In(p) /\ ~In(p)'
  <2>1. tokens' = tokens \/ tokens' = tokens + snap[p].req.tokens
    BY DEF Moves, SameCounters
  <2>2. Uncounted' = Uncounted \ {p} /\ p \in Uncounted
    BY <1>1, <1>2, <1>10
  <2>3. \E more \in {0, Sizes[p]} : tokens' = tokens + more
    BY <1>3, <1>5, <2>1
  <2> QED BY <1>7, <2>2, <2>3
<1>11. CASE In(p)' = In(p) /\ tokens' # tokens
  <2>1. pc[p] = "count_tokens" /\ pc'[p] = "count_cost"
        /\ tokens' = tokens + snap[p].req.tokens
    BY <1>11 DEF Moves, SameCounters
  <2>2. snap[p].req.via = "alias"
    BY <1>11, <2>1
  <2> QED BY <1>3, <1>5, <1>11, <2>1, <2>2
<1>12. In(p)' = In(p) \/ (In(p)' /\ ~In(p)) \/ (In(p) /\ ~In(p)')
  BY DEF Admitted
<1> QED BY <1>8, <1>9, <1>10, <1>11, <1>12

\* The room for calls in flight is kept, step by step.
LEMMA StepDaily == TInv /\ TInv' /\ DailyInv /\ [Next]_vars => DailyInv'
<1> SUFFICES ASSUME TInv, TInv', DailyInv, [Next]_vars, DailyEnforced
             PROVE  Room(Uncounted', tokens', Sizes')
  BY DEF DailyInv, DailyEnforced, Enforces, Downgrades
<1>1. Room(Uncounted, tokens, Sizes)
  BY DEF DailyInv
<1>2. Sizes \in [Calls -> 0..MaxTokens] /\ tokens \in Nat /\ tokens' \in Nat
  BY SizesType DEF TInv, TypeOK
<1>3. Uncounted \in SUBSET Calls /\ Uncounted' \in SUBSET Calls
  BY DEF Uncounted, Admitted
<1>4. ASSUME NEW p \in Calls, Moves(p), OthersStay(p)
      PROVE  Room(Uncounted', tokens', Sizes')
  <2>1. \A q \in Uncounted' : Sizes'[q] = Sizes[q]
    BY <1>4, UncountedMoves
  <2>2. Room(Uncounted', tokens', Sizes)
    <3>1. CASE Uncounted' = Uncounted /\ tokens' = tokens
      BY <1>1, <3>1
    <3>2. CASE /\ Uncounted' = Uncounted \cup {p} /\ tokens' = tokens
               /\ tokens + Sizes[p] <= DailyCap
      <4>1. \A q \in Uncounted : Sizes[q] <= DailyCap
        BY <1>1 DEF Room
      <4>2. Room(Uncounted \cup {p}, tokens, Sizes)
        BY <1>2, <1>3, <3>2, <4>1, RoomToJoin
      <4> QED BY <3>2, <4>2
    <3>3. CASE /\ p \in Uncounted /\ Uncounted' = Uncounted \ {p}
               /\ \E more \in {0, Sizes[p]} : tokens' = tokens + more
      <4>1. PICK more \in {0, Sizes[p]} : tokens' = tokens + more
        BY <3>3
      <4>2. Room(Uncounted \ {p}, tokens + more, Sizes)
        BY <1>1, <1>2, <1>3, <3>3, RoomToLeave
      <4> QED BY <3>3, <4>1, <4>2
    <3> QED BY <1>4, <3>1, <3>2, <3>3, UncountedMoves
  <2> QED BY <1>2, <1>3, <2>1, <2>2, RoomSame
<1>5. ASSUME pc' = pc, snap' = snap, tokens' \in {0, tokens}
      PROVE  Room(Uncounted', tokens', Sizes')
  <2>1. Uncounted' = Uncounted /\ Sizes' = Sizes
    BY <1>5 DEF Uncounted, Admitted, Sizes
  <2>2. Room(Uncounted, 0, Sizes)
    BY <1>1, <1>2, <1>3, RoomAtMidnight
  <2> QED BY <1>1, <1>5, <2>1, <2>2
<1> QED BY <1>4, <1>5, NextMoves

\* Nobody is in flight at first.
LEMMA InitDaily == Init => DailyInv
<1> SUFFICES ASSUME Init PROVE Room(Uncounted, tokens, Sizes)
  BY DEF DailyInv
<1>1. Uncounted = {} /\ tokens = 0
  BY DEF Init, Uncounted, Admitted
<1>2. N - 1 \in Nat
  BY CallCount
<1>3. 0 <= DailyCap + (N - 1) * MaxTokens
  BY <1>2, Allowance, GatewayAssumption
<1> QED BY <1>1, <1>3 DEF Room

\* With a daily limit in every rule list, and whatever fails or expires, the
\* tokens of a day stay below the limit plus one call for every request in
\* flight but one.
THEOREM DailyBound == Spec => []DailyOvershoot
<1>1. TInv /\ DailyInv => DailyOvershoot
  <2> SUFFICES ASSUME TInv, DailyInv, DailyEnforced
               PROVE  tokens <= DailyCap + (Cardinality(Calls) - 1) * MaxTokens
    BY DEF DailyOvershoot
  <2>1. Uncounted \in SUBSET Calls /\ tokens \in Nat
    BY DEF Uncounted, Admitted, TInv, TypeOK
  <2>2. Sizes \in [Calls -> 0..MaxTokens]
    BY SizesType DEF TInv
  <2> QED BY <2>1, <2>2, RoomBounds DEF DailyInv, N
<1> QED BY InitTInv, StepTInv, InitDaily, StepDaily, <1>1, PTL DEF Spec

----------------------------------------------------------------------------
(* The bound on the monthly cost *)

\* What has been counted and the most that the calls in flight can add.
BudgetInv ==
  BudgetEnforced =>
    cost + Cardinality(Uncosted) * MaxCost <= BudgetCap - 1 + N * MaxCost

\* How a call's move changes whose cost is still to come.
LEMMA UncostedMoves ==
  ASSUME TInv, NEW p \in Calls, Moves(p), OthersStay(p)
  PROVE  \/ Uncosted' = Uncosted /\ cost' = cost
         \/ /\ Uncosted' = Uncosted \cup {p} /\ cost' = cost
            /\ BudgetEnforced => cost <= BudgetCap - 1
         \/ /\ p \in Uncosted /\ Uncosted' = Uncosted \ {p}
            /\ \E more \in 0..MaxCost : cost' = cost + more
<1> DEFINE In(q) == pc[q] \in Late /\ snap[q].req.via # "alias"
<1>1. Uncosted = {q \in Calls : In(q)} /\ Uncosted' = {q \in Calls : In(q)'}
  BY DEF Uncosted, Admitted, Late
<1>2. \A q \in Calls \ {p} : In(q)' <=> In(q)
  BY DEF OthersStay
<1>3. /\ cost \in Nat /\ snap[p].req.cost \in 0..MaxCost
      /\ snap[p].req.via = "alias" => snap[p].req.cost = 0
  BY CallType, GatewayAssumption DEF TInv, TypeOK
<1>4. In(p)' => snap'[p].req = snap[p].req
  BY DEF Moves, Late
<1>5. CASE In(p)' = In(p) /\ cost' = cost
  BY <1>1, <1>2, <1>5
<1>6. CASE In(p)' /\ ~In(p)
  <2>1. SameCounters /\ Fits(p) /\ snap[p].req.via # "alias"
    BY <1>4, <1>6 DEF Moves, Late
  <2>2. Uncosted' = Uncosted \cup {p}
    BY <1>1, <1>2, <1>6
  <2> QED BY <2>1, <2>2 DEF SameCounters, Fits
<1>7. CASE In(p) /\ ~In(p)'
  <2>1. cost' = cost \/ cost' = cost + snap[p].req.cost
    BY DEF Moves, SameCounters
  <2>2. Uncosted' = Uncosted \ {p} /\ p \in Uncosted
    BY <1>1, <1>2, <1>7
  <2>3. \E more \in 0..MaxCost : cost' = cost + more
    <3>1. 0 \in 0..MaxCost /\ cost = cost + 0
      BY <1>3, GatewayAssumption
    <3> QED BY <1>3, <2>1, <3>1
  <2> QED BY <2>2, <2>3
<1>8. CASE In(p)' = In(p) /\ cost' # cost
  <2>1. pc[p] = "count_cost" /\ pc'[p] = "announce"
        /\ cost' = cost + snap[p].req.cost
    BY <1>8 DEF Moves, SameCounters
  <2>2. snap[p].req.via = "alias"
    BY <1>8, <2>1 DEF Late
  <2> QED BY <1>3, <1>8, <2>1, <2>2
<1>9. In(p)' = In(p) \/ (In(p)' /\ ~In(p)) \/ (In(p) /\ ~In(p)')
  OBVIOUS
<1> QED BY <1>5, <1>6, <1>7, <1>8, <1>9

\* The margin for the calls in flight is kept, step by step.
LEMMA StepBudget == TInv /\ TInv' /\ BudgetInv /\ [Next]_vars => BudgetInv'
<1> SUFFICES ASSUME TInv, TInv', BudgetInv, [Next]_vars, BudgetEnforced
             PROVE  cost' + Cardinality(Uncosted') * MaxCost
                      <= BudgetCap - 1 + N * MaxCost
  BY DEF BudgetInv, BudgetEnforced, Enforces, Downgrades
<1>1. cost + Cardinality(Uncosted) * MaxCost <= BudgetCap - 1 + N * MaxCost
  BY DEF BudgetInv
<1>2. cost \in Nat /\ cost' \in Nat /\ BudgetCap \in Nat /\ MaxCost \in Nat
  BY GatewayAssumption DEF TInv, TypeOK
<1>3. /\ Uncosted \in SUBSET Calls /\ Cardinality(Uncosted) \in 0..N
      /\ Uncosted' \in SUBSET Calls /\ Cardinality(Uncosted') \in 0..N
      /\ N \in Nat
  <2>1. Uncosted \in SUBSET Calls /\ Uncosted' \in SUBSET Calls
    BY DEF Uncosted, Admitted
  <2> QED BY <2>1, CallCount
<1>4. \A k \in 0..N : k * MaxCost \in Nat /\ k * MaxCost <= N * MaxCost
  <2> SUFFICES ASSUME NEW k \in 0..N
               PROVE  k * MaxCost \in Nat /\ k * MaxCost <= N * MaxCost
    OBVIOUS
  <2>1. PICK b \in Nat : N = k + b
    <3>1. N - k \in Nat /\ N = k + (N - k)
      BY <1>3
    <3> QED BY <3>1
  <2>2. (k + b) * MaxCost = k * MaxCost + b * MaxCost
    BY <1>2
  <2>3. k * MaxCost \in Nat /\ b * MaxCost \in Nat
    BY Allowance
  <2> QED BY <2>1, <2>2, <2>3
<1>5. BudgetCap >= 1
  <2>1. Enforces(rules, "budget_cap", BudgetCap)
    BY DEF BudgetEnforced, TInv, TypeOK
  <2> QED BY <1>2, <2>1 DEF Enforces
<1>6. ASSUME NEW p \in Calls, Moves(p), OthersStay(p)
      PROVE  cost' + Cardinality(Uncosted') * MaxCost
               <= BudgetCap - 1 + N * MaxCost
  <2>1. CASE Uncosted' = Uncosted /\ cost' = cost
    BY <1>1, <2>1
  <2>2. CASE cost' = cost /\ cost <= BudgetCap - 1
    <3>1. Cardinality(Uncosted') * MaxCost \in Nat /\ N * MaxCost \in Nat
          /\ Cardinality(Uncosted') * MaxCost <= N * MaxCost
      BY <1>3, <1>4
    <3> QED BY <1>2, <2>2, <3>1
  <2>3. CASE /\ p \in Uncosted /\ Uncosted' = Uncosted \ {p}
             /\ \E more \in 0..MaxCost : cost' = cost + more
    <3>1. Cardinality(Uncosted') = Cardinality(Uncosted) - 1
          /\ Cardinality(Uncosted) \in Nat \ {0}
      BY <1>3, <2>3, CallCount, FS_RemoveElement
    <3>2. Cardinality(Uncosted') \in Nat
          /\ Cardinality(Uncosted) = Cardinality(Uncosted') + 1
      BY <3>1
    <3>3. Cardinality(Uncosted) * MaxCost = Cardinality(Uncosted') * MaxCost + MaxCost
          /\ Cardinality(Uncosted') * MaxCost \in Nat
      BY <3>2, Allowance
    <3>4. cost' <= cost + MaxCost
      BY <1>2, <2>3
    <3>5. N * MaxCost \in Nat
      BY <1>3, Allowance
    <3> QED BY <1>1, <1>2, <3>3, <3>4, <3>5
  <2> QED BY <1>6, <2>1, <2>2, <2>3, UncostedMoves
<1>7. ASSUME pc' = pc, snap' = snap, cost' \in {0, cost}
      PROVE  cost' + Cardinality(Uncosted') * MaxCost
               <= BudgetCap - 1 + N * MaxCost
  <2>1. Uncosted' = Uncosted
    BY <1>7 DEF Uncosted, Admitted
  <2>2. Cardinality(Uncosted) * MaxCost \in Nat /\ N * MaxCost \in Nat
        /\ Cardinality(Uncosted) * MaxCost <= N * MaxCost
    BY <1>3, <1>4
  <2> QED BY <1>1, <1>2, <1>5, <1>7, <2>1, <2>2
<1> QED BY <1>6, <1>7, NextMoves

\* Nothing has been spent at first.
LEMMA InitBudget == Init => BudgetInv
<1> SUFFICES ASSUME Init, BudgetEnforced
             PROVE  cost + Cardinality(Uncosted) * MaxCost
                      <= BudgetCap - 1 + N * MaxCost
  BY DEF BudgetInv
<1>1. Uncosted = {} /\ cost = 0
  BY DEF Init, Uncosted, Admitted
<1>2. Cardinality(Uncosted) = 0
  BY <1>1, FS_EmptySet
<1>3. BudgetCap \in Nat /\ BudgetCap >= 1
  <2>1. Enforces(rules, "budget_cap", BudgetCap)
    BY DEF BudgetEnforced, Init
  <2> QED BY <2>1, GatewayAssumption DEF Enforces
<1>4. N * MaxCost \in Nat /\ 0 * MaxCost = 0
  BY CallCount, Allowance, GatewayAssumption
<1> QED BY <1>1, <1>2, <1>3, <1>4

\* With a budget in every rule list, the cost of a month stays below the budget
\* plus one call for every request in flight.
THEOREM BudgetBound == Spec => []BudgetOvershoot
<1>1. TInv /\ BudgetInv => BudgetOvershoot
  <2> SUFFICES ASSUME TInv, BudgetInv, BudgetEnforced
               PROVE  cost <= BudgetCap - 1 + Cardinality(Calls) * MaxCost
    BY DEF BudgetOvershoot
  <2>1. Uncosted \in SUBSET Calls
    BY DEF Uncosted, Admitted
  <2>2. Cardinality(Uncosted) * MaxCost \in Nat /\ N * MaxCost \in Nat
    BY <2>1, CallCount, Allowance
  <2>3. cost \in Nat /\ BudgetCap \in Nat
    BY GatewayAssumption DEF TInv, TypeOK
  <2> QED BY <2>2, <2>3 DEF BudgetInv, N
<1> QED BY InitTInv, StepTInv, InitBudget, StepBudget, <1>1, PTL DEF Spec

----------------------------------------------------------------------------
(* Sums over calls *)

\* Without calls there is nothing to add up; the sum is a natural number.
LEMMA TotalType ==
  ASSUME NEW S \in SUBSET Calls, NEW most \in Nat, NEW size
  PROVE  /\ Total(S, size, most) \in Nat
         /\ Total({}, size, most) = 0
<1> DEFINE U(Q) == {u \in Q \X (1..most) : u[2] <= size[u[1]]}
<1>1. IsFiniteSet(S) /\ IsFiniteSet(1..most)
  BY CallCount, FS_Interval
<1>2. IsFiniteSet(U(S))
  <2>1. IsFiniteSet(S \X (1..most))
    BY <1>1, FS_Product
  <2> QED BY <2>1, FS_Subset
<1>3. U({}) = {}
  OBVIOUS
<1> QED BY <1>2, <1>3, FS_CardinalityType, FS_EmptySet DEF Total

\* Only the sizes of the calls that are added up matter.
LEMMA TotalSame ==
  ASSUME NEW S, NEW most, NEW size, NEW other, \A p \in S : other[p] = size[p]
  PROVE  Total(S, other, most) = Total(S, size, most)
<1>1. {u \in S \X (1..most) : u[2] <= other[u[1]]}
        = {u \in S \X (1..most) : u[2] <= size[u[1]]}
  OBVIOUS
<1> QED BY <1>1 DEF Total

\* Disjoint sets are counted apart.
LEMMA DisjointUnion ==
  ASSUME NEW A, NEW B, NEW C, IsFiniteSet(A), IsFiniteSet(B),
         C = A \cup B, A \cap B = {}
  PROVE  Cardinality(C) = Cardinality(A) + Cardinality(B)
<1>1. Cardinality(A \cap B) = 0
  BY FS_EmptySet
<1>2. Cardinality(A) \in Nat /\ Cardinality(B) \in Nat
  BY FS_CardinalityType
<1>3. Cardinality(A \cup B)
        = Cardinality(A) + Cardinality(B) - Cardinality(A \cap B)
  BY FS_Union
<1> QED BY <1>1, <1>2, <1>3

\* One more call adds its size.
LEMMA TotalAdd ==
  ASSUME NEW S \in SUBSET Calls, NEW p \in Calls \ S, NEW most \in Nat,
         NEW size \in [Calls -> 0..most]
  PROVE  Total(S \cup {p}, size, most) = Total(S, size, most) + size[p]
<1> DEFINE U(Q) == {u \in Q \X (1..most) : u[2] <= size[u[1]]}
           V == {p} \X (1..size[p])
<1>1. size[p] \in 0..most
  OBVIOUS
<1>2. U({p}) = V
  <2>1. \A k \in 1..most : k <= size[p] <=> k \in 1..size[p]
    BY <1>1
  <2>2. 1..size[p] \subseteq 1..most
    BY <1>1
  <2> QED BY <2>1, <2>2
<1>3. U(S \cup {p}) = U(S) \cup V /\ U(S) \cap V = {}
  <2>1. U(S \cup {p}) = U(S) \cup U({p})
    OBVIOUS
  <2> QED BY <1>2, <2>1
<1>4. IsFiniteSet(V) /\ Cardinality(V) = size[p]
  <2>1. IsFiniteSet(1..size[p]) /\ Cardinality(1..size[p]) = size[p]
    BY <1>1, FS_Interval
  <2>2. IsFiniteSet({p}) /\ Cardinality({p}) = 1
    BY FS_Singleton
  <2>3. IsFiniteSet(V) /\ Cardinality(V) = 1 * size[p]
    BY <2>1, <2>2, FS_Product
  <2> QED BY <1>1, <2>3
<1>5. IsFiniteSet(U(S))
  <2>1. IsFiniteSet(S) /\ IsFiniteSet(1..most)
    BY CallCount, FS_Interval
  <2>2. IsFiniteSet(S \X (1..most))
    BY <2>1, FS_Product
  <2> QED BY <2>2, FS_Subset
<1>6. Cardinality(U(S \cup {p})) = Cardinality(U(S)) + Cardinality(V)
  BY <1>3, <1>4, <1>5, DisjointUnion
<1> QED BY <1>4, <1>6 DEF Total

\* A call joins those that are added up, the others keep their sizes.
LEMMA TotalJoin ==
  ASSUME NEW S \in SUBSET Calls, NEW p \in Calls \ S, NEW most \in Nat, NEW size,
         NEW other \in [Calls -> 0..most], \A q \in S : other[q] = size[q]
  PROVE  Total(S \cup {p}, other, most) = Total(S, size, most) + other[p]
  BY TotalAdd, TotalSame

\* A call leaves those that are added up, the others keep their sizes.
LEMMA TotalLeave ==
  ASSUME NEW S \in SUBSET Calls, NEW p \in S, NEW most \in Nat, NEW other,
         NEW size \in [Calls -> 0..most], \A q \in S \ {p} : other[q] = size[q]
  PROVE  Total(S, size, most) = Total(S \ {p}, other, most) + size[p]
<1> DEFINE R == S \ {p}
<1>1. R \in SUBSET Calls /\ p \in Calls \ R /\ S = R \cup {p}
  OBVIOUS
<1>2. Total(R, other, most) = Total(R, size, most)
  BY TotalSame
<1> HIDE DEF R
<1> QED BY <1>1, <1>2, TotalAdd DEF R

\* Tokens and costs of the calls are within the largest and the dearest call's.
LEMMA CostsType == TypeOK => Costs \in [Calls -> 0..MaxCost]
<1> SUFFICES ASSUME TypeOK PROVE Costs \in [Calls -> 0..MaxCost]
  OBVIOUS
<1>1. \A p \in Calls : snap[p].req.cost \in 0..MaxCost
  BY CallType, GatewayAssumption
<1> QED BY <1>1 DEF Costs

\* The same after a step.
LEMMA NextSizes ==
  TypeOK' => /\ Sizes' \in [Calls -> 0..MaxTokens]
             /\ Costs' \in [Calls -> 0..MaxCost]
<1> SUFFICES ASSUME TypeOK'
             PROVE  /\ Sizes' \in [Calls -> 0..MaxTokens]
                    /\ Costs' \in [Calls -> 0..MaxCost]
  OBVIOUS
<1>1. ASSUME NEW p \in Calls
      PROVE  snap'[p].req.tokens \in 0..MaxTokens /\ snap'[p].req.cost \in 0..MaxCost
  <2>1. snap'[p].req \in Requests \cup {NoRequest}
    BY DEF TypeOK, Snaps
  <2> QED BY <2>1, RequestType, GatewayAssumption
<1> QED BY <1>1 DEF Sizes, Costs

----------------------------------------------------------------------------
(* Where a call stands *)

Early == {"lookup", "experiment", "cached_rules", "load_rules", "fill_cache",
          "decide", "record_block", "render", "execute", "persist"}

Final == {"count_tokens", "count_cost", "announce", "store"}

\* What the label of a call says of its phase, its verdict and its row: a call
\* that has gone past the commit has its row, unless an experiment or the
\* database kept it out.
Stage ==
  \A p \in Calls :
    /\ pc[p] # "idle" /\ snap[p].req.via = "log" => snap[p].phase = "log"
    /\ pc[p] = "execute" => snap[p].phase = "pre"
    /\ pc[p] \in {"lookup", "persist"} => snap[p].phase = "log"
    /\ pc[p] = "render" => snap[p].req.via = "alias"
    /\ pc[p] \in Early => ~snap[p].saved
    /\ pc[p] = "persist" /\ snap[p].verdict = "ab_test" =>
         snap[p].req.via = "alias"
    /\ pc[p] \in Final /\ ~snap[p].saved =>
         snap[p].req.via = "alias" \/ "db" \in Faults

\* A tenant without calls.
LEMMA InitStage == Init => Stage
  BY DEF Init, Stage, Early, Final

\* A verdict leads on, or back to the caller.
LEMMA ConcludeStage ==
  ASSUME TInv, Stage, NEW p \in Calls, NEW verdict \in Verdicts, Conclude(p, verdict),
         pc[p] \in Early, verdict = "ab_test" => snap[p].req.via = "alias"
  PROVE  Stage'
<1> DEFINE label == AfterVerdict(p, verdict)
<1>1. /\ label \in {"render", "record_block", "idle", "execute", "persist"}
      /\ label = "execute" => snap[p].phase = "pre"
      /\ label = "persist" => snap[p].phase = "log"
      /\ label = "render" => snap[p].req.via = "alias"
  <2>1. snap[p].phase \in Phases
    BY CallType DEF TInv, Snaps
  <2> QED BY <2>1 DEF AfterVerdict, Phases
<1> HIDE DEF label
<1>2. pc' = [pc EXCEPT ![p] = label]
  BY DEF Conclude, Goto, label
<1>3. label # "idle" => snap'[p] = [snap[p] EXCEPT !.verdict = verdict]
  BY DEF Conclude, label, TInv, TypeOK
<1>4. \A q \in Calls \ {p} : snap'[q] = snap[q]
  BY DEF Conclude, TInv, TypeOK
<1>5. label # "idle" =>
        /\ snap'[p].req = snap[p].req /\ snap'[p].phase = snap[p].phase
        /\ snap'[p].verdict = verdict /\ snap'[p].saved = snap[p].saved
  BY <1>3, CallType DEF TInv, Snaps
<1>6. pc \in [Calls -> Pcs]
  BY DEF TInv, TypeOK
<1> QED BY <1>1, <1>2, <1>4, <1>5, <1>6 DEF Stage, Early, Final

\* The stage of a call is kept, step by step.
LEMMA StepStage == TInv /\ Stage /\ [Next]_vars => Stage'
<1> SUFFICES ASSUME TInv, Stage, [Next]_vars PROVE Stage'
  OBVIOUS
<1>t. pc \in [Calls -> Pcs] /\ snap \in [Calls -> Snaps]
  BY DEF TInv, TypeOK
<1>s. \A p \in Calls : snap[p] \in Snaps
  BY <1>t
<1>1. ASSUME NEW p \in Calls, NEW req \in Requests, Start(p, req)
      PROVE  Stage'
  <2>1. PICK label \in FirstSteps(req) : Goto(p, label)
    BY <1>1 DEF Start
  <2>2. /\ label \in {"lookup", "experiment", "cached_rules", "execute"}
        /\ label = "execute" => req.via = "playground"
        /\ label = "lookup" => req.via = "log"
    BY GatewayAssumption DEF FirstSteps, RequestSet
  <2>3. /\ snap'[p].req = req /\ snap'[p].saved = FALSE
        /\ snap'[p].phase = IF req.via = "log" THEN "log" ELSE "pre"
    BY <1>1, <1>t DEF Start, NoSnap
  <2>4. pc' = [pc EXCEPT ![p] = label] /\ \A q \in Calls \ {p} : snap'[q] = snap[q]
    BY <1>1, <1>t, <2>1 DEF Start, Goto
  <2> QED BY <1>t, <2>2, <2>3, <2>4 DEF Stage, Early, Final
<1>2. ASSUME NEW p \in Calls, Return(p) PROVE Stage'
  BY <1>2, <1>t DEF Return, Stage, Early, Final
<1>3. ASSUME NEW p \in Calls, NEW from \in Early, NEW to \in Early,
             pc[p] = from, Goto(p, to), UNCHANGED snap,
             to \notin {"lookup", "persist", "execute", "render"}
      PROVE  Stage'
  BY <1>3, <1>t DEF Goto, Stage, Early, Final
<1>4. ASSUME NEW p \in Calls, LookupMiss(p) \/ CacheMiss(p) \/ FillCache(p)
      PROVE  Stage'
  BY <1>3, <1>4 DEF LookupMiss, CacheMiss, FillCache, Early, shared
<1>5. ASSUME NEW p \in Calls, Experiment(p) PROVE Stage'
  <2>1. CASE experiment
    BY <1>5, <2>1, ConcludeStage DEF Experiment, Early, Verdicts, TInv, Reads
  <2>2. CASE ~experiment
    BY <1>3, <1>5, <2>2 DEF Experiment, Early
  <2> QED BY <2>1, <2>2
<1>6. ASSUME NEW p \in Calls, CachedRules(p) \/ LoadRules(p) PROVE Stage'
  <2>1. /\ snap'[p].req = snap[p].req /\ snap'[p].phase = snap[p].phase
        /\ snap'[p].saved = snap[p].saved
        /\ \A q \in Calls \ {p} : snap'[q] = snap[q]
    BY <1>6, <1>t, <1>s DEF CachedRules, LoadRules, Snaps
  <2> QED BY <1>6, <1>t, <2>1 DEF CachedRules, LoadRules, Goto, Stage, Early, Final
<1>7. ASSUME NEW p \in Calls, Decide(p) PROVE Stage'
  <2>1. PICK verdict \in RuleVerdicts(snap[p]) : Conclude(p, verdict)
    BY <1>7 DEF Decide
  <2>2. verdict \in Verdicts /\ verdict # "ab_test"
    BY <2>1 DEF RuleVerdicts, Verdicts
  <2> QED BY <1>7, <2>1, <2>2, ConcludeStage DEF Decide, Early
<1>8. ASSUME NEW p \in Calls, Render(p) \/ Execute(p) PROVE Stage'
  <2>1. /\ snap'[p].req = snap[p].req /\ snap'[p].phase = "log"
        /\ snap'[p].saved = snap[p].saved
        /\ \A q \in Calls \ {p} : snap'[q] = snap[q]
    BY <1>8, <1>t, <1>s DEF Render, Execute, Snaps
  <2> QED BY <1>8, <1>t, <2>1 DEF Render, Execute, Goto, Stage, Early, Final
<1>9. ASSUME NEW p \in Calls, Persist(p) PROVE Stage'
  <2>1. /\ snap'[p].req = snap[p].req /\ snap'[p].phase = snap[p].phase
        /\ \A q \in Calls \ {p} : snap'[q] = snap[q]
    BY <1>9, <1>t, <1>s DEF Persist, Saved, NotSaved, Snaps
  <2>2. snap'[p].saved \/ snap[p].req.via = "alias" \/ "db" \in Faults
    BY <1>9, <1>t, <1>s DEF Persist, Saved, NotSaved, CanPersist, Snaps, Stage
  <2> QED BY <1>9, <1>t, <2>1, <2>2 DEF Persist, Goto, Stage, Early, Final
<1>10. ASSUME NEW p \in Calls,
              CountTokens(p) \/ CountCost(p) \/ CountFails(p) \/ Announce(p)
       PROVE  Stage'
  BY <1>10, <1>t DEF CountTokens, CountCost, CountFails, Announce, Goto, Stage,
                     Early, Final
<1>11. CASE Environment \/ UNCHANGED vars
  BY <1>11 DEF Environment, ChangeRules, RuleCacheExpires, AnswerExpires,
               ToggleExperiment, Midnight, vars, Stage
<1> QED
  BY <1>1, <1>2, <1>4, <1>5, <1>6, <1>7, <1>8, <1>9, <1>10, <1>11
     DEF Next, Proceed, LookupHit, Fail, RecordBlock, Store

----------------------------------------------------------------------------
(* Counters and log *)

\* What a call does to the log and to the counters when nothing fails: the
\* sums grow by its row when it is persisted, and by nothing else.
LEMMA LoggedMoves ==
  ASSUME TInv, Stage, Faults = {}, NEW p \in Calls, Proceed(p)
  PROVE  /\ pc[p] = "persist" =>
              /\ logged'.tokens = logged.tokens + snap[p].req.tokens
              /\ logged'.cost = logged.cost + snap[p].req.cost
         /\ pc[p] # "persist" => logged' = logged
         /\ pc[p] = "count_tokens" => CountTokens(p)
         /\ pc[p] = "count_cost" => CountCost(p)
<1> USE DEF shared
<1>1. CASE LookupHit(p) \/ Fail(p) \/ RecordBlock(p)
  BY <1>1 DEF LookupHit, Fail, RecordBlock
<1>2. CASE LookupMiss(p) \/ CachedRules(p) \/ CacheMiss(p) \/ LoadRules(p)
  BY <1>2 DEF LookupMiss, CachedRules, CacheMiss, LoadRules
<1>3. CASE Experiment(p) \/ Decide(p)
  BY <1>3 DEF Experiment, Decide, Conclude
<1>4. CASE FillCache(p) \/ Render(p) \/ Execute(p) \/ Announce(p) \/ Store(p)
  BY <1>4 DEF FillCache, Render, Execute, Announce, Store
<1>5. CASE CountTokens(p) \/ CountCost(p) \/ CountFails(p)
  BY <1>5 DEF CountTokens, CountCost, CountFails
<1>6. CASE Persist(p)
  <2>1. /\ logged \in [tokens : Nat, cost : Nat]
        /\ snap[p].req.tokens \in Nat /\ snap[p].req.cost \in Nat
        /\ snap[p].req.via = "alias" =>
             snap[p].req.tokens = 0 /\ snap[p].req.cost = 0
    BY CallType DEF TInv, TypeOK
  <2>2. CASE Saved(p)
    BY <1>6, <2>1, <2>2 DEF Persist, Saved
  <2>3. CASE NotSaved(p)
    <3>1. snap[p].req.via = "alias" /\ logged' = logged
      BY <1>6, <2>3 DEF Persist, NotSaved, CanPersist, Stage
    <3> QED BY <1>6, <2>1, <3>1 DEF Persist
  <2> QED BY <1>6, <2>2, <2>3 DEF Persist
<1> QED BY <1>1, <1>2, <1>3, <1>4, <1>5, <1>6 DEF Proceed

\* The counters and the calls on their way to them add up to the log.
LEMMA StepCounters ==
  ASSUME Faults = {}, ~Rollover, TInv, TInv', Stage, CountersMatchLog, [Next]_vars
  PROVE  CountersMatchLog'
<1>t. /\ Sizes \in [Calls -> 0..MaxTokens] /\ Sizes' \in [Calls -> 0..MaxTokens]
      /\ Costs \in [Calls -> 0..MaxCost] /\ Costs' \in [Calls -> 0..MaxCost]
      /\ MaxTokens \in Nat /\ MaxCost \in Nat
      /\ Booked \in SUBSET Calls /\ Priced \in SUBSET Calls
      /\ tokens \in Nat /\ cost \in Nat /\ tokens' \in Nat /\ cost' \in Nat
      /\ logged \in [tokens : Nat, cost : Nat]
  <2>1. Sizes' \in [Calls -> 0..MaxTokens] /\ Costs' \in [Calls -> 0..MaxCost]
    BY NextSizes DEF TInv
  <2> QED BY <2>1, SizesType, CostsType, GatewayAssumption
          DEF TInv, TypeOK, Booked, Priced
<1>n. /\ Total(Booked, Sizes, MaxTokens) \in Nat
      /\ Total(Priced, Costs, MaxCost) \in Nat
  BY <1>t, TotalType
<1>c. /\ tokens + Total(Booked, Sizes, MaxTokens) = logged.tokens
      /\ cost + Total(Priced, Costs, MaxCost) = logged.cost
  BY DEF CountersMatchLog
<1>1. ASSUME logged' = logged, SameCounters, Booked' = Booked, Priced' = Priced,
             \A q \in Priced : snap'[q].req = snap[q].req
      PROVE  CountersMatchLog'
  <2>1. \A q \in Booked : Sizes'[q] = Sizes[q]
    BY <1>1 DEF Booked, Priced, Sizes
  <2>2. \A q \in Priced : Costs'[q] = Costs[q]
    BY <1>1 DEF Priced, Costs
  <2>3. Total(Booked, Sizes', MaxTokens) = Total(Booked, Sizes, MaxTokens)
    BY <2>1, TotalSame
  <2>4. Total(Priced, Costs', MaxCost) = Total(Priced, Costs, MaxCost)
    BY <2>2, TotalSame
  <2> QED BY <1>1, <1>c, <2>3, <2>4 DEF CountersMatchLog, SameCounters
<1>2. ASSUME NEW p \in Calls, Proceed(p) PROVE CountersMatchLog'
  <2>m. Moves(p) /\ OthersStay(p)
    BY <1>2, ProceedMoves
  <2>l. /\ pc[p] = "persist" =>
             /\ logged'.tokens = logged.tokens + snap[p].req.tokens
             /\ logged'.cost = logged.cost + snap[p].req.cost
        /\ pc[p] # "persist" => logged' = logged
        /\ pc[p] = "count_tokens" => CountTokens(p)
        /\ pc[p] = "count_cost" => CountCost(p)
    BY <1>2, LoggedMoves
  <2>o. \A q \in Calls \ {p} : /\ pc'[q] = pc[q] /\ snap'[q] = snap[q]
                               /\ Sizes'[q] = Sizes[q] /\ Costs'[q] = Costs[q]
    BY <2>m DEF OthersStay, Sizes, Costs
  <2>1. CASE pc[p] \notin Late
    <3>1. SameCounters /\ pc'[p] \notin {"count_tokens", "count_cost"}
          /\ logged' = logged
      BY <2>1, <2>l, <2>m DEF Moves, Late
    <3>2. Booked' = Booked /\ Priced' = Priced /\ p \notin Priced
      BY <2>1, <2>o, <3>1 DEF Booked, Priced, Late
    <3> QED BY <1>1, <2>o, <3>1, <3>2 DEF Priced
  <2>2. CASE pc[p] = "persist"
    <3>1. SameCounters /\ pc'[p] = "count_tokens" /\ snap'[p].req = snap[p].req
      BY <2>2, <2>m DEF Moves, Late
    <3>2. /\ p \in Calls \ Booked /\ Booked' = Booked \cup {p}
          /\ p \in Calls \ Priced /\ Priced' = Priced \cup {p}
      BY <2>2, <2>o, <3>1 DEF Booked, Priced
    <3>3. Sizes'[p] = snap[p].req.tokens /\ Costs'[p] = snap[p].req.cost
      BY <3>1 DEF Sizes, Costs
    <3>4. Total(Booked', Sizes', MaxTokens)
            = Total(Booked, Sizes, MaxTokens) + snap[p].req.tokens
      BY <1>t, <2>o, <3>2, <3>3, TotalJoin
    <3>5. Total(Priced', Costs', MaxCost)
            = Total(Priced, Costs, MaxCost) + snap[p].req.cost
      BY <1>t, <2>o, <3>2, <3>3, TotalJoin
    <3>6. snap[p].req.tokens \in Nat /\ snap[p].req.cost \in Nat
      BY CallType DEF TInv
    <3> QED BY <1>t, <1>n, <1>c, <2>2, <2>l, <3>1, <3>4, <3>5, <3>6
            DEF CountersMatchLog, SameCounters
  <2>3. CASE pc[p] = "count_tokens"
    <3>1. /\ tokens' = tokens + Sizes[p] /\ cost' = cost /\ logged' = logged
          /\ pc'[p] = "count_cost" /\ snap' = snap
      BY <2>3, <2>l DEF CountTokens, Goto, Sizes, TInv, TypeOK
    <3>2. p \in Booked /\ Booked' = Booked \ {p} /\ Priced' = Priced
      BY <2>3, <2>o, <3>1 DEF Booked, Priced
    <3>3. Sizes' = Sizes /\ Costs' = Costs
      BY <3>1 DEF Sizes, Costs
    <3>4. Total(Booked, Sizes, MaxTokens)
            = Total(Booked', Sizes', MaxTokens) + Sizes[p]
      BY <1>t, <3>2, <3>3, TotalLeave
    <3>5. Total(Booked', Sizes', MaxTokens) \in Nat /\ Sizes[p] \in Nat
      BY <1>t, <3>2, TotalType
    <3> QED BY <1>t, <1>c, <3>1, <3>2, <3>3, <3>4, <3>5 DEF CountersMatchLog
  <2>4. CASE pc[p] = "count_cost"
    <3>1. /\ cost' = cost + Costs[p] /\ tokens' = tokens /\ logged' = logged
          /\ pc'[p] = "announce" /\ snap' = snap
      BY <2>4, <2>l DEF CountCost, Goto, Costs, TInv, TypeOK
    <3>2. p \in Priced /\ Priced' = Priced \ {p} /\ Booked' = Booked
      BY <2>4, <2>o, <3>1 DEF Booked, Priced
    <3>3. Sizes' = Sizes /\ Costs' = Costs
      BY <3>1 DEF Sizes, Costs
    <3>4. Total(Priced, Costs, MaxCost)
            = Total(Priced', Costs', MaxCost) + Costs[p]
      BY <1>t, <3>2, <3>3, TotalLeave
    <3>5. Total(Priced', Costs', MaxCost) \in Nat /\ Costs[p] \in Nat
      BY <1>t, <3>2, TotalType
    <3> QED BY <1>t, <1>c, <3>1, <3>2, <3>3, <3>4, <3>5 DEF CountersMatchLog
  <2> QED BY <2>1, <2>2, <2>3, <2>4 DEF Late
<1>3. ASSUME NEW p \in Calls, NEW req \in Requests, Start(p, req)
      PROVE  CountersMatchLog'
  <2>1. PICK label \in FirstSteps(req) : Goto(p, label)
    BY <1>3 DEF Start
  <2>2. label \in {"lookup", "experiment", "cached_rules", "execute"}
    BY GatewayAssumption DEF FirstSteps, RequestSet
  <2>3. Booked' = Booked /\ Priced' = Priced /\ p \notin Priced
    BY <1>3, <2>1, <2>2 DEF Start, Goto, TInv, TypeOK, Booked, Priced
  <2>4. \A q \in Calls \ {p} : snap'[q] = snap[q]
    BY <1>3 DEF Start, TInv, TypeOK
  <2> QED BY <1>1, <1>3, <2>3, <2>4 DEF Start, SameCounters, Priced
<1>4. CASE Environment \/ UNCHANGED vars
  <2>1. /\ logged' = logged /\ SameCounters /\ pc' = pc /\ snap' = snap
    BY <1>4 DEF Environment, ChangeRules, RuleCacheExpires, AnswerExpires,
                ToggleExperiment, Midnight, vars, SameCounters
  <2> QED BY <1>1, <2>1 DEF Booked, Priced
<1> QED BY <1>2, <1>3, <1>4 DEF Next

\* As long as nothing fails and the day lasts, the counters that the quota
\* rules read are the log's sums, but for the calls just committed: whatever
\* the rules, the experiments and the cached answers are.
THEOREM CountersAddUp ==
  Faults = {} /\ ~Rollover => (Spec => []CountersMatchLog)
<1> SUFFICES ASSUME Faults = {}, ~Rollover PROVE Spec => []CountersMatchLog
  OBVIOUS
<1>1. Init => CountersMatchLog
  <2> SUFFICES ASSUME Init PROVE CountersMatchLog
    OBVIOUS
  <2>1. Booked = {} /\ Priced = {}
    BY DEF Init, Booked, Priced
  <2>2. Total({}, Sizes, MaxTokens) = 0 /\ Total({}, Costs, MaxCost) = 0
    BY TotalType, GatewayAssumption
  <2> QED BY <2>1, <2>2 DEF Init, CountersMatchLog
<1>2. TInv /\ TInv' /\ Stage /\ CountersMatchLog /\ [Next]_vars => CountersMatchLog'
  BY StepCounters
<1> QED BY InitTInv, StepTInv, InitStage, StepStage, <1>1, <1>2, PTL DEF Spec

----------------------------------------------------------------------------
(* Every call has its row *)

\* What keeps a call that was made out of the log: a failing store, a rule
\* that blocks it after it was made, an answer found in the semantic cache.
Lossless ==
  /\ Faults = {}
  /\ \A rs \in RuleLists : \A i \in DOMAIN rs : Downgrades(rs[i])
  /\ \A req \in Requests : req.prompt = NoPrompt \/ req.via = "alias"

\* What a call has spent and the log does not show yet.
Due(p) == IF p \in Unsaved THEN Sizes[p] ELSE 0

\* Without a rule that blocks, nobody records a block.
Unblocked == \A p \in Calls : pc[p] # "record_block"

LEMMA StepUnblocked ==
  ASSUME Lossless, TInv, Unblocked, [Next]_vars
  PROVE  Unblocked'
<1>t. pc \in [Calls -> Pcs]
  BY DEF TInv, TypeOK
<1>1. ASSUME NEW p \in Calls, NEW label, Goto(p, label), label # "record_block"
      PROVE  Unblocked'
  BY <1>1, <1>t DEF Goto, Unblocked
<1>2. ASSUME NEW p \in Calls, Return(p) PROVE Unblocked'
  BY <1>2, <1>t DEF Return, Unblocked
<1>3. ASSUME NEW p \in Calls, NEW verdict, verdict # "block", Conclude(p, verdict)
      PROVE  Unblocked'
  <2>1. AfterVerdict(p, verdict) # "record_block"
    BY <1>3 DEF AfterVerdict
  <2> QED BY <1>1, <1>3, <2>1 DEF Conclude
<1>4. ASSUME NEW p \in Calls, Decide(p) PROVE Unblocked'
  <2>1. PICK verdict \in RuleVerdicts(snap[p]) : Conclude(p, verdict)
    BY <1>4 DEF Decide
  <2>2. snap[p].rules \in RuleLists
    BY <1>4 DEF Decide, TInv, Reads
  <2>3. ~Blocked(snap[p])
    BY <2>2 DEF Lossless, Blocked
  <2> QED BY <1>3, <2>1, <2>3 DEF RuleVerdicts
<1>5. ASSUME NEW p \in Calls, Experiment(p) PROVE Unblocked'
  BY <1>1, <1>3, <1>5 DEF Experiment
<1>6. ASSUME NEW p \in Calls, NEW req \in Requests, Start(p, req) PROVE Unblocked'
  <2>1. PICK label \in FirstSteps(req) : Goto(p, label)
    BY <1>6 DEF Start
  <2>2. label # "record_block"
    BY GatewayAssumption DEF FirstSteps, RequestSet
  <2> QED BY <1>1, <2>1, <2>2
<1>7. ASSUME NEW p \in Calls, LookupMiss(p) PROVE Unblocked'
  BY <1>1, <1>7 DEF LookupMiss
<1>8. CASE Environment \/ UNCHANGED vars
  BY <1>8 DEF Environment, ChangeRules, RuleCacheExpires, AnswerExpires,
              ToggleExperiment, Midnight, vars, Unblocked
<1> QED
  BY <1>1, <1>2, <1>4, <1>5, <1>6, <1>7, <1>8
     DEF Next, Proceed, LookupHit, CachedRules, CacheMiss, LoadRules, FillCache,
         Fail, RecordBlock, Render, Execute, Persist, CountTokens, CountCost,
         CountFails, Announce, Store

\* When one call moves, the sum changes by what that call contributes.
LEMMA TotalMoves ==
  ASSUME NEW S \in SUBSET Calls, NEW T \in SUBSET Calls, NEW p \in Calls,
         S \ {p} = T \ {p}, NEW most \in Nat,
         NEW size \in [Calls -> 0..most], NEW other \in [Calls -> 0..most],
         \A q \in Calls \ {p} : other[q] = size[q]
  PROVE  Total(T, other, most) + (IF p \in S THEN size[p] ELSE 0)
           = Total(S, size, most) + (IF p \in T THEN other[p] ELSE 0)
<1> DEFINE R == S \ {p}
<1>1. /\ R \in SUBSET Calls /\ p \in Calls \ R
      /\ IF p \in S THEN S = R \cup {p} ELSE S = R
      /\ IF p \in T THEN T = R \cup {p} ELSE T = R
      /\ \A q \in R : other[q] = size[q]
  OBVIOUS
<1> HIDE DEF R
<1>2. Total(R, other, most) = Total(R, size, most) /\ Total(R, size, most) \in Nat
  BY <1>1, TotalSame, TotalType
<1>3. Total(S, size, most)
        = Total(R, size, most) + (IF p \in S THEN size[p] ELSE 0)
  BY <1>1, <1>2, TotalAdd
<1>4. Total(T, other, most)
        = Total(R, other, most) + (IF p \in T THEN other[p] ELSE 0)
  BY <1>1, <1>2, TotalAdd
<1>5. size[p] \in Nat /\ other[p] \in Nat
  OBVIOUS
<1> QED BY <1>2, <1>3, <1>4, <1>5

\* A call that does not change its request, its phase or its row, owes what it
\* owed.
LEMMA DueSame ==
  ASSUME NEW p \in Calls, pc[p] # "idle", pc'[p] # "idle",
         snap'[p].req = snap[p].req, snap'[p].phase = snap[p].phase,
         snap'[p].saved = snap[p].saved
  PROVE  Due(p)' = Due(p)
  BY DEF Due, Unsaved, Sizes

\* Alias calls and idle requests owe nothing.
LEMMA DueNothing ==
  ASSUME TypeOK, NEW p \in Calls,
         \/ pc[p] = "idle" \/ snap[p].saved \/ snap[p].req.via = "alias"
         \/ snap[p].phase = "pre" /\ snap[p].req.via # "log"
  PROVE  Due(p) = 0
<1>1. snap[p].req.via = "alias" => Sizes[p] = 0
  BY CallType DEF Sizes
<1> QED BY <1>1 DEF Due, Unsaved

\* A request that returns has its row, or had nothing to log.
LEMMA ReturnDue ==
  ASSUME Lossless, TInv, Stage, Unblocked, NEW p \in Calls,
         LookupHit(p) \/ Fail(p) \/ RecordBlock(p) \/ Store(p)
  PROVE  Due(p) = 0 /\ Due(p)' = 0
<1>1. pc'[p] = "idle"
  BY DEF LookupHit, Fail, RecordBlock, Store, Return, TInv, TypeOK
<1>2. snap[p].saved \/ snap[p].req.via = "alias"
  <2>1. CASE LookupHit(p)
    <3>1. snap[p].req.prompt # NoPrompt
      BY <2>1 DEF LookupHit, SemanticHit
    <3>2. snap[p].req \in Requests
      BY <3>1, CallType DEF TInv, NoRequest
    <3> QED BY <3>1, <3>2 DEF Lossless
  <2>2. CASE Fail(p)
    BY <2>2 DEF Fail, Lossless, Stage
  <2>3. CASE RecordBlock(p)
    BY <2>3 DEF RecordBlock, Unblocked
  <2>4. CASE Store(p)
    BY <2>4 DEF Store, Stage, Final, Lossless
  <2> QED BY <2>1, <2>2, <2>3, <2>4
<1>3. Due(p) = 0
  BY <1>2, DueNothing DEF TInv
<1> QED BY <1>1, <1>3 DEF Due, Unsaved

\* A verdict makes a call end only before it has been made.
LEMMA ConcludeDue ==
  ASSUME TInv, Stage, NEW p \in Calls, pc[p] # "idle",
         NEW verdict, Conclude(p, verdict)
  PROVE  Due(p)' = Due(p)
<1> DEFINE label == AfterVerdict(p, verdict)
<1>1. pc'[p] = label
  BY DEF Conclude, Goto, TInv, TypeOK
<1>2. CASE label = "idle"
  <2>1. snap[p].phase = "pre" /\ snap[p].req.via # "log"
    BY <1>2 DEF AfterVerdict, Stage
  <2>2. Due(p) = 0
    BY <2>1, DueNothing DEF TInv
  <2>3. Due(p)' = 0
    BY <1>1, <1>2 DEF Due, Unsaved
  <2> QED BY <2>2, <2>3
<1>3. CASE label # "idle"
  <2>1. snap'[p] = [snap[p] EXCEPT !.verdict = verdict]
    BY <1>3 DEF Conclude, TInv, TypeOK
  <2>2. /\ snap'[p].req = snap[p].req /\ snap'[p].phase = snap[p].phase
        /\ snap'[p].saved = snap[p].saved
    BY <2>1, CallType DEF TInv, Snaps
  <2> QED BY <1>1, <1>3, <2>2, DueSame
<1> QED BY <1>2, <1>3

\* What a step of a call spends and what it logs.
Balanced(p) ==
  spent' + logged.tokens + Due(p) = spent + logged'.tokens + Due(p)'

\* What a call spends it owes to the log, and what it logs it has spent.
LEMMA ProceedDue ==
  ASSUME Lossless, TInv, TInv', Stage, Unblocked, NEW p \in Calls, Proceed(p)
  PROVE  Balanced(p)
<1>t. /\ spent \in Nat /\ logged.tokens \in Nat /\ snap[p] \in Snaps
      /\ snap \in [Calls -> Snaps] /\ pc \in [Calls -> Pcs]
      /\ Sizes[p] \in Nat /\ Sizes[p] = snap[p].req.tokens
      /\ snap[p].req.via = "alias" => Sizes[p] = 0
  BY CallType DEF TInv, TypeOK, Sizes
<1>d. Due(p) \in Nat
  BY <1>t DEF Due
<1>1. ASSUME spent' = spent, logged' = logged, Due(p)' = Due(p)
      PROVE  Balanced(p)
  BY <1>1 DEF Balanced
<1>2. CASE LookupHit(p) \/ Fail(p) \/ RecordBlock(p) \/ Store(p)
  <2>1. spent' = spent /\ logged' = logged
    BY <1>2 DEF LookupHit, Fail, RecordBlock, Store, shared
  <2> QED BY <1>1, <1>2, <2>1, ReturnDue
<1>3. CASE \/ LookupMiss(p) \/ CacheMiss(p) \/ FillCache(p) \/ CountTokens(p)
           \/ CountCost(p) \/ CountFails(p) \/ Announce(p)
  <2>1. /\ spent' = spent /\ logged' = logged /\ snap' = snap
        /\ pc[p] # "idle" /\ pc'[p] # "idle"
    BY <1>3, <1>t
       DEF LookupMiss, CacheMiss, FillCache, CountTokens, CountCost, CountFails,
           Announce, Goto, shared
  <2> QED BY <1>1, <2>1, DueSame
<1>4. CASE CachedRules(p) \/ LoadRules(p)
  <2>1. /\ spent' = spent /\ logged' = logged /\ pc[p] # "idle" /\ pc'[p] # "idle"
    BY <1>4, <1>t DEF CachedRules, LoadRules, Goto, shared
  <2>2. /\ snap'[p].req = snap[p].req /\ snap'[p].phase = snap[p].phase
        /\ snap'[p].saved = snap[p].saved
    BY <1>4, <1>t DEF CachedRules, LoadRules, Snaps
  <2> QED BY <1>1, <2>1, <2>2, DueSame
<1>c. ASSUME NEW verdict, pc[p] # "idle", Conclude(p, verdict) PROVE Balanced(p)
  BY <1>1, <1>c, ConcludeDue DEF Conclude, shared
<1>5. CASE Decide(p)
  BY <1>5, <1>c DEF Decide
<1>6. CASE Render(p)
  <2>1. /\ spent' = spent /\ logged' = logged /\ snap'[p].req = snap[p].req
    BY <1>6, <1>t DEF Render, shared, Snaps
  <2>2. snap[p].req.via = "alias"
    BY <1>6 DEF Render, Stage
  <2> QED BY <1>1, <1>t, <2>1, <2>2 DEF Due, Sizes
<1>7. CASE Execute(p)
  <2>1. /\ spent' = spent + snap[p].req.tokens /\ logged' = logged
        /\ pc'[p] = "lookup" /\ snap'[p].req = snap[p].req
        /\ snap'[p].phase = "log" /\ snap'[p].saved = snap[p].saved
    BY <1>7, <1>t DEF Execute, Goto, Snaps
  <2>2. snap[p].phase = "pre" /\ snap[p].req.via # "log" /\ ~snap[p].saved
    BY <1>7 DEF Execute, Stage, Early
  <2>3. Due(p) = 0
    BY <2>2, DueNothing DEF TInv
  <2>4. Due(p)' = snap[p].req.tokens
    BY <2>1, <2>2 DEF Due, Unsaved, Sizes
  <2> QED BY <1>t, <2>1, <2>3, <2>4 DEF Balanced
<1>8. CASE Persist(p)
  <2>1. /\ spent' = spent /\ pc[p] = "persist"
        /\ logged'.tokens = logged.tokens + snap[p].req.tokens
        /\ snap'[p].req = snap[p].req
        /\ snap'[p].saved \/ snap[p].req.via = "alias"
    <3>1. logged'.tokens = logged.tokens + snap[p].req.tokens /\ pc[p] = "persist"
      BY <1>8, LoggedMoves DEF Lossless, Proceed, Persist
    <3>2. snap'[p].req = snap[p].req
      BY <1>8, <1>t DEF Persist, Saved, NotSaved, Snaps
    <3>3. snap'[p].saved \/ snap[p].req.via = "alias"
      BY <1>8, <1>t DEF Persist, Saved, NotSaved, CanPersist, Lossless, Stage, Snaps
    <3> QED BY <1>8, <3>1, <3>2, <3>3 DEF Persist
  <2>2. Due(p) = snap[p].req.tokens
    BY <1>t, <2>1 DEF Due, Unsaved, Stage, Early
  <2>3. Due(p)' = 0
    BY <1>t, <2>1 DEF Due, Unsaved, Sizes
  <2> QED BY <1>t, <2>1, <2>2, <2>3 DEF Balanced
<1>9. CASE Experiment(p)
  <2>1. CASE experiment
    BY <1>9, <1>c, <2>1 DEF Experiment
  <2>2. CASE ~experiment
    <3>1. /\ spent' = spent /\ logged' = logged /\ snap' = snap
          /\ pc[p] # "idle" /\ pc'[p] # "idle"
      BY <1>9, <1>t, <2>2 DEF Experiment, Goto, shared
    <3> QED BY <1>1, <3>1, DueSame
  <2> QED BY <2>1, <2>2
<1> QED BY <1>2, <1>3, <1>4, <1>5, <1>6, <1>7, <1>8, <1>9 DEF Proceed

\* What the providers served is in the log or on its way there, step by step.
LEMMA StepLogged ==
  ASSUME Lossless, TInv, TInv', Stage, Unblocked, EveryCallLogged, [Next]_vars
  PROVE  EveryCallLogged'
<1>t. /\ Sizes \in [Calls -> 0..MaxTokens] /\ Sizes' \in [Calls -> 0..MaxTokens]
      /\ MaxTokens \in Nat /\ spent \in Nat /\ spent' \in Nat
      /\ logged.tokens \in Nat /\ logged'.tokens \in Nat
      /\ Unsaved \in SUBSET Calls /\ Unsaved' \in SUBSET Calls
  BY SizesType, NextSizes, GatewayAssumption DEF TInv, TypeOK, Unsaved
<1>1. ASSUME NEW p \in Calls, OthersStay(p), Balanced(p)
      PROVE  EveryCallLogged'
  <2>1. \A q \in Calls \ {p} : Sizes'[q] = Sizes[q]
    BY <1>1 DEF OthersStay, Sizes
  <2>2. Unsaved \ {p} = Unsaved' \ {p}
    BY <1>1 DEF OthersStay, Unsaved
  <2>3. Total(Unsaved', Sizes', MaxTokens) + Due(p)
          = Total(Unsaved, Sizes, MaxTokens) + Due(p)'
    BY <1>t, <2>1, <2>2, TotalMoves DEF Due
  <2>4. /\ Total(Unsaved, Sizes, MaxTokens) \in Nat
        /\ Total(Unsaved', Sizes', MaxTokens) \in Nat
    BY <1>t, TotalType
  <2>5. Due(p) \in Nat /\ Due(p)' \in Nat
    BY <1>t DEF Due
  <2> QED BY <1>t, <1>1, <2>3, <2>4, <2>5 DEF Balanced, EveryCallLogged
<1>2. ASSUME NEW p \in Calls, Proceed(p) PROVE EveryCallLogged'
  BY <1>1, <1>2, ProceedMoves, ProceedDue
<1>3. ASSUME NEW p \in Calls, NEW req \in Requests, Start(p, req)
      PROVE  EveryCallLogged'
  <2>1. PICK label \in FirstSteps(req) : Goto(p, label)
    BY <1>3 DEF Start
  <2>2. label # "idle"
    BY GatewayAssumption DEF FirstSteps, RequestSet
  <2>3. /\ OthersStay(p) /\ logged' = logged /\ pc[p] = "idle" /\ pc'[p] = label
        /\ spent' = IF req.via = "log" THEN spent + req.tokens ELSE spent
        /\ snap'[p].req = req /\ ~snap'[p].saved
        /\ snap'[p].phase = IF req.via = "log" THEN "log" ELSE "pre"
    BY <1>3, <2>1 DEF Start, Goto, OthersStay, NoSnap, TInv, TypeOK
  <2>4. Due(p) = 0
    BY <2>3, DueNothing DEF TInv
  <2>5. Due(p)' = IF req.via = "log" THEN req.tokens ELSE 0
    BY <2>2, <2>3 DEF Due, Unsaved, Sizes
  <2>6. req.tokens \in Nat
    BY RequestType
  <2> QED BY <1>1, <1>t, <2>3, <2>4, <2>5, <2>6 DEF Balanced
<1>4. CASE Environment \/ UNCHANGED vars
  <2>1. logged' = logged /\ spent' = spent /\ pc' = pc /\ snap' = snap
    BY <1>4 DEF Environment, ChangeRules, RuleCacheExpires, AnswerExpires,
                ToggleExperiment, Midnight, vars
  <2>2. Unsaved' = Unsaved /\ Sizes' = Sizes
    BY <2>1 DEF Unsaved, Sizes
  <2> QED BY <2>1, <2>2 DEF EveryCallLogged
<1> QED BY <1>2, <1>3, <1>4 DEF Next

\* Every token that the providers served is in the log or on its way there, if
\* nothing fails, no rule blocks, and no prompt is answered from the cache: for
\* any number of calls through all three endpoints and running experiments.
THEOREM CallsLogged == Lossless => (Spec => []EveryCallLogged)
<1> SUFFICES ASSUME Lossless PROVE Spec => []EveryCallLogged
  OBVIOUS
<1>1. Init => EveryCallLogged /\ Unblocked
  <2> SUFFICES ASSUME Init PROVE EveryCallLogged /\ Unblocked
    OBVIOUS
  <2>1. Unsaved = {} /\ Unblocked
    BY DEF Init, Unsaved, Unblocked
  <2>2. Total({}, Sizes, MaxTokens) = 0
    BY TotalType, GatewayAssumption
  <2> QED BY <2>1, <2>2 DEF Init, EveryCallLogged
<1>2. TInv /\ Unblocked /\ [Next]_vars => Unblocked'
  BY StepUnblocked
<1>3. TInv /\ TInv' /\ Stage /\ Unblocked /\ EveryCallLogged /\ [Next]_vars
        => EveryCallLogged'
  BY StepLogged
<1> QED BY InitTInv, StepTInv, InitStage, StepStage, <1>1, <1>2, <1>3, PTL DEF Spec

----------------------------------------------------------------------------
(* The cached rules, once the rules rest *)

\* Neither the cache nor a request about to fill it holds an outdated list.
Fresh ==
  /\ ruleCache \subseteq {rules}
  /\ \A p \in Calls : pc[p] = "fill_cache" => snap[p].rules = rules

\* A step that leaves the rules alone leaves the cached list up to date.
LEMMA FreshStep == TInv /\ Fresh /\ [Next]_vars /\ UNCHANGED rules => Fresh'
<1> SUFFICES ASSUME TInv, Fresh, [Next]_vars, UNCHANGED rules PROVE Fresh'
  OBVIOUS
<1>t. /\ pc \in [Calls -> Pcs] /\ snap \in [Calls -> Snaps]
      /\ \A p \in Calls : snap[p] \in Snaps
  BY DEF TInv, TypeOK
<1>1. ASSUME NEW p \in Calls, OthersStay(p), ruleCache' = ruleCache,
             pc'[p] = "fill_cache" => snap'[p].rules = rules
      PROVE  Fresh'
  BY <1>1 DEF Fresh, OthersStay
<1>2. ASSUME NEW p \in Calls, \E v \in Verdicts : Conclude(p, v)
      PROVE  pc'[p] # "fill_cache" /\ ruleCache' = ruleCache
  BY <1>2, <1>t DEF Conclude, Goto, AfterVerdict, shared
<1>3. ASSUME NEW p \in Calls, Proceed(p), ~FillCache(p) PROVE Fresh'
  <2>1. CASE LoadRules(p)
    BY <1>1, <1>3, <1>t, <2>1, ProceedMoves DEF LoadRules, Goto, shared, Snaps
  <2>2. CASE Decide(p) \/ Experiment(p)
    <3>1. pc'[p] # "fill_cache" /\ ruleCache' = ruleCache
      <4>1. CASE Decide(p)
        BY <1>2, <4>1 DEF Decide, RuleVerdicts, Verdicts
      <4>2. CASE Experiment(p)
        BY <1>2, <1>t, <4>2 DEF Experiment, Verdicts, Goto, shared
      <4> QED BY <2>2, <4>1, <4>2
    <3> QED BY <1>1, <1>3, <3>1, ProceedMoves
  <2>3. CASE \/ LookupHit(p) \/ LookupMiss(p) \/ CachedRules(p) \/ CacheMiss(p)
             \/ Fail(p) \/ RecordBlock(p) \/ Render(p) \/ Execute(p) \/ Persist(p)
    <3>1. pc'[p] # "fill_cache" /\ ruleCache' = ruleCache
      BY <1>t, <2>3
         DEF LookupHit, LookupMiss, CachedRules, CacheMiss, Fail, RecordBlock,
             Render, Execute, Persist, Return, Goto, shared
    <3> QED BY <1>1, <1>3, <3>1, ProceedMoves
  <2>4. CASE \/ CountTokens(p) \/ CountCost(p) \/ CountFails(p) \/ Announce(p)
             \/ Store(p)
    <3>1. pc'[p] # "fill_cache" /\ ruleCache' = ruleCache
      BY <1>t, <2>4
         DEF CountTokens, CountCost, CountFails, Announce, Store, Return, Goto,
             shared
    <3> QED BY <1>1, <1>3, <3>1, ProceedMoves
  <2> QED BY <1>3, <2>1, <2>2, <2>3, <2>4 DEF Proceed
<1>4. ASSUME NEW p \in Calls, FillCache(p) PROVE Fresh'
  BY <1>4, <1>t DEF FillCache, Goto, Fresh
<1>5. ASSUME NEW p \in Calls, NEW req \in Requests, Start(p, req) PROVE Fresh'
  <2>1. PICK label \in FirstSteps(req) : Goto(p, label)
    BY <1>5 DEF Start
  <2>2. label # "fill_cache"
    BY GatewayAssumption DEF FirstSteps, RequestSet
  <2>3. OthersStay(p) /\ pc'[p] # "fill_cache" /\ ruleCache' = ruleCache
    BY <1>5, <1>t, <2>1, <2>2 DEF Start, Goto, OthersStay
  <2> QED BY <1>1, <2>3
<1>6. CASE Environment \/ UNCHANGED vars
  BY <1>6 DEF Environment, ChangeRules, RuleCacheExpires, AnswerExpires,
              ToggleExperiment, Midnight, vars, Fresh
<1> QED BY <1>3, <1>4, <1>5, <1>6 DEF Next

\* Once the cached list has expired and the requests that had read an older
\* list are gone, no request brings an outdated list back, as long as the
\* administrators leave the rules alone: what remains of StaleRulesGo is that
\* the time to live runs out.
THEOREM FreshStays == Spec => [](Fresh /\ [][UNCHANGED rules]_vars => []Fresh)
<1>1. TInv /\ Fresh /\ [Next]_vars /\ [UNCHANGED rules]_vars => Fresh'
  BY FreshStep DEF vars
<1> QED BY InitTInv, StepTInv, <1>1, PTL DEF Spec
============================================================================
