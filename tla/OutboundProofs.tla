--------------------------- MODULE OutboundProofs ---------------------------
(***************************************************************************)
(* Proofs about Outbound, for any calls, workers, providers, models,       *)
(* chains, prompts and ids.  The two halves share no variable, so each has *)
(* an inductive invariant of its own.                                      *)
(***************************************************************************)
EXTENDS Outbound, TLAPS

----------------------------------------------------------------------------
(* The breaker.                                                            *)

\* The provider a call is at, as one try that its worker has not heard of.
Pending(c, p) ==
  IF call[c].state \in {"calling", "failed"} /\ ProviderOf[call[c].model] = p THEN 1 ELSE 0

\* A call in progress has a model; one that has not begun has no history.
CallShape ==
  \A c \in Calls : call[c].state \in {"calling", "failed", "served"} => call[c].model \in Models

\* What a call's only worker has sent it to, it has counted as failures, but
\* for the try in progress; and a cooldown that is over starts from nothing.
TriesCounted ==
  \A c \in Calls, w \in Workers, p \in Providers :
    via[c] \subseteq {w} =>
      /\ sent[c][p] <= failures[w][p] + Pending(c, p)
      /\ sent[c][p] <= FailureThreshold
      /\ cooldown[w][p] = "over" => sent[c][p] = 0

HealthInv == HealthTypeOK /\ BreakerConsistent /\ CallShape /\ TriesCounted

LEMMA ChainMembers ==
  ASSUME NEW m \in Models, NEW i \in DOMAIN Chain[m]
  PROVE  /\ i \in Nat
         /\ Chain[m][i] \in Models
         /\ ProviderOf[Chain[m][i]] \in ChainProviders(m)
         /\ ProviderOf[Chain[m][i]] \in Providers
<1>1. Chain[m] \in Seq(Models) /\ ProviderOf \in [Models -> Providers]
  BY HealthAssumption
<1>2. i \in Nat /\ Chain[m][i] \in Models
  BY <1>1
<1> QED BY <1>1, <1>2 DEF ChainProviders

\* The memory of a worker after a report: what is left of one provider.
LEMMA RecordedMemory ==
  ASSUME HealthInv, NEW c \in Calls, NEW w \in Workers, call[c].state = "failed", Recorded(c, w),
         NEW p \in Providers
  PROVE  /\ ProviderOf[call[c].model] \in Providers
         /\ failures'[w][p] \in 0..FailureThreshold
         /\ cooldown'[w][p] \in {"none", "running", "over"}
         /\ p = ProviderOf[call[c].model] =>
              /\ failures'[w][p] = Counted(failures[w][p])
              /\ cooldown'[w][p] # "over"
         /\ p # ProviderOf[call[c].model] =>
              \/ failures'[w][p] = failures[w][p] /\ cooldown'[w][p] = cooldown[w][p]
              \/ failures'[w][p] = 0 /\ cooldown'[w][p] = "none" /\ cooldown[w][p] = "over"
         /\ (cooldown'[w][p] # "none") <=> (failures'[w][p] = FailureThreshold)
         /\ \A v \in Workers \ {w} : failures'[v] = failures[v] /\ cooldown'[v] = cooldown[v]
<1> DEFINE q == ProviderOf[call[c].model]
           deadlines == DeadlinesAfter(w, q)
           counts == CountsAfter(w, q)
           gone == Lapsed(deadlines) \cap ChainProviders(call[c].model)
<1>1. FailureThreshold \in Nat \ {0} /\ q \in Providers
  BY HealthAssumption DEF HealthInv, CallShape
<1>2. /\ failures'[w][p] = IF p \in gone THEN 0 ELSE counts[p]
      /\ cooldown'[w][p] = IF p \in gone THEN "none" ELSE deadlines[p]
      /\ \A v \in Workers \ {w} : failures'[v] = failures[v] /\ cooldown'[v] = cooldown[v]
  BY DEF Recorded, Forget, HealthInv, HealthTypeOK
<1>3. /\ failures[w][p] \in 0..FailureThreshold
      /\ cooldown[w][p] \in {"none", "running", "over"}
      /\ (cooldown[w][p] # "none") <=> (failures[w][p] = FailureThreshold)
  BY DEF HealthInv, HealthTypeOK, BreakerConsistent
<1>4. counts[p] = IF p = q THEN Counted(failures[w][p]) ELSE failures[w][p]
  BY <1>1 DEF CountsAfter, HealthInv, HealthTypeOK
<1>5. deadlines[p] = IF p = q /\ Counted(failures[w][p]) >= FailureThreshold
                     THEN "running" ELSE cooldown[w][p]
  <2>1. counts[q] = Counted(failures[w][q])
    BY <1>1 DEF CountsAfter, HealthInv, HealthTypeOK
  <2> QED BY <1>1, <2>1 DEF DeadlinesAfter, HealthInv, HealthTypeOK
<1>6. Counted(failures[w][p]) \in 0..FailureThreshold
  BY <1>1, <1>3 DEF Counted
<1>7. p \in gone => deadlines[p] = "over"
  BY DEF Lapsed
<1>8. p = q => p \notin gone /\ deadlines[p] # "over"
  BY <1>1, <1>3, <1>5, <1>7 DEF Counted
<1>9. CASE p = q
  BY <1>1, <1>2, <1>3, <1>4, <1>5, <1>6, <1>8, <1>9 DEF Counted
<1>10. CASE p # q
  BY <1>1, <1>2, <1>3, <1>4, <1>5, <1>7, <1>10
<1> QED BY <1>9, <1>10

\* A report leaves TriesCounted true of every call that it does not move, and
\* of the reporting call if the failed try is no longer pending.
LEMMA ReportKeepsTries ==
  ASSUME HealthInv, NEW c \in Calls, NEW w \in Workers, call[c].state = "failed", Recorded(c, w),
         NEW d \in Calls, NEW v \in Workers, NEW p \in Providers, via[d] \subseteq {v}
  PROVE  /\ cooldown'[v][p] = "over" => sent[d][p] = 0
         /\ sent[d][p] <= failures'[v][p] + Pending(d, p)
         /\ sent[d][p] <= FailureThreshold
         /\ d = c => sent[d][p] <= failures'[v][p] \/ v # w
<1>1. /\ sent[d][p] \in Nat
      /\ sent[d][p] <= failures[v][p] + Pending(d, p)
      /\ sent[d][p] <= FailureThreshold
      /\ cooldown[v][p] = "over" => sent[d][p] = 0
      /\ failures[v][p] \in 0..FailureThreshold
      /\ FailureThreshold \in Nat
      /\ Pending(d, p) \in {0, 1}
  BY HealthAssumption DEF HealthInv, HealthTypeOK, TriesCounted, Pending, MaxTries
<1>2. CASE v # w
  <2>1. failures'[v] = failures[v] /\ cooldown'[v] = cooldown[v]
    BY <1>2, RecordedMemory
  <2> QED BY <1>1, <1>2, <2>1
<1>3. CASE v = w
  <2>1. CASE p = ProviderOf[call[c].model]
    <3>1. failures'[w][p] = Counted(failures[w][p]) /\ cooldown'[w][p] # "over"
      BY <2>1, RecordedMemory
    <3>2. sent[d][p] <= Counted(failures[w][p]) /\ Counted(failures[w][p]) \in Nat
      BY <1>1, <1>3 DEF Counted
    <3> QED BY <1>1, <1>3, <3>1, <3>2
  <2>2. CASE p # ProviderOf[call[c].model]
    <3>1. \/ failures'[w][p] = failures[w][p] /\ cooldown'[w][p] = cooldown[w][p]
          \/ failures'[w][p] = 0 /\ cooldown'[w][p] = "none" /\ cooldown[w][p] = "over"
      BY <2>2, RecordedMemory
    <3>2. d = c => Pending(d, p) = 0
      BY <2>2 DEF Pending
    <3> QED BY <1>1, <1>3, <3>1, <3>2
  <2> QED BY <2>1, <2>2
<1> QED BY <1>2, <1>3

LEMMA RecordedTypes ==
  ASSUME HealthInv, NEW c \in Calls, NEW w \in Workers, call[c].state = "failed", Recorded(c, w)
  PROVE  /\ failures' \in [Workers -> [Providers -> 0..FailureThreshold]]
         /\ cooldown' \in [Workers -> [Providers -> {"none", "running", "over"}]]
         /\ BreakerConsistent'
<1>1. /\ failures'[w] \in [Providers -> 0..FailureThreshold]
      /\ cooldown'[w] \in [Providers -> {"none", "running", "over"}]
  <2>1. /\ DOMAIN failures'[w] = Providers /\ DOMAIN cooldown'[w] = Providers
        /\ failures'[w] = [p \in Providers |-> failures'[w][p]]
        /\ cooldown'[w] = [p \in Providers |-> cooldown'[w][p]]
    BY DEF Recorded, Forget, HealthInv, HealthTypeOK
  <2>2. \A p \in Providers : /\ failures'[w][p] \in 0..FailureThreshold
                             /\ cooldown'[w][p] \in {"none", "running", "over"}
    BY RecordedMemory
  <2> QED BY <2>1, <2>2
<1>2. /\ failures' = [failures EXCEPT ![w] = failures'[w]]
      /\ cooldown' = [cooldown EXCEPT ![w] = cooldown'[w]]
  BY DEF Recorded, Forget, HealthInv, HealthTypeOK
<1>3. BreakerConsistent'
  <2> SUFFICES ASSUME NEW v \in Workers, NEW p \in Providers
               PROVE  (cooldown'[v][p] # "none") <=> (failures'[v][p] = FailureThreshold)
    BY DEF BreakerConsistent
  <2>1. CASE v = w
    BY <2>1, RecordedMemory
  <2>2. CASE v # w
    <3>1. failures'[v] = failures[v] /\ cooldown'[v] = cooldown[v]
      BY <2>2, RecordedMemory
    <3> QED BY <3>1 DEF HealthInv, BreakerConsistent
  <2> QED BY <2>1, <2>2
<1> QED BY <1>1, <1>2, <1>3 DEF HealthInv, HealthTypeOK

\* A call that ends takes its history with it and is at no provider.
LEMMA EndKeeps ==
  ASSUME HealthInv, NEW c \in Calls, NEW m \in Models \cup {Nothing},
         NEW state \in Ended, End(c, state, m), state = "served" => m \in Models
  PROVE  /\ call' \in [Calls -> [state : States, model : Models \cup {Nothing}]]
         /\ via' \in [Calls -> SUBSET Workers]
         /\ sent' \in [Calls -> [Providers -> 0..MaxTries]]
         /\ CallShape'
         /\ \A p \in Providers : sent'[c][p] = 0
         /\ \A d \in Calls \ {c} : via'[d] = via[d] /\ sent'[d] = sent[d] /\ call'[d] = call[d]
<1>1. NoTries \in [Providers -> 0..MaxTries]
  BY HealthAssumption DEF NoTries, MaxTries
<1>2. [state |-> state, model |-> m] \in [state : States, model : Models \cup {Nothing}]
  BY DEF Ended, States
<1> QED BY <1>1, <1>2 DEF End, HealthInv, HealthTypeOK, CallShape, NoTries, Ended

LEMMA HealthInitInv == HealthInit => HealthInv
<1> SUFFICES ASSUME HealthInit PROVE HealthInv
  OBVIOUS
<1>1. FailureThreshold \in Nat \ {0}
  BY HealthAssumption
<1>2. HealthTypeOK
  BY <1>1 DEF HealthInit, HealthTypeOK, NoTries, MaxTries, States
<1>3. BreakerConsistent
  BY <1>1 DEF HealthInit, BreakerConsistent
<1>4. CallShape
  BY DEF HealthInit, CallShape
<1>5. TriesCounted
  BY <1>1 DEF HealthInit, TriesCounted, Pending, NoTries
<1> QED BY <1>2, <1>3, <1>4, <1>5 DEF HealthInv

\* A step that leaves the workers alone and ends one call.
LEMMA EndInv ==
  ASSUME HealthInv, NEW c \in Calls, NEW m \in Models \cup {Nothing},
         NEW state \in Ended, End(c, state, m), state = "served" => m \in Models,
         UNCHANGED <<failures, cooldown>>
  PROVE  HealthInv'
<1>1. /\ call' \in [Calls -> [state : States, model : Models \cup {Nothing}]]
      /\ via' \in [Calls -> SUBSET Workers]
      /\ sent' \in [Calls -> [Providers -> 0..MaxTries]]
      /\ CallShape'
      /\ \A p \in Providers : sent'[c][p] = 0
      /\ \A d \in Calls \ {c} : via'[d] = via[d] /\ sent'[d] = sent[d] /\ call'[d] = call[d]
  BY EndKeeps
<1>2. HealthTypeOK' /\ BreakerConsistent'
  BY <1>1 DEF HealthInv, HealthTypeOK, BreakerConsistent
<1>3. TriesCounted'
  <2> SUFFICES ASSUME NEW d \in Calls, NEW w \in Workers, NEW p \in Providers, via'[d] \subseteq {w}
               PROVE  /\ sent'[d][p] <= failures'[w][p] + Pending(d, p)'
                      /\ sent'[d][p] <= FailureThreshold
                      /\ cooldown'[w][p] = "over" => sent'[d][p] = 0
    BY DEF TriesCounted
  <2>1. CASE d = c
    <3>1. failures'[w][p] \in Nat /\ Pending(d, p)' \in {0, 1} /\ FailureThreshold \in Nat
      BY <1>2, HealthAssumption DEF HealthTypeOK, Pending
    <3> QED BY <1>1, <2>1, <3>1
  <2>2. CASE d # c
    <3>1. Pending(d, p)' = Pending(d, p)
      BY <1>1, <2>2 DEF Pending
    <3> QED BY <1>1, <2>2, <3>1 DEF HealthInv, TriesCounted
  <2> QED BY <2>1, <2>2
<1> QED BY <1>1, <1>2, <1>3 DEF HealthInv

\* A step that changes only where calls are in their progress.
LEMMA ProgressInv ==
  ASSUME HealthInv, UNCHANGED <<failures, cooldown, via, sent>>,
         NEW c \in Calls, NEW m \in Models, NEW state \in {"calling", "failed"},
         call' = [call EXCEPT ![c] = [state |-> state, model |-> m]],
         \/ call[c].state = "calling" /\ call[c].model = m
         \/ call[c].state \in Ended
  PROVE  HealthInv'
<1>1. HealthTypeOK' /\ BreakerConsistent' /\ CallShape'
  BY DEF HealthInv, HealthTypeOK, BreakerConsistent, CallShape, States, Ended
<1>2. \A d \in Calls, p \in Providers : Pending(d, p) <= Pending(d, p)'
  BY DEF HealthInv, HealthTypeOK, Pending, Ended
<1>3. TriesCounted'
  <2> SUFFICES ASSUME NEW d \in Calls, NEW w \in Workers, NEW p \in Providers, via[d] \subseteq {w}
               PROVE  sent[d][p] <= failures[w][p] + Pending(d, p)'
    BY DEF TriesCounted, HealthInv
  <2>1. /\ sent[d][p] \in Nat /\ failures[w][p] \in Nat
        /\ Pending(d, p) \in Nat /\ Pending(d, p)' \in Nat
        /\ sent[d][p] <= failures[w][p] + Pending(d, p)
    BY HealthAssumption DEF HealthInv, HealthTypeOK, TriesCounted, Pending, MaxTries
  <2> QED BY <1>2, <2>1
<1> QED BY <1>1, <1>3 DEF HealthInv

\* The history of a report, whether it sends the call on (to a set of
\* providers) or not.
LEMMA ReportHistory ==
  ASSUME HealthInv, NEW c \in Calls, NEW w \in Workers, NEW to, Reported(c, w, to)
  PROVE  /\ via' \in [Calls -> SUBSET Workers]
         /\ sent' \in [Calls -> [Providers -> 0..MaxTries]]
         /\ \A d \in Calls \ {c} : via'[d] = via[d] /\ sent'[d] = sent[d]
         /\ \A v \in Workers, p \in Providers : via'[c] \subseteq {v} =>
              /\ v = w
              /\ via[c] \subseteq {w}
              /\ p \notin to => sent'[c][p] = sent[c][p]
              /\ p \in to => sent'[c][p] = sent[c][p] + 1
<1> DEFINE again == [p \in Providers |-> IF p \in to /\ sent[c][p] < MaxTries
                                         THEN sent[c][p] + 1 ELSE sent[c][p]]
<1>1. FailureThreshold \in Nat \ {0} /\ MaxTries = FailureThreshold + 1
  BY HealthAssumption DEF MaxTries
<1>2. /\ via' = [via EXCEPT ![c] = @ \cup {w}]
      /\ sent' = [sent EXCEPT ![c] = IF via[c] \subseteq {w} THEN again ELSE NoTries]
  BY DEF Reported
<1>3. sent[c] \in [Providers -> 0..MaxTries]
  BY DEF HealthInv, HealthTypeOK
<1>4. NoTries \in [Providers -> 0..MaxTries] /\ again \in [Providers -> 0..MaxTries]
  BY <1>1, <1>3 DEF NoTries
<1> HIDE DEF again
<1>5. /\ via' \in [Calls -> SUBSET Workers]
      /\ sent' \in [Calls -> [Providers -> 0..MaxTries]]
      /\ \A d \in Calls \ {c} : via'[d] = via[d] /\ sent'[d] = sent[d]
  BY <1>2, <1>4 DEF HealthInv, HealthTypeOK
<1>6. ASSUME NEW v \in Workers, NEW p \in Providers, via'[c] \subseteq {v}
      PROVE  /\ v = w
             /\ via[c] \subseteq {w}
             /\ p \notin to => sent'[c][p] = sent[c][p]
             /\ p \in to => sent'[c][p] = sent[c][p] + 1
  <2>1. via'[c] = via[c] \cup {w}
    BY <1>2 DEF HealthInv, HealthTypeOK
  <2>2. v = w /\ via[c] \subseteq {w}
    BY <1>6, <2>1
  <2>3. sent'[c] = again
    BY <1>2, <2>2 DEF HealthInv, HealthTypeOK
  <2>4. sent[c][p] \in Nat /\ sent[c][p] < MaxTries
    BY <1>1, <1>3, <2>2 DEF HealthInv, TriesCounted
  <2> QED BY <2>2, <2>3, <2>4 DEF again
<1> QED BY <1>5, <1>6

LEMMA AnswerLostInv ==
  ASSUME HealthInv, NEW c \in Calls, NEW w \in Workers, AnswerLost(c, w)
  PROVE  HealthInv'
<1>1. call[c].state = "failed" /\ Reported(c, w, {}) /\ Recorded(c, w) /\ call' = call
  BY DEF AnswerLost
<1>2. HealthTypeOK' /\ BreakerConsistent' /\ CallShape'
  BY <1>1, RecordedTypes, ReportHistory DEF HealthInv, HealthTypeOK, CallShape
<1>3. TriesCounted'
  <2> SUFFICES ASSUME NEW d \in Calls, NEW v \in Workers, NEW p \in Providers, via'[d] \subseteq {v}
               PROVE  /\ sent'[d][p] <= failures'[v][p] + Pending(d, p)'
                      /\ sent'[d][p] <= FailureThreshold
                      /\ cooldown'[v][p] = "over" => sent'[d][p] = 0
    BY DEF TriesCounted
  <2>1. via[d] \subseteq {v} /\ sent'[d][p] = sent[d][p]
    BY <1>1, ReportHistory
  <2>2. Pending(d, p)' = Pending(d, p)
    BY <1>1 DEF Pending
  <2> QED BY <1>1, <2>1, <2>2, ReportKeepsTries
<1> QED BY <1>2, <1>3 DEF HealthInv

LEMMA NoFallbackInv ==
  ASSUME HealthInv, NEW c \in Calls, NEW w \in Workers, NoFallback(c, w)
  PROVE  HealthInv'
<1>1. call[c].state = "failed" /\ End(c, "refused", Nothing) /\ Recorded(c, w)
  BY DEF NoFallback
<1>2. /\ call' \in [Calls -> [state : States, model : Models \cup {Nothing}]]
      /\ via' \in [Calls -> SUBSET Workers]
      /\ sent' \in [Calls -> [Providers -> 0..MaxTries]]
      /\ CallShape'
      /\ \A p \in Providers : sent'[c][p] = 0
      /\ \A d \in Calls \ {c} : via'[d] = via[d] /\ sent'[d] = sent[d] /\ call'[d] = call[d]
  BY <1>1, EndKeeps DEF Ended
<1>3. HealthTypeOK' /\ BreakerConsistent'
  BY <1>1, <1>2, RecordedTypes DEF HealthTypeOK
<1>4. TriesCounted'
  <2> SUFFICES ASSUME NEW d \in Calls, NEW v \in Workers, NEW p \in Providers, via'[d] \subseteq {v}
               PROVE  /\ sent'[d][p] <= failures'[v][p] + Pending(d, p)'
                      /\ sent'[d][p] <= FailureThreshold
                      /\ cooldown'[v][p] = "over" => sent'[d][p] = 0
    BY DEF TriesCounted
  <2>1. CASE d = c
    <3>1. failures'[v][p] \in Nat /\ Pending(d, p)' \in {0, 1} /\ FailureThreshold \in Nat
      BY <1>3, HealthAssumption DEF HealthTypeOK, Pending
    <3> QED BY <1>2, <2>1, <3>1
  <2>2. CASE d # c
    <3>1. via[d] \subseteq {v} /\ sent'[d][p] = sent[d][p] /\ Pending(d, p)' = Pending(d, p)
      BY <1>2, <2>2 DEF Pending
    <3> QED BY <1>1, <3>1, ReportKeepsTries
  <2> QED BY <2>1, <2>2
<1> QED BY <1>2, <1>3, <1>4 DEF HealthInv

\* A provider that is not cooling down when a failure is reported is not
\* cooling down afterwards, and its count is below the threshold.
LEMMA ViableIsClosed ==
  ASSUME HealthInv, NEW c \in Calls, NEW w \in Workers, call[c].state = "failed", Recorded(c, w),
         NEW i \in Viable(c, w)
  PROVE  LET p == ProviderOf[Chain[call[c].model][i]]
         IN /\ Chain[call[c].model][i] \in Models
            /\ p \in Providers
            /\ cooldown'[w][p] = "none"
            /\ failures'[w][p] < FailureThreshold
<1> DEFINE m == call[c].model
           p == ProviderOf[Chain[m][i]]
           deadlines == DeadlinesAfter(w, ProviderOf[m])
<1>1. m \in Models /\ i \in DOMAIN Chain[m] /\ p \notin Cooling(deadlines)
  BY DEF HealthInv, CallShape, Viable
<1>2. Chain[m][i] \in Models /\ p \in ChainProviders(m) /\ p \in Providers
  BY <1>1, ChainMembers
<1>3. deadlines[p] = "none" \/ p \in Lapsed(deadlines) \cap ChainProviders(m)
  BY <1>1, <1>2 DEF Cooling
<1>4. cooldown'[w][p] = "none"
  BY <1>2, <1>3 DEF Recorded, Forget, HealthInv, HealthTypeOK
<1>5. failures'[w][p] \in 0..FailureThreshold /\ failures'[w][p] # FailureThreshold
  BY <1>2, <1>4, RecordedMemory
<1>6. failures'[w][p] < FailureThreshold
  BY <1>5, HealthAssumption
<1> QED BY <1>2, <1>4, <1>6

LEMMA RedirectInv ==
  ASSUME HealthInv, NEW c \in Calls, NEW w \in Workers, Redirect(c, w)
  PROVE  HealthInv'
<1>1. call[c].state = "failed" /\ Recorded(c, w)
  BY DEF Redirect
<1>2. PICK i \in Viable(c, w) :
        /\ call' = [call EXCEPT ![c] = [state |-> "calling", model |-> Chain[call[c].model][i]]]
        /\ Reported(c, w, {ProviderOf[Chain[call[c].model][i]]})
  BY DEF Redirect
<1> DEFINE m == Chain[call[c].model][i]
           q == ProviderOf[m]
<1>3. m \in Models /\ q \in Providers /\ cooldown'[w][q] = "none" /\ failures'[w][q] < FailureThreshold
  BY <1>1, ViableIsClosed
<1>4. /\ call' = [call EXCEPT ![c] = [state |-> "calling", model |-> m]]
      /\ Reported(c, w, {q})
  BY <1>2
<1> HIDE DEF m
<1>5. HealthTypeOK' /\ BreakerConsistent' /\ CallShape'
  BY <1>1, <1>3, <1>4, RecordedTypes, ReportHistory DEF HealthInv, HealthTypeOK, CallShape, States
<1>6. TriesCounted'
  <2> SUFFICES ASSUME NEW d \in Calls, NEW v \in Workers, NEW p \in Providers, via'[d] \subseteq {v}
               PROVE  /\ sent'[d][p] <= failures'[v][p] + Pending(d, p)'
                      /\ sent'[d][p] <= FailureThreshold
                      /\ cooldown'[v][p] = "over" => sent'[d][p] = 0
    BY DEF TriesCounted
  <2>1. CASE d # c
    <3>1. via[d] \subseteq {v} /\ sent'[d][p] = sent[d][p]
      BY <1>4, <2>1, ReportHistory
    <3>2. Pending(d, p)' = Pending(d, p)
      BY <1>4, <2>1 DEF Pending, HealthInv, HealthTypeOK
    <3> QED BY <1>1, <3>1, <3>2, ReportKeepsTries
  <2>2. CASE d = c
    <3>1. v = w /\ via[c] \subseteq {w}
      BY <1>4, <2>2, ReportHistory
    <3>2. /\ p # q => sent'[c][p] = sent[c][p]
          /\ p = q => sent'[c][p] = sent[c][p] + 1
      BY <1>4, <2>2, <3>1, ReportHistory
    <3>3. /\ sent[c][p] <= failures'[w][p]
          /\ sent[c][p] <= FailureThreshold
          /\ cooldown'[w][p] = "over" => sent[c][p] = 0
      BY <1>1, <3>1, ReportKeepsTries
    <3>4. sent[c][p] \in Nat /\ failures'[w][p] \in Nat /\ FailureThreshold \in Nat
      BY <1>5, HealthAssumption DEF HealthInv, HealthTypeOK, MaxTries
    <3>5. Pending(c, p)' \in {0, 1} /\ (p = q => Pending(c, p)' = 1)
      BY <1>4 DEF Pending, HealthInv, HealthTypeOK
    <3>6. CASE p = q
      BY <1>3, <2>2, <3>1, <3>2, <3>3, <3>4, <3>5, <3>6
    <3>7. CASE p # q
      BY <2>2, <3>1, <3>2, <3>3, <3>4, <3>5, <3>7
    <3> QED BY <3>6, <3>7
  <2> QED BY <2>1, <2>2
<1> QED BY <1>5, <1>6 DEF HealthInv

LEMMA ShowHealthInv ==
  ASSUME HealthInv, NEW w \in Workers, ShowHealth(w)
  PROVE  HealthInv'
<1> DEFINE gone == Lapsed(cooldown[w])
<1>1. /\ failures' = [failures EXCEPT ![w] = [p \in Providers |-> IF p \in gone THEN 0 ELSE failures[w][p]]]
      /\ cooldown' = [cooldown EXCEPT ![w] = [p \in Providers |-> IF p \in gone THEN "none" ELSE cooldown[w][p]]]
      /\ UNCHANGED <<call, via, sent>>
      /\ \A p \in gone : cooldown[w][p] = "over"
  BY DEF ShowHealth, Forget, Lapsed
<1>2. FailureThreshold \in Nat \ {0}
  BY HealthAssumption
<1> HIDE DEF gone
<1>3. HealthTypeOK' /\ CallShape'
  BY <1>1, <1>2 DEF HealthInv, HealthTypeOK, CallShape
<1>4. \A v \in Workers, p \in Providers :
        \/ failures'[v][p] = failures[v][p] /\ cooldown'[v][p] = cooldown[v][p]
        \/ failures'[v][p] = 0 /\ cooldown'[v][p] = "none" /\ cooldown[v][p] = "over"
  BY <1>1 DEF HealthInv, HealthTypeOK
<1>5. BreakerConsistent'
  BY <1>2, <1>4 DEF HealthInv, BreakerConsistent
<1>6. TriesCounted'
  <2> SUFFICES ASSUME NEW d \in Calls, NEW v \in Workers, NEW p \in Providers, via[d] \subseteq {v}
               PROVE  /\ sent[d][p] <= failures'[v][p] + Pending(d, p)
                      /\ sent[d][p] <= FailureThreshold
                      /\ cooldown'[v][p] = "over" => sent[d][p] = 0
    BY <1>1 DEF TriesCounted, Pending
  <2>1. /\ sent[d][p] <= failures[v][p] + Pending(d, p)
        /\ sent[d][p] <= FailureThreshold
        /\ cooldown[v][p] = "over" => sent[d][p] = 0
    BY DEF HealthInv, TriesCounted
  <2>2. Pending(d, p) \in {0, 1}
    BY DEF Pending
  <2> QED BY <1>4, <2>1, <2>2
<1> QED BY <1>3, <1>5, <1>6 DEF HealthInv

\* Where a worker is free to use a provider again, tries are forgotten.
LEMMA TriesAgainKeeps ==
  ASSUME HealthInv, NEW w \in Workers, NEW ps, sent' = TriesAgain(w, ps)
  PROVE  /\ sent' \in [Calls -> [Providers -> 0..MaxTries]]
         /\ \A d \in Calls, p \in Providers :
              /\ via[d] \subseteq {w} /\ p \in ps => sent'[d][p] = 0
              /\ sent'[d][p] = 0 \/ sent'[d][p] = sent[d][p]
<1>1. MaxTries \in Nat
  BY HealthAssumption DEF MaxTries
<1> QED BY <1>1 DEF TriesAgain, HealthInv, HealthTypeOK

LEMMA CooldownPassesInv ==
  ASSUME HealthInv, NEW w \in Workers, NEW q \in Providers, CooldownPasses(w, q)
  PROVE  HealthInv'
<1>1. /\ cooldown[w][q] = "running"
      /\ cooldown' = [cooldown EXCEPT ![w][q] = "over"]
      /\ sent' = TriesAgain(w, {q})
      /\ UNCHANGED <<failures, call, via>>
  BY DEF CooldownPasses
<1>2. HealthTypeOK' /\ CallShape'
  BY <1>1, TriesAgainKeeps DEF HealthInv, HealthTypeOK, CallShape
<1>3. \A v \in Workers, p \in Providers :
        IF v = w /\ p = q THEN cooldown'[v][p] = "over" ELSE cooldown'[v][p] = cooldown[v][p]
  BY <1>1 DEF HealthInv, HealthTypeOK
<1>4. BreakerConsistent'
  BY <1>1, <1>3 DEF HealthInv, BreakerConsistent
<1>5. TriesCounted'
  <2> SUFFICES ASSUME NEW d \in Calls, NEW v \in Workers, NEW p \in Providers, via[d] \subseteq {v}
               PROVE  /\ sent'[d][p] <= failures[v][p] + Pending(d, p)
                      /\ sent'[d][p] <= FailureThreshold
                      /\ cooldown'[v][p] = "over" => sent'[d][p] = 0
    BY <1>1 DEF TriesCounted, Pending
  <2>1. /\ sent[d][p] <= failures[v][p] + Pending(d, p)
        /\ sent[d][p] <= FailureThreshold
        /\ cooldown[v][p] = "over" => sent[d][p] = 0
        /\ failures[v][p] \in Nat /\ FailureThreshold \in Nat
    BY HealthAssumption DEF HealthInv, HealthTypeOK, TriesCounted
  <2>2. Pending(d, p) \in {0, 1}
    BY DEF Pending
  <2>3. sent'[d][p] = 0 \/ sent'[d][p] = sent[d][p]
    BY <1>1, TriesAgainKeeps
  <2>4. v = w /\ p = q => sent'[d][p] = 0
    BY <1>1 DEF TriesAgain
  <2> QED BY <1>3, <2>1, <2>2, <2>3, <2>4
<1> QED BY <1>2, <1>4, <1>5 DEF HealthInv

LEMMA RestartInv ==
  ASSUME HealthInv, NEW w \in Workers, Restart(w)
  PROVE  HealthInv'
<1>1. /\ failures' = [failures EXCEPT ![w] = [p \in Providers |-> 0]]
      /\ cooldown' = [cooldown EXCEPT ![w] = [p \in Providers |-> "none"]]
      /\ sent' = TriesAgain(w, Providers)
      /\ UNCHANGED <<call, via>>
  BY DEF Restart, Forget
<1>2. FailureThreshold \in Nat \ {0}
  BY HealthAssumption
<1>3. HealthTypeOK' /\ CallShape'
  BY <1>1, <1>2, TriesAgainKeeps DEF HealthInv, HealthTypeOK, CallShape
<1>4. \A v \in Workers, p \in Providers :
        IF v = w THEN failures'[v][p] = 0 /\ cooldown'[v][p] = "none"
                 ELSE failures'[v][p] = failures[v][p] /\ cooldown'[v][p] = cooldown[v][p]
  BY <1>1 DEF HealthInv, HealthTypeOK
<1>5. BreakerConsistent'
  BY <1>2, <1>4 DEF HealthInv, BreakerConsistent
<1>6. TriesCounted'
  <2> SUFFICES ASSUME NEW d \in Calls, NEW v \in Workers, NEW p \in Providers, via[d] \subseteq {v}
               PROVE  /\ sent'[d][p] <= failures'[v][p] + Pending(d, p)
                      /\ sent'[d][p] <= FailureThreshold
                      /\ cooldown'[v][p] = "over" => sent'[d][p] = 0
    BY <1>1 DEF TriesCounted, Pending
  <2>1. /\ sent[d][p] <= failures[v][p] + Pending(d, p)
        /\ sent[d][p] <= FailureThreshold
        /\ cooldown[v][p] = "over" => sent[d][p] = 0
        /\ failures[v][p] \in Nat
    BY DEF HealthInv, HealthTypeOK, TriesCounted
  <2>2. Pending(d, p) \in {0, 1}
    BY DEF Pending
  <2>3. /\ sent'[d][p] = 0 \/ sent'[d][p] = sent[d][p]
        /\ v = w => sent'[d][p] = 0
    BY <1>1, TriesAgainKeeps
  <2> QED BY <1>2, <1>4, <2>1, <2>2, <2>3
<1> QED BY <1>3, <1>5, <1>6 DEF HealthInv

LEMMA HealthStepInv == HealthInv /\ HealthStep => HealthInv'
<1> SUFFICES ASSUME HealthInv, HealthStep PROVE HealthInv'
  OBVIOUS
<1>1. ASSUME NEW c \in Calls, ProviderAnswers(c) PROVE HealthInv'
  <2>1. /\ End(c, "served", call[c].model) /\ call[c].model \in Models
        /\ UNCHANGED <<failures, cooldown>>
    BY <1>1 DEF ProviderAnswers, HealthInv, CallShape
  <2> QED BY <2>1, EndInv DEF Ended
<1>2. ASSUME NEW c \in Calls, ProviderFails(c) PROVE HealthInv'
  <2>1. call[c].state = "calling" /\ call[c].model \in Models
    BY <1>2 DEF ProviderFails, HealthInv, CallShape
  <2>2. call' = [call EXCEPT ![c] = [state |-> "failed", model |-> call[c].model]]
    <3>1. call[c] \in [state : States, model : Models \cup {Nothing}]
      BY DEF HealthInv, HealthTypeOK
    <3>2. [call[c] EXCEPT !.state = "failed"] = [state |-> "failed", model |-> call[c].model]
      BY <3>1
    <3>3. call' = [call EXCEPT ![c] = [call[c] EXCEPT !.state = "failed"]]
      BY <1>2 DEF ProviderFails
    <3> QED BY <3>2, <3>3
  <2> QED BY <1>2, <2>1, <2>2, ProgressInv DEF ProviderFails
<1>3. ASSUME NEW c \in Calls, NotRetryable(c) PROVE HealthInv'
  <2>1. End(c, "refused", Nothing) /\ UNCHANGED <<failures, cooldown>>
    BY <1>3 DEF NotRetryable
  <2> QED BY <2>1, EndInv DEF Ended
<1> QED BY <1>1, <1>2, <1>3, RedirectInv, NoFallbackInv, AnswerLostInv, ShowHealthInv,
           RestartInv, CooldownPassesInv DEF HealthStep

LEMMA HealthStutter == HealthInv /\ UNCHANGED healthVars => HealthInv'
BY DEF healthVars, HealthInv, HealthTypeOK, BreakerConsistent, CallShape, TriesCounted, Pending

LEMMA OutboundHealth == HealthInv /\ [OutboundNext]_outboundVars => HealthInv'
<1> SUFFICES ASSUME HealthInv, [OutboundNext]_outboundVars PROVE HealthInv'
  OBVIOUS
<1>1. ASSUME NEW c \in Calls, AskNext(c) PROVE HealthInv'
  <2>1. PICK m \in Models : Ask(c, m)
    BY <1>1 DEF AskNext
  <2> QED BY <2>1, ProgressInv DEF Ask
<1>2. ASSUME NEW c \in Calls, ReportCall(c) PROVE HealthInv'
  <2>1. End(c, "idle", Nothing) /\ UNCHANGED <<failures, cooldown>>
    BY <1>2 DEF ReportCall
  <2> QED BY <2>1, EndInv DEF Ended
<1>3. CASE HealthStep
  BY <1>3, HealthStepInv
<1>4. CASE UNCHANGED healthVars
  BY <1>4, HealthStutter
<1> QED BY <1>1, <1>2, <1>3, <1>4 DEF OutboundNext, outboundVars

THEOREM HealthInductive == Spec => []HealthInv
BY HealthInitInv, OutboundHealth, PTL DEF Spec, OutboundInit

\* Types; a count of failures stays within the threshold.
THEOREM HealthTypes == Spec => []HealthTypeOK
BY HealthInductive, PTL DEF HealthInv

\* In every worker a provider has a deadline exactly when its failures have
\* reached the threshold (record_failure, is_healthy).
THEOREM Breaker == Spec => []BreakerConsistent
BY HealthInductive, PTL DEF HealthInv

\* A call that reports its failures to one worker is sent to a provider at most
\* FailureThreshold times before a cooldown of the provider has ended, whatever
\* the chains, the other calls and the other workers do (resolve_fallback).
THEOREM Retries == Spec => []RetriesBounded
<1>1. HealthInv => RetriesBounded
  BY DEF HealthInv, TriesCounted, RetriesBounded
<1> QED BY <1>1, HealthInductive, PTL

----------------------------------------------------------------------------
(* The cache.                                                              *)

\* A request that has begun has a prompt and a model, and an id once matched.
Shape(r) ==
  /\ r.stage # "idle" => r.prompt \in Prompts /\ r.model \in Models
  /\ r.stage \in {"fetch", "clean"} => r.id \in Ids

Shaped == \A c \in Calls : Shape(req[c])

\* An id that no store is at, and whose last store was left alone, has the same
\* prompt and model in the index and in its entry.
Agreed ==
  \A i \in Ids : i \notin torn /\ Storing(i) = {} /\ index[i] # Nothing /\ entry[i] # Nothing =>
    index[i] = entry[i]

\* A store that is left alone is the only one of its id, and the index holds
\* what it has written or has lost it.
Alone ==
  \A c \in Calls : req[c].stage = "set" /\ ~req[c].raced =>
    /\ \A d \in Storing(Id(c)) : d = c
    /\ index[Id(c)] \in {Nothing, Answer(c)}

CacheInv == CacheTypeOK /\ Shaped /\ Agreed /\ Alone /\ HitsMatch /\ CleansStale

\* What the invariant asks of a request that is not storing.
Sound(r) ==
  /\ r.stage = "fetch" /\ ~r.raced /\ entry[r.id] # Nothing =>
       /\ entry[r.id].model = r.model
       /\ Similarity[r.prompt, entry[r.id].prompt] >= Threshold
  /\ r.stage = "clean" /\ ~r.raced => entry[r.id] = Nothing

LEMMA CacheInitInv == CacheInit => CacheInv
<1> SUFFICES ASSUME CacheInit PROVE CacheInv
  OBVIOUS
<1>1. NoRequest \in Requests /\ NoRequest.stage = "idle"
  BY DEF NoRequest, Requests, Stages
<1>2. CacheTypeOK
  BY <1>1 DEF CacheInit, CacheTypeOK
<1>3. \A c \in Calls : req[c].stage = "idle"
  BY <1>1 DEF CacheInit
<1>4. Shaped /\ Alone /\ HitsMatch /\ CleansStale
  BY <1>3 DEF Shaped, Shape, Alone, HitsMatch, CleansStale
<1>5. Agreed
  BY DEF CacheInit, Agreed
<1> QED BY <1>2, <1>4, <1>5 DEF CacheInv

\* Steps that write no key: keys may go, and requests that are not storing may
\* move on to where they are sound.
LEMMA QuietInv ==
  ASSUME CacheInv, torn' = torn,
         index' \in [Ids -> Answers \cup {Nothing}], \A i \in Ids : index'[i] \in {index[i], Nothing},
         entry' \in [Ids -> Answers \cup {Nothing}], \A i \in Ids : entry'[i] \in {entry[i], Nothing},
         req' \in [Calls -> Requests],
         \A c \in Calls : \/ req'[c] = req[c]
                          \/ /\ req[c].stage # "set" /\ req'[c].stage # "set"
                             /\ Shape(req'[c])
                             /\ Sound(req[c])'
  PROVE  CacheInv'
<1>1. CacheTypeOK'
  BY DEF CacheInv, CacheTypeOK
<1>2. Shaped'
  BY DEF CacheInv, Shaped, Shape
<1>3. \A c \in Calls : req'[c].stage = "set" => req'[c] = req[c]
  OBVIOUS
<1>4. \A c \in Calls : req[c].stage = "set" => req'[c] = req[c]
  OBVIOUS
<1>5. \A i \in Ids : Storing(i)' = Storing(i)
  BY <1>3, <1>4 DEF Storing
<1>6. Agreed'
  BY <1>5 DEF CacheInv, Agreed
<1>7. Alone'
  <2> SUFFICES ASSUME NEW c \in Calls, req'[c].stage = "set", ~req'[c].raced
               PROVE  /\ \A d \in Storing(Id(c))' : d = c
                      /\ index'[Id(c)'] \in {Nothing, Answer(c)'}
    BY DEF Alone
  <2>1. req'[c] = req[c] /\ req[c].prompt \in Prompts
    BY <1>3 DEF CacheInv, Shaped, Shape
  <2>2. Id(c) \in Ids /\ Id(c)' = Id(c) /\ Answer(c)' = Answer(c)
    BY <2>1, CacheAssumption DEF Id, Answer
  <2>3. Storing(Id(c))' = Storing(Id(c))
    BY <1>5, <2>2 DEF Storing
  <2> QED BY <2>1, <2>2, <2>3 DEF CacheInv, Alone
<1>8. ASSUME NEW c \in Calls PROVE Sound(req[c])'
  <2>1. CASE req'[c] = req[c]
    <3>1. Sound(req[c]) /\ Shape(req[c])
      BY DEF CacheInv, Sound, HitsMatch, CleansStale, Shaped
    <3> QED BY <2>1, <3>1 DEF Sound, Shape
  <2> QED BY <2>1
<1>9. HitsMatch' /\ CleansStale'
  BY <1>8 DEF Sound, HitsMatch, CleansStale
<1> QED BY <1>1, <1>2, <1>6, <1>7, <1>9 DEF CacheInv

\* A request that moves on to r while no key is written.
LEMMA MoveInv ==
  ASSUME CacheInv, torn' = torn, NEW c \in Calls, NEW r \in Requests,
         index' \in [Ids -> Answers \cup {Nothing}], \A i \in Ids : index'[i] \in {index[i], Nothing},
         entry' = entry, req' = [req EXCEPT ![c] = r],
         req[c].stage # "set", r.stage # "set", Shape(r), Sound(r)
  PROVE  CacheInv'
<1>1. req' \in [Calls -> Requests] /\ req'[c] = r /\ \A d \in Calls \ {c} : req'[d] = req[d]
  BY DEF CacheInv, CacheTypeOK
<1>2. Sound(req[c])'
  BY <1>1 DEF Sound
<1>3. entry' \in [Ids -> Answers \cup {Nothing}] /\ \A i \in Ids : entry'[i] \in {entry[i], Nothing}
  BY DEF CacheInv, CacheTypeOK
<1> QED BY <1>1, <1>2, <1>3, QuietInv

\* The request a miss leaves behind.
LEMMA MissedInv ==
  ASSUME CacheInv, torn' = torn, NEW c \in Calls, req[c].stage \in {"lookup", "fetch", "clean"},
         index' \in [Ids -> Answers \cup {Nothing}], \A i \in Ids : index'[i] \in {index[i], Nothing},
         entry' = entry, req' = Missed(c)
  PROVE  CacheInv'
<1> DEFINE r == [req[c] EXCEPT !.stage = "log", !.id = Nothing, !.raced = FALSE]
<1>1. req[c] \in Requests /\ req \in [Calls -> Requests] /\ Shape(req[c])
  BY DEF CacheInv, CacheTypeOK, Shaped
<1>2. r \in Requests /\ r.stage = "log" /\ Shape(r) /\ Sound(r)
  BY <1>1 DEF Requests, Stages, Shape, Sound
<1>3. req' = [req EXCEPT ![c] = r]
  BY DEF Missed
<1> HIDE DEF r
<1> QED BY <1>2, <1>3, MoveInv

LEMMA BeginInv ==
  ASSUME CacheInv, NEW c \in Calls, NEW p \in Prompts, NEW m \in Models, Begin(c, p, m)
  PROVE  CacheInv'
<1> DEFINE r == [NoRequest EXCEPT !.stage = "lookup", !.prompt = p, !.model = m]
<1>1. /\ r \in Requests /\ r.stage = "lookup" /\ r.prompt = p /\ r.model = m
      /\ NoRequest.stage = "idle"
  BY DEF NoRequest, Requests, Stages
<1>2. req[c] = NoRequest /\ req' = [req EXCEPT ![c] = r] /\ UNCHANGED <<index, entry, torn>>
  BY DEF Begin
<1> HIDE DEF r
<1>3. Shape(r) /\ Sound(r)
  BY <1>1 DEF Shape, Sound
<1> QED BY <1>1, <1>2, <1>3, MoveInv DEF CacheInv, CacheTypeOK

LEMMA LookupMatchInv ==
  ASSUME CacheInv, NEW c \in Calls, LookupMatch(c)
  PROVE  CacheInv'
<1>1. PICK i \in BestMatches(req[c].prompt, req[c].model) :
        req' = [req EXCEPT ![c] = [@ EXCEPT !.stage = "fetch", !.id = i,
                                            !.raced = i \in torn \/ Storing(i) # {}]]
  BY DEF LookupMatch
<1> DEFINE again == (i \in torn \/ Storing(i) # {})
           r == [req[c] EXCEPT !.stage = "fetch", !.id = i, !.raced = again]
<1>2. req[c].stage = "lookup" /\ UNCHANGED <<index, entry, torn>>
  BY DEF LookupMatch
<1>3. req[c] \in Requests /\ req \in [Calls -> Requests] /\ Shape(req[c])
  BY DEF CacheInv, CacheTypeOK, Shaped
<1>4. /\ i \in Ids /\ index[i] # Nothing /\ index[i].model = req[c].model
      /\ Similarity[req[c].prompt, index[i].prompt] >= Threshold
  BY DEF BestMatches, Candidates
<1>5. again \in BOOLEAN
  OBVIOUS
<1>6. ~again /\ entry[i] # Nothing => entry[i] = index[i]
  BY <1>4 DEF CacheInv, Agreed
<1> HIDE DEF again
<1>7. req' = [req EXCEPT ![c] = r]
  BY <1>1 DEF again
<1>8. r \in Requests /\ r.stage = "fetch" /\ r.id = i /\ r.raced = again
      /\ r.model = req[c].model /\ r.prompt = req[c].prompt
  BY <1>2, <1>3, <1>4, <1>5 DEF Requests, Stages
<1> HIDE DEF r
<1>9. Shape(r)
  BY <1>2, <1>3, <1>4, <1>8 DEF Shape
<1>10. Sound(r)
  BY <1>4, <1>6, <1>8 DEF Sound
<1> QED BY <1>2, <1>7, <1>8, <1>9, <1>10, MoveInv DEF CacheInv, CacheTypeOK

LEMMA FetchInv ==
  ASSUME CacheInv, NEW c \in Calls, FetchHit(c) \/ FetchNothing(c)
  PROVE  CacheInv'
<1>1. /\ req[c] \in Requests /\ req \in [Calls -> Requests] /\ Shape(req[c])
      /\ index \in [Ids -> Answers \cup {Nothing}]
  BY DEF CacheInv, CacheTypeOK, Shaped
<1>2. CASE FetchHit(c)
  <2>1. NoRequest \in Requests /\ NoRequest.stage = "idle"
    BY DEF NoRequest, Requests, Stages
  <2>2. Shape(NoRequest) /\ Sound(NoRequest)
    BY <2>1 DEF Shape, Sound
  <2> QED BY <1>1, <1>2, <2>1, <2>2, MoveInv DEF FetchHit
<1>3. CASE FetchNothing(c)
  <2> DEFINE r == [req[c] EXCEPT !.stage = "clean"]
  <2>1. /\ r \in Requests /\ r.stage = "clean" /\ r.id = req[c].id
        /\ r.prompt = req[c].prompt /\ r.model = req[c].model
    BY <1>1 DEF Requests, Stages
  <2>2. /\ req[c].stage = "fetch" /\ entry[req[c].id] = Nothing
        /\ req' = [req EXCEPT ![c] = r] /\ UNCHANGED <<index, entry, torn>>
    BY <1>3 DEF FetchNothing
  <2> HIDE DEF r
  <2>3. Shape(r) /\ Sound(r)
    BY <1>1, <2>1, <2>2 DEF Shape, Sound
  <2> QED BY <1>1, <2>1, <2>2, <2>3, MoveInv
<1> QED BY <1>2, <1>3

LEMMA LookupInv ==
  ASSUME CacheInv, NEW c \in Calls,
         LookupNothing(c) \/ CleanIndex(c) \/ LookupFails(c)
  PROVE  CacheInv'
<1>1. index \in [Ids -> Answers \cup {Nothing}] /\ Shape(req[c])
  BY DEF CacheInv, CacheTypeOK, Shaped
<1>2. CASE index' = index
  <2>1. req' = Missed(c) /\ torn' = torn /\ entry' = entry /\ req[c].stage \in {"lookup", "fetch", "clean"}
    BY DEF LookupNothing, CleanIndex, LookupFails
  <2> QED BY <1>1, <1>2, <2>1, MissedInv
<1>3. CASE req[c].stage = "clean" /\ index' = [index EXCEPT ![req[c].id] = Nothing]
  <2>1. req' = Missed(c) /\ torn' = torn /\ entry' = entry /\ req[c].stage \in {"lookup", "fetch", "clean"}
    BY DEF LookupNothing, CleanIndex, LookupFails
  <2>2. /\ index' \in [Ids -> Answers \cup {Nothing}]
        /\ \A i \in Ids : index'[i] \in {index[i], Nothing}
    BY <1>1, <1>3
  <2> QED BY <2>1, <2>2, MissedInv
<1> QED BY <1>2, <1>3 DEF LookupNothing, CleanIndex, LookupFails

LEMMA GoesInv ==
  ASSUME CacheInv, IndexGoes \/ \E i \in Ids : EntryGoes(i)
  PROVE  CacheInv'
<1>1. /\ index \in [Ids -> Answers \cup {Nothing}] /\ entry \in [Ids -> Answers \cup {Nothing}]
      /\ req \in [Calls -> Requests]
  BY DEF CacheInv, CacheTypeOK
<1>2. req' = req /\ torn' = torn
  BY DEF IndexGoes, EntryGoes
<1>3. /\ index' \in [Ids -> Answers \cup {Nothing}] /\ \A i \in Ids : index'[i] \in {index[i], Nothing}
      /\ entry' \in [Ids -> Answers \cup {Nothing}] /\ \A i \in Ids : entry'[i] \in {entry[i], Nothing}
  BY <1>1 DEF IndexGoes, EntryGoes
<1> QED BY <1>1, <1>2, <1>3, QuietInv

LEMMA NoRequestIdle == NoRequest \in Requests /\ NoRequest.stage = "idle" /\ Shape(NoRequest)
BY DEF NoRequest, Requests, Stages, Shape

LEMMA StoringTypes ==
  ASSUME CacheInv, NEW c \in Calls, req[c].stage \in {"log", "set"}
  PROVE  Id(c) \in Ids /\ Answer(c) \in Answers
<1>1. req[c].prompt \in Prompts /\ req[c].model \in Models
  BY DEF CacheInv, Shaped, Shape
<1> QED BY <1>1, CacheAssumption DEF Id, Answer, Answers

\* Other requests keep their place, and none that is left unmarked is within
\* the id that is written.
LEMMA OvertakeKeeps ==
  ASSUME CacheInv, NEW c \in Calls, NEW i \in Ids, NEW r \in Requests, Shape(r), Overtake(c, i, r)
  PROVE  /\ req' \in [Calls -> Requests]
         /\ Shaped'
         /\ req'[c] = r
         /\ \A d \in Calls \ {c} :
              /\ req'[d].stage = req[d].stage /\ req'[d].prompt = req[d].prompt
              /\ req'[d].model = req[d].model /\ req'[d].id = req[d].id
              /\ ~req'[d].raced => ~req[d].raced /\ d \notin Within(i)
<1>1. req' = [d \in Calls |-> IF d = c THEN r
                              ELSE IF d \in Within(i) THEN [req[d] EXCEPT !.raced = TRUE]
                              ELSE req[d]]
  BY DEF Overtake
<1>2. \A d \in Calls : req[d] \in Requests
  BY DEF CacheInv, CacheTypeOK
<1>3. \A d \in Calls : /\ [req[d] EXCEPT !.raced = TRUE] \in Requests
                       /\ [req[d] EXCEPT !.raced = TRUE].stage = req[d].stage
                       /\ [req[d] EXCEPT !.raced = TRUE].prompt = req[d].prompt
                       /\ [req[d] EXCEPT !.raced = TRUE].model = req[d].model
                       /\ [req[d] EXCEPT !.raced = TRUE].id = req[d].id
                       /\ [req[d] EXCEPT !.raced = TRUE].raced
  BY <1>2 DEF Requests
<1>4. req' \in [Calls -> Requests] /\ req'[c] = r
  BY <1>1, <1>2, <1>3
<1>5. ASSUME NEW d \in Calls \ {c}
      PROVE  /\ req'[d].stage = req[d].stage /\ req'[d].prompt = req[d].prompt
             /\ req'[d].model = req[d].model /\ req'[d].id = req[d].id
             /\ ~req'[d].raced => ~req[d].raced /\ d \notin Within(i)
  <2>1. CASE d \in Within(i)
    <3>1. req'[d] = [req[d] EXCEPT !.raced = TRUE]
      BY <1>1, <2>1
    <3> QED BY <1>3, <3>1
  <2>2. CASE d \notin Within(i)
    <3>1. req'[d] = req[d]
      BY <1>1, <2>2
    <3> QED BY <2>2, <3>1
  <2> QED BY <2>1, <2>2
<1>6. Shaped'
  BY <1>4, <1>5 DEF CacheInv, Shaped, Shape
<1> QED BY <1>4, <1>5, <1>6

\* A store's command: it writes one id and overtakes what is within it.
LEMMA WriteInv ==
  ASSUME CacheInv, NEW c \in Calls, req[c].stage \in {"log", "set"},
         NEW i \in Ids, i = Id(c), NEW r \in Requests, Shape(r), Overtake(c, i, r),
         \/ r.stage = "idle"
         \/ r.stage = "set" /\ r.prompt = req[c].prompt /\ r.model = req[c].model,
         index' \in [Ids -> Answers \cup {Nothing}], entry' \in [Ids -> Answers \cup {Nothing}],
         torn' \subseteq Ids,
         \A j \in Ids \ {i} : index'[j] = index[j] /\ entry'[j] = entry[j] /\ (j \in torn' <=> j \in torn),
         r.stage = "set" /\ ~r.raced => Storing(i) = {} /\ index'[i] = Answer(c),
         r.stage = "idle" /\ i \notin torn' => index'[i] = entry'[i] \/ index'[i] = Nothing
  PROVE  CacheInv'
<1>2. /\ req' \in [Calls -> Requests] /\ Shaped' /\ req'[c] = r
      /\ \A d \in Calls \ {c} :
           /\ req'[d].stage = req[d].stage /\ req'[d].prompt = req[d].prompt
           /\ req'[d].model = req[d].model /\ req'[d].id = req[d].id
           /\ ~req'[d].raced => ~req[d].raced /\ d \notin Within(i)
  BY OvertakeKeeps
<1>3. CacheTypeOK'
  BY <1>2 DEF CacheTypeOK
<1>4. \A d \in Calls \ {c}, j \in Ids : d \in Storing(j)' <=> d \in Storing(j)
  BY <1>2 DEF Storing
<1>5. \A j \in Ids \ {i} : c \notin Storing(j) /\ c \notin Storing(j)'
  BY <1>2 DEF Storing, Id
<1>6. r.stage = "set" => c \in Storing(i)'
  BY <1>2 DEF Storing, Id
<1>7. \A j \in Ids \ {i} : Storing(j)' = Storing(j)
  <2> SUFFICES ASSUME NEW j \in Ids \ {i} PROVE Storing(j)' = Storing(j)
    OBVIOUS
  <2>1. Storing(j) \subseteq Calls /\ Storing(j)' \subseteq Calls
    BY DEF Storing
  <2> QED BY <1>4, <1>5, <2>1
<1>8. Agreed'
  <2> SUFFICES ASSUME NEW j \in Ids, j \notin torn', Storing(j)' = {},
                      index'[j] # Nothing, entry'[j] # Nothing
               PROVE  index'[j] = entry'[j]
    BY DEF Agreed
  <2>1. CASE j = i
    BY <1>6, <2>1
  <2>2. CASE j # i
    <3>1. index'[j] = index[j] /\ entry'[j] = entry[j] /\ j \notin torn /\ Storing(j) = {}
      BY <1>7, <2>2
    <3> QED BY <3>1 DEF CacheInv, Agreed
  <2> QED BY <2>1, <2>2
<1>9. Alone'
  <2> SUFFICES ASSUME NEW d \in Calls, req'[d].stage = "set", ~req'[d].raced
               PROVE  /\ \A e \in Storing(Id(d))' : e = d
                      /\ index'[Id(d)'] \in {Nothing, Answer(d)'}
    BY DEF Alone
  <2>1. CASE d = c
    <3>1. r.stage = "set" /\ Storing(i) = {} /\ index'[i] = Answer(c)
      BY <1>2, <2>1
    <3>2. Id(d)' = i /\ Answer(d)' = Answer(c)
      BY <1>2, <2>1, <3>1 DEF Id, Answer
    <3>3. \A e \in Storing(i)' : e = c
      BY <1>4, <3>1 DEF Storing
    <3>4. Storing(Id(d))' = Storing(i)'
      BY <3>2 DEF Storing
    <3> QED BY <2>1, <3>1, <3>2, <3>3, <3>4
  <2>2. CASE d # c
    <3>1. req[d].stage = "set" /\ ~req[d].raced /\ d \notin Within(i)
      BY <1>2, <2>2
    <3>2. PICK k \in Ids : k = Id(d)
      BY <3>1, StoringTypes
    <3>3. k # i /\ Id(d)' = k /\ Answer(d)' = Answer(d)
      BY <1>2, <2>2, <3>1, <3>2 DEF Within, Storing, Id, Answer
    <3>4. Storing(k)' = Storing(k) /\ index'[k] = index[k]
      BY <1>7, <3>3
    <3>5. Storing(Id(d))' = Storing(k)' /\ Storing(Id(d)) = Storing(k)
      BY <3>2, <3>3 DEF Storing
    <3>6. (\A e \in Storing(k) : e = d) /\ index[k] \in {Nothing, Answer(d)}
      BY <3>1, <3>2, <3>5 DEF CacheInv, Alone
    <3> QED BY <3>3, <3>4, <3>5, <3>6
  <2> QED BY <2>1, <2>2
<1>10. ASSUME NEW d \in Calls, req'[d].stage \in {"fetch", "clean"}, ~req'[d].raced
       PROVE  /\ req[d].stage = req'[d].stage /\ ~req[d].raced
              /\ req'[d].id = req[d].id /\ entry'[req[d].id] = entry[req[d].id]
              /\ req'[d].prompt = req[d].prompt /\ req'[d].model = req[d].model
  <2>1. d # c
    BY <1>2, <1>10
  <2>2. /\ req[d].stage = req'[d].stage /\ ~req[d].raced /\ d \notin Within(i) /\ req'[d].id = req[d].id
        /\ req'[d].prompt = req[d].prompt /\ req'[d].model = req[d].model
    BY <1>2, <1>10, <2>1
  <2>3. req[d].id \in Ids /\ req[d].id # i
    BY <1>10, <2>2 DEF Within, CacheInv, Shaped, Shape
  <2> QED BY <2>2, <2>3
<1>11. HitsMatch'
  <2> SUFFICES ASSUME NEW d \in Calls,
                      req'[d].stage = "fetch" /\ ~req'[d].raced /\ entry'[req'[d].id] # Nothing
               PROVE  /\ entry'[req'[d].id].model = req'[d].model
                      /\ Similarity[req'[d].prompt, entry'[req'[d].id].prompt] >= Threshold
    BY DEF HitsMatch
  <2>1. /\ req[d].stage = "fetch" /\ ~req[d].raced
        /\ req'[d].id = req[d].id /\ entry'[req[d].id] = entry[req[d].id]
        /\ req'[d].prompt = req[d].prompt /\ req'[d].model = req[d].model
    BY <1>10
  <2>2. /\ entry[req[d].id].model = req[d].model
        /\ Similarity[req[d].prompt, entry[req[d].id].prompt] >= Threshold
    BY <2>1 DEF CacheInv, HitsMatch
  <2> QED BY <2>1, <2>2
<1>12. CleansStale'
  BY <1>10 DEF CacheInv, CleansStale
<1> QED BY <1>2, <1>3, <1>8, <1>9, <1>11, <1>12 DEF CacheInv

LEMMA StoreIndexInv ==
  ASSUME CacheInv, NEW c \in Calls, StoreIndex(c)
  PROVE  CacheInv'
<1>1. PICK i \in Ids : i = Id(c)
  BY StoringTypes DEF StoreIndex
<1> DEFINE again == (Storing(i) # {})
           r == [req[c] EXCEPT !.stage = "set", !.raced = again]
<1>2. /\ req[c].stage = "log" /\ index' = [index EXCEPT ![i] = Answer(c)]
      /\ Overtake(c, i, r) /\ entry' = entry /\ torn' = torn
  BY <1>1 DEF StoreIndex
<1>3. again \in BOOLEAN /\ (~again => Storing(i) = {})
  OBVIOUS
<1> HIDE DEF again
<1>4. req[c] \in Requests /\ Shape(req[c])
  BY DEF CacheInv, CacheTypeOK, Shaped
<1>5. /\ r \in Requests /\ r.stage = "set" /\ r.raced = again
      /\ r.prompt = req[c].prompt /\ r.model = req[c].model
  BY <1>3, <1>4 DEF Requests, Stages
<1> HIDE DEF r
<1>6. Shape(r)
  BY <1>2, <1>4, <1>5 DEF Shape
<1>7. /\ index' \in [Ids -> Answers \cup {Nothing}] /\ entry' \in [Ids -> Answers \cup {Nothing}]
      /\ torn' \subseteq Ids /\ index'[i] = Answer(c)
      /\ \A j \in Ids \ {i} : index'[j] = index[j] /\ entry'[j] = entry[j] /\ (j \in torn' <=> j \in torn)
  BY <1>2, StoringTypes DEF CacheInv, CacheTypeOK
<1>8. r.stage = "set" /\ ~r.raced => Storing(i) = {} /\ index'[i] = Answer(c)
  BY <1>3, <1>5, <1>7
<1> QED BY <1>1, <1>2, <1>5, <1>6, <1>7, <1>8, WriteInv

LEMMA StoreEntryInv ==
  ASSUME CacheInv, NEW c \in Calls, StoreEntry(c)
  PROVE  CacheInv'
<1>1. PICK i \in Ids : i = Id(c)
  BY StoringTypes DEF StoreEntry
<1>2. /\ req[c].stage = "set" /\ entry' = [entry EXCEPT ![i] = Answer(c)]
      /\ Overtake(c, i, NoRequest) /\ index' = index
      /\ torn' = IF req[c].raced THEN torn \cup {i} ELSE torn \ {i}
  BY <1>1 DEF StoreEntry
<1>3. /\ index' \in [Ids -> Answers \cup {Nothing}] /\ entry' \in [Ids -> Answers \cup {Nothing}]
      /\ torn' \subseteq Ids /\ entry'[i] = Answer(c)
      /\ \A j \in Ids \ {i} : index'[j] = index[j] /\ entry'[j] = entry[j] /\ (j \in torn' <=> j \in torn)
  BY <1>2, StoringTypes DEF CacheInv, CacheTypeOK
<1>4. i \notin torn' => index'[i] = entry'[i] \/ index'[i] = Nothing
  <2> SUFFICES ASSUME i \notin torn' PROVE index[i] \in {Nothing, Answer(c)}
    BY <1>2, <1>3
  <2>1. ~req[c].raced
    BY <1>2
  <2> QED BY <1>1, <1>2, <2>1 DEF CacheInv, Alone
<1> QED BY <1>1, <1>2, <1>3, <1>4, WriteInv, NoRequestIdle

LEMMA StoreBreaksOffInv ==
  ASSUME CacheInv, NEW c \in Calls, StoreBreaksOff(c)
  PROVE  CacheInv'
<1>1. req[c].stage \in {"log", "set"}
  BY DEF StoreBreaksOff
<1>2. PICK i \in Ids : i = Id(c)
  BY <1>1, StoringTypes
<1>3. /\ \/ index' = [index EXCEPT ![i] = Answer(c)] /\ entry' = entry
         \/ entry' = [entry EXCEPT ![i] = Answer(c)] /\ index' = index
      /\ Overtake(c, i, NoRequest) /\ torn' = torn \cup {i}
  BY <1>2 DEF StoreBreaksOff
<1>4. /\ index' \in [Ids -> Answers \cup {Nothing}] /\ entry' \in [Ids -> Answers \cup {Nothing}]
      /\ torn' \subseteq Ids /\ i \in torn'
      /\ \A j \in Ids \ {i} : index'[j] = index[j] /\ entry'[j] = entry[j] /\ (j \in torn' <=> j \in torn)
  BY <1>1, <1>3, StoringTypes DEF CacheInv, CacheTypeOK
<1> QED BY <1>1, <1>2, <1>3, <1>4, WriteInv, NoRequestIdle

LEMMA StoreFailsInv ==
  ASSUME CacheInv, NEW c \in Calls, StoreFails(c)
  PROVE  CacheInv'
<1>1. /\ index \in [Ids -> Answers \cup {Nothing}] /\ entry \in [Ids -> Answers \cup {Nothing}]
      /\ torn \subseteq Ids /\ req \in [Calls -> Requests]
  BY DEF CacheInv, CacheTypeOK
<1>2. /\ req' = [req EXCEPT ![c] = NoRequest] /\ index' = index /\ entry' = entry
      /\ req[c].stage \in {"log", "set"}
  BY DEF StoreFails
<1>3. req' \in [Calls -> Requests] /\ req'[c] = NoRequest /\ \A d \in Calls \ {c} : req'[d] = req[d]
  BY <1>1, <1>2, NoRequestIdle
<1>4. Shape(NoRequest) /\ Sound(NoRequest) /\ NoRequest.stage = "idle"
  BY NoRequestIdle DEF Sound
<1>5. CASE req[c].stage = "log"
  <2>1. torn' = torn
    BY <1>5 DEF StoreFails
  <2> QED BY <1>1, <1>2, <1>4, <1>5, <2>1, MoveInv, NoRequestIdle
<1>6. CASE req[c].stage = "set"
  <2>1. PICK i \in Ids : i = Id(c)
    BY <1>2, StoringTypes
  <2>2. torn' = torn \cup {i}
    BY <1>6, <2>1 DEF StoreFails
  <2>3. CacheTypeOK' /\ Shaped'
    BY <1>1, <1>2, <1>3, <1>4, <2>2 DEF CacheInv, CacheTypeOK, Shaped
  <2>4. \A j \in Ids : Storing(j)' = Storing(j) \ {c}
    BY <1>3, <1>4 DEF Storing
  <2>5. c \in Storing(i) /\ \A j \in Ids \ {i} : c \notin Storing(j)
    BY <1>6, <2>1 DEF Storing, Id
  <2>6. Agreed'
    <3> SUFFICES ASSUME NEW j \in Ids, j \notin torn', Storing(j)' = {},
                        index[j] # Nothing, entry[j] # Nothing
                 PROVE  index[j] = entry[j]
      BY <1>2 DEF Agreed
    <3>1. j # i /\ j \notin torn
      BY <2>2
    <3>2. Storing(j) = {}
      BY <2>4, <2>5, <3>1
    <3> QED BY <3>1, <3>2 DEF CacheInv, Agreed
  <2>7. Alone'
    <3> SUFFICES ASSUME NEW d \in Calls, req'[d].stage = "set", ~req'[d].raced
                 PROVE  /\ \A e \in Storing(Id(d))' : e = d
                        /\ index'[Id(d)'] \in {Nothing, Answer(d)'}
      BY DEF Alone
    <3>1. d # c /\ req'[d] = req[d]
      BY <1>3, <1>4
    <3>2. PICK k \in Ids : k = Id(d)
      BY <3>1, StoringTypes
    <3>3. Id(d)' = k /\ Answer(d)' = Answer(d)
      BY <3>1, <3>2 DEF Id, Answer
    <3>4. Storing(Id(d))' = Storing(k)' /\ Storing(Id(d)) = Storing(k)
      BY <3>2, <3>3 DEF Storing
    <3>5. (\A e \in Storing(k) : e = d) /\ index[k] \in {Nothing, Answer(d)}
      BY <3>1, <3>2, <3>4 DEF CacheInv, Alone
    <3> QED BY <1>2, <2>4, <3>3, <3>4, <3>5
  <2>8. \A d \in Calls : Sound(req[d])
    BY DEF CacheInv, Sound, HitsMatch, CleansStale
  <2>9. \A d \in Calls : Sound(req[d])'
    <3> SUFFICES ASSUME NEW d \in Calls PROVE Sound(req[d])'
      OBVIOUS
    <3>1. CASE d = c
      BY <1>3, <1>4, <3>1 DEF Sound
    <3>2. CASE d # c
      BY <1>2, <1>3, <2>8, <3>2 DEF Sound
    <3> QED BY <3>1, <3>2
  <2>10. HitsMatch' /\ CleansStale'
    BY <2>9 DEF Sound, HitsMatch, CleansStale
  <2> QED BY <2>3, <2>6, <2>7, <2>10 DEF CacheInv
<1> QED BY <1>2, <1>5, <1>6

LEMMA CacheStepInv == CacheInv /\ CacheStep => CacheInv'
BY LookupMatchInv, LookupInv, FetchInv, StoreIndexInv, StoreEntryInv, StoreFailsInv,
   StoreBreaksOffInv, GoesInv DEF CacheStep

LEMMA CacheStutter == CacheInv /\ UNCHANGED cacheVars => CacheInv'
<1> SUFFICES ASSUME CacheInv, UNCHANGED cacheVars PROVE CacheInv'
  OBVIOUS
<1>1. /\ index \in [Ids -> Answers \cup {Nothing}] /\ entry \in [Ids -> Answers \cup {Nothing}]
      /\ req \in [Calls -> Requests]
  BY DEF CacheInv, CacheTypeOK
<1>2. index' = index /\ entry' = entry /\ req' = req /\ torn' = torn
  BY DEF cacheVars
<1> QED BY <1>1, <1>2, QuietInv

LEMMA OutboundCache == HealthInv /\ CacheInv /\ [OutboundNext]_outboundVars => CacheInv'
<1> SUFFICES ASSUME HealthInv, CacheInv, [OutboundNext]_outboundVars PROVE CacheInv'
  OBVIOUS
<1>1. ASSUME NEW c \in Calls, ReportCall(c) PROVE CacheInv'
  <2>1. call[c].model \in Models
    BY <1>1 DEF ReportCall, HealthInv, CallShape
  <2>2. PICK p \in Prompts : Begin(c, p, call[c].model)
    BY <1>1 DEF ReportCall
  <2> QED BY <2>1, <2>2, BeginInv
<1>2. CASE CacheStep
  BY <1>2, CacheStepInv
<1>3. CASE UNCHANGED cacheVars
  BY <1>3, CacheStutter
<1> QED BY <1>1, <1>2, <1>3 DEF OutboundNext, AskNext, outboundVars

THEOREM CacheInductive == Spec => []CacheInv
<1>1. OutboundInit => HealthInv /\ CacheInv
  BY HealthInitInv, CacheInitInv DEF OutboundInit
<1>2. HealthInv /\ CacheInv /\ [OutboundNext]_outboundVars => (HealthInv /\ CacheInv)'
  BY OutboundHealth, OutboundCache
<1> QED BY <1>1, <1>2, PTL DEF Spec

\* Types; what the cache holds is a prompt and a model.
THEOREM CacheTypes == Spec => []CacheTypeOK
BY CacheInductive, PTL DEF CacheInv

\* A hit is of the model that was asked for and similar enough, however many
\* prompts share an id, whatever evictions, failures and other requests come
\* between, unless a store of that id was torn or came between (lookup, store).
THEOREM Hits == Spec => []HitsMatch
BY CacheInductive, PTL DEF CacheInv

\* lookup cleans up a field whose answer is there only where a store of it came
\* between its two commands.
THEOREM Cleans == Spec => []CleansStale
BY CacheInductive, PTL DEF CacheInv

----------------------------------------------------------------------------
(* Outbound implements CircuitBreaker.                                     *)

\* The breaker of a provider is what its deadline says.
LEMMA BreakerShows ==
  ASSUME HealthTypeOK, NEW w \in Workers, NEW p \in Providers
  PROVE  /\ breaker[w][p] = BreakerOf(cooldown[w][p])
         /\ breaker[w][p] \in {"closed", "open", "trial"}
         /\ (breaker[w][p] = "closed") <=> (cooldown[w][p] = "none")
         /\ (breaker[w][p] = "open") <=> (cooldown[w][p] = "running")
         /\ (breaker[w][p] = "trial") <=> (cooldown[w][p] = "over")
<1>1. breaker[w][p] = BreakerOf(cooldown[w][p])
  BY DEF breaker
<1>2. cooldown[w][p] \in {"none", "running", "over"}
  BY DEF HealthTypeOK
<1> QED BY <1>1, <1>2 DEF BreakerOf

\* ... and so it is after a step.
LEMMA BreakerShowsNext ==
  ASSUME HealthTypeOK', NEW w \in Workers, NEW p \in Providers
  PROVE  /\ breaker'[w][p] = BreakerOf(cooldown'[w][p])
         /\ breaker'[w][p] \in {"closed", "open", "trial"}
         /\ (breaker'[w][p] = "closed") <=> (cooldown'[w][p] = "none")
         /\ (breaker'[w][p] = "open") <=> (cooldown'[w][p] = "running")
         /\ (breaker'[w][p] = "trial") <=> (cooldown'[w][p] = "over")
<1>1. breaker'[w][p] = BreakerOf(cooldown'[w][p])
  BY DEF breaker
<1>2. cooldown'[w][p] \in {"none", "running", "over"}
  BY DEF HealthTypeOK
<1> QED BY <1>1, <1>2 DEF BreakerOf

\* Deadlines that stay leave the breakers as they are.
LEMMA BreakerStays == cooldown' = cooldown => breaker' = breaker
BY DEF breaker

\* A step that changes the deadlines of one worker changes its breakers only.
LEMMA BreakerOfOne ==
  ASSUME NEW w \in Workers, \A v \in Workers \ {w} : cooldown'[v] = cooldown[v]
  PROVE  /\ breaker' = [breaker EXCEPT ![w] = breaker'[w]]
         /\ breaker'[w] = [p \in Providers |-> breaker'[w][p]]
<1>1. \A v \in Workers \ {w} : breaker'[v] = breaker[v]
  BY DEF breaker
<1>2. /\ breaker \in [Workers -> [Providers -> {BreakerOf(cooldown[v][p]) : v \in Workers, p \in Providers}]]
      /\ breaker' = [v \in Workers |-> breaker'[v]]
      /\ breaker'[w] = [p \in Providers |-> breaker'[w][p]]
  BY DEF breaker
<1> QED BY <1>1, <1>2

\* The abstract breakers after a report: the counts, the deadline that a failure
\* sets and the checks of the chain are one failure of the circuit breaker.
LEMMA RecordedIsFailed ==
  ASSUME HealthInv, HealthTypeOK', NEW c \in Calls, NEW w \in Workers,
         call[c].state = "failed", Recorded(c, w)
  PROVE  CB!Failed(w, ProviderOf[call[c].model])
<1> DEFINE p == ProviderOf[call[c].model]
<1>1. p \in Providers /\ \A v \in Workers \ {w} : cooldown'[v] = cooldown[v]
  <2>1. p \in Providers
    BY HealthAssumption DEF HealthInv, CallShape
  <2> QED BY <2>1, RecordedMemory
<1>2. cooldown'[w][p] # "over"
  BY <1>1, RecordedMemory
<1>3. cooldown[w][p] # "none" => cooldown'[w][p] # "none"
  <2> SUFFICES ASSUME cooldown[w][p] # "none" PROVE cooldown'[w][p] # "none"
    OBVIOUS
  <2>1. failures[w][p] = FailureThreshold
    BY <1>1 DEF HealthInv, BreakerConsistent
  <2>2. failures'[w][p] = FailureThreshold
    BY <1>1, <2>1, RecordedMemory, HealthAssumption DEF Counted
  <2> QED BY <1>1, <2>2, RecordedMemory
<1>4. ASSUME NEW q \in Providers \ {p}, breaker'[w][q] # breaker[w][q]
      PROVE  breaker[w][q] = "trial" /\ breaker'[w][q] = "closed"
  <2>1. \/ cooldown'[w][q] = cooldown[w][q]
        \/ cooldown'[w][q] = "none" /\ cooldown[w][q] = "over"
    BY <1>4, RecordedMemory
  <2>2. HealthTypeOK
    BY DEF HealthInv
  <2> QED BY <1>4, <2>1, <2>2, BreakerShows, BreakerShowsNext
<1>5. breaker'[w][p] \in {"closed", "open"} /\ (breaker[w][p] # "closed" => breaker'[w][p] = "open")
  <2>1. HealthTypeOK
    BY DEF HealthInv
  <2> QED BY <1>1, <1>2, <1>3, <2>1, BreakerShows, BreakerShowsNext
<1>6. breaker' = [breaker EXCEPT ![w] = breaker'[w]]
  BY <1>1, BreakerOfOne
<1> QED BY <1>4, <1>5, <1>6 DEF CB!Failed

\* The models of a chain are those of the abstract one.
LEMMA ChainOf ==
  ASSUME NEW m \in Models, NEW n \in CB!Members(m)
  PROVE  \E i \in DOMAIN Chain[m] : n = Chain[m][i]
BY DEF CB!Members

\* resolve_fallback sends a call to a provider whose breaker is closed.
LEMMA RedirectIsReport ==
  ASSUME HealthInv, HealthTypeOK', NEW c \in Calls, NEW w \in Workers, Redirect(c, w)
  PROVE  CB!Report(c, w)
<1>1. call[c].state = "failed" /\ Recorded(c, w)
  BY DEF Redirect
<1>2. PICK i \in Viable(c, w) :
        call' = [call EXCEPT ![c] = [state |-> "calling", model |-> Chain[call[c].model][i]]]
  BY DEF Redirect
<1> DEFINE n == Chain[call[c].model][i]
<1>3. ProviderOf[n] \in Providers /\ cooldown'[w][ProviderOf[n]] = "none"
  BY <1>1, ViableIsClosed
<1>4. breaker'[w][ProviderOf[n]] = "closed"
  BY <1>3, BreakerShowsNext
<1>5. n \in CB!Members(call[c].model)
  BY DEF Viable, CB!Members
<1>6. CB!Failed(w, ProviderOf[call[c].model])
  BY <1>1, RecordedIsFailed
<1> QED BY <1>1, <1>2, <1>4, <1>5, <1>6 DEF CB!Report

\* It turns a call away only when every breaker of the chain is open.
LEMMA NoFallbackIsReport ==
  ASSUME HealthInv, HealthTypeOK', NEW c \in Calls, NEW w \in Workers, NoFallback(c, w)
  PROVE  CB!Report(c, w)
<1> DEFINE m == call[c].model
           deadlines == DeadlinesAfter(w, ProviderOf[m])
<1>1. call[c].state = "failed" /\ Recorded(c, w) /\ Viable(c, w) = {}
  BY DEF NoFallback
<1>2. m \in Models /\ call' = [call EXCEPT ![c] = [state |-> "refused", model |-> Nothing]]
  BY <1>1 DEF NoFallback, End, HealthInv, CallShape
<1>3. ASSUME NEW n \in CB!Members(m)
      PROVE  breaker'[w][ProviderOf[n]] = "open"
  <2>1. PICK i \in DOMAIN Chain[m] : n = Chain[m][i]
    BY <1>2, ChainOf
  <2>2. ProviderOf[n] \in Cooling(deadlines)
    BY <1>1, <2>1 DEF Viable
  <2>3. ProviderOf[n] \in Providers /\ deadlines[ProviderOf[n]] \notin {"none", "over"}
    BY <2>2 DEF Cooling, Lapsed
  <2>4. cooldown'[w][ProviderOf[n]] = deadlines[ProviderOf[n]]
    BY <1>1, <2>3 DEF Recorded, Forget, Lapsed, HealthInv, HealthTypeOK
  <2>5. cooldown'[w][ProviderOf[n]] = "running"
    BY <2>3, <2>4 DEF HealthTypeOK
  <2> QED BY <2>3, <2>5, BreakerShowsNext
<1>4. CB!Failed(w, ProviderOf[m])
  BY <1>1, RecordedIsFailed
<1> QED BY <1>1, <1>2, <1>3, <1>4 DEF CB!Report

\* A lost answer leaves the call where it is.
LEMMA AnswerLostIsReport ==
  ASSUME HealthInv, HealthTypeOK', NEW c \in Calls, NEW w \in Workers, AnswerLost(c, w)
  PROVE  CB!Report(c, w)
<1>1. call[c].state = "failed" /\ Recorded(c, w) /\ UNCHANGED call
  BY DEF AnswerLost
<1>2. CB!Failed(w, ProviderOf[call[c].model])
  BY <1>1, RecordedIsFailed
<1> QED BY <1>1, <1>2 DEF CB!Report

\* A status that is asked for closes what was on trial.
LEMMA ShowHealthIsClose ==
  ASSUME HealthInv, HealthTypeOK', NEW w \in Workers, ShowHealth(w)
  PROVE  CB!Close(w)
<1>1. /\ cooldown \in [Workers -> [Providers -> {"none", "running", "over"}]]
      /\ HealthTypeOK
  BY DEF HealthInv, HealthTypeOK
<1>2. /\ cooldown' = [cooldown EXCEPT ![w] =
                        [p \in Providers |-> IF p \in Lapsed(cooldown[w]) THEN "none" ELSE cooldown[w][p]]]
      /\ UNCHANGED call
  BY DEF ShowHealth, Forget
<1>3. \A v \in Workers \ {w} : cooldown'[v] = cooldown[v]
  BY <1>1, <1>2
<1>4. ASSUME NEW p \in Providers
      PROVE  breaker'[w][p] = IF breaker[w][p] = "trial" THEN "closed" ELSE breaker[w][p]
  <2>1. cooldown'[w][p] = IF cooldown[w][p] = "over" THEN "none" ELSE cooldown[w][p]
    BY <1>1, <1>2 DEF Lapsed
  <2>2. CASE cooldown[w][p] = "over"
    BY <1>1, <2>1, <2>2, BreakerShows, BreakerShowsNext
  <2>3. CASE cooldown[w][p] # "over"
    BY <1>1, <2>1, <2>3, BreakerShows, BreakerShowsNext
  <2> QED BY <2>2, <2>3
<1>5. breaker'[w] = [p \in Providers |-> IF breaker[w][p] = "trial" THEN "closed" ELSE breaker[w][p]]
  BY <1>3, <1>4, BreakerOfOne
<1> QED BY <1>2, <1>3, <1>5, BreakerOfOne DEF CB!Close

\* The end of a cooldown puts an open provider on trial.
LEMMA CooldownIsCool ==
  ASSUME HealthInv, HealthTypeOK', NEW w \in Workers, NEW p \in Providers, CooldownPasses(w, p)
  PROVE  CB!Cool(w, p)
<1>1. /\ cooldown \in [Workers -> [Providers -> {"none", "running", "over"}]]
      /\ HealthTypeOK
  BY DEF HealthInv, HealthTypeOK
<1>2. cooldown[w][p] = "running" /\ cooldown' = [cooldown EXCEPT ![w][p] = "over"] /\ UNCHANGED call
  BY DEF CooldownPasses
<1>3. breaker[w][p] = "open" /\ breaker'[w][p] = "trial"
  BY <1>1, <1>2, BreakerShows, BreakerShowsNext
<1>4. \A v \in Workers \ {w} : cooldown'[v] = cooldown[v]
  BY <1>1, <1>2
<1>5. ASSUME NEW q \in Providers \ {p} PROVE breaker'[w][q] = breaker[w][q]
  <2>1. cooldown'[w][q] = cooldown[w][q]
    BY <1>1, <1>2
  <2> QED BY <2>1 DEF breaker
<1>6. breaker[w] = [q \in Providers |-> breaker[w][q]] /\ breaker'[w] = [q \in Providers |-> breaker'[w][q]]
  BY DEF breaker
<1>7. breaker'[w] = [breaker[w] EXCEPT ![p] = "trial"]
  BY <1>3, <1>5, <1>6
<1> QED BY <1>2, <1>3, <1>4, <1>7, BreakerOfOne DEF CB!Cool

\* A new process closes all.
LEMMA RestartIsReplace ==
  ASSUME HealthInv, HealthTypeOK', NEW w \in Workers, Restart(w)
  PROVE  CB!Replace(w)
<1>1. cooldown \in [Workers -> [Providers -> {"none", "running", "over"}]]
  BY DEF HealthInv, HealthTypeOK
<1>2. /\ cooldown' = [cooldown EXCEPT ![w] =
                        [p \in Providers |-> IF p \in Providers THEN "none" ELSE cooldown[w][p]]]
      /\ UNCHANGED call
  BY DEF Restart, Forget
<1>3. \A v \in Workers \ {w} : cooldown'[v] = cooldown[v]
  BY <1>1, <1>2
<1>4. ASSUME NEW p \in Providers PROVE breaker'[w][p] = "closed"
  <2>1. cooldown'[w][p] = "none"
    BY <1>1, <1>2
  <2> QED BY <2>1, BreakerShowsNext
<1>5. breaker'[w] = [p \in Providers |-> "closed"]
  BY <1>3, <1>4, BreakerOfOne
<1> QED BY <1>2, <1>3, <1>5, BreakerOfOne DEF CB!Replace

\* What a client does by itself leaves the breakers alone.
LEMMA ClientSteps ==
  ASSUME HealthInv, NEW c \in Calls, cooldown' = cooldown,
         AskNext(c) \/ ReportCall(c) \/ ProviderAnswers(c) \/ ProviderFails(c) \/ NotRetryable(c)
  PROVE  CB!Client(c)
<1>1. breaker' = breaker
  BY BreakerStays
<1>2. call \in [Calls -> [state : States, model : Models \cup {Nothing}]]
  BY DEF HealthInv, HealthTypeOK
<1>3. CASE AskNext(c)
  BY <1>1, <1>3 DEF AskNext, Ask, Ended, CB!Client
<1>4. CASE ReportCall(c)
  BY <1>1, <1>4 DEF ReportCall, End, CB!Client
<1>5. CASE ProviderAnswers(c)
  <2>1. [call[c] EXCEPT !.state = "served"] = [state |-> "served", model |-> call[c].model]
    BY <1>2
  <2> QED BY <1>1, <1>5, <2>1 DEF ProviderAnswers, End, CB!Client
<1>6. CASE ProviderFails(c)
  BY <1>1, <1>6 DEF ProviderFails, CB!Client
<1>7. CASE NotRetryable(c)
  BY <1>1, <1>7 DEF NotRetryable, End, CB!Client
<1> QED BY <1>3, <1>4, <1>5, <1>6, <1>7

LEMMA BreakerInitial == HealthInit => CB!BreakerInit
BY DEF HealthInit, CB!BreakerInit, breaker, BreakerOf

\* Every step of the workers and the clients is one of the circuit breaker.
LEMMA BreakerStep ==
  HealthInv /\ HealthTypeOK' /\ [OutboundNext]_outboundVars => [CB!BreakerNext]_(CB!breakerVars)
<1> SUFFICES ASSUME HealthInv, HealthTypeOK', [OutboundNext]_outboundVars
             PROVE  [CB!BreakerNext]_(CB!breakerVars)
  OBVIOUS
<1>1. ASSUME NEW c \in Calls, AskNext(c) \/ ReportCall(c) PROVE CB!BreakerNext
  <2>1. cooldown' = cooldown
    BY <1>1 DEF AskNext, Ask, ReportCall
  <2> QED BY <1>1, <2>1, ClientSteps DEF CB!BreakerNext
<1>2. ASSUME NEW c \in Calls, ProviderAnswers(c) \/ ProviderFails(c) \/ NotRetryable(c)
      PROVE  CB!BreakerNext
  <2>1. cooldown' = cooldown
    BY <1>2 DEF ProviderAnswers, ProviderFails, NotRetryable
  <2> QED BY <1>2, <2>1, ClientSteps DEF CB!BreakerNext
<1>3. ASSUME NEW c \in Calls, NEW w \in Workers, Redirect(c, w) \/ NoFallback(c, w) \/ AnswerLost(c, w)
      PROVE  CB!BreakerNext
  BY <1>3, RedirectIsReport, NoFallbackIsReport, AnswerLostIsReport DEF CB!BreakerNext
<1>4. ASSUME NEW w \in Workers, ShowHealth(w) \/ Restart(w) PROVE CB!BreakerNext
  BY <1>4, ShowHealthIsClose, RestartIsReplace DEF CB!BreakerNext
<1>5. ASSUME NEW w \in Workers, NEW p \in Providers, CooldownPasses(w, p) PROVE CB!BreakerNext
  BY <1>5, CooldownIsCool DEF CB!BreakerNext
<1>6. CASE UNCHANGED healthVars
  <2>1. call' = call /\ cooldown' = cooldown
    BY <1>6 DEF healthVars
  <2> QED BY <2>1, BreakerStays DEF CB!breakerVars
<1> QED BY <1>1, <1>2, <1>3, <1>4, <1>5, <1>6 DEF OutboundNext, HealthStep, outboundVars

\* Every behaviour of the clients and the workers, whatever the counts, chains,
\* lapsing deadlines, lost answers and restarts, is one of the circuit breaker:
\* nobody is sent to a provider that is open or on trial, or turned away while a
\* provider of its chain is closed (record_failure, is_healthy, resolve_fallback).
THEOREM BreakerImplemented == Spec => ImplementsBreaker
<1>1. OutboundInit => CB!BreakerInit
  BY BreakerInitial DEF OutboundInit
<1>2. HealthInv => HealthTypeOK
  BY DEF HealthInv
<1> QED BY <1>1, <1>2, HealthInductive, BreakerStep, PTL DEF Spec, ImplementsBreaker, CB!BreakerSpec

\* Types of the two halves together.
THEOREM OutboundTypes == Spec => []OutboundTypeOK
BY HealthTypes, CacheTypes, PTL DEF OutboundTypeOK
============================================================================
