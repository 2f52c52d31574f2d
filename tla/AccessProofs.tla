---------------------------- MODULE AccessProofs ----------------------------
(***************************************************************************)
(* Theorems about Access, for any number of requests, workers, users, keys *)
(* and providers, any limits and any lives of tokens.  The first part says *)
(* how a step moves requests (Flow); each component's invariant then looks *)
(* only at its own steps and at what Flow says of the others.              *)
(***************************************************************************)
EXTENDS Access, FiniteSetTheorems, TLAPS

TokenNames == {"login", "refresh"} \cup UserOps

Ended == {"refused", "done", "cut"}

\* Requests that a step of one component moves: only those with its names get
\* on; the others are cut off, or answered before they have begun.
Moved(r, names) ==
  /\ arrival'[r] = arrival[r]
  /\ \/ pc'[r] = pc[r]
     \/ pc[r] \in InProgress /\ pc'[r] = "cut"
     \/ pc[r] = "admitted" /\ pc'[r] = "done"
     \/ pc[r] \in InProgress /\ pc'[r] \in InProgress \cup {"done"} /\ Op(r).name \in names

Arrived(r) ==
  /\ pc'[r] \in {"new", "admitted", "refused"}
  /\ pc'[r] = "admitted" =>
       \A q \in Requests : pc'[q] \in InProgress /\ q # r => {r, q} \in met'

Flow(names) ==
  /\ met \subseteq met'
  /\ \A r \in Requests : IF pc[r] = "new" THEN Arrived(r) ELSE Moved(r, names)

----------------------------------------------------------------------------
(* Steps move requests as Flow says *)

\* A step that gives one request in progress another label is a Flow.
LEMMA OneMoves ==
  ASSUME NEW r \in Requests, NEW l, NEW names, RequestsTypeOK,
         pc[r] \in InProgress, pc' = [pc EXCEPT ![r] = l],
         UNCHANGED <<now, arrival, met>>,
         \/ l \in InProgress \cup {"done"} /\ Op(r).name \in names
         \/ l = "done" /\ pc[r] = "admitted"
  PROVE  Flow(names) /\ RequestsTypeOK'
<1>1. pc \in [Requests -> Labels]
  BY DEF RequestsTypeOK
<1>2. ASSUME NEW q \in Requests, pc[q] = "new" PROVE Arrived(q)
  <2>1. pc'[q] = "new"
    BY <1>1, <1>2 DEF InProgress
  <2> QED
    BY <2>1 DEF Arrived
<1>3. ASSUME NEW q \in Requests, pc[q] # "new" PROVE Moved(q, names)
  BY <1>1, <1>3 DEF Moved
<1>4. RequestsTypeOK'
  <2>1. pc' \in [Requests -> Labels]
    BY <1>1 DEF InProgress, Labels
  <2>2. \A q \in Requests : pc'[q] # "new" => pc[q] # "new"
    BY <1>1 DEF InProgress
  <2> QED
    BY <2>1, <2>2 DEF RequestsTypeOK
<1> QED
  BY <1>2, <1>3, <1>4 DEF Flow

LEMMA NothingMoves ==
  ASSUME RequestsTypeOK, UNCHANGED requestVars, NEW names
  PROVE  Flow(names) /\ RequestsTypeOK'
BY DEF Flow, Moved, Arrived, InProgress, requestVars, RequestsTypeOK

LEMMA TickFlow ==
  ASSUME RequestsTypeOK, Tick, NEW names
  PROVE  Flow(names) /\ RequestsTypeOK'
BY DEF Flow, Moved, Arrived, InProgress, Tick, RequestsTypeOK

LEMMA SweptType ==
  ASSUME LimiterTypeOK, NEW w \in Workers, NEW o \in Operations
  PROVE  /\ Swept(w) \in [RateKeys -> SUBSET Requests]
         /\ RateKey(o) \in RateKeys
         /\ Swept(w)[RateKey(o)] \subseteq Requests
<1>1. Swept(w) \in [RateKeys -> SUBSET Requests]
  BY DEF LimiterTypeOK, Swept, InWindow
<1>2. RateKey(o) \in RateKeys
  BY DEF RateKey, RateKeys, AuthPaths
<1> QED
  BY <1>1, <1>2

LEMMA ArriveFlow ==
  ASSUME RequestsTypeOK, LimiterTypeOK, NEW r \in Requests, NEW w \in Workers, NEW o \in Operations,
         Arrive(r, w, o), NEW names
  PROVE  Flow(names) /\ RequestsTypeOK'
<1>1. pc \in [Requests -> Labels] /\ DOMAIN arrival = Requests
  BY DEF RequestsTypeOK
<1>2. pc[r] = "new" /\ \A q \in Requests : q # r => arrival'[q] = arrival[q] /\ pc'[q] = pc[q]
  BY <1>1 DEF Arrive, Admit, Refuse, Goto
<1>3. ASSUME Admit(r, w, o) PROVE Flow(names)
  <2>1. pc'[r] = "admitted" /\ met \subseteq met'
    BY <1>1, <1>3 DEF Admit, Goto
  <2>2. \A q \in Requests : pc[q] \in InProgress => {r, q} \in met'
    BY <1>3 DEF Admit
  <2> QED
    BY <1>2, <2>1, <2>2 DEF Flow, Moved, Arrived, InProgress
<1>4. ASSUME Refuse(r, w, o) PROVE Flow(names)
  <2>1. pc'[r] = "refused" /\ met' = met
    BY <1>1, <1>4 DEF Refuse, Goto
  <2> QED
    BY <1>2, <2>1 DEF Flow, Moved, Arrived, InProgress
<1>5. RequestsTypeOK'
  <2>1. pc' \in [Requests -> Labels]
    BY <1>1 DEF Arrive, Admit, Refuse, Goto, Labels
  <2>2. met' \subseteq SUBSET Requests
    BY DEF Arrive, Admit, Refuse, RequestsTypeOK
  <2>3. \E retry \in Int :
          arrival' = [arrival EXCEPT ![r] = [op |-> o, worker |-> w, time |-> now, retry |-> retry]]
    <3>1. CASE Admit(r, w, o)
      <4>1. arrival' = [arrival EXCEPT ![r] = [op |-> o, worker |-> w, time |-> now, retry |-> 0]]
        BY <3>1 DEF Admit
      <4>2. 0 \in Int
        OBVIOUS
      <4> QED
        BY <4>1, <4>2, Zenon
    <3>2. CASE Refuse(r, w, o)
      <4>1. InWindow(Swept(w)[RateKey(o)]) \subseteq Swept(w)[RateKey(o)]
        BY DEF InWindow
      <4>2. PICK q \in Requests : arrival' = [arrival EXCEPT ![r] =
              [op |-> o, worker |-> w, time |-> now, retry |-> RetryAfter(arrival[q].time)]]
        BY <3>2, <4>1, SweptType DEF Refuse
      <4>3. RetryAfter(arrival[q].time) \in Int
        BY <4>2, LimiterAssumption DEF RetryAfter, RequestsTypeOK
      <4> QED
        BY <4>2, <4>3
    <3> QED
      BY <3>1, <3>2 DEF Arrive
  <2>4. now' = now
    BY DEF Arrive
  <2> QED
    BY <2>1, <2>2, <2>3, <2>4, <1>2 DEF RequestsTypeOK
<1> QED
  BY <1>3, <1>4, <1>5 DEF Arrive

LEMMA RestartFlow ==
  ASSUME RequestsTypeOK, NEW w, Restart(w), NEW names
  PROVE  Flow(names) /\ RequestsTypeOK'
<1>1. \A q \in Requests : pc'[q] = IF arrival[q].worker = w /\ pc[q] \in InProgress THEN "cut" ELSE pc[q]
  BY DEF Restart
<1>2. Flow(names)
  BY <1>1 DEF Restart, Flow, Moved, Arrived, InProgress
<1>3. pc' \in [Requests -> Labels]
  BY DEF Restart, RequestsTypeOK, Labels
<1> QED
  BY <1>1, <1>2, <1>3 DEF Restart, RequestsTypeOK, InProgress

LEMMA TokensFlow ==
  ASSUME RequestsTypeOK, TokensStep
  PROVE  Flow(TokenNames) /\ RequestsTypeOK'
<1>1. CASE \E q \in Issuers : EntryLost(q) /\ UNCHANGED requestVars
  BY <1>1, NothingMoves
<1>2. ASSUME NEW r \in Requests,
             \/ LoginRead(r) \/ LoginRefused(r)
             \/ RefreshAsk(r) \/ RefreshRefused(r) \/ RefreshMark(r)
             \/ RefreshRead(r) \/ RefreshUserGone(r) \/ IssuePair(r)
             \/ Answered(r) \/ UserRead(r) \/ UserRefused(r) \/ UserCommit(r) \/ UserConflict(r)
      PROVE  Flow(TokenNames) /\ RequestsTypeOK'
  <2>1. UNCHANGED <<now, arrival, met>>
    BY <1>2 DEF LoginRead, LoginRefused, RefreshAsk, RefreshRefused, RefreshMark, RefreshRead,
       RefreshUserGone, IssuePair, Answered, UserRead, UserRefused, UserCommit, UserConflict,
       Finish, Continue
  <2>2. \E l \in InProgress \cup {"done"} :
          /\ pc[r] \in InProgress /\ pc' = [pc EXCEPT ![r] = l]
          /\ Op(r).name \in TokenNames \/ (l = "done" /\ pc[r] = "admitted")
    <3>1. CASE LoginRead(r) \/ LoginRefused(r) \/ RefreshAsk(r) \/ RefreshRefused(r) \/ RefreshMark(r)
      BY <3>1 DEF LoginRead, LoginRefused, RefreshAsk, RefreshRefused, RefreshMark,
         Finish, Continue, Goto, InProgress, Labels, TokenNames
    <3>2. CASE RefreshRead(r) \/ RefreshUserGone(r) \/ IssuePair(r) \/ Answered(r)
      BY <3>2 DEF RefreshRead, RefreshUserGone, IssuePair, Answered,
         Finish, Continue, Goto, InProgress, Labels, TokenNames
    <3>3. CASE UserRead(r) \/ UserRefused(r) \/ UserCommit(r) \/ UserConflict(r)
      BY <3>3 DEF UserRead, UserRefused, UserCommit, UserConflict, NameTaken,
         Finish, Continue, Goto, InProgress, Labels, TokenNames, UserOps
    <3> QED
      BY <1>2, <3>1, <3>2, <3>3
  <2> QED
    BY <2>1, <2>2, OneMoves
<1> QED
  BY <1>1, <1>2 DEF TokensStep

LEMMA KeysFlow ==
  ASSUME RequestsTypeOK, NEW r \in Requests, KeysBegin(r) \/ KeysEnd(r)
  PROVE  Flow(KeyOps \cup CredOps) /\ RequestsTypeOK'
<1>1. UNCHANGED <<now, arrival, met>>
  BY DEF KeysBegin, KeysEnd, CreateKey, KeyRead, KeyMissing, CredRead, CredUnread, RevokeCommit,
     RotateCommit, SetCommit, KeyStep
<1>2. \E l \in InProgress \cup {"done"} :
        /\ pc[r] \in InProgress /\ pc' = [pc EXCEPT ![r] = l]
        /\ Op(r).name \in KeyOps \cup CredOps
  BY DEF KeysBegin, KeysEnd, CreateKey, KeyRead, KeyMissing, CredRead, CredUnread, RevokeCommit,
     RotateCommit, SetCommit, KeyStep, Goto, InProgress, Labels, KeyOps, CredOps
<1> QED
  BY <1>1, <1>2, OneMoves

LEMMA TermsFlow ==
  ASSUME RequestsTypeOK, NEW r \in Requests, TermsBegin(r) \/ TermsGo(r)
  PROVE  Flow(TermOps) /\ RequestsTypeOK'
<1>1. UNCHANGED <<now, arrival, met>>
  BY DEF TermsBegin, TermsGo, PriceRead, PriceUnread, ContractShown, ContractRead, ContractRefused, PriceCommit,
     ContractCommit, ContractConflict, RewriteRead, RewriteUnanswered, Deactivate, Number,
     RewriteCommit, TermStep
<1>2. \E l \in InProgress \cup {"done"} :
        /\ pc[r] \in InProgress /\ pc' = [pc EXCEPT ![r] = l]
        /\ Op(r).name \in TermOps
  BY DEF TermsBegin, TermsGo, PriceRead, PriceUnread, ContractShown, ContractRead, ContractRefused, PriceCommit,
     ContractCommit, ContractConflict, RewriteRead, RewriteUnanswered, Deactivate, Number,
     RewriteCommit, TermStep, Goto, InProgress, Labels, TermOps, ContractOps, Upserts
<1> QED
  BY <1>1, <1>2, OneMoves

----------------------------------------------------------------------------
(* Types *)

LEMMA LimiterTypes ==
  ASSUME RequestsTypeOK, LimiterTypeOK,
         \/ \E r \in Requests, w \in Workers, o \in Operations : Arrive(r, w, o)
         \/ \E w \in Workers : Restart(w)
  PROVE  LimiterTypeOK'
<1>1. ASSUME NEW r \in Requests, NEW w \in Workers, NEW o \in Operations, Arrive(r, w, o)
      PROVE  LimiterTypeOK'
  <2>1. /\ Swept(w) \in [RateKeys -> SUBSET Requests]
        /\ RateKey(o) \in RateKeys
        /\ InWindow(Swept(w)[RateKey(o)]) \subseteq Requests
    BY SweptType DEF InWindow
  <2>2. recent' \in [Workers -> [RateKeys -> SUBSET Requests]]
    <3>1. CASE Admit(r, w, o)
      <4>1. PICK list \in [RateKeys -> SUBSET Requests] : recent' = [recent EXCEPT ![w] = list]
        <5>1. InWindow(Swept(w)[RateKey(o)]) \cup {r} \in SUBSET Requests
          BY <2>1
        <5>2. [Swept(w) EXCEPT ![RateKey(o)] = InWindow(Swept(w)[RateKey(o)]) \cup {r}]
                \in [RateKeys -> SUBSET Requests]
          BY <2>1, <5>1
        <5> QED
          BY <3>1, <5>2 DEF Admit
      <4> QED
        BY <4>1 DEF LimiterTypeOK
    <3>2. CASE Refuse(r, w, o)
      <4>1. PICK list \in [RateKeys -> SUBSET Requests] : recent' = [recent EXCEPT ![w] = list]
        <5>1. [Swept(w) EXCEPT ![RateKey(o)] = InWindow(Swept(w)[RateKey(o)])]
                \in [RateKeys -> SUBSET Requests]
          BY <2>1
        <5> QED
          BY <3>2, <5>1 DEF Refuse
      <4> QED
        BY <4>1 DEF LimiterTypeOK
    <3> QED
      BY <1>1, <3>1, <3>2 DEF Arrive
  <2>3. cleaned' \in [Workers -> Nat]
    BY <1>1 DEF Arrive, LimiterTypeOK, RequestsTypeOK
  <2>4. served' \in [Workers -> SUBSET Requests]
    BY <1>1 DEF Arrive, LimiterTypeOK
  <2> QED
    BY <2>2, <2>3, <2>4 DEF LimiterTypeOK
<1>2. ASSUME NEW w \in Workers, Restart(w)
      PROVE  LimiterTypeOK'
  BY <1>2 DEF Restart, LimiterTypeOK, RequestsTypeOK
<1> QED
  BY <1>1, <1>2

\* Accounts are named by operations that are well-formed.
LEMMA Targets ==
  ASSUME RequestsTypeOK, NEW r \in Requests, pc[r] # "new"
  PROVE  /\ Op(r) \in Operation /\ WellFormed(Op(r))
         /\ Op(r).name \in UserOps \cup {"login"} => Op(r).on \in Users
         /\ Op(r).name \in {"rotate_key", "revoke_key"} => Op(r).on \in KeyIds
         /\ Op(r).name \in CredOps => Op(r).on \in Providers
         /\ Op(r).name \notin {"login", "rewrite"} => Op(r).by \in Issuers
<1>1. Op(r) \in Operations
  BY DEF RequestsTypeOK, Op
<1> QED
  BY <1>1, RequestsAssumption DEF WellFormed

\* A request that goes on with an exchange or a change has shown a token that
\* was issued.
Acting ==
  \A r \in Requests :
    pc[r] \in {"asked", "loaded", "marked"} /\ Op(r).name \in {"refresh"} \cup UserOps
      => Issued(Op(r).by)

\* Only a request that is done has issued a pair, so that a pair never changes.
IssuedDone == \A q \in Requests : Issued(q) => pc[q] = "done"

TokensBase == TokensTypeOK /\ Acting /\ IssuedDone

LEMMA ActorIsUser ==
  ASSUME RequestsTypeOK, TokensTypeOK, NEW r \in Requests, pc[r] # "new",
         Op(r).name \notin {"login", "rewrite"}, Issued(Op(r).by)
  PROVE  Actor(r) \in Users /\ user[Actor(r)] \in Rows
<1>1. Op(r).by \in Issuers
  BY Targets
<1>2. pair[Op(r).by].user \in Users \cup {Nothing}
  BY <1>1 DEF TokensTypeOK
<1> QED
  BY <1>2 DEF Issued, Actor, TokensTypeOK

LEMMA ChangedType ==
  ASSUME RequestsTypeOK, TokensTypeOK, NEW r \in Requests, pc[r] = "loaded",
         Op(r).name \in UserOps
  PROVE  Op(r).on \in Users /\ Changed(r) \in Rows
<1>1. /\ Op(r).on \in Users
      /\ Op(r).role \in Roles \cup {"keep"} /\ Op(r).active \in Switches \cup {"keep"}
  BY Targets DEF Operation
<1>2. user[Op(r).on] \in Rows /\ row[r] \in Rows
  BY <1>1 DEF TokensTypeOK
<1>3. Set(row[r].role, Op(r).role) \in Roles
  BY <1>1, <1>2 DEF Set, Rows
<1>4. Set(row[r].status, Op(r).active) \in Switches \cup {"absent"}
  BY <1>1, <1>2 DEF Set, Rows
<1> QED
  BY <1>1, <1>2, <1>3, <1>4 DEF Changed, Written, Rows

LEMMA TokensTypes ==
  ASSUME RequestsTypeOK, TokensTypeOK, Acting, TokensStep
  PROVE  TokensTypeOK'
<1>1. CASE \E q \in Issuers : EntryLost(q) /\ UNCHANGED requestVars
  BY <1>1 DEF EntryLost, TokensTypeOK
<1>2. ASSUME NEW r \in Requests, LoginRead(r)
      PROVE  TokensTypeOK'
  <2>1. Op(r).on \in Users
    BY <1>2, Targets DEF LoginRead
  <2> QED
    BY <1>2, <2>1 DEF LoginRead, TokensTypeOK
<1>3. ASSUME NEW r \in Requests,
             \/ LoginRefused(r) \/ RefreshRefused(r) \/ RefreshUserGone(r) \/ Answered(r)
             \/ UserRefused(r) \/ UserConflict(r)
      PROVE  TokensTypeOK'
  BY <1>3 DEF LoginRefused, RefreshRefused, RefreshUserGone, Answered, UserRefused, UserConflict,
     tokenVars, TokensTypeOK
<1>4. ASSUME NEW r \in Requests, RefreshAsk(r) \/ RefreshMark(r)
      PROVE  TokensTypeOK'
  <2>1. Op(r).by \in Issuers
    BY <1>4, Targets DEF RefreshAsk, RefreshMark
  <2>2. CASE RefreshAsk(r)
    BY <2>1, <2>2 DEF RefreshAsk, TokensTypeOK
  <2>3. CASE RefreshMark(r)
    BY <2>1, <2>3 DEF RefreshMark, TokensTypeOK
  <2> QED
    BY <1>4, <2>2, <2>3
<1>5. ASSUME NEW r \in Requests, RefreshRead(r)
      PROVE  TokensTypeOK'
  <2>1. user[Actor(r)] \in Rows
    BY <1>5, ActorIsUser DEF RefreshRead, Acting
  <2> QED
    BY <1>5, <2>1 DEF RefreshRead, TokensTypeOK
<1>6. ASSUME NEW r \in Requests, IssuePair(r)
      PROVE  TokensTypeOK'
  <2>1. Subject(r) \in Users
    <3>1. CASE Op(r).name = "login"
      BY <1>6, <3>1, Targets DEF IssuePair, Subject
    <3>2. CASE Op(r).name = "refresh"
      BY <1>6, <3>2, ActorIsUser DEF IssuePair, Subject, Acting
    <3> QED
      BY <1>6, <3>1, <3>2 DEF IssuePair
  <2>2. row[r].role \in Roles
    BY DEF TokensTypeOK, Rows
  <2> QED
    BY <1>6, <2>1, <2>2 DEF IssuePair, TokensTypeOK, RequestsTypeOK, Issuers
<1>7. ASSUME NEW r \in Requests, UserRead(r)
      PROVE  TokensTypeOK'
  <2>1. Op(r).on \in Users
    BY <1>7, Targets DEF UserRead
  <2> QED
    BY <1>7, <2>1 DEF UserRead, TokensTypeOK
<1>8. ASSUME NEW r \in Requests, UserCommit(r)
      PROVE  TokensTypeOK'
  <2>1. Op(r).on \in Users /\ Changed(r) \in Rows
    BY <1>8, ChangedType DEF UserCommit
  <2>2. user' \in [Users -> Rows] /\ offSince' \in [Users -> Nat]
    BY <1>8, <2>1 DEF UserCommit, TokensTypeOK, RequestsTypeOK
  <2>3. late' \subseteq Requests /\ stale' \subseteq Requests
    BY <1>8 DEF UserCommit, TokensTypeOK
  <2> QED
    BY <1>8, <2>2, <2>3 DEF UserCommit, TokensTypeOK
<1> QED
  BY <1>1, <1>2, <1>3, <1>4, <1>5, <1>6, <1>7, <1>8 DEF TokensStep

\* A token's user is asked for before anything is changed in his name.
LEMMA TokensBaseStep ==
  ASSUME RequestsTypeOK, TokensBase, TokensStep
  PROVE  TokensBase' /\ \A q \in Issuers : Issued(q) => pair'[q] = pair[q]
<1>1. TokensTypeOK' /\ RequestsTypeOK' /\ Flow(TokenNames)
  BY TokensTypes, TokensFlow DEF TokensBase
<1>2. \A r \in Requests : pc[r] # "new" => arrival'[r] = arrival[r]
  BY <1>1 DEF Flow, Moved
<1>3. CASE \E q \in Issuers : EntryLost(q) /\ UNCHANGED requestVars
  BY <1>1, <1>3 DEF EntryLost, requestVars, TokensBase, Acting, IssuedDone, Issued, Op
<1>4. ASSUME NEW r \in Requests, IssuePair(r)
      PROVE  TokensBase' /\ \A q \in Issuers : Issued(q) => pair'[q] = pair[q]
  <2>1. /\ pair' = [pair EXCEPT ![r] = pair'[r]]
        /\ pc' = [pc EXCEPT ![r] = "done"] /\ arrival' = arrival /\ ~Issued(r)
    BY <1>4 DEF IssuePair, Finish, Goto, TokensBase, IssuedDone, TokensTypeOK, Issuers
  <2>2. \A q \in Issuers : Issued(q) => pair'[q] = pair[q]
    BY <2>1 DEF TokensBase, TokensTypeOK, Issuers
  <2>3. Acting'
    <3> SUFFICES ASSUME NEW q \in Requests, pc'[q] \in {"asked", "loaded", "marked"},
                        Op(q).name \in {"refresh"} \cup UserOps
                 PROVE  Issued(Op(q).by)'
      BY <2>1 DEF Acting, Op
    <3>1. pc[q] = pc'[q] /\ Issued(Op(q).by)
      BY <2>1 DEF TokensBase, Acting, RequestsTypeOK
    <3>2. Op(q).by \in Issuers
      BY <3>1, Targets DEF UserOps
    <3> QED
      BY <2>1, <2>2, <3>1, <3>2 DEF Issued, Op
  <2>4. IssuedDone'
    BY <2>1 DEF TokensBase, IssuedDone, Issued, RequestsTypeOK, TokensTypeOK, Issuers
  <2> QED
    BY <1>1, <2>2, <2>3, <2>4 DEF TokensBase
<1>5. ASSUME NEW r \in Requests,
             \/ LoginRead(r) \/ LoginRefused(r)
             \/ RefreshAsk(r) \/ RefreshRefused(r) \/ RefreshMark(r)
             \/ RefreshRead(r) \/ RefreshUserGone(r)
             \/ Answered(r) \/ UserRead(r) \/ UserRefused(r) \/ UserCommit(r) \/ UserConflict(r)
      PROVE  TokensBase' /\ \A q \in Issuers : Issued(q) => pair'[q] = pair[q]
  <2>1. pair' = pair /\ arrival' = arrival
    BY <1>5 DEF LoginRead, LoginRefused, RefreshAsk, RefreshRefused, RefreshMark, RefreshRead,
       RefreshUserGone, Answered, UserRead, UserRefused, UserCommit, UserConflict,
       Finish, Continue, tokenVars
  <2>2. \E l \in InProgress \cup {"done"} :
          /\ pc' = [pc EXCEPT ![r] = l] /\ pc[r] \in InProgress
          /\ l \in {"asked", "loaded", "marked"} /\ Op(r).name \in {"refresh"} \cup UserOps
               => Issued(Op(r).by)
    <3>1. CASE LoginRead(r) \/ LoginRefused(r) \/ RefreshAsk(r) \/ RefreshRefused(r)
      BY <3>1 DEF LoginRead, LoginRefused, RefreshAsk, RefreshRefused, RefreshValid,
         Finish, Continue, Goto, InProgress, Labels, UserOps
    <3>2. CASE RefreshMark(r) \/ RefreshRead(r) \/ RefreshUserGone(r)
      BY <3>2 DEF RefreshMark, RefreshRead, RefreshUserGone, TokensBase, Acting,
         Finish, Continue, Goto, InProgress, Labels
    <3>3. CASE Answered(r) \/ UserRead(r) \/ UserRefused(r) \/ UserCommit(r) \/ UserConflict(r)
      BY <3>3 DEF Answered, UserRead, UserRefused, UserCommit, UserConflict, NameTaken, Allowed,
         AccessValid, Finish, Continue, Goto, InProgress, Labels
    <3> QED
      BY <1>5, <3>1, <3>2, <3>3
  <2>3. \A q \in Requests : Issued(q) => pc'[q] = "done"
    BY <2>2 DEF TokensBase, IssuedDone, RequestsTypeOK, InProgress
  <2>4. Acting'
    BY <2>1, <2>2 DEF TokensBase, Acting, Issued, Op, RequestsTypeOK
  <2>5. IssuedDone'
    BY <2>1, <2>3 DEF IssuedDone, Issued
  <2> QED
    BY <1>1, <2>1, <2>4, <2>5 DEF TokensBase
<1> QED
  BY <1>3, <1>4, <1>5 DEF TokensStep

\* Steps of the other components leave the accounts alone.
LEMMA TokensBaseKept ==
  ASSUME RequestsTypeOK, RequestsTypeOK', TokensBase, UNCHANGED tokenVars, NEW names,
         Flow(names), names \cap TokenNames = {}
  PROVE  TokensBase'
<1>1. \A r \in Requests : pc'[r] \in {"asked", "loaded", "marked"} /\ Op(r)'.name \in TokenNames
        => pc[r] = pc'[r] /\ arrival'[r] = arrival[r]
  BY DEF Flow, Moved, Arrived, RequestsTypeOK, InProgress, Op
<1>2. Acting'
  BY <1>1 DEF Acting, TokensBase, tokenVars, Issued, Op, TokenNames
<1>3. IssuedDone'
  BY DEF IssuedDone, TokensBase, tokenVars, Issued, Flow, Moved, InProgress
<1> QED
  BY <1>2, <1>3 DEF TokensBase, TokensTypeOK, tokenVars

LEMMA KeysTypes ==
  ASSUME RequestsTypeOK, KeysTypeOK, NEW r \in Requests, KeysBegin(r) \/ KeysEnd(r)
  PROVE  KeysTypeOK'
<1>1. pc[r] # "new"
  BY DEF KeysBegin, KeysEnd, CreateKey, KeyRead, KeyMissing, CredRead, CredUnread, RevokeCommit,
     RotateCommit, SetCommit
<1>2. CASE CreateKey(r) \/ RevokeCommit(r) \/ RotateCommit(r)
  <2>1. Op(r).name # "create_key" => Op(r).on \in KeyIds
    BY <1>1, <1>2, Targets DEF CreateKey, RevokeCommit, RotateCommit
  <2>2. CASE CreateKey(r)
    BY <2>2 DEF CreateKey, KeysTypeOK, KeyIds
  <2>3. CASE RevokeCommit(r)
    BY <2>3, <2>1 DEF RevokeCommit, KeysTypeOK, KeyIds
  <2>4. CASE RotateCommit(r)
    BY <2>4, <2>1 DEF RotateCommit, KeysTypeOK, KeyIds
  <2> QED
    BY <1>2, <2>2, <2>3, <2>4
<1>3. CASE KeyRead(r) \/ CredRead(r)
  <2>1. CASE KeyRead(r)
    <3>1. key[Op(r).on].status \in {"active", "revoked"}
      BY <1>1, <2>1, Targets DEF KeyRead, KeysTypeOK
    <3> QED
      BY <2>1, <3>1 DEF KeyRead, KeysTypeOK
  <2>2. CASE CredRead(r)
    <3>1. Rowset(r) \subseteq Requests
      BY <1>1, <2>2, Targets DEF CredRead, KeysTypeOK, Rowset
    <3> QED
      BY <2>2, <3>1 DEF CredRead, KeysTypeOK
  <2> QED
    BY <1>3, <2>1, <2>2
<1>4. CASE SetCommit(r)
  <2>1. Op(r).on \in Providers
    BY <1>1, <1>4, Targets DEF SetCommit
  <2> QED
    BY <1>4, <2>1 DEF SetCommit, KeysTypeOK
<1>5. CASE KeyMissing(r) \/ CredUnread(r)
  BY <1>5 DEF KeyMissing, CredUnread, keyVars, KeysTypeOK
<1> QED
  BY <1>2, <1>3, <1>4, <1>5 DEF KeysBegin, KeysEnd

LEMMA TermsTypes ==
  ASSUME RequestsTypeOK, TermsTypeOK, NEW r \in Requests, TermsBegin(r) \/ TermsGo(r)
  PROVE  TermsTypeOK'
<1>1. CASE PriceUnread(r) \/ ContractRefused(r) \/ ContractConflict(r) \/ RewriteUnanswered(r)
  BY <1>1 DEF PriceUnread, ContractRefused, ContractConflict, RewriteUnanswered, termVars, TermsTypeOK
<1>2. CASE PriceRead(r) \/ ContractShown(r) \/ ContractRead(r) \/ RewriteRead(r) \/ Deactivate(r)
  <2>1. CASE PriceRead(r)
    BY <2>1 DEF PriceRead, OpenRules, TermsTypeOK
  <2>2. CASE ContractRead(r)
    BY <2>2 DEF ContractRead, TermsTypeOK
  <2>3. CASE RewriteRead(r)
    BY <2>3 DEF RewriteRead, TermsTypeOK
  <2>4. CASE Deactivate(r)
    BY <2>4 DEF Deactivate, TermsTypeOK
  <2>5. CASE ContractShown(r)
    BY <2>5 DEF ContractShown, TermsTypeOK, ContractRows, Consent
  <2> QED
    BY <1>2, <2>1, <2>2, <2>3, <2>4, <2>5
<1>3. CASE PriceCommit(r)
  <2>1. Op(r).value \in Dates
    BY <1>3, Targets DEF PriceCommit, WellFormed, Operation, Dates, Open
  <2>2. price' \subseteq PriceRows
    BY <1>3, <2>1 DEF PriceCommit, TermsTypeOK, PriceRows, Ends, Dates, Open
  <2> QED
    BY <1>3, <2>2 DEF PriceCommit, TermsTypeOK
<1>4. CASE ContractCommit(r)
  <2>1. Op(r).value \in Nat
    BY <1>4, Targets DEF ContractCommit, Operation
  <2>2. NewContract(r) \in ContractRows
    BY <1>4, <2>1 DEF ContractCommit, NewContract, UpsertStatus, TermsTypeOK, ContractRows, ContractOps,
       Upserts
  <2>3. contract' \in ContractRows
    BY <1>4, <2>2 DEF ContractCommit, TermsTypeOK, ContractRows
  <2>4. agreed' \in Consent
    BY <1>4, <2>2 DEF ContractCommit, TermsTypeOK, ContractRows, Consent
  <2>5. shown' \in Consent
    BY <1>4 DEF ContractCommit, TermsTypeOK, Consent
  <2> QED
    BY <1>4, <2>3, <2>4, <2>5 DEF ContractCommit, TermsTypeOK
<1>5. CASE Number(r)
  <2>1. Numbers \subseteq Nat
    BY DEF Numbers, TermsTypeOK, VersionRows
  <2> QED
    BY <1>5, <2>1 DEF Number, TermsTypeOK
<1>6. CASE RewriteCommit(r)
  <2>1. \A n \in {1, 2}, b \in BOOLEAN : Row(r, n, b) \in VersionRows
    BY DEF Row, TermsTypeOK, VersionRows
  <2>2. \A v \in version : Deactivated(v, r) \in VersionRows
    BY DEF Deactivated, TermsTypeOK, VersionRows
  <2>3. version' \subseteq VersionRows
    BY <1>6, <2>1, <2>2 DEF RewriteCommit, Added
  <2> QED
    BY <1>6, <2>3 DEF RewriteCommit, TermsTypeOK
<1> QED
  BY <1>1, <1>2, <1>3, <1>4, <1>5, <1>6 DEF TermsBegin, TermsGo

----------------------------------------------------------------------------
(* Steps of the whole, by component *)

\* A step of the limiter, of the clock, or of nobody.
Quiet ==
  /\ Flow({}) /\ UNCHANGED <<tokenVars, keyVars, termVars>>
  /\ \/ UNCHANGED <<now, limiterVars>>
     \/ Tick /\ UNCHANGED limiterVars
     \/ \E r \in Requests, w \in Workers, o \in Operations : Arrive(r, w, o)
     \/ \E w \in Workers : Restart(w)

ByTokens == TokensStep /\ Flow(TokenNames) /\ UNCHANGED <<limiterVars, keyVars, termVars>>

ByKeys ==
  /\ \E r \in Requests : KeysBegin(r) \/ KeysEnd(r)
  /\ Flow(KeyOps \cup CredOps) /\ UNCHANGED <<limiterVars, tokenVars, termVars>>

ByTerms ==
  /\ \E r \in Requests : TermsBegin(r) \/ TermsGo(r)
  /\ Flow(TermOps) /\ UNCHANGED <<limiterVars, tokenVars, keyVars>>

LEMMA StepsOf ==
  ASSUME RequestsTypeOK, LimiterTypeOK, [AccessNext]_accessVars
  PROVE  RequestsTypeOK' /\ (Quiet \/ ByTokens \/ ByKeys \/ ByTerms)
<1>1. CASE Tick /\ UNCHANGED <<limiterVars, tokenVars, keyVars, termVars>>
  BY <1>1, TickFlow DEF Quiet
<1>2. CASE \E r \in Requests, w \in Workers, o \in Operations :
             Arrive(r, w, o) /\ UNCHANGED <<tokenVars, keyVars, termVars>>
  BY <1>2, ArriveFlow DEF Quiet
<1>3. CASE \E w \in Workers : Restart(w) /\ UNCHANGED <<tokenVars, keyVars, termVars>>
  BY <1>3, RestartFlow DEF Quiet
<1>4. CASE TokensStep /\ UNCHANGED <<limiterVars, keyVars, termVars>>
  BY <1>4, TokensFlow DEF ByTokens
<1>5. ASSUME NEW r \in Requests, KeysBegin(r) \/ KeysEnd(r),
             UNCHANGED <<limiterVars, tokenVars, termVars>>
      PROVE  RequestsTypeOK' /\ ByKeys
  BY <1>5, KeysFlow DEF ByKeys
<1>6. ASSUME NEW r \in Requests, TermsBegin(r) \/ TermsGo(r),
             UNCHANGED <<limiterVars, tokenVars, keyVars>>
      PROVE  RequestsTypeOK' /\ ByTerms
  BY <1>6, TermsFlow DEF ByTerms
<1>7. CASE UNCHANGED accessVars
  BY <1>7, NothingMoves DEF Quiet, accessVars, requestVars
<1> QED
  BY <1>1, <1>2, <1>3, <1>4, <1>5, <1>6, <1>7 DEF AccessNext, Rest

AccessBase ==
  RequestsTypeOK /\ LimiterTypeOK /\ TokensBase /\ KeysTypeOK /\ TermsTypeOK

LEMMA BaseInit == AccessInit => AccessBase
<1> SUFFICES ASSUME AccessInit PROVE AccessBase
  OBVIOUS
<1>1. RequestsTypeOK
  BY DEF AccessInit, RequestsInit, RequestsTypeOK, Labels, NotArrived
<1>2. LimiterTypeOK
  BY DEF AccessInit, LimiterInit, LimiterTypeOK
<1>3. TokensTypeOK
  BY TokensAssumption DEF AccessInit, TokensInit, TokensTypeOK, Rows, NoUser, NoPair, Roles, Switches
<1>4. Acting /\ IssuedDone
  BY RequestsAssumption DEF AccessInit, RequestsInit, TokensInit, Acting, IssuedDone, Issued, NoPair, Issuers
<1>5. KeysTypeOK /\ TermsTypeOK
  BY TermsAssumption DEF AccessInit, KeysInit, KeysTypeOK, NoKey, TermsInit, TermsTypeOK, NoContract, ContractRows,
     Consent
<1> QED
  BY <1>1, <1>2, <1>3, <1>4, <1>5 DEF AccessBase, TokensBase

LEMMA BaseStep ==
  ASSUME AccessBase, [AccessNext]_accessVars
  PROVE  AccessBase' /\ (Quiet \/ ByTokens \/ ByKeys \/ ByTerms)
<1>1. RequestsTypeOK' /\ (Quiet \/ ByTokens \/ ByKeys \/ ByTerms)
  BY StepsOf DEF AccessBase
<1>2. LimiterTypeOK'
  BY <1>1, LimiterTypes DEF AccessBase, Quiet, ByTokens, ByKeys, ByTerms, limiterVars, LimiterTypeOK
<1>3. TokensBase'
  <2>1. CASE ByTokens
    BY <2>1, TokensBaseStep DEF ByTokens, AccessBase
  <2>2. CASE Quiet \/ ByKeys \/ ByTerms
    <3>1. PICK names : Flow(names) /\ names \cap TokenNames = {} /\ UNCHANGED tokenVars
      <4>1. {} \cap TokenNames = {} /\ (KeyOps \cup CredOps) \cap TokenNames = {}
            /\ TermOps \cap TokenNames = {}
        BY DEF TokenNames, KeyOps, CredOps, TermOps, ContractOps, Upserts, UserOps
      <4> QED
        BY <2>2, <4>1 DEF Quiet, ByKeys, ByTerms
    <3> QED
      BY <3>1, <1>1, TokensBaseKept DEF AccessBase
  <2> QED
    BY <1>1, <2>1, <2>2
<1>4. KeysTypeOK'
  BY <1>1, KeysTypes DEF AccessBase, Quiet, ByTokens, ByKeys, ByTerms, keyVars, KeysTypeOK
<1>5. TermsTypeOK'
  BY <1>1, TermsTypes DEF AccessBase, Quiet, ByTokens, ByKeys, ByTerms, termVars, TermsTypeOK
<1> QED
  BY <1>1, <1>2, <1>3, <1>4, <1>5 DEF AccessBase

\* Every variable keeps its type, a request that goes on with a change has
\* shown tokens that were issued, and a pair is issued once.
THEOREM AccessTypes == AccessSpec => []AccessTypeOK
<1>1. AccessBase /\ [AccessNext]_accessVars => AccessBase'
  BY BaseStep
<1>2. AccessBase => AccessTypeOK
  BY DEF AccessBase, AccessTypeOK, TokensBase
<1> QED
  BY BaseInit, <1>1, <1>2, PTL DEF AccessSpec

----------------------------------------------------------------------------
(* Who was in progress together *)

\* Any two requests in progress have met: the later one found the other there.
MetTogether ==
  \A r, q \in Requests : pc[r] \in InProgress /\ pc[q] \in InProgress /\ r # q => Met(r, q)

LEMMA MetTogetherStep ==
  ASSUME MetTogether, NEW names, Flow(names)
  PROVE  MetTogether'
<1> SUFFICES ASSUME NEW r \in Requests, NEW q \in Requests,
                    pc'[r] \in InProgress, pc'[q] \in InProgress, r # q
             PROVE  Met(r, q)'
  BY DEF MetTogether
<1>1. \A p \in Requests : pc'[p] \in InProgress =>
        (pc[p] = "new" /\ pc'[p] = "admitted") \/ pc[p] \in InProgress
  BY DEF Flow, Moved, Arrived, InProgress
<1>2. {r, q} = {q, r}
  OBVIOUS
<1>3. CASE pc[r] = "new"
  BY <1>1, <1>3 DEF Flow, Arrived, Met, InProgress
<1>4. CASE pc[q] = "new"
  BY <1>1, <1>2, <1>4 DEF Flow, Arrived, Met, InProgress
<1> QED
  BY <1>1, <1>3, <1>4 DEF MetTogether, Met, Flow

\* What Flow leaves alone: whoever is or was in progress keeps what it asked,
\* and who has ended stays so.
LEMMA FlowKeeps ==
  ASSUME NEW names, Flow(names), NEW r \in Requests, pc[r] # "new"
  PROVE  /\ arrival'[r] = arrival[r] /\ Op(r)' = Op(r)
         /\ pc[r] \in Ended => pc'[r] = pc[r]
         /\ pc'[r] # "new"
         /\ pc'[r] \in InProgress => pc[r] \in InProgress
         /\ pc'[r] \in InProgress /\ Op(r).name \notin names => pc'[r] = pc[r]
BY DEF Flow, Moved, Ended, InProgress, Labels, Op

LEMMA FlowBegins ==
  ASSUME NEW names, Flow(names), NEW r \in Requests, pc[r] = "new"
  PROVE  pc'[r] \in {"new", "admitted", "refused"}
BY DEF Flow, Arrived

----------------------------------------------------------------------------
(* Keys *)

\* A key that replaces another was made by a rotation that is done, and the
\* key it replaces is revoked; so is what a rotation finds that begins later.
Replacements ==
  /\ \A r \in Requests : pc[r] # "done" => key[r] = NoKey
  /\ \A k \in Keys : key[k].from = Nothing
  /\ \A a \in Requests :
       key[a].from # Nothing => key[a].from \in KeyIds /\ key[key[a].from].status = "revoked"
  /\ \A r \in Requests :
       pc[r] = "loaded" /\ Op(r).name \in {"rotate_key", "revoke_key"} =>
         key[Op(r).on].status # "none"
  /\ \A a, r \in Requests :
       key[a].from # Nothing /\ pc[r] = "loaded" /\ Op(r).name = "rotate_key"
         /\ Op(r).on = key[a].from => Met(a, r) \/ "revoked" \in found[a] \cup found[r]

\* A credential row was inserted by a request that is done, and whoever is
\* about to insert one as well has met it.
Insertions ==
  /\ \A p \in Providers : \A b \in cred[p] : pc[b] = "done"
  /\ \A r \in Requests :
       pc[r] = "loaded" /\ Op(r).name \in CredOps /\ Inserts(r) =>
         \A b \in cred[Op(r).on] : Met(r, b)

KeysInv == Replacements /\ RotationReplaces /\ Insertions /\ OneCredential

LEMMA KeysKept ==
  ASSUME RequestsTypeOK, KeysTypeOK, KeysInv, UNCHANGED keyVars, NEW names, Flow(names),
         names \cap (KeyOps \cup CredOps) = {}
  PROVE  KeysInv'
<1>1. key' = key /\ found' = found /\ cred' = cred /\ met \subseteq met'
  BY DEF keyVars, Flow
<1>2. \A r \in Requests : pc'[r] = "loaded" /\ Op(r)'.name \in KeyOps \cup CredOps
        => pc[r] = "loaded" /\ Op(r)' = Op(r)
  BY FlowKeeps, FlowBegins DEF InProgress, Labels
<1>3. \A r \in Requests : pc[r] = "done" => pc'[r] = "done"
  BY FlowKeeps DEF Ended
<1>4. Replacements'
  BY <1>1, <1>2, <1>3 DEF KeysInv, Replacements, Met, KeyOps
<1>5. Insertions'
  BY <1>1, <1>2, <1>3 DEF KeysInv, Insertions, Inserts, Met, KeysTypeOK
<1>6. RotationReplaces' /\ OneCredential'
  BY <1>1 DEF KeysInv, RotationReplaces, OneCredential, Met
<1> QED
  BY <1>4, <1>5, <1>6 DEF KeysInv

LEMMA KeyMoves ==
  ASSUME RequestsTypeOK, NEW r \in Requests, KeysBegin(r) \/ KeysEnd(r)
  PROVE  /\ \E l \in {"loaded", "done"} : pc' = [pc EXCEPT ![r] = l]
         /\ arrival' = arrival /\ met' = met
         /\ pc \in [Requests -> Labels] /\ pc[r] \in {"admitted", "loaded"}
         /\ \A q \in Requests : Op(q)' = Op(q)
         /\ \A q \in Requests : pc[q] = "done" => pc'[q] = "done"
BY DEF KeysBegin, KeysEnd, CreateKey, KeyRead, KeyMissing, CredRead, CredUnread, RevokeCommit,
   RotateCommit, SetCommit, KeyStep, Goto, RequestsTypeOK, Op

LEMMA KeyRowsStep ==
  ASSUME RequestsTypeOK, KeysTypeOK, Replacements, RotationReplaces, MetTogether,
         NEW r \in Requests, CreateKey(r) \/ KeyRead(r) \/ RevokeCommit(r) \/ RotateCommit(r)
  PROVE  Replacements' /\ RotationReplaces'
<1> DEFINE on == Op(r).on
<1>1. /\ arrival' = arrival /\ met' = met
      /\ pc \in [Requests -> Labels] /\ pc[r] \in {"admitted", "loaded"}
      /\ \A q \in Requests : Op(q)' = Op(q)
      /\ \A q \in Requests : q # r => pc'[q] = pc[q]
  BY KeyMoves DEF KeysBegin, KeysEnd
<1>2. Op(r).name # "create_key" => on \in KeyIds
  BY <1>1, Targets DEF CreateKey, KeyRead, RevokeCommit, RotateCommit
<1>3. key[r] = NoKey /\ r \in KeyIds
  BY <1>1 DEF Replacements, KeyIds
<1>4. \A k \in KeyIds : k \in Keys \/ k \in Requests
  BY DEF KeyIds
<1>5. CASE CreateKey(r)
  <2>1. /\ pc'[r] = "done" /\ found' = found
        /\ key' = [key EXCEPT ![r] = [status |-> "active", from |-> Nothing]]
    BY <1>1, <1>5 DEF CreateKey, KeyStep, Goto
  <2>2. \A k \in KeyIds : k # r => key'[k] = key[k]
    BY <2>1, <1>3 DEF KeysTypeOK
  <2>3. key'[r] = [status |-> "active", from |-> Nothing]
    BY <2>1, <1>3 DEF KeysTypeOK
  <2>4. \A a \in Requests : key'[a].from # Nothing => a # r /\ key[a].from # r
    BY <2>2, <2>3, <1>3 DEF Replacements, NoKey, KeyIds
  <2>5. Replacements'
    BY <1>1, <1>3, <1>4, <2>1, <2>2, <2>3, <2>4, RequestsAssumption DEF Replacements, Met, KeyIds, NoKey
  <2>6. RotationReplaces'
    BY <1>1, <1>3, <2>1, <2>2, <2>3, <2>4 DEF RotationReplaces, Replacements, Met, KeyIds
  <2> QED
    BY <2>5, <2>6
<1>6. CASE KeyRead(r)
  <2>1. /\ pc' = [pc EXCEPT ![r] = "loaded"] /\ key' = key /\ pc[r] = "admitted"
        /\ key[on].status # "none"
        /\ found' = [found EXCEPT ![r] = {key[on].status}]
    BY <1>6 DEF KeyRead, KeyStep, Goto
  <2>2. found'[r] = {key[on].status} /\ \A q \in Requests : q # r => found'[q] = found[q]
    BY <2>1 DEF KeysTypeOK
  <2>3. key[r].from = Nothing
    BY <1>3 DEF NoKey
  <2>4. Replacements'
    BY <1>1, <2>1, <2>2, <2>3 DEF Replacements, Met
  <2>5. RotationReplaces'
    BY <1>1, <2>1, <2>2, <2>3 DEF RotationReplaces, Met
  <2> QED
    BY <2>4, <2>5
<1>7. CASE RevokeCommit(r)
  <2>1. /\ pc'[r] = "done" /\ pc[r] = "loaded" /\ Op(r).name = "revoke_key" /\ found' = found
        /\ key' = [key EXCEPT ![on] = [@ EXCEPT !.status = "revoked"]]
        /\ on \in KeyIds /\ key[on].status # "none"
    BY <1>1, <1>2, <1>7 DEF RevokeCommit, KeyStep, Goto, Replacements
  <2>2. /\ \A k \in KeyIds : k # on => key'[k] = key[k]
        /\ key'[on] = [key[on] EXCEPT !.status = "revoked"]
    BY <2>1 DEF KeysTypeOK
  <2>3. key'[on].status = "revoked" /\ key'[on].from = key[on].from
    BY <2>1, <2>2 DEF KeysTypeOK
  <2>4. \A k \in KeyIds : key'[k].from = key[k].from
    BY <2>2, <2>3
  <2>5. on \in Requests => pc[on] = "done"
    BY <2>1 DEF Replacements, NoKey
  <2>6. Replacements'
    BY <1>1, <1>4, <2>1, <2>2, <2>3, <2>4, <2>5, RequestsAssumption DEF Replacements, Met, KeyIds
  <2>7. RotationReplaces'
    BY <1>1, <1>4, <2>1, <2>2, <2>3, <2>4 DEF RotationReplaces, Replacements, Met, KeyIds
  <2> QED
    BY <2>6, <2>7
<1>8. CASE RotateCommit(r)
  <2>1. /\ pc'[r] = "done" /\ pc[r] = "loaded" /\ Op(r).name = "rotate_key" /\ found' = found
        /\ on \in KeyIds /\ key[on].status # "none"
    BY <1>1, <1>2, <1>8 DEF RotateCommit, KeyStep, Goto, Replacements
  <2>2. on # r /\ (on \in Requests => pc[on] = "done")
    BY <2>1, <1>3 DEF NoKey, Replacements
  <2>3. key' = [key EXCEPT ![on] = [@ EXCEPT !.status = "revoked"],
                           ![r] = [status |-> "active", from |-> on]]
    BY <1>8 DEF RotateCommit
  <2>4. /\ \A k \in KeyIds : k \notin {on, r} => key'[k] = key[k]
        /\ key'[r] = [status |-> "active", from |-> on]
        /\ key'[on] = [key[on] EXCEPT !.status = "revoked"]
    BY <1>3, <2>1, <2>2, <2>3 DEF KeysTypeOK
  <2>5. key'[on].status = "revoked" /\ key'[on].from = key[on].from
    BY <2>1, <2>4 DEF KeysTypeOK
  <2>6. \A k \in KeyIds : k # r => key'[k].from = key[k].from
    BY <2>4, <2>5
  <2>7. \A a \in Requests : key[a].from # Nothing => a # r /\ key[a].from # r
    BY <1>3 DEF Replacements, NoKey
  <2>8. \A q \in Requests : q # r /\ pc[q] = "loaded" => Met(r, q)
    BY <2>1 DEF MetTogether, InProgress, Labels
  <2>9. \A a \in Requests : a # r /\ key'[a].from = on =>
          Met(a, r) \/ "revoked" \in found[a] \cup found[r]
    BY <2>1, <2>6, RequestsAssumption DEF Replacements, KeyIds
  <2>10. \A a \in Requests : {a, r} = {r, a}
    OBVIOUS
  <2>11. Replacements'
    <3>1. /\ \A q \in Requests : pc'[q] # "done" => key'[q] = NoKey
          /\ \A k \in Keys : key'[k].from = Nothing
      BY <1>1, <2>1, <2>2, <2>4, <2>6, RequestsAssumption DEF Replacements, KeyIds
    <3>2. \A a \in Requests : key'[a].from # Nothing =>
            key'[a].from \in KeyIds /\ key'[key'[a].from].status = "revoked"
      <4> SUFFICES ASSUME NEW a \in Requests, key'[a].from # Nothing
                   PROVE  key'[a].from \in KeyIds /\ key'[key'[a].from].status = "revoked"
        OBVIOUS
      <4>1. CASE a = r
        <5>1. key'[r].from = on
          BY <2>4
        <5> QED
          BY <4>1, <5>1, <2>1, <2>5
      <4>2. CASE a # r
        <5>1. key'[a].from = key[a].from /\ key[a].from # Nothing
          BY <4>2, <2>6 DEF KeyIds
        <5>2. /\ key[a].from \in KeyIds /\ key[key[a].from].status = "revoked"
              /\ key[a].from # r
          BY <5>1, <2>7 DEF Replacements
        <5> QED
          BY <5>1, <5>2, <2>4, <2>5
      <4> QED
        BY <4>1, <4>2
    <3>3. \A q \in Requests : pc'[q] = "loaded" /\ Op(q).name \in {"rotate_key", "revoke_key"} =>
            key'[Op(q).on].status # "none"
      <4> SUFFICES ASSUME NEW q \in Requests, pc'[q] = "loaded",
                          Op(q).name \in {"rotate_key", "revoke_key"}
                   PROVE  key'[Op(q).on].status # "none"
        OBVIOUS
      <4>1. pc[q] = "loaded" /\ key[Op(q).on].status # "none"
        BY <1>1, <2>1 DEF Replacements
      <4>2. Op(q).on \in KeyIds
        BY <4>1, Targets
      <4>3. key'[r].status = "active"
        BY <2>4
      <4> QED
        BY <4>1, <4>2, <4>3, <2>4, <2>5
    <3>4. \A a, q \in Requests :
            key'[a].from # Nothing /\ pc'[q] = "loaded" /\ Op(q).name = "rotate_key"
              /\ Op(q).on = key'[a].from => Met(a, q) \/ "revoked" \in found[a] \cup found[q]
      BY <1>1, <2>1, <2>6, <2>8, <2>4 DEF Replacements, KeyIds
    <3> QED
      BY <1>1, <2>1, <3>1, <3>2, <3>3, <3>4 DEF Replacements, Met
  <2>12. RotationReplaces'
    <3> SUFFICES ASSUME NEW a \in Requests, NEW b \in Requests, key'[a].from # Nothing
                 PROVE  /\ key'[key'[a].from].status = "revoked"
                        /\ key'[b].from = key'[a].from =>
                             a = b \/ Met(a, b) \/ "revoked" \in found[a] \cup found[b]
      BY <1>1, <2>1 DEF RotationReplaces, Met
    <3>1. key'[key'[a].from].status = "revoked"
      BY <2>1, <2>11 DEF Replacements
    <3>2. CASE a # r /\ b # r
      BY <3>1, <3>2, <2>6 DEF RotationReplaces, KeyIds
    <3>3. CASE a = r
      BY <3>1, <3>3, <2>4, <2>9, <2>10 DEF Met
    <3>4. CASE b = r
      BY <3>1, <3>4, <2>4, <2>9, <2>10 DEF Met
    <3> QED
      BY <3>2, <3>3, <3>4
  <2> QED
    BY <2>11, <2>12
<1> QED
  BY <1>5, <1>6, <1>7, <1>8

LEMMA CredRowsStep ==
  ASSUME RequestsTypeOK, KeysTypeOK, Insertions, OneCredential, MetTogether,
         NEW r \in Requests, KeysBegin(r) \/ KeysEnd(r)
  PROVE  Insertions' /\ OneCredential'
<1>1. /\ arrival' = arrival /\ met' = met
      /\ pc \in [Requests -> Labels] /\ pc[r] \in {"admitted", "loaded"}
      /\ \A q \in Requests : Op(q)' = Op(q)
      /\ \A q \in Requests : pc[q] = "done" => pc'[q] = "done"
      /\ \E l \in {"loaded", "done"} : pc' = [pc EXCEPT ![r] = l]
  BY KeyMoves
<1>2. CASE CreateKey(r) \/ KeyRead(r) \/ KeyMissing(r) \/ CredUnread(r) \/ RevokeCommit(r) \/ RotateCommit(r)
  <2>1. cred' = cred /\ \A q \in Requests : q # r => found'[q] = found[q] /\ pc'[q] = pc[q]
    BY <1>1, <1>2 DEF CreateKey, KeyRead, KeyMissing, CredUnread, RevokeCommit, RotateCommit,
       keyVars, KeysTypeOK
  <2>2. pc'[r] = "done" \/ Op(r).name \notin CredOps
    BY <1>2, <1>1 DEF CreateKey, KeyRead, KeyMissing, CredUnread, RevokeCommit, RotateCommit,
       KeyStep, Goto, CredOps
  <2>3. OneCredential'
    BY <1>1, <2>1 DEF OneCredential, Met
  <2>4. \A p \in Providers : \A b \in cred[p] : pc'[b] = "done"
    BY <1>1, <2>1 DEF Insertions, KeysTypeOK
  <2>5. ASSUME NEW q \in Requests, pc'[q] = "loaded", Op(q).name \in CredOps, Op(q).name = "set_credential",
               found'[q] = {}, NEW b \in cred[Op(q).on]
        PROVE  Met(q, b)
    <3>1. q # r
      BY <2>2, <2>5
    <3> QED
      BY <2>1, <2>5, <3>1 DEF Insertions, Inserts
  <2>6. Insertions'
    BY <1>1, <2>1, <2>4, <2>5 DEF Insertions, Inserts, Met
  <2> QED
    BY <2>3, <2>6
<1>3. CASE CredRead(r)
  <2>1. cred' = cred /\ found' = [found EXCEPT ![r] = cred[Op(r).on]] /\ pc' = [pc EXCEPT ![r] = "loaded"]
    BY <1>3 DEF CredRead, Rowset, KeyStep, Goto
  <2>2. /\ found'[r] = cred[Op(r).on]
        /\ \A q \in Requests : q # r => found'[q] = found[q] /\ pc'[q] = pc[q]
    BY <1>1, <2>1 DEF KeysTypeOK
  <2>3. OneCredential'
    BY <1>1, <2>1 DEF OneCredential, Met
  <2>4. \A p \in Providers : \A b \in cred[p] : pc'[b] = "done"
    BY <1>1, <2>1 DEF Insertions, KeysTypeOK
  <2>5. ASSUME NEW q \in Requests, pc'[q] = "loaded", Op(q).name \in CredOps, Op(q).name = "set_credential",
               found'[q] = {}, NEW b \in cred[Op(q).on]
        PROVE  Met(q, b)
    <3>1. CASE q = r
      BY <2>2, <2>5, <3>1
    <3>2. CASE q # r
      BY <2>2, <2>5, <3>2 DEF Insertions, Inserts
    <3> QED
      BY <3>1, <3>2
  <2>6. Insertions'
    BY <1>1, <2>1, <2>4, <2>5 DEF Insertions, Inserts, Met
  <2> QED
    BY <2>3, <2>6
<1>4. CASE SetCommit(r)
  <2>1. Op(r).on \in Providers /\ pc[r] = "loaded" /\ found' = found /\ Op(r).name \in CredOps
    BY <1>1, <1>4, Targets DEF SetCommit
  <2>2. pc'[r] = "done" /\ \A q \in Requests : q # r => pc'[q] = pc[q]
    BY <1>1, <1>4 DEF SetCommit, KeyStep, Goto
  <2>3. \A q \in Requests : q # r /\ pc[q] = "loaded" => Met(q, r)
    BY <2>1 DEF MetTogether, InProgress, Labels
  <2>4. \A q \in Requests : {q, r} = {r, q}
    OBVIOUS
  <2>5. CASE Inserts(r)
    <3>1. cred' = [cred EXCEPT ![Op(r).on] = @ \cup {r}]
      BY <1>4, <2>5 DEF SetCommit
    <3>2. /\ cred'[Op(r).on] = cred[Op(r).on] \cup {r}
          /\ \A p \in Providers : p # Op(r).on => cred'[p] = cred[p]
      BY <2>1, <3>1 DEF KeysTypeOK
    <3>3. \A b \in cred[Op(r).on] : Met(r, b) /\ Met(b, r)
      BY <2>1, <2>4, <2>5 DEF Insertions, Met, KeysTypeOK
    <3>4. ASSUME NEW p \in Providers, NEW a \in cred'[p], NEW b \in cred'[p]
          PROVE  (a = b \/ Met(a, b)) /\ pc'[b] = "done"
      <4>1. p # Op(r).on => cred'[p] = cred[p]
        BY <3>2
      <4>2. cred[p] \subseteq Requests /\ \A c \in cred[p] : pc'[c] = "done"
        BY <1>1 DEF Insertions, KeysTypeOK
      <4>3. \A c, d \in cred[p] : c = d \/ Met(c, d)
        BY DEF OneCredential
      <4> QED
        BY <2>2, <3>2, <3>3, <4>1, <4>2, <4>3
    <3>5. ASSUME NEW q \in Requests, pc'[q] = "loaded", Op(q).name \in CredOps,
                 Op(q).name = "set_credential", found[q] = {}, NEW b \in cred'[Op(q).on]
          PROVE  Met(q, b)
      <4>1. q # r /\ pc[q] = "loaded" /\ Op(q).on \in Providers
        BY <2>2, <3>5, Targets
      <4>2. b \in cred[Op(q).on] \/ b = r
        BY <3>2, <3>5, <4>1
      <4> QED
        BY <2>3, <3>5, <4>1, <4>2 DEF Insertions, Inserts
    <3>6. OneCredential'
      BY <1>1, <3>4 DEF OneCredential, Met
    <3>7. Insertions'
      BY <1>1, <2>1, <3>4, <3>5 DEF Insertions, Inserts, Met
    <3> QED
      BY <3>6, <3>7
  <2>6. CASE ~Inserts(r)
    <3>1. \A p \in Providers : cred'[p] \subseteq cred[p]
      BY <1>4, <2>1, <2>6 DEF SetCommit, KeysTypeOK
    <3>2. \A q \in Requests : pc[q] = "loaded" /\ Op(q).name \in CredOps => Op(q).on \in Providers
      BY Targets
    <3> QED
      BY <1>1, <2>1, <2>2, <3>1, <3>2 DEF Insertions, OneCredential, Inserts, Met
  <2> QED
    BY <2>5, <2>6
<1> QED
  BY <1>2, <1>3, <1>4 DEF KeysBegin, KeysEnd

LEMMA KeysInvStep ==
  ASSUME AccessBase, KeysInv, MetTogether, [AccessNext]_accessVars
  PROVE  KeysInv'
<1>1. CASE Quiet \/ ByTokens \/ ByTerms
  <2>1. PICK names : Flow(names) /\ names \cap (KeyOps \cup CredOps) = {} /\ UNCHANGED keyVars
    <3>1. /\ {} \cap (KeyOps \cup CredOps) = {}
          /\ TokenNames \cap (KeyOps \cup CredOps) = {}
          /\ TermOps \cap (KeyOps \cup CredOps) = {}
      BY DEF TokenNames, KeyOps, CredOps, TermOps, ContractOps, Upserts, UserOps
    <3> QED
      BY <1>1, <3>1 DEF Quiet, ByTokens, ByTerms
  <2> QED
    BY <2>1, KeysKept DEF AccessBase
<1>2. ASSUME NEW r \in Requests, KeysBegin(r) \/ KeysEnd(r)
      PROVE  KeysInv'
  <2>1. Insertions' /\ OneCredential'
    BY <1>2, CredRowsStep DEF AccessBase, KeysInv
  <2>2. CASE CreateKey(r) \/ KeyRead(r) \/ RevokeCommit(r) \/ RotateCommit(r)
    BY <2>1, <2>2, KeyRowsStep DEF AccessBase, KeysInv
  <2>3. CASE KeyMissing(r) \/ CredRead(r) \/ CredUnread(r) \/ SetCommit(r)
    <3>1. /\ key' = key /\ \A q \in Requests : q # r => found'[q] = found[q] /\ pc'[q] = pc[q]
          /\ arrival' = arrival /\ met' = met
          /\ \A q \in Requests : Op(q)' = Op(q)
          /\ pc[r] # "done" /\ (pc'[r] # "loaded" \/ Op(r).name \in CredOps)
      <4>1. /\ key' = key /\ \A q \in Requests : q # r => found'[q] = found[q]
            /\ pc'[r] # "loaded" \/ Op(r).name \in CredOps
        BY <2>3, <1>2, KeyMoves DEF KeyMissing, CredRead, CredUnread, SetCommit, keyVars, KeysTypeOK,
           AccessBase, KeyStep, Goto
      <4> QED
        BY <4>1, <1>2, KeyMoves DEF AccessBase
    <3>2. key[r] = NoKey
      BY <3>1 DEF KeysInv, Replacements
    <3>3. Replacements'
      BY <3>1, <3>2 DEF KeysInv, Replacements, Met, CredOps, NoKey
    <3>4. RotationReplaces'
      BY <3>1, <3>2 DEF KeysInv, RotationReplaces, Met, NoKey
    <3> QED
      BY <2>1, <3>3, <3>4 DEF KeysInv
  <2> QED
    BY <1>2, <2>2, <2>3 DEF KeysBegin, KeysEnd
<1>3. Quiet \/ ByTokens \/ ByTerms \/ \E r \in Requests : KeysBegin(r) \/ KeysEnd(r)
  BY StepsOf DEF ByKeys, AccessBase
<1> QED
  BY <1>1, <1>2, <1>3

\* What the components have in common.
Common == AccessBase /\ MetTogether

LEMMA CommonHolds == AccessSpec => []Common
<1>1. AccessInit => Common
  BY BaseInit DEF Common, MetTogether, AccessInit, RequestsInit, InProgress
<1>2. ASSUME Common, [AccessNext]_accessVars PROVE Common'
  <2>1. AccessBase' /\ (Quiet \/ ByTokens \/ ByKeys \/ ByTerms)
    BY <1>2, BaseStep DEF Common
  <2> QED
    BY <1>2, <2>1, MetTogetherStep DEF Common, Quiet, ByTokens, ByKeys, ByTerms
<1> QED
  BY <1>1, <1>2, PTL DEF AccessSpec

LEMMA KeysHold == AccessSpec => []KeysInv
<1>1. AccessInit => KeysInv
  <2> SUFFICES ASSUME AccessInit PROVE KeysInv
    OBVIOUS
  <2>1. \A k \in KeyIds : key[k].from = Nothing
    BY DEF AccessInit, KeysInit, NoKey
  <2>2. \A r \in Requests : key[r] = NoKey /\ pc[r] = "new" /\ found[r] = {}
    BY RequestsAssumption DEF AccessInit, KeysInit, RequestsInit, KeyIds
  <2>3. \A p \in Providers : cred[p] = {}
    BY DEF AccessInit, KeysInit
  <2> QED
    BY <2>1, <2>2, <2>3 DEF KeysInv, Replacements, RotationReplaces, Insertions, OneCredential, KeyIds
<1>2. Common /\ KeysInv /\ [AccessNext]_accessVars => KeysInv'
  BY KeysInvStep DEF Common
<1> QED
  BY <1>1, <1>2, CommonHolds, PTL DEF AccessSpec

\* A rotated key is revoked and has one successor, for any number of requests:
\* but for rotations that were in progress together, or of revoked keys.
THEOREM RotationReplacesHolds == AccessSpec => []RotationReplaces
<1>1. KeysInv => RotationReplaces
  BY DEF KeysInv
<1> QED
  BY <1>1, KeysHold, PTL

\* Two credential rows of one provider were inserted by requests that were in
\* progress together.
THEOREM OneCredentialHolds == AccessSpec => []OneCredential
<1>1. KeysInv => OneCredential
  BY DEF KeysInv
<1> QED
  BY <1>1, KeysHold, PTL

----------------------------------------------------------------------------
(* Prices, contracts and versions *)

\* Whoever is about to add a price has found the open rule, or met its maker.
PriceInv ==
  /\ \A p \in price : pc[p.by] = "done"
  /\ \A r \in Requests :
       pc[r] = "loaded" /\ Op(r).name = "set_price" =>
         \A p \in OpenRules : Met(r, p.by) \/ \E q \in seen[r] : q.by = p.by
  /\ PriceHistory

\* Two changes of the contract, one of them an upsert, were in progress
\* together.
UpsertMet ==
  \E p, q \in Requests : /\ Met(p, q) /\ pc[p] = "done" /\ pc[q] = "done"
                         /\ Op(p).name \in Upserts /\ Op(q).name \in ContractOps

\* Whoever is about to change the contract has found it as it is, or met one
\* that has changed it; and what the tenant has looked at is in the row until
\* the next upsert.
ContractInv ==
  /\ \A r \in Requests :
       pc[r] = "loaded" /\ Op(r).name \in ContractOps =>
         \/ offer[r] = contract
         \/ \E p \in Requests : Met(p, r) /\ pc[p] = "done" /\ Op(p).name \in ContractOps
  /\ ~shown.changed => contract.terms = shown.terms
  /\ TermsAgreed

\* Whoever is about to add a version deactivates every other and has a larger
\* number, but for versions of those it has met.
VersionInv ==
  /\ \A v \in version : pc[v.by] = "done"
  /\ \A r \in Requests, v \in version :
       pc[r] \in {"marked", "numbered"} /\ Op(r).name = "rewrite" =>
         Met(r, v.by) \/ \E s \in seen[r] : s.by = v.by /\ s.no = v.no
  /\ \A r \in Requests, v \in version :
       pc[r] = "numbered" /\ Op(r).name = "rewrite" => Met(r, v.by) \/ v.no <= number[r]
  /\ OneActiveVersion

TermsInv == PriceInv /\ ContractInv /\ VersionInv

LEMMA TermsKept ==
  ASSUME RequestsTypeOK, TermsTypeOK, TermsInv, UNCHANGED termVars, NEW names, Flow(names),
         names \cap TermOps = {}
  PROVE  TermsInv'
<1>1. /\ price' = price /\ contract' = contract /\ version' = version /\ seen' = seen
      /\ offer' = offer /\ number' = number /\ shown' = shown /\ agreed' = agreed /\ met \subseteq met'
      /\ OpenRules' = OpenRules
  BY DEF termVars, Flow, OpenRules
<1>2. \A r \in Requests :
        pc'[r] \in {"loaded", "marked", "numbered"} /\ Op(r)'.name \in TermOps
          => pc[r] = pc'[r] /\ Op(r)' = Op(r)
  BY FlowKeeps, FlowBegins DEF InProgress, Labels
<1>3. \A r \in Requests : pc[r] = "done" => pc'[r] = "done" /\ Op(r)' = Op(r)
  BY FlowKeeps DEF Ended
<1>4. PriceInv'
  BY <1>1, <1>2, <1>3 DEF TermsInv, PriceInv, PriceHistory, Met, TermOps, TermsTypeOK, PriceRows
<1>5. ContractInv'
  <2>1. UpsertMet => UpsertMet'
    BY <1>1, <1>3 DEF UpsertMet, Met
  <2>2. TermsAgreed'
    BY <1>1, <2>1 DEF TermsInv, ContractInv, TermsAgreed, UpsertMet
  <2> QED
    BY <1>1, <1>2, <1>3, <2>2 DEF TermsInv, ContractInv, Met, TermOps
<1>6. VersionInv'
  BY <1>1, <1>2, <1>3 DEF TermsInv, VersionInv, OneActiveVersion, Met, TermOps, TermsTypeOK, VersionRows
<1> QED
  BY <1>4, <1>5, <1>6 DEF TermsInv

LEMMA TermMoves ==
  ASSUME RequestsTypeOK, NEW r \in Requests, TermsBegin(r) \/ TermsGo(r)
  PROVE  /\ arrival' = arrival /\ met' = met
         /\ pc[r] \in InProgress
         /\ pc'[r] \in {"loaded", "marked", "numbered", "done"}
         /\ \A q \in Requests : q # r => pc'[q] = pc[q]
         /\ \A q \in Requests : Op(q)' = Op(q)
         /\ \A q \in Requests : pc[q] = "done" => pc'[q] = "done"
<1>1. pc \in [Requests -> Labels]
  BY DEF RequestsTypeOK
<1>2. \E l \in {"loaded", "marked", "numbered", "done"} : pc' = [pc EXCEPT ![r] = l]
  BY DEF TermsBegin, TermsGo, PriceRead, PriceUnread, ContractShown, ContractRead, ContractRefused, PriceCommit,
     ContractCommit, ContractConflict, RewriteRead, RewriteUnanswered, Deactivate, Number,
     RewriteCommit, TermStep, Goto
<1>3. arrival' = arrival /\ met' = met /\ pc[r] \in InProgress
  BY DEF TermsBegin, TermsGo, PriceRead, PriceUnread, ContractShown, ContractRead, ContractRefused, PriceCommit,
     ContractCommit, ContractConflict, RewriteRead, RewriteUnanswered, Deactivate, Number,
     RewriteCommit, TermStep, InProgress, Labels
<1> QED
  BY <1>1, <1>2, <1>3 DEF Op, InProgress

LEMMA PriceInvStep ==
  ASSUME RequestsTypeOK, TermsTypeOK, PriceInv, MetTogether,
         NEW r \in Requests, TermsBegin(r) \/ TermsGo(r)
  PROVE  PriceInv'
<1>1. /\ arrival' = arrival /\ met' = met /\ pc[r] \in InProgress
      /\ \A q \in Requests : q # r => pc'[q] = pc[q]
      /\ \A q \in Requests : Op(q)' = Op(q)
      /\ \A q \in Requests : pc[q] = "done" => pc'[q] = "done"
  BY TermMoves
<1>2. ASSUME price' = price,
             \A q \in Requests : pc'[q] = "loaded" /\ Op(q).name = "set_price" =>
               \/ pc[q] = "loaded" /\ seen'[q] = seen[q]
               \/ seen'[q] = OpenRules
      PROVE  PriceInv'
  <2>1. OpenRules' = OpenRules
    BY <1>2 DEF OpenRules
  <2>2. PriceHistory'
    BY <1>1, <1>2, <2>1 DEF PriceInv, PriceHistory, Met
  <2>3. \A p \in price' : pc'[p.by] = "done"
    BY <1>1, <1>2 DEF PriceInv, TermsTypeOK, PriceRows
  <2>4. \A q \in Requests :
          pc'[q] = "loaded" /\ Op(q).name = "set_price" =>
            \A p \in OpenRules : Met(q, p.by) \/ \E s \in seen'[q] : s.by = p.by
    BY <1>2 DEF PriceInv
  <2> QED
    BY <1>1, <2>1, <2>2, <2>3, <2>4 DEF PriceInv, Met
<1>3. CASE PriceRead(r)
  <2>1. price' = price /\ seen' = [seen EXCEPT ![r] = OpenRules]
    BY <1>3 DEF PriceRead
  <2>2. seen'[r] = OpenRules /\ \A q \in Requests : q # r => seen'[q] = seen[q]
    BY <2>1 DEF TermsTypeOK
  <2> QED
    BY <1>1, <1>2, <2>1, <2>2
<1>4. CASE Deactivate(r) \/ Number(r)
  <2>1. price' = price /\ Op(r).name = "rewrite" /\ \A q \in Requests : q # r => seen'[q] = seen[q]
    BY <1>4 DEF Deactivate, Number, TermsTypeOK
  <2> QED
    BY <1>1, <1>2, <2>1
<1>5. CASE \/ PriceUnread(r) \/ ContractShown(r) \/ ContractRead(r) \/ ContractRefused(r)
           \/ ContractCommit(r) \/ ContractConflict(r) \/ RewriteRead(r) \/ RewriteUnanswered(r) \/ RewriteCommit(r)
  <2>1. price' = price /\ seen' = seen /\ (pc'[r] = "done" \/ Op(r).name # "set_price")
    BY <1>5 DEF PriceUnread, ContractShown, ContractRead, ContractRefused, ContractCommit, ContractConflict,
       RewriteRead, RewriteUnanswered, RewriteCommit, termVars, TermStep, Goto, RequestsTypeOK, ContractOps, Upserts
  <2> QED
    BY <1>1, <1>2, <2>1
<1>6. CASE PriceCommit(r)
  <2> DEFINE new == [by |-> r, from |-> Op(r).value, to |-> Open]
             closed == {p \in price : \E q \in seen[r] : q.by = p.by}
  <2>1. /\ price \subseteq PriceRows
        /\ price' = {IF p \in closed THEN [p EXCEPT !.to = Op(r).value] ELSE p : p \in price} \cup {new}
    BY <1>6 DEF PriceCommit, Ends, TermsTypeOK
  <2>2. Op(r).value \in Nat /\ Op(r).value # Open /\ pc[r] = "loaded" /\ Op(r).name = "set_price"
        /\ pc'[r] = "done" /\ seen' = seen
    <3>1. Op(r) \in Operation /\ WellFormed(Op(r)) /\ Op(r).name = "set_price" /\ pc[r] = "loaded"
      BY <1>6, Targets DEF PriceCommit
    <3> QED
      BY <1>6, <3>1 DEF PriceCommit, WellFormed, Operation, Open, TermStep, Goto, RequestsTypeOK
  <2>3. \A p \in price' :
          \/ p = new
          \/ p \in price /\ p \notin closed
          \/ p.to = Op(r).value /\ \E old \in price : p.by = old.by /\ p.from = old.from
    BY <2>1 DEF PriceRows
  <2>4. /\ new \in price'
        /\ \A old \in price : old \notin closed => old \in price'
        /\ \A old \in price : old \in closed =>
             \E p \in price' : p.from = old.from /\ p.to = Op(r).value
    <3>1. ASSUME NEW old \in price, old \in closed
          PROVE  \E p \in price' : p.from = old.from /\ p.to = Op(r).value
      <4>1. [old EXCEPT !.to = Op(r).value] \in price'
        BY <2>1, <3>1
      <4>2. /\ [old EXCEPT !.to = Op(r).value].from = old.from
            /\ [old EXCEPT !.to = Op(r).value].to = Op(r).value
        BY <2>1 DEF PriceRows
      <4> QED
        BY <4>1, <4>2
    <3> QED
      BY <2>1, <3>1
  <2>5. new.by = r /\ new.from = Op(r).value /\ new.to = Open
    OBVIOUS
  <2>8. \A p \in OpenRules : p \notin closed => Met(r, p.by) /\ Met(p.by, r)
    <3>1. \A p \in OpenRules : p \notin closed => Met(r, p.by)
      BY <2>2 DEF PriceInv, OpenRules
    <3>2. \A q \in Requests : {q, r} = {r, q}
      OBVIOUS
    <3> QED
      BY <2>1, <3>1, <3>2 DEF Met, OpenRules, PriceRows
  <2> HIDE DEF new, closed
  <2>6. \A p \in price' : pc'[p.by] = "done"
    BY <1>1, <2>1, <2>2, <2>3, <2>5 DEF PriceInv, PriceRows
  <2>7. \A p \in OpenRules' : p = new \/ (p \in OpenRules /\ p \notin closed)
    BY <2>2, <2>3 DEF OpenRules
  <2>9. ASSUME NEW p \in price', NEW at \in price', p.from <= at.from
        PROVE  \E q \in price' : q.from <= at.from /\ (q.to = Open \/ at.from < q.to)
    <3>1. CASE at = new
      BY <2>2, <2>4, <2>5, <3>1
    <3>2. CASE at # new
      <4>1. PICK old \in price : at.from = old.from
        BY <2>3, <3>2
      <4>2. at.from \in Nat /\ at.from <= at.from
        BY <2>1, <4>1 DEF PriceRows, Dates
      <4>3. PICK q \in price : q.from <= at.from /\ (q.to = Open \/ at.from < q.to)
        BY <4>1, <4>2 DEF PriceInv, PriceHistory
      <4>4. CASE q \notin closed
        BY <2>4, <4>3, <4>4
      <4>5. CASE q \in closed /\ at.from < Op(r).value
        <5>1. PICK u \in price' : u.from = q.from /\ u.to = Op(r).value
          BY <2>4, <4>5
        <5> QED
          BY <4>3, <4>5, <5>1
      <4>6. CASE ~(at.from < Op(r).value)
        <5>1. new.from <= at.from
          BY <2>2, <2>5, <4>2, <4>6
        <5> QED
          BY <2>4, <2>5, <5>1
      <4> QED
        BY <4>4, <4>5, <4>6
    <3> QED
      BY <3>1, <3>2
  <2>10. \A p, q \in OpenRules' : p = q \/ Met(p.by, q.by)
    BY <2>5, <2>7, <2>8 DEF PriceInv, PriceHistory
  <2>11. PriceHistory'
    BY <1>1, <2>9, <2>10 DEF PriceHistory, Met
  <2>12. ASSUME NEW q \in Requests, pc'[q] = "loaded", Op(q).name = "set_price", NEW p \in OpenRules'
         PROVE  Met(q, p.by) \/ \E s \in seen[q] : s.by = p.by
    <3>1. q # r /\ pc[q] = "loaded" /\ Met(q, r)
      BY <1>1, <2>2, <2>12 DEF MetTogether, InProgress, Labels
    <3> QED
      BY <2>5, <2>7, <2>12, <3>1 DEF PriceInv
  <2> QED
    BY <1>1, <2>2, <2>6, <2>11, <2>12 DEF PriceInv, Met
<1> QED
  BY <1>3, <1>4, <1>5, <1>6 DEF TermsBegin, TermsGo

LEMMA ContractInvStep ==
  ASSUME RequestsTypeOK, TermsTypeOK, ContractInv, MetTogether,
         NEW r \in Requests, TermsBegin(r) \/ TermsGo(r)
  PROVE  ContractInv'
<1>1. /\ arrival' = arrival /\ met' = met /\ pc[r] \in InProgress
      /\ \A q \in Requests : q # r => pc'[q] = pc[q]
      /\ \A q \in Requests : Op(q)' = Op(q)
      /\ \A q \in Requests : pc[q] = "done" => pc'[q] = "done"
  BY TermMoves
<1>0. UpsertMet => UpsertMet'
  BY <1>1 DEF UpsertMet, Met
<1>2. ASSUME contract' = contract, agreed' = agreed,
             shown' = shown \/ (~shown'.changed /\ shown'.terms = contract.terms),
             \A q \in Requests : pc'[q] = "loaded" /\ Op(q).name \in ContractOps =>
               \/ pc[q] = "loaded" /\ offer'[q] = offer[q]
               \/ offer'[q] = contract
      PROVE  ContractInv'
  <2>1. TermsAgreed'
    BY <1>0, <1>2 DEF ContractInv, TermsAgreed, UpsertMet
  <2>2. ~shown'.changed => contract'.terms = shown'.terms
    BY <1>2 DEF ContractInv
  <2> QED
    BY <1>1, <1>2, <2>1, <2>2 DEF ContractInv, Met
<1>3. CASE ContractRead(r)
  <2>1. /\ contract' = contract /\ agreed' = agreed /\ shown' = shown
        /\ offer' = [offer EXCEPT ![r] = contract]
    BY <1>3 DEF ContractRead
  <2>2. offer'[r] = contract /\ \A q \in Requests : q # r => offer'[q] = offer[q]
    BY <2>1 DEF TermsTypeOK
  <2> QED
    BY <1>1, <1>2, <2>1, <2>2
<1>4. CASE \/ PriceRead(r) \/ PriceUnread(r) \/ PriceCommit(r) \/ ContractRefused(r) \/ ContractConflict(r)
           \/ RewriteRead(r) \/ RewriteUnanswered(r) \/ Deactivate(r) \/ Number(r) \/ RewriteCommit(r)
  <2>1. /\ contract' = contract /\ agreed' = agreed /\ shown' = shown /\ offer' = offer
        /\ pc'[r] = "done" \/ Op(r).name \notin ContractOps
    BY <1>4 DEF PriceRead, PriceUnread, PriceCommit, ContractRefused, ContractConflict, RewriteRead,
       RewriteUnanswered, Deactivate, Number, RewriteCommit, termVars, TermStep, Goto, RequestsTypeOK,
       ContractOps, Upserts
  <2> QED
    BY <1>1, <1>2, <2>1
<1>5. CASE ContractShown(r)
  <2>1. /\ contract' = contract /\ agreed' = agreed /\ offer' = offer /\ pc'[r] = "done"
        /\ shown' = [terms |-> contract.terms, changed |-> FALSE]
    BY <1>5 DEF ContractShown, TermStep, Goto, RequestsTypeOK
  <2> QED
    BY <1>1, <1>2, <2>1
<1>6. CASE ContractCommit(r)
  <2> DEFINE new == NewContract(r)
  <2>1. /\ pc[r] = "loaded" /\ Op(r).name \in ContractOps /\ offer' = offer
        /\ contract' = [f \in DOMAIN contract |-> IF new[f] = offer[r][f] THEN contract[f] ELSE new[f]]
        /\ agreed' = CASE Op(r).name = "accept" -> shown
                       [] Op(r).name = "impose" -> [terms |-> new.terms, changed |-> FALSE]
                       [] OTHER -> agreed
        /\ shown' = [shown EXCEPT !.changed = @ \/ Op(r).name \in Upserts]
    BY <1>6 DEF ContractCommit
  <2>2. pc'[r] = "done"
    BY <1>6 DEF ContractCommit, TermStep, Goto, RequestsTypeOK
  <2>3. \A q \in Requests : q # r /\ pc[q] = "loaded" => Met(r, q)
    BY <2>1 DEF MetTogether, InProgress, Labels
  <2>4. /\ contract'.status = IF new.status = offer[r].status THEN contract.status ELSE new.status
        /\ contract'.terms = IF new.terms = offer[r].terms THEN contract.terms ELSE new.terms
    <3>1. DOMAIN contract = {"status", "terms"}
      BY DEF TermsTypeOK, ContractRows
    <3> QED
      BY <2>1, <3>1
  <2>5. \A q \in Requests : pc'[q] = "loaded" /\ Op(q).name \in ContractOps =>
          Met(r, q) /\ pc'[r] = "done"
    BY <1>1, <2>2, <2>3
  \* Acceptance and rejection leave the terms alone.
  <2>6. CASE Op(r).name \in {"accept", "reject"}
    <3>1. new.terms = offer[r].terms
      BY <2>6 DEF NewContract, TermsTypeOK, ContractRows, Upserts
    <3>2. contract'.terms = contract.terms /\ shown'.terms = shown.terms
      BY <2>1, <2>4, <3>1 DEF TermsTypeOK, Consent
    <3>3. ~shown'.changed => ~shown.changed
      BY <2>1 DEF TermsTypeOK, Consent
    <3>4. ~shown'.changed => contract'.terms = shown'.terms
      BY <3>2, <3>3 DEF ContractInv
    <3>5. TermsAgreed'
      <4>1. CASE Op(r).name = "accept"
        <5>1. agreed' = shown
          BY <2>1, <4>1
        <5> QED
          BY <3>2, <5>1 DEF ContractInv, TermsAgreed
      <4>2. CASE Op(r).name = "reject"
        <5>1. agreed' = agreed
          BY <2>1, <4>2
        <5>2. new.status = "rejected"
          BY <4>2 DEF NewContract, TermsTypeOK, ContractRows, Upserts
        <5>3. contract'.status = "active" => contract.status = "active"
          BY <2>4, <5>2
        <5> QED
          BY <1>0, <3>2, <5>1, <5>3 DEF ContractInv, TermsAgreed, UpsertMet
      <4> QED
        BY <2>6, <4>1, <4>2
    <3> QED
      BY <1>1, <2>1, <2>5, <3>4, <3>5 DEF ContractInv, Met
  \* After an upsert the tenant has not seen what there is.
  <2>7. CASE Op(r).name \in Upserts
    <3>1. shown'.changed
      BY <2>1, <2>7 DEF TermsTypeOK, Consent
    <3>2. TermsAgreed'
      <4>1. CASE offer[r] = contract
        <5>1. contract'.status = new.status /\ contract'.terms = new.terms
          BY <2>4, <4>1
        <5>2. CASE Op(r).name = "impose"
          <6>1. agreed'.terms = new.terms
            BY <2>1, <5>2
          <6> QED
            BY <5>1, <6>1 DEF TermsAgreed
        <5>3. CASE Op(r).name = "propose"
          <6>1. new.status = "proposed"
            BY <5>3 DEF NewContract, UpsertStatus, Upserts
          <6> QED
            BY <5>1, <6>1 DEF TermsAgreed
        <5> QED
          BY <2>7, <5>2, <5>3 DEF Upserts
      <4>2. CASE offer[r] # contract
        <5>1. PICK p \in Requests : Met(p, r) /\ pc[p] = "done" /\ Op(p).name \in ContractOps
          BY <2>1, <4>2 DEF ContractInv
        <5>2. Met(r, p)' /\ pc'[p] = "done" /\ Op(p)' = Op(p) /\ Op(r)' = Op(r)
          BY <1>1, <5>1 DEF Met
        <5> QED
          BY <2>2, <2>7, <5>1, <5>2 DEF TermsAgreed
      <4> QED
        BY <4>1, <4>2
    <3> QED
      BY <1>1, <2>1, <2>5, <3>1, <3>2 DEF ContractInv, Met
  <2> QED
    BY <2>1, <2>6, <2>7 DEF ContractOps, Upserts
<1> QED
  BY <1>3, <1>4, <1>5, <1>6 DEF TermsBegin, TermsGo

LEMMA VersionInvStep ==
  ASSUME RequestsTypeOK, TermsTypeOK, VersionInv, MetTogether,
         NEW r \in Requests, TermsBegin(r) \/ TermsGo(r)
  PROVE  VersionInv'
<1>1. /\ arrival' = arrival /\ met' = met /\ pc[r] \in InProgress
      /\ \A q \in Requests : q # r => pc'[q] = pc[q]
      /\ \A q \in Requests : Op(q)' = Op(q)
      /\ \A q \in Requests : pc[q] = "done" => pc'[q] = "done"
  BY TermMoves
<1>2. version \subseteq VersionRows
  BY DEF TermsTypeOK
<1>3. ASSUME version' = version,
             \A q \in Requests : q # r => seen'[q] = seen[q] /\ number'[q] = number[q],
             pc'[r] \in {"marked", "numbered"} /\ Op(r).name = "rewrite" => \A v \in version :
               Met(r, v.by) \/ \E s \in seen'[r] : s.by = v.by /\ s.no = v.no,
             pc'[r] = "numbered" /\ Op(r).name = "rewrite" => \A v \in version :
               Met(r, v.by) \/ v.no <= number'[r]
      PROVE  VersionInv'
  <2>1. OneActiveVersion' /\ \A v \in version' : pc'[v.by] = "done"
    BY <1>1, <1>2, <1>3 DEF VersionInv, OneActiveVersion, Met, VersionRows
  <2>2. \A q \in Requests, v \in version :
          pc'[q] \in {"marked", "numbered"} /\ Op(q).name = "rewrite" =>
            Met(q, v.by) \/ \E s \in seen'[q] : s.by = v.by /\ s.no = v.no
    BY <1>1, <1>3 DEF VersionInv
  <2>3. \A q \in Requests, v \in version :
          pc'[q] = "numbered" /\ Op(q).name = "rewrite" => Met(q, v.by) \/ v.no <= number'[q]
    BY <1>1, <1>3 DEF VersionInv
  <2> QED
    BY <1>1, <1>3, <2>1, <2>2, <2>3 DEF VersionInv, Met
<1>4. CASE Deactivate(r)
  <2>1. /\ version' = version /\ number' = number /\ seen' = [seen EXCEPT ![r] = version]
        /\ pc'[r] = "marked"
    BY <1>4 DEF Deactivate, TermStep, Goto, RequestsTypeOK
  <2>2. seen'[r] = version /\ \A q \in Requests : q # r => seen'[q] = seen[q]
    BY <2>1 DEF TermsTypeOK
  <2> QED
    BY <1>3, <2>1, <2>2
<1>5. CASE Number(r)
  <2>1. PICK last \in Numbers : (\A n \in Numbers : n <= last) /\ number' = [number EXCEPT ![r] = last]
    BY <1>5 DEF Number
  <2>2. /\ version' = version /\ pc[r] = "marked" /\ Op(r).name = "rewrite"
        /\ seen' = seen \/ seen' = [seen EXCEPT ![r] = version]
    BY <1>5 DEF Number
  <2>3. \A v \in version : v.no <= last
    BY <2>1 DEF Numbers
  <2>4. number'[r] = last /\ \A q \in Requests : q # r => number'[q] = number[q]
    BY <2>1 DEF TermsTypeOK
  <2>5. (seen'[r] = seen[r] \/ seen'[r] = version) /\ \A q \in Requests : q # r => seen'[q] = seen[q]
    BY <2>2 DEF TermsTypeOK
  <2>6. \A v \in version : Met(r, v.by) \/ \E s \in seen'[r] : s.by = v.by /\ s.no = v.no
    BY <2>2, <2>5 DEF VersionInv
  <2> QED
    BY <1>3, <2>2, <2>3, <2>4, <2>5, <2>6
<1>6. CASE PriceRead(r)
  <2>1. version' = version /\ number' = number /\ Op(r).name = "set_price"
        /\ \A q \in Requests : q # r => seen'[q] = seen[q]
    BY <1>6 DEF PriceRead, TermsTypeOK
  <2> QED
    BY <1>3, <2>1
<1>7. CASE \/ PriceUnread(r) \/ PriceCommit(r) \/ ContractShown(r) \/ ContractRead(r) \/ ContractRefused(r)
           \/ ContractCommit(r) \/ ContractConflict(r) \/ RewriteRead(r) \/ RewriteUnanswered(r)
  <2>1. /\ version' = version /\ seen' = seen /\ number' = number
        /\ pc'[r] \in {"loaded", "done"}
    BY <1>7 DEF PriceUnread, PriceCommit, ContractShown, ContractRead, ContractRefused, ContractCommit,
       ContractConflict,
       RewriteRead, RewriteUnanswered, termVars, TermStep, Goto, RequestsTypeOK
  <2> QED
    BY <1>3, <2>1
<1>8. CASE RewriteCommit(r)
  <2>1. /\ pc[r] = "numbered" /\ Op(r).name = "rewrite" /\ pc'[r] = "done"
        /\ version' = {Deactivated(v, r) : v \in version} \cup Added(r)
        /\ seen' = seen /\ number' = number
    BY <1>8 DEF RewriteCommit, TermStep, Goto, RequestsTypeOK
  <2>2. number[r] \in Nat
    BY DEF TermsTypeOK
  \* An old row, as it was or deactivated.
  <2>3. \A v \in version :
          /\ Deactivated(v, r).by = v.by /\ Deactivated(v, r).no = v.no
          /\ Deactivated(v, r).active => Deactivated(v, r) = v
          /\ Met(r, v.by) \/ ~Deactivated(v, r).active
    BY <1>2, <2>1 DEF Deactivated, VersionInv, VersionRows
  <2>4. \A a \in Added(r) : a.by = r /\ a.no \in Nat /\ a.no > number[r]
    BY <2>2 DEF Added, Row
  <2>5. \A a, b \in Added(r) : a # b => a.no # b.no /\ ~(a.active /\ b.active)
    <3>1. \A b, c \in BOOLEAN : Row(r, 1, b).no # Row(r, 2, c).no
      BY <2>2 DEF Row
    <3>2. ~Row(r, 1, FALSE).active
      BY DEF Row
    <3> QED
      BY <3>1, <3>2 DEF Added
  <2>6. \A v \in version : v.no \in Nat /\ v.by \in Requests /\ pc'[v.by] = "done"
    BY <1>1, <1>2 DEF VersionInv, VersionRows
  <2>7. \A u \in version' :
          u \in Added(r) \/ \E v \in version : u = Deactivated(v, r)
    BY <2>1
  <2>8. \A u \in version' : u.by \in Requests /\ pc'[u.by] = "done"
    BY <2>1, <2>3, <2>4, <2>6, <2>7
  <2>9. ASSUME NEW v \in version, NEW a \in Added(r),
               (Deactivated(v, r).active /\ a.active) \/ v.no = a.no
        PROVE  Met(r, v.by) /\ Met(v.by, r)
    <3>1. Met(r, v.by)
      <4>1. CASE Deactivated(v, r).active
        BY <2>3, <4>1
      <4>2. CASE v.no = a.no
        <5>1. ~(v.no <= number[r])
          BY <2>2, <2>4, <2>6, <4>2
        <5> QED
          BY <2>1, <5>1 DEF VersionInv
      <4> QED
        BY <2>9, <4>1, <4>2
    <3>2. {r, v.by} = {v.by, r}
      OBVIOUS
    <3> QED
      BY <3>1, <3>2 DEF Met
  <2>10. ASSUME NEW u \in version', NEW v \in version', u # v, (u.active /\ v.active) \/ u.no = v.no
         PROVE  Met(u.by, v.by)
    <3>1. CASE u \in Added(r) /\ v \in Added(r)
      BY <2>5, <2>10, <3>1
    <3>2. CASE u \in Added(r) /\ v \notin Added(r)
      <4>1. PICK w \in version : v = Deactivated(w, r)
        BY <2>7, <3>2
      <4> QED
        BY <2>3, <2>4, <2>9, <2>10, <3>2, <4>1
    <3>3. CASE u \notin Added(r) /\ v \in Added(r)
      <4>1. PICK w \in version : u = Deactivated(w, r)
        BY <2>7, <3>3
      <4> QED
        BY <2>3, <2>4, <2>9, <2>10, <3>3, <4>1
    <3>4. CASE u \notin Added(r) /\ v \notin Added(r)
      <4>1. PICK w \in version : u = Deactivated(w, r)
        BY <2>7, <3>4
      <4>2. PICK x \in version : v = Deactivated(x, r)
        BY <2>7, <3>4
      <4>3. w # x /\ ((w.active /\ x.active) \/ w.no = x.no)
        BY <2>3, <2>10, <4>1, <4>2
      <4> QED
        BY <2>3, <4>1, <4>2, <4>3 DEF VersionInv, OneActiveVersion
    <3> QED
      BY <3>1, <3>2, <3>3, <3>4
  <2>11. \A q \in Requests : pc'[q] \in {"marked", "numbered"} => pc[q] = pc'[q] /\ Met(q, r)
    BY <1>1, <2>1 DEF MetTogether, InProgress, Labels
  <2>12. \A u \in version' : u.by = r \/ \E v \in version : u.by = v.by /\ u.no = v.no
    BY <2>3, <2>4, <2>7
  <2>13. OneActiveVersion'
    BY <1>1, <2>10 DEF OneActiveVersion, Met
  <2>14. ASSUME NEW q \in Requests, NEW u \in version', pc'[q] \in {"marked", "numbered"},
                Op(q).name = "rewrite"
         PROVE  /\ Met(q, u.by) \/ \E s \in seen[q] : s.by = u.by /\ s.no = u.no
                /\ pc'[q] = "numbered" => Met(q, u.by) \/ u.no <= number[q]
    <3>1. pc[q] = pc'[q] /\ Met(q, r)
      BY <2>11, <2>14
    <3>2. CASE u.by = r
      BY <3>1, <3>2
    <3>3. CASE u.by # r
      <4>1. PICK v \in version : u.by = v.by /\ u.no = v.no
        BY <2>12, <3>3
      <4> QED
        BY <2>14, <3>1, <4>1 DEF VersionInv
    <3> QED
      BY <3>2, <3>3
  <2> QED
    BY <1>1, <2>1, <2>8, <2>13, <2>14 DEF VersionInv, Met
<1> QED
  BY <1>4, <1>5, <1>6, <1>7, <1>8 DEF TermsBegin, TermsGo

LEMMA TermsHold == AccessSpec => []TermsInv
<1>1. AccessInit => TermsInv
  BY DEF AccessInit, RequestsInit, TermsInit, TermsInv, PriceInv, PriceHistory, OpenRules, ContractInv,
     TermsAgreed, VersionInv, OneActiveVersion, NoContract
<1>2. ASSUME Common, TermsInv, [AccessNext]_accessVars PROVE TermsInv'
  <2>1. Quiet \/ ByTokens \/ ByKeys \/ ByTerms
    BY <1>2, StepsOf DEF Common, AccessBase
  <2>2. CASE Quiet \/ ByTokens \/ ByKeys
    <3>1. PICK names : Flow(names) /\ names \cap TermOps = {} /\ UNCHANGED termVars
      <4>1. {} \cap TermOps = {} /\ TokenNames \cap TermOps = {} /\ (KeyOps \cup CredOps) \cap TermOps = {}
        BY DEF TokenNames, KeyOps, CredOps, TermOps, ContractOps, Upserts, UserOps
      <4> QED
        BY <2>2, <4>1 DEF Quiet, ByTokens, ByKeys
    <3> QED
      BY <1>2, <3>1, TermsKept DEF Common, AccessBase
  <2>3. CASE ByTerms
    BY <1>2, <2>3, PriceInvStep, ContractInvStep, VersionInvStep DEF ByTerms, Common, AccessBase, TermsInv
  <2> QED
    BY <2>1, <2>2, <2>3
<1> QED
  BY <1>1, <1>2, CommonHolds, PTL DEF AccessSpec

\* From the first date a price was set for there is one for every date, and two
\* open rules were set by requests that were in progress together.
THEOREM PriceHistoryHolds == AccessSpec => []PriceHistory
<1>1. TermsInv => PriceHistory
  BY DEF TermsInv, PriceInv
<1> QED
  BY <1>1, TermsHold, PTL

\* An active contract has the terms that were last accepted or put in force,
\* but for two changes that were in progress together.
THEOREM TermsAgreedHolds == AccessSpec => []TermsAgreed
<1>1. TermsInv => TermsAgreed
  BY DEF TermsInv, ContractInv
<1> QED
  BY <1>1, TermsHold, PTL

\* Two active versions, or two with one number, were added by rewrites that
\* were in progress together.
THEOREM OneActiveVersionHolds == AccessSpec => []OneActiveVersion
<1>1. TermsInv => OneActiveVersion
  BY DEF TermsInv, VersionInv
<1> QED
  BY <1>1, TermsHold, PTL

----------------------------------------------------------------------------
(* Accounts and sessions *)

LEMMA Clock ==
  ASSUME RequestsTypeOK, RequestsTypeOK', [AccessNext]_accessVars
  PROVE  now \in Nat /\ now' \in Nat /\ now <= now'
<1>1. now \in Nat /\ now' \in Nat
  BY DEF RequestsTypeOK
<1>2. now' = now \/ now' = now + 1
  <2>1. CASE UNCHANGED accessVars
    BY <2>1 DEF accessVars, requestVars
  <2>2. CASE Tick \/ (\E r \in Requests, w \in Workers, o \in Operations : Arrive(r, w, o))
             \/ (\E w \in Workers : Restart(w))
    BY <2>2 DEF Tick, Arrive, Restart
  <2>3. CASE TokensStep
    BY <2>3 DEF TokensStep, LoginRead, LoginRefused, RefreshAsk, RefreshRefused, RefreshMark,
       RefreshRead, RefreshUserGone, IssuePair, Answered, UserRead, UserRefused, UserCommit,
       UserConflict, Finish, Continue, requestVars
  <2>4. CASE \E r \in Requests : KeysBegin(r) \/ KeysEnd(r)
    BY <2>4 DEF KeysBegin, KeysEnd, CreateKey, KeyRead, KeyMissing, CredRead, CredUnread, RevokeCommit,
       RotateCommit, SetCommit, KeyStep
  <2>5. CASE \E r \in Requests : TermsBegin(r) \/ TermsGo(r)
    BY <2>5 DEF TermsBegin, TermsGo, PriceRead, PriceUnread, ContractShown, ContractRead, ContractRefused, PriceCommit,
       ContractCommit, ContractConflict, RewriteRead, RewriteUnanswered, Deactivate, Number,
       RewriteCommit, TermStep
  <2> QED
    BY <2>1, <2>2, <2>3, <2>4, <2>5 DEF AccessNext, Rest
<1> QED
  BY <1>1, <1>2

\* Who is about to change an account has read it, and is not about to
\* deactivate the own one.
AdminInv ==
  /\ \A r \in Requests :
       pc[r] = "loaded" /\ Op(r).name \in UserOps =>
         /\ Op(r).name = "deactivate" => Op(r).on # Actor(r)
         /\ Op(r).name = "create" => row[r].status = "absent"
         /\ Op(r).name # "create" => row[r].status # "absent" /\ user[Op(r).on].status # "absent"
  /\ AdminRemains

\* What a user who is off was given, he was given before he was switched off.
OffInv ==
  /\ \A q \in Issuers : Issued(q) => pair[q].time <= now
  /\ \A q \in Issuers : Issued(q) /\ user[pair[q].user].status = "off" =>
       pair[q].time <= offSince[pair[q].user] \/ q \in late
  /\ \A r \in Requests, u \in Users : IssuesFor(r, u) /\ user[u].status = "off" => r \in late

\* Who has passed the blacklist is about to enter the token, or has entered it.
ExchangeInv ==
  /\ \A q \in Issuers : \A r \in exchanged[q] :
       /\ pc[r] \notin {"new", "admitted", "refused"}
       /\ Op(r).name = "refresh" /\ Op(r).by = q /\ Issued(q)
       /\ pc[r] \notin {"cut", "asked"} => q \in blacklist \cup weak \/ ~RefreshValid(q)
  /\ SingleUse

\* A token step: one request moves, what was issued stays.
LEMMA TokenMoves ==
  ASSUME RequestsTypeOK, NEW r \in Requests, NEW l, pc' = [pc EXCEPT ![r] = l],
         UNCHANGED <<now, arrival, met>>, pc[r] \in InProgress
  PROVE  /\ pc'[r] = l /\ \A q \in Requests : q # r => pc'[q] = pc[q]
         /\ \A q \in Requests : Op(q)' = Op(q) /\ pc[q] \in Ended => pc'[q] = pc[q]
         /\ \A q \in Requests : Op(q)' = Op(q)
BY DEF RequestsTypeOK, Op, InProgress, Ended

LEMMA AdminKept ==
  ASSUME AdminInv, user' = user, stale \subseteq stale',
         \A q \in Requests : pc[q] = "done" => pc'[q] = "done" /\ Op(q)' = Op(q),
         \A q \in Requests : pc'[q] = "loaded" /\ Op(q)'.name \in UserOps =>
           /\ Op(q)' = Op(q) /\ Actor(q)' = Actor(q)
           /\ \/ pc[q] = "loaded" /\ row'[q] = row[q]
              \/ row'[q] = user[Op(q).on] /\ AcceptsTarget(q)
  PROVE  AdminInv'
<1>1. ASSUME NEW q \in Requests, pc'[q] = "loaded", Op(q)'.name \in UserOps
      PROVE  /\ Op(q)'.name = "deactivate" => Op(q)'.on # Actor(q)'
             /\ Op(q)'.name = "create" => row'[q].status = "absent"
             /\ Op(q)'.name # "create" => row'[q].status # "absent" /\ user'[Op(q)'.on].status # "absent"
  <2>1. CASE pc[q] = "loaded" /\ row'[q] = row[q]
    BY <1>1, <2>1 DEF AdminInv
  <2>2. CASE row'[q] = user[Op(q).on] /\ AcceptsTarget(q)
    BY <1>1, <2>2 DEF AcceptsTarget
  <2> QED
    BY <1>1, <2>1, <2>2
<1>2. AdminRemains'
  BY DEF AdminInv, AdminRemains, ActiveAdmins, Patched
<1> QED
  BY <1>1, <1>2 DEF AdminInv

\* What a change makes of an account.
LEMMA ChangedStatus ==
  ASSUME RequestsTypeOK, TokensTypeOK, AdminInv, NEW r \in Requests, UserCommit(r)
  PROVE  /\ Op(r).on \in Users /\ Changed(r) \in Rows
         /\ Changed(r).status # "absent"
         /\ user[Op(r).on].status = "absent" => Changed(r).status = "on"
<1>1. /\ pc[r] = "loaded" /\ Op(r).name \in UserOps /\ ~NameTaken(r)
      /\ Op(r) \in Operation /\ WellFormed(Op(r))
  BY Targets DEF UserCommit
<1>2. Op(r).on \in Users /\ Changed(r) \in Rows
  BY <1>1, ChangedType
<1>3. Changed(r).status = Written(row[r].status, Set(row[r].status, Op(r).active), user[Op(r).on].status)
  BY DEF Changed
<1>4. CASE Op(r).name = "create"
  <2>1. row[r].status = "absent" /\ Op(r).active = "on"
    BY <1>1, <1>4 DEF AdminInv, WellFormed
  <2> QED
    BY <1>2, <1>3, <2>1 DEF Set, Written
<1>5. CASE Op(r).name # "create"
  <2>1. row[r].status # "absent" /\ user[Op(r).on].status # "absent" /\ Op(r).active # "absent"
    BY <1>1, <1>5 DEF AdminInv, Operation, Switches
  <2> QED
    BY <1>2, <1>3, <2>1 DEF Set, Written
<1> QED
  BY <1>4, <1>5

LEMMA AdminCommit ==
  ASSUME RequestsTypeOK, TokensBase, AdminInv, NEW r \in Requests, UserCommit(r)
  PROVE  AdminInv'
<1>1. /\ pc[r] = "loaded" /\ Op(r).name \in UserOps /\ ~NameTaken(r)
      /\ Op(r) \in Operation /\ WellFormed(Op(r)) /\ pair' = pair /\ row' = row
      /\ pc' = [pc EXCEPT ![r] = "done"] /\ UNCHANGED <<now, arrival, met>>
      /\ user' = [user EXCEPT ![Op(r).on] = Changed(r)]
      /\ stale' = IF Actor(r) \in ActiveAdmins THEN stale ELSE stale \cup {r}
  BY Targets DEF UserCommit, Finish, Goto
<1>2. /\ Op(r).on \in Users /\ Changed(r) \in Rows
      /\ Changed(r).status # "absent"
  BY ChangedStatus DEF TokensBase
<1>3. /\ user'[Op(r).on] = Changed(r)
      /\ \A u \in Users : u # Op(r).on => user'[u] = user[u]
  BY <1>1, <1>2 DEF TokensBase, TokensTypeOK
<1>4. /\ pc'[r] = "done" /\ \A q \in Requests : q # r => pc'[q] = pc[q]
      /\ \A q \in Requests : Op(q)' = Op(q)
      /\ \A q \in Requests : Actor(q)' = Actor(q)
  BY <1>1 DEF RequestsTypeOK, Op, Actor
<1>5. ASSUME NEW q \in Requests, pc'[q] = "loaded", Op(q).name \in UserOps
      PROVE  /\ Op(q).name = "deactivate" => Op(q).on # Actor(q)
             /\ Op(q).name = "create" => row[q].status = "absent"
             /\ Op(q).name # "create" => row[q].status # "absent" /\ user'[Op(q).on].status # "absent"
  <2>1. pc[q] = "loaded" /\ Op(q).on \in Users
    BY <1>4, <1>5, Targets
  <2> QED
    BY <1>2, <1>3, <1>5, <2>1 DEF AdminInv
<1>6. AdminRemains'
  <2>1. CASE Actor(r) \notin ActiveAdmins
    BY <1>1, <2>1 DEF AdminRemains
  <2>2. CASE Actor(r) \in ActiveAdmins /\ Op(r).name = "update"
               /\ (Op(r).role = "tenant_admin" \/ Op(r).active = "off")
    BY <1>4, <2>2 DEF AdminRemains, Patched
  <2>3. CASE /\ Actor(r) \in ActiveAdmins
             /\ ~(Op(r).name = "update" /\ (Op(r).role = "tenant_admin" \/ Op(r).active = "off"))
    <3>1. Actor(r) \in Users /\ user[Actor(r)].role = "super_admin" /\ user[Actor(r)].status = "on"
          /\ user[Actor(r)] = [role |-> "super_admin", status |-> "on"]
      BY <2>3 DEF ActiveAdmins
    <3>2. CASE Actor(r) # Op(r).on
      BY <1>3, <3>1, <3>2, <1>4 DEF ActiveAdmins, AdminRemains
    <3>3. CASE Actor(r) = Op(r).on
      <4>1. Op(r).name \in {"reactivate", "update"}
        BY <1>1, <3>1, <3>3 DEF UserOps, AdminInv, NameTaken
      <4>2. /\ Op(r).role \in {"keep", "super_admin"}
            /\ Op(r).active \in {"keep", "on"}
        BY <1>1, <2>3, <4>1 DEF WellFormed, Operation, Roles, Switches
      <4>3. Changed(r).role = "super_admin" /\ Changed(r).status = "on"
        BY <3>1, <3>3, <4>2 DEF Changed, Set, Written
      <4>4. Changed(r) = [role |-> "super_admin", status |-> "on"]
        BY <1>2, <4>3 DEF Rows
      <4> QED
        BY <1>3, <1>2, <4>4 DEF ActiveAdmins, AdminRemains
    <3> QED
      BY <3>2, <3>3
  <2> QED
    BY <2>1, <2>2, <2>3
<1> QED
  BY <1>1, <1>4, <1>5, <1>6 DEF AdminInv

LEMMA OffKept ==
  ASSUME TokensTypeOK, OffInv, UNCHANGED <<user, offSince, late, pair>>,
         now \in Nat, now' \in Nat, now <= now',
         \A q \in Requests, u \in Users :
           IssuesFor(q, u)' => IssuesFor(q, u) \/ user[u].status = "on"
  PROVE  OffInv'
<1>1. \A q \in Issuers : Issued(q)' => Issued(q) /\ pair[q].time \in Nat
  BY DEF Issued, TokensTypeOK
<1>2. \A q \in Issuers : Issued(q)' => pair[q].time <= now'
  BY <1>1 DEF OffInv
<1> QED
  BY <1>1, <1>2 DEF OffInv

LEMMA OffCommit ==
  ASSUME RequestsTypeOK, TokensBase, AdminInv, OffInv, NEW r \in Requests, UserCommit(r)
  PROVE  OffInv'
<1> DEFINE on == Op(r).on
           off == user[on].status = "on" /\ Changed(r).status = "off"
<1>1. /\ pair' = pair /\ pc' = [pc EXCEPT ![r] = "done"] /\ UNCHANGED <<now, arrival, met>>
      /\ user' = [user EXCEPT ![on] = Changed(r)]
      /\ offSince' = IF off THEN [offSince EXCEPT ![on] = now] ELSE offSince
      /\ late' = IF off THEN late \cup {q \in Requests : IssuesFor(q, on)} ELSE late
  BY DEF UserCommit, Finish, Goto
<1>2. /\ on \in Users /\ Changed(r) \in Rows
      /\ Changed(r).status # "absent"
      /\ user[on].status = "absent" => Changed(r).status = "on"
  BY ChangedStatus DEF TokensBase
<1>3. user'[on] = Changed(r) /\ \A u \in Users : u # on => user'[u] = user[u]
  BY <1>1, <1>2 DEF TokensBase, TokensTypeOK
<1>4. /\ off => offSince'[on] = now
      /\ \A u \in Users : u # on \/ ~off => offSince'[u] = offSince[u]
      /\ late \subseteq late'
      /\ off => \A q \in Requests : IssuesFor(q, on) => q \in late'
  BY <1>1, <1>2 DEF TokensBase, TokensTypeOK
<1>5. \A u \in Users : user'[u].status = "off" => user[u].status = "off" \/ (u = on /\ off)
  <2>1. user[on].status \in {"on", "off", "absent"}
    BY <1>2 DEF TokensBase, TokensTypeOK, Rows, Switches
  <2> QED
    BY <1>2, <1>3, <2>1
<1>6. \A q \in Issuers : Issued(q) => pair[q].user \in Users
  BY DEF Issued, TokensBase, TokensTypeOK
<1>7. \A q \in Requests, u \in Users : IssuesFor(q, u)' => IssuesFor(q, u)
  BY <1>1 DEF IssuesFor, Subject, Actor, Op, RequestsTypeOK
<1>8. \A q \in Issuers : Issued(q)' => Issued(q) /\ pair[q].time <= now'
  BY <1>1 DEF Issued, OffInv
<1>9. ASSUME NEW q \in Issuers, Issued(q), user'[pair[q].user].status = "off"
      PROVE  pair[q].time <= offSince'[pair[q].user] \/ q \in late'
  <2>1. CASE pair[q].user = on /\ off
    BY <1>4, <1>9, <2>1 DEF OffInv
  <2>2. CASE ~(pair[q].user = on /\ off)
    <3>1. user[pair[q].user].status = "off" /\ pair[q].user \in Users
      BY <1>5, <1>6, <1>9, <2>2
    <3>2. offSince'[pair[q].user] = offSince[pair[q].user]
      BY <1>4, <2>2, <3>1
    <3> QED
      BY <1>4, <1>9, <3>1, <3>2 DEF OffInv
  <2> QED
    BY <2>1, <2>2
<1>10. ASSUME NEW q \in Requests, NEW u \in Users, IssuesFor(q, u), user'[u].status = "off"
       PROVE  q \in late'
  BY <1>4, <1>5, <1>10 DEF OffInv
<1> QED
  BY <1>1, <1>7, <1>8, <1>9, <1>10 DEF OffInv

LEMMA ExchangeKept ==
  ASSUME RequestsTypeOK, TokensTypeOK, ExchangeInv, exchanged' = exchanged,
         weak \subseteq weak', met \subseteq met',
         now \in Nat, now' \in Nat, now <= now',
         \A q \in Issuers : Issued(q) => pair'[q] = pair[q],
         \A q \in Issuers : q \in blacklist \cup weak => q \in blacklist' \cup weak' \/ ~RefreshValid(q)',
         \A r \in Requests : pc[r] \notin {"new", "admitted", "refused"} /\ Op(r).name = "refresh" =>
           /\ arrival'[r] = arrival[r] /\ pc'[r] \notin {"new", "admitted", "refused"}
           /\ pc[r] = "cut" => pc'[r] = "cut"
           /\ pc[r] = "asked" /\ pc'[r] \notin {"asked", "cut"} => Op(r).by \in blacklist' \cup weak'
           /\ pc'[r] = "asked" => pc[r] = "asked"
  PROVE  ExchangeInv'
<1>1. ASSUME NEW q \in Issuers, NEW r \in exchanged[q]
      PROVE  /\ pc'[r] \notin {"new", "admitted", "refused"} /\ arrival'[r] = arrival[r]
             /\ Op(r)'.name = "refresh" /\ Op(r)'.by = q /\ Issued(q)'
             /\ pc[r] = "cut" => pc'[r] = "cut"
             /\ pc'[r] \notin {"cut", "asked"} => q \in blacklist' \cup weak' \/ ~RefreshValid(q)'
  <2>1. /\ r \in Requests /\ pc[r] \notin {"new", "admitted", "refused"}
        /\ Op(r).name = "refresh" /\ Op(r).by = q /\ Issued(q)
        /\ pc[r] \notin {"cut", "asked"} => q \in blacklist \cup weak \/ ~RefreshValid(q)
    BY DEF ExchangeInv, TokensTypeOK
  <2>2. /\ arrival'[r] = arrival[r] /\ pc'[r] \notin {"new", "admitted", "refused"}
        /\ pc[r] = "cut" => pc'[r] = "cut"
        /\ pc[r] = "asked" /\ pc'[r] \notin {"asked", "cut"} => q \in blacklist' \cup weak'
    BY <2>1
  <2>3. pair'[q] = pair[q] /\ pair[q].time \in Nat
    BY <2>1 DEF TokensTypeOK
  <2>4. ~RefreshValid(q) => ~RefreshValid(q)'
    BY <2>1, <2>3, TokensAssumption DEF RefreshValid, Issued
  <2> QED
    BY <2>1, <2>2, <2>3, <2>4 DEF Op, Issued
<1>2. SingleUse'
  <2> SUFFICES ASSUME NEW q \in Issuers, NEW r1 \in exchanged[q], NEW r2 \in exchanged[q],
                      pc'[r1] # "cut", pc'[r2] # "cut", r1 # r2
               PROVE  q \in weak' \/ ({r1, r2} \in met' /\ arrival'[r1].worker # arrival'[r2].worker)
    BY DEF SingleUse, Met
  <2>1. pc[r1] # "cut" /\ pc[r2] # "cut" /\ arrival'[r1] = arrival[r1] /\ arrival'[r2] = arrival[r2]
    BY <1>1
  <2>2. SingleUse
    BY DEF ExchangeInv
  <2>3. q \in weak \/ ({r1, r2} \in met /\ arrival[r1].worker # arrival[r2].worker)
    BY <2>1, <2>2 DEF SingleUse, Met
  <2> QED
    BY <2>1, <2>3
<1> QED
  BY <1>1, <1>2 DEF ExchangeInv

LEMMA ExchangeAsk ==
  ASSUME RequestsTypeOK, TokensTypeOK, ExchangeInv, MetTogether, NEW r \in Requests, RefreshAsk(r)
  PROVE  ExchangeInv'
<1> DEFINE t == Op(r).by
<1>1. /\ pc[r] = "admitted" /\ Op(r).name = "refresh" /\ RefreshValid(t) /\ t \in Issuers
      /\ weak' = IF t \in blacklist THEN weak \cup {t} ELSE weak
      /\ exchanged' = [exchanged EXCEPT ![t] = @ \cup {r}]
      /\ pc' = [pc EXCEPT ![r] = "asked"] /\ UNCHANGED <<now, arrival, met, pair, blacklist>>
      /\ \A q \in Requests : pc[q] = "asked" => arrival[q].worker # arrival[r].worker
  BY Targets DEF RefreshAsk, Continue, Goto, Undisturbed
<1>2. /\ pc'[r] = "asked" /\ \A q \in Requests : q # r => pc'[q] = pc[q]
      /\ \A q \in Requests : Op(q)' = Op(q)
      /\ \A q \in Issuers : RefreshValid(q)' = RefreshValid(q) /\ Issued(q)' = Issued(q)
  BY <1>1 DEF RequestsTypeOK, Op, RefreshValid, Issued
<1>3. /\ exchanged'[t] = exchanged[t] \cup {r}
      /\ \A q \in Issuers : q # t => exchanged'[q] = exchanged[q]
  BY <1>1 DEF TokensTypeOK
<1>4. \A q \in Issuers : exchanged[q] \subseteq Requests /\ r \notin exchanged[q]
  BY <1>1 DEF ExchangeInv, TokensTypeOK
<1>5. ASSUME NEW q \in Issuers, NEW p \in exchanged'[q]
      PROVE  /\ pc'[p] \notin {"new", "admitted", "refused"}
             /\ Op(p).name = "refresh" /\ Op(p).by = q /\ Issued(q)
             /\ pc'[p] \notin {"cut", "asked"} => q \in blacklist' \cup weak' \/ ~RefreshValid(q)
  <2>1. CASE p \in exchanged[q]
    <3>1. p # r /\ p \in Requests
      BY <1>4, <2>1
    <3> QED
      BY <1>1, <1>2, <2>1, <3>1 DEF ExchangeInv
  <2>2. CASE p \notin exchanged[q]
    <3>1. p = r /\ q = t
      BY <1>3, <1>5, <2>2
    <3> QED
      BY <1>1, <1>2, <3>1 DEF RefreshValid
  <2> QED
    BY <2>1, <2>2
<1>6. ASSUME NEW p \in exchanged[t], pc[p] # "cut"
      PROVE  t \in weak' \/ ({p, r} \in met /\ arrival[p].worker # arrival[r].worker)
  <2>1. p \in Requests /\ p # r /\ (pc[p] # "asked" => t \in blacklist \cup weak)
    BY <1>1, <1>4, <1>6 DEF ExchangeInv
  <2>2. CASE pc[p] = "asked"
    BY <1>1, <2>1, <2>2 DEF MetTogether, Met, InProgress, Labels
  <2>3. CASE pc[p] # "asked"
    BY <1>1, <2>1, <2>3
  <2> QED
    BY <2>2, <2>3
<1>7. SingleUse'
  <2> SUFFICES ASSUME NEW q \in Issuers, NEW r1 \in exchanged'[q], NEW r2 \in exchanged'[q],
                      pc'[r1] # "cut", pc'[r2] # "cut", r1 # r2
               PROVE  q \in weak' \/ ({r1, r2} \in met /\ arrival[r1].worker # arrival[r2].worker)
    BY <1>1 DEF SingleUse, Met
  <2>1. CASE r1 \in exchanged[q] /\ r2 \in exchanged[q]
    <3>1. pc[r1] # "cut" /\ pc[r2] # "cut"
      BY <1>2, <1>4, <2>1
    <3>2. SingleUse
      BY DEF ExchangeInv
    <3> QED
      BY <1>1, <2>1, <3>1, <3>2 DEF SingleUse, Met
  <2>2. CASE r1 \in exchanged[q] /\ r2 \notin exchanged[q]
    <3>1. r2 = r /\ q = t /\ pc[r1] # "cut"
      BY <1>2, <1>3, <1>4, <2>2
    <3> QED
      BY <1>6, <2>2, <3>1
  <2>3. CASE r1 \notin exchanged[q] /\ r2 \in exchanged[q]
    <3>1. r1 = r /\ q = t /\ pc[r2] # "cut"
      BY <1>2, <1>3, <1>4, <2>3
    <3>2. {r1, r2} = {r2, r1}
      OBVIOUS
    <3> QED
      BY <1>6, <2>3, <3>1, <3>2
  <2>4. CASE r1 \notin exchanged[q] /\ r2 \notin exchanged[q]
    BY <1>3, <2>4
  <2> QED
    BY <2>1, <2>2, <2>3, <2>4
<1>8. \A q \in Issuers : exchanged'[q] \subseteq Requests
  BY <1>3, <1>4
<1>9. ASSUME NEW q \in Issuers, NEW p \in exchanged'[q]
      PROVE  /\ pc'[p] \notin {"new", "admitted", "refused"}
             /\ Op(p)'.name = "refresh" /\ Op(p)'.by = q /\ Issued(q)'
             /\ pc'[p] \notin {"cut", "asked"} => q \in blacklist' \cup weak' \/ ~RefreshValid(q)'
  <2>1. p \in Requests /\ Op(p)' = Op(p) /\ RefreshValid(q)' = RefreshValid(q) /\ Issued(q)' = Issued(q)
    BY <1>2, <1>8, <1>9
  <2> QED
    BY <1>5, <1>9, <2>1
<1> QED
  BY <1>7, <1>9 DEF ExchangeInv

AccountsInv == AdminInv /\ OffInv /\ ExchangeInv

\* Steps of the limiter, of the clock, of keys and of terms.
LEMMA AccountsKept ==
  ASSUME AccessBase, AccountsInv, UNCHANGED tokenVars, NEW names, Flow(names),
         names \cap TokenNames = {}, now \in Nat, now' \in Nat, now <= now'
  PROVE  AccountsInv'
<1>1. /\ UNCHANGED <<user, row, pair, blacklist, weak, exchanged, offSince, late, stale>>
      /\ met \subseteq met'
  BY DEF tokenVars, Flow
<1>2. ASSUME NEW q \in Requests, pc'[q] \in {"loaded", "marked", "asked"}, Op(q)'.name \in TokenNames
      PROVE  pc[q] = pc'[q] /\ arrival'[q] = arrival[q] /\ Op(q)' = Op(q)
  <2>1. pc[q] # "new"
    BY <1>2, FlowBegins
  <2> QED
    BY <1>2, <2>1, FlowKeeps DEF InProgress, Labels, Op
<1>3. \A q \in Requests : Op(q)' = Op(q) => Actor(q)' = Actor(q) /\ Subject(q)' = Subject(q)
  BY <1>1 DEF Actor, Subject
<1>4. AdminInv'
  <2>1. \A q \in Requests : pc[q] = "done" => pc'[q] = "done" /\ Op(q)' = Op(q)
    BY FlowKeeps DEF Ended
  <2>2. \A q \in Requests : pc'[q] = "loaded" /\ Op(q)'.name \in UserOps =>
          Op(q)' = Op(q) /\ Actor(q)' = Actor(q) /\ pc[q] = "loaded" /\ row'[q] = row[q]
    BY <1>1, <1>2, <1>3 DEF TokenNames
  <2> QED
    BY <1>1, <2>1, <2>2, AdminKept DEF AccountsInv
<1>5. OffInv'
  <2>1. \A q \in Requests, u \in Users : IssuesFor(q, u)' => IssuesFor(q, u)
    BY <1>1, <1>2, <1>3 DEF IssuesFor, TokenNames
  <2> QED
    BY <1>1, <2>1, OffKept DEF AccountsInv, AccessBase, TokensBase
<1>6. ExchangeInv'
  <2>1. ASSUME NEW r \in Requests, pc[r] \notin {"new", "admitted", "refused"}, Op(r).name = "refresh"
        PROVE  /\ arrival'[r] = arrival[r] /\ pc'[r] \notin {"new", "admitted", "refused"}
               /\ pc[r] = "cut" => pc'[r] = "cut"
               /\ pc'[r] \in {pc[r], "cut"}
    <3>1. "refresh" \notin names
      BY DEF TokenNames
    <3> QED
      BY <2>1, <3>1 DEF Flow, Moved, InProgress
  <2>2. \A q \in Issuers : Issued(q) => pair'[q] = pair[q]
    BY <1>1
  <2>3. \A q \in Issuers : q \in blacklist \cup weak => q \in blacklist' \cup weak' \/ ~RefreshValid(q)'
    BY <1>1
  <2>4. exchanged' = exchanged /\ weak \subseteq weak'
    BY <1>1
  <2> QED
    BY <1>1, <2>1, <2>2, <2>3, <2>4, ExchangeKept DEF AccountsInv, AccessBase, TokensBase
<1> QED
  BY <1>4, <1>5, <1>6 DEF AccountsInv

LEMMA EntryLostStep ==
  ASSUME AccessBase, AccountsInv, NEW q \in Issuers, EntryLost(q), UNCHANGED requestVars
  PROVE  AccountsInv'
<1>1. /\ UNCHANGED <<user, row, pair, exchanged, offSince, late, stale>>
      /\ UNCHANGED <<now, pc, arrival, met>> /\ blacklist' = blacklist \ {q}
      /\ weak' = IF RefreshValid(q) THEN weak \cup {q} ELSE weak
  BY DEF EntryLost, requestVars
<1>2. now \in Nat
  BY DEF AccessBase, RequestsTypeOK
<1>3. AdminInv'
  BY <1>1 DEF AccountsInv, AdminInv, AdminRemains, ActiveAdmins, Patched, Actor, Op
<1>4. OffInv'
  BY <1>1 DEF AccountsInv, OffInv, Issued, IssuesFor, Subject, Actor, Op
<1>5. ExchangeInv'
  <2>1. \A p \in Issuers : p \in blacklist \cup weak => p \in blacklist' \cup weak' \/ ~RefreshValid(p)'
    BY <1>1 DEF RefreshValid, Issued
  <2> QED
    BY <1>1, <1>2, <2>1, ExchangeKept DEF AccountsInv, AccessBase, TokensBase
<1> QED
  BY <1>3, <1>4, <1>5 DEF AccountsInv

LEMMA AccountsStep ==
  ASSUME AccessBase, AccountsInv, MetTogether, TokensStep
  PROVE  AccountsInv'
<1>1. now \in Nat /\ pc \in [Requests -> Labels] /\ TokensTypeOK /\ RequestsTypeOK /\ TokensBase
  BY DEF AccessBase, RequestsTypeOK, TokensBase
<1>2. \A q \in Issuers : Issued(q) => pair'[q] = pair[q]
  BY TokensBaseStep DEF AccessBase
<1>3. CASE \E q \in Issuers : EntryLost(q) /\ UNCHANGED requestVars
  BY <1>3, EntryLostStep
<1>4. ASSUME NEW r \in Requests,
             \/ LoginRead(r) \/ LoginRefused(r)
             \/ RefreshAsk(r) \/ RefreshRefused(r) \/ RefreshMark(r)
             \/ RefreshRead(r) \/ RefreshUserGone(r) \/ IssuePair(r)
             \/ Answered(r) \/ UserRead(r) \/ UserRefused(r) \/ UserCommit(r) \/ UserConflict(r)
      PROVE  AccountsInv'
  <2>1. /\ UNCHANGED <<now, arrival, met>> /\ pc[r] \in InProgress
        /\ pc'[r] \in {"asked", "loaded", "marked", "done"}
        /\ \A q \in Requests : q # r => pc'[q] = pc[q]
        /\ \A q \in Requests : Op(q)' = Op(q)
        /\ \A q \in Requests : pc[q] \in {"done", "cut"} => pc'[q] = pc[q]
    <3>1. \E l \in {"asked", "loaded", "marked", "done"} :
            pc' = [pc EXCEPT ![r] = l] /\ pc[r] \in InProgress /\ UNCHANGED <<now, arrival, met>>
      BY <1>4 DEF LoginRead, LoginRefused, RefreshAsk, RefreshRefused, RefreshMark, RefreshRead,
         RefreshUserGone, IssuePair, Answered, UserRead, UserRefused, UserCommit, UserConflict,
         Finish, Continue, Goto, InProgress, Labels
    <3> QED
      BY <1>1, <3>1, TokenMoves DEF Ended, InProgress
  \* Whoever goes on with a token of his own goes on with the same user.
  <2>2. \A q \in Requests : pc[q] \in {"asked", "loaded", "marked"} /\ Op(q).name \in {"refresh"} \cup UserOps
          => Actor(q)' = Actor(q)
    <3> SUFFICES ASSUME NEW q \in Requests, pc[q] \in {"asked", "loaded", "marked"},
                        Op(q).name \in {"refresh"} \cup UserOps
                 PROVE  Actor(q)' = Actor(q)
      OBVIOUS
    <3>1. Issued(Op(q).by) /\ Op(q).by \in Issuers
      BY <1>1, Targets DEF TokensBase, Acting, UserOps
    <3> QED
      BY <1>2, <2>1, <3>1 DEF Actor
  <2>3. AdminInv'
    <3>1. CASE UserCommit(r)
      BY <1>1, <3>1, AdminCommit DEF AccountsInv
    <3>2. CASE ~UserCommit(r)
      <4>1. user' = user /\ stale' = stale
        BY <1>4, <3>2 DEF LoginRead, LoginRefused, RefreshAsk, RefreshRefused, RefreshMark, RefreshRead,
           RefreshUserGone, IssuePair, Answered, UserRead, UserRefused, UserConflict, tokenVars
      <4>2. \A q \in Requests : q # r => row'[q] = row[q]
        BY <1>1, <1>4, <3>2 DEF LoginRead, LoginRefused, RefreshAsk, RefreshRefused, RefreshMark,
           RefreshRead, RefreshUserGone, IssuePair, Answered, UserRead, UserRefused, UserConflict,
           tokenVars, TokensTypeOK
      <4>3. pc'[r] = "loaded" /\ Op(r).name \in UserOps => UserRead(r)
        BY <1>1, <1>4, <3>2 DEF LoginRead, LoginRefused, RefreshAsk, RefreshRefused, RefreshMark,
           RefreshRead, RefreshUserGone, IssuePair, Answered, UserRefused, UserConflict,
           Finish, Continue, Goto, UserOps
      <4>4. UserRead(r) => row'[r] = user[Op(r).on] /\ AcceptsTarget(r) /\ Actor(r)' = Actor(r)
        BY <1>1, <2>1 DEF UserRead, TokensTypeOK, Actor
      <4>5. \A q \in Requests : pc[q] = "done" => pc'[q] = "done" /\ Op(q)' = Op(q)
        BY <2>1
      <4>6. \A q \in Requests : pc'[q] = "loaded" /\ Op(q)'.name \in UserOps =>
              /\ Op(q)' = Op(q) /\ Actor(q)' = Actor(q)
              /\ \/ pc[q] = "loaded" /\ row'[q] = row[q]
                 \/ row'[q] = user[Op(q).on] /\ AcceptsTarget(q)
        BY <2>1, <2>2, <4>2, <4>3, <4>4
      <4> QED
        BY <4>1, <4>5, <4>6, AdminKept DEF AccountsInv
    <3> QED
      BY <3>1, <3>2
  <2>4. OffInv'
    <3>1. CASE UserCommit(r)
      BY <1>1, <3>1, OffCommit DEF AccountsInv
    <3>2. CASE IssuePair(r)
      <4>1. /\ pc[r] = "marked" /\ Op(r).name \in {"login", "refresh"} /\ pc'[r] = "done"
            /\ pair' = [pair EXCEPT ![r] = [user |-> Subject(r), role |-> row[r].role, time |-> now]]
            /\ UNCHANGED <<user, offSince, late>> /\ r \in Issuers
        BY <1>1, <3>2 DEF IssuePair, Finish, Goto, Issuers
      <4>2. /\ pair'[r] = [user |-> Subject(r), role |-> row[r].role, time |-> now]
            /\ \A q \in Issuers : q # r => pair'[q] = pair[q]
        BY <1>1, <4>1 DEF TokensTypeOK
      <4>3. \A q \in Requests, u \in Users : IssuesFor(q, u)' => IssuesFor(q, u)
        BY <2>1, <2>2, <4>1 DEF IssuesFor, Subject
      <4>4. Issued(r)' => Subject(r) \in Users
        BY <1>1, <4>1, Targets, ActorIsUser DEF Subject, TokensBase, Acting
      <4>5. \A q \in Issuers : Issued(q)' => pair'[q].time <= now
        BY <1>1, <4>2 DEF AccountsInv, OffInv, Issued
      <4>6. ASSUME NEW q \in Issuers, Issued(q)', user[pair'[q].user].status = "off"
            PROVE  pair'[q].time <= offSince[pair'[q].user] \/ q \in late
        <5>1. CASE q = r
          <6>1. Subject(r) \in Users /\ IssuesFor(r, Subject(r)) /\ user[Subject(r)].status = "off"
            BY <4>1, <4>2, <4>4, <4>6, <5>1 DEF IssuesFor
          <6> QED
            BY <5>1, <6>1 DEF AccountsInv, OffInv
        <5>2. CASE q # r
          BY <4>2, <4>6, <5>2 DEF AccountsInv, OffInv, Issued
        <5> QED
          BY <5>1, <5>2
      <4> QED
        BY <2>1, <4>1, <4>3, <4>5, <4>6 DEF AccountsInv, OffInv
    <3>3. CASE ~UserCommit(r) /\ ~IssuePair(r)
      <4>1. UNCHANGED <<user, offSince, late, pair>>
        BY <1>4, <3>3 DEF LoginRead, LoginRefused, RefreshAsk, RefreshRefused, RefreshMark, RefreshRead,
           RefreshUserGone, Answered, UserRead, UserRefused, UserConflict, tokenVars
      <4>2. pc'[r] = "marked" => user[Subject(r)].status = "on" /\ Subject(r)' = Subject(r)
        BY <1>1, <1>4, <2>1, <3>3, <4>1 DEF LoginRead, LoginRefused, RefreshAsk, RefreshRefused, RefreshMark,
           RefreshRead, RefreshUserGone, Answered, UserRead, UserRefused, UserConflict, FindsActiveUser,
           Finish, Continue, Goto, Subject, Actor
      <4>3. \A q \in Requests, u \in Users :
              IssuesFor(q, u)' => IssuesFor(q, u) \/ user[u].status = "on"
        BY <2>1, <2>2, <4>2 DEF IssuesFor, Subject
      <4> QED
        BY <1>1, <2>1, <4>1, <4>3, OffKept DEF AccountsInv
    <3> QED
      BY <3>1, <3>2, <3>3
  <2>5. ExchangeInv'
    <3>1. CASE RefreshAsk(r)
      BY <1>1, <3>1, ExchangeAsk DEF AccountsInv
    <3>2. CASE ~RefreshAsk(r)
      <4>1. exchanged' = exchanged /\ blacklist \subseteq blacklist' /\ weak \subseteq weak'
        BY <1>4, <3>2 DEF LoginRead, LoginRefused, RefreshRefused, RefreshMark, RefreshRead,
           RefreshUserGone, IssuePair, Answered, UserRead, UserRefused, UserCommit, UserConflict, tokenVars
      <4>2. pc'[r] # "asked"
        BY <1>1, <1>4, <3>2 DEF LoginRead, LoginRefused, RefreshRefused, RefreshMark, RefreshRead,
           RefreshUserGone, IssuePair, Answered, UserRead, UserRefused, UserCommit, UserConflict,
           Finish, Continue, Goto
      <4>3. pc[r] = "asked" /\ Op(r).name = "refresh" => Op(r).by \in blacklist' \cup weak'
        <5>1. pc[r] = "asked" /\ Op(r).name = "refresh" => RefreshMark(r)
          BY <1>4, <3>2 DEF LoginRead, LoginRefused, RefreshRefused, RefreshRead, RefreshUserGone,
             IssuePair, Answered, UserRead, UserRefused, UserCommit, UserConflict, NameTaken
        <5> QED
          BY <5>1 DEF RefreshMark
      <4>4. pc[r] = "admitted" \/ pc[r] \notin {"new", "admitted", "refused", "cut"}
        BY <2>1 DEF InProgress
      <4>5. ASSUME NEW q \in Requests, pc[q] \notin {"new", "admitted", "refused"}, Op(q).name = "refresh"
            PROVE  /\ arrival'[q] = arrival[q] /\ pc'[q] \notin {"new", "admitted", "refused"}
                   /\ pc[q] = "cut" => pc'[q] = "cut"
                   /\ pc[q] = "asked" /\ pc'[q] \notin {"asked", "cut"} => Op(q).by \in blacklist' \cup weak'
                   /\ pc'[q] = "asked" => pc[q] = "asked"
        BY <2>1, <4>2, <4>3, <4>5
      <4> QED
        BY <1>1, <1>2, <2>1, <4>1, <4>5, ExchangeKept DEF AccountsInv
    <3> QED
      BY <3>1, <3>2
  <2> QED
    BY <2>3, <2>4, <2>5 DEF AccountsInv
<1> QED
  BY <1>3, <1>4 DEF TokensStep

LEMMA AccountsHold == AccessSpec => []AccountsInv
<1>1. AccessInit => AccountsInv
  <2> SUFFICES ASSUME AccessInit PROVE AccountsInv
    OBVIOUS
  <2>1. /\ \A r \in Requests : pc[r] = "new"
        /\ \A q \in Issuers : exchanged[q] = {} /\ pair[q].time = 0
        /\ now = 0
    BY DEF AccessInit, RequestsInit, TokensInit, NoPair
  <2>2. \A u \in Users : user[u].status # "off"
    BY DEF AccessInit, TokensInit, NoUser
  <2>3. \A q \in Issuers : Issued(q) => pair[q].user \in Users
    BY TokensAssumption DEF AccessInit, TokensInit, NoPair, Issued
  <2>4. ActiveAdmins # {}
    <3>1. PICK q \in Logins : LoginOf[q] \in Users
      BY TokensAssumption
    <3>2. user[LoginOf[q]] = [role |-> "super_admin", status |-> "on"]
      BY <3>1 DEF AccessInit, TokensInit
    <3> QED
      BY <3>1, <3>2 DEF ActiveAdmins
  <2>5. AdminInv
    BY <2>1, <2>4 DEF AdminInv, AdminRemains
  <2>6. OffInv
    BY <2>1, <2>2, <2>3 DEF OffInv, IssuesFor
  <2>7. ExchangeInv
    BY <2>1 DEF ExchangeInv, SingleUse
  <2> QED
    BY <2>5, <2>6, <2>7 DEF AccountsInv
<1>2. ASSUME Common, AccountsInv, [AccessNext]_accessVars PROVE AccountsInv'
  <2>1. RequestsTypeOK' /\ (Quiet \/ ByTokens \/ ByKeys \/ ByTerms)
    BY <1>2, StepsOf DEF Common, AccessBase
  <2>2. now \in Nat /\ now' \in Nat /\ now <= now'
    BY <1>2, <2>1, Clock DEF Common, AccessBase
  <2>3. CASE ByTokens
    BY <1>2, <2>3, AccountsStep DEF ByTokens, Common
  <2>4. CASE Quiet \/ ByKeys \/ ByTerms
    <3>1. PICK names : Flow(names) /\ names \cap TokenNames = {} /\ UNCHANGED tokenVars
      <4>1. {} \cap TokenNames = {} /\ (KeyOps \cup CredOps) \cap TokenNames = {}
            /\ TermOps \cap TokenNames = {}
        BY DEF TokenNames, KeyOps, CredOps, TermOps, ContractOps, Upserts, UserOps
      <4> QED
        BY <2>4, <4>1 DEF Quiet, ByKeys, ByTerms
    <3> QED
      BY <1>2, <2>2, <3>1, AccountsKept DEF Common
  <2> QED
    BY <2>1, <2>3, <2>4
<1> QED
  BY <1>1, <1>2, CommonHolds, PTL DEF AccessSpec

\* There is an active super_admin, but for updates that took one away and for
\* changes with tokens of those who are none any more.
THEOREM AdminRemainsHolds == AccessSpec => []AdminRemains
<1>1. AccountsInv => AdminRemains
  BY DEF AccountsInv, AdminInv
<1> QED
  BY <1>1, AccountsHold, PTL

\* A refresh token is exchanged once, but for requests that were in progress
\* together in two workers, and but for Redis.
THEOREM SingleUseHolds == AccessSpec => []SingleUse
<1>1. AccountsInv => SingleUse
  BY DEF AccountsInv, ExchangeInv
<1> QED
  BY <1>1, AccountsHold, PTL

\* The tokens of a user who is off end with the access tokens he had when he
\* was switched off, but for exchanges that had read him before.
THEOREM RevocationReachesHolds == AccessSpec => []RevocationReaches
<1>1. ASSUME Common, AccountsInv PROVE RevocationReaches
  <2> SUFFICES ASSUME NEW q \in Issuers, Issued(q), user[pair[q].user].status = "off", AccessValid(q),
                      q \notin late
               PROVE  now <= offSince[pair[q].user] + AccessLife
    BY DEF RevocationReaches
  <2>1. pair[q].time <= offSince[pair[q].user] /\ now <= pair[q].time + AccessLife
    BY <1>1 DEF AccountsInv, OffInv, AccessValid
  <2>2. pair[q].time \in Nat /\ offSince[pair[q].user] \in Nat /\ now \in Nat
    BY <1>1 DEF Common, AccessBase, TokensBase, TokensTypeOK, RequestsTypeOK, Issued
  <2> QED
    BY <2>1, <2>2, TokensAssumption
<1> QED
  BY <1>1, AccountsHold, CommonHolds, PTL

----------------------------------------------------------------------------
(* The rate limiter *)

\* A list remembers what was admitted of it in the window that ends now.
Remembered(w, k) ==
  /\ recent[w][k] \subseteq Admitted(w, k)
  /\ \A q \in Admitted(w, k) :
       arrival[q].time <= now /\ (arrival[q].time > now - Window => q \in recent[w][k])

Bounded(w, k) == \A t \in 0..now : Cardinality(AdmittedUpTo(w, k, t)) <= KeyLimit(k)

\* A refused request that was told when its list is below the limit.
Told(r) ==
  /\ pc[r] = "refused" /\ r \in served[arrival[r].worker]
  /\ RateLimit(Op(r)) = KeyLimit(RateKey(Op(r)))

\* Within the second in which it was refused, nothing is admitted any more.
FullOnRefusal ==
  \A r \in Requests :
    Told(r) /\ arrival[r].time = now =>
      Cardinality(AdmittedUpTo(arrival[r].worker, RateKey(Op(r)), now)) >= KeyLimit(RateKey(Op(r)))

LimiterInv ==
  /\ \A w \in Workers : \A r \in served[w] :
       pc[r] # "new" /\ arrival[r].worker = w /\ arrival[r].time <= now
  /\ \A w \in Workers, k \in RateKeys : Remembered(w, k) /\ Bounded(w, k)
  /\ FullOnRefusal /\ RetryAfterEnough

\* A list of which nothing more is admitted; what it forgets has left the window.
LEMMA ListKept ==
  ASSUME RequestsTypeOK, LimiterTypeOK, RequestsTypeOK', NEW w \in Workers, NEW k \in RateKeys,
         Remembered(w, k), Bounded(w, k), Admitted(w, k)' = Admitted(w, k),
         \A q \in Admitted(w, k) : arrival'[q] = arrival[q],
         now <= now', recent'[w][k] \subseteq recent[w][k],
         \A q \in recent[w][k] : arrival[q].time > now' - Window => q \in recent'[w][k]
  PROVE  Remembered(w, k)' /\ Bounded(w, k)'
<1>1. now \in Nat /\ now' \in Nat /\ Window \in Nat /\ Admitted(w, k) \subseteq Requests
      /\ \A q \in Requests : arrival[q].time \in Nat
  BY LimiterAssumption DEF RequestsTypeOK, LimiterTypeOK, Admitted
<1>2. Remembered(w, k)'
  <2>1. \A q \in Admitted(w, k) : arrival[q].time > now' - Window => arrival[q].time > now - Window
    BY <1>1
  <2>2. \A q \in Admitted(w, k) : arrival[q].time <= now'
    BY <1>1 DEF Remembered
  <2> QED
    BY <1>1, <2>1, <2>2 DEF Remembered
<1>3. \A t \in Nat : AdmittedUpTo(w, k, t)' = AdmittedUpTo(w, k, t)
  BY DEF AdmittedUpTo
<1>4. ASSUME NEW t \in 0..now'
      PROVE  Cardinality(AdmittedUpTo(w, k, t)) <= KeyLimit(k)
  <2>1. CASE t <= now
    BY <1>1, <2>1 DEF Bounded
  <2>2. CASE ~(t <= now)
    <3>1. AdmittedUpTo(w, k, t) \subseteq AdmittedUpTo(w, k, now)
      BY <1>1, <2>2 DEF AdmittedUpTo, Remembered
    <3>2. IsFiniteSet(AdmittedUpTo(w, k, now)) /\ IsFiniteSet(AdmittedUpTo(w, k, t))
      BY <1>1, RequestsAssumption, FS_Subset DEF AdmittedUpTo
    <3>3. /\ Cardinality(AdmittedUpTo(w, k, t)) <= Cardinality(AdmittedUpTo(w, k, now))
          /\ Cardinality(AdmittedUpTo(w, k, t)) \in Nat /\ Cardinality(AdmittedUpTo(w, k, now)) \in Nat
      BY <3>1, <3>2, FS_Subset, FS_CardinalityType
    <3>4. Cardinality(AdmittedUpTo(w, k, now)) <= KeyLimit(k) /\ KeyLimit(k) \in Nat
      BY <1>1, LimiterAssumption DEF Bounded, KeyLimit
    <3> QED
      BY <3>3, <3>4
  <2> QED
    BY <2>1, <2>2
<1> QED
  BY <1>1, <1>2, <1>3, <1>4 DEF Bounded

\* A request that was refused before, and of whose list nothing more is admitted
\* in the same second.
LEMMA ToldKept ==
  ASSUME RequestsTypeOK, RequestsTypeOK', LimiterInv, NEW r \in Requests, now <= now',
         pc[r] = "refused", arrival'[r] = arrival[r], Told(r)' => Told(r),
         NEW fresh, fresh = {} \/ (now' = now /\ (Told(r) => arrival[r].time # now)),
         \A q \in fresh : arrival'[q].time = now,
         Admitted(arrival[r].worker, RateKey(Op(r)))' =
           Admitted(arrival[r].worker, RateKey(Op(r))) \cup fresh,
         \A q \in Admitted(arrival[r].worker, RateKey(Op(r))) : arrival'[q] = arrival[q],
         Told(r)' => arrival[r].time <= now
  PROVE  /\ Told(r)' /\ arrival'[r].time = now' =>
              Cardinality(AdmittedUpTo(arrival[r].worker, RateKey(Op(r)), now)') >= KeyLimit(RateKey(Op(r)))
         /\ Told(r)' => Cardinality(StillIn(r)') < RateLimit(Op(r))
<1> DEFINE A == Admitted(arrival[r].worker, RateKey(Op(r)))
<1> SUFFICES ASSUME Told(r)'
             PROVE  /\ arrival'[r].time = now' =>
                         Cardinality(AdmittedUpTo(arrival[r].worker, RateKey(Op(r)), now)') >= KeyLimit(RateKey(Op(r)))
                    /\ Cardinality(StillIn(r)') < RateLimit(Op(r))
  OBVIOUS
<1>1. Told(r) /\ now \in Nat /\ now' \in Nat /\ arrival[r].time \in Nat /\ arrival[r].time <= now
      /\ Op(r)' = Op(r)
  BY DEF RequestsTypeOK, Op
<1>2. fresh = {} \/ arrival[r].time < now
  BY <1>1
<1>3. StillIn(r)' = StillIn(r)
  <2>1. StillIn(r)' = {q \in A \cup fresh :
                         /\ arrival'[q].time <= arrival[r].time
                         /\ arrival'[q].time > arrival[r].time + arrival[r].retry - Window}
    BY <1>1 DEF StillIn
  <2>2. \A q \in fresh : ~(arrival'[q].time <= arrival[r].time)
    BY <1>1, <1>2
  <2> QED
    BY <2>1, <2>2 DEF StillIn
<1>4. Cardinality(StillIn(r)) < RateLimit(Op(r))
  BY <1>1 DEF LimiterInv, RetryAfterEnough, Told
<1>5. ASSUME arrival[r].time = now'
      PROVE  Cardinality(AdmittedUpTo(arrival[r].worker, RateKey(Op(r)), now)') >= KeyLimit(RateKey(Op(r)))
  <2>1. now' = now /\ fresh = {}
    BY <1>1, <1>2, <1>5
  <2>2. AdmittedUpTo(arrival[r].worker, RateKey(Op(r)), now)' =
          {q \in A : arrival'[q].time > now - Window /\ arrival'[q].time <= now}
    BY <1>1, <2>1 DEF AdmittedUpTo
  <2>3. AdmittedUpTo(arrival[r].worker, RateKey(Op(r)), now)' =
          AdmittedUpTo(arrival[r].worker, RateKey(Op(r)), now)
    BY <2>2 DEF AdmittedUpTo
  <2> QED
    BY <1>1, <1>5, <2>1, <2>3 DEF LimiterInv, FullOnRefusal
<1> QED
  BY <1>1, <1>3, <1>4, <1>5

LEMMA LimiterKept ==
  ASSUME RequestsTypeOK, RequestsTypeOK', LimiterTypeOK, LimiterInv, UNCHANGED limiterVars,
         now <= now', NEW names, Flow(names)
  PROVE  LimiterInv'
<1>1. recent' = recent /\ served' = served /\ now \in Nat /\ now' \in Nat
  BY DEF limiterVars, RequestsTypeOK
<1>2. \A w \in Workers : \A r \in served[w] :
        /\ r \in Requests /\ pc[r] # "new" /\ arrival[r].worker = w /\ arrival[r].time <= now
        /\ arrival'[r] = arrival[r] /\ Op(r)' = Op(r) /\ pc'[r] # "new"
        /\ pc'[r] = "refused" <=> pc[r] = "refused"
        /\ arrival[r].time \in Nat
  BY DEF LimiterInv, LimiterTypeOK, RequestsTypeOK, Flow, Moved, InProgress, Labels, Op
<1>3. \A w \in Workers, k \in RateKeys : Admitted(w, k)' = Admitted(w, k)
  BY <1>1, <1>2 DEF Admitted
<1>4. \A w \in Workers, k \in RateKeys : \A q \in Admitted(w, k) : arrival'[q] = arrival[q]
  BY <1>2 DEF Admitted
<1>5. ASSUME NEW w \in Workers, NEW k \in RateKeys PROVE Remembered(w, k)' /\ Bounded(w, k)'
  <2>1. Remembered(w, k) /\ Bounded(w, k)
    BY DEF LimiterInv
  <2> QED
    BY <1>1, <1>3, <1>4, <2>1, ListKept
<1>6. ASSUME NEW r \in Requests, Told(r)'
      PROVE  /\ arrival'[r].time = now' =>
                  Cardinality(AdmittedUpTo(arrival[r].worker, RateKey(Op(r)), now)') >= KeyLimit(RateKey(Op(r)))
             /\ Cardinality(StillIn(r)') < RateLimit(Op(r))
             /\ Op(r)' = Op(r)
  <2>1. pc[r] # "new"
    <3>1. pc'[r] = "refused" /\ arrival'[r].worker \in Workers /\ r \in served[arrival'[r].worker]
      BY <1>1, <1>6 DEF Told, RequestsTypeOK
    <3> QED
      BY <1>2, <3>1
  <2>2. /\ pc[r] = "refused" /\ arrival'[r] = arrival[r] /\ Op(r)' = Op(r)
        /\ r \in served[arrival[r].worker] /\ arrival[r].worker \in Workers
    BY <1>1, <1>2, <1>6, <2>1, FlowKeeps DEF Told, RequestsTypeOK, Flow, Moved, InProgress
  <2>3. Told(r) /\ RateKey(Op(r)) \in RateKeys /\ arrival[r].time <= now
    BY <1>2, <1>6, <2>2 DEF Told, RateKey, RateKeys, AuthPaths
  <2> DEFINE fresh == {}
  <2>4. /\ Admitted(arrival[r].worker, RateKey(Op(r)))' = Admitted(arrival[r].worker, RateKey(Op(r))) \cup fresh
        /\ fresh = {} /\ \A q \in fresh : arrival'[q].time = now
    BY <1>3, <2>2, <2>3 DEF Admitted
  <2>5. \A q \in Admitted(arrival[r].worker, RateKey(Op(r))) : arrival'[q] = arrival[q]
    BY <1>4, <2>2, <2>3
  <2> HIDE DEF fresh
  <2> QED
    BY <1>6, <2>2, <2>3, <2>4, <2>5, ToldKept
<1>7. FullOnRefusal' /\ RetryAfterEnough'
  <2>1. \A r \in Requests : Told(r)' => arrival'[r] = arrival[r]
    BY <1>1, <1>2 DEF Told, RequestsTypeOK
  <2>2. FullOnRefusal'
    BY <1>6, <2>1 DEF FullOnRefusal
  <2>3. RetryAfterEnough'
    BY <1>6 DEF RetryAfterEnough, Told
  <2> QED
    BY <2>2, <2>3
<1>8. \A w \in Workers : \A r \in served'[w] :
        pc'[r] # "new" /\ arrival'[r].worker = w /\ arrival'[r].time <= now'
  BY <1>1, <1>2
<1> QED
  BY <1>5, <1>7, <1>8 DEF LimiterInv

LEMMA LimiterRestart ==
  ASSUME RequestsTypeOK, RequestsTypeOK', LimiterTypeOK, LimiterInv, NEW w \in Workers, Restart(w)
  PROVE  LimiterInv'
<1>1. /\ now' = now /\ arrival' = arrival /\ now \in Nat
      /\ \A r \in Requests : (pc'[r] = "refused" <=> pc[r] = "refused") /\ (pc'[r] = "new" <=> pc[r] = "new")
      /\ \A r \in Requests : Op(r)' = Op(r)
  BY DEF Restart, InProgress, RequestsTypeOK, Op
<1>2. /\ served'[w] = {} /\ \A v \in Workers : v # w => served'[v] = served[v] /\ recent'[v] = recent[v]
      /\ \A k \in RateKeys : recent'[w][k] = {}
  BY DEF Restart, LimiterTypeOK
<1>3. \A v \in Workers, k \in RateKeys : IF v = w THEN Admitted(v, k)' = {} ELSE Admitted(v, k)' = Admitted(v, k)
  <2>1. \A v \in Workers : served[v] \subseteq Requests
    BY DEF LimiterTypeOK
  <2> QED
    BY <1>1, <1>2, <2>1 DEF Admitted
<1>4. ASSUME NEW v \in Workers, NEW k \in RateKeys PROVE Remembered(v, k)' /\ Bounded(v, k)'
  <2>1. CASE v = w
    <3>1. Remembered(v, k)'
      BY <1>2, <1>3, <2>1 DEF Remembered
    <3>2. \A t \in Nat : AdmittedUpTo(v, k, t)' = {}
      BY <1>3, <2>1 DEF AdmittedUpTo
    <3>3. KeyLimit(k) \in Nat
      BY LimiterAssumption DEF KeyLimit
    <3> QED
      BY <1>1, <3>1, <3>2, <3>3, FS_EmptySet DEF Bounded
  <2>2. CASE v # w
    <3>1. Remembered(v, k) /\ Bounded(v, k)
      BY DEF LimiterInv
    <3> QED
      BY <1>1, <1>2, <1>3, <2>2, <3>1, ListKept
  <2> QED
    BY <2>1, <2>2
<1>5. ASSUME NEW r \in Requests, Told(r)'
      PROVE  /\ arrival'[r].time = now' =>
                  Cardinality(AdmittedUpTo(arrival[r].worker, RateKey(Op(r)), now)') >= KeyLimit(RateKey(Op(r)))
             /\ Cardinality(StillIn(r)') < RateLimit(Op(r))
  <2>1. /\ pc[r] = "refused" /\ arrival[r].worker # w /\ arrival[r].worker \in Workers
        /\ r \in served[arrival[r].worker] /\ Told(r) /\ RateKey(Op(r)) \in RateKeys
    BY <1>1, <1>2, <1>5 DEF Told, RateKey, RateKeys, AuthPaths, RequestsTypeOK
  <2>2. arrival[r].time <= now
    BY <2>1 DEF LimiterInv
  <2> DEFINE fresh == {}
  <2>3. /\ Admitted(arrival[r].worker, RateKey(Op(r)))' = Admitted(arrival[r].worker, RateKey(Op(r))) \cup fresh
        /\ fresh = {} /\ \A q \in fresh : arrival'[q].time = now
    BY <1>1, <1>3, <2>1 DEF Admitted
  <2>4. arrival'[r] = arrival[r] /\ \A q \in Admitted(arrival[r].worker, RateKey(Op(r))) : arrival'[q] = arrival[q]
    BY <1>1
  <2>5. now <= now'
    BY <1>1
  <2> HIDE DEF fresh
  <2> QED
    BY <1>5, <2>1, <2>2, <2>3, <2>4, <2>5, ToldKept
<1>6. FullOnRefusal' /\ RetryAfterEnough'
  BY <1>1, <1>5 DEF FullOnRefusal, RetryAfterEnough, Told
<1>7. \A v \in Workers : \A r \in served'[v] :
        pc'[r] # "new" /\ arrival'[r].worker = v /\ arrival'[r].time <= now'
  BY <1>1, <1>2 DEF LimiterInv, LimiterTypeOK
<1> QED
  BY <1>4, <1>6, <1>7 DEF LimiterInv

LEMMA LimiterArrive ==
  ASSUME RequestsTypeOK, RequestsTypeOK', LimiterTypeOK, LimiterInv,
         NEW r \in Requests, NEW w \in Workers, NEW o \in Operations, Arrive(r, w, o)
  PROVE  LimiterInv'
<1> DEFINE k == RateKey(o)
           mine == InWindow(Swept(w)[k])
<1>1. /\ now' = now /\ now \in Nat /\ pc[r] = "new" /\ k \in RateKeys
      /\ served' = [served EXCEPT ![w] = @ \cup {r}]
      /\ \A q \in Requests : q # r => arrival'[q] = arrival[q] /\ pc'[q] = pc[q] /\ Op(q)' = Op(q)
      /\ \A q \in Requests : arrival[q].time \in Nat
      /\ Window \in Nat /\ KeyLimit(k) \in Nat /\ RateLimit(o) \in Nat /\ RateLimit(o) <= KeyLimit(k)
  <2>1. k \in RateKeys
    BY SweptType
  <2>2. /\ Window \in Nat /\ KeyLimit(k) \in Nat /\ RateLimit(o) \in Nat /\ RateLimit(o) <= KeyLimit(k)
    BY LimiterAssumption DEF KeyLimit, RateLimit, RateKey, AuthPaths
  <2>3. \A q \in Requests : q # r => arrival'[q] = arrival[q] /\ pc'[q] = pc[q]
    BY DEF Arrive, Admit, Refuse, Goto, RequestsTypeOK
  <2> QED
    BY <2>1, <2>2, <2>3 DEF Arrive, RequestsTypeOK, Op
<1>2. /\ served'[w] = served[w] \cup {r} /\ \A v \in Workers : v # w => served'[v] = served[v]
      /\ \A v \in Workers : served[v] \subseteq Requests /\ r \notin served[v]
  BY <1>1 DEF LimiterInv, LimiterTypeOK
<1>3. /\ arrival'[r].op = o /\ arrival'[r].worker = w /\ arrival'[r].time = now /\ Op(r)' = o
      /\ Admit(r, w, o) => pc'[r] = "admitted"
      /\ Refuse(r, w, o) => pc'[r] = "refused"
      /\ Admit(r, w, o) \/ Refuse(r, w, o)
  <2>1. \E retry \in Int : arrival' = [arrival EXCEPT ![r] = [op |-> o, worker |-> w, time |-> now, retry |-> retry]]
    <3>1. CASE Admit(r, w, o)
      <4>1. arrival' = [arrival EXCEPT ![r] = [op |-> o, worker |-> w, time |-> now, retry |-> 0]]
        BY <3>1 DEF Admit
      <4>2. 0 \in Int
        OBVIOUS
      <4> QED
        BY <4>1, <4>2, Zenon
    <3>2. CASE Refuse(r, w, o)
      <4>1. PICK q \in mine : arrival' = [arrival EXCEPT ![r] =
              [op |-> o, worker |-> w, time |-> now, retry |-> RetryAfter(arrival[q].time)]]
        BY <3>2 DEF Refuse
      <4>2. q \in Requests
        BY SweptType DEF InWindow
      <4>3. RetryAfter(arrival[q].time) \in Int
        BY <1>1, <4>2, LimiterAssumption DEF RetryAfter
      <4> QED
        BY <4>1, <4>3
    <3> QED
      BY <3>1, <3>2 DEF Arrive
  <2>2. arrival'[r].op = o /\ arrival'[r].worker = w /\ arrival'[r].time = now
    BY <2>1 DEF RequestsTypeOK
  <2>3. Op(r)' = o
    BY <2>2 DEF Op
  <2> QED
    BY <2>2, <2>3 DEF Arrive, Admit, Refuse, Goto, RequestsTypeOK
\* What the worker counts is what it has admitted in the window.
<1>4. mine = AdmittedUpTo(w, k, now)
  <2>1. Remembered(w, k)
    BY <1>1 DEF LimiterInv
  <2>2. InWindow(Swept(w)[k]) = InWindow(recent[w][k])
    BY <1>1 DEF Swept, InWindow
  <2> QED
    BY <2>1, <2>2 DEF Remembered, InWindow, AdmittedUpTo
<1>5. \A v \in Workers, j \in RateKeys :
        Admitted(v, j)' = IF Admit(r, w, o) /\ v = w /\ j = k THEN Admitted(v, j) \cup {r} ELSE Admitted(v, j)
  <2>1. CASE Admit(r, w, o)
    BY <1>1, <1>2, <1>3, <2>1 DEF Admitted
  <2>2. CASE ~Admit(r, w, o)
    BY <1>1, <1>2, <1>3, <2>2 DEF Admitted
  <2> QED
    BY <2>1, <2>2
<1>6. \A v \in Workers, j \in RateKeys : Admitted(v, j) \subseteq Requests \ {r}
  BY <1>2 DEF Admitted
<1>7. /\ \A v \in Workers : v # w => recent'[v] = recent[v]
      /\ \A j \in RateKeys : j # k => recent'[w][j] = Swept(w)[j]
      /\ recent'[w][k] = IF Admit(r, w, o) THEN mine \cup {r} ELSE mine
  <2>1. Swept(w) \in [RateKeys -> SUBSET Requests]
    BY SweptType
  <2>2. CASE Admit(r, w, o)
    <3>1. recent' = [recent EXCEPT ![w] = [Swept(w) EXCEPT ![k] = mine \cup {r}]]
      BY <2>2 DEF Admit
    <3> QED
      BY <1>1, <2>1, <2>2, <3>1 DEF LimiterTypeOK
  <2>3. CASE ~Admit(r, w, o)
    <3>1. recent' = [recent EXCEPT ![w] = [Swept(w) EXCEPT ![k] = mine]]
      BY <1>3, <2>3 DEF Refuse
    <3> QED
      BY <1>1, <2>1, <2>3, <3>1 DEF LimiterTypeOK
  <2> QED
    BY <2>2, <2>3
<1>8. IsFiniteSet(mine) /\ Cardinality(mine) \in Nat
  <2>1. mine \subseteq Requests
    BY SweptType DEF InWindow
  <2> QED
    BY <2>1, RequestsAssumption, FS_Subset, FS_CardinalityType
<1>9. /\ Admit(r, w, o) => Cardinality(mine) < RateLimit(o)
      /\ ~Admit(r, w, o) => Cardinality(mine) >= RateLimit(o)
  BY <1>1, <1>3, <1>8 DEF Admit, Refuse, Admits
\* The lists.
<1>10. ASSUME NEW v \in Workers, NEW j \in RateKeys PROVE Remembered(v, j)' /\ Bounded(v, j)'
  <2>1. Remembered(v, j) /\ Bounded(v, j)
    BY DEF LimiterInv
  <2>2. CASE ~(Admit(r, w, o) /\ v = w /\ j = k)
    <3>1. Admitted(v, j)' = Admitted(v, j) /\ \A q \in Admitted(v, j) : arrival'[q] = arrival[q]
      BY <1>1, <1>5, <1>6, <2>2
    <3>2. /\ recent'[v][j] \subseteq recent[v][j]
          /\ \A q \in recent[v][j] : arrival[q].time > now - Window => q \in recent'[v][j]
      <4>1. CASE v # w
        BY <1>7, <4>1
      <4>2. CASE v = w /\ j # k
        BY <1>7, <4>2 DEF Swept, InWindow
      <4>3. CASE v = w /\ j = k
        <5>1. recent'[v][j] = mine
          BY <1>7, <2>2, <4>3
        <5> QED
          BY <1>1, <4>3, <5>1 DEF Swept, InWindow
      <4> QED
        BY <4>1, <4>2, <4>3
    <3> QED
      BY <1>1, <2>1, <3>1, <3>2, ListKept
  <2>3. CASE Admit(r, w, o) /\ v = w /\ j = k
    <3>1. Admitted(w, k)' = Admitted(w, k) \cup {r} /\ recent'[w][k] = mine \cup {r}
      BY <1>1, <1>5, <1>7, <2>3
    <3>2. Remembered(w, k)'
      <4>1. mine \subseteq Admitted(w, k)
        BY <1>4 DEF AdmittedUpTo
      <4>2. \A q \in Admitted(w, k) : arrival'[q].time <= now /\ (arrival'[q].time > now - Window => q \in mine)
        BY <1>1, <1>4, <1>6, <2>1, <2>3 DEF Remembered, AdmittedUpTo
      <4>3. now <= now
        BY <1>1
      <4> QED
        BY <1>1, <1>3, <3>1, <4>1, <4>2, <4>3 DEF Remembered
    <3>3. ASSUME NEW t \in 0..now PROVE Cardinality(AdmittedUpTo(w, k, t)') <= KeyLimit(k)
      <4>0. AdmittedUpTo(w, k, t)' = {q \in Admitted(w, k) \cup {r} :
                                        arrival'[q].time > t - Window /\ arrival'[q].time <= t}
        BY <3>1 DEF AdmittedUpTo
      <4>1. CASE t < now
        <5>1. ~(arrival'[r].time <= t)
          BY <1>1, <1>3, <4>1
        <5>2. AdmittedUpTo(w, k, t)' = AdmittedUpTo(w, k, t)
          BY <1>1, <1>6, <4>0, <5>1 DEF AdmittedUpTo
        <5> QED
          BY <2>1, <2>3, <5>2 DEF Bounded
      <4>2. CASE t = now
        <5>1. AdmittedUpTo(w, k, t)' \subseteq mine \cup {r}
          BY <1>1, <1>4, <1>6, <4>0, <4>2 DEF AdmittedUpTo
        <5>2. IsFiniteSet(mine \cup {r}) /\ Cardinality(mine \cup {r}) <= Cardinality(mine) + 1
              /\ Cardinality(mine \cup {r}) \in Nat
          <6>1. /\ IsFiniteSet(mine \cup {r})
                /\ Cardinality(mine \cup {r}) \in {Cardinality(mine), Cardinality(mine) + 1}
            BY <1>8, FS_AddElement
          <6> HIDE DEF mine
          <6> QED
            BY <1>8, <6>1
        <5>3. /\ Cardinality(AdmittedUpTo(w, k, t)') <= Cardinality(mine \cup {r})
              /\ Cardinality(AdmittedUpTo(w, k, t)') \in Nat
          BY <5>1, <5>2, FS_Subset, FS_CardinalityType
        <5> QED
          BY <1>1, <1>8, <1>9, <2>3, <5>2, <5>3
      <4> QED
        BY <1>1, <4>1, <4>2
    <3> QED
      BY <1>1, <2>3, <3>2, <3>3 DEF Bounded
  <2> QED
    BY <2>2, <2>3
\* The requests refused before.
<1>11. ASSUME NEW p \in Requests, p # r, Told(p)'
       PROVE  /\ arrival'[p].time = now' =>
                   Cardinality(AdmittedUpTo(arrival[p].worker, RateKey(Op(p)), now)') >= KeyLimit(RateKey(Op(p)))
              /\ Cardinality(StillIn(p)') < RateLimit(Op(p))
  <2> DEFINE fresh == IF Admit(r, w, o) /\ arrival[p].worker = w /\ RateKey(Op(p)) = k THEN {r} ELSE {}
  <2>1. /\ pc[p] = "refused" /\ arrival'[p] = arrival[p] /\ Op(p)' = Op(p) /\ arrival[p].worker \in Workers
    BY <1>1, <1>11 DEF Told, RequestsTypeOK
  <2>2. Told(p) /\ p \in served[arrival[p].worker] /\ RateKey(Op(p)) \in RateKeys
    BY <1>2, <1>11, <2>1 DEF Told, RateKey, RateKeys, AuthPaths
  <2>3. arrival[p].time <= now
    BY <2>1, <2>2 DEF LimiterInv
  <2>4. fresh = {} \/ (now' = now /\ (Told(p) => arrival[p].time # now))
    <3>1. ASSUME Admit(r, w, o), arrival[p].worker = w, RateKey(Op(p)) = k, arrival[p].time = now
          PROVE  FALSE
      <4>1. Cardinality(mine) >= KeyLimit(k)
        BY <1>4, <2>2, <3>1 DEF LimiterInv, FullOnRefusal
      <4> QED
        BY <1>1, <1>8, <1>9, <3>1, <4>1
    <3> QED
      BY <1>1, <3>1
  <2>5. \A q \in fresh : arrival'[q].time = now
    BY <1>3
  <2>6. Admitted(arrival[p].worker, RateKey(Op(p)))' = Admitted(arrival[p].worker, RateKey(Op(p))) \cup fresh
    <3>1. Admitted(arrival[p].worker, RateKey(Op(p)))' =
            {q \in served'[arrival[p].worker] : pc'[q] # "refused" /\ RateKey(Op(q)') = RateKey(Op(p))}
      BY <2>1 DEF Admitted
    <3>2. \A v \in Workers, j \in RateKeys :
            Admitted(v, j)' = {q \in served'[v] : pc'[q] # "refused" /\ RateKey(Op(q)') = j}
      BY DEF Admitted
    <3> QED
      BY <1>5, <2>1, <2>2, <3>1, <3>2
  <2>7. \A q \in Admitted(arrival[p].worker, RateKey(Op(p))) : arrival'[q] = arrival[q]
    BY <1>1, <1>6, <2>1, <2>2
  <2>8. now <= now'
    BY <1>1
  <2> HIDE DEF fresh
  <2> QED
    BY <1>11, <2>1, <2>2, <2>3, <2>4, <2>5, <2>6, <2>7, <2>8, ToldKept
\* The request refused now.
<1>12. ASSUME Told(r)'
       PROVE  /\ Cardinality(AdmittedUpTo(w, k, now)') >= KeyLimit(k)
              /\ Cardinality(StillIn(r)') < RateLimit(o)
  <2>1. Refuse(r, w, o) /\ ~Admit(r, w, o) /\ RateLimit(o) = KeyLimit(k)
    BY <1>3, <1>12 DEF Told
  <2>2. Admitted(w, k)' = Admitted(w, k)
    BY <1>1, <1>5, <2>1
  <2>3. AdmittedUpTo(w, k, now)' = mine
    <3>1. AdmittedUpTo(w, k, now)' =
            {q \in Admitted(w, k) : arrival'[q].time > now - Window /\ arrival'[q].time <= now}
      BY <1>1, <2>2 DEF AdmittedUpTo
    <3> QED
      BY <1>1, <1>4, <1>6, <3>1 DEF AdmittedUpTo
  <2>4. PICK q \in mine : arrival' = [arrival EXCEPT ![r] =
              [op |-> o, worker |-> w, time |-> now, retry |-> RetryAfter(arrival[q].time)]]
    BY <2>1 DEF Refuse
  <2>5. arrival'[r].retry = Window - (now - arrival[q].time) + 1
    BY <2>4 DEF RetryAfter, RequestsTypeOK
  <2>6. q \in Requests /\ arrival[q].time \in Nat /\ arrival[q].time > now - Window
    BY <1>1, <2>4, SweptType DEF InWindow
  <2>7. StillIn(r)' \subseteq mine \ {q}
    <3>1. StillIn(r)' = {p \in Admitted(w, k) : /\ arrival'[p].time <= now
                                               /\ arrival'[p].time > now + arrival'[r].retry - Window}
      <4>1. StillIn(r)' = {p \in Admitted(arrival[r].worker, RateKey(Op(r)))' :
                             /\ arrival'[p].time <= arrival'[r].time
                             /\ arrival'[p].time > arrival'[r].time + arrival'[r].retry - Window}
        BY DEF StillIn
      <4>2. Admitted(arrival[r].worker, RateKey(Op(r)))' = Admitted(w, k)'
        BY <1>3 DEF Admitted
      <4> QED
        BY <1>3, <2>2, <4>1, <4>2
    <3>2. now + arrival'[r].retry - Window = arrival[q].time + 1
      BY <1>1, <2>5, <2>6
    <3>3. ASSUME NEW p \in Admitted(w, k), arrival'[p].time <= now, arrival'[p].time > arrival[q].time + 1
          PROVE  p \in mine \ {q}
      <4>1. arrival'[p] = arrival[p] /\ p \in Requests
        BY <1>1, <1>6
      <4> QED
        BY <1>1, <1>4, <2>6, <3>3, <4>1 DEF AdmittedUpTo
    <3> QED
      BY <3>1, <3>2, <3>3
  <2>8. /\ IsFiniteSet(mine \ {q}) /\ Cardinality(mine \ {q}) = Cardinality(mine) - 1
    BY <1>8, <2>4, FS_RemoveElement
  <2>9. Cardinality(StillIn(r)') <= Cardinality(mine) - 1 /\ Cardinality(StillIn(r)') \in Nat
    BY <2>7, <2>8, FS_Subset, FS_CardinalityType
  <2>10. Cardinality(mine) <= KeyLimit(k)
    BY <1>1, <1>4 DEF LimiterInv, Bounded
  <2> QED
    BY <1>1, <1>8, <1>9, <2>1, <2>3, <2>9, <2>10
<1>13. FullOnRefusal'
  <2> SUFFICES ASSUME NEW p \in Requests, Told(p)', arrival'[p].time = now'
               PROVE  Cardinality(AdmittedUpTo(arrival[p].worker, RateKey(Op(p)), now)') >= KeyLimit(RateKey(Op(p)'))
    BY DEF FullOnRefusal
  <2>1. CASE p = r
    <3>1. AdmittedUpTo(arrival[p].worker, RateKey(Op(p)), now)' = AdmittedUpTo(w, k, now)'
      BY <1>3, <2>1 DEF AdmittedUpTo, Admitted
    <3> QED
      BY <1>3, <1>12, <2>1, <3>1
  <2>2. CASE p # r
    BY <1>1, <1>11, <2>2
  <2> QED
    BY <2>1, <2>2
<1>14. RetryAfterEnough'
  <2>1. ASSUME NEW p \in Requests, Told(p)' PROVE Cardinality(StillIn(p)') < RateLimit(Op(p)')
    BY <1>1, <1>3, <1>11, <1>12, <2>1
  <2> QED
    BY <2>1 DEF RetryAfterEnough, Told
<1>15. \A v \in Workers : \A p \in served'[v] :
         pc'[p] # "new" /\ arrival'[p].worker = v /\ arrival'[p].time <= now'
  <2>1. pc'[r] # "new" /\ now <= now
    BY <1>1, <1>3
  <2> QED
    BY <1>1, <1>2, <1>3, <2>1 DEF LimiterInv
<1> QED
  BY <1>10, <1>13, <1>14, <1>15 DEF LimiterInv

LEMMA LimiterHolds == AccessSpec => []LimiterInv
<1>1. AccessInit => LimiterInv
  <2> SUFFICES ASSUME AccessInit PROVE LimiterInv
    OBVIOUS
  <2>1. /\ \A w \in Workers : served[w] = {}
        /\ \A w \in Workers, k \in RateKeys : recent[w][k] = {}
        /\ \A r \in Requests : pc[r] = "new"
    BY DEF AccessInit, RequestsInit, LimiterInit
  <2>2. \A w \in Workers, k \in RateKeys : Admitted(w, k) = {}
    BY <2>1 DEF Admitted
  <2>3. \A w \in Workers, k \in RateKeys, t \in Nat : AdmittedUpTo(w, k, t) = {}
    BY <2>2 DEF AdmittedUpTo
  <2>4. \A k \in RateKeys : KeyLimit(k) \in Nat
    BY LimiterAssumption DEF KeyLimit
  <2>5. \A w \in Workers, k \in RateKeys : Remembered(w, k) /\ Bounded(w, k)
    <3>1. ASSUME NEW w \in Workers, NEW k \in RateKeys PROVE Remembered(w, k)
      BY <2>1, <2>2 DEF Remembered
    <3>2. ASSUME NEW w \in Workers, NEW k \in RateKeys, NEW t \in 0..now
          PROVE  Cardinality(AdmittedUpTo(w, k, t)) <= KeyLimit(k)
      <4>1. Cardinality({}) = 0
        BY FS_EmptySet
      <4>2. t \in Nat
        BY DEF AccessInit, RequestsInit
      <4> QED
        BY <2>3, <2>4, <4>1, <4>2
    <3> QED
      BY <3>1, <3>2 DEF Bounded
  <2> QED
    BY <2>1, <2>5 DEF LimiterInv, FullOnRefusal, RetryAfterEnough, Told
<1>2. ASSUME Common, LimiterInv, [AccessNext]_accessVars PROVE LimiterInv'
  <2>1. /\ RequestsTypeOK /\ LimiterTypeOK /\ RequestsTypeOK'
        /\ Quiet \/ ByTokens \/ ByKeys \/ ByTerms
    BY <1>2, StepsOf DEF Common, AccessBase
  <2>2. now <= now'
    BY <1>2, <2>1, Clock
  <2>3. CASE \E r \in Requests, w \in Workers, o \in Operations : Arrive(r, w, o)
    BY <1>2, <2>1, <2>3, LimiterArrive
  <2>4. CASE \E w \in Workers : Restart(w)
    BY <1>2, <2>1, <2>4, LimiterRestart
  <2>5. CASE UNCHANGED limiterVars /\ \E names : Flow(names)
    BY <1>2, <2>1, <2>2, <2>5, LimiterKept
  <2> QED
    BY <2>1, <2>3, <2>4, <2>5 DEF Quiet, ByTokens, ByKeys, ByTerms
<1> QED
  BY <1>1, <1>2, CommonHolds, PTL DEF AccessSpec

\* In no window does a worker admit more of a list than its limit, wherever the
\* window begins, for any limits, windows and clean-up periods.
THEOREM WindowBoundHolds == AccessSpec => []WindowBound
<1>1. LimiterInv => WindowBound
  BY DEF LimiterInv, Bounded, WindowBound
<1> QED
  BY <1>1, LimiterHolds, PTL

\* Retry-After is long enough.
THEOREM RetryAfterEnoughHolds == AccessSpec => []RetryAfterEnough
<1>1. LimiterInv => RetryAfterEnough
  BY DEF LimiterInv
<1> QED
  BY <1>1, LimiterHolds, PTL
=============================================================================
