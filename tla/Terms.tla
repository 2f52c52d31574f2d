------------------------------- MODULE Terms --------------------------------
(***************************************************************************)
(* What a tenant pays by: the price rules of a model                       *)
(* (analytics/services/pricing_service.py), the tenant's contract          *)
(* (billing/repositories/contract_repository.py and its endpoints), and    *)
(* the versions of an agent's prompt that the optimizer keeps              *)
(* (forecasting/services/optimizer_service.py).  One model, one tenant,    *)
(* one agent.  Rows are read without a lock; an UPDATE waits for rows that *)
(* another transaction has written, but sees none that it has inserted.    *)
(***************************************************************************)
EXTENDS Requests

CONSTANT
  Proposal  \* the terms of a contract that may have been proposed before

ASSUME TermsAssumption == Proposal \in Nat

VARIABLES
  price,     \* llm_pricing_rules
  contract,  \* llm_tenant_contracts
  version,   \* llm_prompt_version
  seen,      \* the rules or versions a request has read
  offer,     \* the contract a request has read
  number,    \* the largest version number a request has read
  first,     \* whether a request found no version at all
  shown,     \* history: the terms the tenant has last looked at, and whether
             \*   it has not looked since the last upsert
  agreed     \* history: what was shown when the tenant last accepted, or the
             \*   terms the administrator has put in force since

termVars == <<price, contract, version, seen, offer, number, first, shown, agreed>>

Open == 0      \* effective_to is NULL

Dates == Nat \ {Open}

PriceRows == [by : Requests, from : Dates, to : Nat]

VersionRows == [by : Requests, no : Nat, active : BOOLEAN]

NoContract == [status |-> "none", terms |-> 0]

TermStep(r, label) == Goto(r, label) /\ UNCHANGED <<now, arrival, met>>

----------------------------------------------------------------------------
(* create_versioned_rule *)

OpenRules == {p \in price : p.to = Open}

\* scalar_one_or_none: two open rules raise.
PriceRead(r) ==
  /\ pc[r] = "admitted" /\ Op(r).name = "set_price"
  /\ Cardinality(OpenRules) <= 1
  /\ seen' = [seen EXCEPT ![r] = OpenRules]
  /\ TermStep(r, "loaded")
  /\ UNCHANGED <<price, contract, version, offer, number, first, shown, agreed>>

PriceUnread(r) ==
  /\ pc[r] = "admitted" /\ Op(r).name = "set_price"
  /\ Cardinality(OpenRules) > 1
  /\ TermStep(r, "done")
  /\ UNCHANGED termVars

\* Fault: the rule ends the day before the next one starts.
EndsBefore(r) == Op(r).value - 1

\* The rule ends on the day on which the next one starts, and not before it.
Ends(r) == Op(r).value

\* The rule that was found is closed, whoever has closed it meanwhile.
PriceCommit(r) ==
  /\ pc[r] = "loaded" /\ Op(r).name = "set_price"
  /\ price' = {IF \E q \in seen[r] : q.by = p.by THEN [p EXCEPT !.to = Ends(r)] ELSE p : p \in price}
              \cup {[by |-> r, from |-> Op(r).value, to |-> Open]}
  /\ TermStep(r, "done")
  /\ UNCHANGED <<contract, version, seen, offer, number, first, shown, agreed>>

----------------------------------------------------------------------------
(* The tenant's contract: the tenant's look at it, upsert (as a proposal, or *)
(* in force at once), accept, reject                                         *)

ContractShown(r) ==
  /\ pc[r] = "admitted" /\ Op(r).name = "look"
  /\ contract.status # "none"
  /\ shown' = [terms |-> contract.terms, changed |-> FALSE]
  /\ TermStep(r, "done")
  /\ UNCHANGED <<price, contract, version, seen, offer, number, first, agreed>>

ContractAccepts(r) ==
  /\ Op(r).name = "accept" => contract.status = "proposed"
  /\ Op(r).name \in {"look", "reject"} => contract.status # "none"

ContractRead(r) ==
  /\ pc[r] = "admitted" /\ Op(r).name \in ContractOps
  /\ ContractAccepts(r)
  /\ offer' = [offer EXCEPT ![r] = contract]
  /\ TermStep(r, "loaded")
  /\ UNCHANGED <<price, contract, version, seen, number, first, shown, agreed>>

ContractRefused(r) ==
  /\ pc[r] = "admitted" /\ Op(r).name \in ContractOps \cup {"look"}
  /\ ~ContractAccepts(r)
  /\ TermStep(r, "done")
  /\ UNCHANGED termVars

\* Fault: an upsert that finds a contract changes its terms only.
StatusKept(r) ==
  IF offer[r].status # "none" THEN offer[r].status
  ELSE IF Op(r).name = "impose" THEN "active" ELSE "proposed"

UpsertStatus(r) == IF Op(r).name = "impose" THEN "active" ELSE "proposed"

\* The row as the request leaves it.
NewContract(r) ==
  CASE Op(r).name \in Upserts ->
         [status |-> UpsertStatus(r), terms |-> Op(r).value]
    [] Op(r).name = "accept" -> [offer[r] EXCEPT !.status = "active"]
    [] Op(r).name = "reject" -> [offer[r] EXCEPT !.status = "rejected"]

\* A second INSERT for the tenant violates the unique constraint.
Inserted(r) == offer[r].status = "none" /\ contract.status # "none"

\* Only columns whose value is not the one that was loaded are written.
ContractCommit(r) ==
  /\ pc[r] = "loaded" /\ Op(r).name \in ContractOps
  /\ ~Inserted(r)
  /\ LET new == NewContract(r) IN
     /\ contract' = [f \in DOMAIN contract |-> IF new[f] = offer[r][f] THEN contract[f] ELSE new[f]]
     /\ agreed' = CASE Op(r).name = "accept" -> shown
                    [] Op(r).name = "impose" -> [terms |-> new.terms, changed |-> FALSE]
                    [] OTHER -> agreed
  /\ shown' = [shown EXCEPT !.changed = @ \/ Op(r).name \in Upserts]
  /\ TermStep(r, "done")
  /\ UNCHANGED <<price, version, seen, offer, number, first>>

ContractConflict(r) ==
  /\ pc[r] = "loaded" /\ Op(r).name \in ContractOps
  /\ Inserted(r)
  /\ TermStep(r, "done")
  /\ UNCHANGED termVars

----------------------------------------------------------------------------
(* generate_optimized_prompt, once the provider has answered: *)
(* get_prompt_versions, create_prompt_version once or twice   *)

RewriteRead(r) ==
  /\ pc[r] = "admitted" /\ Op(r).name = "rewrite"
  /\ first' = [first EXCEPT ![r] = version = {}]
  /\ TermStep(r, "loaded")
  /\ UNCHANGED <<price, contract, version, seen, offer, number, shown, agreed>>

\* The provider did not answer, or not with a template.
RewriteUnanswered(r) ==
  /\ pc[r] = "admitted" /\ Op(r).name = "rewrite"
  /\ TermStep(r, "done")
  /\ UNCHANGED termVars

\* UPDATE .. SET is_active = FALSE: the rows there are when it begins.
Deactivate(r) ==
  /\ pc[r] = "loaded" /\ Op(r).name = "rewrite"
  /\ seen' = [seen EXCEPT ![r] = version]
  /\ TermStep(r, "marked")
  /\ UNCHANGED <<price, contract, version, offer, number, first, shown, agreed>>

\* A transaction that has the rows and has gone on to its INSERT.
Locked(r) ==
  \E q \in Requests : /\ pc[q] = "numbered"
                      /\ {<<v.by, v.no>> : v \in seen[q]} \cap {<<v.by, v.no>> : v \in seen[r]} # {}

Numbers == {0} \cup {v.no : v \in version}

\* The largest number there is, when the UPDATE has had its rows.  Which of two
\* that wait goes first is left open.  Where there was no version, the old
\* text is inserted before, and a second UPDATE sees what is there by now.
Number(r) ==
  /\ pc[r] = "marked" /\ Op(r).name = "rewrite"
  /\ ~Locked(r)
  /\ \E last \in Numbers :
       /\ \A n \in Numbers : n <= last
       /\ number' = [number EXCEPT ![r] = last]
  /\ seen' = IF first[r] THEN [seen EXCEPT ![r] = version] ELSE seen
  /\ TermStep(r, "numbered")
  /\ UNCHANGED <<price, contract, version, offer, first, shown, agreed>>

Deactivated(v, r) ==
  IF \E s \in seen[r] : s.by = v.by /\ s.no = v.no THEN [v EXCEPT !.active = FALSE] ELSE v

Row(r, n, active) == [by |-> r, no |-> number[r] + n, active |-> active]

\* Fault: the old text is not deactivated when its rewriting is added.
AddedBoth(r) == IF first[r] THEN {Row(r, 1, TRUE), Row(r, 2, TRUE)} ELSE {Row(r, 1, TRUE)}

Added(r) == IF first[r] THEN {Row(r, 1, FALSE), Row(r, 2, TRUE)} ELSE {Row(r, 1, TRUE)}

RewriteCommit(r) ==
  /\ pc[r] = "numbered" /\ Op(r).name = "rewrite"
  /\ version' = {Deactivated(v, r) : v \in version} \cup Added(r)
  /\ TermStep(r, "done")
  /\ UNCHANGED <<price, contract, seen, offer, number, first, shown, agreed>>

----------------------------------------------------------------------------
TermsInit ==
  /\ price = {} /\ version = {}
  /\ contract \in {NoContract, [status |-> "proposed", terms |-> Proposal]}
  /\ seen = [r \in Requests |-> {}]
  /\ offer = [r \in Requests |-> NoContract]
  /\ number = [r \in Requests |-> 0]
  /\ first = [r \in Requests |-> FALSE]
  /\ shown = [terms |-> 0, changed |-> TRUE]
  /\ agreed = [terms |-> 0, changed |-> FALSE]

TermsBegin(r) ==
  PriceRead(r) \/ PriceUnread(r) \/ ContractShown(r) \/ ContractRead(r) \/ ContractRefused(r)

TermsGo(r) ==
  \/ PriceCommit(r) \/ ContractCommit(r) \/ ContractConflict(r)
  \/ RewriteRead(r) \/ RewriteUnanswered(r) \/ Deactivate(r) \/ Number(r) \/ RewriteCommit(r)

----------------------------------------------------------------------------
(* Properties *)

ContractRows == [status : {"none", "proposed", "active", "rejected"}, terms : Nat]

Consent == [terms : Nat, changed : BOOLEAN]

TermsTypeOK ==
  /\ price \subseteq PriceRows
  /\ version \subseteq VersionRows
  /\ contract \in ContractRows
  /\ seen \in [Requests -> SUBSET (PriceRows \cup VersionRows)]
  /\ offer \in [Requests -> ContractRows]
  /\ number \in [Requests -> Nat]
  /\ first \in [Requests -> BOOLEAN]
  /\ shown \in Consent /\ agreed \in Consent

\* From the first date a price was set for, there is a price for every date,
\* whatever dates are given and however many requests give them ("you can
\* always recalculate what a call cost at the time it was made"), and one rule
\* is open unless two requests were in progress together.
PriceHistory ==
  /\ \A p, at \in price :
       p.from <= at.from => \E q \in price : q.from <= at.from /\ (q.to = Open \/ at.from < q.to)
  /\ \A p, q \in OpenRules : p = q \/ Met(p.by, q.by)

\* The terms in force are those that the tenant was shown before it accepted,
\* or that the administrator put in force.  There are two exceptions and no
\* other: an upsert that the tenant has not seen came before its acceptance,
\* which writes the status of whatever the row holds; or an upsert met another
\* change, and the columns of both are in the row.  In particular a contract
\* that is proposed anew is not in force until it is accepted anew.
TermsAgreed ==
  contract.status = "active" =>
    \/ contract.terms = agreed.terms
    \/ agreed.changed
    \/ \E p, q \in Requests : /\ Met(p, q) /\ pc[p] = "done" /\ pc[q] = "done"
                              /\ Op(p).name \in Upserts /\ Op(q).name \in ContractOps

\* An agent has one active version, and the numbers of versions differ, unless
\* two rewrites were in progress together.
OneActiveVersion ==
  \A v, u \in version :
    v # u /\ ((v.active /\ u.active) \/ v.no = u.no) => Met(v.by, u.by)
============================================================================
