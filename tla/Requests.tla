------------------------------ MODULE Requests ------------------------------
(***************************************************************************)
(* What the modules of the administrative API share: requests of clients   *)
(* that arrive at one of the worker processes, are admitted or refused,    *)
(* and are handled step by step, each step up to an await or a COMMIT.     *)
(* Every request is made once; a client that tries again is a new one.     *)
(***************************************************************************)
EXTENDS Integers, FiniteSets

CONSTANTS
  Requests,    \* the requests that are ever made
  Workers,     \* uvicorn worker processes
  Operations,  \* what may be asked: see Operation
  Logins,      \* logins made before, with the tokens they were answered with
  Users,       \* user names
  Keys,        \* virtual keys that exist from the start
  Providers,   \* LLM providers a tenant has credentials for
  Nothing,     \* no token, no worker, nothing to work on
  MaxTime      \* bound: the clock

\* A pair of tokens and a key are named for the request that made them.
Issuers == Requests \cup Logins
KeyIds == Requests \cup Keys

UserOps == {"deactivate", "reactivate", "update", "create"}
KeyOps  == {"create_key", "rotate_key", "revoke_key"}
CredOps == {"set_credential", "delete_credential"}
Upserts == {"propose", "impose"}
ContractOps == {"accept", "reject"} \cup Upserts
TermOps == {"set_price", "rewrite", "look"} \cup ContractOps

\* What needs no token.  (rewrite-prompt depends on no user.)
Anonymous == {"login", "refresh", "rewrite"}

Names == Anonymous \cup {"read"} \cup UserOps \cup KeyOps \cup CredOps \cup TermOps

Roles    == {"super_admin", "tenant_admin"}
Switches == {"on", "off"}

\* by: whose tokens; on: the account, key or provider; role and active: the
\* fields of the account that are set, if any; value: a date, or terms.
Operation ==
  [name : Names, by : Issuers \cup {Nothing},
   on : Users \cup KeyIds \cup Providers \cup {Nothing},
   role : Roles \cup {"keep"}, active : Switches \cup {"keep"}, value : Nat]

\* Operations name what they work on, and only update sets what it likes.
WellFormed(o) ==
  /\ o.name \notin {"login", "rewrite"} => o.by \in Issuers
  /\ o.name \in UserOps \cup {"login"} => o.on \in Users
  /\ o.name \in {"rotate_key", "revoke_key"} => o.on \in KeyIds
  /\ o.name \in CredOps => o.on \in Providers
  /\ o.name = "deactivate" => o.role = "keep" /\ o.active = "off"
  /\ o.name = "reactivate" => o.role = "keep" /\ o.active = "on"
  /\ o.name = "create"     => o.role \in Roles /\ o.active = "on"
  /\ o.name \in {"set_price"} \cup Upserts => o.value > 0

ASSUME RequestsAssumption ==
  /\ IsFiniteSet(Requests)
  /\ Operations \subseteq Operation
  /\ \A o \in Operations : WellFormed(o)
  /\ Requests \cap (Logins \cup Keys) = {}
  /\ Nothing \notin Issuers \cup KeyIds \cup Users \cup Providers \cup Workers
  /\ MaxTime \in Nat

VARIABLES
  now,      \* the clock
  pc,       \* where each request stands
  arrival,  \* what it asks, where and when it arrived
  met       \* history: pairs of requests that were in progress together

requestVars == <<now, pc, arrival, met>>

Labels == {"new", "refused", "admitted", "loaded", "asked", "marked", "numbered", "done", "cut"}

InProgress == Labels \ {"new", "refused", "done", "cut"}

NoOperation == [name |-> "read", by |-> Nothing, on |-> Nothing, role |-> "keep", active |-> "keep",
                value |-> 0]

NotArrived == [op |-> NoOperation, worker |-> Nothing, time |-> 0, retry |-> 0]

Op(r) == arrival[r].op

Goto(r, label) == pc' = [pc EXCEPT ![r] = label]

Met(r, q) == {r, q} \in met

Tick ==
  /\ now < MaxTime
  /\ now' = now + 1
  /\ UNCHANGED <<pc, arrival, met>>

RequestsInit ==
  /\ now = 0
  /\ pc = [r \in Requests |-> "new"]
  /\ arrival = [r \in Requests |-> NotArrived]
  /\ met = {}

RequestsTypeOK ==
  /\ now \in Nat
  /\ pc \in [Requests -> Labels]
  /\ arrival \in [Requests -> [op : Operations \cup {NoOperation}, worker : Workers \cup {Nothing},
                               time : Nat, retry : Int]]
  /\ \A r \in Requests : pc[r] # "new" => arrival[r].op \in Operations /\ arrival[r].worker \in Workers
  /\ met \subseteq SUBSET Requests
============================================================================
