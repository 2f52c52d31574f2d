------------------------------- MODULE Tokens -------------------------------
(***************************************************************************)
(* Accounts and sessions (modules/auth): the rows of the users, the pairs  *)
(* of access and refresh token that login and refresh answer with, and the *)
(* blacklist of refresh tokens in Redis.  A token carries the role of its  *)
(* user at the time; nothing but its expiry is checked when it is used,    *)
(* since an access token is never put on the blacklist.  Passwords are     *)
(* right or wrong.                                                         *)
(***************************************************************************)
EXTENDS Requests

CONSTANTS
  AccessLife,   \* ACCESS_EXPIRE_MIN
  RefreshLife,  \* REFRESH_EXPIRE_DAYS
  LoginOf       \* login -> the super_admin who made it, at time 0

ASSUME TokensAssumption ==
  /\ AccessLife \in Nat /\ RefreshLife \in Nat
  /\ Logins # {} /\ LoginOf \in [Logins -> Users]

VARIABLES
  user,       \* llm_auth_users: user -> row
  row,        \* the row each request has loaded
  pair,       \* pairs of tokens, by the request that issued them
  blacklist,  \* jti of refresh tokens in Redis
  weak,       \* history: tokens whose blacklisting or entry Redis lost
  exchanged,  \* history: token -> requests that passed the blacklist with it
  offSince,   \* history: when a user was last switched off
  late,       \* history: requests that had read a user before it was switched off
  stale       \* history: changes made by a user no longer an active super_admin

tokenVars == <<user, row, pair, blacklist, weak, exchanged, offSince, late, stale>>

Rows == [role : Roles, status : Switches \cup {"absent"}]

NoUser == [role |-> "tenant_admin", status |-> "absent"]

NoPair == [user |-> Nothing, role |-> "tenant_admin", time |-> 0]

Issued(q) == pair[q].user # Nothing

AccessValid(q) == Issued(q) /\ now <= pair[q].time + AccessLife

RefreshValid(q) == Issued(q) /\ now <= pair[q].time + RefreshLife

ActiveAdmins == {u \in Users : user[u] = [role |-> "super_admin", status |-> "on"]}

Finish(r) == Goto(r, "done") /\ UNCHANGED <<now, arrival, met>>

Continue(r, label) == Goto(r, label) /\ UNCHANGED <<now, arrival, met>>

\* The user of a request's tokens.
Actor(r) == pair[Op(r).by].user

----------------------------------------------------------------------------
(* login: authenticate, then a pair for the row that was read *)

LoginRead(r) ==
  /\ pc[r] = "admitted" /\ Op(r).name = "login"
  /\ user[Op(r).on].status = "on"
  /\ row' = [row EXCEPT ![r] = user[Op(r).on]]
  /\ Continue(r, "marked")
  /\ UNCHANGED <<user, pair, blacklist, weak, exchanged, offSince, late, stale>>

\* No such active user, or the wrong password.
LoginRefused(r) ==
  /\ pc[r] = "admitted" /\ Op(r).name = "login"
  /\ Finish(r)
  /\ UNCHANGED tokenVars

----------------------------------------------------------------------------
(* rotate_refresh_token *)

\* Fault: a worker goes on with other requests between question and entry.
DisturbedAtWill(r) == arrival[r].worker \in Workers

\* The blacklist is asked and written without an await: a worker does both
\* for one request before it goes on with another.
Undisturbed(r) ==
  \A q \in Requests : pc[q] = "asked" => arrival[q].worker # arrival[r].worker

\* is_blacklisted says no: the token is not there, or Redis is out of reach.
RefreshAsk(r) ==
  /\ pc[r] = "admitted" /\ Op(r).name = "refresh"
  /\ Undisturbed(r)
  /\ RefreshValid(Op(r).by)
  /\ weak' = IF Op(r).by \in blacklist THEN weak \cup {Op(r).by} ELSE weak
  /\ exchanged' = [exchanged EXCEPT ![Op(r).by] = @ \cup {r}]
  /\ Continue(r, "asked")
  /\ UNCHANGED <<user, row, pair, blacklist, offSince, late, stale>>

RefreshRefused(r) ==
  /\ pc[r] = "admitted" /\ Op(r).name = "refresh"
  /\ Undisturbed(r)
  /\ ~RefreshValid(Op(r).by) \/ Op(r).by \in blacklist
  /\ Finish(r)
  /\ UNCHANGED tokenVars

\* blacklist_token, or its failure, which nobody hears of.
RefreshMark(r) ==
  /\ pc[r] = "asked" /\ Op(r).name = "refresh"
  /\ \/ blacklist' = blacklist \cup {Op(r).by} /\ UNCHANGED weak
     \/ weak' = weak \cup {Op(r).by} /\ UNCHANGED blacklist
  /\ Continue(r, "loaded")
  /\ UNCHANGED <<user, row, pair, exchanged, offSince, late, stale>>

\* Fault: the user is looked up whether active or not.
FindsUser(u) == user[u].status # "absent"

\* SELECT of the active user the token names.
FindsActiveUser(u) == user[u].status = "on"

RefreshRead(r) ==
  /\ pc[r] = "loaded" /\ Op(r).name = "refresh"
  /\ FindsActiveUser(Actor(r))
  /\ row' = [row EXCEPT ![r] = user[Actor(r)]]
  /\ Continue(r, "marked")
  /\ UNCHANGED <<user, pair, blacklist, weak, exchanged, offSince, late, stale>>

RefreshUserGone(r) ==
  /\ pc[r] = "loaded" /\ Op(r).name = "refresh"
  /\ ~FindsActiveUser(Actor(r))
  /\ Finish(r)
  /\ UNCHANGED tokenVars

\* The pair is made from the row that was read.
Subject(r) == IF Op(r).name = "login" THEN Op(r).on ELSE Actor(r)

\* The request has read the user and not yet made the pair.
IssuesFor(q, u) == pc[q] = "marked" /\ Op(q).name \in {"login", "refresh"} /\ Subject(q) = u

IssuePair(r) ==
  /\ pc[r] = "marked" /\ Op(r).name \in {"login", "refresh"}
  /\ pair' = [pair EXCEPT ![r] = [user |-> Subject(r), role |-> row[r].role, time |-> now]]
  /\ Finish(r)
  /\ UNCHANGED <<user, row, blacklist, weak, exchanged, offSince, late, stale>>

\* The entry's time to live ends within the last second in which the token is
\* still accepted, and Redis may evict or lose it before.
EntryLost(q) ==
  /\ q \in blacklist
  /\ blacklist' = blacklist \ {q}
  /\ weak' = IF RefreshValid(q) THEN weak \cup {q} ELSE weak
  /\ UNCHANGED <<user, row, pair, exchanged, offSince, late, stale>>

----------------------------------------------------------------------------
(* The dependency of every other endpoint, and the management of users *)

\* require_super_admin for users, prices and contracts; both roles may manage
\* keys and credentials, and look at, accept or reject a contract.
RoleAllows(r) ==
  Op(r).name \in UserOps \cup Upserts \cup {"set_price"}
    => pair[Op(r).by].role = "super_admin"

\* The access token is decoded and the row it is about read in one step: what
\* is between them, UPDATE of last_activity_at, is about no other column.
Allowed(r) == AccessValid(Op(r).by) /\ RoleAllows(r)

\* A request that only reads, or whose token is not accepted.
Answered(r) ==
  /\ pc[r] = "admitted" /\ Op(r).name \notin Anonymous
  /\ Op(r).name = "read" \/ ~Allowed(r)
  /\ Finish(r)
  /\ UNCHANGED tokenVars

\* Fault: nothing stops a super_admin from deactivating the own account.
AcceptsAnyTarget(r) == Op(r).name = "create" <=> user[Op(r).on].status = "absent"

\* create_user refuses a taken name, the others a user that is not there, and
\* the endpoint of deactivate the account of the caller.
AcceptsTarget(r) ==
  /\ Op(r).name = "create" <=> user[Op(r).on].status = "absent"
  /\ Op(r).name = "deactivate" => Op(r).on # Actor(r)

UserRead(r) ==
  /\ pc[r] = "admitted" /\ Op(r).name \in UserOps /\ Allowed(r)
  /\ AcceptsTarget(r)
  /\ row' = [row EXCEPT ![r] = user[Op(r).on]]
  /\ Continue(r, "loaded")
  /\ UNCHANGED <<user, pair, blacklist, weak, exchanged, offSince, late, stale>>

UserRefused(r) ==
  /\ pc[r] = "admitted" /\ Op(r).name \in UserOps /\ Allowed(r)
  /\ ~AcceptsTarget(r)
  /\ Finish(r)
  /\ UNCHANGED tokenVars

\* Fault: fields that were not given are written as well.
SetAlways(value, field) == field

\* Only the fields that are given are set.
Set(value, field) == IF field = "keep" THEN value ELSE field

\* A column is written if its value is not the one that was loaded.
Written(loaded, new, stored) == IF new = loaded THEN stored ELSE new

Changed(r) ==
  LET o == Op(r)
      u == user[o.on] IN
  [role   |-> Written(row[r].role, Set(row[r].role, o.role), u.role),
   status |-> Written(row[r].status, Set(row[r].status, o.active), u.status)]

\* The user name is taken by now: the INSERT fails.
NameTaken(r) == Op(r).name = "create" /\ user[Op(r).on].status # "absent"

UserCommit(r) ==
  /\ pc[r] = "loaded" /\ Op(r).name \in UserOps
  /\ ~NameTaken(r)
  /\ LET u   == Op(r).on
         off == user[u].status = "on" /\ Changed(r).status = "off" IN
     /\ user' = [user EXCEPT ![u] = Changed(r)]
     /\ offSince' = IF off THEN [offSince EXCEPT ![u] = now] ELSE offSince
     /\ late' = IF off THEN late \cup {q \in Requests : IssuesFor(q, u)}
                ELSE late
  /\ stale' = IF Actor(r) \in ActiveAdmins THEN stale ELSE stale \cup {r}
  /\ Finish(r)
  /\ UNCHANGED <<row, pair, blacklist, weak, exchanged>>

UserConflict(r) ==
  /\ pc[r] = "loaded" /\ NameTaken(r)
  /\ Finish(r)
  /\ UNCHANGED tokenVars

----------------------------------------------------------------------------
TokensInit ==
  /\ user = [u \in Users |-> IF \E q \in Logins : LoginOf[q] = u
                             THEN [role |-> "super_admin", status |-> "on"] ELSE NoUser]
  /\ row = [r \in Requests |-> NoUser]
  /\ pair = [q \in Issuers |->
               IF q \in Logins THEN [user |-> LoginOf[q], role |-> "super_admin", time |-> 0]
               ELSE NoPair]
  /\ blacklist = {} /\ weak = {} /\ late = {} /\ stale = {}
  /\ exchanged = [q \in Issuers |-> {}]
  /\ offSince = [u \in Users |-> 0]

TokensStep ==
  \/ \E r \in Requests :
       \/ LoginRead(r) \/ LoginRefused(r)
       \/ RefreshAsk(r) \/ RefreshRefused(r) \/ RefreshMark(r)
       \/ RefreshRead(r) \/ RefreshUserGone(r) \/ IssuePair(r)
       \/ Answered(r) \/ UserRead(r) \/ UserRefused(r) \/ UserCommit(r) \/ UserConflict(r)
  \/ \E q \in Issuers : EntryLost(q) /\ UNCHANGED requestVars

----------------------------------------------------------------------------
(* Properties *)

TokensTypeOK ==
  /\ user \in [Users -> Rows]
  /\ row \in [Requests -> Rows]
  /\ pair \in [Issuers -> [user : Users \cup {Nothing}, role : Roles, time : Nat]]
  /\ blacklist \subseteq Issuers /\ weak \subseteq Issuers
  /\ exchanged \in [Issuers -> SUBSET Requests]
  /\ offSince \in [Users -> Nat]
  /\ late \subseteq Requests /\ stale \subseteq Requests

\* A refresh token is good for one exchange (rotate_refresh_token: "single-use
\* enforcement").  Two requests pass with one token only if they were in
\* progress together, in two worker processes, or if Redis failed them (or a
\* worker died between the question and the entry, and nobody got a pair).
SingleUse ==
  \A q \in Issuers : \A r1, r2 \in exchanged[q] :
    pc[r1] # "cut" /\ pc[r2] # "cut" /\ r1 # r2 =>
      q \in weak \/ (Met(r1, r2) /\ arrival[r1].worker # arrival[r2].worker)

\* Deactivation reaches every session: the tokens of a user who is switched
\* off are of no use once the access tokens issued before have expired,
\* unless the exchange had read the user when he was switched off.
RevocationReaches ==
  \A q \in Issuers :
    Issued(q) /\ user[pair[q].user].status = "off" /\ AccessValid(q) =>
      now <= offSince[pair[q].user] + AccessLife \/ q \in late

\* An update has set what may take a super_admin away (PATCH /users/{id} has
\* none of the checks of DELETE).
Patched ==
  \E r \in Requests : /\ pc[r] = "done" /\ Op(r).name = "update"
                      /\ Op(r).role = "tenant_admin" \/ Op(r).active = "off"

\* There is always an active super_admin, unless one was taken away by an
\* update, or a change was made with the token of someone who is none.
AdminRemains == ActiveAdmins # {} \/ Patched \/ stale # {}
============================================================================
