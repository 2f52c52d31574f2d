-------------------------------- MODULE Keys --------------------------------
(***************************************************************************)
(* Virtual keys (modules/auth) and provider credentials (modules/tenants)  *)
(* of one tenant.  Each request reads the row it changes without a lock    *)
(* and commits what it derived from it.  A key is named for the request    *)
(* that created it; a credential row likewise.  Nothing but the service    *)
(* itself keeps two credentials of a provider apart: the table has no      *)
(* unique constraint.                                                      *)
(***************************************************************************)
EXTENDS Requests

VARIABLES
  key,    \* llm_virtual_keys: key -> status and the key it replaced
  found,  \* the status of the key, or the credential rows, a request has read
  cred    \* llm_tenant_credentials: provider -> rows

keyVars == <<key, found, cred>>

NoKey == [status |-> "none", from |-> Nothing]

KeyStep(r, label) == Goto(r, label) /\ UNCHANGED <<now, arrival, met>>

----------------------------------------------------------------------------
(* Virtual keys *)

\* create_virtual_key: one INSERT.
CreateKey(r) ==
  /\ pc[r] = "admitted" /\ Op(r).name = "create_key"
  /\ key' = [key EXCEPT ![r] = [status |-> "active", from |-> Nothing]]
  /\ KeyStep(r, "done")
  /\ UNCHANGED <<found, cred>>

\* get_virtual_key, in rotate and revoke: any status will do.
KeyRead(r) ==
  /\ pc[r] = "admitted" /\ Op(r).name \in {"rotate_key", "revoke_key"}
  /\ key[Op(r).on].status # "none"
  /\ found' = [found EXCEPT ![r] = {key[Op(r).on].status}]
  /\ KeyStep(r, "loaded")
  /\ UNCHANGED <<key, cred>>

KeyMissing(r) ==
  /\ pc[r] = "admitted" /\ Op(r).name \in {"rotate_key", "revoke_key"}
  /\ key[Op(r).on].status = "none"
  /\ KeyStep(r, "done")
  /\ UNCHANGED keyVars

RevokeCommit(r) ==
  /\ pc[r] = "loaded" /\ Op(r).name = "revoke_key"
  /\ key' = [key EXCEPT ![Op(r).on].status = "revoked"]
  /\ KeyStep(r, "done")
  /\ UNCHANGED <<found, cred>>

\* Fault: the new key is committed, the old one is left alone.
RotateCommitKeepingOld(r) ==
  /\ pc[r] = "loaded" /\ Op(r).name = "rotate_key"
  /\ key' = [key EXCEPT ![r] = [status |-> "active", from |-> Op(r).on]]
  /\ KeyStep(r, "done")
  /\ UNCHANGED <<found, cred>>

\* The old key is revoked and the new one added in one commit.
RotateCommit(r) ==
  /\ pc[r] = "loaded" /\ Op(r).name = "rotate_key"
  /\ key' = [key EXCEPT ![Op(r).on].status = "revoked",
                        ![r] = [status |-> "active", from |-> Op(r).on]]
  /\ KeyStep(r, "done")
  /\ UNCHANGED <<found, cred>>

----------------------------------------------------------------------------
(* Credentials *)

Rowset(r) == cred[Op(r).on]

\* scalar_one_or_none: two rows raise.
CredRead(r) ==
  /\ pc[r] = "admitted" /\ Op(r).name \in CredOps
  /\ Cardinality(Rowset(r)) <= 1
  /\ Op(r).name = "delete_credential" => Rowset(r) # {}
  /\ found' = [found EXCEPT ![r] = Rowset(r)]
  /\ KeyStep(r, "loaded")
  /\ UNCHANGED <<key, cred>>

\* Nothing to delete, or more than one row: 500, whatever is asked.
CredUnread(r) ==
  /\ pc[r] = "admitted" /\ Op(r).name \in CredOps
  /\ \/ Cardinality(Rowset(r)) > 1
     \/ Op(r).name = "delete_credential" /\ Rowset(r) = {}
  /\ KeyStep(r, "done")
  /\ UNCHANGED keyVars

\* Fault: a row is inserted whatever was found.
InsertsAlways(r) == Op(r).name = "set_credential"

Inserts(r) == Op(r).name = "set_credential" /\ found[r] = {}

SetCommit(r) ==
  /\ pc[r] = "loaded" /\ Op(r).name \in CredOps
  /\ cred' = IF Inserts(r) THEN [cred EXCEPT ![Op(r).on] = @ \cup {r}]
             ELSE IF Op(r).name = "delete_credential"
             THEN [cred EXCEPT ![Op(r).on] = @ \ found[r]]
             ELSE cred   \* the new value, or no row any more: nothing written
  /\ KeyStep(r, "done")
  /\ UNCHANGED <<key, found>>

----------------------------------------------------------------------------
KeysInit ==
  /\ key = [k \in KeyIds |-> IF k \in Keys THEN [status |-> "active", from |-> Nothing]
                             ELSE NoKey]
  /\ found = [r \in Requests |-> {}]
  /\ cred = [p \in Providers |-> {}]

KeysBegin(r) == CreateKey(r) \/ KeyRead(r) \/ KeyMissing(r) \/ CredRead(r) \/ CredUnread(r)

KeysEnd(r) == RevokeCommit(r) \/ RotateCommit(r) \/ SetCommit(r)

----------------------------------------------------------------------------
(* Properties *)

KeysTypeOK ==
  /\ key \in [KeyIds -> [status : {"none", "active", "revoked"}, from : KeyIds \cup {Nothing}]]
  /\ found \in [Requests -> SUBSET ({"active", "revoked"} \cup Requests)]
  /\ cred \in [Providers -> SUBSET Requests]

\* Rotation replaces a key: the old one stops working at once, and it has one
\* successor, unless two rotations of it were in progress together or it had
\* been revoked when it was rotated, which nothing refuses.
RotationReplaces ==
  \A a, b \in Requests :
    key[a].from # Nothing =>
      /\ key[key[a].from].status = "revoked"
      /\ key[b].from = key[a].from => a = b \/ Met(a, b) \/ "revoked" \in found[a] \cup found[b]

\* A provider has one credential row, unless two requests that found none were
\* in progress together; from then on every request for it fails.
OneCredential ==
  \A p \in Providers : \A a, b \in cred[p] : a = b \/ Met(a, b)
============================================================================
