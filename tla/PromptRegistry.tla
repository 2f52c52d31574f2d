--------------------------- MODULE PromptRegistry ---------------------------
(***************************************************************************)
(* The versions of one prompt of one tenant (llm_prompt_templates) under   *)
(* concurrent requests: create_prompt, update_prompt, publish, rollback.   *)
(*                                                                         *)
(* publish and rollback are one transaction of three statements: UPDATE of *)
(* every version, SELECT of the target, UPDATE of the target at the flush. *)
(* PostgreSQL runs it READ COMMITTED: a statement sees the rows that were  *)
(* committed when it began; where another transaction has changed one of   *)
(* them and not ended, it waits and then goes on with the newest contents, *)
(* but it never sees rows inserted meanwhile.  Nothing orders the waiting. *)
(***************************************************************************)
EXTENDS Integers, FiniteSets

CONSTANTS
  Procs,       \* requests in progress
  MaxVersions  \* bound: versions of the prompt

ASSUME RegistryAssumption == MaxVersions \in Nat

VARIABLES
  status,  \* version -> its status; is_published is status = "published"
  pc,
  snap,    \* number: a new version's; target, seen: of a publication
  late     \* history: versions inserted while a publication was in progress

vars == <<status, pc, snap, late>>

Statuses == {"draft", "published", "archived"}

Versions == DOMAIN status

Published == {v \in Versions : status[v] = "published"}

Pcs == {"idle", "insert", "unpublish", "lock", "select", "publish"}

NoSnap == [number |-> 0, target |-> 0, seen |-> {}]

----------------------------------------------------------------------------
Goto(p, label) == pc' = [pc EXCEPT ![p] = label]

Return(p) ==
  /\ pc' = [pc EXCEPT ![p] = "idle"]
  /\ snap' = [snap EXCEPT ![p] = NoSnap]

\* Publications whose first UPDATE has begun.
Publishing == {p \in Procs : pc[p] \in {"lock", "select", "publish"}}

\* Publications whose first UPDATE is through; it has changed what it saw.
Holding == {p \in Procs : pc[p] \in {"select", "publish"} /\ snap[p].seen # {}}

\* Fault: the next number is computed again from the number returned.
LatestVersionSkipping == IF Versions = {} THEN 0
                         ELSE (CHOOSE v \in Versions : \A w \in Versions : w <= v) + 1

\* get_latest_version_number: MAX(version), or 0.
LatestVersion == IF Versions = {} THEN 0
                 ELSE CHOOSE v \in Versions : \A w \in Versions : w <= v

\* create_prompt and update_prompt choose the next number.
NumberVersion(p) ==
  /\ pc[p] = "idle"
  /\ LatestVersion < MaxVersions
  /\ snap' = [snap EXCEPT ![p] = [NoSnap EXCEPT !.number = LatestVersion + 1]]
  /\ Goto(p, "insert")
  /\ UNCHANGED <<status, late>>

\* Fault: every version is created as a draft.
InsertedDraft(number) ==
  [v \in Versions \cup {number} |-> IF v = number THEN "draft" ELSE status[v]]

\* The first version is published as it is created, the others are drafts.
Inserted(number) ==
  [v \in Versions \cup {number} |->
     IF v # number THEN status[v]
     ELSE IF number = 1 THEN "published" ELSE "draft"]

InsertVersion(p) ==
  /\ pc[p] = "insert"
  /\ snap[p].number \notin Versions
  /\ status' = Inserted(snap[p].number)
  /\ late' = IF Publishing = {} THEN late ELSE late \cup {snap[p].number}
  /\ Return(p)

\* uq_prompt_tenant_name_version: somebody else has inserted the number.
InsertConflict(p) ==
  /\ pc[p] = "insert"
  /\ snap[p].number \in Versions
  /\ Return(p)
  /\ UNCHANGED <<status, late>>

\* publish finds its version by id; rollback takes any number.
Publish(p, v) ==
  /\ pc[p] = "idle"
  /\ snap' = [snap EXCEPT ![p] = [NoSnap EXCEPT !.target = v]]
  /\ Goto(p, "unpublish")
  /\ UNCHANGED <<status, late>>

\* The first UPDATE begins and sees the versions there are.
Unpublish(p) ==
  /\ pc[p] = "unpublish"
  /\ snap' = [snap EXCEPT ![p].seen = Versions]
  /\ Goto(p, "lock")
  /\ UNCHANGED <<status, late>>

\* Rows of version v are free for p: nobody who has changed v is in progress.
Free(p, v) == \A q \in Holding \ {p} : v \notin snap[q].seen

\* It has changed every row it sees, and keeps them until the transaction ends.
LockVersions(p) ==
  /\ pc[p] = "lock"
  /\ \A v \in snap[p].seen : Free(p, v)
  /\ Goto(p, "select")
  /\ UNCHANGED <<status, snap, late>>

SelectFound(p) ==
  /\ pc[p] = "select"
  /\ snap[p].target \in Versions
  /\ Goto(p, "publish")
  /\ UNCHANGED <<status, snap, late>>

\* Fault: a status that PromptStatus does not have.
UnpublishedOther(p) ==
  [v \in Versions |-> IF v \in snap[p].seen THEN "unpublished" ELSE status[v]]

Unpublished(p) ==
  [v \in Versions |-> IF v \in snap[p].seen THEN "archived" ELSE status[v]]

\* The target is not there: the service commits all the same, and the router
\* answers 404.
SelectMissing(p) ==
  /\ pc[p] = "select"
  /\ snap[p].target \notin Versions
  /\ status' = Unpublished(p)
  /\ Return(p)
  /\ UNCHANGED late

\* Fault: the target is published, and the others are forgotten.
PublishedAfterKeeping(p) == [status EXCEPT ![snap[p].target] = "published"]

\* What the transaction leaves behind.
PublishedAfter(p) ==
  [v \in Versions |->
     IF v = snap[p].target THEN "published" ELSE Unpublished(p)[v]]

\* The flush, which may wait for a row this request did not see, and the commit.
PublishCommit(p) ==
  /\ pc[p] = "publish"
  /\ Free(p, snap[p].target)
  /\ status' = PublishedAfter(p)
  /\ Return(p)
  /\ UNCHANGED late

\* Connection lost, or chosen as the victim of a deadlock.
Abort(p) ==
  /\ pc[p] # "idle"
  /\ Return(p)
  /\ UNCHANGED <<status, late>>

----------------------------------------------------------------------------
Init ==
  /\ status = [v \in {} |-> "draft"]
  /\ pc = [p \in Procs |-> "idle"]
  /\ snap = [p \in Procs |-> NoSnap]
  /\ late = {}

Next ==
  \E p \in Procs :
    \/ NumberVersion(p) \/ InsertVersion(p) \/ InsertConflict(p)
    \/ \E v \in 1..MaxVersions : Publish(p, v)
    \/ Unpublish(p) \/ LockVersions(p)
    \/ SelectFound(p) \/ SelectMissing(p) \/ PublishCommit(p)
    \/ Abort(p)

Spec == Init /\ [][Next]_vars

----------------------------------------------------------------------------
(* Properties *)

\* The types of the table and of the requests' local state.
TypeOK ==
  /\ Versions \subseteq 1..MaxVersions
  /\ status \in [Versions -> Statuses]
  /\ pc \in [Procs -> Pcs]
  /\ snap \in [Procs -> [number : 0..MaxVersions, target : 0..MaxVersions,
                         seen : SUBSET (1..MaxVersions)]]
  /\ late \subseteq Versions

\* Version numbers are 1, 2, 3, ... although MAX is read before the insert.
NumbersGapless == \E n \in 0..MaxVersions : Versions = 1..n

\* get_published: only a rollback to a version that does not exist can take the
\* published version away, whoever publishes and creates versions at the same
\* time, and whoever fails; and the first version created brings one.
KeepsPublished ==
  [][ /\ Versions = {} /\ Versions' # {} => Published' # {}
      /\ Published # {} /\ Published' = {} =>
           \E p \in Procs : pc[p] = "select" /\ snap[p].target \notin Versions ]_vars

\* update_published_status is an exchange, except for what was inserted under
\* its eyes: of two versions that are published together, one at least was
\* created while a publication was in progress.
PublishedTogether ==
  \A v, w \in Published : v = w \/ v \in late \/ w \in late

\* update_published_status is an atomic operation: whatever is asked for, a
\* prompt that has a published version keeps one.
StaysPublished == [][Published # {} => Published' # {}]_vars
============================================================================
