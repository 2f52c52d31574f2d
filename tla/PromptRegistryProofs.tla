------------------------ MODULE PromptRegistryProofs ------------------------
(***************************************************************************)
(* Theorems about PromptRegistry for any set of requests and any number of *)
(* versions.  The one idea: what a publication does not see was inserted   *)
(* while it was in progress.                                               *)
(***************************************************************************)
EXTENDS PromptRegistry, TLAPS

(* The inductive invariant *)

\* The versions are 1..n, and a request that inserts one has a number in
\* 1..n+1.
NumbersInOrder ==
  \E n \in 0..MaxVersions :
    /\ Versions = 1..n
    /\ \A p \in Procs : pc[p] = "insert" => snap[p].number \in 1..(n + 1)

\* What a publication in progress does not see is late.
UnseenIsLate == \A p \in Publishing : Versions \ snap[p].seen \subseteq late

\* A publication that has found its target publishes a version there is.
TargetThere == \A p \in Procs : pc[p] = "publish" => snap[p].target \in Versions

IInv ==
  /\ TypeOK /\ NumbersInOrder
  /\ UnseenIsLate /\ TargetThere /\ PublishedTogether

----------------------------------------------------------------------------
(* Operators *)

\* The highest version of 1..n is n.
LEMMA LatestOfPrefix ==
  ASSUME NEW n \in Nat, Versions = 1..n
  PROVE  LatestVersion = n
<1>1. CASE n = 0
  BY <1>1 DEF LatestVersion
<1>2. CASE n # 0
  <2>1. n \in Versions /\ \A w \in Versions : w <= n
    BY <1>2
  <2>2. \A v \in Versions : (\A w \in Versions : w <= v) => v = n
    BY <2>1
  <2> QED BY <2>1, <2>2 DEF LatestVersion
<1> QED BY <1>1, <1>2

\* The shape of the table after an insertion.
LEMMA InsertedVersions ==
  ASSUME NEW number \in 1..MaxVersions, TypeOK
  PROVE  /\ DOMAIN Inserted(number) = Versions \cup {number}
         /\ Inserted(number) \in [Versions \cup {number} -> Statuses]
         /\ \A v \in Versions \ {number} : Inserted(number)[v] = status[v]
         /\ Inserted(number)[number] = IF number = 1 THEN "published" ELSE "draft"
  BY DEF Inserted, TypeOK, Statuses

\* The shape of the table after a publication.
LEMMA PublishedAfterVersions ==
  ASSUME NEW p \in Procs, TypeOK
  PROVE  /\ DOMAIN PublishedAfter(p) = Versions
         /\ PublishedAfter(p) \in [Versions -> Statuses]
         /\ \A v \in Versions :
              PublishedAfter(p)[v] =
                IF v = snap[p].target THEN "published"
                ELSE IF v \in snap[p].seen THEN "archived" ELSE status[v]
  BY DEF PublishedAfter, Unpublished, TypeOK, Statuses

\* The shape of the table after a rollback to a missing version.
LEMMA UnpublishedVersions ==
  ASSUME NEW p \in Procs, TypeOK
  PROVE  /\ DOMAIN Unpublished(p) = Versions
         /\ Unpublished(p) \in [Versions -> Statuses]
         /\ \A v \in Versions :
              Unpublished(p)[v] =
                IF v \in snap[p].seen THEN "archived" ELSE status[v]
  BY DEF Unpublished, TypeOK, Statuses

----------------------------------------------------------------------------
(* The initial states *)

LEMMA InitInvariant == Init => IInv
<1> SUFFICES ASSUME Init PROVE IInv
  OBVIOUS
<1> USE RegistryAssumption DEF Init
<1>1. Versions = {} /\ Published = {}
  BY DEF Versions, Published
<1>2. TypeOK
  BY <1>1 DEF TypeOK, Pcs, NoSnap, Versions
<1>3. NumbersInOrder
  <2>1. 0 \in 0..MaxVersions /\ 1..0 = {}
    OBVIOUS
  <2> QED BY <1>1, <2>1 DEF NumbersInOrder
<1>4. UnseenIsLate /\ TargetThere /\ PublishedTogether
  BY <1>1 DEF UnseenIsLate, TargetThere, PublishedTogether, Publishing
<1> QED BY <1>2, <1>3, <1>4 DEF IInv

----------------------------------------------------------------------------
(* The steps that leave the table alone *)

\* A request that moves on or ends without writing keeps the invariant.
LEMMA QuietStep ==
  ASSUME IInv, NEW p \in Procs, UNCHANGED <<status, late>>,
         TypeOK',
         \A q \in Procs \ {p} : pc'[q] = pc[q] /\ snap'[q] = snap[q],
         pc'[p] = "insert" =>
           snap'[p].number = LatestVersion + 1,
         p \in Publishing' => Versions \ snap'[p].seen \subseteq late,
         pc'[p] = "publish" => snap'[p].target \in Versions
  PROVE  IInv'
<1>1. Versions' = Versions /\ Published' = Published
  BY DEF Versions, Published
<1>2. NumbersInOrder'
  <2>1. PICK n \in 0..MaxVersions :
          /\ Versions = 1..n
          /\ \A q \in Procs : pc[q] = "insert" => snap[q].number \in 1..(n + 1)
    BY DEF IInv, NumbersInOrder
  <2>2. n \in Nat
    BY <2>1, RegistryAssumption
  <2>3. LatestVersion = n
    BY <2>1, <2>2, LatestOfPrefix
  <2>4. pc'[p] = "insert" => snap'[p].number \in 1..(n + 1)
    BY <2>2, <2>3
  <2>5. \A q \in Procs : pc'[q] = "insert" => snap'[q].number \in 1..(n + 1)
    BY <2>1, <2>4
  <2> QED BY <1>1, <2>1, <2>5 DEF NumbersInOrder
<1>3. UnseenIsLate'
  <2>1. \A q \in Publishing' \ {p} : q \in Publishing
    BY DEF Publishing
  <2>2. \A q \in Publishing' \ {p} : snap'[q] = snap[q]
    BY DEF Publishing
  <2> QED BY <1>1, <2>1, <2>2 DEF IInv, UnseenIsLate
<1>4. TargetThere'
  BY <1>1 DEF IInv, TargetThere
<1>5. PublishedTogether'
  BY <1>1 DEF IInv, PublishedTogether
<1> QED BY <1>2, <1>3, <1>4, <1>5 DEF IInv

\* The next number follows the highest one and fits the bound.
LEMMA NumberVersionStep ==
  ASSUME IInv, NEW p \in Procs, NumberVersion(p)
  PROVE  IInv'
<1>1. PICK n \in 0..MaxVersions : Versions = 1..n
  BY DEF IInv, NumbersInOrder
<1>2. LatestVersion = n /\ n \in Nat
  BY <1>1, LatestOfPrefix, RegistryAssumption
<1>3. LatestVersion + 1 \in 0..MaxVersions
  BY <1>2, RegistryAssumption DEF NumberVersion
<1>4. [NoSnap EXCEPT !.number = LatestVersion + 1] \in
        [number : 0..MaxVersions, target : 0..MaxVersions,
         seen : SUBSET (1..MaxVersions)]
  BY <1>3, RegistryAssumption DEF NoSnap
<1>5. TypeOK'
  BY <1>4 DEF IInv, TypeOK, NumberVersion, Goto, Pcs, Versions
<1>6. /\ pc'[p] = "insert" /\ snap'[p].number = LatestVersion + 1
      /\ \A q \in Procs \ {p} : pc'[q] = pc[q] /\ snap'[q] = snap[q]
  BY DEF IInv, TypeOK, NumberVersion, Goto, NoSnap
<1>7. p \notin Publishing'
  BY <1>6 DEF Publishing
<1> QED BY <1>5, <1>6, <1>7, QuietStep DEF NumberVersion

\* Asking for a publication.
LEMMA PublishStep ==
  ASSUME IInv, NEW p \in Procs, NEW v \in 1..MaxVersions, Publish(p, v)
  PROVE  IInv'
<1>1. [NoSnap EXCEPT !.target = v] \in
        [number : 0..MaxVersions, target : 0..MaxVersions,
         seen : SUBSET (1..MaxVersions)]
  BY RegistryAssumption DEF NoSnap
<1>2. TypeOK'
  BY <1>1 DEF IInv, TypeOK, Publish, Goto, Pcs, Versions
<1>3. /\ pc'[p] = "unpublish"
      /\ \A q \in Procs \ {p} : pc'[q] = pc[q] /\ snap'[q] = snap[q]
  BY DEF IInv, TypeOK, Publish, Goto
<1>4. p \notin Publishing'
  BY <1>3 DEF Publishing
<1> QED BY <1>2, <1>3, <1>4, QuietStep DEF Publish

\* The first UPDATE sees everything there is.
LEMMA UnpublishStep ==
  ASSUME IInv, NEW p \in Procs, Unpublish(p)
  PROVE  IInv'
<1>1. TypeOK'
  BY DEF IInv, TypeOK, Unpublish, Goto, Pcs, Versions
<1>2. /\ pc'[p] = "lock" /\ snap'[p].seen = Versions
      /\ \A q \in Procs \ {p} : pc'[q] = pc[q] /\ snap'[q] = snap[q]
  BY DEF IInv, TypeOK, Unpublish, Goto
<1> QED BY <1>1, <1>2, QuietStep DEF Unpublish

\* Waiting for the rows, and finding the target, change only the label.
LEMMA LabelStep ==
  ASSUME IInv, NEW p \in Procs, LockVersions(p) \/ SelectFound(p)
  PROVE  IInv'
<1>1. TypeOK'
  BY DEF IInv, TypeOK, LockVersions, SelectFound, Goto, Pcs, Versions
<1>2. /\ pc'[p] \in {"select", "publish"} /\ snap' = snap
      /\ pc'[p] = "publish" => snap[p].target \in Versions
      /\ \A q \in Procs \ {p} : pc'[q] = pc[q]
  BY DEF IInv, TypeOK, LockVersions, SelectFound, Goto
<1>3. p \in Publishing
  BY DEF LockVersions, SelectFound, Publishing
<1>4. Versions \ snap'[p].seen \subseteq late
  BY <1>2, <1>3 DEF IInv, UnseenIsLate
<1> QED BY <1>1, <1>2, <1>4, QuietStep DEF LockVersions, SelectFound

\* A request that ends without writing.
LEMMA EndStep ==
  ASSUME IInv, NEW p \in Procs, InsertConflict(p) \/ Abort(p)
  PROVE  IInv'
<1>1. TypeOK'
  BY RegistryAssumption
     DEF IInv, TypeOK, InsertConflict, Abort, Return, NoSnap, Pcs, Versions
<1>2. /\ pc'[p] = "idle"
      /\ \A q \in Procs \ {p} : pc'[q] = pc[q] /\ snap'[q] = snap[q]
  BY DEF IInv, TypeOK, InsertConflict, Abort, Return
<1>3. p \notin Publishing'
  BY <1>2 DEF Publishing
<1> QED BY <1>1, <1>2, <1>3, QuietStep DEF InsertConflict, Abort

----------------------------------------------------------------------------
(* The steps that write *)

\* What returning leaves of the requests' local state.
LEMMA ReturnEffect ==
  ASSUME TypeOK, NEW p \in Procs, Return(p)
  PROVE  /\ pc' \in [Procs -> Pcs] /\ pc'[p] = "idle"
         /\ snap' \in [Procs -> [number : 0..MaxVersions, target : 0..MaxVersions,
                                 seen : SUBSET (1..MaxVersions)]]
         /\ \A q \in Procs \ {p} : pc'[q] = pc[q] /\ snap'[q] = snap[q]
  BY RegistryAssumption DEF TypeOK, Return, NoSnap, Pcs

\* An insertion continues the numbers, and is late for whoever publishes.
LEMMA InsertVersionStep ==
  ASSUME IInv, NEW p \in Procs, InsertVersion(p)
  PROVE  /\ IInv'
         /\ Versions = {} => Published' # {}
         /\ Published \subseteq Published'
<1> DEFINE number == snap[p].number
<1>1. PICK n \in 0..MaxVersions :
        /\ Versions = 1..n
        /\ \A q \in Procs : pc[q] = "insert" => snap[q].number \in 1..(n + 1)
  BY DEF IInv, NumbersInOrder
<1>2. n \in Nat /\ number \in 0..MaxVersions
  BY <1>1, RegistryAssumption DEF IInv, TypeOK
<1>3. number = n + 1 /\ number \in 1..MaxVersions
  BY <1>1, <1>2, RegistryAssumption DEF InsertVersion
<1>4. Versions' = Versions \cup {number} /\ Versions' = 1..(n + 1)
  <2>1. Versions' = Versions \cup {number}
    BY <1>3, InsertedVersions DEF InsertVersion, IInv, Versions
  <2> QED BY <2>1, <1>1, <1>2, <1>3
<1>5. status' \in [Versions' -> Statuses]
  BY <1>3, <1>4, InsertedVersions DEF InsertVersion, IInv
<1>6. \A v \in Versions : status'[v] = status[v]
  <2>1. number \notin Versions /\ status' = Inserted(number)
    BY DEF InsertVersion
  <2>2. \A v \in Versions \ {number} : Inserted(number)[v] = status[v]
    BY <1>3, InsertedVersions DEF IInv
  <2> HIDE DEF number
  <2> QED BY <2>1, <2>2
<1>7. status'[number] = IF number = 1 THEN "published" ELSE "draft"
  BY <1>3, InsertedVersions DEF InsertVersion, IInv
<1>8. Published' = IF number = 1 THEN {1} ELSE Published
  <2>1. Published' = {v \in Versions \cup {number} : status'[v] = "published"}
    BY <1>4 DEF Published
  <2>2. number \notin Versions
    BY DEF InsertVersion
  <2>3. number = 1 => Versions = {}
    BY <1>1, <1>2, <1>3
  <2> QED BY <2>1, <2>2, <2>3, <1>6, <1>7 DEF Published
<1>9. /\ pc' \in [Procs -> Pcs] /\ pc'[p] = "idle"
      /\ snap' \in [Procs -> [number : 0..MaxVersions, target : 0..MaxVersions,
                              seen : SUBSET (1..MaxVersions)]]
      /\ \A q \in Procs \ {p} : pc'[q] = pc[q] /\ snap'[q] = snap[q]
  BY ReturnEffect DEF InsertVersion, IInv
<1>10. late' = late \cup (IF Publishing = {} THEN {} ELSE {number})
  BY DEF InsertVersion
<1>11. TypeOK'
  BY <1>3, <1>4, <1>5, <1>9, <1>10 DEF IInv, TypeOK
<1>12. NumbersInOrder'
  <2>1. n + 1 \in 0..MaxVersions
    BY <1>2, <1>3, RegistryAssumption
  <2>2. ASSUME NEW q \in Procs, pc'[q] = "insert"
        PROVE  snap'[q].number \in 1..(n + 1 + 1)
    <3>1. q # p
      BY <1>9, <2>2
    <3>2. pc[q] = "insert" /\ snap'[q].number = snap[q].number
      BY <1>9, <2>2, <3>1
    <3>3. snap[q].number \in 1..(n + 1)
      BY <1>1, <3>2
    <3> QED BY <1>2, <3>2, <3>3
  <2> QED BY <1>4, <2>1, <2>2 DEF NumbersInOrder
<1>13. UnseenIsLate'
  <2> SUFFICES ASSUME NEW q \in Publishing'
               PROVE  Versions' \ snap'[q].seen \subseteq late'
    BY DEF UnseenIsLate
  <2>1. q # p /\ q \in Publishing /\ snap'[q] = snap[q]
    BY <1>9 DEF Publishing
  <2>2. Versions \ snap[q].seen \subseteq late
    BY <2>1 DEF IInv, UnseenIsLate
  <2> QED BY <2>1, <2>2, <1>4, <1>10
<1>14. TargetThere'
  BY <1>4, <1>9 DEF IInv, TargetThere
<1>15. PublishedTogether'
  BY <1>8, <1>10 DEF IInv, PublishedTogether
<1>16. Published \subseteq Published'
  <2>1. number = 1 => Published = {}
    BY <1>1, <1>2, <1>3 DEF Published
  <2> QED BY <2>1, <1>8
<1>17. Versions = {} => Published' # {}
  <2>1. Versions = {} => n = 0
    BY <1>1, <1>2
  <2> QED BY <2>1, <1>3, <1>8
<1> QED BY <1>11, <1>12, <1>13, <1>14, <1>15, <1>16, <1>17 DEF IInv

\* What is common to the two steps that archive what the publication sees: the
\* versions stay, and only a target may be published besides what is late.
LEMMA ArchivingStep ==
  ASSUME IInv, NEW p \in Procs, p \in Publishing, Return(p), UNCHANGED late,
         Versions' = Versions, status' \in [Versions -> Statuses],
         NEW target,
         \A v \in Versions :
           v # target => status'[v] = IF v \in snap[p].seen THEN "archived"
                                      ELSE status[v]
  PROVE  IInv'
<1>1. /\ pc' \in [Procs -> Pcs] /\ pc'[p] = "idle"
      /\ snap' \in [Procs -> [number : 0..MaxVersions, target : 0..MaxVersions,
                              seen : SUBSET (1..MaxVersions)]]
      /\ \A q \in Procs \ {p} : pc'[q] = pc[q] /\ snap'[q] = snap[q]
  BY ReturnEffect DEF IInv
<1>2. TypeOK'
  BY <1>1 DEF IInv, TypeOK
<1>3. NumbersInOrder'
  BY <1>1 DEF IInv, NumbersInOrder
<1>4. UnseenIsLate'
  <2>1. \A q \in Publishing' : q \in Publishing /\ snap'[q] = snap[q]
    BY <1>1 DEF Publishing
  <2> QED BY <2>1 DEF IInv, UnseenIsLate
<1>5. TargetThere'
  BY <1>1 DEF IInv, TargetThere
<1>6. PublishedTogether'
  <2>1. Published' = {v \in Versions : status'[v] = "published"}
    BY DEF Published
  <2>2. Versions \ snap[p].seen \subseteq late
    BY DEF IInv, UnseenIsLate
  <2>3. \A v \in Published' : v = target \/ v \in late
    BY <2>1, <2>2
  <2> QED BY <2>3 DEF PublishedTogether
<1> QED BY <1>2, <1>3, <1>4, <1>5, <1>6 DEF IInv

\* The commit of a publication publishes its target.
LEMMA PublishCommitStep ==
  ASSUME IInv, NEW p \in Procs, PublishCommit(p)
  PROVE  IInv' /\ Published' # {}
<1>1. p \in Publishing
  BY DEF PublishCommit, Publishing
<1>2. Versions' = Versions /\ status' \in [Versions -> Statuses]
  BY PublishedAfterVersions DEF PublishCommit, IInv, Versions
<1>3. \A v \in Versions :
        status'[v] = IF v = snap[p].target THEN "published"
                     ELSE IF v \in snap[p].seen THEN "archived" ELSE status[v]
  BY PublishedAfterVersions DEF PublishCommit, IInv
<1>4. IInv'
  BY <1>1, <1>2, <1>3, ArchivingStep DEF PublishCommit
<1>5. snap[p].target \in Published'
  BY <1>2, <1>3 DEF IInv, TargetThere, PublishCommit, Published
<1> QED BY <1>4, <1>5

\* A rollback to a missing version archives what it sees.
LEMMA SelectMissingStep ==
  ASSUME IInv, NEW p \in Procs, SelectMissing(p)
  PROVE  IInv'
<1>1. p \in Publishing
  BY DEF SelectMissing, Publishing
<1>2. Versions' = Versions /\ status' \in [Versions -> Statuses]
  BY UnpublishedVersions DEF SelectMissing, IInv, Versions
<1>3. \A v \in Versions :
        status'[v] = IF v \in snap[p].seen THEN "archived" ELSE status[v]
  BY UnpublishedVersions DEF SelectMissing, IInv
<1> QED BY <1>1, <1>2, <1>3, ArchivingStep DEF SelectMissing

----------------------------------------------------------------------------
(* The theorems *)

LEMMA NextInvariant == IInv /\ [Next]_vars => IInv'
<1> SUFFICES ASSUME IInv, [Next]_vars PROVE IInv'
  OBVIOUS
<1>1. CASE UNCHANGED vars
  BY <1>1 DEF vars, IInv, TypeOK, NumbersInOrder, UnseenIsLate, TargetThere,
              PublishedTogether, Published, Publishing, Versions
<1>2. ASSUME NEW p \in Procs, NumberVersion(p) PROVE IInv'
  BY <1>2, NumberVersionStep
<1>3. ASSUME NEW p \in Procs, InsertVersion(p) PROVE IInv'
  BY <1>3, InsertVersionStep
<1>4. ASSUME NEW p \in Procs, InsertConflict(p) \/ Abort(p) PROVE IInv'
  BY <1>4, EndStep
<1>5. ASSUME NEW p \in Procs, NEW v \in 1..MaxVersions, Publish(p, v) PROVE IInv'
  BY <1>5, PublishStep
<1>6. ASSUME NEW p \in Procs, Unpublish(p) PROVE IInv'
  BY <1>6, UnpublishStep
<1>7. ASSUME NEW p \in Procs, LockVersions(p) \/ SelectFound(p) PROVE IInv'
  BY <1>7, LabelStep
<1>8. ASSUME NEW p \in Procs, SelectMissing(p) PROVE IInv'
  BY <1>8, SelectMissingStep
<1>9. ASSUME NEW p \in Procs, PublishCommit(p) PROVE IInv'
  BY <1>9, PublishCommitStep
<1> QED BY <1>1, <1>2, <1>3, <1>4, <1>5, <1>6, <1>7, <1>8, <1>9 DEF Next

\* The invariant that the theorems below rest on.
THEOREM Invariant == Spec => []IInv
<1> QED BY InitInvariant, NextInvariant, PTL DEF Spec

\* The table and the requests' local state keep their types.
THEOREM TypeCorrect == Spec => []TypeOK
<1>1. IInv => TypeOK
  BY DEF IInv
<1> QED BY <1>1, Invariant, PTL

\* MAX(version) + 1 read without a lock numbers the versions without a gap.
THEOREM Gapless == Spec => []NumbersGapless
<1>1. IInv => NumbersGapless
  BY DEF IInv, NumbersInOrder, NumbersGapless
<1> QED BY <1>1, Invariant, PTL

\* Two published versions: one was created while a publication was in progress.
THEOREM Together == Spec => []PublishedTogether
<1>1. IInv => PublishedTogether
  BY DEF IInv
<1> QED BY <1>1, Invariant, PTL

\* Only a rollback to a missing version takes the published version away.
THEOREM Kept == Spec => KeepsPublished
<1> DEFINE Keeps ==
      /\ Versions = {} /\ Versions' # {} => Published' # {}
      /\ Published # {} /\ Published' = {} =>
           \E p \in Procs : pc[p] = "select" /\ snap[p].target \notin Versions
<1>1. IInv /\ [Next]_vars => [Keeps]_vars
  <2> SUFFICES ASSUME IInv, Next PROVE Keeps
    BY DEF vars
  <2>1. ASSUME NEW p \in Procs, UNCHANGED status PROVE Keeps
    BY <2>1 DEF Versions, Published
  <2>2. ASSUME NEW p \in Procs, InsertVersion(p) PROVE Keeps
    BY <2>2, InsertVersionStep
  <2>3. ASSUME NEW p \in Procs, PublishCommit(p) PROVE Keeps
    BY <2>3, PublishCommitStep
  <2>4. ASSUME NEW p \in Procs, SelectMissing(p) PROVE Keeps
    <3>1. Versions' = Versions
      BY <2>4, UnpublishedVersions DEF SelectMissing, IInv, Versions
    <3> QED BY <2>4, <3>1 DEF SelectMissing
  <2> QED BY <2>1, <2>2, <2>3, <2>4
          DEF Next, NumberVersion, InsertConflict, Publish, Unpublish,
              LockVersions, SelectFound, Abort
<1> QED BY <1>1, Invariant, PTL DEF Spec, KeepsPublished
============================================================================
