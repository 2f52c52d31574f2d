--------------------------- MODULE BillingProofs ---------------------------
(***************************************************************************)
(* Theorems about Billing for any set of requests, contracts, amounts and  *)
(* bounds.  The one idea: what a request has read of the status is still   *)
(* true of the row up to the life cycle, since the status only moves on.   *)
(* The last part is about the numbers: what a request was not overtaken in *)
(* is still what the row and the lines have.                               *)
(***************************************************************************)
EXTENDS Billing, TLAPS

(* Types *)

\* Amounts are products of natural numbers.
LEMMA ProductIsNatural == \A a, b \in Nat : a * b \in Nat
  OBVIOUS

\* The snapshot of a request that has read nothing is well typed.
LEMMA NoSnapType == ASSUME contract \in Contracts PROVE NoSnap \in Snaps
  BY DEF NoSnap, Snaps, NoRow, Rows, Status

\* The contract engine yields natural numbers.
LEMMA EngineType ==
  ASSUME NEW c \in Contracts, NEW u \in Nat
  PROVE  /\ RawCost(u) \in Nat
         /\ Overage(c, u) \in Nat
         /\ BaseFee(c) \in Nat
         /\ Billed(c, u) \in Nat
<1>1. c \in ContractSet /\ UnitCost \in Nat
  BY BillingAssumption
<1>2. c.base \in Nat /\ c.included \in Nat /\ c.rate \in Nat
  BY <1>1 DEF ContractSet
<1>3. RawCost(u) \in Nat
  BY <1>1, ProductIsNatural DEF RawCost
<1>4. Overage(c, u) \in Nat
  <2>1. CASE u > c.included
    <3>1. u - c.included \in Nat
      BY <1>2, <2>1
    <3>2. (u - c.included) * c.rate \in Nat
      BY <3>1, <1>2, ProductIsNatural
    <3> QED BY <3>2 DEF Overage
  <2>2. CASE ~(u > c.included)
    BY <2>2 DEF Overage
  <2> QED BY <2>1, <2>2
<1>5. BaseFee(c) \in Nat
  BY <1>2 DEF BaseFee
<1>6. Billed(c, u) \in Nat
  BY <1>3, <1>4, <1>5 DEF Billed
<1> QED BY <1>3, <1>4, <1>5, <1>6

\* Flushing one row over another yields a row.
LEMMA FlushedType ==
  ASSUME NEW loaded \in Rows, NEW new \in Rows, inv \in Rows
  PROVE  Flushed(loaded, new) \in Rows
  BY DEF Flushed, Written, Rows

\* The row that a generation computes is a row.
LEMMA GeneratedType ==
  ASSUME NEW s \in Snaps
  PROVE  Generated(s) \in Rows
<1>1. s.contract \in Contracts /\ s.usage \in Nat /\ s.row \in Rows
  BY DEF Snaps
<1>2. s.row.status \in Status
  BY <1>1 DEF Rows
<1> QED BY <1>1, <1>2, EngineType DEF Generated, Rows, Status

\* A credited total is clamped at zero, as apply_credit does.
LEMMA CreditedTotalType ==
  ASSUME NEW row \in Rows, NEW credits \in Nat
  PROVE  CreditedTotal(row, credits) \in Nat
  BY DEF CreditedTotal, Rows

\* The number a credit note asks for follows those it has seen.
LEMMA NextNoteNoBounds ==
  ASSUME NEW n \in 0..NoteCeiling, DOMAIN notes = 1..n
  PROVE  /\ NextNoteNo \in 1..NoteCeiling
         /\ 1..(NextNoteNo - 1) \subseteq DOMAIN notes
<1> DEFINE range == {k \in DOMAIN notes : k < NoteCeiling}
           top == CHOOSE k \in range : \A m \in range : m <= k
<1> USE BillingAssumption
<1>1. CASE range = {}
  BY <1>1 DEF NextNoteNo
<1>2. CASE range # {}
  <2> DEFINE w == IF n < NoteCeiling THEN n ELSE NoteCeiling - 1
  <2>1. PICK r \in range : TRUE
    BY <1>2
  <2>2. w \in range /\ \A m \in range : m <= w
    BY <2>1
  <2>3. top \in range /\ \A m \in range : m <= top
    BY <2>2
  <2>4. NextNoteNo = top + 1
    BY <1>2 DEF NextNoteNo
  <2> HIDE DEF top
  <2> QED BY <2>3, <2>4
<1> QED BY <1>1, <1>2

----------------------------------------------------------------------------
(* The inductive invariant *)

Writing == {"gen_write", "credit_write", "finalize_write",
            "note_number", "note_write"}

\* What a request has read never runs ahead of the row.
SnapBehind ==
  \A p \in Procs : pc[p] \in Writing =>
    /\ snap[p].row.status \in Frozen => inv.status \in Frozen
    /\ snap[p].row.status # "none" => inv.status # "none"

\* The guards of the requests, remembered after their reads.
SnapGuards ==
  \A p \in Procs :
    /\ pc[p] \in {"credit_write", "finalize_write"} =>
         snap[p].row.status # "none"
    /\ pc[p] \in {"note_number", "note_write"} => snap[p].row.status \in Frozen
    /\ pc[p] = "note_write" =>
         /\ snap[p].no \in 1..NoteCeiling
         /\ 1..(snap[p].no - 1) \subseteq DOMAIN notes

\* Inductive: a request's copy of the row is behind the row, never ahead of it,
\* and its guards were true of that copy.
IInv == TypeOK /\ SnapBehind /\ SnapGuards /\ NotesGapless /\ CreditNoteTrail

\* What one step does to the life cycle of the row.
StatusStep ==
  \/ inv'.status = inv.status /\ DOMAIN notes' = DOMAIN notes
  \/ /\ inv.status = "none" /\ inv'.status = "draft"
     /\ DOMAIN notes' = DOMAIN notes
  \/ /\ inv.status # "finalized" /\ inv'.status = "finalized"
     /\ DOMAIN notes' = DOMAIN notes
  \/ /\ inv.status \in Frozen /\ inv'.status \in {inv.status, "corrected"}
     /\ \E n \in 1..NoteCeiling :
          DOMAIN notes = 1..(n - 1) /\ DOMAIN notes' = 1..n

\* A tenant without an invoice satisfies the invariant.
LEMMA InitIInv == Init => IInv
<1> SUFFICES ASSUME Init PROVE IInv
  OBVIOUS
<1>1. contract \in Contracts
  BY DEF Init
<1>2. NoSnap \in Snaps
  BY <1>1, NoSnapType
<1>3. DOMAIN notes = {}
  BY DEF Init
<1>4. TypeOK
  BY <1>1, <1>2, <1>3, BillingAssumption
     DEF Init, TypeOK, Rows, LineSums, NoRow, NoLines, Status, Pcs, Writes
<1>5. SnapBehind /\ SnapGuards
  BY DEF Init, SnapBehind, SnapGuards, Writing
<1>6. NotesGapless
  <2>1. 0 \in 0..NoteCeiling /\ {} = 1..0
    BY BillingAssumption
  <2> QED BY <2>1, <1>3 DEF NotesGapless
<1>7. CreditNoteTrail
  BY <1>3 DEF Init, CreditNoteTrail, NoRow
<1> QED BY <1>4, <1>5, <1>6, <1>7 DEF IInv

\* Types are preserved, action by action.
LEMMA TypeStep == TypeOK /\ NotesGapless /\ [Next]_vars => TypeOK'
<1> SUFFICES ASSUME TypeOK, NotesGapless, [Next]_vars PROVE TypeOK'
  OBVIOUS
<1> USE DEF TypeOK, logged, history
<1>a. contract \in Contracts /\ NoSnap \in Snaps
  BY NoSnapType
<1>b. \A p \in Procs : snap[p] \in Snaps /\ snap[p].row \in Rows
  BY DEF Snaps
<1>c. usage \in Nat /\ succeeded \in Nat
  BY BillingAssumption
<1>d. ASSUME NEW p \in Procs, Finish(p)
      PROVE  pc' \in [Procs -> Pcs] /\ snap' \in [Procs -> Snaps]
  BY <1>d, <1>a DEF Finish, Pcs
<1>e. ASSUME NEW p \in Procs, NEW write \in Writes, Overtakes(p, write)
      PROVE  overtaken' \in [Procs -> SUBSET Writes]
  BY <1>e DEF Overtakes
<1>1. ASSUME NEW p \in Procs, Generate(p) PROVE TypeOK'
  <2>1. ASSUME NEW finalize \in BOOLEAN, GenerateReadUsage(p, finalize)
        PROVE  TypeOK'
    <3>1. [NoSnap EXCEPT !.usage = usage, !.finalize = finalize] \in Snaps
      BY <1>a, <1>c DEF Snaps
    <3> QED BY <2>1, <3>1 DEF GenerateReadUsage, Load, Goto, Pcs
  <2>2. CASE GenerateReadInvoice(p)
    <3>1. [snap[p] EXCEPT !.row = inv, !.contract = contract,
                          !.breakdown = succeeded] \in Snaps
      BY <1>b, <1>c DEF Snaps
    <3> QED BY <2>2, <3>1 DEF GenerateReadInvoice, Load, Goto, Pcs
  <2>3. CASE GenerateRefused(p)
    BY <2>3, <1>d DEF GenerateRefused
  <2>4. CASE GenerateCommit(p)
    <3> DEFINE s == snap[p]
    <3>1. /\ s.contract \in Contracts /\ s.usage \in Nat
          /\ s.breakdown \in Nat /\ s.row \in Rows
      BY DEF Snaps
    <3>2. Generated(s) \in Rows
      BY <1>b, GeneratedType
    <3>3. NewLines(s) \in LineSums
      BY <3>1, EngineType DEF NewLines, BuiltLines, LineSums
    <3>4. inv' \in Rows
      BY <2>4, <3>1, <3>2, FlushedType DEF GenerateCommit
    <3>5. lines' \in LineSums
      BY <2>4, <3>3 DEF GenerateCommit, StoredLines
    <3>6. overtaken' \in [Procs -> SUBSET Writes]
      BY <2>4, <1>e DEF GenerateCommit, Writes
    <3>7. met' \subseteq Writes \cup {"unlisted"}
      BY <2>4 DEF GenerateCommit, Writes
    <3> QED BY <2>4, <3>4, <3>5, <3>6, <3>7, <1>d DEF GenerateCommit
  <2>5. CASE GenerateConflict(p)
    BY <2>5, <1>d DEF GenerateConflict
  <2> QED BY <1>1, <2>1, <2>2, <2>3, <2>4, <2>5 DEF Generate
<1>2. ASSUME NEW p \in Procs, Finalize(p) PROVE TypeOK'
  <2>1. CASE FinalizeRead(p)
    <3>1. [NoSnap EXCEPT !.row = inv] \in Snaps
      BY <1>a DEF Snaps
    <3> QED BY <2>1, <3>1 DEF FinalizeRead, Load, Goto, Pcs
  <2>2. CASE FinalizeCommit(p)
    <3>1. [snap[p].row EXCEPT !.status = "finalized"] \in Rows
      BY <1>b DEF Rows, Status
    <3>2. inv' \in Rows
      BY <2>2, <3>1, <1>b, FlushedType DEF FinalizeCommit
    <3> QED BY <2>2, <3>2, <1>d DEF FinalizeCommit
  <2> QED BY <1>2, <2>1, <2>2 DEF Finalize
<1>3. ASSUME NEW p \in Procs, ApplyCredit(p) PROVE TypeOK'
  <2>1. ASSUME NEW amount \in Amounts, ApplyCreditRead(p, amount)
        PROVE  TypeOK'
    <3>1. [NoSnap EXCEPT !.row = inv, !.amount = amount] \in Snaps
      BY <1>a, BillingAssumption DEF Snaps
    <3> QED BY <2>1, <3>1 DEF ApplyCreditRead, Load, Goto, Pcs
  <2>2. CASE ApplyCreditCommit(p)
    <3> DEFINE row == snap[p].row
               credits == row.credits + snap[p].amount
               new == [row EXCEPT !.credits = credits,
                                  !.total = CreditedTotal(row, credits)]
    <3>1. row \in Rows /\ snap[p].amount \in Nat
      BY DEF Snaps
    <3>2. credits \in Nat
      BY <3>1 DEF Rows
    <3>3. CreditedTotal(row, credits) \in Nat
      BY <3>1, <3>2, CreditedTotalType
    <3>4. new \in Rows
      <4> HIDE DEF credits
      <4> QED BY <3>1, <3>2, <3>3 DEF Rows
    <3>5. inv' = Flushed(row, new)
      BY <2>2 DEF ApplyCreditCommit
    <3>6. inv' \in Rows
      BY <3>1, <3>4, <3>5, FlushedType
    <3>7. lines' \in LineSums
      BY <2>2, <3>1 DEF ApplyCreditCommit, LineSums
    <3>8. overtaken' \in [Procs -> SUBSET Writes]
      BY <2>2, <1>e DEF ApplyCreditCommit, Writes
    <3>9. met' \subseteq Writes \cup {"unlisted"}
      BY <2>2 DEF ApplyCreditCommit
    <3> QED BY <2>2, <3>6, <3>7, <3>8, <3>9, <1>d DEF ApplyCreditCommit
  <2> QED BY <1>3, <2>1, <2>2 DEF ApplyCredit
<1>4. ASSUME NEW p \in Procs, IssueCreditNote(p) PROVE TypeOK'
  <2>1. ASSUME NEW amount \in Amounts, NoteRead(p, amount) PROVE TypeOK'
    <3>1. [NoSnap EXCEPT !.row.status = inv.status, !.amount = amount] \in Snaps
      BY <1>a, BillingAssumption DEF Snaps, Rows
    <3> QED BY <2>1, <3>1 DEF NoteRead, Load, Goto, Pcs
  <2>2. CASE NoteNumber(p)
    <3>1. NextNoteNo \in Nat
      BY <1>4, NextNoteNoBounds, BillingAssumption DEF NotesGapless
    <3>2. [snap[p] EXCEPT !.no = NextNoteNo] \in Snaps
      <4> HIDE DEF NextNoteNo
      <4> QED BY <3>1, <1>b DEF Snaps
    <3> QED BY <2>2, <3>2 DEF NoteNumber, Load, Goto, Pcs
  <2>3. CASE NoteCommit(p)
    <3>1. snap[p].no \in Nat
      BY DEF Snaps
    <3>2. inv' \in Rows
      BY <2>3 DEF NoteCommit, Rows, Status
    <3>3. /\ DOMAIN notes' \subseteq Nat
          /\ \A n \in DOMAIN notes' : notes'[n] \in {"credit_note", "finalized"}
      BY <2>3, <3>1 DEF NoteCommit
    <3> QED BY <2>3, <3>2, <3>3, <1>d DEF NoteCommit
  <2>4. CASE NoteConflict(p)
    BY <2>4, <1>d DEF NoteConflict
  <2> QED BY <1>4, <2>1, <2>2, <2>3, <2>4 DEF IssueCreditNote
<1>5. ASSUME NEW n \in DOMAIN notes, FinalizeNote(n) PROVE TypeOK'
  BY <1>5 DEF FinalizeNote
<1>6. ASSUME NEW success \in BOOLEAN, LogUsage(success) PROVE TypeOK'
  BY <1>6, BillingAssumption DEF LogUsage
<1>7. CASE ChangeContract
  BY <1>7 DEF ChangeContract
<1>8. CASE UNCHANGED vars
  BY <1>8 DEF vars
<1> QED BY <1>1, <1>2, <1>3, <1>4, <1>5, <1>6, <1>7, <1>8 DEF Next

\* The life cycle under one step of the system.
LEMMA StatusLemma == IInv /\ [Next]_vars => StatusStep
<1> SUFFICES ASSUME IInv, [Next]_vars PROVE StatusStep
  OBVIOUS
<1> USE DEF IInv, SnapBehind, SnapGuards, Writing, Frozen
<1>1. ASSUME NEW p \in Procs, Generate(p) PROVE StatusStep
  <2>1. ASSUME NEW finalize \in BOOLEAN, GenerateReadUsage(p, finalize)
        PROVE  StatusStep
    BY <2>1 DEF GenerateReadUsage, StatusStep
  <2>2. CASE GenerateReadInvoice(p) \/ GenerateRefused(p) \/ GenerateConflict(p)
    BY <2>2 DEF GenerateReadInvoice, GenerateRefused, GenerateConflict,
                StatusStep
  <2>3. CASE GenerateCommit(p)
    <3>1. /\ inv'.status = Written(snap[p].row.status,
                                   Generated(snap[p]).status, inv.status)
          /\ notes' = notes
          /\ pc[p] = "gen_write" /\ ~InsertConflict(p)
      BY <2>3 DEF GenerateCommit, Flushed
    <3>2. Generated(snap[p]).status =
            IF snap[p].finalize THEN "finalized"
            ELSE IF snap[p].row.status = "none" THEN "draft"
            ELSE snap[p].row.status
      BY DEF Generated
    <3> QED BY <3>1, <3>2 DEF Written, InsertConflict, StatusStep
  <2> QED BY <1>1, <2>1, <2>2, <2>3 DEF Generate
<1>2. ASSUME NEW p \in Procs, Finalize(p) PROVE StatusStep
  <2>1. CASE FinalizeRead(p)
    BY <2>1 DEF FinalizeRead, StatusStep
  <2>2. CASE FinalizeCommit(p)
    <3>1. snap[p].row \in Rows
      BY DEF TypeOK, Snaps
    <3>2. [snap[p].row EXCEPT !.status = "finalized"].status = "finalized"
      BY <3>1 DEF Rows
    <3>3. /\ inv'.status = Written(snap[p].row.status, "finalized", inv.status)
          /\ notes' = notes
      BY <2>2, <3>2 DEF FinalizeCommit, Flushed
    <3> QED BY <3>3 DEF Written, StatusStep
  <2> QED BY <1>2, <2>1, <2>2 DEF Finalize
<1>3. ASSUME NEW p \in Procs, ApplyCredit(p) PROVE StatusStep
  <2>1. ASSUME NEW amount \in Amounts, ApplyCreditRead(p, amount)
        PROVE  StatusStep
    BY <2>1 DEF ApplyCreditRead, StatusStep
  <2>2. CASE ApplyCreditCommit(p)
    <3>1. snap[p].row \in Rows
      BY DEF TypeOK, Snaps
    <3>2. inv'.status = inv.status /\ notes' = notes
      BY <2>2, <3>1 DEF ApplyCreditCommit, Flushed, Written, Rows
    <3> QED BY <3>2 DEF StatusStep
  <2> QED BY <1>3, <2>1, <2>2 DEF ApplyCredit
<1>4. ASSUME NEW p \in Procs, IssueCreditNote(p) PROVE StatusStep
  <2>1. ASSUME NEW amount \in Amounts, NoteRead(p, amount) PROVE StatusStep
    BY <2>1 DEF NoteRead, StatusStep
  <2>2. CASE NoteNumber(p) \/ NoteConflict(p)
    BY <2>2 DEF NoteNumber, NoteConflict, StatusStep
  <2>3. CASE NoteCommit(p)
    <3> DEFINE k == snap[p].no
    <3>1. /\ k \in 1..NoteCeiling /\ 1..(k - 1) \subseteq DOMAIN notes
          /\ k \notin DOMAIN notes
          /\ DOMAIN notes' = DOMAIN notes \cup {k}
      BY <2>3 DEF NoteCommit
    <3>2. PICK n \in 0..NoteCeiling : DOMAIN notes = 1..n
      BY DEF NotesGapless
    <3>3. n = k - 1
      <4> HIDE DEF k
      <4>1. k \notin 1..n
        BY <3>1, <3>2
      <4>2. k > n
        BY <3>1, <4>1, BillingAssumption
      <4>3. k = 1 \/ k - 1 \in 1..(k - 1)
        BY <3>1, BillingAssumption
      <4>4. k - 1 <= n
        BY <3>1, <3>2, <4>3, BillingAssumption
      <4> QED BY <3>1, <4>2, <4>4, BillingAssumption
    <3>4. DOMAIN notes = 1..(k - 1) /\ DOMAIN notes' = 1..k
      BY <3>1, <3>2, <3>3, BillingAssumption
    <3>5. inv.status \in Frozen /\ inv'.status \in {inv.status, "corrected"}
      BY <2>3 DEF NoteCommit, TypeOK, Rows
    <3> HIDE DEF k
    <3> QED BY <3>1, <3>4, <3>5 DEF StatusStep
  <2> QED BY <1>4, <2>1, <2>2, <2>3 DEF IssueCreditNote
<1>5. ASSUME NEW n \in DOMAIN notes, FinalizeNote(n) PROVE StatusStep
  BY <1>5 DEF FinalizeNote, StatusStep
<1>6. ASSUME NEW success \in BOOLEAN, LogUsage(success) PROVE StatusStep
  BY <1>6 DEF LogUsage, StatusStep
<1>7. CASE ChangeContract \/ UNCHANGED vars
  BY <1>7 DEF ChangeContract, vars, StatusStep
<1> QED BY <1>1, <1>2, <1>3, <1>4, <1>5, <1>6, <1>7 DEF Next

\* What a request knows of the row was read now, or earlier and kept.
LocalStep ==
  \A q \in Procs : pc'[q] \in Writing =>
    \/ pc[q] \in Writing /\ snap'[q].row = snap[q].row
    \/ snap'[q].row.status = inv.status /\ inv' = inv

\* The new guards of a request follow from its own step.
GuardStep ==
  \A q \in Procs :
    \/ pc'[q] = pc[q] /\ snap'[q] = snap[q]
    \/ pc'[q] \in {"idle", "gen_usage", "gen_write"}
    \/ /\ pc'[q] \in {"credit_write", "finalize_write"}
       /\ snap'[q].row.status # "none"
    \/ pc'[q] = "note_number" /\ snap'[q].row.status \in Frozen
    \/ /\ pc[q] = "note_number" /\ pc'[q] = "note_write"
       /\ snap'[q].row = snap[q].row /\ snap'[q].no = NextNoteNo

\* The requests' own state under one step: the labels they pass and what they
\* have read on the way.
LEMMA LocalLemma == TypeOK /\ [Next]_vars => LocalStep /\ GuardStep
<1> SUFFICES ASSUME TypeOK, [Next]_vars PROVE LocalStep /\ GuardStep
  OBVIOUS
<1> USE DEF TypeOK, LocalStep, GuardStep, Writing
<1>s. \A q \in Procs : snap[q] \in Snaps
  OBVIOUS
<1>1. ASSUME NEW p \in Procs, Finish(p) PROVE LocalStep /\ GuardStep
  BY <1>1 DEF Finish
<1>2. ASSUME NEW p \in Procs, Generate(p) PROVE LocalStep /\ GuardStep
  <2>1. ASSUME NEW finalize \in BOOLEAN, GenerateReadUsage(p, finalize)
        PROVE  LocalStep /\ GuardStep
    BY <2>1 DEF GenerateReadUsage, Load, Goto
  <2>2. CASE GenerateReadInvoice(p)
    <3>1. snap'[p].row = inv
      BY <2>2, <1>s DEF GenerateReadInvoice, Load, Snaps
    <3> QED BY <2>2, <3>1 DEF GenerateReadInvoice, Load, Goto
  <2>3. CASE GenerateRefused(p) \/ GenerateCommit(p) \/ GenerateConflict(p)
    BY <2>3, <1>1 DEF GenerateRefused, GenerateCommit, GenerateConflict
  <2> QED BY <1>2, <2>1, <2>2, <2>3 DEF Generate
<1>3. ASSUME NEW p \in Procs, Finalize(p) PROVE LocalStep /\ GuardStep
  <2>1. CASE FinalizeRead(p)
    <3>1. snap'[p].row = inv
      BY <2>1 DEF FinalizeRead, Load, NoSnap
    <3> QED BY <2>1, <3>1 DEF FinalizeRead, Load, Goto
  <2>2. CASE FinalizeCommit(p)
    BY <2>2, <1>1 DEF FinalizeCommit
  <2> QED BY <1>3, <2>1, <2>2 DEF Finalize
<1>4. ASSUME NEW p \in Procs, ApplyCredit(p) PROVE LocalStep /\ GuardStep
  <2>1. ASSUME NEW amount \in Amounts, ApplyCreditRead(p, amount)
        PROVE  LocalStep /\ GuardStep
    <3>1. snap'[p].row = inv
      BY <2>1 DEF ApplyCreditRead, Load, NoSnap
    <3> QED BY <2>1, <3>1 DEF ApplyCreditRead, Load, Goto
  <2>2. CASE ApplyCreditCommit(p)
    BY <2>2, <1>1 DEF ApplyCreditCommit
  <2> QED BY <1>4, <2>1, <2>2 DEF ApplyCredit
<1>5. ASSUME NEW p \in Procs, IssueCreditNote(p) PROVE LocalStep /\ GuardStep
  <2>1. ASSUME NEW amount \in Amounts, NoteRead(p, amount)
        PROVE  LocalStep /\ GuardStep
    <3>1. snap'[p].row.status = inv.status
      BY <2>1 DEF NoteRead, Load, NoSnap, NoRow
    <3> QED BY <2>1, <3>1 DEF NoteRead, Load, Goto, Frozen
  <2>2. CASE NoteNumber(p)
    <3>1. snap'[p].row = snap[p].row /\ snap'[p].no = NextNoteNo
      BY <2>2, <1>s DEF NoteNumber, Load, Snaps
    <3> QED BY <2>2, <3>1 DEF NoteNumber, Load, Goto
  <2>3. CASE NoteCommit(p) \/ NoteConflict(p)
    BY <2>3, <1>1 DEF NoteCommit, NoteConflict
  <2> QED BY <1>5, <2>1, <2>2, <2>3 DEF IssueCreditNote
<1>6. ASSUME NEW n \in DOMAIN notes, FinalizeNote(n)
      PROVE  LocalStep /\ GuardStep
  BY <1>6 DEF FinalizeNote
<1>7. ASSUME NEW success \in BOOLEAN, LogUsage(success)
      PROVE  LocalStep /\ GuardStep
  BY <1>7 DEF LogUsage
<1>8. CASE ChangeContract \/ UNCHANGED vars
  BY <1>8 DEF ChangeContract, vars
<1> QED BY <1>2, <1>3, <1>4, <1>5, <1>6, <1>7, <1>8 DEF Next

\* The invariant is inductive.
LEMMA StepIInv == IInv /\ [Next]_vars => IInv'
<1> SUFFICES ASSUME IInv, [Next]_vars PROVE IInv'
  OBVIOUS
<1>1. TypeOK'
  BY TypeStep DEF IInv
<1>2. StatusStep /\ LocalStep /\ GuardStep
  BY StatusLemma, LocalLemma DEF IInv
<1>3. /\ inv.status \in Frozen => inv'.status \in Frozen
      /\ inv.status # "none" => inv'.status # "none"
      /\ DOMAIN notes \subseteq DOMAIN notes'
  BY <1>2, BillingAssumption DEF StatusStep, Frozen
<1>4. NotesGapless'
  BY <1>2, BillingAssumption DEF IInv, StatusStep, NotesGapless
<1>5. CreditNoteTrail'
  <2>1. CASE /\ inv.status \in Frozen
             /\ inv'.status \in {inv.status, "corrected"}
             /\ \E n \in 1..NoteCeiling : DOMAIN notes' = 1..n
    <3>1. 1 \in DOMAIN notes'
      BY <2>1, BillingAssumption
    <3> QED BY <2>1, <3>1 DEF CreditNoteTrail, Frozen
  <2>2. CASE DOMAIN notes' = DOMAIN notes
    BY <1>2, <2>2 DEF IInv, StatusStep, CreditNoteTrail, Frozen
  <2> QED BY <1>2, <2>1, <2>2 DEF StatusStep
<1>6. SnapBehind'
  BY <1>2, <1>3 DEF IInv, SnapBehind, LocalStep
<1>7. SnapGuards'
  <2> SUFFICES ASSUME NEW q \in Procs
               PROVE  /\ pc'[q] \in {"credit_write", "finalize_write"} =>
                           snap'[q].row.status # "none"
                      /\ pc'[q] \in {"note_number", "note_write"} =>
                           snap'[q].row.status \in Frozen
                      /\ pc'[q] = "note_write" =>
                           /\ snap'[q].no \in 1..NoteCeiling
                           /\ 1..(snap'[q].no - 1) \subseteq DOMAIN notes'
    BY DEF SnapGuards
  <2>1. CASE pc'[q] = pc[q] /\ snap'[q] = snap[q]
    BY <2>1, <1>3 DEF IInv, SnapGuards
  <2>2. CASE pc[q] = "note_number" /\ pc'[q] = "note_write"
             /\ snap'[q].row = snap[q].row /\ snap'[q].no = NextNoteNo
    <3>1. /\ NextNoteNo \in 1..NoteCeiling
          /\ 1..(NextNoteNo - 1) \subseteq DOMAIN notes
      BY NextNoteNoBounds DEF IInv, NotesGapless
    <3> QED BY <2>2, <3>1, <1>3 DEF IInv, SnapGuards
  <2> QED BY <1>2, <2>1, <2>2 DEF GuardStep
<1> QED BY <1>1, <1>4, <1>5, <1>6, <1>7 DEF IInv

----------------------------------------------------------------------------
(* The theorems *)

\* The tables and the local state of the requests keep their types: totals,
\* fees and credits are never negative.
THEOREM TypeCorrect == Spec => []TypeOK
<1>1. IInv => TypeOK
  BY DEF IInv
<1> QED BY InitIInv, StepIInv, <1>1, PTL DEF Spec

\* Credit notes exist against issued invoices only, "corrected" means that
\* there is one: for any number of concurrent requests.
THEOREM CreditNotesBacked == Spec => []CreditNoteTrail
<1>1. IInv => CreditNoteTrail
  BY DEF IInv
<1> QED BY InitIInv, StepIInv, <1>1, PTL DEF Spec

\* Credit notes are numbered without a gap for any number of requests.
THEOREM NotesNumbered == Spec => []NotesGapless
<1>1. IInv => NotesGapless
  BY DEF IInv
<1> QED BY InitIInv, StepIInv, <1>1, PTL DEF Spec

\* An issued invoice never becomes a draft again.
THEOREM NotReopened == Spec => NeverReopened
<1>1. IInv /\ [Next]_vars => [inv.status \in Frozen => inv'.status \in Frozen]_vars
  BY StatusLemma DEF StatusStep, Frozen
<1> QED BY InitIInv, StepIInv, <1>1, PTL DEF Spec, NeverReopened

\* The requests implement the life cycle: initial states map to initial
\* states and every step is a step of it or a stutter.
THEOREM Implementation == Spec => ImplementsLifecycle
<1>1. Init => Lifecycle!LifecycleInit
  BY DEF Init, NoRow, Lifecycle!LifecycleInit
<1>2. IInv /\ [Next]_vars => [Lifecycle!LifecycleNext]_(Lifecycle!lifecycleVars)
  BY StatusLemma DEF StatusStep, Frozen, Lifecycle!LifecycleNext,
     Lifecycle!Draft, Lifecycle!Freeze, Lifecycle!Note, Lifecycle!Issued,
     Lifecycle!lifecycleVars
<1> QED BY InitIInv, StepIInv, <1>1, <1>2, PTL
        DEF Spec, ImplementsLifecycle, Lifecycle!LifecycleSpec
----------------------------------------------------------------------------
(* The numbers: what a step does to the row and to the copies of it *)

\* A request that has not been overtaken has the row's numbers; one that was
\* overtaken by credits only, the row's usage and fees.  It read them when the
\* invoice was not final, and compared its credit with the total.
CopyKept ==
  \A p \in Procs : pc[p] \in RowHolders =>
    /\ snap[p].row.status # "finalized"
    /\ overtaken[p] = {} => Numbers(snap[p].row) = Numbers(inv)
    /\ "generate" \notin overtaken[p] =>
         /\ snap[p].row.raw = inv.raw
         /\ snap[p].row.base = inv.base
         /\ snap[p].row.over = inv.over
    /\ pc[p] = "credit_write" =>
         0 < snap[p].amount /\ snap[p].amount <= snap[p].row.total

\* Usage that generate has seen and will not put on a line is of failed calls.
UsageReads ==
  \A p \in Procs :
    /\ pc[p] = "gen_usage" => snap[p].usage <= usage
    /\ pc[p] = "gen_write" =>
         snap[p].usage <= snap[p].breakdown + (usage - succeeded)

\* A request keeps what it holds, or has just read the row.
Kept(q) ==
  pc'[q] = pc[q] /\ snap'[q] = snap[q] /\ overtaken'[q] = overtaken[q]

JustRead(q) ==
  /\ snap'[q].row = inv /\ inv.status # "finalized"
  /\ pc'[q] = "credit_write" =>
       0 < snap'[q].amount /\ snap'[q].amount <= inv.total

\* A step that leaves the numbers alone.
QuietStep ==
  /\ NumbersStay
  /\ met' = met
  /\ \A q \in Procs : pc'[q] \in RowHolders => Kept(q) \/ JustRead(q)

\* A step of request p that ends with its commit.
CommitStep(p, write) ==
  /\ pc[p] \in RowHolders /\ pc'[p] = "idle"
  /\ \A q \in Procs \ {p} : pc'[q] = pc[q] /\ snap'[q] = snap[q]
  /\ \A q \in Procs \ {p} :
       pc[q] \in RowHolders => overtaken'[q] = overtaken[q] \cup {write}

\* The columns that a credit writes: credits, and the total if it differs from
\* the one it had read.
Credited(row, s) ==
  /\ row.raw = inv.raw /\ row.base = inv.base /\ row.over = inv.over
  /\ row.credits = s.row.credits + s.amount
  /\ row.total = Written(s.row.total,
                         CreditedTotal(s.row, s.row.credits + s.amount), inv.total)

CreditStep(p) ==
  /\ pc[p] = "credit_write"
  /\ CommitStep(p, "credit")
  /\ Credited(inv', snap[p])
  /\ lines' = [lines EXCEPT !.credit = @ + snap[p].amount]
  /\ met' = met \cup overtaken[p]

\* A generation that was not overtaken writes what it has computed.
GenerateStep(p) ==
  /\ pc[p] = "gen_write"
  /\ CommitStep(p, "generate")
  /\ lines' = StoredLines(NewLines(snap[p]))
  /\ \/ overtaken[p] # {} /\ met' = met \cup {"generate"}
     \/ /\ overtaken[p] = {}
        /\ Numbers(inv') = Numbers(Generated(snap[p]))
        /\ met' = IF NewLines(snap[p]) = NoLines THEN {"unlisted"} ELSE {}

\* Where the copy has the numbers of the row, the flush writes the new ones.
LEMMA FlushedFresh ==
  ASSUME NEW loaded \in Rows, NEW new \in Rows, Numbers(loaded) = Numbers(inv)
  PROVE  Numbers(Flushed(loaded, new)) = Numbers(new)
  BY DEF Flushed, Written, Numbers

\* The row that a credit computes differs from its copy in two columns.
LEMMA FlushedCredit ==
  ASSUME NEW s \in Snaps, 0 < s.amount,
         inv' = Flushed(s.row, [s.row EXCEPT
                  !.credits = s.row.credits + s.amount,
                  !.total = CreditedTotal(s.row, s.row.credits + s.amount)])
  PROVE  Credited(inv', s)
<1>1. s.row \in Rows /\ s.amount \in Nat /\ s.row.credits \in Nat
  BY DEF Snaps, Rows
<1> DEFINE new == [s.row EXCEPT
                     !.credits = s.row.credits + s.amount,
                     !.total = CreditedTotal(s.row, s.row.credits + s.amount)]
<1>2. /\ new.raw = s.row.raw /\ new.base = s.row.base /\ new.over = s.row.over
      /\ new.credits = s.row.credits + s.amount
      /\ new.total = CreditedTotal(s.row, s.row.credits + s.amount)
  BY <1>1 DEF Rows
<1>3. new.credits # s.row.credits
  BY <1>1, <1>2
<1> HIDE DEF new
<1>4. inv' = Flushed(s.row, new)
  BY DEF new
<1> QED BY <1>2, <1>3, <1>4 DEF Flushed, Written, Credited

\* A request that is released holds no copy any more; the others are as before.
LEMMA QuietFinish ==
  ASSUME TypeOK, NEW p \in Procs, Finish(p), NumbersStay, met' = met,
         \A q \in Procs \ {p} : overtaken'[q] = overtaken[q]
  PROVE  QuietStep
  BY DEF TypeOK, Finish, QuietStep, RowHolders, Kept

\* Every step of the system is a quiet one or one of the two commits.
LEMMA NumbersStep ==
  TypeOK /\ CopyKept /\ [Next]_vars =>
    \/ QuietStep
    \/ \E p \in Procs : CreditStep(p) \/ GenerateStep(p)
<1> DEFINE Goal == \/ QuietStep
                   \/ \E p \in Procs : CreditStep(p) \/ GenerateStep(p)
<1> SUFFICES ASSUME TypeOK, CopyKept, [Next]_vars PROVE Goal
  OBVIOUS
<1>t. /\ inv \in Rows /\ pc \in [Procs -> Pcs] /\ snap \in [Procs -> Snaps]
      /\ overtaken \in [Procs -> SUBSET Writes]
      /\ \A p \in Procs : snap[p] \in Snaps /\ snap[p].row \in Rows
      /\ Amounts \subseteq Nat \ {0}
  BY BillingAssumption DEF TypeOK, Snaps
<1>f. ASSUME NEW p \in Procs, Finish(p),
             UNCHANGED <<inv, lines, met>>,
             overtaken' = overtaken \/ overtaken' = [overtaken EXCEPT ![p] = {}]
      PROVE  Goal
  BY <1>t, <1>f, QuietFinish DEF NumbersStay
<1>c. ASSUME NEW p \in Procs, NEW write \in Writes, pc[p] \in RowHolders,
             Finish(p), Overtakes(p, write)
      PROVE  CommitStep(p, write)
  BY <1>t, <1>c DEF Finish, Overtakes, CommitStep
<1>1. ASSUME NEW p \in Procs, Generate(p) PROVE Goal
  <2>1. ASSUME NEW finalize \in BOOLEAN, GenerateReadUsage(p, finalize)
        PROVE  Goal
    BY <1>t, <2>1 DEF GenerateReadUsage, Load, Goto, history, QuietStep,
                      NumbersStay, RowHolders, Kept
  <2>2. CASE GenerateReadInvoice(p)
    <3>1. snap'[p].row = inv /\ inv.status # "finalized"
      BY <1>t, <2>2 DEF GenerateReadInvoice, GenerateAccepts, Load, Snaps
    <3> QED BY <1>t, <2>2, <3>1
            DEF GenerateReadInvoice, Load, Goto, history, QuietStep,
                NumbersStay, RowHolders, Kept, JustRead
  <2>3. CASE GenerateRefused(p) \/ GenerateConflict(p)
    BY <1>f, <2>3 DEF GenerateRefused, GenerateConflict, history
  <2>4. CASE GenerateCommit(p)
    <3>1. CommitStep(p, "generate")
      BY <1>c, <2>4 DEF GenerateCommit, RowHolders, Writes
    <3>2. CASE overtaken[p] = {}
      <4>1. Numbers(snap[p].row) = Numbers(inv)
        BY <2>4, <3>2 DEF GenerateCommit, CopyKept, RowHolders
      <4>2. Generated(snap[p]) \in Rows
        BY <1>t, GeneratedType
      <4>3. Numbers(inv') = Numbers(Generated(snap[p]))
        BY <1>t, <2>4, <4>1, <4>2, FlushedFresh DEF GenerateCommit
      <4>4. GenerateStep(p)
        BY <2>4, <3>1, <3>2, <4>3 DEF GenerateCommit, GenerateStep
      <4> QED BY <4>4
    <3>3. CASE overtaken[p] # {}
      <4>1. GenerateStep(p)
        BY <2>4, <3>1, <3>3 DEF GenerateCommit, GenerateStep
      <4> QED BY <4>1
    <3> QED BY <3>2, <3>3
  <2> QED BY <1>1, <2>1, <2>2, <2>3, <2>4 DEF Generate
<1>2. ASSUME NEW p \in Procs, Finalize(p) PROVE Goal
  <2>1. CASE FinalizeRead(p)
    BY <1>t, <2>1 DEF FinalizeRead, Load, Goto, history, QuietStep,
                      NumbersStay, RowHolders, Kept
  <2>2. CASE FinalizeCommit(p)
    <3>1. snap[p].row \in Rows
      BY <1>t
    <3>2. Numbers(inv') = Numbers(inv)
      BY <2>2, <3>1 DEF FinalizeCommit, Flushed, Written, Numbers, Rows
    <3> QED BY <2>2, <3>2, QuietFinish DEF FinalizeCommit, history, NumbersStay
  <2> QED BY <1>2, <2>1, <2>2 DEF Finalize
<1>3. ASSUME NEW p \in Procs, ApplyCredit(p) PROVE Goal
  <2>1. ASSUME NEW amount \in Amounts, ApplyCreditRead(p, amount) PROVE Goal
    <3>1. /\ snap'[p].row = inv /\ inv.status # "finalized"
          /\ snap'[p].amount = amount /\ 0 < amount /\ amount <= inv.total
      BY <1>t, <2>1 DEF ApplyCreditRead, Load, NoSnap
    <3> QED BY <1>t, <2>1, <3>1
            DEF ApplyCreditRead, Load, Goto, history, QuietStep,
                NumbersStay, RowHolders, Kept, JustRead
  <2>2. CASE ApplyCreditCommit(p)
    <3>1. CommitStep(p, "credit")
      BY <1>c, <2>2 DEF ApplyCreditCommit, RowHolders, Writes
    <3>2. 0 < snap[p].amount
      BY <2>2 DEF ApplyCreditCommit, CopyKept, RowHolders
    <3>3. Credited(inv', snap[p])
      BY <1>t, <2>2, <3>2, FlushedCredit DEF ApplyCreditCommit
    <3>4. CreditStep(p)
      BY <2>2, <3>1, <3>3 DEF ApplyCreditCommit, CreditStep
    <3> QED BY <3>4
  <2> QED BY <1>3, <2>1, <2>2 DEF ApplyCredit
<1>4. ASSUME NEW p \in Procs, IssueCreditNote(p) PROVE Goal
  <2>1. ASSUME NEW amount \in Amounts, NoteRead(p, amount) PROVE Goal
    BY <1>t, <2>1 DEF NoteRead, Load, Goto, history, QuietStep,
                      NumbersStay, RowHolders, Kept
  <2>2. CASE NoteNumber(p)
    BY <1>t, <2>2 DEF NoteNumber, Load, Goto, history, QuietStep,
                      NumbersStay, RowHolders, Kept
  <2>3. CASE NoteCommit(p)
    <3>1. Numbers(inv') = Numbers(inv)
      BY <1>t, <2>3 DEF NoteCommit, Numbers, Rows
    <3> QED BY <2>3, <3>1, QuietFinish DEF NoteCommit, history, NumbersStay
  <2>4. CASE NoteConflict(p)
    BY <1>f, <2>4 DEF NoteConflict, history
  <2> QED BY <1>4, <2>1, <2>2, <2>3, <2>4 DEF IssueCreditNote
<1>5. CASE UNCHANGED <<inv, lines, pc, snap, history>>
  BY <1>5 DEF history, QuietStep, NumbersStay, Kept
<1>6. \/ \E n \in DOMAIN notes : FinalizeNote(n)
      \/ \E success \in BOOLEAN : LogUsage(success)
      \/ ChangeContract
      \/ UNCHANGED vars
      => UNCHANGED <<inv, lines, pc, snap, history>>
  BY DEF FinalizeNote, LogUsage, ChangeContract, vars
<1> QED BY <1>1, <1>2, <1>3, <1>4, <1>5, <1>6 DEF Next
----------------------------------------------------------------------------
(* The numbers: the invariant *)

Explained(row) == ForfaitTotal(row) \/ UsageTotal(row)

\* The total follows from the other numbers, on the row and on the copies from
\* which a credit is going to be computed.
TotalHolds == "generate" \notin met => Explained(inv)

CopyTotal ==
  \A p \in Procs :
    pc[p] = "credit_write" /\ "generate" \notin met \cup overtaken[p] =>
      Explained(snap[p].row)

\* The credits that a credit is going to be added to are on lines.
CopyLines ==
  \A p \in Procs :
    /\ pc[p] = "credit_write"
    /\ (met \cup overtaken[p]) \cap {"generate", "unlisted"} = {}
    => snap[p].row.credits <= lines.credit

NumbersInv ==
  /\ CopyKept /\ UsageReads
  /\ TotalHolds /\ CopyTotal
  /\ CopyLines /\ LinesCoverHeader

\* In a month without an invoice nothing has been read and nothing billed.
LEMMA InitNumbers == Init => NumbersInv
<1> SUFFICES ASSUME Init PROVE NumbersInv
  OBVIOUS
<1>1. CopyKept /\ UsageReads /\ CopyTotal /\ CopyLines
  BY DEF Init, CopyKept, UsageReads, CopyTotal, CopyLines, RowHolders
<1>2. TotalHolds
  BY DEF Init, TotalHolds, Explained, ForfaitTotal, NoRow
<1>3. 0 * UnitCost = 0
  BY BillingAssumption
<1>4. LinesCoverHeader
  BY <1>3 DEF Init, LinesCoverHeader, RawCost, NoRow, NoLines
<1> QED BY <1>1, <1>2, <1>4 DEF NumbersInv

\* A commit has moved the numbers away from every other copy, but one that is
\* marked as overtaken.
LEMMA CopyKeptStep ==
  TypeOK /\ CopyKept /\ [Next]_vars => CopyKept'
<1> SUFFICES ASSUME TypeOK, CopyKept, [Next]_vars PROVE CopyKept'
  OBVIOUS
<1>1. CASE QuietStep
  BY <1>1 DEF QuietStep, NumbersStay, Numbers, Kept, JustRead, CopyKept
<1>2. ASSUME NEW p \in Procs, CreditStep(p) PROVE CopyKept'
  <2>1. /\ inv'.raw = inv.raw /\ inv'.base = inv.base /\ inv'.over = inv.over
    BY <1>2 DEF CreditStep, Credited
  <2>2. /\ \A q \in Procs \ {p} : /\ pc'[q] = pc[q] /\ snap'[q] = snap[q]
                                  /\ pc[q] \in RowHolders =>
                                       overtaken'[q] = overtaken[q] \cup {"credit"}
        /\ pc'[p] \notin RowHolders
    BY <1>2 DEF CreditStep, CommitStep, RowHolders
  <2> QED BY <2>1, <2>2 DEF CopyKept
<1>3. ASSUME NEW p \in Procs, GenerateStep(p) PROVE CopyKept'
  <2>1. /\ \A q \in Procs \ {p} : /\ pc'[q] = pc[q] /\ snap'[q] = snap[q]
                                  /\ pc[q] \in RowHolders =>
                                       overtaken'[q] = overtaken[q] \cup {"generate"}
        /\ pc'[p] \notin RowHolders
    BY <1>3 DEF GenerateStep, CommitStep, RowHolders
  <2> QED BY <2>1 DEF CopyKept
<1> QED BY <1>1, <1>2, <1>3, NumbersStep

\* No step spoils what the generations have read of the usage.
LEMMA UsageReadsStep == TypeOK /\ UsageReads /\ [Next]_vars => UsageReads'
<1> SUFFICES ASSUME TypeOK, UsageReads, [Next]_vars PROVE UsageReads'
  OBVIOUS
<1> USE DEF UsageReads
<1>t. /\ pc \in [Procs -> Pcs] /\ snap \in [Procs -> Snaps]
      /\ usage \in Nat /\ succeeded \in Nat
      /\ \A p \in Procs : /\ snap[p] \in Snaps
                          /\ snap[p].usage \in Nat /\ snap[p].breakdown \in Nat
  BY BillingAssumption DEF TypeOK, Snaps
<1>1. ASSUME NEW p \in Procs, Finish(p), UNCHANGED logged PROVE UsageReads'
  BY <1>t, <1>1 DEF Finish, logged
<1>2. ASSUME NEW p \in Procs, Goto(p, "gen_usage") \/ Goto(p, "gen_write")
             \/ Goto(p, "credit_write") \/ Goto(p, "finalize_write")
             \/ Goto(p, "note_number") \/ Goto(p, "note_write"),
             NEW s, Load(p, s), UNCHANGED logged,
             pc'[p] = "gen_usage" => s.usage <= usage,
             pc'[p] = "gen_write" =>
               s.usage <= s.breakdown + (usage - succeeded)
      PROVE  UsageReads'
  BY <1>t, <1>2 DEF Goto, Load, logged
<1>3. ASSUME NEW p \in Procs, Generate(p) PROVE UsageReads'
  <2>1. ASSUME NEW finalize \in BOOLEAN, GenerateReadUsage(p, finalize)
        PROVE  UsageReads'
    <3> DEFINE s == [NoSnap EXCEPT !.usage = usage, !.finalize = finalize]
    <3>1. s.usage = usage
      BY DEF NoSnap
    <3>2. pc'[p] = "gen_usage"
      BY <1>t, <2>1 DEF GenerateReadUsage, Goto
    <3>3. Goto(p, "gen_usage") /\ Load(p, s) /\ UNCHANGED logged
      BY <2>1 DEF GenerateReadUsage
    <3> HIDE DEF s
    <3> QED BY <1>t, <1>2, <3>1, <3>2, <3>3
  <2>2. CASE GenerateReadInvoice(p)
    <3> DEFINE s == [snap[p] EXCEPT !.row = inv, !.contract = contract,
                                    !.breakdown = succeeded]
    <3>1. s.usage = snap[p].usage /\ s.breakdown = succeeded
      BY <1>t DEF Snaps
    <3>2. pc'[p] = "gen_write" /\ snap[p].usage <= usage
      BY <1>t, <2>2 DEF GenerateReadInvoice, Goto
    <3>3. Goto(p, "gen_write") /\ Load(p, s) /\ UNCHANGED logged
      BY <2>2 DEF GenerateReadInvoice
    <3>4. s.usage <= s.breakdown + (usage - succeeded)
      BY <1>t, <3>1, <3>2
    <3> HIDE DEF s
    <3> QED BY <1>2, <3>2, <3>3, <3>4
  <2> QED BY <1>1, <1>3, <2>1, <2>2
          DEF Generate, GenerateRefused, GenerateCommit, GenerateConflict
<1>4. ASSUME NEW p \in Procs, Finalize(p) PROVE UsageReads'
  <2>1. CASE FinalizeRead(p)
    BY <1>t, <2>1 DEF FinalizeRead, Load, Goto, logged
  <2> QED BY <1>1, <1>4, <2>1 DEF Finalize, FinalizeCommit
<1>5. ASSUME NEW p \in Procs, ApplyCredit(p) PROVE UsageReads'
  <2>1. ASSUME NEW amount \in Amounts, ApplyCreditRead(p, amount)
        PROVE  UsageReads'
    BY <1>t, <2>1 DEF ApplyCreditRead, Load, Goto, logged
  <2> QED BY <1>1, <1>5, <2>1 DEF ApplyCredit, ApplyCreditCommit
<1>6. ASSUME NEW p \in Procs, IssueCreditNote(p) PROVE UsageReads'
  <2>1. ASSUME NEW amount \in Amounts, NoteRead(p, amount) PROVE UsageReads'
    BY <1>t, <2>1 DEF NoteRead, Load, Goto, logged
  <2>2. CASE NoteNumber(p)
    BY <1>t, <2>2 DEF NoteNumber, Load, Goto, logged
  <2> QED BY <1>1, <1>6, <2>1, <2>2 DEF IssueCreditNote, NoteCommit, NoteConflict
<1>7. ASSUME NEW success \in BOOLEAN, LogUsage(success) PROVE UsageReads'
  BY <1>t, <1>7 DEF LogUsage
<1>8. CASE UNCHANGED <<logged, pc, snap>>
  BY <1>8 DEF logged
<1>9. \/ \E n \in DOMAIN notes : FinalizeNote(n)
      \/ ChangeContract
      \/ UNCHANGED vars
      => UNCHANGED <<logged, pc, snap>>
  BY DEF FinalizeNote, ChangeContract, vars
<1> QED BY <1>3, <1>4, <1>5, <1>6, <1>7, <1>8, <1>9 DEF Next

\* What a generation bills is a fee and an overage, or the usage.
LEMMA GeneratedExplained ==
  ASSUME NEW s \in Snaps
  PROVE  Explained(Generated(s))
<1>1. s.contract \in Contracts /\ s.usage \in Nat
  BY DEF Snaps
<1>2. CASE s.contract.kind = "forfait"
  BY <1>1, <1>2, EngineType
     DEF Generated, Billed, Explained, ForfaitTotal
<1>3. CASE s.contract.kind # "forfait"
  BY <1>3 DEF Generated, Billed, BaseFee, Overage, Explained, UsageTotal
<1> QED BY <1>2, <1>3

\* What follows from the numbers alone follows from equal numbers.
LEMMA ExplainedNumbers ==
  ASSUME NEW row, NEW other, Numbers(row) = Numbers(other), Explained(other)
  PROVE  Explained(row)
  BY DEF Numbers, Explained, ForfaitTotal, UsageTotal

\* A credit taken from an explained copy leaves an explained total: one that is
\* that much less, or nothing.
LEMMA CreditExplained ==
  ASSUME inv \in Rows, NEW s \in Snaps, Explained(s.row),
         0 < s.amount, s.amount <= s.row.total,
         s.row.base = inv.base, s.row.over = inv.over,
         Credited(inv', s)
  PROVE  Explained(inv')
<1> DEFINE credits == s.row.credits + s.amount
<1>t. /\ s.row.total \in Nat /\ s.row.base \in Nat /\ s.row.over \in Nat
      /\ s.row.credits \in Nat /\ s.amount \in Nat
  BY DEF Snaps, Rows
<1>1. /\ inv'.base = s.row.base /\ inv'.over = s.row.over
      /\ inv'.credits = credits
      /\ inv'.total = Written(s.row.total, CreditedTotal(s.row, credits), inv.total)
  BY DEF Credited
<1>2. CASE ForfaitTotal(s.row)
  <2>1. CreditedTotal(s.row, credits) = s.row.total - s.amount
    BY <1>t, <1>2 DEF ForfaitTotal, CreditedTotal
  <2>2. inv'.total = s.row.total - s.amount
    BY <1>t, <1>1, <2>1 DEF Written
  <2> QED BY <1>t, <1>1, <1>2, <2>2 DEF ForfaitTotal, Explained
<1>3. CASE UsageTotal(s.row)
  <2>1. CreditedTotal(s.row, credits) = 0
    BY <1>t, <1>3 DEF UsageTotal, CreditedTotal
  <2>2. inv'.total = 0
    BY <1>t, <1>1, <2>1 DEF Written
  <2> QED BY <1>t, <1>1, <1>3, <2>2 DEF UsageTotal, Explained
<1> QED BY <1>2, <1>3 DEF Explained

\* The total, on the row and on the copies, under one step.
LEMMA TotalStep ==
  TypeOK /\ CopyKept /\ TotalHolds /\ CopyTotal /\ [Next]_vars =>
    TotalHolds' /\ CopyTotal'
<1> SUFFICES ASSUME TypeOK, CopyKept, TotalHolds, CopyTotal, [Next]_vars
             PROVE  TotalHolds' /\ CopyTotal'
  OBVIOUS
<1>t. inv \in Rows /\ \A p \in Procs : snap[p] \in Snaps
  BY DEF TypeOK
<1>1. CASE QuietStep
  <2>1. Numbers(inv') = Numbers(inv) /\ met' = met
    BY <1>1 DEF QuietStep, NumbersStay
  <2>2. TotalHolds'
    BY <2>1, ExplainedNumbers DEF TotalHolds
  <2>3. CopyTotal'
    BY <1>1, <2>1 DEF QuietStep, Kept, JustRead, CopyTotal, RowHolders, TotalHolds
  <2> QED BY <2>2, <2>3
<1>2. ASSUME NEW p \in Procs, CreditStep(p) PROVE TotalHolds' /\ CopyTotal'
  <2>1. TotalHolds'
    <3> SUFFICES ASSUME "generate" \notin met' PROVE Explained(inv')
      BY DEF TotalHolds
    <3>1. "generate" \notin met \cup overtaken[p] /\ pc[p] = "credit_write"
      BY <1>2 DEF CreditStep
    <3>2. Explained(snap[p].row)
      BY <3>1 DEF CopyTotal
    <3>3. /\ 0 < snap[p].amount /\ snap[p].amount <= snap[p].row.total
          /\ snap[p].row.base = inv.base /\ snap[p].row.over = inv.over
      BY <3>1 DEF CopyKept, RowHolders
    <3>4. Credited(inv', snap[p])
      BY <1>2 DEF CreditStep
    <3> QED BY <1>t, <3>2, <3>3, <3>4, CreditExplained
  <2>2. CopyTotal'
    <3>1. met' = met \cup overtaken[p] /\ pc'[p] = "idle"
      BY <1>2 DEF CreditStep, CommitStep
    <3>2. \A q \in Procs \ {p} :
            /\ pc'[q] = pc[q] /\ snap'[q] = snap[q]
            /\ pc[q] \in RowHolders => overtaken'[q] = overtaken[q] \cup {"credit"}
      BY <1>2 DEF CreditStep, CommitStep
    <3> QED BY <3>1, <3>2 DEF CopyTotal, RowHolders
  <2> QED BY <2>1, <2>2
<1>3. ASSUME NEW p \in Procs, GenerateStep(p) PROVE TotalHolds' /\ CopyTotal'
  <2>1. TotalHolds'
    <3>1. "generate" \in met' \/ Numbers(inv') = Numbers(Generated(snap[p]))
      BY <1>3 DEF GenerateStep
    <3>2. Explained(Generated(snap[p]))
      BY <1>t, GeneratedExplained
    <3> QED BY <3>1, <3>2, ExplainedNumbers DEF TotalHolds
  <2>2. CopyTotal'
    <3>1. /\ pc'[p] = "idle"
          /\ \A q \in Procs \ {p} :
               /\ pc'[q] = pc[q]
               /\ pc[q] \in RowHolders => "generate" \in overtaken'[q]
      BY <1>3 DEF GenerateStep, CommitStep
    <3> QED BY <3>1 DEF CopyTotal, RowHolders
  <2> QED BY <2>1, <2>2
<1> QED BY <1>1, <1>2, <1>3, NumbersStep
\* Failed calls are not taken back.
LEMMA FailedGrows ==
  TypeOK /\ [Next]_vars =>
    /\ usage - succeeded \in Nat
    /\ usage' - succeeded' \in Nat
    /\ usage - succeeded <= usage' - succeeded'
<1> SUFFICES ASSUME TypeOK, [Next]_vars
             PROVE  /\ usage - succeeded \in Nat
                    /\ usage' - succeeded' \in Nat
                    /\ usage - succeeded <= usage' - succeeded'
  OBVIOUS
<1>1. usage \in Nat /\ succeeded \in Nat /\ succeeded <= usage
  BY BillingAssumption DEF TypeOK
<1>2. UNCHANGED logged \/ \E success \in BOOLEAN : LogUsage(success)
  BY DEF Next, vars, Generate, GenerateReadUsage, GenerateReadInvoice,
         GenerateRefused, GenerateCommit, GenerateConflict, Finalize,
         FinalizeRead, FinalizeCommit, FinalizeNote, ApplyCredit,
         ApplyCreditRead, ApplyCreditCommit, IssueCreditNote, NoteRead,
         NoteNumber, NoteCommit, NoteConflict, ChangeContract
<1> QED BY <1>1, <1>2 DEF logged, LogUsage

\* Usage costs what its parts cost, and more usage costs more.
LEMMA RawCostParts ==
  ASSUME NEW u \in Nat, NEW b \in Nat, NEW f \in Nat, u <= b + f
  PROVE  RawCost(u) <= RawCost(b) + RawCost(f)
<1>1. UnitCost \in Nat
  BY BillingAssumption
<1>2. b + f - u \in Nat
  OBVIOUS
<1>3. u * UnitCost + (b + f - u) * UnitCost = b * UnitCost + f * UnitCost
  BY <1>1
<1>4. (b + f - u) * UnitCost \in Nat /\ u * UnitCost \in Nat
      /\ b * UnitCost \in Nat /\ f * UnitCost \in Nat
  BY <1>1, <1>2, ProductIsNatural
<1> QED BY <1>3, <1>4 DEF RawCost

\* Failed calls cost no less later on.
LEMMA FailedCostGrows ==
  TypeOK /\ [Next]_vars =>
    /\ RawCost(usage - succeeded) \in Nat
    /\ RawCost(usage' - succeeded') \in Nat
    /\ RawCost(usage - succeeded) <= RawCost(usage' - succeeded')
<1> SUFFICES ASSUME TypeOK, [Next]_vars
             PROVE  /\ RawCost(usage - succeeded) \in Nat
                    /\ RawCost(usage' - succeeded') \in Nat
                    /\ RawCost(usage - succeeded) <= RawCost(usage' - succeeded')
  OBVIOUS
<1> DEFINE f == usage - succeeded
           g == usage' - succeeded'
<1>1. f \in Nat /\ g \in Nat /\ f <= g
  BY FailedGrows
<1>2. UnitCost \in Nat
  BY BillingAssumption
<1> HIDE DEF f, g
<1>3. RawCost(f) <= RawCost(g) + RawCost(0)
  BY <1>1, RawCostParts
<1>4. RawCost(f) \in Nat /\ RawCost(g) \in Nat /\ RawCost(0) = 0
  BY <1>1, <1>2, ProductIsNatural DEF RawCost
<1> QED BY <1>3, <1>4 DEF f, g

\* Header and lines under a step that leaves both alone.
LEMMA LinesQuiet ==
  TypeOK /\ LinesCoverHeader /\ [Next]_vars /\ QuietStep => LinesCoverHeader'
<1> SUFFICES ASSUME TypeOK, LinesCoverHeader, [Next]_vars, QuietStep,
                    met \cap {"generate", "unlisted"} = {}
             PROVE  /\ lines'.base = inv'.base /\ lines'.over = inv'.over
                    /\ inv'.credits <= lines'.credit
                    /\ "credit" \notin met' => inv'.credits = lines'.credit
                    /\ inv'.raw <= lines'.usage + RawCost(usage' - succeeded')
  BY DEF QuietStep, LinesCoverHeader, RawCost
<1>1. /\ Numbers(inv') = Numbers(inv) /\ lines' = lines /\ met' = met
  BY DEF QuietStep, NumbersStay
<1>2. inv.raw \in Nat /\ lines.usage \in Nat
  BY DEF TypeOK, Rows, LineSums
<1>3. inv.raw <= lines.usage + RawCost(usage' - succeeded')
  <2>1. inv.raw <= lines.usage + RawCost(usage - succeeded)
    BY DEF LinesCoverHeader
  <2> QED BY <1>2, <2>1, FailedCostGrows
<1> QED BY <1>1, <1>3 DEF Numbers, LinesCoverHeader

\* Header and lines under a credit: it is on both, if no other credit was
\* written to the header in between.
LEMMA LinesCredit ==
  ASSUME TypeOK, CopyKept, CopyLines, LinesCoverHeader, [Next]_vars,
         NEW p \in Procs, CreditStep(p)
  PROVE  LinesCoverHeader'
<1> DEFINE s == snap[p]
<1>t. /\ inv \in Rows /\ lines \in LineSums /\ s \in Snaps
      /\ overtaken[p] \subseteq Writes
      /\ inv.raw \in Nat /\ inv.credits \in Nat
      /\ lines.usage \in Nat /\ lines.credit \in Nat
      /\ s.row.credits \in Nat /\ s.amount \in Nat
  BY DEF TypeOK, Snaps, Rows, LineSums
<1>1. /\ pc[p] = "credit_write" /\ met' = met \cup overtaken[p]
      /\ inv'.raw = inv.raw /\ inv'.base = inv.base /\ inv'.over = inv.over
      /\ inv'.credits = s.row.credits + s.amount
      /\ lines' = [lines EXCEPT !.credit = @ + s.amount]
  BY DEF CreditStep, Credited
<1>2. /\ lines'.base = lines.base /\ lines'.over = lines.over
      /\ lines'.usage = lines.usage /\ lines'.credit = lines.credit + s.amount
  BY <1>t, <1>1 DEF LineSums
<1> SUFFICES ASSUME met' \cap {"generate", "unlisted"} = {}
             PROVE  /\ lines'.base = inv'.base /\ lines'.over = inv'.over
                    /\ inv'.credits <= lines'.credit
                    /\ "credit" \notin met' => inv'.credits = lines'.credit
                    /\ inv'.raw <= lines'.usage + RawCost(usage' - succeeded')
  BY DEF LinesCoverHeader, RawCost
<1> HIDE DEF s
<1>3. /\ met \cap {"generate", "unlisted"} = {}
      /\ (met \cup overtaken[p]) \cap {"generate", "unlisted"} = {}
  BY <1>1
<1>4. lines.base = inv.base /\ lines.over = inv.over
  BY <1>3 DEF LinesCoverHeader
<1>5. s.row.credits <= lines.credit
  BY <1>1, <1>3 DEF CopyLines, s
<1>6. ASSUME "credit" \notin met' PROVE s.row.credits = lines.credit
  <2>1. "credit" \notin met /\ overtaken[p] = {}
    BY <1>t, <1>1, <1>3, <1>6 DEF Writes
  <2>2. Numbers(s.row) = Numbers(inv)
    BY <1>1, <2>1 DEF CopyKept, RowHolders, s
  <2> QED BY <1>3, <2>1, <2>2 DEF Numbers, LinesCoverHeader
<1>7. inv.raw <= lines.usage + RawCost(usage' - succeeded')
  <2>1. inv.raw <= lines.usage + RawCost(usage - succeeded)
    BY <1>3 DEF LinesCoverHeader
  <2> QED BY <1>t, <2>1, FailedCostGrows
<1> QED BY <1>t, <1>1, <1>2, <1>4, <1>5, <1>6, <1>7

\* Header and lines under a generation that was not overtaken: both are new.
LEMMA LinesGenerate ==
  ASSUME TypeOK, UsageReads, [Next]_vars, NEW p \in Procs, GenerateStep(p)
  PROVE  LinesCoverHeader'
<1> DEFINE s == snap[p]
<1>t. s \in Snaps /\ s.contract \in Contracts /\ s.usage \in Nat /\ s.breakdown \in Nat
  BY DEF TypeOK, Snaps
<1> SUFFICES ASSUME met' \cap {"generate", "unlisted"} = {}
             PROVE  /\ lines'.base = inv'.base /\ lines'.over = inv'.over
                    /\ inv'.credits <= lines'.credit
                    /\ "credit" \notin met' => inv'.credits = lines'.credit
                    /\ inv'.raw <= lines'.usage + RawCost(usage' - succeeded')
  BY DEF LinesCoverHeader, RawCost
<1>1. /\ Numbers(inv') = Numbers(Generated(s)) /\ NewLines(s) # NoLines
      /\ lines' = StoredLines(NewLines(s)) /\ pc[p] = "gen_write"
  BY DEF GenerateStep
<1>2. lines' = NewLines(s)
  BY <1>1 DEF StoredLines
<1>3. s.usage <= s.breakdown + (usage - succeeded)
  BY <1>1 DEF UsageReads
<1> HIDE DEF s
<1>4. /\ inv'.raw = RawCost(s.usage) /\ inv'.base = BaseFee(s.contract)
      /\ inv'.over = Overage(s.contract, s.usage) /\ inv'.credits = 0
  BY <1>1 DEF Generated, Numbers
<1>5. /\ lines'.base = BaseFee(s.contract)
      /\ lines'.over = Overage(s.contract, s.usage)
      /\ lines'.usage = RawCost(s.breakdown) /\ lines'.credit = 0
  BY <1>2 DEF NewLines, BuiltLines
<1>6. RawCost(s.usage) <= RawCost(s.breakdown) + RawCost(usage' - succeeded')
  <2> DEFINE f == usage - succeeded
  <2>1. f \in Nat
    BY FailedGrows
  <2>2. RawCost(s.usage) <= RawCost(s.breakdown) + RawCost(f)
    <3> HIDE DEF f
    <3> QED BY <1>t, <1>3, <2>1, RawCostParts DEF f
  <2>3. RawCost(s.usage) \in Nat /\ RawCost(s.breakdown) \in Nat
    BY <1>t, EngineType
  <2> QED BY <2>2, <2>3, FailedCostGrows
<1> QED BY <1>4, <1>5, <1>6

\* The credits of the copies stay on lines.
LEMMA CopyLinesStep ==
  TypeOK /\ CopyKept /\ CopyLines /\ LinesCoverHeader /\ [Next]_vars => CopyLines'
<1> SUFFICES ASSUME TypeOK, CopyKept, CopyLines, LinesCoverHeader, [Next]_vars
             PROVE  CopyLines'
  OBVIOUS
<1>t. lines \in LineSums /\ \A p \in Procs : snap[p] \in Snaps
  BY DEF TypeOK
<1>1. CASE QuietStep
  BY <1>1 DEF QuietStep, NumbersStay, Kept, JustRead, RowHolders, CopyLines,
              LinesCoverHeader
<1>2. ASSUME NEW p \in Procs, CreditStep(p) PROVE CopyLines'
  <2>1. /\ met' = met \cup overtaken[p] /\ pc'[p] = "idle"
        /\ lines' = [lines EXCEPT !.credit = @ + snap[p].amount]
    BY <1>2 DEF CreditStep, CommitStep
  <2>2. \A q \in Procs \ {p} :
          /\ pc'[q] = pc[q] /\ snap'[q] = snap[q]
          /\ pc[q] \in RowHolders => overtaken'[q] = overtaken[q] \cup {"credit"}
    BY <1>2 DEF CreditStep, CommitStep
  <2>3. /\ lines.credit \in Nat /\ snap[p].amount \in Nat
        /\ lines'.credit = lines.credit + snap[p].amount
    BY <1>t, <2>1 DEF LineSums, Snaps
  <2>4. \A q \in Procs : snap[q].row.credits \in Nat
    BY <1>t DEF Snaps, Rows
  <2> SUFFICES ASSUME NEW q \in Procs, pc'[q] = "credit_write",
                      (met' \cup overtaken'[q]) \cap {"generate", "unlisted"} = {}
               PROVE  snap'[q].row.credits <= lines'.credit
    BY DEF CopyLines
  <2>5. /\ q # p /\ pc[q] = "credit_write" /\ snap'[q] = snap[q]
        /\ (met \cup overtaken[q]) \cap {"generate", "unlisted"} = {}
    BY <2>1, <2>2 DEF RowHolders
  <2>6. snap[q].row.credits <= lines.credit
    BY <2>5 DEF CopyLines
  <2> QED BY <2>3, <2>4, <2>5, <2>6
<1>3. ASSUME NEW p \in Procs, GenerateStep(p) PROVE CopyLines'
  <2>1. /\ pc'[p] = "idle"
        /\ \A q \in Procs \ {p} :
             /\ pc'[q] = pc[q]
             /\ pc[q] \in RowHolders => "generate" \in overtaken'[q]
    BY <1>3 DEF GenerateStep, CommitStep
  <2> QED BY <2>1 DEF CopyLines, RowHolders
<1> QED BY <1>1, <1>2, <1>3, NumbersStep

\* The invariant of the numbers is inductive.
LEMMA StepNumbers == TypeOK /\ NumbersInv /\ [Next]_vars => NumbersInv'
<1> SUFFICES ASSUME TypeOK, NumbersInv, [Next]_vars PROVE NumbersInv'
  OBVIOUS
<1> USE DEF NumbersInv
<1>1. CopyKept' /\ UsageReads' /\ TotalHolds' /\ CopyTotal' /\ CopyLines'
  BY CopyKeptStep, UsageReadsStep, TotalStep, CopyLinesStep
<1>2. LinesCoverHeader'
  BY NumbersStep, LinesQuiet, LinesCredit, LinesGenerate
<1> QED BY <1>1, <1>2

----------------------------------------------------------------------------
(* The numbers: the theorems *)

\* The total is what a forfait comes to or what usage comes to, for any number
\* of concurrent requests and under any contracts, as long as no generation
\* overlaps with another write: credits may overlap with each other.
THEOREM TotalExplained == Spec => []TotalFormula
<1> DEFINE I == IInv /\ NumbersInv
<1>1. Init => I
  BY InitIInv, InitNumbers
<1>2. I /\ [Next]_vars => I'
  BY StepIInv, StepNumbers DEF IInv
<1>3. I => TotalFormula
  BY DEF NumbersInv, TotalHolds, Explained, TotalFormula
<1> QED BY <1>1, <1>2, <1>3, PTL DEF Spec

\* No credit and no fee of the header is without its line, no credit on a line
\* is missing from the header unless two of them overlapped, and what usage the
\* lines do not show is of failed calls.
THEOREM LinesCover == Spec => []LinesCoverHeader
<1> DEFINE I == IInv /\ NumbersInv
<1>1. Init => I
  BY InitIInv, InitNumbers
<1>2. I /\ [Next]_vars => I'
  BY StepIInv, StepNumbers DEF IInv
<1>3. I => LinesCoverHeader
  BY DEF NumbersInv
<1> QED BY <1>1, <1>2, <1>3, PTL DEF Spec

\* Only the commit of a request that had read the row before it was finalized
\* changes a finalized invoice: new requests are refused, whatever runs.
THEOREM FrozenToNew == Spec => FrozenToNewRequests
<1> DEFINE I == IInv /\ NumbersInv
           Late == \E p \in Procs : /\ pc[p] \in RowHolders /\ pc'[p] = "idle"
                                    /\ snap[p].row.status # "finalized"
<1>1. Init => I
  BY InitIInv, InitNumbers
<1>2. I /\ [Next]_vars => I'
  BY StepIInv, StepNumbers DEF IInv
<1>3. I /\ [Next]_vars => NumbersStay \/ Late
  <2> SUFFICES ASSUME I, [Next]_vars PROVE NumbersStay \/ Late
    OBVIOUS
  <2>1. ASSUME NEW p \in Procs, CreditStep(p) \/ GenerateStep(p) PROVE Late
    BY <2>1 DEF CreditStep, GenerateStep, CommitStep, NumbersInv, CopyKept
  <2> QED BY <2>1, NumbersStep DEF IInv, NumbersInv, QuietStep
<1>4. I /\ [Next]_vars =>
        [inv.status = "finalized" =>
           \/ NumbersStay
           \/ \E p \in Procs : /\ pc[p] \in RowHolders /\ pc'[p] = "idle"
                               /\ snap[p].row.status # "finalized"]_vars
  BY <1>3
<1> QED BY <1>1, <1>2, <1>4, PTL DEF Spec, FrozenToNewRequests
============================================================================
