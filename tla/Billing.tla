------------------------------ MODULE Billing ------------------------------
(***************************************************************************)
(* The invoice of one tenant for one month (M10): modules/billing.         *)
(*                                                                         *)
(* Four request handlers work on the row: generate (generate_monthly_      *)
(* invoice), finalize (the /finalize endpoint), apply_credit and           *)
(* issue_credit_note.  Each of them runs in a session of its own under     *)
(* READ COMMITTED: it SELECTs the row without locking it, computes in      *)
(* Python, and flushes an UPDATE that holds the row lock until COMMIT.  A  *)
(* request is therefore a sequence of reads followed by one atomic         *)
(* "flush and commit" step.  SQLAlchemy writes only the columns whose      *)
(* value differs from what this session loaded (Written below).            *)
(*                                                                         *)
(* Money is in units, usage in blocks of 1K tokens.  Invoices of other     *)
(* tenants and months are independent rows and are left out.               *)
(*                                                                         *)
(* Two history variables record how requests met: nothing reads them but   *)
(* the properties.                                                         *)
(***************************************************************************)
EXTENDS Integers

CONSTANTS
  Procs,        \* requests in progress: one per session
  Contracts,    \* the contracts the contract endpoints may store
  UnitCost,     \* raw model cost of one block of tokens (0: a free model)
  MaxUsage,     \* bound: blocks of tokens logged in the month
  Amounts,      \* credit amounts a caller may ask for
  MaxCredit,    \* bound: no credit is asked for once header or lines have this much
  NoteCeiling   \* year_month * 100 + NoteCeiling is the end of the note range

Kinds == {"pay_as_you_go", "forfait", "hybrid"}

ContractSet ==
  [kind : Kinds, active : BOOLEAN, base : Nat, included : Nat, rate : Nat]

ASSUME BillingAssumption ==
  /\ Contracts \subseteq ContractSet
  /\ UnitCost \in Nat
  /\ MaxUsage \in Nat
  /\ Amounts \subseteq Nat \ {0}
  /\ MaxCredit \in Nat
  /\ NoteCeiling \in Nat \ {0}

VARIABLES
  inv,       \* the committed llm_billing_monthly row of the month
  lines,     \* its committed line items, summed by line_type
  notes,     \* credit-note rows of the month: number -> status
  contract,  \* the tenant's llm_tenant_contracts row
  usage,     \* blocks of tokens in llm_token_log for the month
  succeeded, \* those of them that are of calls with status 'success'
  pc,        \* where each request stands
  snap,      \* what each request has read
  overtaken, \* history: what was written to the row since a request read it
  met        \* history: what has gone wrong since the last generation that
             \* was not overtaken and had a line to write

history == <<overtaken, met>>

logged == <<usage, succeeded>>

vars == <<inv, lines, notes, contract, logged, pc, snap, history>>

Status == {"none", "draft", "finalized", "corrected"}

\* The row does not exist yet.
NoRow == [status |-> "none", raw |-> 0, base |-> 0, over |-> 0,
          credits |-> 0, total |-> 0]

NoLines == [base |-> 0, usage |-> 0, over |-> 0, credit |-> 0]

Rows == [status : Status, raw : Nat, base : Nat, over : Nat,
         credits : Nat, total : Nat]

LineSums == [base : Nat, usage : Nat, over : Nat, credit : Nat]

Pcs == {"idle", "gen_usage", "gen_write", "credit_write",
        "finalize_write", "note_number", "note_write"}

NoSnap == [row |-> NoRow, contract |-> CHOOSE c \in Contracts : TRUE,
           usage |-> 0, breakdown |-> 0, finalize |-> FALSE,
           amount |-> 0, no |-> 0]

Writes == {"generate", "credit"}

Snaps == [row : Rows, contract : Contracts, usage : Nat, breakdown : Nat,
          finalize : BOOLEAN, amount : Nat, no : Nat]

----------------------------------------------------------------------------
(* The contract engine *)

\* _apply_contract: anything but a forfait is billed at raw cost.
RawCost(u) == u * UnitCost

Overage(c, u) ==
  IF c.kind = "forfait" /\ u > c.included THEN (u - c.included) * c.rate ELSE 0

BaseFee(c) == IF c.kind = "forfait" THEN c.base ELSE 0

Billed(c, u) ==
  IF c.kind = "forfait" THEN BaseFee(c) + Overage(c, u) ELSE RawCost(u)

\* _build_line_items: usage lines whatever the contract, of successful calls.
BuiltLines(c, u, breakdown) ==
  [base |-> BaseFee(c), usage |-> RawCost(breakdown),
   over |-> Overage(c, u), credit |-> 0]

\* Fault: recalculation keeps the credit lines of the draft.
StoredLinesKeepingCredits(new) == [new EXCEPT !.credit = lines.credit]

\* create_line_items: an empty list returns before the DELETE.
StoredLines(new) == IF new = NoLines THEN lines ELSE new

----------------------------------------------------------------------------
(* The session *)

\* A column goes into the UPDATE only if its value is not the loaded one.
Written(loaded, new, stored) == IF new = loaded THEN stored ELSE new

\* Fault: the UPDATE writes every column of the object.
FlushedAllColumns(loaded, new) == new

Flushed(loaded, new) ==
  [status  |-> Written(loaded.status,  new.status,  inv.status),
   raw     |-> Written(loaded.raw,     new.raw,     inv.raw),
   base    |-> Written(loaded.base,    new.base,    inv.base),
   over    |-> Written(loaded.over,    new.over,    inv.over),
   credits |-> Written(loaded.credits, new.credits, inv.credits),
   total   |-> Written(loaded.total,   new.total,   inv.total)]

Goto(p, label) == pc' = [pc EXCEPT ![p] = label]

Finish(p) ==
  /\ pc' = [pc EXCEPT ![p] = "idle"]
  /\ snap' = [snap EXCEPT ![p] = NoSnap]

Load(p, s) == snap' = [snap EXCEPT ![p] = s]

\* The requests that are going to write numbers they have computed from a copy.
RowHolders == {"gen_write", "credit_write"}

\* History: request p has written the row, over the copies of the others.
Overtakes(p, write) ==
  overtaken' = [q \in Procs |-> IF q # p /\ pc[q] \in RowHolders
                                THEN overtaken[q] \cup {write} ELSE {}]

----------------------------------------------------------------------------
(* generate_monthly_invoice *)

\* Step 1 of the pipeline: a month without calls is refused.
GenerateReadUsage(p, finalize) ==
  /\ pc[p] = "idle"
  /\ usage > 0
  /\ Load(p, [NoSnap EXCEPT !.usage = usage, !.finalize = finalize])
  /\ Goto(p, "gen_usage")
  /\ UNCHANGED <<inv, lines, notes, contract, logged, history>>

\* Fault: the status of the row is not looked at.
GenerateAcceptsAnyStatus == contract.active

\* The contract must be active; get_or_create_draft raises on "finalized"
\* only, so a "corrected" row is handed back for recalculation.
GenerateAccepts == contract.active /\ inv.status # "finalized"

\* The header's usage counts every call of the month, the lines' breakdown,
\* a later SELECT, the successful ones.
GenerateReadInvoice(p) ==
  /\ pc[p] = "gen_usage"
  /\ GenerateAccepts
  /\ Load(p, [snap[p] EXCEPT !.row = inv, !.contract = contract,
                             !.breakdown = succeeded])
  /\ Goto(p, "gen_write")
  /\ UNCHANGED <<inv, lines, notes, contract, logged, history>>

GenerateRefused(p) ==
  /\ pc[p] = "gen_usage"
  /\ ~GenerateAccepts
  /\ Finish(p)
  /\ UNCHANGED <<inv, lines, notes, contract, logged, history>>

\* update_billing, create_line_items, optionally finalize, commit.
Generated(s) ==
  [status  |-> IF s.finalize THEN "finalized"
               ELSE IF s.row.status = "none" THEN "draft" ELSE s.row.status,
   raw     |-> RawCost(s.usage),
   base    |-> BaseFee(s.contract),
   over    |-> Overage(s.contract, s.usage),
   credits |-> 0,
   total   |-> Billed(s.contract, s.usage)]

\* Another session inserted the row first: uq_billing_tenant_month.
InsertConflict(p) == snap[p].row.status = "none" /\ inv.status # "none"

NewLines(s) == BuiltLines(s.contract, s.usage, s.breakdown)

GenerateCommit(p) ==
  /\ pc[p] = "gen_write"
  /\ ~InsertConflict(p)
  /\ inv' = Flushed(snap[p].row, Generated(snap[p]))
  /\ lines' = StoredLines(NewLines(snap[p]))
  /\ Finish(p)
  /\ Overtakes(p, "generate")
  /\ met' = IF overtaken[p] # {} THEN met \cup {"generate"}
            ELSE IF NewLines(snap[p]) = NoLines THEN {"unlisted"} ELSE {}
  /\ UNCHANGED <<notes, contract, logged>>

GenerateConflict(p) ==
  /\ pc[p] = "gen_write"
  /\ InsertConflict(p)
  /\ Finish(p)
  /\ overtaken' = [overtaken EXCEPT ![p] = {}]
  /\ UNCHANGED <<inv, lines, notes, contract, logged, met>>

----------------------------------------------------------------------------
(* finalize_invoice: the endpoint *)

FinalizeRead(p) ==
  /\ pc[p] = "idle"
  /\ inv.status \notin {"none", "finalized"}
  /\ Load(p, [NoSnap EXCEPT !.row = inv])
  /\ Goto(p, "finalize_write")
  /\ UNCHANGED <<inv, lines, notes, contract, logged, history>>

FinalizeCommit(p) ==
  /\ pc[p] = "finalize_write"
  /\ inv' = Flushed(snap[p].row, [snap[p].row EXCEPT !.status = "finalized"])
  /\ Finish(p)
  /\ UNCHANGED <<lines, notes, contract, logged, history>>

\* The same endpoint called with the year_month of a credit note.
FinalizeNote(n) ==
  /\ notes[n] = "credit_note"
  /\ notes' = [notes EXCEPT ![n] = "finalized"]
  /\ UNCHANGED <<inv, lines, contract, logged, pc, snap, history>>

----------------------------------------------------------------------------
(* apply_credit *)

ApplyCreditRead(p, amount) ==
  /\ pc[p] = "idle"
  /\ inv.credits < MaxCredit /\ lines.credit < MaxCredit
  /\ inv.status \notin {"none", "finalized"}
  /\ amount <= inv.total
  /\ Load(p, [NoSnap EXCEPT !.row = inv, !.amount = amount])
  /\ Goto(p, "credit_write")
  /\ UNCHANGED <<inv, lines, notes, contract, logged, history>>

\* Fault: credits are taken off the total that already excludes them.
CreditedTotalTwice(row, credits) == row.total - credits

\* Fault: the overage is forgotten when a credit rebuilds the total.
CreditedTotalOfFee(row, credits) ==
  IF row.base >= credits THEN row.base - credits ELSE 0

\* base_fee + overage - credits, never below zero.
CreditedTotal(row, credits) ==
  IF row.base + row.over >= credits THEN row.base + row.over - credits ELSE 0

ApplyCreditCommit(p) ==
  /\ pc[p] = "credit_write"
  /\ LET row     == snap[p].row
         credits == row.credits + snap[p].amount
     IN inv' = Flushed(row, [row EXCEPT !.credits = credits,
                                        !.total = CreditedTotal(row, credits)])
  /\ lines' = [lines EXCEPT !.credit = @ + snap[p].amount]
  /\ Finish(p)
  /\ Overtakes(p, "credit")
  /\ met' = met \cup overtaken[p]
  /\ UNCHANGED <<notes, contract, logged>>

----------------------------------------------------------------------------
(* issue_credit_note *)

\* Fault: a draft may be corrected by a credit note.
NoteReadAnyStatus(p, amount) ==
  /\ pc[p] = "idle"
  /\ inv.status # "none"
  /\ amount <= inv.total
  /\ Load(p, [NoSnap EXCEPT !.row.status = inv.status, !.amount = amount])
  /\ Goto(p, "note_number")
  /\ UNCHANGED <<inv, lines, notes, contract, logged, history>>

\* Of the row it has read only the status is looked at again.
NoteRead(p, amount) ==
  /\ pc[p] = "idle"
  /\ inv.status \in {"finalized", "corrected"}
  /\ amount <= inv.total
  /\ Load(p, [NoSnap EXCEPT !.row.status = inv.status, !.amount = amount])
  /\ Goto(p, "note_number")
  /\ UNCHANGED <<inv, lines, notes, contract, logged, history>>

\* Fault: the sequence starts at the base of the range.
NextNoteNoFromZero ==
  LET range == {n \in DOMAIN notes : n < NoteCeiling}
  IN IF range = {} THEN 0
     ELSE (CHOOSE n \in range : \A m \in range : m <= n) + 1

\* SELECT MAX(year_month) over [ym*100, ym*100 + NoteCeiling), plus one.
NextNoteNo ==
  LET range == {n \in DOMAIN notes : n < NoteCeiling}
  IN IF range = {} THEN 1
     ELSE (CHOOSE n \in range : \A m \in range : m <= n) + 1

NoteNumber(p) ==
  /\ pc[p] = "note_number"
  /\ Load(p, [snap[p] EXCEPT !.no = NextNoteNo])
  /\ Goto(p, "note_write")
  /\ UNCHANGED <<inv, lines, notes, contract, logged, history>>

\* Fault: the original is set back to a draft while it is corrected.
NoteCommitReopening(p) ==
  /\ pc[p] = "note_write"
  /\ snap[p].no \notin DOMAIN notes
  /\ notes' = [n \in DOMAIN notes \cup {snap[p].no} |->
                 IF n = snap[p].no THEN "credit_note" ELSE notes[n]]
  /\ inv' = [inv EXCEPT !.status = "draft"]
  /\ Finish(p)
  /\ UNCHANGED <<lines, contract, logged, history>>

\* The note row and the "corrected" mark are one commit.
NoteCommit(p) ==
  /\ pc[p] = "note_write"
  /\ snap[p].no \notin DOMAIN notes
  /\ notes' = [n \in DOMAIN notes \cup {snap[p].no} |->
                 IF n = snap[p].no THEN "credit_note" ELSE notes[n]]
  /\ inv' = IF snap[p].row.status = "finalized"
            THEN [inv EXCEPT !.status = "corrected"] ELSE inv
  /\ Finish(p)
  /\ UNCHANGED <<lines, contract, logged, history>>

\* The number is taken: the INSERT violates the unique constraint.
NoteConflict(p) ==
  /\ pc[p] = "note_write"
  /\ snap[p].no \in DOMAIN notes
  /\ Finish(p)
  /\ UNCHANGED <<inv, lines, notes, contract, logged, history>>

----------------------------------------------------------------------------
(* What the rest of the system does meanwhile *)

\* The gateway logs a call of the month, of status 'success' or another one:
\* either is priced.
LogUsage(success) ==
  /\ usage < MaxUsage
  /\ usage' = usage + 1
  /\ succeeded' = IF success THEN succeeded + 1 ELSE succeeded
  /\ UNCHANGED <<inv, lines, notes, contract, pc, snap, history>>

\* update_contract, accept_contract, reject_contract.
ChangeContract ==
  /\ contract' \in Contracts \ {contract}
  /\ UNCHANGED <<inv, lines, notes, logged, pc, snap, history>>

----------------------------------------------------------------------------
Init ==
  /\ inv = NoRow
  /\ lines = NoLines
  /\ notes = [n \in {} |-> "credit_note"]
  /\ contract \in Contracts
  /\ usage = 0
  /\ succeeded = 0
  /\ pc = [p \in Procs |-> "idle"]
  /\ snap = [p \in Procs |-> NoSnap]
  /\ overtaken = [p \in Procs |-> {}]
  /\ met = {}

Generate(p) ==
  \/ \E finalize \in BOOLEAN : GenerateReadUsage(p, finalize)
  \/ GenerateReadInvoice(p)
  \/ GenerateRefused(p)
  \/ GenerateCommit(p)
  \/ GenerateConflict(p)

Finalize(p) == FinalizeRead(p) \/ FinalizeCommit(p)

ApplyCredit(p) ==
  (\E amount \in Amounts : ApplyCreditRead(p, amount)) \/ ApplyCreditCommit(p)

IssueCreditNote(p) ==
  \/ \E amount \in Amounts : NoteRead(p, amount)
  \/ NoteNumber(p)
  \/ NoteCommit(p)
  \/ NoteConflict(p)

Next ==
  \/ \E p \in Procs : \/ Generate(p) \/ Finalize(p)
                      \/ ApplyCredit(p) \/ IssueCreditNote(p)
  \/ \E n \in DOMAIN notes : FinalizeNote(n)
  \/ \E success \in BOOLEAN : LogUsage(success)
  \/ ChangeContract

Spec == Init /\ [][Next]_vars

----------------------------------------------------------------------------
(* Properties *)

\* The types of the tables and of the requests' local state.
TypeOK ==
  /\ inv \in Rows
  /\ lines \in LineSums
  /\ DOMAIN notes \subseteq Nat
  /\ \A n \in DOMAIN notes : notes[n] \in {"credit_note", "finalized"}
  /\ contract \in Contracts
  /\ usage \in 0..MaxUsage
  /\ succeeded \in 0..usage
  /\ pc \in [Procs -> Pcs]
  /\ snap \in [Procs -> Snaps]
  /\ overtaken \in [Procs -> SUBSET Writes]
  /\ met \subseteq Writes \cup {"unlisted"}

Frozen == {"finalized", "corrected"}

Numbers(row) == <<row.raw, row.base, row.over, row.credits, row.total>>

\* A credit note exists only against an invoice that was finalized, and an
\* invoice is marked corrected only together with a credit note, whatever
\* requests run in between (issue_credit_note is one commit).
CreditNoteTrail ==
  /\ DOMAIN notes # {} => inv.status \in Frozen
  /\ inv.status = "corrected" => DOMAIN notes # {}

\* Credit notes are numbered 1, 2, 3, ... without a gap or a reuse, although
\* MAX(year_month) is read before the row is inserted (_next_credit_note_ym).
NotesGapless == \E n \in 0..NoteCeiling : DOMAIN notes = 1..n

\* Once an invoice has been sent, no request, however stale what it read,
\* makes it a draft again (or removes it).
NeverReopened == [][inv.status \in Frozen => inv'.status \in Frozen]_vars

\* Whatever the interleaving, the requests together implement the life cycle
\* that the model's docstring promises.
Lifecycle == INSTANCE InvoiceLifecycle
               WITH status <- inv.status, numbers <- DOMAIN notes

\* Every step of every request is a step of the life cycle or leaves it alone.
ImplementsLifecycle == Lifecycle!LifecycleSpec

\* What an invoice under a forfait, and one under any other contract, comes to:
\* the other one costs the raw usage until the first credit, of whatever amount,
\* which is taken from a fee and an overage of zero and leaves nothing to pay.
ForfaitTotal(row) == row.total = row.base + row.over - row.credits

UsageTotal(row) ==
  /\ row.base = 0 /\ row.over = 0
  /\ row.total = IF row.credits = 0 THEN row.raw ELSE 0

\* The total is the one or the other, through recalculations and changes of
\* the contract, and also when credits overlap: apply_credit writes total and
\* credits from the same copy.  Only a generation that overlapped with another
\* write can leave a total that follows from neither.
TotalFormula ==
  inv.status # "none" /\ "generate" \notin met =>
    ForfaitTotal(inv) \/ UsageTotal(inv)

\* A credit is never on the header without being on a line, and on a line
\* without being on the header only after two credits have overlapped; fees
\* are the same on both, and usage that is on the header and on no line is that
\* of failed calls.  Excepted are a generation that overlapped with another
\* write and one that had no line to write and kept the old ones.
LinesCoverHeader ==
  met \cap {"generate", "unlisted"} = {} =>
    /\ lines.base = inv.base /\ lines.over = inv.over
    /\ inv.credits <= lines.credit
    /\ "credit" \notin met => inv.credits = lines.credit
    /\ inv.raw <= lines.usage + RawCost(usage - succeeded)

NumbersStay == Numbers(inv') = Numbers(inv) /\ lines' = lines

\* Numbers and lines of a finalized invoice are changed by a request only that
\* had read the row before it was finalized, at the commit that ends it: after
\* the last of those no request, in whatever order they come, changes them.
FrozenToNewRequests ==
  [][inv.status = "finalized" =>
       \/ NumbersStay
       \/ \E p \in Procs : /\ pc[p] \in RowHolders /\ pc'[p] = "idle"
                           /\ snap[p].row.status # "finalized"]_vars

\* "Every charge is visible and explainable" (_build_line_items): an invoice
\* asks for no more than its lines add up to.
EveryChargeOnALine == inv.total <= lines.base + lines.usage + lines.over

\* The numbers of an invoice never change after it has been finalized, also
\* when it has been corrected by a credit note (IMMUTABILITY RULE).
FrozenForever ==
  [][inv.status \in Frozen => Numbers(inv') = Numbers(inv)]_vars
============================================================================
