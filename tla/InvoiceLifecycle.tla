-------------------------- MODULE InvoiceLifecycle --------------------------
(***************************************************************************)
(* What an invoice promises to the accountant, whatever the requests that  *)
(* work on it do concurrently: it is created once, frozen, and from then   *)
(* on only followed by credit notes with consecutive numbers; it never     *)
(* becomes a draft again.  Billing implements this module.                 *)
(***************************************************************************)
EXTENDS Integers

CONSTANT NoteCeiling

VARIABLES
  status,   \* life cycle of LLMBillingMonthly
  numbers   \* the numbers of the credit notes issued against it

lifecycleVars == <<status, numbers>>

Issued == status \in {"finalized", "corrected"}

LifecycleInit ==
  /\ status = "none"
  /\ numbers = {}

\* The first generation of the month.
Draft ==
  /\ status = "none"
  /\ status' = "draft"
  /\ UNCHANGED numbers

\* Finalization: of a new invoice, of a draft, or again after a correction.
Freeze ==
  /\ status # "finalized"
  /\ status' = "finalized"
  /\ UNCHANGED numbers

\* A credit note takes the next number and normally marks the invoice.
Note ==
  /\ Issued
  /\ status' \in {status, "corrected"}
  /\ \E n \in 1..NoteCeiling :
       /\ numbers = 1..(n - 1)
       /\ numbers' = 1..n

LifecycleNext == Draft \/ Freeze \/ Note

LifecycleSpec == LifecycleInit /\ [][LifecycleNext]_lifecycleVars
============================================================================
