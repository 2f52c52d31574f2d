----------------------------- MODULE MCBilling -----------------------------
(***************************************************************************)
(* Instances of Billing for TLC.                                           *)
(***************************************************************************)
EXTENDS Billing, FiniteSets, TLC

CONSTANTS p1, p2

Forfait(base, included, rate, active) ==
  [kind |-> "forfait", active |-> active,
   base |-> base, included |-> included, rate |-> rate]

\* One forfait and a dearer one, which may also be suspended.
ForfaitContracts ==
  {Forfait(2, 1, 1, TRUE), Forfait(3, 1, 2, TRUE), Forfait(3, 1, 2, FALSE)}

PayAsYouGo ==
  [kind |-> "pay_as_you_go", active |-> TRUE, base |-> 0, included |-> 0, rate |-> 0]

\* A forfait that the first block of tokens exceeds, and the default contract.
TwoKinds == {Forfait(1, 0, 1, TRUE), PayAsYouGo}

\* Two credits, two credit notes or one of each, and one more in progress.
CreditsOrNotes == lines.credit + Cardinality(DOMAIN notes) <= 2

Requests == Permutations(Procs)
============================================================================
