----------------------------- MODULE MCLedger ------------------------------
(***************************************************************************)
(* Instances of Ledger for TLC: three calls of one session, one of them of *)
(* another tenant, since session ids are not kept apart by tenant.         *)
(***************************************************************************)
EXTENDS Ledger, TLC

CONSTANTS c1, c2, c3, a, b, s, none

MCTenantOf == (c1 :> a) @@ (c2 :> a) @@ (c3 :> b)

MCSessionOf == (c1 :> s) @@ (c2 :> s) @@ (c3 :> s)

\* The other tenant's call is saved on the first day, before anything else;
\* of the two that differ in nothing, c1 is served first, on the first day.
InOrder ==
  /\ call[c1] = "new" => today = 0
  /\ call[c2] = "new" \/ call[c1] # "new"
  /\ \/ call[c3] = "saved"
     \/ /\ call[c3] # "lost" /\ today = 0
        /\ call[c1] = "new"
        /\ \A m \in Messages : task[m] = Unsent
============================================================================
