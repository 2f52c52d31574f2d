------------------------------ MODULE MCAccess ------------------------------
(***************************************************************************)
(* Instances of Access for TLC: two administrators who are logged in, one  *)
(* virtual key, one provider.                                              *)
(***************************************************************************)
EXTENDS Access, TLC

CONSTANTS r1, r2, r3, w1, w2, ann, bob, carl, sa, sb, k, openai, none

MCLoginOf == (sa :> ann) @@ (sb :> bob)

Asks(name, by, on) ==
  [name |-> name, by |-> by, on |-> on, role |-> "keep",
   active |-> CASE name = "deactivate" -> "off" [] name = "reactivate" -> "on" [] OTHER -> "keep",
   value |-> 0]

Sets(name, value) == [Asks(name, sa, none) EXCEPT !.value = value]

\* What the requests of one behaviour are about.
ContractTopic ==
  {Asks("look", sb, none), Sets("propose", 2), Sets("impose", 3), Asks("accept", sb, none),
   Asks("reject", sb, none)}

AdminTopic ==
  {Asks("deactivate", sa, bob), Asks("deactivate", sb, ann), Asks("deactivate", sa, ann),
   Asks("reactivate", sa, bob), [Asks("update", sa, ann) EXCEPT !.role = "tenant_admin"],
   [Asks("create", sb, carl) EXCEPT !.role = "super_admin", !.active = "on"]}

Topics ==
  {{Asks("login", none, bob), Asks("refresh", sb, none), Asks("deactivate", sa, bob)},
   AdminTopic,
   {Asks("create_key", sa, none), Asks("rotate_key", sa, k), Asks("revoke_key", sb, k)},
   {Asks("read", sa, none), Asks("set_credential", sa, openai),
    Asks("delete_credential", sa, openai)},
   {Sets("set_price", 1), Sets("set_price", 2)},
   ContractTopic,
   {Asks("rewrite", none, none)}}

MCOperations == UNION Topics

\* Where the contract is the topic, there may be one from the start.  The clock
\* does nothing to contracts, and to who is an administrator no more than end
\* his token, and stands still.
OneTopic ==
  \E T \in Topics :
    /\ \A r \in Requests : pc[r] = "new" \/ Op(r) \in T
    /\ T \in {ContractTopic, AdminTopic} => now = 0
    /\ T # ContractTopic => contract = NoContract

RequestSymmetry == Permutations(Requests) \cup Permutations(Workers)
============================================================================
