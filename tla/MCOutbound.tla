----------------------------- MODULE MCOutbound -----------------------------
(***************************************************************************)
(* Instances of Outbound for TLC: two providers with one model each, and   *)
(* two prompts that share an id and are not similar enough for a hit.      *)
(***************************************************************************)
EXTENDS Outbound, TLC

CONSTANTS c1, c2, w1, small, large, alpha, beta, x, y, i1, none

MCProviderOf == (small :> alpha) @@ (large :> beta)

\* large is also in the chain of its own provider.
MCChain == (small :> <<large>>) @@ (large :> <<large, small>>)

MCIdOf == [p \in Prompts |-> i1]

MCSimilarity == [pair \in Prompts \X Prompts |-> IF pair[1] = pair[2] THEN 2 ELSE 1]

CallSymmetry == Permutations(Calls)
============================================================================
