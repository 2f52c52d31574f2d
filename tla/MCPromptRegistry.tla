-------------------------- MODULE MCPromptRegistry --------------------------
(***************************************************************************)
(* Instances of PromptRegistry for TLC.                                    *)
(***************************************************************************)
EXTENDS PromptRegistry, TLC

CONSTANTS p1, p2, p3

Requests == Permutations(Procs)
============================================================================
