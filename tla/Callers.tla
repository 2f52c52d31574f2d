------------------------------ MODULE Callers -------------------------------
(***************************************************************************)
(* What the modules of the outbound path share: the calls in progress and  *)
(* the models that are asked for.                                          *)
(***************************************************************************)
CONSTANTS
  Calls,   \* calls in progress, each of one client
  Models,  \* model names
  Nothing  \* no model, no prompt, no field, no key

ASSUME CallersAssumption == Nothing \notin Models
============================================================================
