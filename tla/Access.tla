------------------------------- MODULE Access -------------------------------
(***************************************************************************)
(* The administrative API: a request arrives at a worker, passes its rate  *)
(* limiter (RateLimiter), logs in, is exchanged or authorized (Tokens),    *)
(* and changes users (Tokens), keys or credentials (Keys).  Sessions and   *)
(* windows run on one clock.                                               *)
(***************************************************************************)
EXTENDS RateLimiter, Tokens, Keys, Terms

accessVars == <<requestVars, limiterVars, tokenVars, keyVars, termVars>>

AccessInit == RequestsInit /\ LimiterInit /\ TokensInit /\ KeysInit /\ TermsInit

\* Every request has been answered or cut off: the clients are at rest.
Rest ==
  /\ \A r \in Requests : pc[r] \in {"refused", "done", "cut"}
  /\ UNCHANGED accessVars

AccessNext ==
  \/ Tick /\ UNCHANGED <<limiterVars, tokenVars, keyVars, termVars>>
  \/ \E r \in Requests, w \in Workers, o \in Operations :
       Arrive(r, w, o) /\ UNCHANGED <<tokenVars, keyVars, termVars>>
  \/ \E w \in Workers : Restart(w) /\ UNCHANGED <<tokenVars, keyVars, termVars>>
  \/ TokensStep /\ UNCHANGED <<limiterVars, keyVars, termVars>>
  \/ \E r \in Requests :
       \/ /\ (KeysBegin(r) /\ Allowed(r)) \/ KeysEnd(r)
          /\ UNCHANGED <<limiterVars, tokenVars, termVars>>
       \/ /\ (TermsBegin(r) /\ Allowed(r)) \/ TermsGo(r)
          /\ UNCHANGED <<limiterVars, tokenVars, keyVars>>
  \/ Rest

AccessSpec == AccessInit /\ [][AccessNext]_accessVars

AccessTypeOK == RequestsTypeOK /\ LimiterTypeOK /\ TokensTypeOK /\ KeysTypeOK /\ TermsTypeOK
============================================================================
