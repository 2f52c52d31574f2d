----------------------------- MODULE MCGateway -----------------------------
(***************************************************************************)
(* Instances of Gateway for TLC.                                           *)
(***************************************************************************)
EXTENDS Gateway, TLC

CONSTANTS c1, c2, cheap, dear, question

Rule(kind, model, limit) == [kind |-> kind, model |-> model, limit |-> limit]

Request(via, model, n, c, prompt) ==
  [via |-> via, model |-> model, tokens |-> n, cost |-> c, prompt |-> prompt]

\* Calls of one and of two tokens reported to /log, a playground call, and an
\* alias call.
MixedRequests ==
  {Request("log", cheap, 1, 1, NoPrompt), Request("log", dear, 2, 1, NoPrompt),
   Request("playground", dear, 2, 2, NoPrompt),
   Request("alias", cheap, 0, 0, NoPrompt)}

\* A small call that costs, and a larger one of a model that is free.
LogRequests ==
  {Request("log", dear, 1, 2, NoPrompt), Request("log", cheap, 2, 0, NoPrompt)}

\* A call whose answer is cached, and one that may be answered from the cache
\* or routed by an experiment.
CachedRequests ==
  {Request("playground", cheap, 1, 1, question),
   Request("alias", cheap, 0, 0, question)}

PlaygroundRequests == {Request("playground", dear, 1, 1, NoPrompt)}

\* Two lists with a daily limit and a budget, in both orders, one of them
\* with a downgrade below the limits and a limit that is switched off.
LimitLists ==
  {<<Rule("tenant_limit", AnyModel, 2), Rule("budget_cap", AnyModel, 2)>>,
   <<Rule("rate_limit", AnyModel, 0), Rule("budget_cap", AnyModel, 1),
     Rule("tenant_limit", AnyModel, 3), Rule("model_downgrade", dear, 1)>>}

DailyLimitList == {<<Rule("tenant_limit", AnyModel, 2)>>}

\* Rules that never block.
OpenLists ==
  {<<>>, <<Rule("model_downgrade", cheap, 0), Rule("model_downgrade", dear, 1)>>}

\* A model is forbidden and allowed again.
BlockLists == {<<Rule("model_block", cheap, 0)>>, <<>>}

Workers == Permutations(Calls)
============================================================================
