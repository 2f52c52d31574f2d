---------------------------- MODULE SemanticCache ----------------------------
(***************************************************************************)
(* The semantic cache of one tenant in Redis: the hash of the index, whose *)
(* field names are derived from embeddings, and one key per entry with the *)
(* answer.  lookup and store are sequences of commands, and other requests *)
(* run between two commands.  Redis evicts any key (allkeys-lru), so keys  *)
(* go at any time and EXPIRE needs no step of its own.  A command that     *)
(* raises may or may not have been carried out.                            *)
(*                                                                         *)
(* A field name does not depend on the model, the index has one model per  *)
(* field, and the entry is fetched by a later command than the index.      *)
(***************************************************************************)
EXTENDS Callers, Naturals

CONSTANTS
  Prompts,     \* prompts, by embedding
  Ids,         \* field names
  IdOf,        \* _embedding_hash
  Similarity,  \* cosine similarity of two prompts
  Threshold    \* DEFAULT_THRESHOLD

ASSUME CacheAssumption ==
  /\ IdOf \in [Prompts -> Ids]
  /\ Similarity \in [Prompts \X Prompts -> Nat]
  /\ Threshold \in Nat \ {0}
  /\ Nothing \notin [prompt : Prompts, model : Models] \cup Ids

VARIABLES
  index,  \* id -> the prompt and model of its field
  entry,  \* id -> the prompt and model whose answer is stored
  req,    \* call -> the request that reports it, and its progress
  torn    \* history: ids whose last store was not left alone until it ended

cacheVars == <<index, entry, req, torn>>

Answers == [prompt : Prompts, model : Models]

Stages == {"idle", "lookup", "fetch", "clean", "log", "set"}

\* prompt and model of the request; the id that was matched; history: whether
\* a store of that id, or of the one being stored, may have come between.
Requests == [stage : Stages, prompt : Prompts \cup {Nothing}, model : Models \cup {Nothing},
             id : Ids \cup {Nothing}, raced : BOOLEAN]

NoRequest == [stage |-> "idle", prompt |-> Nothing, model |-> Nothing,
              id |-> Nothing, raced |-> FALSE]

----------------------------------------------------------------------------
Storing(i) == {c \in Calls : req[c].stage = "set" /\ IdOf[req[c].prompt] = i}

\* Requests that another store of i would come between.
Within(i) == {c \in Calls : \/ req[c].stage \in {"fetch", "clean"} /\ req[c].id = i
                            \/ c \in Storing(i)}

\* Call c goes on to r with a command that writes id i.
Overtake(c, i, r) ==
  req' = [d \in Calls |-> IF d = c THEN r
                          ELSE IF d \in Within(i) THEN [req[d] EXCEPT !.raced = TRUE]
                          ELSE req[d]]

\* The request goes on to save its call, having found nothing.
Missed(c) == [req EXCEPT ![c] = [@ EXCEPT !.stage = "log", !.id = Nothing, !.raced = FALSE]]

\* A report of a call of prompt p served by model m.
Begin(c, p, m) ==
  /\ req[c] = NoRequest
  /\ req' = [req EXCEPT ![c] = [NoRequest EXCEPT !.stage = "lookup", !.prompt = p, !.model = m]]
  /\ UNCHANGED <<index, entry, torn>>

\* Fault: entries of other models are candidates too.
AnyModelCandidates(p, m) ==
  {i \in Ids : index[i] # Nothing /\ Similarity[p, index[i].prompt] >= Threshold}

\* The fields of the same model that are similar enough.
Candidates(p, m) ==
  {i \in Ids : /\ index[i] # Nothing
               /\ index[i].model = m
               /\ Similarity[p, index[i].prompt] >= Threshold}

\* One of the most similar; the first that HGETALL returns.
BestMatches(p, m) ==
  {i \in Candidates(p, m) : \A j \in Candidates(p, m) :
     Similarity[p, index[j].prompt] <= Similarity[p, index[i].prompt]}

LookupMatch(c) ==
  /\ req[c].stage = "lookup"
  /\ \E i \in BestMatches(req[c].prompt, req[c].model) :
       req' = [req EXCEPT ![c] = [@ EXCEPT !.stage = "fetch", !.id = i,
                                           !.raced = i \in torn \/ Storing(i) # {}]]
  /\ UNCHANGED <<index, entry, torn>>

LookupNothing(c) ==
  /\ req[c].stage = "lookup"
  /\ Candidates(req[c].prompt, req[c].model) = {}
  /\ req' = Missed(c)
  /\ UNCHANGED <<index, entry, torn>>

FetchHit(c) ==
  /\ req[c].stage = "fetch"
  /\ entry[req[c].id] # Nothing
  /\ req' = [req EXCEPT ![c] = NoRequest]
  /\ UNCHANGED <<index, entry, torn>>

\* Fault: the field is deleted whatever GET returned.
FetchAndClean(c) ==
  /\ req[c].stage = "fetch"
  /\ req' = [req EXCEPT ![c].stage = "clean"]
  /\ UNCHANGED <<index, entry, torn>>

FetchNothing(c) ==
  /\ req[c].stage = "fetch"
  /\ entry[req[c].id] = Nothing
  /\ req' = [req EXCEPT ![c].stage = "clean"]
  /\ UNCHANGED <<index, entry, torn>>

\* HDEL of the field, whatever is in it by now.
CleanIndex(c) ==
  /\ req[c].stage = "clean"
  /\ index' = [index EXCEPT ![req[c].id] = Nothing]
  /\ req' = Missed(c)
  /\ UNCHANGED <<entry, torn>>

\* RedisError: a miss.  An HDEL may have been carried out.
LookupFails(c) ==
  /\ req[c].stage \in {"lookup", "fetch", "clean"}
  /\ req' = Missed(c)
  /\ \/ index' = index
     \/ req[c].stage = "clean" /\ index' = [index EXCEPT ![req[c].id] = Nothing]
  /\ UNCHANGED <<entry, torn>>

\* Fault: the model is left out.
AnswerOfNoModel(c) == [prompt |-> req[c].prompt, model |-> Nothing]

\* What request c stores, and under which name.
Answer(c) == [prompt |-> req[c].prompt, model |-> req[c].model]

Id(c) == IdOf[req[c].prompt]

\* The rest of log_call, then HSET and EXPIRE.
StoreIndex(c) ==
  /\ req[c].stage = "log"
  /\ index' = [index EXCEPT ![Id(c)] = Answer(c)]
  /\ Overtake(c, Id(c), [req[c] EXCEPT !.stage = "set", !.raced = Storing(Id(c)) # {}])
  /\ UNCHANGED <<entry, torn>>

\* SET.
StoreEntry(c) ==
  /\ req[c].stage = "set"
  /\ entry' = [entry EXCEPT ![Id(c)] = Answer(c)]
  /\ Overtake(c, Id(c), NoRequest)
  /\ torn' = IF req[c].raced THEN torn \cup {Id(c)} ELSE torn \ {Id(c)}
  /\ UNCHANGED index

\* Blocked, no answer, no embedding, or a RedisError whose command was not
\* carried out.
StoreFails(c) ==
  /\ req[c].stage \in {"log", "set"}
  /\ torn' = IF req[c].stage = "set" THEN torn \cup {Id(c)} ELSE torn
  /\ req' = [req EXCEPT ![c] = NoRequest]
  /\ UNCHANGED <<index, entry>>

\* A RedisError after the command was carried out: the rest is left out.
StoreBreaksOff(c) ==
  /\ \/ /\ req[c].stage = "log"
        /\ index' = [index EXCEPT ![Id(c)] = Answer(c)]
        /\ entry' = entry
     \/ /\ req[c].stage = "set"
        /\ entry' = [entry EXCEPT ![Id(c)] = Answer(c)]
        /\ index' = index
  /\ Overtake(c, Id(c), NoRequest)
  /\ torn' = torn \cup {Id(c)}

\* Time to live or eviction takes one key.
EntryGoes(i) ==
  /\ entry[i] # Nothing
  /\ entry' = [entry EXCEPT ![i] = Nothing]
  /\ UNCHANGED <<index, req, torn>>

IndexGoes ==
  /\ \E i \in Ids : index[i] # Nothing
  /\ index' = [i \in Ids |-> Nothing]
  /\ UNCHANGED <<entry, req, torn>>

----------------------------------------------------------------------------
CacheInit ==
  /\ index = [i \in Ids |-> Nothing]
  /\ entry = [i \in Ids |-> Nothing]
  /\ req = [c \in Calls |-> NoRequest]
  /\ torn = {}

\* The steps of a request, once it has begun, and those of Redis.
CacheStep ==
  \/ \E c \in Calls :
       \/ LookupMatch(c) \/ LookupNothing(c) \/ FetchHit(c) \/ FetchNothing(c)
       \/ CleanIndex(c) \/ LookupFails(c)
       \/ StoreIndex(c) \/ StoreEntry(c) \/ StoreFails(c) \/ StoreBreaksOff(c)
  \/ \E i \in Ids : EntryGoes(i)
  \/ IndexGoes

CacheNext ==
  \/ \E c \in Calls, p \in Prompts, m \in Models : Begin(c, p, m)
  \/ CacheStep

CacheSpec == CacheInit /\ [][CacheNext]_cacheVars

----------------------------------------------------------------------------
\* Types; a field and its entry hold a prompt and a model, or nothing.
CacheTypeOK ==
  /\ index \in [Ids -> Answers \cup {Nothing}]
  /\ entry \in [Ids -> Answers \cup {Nothing}]
  /\ req \in [Calls -> Requests]
  /\ torn \subseteq Ids

\* "Only match same-model cache entries" (lookup), and similar enough ones:
\* what a matched request finds is of the model it asked for, unless a store of
\* the same id came between its two commands or was torn before them.
HitsMatch ==
  \A c \in Calls :
    req[c].stage = "fetch" /\ ~req[c].raced /\ entry[req[c].id] # Nothing =>
      /\ entry[req[c].id].model = req[c].model
      /\ Similarity[req[c].prompt, entry[req[c].id].prompt] >= Threshold

\* The clean-up of lookup deletes the field of a stored answer only where a
\* store of it came between the GET and the HDEL.
CleansStale ==
  \A c \in Calls :
    req[c].stage = "clean" /\ ~req[c].raced => entry[req[c].id] = Nothing
============================================================================
