----------------------------- MODULE Retrieval -------------------------------
(***************************************************************************)
(* The retrieval pipeline and its semantic cache: a goal is rewritten into *)
(* queries, looked up in the cache, searched, reranked and gated, and a    *)
(* confident result is cached.  A process retrieves in one synchronous     *)
(* call at a time, but each of its searches asks an index that others      *)
(* change, and time passes in between.                                     *)
(*                                                                         *)
(* The vector search knows neither workspaces nor knowledge bases, and the *)
(* score it hands on is a distance: the smaller, the nearer.  Distances    *)
(* are percentages.  A query is served by chunks, compared by content.     *)
(***************************************************************************)
EXTENDS Integers, Sequences, FiniteSetsExt, Functions

CONSTANTS Askers,       \* workspaces
          Goals,        \* a goal is a query itself
          AliasQuery, SceneQuery, TokenQuery,  \* goal -> another query for it, or NoQuery
          NoQuery,
          Chunks,
          Distance,     \* query -> chunk -> distance, all different
          TopK,         \* max_items of the scope
          TimeToLive,   \* of a cached result
          GateAt, StoreAt, SimilarAt,  \* thresholds of the gate and the cache
          NoResult,
          MaxClock,            \* bound: time
          MaxFailedSearches    \* bound: searches that fail

ASSUME RetrievalAssumption ==
  /\ {TopK, TimeToLive, GateAt, StoreAt, SimilarAt, MaxClock, MaxFailedSearches} \subseteq Nat
  /\ GateAt <= StoreAt /\ GateAt <= SimilarAt
  /\ Distance \in [DOMAIN Distance -> [Chunks -> Nat]]
  /\ Goals \subseteq DOMAIN Distance
  /\ \A g \in Goals :
       {AliasQuery[g], SceneQuery[g], TokenQuery[g]} \subseteq DOMAIN Distance \union {NoQuery}

VARIABLES
  caching,      \* "none" as the container builds it, "exact", or "similar" with a search
  chunksIn,     \* the chunks of the vector index
  searching,    \* the retrieval that is under way, or NoResult
  cached,       \* <<workspace, goal>> -> what is cached, or NoResult
  wallClock,
  lastIn,       \* chunk -> when it was last in the index (history)
  retrieved,    \* the last answer, or NoResult
  failedSearches

retrievalVars == <<caching, chunksIn, searching, cached, wallClock, lastIn, retrieved,
                   failedSearches>>

RetrievalInit ==
  /\ caching \in {"none", "exact", "similar"}
  /\ chunksIn = {}
  /\ searching = NoResult
  /\ cached = [k \in Askers \X Goals |-> NoResult]
  /\ wallClock = 0
  /\ lastIn = [c \in Chunks |-> -TimeToLive]
  /\ retrieved = NoResult
  /\ failedSearches = 0
----------------------------------------------------------------------------
(* QueryRewriter.rewrite: the goal, its aliases, the goal with the scene's *)
(* text, and its English words, each once.                                 *)
With(queries, q) == IF q \in Range(queries) \union {NoQuery} THEN queries ELSE Append(queries, q)

Variants(g) == With(With(With(<<g>>, AliasQuery[g]), SceneQuery[g]), TokenQuery[g])

(* search_similar_documents: the k nearest chunks.                         *)
SearchSimilar(q, k) ==
  {c \in chunksIn : Cardinality({d \in chunksIn : Distance[q][d] < Distance[q][c]}) < k}

(* Of equal contents the first one found is kept, with its score.          *)
Add(items, q) ==
  items \union {[chunk |-> c, score |-> Distance[q][c]] :
                  c \in SearchSimilar(q, TopK) \ {i.chunk : i \in items}}

(* A reranker may return any TopK of them; one that fails returns the      *)
(* first TopK, and without one all are kept.                               *)
Reranked(items) == {items} \union {some \in SUBSET items : Cardinality(some) <= TopK}

BestScore(items) == Max({i.score : i \in items} \union {0})

(* ConfidenceGate.evaluate.                                                *)
Gate(items) == items # {} /\ BestScore(items) >= GateAt

(* took says for how long its retrieval had run by then.                   *)
Result(items, score) ==
  [chunks |-> {i.chunk : i \in items}, score |-> score, at |-> wallClock,
   took |-> wallClock - searching.from]

Fresh(w, g) == cached[<<w, g>>] # NoResult /\ wallClock - cached[<<w, g>>].at < TimeToLive

(* The nearest chunk, where its "similarity" reaches the threshold.        *)
SimilarChunks(g) ==
  {c \in SearchSimilar(g, 1) : Distance[g][c] >= SimilarAt}

(* The searches that are still to be done: 0 is that of the lookup, and of *)
(* the queries the first three are searched.                               *)
Unasked == IF searching.similar THEN {}
           ELSE (searching.next .. 3) \intersect ({0} \union DOMAIN Variants(searching.goal))
----------------------------------------------------------------------------
(* Mutant: a hit starts the time to live anew.                             *)
HitAndRenew(w, g) ==
  /\ searching = NoResult
  /\ Fresh(w, g)
  /\ retrieved' = [cached[<<w, g>>] EXCEPT !.at = wallClock]
  /\ cached' = [cached EXCEPT ![<<w, g>>].at = wallClock]
  /\ UNCHANGED <<caching, chunksIn, searching, wallClock, lastIn, failedSearches>>

Hit(w, g) ==
  /\ searching = NoResult
  /\ Fresh(w, g)
  /\ retrieved' = [cached[<<w, g>>] EXCEPT !.at = wallClock]
  /\ UNCHANGED <<caching, chunksIn, searching, cached, wallClock, lastIn, failedSearches>>

(* A miss; an expired entry is gone.                                       *)
Miss(w, g) ==
  /\ searching = NoResult
  /\ ~Fresh(w, g)
  /\ searching' = [asker |-> w, goal |-> g, next |-> IF caching = "similar" THEN 0 ELSE 1,
                   similar |-> FALSE, items |-> {}, from |-> wallClock]
  /\ cached' = [cached EXCEPT ![<<w, g>>] = NoResult]
  /\ UNCHANGED <<caching, chunksIn, wallClock, lastIn, retrieved, failedSearches>>

(* The lookup's own search takes the nearest chunk if it is similar        *)
(* enough, and nothing else is searched.                                   *)
LookUp ==
  /\ searching # NoResult /\ 0 \in Unasked
  /\ LET g == searching.goal IN
     \/ /\ SimilarChunks(g) = {}
        /\ searching' = [searching EXCEPT !.next = 1]
     \/ \E c \in SimilarChunks(g) :
          searching' = [searching EXCEPT !.similar = TRUE,
                                         !.items = {[chunk |-> c, score |-> Distance[g][c]]}]
  /\ UNCHANGED <<caching, chunksIn, cached, wallClock, lastIn, retrieved, failedSearches>>

SearchNext ==
  /\ searching # NoResult /\ 0 \notin Unasked /\ Unasked # {}
  /\ LET q == Variants(searching.goal)[searching.next] IN
     searching' = [searching EXCEPT !.next = @ + 1, !.items = Add(@, q)]
  /\ UNCHANGED <<caching, chunksIn, cached, wallClock, lastIn, retrieved, failedSearches>>

(* A failed search falls back on a list of one item type, which no scope   *)
(* asks for, and a failed lookup on the queries.                           *)
SearchFails ==
  /\ searching # NoResult /\ Unasked # {}
  /\ searching' = [searching EXCEPT !.next = @ + 1]
  /\ failedSearches < MaxFailedSearches
  /\ failedSearches' = failedSearches + 1
  /\ UNCHANGED <<caching, chunksIn, cached, wallClock, lastIn, retrieved>>

(* What was found is reranked and gated, unless it is a similar chunk, and *)
(* is answered; of enough confidence it is kept from now on.               *)
Reply(found, kept) ==
  /\ retrieved' = found
  /\ cached' = [cached EXCEPT ![<<searching.asker, searching.goal>>] = IF kept THEN found ELSE @]
  /\ searching' = NoResult
  /\ UNCHANGED <<caching, chunksIn, wallClock, lastIn, failedSearches>>

Conclude ==
  /\ searching # NoResult /\ Unasked = {}
  /\ IF searching.similar
       THEN Reply(Result(searching.items, BestScore(searching.items)), TRUE)
       ELSE \E items \in Reranked(searching.items) :
              Reply(Result(IF Gate(items) THEN items ELSE {}, BestScore(items)),
                    caching # "none" /\ Gate(items) /\ BestScore(items) >= StoreAt)

ClearCache ==
  /\ cached' = [k \in DOMAIN cached |-> NoResult]
  /\ UNCHANGED <<caching, chunksIn, searching, wallClock, lastIn, retrieved, failedSearches>>

(* The index changes by uploads and deletions, and time passes.            *)
AddChunk(c) ==
  /\ c \notin chunksIn
  /\ chunksIn' = chunksIn \union {c}
  /\ UNCHANGED <<caching, searching, cached, wallClock, lastIn, retrieved, failedSearches>>

RemoveChunk(c) ==
  /\ c \in chunksIn
  /\ chunksIn' = chunksIn \ {c}
  /\ lastIn' = [lastIn EXCEPT ![c] = wallClock]
  /\ UNCHANGED <<caching, searching, cached, wallClock, retrieved, failedSearches>>

ClockTicks ==
  /\ wallClock < MaxClock
  /\ wallClock' = wallClock + 1
  /\ UNCHANGED <<caching, chunksIn, searching, cached, lastIn, retrieved, failedSearches>>

RetrievalNext ==
  \/ \E w \in Askers, g \in Goals : Hit(w, g) \/ Miss(w, g)
  \/ LookUp \/ SearchNext \/ SearchFails \/ Conclude
  \/ ClearCache
  \/ \E c \in Chunks : AddChunk(c) \/ RemoveChunk(c)
  \/ ClockTicks

RetrievalSpec == RetrievalInit /\ [][RetrievalNext]_retrievalVars
----------------------------------------------------------------------------
Scores == UNION {{Distance[q][c] : c \in Chunks} : q \in DOMAIN Distance}
FoundItems == [chunk : Chunks, score : Scores]
Searches == [asker : Askers, goal : Goals, next : 0 .. 4, similar : BOOLEAN,
             items : SUBSET FoundItems, from : 0 .. MaxClock]
Results == [chunks : SUBSET Chunks, score : Scores \union {0}, at : 0 .. MaxClock,
            took : 0 .. MaxClock]

(* Every variable keeps its type; without a cache nothing is cached.       *)
RetrievalTypeOK ==
  /\ caching \in {"none", "exact", "similar"}
  /\ chunksIn \subseteq Chunks
  /\ searching \in Searches \union {NoResult}
  /\ cached \in [Askers \X Goals -> Results \union {NoResult}]
  /\ caching = "none" => \A k \in DOMAIN cached : cached[k] = NoResult
  /\ wallClock \in 0 .. MaxClock
  /\ lastIn \in [Chunks -> -TimeToLive .. MaxClock]
  /\ retrieved \in Results \union {NoResult}
  /\ failedSearches \in 0 .. MaxFailedSearches

(* What an answer quotes is in the index, or was in it since its search    *)
(* began, or, if anything is cached, less than the time to live before:    *)
(* however often it was asked for, and whatever the index and the clock    *)
(* did between the searches and the store.                                 *)
AnswersAreRecent ==
  retrieved # NoResult =>
    \A c \in retrieved.chunks :
      LET gone == retrieved.at - lastIn[c] IN
      \/ c \in chunksIn
      \/ gone <= retrieved.took
      \/ caching # "none" /\ gone < TimeToLive + retrieved.took

(* The gate reads distances as scores.  What it lets pass, also from the   *)
(* cache, holds a chunk that is GateAt or further from a query; of chunks  *)
(* that are all nearer the caller is told that nothing was found.          *)
AnswersHoldFarChunks ==
  retrieved # NoResult /\ retrieved.chunks # {} =>
    \E c \in retrieved.chunks, q \in DOMAIN Distance :
      Distance[q][c] = retrieved.score /\ retrieved.score >= GateAt

RetrievalHolds == AnswersAreRecent /\ AnswersHoldFarChunks
=============================================================================
