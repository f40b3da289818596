---------------------------- MODULE MCKnowledge ----------------------------
(* The knowledge side for TLC.  A behaviour runs one part of it, so that   *)
(* the state space is the sum of the parts and not their product.          *)
EXTENDS BadcaseReview, KnowledgeItems, RunContext, TLC

CONSTANTS f1, w1, w2, r1, r2, c1, c2, c3, near, far

VARIABLE part

knowledgeVars == <<badcaseVars, itemVars, workspaceVars, retrievalVars, part>>

MCBadcaseFile == [b \in Feedback |-> f1]
MCBadcaseContent == 3 :> c1 @@ 2 :> c2 @@ 1 :> c3
MCLikeness ==
  [p \in Feedback \X Feedback |->
     CASE p[1] = p[2] -> 100 [] {p[1], p[2]} = {2, 3} -> 70 [] {p[1], p[2]} = {1, 3} -> 50
       [] OTHER -> 30]
MCSceneOf == [r \in SceneRuns |-> IF r = "x3" THEN "s2" ELSE "s1"]
MCGoal == [r \in SceneRuns |-> IF r = "x2" THEN {"disk", "full"} ELSE {"disk"}]
MCAliasQuery == [g \in Goals |-> "aliases"]
MCSceneQuery == [g \in Goals |-> NoQuery]
MCDistance == [goal |-> near :> 85 @@ far :> 97, aliases |-> near :> 30 @@ far :> 20]
Symmetry == Permutations({w1, w2}) \union Permutations({r1, r2})

(* "promotion" starts when the oldest two runs were rated well.            *)
KnowledgeInit ==
  /\ part \in {"documents", "promotion", "clustering", "items", "workspaces", "retrieval"}
  /\ BadcaseInit
  /\ ItemInit
  /\ WorkspacesInit
  /\ RetrievalInit /\ (part # "retrieval" => caching = "none")
  /\ IF part = "promotion"
       THEN review[2] = "pending" /\ review[3] = "none"
       ELSE review[1] = "none"
  /\ part # "documents" => storage = "local" /\ vectors = "pgvector"

(* The uploads are of two contents.                                        *)
Documents ==
  /\ part = "documents" /\ DocNext
  /\ \A f \in DocFiles : local'[f] # c3
  /\ UNCHANGED <<feedbackVars, itemVars, workspaceVars, retrievalVars, part>>

(* No other uploads, one indexer at a time, nothing in its working         *)
(* directory that is named like a badcase's document, and no review is set *)
(* back to pending: setting it to rejected withdraws it just as well.      *)
Promotion ==
  /\ part = "promotion"
  /\ \/ \E c \in Clients : FeedbackStep(c) \/ PromotionStep(c)
     \/ \E b \in Feedback : Review(b) /\ review'[b] # "pending"
     \/ PlainStep
  /\ arrivals' = 0 /\ Cardinality({w \in Indexers : pc'[w] # "idle"}) <= 1
  /\ \A w \in Indexers : pc'[w] # "astray"
  /\ UNCHANGED <<itemVars, workspaceVars, retrievalVars, part>>

Clustering ==
  /\ part = "clustering"
  /\ \/ \E c \in Clients : FeedbackStep(c) \/ FaqStep(c)
     \/ \E b \in Feedback : Review(b)
  /\ UNCHANGED <<itemVars, workspaceVars, retrievalVars, part>>

CuratedItems ==
  part = "items" /\ ItemNext /\ UNCHANGED <<badcaseVars, workspaceVars, retrievalVars, part>>

(* Run x1 of scene s1 comes first: scenes are deleted, and a correction    *)
(* arrives, around it, and the store of the memory fails under it.  Then   *)
(* x2 of the same scene runs against the end of x1, and x3 of a scene of   *)
(* any workspace after it.                                                 *)
SharedWorkspaces ==
  LET Started(r) == course'[r] # "idle" IN
  /\ part = "workspaces"
  /\ WorkspacesNext
  /\ scenes'["s1"] # "wb"
  /\ Started("x1") => workspaces' = WorkspaceIds
  /\ deletedScenes' # {} => ~Started("x2") /\ ~Started("x3")
  /\ Started("x2") => scenes'["s2"] # NoScene /\ course'["x1"] \notin {"idle", "read"}
  /\ Started("x3") => /\ course'["x1"] \in {"refused", "remembered", "failed"}
                      /\ course'["x2"] \notin {"idle", "read", "refused"}
  /\ "failed" \notin {course'["x2"], course'["x3"]}
  /\ corrections' > corrections =>
       course["x1"] = "remembered" /\ Last(conclusions').run = "x1"
  /\ memoryErrors' > memoryErrors => course'["x2"] = "idle"
  /\ UNCHANGED <<badcaseVars, itemVars, retrievalVars, part>>

(* The index is filled before time passes.                                 *)
Retrievals ==
  /\ part = "retrieval"
  /\ RetrievalNext
  /\ wallClock > 0 => chunksIn' \subseteq chunksIn
  /\ UNCHANGED <<badcaseVars, itemVars, workspaceVars, part>>

KnowledgeNext ==
  Documents \/ Promotion \/ Clustering \/ CuratedItems \/ SharedWorkspaces \/ Retrievals

KnowledgeSpec == KnowledgeInit /\ [][KnowledgeNext]_knowledgeVars

(* Every variable of the knowledge side keeps its type: those of the part  *)
(* that runs, as the others never change.                                  *)
KnowledgeTypeOK ==
  /\ part \in {"documents", "promotion", "clustering"} => BadcaseTypeOK
  /\ part = "items" => ItemTypeOK
  /\ part = "workspaces" => WorkspacesTypeOK
  /\ part = "retrieval" => RetrievalTypeOK
=============================================================================
