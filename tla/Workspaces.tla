----------------------------- MODULE Workspaces ------------------------------
(***************************************************************************)
(* Workspaces, their scenes, and the memory that the runs of a workspace   *)
(* leave for later ones.  A run reads its scene, creates its row, recalls, *)
(* works, settles and leaves its conclusion; requests create and delete    *)
(* scenes and correct runs meanwhile.  Every repository call is one        *)
(* transaction; foreign keys refuse a row whose parent has gone.           *)
(*                                                                         *)
(* A text is the set of its terms, and the memories are numbered in the    *)
(* order of their updated_at, which nothing changes after their creation.  *)
(***************************************************************************)
EXTENDS SequencesExt, Sorting

CONSTANTS WorkspaceIds, SceneIds, SceneRuns,
          SceneOf,          \* run -> the scene it is started for
          Goal,             \* run -> its goal
          Conclusions,      \* texts that a run or a correction may leave
          RecallWindow,     \* limit(100) of search_memory
          RecallLimit,      \* limit=3 of _search_memory
          MaxCorrections,   \* bound: corrections
          MaxMemoryErrors,  \* bound: calls of the memory store that fail
          NoScene, NoRecall

ASSUME WorkspaceAssumption ==
  /\ SceneOf \in [SceneRuns -> SceneIds]
  /\ RecallWindow \in Nat /\ RecallLimit \in Nat
  /\ MaxCorrections \in Nat /\ MaxMemoryErrors \in Nat
  /\ \A r \in SceneRuns : IsFiniteSet(Goal[r])

VARIABLES
  workspaces,   \* the rows of workspaces
  scenes,       \* scene -> its workspace, or NoScene
  deletedScenes, \* scenes that were deleted: an id is not used again
  sceneRead,    \* run -> the scene's workspace as it read it, or NoScene
  inScene,      \* runs whose row names their scene
  course,       \* run -> where it is
  settledAs,    \* run -> the status it settled on first, or "none" (history)
  conclusions,  \* agent_memory
  recall,       \* run -> what it recalled, and how many memories there were
  corrections, memoryErrors

sceneVars == <<workspaces, scenes, deletedScenes, inScene>>
workspaceVars == <<sceneVars, sceneRead, course, settledAs, conclusions, recall, corrections,
                   memoryErrors>>

WorkspacesInit ==
  /\ workspaces = {}
  /\ scenes = [s \in SceneIds |-> NoScene]
  /\ deletedScenes = {}
  /\ sceneRead = [r \in SceneRuns |-> NoScene]
  /\ inScene = {}
  /\ course = [r \in SceneRuns |-> "idle"]
  /\ settledAs = [r \in SceneRuns |-> "none"]
  /\ conclusions = <<>>
  /\ recall = [r \in SceneRuns |-> NoRecall]
  /\ corrections = 0
  /\ memoryErrors = 0

HasRow(r) == course[r] \notin {"idle", "read", "refused"}
----------------------------------------------------------------------------
(* Workspaces and scenes.  A workspace is never deleted.                   *)
CreateWorkspace(w) ==
  /\ w \notin workspaces
  /\ workspaces' = workspaces \union {w}
  /\ UNCHANGED <<scenes, deletedScenes, inScene, sceneRead, course, settledAs, conclusions,
                 recall, corrections, memoryErrors>>

CreateSceneIn(s, w) ==
  /\ w \in workspaces
  /\ s \notin deletedScenes /\ scenes[s] = NoScene
  /\ scenes' = [scenes EXCEPT ![s] = w]
  /\ UNCHANGED <<workspaces, deletedScenes, inScene, sceneRead, course, settledAs, conclusions,
                 recall, corrections, memoryErrors>>

(* One scene, or all with a prefix: their runs are detached, their links   *)
(* and then their rows deleted.                                            *)
DeleteScenes(S) ==
  /\ S # {} /\ \A s \in S : scenes[s] # NoScene
  /\ inScene' = {r \in inScene : SceneOf[r] \notin S}
  /\ scenes' = [s \in SceneIds |-> IF s \in S THEN NoScene ELSE scenes[s]]
  /\ deletedScenes' = deletedScenes \union S
  /\ UNCHANGED <<workspaces, sceneRead, course, settledAs, conclusions, recall, corrections,
                 memoryErrors>>
----------------------------------------------------------------------------
(* The memory                                                              *)

(* The share of the goal's terms, with the goal's size left out.           *)
TextScore(query, text) == Cardinality(query \intersect text)

MemoriesOf(w, upTo) == {i \in 1 .. upTo : conclusions[i].workspace = w}

Newest(S, n) == {i \in S : Cardinality({j \in S : j > i}) < n}

(* Mutant: the newest memories of all workspaces are searched.             *)
CandidatesAnywhere(w) == Newest(DOMAIN conclusions, RecallWindow)

CandidatesIn(w) == Newest(MemoriesOf(w, Len(conclusions)), RecallWindow)

(* The sort keeps the order of equals, newest first.                       *)
Before(query, i, j) ==
  LET si == TextScore(query, conclusions[i].text)
      sj == TextScore(query, conclusions[j].text)
      ci == conclusions[i].confidence
      cj == conclusions[j].confidence
  IN si > sj \/ (si = sj /\ (ci > cj \/ (ci = cj /\ i > j)))

SearchMemory(w, query) ==
  LET hits == {i \in CandidatesIn(w) : TextScore(query, conclusions[i].text) > 0}
      sorted == SortedBy(hits, LAMBDA i, j : Before(query, i, j))
  IN SubSeq(sorted, 1, IF Len(sorted) < RecallLimit THEN Len(sorted) ELSE RecallLimit)

CreateMemoryOf(r, kind, text, confidence) ==
  conclusions' = Append(conclusions, [workspace |-> sceneRead[r], run |-> r, kind |-> kind,
                                      text |-> text, confidence |-> confidence])

MemoryError == memoryErrors < MaxMemoryErrors /\ memoryErrors' = memoryErrors + 1
----------------------------------------------------------------------------
(* A run                                                                   *)
Go(r, stage) == course' = [course EXCEPT ![r] = stage]

(* A run whose scene is not found is not started.                          *)
ReadScene(r) ==
  /\ course[r] = "idle"
  /\ scenes[SceneOf[r]] # NoScene
  /\ sceneRead' = [sceneRead EXCEPT ![r] = scenes[SceneOf[r]]]
  /\ Go(r, "read")
  /\ UNCHANGED <<sceneVars, settledAs, conclusions, recall, corrections, memoryErrors>>

(* The foreign key refuses the row if the scene has gone meanwhile.        *)
CreateRunRow(r) ==
  /\ course[r] = "read"
  /\ IF scenes[SceneOf[r]] # NoScene
       THEN Go(r, "running") /\ inScene' = inScene \union {r}
       ELSE Go(r, "refused") /\ UNCHANGED inScene
  /\ UNCHANGED <<workspaces, scenes, deletedScenes, sceneRead, settledAs, conclusions, recall,
                 corrections, memoryErrors>>

(* A search that fails finds nothing.                                      *)
Recall(r) ==
  /\ course[r] = "running"
  /\ \/ /\ recall' = [recall EXCEPT ![r] =
             [found |-> SearchMemory(sceneRead[r], Goal[r]), of |-> Len(conclusions)]]
        /\ UNCHANGED memoryErrors
     \/ MemoryError /\ recall' = [recall EXCEPT ![r] = [found |-> <<>>, of |-> 0]]
  /\ Go(r, "recalled")
  /\ UNCHANGED <<sceneVars, sceneRead, settledAs, conclusions, corrections>>

(* Whether the run was completed or handed over; a pause, a failure or a   *)
(* cancellation leaves no memory.                                          *)
SettleWorkspaceRun(r, s) ==
  /\ course[r] = "recalled"
  /\ settledAs' = [settledAs EXCEPT ![r] = s]
  /\ Go(r, "settled")
  /\ UNCHANGED <<sceneVars, sceneRead, conclusions, recall, corrections, memoryErrors>>

PersistRunMemory(r) ==
  /\ course[r] = "settled"
  /\ \/ /\ \E text \in Conclusions :
             CreateMemoryOf(r, settledAs[r], text, IF settledAs[r] = "completed" THEN 60 ELSE 30)
        /\ UNCHANGED memoryErrors
     \/ MemoryError /\ UNCHANGED conclusions
  /\ Go(r, "remembered")
  /\ UNCHANGED <<sceneVars, sceneRead, settledAs, recall, corrections>>

(* At any time, also after the conclusion was left and before the run's    *)
(* end was told.                                                           *)
FailWorkspaceRun(r) ==
  /\ course[r] \in {"running", "recalled", "settled", "remembered"}
  /\ Go(r, "failed")
  /\ UNCHANGED <<sceneVars, sceneRead, settledAs, conclusions, recall, corrections, memoryErrors>>

(* An operator corrects a run, whatever its status; for the row of the     *)
(* feedback see BadcaseReview.                                             *)
CorrectRun(r) ==
  /\ HasRow(r)
  /\ corrections < MaxCorrections
  /\ corrections' = corrections + 1
  /\ \E text \in Conclusions : CreateMemoryOf(r, "correction", text, 70)
  /\ UNCHANGED <<sceneVars, sceneRead, course, settledAs, recall, memoryErrors>>

CreateRequest ==
  \E w \in WorkspaceIds : CreateWorkspace(w) \/ \E s \in SceneIds : CreateSceneIn(s, w)

DeleteRequest == \E S \in SUBSET SceneIds : DeleteScenes(S)

WorkspacesNext ==
  \/ CreateRequest \/ DeleteRequest
  \/ \E r \in SceneRuns :
       \/ ReadScene(r) \/ CreateRunRow(r) \/ Recall(r) \/ PersistRunMemory(r)
       \/ FailWorkspaceRun(r) \/ CorrectRun(r)
       \/ \E s \in {"completed", "handoff_required"} : SettleWorkspaceRun(r, s)

WorkspacesSpec == WorkspacesInit /\ [][WorkspacesNext]_workspaceVars
----------------------------------------------------------------------------
Courses == {"idle", "read", "refused", "running", "recalled", "settled", "remembered", "failed"}

WorkspacesTypeOK ==
  /\ workspaces \subseteq WorkspaceIds
  /\ scenes \in [SceneIds -> workspaces \union {NoScene}]
  /\ deletedScenes \subseteq {s \in SceneIds : scenes[s] = NoScene}
  /\ course \in [SceneRuns -> Courses]
  /\ inScene \subseteq {r \in SceneRuns : HasRow(r)}
  /\ \A i \in DOMAIN conclusions :
       conclusions[i].workspace \in workspaces /\ HasRow(conclusions[i].run)

(* A row names no scene but a living one, of the workspace that the row    *)
(* names, whether the scene went before, during or after the run's start.  *)
ScenesAreLive == \A r \in inScene : scenes[SceneOf[r]] = sceneRead[r]

(* A conclusion is left once, by a run that was settled as it says, even   *)
(* if the run was failed afterwards.                                       *)
ConclusionsAreSettled ==
  \A i \in DOMAIN conclusions :
    LET m == conclusions[i] IN
    m.kind # "correction" =>
      /\ m.kind = settledAs[m.run]
      /\ (m.confidence = 60) <=> (m.kind = "completed")
      /\ \A j \in DOMAIN conclusions \ {i} :
           conclusions[j].run = m.run => conclusions[j].kind = "correction"

(* A run recalls what its own workspace had learnt, the best of it first;  *)
(* of its own run, at most a correction.  What it does not recall had      *)
(* nothing in common with its goal, was no better than anything it did     *)
(* recall, or lay behind RecallWindow newer memories of the workspace,     *)
(* however useless these are.                                              *)
RecallIsBest(r) ==
  LET found == recall[r].found
      known == MemoriesOf(sceneRead[r], recall[r].of)
      Buried(i) == Cardinality({j \in known : j > i}) >= RecallWindow
  IN /\ ToSet(found) \subseteq known
     /\ \A n \in DOMAIN found :
          /\ conclusions[found[n]].run = r => conclusions[found[n]].kind = "correction"
          /\ \A m \in 1 .. n - 1 : Before(Goal[r], found[m], found[n])
     /\ \A i \in known \ ToSet(found) :
          \/ Goal[r] \intersect conclusions[i].text = {}
          \/ Buried(i)
          \/ Len(found) = RecallLimit /\ \A n \in DOMAIN found : Before(Goal[r], found[n], i)

(* A workspace's runs learn from one another and from nobody else, while   *)
(* scenes are deleted and runs fail around them.                           *)
RecallStaysLocal ==
  /\ ScenesAreLive /\ ConclusionsAreSettled
  /\ \A r \in SceneRuns : recall[r] # NoRecall => RecallIsBest(r)
=============================================================================
