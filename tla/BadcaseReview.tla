--------------------------- MODULE BadcaseReview ---------------------------
(***************************************************************************)
(* From an operator's feedback to the knowledge base: feedback on a run    *)
(* becomes a badcase, a reviewer confirms or rejects it, and promotion     *)
(* writes its document to the object store and has it indexed, through the *)
(* requests and dispatchers of DocumentIndex.  Similar badcases are        *)
(* clustered into FAQ candidates, which a reviewer confirms as a whole.    *)
(*                                                                         *)
(* Feedback ids are numbers in order of created_at.  What a correction     *)
(* says is reduced to how alike two of them are.                           *)
(***************************************************************************)
EXTENDS DocumentIndex, SequencesExt, Sorting

CONSTANTS Feedback,          \* feedback ids
          BadcaseFile,       \* badcase-<id>.md of each feedback
          BadcaseContent,    \* its markdown, which names the feedback
          Likeness,          \* how alike two corrections are, in percent
          DefaultThreshold,  \* similarity_threshold of the clusterer
          Thresholds,        \* similarity_threshold of listing requests
          MinClusterSize     \* min_cluster_size of the listing request

ASSUME BadcaseAssumption ==
  /\ Feedback \subseteq Nat \ {0}
  /\ BadcaseFile \in [Feedback -> DocFiles]
  /\ BadcaseContent \in [Feedback -> Contents]
  /\ \A b, d \in Feedback : BadcaseContent[b] = BadcaseContent[d] => b = d
  /\ Likeness \in [Feedback \X Feedback -> Int]
  /\ DefaultThreshold \in Int /\ Thresholds \subseteq Int
  /\ MinClusterSize \in Nat

VARIABLES
  review,        \* review_status; "none" before the row exists
  badcase,       \* rows with badcase_flag
  corrected,     \* rows with a correction
  memories,      \* rows whose correction is in agent_memory
  promotion,     \* knowledge_task_id, or NoTask
  job, subject,  \* per request: what it is doing, and to which rows
  confirmedOnce  \* history: rows that were ever confirmed

feedbackVars == <<review, badcase, corrected, memories, promotion, job, subject,
                  confirmedOnce>>
badcaseVars == <<docVars, feedbackVars>>

(* The first cluster whose representative is similar takes the badcase.    *)
Alike(threshold, b, d) == Likeness[<<b, d>>] >= threshold
Assign(threshold, clusters, b) ==
  LET hits == {i \in 1 .. Len(clusters) : Alike(threshold, b, Head(clusters[i]))} IN
  IF hits = {} THEN Append(clusters, <<b>>)
  ELSE LET i == CHOOSE i \in hits : \A j \in hits : i <= j
       IN  [clusters EXCEPT ![i] = Append(@, b)]

(* Newest first, as list_badcases orders them; no correction, no cluster.  *)
Newer(b, d) == b > d
NewestFirst(S) == SortedBy(S, Newer)
Cluster(threshold, S) ==
  LET rows == NewestFirst(S \cap corrected)
      After[n \in 0 .. Cardinality(S \cap corrected)] ==
        IF n = 0 THEN <<>> ELSE Assign(threshold, After[n - 1], rows[n])
  IN After[Cardinality(S \cap corrected)]
ClusterSets(threshold, S) == {Range(c) : c \in Range(Cluster(threshold, S))}

(* list_faq_candidates clusters the confirmed badcases, if there are       *)
(* enough, by the threshold of the request; confirm_faq_candidate clusters *)
(* just the ids it is given, by the default, and wants them back as one    *)
(* cluster.                                                                *)
Candidates(threshold) ==
  LET confirmed == {b \in badcase : review[b] = "confirmed"} IN
  IF Cardinality(confirmed) < MinClusterSize THEN {}
  ELSE {C \in ClusterSets(threshold, confirmed) : Cardinality(C) >= MinClusterSize}

(* Mutant: a likeness at the threshold is not enough.                      *)
ConfirmableAbove(C) == C \in ClusterSets(DefaultThreshold + 1, badcase \cap C)

Confirmable(C) == C \in ClusterSets(DefaultThreshold, badcase \cap C)
----------------------------------------------------------------------------
(* The oldest rows may be of runs that were rated well.                    *)
BadcaseInit ==
  /\ DocInit
  /\ \E n \in Feedback \union {0} :
       review = [b \in Feedback |-> IF b <= n THEN "pending" ELSE "none"]
  /\ badcase = {}
  /\ corrected = {}
  /\ memories = {}
  /\ promotion = [b \in Feedback |-> NoTask]
  /\ job = [c \in Clients |-> "none"]
  /\ subject = [c \in Clients |-> {}]
  /\ confirmedOnce = {}

StartJob(c, what, S) ==
  /\ pc[c] = "idle"
  /\ job[c] = "none"
  /\ job' = [job EXCEPT ![c] = what]
  /\ subject' = [subject EXCEPT ![c] = S]

EndJob(c) ==
  /\ job' = [job EXCEPT ![c] = "none"]
  /\ subject' = [subject EXCEPT ![c] = {}]

(* A negative rating or a correction makes a badcase.  The memory of the   *)
(* correction is a second transaction.                                     *)
CreateFeedback(c, b, negative, corrects) ==
  /\ review[b] = "none"
  /\ \A d \in Feedback : d < b => review[d] # "none"
  /\ review' = [review EXCEPT ![b] = "pending"]
  /\ badcase' = IF negative \/ corrects THEN badcase \union {b} ELSE badcase
  /\ corrected' = IF corrects THEN corrected \union {b} ELSE corrected
  /\ StartJob(c, "remember", {b})
  /\ UNCHANGED <<docVars, memories, promotion, confirmedOnce>>

CreateMemory(c) ==
  /\ job[c] = "remember"
  /\ memories' = memories \union (subject[c] \cap corrected)
  /\ EndJob(c)
  /\ UNCHANGED <<docVars, review, badcase, corrected, promotion, confirmedOnce>>

(* review_badcase writes any status over any other.                        *)
ReviewBadcase(b, s) ==
  /\ b \in badcase
  /\ review' = [review EXCEPT ![b] = s]
  /\ confirmedOnce' = IF s = "confirmed" THEN confirmedOnce \union {b} ELSE confirmedOnce
  /\ UNCHANGED <<badcase, corrected, memories, promotion>>

Review(b) ==
  /\ \E s \in {"pending", "confirmed", "rejected"} : ReviewBadcase(b, s)
  /\ UNCHANGED <<docVars, job, subject>>

(* Mutant: the review status is not looked at.                             *)
PromoteUnreviewed(c, b) ==
  /\ b \in badcase
  /\ StartJob(c, "draft", {b})
  /\ UNCHANGED <<docVars, review, badcase, corrected, memories, promotion, confirmedOnce>>

(* promote-knowledge builds the document of a confirmed badcase.  The      *)
(* review may change before the document is written.                       *)
Promote(c, b) ==
  /\ b \in badcase
  /\ review[b] = "confirmed"
  /\ StartJob(c, "draft", {b})
  /\ UNCHANGED <<docVars, review, badcase, corrected, memories, promotion, confirmedOnce>>

WriteDraft(c) ==
  /\ job[c] = "draft"
  /\ job' = [job EXCEPT ![c] = "promote"]
  /\ \E b \in subject[c] : PutBytes(c, BadcaseFile[b], BadcaseContent[b])
  /\ UNCHANGED <<arrivals, review, badcase, corrected, memories, promotion, subject,
                 confirmedOnce>>

(* The upload's steps, then the badcase is marked with the task.           *)
PromoteStep(c) ==
  /\ job[c] = "promote"
  /\ UploadStep(c)
  /\ UNCHANGED feedbackVars

MarkPromotion(c) ==
  /\ job[c] = "promote"
  /\ Answer(c)
  /\ promotion' = [b \in Feedback |-> IF b \in subject[c] THEN task[c] ELSE promotion[b]]
  /\ EndJob(c)
  /\ UNCHANGED <<review, badcase, corrected, memories, confirmedOnce>>

(* confirm_faq_candidate.  Its members are confirmed one by one, whatever  *)
(* their review says by then; the documents are built and returned, and    *)
(* nothing stores or indexes them.                                         *)
ConfirmCandidate(c, C) ==
  /\ Confirmable(C)
  /\ StartJob(c, "confirm", C)
  /\ UNCHANGED <<docVars, review, badcase, corrected, memories, promotion, confirmedOnce>>

ConfirmMember(c) ==
  /\ job[c] = "confirm"
  /\ \E b \in subject[c] :
       /\ ReviewBadcase(b, "confirmed")
       /\ subject' = [subject EXCEPT ![c] = @ \ {b}]
       /\ job' = [job EXCEPT ![c] = IF subject[c] = {b} THEN "none" ELSE @]
  /\ UNCHANGED docVars

JobDies(c) ==
  /\ job[c] # "none"
  /\ EndJob(c)
  /\ IF pc[c] = "idle"
       THEN DocFailure /\ UNCHANGED <<taskVars, storage, vectors, storeVars, chunks, procVars,
                                      docHistory, arrivals>>
       ELSE RequestDies(c)
  /\ UNCHANGED <<review, badcase, corrected, memories, promotion, confirmedOnce>>
----------------------------------------------------------------------------
(* Feedback that comes in, clusters that are confirmed, and badcases that  *)
(* are promoted.                                                           *)
FeedbackStep(c) ==
  \/ \E b \in Feedback, negative, corrects \in BOOLEAN : CreateFeedback(c, b, negative, corrects)
  \/ CreateMemory(c)

FaqStep(c) ==
  \/ \E C \in (SUBSET badcase) \ {{}} : ConfirmCandidate(c, C)
  \/ ConfirmMember(c)

PromotionStep(c) ==
  \/ \E b \in Feedback : Promote(c, b)
  \/ WriteDraft(c) \/ PromoteStep(c) \/ MarkPromotion(c) \/ JobDies(c)

(* Everything else that is done to documents.  Nobody writes a badcase's   *)
(* document by hand.                                                       *)
PlainStep ==
  /\ DocNext
  /\ \A c \in Clients : job[c] # "none" => pc'[c] = pc[c]
  /\ \A f \in DocFiles, b \in Feedback :
       local'[f] = BadcaseContent[b] => local[f] = BadcaseContent[b]
  /\ UNCHANGED feedbackVars

BadcaseNext ==
  \/ \E c \in Clients : FeedbackStep(c) \/ FaqStep(c) \/ PromotionStep(c)
  \/ \E b \in Feedback : Review(b)
  \/ PlainStep

BadcaseSpec == BadcaseInit /\ [][BadcaseNext]_badcaseVars
----------------------------------------------------------------------------
(* Every variable keeps its type, and a request has a subject exactly      *)
(* while it has a job.                                                     *)
BadcaseTypeOK ==
  /\ DocTypeOK
  /\ review \in [Feedback -> {"none", "pending", "confirmed", "rejected"}]
  /\ corrected \subseteq badcase /\ memories \subseteq corrected
  /\ badcase \subseteq {b \in Feedback : review[b] # "none"}
  /\ promotion \in [Feedback -> DocTasks \union {NoTask}]
  /\ job \in [Clients -> {"none", "remember", "draft", "promote", "confirm"}]
  /\ subject \in [Clients -> SUBSET Feedback]
  /\ \A c \in Clients : (job[c] = "none") <=> (subject[c] = {})

(* A badcase's document reaches the index, and a badcase is marked as      *)
(* promoted, only if a reviewer confirmed it at some time, and its mark    *)
(* names a task of its own file: whatever requests, reviews and attempts   *)
(* interleave, die and are retried.                                        *)
OnlyReviewedKnowledge ==
  /\ \A b \in badcase, f \in DocFiles : chunks[f][BadcaseContent[b]] > 0 => b \in confirmedOnce
  /\ \A b \in Feedback : promotion[b] # NoTask => /\ b \in confirmedOnce
                                                  /\ taskFile[promotion[b]] = BadcaseFile[b]

(* Each FAQ candidate of a listing that asks for at least the default      *)
(* likeness can be confirmed as it was listed: clustering just its members *)
(* gives one cluster again, although the greedy pass that listed it went   *)
(* over all confirmed badcases and likeness is not transitive.  Below the  *)
(* default a listing shows candidates that are refused as                  *)
(* cluster_not_found.                                                      *)
ListedIsConfirmable ==
  \A t \in Thresholds : t >= DefaultThreshold => \A C \in Candidates(t) : Confirmable(C)

(* A badcase is reviewed on its way to the index, alone or in a cluster.   *)
BadcasesHold == OnlyReviewedKnowledge /\ ListedIsConfirmable
=============================================================================
