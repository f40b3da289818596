--------------------------- MODULE KnowledgeProofs ---------------------------
(***************************************************************************)
(* Theorems about what runs are given to work with: the curated knowledge  *)
(* items, the retrieval pipeline with its cache, the memory of the         *)
(* workspaces, and the badcases on their way to the index, for any number  *)
(* of each; and that the knowledge side as a whole is made of these.       *)
(***************************************************************************)
EXTENDS MCKnowledge, DocumentIndexProofs, OrderLemmas

(* The items: types, duplicates and the audit log.                         *)

(* The types of the requests as well: one that inserts has a hash, and one *)
(* that logs or publishes has an item that exists.                         *)
RequestsTyped ==
  /\ ehash \in [Editors -> Hashes \union {NoHash}]
  /\ \A e \in Editors :
       /\ estep[e] = "inserting" => ehash[e] \in Hashes
       /\ estep[e] \in DOMAIN Outcome \union {"publishing"} =>
            eitem[e] \in Items /\ itemStatus[eitem[e]] # "none"

ItemInv == ItemTypeOK /\ RequestsTyped

LEMMA OutcomeTyped ==
  /\ DOMAIN Outcome = {"created", "published", "rejected"}
  /\ Outcome["created"] = "draft" /\ Outcome["published"] = "published"
  /\ Outcome["rejected"] = "archived"
  BY DEF Outcome

(* What every write of a status leaves: the row exists and so has a hash.  *)
LEMMA UpdateTyped ==
  ASSUME ItemInv, NEW e \in Editors, NEW i \in Items, NEW s \in {"published", "rejected"},
         UpdateStatus(e, i, s), epromotes' \in [Editors -> BOOLEAN]
  PROVE  ItemInv'
<1>1. itemStatus[i] # "none" /\ hash' = hash /\ audit' = audit /\ ehash' = ehash
  BY DEF UpdateStatus
<1>2. Outcome[s] \in {"published", "archived"} /\ s \in DOMAIN Outcome
  BY OutcomeTyped
<1>3. itemStatus' = [itemStatus EXCEPT ![i] = Outcome[s]]
  BY DEF UpdateStatus
<1>4. estep' = [estep EXCEPT ![e] = s] /\ eitem' = [eitem EXCEPT ![e] = i]
  BY DEF UpdateStatus
<1>5. itemStatus' \in [Items -> {"none", "draft", "published", "archived"}]
  BY <1>2, <1>3 DEF ItemInv, ItemTypeOK
<1>6. \A j \in Items : itemStatus'[j] = "none" <=> itemStatus[j] = "none"
  BY <1>1, <1>2, <1>3 DEF ItemInv, ItemTypeOK
<1>7. ItemTypeOK'
  BY <1>1, <1>2, <1>4, <1>5, <1>6 DEF ItemInv, ItemTypeOK
<1>8. RequestsTyped'
  BY <1>1, <1>4, <1>6, OutcomeTyped DEF ItemInv, ItemTypeOK, RequestsTyped
<1>. QED
  BY <1>7, <1>8 DEF ItemInv

LEMMA LogTyped ==
  ASSUME ItemInv, NEW e \in Editors, LogAudit(e)
  PROVE  ItemInv'
<1>1. eitem[e] \in Items /\ estep[e] \in DOMAIN Outcome
  BY DEF LogAudit, ItemInv, RequestsTyped
<1>2. audit' \in [Items -> SUBSET DOMAIN Outcome]
  BY <1>1 DEF LogAudit, ItemInv, ItemTypeOK
<1>3. CASE estep' = [estep EXCEPT ![e] = "publishing"] /\ UNCHANGED <<eitem, ehash, epromotes>>
  BY <1>1, <1>2, <1>3, OutcomeTyped DEF LogAudit, ItemInv, ItemTypeOK, RequestsTyped
<1>4. CASE Finish(e)
  BY <1>2, <1>4, OutcomeTyped DEF LogAudit, Finish, ItemInv, ItemTypeOK, RequestsTyped
<1>. QED
  BY <1>3, <1>4 DEF LogAudit

LEMMA InsertTyped ==
  ASSUME ItemInv, NEW e \in Editors, InsertItem(e)
  PROVE  ItemInv'
<1>1. PICK i \in Items : /\ itemStatus[i] = "none"
                         /\ hash' = [hash EXCEPT ![i] = ehash[e]]
                         /\ itemStatus' = [itemStatus EXCEPT ![i] = "draft"]
                         /\ eitem' = [eitem EXCEPT ![e] = i]
  BY DEF InsertItem
<1>2. ehash[e] \in Hashes /\ ehash[e] # NoHash
  BY ItemAssumption DEF InsertItem, ItemInv, RequestsTyped
<1>. QED
  BY <1>1, <1>2, OutcomeTyped DEF InsertItem, ItemInv, ItemTypeOK, RequestsTyped

LEMMA ItemInvInductive ==
  ASSUME ItemInv, [ItemNext]_itemVars
  PROVE  ItemInv'
<1>1. CASE UNCHANGED itemVars
  BY <1>1 DEF itemVars, ItemInv, ItemTypeOK, RequestsTyped
<1>2. ASSUME NEW e \in Editors, NEW h \in Hashes, NEW p \in BOOLEAN, CheckDuplicate(e, h, p)
      PROVE  ItemInv'
  BY <1>2, OutcomeTyped DEF CheckDuplicate, NewEdit, ItemInv, ItemTypeOK, RequestsTyped
<1>3. ASSUME NEW e \in Editors, NEW i \in Items, PublishItem(e, i)
      PROVE  ItemInv'
  BY <1>3, UpdateTyped DEF PublishItem, ItemInv, ItemTypeOK
<1>4. ASSUME NEW e \in Editors, NEW i \in Items, RejectItem(e, i)
      PROVE  ItemInv'
  BY <1>4, UpdateTyped DEF RejectItem, ItemInv, ItemTypeOK
<1>5. ASSUME NEW e \in Editors, PublishPromoted(e)
      PROVE  ItemInv'
  <2>1. eitem[e] \in Items /\ UpdateStatus(e, eitem[e], "published")
    BY <1>5 DEF PublishPromoted, ItemInv, RequestsTyped
  <2>2. epromotes' \in [Editors -> BOOLEAN]
    BY <1>5 DEF PublishPromoted, ItemInv, ItemTypeOK
  <2>. QED
    BY <2>1, <2>2, UpdateTyped
<1>6. ASSUME NEW e \in Editors, EditorDies(e)
      PROVE  ItemInv'
  BY <1>6, OutcomeTyped DEF EditorDies, Finish, ItemInv, ItemTypeOK, RequestsTyped
<1>. QED
  BY <1>1, <1>2, <1>3, <1>4, <1>5, <1>6, InsertTyped, LogTyped DEF ItemNext

LEMMA ItemInvInitially == ItemInit => ItemInv
  BY OutcomeTyped, ItemAssumption DEF ItemInit, ItemInv, ItemTypeOK, RequestsTyped

LEMMA ItemInvAlways == ItemSpec => []ItemInv
  BY ItemInvInitially, ItemInvInductive, PTL DEF ItemSpec

(* Every variable of the curated items keeps its type.                     *)
THEOREM ItemTypesHold == ItemSpec => []ItemTypeOK
<1>1. ItemInv => ItemTypeOK
  BY DEF ItemInv
<1>. QED
  BY <1>1, ItemInvAlways, PTL
----------------------------------------------------------------------------
(* Duplicates: a step makes an item live that was not only by inserting it *)
(* or by publishing it from the archive, and both are on record.           *)

LEMMA DuplicatesAfterUpdate ==
  ASSUME ItemInv, DuplicatesExplained, NEW e \in Editors, NEW i \in Items,
         NEW s \in {"published", "rejected"}, UpdateStatus(e, i, s)
  PROVE  DuplicatesExplained'
<1>1. SUFFICES ASSUME NEW j \in Items, NEW k \in Items, j # k, hash'[j] = hash'[k],
                      j \in ActiveItems(hash[j])', k \in ActiveItems(hash[j])'
               PROVE  hash'[j] \in (raced \union revived)'
  BY DEF DuplicatesExplained, ActiveItems
<1>2. hash' = hash /\ raced' = raced /\ revived \subseteq revived' /\ itemStatus[i] # "none"
  BY DEF UpdateStatus
<1>3. itemStatus' = [itemStatus EXCEPT ![i] = Outcome[s]]
  BY DEF UpdateStatus
<1>4. \A n \in {j, k} : itemStatus'[n] \in {"draft", "published"}
  BY <1>1 DEF ActiveItems
<1>5. CASE \A n \in {j, k} : itemStatus[n] \in {"draft", "published"}
  <2>1. {j, k} \subseteq ActiveItems(hash[j])
    BY <1>1, <1>2, <1>5 DEF ActiveItems
  <2>. QED
    BY <1>1, <1>2, <2>1 DEF DuplicatesExplained
<1>6. CASE \E n \in {j, k} : itemStatus[n] \notin {"draft", "published"}
  <2>1. i \in {j, k} /\ itemStatus[i] \notin {"draft", "published"}
    BY <1>3, <1>4, <1>6 DEF ItemInv, ItemTypeOK
  <2>2. itemStatus[i] = "archived"
    BY <1>2, <2>1 DEF ItemInv, ItemTypeOK
  <2>3. s = "published"
    BY <1>3, <1>4, <2>1, OutcomeTyped DEF ItemInv, ItemTypeOK
  <2>4. hash[i] \in revived'
    BY <2>2, <2>3 DEF UpdateStatus
  <2>. QED
    BY <1>1, <1>2, <2>1, <2>4
<1>. QED
  BY <1>5, <1>6

LEMMA DuplicatesAfterInsert ==
  ASSUME ItemInv, DuplicatesExplained, NEW e \in Editors, InsertItem(e)
  PROVE  DuplicatesExplained'
<1>1. SUFFICES ASSUME NEW j \in Items, NEW k \in Items, j # k, hash'[j] = hash'[k],
                      j \in ActiveItems(hash[j])', k \in ActiveItems(hash[j])'
               PROVE  hash'[j] \in (raced \union revived)'
  BY DEF DuplicatesExplained, ActiveItems
<1>2. PICK i \in Items : /\ itemStatus[i] = "none"
                         /\ hash' = [hash EXCEPT ![i] = ehash[e]]
                         /\ itemStatus' = [itemStatus EXCEPT ![i] = "draft"]
  BY DEF InsertItem
<1>3. raced \subseteq raced' /\ revived' = revived
  BY DEF InsertItem
<1>4. CASE i \notin {j, k}
  <2>1. hash'[j] = hash[j] /\ hash'[k] = hash[k] /\ {j, k} \subseteq ActiveItems(hash[j])
    BY <1>1, <1>2, <1>4 DEF ActiveItems, ItemInv, ItemTypeOK
  <2>. QED
    BY <1>1, <1>3, <2>1 DEF DuplicatesExplained
<1>5. ASSUME NEW n \in Items, n # i, hash'[n] = ehash[e], n \in ActiveItems(ehash[e])'
      PROVE  ehash[e] \in raced'
  <2>1. n \in ActiveItems(ehash[e])
    BY <1>2, <1>5 DEF ActiveItems, InsertItem, ItemInv, ItemTypeOK
  <2>. QED
    BY <2>1 DEF InsertItem
<1>6. CASE i \in {j, k}
  <2>1. hash'[i] = ehash[e]
    BY <1>2 DEF ItemInv, ItemTypeOK
  <2>2. hash'[j] = ehash[e] /\ hash'[k] = ehash[e] /\ ehash' = ehash
    BY <1>1, <1>6, <2>1 DEF InsertItem
  <2>3. j \in ActiveItems(ehash[e])' /\ k \in ActiveItems(ehash[e])'
    BY <1>1, <2>2 DEF ActiveItems
  <2>. QED
    BY <1>1, <1>5, <1>6, <2>2, <2>3
<1>. QED
  BY <1>4, <1>6

LEMMA DuplicatesInductive ==
  ASSUME ItemInv, DuplicatesExplained, [ItemNext]_itemVars
  PROVE  DuplicatesExplained'
<1>1. CASE UNCHANGED <<hash, itemStatus, raced, revived>>
  BY <1>1 DEF DuplicatesExplained, ActiveItems
<1>2. ASSUME NEW e \in Editors, PublishPromoted(e)
      PROVE  DuplicatesExplained'
  <2>1. eitem[e] \in Items /\ UpdateStatus(e, eitem[e], "published")
    BY <1>2 DEF PublishPromoted, ItemInv, RequestsTyped
  <2>. QED
    BY <2>1, DuplicatesAfterUpdate
<1>3. ASSUME NEW e \in Editors, NEW i \in Items, PublishItem(e, i) \/ RejectItem(e, i)
      PROVE  DuplicatesExplained'
  BY <1>3, DuplicatesAfterUpdate DEF PublishItem, RejectItem
<1>4. ASSUME NEW e \in Editors,
             LogAudit(e) \/ EditorDies(e)
               \/ \E h \in Hashes, promotes \in BOOLEAN : CheckDuplicate(e, h, promotes)
      PROVE  UNCHANGED <<hash, itemStatus, raced, revived>>
  BY <1>4 DEF LogAudit, EditorDies, CheckDuplicate
<1>5. CASE UNCHANGED itemVars
  BY <1>1, <1>5 DEF itemVars
<1>. QED
  BY <1>1, <1>2, <1>3, <1>4, <1>5, DuplicatesAfterInsert DEF ItemNext

(* Two live items of one content have their reason: both requests checked  *)
(* before either inserted, or an archived item was published again.        *)
THEOREM DuplicatesHold == ItemSpec => []DuplicatesExplained
<1>1. ItemInit => DuplicatesExplained
  BY DEF ItemInit, DuplicatesExplained, ActiveItems
<1>. QED
  BY <1>1, DuplicatesInductive, ItemInvAlways, PTL DEF ItemSpec
----------------------------------------------------------------------------
(* The audit log.  AccountedBy is the disjunction of StatusIsAudited.      *)

AboutToLog(e, i) ==
  eitem[e] = i /\ estep[e] \in DOMAIN Outcome /\ Outcome[estep[e]] = itemStatus[i]

Accounted(i) ==
  \/ i \in unlogged
  \/ \E a \in audit[i] : Outcome[a] = itemStatus[i]
  \/ \E e \in Editors : AboutToLog(e, i)

LEMMA AuditedIsAccounted ==
  StatusIsAudited <=> \A i \in Items : itemStatus[i] # "none" => Accounted(i)
  BY DEF StatusIsAudited, Accounted, AboutToLog

(* A step keeps an item accounted for if it forgets neither its entries    *)
(* nor the request that is about to log it, and leaves its status alone.   *)
LEMMA StaysAccounted ==
  ASSUME NEW i \in Items, Accounted(i), itemStatus'[i] = itemStatus[i],
         unlogged \subseteq unlogged', audit[i] \subseteq audit'[i],
         \A e \in Editors : AboutToLog(e, i) => Accounted(i)'
  PROVE  Accounted(i)'
  BY DEF Accounted

LEMMA AccountedAfterUpdate ==
  ASSUME ItemInv, StatusIsAudited, NEW e \in Editors, estep[e] \notin DOMAIN Outcome,
         NEW i \in Items, NEW s \in {"published", "rejected"}, UpdateStatus(e, i, s)
  PROVE  StatusIsAudited'
<1>1. SUFFICES ASSUME NEW j \in Items, itemStatus'[j] # "none"
               PROVE  Accounted(j)'
  BY DEF StatusIsAudited, Accounted, AboutToLog
<1>2. estep' = [estep EXCEPT ![e] = s] /\ eitem' = [eitem EXCEPT ![e] = i]
  BY DEF UpdateStatus
<1>3. itemStatus' = [itemStatus EXCEPT ![i] = Outcome[s]] /\ s \in DOMAIN Outcome
  BY OutcomeTyped DEF UpdateStatus
<1>4. CASE j = i
  <2>1. AboutToLog(e, i)'
    BY <1>2, <1>3 DEF AboutToLog, ItemInv, ItemTypeOK
  <2>. QED
    BY <1>4, <2>1 DEF Accounted
<1>5. CASE j # i
  <2>1. itemStatus'[j] = itemStatus[j] /\ Accounted(j)
    BY <1>1, <1>3, <1>5, AuditedIsAccounted DEF ItemInv, ItemTypeOK
  <2>2. ASSUME NEW d \in Editors, AboutToLog(d, j) PROVE AboutToLog(d, j)'
    <3>1. d # e
      BY <2>2 DEF AboutToLog
    <3>. QED
      BY <1>2, <2>1, <2>2, <3>1 DEF AboutToLog, ItemInv, ItemTypeOK
  <2>3. unlogged' = unlogged /\ audit' = audit
    BY DEF UpdateStatus
  <2>. QED
    BY <2>1, <2>2, <2>3 DEF Accounted
<1>. QED
  BY <1>4, <1>5

LEMMA AccountedAfterLog ==
  ASSUME ItemInv, StatusIsAudited, NEW e \in Editors, LogAudit(e)
  PROVE  StatusIsAudited'
<1>1. SUFFICES ASSUME NEW j \in Items, itemStatus'[j] # "none"
               PROVE  Accounted(j)'
  BY DEF StatusIsAudited, Accounted, AboutToLog
<1>2. itemStatus' = itemStatus /\ unlogged' = unlogged /\ Accounted(j)
  BY <1>1, AuditedIsAccounted DEF LogAudit
<1>3. audit' = [audit EXCEPT ![eitem[e]] = @ \union {estep[e]}]
  BY DEF LogAudit
<1>4. \A d \in Editors \ {e} : estep'[d] = estep[d] /\ eitem'[d] = eitem[d]
  BY DEF LogAudit, Finish, ItemInv, ItemTypeOK
<1>5. audit[j] \subseteq audit'[j]
  BY <1>3 DEF ItemInv, ItemTypeOK
<1>6. ASSUME NEW d \in Editors, AboutToLog(d, j) PROVE Accounted(j)'
  <2>1. CASE d = e
    <3>1. estep[e] \in audit'[j] /\ Outcome[estep[e]] = itemStatus'[j]
      BY <1>2, <1>3, <1>6, <2>1 DEF AboutToLog, ItemInv, ItemTypeOK
    <3>. QED
      BY <3>1 DEF Accounted
  <2>2. CASE d # e
    <3>1. AboutToLog(d, j)'
      BY <1>2, <1>4, <1>6, <2>2 DEF AboutToLog
    <3>. QED
      BY <3>1 DEF Accounted
  <2>. QED
    BY <2>1, <2>2
<1>. QED
  BY <1>2, <1>5, <1>6, StaysAccounted

LEMMA AccountedAfterDeath ==
  ASSUME ItemInv, StatusIsAudited, NEW e \in Editors, EditorDies(e)
  PROVE  StatusIsAudited'
<1>1. SUFFICES ASSUME NEW j \in Items, itemStatus'[j] # "none"
               PROVE  Accounted(j)'
  BY DEF StatusIsAudited, Accounted, AboutToLog
<1>2. itemStatus' = itemStatus /\ audit' = audit /\ unlogged \subseteq unlogged' /\ Accounted(j)
  BY <1>1, AuditedIsAccounted DEF EditorDies
<1>3. \A d \in Editors \ {e} : estep'[d] = estep[d] /\ eitem'[d] = eitem[d]
  BY DEF EditorDies, Finish, ItemInv, ItemTypeOK
<1>4. ASSUME NEW d \in Editors, AboutToLog(d, j) PROVE Accounted(j)'
  <2>1. CASE d = e
    BY <1>4, <2>1 DEF EditorDies, AboutToLog, Accounted
  <2>2. CASE d # e
    <3>1. AboutToLog(d, j)'
      BY <1>2, <1>3, <1>4, <2>2 DEF AboutToLog
    <3>. QED
      BY <3>1 DEF Accounted
  <2>. QED
    BY <2>1, <2>2
<1>. QED
  BY <1>2, <1>4, StaysAccounted

LEMMA AccountedAfterInsert ==
  ASSUME ItemInv, StatusIsAudited, NEW e \in Editors, InsertItem(e)
  PROVE  StatusIsAudited'
<1>1. SUFFICES ASSUME NEW j \in Items, itemStatus'[j] # "none"
               PROVE  Accounted(j)'
  BY DEF StatusIsAudited, Accounted, AboutToLog
<1>2. PICK i \in Items : /\ itemStatus' = [itemStatus EXCEPT ![i] = "draft"]
                         /\ eitem' = [eitem EXCEPT ![e] = i]
  BY DEF InsertItem
<1>3. estep' = [estep EXCEPT ![e] = "created"] /\ estep[e] = "inserting"
  BY DEF InsertItem
<1>4. audit' = audit /\ unlogged' = unlogged
  BY DEF InsertItem
<1>5. CASE j = i
  <2>1. AboutToLog(e, i)'
    BY <1>2, <1>3, OutcomeTyped DEF AboutToLog, ItemInv, ItemTypeOK
  <2>. QED
    BY <1>5, <2>1 DEF Accounted
<1>6. CASE j # i
  <2>1. itemStatus'[j] = itemStatus[j] /\ Accounted(j)
    BY <1>1, <1>2, <1>6, AuditedIsAccounted DEF ItemInv, ItemTypeOK
  <2>2. ASSUME NEW d \in Editors, AboutToLog(d, j) PROVE AboutToLog(d, j)'
    <3>1. d # e
      BY <1>3, <2>2, OutcomeTyped DEF AboutToLog
    <3>. QED
      BY <1>2, <1>3, <2>1, <2>2, <3>1 DEF AboutToLog, ItemInv, ItemTypeOK
  <2>. QED
    BY <1>4, <2>1, <2>2 DEF Accounted
<1>. QED
  BY <1>5, <1>6

LEMMA AccountedAfterCheck ==
  ASSUME ItemInv, StatusIsAudited, NEW e \in Editors, NEW h \in Hashes, NEW p \in BOOLEAN,
         CheckDuplicate(e, h, p)
  PROVE  StatusIsAudited'
<1>1. estep[e] \notin DOMAIN Outcome /\ estep' = [estep EXCEPT ![e] = "inserting"]
  BY OutcomeTyped DEF CheckDuplicate, NewEdit
<1>2. UNCHANGED <<itemStatus, audit, eitem, unlogged>>
  BY DEF CheckDuplicate
<1>3. ASSUME NEW j \in Items, NEW d \in Editors, AboutToLog(d, j) PROVE AboutToLog(d, j)'
  BY <1>1, <1>2, <1>3 DEF AboutToLog, ItemInv, ItemTypeOK
<1>. QED
  BY <1>2, <1>3, AuditedIsAccounted DEF Accounted, StatusIsAudited, AboutToLog

LEMMA AuditInductive ==
  ASSUME ItemInv, StatusIsAudited, [ItemNext]_itemVars
  PROVE  StatusIsAudited'
<1>1. CASE UNCHANGED itemVars
  BY <1>1 DEF itemVars, StatusIsAudited
<1>2. ASSUME NEW e \in Editors, PublishPromoted(e)
      PROVE  StatusIsAudited'
  <2>1. /\ eitem[e] \in Items /\ UpdateStatus(e, eitem[e], "published")
        /\ estep[e] \notin DOMAIN Outcome
    BY <1>2, OutcomeTyped DEF PublishPromoted, ItemInv, RequestsTyped
  <2>. QED
    BY <2>1, AccountedAfterUpdate
<1>3. ASSUME NEW e \in Editors, NEW i \in Items, PublishItem(e, i) \/ RejectItem(e, i)
      PROVE  StatusIsAudited'
  <2>1. estep[e] \notin DOMAIN Outcome
    BY <1>3, OutcomeTyped DEF PublishItem, RejectItem, NewEdit
  <2>. QED
    BY <1>3, <2>1, AccountedAfterUpdate DEF PublishItem, RejectItem
<1>. QED
  BY <1>1, <1>2, <1>3, AccountedAfterCheck, AccountedAfterInsert, AccountedAfterLog,
     AccountedAfterDeath DEF ItemNext

(* The status of every item is the outcome of an action that was logged,   *)
(* is about to be, or whose request died before it could.                  *)
THEOREM AuditHolds == ItemSpec => []StatusIsAudited
<1>1. ItemInit => StatusIsAudited
  BY DEF ItemInit, StatusIsAudited
<1>. QED
  BY <1>1, AuditInductive, ItemInvAlways, PTL DEF ItemSpec

(* Both together, as the run checks them.                                  *)
THEOREM ItemsAlwaysHold == ItemSpec => []ItemsHold
<1>1. DuplicatesExplained /\ StatusIsAudited => ItemsHold
  BY DEF ItemsHold
<1>. QED
  BY <1>1, DuplicatesHold, AuditHolds, PTL
----------------------------------------------------------------------------
(* The retrieval pipeline: whatever is answered was in the index lately,   *)
(* and its score is a distance.                                            *)

LEMMA RetrievalNumbers ==
  /\ TimeToLive \in Nat /\ MaxClock \in Nat /\ MaxFailedSearches \in Nat
  /\ GateAt \in Nat /\ SimilarAt \in Nat /\ GateAt <= SimilarAt
  BY RetrievalAssumption

IndexTyped ==
  /\ caching \in {"none", "exact", "similar"}
  /\ chunksIn \subseteq Chunks /\ IsFiniteSet(chunksIn)
  /\ wallClock \in 0 .. MaxClock
  /\ lastIn \in [Chunks -> -TimeToLive .. MaxClock]
  /\ \A c \in Chunks : lastIn[c] <= wallClock
  /\ failedSearches \in 0 .. MaxFailedSearches
  /\ cached = [k \in Askers \X Goals |-> cached[k]]

(* The chunk was in the index at t or later.                               *)
Since(c, t) == c \in chunksIn \/ t <= lastIn[c]

(* An item has the distance of its chunk from a query.                     *)
Scored(i) == /\ i.chunk \in Chunks
             /\ \E q \in DOMAIN Distance : i.score = Distance[q][i.chunk]

(* What a retrieval has found so far, it has found since it began.         *)
SearchStands(s) ==
  /\ s \in Searches /\ s.from <= wallClock
  /\ (s.next = 0 \/ s.similar) => caching = "similar"
  /\ s.similar => s.items # {} /\ \A i \in s.items : i.score >= GateAt
  /\ IsFiniteSet(s.items)
  /\ \A i \in s.items : Scored(i) /\ Since(i.chunk, s.from)

(* r has its type, and a chunk of it that is as far as r says, and far     *)
(* enough for the gate.                                                    *)
Holds(r) ==
  /\ r \in Results
  /\ r.chunks # {} =>
       \E c \in r.chunks, q \in DOMAIN Distance : Distance[q][c] = r.score /\ r.score >= GateAt

(* What is kept was found when it says.  What a hit answers may have left  *)
(* the index since it was kept.                                            *)
KeptStands(r) ==
  /\ Holds(r)
  /\ r.at <= wallClock
  /\ \A c \in r.chunks : Since(c, r.at - r.took)

AnswerStands(r) ==
  /\ Holds(r)
  /\ r.at <= wallClock
  /\ \A c \in r.chunks :
       \/ Since(c, r.at - r.took)
       \/ caching # "none" /\ r.at - lastIn[c] < TimeToLive + r.took

RetrievalInv ==
  /\ IndexTyped
  /\ searching # NoResult => SearchStands(searching)
  /\ \A k \in Askers \X Goals : cached[k] # NoResult =>
       caching # "none" /\ KeptStands(cached[k])
  /\ retrieved # NoResult => AnswerStands(retrieved)

LEMMA RetrievalInvInitially == RetrievalInit => RetrievalInv
<1>. SUFFICES ASSUME RetrievalInit PROVE RetrievalInv
  OBVIOUS
<1>1. /\ 0 \in 0 .. MaxClock /\ 0 \in 0 .. MaxFailedSearches
      /\ -TimeToLive \in -TimeToLive .. MaxClock /\ -TimeToLive <= 0
  BY RetrievalNumbers
<1>2. /\ cached = [k \in Askers \X Goals |-> cached[k]]
      /\ \A k \in Askers \X Goals : cached[k] = NoResult
  BY DEF RetrievalInit
<1>. QED
  BY <1>1, <1>2, FS_EmptySet DEF RetrievalInit, RetrievalInv, IndexTyped

(* A later state of index and clock, as every step leaves one, takes away  *)
(* nothing from what was found before.                                     *)
Later ==
  /\ wallClock <= wallClock'
  /\ caching' = caching
  /\ \A c \in Chunks : /\ lastIn[c] <= lastIn'[c]
                       /\ c \in chunksIn \ chunksIn' => wallClock <= lastIn'[c]

LEMMA SinceStays ==
  ASSUME IndexTyped, IndexTyped', Later, NEW c \in Chunks, NEW t \in Int, t <= wallClock,
         Since(c, t)
  PROVE  c \in chunksIn' \/ t <= lastIn'[c]
<1>1. /\ lastIn[c] \in Int /\ lastIn'[c] \in Int /\ wallClock \in Int
      /\ lastIn[c] <= lastIn'[c]
      /\ c \in chunksIn \ chunksIn' => wallClock <= lastIn'[c]
  BY RetrievalNumbers DEF IndexTyped, Later
<1>. QED
  BY <1>1 DEF Since

LEMMA ResultNumbers ==
  ASSUME NEW r, Holds(r)
  PROVE  r.at \in Nat /\ r.took \in Nat /\ r.at - r.took \in Int /\ r.chunks \subseteq Chunks
         /\ r.at - r.took <= r.at
  BY DEF Holds, Results

(* The steps of the surroundings.                                          *)
LEMMA SurroundingsKept ==
  ASSUME RetrievalInv, IndexTyped', Later, UNCHANGED <<searching, retrieved>>,
         \A k \in Askers \X Goals : cached'[k] \in {cached[k], NoResult}
  PROVE  RetrievalInv'
<1>1. wallClock \in Int /\ wallClock' \in Int /\ wallClock <= wallClock' /\ caching' = caching
  BY RetrievalNumbers DEF RetrievalInv, IndexTyped, Later
<1>2. \A c \in Chunks : /\ lastIn[c] \in Int /\ lastIn'[c] \in Int
                        /\ lastIn[c] <= lastIn'[c]
  BY RetrievalNumbers DEF RetrievalInv, IndexTyped, Later
<1>3. ASSUME searching # NoResult
      PROVE  SearchStands(searching)'
  <2>1. SearchStands(searching) /\ searching.from \in Int /\ searching.from <= wallClock
    BY <1>3 DEF RetrievalInv, SearchStands, Searches
  <2>2. \A i \in searching.items :
          Scored(i) /\ (i.chunk \in chunksIn' \/ searching.from <= lastIn'[i.chunk])
    BY <2>1, SinceStays DEF SearchStands, Scored, RetrievalInv
  <2>3. searching.from <= wallClock'
    BY <1>1, <2>1
  <2>. QED
    BY <1>1, <2>1, <2>2, <2>3 DEF SearchStands, Scored, Since
<1>4. ASSUME NEW k \in Askers \X Goals, cached'[k] # NoResult
      PROVE  caching' # "none" /\ KeptStands(cached[k])'
  <2>1. cached'[k] = cached[k] /\ caching # "none" /\ KeptStands(cached[k])
    BY <1>4 DEF RetrievalInv
  <2>. DEFINE r == cached[k]
  <2>2. Holds(r) /\ r.at <= wallClock /\ r.at \in Int /\ r.at <= wallClock'
    BY <1>1, <2>1, ResultNumbers DEF KeptStands
  <2>3. \A c \in r.chunks : c \in chunksIn' \/ r.at - r.took <= lastIn'[c]
    <3>. SUFFICES ASSUME NEW c \in r.chunks
                  PROVE  c \in chunksIn' \/ r.at - r.took <= lastIn'[c]
      OBVIOUS
    <3>1. c \in Chunks /\ r.at - r.took \in Int /\ r.at - r.took <= wallClock
      BY <1>1, <2>2, ResultNumbers
    <3>2. Since(c, r.at - r.took)
      BY <2>1 DEF KeptStands
    <3>. QED
      BY <3>1, <3>2, SinceStays DEF RetrievalInv
  <2>. QED
    BY <1>1, <2>1, <2>2, <2>3 DEF KeptStands, Holds, Since
<1>5. ASSUME retrieved # NoResult
      PROVE  AnswerStands(retrieved)'
  <2>. DEFINE r == retrieved
  <2>1. AnswerStands(r)
    BY <1>5 DEF RetrievalInv
  <2>2. Holds(r) /\ r.at <= wallClock /\ r.at \in Int /\ r.took \in Int /\ r.at <= wallClock'
    BY <1>1, <2>1, ResultNumbers DEF AnswerStands
  <2>3. \A c \in r.chunks :
          \/ c \in chunksIn' \/ r.at - r.took <= lastIn'[c]
          \/ caching # "none" /\ r.at - lastIn'[c] < TimeToLive + r.took
    <3>. SUFFICES ASSUME NEW c \in r.chunks
                  PROVE  \/ c \in chunksIn' \/ r.at - r.took <= lastIn'[c]
                         \/ caching # "none" /\ r.at - lastIn'[c] < TimeToLive + r.took
      OBVIOUS
    <3>1. c \in Chunks /\ r.at - r.took \in Int /\ r.at - r.took <= wallClock
      BY <1>1, <2>2, ResultNumbers
    <3>2. CASE Since(c, r.at - r.took)
      BY <3>1, <3>2, SinceStays DEF RetrievalInv
    <3>3. CASE caching # "none" /\ r.at - lastIn[c] < TimeToLive + r.took
      BY <1>2, <2>2, <3>1, <3>3, RetrievalNumbers
    <3>. QED
      BY <2>1, <3>2, <3>3 DEF AnswerStands
  <2>. QED
    BY <1>1, <2>1, <2>2, <2>3 DEF AnswerStands, Holds, Since
<1>. QED
  BY <1>3, <1>4, <1>5 DEF RetrievalInv

(* The steps of a retrieval leave index and clock alone.                   *)
LEMMA RetrievingKept ==
  ASSUME RetrievalInv, UNCHANGED <<caching, chunksIn, wallClock, lastIn>>,
         failedSearches' \in 0 .. MaxFailedSearches,
         searching' # NoResult => SearchStands(searching'),
         cached' = [k \in Askers \X Goals |-> cached'[k]],
         \A k \in Askers \X Goals : cached'[k] # NoResult =>
           cached'[k] = cached[k] \/ (caching # "none" /\ KeptStands(cached'[k])),
         retrieved' # NoResult => AnswerStands(retrieved')
  PROVE  RetrievalInv'
<1>1. IndexTyped'
  BY DEF RetrievalInv, IndexTyped
<1>2. searching' # NoResult => SearchStands(searching)'
  BY DEF SearchStands, Scored, Since
<1>3. ASSUME NEW k \in Askers \X Goals, cached'[k] # NoResult
      PROVE  caching' # "none" /\ KeptStands(cached[k])'
  <2>1. caching # "none" /\ KeptStands(cached'[k])
    BY <1>3 DEF RetrievalInv
  <2>. QED
    BY <2>1 DEF KeptStands, Holds, Since
<1>4. retrieved' # NoResult => AnswerStands(retrieved)'
  BY DEF AnswerStands, Holds, Since
<1>. QED
  BY <1>1, <1>2, <1>3, <1>4 DEF RetrievalInv

LEMMA HitKept ==
  ASSUME RetrievalInv, NEW w \in Askers, NEW g \in Goals, Hit(w, g)
  PROVE  RetrievalInv'
<1>. DEFINE r == cached[<<w, g>>]
            now == [r EXCEPT !.at = wallClock]
<1>1. /\ r # NoResult /\ wallClock - r.at < TimeToLive /\ retrieved' = now
      /\ UNCHANGED <<caching, chunksIn, searching, cached, wallClock, lastIn, failedSearches>>
      /\ searching = NoResult
  BY DEF Hit, Fresh
<1>2. caching # "none" /\ KeptStands(r)
  BY <1>1 DEF RetrievalInv
<1>3. Holds(r) /\ r.at \in Nat /\ r.took \in Nat /\ r.chunks \subseteq Chunks
      /\ r.at - r.took \in Int
  BY <1>2, ResultNumbers DEF KeptStands
<1>4. wallClock \in Int /\ wallClock \in 0 .. MaxClock
  BY RetrievalNumbers DEF RetrievalInv, IndexTyped
<1>5. /\ now = [chunks |-> r.chunks, score |-> r.score, at |-> wallClock, took |-> r.took]
      /\ now \in Results
  BY <1>3, <1>4 DEF Holds, Results
<1>. HIDE DEF now
<1>6. now.chunks = r.chunks /\ now.score = r.score /\ now.at = wallClock /\ now.took = r.took
  BY <1>5
<1>7. Holds(now)
  BY <1>3, <1>5, <1>6 DEF Holds
<1>8. ASSUME NEW c \in now.chunks
      PROVE  \/ Since(c, now.at - now.took)
             \/ caching # "none" /\ now.at - lastIn[c] < TimeToLive + now.took
  <2>1. Since(c, r.at - r.took) /\ c \in Chunks
    BY <1>2, <1>3, <1>6, <1>8 DEF KeptStands
  <2>2. lastIn[c] \in Int
    BY <2>1, RetrievalNumbers DEF RetrievalInv, IndexTyped
  <2>3. r.at - r.took <= lastIn[c] => wallClock - lastIn[c] < TimeToLive + r.took
    BY <1>1, <1>3, <1>4, <2>2, RetrievalNumbers
  <2>. QED
    BY <1>2, <1>6, <2>1, <2>3 DEF Since
<1>9. AnswerStands(now)
  BY <1>4, <1>6, <1>7, <1>8 DEF AnswerStands
<1>. QED
  BY <1>1, <1>9, RetrievingKept DEF RetrievalInv, IndexTyped

LEMMA MissKept ==
  ASSUME RetrievalInv, NEW w \in Askers, NEW g \in Goals, Miss(w, g)
  PROVE  RetrievalInv'
<1>. DEFINE s == [asker |-> w, goal |-> g, next |-> IF caching = "similar" THEN 0 ELSE 1,
                  similar |-> FALSE, items |-> {}, from |-> wallClock]
<1>1. /\ searching' = s /\ cached' = [cached EXCEPT ![<<w, g>>] = NoResult]
      /\ UNCHANGED <<caching, chunksIn, wallClock, lastIn, retrieved, failedSearches>>
  BY DEF Miss
<1>2. wallClock \in 0 .. MaxClock /\ wallClock \in Int
  BY RetrievalNumbers DEF RetrievalInv, IndexTyped
<1>3. s \in Searches
  BY <1>2 DEF Searches
<1>4. /\ s.from = wallClock /\ s.items = {} /\ s.similar = FALSE
      /\ s.next = IF caching = "similar" THEN 0 ELSE 1
  OBVIOUS
<1>. HIDE DEF s
<1>5. SearchStands(s)
  BY <1>2, <1>3, <1>4, FS_EmptySet DEF SearchStands
<1>6. /\ cached' = [k \in Askers \X Goals |-> cached'[k]]
      /\ \A k \in Askers \X Goals : cached'[k] \in {cached[k], NoResult}
  BY <1>1 DEF RetrievalInv, IndexTyped
<1>. QED
  BY <1>1, <1>5, <1>6, RetrievingKept DEF RetrievalInv, IndexTyped

(* The searches of a retrieval.                                            *)
LEMMA SearchingKept ==
  ASSUME RetrievalInv, searching' # NoResult => SearchStands(searching'),
         failedSearches' \in 0 .. MaxFailedSearches,
         UNCHANGED <<caching, chunksIn, cached, wallClock, lastIn, retrieved>>
  PROVE  RetrievalInv'
  BY RetrievingKept DEF RetrievalInv, IndexTyped

LEMMA ScoresTyped ==
  /\ Scores \subseteq Nat
  /\ \A q \in DOMAIN Distance, c \in Chunks : Distance[q][c] \in Scores
<1>1. \A q \in DOMAIN Distance, c \in Chunks : Distance[q][c] \in Nat
  BY RetrievalAssumption
<1>. QED
  BY <1>1 DEF Scores

LEMMA LookUpKept ==
  ASSUME RetrievalInv, LookUp
  PROVE  RetrievalInv'
<1>. DEFINE s == searching
            g == searching.goal
<1>1. /\ SearchStands(s) /\ s \in Searches /\ s.from <= wallClock /\ g \in Goals
      /\ UNCHANGED <<caching, chunksIn, cached, wallClock, lastIn, retrieved, failedSearches>>
  BY DEF LookUp, RetrievalInv, SearchStands, Searches
<1>2. ~s.similar /\ s.next = 0 /\ caching = "similar"
  <2>1. 0 \in Unasked
    BY DEF LookUp
  <2>2. ~s.similar /\ 0 \in s.next .. 3 /\ s.next \in 0 .. 4
    BY <1>1, <2>1 DEF Unasked, Searches
  <2>3. s.next = 0
    BY <2>2
  <2>. QED
    BY <1>1, <2>2, <2>3 DEF SearchStands
<1>3. ASSUME NEW t, t = [s EXCEPT !.next = 1]
      PROVE  SearchStands(t)
  <2>1. /\ t \in Searches /\ t.from = s.from /\ t.items = s.items /\ t.similar = s.similar
        /\ t.next = 1
    BY <1>1, <1>3 DEF Searches
  <2>. QED
    BY <1>1, <1>2, <2>1 DEF SearchStands
<1>4. ASSUME NEW c \in SimilarChunks(g), NEW i, i = [chunk |-> c, score |-> Distance[g][c]],
             NEW t, t = [s EXCEPT !.similar = TRUE, !.items = {i}]
      PROVE  SearchStands(t)
  <2>1. c \in chunksIn /\ c \in Chunks /\ Distance[g][c] >= SimilarAt
    BY <1>4 DEF SimilarChunks, SearchSimilar, RetrievalInv, IndexTyped
  <2>2. g \in DOMAIN Distance
    BY <1>1, RetrievalAssumption
  <2>3. Distance[g][c] \in Scores /\ Distance[g][c] \in Nat
    BY <2>1, <2>2, ScoresTyped
  <2>4. i.chunk = c /\ i.score = Distance[g][c] /\ i \in FoundItems
    BY <1>4, <2>1, <2>3 DEF FoundItems
  <2>5. /\ t \in Searches /\ t.from = s.from /\ t.items = {i} /\ t.similar = TRUE
        /\ t.next = s.next
    BY <1>1, <1>4, <2>4 DEF Searches
  <2>6. i.score >= GateAt
    BY <2>1, <2>3, <2>4, RetrievalNumbers
  <2>7. Scored(i) /\ Since(i.chunk, t.from)
    BY <2>1, <2>2, <2>4 DEF Scored, Since
  <2>8. IsFiniteSet({i})
    BY FS_Singleton
  <2>. QED
    BY <1>1, <1>2, <2>5, <2>6, <2>7, <2>8 DEF SearchStands
<1>5. SearchStands(searching')
  <2>1. CASE searching' = [s EXCEPT !.next = 1]
    BY <1>3, <2>1
  <2>2. ASSUME NEW c \in SimilarChunks(g),
               searching' = [s EXCEPT !.similar = TRUE,
                                      !.items = {[chunk |-> c, score |-> Distance[g][c]]}]
        PROVE  SearchStands(searching')
    BY <1>4, <2>2
  <2>. QED
    BY <2>1, <2>2 DEF LookUp
<1>6. failedSearches' \in 0 .. MaxFailedSearches
  BY <1>1 DEF RetrievalInv, IndexTyped
<1>. QED
  BY <1>1, <1>5, <1>6, SearchingKept

LEMMA WithTyped ==
  ASSUME NEW queries \in Seq(DOMAIN Distance), NEW q \in DOMAIN Distance \union {NoQuery}
  PROVE  With(queries, q) \in Seq(DOMAIN Distance)
<1>1. CASE q \in Range(queries) \union {NoQuery}
  BY <1>1 DEF With
<1>2. CASE q \notin Range(queries) \union {NoQuery}
  <2>1. q \in DOMAIN Distance
    BY <1>2
  <2>2. Append(queries, q) \in Seq(DOMAIN Distance)
    BY <2>1
  <2>. QED
    BY <1>2, <2>2 DEF With
<1>. QED
  BY <1>1, <1>2

LEMMA VariantsTyped ==
  ASSUME NEW g \in Goals
  PROVE  /\ Variants(g) \in Seq(DOMAIN Distance)
         /\ \A v \in DOMAIN Variants(g) : v \in Nat /\ Variants(g)[v] \in DOMAIN Distance
<1>1. <<g>> \in Seq(DOMAIN Distance)
  BY RetrievalAssumption
<1>2. /\ AliasQuery[g] \in DOMAIN Distance \union {NoQuery}
      /\ SceneQuery[g] \in DOMAIN Distance \union {NoQuery}
      /\ TokenQuery[g] \in DOMAIN Distance \union {NoQuery}
  BY RetrievalAssumption
<1>3. Variants(g) \in Seq(DOMAIN Distance)
  BY <1>1, <1>2, WithTyped DEF Variants
<1>. HIDE DEF Variants
<1>. QED
  BY <1>3

(* What a query adds is in the index, with its distance from the query.    *)
LEMMA AddStands ==
  ASSUME IndexTyped, NEW items \in SUBSET FoundItems, IsFiniteSet(items), NEW from,
         \A i \in items : Scored(i) /\ Since(i.chunk, from),
         NEW q \in DOMAIN Distance
  PROVE  /\ Add(items, q) \in SUBSET FoundItems /\ IsFiniteSet(Add(items, q))
         /\ \A i \in Add(items, q) : Scored(i) /\ Since(i.chunk, from)
<1>. DEFINE new == SearchSimilar(q, TopK) \ {i.chunk : i \in items}
            found == {[chunk |-> c, score |-> Distance[q][c]] : c \in new}
            f == [c \in new |-> [chunk |-> c, score |-> Distance[q][c]]]
<1>1. Add(items, q) = items \union found
  BY DEF Add
<1>2. new \subseteq chunksIn /\ new \subseteq Chunks
  BY DEF SearchSimilar, IndexTyped
<1>3. IsFiniteSet(new)
  <2>. HIDE DEF new
  <2>. QED
    BY <1>2, FS_Subset DEF IndexTyped
<1>. HIDE DEF new
<1>4. f \in Surjection(new, found)
  BY DEF Surjection
<1>5. \A i \in found : i \in FoundItems /\ Scored(i) /\ Since(i.chunk, from)
  BY <1>2, ScoresTyped DEF FoundItems, Scored, Since
<1>. HIDE DEF found, f
<1>6. IsFiniteSet(found)
  BY <1>3, <1>4, FS_Surjection
<1>. QED
  BY <1>1, <1>5, <1>6, FS_Union

LEMMA SearchNextKept ==
  ASSUME RetrievalInv, SearchNext
  PROVE  RetrievalInv'
<1>. DEFINE s == searching
            q == Variants(searching.goal)[searching.next]
            t == [s EXCEPT !.next = @ + 1, !.items = Add(@, q)]
<1>1. /\ SearchStands(s) /\ s \in Searches /\ s.from <= wallClock
      /\ s.goal \in Goals /\ s.items \in SUBSET FoundItems /\ s.next \in 0 .. 4
      /\ searching' = t
      /\ UNCHANGED <<caching, chunksIn, cached, wallClock, lastIn, retrieved, failedSearches>>
  BY DEF SearchNext, RetrievalInv, SearchStands, Searches
<1>2. /\ ~s.similar /\ s.next \in 1 .. 3 /\ s.next \in DOMAIN Variants(s.goal)
  <2>. DEFINE D == DOMAIN Variants(s.goal)
              n == Len(Variants(s.goal))
  <2>1. D = 1 .. n /\ n \in Nat
    BY <1>1, VariantsTyped
  <2>. HIDE DEF n
  <2>2. ~s.similar /\ Unasked = (s.next .. 3) \intersect ({0} \union D)
    BY DEF SearchNext, Unasked
  <2>3. 0 \notin Unasked /\ Unasked # {}
    BY DEF SearchNext
  <2>. HIDE DEF D
  <2>4. PICK v \in Unasked : TRUE
    BY <2>3
  <2>5. v \in s.next .. 3 /\ v \in 1 .. n
    BY <2>1, <2>2, <2>3, <2>4
  <2>6. s.next # 0
    <3>1. s.next = 0 => 0 \in s.next .. 3
      OBVIOUS
    <3>. QED
      BY <2>2, <2>3, <3>1
  <2>7. s.next \in 1 .. 3 /\ s.next \in 1 .. n
    BY <1>1, <2>1, <2>5, <2>6
  <2>. QED
    BY <2>1, <2>2, <2>7 DEF D
<1>3. q \in DOMAIN Distance
  BY <1>1, <1>2, VariantsTyped
<1>. HIDE DEF q
<1>4. /\ Add(s.items, q) \in SUBSET FoundItems /\ IsFiniteSet(Add(s.items, q))
      /\ \A i \in Add(s.items, q) : Scored(i) /\ Since(i.chunk, s.from)
  BY <1>1, <1>3, AddStands DEF SearchStands, RetrievalInv
<1>5. s.next + 1 \in 2 .. 4
  BY <1>2
<1>6. /\ t \in Searches /\ t.from = s.from /\ t.items = Add(s.items, q)
      /\ t.similar = s.similar /\ t.next = s.next + 1
  <2>1. PICK items \in SUBSET FoundItems, n \in 0 .. 4 :
          items = Add(s.items, q) /\ n = s.next + 1
    BY <1>4, <1>5
  <2>2. t = [s EXCEPT !.next = n, !.items = items]
    BY <2>1
  <2>. HIDE DEF t
  <2>3. t \in Searches
    BY <1>1, <2>1, <2>2 DEF Searches
  <2>4. t.from = s.from /\ t.items = items /\ t.similar = s.similar /\ t.next = n
    BY <1>1, <2>2 DEF Searches
  <2>. QED
    BY <2>1, <2>3, <2>4
<1>. HIDE DEF t
<1>7. SearchStands(t)
  BY <1>1, <1>2, <1>4, <1>5, <1>6 DEF SearchStands
<1>8. failedSearches' \in 0 .. MaxFailedSearches
  BY <1>1 DEF RetrievalInv, IndexTyped
<1>. QED
  BY <1>1, <1>7, <1>8, SearchingKept

LEMMA SearchFailsKept ==
  ASSUME RetrievalInv, SearchFails
  PROVE  RetrievalInv'
<1>. DEFINE s == searching
            t == [s EXCEPT !.next = @ + 1]
<1>1. /\ SearchStands(s) /\ s \in Searches /\ s.from <= wallClock /\ s.next \in 0 .. 4
      /\ searching' = t /\ Unasked # {}
      /\ UNCHANGED <<caching, chunksIn, cached, wallClock, lastIn, retrieved>>
  BY DEF SearchFails, RetrievalInv, SearchStands, Searches
<1>2. ~s.similar /\ s.next \in 0 .. 3
  <2>1. ~s.similar /\ s.next .. 3 # {}
    BY <1>1 DEF Unasked
  <2>. QED
    BY <1>1, <2>1
<1>3. /\ t \in Searches /\ t.from = s.from /\ t.items = s.items /\ t.similar = s.similar
      /\ t.next = s.next + 1
  BY <1>1, <1>2 DEF Searches
<1>. HIDE DEF t
<1>4. t.next # 0
  BY <1>2, <1>3
<1>5. SearchStands(t)
  BY <1>1, <1>2, <1>3, <1>4 DEF SearchStands
<1>6. failedSearches' \in 0 .. MaxFailedSearches
  BY RetrievalNumbers DEF SearchFails, RetrievalInv, IndexTyped
<1>. QED
  BY <1>1, <1>5, <1>6, SearchingKept

(* The best score of some found items is one of them.                      *)
LEMMA BestIsScored ==
  ASSUME NEW items, IsFiniteSet(items), \A i \in items : Scored(i)
  PROVE  /\ BestScore(items) \in Scores \union {0}
         /\ items # {} => \E i \in items : i.score = BestScore(items)
<1>. DEFINE marks == {i.score : i \in items}
            f == [i \in items |-> i.score]
<1>1. marks \subseteq Scores
  BY ScoresTyped DEF Scored
<1>2. f \in Surjection(items, marks)
  BY DEF Surjection
<1>3. IsFiniteSet(marks \union {0})
  <2>. HIDE DEF marks, f
  <2>. QED
    BY <1>2, FS_Surjection, FS_AddElement
<1>4. marks \union {0} \in SUBSET Int
  <2>. HIDE DEF marks
  <2>1. \A x \in marks : x \in Nat
    BY <1>1, ScoresTyped
  <2>. QED
    BY <2>1
<1>. HIDE DEF f
<1>5. /\ BestScore(items) \in marks \union {0}
      /\ \A y \in marks \union {0} : BestScore(items) >= y
  <2>1. \E x \in marks \union {0} : \A y \in marks \union {0} : x >= y
    <3>. HIDE DEF marks
    <3>. QED
      BY <1>3, <1>4, ExtremesExist
  <2>. QED
    BY <2>1 DEF BestScore, Max
<1>6. items # {} => BestScore(items) \in marks
  <2>. SUFFICES ASSUME NEW i \in items PROVE BestScore(items) \in marks
    OBVIOUS
  <2>1. i.score \in marks
    OBVIOUS
  <2>. HIDE DEF marks
  <2>2. i.score \in Nat /\ BestScore(items) >= i.score
    BY <1>1, <1>5, <2>1, ScoresTyped
  <2>3. BestScore(items) = 0 => i.score = 0
    BY <2>2
  <2>. QED
    BY <1>5, <2>1, <2>3
<1>. QED
  BY <1>1, <1>5, <1>6

(* What passes the gate at the end of a retrieval was found since it began.*)
LEMMA ResultStands ==
  ASSUME RetrievalInv, searching # NoResult, NEW items, items \subseteq searching.items,
         NEW passed, passed = IF Gate(items) THEN items ELSE {}
  PROVE  /\ KeptStands(Result(passed, BestScore(items)))
         /\ AnswerStands(Result(passed, BestScore(items)))
<1>. DEFINE best == BestScore(items)
            r == Result(passed, best)
            from == searching.from
<1>1. /\ SearchStands(searching) /\ from \in 0 .. MaxClock /\ from <= wallClock
      /\ wallClock \in 0 .. MaxClock
  BY DEF RetrievalInv, IndexTyped, SearchStands, Searches
<1>2. IsFiniteSet(items) /\ \A i \in items : Scored(i) /\ Since(i.chunk, from)
  BY <1>1, FS_Subset DEF SearchStands
<1>3. best \in Scores \union {0} /\ (items # {} => \E i \in items : i.score = best)
  BY <1>2, BestIsScored
<1>4. /\ r = [chunks |-> {i.chunk : i \in passed}, score |-> best, at |-> wallClock,
              took |-> wallClock - from]
      /\ passed # {} => passed = items /\ items # {} /\ best >= GateAt
  BY DEF Result, Gate
<1>5. \A i \in passed : Scored(i) /\ Since(i.chunk, from)
  BY <1>2
<1>. HIDE DEF best, r
<1>6. r \in Results
  <2>1. {i.chunk : i \in passed} \subseteq Chunks
    BY <1>5 DEF Scored
  <2>2. wallClock - from \in 0 .. MaxClock
    BY <1>1, RetrievalNumbers
  <2>. QED
    BY <1>1, <1>3, <1>4, <2>1, <2>2 DEF Results
<1>7. ASSUME r.chunks # {}
      PROVE  \E c \in r.chunks, q \in DOMAIN Distance :
               Distance[q][c] = r.score /\ r.score >= GateAt
  <2>1. passed # {} /\ r.score = best /\ r.chunks = {i.chunk : i \in passed}
    BY <1>4, <1>7
  <2>2. PICK i \in passed : i.score = best
    BY <1>3, <1>4, <2>1
  <2>3. PICK q \in DOMAIN Distance : i.score = Distance[q][i.chunk]
    BY <1>5 DEF Scored
  <2>. QED
    BY <1>4, <2>1, <2>2, <2>3
<1>8. Holds(r)
  BY <1>6, <1>7 DEF Holds
<1>9. /\ r.at = wallClock /\ r.at - r.took = from /\ r.at <= wallClock
      /\ \A c \in r.chunks : Since(c, from)
  BY <1>1, <1>4, <1>5, RetrievalNumbers
<1>10. \A c \in r.chunks : Since(c, r.at - r.took)
  BY <1>9
<1>11. KeptStands(r) /\ AnswerStands(r)
  BY <1>8, <1>9, <1>10 DEF KeptStands, AnswerStands
<1>. QED
  BY <1>11 DEF best, r

LEMMA ReplyKept ==
  ASSUME RetrievalInv, searching # NoResult, NEW r, KeptStands(r), AnswerStands(r),
         NEW kept, kept => caching # "none", Reply(r, kept)
  PROVE  RetrievalInv'
<1>. DEFINE k == <<searching.asker, searching.goal>>
<1>1. k \in Askers \X Goals
  BY DEF RetrievalInv, SearchStands, Searches
<1>2. /\ retrieved' = r /\ searching' = NoResult
      /\ cached' = [cached EXCEPT ![k] = IF kept THEN r ELSE @]
      /\ UNCHANGED <<caching, chunksIn, wallClock, lastIn, failedSearches>>
  BY DEF Reply
<1>. HIDE DEF k
<1>3. /\ cached' = [j \in Askers \X Goals |-> cached'[j]]
      /\ \A j \in Askers \X Goals : cached'[j] = IF kept /\ j = k THEN r ELSE cached[j]
  BY <1>1, <1>2 DEF RetrievalInv, IndexTyped
<1>. QED
  BY <1>2, <1>3, RetrievingKept DEF RetrievalInv, IndexTyped

LEMMA ConcludeKept ==
  ASSUME RetrievalInv, Conclude
  PROVE  RetrievalInv'
<1>1. searching # NoResult /\ SearchStands(searching)
  BY DEF Conclude, RetrievalInv
<1>2. CASE searching.similar
  <2>. DEFINE items == searching.items
  <2>1. /\ items # {} /\ \A i \in items : i.score >= GateAt
        /\ IsFiniteSet(items) /\ \A i \in items : Scored(i)
        /\ caching = "similar"
    BY <1>1, <1>2 DEF SearchStands
  <2>2. Gate(items)
    BY <2>1, BestIsScored DEF Gate
  <2>3. Reply(Result(items, BestScore(items)), TRUE)
    BY <1>2 DEF Conclude
  <2>4. /\ KeptStands(Result(items, BestScore(items)))
        /\ AnswerStands(Result(items, BestScore(items)))
    BY <1>1, <2>2, ResultStands
  <2>. QED
    BY <1>1, <2>1, <2>3, <2>4, ReplyKept
<1>3. CASE ~searching.similar
  <2>1. PICK items \in Reranked(searching.items) :
          Reply(Result(IF Gate(items) THEN items ELSE {}, BestScore(items)),
                caching # "none" /\ Gate(items) /\ BestScore(items) >= StoreAt)
    BY <1>3 DEF Conclude
  <2>2. items \subseteq searching.items
    BY DEF Reranked
  <2>3. PICK passed : passed = IF Gate(items) THEN items ELSE {}
    OBVIOUS
  <2>4. /\ KeptStands(Result(passed, BestScore(items)))
        /\ AnswerStands(Result(passed, BestScore(items)))
    BY <1>1, <2>2, <2>3, ResultStands
  <2>. QED
    BY <1>1, <2>1, <2>3, <2>4, ReplyKept
<1>. QED
  BY <1>2, <1>3

LEMMA RetrievalInvKept ==
  ASSUME RetrievalInv, [RetrievalNext]_retrievalVars
  PROVE  RetrievalInv'
<1>1. CASE UNCHANGED retrievalVars
  <2>1. IndexTyped' /\ Later
    BY <1>1, RetrievalNumbers DEF retrievalVars, Later, RetrievalInv, IndexTyped
  <2>. QED
    BY <1>1, <2>1, SurroundingsKept DEF retrievalVars
<1>2. CASE ClearCache
  <2>1. /\ cached' = [k \in Askers \X Goals |-> NoResult]
        /\ cached' = [k \in Askers \X Goals |-> cached'[k]]
    BY <1>2 DEF ClearCache, RetrievalInv, IndexTyped
  <2>2. IndexTyped' /\ Later
    BY <1>2, <2>1, RetrievalNumbers DEF ClearCache, Later, RetrievalInv, IndexTyped
  <2>. QED
    BY <1>2, <2>1, <2>2, SurroundingsKept DEF ClearCache
<1>3. ASSUME NEW c \in Chunks, AddChunk(c)
      PROVE  RetrievalInv'
  <2>1. IsFiniteSet(chunksIn')
    BY <1>3, FS_AddElement DEF AddChunk, RetrievalInv, IndexTyped
  <2>2. IndexTyped' /\ Later
    BY <1>3, <2>1, RetrievalNumbers DEF AddChunk, Later, RetrievalInv, IndexTyped
  <2>. QED
    BY <1>3, <2>2, SurroundingsKept DEF AddChunk
<1>4. ASSUME NEW c \in Chunks, RemoveChunk(c)
      PROVE  RetrievalInv'
  <2>1. IsFiniteSet(chunksIn')
    BY <1>4, FS_RemoveElement DEF RemoveChunk, RetrievalInv, IndexTyped
  <2>2. lastIn' \in [Chunks -> -TimeToLive .. MaxClock]
    BY <1>4, RetrievalNumbers DEF RemoveChunk, RetrievalInv, IndexTyped
  <2>3. /\ wallClock' = wallClock /\ wallClock \in Int
        /\ \A d \in Chunks : lastIn[d] \in Int /\ lastIn[d] <= wallClock
        /\ \A d \in Chunks : lastIn'[d] = IF d = c THEN wallClock ELSE lastIn[d]
    BY <1>4, RetrievalNumbers DEF RemoveChunk, RetrievalInv, IndexTyped
  <2>4. \A d \in Chunks : lastIn[d] <= lastIn'[d] /\ lastIn'[d] <= wallClock'
    BY <2>3
  <2>5. IndexTyped' /\ Later
    BY <1>4, <2>1, <2>2, <2>3, <2>4 DEF RemoveChunk, Later, RetrievalInv, IndexTyped
  <2>. QED
    BY <1>4, <2>5, SurroundingsKept DEF RemoveChunk
<1>5. CASE ClockTicks
  <2>1. wallClock' \in 0 .. MaxClock /\ wallClock <= wallClock'
    BY <1>5, RetrievalNumbers DEF ClockTicks, RetrievalInv, IndexTyped
  <2>2. \A c \in Chunks : lastIn'[c] = lastIn[c] /\ lastIn[c] <= wallClock'
    BY <1>5, <2>1, RetrievalNumbers DEF ClockTicks, RetrievalInv, IndexTyped
  <2>3. IndexTyped' /\ Later
    BY <1>5, <2>1, <2>2, RetrievalNumbers DEF ClockTicks, Later, RetrievalInv, IndexTyped
  <2>. QED
    BY <1>5, <2>3, SurroundingsKept DEF ClockTicks
<1>. QED
  BY <1>1, <1>2, <1>3, <1>4, <1>5, HitKept, MissKept, LookUpKept, SearchNextKept,
     SearchFailsKept, ConcludeKept
  DEF RetrievalNext

LEMMA RetrievalInvAlways == RetrievalSpec => []RetrievalInv
  BY RetrievalInvInitially, RetrievalInvKept, PTL DEF RetrievalSpec

(* What an answer quotes was in the index since its search began, or less  *)
(* than the cache's time to live before: hits do not make a cached answer  *)
(* any younger.                                                            *)
THEOREM AnswersStayRecent == RetrievalSpec => []AnswersAreRecent
<1>1. RetrievalInv => AnswersAreRecent
  <2>. SUFFICES ASSUME RetrievalInv, retrieved # NoResult, NEW c \in retrieved.chunks
                PROVE  \/ c \in chunksIn
                       \/ retrieved.at - lastIn[c] <= retrieved.took
                       \/ /\ caching # "none"
                          /\ retrieved.at - lastIn[c] < TimeToLive + retrieved.took
    BY DEF AnswersAreRecent
  <2>1. AnswerStands(retrieved) /\ retrieved.at \in Int /\ retrieved.took \in Int
        /\ c \in Chunks
    BY ResultNumbers DEF RetrievalInv, AnswerStands
  <2>2. lastIn[c] \in Int
    BY <2>1, RetrievalNumbers DEF RetrievalInv, IndexTyped
  <2>. QED
    BY <2>1, <2>2 DEF AnswerStands, Since
<1>. QED
  BY <1>1, RetrievalInvAlways, PTL

(* The variables of the retrievals keep their types: a score is 0 or the   *)
(* distance of a chunk, and without a cache nothing is cached.             *)
THEOREM RetrievalTypesHold == RetrievalSpec => []RetrievalTypeOK
<1>1. RetrievalInv => RetrievalTypeOK
  <2>. SUFFICES ASSUME RetrievalInv PROVE RetrievalTypeOK
    OBVIOUS
  <2>1. \A k \in Askers \X Goals : cached[k] \in Results \union {NoResult}
    BY DEF RetrievalInv, KeptStands, Holds
  <2>2. cached \in [Askers \X Goals -> Results \union {NoResult}]
    BY <2>1 DEF RetrievalInv, IndexTyped
  <2>3. caching = "none" => \A k \in DOMAIN cached : cached[k] = NoResult
    BY <2>2 DEF RetrievalInv
  <2>4. retrieved \in Results \union {NoResult} /\ searching \in Searches \union {NoResult}
    BY DEF RetrievalInv, AnswerStands, Holds, SearchStands
  <2>. QED
    BY <2>2, <2>3, <2>4 DEF RetrievalInv, IndexTyped, RetrievalTypeOK
<1>. QED
  BY <1>1, RetrievalInvAlways, PTL

(* Answers are recent, and the gate lets nothing pass but results that     *)
(* hold a chunk at least as far from a query as its threshold, however     *)
(* the cache and the reranker are set.                                     *)
THEOREM RetrievalAlwaysHolds == RetrievalSpec => []RetrievalHolds
<1>1. RetrievalInv => AnswersHoldFarChunks
  BY DEF RetrievalInv, AnswerStands, Holds, AnswersHoldFarChunks
<1>2. AnswersAreRecent /\ AnswersHoldFarChunks => RetrievalHolds
  BY DEF RetrievalHolds
<1>. QED
  BY <1>1, <1>2, AnswersStayRecent, RetrievalInvAlways, PTL
----------------------------------------------------------------------------
(* A workspace, and what its runs read, recall and leave.                  *)

Settlements == {"completed", "handoff_required"}
Memory == [workspace : WorkspaceIds, run : SceneRuns, kind : Settlements \union {"correction"},
           text : Conclusions, confidence : {30, 60, 70}]

WorkspacesTyped ==
  /\ workspaces \subseteq WorkspaceIds
  /\ scenes \in [SceneIds -> workspaces \union {NoScene}]
  /\ deletedScenes \subseteq SceneIds
  /\ sceneRead \in [SceneRuns -> workspaces \union {NoScene}]
  /\ inScene \subseteq SceneRuns
  /\ course \in [SceneRuns -> Courses]
  /\ settledAs \in [SceneRuns -> Settlements \union {"none"}]
  /\ conclusions \in Seq(Memory)
  /\ DOMAIN recall = SceneRuns
  /\ memoryErrors \in Nat /\ corrections \in Nat

(* A scene that was deleted stays so, and one that a run read is the same  *)
(* or was deleted.                                                         *)
SceneStands(r) ==
  /\ course[r] # "idle" => /\ sceneRead[r] # NoScene
                           /\ \/ SceneOf[r] \in deletedScenes
                              \/ scenes[SceneOf[r]] = sceneRead[r]
  /\ r \in inScene => HasRow(r) /\ SceneOf[r] \notin deletedScenes

(* A memory, and what its run has come to.                                 *)
Stands(i) ==
  LET m == conclusions[i] IN
  /\ m.workspace \in workspaces /\ HasRow(m.run)
  /\ m.kind # "correction" =>
       /\ course[m.run] \in {"remembered", "failed"} /\ m.kind = settledAs[m.run]
       /\ (m.confidence = 60) <=> (m.kind = "completed")
       /\ \A j \in DOMAIN conclusions \ {i} :
            conclusions[j].run = m.run => conclusions[j].kind = "correction"

(* What a run recalled it recalled from memories that are still there.     *)
RecallStands(r) ==
  recall[r] # NoRecall =>
    /\ course[r] \notin {"idle", "read", "refused", "running"}
    /\ recall[r].of \in 0 .. Len(conclusions) /\ recall[r].found \in Seq(Nat)
    /\ RecallIsBest(r)

WorkspaceInv ==
  /\ WorkspacesTyped
  /\ \A s \in deletedScenes : scenes[s] = NoScene
  /\ \A r \in SceneRuns : /\ SceneStands(r) /\ RecallStands(r)
                          /\ course[r] = "settled" => settledAs[r] \in Settlements
  /\ \A i \in DOMAIN conclusions : Stands(i)

LEMMA MemoriesTyped ==
  ASSUME conclusions \in Seq(Memory)
  PROVE  /\ Len(conclusions) \in Nat /\ DOMAIN conclusions = 1 .. Len(conclusions)
         /\ \A i \in 1 .. Len(conclusions) :
              /\ i \in Nat /\ conclusions[i].run \in SceneRuns
              /\ conclusions[i].kind \in Settlements \union {"correction"}
              /\ conclusions[i].confidence \in Nat
<1>1. \A i \in 1 .. Len(conclusions) : conclusions[i] \in Memory
  OBVIOUS
<1>2. \A m \in Memory : /\ m.run \in SceneRuns /\ m.kind \in Settlements \union {"correction"}
                        /\ m.confidence \in {30, 60, 70}
  BY DEF Memory
<1>. HIDE DEF Memory
<1>. QED
  BY <1>1, <1>2

LEMMA MemoryAppended ==
  ASSUME NEW s \in Seq(Memory), NEW m \in Memory
  PROVE  /\ Append(s, m) \in Seq(Memory) /\ Len(Append(s, m)) = Len(s) + 1
         /\ \A i \in 1 .. Len(s) : Append(s, m)[i] = s[i]
         /\ Append(s, m)[Len(s) + 1] = m
  OBVIOUS

LEMMA WorkspaceInvInitially == WorkspacesInit => WorkspaceInv
<1>. SUFFICES ASSUME WorkspacesInit PROVE WorkspaceInv
  OBVIOUS
<1>1. conclusions \in Seq(Memory)
  BY DEF WorkspacesInit
<1>2. WorkspacesTyped
  BY <1>1 DEF WorkspacesInit, WorkspacesTyped, Courses
<1>3. \A i \in DOMAIN conclusions : Stands(i)
  BY DEF WorkspacesInit
<1>. QED
  BY <1>2, <1>3 DEF WorkspacesInit, WorkspaceInv, SceneStands, RecallStands, HasRow
----------------------------------------------------------------------------
(* The search                                                              *)

LEMMA ScoreTyped ==
  ASSUME NEW query, IsFiniteSet(query), NEW text
  PROVE  /\ TextScore(query, text) \in Nat
         /\ TextScore(query, text) > 0 <=> query \intersect text # {}
<1>1. IsFiniteSet(query \intersect text)
  BY FS_Intersection
<1>2. Cardinality(query \intersect text) \in Nat
  BY <1>1, FS_CardinalityType
<1>3. Cardinality(query \intersect text) = 0 <=> query \intersect text = {}
  BY <1>1, FS_EmptySet
<1>. QED
  BY <1>2, <1>3 DEF TextScore

Precedes(query, S) == {p \in S \X S : Before(query, p[1], p[2])}

(* By score, confidence and age, the memories are in full order.           *)
LEMMA MemoriesOrdered ==
  ASSUME conclusions \in Seq(Memory), NEW query, IsFiniteSet(query),
         NEW S \in SUBSET (1 .. Len(conclusions))
  PROVE  /\ IsFiniteSet(S) /\ Orders(Precedes(query, S), S)
         /\ \A i, j \in S : <<i, j>> \in Precedes(query, S) <=> Before(query, i, j)
<1>. DEFINE score == [i \in S |-> TextScore(query, conclusions[i].text)]
            sure == [i \in S |-> conclusions[i].confidence]
            R == Precedes(query, S)
<1>1. /\ \A i \in S : i \in Nat
      /\ score \in [S -> Nat] /\ sure \in [S -> Nat]
  BY MemoriesTyped, ScoreTyped
<1>2. \A i, j \in S : <<i, j>> \in R <=>
        \/ score[i] > score[j]
        \/ score[i] = score[j] /\ (sure[i] > sure[j] \/ (sure[i] = sure[j] /\ i > j))
  BY DEF Precedes, Before
<1>3. \A i, j \in S : <<i, j>> \in R <=> Before(query, i, j)
  BY DEF Precedes
<1>4. IsFiniteSet(S)
  <2>0. Len(conclusions) \in Nat
    BY MemoriesTyped
  <2>1. \A i \in S : i <= Len(conclusions)
    BY <2>0
  <2>2. S \in SUBSET Nat
    BY <1>1
  <2>. HIDE DEF score, sure, R
  <2>. QED
    BY <2>0, <2>1, <2>2, FS_BoundedSetOfNaturals
<1>. HIDE DEF score, sure, R
<1>5. Orders(R, S)
  BY <1>1, <1>2 DEF Orders
<1>. QED
  BY <1>3, <1>4, <1>5 DEF R

(* What RecallIsBest says of any list and any number of memories.          *)
Best(r, found, of) ==
  LET known == MemoriesOf(sceneRead[r], of) IN
  /\ ToSet(found) \subseteq known
  /\ \A n \in DOMAIN found :
       /\ conclusions[found[n]].run = r => conclusions[found[n]].kind = "correction"
       /\ \A m \in 1 .. n - 1 : Before(Goal[r], found[m], found[n])
  /\ \A i \in known \ ToSet(found) :
       \/ Goal[r] \intersect conclusions[i].text = {}
       \/ Cardinality({j \in known : j > i}) >= RecallWindow
       \/ Len(found) = RecallLimit /\ \A n \in DOMAIN found : Before(Goal[r], found[n], i)

LEMMA SearchIsBest ==
  ASSUME WorkspaceInv, NEW r \in SceneRuns, course[r] = "running"
  PROVE  /\ Best(r, SearchMemory(sceneRead[r], Goal[r]), Len(conclusions))
         /\ SearchMemory(sceneRead[r], Goal[r]) \in Seq(Nat)
<1>. DEFINE query == Goal[r]
            known == MemoriesOf(sceneRead[r], Len(conclusions))
            nearby == CandidatesIn(sceneRead[r])
            hits == {i \in nearby : TextScore(query, conclusions[i].text) > 0}
            rank == [x \in hits |-> Cardinality({y \in hits : Before(query, y, x)})]
            sorted == SortedBy(hits, LAMBDA i, j : Before(query, i, j))
            shown == IF Len(sorted) < RecallLimit THEN Len(sorted) ELSE RecallLimit
            found == SubSeq(sorted, 1, shown)
            R == Precedes(query, hits)
            n == Cardinality(hits)
<1>1. /\ conclusions \in Seq(Memory) /\ IsFiniteSet(query)
      /\ RecallWindow \in Nat /\ RecallLimit \in Nat /\ Len(conclusions) \in Nat
  BY WorkspaceAssumption, MemoriesTyped DEF WorkspaceInv, WorkspacesTyped
<1>2. hits \subseteq nearby /\ nearby \subseteq known /\ known \subseteq 1 .. Len(conclusions)
  BY DEF CandidatesIn, Newest, MemoriesOf
<1>3. /\ Orders(R, hits) /\ IsFiniteSet(hits)
      /\ \A i, j \in hits : <<i, j>> \in R <=> Before(query, i, j)
  <2>. HIDE DEF query, hits, known, nearby, R
  <2>1. hits \in SUBSET (1 .. Len(conclusions))
    BY <1>2
  <2>. QED
    BY <1>1, <2>1, MemoriesOrdered DEF R
<1>4. Lists(sorted, hits, R)
  <2>1. sorted = Enumerated(hits, rank)
    BY DEF SortedBy
  <2>2. \A x \in hits : rank[x] = Cardinality(Below(R, hits, x))
    <3>. SUFFICES ASSUME NEW x \in hits PROVE rank[x] = Cardinality(Below(R, hits, x))
      OBVIOUS
    <3>1. {y \in hits : Before(query, y, x)} = Below(R, hits, x)
      <4>. HIDE DEF hits, R
      <4>. QED
        BY <1>3 DEF Below
    <3>. QED
      BY <3>1
  <2>. HIDE DEF rank, hits, R, sorted
  <2>. QED
    BY <1>3, <2>1, <2>2, RanksEnumerate
<1>. HIDE DEF sorted
<1>5. /\ n \in Nat /\ sorted \in [1 .. n -> hits]
      /\ \A x \in hits : \E k \in 1 .. n : sorted[k] = x
      /\ \A i, j \in 1 .. n : i < j => Before(query, sorted[i], sorted[j])
  <2>. HIDE DEF hits, R, query
  <2>. QED
    BY <1>3, <1>4 DEF Lists
<1>. HIDE DEF n, R
<1>6. sorted \in Seq(hits) /\ Len(sorted) = n
  <2>. HIDE DEF hits
  <2>. QED
    BY <1>5
<1>. HIDE DEF hits
<1>7. /\ shown \in 0 .. n /\ shown <= RecallLimit /\ (shown = n \/ shown = RecallLimit)
  BY <1>1, <1>5, <1>6
<1>. HIDE DEF shown
<1>8. /\ DOMAIN found = 1 .. shown /\ Len(found) = shown
      /\ \A k \in 1 .. shown : found[k] = sorted[k]
  BY <1>5, <1>6, <1>7
<1>0. found \in Seq(Nat)
  <2>1. \A x \in hits : x \in Nat
    BY <1>1, <1>2
  <2>2. sorted \in Seq(Nat)
    BY <1>5, <2>1
  <2>. QED
    BY <1>5, <1>6, <1>7, <2>2
<1>. HIDE DEF found
<1>9. ToSet(found) = {sorted[k] : k \in 1 .. shown}
  BY <1>8 DEF ToSet
<1>10. ToSet(found) \subseteq known
  BY <1>2, <1>5, <1>7, <1>9
<1>11. ASSUME NEW k \in DOMAIN found
       PROVE  /\ conclusions[found[k]].run = r => conclusions[found[k]].kind = "correction"
              /\ \A m \in 1 .. k - 1 : Before(query, found[m], found[k])
  <2>1. k \in 1 .. shown /\ k \in 1 .. n /\ found[k] = sorted[k]
    BY <1>5, <1>7, <1>8
  <2>2. found[k] \in 1 .. Len(conclusions)
    BY <1>2, <1>5, <2>1
  <2>3. Stands(found[k])
    BY <1>1, <2>2, MemoriesTyped DEF WorkspaceInv
  <2>4. \A m \in 1 .. k - 1 : m \in 1 .. n /\ m < k /\ found[m] = sorted[m]
    BY <1>5, <1>7, <1>8, <2>1
  <2>5. \A m \in 1 .. k - 1 : Before(query, found[m], found[k])
    <3>. HIDE DEF query
    <3>. QED
      BY <1>5, <2>1, <2>4
  <2>. QED
    BY <2>3, <2>5 DEF Stands
<1>12. ASSUME NEW i \in known \ ToSet(found)
       PROVE  \/ query \intersect conclusions[i].text = {}
              \/ Cardinality({j \in known : j > i}) >= RecallWindow
              \/ Len(found) = RecallLimit /\ \A k \in DOMAIN found : Before(query, found[k], i)
  <2>1. CASE i \notin nearby
    <3>1. ~(Cardinality({j \in known : j > i}) < RecallWindow)
      BY <2>1 DEF CandidatesIn, Newest
    <3>2. Cardinality({j \in known : j > i}) \in Nat
      <4>1. {j \in known : j > i} \in SUBSET (1 .. Len(conclusions))
        BY <1>2
      <4>2. IsFiniteSet({j \in known : j > i})
        <5>. DEFINE newer == {j \in known : j > i}
        <5>. HIDE DEF newer
        <5>1. newer \in SUBSET (1 .. Len(conclusions))
          BY <4>1 DEF newer
        <5>2. IsFiniteSet(newer)
          BY <1>1, <5>1, MemoriesOrdered
        <5>. QED
          BY <5>2 DEF newer
      <4>. QED
        BY <4>2, FS_CardinalityType
    <3>. QED
      BY <1>1, <3>1, <3>2
  <2>2. CASE i \in nearby /\ i \notin hits
    <3>1. ~(TextScore(query, conclusions[i].text) > 0)
      BY <2>2 DEF hits
    <3>. QED
      BY <1>1, <3>1, ScoreTyped
  <2>3. CASE i \in hits
    <3>1. PICK k \in 1 .. n : sorted[k] = i
      BY <1>5, <2>3
    <3>2. k \notin 1 .. shown
      BY <1>9, <3>1
    <3>3. shown = RecallLimit /\ \A m \in 1 .. shown : m \in 1 .. n /\ m < k
      BY <1>5, <1>7, <3>2
    <3>4. \A m \in DOMAIN found : Before(query, found[m], i)
      <4>. HIDE DEF query
      <4>. QED
        BY <1>5, <1>8, <3>1, <3>3
    <3>. QED
      BY <1>8, <3>3, <3>4
  <2>. QED
    BY <2>1, <2>2, <2>3
<1>13. Best(r, found, Len(conclusions)) /\ found \in Seq(Nat)
  BY <1>0, <1>8, <1>10, <1>11, <1>12 DEF Best
<1>14. found = SearchMemory(sceneRead[r], Goal[r])
  BY DEF found, shown, sorted, hits, SearchMemory
<1>. QED
  BY <1>13, <1>14
----------------------------------------------------------------------------
(* The steps                                                               *)

(* What the memory, the runs and the scenes let stand: runs that go on,    *)
(* and memories that are added.                                            *)
Onward ==
  /\ WorkspacesTyped'
  /\ Len(conclusions) <= Len(conclusions')
  /\ \A i \in 1 .. Len(conclusions) : conclusions'[i] = conclusions[i]

LEMMA RecallKept ==
  ASSUME WorkspaceInv, Onward, NEW r \in SceneRuns, recall'[r] = recall[r],
         recall[r] # NoRecall =>
           /\ sceneRead'[r] = sceneRead[r]
           /\ course'[r] \notin {"idle", "read", "refused", "running"}
  PROVE  RecallStands(r)'
<1>. SUFFICES ASSUME recall[r] # NoRecall
              PROVE  /\ course'[r] \notin {"idle", "read", "refused", "running"}
                     /\ recall[r].of \in 0 .. Len(conclusions') /\ recall[r].found \in Seq(Nat)
                     /\ RecallIsBest(r)'
  BY DEF RecallStands
<1>. DEFINE found == recall[r].found
            of == recall[r].of
            known == MemoriesOf(sceneRead[r], of)
<1>1. /\ of \in 0 .. Len(conclusions) /\ found \in Seq(Nat) /\ RecallIsBest(r)
      /\ Len(conclusions) \in Nat /\ Len(conclusions') \in Nat
  BY DEF WorkspaceInv, RecallStands, WorkspacesTyped, Onward
<1>2. \A i \in 1 .. of : conclusions'[i] = conclusions[i]
  BY <1>1 DEF Onward
<1>3. sceneRead'[r] = sceneRead[r] /\ recall'[r] = recall[r]
  OBVIOUS
<1>4. MemoriesOf(sceneRead[r], of)' = known /\ known \subseteq 1 .. of
  BY <1>2, <1>3 DEF MemoriesOf
<1>5. ToSet(found) \subseteq known /\ \A n \in DOMAIN found : found[n] \in known
  BY <1>1 DEF RecallIsBest, ToSet
<1>6. \A i, j \in known : Before(Goal[r], i, j)' <=> Before(Goal[r], i, j)
  BY <1>2, <1>4 DEF Before
<1>7. \A n \in DOMAIN found : n \in Nat /\ \A m \in 1 .. n - 1 : m \in DOMAIN found
  BY <1>1
<1>8. \A n \in DOMAIN found :
        /\ conclusions'[found[n]].run = r => conclusions'[found[n]].kind = "correction"
        /\ \A m \in 1 .. n - 1 : Before(Goal[r], found[m], found[n])'
  <2>1. \A n \in DOMAIN found :
          /\ conclusions[found[n]].run = r => conclusions[found[n]].kind = "correction"
          /\ \A m \in 1 .. n - 1 : Before(Goal[r], found[m], found[n])
    BY <1>1 DEF RecallIsBest
  <2>. QED
    BY <1>2, <1>4, <1>5, <1>6, <1>7, <2>1
<1>9. \A i \in known \ ToSet(found) :
        \/ Goal[r] \intersect conclusions'[i].text = {}
        \/ Cardinality({j \in known : j > i}) >= RecallWindow
        \/ Len(found) = RecallLimit /\ \A n \in DOMAIN found : Before(Goal[r], found[n], i)'
  <2>1. \A i \in known \ ToSet(found) :
          \/ Goal[r] \intersect conclusions[i].text = {}
          \/ Cardinality({j \in known : j > i}) >= RecallWindow
          \/ Len(found) = RecallLimit /\ \A n \in DOMAIN found : Before(Goal[r], found[n], i)
    BY <1>1 DEF RecallIsBest
  <2>. QED
    BY <1>2, <1>3, <1>4, <1>5, <1>6, <2>1
<1>10. RecallIsBest(r)'
  BY <1>3, <1>4, <1>5, <1>8, <1>9 DEF RecallIsBest
<1>. QED
  BY <1>1, <1>3, <1>10 DEF Onward

LEMMA MemoryStands ==
  ASSUME WorkspaceInv, Onward, workspaces \subseteq workspaces', NEW i \in DOMAIN conclusions,
         \A r \in SceneRuns :
           /\ HasRow(r) => HasRow(r)'
           /\ course[r] \in {"remembered", "failed"} =>
                course'[r] \in {"remembered", "failed"} /\ settledAs'[r] = settledAs[r],
         \A j \in DOMAIN conclusions' :
           \/ j <= Len(conclusions) \/ conclusions'[j].kind = "correction"
           \/ conclusions'[j].run # conclusions[i].run
  PROVE  Stands(i)'
<1>1. /\ conclusions'[i] = conclusions[i] /\ conclusions[i].run \in SceneRuns
      /\ DOMAIN conclusions = 1 .. Len(conclusions)
      /\ DOMAIN conclusions' = 1 .. Len(conclusions')
      /\ Len(conclusions) \in Nat /\ Len(conclusions') \in Nat
  BY MemoriesTyped DEF WorkspaceInv, WorkspacesTyped, Onward
<1>2. Stands(i)
  BY DEF WorkspaceInv
<1>3. conclusions[i].kind # "correction" =>
        \A j \in DOMAIN conclusions' \ {i} :
          conclusions'[j].run = conclusions[i].run => conclusions'[j].kind = "correction"
  BY <1>1, <1>2 DEF Stands, Onward
<1>. QED
  BY <1>1, <1>2, <1>3 DEF Stands, HasRow

(* The scenes stand when nothing but the course of runs with a row moves.  *)
LEMMA ScenesKept ==
  ASSUME WorkspaceInv, scenes' = scenes, deletedScenes' = deletedScenes,
         NEW r \in SceneRuns, r \in inScene' => r \in inScene, sceneRead'[r] = sceneRead[r],
         HasRow(r) => HasRow(r)', course'[r] # "idle" => course[r] # "idle"
  PROVE  SceneStands(r)'
  BY DEF WorkspaceInv, SceneStands

(* The same for a step that leaves the memory and what was recalled alone. *)
LEMMA MemoryKept ==
  ASSUME WorkspaceInv, WorkspacesTyped', conclusions' = conclusions, recall' = recall,
         workspaces \subseteq workspaces',
         \A r \in SceneRuns :
           /\ HasRow(r) => HasRow(r)'
           /\ course[r] \in {"remembered", "failed"} =>
                course'[r] \in {"remembered", "failed"} /\ settledAs'[r] = settledAs[r]
           /\ recall[r] # NoRecall =>
                /\ sceneRead'[r] = sceneRead[r]
                /\ course'[r] \notin {"idle", "read", "refused", "running"}
  PROVE  /\ \A r \in SceneRuns : RecallStands(r)'
         /\ \A i \in DOMAIN conclusions' : Stands(i)'
<1>1. /\ Len(conclusions) \in Nat /\ DOMAIN conclusions = 1 .. Len(conclusions)
  BY MemoriesTyped DEF WorkspaceInv, WorkspacesTyped
<1>2. Onward
  BY <1>1 DEF Onward
<1>3. ASSUME NEW r \in SceneRuns PROVE RecallStands(r)'
  BY <1>2, RecallKept
<1>4. ASSUME NEW i \in DOMAIN conclusions' PROVE Stands(i)'
  <2>1. i \in DOMAIN conclusions /\ \A j \in DOMAIN conclusions' : j <= Len(conclusions)
    BY <1>1
  <2>. QED
    BY <1>2, <2>1, MemoryStands
<1>. QED
  BY <1>3, <1>4

(* And for one that adds a memory.                                         *)
LEMMA MemoryAdded ==
  ASSUME WorkspaceInv, NEW m \in Memory, WorkspacesTyped', conclusions' = Append(conclusions, m),
         recall' = recall, sceneRead' = sceneRead, workspaces' = workspaces,
         settledAs' = settledAs, HasRow(m.run)', m.workspace \in workspaces,
         \A r \in SceneRuns :
           /\ HasRow(r) => HasRow(r)'
           /\ course[r] \in {"remembered", "failed"} => course'[r] \in {"remembered", "failed"}
           /\ course[r] \notin {"idle", "read", "refused", "running"} =>
                course'[r] \notin {"idle", "read", "refused", "running"},
         m.kind # "correction" =>
           /\ course[m.run] \notin {"remembered", "failed"}
           /\ course'[m.run] \in {"remembered", "failed"} /\ m.kind = settledAs[m.run]
           /\ (m.confidence = 60) <=> (m.kind = "completed")
  PROVE  /\ \A r \in SceneRuns : RecallStands(r)'
         /\ \A i \in DOMAIN conclusions' : Stands(i)'
<1>0. PICK n : n = Len(conclusions)
  OBVIOUS
<1>1. /\ conclusions \in Seq(Memory) /\ n \in Nat /\ DOMAIN conclusions = 1 .. n
      /\ DOMAIN conclusions' = 1 .. n + 1 /\ Len(conclusions') = n + 1
      /\ \A i \in 1 .. n : conclusions'[i] = conclusions[i]
      /\ conclusions'[n + 1] = m
  <2>1. conclusions \in Seq(Memory) /\ n \in Nat /\ DOMAIN conclusions = 1 .. n
    BY <1>0, MemoriesTyped DEF WorkspaceInv, WorkspacesTyped
  <2>2. conclusions' \in Seq(Memory)
    BY DEF WorkspacesTyped
  <2>. HIDE DEF Memory
  <2>. QED
    BY <1>0, <2>1, <2>2, MemoryAppended
<1>2. Onward
  BY <1>0, <1>1 DEF Onward
<1>3. ASSUME NEW r \in SceneRuns PROVE RecallStands(r)'
  <2>1. recall[r] # NoRecall => course[r] \notin {"idle", "read", "refused", "running"}
    BY DEF WorkspaceInv, RecallStands
  <2>. QED
    BY <1>2, <2>1, RecallKept
<1>4. ASSUME NEW i \in 1 .. n PROVE Stands(i)'
  <2>1. Stands(i) /\ conclusions[i].run \in SceneRuns
    BY <1>0, <1>1, MemoriesTyped DEF WorkspaceInv
  <2>2. CASE conclusions[i].kind = "correction"
    <3>1. conclusions'[i] = conclusions[i]
      BY <1>1
    <3>. QED
      BY <2>1, <2>2, <3>1 DEF Stands, HasRow
  <2>3. CASE conclusions[i].kind # "correction"
    <3>1. \A j \in DOMAIN conclusions' : j <= n \/ j = n + 1
      BY <1>1
    <3>2. m.kind = "correction" \/ m.run # conclusions[i].run
      BY <2>1, <2>3 DEF Stands
    <3>. QED
      BY <1>0, <1>1, <1>2, <2>1, <3>1, <3>2, MemoryStands
  <2>. QED
    BY <2>2, <2>3
<1>5. Stands(n + 1)'
  <2>1. m.kind # "correction" => \A j \in 1 .. n :
          conclusions[j].run = m.run => conclusions[j].kind = "correction"
    BY <1>1 DEF WorkspaceInv, Stands
  <2>2. \A j \in DOMAIN conclusions' \ {n + 1} : j \in 1 .. n
    BY <1>1
  <2>. QED
    BY <1>1, <2>1, <2>2 DEF Stands
<1>. QED
  BY <1>1, <1>3, <1>4, <1>5

LEMMA SpacesKept ==
  ASSUME WorkspaceInv, CreateRequest \/ DeleteRequest
  PROVE  WorkspaceInv'
<1>1. /\ course' = course /\ settledAs' = settledAs /\ sceneRead' = sceneRead
      /\ conclusions' = conclusions /\ recall' = recall
      /\ corrections' = corrections /\ memoryErrors' = memoryErrors
  BY DEF CreateRequest, DeleteRequest, CreateWorkspace, CreateSceneIn, DeleteScenes
<1>2. WorkspacesTyped /\ SceneOf \in [SceneRuns -> SceneIds]
  BY WorkspaceAssumption DEF WorkspaceInv
<1>3. /\ workspaces \subseteq workspaces' /\ workspaces' \subseteq WorkspaceIds
      /\ scenes' \in [SceneIds -> workspaces' \union {NoScene}]
      /\ deletedScenes' \subseteq SceneIds /\ inScene' \subseteq inScene
      /\ deletedScenes \subseteq deletedScenes'
      /\ \A s \in deletedScenes' : scenes'[s] = NoScene
      /\ \A s \in SceneIds : \/ s \in deletedScenes' \/ scenes'[s] = scenes[s]
                             \/ scenes[s] = NoScene
      /\ \A r \in inScene' : SceneOf[r] \in deletedScenes' => SceneOf[r] \in deletedScenes
  <2>0. /\ workspaces \subseteq WorkspaceIds /\ inScene \subseteq SceneRuns
        /\ scenes \in [SceneIds -> workspaces \union {NoScene}]
        /\ deletedScenes \subseteq SceneIds /\ \A s \in deletedScenes : scenes[s] = NoScene
    BY DEF WorkspaceInv, WorkspacesTyped
  <2>1. CASE \E w \in WorkspaceIds : CreateWorkspace(w)
    BY <2>0, <2>1 DEF CreateWorkspace
  <2>2. CASE \E w \in WorkspaceIds, s \in SceneIds : CreateSceneIn(s, w)
    BY <2>0, <2>2 DEF CreateSceneIn
  <2>3. CASE DeleteRequest
    BY <1>2, <2>0, <2>3 DEF DeleteRequest, DeleteScenes
  <2>. QED
    BY <2>1, <2>2, <2>3 DEF CreateRequest
<1>4. WorkspacesTyped'
  BY <1>1, <1>2, <1>3 DEF WorkspacesTyped
<1>5. ASSUME NEW r \in SceneRuns PROVE SceneStands(r)'
  <2>1. SceneStands(r) /\ SceneOf[r] \in SceneIds
    BY <1>2 DEF WorkspaceInv
  <2>. QED
    BY <1>1, <1>3, <2>1 DEF SceneStands, HasRow
<1>6. /\ \A r \in SceneRuns : RecallStands(r)'
      /\ \A i \in DOMAIN conclusions' : Stands(i)'
  <2>1. \A r \in SceneRuns :
          recall[r] # NoRecall => course[r] \notin {"idle", "read", "refused", "running"}
    BY DEF WorkspaceInv, RecallStands
  <2>. QED
    BY <1>1, <1>3, <1>4, <2>1, MemoryKept DEF HasRow
<1>. QED
  BY <1>1, <1>3, <1>4, <1>5, <1>6 DEF WorkspaceInv

(* A step of a run: its course goes on, and the others' stands still.      *)
Proceeds(r, stage) ==
  /\ Go(r, stage)
  /\ stage \in Courses
  /\ UNCHANGED <<workspaces, scenes, deletedScenes>>

LEMMA CourseGoes ==
  ASSUME WorkspaceInv, NEW r \in SceneRuns, NEW stage, Proceeds(r, stage)
  PROVE  /\ course' \in [SceneRuns -> Courses] /\ course'[r] = stage
         /\ \A q \in SceneRuns \ {r} : course'[q] = course[q]
  BY DEF Proceeds, Go, WorkspaceInv, WorkspacesTyped

LEMMA StartKept ==
  ASSUME WorkspaceInv, NEW r \in SceneRuns, ReadScene(r) \/ CreateRunRow(r)
  PROVE  WorkspaceInv'
<1>0. /\ settledAs' = settledAs /\ workspaces' = workspaces /\ scenes' = scenes
      /\ deletedScenes' = deletedScenes /\ conclusions' = conclusions /\ recall' = recall
      /\ corrections' = corrections /\ memoryErrors' = memoryErrors
  BY DEF ReadScene, CreateRunRow, sceneVars
<1>1. WorkspacesTyped /\ SceneOf \in [SceneRuns -> SceneIds]
  BY WorkspaceAssumption DEF WorkspaceInv
<1>2. PICK stage \in {"read", "running", "refused"} : Proceeds(r, stage)
  BY <1>0 DEF ReadScene, CreateRunRow, Proceeds, Courses
<1>3. /\ course' \in [SceneRuns -> Courses] /\ course'[r] = stage
      /\ \A q \in SceneRuns \ {r} : course'[q] = course[q]
  BY <1>2, CourseGoes
<1>4. course[r] \in {"idle", "read"}
  BY DEF ReadScene, CreateRunRow
<1>5. ASSUME NEW q \in SceneRuns PROVE SceneStands(q)'
  <2>1. SceneStands(q) /\ SceneOf[q] \in SceneIds
        /\ (SceneOf[q] \in deletedScenes => scenes[SceneOf[q]] = NoScene)
    BY <1>1 DEF WorkspaceInv
  <2>2. CASE q # r
    <3>1. sceneRead'[q] = sceneRead[q] /\ (q \in inScene' <=> q \in inScene)
      BY <1>1, <2>2 DEF ReadScene, CreateRunRow, sceneVars, WorkspacesTyped
    <3>. QED
      BY <1>0, <1>3, <2>1, <2>2, <3>1 DEF SceneStands, HasRow
  <2>3. CASE q = r /\ ReadScene(r)
    <3>1. sceneRead'[r] = scenes[SceneOf[r]] /\ scenes[SceneOf[r]] # NoScene
          /\ inScene' = inScene /\ r \notin inScene
      BY <1>1, <1>4, <2>1, <2>3 DEF ReadScene, sceneVars, WorkspacesTyped, SceneStands, HasRow
    <3>. QED
      BY <1>0, <2>1, <2>3, <3>1 DEF SceneStands
  <2>4. CASE q = r /\ CreateRunRow(r)
    <3>1. sceneRead' = sceneRead /\ course[r] = "read" /\ r \notin inScene
      BY <1>4, <2>1, <2>4 DEF CreateRunRow, SceneStands, HasRow
    <3>2. \/ r \notin inScene'
          \/ course'[r] = "running" /\ scenes[SceneOf[r]] # NoScene
      BY <1>1, <2>4, <3>1 DEF CreateRunRow, Go, WorkspacesTyped
    <3>. QED
      BY <1>0, <2>1, <2>4, <3>1, <3>2 DEF SceneStands, HasRow
  <2>. QED
    BY <2>2, <2>3, <2>4
<1>6. /\ sceneRead' \in [SceneRuns -> workspaces \union {NoScene}] /\ inScene' \subseteq SceneRuns
      /\ \A q \in SceneRuns \ {r} : sceneRead'[q] = sceneRead[q]
  BY <1>1 DEF ReadScene, CreateRunRow, sceneVars, WorkspacesTyped
<1>7. WorkspacesTyped'
  BY <1>0, <1>1, <1>3, <1>6 DEF WorkspacesTyped
<1>8. /\ \A q \in SceneRuns : RecallStands(q)'
      /\ \A i \in DOMAIN conclusions' : Stands(i)'
  <2>1. \A q \in SceneRuns :
          recall[q] # NoRecall => course[q] \notin {"idle", "read", "refused", "running"}
    BY DEF WorkspaceInv, RecallStands
  <2>2. \A q \in SceneRuns :
           /\ HasRow(q) => HasRow(q)'
           /\ course[q] \in {"remembered", "failed"} =>
                course'[q] \in {"remembered", "failed"} /\ settledAs'[q] = settledAs[q]
           /\ recall[q] # NoRecall =>
                /\ sceneRead'[q] = sceneRead[q]
                /\ course'[q] \notin {"idle", "read", "refused", "running"}
    BY <1>0, <1>3, <1>4, <1>6, <2>1 DEF HasRow
  <2>. QED
    BY <1>0, <1>7, <2>2, MemoryKept
<1>9. \A q \in SceneRuns : course'[q] = "settled" => settledAs'[q] \in Settlements
  BY <1>0, <1>2, <1>3 DEF WorkspaceInv
<1>. QED
  BY <1>0, <1>5, <1>7, <1>8, <1>9 DEF WorkspaceInv

(* A run that has its row works on: its scene stays as it read it.         *)
LEMMA WorkKeepsScenes ==
  ASSUME WorkspaceInv, NEW r \in SceneRuns, NEW stage, Proceeds(r, stage), HasRow(r),
         stage \notin {"idle", "read", "refused"}, inScene' = inScene, sceneRead' = sceneRead
  PROVE  \A q \in SceneRuns : SceneStands(q)' /\ (HasRow(q) => HasRow(q)')
<1>1. ASSUME NEW q \in SceneRuns PROVE SceneStands(q)' /\ (HasRow(q) => HasRow(q)')
  <2>1. /\ HasRow(q) => HasRow(q)'
        /\ course'[q] # "idle" => course[q] # "idle"
    BY CourseGoes DEF HasRow
  <2>. QED
    BY <2>1, ScenesKept DEF Proceeds
<1>. QED
  BY <1>1

LEMMA RecallStepKept ==
  ASSUME WorkspaceInv, NEW r \in SceneRuns, Recall(r)
  PROVE  WorkspaceInv'
<1>0. /\ settledAs' = settledAs /\ sceneVars' = sceneVars /\ sceneRead' = sceneRead
      /\ conclusions' = conclusions /\ corrections' = corrections /\ course[r] = "running"
  BY DEF Recall
<1>1. WorkspacesTyped
  BY DEF WorkspaceInv
<1>2. Proceeds(r, "recalled") /\ workspaces' = workspaces /\ inScene' = inScene /\ HasRow(r)
  BY <1>0 DEF Recall, Proceeds, sceneVars, Courses, HasRow
<1>3. /\ course' \in [SceneRuns -> Courses] /\ course'[r] = "recalled"
      /\ \A q \in SceneRuns \ {r} : course'[q] = course[q]
  BY <1>2, CourseGoes
<1>4. \A q \in SceneRuns : SceneStands(q)' /\ (HasRow(q) => HasRow(q)')
  BY <1>0, <1>2, WorkKeepsScenes
<1>5. PICK found, of :
        /\ recall' = [recall EXCEPT ![r] = [found |-> found, of |-> of]]
        /\ found \in Seq(Nat) /\ of \in 0 .. Len(conclusions) /\ Best(r, found, of)
  <2>1. Len(conclusions) \in Nat
    BY <1>1, MemoriesTyped DEF WorkspacesTyped
  <2>2. CASE recall' = [recall EXCEPT ![r] =
               [found |-> SearchMemory(sceneRead[r], Goal[r]), of |-> Len(conclusions)]]
    <3>1. PICK hits, known : /\ hits = SearchMemory(sceneRead[r], Goal[r])
                             /\ known = Len(conclusions)
      OBVIOUS
    <3>2. hits \in Seq(Nat) /\ known \in 0 .. Len(conclusions) /\ Best(r, hits, known)
      BY <1>0, <2>1, <3>1, SearchIsBest
    <3>3. recall' = [recall EXCEPT ![r] = [found |-> hits, of |-> known]]
      BY <2>2, <3>1
    <3>. QED
      BY <3>2, <3>3
  <2>3. CASE recall' = [recall EXCEPT ![r] = [found |-> <<>>, of |-> 0]]
    <3>1. MemoriesOf(sceneRead[r], 0) = {}
      BY DEF MemoriesOf
    <3>2. ToSet(<<>>) = {}
      BY DEF ToSet
    <3>. DEFINE none == <<>>
    <3>3. none \in Seq(Nat) /\ DOMAIN none = {} /\ 0 \in 0 .. Len(conclusions)
      BY <2>1
    <3>4. Best(r, none, 0)
      BY <3>1, <3>2, <3>3 DEF Best
    <3>. QED
      BY <2>3, <3>3, <3>4
  <2>. QED
    BY <2>2, <2>3 DEF Recall
<1>6. /\ DOMAIN recall' = SceneRuns /\ recall'[r].found = found /\ recall'[r].of = of
      /\ \A q \in SceneRuns \ {r} : recall'[q] = recall[q]
  BY <1>1, <1>5 DEF WorkspacesTyped
<1>7. memoryErrors' \in Nat
  BY <1>1 DEF Recall, MemoryError, WorkspacesTyped
<1>8. WorkspacesTyped'
  BY <1>0, <1>1, <1>3, <1>6, <1>7 DEF WorkspacesTyped, sceneVars
<1>9. Len(conclusions) \in Nat /\ Onward
  <2>1. Len(conclusions) \in Nat
    BY <1>1, MemoriesTyped DEF WorkspacesTyped
  <2>. QED
    BY <1>0, <1>8, <2>1 DEF Onward
<1>10. ASSUME NEW q \in SceneRuns \ {r} PROVE RecallStands(q)'
  <2>1. recall[q] # NoRecall => course[q] \notin {"idle", "read", "refused", "running"}
    BY DEF WorkspaceInv, RecallStands
  <2>. QED
    BY <1>0, <1>3, <1>6, <1>9, <2>1, RecallKept
<1>11. RecallStands(r)'
  <2>1. Best(r, found, of)'
    <3>1. /\ MemoriesOf(sceneRead[r], of)' = MemoriesOf(sceneRead[r], of)
          /\ \A i, j : Before(Goal[r], i, j)' <=> Before(Goal[r], i, j)
      BY <1>0 DEF MemoriesOf, Before
    <3>. QED
      BY <1>0, <1>5, <3>1 DEF Best
  <2>2. RecallIsBest(r)'
    BY <1>6, <2>1 DEF Best, RecallIsBest
  <2>. QED
    BY <1>0, <1>3, <1>5, <1>6, <2>2 DEF RecallStands
<1>12. ASSUME NEW i \in DOMAIN conclusions' PROVE Stands(i)'
  <2>1. /\ i \in DOMAIN conclusions
        /\ \A j \in DOMAIN conclusions' : j <= Len(conclusions)
        /\ \A q \in SceneRuns : course[q] \in {"remembered", "failed"} =>
             course'[q] \in {"remembered", "failed"} /\ settledAs'[q] = settledAs[q]
    BY <1>0, <1>1, <1>3, MemoriesTyped DEF WorkspacesTyped
  <2>. QED
    BY <1>2, <1>4, <1>9, <2>1, MemoryStands
<1>13. \A q \in SceneRuns : course'[q] = "settled" => settledAs'[q] \in Settlements
  BY <1>0, <1>3 DEF WorkspaceInv
<1>14. \A s \in deletedScenes' : scenes'[s] = NoScene
  BY <1>0 DEF WorkspaceInv, sceneVars
<1>. QED
  BY <1>4, <1>8, <1>10, <1>11, <1>12, <1>13, <1>14 DEF WorkspaceInv

(* A run that settles or fails leaves no memory.                           *)
LEMMA QuietKept ==
  ASSUME WorkspaceInv, NEW r \in SceneRuns, NEW stage, Proceeds(r, stage), HasRow(r),
         course[r] # "running" \/ recall[r] = NoRecall,
         stage \in {"settled", "remembered", "failed"},
         course[r] \in {"remembered", "failed"} =>
           stage \in {"remembered", "failed"} /\ settledAs'[r] = settledAs[r],
         stage = "settled" => settledAs'[r] \in Settlements,
         settledAs' \in [SceneRuns -> Settlements \union {"none"}],
         \A q \in SceneRuns \ {r} : settledAs'[q] = settledAs[q],
         inScene' = inScene, sceneRead' = sceneRead, recall' = recall,
         conclusions' = conclusions, corrections' = corrections, memoryErrors' \in Nat
  PROVE  WorkspaceInv'
<1>1. WorkspacesTyped
  BY DEF WorkspaceInv
<1>2. /\ course' \in [SceneRuns -> Courses] /\ course'[r] = stage
      /\ \A q \in SceneRuns \ {r} : course'[q] = course[q]
  BY CourseGoes
<1>3. \A q \in SceneRuns : SceneStands(q)' /\ (HasRow(q) => HasRow(q)')
  BY WorkKeepsScenes
<1>4. WorkspacesTyped'
  BY <1>1, <1>2 DEF WorkspacesTyped, Proceeds
<1>5. \A q \in SceneRuns :
        /\ recall[q] # NoRecall => course[q] \notin {"idle", "read", "refused", "running"}
        /\ course[q] = "settled" => settledAs[q] \in Settlements
  BY DEF WorkspaceInv, RecallStands
<1>6. \A q \in SceneRuns :
        /\ course[q] \in {"remembered", "failed"} =>
             course'[q] \in {"remembered", "failed"} /\ settledAs'[q] = settledAs[q]
        /\ recall[q] # NoRecall => course'[q] \notin {"idle", "read", "refused", "running"}
        /\ course'[q] = "settled" => settledAs'[q] \in Settlements
  BY <1>2, <1>5
<1>7. /\ \A q \in SceneRuns : RecallStands(q)'
      /\ \A i \in DOMAIN conclusions' : Stands(i)'
  BY <1>3, <1>4, <1>6, MemoryKept DEF Proceeds
<1>8. \A s \in deletedScenes' : scenes'[s] = NoScene
  BY DEF WorkspaceInv, Proceeds
<1>. QED
  BY <1>3, <1>4, <1>6, <1>7, <1>8 DEF WorkspaceInv

LEMMA EndKept ==
  ASSUME WorkspaceInv, NEW r \in SceneRuns,
         FailWorkspaceRun(r) \/ \E s \in Settlements : SettleWorkspaceRun(r, s)
  PROVE  WorkspaceInv'
<1>1. /\ inScene' = inScene /\ sceneRead' = sceneRead /\ recall' = recall
      /\ conclusions' = conclusions /\ corrections' = corrections
      /\ memoryErrors' = memoryErrors /\ memoryErrors \in Nat
      /\ workspaces' = workspaces /\ scenes' = scenes /\ deletedScenes' = deletedScenes
      /\ course[r] # "running" \/ recall[r] = NoRecall
      /\ settledAs \in [SceneRuns -> Settlements \union {"none"}]
  BY DEF FailWorkspaceRun, SettleWorkspaceRun, sceneVars, WorkspaceInv, WorkspacesTyped,
         RecallStands
<1>2. CASE FailWorkspaceRun(r)
  <2>1. Proceeds(r, "failed") /\ HasRow(r) /\ settledAs' = settledAs
    BY <1>1, <1>2 DEF FailWorkspaceRun, Proceeds, Courses, HasRow
  <2>. QED
    BY <1>1, <2>1, QuietKept
<1>3. ASSUME NEW s \in Settlements, SettleWorkspaceRun(r, s) PROVE WorkspaceInv'
  <2>1. /\ Proceeds(r, "settled") /\ HasRow(r) /\ course[r] = "recalled"
        /\ settledAs' = [settledAs EXCEPT ![r] = s]
    BY <1>1, <1>3 DEF SettleWorkspaceRun, Proceeds, Courses, HasRow
  <2>2. /\ settledAs'[r] \in Settlements
        /\ settledAs' \in [SceneRuns -> Settlements \union {"none"}]
        /\ \A q \in SceneRuns \ {r} : settledAs'[q] = settledAs[q]
    BY <1>1, <2>1
  <2>. QED
    BY <1>1, <2>1, <2>2, QuietKept
<1>. QED
  BY <1>2, <1>3

LEMMA MemoryTyped ==
  ASSUME NEW w \in WorkspaceIds, NEW r \in SceneRuns,
         NEW kind \in Settlements \union {"correction"}, NEW text \in Conclusions,
         NEW confidence \in {30, 60, 70}
  PROVE  [workspace |-> w, run |-> r, kind |-> kind, text |-> text,
          confidence |-> confidence] \in Memory
  BY DEF Memory

LEMMA PersistKept ==
  ASSUME WorkspaceInv, NEW r \in SceneRuns, PersistRunMemory(r)
  PROVE  WorkspaceInv'
<1>1. /\ inScene' = inScene /\ sceneRead' = sceneRead /\ recall' = recall
      /\ settledAs' = settledAs /\ corrections' = corrections /\ course[r] = "settled"
      /\ workspaces' = workspaces /\ scenes' = scenes /\ deletedScenes' = deletedScenes
      /\ settledAs \in [SceneRuns -> Settlements \union {"none"}]
  BY DEF PersistRunMemory, sceneVars, WorkspaceInv, WorkspacesTyped
<1>2. WorkspacesTyped /\ settledAs[r] \in Settlements
  BY <1>1 DEF WorkspaceInv
<1>3. Proceeds(r, "remembered") /\ HasRow(r)
  BY <1>1 DEF PersistRunMemory, Proceeds, Courses, HasRow
<1>4. CASE MemoryError /\ UNCHANGED conclusions
  <2>1. memoryErrors' \in Nat
    BY <1>2, <1>4 DEF MemoryError, WorkspacesTyped
  <2>. QED
    BY <1>1, <1>3, <1>4, <2>1, QuietKept
<1>5. ASSUME NEW text \in Conclusions, memoryErrors' = memoryErrors,
             CreateMemoryOf(r, settledAs[r], text, IF settledAs[r] = "completed" THEN 60 ELSE 30)
      PROVE  WorkspaceInv'
  <2>. DEFINE sure == IF settledAs[r] = "completed" THEN 60 ELSE 30
  <2>1. PICK m : m = [workspace |-> sceneRead[r], run |-> r, kind |-> settledAs[r],
                      text |-> text, confidence |-> sure]
    OBVIOUS
  <2>2. sceneRead[r] \in workspaces /\ workspaces \subseteq WorkspaceIds
    BY <1>1, <1>2 DEF WorkspaceInv, SceneStands, WorkspacesTyped
  <2>3. m \in Memory /\ conclusions' = Append(conclusions, m)
    <3>1. sure \in {30, 60, 70} /\ sceneRead[r] \in WorkspaceIds
      BY <2>2
    <3>. HIDE DEF sure
    <3>2. PICK kind : kind = settledAs[r] /\ kind \in Settlements \union {"correction"}
      BY <1>2
    <3>3. PICK w \in WorkspaceIds, n \in {30, 60, 70} : w = sceneRead[r] /\ n = sure
      BY <3>1
    <3>4. [workspace |-> w, run |-> r, kind |-> kind, text |-> text, confidence |-> n]
            \in Memory
      <4>1. text \in Conclusions /\ r \in SceneRuns
        BY <1>5
      <4>2. kind \in Settlements \union {"correction"}
        BY <3>2
      <4>. QED
        BY <3>3, <4>1, <4>2 DEF Memory
    <3>5. m \in Memory
      BY <2>1, <3>2, <3>3, <3>4
    <3>6. CreateMemoryOf(r, settledAs[r], text, sure)
      BY <1>5 DEF sure
    <3>. QED
      BY <2>1, <3>5, <3>6 DEF CreateMemoryOf
  <2>4. /\ m.run = r /\ m.workspace \in workspaces /\ m.kind = settledAs[r]
        /\ (m.confidence = 60) <=> (m.kind = "completed")
    BY <2>1, <2>2
  <2>5. /\ course' \in [SceneRuns -> Courses] /\ course'[r] = "remembered"
        /\ \A q \in SceneRuns \ {r} : course'[q] = course[q]
    BY <1>3, CourseGoes
  <2>6. \A q \in SceneRuns : SceneStands(q)' /\ (HasRow(q) => HasRow(q)')
    BY <1>1, <1>3, WorkKeepsScenes
  <2>7. conclusions' \in Seq(Memory)
    BY <1>2, <2>3, MemoryAppended DEF WorkspacesTyped
  <2>8. WorkspacesTyped'
    <3>. HIDE DEF Memory
    <3>. QED
      BY <1>1, <1>2, <1>5, <2>5, <2>7 DEF WorkspacesTyped
  <2>9. \A q \in SceneRuns :
          /\ course[q] \in {"remembered", "failed"} => course'[q] \in {"remembered", "failed"}
          /\ course[q] \notin {"idle", "read", "refused", "running"} =>
               course'[q] \notin {"idle", "read", "refused", "running"}
    BY <2>5
  <2>10. HasRow(m.run)' /\ course'[m.run] \in {"remembered", "failed"}
    BY <2>4, <2>5 DEF HasRow
  <2>11. m.kind # "correction" =>
           /\ course[m.run] \notin {"remembered", "failed"}
           /\ course'[m.run] \in {"remembered", "failed"} /\ m.kind = settledAs[m.run]
           /\ (m.confidence = 60) <=> (m.kind = "completed")
    BY <1>1, <2>4, <2>10
  <2>12. /\ \A q \in SceneRuns : RecallStands(q)'
         /\ \A i \in DOMAIN conclusions' : Stands(i)'
    BY <1>1, <2>3, <2>4, <2>6, <2>8, <2>9, <2>10, <2>11, MemoryAdded
  <2>13. \A q \in SceneRuns : course'[q] = "settled" => settledAs'[q] \in Settlements
    BY <1>1, <2>5 DEF WorkspaceInv
  <2>14. \A s \in deletedScenes' : scenes'[s] = NoScene
    BY <1>1 DEF WorkspaceInv
  <2>. QED
    BY <2>6, <2>8, <2>12, <2>13, <2>14 DEF WorkspaceInv
<1>. QED
  BY <1>4, <1>5 DEF PersistRunMemory

LEMMA CorrectionKept ==
  ASSUME WorkspaceInv, NEW r \in SceneRuns, CorrectRun(r)
  PROVE  WorkspaceInv'
<1>1. /\ inScene' = inScene /\ sceneRead' = sceneRead /\ recall' = recall /\ course' = course
      /\ settledAs' = settledAs /\ memoryErrors' = memoryErrors /\ HasRow(r)
      /\ workspaces' = workspaces /\ scenes' = scenes /\ deletedScenes' = deletedScenes
  BY DEF CorrectRun, sceneVars
<1>2. WorkspacesTyped /\ corrections' \in Nat
  BY DEF WorkspaceInv, WorkspacesTyped, CorrectRun
<1>3. sceneRead[r] \in workspaces /\ workspaces \subseteq WorkspaceIds
  BY <1>1, <1>2 DEF WorkspaceInv, SceneStands, WorkspacesTyped, HasRow
<1>4. PICK text \in Conclusions : CreateMemoryOf(r, "correction", text, 70)
  BY DEF CorrectRun
<1>5. PICK m : m = [workspace |-> sceneRead[r], run |-> r, kind |-> "correction",
                    text |-> text, confidence |-> 70]
  OBVIOUS
<1>6. m \in Memory /\ conclusions' = Append(conclusions, m)
  <2>1. sceneRead[r] \in WorkspaceIds
    BY <1>3
  <2>2. m \in Memory
    BY <1>5, <2>1, MemoryTyped
  <2>. QED
    BY <1>4, <1>5, <2>2 DEF CreateMemoryOf
<1>7. m.run = r /\ m.workspace \in workspaces /\ m.kind = "correction" /\ HasRow(m.run)'
  BY <1>1, <1>3, <1>5 DEF HasRow
<1>8. conclusions' \in Seq(Memory)
  BY <1>2, <1>6, MemoryAppended DEF WorkspacesTyped
<1>9. WorkspacesTyped'
  <2>. HIDE DEF Memory
  <2>. QED
    BY <1>1, <1>2, <1>8 DEF WorkspacesTyped
<1>10. /\ \A q \in SceneRuns : RecallStands(q)'
       /\ \A i \in DOMAIN conclusions' : Stands(i)'
  <2>1. \A q \in SceneRuns :
          /\ HasRow(q) => HasRow(q)'
          /\ course[q] \in {"remembered", "failed"} => course'[q] \in {"remembered", "failed"}
          /\ course[q] \notin {"idle", "read", "refused", "running"} =>
               course'[q] \notin {"idle", "read", "refused", "running"}
    BY <1>1 DEF HasRow
  <2>. QED
    BY <1>1, <1>6, <1>7, <1>9, <2>1, MemoryAdded
<1>. QED
  BY <1>1, <1>9, <1>10 DEF WorkspaceInv, SceneStands, HasRow

LEMMA WorkspaceInvKept ==
  ASSUME WorkspaceInv, [WorkspacesNext]_workspaceVars
  PROVE  WorkspaceInv'
<1>1. CASE CreateRequest \/ DeleteRequest
  BY <1>1, SpacesKept
<1>2. CASE \E r \in SceneRuns : ReadScene(r) \/ CreateRunRow(r)
  BY <1>2, StartKept
<1>3. CASE \E r \in SceneRuns : Recall(r)
  BY <1>3, RecallStepKept
<1>4. CASE \E r \in SceneRuns :
             FailWorkspaceRun(r) \/ \E s \in Settlements : SettleWorkspaceRun(r, s)
  BY <1>4, EndKept
<1>5. CASE \E r \in SceneRuns : PersistRunMemory(r)
  BY <1>5, PersistKept
<1>6. CASE \E r \in SceneRuns : CorrectRun(r)
  BY <1>6, CorrectionKept
<1>7. CASE UNCHANGED workspaceVars
  <2>1. WorkspacesTyped' /\ \A r \in SceneRuns : SceneStands(r)'
    BY <1>7 DEF workspaceVars, sceneVars, WorkspaceInv, WorkspacesTyped, SceneStands, HasRow
  <2>2. /\ \A q \in SceneRuns : RecallStands(q)'
        /\ \A i \in DOMAIN conclusions' : Stands(i)'
    <3>1. \A q \in SceneRuns :
            /\ HasRow(q) => HasRow(q)'
            /\ recall[q] # NoRecall => course[q] \notin {"idle", "read", "refused", "running"}
      BY <1>7 DEF workspaceVars, HasRow, WorkspaceInv, RecallStands
    <3>. QED
      BY <1>7, <2>1, <3>1, MemoryKept DEF workspaceVars, sceneVars
  <2>. QED
    BY <1>7, <2>1, <2>2 DEF workspaceVars, sceneVars, WorkspaceInv
<1>. QED
  BY <1>1, <1>2, <1>3, <1>4, <1>5, <1>6, <1>7 DEF WorkspacesNext, Settlements

LEMMA WorkspaceInvAlways == WorkspacesSpec => []WorkspaceInv
<1>1. WorkspacesInit => WorkspaceInv
  BY WorkspaceInvInitially
<1>2. WorkspaceInv /\ [WorkspacesNext]_workspaceVars => WorkspaceInv'
  BY WorkspaceInvKept
<1>. QED
  BY <1>1, <1>2, PTL DEF WorkspacesSpec

(* The rows of workspaces, scenes, runs and memories keep their types, and *)
(* every memory is of a workspace and a run that exist.                    *)
THEOREM WorkspacesTypesHold == WorkspacesSpec => []WorkspacesTypeOK
<1>1. WorkspaceInv => WorkspacesTypeOK
  BY DEF WorkspaceInv, WorkspacesTyped, SceneStands, Stands, WorkspacesTypeOK
<1>. QED
  BY <1>1, WorkspaceInvAlways, PTL

(* Whatever is created, deleted, failed or corrected meanwhile, a run's    *)
(* row names no scene but a living one of its workspace, a conclusion is   *)
(* left once and as its run was settled, and what search_memory recalls is *)
(* the best that the run's own workspace had learnt.                       *)
THEOREM RecallStaysLocalHolds == WorkspacesSpec => []RecallStaysLocal
<1>1. WorkspaceInv => ScenesAreLive
  BY DEF WorkspaceInv, WorkspacesTyped, SceneStands, ScenesAreLive, HasRow
<1>2. WorkspaceInv => ConclusionsAreSettled
  BY DEF WorkspaceInv, Stands, ConclusionsAreSettled
<1>3. WorkspaceInv => \A r \in SceneRuns : recall[r] # NoRecall => RecallIsBest(r)
  BY DEF WorkspaceInv, RecallStands
<1>. QED
  BY <1>1, <1>2, <1>3, WorkspaceInvAlways, PTL DEF RecallStaysLocal

(* A run starts from nothing but what its own workspace had learnt and the *)
(* index held lately, whatever its threads, the requests and the index do  *)
(* between the search and the run's end.                                   *)
THEOREM RecallAlwaysHolds == ContextSpec => []RecallHolds
  BY RecallStaysLocalHolds, RetrievalAlwaysHolds, PTL DEF ContextSpec, RecallHolds
----------------------------------------------------------------------------
(* Badcases: the clusters of a greedy pass, and the way to the index.      *)

LEMMA EntriesBelong ==
  ASSUME NEW U, NEW q \in Seq(U), NEW i \in 1 .. Len(q)
  PROVE  q[i] \in U
  OBVIOUS

(* The order of the rows, and the clusters that a badcase would join.      *)
Decreasing(T) == {p \in T \X T : p[1] > p[2]}
Hits(th, clusters, b) == {i \in 1 .. Len(clusters) : Alike(th, b, Head(clusters[i]))}
Joined(clusters, i, b) == [clusters EXCEPT ![i] = Append(clusters[i], b)]

LEMMA AssignTyped ==
  ASSUME NEW th, NEW T, NEW clusters \in Seq(Seq(T)), NEW b \in T
  PROVE  /\ Hits(th, clusters, b) = {} => Assign(th, clusters, b) = Append(clusters, <<b>>)
         /\ Hits(th, clusters, b) # {} => \E i \in Hits(th, clusters, b) :
              Assign(th, clusters, b) = Joined(clusters, i, b)
         /\ Assign(th, clusters, b) \in Seq(Seq(T))
<1>. DEFINE n == Len(clusters)
            hits == Hits(th, clusters, b)
            least == CHOOSE i \in hits : \A j \in hits : i <= j
<1>1. n \in Nat /\ DOMAIN clusters = 1 .. n /\ <<b>> \in Seq(T)
  OBVIOUS
<1>2. CASE hits = {}
  <2>1. Assign(th, clusters, b) = Append(clusters, <<b>>)
    BY <1>2 DEF Assign, Hits
  <2>2. Append(clusters, <<b>>) \in Seq(Seq(T))
    <3>. DEFINE U == Seq(T)
    <3>. HIDE DEF U
    <3>1. clusters \in Seq(U) /\ <<b>> \in U
      BY <1>1 DEF U
    <3>. QED
      BY <3>1 DEF U
  <2>. QED
    BY <1>2, <2>1, <2>2
<1>3. CASE hits # {}
  <2>1. Assign(th, clusters, b) = [clusters EXCEPT ![least] = Append(clusters[least], b)]
    BY <1>3 DEF Assign, Hits
  <2>2. least \in hits
    <3>1. hits \in SUBSET Int /\ IsFiniteSet(hits)
      <4>1. hits \in SUBSET Nat /\ \A i \in hits : i <= n
        BY <1>1 DEF Hits
      <4>2. IsFiniteSet(hits)
        BY <1>1, <4>1, FS_BoundedSetOfNaturals
      <4>. QED
        BY <4>1, <4>2
    <3>. HIDE DEF hits
    <3>2. \E i \in hits : \A j \in hits : i <= j
      BY <1>3, <3>1, ExtremesExist
    <3>. QED
      BY <3>2
  <2>. HIDE DEF least
  <2>3. least \in 1 .. n /\ clusters[least] \in Seq(T)
    BY <1>1, <2>2 DEF Hits
  <2>4. Append(clusters[least], b) \in Seq(T)
    BY <2>3
  <2>5. [clusters EXCEPT ![least] = Append(clusters[least], b)] \in Seq(Seq(T))
    <3>. DEFINE U == Seq(T)
    <3>. HIDE DEF U
    <3>1. clusters \in Seq(U) /\ Append(clusters[least], b) \in U
      BY <2>4 DEF U
    <3>. QED
      BY <1>1, <2>3, <3>1 DEF U
  <2>. QED
    BY <1>3, <2>1, <2>2, <2>5 DEF Joined
<1>. QED
  BY <1>2, <1>3

(* rows is T from the newest to the oldest, and f what clustering S made   *)
(* of the first of them.                                                   *)
Clusters(th, S, T, rows, f) ==
  /\ Lists(rows, T, Decreasing(T))
  /\ f \in [0 .. Cardinality(T) -> Seq(Seq(T))]
  /\ f[0] = <<>>
  /\ \A i \in 1 .. Cardinality(T) : f[i] = Assign(th, f[i - 1], rows[i])
  /\ Cluster(th, S) = f[Cardinality(T)]

(* Clustering a finite set of rows goes through them from the newest to    *)
(* the oldest.                                                             *)
LEMMA ClusterSteps ==
  ASSUME NEW th, NEW S, NEW T, T = S \cap corrected, T \in SUBSET Nat, IsFiniteSet(T)
  PROVE  \E rows, f : Clusters(th, S, T, rows, f)
<1>. DEFINE n == Cardinality(T)
            rows == NewestFirst(T)
            V == Seq(Seq(T))
            next == [p \in (1 .. n) \X V |-> Assign(th, p[2], rows[p[1]])]
            Adds(f) ==
              f = [i \in 0 .. n |-> IF i = 0 THEN <<>> ELSE Assign(th, f[i - 1], rows[i])]
<1>1. n \in Nat
  BY FS_CardinalityType
<1>2. Lists(rows, T, Decreasing(T))
  <2>. DEFINE R == Decreasing(T)
              rank == [x \in T |-> Cardinality({y \in T : Newer(y, x)})]
  <2>1. \A x, y \in T : x \in Int /\ (<<x, y>> \in R <=> x > y)
    BY DEF Decreasing
  <2>2. Orders(R, T)
    <3>. HIDE DEF R
    <3>. QED
      BY <2>1 DEF Orders
  <2>3. \A x \in T : rank[x] = Cardinality(Below(R, T, x))
    <3>1. \A x \in T : Below(R, T, x) = {y \in T : Newer(y, x)}
      BY <2>1 DEF Below, Newer
    <3>. QED
      BY <3>1
  <2>4. rows = Enumerated(T, rank)
    BY DEF NewestFirst, SortedBy
  <2>. HIDE DEF R, rank, rows
  <2>5. Lists(Enumerated(T, rank), T, R)
    BY <2>2, <2>3, RanksEnumerate
  <2>. QED
    BY <2>4, <2>5 DEF R
<1>3. \A i \in 1 .. n : rows[i] \in T
  <2>. HIDE DEF rows
  <2>. QED
    BY <1>2 DEF Lists
<1>. HIDE DEF rows
<1>4. next \in [(1 .. n) \X V -> V]
  <2>1. ASSUME NEW p \in (1 .. n) \X V PROVE Assign(th, p[2], rows[p[1]]) \in V
    BY <1>3, AssignTyped
  <2>. HIDE DEF V
  <2>. QED
    BY <2>1
<1>5. <<>> \in V
  OBVIOUS
<1>6. PICK f \in [0 .. n -> V] : Recurs(f, n, <<>>, next)
  <2>. HIDE DEF V, next, n
  <2>. QED
    BY <1>1, <1>4, <1>5, StepsExist
<1>7. Adds(f)
  <2>1. ASSUME NEW i \in 0 .. n
        PROVE  f[i] = IF i = 0 THEN <<>> ELSE Assign(th, f[i - 1], rows[i])
    <3>1. f[i] = IF i = 0 THEN <<>> ELSE next[<<i, f[i - 1]>>]
      BY <1>6 DEF Recurs
    <3>2. i # 0 => i \in 1 .. n /\ i - 1 \in 0 .. n
      BY <1>1
    <3>3. i # 0 => f[i - 1] \in V
      BY <1>6, <3>2
    <3>4. i # 0 => next[<<i, f[i - 1]>>] = Assign(th, f[i - 1], rows[i])
      <4>. HIDE DEF V
      <4>. QED
        BY <3>2, <3>3
    <3>. QED
      BY <3>1, <3>4
  <2>2. DOMAIN f = 0 .. n /\ f = [i \in 0 .. n |-> f[i]]
    BY <1>6
  <2>. QED
    BY <2>1, <2>2
<1>. DEFINE h == CHOOSE g : Adds(g)
<1>8. Adds(h)
  BY <1>7
<1>9. Cluster(th, S) = h[n]
  BY DEF Cluster, rows
<1>10. h[0] = <<>> /\ \A i \in 1 .. n : h[i] = Assign(th, h[i - 1], rows[i])
  <2>. HIDE DEF h
  <2>1. \A i \in 0 .. n : h[i] = IF i = 0 THEN <<>> ELSE Assign(th, h[i - 1], rows[i])
    BY <1>8
  <2>2. /\ 0 \in 0 .. n
        /\ \A i \in 1 .. n : i \in 0 .. n /\ i # 0
    BY <1>1
  <2>. QED
    BY <2>1, <2>2
<1>11. \A clusters \in V, b \in T : Assign(th, clusters, b) \in V
  BY AssignTyped
<1>12. h \in [0 .. n -> V]
  <2>. DEFINE A == {i \in Nat : i <= n => h[i] \in V}
  <2>. HIDE DEF h, V
  <2>1. 0 \in A
    BY <1>5, <1>10
  <2>2. ASSUME NEW i \in A PROVE i + 1 \in A
    <3>. SUFFICES ASSUME i + 1 <= n PROVE h[i + 1] \in V
      OBVIOUS
    <3>1. i + 1 \in 1 .. n /\ (i + 1) - 1 = i /\ h[i] \in V
      BY <1>1
    <3>2. h[i + 1] = Assign(th, h[i], rows[i + 1])
      BY <1>10, <3>1
    <3>. QED
      BY <1>3, <1>11, <3>1, <3>2
  <2>3. A \in SUBSET Nat
    OBVIOUS
  <2>4. \A i \in Nat : i \in A
    <3>. HIDE DEF A
    <3>. QED
      BY <2>1, <2>2, <2>3, SetInduction
  <2>5. \A i \in 0 .. n : h[i] \in V
    <3>1. \A i \in 0 .. n : i \in Nat /\ i <= n
      BY <1>1
    <3>. HIDE DEF n
    <3>. QED
      BY <2>4, <3>1
  <2>6. h = [i \in 0 .. n |-> h[i]]
    BY <1>8
  <2>. QED
    BY <2>5, <2>6
<1>. HIDE DEF h, V
<1>13. Clusters(th, S, T, rows, h)
  BY <1>2, <1>9, <1>10, <1>12 DEF V, Clusters
<1>. QED
  BY <1>13

(* A cluster that the first i rows have made: its first member is the      *)
(* newest, and all the others are alike enough to it.                      *)
ClusterStands(th, c, rows, i) ==
  /\ c # <<>>
  /\ \A k \in 1 .. Len(c) :
       /\ c[k] <= c[1]
       /\ k = 1 \/ Alike(th, c[k], c[1])
       /\ \E m \in 1 .. i : rows[m] = c[k]

LEMMA ClusterGrows ==
  ASSUME NEW th, NEW T \in SUBSET Nat, NEW rows, NEW i \in Nat, NEW b \in T, rows[i + 1] = b,
         \A m \in 1 .. i : rows[m] > b,
         NEW c \in Seq(T), ClusterStands(th, c, rows, i), Alike(th, b, c[1])
  PROVE  ClusterStands(th, Append(c, b), rows, i + 1)
<1>. DEFINE d == Append(c, b)
<1>1. /\ Len(c) \in Nat /\ Len(c) > 0 /\ Len(d) = Len(c) + 1 /\ d # <<>>
      /\ \A k \in 1 .. Len(c) : d[k] = c[k] /\ c[k] \in T
      /\ d[Len(c) + 1] = b
  BY DEF ClusterStands
<1>. HIDE DEF d
<1>2. 1 \in 1 .. Len(c)
  BY <1>1
<1>3. d[1] = c[1] /\ c[1] \in Nat /\ b \in Nat
  BY <1>1, <1>2
<1>4. b <= c[1]
  <2>1. PICK m \in 1 .. i : rows[m] = c[1]
    BY <1>2 DEF ClusterStands
  <2>. QED
    BY <1>3, <2>1
<1>5. \A m \in 1 .. i : m \in 1 .. i + 1
  OBVIOUS
<1>6. i + 1 \in 1 .. i + 1
  OBVIOUS
<1>7. ASSUME NEW k \in 1 .. Len(d)
      PROVE  /\ d[k] <= d[1] /\ (k = 1 \/ Alike(th, d[k], d[1]))
             /\ \E m \in 1 .. i + 1 : rows[m] = d[k]
  <2>1. CASE k \in 1 .. Len(c)
    BY <1>1, <1>3, <1>5, <2>1 DEF ClusterStands
  <2>2. CASE k = Len(c) + 1
    BY <1>1, <1>3, <1>4, <1>6, <2>2
  <2>. QED
    BY <1>1, <2>1, <2>2
<1>. QED
  BY <1>1, <1>7 DEF ClusterStands, d

LEMMA AssignStands ==
  ASSUME NEW th, NEW T \in SUBSET Feedback, NEW rows, NEW i \in Nat, NEW b \in T, rows[i + 1] = b,
         \A m \in 1 .. i : rows[m] > b,
         NEW clusters \in Seq(Seq(T)),
         \A j \in 1 .. Len(clusters) : ClusterStands(th, clusters[j], rows, i)
  PROVE  \A j \in 1 .. Len(Assign(th, clusters, b)) :
           ClusterStands(th, Assign(th, clusters, b)[j], rows, i + 1)
<1>. DEFINE n == Len(clusters)
            hits == Hits(th, clusters, b)
            U == Seq(T)
<1>1. n \in Nat /\ DOMAIN clusters = 1 .. n /\ \A j \in 1 .. n : clusters[j] \in Seq(T)
  OBVIOUS
<1>2. \A m \in 1 .. i : m \in 1 .. i + 1
  OBVIOUS
<1>3. \A j \in 1 .. n : ClusterStands(th, clusters[j], rows, i + 1)
  BY <1>2 DEF ClusterStands
<1>4. T \in SUBSET Nat /\ b <= b
  BY BadcaseAssumption
<1>5. ASSUME hits = {}
      PROVE  \A j \in 1 .. Len(Assign(th, clusters, b)) :
               ClusterStands(th, Assign(th, clusters, b)[j], rows, i + 1)
  <2>1. Assign(th, clusters, b) = Append(clusters, <<b>>)
    BY <1>5, AssignTyped
  <2>2. clusters \in Seq(U) /\ <<b>> \in U
    OBVIOUS
  <2>3. ClusterStands(th, <<b>>, rows, i + 1)
    <3>1. i + 1 \in 1 .. i + 1 /\ Len(<<b>>) = 1 /\ <<b>>[1] = b /\ <<b>> # <<>>
      OBVIOUS
    <3>2. \A k \in 1 .. Len(<<b>>) : k = 1
      BY <3>1
    <3>3. PICK c : c = <<b>>
      OBVIOUS
    <3>. QED
      BY <1>4, <3>1, <3>2, <3>3 DEF ClusterStands
  <2>4. /\ Len(Append(clusters, <<b>>)) = n + 1
        /\ \A j \in 1 .. n : Append(clusters, <<b>>)[j] = clusters[j]
        /\ Append(clusters, <<b>>)[n + 1] = <<b>>
    <3>. HIDE DEF U
    <3>. QED
      BY <2>2
  <2>5. \A j \in 1 .. n + 1 : j \in 1 .. n \/ j = n + 1
    BY <1>1
  <2>. QED
    BY <1>3, <2>1, <2>3, <2>4, <2>5
<1>6. ASSUME hits # {}
      PROVE  \A j \in 1 .. Len(Assign(th, clusters, b)) :
               ClusterStands(th, Assign(th, clusters, b)[j], rows, i + 1)
  <2>1. PICK h \in hits : Assign(th, clusters, b) = Joined(clusters, h, b)
    BY <1>6, AssignTyped
  <2>2. h \in 1 .. n /\ clusters[h] \in Seq(T) /\ Alike(th, b, Head(clusters[h]))
    BY <1>1 DEF Hits
  <2>3. ClusterStands(th, clusters[h], rows, i)
    BY <2>2
  <2>4. Head(clusters[h]) = clusters[h][1]
    BY <2>2, <2>3 DEF ClusterStands
  <2>5. ClusterStands(th, Append(clusters[h], b), rows, i + 1)
    BY <1>4, <2>2, <2>3, <2>4, ClusterGrows
  <2>6. Append(clusters[h], b) \in U
    BY <2>2
  <2>. HIDE DEF U, hits
  <2>7. /\ Len(Assign(th, clusters, b)) = n
        /\ \A j \in 1 .. n : Assign(th, clusters, b)[j] =
             IF j = h THEN Append(clusters[h], b) ELSE clusters[j]
    <3>1. clusters \in Seq(U)
      BY DEF U
    <3>. QED
      BY <1>1, <2>1, <2>2, <2>6, <3>1 DEF Joined
  <2>. QED
    BY <1>3, <2>5, <2>7
<1>. QED
  BY <1>5, <1>6

(* Every member of a cluster is alike enough to its newest.                *)
LEMMA GreedyClusters ==
  ASSUME NEW th, NEW S, NEW T, T = S \cap corrected, T \in SUBSET Feedback, IsFiniteSet(T),
         NEW C \in ClusterSets(th, S)
  PROVE  C \subseteq T /\ \E h \in C : \A b \in C : b <= h /\ (b = h \/ Alike(th, b, h))
<1>. DEFINE n == Cardinality(T)
<1>0. T \in SUBSET Nat /\ n \in Nat
  BY BadcaseAssumption, FS_CardinalityType
<1>10. PICK rows, f : Clusters(th, S, T, rows, f)
  BY <1>0, ClusterSteps
<1>1. /\ Lists(rows, T, Decreasing(T))
      /\ f \in [0 .. n -> Seq(Seq(T))]
      /\ f[0] = <<>>
      /\ \A i \in 1 .. n : f[i] = Assign(th, f[i - 1], rows[i])
      /\ Cluster(th, S) = f[n]
  BY <1>10 DEF Clusters
<1>2. /\ \A i \in 1 .. n : rows[i] \in T
      /\ \A i, j \in 1 .. n : i < j => rows[i] > rows[j]
  BY <1>1 DEF Lists, Decreasing
<1>. DEFINE Good(i) == \A j \in 1 .. Len(f[i]) : ClusterStands(th, f[i][j], rows, i)
            A == {i \in Nat : i <= n => Good(i)}
<1>. HIDE DEF n
<1>3. 0 \in A
  <2>1. Len(f[0]) = 0
    BY <1>1
  <2>2. Good(0)
    BY <2>1
  <2>. HIDE DEF Good
  <2>. QED
    BY <2>2
<1>4. ASSUME NEW i \in A PROVE i + 1 \in A
  <2>. SUFFICES ASSUME i + 1 <= n PROVE Good(i + 1)
    OBVIOUS
  <2>1. i \in Nat /\ i \in 0 .. n /\ i + 1 \in 1 .. n /\ (i + 1) - 1 = i /\ Good(i)
    BY <1>0
  <2>2. f[i + 1] = Assign(th, f[i], rows[i + 1])
    BY <1>1, <2>1
  <2>3. rows[i + 1] \in T /\ \A m \in 1 .. i : rows[m] > rows[i + 1]
    <3>1. \A m \in 1 .. i : m \in 1 .. n /\ m < i + 1
      BY <1>0, <2>1
    <3>. QED
      BY <1>2, <2>1, <3>1
  <2>4. f[i] \in Seq(Seq(T))
    BY <1>1, <2>1
  <2>5. PICK clusters \in Seq(Seq(T)), b \in T : clusters = f[i] /\ b = rows[i + 1]
    BY <2>3, <2>4
  <2>6. \A j \in 1 .. Len(Assign(th, clusters, b)) :
          ClusterStands(th, Assign(th, clusters, b)[j], rows, i + 1)
    BY <2>1, <2>3, <2>5, AssignStands
  <2>. QED
    BY <2>2, <2>5, <2>6
<1>5. Good(n)
  <2>1. A \in SUBSET Nat
    OBVIOUS
  <2>2. \A i \in Nat : i \in A
    <3>. HIDE DEF A
    <3>. QED
      BY <1>3, <1>4, <2>1, SetInduction
  <2>3. n \in A /\ n <= n
    BY <1>0, <2>2
  <2>. HIDE DEF Good
  <2>. QED
    BY <2>3
<1>6. f[n] \in Seq(Seq(T))
  BY <1>0, <1>1
<1>7. PICK j \in DOMAIN f[n] : C = Range(f[n][j])
  <2>1. PICK c \in Range(f[n]) : C = Range(c)
    BY <1>1 DEF ClusterSets
  <2>. QED
    BY <2>1 DEF Range
<1>8. PICK c \in Seq(T) : c = f[n][j] /\ ClusterStands(th, c, rows, n)
  <2>. DEFINE U == Seq(T)
  <2>. HIDE DEF U
  <2>1. f[n] \in Seq(U)
    BY <1>6 DEF U
  <2>2. j \in 1 .. Len(f[n]) /\ f[n][j] \in U
    BY <1>7, <2>1
  <2>. QED
    BY <1>5, <2>2 DEF U
<1>9. /\ C = {c[k] : k \in 1 .. Len(c)} /\ 1 \in 1 .. Len(c)
      /\ \A k \in 1 .. Len(c) : c[k] \in T
  <2>1. DOMAIN c = 1 .. Len(c) /\ Len(c) \in Nat /\ Len(c) # 0
    BY <1>8 DEF ClusterStands
  <2>. QED
    BY <1>7, <1>8, <2>1 DEF Range
<1>11. c[1] \in C /\ C \subseteq T
  BY <1>9
<1>12. \A b \in C : b <= c[1] /\ (b = c[1] \/ Alike(th, b, c[1]))
  BY <1>8, <1>9 DEF ClusterStands
<1>. QED
  BY <1>11, <1>12

(* Rows that are all alike enough to the newest of them make one cluster.  *)
LEMMA OneCluster ==
  ASSUME NEW th, NEW S, NEW T, T = S \cap corrected, T \in SUBSET Feedback, IsFiniteSet(T),
         NEW h \in T, \A b \in T : b <= h /\ (b = h \/ Alike(th, b, h))
  PROVE  T \in ClusterSets(th, S)
<1>. DEFINE n == Cardinality(T)
<1>0. T \in SUBSET Nat /\ n \in Nat
  BY BadcaseAssumption, FS_CardinalityType
<1>10. PICK rows, f : Clusters(th, S, T, rows, f)
  BY <1>0, ClusterSteps
<1>1. /\ Lists(rows, T, Decreasing(T))
      /\ f \in [0 .. n -> Seq(Seq(T))]
      /\ f[0] = <<>>
      /\ \A i \in 1 .. n : f[i] = Assign(th, f[i - 1], rows[i])
      /\ Cluster(th, S) = f[n]
  BY <1>10 DEF Clusters
<1>2. /\ \A i \in 1 .. n : rows[i] \in T
      /\ \A i, j \in 1 .. n : i < j => rows[i] > rows[j]
      /\ \A x \in T : \E k \in 1 .. n : rows[k] = x
  BY <1>1 DEF Lists, Decreasing
<1>. HIDE DEF n
<1>3. 1 \in 1 .. n /\ rows[1] = h
  <2>1. PICK k \in 1 .. n : rows[k] = h
    BY <1>2
  <2>2. 1 \in 1 .. n /\ (k = 1 \/ 1 < k)
    BY <1>0, <2>1
  <2>3. h \in Nat /\ rows[1] \in Nat /\ rows[1] <= h
    BY <1>0, <1>2, <2>2
  <2>. QED
    BY <1>2, <2>1, <2>2, <2>3
<1>. DEFINE One(i) == /\ Len(f[i]) = 1
                      /\ Len(f[i][1]) = i
                      /\ \A k \in 1 .. i : f[i][1][k] = rows[k]
            A == {i \in Nat : i + 1 <= n => One(i + 1)}
<1>4. 0 \in A
  <2>1. 1 \in 1 .. n /\ 1 - 1 = 0
    BY <1>3
  <2>2. f[1] = Assign(th, <<>>, h)
    BY <1>1, <1>3, <2>1
  <2>3. <<>> \in Seq(Seq(T)) /\ Len(<<>>) = 0
    OBVIOUS
  <2>4. Hits(th, <<>>, h) = {}
    BY <2>3 DEF Hits
  <2>5. f[1] = Append(<<>>, <<h>>)
    BY <2>2, <2>3, <2>4, AssignTyped
  <2>6. f[1] = <<<<h>>>>
    BY <2>5
  <2>7. Len(f[1]) = 1 /\ f[1][1] = <<h>> /\ Len(<<h>>) = 1 /\ <<h>>[1] = h
    BY <2>6
  <2>8. \A k \in 1 .. 1 : k = 1
    OBVIOUS
  <2>9. One(1)
    BY <1>3, <2>7, <2>8
  <2>. HIDE DEF One
  <2>. QED
    BY <2>9
<1>5. ASSUME NEW i \in A PROVE i + 1 \in A
  <2>. SUFFICES ASSUME (i + 1) + 1 <= n PROVE One((i + 1) + 1)
    OBVIOUS
  <2>1. PICK j \in Nat \ {0} : j = i + 1
    OBVIOUS
  <2>2. /\ j \in 0 .. n /\ j + 1 \in 1 .. n /\ (j + 1) - 1 = j /\ One(j) /\ 1 \in 1 .. j
        /\ j <= n
    BY <1>0, <2>1
  <2>3. PICK clusters \in Seq(Seq(T)), b \in T : clusters = f[j] /\ b = rows[j + 1]
    BY <1>1, <1>2, <2>2
  <2>4. f[j + 1] = Assign(th, clusters, b)
    BY <1>1, <2>2, <2>3
  <2>. DEFINE U == Seq(T)
  <2>5. PICK c \in U : c = clusters[1]
    <3>. HIDE DEF U
    <3>1. clusters \in Seq(U) /\ Len(clusters) = 1
      BY <2>2, <2>3 DEF U
    <3>2. 1 \in 1 .. Len(clusters)
      BY <3>1
    <3>3. clusters[1] \in U
      BY <3>1, <3>2, EntriesBelong
    <3>. QED
      BY <3>3
  <2>6. Len(c) = j /\ \A k \in 1 .. j : c[k] = rows[k]
    BY <2>2, <2>3, <2>5
  <2>7. Head(c) = h
    <3>1. c # <<>> /\ c[1] = h
      BY <1>3, <2>2, <2>6
    <3>. QED
      BY <3>1
  <2>8. Hits(th, clusters, b) = {1}
    <3>0. Len(clusters) = 1
      BY <2>2, <2>3
    <3>1. \A k \in 1 .. Len(clusters) : k = 1
      BY <3>0
    <3>2. rows[1] > rows[j + 1]
      BY <1>2, <1>3, <2>2
    <3>3. b # h /\ h \in Nat
      BY <1>0, <1>3, <2>3, <3>2
    <3>4. Alike(th, b, Head(clusters[1])) /\ 1 \in 1 .. Len(clusters)
      BY <2>2, <2>3, <2>5, <2>7, <3>3
    <3>. QED
      BY <3>1, <3>4 DEF Hits
  <2>9. Assign(th, clusters, b) = Joined(clusters, 1, b)
    BY <2>8, AssignTyped
  <2>10. Append(c, b) \in U /\ Len(Append(c, b)) = j + 1 /\ Append(c, b)[j + 1] = b
         /\ \A k \in 1 .. j : Append(c, b)[k] = rows[k]
    <3>1. /\ Append(c, b) \in Seq(T)
          /\ Len(Append(c, b)) = Len(c) + 1
          /\ Append(c, b)[Len(c) + 1] = b
          /\ \A k \in 1 .. Len(c) : Append(c, b)[k] = c[k]
      BY <2>5
    <3>. HIDE DEF One
    <3>. QED
      BY <2>6, <3>1
  <2>11. Len(f[j + 1]) = 1 /\ f[j + 1][1] = Append(c, b)
    <3>. HIDE DEF U
    <3>1. clusters \in Seq(U) /\ Len(clusters) = 1
      BY <2>2, <2>3 DEF U
    <3>. QED
      BY <2>4, <2>5, <2>9, <2>10, <3>1 DEF Joined
  <2>12. \A k \in 1 .. j + 1 : k \in 1 .. j \/ k = j + 1
    OBVIOUS
  <2>13. One(j + 1)
    BY <2>3, <2>10, <2>11, <2>12
  <2>. HIDE DEF One
  <2>. QED
    BY <2>1, <2>13
<1>6. One(n)
  <2>1. A \in SUBSET Nat
    OBVIOUS
  <2>2. \A i \in Nat : i \in A
    <3>. HIDE DEF A
    <3>. QED
      BY <1>4, <1>5, <2>1, SetInduction
  <2>3. n - 1 \in Nat /\ (n - 1) + 1 = n
    BY <1>0, <1>3
  <2>4. n - 1 \in A
    BY <2>2, <2>3
  <2>. HIDE DEF One
  <2>. QED
    BY <1>0, <2>3, <2>4
<1>7. PICK c \in Seq(T) : c = f[n][1]
  <2>. DEFINE U == Seq(T)
  <2>1. f[n] \in Seq(Seq(T)) /\ Len(f[n]) = 1
    BY <1>0, <1>1, <1>6
  <2>. HIDE DEF U
  <2>2. f[n] \in Seq(U)
    BY <2>1 DEF U
  <2>3. f[n][1] \in U
    BY <2>1, <2>2
  <2>. QED
    BY <2>3 DEF U
<1>8. DOMAIN c = 1 .. n /\ \A k \in 1 .. n : c[k] = rows[k]
  BY <1>6, <1>7
<1>9. Range(c) = T
  BY <1>2, <1>8 DEF Range
<1>11. c \in Range(f[n])
  <2>1. 1 \in DOMAIN f[n]
    <3>1. f[n] \in Seq(Seq(T)) /\ Len(f[n]) = 1
      BY <1>0, <1>1, <1>6
    <3>. QED
      BY <3>1
  <2>. QED
    BY <1>7, <2>1 DEF Range
<1>. QED
  BY <1>1, <1>9, <1>11 DEF ClusterSets

(* A listed candidate is a cluster again when only its own members are     *)
(* clustered.                                                              *)
LEMMA CandidatesAreConfirmable ==
  ASSUME badcase \in SUBSET Feedback, corrected \subseteq badcase, IsFiniteSet(badcase)
  PROVE  ListedIsConfirmable
<1>. SUFFICES ASSUME NEW th \in Thresholds, th >= DefaultThreshold, NEW C \in Candidates(th)
              PROVE  C \in ClusterSets(DefaultThreshold, badcase \cap C)
  BY DEF ListedIsConfirmable, Confirmable
<1>. DEFINE S == {b \in badcase : review[b] = "confirmed"}
            T == S \cap corrected
<1>1. C \in ClusterSets(th, S)
  BY DEF Candidates
<1>2. T \in SUBSET badcase /\ T \in SUBSET Feedback /\ T \in SUBSET corrected
  OBVIOUS
<1>. HIDE DEF S
<1>3. IsFiniteSet(T)
  BY <1>2, FS_Subset
<1>4. C \subseteq T /\ \E h \in C : \A b \in C : b <= h /\ (b = h \/ Alike(th, b, h))
  BY <1>1, <1>2, <1>3, GreedyClusters
<1>. HIDE DEF T
<1>5. C \in SUBSET Feedback /\ C = (badcase \cap C) \cap corrected
  BY <1>2, <1>4
<1>6. IsFiniteSet(C)
  BY <1>3, <1>4, FS_Subset
<1>7. PICK h \in C : \A b \in C : b <= h /\ (b = h \/ Alike(th, b, h))
  BY <1>4
<1>8. ASSUME NEW b \in C, Alike(th, b, h) PROVE Alike(DefaultThreshold, b, h)
  <2>1. Likeness[<<b, h>>] \in Int /\ DefaultThreshold \in Int /\ th \in Int
    BY <1>5, BadcaseAssumption
  <2>. QED
    BY <1>8, <2>1 DEF Alike
<1>9. \A b \in C : b <= h /\ (b = h \/ Alike(DefaultThreshold, b, h))
  BY <1>7, <1>8
<1>. QED
  BY <1>5, <1>6, <1>9, OneCluster

(* Everything a badcase's document passes through on its way to the index. *)
Nowhere(v) ==
  /\ \A f \in DocFiles : local[f] # v /\ remote[f] # v /\ chunks[f][v] = 0
  /\ \A p \in Processes : content[p] # v

Unwritten == \A b \in Feedback \ confirmedOnce : Nowhere(BadcaseContent[b])

(* The rows; a row that is confirmed was once.                             *)
FeedbackTyped ==
  /\ review \in [Feedback -> {"none", "pending", "confirmed", "rejected"}]
  /\ corrected \subseteq badcase /\ memories \subseteq corrected
  /\ badcase \subseteq {b \in Feedback : review[b] # "none"}
  /\ IsFiniteSet(badcase)
  /\ confirmedOnce \subseteq badcase
  /\ \A b \in badcase : review[b] = "confirmed" => b \in confirmedOnce

(* Where the request of a promotion is; other jobs are not at the stores.  *)
Promoting == {"mirroring", "submitting", "creating", "enqueueing", "answering"}

JobHolds(c) ==
  /\ job[c] \in {"none", "remember", "draft", "promote", "confirm"}
  /\ subject[c] \in SUBSET Feedback
  /\ (job[c] = "none") <=> (subject[c] = {})
  /\ job[c] \in {"remember", "draft", "confirm"} => pc[c] = "idle"
  /\ job[c] \in {"draft", "promote"} => \E b \in confirmedOnce : subject[c] = {b}
  /\ job[c] = "promote" => /\ pc[c] \in Promoting
                           /\ \A b \in subject[c] : file[c] = BadcaseFile[b]

JobsHold == /\ job \in [Clients -> {"none", "remember", "draft", "promote", "confirm"}]
            /\ subject \in [Clients -> SUBSET Feedback]
            /\ \A c \in Clients : JobHolds(c)

(* A request that is about to answer has a task of its own file.           *)
TasksNamed ==
  \A c \in Clients : pc[c] \in {"enqueueing", "answering"} =>
    task[c] \in DocTasks /\ taskFile[task[c]] = file[c]

(* The mark of a promoted badcase.                                         *)
MarksHold ==
  /\ promotion \in [Feedback -> DocTasks \union {NoTask}]
  /\ \A b \in Feedback : promotion[b] # NoTask => /\ b \in confirmedOnce
                                                  /\ taskFile[promotion[b]] = BadcaseFile[b]

BadcaseInv ==
  DocInv /\ FeedbackTyped /\ JobsHold /\ Unwritten /\ TasksNamed /\ MarksHold

(* The file of a row never changes.                                        *)
RowsStay == /\ taskFile' \in [DocTasks -> DocFiles \union {NoDoc}]
            /\ \A t \in DocTasks : taskFile[t] # NoDoc => taskFile'[t] = taskFile[t]

RequestStays(c) == pc'[c] = pc[c] /\ file'[c] = file[c] /\ task'[c] = task[c]

LEMMA BadcaseInvInitially == BadcaseInit => BadcaseInv
<1>. SUFFICES ASSUME BadcaseInit PROVE BadcaseInv
  OBVIOUS
<1>1. DocInv
  BY DocInvInitially DEF BadcaseInit
<1>2. FeedbackTyped
  <2>1. PICK n : review = [b \in Feedback |-> IF b <= n THEN "pending" ELSE "none"]
    BY DEF BadcaseInit
  <2>2. \A b \in Feedback : review[b] \in {"none", "pending"}
    BY <2>1
  <2>. QED
    BY <2>1, <2>2, FS_EmptySet DEF BadcaseInit, FeedbackTyped
<1>3. JobsHold
  BY DEF BadcaseInit, JobsHold, JobHolds
<1>4. Unwritten
  BY BadcaseAssumption, DocAssumption
     DEF BadcaseInit, DocInit, Unwritten, Nowhere, NoChunks
<1>5. TasksNamed
  BY DEF BadcaseInit, DocInit, TasksNamed, Processes
<1>6. MarksHold
  BY DEF BadcaseInit, MarksHold
<1>. QED
  BY <1>1, <1>2, <1>3, <1>4, <1>5, <1>6 DEF BadcaseInv
----------------------------------------------------------------------------
(* What the steps of the documents leave alone.                            *)

LEMMA DeletionSpares ==
  ASSUME StoresTyped, NEW f \in DocFiles, NEW v \in Contents, DeleteBySource(f),
         \A g \in DocFiles : chunks[g][v] = 0
  PROVE  \A g \in DocFiles : chunks'[g][v] = 0
<1>1. NoChunks[v] = 0
  BY DEF NoChunks
<1>2. CASE chunks' = chunks
  BY <1>2
<1>3. CASE chunks' = [chunks EXCEPT ![f] = NoChunks]
  BY <1>1, <1>3 DEF StoresTyped
<1>. QED
  BY <1>2, <1>3 DEF DeleteBySource, DeleteMilvus, DeletePgVector, DeleteDegraded, DeleteChunks,
                    HiddenFailure

LEMMA InsertionSpares ==
  ASSUME StoresTyped, NEW f \in DocFiles, NEW v \in Contents, NEW u \in Contents, u # v,
         AddMilvus(f, v) \/ AddPgVector(f, v) \/ AddDegraded(f),
         \A g \in DocFiles : chunks[g][u] = 0
  PROVE  \A g \in DocFiles : chunks'[g][u] = 0
<1>1. CASE AddChunks(f, v)
  <2>1. chunks' = [chunks EXCEPT ![f] = [chunks[f] EXCEPT ![v] = @ + 1]]
    BY <1>1 DEF AddChunks
  <2>2. chunks[f] \in [Contents -> Nat]
    BY DEF StoresTyped
  <2>3. [chunks[f] EXCEPT ![v] = @ + 1][u] = chunks[f][u]
    BY <2>2
  <2>. QED
    BY <2>1, <2>3 DEF StoresTyped
<1>2. CASE chunks' = chunks
  BY <1>2
<1>. QED
  BY <1>1, <1>2 DEF AddMilvus, AddPgVector, AddDegraded, HiddenFailure

LEMMA PutBytesSpares ==
  ASSUME DocInv, NEW c \in Clients, NEW f \in DocFiles, NEW v \in Contents, NEW u \in Contents,
         PutBytes(c, f, v), u # v, Nowhere(u)
  PROVE  Nowhere(u)'
<1>1. /\ UNCHANGED <<remote, chunks>>
      /\ local' = [local EXCEPT ![f] = v]
      /\ \/ content' = content
         \/ content' = [content EXCEPT ![c] = v]
  BY DEF PutBytes, PutLocal, PutCache
<1>2. \A g \in DocFiles : local'[g] # u
  BY <1>1 DEF Nowhere, DocInv, DocTyped, StoresTyped
<1>3. \A p \in Processes : content'[p] # u
  BY <1>1 DEF Nowhere, DocInv, DocTyped, ProcessesTyped
<1>. QED
  BY <1>1, <1>2, <1>3 DEF Nowhere

LEMMA RequestStepSpares ==
  ASSUME DocInv, NEW c \in Clients, RequestStep(c), NEW v \in Contents, Nowhere(v)
  PROVE  Nowhere(v)'
<1>. USE DEF Nowhere, DocInv, DocTyped, StoresTyped, ProcessesTyped
<1>0. c \in Processes /\ v # NoContent
  BY DocAssumption DEF Processes
<1>1. ASSUME NEW f \in DocFiles, DeleteDocument(c, f)
      PROVE  Nowhere(v)'
  BY <1>0, <1>1 DEF DeleteDocument
<1>2. CASE Mirror(c)
  BY <1>0, <1>2 DEF Mirror
<1>3. CASE RemoveRemote(c)
  BY <1>0, <1>3 DEF RemoveRemote
<1>4. CASE Purge(c)
  <2>1. file[c] \in DocFiles
    BY <1>0, <1>4 DEF Purge
  <2>. QED
    BY <1>0, <1>4, <2>1, DeletionSpares DEF Purge, storeVars
<1>5. CASE NextFile(c)
  BY <1>0, <1>5 DEF NextFile, storeVars
<1>6. CASE RequestDies(c)
  BY <1>0, <1>6 DEF RequestDies, Release, storeVars
<1>7. CASE IndexDirectory(c) \/ Answer(c)
  BY <1>0, <1>7 DEF IndexDirectory, Answer, storeVars
<1>8. CASE SubmitDocument(c) \/ InsertTask(c) \/ EnqueueDocument(c)
  BY <1>0, <1>8 DEF SubmitDocument, InsertTask, EnqueueDocument, storeVars
<1>. QED
  BY <1>1, <1>2, <1>3, <1>4, <1>5, <1>6, <1>7, <1>8 DEF RequestStep, UploadStep

LEMMA IndexingStepSpares ==
  ASSUME DocInv, IndexingStep, NEW v \in Contents, Nowhere(v)
  PROVE  Nowhere(v)'
<1>. USE DEF Nowhere, DocInv, DocTyped, StoresTyped, ProcessesTyped
<1>0. v # NoContent
  BY DocAssumption
<1>1. ASSUME NEW p \in Processes, ReadDocument(p)
      PROVE  Nowhere(v)'
  <2>1. file[p] \in DocFiles
    BY <1>1 DEF ReadDocument
  <2>2. content'[p] # v /\ \A q \in Processes \ {p} : content'[q] = content[q]
    BY <1>1, <2>1 DEF ReadDocument, Stored
  <2>. QED
    BY <1>1, <2>2 DEF ReadDocument, storeVars
<1>2. ASSUME NEW p \in Processes, ClearOld(p)
      PROVE  Nowhere(v)'
  <2>1. file[p] \in DocFiles
    BY <1>2 DEF ClearOld
  <2>. QED
    BY <1>2, <2>1, DeletionSpares DEF ClearOld, storeVars
<1>3. ASSUME NEW p \in Processes, AddNew(p)
      PROVE  Nowhere(v)'
  <2>1. PICK f \in DocFiles, u \in Contents : f = file[p] /\ u = content[p]
    BY <1>3 DEF AddNew
  <2>2. /\ StoresTyped /\ v # u /\ \A g \in DocFiles : chunks[g][v] = 0
        /\ AddMilvus(f, u) \/ AddPgVector(f, u) \/ AddDegraded(f)
    BY <1>3, <2>1 DEF AddNew
  <2>3. \A g \in DocFiles : chunks'[g][v] = 0
    <3>. HIDE DEF StoresTyped
    <3>. QED
      BY <2>2, InsertionSpares
  <2>. QED
    BY <1>3, <2>3 DEF AddNew, storeVars
<1>4. ASSUME NEW p \in Processes, StepRaises(p)
      PROVE  Nowhere(v)'
  BY <1>4 DEF StepRaises, storeVars
<1>5. ASSUME NEW w \in Indexers, NEW t \in DocTasks, ClaimDocument(w, t)
      PROVE  Nowhere(v)'
  BY <1>5 DEF ClaimDocument, storeVars
<1>9. ASSUME NEW w \in Indexers, ReadNamesake(w)
      PROVE  Nowhere(v)'
  BY <1>9 DEF ReadNamesake, storeVars
<1>6. ASSUME NEW w \in Indexers, CleanupLocal(w)
      PROVE  Nowhere(v)'
  <2>1. /\ \A g \in DocFiles : local'[g] = local[g] \/ local'[g] = NoContent
        /\ UNCHANGED <<remote, chunks, content>>
    BY <1>6 DEF CleanupLocal
  <2>2. \A g \in DocFiles : local'[g] # v
    BY <1>0, <2>1
  <2>. QED
    BY <2>1, <2>2
<1>7. ASSUME NEW w \in Indexers, CompleteDocument(w) \/ FailDocument(w) \/ IndexerDies(w)
      PROVE  Nowhere(v)'
  BY <1>0, <1>7 DEF CompleteDocument, FailDocument, IndexerDies, Release, storeVars
<1>8. ASSUME NEW t \in DocTasks, TakeBackDocument(t)
      PROVE  Nowhere(v)'
  BY <1>8 DEF TakeBackDocument, storeVars, procVars
<1>. QED
  BY <1>1, <1>2, <1>3, <1>4, <1>5, <1>6, <1>7, <1>8, <1>9
     DEF IndexingStep, IndexStep, IndexerStep

LEMMA PlainStepSpares ==
  ASSUME DocInv, DocNext, NEW v \in Contents, Nowhere(v),
         \A f \in DocFiles : local'[f] = v => local[f] = v
  PROVE  Nowhere(v)'
<1>1. ASSUME NEW c \in Clients, NEW f \in DocFiles, NEW u \in Contents, Upload(c, f, u)
      PROVE  Nowhere(v)'
  <2>1. local'[f] = u
    BY <1>1 DEF Upload, PutBytes, DocInv, DocTyped, StoresTyped
  <2>2. u # v
    BY <2>1 DEF Nowhere
  <2>. QED
    BY <1>1, <2>2, PutBytesSpares DEF Upload
<1>2. ASSUME NEW t \in DocTasks, RetryTask(t)
      PROVE  Nowhere(v)'
  BY <1>2 DEF RetryTask, storeVars, procVars, Nowhere
<1>. QED
  BY <1>1, <1>2, RequestStepSpares, IndexingStepSpares DEF DocNext

LEMMA UploadsKeepRows ==
  ASSUME DocInv, NEW c \in Clients, UploadStep(c)
  PROVE  /\ RowsStay
         /\ pc'[c] \in Promoting
         /\ file' = file
         /\ \A d \in Clients \ {c} : RequestStays(d)
         /\ TasksNamed => TasksNamed'
<1>. USE DEF DocInv, DocTyped, TasksTyped, ProcessesTyped, RowsStay, RequestStays, Promoting,
             Goto, taskVars
<1>0. /\ c \in Processes /\ \A d \in Clients : d \in Processes
      /\ pc[c] \in Promoting => file[c] \in DocFiles
  BY DEF Processes
<1>1. CASE Mirror(c)
  BY <1>0, <1>1 DEF Mirror, TasksNamed
<1>2. CASE SubmitDocument(c)
  <2>1. CASE Goto(c, "creating") /\ UNCHANGED task
    BY <1>0, <1>2, <2>1 DEF SubmitDocument, TasksNamed
  <2>2. CASE \E t \in ActiveTasksOf(file[c]) : /\ Goto(c, "enqueueing")
                                              /\ task' = [task EXCEPT ![c] = t]
    <3>1. PICK t \in DocTasks : /\ taskFile[t] = file[c] /\ Goto(c, "enqueueing")
                                /\ task' = [task EXCEPT ![c] = t]
      BY <2>2 DEF ActiveTasksOf
    <3>. QED
      BY <1>0, <1>2, <3>1 DEF SubmitDocument, TasksNamed
  <2>. QED
    BY <1>2, <2>1, <2>2 DEF SubmitDocument
<1>3. CASE InsertTask(c)
  <2>1. PICK t \in DocTasks : /\ taskStatus[t] = "none"
                              /\ taskFile' = [taskFile EXCEPT ![t] = file[c]]
                              /\ task' = [task EXCEPT ![c] = t]
    BY <1>3 DEF InsertTask, Life!Submit
  <2>2. /\ pc' = [pc EXCEPT ![c] = "enqueueing"] /\ file' = file /\ file[c] \in DocFiles
        /\ taskFile[t] = NoDoc
    BY <1>0, <1>3, <2>1 DEF InsertTask
  <2>3. RowsStay
    BY <2>1, <2>2
  <2>4. TasksNamed => TasksNamed'
    <3>. SUFFICES ASSUME TasksNamed, NEW d \in Clients, pc'[d] \in {"enqueueing", "answering"}
                  PROVE  task'[d] \in DocTasks /\ taskFile'[task'[d]] = file'[d]
      BY DEF TasksNamed
    <3>1. CASE d = c
      BY <1>0, <2>1, <2>2, <3>1
    <3>2. CASE d # c
      <4>1. /\ pc'[d] = pc[d] /\ task'[d] = task[d] /\ file'[d] = file[d]
            /\ file[d] \in DocFiles
        BY <1>0, <2>1, <2>2, <3>2
      <4>2. task[d] \in DocTasks /\ taskFile[task[d]] = file[d]
        BY <4>1 DEF TasksNamed
      <4>3. NoDoc \notin DocFiles
        BY DocAssumption
      <4>. QED
        BY <2>3, <4>1, <4>2, <4>3
    <3>. QED
      BY <3>1, <3>2
  <2>. QED
    BY <1>0, <2>1, <2>2, <2>3, <2>4
<1>4. CASE EnqueueDocument(c)
  BY <1>0, <1>4 DEF EnqueueDocument, TasksNamed
<1>. QED
  BY <1>1, <1>2, <1>3, <1>4 DEF UploadStep

(* The other steps of one process: they write no row's file, and where     *)
(* they take the process it has nothing to answer.                         *)
Leaves(p) ==
  /\ taskFile' = taskFile
  /\ pc'[p] # pc[p]
  /\ pc'[p] \notin {"enqueueing", "answering"}
  /\ \A d \in Processes \ {p} : RequestStays(d)

LEMMA LeavingKeepsRows ==
  ASSUME DocInv, NEW p \in Processes, Leaves(p)
  PROVE  /\ RowsStay
         /\ \A d \in Clients : pc'[d] = pc[d] => RequestStays(d)
         /\ TasksNamed => TasksNamed'
<1>1. \A d \in Clients : d \in Processes
  BY DEF Processes
<1>2. \A d \in Clients : pc'[d] = pc[d] => RequestStays(d)
  BY <1>1 DEF Leaves
<1>3. \A d \in Clients : pc'[d] \in {"enqueueing", "answering"} => RequestStays(d)
  BY <1>1 DEF Leaves
<1>4. TasksNamed => TasksNamed'
  BY <1>3 DEF TasksNamed, RequestStays, Leaves
<1>. QED
  BY <1>2, <1>4 DEF RowsStay, Leaves, DocInv, DocTyped, TasksTyped

LEMMA RequestsLeave ==
  ASSUME DocInv, NEW c \in Clients,
         \/ \E f \in DocFiles : DeleteDocument(c, f)
         \/ IndexDirectory(c) \/ Answer(c) \/ RemoveRemote(c) \/ Purge(c) \/ RequestDies(c)
         \/ \E f \in DocFiles, v \in Contents : PutBytes(c, f, v)
  PROVE  Leaves(c)
<1>. USE DEF DocInv, DocTyped, TasksTyped, ProcessesTyped, Leaves, RequestStays, Goto, taskVars
<1>0. c \in Processes
  BY DEF Processes
<1>1. CASE (\E f \in DocFiles : DeleteDocument(c, f)) \/ IndexDirectory(c)
  BY <1>0, <1>1 DEF DeleteDocument, IndexDirectory
<1>2. CASE Answer(c) \/ RemoveRemote(c) \/ Purge(c)
  BY <1>0, <1>2 DEF Answer, RemoveRemote, Purge
<1>3. CASE RequestDies(c)
  BY <1>0, <1>3 DEF RequestDies, Release
<1>4. CASE \E f \in DocFiles, v \in Contents : PutBytes(c, f, v)
  BY <1>0, <1>4 DEF PutBytes, PutLocal, PutCache
<1>. QED
  BY <1>1, <1>2, <1>3, <1>4

LEMMA FilesLeave ==
  ASSUME DocInv, NEW c \in Clients, NextFile(c)
  PROVE  Leaves(c)
<1>. USE DEF DocInv, DocTyped, TasksTyped, ProcessesTyped, Leaves, RequestStays, Goto, taskVars
<1>0. c \in Processes /\ c \notin Indexers
  BY DocAssumption DEF Processes
<1>1. pc[c] \in {"listing", "added", "failing"} /\ taskFile' = taskFile /\ task' = task
  BY DEF NextFile
<1>2. PICK s \in {"idle", "opening"} : pc' = [pc EXCEPT ![c] = s]
  BY DEF NextFile
<1>3. PICK f : file' = [file EXCEPT ![c] = f]
  BY DEF NextFile
<1>. QED
  BY <1>0, <1>1, <1>2, <1>3

LEMMA AttemptsLeave ==
  ASSUME DocInv, NEW p \in Processes,
         IndexStep(p) \/ (p \in Indexers /\ IndexerStep(p))
  PROVE  Leaves(p)
<1>. USE DEF DocInv, DocTyped, TasksTyped, ProcessesTyped, Leaves, RequestStays, Goto, taskVars
<1>1. CASE ReadDocument(p)
  BY <1>1 DEF ReadDocument
<1>2. CASE ClearOld(p) \/ AddNew(p) \/ StepRaises(p)
  BY <1>2 DEF ClearOld, AddNew, StepRaises
<1>3. CASE p \in Indexers /\ \E t \in DocTasks : ClaimDocument(p, t)
  BY <1>3 DEF ClaimDocument
<1>4. CASE ReadNamesake(p) \/ CleanupLocal(p)
  BY <1>4 DEF ReadNamesake, CleanupLocal
<1>5. CASE CompleteDocument(p) \/ FailDocument(p) \/ IndexerDies(p)
  BY <1>5 DEF CompleteDocument, FailDocument, IndexerDies, Release
<1>. QED
  BY <1>1, <1>2, <1>3, <1>4, <1>5 DEF IndexStep, IndexerStep

LEMMA PlainStepKeepsRows ==
  ASSUME DocInv, DocNext
  PROVE  /\ RowsStay
         /\ \A d \in Clients : pc'[d] = pc[d] => RequestStays(d)
         /\ TasksNamed => TasksNamed'
<1>. DEFINE Kept == /\ RowsStay
                    /\ \A d \in Clients : pc'[d] = pc[d] => RequestStays(d)
                    /\ TasksNamed => TasksNamed'
<1>0. \A c \in Clients : c \in Processes
  BY DEF Processes
<1>1. ASSUME NEW c \in Clients, UploadStep(c)
      PROVE  Kept
  <2>1. pc[c] # pc'[c]
    BY <1>0, <1>1 DEF UploadStep, Mirror, SubmitDocument, InsertTask, EnqueueDocument, Goto,
                      DocInv, DocTyped, ProcessesTyped
  <2>. QED
    BY <1>1, <2>1, UploadsKeepRows
<1>2. ASSUME NEW c \in Clients, RequestStep(c), ~UploadStep(c)
      PROVE  Kept
  <2>1. Leaves(c)
    BY <1>2, RequestsLeave, FilesLeave DEF RequestStep
  <2>. QED
    BY <1>0, <2>1, LeavingKeepsRows
<1>3. ASSUME NEW c \in Clients, NEW f \in DocFiles, NEW v \in Contents, Upload(c, f, v)
      PROVE  Kept
  <2>1. Leaves(c)
    BY <1>3, RequestsLeave DEF Upload
  <2>. QED
    BY <1>0, <2>1, LeavingKeepsRows
<1>4. ASSUME NEW t \in DocTasks, RetryTask(t) \/ TakeBackDocument(t)
      PROVE  Kept
  BY <1>4 DEF RetryTask, TakeBackDocument, procVars, RowsStay, RequestStays, TasksNamed, DocInv,
              DocTyped, TasksTyped
<1>5. ASSUME NEW p \in Processes, IndexStep(p) \/ (p \in Indexers /\ IndexerStep(p))
      PROVE  Kept
  BY <1>5, AttemptsLeave, LeavingKeepsRows
<1>6. \A w \in Indexers : w \in Processes
  BY DEF Processes
<1>. QED
  BY <1>1, <1>2, <1>3, <1>4, <1>5, <1>6 DEF DocNext, IndexingStep

LEMMA DocumentsStand ==
  ASSUME DocInv, UNCHANGED <<taskVars, storage, vectors, storeVars, chunks, procVars, docHistory>>
  PROVE  DocInv'
<1>1. DocTyped'
  BY DEF taskVars, storeVars, procVars, docHistory, DocInv, DocTyped, TasksTyped,
         ProcessesTyped, StoresTyped
<1>2. FilesHold'
  BY StoresStand DEF procVars
<1>. QED
  BY <1>1, <1>2 DEF DocInv

(* Feedback and reviews leave the documents alone.                         *)
LEMMA ReviewsLeaveDocuments ==
  ASSUME BadcaseInv,
         UNCHANGED <<taskVars, storage, vectors, storeVars, chunks, procVars, docHistory>>,
         UNCHANGED promotion, confirmedOnce \subseteq confirmedOnce'
  PROVE  DocInv' /\ Unwritten' /\ TasksNamed' /\ MarksHold'
<1>1. DocInv'
  BY DocumentsStand DEF BadcaseInv
<1>2. \A v : Nowhere(v) => Nowhere(v)'
  BY DEF storeVars, procVars, Nowhere
<1>3. Unwritten'
  BY <1>2 DEF BadcaseInv, Unwritten
<1>4. TasksNamed'
  BY DEF BadcaseInv, TasksNamed, procVars, taskVars
<1>5. MarksHold'
  BY DEF BadcaseInv, MarksHold, taskVars
<1>. QED
  BY <1>1, <1>3, <1>4, <1>5

(* The jobs of the other requests stand while one is at work.              *)
LEMMA OtherJobsStand ==
  ASSUME JobsHold, NEW c \in Clients, JobHolds(c)',
         job' \in [Clients -> {"none", "remember", "draft", "promote", "confirm"}],
         subject' \in [Clients -> SUBSET Feedback],
         confirmedOnce \subseteq confirmedOnce',
         \A d \in Clients \ {c} : /\ job'[d] = job[d] /\ subject'[d] = subject[d]
                                  /\ job[d] # "none" => pc'[d] = pc[d] /\ file'[d] = file[d]
  PROVE  JobsHold'
<1>1. ASSUME NEW d \in Clients, d # c
      PROVE  JobHolds(d)'
  BY <1>1 DEF JobsHold, JobHolds
<1>. QED
  BY <1>1 DEF JobsHold

LEMMA JobStarts ==
  ASSUME JobsHold, NEW c \in Clients, NEW what \in {"remember", "draft", "confirm"},
         NEW S \in SUBSET Feedback, S # {}, StartJob(c, what, S), UNCHANGED <<pc, file>>,
         confirmedOnce \subseteq confirmedOnce',
         what = "draft" => \E b \in confirmedOnce : S = {b}
  PROVE  JobsHold'
<1>1. /\ job' = [job EXCEPT ![c] = what] /\ subject' = [subject EXCEPT ![c] = S]
      /\ pc[c] = "idle"
  BY DEF StartJob
<1>2. job'[c] = what /\ subject'[c] = S /\ pc'[c] = "idle"
  BY <1>1 DEF JobsHold
<1>3. JobHolds(c)'
  BY <1>2 DEF JobHolds
<1>. QED
  BY <1>1, <1>3, OtherJobsStand DEF JobsHold

LEMMA JobEnds ==
  ASSUME JobsHold, NEW c \in Clients, EndJob(c), confirmedOnce' = confirmedOnce,
         \A d \in Clients \ {c} : job[d] # "none" => pc'[d] = pc[d] /\ file'[d] = file[d]
  PROVE  JobsHold'
<1>1. job' = [job EXCEPT ![c] = "none"] /\ subject' = [subject EXCEPT ![c] = {}]
  BY DEF EndJob
<1>2. job'[c] = "none" /\ subject'[c] = {}
  BY <1>1 DEF JobsHold
<1>3. JobHolds(c)'
  BY <1>2 DEF JobHolds
<1>. QED
  BY <1>1, <1>3, OtherJobsStand DEF JobsHold

LEMMA ReviewTyped ==
  ASSUME FeedbackTyped, NEW b, NEW s \in {"pending", "confirmed", "rejected"},
         ReviewBadcase(b, s)
  PROVE  FeedbackTyped' /\ b \in Feedback /\ confirmedOnce \subseteq confirmedOnce'
<1>1. /\ b \in badcase /\ b \in Feedback /\ review' = [review EXCEPT ![b] = s]
      /\ UNCHANGED <<badcase, corrected, memories>>
  BY DEF ReviewBadcase, FeedbackTyped
<1>2. /\ review'[b] = s /\ \A d \in Feedback \ {b} : review'[d] = review[d]
      /\ review' \in [Feedback -> {"none", "pending", "confirmed", "rejected"}]
  BY <1>1 DEF FeedbackTyped
<1>3. confirmedOnce' = IF s = "confirmed" THEN confirmedOnce \union {b} ELSE confirmedOnce
  BY DEF ReviewBadcase
<1>. QED
  BY <1>1, <1>2, <1>3 DEF FeedbackTyped

LEMMA CreateFeedbackKeeps ==
  ASSUME BadcaseInv, NEW c \in Clients, NEW b \in Feedback, NEW negative \in BOOLEAN,
         NEW corrects \in BOOLEAN, CreateFeedback(c, b, negative, corrects)
  PROVE  BadcaseInv'
<1>1. /\ review[b] = "none" /\ review' = [review EXCEPT ![b] = "pending"]
      /\ UNCHANGED <<memories, promotion, confirmedOnce, pc, file>>
  BY DEF CreateFeedback, docVars, procVars
<1>2. /\ badcase' = IF negative \/ corrects THEN badcase \union {b} ELSE badcase
      /\ corrected' = IF corrects THEN corrected \union {b} ELSE corrected
  BY DEF CreateFeedback
<1>3. /\ review'[b] = "pending" /\ \A d \in Feedback \ {b} : review'[d] = review[d]
      /\ review' \in [Feedback -> {"none", "pending", "confirmed", "rejected"}]
      /\ b \notin badcase
  BY <1>1 DEF BadcaseInv, FeedbackTyped
<1>4. IsFiniteSet(badcase')
  BY <1>2, FS_AddElement DEF BadcaseInv, FeedbackTyped
<1>5. FeedbackTyped'
  BY <1>1, <1>2, <1>3, <1>4 DEF BadcaseInv, FeedbackTyped
<1>6. JobsHold'
  BY <1>1, JobStarts DEF CreateFeedback, BadcaseInv
<1>. QED
  BY <1>1, <1>5, <1>6, ReviewsLeaveDocuments DEF CreateFeedback, docVars, BadcaseInv

LEMMA CreateMemoryKeeps ==
  ASSUME BadcaseInv, NEW c \in Clients, CreateMemory(c)
  PROVE  BadcaseInv'
<1>1. FeedbackTyped'
  BY DEF CreateMemory, BadcaseInv, FeedbackTyped
<1>2. JobsHold'
  BY JobEnds DEF CreateMemory, docVars, procVars, BadcaseInv
<1>. QED
  BY <1>1, <1>2, ReviewsLeaveDocuments DEF CreateMemory, docVars, BadcaseInv

LEMMA ReviewKeeps ==
  ASSUME BadcaseInv, NEW b \in Feedback, Review(b)
  PROVE  BadcaseInv'
<1>1. PICK s \in {"pending", "confirmed", "rejected"} : ReviewBadcase(b, s)
  BY DEF Review
<1>2. FeedbackTyped' /\ confirmedOnce \subseteq confirmedOnce'
  BY <1>1, ReviewTyped DEF BadcaseInv
<1>3. UNCHANGED <<job, subject, pc, file, promotion>>
  BY <1>1 DEF Review, ReviewBadcase, docVars, procVars
<1>4. JobsHold'
  BY <1>2, <1>3 DEF BadcaseInv, JobsHold, JobHolds
<1>. QED
  BY <1>2, <1>3, <1>4, ReviewsLeaveDocuments DEF Review, docVars, BadcaseInv

LEMMA PromoteKeeps ==
  ASSUME BadcaseInv, NEW c \in Clients, NEW b \in Feedback, Promote(c, b)
  PROVE  BadcaseInv'
<1>1. b \in confirmedOnce
  BY DEF Promote, BadcaseInv, FeedbackTyped
<1>2. FeedbackTyped'
  BY DEF Promote, BadcaseInv, FeedbackTyped
<1>3. JobsHold'
  <2>1. {b} \in SUBSET Feedback /\ {b} # {} /\ \E d \in confirmedOnce : {b} = {d}
    BY <1>1
  <2>. QED
    BY <2>1, JobStarts DEF Promote, docVars, procVars, BadcaseInv
<1>. QED
  BY <1>2, <1>3, ReviewsLeaveDocuments DEF Promote, docVars, BadcaseInv

LEMMA ConfirmCandidateKeeps ==
  ASSUME BadcaseInv, NEW c \in Clients, NEW C \in (SUBSET badcase) \ {{}}, ConfirmCandidate(c, C)
  PROVE  BadcaseInv'
<1>1. FeedbackTyped'
  BY DEF ConfirmCandidate, BadcaseInv, FeedbackTyped
<1>2. JobsHold'
  <2>1. C \subseteq badcase /\ C # {}
    OBVIOUS
  <2>2. C \in SUBSET Feedback
    BY <2>1 DEF BadcaseInv, FeedbackTyped
  <2>. QED
    BY <2>1, <2>2, JobStarts DEF ConfirmCandidate, docVars, procVars, BadcaseInv
<1>. QED
  BY <1>1, <1>2, ReviewsLeaveDocuments DEF ConfirmCandidate, docVars, BadcaseInv

LEMMA ConfirmMemberKeeps ==
  ASSUME BadcaseInv, NEW c \in Clients, ConfirmMember(c)
  PROVE  BadcaseInv'
<1>1. PICK b \in subject[c] :
        /\ ReviewBadcase(b, "confirmed")
        /\ subject' = [subject EXCEPT ![c] = @ \ {b}]
        /\ job' = [job EXCEPT ![c] = IF subject[c] = {b} THEN "none" ELSE @]
  BY DEF ConfirmMember
<1>2. FeedbackTyped' /\ confirmedOnce \subseteq confirmedOnce'
  BY <1>1, ReviewTyped DEF BadcaseInv
<1>3. /\ job[c] = "confirm" /\ UNCHANGED <<pc, file, promotion>> /\ subject[c] \in SUBSET Feedback
      /\ pc[c] = "idle"
  BY <1>1 DEF ConfirmMember, ReviewBadcase, docVars, procVars, BadcaseInv, JobsHold, JobHolds
<1>4. /\ subject'[c] = subject[c] \ {b}
      /\ job'[c] = IF subject[c] = {b} THEN "none" ELSE "confirm"
  BY <1>1, <1>3 DEF BadcaseInv, JobsHold
<1>5. JobHolds(c)'
  BY <1>3, <1>4 DEF JobHolds
<1>6. JobsHold'
  BY <1>1, <1>2, <1>3, <1>5, OtherJobsStand DEF BadcaseInv, JobsHold
<1>. QED
  BY <1>2, <1>3, <1>6, ReviewsLeaveDocuments DEF ConfirmMember, docVars, BadcaseInv
----------------------------------------------------------------------------
(* A mark stands while the file of its task does.                          *)
LEMMA MarksStand ==
  ASSUME MarksHold, RowsStay, UNCHANGED <<promotion, confirmedOnce>>
  PROVE  MarksHold'
<1>1. ASSUME NEW b \in Feedback, promotion[b] # NoTask
      PROVE  taskFile'[promotion[b]] = BadcaseFile[b]
  <2>1. promotion[b] \in DocTasks /\ taskFile[promotion[b]] = BadcaseFile[b]
    BY <1>1 DEF MarksHold
  <2>2. BadcaseFile[b] # NoDoc
    BY BadcaseAssumption, DocAssumption
  <2>. QED
    BY <2>1, <2>2 DEF RowsStay
<1>. QED
  BY <1>1 DEF MarksHold

LEMMA FeedbackStands ==
  ASSUME FeedbackTyped, UNCHANGED <<review, badcase, corrected, memories, confirmedOnce>>
  PROVE  FeedbackTyped'
  BY DEF FeedbackTyped

LEMMA WriteDraftKeeps ==
  ASSUME BadcaseInv, NEW c \in Clients, WriteDraft(c)
  PROVE  BadcaseInv'
<1>1. PICK b \in confirmedOnce : subject[c] = {b}
  BY DEF WriteDraft, BadcaseInv, JobsHold, JobHolds
<1>2. /\ b \in Feedback /\ BadcaseFile[b] \in DocFiles /\ BadcaseContent[b] \in Contents
  BY BadcaseAssumption DEF BadcaseInv, FeedbackTyped
<1>3. /\ PutBytes(c, BadcaseFile[b], BadcaseContent[b])
      /\ job' = [job EXCEPT ![c] = "promote"]
      /\ UNCHANGED <<review, badcase, corrected, memories, promotion, subject, confirmedOnce>>
  BY <1>1 DEF WriteDraft
<1>4. DocInv'
  BY <1>2, <1>3, PutBytesKeeps DEF BadcaseInv
<1>5. Unwritten'
  <2>1. ASSUME NEW d \in Feedback \ confirmedOnce
        PROVE  Nowhere(BadcaseContent[d])'
    <3>1. PICK v \in Contents : v = BadcaseContent[d]
      BY BadcaseAssumption
    <3>2. v # BadcaseContent[b]
      BY <1>2, <3>1, BadcaseAssumption
    <3>3. Nowhere(v)
      BY <3>1 DEF BadcaseInv, Unwritten
    <3>4. Nowhere(v)'
      BY <1>2, <1>3, <3>2, <3>3, PutBytesSpares DEF BadcaseInv
    <3>. QED
      BY <3>1, <3>4
  <2>. QED
    BY <1>3, <2>1 DEF Unwritten
<1>6. Leaves(c)
  BY <1>2, <1>3, RequestsLeave DEF BadcaseInv
<1>7. /\ RowsStay /\ TasksNamed'
      /\ \A d \in Clients \ {c} : RequestStays(d)
  <2>1. c \in Processes /\ Clients \subseteq Processes
    BY DEF Processes
  <2>. QED
    BY <1>6, <2>1, LeavingKeepsRows DEF Leaves, BadcaseInv
<1>8. JobsHold'
  <2>1. c \in Processes
    BY DEF Processes
  <2>2. pc'[c] \in Promoting /\ file'[c] = BadcaseFile[b]
    BY <1>3, <2>1 DEF PutBytes, PutLocal, PutCache, Goto, Promoting, BadcaseInv, DocInv,
                      DocTyped, ProcessesTyped
  <2>3. job'[c] = "promote" /\ subject' = subject
    BY <1>3 DEF BadcaseInv, JobsHold
  <2>4. JobHolds(c)'
    BY <1>1, <1>2, <1>3, <2>2, <2>3 DEF JobHolds
  <2>. QED
    BY <1>3, <1>7, <2>4, OtherJobsStand DEF BadcaseInv, JobsHold, RequestStays
<1>. QED
  BY <1>3, <1>4, <1>5, <1>7, <1>8, MarksStand, FeedbackStands DEF BadcaseInv

LEMMA PromoteStepKeeps ==
  ASSUME BadcaseInv, NEW c \in Clients, PromoteStep(c)
  PROVE  BadcaseInv'
<1>1. /\ RequestStep(c) /\ UploadStep(c)
      /\ UNCHANGED <<review, badcase, corrected, memories, promotion, job, subject,
                     confirmedOnce>>
  BY DEF PromoteStep, RequestStep, feedbackVars
<1>2. DocInv'
  BY <1>1, RequestStepKeeps DEF BadcaseInv
<1>3. Unwritten'
  <2>1. ASSUME NEW d \in Feedback \ confirmedOnce
        PROVE  Nowhere(BadcaseContent[d])'
    <3>1. PICK v \in Contents : v = BadcaseContent[d]
      BY BadcaseAssumption
    <3>2. Nowhere(v)
      BY <3>1 DEF BadcaseInv, Unwritten
    <3>3. Nowhere(v)'
      BY <1>1, <3>2, RequestStepSpares DEF BadcaseInv
    <3>. QED
      BY <3>1, <3>3
  <2>. QED
    BY <1>1, <2>1 DEF Unwritten
<1>4. /\ RowsStay /\ TasksNamed' /\ pc'[c] \in Promoting /\ file' = file
      /\ \A d \in Clients \ {c} : RequestStays(d)
  BY <1>1, UploadsKeepRows DEF BadcaseInv
<1>5. JobsHold'
  <2>1. JobHolds(c)'
    BY <1>1, <1>4 DEF PromoteStep, BadcaseInv, JobsHold, JobHolds
  <2>. QED
    BY <1>1, <1>4, <2>1, OtherJobsStand DEF BadcaseInv, JobsHold, RequestStays
<1>. QED
  BY <1>1, <1>2, <1>3, <1>4, <1>5, MarksStand, FeedbackStands DEF BadcaseInv

LEMMA MarkPromotionKeeps ==
  ASSUME BadcaseInv, NEW c \in Clients, MarkPromotion(c)
  PROVE  BadcaseInv'
<1>1. /\ job[c] = "promote" /\ pc[c] = "answering" /\ Answer(c) /\ EndJob(c)
      /\ promotion' = [b \in Feedback |-> IF b \in subject[c] THEN task[c] ELSE promotion[b]]
      /\ UNCHANGED <<review, badcase, corrected, memories, confirmedOnce>>
  BY DEF MarkPromotion, Answer
<1>2. DocInv'
  BY <1>1, RequestStepKeeps DEF RequestStep, BadcaseInv
<1>3. Unwritten'
  <2>1. \A v : Nowhere(v) => Nowhere(v)'
    BY <1>1 DEF Answer, storeVars, Nowhere
  <2>. QED
    BY <1>1, <2>1 DEF BadcaseInv, Unwritten
<1>4. Leaves(c)
  BY <1>1, RequestsLeave DEF BadcaseInv
<1>5. /\ TasksNamed' /\ taskFile' = taskFile
      /\ \A d \in Clients \ {c} : RequestStays(d)
  <2>1. c \in Processes /\ Clients \subseteq Processes
    BY DEF Processes
  <2>. QED
    BY <1>4, <2>1, LeavingKeepsRows DEF Leaves, BadcaseInv
<1>6. MarksHold'
  <2>1. PICK t \in DocTasks : t = task[c] /\ taskFile[t] = file[c]
    BY <1>1 DEF BadcaseInv, TasksNamed
  <2>2. PICK b \in confirmedOnce : subject[c] = {b}
    BY <1>1 DEF BadcaseInv, JobsHold, JobHolds
  <2>3. file[c] = BadcaseFile[b]
    BY <1>1, <2>2 DEF BadcaseInv, JobsHold, JobHolds
  <2>. QED
    BY <1>1, <1>5, <2>1, <2>2, <2>3 DEF BadcaseInv, MarksHold
<1>7. JobsHold'
  BY <1>1, <1>5, JobEnds DEF BadcaseInv, RequestStays
<1>. QED
  BY <1>1, <1>2, <1>3, <1>5, <1>6, <1>7, FeedbackStands DEF BadcaseInv

LEMMA JobDiesKeeps ==
  ASSUME BadcaseInv, NEW c \in Clients, JobDies(c)
  PROVE  BadcaseInv'
<1>1. /\ EndJob(c)
      /\ UNCHANGED <<review, badcase, corrected, memories, promotion, confirmedOnce>>
  BY DEF JobDies
<1>2. CASE pc[c] = "idle"
  <2>1. UNCHANGED <<taskVars, storage, vectors, storeVars, chunks, procVars, docHistory>>
    BY <1>2 DEF JobDies
  <2>2. JobsHold'
    BY <1>1, <2>1, JobEnds DEF procVars, BadcaseInv
  <2>. QED
    BY <1>1, <2>1, <2>2, ReviewsLeaveDocuments, FeedbackStands DEF BadcaseInv
<1>3. CASE pc[c] # "idle"
  <2>1. RequestDies(c) /\ RequestStep(c)
    BY <1>3 DEF JobDies, RequestStep
  <2>2. DocInv'
    BY <2>1, RequestStepKeeps DEF BadcaseInv
  <2>3. Unwritten'
    <3>1. ASSUME NEW d \in Feedback \ confirmedOnce
          PROVE  Nowhere(BadcaseContent[d])'
      <4>1. PICK v \in Contents : v = BadcaseContent[d]
        BY BadcaseAssumption
      <4>2. Nowhere(v)
        BY <4>1 DEF BadcaseInv, Unwritten
      <4>3. Nowhere(v)'
        BY <2>1, <4>2, RequestStepSpares DEF BadcaseInv
      <4>. QED
        BY <4>1, <4>3
    <3>. QED
      BY <1>1, <3>1 DEF Unwritten
  <2>4. Leaves(c)
    BY <2>1, RequestsLeave DEF BadcaseInv
  <2>5. /\ TasksNamed' /\ RowsStay
        /\ \A d \in Clients \ {c} : RequestStays(d)
    <3>1. c \in Processes /\ Clients \subseteq Processes
      BY DEF Processes
    <3>. QED
      BY <2>4, <3>1, LeavingKeepsRows DEF Leaves, BadcaseInv
  <2>6. JobsHold'
    BY <1>1, <2>5, JobEnds DEF BadcaseInv, RequestStays
  <2>. QED
    BY <1>1, <2>2, <2>3, <2>5, <2>6, MarksStand, FeedbackStands DEF BadcaseInv
<1>. QED
  BY <1>2, <1>3

LEMMA PlainStepKeeps ==
  ASSUME BadcaseInv, PlainStep
  PROVE  BadcaseInv'
<1>1. /\ DocNext
      /\ UNCHANGED <<review, badcase, corrected, memories, promotion, job, subject,
                     confirmedOnce>>
  BY DEF PlainStep, feedbackVars
<1>2. DocInv'
  BY <1>1, DocInvInductive DEF BadcaseInv
<1>3. Unwritten'
  <2>1. ASSUME NEW d \in Feedback \ confirmedOnce
        PROVE  Nowhere(BadcaseContent[d])'
    <3>1. PICK v \in Contents : v = BadcaseContent[d]
      BY BadcaseAssumption
    <3>2. Nowhere(v) /\ \A f \in DocFiles : local'[f] = v => local[f] = v
      BY <3>1 DEF BadcaseInv, Unwritten, PlainStep
    <3>3. Nowhere(v)'
      BY <1>1, <3>2, PlainStepSpares DEF BadcaseInv
    <3>. QED
      BY <3>1, <3>3
  <2>. QED
    BY <1>1, <2>1 DEF Unwritten
<1>4. /\ RowsStay /\ TasksNamed'
      /\ \A d \in Clients : pc'[d] = pc[d] => RequestStays(d)
  BY <1>1, PlainStepKeepsRows DEF BadcaseInv
<1>5. JobsHold'
  <2>1. ASSUME NEW c \in Clients
        PROVE  JobHolds(c)'
    <3>1. job[c] # "none" => RequestStays(c)
      BY <1>4 DEF PlainStep
    <3>2. JobHolds(c)
      BY DEF BadcaseInv, JobsHold
    <3>. QED
      BY <1>1, <3>1, <3>2 DEF JobHolds, RequestStays
  <2>. QED
    BY <1>1, <2>1 DEF BadcaseInv, JobsHold
<1>. QED
  BY <1>1, <1>2, <1>3, <1>4, <1>5, MarksStand, FeedbackStands DEF BadcaseInv

LEMMA BadcaseInvInductive ==
  ASSUME BadcaseInv, [BadcaseNext]_badcaseVars
  PROVE  BadcaseInv'
<1>1. CASE UNCHANGED badcaseVars
  <2>1. /\ UNCHANGED docVars
        /\ UNCHANGED <<review, badcase, corrected, memories, promotion, job, subject,
                       confirmedOnce>>
    BY <1>1 DEF badcaseVars, feedbackVars
  <2>2. JobsHold'
    BY <2>1 DEF docVars, procVars, BadcaseInv, JobsHold, JobHolds
  <2>. QED
    BY <2>1, <2>2, ReviewsLeaveDocuments, FeedbackStands DEF docVars, BadcaseInv
<1>2. ASSUME NEW c \in Clients, FeedbackStep(c) \/ FaqStep(c)
      PROVE  BadcaseInv'
  BY <1>2, CreateFeedbackKeeps, CreateMemoryKeeps, ConfirmCandidateKeeps, ConfirmMemberKeeps
     DEF FeedbackStep, FaqStep
<1>3. ASSUME NEW c \in Clients, PromotionStep(c)
      PROVE  BadcaseInv'
  BY <1>3, PromoteKeeps, WriteDraftKeeps, PromoteStepKeeps, MarkPromotionKeeps, JobDiesKeeps
     DEF PromotionStep
<1>. QED
  BY <1>1, <1>2, <1>3, ReviewKeeps, PlainStepKeeps DEF BadcaseNext

LEMMA BadcaseInvAlways == BadcaseSpec => []BadcaseInv
  BY BadcaseInvInitially, BadcaseInvInductive, PTL DEF BadcaseSpec

(* Every variable of the reviews keeps its type, and a request has a       *)
(* subject exactly while it has a job.                                     *)
THEOREM BadcaseTypesHold == BadcaseSpec => []BadcaseTypeOK
<1>1. BadcaseInv => BadcaseTypeOK
  <2>1. BadcaseInv => DocTypeOK
    BY DEF BadcaseInv, DocInv, DocTyped, TasksTyped, ProcessesTyped, StoresTyped, DocTypeOK
  <2>. QED
    BY <2>1 DEF BadcaseInv, FeedbackTyped, JobsHold, JobHolds, MarksHold, BadcaseTypeOK
<1>. QED
  BY <1>1, BadcaseInvAlways, PTL

(* A badcase reaches the index, and is marked as promoted, only if it was  *)
(* confirmed, and its mark names a task of its file; a listed FAQ          *)
(* candidate can be confirmed as it was listed: for any rows, similarity,  *)
(* requests and failures.                                                  *)
THEOREM BadcasesAlwaysHold == BadcaseSpec => []BadcasesHold
<1>1. BadcaseInv => OnlyReviewedKnowledge
  BY DEF BadcaseInv, FeedbackTyped, Unwritten, Nowhere, MarksHold, OnlyReviewedKnowledge
<1>2. BadcaseInv => ListedIsConfirmable
  BY CandidatesAreConfirmable DEF BadcaseInv, FeedbackTyped
<1>. QED
  BY <1>1, <1>2, BadcaseInvAlways, PTL DEF BadcasesHold
----------------------------------------------------------------------------
(* The knowledge side as a whole: a behaviour runs one part of it, and     *)
(* what is proved of the part holds of the behaviour.                      *)

LEMMA PartsTakeTheirSteps ==
  ASSUME [KnowledgeNext]_knowledgeVars
  PROVE  /\ part' = part
         /\ [ItemNext]_itemVars
         /\ [WorkspacesNext]_workspaceVars
         /\ [RetrievalNext]_retrievalVars
         /\ part # "documents" => [BadcaseNext]_badcaseVars
         /\ part = "documents" => [DocNext]_docVars /\ UNCHANGED feedbackVars
<1>1. CASE UNCHANGED knowledgeVars
  BY <1>1 DEF knowledgeVars, badcaseVars
<1>2. CASE Documents
  BY <1>2 DEF Documents
<1>3. CASE Promotion \/ Clustering
  <2>1. BadcaseNext /\ UNCHANGED <<itemVars, workspaceVars, retrievalVars, part>>
    BY <1>3 DEF Promotion, Clustering, BadcaseNext
  <2>2. part # "documents"
    BY <1>3 DEF Promotion, Clustering
  <2>. QED
    BY <2>1, <2>2
<1>4. CASE CuratedItems
  BY <1>4 DEF CuratedItems, badcaseVars
<1>5. CASE SharedWorkspaces
  BY <1>5 DEF SharedWorkspaces, badcaseVars
<1>6. CASE Retrievals
  BY <1>6 DEF Retrievals, badcaseVars
<1>. QED
  BY <1>1, <1>2, <1>3, <1>4, <1>5, <1>6 DEF KnowledgeNext

(* A behaviour of the whole is one of every component, of the documents    *)
(* alone or with the reviews: what is proved of them holds of it.          *)
THEOREM KnowledgeIsItsParts ==
  KnowledgeSpec => /\ ItemSpec
                   /\ ContextSpec
                   /\ \/ BadcaseSpec /\ [](part # "documents")
                      \/ /\ DocSpec /\ [](part = "documents")
                         /\ [][UNCHANGED feedbackVars]_knowledgeVars
<1>1. KnowledgeInit => /\ ItemInit /\ WorkspacesInit /\ RetrievalInit
                       /\ BadcaseInit /\ DocInit
  BY DEF KnowledgeInit, BadcaseInit
<1>2. [KnowledgeNext]_knowledgeVars
        => /\ [ItemNext]_itemVars /\ [WorkspacesNext]_workspaceVars
           /\ [RetrievalNext]_retrievalVars
  BY PartsTakeTheirSteps
<1>3. part = "documents" /\ [KnowledgeNext]_knowledgeVars
        => /\ (part = "documents")' /\ [DocNext]_docVars
           /\ [UNCHANGED feedbackVars]_knowledgeVars
  BY PartsTakeTheirSteps
<1>4. part # "documents" /\ [KnowledgeNext]_knowledgeVars
        => (part # "documents")' /\ [BadcaseNext]_badcaseVars
  BY PartsTakeTheirSteps
<1>5. part = "documents" \/ part # "documents"
  OBVIOUS
<1>6. KnowledgeSpec /\ part = "documents"
        => /\ DocSpec /\ [](part = "documents")
           /\ [][UNCHANGED feedbackVars]_knowledgeVars
  BY <1>1, <1>3, PTL DEF KnowledgeSpec, DocSpec
<1>7. KnowledgeSpec /\ part # "documents" => BadcaseSpec /\ [](part # "documents")
  BY <1>1, <1>4, PTL DEF KnowledgeSpec, BadcaseSpec
<1>8. KnowledgeSpec => ItemSpec /\ WorkspacesSpec /\ RetrievalSpec
  BY <1>1, <1>2, PTL DEF KnowledgeSpec, ItemSpec, WorkspacesSpec, RetrievalSpec
<1>. QED
  BY <1>5, <1>6, <1>7, <1>8, PTL DEF ContextSpec

(* What BadcaseTypeOK says beyond the documents, which leave it alone.     *)
ReviewsTyped == DocTypeOK => BadcaseTypeOK

(* Every variable of the knowledge side keeps its type, whichever part of  *)
(* it runs.                                                                *)
THEOREM KnowledgeTypesHold == KnowledgeSpec => []KnowledgeTypeOK
<1>1. KnowledgeInit => ReviewsTyped
  BY BadcaseInvInitially
     DEF KnowledgeInit, ReviewsTyped, BadcaseTypeOK, BadcaseInv, FeedbackTyped, JobsHold,
         JobHolds, MarksHold
<1>2. ReviewsTyped /\ DocTypeOK /\ [UNCHANGED feedbackVars]_knowledgeVars => ReviewsTyped'
  BY DEF ReviewsTyped, BadcaseTypeOK, feedbackVars, knowledgeVars, badcaseVars
<1>3. ReviewsTyped /\ DocTypeOK => BadcaseTypeOK
  BY DEF ReviewsTyped
<1>4. KnowledgeSpec => []BadcaseTypeOK
  <2>1. KnowledgeSpec /\ DocSpec /\ [][UNCHANGED feedbackVars]_knowledgeVars
          => []BadcaseTypeOK
    BY <1>1, <1>2, <1>3, DocTypesHold, PTL DEF KnowledgeSpec
  <2>. QED
    BY <2>1, KnowledgeIsItsParts, BadcaseTypesHold, PTL
<1>5. BadcaseTypeOK /\ ItemTypeOK /\ WorkspacesTypeOK /\ RetrievalTypeOK => KnowledgeTypeOK
  BY DEF KnowledgeTypeOK
<1>. QED
  BY <1>4, <1>5, KnowledgeIsItsParts, ItemTypesHold, WorkspacesTypesHold, RetrievalTypesHold,
     PTL DEF ContextSpec

(* No badcase is made where only documents are uploaded and deleted.       *)
NothingReviewed ==
  badcase = {} /\ corrected = {} /\ \A b \in Feedback : promotion[b] = NoTask

(* All that the run of the knowledge side checks holds for all constants,  *)
(* whichever part of it runs.                                              *)
THEOREM KnowledgeHolds ==
  KnowledgeSpec => /\ [](ContentSurvives /\ OneGeneration /\ GoneStaysGone)
                   /\ [](ItemsHold /\ RecallHolds)
                   /\ []BadcasesHold
<1>1. KnowledgeSpec => \/ BadcaseSpec
                       \/ DocSpec /\ [][UNCHANGED feedbackVars]_knowledgeVars
  BY KnowledgeIsItsParts
<1>2. BadcaseInv => ContentSurvives /\ OneGeneration /\ GoneStaysGone
  <2>1. BadcaseInv => DocInv
    BY DEF BadcaseInv
  <2>2. DocInv => ContentSurvives
    BY DEF DocInv, FilesHold, FileInv, Survives, ContentSurvives
  <2>3. DocInv => OneGeneration
    BY DEF DocInv, FilesHold, FileInv, ClearedHolds, OneGeneration
  <2>4. DocInv => GoneStaysGone
    BY DEF DocInv, DocTyped, StoresTyped, FilesHold, FileInv, GoneHolds, GoneStaysGone
  <2>. QED
    BY <2>1, <2>2, <2>3, <2>4
<1>3. KnowledgeSpec => [](ContentSurvives /\ OneGeneration /\ GoneStaysGone)
  BY <1>1, <1>2, BadcaseInvAlways, ContentSurvivesHolds, OneGenerationHolds,
     GoneStaysGoneHolds, PTL
<1>4. KnowledgeSpec => [](ItemsHold /\ RecallHolds)
  BY KnowledgeIsItsParts, ItemsAlwaysHold, RecallAlwaysHolds, PTL
<1>5. KnowledgeSpec => []BadcasesHold
  <2>1. KnowledgeInit => NothingReviewed
    BY DEF KnowledgeInit, BadcaseInit, NothingReviewed
  <2>2. NothingReviewed /\ [UNCHANGED feedbackVars]_knowledgeVars => NothingReviewed'
    BY DEF NothingReviewed, feedbackVars, knowledgeVars, badcaseVars
  <2>3. NothingReviewed => BadcasesHold
    <3>. SUFFICES ASSUME NothingReviewed PROVE BadcasesHold
      OBVIOUS
    <3>1. OnlyReviewedKnowledge
      BY DEF NothingReviewed, OnlyReviewedKnowledge
    <3>2. ListedIsConfirmable
      BY CandidatesAreConfirmable, FS_EmptySet DEF NothingReviewed
    <3>. QED
      BY <3>1, <3>2 DEF BadcasesHold
  <2>4. KnowledgeSpec /\ [][UNCHANGED feedbackVars]_knowledgeVars => []BadcasesHold
    BY <2>1, <2>2, <2>3, PTL DEF KnowledgeSpec
  <2>. QED
    BY <1>1, <2>4, BadcasesAlwaysHold, PTL
<1>. QED
  BY <1>3, <1>4, <1>5
=============================================================================
