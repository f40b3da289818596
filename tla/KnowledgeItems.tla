--------------------------- MODULE KnowledgeItems ---------------------------
(***************************************************************************)
(* The curated items of a knowledge base: created as drafts after a check  *)
(* for the same content, published or rejected by an editor, or promoted   *)
(* from a run.  Every repository call is a transaction of its own, and the *)
(* steps of different requests interleave between them.                    *)
(*                                                                         *)
(* An item's content is its dedup hash, and the knowledge base is one.     *)
(***************************************************************************)
EXTENDS Naturals

CONSTANTS MaxItems,    \* bound: rows
          Hashes,      \* dedup hashes
          NoHash,
          Editors,     \* HTTP requests served at the same time
          MaxEdits,    \* bound: requests in all
          MaxDeaths    \* bound: requests that die between two calls

ASSUME ItemAssumption ==
  MaxItems \in Nat /\ MaxEdits \in Nat /\ MaxDeaths \in Nat /\ NoHash \notin Hashes

Items == 1 .. MaxItems
NoItem == 0

VARIABLES
  hash, itemStatus,            \* the rows; "none" before a row exists
  audit,                       \* audit[i]: the actions logged for i
  estep, eitem, ehash, epromotes,  \* requests
  raced, revived, unlogged,    \* history: hashes inserted on an outdated check; hashes
                               \* of archived items published again; items whose
                               \* request died before its log
  edits, deaths

itemVars == <<hash, itemStatus, audit, estep, eitem, ehash, epromotes, raced, revived,
              unlogged, edits, deaths>>

(* find_by_dedup_hash looks past archived items.                           *)
ActiveItems(h) == {i \in Items : hash[i] = h /\ itemStatus[i] \in {"draft", "published"}}

(* Which status an audited action stands for.                              *)
Outcome == [created |-> "draft", published |-> "published", rejected |-> "archived"]

ItemInit ==
  /\ hash = [i \in Items |-> NoHash]
  /\ itemStatus = [i \in Items |-> "none"]
  /\ audit = [i \in Items |-> {}]
  /\ estep = [e \in Editors |-> "free"]
  /\ eitem = [e \in Editors |-> NoItem]
  /\ ehash = [e \in Editors |-> NoHash]
  /\ epromotes = [e \in Editors |-> FALSE]
  /\ raced = {} /\ revived = {} /\ unlogged = {}
  /\ edits = 0 /\ deaths = 0

NewEdit(e) == estep[e] = "free" /\ edits < MaxEdits /\ edits' = edits + 1

Finish(e) ==
  /\ estep' = [estep EXCEPT ![e] = "free"]
  /\ eitem' = [eitem EXCEPT ![e] = NoItem]
  /\ ehash' = [ehash EXCEPT ![e] = NoHash]
  /\ epromotes' = [epromotes EXCEPT ![e] = FALSE]

(* create_item's check; promote_from_run begins with it too.  Found: a     *)
(* dedup_conflict, and nothing happens.                                    *)
CheckDuplicate(e, h, promotes) ==
  /\ NewEdit(e)
  /\ ActiveItems(h) = {}
  /\ estep' = [estep EXCEPT ![e] = "inserting"]
  /\ ehash' = [ehash EXCEPT ![e] = h]
  /\ epromotes' = [epromotes EXCEPT ![e] = promotes]
  /\ UNCHANGED <<hash, itemStatus, audit, eitem, raced, revived, unlogged, deaths>>

InsertItem(e) ==
  /\ estep[e] = "inserting"
  /\ \E i \in Items :
       /\ itemStatus[i] = "none"
       /\ \A j \in Items : j < i => itemStatus[j] # "none"
       /\ hash' = [hash EXCEPT ![i] = ehash[e]]
       /\ itemStatus' = [itemStatus EXCEPT ![i] = "draft"]
       /\ eitem' = [eitem EXCEPT ![e] = i]
  /\ raced' = IF ActiveItems(ehash[e]) = {} THEN raced ELSE raced \union {ehash[e]}
  /\ estep' = [estep EXCEPT ![e] = "created"]
  /\ UNCHANGED <<audit, ehash, epromotes, revived, unlogged, edits, deaths>>

(* update_status: no status is refused.  s is the action to be audited.    *)
UpdateStatus(e, i, s) ==
  /\ itemStatus[i] # "none"
  /\ itemStatus' = [itemStatus EXCEPT ![i] = Outcome[s]]
  /\ revived' = IF itemStatus[i] = "archived" /\ s = "published"
                THEN revived \union {hash[i]} ELSE revived
  /\ estep' = [estep EXCEPT ![e] = s]
  /\ eitem' = [eitem EXCEPT ![e] = i]
  /\ UNCHANGED <<hash, audit, ehash, raced, unlogged, deaths>>

PublishItem(e, i) == NewEdit(e) /\ UpdateStatus(e, i, "published") /\ UNCHANGED epromotes
RejectItem(e, i)  == NewEdit(e) /\ UpdateStatus(e, i, "rejected") /\ UNCHANGED epromotes

(* Mutant: log_audit writes the creation only.                             *)
LogCreationOnly(e) ==
  /\ estep[e] \in DOMAIN Outcome
  /\ audit' = [audit EXCEPT ![eitem[e]] = @ \union ({estep[e]} \cap {"created"})]
  /\ IF estep[e] = "created" /\ epromotes[e]
       THEN estep' = [estep EXCEPT ![e] = "publishing"] /\ UNCHANGED <<eitem, ehash, epromotes>>
       ELSE Finish(e)
  /\ UNCHANGED <<hash, itemStatus, raced, revived, unlogged, edits, deaths>>

LogAudit(e) ==
  /\ estep[e] \in DOMAIN Outcome
  /\ audit' = [audit EXCEPT ![eitem[e]] = @ \union {estep[e]}]
  /\ IF estep[e] = "created" /\ epromotes[e]
       THEN estep' = [estep EXCEPT ![e] = "publishing"] /\ UNCHANGED <<eitem, ehash, epromotes>>
       ELSE Finish(e)
  /\ UNCHANGED <<hash, itemStatus, raced, revived, unlogged, edits, deaths>>

(* promote_from_run publishes what it created, whatever it became since.   *)
PublishPromoted(e) ==
  /\ estep[e] = "publishing"
  /\ UpdateStatus(e, eitem[e], "published")
  /\ epromotes' = [epromotes EXCEPT ![e] = FALSE]
  /\ UNCHANGED edits

EditorDies(e) ==
  /\ estep[e] # "free"
  /\ deaths < MaxDeaths
  /\ deaths' = deaths + 1
  /\ unlogged' = IF estep[e] \in DOMAIN Outcome THEN unlogged \union {eitem[e]} ELSE unlogged
  /\ Finish(e)
  /\ UNCHANGED <<hash, itemStatus, audit, raced, revived, edits>>

ItemNext ==
  \E e \in Editors :
    \/ \E h \in Hashes, promotes \in BOOLEAN : CheckDuplicate(e, h, promotes)
    \/ \E i \in Items : PublishItem(e, i) \/ RejectItem(e, i)
    \/ InsertItem(e) \/ LogAudit(e) \/ PublishPromoted(e) \/ EditorDies(e)

ItemSpec == ItemInit /\ [][ItemNext]_itemVars
----------------------------------------------------------------------------
(* Every variable keeps its type.                                          *)
ItemTypeOK ==
  /\ hash \in [Items -> Hashes \union {NoHash}]
  /\ itemStatus \in [Items -> {"none", "draft", "published", "archived"}]
  /\ \A i \in Items : (itemStatus[i] = "none") <=> (hash[i] = NoHash)
  /\ audit \in [Items -> SUBSET DOMAIN Outcome]
  /\ estep \in [Editors -> {"free", "inserting", "publishing"} \union DOMAIN Outcome]
  /\ eitem \in [Editors -> Items \union {NoItem}]
  /\ epromotes \in [Editors -> BOOLEAN]

(* "Returns dedup_conflict if a duplicate already exists": two live items  *)
(* have the same content only if two requests checked before either of     *)
(* them inserted, or an archived item was published again, which nothing   *)
(* checks.                                                                 *)
DuplicatesExplained ==
  \A i, j \in Items :
    i # j /\ hash[i] = hash[j] /\ {i, j} \subseteq ActiveItems(hash[i])
      => hash[i] \in raced \union revived

(* The audit log accounts for the status of each item: the action it is    *)
(* the outcome of was logged, unless its request is about to log it or     *)
(* died before it could.                                                   *)
StatusIsAudited ==
  \A i \in Items :
    itemStatus[i] # "none" =>
      \/ i \in unlogged
      \/ \E a \in audit[i] : Outcome[a] = itemStatus[i]
      \/ \E e \in Editors : /\ eitem[e] = i
                            /\ estep[e] \in DOMAIN Outcome
                            /\ Outcome[estep[e]] = itemStatus[i]

(* Requests that check, write and log in transactions of their own keep    *)
(* both: duplicates have their reason, and statuses their audit entry.     *)
ItemsHold == DuplicatesExplained /\ StatusIsAudited
=============================================================================
