-------------------------- MODULE DiagnosisSessions --------------------------
(***************************************************************************)
(* The AIOps diagnosis of a session: a run of its own is kept beside the   *)
(* agent's, its status follows the agent's event stream, and its report    *)
(* goes into the transcript that the chat of the session shares.           *)
(***************************************************************************)
EXTENDS ChatSessions, Naturals

CONSTANTS Diagnoses,
          MaxNative  \* bound: events of one agent run before its last

ASSUME DiagnosisAssumption == MaxNative \in Nat

DiagnosisStages == {"idle", "setting_up", "creating_scene", "streaming", "stepping", "completing",
                    "saving", "raised", "ended", "left"}

VARIABLES
  dstage, dstatus, dreport,   \* per diagnosis: where it is, aiops_runs.status, .report
  dlog,                       \* aiops_run_events: how many native ones, whether an error one
  dreported,                  \* the report that the complete event carried
  defaultScenes,              \* scenes made by _ensure_default_scene
  \* history: the agent's last word, why the row failed, overlapping set-ups
  outcome, setUpsMet

diagnosisVars == <<dstage, dstatus, dreport, dlog, dreported, defaultScenes, outcome, setUpsMet>>

DiagnosisInit ==
  /\ ChatInit
  /\ dstage = [d \in Diagnoses |-> "idle"]
  /\ dstatus = [d \in Diagnoses |-> "none"]
  /\ dreport = [d \in Diagnoses |-> "none"]
  /\ dlog = [d \in Diagnoses |-> [native |-> 0, error |-> FALSE]]
  /\ dreported = [d \in Diagnoses |-> "none"]
  /\ defaultScenes \in {0, 1}
  /\ outcome = [d \in Diagnoses |-> "none"]
  /\ setUpsMet = FALSE

Go(d, s) == dstage' = [dstage EXCEPT ![d] = s]
Live(d) == dstage[d] \notin {"idle", "ended", "left"}

(* A row, and then the scene, outside of the try block.                    *)
CreateDiagnosis(d) ==
  /\ dstage[d] = "idle"
  /\ Go(d, "setting_up")
  /\ dstatus' = [dstatus EXCEPT ![d] = "running"]
  /\ UNCHANGED <<chatVars, dreport, dlog, dreported, defaultScenes, outcome, setUpsMet>>

FindScene(d) ==
  /\ dstage[d] = "setting_up"
  /\ Go(d, IF defaultScenes > 0 THEN "streaming" ELSE "creating_scene")
  /\ setUpsMet' = (setUpsMet \/ \E o \in Diagnoses : dstage[o] = "creating_scene")
  /\ UNCHANGED <<chatVars, dstatus, dreport, dlog, dreported, defaultScenes, outcome>>

CreateScene(d) ==
  /\ dstage[d] = "creating_scene"
  /\ Go(d, "streaming")
  /\ defaultScenes' = defaultScenes + 1
  /\ UNCHANGED <<chatVars, dstatus, dreport, dlog, dreported, outcome, setUpsMet>>

(* The next event of the agent, translated and stored.  Only a complete    *)
(* event is translated to "complete"; a handoff, a timeout, an error or a  *)
(* request for approval is a "status" like any other.                      *)
AppendNative(d) ==
  /\ dstage[d] = "streaming" /\ outcome[d] = "none"
  /\ dlog' = [dlog EXCEPT ![d].native = @ + 1]
  /\ \/ /\ dlog[d].native < MaxNative
        /\ UNCHANGED <<dstage, outcome, dreported>>
     \/ /\ outcome' = [outcome EXCEPT ![d] = "stopped"]
        /\ UNCHANGED <<dstage, dreported>>
     \/ /\ outcome' = [outcome EXCEPT ![d] = "complete"]
        /\ \E r \in {"empty", "report"} : dreported' = [dreported EXCEPT ![d] = r]
        /\ Go(d, "completing")
  /\ UNCHANGED <<chatVars, dstatus, dreport, defaultScenes, setUpsMet>>

CompleteDiagnosis(d) ==
  /\ dstage[d] = "completing"
  /\ Go(d, IF dreported[d] = "report" THEN "saving" ELSE "ended")
  /\ dstatus' = [dstatus EXCEPT ![d] = "completed"]
  /\ dreport' = [dreport EXCEPT ![d] = dreported[d]]
  /\ UNCHANGED <<chatVars, dlog, dreported, defaultScenes, outcome, setUpsMet>>

SaveReport(d) ==
  /\ dstage[d] = "saving"
  /\ Go(d, "ended")
  /\ session' = TRUE
  /\ transcript' = Append(transcript, d)
  /\ UNCHANGED <<newest, blobs, toolEvents, streams, namespace, reworded, xstage, xversion,
                 memory, clstage, cleared, met, begun, forgotten, unwritten>>
  /\ UNCHANGED <<dstatus, dreport, dlog, dreported, defaultScenes, outcome, setUpsMet>>

(* Mutant: a stream that ends is taken for a completed diagnosis.          *)
StreamEndsCompleted(d) ==
  /\ dstage[d] = "streaming" /\ outcome[d] = "stopped"
  /\ Go(d, "ended")
  /\ dstatus' = [dstatus EXCEPT ![d] = "completed"]
  /\ UNCHANGED <<chatVars, dreport, dlog, dreported, defaultScenes, outcome, setUpsMet>>

(* The agent stopped without a complete event: nobody looks at the row.    *)
StreamEnds(d) ==
  /\ dstage[d] = "streaming" /\ outcome[d] = "stopped"
  /\ Go(d, "ended")
  /\ UNCHANGED <<chatVars, dstatus, dreport, dlog, dreported, defaultScenes, outcome, setUpsMet>>

(* The agent, or any write below the set-up, raises.                       *)
DiagnosisRaises(d) ==
  /\ dstage[d] \in {"streaming", "completing", "saving"}
  /\ Go(d, "raised")
  /\ UNCHANGED <<chatVars, dstatus, dreport, dlog, dreported, defaultScenes, outcome, setUpsMet>>

FailDiagnosis(d) ==
  /\ dstage[d] = "raised" /\ dstatus[d] # "failed"
  /\ dstatus' = [dstatus EXCEPT ![d] = "failed"]
  /\ UNCHANGED <<chatVars, dstage, dreport, dlog, dreported, defaultScenes, outcome, setUpsMet>>

ReportFailure(d) ==
  /\ dstage[d] = "raised" /\ dstatus[d] = "failed"
  /\ Go(d, "ended")
  /\ dlog' = [dlog EXCEPT ![d].error = TRUE]
  /\ UNCHANGED <<chatVars, dstatus, dreport, dreported, defaultScenes, outcome, setUpsMet>>

(* The client leaves (the generator is closed, which is no Exception), the *)
(* set-up or the handler itself raises, or the process dies.               *)
LeaveDiagnosis(d) ==
  /\ Live(d)
  /\ Go(d, "left")
  /\ UNCHANGED <<chatVars, dstatus, dreport, dlog, dreported, defaultScenes, outcome, setUpsMet>>

DiagnosisStep(d) ==
  \/ CreateDiagnosis(d) \/ FindScene(d) \/ CreateScene(d) \/ AppendNative(d)
  \/ CompleteDiagnosis(d) \/ SaveReport(d) \/ StreamEnds(d)
  \/ DiagnosisRaises(d) \/ FailDiagnosis(d) \/ ReportFailure(d) \/ LeaveDiagnosis(d)

DiagnosisNext ==
  \/ \E d \in Diagnoses : DiagnosisStep(d)
  \/ \E c \in Clearers : (ClearMemory(c) \/ ClearTranscript(c)) /\ UNCHANGED diagnosisVars

DiagnosisSpec == DiagnosisInit /\ [][DiagnosisNext]_<<chatVars, diagnosisVars>>
----------------------------------------------------------------------------
(* Every variable keeps its type.                                          *)
DiagnosisTypeOK ==
  /\ dstage \in [Diagnoses -> DiagnosisStages]
  /\ dstatus \in [Diagnoses -> {"none", "running", "completed", "failed"}]
  /\ dreport \in [Diagnoses -> {"none", "empty", "report"}]
  /\ \A d \in Diagnoses : dlog[d].native \in 0 .. MaxNative + 1

(* A diagnosis is completed exactly if the agent's complete event was      *)
(* seen and nothing raised after it, failed only if something raised, and  *)
(* one that is over and still "running" is one whose agent stopped short   *)
(* or whose stream was left; the session shows its report once, only if it *)
(* is completed with one, and loses it only to a clearing.                 *)
DiagnosisOutcome ==
  /\ \A d \in Diagnoses :
       /\ dstatus[d] = "completed" => outcome[d] = "complete" /\ dreport[d] = dreported[d]
       /\ dstatus[d] = "failed" => dstage[d] \in {"raised", "ended", "left"} /\ d \notin ToSet(transcript)
       /\ dstage[d] = "ended" =>
            CASE dstatus[d] = "running" -> outcome[d] = "stopped" /\ dreport[d] = "none"
              [] dstatus[d] = "completed" ->
                   (dreport[d] = "report") <=> (d \in ToSet(transcript) \union unwritten)
              [] OTHER -> dstatus[d] = "failed" /\ dlog[d].error
       /\ \A i, j \in DOMAIN transcript : transcript[i] = d /\ transcript[j] = d => i = j
  /\ defaultScenes > 1 => setUpsMet
=============================================================================
