----------------------------- MODULE RunReports ------------------------------
(***************************************************************************)
(* What operators are told about a run: the timeline of an incident, the   *)
(* decision page of a run and its handoff summary.  A report reads the row *)
(* and the events of a run in transactions of their own, while the runtime *)
(* writes the row and then tells what it wrote, the handler of an approval *)
(* tells first and then writes, and a resumed execution only tells.        *)
(*                                                                         *)
(* Reports write nothing, so one of them is enough.  An event is its type  *)
(* and the tick at which it was appended; of what else it says only who,   *)
(* if anybody, claims handoff_required in it is kept.  A process that      *)
(* stops for good is one that takes no further step.                       *)
(***************************************************************************)
EXTENDS SequencesExt, Sorting

CONSTANTS ReportedRuns,
          MaxLinks,      \* bound: links from the incident to runs
          MaxResumes     \* bound: events that tell of a resumed execution

ASSUME ReportsAssumption == MaxLinks \in Nat /\ MaxResumes \in Nat

VARIABLES
  runRow,      \* run -> its row: status, whether error_message is set, and
               \* (history) how often it was written and by whom last
  runEvents,   \* run -> its events, in the order of created_at and id
  ticks,       \* events so far, the clock
  telling,     \* run -> what its runtime does next
  deciding,    \* run -> what the handler of its approval does next
  resumes,     \* run -> events of its resumed execution
  links,       \* runs linked to the incident, in order of created_at
  report       \* the report: what it has read so far and, when it is ready,
               \* (history) where its run was then; or NoReport

reportedVars == <<runRow, runEvents, ticks, telling, deciding, resumes>>
reportsVars == <<reportedVars, links, report>>

NoReport == [kind |-> "none"]

ReportsInit ==
  /\ runRow = [r \in ReportedRuns |->
                [status |-> "none", error |-> FALSE, writes |-> 0, by |-> "nobody"]]
  /\ runEvents = [r \in ReportedRuns |-> <<>>]
  /\ ticks = 0
  /\ telling = [r \in ReportedRuns |-> "nothing"]
  /\ deciding = [r \in ReportedRuns |-> "nothing"]
  /\ resumes = [r \in ReportedRuns |-> 0]
  /\ links = <<>>
  /\ report = NoReport

RowExists(r) == runRow[r].status # "none"
----------------------------------------------------------------------------
(* The two stores of a run                                                 *)
WriteRow(r, by, status, error) ==
  runRow' = [runRow EXCEPT ![r] =
    [status |-> status, error |-> @.error \/ error, writes |-> @.writes + 1, by |-> by]]

Tell(r, type, claims) ==
  /\ runEvents' = [runEvents EXCEPT ![r] =
       Append(@, [type |-> type, claims |-> claims, at |-> ticks])]
  /\ ticks' = ticks + 1

TellPlain(r, type) == Tell(r, type, "nobody")

Then(r, next) == telling' = [telling EXCEPT ![r] = next]
----------------------------------------------------------------------------
(* The runtime, with the decision graph and one tool                       *)
StartReportedRun(r) ==
  /\ ~RowExists(r)
  /\ WriteRow(r, "runtime", "running", FALSE)
  /\ Then(r, "run_started")
  /\ UNCHANGED <<runEvents, ticks, deciding, resumes>>

(* Each event by which a run gets to the next one.                         *)
Following == [run_started |-> {"decision"}, decision |-> {"tool_call", "complete"},
              tool_call |-> {"tool_result"},
              tool_result |-> {"strong", "recovery", "pause"},
              strong |-> {"complete"}, recovery |-> {"hand over"},
              final_report |-> {"return"}, handoff |-> {"return"}, approval_required |-> {"return"},
              error |-> {"nothing"}]

TypeOf(next) == IF next = "strong" THEN "decision" ELSE next

(* The event of the graph's decision has the state that the decision leads *)
(* to, handoff_required when it hands the run over; but the run goes on    *)
(* with the tools it has, or without any.                                  *)
ClaimsOf(next) ==
  CASE next = "handoff" -> {"runtime"}
    [] next = "decision" -> {"nobody", "graph"}
    [] OTHER -> {"nobody"}

TellNext(r) ==
  /\ telling[r] \in DOMAIN Following
  /\ \E claims \in ClaimsOf(telling[r]) : Tell(r, TypeOf(telling[r]), claims)
  /\ \E next \in Following[telling[r]] : Then(r, next)
  /\ UNCHANGED <<runRow, deciding, resumes>>

(* The row first, then the event.                                          *)
SettleReported(r) ==
  /\ \/ /\ telling[r] = "complete"
        /\ WriteRow(r, "runtime", "completed", FALSE) /\ Then(r, "final_report")
     \/ /\ telling[r] = "hand over"
        /\ WriteRow(r, "runtime", "handoff_required", TRUE) /\ Then(r, "handoff")
     \/ /\ telling[r] = "pause"
        /\ WriteRow(r, "runtime", "waiting_approval", FALSE) /\ Then(r, "approval_required")
  /\ UNCHANGED <<runEvents, ticks, deciding, resumes>>

(* A failure, a timeout or a cancellation reaches the run wherever it is,  *)
(* until it has returned, also after it was completed or handed over.      *)
FailReported(r) ==
  /\ telling[r] \notin {"nothing", "error"}
  /\ WriteRow(r, "runtime", "failed", TRUE)
  /\ Then(r, "error")
  /\ UNCHANGED <<runEvents, ticks, deciding, resumes>>

ReturnReported(r) ==
  /\ telling[r] = "return"
  /\ Then(r, "nothing")
  /\ UNCHANGED <<runRow, runEvents, ticks, deciding, resumes>>
----------------------------------------------------------------------------
(* The handler of an approval, which asks of the row only that it exists;  *)
(* see ApprovalWorkflow for the rest.                                      *)
DecideReported(r) ==
  /\ RowExists(r) /\ deciding[r] = "nothing"
  /\ \E next \in {"resume", "decision"} : deciding' = [deciding EXCEPT ![r] = next]
  /\ TellPlain(r, "approval_decision")
  /\ UNCHANGED <<runRow, telling, resumes>>

(* The scheduling of a resumed execution, and what a worker tells of it.   *)
TellResume(r) ==
  /\ deciding[r] = "resume" /\ resumes[r] < MaxResumes
  /\ resumes' = [resumes EXCEPT ![r] = @ + 1]
  /\ TellPlain(r, "approval_resume")
  /\ UNCHANGED <<runRow, telling, deciding>>

(* _mark_run_handoff: a decision with the state handoff_required, a handoff *)
(* event without the flag of that name, and the row last.                  *)
MarkReportedHandoff(r) ==
  /\ \/ /\ deciding[r] = "decision"
        /\ Tell(r, "decision", "handler") /\ deciding' = [deciding EXCEPT ![r] = "handoff"]
        /\ UNCHANGED runRow
     \/ /\ deciding[r] = "handoff"
        /\ TellPlain(r, "handoff") /\ deciding' = [deciding EXCEPT ![r] = "row"]
        /\ UNCHANGED runRow
     \/ /\ deciding[r] = "row"
        /\ WriteRow(r, "handler", "handoff_required", TRUE)
        /\ deciding' = [deciding EXCEPT ![r] = "over"]
        /\ UNCHANGED <<runEvents, ticks>>
  /\ UNCHANGED <<telling, resumes>>
----------------------------------------------------------------------------
(* The incident.  A link names its target by text: the run need not exist, *)
(* and may be linked again.                                                *)
AddLink(r) ==
  /\ Len(links) < MaxLinks
  /\ links' = Append(links, r)
  /\ UNCHANGED <<reportedVars, report>>

(* build_timeline reads the links, then run by run.                        *)
BeginTimeline ==
  /\ report = NoReport
  /\ report' = [kind |-> "timeline", linked |-> links, left |-> links, read |-> <<>>,
                before |-> [r \in ReportedRuns |-> Len(runEvents[r])]]
  /\ UNCHANGED <<reportedVars, links>>

ReadLinked ==
  /\ report.kind = "timeline" /\ report.left # <<>>
  /\ LET r == Head(report.left) IN
     report' = [report EXCEPT !.left = Tail(@),
                  !.read = IF RowExists(r) THEN Append(@, [run |-> r, upTo |-> Len(runEvents[r])])
                           ELSE @]
  /\ UNCHANGED <<reportedVars, links>>

(* The page and the summary: the row, then the events.                     *)
ReadRunRow(kind, r) ==
  /\ report = NoReport
  /\ RowExists(r)
  /\ report' = [kind |-> kind, run |-> r, row |-> runRow[r], events |-> <<>>, ready |-> FALSE,
                then |-> "unknown"]
  /\ UNCHANGED <<reportedVars, links>>

ReadEvents ==
  /\ report.kind \in {"page", "summary"} /\ ~report.ready
  /\ LET r == report.run IN
     report' = [report EXCEPT !.events = runEvents[r], !.ready = TRUE,
                  !.then = [row |-> runRow[r], telling |-> telling[r], deciding |-> deciding[r]]]
  /\ UNCHANGED <<reportedVars, links>>

RunStep(r) ==
  /\ \/ StartReportedRun(r) \/ TellNext(r) \/ SettleReported(r) \/ FailReported(r)
     \/ ReturnReported(r) \/ DecideReported(r) \/ TellResume(r) \/ MarkReportedHandoff(r)
  /\ UNCHANGED <<links, report>>

IncidentRequest == (\E r \in ReportedRuns : AddLink(r)) \/ BeginTimeline \/ ReadLinked

RunReportRequest ==
  \/ \E r \in ReportedRuns, kind \in {"page", "summary"} : ReadRunRow(kind, r)
  \/ ReadEvents

ReportsNext == (\E r \in ReportedRuns : RunStep(r)) \/ IncidentRequest \/ RunReportRequest

ReportsSpec == ReportsInit /\ [][ReportsNext]_reportsVars
----------------------------------------------------------------------------
(* What the reports say of what they read                                  *)
Entries == UNION {{k} \X (1 .. report.read[k].upTo) : k \in DOMAIN report.read}
RunShown(e) == report.read[e[1]].run
ToldAt(e) == runEvents[RunShown(e)][e[2]].at

(* An entry is the n-th event of the k-th run read; the sort keeps the     *)
(* order of equals.                                                        *)
Earlier(e, f) ==
  \/ ToldAt(e) < ToldAt(f)
  \/ ToldAt(e) = ToldAt(f) /\ (e[1] < f[1] \/ (e[1] = f[1] /\ e[2] < f[2]))

Timeline == SortedBy(Entries, Earlier)

Events(type) == {n \in DOMAIN report.events : report.events[n].type = type}

(* Every result is followed by its assessment, so that the results tell    *)
(* whether there is any evidence.                                          *)
Evidence == Events("tool_result")

(* The trajectory pairs calls and results of a tool in their order; each   *)
(* tool is called once in a run.                                           *)
Unanswered == Cardinality(Events("tool_call")) > Cardinality(Events("tool_result"))

HandoffEvent == {n \in Events("handoff") : \A m \in Events("handoff") : m <= n}

(* Mutant: the handoff event is enough, as its name says.                  *)
RequiredByEvent == report.row.status = "handoff_required" \/ HandoffEvent # {}

HandoffRequired ==
  \/ report.row.status = "handoff_required"
  \/ \E n \in HandoffEvent : report.events[n].claims # "nobody"

(* The last event that says anything of the status, and whether the        *)
(* latest_status of the page is handoff_required by it.                    *)
LatestWord ==
  LET speaking == Events("handoff") \union Events("approval_resume")
                    \union Events("approval_required") \union Events("decision")
  IN {n \in speaking : \A m \in speaking : m <= n}

LatestSaysHandoff ==
  \E n \in LatestWord :
    \/ report.events[n].type = "handoff"
    \/ report.events[n].type = "decision" /\ report.events[n].claims # "nobody"

GraphHadLatestWord == \E n \in LatestWord : report.events[n].claims = "graph"

(* The payload of an error event has neither key that is looked for.       *)
FailureReasons == report.row.error \/ Events("recovery") # {}

ConfirmSuggested ==
  /\ Evidence # {}
  /\ ~FailureReasons
  /\ report.row.status # "handoff_required"
----------------------------------------------------------------------------
(* Every variable keeps its type, and the error of a row stays.            *)
ReportsTypeOK ==
  /\ \A r \in ReportedRuns :
       /\ runRow[r].status \in
            {"none", "running", "completed", "waiting_approval", "handoff_required", "failed"}
       /\ runRow[r].status \in {"handoff_required", "failed"} => runRow[r].error
       /\ \A n \in DOMAIN runEvents[r] : runEvents[r][n].at < ticks
       /\ RowExists(r) \/ runEvents[r] = <<>>
  /\ report.kind \in {"none", "timeline", "page", "summary"}
  /\ ToSet(links) \subseteq ReportedRuns

(* A timeline misses no event of a linked run that was there when it was   *)
(* asked for, shows none of another run, repeats a run's events only as    *)
(* often as the run is linked, has no gap before an event it shows, and is *)
(* in order of time.                                                       *)
TimelineIsTrue ==
  (report.kind = "timeline" /\ report.left = <<>>) =>
    LET shown == Timeline
        Times(r, n) == Cardinality({k \in DOMAIN shown : RunShown(shown[k]) = r /\ shown[k][2] = n})
        Linked(r) == Cardinality({k \in DOMAIN report.linked : report.linked[k] = r})
    IN /\ \A r \in ReportedRuns : \A n \in DOMAIN runEvents[r] :
            /\ Times(r, n) <= Linked(r)
            /\ n <= report.before[r] => Times(r, n) = Linked(r)
            /\ \A m \in 1 .. n : Times(r, n) <= Times(r, m)
       /\ \A k \in DOMAIN shown : \A j \in 1 .. k :
            /\ ToldAt(shown[j]) <= ToldAt(shown[k])
            /\ RunShown(shown[j]) = RunShown(shown[k]) => shown[j][2] <= shown[k][2]

RowChanged == report.then.row.writes # report.row.writes

(* A page contradicts itself only if it was overtaken or misled.  It was   *)
(* overtaken when row and events were read on two sides of a write, when   *)
(* the runtime or the handler is between its row and its event, when both  *)
(* settled the run, or when the run failed after it was handed over.  It   *)
(* was misled when the latest word is the graph's, which hands over runs   *)
(* that are then completed, and whose pages say so for good, or when the   *)
(* latest word tells of the resumed execution of a run that was handed     *)
(* over.  It shows a call without a result only of a run in that call or   *)
(* failed in it.                                                           *)
PageIsTrue ==
  (report.kind = "page" /\ report.ready) =>
    LET status == report.row.status
        then == report.then
    IN /\ (HandoffRequired /\ status # "handoff_required") => RowChanged \/ status = "failed"
       /\ (HandoffEvent # {} /\ ~HandoffRequired) =>
            \/ RowChanged
            \/ then.deciding = "row"
            \/ then.deciding = "over" /\ report.row.by = "runtime"
       /\ (status = "handoff_required" /\ ~LatestSaysHandoff) =>
            \/ RowChanged
            \/ then.telling = "handoff" \/ then.deciding = "resume"
            \/ then.deciding = "over" /\ report.row.by = "handler"
       /\ (LatestSaysHandoff /\ status # "handoff_required") =>
            \/ RowChanged \/ status = "failed"
            \/ then.deciding \in {"handoff", "row"}
            \/ then.deciding = "over" /\ report.row.by = "runtime"
            \/ GraphHadLatestWord
       /\ Unanswered => then.telling \in {"tool_result", "error"} \/ Events("error") # {}

(* A summary suggests to confirm the resolution of a run though it has     *)
(* read of a failure or a handoff only if it read the row before that.     *)
SummaryIsTrue ==
  (/\ report.kind = "summary" /\ report.ready /\ ConfirmSuggested
   /\ Events("error") \union HandoffEvent # {})
    => RowChanged \/ report.then.deciding = "row"

(* What operators are told of a run is what was so, or was overtaken.      *)
ReportsAreFaithful == TimelineIsTrue /\ PageIsTrue /\ SummaryIsTrue
=============================================================================
