---------------------------- MODULE MCOperations ----------------------------
(* What surrounds the runs, for TLC: tools, chat, diagnoses, monitors,     *)
(* metrics, reports, rate limits and the shared decision runtime.  A       *)
(* behaviour runs one part of it, so that the state space is the sum of    *)
(* the parts and not their product.                                        *)
EXTENDS ToolGovernance, ToolCatalogue, DiagnosisSessions, ProactiveMonitor, AgentOps,
        RateLimiter, DecisionRuntime, RunReports

CONSTANTS e1, e2

VARIABLE part

operationsVars == <<governanceVars, catalogueVars, chatVars, diagnosisVars, monitorVars, opsVars,
                    limiterVars, decisionVars, reportsVars, part>>

(* Two names of one target, and a server that offers what another one and  *)
(* what a local tool do.                                                   *)
MCServers == <<"cls", "search", "monitor">>
MCEndpoint == [s \in {"cls", "search", "monitor"} |-> IF s = "monitor" THEN "u2" ELSE "u1"]
MCOffers ==
  [s \in {"cls", "search", "monitor"} |-> IF s = "monitor" THEN {"time", "cpu", "log"} ELSE {"log"}]

(* Equal clocks, and one that is ahead by the time to live.                *)
MCSkews == {[m \in Monitors |-> IF m = "m1" THEN 0 ELSE ahead] : ahead \in {0, TTL}}

(* A principal, and a host whose callers have none.                        *)
MCSenders == {[subject |-> "ann", host |-> "h1"], [subject |-> LocalDev, host |-> "h1"]}

(* Slow, fast, switched off, and with settings that are raised to one.     *)
MCLimits ==
  {[on |-> TRUE, rpm |-> 20, burst |-> 2], [on |-> TRUE, rpm |-> 90, burst |-> 1],
   [on |-> FALSE, rpm |-> 20, burst |-> 2], [on |-> TRUE, rpm |-> 0, burst |-> 0]}

Symmetry == Permutations({e1, e2})

Parts == {"governance", "catalogue", "chat", "diagnoses", "monitors", "metrics", "limits",
          "graphs", "loops", "reports"}

(* The variables of the other parts start in one way, and a run has the    *)
(* signals that its scenarios look for.                                    *)
OperationsInit ==
  /\ part \in Parts
  /\ GovernanceInit /\ CatalogueInit /\ DiagnosisInit /\ MonitorInit /\ AgentOpsInit
  /\ LimiterInit /\ DecisionInit /\ ReportsInit
  /\ part # "governance" => \A c \in Calls : capable[c]
  /\ part # "catalogue" => up = Servers
  /\ part # "chat" => streams = {} /\ namespace = "chat"
  /\ part # "diagnoses" => defaultScenes = 0
  /\ part # "monitors" => kind = "redis" /\ \A m \in Monitors : skew[m] = 0
  /\ \A r \in Runs : rtext[r] \in IF part = "metrics" THEN {{"signals"}, {"signals", "blocked"}} ELSE {{}}
  /\ part # "limits" => limit.on /\ limit.rpm = 90
  /\ part \notin {"graphs", "loops"} => model = "qwen"
  /\ \A r \in DecidingRuns : available[r] = {} => part = "graphs" /\ r = "g1"

Governance ==
  /\ part = "governance" /\ GovernanceNext
  /\ UNCHANGED <<catalogueVars, chatVars, diagnosisVars, monitorVars, opsVars, limiterVars,
                 decisionVars, reportsVars, part>>

Catalogue ==
  /\ part = "catalogue" /\ CatalogueNext
  /\ UNCHANGED <<governanceVars, chatVars, diagnosisVars, monitorVars, opsVars,
                 limiterVars, decisionVars, reportsVars, part>>

Chat ==
  /\ part = "chat" /\ ChatNext
  /\ UNCHANGED <<governanceVars, catalogueVars, diagnosisVars, monitorVars, opsVars,
                 limiterVars, decisionVars, reportsVars, part>>

DiagnosesAndClearings ==
  /\ part = "diagnoses" /\ DiagnosisNext
  /\ UNCHANGED <<governanceVars, catalogueVars, monitorVars, opsVars, limiterVars,
                 decisionVars, reportsVars, part>>

Monitoring ==
  /\ part = "monitors" /\ MonitorNext
  /\ UNCHANGED <<governanceVars, catalogueVars, chatVars, diagnosisVars, opsVars,
                 limiterVars, decisionVars, reportsVars, part>>

(* A run that says what its scenarios forbid does so at once.              *)
Metrics ==
  /\ part = "metrics" /\ AgentOpsNext
  /\ \A r \in Runs : "blocked" \in rtext[r] => EventCount(rlog'[r], Progress) = 0
  /\ UNCHANGED <<governanceVars, catalogueVars, chatVars, diagnosisVars, monitorVars,
                 limiterVars, decisionVars, reportsVars, part>>

Limits ==
  /\ part = "limits" /\ LimiterNext
  /\ UNCHANGED <<governanceVars, catalogueVars, chatVars, diagnosisVars, monitorVars,
                 opsVars, decisionVars, reportsVars, part>>

(* Two graphs, or a graph and a loop.                                      *)
Deciding ==
  /\ part \in {"graphs", "loops"} /\ DecisionNext
  /\ rstage'[IF part = "graphs" THEN "p1" ELSE "g2"] = "idle"
  /\ UNCHANGED <<governanceVars, catalogueVars, chatVars, diagnosisVars, monitorVars,
                 opsVars, limiterVars, reportsVars, part>>

(* One run in full for the page and the summary.  Timelines have two, of   *)
(* which the first gets to its tool's result, or fails before, and the     *)
(* second to its start, after all links were made; what a graph decides    *)
(* shows on no timeline.                                                   *)
Reporting ==
  /\ part = "reports" /\ ReportsNext
  /\ deciding'["t2"] = "nothing"
  /\ (deciding' # deciding /\ deciding["t1"] = "nothing") => ticks >= 4
  /\ report.kind \in {"page", "summary"} => ~report.ready
  /\ report.kind = "timeline" => report.left # <<>>
  /\ IF links' = <<>> THEN ~RowExists("t2")' /\ report'.kind # "timeline"
     ELSE /\ links' # links => \A r \in ReportedRuns : ~RowExists(r)
          /\ report'.kind \in {"none", "timeline"}
          /\ report'.kind = "timeline" => ticks >= 1
          /\ deciding'["t1"] = "nothing"
          /\ telling'["t1"] \notin {"recovery", "strong", "pause", "complete"}
          /\ telling'["t2"] \notin {"error", "tool_call", "complete"}
          /\ \A n \in DOMAIN runEvents'["t1"] : runEvents'["t1"][n].claims = "nobody"
  /\ UNCHANGED <<governanceVars, catalogueVars, chatVars, diagnosisVars, monitorVars,
                 opsVars, limiterVars, decisionVars, part>>

OperationsNext ==
  \/ Governance \/ Catalogue \/ Chat \/ DiagnosesAndClearings \/ Monitoring \/ Metrics
  \/ Limits \/ Deciding \/ Reporting

OperationsSpec == OperationsInit /\ [][OperationsNext]_operationsVars

(* Every variable around the runs keeps its type: those of the part that   *)
(* runs, as the others never change.                                       *)
OperationsTypeOK ==
  /\ part = "governance" => GovernanceTypeOK
  /\ part = "catalogue" => CatalogueTypeOK
  /\ part = "chat" => ChatTypeOK
  /\ part = "diagnoses" => DiagnosisTypeOK
  /\ part = "monitors" => MonitorTypeOK
  /\ part = "metrics" => AgentOpsTypeOK
  /\ part = "limits" => LimiterTypeOK
  /\ part \in {"graphs", "loops"} => DecisionTypeOK
  /\ part = "reports" => ReportsTypeOK
=============================================================================
