# SmartSRE Copilot: a verification development in TLA+

This directory specifies SmartSRE Copilot (`src/app`), a FastAPI service that
indexes documents in the background and runs diagnosis agents whose risky tool
calls need a person's approval: its concurrent core in detail, and around it the
parts that keep documents, knowledge, memory, policies, conversations, metrics
and reports. The modules are
translated from the Python source, checked by TLC on small instances, and the
properties that matter most are proved by TLAPS for every value of the constants.

Run everything in this directory:

    tlc -workers 2 -config MCIndexingQueue.cfg MCIndexingQueue
    tlapm IndexingQueueProofs.tla

`PROJECT.json` lists the runs, the definition-to-source map, the hazards, the
findings and the theorems. Definitions named "Mutant" in a comment are plausible
bugs, each of which makes one property fail; nothing else uses them.

## Inventory

| component | state it keeps | operations | hard behaviour | what makes it correct |
|---|---|---|---|---|
| Indexing task queue (`repositories/indexing.py`, `tasks/dispatcher.py`, `indexing/service.py`, `redis_client.py`, `routes/file.py`) | table `indexing_tasks`, Redis list `smartsre:indexing:queue`, one loop per dispatcher process | upload, retry, claim, complete, fail, take back stale rows, republish, start, shutdown | several dispatchers and requests on one row; table and list written by separate calls; destructive pop; crashes; writes that go by a row read earlier | one execution at a time, bounded attempts, no queued row without a carrier, every task settles |
| Approval workflow (`native_agent_application_service.py`, `agent_resume_service.py`, `tasks/agent_resume.py`, `approval.py`) | the run's row, its event log, Redis list `smartsre:agent:resume:queue` | pause, list, decide, expire, resume by hand, resume by worker | check-then-append on the log; expiry racing a decision; repeated and lost messages; unconditional status writes | one decision, only approved calls executed, refused ones never, each approval answered |
| Agent run orchestration (`runtime.py`, `state.py`, `recovery.py`) | the run's row and events, an in-memory state | decide, call tools, assess evidence, report, hand off, fail, cancel | deadline, cancellation and disconnection at every await and yield; last write wins on the status | a run that returned has a final status that matches its events |
| Bounded loop and decision runtime (`loop.py`, `decision.py`, `evidence.py`, `intervention.py`) | steps, budget, intervention queue; one runtime object for all runs of a process | decide, execute, assess, recover, intervene, account tokens | budget edges, provider fallback, interventions between steps, what one run reads after another has used the shared object | the loop ends within its budget with the reason it reports; a run records its own decision |
| Tool governance (`tool_executor.py`, `policy.py`, `native_agent_application_service.py`) | policy rows | update, show, enforce, invoke with retries and timeout | read-fill-write updates; layers of overrides; a retry of a call that timed out but ran | an effect was allowed by every layer; what is shown is enforced |
| Tool catalogue (`mcp_client.py`, `registry.py`, `tool_catalog.py`) | tools of each process, cached for its life | load, merge, offer | servers down or slow during the one load that is kept | a missing tool goes back to a failure, no local tool is hidden |
| Document storage and vectors (`object_storage.py`, `vector_index_service.py`, `vector_store_manager.py`, `routes/file.py`) | objects, vectors | upload, index, index a directory, delete | replacement in two calls, hidden failures, attempts, uploads and deletions of one file that overlap | the last upload survives, one generation is indexed, deleted stays deleted |
| Knowledge items (`knowledge_service.py`, `knowledge_items.py`) | items and their audit log | create, publish, reject, promote | check, write and log in transactions of their own | duplicates and unlogged statuses have their reason |
| Feedback, badcases, FAQ (`badcase_service.py`, `routes/native_agent.py`) | feedback rows | review, promote, cluster, confirm | the review may change while its document is promoted | only reviewed text is promoted, listed candidates can be confirmed |
| Workspaces, scenes, memory (`repositories/native_agent.py`, `runtime.py`) | workspaces, scenes, memories | create, delete, recall, remember, correct | scenes deleted and runs failing around a recall | a run recalls the best memories of its own workspace |
| Retrieval and semantic cache (`agent_runtime/retrieval`) | bounded cache | rewrite, look up, search, rerank, gate | cached answers over an index that changes; a distance read as a similarity | an answer was indexed lately and passed the gate |
| Chat and checkpoints (`chat/`, `checkpoint_store.py`) | checkpoints and blobs, transcript | exchange, stream, clear | overlapping exchanges, a clearing in the middle, reads over two connections | memory and transcript agree, cleared is forgotten |
| AIOps diagnoses (`aiops_application_service.py`) | diagnosis rows, default scene | stream a run | a stream that stops short, a client that leaves | the row says how the agent ended |
| Proactive monitor (`proactive.py`) | alert stores | probe, silence, alert, trigger | overlapping probes, clocks of several processes | alerts are spaced, silence has its alert |
| Metrics, replay, scenarios, gate (`metrics_collector.py`, `agent_metrics_service.py`, `scenario_regression_service.py`) | metric columns | collect, summarise, check, replay | reads of a run that is still written | what is counted is what happened |
| Reports on runs and incidents (`incident_service.py`, `routes/incidents.py`, decision page) | links; the rest is read | link, timeline, page, summary | row and log read in different transactions from those that write them | a report tells what was so, unless it was overtaken or takes the graph's or a resumed execution's word for it |
| Rate limit (`security/rate_limit.py`) | a bucket per key | allow | both ends of a bucket | neither exceeded nor too tight |
| Authentication and roles, configuration, lifespan, schema, frontend | - | - | - | - |

How they interact: an upload writes the object store, then a row, then a list
entry; the dispatcher (in the API process when embedded, or in `app/worker.py`)
takes the entry, claims the row and calls the vector index. A run is driven by
the request that streams it. It meets the approval boundary through the tool
executor and returns; the later decision, resume and execution are other
requests and the resume dispatcher of the worker process, which know of the run
only what its row, its events and its checkpoint say. Nothing is shared in
memory between processes, so the models are over rows, logs and lists. What
surrounds a run reads and writes the same rows: memories and metrics are written
when it settles, reports and pages are read meanwhile, policies change under its
calls, and a monitor or a diagnosis session starts runs of its own.

## Modules

| module | models | state |
|---|---|---|
| `TaskLifecycle` | what the indexing subsystem promises of one task (abstract) | `status`, `attempts`, `running` |
| `IndexingQueue` | the queue, the dispatchers and the requests | the table's columns, the list, one small state machine per dispatcher and per request |
| `MCIndexingQueue` | symmetry for TLC | |
| `IndexingQueueProofs` | theorems about `IndexingQueue` and its refinement | |
| `ApprovalLifecycle` | what the approval subsystem promises about the tools of a run (abstract) | `open`, `handedOff`, `resumable`, `called`, `verdicts`, `contested`, `refused`, `chances`, `executed`, `answered` |
| `ApprovalWorkflow` | the approval of a tool call of one run | the run's row, its log by tool and event type, the list, one state machine per request and worker |
| `MCApprovalWorkflow` | symmetry for TLC | |
| `ApprovalWorkflowProofs` | theorems about `ApprovalWorkflow` and its refinement | |
| `RunLifecycle` | what the runtime promises of the row and the log of one run (abstract) | `status`, `outcome`, `open`, `broken` |
| `AgentRun` | the orchestration of one run: plan, tools in turn, bounded loop, interventions, deadline, every end | the row, the log's terminal event, where the generator is, the evidence, the loop's state, the bridge |
| `MCAgentRun` | instances for TLC | |
| `AgentRunProofs` | theorems about `AgentRun` and its two refinements | |
| `DocumentIndex` | the object store and the vector index under uploads, attempts, directory indexing and deletions, over `TaskLifecycle` | what is stored, cached locally and indexed of each file; one state machine per dispatcher and request |
| `DocumentIndexProofs` | theorems about `DocumentIndex` | |
| `BadcaseReview` | feedback, review, promotion and FAQ candidates, over `DocumentIndex` | the review of each feedback; what promoters and reviewers hold |
| `KnowledgeItems` | curated items and their audit log | rows, log entries, one state machine per request |
| `Workspaces` | scenes and their deletion, runs that start in them, memories they leave and recall | scenes, the course of each run, conclusions in order |
| `Retrieval` | the retrieval pipeline and its cache over a changing index | index, cache, clock, the last answer |
| `RunContext` | what a run is given to start from: `Workspaces` and `Retrieval` side by side | |
| `MCKnowledge` | the five components above for TLC | `part` |
| `KnowledgeProofs` | theorems about `BadcaseReview`, `KnowledgeItems`, `Workspaces` and `Retrieval`, and about the five together | |
| `ToolGovernance` | policy rows, their updates, the gate, the executor, the retries around a call | rows, one state machine per call and operator |
| `ToolCatalogue` | loading, keeping and merging the tools of servers | what the process keeps, one load per run |
| `ChatSessions` | one session's checkpoints and transcript under exchanges and clearings | rows, blobs, transcript, one state machine per exchange |
| `DiagnosisSessions` | diagnoses of a session against their agents' streams, over `ChatSessions` | diagnosis rows, one stream each |
| `ProactiveMonitor` | monitors over an alert store | clocks, last alerts, one probe per monitor |
| `AgentOps` | what collector, gate, scenarios and replay read of runs | rows and counts of events; what each reader has read |
| `RunReports` | timeline, decision page and handoff summary of runs that are written meanwhile | row, log, links, the report in progress |
| `RateLimiter` | the token buckets | buckets, clock, requests so far |
| `DecisionRuntime` | the decision runtime that all runs of a process share | its usage and fallback lists, what each run recorded |
| `MCOperations` | the nine above for TLC | `part` |
| `ToolGovernanceProofs` | theorems about `ToolGovernance`, and about the nine together | |
| `OperationsProofs` | theorems about the eight others | |
| `Sorting` | `sorted` and ORDER BY, by ranks | |
| `OrderLemmas` | lemmas on induction, recursive functions and order that the proofs share | |

### IndexingQueue

A step is one database statement or one Redis call. `status`, `file_path` and
`attempts` are the columns of `indexing_tasks`; `updated_at` is reduced to the
set `stale`, the only question the code asks of it. PostgreSQL runs at its
default isolation, so `requeue_stale_processing_tasks` is two steps: `Start`
reads the stale rows into `seen`, `TakeBack` writes them by primary key from
what was read. `mark_retry_or_failed` is split in the same way (`Fail`,
`MarkRetryOrFailed`), and so is the retry route (`RetryCheck`, `RetryUpdate`).
`claim_task` is one guarded UPDATE, hence one step. `Dequeue` is `blpop`: the message is gone before the claim.
A push whose reply is lost is repeated by `enqueue_json` and leaves two entries.
`Crash`, `LoopDies` (the loops catch nothing), `Shutdown` and `RequestFails` are
the faults and stops. The history variables `granted`, `interfered` and
`orphaned` record the three things the code really does not prevent, so that the
invariants can say that *nothing else* breaks them.

### ApprovalWorkflow

A step is one transaction on the run's row or log, one Redis call or one tool
execution. The log is kept per tool and event type, because every reader of it
filters by both. Runs share nothing but the list and the workers: one run is
modelled. `mode` is the scene's configuration: `graph` (decision runtime),
`linear` (without it) and `loop` (bounded loop). Requests are sequences of
steps: list and decide begin with the expiry (`Expire`, `ReportHandoff`,
`HandOff` per expired tool), then `Check` and `Decide`, then `PushResume` and
`NoteResume`. A resume, by hand or by a worker after `Pop`, is `Admit`,
`Authorize`, `Locate`, `NoteEvaluation`, `Execute`, `AppendResult`. `Stop` ends an
actor anywhere: a crash, an exception, or the death of the worker's loop. An
execution calls its tool more than once: a try that fails is repeated by the
interceptor of an MCP tool (`Retry`, `CallTries` tries) and an attempt that failed
or timed out by the executor (`Attempt`, `Attempts` = `retry_count` + 1), until one
answers or the last has failed (`Conclude`). `invoked` has the calls of each
execution of a tool, `effort` where an actor is in its own; a local tool has one
try. `raced`, `lost`, `extra` and `cancelled` are history in the sense above.
Of the runtime the module has what the approvals meet: a call, its blocked
result, the pause, and the end. A run that ends writes its row in one transaction
(`Finish`) and its last event in another (`Tell`); the phase "ending" between
them is where an expiry may still overwrite the row.

`ApprovalLifecycle` says what is left when requests, workers and the list are
hidden: which verdicts a tool has, what refused it, how often it may be executed
and was, what was answered, and whether the row says hand-off. `LifecycleSpec`
maps `chances` to the approvals and their repetitions, `contested` to `raced`.

The handlers of one API process interleave only where they await, and the
database calls of a handler are synchronous; the interleavings of two requests
therefore stand for requests served by several API processes. The default
deployment runs one API process and one worker, so the models allow more than it
does, and what they prove of all interleavings holds for it.

### AgentRun

`_run_orchestration` is an async generator, so `phase` is where it stands. Others
run only while it is suspended: at a yield (`AtYield`), where the client may go
(`Disconnect`: GeneratorExit, which no handler catches) and interventions may
arrive, and in an await (`Awaiting`), where the request may be cancelled
(`Cancel`). The bounded loop and the tools it calls block the event loop; nothing
but time and faults comes between its steps. A step is one statement on the row
or the log, one tool execution or one decision. `Settle` is `update_run`, `Tell`
the event after it; `StepFails` is an exception in any of these, `MarkFailed` the
handler. `mode` is `graph`, `linear` or `loop`, as in `ApprovalWorkflow`; every
scene, catalogue and `max_steps` is an initial state. A loop step is `LoopDecide`
(interventions, then recovery or the provider, then replacement) followed by
`LoopAct` or `LoopNote`. `Latest`, `Strong` and `emptyRun` are read off the
assessed results, so evidence is a sequence of tool and quality.

Abstracted: the scene's list of tools is a set, of which any order is tried
(duplicates in the list are not modelled); context interventions
(`inject_evidence`, `modify_goal`) change no decision but those of the model,
which are arbitrary anyway; a replacement without a tool changes arguments only.
Never configured by the runtime, and left out: `max_tokens`, the low-confidence
hand-off and a fallback provider of the loop. A quality `partial` or `weak` comes
only from an executor other than `ToolExecutor`, which the runtime accepts by
injection; with `ToolExecutor` alone the branches after a second result of a
graph run cannot be reached. Other writers of the row are `ApprovalWorkflow`'s.

`LifecycleSpec` says that the run implements two specifications. One is
`RunLifecycle`, the row against the log. The other is the runtime of
`ApprovalWorkflow`, which models the same code more coarsely: `PhaseSeen`,
`ToolSeen`, `CallsSeen`, `BlockedSeen` and `AskedSeen` are its variables in terms
of this module's. Requests and workers are mapped to none, as no step of the
runtime reads what they write: the row is written without being read, and the
checkpoint is not looked at. So what `ApprovalWorkflow` assumes of a run is what
a run does. The mapping found a fault of the models: `ApprovalWorkflow` once
wrote the final status and its event in one step, and TLC gave the step of
`AgentRun` between them as the counterexample.

### The knowledge side

`DocumentIndex` has a step per call to a store. `storage` and `vectors` are the
configuration: the object store is a local directory (an object is removed after
its attempt) or MinIO with a local copy; the index is Milvus, pgvector or the
degraded one, of which some report a failed insert or deletion and some hide it.
`chunks[f][c]` counts how often content `c` of file `f` is indexed. The task that
an upload finds or makes follows `TaskLifecycle`, which `IndexingQueue`
implements; so a task may be taken back under a live attempt here too.
`disturbed` is history: which attempts, uploads and deletions of a file really
met, which failures were hidden, and which attempts went astray: a task names a
storage key, which the indexer tries as a path relative to its working directory
before it asks the store. `Namesakes` are the keys for which there may be such a
file (`ReadNamesake`).

`BadcaseReview` extends it: a promotion is five transactions and an upload, and
a cluster is confirmed member by member. How alike two corrections are is a
percentage, `Likeness`; a listing clusters by the threshold of its request, a
confirmation by the default. `KnowledgeItems` has one transaction per
repository call; its `raced`, `revived` and `unlogged` are history. `Workspaces`
numbers memories in the order of `updated_at`, which the recall's window of the
newest hundred goes by, and reduces a text to its terms. A process of `Retrieval`
has one retrieval at a time, since the pipeline awaits nothing between its stages,
but each search of it is a step, and so is its end: other processes change the
index, and time passes, in between. Any reranker is allowed, a distance is a
percentage, `lastIn` and `took` (how long an answer's search had run) are history.
The clock ticks as the cache reads it.

### What surrounds the runs

`ToolGovernance` follows a call from its plan to its last retry while operators
update the policy row: `seen` is every policy since the plan. A policy is three
booleans. `ToolCatalogue` loads servers in turn; two names may have one endpoint.
`ChatSessions` writes a checkpoint row and a blob per message and reads them over
two connections, as the store does; `namespace` is the one that the rows are kept
under, and `reworded` the exchanges that show an answer of a second model call;
`DiagnosisSessions` extends it, since a diagnosis writes into the transcript of
its session. `ProactiveMonitor` splits the silence check and the record of an
alert; `skew` is the difference of the monotonic clocks of two processes.
`AgentOps` keeps of a log how many events of each kind there are, and of a text
which signals a scenario looks for; how many resumptions execute a tool is a
number, any of which may never end. `RunReports` keeps the events in order, who
claims `handoff_required` in one, and how often the row was written, and a report
is in progress until its last read; `AgentRun`'s paths are reduced to those that
differ in what they tell. `RateLimiter` takes a request as one step, since the
dependency does not await. `DecisionRuntime` has a graph as one step and a loop's
step as one, because both block the event loop, and any text as the model's
answer; usages are named by the answer they belong to, so that it can be said
whose they are.

External code: PostgreSQL (a statement is atomic), Redis lists (push at one end,
destructive pop at the other) and the tools themselves. How LangGraph names the
namespaces of checkpoints is not in this repository, and no property rests on
one answer. For approvals, `checkpoint` never changes within a run, and in `graph`
mode it takes every value of the constant `Kept` (the runs named below say which;
the theorems hold for every choice). For chats, the rows of a session are under
"chat", as the service asks, or under the empty namespace, as LangGraph may make
of a root graph: `namespace` starts as either, and `operations` explores both.

## Runs

| run | question | bounds |
|---|---|---|
| `indexing_safety` | do the retry budget, single execution, carried messages and the refinement hold in every interleaving? | 2 tasks, 1 file, 2 dispatchers, 2 concurrent requests, 2 requests in all, 2 retries, 1 fault, both backends |
| `indexing_liveness` | does every accepted task settle? | as above with 1 request at a time |
| `indexing_recovery` | does a start recover every unfinished task, as its docstring says? (violated) | 1 task, 1 dispatcher, 1 fault |
| `approval_safety` | who decided, what was executed, how often, and is the log right about it? | 2 tools, 2 concurrent requests, 1 worker, modes `graph` and `loop`, both backends, checkpoints kept, 2 attempts of 1 try, 1 fault |
| `approval_liveness` | is every approval answered, and does the workflow implement `ApprovalLifecycle`? | 1 tool, 2 concurrent requests, 1 worker, mode `graph`, Redis, 1 attempt of 2 tries, 1 fault |
| `approval_listing` | are all approval requests listed, as the API reference says? (violated) | 1 tool, 1 request, no fault |
| `approval_rejection` | does a rejected run end up handed off? (violated) | 1 tool, 1 request, no fault |
| `agent_run` | do row and log implement `RunLifecycle`, and calls and pauses the runtime of `ApprovalWorkflow`, is every call and every report justified by the evidence, do interventions apply once and in order, does the run end? | 2 tools, all scenes and catalogues over them, 1 or 2 steps, 3 modes, 2 providers, 2 interventions, 1 fault |
| `agent_run_ask` | does a decision to ask for approval pause the run? (violated) | 1 tool, loop, no fault |
| `agent_run_intervene` | is an accepted intervention applied? (violated) | 1 tool, graph, 1 intervention, no fault |
| `knowledge` | does the last upload survive, is one generation of it indexed, does a deletion last; is only reviewed text promoted; have duplicates, statuses and recalls their reason; are answers recent? | one part per behaviour: 1 file, 2 contents (3 of badcases), 2 tasks, 2 dispatchers, 2 requests, 1 failure; 3 badcases; 2 items, 2 editors, 4 edits, 1 death; 3 runs in 2 scenes of 2 workspaces; 1 goal with 2 queries, a near and a far chunk indexed before the clock's first tick, 1 failed search |
| `operations` | were effects allowed and policies shown as enforced; are catalogues, conversations, diagnoses, alerts, metrics, reports, limits and decisions what they claim? | one part per behaviour: 1 tool, 2 updates, 2 attempts of 2 tries; 3 servers, 3 loads, 2 outages; 2 exchanges and a clearing; 2 diagnoses; 2 monitors, interval 2, time to live 3, clock to 5; 1 run, 2 progress events, 1 decision; 4 requests in 7 seconds under 4 settings; 2 graph runs or a graph and a loop run, 2 steps, 1 saver failure; 2 reported runs, 3 links, 1 resumption |

The bounds are enough for the cases the properties are about. Two dispatchers
and two requests give every pairwise race, and a second task shows that skipped
or doubled messages do not disturb the others. `MaxRetries = 2` has a retry and
a give-up. One fault at any point, followed by restarts, gives every single
crash or lost reply. Two tools separate what is kept per tool from what is kept
per run (the status). Two requests allow decision against expiry, decision
against decision, and a resume by hand against the worker. In `linear` mode several tools
may be pending at once; with two of them TLC needs longer than it is worth, so it
checks that mode with one tool (a linear run differs from a graph run in going on
to the next tool and in having no checkpoint, hence it executes nothing by
resume), while the theorems cover every mode and any number of tools. The two violated approval runs use
both values of `Kept`, the passing ones checkpoints that can be found, without
which no approved action is executed. In `knowledge` and `operations` a
behaviour runs one part, so that the state space is the sum of the parts: they
share no variable except where one module extends another. Two of everything
that interleaves give every pairwise race there: two attempts of one file, two
editors, two updates, two exchanges, two monitors, two runs of one runtime. One
is enough where nothing is shared: runs in `AgentOps` (each is read by itself; a
gate's rates are sets of runs), the tool of a call, the report in `RunReports`
(reports write nothing). Content and hash are compared only for equality, and
two contents, or one hash under two items, tell apart what is equal. A second
goal or workspace would not meet the first in the cache, as entries are kept per
workspace and goal; a near and a far chunk lie on both sides of each threshold
for one of the queries. Times are small against each other as in the code
(interval below time to live), and the clock passes each of them once.
`MCKnowledge` and `MCOperations` say in their actions what else they order: a
promotion meets reviews, feedback and the indexing of its own document but no
other upload and no file that is named like its document in a working directory,
confirmations of clusters are left to the clustering part, runs of `Workspaces`
overlap two at a time, a timeline's second run only starts, and what a graph
decides is left out of timelines, which do not show it. In `agent_run` two tools
and two steps have a tool beyond the limit, a second call after a first result, a
recovery after it and two decisions for one intervention to be applied in;
`partial` is treated like `weak` and left out. `MaxRequests`, `MaxInterventions`
and `MaxFaults` only bound the number of arrivals and faults; tasks, messages and
retries are bounded by them.

Deadlock is not checked: with no arrivals left, an empty list and every actor
free, the system really waits for ever.

### Fairness

`FairSpec` of `IndexingQueue`: an accepted request runs to its end (it is a
coroutine without unbounded waits), a dispatcher's loop keeps running and a
stopped process is started again (`restart: unless-stopped` in
`docker-compose.yml`), an attempt ends one way or the other, and time goes by.
`FairSpec` of `ApprovalWorkflow`: a request that has begun and a worker that
holds a message run on, and a live worker pops. Nothing is assumed of arrivals,
of the runtime, of faults or of a loop that died; no strong fairness is used.
`FairSpec` of `AgentRun`: the runtime runs on; it is a coroutine whose awaits are
bounded by `wait_for`. Only the loop asks for the catalogue without a timeout, and
there it is assumed to answer. Cancellation, disconnection, time and faults are
not fair. `RunSettles` excludes a client that has gone and a process that died.
`EveryTaskSettles` and `ApprovedIsAnswered` name, as alternatives, exactly what
a fault can destroy: the message, the execution, or the last loop.

## What the violated runs show

* `indexing_recovery`: `start()` "recovers unfinished tasks" only if they are
  already stale. A worker that crashes in an attempt and is back before
  `task_requeue_timeout_seconds` leaves its row in `processing` for good, and a
  retry request for it is refused.
* `approval_listing`: a bounded-loop run that pauses for approval appends only
  `approval_required`. The list and the expiry look for a blocked `tool_result`,
  the resume for a `tool_call`: the request is not listed, never expires and
  cannot be resumed.
* `approval_rejection`: `ApprovalGate.pause` writes `waiting_approval`
  unconditionally after the blocked result was published. A rejection in between
  is overwritten, and the run waits for an approval that can no longer be given.
* `agent_run_ask`: a decision `ask_approval` ends the bounded loop, but only a
  blocked tool pauses the run; this one is reported as completed.
* `agent_run_intervene`: the route accepts an intervention for any running run,
  but only the bounded loop reads the bridge, and that only before it blocks the
  event loop. In the counterexample, a graph run, it is never applied.

## What the code does that one might not expect

The passing runs state what is so; some of it differs from what names and
comments suggest.

* `Retrieval`: the score of a vector search is a distance
  (`vector_search_service.py:99`, the smaller the nearer), but the confidence
  gate, the cache's threshold and the semantic lookup read it as a similarity, so
  near chunks are refused and far ones pass (`AnswersHoldFarChunks`).
* `DocumentIndex`: a key that also names a file in the dispatcher's working
  directory, such as `README.md`, is indexed from that file and under its path; the
  task completes, the document is not indexed, and the local backend removes its
  object. What was indexed of the namesake stays when the document is deleted.
* `BadcaseReview`: a listing that asks for less likeness than the default shows
  candidates whose confirmation is refused as `cluster_not_found`.
* `AgentOps`: the collector hands the store 22 metrics of which it takes 18; the
  `TypeError` is logged, no column is ever set, and the release gate, which needs
  a latency, never opens. The scenario "approval-resume-high-risk-tool" blocks a
  term that the approver's own event carries, and so does that of every
  resumption that finds the call: only a run passes it that asked for no approval
  and of which nothing was resumed (`ReleaseGateStaysShut`). It takes an approval
  of a tool that was not called, evaluated by the worker, and an approver who
  died, or has not come to its event yet.
* `ApprovalWorkflow`: an approval is not one call. The executor repeats an
  attempt of an approved tool `retry_count` times and the interceptor tries each
  three times; a call that timed out, or whose reply was lost, may have had its
  effect (`ExecutionBudget` says how often at most).
* `ToolGovernance`: a first update that says nothing of approvals waives the
  forced approval of a tool that changes something; two updates of different
  fields may lose one. The gate shows a capability that the executor does not
  read from a row (`PoliciesAgree`).
* `ToolCatalogue`: a catalogue loaded while a server was down is kept for the
  life of the process.
* `DiagnosisSessions`: a diagnosis whose agent hands off, pauses or times out, or
  whose client leaves, stays "running".
* `ProactiveMonitor`: the probe endpoint uses a fresh alert store and no window
  for every request, while `docs/architecture.md:148` speaks of deduplication.
* `RunReports`: an error event carries `error_type` and `error_message`, but the
  summary looks for `error` and `reason`, and the hand-off event of a rejection
  lacks the flag that the page looks for. The decision of the graph is told with
  the state it leads to, `handoff_required` for one (always in a scene without
  tools), though the run goes on and is completed: its page shows that
  `latest_status` for good, unless something later speaks of the status
  (`GraphHadLatestWord` in `PageIsTrue`).
* `DecisionRuntime`: what a graph decides steers nothing; a decision made without
  the graph is neither validated nor charged; the loop bypasses the fallback
  provider, and its recovery steps count the last call's tokens again.
* `Workspaces`: a run that fails after it settled keeps its memory.
* `ChatSessions`: exchanges that overlap lose memory, and an exchange that was
  under way during a clearing restores it. Should LangGraph keep the rows under
  the empty namespace, a clearing deletes nothing of the memory and reports
  success: the page is empty, the agent goes on remembering. An answer in
  tool-code form is remembered as such, and not as the page shows it.

By reading only, with no model: `find_incident_for_run`, `detect_findings`,
memory extraction and vector search over memories have no caller in the service;
a non-empty timeline has datetimes where its response model wants strings
(`routes/incidents.py:75`); the container builds the retrieval pipeline without
a cache and hands it to no runtime.

## Proofs

Every safety invariant and every action property that a run checks is a theorem
for all values of the constants, and so are the four refinements. The theorems
hold for any number of tasks, files, tools, requests, workers, runs and faults,
in every configuration, under the named assumptions on the constants:

* Bounds are naturals, null values are no elements, requests are not workers, and
  configurations are among those that the code knows
  (`QueueAssumption`, `ApprovalAssumption`, `RunAssumption`, `DocAssumption`,
  `ItemAssumption`, `AgentOpsAssumption`, `LimiterAssumption`,
  `DiagnosisAssumption`, `DecisionAssumption`, `ReportsAssumption`,
  `WorkspaceAssumption`, whose goals have finitely many terms).
* `BadcaseAssumption`: two badcases never make the same document, because its
  text names the feedback it comes from.
* `RetrievalAssumption`: the gate asks for no more than the cache does when it
  stores or compares, as the defaults do.
* `GovernanceAssumption`: the classes of tools are classes of tools, and a call is
  tried at least once. `CatalogueAssumption`: a server is configured once, as the
  settings are a dictionary.
* `MonitorAssumption`: the interval is positive and not above the time to live.

Every module has the same shape: a type invariant in parts, an inductive
invariant, a lemma per action or per group of actions, and the theorems. Where a
run's property is not inductive the list says what had to be added.

`IndexingQueueProofs`:

* `TypeCorrect`, the base of all others.
* `RetryBudgetHolds`. `RetryBudget` is not inductive: a write goes by an
  `attempt_count` read earlier. `SeenIsPast` says that what was read is at most
  the present count, and `BudgetInv` adds what a held or read row still costs.
* `SingleExecutionHolds`, from the claim's guard and the fact that a row is
  executed only while it says `processing`, unless `interfered`.
* `QueuedIsCarriedHolds`, by cases on who carries the message before and after.
* `ImplementsLifecycle`: every step maps to a step of `TaskLifecycle` or a
  stutter; the mapping of `running` is the set of dispatchers in an attempt.
  `RetryRowExists` (the row of a retry request exists) is needed for it.

`ApprovalWorkflowProofs`:

* `TypeCorrect`.
* `DecidedOnceHolds` from `UndecidedWhenRead`: whoever may still append a
  decision of a tool has found none, and there is none unless decisions overlapped.
* `ExecutedWasApprovedHolds` from `ResumeGrounded`: past each check of the resume
  the reason for passing it still holds, because the log only grows.
* `RefusedNotExecutedHolds` from the two and `ReportsGrounded` (a hand-off is
  reported only of a refused tool): with one decision, refused excludes approved.
* `QueuedIsInFlightHolds` from `MessagesSound` (what travels to a worker was
  approved; a worker only resumes) and `QueuedCarried`. The step that needs care
  is a worker that drops its message in `Authorize`: it does so only if a later
  decision overruled the approval, which `UndecidedWhenRead` excludes.
* `ExecutionBudgetHolds`. What was executed is not bounded by the approvals
  alone: a message, a worker that holds one, and a request on its way each still
  cost an execution. `WithinBudget` counts these bearers of a tool with what was
  executed against the approvals, the resumes by hand and the doubled pushes, as
  cardinalities of sets of positions; each step moves one bearer or spends it.
  The calls of one execution are bounded by `CallsBounded`: one actor at a time
  makes them, and there were no more than the attempts and tries it has begun.
* `ImplementsApprovalLifecycle`: every step is a step of `ApprovalLifecycle` or a
  stutter. An execution needs `ResumeGrounded` (what it goes by still holds) and
  `Budgeted` (a chance is left), a report `ReportsGrounded`, a hand-off
  `HandoffsGrounded` (whoever writes it has reported a refused tool), a decision
  `UndecidedWhenRead`. `HandoffIsFinalHolds` is a corollary: once the runtime has
  returned, the row is never taken out of a hand-off.

`AgentRunProofs`:

* `TypeCorrect`.
* `ImplementsRunLifecycle` from `RowInv`, which says for each phase what the row
  and the log hold: the abstract steps `Settle`, `Fail`, `Tell`, `LetGo` and
  `Break` are enabled exactly where the runtime is. In particular a run that is let go
  at a yield is either untouched or told.
* `ToolsOnlyWhileRunningHolds`, from `RowInv`.
* `NoCallOnBadEvidenceHolds` and `CompletedIsGroundedHolds` from `EvidenceInv`:
  a mode meets only its own phases, a graph run carries no bad result past its
  assessment, and a loop decides for a call only on a result that allows it
  (`BadEvidenceRecovers`: every recovery plan for a bad result calls nothing).
* `OutsideOnlyByOperatorHolds` from `SourceInv`: whatever is about to be called
  is allowed by the scene or by an applied replacement, and that stays so.
* `ImplementsApprovalRuntime` from `ViewInv`: the tools with a result are those of
  the evidence, a tool is called once outside of the loop, nothing blocked is left
  behind while the run goes on (`CallsInv`), and a pause is written of the last
  result, which asked for it (`AskingInv`). `ViewStutters` says which steps nobody
  sees outside of the run; each of the others is one of `ApprovalWorkflow`'s.
  `ImplementsItsViews` joins the two refinements.
* `InterventionsOnceInOrderHolds` from `BridgeInv`: nothing is marked as applied
  without having taken effect, and those given first are marked first.

`DocumentIndexProofs`. `DocInv` says of each file, for every process on it, what
the stores hold at that point:

* `MeetingsRecorded` and `DeletersHold`: two attempts, or an attempt and a
  deletion, that are on a file together are in `disturbed`, and a deletion has
  emptied the stores it has passed.
* `ContentSurvivesHolds` from `StoresHold`, `ReadersHold` and `Survives`: an
  attempt that has not added yet holds what is stored, one that has added left it
  in the index, unless the file was disturbed. Without the reader's part the step
  that removes the local object would lose the content.
* `OneGenerationHolds` from `ClearedHolds`: chunks are added to an index of the
  file that was cleared before, or to a disturbed one.
* `GoneStaysGoneHolds` from `GoneHolds`: of what is gone nobody holds a copy.

`KnowledgeProofs`:

* `BadcasesAlwaysHold` from `BadcaseInv`, over `DocInv`. Its parts: `Unwritten` (the
  document of a badcase that nobody confirmed is in no store, no index and no
  process), `JobsHold` and `TasksNamed` (a promotion works on a badcase that was
  confirmed, with a task of its own file), `MarksHold`. The FAQ candidates need
  the recursion of the greedy clustering: it is defined (`StepsExist`), each
  cluster's first member is its newest (`ClusterStands`), and every row is in one.
* `ItemsAlwaysHold`, with `RequestsTyped`: a request that inserts has a hash, one
  that logs or publishes has an item that exists. An item becomes live only by an
  insertion, which records that another live item has its hash by then, or by
  publishing it from the archive; what accounts for a status (a logged action, a
  request about to log it, a death) is replaced whenever a step takes it away.
* `RecallAlwaysHolds`, of a run's memories and of its retrieval. `WorkspaceInv`
  says of each run what it read of its scene (`SceneStands`), of each memory which
  run left it and that it left no other (`Stands`), and of each recall that the
  memories it ranked are a prefix of those there now (`RecallStands`).
* `AnswersStayRecent` from `RetrievalInv`: what a retrieval has found so far was in
  the index since it began (`SearchStands`), so that each chunk of a cached result
  is in the index still or left it no earlier (`KeptStands`); a hit adds at most the
  time to live to that. The scores of both are distances of chunks they have and
  pass the gate (`Holds`).
* `KnowledgeIsItsParts`: a behaviour of the specification that the run checks is
  one of `ItemSpec`, of `ContextSpec`, and of `BadcaseSpec` or, where only documents
  move, of `DocSpec`. With it `KnowledgeTypesHold` and `KnowledgeHolds` state all
  that the run checks of that specification itself.

`ToolGovernanceProofs`. `EffectsAreAllowedHolds` and `PoliciesAgreeHolds` from
`GovernanceInv`: the policy in force is among those `seen` since the plan
(`RecordsHold`), what let a call through is among them too and stays so
(`CallsAdmitted`), the effects of a call and the tries it has left stay within
the tries of all its attempts (`EffectsBounded`), and an update that none
overlapped holds the row as it is (`RowsHold`). At its end
`OperationsAreTheirParts`: a behaviour that the run checks is one of every
component's specification, and of the chat's or the diagnoses', which extend it.
`OperationsTypesHold` and `OperationsHold` follow.

`OperationsProofs`:

* `RateIsExactHolds`. `LimiterInv` says that a bucket holds the *least* that any
  span begun by an earlier request of its key still allows, the span that attains
  it included: that no span is exceeded follows from the bound, that nothing is
  refused without need from the span that attains it. What a span spent is a
  cardinality over the log.
* `ReleaseGateStaysShutHolds` from `OpsInv`: what a reader has read was so then and
  the log has only grown (`Reading`), no metric column is set (`Listing`), a
  completed run never stopped for a human, and what was resumed left the blocked
  term before it left a result (`LogInv`).
* `GapsAreFailuresHolds` from `LoadInv`: whoever was asked has answered or failed.
* `DiagnosisOutcomeHolds` from `DiagnosisInv`: the agent's last word and the row by
  where the diagnosis is (`Progressed`), the report in the transcript once
  (`Reported`), one set-up at a time unless two met (`OneScene`).
* `DecisionIsRecordedHolds` from `DecisionInv`: what a graph run has yet to record is
  its own unless another run was decided in between (`FallbacksAt`, `UsageAt`),
  and a loop's steps name exactly the answers it got (`LoopAt`).
* `AlertsAreSpacedHolds` from `MonitorInv`: what each kind of store remembers
  (`AlertRemembered`) and that an alert found due stays due until it is recorded
  unless another came in between (`StaysDue`).
* `ReportsAreFaithfulHolds` from `ReportsInv`: what row and log say of each other
  at every point of a run, and whose word a claim of a hand-off is (`RunStands`),
  that what a report read of a row is so or was overwritten since (`RowSeen`), and
  how much of which log a timeline has read after some of its links
  (`TimelineRead`). A timeline's order and completeness then follow from the ranks
  by which it is sorted.
* `ConversationAgreesHolds` from `ChatInv`: who has said what by when (`SaidInv`),
  what an exchange past its answer left where (`ShownInv`), that what a clearing
  made forgotten is nowhere from where it could be told, if the rows are under the
  namespace that is deleted (`ForgottenInv`), that a tool event tells of an answer
  that is not the agent's own (`RewordedInv`), and, as long as requests did not
  meet, that the one exchange under way carries on what is remembered (`CalmInv`).
  Proving it showed that what is forgotten has to be kept per clearing request:
  with two of them, one that deletes the memory only says nothing of the page that
  the other had emptied.

`OrderLemmas` replaces the library's induction theorems, which take an operator
and cannot be instantiated here, by ones over sets and functions: a set of
naturals with 0 and every successor has them all (`SetInduction`), a step
function can be iterated (`StepsExist`), the ranks of a finite strict order
enumerate its elements in order (`RanksRise`, `RanksEnumerate`), and a finite set
has its extremes (`ExtremesExist`).

Only model-checked are the three liveness properties (`EveryTaskSettles`,
`ApprovedIsAnswered`, `RunSettles`): liveness under fairness is beyond the provers.
`OperationsHold` states `DiagnosisOutcome` for the part "diagnoses" and
`ConversationAgrees` for the others: in the remaining cases, of a session in which
no diagnosis was started or nothing was asked, they are model-checked as well.

## Not modelled, and why

* The frontend is a client whose requests are the models' arrivals. Schema and
  migrations are declarations; configuration, lifespan and health are wiring.
* Authentication and roles: stateless checks, which appear as a capability that
  a caller has or has not.
* Embedding, splitting, language model calls and anomaly detection are data: any
  outcome is allowed.
* Incidents: their status is one write of one row; findings are never produced.
* Of the checkpoint store, pending writes, listing and lookups by id; of memory,
  validation counts, extraction and vector search, which nothing calls; of
  metrics, drift reports, fixtures and Prometheus counters.
* Knowledge bases, which no route creates; the sample servers of `mcp_servers`.
* Inside the modelled parts: texts of reports and reasons, tool arguments, the
  `limit` of the list request (a run beyond it does not expire), and clock skew
  between processes that append events (events are ordered by `created_at`).

## Plan

Done, in the order of importance: the indexing queue, the approval workflow and
the run's orchestration, each with an abstract life cycle that it is proved to
implement, and the run as the runtime that the approvals assume; documents and
vectors over the task life cycle; badcases, curated items, workspaces and
retrieval; what surrounds the runs, from tool governance to reports; the theorem
of every safety invariant and action property that a run checks, and those of the
two composed specifications. Next:

1. An abstract specification of one call under governance (planned, allowed,
   effective at most so often) that `ToolGovernance` and the loop of `AgentRun`
   both implement.
2. An abstract conversation (said, shown, forgotten) for `ChatSessions`, with a
   refinement proof out of `ChatInv`; and exchanges and diagnoses of one session
   at the same time, which the runs keep apart.
