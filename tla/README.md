# computecloud: a TLA+ verification project

computecloud runs coding agents on Workers under the control of one Server. A user
submits a Task, or a Job made of Tasks; the Server leases an *Attempt* of the Task to a
Worker, the Worker runs an agent runtime in a workspace, and reports events, an artifact
and a completion back. Every state that matters is in SQLite: the Server's database and
one journal per Worker. Everything else (streams, goroutines, sessions, processes) may be
lost at any moment, and most of the code exists to survive that.

This directory models that code in TLA+, checks the models with TLC on small instances,
and proves the central safety properties with TLAPS for instances of every size.
`PROJECT.json` names, for every definition, the source lines it stands for.

## 1. Inventory

| Component | State | Operations | What makes it hard | Correct when |
|---|---|---|---|---|
| **Task, Attempt, lease, fencing** (`internal/server`: server, tasks, results, retry, manual_retry, long_running) | tables `tasks`, `attempts`, `commands`, `workers`; in memory `s.peers`, the tick's copy | SubmitTask, CancelTask, tick (reconcile, advanceJob, assign), ConnectWorker, receive, ReportEvents, UploadArtifact, CompleteAttempt, retryJob, ExtendJobDeadline | late, repeated and reordered reports; Worker and Server restarts; leases and deadlines on two clocks | one execution at a time; a release is true; stopping sticks; retries are bounded; a submitted Task settles |
| **Worker** (`internal/worker`, `internal/process`) | journal tables `runs`, `events`, `workspaces`; goroutines `w.runs`; process groups | accept, start, leaseLoop, execute, verification, complete, flush, recover, probe | a crash between any two steps; processes that outlive the Worker; start, stop and lease in any order | the journal never claims a cleanup that did not happen; no start after a tombstone; cut off, it stops |
| **Job orchestration** (jobs, job_inputs, job/spec) | `jobs`, `stages`, manifests | SubmitJob, CancelJob, advanceJob, createReduce, finishJob | the reduce barrier against retries and cancellation | every partition counted once; a stopped Job starts nothing |
| **Artifacts** (artifacts, artifact_lifecycle) | `artifacts`, `artifact_refs`, files | UploadArtifact, accept, orphan, pin, sweep | file and row change in different steps | accepted only on success; no referenced blob is deleted |
| **Scheduler** (job_schedule, worker_selection, worker_scoring) | cursors, queue | queuedGroups, fairGroupOrder, dispatchGroup, assign, score | aging, two rotations with cursors of their own, groups that assign refuses | no group is lost from the order; projects take turns |
| **Control operations and write lease** (control_lease, control_write, control_dispatch, control_http; worker/control_execution) | `control_write_leases`, `control_operations`, `commands`; the Worker's ledger | acquire, renew, release; accept, dispatch, commandDeliverable, executeControl, finishControl, applyControlAck | each request is several transactions; redelivery; a crash around a side effect | asked at most once; a receipt is true; final outcomes arrive |
| **Approvals** (approval) | `approval_requests` | request, supersede, expire, decide, complete | expiry and supersession against a decision in flight | one decision; a reservation holds |
| **Goals** (goal_*, internal/goal, internal/governance) | `goals`, `goal_evidence`, `replan_*`, budgets, reservations | bind, reserve, evaluate, decide, publish a re-plan | budgets shared by Attempts and re-plans; loops | no overspending; each plan published once, loops refused |
| **IU graph** (graph*, internal/graph) | frozen graphs, node rows, admissions, validity events, memory views, verifications, import grants | SubmitGraph, advanceGraph, admit, invalidate, verify, evaluate, reuse, import, re-plan, recover | invalidation against running nodes; verification in two transactions | only valid inputs are used; verdict order does not matter; a Goal that passed stands; every graph Job ends |
| **Model gateway** (gateway*) | `gateway_requests`, slots, bindings | acquire, reserve, forward, settle, restart | unknown usage after an interruption; rounding; overflow | no remainder of a budget is spent twice |
| **Rate limit, web sessions, API keys** | buckets, LRU order, sessions, key rows | allow, evict, login, logout, rotate | the clock, eviction at capacity | bounded, monotone |
| **Relay** (internal/relay) | pairs, quotas, spent tickets | issue, claim, attach, release | timeout against the mate's arrival | a ticket pairs once; quotas return to zero |
| **Prepared workspace and cache** (internal/workspace, worker/workspace_*) | templates, warm slots, tombstones, file lock | prepare, materialise, collect, release | collection against use, crash in a collection | nothing in use is deleted |
| **Processes, adapters, environments, tools** (process, adapter, environment, agenthttp, worker/environment_execution) | process groups, containers; runs and markers of the HTTP runtime service | run, inspect, stop, fence, release, recover | what an absent leader proves; a late PUT after a release | a confirmed cleanup is one; nothing starts after it |
| **Native conversations** (conversation*) | `conversation_requests` | begin, ensure Job, stream | a stop between Job and record | one Job per request |
| **RPC authentication** (rpcutil) | none | authenticate, authorise | stateless | |
| **Store, migrations, backup** (store, maintenance) | schema | Tx, migrate, back up | sequential I/O | |
| **Configuration**, **tracing and telemetry**, **CLI, scripts, generated code** | | | observe or parse | |

How they interact: the Server pushes commands and lease answers over one gRPC stream per
Worker; Workers report by unary calls that they repeat until answered. Job orchestration,
retry, approvals and goals act on the core only through its tables, in the controller's
tick or in an API handler's transaction. SQLite serialises transactions: **an action is one
transaction (or one unjournalled step of a goroutine)**, never more and never less.

The hazards in `PROJECT.json` list where each of these bites, by line.

## 2. Modules

```
AttemptState ── ControlPlane ──┐
             └─ WorkerJournal ─┴─ TaskAttempts ── MCTaskAttempts (TLC)
TaskLifecycle (abstract) ◁─ refined by ─┘     └── TaskAttemptsProofs ── TaskOutcomeProofs (TLAPS)

ControlOperations ── MCControl (TLC)
                  └─ ControlProofs (TLAPS)

MapReduce, GraphJobs ── MCJobs (TLC)
                     └── JobsProofs (TLAPS)

Goals, Gateway, Relay, Workspaces,
RemoteRuntime, FairSchedule, Conversations ── MCServices (TLC)
Sums ── Goals, Gateway ── BudgetProofs (TLAPS)
Workspaces, RemoteRuntime ── SandboxProofs (TLAPS)
FairSchedule ── ScheduleProofs (TLAPS)
MCServices, BudgetProofs, SandboxProofs, ScheduleProofs ── AccessProofs (TLAPS)
```

* **AttemptState**: constants, variables, row types and Init of the execution core. An
  Attempt is its Task and generation: attempt id and lease token are random values drawn
  where the generation is incremented. Time is not a number: a lease or deadline passes in
  a step of its own, and the Worker's clock is unrelated to the Server's.
* **ControlPlane**: the Server. `Assign` is `assign()` from the copy of the sessions that
  `TickSnapshot` took, `CompleteAttempt` the whole of the handler (`MayComplete` its checks,
  `Outcome` the state it decides, `Commit` or `Unconfirmed` its writes, the retry included).
* **WorkerJournal**: one Worker. The phases of a goroutine are the points between which
  another goroutine, the receive loop or a crash can come; the row of `runs` holds what the
  source stores in it (`ref` runtime_ref, `pid`, `ws` workspace row, `seq`/`ack` events).
  `RecoverRun` concludes what `recover()` concludes, from the journal and what
  `process.Inspect` can see (`Provable`).
* **TaskAttempts**: both together with the stream (frames are lost with it) and the flush
  loop (an answer may be lost, so the Server may apply a report any number of times).
  It contains the properties, the fairness and the inductive invariant.
* **TaskLifecycle**: what the platform promises of one Task in three variables.
  `ImplementsLifecycle` is the refinement: the initial state maps to an initial state and
  each step, for every Task, to a step or a stutter of it.
* **ControlOperations**: interactive control of one Task. A request handler is four
  steps (`Begin`, `CheckCapability`, `Accept`, `Dispatch`) with anything between
  them; `TakeControl`, `Perform`, `FinishControl` are `executeControl()` before, at and after
  the call of the Runtime; `ReceiveAck` is `applyControlAck()` with the approval it completes.
  What changes underneath (Attempts, the Job's version, the run's row) is the environment:
  it may do what TaskAttempts shows the core can do, reduced to the columns this code reads.
* **MapReduce**: a map-reduce Job and its artifacts. `AdvanceJob` is `advanceJob()` with
  its three endings (`AdvanceStop`, `AdvanceBarrier`, `AdvanceSuccess`); an upload is a file
  (`UploadFile`) and then a row (`StageArtifact`); the sweep is `MarkDeleting`,
  `RemoveDeleting`, `MarkDeleted`, and for files without a row `FindStray`, `RemoveStray`,
  with anything between them. Patches are sets of paths, scopes prefixes of paths.
* **GraphJobs**: a graph Goal over its generations. `CompileGraph` is `graph.Compile` on
  plans with agent, command and join nodes and conditional edges (an invalid plan is refused,
  and the run offers a cyclic one and one that leaves a verdict unhandled); `AdvanceGraph` is
  one tick of `advanceGraphTx`, whose loop over the nodes in plan order is a recursive
  function of the position (`ActivateAll`);
  `BeginCoverage` and `EndCoverage` are the two transactions of `VerifyGraphCoverage`.
  Records are the nodes that wrote them, and a memory view is the set of records still valid.
  An edge that carries data is told from a control edge (`DataEdges`), because only the former
  enters the context a result is reused under (`ReuseKey`) or bars an import. A grant pins what a
  generation admitted or has itself from an earlier one, so imports can be chained; it binds as
  an import (`ImportFits`) or as an offer, which `activateReuseTx` turns into REUSE or RECOMPUTE.
  One grant is outstanding at a time (the code allows 64), and a plan offers at most one result.
* **Goals**: one Goal, the Jobs of its Plans and their Attempts: what is reserved, settled
  and left (`ReportMetrics` is the metrics event that may come before the completion, and
  `RecordedUsage` what completion or an evaluation makes of it); the loop guard (`GuardDecision`, one conjunct per rule of `guardReplan`), the
  publication of a Plan, and the human decisions.
* **Gateway**: the calls of one Attempt. Between `CapCall`, `StartCall`, `Answer` (or the
  events of a stream) and `RecordCall` another call, a cancellation or the end of the Server
  can come; a CLI call is journalled, spawned and identified in three steps (the check that
  the backend is open and the journal entry are one step). `SentCap` is the limit in the body
  that leaves the Server, which for `/v1/responses` is not the one that was computed (section 4).
  `tokenCostMicros` and `costTokenCapacity` keep their rounding. **Sums** defines what the
  used part of a budget is: the sum of the rows as a cardinality, without recursion. Budgets are enforced by the
  code in the mode `isolated_only`, and that mode is modelled.
* **Relay**: tickets of a pair, connections of the broker, and the dialling side that tries
  the direct path first. **Workspaces**: the directories of a Worker and one template with
  its warm slots, tombstone and file lock. **RemoteRuntime**: the HTTP runtime of one
  Attempt, with requests that are lost, repeated or late, a service that restarts with its
  markers, and the Worker's own recovery. **Conversations**: the request rows of one profile
  against the Jobs they start. **FairSchedule**: the queue, the groups a tick looks at, the order
  of `fairGroupOrder` and the tick that offers one group after the other to `assign`. Any offer
  may be refused and any group served meanwhile, because limits, capabilities and slots change
  under the tick; Tasks are submitted, retried, aged and cancelled between any two offers. Which
  Worker takes a Task is left open here and in ControlPlane.
  In Workspaces a failing update to READY and a deletion with a cancelled context are the
  failure of that preparation; both leave a row that promises less.

`MCJobs` and `MCServices` hold several components that share no state: a behaviour chooses
one of them at the start and the others rest, so a run explores the sum of their state
spaces and not the product.

Abstractions worth knowing: completion and error codes are grouped by what the Server does
with them; of the events only `attempt.started` changes state and the rest is telemetry;
`interrupt` behaves as `input`; certified capabilities are reduced to a Worker being
connected; a Job's terminal state follows from its stop reason and child, so only the
reason is kept; a Job in TaskAttempts has one child. A definition whose comment begins
with "Mutant" is a variant of the one below it with a plausible bug; no specification
uses it, and each is recorded with the property it violates.

## 3. Runs

All constants are small sets of model values. `Faults` selects what may go wrong, so that
each run asks one question without the product of all of them.

| Run | Instance | Shows |
|---|---|---|
| **Restart** | one retried Task, two Workers (symmetric), two processes each; crashes, broken streams, Server restarts | `IndInv`, `OneLiveExecution`, `ReleasedMeansStopped`; the system implements `TaskLifecycle`. Two generations on two Workers with a restart each is the least in which an old execution can meet a new one. |
| **StopRaces** | one Task, one Worker; cancellation, deadline, lease, streams, lost answers, local failures | `AckedMeansJournalled`, `SuccessIsEarned`, `AcceptedOnlyOnSuccess`; no start after a tombstone, stopping is irrevocable. |
| **Slots** | two Tasks, one slot; one of them verified, forking, retried; crashes | slots are never oversubscribed, counting what outlived a Worker process; the attempt budget holds |
| **Settle** | one Task, one Worker, fairness; cancellation, deadline, lease, broken streams | `Settles`, `CutOffWorkerStops` |
| **Verifier** (violation) | the Worker dies while its verifier runs | finding 1 |
| **Pinned** (violation) | the Worker dies between recording and delivering a completion | finding 2 |
| **Blocked** (violation) | the answer to a completion that was retried is lost | finding 3 |
| **ControlRaces** | two clients, two operations on one approval request, two Attempts, two Worker processes, broken streams (296,820 states) | `ControlInv`, `AtMostOnce`, `OneDecision`, `ReceiptIsTrue`, `NoConflict`, `ReservationHolds` |
| **ControlFlow** | one operation of any kind, one client, a Job that changes, failing writes, fairness (234,220 states) | `FinalAckIsRecorded` |
| **Superseded** (violation) | two versions of the approval request | finding 4 |
| **Jobs** | map-reduce: two partitions, disjoint and nested scopes, two Attempts each, one fault (lost, failed, stopped, swept); graphs: a branching plan of four nodes and smaller ones, three generations, up to three moves of clients or faults (37,806 states) | `ManifestHolds`, `FinishedIsSettled`, `InputsNeverConflict`; `GraphPassStands`, `GraphJobSettled`, `GraphConfluent`, `ImportsStand`, and under `GraphFairness` `GraphEnds` |
| **Services** | one small instance of each service (813,414 states) | `CostHandedOutOnce`, `OneRevisionRuns`, `LoopsAreApproved`; `AttemptWithinBudget`, `CliContained`; `RelayPairsOnce`; `WorkspaceSound`; `RemoteRunSound`; `BypassBounded`; `ConversationSound` |

Bounds: `MaxAttempts`, `MaxEpoch`, `MaxGen`, `MaxVersion`, `MaxRequest` are 1 or 2: every
rule compares a number with the current or the previous one, and the proofs cover all other
values. Every run that sets `CHECK_DEADLOCK FALSE` reaches states in which the program
really rests: the work is done or an operator has to act, and a bound on restarts is used up.
In Jobs a graph has the moves (`MaxMoves`) its question needs: one for the branching plan,
whose question is confluence, three for the covered one, where an event must come between
two transactions and be followed by a re-plan. In Services three Plans are the least that
repeat a strategy and are approved twice; two calls the least that could share a remainder;
limits 7 and 6 with prices 1 and 3 per 2 tokens make both limits bind and both roundings
occur; two connections and two pairs against a quota of 1 meet every refusal; three groups
in two projects and two priorities use every cursor, `MaxSchedulerGroups` 2 leaves one of them
out of a tick, and with `MaxQueued` 3, `MaxQueuedProject` 2 both limits refuse a submission
(`MaxTasks` bounds what the Server itself may add, for which the code has no limit). Three
generations are the least in which a result is imported that was itself never admitted where
it is taken from. The theorems of section 5 cover all other values of these constants.
ControlRaces decides with ACCEPT only and ControlFlow with REJECT, because the two choices
are treated alike up to the state they produce.

### Fairness

`Progress` gives weak fairness to what the code repeats by itself: the controller's ticker,
the goroutines of an execution, the session's sender and receiver, `leaseLoop` and the flush
loop. Strong fairness of `RecoverRun` and `Probe` says that a Worker does not die in every
`recover()`. A row is only sure to be flushed when no refused row is before it (`Reached`),
because `flush()` stops at the first error. A runtime need not end by itself, no user need
do anything, and a Worker need not reach the Server (only `FairSpec` adds that). `Settles`
further assumes that links are stable from some point on. In ControlOperations strong
fairness of sending, taking and acknowledging says that the stream does not break every time
before the same step; nothing is assumed of clients, the Runtime or the Job.

`GraphFairness` is the controller's ticker again: `AdvanceGraph` in a tick that finds room
in the queue, the Task of a node being assigned and ending, the examination of its candidate, and the tick that ends an overdue Goal. No client
need act and no deadline need pass. That every Attempt ends is what `Settles` shows of the
core where no process dies; after a crash an Attempt may stay open (findings 2 and 3), and
`GraphEnds` says nothing of a graph with such an Attempt.

## 4. Findings

1. **Verifier**: `recover()` (`worker/journal.go:163`) inspects `runtime_ref`, which still
   names the finished runtime while the recorded process is the verifier. A verifier that
   outlives its Worker is not seen, and the execution is reported cleaned up;
   `agent-runtime-v1.md:228` forbids that.
2. **Pinned**: `recover()` (`journal.go:155`) skips rows with a stored completion; that
   completion is then re-sent under the new epoch, from which `CompleteAttempt` accepts only
   `WORKER_RESTARTED`. The Attempt and its slot stay taken; `flush.go:121` says that a
   cleaned-up execution must not be pinned for ever.
3. **Blocked**: `scheduleRetry` (`retry.go:91`) clears `tasks.attempt` with the completion.
   If its answer is lost, the repetition is `STALE_ATTEMPT` for ever and `flush()` never gets
   past it; `agent-runtime-v1.md:224` says that an identical completion is idempotent.
4. **Superseded**: `persistApprovalRequested` (`approval.go:104`) supersedes a version whose
   decision is reserved and in flight. The Runtime acts, the COMPLETED acknowledgement is
   refused, the session drops, and the same happens after every reconnect;
   `agent-control-protocol-plan.md:216` promises a durable receipt for a final ACK.

Three more disagreements with a text are built into the models, whose properties are stated
so that they hold in spite of them:

* `ServeHTTP` writes the body of `/v1/responses` once more from its fields in order to set
  `store` (`gateway.go:311-313`). `applyNamedAttemptTokenLimit` puts the token limit into
  those fields, but the cost limit only into the body it returns
  (`gateway_budget.go:175-187`), which is thrown away. The upstream is not told the limit
  that the cost leaves; `production-v0.4.7.md:104` says that `max_output_tokens` is clamped by
  token *and* cost ("再依据 token 与费用剩余额度夹紧"). `AttemptWithinBudget` therefore
  excuses the output of one `/v1/responses` call from the cost limit: the next is refused.
* The sweep of stray files (`artifact_lifecycle.go:159`) counts rows and then removes the
  file: an upload that waited a day between its file and its row, and inserts the row in
  between, loses the file; `adr/0007-artifact-lifecycle.md:66` says that no file with
  metadata in the database is removed ("也不会删除仍有 DB metadata 的普通文件").
  `FindStray` and `RemoveStray` have this, and `ManifestHolds` is about rows and pins for
  that reason.
* A turn in the queue is an offer. A project whose group `assign` refuses has had its turn,
  also when a slot is freed later in the same tick and goes to a group after it
  (`job_schedule.go:213`); nothing bounds how often. `adr/0011-fair-scheduling.md:112` states
  "equal-priority runnable Projects make bounded progress" of every runnable project.
  `BypassBounded` counts what is started while a project still waits for its turn, and does
  not count what is started after it was refused.

Observed while modelling, and not stated as findings because no text contradicts them:
a control command that arrives before the start of its Attempt drops the stream; a decision
that is rejected leaves its request reserved, so it can neither be decided nor expire; a
resume that ends after its run was completed leaves a Runtime without an owner; an operation
DISPATCHED to a Worker process that restarts is never answered, since `commandDeliverable`
compares epochs; a start never delivered to a process that restarts leaves its Attempt open.

The same holds of these, in the other components:

* `evaluateBoundJob` (`goal_execution.go:136`) records usage for every reserved Attempt of the
  Goal that has none. Called for a superseded Job, as reading its Goal does, it settles open
  Attempts of the active Plan: with the cost in their metrics, if those were reported, and as
  unavailable if not; metrics that come later then make the completion a permanent
  `USAGE_CONFLICT` (`CompleteGoalAttempt`). The allowance of an open Attempt may so be counted
  together with its own cost, but never with that of another (`CostHandedOutOnce`).
* A manual retry (`manual_retry.go:201`) reopens a Goal that ended because a human rejected
  it, and is accepted while the Goal waits for a decision, where nothing can then run.
* An ABORT sent through a superseded Job (`goal_governance.go:54`) ends the Goal but stops
  that Job only.
* A validity event or deadline replaces USER_CANCEL as the stop reason of a graph that is
  still stopping (`graph_execution.go:79`), so it ends FAILED and may be re-planned.
* A crash between the rename and the removal of a template (`cache.go:341`) makes the next
  collection remove the warm slots of a template prepared since; a corrupted template
  fails every Attempt until retention ends it; directories `.prepare-*` are never collected.
* `find` (`agenthttp/server.go:625`) looks for the run under the lock and for its marker
  after it: a PUT in between is answered as cleaned up while it starts. The container
  environment is fenced separately, and `RemoteRunSound` claims cleanup only there.
* A conversation whose `SubmitJob` fails leaves a PENDING row that counts against the
  profile's limit for ever; the unguarded UPDATE after it (`conversation_service.go:132`)
  sets a finished request back to SUBMITTED; a manual retry of its Job passes the limit.
* A database error after `assign` took a Task (`job_schedule.go:141`) ends the tick and leaves
  the cursors where they were (`AbortTick`). Retried and Reduce Tasks are queued without
  `checkQueueAdmission`, as `adr/0011` section 2.4 says, so the queue may grow past its limits.

## 5. Proofs

`TaskAttemptsProofs` proves, from `StateAssumption` alone (any Tasks, Workers, attempts,
restarts, slots and faults):

* `Consistent`: `Spec => []IndInv`, and from it `TypeCorrect`, `ReleaseIsSafe`
  (`ReleasedMeansStopped`), `SingleExecution` (`OneLiveExecution`) and `RetriesBounded`.

None of these properties is inductive. That no two Attempts run at once needs three facts
held by different parties: the *Server* has at most one open Attempt per Task, the current
one (`Ledger`); a *released* Attempt was reported cleaned up by a journal row; and a *row*
that says "over and cleaned up" is true of the processes (`JournalOK`). The last is the hard
one: it has to survive every crash point, so `RowOK` says what the journal shows for each
phase of the goroutine. In particular a live runtime without a completion always has a
workspace row that is IN_USE, which is exactly what `recover()` must see in order not to
call a row that has no runtime_ref unstarted. `WireOK` and `EpochOK` keep commands and epochs
in range. The proof has one lemma per action, grouped by the part of the state it writes.

`ControlProofs` proves, from `ControlAssumption` alone:

* `ControlConsistent`: `Spec => []ControlInv`, and from it `AskedOnce`, `DecidedOnce`,
  `ReceiptsAreTrue`, `OneStory`, and the action property `ReservationSafe`.

`ClaimOK`: the claim in the ledger precedes the call, and only the loop that claimed calls.
`StoryOK`: what is acknowledged, what the ledger says and what a final receipt says agree,
and an interrupted execution stays unverified for ever. `ReserveOK`: a dispatched decision is
the one reserved on its request, and a request in progress works on the receipt with its own
body. `OneDecision` and `ReceiptIsTrue` follow only with all three.

`TaskOutcomeProofs` continues the core from `StateAssumption`, and proves what becomes of
a Task:

* `OutcomesHold`: `Spec => [](IndInv /\ Outcomes)`; from it `SuccessEarned`,
  `AcceptedSafely`, `SlotsRespected`, `CommandsJournalled`; the action properties
  `TombstonesHold` and `StopsStick`; and the refinement `LifecycleImplemented`, step by step:
  `Spec` implements `TaskLifecycle` for each Task.

`IndInv` says which executions may be alive and nothing about results. `Outcomes` adds four
parts that do not depend on one another: `Records` (what the row of a Task says of its
Attempt, and what success rests on), `Started` (a journal claims success only after it stored
`attempt.started`), `Counted` (the open Attempts per Worker and project, which is what
`assign()` counts), `Delivered` (sessions and Attempts lag behind the Worker's epoch, and an
acknowledged command is in a journal). The refinement needs `IndInv` and `Records`: every
action of Server and Workers is one step of the lifecycle or none.

`BudgetProofs`, from `GoalsAssumption` and `GatewayAssumption` (any limits, prices, numbers of
calls, Plans and Attempts):

* `GoalsSafe`, `GoalsTyped`, `CostIsHandedOutOnce`, `OneRevisionAtATime`,
  `LoopsNeedApproval`. `GoalsInv` adds that open Attempts belong to the active Plan, whose Job
  has not ended (`ActiveJobRuns`), that every publication left one entry of the history and
  that a consumed approval belongs to exactly one replaced revision (`ApprovalsCount`), so
  that the loops in the history can be matched with approvals one to one.
* `GatewaySafe`, `GatewayTyped`, `BudgetsHold`, `CliStaysContained`. `GatewayInv` says that at
  most one call of an Attempt is under way (`SlotsExclude`), that a row is open until it is
  recorded (`RowsFollowCalls`), that no call uses more than it was given (`UsageBounded`), and
  that what a call about to start is sure not to pass is left over when every earlier row is
  charged in full (`CapsFit`): its tokens, and its cost unless it goes to `/v1/responses`, where
  only that of its input counts (`Assured`). So at most the last such call passes the cost, and
  afterwards nothing is left for another. The
  rounding of costs is proved from `\div` (a call that uses no more than its tokens never
  costs more than the remainder they were computed from).

Both rest on sums over finite sets of rows. `Total` counts units instead of recursing, so
that adding a row or changing one is a fact about cardinalities; `TotalAdds` in MCServices
compares it with the library's fold.

`SandboxProofs`, from `WorkspacesAssumption` (up to two warm slots, which is
`Prewarm`'s own limit) and `RemoteAssumption`: `WorkspacesSafe`, `WorkspacesTyped`, `WorkspacesSound`;
`RemoteSafe`, `RemoteTyped`, `RemoteRunsSound`. `RowFollowsStep` says what the row of a
workspace may be at each point of its preparation. `RemoteInv` says that the marker comes
before the run and everything it starts (`MarkerFirst`), what the place or the answer of each
request, repeated and late ones included, proves of the service (`RequestsFine`, `LookFine`),
and what the Worker has concluded from them so far (`WorkerFine`).

`AccessProofs`, from `ConversationAssumption` and `RelayAssumption`: `ConversationsSafe`,
`ConversationsTyped`, `ConversationsSound`; `RelaySafe`, `RelayTyped`, `RelaysPairOnce`. A
request, its row, its calls and its answers name one Job (`OneJobEach`, `RowFine`,
`CallFine`). The Broker's claim that a pair is forwarded once rests on three different
obstacles to a second mate, of which one always holds: the spent ticket, its expiry, the epoch
of a restarted relay.

`JobsProofs` has three parts. The first, from `MapReduceAssumption` and `PathsAssumption` (any partitions, scopes
and patches; at most three generations, the limit `job/spec.go:198` sets): `MapReduceSafe`,
`MapReduceTyped`, `ManifestSafe`, `FinishedSafe`, `InputsMerge`. `MRInv` says that a row that
counts as accepted is never swept, that a patch is frozen once it has a file or a row, and
that the manifest is written once. `InputsMerge` rests on `PrefixesCompare`: of two prefixes
of a path one is a prefix of the other, so disjoint scopes have no path in common.

The second part of `JobsProofs`, from `GraphJobsAssumption` (any plans over any nodes, of which only those that
compile are submitted): `GraphSafe`, `GraphTyped`, `GraphSettles`, `GraphPassesStand`,
`ImportsKeepStanding`, `GraphIsConfluent`. `GraphInv` says of every generation what the state
of a node shows of its edges (a node that ran had every input settled and on, a skipped one
an edge that is off), what an import or a reuse rests on, and
what a PASS cites. That this survives a tick is induction along the order of the plan:
`SetInduction` derives induction over a *set* of naturals from the well-foundedness of `<`
(`WFMin`), which avoids the library's theorems with an operator parameter; `OrderRuns`,
`ActivateRuns` and `FateRuns` show that the recursive functions of the model have their
defining equations, and `OrderComplete` that a plan that compiles has its nodes in
topological order. Confluence then is: the reference `GraphFate`, computed from the plan and
the verdicts alone, agrees with the state of every node, by induction along the same order.

The third part puts them side by side: `JobsTyped` is `MCSpec => []JobsTypeOK` for the
composition the run Jobs checks. A step of one kind of Job leaves the rows of the other alone,
so `MRInv` and `GraphInv` hold together.

`ScheduleProofs`, from `FairAssumption` (any groups, projects, priorities and limits):

* `FairTyped` (`FairTypeOK`).
* `FairOrderComplete` (`ListsOnce`): `fairGroupOrder` lists every group that `queuedGroups`
  returned exactly once, by effective priority, whatever the cursors say. `Before` is shown to be
  a strict total order of them (`Rotation`: a rotated sorted list still is one), and `RankOnto`
  that the places in a finite total order are the numbers from 1 on.
* `ProjectsTakeTurns` (`BypassBounded`): the Tasks started at one priority in a row, each while
  a project waits for its first turn there, are fewer than the projects. Nothing is assumed of
  what `assign` refuses, of when slots are freed, or of how ticks end.

`FairInv` is `FairTypeOK /\ TurnsBegin /\ TurnsFollow /\ Measured`. `Measured` says that what
has passed a project plus the projects between the cursor and its own (`Ahead`) are fewer than
the projects; so a start that passes it must move the cursor towards it, and no other step may
move the cursor. That the list of a tick still agrees with the cursor while it is carried out,
with refusals in between, is `TurnsBegin` (what comes before the first turn of a project lies
between the cursor and it) and `TurnsFollow` (and is in the order of the rotation).

`ServicesTyped`, in `AccessProofs` because that module reaches the proofs of all services, is
`MCSpec => []ServicesTypeOK` (with it, a Worker's count of relay pairs never falls below zero), from the seven invariants together (`ServicesInv`).

Each inductive invariant was checked by TLC before it was proved, on the instance of the run or
a larger one (distinct states): `Outcomes` on Restart, StopRaces and Slots (385,596; 458,381;
45,162), `MRInv` (209,074), `GoalsInv` with two decisions (379,575), `GatewayInv`
(97,588), `WorkspacesInv` (94,806), `RemoteInv` with three faults (230,819),
`ConversationsInv` with three Jobs (417,245), `RelayInv` with three connections and two epochs
(672,591), `GraphInv` on the graphs of Jobs (28,808) and with two receipts and two revisions
(35,787), `FairInv` on the groups of Services (229,360).

Only model-checked, and why:

* liveness (`Settles`, `CutOffWorkerStops`, `FinalAckIsRecorded`, `GraphEnds`): TLAPS does not
  prove properties under fairness.

Every invariant and action property of the passing runs is stated by a theorem.

`NothingLeftBehind`, `CleanedUpIsReleased` and, for superseded requests, `FinalAckIsRecorded`
are violated by the code (section 4).

## 6. Plan

Every component with concurrent state is modelled, but for the choice among eligible Workers, and every safety property of the passing
runs is a theorem. What is left is to keep them in step with the code, and these extensions:

1. A second Goal in **Goals** and a second Attempt in **Gateway**, to look at what Attempts and
   Goals share beyond their own budgets.
2. **Rate limit, web sessions and API keys**, once another component depends on them.

### Not modelled

* Rate limit, web sessions and API keys: a bucket, a cookie or a key row changed under one
  mutex or in one transaction, which no modelled component reads.
* RPC authentication: stateless; every action assumes an authorised caller.
* Configuration, migrations, backup and maintenance: sequential I/O at start or by hand. The
  tables the migrations create are the variables of the modules.
* Tracing and telemetry: observe only; the metrics of an Attempt, which budgets read, are in Goals.
* The choice of a Worker by score, load and turn (`worker_selection`, `worker_scoring`): which of
  the Workers that `assign` finds eligible takes a Task is left open.
* Command lines, output parsers and tools of adapters, the routes, request translation and
  health checks of the gateway, the bytes the relay forwards, the encoding of tickets and of
  import tokens, the content of context capsules, records, reports and findings: payload, of
  which the models keep what a decision depends on.
* Command-line clients, scripts, experiments and generated code.

## 7. Running

`tlc -config Restart.cfg MCTaskAttempts` (likewise the other runs of `PROJECT.json`, the
control ones with `MCControl`, Jobs with `MCJobs` and Services with `MCServices`); `tlapm TaskAttemptsProofs.tla`, and
likewise the other modules whose name ends in `Proofs`.
