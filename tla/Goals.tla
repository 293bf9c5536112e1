------------------------------- MODULE Goals -------------------------------
(***************************************************************************)
(* One Goal: its Jobs (one per Plan revision), the Attempts reserved for   *)
(* it, the re-plan guard, publication, and the decisions of a human.       *)
(*                                                                         *)
(* Plan revision and Graph generation advance together in every statement  *)
(* that writes them here, so one number stands for both.  The Goal's       *)
(* version is not kept: a decision whose version, revision or generation   *)
(* is not the current one changes nothing.  A Plan's fingerprint is the    *)
(* Plan; its strategy signature is the field "strategy".  The evidence a   *)
(* publication may carry is the failure reason of the evaluation, so the   *)
(* evidence fingerprint is that reason.                                    *)
(***************************************************************************)
EXTENDS Naturals, Sequences, FiniteSets, SequencesExt, Sums

CONSTANTS
    MaxRevision,      \* bound on Plan revisions
    MaxGoalAttempts,  \* bound on max_total_attempts
    MaxVersion,       \* bound on a Job's version (manual retries)
    MaxDecisions,     \* bound on approvals of a re-plan
    Plans,            \* proposed Plans: [strategy, spec]
    Progress,         \* progress snapshots: [accepted, failed]
    Limits,           \* limits a human may set: [attempts, replans, cost]
    Costs,            \* cost units a Runtime may report
    Reasons           \* error codes a Job can fail with

ASSUME GoalsAssumption ==
    /\ {MaxRevision, MaxGoalAttempts, MaxVersion} \subseteq Nat \ {0}
    /\ MaxDecisions \in Nat /\ Costs \subseteq Nat
    /\ Progress \subseteq [accepted : Nat, failed : Nat]
    /\ Limits \subseteq [attempts : 1 .. MaxGoalAttempts, replans : Nat, cost : Nat]

VARIABLES
    goal,         \* the row of goals and its goal_budget_policy
    goalJobs,     \* the Jobs bound to the Goal, by Plan revision
    goalAttempts, \* the reserved Attempts: release, attempt_metrics, goal_usage
    history,      \* replan_history, goal_evidence and plan_fingerprints
    requests,     \* replan_requests: the one for the last evaluation, by revision
    evaluations,  \* goal_evaluations: the last one of each revision
    permissions   \* goal_replan_permissions

goalVars == <<goal, goalJobs, goalAttempts, history, requests, evaluations,
              permissions>>

----------------------------------------------------------------------------
GoalTerminal == {"SUCCEEDED", "FAILED", "CANCELED"}

\* The states in which Attempts may be reserved.
GoalRunnable == {"RUNNING", "REPLANNING"}

GoalStates == GoalTerminal \cup GoalRunnable \cup
              {"REPLAN_GUARDING", "NEEDS_APPROVAL"}

Revisions == 1 .. MaxRevision

\* Two of the five counters of a progress snapshot are kept.
ImprovedOver(p, prev) == p.accepted > prev.accepted \/ p.failed < prev.failed

\* How proposalMatchesEvaluation classifies a failure: these codes are classes of
\* their own, all others are one.
ClassOf(reason) ==
    IF reason \in {"TEST_FAILURE", "TIMEOUT", "CAPABILITY_UNAVAILABLE",
                   "PERMISSION_DENIED", "RESOURCE_EXHAUSTED"}
    THEN reason ELSE "UNKNOWN"

replanCycleWindow == 6

sameFailureMaxReplans == 2

\* Rows of goal_usage and attempt_metrics: none yet, one that says the Runtime
\* reported nothing, one with incomplete figures, or the complete cost.
Usage == [kind : {"none", "unavailable", "partial"}, cost : {0}]
         \cup [kind : {"complete"}, cost : Costs]

NoUsage == [kind |-> "none", cost |-> 0]

Unavailable == [kind |-> "unavailable", cost |-> 0]

GoalJob == [state : {"none", "QUEUED", "STOPPING"} \cup GoalTerminal,
            version : 1 .. MaxVersion, reason : Reasons \cup {""}]

NoRequest == [version |-> 0]

\* The rows of the tables.
GoalRow == [state : GoalStates, revision : Revisions, maxReplans : Nat, replans : Nat,
            maxAttempts : 1 .. MaxGoalAttempts, attempts : Nat, maxCost : Nat,
            expired : BOOLEAN]

GoalAttemptRow == [revision : Revisions, released : BOOLEAN, metrics : Usage,
                   usage : Usage, budget : Nat]

HistoryRow == [reason : Reasons, plan : Plans, progress : Progress, progressed : BOOLEAN]

RequestRow == [version : 1 .. MaxVersion, plan : Plans, progress : Progress,
               state : {"ALLOWED", "NEEDS_APPROVAL", "REJECTED"}] \cup {NoRequest}

EvaluationRow == [version : 0 .. MaxVersion, verdict : GoalTerminal \cup {""}]

PermissionRow == [revision : Revisions, consumed : BOOLEAN]

GoalsTypeOK ==
    /\ goal \in GoalRow
    /\ goalJobs \in [Revisions -> GoalJob]
    /\ goalAttempts \in Seq(GoalAttemptRow)
    /\ history \in Seq(HistoryRow)
    /\ requests \in [Revisions -> RequestRow]
    /\ evaluations \in [Revisions -> EvaluationRow]
    /\ permissions \in Seq(PermissionRow)

NoJob == [state |-> "none", version |-> 1, reason |-> ""]

NewJob == [NoJob EXCEPT !.state = "QUEUED"]

\* A submitted Job gets its Goal in the same transaction.
GoalsInit ==
    /\ goal = [state |-> "RUNNING", revision |-> 1, maxReplans |-> 0,
               replans |-> 0, maxAttempts |-> 1, attempts |-> 0,
               maxCost |-> 0, expired |-> FALSE]
    /\ goalJobs = [r \in Revisions |-> IF r = 1 THEN NewJob ELSE NoJob]
    /\ goalAttempts = <<>>
    /\ history = <<>>
    /\ requests = [r \in Revisions |-> NoRequest]
    /\ evaluations = [r \in Revisions |-> [version |-> 0, verdict |-> ""]]
    /\ permissions = <<>>

----------------------------------------------------------------------------
(* Budgets *)

OpenAttempts == {a \in DOMAIN goalAttempts : ~goalAttempts[a].released}

Settled == {a \in DOMAIN goalAttempts : goalAttempts[a].usage.kind = "complete"}

CostOf(S) == Total([a \in S |-> goalAttempts[a].usage.cost])

UsedCost == CostOf(Settled)

\* RemainingUsageTx without an error: no policy, or every reservation has a
\* complete usage row and something is left.
UsageAllows == \/ goal.maxCost = 0
               \/ Settled = DOMAIN goalAttempts /\ UsedCost < goal.maxCost

\* Mutant: only what is settled counts, not what is still under way.
BudgetShared == goal.maxCost = 0 \/ UsedCost < goal.maxCost

\* buildGoalRuntimeBudget: under a policy one Attempt at a time, which takes
\* all that is left.
BudgetAllows == \/ goal.maxCost = 0
                \/ OpenAttempts = {} /\ UsageAllows

FrozenBudget == IF goal.maxCost = 0 THEN 0 ELSE goal.maxCost - UsedCost

\* Mutant: the Job of any revision of the Goal may run.
ReserveAnyRevision(r) ==
    /\ goalJobs[r].state = "QUEUED" /\ BudgetAllows /\ ~goal.expired
    /\ goal.state \in GoalRunnable /\ goal.attempts < goal.maxAttempts
    /\ goal' = [goal EXCEPT !.attempts = @ + 1]
    /\ goalAttempts' = Append(goalAttempts,
           [revision |-> r, released |-> FALSE, metrics |-> NoUsage,
            usage |-> NoUsage, budget |-> FrozenBudget])
    /\ UNCHANGED <<goalJobs, history, requests, evaluations, permissions>>

\* assign() of a Task of the Job of revision r, up to the reservation.
ReserveAttempt(r) ==
    /\ goalJobs[r].state = "QUEUED"
    /\ BudgetAllows
    /\ goal.state \in GoalRunnable
    /\ goal.attempts < goal.maxAttempts
    /\ ~goal.expired
    /\ r = goal.revision
    /\ goal' = [goal EXCEPT !.attempts = @ + 1]
    /\ goalAttempts' = Append(goalAttempts,
           [revision |-> r, released |-> FALSE, metrics |-> NoUsage,
            usage |-> NoUsage, budget |-> FrozenBudget])
    /\ UNCHANGED <<goalJobs, history, requests, evaluations, permissions>>

\* An attempt.metrics event of an Attempt that has not ended: the Worker sends
\* one, before its completion.
ReportMetrics(a, metrics) ==
    /\ ~goalAttempts[a].released
    /\ goalAttempts[a].metrics = NoUsage
    /\ goalAttempts' = [goalAttempts EXCEPT ![a].metrics = metrics]
    /\ UNCHANGED <<goal, goalJobs, history, requests, evaluations, permissions>>

\* What recordGoalAttemptUsage writes.  (Where the credential goes through the
\* gateway it counts the tokens of the gateway and is never complete: the same
\* as metrics with incomplete figures.)
RecordedUsage(row) == IF row.metrics = NoUsage THEN Unavailable ELSE row.metrics

\* CompleteAttempt records the usage and releases in one transaction.  A row
\* that says something else is a USAGE_CONFLICT, and the completion fails.
CompleteGoalAttempt(a) ==
    LET usage == RecordedUsage(goalAttempts[a])
    IN  /\ ~goalAttempts[a].released
        /\ goalAttempts[a].usage \in {NoUsage, usage}
        /\ goalAttempts' = [goalAttempts EXCEPT ![a].released = TRUE, ![a].usage = usage]
        /\ UNCHANGED <<goal, goalJobs, history, requests, evaluations, permissions>>

----------------------------------------------------------------------------
(* Evaluation *)

\* evaluateBoundJob records a usage row for every Attempt of the Goal that has
\* none, the ones under way too, then judges the Job if it is the active one and not judged before.
\* "proved" says that the accepted result artifact was found.
Evaluate(r, job, proved) ==
    LET verdict == IF job.state = "SUCCEEDED" /\ ~proved THEN "FAILED" ELSE job.state
        judged  == evaluations[r].version = job.version
    IN  /\ goalAttempts' = [a \in DOMAIN goalAttempts |->
               IF goalAttempts[a].usage # NoUsage THEN goalAttempts[a]
               ELSE [goalAttempts[a] EXCEPT !.usage = RecordedUsage(goalAttempts[a])]]
        /\ IF r # goal.revision \/ judged THEN UNCHANGED <<goal, evaluations>>
           ELSE /\ evaluations' = [evaluations EXCEPT ![r] =
                       [version |-> job.version, verdict |-> verdict]]
                /\ goal' = IF goal.state \in GoalTerminal THEN goal
                           ELSE [goal EXCEPT !.state =
                                   IF verdict = "FAILED" /\ goal.maxReplans > 0
                                   THEN "REPLAN_GUARDING" ELSE verdict]

\* jobState with a terminal state: every Attempt of the Job is released.
FinishJob(r, to, reason, proved) ==
    LET job == [goalJobs[r] EXCEPT !.state = to, !.version = @ + 1, !.reason = reason]
    IN  /\ goalJobs[r].state \in {"QUEUED", "STOPPING"}
        /\ goalJobs[r].version < MaxVersion
        /\ \A a \in OpenAttempts : goalAttempts[a].revision # r
        /\ to = "CANCELED" <=> goalJobs[r].state = "STOPPING"
        /\ to = "SUCCEEDED" => \E a \in DOMAIN goalAttempts : goalAttempts[a].revision = r
        /\ (to = "FAILED") = (reason # "")
        /\ reason = "TIMEOUT" => goal.expired
        /\ proved => to = "SUCCEEDED"
        /\ goalJobs' = [goalJobs EXCEPT ![r] = job]
        /\ Evaluate(r, job, proved)
        /\ UNCHANGED <<history, requests, permissions>>

\* GET /v1/jobs/{id}/goal evaluates a terminal Job again.
ReadGoal(r) ==
    /\ goalJobs[r].state \in GoalTerminal
    /\ \E proved \in BOOLEAN : Evaluate(r, goalJobs[r], proved)
    /\ UNCHANGED <<goalJobs, history, requests, permissions>>

CancelBoundJob(r) ==
    /\ goalJobs[r].state = "QUEUED"
    /\ goalJobs[r].version < MaxVersion
    /\ goalJobs' = [goalJobs EXCEPT ![r].state = "STOPPING", ![r].version = @ + 1]
    /\ UNCHANGED <<goal, goalAttempts, history, requests, evaluations, permissions>>

\* ManualRetry reopens a Job whose one Task failed, and its Goal if it FAILED.
RetryBoundJob(r) ==
    /\ goalJobs[r].state = "FAILED"
    /\ goalJobs[r].reason # "TIMEOUT"
    /\ goalJobs[r].version < MaxVersion
    /\ ~goal.expired
    /\ goalJobs' = [goalJobs EXCEPT ![r] =
           [NewJob EXCEPT !.version = goalJobs[r].version + 1]]
    /\ goal' = IF goal.state = "FAILED" THEN [goal EXCEPT !.state = "RUNNING"] ELSE goal
    /\ UNCHANGED <<goalAttempts, history, requests, evaluations, permissions>>

\* The clock passes the deadline (or the wall time) of the Goal.
ExpireGoal ==
    /\ ~goal.expired
    /\ goal' = [goal EXCEPT !.expired = TRUE]
    /\ UNCHANGED <<goalJobs, goalAttempts, history, requests, evaluations, permissions>>

\* ExtendJobDeadline moves the Goal's deadline with the Job's.
ExtendGoalDeadline(r) ==
    /\ goalJobs[r].state = "QUEUED"
    /\ goal.state \notin GoalTerminal
    /\ goal.expired
    /\ goal' = [goal EXCEPT !.expired = FALSE]
    /\ UNCHANGED <<goalJobs, goalAttempts, history, requests, evaluations, permissions>>

----------------------------------------------------------------------------
(* The re-plan guard *)

SeenEvidence(reason) == \E i \in DOMAIN history : history[i].reason = reason

SeenPlan(plan) == \E i \in DOMAIN history : history[i].plan = plan

\* history[i] was published as revision i + 1.
SeenStrategy(plan) ==
    \E i \in DOMAIN history : /\ i + 1 + replanCycleWindow > goal.revision
                              /\ history[i].plan.strategy = plan.strategy

RepeatedFailure(reason) ==
    /\ Len(history) >= sameFailureMaxReplans
    /\ \A i \in Len(history) - sameFailureMaxReplans + 1 .. Len(history) :
          ClassOf(history[i].reason) = ClassOf(reason)

Improved(progress) ==
    history = <<>> \/ ImprovedOver(progress, Last(history).progress)

NoProgress(progress) ==
    ~Improved(progress) /\ history # <<>> /\ ~Last(history).progressed

\* What only a human may wave through.
LoopSuspected(reason, plan, progress) ==
    SeenStrategy(plan) \/ RepeatedFailure(reason) \/ NoProgress(progress)

\* A limit is reached; only a human can raise it.
LimitReached ==
    \/ ~UsageAllows \/ goal.expired
    \/ goal.attempts >= goal.maxAttempts \/ goal.replans >= goal.maxReplans

\* Mutant: a loop is not looked for.
GuardUnwatched(rev, reason, plan, progress, override) ==
    IF goal.state \in GoalTerminal \/ rev # goal.revision THEN "REJECTED"
    ELSE IF LimitReached THEN "NEEDS_APPROVAL"
    ELSE IF SeenEvidence(reason) \/ SeenPlan(plan) THEN "REJECTED"
    ELSE "ALLOWED"

\* The decision of the guard, the first check that fails; "override" is an approval
\* given with a request of a Goal that waits for one.
GuardDecision(rev, reason, plan, progress, override) ==
    IF goal.state \in GoalTerminal \/ rev # goal.revision THEN "REJECTED"
    ELSE IF LimitReached THEN "NEEDS_APPROVAL"
    ELSE IF SeenEvidence(reason) \/ SeenPlan(plan) THEN "REJECTED"
    ELSE IF LoopSuspected(reason, plan, progress) /\ ~override THEN "NEEDS_APPROVAL"
    ELSE "ALLOWED"

\* ConsumeReplanPermissionTx: op is an approval of this revision, not yet used.
CanConsume(op) ==
    /\ op \in DOMAIN permissions
    /\ permissions[op].revision = goal.revision
    /\ ~permissions[op].consumed

\* The callback of PublishGoalReplan: the failed Job is still the one that was
\* evaluated, and the new Job has time left.
PublicationHolds(r) == goalJobs[r].state = "FAILED" /\ ~goal.expired

\* A repetition is answered from the row of its evaluation, but for the same
\* proposal that waited and now carries an approval.
Reconsidered(r, plan, progress, op) ==
    requests[r].version = goalJobs[r].version =>
        /\ requests[r].plan = plan /\ requests[r].progress = progress
        /\ requests[r].state = "NEEDS_APPROVAL" /\ op # 0

\* The approval is used up where one was needed, and refused where not.
ConsumePermission(op) ==
    IF goal.state = "NEEDS_APPROVAL"
    THEN CanConsume(op) /\ permissions' = [permissions EXCEPT ![op].consumed = TRUE]
    ELSE op = 0 /\ UNCHANGED permissions

\* What an allowed request commits: history, the next revision and its Job.
AdvanceRevision(reason, plan, progress) ==
    /\ goal' = [goal EXCEPT !.state = "REPLANNING", !.replans = @ + 1,
                            !.revision = @ + 1]
    /\ goalJobs' = [goalJobs EXCEPT ![goal.revision + 1] = NewJob]
    /\ history' = Append(history,
           [reason |-> reason, plan |-> plan, progress |-> progress,
            progressed |-> Improved(progress)])

\* PublishGoalReplan.  op = 0 is a proposal without an approval.  Whatever
\* fails after the guard rolls all of it back.
PublishGoalReplan(r, plan, progress, op) ==
    LET job      == goalJobs[r]
        override == goal.state = "NEEDS_APPROVAL" /\ op # 0
        decision == GuardDecision(r, job.reason, plan, progress, override)
    IN  /\ job.state = "FAILED"
        /\ evaluations[r] = [version |-> job.version, verdict |-> "FAILED"]
        /\ Reconsidered(r, plan, progress, op)
        /\ requests' = [requests EXCEPT ![r] =
               [version |-> job.version, plan |-> plan, progress |-> progress,
                state |-> decision]]
        /\ \/ /\ decision = "ALLOWED"
              /\ PublicationHolds(r)
              /\ goal.revision < MaxRevision
              /\ ConsumePermission(op)
              /\ AdvanceRevision(job.reason, plan, progress)
           \/ /\ decision = "NEEDS_APPROVAL"
              /\ goal' = [goal EXCEPT !.state = "NEEDS_APPROVAL"]
              /\ UNCHANGED <<goalJobs, history, permissions>>
           \/ /\ decision = "REJECTED"
              /\ UNCHANGED <<goal, goalJobs, history, permissions>>
        /\ UNCHANGED <<goalAttempts, evaluations>>

----------------------------------------------------------------------------
(* Decisions of a human, sent through any Job of the Goal *)

DecideApprove ==
    /\ goal.state = "NEEDS_APPROVAL"
    /\ Len(permissions) < MaxDecisions
    /\ permissions' = Append(permissions,
           [revision |-> goal.revision, consumed |-> FALSE])
    /\ UNCHANGED <<goal, goalJobs, goalAttempts, history, requests, evaluations>>

\* INCREASE_BUDGET: every limit that is named must grow.
DecideIncrease(limit) ==
    LET old == [attempts |-> goal.maxAttempts, replans |-> goal.maxReplans,
                cost |-> goal.maxCost]
    IN  /\ goal.state \notin GoalTerminal
        /\ limit # old
        /\ \A f \in DOMAIN old : limit[f] >= old[f]
        /\ goal' = [goal EXCEPT !.maxAttempts = limit.attempts,
                                !.maxReplans = limit.replans, !.maxCost = limit.cost]
        /\ UNCHANGED <<goalJobs, goalAttempts, history, requests, evaluations, permissions>>

\* REJECT needs a Goal that waits, ABORT any that has not ended; both stop the
\* Job the decision was sent through.
DecideEnd(r, action) ==
    /\ goalJobs[r].state # "none"
    /\ goal.state \notin GoalTerminal
    /\ action = "REJECT" => goal.state = "NEEDS_APPROVAL"
    /\ goal' = [goal EXCEPT !.state = IF action = "REJECT" THEN "FAILED" ELSE "CANCELED"]
    /\ IF goalJobs[r].state = "QUEUED"
       THEN /\ goalJobs[r].version < MaxVersion
            /\ goalJobs' = [goalJobs EXCEPT ![r].state = "STOPPING", ![r].version = @ + 1]
       ELSE UNCHANGED goalJobs
    /\ UNCHANGED <<goalAttempts, history, requests, evaluations, permissions>>

GoalsNext ==
    \/ \E r \in Revisions :
          \/ ReserveAttempt(r)
          \/ ReadGoal(r)
          \/ CancelBoundJob(r)
          \/ RetryBoundJob(r)
          \/ ExtendGoalDeadline(r)
          \/ \E to \in GoalTerminal, reason \in Reasons \cup {""}, proved \in BOOLEAN :
                FinishJob(r, to, reason, proved)
          \/ \E plan \in Plans, progress \in Progress, op \in 0 .. MaxDecisions :
                PublishGoalReplan(r, plan, progress, op)
          \/ \E action \in {"REJECT", "ABORT"} : DecideEnd(r, action)
    \/ \E a \in DOMAIN goalAttempts :
          \/ \E metrics \in Usage \ {NoUsage, Unavailable} : ReportMetrics(a, metrics)
          \/ CompleteGoalAttempt(a)
    \/ ExpireGoal
    \/ DecideApprove
    \/ \E limit \in Limits : DecideIncrease(limit)

----------------------------------------------------------------------------
(* Properties *)

\* What is settled without counting a.
OthersCost(a) == CostOf(Settled \ {a})

\* The Attempt that holds what was left of the Goal's cost limit runs alone, and
\* its allowance with the cost of all the others does not pass the limit, also
\* when an evaluation records costs while it runs: the allowance computed by
\* buildGoalRuntimeBudget is never handed out twice.
CostHandedOutOnce ==
    \A a \in OpenAttempts : goalAttempts[a].budget > 0 =>
        /\ OpenAttempts = {a}
        /\ OthersCost(a) + goalAttempts[a].budget <= goal.maxCost

\* Whatever runs belongs to the active Plan: publication, manual retries of
\* superseded Jobs and decisions never leave an Attempt of another revision
\* under way.
OneRevisionRuns ==
    \A a \in OpenAttempts : goalAttempts[a].revision = goal.revision

\* A Plan that repeats a strategy of the window was published with an approval
\* of exactly the revision it replaced, and no approval was used twice
\* (history[j] replaced revision j).
LoopsAreApproved ==
    LET spent(j) == {op \in DOMAIN permissions :
                        permissions[op].consumed /\ permissions[op].revision = j}
    IN  /\ \A i, j \in DOMAIN history :
              /\ i < j
              /\ j - i <= replanCycleWindow
              /\ history[i].plan.strategy = history[j].plan.strategy
              => spent(j) # {}
        /\ \A j \in Revisions :
              Cardinality(spent(j)) <= (IF j \in DOMAIN history THEN 1 ELSE 0)

GoalsSpec == GoalsInit /\ [][GoalsNext]_goalVars
============================================================================
