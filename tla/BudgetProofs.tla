---------------------------- MODULE BudgetProofs ----------------------------
(***************************************************************************)
(* What the budgets of the Goals and of the model gateway promise, for     *)
(* every value of the constants, and the facts about sums they rest on.    *)
(***************************************************************************)
EXTENDS Goals, Gateway, FiniteSetTheorems, SequenceTheorems, TLAPS

----------------------------------------------------------------------------
(* Sums *)

\* A function into the natural numbers on a finite domain has finitely many units.
LEMMA UnitsFinite ==
    ASSUME NEW S, IsFiniteSet(S), NEW f \in [S -> Nat]
    PROVE  IsFiniteSet(Units(f))
<1> DEFINE bars == {{x} \X (1 .. f[x]) : x \in S}
           bar  == [x \in S |-> {x} \X (1 .. f[x])]
<1>1. IsFiniteSet(bars)
    <2>1. bar \in Surjection(S, bars)
        BY DEF Surjection
    <2> QED BY <2>1, FS_Surjection
<1>2. \A b \in bars : IsFiniteSet(b)
    <2> SUFFICES ASSUME NEW x \in S PROVE IsFiniteSet({x} \X (1 .. f[x]))
        OBVIOUS
    <2>1. f[x] \in Int
        OBVIOUS
    <2>2. IsFiniteSet(1 .. f[x])
        BY <2>1, FS_Interval
    <2>3. IsFiniteSet({x})
        BY FS_Singleton
    <2> QED BY <2>2, <2>3, FS_Product
<1>3. Units(f) = UNION bars
    BY DEF Units
<1> QED BY <1>1, <1>2, <1>3, FS_UNION

\* A sum of natural numbers is one.
LEMMA TotalIsNat ==
    ASSUME NEW S, IsFiniteSet(S), NEW f \in [S -> Nat]
    PROVE  Total(f) \in Nat
BY UnitsFinite, FS_CardinalityType DEF Total

\* A sum grows with what is summed.
LEMMA TotalMonotone ==
    ASSUME NEW S, IsFiniteSet(S), NEW f \in [S -> Nat], NEW g \in [S -> Nat],
           \A x \in S : f[x] <= g[x]
    PROVE  Total(f) <= Total(g)
<1>1. IsFiniteSet(Units(g))
    BY UnitsFinite
<1>2. Units(f) \in SUBSET Units(g)
    <2> SUFFICES ASSUME NEW x \in S, NEW k \in 1 .. f[x]
                 PROVE  k \in 1 .. g[x]
        BY DEF Units
    <2> QED OBVIOUS
<1> QED BY <1>1, <1>2, FS_Subset DEF Total

\* One more summand adds its value.
LEMMA TotalExtend ==
    ASSUME NEW S, IsFiniteSet(S), NEW x, x \notin S, NEW f \in [S \cup {x} -> Nat]
    PROVE  Total(f) = Total([y \in S |-> f[y]]) + f[x]
<1> DEFINE g == [y \in S |-> f[y]]
           b == {x} \X (1 .. f[x])
<1>1. f[x] \in Nat /\ g \in [S -> Nat]
    OBVIOUS
<1>2. IsFiniteSet(Units(g))
    BY <1>1, UnitsFinite
<1>3. IsFiniteSet(b) /\ Cardinality(b) = f[x]
    <2>1. IsFiniteSet({x}) /\ Cardinality({x}) = 1
        BY FS_Singleton
    <2>2. IsFiniteSet(1 .. f[x]) /\ Cardinality(1 .. f[x]) = f[x]
        BY <1>1, FS_Interval
    <2>3. IsFiniteSet(b) /\ Cardinality(b) = Cardinality({x}) * Cardinality(1 .. f[x])
        BY <2>1, <2>2, FS_Product
    <2> QED BY <1>1, <2>1, <2>2, <2>3
<1>4. Units(f) = Units(g) \cup b
    <2>1. Units(f) = UNION {{y} \X (1 .. f[y]) : y \in S \cup {x}}
        BY DEF Units
    <2>2. Units(g) = UNION {{y} \X (1 .. f[y]) : y \in S}
        BY DEF Units
    <2> QED BY <2>1, <2>2
<1>5. Units(g) \cap b = {}
    BY DEF Units
<1>6. Cardinality(Units(g) \cap b) = 0
    BY <1>5, FS_EmptySet
<1>7. Cardinality(Units(g)) \in Nat
    BY <1>2, FS_CardinalityType
<1>8. Cardinality(Units(g) \cup b) =
        Cardinality(Units(g)) + Cardinality(b) - Cardinality(Units(g) \cap b)
    BY <1>2, <1>3, FS_Union
<1> QED BY <1>1, <1>3, <1>4, <1>6, <1>7, <1>8 DEF Total

----------------------------------------------------------------------------
(* Goals: the inductive invariant *)

\* A Job that failed has an error code.
FailuresNamed ==
    \A r \in Revisions : goalJobs[r].state = "FAILED" => goalJobs[r].reason # ""

\* Whatever runs belongs to the Job of the active revision, which has not ended.
ActiveJobRuns ==
    \A a \in OpenAttempts :
        /\ goalAttempts[a].revision = goal.revision
        /\ goalJobs[goal.revision].state \in {"QUEUED", "STOPPING"}

\* Whoever was released has a usage row.
EndedAreRecorded ==
    \A a \in DOMAIN goalAttempts :
        goalAttempts[a].released => goalAttempts[a].usage # NoUsage

Consumed == {op \in DOMAIN permissions : permissions[op].consumed}

\* Every publication left one entry; an approval that was used belongs to a
\* revision that was replaced, and no two belong to the same one.
ApprovalsCount ==
    /\ Len(history) = goal.revision - 1
    /\ \A op \in Consumed : permissions[op].revision < goal.revision
    /\ \A op, other \in Consumed :
          permissions[op].revision = permissions[other].revision => op = other

\* A repeated strategy was approved.
LoopsHaveApproval ==
    \A i, j \in DOMAIN history :
        /\ i < j
        /\ j - i <= replanCycleWindow
        /\ history[i].plan.strategy = history[j].plan.strategy
        => \E op \in Consumed : permissions[op].revision = j

GoalsInv ==
    /\ GoalsTypeOK
    /\ FailuresNamed
    /\ ActiveJobRuns
    /\ EndedAreRecorded
    /\ CostHandedOutOnce
    /\ ApprovalsCount
    /\ LoopsHaveApproval

\* The cost of a usage row is a number.
LEMMA UsageTyped ==
    ASSUME NEW u \in Usage
    PROVE  u.cost \in Nat
<1>1. Costs \subseteq Nat
    BY GoalsAssumption
<1>2. CASE u \in [kind : {"none", "unavailable", "partial"}, cost : {0}]
    BY <1>2
<1>3. CASE u \in [kind : {"complete"}, cost : Costs]
    BY <1>1, <1>3
<1> QED BY <1>2, <1>3 DEF Usage

\* The cost of some of the settled Attempts is a number.
LEMMA CostOfIsNat ==
    ASSUME GoalsTypeOK, NEW S \in SUBSET Settled
    PROVE  CostOf(S) \in Nat
<1>1. Len(goalAttempts) \in Nat /\ DOMAIN goalAttempts = 1 .. Len(goalAttempts)
    BY DEF GoalsTypeOK
<1>2. IsFiniteSet(DOMAIN goalAttempts)
    BY <1>1, FS_Interval
<1>3. IsFiniteSet(S)
    BY <1>2, FS_Subset DEF Settled
<1>4. \A a \in S : goalAttempts[a].usage \in Usage
    <2>1. \A a \in S : goalAttempts[a] \in GoalAttemptRow
        BY <1>1, ElementOfSeq DEF GoalsTypeOK, Settled
    <2> QED BY <2>1 DEF GoalAttemptRow
<1>5. [a \in S |-> goalAttempts[a].usage.cost] \in [S -> Nat]
    BY <1>4, UsageTyped
<1> QED BY <1>3, <1>5, TotalIsNat DEF CostOf

\* What is settled is a number.
LEMMA UsedCostIsNat ==
    ASSUME GoalsTypeOK
    PROVE  UsedCost \in Nat
BY CostOfIsNat DEF UsedCost

\* A cost depends on the usage rows only.
LEMMA CostKept ==
    ASSUME NEW S, NEW T, T = S,
           \A a \in S : goalAttempts'[a].usage.cost = goalAttempts[a].usage.cost
    PROVE  Total([a \in T |-> goalAttempts'[a].usage.cost]) = CostOf(S)
<1>1. [a \in T |-> goalAttempts'[a].usage.cost] = [a \in S |-> goalAttempts[a].usage.cost]
    OBVIOUS
<1> QED BY <1>1 DEF CostOf


\* The initial rows are rows.
LEMMA GoalsInitTyped ==
    GoalsInit => GoalsTypeOK
<1> SUFFICES ASSUME GoalsInit PROVE GoalsTypeOK
    OBVIOUS
<1>1. 1 \in Revisions /\ 1 \in 1 .. MaxGoalAttempts /\ 1 \in 1 .. MaxVersion /\ 0 \in 0 .. MaxVersion
    BY GoalsAssumption DEF Revisions
<1>2. goal \in GoalRow
    BY <1>1 DEF GoalsInit, GoalRow, GoalStates, GoalRunnable
<1>3. goalJobs \in [Revisions -> GoalJob]
    BY <1>1 DEF GoalsInit, GoalJob, NewJob, NoJob
<1>4. goalAttempts \in Seq(GoalAttemptRow) /\ history \in Seq(HistoryRow)
      /\ permissions \in Seq(PermissionRow)
    BY EmptySeq DEF GoalsInit
<1>5. requests \in [Revisions -> RequestRow]
    BY DEF GoalsInit, RequestRow
<1>6. evaluations \in [Revisions -> EvaluationRow]
    BY <1>1 DEF GoalsInit, EvaluationRow
<1> QED BY <1>2, <1>3, <1>4, <1>5, <1>6 DEF GoalsTypeOK

\* The state of the Goal alone changes.
LEMMA GoalStateTyped ==
    ASSUME goal \in GoalRow, NEW s \in GoalStates
    PROVE  [goal EXCEPT !.state = s] \in GoalRow
BY DEF GoalRow

LEMMA ReserveTyped ==
    ASSUME GoalsTypeOK, NEW r \in Revisions, ReserveAttempt(r)
    PROVE  GoalsTypeOK'
<1>0. goal \in GoalRow /\ goalAttempts \in Seq(GoalAttemptRow)
    BY DEF GoalsTypeOK
<1>1. goal' \in GoalRow
    <2>1. goal' = [goal EXCEPT !.attempts = @ + 1]
        BY DEF ReserveAttempt
    <2> QED BY <1>0, <2>1 DEF GoalRow
<1>2. FrozenBudget \in Nat
    BY <1>0, UsedCostIsNat DEF ReserveAttempt, FrozenBudget, BudgetAllows, UsageAllows, GoalRow
<1>3. NoUsage \in Usage
    BY DEF NoUsage, Usage
<1>4. [revision |-> r, released |-> FALSE, metrics |-> NoUsage, usage |-> NoUsage,
       budget |-> FrozenBudget] \in GoalAttemptRow
    BY <1>2, <1>3 DEF GoalAttemptRow
<1>5. goalAttempts' \in Seq(GoalAttemptRow)
    BY <1>0, <1>4, AppendProperties DEF ReserveAttempt
<1>6. UNCHANGED <<goalJobs, history, requests, evaluations, permissions>>
    BY DEF ReserveAttempt
<1> QED BY <1>1, <1>5, <1>6 DEF GoalsTypeOK

\* What the rows of the Attempts are, one by one.
LEMMA AttemptsTyped ==
    ASSUME GoalsTypeOK
    PROVE  /\ Len(goalAttempts) \in Nat
           /\ DOMAIN goalAttempts = 1 .. Len(goalAttempts)
           /\ \A a \in DOMAIN goalAttempts :
                 /\ goalAttempts[a] \in GoalAttemptRow
                 /\ goalAttempts[a].revision \in Revisions
                 /\ goalAttempts[a].released \in BOOLEAN
                 /\ goalAttempts[a].metrics \in Usage
                 /\ goalAttempts[a].usage \in Usage
                 /\ goalAttempts[a].budget \in Nat
                 /\ RecordedUsage(goalAttempts[a]) \in Usage
                 /\ RecordedUsage(goalAttempts[a]) # NoUsage
<1>1. goalAttempts \in Seq(GoalAttemptRow)
    BY DEF GoalsTypeOK
<1>2. \A a \in DOMAIN goalAttempts : goalAttempts[a] \in GoalAttemptRow
    BY <1>1
<1>3. \A x \in GoalAttemptRow : /\ x.revision \in Revisions /\ x.released \in BOOLEAN
                                /\ x.metrics \in Usage /\ x.usage \in Usage /\ x.budget \in Nat
    BY DEF GoalAttemptRow
<1>4. Unavailable \in Usage /\ Unavailable # NoUsage
    BY DEF Unavailable, NoUsage, Usage
<1> QED BY <1>1, <1>2, <1>3, <1>4 DEF RecordedUsage

\* The Attempt reports, or ends.
LEMMA CompleteTyped ==
    ASSUME GoalsTypeOK, NEW a \in DOMAIN goalAttempts,
           \/ CompleteGoalAttempt(a)
           \/ \E metrics \in Usage : ReportMetrics(a, metrics)
    PROVE  GoalsTypeOK'
<1>1. goalAttempts \in Seq(GoalAttemptRow) /\ a \in 1 .. Len(goalAttempts)
      /\ goalAttempts[a] \in GoalAttemptRow
    BY AttemptsTyped DEF GoalsTypeOK
<1>2. PICK row \in GoalAttemptRow : goalAttempts' = [goalAttempts EXCEPT ![a] = row]
    <2>1. CASE CompleteGoalAttempt(a)
        <3> DEFINE row == [goalAttempts[a] EXCEPT !.released = TRUE,
                                                  !.usage = RecordedUsage(goalAttempts[a])]
        <3>1. goalAttempts' = [goalAttempts EXCEPT ![a] = row]
            BY <2>1 DEF CompleteGoalAttempt
        <3>2. row \in GoalAttemptRow
            BY <1>1, AttemptsTyped DEF GoalAttemptRow
        <3> QED BY <3>1, <3>2
    <2>2. ASSUME NEW metrics \in Usage, ReportMetrics(a, metrics)
          PROVE  \E row \in GoalAttemptRow : goalAttempts' = [goalAttempts EXCEPT ![a] = row]
        <3> DEFINE row == [goalAttempts[a] EXCEPT !.metrics = metrics]
        <3>1. goalAttempts' = [goalAttempts EXCEPT ![a] = row]
            BY <2>2 DEF ReportMetrics
        <3>2. row \in GoalAttemptRow
            BY <1>1 DEF GoalAttemptRow
        <3> QED BY <3>1, <3>2
    <2> QED BY <2>1, <2>2
<1>3. goalAttempts' \in Seq(GoalAttemptRow)
    BY <1>1, <1>2, ExceptSeq
<1>4. UNCHANGED <<goal, goalJobs, history, requests, evaluations, permissions>>
    BY DEF CompleteGoalAttempt, ReportMetrics
<1> QED BY <1>3, <1>4 DEF GoalsTypeOK

\* What an evaluation writes.
LEMMA EvaluateTyped ==
    ASSUME GoalsTypeOK, NEW r \in Revisions, NEW job \in GoalJob, NEW proved \in BOOLEAN,
           job.state \in GoalTerminal, Evaluate(r, job, proved)
    PROVE  /\ goal' \in GoalRow
           /\ goalAttempts' \in Seq(GoalAttemptRow)
           /\ evaluations' \in [Revisions -> EvaluationRow]
<1> DEFINE verdict == IF job.state = "SUCCEEDED" /\ ~proved THEN "FAILED" ELSE job.state
           marked(a) == IF goalAttempts[a].usage # NoUsage THEN goalAttempts[a]
                        ELSE [goalAttempts[a] EXCEPT !.usage = RecordedUsage(goalAttempts[a])]
<1>1. verdict \in GoalTerminal /\ verdict \in GoalStates
    BY DEF GoalTerminal, GoalStates
<1>2. goal \in GoalRow /\ evaluations \in [Revisions -> EvaluationRow]
    BY DEF GoalsTypeOK
<1>3. goal' \in GoalRow
    <2>1. \/ goal' = goal
          \/ \E s \in GoalStates : goal' = [goal EXCEPT !.state = s]
        BY <1>1 DEF Evaluate, GoalStates
    <2> QED BY <1>2, <2>1, GoalStateTyped
<1>4. evaluations' \in [Revisions -> EvaluationRow]
    <2>1. job.version \in 0 .. MaxVersion
        <3>1. job.version \in 1 .. MaxVersion /\ MaxVersion \in Nat
            BY GoalsAssumption DEF GoalJob
        <3> QED BY <3>1
    <2>2. [version |-> job.version, verdict |-> verdict] \in EvaluationRow
        BY <1>1, <2>1 DEF EvaluationRow
    <2>3. \/ evaluations' = evaluations
          \/ evaluations' = [evaluations EXCEPT ![r] = [version |-> job.version, verdict |-> verdict]]
        BY DEF Evaluate
    <2> HIDE DEF verdict
    <2> QED BY <1>2, <2>2, <2>3
<1>5. \A a \in DOMAIN goalAttempts : marked(a) \in GoalAttemptRow
    <2>1. \A x \in GoalAttemptRow, u \in Usage : [x EXCEPT !.usage = u] \in GoalAttemptRow
        BY DEF GoalAttemptRow
    <2> QED BY <2>1, AttemptsTyped
<1>6. goalAttempts' = [a \in 1 .. Len(goalAttempts) |-> marked(a)]
    BY AttemptsTyped DEF Evaluate
<1> HIDE DEF marked
<1>7. goalAttempts' \in [1 .. Len(goalAttempts) -> GoalAttemptRow]
    BY <1>5, <1>6, AttemptsTyped
<1>8. goalAttempts' \in Seq(GoalAttemptRow)
    BY <1>7, AttemptsTyped, SeqDef
<1> QED BY <1>3, <1>4, <1>8

LEMMA VersionGrows ==
    ASSUME NEW v \in 1 .. MaxVersion, v < MaxVersion
    PROVE  v + 1 \in 1 .. MaxVersion
BY GoalsAssumption

LEMMA FinishTyped ==
    ASSUME GoalsTypeOK, NEW r \in Revisions, NEW to \in GoalTerminal,
           NEW reason \in Reasons \cup {""}, NEW proved \in BOOLEAN,
           FinishJob(r, to, reason, proved)
    PROVE  GoalsTypeOK'
<1> DEFINE job == [goalJobs[r] EXCEPT !.state = to, !.version = @ + 1, !.reason = reason]
<1>1. goalJobs \in [Revisions -> GoalJob] /\ goalJobs[r] \in GoalJob
    BY DEF GoalsTypeOK
<1>2. job \in GoalJob /\ job.state \in GoalTerminal
    <2>1. goalJobs[r].version \in 1 .. MaxVersion /\ MaxVersion \in Nat
        BY <1>1, GoalsAssumption DEF GoalJob
    <2>2. goalJobs[r].version < MaxVersion
        BY DEF FinishJob
    <2>3. goalJobs[r].version + 1 \in 1 .. MaxVersion
        BY <2>1, <2>2, VersionGrows
    <2> QED BY <1>1, <2>3 DEF GoalJob
<1>3. Evaluate(r, job, proved) /\ goalJobs' = [goalJobs EXCEPT ![r] = job]
      /\ UNCHANGED <<history, requests, permissions>>
    BY DEF FinishJob
<1> HIDE DEF job
<1>4. goalJobs' \in [Revisions -> GoalJob]
    BY <1>1, <1>2, <1>3
<1> QED BY ZenonT(60), <1>2, <1>3, <1>4, EvaluateTyped DEF GoalsTypeOK

LEMMA ReadTyped ==
    ASSUME GoalsTypeOK, NEW r \in Revisions, ReadGoal(r)
    PROVE  GoalsTypeOK'
<1>1. goalJobs[r] \in GoalJob /\ goalJobs[r].state \in GoalTerminal
    BY DEF GoalsTypeOK, ReadGoal
<1>2. PICK proved \in BOOLEAN : Evaluate(r, goalJobs[r], proved)
    BY DEF ReadGoal
<1>3. UNCHANGED <<goalJobs, history, requests, permissions>>
    BY DEF ReadGoal
<1> QED BY <1>1, <1>2, <1>3, EvaluateTyped DEF GoalsTypeOK

\* The Job gets another state, version and reason.
LEMMA JobTyped ==
    ASSUME GoalsTypeOK, NEW r \in Revisions, goalJobs[r].version < MaxVersion
    PROVE  /\ [goalJobs[r] EXCEPT !.state = "STOPPING", !.version = @ + 1] \in GoalJob
           /\ [NewJob EXCEPT !.version = goalJobs[r].version + 1] \in GoalJob
           /\ NewJob \in GoalJob
<1>1. goalJobs[r] \in GoalJob
    BY DEF GoalsTypeOK
<1>2. 1 \in 1 .. MaxVersion /\ MaxVersion \in Nat
    BY GoalsAssumption
<1>3. goalJobs[r].version \in 1 .. MaxVersion
    BY <1>1 DEF GoalJob
<1>4. goalJobs[r].version + 1 \in 1 .. MaxVersion
    BY <1>3, VersionGrows
<1>5. NewJob \in GoalJob
    BY <1>2 DEF GoalJob, NewJob, NoJob
<1>6. \A x \in GoalJob, v \in 1 .. MaxVersion :
        /\ [x EXCEPT !.state = "STOPPING", !.version = v] \in GoalJob
        /\ [x EXCEPT !.version = v] \in GoalJob
    BY DEF GoalJob
<1> QED BY <1>1, <1>4, <1>5, <1>6

LEMMA JobActionsTyped ==
    ASSUME GoalsTypeOK, NEW r \in Revisions,
           \/ CancelBoundJob(r)
           \/ RetryBoundJob(r)
           \/ ExtendGoalDeadline(r)
           \/ \E action \in {"REJECT", "ABORT"} : DecideEnd(r, action)
    PROVE  GoalsTypeOK'
<1> DEFINE stopping == [goalJobs[r] EXCEPT !.state = "STOPPING", !.version = @ + 1]
           retried  == [NewJob EXCEPT !.version = goalJobs[r].version + 1]
<1>0. goal \in GoalRow /\ goalJobs \in [Revisions -> GoalJob]
    BY DEF GoalsTypeOK
<1>1. goal' \in GoalRow
    <2>1. \A s \in GoalStates : [goal EXCEPT !.state = s] \in GoalRow
        BY <1>0, GoalStateTyped
    <2>2. [goal EXCEPT !.expired = FALSE] \in GoalRow
        BY <1>0 DEF GoalRow
    <2>3. {"RUNNING", "FAILED", "CANCELED"} \subseteq GoalStates
        BY DEF GoalStates, GoalTerminal, GoalRunnable
    <2>4. \/ goal' = goal
          \/ goal' = [goal EXCEPT !.expired = FALSE]
          \/ \E s \in {"RUNNING", "FAILED", "CANCELED"} : goal' = [goal EXCEPT !.state = s]
        BY DEF CancelBoundJob, RetryBoundJob, ExtendGoalDeadline, DecideEnd
    <2> QED BY <1>0, <2>1, <2>2, <2>3, <2>4
<1>2. goalJobs' \in [Revisions -> GoalJob]
    <2>1. \/ goalJobs' = goalJobs
          \/ /\ goalJobs[r].version < MaxVersion
             /\ \/ goalJobs' = [goalJobs EXCEPT ![r] = stopping]
                \/ goalJobs' = [goalJobs EXCEPT ![r] = retried]
        BY DEF CancelBoundJob, RetryBoundJob, ExtendGoalDeadline, DecideEnd
    <2>2. goalJobs[r].version < MaxVersion => stopping \in GoalJob /\ retried \in GoalJob
        BY JobTyped
    <2> HIDE DEF stopping, retried
    <2> QED BY <1>0, <2>1, <2>2
<1>3. UNCHANGED <<goalAttempts, history, requests, evaluations, permissions>>
    BY DEF CancelBoundJob, RetryBoundJob, ExtendGoalDeadline, DecideEnd
<1> QED BY <1>1, <1>2, <1>3 DEF GoalsTypeOK

LEMMA DecisionsTyped ==
    ASSUME GoalsTypeOK,
           ExpireGoal \/ DecideApprove \/ \E limit \in Limits : DecideIncrease(limit)
    PROVE  GoalsTypeOK'
<1>0. goal \in GoalRow /\ permissions \in Seq(PermissionRow) /\ goal.revision \in Revisions
    BY DEF GoalsTypeOK, GoalRow
<1>1. CASE ExpireGoal
    <2>1. goal' = [goal EXCEPT !.expired = TRUE]
        BY <1>1 DEF ExpireGoal
    <2>2. goal' \in GoalRow
        BY <1>0, <2>1 DEF GoalRow
    <2> QED BY <1>1, <2>2 DEF GoalsTypeOK, ExpireGoal
<1>2. CASE DecideApprove
    <2>1. [revision |-> goal.revision, consumed |-> FALSE] \in PermissionRow
        BY <1>0 DEF PermissionRow
    <2>2. permissions' \in Seq(PermissionRow)
        BY <1>0, <1>2, <2>1, AppendProperties DEF DecideApprove
    <2> QED BY <1>2, <2>2 DEF GoalsTypeOK, DecideApprove
<1>3. ASSUME NEW limit \in Limits, DecideIncrease(limit) PROVE GoalsTypeOK'
    <2>1. goal' = [goal EXCEPT !.maxAttempts = limit.attempts,
                               !.maxReplans = limit.replans, !.maxCost = limit.cost]
        BY <1>3 DEF DecideIncrease
    <2>2. limit \in [attempts : 1 .. MaxGoalAttempts, replans : Nat, cost : Nat]
        BY GoalsAssumption
    <2>3. goal' \in GoalRow
        BY <1>0, <2>1, <2>2 DEF GoalRow
    <2> QED BY <1>3, <2>3 DEF GoalsTypeOK, DecideIncrease
<1> QED BY <1>1, <1>2, <1>3

\* The guard answers with one of three decisions, and allows only a request of the
\* active revision whose loop, if one is suspected, was approved.
LEMMA GuardAnswers ==
    ASSUME NEW rev, NEW reason, NEW plan, NEW progress, NEW override
    PROVE  /\ GuardDecision(rev, reason, plan, progress, override)
                \in {"ALLOWED", "NEEDS_APPROVAL", "REJECTED"}
           /\ GuardDecision(rev, reason, plan, progress, override) = "ALLOWED" =>
                /\ rev = goal.revision
                /\ LoopSuspected(reason, plan, progress) => override
BY DEF GuardDecision

\* A publication, by what it decided.
LEMMA PublishCases ==
    ASSUME NEW r \in Revisions, NEW plan \in Plans, NEW progress \in Progress,
           NEW op \in 0 .. MaxDecisions, PublishGoalReplan(r, plan, progress, op)
    PROVE  \/ /\ r = goal.revision
              /\ LoopSuspected(goalJobs[r].reason, plan, progress) =>
                    goal.state = "NEEDS_APPROVAL" /\ op # 0
              /\ goal.revision < MaxRevision
              /\ ConsumePermission(op)
              /\ AdvanceRevision(goalJobs[r].reason, plan, progress)
           \/ /\ goal' = [goal EXCEPT !.state = "NEEDS_APPROVAL"]
              /\ UNCHANGED <<goalJobs, history, permissions>>
           \/ UNCHANGED <<goal, goalJobs, history, permissions>>
<1> DEFINE override == goal.state = "NEEDS_APPROVAL" /\ op # 0
           decision == GuardDecision(r, goalJobs[r].reason, plan, progress, override)
<1>1. decision = "ALLOWED" =>
        /\ r = goal.revision
        /\ LoopSuspected(goalJobs[r].reason, plan, progress) => override
    BY GuardAnswers
<1>2. \/ /\ decision = "ALLOWED"
         /\ goal.revision < MaxRevision
         /\ ConsumePermission(op)
         /\ AdvanceRevision(goalJobs[r].reason, plan, progress)
      \/ /\ goal' = [goal EXCEPT !.state = "NEEDS_APPROVAL"]
         /\ UNCHANGED <<goalJobs, history, permissions>>
      \/ UNCHANGED <<goal, goalJobs, history, permissions>>
    BY DEF PublishGoalReplan
<1> QED BY <1>1, <1>2

LEMMA ConsumeTyped ==
    ASSUME GoalsTypeOK, NEW op, ConsumePermission(op)
    PROVE  permissions' \in Seq(PermissionRow)
<1>1. permissions \in Seq(PermissionRow)
    BY DEF GoalsTypeOK
<1>2. CASE goal.state = "NEEDS_APPROVAL"
    <2> DEFINE row == [permissions[op] EXCEPT !.consumed = TRUE]
    <2>1. op \in 1 .. Len(permissions) /\ permissions[op] \in PermissionRow
        BY <1>1, <1>2 DEF ConsumePermission, CanConsume
    <2>2. row \in PermissionRow
        BY <2>1 DEF PermissionRow
    <2>3. permissions' = [permissions EXCEPT ![op] = row]
        BY <1>2 DEF ConsumePermission
    <2> HIDE DEF row
    <2> QED BY <1>1, <2>1, <2>2, <2>3, ExceptSeq
<1>3. CASE goal.state # "NEEDS_APPROVAL"
    BY <1>1, <1>3 DEF ConsumePermission
<1> QED BY <1>2, <1>3

LEMMA AdvanceTyped ==
    ASSUME GoalsTypeOK, NEW reason \in Reasons, NEW plan \in Plans, NEW progress \in Progress,
           goal.revision < MaxRevision, AdvanceRevision(reason, plan, progress)
    PROVE  /\ goal' \in GoalRow
           /\ goalJobs' \in [Revisions -> GoalJob]
           /\ history' \in Seq(HistoryRow)
<1>0. goal \in GoalRow /\ goalJobs \in [Revisions -> GoalJob] /\ history \in Seq(HistoryRow)
    BY DEF GoalsTypeOK
<1>1. goal.revision + 1 \in Revisions
    <2>1. goal.revision \in 1 .. MaxRevision /\ MaxRevision \in Nat
        BY <1>0, GoalsAssumption DEF GoalRow, Revisions
    <2> QED BY <2>1 DEF Revisions
<1>2. goal' \in GoalRow
    <2>1. goal' = [goal EXCEPT !.state = "REPLANNING", !.replans = @ + 1, !.revision = @ + 1]
        BY DEF AdvanceRevision
    <2>2. "REPLANNING" \in GoalStates
        BY DEF GoalStates, GoalRunnable
    <2>3. goal.replans + 1 \in Nat
        BY <1>0 DEF GoalRow
    <2>4. \A s \in GoalStates, n \in Nat, v \in Revisions :
            [goal EXCEPT !.state = s, !.replans = n, !.revision = v] \in GoalRow
        BY <1>0 DEF GoalRow
    <2> QED BY <1>1, <2>1, <2>2, <2>3, <2>4
<1>3. goalJobs' \in [Revisions -> GoalJob]
    <2>1. NewJob \in GoalJob
        <3>1. 1 \in 1 .. MaxVersion
            <4>1. MaxVersion \in Nat \ {0}
                BY GoalsAssumption
            <4> QED BY <4>1
        <3> QED BY <3>1 DEF NewJob, NoJob, GoalJob
    <2> QED BY <1>0, <1>1, <2>1 DEF AdvanceRevision
<1>4. history' \in Seq(HistoryRow)
    <2> DEFINE row == [reason |-> reason, plan |-> plan, progress |-> progress,
                       progressed |-> Improved(progress)]
    <2>1. Improved(progress) \in BOOLEAN
        BY DEF Improved
    <2>2. row \in HistoryRow
        BY <2>1 DEF HistoryRow
    <2>3. history' = Append(history, row)
        BY DEF AdvanceRevision
    <2> HIDE DEF row
    <2> QED BY <1>0, <2>2, <2>3, AppendProperties
<1> QED BY <1>2, <1>3, <1>4

LEMMA PublishTyped ==
    ASSUME GoalsTypeOK, FailuresNamed, NEW r \in Revisions, NEW plan \in Plans,
           NEW progress \in Progress, NEW op \in 0 .. MaxDecisions,
           PublishGoalReplan(r, plan, progress, op)
    PROVE  GoalsTypeOK'
<1>0. goal \in GoalRow /\ goalJobs[r] \in GoalJob /\ requests \in [Revisions -> RequestRow]
    BY DEF GoalsTypeOK
<1>1. goalJobs[r].reason \in Reasons /\ goalJobs[r].version \in 1 .. MaxVersion
    BY <1>0 DEF PublishGoalReplan, FailuresNamed, GoalJob
<1>2. requests' \in [Revisions -> RequestRow]
    <2> DEFINE decision == GuardDecision(r, goalJobs[r].reason, plan, progress,
                                         goal.state = "NEEDS_APPROVAL" /\ op # 0)
    <2>1. decision \in {"ALLOWED", "NEEDS_APPROVAL", "REJECTED"}
        BY GuardAnswers
    <2>2. requests' = [requests EXCEPT ![r] = [version |-> goalJobs[r].version, plan |-> plan,
                          progress |-> progress, state |-> decision]]
        BY DEF PublishGoalReplan
    <2> HIDE DEF decision
    <2>3. [version |-> goalJobs[r].version, plan |-> plan, progress |-> progress,
           state |-> decision] \in RequestRow
        BY <1>1, <2>1 DEF RequestRow
    <2> QED BY <1>0, <2>2, <2>3
<1>3. /\ goal' \in GoalRow /\ goalJobs' \in [Revisions -> GoalJob]
      /\ history' \in Seq(HistoryRow) /\ permissions' \in Seq(PermissionRow)
    <2>1. CASE /\ goal.revision < MaxRevision
               /\ ConsumePermission(op)
               /\ AdvanceRevision(goalJobs[r].reason, plan, progress)
        BY <1>1, <2>1, ConsumeTyped, AdvanceTyped
    <2>2. CASE /\ goal' = [goal EXCEPT !.state = "NEEDS_APPROVAL"]
               /\ UNCHANGED <<goalJobs, history, permissions>>
        <3>1. "NEEDS_APPROVAL" \in GoalStates
            BY DEF GoalStates
        <3> QED BY <1>0, <2>2, <3>1, GoalStateTyped DEF GoalsTypeOK
    <2>3. CASE UNCHANGED <<goal, goalJobs, history, permissions>>
        BY <2>3 DEF GoalsTypeOK
    <2> QED BY <2>1, <2>2, <2>3, PublishCases
<1>4. UNCHANGED <<goalAttempts, evaluations>>
    BY DEF PublishGoalReplan
<1> QED BY <1>2, <1>3, <1>4 DEF GoalsTypeOK

\* An evaluation does not change who is under way, and writes usage rows where
\* there are none.
LEMMA EvaluateAttempts ==
    ASSUME GoalsTypeOK, NEW r, NEW job, NEW proved, Evaluate(r, job, proved)
    PROVE  /\ DOMAIN goalAttempts' = DOMAIN goalAttempts
           /\ \A a \in DOMAIN goalAttempts :
                 /\ goalAttempts'[a].revision = goalAttempts[a].revision
                 /\ goalAttempts'[a].budget = goalAttempts[a].budget
                 /\ goalAttempts'[a].usage # NoUsage
                 /\ goalAttempts[a].usage # NoUsage =>
                       goalAttempts'[a].usage = goalAttempts[a].usage
           /\ OpenAttempts' = OpenAttempts
           /\ goal'.revision = goal.revision
           /\ goal'.maxCost = goal.maxCost
<1> DEFINE marked(a) == IF goalAttempts[a].usage # NoUsage THEN goalAttempts[a]
                        ELSE [goalAttempts[a] EXCEPT !.usage = RecordedUsage(goalAttempts[a])]
<1>1. goalAttempts' = [a \in DOMAIN goalAttempts |-> marked(a)]
    BY DEF Evaluate
<1>2. ASSUME NEW a \in DOMAIN goalAttempts
      PROVE  /\ marked(a).revision = goalAttempts[a].revision
             /\ marked(a).budget = goalAttempts[a].budget
             /\ marked(a).released = goalAttempts[a].released
             /\ marked(a).usage # NoUsage
             /\ goalAttempts[a].usage # NoUsage => marked(a).usage = goalAttempts[a].usage
    <2>1. CASE goalAttempts[a].usage # NoUsage
        BY <2>1
    <2>2. CASE goalAttempts[a].usage = NoUsage
        <3>1. goalAttempts[a] \in GoalAttemptRow /\ RecordedUsage(goalAttempts[a]) # NoUsage
            BY AttemptsTyped
        <3>2. marked(a) = [goalAttempts[a] EXCEPT !.usage = RecordedUsage(goalAttempts[a])]
            BY <2>2
        <3>3. /\ marked(a).revision = goalAttempts[a].revision
              /\ marked(a).budget = goalAttempts[a].budget
              /\ marked(a).released = goalAttempts[a].released
              /\ marked(a).usage = RecordedUsage(goalAttempts[a])
            BY <3>1, <3>2 DEF GoalAttemptRow
        <3> QED BY <2>2, <3>1, <3>3
    <2> QED BY <2>1, <2>2
<1> HIDE DEF marked
<1>3. DOMAIN goalAttempts' = DOMAIN goalAttempts
    BY <1>1
<1>4. OpenAttempts' = OpenAttempts
    BY <1>1, <1>2 DEF OpenAttempts
<1>5. goal'.revision = goal.revision /\ goal'.maxCost = goal.maxCost
    <2>1. goal \in GoalRow
        BY DEF GoalsTypeOK
    <2>2. goal' = goal \/ \E s : goal' = [goal EXCEPT !.state = s]
        BY DEF Evaluate
    <2> QED BY <2>1, <2>2 DEF GoalRow
<1> QED BY <1>1, <1>2, <1>3, <1>4, <1>5

\* A reservation adds one Attempt, whose usage is not known.
LEMMA ReserveAttempts ==
    ASSUME GoalsTypeOK, NEW r \in Revisions, ReserveAttempt(r)
    PROVE  LET n == Len(goalAttempts) + 1
           IN  /\ \A a \in DOMAIN goalAttempts : goalAttempts'[a] = goalAttempts[a]
               /\ goalAttempts'[n] = [revision |-> r, released |-> FALSE, metrics |-> NoUsage,
                                      usage |-> NoUsage, budget |-> FrozenBudget]
               /\ DOMAIN goalAttempts' = DOMAIN goalAttempts \cup {n}
               /\ n \notin DOMAIN goalAttempts
               /\ OpenAttempts' = OpenAttempts \cup {n}
               /\ Settled' = Settled
<1> DEFINE n == Len(goalAttempts) + 1
           row == [revision |-> r, released |-> FALSE, metrics |-> NoUsage,
                   usage |-> NoUsage, budget |-> FrozenBudget]
<1>1. goalAttempts' = Append(goalAttempts, row)
    BY DEF ReserveAttempt
<1>2. row.released = FALSE /\ row.usage.kind # "complete"
    BY DEF NoUsage
<1>3. Len(goalAttempts) \in Nat /\ DOMAIN goalAttempts = 1 .. Len(goalAttempts)
    BY AttemptsTyped
<1>4. goalAttempts \in Seq(GoalAttemptRow)
    BY DEF GoalsTypeOK
<1> HIDE DEF row
<1>5. /\ DOMAIN goalAttempts' = DOMAIN goalAttempts \cup {n}
      /\ n \notin DOMAIN goalAttempts
      /\ goalAttempts'[n] = row
      /\ \A a \in DOMAIN goalAttempts : goalAttempts'[a] = goalAttempts[a]
    BY <1>1, <1>3, <1>4
<1> HIDE DEF n
<1>6. OpenAttempts' = OpenAttempts \cup {n}
    BY <1>2, <1>5 DEF OpenAttempts
<1>7. Settled' = Settled
    BY <1>2, <1>5 DEF Settled
<1> QED BY <1>5, <1>6, <1>7 DEF row, n

\* A completion ends one Attempt.
LEMMA CompleteAttempts ==
    ASSUME GoalsTypeOK, NEW a \in DOMAIN goalAttempts, CompleteGoalAttempt(a)
    PROVE  /\ a \in OpenAttempts
           /\ OpenAttempts' = OpenAttempts \ {a}
           /\ DOMAIN goalAttempts' = DOMAIN goalAttempts
           /\ goalAttempts'[a].usage # NoUsage
           /\ \A b \in DOMAIN goalAttempts : b # a => goalAttempts'[b] = goalAttempts[b]
<1> DEFINE row == [goalAttempts[a] EXCEPT !.released = TRUE,
                                          !.usage = RecordedUsage(goalAttempts[a])]
<1>1. goalAttempts' = [goalAttempts EXCEPT ![a] = row]
    BY DEF CompleteGoalAttempt
<1>2. goalAttempts[a] \in GoalAttemptRow /\ RecordedUsage(goalAttempts[a]) # NoUsage
    BY AttemptsTyped
<1>3. row.released = TRUE /\ row.usage # NoUsage
    BY <1>2 DEF GoalAttemptRow
<1> HIDE DEF row
<1>4. a \in OpenAttempts
    BY DEF CompleteGoalAttempt, OpenAttempts
<1> QED BY <1>1, <1>3, <1>4 DEF OpenAttempts

\* A report changes the metrics of one Attempt and nothing else.
LEMMA ReportAttempts ==
    ASSUME GoalsTypeOK, NEW a \in DOMAIN goalAttempts, NEW metrics \in Usage,
           ReportMetrics(a, metrics)
    PROVE  /\ OpenAttempts' = OpenAttempts
           /\ Settled' = Settled
           /\ DOMAIN goalAttempts' = DOMAIN goalAttempts
           /\ \A b \in DOMAIN goalAttempts :
                 /\ goalAttempts'[b].revision = goalAttempts[b].revision
                 /\ goalAttempts'[b].budget = goalAttempts[b].budget
                 /\ goalAttempts'[b].released = goalAttempts[b].released
                 /\ goalAttempts'[b].usage = goalAttempts[b].usage
<1> DEFINE row == [goalAttempts[a] EXCEPT !.metrics = metrics]
<1>1. goalAttempts' = [goalAttempts EXCEPT ![a] = row]
    BY DEF ReportMetrics
<1>2. goalAttempts[a] \in GoalAttemptRow
    BY AttemptsTyped
<1>3. /\ row.revision = goalAttempts[a].revision /\ row.budget = goalAttempts[a].budget
      /\ row.released = goalAttempts[a].released /\ row.usage = goalAttempts[a].usage
    BY <1>2 DEF GoalAttemptRow
<1> HIDE DEF row
<1>4. /\ DOMAIN goalAttempts' = DOMAIN goalAttempts
      /\ \A b \in DOMAIN goalAttempts :
            /\ goalAttempts'[b].revision = goalAttempts[b].revision
            /\ goalAttempts'[b].budget = goalAttempts[b].budget
            /\ goalAttempts'[b].released = goalAttempts[b].released
            /\ goalAttempts'[b].usage = goalAttempts[b].usage
    BY <1>1, <1>3
<1> QED BY <1>4 DEF OpenAttempts, Settled

\* The operations that neither reserve, complete, evaluate nor publish.
OtherStep ==
    \/ \E r \in Revisions :
          \/ CancelBoundJob(r)
          \/ RetryBoundJob(r)
          \/ ExtendGoalDeadline(r)
          \/ \E action \in {"REJECT", "ABORT"} : DecideEnd(r, action)
    \/ ExpireGoal
    \/ DecideApprove
    \/ \E limit \in Limits : DecideIncrease(limit)

\* Every step is one of seven.
LEMMA GoalsNextCases ==
    ASSUME GoalsNext
    PROVE  \/ \E r \in Revisions : ReserveAttempt(r)
           \/ \E r \in Revisions : ReadGoal(r)
           \/ \E r \in Revisions, to \in GoalTerminal, reason \in Reasons \cup {""},
                 proved \in BOOLEAN : FinishJob(r, to, reason, proved)
           \/ \E r \in Revisions, plan \in Plans, progress \in Progress,
                 op \in 0 .. MaxDecisions : PublishGoalReplan(r, plan, progress, op)
           \/ \E a \in DOMAIN goalAttempts : CompleteGoalAttempt(a)
           \/ \E a \in DOMAIN goalAttempts, metrics \in Usage : ReportMetrics(a, metrics)
           \/ OtherStep
<1>1. CASE \E r \in Revisions :
              \/ ReserveAttempt(r)
              \/ ReadGoal(r)
              \/ CancelBoundJob(r)
              \/ RetryBoundJob(r)
              \/ ExtendGoalDeadline(r)
              \/ \E to \in GoalTerminal, reason \in Reasons \cup {""}, proved \in BOOLEAN :
                    FinishJob(r, to, reason, proved)
              \/ \E plan \in Plans, progress \in Progress, op \in 0 .. MaxDecisions :
                    PublishGoalReplan(r, plan, progress, op)
              \/ \E action \in {"REJECT", "ABORT"} : DecideEnd(r, action)
    BY <1>1, Zenon DEF OtherStep
<1>2. CASE \E a \in DOMAIN goalAttempts :
              \/ \E metrics \in Usage \ {NoUsage, Unavailable} : ReportMetrics(a, metrics)
              \/ CompleteGoalAttempt(a)
    BY <1>2, Zenon
<1>3. CASE ExpireGoal \/ DecideApprove \/ \E limit \in Limits : DecideIncrease(limit)
    BY <1>3, Zenon DEF OtherStep
<1> QED BY <1>1, <1>2, <1>3, Zenon DEF GoalsNext

\* How a Job of the Goal may change while no Attempt of it is evaluated.
JobsStep ==
    \A r \in Revisions :
        \/ goalJobs'[r] = goalJobs[r]
        \/ goalJobs[r].state = "QUEUED" /\ goalJobs'[r].state = "STOPPING"
        \/ goalJobs[r].state = "FAILED" /\ goalJobs'[r].state = "QUEUED"

LEMMA JobStates ==
    ASSUME GoalsTypeOK, NEW r \in Revisions
    PROVE  /\ [goalJobs[r] EXCEPT !.state = "STOPPING", !.version = @ + 1].state = "STOPPING"
           /\ [NewJob EXCEPT !.version = goalJobs[r].version + 1].state = "QUEUED"
<1>1. \A x \in GoalJob : \A v :
        /\ [x EXCEPT !.state = "STOPPING", !.version = v].state = "STOPPING"
        /\ [x EXCEPT !.version = v].state = x.state
    BY DEF GoalJob
<1>2. 1 \in 1 .. MaxVersion
    <2>1. MaxVersion \in Nat \ {0}
        BY GoalsAssumption
    <2> QED BY <2>1
<1>3. NewJob \in GoalJob /\ NewJob.state = "QUEUED"
    BY <1>2 DEF NewJob, NoJob, GoalJob
<1>4. goalJobs[r] \in GoalJob
    BY DEF GoalsTypeOK
<1> QED BY <1>1, <1>3, <1>4

LEMMA JobReplaced ==
    ASSUME GoalsTypeOK, NEW r \in Revisions, NEW row, goalJobs' = [goalJobs EXCEPT ![r] = row],
           \/ goalJobs[r].state = "QUEUED" /\ row.state = "STOPPING"
           \/ goalJobs[r].state = "FAILED" /\ row.state = "QUEUED"
    PROVE  JobsStep
<1>1. \A q \in Revisions : goalJobs'[q] = IF q = r THEN row ELSE goalJobs[q]
    BY DEF GoalsTypeOK
<1> QED BY <1>1 DEF JobsStep

LEMMA StopEffect ==
    ASSUME GoalsTypeOK, NEW r \in Revisions, goalJobs[r].state = "QUEUED",
           goalJobs' = [goalJobs EXCEPT ![r].state = "STOPPING", ![r].version = @ + 1]
    PROVE  JobsStep
<1> DEFINE row == [goalJobs[r] EXCEPT !.state = "STOPPING", !.version = @ + 1]
<1>1. row.state = "STOPPING"
    BY JobStates
<1>2. goalJobs' = [goalJobs EXCEPT ![r] = row]
    OBVIOUS
<1> HIDE DEF row
<1> QED BY <1>1, <1>2, JobReplaced

LEMMA RetryEffect ==
    ASSUME GoalsTypeOK, NEW r \in Revisions, RetryBoundJob(r)
    PROVE  JobsStep
<1> DEFINE row == [NewJob EXCEPT !.version = goalJobs[r].version + 1]
<1>1. row.state = "QUEUED"
    BY JobStates
<1>2. goalJobs' = [goalJobs EXCEPT ![r] = row] /\ goalJobs[r].state = "FAILED"
    BY DEF RetryBoundJob
<1> HIDE DEF row
<1> QED BY <1>1, <1>2, JobReplaced

\* Changes of the Goal that leave its revision and its cost limit alone.
LEMMA GoalFieldsKept ==
    ASSUME GoalsTypeOK, NEW s
    PROVE  /\ [goal EXCEPT !.state = s].revision = goal.revision
           /\ [goal EXCEPT !.state = s].maxCost = goal.maxCost
           /\ [goal EXCEPT !.expired = s].revision = goal.revision
           /\ [goal EXCEPT !.expired = s].maxCost = goal.maxCost
           /\ goal.maxCost \in Nat
           /\ goal.maxCost >= goal.maxCost
BY DEF GoalsTypeOK, GoalRow

LEMMA IncreaseEffect ==
    ASSUME GoalsTypeOK, NEW limit \in Limits, DecideIncrease(limit)
    PROVE  /\ goal'.revision = goal.revision
           /\ goal'.maxCost >= goal.maxCost
<1> DEFINE old == [attempts |-> goal.maxAttempts, replans |-> goal.maxReplans,
                   cost |-> goal.maxCost]
<1>1. \A f \in DOMAIN old : limit[f] >= old[f]
    BY DEF DecideIncrease
<1>2. limit["cost"] >= old["cost"]
    BY <1>1
<1>3. goal' = [goal EXCEPT !.maxAttempts = limit.attempts,
                           !.maxReplans = limit.replans, !.maxCost = limit.cost]
    BY DEF DecideIncrease
<1>4. goal \in GoalRow
    BY DEF GoalsTypeOK
<1>5. goal'.maxCost = limit.cost /\ goal'.revision = goal.revision
    BY <1>3, <1>4 DEF GoalRow
<1> QED BY <1>2, <1>5

\* What the other operations may change.
LEMMA OtherStepEffect ==
    ASSUME GoalsTypeOK, OtherStep
    PROVE  /\ UNCHANGED <<goalAttempts, history>>
           /\ goal'.revision = goal.revision
           /\ goal'.maxCost >= goal.maxCost
           /\ \/ permissions' = permissions
              \/ permissions' = Append(permissions, [revision |-> goal.revision, consumed |-> FALSE])
           /\ JobsStep
<1>1. goalJobs' = goalJobs => JobsStep
    BY DEF JobsStep
<1>2. ASSUME NEW r \in Revisions, CancelBoundJob(r)
      PROVE  UNCHANGED <<goal, goalAttempts, history, permissions>> /\ JobsStep
    BY <1>2, StopEffect DEF CancelBoundJob
<1>3. ASSUME NEW r \in Revisions, RetryBoundJob(r)
      PROVE  /\ UNCHANGED <<goalAttempts, history, permissions>> /\ JobsStep
             /\ goal' = goal \/ \E s : goal' = [goal EXCEPT !.state = s]
    BY <1>3, RetryEffect DEF RetryBoundJob
<1>4. ASSUME NEW r \in Revisions, ExtendGoalDeadline(r)
      PROVE  /\ UNCHANGED <<goalJobs, goalAttempts, history, permissions>>
             /\ \E s : goal' = [goal EXCEPT !.expired = s]
    BY <1>4 DEF ExtendGoalDeadline
<1>5. ASSUME NEW r \in Revisions, NEW action \in {"REJECT", "ABORT"}, DecideEnd(r, action)
      PROVE  /\ UNCHANGED <<goalAttempts, history, permissions>>
             /\ \E s : goal' = [goal EXCEPT !.state = s]
             /\ JobsStep
    <2>1. CASE goalJobs[r].state = "QUEUED"
        BY <1>5, <2>1, StopEffect DEF DecideEnd
    <2>2. CASE goalJobs[r].state # "QUEUED"
        BY <1>1, <1>5, <2>2 DEF DecideEnd
    <2> QED BY <2>1, <2>2
<1>6. CASE \E r \in Revisions : CancelBoundJob(r)
    BY <1>2, <1>6, GoalFieldsKept
<1>7. CASE \E r \in Revisions : RetryBoundJob(r)
    BY <1>3, <1>7, GoalFieldsKept
<1>8. CASE \E r \in Revisions : ExtendGoalDeadline(r)
    BY <1>1, <1>4, <1>8, GoalFieldsKept
<1>9. CASE \E r \in Revisions, action \in {"REJECT", "ABORT"} : DecideEnd(r, action)
    BY <1>5, <1>9, GoalFieldsKept
<1>10. CASE ExpireGoal
    BY <1>1, <1>10, GoalFieldsKept DEF ExpireGoal
<1>11. CASE DecideApprove
    BY <1>1, <1>11, GoalFieldsKept DEF DecideApprove
<1>12. CASE \E limit \in Limits : DecideIncrease(limit)
    BY <1>1, <1>12, IncreaseEffect DEF DecideIncrease
<1> QED BY <1>6, <1>7, <1>8, <1>9, <1>10, <1>11, <1>12 DEF OtherStep

\* The type invariant is inductive, given that failures have a reason.
LEMMA GoalsStepTyped ==
    ASSUME GoalsTypeOK, FailuresNamed, GoalsNext
    PROVE  GoalsTypeOK'
<1>1. CASE \E r \in Revisions : ReserveAttempt(r)
    BY <1>1, ReserveTyped
<1>2. CASE \E r \in Revisions : ReadGoal(r)
    BY <1>2, ReadTyped
<1>3. CASE \E r \in Revisions, to \in GoalTerminal, reason \in Reasons \cup {""},
              proved \in BOOLEAN : FinishJob(r, to, reason, proved)
    BY <1>3, FinishTyped
<1>4. CASE \E r \in Revisions, plan \in Plans, progress \in Progress,
              op \in 0 .. MaxDecisions : PublishGoalReplan(r, plan, progress, op)
    BY <1>4, PublishTyped
<1>5. CASE \/ \E a \in DOMAIN goalAttempts : CompleteGoalAttempt(a)
           \/ \E a \in DOMAIN goalAttempts, metrics \in Usage : ReportMetrics(a, metrics)
    BY <1>5, CompleteTyped
<1>6. CASE OtherStep
    BY <1>6, JobActionsTyped, DecisionsTyped DEF OtherStep
<1> QED BY <1>1, <1>2, <1>3, <1>4, <1>5, <1>6, GoalsNextCases

\* What FinishJob does to the Jobs.
LEMMA FinishJobs ==
    ASSUME GoalsTypeOK, NEW r \in Revisions, NEW to, NEW reason, NEW proved,
           FinishJob(r, to, reason, proved)
    PROVE  /\ \A q \in Revisions \ {r} : goalJobs'[q] = goalJobs[q]
           /\ goalJobs'[r].state = to
           /\ goalJobs'[r].reason = reason
           /\ to = "FAILED" => reason # ""
           /\ \A a \in OpenAttempts : goalAttempts[a].revision # r
           /\ \E job : Evaluate(r, job, proved)
           /\ UNCHANGED <<history, permissions>>
<1> DEFINE job == [goalJobs[r] EXCEPT !.state = to, !.version = @ + 1, !.reason = reason]
<1>1. goalJobs \in [Revisions -> GoalJob] /\ goalJobs[r] \in GoalJob
    BY DEF GoalsTypeOK
<1>2. job.state = to /\ job.reason = reason
    BY <1>1 DEF GoalJob
<1>3. goalJobs' = [goalJobs EXCEPT ![r] = job] /\ Evaluate(r, job, proved)
    BY DEF FinishJob
<1> HIDE DEF job
<1> QED BY <1>1, <1>2, <1>3 DEF FinishJob

\* What an allowed publication does to the Goal and to its Jobs.
LEMMA AdvanceEffect ==
    ASSUME GoalsTypeOK, NEW reason, NEW plan, NEW progress, goal.revision < MaxRevision,
           AdvanceRevision(reason, plan, progress)
    PROVE  /\ goal.revision \in Nat
           /\ goal'.revision = goal.revision + 1
           /\ goal'.maxCost = goal.maxCost
           /\ \A q \in Revisions \ {goal.revision + 1} : goalJobs'[q] = goalJobs[q]
           /\ goal.revision + 1 \in Revisions
           /\ goalJobs'[goal.revision + 1] = NewJob
           /\ Len(history) \in Nat
           /\ Len(history') = Len(history) + 1
           /\ DOMAIN history = 1 .. Len(history)
           /\ DOMAIN history' = 1 .. Len(history) + 1
           /\ \A i \in DOMAIN history : history'[i] = history[i]
           /\ history'[Len(history) + 1].plan = plan
<1>0. goal \in GoalRow /\ goalJobs \in [Revisions -> GoalJob] /\ history \in Seq(HistoryRow)
    BY DEF GoalsTypeOK
<1>1. goal.revision \in 1 .. MaxRevision /\ MaxRevision \in Nat
    BY <1>0, GoalsAssumption DEF GoalRow, Revisions
<1>2. goal.revision \in Nat /\ goal.revision + 1 \in Revisions
    BY <1>1 DEF Revisions
<1>3. goal'.revision = goal.revision + 1 /\ goal'.maxCost = goal.maxCost
    <2>1. goal' = [goal EXCEPT !.state = "REPLANNING", !.replans = @ + 1, !.revision = @ + 1]
        BY DEF AdvanceRevision
    <2> QED BY <1>0, <2>1 DEF GoalRow
<1>4. /\ \A q \in Revisions \ {goal.revision + 1} : goalJobs'[q] = goalJobs[q]
      /\ goalJobs'[goal.revision + 1] = NewJob
    BY <1>0, <1>2 DEF AdvanceRevision
<1>5. /\ Len(history) \in Nat
      /\ Len(history') = Len(history) + 1
      /\ DOMAIN history = 1 .. Len(history)
      /\ DOMAIN history' = 1 .. Len(history) + 1
      /\ \A i \in DOMAIN history : history'[i] = history[i]
      /\ history'[Len(history) + 1].plan = plan
    <2> DEFINE row == [reason |-> reason, plan |-> plan, progress |-> progress,
                       progressed |-> Improved(progress)]
    <2>1. row.plan = plan /\ history' = Append(history, row)
        BY DEF AdvanceRevision
    <2> HIDE DEF row
    <2> QED BY <1>0, <2>1
<1> QED BY <1>2, <1>3, <1>4, <1>5

LEMMA FailuresStayNamed ==
    ASSUME GoalsTypeOK, FailuresNamed, GoalsNext
    PROVE  FailuresNamed'
<1>1. CASE \E r \in Revisions : ReserveAttempt(r)
    BY <1>1 DEF ReserveAttempt, FailuresNamed
<1>2. CASE \E r \in Revisions : ReadGoal(r)
    BY <1>2 DEF ReadGoal, FailuresNamed
<1>3. ASSUME NEW r \in Revisions, NEW to \in GoalTerminal, NEW reason \in Reasons \cup {""},
             NEW proved \in BOOLEAN, FinishJob(r, to, reason, proved)
      PROVE  FailuresNamed'
    BY <1>3, FinishJobs DEF FailuresNamed
<1>4. ASSUME NEW r \in Revisions, NEW plan \in Plans, NEW progress \in Progress,
             NEW op \in 0 .. MaxDecisions, PublishGoalReplan(r, plan, progress, op)
      PROVE  FailuresNamed'
    <2>1. CASE goalJobs' = goalJobs
        BY <2>1 DEF FailuresNamed
    <2>2. CASE /\ goal.revision < MaxRevision
               /\ AdvanceRevision(goalJobs[r].reason, plan, progress)
        <3>1. NewJob.state # "FAILED"
            BY DEF NewJob, NoJob
        <3> QED BY <2>2, <3>1, AdvanceEffect DEF FailuresNamed
    <2> QED BY <1>4, <2>1, <2>2, PublishCases
<1>5. CASE \/ \E a \in DOMAIN goalAttempts : CompleteGoalAttempt(a)
           \/ \E a \in DOMAIN goalAttempts, metrics \in Usage : ReportMetrics(a, metrics)
    BY <1>5 DEF CompleteGoalAttempt, ReportMetrics, FailuresNamed
<1>6. CASE OtherStep
    BY <1>6, OtherStepEffect DEF JobsStep, FailuresNamed
<1> QED BY <1>1, <1>2, <1>3, <1>4, <1>5, <1>6, GoalsNextCases

LEMMA ActiveJobStillRuns ==
    ASSUME GoalsTypeOK, ActiveJobRuns, GoalsNext
    PROVE  ActiveJobRuns'
<1>0. /\ goal.revision \in Revisions
      /\ OpenAttempts \subseteq DOMAIN goalAttempts
    <2>1. goal \in GoalRow
        BY DEF GoalsTypeOK
    <2> QED BY <2>1 DEF GoalRow, OpenAttempts
<1>1. ASSUME NEW r \in Revisions, ReserveAttempt(r) PROVE ActiveJobRuns'
    <2> DEFINE n == Len(goalAttempts) + 1
               row == [revision |-> r, released |-> FALSE, metrics |-> NoUsage,
                       usage |-> NoUsage, budget |-> FrozenBudget]
    <2>1. /\ OpenAttempts' = OpenAttempts \cup {n}
          /\ \A a \in DOMAIN goalAttempts : goalAttempts'[a] = goalAttempts[a]
          /\ goalAttempts'[n] = row
        BY <1>1, ReserveAttempts
    <2>2. row.revision = r
        OBVIOUS
    <2>3. /\ goalJobs[r].state = "QUEUED" /\ r = goal.revision /\ goalJobs' = goalJobs
          /\ goal' = [goal EXCEPT !.attempts = @ + 1]
        BY <1>1 DEF ReserveAttempt
    <2>4. goal'.revision = goal.revision
        <3>1. goal \in GoalRow
            BY DEF GoalsTypeOK
        <3> QED BY <2>3, <3>1 DEF GoalRow
    <2> HIDE DEF n, row
    <2> QED BY <1>0, <2>1, <2>2, <2>3, <2>4 DEF ActiveJobRuns
<1>2. ASSUME NEW r \in Revisions, NEW job, NEW proved, Evaluate(r, job, proved),
             \A q \in Revisions \ {r} : goalJobs'[q] = goalJobs[q],
             goalJobs'[r] = goalJobs[r] \/ \A a \in OpenAttempts : goalAttempts[a].revision # r
      PROVE  ActiveJobRuns'
    <2>1. /\ \A a \in DOMAIN goalAttempts :
                goalAttempts'[a].revision = goalAttempts[a].revision
          /\ OpenAttempts' = OpenAttempts
          /\ goal'.revision = goal.revision
        BY <1>2, EvaluateAttempts
    <2> QED BY <1>0, <1>2, <2>1 DEF ActiveJobRuns
<1>3. CASE \E r \in Revisions : ReadGoal(r)
    BY <1>2, <1>3 DEF ReadGoal
<1>4. ASSUME NEW r \in Revisions, NEW to \in GoalTerminal, NEW reason \in Reasons \cup {""},
             NEW proved \in BOOLEAN, FinishJob(r, to, reason, proved)
      PROVE  ActiveJobRuns'
    <2>1. PICK job : Evaluate(r, job, proved)
        BY <1>4, FinishJobs
    <2>2. /\ \A q \in Revisions \ {r} : goalJobs'[q] = goalJobs[q]
          /\ \A a \in OpenAttempts : goalAttempts[a].revision # r
        BY <1>4, FinishJobs
    <2> QED BY <1>2, <2>1, <2>2
<1>5. ASSUME NEW r \in Revisions, NEW plan \in Plans, NEW progress \in Progress,
             NEW op \in 0 .. MaxDecisions, PublishGoalReplan(r, plan, progress, op)
      PROVE  ActiveJobRuns'
    <2>1. goalAttempts' = goalAttempts /\ goalJobs[r].state = "FAILED"
        BY <1>5 DEF PublishGoalReplan
    <2>2. OpenAttempts' = OpenAttempts
        BY <2>1 DEF OpenAttempts
    <2>3. CASE r = goal.revision
        <3>1. OpenAttempts = {}
            BY <2>1, <2>3 DEF ActiveJobRuns
        <3> QED BY <2>2, <3>1 DEF ActiveJobRuns
    <2>4. CASE goal'.revision = goal.revision /\ goalJobs' = goalJobs
        BY <1>0, <2>1, <2>2, <2>4 DEF ActiveJobRuns
    <2>5. \/ r = goal.revision
          \/ goal'.revision = goal.revision /\ goalJobs' = goalJobs
        <3>1. [goal EXCEPT !.state = "NEEDS_APPROVAL"].revision = goal.revision
            BY GoalFieldsKept
        <3>2. \/ r = goal.revision
              \/ /\ goal' = goal \/ goal' = [goal EXCEPT !.state = "NEEDS_APPROVAL"]
                 /\ goalJobs' = goalJobs
            BY <1>5, PublishCases
        <3> QED BY <3>1, <3>2
    <2> QED BY <2>3, <2>4, <2>5
<1>6. ASSUME NEW a \in DOMAIN goalAttempts, CompleteGoalAttempt(a)
      PROVE  ActiveJobRuns'
    <2>1. UNCHANGED <<goal, goalJobs>>
        BY <1>6 DEF CompleteGoalAttempt
    <2> QED BY <1>0, <1>6, <2>1, CompleteAttempts DEF ActiveJobRuns
<1>7. CASE OtherStep
    <2>1. UNCHANGED goalAttempts /\ goal'.revision = goal.revision /\ JobsStep
        BY <1>7, OtherStepEffect
    <2>2. OpenAttempts' = OpenAttempts
        BY <2>1 DEF OpenAttempts
    <2> QED BY <1>0, <2>1, <2>2 DEF ActiveJobRuns, JobsStep
<1>8. ASSUME NEW a \in DOMAIN goalAttempts, NEW metrics \in Usage, ReportMetrics(a, metrics)
      PROVE  ActiveJobRuns'
    <2>1. UNCHANGED <<goal, goalJobs>>
        BY <1>8 DEF ReportMetrics
    <2> QED BY <1>0, <1>8, <2>1, ReportAttempts DEF ActiveJobRuns
<1> QED BY <1>1, <1>3, <1>4, <1>5, <1>6, <1>7, <1>8, GoalsNextCases

\* A usage row stays once it is written, and a release comes with one.
LEMMA EndedStayRecorded ==
    ASSUME GoalsTypeOK, EndedAreRecorded, GoalsNext
    PROVE  EndedAreRecorded'
<1>1. ASSUME NEW r \in Revisions, ReserveAttempt(r) PROVE EndedAreRecorded'
    <2> DEFINE n == Len(goalAttempts) + 1
               row == [revision |-> r, released |-> FALSE, metrics |-> NoUsage,
                       usage |-> NoUsage, budget |-> FrozenBudget]
    <2>1. /\ \A a \in DOMAIN goalAttempts : goalAttempts'[a] = goalAttempts[a]
          /\ goalAttempts'[n] = row
          /\ DOMAIN goalAttempts' = DOMAIN goalAttempts \cup {n}
        BY <1>1, ReserveAttempts
    <2>2. row.released = FALSE
        OBVIOUS
    <2> HIDE DEF n, row
    <2> QED BY <2>1, <2>2 DEF EndedAreRecorded
<1>2. ASSUME NEW r, NEW job, NEW proved, Evaluate(r, job, proved) PROVE EndedAreRecorded'
    BY <1>2, EvaluateAttempts DEF EndedAreRecorded
<1>3. CASE \E r \in Revisions : ReadGoal(r)
    BY <1>2, <1>3 DEF ReadGoal
<1>4. ASSUME NEW r \in Revisions, NEW to \in GoalTerminal, NEW reason \in Reasons \cup {""},
             NEW proved \in BOOLEAN, FinishJob(r, to, reason, proved)
      PROVE  EndedAreRecorded'
    <2>1. PICK job : Evaluate(r, job, proved)
        BY <1>4, FinishJobs
    <2> QED BY <1>2, <2>1
<1>5. CASE \E r \in Revisions, plan \in Plans, progress \in Progress,
              op \in 0 .. MaxDecisions : PublishGoalReplan(r, plan, progress, op)
    BY <1>5 DEF PublishGoalReplan, EndedAreRecorded
<1>6. ASSUME NEW a \in DOMAIN goalAttempts, CompleteGoalAttempt(a) PROVE EndedAreRecorded'
    BY <1>6, CompleteAttempts DEF EndedAreRecorded
<1>7. ASSUME NEW a \in DOMAIN goalAttempts, NEW metrics \in Usage, ReportMetrics(a, metrics)
      PROVE  EndedAreRecorded'
    BY <1>7, ReportAttempts DEF EndedAreRecorded
<1>8. CASE OtherStep
    BY <1>8, OtherStepEffect DEF EndedAreRecorded
<1> QED BY <1>1, <1>3, <1>4, <1>5, <1>6, <1>7, <1>8, GoalsNextCases

LEMMA CostStaysHandedOutOnce ==
    ASSUME GoalsTypeOK, EndedAreRecorded, CostHandedOutOnce, GoalsNext
    PROVE  CostHandedOutOnce'
<1>0. /\ UsedCost \in Nat
      /\ \A a : OthersCost(a) \in Nat
      /\ goal \in GoalRow /\ goal.maxCost \in Nat
      /\ OpenAttempts \subseteq DOMAIN goalAttempts
      /\ \A a \in DOMAIN goalAttempts : goalAttempts[a].budget \in Nat
    BY UsedCostIsNat, CostOfIsNat, AttemptsTyped, GoalFieldsKept DEF GoalsTypeOK, OpenAttempts, OthersCost
<1>k. ASSUME NEW a, Settled' \ {a} = Settled \ {a},
             \A b \in Settled \ {a} : goalAttempts'[b].usage = goalAttempts[b].usage
      PROVE  OthersCost(a)' = OthersCost(a)
    <2>1. Total([b \in Settled' \ {a} |-> goalAttempts'[b].usage.cost]) = CostOf(Settled \ {a})
        BY <1>k, CostKept
    <2> QED BY <2>1 DEF CostOf, OthersCost
<1>1. ASSUME NEW r \in Revisions, ReserveAttempt(r) PROVE CostHandedOutOnce'
    <2>0. PICK n : n = Len(goalAttempts) + 1
        OBVIOUS
    <2> DEFINE row == [revision |-> r, released |-> FALSE, metrics |-> NoUsage,
                       usage |-> NoUsage, budget |-> FrozenBudget]
    <2>1. /\ OpenAttempts' = OpenAttempts \cup {n}
          /\ \A a \in DOMAIN goalAttempts : goalAttempts'[a] = goalAttempts[a]
          /\ goalAttempts'[n] = row
          /\ n \notin DOMAIN goalAttempts
          /\ Settled' = Settled
        BY <1>1, <2>0, ReserveAttempts
    <2>2. row.budget = FrozenBudget
        OBVIOUS
    <2>3. BudgetAllows /\ goal' = [goal EXCEPT !.attempts = @ + 1]
        BY <1>1 DEF ReserveAttempt
    <2>4. goal'.maxCost = goal.maxCost
        BY <1>0, <2>3 DEF GoalRow
    <2> HIDE DEF row
    <2>5. CASE goal.maxCost = 0
        <3>1. row.budget = 0
            BY <2>2, <2>5 DEF FrozenBudget
        <3>2. \A a \in OpenAttempts : ~(goalAttempts[a].budget > 0)
            BY <1>0, <2>5 DEF CostHandedOutOnce
        <3>3. \A a \in OpenAttempts' : ~(goalAttempts'[a].budget > 0)
            BY <1>0, <2>1, <3>1, <3>2
        <3> QED BY <3>3 DEF CostHandedOutOnce
    <2>6. CASE goal.maxCost # 0
        <3>1. OpenAttempts = {} /\ UsedCost < goal.maxCost
            BY <2>3, <2>6 DEF BudgetAllows, UsageAllows
        <3>2. row.budget = goal.maxCost - UsedCost
            BY <2>2, <2>6 DEF FrozenBudget
        <3>3. UsedCost + (goal.maxCost - UsedCost) <= goal.maxCost
            BY <1>0
        <3>4. OthersCost(n)' = UsedCost
            <4>1. Settled \ {n} = Settled
                BY <2>1 DEF Settled
            <4>2. OthersCost(n)' = OthersCost(n)
                BY <1>k, <2>1, <4>1 DEF Settled
            <4> QED BY <4>1, <4>2 DEF UsedCost, OthersCost
        <3> QED BY <2>1, <2>4, <3>1, <3>2, <3>3, <3>4 DEF CostHandedOutOnce
    <2> QED BY <2>5, <2>6
<1>2. ASSUME NEW r, NEW job, NEW proved, Evaluate(r, job, proved) PROVE CostHandedOutOnce'
    <2>1. /\ DOMAIN goalAttempts' = DOMAIN goalAttempts
          /\ \A a \in DOMAIN goalAttempts :
                /\ goalAttempts'[a].budget = goalAttempts[a].budget
                /\ goalAttempts[a].usage # NoUsage =>
                      goalAttempts'[a].usage = goalAttempts[a].usage
          /\ OpenAttempts' = OpenAttempts
          /\ goal'.maxCost = goal.maxCost
        BY <1>2, EvaluateAttempts
    <2>2. ASSUME NEW a \in OpenAttempts, OpenAttempts = {a}
          PROVE  OthersCost(a)' = OthersCost(a)
        <3>1. \A b \in DOMAIN goalAttempts \ {a} : goalAttempts'[b].usage = goalAttempts[b].usage
            BY <2>1, <2>2 DEF EndedAreRecorded, OpenAttempts
        <3>2. Settled' \ {a} = Settled \ {a}
            BY <2>1, <3>1 DEF Settled
        <3> QED BY <1>k, <3>1, <3>2 DEF Settled
    <2> QED BY <1>0, <2>1, <2>2 DEF CostHandedOutOnce
<1>3. CASE \E r \in Revisions : ReadGoal(r)
    BY <1>2, <1>3 DEF ReadGoal
<1>4. ASSUME NEW r \in Revisions, NEW to \in GoalTerminal, NEW reason \in Reasons \cup {""},
             NEW proved \in BOOLEAN, FinishJob(r, to, reason, proved)
      PROVE  CostHandedOutOnce'
    <2>1. PICK job : Evaluate(r, job, proved)
        BY <1>4, FinishJobs
    <2> QED BY <1>2, <2>1
<1>5. ASSUME goalAttempts' = goalAttempts, goal'.maxCost >= goal.maxCost, goal'.maxCost \in Nat
      PROVE  CostHandedOutOnce'
    <2>1. OpenAttempts' = OpenAttempts
        BY <1>5 DEF OpenAttempts
    <2>2. \A a : OthersCost(a)' = OthersCost(a)
        BY <1>5, <1>k DEF Settled
    <2>3. \A a \in OpenAttempts : OthersCost(a) + goalAttempts[a].budget \in Nat
        BY <1>0
    <2> QED BY <1>0, <1>5, <2>1, <2>2, <2>3 DEF CostHandedOutOnce
<1>6. ASSUME NEW r \in Revisions, NEW plan \in Plans, NEW progress \in Progress,
             NEW op \in 0 .. MaxDecisions, PublishGoalReplan(r, plan, progress, op)
      PROVE  CostHandedOutOnce'
    <2>1. goalAttempts' = goalAttempts
        BY <1>6 DEF PublishGoalReplan
    <2>2. [goal EXCEPT !.state = "NEEDS_APPROVAL"].maxCost = goal.maxCost
        BY GoalFieldsKept
    <2>3. goal'.maxCost = goal.maxCost
        <3>1. CASE goal' = goal \/ goal' = [goal EXCEPT !.state = "NEEDS_APPROVAL"]
            BY <2>2, <3>1
        <3>2. CASE /\ goal.revision < MaxRevision
                   /\ AdvanceRevision(goalJobs[r].reason, plan, progress)
            BY <3>2, AdvanceEffect
        <3> QED BY <1>6, <3>1, <3>2, PublishCases
    <2> QED BY <1>0, <1>5, <2>1, <2>3
<1>7. ASSUME NEW a \in DOMAIN goalAttempts, CompleteGoalAttempt(a)
      PROVE  CostHandedOutOnce'
    <2>1. a \in OpenAttempts /\ OpenAttempts' = OpenAttempts \ {a}
          /\ \A b \in DOMAIN goalAttempts : b # a => goalAttempts'[b] = goalAttempts[b]
        BY <1>7, CompleteAttempts
    <2>2. ASSUME NEW b \in OpenAttempts' PROVE ~(goalAttempts'[b].budget > 0)
        <3>1. b \in OpenAttempts /\ b # a /\ goalAttempts'[b] = goalAttempts[b]
            BY <1>0, <2>1, <2>2
        <3> QED BY <2>1, <3>1 DEF CostHandedOutOnce
    <2> QED BY <2>2 DEF CostHandedOutOnce
<1>8. CASE OtherStep
    <2>1. goalAttempts' = goalAttempts /\ goal'.maxCost >= goal.maxCost
        BY <1>8, OtherStepEffect
    <2>2. goal'.maxCost \in Nat
        <3>1. GoalsTypeOK'
            BY <1>8, JobActionsTyped, DecisionsTyped DEF OtherStep
        <3>2. goal' \in GoalRow
            BY <3>1 DEF GoalsTypeOK
        <3> QED BY <3>2 DEF GoalRow
    <2> QED BY <1>5, <2>1, <2>2
<1>9. ASSUME NEW a \in DOMAIN goalAttempts, NEW metrics \in Usage, ReportMetrics(a, metrics)
      PROVE  CostHandedOutOnce'
    <2>1. /\ OpenAttempts' = OpenAttempts /\ Settled' = Settled
          /\ \A b \in DOMAIN goalAttempts :
                /\ goalAttempts'[b].budget = goalAttempts[b].budget
                /\ goalAttempts'[b].usage = goalAttempts[b].usage
        BY <1>9, ReportAttempts
    <2>2. \A b : OthersCost(b)' = OthersCost(b)
        BY <1>k, <2>1 DEF Settled
    <2>3. goal' = goal
        BY <1>9 DEF ReportMetrics
    <2> QED BY <1>0, <2>1, <2>2, <2>3 DEF CostHandedOutOnce
<1> QED BY <1>1, <1>3, <1>4, <1>6, <1>7, <1>8, <1>9, GoalsNextCases

\* Steps that publish nothing keep the approvals' count.
LEMMA ApprovalsUntouched ==
    ASSUME GoalsTypeOK, ApprovalsCount, LoopsHaveApproval,
           history' = history, goal'.revision = goal.revision,
           \/ permissions' = permissions
           \/ permissions' = Append(permissions, [revision |-> goal.revision, consumed |-> FALSE])
    PROVE  ApprovalsCount' /\ LoopsHaveApproval'
<1>1. CASE permissions' = permissions
    <2>1. Consumed' = Consumed
        BY <1>1 DEF Consumed
    <2> QED BY <1>1, <2>1 DEF ApprovalsCount, LoopsHaveApproval
<1>2. CASE permissions' = Append(permissions, [revision |-> goal.revision, consumed |-> FALSE])
    <2> DEFINE row == [revision |-> goal.revision, consumed |-> FALSE]
    <2>1. permissions \in Seq(PermissionRow)
        BY DEF GoalsTypeOK
    <2>2. row.consumed = FALSE
        OBVIOUS
    <2>3. permissions' = Append(permissions, row)
        BY <1>2
    <2> HIDE DEF row
    <2>4. /\ DOMAIN permissions' = DOMAIN permissions \cup {Len(permissions) + 1}
          /\ permissions'[Len(permissions) + 1] = row
          /\ \A op \in DOMAIN permissions : permissions'[op] = permissions[op]
          /\ Len(permissions) + 1 \notin DOMAIN permissions
        BY <2>1, <2>3
    <2>5. Consumed' = Consumed
        BY <2>2, <2>4 DEF Consumed
    <2>6. \A op \in Consumed : permissions'[op] = permissions[op]
        BY <2>4 DEF Consumed
    <2> QED BY <2>5, <2>6 DEF ApprovalsCount, LoopsHaveApproval
<1> QED BY <1>1, <1>2

\* Using an approval up.
LEMMA ConsumeEffect ==
    ASSUME GoalsTypeOK, NEW op, ConsumePermission(op)
    PROVE  /\ \A p \in DOMAIN permissions : permissions'[p].revision = permissions[p].revision
           /\ Consumed \subseteq DOMAIN permissions
           /\ \/ goal.state # "NEEDS_APPROVAL" /\ Consumed' = Consumed
              \/ /\ goal.state = "NEEDS_APPROVAL"
                 /\ op \in DOMAIN permissions
                 /\ permissions[op].revision = goal.revision
                 /\ Consumed' = Consumed \cup {op}
<1>0. permissions \in Seq(PermissionRow)
    BY DEF GoalsTypeOK
<1>1. CASE goal.state # "NEEDS_APPROVAL"
    BY <1>1 DEF ConsumePermission, Consumed
<1>2. CASE goal.state = "NEEDS_APPROVAL"
    <2> DEFINE row == [permissions[op] EXCEPT !.consumed = TRUE]
    <2>1. op \in DOMAIN permissions /\ permissions[op] \in PermissionRow
          /\ permissions[op].revision = goal.revision
        BY <1>0, <1>2 DEF ConsumePermission, CanConsume
    <2>2. row.consumed = TRUE /\ row.revision = permissions[op].revision
        BY <2>1 DEF PermissionRow
    <2>3. permissions' = [permissions EXCEPT ![op] = row]
        BY <1>2 DEF ConsumePermission
    <2> HIDE DEF row
    <2>4. Consumed' = Consumed \cup {op}
        BY <1>0, <2>1, <2>2, <2>3 DEF Consumed
    <2>5. \A p \in DOMAIN permissions : permissions'[p].revision = permissions[p].revision
        BY <1>0, <2>1, <2>2, <2>3
    <2> QED BY <1>2, <2>1, <2>4, <2>5 DEF Consumed
<1> QED BY <1>1, <1>2

\* A publication that was allowed keeps the count, and a repeated strategy has
\* its approval.
LEMMA PublicationApproved ==
    ASSUME GoalsTypeOK, ApprovalsCount, LoopsHaveApproval,
           NEW r \in Revisions, NEW plan \in Plans, NEW progress \in Progress,
           NEW op \in 0 .. MaxDecisions, NEW reason,
           LoopSuspected(reason, plan, progress) => goal.state = "NEEDS_APPROVAL" /\ op # 0,
           goal.revision < MaxRevision, ConsumePermission(op),
           AdvanceRevision(reason, plan, progress)
    PROVE  ApprovalsCount' /\ LoopsHaveApproval'
<1>0. /\ goal.revision \in Nat
      /\ goal'.revision = goal.revision + 1
      /\ Len(history) \in Nat
      /\ Len(history') = Len(history) + 1
      /\ DOMAIN history = 1 .. Len(history)
      /\ DOMAIN history' = 1 .. Len(history) + 1
      /\ \A i \in DOMAIN history : history'[i] = history[i]
      /\ history'[Len(history) + 1].plan = plan
    BY AdvanceEffect
<1>1. Len(history) = goal.revision - 1
    BY DEF ApprovalsCount
<1>2. /\ \A p \in DOMAIN permissions : permissions'[p].revision = permissions[p].revision
      /\ Consumed \subseteq DOMAIN permissions
      /\ \/ goal.state # "NEEDS_APPROVAL" /\ Consumed' = Consumed
         \/ /\ goal.state = "NEEDS_APPROVAL"
            /\ op \in DOMAIN permissions
            /\ permissions[op].revision = goal.revision
            /\ Consumed' = Consumed \cup {op}
    BY ConsumeEffect
<1>3. \A p \in Consumed : permissions[p].revision \in Nat
    <2>1. \A p \in DOMAIN permissions : permissions[p] \in PermissionRow
        BY DEF GoalsTypeOK
    <2>2. \A p \in DOMAIN permissions : permissions[p].revision \in Revisions
        BY <2>1 DEF PermissionRow
    <2> QED BY <1>2, <2>2 DEF Revisions
<1>4. ApprovalsCount'
    <2>1. Len(history') = goal'.revision - 1
        BY <1>0, <1>1
    <2>2. \A p \in Consumed' : permissions'[p].revision < goal'.revision
        BY <1>0, <1>2, <1>3 DEF ApprovalsCount
    <2>3. \A p, q \in Consumed' :
            permissions'[p].revision = permissions'[q].revision => p = q
        BY <1>0, <1>2, <1>3 DEF ApprovalsCount
    <2> QED BY <2>1, <2>2, <2>3 DEF ApprovalsCount
<1>5. ASSUME NEW i \in DOMAIN history', NEW j \in DOMAIN history', i < j,
             j - i <= replanCycleWindow,
             history'[i].plan.strategy = history'[j].plan.strategy
      PROVE  \E p \in Consumed' : permissions'[p].revision = j
    <2>1. CASE j \in DOMAIN history
        <3>1. i \in DOMAIN history
            BY <1>0, <1>5, <2>1
        <3>2. \E p \in Consumed : permissions[p].revision = j
            BY <1>0, <1>5, <2>1, <3>1 DEF LoopsHaveApproval
        <3> QED BY <1>2, <3>2
    <2>2. CASE j = Len(history) + 1
        <3>1. i \in DOMAIN history /\ i + 1 + replanCycleWindow > goal.revision
            BY SMTT(30), <1>0, <1>1, <1>5, <2>2 DEF replanCycleWindow
        <3>2. history[i].plan.strategy = plan.strategy
            BY <1>0, <1>5, <2>2, <3>1
        <3>3. SeenStrategy(plan)
            BY <3>1, <3>2 DEF SeenStrategy
        <3>4. goal.state = "NEEDS_APPROVAL"
            BY <3>3 DEF LoopSuspected
        <3>5. op \in Consumed' /\ permissions'[op].revision = goal.revision
            BY <1>2, <3>4
        <3>6. j = goal.revision
            BY <1>0, <1>1, <2>2
        <3> QED BY <3>5, <3>6
    <2> QED BY <1>0, <2>1, <2>2
<1> QED BY <1>4, <1>5 DEF LoopsHaveApproval

LEMMA ApprovalsStillCount ==
    ASSUME GoalsTypeOK, ApprovalsCount, LoopsHaveApproval, GoalsNext
    PROVE  ApprovalsCount' /\ LoopsHaveApproval'
<1>0. goal \in GoalRow
    BY DEF GoalsTypeOK
<1>1. CASE \E r \in Revisions : ReserveAttempt(r)
    <2>1. UNCHANGED <<history, permissions>> /\ goal' = [goal EXCEPT !.attempts = @ + 1]
        BY <1>1 DEF ReserveAttempt
    <2>2. goal'.revision = goal.revision
        BY <1>0, <2>1 DEF GoalRow
    <2> QED BY <2>1, <2>2, ApprovalsUntouched
<1>2. ASSUME NEW r, NEW job, NEW proved, Evaluate(r, job, proved),
             UNCHANGED <<history, permissions>>
      PROVE  ApprovalsCount' /\ LoopsHaveApproval'
    <2>1. goal'.revision = goal.revision
        BY <1>2, EvaluateAttempts
    <2> QED BY <1>2, <2>1, ApprovalsUntouched
<1>3. CASE \E r \in Revisions : ReadGoal(r)
    BY <1>2, <1>3 DEF ReadGoal
<1>4. ASSUME NEW r \in Revisions, NEW to \in GoalTerminal, NEW reason \in Reasons \cup {""},
             NEW proved \in BOOLEAN, FinishJob(r, to, reason, proved)
      PROVE  ApprovalsCount' /\ LoopsHaveApproval'
    <2>1. PICK job : Evaluate(r, job, proved)
        BY <1>4, FinishJobs
    <2>2. UNCHANGED <<history, permissions>>
        BY <1>4, FinishJobs
    <2> QED BY <1>2, <2>1, <2>2
<1>5. ASSUME NEW r \in Revisions, NEW plan \in Plans, NEW progress \in Progress,
             NEW op \in 0 .. MaxDecisions, PublishGoalReplan(r, plan, progress, op)
      PROVE  ApprovalsCount' /\ LoopsHaveApproval'
    <2>1. CASE /\ LoopSuspected(goalJobs[r].reason, plan, progress) =>
                     goal.state = "NEEDS_APPROVAL" /\ op # 0
               /\ goal.revision < MaxRevision
               /\ ConsumePermission(op)
               /\ AdvanceRevision(goalJobs[r].reason, plan, progress)
        BY <2>1, PublicationApproved
    <2>2. CASE /\ goal' = goal \/ goal' = [goal EXCEPT !.state = "NEEDS_APPROVAL"]
               /\ UNCHANGED <<history, permissions>>
        <3>1. [goal EXCEPT !.state = "NEEDS_APPROVAL"].revision = goal.revision
            BY GoalFieldsKept
        <3> QED BY <2>2, <3>1, ApprovalsUntouched
    <2> QED BY <1>5, <2>1, <2>2, PublishCases
<1>6. CASE \/ \E a \in DOMAIN goalAttempts : CompleteGoalAttempt(a)
           \/ \E a \in DOMAIN goalAttempts, metrics \in Usage : ReportMetrics(a, metrics)
    BY <1>6, ApprovalsUntouched DEF CompleteGoalAttempt, ReportMetrics
<1>7. CASE OtherStep
    BY <1>7, OtherStepEffect, ApprovalsUntouched
<1> QED BY <1>1, <1>3, <1>4, <1>5, <1>6, <1>7, GoalsNextCases

\* The invariant holds from the start.
LEMMA GoalsInvInit ==
    GoalsInit => GoalsInv
<1> SUFFICES ASSUME GoalsInit PROVE GoalsInv
    OBVIOUS
<1>1. GoalsTypeOK
    BY GoalsInitTyped
<1>2. goalAttempts = <<>> /\ history = <<>> /\ permissions = <<>> /\ goal.revision = 1
    BY DEF GoalsInit
<1>3. OpenAttempts = {} /\ Consumed = {}
    BY <1>2 DEF OpenAttempts, Consumed
<1>4. FailuresNamed
    <2>1. NewJob.state # "FAILED" /\ NoJob.state # "FAILED"
        BY DEF NewJob, NoJob
    <2> QED BY <2>1 DEF FailuresNamed, GoalsInit
<1>5. ActiveJobRuns /\ EndedAreRecorded /\ CostHandedOutOnce
    BY <1>2, <1>3 DEF ActiveJobRuns, EndedAreRecorded, CostHandedOutOnce
<1>6. ApprovalsCount /\ LoopsHaveApproval
    BY <1>2, <1>3 DEF ApprovalsCount, LoopsHaveApproval
<1> QED BY <1>1, <1>4, <1>5, <1>6 DEF GoalsInv

\* Every step of a Goal, and every step of something else, keeps the invariant.
LEMMA GoalsInvStep ==
    GoalsInv /\ [GoalsNext]_goalVars => GoalsInv'
<1> SUFFICES ASSUME GoalsInv, [GoalsNext]_goalVars PROVE GoalsInv'
    OBVIOUS
<1>1. CASE GoalsNext
    BY <1>1, GoalsStepTyped, FailuresStayNamed, ActiveJobStillRuns, EndedStayRecorded,
       CostStaysHandedOutOnce, ApprovalsStillCount DEF GoalsInv
<1>2. CASE UNCHANGED goalVars
    <2>1. UNCHANGED <<goal, goalJobs, goalAttempts, history, requests, evaluations, permissions>>
        BY <1>2 DEF goalVars
    <2>2. OpenAttempts' = OpenAttempts /\ Consumed' = Consumed /\ Settled' = Settled
          /\ \A a : OthersCost(a)' = OthersCost(a)
        BY <2>1 DEF OpenAttempts, Consumed, Settled, CostOf, OthersCost
    <2>3. GoalsTypeOK'
        BY <2>1 DEF GoalsInv, GoalsTypeOK
    <2>4. FailuresNamed' /\ ActiveJobRuns' /\ EndedAreRecorded' /\ CostHandedOutOnce'
        BY <2>1, <2>2 DEF GoalsInv, FailuresNamed, ActiveJobRuns, EndedAreRecorded,
                          CostHandedOutOnce
    <2>5. ApprovalsCount' /\ LoopsHaveApproval'
        BY <2>1, <2>2 DEF GoalsInv, ApprovalsCount, LoopsHaveApproval
    <2> QED BY <2>3, <2>4, <2>5 DEF GoalsInv
<1> QED BY <1>1, <1>2

\* The rows of a Goal, its Jobs, Attempts, requests, evaluations and approvals are
\* what the tables may hold, in every state, and GoalsInv holds of them.
THEOREM GoalsSafe == GoalsSpec => []GoalsInv
BY GoalsInvInit, GoalsInvStep, PTL DEF GoalsSpec

\* The type invariant of the Goals.
THEOREM GoalsTyped == GoalsSpec => []GoalsTypeOK
<1>1. GoalsInv => GoalsTypeOK
    BY DEF GoalsInv
<1> QED BY <1>1, GoalsSafe, PTL

\* buildGoalRuntimeBudget never hands the remainder of a Goal's cost limit out twice,
\* whatever the order of reservations, completions, evaluations and decisions.
THEOREM CostIsHandedOutOnce == GoalsSpec => []CostHandedOutOnce
<1>1. GoalsInv => CostHandedOutOnce
    BY DEF GoalsInv
<1> QED BY <1>1, GoalsSafe, PTL

\* No Attempt of a superseded Plan is under way (reserveGoalAttempt, PublishGoalReplan,
\* ManualRetry).
THEOREM OneRevisionAtATime == GoalsSpec => []OneRevisionRuns
<1>1. GoalsInv => OneRevisionRuns
    BY DEF GoalsInv, ActiveJobRuns, OneRevisionRuns
<1> QED BY <1>1, GoalsSafe, PTL

\* What was spent for a revision is one approval or none.
LEMMA SpentCounts ==
    ASSUME GoalsInv
    PROVE  LoopsAreApproved
<1> DEFINE spent(j) == {op \in DOMAIN permissions :
                          permissions[op].consumed /\ permissions[op].revision = j}
<1>1. \A i, j \in DOMAIN history :
        /\ i < j
        /\ j - i <= replanCycleWindow
        /\ history[i].plan.strategy = history[j].plan.strategy
        => spent(j) # {}
    BY DEF GoalsInv, LoopsHaveApproval, Consumed
<1>2. ASSUME NEW j \in Revisions
      PROVE  Cardinality(spent(j)) <= (IF j \in DOMAIN history THEN 1 ELSE 0)
    <2>1. CASE spent(j) = {}
        <3>1. Cardinality(spent(j)) = 0
            BY <2>1, FS_EmptySet
        <3> QED BY <3>1
    <2>2. CASE spent(j) # {}
        <3>1. PICK op \in spent(j) : TRUE
            BY <2>2
        <3>2. op \in Consumed /\ permissions[op].revision = j
            BY <3>1 DEF Consumed
        <3>3. spent(j) \subseteq {op}
            BY <3>2 DEF GoalsInv, ApprovalsCount, Consumed
        <3>4. spent(j) = {op}
            BY <3>1, <3>3
        <3>5. Cardinality(spent(j)) = 1
            BY <3>4, FS_Singleton
        <3>6. j \in DOMAIN history
            <4>1. j < goal.revision /\ Len(history) = goal.revision - 1
                BY <3>2 DEF GoalsInv, ApprovalsCount
            <4>2. goal.revision \in 1 .. MaxRevision /\ MaxRevision \in Nat
                <5>1. goal \in GoalRow
                    BY DEF GoalsInv, GoalsTypeOK
                <5> QED BY <5>1, GoalsAssumption DEF GoalRow, Revisions
            <4>3. DOMAIN history = 1 .. Len(history)
                BY DEF GoalsInv, GoalsTypeOK
            <4> QED BY <4>1, <4>2, <4>3 DEF Revisions
        <3> QED BY <3>5, <3>6
    <2> QED BY <2>1, <2>2
<1> QED BY <1>1, <1>2 DEF LoopsAreApproved

\* The guard lets a repeated strategy through with an approval of exactly the revision
\* it replaces, and ConsumeReplanPermissionTx uses no approval twice.
THEOREM LoopsNeedApproval == GoalsSpec => []LoopsAreApproved
<1>1. GoalsInv => LoopsAreApproved
    BY SpentCounts
<1> QED BY <1>1, GoalsSafe, PTL

----------------------------------------------------------------------------
(* The gateway: the inductive invariant *)

\* What a call counts for: its usage if it is known, or all it was given.
Charged(c) == IF gwRows[c].outcome.known THEN gwRows[c].outcome ELSE gwRows[c].given

ChargedTokens(a) == Total([c \in RowsOf(a) |-> CallTokens(Charged(c))])

\* The cost of a call, or of its input if the output is excused.
RowCost(o, excused) == IF excused THEN InputCost(o) ELSE CallCost(o)

\* What the calls of an Attempt cost without the output of call e (0 is no call).
ChargedCost(a, e) == Total([c \in RowsOf(a) |-> RowCost(Charged(c), c = e)])

\* The calls whose output may pass the cost limit.
Excused(a) == {0} \cup {c \in RowsOf(a) : gwRows[c].kind = "responses"}

\* All a call may use.
Most(c) == Outcome("UNKNOWN", TRUE, calls[c].len, calls[c].cap)

\* The part of it that the cost limit was compared with.
Assured(c) == RowCost(Most(c), calls[c].kind = "responses")

\* An Attempt has one call under way, and none while the Server is down.
SlotsExclude ==
    /\ ~gwUp => Flying = {}
    /\ \A c, d \in Flying : calls[c].attempt = calls[d].attempt /\ calls[c].attempt # NoAttempt
                            => c = d

\* A call has no row before it is sent, and one that is open until it is recorded.
RowsFollowCalls ==
    \A c \in Calls :
        /\ calls[c].phase \in {"idle", "slotted", "capped"} =>
              gwRows[c].outcome.state = "none" /\ calls[c].outcome = Unsettled
        /\ calls[c].phase \in {"sending", "closing"} =>
              /\ gwRows[c].outcome.state = "STARTED"
              /\ ~gwRows[c].outcome.known
              /\ gwRows[c].attempt = calls[c].attempt
              /\ gwRows[c].given = Most(c)

\* No call of an Attempt uses more than it was given.
UsageBounded ==
    \A c \in Calls :
        /\ calls[c].phase \in {"capped", "sending", "closing"} /\ calls[c].attempt # NoAttempt =>
              /\ calls[c].cap >= 1
              /\ calls[c].outcome.in <= calls[c].len
              /\ calls[c].outcome.out <= calls[c].cap
        /\ gwRows[c].outcome.known /\ gwRows[c].attempt # NoAttempt =>
              /\ gwRows[c].outcome.in <= gwRows[c].given.in
              /\ gwRows[c].outcome.out <= gwRows[c].given.out
        /\ gwRows[c].outcome.state = "STARTED" => ~gwRows[c].outcome.known

\* What a call that is about to start may use is left, and nobody else may use it.
CapsFit ==
    \A c \in Calls, a \in GwAttempts :
        calls[c].phase = "capped" /\ calls[c].attempt = a =>
            /\ Resolved(a)
            /\ ChargedTokens(a) + CallTokens(Most(c)) <= MaxAttemptTokens
            /\ ChargedCost(a, 0) + Assured(c) <= MaxAttemptCost

\* A CLI process has a journal, and belongs to a call that is being served by the CLI.
CliJournalled ==
    \A c \in Calls :
        /\ cli[c].process => cli[c].journal # "none"
        /\ gwUp /\ cli[c].journal # "none" => calls[c].phase = "sending" \/ cliBlocked
        /\ cli[c].journal # "none" => calls[c].phase \notin {"idle", "slotted", "capped"}
        /\ cli[c].journal # "none" /\ calls[c].phase = "sending" => calls[c].kind = "cli"
        /\ calls[c].seen # {} => calls[c].kind = "messages" /\ calls[c].phase # "idle"

BudgetInv ==
    /\ SlotsExclude
    /\ RowsFollowCalls
    /\ UsageBounded
    /\ CapsFit
    /\ AttemptWithinBudget

GatewayInv == GatewayTypeOK /\ BudgetInv /\ CliJournalled

----------------------------------------------------------------------------
(* The gateway: arithmetic *)

\* Division from below.
LEMMA DivLow ==
    ASSUME NEW x \in Nat, NEW y \in Nat \ {0}
    PROVE  /\ x \div y \in Nat
           /\ (x \div y) * y <= x
           /\ x < (x \div y) * y + y
OBVIOUS

LEMMA DivBound ==
    ASSUME NEW x \in Nat, NEW y \in Nat \ {0}, NEW z \in Nat, x < z * y + y
    PROVE  x \div y <= z
<1>1. (x \div y) * y <= x /\ x \div y \in Nat
    BY DivLow
<1>2. (x \div y) * y < (z + 1) * y
    BY <1>1
<1>3. ASSUME x \div y >= z + 1 PROVE FALSE
    <2>1. (x \div y) * y >= (z + 1) * y
        BY <1>1, <1>3
    <2> QED BY <1>1, <1>2, <2>1
<1> QED BY <1>1, <1>3

LEMMA MinOfTwo ==
    ASSUME NEW x \in Int, NEW y \in Int
    PROVE  /\ Min({x, y}) \in Int
           /\ Min({x, y}) <= x
           /\ Min({x, y}) <= y
BY DEF Min

LEMMA GatewayConstants ==
    /\ MaxCalls \in Nat \ {0} /\ MaxInflight \in Nat \ {0}
    /\ MaxAttemptTokens \in Nat \ {0} /\ MaxAttemptCost \in Nat \ {0}
    /\ InputPrice \in Nat \ {0} /\ OutputPrice \in Nat \ {0} /\ PriceUnit \in Nat \ {0}
    /\ Overhead \in Nat /\ Growth \subseteq Nat /\ BodyLengths \subseteq Nat
    /\ Wanted \subseteq Nat /\ NoAttempt \notin GwAttempts
BY GatewayAssumption DEF NoAttempt

\* Costs are numbers, and more tokens cost no less.
LEMMA CostTyped ==
    ASSUME NEW n \in Nat, NEW price \in Nat \ {0}
    PROVE  tokenCostMicros(n, price) \in Nat
<1>1. n * price \in Nat
    OBVIOUS
<1>2. n * price + PriceUnit - 1 \in Nat
    BY <1>1, GatewayConstants
<1> QED BY <1>2, DivLow, GatewayConstants DEF tokenCostMicros

LEMMA CostMonotone ==
    ASSUME NEW m \in Nat, NEW n \in Nat, m <= n, NEW price \in Nat \ {0}
    PROVE  tokenCostMicros(m, price) <= tokenCostMicros(n, price)
<1> DEFINE x == m * price + PriceUnit - 1
           y == n * price + PriceUnit - 1
           q == y \div PriceUnit
<1>0. PriceUnit \in Nat \ {0}
    BY GatewayConstants
<1>1. m * price \in Nat /\ n * price \in Nat /\ m * price <= n * price
    OBVIOUS
<1>2. x \in Nat /\ y \in Nat /\ x <= y
    BY <1>0, <1>1
<1>3. q \in Nat /\ y < q * PriceUnit + PriceUnit
    BY <1>0, <1>2, DivLow
<1>4. x < q * PriceUnit + PriceUnit
    BY <1>0, <1>2, <1>3
<1>5. x \div PriceUnit <= q
    BY <1>0, <1>2, <1>3, <1>4, DivBound
<1> QED BY <1>5 DEF tokenCostMicros

\* costTokenCapacity is the inverse of tokenCostMicros, from below: the tokens it
\* allows cost no more than what is left.
LEMMA CapacityFits ==
    ASSUME NEW cost \in Nat, NEW price \in Nat \ {0}, NEW n \in Nat,
           n <= costTokenCapacity(cost, price)
    PROVE  tokenCostMicros(n, price) <= cost
<1> DEFINE b == cost * PriceUnit
           k == b \div price
           x == n * price + PriceUnit - 1
<1>0. PriceUnit \in Nat \ {0}
    BY GatewayConstants
<1>1. b \in Nat /\ n <= k
    BY <1>0 DEF costTokenCapacity
<1>2. k \in Nat /\ k * price <= b
    BY <1>1, DivLow
<1>3. n * price \in Nat /\ n * price <= k * price
    BY <1>1, <1>2
<1>4. n * price <= cost * PriceUnit
    BY <1>2, <1>3, <1>1
<1>5. x \in Nat /\ x < cost * PriceUnit + PriceUnit
    BY <1>0, <1>1, <1>3, <1>4
<1>6. x \div PriceUnit <= cost
    BY <1>0, <1>5, DivBound
<1> QED BY <1>6 DEF tokenCostMicros

\* The output a body that is sent allows fits into what is left of the tokens,
\* together with the body; the cost of the body fits into what is left of the cost,
\* with the output where serveHTTP does not write the body again.
LEMMA CapFits ==
    ASSUME NEW len \in Nat, NEW want \in Nat, NEW grown \in Nat, NEW kind,
           NEW left, left.tokens \in Int, left.cost \in Int,
           OutputCap(len, want, grown, left) >= 1
    PROVE  LET sent == SentCap(kind, len, want, grown, left)
           IN  /\ sent \in Nat /\ sent >= 1
               /\ len + sent <= left.tokens
               /\ tokenCostMicros(len, InputPrice) <= left.cost
               /\ kind # "responses" =>
                     tokenCostMicros(len, InputPrice) + tokenCostMicros(sent, OutputPrice)
                       <= left.cost
<1> DEFINE cap == OutputCap(len, want, grown, left)
           input == tokenCostMicros(len + Overhead, InputPrice)
           byTokens == TokenLimit(len, want, grown, left.tokens)
           byCost == costTokenCapacity(left.cost - input, OutputPrice)
<1>0. Overhead \in Nat /\ len + Overhead \in Nat
      /\ InputPrice \in Nat \ {0} /\ OutputPrice \in Nat \ {0} /\ PriceUnit \in Nat \ {0}
    BY GatewayConstants
<1>1. input \in Nat
    BY <1>0, CostTyped
<1>2. /\ ~(left.tokens < 1 \/ left.cost <= input \/ left.tokens - len - Overhead < 1)
      /\ cap = Min({byTokens, byCost})
    BY DEF OutputCap
<1>3. left.cost - input \in Nat
    BY <1>1, <1>2
<1>4. byTokens \in Int /\ byTokens <= left.tokens - len
    <2> DEFINE limit == Min({left.tokens - len - Overhead, want})
    <2>0. left.tokens - len - Overhead \in Int /\ want \in Int
        BY <1>0
    <2>1. limit \in Int /\ limit <= left.tokens - len - Overhead
        BY <2>0, MinOfTwo
    <2> HIDE DEF limit
    <2>2. byTokens = IF len + grown + limit > left.tokens THEN left.tokens - len - grown ELSE limit
        BY DEF TokenLimit, limit
    <2>3. CASE len + grown + limit > left.tokens
        BY <2>2, <2>3
    <2>4. CASE ~(len + grown + limit > left.tokens)
        <3>1. byTokens = limit
            BY <2>2, <2>4
        <3> QED BY <1>0, <2>1, <3>1
    <2> QED BY <2>3, <2>4
<1>5. byCost \in Int
    <2>1. (left.cost - input) * PriceUnit \in Nat
        BY <1>0, <1>3
    <2> QED BY <1>0, <2>1, DivLow DEF costTokenCapacity
<1> HIDE DEF cap, input, byTokens, byCost
<1>6. cap \in Int /\ cap <= byTokens /\ cap <= byCost
    BY <1>2, <1>4, <1>5, MinOfTwo
<1>7. cap \in Nat
    BY <1>6 DEF cap
<1>8. len + cap <= left.tokens
    BY <1>4, <1>6
<1>9. tokenCostMicros(cap, OutputPrice) <= left.cost - input
    BY <1>0, <1>3, <1>6, <1>7, CapacityFits DEF byCost
<1>10. tokenCostMicros(len, InputPrice) <= input
    BY <1>0, CostMonotone DEF input
<1>11. tokenCostMicros(cap, OutputPrice) \in Nat /\ tokenCostMicros(len, InputPrice) \in Nat
    BY <1>0, <1>7, CostTyped
<1>12. tokenCostMicros(len, InputPrice) + tokenCostMicros(cap, OutputPrice) <= left.cost
    BY <1>1, <1>9, <1>10, <1>11
<1>13. tokenCostMicros(len, InputPrice) <= left.cost
    BY <1>1, <1>2, <1>10, <1>11
<1>14. byTokens \in Nat /\ byTokens >= 1 /\ cap >= 1
    BY <1>4, <1>6 DEF cap
<1>15. SentCap(kind, len, want, grown, left) = IF kind = "responses" THEN byTokens ELSE cap
    BY DEF SentCap, byTokens, cap
<1> QED BY <1>4, <1>7, <1>8, <1>12, <1>13, <1>14, <1>15

----------------------------------------------------------------------------
(* The gateway: sums over the rows of an Attempt *)

AnyOutcome == OutcomeRow(Decided \cup {"none", "STARTED"})

LEMMA OutcomeValues ==
    ASSUME NEW o \in AnyOutcome
    PROVE  /\ o.in \in Nat /\ o.out \in Nat /\ o.known \in BOOLEAN
           /\ CallTokens(o) \in Nat
           /\ \A x \in BOOLEAN : RowCost(o, x) \in Nat
<1>1. o.in \in Nat /\ o.out \in Nat /\ o.known \in BOOLEAN
    BY DEF AnyOutcome, OutcomeRow
<1>2. tokenCostMicros(o.in, InputPrice) \in Nat /\ tokenCostMicros(o.out, OutputPrice) \in Nat
    BY <1>1, CostTyped, GatewayConstants
<1> QED BY <1>1, <1>2 DEF CallTokens, CallCost, InputCost, RowCost

LEMMA OutcomeMonotone ==
    ASSUME NEW o \in AnyOutcome, NEW p \in AnyOutcome, o.in <= p.in, o.out <= p.out
    PROVE  /\ CallTokens(o) <= CallTokens(p)
           /\ \A x \in BOOLEAN : RowCost(o, x) <= RowCost(p, x)
<1>1. o.in \in Nat /\ o.out \in Nat /\ p.in \in Nat /\ p.out \in Nat
    BY OutcomeValues
<1>2. /\ tokenCostMicros(o.in, InputPrice) <= tokenCostMicros(p.in, InputPrice)
      /\ tokenCostMicros(o.out, OutputPrice) <= tokenCostMicros(p.out, OutputPrice)
    BY <1>1, CostMonotone, GatewayConstants
<1>3. /\ tokenCostMicros(o.in, InputPrice) \in Nat /\ tokenCostMicros(p.in, InputPrice) \in Nat
      /\ tokenCostMicros(o.out, OutputPrice) \in Nat /\ tokenCostMicros(p.out, OutputPrice) \in Nat
    BY <1>1, CostTyped, GatewayConstants
<1> QED BY <1>1, <1>2, <1>3 DEF CallTokens, CallCost, InputCost, RowCost

LEMMA RowsTyped ==
    ASSUME GatewayTypeOK, NEW c \in Calls
    PROVE  /\ gwRows[c] \in GatewayRow
           /\ gwRows[c].attempt \in GwAttempts \cup {NoAttempt}
           /\ gwRows[c].outcome \in AnyOutcome
           /\ gwRows[c].given \in AnyOutcome
           /\ Charged(c) \in AnyOutcome
<1>1. gwRows[c] \in GatewayRow
    BY DEF GatewayTypeOK
<1>2. /\ gwRows[c].attempt \in GwAttempts \cup {NoAttempt}
      /\ gwRows[c].outcome \in AnyOutcome
      /\ gwRows[c].given \in OutcomeRow(Decided)
    BY <1>1 DEF GatewayRow, AnyOutcome
<1>3. gwRows[c].given \in AnyOutcome
    BY <1>2 DEF AnyOutcome, OutcomeRow
<1> QED BY <1>1, <1>2, <1>3 DEF Charged

LEMMA RowsFinite ==
    ASSUME NEW a
    PROVE  IsFiniteSet(RowsOf(a)) /\ RowsOf(a) \subseteq Calls
<1>1. IsFiniteSet(Calls)
    <2>1. 1 \in Int /\ MaxCalls \in Int
        BY GatewayConstants
    <2> QED BY <2>1, FS_Interval DEF Calls
<1>2. RowsOf(a) \in SUBSET Calls
    BY DEF RowsOf
<1> QED BY <1>1, <1>2, FS_Subset

LEMMA ChargedTyped ==
    ASSUME GatewayTypeOK, NEW a, NEW e
    PROVE  /\ [c \in RowsOf(a) |-> CallTokens(Charged(c))] \in [RowsOf(a) -> Nat]
           /\ [c \in RowsOf(a) |-> RowCost(Charged(c), c = e)] \in [RowsOf(a) -> Nat]
           /\ ChargedTokens(a) \in Nat
           /\ ChargedCost(a, e) \in Nat
<1>1. \A c \in RowsOf(a) : CallTokens(Charged(c)) \in Nat /\ RowCost(Charged(c), c = e) \in Nat
    BY RowsFinite, RowsTyped, OutcomeValues
<1>2. /\ [c \in RowsOf(a) |-> CallTokens(Charged(c))] \in [RowsOf(a) -> Nat]
      /\ [c \in RowsOf(a) |-> RowCost(Charged(c), c = e)] \in [RowsOf(a) -> Nat]
    BY <1>1
<1> QED BY <1>2, RowsFinite, TotalIsNat DEF ChargedTokens, ChargedCost

\* What a call costs is a matter of its figures.
LEMMA CostOfFigures ==
    ASSUME NEW c, NEW e
    PROVE  /\ CallTokens(Charged(c))' = CallTokens(Charged(c)')
           /\ RowCost(Charged(c), c = e)' = RowCost(Charged(c)', c = e)
BY DEF CallTokens, RowCost, InputCost, CallCost, tokenCostMicros

\* What is charged depends on the rows of the Attempt only.
LEMMA ChargedKept ==
    ASSUME NEW a, RowsOf(a)' = RowsOf(a), \A c \in RowsOf(a) : Charged(c)' = Charged(c)
    PROVE  ChargedTokens(a)' = ChargedTokens(a) /\ \A e : ChargedCost(a, e)' = ChargedCost(a, e)
<1>1. [c \in RowsOf(a) |-> CallTokens(Charged(c))]' = [c \in RowsOf(a) |-> CallTokens(Charged(c))]
    BY CostOfFigures
<1>2. ASSUME NEW e
      PROVE  [c \in RowsOf(a) |-> RowCost(Charged(c), c = e)]' =
                [c \in RowsOf(a) |-> RowCost(Charged(c), c = e)]
    BY CostOfFigures
<1> QED BY <1>1, <1>2 DEF ChargedTokens, ChargedCost

\* Where every usage is known, what is used is what is charged.
LEMMA UsedIsCharged ==
    ASSUME NEW a, Resolved(a)
    PROVE  UsedTokens(a) = ChargedTokens(a) /\ UsedCostMicros(a) = ChargedCost(a, 0)
<1>1. \A c \in RowsOf(a) : Charged(c) = gwRows[c].outcome /\ c # 0
    BY GatewayConstants DEF Resolved, Charged, RowsOf, Calls
<1>2. /\ [c \in RowsOf(a) |-> CallTokens(Charged(c))] =
            [c \in RowsOf(a) |-> CallTokens(gwRows[c].outcome)]
      /\ [c \in RowsOf(a) |-> RowCost(Charged(c), c = 0)] =
            [c \in RowsOf(a) |-> CallCost(gwRows[c].outcome)]
    BY <1>1 DEF RowCost
<1> QED BY <1>2 DEF UsedTokens, UsedCostMicros, ChargedTokens, ChargedCost

\* The budget, in terms of what is charged.
LEMMA WithinBudget ==
    AttemptWithinBudget <=>
        \A a \in GwAttempts : /\ ChargedTokens(a) <= MaxAttemptTokens
                              /\ \E e \in Excused(a) : ChargedCost(a, e) <= MaxAttemptCost
BY DEF AttemptWithinBudget, ChargedTokens, ChargedCost, Charged, RowCost, Excused

LEMMA WithinBudgetNext ==
    ASSUME \A a \in GwAttempts :
              /\ ChargedTokens(a)' <= MaxAttemptTokens
              /\ \E e \in Excused(a)' : ChargedCost(a, e)' <= MaxAttemptCost
    PROVE  AttemptWithinBudget'
BY DEF AttemptWithinBudget, ChargedTokens, ChargedCost, Charged, RowCost, Excused

----------------------------------------------------------------------------
(* The gateway: steps *)

LEMMA HandlersTyped ==
    ASSUME GatewayTypeOK, NEW c \in Calls
    PROVE  /\ calls[c] \in Handler
           /\ calls[c].phase \in InFlight \cup {"idle", "done"}
           /\ calls[c].attempt \in GwAttempts \cup {NoAttempt}
           /\ calls[c].len \in Nat /\ calls[c].cap \in Nat
           /\ calls[c].outcome \in OutcomeRow(Decided)
           /\ calls[c].outcome \in AnyOutcome
           /\ Most(c) \in OutcomeRow(Decided)
           /\ Most(c) \in AnyOutcome
<1>1. calls[c] \in Handler
    BY DEF GatewayTypeOK
<1>2. /\ calls[c].phase \in InFlight \cup {"idle", "done"}
      /\ calls[c].attempt \in GwAttempts \cup {NoAttempt}
      /\ calls[c].len \in Nat /\ calls[c].cap \in Nat
      /\ calls[c].outcome \in OutcomeRow(Decided)
    BY <1>1 DEF Handler
<1>3. \A o \in OutcomeRow(Decided) : o \in AnyOutcome
    BY DEF OutcomeRow, AnyOutcome
<1>4. Most(c) \in OutcomeRow(Decided)
    BY <1>2 DEF Most, Outcome, OutcomeRow, Decided
<1> QED BY <1>1, <1>2, <1>3, <1>4

\* Steps that write no row charge nothing.
LEMMA RowsUntouched ==
    ASSUME gwRows' = gwRows, NEW a
    PROVE  /\ RowsOf(a)' = RowsOf(a)
           /\ Resolved(a)' <=> Resolved(a)
           /\ ChargedTokens(a)' = ChargedTokens(a)
           /\ \A e : ChargedCost(a, e)' = ChargedCost(a, e)
           /\ Excused(a)' = Excused(a)
<1>1. RowsOf(a)' = RowsOf(a)
    BY DEF RowsOf
<1>2. \A c \in RowsOf(a) : Charged(c)' = Charged(c)
    BY DEF Charged
<1>3. Resolved(a)' <=> Resolved(a)
    BY <1>1 DEF Resolved
<1>4. Excused(a)' = Excused(a)
    BY <1>1 DEF Excused
<1> QED BY <1>1, <1>2, <1>3, <1>4, ChargedKept

\* What is compared with the limits depends on the call only.
LEMMA AssuredKept ==
    ASSUME NEW c, calls'[c] = calls[c]
    PROVE  CallTokens(Most(c))' = CallTokens(Most(c)) /\ Assured(c)' = Assured(c)
BY DEF Most, Outcome, CallTokens, Assured, RowCost, InputCost, CallCost, tokenCostMicros

\* Nothing the budget depends on changes.
LEMMA BudgetUntouched ==
    ASSUME GatewayTypeOK, BudgetInv, UNCHANGED <<calls, gwRows>>, gwUp' = gwUp
    PROVE  BudgetInv'
<1>1. Flying' = Flying /\ \A c : Most(c)' = Most(c)
    BY DEF Flying, Most, InFlight
<1>2. SlotsExclude'
    BY <1>1 DEF BudgetInv, SlotsExclude
<1>3. RowsFollowCalls' /\ UsageBounded'
    BY <1>1 DEF BudgetInv, RowsFollowCalls, UsageBounded
<1>4. CapsFit'
    <2>1. \A c : CallTokens(Most(c))' = CallTokens(Most(c)) /\ Assured(c)' = Assured(c)
        BY AssuredKept
    <2> QED BY <2>1, RowsUntouched DEF BudgetInv, CapsFit
<1>5. AttemptWithinBudget'
    BY RowsUntouched, WithinBudget, WithinBudgetNext DEF BudgetInv
<1> QED BY <1>2, <1>3, <1>4, <1>5 DEF BudgetInv

\* One call moves, and writes no row: it ends, or is served within what it was given.
LEMMA CallMoves ==
    ASSUME GatewayTypeOK, BudgetInv, NEW c \in Calls, NEW row \in Handler,
           calls' = [calls EXCEPT ![c] = row], UNCHANGED <<gwRows, gwUp>>,
           calls[c].phase \in InFlight,
           \/ row.phase = "done"
           \/ /\ calls[c].phase \in {"sending", "closing"}
              /\ row.phase \in {"sending", "closing"}
              /\ row.attempt = calls[c].attempt
              /\ row.len = calls[c].len
              /\ row.cap = calls[c].cap
              /\ row.attempt # NoAttempt =>
                    row.outcome.in <= row.len /\ row.outcome.out <= row.cap
    PROVE  BudgetInv'
<1>0. /\ calls'[c] = row
      /\ \A d \in Calls \ {c} : calls'[d] = calls[d]
    BY DEF GatewayTypeOK
<1>1. /\ row.phase \in InFlight => row.attempt = calls[c].attempt
      /\ "done" \notin InFlight
    BY DEF InFlight
<1>2. Flying' \subseteq Flying
    BY <1>0 DEF Flying, InFlight
<1>3. \A d \in Flying' : calls'[d].attempt = calls[d].attempt
    BY <1>0, <1>1 DEF Flying, InFlight
<1>4. SlotsExclude'
    BY <1>2, <1>3 DEF BudgetInv, SlotsExclude
<1>5. \A d \in Calls \ {c} : Most(d)' = Most(d)
    BY <1>0 DEF Most
<1>6. row.phase # "done" => Most(c)' = Most(c)
    BY <1>0 DEF Most
<1>7. RowsFollowCalls'
    <2>1. ASSUME NEW d \in Calls \ {c}
          PROVE /\ calls'[d].phase \in {"idle", "slotted", "capped"} =>
                     gwRows'[d].outcome.state = "none" /\ calls'[d].outcome = Unsettled
                /\ calls'[d].phase \in {"sending", "closing"} =>
                     /\ gwRows'[d].outcome.state = "STARTED"
                     /\ ~gwRows'[d].outcome.known
                     /\ gwRows'[d].attempt = calls'[d].attempt
                     /\ gwRows'[d].given = Most(d)'
        BY <1>0, <1>5 DEF BudgetInv, RowsFollowCalls
    <2>2. /\ calls'[c].phase \in {"idle", "slotted", "capped"} =>
                     gwRows'[c].outcome.state = "none" /\ calls'[c].outcome = Unsettled
          /\ calls'[c].phase \in {"sending", "closing"} =>
                     /\ gwRows'[c].outcome.state = "STARTED"
                     /\ ~gwRows'[c].outcome.known
                     /\ gwRows'[c].attempt = calls'[c].attempt
                     /\ gwRows'[c].given = Most(c)'
        BY <1>0, <1>6 DEF BudgetInv, RowsFollowCalls
    <2> QED BY <2>1, <2>2 DEF RowsFollowCalls, Unsettled, Outcome
<1>8. UsageBounded'
    BY <1>0 DEF BudgetInv, UsageBounded
<1>9. CapsFit'
    <2> SUFFICES ASSUME NEW d \in Calls, NEW a \in GwAttempts,
                        calls'[d].phase = "capped", calls'[d].attempt = a
                 PROVE  /\ Resolved(a)'
                        /\ ChargedTokens(a)' + CallTokens(Most(d))' <= MaxAttemptTokens
                        /\ ChargedCost(a, 0)' + Assured(d)' <= MaxAttemptCost
        BY DEF CapsFit
    <2>1. d # c
        BY <1>0
    <2>2. CallTokens(Most(d))' = CallTokens(Most(d)) /\ Assured(d)' = Assured(d)
        BY <1>0, <2>1, AssuredKept
    <2> QED BY <1>0, <2>1, <2>2, RowsUntouched DEF BudgetInv, CapsFit
<1>10. AttemptWithinBudget'
    BY RowsUntouched, WithinBudget, WithinBudgetNext DEF BudgetInv
<1> QED BY <1>4, <1>7, <1>8, <1>9, <1>10 DEF BudgetInv

\* A call is closed with an outcome that stays within what it was given.
LEMMA CallCloses ==
    ASSUME GatewayTypeOK, BudgetInv, NEW c \in Calls, NEW o \in OutcomeRow(Decided),
           calls[c].phase = "sending", calls' = Close(c, o), UNCHANGED <<gwRows, gwUp>>,
           calls[c].attempt # NoAttempt /\ o.known =>
               o.in <= calls[c].len /\ o.out <= calls[c].cap
    PROVE  calls' \in [Calls -> Handler] /\ BudgetInv'
<1> DEFINE p == IF o.known THEN o ELSE Outcome(o.state, FALSE, 0, 0)
           row == [calls[c] EXCEPT !.phase = "closing", !.outcome = p]
<1>1. calls[c] \in Handler /\ calls[c].len \in Nat /\ calls[c].cap \in Nat
    BY HandlersTyped
<1>2. p \in OutcomeRow(Decided)
    BY DEF OutcomeRow, Outcome
<1>3. calls[c].attempt # NoAttempt => p.in <= calls[c].len /\ p.out <= calls[c].cap
    BY <1>1 DEF OutcomeRow, Outcome
<1> HIDE DEF p
<1>4. row \in Handler
    BY <1>1, <1>2 DEF Handler, InFlight
<1>5. /\ row.phase = "closing" /\ row.attempt = calls[c].attempt /\ row.outcome = p
      /\ row.len = calls[c].len /\ row.cap = calls[c].cap
    BY <1>1 DEF Handler
<1>6. calls' = [calls EXCEPT ![c] = row]
    BY DEF Close, p
<1> HIDE DEF row
<1>7. calls' \in [Calls -> Handler]
    BY <1>4, <1>6 DEF GatewayTypeOK
<1>8. calls[c].phase \in InFlight
    BY DEF InFlight
<1> QED BY <1>3, <1>4, <1>5, <1>6, <1>7, <1>8, CallMoves

\* What the upstream may report.
LEMMA ReportsTyped ==
    ASSUME GatewayTypeOK, BudgetInv, NEW c \in Calls, calls[c].phase = "sending",
           NEW usage \in Reports(c)
    PROVE  /\ usage \in OutcomeRow(Decided)
           /\ calls[c].attempt # NoAttempt =>
                 usage.in <= calls[c].len /\ usage.out <= calls[c].cap
<1>1. calls[c].len \in Nat /\ calls[c].cap \in Nat
    BY HandlersTyped
<1>2. calls[c].attempt # NoAttempt => calls[c].cap >= 1
    BY DEF BudgetInv, UsageBounded
<1>3. CASE usage = Unsettled
    BY <1>1, <1>3 DEF Unsettled, Outcome, OutcomeRow, Decided
<1>4. ASSUME NEW out \in {1, calls[c].cap} \ {0}, usage = Outcome("UNKNOWN", TRUE, calls[c].len, out)
      PROVE  /\ usage \in OutcomeRow(Decided)
             /\ calls[c].attempt # NoAttempt =>
                   usage.in <= calls[c].len /\ usage.out <= calls[c].cap
    <2>1. out \in Nat
        BY <1>1
    <2>2. usage.in = calls[c].len /\ usage.out = out
        BY <1>4 DEF Outcome
    <2>3. usage \in OutcomeRow(Decided)
        BY <1>1, <1>4, <2>1 DEF Outcome, OutcomeRow, Decided
    <2>4. calls[c].attempt # NoAttempt => out <= calls[c].cap
        BY <1>1, <1>2
    <2> QED BY <1>1, <2>2, <2>3, <2>4
<1> QED BY <1>3, <1>4 DEF Reports

\* The outcome of a call under way stays within what it was given.
LEMMA OutcomeWithin ==
    ASSUME GatewayTypeOK, BudgetInv, NEW c \in Calls, calls[c].phase = "sending"
    PROVE  /\ calls[c].outcome \in OutcomeRow(Decided)
           /\ calls[c].attempt # NoAttempt =>
                 calls[c].outcome.in <= calls[c].len /\ calls[c].outcome.out <= calls[c].cap
BY HandlersTyped DEF BudgetInv, UsageBounded

LEMMA AnswerBudget ==
    ASSUME GatewayTypeOK, BudgetInv, NEW c \in Calls, NEW state \in Decided,
           NEW usage \in Reports(c), Answer(c, state, usage) \/ AnswerMessage(c, state, usage)
    PROVE  GatewayTypeOK' /\ BudgetInv'
<1> DEFINE o == [usage EXCEPT !.state = state]
<1>1. /\ calls[c].phase = "sending" /\ calls' = Close(c, o)
      /\ UNCHANGED <<gwRows, gwActive, gwUp, cliBlocked, cli>>
    BY DEF Answer, AnswerMessage
<1>2. /\ usage \in OutcomeRow(Decided)
      /\ calls[c].attempt # NoAttempt =>
            usage.in <= calls[c].len /\ usage.out <= calls[c].cap
    BY <1>1, ReportsTyped
<1>3. o \in OutcomeRow(Decided) /\ o.in = usage.in /\ o.out = usage.out
    BY <1>2 DEF OutcomeRow
<1> HIDE DEF o
<1>4. calls' \in [Calls -> Handler] /\ BudgetInv'
    BY <1>1, <1>2, <1>3, CallCloses
<1> QED BY <1>1, <1>4 DEF GatewayTypeOK

LEMMA EndBudget ==
    ASSUME GatewayTypeOK, BudgetInv, NEW c \in Calls,
           CancelCall(c) \/ \E clean \in BOOLEAN : EndStream(c, clean)
    PROVE  GatewayTypeOK' /\ BudgetInv'
<1>1. /\ calls[c].phase = "sending"
      /\ UNCHANGED <<gwRows, gwActive, gwUp, cliBlocked, cli>>
    BY DEF CancelCall, EndStream
<1>2. /\ calls[c].outcome \in OutcomeRow(Decided)
      /\ calls[c].attempt # NoAttempt =>
            calls[c].outcome.in <= calls[c].len /\ calls[c].outcome.out <= calls[c].cap
    BY <1>1, OutcomeWithin
<1> DEFINE o == calls[c].outcome
<1>3. PICK p : /\ calls' = Close(c, p)
               /\ \/ p = [o EXCEPT !.state = "UNKNOWN"]
                  \/ p = [o EXCEPT !.state = "UNKNOWN", !.known = FALSE]
                  \/ p = o
    BY DEF CancelCall, EndStream
<1>4. p \in OutcomeRow(Decided) /\ p.in = o.in /\ p.out = o.out
    BY <1>2, <1>3 DEF OutcomeRow, Decided
<1> HIDE DEF o
<1>5. calls' \in [Calls -> Handler] /\ BudgetInv'
    BY <1>1, <1>2, <1>3, <1>4, CallCloses DEF o
<1> QED BY <1>1, <1>5 DEF GatewayTypeOK

EventRow(c, e, p) == [calls[c] EXCEPT !.seen = calls[c].seen \cup {e}, !.outcome = p]

\* An event of a stream, by what it does to the outcome.
EventStep(c, e, usage) ==
    \E p : /\ calls' = [calls EXCEPT ![c] = EventRow(c, e, p)]
          /\ \/ p = [calls[c].outcome EXCEPT !.in = usage.in, !.out = usage.out]
             \/ p = [calls[c].outcome EXCEPT !.known = TRUE, !.state = "COMPLETE"]
             \/ p = [calls[c].outcome EXCEPT !.state = "FAILED"]
             \/ p = calls[c].outcome

LEMMA EventCases ==
    ASSUME NEW c \in Calls, NEW e \in {"start", "delta", "stop", "error"}, NEW usage,
           MessageEvent(c, e, usage)
    PROVE  EventStep(c, e, usage)
<1> DEFINE o == calls[c].outcome
           p == CASE e = "delta" -> [o EXCEPT !.in = usage.in, !.out = usage.out]
                  [] e = "stop"  -> [o EXCEPT !.known = TRUE, !.state = "COMPLETE"]
                  [] e = "error" -> [o EXCEPT !.state = "FAILED"]
                  [] OTHER -> o
<1>1. calls' = [calls EXCEPT ![c] = EventRow(c, e, p)]
    BY DEF MessageEvent, EventRow
<1>2. CASE e = "delta"
    <2>1. e # "stop" /\ e # "error"
        BY <1>2
    <2>2. p = [o EXCEPT !.in = usage.in, !.out = usage.out]
        BY <1>2, <2>1, Zenon
    <2> QED BY <1>1, <2>2 DEF EventStep
<1>3. CASE e = "stop"
    <2>1. e # "delta" /\ e # "error"
        BY <1>3
    <2>2. p = [o EXCEPT !.known = TRUE, !.state = "COMPLETE"]
        BY <1>3, <2>1, Zenon
    <2> QED BY <1>1, <2>2 DEF EventStep
<1>4. CASE e = "error"
    <2>1. e # "delta" /\ e # "stop"
        BY <1>4
    <2>2. p = [o EXCEPT !.state = "FAILED"]
        BY <1>4, <2>1, Zenon
    <2> QED BY <1>1, <2>2 DEF EventStep
<1>5. CASE e = "start"
    <2>1. e # "delta" /\ e # "stop" /\ e # "error"
        BY <1>5
    <2>2. p = o
        BY <2>1, Zenon
    <2> QED BY <1>1, <2>2 DEF EventStep
<1> QED BY <1>2, <1>3, <1>4, <1>5

LEMMA EventBudget ==
    ASSUME GatewayTypeOK, BudgetInv, NEW c \in Calls,
           NEW e \in {"start", "delta", "stop", "error"}, NEW usage \in Reports(c),
           MessageEvent(c, e, usage)
    PROVE  GatewayTypeOK' /\ BudgetInv'
<1> DEFINE o == calls[c].outcome
<1>1. /\ calls[c].phase = "sending"
      /\ UNCHANGED <<gwRows, gwActive, gwUp, cliBlocked, cli>>
    BY DEF MessageEvent
<1>2. /\ o \in OutcomeRow(Decided)
      /\ calls[c].attempt # NoAttempt => o.in <= calls[c].len /\ o.out <= calls[c].cap
    BY <1>1, OutcomeWithin
<1>3. /\ usage \in OutcomeRow(Decided)
      /\ calls[c].attempt # NoAttempt =>
            usage.in <= calls[c].len /\ usage.out <= calls[c].cap
    BY <1>1, ReportsTyped
<1>4. PICK p : /\ calls' = [calls EXCEPT ![c] = EventRow(c, e, p)]
               /\ \/ p = [o EXCEPT !.in = usage.in, !.out = usage.out]
                  \/ p = [o EXCEPT !.known = TRUE, !.state = "COMPLETE"]
                  \/ p = [o EXCEPT !.state = "FAILED"]
                  \/ p = o
    <2>1. EventStep(c, e, usage)
        BY EventCases
    <2> QED BY <2>1 DEF EventStep
<1>5. /\ p \in OutcomeRow(Decided)
      /\ \/ p.in = o.in /\ p.out = o.out
         \/ p.in = usage.in /\ p.out = usage.out
    BY <1>2, <1>3, <1>4 DEF OutcomeRow, Decided
<1> HIDE DEF o
<1> DEFINE row == EventRow(c, e, p)
<1>6. calls[c] \in Handler
    BY HandlersTyped
<1>7. row \in Handler
    BY <1>5, <1>6 DEF Handler, EventRow
<1>8. /\ row.phase = calls[c].phase /\ row.attempt = calls[c].attempt
      /\ row.len = calls[c].len /\ row.cap = calls[c].cap /\ row.outcome = p
    BY <1>6 DEF Handler, EventRow
<1>9. calls' = [calls EXCEPT ![c] = row]
    BY <1>4
<1> HIDE DEF row
<1>10. calls' \in [Calls -> Handler]
    BY <1>7, <1>9 DEF GatewayTypeOK
<1>11. calls[c].phase \in InFlight
    BY <1>1 DEF InFlight
<1>12. row.attempt # NoAttempt => row.outcome.in <= row.len /\ row.outcome.out <= row.cap
    BY <1>2, <1>3, <1>5, <1>8
<1>13. BudgetInv'
    BY <1>1, <1>7, <1>8, <1>9, <1>11, <1>12, CallMoves
<1> QED BY <1>1, <1>10, <1>13 DEF GatewayTypeOK

LEMMA LeaveBudget ==
    ASSUME GatewayTypeOK, BudgetInv, NEW c \in Calls, RefuseCall(c) \/ FreeSlots(c)
    PROVE  GatewayTypeOK' /\ BudgetInv'
<1>1. /\ calls[c].phase \in InFlight
      /\ UNCHANGED <<gwRows, gwActive, gwUp, cliBlocked, cli>>
    BY DEF RefuseCall, FreeSlots, InFlight
<1>2. calls[c] \in Handler
    BY HandlersTyped
<1>3. Idle \in Handler
    BY DEF Idle, Handler, Kinds, Unsettled, Outcome, OutcomeRow, Decided
<1>4. PICK row : /\ calls' = [calls EXCEPT ![c] = row]
                 /\ \/ row = [calls[c] EXCEPT !.phase = "done"]
                    \/ row = [Idle EXCEPT !.phase = "done"]
    BY DEF RefuseCall, FreeSlots
<1>5. \A x \in Handler : /\ [x EXCEPT !.phase = "done"] \in Handler
                         /\ [x EXCEPT !.phase = "done"].phase = "done"
    BY DEF Handler
<1>6. row \in Handler /\ row.phase = "done"
    BY <1>2, <1>3, <1>4, <1>5
<1>7. calls' \in [Calls -> Handler]
    BY <1>4, <1>6 DEF GatewayTypeOK
<1>8. BudgetInv'
    BY <1>1, <1>4, <1>6, CallMoves
<1> QED BY <1>1, <1>7, <1>8 DEF GatewayTypeOK

\* A call that takes its slots finds the slot of its Attempt free.
LEMMA TakeBudget ==
    ASSUME GatewayTypeOK, BudgetInv, NEW c \in Calls,
           NEW kind \in {"responses", "messages", "cli"}, NEW a \in GwAttempts \cup {NoAttempt},
           TakeSlots(c, kind, a)
    PROVE  GatewayTypeOK' /\ BudgetInv'
<1> DEFINE row == [calls[c] EXCEPT !.phase = "slotted", !.kind = kind, !.attempt = a]
<1>1. /\ gwUp /\ calls[c].phase = "idle" /\ AttemptSlotFree(a)
      /\ UNCHANGED <<gwRows, gwActive, gwUp, cliBlocked, cli>>
    BY DEF TakeSlots
<1>2. calls[c] \in Handler
    BY HandlersTyped
<1>3. row \in Handler
    BY <1>2 DEF Handler, InFlight, Kinds
<1>4. row.phase = "slotted" /\ row.attempt = a /\ row.outcome = calls[c].outcome
    BY <1>2 DEF Handler
<1>5. calls' = [calls EXCEPT ![c] = row]
    BY DEF TakeSlots
<1> HIDE DEF row
<1>6. calls' \in [Calls -> Handler] /\ calls'[c] = row
      /\ \A d \in Calls \ {c} : calls'[d] = calls[d]
    BY <1>3, <1>5 DEF GatewayTypeOK
<1>7. Flying' = Flying \cup {c} /\ c \notin Flying
    BY <1>1, <1>4, <1>6 DEF Flying, InFlight
<1>8. SlotsExclude'
    <2>1. \A d \in Flying : d \in Calls \ {c}
        BY <1>7 DEF Flying
    <2>2. \A d \in Flying : a # NoAttempt => calls[d].attempt # a
        BY <1>1 DEF AttemptSlotFree
    <2> QED BY <1>1, <1>4, <1>6, <1>7, <2>1, <2>2 DEF BudgetInv, SlotsExclude
<1>9. \A d \in Calls \ {c} : Most(d)' = Most(d)
    BY <1>6 DEF Most
<1>10. RowsFollowCalls'
    <2>1. Unsettled' = Unsettled
        BY DEF Unsettled, Outcome
    <2> QED BY <1>1, <1>4, <1>6, <1>9, <2>1 DEF BudgetInv, RowsFollowCalls
<1>11. UsageBounded'
    BY <1>1, <1>4, <1>6 DEF BudgetInv, UsageBounded
<1>12. CapsFit'
    <2>1. \A d \in Calls \ {c} : CallTokens(Most(d))' = CallTokens(Most(d))
                              /\ CallCost(Most(d))' = CallCost(Most(d))
        BY <1>9 DEF CallTokens, CallCost, tokenCostMicros
    <2>2. \A d \in Calls \ {c} : Assured(d)' = Assured(d)
        BY <1>6, <1>9 DEF Assured, RowCost, CallCost, InputCost, tokenCostMicros
    <2> QED BY <1>1, <1>4, <1>6, <2>1, <2>2, RowsUntouched DEF BudgetInv, CapsFit
<1>13. AttemptWithinBudget'
    BY <1>1, RowsUntouched, WithinBudget, WithinBudgetNext DEF BudgetInv
<1> QED BY <1>1, <1>6, <1>8, <1>10, <1>11, <1>12, <1>13 DEF BudgetInv, GatewayTypeOK

\* The cap of a call is what its Attempt has left.
LEMMA CapBudget ==
    ASSUME GatewayTypeOK, BudgetInv, NEW c \in Calls, NEW len \in BodyLengths,
           NEW want \in Wanted, NEW grown \in Growth, CapCall(c, len, want, grown)
    PROVE  GatewayTypeOK' /\ BudgetInv'
<1> DEFINE a == calls[c].attempt
           left == remainingAttemptBudget(a)
           cap == SentCap(calls[c].kind, len, want, grown, left)
           fits == OutputCap(len, want, grown, left) >= 1
<1>0. /\ len \in Nat /\ want \in Nat /\ grown \in Nat
      /\ MaxAttemptTokens \in Nat /\ MaxAttemptCost \in Nat /\ NoAttempt \notin GwAttempts
    BY GatewayConstants
<1>1. /\ calls[c].phase = "slotted"
      /\ UNCHANGED <<gwRows, gwActive, gwUp, cliBlocked, cli>>
    BY DEF CapCall
<1>2. calls[c] \in Handler /\ a \in GwAttempts \cup {NoAttempt}
    BY HandlersTyped
<1>3. PICK row : /\ calls' = [calls EXCEPT ![c] = row]
                 /\ \/ /\ a = NoAttempt
                       /\ row = [calls[c] EXCEPT !.phase = "capped"]
                    \/ /\ a # NoAttempt /\ Resolved(a) /\ fits
                       /\ row = [calls[c] EXCEPT !.phase = "capped", !.len = len, !.cap = cap]
    <2>1. CASE a = NoAttempt
        BY <2>1 DEF CapCall
    <2>2. CASE a # NoAttempt
        <3>1. /\ calls' = [calls EXCEPT ![c] =
                              [calls[c] EXCEPT !.phase = "capped", !.len = len, !.cap = cap]]
              /\ Resolved(a) /\ fits
            BY <2>2 DEF CapCall
        <3> HIDE DEF cap, fits
        <3> QED BY <2>2, <3>1
    <2> QED BY <2>1, <2>2
<1>4. a # NoAttempt =>
        /\ cap \in Nat /\ cap >= 1
        /\ ChargedTokens(a) + len + cap <= MaxAttemptTokens
        /\ ChargedCost(a, 0) + tokenCostMicros(len, InputPrice) <= MaxAttemptCost
        /\ calls[c].kind # "responses" =>
              ChargedCost(a, 0) + tokenCostMicros(len, InputPrice)
                + tokenCostMicros(cap, OutputPrice) <= MaxAttemptCost
    <2> SUFFICES ASSUME a # NoAttempt
                 PROVE  /\ cap \in Nat /\ cap >= 1
                        /\ ChargedTokens(a) + len + cap <= MaxAttemptTokens
                        /\ ChargedCost(a, 0) + tokenCostMicros(len, InputPrice)
                             <= MaxAttemptCost
                        /\ calls[c].kind # "responses" =>
                              ChargedCost(a, 0) + tokenCostMicros(len, InputPrice)
                                + tokenCostMicros(cap, OutputPrice) <= MaxAttemptCost
        OBVIOUS
    <2>1. Resolved(a) /\ fits
        BY <1>3
    <2>2. ChargedTokens(a) \in Nat /\ ChargedCost(a, 0) \in Nat
        BY ChargedTyped
    <2>3. left.tokens = MaxAttemptTokens - ChargedTokens(a)
          /\ left.cost = MaxAttemptCost - ChargedCost(a, 0)
        BY <2>1, UsedIsCharged DEF remainingAttemptBudget
    <2>4. left.tokens \in Int /\ left.cost \in Int
        BY <1>0, <2>2, <2>3
    <2> HIDE DEF left
    <2>5. /\ cap \in Nat /\ cap >= 1
          /\ len + cap <= left.tokens
          /\ tokenCostMicros(len, InputPrice) <= left.cost
          /\ calls[c].kind # "responses" =>
                tokenCostMicros(len, InputPrice) + tokenCostMicros(cap, OutputPrice) <= left.cost
        BY <1>0, <2>1, <2>4, CapFits
    <2>6. tokenCostMicros(len, InputPrice) \in Nat /\ tokenCostMicros(cap, OutputPrice) \in Nat
        BY <1>0, <2>5, CostTyped, GatewayConstants
    <2> HIDE DEF cap, fits
    <2> QED BY <1>0, <2>2, <2>3, <2>5, <2>6
<1> HIDE DEF cap, fits, left
<1>5. row \in Handler
    BY <1>0, <1>2, <1>3, <1>4 DEF Handler, InFlight
<1>6. /\ row.phase = "capped" /\ row.attempt = a /\ row.outcome = calls[c].outcome
      /\ row.kind = calls[c].kind
      /\ a # NoAttempt => row.len = len /\ row.cap = cap /\ cap >= 1
    BY <1>2, <1>3, <1>4 DEF Handler
<1>7. calls' \in [Calls -> Handler] /\ calls'[c] = row
      /\ \A d \in Calls \ {c} : calls'[d] = calls[d]
    BY <1>3, <1>5 DEF GatewayTypeOK
<1>8. Flying' = Flying /\ \A d \in Flying : calls'[d].attempt = calls[d].attempt
    BY <1>1, <1>6, <1>7 DEF Flying, InFlight
<1>9. SlotsExclude'
    BY <1>1, <1>8 DEF BudgetInv, SlotsExclude
<1>10. \A d \in Calls \ {c} : Most(d)' = Most(d)
    BY <1>7 DEF Most
<1>11. RowsFollowCalls'
    <2>1. Unsettled' = Unsettled
        BY DEF Unsettled, Outcome
    <2> QED BY <1>1, <1>6, <1>7, <1>10, <2>1 DEF BudgetInv, RowsFollowCalls
<1>12. UsageBounded'
    <2>1. calls[c].outcome = Unsettled
        BY <1>1 DEF BudgetInv, RowsFollowCalls
    <2>2. Unsettled.in = 0 /\ Unsettled.out = 0
        BY DEF Unsettled, Outcome
    <2>3. a # NoAttempt => row.cap >= 1 /\ row.outcome.in <= row.len /\ row.outcome.out <= row.cap
        BY <1>0, <1>4, <1>6, <2>1, <2>2
    <2> QED BY <1>1, <1>6, <1>7, <2>3 DEF BudgetInv, UsageBounded
<1>13. CapsFit'
    <2>1. \A d \in Calls \ {c} : CallTokens(Most(d))' = CallTokens(Most(d))
                              /\ Assured(d)' = Assured(d)
        BY <1>7, AssuredKept
    <2>2. ASSUME NEW d \in Calls \ {c}, NEW b \in GwAttempts,
                 calls'[d].phase = "capped", calls'[d].attempt = b
          PROVE  /\ Resolved(b)'
                 /\ ChargedTokens(b)' + CallTokens(Most(d))' <= MaxAttemptTokens
                 /\ ChargedCost(b, 0)' + Assured(d)' <= MaxAttemptCost
        BY <1>1, <1>7, <2>1, <2>2, RowsUntouched DEF BudgetInv, CapsFit
    <2>3. ASSUME NEW b \in GwAttempts, a = b
          PROVE  /\ Resolved(b)'
                 /\ ChargedTokens(b)' + CallTokens(Most(c))' <= MaxAttemptTokens
                 /\ ChargedCost(b, 0)' + Assured(c)' <= MaxAttemptCost
        <3>1. a # NoAttempt
            BY <1>0, <2>3
        <3>2. Most(c)' = Outcome("UNKNOWN", TRUE, len, cap)
            BY <1>6, <1>7, <3>1 DEF Most, Outcome
        <3>3. /\ CallTokens(Most(c))' = len + cap
              /\ Assured(c)' = IF calls[c].kind = "responses" THEN tokenCostMicros(len, InputPrice)
                    ELSE tokenCostMicros(len, InputPrice) + tokenCostMicros(cap, OutputPrice)
            BY <1>6, <1>7, <3>2 DEF CallTokens, Assured, RowCost, InputCost, CallCost, Outcome,
                                    tokenCostMicros
        <3>4. tokenCostMicros(len, InputPrice) \in Nat /\ tokenCostMicros(cap, OutputPrice) \in Nat
            BY <1>0, <1>4, <3>1, CostTyped, GatewayConstants
        <3>5. ChargedTokens(a) \in Nat /\ ChargedCost(a, 0) \in Nat
            BY ChargedTyped
        <3>6. /\ ChargedTokens(a) + (len + cap) <= MaxAttemptTokens
              /\ ChargedCost(a, 0) + tokenCostMicros(len, InputPrice) <= MaxAttemptCost
              /\ calls[c].kind # "responses" =>
                    ChargedCost(a, 0) + (tokenCostMicros(len, InputPrice)
                                            + tokenCostMicros(cap, OutputPrice)) <= MaxAttemptCost
            BY <1>0, <1>4, <3>1, <3>4, <3>5
        <3>7. Resolved(b)' /\ ChargedTokens(b)' = ChargedTokens(b)
              /\ ChargedCost(b, 0)' = ChargedCost(b, 0)
            BY <1>1, <1>3, <2>3, <3>1, RowsUntouched
        <3> QED BY <2>3, <3>3, <3>6, <3>7
    <2> QED BY <1>6, <1>7, <2>2, <2>3 DEF CapsFit
<1>14. AttemptWithinBudget'
    BY <1>1, RowsUntouched, WithinBudget, WithinBudgetNext DEF BudgetInv
<1> QED BY <1>1, <1>7, <1>9, <1>11, <1>12, <1>13, <1>14 DEF BudgetInv, GatewayTypeOK

\* A row that is not one of the Attempt's changes nothing for it.
LEMMA RowsElsewhere ==
    ASSUME NEW c \in Calls, NEW b, \A d \in Calls \ {c} : gwRows'[d] = gwRows[d],
           c \notin RowsOf(b), c \notin RowsOf(b)'
    PROVE  /\ RowsOf(b)' = RowsOf(b)
           /\ Resolved(b)' <=> Resolved(b)
           /\ ChargedTokens(b)' = ChargedTokens(b)
           /\ \A e : ChargedCost(b, e)' = ChargedCost(b, e)
           /\ Excused(b)' = Excused(b)
<1>1. RowsOf(b)' = RowsOf(b)
    BY DEF RowsOf, Calls
<1>2. \A d \in RowsOf(b) : gwRows'[d] = gwRows[d]
    BY DEF RowsOf
<1>3. \A d \in RowsOf(b) : Charged(d)' = Charged(d)
    BY <1>2 DEF Charged
<1>4. Resolved(b)' <=> Resolved(b)
    BY <1>1, <1>2 DEF Resolved
<1>5. Excused(b)' = Excused(b)
    BY <1>1, <1>2 DEF Excused
<1> QED BY <1>1, <1>3, <1>4, <1>5, ChargedKept

\* A row more charges all that its call was given.
LEMMA RowAdded ==
    ASSUME GatewayTypeOK, GatewayTypeOK', NEW c \in Calls, NEW b,
           RowsOf(b)' = RowsOf(b) \cup {c}, c \notin RowsOf(b),
           \A d \in RowsOf(b) : gwRows'[d] = gwRows[d], NEW o, Charged(c)' = o,
           NEW e
    PROVE  /\ ChargedTokens(b)' = ChargedTokens(b) + CallTokens(o)
           /\ ChargedCost(b, e)' = ChargedCost(b, e) + RowCost(o, c = e)
<1> DEFINE R == RowsOf(b)
           f == [d \in R |-> CallTokens(Charged(d))]
           g == [d \in R |-> RowCost(Charged(d), d = e)]
           tokens == [d \in R \cup {c} |-> CallTokens(Charged(d))']
           costs == [d \in R \cup {c} |-> RowCost(Charged(d), d = e)']
<1>1. IsFiniteSet(R)
    BY RowsFinite
<1>2. \A d \in R : Charged(d)' = Charged(d)
    BY DEF Charged
<1>3. \A d \in R \cup {c} : CallTokens(Charged(d))' \in Nat /\ RowCost(Charged(d), d = e)' \in Nat
    <2>1. R \cup {c} \subseteq Calls
        BY RowsFinite
    <2>2. ASSUME NEW d \in Calls PROVE Charged(d)' \in AnyOutcome
        <3>1. gwRows'[d] \in GatewayRow
            BY DEF GatewayTypeOK
        <3>2. /\ gwRows'[d].outcome \in AnyOutcome
              /\ gwRows'[d].given \in OutcomeRow(Decided)
            BY <3>1 DEF GatewayRow, AnyOutcome
        <3>3. gwRows'[d].given \in AnyOutcome
            BY <3>2 DEF AnyOutcome, OutcomeRow
        <3> QED BY <3>2, <3>3 DEF Charged
    <2>3. \A d \in Calls : CallTokens(Charged(d)') \in Nat /\ RowCost(Charged(d)', d = e) \in Nat
        BY <2>2, OutcomeValues
    <2> QED BY <2>1, <2>3, CostOfFigures
<1>4. tokens \in [R \cup {c} -> Nat] /\ costs \in [R \cup {c} -> Nat]
    BY <1>3
<1>5. [d \in R |-> tokens[d]] = f /\ [d \in R |-> costs[d]] = g
    <2>1. \A d \in R : /\ CallTokens(Charged(d))' = CallTokens(Charged(d))
                       /\ RowCost(Charged(d), d = e)' = RowCost(Charged(d), d = e)
        BY <1>2, CostOfFigures
    <2>2. \A d \in R : tokens[d] = CallTokens(Charged(d))' /\ costs[d] = RowCost(Charged(d), d = e)'
        OBVIOUS
    <2> QED BY <2>1, <2>2
<1>6. tokens[c] = CallTokens(o) /\ costs[c] = RowCost(o, c = e)
    <2>1. CallTokens(Charged(c))' = CallTokens(o) /\ RowCost(Charged(c), c = e)' = RowCost(o, c = e)
        BY CostOfFigures
    <2>2. tokens[c] = CallTokens(Charged(c))' /\ costs[c] = RowCost(Charged(c), c = e)'
        OBVIOUS
    <2> QED BY <2>1, <2>2
<1>7. ChargedTokens(b)' = Total(tokens) /\ ChargedCost(b, e)' = Total(costs)
    BY DEF ChargedTokens, ChargedCost
<1>8. ChargedTokens(b) = Total(f) /\ ChargedCost(b, e) = Total(g)
    BY DEF ChargedTokens, ChargedCost
<1> HIDE DEF R, f, g, tokens, costs
<1>9. /\ Total(tokens) = Total([d \in R |-> tokens[d]]) + tokens[c]
      /\ Total(costs) = Total([d \in R |-> costs[d]]) + costs[c]
    BY <1>1, <1>4, TotalExtend DEF R
<1> QED BY <1>5, <1>6, <1>7, <1>8, <1>9

\* The row of a call charges all that the call was given; it fits.
LEMMA StartBudget ==
    ASSUME GatewayTypeOK, BudgetInv, NEW c \in Calls, StartCall(c)
    PROVE  GatewayTypeOK' /\ BudgetInv'
<1> DEFINE a == calls[c].attempt
           h == [calls[c] EXCEPT !.phase = "sending"]
           row == [attempt |-> a, kind |-> calls[c].kind,
                   outcome |-> [Unsettled EXCEPT !.state = "STARTED"], given |-> Most(c)]
<1>1. /\ calls[c].phase = "capped"
      /\ UNCHANGED <<gwActive, gwUp, cliBlocked, cli>>
      /\ calls' = [calls EXCEPT ![c] = h]
      /\ gwRows' = [gwRows EXCEPT ![c] = row]
    BY DEF StartCall, Most
<1>2. /\ calls[c] \in Handler /\ a \in GwAttempts \cup {NoAttempt}
      /\ Most(c) \in OutcomeRow(Decided)
    BY HandlersTyped
<1>3. h \in Handler /\ h.phase = "sending" /\ h.attempt = a /\ h.len = calls[c].len
      /\ h.cap = calls[c].cap /\ h.outcome = calls[c].outcome
    BY <1>2 DEF Handler, InFlight
<1>4. /\ row \in GatewayRow /\ row.attempt = a /\ row.given = Most(c)
      /\ row.kind = calls[c].kind
      /\ row.outcome.state = "STARTED" /\ row.outcome.known = FALSE
    BY <1>2 DEF GatewayRow, Handler, Unsettled, Outcome, OutcomeRow
<1> HIDE DEF h, row
<1>5. /\ calls' \in [Calls -> Handler] /\ calls'[c] = h
      /\ \A d \in Calls \ {c} : calls'[d] = calls[d]
      /\ gwRows' \in [Calls -> GatewayRow] /\ gwRows'[c] = row
      /\ \A d \in Calls \ {c} : gwRows'[d] = gwRows[d]
    BY <1>1, <1>3, <1>4 DEF GatewayTypeOK
<1>6. GatewayTypeOK'
    BY <1>1, <1>5 DEF GatewayTypeOK
<1>7. Flying' = Flying /\ c \in Flying
      /\ \A d \in Flying : calls'[d].attempt = calls[d].attempt
    BY <1>1, <1>3, <1>5 DEF Flying, InFlight
<1>8. SlotsExclude'
    BY <1>1, <1>7 DEF BudgetInv, SlotsExclude
<1>9. \A d \in Calls : Most(d)' = Most(d)
    BY <1>3, <1>5 DEF Most
<1>10. gwRows[c].outcome.state = "none" /\ calls[c].outcome = Unsettled
    BY <1>1 DEF BudgetInv, RowsFollowCalls
<1>11. RowsFollowCalls'
    <2>1. Unsettled' = Unsettled
        BY DEF Unsettled, Outcome
    <2> QED BY <1>3, <1>4, <1>5, <1>9, <2>1 DEF BudgetInv, RowsFollowCalls
<1>12. UsageBounded'
    BY <1>1, <1>3, <1>4, <1>5 DEF BudgetInv, UsageBounded
<1>13. \A b : c \notin RowsOf(b)
    BY <1>10 DEF RowsOf
<1>14. \A b : b # a => c \notin RowsOf(b)'
    BY <1>4, <1>5 DEF RowsOf
<1>15. \A b : b # a => /\ Resolved(b)' <=> Resolved(b)
                       /\ ChargedTokens(b)' = ChargedTokens(b)
                       /\ \A e : ChargedCost(b, e)' = ChargedCost(b, e)
                       /\ Excused(b)' = Excused(b)
    BY <1>5, <1>13, <1>14, RowsElsewhere
<1>16. \A d \in Calls \ {c} : CallTokens(Most(d))' = CallTokens(Most(d))
                           /\ Assured(d)' = Assured(d)
    BY <1>5, AssuredKept
<1>17. CapsFit'
    <2> SUFFICES ASSUME NEW d \in Calls, NEW b \in GwAttempts,
                        calls'[d].phase = "capped", calls'[d].attempt = b
                 PROVE  /\ Resolved(b)'
                        /\ ChargedTokens(b)' + CallTokens(Most(d))' <= MaxAttemptTokens
                        /\ ChargedCost(b, 0)' + Assured(d)' <= MaxAttemptCost
        BY DEF CapsFit
    <2>1. d # c /\ calls'[d] = calls[d]
        BY <1>3, <1>5
    <2>2. d \in Flying
        BY <2>1 DEF Flying, InFlight
    <2>3. b # a
        BY <1>7, <2>1, <2>2, GatewayConstants DEF BudgetInv, SlotsExclude
    <2> QED BY <1>15, <1>16, <2>1, <2>3 DEF BudgetInv, CapsFit
<1>18. AttemptWithinBudget'
    <2>1. ASSUME NEW b \in GwAttempts
          PROVE  /\ ChargedTokens(b)' <= MaxAttemptTokens
                 /\ \E e \in Excused(b)' : ChargedCost(b, e)' <= MaxAttemptCost
        <3>1. CASE b # a
            BY <1>15, <3>1, WithinBudget DEF BudgetInv
        <3>2. CASE b = a
            <4>1. RowsOf(b)' = RowsOf(b) \cup {c}
                BY <1>4, <1>5, <3>2 DEF RowsOf, Calls
            <4>2. \A d \in RowsOf(b) : gwRows'[d] = gwRows[d]
                BY <1>5, <1>13 DEF RowsOf
            <4>3. Charged(c)' = Most(c)
                BY <1>4, <1>5 DEF Charged
            <4>4. /\ ChargedTokens(b)' = ChargedTokens(b) + CallTokens(Most(c))
                  /\ \A e : ChargedCost(b, e)' = ChargedCost(b, e) + RowCost(Most(c), c = e)
                BY <1>6, <1>13, <4>1, <4>2, <4>3, RowAdded
            <4>5. /\ ChargedTokens(b) + CallTokens(Most(c)) <= MaxAttemptTokens
                  /\ ChargedCost(b, 0) + Assured(c) <= MaxAttemptCost
                BY <1>1, <3>2 DEF BudgetInv, CapsFit
            <4>6. c # 0 /\ ChargedCost(b, c) = ChargedCost(b, 0)
                <5>1. \A d \in RowsOf(b) : d # c /\ d # 0
                    BY <1>13, GatewayConstants DEF RowsOf, Calls
                <5>2. [d \in RowsOf(b) |-> RowCost(Charged(d), d = c)] =
                         [d \in RowsOf(b) |-> RowCost(Charged(d), d = 0)]
                    BY <5>1
                <5> QED BY <5>2, GatewayConstants DEF ChargedCost, Calls
            <4>7. CASE calls[c].kind = "responses"
                <5>1. c \in Excused(b)'
                    BY <1>4, <1>5, <4>1, <4>7 DEF Excused
                <5>2. RowCost(Most(c), c = c) = Assured(c)
                    BY <4>7 DEF Assured, RowCost
                <5> QED BY <4>4, <4>5, <4>6, <5>1, <5>2
            <4>8. CASE calls[c].kind # "responses"
                <5>1. 0 \in Excused(b)'
                    BY DEF Excused
                <5>2. RowCost(Most(c), c = 0) = Assured(c)
                    BY <4>6, <4>8 DEF Assured, RowCost
                <5> QED BY <4>4, <4>5, <5>1, <5>2
            <4> QED BY <4>7, <4>8
        <3> QED BY <3>1, <3>2
    <2> QED BY <2>1, WithinBudgetNext
<1> QED BY <1>6, <1>8, <1>11, <1>12, <1>17, <1>18 DEF BudgetInv

\* What is charged does not grow if each row charges no more than before.
LEMMA ChargedLess ==
    ASSUME GatewayTypeOK, NEW b, NEW e, RowsOf(b)' = RowsOf(b),
           \A d \in RowsOf(b) : /\ Charged(d)' \in AnyOutcome
                                /\ Charged(d)'.in <= Charged(d).in
                                /\ Charged(d)'.out <= Charged(d).out
    PROVE  /\ ChargedTokens(b)' \in Nat /\ ChargedCost(b, e)' \in Nat
           /\ ChargedTokens(b)' <= ChargedTokens(b)
           /\ ChargedCost(b, e)' <= ChargedCost(b, e)
<1> DEFINE R == RowsOf(b)
           f == [d \in R |-> CallTokens(Charged(d))]
           g == [d \in R |-> RowCost(Charged(d), d = e)]
           tokens == [d \in R |-> CallTokens(Charged(d))']
           costs == [d \in R |-> RowCost(Charged(d), d = e)']
<1>1. IsFiniteSet(R)
    BY RowsFinite
<1>2. f \in [R -> Nat] /\ g \in [R -> Nat]
    BY ChargedTyped
<1>3. ASSUME NEW d \in R
      PROVE  /\ CallTokens(Charged(d))' \in Nat /\ RowCost(Charged(d), d = e)' \in Nat
             /\ CallTokens(Charged(d))' <= CallTokens(Charged(d))
             /\ RowCost(Charged(d), d = e)' <= RowCost(Charged(d), d = e)
    <2>1. Charged(d) \in AnyOutcome
        BY RowsFinite, RowsTyped
    <2>2. /\ CallTokens(Charged(d)') \in Nat /\ RowCost(Charged(d)', d = e) \in Nat
          /\ CallTokens(Charged(d)') <= CallTokens(Charged(d))
          /\ RowCost(Charged(d)', d = e) <= RowCost(Charged(d), d = e)
        BY <2>1, OutcomeValues, OutcomeMonotone
    <2> QED BY <2>2, CostOfFigures
<1>4. tokens \in [R -> Nat] /\ costs \in [R -> Nat]
    BY <1>3
<1>5. \A d \in R : tokens[d] <= f[d] /\ costs[d] <= g[d]
    <2>1. \A d \in R : /\ tokens[d] = CallTokens(Charged(d))' /\ costs[d] = RowCost(Charged(d), d = e)'
                       /\ f[d] = CallTokens(Charged(d)) /\ g[d] = RowCost(Charged(d), d = e)
        OBVIOUS
    <2> QED BY <1>3, <2>1
<1>6. ChargedTokens(b)' = Total(tokens) /\ ChargedCost(b, e)' = Total(costs)
    BY DEF ChargedTokens, ChargedCost
<1>7. ChargedTokens(b) = Total(f) /\ ChargedCost(b, e) = Total(g)
    BY DEF ChargedTokens, ChargedCost
<1> HIDE DEF R, f, g, tokens, costs
<1> QED BY <1>1, <1>2, <1>4, <1>5, <1>6, <1>7, TotalIsNat, TotalMonotone

\* The usage a call reported replaces what the row was charged before.
LEMMA RecordBudget ==
    ASSUME GatewayTypeOK, BudgetInv, NEW c \in Calls, NEW written \in BOOLEAN,
           RecordCall(c, written)
    PROVE  GatewayTypeOK' /\ BudgetInv'
<1> DEFINE h == [calls[c] EXCEPT !.phase = "recorded"]
           o == calls[c].outcome
           row == IF gwRows' = gwRows THEN gwRows[c] ELSE [gwRows[c] EXCEPT !.outcome = o]
<1>1. /\ calls[c].phase = "closing"
      /\ UNCHANGED <<gwActive, gwUp, cliBlocked, cli>>
      /\ calls' = [calls EXCEPT ![c] = h]
      /\ \/ gwRows' = gwRows
         \/ gwRows' = [gwRows EXCEPT ![c] = [gwRows[c] EXCEPT !.outcome = o]]
    BY DEF RecordCall
<1>2. calls[c] \in Handler /\ o \in OutcomeRow(Decided) /\ o \in AnyOutcome
    BY HandlersTyped
<1>3. h \in Handler /\ h.phase = "recorded" /\ h.attempt = calls[c].attempt
    BY <1>2 DEF Handler, InFlight
<1>4. gwRows[c] \in GatewayRow /\ gwRows[c].outcome \in AnyOutcome
      /\ gwRows[c].given \in AnyOutcome
    BY RowsTyped
<1>5. [gwRows[c] EXCEPT !.outcome = o] \in GatewayRow
    <2>1. o \in OutcomeRow(Decided \cup {"none", "STARTED"})
        BY <1>2 DEF AnyOutcome
    <2> QED BY <1>4, <2>1 DEF GatewayRow
<1>6. /\ row \in GatewayRow
      /\ row.attempt = gwRows[c].attempt /\ row.given = gwRows[c].given
      /\ row.kind = gwRows[c].kind
      /\ row.outcome = gwRows[c].outcome \/ row.outcome = o
    BY <1>4, <1>5 DEF GatewayRow
<1>7. gwRows \in [Calls -> GatewayRow]
    BY DEF GatewayTypeOK
<1> HIDE DEF h
<1>8. /\ gwRows' \in [Calls -> GatewayRow] /\ gwRows'[c] = row
      /\ \A d \in Calls \ {c} : gwRows'[d] = gwRows[d]
    <2>1. CASE gwRows' = gwRows
        BY <1>7, <2>1
    <2>2. CASE gwRows' # gwRows
        <3>1. gwRows' = [gwRows EXCEPT ![c] = [gwRows[c] EXCEPT !.outcome = o]]
            BY <1>1, <2>2
        <3>2. row = [gwRows[c] EXCEPT !.outcome = o]
            BY <2>2
        <3> QED BY <1>5, <1>7, <3>1, <3>2
    <2> QED BY <2>1, <2>2
<1> HIDE DEF row
<1>9. /\ calls' \in [Calls -> Handler] /\ calls'[c] = h
      /\ \A d \in Calls \ {c} : calls'[d] = calls[d]
    BY <1>1, <1>3 DEF GatewayTypeOK
<1>10. GatewayTypeOK'
    BY <1>1, <1>8, <1>9 DEF GatewayTypeOK
<1>11. Flying' = Flying /\ c \in Flying
       /\ \A d \in Flying : calls'[d].attempt = calls[d].attempt
    BY <1>1, <1>3, <1>9 DEF Flying, InFlight
<1>12. SlotsExclude'
    BY <1>1, <1>11 DEF BudgetInv, SlotsExclude
<1>13. /\ gwRows[c].outcome.state = "STARTED" /\ ~gwRows[c].outcome.known
       /\ gwRows[c].attempt = calls[c].attempt /\ gwRows[c].given = Most(c)
    BY <1>1 DEF BudgetInv, RowsFollowCalls
<1>14. RowsFollowCalls'
    <2>1. Unsettled' = Unsettled /\ \A d \in Calls \ {c} : Most(d)' = Most(d)
        BY <1>9 DEF Unsettled, Outcome, Most
    <2> QED BY <1>3, <1>8, <1>9, <2>1 DEF BudgetInv, RowsFollowCalls
<1>15. gwRows[c].attempt # NoAttempt =>
         o.in <= gwRows[c].given.in /\ o.out <= gwRows[c].given.out
    <2>1. gwRows[c].given.in = calls[c].len /\ gwRows[c].given.out = calls[c].cap
        BY <1>13 DEF Most, Outcome
    <2> QED BY <1>1, <1>13, <2>1 DEF BudgetInv, UsageBounded
<1>16. o.state \notin {"none", "STARTED"}
    BY <1>2 DEF OutcomeRow, Decided
<1>17. UsageBounded'
    <2>1. /\ row.outcome.known /\ row.attempt # NoAttempt =>
                row.outcome.in <= row.given.in /\ row.outcome.out <= row.given.out
          /\ row.outcome.state = "STARTED" => ~row.outcome.known
        BY <1>6, <1>13, <1>15, <1>16
    <2> QED BY <1>3, <1>8, <1>9, <2>1 DEF BudgetInv, UsageBounded
<1>18. \A b : RowsOf(b)' = RowsOf(b)
    <2>1. row.outcome.state # "none" /\ gwRows[c].outcome.state # "none"
        BY <1>6, <1>13, <1>16
    <2> QED BY <1>6, <1>8, <2>1 DEF RowsOf, Calls
<1>19. CapsFit'
    <2> SUFFICES ASSUME NEW d \in Calls, NEW b \in GwAttempts,
                        calls'[d].phase = "capped", calls'[d].attempt = b
                 PROVE  /\ Resolved(b)'
                        /\ ChargedTokens(b)' + CallTokens(Most(d))' <= MaxAttemptTokens
                        /\ ChargedCost(b, 0)' + Assured(d)' <= MaxAttemptCost
        BY DEF CapsFit
    <2>1. d # c /\ calls'[d] = calls[d]
        BY <1>3, <1>9
    <2>2. d \in Flying
        BY <2>1 DEF Flying, InFlight
    <2>3. calls[c].attempt # b
        BY <1>11, <2>1, <2>2, GatewayConstants DEF BudgetInv, SlotsExclude
    <2>4. c \notin RowsOf(b) /\ c \notin RowsOf(b)'
        BY <1>13, <1>18, <2>3 DEF RowsOf
    <2>5. /\ Resolved(b)' <=> Resolved(b)
          /\ ChargedTokens(b)' = ChargedTokens(b)
          /\ ChargedCost(b, 0)' = ChargedCost(b, 0)
        BY <1>8, <2>4, RowsElsewhere
    <2>6. CallTokens(Most(d))' = CallTokens(Most(d)) /\ Assured(d)' = Assured(d)
        BY <2>1, AssuredKept
    <2> QED BY <2>1, <2>5, <2>6 DEF BudgetInv, CapsFit
<1>20. AttemptWithinBudget'
    <2>1. ASSUME NEW b \in GwAttempts
          PROVE  /\ ChargedTokens(b)' <= MaxAttemptTokens
                 /\ \E e \in Excused(b)' : ChargedCost(b, e)' <= MaxAttemptCost
        <3>1. ASSUME NEW d \in RowsOf(b)
              PROVE  /\ Charged(d)' \in AnyOutcome
                     /\ Charged(d)'.in <= Charged(d).in
                     /\ Charged(d)'.out <= Charged(d).out
            <4>1. d \in Calls /\ gwRows[d].attempt = b /\ b # NoAttempt
                BY GatewayConstants DEF RowsOf
            <4>2. Charged(d) \in AnyOutcome /\ Charged(d).in \in Nat /\ Charged(d).out \in Nat
                BY <4>1, RowsTyped, OutcomeValues
            <4>3. CASE d # c
                <5>1. Charged(d)' = Charged(d)
                    BY <1>8, <4>1, <4>3 DEF Charged
                <5> QED BY <4>2, <5>1
            <4>4. CASE d = c
                <5>1. Charged(d) = gwRows[c].given
                    BY <1>13, <4>4 DEF Charged
                <5>2. Charged(d)' = IF row.outcome.known THEN row.outcome ELSE row.given
                    BY <1>8, <4>4 DEF Charged
                <5>3. CASE row.outcome.known
                    <6>1. row.outcome = o
                        BY <1>6, <1>13, <5>3
                    <6> QED BY <1>2, <1>15, <4>1, <4>4, <5>1, <5>2, <5>3, <6>1
                <5>4. CASE ~row.outcome.known
                    BY <1>4, <1>6, <4>2, <5>1, <5>2, <5>4
                <5> QED BY <5>3, <5>4
            <4> QED BY <4>3, <4>4
        <3>2. PICK e \in Excused(b) : ChargedCost(b, e) <= MaxAttemptCost
            BY WithinBudget DEF BudgetInv
        <3>3. ChargedTokens(b) <= MaxAttemptTokens
            BY WithinBudget DEF BudgetInv
        <3>4. /\ ChargedTokens(b)' \in Nat /\ ChargedCost(b, e)' \in Nat
              /\ ChargedTokens(b)' <= ChargedTokens(b)
              /\ ChargedCost(b, e)' <= ChargedCost(b, e)
            BY <1>18, <3>1, ChargedLess
        <3>5. ChargedTokens(b) \in Nat /\ ChargedCost(b, e) \in Nat
            BY ChargedTyped
        <3>6. Excused(b)' = Excused(b)
            BY <1>6, <1>8, <1>18, RowsFinite DEF Excused
        <3> QED BY <3>2, <3>3, <3>4, <3>5, <3>6, GatewayConstants
    <2> QED BY <2>1, WithinBudgetNext
<1> QED BY <1>10, <1>12, <1>14, <1>17, <1>19, <1>20 DEF BudgetInv

\* The Server's calls are gone with it; what they were charged stays.
LEMMA CrashBudget ==
    ASSUME GatewayTypeOK, BudgetInv, ServerCrashes
    PROVE  GatewayTypeOK' /\ BudgetInv'
<1> DEFINE gone == [Idle EXCEPT !.phase = "done"]
<1>1. /\ gwUp' = FALSE /\ cliBlocked' = FALSE
      /\ calls' = [c \in Calls |-> IF calls[c].phase \in InFlight THEN gone ELSE calls[c]]
      /\ UNCHANGED <<gwRows, gwActive, cli>>
    BY DEF ServerCrashes
<1>2. gone \in Handler /\ gone.phase = "done"
    BY DEF Idle, Handler, Kinds, Unsettled, Outcome, OutcomeRow, Decided
<1> HIDE DEF gone
<1>3. ASSUME NEW c \in Calls
      PROVE  /\ calls'[c] \in Handler
             /\ calls'[c].phase \notin InFlight
             /\ calls'[c].phase = "done" \/ calls'[c] = calls[c]
    <2>1. calls[c] \in Handler
        BY HandlersTyped
    <2>2. "done" \notin InFlight
        BY DEF InFlight
    <2>3. calls'[c] = IF calls[c].phase \in InFlight THEN gone ELSE calls[c]
        BY <1>1
    <2> QED BY <1>2, <2>1, <2>2, <2>3
<1>4. calls' \in [Calls -> Handler]
    BY <1>1, <1>3
<1>5. Flying' = {}
    BY <1>3 DEF Flying, InFlight
<1>6. SlotsExclude'
    BY <1>5 DEF SlotsExclude
<1>7. RowsFollowCalls'
    <2>1. Unsettled' = Unsettled
        BY DEF Unsettled, Outcome
    <2>2. \A c \in Calls : calls'[c].phase \notin {"slotted", "capped", "sending", "closing"}
        BY <1>3 DEF InFlight
    <2> QED BY <1>1, <1>3, <2>1, <2>2 DEF BudgetInv, RowsFollowCalls
<1>8. UsageBounded'
    <2>1. \A c \in Calls : calls'[c].phase \notin {"capped", "sending", "closing"}
        BY <1>3 DEF InFlight
    <2> QED BY <1>1, <2>1 DEF BudgetInv, UsageBounded
<1>9. CapsFit'
    <2>1. \A c \in Calls : calls'[c].phase # "capped"
        BY <1>3 DEF InFlight
    <2> QED BY <2>1 DEF CapsFit
<1>10. AttemptWithinBudget'
    BY <1>1, RowsUntouched, WithinBudget, WithinBudgetNext DEF BudgetInv
<1> QED BY <1>1, <1>4, <1>6, <1>7, <1>8, <1>9, <1>10 DEF BudgetInv, GatewayTypeOK

\* A row left open stays open: its call goes on counting for all it was given.
LEMMA RestartBudget ==
    ASSUME GatewayTypeOK, BudgetInv, ServerStarts
    PROVE  GatewayTypeOK' /\ BudgetInv'
<1>1. /\ ~gwUp /\ gwUp' = TRUE
      /\ cli' = [c \in Calls |-> [journal |-> "none", process |-> FALSE]]
      /\ gwRows' = [c \in Calls |-> IF gwRows[c].outcome.state = "STARTED"
                                    THEN [gwRows[c] EXCEPT !.outcome = Unsettled]
                                    ELSE gwRows[c]]
      /\ UNCHANGED <<calls, gwActive, cliBlocked>>
    BY DEF ServerStarts, RecoverCLI
<1>2. Unsettled.state = "UNKNOWN" /\ ~Unsettled.known /\ Unsettled' = Unsettled
      /\ Unsettled \in OutcomeRow(Decided \cup {"none", "STARTED"})
    BY DEF Unsettled, Outcome, OutcomeRow, Decided
<1>3. ASSUME NEW c \in Calls
      PROVE  /\ gwRows'[c] \in GatewayRow
             /\ gwRows'[c].attempt = gwRows[c].attempt
             /\ gwRows'[c].given = gwRows[c].given
             /\ gwRows'[c].kind = gwRows[c].kind
             /\ gwRows'[c].outcome.known <=> gwRows[c].outcome.known
             /\ gwRows[c].outcome.known => gwRows'[c].outcome = gwRows[c].outcome
             /\ gwRows'[c].outcome.state = "none" <=> gwRows[c].outcome.state = "none"
             /\ gwRows'[c].outcome.state # "STARTED"
    <2>1. gwRows[c] \in GatewayRow
        BY RowsTyped
    <2>2. gwRows'[c] = IF gwRows[c].outcome.state = "STARTED"
                       THEN [gwRows[c] EXCEPT !.outcome = Unsettled] ELSE gwRows[c]
        BY <1>1
    <2>3. CASE gwRows[c].outcome.state = "STARTED"
        <3>1. ~gwRows[c].outcome.known
            BY <2>3 DEF BudgetInv, UsageBounded
        <3>2. gwRows'[c] = [gwRows[c] EXCEPT !.outcome = Unsettled]
            BY <2>2, <2>3
        <3>3. /\ gwRows'[c] \in GatewayRow /\ gwRows'[c].outcome = Unsettled
              /\ gwRows'[c].attempt = gwRows[c].attempt
              /\ gwRows'[c].given = gwRows[c].given
              /\ gwRows'[c].kind = gwRows[c].kind
            BY <1>2, <2>1, <3>2 DEF GatewayRow
        <3> QED BY <1>2, <2>3, <3>1, <3>3
    <2>4. CASE gwRows[c].outcome.state # "STARTED"
        BY <2>1, <2>2, <2>4
    <2> QED BY <2>3, <2>4
<1>4. GatewayTypeOK'
    <2>1. gwRows' \in [Calls -> GatewayRow]
        BY <1>1, <1>3
    <2> QED BY <1>1, <2>1 DEF GatewayTypeOK
<1>5. Flying = {} /\ Flying' = {}
    BY <1>1 DEF BudgetInv, SlotsExclude, Flying
<1>6. \A c \in Calls : calls[c].phase \notin {"slotted", "capped", "sending", "closing"}
    BY <1>5 DEF Flying, InFlight
<1>7. SlotsExclude'
    BY <1>5 DEF SlotsExclude
<1>8. RowsFollowCalls'
    BY <1>1, <1>2, <1>3, <1>6 DEF BudgetInv, RowsFollowCalls
<1>9. UsageBounded'
    BY <1>1, <1>3, <1>6 DEF BudgetInv, UsageBounded
<1>10. CapsFit'
    BY <1>1, <1>6 DEF CapsFit
<1>11. AttemptWithinBudget'
    <2>1. ASSUME NEW b
          PROVE  RowsOf(b)' = RowsOf(b) /\ \A c \in RowsOf(b) : Charged(c)' = Charged(c)
        BY <1>3 DEF RowsOf, Charged, Calls
    <2>2. \A b : /\ ChargedTokens(b)' = ChargedTokens(b)
                 /\ \A e : ChargedCost(b, e)' = ChargedCost(b, e)
        BY <2>1, ChargedKept
    <2>3. \A b : Excused(b)' = Excused(b)
        BY <1>3, <2>1, RowsFinite DEF Excused
    <2> QED BY <2>2, <2>3, WithinBudget, WithinBudgetNext DEF BudgetInv
<1> QED BY <1>4, <1>7, <1>8, <1>9, <1>10, <1>11 DEF BudgetInv

----------------------------------------------------------------------------
(* The gateway: CLI processes and their journals *)

\* A call moves that has no journal, or that has been served.
LEMMA CallKeepsCli ==
    ASSUME GatewayTypeOK, CliJournalled, NEW c \in Calls, NEW h,
           calls' = [calls EXCEPT ![c] = h], UNCHANGED <<cli, cliBlocked, gwUp>>,
           h.seen # {} => h.kind = "messages" /\ h.phase # "idle",
           \/ cli[c].journal = "none"
           \/ calls[c].phase \in {"closing", "recorded"} /\ h.phase \in {"recorded", "done"}
    PROVE  CliJournalled'
<1>1. calls'[c] = h /\ \A d \in Calls \ {c} : calls'[d] = calls[d]
    BY DEF GatewayTypeOK
<1>2. ASSUME NEW d \in Calls \ {c}
      PROVE  /\ cli'[d].process => cli'[d].journal # "none"
             /\ gwUp' /\ cli'[d].journal # "none" => calls'[d].phase = "sending" \/ cliBlocked'
             /\ cli'[d].journal # "none" => calls'[d].phase \notin {"idle", "slotted", "capped"}
             /\ cli'[d].journal # "none" /\ calls'[d].phase = "sending" => calls'[d].kind = "cli"
             /\ calls'[d].seen # {} => calls'[d].kind = "messages" /\ calls'[d].phase # "idle"
    BY <1>1 DEF CliJournalled
<1>3. /\ cli'[c].process => cli'[c].journal # "none"
      /\ gwUp' /\ cli'[c].journal # "none" => calls'[c].phase = "sending" \/ cliBlocked'
      /\ cli'[c].journal # "none" => calls'[c].phase \notin {"idle", "slotted", "capped"}
      /\ cli'[c].journal # "none" /\ calls'[c].phase = "sending" => calls'[c].kind = "cli"
      /\ calls'[c].seen # {} => calls'[c].kind = "messages" /\ calls'[c].phase # "idle"
    BY <1>1 DEF CliJournalled
<1> QED BY <1>2, <1>3 DEF CliJournalled

\* What closing a call leaves of it.
LEMMA CloseKeeps ==
    ASSUME GatewayTypeOK, NEW c \in Calls, NEW o, calls' = Close(c, o)
    PROVE  \E h : /\ calls' = [calls EXCEPT ![c] = h] /\ h.phase = "closing"
                  /\ h.seen = calls[c].seen /\ h.kind = calls[c].kind
<1> DEFINE p == IF o.known THEN o ELSE Outcome(o.state, FALSE, 0, 0)
           h == [calls[c] EXCEPT !.phase = "closing", !.outcome = p]
<1>1. calls[c] \in Handler
    BY HandlersTyped
<1>2. calls' = [calls EXCEPT ![c] = h]
    BY DEF Close
<1> HIDE DEF p
<1>3. h.phase = "closing" /\ h.seen = calls[c].seen /\ h.kind = calls[c].kind
    BY <1>1 DEF Handler
<1> HIDE DEF h
<1> QED BY <1>2, <1>3

\* A call is closed that has no journal.
LEMMA CloseKeepsCli ==
    ASSUME GatewayTypeOK, CliJournalled, NEW c \in Calls, NEW o, calls' = Close(c, o),
           UNCHANGED <<cli, cliBlocked, gwUp>>, cli[c].journal = "none"
    PROVE  CliJournalled'
<1>1. PICK h : /\ calls' = [calls EXCEPT ![c] = h] /\ h.phase = "closing"
               /\ h.seen = calls[c].seen /\ h.kind = calls[c].kind
    BY CloseKeeps
<1>2. h.seen # {} => h.kind = "messages" /\ h.phase # "idle"
    BY <1>1 DEF CliJournalled
<1> QED BY <1>1, <1>2, CallKeepsCli

LEMMA SlotCli ==
    ASSUME GatewayTypeOK, CliJournalled, NEW c \in Calls,
           \/ \E kind \in {"responses", "messages", "cli"}, a \in GwAttempts \cup {NoAttempt} :
                 TakeSlots(c, kind, a)
           \/ \E len \in BodyLengths, want \in Wanted, grown \in Growth :
                 CapCall(c, len, want, grown)
           \/ RefuseCall(c)
           \/ StartCall(c)
    PROVE  CliJournalled'
<1>1. calls[c].phase \in {"idle", "slotted", "capped"} /\ UNCHANGED <<cli, cliBlocked, gwUp>>
    BY DEF TakeSlots, CapCall, RefuseCall, StartCall
<1>2. cli[c].journal = "none"
    BY <1>1 DEF CliJournalled
<1>3. calls[c] \in Handler
    BY HandlersTyped
<1>4. ASSUME NEW kind, NEW a, TakeSlots(c, kind, a)
      PROVE  CliJournalled'
    <2> DEFINE h == [calls[c] EXCEPT !.phase = "slotted", !.kind = kind, !.attempt = a]
    <2>1. calls' = [calls EXCEPT ![c] = h] /\ calls[c].phase = "idle"
        BY <1>4 DEF TakeSlots
    <2>2. h.seen = {}
        BY <1>3, <2>1 DEF CliJournalled, Handler
    <2> HIDE DEF h
    <2> QED BY <1>1, <1>2, <2>1, <2>2, CallKeepsCli
<1>5. ASSUME NEW len, NEW want, NEW grown, CapCall(c, len, want, grown)
      PROVE  CliJournalled'
    <2> DEFINE cap == SentCap(calls[c].kind, len, want, grown, remainingAttemptBudget(calls[c].attempt))
    <2>1. \/ calls' = [calls EXCEPT ![c] = [calls[c] EXCEPT !.phase = "capped"]]
          \/ calls' = [calls EXCEPT ![c] =
                          [calls[c] EXCEPT !.phase = "capped", !.len = len, !.cap = cap]]
        BY <1>5 DEF CapCall
    <2> HIDE DEF cap
    <2>2. PICK h : /\ calls' = [calls EXCEPT ![c] = h] /\ h.phase = "capped"
                   /\ h.seen = calls[c].seen /\ h.kind = calls[c].kind
        BY <1>3, <2>1 DEF Handler
    <2>3. h.seen # {} => h.kind = "messages" /\ h.phase # "idle"
        BY <2>2 DEF CliJournalled
    <2> QED BY <1>1, <1>2, <2>2, <2>3, CallKeepsCli
<1>6. CASE RefuseCall(c)
    <2> DEFINE h == [calls[c] EXCEPT !.phase = "done"]
    <2>1. calls' = [calls EXCEPT ![c] = h]
        BY <1>6 DEF RefuseCall
    <2>2. h.seen = calls[c].seen /\ h.kind = calls[c].kind /\ h.phase = "done"
        BY <1>3 DEF Handler
    <2> HIDE DEF h
    <2>3. h.seen # {} => h.kind = "messages" /\ h.phase # "idle"
        BY <2>2 DEF CliJournalled
    <2> QED BY <1>1, <1>2, <2>1, <2>3, CallKeepsCli
<1>7. CASE StartCall(c)
    <2> DEFINE h == [calls[c] EXCEPT !.phase = "sending"]
    <2>1. calls' = [calls EXCEPT ![c] = h]
        BY <1>7 DEF StartCall
    <2>2. h.seen = calls[c].seen /\ h.kind = calls[c].kind /\ h.phase = "sending"
        BY <1>3 DEF Handler
    <2> HIDE DEF h
    <2>3. h.seen # {} => h.kind = "messages" /\ h.phase # "idle"
        BY <2>2 DEF CliJournalled
    <2> QED BY <1>1, <1>2, <2>1, <2>3, CallKeepsCli
<1> QED BY <1>4, <1>5, <1>6, <1>7

\* Calls the upstream serves have no journal.
LEMMA AnswerCli ==
    ASSUME GatewayTypeOK, CliJournalled, NEW c \in Calls,
           \/ \E state \in Decided, usage \in Reports(c) :
                 Answer(c, state, usage) \/ AnswerMessage(c, state, usage)
           \/ \E e \in {"start", "delta", "stop", "error"}, usage \in Reports(c) :
                 MessageEvent(c, e, usage)
           \/ \E clean \in BOOLEAN : EndStream(c, clean)
           \/ CancelCall(c)
    PROVE  CliJournalled'
<1>1. /\ calls[c].phase = "sending" /\ UNCHANGED <<cli, cliBlocked, gwUp>>
      /\ calls[c].kind # "cli" \/ calls[c].seen # {}
    BY DEF Answer, AnswerMessage, MessageEvent, EndStream, CancelCall
<1>2. cli[c].journal = "none"
    BY <1>1 DEF CliJournalled
<1>3. ASSUME NEW o, calls' = Close(c, o)
      PROVE  CliJournalled'
    BY <1>1, <1>2, <1>3, CloseKeepsCli
<1>4. ASSUME NEW e \in {"start", "delta", "stop", "error"}, NEW usage \in Reports(c),
             MessageEvent(c, e, usage)
      PROVE  CliJournalled'
    <2>1. EventStep(c, e, usage)
        BY <1>4, EventCases
    <2>2. PICK p : calls' = [calls EXCEPT ![c] = EventRow(c, e, p)]
        BY <2>1 DEF EventStep
    <2> DEFINE h == EventRow(c, e, p)
    <2>3. calls[c] \in Handler /\ calls[c].kind = "messages"
        BY <1>4, HandlersTyped DEF MessageEvent
    <2>4. h.kind = "messages" /\ h.phase = "sending"
        BY <1>1, <2>3 DEF Handler, EventRow
    <2>5. calls' = [calls EXCEPT ![c] = h]
        BY <2>2
    <2> HIDE DEF h
    <2> QED BY <1>1, <1>2, <2>4, <2>5, CallKeepsCli
<1>5. ASSUME NEW state, NEW usage, Answer(c, state, usage) \/ AnswerMessage(c, state, usage)
      PROVE  CliJournalled'
    BY <1>3, <1>5 DEF Answer, AnswerMessage
<1>6. ASSUME NEW clean, EndStream(c, clean)
      PROVE  CliJournalled'
    BY <1>3, <1>6 DEF EndStream
<1>7. CASE CancelCall(c)
    BY <1>3, <1>7 DEF CancelCall
<1> QED BY <1>4, <1>5, <1>6, <1>7

\* The call has been served: it is recorded, and its slots are given back.
LEMMA LeaveCli ==
    ASSUME GatewayTypeOK, CliJournalled, NEW c \in Calls,
           FreeSlots(c) \/ \E written \in BOOLEAN : RecordCall(c, written)
    PROVE  CliJournalled'
<1>1. UNCHANGED <<cli, cliBlocked, gwUp>> /\ calls[c] \in Handler
    BY HandlersTyped DEF FreeSlots, RecordCall
<1>2. CASE FreeSlots(c)
    <2> DEFINE h == [Idle EXCEPT !.phase = "done"]
    <2>1. calls' = [calls EXCEPT ![c] = h] /\ calls[c].phase = "recorded"
        BY <1>2 DEF FreeSlots
    <2>2. h.seen = {} /\ h.phase = "done"
        BY DEF Idle
    <2> HIDE DEF h
    <2> QED BY <1>1, <2>1, <2>2, CallKeepsCli
<1>3. CASE \E written \in BOOLEAN : RecordCall(c, written)
    <2> DEFINE h == [calls[c] EXCEPT !.phase = "recorded"]
    <2>1. calls' = [calls EXCEPT ![c] = h] /\ calls[c].phase = "closing"
        BY <1>3 DEF RecordCall
    <2>2. h.seen = calls[c].seen /\ h.kind = calls[c].kind /\ h.phase = "recorded"
        BY <1>1 DEF Handler
    <2> HIDE DEF h
    <2>3. h.seen # {} => h.kind = "messages" /\ h.phase # "idle"
        BY <2>2 DEF CliJournalled
    <2> QED BY <1>1, <2>1, <2>2, <2>3, CallKeepsCli
<1> QED BY <1>2, <1>3

CliRow == [journal : {"none", "empty", "pid"}, process : BOOLEAN]

\* The journal or the process of one call changes, and no call moves.
LEMMA CliChanges ==
    ASSUME GatewayTypeOK, BudgetInv, CliJournalled, NEW c \in Calls, NEW row \in CliRow,
           cli' = [cli EXCEPT ![c] = row], UNCHANGED <<calls, gwRows, gwActive, gwUp, cliBlocked>>,
           row.process => row.journal # "none",
           \/ row.journal = "none"
           \/ cli[c].journal # "none"
           \/ calls[c].phase = "sending" /\ calls[c].kind = "cli"
    PROVE  GatewayInv'
<1>1. cli \in [Calls -> CliRow]
    BY DEF GatewayTypeOK, CliRow
<1>2. /\ cli' \in [Calls -> CliRow] /\ cli'[c] = row
      /\ \A d \in Calls \ {c} : cli'[d] = cli[d]
    BY <1>1
<1>3. GatewayTypeOK'
    BY <1>2 DEF GatewayTypeOK, CliRow
<1>4. BudgetInv'
    BY BudgetUntouched
<1>5. ASSUME NEW d \in Calls
      PROVE  /\ cli'[d].process => cli'[d].journal # "none"
             /\ cli'[d].journal # "none" =>
                   \/ cli[d].journal # "none"
                   \/ calls[d].phase = "sending" /\ calls[d].kind = "cli"
    BY <1>2 DEF CliJournalled
<1>6. CliJournalled'
    BY <1>5 DEF CliJournalled
<1> QED BY <1>3, <1>4, <1>6 DEF GatewayInv

LEMMA CliStep ==
    ASSUME GatewayInv, NEW c \in Calls,
           \/ \E made \in BOOLEAN : JournalCLI(c, made)
           \/ SpawnCLI(c)
           \/ IdentifyCLI(c)
           \/ CliExits(c)
    PROVE  GatewayInv'
<1>1. GatewayTypeOK /\ BudgetInv /\ CliJournalled
    BY DEF GatewayInv
<1>2. cli \in [Calls -> CliRow] /\ cli[c] \in CliRow
    BY <1>1 DEF GatewayTypeOK, CliRow
<1>3. CASE SpawnCLI(c)
    <2> DEFINE row == [cli[c] EXCEPT !.process = TRUE]
    <2>1. /\ cli' = [cli EXCEPT ![c] = row]
          /\ UNCHANGED <<calls, gwRows, gwActive, gwUp, cliBlocked>>
          /\ cli[c].journal = "empty"
        BY <1>3 DEF SpawnCLI
    <2>2. row \in CliRow /\ row.journal = "empty"
        BY <1>2, <2>1 DEF CliRow
    <2> HIDE DEF row
    <2> QED BY <1>1, <2>1, <2>2, CliChanges
<1>4. CASE IdentifyCLI(c)
    <2> DEFINE row == [cli[c] EXCEPT !.journal = "pid"]
    <2>1. /\ cli' = [cli EXCEPT ![c] = row]
          /\ UNCHANGED <<calls, gwRows, gwActive, gwUp, cliBlocked>>
          /\ cli[c].journal = "empty"
        BY <1>4 DEF IdentifyCLI
    <2>2. row \in CliRow /\ row.journal = "pid"
        BY <1>2 DEF CliRow
    <2> HIDE DEF row
    <2> QED BY <1>1, <2>1, <2>2, CliChanges
<1>5. CASE CliExits(c)
    <2> DEFINE row == [cli[c] EXCEPT !.process = FALSE]
    <2>1. /\ cli' = [cli EXCEPT ![c] = row]
          /\ UNCHANGED <<calls, gwRows, gwActive, gwUp, cliBlocked>>
          /\ cli[c].process
        BY <1>5 DEF CliExits
    <2>2. row \in CliRow /\ row.process = FALSE /\ row.journal = cli[c].journal
        BY <1>2 DEF CliRow
    <2> HIDE DEF row
    <2>3. cli[c].journal # "none"
        BY <1>1, <2>1 DEF CliJournalled
    <2> QED BY <1>1, <2>1, <2>2, <2>3, CliChanges
<1>6. CASE \E made \in BOOLEAN : JournalCLI(c, made)
    <2>1. /\ calls[c].phase = "sending" /\ calls[c].kind = "cli" /\ cli[c].journal = "none"
          /\ UNCHANGED <<gwRows, gwActive, gwUp, cliBlocked>>
        BY <1>6 DEF JournalCLI
    <2>2. CASE calls' = Close(c, Outcome("FAILED", FALSE, 0, 0)) /\ UNCHANGED cli
        <3> DEFINE o == Outcome("FAILED", FALSE, 0, 0)
        <3>1. o \in OutcomeRow(Decided) /\ ~o.known
            BY DEF Outcome, OutcomeRow, Decided
        <3> HIDE DEF o
        <3>2. calls' = Close(c, o)
            BY <2>2 DEF o
        <3>3. calls' \in [Calls -> Handler] /\ BudgetInv'
            BY <1>1, <2>1, <3>1, <3>2, CallCloses
        <3>4. CliJournalled'
            BY <1>1, <2>1, <2>2, <3>2, CloseKeepsCli
        <3>5. GatewayTypeOK'
            BY <1>1, <2>1, <2>2, <3>3 DEF GatewayTypeOK
        <3> QED BY <3>3, <3>4, <3>5 DEF GatewayInv
    <2>3. CASE cli' = [cli EXCEPT ![c].journal = "empty"] /\ UNCHANGED calls
        <3> DEFINE row == [cli[c] EXCEPT !.journal = "empty"]
        <3>1. cli' = [cli EXCEPT ![c] = row]
            BY <2>3
        <3>2. row \in CliRow /\ row.journal = "empty"
            BY <1>2 DEF CliRow
        <3> HIDE DEF row
        <3> QED BY <1>1, <2>1, <2>3, <3>1, <3>2, CliChanges
    <2> QED BY <1>6, <2>2, <2>3 DEF JournalCLI
<1> QED BY <1>3, <1>4, <1>5, <1>6

\* The process is confirmed gone, or the backend is closed.
LEMMA FinishStep ==
    ASSUME GatewayInv, NEW c \in Calls, NEW cleanup \in BOOLEAN, NEW state \in Decided,
           FinishCLI(c, cleanup, state)
    PROVE  GatewayInv'
<1> DEFINE o == Outcome(state, FALSE, 0, 0)
           none == [journal |-> "none", process |-> FALSE]
<1>1. GatewayTypeOK /\ BudgetInv /\ CliJournalled
    BY DEF GatewayInv
<1>2. /\ calls[c].phase = "sending" /\ calls' = Close(c, o)
      /\ cli' = IF cleanup THEN [cli EXCEPT ![c] = none] ELSE cli
      /\ cliBlocked' = (cliBlocked \/ ~cleanup)
      /\ UNCHANGED <<gwRows, gwActive, gwUp>>
    BY DEF FinishCLI
<1>3. o \in OutcomeRow(Decided) /\ ~o.known
    BY DEF Outcome, OutcomeRow
<1> HIDE DEF o
<1>4. calls' \in [Calls -> Handler] /\ BudgetInv'
    BY <1>1, <1>2, <1>3, CallCloses
<1>5. PICK h : /\ calls' = [calls EXCEPT ![c] = h] /\ h.phase = "closing"
               /\ h.seen = calls[c].seen /\ h.kind = calls[c].kind
    BY <1>1, <1>2, CloseKeeps
<1>6. calls'[c] = h /\ \A d \in Calls \ {c} : calls'[d] = calls[d]
    BY <1>1, <1>5 DEF GatewayTypeOK
<1>7. cli \in [Calls -> CliRow] /\ none \in CliRow
    BY <1>1 DEF GatewayTypeOK, CliRow
<1>8. none.journal = "none" /\ none.process = FALSE
    OBVIOUS
<1> HIDE DEF none
<1>9. /\ cli' \in [Calls -> CliRow]
      /\ \A d \in Calls \ {c} : cli'[d] = cli[d]
      /\ IF cleanup THEN cli'[c] = none ELSE cli'[c] = cli[c]
    <2>1. CASE cleanup
        BY <1>2, <1>7, <2>1
    <2>2. CASE ~cleanup
        BY <1>2, <1>7, <2>2
    <2> QED BY <2>1, <2>2
<1>10. cliBlocked' \in BOOLEAN /\ (cliBlocked => cliBlocked') /\ (~cleanup => cliBlocked')
    BY <1>2
<1>11. GatewayTypeOK'
    BY <1>1, <1>2, <1>4, <1>9, <1>10 DEF GatewayTypeOK, CliRow
<1>12. ASSUME NEW d \in Calls \ {c}
      PROVE  /\ cli'[d].process => cli'[d].journal # "none"
             /\ gwUp' /\ cli'[d].journal # "none" => calls'[d].phase = "sending" \/ cliBlocked'
             /\ cli'[d].journal # "none" => calls'[d].phase \notin {"idle", "slotted", "capped"}
             /\ cli'[d].journal # "none" /\ calls'[d].phase = "sending" => calls'[d].kind = "cli"
             /\ calls'[d].seen # {} => calls'[d].kind = "messages" /\ calls'[d].phase # "idle"
    BY <1>1, <1>2, <1>6, <1>9, <1>10 DEF CliJournalled
<1>13. /\ cli'[c].process => cli'[c].journal # "none"
       /\ cli'[c].journal # "none" => cliBlocked'
       /\ calls'[c].phase = "closing"
       /\ calls'[c].seen # {} => calls'[c].kind = "messages"
    <2>1. cli[c].process => cli[c].journal # "none"
        BY <1>1 DEF CliJournalled
    <2>2. calls[c].seen # {} => calls[c].kind = "messages"
        BY <1>1 DEF CliJournalled
    <2> QED BY <1>5, <1>6, <1>8, <1>9, <1>10, <2>1, <2>2
<1>14. CliJournalled'
    BY <1>12, <1>13 DEF CliJournalled
<1> QED BY <1>4, <1>11, <1>14 DEF GatewayInv

\* Crash and restart.
LEMMA ServerStep ==
    ASSUME GatewayInv, ServerCrashes \/ ServerStarts
    PROVE  GatewayInv'
<1>1. GatewayTypeOK /\ BudgetInv /\ CliJournalled
    BY DEF GatewayInv
<1>2. GatewayTypeOK' /\ BudgetInv'
    BY <1>1, CrashBudget, RestartBudget
<1>3. CASE ServerCrashes
    <2> DEFINE gone == [Idle EXCEPT !.phase = "done"]
    <2>1. gone.phase = "done" /\ gone.seen = {}
        BY DEF Idle
    <2>2. /\ gwUp' = FALSE /\ cli' = cli
          /\ calls' = [c \in Calls |-> IF calls[c].phase \in InFlight THEN gone ELSE calls[c]]
        BY <1>3 DEF ServerCrashes
    <2> HIDE DEF gone
    <2>3. ASSUME NEW c \in Calls
          PROVE  calls'[c] = gone \/ (calls[c].phase \notin InFlight /\ calls'[c] = calls[c])
        BY <2>2
    <2>4. CliJournalled'
        BY <1>1, <2>1, <2>2, <2>3 DEF CliJournalled, InFlight
    <2> QED BY <1>2, <2>4 DEF GatewayInv
<1>4. CASE ServerStarts
    <2>1. \A c \in Calls : cli'[c].journal = "none" /\ ~cli'[c].process
        BY <1>4 DEF ServerStarts, RecoverCLI
    <2>2. calls' = calls
        BY <1>4 DEF ServerStarts
    <2>3. CliJournalled'
        BY <1>1, <2>1, <2>2 DEF CliJournalled
    <2> QED BY <1>2, <2>3 DEF GatewayInv
<1> QED BY <1>3, <1>4

----------------------------------------------------------------------------
(* The gateway: theorems *)

LEMMA GatewayInvInit == GatewayInit => GatewayInv
<1> SUFFICES ASSUME GatewayInit
             PROVE  GatewayInv
    OBVIOUS
<1>1. Idle \in Handler /\ NoRow \in GatewayRow
    BY DEF Idle, NoRow, Handler, GatewayRow, Kinds, Unsettled, Outcome, OutcomeRow, Decided
<1>2. GatewayTypeOK
    <2>1. calls \in [Calls -> Handler] /\ gwRows \in [Calls -> GatewayRow]
        BY <1>1 DEF GatewayInit
    <2> QED BY <2>1 DEF GatewayInit, GatewayTypeOK
<1>3. \A c \in Calls : /\ calls[c].phase = "idle" /\ calls[c].seen = {}
                       /\ calls[c].outcome = Unsettled
                       /\ gwRows[c].outcome.state = "none" /\ ~gwRows[c].outcome.known
                       /\ cli[c].journal = "none" /\ ~cli[c].process
    BY DEF GatewayInit, Idle, NoRow, Outcome
<1>4. SlotsExclude /\ RowsFollowCalls /\ UsageBounded /\ CapsFit
    <2>1. Flying = {}
        BY <1>3 DEF Flying, InFlight
    <2> QED BY <1>3, <2>1 DEF SlotsExclude, RowsFollowCalls, UsageBounded, CapsFit
<1>5. AttemptWithinBudget
    <2>1. \A a : RowsOf(a) = {}
        BY <1>3 DEF RowsOf
    <2>2. ASSUME NEW a, NEW f, f = [c \in RowsOf(a) |-> f[c]]
          PROVE  Total(f) = 0
        <3>1. DOMAIN f = {}
            BY <2>1, <2>2
        <3>2. Units(f) = {}
            BY <3>1 DEF Units
        <3> QED BY <3>2, FS_EmptySet DEF Total
    <2>3. \A a : ChargedTokens(a) = 0 /\ ChargedCost(a, 0) = 0 /\ 0 \in Excused(a)
        BY <2>2 DEF ChargedTokens, ChargedCost, Excused
    <2> QED BY <2>3, WithinBudget, GatewayConstants
<1>6. CliJournalled
    BY <1>3 DEF CliJournalled
<1> QED BY <1>2, <1>4, <1>5, <1>6 DEF GatewayInv, BudgetInv

LEMMA GatewayInvStep == GatewayInv /\ [GatewayNext]_gwVars => GatewayInv'
<1> SUFFICES ASSUME GatewayInv, [GatewayNext]_gwVars
             PROVE  GatewayInv'
    OBVIOUS
<1>1. GatewayTypeOK /\ BudgetInv /\ CliJournalled
    BY DEF GatewayInv
<1>2. ASSUME NEW c \in Calls, NEW kind \in {"responses", "messages", "cli"},
             NEW a \in GwAttempts \cup {NoAttempt}, TakeSlots(c, kind, a)
      PROVE  GatewayInv'
    BY <1>1, <1>2, TakeBudget, SlotCli DEF GatewayInv
<1>3. ASSUME NEW c \in Calls, NEW kind \in {"responses", "cli"},
             NEW a \in GwAttempts \cup {NoAttempt}, BeginCall(c, kind, a)
      PROVE  GatewayInv'
    BY <1>2, <1>3 DEF BeginCall
<1>4. ASSUME NEW c \in Calls, NEW a \in GwAttempts, BeginMessage(c, a)
      PROVE  GatewayInv'
    BY <1>2, <1>4 DEF BeginMessage
<1>5. ASSUME NEW c \in Calls, NEW len \in BodyLengths, NEW want \in Wanted, NEW grown \in Growth,
             CapCall(c, len, want, grown)
      PROVE  GatewayInv'
    BY <1>1, <1>5, CapBudget, SlotCli DEF GatewayInv
<1>6. ASSUME NEW c \in Calls, RefuseCall(c)
      PROVE  GatewayInv'
    BY <1>1, <1>6, LeaveBudget, SlotCli DEF GatewayInv
<1>7. ASSUME NEW c \in Calls, StartCall(c)
      PROVE  GatewayInv'
    BY <1>1, <1>7, StartBudget, SlotCli DEF GatewayInv
<1>8. ASSUME NEW c \in Calls, NEW state \in {"COMPLETE", "FAILED", "UNKNOWN"},
             NEW usage \in Reports(c), Answer(c, state, usage) \/ AnswerMessage(c, state, usage)
      PROVE  GatewayInv'
    <2>1. state \in Decided
        BY DEF Decided
    <2> QED BY <1>1, <1>8, <2>1, AnswerBudget, AnswerCli DEF GatewayInv
<1>9. ASSUME NEW c \in Calls, NEW e \in {"start", "delta", "stop", "error"},
             NEW usage \in Reports(c), MessageEvent(c, e, usage)
      PROVE  GatewayInv'
    BY <1>1, <1>9, EventBudget, AnswerCli DEF GatewayInv
<1>10. ASSUME NEW c \in Calls, CancelCall(c) \/ \E clean \in BOOLEAN : EndStream(c, clean)
      PROVE  GatewayInv'
    BY <1>1, <1>10, EndBudget, AnswerCli DEF GatewayInv
<1>11. ASSUME NEW c \in Calls, NEW written \in BOOLEAN, RecordCall(c, written)
      PROVE  GatewayInv'
    BY <1>1, <1>11, RecordBudget, LeaveCli DEF GatewayInv
<1>12. ASSUME NEW c \in Calls, FreeSlots(c)
      PROVE  GatewayInv'
    BY <1>1, <1>12, LeaveBudget, LeaveCli DEF GatewayInv
<1>13. ASSUME NEW c \in Calls, (\E made \in BOOLEAN : JournalCLI(c, made)) \/ SpawnCLI(c)
                               \/ IdentifyCLI(c) \/ CliExits(c)
      PROVE  GatewayInv'
    BY <1>13, CliStep
<1>14. ASSUME NEW c \in Calls, NEW cleanup \in BOOLEAN,
              NEW state \in {"COMPLETE", "FAILED", "UNKNOWN"}, FinishCLI(c, cleanup, state)
      PROVE  GatewayInv'
    <2>1. state \in Decided
        BY DEF Decided
    <2> QED BY <1>14, <2>1, FinishStep
<1>15. ASSUME NEW a \in GwAttempts, AttemptEnds(a)
      PROVE  GatewayInv'
    <2>1. UNCHANGED <<calls, gwRows, gwUp, cliBlocked, cli>> /\ gwActive' \subseteq gwActive
        BY <1>15 DEF AttemptEnds
    <2>2. BudgetInv'
        BY <1>1, <2>1, BudgetUntouched
    <2>3. CliJournalled'
        BY <1>1, <2>1 DEF CliJournalled
    <2>4. GatewayTypeOK'
        BY <1>1, <2>1 DEF GatewayTypeOK
    <2> QED BY <2>2, <2>3, <2>4 DEF GatewayInv
<1>16. CASE ServerCrashes \/ ServerStarts
    BY <1>16, ServerStep
<1>17. CASE UNCHANGED gwVars
    <2>1. UNCHANGED <<calls, gwRows, gwActive, gwUp, cliBlocked, cli>>
        BY <1>17 DEF gwVars
    <2>2. BudgetInv'
        BY <1>1, <2>1, BudgetUntouched
    <2>3. CliJournalled'
        BY <1>1, <2>1 DEF CliJournalled
    <2>4. GatewayTypeOK'
        BY <1>1, <2>1 DEF GatewayTypeOK
    <2> QED BY <2>2, <2>3, <2>4 DEF GatewayInv
<1> QED
    BY <1>3, <1>4, <1>5, <1>6, <1>7, <1>8, <1>9, <1>10, <1>11, <1>12, <1>13, <1>14, <1>15,
       <1>16, <1>17 DEF GatewayNext

\* Crashes, lost settlements and late answers keep the slots, the rows and the
\* journals in step, and with them the budget of every Attempt (serveHTTP,
\* serveAnthropicMessages, serveCLI, record, recoverCLI).
THEOREM GatewaySafe == GatewaySpec => []GatewayInv
BY GatewayInvInit, GatewayInvStep, PTL DEF GatewaySpec

\* The handlers, rows and journals of the gateway stay well formed
\* (gateway_requests, gatewayOutcome).
THEOREM GatewayTyped == GatewaySpec => []GatewayTypeOK
<1>1. GatewayInv => GatewayTypeOK
    BY DEF GatewayInv
<1> QED BY <1>1, GatewaySafe, PTL

\* For any prices, limits and number of calls, the calls of an Attempt stay
\* within its tokens, and within its cost but for the output of one call of
\* /v1/responses, even if every call whose usage is not known used all it was
\* given (remainingAttemptBudget, acquireAttemptSlot, record).
THEOREM BudgetsHold == GatewaySpec => []AttemptWithinBudget
<1>1. GatewayInv => AttemptWithinBudget
    BY DEF GatewayInv, BudgetInv
<1> QED BY <1>1, GatewaySafe, PTL

\* While the Server serves, a CLI process belongs to a call under way or the
\* backend is closed (serveCLI, recoverCLI).
THEOREM CliStaysContained == GatewaySpec => []CliContained
<1>1. GatewayInv => CliContained
    BY DEF GatewayInv, CliJournalled, CliContained
<1> QED BY <1>1, GatewaySafe, PTL
=============================================================================
