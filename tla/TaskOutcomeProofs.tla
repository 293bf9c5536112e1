------------------------- MODULE TaskOutcomeProofs -------------------------
(***************************************************************************)
(* What becomes of a Task, proved for every instance: success and accepted  *)
(* results are earned, slots hold, delivered commands are journalled, a     *)
(* stop sticks, and Server and Workers together implement TaskLifecycle.    *)
(*                                                                         *)
(* IndInv of TaskAttempts says which executions may be alive; it says       *)
(* nothing about results, session epochs or the count of open Attempts.     *)
(* Outcomes below adds what those need, in four independent parts.          *)
(***************************************************************************)
EXTENDS TaskAttemptsProofs, FiniteSetTheorems

\* A Task's row and its Job's: the row points to its latest Attempt or to none, a Task
\* being executed or stopped points to one, a queued Task to none, and only a Job (of
\* a managed Task that was submitted) ever stops.
RecordOK(t) ==
    /\ task[t].att \in {0, task[t].gen}
    /\ task[t].state \in {"NONE", "QUEUED"} => task[t].att = 0
    /\ task[t].state \in Executing \cup Stopping => task[t].att # 0
    /\ task[t].att # 0 => Exists(<<t, task[t].att>>)
    /\ t \notin Managed => job[t] = "open"
    /\ job[t] # "open" => task[t].state # "NONE"

\* What success rests on: the current Attempt committed its start, a clean and
\* successful completion, and its bundle was accepted.
EarnedBy(t) ==
    /\ HasAttempt(t) /\ att[CurrentOf(t)].released
    /\ att[CurrentOf(t)].final.ok /\ att[CurrentOf(t)].final.clean
    /\ att[CurrentOf(t)].seq = 1 /\ art[CurrentOf(t)] = "ACCEPTED"

Records ==
    /\ \A t \in Tasks : RecordOK(t) /\ (task[t].state = "SUCCEEDED" => EarnedBy(t))
    /\ \A a \in Attempts :
         /\ att[a].released => att[a].final # NoCompletion
         /\ art[a] = "ACCEPTED" =>
              task[TaskOf(a)].state = "SUCCEEDED" /\ task[TaskOf(a)].att = Gen(a)

\* The journal claims success only after attempt.started was stored.
StartedOK(r, g) ==
    /\ g.phase \in {"running", "fenced", "vspawned", "verifying"} => r.seq = 1
    /\ g.phase \in {"exited", "verified"} /\ g.res = "OK" => r.seq = 1
    /\ r.comp.ok /\ ~r.completed => r.seq = 1
    /\ r.completed => r.comp # NoCompletion
    /\ r.state = "NONE" => r = NoRun
Started == \A a \in Attempts : StartedOK(run[a], act[a])

\* The limits assign() counts against.
Counted ==
    /\ IsFiniteSet(OpenAttempts) /\ Cardinality(OpenAttempts) <= ProjectLimit
    /\ \A w \in Workers : Cardinality(OpenOn(w)) <= Slots

\* Sessions, the tick's copy of them and Attempts lag behind the Worker process, and a
\* Worker process that has Attempts of its own epoch has no session of another one.
EpochsOK ==
    /\ \A w \in Workers :
         /\ session[w] <= epoch[w] /\ snap[w] <= epoch[w]
         /\ snap[w] # 0 /\ snap[w] = epoch[w] => session[w] \in {0, epoch[w]}
    /\ \A a \in Attempts :
         /\ Exists(a) => att[a].epoch <= epoch[WorkerOf(a)] /\ att[a].epoch # 0
         /\ Exists(a) /\ att[a].epoch = epoch[WorkerOf(a)] =>
              session[WorkerOf(a)] \in {0, epoch[WorkerOf(a)]}

\* An Attempt that does not exist has no commands.
NoCommands == \A a \in Attempts : ~Exists(a) => \A k \in Kinds : cmd[a][k] = "none"
Delivered == EpochsOK /\ NoCommands /\ AckedMeansJournalled

Outcomes == Records /\ Started /\ Counted /\ Delivered

-----------------------------------------------------------------------------
(* How a step moves the Task rows.                                         *)

\* The steps of Workers and streams that the Server's database does not notice.
Unnoticed ==
    \/ Processing \/ Restart
    \/ \E a \in Attempts :
         \/ CancelRun(a) \/ LocalLeaseEnds(a) \/ Renew(a) \/ UploadRejected(a)
         \/ \E ok \in BOOLEAN : ReceiveGrant(a, ok)

\* The steps of the Worker streams and of the clock that only concern sessions,
\* commands, deadlines and leases.
Sessions ==
    \/ TickSnapshot \/ ServerRestart
    \/ \E w \in Workers : Connect(w) \/ Disconnect(w)
    \/ \E k \in Kinds, a \in Attempts : SendCommand(k, a) \/ ReceiveCommand(k, a)
    \/ \E t \in Tasks : ExtendJobDeadline(t) \/ DeadlinePasses(t)

\* Every other step is one transaction on the Task, Attempt or artifact rows.
LEMMA NextCases ==
    ASSUME Next
    PROVE  \/ Unnoticed \/ Sessions \/ Reconcile
           \/ \E t \in Tasks : \/ SubmitTask(t) \/ CancelTask(t) \/ CancelJob(t) \/ ManualRetry(t)
                               \/ AdvanceJob(t) \/ AssignExpired(t) \/ \E w \in Workers : Assign(t, w)
           \/ \E a \in Attempts : \/ LeaseExpires(a)
                                  \/ \E answered \in BOOLEAN :
                                       \/ ReportEvents(a, answered) \/ UploadArtifact(a, answered)
                                       \/ ReportCompletion(a, answered)
<1>1. CASE User
  BY <1>1 DEF User, Sessions
<1>2. CASE Controller
  BY <1>2 DEF Controller, Sessions
<1>3. CASE Stream
  BY <1>3 DEF Stream, Sessions, Unnoticed
<1>4. CASE Time
  BY <1>4 DEF Time, Sessions, Unnoticed
<1>5. CASE Processing \/ Restart
  BY <1>5 DEF Unnoticed
<1>6. CASE Flush
  <2>1. \A answered \in Answers : answered \in BOOLEAN
    BY DEF Answers
  <2> QED BY <1>6, <2>1 DEF Flush, Unnoticed
<1> QED BY <1>1, <1>2, <1>3, <1>4, <1>5, <1>6 DEF Next

\* The Server's database does not notice these steps.
LEMMA UnnoticedFrame == ASSUME Unnoticed PROVE UNCHANGED serverVars
<1>1. CASE Restart
  BY <1>1 DEF Restart, Crash, Boot, Probe, RecoverRun
<1>2. CASE Processing
  <2>1. PICK a \in Attempts : Execute(a) \/ Fork(a) \/ \E p \in Processes : ProcessExits(a, p)
    BY <1>2 DEF Processing
  <2>2. CASE Execute(a)
    BY <2>2 DEF Execute, LeaseLost, ExecuteBegin, PrepareWorkspace, PrepareFails, MarkInUse,
         EnvironmentFails, Spawn, SpawnFails, RecordRuntimeStarted, RecordFails, RuntimeEnds,
         FenceVerifier, SpawnVerifier, RecordVerifier, VerifierEnds, Finish, Leave
  <2> QED BY <2>1, <2>2 DEF Fork, ProcessExits
<1>3. CASE \E a \in Attempts :
         \/ CancelRun(a) \/ LocalLeaseEnds(a) \/ Renew(a) \/ UploadRejected(a)
         \/ \E ok \in BOOLEAN : ReceiveGrant(a, ok)
  BY <1>3 DEF CancelRun, LocalLeaseEnds, Renew, UploadRejected, ReceiveGrant
<1> QED BY <1>1, <1>2, <1>3 DEF Unnoticed

\* Neither do the rows of Tasks, Jobs, Attempts and artifacts notice these.
LEMMA SessionsFrame == ASSUME Sessions PROVE UNCHANGED <<task, job, att, art>> /\ UNCHANGED procs
  BY DEF Sessions, TickSnapshot, ServerRestart, Connect, Disconnect, SendCommand, ReceiveCommand,
         ExtendJobDeadline, DeadlinePasses, workerVars

\* A Task row goes from one of the states in from to one of those in to.
Moved(t, from, to) ==
    /\ task[t].state \in from /\ task'[t].state \in to
    /\ task'[t].att = task[t].att /\ task'[t].gen = task[t].gen
Requeued(t, from) == task[t].state \in from /\ task'[t] = Requeue(task[t])
Dispatched(t) ==
    /\ task[t].state = "QUEUED" /\ \E w \in Workers : Assign(t, w)
    /\ task'[t] = [state |-> "STARTING", code |-> "OK", att |-> task[t].gen + 1, gen |-> task[t].gen + 1]

\* CompleteAttempt releases the Attempt: a first, clean completion of the current one.
Concluded(a) ==
    /\ Current(a) /\ Recorded(a) /\ ~run[a].completed /\ att[a].final = NoCompletion
    /\ MayComplete(a, run[a].comp) /\ run[a].comp.clean
    /\ \E soon \in BOOLEAN : Commit(a, run[a].comp, soon)
Wins(a) == Concluded(a) /\ Outcome(a, run[a].comp)[1] = "SUCCEEDED"

\* Everything that may happen to the row of one Task in one step.
TaskMove(t) ==
    \/ task'[t] = task[t]
    \/ Moved(t, {"NONE"}, {"QUEUED"})
    \/ JobAllows(t) /\ Dispatched(t)
    \/ JobAllows(t) /\ Moved(t, {"STARTING"}, {"RUNNING"})
    \/ Moved(t, Executing, Stopping)
    \/ Moved(t, {"RECONCILING"}, {"CANCELING"})
    \/ Moved(t, {"QUEUED"} \cup Executing \cup Stopping, {"CANCELED", "FAILED"})
    \/ /\ JobAllows(t) /\ Moved(t, Executing, {"SUCCEEDED"})
       /\ \E a \in Attempts : TaskOf(a) = t /\ Wins(a)
    \/ job[t] = "open" /\ Requeued(t, Executing \cup {"RECONCILING"})
    \/ job[t] \notin {"open", "SUCCEEDED"} /\ Requeued(t, {"FAILED"})

\* setState() leaves a row alone or moves an unfinished one.
LEMMA SetStateMoves ==
    ASSUME NEW r \in TaskRows, NEW s, NEW c
    PROVE  \/ SetState(r, s, c) = r
           \/ /\ r.state \notin Terminal /\ r.state # s /\ SetState(r, s, c).state = s
              /\ SetState(r, s, c).att = r.att /\ SetState(r, s, c).gen = r.gen
  BY DEF SetState, TaskRows

\* A step that rewrites the row of one Task moves only that Task.
LEMMA OneTask ==
    ASSUME IndInv, NEW u \in Tasks, NEW r, task' = [task EXCEPT ![u] = r], NEW t \in Tasks
    PROVE  task'[t] = IF t = u THEN r ELSE task[t]
  BY Typed

\* User commands and the controller tick.
LEMMA ServerMoves ==
    ASSUME IndInv, Records, NEW u \in Tasks, NEW t \in Tasks,
           \/ SubmitTask(u) \/ CancelTask(u) \/ CancelJob(u) \/ ManualRetry(u)
           \/ AdvanceJob(u) \/ AssignExpired(u) \/ \E w \in Workers : Assign(u, w)
    PROVE  TaskMove(t)
<1>1. /\ task[u] \in TaskRows /\ RecordOK(u) /\ task[u].state \in TaskStates
      /\ task \in [Tasks -> TaskRows]
  BY Typed DEF Records, TaskRows
<1>2. CASE SubmitTask(u)
  <2>1. task'[u].state = "QUEUED" /\ task'[u].att = task[u].att /\ task'[u].gen = task[u].gen
    BY <1>1, <1>2 DEF SubmitTask, TaskRows
  <2>2. t # u => task'[t] = task[t]
    BY <1>1, <1>2 DEF SubmitTask
  <2> QED BY <1>2, <2>1, <2>2 DEF SubmitTask, TaskMove, Moved
<1>3. CASE CancelTask(u)
  <2> DEFINE s == IF HasAttempt(u) THEN "CANCELING" ELSE "CANCELED"
  <2>1. task'[t] = IF t = u THEN SetState(task[u], s, "OK") ELSE task[t]
    BY <1>1, <1>3, OneTask DEF CancelTask
  <2>2. task[u].state \in {"QUEUED"} \cup Executing \cup Stopping
    BY <1>1, <1>3 DEF CancelTask, TaskStates
  <2>3. HasAttempt(u) => task[u].state \in Executing \cup Stopping
    BY <1>1, <2>2 DEF RecordOK, HasAttempt
  <2>4. SetState(task[u], s, "OK") = task[u] \/
          /\ task[u].state # s /\ SetState(task[u], s, "OK").state = s
          /\ SetState(task[u], s, "OK").att = task[u].att /\ SetState(task[u], s, "OK").gen = task[u].gen
    BY <1>1, SetStateMoves
  <2>5. CASE HasAttempt(u)
    BY <2>1, <2>3, <2>4, <2>5 DEF TaskMove, Moved, Stopping
  <2>6. CASE ~HasAttempt(u)
    BY <2>1, <2>2, <2>4, <2>6 DEF TaskMove, Moved
  <2> QED BY <2>5, <2>6
<1>4. CASE CancelJob(u)
  BY <1>4 DEF CancelJob, TaskMove
<1>5. CASE ManualRetry(u)
  <2>1. /\ task' = [task EXCEPT ![u] = Requeue(task[u])] /\ task[u].state = "FAILED"
        /\ job[u] = "CHILD_FAILED"
    BY <1>1, <1>5 DEF ManualRetry, Requeue
  <2> QED BY <2>1, OneTask DEF TaskMove, Requeued
<1>6. CASE AdvanceJob(u)
  <2> DEFINE c == IF StopReason(u) = "DEADLINE_EXCEEDED" THEN StopReason(u) ELSE "ERROR"
  <2>1. \/ task' = task
        \/ ~HasAttempt(u) /\ task' = [task EXCEPT ![u] = SetState(task[u], "CANCELED", "OK")]
        \/ HasAttempt(u) /\ task' = [task EXCEPT ![u] = SetState(task[u], "CANCELING", c)]
             /\ task[u].state # "RECONCILING"
    BY <1>1, <1>6 DEF AdvanceJob
  <2>2. task[u].state # "NONE"
    BY <1>6 DEF AdvanceJob
  <2>3. CASE ~HasAttempt(u) /\ task' = [task EXCEPT ![u] = SetState(task[u], "CANCELED", "OK")]
    <3>1. task'[t] = IF t = u THEN SetState(task[u], "CANCELED", "OK") ELSE task[t]
      BY <2>3, OneTask
    <3>2. SetState(task[u], "CANCELED", "OK") = task[u] \/
            /\ task[u].state \notin Terminal /\ SetState(task[u], "CANCELED", "OK").state = "CANCELED"
            /\ SetState(task[u], "CANCELED", "OK").att = task[u].att
            /\ SetState(task[u], "CANCELED", "OK").gen = task[u].gen
      BY <1>1, SetStateMoves
    <3> QED BY <1>1, <2>2, <3>1, <3>2 DEF TaskMove, Moved, TaskStates
  <2>4. CASE /\ HasAttempt(u) /\ task' = [task EXCEPT ![u] = SetState(task[u], "CANCELING", c)]
             /\ task[u].state # "RECONCILING"
    <3>1. task'[t] = IF t = u THEN SetState(task[u], "CANCELING", c) ELSE task[t]
      BY <1>1, <2>4
    <3>2. SetState(task[u], "CANCELING", c) = task[u] \/
            /\ task[u].state \notin Terminal /\ task[u].state # "CANCELING"
            /\ SetState(task[u], "CANCELING", c).state = "CANCELING"
            /\ SetState(task[u], "CANCELING", c).att = task[u].att
            /\ SetState(task[u], "CANCELING", c).gen = task[u].gen
      BY <1>1, SetStateMoves
    <3>3. task[u].state \notin {"NONE", "QUEUED"}
      BY <1>1, <2>4 DEF RecordOK, HasAttempt
    <3>4. task[u].state \notin Terminal /\ task[u].state # "CANCELING" => task[u].state \in Executing
      BY <1>1, <2>4, <3>3 DEF TaskStates, Stopping
    <3> QED BY <3>1, <3>2, <3>4 DEF TaskMove, Moved, Stopping
  <2>5. CASE task' = task
    BY <2>5 DEF TaskMove
  <2> QED BY <2>1, <2>3, <2>4, <2>5
<1>7. CASE AssignExpired(u)
  <2>1. /\ task'[t] = IF t = u THEN SetState(task[u], "FAILED", "DEADLINE_EXCEEDED") ELSE task[t]
        /\ task[u].state = "QUEUED"
    BY <1>1, <1>7, OneTask DEF AssignExpired, Assignable
  <2>2. SetState(task[u], "FAILED", "DEADLINE_EXCEEDED") = task[u] \/
          /\ SetState(task[u], "FAILED", "DEADLINE_EXCEEDED").state = "FAILED"
          /\ SetState(task[u], "FAILED", "DEADLINE_EXCEEDED").att = task[u].att
          /\ SetState(task[u], "FAILED", "DEADLINE_EXCEEDED").gen = task[u].gen
    BY <1>1, SetStateMoves
  <2> QED BY <2>1, <2>2 DEF TaskMove, Moved
<1>8. ASSUME NEW w \in Workers, Assign(u, w) PROVE TaskMove(t)
  <2> DEFINE g == task[u].gen + 1
  <2>1. /\ task' = [task EXCEPT ![u] = [state |-> "STARTING", code |-> "OK", att |-> g, gen |-> g]]
        /\ task[u].state = "QUEUED" /\ JobAllows(u)
    BY <1>8 DEF Assign, Assignable
  <2> QED BY <1>8, <2>1, OneTask DEF TaskMove, Dispatched
<1> QED BY <1>2, <1>3, <1>4, <1>5, <1>6, <1>7, <1>8

\* reconcile(): supervised Tasks are being executed or in doubt.
LEMMA ReconcileMoves ==
    ASSUME IndInv, Records, NEW t \in Tasks, Reconcile
    PROVE  TaskMove(t)
<1>1. task[t] \in TaskRows /\ RecordOK(t) /\ task[t].state \in TaskStates
  BY Typed DEF Records, TaskRows
<1>2. task'[t] = IF Overdue(t) THEN SetState(task[t], "CANCELING", "DEADLINE_EXCEEDED")
                 ELSE IF Lost(t) THEN SetState(task[t], "RECONCILING", "ERROR")
                 ELSE task[t]
  BY DEF Reconcile
<1>3. Supervised(t) => task[t].state \in Executing \cup {"RECONCILING"}
  BY <1>1 DEF Supervised, HasAttempt, RecordOK, TaskStates, Stopping
<1>4. CASE Overdue(t)
  <2>1. SetState(task[t], "CANCELING", "DEADLINE_EXCEEDED") = task[t] \/
          /\ SetState(task[t], "CANCELING", "DEADLINE_EXCEEDED").state = "CANCELING"
          /\ SetState(task[t], "CANCELING", "DEADLINE_EXCEEDED").att = task[t].att
          /\ SetState(task[t], "CANCELING", "DEADLINE_EXCEEDED").gen = task[t].gen
    BY <1>1, SetStateMoves
  <2> QED BY <1>2, <1>3, <1>4, <2>1 DEF TaskMove, Moved, Stopping, Overdue
<1>5. CASE ~Overdue(t) /\ Lost(t)
  <2>1. SetState(task[t], "RECONCILING", "ERROR") = task[t] \/
          /\ SetState(task[t], "RECONCILING", "ERROR").state = "RECONCILING"
          /\ SetState(task[t], "RECONCILING", "ERROR").att = task[t].att
          /\ SetState(task[t], "RECONCILING", "ERROR").gen = task[t].gen
          /\ task[t].state # "RECONCILING"
    BY <1>1, SetStateMoves
  <2> QED BY <1>2, <1>3, <1>5, <2>1 DEF TaskMove, Moved, Stopping, Lost
<1>6. CASE ~Overdue(t) /\ ~Lost(t)
  BY <1>2, <1>6 DEF TaskMove
<1> QED BY <1>4, <1>5, <1>6

\* A released Attempt has its final completion, so one without is still open, and its
\* Task is being executed or stopped.
LEMMA UncommittedIsOpen ==
    ASSUME IndInv, Records, NEW a \in Attempts, Current(a), att[a].final = NoCompletion
    PROVE  Open(a) /\ task[TaskOf(a)].state \in Executing \cup Stopping
<1>1. Open(a)
  BY DEF Records, Current, Open
<1>2. AttemptOK(Gen(a), Exists(a), Open(a), task[TaskOf(a)])
  BY DEF IndInv, Ledger
<1> QED BY <1>1, <1>2 DEF AttemptOK

\* CompleteAttempt either changes nothing or concludes an open Attempt.
LEMMA CompletionCases ==
    ASSUME NEW a \in Attempts, NEW answered \in BOOLEAN, ReportCompletion(a, answered)
    PROVE  /\ Current(a)
           /\ \/ UNCHANGED <<task, att, cmd, art>>
              \/ att[a].final = NoCompletion /\ Unconfirmed(a)
              \/ Concluded(a)
<1>1. PICK soon \in BOOLEAN : CompleteAttempt(a, run[a].comp, soon)
  BY DEF ReportCompletion
<1>2. Current(a) /\ MayComplete(a, run[a].comp)
  BY <1>1 DEF CompleteAttempt, MayComplete
<1>3. Recorded(a) /\ ~run[a].completed /\ Exists(a)
  BY DEF ReportCompletion, Completing, Flushing
<1>4. CASE att[a].final = run[a].comp
  BY <1>1, <1>2, <1>4 DEF CompleteAttempt
<1>5. CASE att[a].final # run[a].comp
  <2>1. att[a].final = NoCompletion
    BY <1>2, <1>5 DEF MayComplete
  <2> QED BY <1>1, <1>2, <1>3, <1>5, <2>1 DEF CompleteAttempt, Concluded
<1> QED BY <1>4, <1>5

\* What the outcome says about the Task it is decided for.
LEMMA OutcomeFacts ==
    ASSUME NEW a, NEW c, task[TaskOf(a)].state \in Executing \cup Stopping
    PROVE  /\ Outcome(a, c)[1] = "SUCCEEDED" =>
                c.ok /\ ~EpochChanged(a) /\ JobAllows(TaskOf(a)) /\ task[TaskOf(a)].state \in Executing
           /\ Outcome(a, c)[1] = "FAILED" /\ RetryableAttemptError(Outcome(a, c)[2]) =>
                task[TaskOf(a)].state \in Executing \cup {"RECONCILING"}
           /\ Outcome(a, c)[1] \in {"SUCCEEDED", "FAILED", "CANCELED"}
  BY DEF Outcome, Stopping, RetryableAttemptError

\* Reports of a Worker.
LEMMA ReportMoves ==
    ASSUME IndInv, Records, NEW a \in Attempts, NEW answered \in BOOLEAN, NEW t \in Tasks,
           ReportEvents(a, answered) \/ UploadArtifact(a, answered) \/ ReportCompletion(a, answered)
    PROVE  TaskMove(t)
<1> DEFINE u == TaskOf(a)
<1>1. u \in Tasks /\ task[u] \in TaskRows /\ task \in [Tasks -> TaskRows]
  BY AttemptParts, Typed
<1>2. CASE ReportEvents(a, answered)
  <2>1. \/ task' = task
        \/ /\ task[u].state = "STARTING" /\ JobAllows(u)
           /\ task' = [task EXCEPT ![u] = SetState(task[u], "RUNNING", "OK")]
    BY <1>1, <1>2 DEF ReportEvents, ReportStarted
  <2>2. SetState(task[u], "RUNNING", "OK") = task[u] \/
          /\ SetState(task[u], "RUNNING", "OK").state = "RUNNING"
          /\ SetState(task[u], "RUNNING", "OK").att = task[u].att
          /\ SetState(task[u], "RUNNING", "OK").gen = task[u].gen
    BY <1>1, SetStateMoves
  <2>3. CASE task' = task
    BY <2>3 DEF TaskMove
  <2>4. CASE /\ task[u].state = "STARTING" /\ JobAllows(u)
             /\ task' = [task EXCEPT ![u] = SetState(task[u], "RUNNING", "OK")]
    <3>1. task'[t] = IF t = u THEN SetState(task[u], "RUNNING", "OK") ELSE task[t]
      BY <1>1, <2>4
    <3> QED BY <2>2, <2>4, <3>1 DEF TaskMove, Moved
  <2> QED BY <2>1, <2>3, <2>4
<1>3. CASE UploadArtifact(a, answered)
  BY <1>3 DEF UploadArtifact, TaskMove
<1>4. CASE ReportCompletion(a, answered)
  <2>1. Current(a) /\ (att[a].final = NoCompletion => task[u].state \in Executing \cup Stopping)
    BY <1>4, CompletionCases, UncommittedIsOpen
  <2>2. CASE UNCHANGED <<task, att, cmd, art>>
    BY <2>2 DEF TaskMove
  <2>3. CASE att[a].final = NoCompletion /\ Unconfirmed(a)
    <3>1. SetState(task[u], "RECONCILING", "ERROR") = task[u] \/
            /\ SetState(task[u], "RECONCILING", "ERROR").state = "RECONCILING"
            /\ SetState(task[u], "RECONCILING", "ERROR").att = task[u].att
            /\ SetState(task[u], "RECONCILING", "ERROR").gen = task[u].gen
            /\ task[u].state # "RECONCILING"
      BY <1>1, SetStateMoves
    <3>2. \/ task' = task
          \/ /\ task[u].state # "CANCELING"
             /\ task' = [task EXCEPT ![u] = SetState(task[u], "RECONCILING", "ERROR")]
      BY <1>1, <2>3 DEF Unconfirmed
    <3>3. CASE /\ task[u].state # "CANCELING"
               /\ task' = [task EXCEPT ![u] = SetState(task[u], "RECONCILING", "ERROR")]
      <4>1. task'[t] = IF t = u THEN SetState(task[u], "RECONCILING", "ERROR") ELSE task[t]
        BY <1>1, <3>3
      <4> QED BY <2>1, <2>3, <3>1, <3>3, <4>1 DEF TaskMove, Moved, Stopping
    <3> QED BY <3>2, <3>3 DEF TaskMove
  <2>4. ASSUME Concluded(a) PROVE TaskMove(t)
    <3> DEFINE o == Outcome(a, run[a].comp)
               c == IF o[2] \in TaskCodes THEN o[2] ELSE "ERROR"
    <3>0. PICK soon \in BOOLEAN : Commit(a, run[a].comp, soon)
      BY <2>4 DEF Concluded
    <3>1. /\ task[u].state \in Executing \cup Stopping
          /\ o[1] = "SUCCEEDED" => JobAllows(u) /\ task[u].state \in Executing
          /\ o[1] = "FAILED" /\ RetryableAttemptError(o[2]) => task[u].state \in Executing \cup {"RECONCILING"}
          /\ o[1] \in {"SUCCEEDED", "FAILED", "CANCELED"}
      BY <2>1, <2>4, OutcomeFacts DEF Concluded
    <3> HIDE DEF o, c
    <3>2. task'[t] = IF t # u THEN task[t]
                     ELSE IF o[1] = "FAILED" /\ PlanRetry(a, o[2], soon) THEN Requeue(task[u])
                     ELSE SetState(task[u], o[1], c)
      BY <1>1, <3>0 DEF Commit, o, c
    <3>3. CASE t # u
      BY <3>2, <3>3 DEF TaskMove
    <3>4. CASE t = u /\ o[1] = "FAILED" /\ PlanRetry(a, o[2], soon)
      <4>1. RetryableAttemptError(o[2]) /\ job[u] = "open"
        BY <3>4 DEF PlanRetry
      <4> QED BY <3>1, <3>2, <3>4, <4>1 DEF TaskMove, Requeued
    <3>5. CASE t = u /\ ~(o[1] = "FAILED" /\ PlanRetry(a, o[2], soon))
      <4>1. SetState(task[u], o[1], c) = task[u] \/
              /\ SetState(task[u], o[1], c).state = o[1]
              /\ SetState(task[u], o[1], c).att = task[u].att
              /\ SetState(task[u], o[1], c).gen = task[u].gen
        BY <1>1, SetStateMoves
      <4>2. task'[t] = SetState(task[u], o[1], c)
        BY <3>2, <3>5
      <4>3. o[1] = "SUCCEEDED" => Wins(a)
        BY <2>4 DEF Wins, o
      <4> QED BY <3>1, <3>5, <4>1, <4>2, <4>3 DEF TaskMove, Moved
    <3> QED BY <3>3, <3>4, <3>5
  <2> QED BY <1>4, <2>2, <2>3, <2>4, CompletionCases
<1> QED BY <1>2, <1>3, <1>4

\* In every step, every Task moves along one of the edges of TaskMove.
LEMMA TaskMoves == ASSUME IndInv, Records, Next, NEW t \in Tasks PROVE TaskMove(t)
<1>1. CASE Unnoticed \/ Sessions \/ \E a \in Attempts : LeaseExpires(a)
  <2>1. task' = task
    BY <1>1, UnnoticedFrame, SessionsFrame DEF LeaseExpires, serverVars
  <2> QED BY <2>1 DEF TaskMove
<1> QED BY <1>1, NextCases, ServerMoves, ReconcileMoves, ReportMoves

-----------------------------------------------------------------------------
(* How a step changes the rows of Attempts and artifacts.                  *)

\* A lease that ends or a start event that is committed.
Touched(a) ==
    /\ att'[a].worker = att[a].worker /\ att'[a].epoch = att[a].epoch
    /\ att'[a].released = att[a].released /\ att'[a].final = att[a].final
    /\ att'[a].seq \in {att[a].seq, 1}

\* assign() creates the Attempt.
Assigned(a) ==
    /\ task[TaskOf(a)].state = "QUEUED" /\ Gen(a) = task[TaskOf(a)].gen + 1
    /\ \E w \in Workers :
         /\ Assign(TaskOf(a), w)
         /\ att'[a] = [NoAttempt EXCEPT !.worker = w, !.epoch = snap[w], !.lease = "valid"]

AttemptMove(a) == Touched(a) \/ Assigned(a) \/ Concluded(a)
ArtifactMove(a) == art'[a] \in {art[a], "STAGED"} \/ Concluded(a)

\* The new row of a concluded Attempt.
LEMMA ConcludedRow ==
    ASSUME IndInv, NEW a \in Attempts, Concluded(a)
    PROVE  /\ att'[a].worker = att[a].worker /\ att'[a].epoch = att[a].epoch
           /\ att'[a].released /\ att'[a].final = run[a].comp /\ att'[a].seq = att[a].seq
           /\ art'[a] = "ACCEPTED" <=> art[a] = "ACCEPTED" \/ Wins(a)
<1>1. PICK soon \in BOOLEAN : Commit(a, run[a].comp, soon)
  BY DEF Concluded
<1>2. att[a] \in AttemptRows /\ att \in [Attempts -> AttemptRows]
  BY Typed
<1>3. att' = [att EXCEPT ![a].released = TRUE, ![a].final = run[a].comp]
  BY <1>1 DEF Commit
<1>4. /\ att'[a].worker = att[a].worker /\ att'[a].epoch = att[a].epoch
      /\ att'[a].released /\ att'[a].final = run[a].comp /\ att'[a].seq = att[a].seq
  BY <1>2, <1>3 DEF AttemptRows
<1>5. art'[a] = IF Outcome(a, run[a].comp)[1] = "SUCCEEDED" THEN "ACCEPTED"
                ELSE IF art[a] = "STAGED" THEN "ORPHANED" ELSE art[a]
  BY <1>1, Typed DEF Commit
<1> QED BY <1>4, <1>5 DEF Wins

\* A step that leaves the Attempts alone touches none of them.
LEMMA Untouched == ASSUME att' = att, NEW a PROVE Touched(a)
  BY DEF Touched

\* In every step, every Attempt row moves along one of these edges.
LEMMA AttemptMoves ==
    ASSUME IndInv, Records, Next, NEW a \in Attempts
    PROVE  AttemptMove(a)
<1>1. att[a] \in AttemptRows /\ att \in [Attempts -> AttemptRows]
  BY Typed
<1>2. CASE att' = att
  BY <1>2, Untouched DEF AttemptMove
<1>3. ASSUME NEW t \in Tasks, NEW w \in Workers, Assign(t, w) PROVE AttemptMove(a)
  <2> DEFINE g == task[t].gen + 1
             row == [NoAttempt EXCEPT !.worker = w, !.epoch = snap[w], !.lease = "valid"]
  <2>1. att' = [att EXCEPT ![<<t, g>>] = row] /\ task[t].state = "QUEUED"
    BY <1>3 DEF Assign, Assignable
  <2>2. CASE a = <<t, g>>
    <3>1. att'[a] = row /\ TaskOf(a) = t /\ Gen(a) = g
      BY <1>1, <2>1, <2>2 DEF TaskOf, Gen
    <3> QED BY <1>3, <2>1, <3>1 DEF AttemptMove, Assigned
  <2>3. CASE a # <<t, g>>
    BY <1>1, <2>1, <2>3 DEF AttemptMove, Touched
  <2> QED BY <2>2, <2>3
<1>4. ASSUME NEW b \in Attempts, LeaseExpires(b) PROVE AttemptMove(a)
  <2>1. att' = [att EXCEPT ![b].lease = "expired"]
    BY <1>4 DEF LeaseExpires
  <2> QED BY <1>1, <2>1 DEF AttemptMove, Touched, AttemptRows
<1>5. ASSUME NEW b \in Attempts, NEW answered \in BOOLEAN, ReportEvents(b, answered)
      PROVE  AttemptMove(a)
  <2>1. att' = [att EXCEPT ![b].seq = 1]
    BY <1>5 DEF ReportEvents, ReportStarted
  <2> QED BY <1>1, <2>1 DEF AttemptMove, Touched, AttemptRows
<1>6. ASSUME NEW b \in Attempts, NEW answered \in BOOLEAN, ReportCompletion(b, answered)
      PROVE  AttemptMove(a)
  <2>1. CASE UNCHANGED <<task, att, cmd, art>> \/ Unconfirmed(b)
    BY <1>2, <2>1 DEF Unconfirmed
  <2>2. CASE Concluded(b)
    <3>1. att' = [att EXCEPT ![b].released = TRUE, ![b].final = run[b].comp]
      BY <2>2 DEF Concluded, Commit
    <3>2. CASE a # b
      BY <1>1, <3>1, <3>2 DEF AttemptMove, Touched
    <3> QED BY <2>2, <3>2 DEF AttemptMove
  <2> QED BY <1>6, <2>1, <2>2, CompletionCases
<1>7. CASE Unnoticed \/ Sessions \/ Reconcile
  BY <1>2, <1>7, UnnoticedFrame, SessionsFrame DEF serverVars, Reconcile
<1>8. CASE \E t \in Tasks : \/ SubmitTask(t) \/ CancelTask(t) \/ CancelJob(t) \/ ManualRetry(t)
                            \/ AdvanceJob(t) \/ AssignExpired(t)
  BY <1>2, <1>8 DEF SubmitTask, CancelTask, CancelJob, ManualRetry, AdvanceJob, AssignExpired
<1>9. CASE \E b \in Attempts, answered \in BOOLEAN : UploadArtifact(b, answered)
  BY <1>2, <1>9 DEF UploadArtifact
<1> QED BY <1>3, <1>4, <1>5, <1>6, <1>7, <1>8, <1>9, NextCases

\* The same for the result bundles; one is registered for an open Attempt only.
LEMMA ArtifactMoves ==
    ASSUME IndInv, Records, Next, NEW a \in Attempts
    PROVE  ArtifactMove(a) /\ (att[a].released => art'[a] = art[a])
<1>1. art \in [Attempts -> {"none", "STAGED", "ACCEPTED", "ORPHANED"}]
  BY Typed
<1>2. CASE art' = art
  BY <1>2 DEF ArtifactMove
<1>3. ASSUME NEW b \in Attempts, NEW answered \in BOOLEAN, UploadArtifact(b, answered)
      PROVE  ArtifactMove(a) /\ (att[a].released => art'[a] = art[a])
  BY <1>1, <1>3 DEF UploadArtifact, RegisterArtifact, ArtifactMove
<1>4. ASSUME NEW b \in Attempts, NEW answered \in BOOLEAN, ReportCompletion(b, answered)
      PROVE  ArtifactMove(a) /\ (att[a].released => art'[a] = art[a])
  <2>1. CASE UNCHANGED <<task, att, cmd, art>> \/ Unconfirmed(b)
    BY <1>2, <2>1 DEF Unconfirmed
  <2>2. CASE Concluded(b)
    <3>1. ~att[b].released
      BY <2>2 DEF Concluded, Records
    <3>2. a # b => art'[a] = art[a]
      BY <1>1, <2>2 DEF Concluded, Commit
    <3> QED BY <2>2, <3>1, <3>2 DEF ArtifactMove
  <2> QED BY <1>4, <2>1, <2>2, CompletionCases
<1>5. CASE Unnoticed \/ Sessions \/ Reconcile
  BY <1>2, <1>5, UnnoticedFrame, SessionsFrame DEF serverVars, Reconcile
<1>6. CASE \E t \in Tasks : \/ SubmitTask(t) \/ CancelTask(t) \/ CancelJob(t) \/ ManualRetry(t)
                            \/ AdvanceJob(t) \/ AssignExpired(t) \/ \E w \in Workers : Assign(t, w)
  BY <1>2, <1>6 DEF SubmitTask, CancelTask, CancelJob, ManualRetry, AdvanceJob, AssignExpired, Assign
<1>7. CASE \E b \in Attempts :
             LeaseExpires(b) \/ \E answered \in BOOLEAN : ReportEvents(b, answered)
  BY <1>2, <1>7 DEF LeaseExpires, ReportEvents
<1> QED BY <1>3, <1>4, <1>5, <1>6, <1>7, NextCases

-----------------------------------------------------------------------------
(* The journal: success is claimed only after the start was recorded.       *)

\* A journal row is never forgotten, nor is a stop, unless the row is completed.
Advances(r0, r) ==
    /\ r0.state # "NONE" => r.state # "NONE"
    /\ r0.stop \/ r0.completed => r.stop \/ r.completed
Journalled == Started' /\ \A a \in Attempts : Advances(run[a], run'[a])

\* A step that rewrites journal row and goroutine of one Attempt.
LEMMA JournalStep ==
    ASSUME IndInv, Started, NEW a \in Attempts, NEW r, NEW g,
           run' = [run EXCEPT ![a] = r], act' = [act EXCEPT ![a] = g],
           StartedOK(r, g), Advances(run[a], r)
    PROVE  Journalled
<1>1. run'[a] = r /\ act'[a] = g
  BY Typed
<1>2. \A b \in Attempts : b # a => run'[b] = run[b] /\ act'[b] = act[b]
  BY Typed
<1>3. \A b \in Attempts : StartedOK(run'[b], act'[b])
  BY <1>1, <1>2 DEF Started
<1>4. \A b \in Attempts : Advances(run[b], run'[b])
  BY <1>1, <1>2 DEF Advances
<1> QED BY <1>3, <1>4 DEF Journalled, Started

\* A completion is stored once; a failed one claims nothing.
LEMMA StoredStarted ==
    ASSUME NEW r \in RunRows, NEW g, StartedOK(r, g), NEW c \in Completions,
           c.ok => r.seq = 1 /\ ~r.completed
    PROVE  /\ StartedOK(Stored(r, c), [Off EXCEPT !.phase = "ending"])
           /\ Advances(r, Stored(r, c))
           /\ r.comp = NoCompletion => Stored(r, c).state = "DONE"
  BY DEF Stored, StartedOK, Advances, RunRows, Off

\* complete() keeps it.
LEMMA CompleteStarted ==
    ASSUME IndInv, Started, NEW a \in Attempts, NEW c \in Completions,
           c.ok => run[a].seq = 1 /\ ~run[a].completed, Complete(a, c)
    PROVE  Journalled
<1> DEFINE r == Stored(run[a], c)
           g == [Off EXCEPT !.phase = "ending"]
<1>1. run[a] \in RunRows /\ StartedOK(run[a], act[a])
  BY Typed DEF Started
<1>2. run' = [run EXCEPT ![a] = r] /\ act' = [act EXCEPT ![a] = g]
  BY DEF Complete
<1>3. StartedOK(r, g) /\ Advances(run[a], r)
  BY <1>1, StoredStarted
<1> QED BY <1>2, <1>3, JournalStep

\* The goroutine of an Attempt.
LEMMA ExecuteStarted ==
    ASSUME IndInv, Started, NEW a \in Attempts, Execute(a)
    PROVE  Journalled
<1>1. PICK r0 \in RunRows, g0 \in Goroutines :
        /\ run[a] = r0 /\ run = [run EXCEPT ![a] = r0]
        /\ act[a] = g0 /\ act = [act EXCEPT ![a] = g0]
        /\ StartedOK(r0, g0) /\ r0.comp \in Completions
        /\ g0.phase \in Claimed => r0.comp = NoCompletion /\ r0.state \in {"STARTING", "RUNNING"}
  <2>1. run[a] \in RunRows /\ act[a] \in Goroutines /\ StartedOK(run[a], act[a])
    BY Typed DEF Started
  <2>2. run = [run EXCEPT ![a] = run[a]] /\ act = [act EXCEPT ![a] = act[a]]
    BY Typed
  <2>3. RowOK(Exists(a), Up(a), att[a].released, run[a], act[a], Alive(a))
    BY ReportFacts
  <2>4. run[a].comp \in Completions
    BY <2>1 DEF RunRows
  <2> QED BY <2>1, <2>2, <2>3, <2>4 DEF RowOK
<1>2. NoCompletion.ok = FALSE
  BY DEF NoCompletion, Completion
<1>3. \A code : Failed(code).ok = FALSE
  BY DEF Failed, Completion
<1>4. CASE LeaseLost(a)
  BY <1>3, <1>4, CompletionFacts, CompleteStarted DEF LeaseLost
<1>5. CASE PrepareFails(a)
  BY <1>3, <1>5, CompletionFacts, CompleteStarted DEF PrepareFails
<1>6. CASE EnvironmentFails(a)
  <2>1. PICK c \in {Failed("RETRYABLE"), Failed("FINAL"),
                    Completion(FALSE, FALSE, "CLEANUP_UNCONFIRMED", FALSE)} : Complete(a, c)
    BY <1>6 DEF EnvironmentFails
  <2>2. c \in Completions /\ c.ok = FALSE
    <3>1. Completion(FALSE, FALSE, "CLEANUP_UNCONFIRMED", FALSE).ok = FALSE
      BY DEF Completion
    <3> QED BY <1>3, <2>1, <3>1, CompletionFacts
  <2> QED BY <2>1, <2>2, CompleteStarted
<1>7. CASE ExecuteBegin(a)
  <2>1. CASE Cancelled(a)
    BY <1>3, <1>7, <2>1, CompletionFacts, CompleteStarted DEF ExecuteBegin
  <2>2. CASE ~Cancelled(a) /\ run[a].state = "ACCEPTED" /\ ~run[a].stop /\ ~Recorded(a)
    <3> DEFINE r == [r0 EXCEPT !.state = "STARTING"]
               g == [g0 EXCEPT !.phase = "prepare"]
    <3>1. run' = [run EXCEPT ![a] = r] /\ act' = [act EXCEPT ![a] = g]
      BY <1>1, <1>7, <2>2 DEF ExecuteBegin, Goes
    <3>2. StartedOK(r, g) /\ Advances(r0, r)
      BY <1>1 DEF StartedOK, Advances, RunRows, Goroutines
    <3> QED BY <1>1, <3>1, <3>2, JournalStep
  <2>3. CASE ~Cancelled(a) /\ ~(run[a].state = "ACCEPTED" /\ ~run[a].stop /\ ~Recorded(a))
    <3> DEFINE g == [g0 EXCEPT !.phase = "ending"]
    <3>1. run' = [run EXCEPT ![a] = r0] /\ act' = [act EXCEPT ![a] = g]
      BY <1>1, <1>7, <2>3 DEF ExecuteBegin, Goes
    <3>2. StartedOK(r0, g) /\ Advances(r0, r0)
      BY <1>1 DEF StartedOK, Advances, Goroutines
    <3> QED BY <1>1, <3>1, <3>2, JournalStep
  <2> QED BY <2>1, <2>2, <2>3
<1>8. CASE PrepareWorkspace(a)
  <2> DEFINE r == [r0 EXCEPT !.ws = "pre"]
             g == g0
  <2>1. run' = [run EXCEPT ![a] = r] /\ act' = [act EXCEPT ![a] = g]
    BY <1>1, <1>8 DEF PrepareWorkspace, At
  <2>2. StartedOK(r, g) /\ Advances(r0, r)
    BY <1>1, <1>2, <1>8 DEF PrepareWorkspace, StartedOK, Advances, At, RunRows, Goroutines, Claimed
  <2> QED BY <1>1, <2>1, <2>2, JournalStep
<1>9. CASE MarkInUse(a)
  <2> DEFINE r == [r0 EXCEPT !.ws = "inuse"]
             g == [g0 EXCEPT !.phase = "environment"]
  <2>1. run' = [run EXCEPT ![a] = r] /\ act' = [act EXCEPT ![a] = g]
    BY <1>1, <1>9 DEF MarkInUse, Goes
  <2>2. StartedOK(r, g) /\ Advances(r0, r)
    BY <1>1, <1>2, <1>9 DEF MarkInUse, StartedOK, Advances, At, RunRows, Goroutines, Claimed
  <2> QED BY <1>1, <2>1, <2>2, JournalStep
<1>10. CASE Spawn(a)
  <2> DEFINE r == r0
             g == [g0 EXCEPT !.phase = "spawned"]
  <2>1. run' = [run EXCEPT ![a] = r] /\ act' = [act EXCEPT ![a] = g]
    BY <1>1, <1>10 DEF Spawn, Goes
  <2>2. StartedOK(r, g) /\ Advances(r0, r)
    BY <1>1, <1>2, <1>10 DEF Spawn, StartedOK, Advances, At, RunRows, Goroutines, Claimed
  <2> QED BY <1>1, <2>1, <2>2, JournalStep
<1>11. CASE SpawnFails(a)
  <2> DEFINE r == r0
             g == [g0 EXCEPT !.phase = "exited", !.res = "FINAL", !.clean = TRUE]
  <2>1. run' = [run EXCEPT ![a] = r] /\ act' = [act EXCEPT ![a] = g]
    BY <1>1, <1>11 DEF SpawnFails, Ends
  <2>2. StartedOK(r, g) /\ Advances(r0, r)
    BY <1>1, <1>2, <1>11 DEF SpawnFails, StartedOK, Advances, At, RunRows, Goroutines, Claimed
  <2> QED BY <1>1, <2>1, <2>2, JournalStep
<1>12. CASE RecordRuntimeStarted(a)
  <2> DEFINE r == [RuntimeRow(r0) EXCEPT !.seq = 1]
             g == [g0 EXCEPT !.phase = "running"]
  <2>1. run' = [run EXCEPT ![a] = r] /\ act' = [act EXCEPT ![a] = g]
    BY <1>1, <1>12 DEF RecordRuntimeStarted, Goes
  <2>2. StartedOK(r, g) /\ Advances(r0, r)
    BY <1>1, <1>2, <1>12 DEF RecordRuntimeStarted, StartedOK, Advances, At, RunRows, Goroutines, Claimed, RuntimeRow
  <2> QED BY <1>1, <2>1, <2>2, JournalStep
<1>13. CASE RecordVerifier(a)
  <2> DEFINE r == [r0 EXCEPT !.state = "RUNNING", !.pid = "verifier"]
             g == [g0 EXCEPT !.phase = "verifying"]
  <2>1. run' = [run EXCEPT ![a] = r] /\ act' = [act EXCEPT ![a] = g]
    BY <1>1, <1>13 DEF RecordVerifier, Goes
  <2>2. StartedOK(r, g) /\ Advances(r0, r)
    BY <1>1, <1>2, <1>13 DEF RecordVerifier, StartedOK, Advances, At, RunRows, Goroutines, Claimed
  <2> QED BY <1>1, <2>1, <2>2, JournalStep
<1>14. CASE Leave(a)
  <2> DEFINE r == r0
             g == Off
  <2>1. run' = [run EXCEPT ![a] = r] /\ act' = [act EXCEPT ![a] = g]
    BY <1>1, <1>14 DEF Leave, At
  <2>2. StartedOK(r, g) /\ Advances(r0, r)
    BY <1>1, <1>2, <1>14 DEF Leave, StartedOK, Advances, At, RunRows, Goroutines, Claimed, Off
  <2> QED BY <1>1, <2>1, <2>2, JournalStep
<1>15. CASE RecordFails(a)
  <2>1. PICK clean \in BOOLEAN, r \in {r0, RuntimeRow(r0)} :
          run' = [run EXCEPT ![a] = r] /\ Ends(a, "exited", "FINAL", clean)
    BY <1>1, <1>15 DEF RecordFails
  <2> DEFINE g == [g0 EXCEPT !.phase = "exited", !.res = "FINAL", !.clean = clean]
  <2>2. act' = [act EXCEPT ![a] = g] /\ run' = [run EXCEPT ![a] = r]
    BY <1>1, <2>1 DEF Ends
  <2>3. g0.phase \in {"spawned"}
    BY <1>1, <1>15 DEF RecordFails, At
  <2>4. StartedOK(r, g) /\ Advances(r0, r)
    BY ZenonT(60), <1>1, <1>2, <2>1, <2>3 DEF StartedOK, Advances, RunRows, Goroutines, Claimed, RuntimeRow
  <2> QED BY <1>1, <2>2, <2>4, JournalStep
<1>16. CASE RuntimeEnds(a)
  <2>1. PICK clean \in BOOLEAN, res \in {"OK", "RETRYABLE", "FINAL"} : Ends(a, "exited", res, clean)
    BY <1>1, <1>16 DEF RuntimeEnds
  <2> DEFINE g == [g0 EXCEPT !.phase = "exited", !.res = res, !.clean = clean]
  <2>2. act' = [act EXCEPT ![a] = g] /\ run' = [run EXCEPT ![a] = r0]
    BY ZenonT(60), <1>1, <1>16, <2>1 DEF RuntimeEnds, Ends
  <2>3. g0.phase \in {"running"}
    BY <1>1, <1>16 DEF RuntimeEnds, At
  <2>4. StartedOK(r0, g) /\ Advances(r0, r0)
    BY <1>1, <1>2, <2>1, <2>3 DEF StartedOK, Advances, RunRows, Goroutines, Claimed, RuntimeRow
  <2> QED BY <1>1, <2>2, <2>4, JournalStep
<1>17. CASE VerifierEnds(a)
  <2>1. PICK clean \in BOOLEAN, res \in {"OK", "FINAL"} : Ends(a, "verified", res, clean)
    BY <1>1, <1>17 DEF VerifierEnds
  <2> DEFINE g == [g0 EXCEPT !.phase = "verified", !.res = res, !.clean = clean]
  <2>2. act' = [act EXCEPT ![a] = g] /\ run' = [run EXCEPT ![a] = r0]
    BY ZenonT(60), <1>1, <1>17, <2>1 DEF VerifierEnds, Ends
  <2>3. g0.phase \in {"vspawned", "verifying"}
    BY <1>1, <1>17 DEF VerifierEnds, At
  <2>4. StartedOK(r0, g) /\ Advances(r0, r0)
    BY <1>1, <1>2, <2>1, <2>3 DEF StartedOK, Advances, RunRows, Goroutines, Claimed, RuntimeRow
  <2> QED BY <1>1, <2>2, <2>4, JournalStep
<1>18. CASE FenceVerifier(a)
  <2>1. CASE run' = [run EXCEPT ![a].state = "STARTING", ![a].pid = "none"] /\ Goes(a, "fenced")
    <3> DEFINE r == [r0 EXCEPT !.state = "STARTING", !.pid = "none"]
               g == [g0 EXCEPT !.phase = "fenced"]
    <3>1. run' = [run EXCEPT ![a] = r] /\ act' = [act EXCEPT ![a] = g]
      BY <1>1, <2>1 DEF Goes
    <3>2. StartedOK(r, g) /\ Advances(r0, r)
      BY <1>1, <1>2, <1>18 DEF FenceVerifier, Verifies, StartedOK, Advances, At, RunRows, Goroutines
    <3> QED BY <1>1, <3>1, <3>2, JournalStep
  <2>2. CASE UNCHANGED run /\ Ends(a, "verified", "RETRYABLE", TRUE)
    <3> DEFINE g == [g0 EXCEPT !.phase = "verified", !.res = "RETRYABLE", !.clean = TRUE]
    <3>1. run' = [run EXCEPT ![a] = r0] /\ act' = [act EXCEPT ![a] = g]
      BY <1>1, <2>2 DEF Ends
    <3>2. StartedOK(r0, g) /\ Advances(r0, r0)
      BY <1>1 DEF StartedOK, Advances, Goroutines
    <3> QED BY <1>1, <3>1, <3>2, JournalStep
  <2> QED BY <1>18, <2>1, <2>2 DEF FenceVerifier
<1>19. CASE SpawnVerifier(a)
  <2>1. PICK g \in {[g0 EXCEPT !.phase = "vspawned"],
                  [g0 EXCEPT !.phase = "verified", !.res = "FINAL", !.clean = TRUE]} :
          run' = [run EXCEPT ![a] = r0] /\ act' = [act EXCEPT ![a] = g]
    BY ZenonT(60), <1>1, <1>19 DEF SpawnVerifier, Goes, Ends
  <2>2. StartedOK(r0, g) /\ Advances(r0, r0)
    BY <1>1, <1>19, <2>1 DEF SpawnVerifier, StartedOK, Advances, At, Goroutines
  <2> QED BY <1>1, <2>1, <2>2, JournalStep
<1>20. CASE Finish(a)
  <2>1. PICK code \in FinalCodes(a), released \in BOOLEAN, bundled \in BOOLEAN :
          Complete(a, IF act[a].clean /\ released THEN Completion(code = "OK", TRUE, code, bundled)
                      ELSE Completion(FALSE, FALSE, "CLEANUP_UNCONFIRMED", bundled))
    BY <1>20 DEF Finish
  <2> DEFINE c == IF act[a].clean /\ released THEN Completion(code = "OK", TRUE, code, bundled)
                  ELSE Completion(FALSE, FALSE, "CLEANUP_UNCONFIRMED", bundled)
  <2>2. code \in {"OK", "RETRYABLE", "FINAL"} /\ (code = "OK" => g0.res = "OK")
    BY <1>1, <2>1 DEF FinalCodes, Goroutines
  <2>3. c \in Completions /\ (c.ok => code = "OK")
    <3>1. CASE act[a].clean /\ released
      BY <2>2, <3>1, CompletionFacts DEF Completion
    <3>2. CASE ~(act[a].clean /\ released)
      BY <3>2, CompletionFacts DEF Completion
    <3> QED BY <3>1, <3>2
  <2>4. g0.phase \in {"exited", "verified"}
    BY <1>1, <1>20 DEF Finish, At
  <2>5. c.ok => r0.seq = 1 /\ ~r0.completed
    <3>1. g0.res = "OK" => r0.seq = 1
      BY <1>1, <2>4 DEF StartedOK
    <3>2. r0.comp = NoCompletion /\ r0.state # "DONE"
      BY <1>1, <2>4 DEF Claimed
    <3>3. ~r0.completed
      BY <1>1, <3>2 DEF StartedOK
    <3> QED BY <2>2, <2>3, <3>1, <3>3
  <2> HIDE DEF c
  <2> QED BY <1>1, <2>1, <2>3, <2>5, CompleteStarted DEF c
<1> QED BY <1>4, <1>5, <1>6, <1>7, <1>8, <1>9, <1>10, <1>11, <1>12, <1>13, <1>14, <1>15, <1>16, <1>17, <1>18, <1>19, <1>20 DEF Execute

\* A step that changes neither journal nor goroutines.
LEMMA JournalKept == ASSUME Started, UNCHANGED <<run, act>> PROVE Journalled
  BY DEF Started, Journalled, Advances

\* accept(): start and stop commands, in any order and repeated.
LEMMA ReceiveStarted ==
    ASSUME IndInv, Started, NEW k \in Kinds, NEW a \in Attempts, ReceiveCommand(k, a)
    PROVE  Journalled /\ (k = "start" => run'[a].state # "NONE") /\ (k = "stop" => run'[a].stop)
<1>1. /\ run[a] \in RunRows /\ act[a] \in Goroutines /\ StartedOK(run[a], act[a])
      /\ run = [run EXCEPT ![a] = run[a]] /\ act = [act EXCEPT ![a] = act[a]]
      /\ run \in [Attempts -> RunRows]
  BY Typed DEF Started
<1>2. RowOK(Exists(a), Up(a), att[a].released, run[a], act[a], Alive(a))
  BY ReportFacts
<1>3. CASE k = "start" /\ run[a] # NoRun
  <2>1. UNCHANGED <<run, act>>
    BY <1>3 DEF ReceiveCommand, AcceptStart
  <2>2. run[a].state # "NONE"
    BY <1>1, <1>3 DEF StartedOK
  <2> QED BY <1>3, <2>1, <2>2, JournalKept
<1>4. CASE k = "start" /\ run[a] = NoRun
  <2>1. PICK r \in {Stored(NoRun, Failed("FINAL")), [NoRun EXCEPT !.state = "ACCEPTED"]},
             g \in {act[a], [Off EXCEPT !.phase = "waiting"]} :
          run' = [run EXCEPT ![a] = r] /\ act' = [act EXCEPT ![a] = g]
    BY <1>1, <1>4 DEF ReceiveCommand, AcceptStart
  <2>2. r.state # "NONE" /\ ~r.comp.ok /\ ~r.completed
    <3>1. Stored(NoRun, Failed("FINAL")) = [NoRun EXCEPT !.state = "DONE", !.comp = Failed("FINAL")]
      BY DEF Stored, NoRun
    <3>2. ~Failed("FINAL").ok /\ ~NoCompletion.ok
      BY DEF Failed, Completion, NoCompletion
    <3>3. CASE r = [NoRun EXCEPT !.state = "DONE", !.comp = Failed("FINAL")]
      BY <3>2, <3>3 DEF NoRun
    <3>4. CASE r = [NoRun EXCEPT !.state = "ACCEPTED"]
      BY <3>2, <3>4 DEF NoRun
    <3> QED BY <2>1, <3>1, <3>3, <3>4
  <2>3. g.phase \notin Claimed
    BY <1>2, <1>4, <2>1 DEF RowOK, NoRun, Off, Claimed
  <2>4. StartedOK(r, g) /\ Advances(run[a], r)
    BY <1>4, <2>2, <2>3 DEF StartedOK, Advances, Claimed, NoRun
  <2>5. run'[a] = r
    BY <1>1, <2>1
  <2> QED BY <1>4, <2>1, <2>2, <2>4, <2>5, JournalStep
<1>5. CASE k = "stop"
  <2> DEFINE r1 == IF run[a].state \in {"NONE", "ACCEPTED"} THEN Stored(run[a], Failed("FINAL")) ELSE run[a]
             r == [r1 EXCEPT !.stop = TRUE]
  <2>1. PICK g \in {act[a], [act[a] EXCEPT !.cancel = "pending"]} :
          run' = [run EXCEPT ![a] = r] /\ act' = [act EXCEPT ![a] = g]
    BY <1>1, <1>5 DEF ReceiveCommand, AcceptStop
  <2>2. Failed("FINAL") \in Completions /\ ~Failed("FINAL").ok /\ Failed("FINAL") # NoCompletion
    BY CompletionFacts DEF Failed, Completion
  <2>3. r1 \in RunRows /\ r1.seq = run[a].seq /\ r1.completed = run[a].completed
    <3> DEFINE q == [run[a] EXCEPT !.state = "DONE", !.comp = Failed("FINAL")]
    <3>1. q \in RunRows /\ q.seq = run[a].seq /\ q.completed = run[a].completed
      BY <1>1, <2>2 DEF RunRows
    <3>2. r1 \in {q, run[a]}
      BY DEF Stored
    <3> QED BY <1>1, <3>1, <3>2
  <2>4. /\ r1.comp = run[a].comp \/ r1.comp = Failed("FINAL")
        /\ run[a].comp # NoCompletion => r1.comp = run[a].comp
        /\ r1.state # "NONE" /\ (run[a].state \notin {"NONE", "ACCEPTED"} => r1 = run[a])
    BY <1>1, <1>2 DEF RunRows, Stored, RowOK
  <2> HIDE DEF r1
  <2>5. /\ r.seq = run[a].seq /\ r.completed = run[a].completed /\ r.comp = r1.comp
        /\ r.stop = TRUE /\ r.state = r1.state
    BY <2>3 DEF RunRows
  <2>6. g.phase = act[a].phase /\ g.res = act[a].res
    BY <1>1, <2>1 DEF Goroutines
  <2> HIDE DEF r
  <2>7. StartedOK(r, g)
    BY <1>1, <2>2, <2>4, <2>5, <2>6 DEF StartedOK
  <2>8. Advances(run[a], r) /\ r.stop = TRUE
    BY <2>4, <2>5 DEF Advances
  <2>9. run'[a] = r
    BY <1>1, <2>1
  <2> QED BY <1>5, <2>1, <2>7, <2>8, <2>9, JournalStep
<1> QED BY <1>3, <1>4, <1>5 DEF Kinds

\* Reports, recovery and everything else a Worker does outside of execute().
LEMMA OtherStarted ==
    ASSUME IndInv, Started, NEW a \in Attempts, NEW answered \in BOOLEAN,
           \/ ReportEvents(a, answered) \/ UploadArtifact(a, answered) \/ ReportCompletion(a, answered)
           \/ UploadRejected(a) \/ RecoverRun(a) \/ CancelRun(a) \/ LocalLeaseEnds(a)
           \/ \E ok \in BOOLEAN : ReceiveGrant(a, ok)
    PROVE  Journalled
<1>1. /\ run[a] \in RunRows /\ act[a] \in Goroutines /\ StartedOK(run[a], act[a])
      /\ run = [run EXCEPT ![a] = run[a]] /\ act = [act EXCEPT ![a] = act[a]]
  BY Typed DEF Started
<1>2. RowOK(Exists(a), Up(a), att[a].released, run[a], act[a], Alive(a))
  BY ReportFacts
<1>3. CASE ReportEvents(a, answered) \/ UploadArtifact(a, answered)
  <2>1. PICK r \in {run[a], [run[a] EXCEPT !.ack = 1], [run[a] EXCEPT !.uploaded = TRUE]} :
          run' = [run EXCEPT ![a] = r] /\ act' = act
    BY <1>1, <1>3 DEF ReportEvents, UploadArtifact
  <2>2. run[a].state # "NONE"
    BY <1>3 DEF ReportEvents, UploadArtifact, Uploading, Flushing
  <2>3. StartedOK(r, act[a]) /\ Advances(run[a], r)
    BY <1>1, <2>1, <2>2 DEF StartedOK, Advances, RunRows
  <2> QED BY <1>1, <2>1, <2>3, JournalStep
<1>4. CASE ReportCompletion(a, answered)
  <2>1. PICK r \in {run[a], Closed(run[a])} : run' = [run EXCEPT ![a] = r] /\ act' = act
    BY <1>1, <1>4 DEF ReportCompletion
  <2>2. run[a].comp # NoCompletion
    BY <1>4 DEF ReportCompletion, Completing, Recorded
  <2>3. act[a].phase \notin Claimed
    BY <1>2, <2>2 DEF RowOK
  <2>4. StartedOK(r, act[a]) /\ Advances(run[a], r)
    BY <1>1, <2>1, <2>2, <2>3 DEF StartedOK, Advances, Closed, NoRun, Claimed
  <2> QED BY <1>1, <2>1, <2>4, JournalStep
<1>5. CASE UploadRejected(a)
  <2> DEFINE c == [run[a].comp EXCEPT !.ok = FALSE, !.code = "RETRYABLE", !.art = FALSE]
             r == [run[a] EXCEPT !.uploaded = TRUE, !.comp = c]
  <2>1. run' = [run EXCEPT ![a] = r] /\ act' = act
    BY <1>1, <1>5 DEF UploadRejected
  <2>2. run[a].state # "NONE" /\ ~run[a].completed
    BY <1>5 DEF UploadRejected, Uploading, Flushing
  <2>3. c.ok = FALSE
    BY <1>1 DEF RunRows, Completions
  <2>4. StartedOK(r, act[a]) /\ Advances(run[a], r)
    BY <1>1, <2>2, <2>3 DEF StartedOK, Advances, RunRows
  <2> QED BY <1>1, <2>1, <2>4, JournalStep
<1>6. CASE RecoverRun(a)
  <2>1. PICK c \in {Failed("WORKER_RESTARTED"), Completion(FALSE, FALSE, "CLEANUP_UNCONFIRMED", FALSE)} :
          run' = [run EXCEPT ![a] = [Stored(run[a], c) EXCEPT !.ack = run[a].seq]] /\ act' = act
    BY <1>1, <1>6 DEF RecoverRun
  <2>2. c \in Completions /\ c.ok = FALSE
    <3>1. Completion(FALSE, FALSE, "CLEANUP_UNCONFIRMED", FALSE).ok = FALSE /\ Failed("WORKER_RESTARTED").ok = FALSE
      BY DEF Completion, Failed
    <3> QED BY <2>1, <3>1, CompletionFacts
  <2> DEFINE r == [Stored(run[a], c) EXCEPT !.ack = run[a].seq]
  <2>3. /\ r.seq = run[a].seq /\ r.completed = run[a].completed /\ r.stop = run[a].stop
        /\ r.state = "DONE" /\ r.comp = c
    <3>1. run[a].comp = NoCompletion
      BY <1>6 DEF RecoverRun, Interrupted, Recorded
    <3>2. Stored(run[a], c) = [run[a] EXCEPT !.state = "DONE", !.comp = c]
      BY <3>1 DEF Stored
    <3> QED BY <1>1, <3>2 DEF RunRows
  <2> HIDE DEF r
  <2>4. run[a].completed = FALSE /\ c # NoCompletion
    <3>1. c # NoCompletion
      BY <2>1, CompletionFacts
    <3>2. run[a].comp = NoCompletion
      BY <1>6 DEF RecoverRun, Interrupted, Recorded
    <3> QED BY <1>1, <3>1, <3>2 DEF StartedOK, RunRows
  <2>5. StartedOK(r, act[a]) /\ Advances(run[a], r)
    BY <1>1, <2>2, <2>3, <2>4 DEF StartedOK, Advances
  <2> QED BY <1>1, <2>1, <2>5, JournalStep DEF r
<1>7. CASE CancelRun(a) \/ LocalLeaseEnds(a) \/ \E ok \in BOOLEAN : ReceiveGrant(a, ok)
  <2>1. PICK g \in {act[a], [act[a] EXCEPT !.cancel = "yes"], [act[a] EXCEPT !.phase = "ready"]} :
          act' = [act EXCEPT ![a] = g] /\ run' = run
    BY <1>1, <1>7 DEF CancelRun, LocalLeaseEnds, ReceiveGrant, TakeGrant
  <2>2. StartedOK(run[a], g) /\ Advances(run[a], run[a])
    BY <1>1, <2>1 DEF StartedOK, Advances, Goroutines
  <2> QED BY <1>1, <2>1, <2>2, JournalStep
<1> QED BY <1>3, <1>4, <1>5, <1>6, <1>7

\* In every step, no journal row claims success without a recorded start, and no row
\* or accepted stop is forgotten.
LEMMA JournalMoves == ASSUME IndInv, Started, Next PROVE Journalled
<1>1. ASSUME NEW w \in Workers, Crash(w) PROVE Journalled
  <2>1. run' = run /\ \A a \in Attempts : act'[a] \in {Off, act[a]}
    BY <1>1 DEF Crash
  <2>2. ASSUME NEW a \in Attempts PROVE StartedOK(run'[a], act'[a])
    BY <2>1, <2>2 DEF Started, StartedOK, Off
  <2> QED BY <2>1, <2>2 DEF Started, Journalled, Advances
<1>2. CASE \E w \in Workers : Boot(w) \/ Probe(w)
  BY <1>2, JournalKept DEF Boot, Probe
<1>3. CASE Restart
  BY <1>1, <1>2, <1>3, OtherStarted DEF Restart
<1>4. CASE Processing
  BY <1>4, ExecuteStarted, JournalKept DEF Processing, Fork, ProcessExits
<1>5. ASSUME NEW a \in Attempts, Renew(a) PROVE Journalled
  BY <1>5, JournalKept DEF Renew, workerVars
<1>6. CASE Unnoticed
  BY <1>3, <1>4, <1>5, <1>6, OtherStarted DEF Unnoticed
<1>7. CASE Sessions
  <2>1. CASE \E k \in Kinds, a \in Attempts : ReceiveCommand(k, a)
    BY <2>1, ReceiveStarted
  <2>2. CASE ~\E k \in Kinds, a \in Attempts : ReceiveCommand(k, a)
    <3>1. UNCHANGED <<run, act>>
      BY <1>7, <2>2 DEF Sessions, TickSnapshot, ServerRestart, Connect, Disconnect, SendCommand,
         ExtendJobDeadline, DeadlinePasses, workerVars
    <3> QED BY <3>1, JournalKept
  <2> QED BY <2>1, <2>2
<1>8. CASE \/ Reconcile \/ \E a \in Attempts : LeaseExpires(a)
           \/ \E t \in Tasks : \/ SubmitTask(t) \/ CancelTask(t) \/ CancelJob(t) \/ ManualRetry(t)
                               \/ AdvanceJob(t) \/ AssignExpired(t) \/ \E w \in Workers : Assign(t, w)
  <2>1. UNCHANGED <<run, act>>
    BY <1>8 DEF Reconcile, LeaseExpires, SubmitTask, CancelTask, CancelJob, ManualRetry, AdvanceJob,
       AssignExpired, Assign, workerVars
  <2> QED BY <2>1, JournalKept
<1> QED BY <1>6, <1>7, <1>8, NextCases, OtherStarted

-----------------------------------------------------------------------------
(* Records: success is earned.                                             *)

\* Only the Job of a submitted, managed Task changes.
LEMMA JobMoves ==
    ASSUME IndInv, Next, NEW t \in Tasks
    PROVE  job'[t] = job[t] \/ (t \in Managed /\ task[t].state # "NONE")
<1>1. job \in [Tasks -> StopReasons \cup {"open", "SUCCEEDED"}]
  BY Typed
<1>2. CASE Unnoticed \/ Sessions \/ Reconcile
  BY <1>2, UnnoticedFrame, SessionsFrame DEF serverVars, Reconcile
<1>3. ASSUME NEW u \in Tasks, CancelJob(u) \/ ManualRetry(u) \/ AdvanceJob(u)
      PROVE  job'[t] = job[t] \/ (t \in Managed /\ task[t].state # "NONE")
  <2>1. u \in Managed /\ task[u].state # "NONE" /\ \E v : job' = [job EXCEPT ![u] = v]
    BY <1>3 DEF CancelJob, ManualRetry, AdvanceJob
  <2> QED BY <1>1, <2>1
<1>4. CASE \E u \in Tasks : \/ SubmitTask(u) \/ CancelTask(u) \/ AssignExpired(u)
                            \/ \E w \in Workers : Assign(u, w)
  BY <1>4 DEF SubmitTask, CancelTask, AssignExpired, Assign
<1>5. CASE \E a \in Attempts : \/ LeaseExpires(a)
                               \/ \E answered \in BOOLEAN :
                                    \/ ReportEvents(a, answered) \/ UploadArtifact(a, answered)
                                    \/ ReportCompletion(a, answered)
  BY <1>5 DEF LeaseExpires, ReportEvents, UploadArtifact, ReportCompletion
<1> QED BY <1>2, <1>3, <1>4, <1>5, NextCases

\* An Attempt that exists goes on existing.
LEMMA ExistsStays ==
    ASSUME IndInv, Records, Next, NEW a \in Attempts, Exists(a)
    PROVE  Exists(a)'
<1>1. CASE Touched(a)
  BY <1>1 DEF Touched, Exists
<1>2. CASE Concluded(a)
  BY <1>2, ConcludedRow DEF Exists
<1>3. CASE Assigned(a)
  <2>1. PICK w \in Workers : att'[a] = [NoAttempt EXCEPT !.worker = w, !.epoch = snap[w], !.lease = "valid"]
    BY <1>3 DEF Assigned
  <2>2. att'[a].worker = w
    BY <2>1 DEF NoAttempt
  <2> QED BY <2>2, Bounds DEF Exists
<1> QED BY <1>1, <1>2, <1>3, AttemptMoves DEF AttemptMove

\* A dispatched Task points to the Attempt that assign() created.
LEMMA DispatchCreates ==
    ASSUME IndInv, Records, Next, NEW t \in Tasks, Dispatched(t)
    PROVE  att'[<<t, task[t].gen + 1>>].worker # None
<1> DEFINE g == task[t].gen + 1
<1>1. task[t] \in TaskRows /\ task \in [Tasks -> TaskRows] /\ task[t].gen \in Nat /\ TaskOK(t, task[t])
  BY Typed DEF TaskRows, IndInv, Ledger
<1>2. task[t].state = "QUEUED" /\ task'[t].state = "STARTING"
  BY DEF Dispatched
<1>3. g \in Gens /\ <<t, g>> \in Attempts
  BY <1>1, <1>2, Bounds DEF TaskOK, TaskRows, Gens, Attempts
<1>4. PICK w \in Workers : att' = [att EXCEPT ![<<t, g>>] =
                                      [NoAttempt EXCEPT !.worker = w, !.epoch = snap[w], !.lease = "valid"]]
  BY DEF Assign, Dispatched
<1>5. att'[<<t, g>>].worker = w
  BY <1>3, <1>4, Typed DEF NoAttempt
<1> QED BY <1>5, Bounds

\* The Task and Job rows stay in order.
LEMMA RecordStep ==
    ASSUME IndInv, Records, Next, NEW t \in Tasks
    PROVE  RecordOK(t)'
<1>1. /\ task[t] \in TaskRows /\ RecordOK(t) /\ task[t].gen \in Nat /\ task[t].gen \in 0 .. MaxAttempts
      /\ task[t].state \in TaskStates
  BY Typed DEF Records, TaskRows
<1>2. /\ t \notin Managed => job'[t] = "open"
      /\ job'[t] # "open" => task[t].state # "NONE"
  BY <1>1, JobMoves DEF RecordOK
<1>3. ASSUME NEW g, g = task[t].att, g # 0 PROVE Exists(<<t, g>>)'
  <2>1. <<t, g>> \in Attempts
    BY <1>1, <1>3, Bounds DEF RecordOK, Attempts, Gens
  <2> QED BY <1>1, <1>3, <2>1, ExistsStays DEF RecordOK
<1>4. CASE task'[t] = task[t]
  BY <1>1, <1>2, <1>3, <1>4 DEF RecordOK
<1>5. ASSUME NEW from, NEW to, Moved(t, from, to),
             "NONE" \notin to,
             "QUEUED" \in to => from = {"NONE"},
             to \cap (Executing \cup Stopping) # {} => from \subseteq Executing \cup Stopping
      PROVE  RecordOK(t)'
  <2>1. /\ task'[t].att = task[t].att /\ task'[t].gen = task[t].gen
        /\ task[t].state \in from /\ task'[t].state \in to
    BY <1>5 DEF Moved
  <2>2. task'[t].state # "NONE" /\ (task'[t].state = "QUEUED" => task[t].att = 0)
    BY <1>1, <1>5, <2>1 DEF RecordOK
  <2>3. task'[t].state \in Executing \cup Stopping => task[t].att # 0
    BY <1>1, <1>5, <2>1 DEF RecordOK
  <2> QED BY <1>1, <1>2, <1>3, <2>1, <2>2, <2>3 DEF RecordOK
<1>6. CASE Dispatched(t)
  <2>1. /\ task'[t].state = "STARTING" /\ task'[t].att = task[t].gen + 1 /\ task'[t].gen = task[t].gen + 1
    BY <1>6 DEF Dispatched
  <2>2. Exists(<<t, task[t].att>>)'
    BY <1>6, <2>1, DispatchCreates DEF Exists
  <2> QED BY <1>1, <1>2, <2>1, <2>2 DEF RecordOK
<1>7. CASE task'[t] = Requeue(task[t])
  <2>1. task'[t].state = "QUEUED" /\ task'[t].att = 0
    BY <1>1, <1>7 DEF Requeue, TaskRows
  <2> QED BY <1>2, <2>1 DEF RecordOK, Executing, Stopping
<1>8. CASE Moved(t, {"NONE"}, {"QUEUED"})
  BY <1>5, <1>8 DEF Executing, Stopping
<1>9. CASE Moved(t, {"STARTING"}, {"RUNNING"}) \/ Moved(t, {"RECONCILING"}, {"CANCELING"})
  BY <1>5, <1>9 DEF Executing, Stopping
<1>10. CASE Moved(t, Executing, Stopping)
  BY <1>5, <1>10 DEF Executing, Stopping
<1>11. CASE Moved(t, {"QUEUED"} \cup Executing \cup Stopping, {"CANCELED", "FAILED"})
            \/ Moved(t, Executing, {"SUCCEEDED"})
  BY <1>5, <1>11 DEF Executing, Stopping
<1> QED BY <1>4, <1>6, <1>7, <1>8, <1>9, <1>10, <1>11, TaskMoves DEF TaskMove, Requeued

\* The row of a Task that succeeded never changes again.
LEMMA SuccessStays ==
    ASSUME IndInv, Records, Next, NEW t \in Tasks, task[t].state = "SUCCEEDED"
    PROVE  task'[t] = task[t]
  BY TaskMoves DEF TaskMove, Moved, Dispatched, Requeued, Executing, Stopping

\* A Task that wins is SUCCEEDED from then on, with the winning Attempt as its current one.
LEMMA WinSucceeds ==
    ASSUME IndInv, Records, NEW a \in Attempts, Wins(a)
    PROVE  task'[TaskOf(a)].state = "SUCCEEDED" /\ task'[TaskOf(a)].att = Gen(a)
<1> DEFINE t == TaskOf(a)
<1>1. t \in Tasks /\ task[t] \in TaskRows /\ task \in [Tasks -> TaskRows]
  BY AttemptParts, Typed
<1>2. task[t].state \in Executing \cup Stopping /\ task[t].att = Gen(a)
  BY UncommittedIsOpen DEF Wins, Concluded, Current
<1>3. \E c : task'[t] = SetState(task[t], "SUCCEEDED", c)
  BY <1>1 DEF Wins, Concluded, Commit
<1>4. task[t].state \notin Terminal
  BY <1>2 DEF Executing, Stopping, Terminal
<1> QED BY <1>1, <1>2, <1>3, <1>4 DEF SetState, TaskRows

\* What a winning Attempt has committed.
LEMMA WinIsEarned ==
    ASSUME IndInv, Records, Started, NEW a \in Attempts, Wins(a)
    PROVE  /\ att'[a].released /\ att'[a].final.ok /\ att'[a].final.clean
           /\ att'[a].seq = 1 /\ art'[a] = "ACCEPTED"
<1>1. task[TaskOf(a)].state \in Executing \cup Stopping
  BY UncommittedIsOpen DEF Wins, Concluded
<1>2. run[a].comp.ok /\ ~EpochChanged(a) /\ run[a].comp.clean
  BY <1>1, OutcomeFacts DEF Wins, Concluded
<1>3. att[a].seq = run[a].seq
  BY <1>2 DEF Wins, Concluded, MayComplete, Recorded
<1>4. run[a].seq = 1
  BY <1>2 DEF Wins, Concluded, Started, StartedOK
<1> QED BY <1>2, <1>3, <1>4, ConcludedRow DEF Wins

\* Success stays earned.
LEMMA EarnedStep ==
    ASSUME IndInv, Records, Started, Next, NEW t \in Tasks, task'[t].state = "SUCCEEDED"
    PROVE  EarnedBy(t)'
<1>1. CASE task[t].state = "SUCCEEDED"
  <2> DEFINE a == CurrentOf(t)
  <2>1. task'[t] = task[t] /\ EarnedBy(t)
    BY <1>1, SuccessStays DEF Records
  <2>2. a \in Attempts
    BY <2>1, Typed, Bounds DEF EarnedBy, HasAttempt, CurrentOf, TaskRows, Attempts, Gens
  <2>3. a' = a
    BY <2>1 DEF CurrentOf
  <2>4. ~Concluded(a) /\ ~Assigned(a)
    <3>1. att[a].final # NoCompletion
      BY <2>1 DEF EarnedBy, NoCompletion, Completion
    <3>2. TaskOf(a) = t
      BY DEF CurrentOf, TaskOf
    <3> QED BY <1>1, <3>1, <3>2 DEF Concluded, Assigned
  <2>5. Touched(a) /\ art'[a] = art[a]
    BY <2>1, <2>2, <2>4, AttemptMoves, ArtifactMoves DEF AttemptMove, EarnedBy
  <2>6. /\ att'[a].released /\ att'[a].final.ok /\ att'[a].final.clean /\ att'[a].seq = 1
        /\ art'[a] = "ACCEPTED"
    BY <2>1, <2>5 DEF EarnedBy, Touched
  <2> QED BY <2>1, <2>3, <2>6 DEF EarnedBy, HasAttempt, CurrentOf
<1>2. CASE task[t].state # "SUCCEEDED"
  <2>1. PICK a \in Attempts : TaskOf(a) = t /\ Wins(a)
    <3>1. task[t] \in TaskRows
      BY Typed
    <3>2. ~Dispatched(t) /\ task'[t] # Requeue(task[t])
      <4>1. Requeue(task[t]).state = "QUEUED"
        BY <3>1 DEF Requeue, TaskRows
      <4>2. Dispatched(t) => task'[t].state = "STARTING"
        BY DEF Dispatched
      <4> QED BY <4>1, <4>2
    <3> QED BY <1>2, <3>2, TaskMoves DEF TaskMove, Moved, Requeued, Stopping
  <2>2. task'[t].att = Gen(a) /\ Gen(a) # 0 /\ a = <<t, Gen(a)>>
    BY <2>1, WinSucceeds, AttemptParts
  <2>3. CurrentOf(t)' = a
    BY <2>2 DEF CurrentOf
  <2> QED BY <2>1, <2>2, <2>3, WinIsEarned DEF EarnedBy, HasAttempt, CurrentOf
<1> QED BY <1>1, <1>2

\* Every step keeps the records in order.
LEMMA RecordsStep == ASSUME IndInv, Records, Started, Next PROVE Records'
<1>1. ASSUME NEW t \in Tasks PROVE RecordOK(t)' /\ (task'[t].state = "SUCCEEDED" => EarnedBy(t)')
  BY RecordStep, EarnedStep
<1>2. ASSUME NEW a \in Attempts, att'[a].released PROVE att'[a].final # NoCompletion
  <2>1. CASE Touched(a)
    BY <1>2, <2>1 DEF Touched, Records
  <2>2. CASE Concluded(a)
    BY <2>2, ConcludedRow DEF Concluded, Recorded
  <2>3. ~Assigned(a)
    BY <1>2 DEF Assigned, NoAttempt
  <2> QED BY <2>1, <2>2, <2>3, AttemptMoves DEF AttemptMove
<1>3. ASSUME NEW a \in Attempts, art'[a] = "ACCEPTED"
      PROVE  task'[TaskOf(a)].state = "SUCCEEDED" /\ task'[TaskOf(a)].att = Gen(a)
  <2>1. CASE art[a] = "ACCEPTED"
    BY <2>1, SuccessStays, AttemptParts DEF Records
  <2>2. CASE art[a] # "ACCEPTED"
    <3>1. Wins(a)
      BY <1>3, <2>2, ArtifactMoves, ConcludedRow DEF ArtifactMove
    <3> QED BY <3>1, WinSucceeds
  <2> QED BY <2>1, <2>2
<1> QED BY <1>1, <1>2, <1>3 DEF Records

-----------------------------------------------------------------------------
(* Counted: the limits of assign() hold.                                   *)

\* A set of open Attempts that gains at most one member stays within a limit that it
\* had not reached.
LEMMA WithinLimit ==
    ASSUME NEW S, IsFiniteSet(S), NEW T, NEW x, T \subseteq S \cup {x},
           NEW n \in Nat, Cardinality(S) < n
    PROVE  IsFiniteSet(T) /\ Cardinality(T) <= n
<1>1. IsFiniteSet(S \cup {x}) /\ Cardinality(S \cup {x}) \in {Cardinality(S), Cardinality(S) + 1}
  BY FS_AddElement
<1>2. IsFiniteSet(T) /\ Cardinality(T) <= Cardinality(S \cup {x})
  BY <1>1, FS_Subset
<1>3. Cardinality(S) \in Nat /\ Cardinality(T) \in Nat /\ Cardinality(S \cup {x}) \in Nat
  BY <1>1, <1>2, FS_CardinalityType
<1> QED BY <1>1, <1>2, <1>3

\* Without an assignment no Attempt becomes open.
LEMMA OpenShrinks ==
    ASSUME IndInv, Records, Next, \A t \in Tasks, w \in Workers : ~Assign(t, w),
           NEW a \in Attempts, Open(a)'
    PROVE  Open(a) /\ att'[a].worker = att[a].worker
<1>1. TaskOf(a) \in Tasks
  BY AttemptParts
<1>2. ~Assigned(a)
  BY <1>1 DEF Assigned
<1>3. ~Concluded(a)
  BY ConcludedRow DEF Open
<1>4. Touched(a)
  BY <1>2, <1>3, AttemptMoves DEF AttemptMove
<1> QED BY <1>4 DEF Touched, Open, Exists

\* Every step keeps the counts within their limits.
LEMMA CountedStep == ASSUME IndInv, Records, Counted, Next PROVE Counted'
<1>1. ProjectLimit \in Nat /\ Slots \in Nat
  BY StateAssumption DEF StateAssumption
<1>2. \A w \in Workers : OpenOn(w) \subseteq OpenAttempts /\ IsFiniteSet(OpenOn(w))
  <2>1. \A w \in Workers : OpenOn(w) \subseteq OpenAttempts
    BY DEF OpenOn
  <2> QED BY <2>1, FS_Subset DEF Counted
<1>3. CASE \A t \in Tasks, w \in Workers : ~Assign(t, w)
  <2>1. \A a \in Attempts : Open(a)' => Open(a) /\ att'[a].worker = att[a].worker
    BY <1>3, OpenShrinks
  <2>2. OpenAttempts' \subseteq OpenAttempts
    BY <2>1 DEF OpenAttempts
  <2>3. IsFiniteSet(OpenAttempts') /\ Cardinality(OpenAttempts') <= Cardinality(OpenAttempts)
    BY <2>2, FS_Subset DEF Counted
  <2>4. Cardinality(OpenAttempts') <= ProjectLimit
    BY <1>1, <2>3, FS_CardinalityType DEF Counted
  <2>5. ASSUME NEW w \in Workers PROVE Cardinality(OpenOn(w)') <= Slots
    <3>1. OpenOn(w)' \subseteq OpenOn(w)
      BY <2>1 DEF OpenOn, OpenAttempts, WorkerOf
    <3>2. IsFiniteSet(OpenOn(w)') /\ Cardinality(OpenOn(w)') <= Cardinality(OpenOn(w))
      BY <1>2, <2>5, <3>1, FS_Subset
    <3>3. Cardinality(OpenOn(w)) <= Slots /\ Cardinality(OpenOn(w)) \in Nat /\ Cardinality(OpenOn(w)') \in Nat
      BY <1>2, <2>5, <3>2, FS_CardinalityType DEF Counted
    <3> QED BY <1>1, <3>2, <3>3
  <2> QED BY <2>3, <2>4, <2>5 DEF Counted
<1>4. ASSUME NEW t \in Tasks, NEW w \in Workers, Assign(t, w) PROVE Counted'
  <2> DEFINE a == <<t, task[t].gen + 1>>
             row == [NoAttempt EXCEPT !.worker = w, !.epoch = snap[w], !.lease = "valid"]
  <2>1. /\ att' = [att EXCEPT ![a] = row]
        /\ Cardinality(OpenAttempts) < ProjectLimit /\ Cardinality(OpenOn(w)) < Slots
    BY <1>4 DEF Assign
  <2>2. \A b \in Attempts : b # a => att'[b] = att[b]
    BY <2>1, Typed
  <2>3. OpenAttempts' \subseteq OpenAttempts \cup {a}
    BY <2>2 DEF OpenAttempts, Open, Exists
  <2>4. IsFiniteSet(OpenAttempts') /\ Cardinality(OpenAttempts') <= ProjectLimit
    BY <1>1, <2>1, <2>3, WithinLimit DEF Counted
  <2>5. Cardinality(OpenOn(w)') <= Slots
    <3>1. OpenOn(w)' \subseteq OpenOn(w) \cup {a}
      BY <2>2 DEF OpenOn, OpenAttempts, Open, Exists, WorkerOf
    <3> QED BY <1>1, <1>2, <2>1, <3>1, WithinLimit
  <2>6. ASSUME NEW v \in Workers, v # w PROVE Cardinality(OpenOn(v)') <= Slots
    <3>1. a \in Attempts => att'[a].worker = w
      BY <2>1, Typed DEF NoAttempt
    <3>2. OpenOn(v)' \subseteq OpenOn(v)
      BY <2>2, <2>6, <3>1 DEF OpenOn, OpenAttempts, Open, Exists, WorkerOf
    <3>3. IsFiniteSet(OpenOn(v)') /\ Cardinality(OpenOn(v)') <= Cardinality(OpenOn(v))
      BY <1>2, <2>6, <3>2, FS_Subset
    <3>4. Cardinality(OpenOn(v)) <= Slots /\ Cardinality(OpenOn(v)) \in Nat /\ Cardinality(OpenOn(v)') \in Nat
      BY <1>2, <2>6, <3>3, FS_CardinalityType DEF Counted
    <3> QED BY <1>1, <3>3, <3>4
  <2> QED BY <2>4, <2>5, <2>6 DEF Counted
<1> QED BY <1>3, <1>4

-----------------------------------------------------------------------------
(* Delivered: an acknowledged command is in the journal.                   *)

\* Only probe() changes the epoch of a Worker process, and only upwards.
LEMMA EpochGrows ==
    ASSUME IndInv, Next, NEW w \in Workers
    PROVE  epoch'[w] \in {epoch[w], epoch[w] + 1} /\ (Unnoticed \/ epoch' = epoch)
<1>1. CASE Unnoticed
  <2>1. CASE \E v \in Workers : Probe(v)
    <3>1. PICK v \in Workers : epoch' = [epoch EXCEPT ![v] = @ + 1]
      BY <2>1 DEF Probe
    <3> QED BY <1>1, <3>1, Typed
  <2>2. CASE ~\E v \in Workers : Probe(v)
    <3>1. CASE Processing
      <4>1. PICK a \in Attempts : Execute(a) \/ Fork(a) \/ \E p \in Processes : ProcessExits(a, p)
        BY <3>1 DEF Processing
      <4>2. CASE Execute(a)
        BY <4>2 DEF Execute, LeaseLost, ExecuteBegin, PrepareWorkspace, PrepareFails, MarkInUse,
             EnvironmentFails, Spawn, SpawnFails, RecordRuntimeStarted, RecordFails, RuntimeEnds,
             FenceVerifier, SpawnVerifier, RecordVerifier, VerifierEnds, Finish, Leave
      <4> QED BY <4>1, <4>2 DEF Fork, ProcessExits
    <3>2. CASE Restart
      BY <2>2, <3>2 DEF Restart, Crash, Boot, RecoverRun
    <3>3. CASE \E a \in Attempts :
                 \/ CancelRun(a) \/ LocalLeaseEnds(a) \/ Renew(a) \/ UploadRejected(a)
                 \/ \E ok \in BOOLEAN : ReceiveGrant(a, ok)
      BY <3>3 DEF CancelRun, LocalLeaseEnds, Renew, UploadRejected, ReceiveGrant, workerVars
    <3> QED BY <1>1, <3>1, <3>2, <3>3 DEF Unnoticed
  <2> QED BY <2>1, <2>2
<1>2. CASE Sessions
  BY <1>2 DEF Sessions, TickSnapshot, ServerRestart, Connect, Disconnect, SendCommand, ReceiveCommand,
     ExtendJobDeadline, DeadlinePasses, workerVars
<1>3. CASE \/ Reconcile \/ \E a \in Attempts : LeaseExpires(a)
           \/ \E t \in Tasks : \/ SubmitTask(t) \/ CancelTask(t) \/ CancelJob(t) \/ ManualRetry(t)
                               \/ AdvanceJob(t) \/ AssignExpired(t) \/ \E v \in Workers : Assign(t, v)
  BY <1>3 DEF Reconcile, LeaseExpires, SubmitTask, CancelTask, CancelJob, ManualRetry, AdvanceJob,
     AssignExpired, Assign, workerVars
<1>4. CASE \E a \in Attempts, answered \in BOOLEAN :
             ReportEvents(a, answered) \/ UploadArtifact(a, answered) \/ ReportCompletion(a, answered)
  BY <1>4 DEF ReportEvents, UploadArtifact, ReportCompletion
<1> QED BY <1>1, <1>2, <1>3, <1>4, NextCases

\* The Worker of an Attempt that exists.
LEMMA WorkerTyped == ASSUME IndInv, NEW a \in Attempts, Exists(a) PROVE WorkerOf(a) \in Workers
  BY Typed DEF Exists, WorkerOf, AttemptRows

\* Stop commands are written for Attempts that exist.
LEMMA CurrentExists ==
    ASSUME IndInv, Records, NEW t \in Tasks, HasAttempt(t)
    PROVE  CurrentOf(t) \in Attempts /\ Exists(CurrentOf(t))
  BY Typed, Bounds DEF Records, RecordOK, HasAttempt, CurrentOf, TaskRows, Attempts, Gens

\* Who may mark a command acknowledged: the session that received the Worker's answer,
\* or gave up on a command that cannot be delivered, and the release of the Attempt.
LEMMA CommandMoves ==
    ASSUME IndInv, Records, Next, NEW a \in Attempts, NEW k \in Kinds, cmd'[a][k] = "acked"
    PROVE  \/ cmd[a][k] = "acked" \/ ReceiveCommand(k, a) \/ Concluded(a)
           \/ Exists(a) /\ session[WorkerOf(a)] # 0 /\ ~CommandDeliverable(a)
                /\ UNCHANGED <<task, att, session, epoch>>
<1>1. cmd \in [Attempts -> [Kinds -> CommandStates]] /\ cmd[a] \in [Kinds -> CommandStates]
  BY Typed
<1>2. \A c \in [Kinds -> CommandStates] : StopCommand(c)[k] = "acked" => c[k] = "acked"
  BY DEF StopCommand, Kinds
<1>3. CASE UNCHANGED cmd
  BY <1>3
<1>4. ASSUME NEW j \in Kinds, NEW b \in Attempts, SendCommand(j, b), ~(b = a /\ j = k)
      PROVE  cmd[a][k] = "acked"
  BY <1>1, <1>4 DEF SendCommand
<1>5. CASE SendCommand(k, a)
  BY <1>1, <1>5 DEF SendCommand, workerVars
<1>6. ASSUME NEW j \in Kinds, NEW b \in Attempts, ReceiveCommand(j, b), ~(b = a /\ j = k)
      PROVE  cmd[a][k] = "acked"
  BY <1>1, <1>6 DEF ReceiveCommand
<1>7. CASE Sessions
  <2>1. CASE \E j \in Kinds, b \in Attempts : SendCommand(j, b) \/ ReceiveCommand(j, b)
    BY <1>4, <1>5, <1>6, <2>1
  <2>2. CASE ~\E j \in Kinds, b \in Attempts : SendCommand(j, b) \/ ReceiveCommand(j, b)
    <3>1. UNCHANGED cmd
      BY <1>7, <2>2 DEF Sessions, TickSnapshot, ServerRestart, Connect, Disconnect,
         ExtendJobDeadline, DeadlinePasses
    <3> QED BY <1>3, <3>1
  <2> QED BY <2>1, <2>2
<1>8. CASE Unnoticed
  BY <1>3, <1>8, UnnoticedFrame DEF serverVars
<1>9. CASE Reconcile
  <2>1. cmd'[a] \in {cmd[a], StopCommand(cmd[a])}
    BY <1>9 DEF Reconcile
  <2> QED BY <1>1, <1>2, <2>1
<1>10. ASSUME NEW t \in Tasks, CancelTask(t) \/ AdvanceJob(t) PROVE cmd[a][k] = "acked"
  <2>1. cmd' = cmd \/ cmd' = [cmd EXCEPT ![CurrentOf(t)] = StopCommand(@)]
    BY <1>10 DEF CancelTask, AdvanceJob
  <2>2. cmd'[a] \in {cmd[a], StopCommand(cmd[a])}
    BY <1>1, <2>1
  <2> QED BY <1>1, <1>2, <2>2
<1>11. ASSUME NEW t \in Tasks, NEW w \in Workers, Assign(t, w) PROVE cmd[a][k] = "acked"
  <2>1. cmd' = [cmd EXCEPT ![<<t, task[t].gen + 1>>]["start"] = "pending"]
    BY <1>11 DEF Assign
  <2> QED BY <1>1, <2>1
<1>12. CASE \/ \E t \in Tasks : SubmitTask(t) \/ CancelJob(t) \/ ManualRetry(t) \/ AssignExpired(t)
            \/ \E b \in Attempts : LeaseExpires(b)
            \/ \E b \in Attempts, answered \in BOOLEAN : ReportEvents(b, answered) \/ UploadArtifact(b, answered)
  BY <1>3, <1>12 DEF SubmitTask, CancelJob, ManualRetry, AssignExpired, LeaseExpires, ReportEvents, UploadArtifact
<1>13. ASSUME NEW b \in Attempts, NEW answered \in BOOLEAN, ReportCompletion(b, answered)
       PROVE  cmd[a][k] = "acked" \/ Concluded(a)
  <2>1. CASE UNCHANGED <<task, att, cmd, art>> \/ Unconfirmed(b)
    BY <2>1 DEF Unconfirmed
  <2>2. CASE Concluded(b) /\ b # a
    <3>1. \E v : cmd' = [cmd EXCEPT ![b] = v]
      BY <2>2 DEF Concluded, Commit
    <3> QED BY <1>1, <2>2, <3>1
  <2> QED BY <1>13, <2>1, <2>2, CompletionCases
<1> QED BY <1>7, <1>8, <1>9, <1>10, <1>11, <1>12, <1>13, NextCases

\* Attempts that do not exist have no commands.
LEMMA NoCommandsStep ==
    ASSUME IndInv, Records, NoCommands, Next
    PROVE  NoCommands'
<1> SUFFICES ASSUME NEW a \in Attempts, ~Exists(a)', NEW k \in Kinds PROVE cmd'[a][k] = "none"
  BY DEF NoCommands
<1>1. ~Exists(a) /\ cmd[a][k] = "none"
  BY ExistsStays DEF NoCommands
<1>2. cmd \in [Attempts -> [Kinds -> CommandStates]] /\ cmd[a] \in [Kinds -> CommandStates]
  BY Typed
<1>3. CASE UNCHANGED cmd
  BY <1>1, <1>3
<1>4. ASSUME NEW j \in Kinds, NEW b \in Attempts, SendCommand(j, b) \/ ReceiveCommand(j, b)
      PROVE  cmd'[a][k] = "none"
  <2>1. Exists(b)
    BY <1>4 DEF SendCommand, ReceiveCommand, IndInv, WireOK
  <2>2. cmd' = cmd \/ cmd' = [cmd EXCEPT ![b][j] = "acked"]
    BY <1>4 DEF SendCommand, ReceiveCommand
  <2> QED BY <1>1, <1>2, <2>1, <2>2
<1>5. CASE Sessions
  <2>1. CASE ~\E j \in Kinds, b \in Attempts : SendCommand(j, b) \/ ReceiveCommand(j, b)
    <3>1. UNCHANGED cmd
      BY <1>5, <2>1 DEF Sessions, TickSnapshot, ServerRestart, Connect, Disconnect,
         ExtendJobDeadline, DeadlinePasses
    <3> QED BY <1>3, <3>1
  <2> QED BY <1>4, <2>1
<1>6. CASE Unnoticed
  BY <1>3, <1>6, UnnoticedFrame DEF serverVars
<1>7. CASE Reconcile
  <2>1. TaskOf(a) \in Tasks /\ Gen(a) # 0 /\ a = <<TaskOf(a), Gen(a)>>
    BY AttemptParts
  <2>2. task[TaskOf(a)].att # Gen(a)
    BY <1>1, <2>1, CurrentExists DEF HasAttempt, CurrentOf
  <2> QED BY <1>1, <1>7, <2>2 DEF Reconcile
<1>8. ASSUME NEW t \in Tasks, CancelTask(t) \/ AdvanceJob(t) PROVE cmd'[a][k] = "none"
  <2>1. cmd' = cmd \/ (HasAttempt(t) /\ cmd' = [cmd EXCEPT ![CurrentOf(t)] = StopCommand(@)])
    BY <1>8 DEF CancelTask, AdvanceJob
  <2>2. HasAttempt(t) => CurrentOf(t) # a
    BY <1>1, CurrentExists
  <2> QED BY <1>1, <1>2, <2>1, <2>2
<1>9. ASSUME NEW t \in Tasks, NEW w \in Workers, Assign(t, w) PROVE cmd'[a][k] = "none"
  <2> DEFINE b == <<t, task[t].gen + 1>>
  <2>1. /\ cmd' = [cmd EXCEPT ![b]["start"] = "pending"]
        /\ att' = [att EXCEPT ![b] = [NoAttempt EXCEPT !.worker = w, !.epoch = snap[w], !.lease = "valid"]]
    BY <1>9 DEF Assign
  <2>2. a # b
    <3>1. a = b => att'[a].worker = w
      BY <2>1, Typed DEF NoAttempt
    <3> QED BY <3>1, Bounds DEF Exists
  <2> QED BY <1>1, <1>2, <2>1, <2>2
<1>10. CASE \/ \E t \in Tasks : SubmitTask(t) \/ CancelJob(t) \/ ManualRetry(t) \/ AssignExpired(t)
            \/ \E b \in Attempts : LeaseExpires(b)
            \/ \E b \in Attempts, answered \in BOOLEAN : ReportEvents(b, answered) \/ UploadArtifact(b, answered)
  BY <1>3, <1>10 DEF SubmitTask, CancelJob, ManualRetry, AssignExpired, LeaseExpires, ReportEvents, UploadArtifact
<1>11. ASSUME NEW b \in Attempts, NEW answered \in BOOLEAN, ReportCompletion(b, answered)
       PROVE  cmd'[a][k] = "none"
  <2>1. CASE UNCHANGED <<task, att, cmd, art>> \/ Unconfirmed(b)
    BY <1>1, <2>1 DEF Unconfirmed
  <2>2. CASE Concluded(b)
    <3>1. b # a
      BY <1>1, <2>2 DEF Concluded, Current
    <3>2. \E v : cmd' = [cmd EXCEPT ![b] = v]
      BY <2>2 DEF Concluded, Commit
    <3> QED BY <1>1, <1>2, <3>1, <3>2
  <2> QED BY <1>11, <2>1, <2>2, CompletionCases
<1> QED BY <1>5, <1>6, <1>7, <1>8, <1>9, <1>10, <1>11, NextCases

\* A step that changes neither sessions nor the identity of any Attempt.
LEMMA EpochFrame ==
    ASSUME IndInv, EpochsOK, UNCHANGED <<session, snap>>,
           \A w \in Workers : epoch'[w] \in {epoch[w], epoch[w] + 1},
           \A a \in Attempts : att'[a].worker = att[a].worker /\ att'[a].epoch = att[a].epoch
    PROVE  EpochsOK'
<1>1. ASSUME NEW w \in Workers
      PROVE  /\ session'[w] <= epoch'[w] /\ snap'[w] <= epoch'[w]
             /\ snap'[w] # 0 /\ snap'[w] = epoch'[w] => session'[w] \in {0, epoch'[w]}
  <2>1. session[w] \in Int /\ snap[w] \in Int /\ epoch[w] \in Int
    BY <1>1, Typed
  <2> QED BY <1>1, <2>1 DEF EpochsOK
<1>2. ASSUME NEW a \in Attempts, Exists(a)'
      PROVE  /\ att'[a].epoch <= epoch'[att'[a].worker] /\ att'[a].epoch # 0
             /\ att'[a].epoch = epoch'[att'[a].worker] =>
                  session'[att'[a].worker] \in {0, epoch'[att'[a].worker]}
  <2>1. Exists(a) /\ WorkerOf(a) \in Workers
    BY <1>2, WorkerTyped DEF Exists
  <2>2. epoch[WorkerOf(a)] \in Int /\ att[a].epoch \in Int
    BY <1>2, <2>1, Typed DEF AttemptRows
  <2>3. /\ att[a].epoch <= epoch[WorkerOf(a)] /\ att[a].epoch # 0
        /\ att[a].epoch = epoch[WorkerOf(a)] => session[WorkerOf(a)] \in {0, epoch[WorkerOf(a)]}
    BY <1>2, <2>1 DEF EpochsOK
  <2>4. att'[a].worker = WorkerOf(a) /\ att'[a].epoch = att[a].epoch
    BY <1>2 DEF WorkerOf
  <2> QED BY <2>1, <2>2, <2>3, <2>4
<1> QED BY <1>1, <1>2 DEF EpochsOK, WorkerOf

\* A session of the Worker process that runs now begins, or sessions end.
LEMMA SessionStep ==
    ASSUME IndInv, EpochsOK, UNCHANGED <<att, epoch>>,
           \A w \in Workers : session'[w] \in {0, session[w], epoch[w]},
           \A w \in Workers : snap'[w] \in {0, snap[w]} \/ (snap'[w] = session[w] /\ session' = session)
    PROVE  EpochsOK'
<1>1. ASSUME NEW w \in Workers
      PROVE  /\ session'[w] <= epoch'[w] /\ snap'[w] <= epoch'[w]
             /\ snap'[w] # 0 /\ snap'[w] = epoch'[w] => session'[w] \in {0, epoch'[w]}
  <2>1. session[w] \in Nat /\ snap[w] \in Nat /\ epoch[w] \in Nat
    BY <1>1, Typed
  <2> QED BY <1>1, <2>1 DEF EpochsOK
<1>2. ASSUME NEW a \in Attempts, Exists(a)
      PROVE  /\ att[a].epoch <= epoch[WorkerOf(a)] /\ att[a].epoch # 0
             /\ att[a].epoch = epoch[WorkerOf(a)] => session'[WorkerOf(a)] \in {0, epoch[WorkerOf(a)]}
  <2>1. WorkerOf(a) \in Workers
    BY <1>2, WorkerTyped
  <2> QED BY <1>2, <2>1 DEF EpochsOK
<1> QED BY <1>1, <1>2 DEF EpochsOK, WorkerOf, Exists

\* assign() takes the epoch from the tick's copy of the sessions.
LEMMA AssignEpochs ==
    ASSUME IndInv, EpochsOK, NEW t \in Tasks, NEW w \in Workers, Assign(t, w)
    PROVE  EpochsOK'
<1> DEFINE b == <<t, task[t].gen + 1>>
           row == [NoAttempt EXCEPT !.worker = w, !.epoch = snap[w], !.lease = "valid"]
<1>1. /\ att' = [att EXCEPT ![b] = row] /\ snap[w] # 0 /\ UNCHANGED <<session, epoch>>
      /\ \A v \in Workers : snap'[v] \in {0, snap[v]}
  BY DEF Assign, workerVars
<1>2. ASSUME NEW v \in Workers
      PROVE  /\ session[v] <= epoch[v] /\ snap'[v] <= epoch[v]
             /\ snap'[v] # 0 /\ snap'[v] = epoch[v] => session[v] \in {0, epoch[v]}
  <2>1. session[v] \in Nat /\ snap[v] \in Nat /\ epoch[v] \in Nat
    BY <1>2, Typed
  <2> QED BY <1>1, <1>2, <2>1 DEF EpochsOK
<1>3. row.worker = w /\ row.epoch = snap[w]
  BY DEF NoAttempt
<1>4. ASSUME NEW a \in Attempts, Exists(a)'
      PROVE  /\ att'[a].epoch <= epoch[att'[a].worker] /\ att'[a].epoch # 0
             /\ att'[a].epoch = epoch[att'[a].worker] =>
                  session[att'[a].worker] \in {0, epoch[att'[a].worker]}
  <2>1. CASE a = b
    <3>1. att'[a].worker = w /\ att'[a].epoch = snap[w]
      BY <1>1, <1>3, <2>1, <1>4, Typed
    <3> QED BY <1>1, <3>1 DEF EpochsOK
  <2>2. CASE a # b
    <3>1. att'[a] = att[a]
      BY <1>1, <2>2, <1>4, Typed
    <3> QED BY <1>4, <3>1 DEF EpochsOK, Exists, WorkerOf
  <2> QED BY <2>1, <2>2
<1> QED BY <1>1, <1>2, <1>4 DEF EpochsOK, WorkerOf

\* Every step keeps the epochs in order.
LEMMA EpochsStep == ASSUME IndInv, Records, EpochsOK, Next PROVE EpochsOK'
<1>1. ASSUME NEW t \in Tasks, NEW w \in Workers, Assign(t, w) PROVE EpochsOK'
  BY <1>1, AssignEpochs
<1>2. CASE Sessions
  <2>1. UNCHANGED <<att, epoch>>
    BY <1>2 DEF Sessions, TickSnapshot, ServerRestart, Connect, Disconnect, SendCommand, ReceiveCommand,
       ExtendJobDeadline, DeadlinePasses, workerVars
  <2>2. session \in [Workers -> 0 .. MaxEpoch]
    BY Typed
  <2>3. CASE \E k \in Kinds, a \in Attempts : ReceiveCommand(k, a)
    <3>1. snap' = snap /\ (session' = session \/ \E v : session' = [session EXCEPT ![v] = 0])
      BY <2>3 DEF ReceiveCommand, StreamBreaks
    <3> QED BY <2>1, <2>2, <3>1, SessionStep
  <2>4. CASE \E w \in Workers : Connect(w) \/ Disconnect(w)
    <3>1. PICK w \in Workers : /\ snap' = snap
                               /\ \/ session' = [session EXCEPT ![w] = 0]
                                  \/ session' = [session EXCEPT ![w] = epoch[w]]
      BY <2>4 DEF Connect, Disconnect
    <3> QED BY <2>1, <2>2, <3>1, SessionStep
  <2>5. CASE ServerRestart
    BY <2>1, <2>5, SessionStep DEF ServerRestart
  <2>6. CASE TickSnapshot
    BY <2>1, <2>6, SessionStep DEF TickSnapshot
  <2>7. CASE \/ \E k \in Kinds, a \in Attempts : SendCommand(k, a)
             \/ \E t \in Tasks : ExtendJobDeadline(t) \/ DeadlinePasses(t)
    <3>1. UNCHANGED <<session, snap>>
      BY <2>7 DEF SendCommand, ExtendJobDeadline, DeadlinePasses
    <3> QED BY <2>1, <3>1, SessionStep
  <2> QED BY <1>2, <2>3, <2>4, <2>5, <2>6, <2>7 DEF Sessions
<1>3. CASE ~Sessions /\ \A t \in Tasks, w \in Workers : ~Assign(t, w)
  <2>1. UNCHANGED <<session, snap>>
    <3>1. CASE Unnoticed
      BY <3>1, UnnoticedFrame DEF serverVars
    <3>2. CASE \/ Reconcile \/ \E a \in Attempts : LeaseExpires(a)
               \/ \E t \in Tasks : \/ SubmitTask(t) \/ CancelTask(t) \/ CancelJob(t) \/ ManualRetry(t)
                                   \/ AdvanceJob(t) \/ AssignExpired(t)
      BY <3>2 DEF Reconcile, LeaseExpires, SubmitTask, CancelTask, CancelJob, ManualRetry, AdvanceJob,
         AssignExpired
    <3>3. CASE \E a \in Attempts, answered \in BOOLEAN :
                 ReportEvents(a, answered) \/ UploadArtifact(a, answered) \/ ReportCompletion(a, answered)
      BY <3>3 DEF ReportEvents, UploadArtifact, ReportCompletion
    <3> QED BY <1>3, <3>1, <3>2, <3>3, NextCases
  <2>2. ASSUME NEW a \in Attempts PROVE att'[a].worker = att[a].worker /\ att'[a].epoch = att[a].epoch
    <3>1. ~Assigned(a)
      BY <1>3, <2>2, AttemptParts DEF Assigned
    <3> QED BY <2>2, <3>1, AttemptMoves, ConcludedRow DEF AttemptMove, Touched
  <2>3. \A w \in Workers : epoch'[w] \in {epoch[w], epoch[w] + 1}
    BY EpochGrows
  <2> QED BY <2>1, <2>2, <2>3, EpochFrame
<1> QED BY <1>1, <1>2, <1>3

\* Every step keeps acknowledged commands journalled.
LEMMA AckedStep ==
    ASSUME IndInv, Records, Started, Delivered, Next
    PROVE  AckedMeansJournalled'
<1>1. SUFFICES ASSUME NEW a \in Attempts, Open(a)', att'[a].epoch = epoch'[att'[a].worker]
               PROVE  /\ cmd'[a]["start"] = "acked" => run'[a].state # "NONE"
                      /\ cmd'[a]["stop"] = "acked" => run'[a].stop \/ run'[a].completed
  BY DEF AckedMeansJournalled, WorkerOf
<1>2. CASE Assigned(a)
  <2>1. PICK w \in Workers : Assign(TaskOf(a), w)
    BY <1>2 DEF Assigned
  <2>2. a = <<TaskOf(a), task[TaskOf(a)].gen + 1>> /\ TaskOf(a) \in Tasks
    BY <1>2, AttemptParts DEF Assigned
  <2>3. cmd' = [cmd EXCEPT ![a]["start"] = "pending"]
    BY <2>1, <2>2 DEF Assign
  <2>4. ~Exists(a)
    <3>1. AttemptOK(Gen(a), Exists(a), Open(a), task[TaskOf(a)])
      BY DEF IndInv, Ledger
    <3>2. task[TaskOf(a)].gen \in Nat
      BY <2>2, Typed DEF TaskRows
    <3> QED BY <1>2, <3>1, <3>2 DEF AttemptOK, Assigned
  <2>5. cmd[a]["stop"] = "none"
    BY <2>4 DEF Delivered, NoCommands, Kinds
  <2>6. cmd'[a]["start"] = "pending" /\ cmd'[a]["stop"] = "none"
    BY <2>3, <2>5, Typed DEF Kinds
  <2> QED BY <2>6
<1>3. CASE ~Assigned(a)
  <2>1. ~Concluded(a)
    BY <1>1, ConcludedRow DEF Open
  <2>2. Touched(a)
    BY <1>3, <2>1, AttemptMoves DEF AttemptMove
  <2>3. Open(a) /\ att'[a].worker = WorkerOf(a) /\ att'[a].epoch = att[a].epoch /\ WorkerOf(a) \in Workers
    BY <1>1, <2>2, WorkerTyped DEF Touched, Open, Exists, WorkerOf
  <2>4. att[a].epoch = epoch[WorkerOf(a)]
    <3>1. att[a].epoch <= epoch[WorkerOf(a)]
      BY <2>3 DEF Delivered, EpochsOK, Open
    <3>2. epoch[WorkerOf(a)] \in Int /\ att[a].epoch \in Int
      BY <2>3, Typed DEF AttemptRows
    <3> QED BY <1>1, <2>3, <3>1, <3>2, EpochGrows
  <2>5. /\ cmd[a]["start"] = "acked" => run[a].state # "NONE"
        /\ cmd[a]["stop"] = "acked" => run[a].stop \/ run[a].completed
    BY <2>3, <2>4 DEF Delivered, AckedMeansJournalled
  <2>6. Advances(run[a], run'[a])
    BY JournalMoves DEF Journalled
  <2>7. session[WorkerOf(a)] # 0 => CommandDeliverable(a)
    <3>1. session[WorkerOf(a)] \in {0, epoch[WorkerOf(a)]}
      BY <2>3, <2>4 DEF Delivered, EpochsOK, Open
    <3>2. task[TaskOf(a)].att = Gen(a)
      BY <2>3 DEF IndInv, Ledger, AttemptOK
    <3>3. task[TaskOf(a)].gen = Gen(a)
      <4>1. TaskOf(a) \in Tasks /\ Gen(a) # 0
        BY AttemptParts
      <4> QED BY <3>2, <4>1 DEF Records, RecordOK
    <3> QED BY <2>3, <2>4, <3>1, <3>2, <3>3 DEF CommandDeliverable, Current, Open
  <2>8. ASSUME NEW k \in Kinds, cmd'[a][k] = "acked"
        PROVE  cmd[a][k] = "acked" \/ ReceiveCommand(k, a)
    BY <2>1, <2>7, <2>8, CommandMoves
  <2>9. ASSUME cmd'[a]["start"] = "acked" PROVE run'[a].state # "NONE"
    <3>1. "start" \in Kinds
      BY DEF Kinds
    <3> QED BY <2>5, <2>6, <2>8, <2>9, <3>1, ReceiveStarted DEF Advances
  <2>10. ASSUME cmd'[a]["stop"] = "acked" PROVE run'[a].stop \/ run'[a].completed
    <3>1. "stop" \in Kinds
      BY DEF Kinds
    <3> QED BY <2>5, <2>6, <2>8, <2>10, <3>1, ReceiveStarted DEF Advances
  <2> QED BY <2>9, <2>10
<1> QED BY <1>2, <1>3

-----------------------------------------------------------------------------
(* The theorems.                                                           *)

\* The initial state: no rows, no journals, no sessions.
LEMMA OutcomesInit == Init => Outcomes
<1> SUFFICES ASSUME Init PROVE Outcomes
  OBVIOUS
<1>1. \A t \in Tasks : task[t] = [state |-> "NONE", code |-> "OK", att |-> 0, gen |-> 0] /\ job[t] = "open"
  BY DEF Init
<1>2. ASSUME NEW a \in Attempts
      PROVE  /\ ~Exists(a) /\ ~Open(a) /\ ~att[a].released /\ art[a] = "none"
             /\ run[a] = NoRun /\ act[a] = Off /\ \A k \in Kinds : cmd[a][k] = "none"
  BY <1>2 DEF Init, Exists, Open, NoAttempt
<1>3. Records
  <2>1. \A t \in Tasks : RecordOK(t) /\ task[t].state # "SUCCEEDED"
    BY <1>1 DEF RecordOK, Executing, Stopping
  <2> QED BY <1>2, <2>1 DEF Records
<1>4. Started
  BY <1>2 DEF Started, StartedOK, NoRun, Off, NoCompletion, Completion
<1>5. Counted
  <2>1. OpenAttempts = {} /\ \A w \in Workers : OpenOn(w) = {}
    BY <1>2 DEF OpenAttempts, OpenOn
  <2>2. ProjectLimit \in Nat /\ Slots \in Nat
    BY StateAssumption DEF StateAssumption
  <2> QED BY <2>1, <2>2, FS_EmptySet DEF Counted
<1>6. EpochsOK /\ NoCommands
  BY <1>2 DEF Init, EpochsOK, NoCommands
<1>7. AckedMeansJournalled
  BY <1>2 DEF AckedMeansJournalled
<1> QED BY <1>3, <1>4, <1>5, <1>6, <1>7 DEF Outcomes, Delivered

\* A step that changes nothing.
LEMMA OutcomesStutter == ASSUME Outcomes, UNCHANGED vars PROVE Outcomes'
<1>1. /\ UNCHANGED <<task, job, due, att, cmd, art, regEpoch, session, snap>>
      /\ UNCHANGED <<wire, grants>> /\ UNCHANGED <<wstat, epoch, run, act, procs>>
  BY DEF vars, serverVars, streamVars, workerVars
<1>2. Records'
  BY <1>1 DEF Outcomes, Records, RecordOK, EarnedBy, Exists, HasAttempt, CurrentOf
<1>3. Started'
  BY <1>1 DEF Outcomes, Started
<1>4. OpenAttempts' = OpenAttempts /\ \A w \in Workers : OpenOn(w)' = OpenOn(w)
  BY <1>1 DEF OpenAttempts, OpenOn, Open, Exists, WorkerOf
<1>5. Counted'
  BY <1>4 DEF Outcomes, Counted
<1>6. EpochsOK' /\ NoCommands'
  BY <1>1 DEF Outcomes, Delivered, EpochsOK, NoCommands, Exists, WorkerOf
<1>7. AckedMeansJournalled'
  BY <1>1 DEF Outcomes, Delivered, AckedMeansJournalled, Open, Exists, WorkerOf
<1> QED BY <1>2, <1>3, <1>5, <1>6, <1>7 DEF Outcomes, Delivered

\* Records, journals, counts and commands agree with one another in every reachable
\* state (Outcomes), on top of IndInv.
THEOREM OutcomesHold == Spec => [](IndInv /\ Outcomes)
<1>1. Init => IndInv /\ Outcomes
  BY InitOK, OutcomesInit
<1>2. ASSUME IndInv, Outcomes, Next PROVE Outcomes'
  <2>1. Records' /\ Counted'
    BY <1>2, RecordsStep, CountedStep DEF Outcomes
  <2>2. Started'
    BY <1>2, JournalMoves DEF Outcomes, Journalled
  <2>3. EpochsOK' /\ NoCommands' /\ AckedMeansJournalled'
    BY <1>2, EpochsStep, NoCommandsStep, AckedStep DEF Outcomes, Delivered
  <2> QED BY <2>1, <2>2, <2>3 DEF Outcomes, Delivered
<1>3. IndInv /\ Outcomes /\ [Next]_vars => (IndInv /\ Outcomes)'
  BY <1>2, NextOK, StutterOK, OutcomesStutter
<1> QED BY <1>1, <1>3, PTL DEF Spec

\* A SUCCEEDED Task was executed by its current Attempt, whose start, clean completion
\* and bundle are committed, and nothing of it runs any more (results.go CompleteAttempt).
THEOREM SuccessEarned == Spec => []SuccessIsEarned
<1>1. IndInv /\ Outcomes => SuccessIsEarned
  <2> SUFFICES ASSUME IndInv, Outcomes, NEW t \in Tasks, task[t].state = "SUCCEEDED"
               PROVE  /\ HasAttempt(t)
                      /\ LET a == CurrentOf(t) IN
                         /\ att[a].released /\ att[a].final.ok /\ att[a].final.clean /\ att[a].seq = 1
                         /\ {b \in Generations(t) : art[b] = "ACCEPTED"} = {a}
                      /\ \A b \in Generations(t) : ~Alive(b)
    BY DEF SuccessIsEarned
  <2>1. EarnedBy(t)
    BY DEF Outcomes, Records
  <2>2. CurrentOf(t) \in Attempts /\ TaskOf(CurrentOf(t)) = t
    BY <2>1, CurrentExists DEF Outcomes, EarnedBy, CurrentOf, TaskOf
  <2>3. \A b \in Generations(t) : art[b] = "ACCEPTED" => b = CurrentOf(t)
    BY AttemptParts DEF Outcomes, Records, Generations, CurrentOf
  <2>4. {b \in Generations(t) : art[b] = "ACCEPTED"} = {CurrentOf(t)}
    BY <2>1, <2>2, <2>3 DEF EarnedBy, Generations
  <2>5. \A b \in Generations(t) : ~Open(b)
    BY NothingOpen DEF Generations, Executing, Stopping
  <2>6. \A b \in Generations(t) : ~Alive(b)
    BY <2>5, AliveIsOpen DEF Generations
  <2> QED BY <2>1, <2>4, <2>6 DEF EarnedBy
<1> QED BY <1>1, OutcomesHold, PTL

\* No result is accepted for a Task that did not succeed (artifact_lifecycle.go).
THEOREM AcceptedSafely == Spec => []AcceptedOnlyOnSuccess
<1>1. Outcomes => AcceptedOnlyOnSuccess
  BY DEF Outcomes, Records, AcceptedOnlyOnSuccess
<1> QED BY <1>1, OutcomesHold, PTL

\* No Worker executes more runtimes than its slots, those that outlived their Worker
\* process included (assign's count of unreleased Attempts).
THEOREM SlotsRespected == Spec => []SlotsHold
<1>1. IndInv /\ Outcomes => SlotsHold
  <2> SUFFICES ASSUME IndInv, Outcomes, NEW w \in Workers
               PROVE  Cardinality({a \in On(w) : Alive(a)}) <= Slots
    BY DEF SlotsHold
  <2> DEFINE S == {a \in On(w) : Alive(a)}
  <2>1. S \subseteq OpenOn(w) /\ OpenOn(w) \subseteq OpenAttempts
    BY AliveIsOpen DEF On, OpenOn, OpenAttempts, WorkerOf
  <2>2. IsFiniteSet(OpenOn(w)) /\ Cardinality(OpenOn(w)) <= Slots
    BY <2>1, FS_Subset DEF Outcomes, Counted
  <2>3. IsFiniteSet(S) /\ Cardinality(S) <= Cardinality(OpenOn(w))
    BY <2>1, <2>2, FS_Subset
  <2>4. Slots \in Nat /\ Cardinality(S) \in Nat /\ Cardinality(OpenOn(w)) \in Nat
    BY <2>2, <2>3, FS_CardinalityType, StateAssumption DEF StateAssumption
  <2> QED BY <2>2, <2>3, <2>4
<1> QED BY <1>1, OutcomesHold, PTL

\* A command that the Server regards as delivered is in the journal of the process it
\* was sent to (ConnectWorker, accept), whatever answers and streams were lost.
THEOREM CommandsJournalled == Spec => []AckedMeansJournalled
<1>1. Outcomes => AckedMeansJournalled
  BY DEF Outcomes, Delivered
<1> QED BY <1>1, OutcomesHold, PTL

-----------------------------------------------------------------------------
(* Process groups.                                                         *)

\* Only the group of a changes, and its leader appears in Spawn alone.
GroupMoves(a) ==
    /\ \A b \in Attempts : b # a => procs'[b] = procs[b]
    /\ Spawn(a) \/ (Alive(a)' => Alive(a))

\* Stopping a group never revives it.
LEMMA StoppedMoves ==
    ASSUME IndInv, NEW a \in Attempts, NEW group, NEW clean, Stopped(a, group, clean)
    PROVE  GroupMoves(a)
<1>1. procs \in [Attempts -> SUBSET Processes]
  BY Typed
<1>2. CASE procs' = procs
  BY <1>2 DEF GroupMoves, Alive
<1>3. CASE procs' = [procs EXCEPT ![a] = @ \ group]
  BY <1>1, <1>3 DEF GroupMoves, Alive
<1> QED BY <1>2, <1>3 DEF Stopped

\* A step that changes a process group changes one of them and nothing of the Server.
LEMMA ProcessMoves ==
    ASSUME IndInv, Next, procs' # procs
    PROVE  UNCHANGED serverVars /\ \E a \in Attempts : GroupMoves(a)
<1>1. procs \in [Attempts -> SUBSET Processes]
  BY Typed
<1>2. Unnoticed
  <2>1. ~(Sessions \/ Reconcile)
    BY SessionsFrame DEF Reconcile, workerVars
  <2>2. \A t \in Tasks : ~(\/ SubmitTask(t) \/ CancelTask(t) \/ CancelJob(t) \/ ManualRetry(t)
                           \/ AdvanceJob(t) \/ AssignExpired(t) \/ \E w \in Workers : Assign(t, w))
    BY DEF SubmitTask, CancelTask, CancelJob, ManualRetry, AdvanceJob, AssignExpired, Assign, workerVars
  <2>3. \A a \in Attempts : ~(\/ LeaseExpires(a)
                              \/ \E answered \in BOOLEAN :
                                   \/ ReportEvents(a, answered) \/ UploadArtifact(a, answered)
                                   \/ ReportCompletion(a, answered))
    BY DEF LeaseExpires, ReportEvents, UploadArtifact, ReportCompletion, workerVars
  <2> QED BY <2>1, <2>2, <2>3, NextCases
<1>3. ASSUME NEW a \in Attempts, Spawn(a) PROVE GroupMoves(a)
  BY <1>1, <1>3 DEF GroupMoves, Spawn
<1>4. ASSUME NEW a \in Attempts, SpawnVerifier(a) \/ Fork(a) PROVE GroupMoves(a)
  <2>1. PICK p \in {"verifier", "member"} : procs' = [procs EXCEPT ![a] = @ \cup {p}]
    BY <1>4 DEF SpawnVerifier, Fork
  <2> QED BY <1>1, <2>1 DEF GroupMoves, Alive
<1>5. ASSUME NEW a \in Attempts, NEW p \in Processes, ProcessExits(a, p) PROVE GroupMoves(a)
  BY <1>1, <1>5 DEF GroupMoves, ProcessExits, Alive
<1>6. ASSUME NEW a \in Attempts, RecordFails(a) \/ RuntimeEnds(a) \/ VerifierEnds(a) \/ RecoverRun(a)
      PROVE  GroupMoves(a)
  <2>1. PICK group, clean : Stopped(a, group, clean)
    BY <1>6 DEF RecordFails, RuntimeEnds, VerifierEnds, RecoverRun
  <2> QED BY <2>1, StoppedMoves
<1>7. CASE Restart
  <2>1. \A w \in Workers : ~(Crash(w) \/ Boot(w) \/ Probe(w))
    BY DEF Crash, Boot, Probe
  <2> QED BY <1>2, <1>6, <1>7, <2>1, UnnoticedFrame DEF Restart
<1>8. CASE Processing
  <2>1. PICK a \in Attempts : Execute(a) \/ Fork(a) \/ \E p \in Processes : ProcessExits(a, p)
    BY <1>8 DEF Processing
  <2>2. ~(\/ LeaseLost(a) \/ ExecuteBegin(a) \/ PrepareWorkspace(a) \/ PrepareFails(a) \/ MarkInUse(a)
          \/ EnvironmentFails(a) \/ SpawnFails(a) \/ RecordRuntimeStarted(a) \/ FenceVerifier(a)
          \/ RecordVerifier(a) \/ Finish(a) \/ Leave(a))
    BY DEF LeaseLost, ExecuteBegin, PrepareWorkspace, PrepareFails, MarkInUse, EnvironmentFails,
       SpawnFails, RecordRuntimeStarted, FenceVerifier, RecordVerifier, Finish, Leave
  <2>3. GroupMoves(a)
    BY <1>3, <1>4, <1>5, <1>6, <2>1, <2>2 DEF Execute
  <2> QED BY <1>2, <2>3, UnnoticedFrame
<1>9. \A a \in Attempts : ~(\/ CancelRun(a) \/ LocalLeaseEnds(a) \/ Renew(a) \/ UploadRejected(a)
                            \/ \E ok \in BOOLEAN : ReceiveGrant(a, ok))
  BY DEF CancelRun, LocalLeaseEnds, Renew, UploadRejected, ReceiveGrant, workerVars
<1> QED BY <1>2, <1>7, <1>8, <1>9 DEF Unnoticed

\* Whenever the leader of a group appears, its run was claimed and not recorded over.
LEMMA SpawnFacts ==
    ASSUME IndInv, NEW a \in Attempts, Spawn(a)
    PROVE  run[a].comp = NoCompletion /\ ~Alive(a)
<1>1. RowOK(Exists(a), Up(a), att[a].released, run[a], act[a], Alive(a)) /\ act[a].phase = "environment"
  BY DEF Spawn, At, IndInv, JournalOK
<1> QED BY <1>1 DEF RowOK, Claimed, Idle

\* No runtime starts once the journal row has a completion: neither after a terminal
\* record nor after the tombstone of a stop (journal.go, worker.go execute).
THEOREM TombstonesHold == Spec => NoSpawnAfterTombstone
<1> DEFINE A == \A a \in Attempts : ~Alive(a) /\ Alive(a)' => ~Recorded(a)
<1>1. ASSUME IndInv, Next PROVE A
  <2> SUFFICES ASSUME NEW a \in Attempts, ~Alive(a), Alive(a)' PROVE ~Recorded(a)
    OBVIOUS
  <2>1. procs' # procs
    BY DEF Alive
  <2>2. PICK b \in Attempts : GroupMoves(b)
    BY <1>1, <2>1, ProcessMoves
  <2>3. Spawn(a)
    BY <2>2 DEF GroupMoves, Alive
  <2> QED BY <1>1, <2>3, SpawnFacts DEF Recorded
<1>2. IndInv /\ [Next]_vars => [A]_vars
  BY <1>1
<1>3. Spec => []IndInv
  BY OutcomesHold, PTL
<1> QED BY <1>2, <1>3, PTL DEF Spec, NoSpawnAfterTombstone

\* Stopping is irrevocable (results.go CompleteAttempt, reconcile.go, jobs.go): late
\* events and completions of a Task that is stopped, in doubt or of a stopping Job
\* never bring it back.
THEOREM StopsStick == Spec => StopSticks
<1> DEFINE A == \A t \in Tasks :
         /\ task[t].state = "CANCELING" => task'[t].state \in {"CANCELING", "CANCELED", "FAILED"}
         /\ task[t].state = "RECONCILING" => task'[t].state \notin {"STARTING", "RUNNING", "SUCCEEDED"}
         /\ job[t] \in StopReasons /\ task[t].state \notin Terminal =>
              \/ task'[t].state = task[t].state
              \/ task'[t].state \in Stopping \cup {"CANCELED", "FAILED"}
<1>1. ASSUME IndInv, Outcomes, Next PROVE A
  <2> SUFFICES ASSUME NEW t \in Tasks
               PROVE  /\ task[t].state = "CANCELING" => task'[t].state \in {"CANCELING", "CANCELED", "FAILED"}
                      /\ task[t].state = "RECONCILING" =>
                           task'[t].state \notin {"STARTING", "RUNNING", "SUCCEEDED"}
                      /\ job[t] \in StopReasons /\ task[t].state \notin Terminal =>
                           \/ task'[t].state = task[t].state
                           \/ task'[t].state \in Stopping \cup {"CANCELED", "FAILED"}
    OBVIOUS
  <2>1. TaskMove(t) /\ RecordOK(t) /\ task[t] \in TaskRows
    BY <1>1, TaskMoves, Typed DEF Outcomes, Records
  <2>2. Requeue(task[t]).state = "QUEUED"
    BY <2>1 DEF Requeue, TaskRows
  <2>3. job[t] \in StopReasons => job[t] # "open" /\ ~JobAllows(t)
    BY <2>1 DEF RecordOK, JobAllows, StopReasons
  <2> QED BY <2>1, <2>2, <2>3 DEF TaskMove, Moved, Requeued, Dispatched, RecordOK, Executing, Stopping,
             Terminal
<1>2. IndInv /\ Outcomes /\ [Next]_vars => [A]_vars
  BY <1>1
<1> QED BY <1>2, OutcomesHold, PTL DEF Spec, StopSticks

-----------------------------------------------------------------------------
(* The refinement: which step of TaskLifecycle each step is.                *)

\* The mapping of Life(t), by name.
PhaseOf(s) ==
    CASE s = "NONE" -> "absent"
      [] s = "QUEUED" -> "queued"
      [] s \in Executing -> "active"
      [] s = "CANCELING" -> "canceling"
      [] s = "RECONCILING" -> "reconciling"
      [] s = "SUCCEEDED" -> "succeeded"
      [] OTHER -> "ended"
Phase(t) == PhaseOf(task[t].state)
Live(t)  == {g \in Gens : Alive(<<t, g>>)}

\* The phase of every state of a Task.
LEMMA PhaseValues ==
    ASSUME NEW s
    PROVE  /\ s = "NONE" => PhaseOf(s) = "absent"
           /\ s = "QUEUED" => PhaseOf(s) = "queued"
           /\ s \in Executing => PhaseOf(s) = "active"
           /\ s = "CANCELING" => PhaseOf(s) = "canceling"
           /\ s = "RECONCILING" => PhaseOf(s) = "reconciling"
           /\ s = "SUCCEEDED" => PhaseOf(s) = "succeeded"
           /\ s \in {"FAILED", "CANCELED"} => PhaseOf(s) = "ended"
<1>1. ASSUME s = "NONE" PROVE PhaseOf(s) = "absent"
  BY <1>1, Zenon DEF PhaseOf, Executing
<1>2. ASSUME s = "QUEUED" PROVE PhaseOf(s) = "queued"
  BY <1>2, Zenon DEF PhaseOf, Executing
<1>3. ASSUME s \in Executing PROVE PhaseOf(s) = "active"
  BY <1>3, Zenon DEF PhaseOf, Executing
<1>4. ASSUME s = "CANCELING" PROVE PhaseOf(s) = "canceling"
  BY <1>4, Zenon DEF PhaseOf, Executing
<1>5. ASSUME s = "RECONCILING" PROVE PhaseOf(s) = "reconciling"
  BY <1>5, Zenon DEF PhaseOf, Executing
<1>6. ASSUME s = "SUCCEEDED" PROVE PhaseOf(s) = "succeeded"
  BY <1>6, Zenon DEF PhaseOf, Executing
<1>7. ASSUME s \in {"FAILED", "CANCELED"} PROVE PhaseOf(s) = "ended"
  BY <1>7, Zenon DEF PhaseOf, Executing
<1> QED BY <1>1, <1>2, <1>3, <1>4, <1>5, <1>6, <1>7

\* A step of the Server that changes the phase.
LEMMA PhaseStep ==
    ASSUME NEW t, task'[t].gen = task[t].gen, Live(t)' = Live(t),
           \/ Phase(t) = "absent" /\ Phase(t)' = "queued"
           \/ Phase(t) = "active" /\ Phase(t)' \in {"reconciling", "canceling"}
           \/ Phase(t) = "reconciling" /\ Phase(t)' = "canceling"
           \/ Phase(t) = "queued" /\ Phase(t)' = "ended"
           \/ Live(t) = {} /\ Phase(t) = "active" /\ Phase(t)' = "succeeded"
           \/ Live(t) = {} /\ Phase(t) \in {"active", "canceling", "reconciling"} /\ Phase(t)' = "ended"
           \/ /\ Live(t) = {} /\ task[t].gen < MaxAttempts
              /\ Phase(t) \in {"active", "reconciling"} /\ Phase(t)' = "queued"
           \/ task[t].gen < MaxAttempts /\ Phase(t) = "ended" /\ Phase(t)' = "queued"
    PROVE  Life(t)!LifecycleNext
<1>1. CASE Phase(t) = "absent" /\ Phase(t)' = "queued"
  BY <1>1, Zenon DEF Life!LifecycleNext, Life!Submit, Life!Move, Phase, PhaseOf, Live
<1>2. CASE Phase(t) = "active" /\ Phase(t)' = "reconciling"
  BY <1>2, Zenon DEF Life!LifecycleNext, Life!Doubt, Life!Move, Phase, PhaseOf, Live
<1>3. CASE Phase(t) \in {"active", "reconciling"} /\ Phase(t)' = "canceling"
  BY <1>3, Zenon DEF Life!LifecycleNext, Life!Cancel, Life!Move, Phase, PhaseOf, Live
<1>4. CASE Phase(t) = "queued" /\ Phase(t)' = "ended"
  BY <1>4, Zenon DEF Life!LifecycleNext, Life!Drop, Life!Move, Phase, PhaseOf, Live
<1>5. CASE Live(t) = {} /\ Phase(t) = "active" /\ Phase(t)' = "succeeded"
  BY <1>5, Zenon DEF Life!LifecycleNext, Life!Succeed, Life!Move, Phase, PhaseOf, Live
<1>6. CASE Live(t) = {} /\ Phase(t) \in {"active", "canceling", "reconciling"} /\ Phase(t)' = "ended"
  BY <1>6, Zenon DEF Life!LifecycleNext, Life!End, Life!Move, Life!Working, Phase, PhaseOf, Live
<1>7. CASE /\ Live(t) = {} /\ task[t].gen < MaxAttempts
           /\ Phase(t) \in {"active", "reconciling"} /\ Phase(t)' = "queued"
  BY <1>7, Zenon DEF Life!LifecycleNext, Life!Requeue, Life!Move, Phase, PhaseOf, Live
<1>8. CASE task[t].gen < MaxAttempts /\ Phase(t) = "ended" /\ Phase(t)' = "queued"
  BY <1>8, Zenon DEF Life!LifecycleNext, Life!Reopen, Life!Move, Phase, PhaseOf, Live
<1> QED BY <1>1, <1>2, <1>3, <1>4, <1>5, <1>6, <1>7, <1>8

\* assign() dispatches a Task; a runtime starts; a runtime ends; nothing happens.
LEMMA DispatchStep ==
    ASSUME NEW t, Phase(t) = "queued", Live(t) = {}, task[t].gen < MaxAttempts,
           Phase(t)' = "active", task'[t].gen = task[t].gen + 1, Live(t)' = Live(t)
    PROVE  Life(t)!LifecycleNext
  BY Zenon DEF Life!LifecycleNext, Life!Dispatch, Phase, PhaseOf, Live
LEMMA BeginStep ==
    ASSUME NEW t, Phase(t) \in {"active", "canceling", "reconciling"}, Live(t) = {},
           Live(t)' = {task[t].gen}, UNCHANGED task
    PROVE  Life(t)!LifecycleNext
<1>1. Phase(t)' = Phase(t) /\ task'[t].gen = task[t].gen
  BY DEF Phase
<1> QED BY <1>1, Zenon DEF Life!LifecycleNext, Life!Begin, Life!Working, Phase, PhaseOf, Live
LEMMA HaltStep ==
    ASSUME NEW t, Live(t) # {}, Live(t)' = {}, UNCHANGED task
    PROVE  Life(t)!LifecycleNext
<1>1. Phase(t)' = Phase(t) /\ task'[t].gen = task[t].gen
  BY DEF Phase
<1> QED BY <1>1, Zenon DEF Life!LifecycleNext, Life!Halt, Phase, PhaseOf, Live
LEMMA SameStep ==
    ASSUME NEW t, Phase(t)' = Phase(t), task'[t].gen = task[t].gen, Live(t)' = Live(t)
    PROVE  UNCHANGED Life(t)!lifecycleVars
  BY Zenon DEF Life!lifecycleVars, Phase, PhaseOf, Live

\* Only the latest Attempt of a Task lives, and only while the Task is worked on.
Latest ==
    \A t \in Tasks : /\ Live(t) \subseteq {task[t].gen}
                     /\ Live(t) # {} => task[t].state \in Executing \cup Stopping
                     /\ task[t].state = "QUEUED" => task[t].gen < MaxAttempts
LEMMA LatestHolds == IndInv /\ Outcomes => Latest
<1> SUFFICES ASSUME IndInv, Outcomes, NEW t \in Tasks
             PROVE  /\ Live(t) \subseteq {task[t].gen}
                    /\ Live(t) # {} => task[t].state \in Executing \cup Stopping
                    /\ task[t].state = "QUEUED" => task[t].gen < MaxAttempts
  BY DEF Latest
<1>1. ASSUME NEW g \in Live(t) PROVE g = task[t].gen /\ task[t].state \in Executing \cup Stopping
  <2>1. <<t, g>> \in Attempts /\ Alive(<<t, g>>) /\ TaskOf(<<t, g>>) = t /\ Gen(<<t, g>>) = g /\ g # 0
    BY <1>1 DEF Live, Attempts, Gens, TaskOf, Gen
  <2>2. Open(<<t, g>>) /\ task[t].att = g
    BY <2>1, AliveIsOpen
  <2>3. task[t].state \in Executing \cup Stopping
    BY <2>1, <2>2 DEF IndInv, Ledger, AttemptOK
  <2> QED BY <2>1, <2>2, <2>3 DEF Outcomes, Records, RecordOK
<1> QED BY <1>1 DEF IndInv, Ledger, TaskOK

\* What a process group does is a Begin, a Halt or nothing to its Task.
LEMMA GroupStep ==
    ASSUME IndInv, Latest, Latest', UNCHANGED task, NEW a \in Attempts, GroupMoves(a), NEW t \in Tasks
    PROVE  Life(t)!LifecycleNext \/ UNCHANGED Life(t)!lifecycleVars
<1>1. Phase(t)' = Phase(t) /\ task'[t].gen = task[t].gen
  BY DEF Phase
<1>2. \A g \in Gens : <<t, g>> \in Attempts
  BY DEF Attempts
<1>3. CASE Live(t)' = Live(t)
  BY <1>1, <1>3, SameStep
<1>4. CASE Live(t)' # Live(t) /\ Live(t)' \subseteq Live(t)
  <2>1. Live(t) # {} /\ Live(t)' = {}
    BY <1>4 DEF Latest
  <2> QED BY <2>1, HaltStep
<1>5. CASE ~(Live(t)' \subseteq Live(t))
  <2>1. PICK g \in Live(t)' : g \notin Live(t)
    BY <1>5
  <2>2. Live(t)' = {task[t].gen} /\ g = task[t].gen /\ task[t].state \in Executing \cup Stopping
    BY <1>1, <2>1 DEF Latest
  <2>3. Live(t) = {}
    BY <2>1, <2>2 DEF Latest
  <2>4. Phase(t) \in {"active", "canceling", "reconciling"}
    BY <2>2, PhaseValues DEF Phase, Executing, Stopping
  <2> QED BY <2>2, <2>3, <2>4, BeginStep
<1> QED BY <1>3, <1>4, <1>5

\* What the Server does to a Task while no process group changes.
LEMMA RowStep ==
    ASSUME IndInv, Outcomes, Latest, Latest', Next, UNCHANGED procs, NEW t \in Tasks
    PROVE  Life(t)!LifecycleNext \/ UNCHANGED Life(t)!lifecycleVars
<1>1. Live(t)' = Live(t) /\ TaskMove(t) /\ task[t] \in TaskRows
  BY TaskMoves, Typed DEF Outcomes, Live, Alive
<1>2. ASSUME NEW from, NEW to, Moved(t, from, to)
      PROVE  task'[t].gen = task[t].gen /\ task[t].state \in from /\ task'[t].state \in to
  BY <1>2 DEF Moved
<1>3. ASSUME task'[t].state \notin Executing \cup Stopping PROVE Live(t) = {}
  BY <1>1, <1>3 DEF Latest
<1>4. CASE task'[t] = task[t]
  <2>1. Phase(t)' = Phase(t) /\ task'[t].gen = task[t].gen
    BY <1>4 DEF Phase
  <2> QED BY <1>1, <2>1, SameStep
<1>5. CASE Moved(t, {"NONE"}, {"QUEUED"})
  <2>1. Phase(t) = "absent" /\ Phase(t)' = "queued"
    BY <1>5, <1>2, PhaseValues DEF Phase
  <2> QED BY <1>1, <1>2, <1>5, <2>1, PhaseStep
<1>6. CASE Dispatched(t)
  <2>1. /\ task[t].state = "QUEUED" /\ task'[t].state = "STARTING"
        /\ task'[t].gen = task[t].gen + 1
    BY <1>6 DEF Dispatched
  <2>2. Phase(t) = "queued" /\ Phase(t)' = "active"
    BY <2>1, PhaseValues DEF Phase, Executing
  <2>3. Live(t) = {} /\ task[t].gen < MaxAttempts
    BY <2>1 DEF Latest, Executing, Stopping
  <2> QED BY <1>1, <2>1, <2>2, <2>3, DispatchStep
<1>7. CASE Moved(t, {"STARTING"}, {"RUNNING"})
  <2>1. Phase(t) = "active" /\ Phase(t)' = "active"
    BY <1>7, <1>2, PhaseValues DEF Phase, Executing
  <2> QED BY <1>1, <1>2, <1>7, <2>1, SameStep
<1>8. CASE Moved(t, Executing, Stopping)
  <2>1. Phase(t) = "active" /\ Phase(t)' \in {"reconciling", "canceling"}
    BY <1>8, <1>2, PhaseValues DEF Phase, Stopping
  <2> QED BY <1>1, <1>2, <1>8, <2>1, PhaseStep
<1>9. CASE Moved(t, {"RECONCILING"}, {"CANCELING"})
  <2>1. Phase(t) = "reconciling" /\ Phase(t)' = "canceling"
    BY <1>9, <1>2, PhaseValues DEF Phase
  <2> QED BY <1>1, <1>2, <1>9, <2>1, PhaseStep
<1>10. CASE Moved(t, {"QUEUED"} \cup Executing \cup Stopping, {"CANCELED", "FAILED"})
  <2>1. /\ Phase(t) \in {"queued", "active", "canceling", "reconciling"} /\ Phase(t)' = "ended"
        /\ Live(t) = {}
    BY <1>10, <1>2, <1>3, PhaseValues DEF Phase, Executing, Stopping
  <2> QED BY <1>1, <1>2, <1>10, <2>1, PhaseStep
<1>11. CASE Moved(t, Executing, {"SUCCEEDED"})
  <2>1. Phase(t) = "active" /\ Phase(t)' = "succeeded" /\ Live(t) = {}
    BY <1>11, <1>2, <1>3, PhaseValues DEF Phase, Executing, Stopping
  <2> QED BY <1>1, <1>2, <1>11, <2>1, PhaseStep
<1>12. ASSUME NEW from, Requeued(t, from)
       PROVE  /\ task[t].state \in from /\ task'[t].gen = task[t].gen /\ Phase(t)' = "queued"
              /\ Live(t) = {} /\ task[t].gen < MaxAttempts
  <2>1. task'[t].state = "QUEUED" /\ task'[t].gen = task[t].gen /\ task[t].state \in from
    BY <1>1, <1>12 DEF Requeued, Requeue, TaskRows
  <2>2. Phase(t)' = "queued"
    BY <2>1, PhaseValues DEF Phase
  <2>3. Live(t) = {}
    BY <1>3, <2>1 DEF Executing, Stopping
  <2>4. task[t].gen < MaxAttempts
    BY <2>1 DEF Latest
  <2> QED BY <2>1, <2>2, <2>3, <2>4
<1>13. CASE Requeued(t, Executing \cup {"RECONCILING"})
  <2>1. Phase(t) \in {"active", "reconciling"}
    BY <1>12, <1>13, PhaseValues DEF Phase
  <2> QED BY <1>1, <1>12, <1>13, <2>1, PhaseStep
<1>14. CASE Requeued(t, {"FAILED"})
  <2>1. Phase(t) = "ended"
    BY <1>12, <1>14, PhaseValues DEF Phase
  <2> QED BY <1>1, <1>12, <1>14, <2>1, PhaseStep
<1> QED BY <1>1, <1>4, <1>5, <1>6, <1>7, <1>8, <1>9, <1>10, <1>11, <1>13, <1>14 DEF TaskMove

\* Server, streams and Workers together implement TaskLifecycle for every Task: one
\* execution at a time, no new Attempt before the last one is over, a bounded number of
\* them, no success once the Task is being stopped, and no return from an end but by
\* the operator's retry.
THEOREM LifecycleImplemented == Spec => ImplementsLifecycle
<1> DEFINE A == \A t \in Tasks : Life(t)!LifecycleNext \/ UNCHANGED Life(t)!lifecycleVars
<1>1. ASSUME Init, NEW t \in Tasks PROVE Life(t)!LifecycleInit
  <2>1. task[t].state = "NONE" /\ task[t].gen = 0
    BY <1>1 DEF Init
  <2>2. Live(t) = {}
    BY <1>1 DEF Init, Live, Alive, Attempts
  <2>3. Phase(t) = "absent"
    BY <2>1, PhaseValues DEF Phase
  <2> QED BY <2>1, <2>2, <2>3, Zenon DEF Life!LifecycleInit, Phase, PhaseOf, Live
<1>2. ASSUME IndInv, Outcomes, Latest, Latest', Next, NEW t \in Tasks
      PROVE  Life(t)!LifecycleNext \/ UNCHANGED Life(t)!lifecycleVars
  <2>1. CASE procs' = procs
    BY <1>2, <2>1, RowStep
  <2>2. CASE procs' # procs
    <3>1. PICK a \in Attempts : GroupMoves(a)
      BY <1>2, <2>2, ProcessMoves
    <3>2. UNCHANGED task
      BY <1>2, <2>2, ProcessMoves DEF serverVars
    <3> QED BY <1>2, <3>1, <3>2, GroupStep
  <2> QED BY <2>1, <2>2
<1>3. Init => \A t \in Tasks : Life(t)!LifecycleInit
  BY <1>1
<1>4. IndInv /\ Outcomes /\ Latest /\ Latest' /\ [Next]_vars => [A]_vars
  BY <1>2
<1>5. Spec => [](IndInv /\ Outcomes /\ Latest)
  BY LatestHolds, OutcomesHold, PTL
<1> QED BY <1>3, <1>4, <1>5, PTL DEF Spec, ImplementsLifecycle
=============================================================================
