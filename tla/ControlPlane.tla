---------------------------- MODULE ControlPlane ----------------------------
(***************************************************************************)
(* The Server's side of task execution (internal/server): admission,        *)
(* cancellation, the controller tick (reconcile, advanceJob, assign), the   *)
(* Worker session and its frames, and the fencing that every report of a    *)
(* Worker passes.  Each action is one database transaction; the steps of a  *)
(* tick are separate actions because other transactions run between them.   *)
(***************************************************************************)
EXTENDS AttemptState

\* setState(): nothing leaves a terminal state, and a state is not re-entered.
SetState(r, s, c) ==
    IF r.state = s \/ r.state \in Terminal THEN r
    ELSE [r EXCEPT !.state = s, !.code = c]

\* stopCommand(): one stop command per Attempt.
StopCommand(c) == IF c["stop"] = "none" THEN [c EXCEPT !["stop"] = "pending"] ELSE c

\* readAttemptIdentity() and checkAttempt(): the current Attempt of its Task,
\* and it was dispatched to the Worker process that is registered now.
Current(a) == Exists(a) /\ task[TaskOf(a)].att = Gen(a) /\ task[TaskOf(a)].gen = Gen(a)
EpochChanged(a) == att[a].epoch # regEpoch[WorkerOf(a)]
CheckAttempt(a) == Current(a) /\ regEpoch[WorkerOf(a)] # 0 /\ ~EpochChanged(a)

\* jobAllowsExecution()
JobAllows(t) == t \in Managed => job[t] = "open" /\ due[t] # "job"

\* The row task.attempt points to, if any.
HasAttempt(t) == task[t].att # 0
CurrentOf(t)  == <<t, task[t].att>>

-----------------------------------------------------------------------------
\* SubmitTask, or CreateJob for a managed Task: the row is inserted QUEUED.
SubmitTask(t) ==
    /\ task[t].state = "NONE"
    /\ task' = [task EXCEPT ![t].state = "QUEUED"]
    /\ UNCHANGED <<job, due, att, cmd, art, regEpoch, session, snap, streamVars, workerVars>>

CancelTask(t) ==
    /\ "cancel" \in Faults /\ t \notin Managed
    /\ task[t].state \notin Terminal \cup {"NONE"}
    /\ task' = [task EXCEPT ![t] = SetState(@, IF HasAttempt(t) THEN "CANCELING" ELSE "CANCELED", "OK")]
    /\ cmd' = IF HasAttempt(t) THEN [cmd EXCEPT ![CurrentOf(t)] = StopCommand(@)] ELSE cmd
    /\ UNCHANGED <<job, due, att, art, regEpoch, session, snap, streamVars, workerVars>>

\* CancelJob only records the reason; advanceJob stops the child.
CancelJob(t) ==
    /\ "cancel" \in Faults /\ t \in Managed /\ task[t].state # "NONE"
    /\ job[t] = "open"
    /\ job' = [job EXCEPT ![t] = "USER_CANCEL"]
    /\ UNCHANGED <<task, due, att, cmd, art, regEpoch, session, snap, streamVars, workerVars>>

\* ExtendJobDeadline moves the deadline of the Job and of its unfinished Task;
\* a terminal Task keeps the one it has, which then passes before the Job's.
ExtendJobDeadline(t) ==
    /\ "deadline" \in Faults /\ t \in Managed /\ task[t].state # "NONE"
    /\ job[t] = "open"
    /\ \E d \in IF task[t].state \notin Terminal THEN {"no"}
                ELSE IF due[t] = "no" THEN {"no", "task"} ELSE {"task"} :
         due' = [due EXCEPT ![t] = d]
    /\ UNCHANGED <<task, job, att, cmd, art, regEpoch, session, snap, streamVars, workerVars>>

-----------------------------------------------------------------------------
\* Why advanceJob stops the Job now ("open" = it does not).
StopReason(t) ==
    IF job[t] # "open" THEN job[t]
    ELSE IF due[t] = "job" THEN "DEADLINE_EXCEEDED"
    ELSE IF task[t].state = "RECONCILING" THEN "EXECUTION_UNCERTAIN"
    ELSE IF task[t].state \in {"FAILED", "CANCELED"} THEN "CHILD_FAILED"
    ELSE "open"

\* advanceJob for a Job with one child.  finishJob's terminal state follows
\* from the reason and the child, so only the reason is kept.
AdvanceJob(t) ==
    LET reason == StopReason(t)
        open   == task[t].state \notin Terminal IN
    /\ t \in Managed /\ task[t].state # "NONE" /\ job[t] # "SUCCEEDED"
    /\ job' = [job EXCEPT ![t] = IF reason = "open" /\ task[t].state = "SUCCEEDED"
                                 THEN "SUCCEEDED" ELSE reason]
    /\ task' = IF reason = "open" \/ ~open THEN task
               ELSE [task EXCEPT ![t] =
                       IF ~HasAttempt(t) THEN SetState(@, "CANCELED", "OK")
                       ELSE IF @.state = "RECONCILING" THEN @
                       ELSE SetState(@, "CANCELING", IF reason = "DEADLINE_EXCEEDED"
                                                     THEN reason ELSE "ERROR")]
    /\ cmd' = IF reason # "open" /\ open /\ HasAttempt(t)
              THEN [cmd EXCEPT ![CurrentOf(t)] = StopCommand(@)] ELSE cmd
    /\ UNCHANGED <<due, att, art, regEpoch, session, snap, streamVars, workerVars>>

\* reconcile(): the Tasks it supervises, and what it decides for each.
Supervised(t) ==
    /\ HasAttempt(t) /\ ~att[CurrentOf(t)].released
    /\ task[t].state \notin Terminal \cup {"CANCELING"}
Overdue(t) == Supervised(t) /\ due[t] # "no"
Lost(t)    == Supervised(t) /\ due[t] = "no" /\ att[CurrentOf(t)].lease = "expired"

Reconcile ==
    /\ \E t \in Tasks : Overdue(t) \/ Lost(t)
    /\ task' = [t \in Tasks |->
                  IF Overdue(t) THEN SetState(task[t], "CANCELING", "DEADLINE_EXCEEDED")
                  ELSE IF Lost(t) THEN SetState(task[t], "RECONCILING", "ERROR")
                  ELSE task[t]]
    /\ cmd' = [a \in Attempts |->
                 IF task[TaskOf(a)].att = Gen(a) /\ (Overdue(TaskOf(a)) \/ Lost(TaskOf(a)))
                 THEN StopCommand(cmd[a]) ELSE cmd[a]]
    /\ UNCHANGED <<job, due, att, art, regEpoch, session, snap, streamVars, workerVars>>

-----------------------------------------------------------------------------
\* tick() copies s.peers and schedules the queued Tasks from the copy, which is
\* kept while there is one to schedule.
TickSnapshot ==
    /\ \E t \in Tasks : task[t].state = "QUEUED"
    /\ snap' = session
    /\ UNCHANGED <<task, job, due, att, cmd, art, regEpoch, session, streamVars, workerVars>>

OpenAttempts  == {a \in Attempts : Open(a)}

\* Mutant: executions that an earlier Worker process started are not counted.
OpenOnOfSession(w) == {a \in OpenAttempts : WorkerOf(a) = w /\ att[a].epoch = snap[w]}
OpenOn(w)     == {a \in OpenAttempts : WorkerOf(a) = w}
Assignable(t) == task[t].state = "QUEUED" /\ JobAllows(t)

\* assign(): the limits count unreleased Attempts, the Worker and its epoch come
\* from the tick's copy.  Which eligible Worker is chosen is left open.
Assign(t, w) ==
    LET g == task[t].gen + 1 IN
    /\ Assignable(t) /\ due[t] = "no"
    /\ Cardinality(OpenAttempts) < ProjectLimit
    /\ snap[w] # 0 /\ Cardinality(OpenOn(w)) < Slots
    /\ att' = [att EXCEPT ![<<t, g>>] = [NoAttempt EXCEPT !.worker = w, !.epoch = snap[w],
                                                          !.lease = "valid"]]
    /\ task' = [task EXCEPT ![t] = [state |-> "STARTING", code |-> "OK", att |-> g, gen |-> g]]
    /\ cmd' = [cmd EXCEPT ![<<t, g>>]["start"] = "pending"]
    /\ snap' = IF \E u \in Tasks \ {t} : task[u].state = "QUEUED" THEN snap
               ELSE [v \in Workers |-> 0]
    /\ UNCHANGED <<job, due, art, regEpoch, session, streamVars, workerVars>>

\* assign(): a deadline reached before dispatch.
AssignExpired(t) ==
    /\ Assignable(t) /\ due[t] # "no"
    /\ task' = [task EXCEPT ![t] = SetState(@, "FAILED", "DEADLINE_EXCEEDED")]
    /\ UNCHANGED <<job, due, att, cmd, art, regEpoch, session, snap, streamVars, workerVars>>

\* retryJob (POST /v1/jobs/{id}/retry) on a FAILED single-mode Job.
ManualRetry(t) ==
    /\ t \in Managed /\ job[t] = "CHILD_FAILED" /\ due[t] # "job"
    /\ task[t].state = "FAILED"
    /\ HasAttempt(t) /\ att[CurrentOf(t)].released
    /\ t \in ReplaySafe /\ task[t].gen < MaxAttempts
    /\ task' = [task EXCEPT ![t] = [@ EXCEPT !.state = "QUEUED", !.code = "OK", !.att = 0]]
    /\ job' = [job EXCEPT ![t] = "open"]
    /\ UNCHANGED <<due, att, cmd, art, regEpoch, session, snap, streamVars, workerVars>>

-----------------------------------------------------------------------------
\* Frames of a broken stream are gone.
OffWire(w)   == {m \in wire : WorkerOf(m[2]) # w}
OffGrants(w) == [a \in Attempts |-> IF WorkerOf(a) = w THEN {} ELSE grants[a]]

\* ConnectWorker: registers the epoch and replaces the session of an earlier
\* process.  (Replacing one of the same process is Disconnect and Connect.)
Connect(w) ==
    /\ wstat[w] = "up" /\ session[w] # epoch[w]
    /\ regEpoch' = [regEpoch EXCEPT ![w] = epoch[w]]
    /\ session' = [session EXCEPT ![w] = epoch[w]]
    /\ wire' = OffWire(w) /\ grants' = OffGrants(w)
    /\ UNCHANGED <<task, job, due, att, cmd, art, snap, workerVars>>

Disconnect(w) ==
    /\ "stream" \in Faults /\ session[w] # 0
    /\ session' = [session EXCEPT ![w] = 0]
    /\ wire' = OffWire(w) /\ grants' = OffGrants(w)
    /\ UNCHANGED <<task, job, due, att, cmd, art, regEpoch, snap, workerVars>>

\* The Server process restarts on its database: sessions and the running tick end.
ServerRestart ==
    /\ "stream" \in Faults
    /\ session' = [w \in Workers |-> 0] /\ snap' = [w \in Workers |-> 0]
    /\ wire' = {} /\ grants' = [a \in Attempts |-> {}]
    /\ UNCHANGED <<task, job, due, att, cmd, art, regEpoch, workerVars>>

CommandDeliverable(a) ==
    Current(a) /\ ~att[a].released /\ att[a].epoch = session[WorkerOf(a)]

\* Mutant: a command counts as acknowledged when it is sent.
SendCommandAcked(k, a) ==
    /\ Exists(a) /\ session[WorkerOf(a)] # 0 /\ cmd[a][k] = "pending"
    /\ wire' = IF CommandDeliverable(a) THEN wire \cup {<<k, a>>} ELSE wire
    /\ cmd' = [cmd EXCEPT ![a][k] = "acked"]
    /\ UNCHANGED <<task, job, due, att, art, regEpoch, session, snap, grants, workerVars>>

\* The session's ticker: a pending command is sent, or marked ACKed for good.
SendCommand(k, a) ==
    /\ Exists(a) /\ session[WorkerOf(a)] # 0 /\ cmd[a][k] = "pending"
    /\ IF CommandDeliverable(a)
       THEN wire' = wire \cup {<<k, a>>} /\ UNCHANGED cmd
       ELSE cmd' = [cmd EXCEPT ![a][k] = "acked"] /\ UNCHANGED wire
    /\ UNCHANGED <<task, job, due, att, art, regEpoch, session, snap, grants, workerVars>>

\* receive(): the answer to a Renew.
GrantValid(a) ==
    /\ CheckAttempt(a) /\ ~att[a].released /\ att[a].lease = "valid"
    /\ task[TaskOf(a)].state \notin Stopping \cup Terminal
    /\ JobAllows(TaskOf(a))

-----------------------------------------------------------------------------
\* Time: a lease or a deadline passes.
LeaseExpires(a) ==
    /\ "lease" \in Faults /\ Open(a) /\ att[a].lease = "valid"
    /\ att' = [att EXCEPT ![a].lease = "expired"]
    /\ UNCHANGED <<task, job, due, cmd, art, regEpoch, session, snap, streamVars, workerVars>>

DeadlinePasses(t) ==
    /\ "deadline" \in Faults /\ task[t].state # "NONE" /\ due[t] # "job"
    /\ due' = [due EXCEPT ![t] = "job"]
    /\ UNCHANGED <<task, job, att, cmd, art, regEpoch, session, snap, streamVars, workerVars>>

-----------------------------------------------------------------------------
\* ReportEvents with the event attempt.started: refused for a stale Attempt, and
\* for a released one unless the event is already committed.
EventsAccepted(a) == CheckAttempt(a) /\ (att[a].seq = 1 \/ ~att[a].released)
ReportStarted(a) ==
    LET t == TaskOf(a)
        starts == /\ att[a].seq = 0 /\ task[t].state = "STARTING"
                  /\ att[a].lease = "valid" /\ JobAllows(t) IN
    /\ EventsAccepted(a)
    /\ att' = [att EXCEPT ![a].seq = 1]
    /\ task' = IF starts THEN [task EXCEPT ![t] = SetState(@, "RUNNING", "OK")] ELSE task

\* UploadArtifact: the bundle is registered for the Attempt, once.
RegisterArtifact(a) ==
    /\ CheckAttempt(a) /\ ~att[a].released
    /\ art' = [art EXCEPT ![a] = "STAGED"]

-----------------------------------------------------------------------------
\* Mutant: the outcome does not ask whether the Task is being stopped.
OutcomeAsReported(a, c) == IF c.ok THEN <<"SUCCEEDED", "OK">> ELSE <<"FAILED", c.code>>

\* The state and code a clean completion gives its Task.
Outcome(a, c) ==
    LET t == TaskOf(a) IN
    IF task[t].state = "CANCELING"
    THEN IF task[t].code = "DEADLINE_EXCEEDED" THEN <<"FAILED", "DEADLINE_EXCEEDED">>
         ELSE <<"CANCELED", "OK">>
    ELSE IF EpochChanged(a) THEN <<"FAILED", "WORKER_RESTARTED">>
    ELSE IF task[t].state = "RECONCILING" \/ att[a].lease = "expired" THEN <<"FAILED", "WORKER_LOST">>
    ELSE IF ~JobAllows(t) THEN <<"FAILED", "JOB_STOPPING">>
    ELSE IF c.ok THEN <<"SUCCEEDED", "OK">>
    ELSE <<"FAILED", c.code>>

\* What CompleteAttempt accepts at all.  A Worker process of another epoch may only
\* report that the old execution is cleaned up.
MayComplete(a, c) ==
    /\ Current(a) /\ regEpoch[WorkerOf(a)] # 0
    /\ EpochChanged(a) => c.clean /\ ~c.ok /\ c.code = "WORKER_RESTARTED" /\ ~c.art
    /\ \/ att[a].final = c
       \/ /\ att[a].final = NoCompletion
          /\ ~EpochChanged(a) => att[a].seq = run[a].seq
          /\ c.clean => /\ c.art => art[a] = "STAGED"
                        /\ Outcome(a, c)[1] = "SUCCEEDED" => c.art

\* Mutant: work that is not replay-safe is retried as well.
PlanRetryAnything(a, code, soon) ==
    /\ code \in {"RETRYABLE", "WORKER_RESTARTED"} /\ job[TaskOf(a)] = "open"
    /\ Gen(a) < MaxAttempts /\ soon /\ due[TaskOf(a)] = "no"

\* retryableAttemptError() and planRetry(); soon: the backoff ends before the deadline.
RetryableAttemptError(code) == code \in {"RETRYABLE", "WORKER_RESTARTED"}
PlanRetry(a, code, soon) ==
    LET t == TaskOf(a) IN
    /\ RetryableAttemptError(code)
    /\ t \in Managed /\ job[t] = "open"
    /\ t \in ReplaySafe /\ MaxAttempts > 1
    /\ Gen(a) < MaxAttempts
    /\ soon /\ due[t] = "no"

\* scheduleRetry()
Requeue(r) == [r EXCEPT !.state = "QUEUED", !.code = "OK", !.att = 0]

\* Mutants: staged artifacts are orphaned before any is accepted; they are accepted
\* for what the Worker reported, not for what the Server decided.
CommitOrphans(a, c, soon) ==
    LET o == Outcome(a, c) IN
    /\ art' = [art EXCEPT ![a] = IF @ = "STAGED" THEN "ORPHANED" ELSE @]
    /\ att' = [att EXCEPT ![a].released = TRUE, ![a].final = c]
    /\ task' = [task EXCEPT ![TaskOf(a)] = SetState(@, o[1], IF o[2] \in TaskCodes THEN o[2] ELSE "ERROR")]
    /\ UNCHANGED cmd
CommitAcceptsReported(a, c, soon) ==
    LET o == Outcome(a, c) IN
    /\ art' = [art EXCEPT ![a] = IF c.ok THEN "ACCEPTED" ELSE IF @ = "STAGED" THEN "ORPHANED" ELSE @]
    /\ att' = [att EXCEPT ![a].released = TRUE, ![a].final = c]
    /\ task' = [task EXCEPT ![TaskOf(a)] = SetState(@, o[1], IF o[2] \in TaskCodes THEN o[2] ELSE "ERROR")]
    /\ UNCHANGED cmd

Commit(a, c, soon) ==
    LET t == TaskOf(a)
        o == Outcome(a, c) IN
    /\ art' = [art EXCEPT ![a] = IF o[1] = "SUCCEEDED" THEN "ACCEPTED"
                                 ELSE IF @ = "STAGED" THEN "ORPHANED" ELSE @]
    /\ att' = [att EXCEPT ![a].released = TRUE, ![a].final = c]
    /\ cmd' = [cmd EXCEPT ![a] = [k \in Kinds |-> IF @[k] = "none" THEN "none" ELSE "acked"]]
    /\ task' = [task EXCEPT ![t] =
                  IF o[1] = "FAILED" /\ PlanRetry(a, o[2], soon) THEN Requeue(@)
                  ELSE SetState(@, o[1], IF o[2] \in TaskCodes THEN o[2] ELSE "ERROR")]

\* An unclean completion releases nothing: the Task waits for an operator.
Unconfirmed(a) ==
    /\ task' = IF task[TaskOf(a)].state = "CANCELING" THEN task
               ELSE [task EXCEPT ![TaskOf(a)] = SetState(@, "RECONCILING", "ERROR")]
    /\ UNCHANGED <<att, cmd, art>>

\* Mutant: an unconfirmed cleanup releases the Attempt like a confirmed one.
CompleteUnclean(a, c, soon) ==
    /\ MayComplete(a, c)
    /\ IF att[a].final = c THEN UNCHANGED <<task, att, cmd, art>> ELSE Commit(a, c, soon)

CompleteAttempt(a, c, soon) ==
    /\ MayComplete(a, c)
    /\ IF att[a].final = c THEN UNCHANGED <<task, att, cmd, art>>
       ELSE IF c.clean THEN Commit(a, c, soon)
       ELSE Unconfirmed(a)
=============================================================================
