---------------------------- MODULE TaskAttempts ----------------------------
(***************************************************************************)
(* Task execution end to end: the control plane, the Workers and what lies  *)
(* between them.  Commands and lease answers travel on the Worker stream    *)
(* and are lost with it; reports (events, artifacts, completions) are       *)
(* unary calls of the Worker's flush loop, repeated until their answer      *)
(* arrives, so the Server may apply one any number of times.                *)
(***************************************************************************)
EXTENDS ControlPlane, WorkerJournal

Connected(a) == Up(a) /\ session[WorkerOf(a)] = epoch[WorkerOf(a)]

\* The stream breaks: what is on it is lost, the session ends.
StreamBreaks(w) ==
    /\ session' = [session EXCEPT ![w] = 0]
    /\ wire' = OffWire(w) /\ grants' = OffGrants(w)

\* connect()'s receive loop takes a command, journals it and answers RECEIVED;
\* the answer may be lost with the stream, then the command comes again.
ReceiveCommand(k, a) ==
    /\ <<k, a>> \in wire /\ Connected(a)
    /\ \E acked \in IF "stream" \in Faults THEN BOOLEAN ELSE {TRUE} :
         /\ IF k = "start" THEN AcceptStart(a) ELSE AcceptStop(a, acked)
         /\ IF acked
            THEN /\ cmd' = [cmd EXCEPT ![a][k] = "acked"]
                 /\ wire' = wire \ {<<k, a>>}
                 /\ UNCHANGED <<session, grants>>
            ELSE StreamBreaks(WorkerOf(a)) /\ UNCHANGED cmd
    /\ UNCHANGED <<task, job, due, att, art, regEpoch, snap, wstat, epoch, procs>>

\* The Worker renews every journalled Attempt that is not completed.  Only an
\* answer that changes something at the Worker is recorded.
Renew(a) ==
    /\ Exists(a) /\ Connected(a) /\ run[a].state # "NONE" /\ ~run[a].completed
    /\ Goroutine(a)
    /\ IF GrantValid(a) THEN At(a, "waiting") ELSE ~Cancelled(a)
    /\ grants' = [grants EXCEPT ![a] = @ \cup {GrantValid(a)}]
    /\ UNCHANGED <<serverVars, wire, workerVars>>

ReceiveGrant(a, ok) ==
    /\ ok \in grants[a] /\ Connected(a)
    /\ grants' = [grants EXCEPT ![a] = @ \ {ok}]
    /\ TakeGrant(a, ok)
    /\ UNCHANGED <<serverVars, wire, wstat, epoch, run, procs>>

-----------------------------------------------------------------------------
\* flush(): events, then the artifact, then the completion.
Flushing(a) == Exists(a) /\ Up(a) /\ run[a].state # "NONE" /\ ~run[a].completed

\* Whether the answer to a call arrives.
Answers == IF "answer" \in Faults THEN BOOLEAN ELSE {TRUE}

ReportEvents(a, answered) ==
    /\ Flushing(a) /\ run[a].ack < run[a].seq
    /\ ReportStarted(a)
    /\ run' = IF answered THEN [run EXCEPT ![a].ack = 1] ELSE run
    /\ UNCHANGED <<job, due, cmd, art, regEpoch, session, snap, streamVars, wstat, epoch, act, procs>>

Uploading(a) ==
    /\ Flushing(a) /\ Recorded(a) /\ run[a].ack = run[a].seq
    /\ run[a].comp.art /\ ~run[a].uploaded

UploadArtifact(a, answered) ==
    /\ Uploading(a)
    /\ RegisterArtifact(a)
    /\ run' = IF answered THEN [run EXCEPT ![a].uploaded = TRUE] ELSE run
    /\ UNCHANGED <<task, job, due, att, cmd, regEpoch, session, snap, streamVars, wstat, epoch, act, procs>>

\* The bundle is refused for good (limits) or is gone: the result becomes a failure.
UploadRejected(a) ==
    /\ "local" \in Faults /\ Uploading(a)
    /\ run' = [run EXCEPT ![a].uploaded = TRUE,
                          ![a].comp = [@ EXCEPT !.ok = FALSE, !.code = "RETRYABLE", !.art = FALSE]]
    /\ UNCHANGED <<serverVars, streamVars, wstat, epoch, act, procs>>

\* completed=1: nothing but the identity of the row is read from here on.
Closed(r) == [NoRun EXCEPT !.state = "DONE", !.comp = r.comp, !.completed = TRUE]

Completing(a) ==
    /\ Flushing(a) /\ Recorded(a) /\ run[a].ack = run[a].seq
    /\ run[a].comp.art => run[a].uploaded

ReportCompletion(a, answered) ==
    /\ Completing(a)
    /\ \E soon \in BOOLEAN : CompleteAttempt(a, run[a].comp, soon)
    /\ run' = IF answered THEN [run EXCEPT ![a] = Closed(@)] ELSE run
    /\ UNCHANGED <<job, due, regEpoch, session, snap, streamVars, wstat, epoch, act, procs>>

-----------------------------------------------------------------------------
User == \E t \in Tasks :
    SubmitTask(t) \/ CancelTask(t) \/ CancelJob(t) \/ ExtendJobDeadline(t) \/ ManualRetry(t)

Controller ==
    \/ Reconcile
    \/ TickSnapshot
    \/ \E t \in Tasks : AdvanceJob(t) \/ AssignExpired(t)
    \/ \E t \in Tasks, w \in Workers : Assign(t, w)

Stream ==
    \/ ServerRestart
    \/ \E w \in Workers : Connect(w) \/ Disconnect(w)
    \/ \E k \in Kinds, a \in Attempts : SendCommand(k, a) \/ ReceiveCommand(k, a)
    \/ \E a \in Attempts : Renew(a) \/ CancelRun(a) \/ \E ok \in BOOLEAN : ReceiveGrant(a, ok)

Time ==
    \/ \E a \in Attempts : LeaseExpires(a) \/ LocalLeaseEnds(a)
    \/ \E t \in Tasks : DeadlinePasses(t)

Execute(a) ==
    \/ LeaseLost(a) \/ ExecuteBegin(a) \/ PrepareWorkspace(a) \/ PrepareFails(a) \/ MarkInUse(a)
    \/ EnvironmentFails(a) \/ Spawn(a) \/ SpawnFails(a) \/ RecordRuntimeStarted(a)
    \/ RecordFails(a) \/ RuntimeEnds(a) \/ FenceVerifier(a) \/ SpawnVerifier(a)
    \/ RecordVerifier(a) \/ VerifierEnds(a) \/ Finish(a) \/ Leave(a)

Processing == \E a \in Attempts :
    Execute(a) \/ Fork(a) \/ \E p \in Processes : ProcessExits(a, p)

Flush == \E a \in Attempts :
    \/ UploadRejected(a)
    \/ \E answered \in Answers :
         ReportEvents(a, answered) \/ UploadArtifact(a, answered) \/ ReportCompletion(a, answered)

Restart ==
    \/ \E w \in Workers : Crash(w) \/ Boot(w) \/ Probe(w)
    \/ \E a \in Attempts : RecoverRun(a)

Next == User \/ Controller \/ Stream \/ Time \/ Processing \/ Flush \/ Restart
Spec == Init /\ [][Next]_vars

\* flush() takes the rows in no defined order and returns at the first error, so
\* only with no refused row beside it is a row sure to be reached.
Refused(b) ==
    /\ Flushing(b)
    /\ \/ run[b].ack < run[b].seq /\ ~EventsAccepted(b)
       \/ Uploading(b) /\ (att[b].released \/ ~CheckAttempt(b))
       \/ Completing(b) /\ ~MayComplete(b, run[b].comp)
Reached(a) == \A b \in On(WorkerOf(a)) \ {a} : ~Refused(b)

\* The controller ticks, a Worker restarts, its session sends and receives, its
\* goroutines, leaseLoop() and flush() go on, and deadlines pass.  A Worker does
\* not die in every recover() (strong fairness) and an answer is not lost every
\* time; a runtime need not end by itself, no user is obliged to do anything, and a
\* Worker may never reach the Server.
Progress ==
    /\ WF_vars(Reconcile) /\ WF_vars(TickSnapshot)
    /\ \A t \in Tasks :
         /\ WF_vars(AdvanceJob(t)) /\ WF_vars(AssignExpired(t)) /\ WF_vars(DeadlinePasses(t))
         /\ \A w \in Workers : WF_vars(Assign(t, w))
    /\ \A w \in Workers : WF_vars(Boot(w)) /\ SF_vars(Probe(w))
    /\ \A a \in Attempts :
         /\ WF_vars(Execute(a)) /\ SF_vars(RecoverRun(a)) /\ WF_vars(Renew(a)) /\ WF_vars(CancelRun(a))
         /\ WF_vars(LocalLeaseEnds(a) /\ ~Connected(a))
         /\ \A ok \in BOOLEAN : WF_vars(ReceiveGrant(a, ok))
         /\ \A k \in Kinds : WF_vars(SendCommand(k, a)) /\ WF_vars(ReceiveCommand(k, a))
         /\ WF_vars(Reached(a) /\ ReportEvents(a, TRUE))
         /\ WF_vars(Reached(a) /\ UploadArtifact(a, TRUE))
         /\ WF_vars(Reached(a) /\ ReportCompletion(a, TRUE))

ProgressSpec == Spec /\ Progress

\* ... and every Worker reaches the Server.
FairSpec == ProgressSpec /\ \A w \in Workers : WF_vars(Connect(w))

-----------------------------------------------------------------------------
(* What makes the system correct.                                          *)

Generations(t) == {a \in Attempts : TaskOf(a) = t}
Alive(a)       == "leader" \in procs[a]

\* Two Attempts of one Task never execute at the same time: whatever crashes,
\* restarts, lost frames and retries happen, the runtime of an earlier generation
\* (journal.go recover, results.go CompleteAttempt) is gone before the next one starts.
OneLiveExecution ==
    \A t \in Tasks : \A a, b \in Generations(t) : Alive(a) /\ Alive(b) => a = b

\* The Server releases an Attempt, and with it the Worker's slot (attempts.released=1,
\* results.go), only when the runtime it started is gone, whichever of the Worker
\* processes before and after a crash said so (journal.go recover).
ReleasedMeansStopped ==
    \A a \in Attempts : att[a].released => ~Alive(a)

\* agent-runtime-v1.md:228, cleanup is not declared complete while a background process
\* that should not be alive still is: of a released Attempt no process at all is left.
NothingLeftBehind ==
    \A a \in Attempts : att[a].released => procs[a] = {}

\* A Worker never executes more runtimes than the slots it advertises, counting
\* those that outlived the Worker process that started them (assign's accounting).
SlotsHold ==
    \A w \in Workers : Cardinality({a \in On(w) : Alive(a)}) <= Slots

\* A SUCCEEDED Task was really executed by its current Attempt: that one committed
\* its start event and a clean, successful completion, its bundle is the Task's only
\* accepted artifact, and nothing of the Task runs any more.
SuccessIsEarned ==
    \A t \in Tasks : task[t].state = "SUCCEEDED" =>
        /\ HasAttempt(t)
        /\ LET a == CurrentOf(t) IN
           /\ att[a].released /\ att[a].final.ok /\ att[a].final.clean /\ att[a].seq = 1
           /\ {b \in Generations(t) : art[b] = "ACCEPTED"} = {a}
        /\ \A b \in Generations(t) : ~Alive(b)

\* No artifact is accepted for a Task that did not succeed (artifact_lifecycle.go).
AcceptedOnlyOnSuccess ==
    \A a \in Attempts : art[a] = "ACCEPTED" =>
        task[TaskOf(a)].state = "SUCCEEDED" /\ task[TaskOf(a)].att = Gen(a)

\* assign() itself has no attempt limit: the checks of planRetry and of the manual
\* retry keep a queued Task below it, and replay-unsafe work is never run again.
RetryBounded ==
    \A t \in Tasks :
        /\ task[t].state = "QUEUED" => task[t].gen < MaxAttempts
        /\ t \notin ReplaySafe => task[t].gen <= 1

\* A command the Server regards as delivered has reached the journal of the process
\* it was sent to, across lost ACKs and reconnects (ConnectWorker, accept).
AckedMeansJournalled ==
    \A a \in Attempts : Open(a) /\ att[a].epoch = epoch[WorkerOf(a)] =>
        /\ cmd[a]["start"] = "acked" => run[a].state # "NONE"
        /\ cmd[a]["stop"] = "acked" => run[a].stop \/ run[a].completed

-----------------------------------------------------------------------------
\* A tombstone wins: no runtime is started for an Attempt whose end is already in the
\* journal, whichever of start, stop, lease answer and execute() comes first
\* (agent-runtime-v1.md:240).  A stop that finds the execution claimed is weaker: the
\* runtime may still be started before the receive loop cancels the goroutine.
NoSpawnAfterTombstone ==
    [][\A a \in Attempts : ~Alive(a) /\ Alive(a)' => ~Recorded(a)]_vars

\* Stopping is irrevocable: a CANCELING Task only ends, and neither it nor one in
\* doubt, nor one whose Job is stopping, is reported RUNNING or SUCCEEDED again by
\* a late event or completion (agent-runtime-v1.md:227).
StopSticks ==
    [][\A t \in Tasks :
         /\ task[t].state = "CANCELING" => task'[t].state \in {"CANCELING", "CANCELED", "FAILED"}
         /\ task[t].state = "RECONCILING" => task'[t].state \notin {"STARTING", "RUNNING", "SUCCEEDED"}
         /\ job[t] \in StopReasons /\ task[t].state \notin Terminal =>
              \/ task'[t].state = task[t].state
              \/ task'[t].state \in Stopping \cup {"CANCELED", "FAILED"}]_vars

-----------------------------------------------------------------------------
\* Every submitted Task settles once the streams stay up and no Worker process is
\* replaced: it ends, or its Worker reported that cleanup cannot be confirmed, the one
\* case the runbook leaves to an operator.  Deadline, stop command, cancellation of the
\* goroutine and the delivery of its completion all have to work for this, whatever the
\* broken streams lost before.
InDoubt(t)  == \E a \in Generations(t) : Open(a) /\ Recorded(a) /\ ~run[a].comp.clean
StableLinks == \A w \in Workers : <>[](wstat[w] = "up" /\ session[w] = epoch[w])
Settles ==
    StableLinks => \A t \in Tasks :
        task[t].state # "NONE" ~> task[t].state \in Terminal \/ InDoubt(t)

\* A Worker that stays cut off from the Server stops executing (adr/0010:53): none of
\* its goroutines survives the loss of the stream for good.
CutOffWorkerStops ==
    \A a \in Attempts : <>[](Exists(a) /\ ~Connected(a)) => <>[](~Goroutine(a))

\* flush.go:121, "must not pin a cleaned-up execution forever": once a Worker has
\* recorded that an execution is over and cleaned up, the Server releases its Attempt.
CleanedUpIsReleased ==
    \A a \in Attempts : Open(a) /\ Recorded(a) /\ run[a].comp.clean ~> att[a].released

-----------------------------------------------------------------------------
\* The Task's life as the abstract specification sees it.
Life(t) == INSTANCE TaskLifecycle WITH
    MaxTries <- MaxAttempts,
    phase <- CASE task[t].state = "NONE" -> "absent"
               [] task[t].state = "QUEUED" -> "queued"
               [] task[t].state \in Executing -> "active"
               [] task[t].state = "CANCELING" -> "canceling"
               [] task[t].state = "RECONCILING" -> "reconciling"
               [] task[t].state = "SUCCEEDED" -> "succeeded"
               [] OTHER -> "ended",
    tries <- task[t].gen,
    live  <- {g \in Gens : Alive(<<t, g>>)}

\* Server and Workers together implement the promised life of every Task: the
\* conjunction of Life(t)!LifecycleSpec over the Tasks, with \A inside the box.
ImplementsLifecycle ==
    /\ \A t \in Tasks : Life(t)!LifecycleInit
    /\ [][\A t \in Tasks : Life(t)!LifecycleNext \/ UNCHANGED Life(t)!lifecycleVars]_vars

-----------------------------------------------------------------------------
(* Why no two Attempts execute at once: the inductive invariant.            *)

\* The Server's bookkeeping.  A Task's row is r: generations stay within the attempt
\* budget, and a Task that is not replay-safe has at most one.
TaskOK(t, r) ==
    /\ r.state = "NONE" => r.gen = 0
    /\ r.state = "QUEUED" => r.gen < MaxAttempts
    /\ t \notin ReplaySafe => r.gen <= 1
    /\ t \notin ReplaySafe /\ r.state = "QUEUED" => r.gen = 0

\* Generations are not reused; the only open Attempt of a Task is its current one,
\* and only while the Task is being executed or stopped.
AttemptOK(g, there, open, r) ==
    /\ there => g <= r.gen
    /\ open => r.att = g /\ r.state \in Executing \cup Stopping

Ledger ==
    /\ \A t \in Tasks : TaskOK(t, task[t])
    /\ \A a \in Attempts : AttemptOK(Gen(a), Exists(a), Open(a), task[TaskOf(a)])

\* Commands are only ever sent for Attempts that were assigned, and a Worker process
\* that is to come has an epoch left.
WireOK  == \A m \in wire : Exists(m[2])
EpochOK == \A w \in Workers : wstat[w] # "up" => epoch[w] < MaxEpoch

Claimed == {"prepare", "environment", "spawned", "running", "exited",
            "fenced", "vspawned", "verifying", "verified"}
Idle    == {"waiting", "ready", "prepare", "environment", "fenced", "vspawned", "verifying"}

\* The Worker's bookkeeping for one Attempt, whose journal row is r, goroutine g and
\* runtime alive or not: goroutines end with their process, a row that says "over and
\* cleaned up" is true, and a runtime that runs without such a row is visible in the
\* journal.
RowOK(there, up, released, r, g, alive) ==
    /\ ~there => r.state = "NONE" /\ r.comp = NoCompletion /\ g.phase = "off" /\ ~alive /\ ~released
    /\ released => r.comp # NoCompletion /\ r.comp.clean
    /\ r.comp # NoCompletion => r.state = "DONE"
    /\ r.comp # NoCompletion /\ r.comp.clean => ~alive
    /\ r.comp = NoCompletion /\ alive => r.ws = "inuse" /\ r.state \in {"STARTING", "RUNNING"}
    /\ g.phase # "off" => up
    /\ g.phase \in Idle => ~alive
    /\ g.phase \in Claimed => r.comp = NoCompletion /\ r.state \in {"STARTING", "RUNNING"}
    /\ g.phase = "environment" => r.ws = "inuse"
    /\ g.phase = "exited" /\ g.res = "OK" => g.clean
    /\ g.phase \in {"exited", "verified"} /\ g.clean => ~alive

JournalOK(a) == RowOK(Exists(a), Up(a), att[a].released, run[a], act[a], Alive(a))

\* Ledger, wire and journals are consistent in every state; each part needs the others
\* to survive the next step, and together they imply the safety properties above.
IndInv ==
    TypeOK /\ Ledger /\ WireOK /\ EpochOK /\ \A a \in Attempts : JournalOK(a)
=============================================================================
