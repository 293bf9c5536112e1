---------------------------- MODULE WorkerJournal ----------------------------
(***************************************************************************)
(* A Worker's side of task execution (internal/worker, internal/process):   *)
(* the runs table of its journal, the goroutine of every accepted Attempt,  *)
(* the processes it starts, and what recover() concludes from the journal   *)
(* and the operating system after a restart of the Worker process.          *)
(*                                                                         *)
(* An Attempt's row, goroutine and processes live on WorkerOf(a).           *)
(***************************************************************************)
EXTENDS AttemptState

Up(a)       == wstat[WorkerOf(a)] = "up"
At(a, p)    == act[a].phase = p
Goroutine(a) == act[a].phase # "off"
Cancelled(a) == act[a].cancel = "yes"

\* completion(): stored once; the goroutine then returns and leaves w.runs.
Stored(r, c) ==
    IF r.comp # NoCompletion THEN r ELSE [r EXCEPT !.state = "DONE", !.comp = c]
Complete(a, c) ==
    /\ run' = [run EXCEPT ![a] = Stored(@, c)]
    /\ act' = [act EXCEPT ![a] = [Off EXCEPT !.phase = "ending"]]
Goes(a, p) == act' = [act EXCEPT ![a].phase = p]
Ends(a, p, res, clean) ==
    act' = [act EXCEPT ![a].phase = p, ![a].res = res, ![a].clean = clean]

\* Mutant: the shutdown is reported clean without waiting for the group to be gone.
StoppedUnchecked(a, group, clean) == UNCHANGED procs

\* Process-group shutdown (process.StopDetailed): all dead, or not confirmed.
Stopped(a, group, clean) ==
    procs' = IF clean THEN [procs EXCEPT ![a] = @ \ group] ELSE procs

Failed(code) == Completion(FALSE, TRUE, code, FALSE)      \* failUnstarted()

-----------------------------------------------------------------------------
\* accept() and start() for a start command: a first one inserts the row and
\* launches the goroutine, unless every slot of the Worker is taken.
AcceptStart(a) ==
    LET busy == {b \in On(WorkerOf(a)) : Goroutine(b)}
        full == Cardinality(busy) >= Slots IN
    IF run[a] # NoRun THEN UNCHANGED <<run, act>>
    ELSE /\ run' = [run EXCEPT ![a] = IF full THEN Stored(NoRun, Failed("FINAL"))
                                      ELSE [NoRun EXCEPT !.state = "ACCEPTED"]]
         /\ act' = IF full THEN act ELSE [act EXCEPT ![a] = [Off EXCEPT !.phase = "waiting"]]

\* accept() for a stop command: a tombstone if nothing was launched.  The receive
\* loop cancels the goroutine once the command is acknowledged, not before.
AcceptStop(a, acked) ==
    /\ run' = [run EXCEPT ![a] =
                 [IF @.state \in {"NONE", "ACCEPTED"} THEN Stored(@, Failed("FINAL")) ELSE @
                  EXCEPT !.stop = TRUE]]
    /\ act' = IF acked /\ Goroutine(a) /\ ~Cancelled(a)
              THEN [act EXCEPT ![a].cancel = "pending"] ELSE act

CancelRun(a) ==
    /\ act[a].cancel = "pending"
    /\ act' = [act EXCEPT ![a].cancel = "yes"]
    /\ UNCHANGED <<serverVars, streamVars, wstat, epoch, run, procs>>

\* A lease answer: an invalid one cancels, the first valid one starts execute().
TakeGrant(a, ok) ==
    act' = IF ~Goroutine(a) THEN act
           ELSE IF ~ok THEN [act EXCEPT ![a].cancel = "yes"]
           ELSE IF At(a, "waiting") THEN [act EXCEPT ![a].phase = "ready"]
           ELSE act

-----------------------------------------------------------------------------
\* Mutant: leases are only checked while the stream is up.
LocalLeaseEndsOnline(a) ==
    /\ "lease" \in Faults /\ Goroutine(a) /\ ~Cancelled(a) /\ session[WorkerOf(a)] # 0
    /\ act' = [act EXCEPT ![a].cancel = "yes"]
    /\ UNCHANGED <<serverVars, streamVars, wstat, epoch, run, procs>>

\* leaseLoop(): the granted time is over on the Worker's clock.
LocalLeaseEnds(a) ==
    /\ "lease" \in Faults /\ Goroutine(a) /\ ~Cancelled(a)
    /\ act' = [act EXCEPT ![a].cancel = "yes"]
    /\ UNCHANGED <<serverVars, streamVars, wstat, epoch, run, procs>>

\* start(): the goroutine is cancelled before it has a lease.
LeaseLost(a) ==
    /\ act[a].phase \in {"waiting", "ready"} /\ Cancelled(a)
    /\ Complete(a, Failed("FINAL"))
    /\ UNCHANGED <<serverVars, streamVars, wstat, epoch, procs>>

\* Mutant: the claim does not look at the row.
ExecuteUnclaimed(a) ==
    /\ At(a, "ready")
    /\ IF Cancelled(a) THEN Complete(a, Failed("RETRYABLE"))
       ELSE run' = [run EXCEPT ![a].state = "STARTING"] /\ Goes(a, "prepare")
    /\ UNCHANGED <<serverVars, streamVars, wstat, epoch, procs>>

\* execute() claims the row.  The claim fails with an error once the context is
\* cancelled, and changes no row once a stop was accepted.
ExecuteBegin(a) ==
    /\ At(a, "ready")
    /\ IF Cancelled(a) THEN Complete(a, Failed("RETRYABLE"))
       ELSE IF run[a].state = "ACCEPTED" /\ ~run[a].stop /\ ~Recorded(a)
       THEN run' = [run EXCEPT ![a].state = "STARTING"] /\ Goes(a, "prepare")
       ELSE UNCHANGED run /\ Goes(a, "ending")
    /\ UNCHANGED <<serverVars, streamVars, wstat, epoch, procs>>

\* prepareWorkspace() inserts the PREPARING row, first thing.
PrepareWorkspace(a) ==
    /\ At(a, "prepare") /\ run[a].ws = "none" /\ ~Cancelled(a)
    /\ run' = [run EXCEPT ![a].ws = "pre"]
    /\ UNCHANGED <<serverVars, streamVars, wstat, epoch, act, procs>>

\* Any check or preparation before the Workspace is IN_USE fails.
PrepareFails(a) ==
    /\ At(a, "prepare") /\ ("local" \in Faults \/ Cancelled(a))
    /\ Complete(a, Failed("FINAL"))
    /\ UNCHANGED <<serverVars, streamVars, wstat, epoch, procs>>

MarkInUse(a) ==
    /\ At(a, "prepare") /\ run[a].ws = "pre" /\ ~Cancelled(a)
    /\ run' = [run EXCEPT ![a].ws = "inuse"]
    /\ Goes(a, "environment")
    /\ UNCHANGED <<serverVars, streamVars, wstat, epoch, procs>>

\* Environment or adapter preparation fails; its release is confirmed or not.
EnvironmentFails(a) ==
    /\ At(a, "environment") /\ ("local" \in Faults \/ Cancelled(a))
    /\ \E c \in {Failed("RETRYABLE"), Failed("FINAL"),
                 Completion(FALSE, FALSE, "CLEANUP_UNCONFIRMED", FALSE)} : Complete(a, c)
    /\ UNCHANGED <<serverVars, streamVars, wstat, epoch, procs>>

\* process.Run starts the leader of a new process group ...
Spawn(a) ==
    /\ At(a, "environment") /\ ~Cancelled(a)
    /\ procs' = [procs EXCEPT ![a] = {"leader"}]
    /\ Goes(a, "spawned")
    /\ UNCHANGED <<serverVars, streamVars, wstat, epoch, run>>

SpawnFails(a) ==
    /\ At(a, "environment") /\ ("local" \in Faults \/ Cancelled(a))
    /\ Ends(a, "exited", "FINAL", TRUE)
    /\ UNCHANGED <<serverVars, streamVars, wstat, epoch, run, procs>>

\* ... and only then its identity is stored, with the event attempt.started.
RuntimeRow(r) == [r EXCEPT !.state = "RUNNING", !.ref = TRUE, !.pid = "leader"]
RecordRuntimeStarted(a) ==
    /\ At(a, "spawned")
    /\ run' = [run EXCEPT ![a] = [RuntimeRow(@) EXCEPT !.seq = 1]]
    /\ Goes(a, "running")
    /\ UNCHANGED <<serverVars, streamVars, wstat, epoch, procs>>

\* The identity, or the event after it, cannot be stored: the group is stopped.
RecordFails(a) ==
    /\ "local" \in Faults /\ At(a, "spawned")
    /\ \E clean \in BOOLEAN, r \in {run[a], RuntimeRow(run[a])} :
         /\ run' = [run EXCEPT ![a] = r]
         /\ Stopped(a, Group, clean)
         /\ Ends(a, "exited", "FINAL", clean)
    /\ UNCHANGED <<serverVars, streamVars, wstat, epoch>>

\* process.Run returns: the leader exited or the context was cancelled, then the
\* rest of the group is stopped.  res is "OK" for a successful runtime.
RuntimeEnds(a) ==
    /\ At(a, "running") /\ (Cancelled(a) \/ "leader" \notin procs[a])
    /\ \E clean \in BOOLEAN, res \in {"OK", "RETRYABLE", "FINAL"} :
         /\ ~clean => res = "FINAL"
         /\ res = "OK" => "leader" \notin procs[a]
         /\ Stopped(a, Group, clean)
         /\ Ends(a, "exited", res, clean)
    /\ UNCHANGED <<serverVars, streamVars, wstat, epoch, run>>

-----------------------------------------------------------------------------
\* Trusted verification: the recorded identity is cleared, the verifier is
\* started in a group of its own, and its PID stored; runtime_ref stays.
Verifies(a) == At(a, "exited") /\ act[a].res = "OK" /\ TaskOf(a) \in Verified
FenceVerifier(a) ==
    /\ Verifies(a)
    /\ \/ run' = [run EXCEPT ![a].state = "STARTING", ![a].pid = "none"] /\ Goes(a, "fenced")
       \/ "local" \in Faults /\ UNCHANGED run /\ Ends(a, "verified", "RETRYABLE", TRUE)
    /\ UNCHANGED <<serverVars, streamVars, wstat, epoch, procs>>

SpawnVerifier(a) ==
    /\ At(a, "fenced")
    /\ \/ ~Cancelled(a) /\ procs' = [procs EXCEPT ![a] = @ \cup {"verifier"}] /\ Goes(a, "vspawned")
       \/ UNCHANGED procs /\ Ends(a, "verified", "FINAL", TRUE)
    /\ UNCHANGED <<serverVars, streamVars, wstat, epoch, run>>

RecordVerifier(a) ==
    /\ At(a, "vspawned")
    /\ run' = [run EXCEPT ![a].state = "RUNNING", ![a].pid = "verifier"]
    /\ Goes(a, "verifying")
    /\ UNCHANGED <<serverVars, streamVars, wstat, epoch, procs>>

\* The verifier ends, is cancelled, or could not be recorded.
VerifierEnds(a) ==
    /\ \/ "local" \in Faults /\ At(a, "vspawned")
       \/ At(a, "verifying") /\ (Cancelled(a) \/ "verifier" \notin procs[a])
    /\ \E clean \in BOOLEAN, res \in {"OK", "FINAL"} :
         /\ res = "OK" => clean /\ At(a, "verifying") /\ "verifier" \notin procs[a]
         /\ Stopped(a, {"verifier"}, clean)
         /\ Ends(a, "verified", res, clean)
    /\ UNCHANGED <<serverVars, streamVars, wstat, epoch, run>>

-----------------------------------------------------------------------------
\* The tail of execute(): diff, output, bundle, release of the environment.
\* Under a cancelled context the diff fails (ARTIFACT_ERROR); without a bundle
\* (it or the metrics could not be stored) the completion lists no artifact.
FinalCodes(a) ==
    IF Cancelled(a) THEN {"RETRYABLE"}
    ELSE {act[a].res} \cup (IF "local" \in Faults THEN {"RETRYABLE", "FINAL"} ELSE {})
Finish(a) ==
    /\ At(a, "verified") \/ (At(a, "exited") /\ ~Verifies(a))
    /\ \E code \in FinalCodes(a), released \in BOOLEAN, bundled \in BOOLEAN :
         LET clean == act[a].clean /\ released IN
         /\ ~bundled => code = "RETRYABLE" /\ "local" \in Faults
         /\ Complete(a, IF clean THEN Completion(code = "OK", TRUE, code, bundled)
                        ELSE Completion(FALSE, FALSE, "CLEANUP_UNCONFIRMED", bundled))
    /\ UNCHANGED <<serverVars, streamVars, wstat, epoch, procs>>

\* The goroutine's deferred delete(w.runs).
Leave(a) ==
    /\ At(a, "ending")
    /\ act' = [act EXCEPT ![a] = Off]
    /\ UNCHANGED <<serverVars, streamVars, wstat, epoch, run, procs>>

-----------------------------------------------------------------------------
\* The operating system (external): a process of the group forks, any one exits.
Fork(a) ==
    /\ TaskOf(a) \in Forking /\ "leader" \in procs[a] /\ "member" \notin procs[a]
    /\ procs' = [procs EXCEPT ![a] = @ \cup {"member"}]
    /\ UNCHANGED <<serverVars, streamVars, wstat, epoch, run, act>>

ProcessExits(a, p) ==
    /\ p \in procs[a]
    /\ procs' = [procs EXCEPT ![a] = @ \ {p}]
    /\ UNCHANGED <<serverVars, streamVars, wstat, epoch, run, act>>

\* The Worker process dies: goroutines end, journal and child processes stay.
\* The last process that the bound MaxEpoch allows does not die.
Crash(w) ==
    /\ "crash" \in Faults /\ wstat[w] # "down" /\ epoch[w] < MaxEpoch
    /\ wstat' = [wstat EXCEPT ![w] = "down"]
    /\ act' = [a \in Attempts |-> IF WorkerOf(a) = w THEN Off ELSE act[a]]
    /\ UNCHANGED <<serverVars, streamVars, epoch, run, procs>>

\* Run(): first recover().
Boot(w) ==
    /\ wstat[w] = "down"
    /\ wstat' = [wstat EXCEPT ![w] = "recovering"]
    /\ UNCHANGED <<serverVars, streamVars, epoch, run, act, procs>>

Interrupted(a) == run[a].state # "NONE" /\ ~Recorded(a)

\* Mutant: every row without a runtime_ref counts as never started.
ProvableWithoutRef(a) == run[a].ref \/ run[a].state \in {"ACCEPTED", "STARTING"}

\* What recover() can prove about an interrupted row.  With a runtime_ref it asks
\* process.Inspect, which looks at the leader and calls an absent one cleaned up.
Provable(a) ==
    \/ run[a].ref
    \/ run[a].state = "ACCEPTED"
    \/ run[a].state = "STARTING" /\ run[a].ws = "pre"

\* recover() of one row.  The leader of a live group is stopped together with it;
\* inspecting, stopping or releasing the environment may fail to confirm.
RecoverRun(a) ==
    /\ Exists(a) /\ wstat[WorkerOf(a)] = "recovering" /\ Interrupted(a)
    /\ \E confirmed \in IF run[a].ws = "inuse" THEN BOOLEAN ELSE {TRUE} :
         LET clean == Provable(a) /\ confirmed IN
         /\ run' = [run EXCEPT ![a] =
                      [Stored(@, IF clean THEN Failed("WORKER_RESTARTED")
                                 ELSE Completion(FALSE, FALSE, "CLEANUP_UNCONFIRMED", FALSE))
                       EXCEPT !.ack = run[a].seq]]
         /\ Stopped(a, Group, run[a].ref /\ confirmed /\ "leader" \in procs[a])
    /\ UNCHANGED <<serverVars, streamVars, wstat, epoch, act>>

\* probe(): a fresh epoch, after every interrupted row is recovered.
Probe(w) ==
    /\ wstat[w] = "recovering"
    /\ \A a \in On(w) : ~Interrupted(a)
    /\ wstat' = [wstat EXCEPT ![w] = "up"]
    /\ epoch' = [epoch EXCEPT ![w] = @ + 1]
    /\ UNCHANGED <<serverVars, streamVars, run, act, procs>>
=============================================================================
