---------------------------- MODULE AttemptState ----------------------------
(***************************************************************************)
(* The state shared by the control plane and its Workers while they execute *)
(* Tasks: the Server's SQLite rows (tasks, attempts, commands, artifacts,   *)
(* workers), the Server's in-memory sessions, what is in flight on the      *)
(* Worker streams, every Worker's SQLite journal (runs), its goroutines and *)
(* the operating-system processes they leave behind.                        *)
(*                                                                         *)
(* An Attempt is identified by its Task and its generation: attempt id and  *)
(* lease token are fresh random values drawn in the transaction that        *)
(* increments tasks.current_generation, so the pair stands for all of them. *)
(* Time is not a number.  A deadline or a lease passes in a step of its     *)
(* own, at any moment, and a Worker's clock is unrelated to the Server's.   *)
(***************************************************************************)
EXTENDS Integers, FiniteSets

CONSTANTS
    Tasks,         \* task identities
    Workers,       \* Worker identities
    None,          \* "no Worker": the attempts row does not exist
    Managed,       \* Tasks owned by a (single-mode) Job; the rest are SubmitTask's
    ReplaySafe,    \* managed Tasks whose frozen execution is replay_safe
    Verified,      \* Tasks whose acceptance profile lists verifier commands
    Forking,       \* Tasks whose runtime leaves further processes in its group
    MaxAttempts,   \* limits.max_attempts_per_task of the Job
    MaxEpoch,      \* bound: how often one Worker process may start
    Slots,         \* slots every Worker advertises
    ProjectLimit,  \* max_project_tasks (all Tasks are in one project)
    Faults         \* what may go wrong in this instance, a subset of FaultKinds

\* User cancellation; deadlines and leases that pass; streams and unary answers
\* that are lost (a Server restart loses both sides' streams); Workers that die;
\* and a Worker's own failures (disk, environment, limits).
FaultKinds == {"cancel", "deadline", "lease", "stream", "answer", "crash", "local"}

ASSUME StateAssumption ==
    /\ None \notin Workers
    /\ Managed \subseteq Tasks /\ ReplaySafe \subseteq Managed
    /\ Verified \subseteq Tasks /\ Forking \subseteq Tasks
    /\ MaxAttempts \in Nat \ {0} /\ MaxEpoch \in Nat \ {0}
    /\ Slots \in Nat \ {0} /\ ProjectLimit \in Nat \ {0}
    /\ Faults \subseteq FaultKinds

Gens     == 1 .. MaxAttempts
Attempts == Tasks \X Gens

VARIABLES
    \* --- Server database
    task,      \* tasks: state, error_code, attempt (0 = ''), current_generation
    job,       \* why the Task's Job accepts no more execution ("open" = it does)
    due,       \* deadlines that have passed: "no", "task", or "job" (the Task's too)
    att,       \* attempts: worker, epoch, lease_until, released, worker_seq, final_hash
    cmd,       \* commands: delivery state of an Attempt's start and stop
    art,       \* artifacts: state of the Attempt's result bundle
    regEpoch,  \* workers.epoch
    \* --- Server memory
    session,   \* epoch of the connected session in s.peers, 0 = none
    snap,      \* the peers slice the running tick took
    \* --- streams
    wire,      \* commands sent on a stream and not yet received
    grants,    \* lease answers sent on a stream and not yet received
    \* --- Workers
    wstat,     \* life cycle of the Worker process
    epoch,     \* w.hello.Epoch
    run,       \* runs: the journal row of an Attempt on its Worker
    act,       \* w.runs: the goroutine that executes an Attempt
    procs      \* operating-system processes of an Attempt that are alive

serverVars == <<task, job, due, att, cmd, art, regEpoch, session, snap>>
streamVars == <<wire, grants>>
workerVars == <<wstat, epoch, run, act, procs>>
vars       == <<serverVars, streamVars, workerVars>>

-----------------------------------------------------------------------------
Terminal   == {"SUCCEEDED", "FAILED", "CANCELED"}
Executing  == {"STARTING", "RUNNING"}
Stopping   == {"CANCELING", "RECONCILING"}
TaskStates == {"NONE", "QUEUED"} \cup Executing \cup Stopping \cup Terminal

StopReasons == {"USER_CANCEL", "DEADLINE_EXCEEDED", "EXECUTION_UNCERTAIN", "CHILD_FAILED"}

\* tasks.error_code, as far as any code reads it back: CompleteAttempt asks for
\* DEADLINE_EXCEEDED; an empty code is "OK" and every other one "ERROR".
TaskCodes == {"OK", "DEADLINE_EXCEEDED", "ERROR"}

\* runs.completion.error_code by what the Server does with it: RETRYABLE is a
\* code of retryableAttemptError() that a live Worker reports (RUNTIME_FAILED,
\* STORAGE_UNAVAILABLE, ARTIFACT_ERROR), FINAL any other one (CANCELED,
\* LEASE_LOST, RESOURCE_LIMIT, VERIFICATION_FAILED, MISSING_FINAL, ...).
CompletionCodes ==
    {"NONE", "OK", "RETRYABLE", "FINAL", "WORKER_RESTARTED", "CLEANUP_UNCONFIRMED"}

\* CompleteRequest: success, cleanup_confirmed, error_code and whether the
\* result bundle is listed in artifact_ids.
Completions == [ok : BOOLEAN, clean : BOOLEAN, code : CompletionCodes, art : BOOLEAN]
Completion(ok, clean, code, hasArt) ==
    [ok |-> ok, clean |-> clean, code |-> code, art |-> hasArt]
NoCompletion == Completion(FALSE, FALSE, "NONE", FALSE)   \* completion IS NULL

CommandStates == {"none", "pending", "acked"}
Kinds == {"start", "stop"}

NoAttempt == [worker |-> None, epoch |-> 0, lease |-> "expired",
              released |-> FALSE, seq |-> 0, final |-> NoCompletion]
NoRun == [state |-> "NONE", stop |-> FALSE, comp |-> NoCompletion, ref |-> FALSE,
          pid |-> "none", ws |-> "none", seq |-> 0, ack |-> 0,
          uploaded |-> FALSE, completed |-> FALSE]

\* Phases of the goroutine between start() and its last complete().  Its context is
\* cancelled ("yes"), or the receive loop is about to cancel it ("pending").
Phases == {"off", "waiting", "ready", "prepare", "environment", "spawned",
           "running", "exited", "fenced", "vspawned", "verifying", "verified", "ending"}
Off == [phase |-> "off", cancel |-> "no", res |-> "OK", clean |-> TRUE]

\* A runtime's process group is its leader (the recorded PID) and, for a
\* Forking Task, another member; the verifier has a group of its own.
Group     == {"leader", "member"}
Processes == Group \cup {"verifier"}

TaskRows    == [state : TaskStates, code : TaskCodes,
                att : 0 .. MaxAttempts, gen : 0 .. MaxAttempts]
AttemptRows == [worker : Workers \cup {None}, epoch : 0 .. MaxEpoch,
                lease : {"valid", "expired"}, released : BOOLEAN,
                seq : {0, 1}, final : Completions]
RunRows     == [state : {"NONE", "ACCEPTED", "STARTING", "RUNNING", "DONE"},
                stop : BOOLEAN, comp : Completions, ref : BOOLEAN,
                pid : {"none", "leader", "verifier"}, ws : {"none", "pre", "inuse"},
                seq : {0, 1}, ack : {0, 1}, uploaded : BOOLEAN, completed : BOOLEAN]
Goroutines  == [phase : Phases, cancel : {"no", "pending", "yes"},
                res : {"OK", "RETRYABLE", "FINAL"}, clean : BOOLEAN]

ServerTypeOK ==
    /\ task \in [Tasks -> TaskRows]
    /\ job \in [Tasks -> StopReasons \cup {"open", "SUCCEEDED"}]
    /\ due \in [Tasks -> {"no", "task", "job"}]
    /\ att \in [Attempts -> AttemptRows]
    /\ cmd \in [Attempts -> [Kinds -> CommandStates]]
    /\ art \in [Attempts -> {"none", "STAGED", "ACCEPTED", "ORPHANED"}]
    /\ regEpoch \in [Workers -> 0 .. MaxEpoch]
    /\ session \in [Workers -> 0 .. MaxEpoch]
    /\ snap \in [Workers -> 0 .. MaxEpoch]

StreamTypeOK ==
    /\ wire \in SUBSET (Kinds \X Attempts)
    /\ grants \in [Attempts -> SUBSET BOOLEAN]

WorkerTypeOK ==
    /\ wstat \in [Workers -> {"down", "recovering", "up"}]
    /\ epoch \in [Workers -> 0 .. MaxEpoch]
    /\ run \in [Attempts -> RunRows]
    /\ act \in [Attempts -> Goroutines]
    /\ procs \in [Attempts -> SUBSET Processes]

\* Every variable has its type.
TypeOK == ServerTypeOK /\ StreamTypeOK /\ WorkerTypeOK

Init ==
    /\ task = [t \in Tasks |-> [state |-> "NONE", code |-> "OK", att |-> 0, gen |-> 0]]
    /\ job = [t \in Tasks |-> "open"]
    /\ due = [t \in Tasks |-> "no"]
    /\ att = [a \in Attempts |-> NoAttempt]
    /\ cmd = [a \in Attempts |-> [k \in Kinds |-> "none"]]
    /\ art = [a \in Attempts |-> "none"]
    /\ regEpoch = [w \in Workers |-> 0]
    /\ session = [w \in Workers |-> 0]
    /\ snap = [w \in Workers |-> 0]
    /\ wire = {}
    /\ grants = [a \in Attempts |-> {}]
    /\ wstat = [w \in Workers |-> "down"]
    /\ epoch = [w \in Workers |-> 0]
    /\ run = [a \in Attempts |-> NoRun]
    /\ act = [a \in Attempts |-> Off]
    /\ procs = [a \in Attempts |-> {}]

-----------------------------------------------------------------------------
TaskOf(a)   == a[1]
Gen(a)      == a[2]
WorkerOf(a) == att[a].worker
Exists(a)   == att[a].worker # None
Open(a)     == Exists(a) /\ ~att[a].released      \* attempts.released=0
On(w)       == {a \in Attempts : att[a].worker = w}
Recorded(a) == run[a].comp # NoCompletion          \* completion IS NOT NULL
=============================================================================
