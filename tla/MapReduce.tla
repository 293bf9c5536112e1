----------------------------- MODULE MapReduce -----------------------------
(***************************************************************************)
(* A map_reduce Job with strategy patch_merge_v1: submission, the barrier  *)
(* between its stages, stopping and finishing (advanceJob), the artifacts  *)
(* of its Tasks, their references and their files, the sweep that deletes  *)
(* them, and the Worker that reads the inputs of the reduce Task.          *)
(*                                                                         *)
(* An Attempt is the pair of its Task and its generation; what happens     *)
(* between its assignment and its completion is in ControlPlane and        *)
(* WorkerJournal.  QUEUED and MAPPING are one state here.  A repository    *)
(* path is the sequence of its segments; a patch is the set of its paths.  *)
(***************************************************************************)
EXTENDS Naturals, Sequences, FiniteSets, SequencesExt

CONSTANTS
    Partitions,   \* keys of the map stage
    Specs,        \* submitted specs: the scope paths of each partition
    Patches,      \* sets of paths a map Task may change
    MaxGen,       \* max_attempts_per_task
    MRFaults,     \* what may go wrong: subset of {"lost", "fail", "stop", "sweep"}
    MaxFaults     \* bound on how often it does

Reduce == "_reduce"

MRTasks == Partitions \cup {Reduce}

Gens == 1 .. MaxGen

\* Every path a spec or a patch names (ValidPath), and the segments of them.
Paths == (UNION Patches) \cup UNION {UNION {s[p] : p \in Partitions} : s \in Specs}

Segments == UNION {Range(path) : path \in Paths}

ASSUME PathsAssumption == Paths \subseteq Seq(Segments)

ASSUME MapReduceAssumption ==
    /\ Partitions # {} /\ Reduce \notin Partitions
    /\ MaxGen \in 1 .. 3 /\ MaxFaults \in Nat
    /\ MRFaults \subseteq {"lost", "fail", "stop", "sweep"}
    /\ \A s \in Specs : DOMAIN s = Partitions

VARIABLES
    mr,         \* the row of jobs
    stages,     \* the rows of stages
    mrTasks,    \* the rows of tasks, with the release of their Attempt
    artifacts,  \* per Task and generation: the row, its references, its file
    inputs,     \* what the Worker of the reduce Attempt has read and applied
    unlink,     \* files the sweep found without a row and is about to remove
    faults      \* faults so far

mrVars == <<mr, stages, mrTasks, artifacts, inputs, unlink, faults>>

MRTerminal == {"SUCCEEDED", "FAILED", "CANCELED"}

NoTask == [state |-> "none", gen |-> 0, open |-> FALSE]

QueuedTask == [state |-> "QUEUED", gen |-> 0, open |-> FALSE]

NoArtifact == [row |-> "none", file |-> "none", refs |-> {}, patch |-> {}]

NoInputs == [gen |-> 0, read |-> {}, applied |-> {}]

MapReduceTypeOK ==
    /\ mr \in [state : {"none", "MAPPING", "REDUCING", "STOPPING", "RECONCILING"}
                       \cup MRTerminal,
               stop : {"", "USER_CANCEL", "DEADLINE_EXCEEDED", "CHILD_FAILED",
                       "EXECUTION_UNCERTAIN", "INVALID_INPUT_ARTIFACT", "INPUT_LIMIT"},
               late : BOOLEAN, manifest : [Partitions -> 0 .. MaxGen],
               scope : Specs \cup {<<>>}, result : 0 .. MaxGen]
    /\ stages \in [{"map", "reduce"} -> {"none", "PENDING", "READY", "RUNNING"} \cup MRTerminal]
    /\ mrTasks \in [MRTasks -> [state : {"none", "QUEUED", "RUNNING", "CANCELING",
                       "RECONCILING"} \cup MRTerminal, gen : 0 .. MaxGen, open : BOOLEAN]]
    /\ \A t \in MRTasks, g \in Gens :
          /\ artifacts[t][g].row \in {"none", "STAGED", "ACCEPTED", "ORPHANED",
                                      "DELETING", "DELETED"}
          /\ artifacts[t][g].file \in {"none", "fresh", "aged"}
          /\ artifacts[t][g].refs \subseteq {"task_result", "reduce_input", "job_result"}
    /\ unlink \subseteq MRTasks \X Gens
    /\ faults \in 0 .. MaxFaults

MapReduceInit ==
    /\ mr = [state |-> "none", stop |-> "", late |-> FALSE,
             manifest |-> [p \in Partitions |-> 0], scope |-> <<>>, result |-> 0]
    /\ stages = [k \in {"map", "reduce"} |-> "none"]
    /\ mrTasks = [t \in MRTasks |-> NoTask]
    /\ artifacts = [t \in MRTasks |-> [g \in Gens |-> NoArtifact]]
    /\ inputs = NoInputs
    /\ unlink = {}
    /\ faults = 0

Fault(kind) == kind \in MRFaults /\ faults < MaxFaults /\ faults' = faults + 1

----------------------------------------------------------------------------
(* Submission *)

InScope(path, scopes) == \E s \in scopes : IsPrefix(s, path)

\* Mutant: two partitions may not claim the same path.
ScopesShared(spec, p, q) == spec[p] \cap spec[q] # {}

\* Two partitions may not claim a path and one below it.
ScopesOverlap(spec, p, q) ==
    \E a \in spec[p], b \in spec[q] : IsPrefix(a, b) \/ IsPrefix(b, a)

ValidSpec(spec) ==
    /\ \A p \in Partitions : spec[p] # {}
    /\ \A p, q \in Partitions : p # q => ~ScopesOverlap(spec, p, q)

SubmitMapReduce(spec) ==
    /\ mr.state = "none"
    /\ ValidSpec(spec)
    /\ mr' = [mr EXCEPT !.state = "MAPPING", !.scope = spec]
    /\ stages' = [map |-> "READY", reduce |-> "PENDING"]
    /\ mrTasks' = [t \in MRTasks |-> IF t \in Partitions THEN QueuedTask ELSE NoTask]
    /\ UNCHANGED <<artifacts, inputs, unlink, faults>>

----------------------------------------------------------------------------
(* Tasks and their artifacts *)

\* jobAllowsExecution
Allows == mr.stop = "" /\ mr.state \in {"MAPPING", "REDUCING"} /\ ~mr.late

StageOf(t) == IF t = Reduce THEN "reduce" ELSE "map"

\* setStageState leaves a stage that has ended alone.
StageTo(s, kind, next) == IF s[kind] \in MRTerminal THEN s ELSE [s EXCEPT ![kind] = next]

AssignChild(t) ==
    /\ mrTasks[t].state = "QUEUED"
    /\ mrTasks[t].gen < MaxGen
    /\ Allows
    /\ mrTasks' = [mrTasks EXCEPT ![t] =
           [state |-> "RUNNING", gen |-> mrTasks[t].gen + 1, open |-> TRUE]]
    /\ stages' = StageTo(stages, StageOf(t), "RUNNING")
    /\ UNCHANGED <<mr, artifacts, inputs, unlink, faults>>

Current(t) == artifacts[t][mrTasks[t].gen]

\* finishJobOutput: a map patch stays in the partition's scope, a reduce patch
\* is the merge of all inputs.
OutputHolds(t, patch) ==
    IF t = Reduce
    THEN inputs.gen = mrTasks[t].gen /\ inputs.read = Partitions /\ patch = inputs.applied
    ELSE \A path \in patch : InScope(path, mr.scope[t])

\* UploadArtifact up to the link of the file; the Worker has checked its output.
\* A Task that was told to stop may still upload.
UploadFile(t, patch) ==
    /\ mrTasks[t].open
    /\ OutputHolds(t, patch)
    /\ Current(t).file = "none" /\ Current(t).row = "none"
    /\ artifacts' = [artifacts EXCEPT ![t][mrTasks[t].gen].file = "fresh",
                                      ![t][mrTasks[t].gen].patch = patch]
    /\ UNCHANGED <<mr, stages, mrTasks, inputs, unlink, faults>>

\* ... and its last transaction, which inserts the row.
StageArtifact(t) ==
    /\ mrTasks[t].open
    /\ Current(t).file # "none" /\ Current(t).row = "none"
    /\ artifacts' = [artifacts EXCEPT ![t][mrTasks[t].gen].row = "STAGED"]
    /\ UNCHANGED <<mr, stages, mrTasks, inputs, unlink, faults>>

\* CompleteAttempt of a success: one result bundle is accepted and pinned.
Succeed(t) ==
    /\ mrTasks[t].open
    /\ mrTasks[t].state = "RUNNING"
    /\ Allows
    /\ Current(t).row = "STAGED"
    /\ mrTasks' = [mrTasks EXCEPT ![t].state = "SUCCEEDED", ![t].open = FALSE]
    /\ artifacts' = [artifacts EXCEPT ![t][mrTasks[t].gen].row = "ACCEPTED",
                                      ![t][mrTasks[t].gen].refs = @ \cup {"task_result"}]
    /\ UNCHANGED <<mr, stages, inputs, unlink, faults>>

\* CompleteAttempt of anything else with cleanup confirmed: what was staged is
\* orphaned; a failure is retried if the Job still runs and generations are left.
GiveUp(t, retry) ==
    /\ mrTasks[t].open
    /\ IF mrTasks[t].state = "RUNNING" /\ Allows THEN Fault("fail") ELSE UNCHANGED faults
    /\ retry => Allows /\ mrTasks[t].state # "CANCELING" /\ mrTasks[t].gen < MaxGen
    /\ mrTasks' = [mrTasks EXCEPT ![t].open = FALSE, ![t].state =
           IF retry THEN "QUEUED"
           ELSE IF @ = "CANCELING" /\ mr.stop # "DEADLINE_EXCEEDED" THEN "CANCELED"
           ELSE "FAILED"]
    /\ artifacts' = [artifacts EXCEPT ![t][mrTasks[t].gen].row =
           IF @ = "STAGED" THEN "ORPHANED" ELSE @]
    /\ UNCHANGED <<mr, stages, inputs, unlink>>

\* A lease lapses, or cleanup cannot be confirmed.
LoseChild(t) ==
    /\ Fault("lost")
    /\ mrTasks[t].state = "RUNNING"
    /\ mrTasks' = [mrTasks EXCEPT ![t].state = "RECONCILING"]
    /\ UNCHANGED <<mr, stages, artifacts, inputs, unlink>>

----------------------------------------------------------------------------
(* The reduce Task's Worker: prepareJob, downloadInput *)

StartInputs ==
    /\ mrTasks[Reduce].open
    /\ inputs.gen # mrTasks[Reduce].gen
    /\ inputs' = [NoInputs EXCEPT !.gen = mrTasks[Reduce].gen]
    /\ UNCHANGED <<mr, stages, mrTasks, artifacts, unlink, faults>>

\* What inputArtifact lets a reduce Attempt read.
Readable(p) ==
    LET a == artifacts[p][mr.manifest[p]]
    IN  /\ Allows
        /\ mrTasks[Reduce].open /\ mrTasks[Reduce].state = "RUNNING"
        /\ mr.manifest[p] = mrTasks[p].gen
        /\ mrTasks[p].state = "SUCCEEDED" /\ ~mrTasks[p].open
        /\ a.row = "ACCEPTED" /\ "reduce_input" \in a.refs

\* DownloadInputArtifact asks again before each chunk.
Downloaded(p) == Readable(p) /\ artifacts[p][mr.manifest[p]].file # "none"

\* A patch that leaves its scope or meets a path already applied is a conflict,
\* and the Attempt fails.
Mergeable(p) ==
    LET patch == artifacts[p][mr.manifest[p]].patch
    IN  /\ \A path \in patch : InScope(path, mr.scope[p])
        /\ patch \cap inputs.applied = {}

ApplyInput(p) ==
    /\ inputs.gen = mrTasks[Reduce].gen
    /\ mr.manifest[p] # 0
    /\ p \notin inputs.read
    /\ Downloaded(p)
    /\ Mergeable(p)
    /\ inputs' = [inputs EXCEPT !.read = @ \cup {p},
                    !.applied = @ \cup artifacts[p][mr.manifest[p]].patch]
    /\ UNCHANGED <<mr, stages, mrTasks, artifacts, unlink, faults>>

----------------------------------------------------------------------------
(* advanceJob *)

Children == {t \in MRTasks : mrTasks[t].state # "none"}

Uncertain == \E t \in Children : mrTasks[t].state = "RECONCILING"

\* The reason to stop.  Among the children the first one in key order decides;
\* which one that is is left open.
StopReasons ==
    IF mr.stop # "" THEN {mr.stop}
    ELSE IF mr.late THEN {"DEADLINE_EXCEEDED"}
    ELSE {IF mrTasks[t].state = "RECONCILING" THEN "EXECUTION_UNCERTAIN" ELSE "CHILD_FAILED"
            : t \in {c \in Children : mrTasks[c].state \in {"RECONCILING", "FAILED", "CANCELED"}}}

\* Children without an Attempt are cancelled, the others told to stop.
StopChild(t) ==
    CASE t \notin Children \/ mrTasks[t].state \in MRTerminal \cup {"RECONCILING"} -> mrTasks[t]
      [] mrTasks[t].state = "QUEUED" -> [mrTasks[t] EXCEPT !.state = "CANCELED"]
      [] OTHER -> [mrTasks[t] EXCEPT !.state = "CANCELING"]

FinishedStages(state) ==
    [k \in DOMAIN stages |-> IF stages[k] \in MRTerminal THEN stages[k] ELSE state]

\* Mutant: a child that was told to stop counts as stopped.
AllTold(tasks) == \A t \in Children : tasks[t].state \in MRTerminal \cup {"CANCELING"}

AllStopped(tasks) == \A t \in Children : tasks[t].state \in MRTerminal /\ ~tasks[t].open

AdvanceStop ==
    \E reason \in StopReasons :
        LET stopped == [t \in MRTasks |-> StopChild(t)]
            final == IF reason = "USER_CANCEL" THEN "CANCELED" ELSE "FAILED"
        IN  /\ mrTasks' = stopped
            /\ mr' = [mr EXCEPT !.stop = reason, !.state =
                  IF AllStopped(stopped) THEN final
                  ELSE IF Uncertain THEN "RECONCILING" ELSE "STOPPING"]
            /\ stages' = IF AllStopped(stopped) THEN FinishedStages(final) ELSE stages
            /\ UNCHANGED <<artifacts, inputs, unlink, faults>>

\* selectedResultArtifact: the artifact of the current Attempt, accepted.
Selected(t) == Current(t).row = "ACCEPTED" /\ "task_result" \in Current(t).refs

Pin(t, ref) == [artifacts[t] EXCEPT ![mrTasks[t].gen].refs = @ \cup {ref}]

\* createReduce: the barrier.  "big" stands for inputs over the limits.
AdvanceBarrier(big) ==
    /\ stages["map"] # "SUCCEEDED"
    /\ \A p \in Partitions : mrTasks[p].state = "SUCCEEDED" /\ ~mrTasks[p].open
    /\ IF ~(\A p \in Partitions : Selected(p))
       THEN /\ mr' = [mr EXCEPT !.state = "STOPPING", !.stop = "INVALID_INPUT_ARTIFACT"]
            /\ UNCHANGED <<stages, mrTasks, artifacts>>
       ELSE IF big
       THEN /\ mr' = [mr EXCEPT !.state = "STOPPING", !.stop = "INPUT_LIMIT"]
            /\ UNCHANGED <<stages, mrTasks, artifacts>>
       ELSE /\ \A p \in Partitions : mr.manifest[p] = 0
            /\ mr' = [mr EXCEPT !.state = "REDUCING",
                                !.manifest = [p \in Partitions |-> mrTasks[p].gen]]
            /\ artifacts' = [t \in MRTasks |->
                  IF t \in Partitions THEN Pin(t, "reduce_input") ELSE artifacts[t]]
            /\ stages' = [map |-> "SUCCEEDED", reduce |-> "READY"]
            /\ mrTasks' = [mrTasks EXCEPT ![Reduce] = QueuedTask]
    /\ UNCHANGED <<inputs, unlink, faults>>

\* finishJob of a success publishes the reduce result and pins it.
AdvanceSuccess ==
    /\ stages["map"] = "SUCCEEDED"
    /\ mrTasks[Reduce].state = "SUCCEEDED" /\ ~mrTasks[Reduce].open
    /\ Selected(Reduce)
    /\ mr' = [mr EXCEPT !.state = "SUCCEEDED", !.result = mrTasks[Reduce].gen]
    /\ artifacts' = [artifacts EXCEPT ![Reduce] = Pin(Reduce, "job_result")]
    /\ stages' = FinishedStages("SUCCEEDED")
    /\ UNCHANGED <<mrTasks, inputs, unlink, faults>>

AdvanceJob ==
    /\ mr.state \notin MRTerminal \cup {"none"}
    /\ \/ StopReasons # {} /\ AdvanceStop
       \/ StopReasons = {} /\ \E big \in BOOLEAN : AdvanceBarrier(big)
       \/ StopReasons = {} /\ AdvanceSuccess

CancelMapReduce ==
    /\ Fault("stop")
    /\ mr.state \notin MRTerminal \cup {"none"}
    /\ mr.stop = ""
    /\ mr' = [mr EXCEPT !.state = "STOPPING", !.stop = "USER_CANCEL"]
    /\ UNCHANGED <<stages, mrTasks, artifacts, inputs, unlink>>

DeadlinePasses ==
    /\ Fault("stop")
    /\ mr.state \notin MRTerminal \cup {"none"}
    /\ ~mr.late
    /\ mr' = [mr EXCEPT !.late = TRUE]
    /\ UNCHANGED <<stages, mrTasks, artifacts, inputs, unlink>>

----------------------------------------------------------------------------
(* reconcileArtifactLifecycle *)

\* Mutant: the retention of any artifact is over at some time.
MarkReferenced(t, g) ==
    /\ artifacts[t][g].row \in {"ORPHANED", "ACCEPTED"}
    /\ artifacts' = [artifacts EXCEPT ![t][g].row = "DELETING"]
    /\ UNCHANGED <<mr, stages, mrTasks, inputs, unlink, faults>>

\* The retention of an orphan is over.
MarkDeleting(t, g) ==
    /\ artifacts[t][g].row = "ORPHANED"
    /\ artifacts[t][g].refs = {}
    /\ artifacts' = [artifacts EXCEPT ![t][g].row = "DELETING"]
    /\ UNCHANGED <<mr, stages, mrTasks, inputs, unlink, faults>>

\* The file goes first; the Server may stop before the row follows.
RemoveDeleting(t, g) ==
    /\ artifacts[t][g].row = "DELETING"
    /\ artifacts[t][g].file # "none"
    /\ artifacts' = [artifacts EXCEPT ![t][g].file = "none"]
    /\ UNCHANGED <<mr, stages, mrTasks, inputs, unlink, faults>>

MarkDeleted(t, g) ==
    /\ artifacts[t][g].row = "DELETING"
    /\ artifacts[t][g].file = "none"
    /\ artifacts[t][g].refs = {}
    /\ artifacts' = [artifacts EXCEPT ![t][g].row = "DELETED"]
    /\ UNCHANGED <<mr, stages, mrTasks, inputs, unlink, faults>>

\* A day passes over a file.
AgeFile(t, g) ==
    /\ Fault("sweep")
    /\ artifacts[t][g].file = "fresh"
    /\ artifacts' = [artifacts EXCEPT ![t][g].file = "aged"]
    /\ UNCHANGED <<mr, stages, mrTasks, inputs, unlink>>

\* cleanupArtifactFilesystem: an old file without a row, looked up ...
FindStray(t, g) ==
    /\ artifacts[t][g].file = "aged"
    /\ artifacts[t][g].row = "none"
    /\ unlink' = unlink \cup {<<t, g>>}
    /\ UNCHANGED <<mr, stages, mrTasks, artifacts, inputs, faults>>

\* ... and removed, outside any transaction.
RemoveStray(t, g) ==
    /\ <<t, g>> \in unlink
    /\ artifacts' = [artifacts EXCEPT ![t][g].file = "none"]
    /\ unlink' = unlink \ {<<t, g>>}
    /\ UNCHANGED <<mr, stages, mrTasks, inputs, faults>>

MapReduceNext ==
    \/ \E spec \in Specs : SubmitMapReduce(spec)
    \/ \E t \in MRTasks :
          \/ AssignChild(t)
          \/ \E patch \in Patches \cup {inputs.applied} : UploadFile(t, patch)
          \/ StageArtifact(t)
          \/ Succeed(t)
          \/ \E retry \in BOOLEAN : GiveUp(t, retry)
          \/ LoseChild(t)
    \/ StartInputs
    \/ \E p \in Partitions : ApplyInput(p)
    \/ AdvanceJob
    \/ CancelMapReduce
    \/ DeadlinePasses
    \/ \E t \in MRTasks, g \in Gens :
          \/ MarkDeleting(t, g)
          \/ RemoveDeleting(t, g)
          \/ MarkDeleted(t, g)
          \/ AgeFile(t, g)
          \/ FindStray(t, g)
          \/ RemoveStray(t, g)

----------------------------------------------------------------------------
(* Properties *)

\* Once the barrier is committed its manifest names, for each partition, the
\* accepted artifact of the Attempt that the Task still has; whatever is
\* retried, stopped or swept afterwards, the row stays ACCEPTED and pinned
\* (createReduce, reconcileArtifactLifecycle).
ManifestHolds ==
    \A p \in Partitions : mr.manifest[p] # 0 =>
        /\ mrTasks[p] = [state |-> "SUCCEEDED", gen |-> mr.manifest[p], open |-> FALSE]
        /\ artifacts[p][mr.manifest[p]].row = "ACCEPTED"
        /\ {"task_result", "reduce_input"} \subseteq artifacts[p][mr.manifest[p]].refs

\* A Job ends only when nothing of it runs, and a Job that succeeded publishes
\* the merge of exactly the patches of its manifest (finishJob, prepareJob).
FinishedIsSettled ==
    mr.state \in MRTerminal =>
        /\ \A t \in Children : mrTasks[t].state \in MRTerminal /\ ~mrTasks[t].open
        /\ mr.state = "SUCCEEDED" =>
              artifacts[Reduce][mr.result].patch =
                  UNION {artifacts[p][mr.manifest[p]].patch : p \in Partitions}

\* The inputs of a reduce Attempt never conflict: whatever the map Attempts
\* changed, two of them never changed the same path (Validate, finishJobOutput).
InputsNeverConflict ==
    \A p \in Partitions :
        inputs.gen # 0 /\ mr.manifest[p] # 0 /\ p \notin inputs.read => Mergeable(p)

MapReduceSpec == MapReduceInit /\ [][MapReduceNext]_mrVars
============================================================================
