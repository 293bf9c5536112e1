----------------------------- MODULE JobsProofs -----------------------------
(***************************************************************************)
(* The two kinds of Job with several Tasks.                                *)
(*                                                                         *)
(* A map_reduce Job, for every number of partitions, spec, patch and       *)
(* attempt limit: the manifest holds, a finished Job is settled and its    *)
(* result is the merge of its inputs, and inputs never conflict.  None of  *)
(* the three is inductive.  MRInv ties them together: a row that counts as *)
(* accepted is never swept, a patch is frozen once it has a file or a row, *)
(* nothing of the reduce stage exists before the manifest does, and the    *)
(* manifest is written once.                                               *)
(*                                                                         *)
(* The implementation-unit graph: what the advance of a generation does to *)
(* its nodes, by induction along the order of the plan, and from it that a *)
(* graph Job ends only when its Tasks have, that a PASS and what is        *)
(* imported stand, and that the nodes a succeeded graph has run depend on  *)
(* nothing but its plan and the verdicts of its commands.                  *)
(***************************************************************************)
EXTENDS MCJobs, FiniteSetTheorems, SequenceTheorems, WellFoundedInduction, TLAPS

----------------------------------------------------------------------------
(* The map_reduce Job: the inductive invariant *)

JobRows ==
    [state : {"none", "MAPPING", "REDUCING", "STOPPING", "RECONCILING"} \cup MRTerminal,
     stop : {"", "USER_CANCEL", "DEADLINE_EXCEEDED", "CHILD_FAILED",
             "EXECUTION_UNCERTAIN", "INVALID_INPUT_ARTIFACT", "INPUT_LIMIT"},
     late : BOOLEAN, manifest : [Partitions -> 0 .. MaxGen],
     scope : Specs \cup {<<>>}, result : 0 .. MaxGen]

StageRows == {"none", "PENDING", "READY", "RUNNING"} \cup MRTerminal

TaskRows ==
    [state : {"none", "QUEUED", "RUNNING", "CANCELING", "RECONCILING"} \cup MRTerminal,
     gen : 0 .. MaxGen, open : BOOLEAN]

InputRows == [gen : 0 .. MaxGen, read : SUBSET Partitions, applied : SUBSET Paths]

ArtifactRows ==
    [row : {"none", "STAGED", "ACCEPTED", "ORPHANED", "DELETING", "DELETED"},
     file : {"none", "fresh", "aged"},
     refs : SUBSET {"task_result", "reduce_input", "job_result"},
     patch : SUBSET Paths]

\* MapReduceTypeOK, and the shape of what it leaves open.
Shape ==
    /\ mr \in JobRows /\ stages \in [{"map", "reduce"} -> StageRows]
    /\ mrTasks \in [MRTasks -> TaskRows] /\ artifacts \in [MRTasks -> [Gens -> ArtifactRows]]
    /\ inputs \in InputRows /\ unlink \subseteq MRTasks \X Gens /\ faults \in 0 .. MaxFaults

\* A Task is open while an Attempt of it is unreleased; one that succeeded has an
\* accepted and pinned artifact.
TaskHolds(t) ==
    /\ mrTasks[t].open <=> mrTasks[t].state \in {"RUNNING", "CANCELING", "RECONCILING"}
    /\ mrTasks[t].open => mrTasks[t].gen # 0
    /\ mrTasks[t].state = "SUCCEEDED" =>
          mrTasks[t].gen # 0 /\ Current(t).row = "ACCEPTED" /\ "task_result" \in Current(t).refs

Uploaded(t, g) == artifacts[t][g].file # "none" \/ artifacts[t][g].row # "none"

\* Before a Job is submitted there is nothing of it.
Unsubmitted ==
    mr.state = "none" =>
        /\ \A t \in MRTasks : mrTasks[t] = NoTask /\ \A g \in Gens : ~Uploaded(t, g)
        /\ \A p \in Partitions : mr.manifest[p] = 0

\* A submitted spec was valid, and whatever a map Attempt uploaded is in its scope.
ScopeHolds ==
    /\ mr.state # "none" => mr.scope \in Specs /\ ValidSpec(mr.scope)
    /\ \A p \in Partitions, g \in Gens : Uploaded(p, g) =>
          \A path \in artifacts[p][g].patch : InScope(path, mr.scope[p])

\* The patches that the manifest names for the partitions in ps.
Merged(ps) == UNION {artifacts[p][mr.manifest[p]].patch : p \in ps}

\* The manifest is complete or empty, the map stage has ended only with it, what the
\* reduce Worker applied is what it read of the manifest, and what it uploaded is all.
MergeHolds ==
    /\ \A p \in inputs.read : mr.manifest[p] # 0
    /\ inputs.applied = Merged(inputs.read)
    /\ stages["map"] = "SUCCEEDED" => \A p \in Partitions : mr.manifest[p] # 0
    /\ mr.state = "SUCCEEDED" => mr.result # 0 /\ \A p \in Partitions : mr.manifest[p] # 0
    /\ \A g \in Gens : Uploaded(Reduce, g) =>
          /\ \A p \in Partitions : mr.manifest[p] # 0
          /\ artifacts[Reduce][g].patch = Merged(Partitions)

MRInv ==
    /\ Shape
    /\ \A t \in MRTasks : TaskHolds(t)
    /\ Unsubmitted /\ ScopeHolds /\ MergeHolds
    /\ ManifestHolds /\ FinishedIsSettled

----------------------------------------------------------------------------
(* Paths *)

\* Of two paths above the same path, one is above the other (or they are equal).
LEMMA PrefixesCompare ==
    ASSUME NEW S, NEW a \in Seq(S), NEW b \in Seq(S), NEW c \in Seq(S),
           IsPrefix(a, c), IsPrefix(b, c)
    PROVE  IsPrefix(a, b) \/ IsPrefix(b, a)
<1>1. Len(a) \in Nat /\ Len(b) \in Nat /\ Len(c) \in Nat
  BY LenProperties
<1>2. Len(a) <= Len(c) /\ SubSeq(a, 1, Len(a)) = SubSeq(c, 1, Len(a))
  BY DEF IsPrefix
<1>3. Len(b) <= Len(c) /\ SubSeq(b, 1, Len(b)) = SubSeq(c, 1, Len(b))
  BY DEF IsPrefix
<1>4. ASSUME NEW x \in Seq(S), NEW y \in Seq(S), Len(x) <= Len(y), Len(y) <= Len(c),
             SubSeq(x, 1, Len(x)) = SubSeq(c, 1, Len(x)),
             SubSeq(y, 1, Len(y)) = SubSeq(c, 1, Len(y))
      PROVE  IsPrefix(x, y)
  <2>1. Len(x) \in Nat /\ Len(y) \in Nat
    BY LenProperties
  <2>2. \A i \in 1 .. Len(y) : y[i] = c[i]
    <3>1. ASSUME NEW z \in Seq(S), NEW n \in Nat, n <= Len(z) PROVE
             \A i \in 1 .. n : SubSeq(z, 1, n)[i] = z[i]
      <4>1. \A i \in 1 .. n : z[i] \in S
        BY <3>1, ElementOfSeq, LenProperties
      <4> QED BY <3>1, <4>1, SubSeqProperties
    <3> QED BY <1>4, <1>1, <2>1, <3>1
  <2>3. SubSeq(y, 1, Len(x)) = SubSeq(c, 1, Len(x))
    <3>1. \A i \in 1 .. Len(x) : y[i] = c[i] /\ y[i] \in S
      BY <1>4, <2>1, <2>2, ElementOfSeq
    <3>2. /\ SubSeq(y, 1, Len(x)) \in Seq(S) /\ SubSeq(c, 1, Len(x)) \in Seq(S)
          /\ Len(SubSeq(y, 1, Len(x))) = Len(SubSeq(c, 1, Len(x)))
          /\ \A i \in 1 .. Len(x) : SubSeq(y, 1, Len(x))[i] = SubSeq(c, 1, Len(x))[i]
          /\ Len(SubSeq(y, 1, Len(x))) = Len(x)
      BY <2>1, <3>1, SubSeqProperties
    <3> QED BY <3>2, SeqEqual
  <2> QED BY <1>4, <2>3 DEF IsPrefix
<1> QED BY <1>1, <1>2, <1>3, <1>4

\* A path lies in the scopes of at most one partition of a valid spec.
LEMMA OneScope ==
    ASSUME NEW spec \in Specs, ValidSpec(spec), NEW p \in Partitions, NEW q \in Partitions,
           NEW path \in Paths, InScope(path, spec[p]), InScope(path, spec[q])
    PROVE  p = q
<1>1. PICK a \in spec[p] : IsPrefix(a, path)
  BY DEF InScope
<1>2. PICK b \in spec[q] : IsPrefix(b, path)
  BY DEF InScope
<1>3. a \in Seq(Segments) /\ b \in Seq(Segments) /\ path \in Seq(Segments)
  <2>1. a \in Paths /\ b \in Paths
    BY <1>1, <1>2 DEF Paths
  <2> QED BY <2>1, PathsAssumption DEF PathsAssumption
<1>4. IsPrefix(a, b) \/ IsPrefix(b, a)
  BY <1>1, <1>2, <1>3, PrefixesCompare
<1> QED BY <1>1, <1>2, <1>4 DEF ValidSpec, ScopesOverlap

----------------------------------------------------------------------------
(* The steps *)

\* createReduce refuses its inputs.
StopsAtBarrier ==
    /\ mr.state \notin MRTerminal \cup {"none"}
    /\ \E r \in {"INVALID_INPUT_ARTIFACT", "INPUT_LIMIT"} :
          mr' = [mr EXCEPT !.state = "STOPPING", !.stop = r]
    /\ UNCHANGED <<stages, mrTasks, artifacts, inputs, unlink, faults>>

\* What createReduce writes.
CreateReduce ==
    /\ mr.state \notin MRTerminal \cup {"none"}
    /\ stages["map"] # "SUCCEEDED"
    /\ \A p \in Partitions : mrTasks[p].state = "SUCCEEDED" /\ Selected(p) /\ mr.manifest[p] = 0
    /\ mr' = [mr EXCEPT !.state = "REDUCING", !.manifest = [p \in Partitions |-> mrTasks[p].gen]]
    /\ artifacts' = [t \in MRTasks |->
          IF t \in Partitions THEN Pin(t, "reduce_input") ELSE artifacts[t]]
    /\ stages' = [map |-> "SUCCEEDED", reduce |-> "READY"]
    /\ mrTasks' = [mrTasks EXCEPT ![Reduce] = QueuedTask]
    /\ UNCHANGED <<inputs, unlink, faults>>

Sweep(t, g) ==
    \/ MarkDeleting(t, g) \/ RemoveDeleting(t, g) \/ MarkDeleted(t, g)
    \/ AgeFile(t, g) \/ FindStray(t, g) \/ RemoveStray(t, g)

StopsJob == mr.state \notin MRTerminal \cup {"none"} /\ AdvanceStop
SucceedsJob == mr.state \notin MRTerminal \cup {"none"} /\ AdvanceSuccess
Interrupts == CancelMapReduce \/ DeadlinePasses

LEMMA StepCases ==
    ASSUME MapReduceNext
    PROVE  \/ \E spec \in Specs : SubmitMapReduce(spec)
           \/ \E t \in MRTasks :
                 \/ AssignChild(t) \/ StageArtifact(t) \/ Succeed(t) \/ LoseChild(t)
                 \/ \E patch \in Patches \cup {inputs.applied} : UploadFile(t, patch)
                 \/ \E retry \in BOOLEAN : GiveUp(t, retry)
           \/ StartInputs \/ \E p \in Partitions : ApplyInput(p)
           \/ StopsJob \/ StopsAtBarrier \/ CreateReduce \/ SucceedsJob \/ Interrupts
           \/ \E t \in MRTasks, g \in Gens : Sweep(t, g)
<1>1. CASE AdvanceJob
  <2>1. ASSUME NEW big \in BOOLEAN, AdvanceBarrier(big), mr.state \notin MRTerminal \cup {"none"}
        PROVE  StopsAtBarrier \/ CreateReduce
    <3>1. CASE ~(\A p \in Partitions : Selected(p)) \/ big
      BY <2>1, <3>1 DEF AdvanceBarrier, StopsAtBarrier
    <3>2. CASE (\A p \in Partitions : Selected(p)) /\ ~big
      BY <2>1, <3>2 DEF AdvanceBarrier, CreateReduce
    <3> QED BY <3>1, <3>2
  <2> QED BY <1>1, <2>1 DEF AdvanceJob, StopsJob, SucceedsJob
<1> QED BY <1>1 DEF MapReduceNext, Sweep, Interrupts

\* What Shape says of the parts.
LEMMA Typed ==
    ASSUME Shape
    PROVE  /\ \A t \in MRTasks : mrTasks[t] \in TaskRows
           /\ \A t \in MRTasks, g \in Gens : artifacts[t][g] \in ArtifactRows
           /\ Partitions \subseteq MRTasks /\ Reduce \in MRTasks /\ Reduce \notin Partitions
           /\ \A p \in Partitions : mr.manifest[p] \in 0 .. MaxGen
           /\ MaxGen \in Nat /\ Gens = 1 .. MaxGen
<1>1. MaxGen \in Nat /\ Reduce \notin Partitions
  BY MapReduceAssumption DEF MapReduceAssumption
<1>2. Partitions \subseteq MRTasks /\ Reduce \in MRTasks /\ Gens = 1 .. MaxGen
  BY DEF MRTasks, Gens
<1>3. \A p \in Partitions : mr.manifest[p] \in 0 .. MaxGen
  <2>1. mr.manifest \in [Partitions -> 0 .. MaxGen]
    BY DEF Shape, JobRows
  <2> QED BY <2>1
<1>4. /\ \A t \in MRTasks : mrTasks[t] \in TaskRows
      /\ \A t \in MRTasks, g \in Gens : artifacts[t][g] \in ArtifactRows
  BY DEF Shape
<1> QED BY <1>1, <1>2, <1>3, <1>4

\* A step that rewrites one artifact leaves all others alone.
LEMMA OneArtifact ==
    ASSUME Shape, NEW t \in MRTasks, NEW g \in Gens, NEW r \in ArtifactRows,
           artifacts' = [artifacts EXCEPT ![t] = [@ EXCEPT ![g] = r]]
    PROVE  /\ artifacts' \in [MRTasks -> [Gens -> ArtifactRows]]
           /\ \A u \in MRTasks, h \in Gens :
                 artifacts'[u][h] = IF u = t /\ h = g THEN r ELSE artifacts[u][h]
  BY DEF Shape

\* The generation of an open Task, or of one that succeeded, is one.
LEMMA CurrentGen ==
    ASSUME Shape, NEW t \in MRTasks, TaskHolds(t), mrTasks[t].open \/ mrTasks[t].state = "SUCCEEDED"
    PROVE  mrTasks[t].gen \in Gens
<1>1. mrTasks[t].gen \in 0 .. MaxGen /\ mrTasks[t].gen # 0 /\ MaxGen \in Nat
  BY Typed DEF TaskRows, TaskHolds
<1> QED BY <1>1 DEF Gens

\* What one step may do to one artifact: it keeps its patch, is not uploaded again, and
\* stays accepted and pinned if it was; or this is its upload.
Kept(t, g) ==
    /\ artifacts'[t][g].patch = artifacts[t][g].patch
    /\ Uploaded(t, g)' => Uploaded(t, g)
    /\ artifacts[t][g].row = "ACCEPTED" =>
          artifacts'[t][g].row = "ACCEPTED" /\ artifacts[t][g].refs \subseteq artifacts'[t][g].refs
IsUpload(t, g) ==
    /\ mrTasks[t].open /\ g = mrTasks[t].gen /\ ~Uploaded(t, g) /\ UNCHANGED <<mr, mrTasks, stages, inputs>>
    /\ OutputHolds(t, artifacts'[t][g].patch)
    /\ artifacts'[t][g].row = artifacts[t][g].row
ArtifactMove(t, g) == Kept(t, g) \/ IsUpload(t, g)

\* A step that writes a row like the old one over one artifact.
LEMMA ArtifactStep ==
    ASSUME Shape, NEW t \in MRTasks, NEW g \in Gens, NEW r \in ArtifactRows,
           artifacts' = [artifacts EXCEPT ![t] = [@ EXCEPT ![g] = r]],
           r.patch = artifacts[t][g].patch,
           (r.file # "none" \/ r.row # "none") => Uploaded(t, g),
           artifacts[t][g].row = "ACCEPTED" => r.row = "ACCEPTED" /\ artifacts[t][g].refs \subseteq r.refs
    PROVE  /\ artifacts' \in [MRTasks -> [Gens -> ArtifactRows]]
           /\ \A u \in MRTasks, h \in Gens : Kept(u, h)
<1>1. /\ artifacts' \in [MRTasks -> [Gens -> ArtifactRows]]
      /\ \A u \in MRTasks, h \in Gens :
            artifacts'[u][h] = IF u = t /\ h = g THEN r ELSE artifacts[u][h]
  BY ZenonT(60), OneArtifact
<1> QED BY <1>1 DEF Kept, Uploaded

\* An upload gives the artifact its patch.
LEMMA UploadStep ==
    ASSUME MRInv, NEW t \in MRTasks, NEW patch \in Patches \cup {inputs.applied}, UploadFile(t, patch)
    PROVE  /\ artifacts' \in [MRTasks -> [Gens -> ArtifactRows]]
           /\ \A u \in MRTasks, h \in Gens : ArtifactMove(u, h)
<1> DEFINE g == mrTasks[t].gen
           r == [artifacts[t][g] EXCEPT !.file = "fresh", !.patch = patch]
<1>1. Shape /\ TaskHolds(t) /\ mrTasks[t].open
  BY DEF MRInv, UploadFile
<1>2. g \in Gens /\ artifacts[t][g] \in ArtifactRows
  BY <1>1, CurrentGen, Typed
<1>3. patch \in SUBSET Paths
  <2>1. inputs.applied \in SUBSET Paths
    BY <1>1 DEF Shape, InputRows
  <2> QED BY <2>1 DEF Paths
<1>4. r \in ArtifactRows /\ r.patch = patch /\ r.row = artifacts[t][g].row
  BY <1>2, <1>3 DEF ArtifactRows
<1>5. artifacts' = [artifacts EXCEPT ![t] = [@ EXCEPT ![g] = r]]
  BY <1>1, <1>2, Typed DEF UploadFile, Shape
<1>6. /\ artifacts' \in [MRTasks -> [Gens -> ArtifactRows]]
      /\ \A u \in MRTasks, h \in Gens :
            artifacts'[u][h] = IF u = t /\ h = g THEN r ELSE artifacts[u][h]
  BY <1>1, <1>2, <1>4, <1>5, OneArtifact
<1>7. IsUpload(t, g)
  BY <1>2, <1>4, <1>6 DEF IsUpload, UploadFile, Uploaded, Current
<1> QED BY <1>6, <1>7 DEF ArtifactMove, Kept, Uploaded

\* UploadArtifact's last transaction and CompleteAttempt.
LEMMA AttemptStep ==
    ASSUME MRInv, NEW t \in MRTasks,
           StageArtifact(t) \/ Succeed(t) \/ \E retry \in BOOLEAN : GiveUp(t, retry)
    PROVE  /\ artifacts' \in [MRTasks -> [Gens -> ArtifactRows]]
           /\ \A u \in MRTasks, h \in Gens : Kept(u, h)
<1> DEFINE g == mrTasks[t].gen
           a == artifacts[t][g]
<1>1. Shape /\ TaskHolds(t) /\ mrTasks[t].open
  BY DEF MRInv, StageArtifact, Succeed, GiveUp
<1>2. g \in Gens /\ a \in ArtifactRows
  BY <1>1, CurrentGen, Typed
<1>3. ASSUME NEW r \in ArtifactRows, r.patch = a.patch, r.file = a.file,
             r.row # "none" => Uploaded(t, g),
             a.row = "ACCEPTED" => r.row = "ACCEPTED", a.refs \subseteq r.refs,
             artifacts' = [artifacts EXCEPT ![t] = [@ EXCEPT ![g] = r]]
      PROVE  /\ artifacts' \in [MRTasks -> [Gens -> ArtifactRows]]
             /\ \A u \in MRTasks, h \in Gens : Kept(u, h)
  <2>1. (r.file # "none" \/ r.row # "none") => Uploaded(t, g)
    BY <1>3 DEF Uploaded
  <2> QED BY <1>1, <1>2, <1>3, <2>1, ArtifactStep
<1>4. CASE StageArtifact(t)
  <2> DEFINE r == [a EXCEPT !.row = "STAGED"]
  <2>1. r \in ArtifactRows /\ r.patch = a.patch /\ r.file = a.file /\ r.refs = a.refs
    BY <1>2 DEF ArtifactRows
  <2>2. Uploaded(t, g) /\ a.row # "ACCEPTED"
    BY <1>4 DEF StageArtifact, Uploaded, Current
  <2>3. artifacts' = [artifacts EXCEPT ![t] = [@ EXCEPT ![g] = r]]
    BY <1>1, <1>2, <1>4 DEF StageArtifact, Shape
  <2> QED BY <1>3, <2>1, <2>2, <2>3
<1>5. CASE Succeed(t)
  <2> DEFINE r == [a EXCEPT !.row = "ACCEPTED", !.refs = @ \cup {"task_result"}]
  <2>1. r \in ArtifactRows /\ r.patch = a.patch /\ r.file = a.file /\ r.row = "ACCEPTED" /\ a.refs \subseteq r.refs
    BY <1>2 DEF ArtifactRows
  <2>2. Uploaded(t, g)
    BY <1>5 DEF Succeed, Uploaded, Current
  <2>3. artifacts' = [artifacts EXCEPT ![t] = [@ EXCEPT ![g] = r]]
    BY <1>1, <1>2, <1>5 DEF Succeed, Shape
  <2> QED BY <1>3, <2>1, <2>2, <2>3
<1>6. CASE \E retry \in BOOLEAN : GiveUp(t, retry)
  <2> DEFINE s == IF a.row = "STAGED" THEN "ORPHANED" ELSE a.row
             r == [a EXCEPT !.row = s]
  <2>1. s \in {"none", "STAGED", "ACCEPTED", "ORPHANED", "DELETING", "DELETED"}
    BY <1>2 DEF ArtifactRows
  <2>2. /\ r \in ArtifactRows /\ r.patch = a.patch /\ r.file = a.file /\ r.refs = a.refs
        /\ r.row = s
    BY <1>2, <2>1 DEF ArtifactRows
  <2>3. s # "none" => Uploaded(t, g)
    BY DEF Uploaded
  <2>4. artifacts' = [artifacts EXCEPT ![t] = [@ EXCEPT ![g] = r]]
    BY <1>1, <1>2, <1>6 DEF GiveUp, Shape
  <2> QED BY <1>3, <2>2, <2>3, <2>4
<1> QED BY <1>4, <1>5, <1>6

\* The sweep never touches what was accepted.
LEMMA SweepStep ==
    ASSUME MRInv, NEW t \in MRTasks, NEW g \in Gens, Sweep(t, g)
    PROVE  /\ artifacts' \in [MRTasks -> [Gens -> ArtifactRows]]
           /\ \A u \in MRTasks, h \in Gens : Kept(u, h)
<1> DEFINE a == artifacts[t][g]
<1>1. Shape /\ a \in ArtifactRows
  BY Typed DEF MRInv
<1>2. ASSUME NEW f \in {"none", "aged"}, f # "none" => a.file # "none",
             artifacts' = [artifacts EXCEPT ![t][g].file = f]
      PROVE  /\ artifacts' \in [MRTasks -> [Gens -> ArtifactRows]]
             /\ \A u \in MRTasks, h \in Gens : Kept(u, h)
  <2> DEFINE r == [a EXCEPT !.file = f]
  <2>1. r \in ArtifactRows /\ r.patch = a.patch /\ r.row = a.row /\ r.refs = a.refs /\ r.file = f
    BY <1>1 DEF ArtifactRows
  <2>2. artifacts' = [artifacts EXCEPT ![t] = [@ EXCEPT ![g] = r]]
    BY <1>1, <1>2 DEF Shape
  <2>3. (r.file # "none" \/ r.row # "none") => Uploaded(t, g)
    BY <1>2, <2>1 DEF Uploaded
  <2> QED BY <1>1, <2>1, <2>2, <2>3, ArtifactStep
<1>3. ASSUME NEW s \in {"DELETING", "DELETED"}, a.row \notin {"ACCEPTED", "none"},
             artifacts' = [artifacts EXCEPT ![t][g].row = s]
      PROVE  /\ artifacts' \in [MRTasks -> [Gens -> ArtifactRows]]
             /\ \A u \in MRTasks, h \in Gens : Kept(u, h)
  <2> DEFINE r == [a EXCEPT !.row = s]
  <2>1. r \in ArtifactRows /\ r.patch = a.patch /\ r.refs = a.refs /\ r.file = a.file
    BY <1>1 DEF ArtifactRows
  <2>2. artifacts' = [artifacts EXCEPT ![t] = [@ EXCEPT ![g] = r]]
    BY <1>1, <1>3 DEF Shape
  <2>3. Uploaded(t, g)
    BY <1>3 DEF Uploaded
  <2> QED BY <1>1, <1>3, <2>1, <2>2, <2>3, ArtifactStep
<1>4. CASE artifacts' = artifacts
  BY <1>1, <1>4 DEF Kept, Uploaded, Shape
<1> QED BY <1>2, <1>3, <1>4 DEF Sweep, MarkDeleting, RemoveDeleting, MarkDeleted, AgeFile, FindStray, RemoveStray

\* A reference is added to the current artifact of some Tasks.
LEMMA PinStep ==
    ASSUME Shape, NEW T \in SUBSET MRTasks, NEW ref \in {"reduce_input", "job_result"},
           \A t \in T : mrTasks[t].gen \in Gens,
           artifacts' = [t \in MRTasks |-> IF t \in T THEN Pin(t, ref) ELSE artifacts[t]]
    PROVE  /\ artifacts' \in [MRTasks -> [Gens -> ArtifactRows]]
           /\ \A u \in MRTasks, h \in Gens : Kept(u, h)
           /\ \A t \in T : ref \in artifacts'[t][mrTasks[t].gen].refs
<1>1. ASSUME NEW t \in T
      PROVE  /\ Pin(t, ref) \in [Gens -> ArtifactRows]
             /\ ref \in Pin(t, ref)[mrTasks[t].gen].refs
             /\ \A h \in Gens : /\ Pin(t, ref)[h].patch = artifacts[t][h].patch
                                /\ Pin(t, ref)[h].row = artifacts[t][h].row
                                /\ Pin(t, ref)[h].file = artifacts[t][h].file
                                /\ artifacts[t][h].refs \subseteq Pin(t, ref)[h].refs
  <2> DEFINE g == mrTasks[t].gen
             r == [artifacts[t][g] EXCEPT !.refs = @ \cup {ref}]
  <2>1. g \in Gens /\ artifacts[t] \in [Gens -> ArtifactRows] /\ artifacts[t][g] \in ArtifactRows
    BY <1>1 DEF Shape
  <2>2. /\ r \in ArtifactRows /\ r.patch = artifacts[t][g].patch /\ r.row = artifacts[t][g].row
        /\ r.file = artifacts[t][g].file /\ r.refs = artifacts[t][g].refs \cup {ref}
    BY <2>1 DEF ArtifactRows
  <2>3. Pin(t, ref) = [artifacts[t] EXCEPT ![g] = r]
    BY <2>1 DEF Pin
  <2> HIDE DEF r
  <2>4. \A h \in Gens : Pin(t, ref)[h] = IF h = g THEN r ELSE artifacts[t][h]
    BY <2>1, <2>3
  <2>5. Pin(t, ref) \in [Gens -> ArtifactRows]
    BY <2>1, <2>2, <2>3
  <2> QED BY <2>1, <2>2, <2>4, <2>5
<1>2. \A u \in MRTasks : artifacts[u] \in [Gens -> ArtifactRows] /\ artifacts'[u] = IF u \in T THEN Pin(u, ref) ELSE artifacts[u]
  BY DEF Shape
<1>3. artifacts' \in [MRTasks -> [Gens -> ArtifactRows]]
  BY <1>1, <1>2
<1>4. ASSUME NEW u \in MRTasks, NEW h \in Gens PROVE Kept(u, h)
  BY <1>1, <1>2, <1>4 DEF Kept, Uploaded
<1> QED BY <1>1, <1>2, <1>3, <1>4

\* In every step every artifact is kept, or uploaded for the first time.
LEMMA ArtifactMoves ==
    ASSUME MRInv, MapReduceNext
    PROVE  /\ artifacts' \in [MRTasks -> [Gens -> ArtifactRows]]
           /\ \A t \in MRTasks, g \in Gens : ArtifactMove(t, g)
<1>1. CASE artifacts' = artifacts
  BY <1>1 DEF ArtifactMove, Kept, Uploaded, MRInv, Shape
<1>2. CASE CreateReduce
  <2>1. \A p \in Partitions : mrTasks[p].gen \in Gens
    BY <1>2, CurrentGen, Typed DEF CreateReduce, MRInv
  <2> QED BY <1>2, <2>1, PinStep, Typed DEF CreateReduce, MRInv, ArtifactMove
<1>3. CASE SucceedsJob
  <2>1. mrTasks[Reduce].gen \in Gens /\ Reduce \in MRTasks
    BY <1>3, CurrentGen, Typed DEF SucceedsJob, AdvanceSuccess, MRInv
  <2>2. artifacts' = [t \in MRTasks |-> IF t \in {Reduce} THEN Pin(t, "job_result") ELSE artifacts[t]]
    BY <1>3, <2>1 DEF SucceedsJob, AdvanceSuccess, MRInv, Shape
  <2>3. {Reduce} \in SUBSET MRTasks /\ Shape /\ \A t \in {Reduce} : mrTasks[t].gen \in Gens
    BY <2>1 DEF MRInv
  <2>4. /\ artifacts' \in [MRTasks -> [Gens -> ArtifactRows]]
        /\ \A u \in MRTasks, h \in Gens : Kept(u, h)
    BY <2>2, <2>3, PinStep
  <2> QED BY <2>4 DEF ArtifactMove
<1>4. CASE \/ \E spec \in Specs : SubmitMapReduce(spec)
           \/ \E t \in MRTasks : AssignChild(t) \/ LoseChild(t)
           \/ StartInputs \/ (\E p \in Partitions : ApplyInput(p))
           \/ StopsJob \/ StopsAtBarrier \/ Interrupts
  BY <1>1, <1>4 DEF SubmitMapReduce, AssignChild, LoseChild, StartInputs, ApplyInput, StopsJob, AdvanceStop,
     StopsAtBarrier, Interrupts, CancelMapReduce, DeadlinePasses
<1> QED BY <1>2, <1>3, <1>4, StepCases, UploadStep, AttemptStep, SweepStep DEF ArtifactMove

----------------------------------------------------------------------------
(* Tasks *)

\* What one step may do to the row of one Task.
TaskMove(t) ==
    \/ mrTasks'[t] = mrTasks[t]
    \/ mrTasks'[t] = QueuedTask /\ mr'.state \in {"MAPPING", "REDUCING"} /\ mrTasks[t].state # "SUCCEEDED"
    \/ /\ mrTasks[t].state # "SUCCEEDED" /\ mrTasks'[t].state # "SUCCEEDED"
       /\ mr.state \in MRTerminal => mrTasks[t].open
       /\ mrTasks[t].state # "none" /\ mrTasks'[t].state # "none"
       /\ mrTasks'[t].open <=> mrTasks'[t].state \in {"RUNNING", "CANCELING", "RECONCILING"}
       /\ mrTasks'[t].open => mrTasks'[t].gen # 0
    \/ /\ mrTasks'[t] = [state |-> "SUCCEEDED", gen |-> mrTasks[t].gen, open |-> FALSE]
       /\ mrTasks[t].open /\ mrTasks[t].gen # 0
       /\ Current(t)'.row = "ACCEPTED" /\ "task_result" \in Current(t)'.refs

\* StopChild as a row of the table above.
LEMMA StopChildRow ==
    ASSUME Shape, NEW t \in MRTasks, TaskHolds(t)
    PROVE  \/ StopChild(t) = mrTasks[t]
           \/ /\ mrTasks[t].state = "QUEUED" /\ ~mrTasks[t].open
              /\ StopChild(t) = [mrTasks[t] EXCEPT !.state = "CANCELED"]
           \/ /\ mrTasks[t].state \in {"RUNNING", "CANCELING"} /\ mrTasks[t].open
              /\ StopChild(t) = [mrTasks[t] EXCEPT !.state = "CANCELING"]
<1>1. mrTasks[t] \in TaskRows
  BY Typed
<1>2. CASE t \notin Children \/ mrTasks[t].state \in MRTerminal \cup {"RECONCILING"}
  <2>1. mrTasks[t].state # "QUEUED"
    BY <1>2 DEF Children, MRTerminal
  <2>2. StopChild(t) = mrTasks[t]
    BY <1>2, <2>1, Zenon DEF StopChild
  <2> QED BY <2>2
<1>3. CASE ~(t \notin Children \/ mrTasks[t].state \in MRTerminal \cup {"RECONCILING"})
  <2>1. mrTasks[t].state \in {"QUEUED", "RUNNING", "CANCELING"}
    BY <1>1, <1>3 DEF Children, TaskRows
  <2>2. CASE mrTasks[t].state = "QUEUED"
    <3>1. StopChild(t) = [mrTasks[t] EXCEPT !.state = "CANCELED"]
      BY <1>3, <2>2, Zenon DEF StopChild
    <3>2. ~mrTasks[t].open
      BY <1>1, <2>2 DEF TaskHolds, TaskRows
    <3> QED BY <2>2, <3>1, <3>2
  <2>3. CASE mrTasks[t].state # "QUEUED"
    <3>1. StopChild(t) = [mrTasks[t] EXCEPT !.state = "CANCELING"]
      BY <1>3, <2>3, Zenon DEF StopChild
    <3>2. mrTasks[t].open
      BY <2>1, <2>3 DEF TaskHolds
    <3> QED BY <2>1, <2>3, <3>1, <3>2
  <2> QED BY <2>2, <2>3
<1> QED BY <1>2, <1>3

\* A step that rewrites the row of one Task moves only that Task.
LEMMA OneTask ==
    ASSUME Shape, NEW u \in MRTasks, NEW r \in TaskRows, mrTasks' = [mrTasks EXCEPT ![u] = r]
    PROVE  /\ mrTasks' \in [MRTasks -> TaskRows]
           /\ \A t \in MRTasks : mrTasks'[t] = IF t = u THEN r ELSE mrTasks[t]
  BY DEF Shape

\* Assignment, completion and loss of an Attempt.
LEMMA ChildMoves ==
    ASSUME MRInv, NEW u \in MRTasks,
           AssignChild(u) \/ Succeed(u) \/ LoseChild(u) \/ \E retry \in BOOLEAN : GiveUp(u, retry)
    PROVE  mrTasks' \in [MRTasks -> TaskRows] /\ \A t \in MRTasks : TaskMove(t)
<1>1. Shape /\ TaskHolds(u) /\ mrTasks[u] \in TaskRows
  BY Typed DEF MRInv
<1>2. ASSUME NEW r \in TaskRows, mrTasks' = [mrTasks EXCEPT ![u] = r],
             (mrTasks'[u] = r) => TaskMove(u)
      PROVE  mrTasks' \in [MRTasks -> TaskRows] /\ \A t \in MRTasks : TaskMove(t)
  BY <1>1, <1>2, OneTask DEF TaskMove
<1>3. CASE AssignChild(u)
  <2> DEFINE r == [state |-> "RUNNING", gen |-> mrTasks[u].gen + 1, open |-> TRUE]
  <2>1. r \in TaskRows /\ r.gen # 0
    BY <1>1, <1>3, Typed DEF TaskRows, AssignChild
  <2>2. mrTasks[u].state = "QUEUED" /\ mr.state \notin MRTerminal
    BY <1>3 DEF AssignChild, Allows, MRTerminal
  <2>3. (mrTasks'[u] = r) => TaskMove(u)
    BY <2>1, <2>2 DEF TaskMove
  <2> QED BY <1>2, <1>3, <2>1, <2>3 DEF AssignChild
<1>4. CASE Succeed(u)
  <2> DEFINE r == [mrTasks[u] EXCEPT !.state = "SUCCEEDED", !.open = FALSE]
             g == mrTasks[u].gen
             a == artifacts[u][g]
             b == [a EXCEPT !.row = "ACCEPTED", !.refs = @ \cup {"task_result"}]
  <2>1. r \in TaskRows /\ r = [state |-> "SUCCEEDED", gen |-> mrTasks[u].gen, open |-> FALSE]
    <3>1. r \in TaskRows /\ r.state = "SUCCEEDED" /\ r.gen = mrTasks[u].gen /\ ~r.open
      BY <1>1 DEF TaskRows, MRTerminal
    <3> HIDE DEF r
    <3> QED BY <3>1 DEF TaskRows
  <2>2. mrTasks' = [mrTasks EXCEPT ![u] = r] /\ mrTasks[u].open
    BY <1>1, <1>4 DEF Succeed, Shape
  <2>3. g \in Gens /\ g # 0 /\ a \in ArtifactRows
    BY <1>1, <2>2, CurrentGen, Typed DEF TaskHolds
  <2>4. artifacts' = [artifacts EXCEPT ![u] = [@ EXCEPT ![g] = b]]
    BY <1>1, <2>3, <1>4 DEF Succeed, Shape
  <2>5. b \in ArtifactRows /\ b.row = "ACCEPTED" /\ "task_result" \in b.refs
    BY <2>3 DEF ArtifactRows
  <2>6. artifacts'[u][g] = b
    BY <1>1, <2>3, <2>4, <2>5, OneArtifact
  <2>7. (mrTasks'[u] = r) => TaskMove(u)
    BY <2>1, <2>2, <2>3, <2>5, <2>6 DEF TaskMove, Current
  <2> QED BY <1>2, <2>1, <2>2, <2>7
<1>5. CASE LoseChild(u)
  <2> DEFINE r == [mrTasks[u] EXCEPT !.state = "RECONCILING"]
  <2>1. r \in TaskRows /\ r.open = mrTasks[u].open /\ r.gen = mrTasks[u].gen /\ r.state = "RECONCILING"
    BY <1>1 DEF TaskRows
  <2>2. mrTasks[u].open /\ mrTasks[u].state = "RUNNING"
    BY <1>1, <1>5 DEF LoseChild, TaskHolds
  <2>3. (mrTasks'[u] = r) => TaskMove(u)
    BY <1>1, <2>1, <2>2 DEF TaskMove, TaskHolds
  <2> QED BY <1>2, <1>5, <2>1, <2>3 DEF LoseChild, Shape
<1>6. CASE \E retry \in BOOLEAN : GiveUp(u, retry)
  <2>1. PICK retry \in BOOLEAN : GiveUp(u, retry)
    BY <1>6
  <2> DEFINE s == IF retry THEN "QUEUED"
                  ELSE IF mrTasks[u].state = "CANCELING" /\ mr.stop # "DEADLINE_EXCEEDED" THEN "CANCELED"
                  ELSE "FAILED"
             r == [mrTasks[u] EXCEPT !.open = FALSE, !.state = s]
  <2>2. r \in TaskRows /\ ~r.open /\ r.gen = mrTasks[u].gen /\ r.state \in {"QUEUED", "CANCELED", "FAILED"}
    BY <1>1 DEF TaskRows, MRTerminal
  <2>3. mrTasks[u].open /\ mrTasks[u].state \in {"RUNNING", "CANCELING", "RECONCILING"}
    BY <1>1, <2>1 DEF GiveUp, TaskHolds
  <2>4. (mrTasks'[u] = r) => TaskMove(u)
    BY <1>1, <2>2, <2>3 DEF TaskMove
  <2>5. mrTasks' = [mrTasks EXCEPT ![u] = r]
    BY <1>1, <2>1 DEF GiveUp, Shape
  <2> QED BY <1>2, <2>2, <2>4, <2>5
<1> QED BY <1>3, <1>4, <1>5, <1>6

\* In every step, every Task moves along one of the rows of TaskMove.
LEMMA TaskMoves ==
    ASSUME MRInv, MapReduceNext
    PROVE  mrTasks' \in [MRTasks -> TaskRows] /\ \A t \in MRTasks : TaskMove(t)
<1>1. CASE mrTasks' = mrTasks
  BY <1>1 DEF TaskMove, MRInv, Shape
<1>2. QueuedTask \in TaskRows /\ NoTask \in TaskRows
  BY Typed DEF TaskRows, QueuedTask, NoTask, MRInv
<1>3. CASE \E spec \in Specs : SubmitMapReduce(spec)
  <2>1. mr.state = "none" /\ mr'.state = "MAPPING"
    BY <1>3 DEF SubmitMapReduce, MRInv, Shape, JobRows
  <2>2. \A t \in MRTasks : mrTasks[t] = NoTask
    BY <2>1 DEF MRInv, Unsubmitted
  <2>3. mrTasks' = [t \in MRTasks |-> IF t \in Partitions THEN QueuedTask ELSE NoTask]
    BY <1>3 DEF SubmitMapReduce
  <2> QED BY <1>2, <2>1, <2>2, <2>3 DEF TaskMove, NoTask
<1>4. CASE CreateReduce
  <2>1. mrTasks' = [mrTasks EXCEPT ![Reduce] = QueuedTask] /\ mr'.state = "REDUCING"
    BY <1>4 DEF CreateReduce, MRInv, Shape, JobRows
  <2>2. mrTasks[Reduce].state # "SUCCEEDED"
    <3>1. ASSUME mrTasks[Reduce].state = "SUCCEEDED" PROVE FALSE
      <4>1. mrTasks[Reduce].gen \in Gens /\ Uploaded(Reduce, mrTasks[Reduce].gen)
        BY <3>1, CurrentGen, Typed DEF MRInv, TaskHolds, Uploaded, Current
      <4>2. \A p \in Partitions : mr.manifest[p] # 0
        BY <4>1 DEF MRInv, MergeHolds
      <4>3. Partitions # {}
        BY MapReduceAssumption DEF MapReduceAssumption
      <4> QED BY <1>4, <4>2, <4>3 DEF CreateReduce
    <3> QED BY <3>1
  <2> QED BY <1>2, <2>1, <2>2, OneTask, Typed DEF TaskMove, MRInv
<1>5. CASE StopsJob
  <2>1. mrTasks' = [t \in MRTasks |-> StopChild(t)] /\ mr.state \notin MRTerminal
    BY <1>5 DEF StopsJob, AdvanceStop
  <2>2. ASSUME NEW t \in MRTasks PROVE StopChild(t) \in TaskRows /\ TaskMove(t)
    <3>1. mrTasks[t] \in TaskRows /\ TaskHolds(t) /\ mrTasks'[t] = StopChild(t) /\ Shape
      BY <2>1, <2>2, Typed DEF MRInv
    <3>2. ASSUME NEW s \in {"CANCELED", "CANCELING"}
          PROVE  LET r == [mrTasks[t] EXCEPT !.state = s]
                 IN  r \in TaskRows /\ r.state = s /\ r.gen = mrTasks[t].gen /\ r.open = mrTasks[t].open
      BY <3>1, <3>2 DEF TaskRows, MRTerminal
    <3>3. CASE StopChild(t) = mrTasks[t]
      BY <3>1, <3>3 DEF TaskMove
    <3>4. CASE /\ mrTasks[t].state = "QUEUED" /\ ~mrTasks[t].open
               /\ StopChild(t) = [mrTasks[t] EXCEPT !.state = "CANCELED"]
      BY <2>1, <3>1, <3>2, <3>4 DEF TaskMove
    <3>5. CASE /\ mrTasks[t].state \in {"RUNNING", "CANCELING"} /\ mrTasks[t].open
               /\ StopChild(t) = [mrTasks[t] EXCEPT !.state = "CANCELING"]
      BY <2>1, <3>1, <3>2, <3>5 DEF TaskMove, TaskHolds
    <3> QED BY <3>1, <3>3, <3>4, <3>5, StopChildRow
  <2> QED BY <2>1, <2>2
<1>6. CASE \/ StartInputs \/ (\E p \in Partitions : ApplyInput(p))
           \/ StopsAtBarrier \/ SucceedsJob \/ Interrupts
           \/ \E t \in MRTasks, g \in Gens : Sweep(t, g)
           \/ \E t \in MRTasks : \/ StageArtifact(t)
                                 \/ \E patch \in Patches \cup {inputs.applied} : UploadFile(t, patch)
  BY <1>1, <1>6 DEF StartInputs, ApplyInput, StopsAtBarrier, SucceedsJob, AdvanceSuccess, Interrupts,
     CancelMapReduce, DeadlinePasses, Sweep, MarkDeleting, RemoveDeleting, MarkDeleted, AgeFile, FindStray,
     RemoveStray, StageArtifact, UploadFile
<1> QED BY <1>3, <1>4, <1>5, <1>6, StepCases, ChildMoves

\* Every step keeps TaskHolds.
LEMMA TasksHold ==
    ASSUME MRInv, MapReduceNext, NEW t \in MRTasks
    PROVE  TaskHolds(t)'
<1>1. TaskMove(t) /\ TaskHolds(t) /\ \A g \in Gens : ArtifactMove(t, g)
  BY TaskMoves, ArtifactMoves DEF MRInv
<1>2. CASE mrTasks'[t] = mrTasks[t]
  <2>1. CASE mrTasks[t].state = "SUCCEEDED"
    <3>1. mrTasks[t].gen \in Gens /\ ~mrTasks[t].open
      BY <1>1, <2>1, CurrentGen DEF MRInv, TaskHolds
    <3>2. Kept(t, mrTasks[t].gen)
      BY <1>1, <3>1 DEF ArtifactMove, IsUpload
    <3> QED BY <1>1, <1>2, <2>1, <3>2 DEF TaskHolds, Current, Kept
  <2> QED BY <1>1, <1>2, <2>1 DEF TaskHolds
<1>3. CASE mrTasks'[t] = QueuedTask
  BY <1>3 DEF TaskHolds, QueuedTask
<1> QED BY <1>1, <1>2, <1>3 DEF TaskMove, TaskHolds, Current

----------------------------------------------------------------------------
(* The Job, its stages and the inputs of its reduce Task *)

\* advanceJob and the user stop the Job.
Stops ==
    /\ mr.state \notin MRTerminal \cup {"none"} /\ mr'.state \notin {"none", "SUCCEEDED"}
    /\ mr'.manifest = mr.manifest /\ mr'.scope = mr.scope /\ mr'.result = mr.result
    /\ mr'.state \in MRTerminal => StopsJob /\ AllStopped([t \in MRTasks |-> StopChild(t)])

JobMove ==
    \/ mr' = mr
    \/ \E spec \in Specs : SubmitMapReduce(spec)
    \/ Stops \/ CreateReduce \/ SucceedsJob

\* In every step the Job moves along one of the rows of JobMove.
LEMMA JobMoves == ASSUME MRInv, MapReduceNext PROVE mr' \in JobRows /\ JobMove
<1>1. mr \in JobRows /\ Shape
  BY DEF MRInv, Shape
<1>2. ASSUME NEW spec \in Specs, SubmitMapReduce(spec) PROVE mr' \in JobRows /\ JobMove
  BY <1>1, <1>2 DEF SubmitMapReduce, JobMove, JobRows
<1>3. CASE CreateReduce
  <2>1. [p \in Partitions |-> mrTasks[p].gen] \in [Partitions -> 0 .. MaxGen]
    BY <1>1, Typed DEF TaskRows
  <2> QED BY <1>1, <1>3, <2>1 DEF CreateReduce, JobMove, JobRows
<1>4. CASE SucceedsJob
  <2>1. mrTasks[Reduce].gen \in 0 .. MaxGen
    BY <1>1, Typed DEF TaskRows
  <2> QED BY <1>1, <1>4, <2>1 DEF SucceedsJob, AdvanceSuccess, JobMove, JobRows, MRTerminal
<1>5. ASSUME NEW s \in {"STOPPING", "RECONCILING", "CANCELED", "FAILED"},
             NEW r \in {"USER_CANCEL", "DEADLINE_EXCEEDED", "CHILD_FAILED", "EXECUTION_UNCERTAIN",
                        "INVALID_INPUT_ARTIFACT", "INPUT_LIMIT"},
             mr' = [mr EXCEPT !.state = s, !.stop = r]
      PROVE  /\ mr' \in JobRows /\ mr'.state = s /\ mr'.manifest = mr.manifest /\ mr'.scope = mr.scope
             /\ mr'.result = mr.result
  BY <1>1, <1>5 DEF JobRows, MRTerminal
<1>6. CASE StopsJob
  <2>1. \A r \in StopReasons : r \in {"USER_CANCEL", "DEADLINE_EXCEEDED", "CHILD_FAILED",
                "EXECUTION_UNCERTAIN", "INVALID_INPUT_ARTIFACT", "INPUT_LIMIT"}
    BY <1>1 DEF StopReasons, JobRows
  <2> DEFINE stopped == [t \in MRTasks |-> StopChild(t)]
  <2>2. PICK r \in StopReasons, s \in {"STOPPING", "RECONCILING", "CANCELED", "FAILED"} :
              /\ mr' = [mr EXCEPT !.stop = r, !.state = s]
              /\ s \in {"CANCELED", "FAILED"} => AllStopped(stopped)
    BY <1>6 DEF StopsJob, AdvanceStop
  <2>3. mr' = [mr EXCEPT !.state = s, !.stop = r]
    BY <1>1, <2>2 DEF JobRows
  <2>4. /\ mr' \in JobRows /\ mr'.state = s /\ mr'.manifest = mr.manifest /\ mr'.scope = mr.scope
        /\ mr'.result = mr.result
    BY <1>5, <2>1, <2>3
  <2>5. mr'.state \in MRTerminal => AllStopped(stopped)
    BY <2>2, <2>4 DEF MRTerminal
  <2> QED BY <1>6, <2>4, <2>5 DEF JobMove, Stops, StopsJob
<1>7. CASE StopsAtBarrier \/ CancelMapReduce
  <2>1. PICK r \in {"USER_CANCEL", "INVALID_INPUT_ARTIFACT", "INPUT_LIMIT"} :
              mr' = [mr EXCEPT !.state = "STOPPING", !.stop = r]
    BY <1>7 DEF StopsAtBarrier, CancelMapReduce
  <2>2. mr.state \notin MRTerminal \cup {"none"}
    BY <1>7 DEF StopsAtBarrier, CancelMapReduce
  <2> QED BY <1>5, <2>1, <2>2 DEF JobMove, Stops, MRTerminal
<1>8. CASE DeadlinePasses
  <2>1. /\ mr' \in JobRows /\ mr'.state = mr.state /\ mr'.manifest = mr.manifest /\ mr'.scope = mr.scope
        /\ mr'.result = mr.result
    BY <1>1, <1>8 DEF DeadlinePasses, JobRows
  <2> QED BY <1>8, <2>1 DEF DeadlinePasses, JobMove, Stops, MRTerminal
<1>9. CASE mr' = mr
  BY <1>1, <1>9 DEF JobMove
<1>10. CASE \/ StartInputs \/ (\E p \in Partitions : ApplyInput(p))
            \/ \E t \in MRTasks, g \in Gens : Sweep(t, g)
            \/ \E t \in MRTasks :
                  \/ AssignChild(t) \/ StageArtifact(t) \/ Succeed(t) \/ LoseChild(t)
                  \/ \E patch \in Patches \cup {inputs.applied} : UploadFile(t, patch)
                  \/ \E retry \in BOOLEAN : GiveUp(t, retry)
  BY <1>9, <1>10 DEF StartInputs, ApplyInput, Sweep, MarkDeleting, RemoveDeleting, MarkDeleted, AgeFile,
     FindStray, RemoveStray, AssignChild, StageArtifact, Succeed, LoseChild, UploadFile, GiveUp
<1> QED BY <1>2, <1>3, <1>4, <1>6, <1>7, <1>8, <1>10, StepCases DEF Interrupts

\* The map stage ends in success only with the manifest.
LEMMA StageMoves ==
    ASSUME MRInv, MapReduceNext
    PROVE  /\ stages' \in [{"map", "reduce"} -> StageRows]
           /\ stages'["map"] = "SUCCEEDED" => stages["map"] = "SUCCEEDED" \/ CreateReduce
<1>1. stages \in [{"map", "reduce"} -> StageRows] /\ DOMAIN stages = {"map", "reduce"}
  BY DEF MRInv, Shape
<1>2. CASE stages' = stages
  BY <1>1, <1>2
<1>3. ASSUME NEW t \in MRTasks, AssignChild(t)
      PROVE  /\ stages' \in [{"map", "reduce"} -> StageRows]
             /\ stages'["map"] = "SUCCEEDED" => stages["map"] = "SUCCEEDED"
  <2>1. PICK k \in {"map", "reduce"} : stages' = stages \/ stages' = [stages EXCEPT ![k] = "RUNNING"]
    BY <1>3 DEF AssignChild, StageTo, StageOf
  <2> QED BY <1>1, <2>1 DEF StageRows
<1>4. ASSUME NEW final \in {"CANCELED", "FAILED"}, stages' = FinishedStages(final)
      PROVE  /\ stages' \in [{"map", "reduce"} -> StageRows]
             /\ stages'["map"] = "SUCCEEDED" => stages["map"] = "SUCCEEDED"
  BY <1>1, <1>4 DEF FinishedStages, StageRows, MRTerminal
<1>5. CASE StopsJob
  BY <1>2, <1>4, <1>5 DEF StopsJob, AdvanceStop
<1>6. CASE SucceedsJob
  BY <1>1, <1>6 DEF SucceedsJob, AdvanceSuccess, FinishedStages, StageRows, MRTerminal
<1>7. CASE CreateReduce \/ \E spec \in Specs : SubmitMapReduce(spec)
  <2>1. ASSUME NEW a \in StageRows, NEW b \in StageRows
        PROVE  /\ [map |-> a, reduce |-> b] \in [{"map", "reduce"} -> StageRows]
               /\ [map |-> a, reduce |-> b]["map"] = a
    OBVIOUS
  <2>2. {"READY", "PENDING", "SUCCEEDED"} \subseteq StageRows
    BY DEF StageRows, MRTerminal
  <2>3. \/ CreateReduce /\ stages' = [map |-> "SUCCEEDED", reduce |-> "READY"]
        \/ stages' = [map |-> "READY", reduce |-> "PENDING"]
    BY <1>7 DEF CreateReduce, SubmitMapReduce
  <2> QED BY <2>1, <2>2, <2>3
<1>8. CASE \/ StartInputs \/ (\E p \in Partitions : ApplyInput(p))
           \/ StopsAtBarrier \/ Interrupts
           \/ \E t \in MRTasks, g \in Gens : Sweep(t, g)
           \/ \E t \in MRTasks :
                  \/ StageArtifact(t) \/ Succeed(t) \/ LoseChild(t)
                  \/ \E patch \in Patches \cup {inputs.applied} : UploadFile(t, patch)
                  \/ \E retry \in BOOLEAN : GiveUp(t, retry)
  BY <1>2, <1>8 DEF StartInputs, ApplyInput, StopsAtBarrier, Interrupts, CancelMapReduce, DeadlinePasses,
     Sweep, MarkDeleting, RemoveDeleting, MarkDeleted, AgeFile, FindStray, RemoveStray, StageArtifact,
     Succeed, LoseChild, UploadFile, GiveUp
<1> QED BY <1>3, <1>5, <1>6, <1>7, <1>8, StepCases

\* What the reduce Worker reads, and the bookkeeping of sweep and faults.
InputMove ==
    \/ inputs' = inputs
    \/ inputs'.read = {} /\ inputs'.applied = {} /\ UNCHANGED <<mr, artifacts>>
    \/ \E p \in Partitions :
          /\ mr.manifest[p] # 0 /\ UNCHANGED <<mr, artifacts>>
          /\ inputs'.read = inputs.read \cup {p}
          /\ inputs'.applied = inputs.applied \cup artifacts[p][mr.manifest[p]].patch

LEMMA InputMoves ==
    ASSUME MRInv, MapReduceNext
    PROVE  /\ inputs' \in InputRows /\ InputMove
           /\ unlink' \subseteq MRTasks \X Gens /\ faults' \in 0 .. MaxFaults
<1>1. /\ inputs \in InputRows /\ unlink \subseteq MRTasks \X Gens /\ faults \in 0 .. MaxFaults /\ Shape
      /\ MaxFaults \in Nat
  BY MapReduceAssumption DEF MRInv, Shape, MapReduceAssumption
<1>2. CASE StartInputs
  <2>1. mrTasks[Reduce].gen \in 0 .. MaxGen
    BY <1>1, Typed DEF TaskRows
  <2>2. inputs' \in InputRows /\ inputs'.read = {} /\ inputs'.applied = {}
    BY <1>2, <2>1 DEF StartInputs, NoInputs, InputRows
  <2> QED BY <1>1, <1>2, <2>2 DEF StartInputs, InputMove
<1>3. ASSUME NEW p \in Partitions, ApplyInput(p)
      PROVE  /\ inputs' \in InputRows /\ InputMove
             /\ unlink' \subseteq MRTasks \X Gens /\ faults' \in 0 .. MaxFaults
  <2>1. mr.manifest[p] \in Gens /\ p \in MRTasks
    BY <1>1, <1>3, Typed DEF ApplyInput
  <2>2. artifacts[p][mr.manifest[p]].patch \in SUBSET Paths
    BY <1>1, <2>1, Typed DEF ArtifactRows
  <2>3. /\ inputs' \in InputRows /\ inputs'.read = inputs.read \cup {p}
        /\ inputs'.applied = inputs.applied \cup artifacts[p][mr.manifest[p]].patch
    BY <1>1, <1>3, <2>2 DEF ApplyInput, InputRows
  <2> QED BY <1>1, <1>3, <2>3 DEF ApplyInput, InputMove
<1>4. ASSUME NEW k, Fault(k) PROVE faults' \in 0 .. MaxFaults
  BY <1>1, <1>4 DEF Fault
<1>5. CASE /\ inputs' = inputs /\ (faults' = faults \/ \E k : Fault(k))
           /\ unlink' \subseteq MRTasks \X Gens
  BY <1>1, <1>4, <1>5 DEF InputMove
<1>6. CASE \E t \in MRTasks, g \in Gens : Sweep(t, g)
  <2>1. PICK t \in MRTasks, g \in Gens : Sweep(t, g)
    BY <1>6
  <2>2. unlink' \in {unlink, unlink \cup {<<t, g>>}, unlink \ {<<t, g>>}}
    BY <2>1 DEF Sweep, MarkDeleting, RemoveDeleting, MarkDeleted, AgeFile, FindStray, RemoveStray
  <2>3. inputs' = inputs /\ (faults' = faults \/ \E k : Fault(k))
    BY <2>1 DEF Sweep, MarkDeleting, RemoveDeleting, MarkDeleted, AgeFile, FindStray, RemoveStray
  <2> QED BY <1>1, <1>5, <2>2, <2>3
<1>7. CASE \/ \E spec \in Specs : SubmitMapReduce(spec)
           \/ StopsJob \/ StopsAtBarrier \/ CreateReduce \/ SucceedsJob \/ Interrupts
  BY <1>1, <1>5, <1>7 DEF SubmitMapReduce, StopsJob, AdvanceStop, StopsAtBarrier, CreateReduce, SucceedsJob,
     AdvanceSuccess, Interrupts, CancelMapReduce, DeadlinePasses
<1>8. CASE \E t \in MRTasks :
                  \/ AssignChild(t) \/ StageArtifact(t) \/ Succeed(t) \/ LoseChild(t)
                  \/ \E patch \in Patches \cup {inputs.applied} : UploadFile(t, patch)
                  \/ \E retry \in BOOLEAN : GiveUp(t, retry)
  BY <1>1, <1>5, <1>8 DEF AssignChild, StageArtifact, Succeed, LoseChild, UploadFile, GiveUp
<1> QED BY <1>2, <1>3, <1>6, <1>7, <1>8, StepCases

----------------------------------------------------------------------------
(* Every step keeps the invariant *)

\* What succeeded stays as it is.
LEMMA SuccessStays ==
    ASSUME MRInv, MapReduceNext, NEW t \in MRTasks, mrTasks[t].state = "SUCCEEDED"
    PROVE  mrTasks'[t] = mrTasks[t] /\ \A g \in Gens : Kept(t, g)
<1>1. TaskHolds(t) /\ TaskMove(t) /\ ~mrTasks[t].open
  BY TaskMoves DEF MRInv, TaskHolds
<1> QED BY <1>1, ArtifactMoves DEF TaskMove, ArtifactMove, IsUpload

\* Once there is a manifest, it stays.
LEMMA ManifestStays ==
    ASSUME MRInv, MapReduceNext, NEW p \in Partitions, mr.manifest[p] # 0
    PROVE  mr'.manifest[p] = mr.manifest[p]
<1>1. ~CreateReduce
  BY DEF CreateReduce
<1>2. ASSUME NEW spec \in Specs, SubmitMapReduce(spec) PROVE mr'.manifest = mr.manifest
  BY <1>2 DEF SubmitMapReduce, MRInv, Shape, JobRows
<1>3. SucceedsJob => mr'.manifest = mr.manifest
  BY DEF SucceedsJob, AdvanceSuccess, MRInv, Shape, JobRows
<1> QED BY <1>1, <1>2, <1>3, JobMoves DEF JobMove, Stops

\* A step that is not createReduce leaves the whole manifest alone.
LEMMA ManifestMoves ==
    ASSUME MRInv, MapReduceNext, ~CreateReduce
    PROVE  mr'.manifest = mr.manifest
<1>1. ASSUME NEW spec \in Specs, SubmitMapReduce(spec) PROVE mr'.manifest = mr.manifest
  BY <1>1 DEF SubmitMapReduce, MRInv, Shape, JobRows
<1>2. SucceedsJob => mr'.manifest = mr.manifest
  BY DEF SucceedsJob, AdvanceSuccess, MRInv, Shape, JobRows
<1> QED BY <1>1, <1>2, JobMoves DEF JobMove, Stops

\* Patches that the manifest names stay what they are.
LEMMA PatchStays ==
    ASSUME MRInv, MapReduceNext, NEW p \in Partitions, mr.manifest[p] # 0
    PROVE  /\ mr.manifest[p] \in Gens /\ Kept(p, mr.manifest[p])
           /\ artifacts'[p][mr'.manifest[p]].patch = artifacts[p][mr.manifest[p]].patch
<1>1. mr.manifest[p] \in Gens /\ p \in MRTasks
  BY Typed DEF MRInv
<1>2. mrTasks[p].state = "SUCCEEDED"
  <2>1. mrTasks[p] = [state |-> "SUCCEEDED", gen |-> mr.manifest[p], open |-> FALSE]
    BY DEF MRInv, ManifestHolds
  <2> QED BY <2>1
<1> QED BY <1>1, <1>2, SuccessStays, ManifestStays DEF Kept
LEMMA MergedStays ==
    ASSUME MRInv, MapReduceNext, NEW ps \in SUBSET Partitions, \A p \in ps : mr.manifest[p] # 0
    PROVE  Merged(ps)' = Merged(ps)
<1>1. \A p \in ps : artifacts'[p][mr'.manifest[p]].patch = artifacts[p][mr.manifest[p]].patch
  BY PatchStays
<1> QED BY <1>1 DEF Merged

LEMMA ManifestStep == ASSUME MRInv, MapReduceNext PROVE ManifestHolds'
<1> SUFFICES ASSUME NEW p \in Partitions, mr'.manifest[p] # 0
             PROVE  /\ mrTasks'[p] = [state |-> "SUCCEEDED", gen |-> mr'.manifest[p], open |-> FALSE]
                    /\ artifacts'[p][mr'.manifest[p]].row = "ACCEPTED"
                    /\ {"task_result", "reduce_input"} \subseteq artifacts'[p][mr'.manifest[p]].refs
  BY DEF ManifestHolds
<1>1. p \in MRTasks /\ Shape /\ TaskHolds(p) /\ mrTasks[p] \in TaskRows
  BY Typed DEF MRInv
<1>2. CASE mr.manifest[p] # 0
  <2>1. /\ mrTasks[p] = [state |-> "SUCCEEDED", gen |-> mr.manifest[p], open |-> FALSE]
        /\ artifacts[p][mr.manifest[p]].row = "ACCEPTED"
        /\ {"task_result", "reduce_input"} \subseteq artifacts[p][mr.manifest[p]].refs
    BY <1>2 DEF MRInv, ManifestHolds
  <2>2. mr'.manifest[p] = mr.manifest[p] /\ Kept(p, mr.manifest[p])
    BY <1>2, ManifestStays, PatchStays
  <2>3. mrTasks'[p] = mrTasks[p]
    BY <1>1, <2>1, SuccessStays
  <2> QED BY <2>1, <2>2, <2>3 DEF Kept
<1>3. CASE mr.manifest[p] = 0
  <2>1. CreateReduce
    BY <1>3, ManifestMoves
  <2>2. mrTasks[p].state = "SUCCEEDED" /\ mr'.manifest[p] = mrTasks[p].gen
    BY <2>1 DEF CreateReduce, MRInv, Shape, JobRows
  <2>3. mrTasks'[p] = mrTasks[p] /\ mrTasks[p].gen \in Gens /\ Kept(p, mrTasks[p].gen)
    BY <1>1, <2>2, SuccessStays, CurrentGen
  <2>4. ~mrTasks[p].open /\ Current(p).row = "ACCEPTED" /\ "task_result" \in Current(p).refs
    BY <1>1, <2>2 DEF TaskHolds
  <2>5. mrTasks[p] = [state |-> "SUCCEEDED", gen |-> mrTasks[p].gen, open |-> FALSE]
    BY <1>1, <2>2, <2>4 DEF TaskRows
  <2>6. "reduce_input" \in artifacts'[p][mrTasks[p].gen].refs
    <3>1. \A q \in Partitions : mrTasks[q].gen \in Gens
      BY <1>1, <2>1, CurrentGen, Typed DEF CreateReduce, MRInv
    <3>2. Partitions \in SUBSET MRTasks
      BY <1>1, Typed
    <3> QED BY <1>1, <2>1, <3>1, <3>2, PinStep DEF CreateReduce
  <2> QED BY <2>2, <2>3, <2>4, <2>5, <2>6 DEF Kept, Current
<1> QED BY <1>2, <1>3

LEMMA UnsubmittedStep == ASSUME MRInv, MapReduceNext PROVE Unsubmitted'
<1> SUFFICES ASSUME mr'.state = "none"
             PROVE  /\ \A t \in MRTasks : mrTasks'[t] = NoTask /\ \A g \in Gens : ~Uploaded(t, g)'
                    /\ \A p \in Partitions : mr'.manifest[p] = 0
  BY DEF Unsubmitted
<1>1. mr' = mr
  <2>1. \A spec \in Specs : ~SubmitMapReduce(spec)
    BY DEF SubmitMapReduce, MRInv, Shape, JobRows
  <2>2. ~CreateReduce /\ ~SucceedsJob
    BY DEF CreateReduce, SucceedsJob, AdvanceSuccess, MRInv, Shape, JobRows
  <2> QED BY <2>1, <2>2, JobMoves DEF JobMove, Stops
<1>2. /\ \A t \in MRTasks : mrTasks[t] = NoTask /\ \A g \in Gens : ~Uploaded(t, g)
      /\ \A p \in Partitions : mr.manifest[p] = 0
  BY <1>1 DEF MRInv, Unsubmitted
<1>3. ASSUME NEW t \in MRTasks PROVE mrTasks'[t] = NoTask /\ \A g \in Gens : ~Uploaded(t, g)'
  <2>1. mrTasks[t].state = "none" /\ ~mrTasks[t].open
    BY <1>2, <1>3 DEF NoTask
  <2>2. TaskMove(t) /\ \A g \in Gens : ArtifactMove(t, g)
    BY <1>3, TaskMoves, ArtifactMoves
  <2> QED BY <1>2, <1>3, <2>1, <2>2 DEF TaskMove, ArtifactMove, Kept, IsUpload
<1> QED BY <1>1, <1>2, <1>3

LEMMA ScopeStep == ASSUME MRInv, MapReduceNext PROVE ScopeHolds'
<1>1. mr \in JobRows
  BY DEF MRInv, Shape
<1>2. ASSUME NEW spec \in Specs, SubmitMapReduce(spec) PROVE ScopeHolds'
  <2>1. mr.state = "none" /\ mr'.scope = spec /\ ValidSpec(spec) /\ artifacts' = artifacts
    BY <1>1, <1>2 DEF SubmitMapReduce, JobRows
  <2>2. \A p \in Partitions, g \in Gens : ~Uploaded(p, g)'
    BY <2>1, Typed DEF MRInv, Unsubmitted, Uploaded
  <2> QED BY <1>2, <2>1, <2>2 DEF ScopeHolds
<1>3. CASE \A spec \in Specs : ~SubmitMapReduce(spec)
  <2>1. mr'.scope = mr.scope /\ (mr'.state # "none" => mr.state # "none")
    BY <1>1, <1>3, JobMoves DEF JobMove, Stops, CreateReduce, SucceedsJob, AdvanceSuccess, JobRows
  <2>2. ASSUME NEW p \in Partitions, NEW g \in Gens, Uploaded(p, g)', NEW path \in artifacts'[p][g].patch
        PROVE  InScope(path, mr.scope[p])
    <3>1. p \in MRTasks /\ p # Reduce
      BY Typed DEF MRInv
    <3>2. CASE Kept(p, g)
      BY <2>2, <3>2 DEF Kept, MRInv, ScopeHolds
    <3>3. CASE IsUpload(p, g)
      BY <2>2, <3>1, <3>3 DEF IsUpload, OutputHolds
    <3> QED BY <3>1, <3>2, <3>3, ArtifactMoves DEF ArtifactMove
  <2> QED BY <2>1, <2>2 DEF ScopeHolds, MRInv
<1> QED BY <1>2, <1>3
LEMMA MergeStep == ASSUME MRInv, MapReduceNext PROVE MergeHolds'
<1>1. /\ inputs \in InputRows /\ inputs.read \in SUBSET Partitions /\ mr \in JobRows /\ Shape
      /\ \A p \in inputs.read : mr.manifest[p] # 0
      /\ inputs.applied = Merged(inputs.read)
  BY DEF MRInv, Shape, MergeHolds, InputRows
<1>2. \A p \in inputs'.read : mr'.manifest[p] # 0
  <2>1. \A p \in inputs.read : mr'.manifest[p] # 0
    BY <1>1, ManifestStays
  <2>2. InputMove
    BY InputMoves
  <2> QED BY <2>1, <2>2 DEF InputMove
<1>3. inputs'.applied = Merged(inputs.read)'
  <2>1. CASE inputs' = inputs
    <3>1. Merged(inputs.read)' = UNION {artifacts'[p][mr'.manifest[p]].patch : p \in inputs.read}
      BY <2>1 DEF Merged
    <3>2. \A p \in inputs.read : artifacts'[p][mr'.manifest[p]].patch = artifacts[p][mr.manifest[p]].patch
      BY <1>1, PatchStays
    <3> QED BY <1>1, <2>1, <3>1, <3>2 DEF Merged
  <2>2. CASE inputs'.read = {} /\ inputs'.applied = {} /\ UNCHANGED <<mr, artifacts>>
    BY <2>2 DEF Merged
  <2>3. ASSUME NEW p \in Partitions, UNCHANGED <<mr, artifacts>>,
               inputs'.read = inputs.read \cup {p},
               inputs'.applied = inputs.applied \cup artifacts[p][mr.manifest[p]].patch
        PROVE  inputs'.applied = Merged(inputs.read)'
    BY <1>1, <2>3 DEF Merged
  <2> QED BY <2>1, <2>2, <2>3, InputMoves DEF InputMove
<1>4. CreateReduce => \A p \in Partitions : mr'.manifest[p] # 0 /\ mr.manifest[p] = 0
  <2> SUFFICES ASSUME CreateReduce, NEW p \in Partitions PROVE mr'.manifest[p] # 0 /\ mr.manifest[p] = 0
    OBVIOUS
  <2>1. mr'.manifest[p] = mrTasks[p].gen /\ mrTasks[p].state = "SUCCEEDED" /\ mr.manifest[p] = 0
    BY <1>1 DEF CreateReduce, JobRows
  <2> QED BY <1>1, <2>1, Typed DEF MRInv, TaskHolds
<1>5. stages'["map"] = "SUCCEEDED" => \A p \in Partitions : mr'.manifest[p] # 0
  BY <1>4, StageMoves, ManifestStays DEF MRInv, MergeHolds
<1>6. mr'.state = "SUCCEEDED" => mr'.result # 0 /\ \A p \in Partitions : mr'.manifest[p] # 0
  <2> SUFFICES ASSUME mr'.state = "SUCCEEDED"
               PROVE  mr'.result # 0 /\ \A p \in Partitions : mr'.manifest[p] # 0
    OBVIOUS
  <2>1. CASE mr' = mr
    BY <2>1, ManifestStays DEF MRInv, MergeHolds
  <2>2. CASE SucceedsJob
    <3>1. /\ mr'.result = mrTasks[Reduce].gen /\ mrTasks[Reduce].state = "SUCCEEDED"
          /\ stages["map"] = "SUCCEEDED"
      BY <1>1, <2>2 DEF SucceedsJob, AdvanceSuccess, JobRows
    <3>2. mrTasks[Reduce].gen # 0
      BY <1>1, <3>1, Typed DEF MRInv, TaskHolds
    <3> QED BY <3>1, <3>2, ManifestStays DEF MRInv, MergeHolds
  <2>3. ~CreateReduce /\ \A spec \in Specs : ~SubmitMapReduce(spec)
    BY <1>1 DEF CreateReduce, SubmitMapReduce, JobRows
  <2> QED BY <2>1, <2>2, <2>3, JobMoves DEF JobMove, Stops
<1>7. ASSUME NEW g \in Gens, Uploaded(Reduce, g)'
      PROVE  /\ \A p \in Partitions : mr'.manifest[p] # 0
             /\ artifacts'[Reduce][g].patch = Merged(Partitions)'
  <2>1. Reduce \in MRTasks
    BY <1>1, Typed
  <2>2. /\ \A p \in Partitions : mr.manifest[p] # 0
        /\ artifacts'[Reduce][g].patch = Merged(Partitions)
    <3>1. CASE Kept(Reduce, g)
      BY <1>7, <3>1 DEF Kept, MRInv, MergeHolds
    <3>2. CASE IsUpload(Reduce, g)
      <4>1. inputs.read = Partitions /\ artifacts'[Reduce][g].patch = inputs.applied
        BY <3>2 DEF IsUpload, OutputHolds
      <4> QED BY <1>1, <4>1
    <3> QED BY <1>7, <2>1, <3>1, <3>2, ArtifactMoves DEF ArtifactMove
  <2>3. Merged(Partitions)' = Merged(Partitions)
    BY <2>2, MergedStays
  <2> QED BY <2>2, <2>3, ManifestStays
<1> QED BY <1>2, <1>3, <1>5, <1>6, <1>7 DEF MergeHolds

LEMMA SettledStep == ASSUME MRInv, MapReduceNext PROVE FinishedIsSettled'
<1> SUFFICES ASSUME mr'.state \in MRTerminal
             PROVE  /\ \A t \in MRTasks : mrTasks'[t].state # "none" =>
                          mrTasks'[t].state \in MRTerminal /\ ~mrTasks'[t].open
                    /\ mr'.state = "SUCCEEDED" => artifacts'[Reduce][mr'.result].patch = Merged(Partitions)'
  BY DEF FinishedIsSettled, Children, Merged
<1>1. mr \in JobRows /\ Shape /\ Reduce \in MRTasks /\ Partitions \subseteq MRTasks
  BY Typed DEF MRInv, Shape
<1>2. CASE mr' = mr
  <2>1. ASSUME NEW t \in MRTasks, mrTasks'[t].state # "none"
        PROVE  mrTasks'[t].state \in MRTerminal /\ ~mrTasks'[t].open
    <3>1. TaskMove(t) /\ TaskHolds(t)
      BY <2>1, TaskMoves DEF MRInv
    <3>2. ~mrTasks[t].open
      BY <1>2, <2>1, <3>1 DEF MRInv, FinishedIsSettled, Children, TaskHolds
    <3>3. mrTasks'[t] = mrTasks[t]
      BY <1>2, <3>1, <3>2 DEF TaskMove, MRTerminal
    <3> QED BY <1>2, <2>1, <3>3 DEF MRInv, FinishedIsSettled, Children
  <2>2. ASSUME mr.state = "SUCCEEDED"
        PROVE  artifacts'[Reduce][mr.result].patch = Merged(Partitions)'
    <3>1. mr.result \in Gens /\ \A p \in Partitions : mr.manifest[p] # 0
      <4>1. mr.result \in 0 .. MaxGen
        BY <1>1 DEF JobRows
      <4> QED BY <1>1, <2>2, <4>1, Typed DEF MRInv, MergeHolds
    <3>2. ~mrTasks[Reduce].open
      BY <1>1, <1>2 DEF MRInv, FinishedIsSettled, Children, TaskHolds
    <3>3. Kept(Reduce, mr.result)
      BY <1>1, <3>1, <3>2, ArtifactMoves DEF ArtifactMove, IsUpload
    <3>4. artifacts[Reduce][mr.result].patch = Merged(Partitions)
      BY <1>2, <2>2 DEF MRInv, FinishedIsSettled, Merged
    <3> QED BY <3>1, <3>3, <3>4, MergedStays DEF Kept
  <2> QED BY <1>2, <2>1, <2>2
<1>3. CASE Stops
  <2>1. StopsJob /\ AllStopped([t \in MRTasks |-> StopChild(t)]) /\ mr'.state # "SUCCEEDED"
    BY <1>3 DEF Stops
  <2>2. ASSUME NEW t \in MRTasks, mrTasks'[t].state # "none"
        PROVE  mrTasks'[t].state \in MRTerminal /\ ~mrTasks'[t].open
    <3>1. mrTasks' = [u \in MRTasks |-> StopChild(u)] /\ mrTasks'[t] = StopChild(t)
      BY <2>1, <2>2 DEF StopsJob, AdvanceStop
    <3>2. t \in Children
      <4>1. TaskHolds(t)
        BY <2>2 DEF MRInv
      <4> QED BY <1>1, <2>2, <3>1, <4>1, StopChildRow DEF Children
    <3> QED BY <2>1, <3>1, <3>2 DEF AllStopped
  <2> QED BY <2>1, <2>2
<1>4. CASE SucceedsJob
  <2>1. /\ mr'.result = mrTasks[Reduce].gen /\ mrTasks[Reduce].state = "SUCCEEDED" /\ ~mrTasks[Reduce].open
        /\ stages["map"] = "SUCCEEDED" /\ mrTasks' = mrTasks
    BY <1>1, <1>4 DEF SucceedsJob, AdvanceSuccess, JobRows
  <2>2. \A p \in Partitions : mr.manifest[p] # 0
    BY <2>1 DEF MRInv, MergeHolds
  <2>3. \A p \in Partitions : mrTasks[p] = [state |-> "SUCCEEDED", gen |-> mr.manifest[p], open |-> FALSE]
    BY <2>2 DEF MRInv, ManifestHolds
  <2>4. ASSUME NEW p \in Partitions PROVE mrTasks[p].state = "SUCCEEDED" /\ ~mrTasks[p].open
    <3>1. mrTasks[p] = [state |-> "SUCCEEDED", gen |-> mr.manifest[p], open |-> FALSE]
      BY <2>3
    <3> QED BY <3>1
  <2>5. mrTasks[Reduce].gen \in Gens /\ Uploaded(Reduce, mrTasks[Reduce].gen)
    BY <1>1, <2>1, CurrentGen DEF MRInv, TaskHolds, Uploaded, Current
  <2>6. artifacts[Reduce][mrTasks[Reduce].gen].patch = Merged(Partitions)
    BY <2>5 DEF MRInv, MergeHolds
  <2>7. Kept(Reduce, mrTasks[Reduce].gen)
    BY <1>1, <2>1, <2>5, SuccessStays
  <2>8. artifacts'[Reduce][mr'.result].patch = Merged(Partitions)'
    BY <2>1, <2>2, <2>6, <2>7, MergedStays DEF Kept
  <2> QED BY <2>1, <2>4, <2>8 DEF MRTasks, MRTerminal
<1>5. ~CreateReduce /\ \A spec \in Specs : ~SubmitMapReduce(spec)
  BY <1>1 DEF CreateReduce, SubmitMapReduce, JobRows, MRTerminal
<1> QED BY <1>2, <1>3, <1>4, <1>5, JobMoves DEF JobMove

----------------------------------------------------------------------------
(* The theorems *)

LEMMA InitHolds == MapReduceInit => MRInv
<1> SUFFICES ASSUME MapReduceInit PROVE MRInv
  OBVIOUS
<1>1. MaxGen \in Nat /\ MaxFaults \in Nat /\ Partitions # {}
  BY MapReduceAssumption DEF MapReduceAssumption
<1>2. /\ \A t \in MRTasks : mrTasks[t] = NoTask
      /\ \A t \in MRTasks, g \in Gens : artifacts[t][g] = NoArtifact
      /\ inputs.read = {} /\ inputs.applied = {} /\ mr.state = "none" /\ stages["map"] = "none"
      /\ \A p \in Partitions : mr.manifest[p] = 0
  BY DEF MapReduceInit, NoInputs
<1>3. Shape
  <2>1. mr \in JobRows
    <3>1. [p \in Partitions |-> 0] \in [Partitions -> 0 .. MaxGen] /\ 0 \in 0 .. MaxGen
      BY <1>1
    <3>2. <<>> \in Specs \cup {<<>>}
      OBVIOUS
    <3> QED BY <3>1, <3>2 DEF MapReduceInit, JobRows
  <2>2. stages \in [{"map", "reduce"} -> StageRows]
    BY DEF MapReduceInit, StageRows
  <2>3. NoTask \in TaskRows /\ NoArtifact \in ArtifactRows /\ NoInputs \in InputRows
    BY <1>1 DEF TaskRows, ArtifactRows, InputRows, NoTask, NoArtifact, NoInputs
  <2>4. mrTasks \in [MRTasks -> TaskRows] /\ artifacts \in [MRTasks -> [Gens -> ArtifactRows]]
    BY <2>3 DEF MapReduceInit
  <2>5. inputs \in InputRows /\ unlink \subseteq MRTasks \X Gens /\ faults \in 0 .. MaxFaults
    <3>1. inputs = NoInputs /\ unlink = {} /\ faults = 0
      BY DEF MapReduceInit
    <3>2. {} \subseteq MRTasks \X Gens /\ 0 \in 0 .. MaxFaults
      BY <1>1
    <3> QED BY <2>3, <3>1, <3>2
  <2> QED BY <2>1, <2>2, <2>4, <2>5 DEF Shape
<1>4. \A t \in MRTasks : TaskHolds(t)
  BY <1>2 DEF TaskHolds, NoTask
<1>5. \A t \in MRTasks, g \in Gens : ~Uploaded(t, g)
  BY <1>2 DEF Uploaded, NoArtifact
<1>6. Unsubmitted /\ ScopeHolds /\ ManifestHolds /\ FinishedIsSettled
  <2>1. Partitions \subseteq MRTasks
    BY DEF MRTasks
  <2> QED BY <1>2, <1>5, <2>1 DEF Unsubmitted, ScopeHolds, ManifestHolds, FinishedIsSettled, MRTerminal
<1>7. MergeHolds
  <2>1. Reduce \in MRTasks
    BY DEF MRTasks
  <2> QED BY <1>2, <1>5, <2>1 DEF MergeHolds, Merged
<1> QED BY <1>3, <1>4, <1>6, <1>7 DEF MRInv

LEMMA StutterHolds == ASSUME MRInv, UNCHANGED mrVars PROVE MRInv'
<1>1. UNCHANGED <<mr, stages, mrTasks, artifacts, inputs, unlink, faults>>
  BY DEF mrVars
<1>2. Shape' /\ \A t \in MRTasks : TaskHolds(t)'
  BY <1>1 DEF MRInv, Shape, TaskHolds, Current
<1>3. Unsubmitted' /\ ScopeHolds' /\ MergeHolds'
  BY <1>1 DEF MRInv, Unsubmitted, ScopeHolds, MergeHolds, Uploaded, Merged
<1>4. ManifestHolds' /\ FinishedIsSettled'
  BY <1>1 DEF MRInv, ManifestHolds, FinishedIsSettled, Children
<1> QED BY <1>2, <1>3, <1>4 DEF MRInv

LEMMA MRSteps == ASSUME MRInv, [MapReduceNext]_mrVars PROVE MRInv'
<1>1. ASSUME MapReduceNext PROVE MRInv'
  <2>1. Shape'
    BY <1>1, JobMoves, StageMoves, TaskMoves, ArtifactMoves, InputMoves DEF Shape
  <2> QED BY <1>1, <2>1, TasksHold, UnsubmittedStep, ScopeStep, MergeStep, ManifestStep, SettledStep DEF MRInv
<1> QED BY <1>1, StutterHolds

LEMMA MRTypes == MRInv => MapReduceTypeOK
<1> SUFFICES ASSUME MRInv PROVE MapReduceTypeOK
  OBVIOUS
<1>1. \A t \in MRTasks, g \in Gens : artifacts[t][g] \in ArtifactRows
  BY Typed DEF MRInv
<1>2. \A t \in MRTasks, g \in Gens :
        /\ artifacts[t][g].row \in {"none", "STAGED", "ACCEPTED", "ORPHANED", "DELETING", "DELETED"}
        /\ artifacts[t][g].file \in {"none", "fresh", "aged"}
        /\ artifacts[t][g].refs \subseteq {"task_result", "reduce_input", "job_result"}
  BY <1>1 DEF ArtifactRows
<1> QED BY <1>2 DEF MRInv, Shape, MapReduceTypeOK, JobRows, StageRows, TaskRows

\* MRInv holds in every reachable state of every instance.
THEOREM MapReduceSafe == MapReduceSpec => []MRInv
<1>1. MRInv /\ [MapReduceNext]_mrVars => MRInv'
  BY MRSteps
<1> QED BY <1>1, InitHolds, PTL DEF MapReduceSpec

\* The type invariant of a map_reduce Job, and with it the limits of its generations.
THEOREM MapReduceTyped == MapReduceSpec => []MapReduceTypeOK
BY MRTypes, MapReduceSafe, PTL

\* The manifest of createReduce stays true: whatever is retried, stopped or swept after
\* the barrier, the row it names stays accepted and pinned (reconcileArtifactLifecycle).
THEOREM ManifestSafe == MapReduceSpec => []ManifestHolds
<1>1. MRInv => ManifestHolds
  BY DEF MRInv
<1> QED BY <1>1, MapReduceSafe, PTL

\* A Job ends only when nothing of it runs, and what it publishes is the merge of
\* exactly the patches of its manifest (finishJob, prepareJob).
THEOREM FinishedSafe == MapReduceSpec => []FinishedIsSettled
<1>1. MRInv => FinishedIsSettled
  BY DEF MRInv
<1> QED BY <1>1, MapReduceSafe, PTL

\* Disjoint scopes are enough: the inputs of a reduce Attempt never conflict, whatever
\* paths the map Attempts changed (Validate, finishJobOutput, mergeInputs).
THEOREM InputsMerge == MapReduceSpec => []InputsNeverConflict
<1>1. MRInv => InputsNeverConflict
  <2> SUFFICES ASSUME MRInv, NEW p \in Partitions, mr.manifest[p] # 0, p \notin inputs.read
               PROVE  Mergeable(p)
    BY DEF InputsNeverConflict
  <2> DEFINE A(q) == artifacts[q][mr.manifest[q]]
  <2>1. ASSUME NEW q \in Partitions, mr.manifest[q] # 0
        PROVE  A(q).patch \in SUBSET Paths /\ \A path \in A(q).patch : InScope(path, mr.scope[q])
    <3>1. mr.manifest[q] \in Gens /\ q \in MRTasks
      BY <2>1, Typed DEF MRInv
    <3>2. Uploaded(q, mr.manifest[q])
      BY <2>1 DEF MRInv, ManifestHolds, Uploaded
    <3>3. A(q) \in ArtifactRows
      BY <3>1, Typed DEF MRInv
    <3> QED BY <2>1, <3>1, <3>2, <3>3 DEF MRInv, ScopeHolds, ArtifactRows
  <2>2. mr.scope \in Specs /\ ValidSpec(mr.scope)
    BY DEF MRInv, Unsubmitted, ScopeHolds
  <2>3. ASSUME NEW path \in A(p).patch, path \in inputs.applied PROVE FALSE
    <3>1. PICK q \in inputs.read : path \in A(q).patch
      BY <2>3 DEF MRInv, MergeHolds, Merged
    <3>2. q \in Partitions /\ mr.manifest[q] # 0 /\ q # p
      BY <3>1 DEF MRInv, MergeHolds, Shape, InputRows
    <3>3. path \in Paths /\ InScope(path, mr.scope[p]) /\ InScope(path, mr.scope[q])
      BY <2>1, <2>3, <3>1, <3>2
    <3> QED BY <2>2, <3>2, <3>3, OneScope
  <2> QED BY <2>1, <2>3 DEF Mergeable
<1> QED BY <1>1, MapReduceSafe, PTL


----------------------------------------------------------------------------
(* The graph: the inductive invariant *)

Settled(r) == r.state \in {"SKIPPED", "SUCCEEDED"}

\* A node whose edges let it run, and one whose edges do not.
On(p, rows, n) ==
    /\ \A e \in GraphEdges(p, n) : Settled(rows[e.from])
    /\ IF p.kind[n] = "selected" THEN \E e \in GraphEdges(p, n) : ~EdgeOff(rows[e.from], e)
       ELSE \A e \in GraphEdges(p, n) : ~EdgeOff(rows[e.from], e)

Off(p, rows, n) ==
    IF p.kind[n] = "selected" THEN \A e \in GraphEdges(p, n) : EdgeOff(rows[e.from], e)
    ELSE \E e \in GraphEdges(p, n) : EdgeOff(rows[e.from], e)

\* A row and the admission of its Task's result.
RowOK(r, a) ==
    /\ r \in NodeRow
    /\ r.state \in {"BLOCKED", "SKIPPED"} => r.task = "none" /\ r.out = ""
    /\ r.state = "SUCCEEDED" => r.out # "" /\ r.task \in {"none", "SUCCEEDED"}
    /\ r.task # "none" /\ r.out # "" => r.task = "SUCCEEDED" /\ a.state = "ADMITTED"
    /\ a.state # "none" => r.task = "SUCCEEDED" /\ a.value # ""
    /\ a.state = "PENDING" => r.out = ""
    /\ a.state = "ADMITTED" => r.out # ""

RowsOK(p, rows, adms) ==
    \A n \in GraphNames :
        /\ RowOK(rows[n], adms[n])
        /\ n \notin ToSet(p.nodes) => rows[n] = NoNode
        /\ n \in ToSet(p.nodes) =>
              /\ rows[n].state = "SKIPPED" => Off(p, rows, n)
              /\ rows[n].task # "none" \/ rows[n].state = "SUCCEEDED" => On(p, rows, n)

\* The generations so far, and what an ended one leaves.
GenFine(g) ==
    LET gen == gGen[g] IN
    /\ gen.job # "none" <=> g <= gGoal.active
    /\ gen.job = "none" =>
          /\ gen = NoGeneration
          /\ \A n \in GraphNames : gNode[g][n] = NoNode /\ gAdm[g][n] = NoAdmission
    /\ gen.job # "none" =>
          /\ gen.plan \in DOMAIN GraphPlans /\ CompileGraph(gen.plan)
          /\ RowsOK(GraphPlans[gen.plan], gNode[g], gAdm[g])
    /\ gen.job \in {"FAILED", "CANCELED"} =>
          /\ gen.reason # ""
          /\ \A n \in GraphNames : gNode[g][n].task \notin LiveTask \cup {"QUEUED"}
    /\ gen.job = "SUCCEEDED" => \A n \in ToSet(GraphPlans[gen.plan].nodes) : Settled(gNode[g][n])

\* What a generation has from an earlier one.
BoundFine(b) ==
    /\ b \in [kind : {"import", "offer", "REUSE", "RECOMPUTE"}, gen : GraphGens,
              node : GraphNames, source : GraphGens, from : GraphNames,
              revision : 0 .. MaxRevisions, out : Verdicts \cup {""}, key : {b.key}]
    /\ b.source < b.gen /\ b.gen <= gGoal.active
    /\ b.kind # "import" => b.out # ""
    /\ GraphRevision(b.source) = b.revision /\ RecordValid(b.source, b.from)

GrantFine ==
    gGrant.state = "ISSUED" =>
        /\ gGrant.source \in GraphGens /\ gGrant.node \in GraphNames
        /\ gGrant.source < gGrant.target

PassFine ==
    gGoal.state = "SUCCEEDED" =>
        /\ gGoal.active \in GraphGens
        /\ gGen[gGoal.active].job = "SUCCEEDED"
        /\ gGen[gGoal.active].eval.verdict = "PASS"
        /\ ~GraphInvalidated(gGoal.active)
        /\ PlanOf(gGoal.active).coverage =>
              \E r \in gGen[gGoal.active].eval.cites : r.kind = "coverage"
        /\ \A r \in gGen[gGoal.active].eval.cites : r.verdict = "PASS" /\ r.gen = gGoal.active

GraphInv ==
    /\ GraphTypeOK
    /\ gGoal.state = "none" <=> gGoal.active = 0
    /\ \A g \in GraphGens : GenFine(g)
    /\ \A b \in gBound : BoundFine(b)
    /\ GrantFine
    /\ PassFine

----------------------------------------------------------------------------
(* Induction over the naturals, for a set *)

LEMMA SetInduction ==
    ASSUME NEW S, 0 \in S, \A n \in Nat : n \in S => n + 1 \in S
    PROVE  \A n \in Nat : n \in S
<1> DEFINE T == {n \in Nat : n \notin S}
           R == OpToRel(<, Nat)
<1>1. SUFFICES ASSUME T # {} PROVE FALSE
    OBVIOUS
<1>2. IsWellFoundedOn(R, Nat) /\ T \subseteq Nat
    BY NatLessThanWellFounded
<1>3. PICK x \in T : \A y \in T : <<y, x>> \notin R
    <2> HIDE DEF T, R
    <2> QED BY <1>1, <1>2, WFMin
<1>4. \A y \in T : ~(y < x)
    <2>1. ASSUME NEW y \in T, y < x PROVE FALSE
        <3>1. <<y, x>> \in R
            BY <2>1 DEF OpToRel
        <3> QED BY <1>3, <3>1
    <2> QED BY <2>1
<1>5. x # 0 /\ x \in Nat
    OBVIOUS
<1>6. x - 1 \in Nat /\ x - 1 < x /\ (x - 1) + 1 = x
    BY <1>5
<1>7. x - 1 \notin S
    BY <1>6
<1> QED BY <1>4, <1>6, <1>7

\* A set of naturals has a least element.
LEMMA LeastNatural ==
    ASSUME NEW S, S \subseteq Nat, S # {}
    PROVE  \E m \in S : \A k \in S : m <= k
<1> DEFINE R == OpToRel(<, Nat)
<1>1. IsWellFoundedOn(R, Nat)
    BY NatLessThanWellFounded
<1>2. PICK m \in S : \A y \in S : <<y, m>> \notin R
    <2> HIDE DEF R
    <2> QED BY <1>1, WFMin
<1>3. ASSUME NEW k \in S PROVE m <= k
    <2>1. SUFFICES ASSUME k < m PROVE FALSE
        OBVIOUS
    <2>2. <<k, m>> \in R
        BY <2>1 DEF OpToRel
    <2> QED BY <1>2, <2>2
<1> QED BY <1>3

----------------------------------------------------------------------------
(* The order of a plan *)

\* The recursion of GraphOrder has a solution.
LEMMA OrderRuns ==
    ASSUME NEW p, Len(p.nodes) \in Nat
    PROVE  \E f : /\ f = [i \in 0 .. Len(p.nodes) |->
                            IF i = 0 THEN <<>> ELSE TakeReady(p, f[i - 1])]
                  /\ GraphOrder(p) = f[Len(p.nodes)]
<1> DEFINE D(g, m) == [i \in 0 .. m |-> IF i = 0 THEN <<>> ELSE TakeReady(p, g[i - 1])]
           S == {m \in Nat : \E g : g = D(g, m)}
<1>1. 0 \in S
    <2>1. [i \in 0 .. 0 |-> <<>>] = D([i \in 0 .. 0 |-> <<>>], 0)
        OBVIOUS
    <2> QED BY <2>1
<1>2. ASSUME NEW m \in Nat, m \in S PROVE m + 1 \in S
    <2>1. PICK g : g = D(g, m)
        BY <1>2
    <2>2. PICK h : h = [i \in 0 .. (m + 1) |-> IF i = m + 1 THEN TakeReady(p, g[m]) ELSE g[i]]
        OBVIOUS
    <2>3. ASSUME NEW i \in 0 .. (m + 1)
          PROVE  h[i] = (IF i = 0 THEN <<>> ELSE TakeReady(p, h[i - 1]))
        <3>1. CASE i = m + 1
            BY <2>2, <3>1
        <3>2. CASE i # m + 1 /\ i # 0
            <4>1. i \in 0 .. m /\ i - 1 \in 0 .. m /\ i - 1 # m + 1 /\ i - 1 \in 0 .. (m + 1)
                BY <3>2
            <4>2. h[i] = g[i] /\ h[i - 1] = g[i - 1]
                BY <2>2, <3>2, <4>1
            <4>3. g[i] = TakeReady(p, g[i - 1])
                BY <2>1, <3>2, <4>1
            <4> QED BY <3>2, <4>2, <4>3
        <3>3. CASE i = 0
            <4>1. 0 \in 0 .. m /\ 0 # m + 1
                OBVIOUS
            <4>2. g[0] = <<>>
                BY <2>1, <4>1
            <4> QED BY <2>2, <3>3, <4>1, <4>2
        <3> QED BY <3>1, <3>2, <3>3
    <2>4. h = D(h, m + 1)
        <3>1. h = [i \in 0 .. (m + 1) |-> h[i]]
            BY <2>2
        <3> QED BY <2>3, <3>1
    <2> QED BY <2>4
<1>3. Len(p.nodes) \in S
    <2> HIDE DEF S
    <2> QED BY <1>1, <1>2, SetInduction
<1>4. \E g : g = D(g, Len(p.nodes))
    BY <1>3
<1> DEFINE run == CHOOSE g : g = D(g, Len(p.nodes))
<1>5. run = D(run, Len(p.nodes))
    BY <1>4, Zenon
<1>6. GraphOrder(p) = run[Len(p.nodes)]
    BY Zenon DEF GraphOrder
<1> QED BY <1>5, <1>6, Zenon

\* Every node once, and after the nodes it reads from.
OrderFine(p, s) ==
    /\ s \in Seq(ToSet(p.nodes))
    /\ \A i, j \in 1 .. Len(s) : s[i] = s[j] => i = j
    /\ \A i \in 1 .. Len(s) : \A e \in GraphEdges(p, s[i]) : \E j \in 1 .. (i - 1) : s[j] = e.from

LEMMA TakesReady ==
    ASSUME NEW p, p.nodes \in Seq(ToSet(p.nodes)), NEW s, OrderFine(p, s)
    PROVE  OrderFine(p, TakeReady(p, s))
<1>1. PICK ready : ready = ReadyNodes(p, s)
    OBVIOUS
<1>2. CASE ready = {}
    BY <1>1, <1>2 DEF TakeReady
<1>3. CASE ready # {}
    <2>1. Len(p.nodes) \in Nat /\ DOMAIN p.nodes = 1 .. Len(p.nodes)
        OBVIOUS
    <2>2. ready \subseteq DOMAIN p.nodes
        BY <1>1 DEF ReadyNodes
    <2>3. ready \subseteq Nat
        BY <2>1, <2>2
    <2>4. Min(ready) \in ready
        <3>1. \E m \in ready : \A k \in ready : m <= k
            BY <1>3, <2>3, LeastNatural
        <3> QED BY <3>1 DEF Min
    <2>5. PICK x : x = p.nodes[Min(ready)]
        OBVIOUS
    <2>6. /\ x \in ToSet(p.nodes) /\ x \notin ToSet(s)
          /\ \A e \in GraphEdges(p, x) : e.from \in ToSet(s)
        BY <1>1, <2>2, <2>4, <2>5 DEF ReadyNodes, ToSet
    <2>7. TakeReady(p, s) = Append(s, x)
        BY <1>1, <1>3, <2>5 DEF TakeReady
    <2>8. PICK t : t = Append(s, x)
        OBVIOUS
    <2>9. s \in Seq(ToSet(p.nodes)) /\ Len(s) \in Nat /\ DOMAIN s = 1 .. Len(s)
        BY DEF OrderFine
    <2>10. /\ t \in Seq(ToSet(p.nodes)) /\ Len(t) = Len(s) + 1 /\ t[Len(s) + 1] = x
           /\ \A i \in 1 .. Len(s) : t[i] = s[i]
        BY <2>6, <2>8, <2>9
    <2>11. \A i \in 1 .. Len(s) : s[i] # x
        BY <2>6, <2>9 DEF ToSet
    <2>12. ASSUME NEW i \in 1 .. Len(t), NEW j \in 1 .. Len(t), t[i] = t[j] PROVE i = j
        <3>1. CASE i = Len(s) + 1 \/ j = Len(s) + 1
            BY <2>9, <2>10, <2>11, <2>12, <3>1
        <3>2. CASE i # Len(s) + 1 /\ j # Len(s) + 1
            <4>1. i \in 1 .. Len(s) /\ j \in 1 .. Len(s)
                BY <2>9, <2>10, <3>2
            <4> QED BY <2>10, <2>12, <4>1 DEF OrderFine
        <3> QED BY <3>1, <3>2
    <2>13. ASSUME NEW i \in 1 .. Len(t), NEW e \in GraphEdges(p, t[i])
           PROVE  \E j \in 1 .. (i - 1) : t[j] = e.from
        <3>1. CASE i = Len(s) + 1
            <4>1. e.from \in ToSet(s)
                BY <2>6, <2>10, <2>13, <3>1
            <4>2. PICK j \in 1 .. Len(s) : s[j] = e.from
                BY <2>9, <4>1 DEF ToSet
            <4>3. j \in 1 .. (i - 1) /\ t[j] = e.from
                BY <2>9, <2>10, <3>1, <4>2
            <4> QED BY <4>3
        <3>2. CASE i # Len(s) + 1
            <4>1. i \in 1 .. Len(s) /\ t[i] = s[i]
                BY <2>9, <2>10, <3>2
            <4>2. PICK j \in 1 .. (i - 1) : s[j] = e.from
                BY <2>13, <4>1 DEF OrderFine
            <4>3. j \in 1 .. Len(s)
                BY <2>9, <4>1, <4>2
            <4> QED BY <2>10, <4>2, <4>3
        <3> QED BY <3>1, <3>2
    <2>14. \A i, j \in 1 .. Len(t) : t[i] = t[j] => i = j
        BY <2>12
    <2>15. \A i \in 1 .. Len(t) : \A e \in GraphEdges(p, t[i]) :
              \E j \in 1 .. (i - 1) : t[j] = e.from
        BY <2>13
    <2>16. OrderFine(p, t)
        BY ONLY <2>10, <2>14, <2>15 DEF OrderFine
    <2> QED BY <2>7, <2>8, <2>16
<1> QED BY <1>2, <1>3

LEMMA OrdersNodes ==
    ASSUME NEW p, p.nodes \in Seq(ToSet(p.nodes))
    PROVE  OrderFine(p, GraphOrder(p))
<1>1. Len(p.nodes) \in Nat
    OBVIOUS
<1>2. PICK f : /\ f = [i \in 0 .. Len(p.nodes) |-> IF i = 0 THEN <<>> ELSE TakeReady(p, f[i - 1])]
               /\ GraphOrder(p) = f[Len(p.nodes)]
    BY <1>1, OrderRuns
<1> DEFINE S == {i \in Nat : i <= Len(p.nodes) => OrderFine(p, f[i])}
<1>3. 0 \in S
    <2>1. OrderFine(p, <<>>)
        BY DEF OrderFine
    <2>2. f[0] = <<>>
        BY <1>1, <1>2
    <2> QED BY <2>1, <2>2
<1>4. ASSUME NEW i \in Nat, i \in S PROVE i + 1 \in S
    <2>1. SUFFICES ASSUME i + 1 <= Len(p.nodes) PROVE OrderFine(p, f[i + 1])
        OBVIOUS
    <2>2. OrderFine(p, f[i])
        BY <1>1, <1>4, <2>1
    <2>3. f[i + 1] = TakeReady(p, f[i])
        <3>1. i + 1 \in 0 .. Len(p.nodes) /\ i + 1 # 0 /\ (i + 1) - 1 = i
            BY <1>1, <2>1
        <3> QED BY <1>2, <3>1
    <2> QED BY <2>2, <2>3, TakesReady
<1>5. Len(p.nodes) \in S
    <2> HIDE DEF S
    <2> QED BY <1>1, <1>3, <1>4, SetInduction
<1> QED BY <1>1, <1>2, <1>5

\* In a plan that compiles, the order has every node.
LEMMA OrderComplete ==
    ASSUME NEW name \in DOMAIN GraphPlans, CompileGraph(name)
    PROVE  /\ OrderFine(GraphPlans[name], PlanOrder[name])
           /\ \A n \in ToSet(GraphPlans[name].nodes) :
                 \E i \in 1 .. Len(PlanOrder[name]) : PlanOrder[name][i] = n
<1>1. PICK p : p = GraphPlans[name]
    OBVIOUS
<1>2. PICK s : s = PlanOrder[name]
    OBVIOUS
<1>3. p.nodes \in Seq(ToSet(p.nodes))
    BY <1>1, GraphJobsAssumption
<1>4. s = GraphOrder(p)
    BY <1>1, <1>2 DEF PlanOrder
<1>5. OrderFine(p, s)
    BY <1>3, <1>4, OrdersNodes
<1>6. Cardinality(ToSet(p.nodes)) = Len(p.nodes) /\ Len(s) = Len(p.nodes)
    BY <1>1, <1>2 DEF CompileGraph, NodesDeclared
<1>7. Len(s) \in Nat /\ DOMAIN s = 1 .. Len(s) /\ s \in [1 .. Len(s) -> ToSet(p.nodes)]
    BY <1>5 DEF OrderFine
<1>8. IsFiniteSet(ToSet(p.nodes))
    <2>1. Len(p.nodes) \in Nat /\ p.nodes \in [1 .. Len(p.nodes) -> ToSet(p.nodes)]
          /\ DOMAIN p.nodes = 1 .. Len(p.nodes)
        BY <1>3
    <2>2. p.nodes \in Surjection(1 .. Len(p.nodes), ToSet(p.nodes))
        BY <2>1 DEF Surjection, ToSet
    <2>3. IsFiniteSet(1 .. Len(p.nodes))
        BY <2>1, FS_Interval
    <2> QED BY <2>2, <2>3, FS_Surjection
<1>9. s \in Injection(1 .. Len(s), ToSet(p.nodes))
    BY <1>5, <1>7 DEF OrderFine, Injection, IsInjective
<1>10. Cardinality(1 .. Len(s)) = Len(s)
    BY SMTT(30), <1>7, FS_Interval
<1>11. s \in Surjection(1 .. Len(s), ToSet(p.nodes))
    BY <1>6, <1>8, <1>9, <1>10, FS_Injection
<1>12. \A n \in ToSet(p.nodes) : \E i \in 1 .. Len(s) : s[i] = n
    BY <1>11 DEF Surjection
<1> QED BY <1>1, <1>2, <1>5, <1>12

----------------------------------------------------------------------------
(* The rows of a generation *)

LEMMA NamesOfPlans ==
    ASSUME NEW name \in DOMAIN GraphPlans
    PROVE  ToSet(GraphPlans[name].nodes) \subseteq GraphNames
BY DEF GraphNames

LEMMA EdgesNamed ==
    ASSUME NEW name \in DOMAIN GraphPlans, CompileGraph(name)
    PROVE  \A n : \A e \in GraphEdges(GraphPlans[name], n) : e.from \in GraphNames
<1>1. \A e \in GraphPlans[name].edges : e.from \in ToSet(GraphPlans[name].nodes)
    BY DEF CompileGraph, EdgesDeclared
<1> QED BY <1>1, NamesOfPlans DEF GraphEdges

\* Rows that settled stay, and with them what the edges say of a node.
LEMMA EdgesStay ==
    ASSUME NEW p, NEW rows, NEW new, NEW n,
           \A e \in GraphEdges(p, n) : e.from \in GraphNames,
           \A m \in GraphNames : Settled(rows[m]) => new[m] = rows[m]
    PROVE  /\ On(p, rows, n) => On(p, new, n)
           /\ Off(p, rows, n) => Off(p, new, n)
<1>1. \A e \in GraphEdges(p, n) : Settled(rows[e.from]) => new[e.from] = rows[e.from]
    OBVIOUS
<1>2. \A e \in GraphEdges(p, n) : EdgeOff(rows[e.from], e) => Settled(rows[e.from])
    BY DEF EdgeOff, Settled
<1>3. ASSUME On(p, rows, n) PROVE On(p, new, n)
    BY <1>1, <1>3 DEF On
<1>4. ASSUME Off(p, rows, n) PROVE Off(p, new, n)
    <2>1. \A e \in GraphEdges(p, n) : EdgeOff(rows[e.from], e) => EdgeOff(new[e.from], e)
        BY <1>1, <1>2
    <2> QED BY <1>4, <2>1 DEF Off
<1> QED BY <1>3, <1>4

LEMMA RowsKeep ==
    ASSUME NEW name \in DOMAIN GraphPlans, CompileGraph(name), NEW p, p = GraphPlans[name],
           NEW rows, NEW adms, RowsOK(p, rows, adms), NEW new, NEW next,
           \A n \in GraphNames : Settled(rows[n]) => new[n] = rows[n],
           \A n \in GraphNames : RowOK(new[n], next[n]),
           \A n \in GraphNames : n \notin ToSet(p.nodes) => new[n] = NoNode,
           \A n \in GraphNames : n \in ToSet(p.nodes) /\ new[n].state = "SKIPPED" =>
               rows[n].state = "SKIPPED" \/ Off(p, rows, n),
           \A n \in GraphNames :
               n \in ToSet(p.nodes) /\ (new[n].task # "none" \/ new[n].state = "SUCCEEDED") =>
               rows[n].task # "none" \/ rows[n].state = "SUCCEEDED" \/ On(p, rows, n)
    PROVE  RowsOK(p, new, next)
<1>1. ASSUME NEW n \in GraphNames, n \in ToSet(p.nodes)
      PROVE  /\ new[n].state = "SKIPPED" => Off(p, new, n)
             /\ new[n].task # "none" \/ new[n].state = "SUCCEEDED" => On(p, new, n)
    <2>1. /\ rows[n].state = "SKIPPED" => Off(p, rows, n)
          /\ rows[n].task # "none" \/ rows[n].state = "SUCCEEDED" => On(p, rows, n)
        BY <1>1 DEF RowsOK
    <2>2. /\ On(p, rows, n) => On(p, new, n)
          /\ Off(p, rows, n) => Off(p, new, n)
        BY EdgesNamed, EdgesStay
    <2> QED BY <1>1, <2>1, <2>2
<1> QED BY <1>1 DEF RowsOK

\* The rows as the Tasks show them.
LEMMA SeenRow ==
    ASSUME NEW r, NEW a, RowOK(r, a)
    PROVE  /\ RowOK(NodeSeen(r), a) /\ NodeSeen(r).task = r.task
           /\ Settled(r) => NodeSeen(r) = r
           /\ NodeSeen(r).state = "SKIPPED" => r.state = "SKIPPED"
           /\ NodeSeen(r).state = "SUCCEEDED" => r.state = "SUCCEEDED" \/ r.task # "none"
           /\ r = NoNode => NodeSeen(r) = r
<1>1. PICK s : s = (IF r.task \in {"FAILED", "CANCELED", "RUNNING"} THEN r.task
                    ELSE IF r.task = "SUCCEEDED" /\ r.out # "" THEN "SUCCEEDED" ELSE r.state)
    OBVIOUS
<1>2. r \in NodeRow
    BY DEF RowOK
<1>3. NodeSeen(r) = [r EXCEPT !.state = s]
    BY <1>1, <1>2 DEF NodeSeen, NodeRow
<1>4. s \in {"BLOCKED", "READY", "RUNNING", "SKIPPED"} \cup GraphTerminal
    BY <1>1, <1>2 DEF NodeRow, GraphTerminal
<1>5. PICK x : x = [r EXCEPT !.state = s]
    OBVIOUS
<1>6. x \in NodeRow /\ x.task = r.task /\ x.out = r.out /\ x.state = s
    BY <1>2, <1>4, <1>5 DEF NodeRow
<1>7. r = [state |-> r.state, task |-> r.task, out |-> r.out] /\ (s = r.state => x = r)
    BY <1>2, <1>5 DEF NodeRow
<1>8. /\ s = "BLOCKED" => r.state = "BLOCKED"
      /\ s = "SKIPPED" => r.state = "SKIPPED"
      /\ s = "SUCCEEDED" => r.state = "SUCCEEDED" \/ (r.task = "SUCCEEDED" /\ r.out # "")
    BY <1>1
<1>9. Settled(r) => s = r.state
    BY <1>1 DEF Settled, RowOK
<1>10. RowOK(x, a)
    BY <1>6, <1>8 DEF RowOK
<1>11. r = NoNode => s = r.state
    <2>1. NoNode.task = "none"
        BY DEF NoNode
    <2>2. r = NoNode => r.task = "none"
        BY ONLY <2>1
    <2> QED BY <1>1, <2>2
<1> QED BY <1>3, <1>5, <1>6, <1>7, <1>8, <1>9, <1>10, <1>11

\* stopGraphTx on a row.
LEMMA StopRow ==
    ASSUME NEW r, NEW a, RowOK(r, a)
    PROVE  /\ RowOK(StopNode(r), a) /\ StopNode(r).task # "QUEUED"
           /\ Settled(r) => StopNode(r) = r
           /\ StopNode(r).state = "SKIPPED" => r.state = "SKIPPED"
           /\ StopNode(r).state = "SUCCEEDED" => r.state = "SUCCEEDED"
           /\ StopNode(r).task # "none" => r.task # "none"
<1>1. r \in NodeRow /\ r = [state |-> r.state, task |-> r.task, out |-> r.out]
    BY DEF RowOK, NodeRow
<1>2. r.task \in {"none", "QUEUED", "RUNNING", "CANCELING", "RECONCILING"} \cup GraphTerminal
    BY <1>1 DEF NodeRow
<1>3. CASE r.task = "none"
    <2>1. PICK s : s = IF r.state \in {"SUCCEEDED", "SKIPPED"} THEN r.state ELSE "CANCELED"
        OBVIOUS
    <2>2. StopNode(r) = [r EXCEPT !.state = IF @ \in {"SUCCEEDED", "SKIPPED"} THEN @ ELSE "CANCELED"]
        BY <1>3, Zenon DEF StopNode, LiveTask
    <2>3. StopNode(r) = [r EXCEPT !.state = s]
        BY <1>1, <2>1, <2>2 DEF NodeRow
    <2>4. PICK x : x = [r EXCEPT !.state = s]
        OBVIOUS
    <2>5. x \in NodeRow /\ x.task = r.task /\ x.out = r.out /\ x.state = s
        BY <1>1, <2>1, <2>4 DEF NodeRow, GraphTerminal
    <2>6. s = r.state => x = r
        BY <1>1, <2>4
    <2>7. RowOK(x, a)
        BY <1>3, <2>1, <2>5 DEF RowOK
    <2> QED BY <1>3, <2>1, <2>3, <2>4, <2>5, <2>6, <2>7 DEF Settled
<1>4. CASE r.task = "QUEUED"
    <2>1. StopNode(r) = [r EXCEPT !.state = "CANCELED", !.task = "CANCELED"]
        BY <1>4, Zenon DEF StopNode, LiveTask
    <2>2. PICK x : x = [r EXCEPT !.state = "CANCELED", !.task = "CANCELED"]
        OBVIOUS
    <2>3. x \in NodeRow /\ x.task = "CANCELED" /\ x.out = r.out /\ x.state = "CANCELED"
        BY <1>1, <2>2 DEF NodeRow, GraphTerminal
    <2>4. RowOK(x, a) /\ ~Settled(r)
        BY <1>4, <2>3 DEF RowOK, Settled
    <2> QED BY <1>4, <2>1, <2>2, <2>3, <2>4
<1>5. CASE r.task \in LiveTask
    <2>1. StopNode(r) = [r EXCEPT !.task = "CANCELING"]
        <3>1. r.task # "none" /\ r.task # "QUEUED" /\ r.task \notin {"FAILED", "CANCELED"}
            BY <1>5 DEF LiveTask
        <3> QED BY <1>5, <3>1, Zenon DEF StopNode
    <2>2. PICK x : x = [r EXCEPT !.task = "CANCELING"]
        OBVIOUS
    <2>3. x \in NodeRow /\ x.task = "CANCELING" /\ x.out = r.out /\ x.state = r.state
        BY <1>1, <2>2 DEF NodeRow
    <2>4. RowOK(x, a) /\ ~Settled(r)
        BY <1>5, <2>3 DEF RowOK, Settled, LiveTask
    <2>5. r.task # "none"
        BY <1>5 DEF LiveTask
    <2> QED BY <1>5, <2>1, <2>2, <2>3, <2>4, <2>5
<1>6. CASE r.task \in {"FAILED", "CANCELED"}
    <2>1. StopNode(r) = [r EXCEPT !.state = r.task]
        <3>1. r.task # "none" /\ r.task # "QUEUED" /\ r.task \notin LiveTask
            BY <1>6 DEF LiveTask
        <3> QED BY <1>6, <3>1, Zenon DEF StopNode
    <2>2. PICK x : x = [r EXCEPT !.state = r.task]
        OBVIOUS
    <2>3. x \in NodeRow /\ x.task = r.task /\ x.out = r.out /\ x.state = r.task
        BY <1>1, <1>6, <2>2 DEF NodeRow, GraphTerminal
    <2>4. RowOK(x, a) /\ ~Settled(r)
        BY <1>6, <2>3 DEF RowOK, Settled
    <2> QED BY <1>6, <2>1, <2>2, <2>3, <2>4
<1>7. CASE r.task = "SUCCEEDED"
    <2>1. StopNode(r) = r
        <3>1. /\ r.task # "none" /\ r.task # "QUEUED" /\ r.task \notin LiveTask
              /\ r.task \notin {"FAILED", "CANCELED"}
            BY <1>7 DEF LiveTask
        <3> QED BY <3>1, Zenon DEF StopNode
    <2> QED BY <1>7, <2>1
<1> QED BY <1>2, <1>3, <1>4, <1>5, <1>6, <1>7 DEF GraphTerminal, LiveTask

----------------------------------------------------------------------------
(* The advance of a generation *)

\* The states of a tick as it goes through the nodes, in the order s.
Turns(f, g, fits, start, s) ==
    f = [i \in 0 .. Len(s) |-> IF i = 0 THEN start ELSE ActivateOnce(g, fits, f[i - 1], s[i])]

\* The recursion of ActivateAll has a solution.
LEMMA ActivateRuns ==
    ASSUME NEW g, NEW fits, NEW start, NEW s, s = PlanOrder[gGen[g].plan], Len(s) \in Nat
    PROVE  \E f : Turns(f, g, fits, start, s) /\ ActivateAll(g, fits, start) = f[Len(s)]
<1> DEFINE D(h, m) == [i \in 0 .. m |->
                         IF i = 0 THEN start ELSE ActivateOnce(g, fits, h[i - 1], s[i])]
           S == {m \in Nat : \E h : h = D(h, m)}
<1>1. 0 \in S
    <2>1. [i \in 0 .. 0 |-> start] = D([i \in 0 .. 0 |-> start], 0)
        OBVIOUS
    <2> QED BY <2>1
<1>2. ASSUME NEW m \in Nat, m \in S PROVE m + 1 \in S
    <2>1. PICK h : h = D(h, m)
        BY <1>2
    <2>2. PICK k : k = [i \in 0 .. (m + 1) |->
                          IF i = m + 1 THEN ActivateOnce(g, fits, h[m], s[m + 1]) ELSE h[i]]
        OBVIOUS
    <2>3. ASSUME NEW i \in 0 .. (m + 1)
          PROVE  k[i] = (IF i = 0 THEN start ELSE ActivateOnce(g, fits, k[i - 1], s[i]))
        <3>1. CASE i = m + 1
            BY <2>2, <3>1
        <3>2. CASE i # m + 1 /\ i # 0
            <4>1. i \in 0 .. m /\ i - 1 \in 0 .. m /\ i - 1 # m + 1 /\ i - 1 \in 0 .. (m + 1)
                BY <3>2
            <4>2. k[i] = h[i] /\ k[i - 1] = h[i - 1]
                BY <2>2, <3>2, <4>1
            <4>3. h[i] = ActivateOnce(g, fits, h[i - 1], s[i])
                BY <2>1, <3>2, <4>1
            <4> QED BY <3>2, <4>2, <4>3
        <3>3. CASE i = 0
            <4>1. 0 \in 0 .. m /\ 0 # m + 1
                OBVIOUS
            <4>2. h[0] = start
                BY <2>1, <4>1
            <4> QED BY <2>2, <3>3, <4>1, <4>2
        <3> QED BY <3>1, <3>2, <3>3
    <2>4. k = D(k, m + 1)
        <3>1. k = [i \in 0 .. (m + 1) |-> k[i]]
            BY <2>2
        <3> QED BY <2>3, <3>1
    <2> QED BY <2>4
<1>3. Len(s) \in S
    <2> HIDE DEF S
    <2> QED BY <1>1, <1>2, SetInduction
<1>4. \E h : h = D(h, Len(s))
    BY <1>3
<1> DEFINE run == CHOOSE h : h = D(h, Len(s))
<1>5. run = D(run, Len(s))
    BY <1>4, Zenon
<1>6. ActivateAll(g, fits, start) = run[Len(s)]
    BY Zenon DEF ActivateAll
<1>7. Turns(run, g, fits, start, s)
    BY <1>5, Zenon DEF Turns
<1> QED BY <1>6, <1>7, Zenon

\* Evaluated once or many times, a node's turn has one result.
LEMMA ActivatesOnce ==
    ASSUME NEW g, NEW fits, NEW acc, NEW n
    PROVE  ActivateOnce(g, fits, acc, n) = ActivateNode(g, fits, acc, n)
<1>1. PICK x : x = ActivateNode(g, fits, acc, n)
    OBVIOUS
<1>2. {ActivateNode(g, fits, a, n) : a \in {acc}} = {x}
    BY <1>1
<1>3. (CHOOSE b \in {x} : TRUE) = x
    OBVIOUS
<1> QED BY <1>1, <1>2, <1>3 DEF ActivateOnce

\* The reuse decisions a turn may leave.
Decision(g, acc, n, d) ==
    \/ d = acc.bound
    \/ \E b \in ReuseOffers(g, n), k \in {"REUSE", "RECOMPUTE"} :
           d = acc.bound \cup {[b EXCEPT !.kind = k]}

\* What a node's turn may do.
Turn(g, acc, n, x) ==
    \/ x = acc
    \/ x = [acc EXCEPT !.stop = "CONTEXT_INSUFFICIENT"]
    \/ /\ acc.nodes[n].state = "BLOCKED" /\ Off(PlanOf(g), acc.nodes, n)
       /\ x = [acc EXCEPT !.nodes[n].state = "SKIPPED"]
    \/ /\ acc.nodes[n].state = "BLOCKED" /\ On(PlanOf(g), acc.nodes, n)
       /\ x = [acc EXCEPT !.nodes[n].state = "SUCCEEDED", !.nodes[n].out = "PASS"]
    \/ \E d : /\ Decision(g, acc, n, d)
              /\ x = [acc EXCEPT !.bound = d]
    \/ \E d : /\ Decision(g, acc, n, d)
              /\ acc.nodes[n].state = "BLOCKED" /\ On(PlanOf(g), acc.nodes, n)
              /\ x = [acc EXCEPT !.nodes[n].state = "READY", !.nodes[n].task = "QUEUED",
                                 !.room = @ - 1, !.bound = d]
    \/ \E d, b : /\ Decision(g, acc, n, d) /\ b \in ReuseOffers(g, n)
                 /\ acc.nodes[n].state = "BLOCKED" /\ On(PlanOf(g), acc.nodes, n)
                 /\ x = [acc EXCEPT !.nodes[n].state = "SUCCEEDED",
                                    !.nodes[n].out = b.out, !.bound = d]

LEMMA ActivateShape ==
    ASSUME NEW g, NEW fits, NEW acc, NEW n, NEW x, x = ActivateNode(g, fits, acc, n)
    PROVE  Turn(g, acc, n, x)
<1> DEFINE p == PlanOf(g)
           r == acc.nodes[n]
           in == GraphEdges(p, n)
           lenient == p.kind[n] = "selected"
           parent(e) == acc.nodes[e.from]
           waits(e) == parent(e).state \notin {"SKIPPED", "SUCCEEDED"}
           skip == ~lenient /\ \E e \in in : EdgeOff(parent(e), e)
           ready == \A e \in in : ~waits(e)
           none == lenient /\ \A e \in in : EdgeOff(parent(e), e)
           offer == ReuseOffers(g, n)
           fresh == offer # {} /\ ~Decided(acc.bound, g, n)
           b == CHOOSE o \in offer : TRUE
           reuse == fresh /\ ReuseHolds(g, acc.nodes, n, b)
           decided == IF fresh
                      THEN acc.bound \cup {[b EXCEPT !.kind = IF reuse THEN "REUSE" ELSE "RECOMPUTE"]}
                      ELSE acc.bound
           gate == p.kind[n] \in {"all", "selected"}
<1>1. x = (IF acc.stop # "" \/ r.state # "BLOCKED" \/ (~ready /\ ~skip) THEN acc
           ELSE IF skip \/ none THEN [acc EXCEPT !.nodes[n].state = "SKIPPED"]
           ELSE IF gate
                THEN [acc EXCEPT !.nodes[n].state = "SUCCEEDED", !.nodes[n].out = "PASS"]
           ELSE IF ~fits THEN [acc EXCEPT !.stop = "CONTEXT_INSUFFICIENT"]
           ELSE IF reuse THEN [acc EXCEPT !.nodes[n].state = "SUCCEEDED",
                                          !.nodes[n].out = b.out, !.bound = decided]
           ELSE IF acc.room = 0 THEN [acc EXCEPT !.bound = decided]
           ELSE [acc EXCEPT !.nodes[n].state = "READY", !.nodes[n].task = "QUEUED",
                            !.room = @ - 1, !.bound = decided])
    BY Zenon DEF ActivateNode
<1>2. skip \/ none => Off(p, acc.nodes, n)
    BY DEF Off
<1>3. ready /\ ~skip /\ ~none => On(p, acc.nodes, n)
    BY DEF On, Settled
<1>4. fresh => b \in offer
    OBVIOUS
<1>5. Decision(g, acc, n, decided)
    <2>1. CASE fresh
        <3>1. (IF reuse THEN "REUSE" ELSE "RECOMPUTE") \in {"REUSE", "RECOMPUTE"}
            OBVIOUS
        <3>2. decided = acc.bound \cup {[b EXCEPT !.kind = IF reuse THEN "REUSE" ELSE "RECOMPUTE"]}
            BY <2>1
        <3> HIDE DEF reuse, decided, b, offer
        <3>3. b \in ReuseOffers(g, n)
            BY <1>4, <2>1 DEF offer
        <3> QED BY <3>1, <3>2, <3>3 DEF Decision
    <2>2. CASE ~fresh
        BY <2>2 DEF Decision
    <2> QED BY <2>1, <2>2
<1>6. reuse => b \in ReuseOffers(g, n)
    BY <1>4
<1> HIDE DEF skip, none, ready, reuse, decided, b, gate
<1> QED BY <1>1, <1>2, <1>3, <1>5, <1>6, Zenon DEF Turn

\* The rows and the decisions as a tick goes through the nodes.
AccFine(g, acc) ==
    /\ acc = [nodes |-> acc.nodes, bound |-> acc.bound, room |-> acc.room, stop |-> acc.stop]
    /\ acc.nodes \in [GraphNames -> NodeRow]
    /\ RowsOK(PlanOf(g), acc.nodes, gAdm[g])
    /\ \A b \in acc.bound : BoundFine(b)
    /\ acc.stop \in {"", "CONTEXT_INSUFFICIENT"}

LEMMA BlockedAdmission ==
    ASSUME NEW r, NEW a, RowOK(r, a), r.state = "BLOCKED"
    PROVE  r.task = "none" /\ r.out = "" /\ a.state = "none"
BY DEF RowOK

\* One row of a generation changes, from BLOCKED.
LEMMA RowTurns ==
    ASSUME NEW name \in DOMAIN GraphPlans, CompileGraph(name), NEW p, p = GraphPlans[name],
           NEW rows \in [GraphNames -> NodeRow], NEW adms, RowsOK(p, rows, adms),
           NEW n \in ToSet(p.nodes), rows[n].state = "BLOCKED", NEW r, RowOK(r, adms[n]),
           r.state = "SKIPPED" => Off(p, rows, n),
           r.task # "none" \/ r.state = "SUCCEEDED" => On(p, rows, n)
    PROVE  /\ [rows EXCEPT ![n] = r] \in [GraphNames -> NodeRow]
           /\ RowsOK(p, [rows EXCEPT ![n] = r], adms)
<1>1. PICK new : new = [rows EXCEPT ![n] = r]
    OBVIOUS
<1>2. n \in GraphNames
    BY NamesOfPlans
<1>3. new[n] = r /\ \A m \in GraphNames : m # n => new[m] = rows[m]
    BY <1>1, <1>2
<1>4. r \in NodeRow
    BY DEF RowOK
<1>5. new \in [GraphNames -> NodeRow]
    BY <1>1, <1>2, <1>4
<1>6. \A m \in GraphNames : Settled(rows[m]) => new[m] = rows[m]
    BY <1>3 DEF Settled
<1>7. \A m \in GraphNames : RowOK(rows[m], adms[m])
    BY DEF RowsOK
<1>8. \A m \in GraphNames : RowOK(new[m], adms[m])
    BY <1>3, <1>7
<1>9. \A m \in GraphNames : m \notin ToSet(p.nodes) => new[m] = NoNode
    BY <1>3 DEF RowsOK
<1>10. \A m \in GraphNames : m \in ToSet(p.nodes) /\ new[m].state = "SKIPPED" =>
           rows[m].state = "SKIPPED" \/ Off(p, rows, m)
    BY <1>3
<1>11. \A m \in GraphNames :
           m \in ToSet(p.nodes) /\ (new[m].task # "none" \/ new[m].state = "SUCCEEDED") =>
           rows[m].task # "none" \/ rows[m].state = "SUCCEEDED" \/ On(p, rows, m)
    BY <1>3
<1>12. RowsOK(p, new, adms)
    BY <1>6, <1>8, <1>9, <1>10, <1>11, RowsKeep
<1> QED BY <1>1, <1>5, <1>12

LEMMA BoundDecides ==
    ASSUME NEW g, NEW acc, AccFine(g, acc), NEW n, NEW d, Decision(g, acc, n, d),
           \A b \in gBound : BoundFine(b)
    PROVE  \A b \in d : BoundFine(b)
<1>1. \A b \in acc.bound : BoundFine(b)
    BY DEF AccFine
<1>2. ASSUME NEW b \in ReuseOffers(g, n), NEW k \in {"REUSE", "RECOMPUTE"}
      PROVE  BoundFine([b EXCEPT !.kind = k])
    <2>1. BoundFine(b) /\ b.kind = "offer"
        BY DEF ReuseOffers
    <2>2. PICK c : c = [b EXCEPT !.kind = k]
        OBVIOUS
    <2>3. b \in [kind : {"import", "offer", "REUSE", "RECOMPUTE"}, gen : GraphGens,
                 node : GraphNames, source : GraphGens, from : GraphNames,
                 revision : 0 .. MaxRevisions, out : Verdicts \cup {""}, key : {b.key}]
        BY <2>1 DEF BoundFine
    <2>4. c = [kind |-> k, gen |-> b.gen, node |-> b.node, source |-> b.source,
               from |-> b.from, revision |-> b.revision, out |-> b.out, key |-> b.key]
        BY <2>2, <2>3
    <2>5. /\ c.gen = b.gen /\ c.node = b.node /\ c.source = b.source /\ c.from = b.from
          /\ c.revision = b.revision /\ c.out = b.out /\ c.key = b.key /\ c.kind = k
        BY <2>4
    <2>6. c \in [kind : {"import", "offer", "REUSE", "RECOMPUTE"}, gen : GraphGens,
                 node : GraphNames, source : GraphGens, from : GraphNames,
                 revision : 0 .. MaxRevisions, out : Verdicts \cup {""}, key : {c.key}]
        BY <2>3, <2>4, <2>5
    <2>7. BoundFine(c)
        BY <2>1, <2>5, <2>6 DEF BoundFine
    <2> QED BY <2>2, <2>7
<1>3. CASE d = acc.bound
    BY <1>1, <1>3
<1>4. ASSUME NEW b \in ReuseOffers(g, n), NEW k \in {"REUSE", "RECOMPUTE"},
             d = acc.bound \cup {[b EXCEPT !.kind = k]}
      PROVE  \A c \in d : BoundFine(c)
    BY <1>1, <1>2, <1>4
<1> QED BY <1>3, <1>4 DEF Decision

\* A node's turn keeps the rows and the decisions right.
LEMMA TurnFine ==
    ASSUME NEW g, NEW fits, NEW acc, AccFine(g, acc), NEW n,
           gGen[g].plan \in DOMAIN GraphPlans, CompileGraph(gGen[g].plan),
           n \in ToSet(PlanOf(g).nodes), \A b \in gBound : BoundFine(b)
    PROVE  AccFine(g, ActivateNode(g, fits, acc, n))
<1>1. PICK x : x = ActivateNode(g, fits, acc, n)
    OBVIOUS
<1>0. SUFFICES AccFine(g, x)
    BY <1>1
<1>2. PICK name : name = gGen[g].plan
    OBVIOUS
<1>3. PICK p : p = PlanOf(g)
    OBVIOUS
<1>4. p = GraphPlans[name] /\ name \in DOMAIN GraphPlans /\ CompileGraph(name) /\ n \in ToSet(p.nodes)
    BY <1>2, <1>3 DEF PlanOf
<1>5. n \in GraphNames
    BY <1>4, NamesOfPlans
<1>6. PICK rows : rows = acc.nodes
    OBVIOUS
<1>7. PICK r : r = rows[n]
    OBVIOUS
<1>30. PICK bound, room, stop : bound = acc.bound /\ room = acc.room /\ stop = acc.stop
    OBVIOUS
<1>8. /\ rows \in [GraphNames -> NodeRow] /\ RowsOK(p, rows, gAdm[g])
      /\ acc = [nodes |-> rows, bound |-> bound, room |-> room, stop |-> stop]
      /\ stop \in {"", "CONTEXT_INSUFFICIENT"} /\ \A b \in bound : BoundFine(b)
    BY <1>3, <1>6, <1>30 DEF AccFine
<1>9. RowOK(r, gAdm[g][n]) /\ r \in NodeRow
    BY <1>5, <1>7, <1>8 DEF RowsOK
<1>11. r.state = "BLOCKED" =>
           /\ r.task = "none" /\ r.out = ""
           /\ gAdm[g][n].state = "none"
    BY <1>9, BlockedAdmission
<1>12. ASSUME NEW new, NEW d, NEW k, r.state = "BLOCKED",
              RowOK(new, gAdm[g][n]),
              new.state = "SKIPPED" => Off(p, rows, n),
              new.task # "none" \/ new.state = "SUCCEEDED" => On(p, rows, n),
              \A b \in d : BoundFine(b),
              x = [nodes |-> [rows EXCEPT ![n] = new], bound |-> d, room |-> k, stop |-> stop]
       PROVE  AccFine(g, x)
    <2>1. /\ [rows EXCEPT ![n] = new] \in [GraphNames -> NodeRow]
          /\ RowsOK(p, [rows EXCEPT ![n] = new], gAdm[g])
        BY <1>4, <1>7, <1>8, <1>12, RowTurns
    <2>2. /\ x.nodes = [rows EXCEPT ![n] = new] /\ x.bound = d /\ x.room = k
          /\ x.stop = stop
        BY <1>12
    <2>3. x = [nodes |-> x.nodes, bound |-> x.bound, room |-> x.room, stop |-> x.stop]
        BY <1>12, <2>2
    <2> QED BY <1>3, <1>8, <1>12, <2>1, <2>2, <2>3 DEF AccFine
<1>13. CASE x = acc
    BY <1>13
<1>14. CASE x = [acc EXCEPT !.stop = "CONTEXT_INSUFFICIENT"]
    <2>1. x = [nodes |-> rows, bound |-> bound, room |-> room, stop |-> "CONTEXT_INSUFFICIENT"]
        BY ONLY <1>8, <1>14
    <2>2. /\ x.nodes = rows /\ x.bound = bound /\ x.stop = "CONTEXT_INSUFFICIENT"
          /\ x = [nodes |-> x.nodes, bound |-> x.bound, room |-> x.room, stop |-> x.stop]
        BY <2>1
    <2> QED BY <1>3, <1>8, <2>2 DEF AccFine
<1>15. CASE /\ acc.nodes[n].state = "BLOCKED" /\ Off(PlanOf(g), acc.nodes, n)
            /\ x = [acc EXCEPT !.nodes[n].state = "SKIPPED"]
    <2>1. PICK new : new = [r EXCEPT !.state = "SKIPPED"]
        OBVIOUS
    <2>2. r.state = "BLOCKED" /\ Off(p, rows, n)
        BY <1>3, <1>6, <1>7, <1>15
    <2>3. new.state = "SKIPPED" /\ new.task = "none" /\ new.out = "" /\ new \in NodeRow
        BY <1>9, <1>11, <2>1, <2>2 DEF NodeRow, GraphTerminal, Verdicts
    <2>4. x = [nodes |-> [rows EXCEPT ![n] = new], bound |-> bound, room |-> room, stop |-> stop]
        BY ONLY <1>5, <1>7, <1>8, <1>15, <2>1
    <2>5. RowOK(new, gAdm[g][n])
        BY <1>11, <2>2, <2>3 DEF RowOK
    <2> QED BY <1>8, <1>12, <2>2, <2>3, <2>4, <2>5
<1>16. CASE /\ acc.nodes[n].state = "BLOCKED" /\ On(PlanOf(g), acc.nodes, n)
            /\ x = [acc EXCEPT !.nodes[n].state = "SUCCEEDED", !.nodes[n].out = "PASS"]
    <2>1. PICK new : new = [[r EXCEPT !.state = "SUCCEEDED"] EXCEPT !.out = "PASS"]
        OBVIOUS
    <2>2. r.state = "BLOCKED" /\ On(p, rows, n)
        BY <1>3, <1>6, <1>7, <1>16
    <2>3. new.state = "SUCCEEDED" /\ new.task = "none" /\ new.out = "PASS" /\ new \in NodeRow
        BY <1>9, <1>11, <2>1, <2>2 DEF NodeRow, GraphTerminal, Verdicts
    <2>4. x = [nodes |-> [rows EXCEPT ![n] = new], bound |-> bound, room |-> room, stop |-> stop]
        BY ONLY <1>5, <1>7, <1>8, <1>16, <2>1
    <2>5. RowOK(new, gAdm[g][n])
        BY <1>11, <2>2, <2>3 DEF RowOK
    <2> QED BY <1>8, <1>12, <2>2, <2>3, <2>4, <2>5
<1>17. ASSUME NEW d, Decision(g, acc, n, d), x = [acc EXCEPT !.bound = d]
       PROVE  AccFine(g, x)
    <2>1. x = [nodes |-> rows, bound |-> d, room |-> room, stop |-> stop]
        BY ONLY <1>8, <1>17
    <2>2. /\ x.nodes = rows /\ x.bound = d /\ x.stop = stop
          /\ x = [nodes |-> x.nodes, bound |-> x.bound, room |-> x.room, stop |-> x.stop]
        BY <2>1
    <2>3. \A b \in d : BoundFine(b)
        BY <1>17, BoundDecides
    <2> QED BY <1>3, <1>8, <2>2, <2>3 DEF AccFine
<1>18. ASSUME NEW d, Decision(g, acc, n, d),
              acc.nodes[n].state = "BLOCKED", On(PlanOf(g), acc.nodes, n),
              x = [acc EXCEPT !.nodes[n].state = "READY", !.nodes[n].task = "QUEUED",
                              !.room = @ - 1, !.bound = d]
       PROVE  AccFine(g, x)
    <2>1. PICK new : new = [[r EXCEPT !.state = "READY"] EXCEPT !.task = "QUEUED"]
        OBVIOUS
    <2>2. r.state = "BLOCKED" /\ On(p, rows, n)
        BY <1>3, <1>6, <1>7, <1>18
    <2>3. new.state = "READY" /\ new.task = "QUEUED" /\ new.out = "" /\ new \in NodeRow
        BY <1>9, <1>11, <2>1, <2>2 DEF NodeRow, GraphTerminal, Verdicts
    <2>4. x = [nodes |-> [rows EXCEPT ![n] = new], bound |-> d, room |-> room - 1, stop |-> stop]
        BY ONLY <1>5, <1>7, <1>8, <1>18, <2>1
    <2>5. RowOK(new, gAdm[g][n])
        BY <1>11, <2>2, <2>3 DEF RowOK
    <2>6. \A b \in d : BoundFine(b)
        BY <1>18, BoundDecides
    <2> QED BY <1>12, <2>2, <2>3, <2>4, <2>5, <2>6
<1>19. ASSUME NEW d, NEW b, Decision(g, acc, n, d), b \in ReuseOffers(g, n),
              acc.nodes[n].state = "BLOCKED", On(PlanOf(g), acc.nodes, n),
              x = [acc EXCEPT !.nodes[n].state = "SUCCEEDED", !.nodes[n].out = b.out, !.bound = d]
       PROVE  AccFine(g, x)
    <2>1. PICK new : new = [[r EXCEPT !.state = "SUCCEEDED"] EXCEPT !.out = b.out]
        OBVIOUS
    <2>2. r.state = "BLOCKED" /\ On(p, rows, n)
        BY <1>3, <1>6, <1>7, <1>19
    <2>5. b.out \in Verdicts
        <3>1. BoundFine(b) /\ b.kind = "offer"
            BY <1>19 DEF ReuseOffers
        <3> QED BY <3>1 DEF BoundFine
    <2>3. new.state = "SUCCEEDED" /\ new.task = "none" /\ new.out = b.out /\ new \in NodeRow
        BY <1>9, <1>11, <2>1, <2>2, <2>5 DEF NodeRow, GraphTerminal, Verdicts
    <2>4. x = [nodes |-> [rows EXCEPT ![n] = new], bound |-> d, room |-> room, stop |-> stop]
        BY ONLY <1>5, <1>7, <1>8, <1>19, <2>1
    <2>6. b.out # ""
        BY <2>5 DEF Verdicts
    <2>7. RowOK(new, gAdm[g][n])
        BY <1>11, <2>2, <2>3, <2>5, <2>6 DEF RowOK
    <2>8. \A c \in d : BoundFine(c)
        BY <1>19, BoundDecides
    <2> QED BY <1>12, <2>2, <2>3, <2>4, <2>7, <2>8
<1>20. Turn(g, acc, n, x)
    BY <1>1, ActivateShape
<1> QED BY <1>13, <1>14, <1>15, <1>16, <1>17, <1>18, <1>19, <1>20, Zenon DEF Turn

\* And so does a whole tick, by induction along the order of the plan.
LEMMA TurnsFine ==
    ASSUME NEW g, NEW fits, NEW start, AccFine(g, start),
           gGen[g].plan \in DOMAIN GraphPlans, CompileGraph(gGen[g].plan),
           \A b \in gBound : BoundFine(b)
    PROVE  AccFine(g, ActivateAll(g, fits, start))
<1>1. PICK name : name = gGen[g].plan
    OBVIOUS
<1>2. PICK s : s = PlanOrder[name]
    OBVIOUS
<1>3. OrderFine(GraphPlans[name], s)
    BY <1>1, <1>2, OrderComplete
<1>4. Len(s) \in Nat /\ \A i \in 1 .. Len(s) : s[i] \in ToSet(PlanOf(g).nodes)
    <2>1. PICK N : N = ToSet(GraphPlans[name].nodes)
        OBVIOUS
    <2>2. s \in Seq(N)
        BY <1>3, <2>1 DEF OrderFine
    <2>3. ToSet(PlanOf(g).nodes) = N
        BY <1>1, <2>1 DEF PlanOf
    <2> QED BY <2>2, <2>3
<1>5. s = PlanOrder[gGen[g].plan]
    BY <1>1, <1>2
<1>6. PICK f : Turns(f, g, fits, start, s) /\ ActivateAll(g, fits, start) = f[Len(s)]
    BY <1>4, <1>5, ActivateRuns
<1> DEFINE S == {i \in Nat : i <= Len(s) => AccFine(g, f[i])}
<1>7. 0 \in S
    <2>1. f[0] = start
        BY <1>4, <1>6 DEF Turns
    <2> QED BY <2>1
<1>8. ASSUME NEW i \in Nat, i \in S PROVE i + 1 \in S
    <2>1. SUFFICES ASSUME i + 1 <= Len(s) PROVE AccFine(g, f[i + 1])
        OBVIOUS
    <2>2. AccFine(g, f[i])
        BY <1>4, <1>8, <2>1
    <2>3. i + 1 \in 0 .. Len(s) /\ i + 1 # 0 /\ (i + 1) - 1 = i /\ i + 1 \in 1 .. Len(s)
        BY <1>4, <2>1
    <2>4. f[i + 1] = ActivateOnce(g, fits, f[i], s[i + 1])
        BY <1>6, <2>3 DEF Turns
    <2>5. f[i + 1] = ActivateNode(g, fits, f[i], s[i + 1])
        BY <2>4, ActivatesOnce
    <2>6. s[i + 1] \in ToSet(PlanOf(g).nodes)
        BY <1>4, <2>3
    <2> QED BY <2>2, <2>5, <2>6, TurnFine
<1>9. Len(s) \in S
    <2> HIDE DEF S
    <2> QED BY <1>4, <1>7, <1>8, SetInduction
<1> QED BY <1>4, <1>6, <1>9

\* What a tick leaves of a generation.
TickFine(g, t) ==
    /\ t.nodes \in [GraphNames -> NodeRow]
    /\ RowsOK(PlanOf(g), t.nodes, gAdm[g])
    /\ \A b \in t.bound : BoundFine(b)
    /\ t.reason \in GraphReasons /\ t.output \in {"", "ok", "stopped"}
    /\ t.job \in {"EXECUTING", "STOPPING"} \cup GraphTerminal
    /\ t.job \in {"FAILED", "CANCELED"} =>
          /\ t.reason # ""
          /\ \A n \in GraphNames : t.nodes[n].task \notin LiveTask \cup {"QUEUED"}
    /\ t.job = "SUCCEEDED" => \A n \in ToSet(PlanOf(g).nodes) : Settled(t.nodes[n])

LEMMA StopFine ==
    ASSUME NEW g, NEW rows \in [GraphNames -> NodeRow], RowsOK(PlanOf(g), rows, gAdm[g]),
           gGen[g].plan \in DOMAIN GraphPlans, CompileGraph(gGen[g].plan),
           NEW bound, \A b \in bound : BoundFine(b), NEW reason \in GraphReasons, reason # ""
    PROVE  TickFine(g, StopGraph(g, rows, bound, reason))
<1>1. PICK name, p : name = gGen[g].plan /\ p = PlanOf(g)
    OBVIOUS
<1>2. p = GraphPlans[name] /\ name \in DOMAIN GraphPlans /\ CompileGraph(name)
    BY <1>1 DEF PlanOf
<1>3. PICK left : left = [n \in GraphNames |->
                            IF n \in ToSet(p.nodes) THEN StopNode(rows[n]) ELSE rows[n]]
    OBVIOUS
<1>4. PICK job, output :
          LET open == \E n \in GraphNames : left[n].task \in LiveTask IN
          /\ job = IF open THEN "STOPPING"
                   ELSE IF reason = "USER_CANCEL" THEN "CANCELED" ELSE "FAILED"
          /\ output = IF open THEN "" ELSE "stopped"
    OBVIOUS
<1>5. PICK t : t = StopGraph(g, rows, bound, reason)
    OBVIOUS
<1>6. t = [nodes |-> left, bound |-> bound, reason |-> reason, job |-> job, output |-> output]
    BY <1>1, <1>3, <1>4, <1>5, Zenon DEF StopGraph
<1>7. t.nodes = left /\ t.bound = bound /\ t.reason = reason /\ t.job = job /\ t.output = output
    BY <1>6
<1>9. NoNode.task = "none"
    BY DEF NoNode
<1>10. ASSUME NEW n \in GraphNames
       PROVE  /\ RowOK(left[n], gAdm[g][n]) /\ left[n].task # "QUEUED"
              /\ Settled(rows[n]) => left[n] = rows[n]
              /\ n \notin ToSet(p.nodes) => left[n] = NoNode
              /\ left[n].state = "SKIPPED" => rows[n].state = "SKIPPED"
              /\ left[n].state = "SUCCEEDED" => rows[n].state = "SUCCEEDED"
              /\ left[n].task # "none" => rows[n].task # "none"
    <2>1. RowOK(rows[n], gAdm[g][n])
        BY <1>1 DEF RowsOK
    <2>2. n \notin ToSet(p.nodes) => rows[n] = NoNode
        BY <1>1 DEF RowsOK
    <2>3. CASE n \in ToSet(p.nodes)
        <3>1. left[n] = StopNode(rows[n])
            BY <1>3, <2>3
        <3> QED BY <2>1, <2>3, <3>1, StopRow
    <2>4. CASE n \notin ToSet(p.nodes)
        <3>1. left[n] = rows[n] /\ rows[n] = NoNode
            BY <1>3, <2>2, <2>4
        <3> QED BY <1>9, <2>1, <3>1
    <2> QED BY <2>3, <2>4
<1>11. left \in [GraphNames -> NodeRow]
    <2>1. \A n \in GraphNames : left[n] \in NodeRow
        BY <1>10 DEF RowOK
    <2>2. left = [n \in GraphNames |-> left[n]]
        BY <1>3
    <2> QED BY <2>1, <2>2
<1>12. RowsOK(p, left, gAdm[g])
    <2>1. RowsOK(p, rows, gAdm[g])
        BY <1>1
    <2> HIDE DEF RowsOK
    <2>2. \A n \in GraphNames : Settled(rows[n]) => left[n] = rows[n]
        BY <1>10
    <2>3. \A n \in GraphNames : RowOK(left[n], gAdm[g][n])
        BY <1>10
    <2>4. \A n \in GraphNames : n \notin ToSet(p.nodes) => left[n] = NoNode
        BY <1>10
    <2>5. \A n \in GraphNames : n \in ToSet(p.nodes) /\ left[n].state = "SKIPPED" =>
               rows[n].state = "SKIPPED" \/ Off(p, rows, n)
        BY <1>10
    <2>6. \A n \in GraphNames :
               n \in ToSet(p.nodes) /\ (left[n].task # "none" \/ left[n].state = "SUCCEEDED") =>
               rows[n].task # "none" \/ rows[n].state = "SUCCEEDED" \/ On(p, rows, n)
        BY <1>10
    <2> QED BY <1>2, <2>1, <2>2, <2>3, <2>4, <2>5, <2>6, RowsKeep
<1>13. /\ output \in {"", "ok", "stopped"} /\ job \in {"STOPPING", "CANCELED", "FAILED"}
       /\ job # "STOPPING" => \A n \in GraphNames : left[n].task \notin LiveTask
    BY <1>4
<1>14. /\ job \in {"EXECUTING", "STOPPING"} \cup GraphTerminal /\ job # "SUCCEEDED"
       /\ job \in {"FAILED", "CANCELED"} =>
             \A n \in GraphNames : left[n].task \notin LiveTask \cup {"QUEUED"}
    BY <1>10, <1>13 DEF GraphTerminal
<1>15. TickFine(g, t)
    BY <1>1, <1>7, <1>11, <1>12, <1>13, <1>14 DEF TickFine
<1> QED BY <1>5, <1>15

LEMMA SeenFine ==
    ASSUME NEW g, NEW room, gNode[g] \in [GraphNames -> NodeRow],
           RowsOK(PlanOf(g), gNode[g], gAdm[g]),
           gGen[g].plan \in DOMAIN GraphPlans, CompileGraph(gGen[g].plan),
           \A b \in gBound : BoundFine(b),
           NEW seen, seen = [n \in GraphNames |-> NodeSeen(gNode[g][n])]
    PROVE  AccFine(g, [nodes |-> seen, bound |-> gBound, room |-> room, stop |-> ""])
<1>1. PICK name, p, rows : name = gGen[g].plan /\ p = PlanOf(g) /\ rows = gNode[g]
    OBVIOUS
<1>2. p = GraphPlans[name] /\ name \in DOMAIN GraphPlans /\ CompileGraph(name)
    BY <1>1 DEF PlanOf
<1>3. RowsOK(p, rows, gAdm[g])
    BY <1>1
<1>4. ASSUME NEW n \in GraphNames
      PROVE  /\ RowOK(seen[n], gAdm[g][n]) /\ seen[n].task = rows[n].task
             /\ Settled(rows[n]) => seen[n] = rows[n]
             /\ n \notin ToSet(p.nodes) => seen[n] = NoNode
             /\ seen[n].state = "SKIPPED" => rows[n].state = "SKIPPED"
             /\ seen[n].state = "SUCCEEDED" => rows[n].state = "SUCCEEDED" \/ rows[n].task # "none"
    <2>1. RowOK(rows[n], gAdm[g][n]) /\ (n \notin ToSet(p.nodes) => rows[n] = NoNode)
        BY <1>3 DEF RowsOK
    <2>2. seen[n] = NodeSeen(rows[n])
        BY <1>1
    <2> QED BY <2>1, <2>2, SeenRow
<1>5. seen \in [GraphNames -> NodeRow]
    <2>1. \A n \in GraphNames : seen[n] \in NodeRow
        BY <1>4 DEF RowOK
    <2>2. seen = [n \in GraphNames |-> seen[n]]
        OBVIOUS
    <2> QED BY <2>1, <2>2
<1>6. RowsOK(p, seen, gAdm[g])
    <2>1. \A n \in GraphNames : Settled(rows[n]) => seen[n] = rows[n]
        BY <1>4
    <2>2. \A n \in GraphNames : RowOK(seen[n], gAdm[g][n])
        BY <1>4
    <2>3. \A n \in GraphNames : n \notin ToSet(p.nodes) => seen[n] = NoNode
        BY <1>4
    <2>4. \A n \in GraphNames : n \in ToSet(p.nodes) /\ seen[n].state = "SKIPPED" =>
               rows[n].state = "SKIPPED" \/ Off(p, rows, n)
        BY <1>4
    <2>5. \A n \in GraphNames :
               n \in ToSet(p.nodes) /\ (seen[n].task # "none" \/ seen[n].state = "SUCCEEDED") =>
               rows[n].task # "none" \/ rows[n].state = "SUCCEEDED" \/ On(p, rows, n)
        BY <1>4
    <2> QED BY <1>2, <1>3, <2>1, <2>2, <2>3, <2>4, <2>5, RowsKeep
<1>7. PICK x : x = [nodes |-> seen, bound |-> gBound, room |-> room, stop |-> ""]
    OBVIOUS
<1>8. /\ x.nodes = seen /\ x.bound = gBound /\ x.room = room /\ x.stop = ""
      /\ x = [nodes |-> x.nodes, bound |-> x.bound, room |-> x.room, stop |-> x.stop]
    BY ONLY <1>7
<1>9. AccFine(g, x)
    BY <1>1, <1>5, <1>6, <1>8 DEF AccFine
<1> QED BY <1>7, <1>9

LEMMA GraphStops ==
    ASSUME NEW g, gGen[g].reason \in GraphReasons
    PROVE  GraphStopReason(g) \in GraphReasons
BY DEF GraphStopReason, GraphReasons

\* advanceGraphTx
LEMMA TicksFine ==
    ASSUME NEW g, NEW room, NEW fits, gNode[g] \in [GraphNames -> NodeRow],
           RowsOK(PlanOf(g), gNode[g], gAdm[g]), gGen[g].reason \in GraphReasons,
           gGen[g].plan \in DOMAIN GraphPlans, CompileGraph(gGen[g].plan),
           \A b \in gBound : BoundFine(b)
    PROVE  TickFine(g, GraphTick(g, room, fits))
<1>1. PICK seen : seen = [n \in GraphNames |-> NodeSeen(gNode[g][n])]
    OBVIOUS
<1>2. PICK start : start = [nodes |-> seen, bound |-> gBound, room |-> room, stop |-> ""]
    OBVIOUS
<1>3. AccFine(g, start)
    BY <1>1, <1>2, SeenFine
<1>4. PICK acc : acc = ActivateAll(g, fits, start)
    OBVIOUS
<1>5. AccFine(g, acc)
    BY <1>3, <1>4, TurnsFine
<1>6. PICK reason : reason = GraphStopReason(g)
    OBVIOUS
<1>7. reason \in GraphReasons
    BY <1>6, GraphStops
<1> DEFINE complete == \A n \in ToSet(PlanOf(g).nodes) :
                          acc.nodes[n].state \in {"SUCCEEDED", "SKIPPED"}
           skipped == \E n \in PlanOf(g).outputs : acc.nodes[n].state # "SUCCEEDED"
<1>8. PICK t : t = GraphTick(g, room, fits)
    OBVIOUS
<1>9. t = IF reason # "" THEN StopGraph(g, seen, gBound, reason)
          ELSE IF acc.stop # "" THEN StopGraph(g, acc.nodes, acc.bound, acc.stop)
          ELSE IF ~complete THEN [nodes |-> acc.nodes, bound |-> acc.bound, reason |-> "",
                                  job |-> "EXECUTING", output |-> ""]
          ELSE IF skipped THEN StopGraph(g, acc.nodes, acc.bound, "GRAPH_OUTPUT_SKIPPED")
          ELSE [nodes |-> acc.nodes, bound |-> acc.bound, reason |-> "",
                job |-> "SUCCEEDED", output |-> "ok"]
    BY <1>1, <1>2, <1>4, <1>6, <1>8, Zenon DEF GraphTick
<1>10. /\ acc.nodes \in [GraphNames -> NodeRow] /\ RowsOK(PlanOf(g), acc.nodes, gAdm[g])
       /\ \A b \in acc.bound : BoundFine(b)
       /\ acc.stop \in {"", "CONTEXT_INSUFFICIENT"}
    BY <1>5 DEF AccFine
<1>11. seen \in [GraphNames -> NodeRow] /\ RowsOK(PlanOf(g), seen, gAdm[g])
    <2>1. start.nodes = seen
        BY <1>2
    <2> QED BY <1>3, <2>1 DEF AccFine
<1>12. ASSUME reason # "" PROVE TickFine(g, t)
    BY <1>7, <1>9, <1>11, <1>12, StopFine
<1>13. ASSUME reason = "", acc.stop # "" PROVE TickFine(g, t)
    <2>1. acc.stop \in GraphReasons
        BY <1>10 DEF GraphReasons
    <2>2. t = StopGraph(g, acc.nodes, acc.bound, acc.stop)
        BY <1>9, <1>13
    <2> QED BY <1>10, <1>13, <2>1, <2>2, StopFine
<1>14. ASSUME reason = "", acc.stop = "", ~complete PROVE TickFine(g, t)
    <2>1. PICK rows, bound : rows = acc.nodes /\ bound = acc.bound
        OBVIOUS
    <2>2. t = [nodes |-> rows, bound |-> bound, reason |-> "", job |-> "EXECUTING", output |-> ""]
        BY <1>9, <1>14, <2>1
    <2>3. t.nodes = rows /\ t.bound = bound /\ t.reason = "" /\ t.job = "EXECUTING" /\ t.output = ""
        BY <2>2
    <2>4. "" \in GraphReasons
        BY DEF GraphReasons
    <2> QED BY <1>10, <2>1, <2>3, <2>4 DEF TickFine
<1>15. ASSUME reason = "", acc.stop = "", complete, skipped PROVE TickFine(g, t)
    <2>1. "GRAPH_OUTPUT_SKIPPED" \in GraphReasons
        BY DEF GraphReasons
    <2>2. t = StopGraph(g, acc.nodes, acc.bound, "GRAPH_OUTPUT_SKIPPED")
        BY <1>9, <1>15
    <2> QED BY <1>10, <2>1, <2>2, StopFine
<1>16. ASSUME reason = "", acc.stop = "", complete, ~skipped PROVE TickFine(g, t)
    <2>1. PICK rows, bound : rows = acc.nodes /\ bound = acc.bound
        OBVIOUS
    <2>2. t = [nodes |-> rows, bound |-> bound, reason |-> "", job |-> "SUCCEEDED", output |-> "ok"]
        BY <1>9, <1>16, <2>1
    <2>3. t.nodes = rows /\ t.bound = bound /\ t.reason = "" /\ t.job = "SUCCEEDED" /\ t.output = "ok"
        BY <2>2
    <2>4. "" \in GraphReasons /\ \A n \in ToSet(PlanOf(g).nodes) : Settled(rows[n])
        BY <1>16, <2>1 DEF GraphReasons, Settled
    <2> QED BY <1>10, <2>1, <2>3, <2>4 DEF TickFine, GraphTerminal
<1>17. TickFine(g, t)
    BY <1>12, <1>13, <1>14, <1>15, <1>16
<1> QED BY <1>8, <1>17

----------------------------------------------------------------------------
(* The steps *)

LEMMA GensAreNaturals ==
    /\ MaxGraphGen \in Nat /\ MaxRevisions \in Nat /\ MaxReads \in Nat
    /\ MaxGraphGen > 0 /\ GraphGens \subseteq Nat
<1>1. MaxGraphGen \in Nat /\ MaxRevisions \in Nat /\ MaxReads \in Nat /\ MaxGraphGen > 0
    BY GraphJobsAssumption
<1> QED BY <1>1 DEF GraphGens

LEMMA GoalTyped ==
    ASSUME GraphTypeOK
    PROVE  /\ gGoal = [state |-> gGoal.state, active |-> gGoal.active]
           /\ gGoal.active \in Nat /\ gGoal.active <= MaxGraphGen
           /\ gGoal.state \in {"none", "GRAPH_READY", "REPLANNING", "EVALUATING",
                               "REPLAN_GUARDING"} \cup GraphTerminal
<1>1. gGoal \in GraphGoalRow
    BY DEF GraphTypeOK
<1> QED BY <1>1, GensAreNaturals DEF GraphGoalRow

\* The active generation is one of the generations.
LEMMA ActiveGen ==
    ASSUME GraphInv, gGoal.state # "none"
    PROVE  gGoal.active \in GraphGens
<1>1. gGoal.active \in Nat /\ gGoal.active <= MaxGraphGen /\ gGoal.active # 0
    BY GoalTyped DEF GraphInv
<1> QED BY <1>1, GensAreNaturals DEF GraphGens

LEMMA GenTyped ==
    ASSUME GraphTypeOK, NEW g \in GraphGens, NEW new \in GenerationRow,
           Len(new.events) <= MaxRevisions, gGen' = [gGen EXCEPT ![g] = new]
    PROVE  /\ gGen' \in [GraphGens -> GenerationRow]
           /\ \A k \in GraphGens : Len(gGen'[k].events) <= MaxRevisions
           /\ gGen'[g] = new
           /\ \A k \in GraphGens : k # g => gGen'[k] = gGen[k]
<1>1. gGen \in [GraphGens -> GenerationRow] /\ \A k \in GraphGens : Len(gGen[k].events) <= MaxRevisions
    BY DEF GraphTypeOK
<1>2. gGen'[g] = new /\ \A k \in GraphGens : k # g => gGen'[k] = gGen[k]
    BY <1>1
<1>3. \A k \in GraphGens : Len(gGen'[k].events) <= MaxRevisions
    BY <1>1, <1>2
<1> QED BY <1>1, <1>2, <1>3

LEMMA RevisionTyped ==
    ASSUME GraphTypeOK, NEW g \in GraphGens
    PROVE  /\ GraphRevision(g) \in Nat /\ GraphRevision(g) <= MaxRevisions
           /\ GraphRevision(g) \in 0 .. MaxRevisions
<1>1. gGen[g] \in GenerationRow /\ Len(gGen[g].events) <= MaxRevisions
    BY DEF GraphTypeOK
<1>2. gGen[g].events \in Seq(EventRow)
    BY <1>1 DEF GenerationRow
<1> QED BY <1>1, <1>2, GensAreNaturals DEF GraphRevision

LEMMA GenStays ==
    ASSUME NEW g \in GraphGens, GenFine(g), gGen'[g] = gGen[g], gNode'[g] = gNode[g],
           gAdm'[g] = gAdm[g], gGoal'.active = gGoal.active
    PROVE  GenFine(g)'
BY DEF GenFine

\* Two lists of events that say the same of the records.
EventsAgree(old, new) ==
    /\ Len(new) = Len(old) /\ DOMAIN new = DOMAIN old
    /\ \A i \in DOMAIN old : new[i].audit = old[i].audit /\ new[i].hit = old[i].hit

LEMMA BoundStays ==
    ASSUME NEW b, BoundFine(b), EventsAgree(gGen[b.source].events, gGen'[b.source].events),
           gGen'[b.source].plan = gGen[b.source].plan,
           b.gen <= gGoal'.active
    PROVE  BoundFine(b)'
<1>1. /\ b \in [kind : {"import", "offer", "REUSE", "RECOMPUTE"}, gen : GraphGens,
                node : GraphNames, source : GraphGens, from : GraphNames,
                revision : 0 .. MaxRevisions, out : Verdicts \cup {""}, key : {b.key}]
      /\ b.source < b.gen /\ (b.kind # "import" => b.out # "")
      /\ GraphRevision(b.source) = b.revision /\ RecordValid(b.source, b.from)
    BY DEF BoundFine
<1>2. GraphRevision(b.source)' = b.revision
    BY <1>1 DEF GraphRevision, EventsAgree
<1>3. RecordValid(b.source, b.from)'
    BY <1>1 DEF RecordValid, EventsAgree
<1> QED BY <1>1, <1>2, <1>3 DEF BoundFine

\* The bindings stay right while the events of their sources stay.
LEMMA BoundsStay ==
    ASSUME GraphInv, gBound' = gBound, gGoal.active <= gGoal'.active, gGoal'.active \in Nat,
           \A k \in GraphGens : k < gGoal.active =>
               /\ EventsAgree(gGen[k].events, gGen'[k].events)
               /\ gGen'[k].plan = gGen[k].plan
    PROVE  \A b \in gBound' : BoundFine(b)'
<1>1. SUFFICES ASSUME NEW b \in gBound PROVE BoundFine(b)'
    OBVIOUS
<1>2. BoundFine(b)
    BY DEF GraphInv
<1>3. /\ b.source \in GraphGens /\ b.node \in GraphNames /\ b.gen \in GraphGens
      /\ b.source < b.gen /\ b.gen <= gGoal.active
    BY <1>2 DEF BoundFine
<1>4. gGoal.active \in Nat /\ b.source \in Nat /\ b.gen \in Nat
    BY <1>3, GoalTyped, GensAreNaturals DEF GraphInv
<1>5. b.source < gGoal.active /\ b.gen <= gGoal'.active
    BY <1>3, <1>4
<1> QED BY <1>2, <1>3, <1>5, BoundStays

LEMMA EventsAgreeSelf ==
    ASSUME NEW s
    PROVE  EventsAgree(s, s)
BY DEF EventsAgree

LEMMA PassStays ==
    ASSUME GraphInv, gGoal'.state = "SUCCEEDED" => gGoal' = gGoal,
           gGoal.state = "SUCCEEDED" =>
               /\ gGen'[gGoal.active].job = gGen[gGoal.active].job
               /\ gGen'[gGoal.active].eval = gGen[gGoal.active].eval
               /\ gGen'[gGoal.active].plan = gGen[gGoal.active].plan
               /\ ~GraphInvalidated(gGoal.active) => ~(\E i \in DOMAIN gGen'[gGoal.active].events :
                                                         ~gGen'[gGoal.active].events[i].audit)
    PROVE  PassFine'
<1>1. SUFFICES ASSUME gGoal'.state = "SUCCEEDED" PROVE PassFine'
    BY DEF PassFine
<1>2. gGoal' = gGoal /\ gGoal.state = "SUCCEEDED"
    BY <1>1
<1>3. PICK a : a = gGoal.active
    OBVIOUS
<1>4. /\ a \in GraphGens /\ gGen[a].job = "SUCCEEDED" /\ gGen[a].eval.verdict = "PASS"
      /\ ~GraphInvalidated(a)
      /\ GraphPlans[gGen[a].plan].coverage => \E r \in gGen[a].eval.cites : r.kind = "coverage"
      /\ \A r \in gGen[a].eval.cites : r.verdict = "PASS" /\ r.gen = a
    BY <1>2, <1>3 DEF GraphInv, PassFine, PlanOf
<1>5. /\ gGen'[a].job = gGen[a].job /\ gGen'[a].eval = gGen[a].eval /\ gGen'[a].plan = gGen[a].plan
      /\ ~(\E i \in DOMAIN gGen'[a].events : ~gGen'[a].events[i].audit)
    BY <1>2, <1>3, <1>4
<1> QED BY <1>2, <1>3, <1>4, <1>5 DEF PassFine, PlanOf, GraphInvalidated

LEMMA GrantStays ==
    ASSUME GrantFine, gGrant' = gGrant
    PROVE  GrantFine'
BY DEF GrantFine

\* Steps that leave generations, nodes, admissions, bindings and the grant.
LEMMA QuietStep ==
    ASSUME GraphInv, gGoal' = gGoal, gGen' = gGen, gNode' = gNode, gAdm' = gAdm,
           gBound' = gBound, gGrant' = gGrant
    PROVE  /\ gGoal'.state = "none" <=> gGoal'.active = 0
           /\ \A g \in GraphGens : GenFine(g)'
           /\ \A b \in gBound' : BoundFine(b)'
           /\ GrantFine' /\ PassFine'
<1>1. \A g \in GraphGens : GenFine(g)'
    BY GenStays DEF GraphInv
<1>2. \A b \in gBound' : BoundFine(b)'
    BY BoundsStay, EventsAgreeSelf, GoalTyped DEF GraphInv
<1>3. GrantFine'
    BY GrantStays DEF GraphInv
<1>4. PassFine'
    BY PassStays DEF GraphInvalidated
<1> QED BY <1>1, <1>2, <1>3, <1>4 DEF GraphInv

LEMMA MoveTyped ==
    ASSUME GraphTypeOK, GraphMove
    PROVE  gMoves' \in Nat
BY DEF GraphTypeOK, GraphMove

LEMMA BeginCoverageStep ==
    ASSUME GraphInv, NEW g \in GraphGens, NEW verdict \in Verdicts, BeginCoverage(g, verdict)
    PROVE  GraphInv'
<1>1. gMoves' \in Nat
    BY MoveTyped DEF GraphInv, BeginCoverage
<1>2. gCovering' \in [gen : GraphGens, revision : 0 .. MaxRevisions, verdict : Verdicts]
    BY RevisionTyped DEF GraphInv, BeginCoverage
<1>3. GraphTypeOK'
    BY <1>1, <1>2 DEF GraphInv, GraphTypeOK, BeginCoverage
<1> QED BY <1>3, QuietStep DEF GraphInv, BeginCoverage

LEMMA ReceiptTyped ==
    ASSUME GraphTypeOK, NEW kind \in {"coverage", "record"}, NEW g \in GraphGens,
           NEW n \in GraphNames \cup {""}, NEW verdict \in Verdicts
    PROVE  Receipt(kind, g, n, verdict) \in ReceiptRow
BY RevisionTyped DEF Receipt, ReceiptRow

LEMMA EndCoverageStep ==
    ASSUME GraphInv, EndCoverage
    PROVE  GraphInv'
<1>1. gCovering \in [gen : GraphGens, revision : 0 .. MaxRevisions, verdict : Verdicts]
    BY DEF GraphInv, GraphTypeOK, EndCoverage
<1>2. Receipt("coverage", gCovering.gen, "", gCovering.verdict) \in ReceiptRow
    BY <1>1, ReceiptTyped DEF GraphInv
<1>3. gReceipts' \subseteq ReceiptRow
    BY <1>2 DEF GraphInv, GraphTypeOK, EndCoverage
<1>4. GraphTypeOK'
    BY <1>3 DEF GraphInv, GraphTypeOK, EndCoverage
<1> QED BY <1>4, QuietStep DEF GraphInv, EndCoverage

LEMMA VerifyRecordStep ==
    ASSUME GraphInv, NEW g \in GraphGens, NEW n \in GraphNames, NEW verdict \in Verdicts,
           VerifyGraphRecord(g, n, verdict)
    PROVE  GraphInv'
<1>1. gMoves' \in Nat
    BY MoveTyped DEF GraphInv, VerifyGraphRecord
<1>2. Receipt("record", g, n, verdict) \in ReceiptRow
    BY ReceiptTyped DEF GraphInv
<1>3. gReceipts' \subseteq ReceiptRow
    BY <1>2 DEF GraphInv, GraphTypeOK, VerifyGraphRecord
<1>4. GraphTypeOK'
    BY <1>1, <1>3 DEF GraphInv, GraphTypeOK, VerifyGraphRecord
<1> QED BY <1>4, QuietStep DEF GraphInv, VerifyGraphRecord

LEMMA ReadSourceStep ==
    ASSUME GraphInv, NEW g \in GraphGens, NEW n \in GraphNames, ReadGraphSource(g, n)
    PROVE  GraphInv'
<1>1. gMoves' \in Nat
    BY MoveTyped DEF GraphInv, ReadGraphSource
<1>2. gReads \in [GraphGens -> [GraphNames -> 0 .. MaxReads]] /\ gReads[g][n] < MaxReads
      /\ gReads' = [gReads EXCEPT ![g][n] = @ + 1]
    BY DEF GraphInv, GraphTypeOK, ReadGraphSource
<1>3. gReads[g][n] + 1 \in 0 .. MaxReads
    BY <1>2, GensAreNaturals
<1>4. gReads' \in [GraphGens -> [GraphNames -> 0 .. MaxReads]]
    BY <1>2, <1>3
<1>5. GraphTypeOK'
    BY <1>1, <1>4 DEF GraphInv, GraphTypeOK, ReadGraphSource
<1> QED BY <1>5, QuietStep DEF GraphInv, ReadGraphSource

LEMMA DeadlineStep ==
    ASSUME GraphInv, GraphDeadline
    PROVE  GraphInv'
<1>1. gMoves' \in Nat
    BY MoveTyped DEF GraphInv, GraphDeadline
<1>2. GraphTypeOK'
    BY <1>1 DEF GraphInv, GraphTypeOK, GraphDeadline
<1> QED BY <1>2, QuietStep DEF GraphInv, GraphDeadline

LEMMA ExpireStep ==
    ASSUME GraphInv, ExpireGraphGoal
    PROVE  GraphInv'
<1>1. gGoal' = [gGoal EXCEPT !.state = "FAILED"] /\ gGoal \in GraphGoalRow
      /\ gGoal.state \in {"EVALUATING", "REPLAN_GUARDING"}
    BY DEF GraphInv, GraphTypeOK, ExpireGraphGoal
<1>2. gGoal' \in GraphGoalRow /\ gGoal'.state = "FAILED" /\ gGoal'.active = gGoal.active
    BY <1>1 DEF GraphGoalRow, GraphTerminal
<1>3. GraphTypeOK'
    BY <1>2 DEF GraphInv, GraphTypeOK, ExpireGraphGoal
<1>4. \A g \in GraphGens : GenFine(g)'
    BY <1>2, GenStays DEF GraphInv, ExpireGraphGoal
<1>5. \A b \in gBound' : BoundFine(b)'
    BY <1>2, BoundsStay, EventsAgreeSelf, GoalTyped DEF GraphInv, ExpireGraphGoal
<1>6. GrantFine'
    BY GrantStays DEF GraphInv, ExpireGraphGoal
<1>7. PassFine'
    BY <1>2 DEF PassFine
<1>8. gGoal'.state = "none" <=> gGoal'.active = 0
    BY <1>1, <1>2 DEF GraphInv
<1> QED BY <1>3, <1>4, <1>5, <1>6, <1>7, <1>8 DEF GraphInv

LEMMA EndImportStep ==
    ASSUME GraphInv, NEW to \in {"REVOKED", "EXPIRED"}, EndGraphImport(to)
    PROVE  GraphInv'
<1>1. gMoves' \in Nat
    BY MoveTyped DEF GraphInv, EndGraphImport
<1>2. gGrant' = [gGrant EXCEPT !.state = to] /\ gGrant \in GrantRow
    BY DEF GraphInv, GraphTypeOK, EndGraphImport
<1>3. gGrant' \in GrantRow /\ gGrant'.state = to
    BY <1>2 DEF GrantRow
<1>4. GraphTypeOK'
    BY <1>1, <1>3 DEF GraphInv, GraphTypeOK, EndGraphImport
<1>5. \A g \in GraphGens : GenFine(g)'
    BY GenStays DEF GraphInv, EndGraphImport
<1>6. \A b \in gBound' : BoundFine(b)'
    BY BoundsStay, EventsAgreeSelf, GoalTyped DEF GraphInv, EndGraphImport
<1>7. GrantFine'
    BY <1>3 DEF GrantFine
<1>8. PassFine'
    BY PassStays DEF GraphInvalidated, EndGraphImport
<1> QED BY <1>4, <1>5, <1>6, <1>7, <1>8 DEF GraphInv, EndGraphImport

LEMMA IssueImportStep ==
    ASSUME GraphInv, NEW g \in GraphGens, NEW n \in GraphNames, NEW reuse \in BOOLEAN,
           IssueGraphImport(g, n, reuse)
    PROVE  GraphInv'
<1>1. gMoves' \in Nat
    BY MoveTyped DEF GraphInv, IssueGraphImport
<1>2. /\ gGrant' = [state |-> "ISSUED", source |-> g, node |-> n, reuse |-> reuse,
                    revision |-> GraphRevision(g), target |-> gGoal.active + 1]
      /\ g <= gGoal.active /\ gGoal.active < MaxGraphGen
    BY DEF IssueGraphImport
<1>3. /\ gGoal.active \in Nat /\ g \in Nat /\ MaxGraphGen \in Nat
      /\ GraphRevision(g) \in 0 .. MaxRevisions
    BY GoalTyped, GensAreNaturals, RevisionTyped DEF GraphInv
<1>4. gGoal.active + 1 \in 0 .. MaxGraphGen /\ g \in 0 .. MaxGraphGen /\ g < gGoal.active + 1
    BY <1>2, <1>3
<1>5. gGrant' \in GrantRow
    BY <1>2, <1>3, <1>4 DEF GrantRow
<1>6. GraphTypeOK'
    BY <1>1, <1>5 DEF GraphInv, GraphTypeOK, IssueGraphImport
<1>7. \A k \in GraphGens : GenFine(k)'
    BY GenStays DEF GraphInv, IssueGraphImport
<1>8. \A b \in gBound' : BoundFine(b)'
    BY BoundsStay, EventsAgreeSelf, GoalTyped DEF GraphInv, IssueGraphImport
<1>9. GrantFine'
    <2>1. gGrant'.source = g /\ gGrant'.node = n /\ gGrant'.target = gGoal.active + 1
        BY <1>2
    <2> QED BY <1>4, <2>1 DEF GrantFine
<1>10. PassFine'
    BY PassStays DEF GraphInvalidated, IssueGraphImport
<1> QED BY <1>6, <1>7, <1>8, <1>9, <1>10 DEF GraphInv, IssueGraphImport

\* The rows of a generation that has not begun.
LEMMA FreshRows ==
    ASSUME NEW p, NEW rows, NEW adms,
           \A n \in GraphNames : rows[n] = NoNode /\ adms[n] = NoAdmission
    PROVE  RowsOK(p, rows, adms)
<1>1. /\ NoNode.state = "BLOCKED" /\ NoNode.task = "none" /\ NoNode.out = ""
      /\ NoAdmission.state = "none" /\ NoNode \in NodeRow
    BY DEF NoNode, NoAdmission, NodeRow
<1>2. RowOK(NoNode, NoAdmission)
    BY <1>1 DEF RowOK
<1> QED BY <1>1, <1>2 DEF RowsOK

LEMMA FreshGeneration ==
    ASSUME NEW name \in DOMAIN GraphPlans, NEW new,
           new = [NoGeneration EXCEPT !.plan = name, !.job = "QUEUED"]
    PROVE  /\ new \in GenerationRow /\ new.events = <<>> /\ new.plan = name
           /\ new.job = "QUEUED" /\ new.reason = ""
<1>1. NoEvaluation \in EvalRow
    BY GensAreNaturals DEF NoEvaluation, EvalRow
<1>2. new = [plan |-> name, job |-> "QUEUED", reason |-> "", output |-> "",
             events |-> <<>>, eval |-> NoEvaluation]
    BY DEF NoGeneration
<1>3. "" \in GraphReasons /\ <<>> \in Seq(EventRow)
    BY DEF GraphReasons
<1>4. /\ new.events = <<>> /\ new.plan = name /\ new.job = "QUEUED" /\ new.reason = ""
    BY ONLY <1>2
<1>5. new \in GenerationRow
    BY ONLY <1>1, <1>2, <1>3, name \in DOMAIN GraphPlans DEF GenerationRow
<1> QED BY <1>4, <1>5

\* A generation begins.
LEMMA GenBegins ==
    ASSUME GraphInv, NEW g \in GraphGens, g = gGoal.active + 1, NEW name \in DOMAIN GraphPlans,
           CompileGraph(name), gGoal'.active = g, gNode' = gNode, gAdm' = gAdm,
           gGen' = [gGen EXCEPT ![g] = [NoGeneration EXCEPT !.plan = name, !.job = "QUEUED"]]
    PROVE  /\ gGen' \in [GraphGens -> GenerationRow]
           /\ \A k \in GraphGens : Len(gGen'[k].events) <= MaxRevisions
           /\ \A k \in GraphGens : k # g => gGen'[k] = gGen[k]
           /\ \A k \in GraphGens : GenFine(k)'
<1>1. PICK new : new = [NoGeneration EXCEPT !.plan = name, !.job = "QUEUED"]
    OBVIOUS
<1>2. /\ new \in GenerationRow /\ new.events = <<>> /\ new.plan = name
      /\ new.job = "QUEUED" /\ new.reason = ""
    BY <1>1, FreshGeneration
<1>3. Len(new.events) <= MaxRevisions
    <2>1. Len(<<>>) = 0
        OBVIOUS
    <2>2. Len(new.events) = 0
        BY ONLY <1>2, <2>1
    <2> QED BY ONLY <2>2, GensAreNaturals
<1>4. /\ gGen' \in [GraphGens -> GenerationRow]
      /\ \A k \in GraphGens : Len(gGen'[k].events) <= MaxRevisions
      /\ gGen'[g] = new /\ \A k \in GraphGens : k # g => gGen'[k] = gGen[k]
    BY <1>1, <1>2, <1>3, GenTyped DEF GraphInv
<1>5. gGoal.active \in Nat /\ GraphGens \subseteq Nat
    BY GoalTyped, GensAreNaturals DEF GraphInv
<1>6. /\ gGen[g].job # "none" <=> g <= gGoal.active
      /\ gGen[g].job = "none" =>
            \A n \in GraphNames : gNode[g][n] = NoNode /\ gAdm[g][n] = NoAdmission
    BY DEF GraphInv, GenFine
<1>7. \A n \in GraphNames : gNode[g][n] = NoNode /\ gAdm[g][n] = NoAdmission
    BY <1>5, <1>6
<1>8. RowsOK(GraphPlans[name], gNode[g], gAdm[g])
    BY <1>7, FreshRows
<1>9. GenFine(g)'
    <2>1. g <= gGoal'.active
        BY <1>5
    <2>2. gGen'[g].plan = name /\ gGen'[g].job = "QUEUED"
        BY <1>2, <1>4
    <2> QED BY <1>8, <2>1, <2>2 DEF GenFine
<1>10. ASSUME NEW k \in GraphGens, k # g PROVE GenFine(k)'
    <2>1. GenFine(k) /\ gGen'[k] = gGen[k]
        BY <1>4, <1>10 DEF GraphInv
    <2>2. k <= gGoal.active <=> k <= gGoal'.active
        BY <1>5, <1>10
    <2> QED BY <2>1, <2>2 DEF GenFine
<1> QED BY <1>4, <1>9, <1>10

LEMMA SubmitStep ==
    ASSUME GraphInv, NEW p \in DOMAIN GraphPlans, SubmitGraph(p)
    PROVE  GraphInv'
<1>1. /\ gGoal.state = "none" /\ CompileGraph(p) /\ gGoal' = [state |-> "GRAPH_READY", active |-> 1]
      /\ gGen' = [gGen EXCEPT ![1] = [NoGeneration EXCEPT !.plan = p, !.job = "QUEUED"]]
      /\ gNode' = gNode /\ gAdm' = gAdm /\ gBound' = gBound /\ gGrant' = gGrant
    BY DEF SubmitGraph
<1>2. gGoal.active = 0 /\ gGoal'.active = 1 /\ gGoal'.state = "GRAPH_READY" /\ 1 \in GraphGens
    BY <1>1, GensAreNaturals DEF GraphInv, GraphGens
<1>3. /\ gGen' \in [GraphGens -> GenerationRow]
      /\ \A k \in GraphGens : Len(gGen'[k].events) <= MaxRevisions
      /\ \A k \in GraphGens : GenFine(k)'
    <2>1. 1 = gGoal.active + 1
        BY <1>2
    <2> QED BY <1>1, <1>2, <2>1, GenBegins
<1>4. gGoal' \in GraphGoalRow
    BY <1>1, GensAreNaturals DEF GraphGoalRow
<1>5. GraphTypeOK'
    BY <1>3, <1>4 DEF GraphInv, GraphTypeOK, SubmitGraph
<1>6. \A b \in gBound' : BoundFine(b)'
    <2>1. \A k \in GraphGens : ~(k < gGoal.active)
        BY <1>2, GensAreNaturals
    <2> QED BY <1>1, <1>2, <2>1, BoundsStay
<1>7. GrantFine'
    BY <1>1, GrantStays DEF GraphInv
<1>8. PassFine'
    BY <1>2 DEF PassFine
<1> QED BY <1>2, <1>3, <1>5, <1>6, <1>7, <1>8 DEF GraphInv

LEMMA CancelStep ==
    ASSUME GraphInv, NEW g \in GraphGens, CancelGraph(g)
    PROVE  GraphInv'
<1>1. /\ gGen[g].job # "none" /\ gGoal.state \notin GraphTerminal /\ gMoves' \in Nat
      /\ gNode' = gNode /\ gAdm' = gAdm /\ gBound' = gBound /\ gGrant' = gGrant
    BY MoveTyped DEF CancelGraph, GraphInv
<1>2. GrantFine'
    BY <1>1, GrantStays DEF GraphInv
<1>3. CASE /\ gGen[g].job \notin GraphTerminal /\ gGen[g].reason = "" /\ gGoal' = gGoal
           /\ gGen' = [gGen EXCEPT ![g].job = "STOPPING", ![g].reason = "USER_CANCEL"]
    <2>1. gGen \in [GraphGens -> GenerationRow]
        BY DEF GraphInv, GraphTypeOK
    <2>2. PICK old, new : old = gGen[g]
                          /\ new = [[old EXCEPT !.job = "STOPPING"] EXCEPT !.reason = "USER_CANCEL"]
        OBVIOUS
    <2>3. old \in GenerationRow /\ Len(old.events) <= MaxRevisions
        BY <2>1, <2>2 DEF GraphInv, GraphTypeOK
    <2>4. /\ new \in GenerationRow /\ new.events = old.events /\ new.plan = old.plan
          /\ new.job = "STOPPING"
        BY <2>2, <2>3 DEF GenerationRow, GraphReasons
    <2>5. gGen' = [gGen EXCEPT ![g] = new]
        BY <1>3, <2>1, <2>2
    <2>6. /\ gGen' \in [GraphGens -> GenerationRow]
          /\ \A k \in GraphGens : Len(gGen'[k].events) <= MaxRevisions
          /\ gGen'[g] = new /\ \A k \in GraphGens : k # g => gGen'[k] = gGen[k]
        BY <2>3, <2>4, <2>5, GenTyped DEF GraphInv
    <2>7. GraphTypeOK'
        BY <1>1, <1>3, <2>6 DEF GraphInv, GraphTypeOK, CancelGraph
    <2>8. GenFine(g)'
        <3>1. GenFine(g)
            BY DEF GraphInv
        <3> QED BY <1>1, <1>3, <2>2, <2>4, <2>6, <3>1 DEF GenFine
    <2>9. \A k \in GraphGens : GenFine(k)'
        BY <1>1, <1>3, <2>6, <2>8, GenStays DEF GraphInv
    <2>10. \A k \in GraphGens : /\ EventsAgree(gGen[k].events, gGen'[k].events)
                                /\ gGen'[k].plan = gGen[k].plan
        BY <2>2, <2>4, <2>6, EventsAgreeSelf
    <2>11. \A b \in gBound' : BoundFine(b)'
        <3>1. gGoal.active \in Nat
            BY GoalTyped DEF GraphInv
        <3>2. gGoal'.active = gGoal.active
            BY <1>3
        <3>3. gGoal.active <= gGoal'.active /\ gGoal'.active \in Nat
            BY ONLY <3>1, <3>2
        <3> QED BY ONLY GraphInv, <1>1, <2>10, <3>3, BoundsStay
    <2>12. PassFine'
        BY <1>1, <1>3 DEF PassFine, GraphTerminal
    <2> QED BY <1>2, <1>3, <2>7, <2>9, <2>11, <2>12 DEF GraphInv
<1>4. CASE gGoal.active = g /\ gGoal' = [gGoal EXCEPT !.state = "CANCELED"] /\ gGen' = gGen
    <2>1. gGoal \in GraphGoalRow
        BY DEF GraphInv, GraphTypeOK
    <2>2. gGoal' \in GraphGoalRow /\ gGoal'.state = "CANCELED" /\ gGoal'.active = gGoal.active
        BY <1>4, <2>1 DEF GraphGoalRow, GraphTerminal
    <2>3. GraphTypeOK'
        BY <1>1, <1>4, <2>2 DEF GraphInv, GraphTypeOK, CancelGraph
    <2>4. \A k \in GraphGens : GenFine(k)'
        BY <1>1, <1>4, <2>2, GenStays DEF GraphInv
    <2>5. \A b \in gBound' : BoundFine(b)'
        BY <1>1, <1>4, <2>2, BoundsStay, EventsAgreeSelf, GoalTyped DEF GraphInv
    <2>6. PassFine'
        BY <2>2 DEF PassFine
    <2>7. gGoal.active # 0
        BY <1>4, GensAreNaturals DEF GraphGens
    <2> QED BY <1>2, <2>2, <2>3, <2>4, <2>5, <2>6, <2>7 DEF GraphInv
<1> QED BY <1>3, <1>4 DEF CancelGraph

\* One generation keeps its plan, what its events say, its nodes and its
\* admissions, and is right itself: then so are the bindings and the grant.
LEMMA GenStep ==
    ASSUME GraphInv, NEW g \in GraphGens, gBound' = gBound, gAdm' = gAdm, gNode' = gNode,
           gGrant' = gGrant, gGoal'.active = gGoal.active, GenFine(g)',
           \A k \in GraphGens : k # g => gGen'[k] = gGen[k],
           g < gGoal.active => EventsAgree(gGen[g].events, gGen'[g].events),
           gGen'[g].plan = gGen[g].plan
    PROVE  /\ \A k \in GraphGens : GenFine(k)'
           /\ \A b \in gBound' : BoundFine(b)'
           /\ GrantFine'
<1>1. \A k \in GraphGens : GenFine(k)'
    BY GenStays DEF GraphInv
<1>2. \A k \in GraphGens : k < gGoal.active =>
          /\ EventsAgree(gGen[k].events, gGen'[k].events)
          /\ gGen'[k].plan = gGen[k].plan
    BY EventsAgreeSelf
<1>3. gGoal.active <= gGoal'.active /\ gGoal'.active \in Nat
    <2>1. gGoal.active \in Nat
        BY GoalTyped DEF GraphInv
    <2> QED BY <2>1
<1>5. \A b \in gBound' : BoundFine(b)'
    BY ONLY GraphInv, gBound' = gBound, <1>2, <1>3, BoundsStay
<1>6. GrantFine'
    BY GrantStays DEF GraphInv
<1> QED BY <1>1, <1>5, <1>6

LEMMA JudgeStep ==
    ASSUME GraphInv, NEW g \in GraphGens, NEW verdict \in Verdicts, NEW cites,
           cites \subseteq gReceipts, Judge(g, verdict, cites),
           gGoal.active = g, gGoal.state \in {"EVALUATING", "REPLAN_GUARDING"},
           gGen[g].eval.version < 2,
           verdict = "PASS" =>
               /\ ~GraphInvalidated(g) /\ gGen[g].job = "SUCCEEDED"
               /\ PlanOf(g).coverage => \E r \in cites : r.kind = "coverage"
               /\ \A r \in cites : r.verdict = "PASS" /\ r.gen = g
    PROVE  GraphInv'
<1>1. PICK old : old = gGen[g]
    OBVIOUS
<1>2. gGen \in [GraphGens -> GenerationRow] /\ old \in GenerationRow
      /\ Len(old.events) <= MaxRevisions
    BY <1>1 DEF GraphInv, GraphTypeOK
<1>3. PICK eval : eval = [version |-> old.eval.version + 1, verdict |-> verdict,
                          revision |-> GraphRevision(g), cites |-> cites]
    OBVIOUS
<1>4. PICK new : new = [old EXCEPT !.eval = eval]
    OBVIOUS
<1>5. gGen' = [gGen EXCEPT ![g] = new]
    <2>1. gGen' = [gGen EXCEPT ![g].eval = [version |-> @.version + 1, verdict |-> verdict,
                                            revision |-> GraphRevision(g), cites |-> cites]]
        BY DEF Judge
    <2> QED BY <1>1, <1>2, <1>3, <1>4, <2>1
<1>6. eval \in EvalRow
    <2>1. old.eval \in EvalRow
        BY <1>2 DEF GenerationRow
    <2>2. old.eval.version \in 0 .. 2 /\ old.eval.version < 2
        BY <1>1, <2>1 DEF EvalRow
    <2>3. old.eval.version + 1 \in 0 .. 2
        BY <2>2
    <2>4. cites \subseteq ReceiptRow
        BY DEF GraphInv, GraphTypeOK
    <2>5. GraphRevision(g) \in 0 .. MaxRevisions
        BY RevisionTyped DEF GraphInv
    <2> QED BY <1>3, <2>3, <2>4, <2>5 DEF EvalRow
<1>7. /\ new \in GenerationRow /\ new.events = old.events /\ new.plan = old.plan
      /\ new.job = old.job /\ new.reason = old.reason /\ new.eval = eval
    BY <1>2, <1>4, <1>6 DEF GenerationRow
<1>8. /\ gGen' \in [GraphGens -> GenerationRow]
      /\ \A k \in GraphGens : Len(gGen'[k].events) <= MaxRevisions
      /\ gGen'[g] = new /\ \A k \in GraphGens : k # g => gGen'[k] = gGen[k]
    BY <1>2, <1>5, <1>7, GenTyped DEF GraphInv
<1>9. PICK s : s = CASE verdict = "PASS" -> "SUCCEEDED"
                     [] verdict = "FAIL" /\ g < MaxGraphGen -> "REPLAN_GUARDING"
                     [] verdict = "FAIL" -> "FAILED"
                     [] OTHER -> "EVALUATING"
    OBVIOUS
<1>10. /\ s \in {"EVALUATING", "REPLAN_GUARDING", "FAILED", "SUCCEEDED"}
       /\ s = "SUCCEEDED" => verdict = "PASS"
    BY <1>9 DEF Verdicts
<1>11. gGoal' = [gGoal EXCEPT !.state = s] /\ gGoal \in GraphGoalRow
    BY <1>9 DEF Judge, GraphInv, GraphTypeOK
<1>12. gGoal' \in GraphGoalRow /\ gGoal'.state = s /\ gGoal'.active = gGoal.active
    BY <1>10, <1>11 DEF GraphGoalRow, GraphTerminal
<1>13. GraphTypeOK'
    BY <1>8, <1>12 DEF GraphInv, GraphTypeOK, Judge
<1>14. GenFine(g)'
    <2>1. GenFine(g) /\ gGen[g].job # "none"
        <3>1. g \in Nat
            BY GensAreNaturals
        <3>2. GenFine(g) /\ (gGen[g].job # "none" <=> g <= gGoal.active)
            BY DEF GraphInv, GenFine
        <3> QED BY <3>1, <3>2
    <2>2. gNode' = gNode /\ gAdm' = gAdm
        BY DEF Judge
    <2> QED BY <1>1, <1>7, <1>8, <1>12, <2>1, <2>2 DEF GenFine
<1>15. /\ \A k \in GraphGens : GenFine(k)'
       /\ \A b \in gBound' : BoundFine(b)'
       /\ GrantFine'
    <2>1. gNode' = gNode /\ gAdm' = gAdm /\ gBound' = gBound /\ gGrant' = gGrant
        BY DEF Judge
    <2>2. EventsAgree(gGen[g].events, gGen'[g].events) /\ gGen'[g].plan = gGen[g].plan
        BY <1>1, <1>7, <1>8, EventsAgreeSelf
    <2> QED BY <1>8, <1>12, <1>14, <2>1, <2>2, GenStep
<1>16. PassFine'
    <2>1. SUFFICES ASSUME s = "SUCCEEDED" PROVE PassFine'
        BY <1>12 DEF PassFine
    <2>2. /\ verdict = "PASS" /\ ~GraphInvalidated(g) /\ gGen[g].job = "SUCCEEDED"
          /\ PlanOf(g).coverage => \E r \in cites : r.kind = "coverage"
          /\ \A r \in cites : r.verdict = "PASS" /\ r.gen = g
        BY <1>10, <2>1
    <2>3. eval.verdict = verdict /\ eval.cites = cites
        BY <1>3
    <2>4. /\ gGen'[g].job = "SUCCEEDED" /\ gGen'[g].eval.verdict = "PASS"
          /\ gGen'[g].eval.cites = cites /\ gGoal'.active = g
        BY <1>1, <1>7, <1>8, <1>12, <2>2, <2>3
    <2>5. ~GraphInvalidated(g)' /\ PlanOf(g)' = PlanOf(g)
        BY <1>1, <1>7, <1>8, <2>2 DEF GraphInvalidated, PlanOf
    <2>6. ~(\E i \in DOMAIN gGen'[g].events : ~gGen'[g].events[i].audit)
        BY <2>5 DEF GraphInvalidated
    <2>7. GraphPlans[gGen'[g].plan].coverage => \E r \in cites : r.kind = "coverage"
        BY <2>2, <2>5 DEF PlanOf
    <2> QED BY <2>2, <2>4, <2>6, <2>7 DEF PassFine, GraphInvalidated, PlanOf
<1>17. gGoal'.state # "none" /\ gGoal'.active # 0
    BY <1>10, <1>12, GensAreNaturals DEF GraphGens
<1> QED BY <1>13, <1>15, <1>16, <1>17 DEF GraphInv

LEMMA EvaluateStep ==
    ASSUME GraphInv, NEW g \in GraphGens, NEW verdict \in Verdicts,
           NEW cites \in SUBSET gReceipts, EvaluateGraph(g, verdict, cites)
    PROVE  GraphInv'
<1>1. /\ Judge(g, verdict, cites) /\ gGoal.active = g
      /\ gGoal.state \in {"EVALUATING", "REPLAN_GUARDING"} /\ gGen[g].eval.version < 2
      /\ verdict = "PASS" =>
            /\ ~GraphInvalidated(g) /\ gGen[g].job = "SUCCEEDED"
            /\ PlanOf(g).coverage => \E r \in cites : r.kind = "coverage"
      /\ \A r \in cites : ProofHolds(g, verdict, r)
    BY DEF EvaluateGraph
<1>2. verdict = "PASS" => \A r \in cites : r.verdict = "PASS" /\ r.gen = g
    BY <1>1 DEF ProofHolds
<1> QED BY <1>1, <1>2, JudgeStep

LEMMA FailStep ==
    ASSUME GraphInv, NEW g \in GraphGens, FailExecution(g)
    PROVE  GraphInv'
<1>1. /\ Judge(g, "FAIL", {}) /\ gGoal.active = g /\ gGoal.state = "EVALUATING"
      /\ gGen[g].eval.version = 0
    BY DEF FailExecution
<1>2. /\ "FAIL" \in Verdicts /\ "FAIL" # "PASS" /\ {} \subseteq gReceipts
      /\ gGen[g].eval.version < 2 /\ gGoal.state \in {"EVALUATING", "REPLAN_GUARDING"}
    BY <1>1 DEF Verdicts
<1> QED BY <1>1, <1>2, JudgeStep

\* The events of the generation that is invalidated are those of no source:
\* a binding is from a generation before the active one.
LEMMA InvalidateStep ==
    ASSUME GraphInv, NEW g \in GraphGens, NEW n \in GraphNames, InvalidateGraph(g, {n})
    PROVE  GraphInv'
<1>1. PICK ended : ended = (gGoal.state \in GraphTerminal)
    OBVIOUS
<1>2. PICK old, event : old = gGen[g] /\ event = [audit |-> ended, hit |-> {n}, applied |-> ended]
    OBVIOUS
<1>3. PICK new : new = [old EXCEPT !.events = Append(old.events, event)]
    OBVIOUS
<1>4. gGen \in [GraphGens -> GenerationRow] /\ old \in GenerationRow
    BY <1>2 DEF GraphInv, GraphTypeOK
<1>5. /\ gGen' = [gGen EXCEPT ![g] = new] /\ gGoal.active = g /\ Len(old.events) < MaxRevisions
      /\ gGoal' = gGoal /\ gNode' = gNode /\ gAdm' = gAdm /\ gBound' = gBound /\ gGrant' = gGrant
    BY <1>1, <1>2, <1>3, <1>4 DEF InvalidateGraph, GraphRevision
<1>6. ended \in BOOLEAN /\ event \in EventRow
    BY <1>1, <1>2 DEF EventRow
<1>7. old.events \in Seq(EventRow)
    BY <1>4 DEF GenerationRow
<1>8. /\ Append(old.events, event) \in Seq(EventRow)
      /\ Len(Append(old.events, event)) = Len(old.events) + 1
      /\ Len(old.events) \in Nat
      /\ DOMAIN old.events = 1 .. Len(old.events)
      /\ DOMAIN Append(old.events, event) = 1 .. (Len(old.events) + 1)
      /\ Append(old.events, event)[Len(old.events) + 1] = event
      /\ \A i \in 1 .. Len(old.events) : Append(old.events, event)[i] = old.events[i]
    BY <1>6, <1>7
<1>9. PICK events : events = Append(old.events, event)
    OBVIOUS
<1>10. /\ new \in GenerationRow /\ new.events = events /\ new.plan = old.plan
       /\ new.job = old.job /\ new.reason = old.reason /\ new.eval = old.eval
    BY <1>3, <1>4, <1>8, <1>9 DEF GenerationRow
<1>11. Len(new.events) <= MaxRevisions
    BY <1>5, <1>8, <1>9, <1>10, GensAreNaturals
<1>12. /\ gGen' \in [GraphGens -> GenerationRow]
       /\ \A k \in GraphGens : Len(gGen'[k].events) <= MaxRevisions
       /\ gGen'[g] = new /\ \A k \in GraphGens : k # g => gGen'[k] = gGen[k]
    BY <1>5, <1>10, <1>11, GenTyped DEF GraphInv
<1>13. GraphTypeOK'
    <2>1. gMoves' \in Nat
        BY MoveTyped DEF InvalidateGraph, GraphInv
    <2> QED BY <1>12, <2>1 DEF GraphInv, GraphTypeOK, InvalidateGraph
<1>14. GenFine(g)'
    <2>1. GenFine(g) /\ gGen[g].job # "none"
        <3>1. g \in Nat
            BY GensAreNaturals
        <3>2. GenFine(g) /\ (gGen[g].job # "none" <=> g <= gGoal.active)
            BY DEF GraphInv, GenFine
        <3> QED BY <1>5, <3>1, <3>2
    <2> QED BY <1>2, <1>5, <1>10, <1>12, <2>1 DEF GenFine
<1>15. /\ \A k \in GraphGens : GenFine(k)'
       /\ \A b \in gBound' : BoundFine(b)'
       /\ GrantFine'
    <2>1. ~(g < gGoal.active)
        BY <1>5, GensAreNaturals
    <2>2. gGen'[g].plan = gGen[g].plan
        BY <1>2, <1>10, <1>12
    <2>3. gGoal'.active = gGoal.active
        BY <1>5
    <2> QED BY <1>5, <1>12, <1>14, <2>1, <2>2, <2>3, GenStep
<1>16. PassFine'
    <2>1. ASSUME gGoal.state = "SUCCEEDED", ~GraphInvalidated(g)
          PROVE  ~(\E i \in DOMAIN gGen'[g].events : ~gGen'[g].events[i].audit)
        <3>1. event.audit = ended /\ ended
            BY <1>1, <1>2, <2>1 DEF GraphTerminal
        <3>2. \A i \in 1 .. Len(old.events) : old.events[i].audit
            BY <1>2, <1>8, <2>1 DEF GraphInvalidated
        <3>3. gGen'[g].events = events
            BY <1>10, <1>12
        <3>4. ASSUME NEW i \in DOMAIN events PROVE events[i].audit
            <4>1. i \in 1 .. Len(old.events) \/ i = Len(old.events) + 1
                BY <1>8, <1>9, <3>4
            <4>2. CASE i \in 1 .. Len(old.events)
                BY <1>8, <1>9, <3>2, <4>2
            <4>3. CASE i = Len(old.events) + 1
                BY <1>8, <1>9, <3>1, <4>3
            <4> QED BY <4>1, <4>2, <4>3
        <3> QED BY <3>3, <3>4
    <2>2. /\ gGen'[g].job = gGen[g].job /\ gGen'[g].eval = gGen[g].eval
          /\ gGen'[g].plan = gGen[g].plan
        BY <1>2, <1>10, <1>12
    <2> QED BY <1>5, <2>1, <2>2, PassStays
<1> QED BY <1>5, <1>13, <1>15, <1>16 DEF GraphInv

LEMMA ApplyStep ==
    ASSUME GraphInv, NEW g \in GraphGens, ApplyInvalidation(g)
    PROVE  GraphInv'
<1>1. PICK i \in DOMAIN gGen[g].events :
          /\ gGen' = [gGen EXCEPT ![g].events[i].applied = TRUE]
          /\ gProjected' = gProjected \cup
                {<<g, n, i>> : n \in {m \in GraphNames : HasView(g, m)}}
          /\ UNCHANGED <<gGoal, gNode, gAdm, gReceipts, gCovering, gReads, gGrant,
                         gBound, gLate, gMoves>>
    BY DEF ApplyInvalidation
<1>2. PICK old, events : /\ old = gGen[g]
                         /\ events = [old.events EXCEPT ![i] = [old.events[i] EXCEPT !.applied = TRUE]]
    OBVIOUS
<1>3. PICK new : new = [old EXCEPT !.events = events]
    OBVIOUS
<1>4. gGen \in [GraphGens -> GenerationRow] /\ old \in GenerationRow /\ Len(old.events) <= MaxRevisions
    BY <1>2 DEF GraphInv, GraphTypeOK
<1>5. old.events \in Seq(EventRow) /\ i \in DOMAIN old.events
    BY <1>1, <1>2, <1>4 DEF GenerationRow
<1>6. gGen' = [gGen EXCEPT ![g] = new]
    BY <1>1, <1>2, <1>3, <1>4, <1>5
<1>7. /\ [old.events[i] EXCEPT !.applied = TRUE] \in EventRow
      /\ [old.events[i] EXCEPT !.applied = TRUE].audit = old.events[i].audit
      /\ [old.events[i] EXCEPT !.applied = TRUE].hit = old.events[i].hit
    <2>1. old.events[i] \in EventRow
        BY <1>5
    <2> QED BY <2>1 DEF EventRow
<1>8. events \in Seq(EventRow) /\ EventsAgree(old.events, events)
    <2>1. events \in Seq(EventRow) /\ Len(events) = Len(old.events) /\ DOMAIN events = DOMAIN old.events
        BY <1>2, <1>5, <1>7
    <2>2. \A k \in DOMAIN old.events : events[k].audit = old.events[k].audit
                                       /\ events[k].hit = old.events[k].hit
        BY <1>2, <1>5, <1>7
    <2> QED BY <2>1, <2>2 DEF EventsAgree
<1>9. /\ new \in GenerationRow /\ new.events = events /\ new.plan = old.plan
      /\ new.job = old.job /\ new.reason = old.reason /\ new.eval = old.eval
    BY <1>3, <1>4, <1>8 DEF GenerationRow
<1>10. Len(new.events) <= MaxRevisions
    BY <1>4, <1>8, <1>9 DEF EventsAgree
<1>11. /\ gGen' \in [GraphGens -> GenerationRow]
       /\ \A k \in GraphGens : Len(gGen'[k].events) <= MaxRevisions
       /\ gGen'[g] = new /\ \A k \in GraphGens : k # g => gGen'[k] = gGen[k]
    BY <1>6, <1>9, <1>10, GenTyped DEF GraphInv
<1>12. gProjected' \subseteq GraphGens \X GraphNames \X (1 .. MaxRevisions)
    <2>1. i \in 1 .. MaxRevisions
        <3>1. i \in 1 .. Len(old.events) /\ Len(old.events) \in Nat
            BY <1>5
        <3> QED BY <1>4, <3>1, GensAreNaturals
    <2> QED BY <1>1, <2>1 DEF GraphInv, GraphTypeOK
<1>13. GraphTypeOK'
    BY <1>1, <1>11, <1>12 DEF GraphInv, GraphTypeOK
<1>14. GenFine(g)'
    <2>1. GenFine(g)
        BY DEF GraphInv
    <2>2. old.job # "none"
        <3>1. SUFFICES ASSUME old.job = "none" PROVE FALSE
            OBVIOUS
        <3>2. old = NoGeneration
            BY <1>2, <2>1, <3>1 DEF GenFine
        <3>3. NoGeneration.events = <<>>
            BY DEF NoGeneration
        <3>4. old.events = <<>>
            BY ONLY <3>2, <3>3
        <3> QED BY <1>5, <3>4
    <2> QED BY <1>1, <1>2, <1>9, <1>11, <2>1, <2>2 DEF GenFine
<1>15. EventsAgree(gGen[g].events, gGen'[g].events) /\ gGen'[g].plan = gGen[g].plan
    BY <1>2, <1>8, <1>9, <1>11
<1>16. /\ \A k \in GraphGens : GenFine(k)'
       /\ \A b \in gBound' : BoundFine(b)'
       /\ GrantFine'
    BY <1>1, <1>11, <1>14, <1>15, GenStep
<1>17. PassFine'
    <2>1. ASSUME NEW k \in GraphGens
          PROVE  /\ gGen'[k].job = gGen[k].job /\ gGen'[k].eval = gGen[k].eval
                 /\ gGen'[k].plan = gGen[k].plan
                 /\ EventsAgree(gGen[k].events, gGen'[k].events)
        <3>1. CASE k = g
            BY <1>2, <1>9, <1>11, <1>15, <3>1
        <3>2. CASE k # g
            BY <1>11, <3>2, EventsAgreeSelf
        <3> QED BY <3>1, <3>2
    <2>2. ASSUME NEW k \in GraphGens, ~GraphInvalidated(k)
          PROVE  ~(\E j \in DOMAIN gGen'[k].events : ~gGen'[k].events[j].audit)
        BY <2>1, <2>2 DEF EventsAgree, GraphInvalidated
    <2>3. gGoal.state = "SUCCEEDED" => gGoal.active \in GraphGens
        BY DEF GraphInv, PassFine
    <2> QED BY <1>1, <2>1, <2>2, <2>3, PassStays
<1> QED BY <1>1, <1>13, <1>16, <1>17 DEF GraphInv

\* The row of a Task changes while its node has not settled.
LEMMA RowMoves ==
    ASSUME NEW name \in DOMAIN GraphPlans, CompileGraph(name), NEW p, p = GraphPlans[name],
           NEW rows \in [GraphNames -> NodeRow], NEW adms \in [GraphNames -> AdmissionRow],
           RowsOK(p, rows, adms), NEW n \in GraphNames,
           ~Settled(rows[n]), rows[n].task # "none", NEW r, NEW a, RowOK(r, a),
           r.state # "SKIPPED"
    PROVE  RowsOK(p, [rows EXCEPT ![n] = r], [adms EXCEPT ![n] = a])
<1>1. PICK new, next : new = [rows EXCEPT ![n] = r] /\ next = [adms EXCEPT ![n] = a]
    OBVIOUS
<1>2. /\ new[n] = r /\ next[n] = a
      /\ \A m \in GraphNames : m # n => new[m] = rows[m] /\ next[m] = adms[m]
    BY <1>1
<1>3. \A m \in GraphNames : Settled(rows[m]) => new[m] = rows[m]
    BY <1>2
<1>4. \A m \in GraphNames : RowOK(rows[m], adms[m])
    BY DEF RowsOK
<1>5. \A m \in GraphNames : RowOK(new[m], next[m])
    BY <1>2, <1>4
<1>6. n \in ToSet(p.nodes)
    <2>1. n \notin ToSet(p.nodes) => rows[n] = NoNode
        BY DEF RowsOK
    <2>2. NoNode.task = "none"
        BY DEF NoNode
    <2> QED BY <2>1, <2>2
<1>7. \A m \in GraphNames : m \notin ToSet(p.nodes) => new[m] = NoNode
    BY <1>2, <1>6 DEF RowsOK
<1>8. \A m \in GraphNames : m \in ToSet(p.nodes) /\ new[m].state = "SKIPPED" =>
          rows[m].state = "SKIPPED" \/ Off(p, rows, m)
    BY <1>2
<1>9. \A m \in GraphNames :
          m \in ToSet(p.nodes) /\ (new[m].task # "none" \/ new[m].state = "SUCCEEDED") =>
          rows[m].task # "none" \/ rows[m].state = "SUCCEEDED" \/ On(p, rows, m)
    BY <1>2
<1>10. RowsOK(p, new, next)
    BY <1>3, <1>5, <1>7, <1>8, <1>9, RowsKeep
<1> QED BY <1>1, <1>10

\* A node with a Task is one of a generation that has begun.
LEMMA TaskBegun ==
    ASSUME GraphInv, NEW g \in GraphGens, NEW n \in GraphNames, gNode[g][n].task # "none"
    PROVE  /\ gGen[g].job # "none" /\ gGen[g].plan \in DOMAIN GraphPlans
           /\ CompileGraph(gGen[g].plan) /\ n \in ToSet(PlanOf(g).nodes)
           /\ RowsOK(PlanOf(g), gNode[g], gAdm[g]) /\ RowOK(gNode[g][n], gAdm[g][n])
           /\ gNode[g] \in [GraphNames -> NodeRow] /\ gAdm[g] \in [GraphNames -> AdmissionRow]
<1>1. NoNode.task = "none"
    BY DEF NoNode
<1>2. GenFine(g)
    BY DEF GraphInv
<1>3. gGen[g].job # "none"
    BY <1>1, <1>2 DEF GenFine
<1>4. /\ gGen[g].plan \in DOMAIN GraphPlans /\ CompileGraph(gGen[g].plan)
      /\ RowsOK(PlanOf(g), gNode[g], gAdm[g])
    BY <1>2, <1>3 DEF GenFine, PlanOf
<1>5. RowOK(gNode[g][n], gAdm[g][n]) /\ n \in ToSet(PlanOf(g).nodes)
    BY <1>1, <1>4 DEF RowsOK
<1>6. gNode[g] \in [GraphNames -> NodeRow] /\ gAdm[g] \in [GraphNames -> AdmissionRow]
    BY DEF GraphInv, GraphTypeOK
<1> QED BY <1>3, <1>4, <1>5, <1>6

\* A row and its admission change, with the rest in place.
LEMMA NodeStep ==
    ASSUME GraphInv, NEW g \in GraphGens, NEW n \in GraphNames, NEW r, NEW a,
           gNode[g][n].task # "none", ~Settled(gNode[g][n]),
           RowOK(r, a), a \in AdmissionRow, r.state # "SKIPPED",
           gNode' = [gNode EXCEPT ![g][n] = r], gAdm' = [gAdm EXCEPT ![g][n] = a],
           gGoal' = gGoal, gBound' = gBound, gGrant' = gGrant,
           \A k \in GraphGens : k # g => gGen'[k] = gGen[k],
           gGen'[g].events = gGen[g].events, gGen'[g].plan = gGen[g].plan,
           gGen'[g].job # "none",
           gGen'[g].job \in {"FAILED", "CANCELED"} =>
               gGen'[g] = gGen[g] /\ r.task \notin LiveTask \cup {"QUEUED"},
           gGen'[g].job = "SUCCEEDED" => gGen'[g] = gGen[g]
    PROVE  /\ gNode' \in [GraphGens -> [GraphNames -> NodeRow]]
           /\ gAdm' \in [GraphGens -> [GraphNames -> AdmissionRow]]
           /\ \A k \in GraphGens : GenFine(k)'
           /\ \A b \in gBound' : BoundFine(b)'
           /\ GrantFine' /\ PassFine'
<1>1. PICK rows, adms, p : rows = gNode[g] /\ adms = gAdm[g] /\ p = PlanOf(g)
    OBVIOUS
<1>2. PICK name : name = gGen[g].plan
    OBVIOUS
<1>3. /\ name \in DOMAIN GraphPlans /\ CompileGraph(name) /\ p = GraphPlans[name]
      /\ n \in ToSet(p.nodes) /\ RowsOK(p, rows, adms)
      /\ rows \in [GraphNames -> NodeRow] /\ adms \in [GraphNames -> AdmissionRow]
      /\ gGen[g].job # "none"
    BY <1>1, <1>2, TaskBegun DEF PlanOf
<1>4. /\ gNode \in [GraphGens -> [GraphNames -> NodeRow]]
      /\ gAdm \in [GraphGens -> [GraphNames -> AdmissionRow]]
    BY DEF GraphInv, GraphTypeOK
<1>5. PICK new, next : new = [rows EXCEPT ![n] = r] /\ next = [adms EXCEPT ![n] = a]
    OBVIOUS
<1>6. /\ gNode'[g] = new /\ gAdm'[g] = next
      /\ \A k \in GraphGens : k # g => gNode'[k] = gNode[k] /\ gAdm'[k] = gAdm[k]
    BY <1>1, <1>4, <1>5
<1>7. RowsOK(p, new, next)
    BY <1>1, <1>3, <1>5, RowMoves
<1>8. r \in NodeRow
    BY DEF RowOK
<1>9. /\ gNode' \in [GraphGens -> [GraphNames -> NodeRow]]
      /\ gAdm' \in [GraphGens -> [GraphNames -> AdmissionRow]]
    BY <1>4, <1>8
<1>10. GenFine(g)
    BY DEF GraphInv
<1>11. new[n] = r /\ \A m \in GraphNames : m # n => new[m] = rows[m]
    BY <1>3, <1>5
<1>12. gGen'[g].job # "SUCCEEDED"
    <2>1. SUFFICES ASSUME gGen[g].job = "SUCCEEDED" PROVE FALSE
        OBVIOUS
    <2>2. Settled(rows[n])
        BY <1>1, <1>2, <1>3, <1>10, <2>1 DEF GenFine
    <2> QED BY <1>1, <2>2
<1>13. gGen'[g].job \in {"FAILED", "CANCELED"} =>
           /\ gGen'[g].reason # ""
           /\ \A m \in GraphNames : new[m].task \notin LiveTask \cup {"QUEUED"}
    <2>1. SUFFICES ASSUME gGen'[g].job \in {"FAILED", "CANCELED"}
                   PROVE  /\ gGen'[g].reason # ""
                          /\ \A m \in GraphNames : new[m].task \notin LiveTask \cup {"QUEUED"}
        OBVIOUS
    <2>2. gGen'[g] = gGen[g] /\ r.task \notin LiveTask \cup {"QUEUED"}
        BY <2>1
    <2>3. gGen[g].reason # "" /\ \A m \in GraphNames : rows[m].task \notin LiveTask \cup {"QUEUED"}
        BY <1>1, <1>10, <2>1, <2>2 DEF GenFine
    <2> QED BY <1>11, <2>2, <2>3
<1>14. GenFine(g)'
    <2>1. g <= gGoal'.active
        BY <1>3, <1>10 DEF GenFine
    <2>2. RowsOK(GraphPlans[gGen'[g].plan], gNode'[g], gAdm'[g])
        BY <1>2, <1>3, <1>6, <1>7
    <2>3. gGen'[g].plan \in DOMAIN GraphPlans /\ CompileGraph(gGen'[g].plan)
        BY <1>2, <1>3
    <2> QED BY <1>6, <1>12, <1>13, <2>1, <2>2, <2>3 DEF GenFine
<1>15. \A k \in GraphGens : GenFine(k)'
    BY <1>6, <1>14, GenStays DEF GraphInv
<1>17. \A b \in gBound' : BoundFine(b)'
    <2>1. \A k \in GraphGens : k < gGoal.active =>
              /\ EventsAgree(gGen[k].events, gGen'[k].events)
              /\ gGen'[k].plan = gGen[k].plan
        BY EventsAgreeSelf
    <2>2. gGoal.active \in Nat
        BY GoalTyped DEF GraphInv
    <2>3. gGoal.active <= gGoal'.active /\ gGoal'.active \in Nat
        BY <2>2
    <2> QED BY ONLY GraphInv, gBound' = gBound, <2>1, <2>3, BoundsStay
<1>18. GrantFine'
    BY GrantStays DEF GraphInv
<1>19. PassFine'
    <2>1. ASSUME gGoal.state = "SUCCEEDED" PROVE gGoal.active \in GraphGens /\ gGoal.active # g
        <3>1. gGoal.active \in GraphGens /\ gGen[gGoal.active].job = "SUCCEEDED"
            BY <2>1 DEF GraphInv, PassFine
        <3>2. gGen[g].job # "SUCCEEDED"
            <4>1. SUFFICES ASSUME gGen[g].job = "SUCCEEDED" PROVE FALSE
                OBVIOUS
            <4>2. Settled(rows[n])
                BY <1>1, <1>2, <1>3, <1>10, <4>1 DEF GenFine
            <4> QED BY <1>1, <4>2
        <3> QED BY <3>1, <3>2
    <2>2. ASSUME gGoal.state = "SUCCEEDED" PROVE gGen'[gGoal.active] = gGen[gGoal.active]
        BY <2>1, <2>2
    <2> QED BY <2>2, PassStays DEF GraphInvalidated
<1> QED BY <1>9, <1>15, <1>17, <1>18, <1>19

\* A Task that is queued or has an Attempt: its node has not settled and no
\* result of it is known.
LEMMA OpenTask ==
    ASSUME GraphInv, NEW g \in GraphGens, NEW n \in GraphNames,
           gNode[g][n].task \in LiveTask \cup {"QUEUED"}
    PROVE  /\ ~Settled(gNode[g][n]) /\ gNode[g][n].task # "none"
           /\ gNode[g][n].state \notin {"BLOCKED", "SKIPPED", "SUCCEEDED"}
           /\ gNode[g][n].out = "" /\ gAdm[g][n].state = "none"
           /\ gGen[g].job \notin GraphTerminal \cup {"none"}
<1>1. PICK r, a : r = gNode[g][n] /\ a = gAdm[g][n]
    OBVIOUS
<1>2. r.task # "none" /\ r.task # "SUCCEEDED" /\ r.task \in LiveTask \cup {"QUEUED"}
    BY <1>1 DEF LiveTask
<1>3. RowOK(r, a) /\ gGen[g].job # "none" /\ n \in ToSet(PlanOf(g).nodes)
    BY <1>1, <1>2, TaskBegun
<1>4. /\ r.state \notin {"BLOCKED", "SKIPPED", "SUCCEEDED"} /\ r.out = "" /\ a.state = "none"
    BY <1>2, <1>3 DEF RowOK
<1>5. ~Settled(r)
    BY <1>4 DEF Settled
<1>6. GenFine(g)
    BY DEF GraphInv
<1>7. gGen[g].job \notin {"FAILED", "CANCELED"}
    BY <1>1, <1>2, <1>6 DEF GenFine
<1>8. gGen[g].job # "SUCCEEDED"
    BY <1>1, <1>3, <1>5, <1>6 DEF GenFine, PlanOf
<1> QED BY <1>1, <1>2, <1>3, <1>4, <1>5, <1>7, <1>8 DEF GraphTerminal

LEMMA TaskStep ==
    ASSUME GraphInv, NEW g \in GraphGens, NEW n \in GraphNames, NEW from, NEW to, NEW a,
           from \subseteq LiveTask \cup {"QUEUED"},
           to \in {"QUEUED", "RUNNING", "RECONCILING", "SUCCEEDED", "FAILED", "CANCELED"},
           NodeTask(g, n, from, to), gMoves' \in Nat, a \in AdmissionRow,
           gAdm' = [gAdm EXCEPT ![g][n] = a],
           a.state = "none" \/ (a.state = "PENDING" /\ a.value # "" /\ to = "SUCCEEDED")
    PROVE  GraphInv'
<1>1. PICK old, new : old = gNode[g][n] /\ new = [old EXCEPT !.task = to]
    OBVIOUS
<1>2. gNode \in [GraphGens -> [GraphNames -> NodeRow]] /\ old \in NodeRow
    BY ZenonT(60), <1>1 DEF GraphInv, GraphTypeOK
<1>3. gNode[g][n].task \in LiveTask \cup {"QUEUED"}
    BY DEF NodeTask
<1>4. /\ ~Settled(gNode[g][n]) /\ gNode[g][n].task # "none"
      /\ old.state \notin {"BLOCKED", "SKIPPED", "SUCCEEDED"}
      /\ old.out = "" /\ gAdm[g][n].state = "none"
      /\ gGen[g].job \notin GraphTerminal \cup {"none"}
    BY <1>1, <1>3, OpenTask
<1>5. new \in NodeRow /\ new.task = to /\ new.state = old.state /\ new.out = old.out
    BY <1>1, <1>2 DEF NodeRow, GraphTerminal
<1>6. RowOK(new, a)
    BY <1>4, <1>5 DEF RowOK
<1>7. gNode' = [gNode EXCEPT ![g][n] = new]
    BY <1>1, <1>2 DEF NodeTask
<1>8. gGen' = gGen /\ gGoal' = gGoal /\ gBound' = gBound /\ gGrant' = gGrant
    BY DEF NodeTask
<1>9. /\ gGen'[g].job # "none" /\ gGen'[g].job \notin {"FAILED", "CANCELED"}
      /\ gGen'[g].job # "SUCCEEDED" /\ new.state # "SKIPPED"
    BY <1>4, <1>5, <1>8 DEF GraphTerminal
<1>10. /\ gNode' \in [GraphGens -> [GraphNames -> NodeRow]]
       /\ gAdm' \in [GraphGens -> [GraphNames -> AdmissionRow]]
       /\ \A k \in GraphGens : GenFine(k)'
       /\ \A b \in gBound' : BoundFine(b)'
       /\ GrantFine' /\ PassFine'
    BY <1>4, <1>6, <1>7, <1>8, <1>9, NodeStep
<1>11. GraphTypeOK'
    BY <1>10 DEF GraphInv, GraphTypeOK, NodeTask
<1> QED BY <1>8, <1>10, <1>11 DEF GraphInv

LEMMA SameAdmission ==
    ASSUME GraphInv, NEW g \in GraphGens, NEW n \in GraphNames, gAdm' = gAdm
    PROVE  gAdm' = [gAdm EXCEPT ![g][n] = gAdm[g][n]] /\ gAdm[g][n] \in AdmissionRow
<1>1. gAdm \in [GraphGens -> [GraphNames -> AdmissionRow]]
    BY DEF GraphInv, GraphTypeOK
<1> QED BY <1>1

LEMMA QuietTaskStep ==
    ASSUME GraphInv, NEW g \in GraphGens, NEW n \in GraphNames, NEW from, NEW to,
           from \subseteq LiveTask \cup {"QUEUED"},
           to \in {"QUEUED", "RUNNING", "RECONCILING", "FAILED", "CANCELED"},
           NodeTask(g, n, from, to), gMoves' \in Nat, gAdm' = gAdm
    PROVE  GraphInv'
<1>1. gNode[g][n].task \in LiveTask \cup {"QUEUED"}
    BY DEF NodeTask
<1>2. gAdm[g][n].state = "none"
    BY <1>1, OpenTask
<1>3. gAdm' = [gAdm EXCEPT ![g][n] = gAdm[g][n]] /\ gAdm[g][n] \in AdmissionRow
    BY SameAdmission
<1> QED BY <1>2, <1>3, TaskStep

LEMMA AssignStep ==
    ASSUME GraphInv, NEW g \in GraphGens, NEW n \in GraphNames, AssignNode(g, n)
    PROVE  GraphInv'
<1>1. NodeTask(g, n, {"QUEUED"}, "RUNNING") /\ gAdm' = gAdm /\ gMoves' \in Nat
    BY DEF AssignNode, GraphInv, GraphTypeOK
<1>2. {"QUEUED"} \subseteq LiveTask \cup {"QUEUED"}
    OBVIOUS
<1> QED BY <1>1, <1>2, QuietTaskStep

LEMMA NodeFailsStep ==
    ASSUME GraphInv, NEW g \in GraphGens, NEW n \in GraphNames, NodeFails(g, n)
    PROVE  GraphInv'
<1>1. /\ \/ NodeTask(g, n, {"RUNNING"}, "FAILED")
         \/ NodeTask(g, n, {"RUNNING"}, "RECONCILING")
         \/ NodeTask(g, n, {"RUNNING", "RECONCILING"}, "QUEUED")
      /\ gAdm' = gAdm /\ gMoves' \in Nat
    BY MoveTyped DEF NodeFails, GraphInv
<1>2. /\ {"RUNNING"} \subseteq LiveTask \cup {"QUEUED"}
      /\ {"RUNNING", "RECONCILING"} \subseteq LiveTask \cup {"QUEUED"}
    BY DEF LiveTask
<1> QED BY <1>1, <1>2, QuietTaskStep

LEMMA NodeStoppedStep ==
    ASSUME GraphInv, NEW g \in GraphGens, NEW n \in GraphNames, NodeStopped(g, n)
    PROVE  GraphInv'
<1>1. /\ \/ NodeTask(g, n, {"CANCELING"}, "CANCELED")
         \/ NodeTask(g, n, {"RECONCILING"}, "FAILED")
         \/ NodeTask(g, n, {"RUNNING"}, "FAILED")
      /\ gAdm' = gAdm /\ gMoves' \in Nat
    BY DEF NodeStopped, GraphInv, GraphTypeOK
<1>2. /\ {"CANCELING"} \subseteq LiveTask \cup {"QUEUED"}
      /\ {"RUNNING"} \subseteq LiveTask \cup {"QUEUED"}
      /\ {"RECONCILING"} \subseteq LiveTask \cup {"QUEUED"}
    BY DEF LiveTask
<1> QED BY <1>1, <1>2, QuietTaskStep

LEMMA NodeSucceedsStep ==
    ASSUME GraphInv, NEW g \in GraphGens, NEW n \in GraphNames, NEW value \in Verdicts,
           NodeSucceeds(g, n, value)
    PROVE  GraphInv'
<1>1. PICK a : a = [state |-> "PENDING", value |-> value]
    OBVIOUS
<1>2. /\ NodeTask(g, n, {"RUNNING"}, "SUCCEEDED") /\ gMoves' \in Nat
      /\ gAdm' = [gAdm EXCEPT ![g][n] = a]
    BY <1>1 DEF NodeSucceeds, GraphInv, GraphTypeOK
<1>3. {"RUNNING"} \subseteq LiveTask \cup {"QUEUED"}
    BY DEF LiveTask
<1>4. a \in AdmissionRow /\ a.state = "PENDING" /\ a.value = value /\ value # ""
    BY <1>1 DEF AdmissionRow, Verdicts
<1> QED BY <1>2, <1>3, <1>4, TaskStep

\* admitGraphCandidate: a candidate is of a Task that succeeded and of which
\* nothing is admitted yet, so its Job has not succeeded.
LEMMA AdmitStep ==
    ASSUME GraphInv, NEW g \in GraphGens, NEW n \in GraphNames, NEW good \in BOOLEAN,
           AdmitCandidate(g, n, good)
    PROVE  GraphInv'
<1> DEFINE stale == AdmissionReason(g)
<1>1. PICK reason : reason = IF stale = "" /\ ~good THEN "MEMORY_ADMISSION_REJECTED" ELSE stale
    OBVIOUS
<1>2. PICK quiet : quiet = (reason \in {"STALE_GENERATION", "CANCELED"})
    OBVIOUS
<1>3. PICK old, a : old = gNode[g][n] /\ a = gAdm[g][n]
    OBVIOUS
<1>4. PICK to : to = IF reason = "" THEN "ADMITTED" ELSE "REJECTED"
    OBVIOUS
<1>5. /\ a.state = "PENDING"
      /\ gAdm' = [gAdm EXCEPT ![g][n].state = to]
      /\ gNode' = IF reason = "" THEN [gNode EXCEPT ![g][n].out = gAdm[g][n].value]
                  ELSE IF quiet THEN gNode
                  ELSE [gNode EXCEPT ![g][n].state = "FAILED"]
      /\ gGen' = IF reason = "" \/ quiet THEN gGen
                 ELSE [gGen EXCEPT ![g].job = "STOPPING", ![g].reason = reason]
      /\ UNCHANGED <<gGoal, gProjected, gReceipts, gCovering, gReads, gGrant, gBound, gLate>>
    BY <1>1, <1>2, <1>3, <1>4, Zenon DEF AdmitCandidate
<1>6. gMoves' \in Nat
    <2>1. IF good THEN UNCHANGED gMoves ELSE GraphMove
        BY Zenon DEF AdmitCandidate
    <2> QED BY <2>1, MoveTyped DEF GraphInv, GraphTypeOK
<1>7. /\ gNode \in [GraphGens -> [GraphNames -> NodeRow]] /\ old \in NodeRow
      /\ gAdm \in [GraphGens -> [GraphNames -> AdmissionRow]] /\ a \in AdmissionRow
      /\ gGen \in [GraphGens -> GenerationRow] /\ gGen[g] \in GenerationRow
    BY <1>3 DEF GraphInv, GraphTypeOK
<1>8. RowOK(old, a)
    <2>1. GenFine(g)
        BY DEF GraphInv
    <2>2. NoAdmission.state = "none"
        BY DEF NoAdmission
    <2>3. gGen[g].job # "none"
        BY <1>3, <1>5, <2>1, <2>2 DEF GenFine
    <2>4. RowsOK(GraphPlans[gGen[g].plan], gNode[g], gAdm[g])
        BY <2>1, <2>3 DEF GenFine
    <2> QED BY <1>3, <2>4 DEF RowsOK
<1>9. old.task = "SUCCEEDED" /\ a.value # "" /\ old.out = ""
    BY <1>5, <1>8 DEF RowOK
<1>10. old.state \notin {"BLOCKED", "SKIPPED", "SUCCEEDED"}
    BY <1>8, <1>9 DEF RowOK
<1>11. /\ ~Settled(gNode[g][n]) /\ gNode[g][n].task # "none"
    BY <1>3, <1>5, <1>9, <1>10 DEF Settled
<1>12. /\ gGen[g].job # "none" /\ n \in ToSet(PlanOf(g).nodes)
       /\ gGen[g].job \in {"FAILED", "CANCELED"} => gGen[g].reason # ""
       /\ gGen[g].job # "SUCCEEDED"
    <2>1. gGen[g].job # "none" /\ n \in ToSet(PlanOf(g).nodes)
        BY <1>11, TaskBegun
    <2>2. GenFine(g)
        BY DEF GraphInv
    <2> QED BY <1>11, <2>1, <2>2 DEF GenFine, PlanOf
<1>13. PICK b : b = [a EXCEPT !.state = to]
    OBVIOUS
<1>14. b \in AdmissionRow /\ b.state = to /\ b.value = a.value
    BY <1>4, <1>7, <1>13 DEF AdmissionRow
<1>15. gAdm' = [gAdm EXCEPT ![g][n] = b]
    BY <1>3, <1>5, <1>7, <1>13
<1>16. old.task \notin LiveTask \cup {"QUEUED"}
    BY <1>9 DEF LiveTask
<1>17. PICK r : r = IF reason = "" THEN [old EXCEPT !.out = a.value]
                    ELSE IF quiet THEN old ELSE [old EXCEPT !.state = "FAILED"]
    OBVIOUS
<1>18. /\ r \in NodeRow /\ r.task = old.task
       /\ r.state = IF reason = "" \/ quiet THEN old.state ELSE "FAILED"
       /\ r.out = IF reason = "" THEN a.value ELSE old.out
    <2>1. a.value \in Verdicts \cup {""}
        BY <1>7 DEF AdmissionRow
    <2> QED BY <1>7, <1>17, <2>1 DEF NodeRow, GraphTerminal
<1>19. RowOK(r, b)
    BY <1>4, <1>9, <1>10, <1>14, <1>18 DEF RowOK
<1>20. gNode' = [gNode EXCEPT ![g][n] = r]
    BY <1>3, <1>5, <1>7, <1>17
<1>21. reason = "" \/ quiet \/ reason \in GraphReasons
    BY <1>1, <1>2 DEF AdmissionReason, GraphReasons
<1>23. /\ gGen' \in [GraphGens -> GenerationRow]
       /\ \A k \in GraphGens : Len(gGen'[k].events) <= MaxRevisions
       /\ \A k \in GraphGens : k # g => gGen'[k] = gGen[k]
       /\ gGen'[g].events = gGen[g].events /\ gGen'[g].plan = gGen[g].plan
       /\ gGen'[g] = gGen[g] \/ gGen'[g].job = "STOPPING"
    <2>1. CASE reason = "" \/ quiet
        <3>1. gGen' = gGen
            BY <1>5, <2>1
        <3> QED BY <3>1 DEF GraphInv, GraphTypeOK
    <2>2. CASE reason # "" /\ ~quiet
        <3>1. PICK new : new = [[gGen[g] EXCEPT !.job = "STOPPING"] EXCEPT !.reason = reason]
            OBVIOUS
        <3>2. gGen' = [gGen EXCEPT ![g].job = "STOPPING", ![g].reason = reason]
            BY <1>5, <2>2
        <3>3. gGen' = [gGen EXCEPT ![g] = new]
            BY <1>7, <3>1, <3>2
        <3>4. /\ new \in GenerationRow /\ new.events = gGen[g].events /\ new.plan = gGen[g].plan
              /\ new.job = "STOPPING"
            BY <1>7, <1>21, <2>2, <3>1 DEF GenerationRow
        <3>5. Len(new.events) <= MaxRevisions
            BY <3>4 DEF GraphInv, GraphTypeOK
        <3>6. /\ gGen' \in [GraphGens -> GenerationRow]
              /\ \A k \in GraphGens : Len(gGen'[k].events) <= MaxRevisions
              /\ gGen'[g] = new /\ \A k \in GraphGens : k # g => gGen'[k] = gGen[k]
            BY <3>3, <3>4, <3>5, GenTyped DEF GraphInv
        <3> QED BY <3>4, <3>6
    <2> QED BY <2>1, <2>2
<1>24. /\ gGen'[g].job # "none" /\ r.state # "SKIPPED" /\ gGen'[g].job # "SUCCEEDED"
       /\ gGen'[g].job \in {"FAILED", "CANCELED"} =>
             gGen'[g] = gGen[g] /\ r.task \notin LiveTask \cup {"QUEUED"}
    BY <1>10, <1>12, <1>16, <1>18, <1>23
<1>25. gGoal' = gGoal /\ gBound' = gBound /\ gGrant' = gGrant
    BY <1>5
<1>26. /\ gNode' \in [GraphGens -> [GraphNames -> NodeRow]]
       /\ gAdm' \in [GraphGens -> [GraphNames -> AdmissionRow]]
       /\ \A k \in GraphGens : GenFine(k)'
       /\ \A c \in gBound' : BoundFine(c)'
       /\ GrantFine' /\ PassFine'
    BY <1>11, <1>14, <1>15, <1>19, <1>20, <1>23, <1>24, <1>25, NodeStep
<1>27. GraphTypeOK'
    BY <1>5, <1>6, <1>23, <1>26 DEF GraphInv, GraphTypeOK
<1> QED BY <1>25, <1>26, <1>27 DEF GraphInv

LEMMA AdvanceStep ==
    ASSUME GraphInv, NEW g \in GraphGens, NEW room, NEW fits \in BOOLEAN,
           AdvanceGraph(g, room, fits)
    PROVE  GraphInv'
<1>1. PICK t : t = GraphTick(g, room, fits)
    OBVIOUS
<1>2. /\ gGen[g].job \notin GraphTerminal \cup {"none"}
      /\ gNode' = [gNode EXCEPT ![g] = t.nodes]
      /\ gGen' = [gGen EXCEPT ![g].job = t.job, ![g].reason = t.reason, ![g].output = t.output]
      /\ gGoal' = GoalAfterJob(g, t.job) /\ gBound' = t.bound
      /\ UNCHANGED <<gAdm, gProjected, gReceipts, gCovering, gReads, gGrant, gLate>>
    BY <1>1 DEF AdvanceGraph
<1>3. gMoves' \in Nat
    BY MoveTyped DEF AdvanceGraph, GraphInv, GraphTypeOK
<1>4. PICK old : old = gGen[g]
    OBVIOUS
<1>5. /\ gNode \in [GraphGens -> [GraphNames -> NodeRow]]
      /\ gGen \in [GraphGens -> GenerationRow] /\ old \in GenerationRow
      /\ Len(old.events) <= MaxRevisions
    BY <1>4 DEF GraphInv, GraphTypeOK
<1>6. GenFine(g)
    BY DEF GraphInv
<1>7. /\ gGen[g].plan \in DOMAIN GraphPlans /\ CompileGraph(gGen[g].plan)
      /\ RowsOK(PlanOf(g), gNode[g], gAdm[g]) /\ g <= gGoal.active
    BY <1>2, <1>6 DEF GenFine, PlanOf
<1>8. TickFine(g, t)
    <2>1. gNode[g] \in [GraphNames -> NodeRow] /\ gGen[g].reason \in GraphReasons
        BY <1>4, <1>5 DEF GenerationRow
    <2>2. \A b \in gBound : BoundFine(b)
        BY DEF GraphInv
    <2> QED BY <1>1, <1>7, <2>1, <2>2, TicksFine
<1>9. /\ t.nodes \in [GraphNames -> NodeRow] /\ RowsOK(PlanOf(g), t.nodes, gAdm[g])
      /\ \A b \in t.bound : BoundFine(b)
      /\ t.reason \in GraphReasons /\ t.output \in {"", "ok", "stopped"}
      /\ t.job \in {"EXECUTING", "STOPPING"} \cup GraphTerminal
      /\ t.job \in {"FAILED", "CANCELED"} =>
            /\ t.reason # ""
            /\ \A n \in GraphNames : t.nodes[n].task \notin LiveTask \cup {"QUEUED"}
      /\ t.job = "SUCCEEDED" => \A n \in ToSet(PlanOf(g).nodes) : Settled(t.nodes[n])
    BY <1>8 DEF TickFine
<1>10. PICK new : new = [[[old EXCEPT !.job = t.job] EXCEPT !.reason = t.reason]
                            EXCEPT !.output = t.output]
    OBVIOUS
<1>11. /\ new \in GenerationRow /\ new.events = old.events /\ new.plan = old.plan
       /\ new.job = t.job /\ new.reason = t.reason /\ new.eval = old.eval
    BY <1>5, <1>9, <1>10 DEF GenerationRow, GraphTerminal
<1>12. gGen' = [gGen EXCEPT ![g] = new]
    BY <1>2, <1>4, <1>5, <1>10
<1>13. /\ gGen' \in [GraphGens -> GenerationRow]
       /\ \A k \in GraphGens : Len(gGen'[k].events) <= MaxRevisions
       /\ gGen'[g] = new /\ \A k \in GraphGens : k # g => gGen'[k] = gGen[k]
    BY <1>5, <1>11, <1>12, GenTyped DEF GraphInv
<1>14. /\ gNode' \in [GraphGens -> [GraphNames -> NodeRow]]
       /\ gNode'[g] = t.nodes /\ \A k \in GraphGens : k # g => gNode'[k] = gNode[k]
    BY <1>2, <1>5, <1>9
<1>15. /\ gGoal' \in GraphGoalRow /\ gGoal'.active = gGoal.active
       /\ gGoal'.state = "SUCCEEDED" => gGoal' = gGoal
       /\ gGoal'.state = "none" <=> gGoal.state = "none"
    <2>1. gGoal \in GraphGoalRow
        BY DEF GraphInv, GraphTypeOK
    <2>2. CASE gGoal' = gGoal
        BY <2>1, <2>2
    <2>3. CASE gGoal' # gGoal
        <3>1. PICK s : s = IF t.job = "CANCELED" THEN "CANCELED" ELSE "EVALUATING"
            OBVIOUS
        <3>2. gGoal' = [gGoal EXCEPT !.state = s] /\ gGoal.state \in {"GRAPH_READY", "REPLANNING"}
            BY <1>2, <2>3, <3>1 DEF GoalAfterJob
        <3> QED BY <2>1, <3>1, <3>2 DEF GraphGoalRow, GraphTerminal
    <2> QED BY <2>2, <2>3
<1>16. GraphTypeOK'
    BY <1>2, <1>3, <1>13, <1>14, <1>15 DEF GraphInv, GraphTypeOK
<1>17. GenFine(g)'
    <2>1. gGen'[g].job = t.job /\ gGen'[g].reason = t.reason /\ gGen'[g].plan = gGen[g].plan
        BY <1>4, <1>11, <1>13
    <2>2. t.job # "none"
        BY <1>9 DEF GraphTerminal
    <2>3. gNode'[g] = t.nodes /\ gAdm'[g] = gAdm[g] /\ gGoal'.active = gGoal.active
        BY <1>2, <1>14, <1>15
    <2> QED BY <1>7, <1>9, <2>1, <2>2, <2>3 DEF GenFine, PlanOf
<1>18. \A k \in GraphGens : GenFine(k)'
    BY <1>2, <1>13, <1>14, <1>15, <1>17, GenStays DEF GraphInv
<1>19. \A k \in GraphGens : /\ EventsAgree(gGen[k].events, gGen'[k].events)
                            /\ gGen'[k].plan = gGen[k].plan
    BY <1>4, <1>11, <1>13, EventsAgreeSelf
<1>20. \A b \in gBound' : BoundFine(b)'
    <2>1. SUFFICES ASSUME NEW b \in t.bound PROVE BoundFine(b)'
        BY <1>2
    <2>2. BoundFine(b)
        BY <1>9
    <2>3. b.source \in GraphGens /\ b.gen <= gGoal.active
        BY <2>2 DEF BoundFine
    <2>4. b.gen <= gGoal'.active
        BY <1>15, <2>3
    <2> QED BY <1>19, <2>2, <2>3, <2>4, BoundStays
<1>21. GrantFine'
    BY <1>2, GrantStays DEF GraphInv
<1>22. PassFine'
    <2>1. ASSUME gGoal.state = "SUCCEEDED" PROVE gGen'[gGoal.active] = gGen[gGoal.active]
        <3>1. gGoal.active \in GraphGens /\ gGen[gGoal.active].job = "SUCCEEDED"
            BY <2>1 DEF GraphInv, PassFine
        <3>2. gGoal.active # g
            BY <1>2, <3>1 DEF GraphTerminal
        <3> QED BY <1>13, <3>1, <3>2
    <2> QED BY <1>15, <2>1, PassStays DEF GraphInvalidated
<1> QED BY <1>15, <1>16, <1>18, <1>20, <1>21, <1>22 DEF GraphInv

\* publishGraphReplanWithRecovery: the bindings of the new generation come
\* from the grant, whose source is checked in the same transaction.
LEMMA ReplanStep ==
    ASSUME GraphInv, NEW name \in DOMAIN GraphPlans, PublishGraphReplan(name)
    PROVE  GraphInv'
<1>1. PICK g, p : g = gGoal.active /\ p = GraphPlans[name]
    OBVIOUS
<1>2. /\ gGoal.state = "REPLAN_GUARDING" /\ g < MaxGraphGen /\ CompileGraph(name)
      /\ ImportsBind(name, g + 1)
      /\ gGoal' = [state |-> "REPLANNING", active |-> g + 1]
      /\ gGen' = [gGen EXCEPT ![g + 1] = [NoGeneration EXCEPT !.plan = name, !.job = "QUEUED"]]
      /\ gBound' = gBound \cup {BindImport("import", g + 1, n) : n \in p.imports}
                          \cup {BindImport("offer", g + 1, n) : n \in p.reuse}
      /\ gGrant' = IF p.imports \cup p.reuse = {} THEN gGrant
                   ELSE [gGrant EXCEPT !.state = "CONSUMED"]
      /\ UNCHANGED <<gNode, gAdm, gProjected, gReceipts, gCovering, gReads, gLate, gMoves>>
    BY <1>1 DEF PublishGraphReplan
<1>3. g \in GraphGens /\ g \in Nat /\ MaxGraphGen \in Nat
    BY <1>1, <1>2, ActiveGen, GensAreNaturals
<1>4. /\ g + 1 \in GraphGens /\ gGoal'.active = g + 1 /\ gGoal'.state = "REPLANNING"
      /\ gGoal' \in GraphGoalRow
    <2>1. g + 1 \in 1 .. MaxGraphGen
        BY <1>2, <1>3
    <2> QED BY <1>2, <2>1, GensAreNaturals DEF GraphGens, GraphGoalRow
<1>5. /\ gGen' \in [GraphGens -> GenerationRow]
      /\ \A k \in GraphGens : Len(gGen'[k].events) <= MaxRevisions
      /\ \A k \in GraphGens : k # g + 1 => gGen'[k] = gGen[k]
      /\ \A k \in GraphGens : GenFine(k)'
    BY <1>1, <1>2, <1>4, GenBegins
<1>6. gGrant' \in GrantRow /\ (gGrant'.state = "ISSUED" => gGrant' = gGrant)
    <2>1. gGrant \in GrantRow
        BY DEF GraphInv, GraphTypeOK
    <2> QED BY <1>2, <2>1 DEF GrantRow
<1>7. GraphTypeOK'
    BY <1>2, <1>4, <1>5, <1>6 DEF GraphInv, GraphTypeOK
<1>9. \A b \in gBound : BoundFine(b)'
    <2>1. SUFFICES ASSUME NEW b \in gBound PROVE BoundFine(b)'
        OBVIOUS
    <2>2. BoundFine(b)
        BY DEF GraphInv
    <2>3. /\ b.source \in GraphGens /\ b.gen \in GraphGens /\ b.source < b.gen
          /\ b.gen <= g
        BY <1>1, <2>2 DEF BoundFine
    <2>4. b.source \in Nat /\ b.gen \in Nat
        BY <2>3, GensAreNaturals
    <2>5. b.source # g + 1 /\ b.gen <= g + 1
        BY <1>3, <2>3, <2>4
    <2>6. gGen'[b.source] = gGen[b.source] /\ gAdm' = gAdm
        BY <1>2, <1>5, <2>3, <2>5
    <2> QED BY <1>4, <2>2, <2>3, <2>5, <2>6, BoundStays, EventsAgreeSelf
<1>10. ASSUME NEW kind \in {"import", "offer"}, NEW n \in p.imports \cup p.reuse,
              kind = "offer" => p.reuse # {}, NEW b, b = BindImport(kind, g + 1, n)
       PROVE  BoundFine(b)'
    <2>1. /\ gGrant.state = "ISSUED" /\ gGrant.target = g + 1
          /\ ImportSource(gGrant.source, gGrant.node, gGrant.revision)
          /\ kind = "offer" => ReuseFits
        BY <1>1, <1>2, <1>10 DEF ImportsBind
    <2>2. PICK s, m : s = gGrant.source /\ m = gGrant.node
        OBVIOUS
    <2>3. s \in GraphGens /\ m \in GraphNames /\ n \in GraphNames /\ s < g + 1
        <3>1. n \in ToSet(p.nodes)
            BY <1>1, <1>2 DEF CompileGraph, BindingsDeclared
        <3>2. n \in GraphNames
            BY <1>1, <3>1, NamesOfPlans
        <3> QED BY <2>1, <2>2, <3>2 DEF GraphInv, GrantFine
    <2>4. GraphRevision(s) = gGrant.revision /\ RecordValid(s, m)
        BY <2>1, <2>2 DEF ImportSource
    <2>5. gNode[s][m].out \in Verdicts \cup {""} /\ (kind = "offer" => gNode[s][m].out # "")
        <3>1. gNode[s][m] \in NodeRow
            BY <2>3 DEF GraphInv, GraphTypeOK
        <3>2. ASSUME kind = "offer" PROVE gNode[s][m].out # ""
            <4>1. gNode[s][m].task # "none" /\ gNode[s][m].state = "SUCCEEDED"
                BY <2>1, <2>2, <3>2 DEF ReuseFits
            <4>2. RowOK(gNode[s][m], gAdm[s][m])
                BY <2>3, <4>1, TaskBegun
            <4> QED BY <4>1, <4>2 DEF RowOK
        <3> QED BY <3>1, <3>2 DEF NodeRow
    <2>6. GraphRevision(s) \in 0 .. MaxRevisions
        BY <2>3, RevisionTyped DEF GraphInv
    <2>7. PICK out, key, rev : /\ out = gNode[s][m].out /\ rev = gGrant.revision
                               /\ key = ReuseKey(s, gNode[s], m)
        OBVIOUS
    <2>9. b = [kind |-> kind, gen |-> g + 1, node |-> n, source |-> s, from |-> m,
               revision |-> rev, out |-> out, key |-> key]
        BY <1>10, <2>2, <2>7 DEF BindImport
    <2>10. /\ b.kind = kind /\ b.gen = g + 1 /\ b.node = n /\ b.source = s /\ b.from = m
           /\ b.revision = rev /\ b.out = out /\ b.key = key
        BY ONLY <2>9
    <2>11. b \in [kind : {"import", "offer", "REUSE", "RECOMPUTE"}, gen : GraphGens,
                  node : GraphNames, source : GraphGens, from : GraphNames,
                  revision : 0 .. MaxRevisions, out : Verdicts \cup {""}, key : {key}]
        <3>1. /\ g + 1 \in GraphGens /\ n \in GraphNames /\ s \in GraphGens /\ m \in GraphNames
              /\ rev \in 0 .. MaxRevisions /\ out \in Verdicts \cup {""}
              /\ kind \in {"import", "offer", "REUSE", "RECOMPUTE"}
            BY <1>4, <2>3, <2>4, <2>5, <2>6, <2>7
        <3> QED BY ONLY <2>9, <3>1
    <2>12. gGen'[s] = gGen[s]
        <3>1. s # g + 1
            BY <1>3, <2>3, GensAreNaturals
        <3> QED BY <1>5, <2>3, <3>1
    <2>13. GraphRevision(s)' = rev /\ RecordValid(s, m)'
        BY <2>4, <2>7, <2>12 DEF GraphRevision, RecordValid
    <2>14. b.gen <= gGoal'.active
        BY <1>3, <1>4, <2>10
    <2>15. b.kind # "import" => b.out # ""
        BY <2>5, <2>7, <2>10
    <2> QED BY <2>3, <2>10, <2>11, <2>13, <2>14, <2>15 DEF BoundFine
<1>11. \A b \in gBound' : BoundFine(b)'
    BY <1>2, <1>9, <1>10
<1>12. GrantFine'
    BY <1>6 DEF GraphInv, GrantFine
<1>13. PassFine'
    BY <1>4 DEF PassFine
<1>14. gGoal'.state # "none" /\ gGoal'.active # 0
    BY <1>3, <1>4
<1> QED BY <1>5, <1>7, <1>11, <1>12, <1>13, <1>14 DEF GraphInv

LEMMA GraphBegins ==
    ASSUME GraphInit
    PROVE  GraphInv
<1>1. /\ gGoal = [state |-> "none", active |-> 0]
      /\ gGen = [g \in GraphGens |-> NoGeneration]
      /\ gNode = [g \in GraphGens |-> [n \in GraphNames |-> NoNode]]
      /\ gAdm = [g \in GraphGens |-> [n \in GraphNames |-> NoAdmission]]
      /\ gReads = [g \in GraphGens |-> [n \in GraphNames |-> 0]]
      /\ gGrant = NoGrant /\ gBound = {}
    BY DEF GraphInit
<1>2. NoGeneration \in GenerationRow /\ NoGeneration.job = "none" /\ Len(NoGeneration.events) <= MaxRevisions
    <2>1. NoEvaluation \in EvalRow
        BY GensAreNaturals DEF NoEvaluation, EvalRow
    <2>2. "" \in GraphReasons /\ <<>> \in Seq(EventRow) /\ Len(<<>>) = 0
        BY DEF GraphReasons
    <2>3. NoGeneration.job = "none" /\ NoGeneration.events = <<>>
        BY DEF NoGeneration
    <2>4. NoGeneration \in GenerationRow
        BY <2>1, <2>2 DEF NoGeneration, GenerationRow
    <2>5. Len(NoGeneration.events) = 0
        BY ONLY <2>2, <2>3
    <2> QED BY ONLY <2>3, <2>4, <2>5, GensAreNaturals
<1>3. NoNode \in NodeRow /\ NoAdmission \in AdmissionRow
    BY DEF NoNode, NoAdmission, NodeRow, AdmissionRow
<1>4. NoGrant \in GrantRow /\ NoGrant.state = "none"
    <2>1. 0 \in 0 .. MaxGraphGen /\ 0 \in 0 .. MaxRevisions
        BY GensAreNaturals
    <2> QED BY <2>1 DEF NoGrant, GrantRow
<1>5. gGoal \in GraphGoalRow /\ gGoal.state = "none" /\ gGoal.active = 0
    BY <1>1, GensAreNaturals DEF GraphGoalRow
<1>6. GraphTypeOK
    <2>1. gGen \in [GraphGens -> GenerationRow] /\ \A g \in GraphGens : gGen[g] = NoGeneration
        BY <1>1, <1>2
    <2>2. \A g \in GraphGens : Len(gGen[g].events) <= MaxRevisions
        BY <1>2, <2>1
    <2>3. /\ gNode \in [GraphGens -> [GraphNames -> NodeRow]]
          /\ gAdm \in [GraphGens -> [GraphNames -> AdmissionRow]]
        BY <1>1, <1>3
    <2>4. gReads \in [GraphGens -> [GraphNames -> 0 .. MaxReads]]
        <3>1. 0 \in 0 .. MaxReads
            BY GensAreNaturals
        <3> QED BY <1>1, <3>1
    <2> QED BY <1>1, <1>4, <1>5, <2>1, <2>2, <2>3, <2>4 DEF GraphTypeOK, GraphInit
<1>7. ASSUME NEW g \in GraphGens PROVE GenFine(g)
    <2>1. gGen[g] = NoGeneration /\ \A n \in GraphNames : gNode[g][n] = NoNode /\ gAdm[g][n] = NoAdmission
        BY <1>1
    <2>2. gGen[g].job = "none"
        BY <1>2, <2>1
    <2>3. ~(g <= gGoal.active)
        BY <1>5, GensAreNaturals DEF GraphGens
    <2> QED BY <2>1, <2>2, <2>3 DEF GenFine
<1>8. GrantFine /\ PassFine
    BY <1>1, <1>4, <1>5 DEF GrantFine, PassFine
<1> QED BY <1>1, <1>5, <1>6, <1>7, <1>8 DEF GraphInv

LEMMA GraphSteps ==
    ASSUME GraphInv, [GraphNext]_graphVars
    PROVE  GraphInv'
<1>1. CASE UNCHANGED graphVars
    <2>1. GraphTypeOK'
        BY <1>1 DEF GraphInv, GraphTypeOK, graphVars
    <2> QED BY <1>1, <2>1, QuietStep DEF GraphInv, graphVars
<1>2. CASE GraphNext
    <2>1. ASSUME NEW g \in GraphGens, NEW room \in 0 .. 1, NEW fits \in BOOLEAN,
                 AdvanceGraph(g, room, fits)
          PROVE  GraphInv'
        BY <2>1, AdvanceStep
    <2>2. ASSUME NEW g \in GraphGens, NEW verdict \in Verdicts,
                 \/ BeginCoverage(g, verdict)
                 \/ \E cites \in SUBSET gReceipts : EvaluateGraph(g, verdict, cites)
                 \/ \E n \in GraphNames : VerifyGraphRecord(g, n, verdict)
          PROVE  GraphInv'
        BY <2>2, BeginCoverageStep, EvaluateStep, VerifyRecordStep
    <2>3. ASSUME NEW g \in GraphGens, NEW n \in GraphNames,
                 \/ AssignNode(g, n)
                 \/ \E value \in Verdicts : NodeSucceeds(g, n, value)
                 \/ NodeFails(g, n)
                 \/ NodeStopped(g, n)
                 \/ \E good \in BOOLEAN : AdmitCandidate(g, n, good)
                 \/ ReadGraphSource(g, n)
                 \/ \E reuse \in BOOLEAN : IssueGraphImport(g, n, reuse)
          PROVE  GraphInv'
        BY <2>3, AssignStep, NodeSucceedsStep, NodeFailsStep, NodeStoppedStep, AdmitStep,
           ReadSourceStep, IssueImportStep
    <2>4. ASSUME NEW g \in GraphGens,
                 \/ \E n \in GraphNames : InvalidateGraph(g, {n})
                 \/ ApplyInvalidation(g)
                 \/ CancelGraph(g)
                 \/ FailExecution(g)
          PROVE  GraphInv'
        BY <2>4, InvalidateStep, ApplyStep, CancelStep, FailStep
    <2>5. ASSUME \E p \in DOMAIN GraphPlans : SubmitGraph(p) \/ PublishGraphReplan(p)
          PROVE  GraphInv'
        BY <2>5, SubmitStep, ReplanStep
    <2>6. ASSUME \/ EndCoverage \/ ExpireGraphGoal \/ GraphDeadline
                 \/ \E to \in {"REVOKED", "EXPIRED"} : EndGraphImport(to)
          PROVE  GraphInv'
        BY <2>6, EndCoverageStep, ExpireStep, DeadlineStep, EndImportStep
    <2> QED BY <1>2, <2>1, <2>2, <2>3, <2>4, <2>5, <2>6, Zenon DEF GraphNext
<1> QED BY <1>1, <1>2

\* The graph of a Goal stays in its inductive invariant.
THEOREM GraphSafe == GraphSpec => []GraphInv
<1>1. GraphInit => GraphInv
    BY GraphBegins
<1>2. GraphInv /\ [GraphNext]_graphVars => GraphInv'
    BY GraphSteps
<1> QED BY <1>1, <1>2, PTL DEF GraphSpec

\* Every row has its type, the state machines of goals, iu_nodes and
\* iu_admissions included, and no list of events passes its limit.
THEOREM GraphTyped == GraphSpec => []GraphTypeOK
<1>1. GraphInv => GraphTypeOK
    BY DEF GraphInv
<1> QED BY <1>1, GraphSafe, PTL

\* An ended graph Job has no Task left (stopGraphTx, advanceGraphTx).
THEOREM GraphSettles == GraphSpec => []GraphJobSettled
<1>1. ASSUME GraphInv, NEW g \in GraphGens, gGen[g].job \in GraphTerminal, NEW n \in GraphNames
      PROVE  gNode[g][n].task \notin LiveTask \cup {"QUEUED"}
    <2>1. SUFFICES ASSUME gNode[g][n].task \in LiveTask \cup {"QUEUED"} PROVE FALSE
        OBVIOUS
    <2> QED BY <1>1, <2>1, OpenTask
<1>2. GraphInv => GraphJobSettled
    BY <1>1 DEF GraphJobSettled
<1> QED BY <1>2, GraphSafe, PTL

\* A Goal that succeeded stands on evidence nothing has contradicted
\* (applyGraphEvaluationTx, admitGraphCandidate).
THEOREM GraphPassesStand == GraphSpec => []GraphPassStands
<1>1. ASSUME GraphInv, gGoal.state = "SUCCEEDED"
      PROVE  GraphPassStands
    <2>1. PICK a : a = gGoal.active
        OBVIOUS
    <2>2. /\ a \in GraphGens /\ gGen[a].job = "SUCCEEDED" /\ gGen[a].eval.verdict = "PASS"
          /\ ~GraphInvalidated(a)
          /\ PlanOf(a).coverage => \E r \in gGen[a].eval.cites : r.kind = "coverage"
          /\ \A r \in gGen[a].eval.cites : r.verdict = "PASS" /\ r.gen = a
        BY <1>1, <2>1 DEF GraphInv, PassFine
    <2>3. ASSUME NEW n \in ToSet(PlanOf(a).nodes), gNode[a][n].task # "none"
          PROVE  gAdm[a][n].state = "ADMITTED"
        <3>1. GenFine(a)
            BY <1>1, <2>2 DEF GraphInv
        <3>2. /\ gGen[a].plan \in DOMAIN GraphPlans /\ Settled(gNode[a][n])
              /\ RowsOK(PlanOf(a), gNode[a], gAdm[a])
            BY <2>2, <2>3, <3>1 DEF GenFine, PlanOf
        <3>3. n \in GraphNames
            BY <3>2, NamesOfPlans DEF PlanOf
        <3>4. RowOK(gNode[a][n], gAdm[a][n])
            BY <3>2, <3>3 DEF RowsOK
        <3> QED BY <2>3, <3>2, <3>4 DEF RowOK, Settled
    <2> QED BY <2>1, <2>2, <2>3 DEF GraphPassStands
<1>2. GraphInv => GraphPassStands
    BY <1>1 DEF GraphPassStands
<1> QED BY <1>2, GraphSafe, PTL

\* What a generation has from an earlier one still stands there
\* (bindGraphImportsTx, activateReuseTx, invalidateGraphTx).
THEOREM ImportsKeepStanding == GraphSpec => []ImportsStand
<1>1. GraphInv => ImportsStand
    BY DEF GraphInv, ImportsStand, BoundFine
<1> QED BY <1>1, GraphSafe, PTL

----------------------------------------------------------------------------
(* Confluence *)

FateOn(g, fate, e) == fate[e.from] /\ e.when \in {"", gNode[g][e.from].out}

Chosen(g, fate, n) ==
    IF PlanOf(g).kind[n] = "selected"
    THEN \E e \in GraphEdges(PlanOf(g), n) : FateOn(g, fate, e)
    ELSE \A e \in GraphEdges(PlanOf(g), n) : FateOn(g, fate, e)

\* The states of GraphFate as it goes through the nodes, in the order s.
Fates(f, g, s) ==
    f = [i \in 0 .. Len(s) |->
            IF i = 0 THEN [n \in ToSet(PlanOf(g).nodes) |-> FALSE]
            ELSE [f[i - 1] EXCEPT ![s[i]] = Chosen(g, f[i - 1], s[i])]]

\* The recursion of GraphFate has a solution.
LEMMA FateRuns ==
    ASSUME NEW g, NEW s, s = PlanOrder[gGen[g].plan], Len(s) \in Nat
    PROVE  \E f : Fates(f, g, s) /\ GraphFate(g) = f[Len(s)]
<1> DEFINE none == [n \in ToSet(PlanOf(g).nodes) |-> FALSE]
           D(h, m) == [i \in 0 .. m |->
                         IF i = 0 THEN none
                         ELSE [h[i - 1] EXCEPT ![s[i]] = Chosen(g, h[i - 1], s[i])]]
           S == {m \in Nat : \E h : h = D(h, m)}
<1>1. PICK start : start = none
    OBVIOUS
<1>2. 0 \in S
    <2>1. PICK h : h = [i \in 0 .. 0 |-> start]
        OBVIOUS
    <2>2. h = D(h, 0)
        <3> HIDE DEF none
        <3> QED BY <1>1, <2>1
    <2> QED BY <2>2
<1>3. ASSUME NEW m \in Nat, m \in S PROVE m + 1 \in S
    <2>1. PICK h : h = D(h, m)
        BY <1>3
    <2> HIDE DEF none
    <2>2. PICK last : last = [h[m] EXCEPT ![s[m + 1]] = Chosen(g, h[m], s[m + 1])]
        OBVIOUS
    <2>3. PICK k : k = [i \in 0 .. (m + 1) |-> IF i = m + 1 THEN last ELSE h[i]]
        OBVIOUS
    <2>4. ASSUME NEW i \in 0 .. (m + 1)
          PROVE  k[i] = (IF i = 0 THEN none
                         ELSE [k[i - 1] EXCEPT ![s[i]] = Chosen(g, k[i - 1], s[i])])
        <3>1. CASE i = m + 1
            <4>1. i # 0 /\ i - 1 = m /\ m \in 0 .. (m + 1) /\ m # m + 1
                BY <3>1
            <4>2. k[i] = last /\ k[i - 1] = h[m]
                BY <2>3, <3>1, <4>1
            <4> QED BY <2>2, <3>1, <4>1, <4>2
        <3>2. CASE i # m + 1 /\ i # 0
            <4>1. i \in 0 .. m /\ i - 1 \in 0 .. m /\ i - 1 # m + 1 /\ i - 1 \in 0 .. (m + 1)
                BY <3>2
            <4>2. k[i] = h[i] /\ k[i - 1] = h[i - 1]
                BY <2>3, <3>2, <4>1
            <4>3. h[i] = [h[i - 1] EXCEPT ![s[i]] = Chosen(g, h[i - 1], s[i])]
                BY <2>1, <3>2, <4>1
            <4> QED BY <3>2, <4>2, <4>3
        <3>3. CASE i = 0
            <4>1. 0 \in 0 .. m /\ 0 # m + 1
                OBVIOUS
            <4>2. h[0] = none
                BY <2>1, <4>1
            <4> QED BY <2>3, <3>3, <4>1, <4>2
        <3> QED BY <3>1, <3>2, <3>3
    <2>5. k = D(k, m + 1)
        <3>1. k = [i \in 0 .. (m + 1) |-> k[i]]
            BY <2>3
        <3> QED BY <2>4, <3>1
    <2> QED BY SMTT(30), <2>5
<1>4. Len(s) \in S
    <2> HIDE DEF S
    <2> QED BY <1>2, <1>3, SetInduction
<1>5. \E h : h = D(h, Len(s))
    BY <1>4
<1> DEFINE run == CHOOSE h : h = D(h, Len(s))
<1>6. run = D(run, Len(s))
    BY <1>5, Zenon
<1>7. GraphFate(g) = run[Len(s)]
    BY ZenonT(60) DEF GraphFate, Chosen, FateOn
<1>8. Fates(run, g, s)
    BY <1>6, Zenon DEF Fates
<1> QED BY <1>7, <1>8, Zenon

\* Of settled rows, the edges that are taken are those the fates select.
LEMMA EdgeFate ==
    ASSUME NEW g, NEW fate, NEW e, Settled(gNode[g][e.from]),
           fate[e.from] <=> gNode[g][e.from].state = "SUCCEEDED"
    PROVE  FateOn(g, fate, e) <=> ~EdgeOff(gNode[g][e.from], e)
BY DEF FateOn, EdgeOff, Settled

\* A node runs when its edges say so, given that all before it do.
LEMMA FateOfNode ==
    ASSUME NEW g, NEW fate, NEW n, Settled(gNode[g][n]),
           \A e \in GraphEdges(PlanOf(g), n) :
               /\ Settled(gNode[g][e.from])
               /\ fate[e.from] <=> gNode[g][e.from].state = "SUCCEEDED",
           gNode[g][n].state = "SKIPPED" => Off(PlanOf(g), gNode[g], n),
           gNode[g][n].state = "SUCCEEDED" => On(PlanOf(g), gNode[g], n)
    PROVE  /\ Chosen(g, fate, n) \in BOOLEAN
           /\ Chosen(g, fate, n) <=> gNode[g][n].state = "SUCCEEDED"
<1>1. \A e \in GraphEdges(PlanOf(g), n) : FateOn(g, fate, e) <=> ~EdgeOff(gNode[g][e.from], e)
    BY EdgeFate
<1>2. Chosen(g, fate, n) \in BOOLEAN
    BY DEF Chosen
<1>3. gNode[g][n].state = "SUCCEEDED" => Chosen(g, fate, n)
    BY <1>1 DEF Chosen, On
<1>4. gNode[g][n].state = "SKIPPED" => ~Chosen(g, fate, n)
    BY <1>1 DEF Chosen, Off
<1> QED BY <1>2, <1>3, <1>4 DEF Settled

\* Whatever the order of Tasks and ticks, a graph that succeeds has run the
\* nodes its verdicts select and skipped the others (advanceGraphTx).
THEOREM GraphIsConfluent == GraphSpec => []GraphConfluent
<1>1. ASSUME GraphInv, NEW g \in GraphGens, gGen[g].job = "SUCCEEDED",
             NEW n \in ToSet(PlanOf(g).nodes)
      PROVE  gNode[g][n].state = IF GraphFate(g)[n] THEN "SUCCEEDED" ELSE "SKIPPED"
    <2>1. PICK name, p, s, N : /\ name = gGen[g].plan /\ p = PlanOf(g)
                               /\ s = PlanOrder[name] /\ N = ToSet(p.nodes)
        OBVIOUS
    <2>2. GenFine(g)
        BY <1>1 DEF GraphInv
    <2>3. /\ name \in DOMAIN GraphPlans /\ CompileGraph(name) /\ p = GraphPlans[name]
          /\ RowsOK(p, gNode[g], gAdm[g]) /\ \A m \in N : Settled(gNode[g][m])
        BY <1>1, <2>1, <2>2 DEF GenFine, PlanOf
    <2>4. OrderFine(p, s) /\ \A m \in N : \E i \in 1 .. Len(s) : s[i] = m
        <3>1. /\ OrderFine(GraphPlans[name], PlanOrder[name])
              /\ \A m \in ToSet(GraphPlans[name].nodes) :
                    \E i \in 1 .. Len(PlanOrder[name]) : PlanOrder[name][i] = m
            <4>1. name \in DOMAIN GraphPlans /\ CompileGraph(name)
                BY <2>3
            <4> QED BY <4>1, OrderComplete
        <3>2. p = GraphPlans[name] /\ s = PlanOrder[name] /\ N = ToSet(GraphPlans[name].nodes)
            BY <2>1, <2>3
        <3> QED BY <3>1, <3>2
    <2>5. s \in Seq(N) /\ Len(s) \in Nat
        BY <2>1, <2>4 DEF OrderFine
    <2>6. \A m \in N : m \in GraphNames
        <3>1. ToSet(GraphPlans[name].nodes) \subseteq GraphNames
            BY <2>3, NamesOfPlans
        <3>2. N = ToSet(GraphPlans[name].nodes)
            BY <2>1, <2>3
        <3> QED BY <3>1, <3>2
    <2>7. \A m \in N : /\ gNode[g][m].state = "SKIPPED" => Off(p, gNode[g], m)
                       /\ gNode[g][m].state = "SUCCEEDED" => On(p, gNode[g], m)
        BY <2>1, <2>3, <2>6 DEF RowsOK
    <2>8. PICK f : Fates(f, g, s) /\ GraphFate(g) = f[Len(s)]
        BY <2>1, <2>5, FateRuns
    <2> DEFINE fine(i) == /\ f[i] \in [N -> BOOLEAN]
                          /\ \A j \in 1 .. i : f[i][s[j]] <=> gNode[g][s[j]].state = "SUCCEEDED"
               S == {i \in Nat : i <= Len(s) => fine(i)}
    <2>9. 0 \in S
        <3>1. f[0] = [m \in N |-> FALSE]
            <4>1. 0 \in 0 .. Len(s)
                BY <2>5
            <4>2. f[0] = [m \in ToSet(PlanOf(g).nodes) |-> FALSE]
                BY <2>8, <4>1 DEF Fates
            <4>3. N = ToSet(PlanOf(g).nodes)
                BY <2>1
            <4> QED BY <4>2, <4>3
        <3>2. \A j \in 1 .. 0 : FALSE
            OBVIOUS
        <3> QED BY <3>1, <3>2
    <2>10. ASSUME NEW i \in Nat, i \in S PROVE i + 1 \in S
        <3>1. SUFFICES ASSUME i + 1 <= Len(s) PROVE fine(i + 1)
            OBVIOUS
        <3>2. fine(i)
            BY <2>5, <2>10, <3>1
        <3>3. PICK fate, m : fate = f[i] /\ m = s[i + 1]
            OBVIOUS
        <3>4. i + 1 \in 0 .. Len(s) /\ i + 1 # 0 /\ (i + 1) - 1 = i /\ i + 1 \in 1 .. Len(s)
            BY <2>5, <3>1
        <3>5. f[i + 1] = [fate EXCEPT ![m] = Chosen(g, fate, m)]
            BY <2>8, <3>3, <3>4 DEF Fates
        <3>6. /\ m \in N /\ fate \in [N -> BOOLEAN]
              /\ \A j \in 1 .. i : fate[s[j]] <=> gNode[g][s[j]].state = "SUCCEEDED"
            BY <2>5, <3>2, <3>3, <3>4
        <3>7. ASSUME NEW e \in GraphEdges(p, m)
              PROVE  /\ Settled(gNode[g][e.from])
                     /\ fate[e.from] <=> gNode[g][e.from].state = "SUCCEEDED"
            <4>1. PICK j \in 1 .. ((i + 1) - 1) : s[j] = e.from
                BY <2>4, <3>3, <3>4, <3>7 DEF OrderFine
            <4>2. j \in 1 .. i /\ j \in 1 .. Len(s)
                BY <2>5, <3>1, <4>1
            <4>3. s[j] \in N
                BY <2>5, <4>2
            <4> QED BY <2>3, <3>6, <4>1, <4>2, <4>3
        <3>8. /\ Chosen(g, fate, m) \in BOOLEAN
              /\ Chosen(g, fate, m) <=> gNode[g][m].state = "SUCCEEDED"
            <4>1. p = PlanOf(g) /\ Settled(gNode[g][m])
                BY <2>1, <2>3, <3>6
            <4>2. \A e \in GraphEdges(PlanOf(g), m) :
                     /\ Settled(gNode[g][e.from])
                     /\ fate[e.from] <=> gNode[g][e.from].state = "SUCCEEDED"
                BY <3>7, <4>1
            <4>3. /\ gNode[g][m].state = "SKIPPED" => Off(PlanOf(g), gNode[g], m)
                  /\ gNode[g][m].state = "SUCCEEDED" => On(PlanOf(g), gNode[g], m)
                BY <2>7, <3>6, <4>1
            <4> QED BY ONLY <4>1, <4>2, <4>3, FateOfNode
        <3>9. PICK c : c = Chosen(g, fate, m)
            OBVIOUS
        <3>10. c \in BOOLEAN /\ (c <=> gNode[g][m].state = "SUCCEEDED")
            BY <3>8, <3>9
        <3>11. f[i + 1] = [fate EXCEPT ![m] = c]
            BY <3>5, <3>9
        <3>12. f[i + 1] \in [N -> BOOLEAN]
            BY <3>6, <3>10, <3>11
        <3>13. ASSUME NEW j \in 1 .. (i + 1)
               PROVE  f[i + 1][s[j]] <=> gNode[g][s[j]].state = "SUCCEEDED"
            <4>1. j \in 1 .. Len(s) /\ s[j] \in N
                BY <2>5, <3>1, <3>13
            <4>2. CASE j = i + 1
                <5>1. s[j] = m /\ f[i + 1][m] = c
                    BY <3>3, <3>6, <3>11, <4>2
                <5> QED BY <3>10, <5>1
            <4>3. CASE j # i + 1
                <5>1. j \in 1 .. i
                    BY <3>13, <4>3
                <5>2. s[j] # m
                    BY <2>4, <3>3, <3>4, <4>1, <4>3 DEF OrderFine
                <5>3. f[i + 1][s[j]] = fate[s[j]]
                    BY <3>6, <3>11, <4>1, <5>2
                <5> QED BY <3>6, <5>1, <5>3
            <4> QED BY <4>2, <4>3
        <3> QED BY <3>12, <3>13
    <2>11. Len(s) \in S
        <3> HIDE DEF S
        <3> QED BY <2>5, <2>9, <2>10, SetInduction
    <2>12. fine(Len(s))
        BY <2>5, <2>11
    <2>13. PICK i \in 1 .. Len(s) : s[i] = n
        BY <2>1, <2>4
    <2>14. GraphFate(g)[n] <=> gNode[g][n].state = "SUCCEEDED"
        BY <2>8, <2>12, <2>13
    <2>15. gNode[g][n].state \in {"SKIPPED", "SUCCEEDED"}
        BY <1>1, <2>1, <2>3 DEF Settled
    <2> QED BY <2>14, <2>15
<1>2. GraphInv => GraphConfluent
    BY <1>1 DEF GraphConfluent
<1> QED BY <1>2, GraphSafe, PTL

----------------------------------------------------------------------------
(* Both, side by side *)

(* Whatever kind of Job moves, its rows keep their types and the other's    *)
(* rows are left alone.                                                     *)
THEOREM JobsTyped == MCSpec => []JobsTypeOK
<1>1. MCInit => MRInv /\ GraphInv
    BY InitHolds, GraphBegins DEF MCInit
<1>2. MRInv /\ GraphInv /\ [MCNext]_<<part, mrVars, graphVars>> => (MRInv /\ GraphInv)'
    <2> SUFFICES ASSUME MRInv, GraphInv, [MCNext]_<<part, mrVars, graphVars>> PROVE MRInv' /\ GraphInv'
        OBVIOUS
    <2>1. [MapReduceNext]_mrVars /\ [GraphNext]_graphVars
        BY DEF MCNext
    <2>2. MRInv'
        BY <2>1, MRSteps
    <2>3. GraphInv'
        BY <2>1, GraphSteps
    <2> QED BY <2>2, <2>3
<1>3. MRInv /\ GraphInv => JobsTypeOK
    BY MRTypes DEF GraphInv, JobsTypeOK
<1> QED BY <1>1, <1>2, <1>3, PTL DEF MCSpec
=============================================================================
