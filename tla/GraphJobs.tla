----------------------------- MODULE GraphJobs -----------------------------
(***************************************************************************)
(* The implementation-unit graph of a Goal: compilation and submission,    *)
(* the advance of a generation (advanceGraphTx), admission of node results *)
(* into memory, invalidation, coverage and record verification, evaluation,*)
(* imports and reuse between generations, re-planning and recovery.        *)
(*                                                                         *)
(* One Goal; a generation is one graph Job.  The Task of a node is seen    *)
(* through its state: RUNNING, CANCELING and RECONCILING have an           *)
(* unreleased Attempt (ControlPlane has the details), and the re-plan      *)
(* guard's own checks are in Goals.  The output of a node stands for its   *)
(* values and its memory view; of a command only its verdict matters.      *)
(***************************************************************************)
EXTENDS Naturals, Sequences, FiniteSets, SequencesExt

CONSTANTS
    GraphPlans,       \* specs of graphs, by name
    GraphProposals,   \* names of those proposed next, by the active plan
    MaxGraphGen,      \* bound on generations: max_replans + 1
    MaxRevisions,     \* bound on validity events (the code's is 64)
    MaxReads,         \* bound on source reads per node (the code's is 2)
    MaxReceipts,      \* bound on receipts of either kind (the code's is 128)
    MaxMoves          \* bounds on the moves of clients and on faults, by the first plan

Verdicts == {"PASS", "FAIL", "UNKNOWN"}

ASSUME GraphJobsAssumption ==
    /\ {MaxGraphGen, MaxReads, MaxReceipts, MaxRevisions} \subseteq Nat
    /\ MaxMoves \in [DOMAIN GraphPlans -> Nat]
    /\ MaxGraphGen > 0 /\ MaxReads <= 2 /\ MaxRevisions <= 64
    /\ GraphProposals \in [DOMAIN GraphPlans -> SUBSET DOMAIN GraphPlans]
    /\ \A p \in DOMAIN GraphPlans :
        /\ GraphPlans[p].nodes \in Seq(ToSet(GraphPlans[p].nodes))
        /\ DOMAIN GraphPlans[p].kind = ToSet(GraphPlans[p].nodes)
    /\ "" \notin DOMAIN GraphPlans

VARIABLES
    gGoal,       \* the row of goals: state, active generation, used re-plans
    gGen,        \* per generation: its Job, validity events and evaluation
    gNode,       \* per generation: the rows of iu_nodes, with the Task's state
    gAdm,        \* per generation and node: the row of iu_admissions
    gProjected,  \* iu_validity_views: generation, node, revision
    gReceipts,   \* iu_coverage_receipts and iu_record_verifications
    gCovering,   \* a coverage verification between its two transactions
    gReads,      \* per generation and node: iu_source_reads
    gGrant,      \* the latest import grant
    gBound,      \* iu_import_snapshots, iu_reuse_offers and iu_node_reuse
    gLate,       \* the deadline of the Goal and its Jobs has passed
    gMoves       \* moves of clients and faults so far

graphVars == <<gGoal, gGen, gNode, gAdm, gProjected, gReceipts, gCovering,
               gReads, gGrant, gBound, gLate, gMoves>>

GraphTerminal == {"SUCCEEDED", "FAILED", "CANCELED"}

GraphGens == 1 .. MaxGraphGen

GraphNames == UNION {ToSet(GraphPlans[p].nodes) : p \in DOMAIN GraphPlans}

NoEvaluation == [version |-> 0, verdict |-> "", revision |-> 0, cites |-> {}]

NoGeneration == [plan |-> "", job |-> "none", reason |-> "", output |-> "",
                 events |-> <<>>, eval |-> NoEvaluation]

NoNode == [state |-> "BLOCKED", task |-> "none", out |-> ""]

NoAdmission == [state |-> "none", value |-> ""]

NoCovering == [gen |-> 0, revision |-> 0, verdict |-> ""]

NoGrant == [state |-> "none", source |-> 0, node |-> "", revision |-> 0,
            target |-> 0, reuse |-> FALSE]

\* Why a graph Job stops.
GraphReasons ==
    {"", "USER_CANCEL", "IU_INPUT_INVALIDATED", "STALE_GENERATION", "DEADLINE_EXCEEDED",
     "CHILD_FAILED", "CONTEXT_INSUFFICIENT", "GRAPH_OUTPUT_SKIPPED",
     "MEMORY_ADMISSION_REJECTED", "MEMORY_ADMISSION_DEADLINE_EXCEEDED"}

GraphGoalRow ==
    [state : {"none", "GRAPH_READY", "REPLANNING", "EVALUATING", "REPLAN_GUARDING"}
             \cup GraphTerminal,
     active : 0 .. MaxGraphGen]

EventRow == [audit : BOOLEAN, hit : SUBSET GraphNames, applied : BOOLEAN]

ReceiptRow == [kind : {"coverage", "record"}, gen : GraphGens, node : GraphNames \cup {""},
               revision : 0 .. MaxRevisions, verdict : Verdicts]

EvalRow == [version : 0 .. 2, verdict : Verdicts \cup {""}, revision : 0 .. MaxRevisions,
            cites : SUBSET ReceiptRow]

GenerationRow ==
    [plan : DOMAIN GraphPlans \cup {""}, reason : GraphReasons, output : {"", "ok", "stopped"},
     job : {"none", "QUEUED", "EXECUTING", "STOPPING"} \cup GraphTerminal,
     events : Seq(EventRow), eval : EvalRow]

NodeRow ==
    [state : {"BLOCKED", "READY", "RUNNING", "SKIPPED"} \cup GraphTerminal,
     task : {"none", "QUEUED", "RUNNING", "CANCELING", "RECONCILING"} \cup GraphTerminal,
     out : Verdicts \cup {""}]

AdmissionRow == [state : {"none", "PENDING", "ADMITTED", "REJECTED"}, value : Verdicts \cup {""}]

GrantRow ==
    [state : {"none", "ISSUED", "CONSUMED", "REVOKED", "EXPIRED"}, source : 0 .. MaxGraphGen,
     node : GraphNames \cup {""}, revision : 0 .. MaxRevisions, target : 0 .. MaxGraphGen,
     reuse : BOOLEAN]

GraphTypeOK ==
    /\ gGoal \in GraphGoalRow
    /\ gGen \in [GraphGens -> GenerationRow]
    /\ \A g \in GraphGens : Len(gGen[g].events) <= MaxRevisions
    /\ gNode \in [GraphGens -> [GraphNames -> NodeRow]]
    /\ gAdm \in [GraphGens -> [GraphNames -> AdmissionRow]]
    /\ gProjected \subseteq GraphGens \X GraphNames \X (1 .. MaxRevisions)
    /\ gReceipts \subseteq ReceiptRow
    /\ \/ gCovering = NoCovering
       \/ gCovering \in [gen : GraphGens, revision : 0 .. MaxRevisions, verdict : Verdicts]
    /\ gReads \in [GraphGens -> [GraphNames -> 0 .. MaxReads]]
    /\ gGrant \in GrantRow
    /\ gLate \in BOOLEAN /\ gMoves \in Nat

GraphInit ==
    /\ gGoal = [state |-> "none", active |-> 0]
    /\ gGen = [g \in GraphGens |-> NoGeneration]
    /\ gNode = [g \in GraphGens |-> [n \in GraphNames |-> NoNode]]
    /\ gAdm = [g \in GraphGens |-> [n \in GraphNames |-> NoAdmission]]
    /\ gProjected = {} /\ gReceipts = {} /\ gCovering = NoCovering
    /\ gReads = [g \in GraphGens |-> [n \in GraphNames |-> 0]]
    /\ gGrant = NoGrant /\ gBound = {}
    /\ gLate = FALSE /\ gMoves = 0

\* A bounded move of a client, the clock or a fault.
GraphMove == gMoves < MaxMoves[gGen[1].plan] /\ gMoves' = gMoves + 1

----------------------------------------------------------------------------
(* Compile: the plan independent of the order of its declarations.  Nodes  *)
(* are listed by name.                                                     *)

GraphEdges(p, n) == {e \in p.edges : e.to = n}

\* Those that are not control edges: they carry a value and its records.
DataEdges(p, n) == {e \in GraphEdges(p, n) : e.data}

\* Kahn's traversal, always taking the first ready name.
ReadyNodes(p, done) ==
    {i \in DOMAIN p.nodes :
        /\ p.nodes[i] \notin ToSet(done)
        /\ \A e \in GraphEdges(p, p.nodes[i]) : e.from \in ToSet(done)}

TakeReady(p, done) ==
    LET ready == ReadyNodes(p, done) IN
    IF ready = {} THEN done ELSE Append(done, p.nodes[Min(ready)])

GraphOrder(p) ==
    LET run[i \in 0 .. Len(p.nodes)] == IF i = 0 THEN <<>> ELSE TakeReady(p, run[i - 1])
    IN  run[Len(p.nodes)]

PlanOrder == [p \in DOMAIN GraphPlans |-> GraphOrder(GraphPlans[p])]

EdgesDeclared(p) ==
    \A e \in p.edges : {e.from, e.to} \subseteq ToSet(p.nodes) /\ e.from # e.to

\* A condition reads the verdict of a command and has all three handlers.
ConditionsHandled(p) ==
    \A e \in p.edges : e.when # "" =>
        /\ p.kind[e.from] = "command"
        /\ \A v \in Verdicts : \E f \in p.edges : f.from = e.from /\ f.when = v

BindingsDeclared(p) == p.imports \cup p.reuse \subseteq ToSet(p.nodes)

OutputsDeclared(p) == p.outputs # {} /\ p.outputs \subseteq ToSet(p.nodes)

NodesDeclared(p) == Cardinality(ToSet(p.nodes)) = Len(p.nodes)

\* A plan that compiles; a cycle leaves nodes without a place in the order.
CompileGraph(name) ==
    LET p == GraphPlans[name] IN
    /\ NodesDeclared(p)
    /\ BindingsDeclared(p)
    /\ EdgesDeclared(p)
    /\ ConditionsHandled(p)
    /\ Len(PlanOrder[name]) = Len(p.nodes)
    /\ OutputsDeclared(p)

PlanOf(g) == GraphPlans[gGen[g].plan]

SubmitGraph(p) ==
    /\ gGoal.state = "none" /\ CompileGraph(p)
    /\ GraphPlans[p].imports = {} /\ GraphPlans[p].reuse = {}
    /\ gGoal' = [state |-> "GRAPH_READY", active |-> 1]
    /\ gGen' = [gGen EXCEPT ![1] = [NoGeneration EXCEPT !.plan = p, !.job = "QUEUED"]]
    /\ UNCHANGED <<gNode, gAdm, gProjected, gReceipts, gCovering, gReads, gGrant,
                   gBound, gLate, gMoves>>

----------------------------------------------------------------------------
(* Validity: events of a generation, and the views projected from them.    *)

GraphRevision(g) == Len(gGen[g].events)

GraphInvalidated(g) == \E i \in DOMAIN gGen[g].events : ~gGen[g].events[i].audit

\* Revision of the last event that is not audit-only.
LastInvalidation(g) ==
    Max({0} \cup {i \in DOMAIN gGen[g].events : ~gGen[g].events[i].audit})

\* An output view or, of a node with a Task, an input view.
HasView(g, n) == gNode[g][n].out # "" \/ gNode[g][n].task # "none"

\* graphMemoryTx: whether the view of a node can be read.
MemoryReadable(g, n) ==
    IF LastInvalidation(g) = 0 THEN HasView(g, n)
    ELSE <<g, n, LastInvalidation(g)>> \in gProjected

\* Whether that view may hold a record: of the node's result, of the results
\* it read or of an import.
HasRecords(g, n) ==
    \/ gNode[g][n].out # ""
    \/ DataEdges(PlanOf(g), n) # {}
    \/ \E b \in gBound : b.gen = g /\ b.node = n /\ b.kind = "import"

\* Every record depends on the whole view its node has read.
PlanDepends ==
    [name \in DOMAIN GraphPlans |->
        LET p == GraphPlans[name] IN
        FoldLeft(LAMBDA deps, n :
                    [deps EXCEPT ![n] = {n} \cup UNION {deps[e.from] : e \in DataEdges(p, n)}],
                 [n \in ToSet(p.nodes) |-> {n}], PlanOrder[name])]

RecordValid(g, n) ==
    \A i \in DOMAIN gGen[g].events :
        ~gGen[g].events[i].audit =>
            gGen[g].events[i].hit \cap PlanDepends[gGen[g].plan][n] = {}

\* Mutant: the event is accepted for a superseded generation too.
InvalidateAnyGeneration(g, hit) ==
    LET ended == gGoal.state \in GraphTerminal IN
    /\ gGen[g].job # "none" /\ GraphRevision(g) < MaxRevisions
    /\ hit # {} /\ \A n \in hit : HasView(g, n)
    /\ gGen' = [gGen EXCEPT ![g].events =
                    Append(@, [audit |-> ended, hit |-> hit, applied |-> ended])]
    /\ UNCHANGED <<gGoal, gNode, gAdm, gProjected, gReceipts, gCovering, gReads,
                   gGrant, gBound, gLate>>
    /\ GraphMove

\* invalidateGraphTx; the expected revision is the client's to get right.
InvalidateGraph(g, hit) ==
    LET ended == gGoal.state \in GraphTerminal IN
    /\ gGoal.active = g /\ GraphRevision(g) < MaxRevisions
    /\ hit # {} /\ \A n \in hit : HasView(g, n)
    /\ gGen' = [gGen EXCEPT ![g].events =
                    Append(@, [audit |-> ended, hit |-> hit, applied |-> ended])]
    /\ UNCHANGED <<gGoal, gNode, gAdm, gProjected, gReceipts, gCovering, gReads,
                   gGrant, gBound, gLate>>
    /\ GraphMove

\* reconcileGraphInvalidations: the oldest recorded event of a generation.
ApplyInvalidation(g) ==
    \E i \in DOMAIN gGen[g].events :
        /\ ~gGen[g].events[i].applied
        /\ \A k \in 1 .. i - 1 : gGen[g].events[k].applied
        /\ gGen' = [gGen EXCEPT ![g].events[i].applied = TRUE]
        /\ gProjected' = gProjected \cup
                {<<g, n, i>> : n \in {m \in GraphNames : HasView(g, m)}}
        /\ UNCHANGED <<gGoal, gNode, gAdm, gReceipts, gCovering, gReads, gGrant,
                       gBound, gLate, gMoves>>

----------------------------------------------------------------------------
(* The advance of a generation.                                            *)

LiveTask == {"RUNNING", "CANCELING", "RECONCILING"}   \* Attempt not released

\* A node as its Task shows it; success only once its result is admitted.
NodeSeen(r) ==
    [r EXCEPT !.state =
        IF r.task \in {"FAILED", "CANCELED", "RUNNING"} THEN r.task
        ELSE IF r.task = "SUCCEEDED" /\ r.out # "" THEN "SUCCEEDED" ELSE @]

\* Mutant: a failed child is not looked at.
GraphStopReasonAlone(g) ==
    LET first == IF GraphInvalidated(g) THEN "IU_INPUT_INVALIDATED" ELSE gGen[g].reason
        second == IF gGoal.active # g \/ gGoal.state = "CANCELED"
                  THEN "STALE_GENERATION" ELSE first
    IN IF gLate THEN "DEADLINE_EXCEEDED" ELSE second

\* Reasons to stop, later ones overriding; a failed child only when none.
GraphStopReason(g) ==
    LET failed == \E n \in GraphNames :
                    gNode[g][n].task \in {"FAILED", "CANCELED", "RECONCILING"}
        first == IF GraphInvalidated(g) THEN "IU_INPUT_INVALIDATED" ELSE gGen[g].reason
        second == IF gGoal.active # g \/ gGoal.state = "CANCELED"
                  THEN "STALE_GENERATION" ELSE first
        third == IF gLate THEN "DEADLINE_EXCEEDED" ELSE second
    IN IF third = "" /\ failed THEN "CHILD_FAILED" ELSE third

\* nodeReuseKey: the node, its operator and what its context is compiled from.
ReuseKey(g, nodes, n) ==
    [node |-> n, kind |-> PlanOf(g).kind[n], text |-> PlanOf(g).text[n],
     read |-> {<<e.from, nodes[e.from].out>> : e \in DataEdges(PlanOf(g), n)}]

ReuseOffers(g, n) == {b \in gBound : b.gen = g /\ b.node = n /\ b.kind = "offer"}

Decided(bound, g, n) ==
    \E b \in bound : b.gen = g /\ b.node = n /\ b.kind \in {"REUSE", "RECOMPUTE"}

\* DecideReuse over an offer; an UNKNOWN result is never reused.
ReuseHolds(g, nodes, n, b) ==
    /\ GraphRevision(b.source) = b.revision
    /\ b.key = ReuseKey(g, nodes, n)
    /\ b.out # "UNKNOWN" /\ RecordValid(b.source, b.from)

\* Mutant: the condition of an edge is not looked at.
EdgeOffUnconditional(parent, e) == parent.state = "SKIPPED"

\* An edge that will not be taken.
EdgeOff(parent, e) ==
    \/ parent.state = "SKIPPED"
    \/ parent.state = "SUCCEEDED" /\ e.when \notin {"", parent.out}

\* One BLOCKED node of the plan, in its turn: acc carries the rows, the
\* reuse decisions, the queue's room and a reason to stop.
ActivateNode(g, fits, acc, n) ==
    LET p == PlanOf(g)
        r == acc.nodes[n]
        in == GraphEdges(p, n)
        lenient == p.kind[n] = "selected"
        parent(e) == acc.nodes[e.from]
        waits(e) == parent(e).state \notin {"SKIPPED", "SUCCEEDED"}
        skip == ~lenient /\ \E e \in in : EdgeOff(parent(e), e)
        ready == \A e \in in : ~waits(e)
        none == lenient /\ \A e \in in : EdgeOff(parent(e), e)
        offer == ReuseOffers(g, n)
        fresh == offer # {} /\ ~Decided(acc.bound, g, n)
        b == CHOOSE o \in offer : TRUE
        reuse == fresh /\ ReuseHolds(g, acc.nodes, n, b)
        decided == IF fresh
                   THEN acc.bound \cup {[b EXCEPT !.kind = IF reuse THEN "REUSE" ELSE "RECOMPUTE"]}
                   ELSE acc.bound
    IN IF acc.stop # "" \/ r.state # "BLOCKED" \/ (~ready /\ ~skip) THEN acc
       ELSE IF skip \/ none THEN [acc EXCEPT !.nodes[n].state = "SKIPPED"]
       ELSE IF p.kind[n] \in {"all", "selected"}
            THEN [acc EXCEPT !.nodes[n].state = "SUCCEEDED", !.nodes[n].out = "PASS"]
       ELSE IF ~fits THEN [acc EXCEPT !.stop = "CONTEXT_INSUFFICIENT"]
       ELSE IF reuse THEN [acc EXCEPT !.nodes[n].state = "SUCCEEDED",
                                      !.nodes[n].out = b.out, !.bound = decided]
       ELSE IF acc.room = 0 THEN [acc EXCEPT !.bound = decided]
       ELSE [acc EXCEPT !.nodes[n].state = "READY", !.nodes[n].task = "QUEUED",
                        !.room = @ - 1, !.bound = decided]

\* ActivateNode again, written so that TLC evaluates acc only once.
ActivateOnce(g, fits, acc, n) == CHOOSE b \in {ActivateNode(g, fits, a, n) : a \in {acc}} : TRUE

\* stopGraphTx on one row.
StopNode(r) ==
    CASE r.task = "none" ->
            [r EXCEPT !.state = IF @ \in {"SUCCEEDED", "SKIPPED"} THEN @ ELSE "CANCELED"]
      [] r.task = "QUEUED" -> [r EXCEPT !.state = "CANCELED", !.task = "CANCELED"]
      [] r.task \in LiveTask -> [r EXCEPT !.task = "CANCELING"]
      [] r.task \in {"FAILED", "CANCELED"} -> [r EXCEPT !.state = r.task]
      [] OTHER -> r

\* Mutant: the Job ends while an Attempt is still being stopped.
StopGraphEarly(g, nodes, bound, reason) ==
    [nodes |-> [n \in GraphNames |->
                    IF n \in ToSet(PlanOf(g).nodes) THEN StopNode(nodes[n]) ELSE nodes[n]],
     bound |-> bound, reason |-> reason, job |-> "FAILED", output |-> "stopped"]

\* What a tick leaves of a generation that stops for a reason.
StopGraph(g, nodes, bound, reason) ==
    LET left == [n \in GraphNames |->
                    IF n \in ToSet(PlanOf(g).nodes) THEN StopNode(nodes[n]) ELSE nodes[n]]
        open == \E n \in GraphNames : left[n].task \in LiveTask
    IN [nodes |-> left, bound |-> bound, reason |-> reason,
        job |-> IF open THEN "STOPPING"
                ELSE IF reason = "USER_CANCEL" THEN "CANCELED" ELSE "FAILED",
        output |-> IF open THEN "" ELSE "stopped"]

\* The nodes of a generation in the order of its plan, each in its turn.
ActivateAll(g, fits, start) ==
    LET order == PlanOrder[gGen[g].plan]
        run[i \in 0 .. Len(order)] ==
            IF i = 0 THEN start ELSE ActivateOnce(g, fits, run[i - 1], order[i])
    IN  run[Len(order)]

\* advanceGraphTx
GraphTick(g, room, fits) ==
    LET p == PlanOf(g)
        seen == [n \in GraphNames |-> NodeSeen(gNode[g][n])]
        acc == ActivateAll(g, fits, [nodes |-> seen, bound |-> gBound, room |-> room, stop |-> ""])
        complete == \A n \in ToSet(p.nodes) : acc.nodes[n].state \in {"SUCCEEDED", "SKIPPED"}
    IN IF GraphStopReason(g) # "" THEN StopGraph(g, seen, gBound, GraphStopReason(g))
       ELSE IF acc.stop # "" THEN StopGraph(g, acc.nodes, acc.bound, acc.stop)
       ELSE IF ~complete THEN [nodes |-> acc.nodes, bound |-> acc.bound, reason |-> "",
                               job |-> "EXECUTING", output |-> ""]
       ELSE IF \E n \in p.outputs : acc.nodes[n].state # "SUCCEEDED"
            THEN StopGraph(g, acc.nodes, acc.bound, "GRAPH_OUTPUT_SKIPPED")
       ELSE [nodes |-> acc.nodes, bound |-> acc.bound, reason |-> "",
             job |-> "SUCCEEDED", output |-> "ok"]

\* evaluateBoundJob for a graph Job.
GoalAfterJob(g, job) ==
    IF job \in GraphTerminal /\ gGoal.active = g
       /\ gGoal.state \in {"GRAPH_READY", "REPLANNING"}
    THEN [gGoal EXCEPT !.state = IF job = "CANCELED" THEN "CANCELED" ELSE "EVALUATING"]
    ELSE gGoal

AdvanceGraph(g, room, fits) ==
    /\ gGen[g].job \notin GraphTerminal \cup {"none"}
    /\ \E t \in {GraphTick(g, room, fits)} :
        /\ gNode' = [gNode EXCEPT ![g] = t.nodes]
        /\ gGen' = [gGen EXCEPT ![g].job = t.job, ![g].reason = t.reason, ![g].output = t.output]
        /\ gGoal' = GoalAfterJob(g, t.job)
        /\ gBound' = t.bound
    /\ IF fits THEN UNCHANGED gMoves ELSE GraphMove
    /\ UNCHANGED <<gAdm, gProjected, gReceipts, gCovering, gReads, gGrant, gLate>>

\* CancelJob on a graph Job; of an ended one it cancels the Goal.
CancelGraph(g) ==
    /\ gGen[g].job # "none" /\ gGoal.state \notin GraphTerminal
    /\ \/ /\ gGen[g].job \notin GraphTerminal /\ gGen[g].reason = ""
          /\ gGen' = [gGen EXCEPT ![g].job = "STOPPING", ![g].reason = "USER_CANCEL"]
          /\ UNCHANGED gGoal
       \/ /\ gGen[g].job \in GraphTerminal /\ gGoal.active = g
          /\ gGoal' = [gGoal EXCEPT !.state = "CANCELED"]
          /\ UNCHANGED gGen
    /\ UNCHANGED <<gNode, gAdm, gProjected, gReceipts, gCovering, gReads, gGrant,
                   gBound, gLate>>
    /\ GraphMove

GraphDeadline ==
    /\ gGoal.state # "none" /\ ~gLate /\ gLate' = TRUE
    /\ UNCHANGED <<gGoal, gGen, gNode, gAdm, gProjected, gReceipts, gCovering,
                   gReads, gGrant, gBound>>
    /\ GraphMove

----------------------------------------------------------------------------
(* The Tasks of the nodes and the admission of their results.              *)

NodeTask(g, n, from, to) ==
    /\ gNode[g][n].task \in from
    /\ gNode' = [gNode EXCEPT ![g][n].task = to]
    /\ UNCHANGED <<gGoal, gGen, gProjected, gReceipts, gCovering, gReads, gGrant,
                   gBound, gLate>>

JobAllowsExecution(g) ==
    gGen[g].job \in {"QUEUED", "EXECUTING"} /\ gGen[g].reason = "" /\ ~gLate

\* assign: the Job allows it and the Goal reserves for it, then assignmentGraph.
AssignNode(g, n) ==
    /\ JobAllowsExecution(g)
    /\ gGoal.active = g /\ gGoal.state \in {"GRAPH_READY", "REPLANNING"}
    /\ NodeTask(g, n, {"QUEUED"}, "RUNNING")
    /\ UNCHANGED <<gAdm, gMoves>>

\* CompleteAttempt of a success: enqueueGraphCandidates in its transaction.
NodeSucceeds(g, n, value) ==
    /\ JobAllowsExecution(g)
    /\ NodeTask(g, n, {"RUNNING"}, "SUCCEEDED")
    /\ PlanOf(g).kind[n] = "agent" => value = "PASS"
    /\ gAdm' = [gAdm EXCEPT ![g][n] = [state |-> "PENDING", value |-> value]]
    /\ UNCHANGED gMoves

\* CompleteAttempt of a failure that is final, an uncertain cleanup or a lost
\* lease, and a failure that planRetry allows to be repeated: a plan with a
\* command has no second Attempt.
NodeFails(g, n) ==
    /\ \/ NodeTask(g, n, {"RUNNING"}, "FAILED")
       \/ NodeTask(g, n, {"RUNNING"}, "RECONCILING")
       \/ /\ NodeTask(g, n, {"RUNNING", "RECONCILING"}, "QUEUED")
          /\ gGen[g].reason = "" /\ ~gLate
          /\ \A m \in ToSet(PlanOf(g).nodes) : PlanOf(g).kind[m] # "command"
    /\ UNCHANGED gAdm
    /\ GraphMove

\* CompleteAttempt of whatever outcome once its Task is being stopped, has
\* lost its lease, or belongs to a Job that no longer accepts success.
NodeStopped(g, n) ==
    /\ \/ NodeTask(g, n, {"CANCELING"}, "CANCELED")
       \/ NodeTask(g, n, {"RECONCILING"}, "FAILED")
       \/ ~JobAllowsExecution(g) /\ NodeTask(g, n, {"RUNNING"}, "FAILED")
    /\ UNCHANGED <<gAdm, gMoves>>

AdmissionReason(g) ==
    IF gGoal.active # g THEN "STALE_GENERATION"
    ELSE IF gGoal.state = "CANCELED" \/ gGen[g].reason # "" THEN "CANCELED"
    ELSE IF gLate THEN "MEMORY_ADMISSION_DEADLINE_EXCEEDED"
    ELSE IF GraphInvalidated(g) THEN "IU_INPUT_INVALIDATED" ELSE ""

\* admitGraphCandidate; good: the bundle was read, parsed and matches its
\* ports.  A missing file is retried later and changes nothing here.
AdmitCandidate(g, n, good) ==
    LET stale == AdmissionReason(g)
        reason == IF stale = "" /\ ~good THEN "MEMORY_ADMISSION_REJECTED" ELSE stale
        quiet == reason \in {"STALE_GENERATION", "CANCELED"}
    IN
    /\ gAdm[g][n].state = "PENDING"
    /\ gAdm' = [gAdm EXCEPT ![g][n].state = IF reason = "" THEN "ADMITTED" ELSE "REJECTED"]
    /\ gNode' = IF reason = "" THEN [gNode EXCEPT ![g][n].out = gAdm[g][n].value]
                ELSE IF quiet THEN gNode
                ELSE [gNode EXCEPT ![g][n].state = "FAILED"]
    /\ gGen' = IF reason = "" \/ quiet THEN gGen
               ELSE [gGen EXCEPT ![g].job = "STOPPING", ![g].reason = reason]
    /\ IF good THEN UNCHANGED gMoves ELSE GraphMove
    /\ UNCHANGED <<gGoal, gProjected, gReceipts, gCovering, gReads, gGrant, gBound, gLate>>

----------------------------------------------------------------------------
(* Evidence: source reads, coverage and record verification.               *)

\* Mutant: one read too many.
ReadGraphSourceAgain(g, n) ==
    /\ gGen[g].job # "none" /\ n \in ToSet(PlanOf(g).nodes)
    /\ gReads[g][n] <= MaxReads
    /\ gReads' = [gReads EXCEPT ![g][n] = @ + 1]
    /\ UNCHANGED <<gGoal, gGen, gNode, gAdm, gProjected, gReceipts, gCovering,
                   gGrant, gBound, gLate>>
    /\ GraphMove

ReadGraphSource(g, n) ==
    /\ gGen[g].job # "none" /\ n \in ToSet(PlanOf(g).nodes)
    /\ gReads[g][n] < MaxReads
    /\ gReads' = [gReads EXCEPT ![g][n] = @ + 1]
    /\ UNCHANGED <<gGoal, gGen, gNode, gAdm, gProjected, gReceipts, gCovering,
                   gGrant, gBound, gLate>>
    /\ GraphMove

Receipt(kind, g, n, verdict) ==
    [kind |-> kind, gen |-> g, node |-> n, revision |-> GraphRevision(g), verdict |-> verdict]

\* coverageSnapshotTx
CoverageHolds(g, revision) ==
    /\ gGoal.active = g /\ PlanOf(g).coverage /\ ~gLate
    /\ gGoal.state \in {"EVALUATING", "REPLAN_GUARDING"} /\ gGen[g].job = "SUCCEEDED"
    /\ GraphRevision(g) = revision /\ ~GraphInvalidated(g)

\* VerifyGraphCoverage: the first transaction and the verifier's verdict.
BeginCoverage(g, verdict) ==
    /\ gCovering = NoCovering /\ Cardinality(gReceipts) < MaxReceipts
    /\ CoverageHolds(g, GraphRevision(g))
    /\ gCovering' = [gen |-> g, revision |-> GraphRevision(g), verdict |-> verdict]
    /\ UNCHANGED <<gGoal, gGen, gNode, gAdm, gProjected, gReceipts, gReads, gGrant,
                   gBound, gLate>>
    /\ GraphMove

\* The second transaction, which looks again at all that the first saw.
EndCoverage ==
    /\ gCovering # NoCovering
    /\ gReceipts' = IF CoverageHolds(gCovering.gen, gCovering.revision)
                    THEN gReceipts \cup {Receipt("coverage", gCovering.gen, "", gCovering.verdict)}
                    ELSE gReceipts
    /\ gCovering' = NoCovering
    /\ UNCHANGED <<gGoal, gGen, gNode, gAdm, gProjected, gReads, gGrant, gBound,
                   gLate, gMoves>>

\* VerifyGraphRecord
VerifyGraphRecord(g, n, verdict) ==
    /\ gGoal.active = g /\ Cardinality(gReceipts) < MaxReceipts
    /\ n \in ToSet(PlanOf(g).nodes)
    /\ MemoryReadable(g, n) /\ HasRecords(g, n) /\ RecordValid(g, n)
    /\ gReceipts' = gReceipts \cup {Receipt("record", g, n, verdict)}
    /\ UNCHANGED <<gGoal, gGen, gNode, gAdm, gProjected, gCovering, gReads, gGrant,
                   gBound, gLate>>
    /\ GraphMove

\* validateGraphCoverageProofTx and validateRecordProofsTx
ProofHolds(g, verdict, r) ==
    /\ r.gen = g /\ r.revision = GraphRevision(g)
    /\ verdict = "PASS" => r.verdict = "PASS"
    /\ r.kind = "record" => MemoryReadable(g, r.node) /\ RecordValid(g, r.node)

Judge(g, verdict, cites) ==
    /\ gGen' = [gGen EXCEPT ![g].eval = [version |-> @.version + 1, verdict |-> verdict,
                                         revision |-> GraphRevision(g), cites |-> cites]]
    /\ gGoal' = [gGoal EXCEPT !.state =
                    CASE verdict = "PASS" -> "SUCCEEDED"
                      [] verdict = "FAIL" /\ g < MaxGraphGen -> "REPLAN_GUARDING"
                      [] verdict = "FAIL" -> "FAILED"
                      [] OTHER -> "EVALUATING"]
    /\ UNCHANGED <<gNode, gAdm, gProjected, gReceipts, gCovering, gReads, gGrant,
                   gBound, gLate, gMoves>>

\* Mutant: a PASS is accepted for an invalidated generation.
EvaluateInvalidated(g, verdict, cites) ==
    /\ ~gLate /\ gGoal.active = g /\ gGoal.state \in {"EVALUATING", "REPLAN_GUARDING"}
    /\ gGen[g].job \in GraphTerminal /\ gGen[g].eval.version < 2
    /\ verdict = "PASS" => gGen[g].job = "SUCCEEDED"
    /\ \A r \in cites : ProofHolds(g, verdict, r)
    /\ Judge(g, verdict, cites)

\* applyGraphEvaluationTx; version, supersedes, output hash and revision are
\* compared with the current ones, so a stale request changes nothing.
\* The bound on versions is the model's.
EvaluateGraph(g, verdict, cites) ==
    /\ ~gLate /\ gGoal.active = g /\ gGoal.state \in {"EVALUATING", "REPLAN_GUARDING"}
    /\ gGen[g].job \in GraphTerminal /\ gGen[g].eval.version < 2
    /\ verdict = "PASS" =>
        /\ ~GraphInvalidated(g) /\ gGen[g].job = "SUCCEEDED"
        /\ PlanOf(g).coverage => \E r \in cites : r.kind = "coverage"
    /\ \A r \in cites : ProofHolds(g, verdict, r)
    /\ Judge(g, verdict, cites)

\* reconcileGraphEvaluations: a failed execution fails its evaluation, and a
\* Goal that waits for one past its deadline fails.
FailExecution(g) ==
    /\ gGen[g].job = "FAILED" /\ gGen[g].eval.version = 0
    /\ gGoal.active = g /\ gGoal.state = "EVALUATING" /\ ~gLate
    /\ Judge(g, "FAIL", {})

ExpireGraphGoal ==
    /\ gLate /\ gGoal.state \in {"EVALUATING", "REPLAN_GUARDING"}
    /\ gGoal' = [gGoal EXCEPT !.state = "FAILED"]
    /\ UNCHANGED <<gGen, gNode, gAdm, gProjected, gReceipts, gCovering, gReads,
                   gGrant, gBound, gLate, gMoves>>

----------------------------------------------------------------------------
(* Imports, reuse and the next generation.                                 *)

\* checkImportSourceTx: the view can be read, some records of it stand, and the
\* node has a context, which a join has not.
ImportSource(g, n, revision) ==
    /\ GraphRevision(g) = revision /\ MemoryReadable(g, n)
    /\ HasRecords(g, n) /\ RecordValid(g, n)
    /\ PlanOf(g).kind[n] \in {"agent", "command"}

\* collectImportArtifactsTx: a grant pins what the generation admitted itself
\* and what it took from an earlier one, which must be something.
HasArtifacts(g) ==
    \/ \E n \in GraphNames : gAdm[g][n].state = "ADMITTED"
    \/ \E b \in gBound : b.gen = g /\ b.kind \in {"import", "offer"}

\* One grant is outstanding at a time; the code allows 64.
IssueGraphImport(g, n, reuse) ==
    /\ gGrant.state # "ISSUED" /\ ~gLate
    /\ gGen[g].job \in {"SUCCEEDED", "FAILED"} /\ g <= gGoal.active
    /\ gGoal.state \notin GraphTerminal /\ gGoal.active < MaxGraphGen
    /\ n \in ToSet(PlanOf(g).nodes) /\ ImportSource(g, n, GraphRevision(g))
    /\ HasArtifacts(g)
    /\ gGrant' = [state |-> "ISSUED", source |-> g, node |-> n, reuse |-> reuse,
                  revision |-> GraphRevision(g), target |-> gGoal.active + 1]
    /\ UNCHANGED <<gGoal, gGen, gNode, gAdm, gProjected, gReceipts, gCovering,
                   gReads, gBound, gLate>>
    /\ GraphMove

\* RevokeGraphImport and expireGraphImports
EndGraphImport(to) ==
    /\ gGrant.state = "ISSUED" /\ (to = "EXPIRED" => gLate)
    /\ gGrant' = [gGrant EXCEPT !.state = to]
    /\ UNCHANGED <<gGoal, gGen, gNode, gAdm, gProjected, gReceipts, gCovering,
                   gReads, gBound, gLate>>
    /\ GraphMove

\* importCompatible: the same node, which has read no value of another one.
ImportFits(name, n) ==
    LET p   == GraphPlans[name]
        old == PlanOf(gGrant.source)
    IN
    /\ n = gGrant.node /\ p.text[n] = old.text[n] /\ p.kind[n] = old.kind[n]
    /\ DataEdges(old, n) = {}

\* freezeReuseOfferTx: the result of an Attempt that can be replayed.  Whether
\* it fits the node it is offered to is decided when that is activated.
ReuseFits ==
    LET r == gNode[gGrant.source][gGrant.node] IN
    /\ PlanOf(gGrant.source).kind[gGrant.node] = "agent"
    /\ r.task # "none" /\ r.state = "SUCCEEDED"

BindImport(kind, g, n) ==
    LET rows == gNode[gGrant.source] IN
    [kind |-> kind, gen |-> g, node |-> n, source |-> gGrant.source, from |-> gGrant.node,
     revision |-> gGrant.revision, out |-> rows[gGrant.node].out,
     key |-> ReuseKey(gGrant.source, rows, gGrant.node)]

\* bindGraphImportsTx: every binding of the plan has a usable grant, and each
\* offer a grant of its own.
ImportsBind(name, g) ==
    LET p == GraphPlans[name] IN
    p.imports \cup p.reuse # {} =>
        /\ gGrant.state = "ISSUED" /\ gGrant.target = g
        /\ gGrant.reuse = (p.reuse # {}) /\ ~(p.imports # {} /\ p.reuse # {})
        /\ ImportSource(gGrant.source, gGrant.node, gGrant.revision)
        /\ \A n \in p.imports : ImportFits(name, n)
        /\ p.reuse # {} => ReuseFits /\ Cardinality(p.reuse) = 1

\* checkRecoveryTx and ValidateRecovery: a coverage plan is only followed by
\* the same plan with evidence added to nodes whose sources were read.
RecoveryHolds(g, name) ==
    LET p   == GraphPlans[name]
        old == PlanOf(g)
    IN
    /\ [p EXCEPT !.text = old.text] = old
    /\ \E r \in gGen[g].eval.cites : r.kind = "coverage" /\ r.verdict = "FAIL"
    /\ \A n \in ToSet(p.nodes) : p.text[n] # old.text[n] => gReads[g][n] > 0
    /\ \E n \in ToSet(p.nodes) : gReads[g][n] > 0

\* publishGraphReplanWithRecovery
PublishGraphReplan(name) ==
    LET g == gGoal.active
        p == GraphPlans[name]
    IN
    /\ gGoal.state = "REPLAN_GUARDING" /\ g < MaxGraphGen /\ ~gLate
    /\ name \in GraphProposals[gGen[g].plan]
    /\ gGen[g].job \in {"SUCCEEDED", "FAILED"}
    /\ gGen[g].eval.verdict = "FAIL" /\ gGen[g].eval.revision = GraphRevision(g)
    /\ \A k \in GraphGens, n \in GraphNames : gNode[k][n].task \notin LiveTask
    /\ CompileGraph(name) /\ (PlanOf(g).coverage => RecoveryHolds(g, name))
    /\ ImportsBind(name, g + 1)
    /\ gGoal' = [state |-> "REPLANNING", active |-> g + 1]
    /\ gGen' = [gGen EXCEPT ![g + 1] = [NoGeneration EXCEPT !.plan = name, !.job = "QUEUED"]]
    /\ gBound' = gBound \cup {BindImport("import", g + 1, n) : n \in p.imports}
                        \cup {BindImport("offer", g + 1, n) : n \in p.reuse}
    /\ gGrant' = IF p.imports \cup p.reuse = {} THEN gGrant
                 ELSE [gGrant EXCEPT !.state = "CONSUMED"]
    /\ UNCHANGED <<gNode, gAdm, gProjected, gReceipts, gCovering, gReads, gLate, gMoves>>

----------------------------------------------------------------------------
\* A tick with room for more is one with room for one, repeated.
GraphNext ==
    \/ \E p \in DOMAIN GraphPlans : SubmitGraph(p)
    \/ \E p \in DOMAIN GraphPlans : PublishGraphReplan(p)
    \/ \E g \in GraphGens :
        \/ \E room \in 0 .. 1, fits \in BOOLEAN : AdvanceGraph(g, room, fits)
        \/ \E n \in GraphNames : InvalidateGraph(g, {n})
        \/ ApplyInvalidation(g)
        \/ CancelGraph(g)
        \/ FailExecution(g)
        \/ \E verdict \in Verdicts :
            \/ BeginCoverage(g, verdict)
            \/ \E cites \in SUBSET gReceipts : EvaluateGraph(g, verdict, cites)
            \/ \E n \in GraphNames : VerifyGraphRecord(g, n, verdict)
        \/ \E n \in GraphNames :
            \/ AssignNode(g, n)
            \/ \E value \in Verdicts : NodeSucceeds(g, n, value)
            \/ NodeFails(g, n)
            \/ NodeStopped(g, n)
            \/ \E good \in BOOLEAN : AdmitCandidate(g, n, good)
            \/ ReadGraphSource(g, n)
            \/ \E reuse \in BOOLEAN : IssueGraphImport(g, n, reuse)
    \/ EndCoverage
    \/ \E to \in {"REVOKED", "EXPIRED"} : EndGraphImport(to)
    \/ ExpireGraphGoal
    \/ GraphDeadline

----------------------------------------------------------------------------
\* A Goal that succeeded stands on evidence nothing has contradicted: its
\* generation's Job succeeded, no event but audit-only ones came, what its
\* evaluation cites passed at that revision, and every Task node's result
\* was admitted (applyGraphEvaluationTx, admitGraphCandidate).
GraphPassStands ==
    gGoal.state = "SUCCEEDED" =>
        LET gen  == gGen[gGoal.active]
            plan == PlanOf(gGoal.active)
        IN
        /\ gen.job = "SUCCEEDED" /\ gen.eval.verdict = "PASS"
        /\ ~GraphInvalidated(gGoal.active)
        /\ plan.coverage => \E r \in gen.eval.cites : r.kind = "coverage"
        /\ \A r \in gen.eval.cites : r.verdict = "PASS" /\ r.gen = gGoal.active
        /\ \A n \in ToSet(plan.nodes) :
            gNode[gGoal.active][n].task # "none" =>
                gAdm[gGoal.active][n].state = "ADMITTED"

\* An ended graph Job, succeeded, failed or canceled, has no Task that is
\* queued, runs or is still being stopped (stopGraphTx, advanceGraphTx).
GraphJobSettled ==
    \A g \in GraphGens : gGen[g].job \in GraphTerminal =>
        \A n \in GraphNames : gNode[g][n].task \notin LiveTask \cup {"QUEUED"}

\* What a plan says should happen, given the verdicts its commands gave.
GraphFate(g) ==
    LET p == PlanOf(g)
        out(e) == gNode[g][e.from].out
        on(fate, e) == fate[e.from] /\ e.when \in {"", out(e)}
        chosen(fate, n) == IF p.kind[n] = "selected"
                           THEN \E e \in GraphEdges(p, n) : on(fate, e)
                           ELSE \A e \in GraphEdges(p, n) : on(fate, e)
        order == PlanOrder[gGen[g].plan]
        run[i \in 0 .. Len(order)] ==
            IF i = 0 THEN [n \in ToSet(p.nodes) |-> FALSE]
            ELSE [run[i - 1] EXCEPT ![order[i]] = chosen(run[i - 1], order[i])]
    IN  run[Len(order)]

\* Whatever order Tasks finish in and ticks run in, a graph that succeeds
\* has run exactly the nodes its verdicts select and skipped the others.
GraphConfluent ==
    \A g \in GraphGens : gGen[g].job = "SUCCEEDED" =>
        \A n \in ToSet(PlanOf(g).nodes) :
            gNode[g][n].state = IF GraphFate(g)[n] THEN "SUCCEEDED" ELSE "SKIPPED"

\* What a generation took from an earlier one, as an import or as a reused
\* result, still stands there: no event has come since, and its records are
\* valid (bindGraphImportsTx, activateReuseTx, invalidateGraphTx).
ImportsStand ==
    \A b \in gBound : b.kind # "RECOMPUTE" =>
        GraphRevision(b.source) = b.revision /\ RecordValid(b.source, b.from)

\* What the Server's ticks and the Workers keep doing: a queued Task is
\* assigned, its Attempt ends, its candidate is looked at, and a graph that can
\* advance does, in a tick that finds room in the queue.  Nothing makes a
\* client act or a fault happen.
GraphWork ==
    \E g \in GraphGens, n \in GraphNames :
        \/ AssignNode(g, n)
        \/ \E value \in Verdicts : NodeSucceeds(g, n, value)
        \/ NodeStopped(g, n)
        \/ AdmitCandidate(g, n, TRUE)

GraphFairness ==
    /\ WF_graphVars(GraphWork)
    /\ WF_graphVars(\E g \in GraphGens : AdvanceGraph(g, 1, TRUE))
    /\ WF_graphVars(ExpireGraphGoal)

\* A graph Job always ends, whatever fails, is invalidated or cancelled on the
\* way, and with the deadline its Goal does too (advanceGraphTx,
\* admitGraphCandidate, reconcileGraphEvaluations).
GraphEnds ==
    /\ \A g \in GraphGens :
          gGen[g].job \in {"QUEUED", "EXECUTING", "STOPPING"} ~> gGen[g].job \in GraphTerminal
    /\ gLate ~> gGoal.state \in GraphTerminal

GraphSpec == GraphInit /\ [][GraphNext]_graphVars
=============================================================================
