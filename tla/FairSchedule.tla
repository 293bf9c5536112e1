---------------------------- MODULE FairSchedule ----------------------------
(***************************************************************************)
(* The order in which queued Tasks are offered to the Workers              *)
(* (job_schedule.go): groups (Jobs and single Tasks) by effective          *)
(* priority, which grows with the time they wait; within one priority      *)
(* projects take turns, and within a project its groups.  Whether assign   *)
(* finds a Worker for a Task (capabilities, limits, free slots at that     *)
(* moment) is left open here.  Names are numbers, in the order the code    *)
(* sorts them.                                                             *)
(***************************************************************************)
EXTENDS Integers, FiniteSets, Sequences, SequencesExt

CONSTANTS
    Groups,             \* group -> project and base priority
    TopPriority,        \* the cap of the effective priority (10)
    MaxQueued,          \* MaxQueuedTasks
    MaxQueuedProject,   \* MaxQueuedTasksPerProject
    MaxSchedulerGroups, \* the groups a tick looks at
    MaxTasks            \* bound of the model: Tasks in the queue when one is added by the Server

ASSUME FairAssumption ==
    /\ IsFiniteSet(DOMAIN Groups) /\ TopPriority \in Nat
    /\ \A g \in DOMAIN Groups : Groups[g].project \in Nat \ {0} /\ Groups[g].base \in 0..TopPriority
    /\ MaxQueued \in Nat /\ MaxQueuedProject \in Nat /\ MaxSchedulerGroups \in Nat /\ MaxTasks \in Nat

VARIABLES
    fsQueue,          \* queued Tasks, oldest first: group, age in intervals, and
                      \* whether retry_after has passed
    fsPlan,           \* the rest of the tick: groups, the priority they had, and
                      \* whether this is the first turn of the project there
    fsProjectCursor,  \* priority -> project served last
    fsGroupCursor,    \* <<priority, project>> -> group served last
    fsBypass          \* <<priority, project>> -> Tasks of other projects that were
                      \* started in a row, each while it waited for its turn

fsVars == <<fsQueue, fsPlan, fsProjectCursor, fsGroupCursor, fsBypass>>

Projects == {Groups[g].project : g \in DOMAIN Groups}

Levels == (0..TopPriority) \X Projects

FairInit ==
    /\ fsQueue = <<>> /\ fsPlan = <<>>
    /\ fsProjectCursor = [p \in 0..TopPriority |-> 0]
    /\ fsGroupCursor = [l \in Levels |-> 0]
    /\ fsBypass = [l \in Levels |-> 0]

\* The Tasks a tick may start.  A Task past its deadline leaves the queue here.
Due == {i \in DOMAIN fsQueue : fsQueue[i].due}

Runnable == {fsQueue[i].group : i \in Due}

OldestTask(g) == CHOOSE i \in Due :
    fsQueue[i].group = g /\ \A k \in Due : fsQueue[k].group = g => i <= k

\* queuedGroups: the groups that have waited longest, up to a limit.
Queued == {g \in Runnable :
    Cardinality({h \in Runnable : OldestTask(h) < OldestTask(g)}) < MaxSchedulerGroups}

\* effectivePriority: one more for every aging interval the oldest Task waits.
EffectivePriority(g) ==
    LET boost == fsQueue[OldestTask(g)].age
        room  == TopPriority - Groups[g].base
    IN  Groups[g].base + (IF boost > room THEN room ELSE boost)

\* rotateStrings, rotateGroups: i comes before j in a sorted list that is read
\* from the first number after last.
Sooner(i, j, last) == IF (i > last) = (j > last) THEN i < j ELSE i > last

\* The groups of a project at a priority, oldest first, from the one after
\* the group that was served last.
Peers(g) == {h \in Queued : Groups[h].project = Groups[g].project /\ EffectivePriority(h) = EffectivePriority(g)}

LastPlace(g) ==
    LET last == fsGroupCursor[<<EffectivePriority(g), Groups[g].project>>]
    IN  IF last \in Peers(g) THEN OldestTask(last) ELSE 0

Turn(g) == Cardinality({h \in Peers(g) : Sooner(OldestTask(h), OldestTask(g), LastPlace(g))})

\* Mutant: projects do not take turns.
ProjectSoonerByName(e, p, q) == p < q

\* The projects at a priority, by name, from the one after the project that
\* was served last.
ProjectSooner(e, p, q) == Sooner(p, q, fsProjectCursor[e])

\* fairGroupOrder: priorities from the highest, then rounds over the projects.
Before(g, h) ==
    LET eg == EffectivePriority(g)
        eh == EffectivePriority(h)
    IN  \/ eg > eh
        \/ eg = eh /\ Turn(g) < Turn(h)
        \/ eg = eh /\ Turn(g) = Turn(h) /\ ProjectSooner(eg, Groups[g].project, Groups[h].project)

Place(g) == 1 + Cardinality({h \in Queued : Before(h, g)})

FairGroupOrder == [i \in 1..Cardinality(Queued) |-> CHOOSE g \in Queued : Place(g) = i]

----------------------------------------------------------------------------
\* checkQueueAdmission counts what is queued, due or not.
Count(p) == Cardinality({i \in DOMAIN fsQueue : Groups[fsQueue[i].group].project \in p})

\* A Job of n Tasks is submitted when the queue has room.
SubmitGroup(g, n) ==
    /\ \A i \in DOMAIN fsQueue : fsQueue[i].group # g
    /\ Count(Projects) + n <= MaxQueued
    /\ Count({Groups[g].project}) + n <= MaxQueuedProject
    /\ fsQueue' = fsQueue \o [i \in 1..n |-> [group |-> g, age |-> 0, due |-> TRUE]]
    /\ UNCHANGED <<fsPlan, fsProjectCursor, fsGroupCursor, fsBypass>>

\* The Server queues a Task of an accepted Job, whatever is queued already: a
\* Reduce Task, or a retried one, which may have to wait.
RequeueTask(g, due) ==
    /\ Len(fsQueue) < MaxTasks
    /\ fsQueue' = Append(fsQueue, [group |-> g, age |-> 0, due |-> due])
    /\ UNCHANGED <<fsPlan, fsProjectCursor, fsGroupCursor, fsBypass>>

RetryDue(i) ==
    /\ ~fsQueue[i].due
    /\ fsQueue' = [fsQueue EXCEPT ![i].due = TRUE]
    /\ UNCHANGED <<fsPlan, fsProjectCursor, fsGroupCursor, fsBypass>>

\* A queued Task is cancelled, or its deadline passes.
TaskLeaves(i) ==
    /\ fsQueue' = RemoveAt(fsQueue, i)
    /\ UNCHANGED <<fsPlan, fsProjectCursor, fsGroupCursor, fsBypass>>

\* An aging interval passes; more than the cap makes no difference.
AgingPasses ==
    /\ \E i \in DOMAIN fsQueue : fsQueue[i].age < TopPriority
    /\ fsQueue' = [i \in DOMAIN fsQueue |->
                     [fsQueue[i] EXCEPT !.age = IF @ < TopPriority THEN @ + 1 ELSE @]]
    /\ UNCHANGED <<fsPlan, fsProjectCursor, fsGroupCursor, fsBypass>>

\* scheduleQueued reads the queue once per tick ...
StartTick ==
    /\ fsPlan = <<>> /\ Queued # {}
    /\ fsPlan' = [i \in 1..Len(FairGroupOrder) |->
                    [group     |-> FairGroupOrder[i],
                     effective |-> EffectivePriority(FairGroupOrder[i]),
                     first     |-> Turn(FairGroupOrder[i]) = 0]]
    /\ UNCHANGED <<fsQueue, fsProjectCursor, fsGroupCursor, fsBypass>>

LevelOf(r) == <<r.effective, Groups[r.group].project>>

\* The projects that are still to have their first turn after the head's.
Waiting == {LevelOf(fsPlan[k]) : k \in {n \in 2..Len(fsPlan) : fsPlan[n].first}}

\* ... and offers each group's Tasks to assign, in that order.  When assign takes
\* one, which need not be the oldest, the cursors move.
DispatchGroup(i) ==
    LET h == Head(fsPlan)
    IN  /\ fsPlan # <<>>
        /\ i \in Due /\ fsQueue[i].group = h.group
        /\ fsPlan' = Tail(fsPlan)
        /\ fsQueue' = RemoveAt(fsQueue, i)
        /\ fsGroupCursor' = [fsGroupCursor EXCEPT ![LevelOf(h)] = h.group]
        /\ fsProjectCursor' = [fsProjectCursor EXCEPT ![h.effective] = Groups[h.group].project]
        /\ fsBypass' = [l \in Levels |-> IF l[1] # h.effective THEN fsBypass[l]
                                         ELSE IF l \in Waiting THEN fsBypass[l] + 1
                                         ELSE 0]

\* assign refuses what is left of the group's Tasks, if anything is.
SkipGroup ==
    /\ fsPlan # <<>>
    /\ fsPlan' = Tail(fsPlan)
    /\ UNCHANGED <<fsQueue, fsProjectCursor, fsGroupCursor, fsBypass>>

\* An error ends the tick, before the next group's Tasks or, when i is not 0,
\* after one of them was assigned: then the cursors do not know of it.
AbortTick(i) ==
    /\ fsPlan # <<>>
    /\ i # 0 => i \in Due /\ fsQueue[i].group = Head(fsPlan).group
    /\ fsPlan' = <<>>
    /\ fsQueue' = IF i = 0 THEN fsQueue ELSE RemoveAt(fsQueue, i)
    /\ UNCHANGED <<fsProjectCursor, fsGroupCursor, fsBypass>>

FairNext ==
    \/ \E g \in DOMAIN Groups :
          \/ \E n \in 1..2 : SubmitGroup(g, n)
          \/ \E due \in BOOLEAN : RequeueTask(g, due)
    \/ \E i \in DOMAIN fsQueue : RetryDue(i) \/ TaskLeaves(i) \/ DispatchGroup(i)
    \/ AgingPasses \/ StartTick \/ SkipGroup
    \/ \E i \in DOMAIN fsQueue \cup {0} : AbortTick(i)

FairSpec == FairInit /\ [][FairNext]_fsVars

----------------------------------------------------------------------------
FairTypeOK ==
    /\ fsQueue \in Seq([group : DOMAIN Groups, age : 0..TopPriority, due : BOOLEAN])
    /\ fsPlan \in Seq([group : DOMAIN Groups, effective : 0..TopPriority, first : BOOLEAN])
    /\ fsProjectCursor \in [0..TopPriority -> Projects \cup {0}]
    /\ fsGroupCursor \in [Levels -> DOMAIN Groups \cup {0}]
    /\ fsBypass \in [Levels -> Nat]

(* Projects of one priority take turns, from tick to tick: however Tasks     *)
(* are submitted, retried, cancelled or refused by assign and ticks broken   *)
(* off, the Tasks that are started there in a row, each while a project      *)
(* waits for its turn, are fewer than the projects (fairGroupOrder,          *)
(* rotateStrings, projectCursor).  A turn is an offer: a refusal uses it up. *)
BypassBounded ==
    \A l \in Levels : fsBypass[l] < Cardinality(Projects)
=============================================================================
