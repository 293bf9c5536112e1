------------------------- MODULE TaskAttemptsProofs -------------------------
(***************************************************************************)
(* Proofs about TaskAttempts for any number of Tasks, Workers, Attempts,    *)
(* restarts and slots.  IndInv is inductive, hence every reachable state    *)
(* satisfies it, and it implies that two Attempts of a Task never execute   *)
(* at once, that a released Attempt is over and that retries are bounded.   *)
(*                                                                         *)
(* Steps are proved at the level of single rows: what an action writes for  *)
(* one Task or one Attempt is named, typed and shown to keep TaskOK,        *)
(* AttemptOK or RowOK; LocalStep, TaskStep and ServerStep then lift it.     *)
(***************************************************************************)
EXTENDS TaskAttempts, TLAPS

\* What the assumption on the constants says of the bounds.
LEMMA Bounds ==
    /\ MaxAttempts \in Nat /\ MaxAttempts >= 1 /\ MaxEpoch \in Nat /\ MaxEpoch >= 1
    /\ None \notin Workers
<1>1. MaxAttempts \in Nat \ {0} /\ MaxEpoch \in Nat \ {0} /\ None \notin Workers
  BY StateAssumption DEF StateAssumption
<1> QED BY <1>1

\* The rows that stand for "nothing yet" have their types.
LEMMA RowTypes ==
    /\ NoCompletion \in Completions
    /\ NoAttempt \in AttemptRows /\ NoRun \in RunRows /\ Off \in Goroutines
    /\ [state |-> "NONE", code |-> "OK", att |-> 0, gen |-> 0] \in TaskRows
<1>1. NoCompletion \in Completions
  BY DEF NoCompletion, Completion, Completions, CompletionCodes
<1>2. NoAttempt \in AttemptRows
  BY <1>1, Bounds DEF NoAttempt, AttemptRows
<1>3. NoRun \in RunRows
  BY <1>1 DEF NoRun, RunRows
<1>4. Off \in Goroutines
  BY DEF Off, Goroutines, Phases
<1>5. [state |-> "NONE", code |-> "OK", att |-> 0, gen |-> 0] \in TaskRows
  BY Bounds DEF TaskRows, TaskStates, TaskCodes
<1> QED BY <1>1, <1>2, <1>3, <1>4, <1>5

-----------------------------------------------------------------------------
(* Initial states.                                                         *)

\* The initial state is well typed.
LEMMA InitTyped == Init => TypeOK
<1> SUFFICES ASSUME Init PROVE TypeOK
  OBVIOUS
<1>1. task \in [Tasks -> TaskRows]
  BY RowTypes DEF Init
<1>2. job \in [Tasks -> StopReasons \cup {"open", "SUCCEEDED"}] /\ due \in [Tasks -> {"no", "task", "job"}]
  BY DEF Init
<1>3. att \in [Attempts -> AttemptRows] /\ run \in [Attempts -> RunRows] /\ act \in [Attempts -> Goroutines]
  BY RowTypes DEF Init
<1>4. cmd \in [Attempts -> [Kinds -> CommandStates]]
  BY DEF Init, CommandStates
<1>5. art \in [Attempts -> {"none", "STAGED", "ACCEPTED", "ORPHANED"}]
  BY DEF Init
<1>6. /\ regEpoch \in [Workers -> 0 .. MaxEpoch] /\ session \in [Workers -> 0 .. MaxEpoch]
      /\ snap \in [Workers -> 0 .. MaxEpoch] /\ epoch \in [Workers -> 0 .. MaxEpoch]
  <2>1. 0 \in 0 .. MaxEpoch
    BY Bounds
  <2> QED BY <2>1 DEF Init
<1>7. StreamTypeOK
  BY DEF Init, StreamTypeOK
<1>8. wstat \in [Workers -> {"down", "recovering", "up"}] /\ procs \in [Attempts -> SUBSET Processes]
  BY DEF Init
<1> QED BY <1>1, <1>2, <1>3, <1>4, <1>5, <1>6, <1>7, <1>8 DEF TypeOK, ServerTypeOK, WorkerTypeOK

\* The invariant holds initially: there is no Attempt and no process.
LEMMA InitOK == Init => IndInv
<1> SUFFICES ASSUME Init PROVE IndInv
  OBVIOUS
<1>1. ASSUME NEW a \in Attempts
      PROVE  ~Exists(a) /\ ~Open(a) /\ JournalOK(a)
  <2>1. att[a] = NoAttempt /\ run[a] = NoRun /\ act[a] = Off /\ procs[a] = {}
    BY <1>1 DEF Init
  <2>2. ~Exists(a) /\ ~Open(a) /\ ~att[a].released /\ ~Alive(a)
    BY <2>1 DEF Exists, Open, Alive, NoAttempt
  <2>3. RowOK(FALSE, Up(a), FALSE, NoRun, Off, FALSE)
    BY DEF RowOK, NoRun, Off, Idle, Claimed
  <2> QED BY <2>1, <2>2, <2>3 DEF JournalOK, RowOK
<1>2. Ledger
  <2>1. ASSUME NEW t \in Tasks PROVE TaskOK(t, task[t])
    <3>1. task[t] = [state |-> "NONE", code |-> "OK", att |-> 0, gen |-> 0]
      BY <2>1 DEF Init
    <3>2. TaskOK(t, [state |-> "NONE", code |-> "OK", att |-> 0, gen |-> 0])
      BY Bounds DEF TaskOK
    <3> QED BY <3>1, <3>2
  <2> QED BY <1>1, <2>1 DEF Ledger, AttemptOK
<1>3. WireOK /\ EpochOK
  <2>1. wire = {} /\ epoch = [w \in Workers |-> 0]
    BY DEF Init
  <2> QED BY <2>1, Bounds DEF WireOK, EpochOK
<1> QED BY InitTyped, <1>1, <1>2, <1>3 DEF IndInv

-----------------------------------------------------------------------------
(* Steps of a Worker that concern one Attempt.                              *)

\* The journal row, goroutine and processes of one Attempt, named.
LEMMA Row ==
    ASSUME IndInv, NEW a \in Attempts
    PROVE  \E r \in RunRows, g \in Goroutines, P \in SUBSET Processes :
             /\ run[a] = r /\ run = [run EXCEPT ![a] = r]
             /\ act[a] = g /\ act = [act EXCEPT ![a] = g]
             /\ procs[a] = P /\ procs = [procs EXCEPT ![a] = P]
             /\ RowOK(Exists(a), Up(a), att[a].released, r, g, "leader" \in P)
<1>1. /\ run \in [Attempts -> RunRows] /\ act \in [Attempts -> Goroutines]
      /\ procs \in [Attempts -> SUBSET Processes]
  BY DEF IndInv, TypeOK, WorkerTypeOK
<1>2. RowOK(Exists(a), Up(a), att[a].released, run[a], act[a], "leader" \in procs[a])
  BY DEF IndInv, JournalOK, Alive
<1> QED BY <1>1, <1>2

\* A step that rewrites them for one Attempt, and nothing else, keeps the invariant
\* if it keeps RowOK.
LEMMA LocalStep ==
    ASSUME IndInv, NEW a \in Attempts,
           NEW r \in RunRows, NEW g \in Goroutines, NEW P \in SUBSET Processes,
           run' = [run EXCEPT ![a] = r], act' = [act EXCEPT ![a] = g],
           procs' = [procs EXCEPT ![a] = P],
           UNCHANGED <<serverVars, streamVars, wstat, epoch>>,
           RowOK(Exists(a), Up(a), att[a].released, r, g, "leader" \in P)
    PROVE  IndInv'
<1>1. TypeOK'
  BY DEF IndInv, TypeOK, ServerTypeOK, StreamTypeOK, WorkerTypeOK, serverVars, streamVars
<1>2. Ledger' /\ WireOK' /\ EpochOK'
  BY DEF IndInv, Ledger, WireOK, EpochOK, serverVars, streamVars, Exists, Open
<1>3. ASSUME NEW b \in Attempts PROVE JournalOK(b)'
  <2>1. att' = att /\ wstat' = wstat
    BY DEF serverVars
  <2>2. /\ run \in [Attempts -> RunRows] /\ act \in [Attempts -> Goroutines]
        /\ procs \in [Attempts -> SUBSET Processes]
    BY DEF IndInv, TypeOK, WorkerTypeOK
  <2>3. CASE b = a
    <3>1. run'[b] = r /\ act'[b] = g /\ procs'[b] = P
      BY <2>2, <2>3
    <3> QED BY <2>1, <2>3, <3>1 DEF JournalOK, Exists, Alive, Up, WorkerOf
  <2>4. CASE b # a
    <3>1. run'[b] = run[b] /\ act'[b] = act[b] /\ procs'[b] = procs[b]
      BY <1>3, <2>2, <2>4
    <3>2. JournalOK(b)
      BY <1>3 DEF IndInv
    <3> QED BY <2>1, <3>1, <3>2 DEF JournalOK, Exists, Alive, Up, WorkerOf
  <2> QED BY <2>3, <2>4
<1> QED BY <1>1, <1>2, <1>3 DEF IndInv

\* LocalLeaseEnds keeps the invariant.
LEMMA LocalLeaseEndsOK == ASSUME IndInv, NEW a \in Attempts, LocalLeaseEnds(a) PROVE IndInv'
<1>1. PICK r0 \in RunRows, g0 \in Goroutines, P0 \in SUBSET Processes :
        /\ run[a] = r0 /\ run = [run EXCEPT ![a] = r0]
        /\ act[a] = g0 /\ act = [act EXCEPT ![a] = g0]
        /\ procs[a] = P0 /\ procs = [procs EXCEPT ![a] = P0]
        /\ RowOK(Exists(a), Up(a), att[a].released, r0, g0, "leader" \in P0)
  BY Row
<1> DEFINE r == r0
           g == [g0 EXCEPT !.cancel = "yes"]
           P == P0
<1>2. r \in RunRows
  BY <1>1 DEF RunRows
<1>3. g \in Goroutines /\ P \in SUBSET Processes
  BY <1>1 DEF Goroutines, Phases
<1>4. run' = [run EXCEPT ![a] = r] /\ act' = [act EXCEPT ![a] = g] /\ procs' = [procs EXCEPT ![a] = P]
  BY <1>1 DEF LocalLeaseEnds
<1>5. g0.phase # "off"
  BY <1>1 DEF LocalLeaseEnds, At, Goroutine
<1>6. RowOK(Exists(a), Up(a), att[a].released, r, g, "leader" \in P)
  BY <1>1, <1>5 DEF RunRows, Goroutines, RowOK, Idle, Claimed
<1> QED BY <1>2, <1>3, <1>4, <1>6, LocalStep DEF LocalLeaseEnds

\* PrepareWorkspace keeps the invariant.
LEMMA PrepareWorkspaceOK == ASSUME IndInv, NEW a \in Attempts, PrepareWorkspace(a) PROVE IndInv'
<1>1. PICK r0 \in RunRows, g0 \in Goroutines, P0 \in SUBSET Processes :
        /\ run[a] = r0 /\ run = [run EXCEPT ![a] = r0]
        /\ act[a] = g0 /\ act = [act EXCEPT ![a] = g0]
        /\ procs[a] = P0 /\ procs = [procs EXCEPT ![a] = P0]
        /\ RowOK(Exists(a), Up(a), att[a].released, r0, g0, "leader" \in P0)
  BY Row
<1> DEFINE r == [r0 EXCEPT !.ws = "pre"]
           g == g0
           P == P0
<1>2. r \in RunRows
  BY <1>1 DEF RunRows
<1>3. g \in Goroutines /\ P \in SUBSET Processes
  BY <1>1 DEF Goroutines, Phases
<1>4. run' = [run EXCEPT ![a] = r] /\ act' = [act EXCEPT ![a] = g] /\ procs' = [procs EXCEPT ![a] = P]
  BY <1>1 DEF PrepareWorkspace
<1>5. g0.phase = "prepare"
  BY <1>1 DEF PrepareWorkspace, At, Goroutine
<1>6. RowOK(Exists(a), Up(a), att[a].released, r, g, "leader" \in P)
  BY <1>1, <1>5 DEF RunRows, Goroutines, RowOK, Idle, Claimed
<1> QED BY <1>2, <1>3, <1>4, <1>6, LocalStep DEF PrepareWorkspace

\* MarkInUse keeps the invariant.
LEMMA MarkInUseOK == ASSUME IndInv, NEW a \in Attempts, MarkInUse(a) PROVE IndInv'
<1>1. PICK r0 \in RunRows, g0 \in Goroutines, P0 \in SUBSET Processes :
        /\ run[a] = r0 /\ run = [run EXCEPT ![a] = r0]
        /\ act[a] = g0 /\ act = [act EXCEPT ![a] = g0]
        /\ procs[a] = P0 /\ procs = [procs EXCEPT ![a] = P0]
        /\ RowOK(Exists(a), Up(a), att[a].released, r0, g0, "leader" \in P0)
  BY Row
<1> DEFINE r == [r0 EXCEPT !.ws = "inuse"]
           g == [g0 EXCEPT !.phase = "environment"]
           P == P0
<1>2. r \in RunRows
  BY <1>1 DEF RunRows
<1>3. g \in Goroutines /\ P \in SUBSET Processes
  BY <1>1 DEF Goroutines, Phases
<1>4. run' = [run EXCEPT ![a] = r] /\ act' = [act EXCEPT ![a] = g] /\ procs' = [procs EXCEPT ![a] = P]
  BY <1>1 DEF MarkInUse, Goes
<1>5. g0.phase = "prepare"
  BY <1>1 DEF MarkInUse, At, Goroutine
<1>6. RowOK(Exists(a), Up(a), att[a].released, r, g, "leader" \in P)
  BY <1>1, <1>5 DEF RunRows, Goroutines, RowOK, Idle, Claimed
<1> QED BY <1>2, <1>3, <1>4, <1>6, LocalStep DEF MarkInUse

\* Spawn keeps the invariant.
LEMMA SpawnOK == ASSUME IndInv, NEW a \in Attempts, Spawn(a) PROVE IndInv'
<1>1. PICK r0 \in RunRows, g0 \in Goroutines, P0 \in SUBSET Processes :
        /\ run[a] = r0 /\ run = [run EXCEPT ![a] = r0]
        /\ act[a] = g0 /\ act = [act EXCEPT ![a] = g0]
        /\ procs[a] = P0 /\ procs = [procs EXCEPT ![a] = P0]
        /\ RowOK(Exists(a), Up(a), att[a].released, r0, g0, "leader" \in P0)
  BY Row
<1> DEFINE r == r0
           g == [g0 EXCEPT !.phase = "spawned"]
           P == {"leader"}
<1>2. r \in RunRows
  BY <1>1 DEF RunRows, Processes, Group
<1>3. g \in Goroutines /\ P \in SUBSET Processes
  BY <1>1 DEF Goroutines, Phases, Processes, Group
<1>4. run' = [run EXCEPT ![a] = r] /\ act' = [act EXCEPT ![a] = g] /\ procs' = [procs EXCEPT ![a] = P]
  BY <1>1 DEF Spawn, Goes
<1>5. g0.phase = "environment"
  BY <1>1 DEF Spawn, At, Goroutine
<1>6. RowOK(Exists(a), Up(a), att[a].released, r, g, "leader" \in P)
  BY <1>1, <1>5 DEF RunRows, Goroutines, RowOK, Idle, Claimed
<1> QED BY <1>2, <1>3, <1>4, <1>6, LocalStep DEF Spawn

\* SpawnFails keeps the invariant.
LEMMA SpawnFailsOK == ASSUME IndInv, NEW a \in Attempts, SpawnFails(a) PROVE IndInv'
<1>1. PICK r0 \in RunRows, g0 \in Goroutines, P0 \in SUBSET Processes :
        /\ run[a] = r0 /\ run = [run EXCEPT ![a] = r0]
        /\ act[a] = g0 /\ act = [act EXCEPT ![a] = g0]
        /\ procs[a] = P0 /\ procs = [procs EXCEPT ![a] = P0]
        /\ RowOK(Exists(a), Up(a), att[a].released, r0, g0, "leader" \in P0)
  BY Row
<1> DEFINE r == r0
           g == [g0 EXCEPT !.phase = "exited", !.res = "FINAL", !.clean = TRUE]
           P == P0
<1>2. r \in RunRows
  BY <1>1 DEF RunRows
<1>3. g \in Goroutines /\ P \in SUBSET Processes
  BY <1>1 DEF Goroutines, Phases
<1>4. run' = [run EXCEPT ![a] = r] /\ act' = [act EXCEPT ![a] = g] /\ procs' = [procs EXCEPT ![a] = P]
  BY <1>1 DEF SpawnFails, Ends
<1>5. g0.phase = "environment"
  BY <1>1 DEF SpawnFails, At, Goroutine
<1>6. RowOK(Exists(a), Up(a), att[a].released, r, g, "leader" \in P)
  BY <1>1, <1>5 DEF RunRows, Goroutines, RowOK, Idle, Claimed
<1> QED BY <1>2, <1>3, <1>4, <1>6, LocalStep DEF SpawnFails

\* RecordRuntimeStarted keeps the invariant.
LEMMA RecordRuntimeStartedOK == ASSUME IndInv, NEW a \in Attempts, RecordRuntimeStarted(a) PROVE IndInv'
<1>1. PICK r0 \in RunRows, g0 \in Goroutines, P0 \in SUBSET Processes :
        /\ run[a] = r0 /\ run = [run EXCEPT ![a] = r0]
        /\ act[a] = g0 /\ act = [act EXCEPT ![a] = g0]
        /\ procs[a] = P0 /\ procs = [procs EXCEPT ![a] = P0]
        /\ RowOK(Exists(a), Up(a), att[a].released, r0, g0, "leader" \in P0)
  BY Row
<1> DEFINE r == [RuntimeRow(r0) EXCEPT !.seq = 1]
           g == [g0 EXCEPT !.phase = "running"]
           P == P0
<1>2. r \in RunRows
  BY <1>1 DEF RunRows, RuntimeRow
<1>3. g \in Goroutines /\ P \in SUBSET Processes
  BY <1>1 DEF Goroutines, Phases, RuntimeRow
<1>4. run' = [run EXCEPT ![a] = r] /\ act' = [act EXCEPT ![a] = g] /\ procs' = [procs EXCEPT ![a] = P]
  BY <1>1 DEF RecordRuntimeStarted, Goes
<1>5. g0.phase = "spawned"
  BY <1>1 DEF RecordRuntimeStarted, At, Goroutine
<1>6. RowOK(Exists(a), Up(a), att[a].released, r, g, "leader" \in P)
  BY <1>1, <1>5 DEF RunRows, Goroutines, RowOK, Idle, Claimed, RuntimeRow
<1> QED BY <1>2, <1>3, <1>4, <1>6, LocalStep DEF RecordRuntimeStarted

\* RecordVerifier keeps the invariant.
LEMMA RecordVerifierOK == ASSUME IndInv, NEW a \in Attempts, RecordVerifier(a) PROVE IndInv'
<1>1. PICK r0 \in RunRows, g0 \in Goroutines, P0 \in SUBSET Processes :
        /\ run[a] = r0 /\ run = [run EXCEPT ![a] = r0]
        /\ act[a] = g0 /\ act = [act EXCEPT ![a] = g0]
        /\ procs[a] = P0 /\ procs = [procs EXCEPT ![a] = P0]
        /\ RowOK(Exists(a), Up(a), att[a].released, r0, g0, "leader" \in P0)
  BY Row
<1> DEFINE r == [r0 EXCEPT !.state = "RUNNING", !.pid = "verifier"]
           g == [g0 EXCEPT !.phase = "verifying"]
           P == P0
<1>2. r \in RunRows
  BY <1>1 DEF RunRows
<1>3. g \in Goroutines /\ P \in SUBSET Processes
  BY <1>1 DEF Goroutines, Phases
<1>4. run' = [run EXCEPT ![a] = r] /\ act' = [act EXCEPT ![a] = g] /\ procs' = [procs EXCEPT ![a] = P]
  BY <1>1 DEF RecordVerifier, Goes
<1>5. g0.phase = "vspawned"
  BY <1>1 DEF RecordVerifier, At, Goroutine
<1>6. RowOK(Exists(a), Up(a), att[a].released, r, g, "leader" \in P)
  BY <1>1, <1>5 DEF RunRows, Goroutines, RowOK, Idle, Claimed
<1> QED BY <1>2, <1>3, <1>4, <1>6, LocalStep DEF RecordVerifier

\* Leave keeps the invariant.
LEMMA LeaveOK == ASSUME IndInv, NEW a \in Attempts, Leave(a) PROVE IndInv'
<1>1. PICK r0 \in RunRows, g0 \in Goroutines, P0 \in SUBSET Processes :
        /\ run[a] = r0 /\ run = [run EXCEPT ![a] = r0]
        /\ act[a] = g0 /\ act = [act EXCEPT ![a] = g0]
        /\ procs[a] = P0 /\ procs = [procs EXCEPT ![a] = P0]
        /\ RowOK(Exists(a), Up(a), att[a].released, r0, g0, "leader" \in P0)
  BY Row
<1> DEFINE r == r0
           g == Off
           P == P0
<1>2. r \in RunRows
  BY <1>1 DEF RunRows, Off
<1>3. g \in Goroutines /\ P \in SUBSET Processes
  BY <1>1 DEF Goroutines, Phases, Off
<1>4. run' = [run EXCEPT ![a] = r] /\ act' = [act EXCEPT ![a] = g] /\ procs' = [procs EXCEPT ![a] = P]
  BY <1>1 DEF Leave
<1>5. g0.phase = "ending"
  BY <1>1 DEF Leave, At, Goroutine
<1>6. RowOK(Exists(a), Up(a), att[a].released, r, g, "leader" \in P)
  BY <1>1, <1>5 DEF RunRows, Goroutines, RowOK, Idle, Claimed, Off
<1> QED BY <1>2, <1>3, <1>4, <1>6, LocalStep DEF Leave

\* Fork: a fork in the runtime keeps the invariant.
LEMMA ForkOK == ASSUME IndInv, NEW a \in Attempts, Fork(a) PROVE IndInv'
<1>1. PICK r0 \in RunRows, g0 \in Goroutines, P0 \in SUBSET Processes :
        /\ run[a] = r0 /\ run = [run EXCEPT ![a] = r0]
        /\ act[a] = g0 /\ act = [act EXCEPT ![a] = g0]
        /\ procs[a] = P0 /\ procs = [procs EXCEPT ![a] = P0]
        /\ RowOK(Exists(a), Up(a), att[a].released, r0, g0, "leader" \in P0)
  BY Row
<1> DEFINE r == r0
           g == g0
           P == P0 \cup {"member"}
<1>2. r \in RunRows
  BY <1>1 DEF RunRows, Processes, Group
<1>3. g \in Goroutines /\ P \in SUBSET Processes
  BY <1>1 DEF Goroutines, Phases, Processes, Group
<1>4. run' = [run EXCEPT ![a] = r] /\ act' = [act EXCEPT ![a] = g] /\ procs' = [procs EXCEPT ![a] = P]
  BY <1>1 DEF Fork
<1>5. "leader" \in P0
  BY <1>1 DEF Fork, At, Goroutine
<1>6. RowOK(Exists(a), Up(a), att[a].released, r, g, "leader" \in P)
  BY <1>1, <1>5 DEF RunRows, Goroutines, RowOK, Idle, Claimed
<1> QED BY <1>2, <1>3, <1>4, <1>6, LocalStep DEF Fork

\* CancelRun keeps the invariant.
LEMMA CancelRunOK == ASSUME IndInv, NEW a \in Attempts, CancelRun(a) PROVE IndInv'
<1>1. PICK r0 \in RunRows, g0 \in Goroutines, P0 \in SUBSET Processes :
        /\ run[a] = r0 /\ run = [run EXCEPT ![a] = r0]
        /\ act[a] = g0 /\ act = [act EXCEPT ![a] = g0]
        /\ procs[a] = P0 /\ procs = [procs EXCEPT ![a] = P0]
        /\ RowOK(Exists(a), Up(a), att[a].released, r0, g0, "leader" \in P0)
  BY Row
<1> DEFINE r == r0
           g == [g0 EXCEPT !.cancel = "yes"]
           P == P0
<1>2. r \in RunRows
  BY <1>1 DEF RunRows
<1>3. g \in Goroutines /\ P \in SUBSET Processes
  BY <1>1 DEF Goroutines, Phases
<1>4. run' = [run EXCEPT ![a] = r] /\ act' = [act EXCEPT ![a] = g] /\ procs' = [procs EXCEPT ![a] = P]
  BY <1>1 DEF CancelRun
<1>5. TRUE
  BY <1>1 DEF CancelRun, At, Goroutine
<1>6. RowOK(Exists(a), Up(a), att[a].released, r, g, "leader" \in P)
  BY <1>1, <1>5 DEF RunRows, Goroutines, RowOK, Idle, Claimed
<1> QED BY <1>2, <1>3, <1>4, <1>6, LocalStep DEF CancelRun

\* The completions execute(), accept() and recover() build: which of them say "clean".
LEMMA CompletionFacts ==
    /\ \A code \in {"RETRYABLE", "FINAL", "WORKER_RESTARTED"} :
         Failed(code) \in Completions /\ Failed(code) # NoCompletion /\ Failed(code).clean
    /\ \A b \in BOOLEAN :
         LET c == Completion(FALSE, FALSE, "CLEANUP_UNCONFIRMED", b) IN
         c \in Completions /\ c # NoCompletion /\ ~c.clean
    /\ \A code \in {"OK", "RETRYABLE", "FINAL"}, ok, b \in BOOLEAN :
         LET c == Completion(ok, TRUE, code, b) IN
         c \in Completions /\ c # NoCompletion /\ c.clean
  BY DEF Failed, Completion, Completions, CompletionCodes, NoCompletion

\* A goroutine that records its completion: true to the runtime if it says clean.
LEMMA CompleteOK ==
    ASSUME IndInv, NEW a \in Attempts, NEW c \in Completions, c # NoCompletion,
           act[a].phase # "off", c.clean => ~Alive(a), Complete(a, c),
           UNCHANGED <<serverVars, streamVars, wstat, epoch, procs>>
    PROVE  IndInv'
<1>1. PICK r0 \in RunRows, g0 \in Goroutines, P0 \in SUBSET Processes :
        /\ run[a] = r0 /\ run = [run EXCEPT ![a] = r0]
        /\ act[a] = g0 /\ act = [act EXCEPT ![a] = g0]
        /\ procs[a] = P0 /\ procs = [procs EXCEPT ![a] = P0]
        /\ RowOK(Exists(a), Up(a), att[a].released, r0, g0, "leader" \in P0)
  BY Row
<1> DEFINE r == Stored(r0, c)
           g == [Off EXCEPT !.phase = "ending"]
<1>2. r \in RunRows
  BY <1>1 DEF RunRows, Stored
<1>3. g \in Goroutines
  BY DEF Goroutines, Phases, Off
<1>4. run' = [run EXCEPT ![a] = r] /\ act' = [act EXCEPT ![a] = g] /\ procs' = [procs EXCEPT ![a] = P0]
  BY <1>1 DEF Complete
<1>5. g0.phase # "off" /\ (c.clean => "leader" \notin P0)
  BY <1>1 DEF Alive
<1>6. RowOK(Exists(a), Up(a), att[a].released, r, g, "leader" \in P0)
  BY <1>1, <1>5 DEF RunRows, Goroutines, RowOK, Idle, Claimed, Stored, Off
<1> QED BY <1>2, <1>3, <1>4, <1>6, LocalStep

\* Where a goroutine is before spawn or after a confirmed shutdown, no runtime is alive.
LEMMA QuietPhases ==
    ASSUME IndInv, NEW a \in Attempts
    PROVE  /\ act[a].phase \in Idle => ~Alive(a)
           /\ act[a].phase \in {"exited", "verified"} /\ act[a].clean => ~Alive(a)
  BY DEF IndInv, JournalOK, RowOK

\* LeaseLost keeps the invariant.
LEMMA LeaseLostOK == ASSUME IndInv, NEW a \in Attempts, LeaseLost(a) PROVE IndInv'
<1>1. act[a].phase \in Idle /\ act[a].phase # "off"
  BY DEF LeaseLost, Idle
<1> QED BY <1>1, QuietPhases, CompletionFacts, CompleteOK DEF LeaseLost

\* PrepareFails keeps the invariant.
LEMMA PrepareFailsOK == ASSUME IndInv, NEW a \in Attempts, PrepareFails(a) PROVE IndInv'
<1>1. act[a].phase \in Idle /\ act[a].phase # "off"
  BY DEF PrepareFails, At, Idle
<1> QED BY <1>1, QuietPhases, CompletionFacts, CompleteOK DEF PrepareFails

\* EnvironmentFails keeps the invariant.
LEMMA EnvironmentFailsOK == ASSUME IndInv, NEW a \in Attempts, EnvironmentFails(a) PROVE IndInv'
<1>1. act[a].phase \in Idle /\ act[a].phase # "off"
  BY DEF EnvironmentFails, At, Idle
<1>2. PICK c \in {Failed("RETRYABLE"), Failed("FINAL"),
                  Completion(FALSE, FALSE, "CLEANUP_UNCONFIRMED", FALSE)} : Complete(a, c)
  BY DEF EnvironmentFails
<1>3. c \in Completions /\ c # NoCompletion
  BY <1>2, CompletionFacts
<1> QED BY <1>1, <1>2, <1>3, QuietPhases, CompleteOK DEF EnvironmentFails

\* ExecuteBegin keeps the invariant.
LEMMA ExecuteBeginOK == ASSUME IndInv, NEW a \in Attempts, ExecuteBegin(a) PROVE IndInv'
<1>1. act[a].phase = "ready" /\ act[a].phase \in Idle
  BY DEF ExecuteBegin, At, Idle
<1>2. CASE Cancelled(a)
  BY <1>1, <1>2, QuietPhases, CompletionFacts, CompleteOK DEF ExecuteBegin
<1>3. CASE ~Cancelled(a)
  <2>1. PICK r0 \in RunRows, g0 \in Goroutines, P0 \in SUBSET Processes :
          /\ run[a] = r0 /\ run = [run EXCEPT ![a] = r0]
          /\ act[a] = g0 /\ act = [act EXCEPT ![a] = g0]
          /\ procs[a] = P0 /\ procs = [procs EXCEPT ![a] = P0]
          /\ RowOK(Exists(a), Up(a), att[a].released, r0, g0, "leader" \in P0)
    BY Row
  <2> DEFINE claim == r0.state = "ACCEPTED" /\ ~r0.stop /\ r0.comp = NoCompletion
             r == IF claim THEN [r0 EXCEPT !.state = "STARTING"] ELSE r0
             g == [g0 EXCEPT !.phase = IF claim THEN "prepare" ELSE "ending"]
  <2>2. r \in RunRows
    BY <2>1 DEF RunRows
  <2>3. g \in Goroutines
    BY <2>1 DEF Goroutines, Phases
  <2>4. run' = [run EXCEPT ![a] = r] /\ act' = [act EXCEPT ![a] = g] /\ procs' = [procs EXCEPT ![a] = P0]
    BY <1>3, <2>1 DEF ExecuteBegin, Recorded, Goes
  <2>5. RowOK(Exists(a), Up(a), att[a].released, r, g, "leader" \in P0)
    BY <1>1, <2>1 DEF RunRows, Goroutines, RowOK, Idle, Claimed
  <2> QED BY <2>1, <2>2, <2>3, <2>4, <2>5, LocalStep DEF ExecuteBegin
<1> QED BY <1>2, <1>3

\* Finish keeps the invariant.
LEMMA FinishOK == ASSUME IndInv, NEW a \in Attempts, Finish(a) PROVE IndInv'
<1>1. act[a].phase \in {"exited", "verified"} /\ act[a].phase # "off"
  BY DEF Finish, At
<1>2. PICK code \in FinalCodes(a), released \in BOOLEAN, bundled \in BOOLEAN :
        Complete(a, IF act[a].clean /\ released THEN Completion(code = "OK", TRUE, code, bundled)
                    ELSE Completion(FALSE, FALSE, "CLEANUP_UNCONFIRMED", bundled))
  BY DEF Finish
<1>3. code \in {"OK", "RETRYABLE", "FINAL"}
  <2>1. act[a] \in Goroutines
    BY DEF IndInv, TypeOK, WorkerTypeOK
  <2>2. act[a].res \in {"OK", "RETRYABLE", "FINAL"}
    BY <2>1 DEF Goroutines
  <2> QED BY <1>2, <2>2 DEF FinalCodes
<1>4. CASE act[a].clean /\ released
  <2> DEFINE c == Completion(code = "OK", TRUE, code, bundled)
  <2>1. c \in Completions /\ c # NoCompletion
    BY <1>2, <1>3, CompletionFacts
  <2> QED BY <1>1, <1>2, <1>4, <2>1, QuietPhases, CompleteOK DEF Finish
<1>5. CASE ~(act[a].clean /\ released)
  <2> DEFINE c == Completion(FALSE, FALSE, "CLEANUP_UNCONFIRMED", bundled)
  <2>1. c \in Completions /\ c # NoCompletion /\ ~c.clean
    BY <1>2, CompletionFacts
  <2> QED BY <1>1, <1>2, <1>5, <2>1, CompleteOK DEF Finish
<1> QED BY <1>4, <1>5

\* RecordFails keeps the invariant.
LEMMA RecordFailsOK == ASSUME IndInv, NEW a \in Attempts, RecordFails(a) PROVE IndInv'
<1>1. PICK r0 \in RunRows, g0 \in Goroutines, P0 \in SUBSET Processes :
        /\ run[a] = r0 /\ run = [run EXCEPT ![a] = r0]
        /\ act[a] = g0 /\ act = [act EXCEPT ![a] = g0]
        /\ procs[a] = P0 /\ procs = [procs EXCEPT ![a] = P0]
        /\ RowOK(Exists(a), Up(a), att[a].released, r0, g0, "leader" \in P0)
  BY Row
<1>2. PICK clean \in BOOLEAN, r \in {r0, RuntimeRow(r0)} :
        run' = [run EXCEPT ![a] = r] /\ Stopped(a, Group, clean) /\ Ends(a, "exited", "FINAL", clean)
  BY <1>1 DEF RecordFails
<1> DEFINE g == [g0 EXCEPT !.phase = "exited", !.res = "FINAL", !.clean = clean]
           P == IF clean THEN P0 \ Group ELSE P0
<1>3. r \in RunRows
  BY <1>1, <1>2 DEF RunRows, RuntimeRow
<1>4. g \in Goroutines /\ P \in SUBSET Processes
  BY <1>1, <1>2 DEF Goroutines, Phases
<1>5. act' = [act EXCEPT ![a] = g] /\ procs' = [procs EXCEPT ![a] = P]
  BY <1>1, <1>2 DEF Ends, Stopped
<1>6. g0.phase = "spawned"
  BY <1>1 DEF RecordFails, At
<1>7. RowOK(Exists(a), Up(a), att[a].released, r, g, "leader" \in P)
  BY ZenonT(60), <1>1, <1>2, <1>6 DEF RunRows, Goroutines, RowOK, Idle, Claimed, RuntimeRow, Group
<1> QED BY <1>2, <1>3, <1>4, <1>5, <1>7, LocalStep DEF RecordFails

\* RuntimeEnds keeps the invariant.
LEMMA RuntimeEndsOK == ASSUME IndInv, NEW a \in Attempts, RuntimeEnds(a) PROVE IndInv'
<1>1. PICK r0 \in RunRows, g0 \in Goroutines, P0 \in SUBSET Processes :
        /\ run[a] = r0 /\ run = [run EXCEPT ![a] = r0]
        /\ act[a] = g0 /\ act = [act EXCEPT ![a] = g0]
        /\ procs[a] = P0 /\ procs = [procs EXCEPT ![a] = P0]
        /\ RowOK(Exists(a), Up(a), att[a].released, r0, g0, "leader" \in P0)
  BY Row
<1>2. PICK clean \in BOOLEAN, res \in {"OK", "RETRYABLE", "FINAL"} :
        (~clean => res = "FINAL") /\ Stopped(a, Group, clean) /\ Ends(a, "exited", res, clean)
  BY DEF RuntimeEnds
<1> DEFINE g == [g0 EXCEPT !.phase = "exited", !.res = res, !.clean = clean]
           P == IF clean THEN P0 \ Group ELSE P0
<1>3. g \in Goroutines /\ P \in SUBSET Processes
  BY ZenonT(60), <1>1, <1>2 DEF Goroutines, Phases
<1>4. run' = [run EXCEPT ![a] = r0] /\ act' = [act EXCEPT ![a] = g] /\ procs' = [procs EXCEPT ![a] = P]
  BY ZenonT(60), <1>1, <1>2 DEF Ends, Stopped, RuntimeEnds
<1>5. g0.phase = "running"
  BY <1>1 DEF RuntimeEnds, At
<1>6. RowOK(Exists(a), Up(a), att[a].released, r0, g, "leader" \in P)
  BY <1>1, <1>2, <1>5 DEF RunRows, Goroutines, RowOK, Idle, Claimed, Group
<1> QED BY <1>1, <1>3, <1>4, <1>6, LocalStep DEF RuntimeEnds

\* FenceVerifier keeps the invariant.
LEMMA FenceVerifierOK == ASSUME IndInv, NEW a \in Attempts, FenceVerifier(a) PROVE IndInv'
<1>1. PICK r0 \in RunRows, g0 \in Goroutines, P0 \in SUBSET Processes :
        /\ run[a] = r0 /\ run = [run EXCEPT ![a] = r0]
        /\ act[a] = g0 /\ act = [act EXCEPT ![a] = g0]
        /\ procs[a] = P0 /\ procs = [procs EXCEPT ![a] = P0]
        /\ RowOK(Exists(a), Up(a), att[a].released, r0, g0, "leader" \in P0)
  BY Row
<1>2. g0.phase = "exited" /\ g0.res = "OK"
  BY <1>1 DEF FenceVerifier, Verifies, At
<1>3. CASE run' = [run EXCEPT ![a].state = "STARTING", ![a].pid = "none"] /\ Goes(a, "fenced")
  <2> DEFINE r == [r0 EXCEPT !.state = "STARTING", !.pid = "none"]
             g == [g0 EXCEPT !.phase = "fenced"]
  <2>1. r \in RunRows
    BY <1>1 DEF RunRows
  <2>2. g \in Goroutines
    BY <1>1 DEF Goroutines, Phases
  <2>3. run' = [run EXCEPT ![a] = r] /\ act' = [act EXCEPT ![a] = g] /\ procs' = [procs EXCEPT ![a] = P0]
    BY <1>1, <1>3 DEF Goes, FenceVerifier
  <2>4. RowOK(Exists(a), Up(a), att[a].released, r, g, "leader" \in P0)
    BY <1>1, <1>2 DEF RunRows, Goroutines, RowOK, Idle, Claimed
  <2> QED BY <1>1, <2>1, <2>2, <2>3, <2>4, LocalStep DEF FenceVerifier
<1>4. CASE UNCHANGED run /\ Ends(a, "verified", "RETRYABLE", TRUE)
  <2> DEFINE g == [g0 EXCEPT !.phase = "verified", !.res = "RETRYABLE", !.clean = TRUE]
  <2>1. g \in Goroutines
    BY <1>1 DEF Goroutines, Phases
  <2>2. run' = [run EXCEPT ![a] = r0] /\ act' = [act EXCEPT ![a] = g] /\ procs' = [procs EXCEPT ![a] = P0]
    BY <1>1, <1>4 DEF Ends, FenceVerifier
  <2>3. RowOK(Exists(a), Up(a), att[a].released, r0, g, "leader" \in P0)
    BY <1>1, <1>2 DEF RunRows, Goroutines, RowOK, Idle, Claimed
  <2> QED BY <1>1, <2>1, <2>2, <2>3, LocalStep DEF FenceVerifier
<1> QED BY <1>3, <1>4 DEF FenceVerifier

\* SpawnVerifier keeps the invariant.
LEMMA SpawnVerifierOK == ASSUME IndInv, NEW a \in Attempts, SpawnVerifier(a) PROVE IndInv'
<1>1. PICK r0 \in RunRows, g0 \in Goroutines, P0 \in SUBSET Processes :
        /\ run[a] = r0 /\ run = [run EXCEPT ![a] = r0]
        /\ act[a] = g0 /\ act = [act EXCEPT ![a] = g0]
        /\ procs[a] = P0 /\ procs = [procs EXCEPT ![a] = P0]
        /\ RowOK(Exists(a), Up(a), att[a].released, r0, g0, "leader" \in P0)
  BY Row
<1>2. g0.phase = "fenced"
  BY <1>1 DEF SpawnVerifier, At
<1>3. CASE procs' = [procs EXCEPT ![a] = @ \cup {"verifier"}] /\ Goes(a, "vspawned")
  <2> DEFINE g == [g0 EXCEPT !.phase = "vspawned"]
             P == P0 \cup {"verifier"}
  <2>1. g \in Goroutines /\ P \in SUBSET Processes
    BY <1>1 DEF Goroutines, Phases, Processes
  <2>2. run' = [run EXCEPT ![a] = r0] /\ act' = [act EXCEPT ![a] = g] /\ procs' = [procs EXCEPT ![a] = P]
    BY <1>1, <1>3 DEF Goes, SpawnVerifier
  <2>3. RowOK(Exists(a), Up(a), att[a].released, r0, g, "leader" \in P)
    BY <1>1, <1>2 DEF RunRows, Goroutines, RowOK, Idle, Claimed
  <2> QED BY <1>1, <2>1, <2>2, <2>3, LocalStep DEF SpawnVerifier
<1>4. CASE UNCHANGED procs /\ Ends(a, "verified", "FINAL", TRUE)
  <2> DEFINE g == [g0 EXCEPT !.phase = "verified", !.res = "FINAL", !.clean = TRUE]
  <2>1. g \in Goroutines
    BY <1>1 DEF Goroutines, Phases
  <2>2. run' = [run EXCEPT ![a] = r0] /\ act' = [act EXCEPT ![a] = g] /\ procs' = [procs EXCEPT ![a] = P0]
    BY <1>1, <1>4 DEF Ends, SpawnVerifier
  <2>3. RowOK(Exists(a), Up(a), att[a].released, r0, g, "leader" \in P0)
    BY <1>1, <1>2 DEF RunRows, Goroutines, RowOK, Idle, Claimed
  <2> QED BY <1>1, <2>1, <2>2, <2>3, LocalStep DEF SpawnVerifier
<1> QED BY <1>3, <1>4 DEF SpawnVerifier

\* VerifierEnds keeps the invariant.
LEMMA VerifierEndsOK == ASSUME IndInv, NEW a \in Attempts, VerifierEnds(a) PROVE IndInv'
<1>1. PICK r0 \in RunRows, g0 \in Goroutines, P0 \in SUBSET Processes :
        /\ run[a] = r0 /\ run = [run EXCEPT ![a] = r0]
        /\ act[a] = g0 /\ act = [act EXCEPT ![a] = g0]
        /\ procs[a] = P0 /\ procs = [procs EXCEPT ![a] = P0]
        /\ RowOK(Exists(a), Up(a), att[a].released, r0, g0, "leader" \in P0)
  BY Row
<1>2. PICK clean \in BOOLEAN, res \in {"OK", "FINAL"} :
        Stopped(a, {"verifier"}, clean) /\ Ends(a, "verified", res, clean)
  BY DEF VerifierEnds
<1> DEFINE g == [g0 EXCEPT !.phase = "verified", !.res = res, !.clean = clean]
           P == IF clean THEN P0 \ {"verifier"} ELSE P0
<1>3. g \in Goroutines /\ P \in SUBSET Processes
  BY ZenonT(60), <1>1, <1>2 DEF Goroutines, Phases
<1>4. run' = [run EXCEPT ![a] = r0] /\ act' = [act EXCEPT ![a] = g] /\ procs' = [procs EXCEPT ![a] = P]
  <2>1. run' = run
    BY DEF VerifierEnds
  <2>2. act' = [act EXCEPT ![a] = g]
    BY <1>1, <1>2 DEF Ends
  <2>3. procs' = [procs EXCEPT ![a] = P]
    BY <1>1, <1>2 DEF Stopped
  <2> QED BY <1>1, <2>1, <2>2, <2>3
<1>5. g0.phase \in {"vspawned", "verifying"}
  BY <1>1 DEF VerifierEnds, At
<1>6. RowOK(Exists(a), Up(a), att[a].released, r0, g, "leader" \in P)
  BY <1>1, <1>2, <1>5 DEF RunRows, Goroutines, RowOK, Idle, Claimed
<1> QED BY <1>1, <1>3, <1>4, <1>6, LocalStep DEF VerifierEnds

\* ProcessExits: the exit of a process keeps the invariant.
LEMMA ProcessExitsOK ==
    ASSUME IndInv, NEW a \in Attempts, NEW p \in Processes, ProcessExits(a, p) PROVE IndInv'
<1>1. PICK r0 \in RunRows, g0 \in Goroutines, P0 \in SUBSET Processes :
        /\ run[a] = r0 /\ run = [run EXCEPT ![a] = r0]
        /\ act[a] = g0 /\ act = [act EXCEPT ![a] = g0]
        /\ procs[a] = P0 /\ procs = [procs EXCEPT ![a] = P0]
        /\ RowOK(Exists(a), Up(a), att[a].released, r0, g0, "leader" \in P0)
  BY Row
<1> DEFINE P == P0 \ {p}
<1>2. run' = [run EXCEPT ![a] = r0] /\ act' = [act EXCEPT ![a] = g0] /\ procs' = [procs EXCEPT ![a] = P]
  BY <1>1 DEF ProcessExits
<1>3. RowOK(Exists(a), Up(a), att[a].released, r0, g0, "leader" \in P)
  BY <1>1 DEF RunRows, Goroutines, RowOK
<1>4. P \in SUBSET Processes
  BY <1>1
<1>5. UNCHANGED <<serverVars, streamVars, wstat, epoch>>
  BY DEF ProcessExits
<1> HIDE DEF P
<1> QED BY <1>1, <1>2, <1>3, <1>4, <1>5, LocalStep

\* RecoverRun: recover() of an interrupted row keeps the invariant.
LEMMA RecoverRunOK == ASSUME IndInv, NEW a \in Attempts, RecoverRun(a) PROVE IndInv'
<1>1. PICK r0 \in RunRows, g0 \in Goroutines, P0 \in SUBSET Processes :
        /\ run[a] = r0 /\ run = [run EXCEPT ![a] = r0]
        /\ act[a] = g0 /\ act = [act EXCEPT ![a] = g0]
        /\ procs[a] = P0 /\ procs = [procs EXCEPT ![a] = P0]
        /\ RowOK(Exists(a), Up(a), att[a].released, r0, g0, "leader" \in P0)
  BY Row
<1>2. PICK confirmed \in IF run[a].ws = "inuse" THEN BOOLEAN ELSE {TRUE} :
        /\ run' = [run EXCEPT ![a] =
                     [Stored(@, IF Provable(a) /\ confirmed THEN Failed("WORKER_RESTARTED")
                                ELSE Completion(FALSE, FALSE, "CLEANUP_UNCONFIRMED", FALSE))
                      EXCEPT !.ack = run[a].seq]]
        /\ Stopped(a, Group, run[a].ref /\ confirmed /\ "leader" \in procs[a])
  BY DEF RecoverRun
<1> DEFINE c == IF Provable(a) /\ confirmed THEN Failed("WORKER_RESTARTED")
                ELSE Completion(FALSE, FALSE, "CLEANUP_UNCONFIRMED", FALSE)
           r == [Stored(r0, c) EXCEPT !.ack = r0.seq]
           P == IF r0.ref /\ confirmed /\ "leader" \in P0 THEN P0 \ Group ELSE P0
<1>3. c \in Completions /\ c # NoCompletion /\ (c.clean => Provable(a) /\ confirmed)
  BY CompletionFacts
<1>4. Provable(a) => r0.ref \/ r0.state = "ACCEPTED" \/ (r0.state = "STARTING" /\ r0.ws = "pre")
  BY <1>1 DEF Provable
<1>5. Exists(a) /\ r0.comp = NoCompletion
  BY <1>1 DEF RecoverRun, Interrupted, Recorded
<1> HIDE DEF c
<1>6. r \in RunRows
  BY <1>1, <1>3 DEF RunRows, Stored
<1>7. run' = [run EXCEPT ![a] = r] /\ act' = [act EXCEPT ![a] = g0] /\ procs' = [procs EXCEPT ![a] = P]
  BY <1>1, <1>2 DEF Stopped, RecoverRun, c
<1>8. g0.phase = "off"
  BY <1>1 DEF RecoverRun, Up, RowOK
<1>9. RowOK(Exists(a), Up(a), att[a].released, r, g0, "leader" \in P)
  BY <1>1, <1>3, <1>4, <1>5, <1>8 DEF RunRows, Goroutines, RowOK, Idle, Claimed, Stored, Group
<1>10. P \in SUBSET Processes
  BY <1>1
<1> QED BY <1>1, <1>6, <1>7, <1>9, <1>10, LocalStep DEF RecoverRun

\* UploadRejected keeps the invariant.
LEMMA UploadRejectedOK == ASSUME IndInv, NEW a \in Attempts, UploadRejected(a) PROVE IndInv'
<1>1. PICK r0 \in RunRows, g0 \in Goroutines, P0 \in SUBSET Processes :
        /\ run[a] = r0 /\ run = [run EXCEPT ![a] = r0]
        /\ act[a] = g0 /\ act = [act EXCEPT ![a] = g0]
        /\ procs[a] = P0 /\ procs = [procs EXCEPT ![a] = P0]
        /\ RowOK(Exists(a), Up(a), att[a].released, r0, g0, "leader" \in P0)
  BY Row
<1> DEFINE c == [r0.comp EXCEPT !.ok = FALSE, !.code = "RETRYABLE", !.art = FALSE]
           r == [r0 EXCEPT !.uploaded = TRUE, !.comp = c]
<1>2. r0.comp \in Completions /\ r0.comp # NoCompletion
  BY <1>1 DEF UploadRejected, Uploading, Recorded, RunRows
<1>3. c \in Completions /\ c # NoCompletion /\ c.clean = r0.comp.clean
  BY <1>2 DEF Completions, Completion, NoCompletion, CompletionCodes
<1> HIDE DEF c
<1>4. r \in RunRows
  BY <1>1, <1>3 DEF RunRows
<1>5. run' = [run EXCEPT ![a] = r] /\ act' = [act EXCEPT ![a] = g0] /\ procs' = [procs EXCEPT ![a] = P0]
  BY <1>1 DEF UploadRejected, c
<1>6. RowOK(Exists(a), Up(a), att[a].released, r, g0, "leader" \in P0)
  BY <1>1, <1>2, <1>3 DEF RunRows, Goroutines, RowOK
<1>7. UNCHANGED <<serverVars, streamVars, wstat, epoch>>
  BY DEF UploadRejected
<1> HIDE DEF r
<1> QED BY <1>1, <1>4, <1>5, <1>6, <1>7, LocalStep

-----------------------------------------------------------------------------
(* Steps of the Server.                                                    *)

\* The types of the state, one fact per variable, for use in the steps below.
LEMMA Typed ==
    ASSUME IndInv
    PROVE  /\ task \in [Tasks -> TaskRows] /\ att \in [Attempts -> AttemptRows]
           /\ job \in [Tasks -> StopReasons \cup {"open", "SUCCEEDED"}]
           /\ due \in [Tasks -> {"no", "task", "job"}]
           /\ cmd \in [Attempts -> [Kinds -> CommandStates]]
           /\ art \in [Attempts -> {"none", "STAGED", "ACCEPTED", "ORPHANED"}]
           /\ regEpoch \in [Workers -> 0 .. MaxEpoch] /\ session \in [Workers -> 0 .. MaxEpoch]
           /\ snap \in [Workers -> 0 .. MaxEpoch] /\ epoch \in [Workers -> 0 .. MaxEpoch]
           /\ wire \in SUBSET (Kinds \X Attempts) /\ grants \in [Attempts -> SUBSET BOOLEAN]
           /\ run \in [Attempts -> RunRows] /\ act \in [Attempts -> Goroutines]
           /\ procs \in [Attempts -> SUBSET Processes]
           /\ wstat \in [Workers -> {"down", "recovering", "up"}]
  BY DEF IndInv, TypeOK, ServerTypeOK, StreamTypeOK, WorkerTypeOK

\* An Attempt is its Task and its generation.
LEMMA AttemptParts ==
    ASSUME NEW a \in Attempts
    PROVE  /\ TaskOf(a) \in Tasks /\ Gen(a) \in Gens /\ a = <<TaskOf(a), Gen(a)>>
           /\ Gen(a) \in 1 .. MaxAttempts
  BY DEF Attempts, Gens, TaskOf, Gen

\* Journals stay in order when neither they nor the Attempts change.
LEMMA JournalsKept ==
    ASSUME IndInv, UNCHANGED <<att, wstat, run, act, procs>>
    PROVE  \A a \in Attempts : JournalOK(a)'
  BY DEF IndInv, JournalOK, Exists, Alive, Up, WorkerOf

\* A step that only rewrites Task rows, Jobs, deadlines, commands and the tick's copy.
LEMMA TasksStep ==
    ASSUME IndInv, task' \in [Tasks -> TaskRows],
           job' \in [Tasks -> StopReasons \cup {"open", "SUCCEEDED"}],
           due' \in [Tasks -> {"no", "task", "job"}],
           cmd' \in [Attempts -> [Kinds -> CommandStates]],
           snap' \in [Workers -> 0 .. MaxEpoch],
           UNCHANGED <<att, art, regEpoch, session, streamVars, workerVars>>,
           \A t \in Tasks : TaskOK(t, task'[t]),
           \A a \in Attempts : AttemptOK(Gen(a), Exists(a), Open(a), task'[TaskOf(a)])
    PROVE  IndInv'
<1>1. TypeOK'
  BY DEF IndInv, TypeOK, ServerTypeOK, StreamTypeOK, WorkerTypeOK, streamVars, workerVars
<1>2. Ledger'
  BY DEF Ledger, Exists, Open
<1>3. WireOK' /\ EpochOK'
  BY DEF IndInv, WireOK, EpochOK, Exists, streamVars, workerVars
<1>4. \A a \in Attempts : JournalOK(a)'
  BY JournalsKept DEF workerVars
<1> QED BY <1>1, <1>2, <1>3, <1>4 DEF IndInv

\* The same for one Task.
LEMMA TaskStep ==
    ASSUME IndInv, NEW t \in Tasks, NEW r \in TaskRows, task' = [task EXCEPT ![t] = r],
           job' \in [Tasks -> StopReasons \cup {"open", "SUCCEEDED"}],
           due' \in [Tasks -> {"no", "task", "job"}],
           cmd' \in [Attempts -> [Kinds -> CommandStates]],
           snap' \in [Workers -> 0 .. MaxEpoch],
           UNCHANGED <<att, art, regEpoch, session, streamVars, workerVars>>,
           TaskOK(t, r),
           \A a \in Attempts : TaskOf(a) = t => AttemptOK(Gen(a), Exists(a), Open(a), r)
    PROVE  IndInv'
<1>1. task' \in [Tasks -> TaskRows] /\ task'[t] = r /\ \A u \in Tasks \ {t} : task'[u] = task[u]
  BY Typed
<1>2. \A u \in Tasks : TaskOK(u, task'[u])
  BY <1>1 DEF IndInv, Ledger
<1>3. ASSUME NEW a \in Attempts PROVE AttemptOK(Gen(a), Exists(a), Open(a), task'[TaskOf(a)])
  <2>1. TaskOf(a) \in Tasks
    BY AttemptParts
  <2>2. CASE TaskOf(a) = t
    BY <1>1, <2>2
  <2>3. CASE TaskOf(a) # t
    BY <1>1, <2>1, <2>3 DEF IndInv, Ledger
  <2> QED BY <2>2, <2>3
<1> QED BY <1>1, <1>2, <1>3, TasksStep

\* What setState() does to a row that is in order.
LEMMA SetStateOK ==
    ASSUME NEW t \in Tasks, NEW r \in TaskRows, TaskOK(t, r),
           NEW s \in Executing \cup Stopping \cup Terminal, NEW c \in TaskCodes
    PROVE  /\ SetState(r, s, c) \in TaskRows /\ TaskOK(t, SetState(r, s, c))
           /\ SetState(r, s, c).att = r.att /\ SetState(r, s, c).gen = r.gen
           /\ \A g \in Gens, there, open \in BOOLEAN :
                AttemptOK(g, there, open, r) /\ (open => s \in Executing \cup Stopping)
                  => AttemptOK(g, there, open, SetState(r, s, c))
<1>1. s \in TaskStates /\ s \notin {"NONE", "QUEUED"}
  BY DEF TaskStates, Executing, Stopping, Terminal
<1>2. SetState(r, s, c) \in TaskRows
  BY <1>1 DEF SetState, TaskRows
<1>3. SetState(r, s, c).att = r.att /\ SetState(r, s, c).gen = r.gen
  BY DEF SetState, TaskRows
<1>4. TaskOK(t, SetState(r, s, c))
  BY <1>1 DEF SetState, TaskRows, TaskOK
<1>5. ASSUME NEW g \in Gens, NEW there \in BOOLEAN, NEW open \in BOOLEAN,
             AttemptOK(g, there, open, r), open => s \in Executing \cup Stopping
      PROVE  AttemptOK(g, there, open, SetState(r, s, c))
  BY <1>5 DEF SetState, TaskRows, AttemptOK
<1> QED BY <1>2, <1>3, <1>4, <1>5

\* A Task without a current Attempt, or not being executed, has none that is open.
LEMMA NothingOpen ==
    ASSUME IndInv, NEW t \in Tasks, ~HasAttempt(t) \/ task[t].state \notin Executing \cup Stopping
    PROVE  \A a \in Attempts : TaskOf(a) = t => ~Open(a)
<1> SUFFICES ASSUME NEW a \in Attempts, TaskOf(a) = t, Open(a) PROVE FALSE
  OBVIOUS
<1>1. AttemptOK(Gen(a), Exists(a), Open(a), task[t])
  BY DEF IndInv, Ledger
<1> QED BY <1>1, AttemptParts DEF AttemptOK, HasAttempt

\* stopCommand() keeps the type of the command row.
LEMMA StopCommandTyped ==
    ASSUME NEW c \in [Kinds -> CommandStates]
    PROVE  StopCommand(c) \in [Kinds -> CommandStates]
  BY DEF StopCommand, Kinds, CommandStates

\* setState() on one Task, with or without the stop command.
LEMMA SetStateStep ==
    ASSUME IndInv, NEW t \in Tasks,
           NEW s \in Executing \cup Stopping \cup Terminal, NEW c \in TaskCodes,
           task' = [task EXCEPT ![t] = SetState(@, s, c)],
           s \in Executing \cup Stopping \/ ~HasAttempt(t)
             \/ task[t].state \notin Executing \cup Stopping,
           job' \in [Tasks -> StopReasons \cup {"open", "SUCCEEDED"}],
           due' \in [Tasks -> {"no", "task", "job"}],
           cmd' \in [Attempts -> [Kinds -> CommandStates]],
           UNCHANGED <<att, art, regEpoch, session, snap, streamVars, workerVars>>
    PROVE  IndInv'
<1>1. task[t] \in TaskRows /\ TaskOK(t, task[t]) /\ snap \in [Workers -> 0 .. MaxEpoch]
  BY Typed DEF IndInv, Ledger
<1> DEFINE r == SetState(task[t], s, c)
<1>2. r \in TaskRows /\ TaskOK(t, r)
  BY <1>1, SetStateOK
<1>3. ASSUME NEW a \in Attempts, TaskOf(a) = t
      PROVE  AttemptOK(Gen(a), Exists(a), Open(a), r)
  <2>1. Gen(a) \in Gens /\ Exists(a) \in BOOLEAN /\ Open(a) \in BOOLEAN
    BY AttemptParts DEF Exists, Open
  <2>2. AttemptOK(Gen(a), Exists(a), Open(a), task[t])
    BY <1>3 DEF IndInv, Ledger
  <2>3. Open(a) => s \in Executing \cup Stopping
    BY <1>3, NothingOpen
  <2> QED BY <1>1, <2>1, <2>2, <2>3, SetStateOK
<1>4. task' = [task EXCEPT ![t] = r]
  OBVIOUS
<1> HIDE DEF r
<1> QED BY <1>1, <1>2, <1>3, <1>4, TaskStep

\* SubmitTask keeps the invariant.
LEMMA SubmitTaskOK == ASSUME IndInv, NEW t \in Tasks, SubmitTask(t) PROVE IndInv'
<1> DEFINE r == [task[t] EXCEPT !.state = "QUEUED"]
<1>1. task[t] \in TaskRows /\ TaskOK(t, task[t]) /\ task[t].state = "NONE"
  BY Typed DEF IndInv, Ledger, SubmitTask
<1>2. r \in TaskRows /\ TaskOK(t, r)
  BY <1>1, Bounds DEF TaskRows, TaskOK, TaskStates
<1>3. task[t].state \notin Executing \cup Stopping
  BY <1>1 DEF Executing, Stopping
<1>4. ASSUME NEW a \in Attempts, TaskOf(a) = t
      PROVE  AttemptOK(Gen(a), Exists(a), Open(a), r)
  <2>1. ~Open(a)
    BY <1>3, <1>4, NothingOpen
  <2>2. AttemptOK(Gen(a), Exists(a), Open(a), task[t])
    BY <1>4 DEF IndInv, Ledger
  <2> QED BY <1>1, <2>1, <2>2 DEF AttemptOK, TaskRows
<1>5. task' = [task EXCEPT ![t] = r]
  BY DEF SubmitTask
<1> HIDE DEF r
<1> QED BY <1>2, <1>4, <1>5, Typed, TaskStep DEF SubmitTask

\* The stop command of the current Attempt, if there is one.
LEMMA StopCommandStep ==
    ASSUME IndInv, NEW t \in Tasks,
           cmd' = IF HasAttempt(t) THEN [cmd EXCEPT ![CurrentOf(t)] = StopCommand(@)] ELSE cmd
    PROVE  cmd' \in [Attempts -> [Kinds -> CommandStates]]
<1>1. HasAttempt(t) => CurrentOf(t) \in Attempts
  <2>1. task[t].att \in 0 .. MaxAttempts
    BY Typed DEF TaskRows
  <2> QED BY <2>1, Bounds DEF HasAttempt, CurrentOf, Attempts, Gens
<1> QED BY <1>1, Typed, StopCommandTyped

\* CancelTask keeps the invariant.
LEMMA CancelTaskOK == ASSUME IndInv, NEW t \in Tasks, CancelTask(t) PROVE IndInv'
<1> DEFINE s == IF HasAttempt(t) THEN "CANCELING" ELSE "CANCELED"
<1>1. s \in Executing \cup Stopping \cup Terminal /\ (s \in Executing \cup Stopping \/ ~HasAttempt(t))
  BY DEF Executing, Stopping, Terminal
<1>2. "OK" \in TaskCodes
  BY DEF TaskCodes
<1>3. cmd' \in [Attempts -> [Kinds -> CommandStates]]
  BY StopCommandStep DEF CancelTask
<1>4. task' = [task EXCEPT ![t] = SetState(@, s, "OK")]
  BY DEF CancelTask
<1> HIDE DEF s
<1> QED BY <1>1, <1>2, <1>3, <1>4, Typed, SetStateStep DEF CancelTask

\* Steps that leave every Task row alone.
LEMMA NoTaskStep ==
    ASSUME IndInv, task' = task,
           job' \in [Tasks -> StopReasons \cup {"open", "SUCCEEDED"}],
           due' \in [Tasks -> {"no", "task", "job"}],
           cmd' \in [Attempts -> [Kinds -> CommandStates]],
           snap' \in [Workers -> 0 .. MaxEpoch],
           UNCHANGED <<att, art, regEpoch, session, streamVars, workerVars>>
    PROVE  IndInv'
<1>1. \A t \in Tasks : TaskOK(t, task'[t])
  BY DEF IndInv, Ledger
<1>2. \A a \in Attempts : AttemptOK(Gen(a), Exists(a), Open(a), task'[TaskOf(a)])
  BY DEF IndInv, Ledger
<1> QED BY <1>1, <1>2, Typed, TasksStep

\* CancelJob keeps the invariant.
LEMMA CancelJobOK == ASSUME IndInv, NEW t \in Tasks, CancelJob(t) PROVE IndInv'
<1>1. job' \in [Tasks -> StopReasons \cup {"open", "SUCCEEDED"}]
  BY Typed DEF CancelJob, StopReasons
<1> QED BY <1>1, Typed, NoTaskStep DEF CancelJob

\* ExtendJobDeadline keeps the invariant.
LEMMA ExtendJobDeadlineOK == ASSUME IndInv, NEW t \in Tasks, ExtendJobDeadline(t) PROVE IndInv'
<1>1. PICK d \in {"no", "task"} : due' = [due EXCEPT ![t] = d]
  BY DEF ExtendJobDeadline
<1>2. due' \in [Tasks -> {"no", "task", "job"}]
  BY <1>1, Typed
<1> QED BY <1>2, Typed, NoTaskStep DEF ExtendJobDeadline

\* DeadlinePasses keeps the invariant.
LEMMA DeadlinePassesOK == ASSUME IndInv, NEW t \in Tasks, DeadlinePasses(t) PROVE IndInv'
<1>1. due' \in [Tasks -> {"no", "task", "job"}]
  BY Typed DEF DeadlinePasses
<1> QED BY <1>1, Typed, NoTaskStep DEF DeadlinePasses

\* TickSnapshot keeps the invariant.
LEMMA TickSnapshotOK == ASSUME IndInv, TickSnapshot PROVE IndInv'
  BY Typed, NoTaskStep DEF TickSnapshot

\* AssignExpired keeps the invariant.
LEMMA AssignExpiredOK == ASSUME IndInv, NEW t \in Tasks, AssignExpired(t) PROVE IndInv'
<1>1. task[t].state \notin Executing \cup Stopping
  BY DEF AssignExpired, Assignable, Executing, Stopping
<1>2. "FAILED" \in Executing \cup Stopping \cup Terminal /\ "DEADLINE_EXCEEDED" \in TaskCodes
  BY DEF Terminal, TaskCodes
<1> QED BY <1>1, <1>2, Typed, SetStateStep DEF AssignExpired

\* scheduleRetry() and the manual retry keep the Task row in order, within the budget.
LEMMA RequeueOK ==
    ASSUME IndInv, NEW t \in ReplaySafe, t \in Tasks, task[t].gen < MaxAttempts
    PROVE  /\ Requeue(task[t]) \in TaskRows /\ TaskOK(t, Requeue(task[t]))
           /\ \A g \in Gens, there \in BOOLEAN :
                AttemptOK(g, there, FALSE, task[t]) => AttemptOK(g, there, FALSE, Requeue(task[t]))
<1>1. task[t] \in TaskRows /\ TaskOK(t, task[t])
  BY Typed DEF IndInv, Ledger
<1>2. Requeue(task[t]) \in TaskRows
  <2>1. 0 \in 0 .. MaxAttempts
    BY Bounds
  <2>2. "QUEUED" \in TaskStates /\ "OK" \in TaskCodes
    BY DEF TaskStates, TaskCodes
  <2> QED BY <1>1, <2>1, <2>2 DEF TaskRows, Requeue
<1>3. TaskOK(t, Requeue(task[t]))
  BY <1>1 DEF TaskRows, TaskOK, Requeue
<1>4. ASSUME NEW g \in Gens, NEW there \in BOOLEAN, AttemptOK(g, there, FALSE, task[t])
      PROVE  AttemptOK(g, there, FALSE, Requeue(task[t]))
  BY <1>1, <1>4 DEF AttemptOK, Requeue, TaskRows
<1> QED BY <1>2, <1>3, <1>4

\* ManualRetry keeps the invariant.
LEMMA ManualRetryOK == ASSUME IndInv, NEW t \in Tasks, ManualRetry(t) PROVE IndInv'
<1> DEFINE r == Requeue(task[t])
<1>1. task[t].state = "FAILED" /\ t \in ReplaySafe /\ task[t].gen < MaxAttempts
  BY DEF ManualRetry
<1>2. r \in TaskRows /\ TaskOK(t, r)
  BY <1>1, RequeueOK
<1>3. task[t].state \notin Executing \cup Stopping
  BY <1>1 DEF Executing, Stopping
<1>4. ASSUME NEW a \in Attempts, TaskOf(a) = t
      PROVE  AttemptOK(Gen(a), Exists(a), Open(a), r)
  <2>1. Open(a) = FALSE /\ Gen(a) \in Gens /\ Exists(a) \in BOOLEAN
    BY <1>3, <1>4, NothingOpen, AttemptParts DEF Open, Exists
  <2>2. AttemptOK(Gen(a), Exists(a), FALSE, task[t])
    BY <1>4, <2>1 DEF IndInv, Ledger, AttemptOK
  <2> QED BY <1>1, <2>1, <2>2, RequeueOK
<1>5. task' = [task EXCEPT ![t] = r]
  BY DEF ManualRetry, Requeue
<1>6. job' \in [Tasks -> StopReasons \cup {"open", "SUCCEEDED"}]
  BY Typed DEF ManualRetry
<1> HIDE DEF r
<1> QED BY <1>2, <1>4, <1>5, <1>6, Typed, TaskStep DEF ManualRetry

\* AdvanceJob keeps the invariant.
LEMMA AdvanceJobOK == ASSUME IndInv, NEW t \in Tasks, AdvanceJob(t) PROVE IndInv'
<1> DEFINE reason == StopReason(t)
           open   == task[t].state \notin Terminal
<1>1. reason \in StopReasons \cup {"open", "SUCCEEDED"}
  BY Typed DEF StopReason, StopReasons
<1>2. job' \in [Tasks -> StopReasons \cup {"open", "SUCCEEDED"}]
  BY <1>1, Typed DEF AdvanceJob
<1>3. UNCHANGED <<due, att, art, regEpoch, session, snap, streamVars, workerVars>>
  BY DEF AdvanceJob
<1>4. CASE reason = "open" \/ ~open
  BY <1>2, <1>3, <1>4, Typed, NoTaskStep DEF AdvanceJob
<1>5. CASE reason # "open" /\ open
  <2>1. cmd' \in [Attempts -> [Kinds -> CommandStates]]
    BY <1>5, StopCommandStep DEF AdvanceJob
  <2>2. CASE ~HasAttempt(t)
    <3>1. task' = [task EXCEPT ![t] = SetState(@, "CANCELED", "OK")]
      BY <1>5, <2>2 DEF AdvanceJob
    <3>2. "CANCELED" \in Executing \cup Stopping \cup Terminal /\ "OK" \in TaskCodes
      BY DEF Terminal, TaskCodes
    <3> QED BY <1>2, <1>3, <2>1, <2>2, <3>1, <3>2, Typed, SetStateStep
  <2>3. CASE HasAttempt(t) /\ task[t].state = "RECONCILING"
    <3>1. task' = [task EXCEPT ![t] = task[t]]
      BY <1>5, <2>3 DEF AdvanceJob
    <3>2. task' = task
      BY <3>1, Typed
    <3> QED BY <1>2, <1>3, <2>1, <3>2, Typed, NoTaskStep
  <2>4. CASE HasAttempt(t) /\ task[t].state # "RECONCILING"
    <3> DEFINE c == IF reason = "DEADLINE_EXCEEDED" THEN reason ELSE "ERROR"
    <3>1. task' = [task EXCEPT ![t] = SetState(@, "CANCELING", c)]
      BY <1>5, <2>4 DEF AdvanceJob
    <3>2. "CANCELING" \in Executing \cup Stopping /\ c \in TaskCodes
      BY DEF Stopping, TaskCodes
    <3> HIDE DEF c
    <3> QED BY <1>2, <1>3, <2>1, <3>1, <3>2, Typed, SetStateStep
  <2> QED BY <2>2, <2>3, <2>4
<1> QED BY <1>4, <1>5

\* Reconcile keeps the invariant.
LEMMA ReconcileOK == ASSUME IndInv, Reconcile PROVE IndInv'
<1> DEFINE s(t) == IF Overdue(t) THEN "CANCELING" ELSE "RECONCILING"
           c(t) == IF Overdue(t) THEN "DEADLINE_EXCEEDED" ELSE "ERROR"
<1>1. ASSUME NEW t \in Tasks
      PROVE  task'[t] = task[t] \/ task'[t] = SetState(task[t], s(t), c(t))
  BY <1>1 DEF Reconcile
<1>2. ASSUME NEW t \in Tasks
      PROVE  s(t) \in Executing \cup Stopping /\ c(t) \in TaskCodes
  BY DEF Stopping, TaskCodes
<1>3. \A t \in Tasks : task[t] \in TaskRows /\ TaskOK(t, task[t])
  BY Typed DEF IndInv, Ledger
<1> HIDE DEF s, c
<1>4. \A t \in Tasks : task'[t] \in TaskRows /\ TaskOK(t, task'[t])
  BY <1>1, <1>2, <1>3, SetStateOK
<1>5. task' \in [Tasks -> TaskRows]
  <2>1. \E f : task' = [t \in Tasks |-> f[t]]
    <3>1. task' = [t \in Tasks |-> task'[t]]
      BY DEF Reconcile
    <3> QED BY <3>1
  <2> QED BY <1>4, <2>1
<1>6. cmd' \in [Attempts -> [Kinds -> CommandStates]]
  BY Typed, StopCommandTyped DEF Reconcile
<1>7. ASSUME NEW a \in Attempts PROVE AttemptOK(Gen(a), Exists(a), Open(a), task'[TaskOf(a)])
  <2>1. /\ Gen(a) \in Gens /\ TaskOf(a) \in Tasks
        /\ Exists(a) \in BOOLEAN /\ Open(a) \in BOOLEAN
    BY AttemptParts DEF Exists, Open
  <2>2. AttemptOK(Gen(a), Exists(a), Open(a), task[TaskOf(a)])
    BY DEF IndInv, Ledger
  <2> QED BY <1>1, <1>2, <1>3, <2>1, <2>2, SetStateOK
<1> QED BY <1>4, <1>5, <1>6, <1>7, Typed, TasksStep DEF Reconcile

-----------------------------------------------------------------------------
(* Dispatch: the one step that creates an Attempt.                         *)

\* Assign keeps the invariant.
LEMMA AssignOK == ASSUME IndInv, NEW t \in Tasks, NEW w \in Workers, Assign(t, w) PROVE IndInv'
<1> DEFINE g == task[t].gen + 1
           a == <<t, g>>
           row == [NoAttempt EXCEPT !.worker = w, !.epoch = snap[w], !.lease = "valid"]
           r == [state |-> "STARTING", code |-> "OK", att |-> g, gen |-> g]
<1>1. task[t] \in TaskRows /\ TaskOK(t, task[t]) /\ task[t].state = "QUEUED"
  BY Typed DEF IndInv, Ledger, Assign, Assignable
<1>2. g \in Gens /\ g \in 0 .. MaxAttempts /\ a \in Attempts /\ task[t].gen \in Nat
  <2>1. task[t].gen \in 0 .. MaxAttempts /\ task[t].gen < MaxAttempts
    BY <1>1 DEF TaskRows, TaskOK
  <2> QED BY <2>1, Bounds DEF Gens, Attempts
<1>3. row \in AttemptRows /\ row.worker = w /\ ~row.released
  BY Typed, RowTypes DEF NoAttempt, AttemptRows
<1>4. r \in TaskRows /\ TaskOK(t, r)
  <2>1. r \in TaskRows
    BY <1>2 DEF TaskRows, TaskStates, TaskCodes, Executing
  <2>2. t \notin ReplaySafe => task[t].gen = 0
    BY <1>1 DEF TaskOK
  <2> QED BY <1>2, <2>1, <2>2 DEF TaskOK
<1>5. TaskOf(a) = t /\ Gen(a) = g
  BY DEF TaskOf, Gen
<1>6. ~Exists(a)
  <2>1. AttemptOK(Gen(a), Exists(a), Open(a), task[t])
    BY <1>2, <1>5 DEF IndInv, Ledger
  <2> QED BY <1>2, <1>5, <2>1 DEF AttemptOK
<1>7. \A b \in Attempts : TaskOf(b) = t => ~Open(b)
  BY <1>1, NothingOpen DEF Executing, Stopping
<1>8. /\ att' = [att EXCEPT ![a] = row] /\ task' = [task EXCEPT ![t] = r]
      /\ cmd' = [cmd EXCEPT ![a]["start"] = "pending"]
      /\ snap' = snap \/ snap' = [v \in Workers |-> 0]
      /\ UNCHANGED <<job, due, art, regEpoch, session, streamVars, workerVars>>
  BY DEF Assign
<1> HIDE DEF row, r, a, g
<1>9. TypeOK'
  <2>1. att' \in [Attempts -> AttemptRows] /\ task' \in [Tasks -> TaskRows]
    BY <1>2, <1>3, <1>4, <1>8, Typed
  <2>2. cmd' \in [Attempts -> [Kinds -> CommandStates]]
    BY <1>2, <1>8, Typed DEF CommandStates, Kinds
  <2>3. snap' \in [Workers -> 0 .. MaxEpoch]
    <3>1. 0 \in 0 .. MaxEpoch
      BY Bounds
    <3> QED BY <3>1, <1>8, Typed
  <2> QED BY <1>8, <2>1, <2>2, <2>3, Typed
       DEF TypeOK, ServerTypeOK, StreamTypeOK, WorkerTypeOK, streamVars, workerVars
<1>10. /\ att'[a] = row /\ \A b \in Attempts \ {a} : att'[b] = att[b]
       /\ task'[t] = r /\ \A u \in Tasks \ {t} : task'[u] = task[u]
  BY <1>2, <1>8, Typed
<1>11. Ledger'
  <2>1. \A u \in Tasks : TaskOK(u, task'[u])
    BY <1>4, <1>10 DEF IndInv, Ledger
  <2>2. ASSUME NEW b \in Attempts PROVE AttemptOK(Gen(b), Exists(b)', Open(b)', task'[TaskOf(b)])
    <3>1. r.att = g /\ r.gen = g /\ r.state \in Executing \cup Stopping
      BY DEF r, Executing
    <3>2. CASE b = a
      BY <1>2, <1>5, <1>10, <3>1, <3>2 DEF AttemptOK, Gens
    <3>3. CASE b # a /\ TaskOf(b) = t
      <4>1. Exists(b)' = Exists(b) /\ Open(b)' = FALSE
        BY <1>7, <1>10, <3>3 DEF Exists, Open
      <4>2. AttemptOK(Gen(b), Exists(b), Open(b), task[t])
        BY <3>3 DEF IndInv, Ledger
      <4>3. Gen(b) \in 1 .. MaxAttempts /\ g = task[t].gen + 1
        BY AttemptParts DEF g
      <4> QED BY <1>2, <1>10, <3>1, <3>3, <4>1, <4>2, <4>3, Bounds DEF AttemptOK
    <3>4. CASE b # a /\ TaskOf(b) # t
      <4>1. Exists(b)' = Exists(b) /\ Open(b)' = Open(b) /\ task'[TaskOf(b)] = task[TaskOf(b)]
        BY <1>10, <3>4, AttemptParts DEF Exists, Open
      <4> QED BY <4>1 DEF IndInv, Ledger
    <3> QED BY <3>2, <3>3, <3>4
  <2> QED BY <2>1, <2>2 DEF Ledger
<1>12. WireOK' /\ EpochOK'
  <2>1. ASSUME NEW m \in wire PROVE Exists(m[2])'
    <3>1. m[2] \in Attempts /\ Exists(m[2])
      BY Typed DEF IndInv, WireOK
    <3>2. m[2] # a
      BY <1>6, <3>1
    <3> QED BY <1>10, <3>1, <3>2 DEF Exists
  <2> QED BY <1>8, <2>1 DEF IndInv, WireOK, EpochOK, streamVars, workerVars
<1>13. ASSUME NEW b \in Attempts PROVE JournalOK(b)'
  <2>1. JournalOK(b) /\ run' = run /\ act' = act /\ procs' = procs /\ wstat' = wstat
    BY <1>8 DEF IndInv, workerVars
  <2>2. CASE b = a
    <3>1. ~att'[b].released
      BY <1>3, <1>10, <2>2
    <3>2. RowOK(FALSE, Up(b), att[b].released, run[b], act[b], Alive(b))
      BY <1>6, <2>1, <2>2 DEF JournalOK, RowOK
    <3>3. RowOK(Exists(b)', Up(b)', att'[b].released, run[b], act[b], Alive(b))
      BY <3>1, <3>2 DEF RowOK, Idle, Claimed
    <3> QED BY <2>1, <3>3 DEF JournalOK, Alive
  <2>3. CASE b # a
    <3>1. att'[b] = att[b]
      BY <1>10, <2>3
    <3> QED BY <2>1, <3>1 DEF JournalOK, Exists, Up, WorkerOf, Alive
  <2> QED BY <2>2, <2>3
<1> QED BY <1>9, <1>11, <1>12, <1>13 DEF IndInv

-----------------------------------------------------------------------------
(* The Worker session and its frames.                                      *)

\* Steps that change only sessions, frames and commands.
LEMMA StreamStep ==
    ASSUME IndInv, UNCHANGED <<task, job, due, att, art, workerVars>>,
           cmd' \in [Attempts -> [Kinds -> CommandStates]],
           regEpoch' \in [Workers -> 0 .. MaxEpoch], session' \in [Workers -> 0 .. MaxEpoch],
           snap' \in [Workers -> 0 .. MaxEpoch],
           wire' \in SUBSET (Kinds \X Attempts), \A m \in wire' : Exists(m[2]),
           grants' \in [Attempts -> SUBSET BOOLEAN]
    PROVE  IndInv'
<1>1. TypeOK'
  BY Typed DEF TypeOK, ServerTypeOK, StreamTypeOK, WorkerTypeOK, workerVars
<1>2. Ledger' /\ WireOK' /\ EpochOK'
  BY DEF IndInv, Ledger, WireOK, EpochOK, Exists, Open, workerVars
<1>3. \A a \in Attempts : JournalOK(a)'
  BY JournalsKept DEF workerVars
<1> QED BY <1>1, <1>2, <1>3 DEF IndInv

\* What is left of the frames when a stream breaks.
LEMMA OffTyped ==
    ASSUME IndInv, NEW w \in Workers
    PROVE  /\ OffWire(w) \in SUBSET (Kinds \X Attempts) /\ \A m \in OffWire(w) : Exists(m[2])
           /\ OffGrants(w) \in [Attempts -> SUBSET BOOLEAN]
  BY Typed DEF OffWire, OffGrants, IndInv, WireOK

\* Connect keeps the invariant.
LEMMA ConnectOK == ASSUME IndInv, NEW w \in Workers, Connect(w) PROVE IndInv'
<1>1. regEpoch' \in [Workers -> 0 .. MaxEpoch] /\ session' \in [Workers -> 0 .. MaxEpoch]
  BY Typed DEF Connect
<1> QED BY <1>1, Typed, OffTyped, StreamStep DEF Connect

\* Disconnect keeps the invariant.
LEMMA DisconnectOK == ASSUME IndInv, NEW w \in Workers, Disconnect(w) PROVE IndInv'
<1>1. session' \in [Workers -> 0 .. MaxEpoch]
  BY Typed, Bounds DEF Disconnect
<1> QED BY <1>1, Typed, OffTyped, StreamStep DEF Disconnect

\* ServerRestart keeps the invariant.
LEMMA ServerRestartOK == ASSUME IndInv, ServerRestart PROVE IndInv'
<1>1. session' \in [Workers -> 0 .. MaxEpoch] /\ snap' \in [Workers -> 0 .. MaxEpoch]
  <2>1. 0 \in 0 .. MaxEpoch
    BY Bounds
  <2> QED BY <2>1 DEF ServerRestart
<1>2. wire' = {} /\ grants' \in [Attempts -> SUBSET BOOLEAN]
  BY DEF ServerRestart
<1> QED BY <1>1, <1>2, Typed, StreamStep DEF ServerRestart

\* SendCommand keeps the invariant.
LEMMA SendCommandOK ==
    ASSUME IndInv, NEW k \in Kinds, NEW a \in Attempts, SendCommand(k, a) PROVE IndInv'
<1>1. cmd' \in [Attempts -> [Kinds -> CommandStates]]
  <2>1. CASE cmd' = cmd
    BY <2>1, Typed
  <2>2. CASE cmd' = [cmd EXCEPT ![a][k] = "acked"]
    BY <2>2, Typed DEF CommandStates
  <2> QED BY <2>1, <2>2 DEF SendCommand
<1>2. wire' = wire \/ wire' = wire \cup {<<k, a>>}
  BY DEF SendCommand
<1>3. wire' \in SUBSET (Kinds \X Attempts)
  BY <1>2, Typed
<1>4. Exists(a)
  BY DEF SendCommand
<1>5. \A m \in wire' : Exists(m[2])
  BY <1>2, <1>4 DEF IndInv, WireOK
<1> QED BY <1>1, <1>3, <1>5, Typed, StreamStep DEF SendCommand

\* Renew keeps the invariant.
LEMMA RenewOK == ASSUME IndInv, NEW a \in Attempts, Renew(a) PROVE IndInv'
<1>1. GrantValid(a) \in BOOLEAN
  BY DEF GrantValid
<1>2. grants' \in [Attempts -> SUBSET BOOLEAN]
  BY <1>1, Typed DEF Renew
<1>3. UNCHANGED <<task, job, due, att, cmd, art, regEpoch, session, snap, wire, workerVars>>
  BY DEF Renew, serverVars
<1>4. \A m \in wire' : Exists(m[2])
  BY <1>3 DEF IndInv, WireOK
<1> QED BY <1>2, <1>3, <1>4, Typed, StreamStep

\* A frame that concerns one Attempt and changes its row or its goroutine.
LEMMA FrameStep ==
    ASSUME IndInv, NEW a \in Attempts, NEW r \in RunRows, NEW g \in Goroutines,
           run' = [run EXCEPT ![a] = r], act' = [act EXCEPT ![a] = g],
           RowOK(Exists(a), Up(a), att[a].released, r, g, Alive(a)),
           UNCHANGED <<task, job, due, att, art, regEpoch, snap, wstat, epoch, procs>>,
           cmd' \in [Attempts -> [Kinds -> CommandStates]], session' \in [Workers -> 0 .. MaxEpoch],
           wire' \in SUBSET (Kinds \X Attempts), \A m \in wire' : Exists(m[2]),
           grants' \in [Attempts -> SUBSET BOOLEAN]
    PROVE  IndInv'
<1>1. run' \in [Attempts -> RunRows] /\ act' \in [Attempts -> Goroutines]
  BY Typed
<1>2. TypeOK'
  BY <1>1, Typed DEF TypeOK, ServerTypeOK, StreamTypeOK, WorkerTypeOK
<1>3. Ledger' /\ WireOK' /\ EpochOK'
  BY DEF IndInv, Ledger, WireOK, EpochOK, Exists, Open
<1>4. ASSUME NEW b \in Attempts PROVE JournalOK(b)'
  <2>1. CASE b = a
    <3>1. run'[b] = r /\ act'[b] = g
      BY <2>1, Typed
    <3> QED BY <2>1, <3>1 DEF JournalOK, Exists, Up, WorkerOf, Alive
  <2>2. CASE b # a
    <3>1. run'[b] = run[b] /\ act'[b] = act[b]
      BY <2>2, Typed
    <3>2. JournalOK(b)
      BY DEF IndInv
    <3> QED BY <3>1, <3>2 DEF JournalOK, Exists, Up, WorkerOf, Alive
  <2> QED BY <2>1, <2>2
<1> QED BY <1>2, <1>3, <1>4 DEF IndInv

\* ReceiveGrant: a lease answer keeps the invariant.
LEMMA ReceiveGrantOK ==
    ASSUME IndInv, NEW a \in Attempts, NEW ok \in BOOLEAN, ReceiveGrant(a, ok) PROVE IndInv'
<1>1. PICK r0 \in RunRows, g0 \in Goroutines, P0 \in SUBSET Processes :
        /\ run[a] = r0 /\ run = [run EXCEPT ![a] = r0]
        /\ act[a] = g0 /\ act = [act EXCEPT ![a] = g0]
        /\ procs[a] = P0 /\ procs = [procs EXCEPT ![a] = P0]
        /\ RowOK(Exists(a), Up(a), att[a].released, r0, g0, "leader" \in P0)
  BY Row
<1> DEFINE g == IF g0.phase = "off" THEN g0
                ELSE IF ~ok THEN [g0 EXCEPT !.cancel = "yes"]
                ELSE IF g0.phase = "waiting" THEN [g0 EXCEPT !.phase = "ready"] ELSE g0
<1>2. act' = [act EXCEPT ![a] = g]
  BY <1>1 DEF ReceiveGrant, TakeGrant, Goroutine, At
<1>3. g \in Goroutines
  BY <1>1 DEF Goroutines, Phases
<1>4. RowOK(Exists(a), Up(a), att[a].released, r0, g, Alive(a))
  BY <1>1 DEF RunRows, Goroutines, RowOK, Idle, Claimed, Alive
<1>5. run' = [run EXCEPT ![a] = r0]
  BY <1>1 DEF ReceiveGrant
<1>6. grants' \in [Attempts -> SUBSET BOOLEAN]
  BY Typed DEF ReceiveGrant
<1>7. UNCHANGED <<task, job, due, att, cmd, art, regEpoch, session, snap, wire, wstat, epoch, procs>>
  BY DEF ReceiveGrant, serverVars
<1>8. \A m \in wire' : Exists(m[2])
  BY <1>7 DEF IndInv, WireOK
<1> HIDE DEF g
<1> QED BY <1>1, <1>2, <1>3, <1>4, <1>5, <1>6, <1>7, <1>8, Typed, FrameStep

\* ReceiveCommand: accept() of a command keeps the invariant.
LEMMA ReceiveCommandOK ==
    ASSUME IndInv, NEW k \in Kinds, NEW a \in Attempts, ReceiveCommand(k, a) PROVE IndInv'
<1>1. PICK r0 \in RunRows, g0 \in Goroutines, P0 \in SUBSET Processes :
        /\ run[a] = r0 /\ run = [run EXCEPT ![a] = r0]
        /\ act[a] = g0 /\ act = [act EXCEPT ![a] = g0]
        /\ procs[a] = P0 /\ procs = [procs EXCEPT ![a] = P0]
        /\ RowOK(Exists(a), Up(a), att[a].released, r0, g0, "leader" \in P0)
  BY Row
<1>2. PICK acked \in BOOLEAN :
        /\ IF k = "start" THEN AcceptStart(a) ELSE AcceptStop(a, acked)
        /\ IF acked
           THEN /\ cmd' = [cmd EXCEPT ![a][k] = "acked"]
                /\ wire' = wire \ {<<k, a>>}
                /\ UNCHANGED <<session, grants>>
           ELSE StreamBreaks(WorkerOf(a)) /\ UNCHANGED cmd
  BY DEF ReceiveCommand
<1>3. /\ <<k, a>> \in wire /\ Up(a)
      /\ UNCHANGED <<task, job, due, att, art, regEpoch, snap, wstat, epoch, procs>>
  BY DEF ReceiveCommand, Connected
<1>4. Exists(a)
  BY <1>3 DEF IndInv, WireOK
<1>5. /\ cmd' \in [Attempts -> [Kinds -> CommandStates]] /\ session' \in [Workers -> 0 .. MaxEpoch]
      /\ wire' \in SUBSET (Kinds \X Attempts) /\ grants' \in [Attempts -> SUBSET BOOLEAN]
      /\ \A m \in wire' : Exists(m[2])
  <2>1. CASE acked
    <3>1. cmd' \in [Attempts -> [Kinds -> CommandStates]]
      <4>1. cmd' = [cmd EXCEPT ![a][k] = "acked"]
        BY <1>2, <2>1
      <4> QED BY <4>1, Typed DEF CommandStates
    <3>2. wire' \subseteq wire /\ session' = session /\ grants' = grants
      BY <1>2, <2>1
    <3> QED BY <3>1, <3>2, Typed DEF IndInv, WireOK
  <2>2. CASE ~acked
    <3>1. WorkerOf(a) \in Workers
      <4>1. att[a].worker \in Workers \cup {None}
        BY Typed DEF AttemptRows
      <4> QED BY <1>4, <4>1 DEF Exists, WorkerOf
    <3>2. /\ session' = [session EXCEPT ![WorkerOf(a)] = 0] /\ cmd' = cmd
          /\ wire' = OffWire(WorkerOf(a)) /\ grants' = OffGrants(WorkerOf(a))
      BY <1>2, <2>2 DEF StreamBreaks
    <3>3. session' \in [Workers -> 0 .. MaxEpoch]
      <4>1. 0 \in 0 .. MaxEpoch
        BY Bounds
      <4> QED BY <3>2, <4>1, Typed
    <3> QED BY <3>1, <3>2, <3>3, Typed, OffTyped
  <2> QED BY <2>1, <2>2
<1>6. CASE k = "start"
  <2>1. PICK full \in BOOLEAN :
          IF run[a] # NoRun THEN UNCHANGED <<run, act>>
          ELSE /\ run' = [run EXCEPT ![a] = IF full THEN Stored(NoRun, Failed("FINAL"))
                                            ELSE [NoRun EXCEPT !.state = "ACCEPTED"]]
               /\ act' = IF full THEN act ELSE [act EXCEPT ![a] = [Off EXCEPT !.phase = "waiting"]]
    <3>1. AcceptStart(a)
      BY <1>2, <1>6
    <3> QED BY <3>1 DEF AcceptStart
  <2>2. CASE run[a] # NoRun
    <3>1. run' = [run EXCEPT ![a] = r0] /\ act' = [act EXCEPT ![a] = g0]
      BY <1>1, <2>1, <2>2
    <3>2. RowOK(Exists(a), Up(a), att[a].released, r0, g0, Alive(a))
      BY <1>1 DEF Alive
    <3> QED BY <1>1, <1>3, <1>5, <3>1, <3>2, FrameStep
  <2>3. CASE run[a] = NoRun
    <3> DEFINE c == Failed("FINAL")
               r == IF full THEN Stored(NoRun, c) ELSE [NoRun EXCEPT !.state = "ACCEPTED"]
               g == IF full THEN g0 ELSE [Off EXCEPT !.phase = "waiting"]
    <3>1. run' = [run EXCEPT ![a] = r] /\ act' = [act EXCEPT ![a] = g]
      BY <1>1, <2>1, <2>3
    <3>2. c \in Completions /\ c # NoCompletion
      BY CompletionFacts
    <3>3. NoRun.comp = NoCompletion /\ NoRun.state = "NONE"
      BY DEF NoRun
    <3> HIDE DEF c
    <3>4. r \in RunRows
      <4>1. [NoRun EXCEPT !.state = "DONE", !.comp = c] \in RunRows
        BY <3>2, RowTypes DEF RunRows
      <4>2. [NoRun EXCEPT !.state = "ACCEPTED"] \in RunRows
        BY RowTypes DEF RunRows
      <4> QED BY <3>3, <4>1, <4>2 DEF Stored
    <3>5. g \in Goroutines
      BY <1>1, RowTypes DEF Goroutines, Phases
    <3>6. g.phase = "waiting" \/ g = g0
      BY RowTypes DEF Goroutines
    <3>7. IF full THEN r.comp = c /\ r.state = "DONE" ELSE r.comp = NoCompletion /\ r.state = "ACCEPTED"
      BY <3>3, RowTypes DEF Stored, RunRows
    <3>8. RowOK(Exists(a), Up(a), att[a].released, NoRun, g0, "leader" \in P0)
      BY <1>1, <2>3
    <3>9. "leader" \notin P0 /\ ~att[a].released /\ g0.phase \notin Claimed
      BY <3>3, <3>8 DEF RowOK
    <3> HIDE DEF r, g
    <3>10. RowOK(Exists(a), Up(a), att[a].released, r, g, Alive(a))
      <4>1. g.phase \notin Claimed
        BY <3>6, <3>9 DEF Claimed
      <4> QED BY <1>1, <1>3, <1>4, <3>2, <3>7, <3>9, <4>1 DEF RowOK, Alive, Claimed
    <3> QED BY <1>1, <1>3, <1>5, <3>1, <3>4, <3>5, <3>10, FrameStep
  <2> QED BY <2>2, <2>3
<1>7. CASE k = "stop"
  <2> DEFINE c == Failed("FINAL")
             s == IF r0.state \in {"NONE", "ACCEPTED"} THEN Stored(r0, c) ELSE r0
             r == [s EXCEPT !.stop = TRUE]
             g == IF acked /\ g0.phase # "off" /\ g0.cancel # "yes"
                  THEN [g0 EXCEPT !.cancel = "pending"] ELSE g0
  <2>1. AcceptStop(a, acked)
    BY <1>2, <1>7
  <2>2. run' = [run EXCEPT ![a] = r]
    BY <1>1, <2>1 DEF AcceptStop
  <2>3. act' = [act EXCEPT ![a] = g]
    BY <1>1, <2>1 DEF AcceptStop, Goroutine, Cancelled
  <2>4. c \in Completions /\ c # NoCompletion
    BY CompletionFacts
  <2> HIDE DEF c
  <2>5. s \in RunRows
    BY <1>1, <2>4 DEF RunRows, Stored
  <2>6. r \in RunRows
    BY <2>5 DEF RunRows
  <2>7. g \in Goroutines /\ g.phase = g0.phase /\ g.res = g0.res /\ g.clean = g0.clean
    BY <1>1 DEF Goroutines
  <2>8. RowOK(Exists(a), Up(a), att[a].released, r, g, Alive(a))
    BY <1>1, <1>4, <2>4, <2>7 DEF RunRows, RowOK, Stored, Alive, Claimed, Idle
  <2> HIDE DEF r, g
  <2> QED BY <1>3, <1>5, <2>2, <2>3, <2>6, <2>7, <2>8, FrameStep
<1> QED BY <1>6, <1>7 DEF Kinds

-----------------------------------------------------------------------------
(* Reports: the Server's rows and the Worker's row change together.        *)

\* A report about Attempt a may rewrite its row, its Task's row and the journal row.
LEMMA ReportStep ==
    ASSUME IndInv, NEW a \in Attempts,
           NEW q \in TaskRows, NEW row \in AttemptRows, NEW r \in RunRows,
           task' = [task EXCEPT ![TaskOf(a)] = q], att' = [att EXCEPT ![a] = row],
           run' = [run EXCEPT ![a] = r], row.worker = att[a].worker,
           cmd' \in [Attempts -> [Kinds -> CommandStates]],
           art' \in [Attempts -> {"none", "STAGED", "ACCEPTED", "ORPHANED"}],
           UNCHANGED <<job, due, regEpoch, session, snap, streamVars, wstat, epoch, act, procs>>,
           TaskOK(TaskOf(a), q),
           \A b \in Attempts : TaskOf(b) = TaskOf(a) =>
               AttemptOK(Gen(b), Exists(b),
                         IF b = a THEN Exists(a) /\ ~row.released ELSE Open(b), q),
           RowOK(Exists(a), Up(a), row.released, r, act[a], Alive(a))
    PROVE  IndInv'
<1>1. /\ TaskOf(a) \in Tasks /\ task'[TaskOf(a)] = q /\ att'[a] = row /\ run'[a] = r
      /\ \A u \in Tasks \ {TaskOf(a)} : task'[u] = task[u]
      /\ \A b \in Attempts \ {a} : att'[b] = att[b] /\ run'[b] = run[b]
  BY Typed, AttemptParts
<1>2. TypeOK'
  <2>1. task' \in [Tasks -> TaskRows] /\ att' \in [Attempts -> AttemptRows] /\ run' \in [Attempts -> RunRows]
    BY Typed
  <2> QED BY <2>1, Typed DEF TypeOK, ServerTypeOK, StreamTypeOK, WorkerTypeOK, streamVars
<1>3. \A b \in Attempts : Exists(b)' = Exists(b) /\ Up(b)' = Up(b)
  BY <1>1 DEF Exists, Up, WorkerOf
<1>4. Ledger'
  <2>1. \A u \in Tasks : TaskOK(u, task'[u])
    BY <1>1 DEF IndInv, Ledger
  <2>2. ASSUME NEW b \in Attempts PROVE AttemptOK(Gen(b), Exists(b)', Open(b)', task'[TaskOf(b)])
    <3>1. TaskOf(b) \in Tasks
      BY AttemptParts
    <3>2. CASE b = a
      <4>1. Open(b)' = (Exists(a) /\ ~row.released)
        BY <1>1, <1>3, <3>2 DEF Open
      <4> QED BY <1>1, <1>3, <3>2, <4>1
    <3>3. CASE b # a
      <4>1. Open(b)' = Open(b)
        BY <1>1, <1>3, <3>3 DEF Open
      <4>2. CASE TaskOf(b) = TaskOf(a)
        BY <1>1, <1>3, <3>3, <4>1, <4>2
      <4>3. CASE TaskOf(b) # TaskOf(a)
        BY <1>1, <1>3, <3>1, <4>1, <4>3 DEF IndInv, Ledger
      <4> QED BY <4>2, <4>3
    <3> QED BY <3>2, <3>3
  <2> QED BY <2>1, <2>2 DEF Ledger
<1>5. WireOK' /\ EpochOK'
  BY <1>3, Typed DEF IndInv, WireOK, EpochOK, streamVars
<1>6. ASSUME NEW b \in Attempts PROVE JournalOK(b)'
  <2>1. CASE b = a
    BY <1>1, <1>3, <2>1 DEF JournalOK, Alive
  <2>2. CASE b # a
    <3>1. JournalOK(b)
      BY DEF IndInv
    <3> QED BY <1>1, <1>3, <2>2, <3>1 DEF JournalOK, Alive
  <2> QED BY <2>1, <2>2
<1> QED BY <1>2, <1>4, <1>5, <1>6 DEF IndInv

\* What is known of the Attempt of a report before it is applied.
LEMMA ReportFacts ==
    ASSUME IndInv, NEW a \in Attempts
    PROVE  /\ task[TaskOf(a)] \in TaskRows /\ TaskOK(TaskOf(a), task[TaskOf(a)])
           /\ TaskOf(a) \in Tasks /\ task = [task EXCEPT ![TaskOf(a)] = task[TaskOf(a)]]
           /\ att[a] \in AttemptRows /\ att = [att EXCEPT ![a] = att[a]]
           /\ run[a] \in RunRows /\ run = [run EXCEPT ![a] = run[a]]
           /\ RowOK(Exists(a), Up(a), att[a].released, run[a], act[a], Alive(a))
           /\ \A b \in Attempts : TaskOf(b) = TaskOf(a) =>
                AttemptOK(Gen(b), Exists(b), Open(b), task[TaskOf(a)])
<1>1. TaskOf(a) \in Tasks
  BY AttemptParts
<1>2. /\ task[TaskOf(a)] \in TaskRows /\ task = [task EXCEPT ![TaskOf(a)] = task[TaskOf(a)]]
      /\ att[a] \in AttemptRows /\ att = [att EXCEPT ![a] = att[a]]
      /\ run[a] \in RunRows /\ run = [run EXCEPT ![a] = run[a]]
  BY <1>1, Typed
<1> QED BY <1>1, <1>2 DEF IndInv, Ledger, JournalOK

\* LeaseExpires keeps the invariant.
LEMMA LeaseExpiresOK == ASSUME IndInv, NEW a \in Attempts, LeaseExpires(a) PROVE IndInv'
<1> DEFINE row == [att[a] EXCEPT !.lease = "expired"]
<1>1. /\ row \in AttemptRows /\ row.worker = att[a].worker /\ row.released = att[a].released
  BY ReportFacts DEF AttemptRows
<1>2. att' = [att EXCEPT ![a] = row]
  BY DEF LeaseExpires
<1>3. \A b \in Attempts : TaskOf(b) = TaskOf(a) =>
        AttemptOK(Gen(b), Exists(b), IF b = a THEN Exists(a) /\ ~row.released ELSE Open(b), task[TaskOf(a)])
  BY <1>1, ReportFacts DEF Open
<1>4. /\ task' = [task EXCEPT ![TaskOf(a)] = task[TaskOf(a)]]
      /\ run' = [run EXCEPT ![a] = run[a]]
      /\ UNCHANGED <<job, due, cmd, art, regEpoch, session, snap, streamVars, wstat, epoch, act, procs>>
  BY ReportFacts DEF LeaseExpires, workerVars
<1> HIDE DEF row
<1> QED BY <1>1, <1>2, <1>3, <1>4, ReportFacts, Typed, ReportStep

\* ReportEvents: ReportEvents, answered or not, keeps the invariant.
LEMMA ReportEventsOK ==
    ASSUME IndInv, NEW a \in Attempts, NEW answered \in BOOLEAN, ReportEvents(a, answered)
    PROVE  IndInv'
<1> DEFINE t == TaskOf(a)
           row == [att[a] EXCEPT !.seq = 1]
           r == IF answered THEN [run[a] EXCEPT !.ack = 1] ELSE run[a]
<1>1. /\ row \in AttemptRows /\ row.worker = att[a].worker /\ row.released = att[a].released
  BY ReportFacts DEF AttemptRows
<1>2. r \in RunRows
  BY ReportFacts DEF RunRows
<1>3. att' = [att EXCEPT ![a] = row] /\ run' = [run EXCEPT ![a] = r]
  BY ReportFacts DEF ReportEvents, ReportStarted
<1>4. RowOK(Exists(a), Up(a), row.released, r, act[a], Alive(a))
  BY <1>1, ReportFacts DEF RowOK, RunRows
<1>5. UNCHANGED <<job, due, cmd, art, regEpoch, session, snap, streamVars, wstat, epoch, act, procs>>
  BY DEF ReportEvents
<1>6. PICK q \in {task[t], SetState(task[t], "RUNNING", "OK")} : task' = [task EXCEPT ![t] = q]
  BY ReportFacts DEF ReportEvents, ReportStarted
<1>7. "RUNNING" \in Executing /\ "OK" \in TaskCodes
  BY DEF Executing, TaskCodes
<1>8. q \in TaskRows /\ TaskOK(t, q)
  BY <1>6, <1>7, ReportFacts, SetStateOK
<1>9. ASSUME NEW b \in Attempts, TaskOf(b) = t
      PROVE  AttemptOK(Gen(b), Exists(b), IF b = a THEN Exists(a) /\ ~row.released ELSE Open(b), q)
  <2>1. Gen(b) \in Gens /\ Exists(b) \in BOOLEAN /\ Open(b) \in BOOLEAN
    BY AttemptParts DEF Exists, Open
  <2>2. AttemptOK(Gen(b), Exists(b), Open(b), task[t])
    BY <1>9, ReportFacts
  <2>3. AttemptOK(Gen(b), Exists(b), Open(b), q)
    BY <1>6, <1>7, <2>1, <2>2, ReportFacts, SetStateOK
  <2> QED BY <1>1, <2>3 DEF Open
<1> HIDE DEF row, r
<1> QED BY <1>1, <1>2, <1>3, <1>4, <1>5, <1>6, <1>8, <1>9, Typed, ReportStep

\* UploadArtifact: UploadArtifact, answered or not, keeps the invariant.
LEMMA UploadArtifactOK ==
    ASSUME IndInv, NEW a \in Attempts, NEW answered \in BOOLEAN, UploadArtifact(a, answered)
    PROVE  IndInv'
<1> DEFINE r == IF answered THEN [run[a] EXCEPT !.uploaded = TRUE] ELSE run[a]
<1>1. r \in RunRows
  BY ReportFacts DEF RunRows
<1>2. RowOK(Exists(a), Up(a), att[a].released, r, act[a], Alive(a))
  BY ReportFacts DEF RowOK, RunRows
<1>3. art' \in [Attempts -> {"none", "STAGED", "ACCEPTED", "ORPHANED"}]
  BY Typed DEF UploadArtifact, RegisterArtifact
<1>4. run' = [run EXCEPT ![a] = r]
  BY ReportFacts DEF UploadArtifact
<1>5. UNCHANGED <<task, att, job, due, cmd, regEpoch, session, snap, streamVars, wstat, epoch, act, procs>>
  BY DEF UploadArtifact
<1>6. \A b \in Attempts : TaskOf(b) = TaskOf(a) =>
        AttemptOK(Gen(b), Exists(b), IF b = a THEN Exists(a) /\ ~att[a].released ELSE Open(b), task[TaskOf(a)])
  BY ReportFacts DEF Open
<1>7. task' = [task EXCEPT ![TaskOf(a)] = task[TaskOf(a)]] /\ att' = [att EXCEPT ![a] = att[a]]
  BY <1>5, ReportFacts
<1> HIDE DEF r
<1> QED BY <1>1, <1>2, <1>3, <1>4, <1>5, <1>6, <1>7, ReportFacts, Typed, ReportStep

\* The journal row after a completion was answered, or was not.
LEMMA ClosedOK ==
    ASSUME IndInv, NEW a \in Attempts, Recorded(a), NEW released \in BOOLEAN,
           released => run[a].comp.clean, att[a].released => released, Exists(a),
           NEW r \in {run[a], Closed(run[a])}
    PROVE  r \in RunRows /\ RowOK(Exists(a), Up(a), released, r, act[a], Alive(a))
<1>1. run[a] \in RunRows /\ run[a].comp # NoCompletion
  BY ReportFacts DEF Recorded
<1>2. r \in RunRows /\ r.comp = run[a].comp /\ r.state = "DONE"
  <2>1. run[a].state = "DONE"
    BY <1>1, ReportFacts DEF RowOK
  <2>2. Closed(run[a]) \in RunRows /\ Closed(run[a]).comp = run[a].comp /\ Closed(run[a]).state = "DONE"
    BY <1>1, RowTypes DEF Closed, NoRun, RunRows
  <2> QED BY <1>1, <2>1, <2>2
<1> QED BY <1>1, <1>2, ReportFacts DEF RowOK, Idle, Claimed

\* CompleteAttempt ends the Task or retries it; it decides on a terminal state.
LEMMA OutcomeType ==
    ASSUME NEW a, NEW c
    PROVE  Outcome(a, c)[1] \in Terminal
  BY DEF Outcome, Terminal

\* A released Attempt leaves no open one behind, whatever becomes of its Task.
LEMMA CommitOK ==
    ASSUME IndInv, NEW a \in Attempts, Current(a), NEW c \in Completions, NEW soon \in BOOLEAN,
           Commit(a, c, soon), c.clean, run[a].comp = c, Recorded(a),
           NEW r \in {run[a], Closed(run[a])}, run' = [run EXCEPT ![a] = r],
           UNCHANGED <<job, due, regEpoch, session, snap, streamVars, wstat, epoch, act, procs>>
    PROVE  IndInv'
<1> DEFINE t == TaskOf(a)
           o == Outcome(a, c)
           row == [att[a] EXCEPT !.released = TRUE, !.final = c]
           code == IF o[2] \in TaskCodes THEN o[2] ELSE "ERROR"
           retry == o[1] = "FAILED" /\ PlanRetry(a, o[2], soon)
           q == IF retry THEN Requeue(task[t]) ELSE SetState(task[t], o[1], code)
<1>1. row \in AttemptRows /\ row.worker = att[a].worker /\ row.released = TRUE
  BY ReportFacts DEF AttemptRows
<1>2. o[1] \in Terminal /\ code \in TaskCodes
  BY OutcomeType DEF TaskCodes
<1>3. /\ art' = [art EXCEPT ![a] = IF o[1] = "SUCCEEDED" THEN "ACCEPTED"
                                   ELSE IF @ = "STAGED" THEN "ORPHANED" ELSE @]
      /\ cmd' = [cmd EXCEPT ![a] = [k \in Kinds |-> IF @[k] = "none" THEN "none" ELSE "acked"]]
      /\ att' = [att EXCEPT ![a] = row] /\ task' = [task EXCEPT ![t] = q]
  BY DEF Commit
<1>4. Exists(a) /\ task[t].att = Gen(a) /\ task[t].gen = Gen(a)
  BY DEF Current
<1>5. retry => t \in ReplaySafe /\ task[t].gen < MaxAttempts
  BY <1>4 DEF PlanRetry
<1> HIDE DEF o, code, retry, row
<1>6. art' \in [Attempts -> {"none", "STAGED", "ACCEPTED", "ORPHANED"}]
  BY <1>3, Typed
<1>7. cmd' \in [Attempts -> [Kinds -> CommandStates]]
  <2>1. [k \in Kinds |-> IF cmd[a][k] = "none" THEN "none" ELSE "acked"] \in [Kinds -> CommandStates]
    BY DEF CommandStates
  <2> QED BY <1>3, <2>1, Typed
<1>8. q \in TaskRows /\ TaskOK(t, q)
  BY <1>2, <1>5, ReportFacts, SetStateOK, RequeueOK
<1>9. ASSUME NEW b \in Attempts, TaskOf(b) = t
      PROVE  AttemptOK(Gen(b), Exists(b), IF b = a THEN Exists(a) /\ ~row.released ELSE Open(b), q)
  <2>1. Gen(b) \in Gens /\ Exists(b) \in BOOLEAN
    BY AttemptParts DEF Exists
  <2>2. AttemptOK(Gen(b), Exists(b), Open(b), task[t])
    BY <1>9, ReportFacts
  <2>3. b # a => ~Open(b)
    <3>1. b # a => Gen(b) # Gen(a)
      BY <1>9, AttemptParts
    <3> QED BY <1>4, <2>2, <3>1 DEF AttemptOK
  <2>4. (IF b = a THEN Exists(a) /\ ~row.released ELSE Open(b)) = FALSE
    BY <1>1, <2>3 DEF Open
  <2>5. AttemptOK(Gen(b), Exists(b), FALSE, task[t])
    BY <2>2 DEF AttemptOK
  <2>6. AttemptOK(Gen(b), Exists(b), FALSE, q)
    <3>1. CASE retry
      <4>1. t \in ReplaySafe /\ t \in Tasks /\ task[t].gen < MaxAttempts
        BY <1>5, <3>1, ReportFacts
      <4>2. AttemptOK(Gen(b), Exists(b), FALSE, Requeue(task[t]))
        BY <2>1, <2>5, <4>1, RequeueOK
      <4> QED BY <3>1, <4>2
    <3>2. CASE ~retry
      <4>1. task[t] \in TaskRows /\ TaskOK(t, task[t]) /\ t \in Tasks
        BY ReportFacts
      <4>2. AttemptOK(Gen(b), Exists(b), FALSE, SetState(task[t], o[1], code))
        BY <1>2, <2>1, <2>5, <4>1, SetStateOK
      <4> QED BY <3>2, <4>2
    <3> QED BY <3>1, <3>2
  <2> QED BY <2>4, <2>6
<1>10. r \in RunRows /\ RowOK(Exists(a), Up(a), row.released, r, act[a], Alive(a))
  BY <1>1, <1>4, ClosedOK
<1> HIDE DEF q
<1> QED BY <1>1, <1>3, <1>6, <1>7, <1>8, <1>9, <1>10, ReportStep

\* ReportCompletion: CompleteAttempt, answered or not, keeps the invariant.
LEMMA ReportCompletionOK ==
    ASSUME IndInv, NEW a \in Attempts, NEW answered \in BOOLEAN, ReportCompletion(a, answered)
    PROVE  IndInv'
<1> DEFINE t == TaskOf(a)
           c == run[a].comp
           r == IF answered THEN Closed(run[a]) ELSE run[a]
<1>1. PICK soon \in BOOLEAN : CompleteAttempt(a, c, soon)
  BY DEF ReportCompletion
<1>2. Recorded(a) /\ Current(a) /\ Exists(a) /\ c \in Completions
  BY <1>1, ReportFacts DEF CompleteAttempt, MayComplete, Current, ReportCompletion, Completing, RunRows
<1>3. UNCHANGED <<job, due, regEpoch, session, snap, streamVars, wstat, epoch, act, procs>>
  BY DEF ReportCompletion
<1>4. run' = [run EXCEPT ![a] = r] /\ r \in {run[a], Closed(run[a])}
  BY ReportFacts DEF ReportCompletion
<1>5. CASE att[a].final # c /\ c.clean
  <2>1. Commit(a, c, soon)
    BY <1>1, <1>5 DEF CompleteAttempt
  <2> HIDE DEF r
  <2> QED BY <1>2, <1>3, <1>4, <1>5, <2>1, CommitOK
<1>6. CASE att[a].final = c \/ ~c.clean
  <2>1. UNCHANGED <<att, cmd, art>>
    BY <1>1, <1>6 DEF CompleteAttempt, Unconfirmed
  <2>2. PICK q \in {task[t], SetState(task[t], "RECONCILING", "ERROR")} : task' = [task EXCEPT ![t] = q]
    BY <1>1, <1>6, ReportFacts DEF CompleteAttempt, Unconfirmed
  <2>3. "RECONCILING" \in Stopping /\ "ERROR" \in TaskCodes
    BY DEF Stopping, TaskCodes
  <2>4. q \in TaskRows /\ TaskOK(t, q)
    BY <2>2, <2>3, ReportFacts, SetStateOK
  <2>5. ASSUME NEW b \in Attempts, TaskOf(b) = t
        PROVE  AttemptOK(Gen(b), Exists(b), IF b = a THEN Exists(a) /\ ~att[a].released ELSE Open(b), q)
    <3>1. Gen(b) \in Gens /\ Exists(b) \in BOOLEAN /\ Open(b) \in BOOLEAN
      BY AttemptParts DEF Exists, Open
    <3>2. AttemptOK(Gen(b), Exists(b), Open(b), task[t])
      BY <2>5, ReportFacts
    <3>3. AttemptOK(Gen(b), Exists(b), Open(b), q)
      BY <2>2, <2>3, <3>1, <3>2, ReportFacts, SetStateOK
    <3> QED BY <3>3 DEF Open
  <2>6. att[a].released \in BOOLEAN /\ (att[a].released => c.clean)
    BY ReportFacts DEF AttemptRows, RowOK
  <2>7. r \in RunRows /\ RowOK(Exists(a), Up(a), att[a].released, r, act[a], Alive(a))
    BY <1>2, <1>4, <2>6, ClosedOK
  <2>8. att' = [att EXCEPT ![a] = att[a]]
    BY <2>1, ReportFacts
  <2> HIDE DEF r
  <2> QED BY <1>3, <1>4, <2>1, <2>2, <2>4, <2>5, <2>7, <2>8, ReportFacts, Typed, ReportStep
<1> QED BY <1>5, <1>6

-----------------------------------------------------------------------------
(* Death and start of a Worker process.                                    *)

\* A step of the life cycle of one Worker process.
LEMMA ProcessStep ==
    ASSUME IndInv, UNCHANGED <<serverVars, streamVars, run, procs>>,
           wstat' \in [Workers -> {"down", "recovering", "up"}], epoch' \in [Workers -> 0 .. MaxEpoch],
           act' \in [Attempts -> Goroutines], EpochOK',
           \A a \in Attempts : JournalOK(a)'
    PROVE  IndInv'
<1>1. TypeOK'
  BY Typed DEF TypeOK, ServerTypeOK, StreamTypeOK, WorkerTypeOK, serverVars, streamVars
<1>2. Ledger' /\ WireOK'
  BY DEF IndInv, Ledger, WireOK, Exists, Open, serverVars, streamVars
<1> QED BY <1>1, <1>2 DEF IndInv

\* Crash: the death of a Worker process keeps the invariant.
LEMMA CrashOK == ASSUME IndInv, NEW w \in Workers, Crash(w) PROVE IndInv'
<1>1. /\ wstat' = [wstat EXCEPT ![w] = "down"] /\ epoch' = epoch /\ epoch[w] < MaxEpoch
      /\ act' = [a \in Attempts |-> IF WorkerOf(a) = w THEN Off ELSE act[a]]
      /\ UNCHANGED <<serverVars, streamVars, run, procs>>
  BY DEF Crash
<1>2. wstat' \in [Workers -> {"down", "recovering", "up"}] /\ act' \in [Attempts -> Goroutines]
  BY <1>1, Typed, RowTypes
<1>3. EpochOK'
  BY <1>1, Typed DEF IndInv, EpochOK
<1>4. ASSUME NEW a \in Attempts PROVE JournalOK(a)'
  <2>1. RowOK(Exists(a), Up(a), att[a].released, run[a], act[a], Alive(a))
    BY ReportFacts
  <2>2. att' = att /\ run' = run /\ procs' = procs
    BY <1>1 DEF serverVars
  <2>3. CASE WorkerOf(a) = w
    <3>1. act'[a] = Off
      BY <1>1, <2>3
    <3>2. RowOK(Exists(a), Up(a)', att[a].released, run[a], Off, Alive(a))
      BY <2>1 DEF RowOK, Off, Idle, Claimed
    <3> QED BY <2>2, <3>1, <3>2 DEF JournalOK, Exists, Alive
  <2>4. CASE WorkerOf(a) # w
    <3>1. act'[a] = act[a]
      BY <1>1, <2>4
    <3>2. Exists(a) => Up(a)' = Up(a)
      <4>1. Exists(a) => att[a].worker \in Workers
        BY Typed DEF Exists, AttemptRows
      <4> QED BY <1>1, <2>2, <2>4, <4>1, Typed DEF Up, WorkerOf
    <3>3. RowOK(Exists(a), Up(a)', att[a].released, run[a], act[a], Alive(a))
      BY <2>1, <3>2 DEF RowOK
    <3> QED BY <2>2, <3>1, <3>3 DEF JournalOK, Exists, Alive
  <2> QED BY <2>3, <2>4
<1> QED BY <1>1, <1>2, <1>3, <1>4, Typed, ProcessStep

\* Boot: the start of a Worker process keeps the invariant.
LEMMA BootOK == ASSUME IndInv, NEW w \in Workers, Boot(w) PROVE IndInv'
<1>1. /\ wstat[w] = "down" /\ wstat' = [wstat EXCEPT ![w] = "recovering"]
      /\ epoch' = epoch /\ act' = act /\ UNCHANGED <<serverVars, streamVars, run, procs>>
  BY DEF Boot
<1>2. wstat' \in [Workers -> {"down", "recovering", "up"}] /\ EpochOK'
  BY <1>1, Typed DEF IndInv, EpochOK
<1>3. ASSUME NEW a \in Attempts PROVE JournalOK(a)'
  <2>1. RowOK(Exists(a), Up(a), att[a].released, run[a], act[a], Alive(a))
    BY ReportFacts
  <2>2. Up(a) => Up(a)'
    BY <1>1, Typed DEF Up, WorkerOf, serverVars
  <2>3. RowOK(Exists(a), Up(a)', att[a].released, run[a], act[a], Alive(a))
    BY <2>1, <2>2 DEF RowOK
  <2> QED BY <1>1, <2>3 DEF JournalOK, Exists, Alive, serverVars
<1> QED BY <1>1, <1>2, <1>3, Typed, ProcessStep

\* Probe: the fresh epoch after recover() keeps the invariant.
LEMMA ProbeOK == ASSUME IndInv, NEW w \in Workers, Probe(w) PROVE IndInv'
<1>1. /\ wstat[w] = "recovering" /\ wstat' = [wstat EXCEPT ![w] = "up"]
      /\ epoch' = [epoch EXCEPT ![w] = @ + 1] /\ act' = act
      /\ UNCHANGED <<serverVars, streamVars, run, procs>>
  BY DEF Probe
<1>2. wstat' \in [Workers -> {"down", "recovering", "up"}] /\ epoch' \in [Workers -> 0 .. MaxEpoch]
  <2>1. epoch[w] < MaxEpoch /\ epoch[w] \in 0 .. MaxEpoch
    BY <1>1, Typed DEF IndInv, EpochOK
  <2>2. epoch[w] + 1 \in 0 .. MaxEpoch
    BY <2>1, Bounds
  <2> QED BY <1>1, <2>2, Typed
<1>3. EpochOK'
  BY <1>1, Typed DEF IndInv, EpochOK
<1>4. ASSUME NEW a \in Attempts PROVE JournalOK(a)'
  <2>1. RowOK(Exists(a), Up(a), att[a].released, run[a], act[a], Alive(a))
    BY ReportFacts
  <2>2. Up(a) => Up(a)'
    BY <1>1, Typed DEF Up, WorkerOf, serverVars
  <2>3. RowOK(Exists(a), Up(a)', att[a].released, run[a], act[a], Alive(a))
    BY <2>1, <2>2 DEF RowOK
  <2> QED BY <1>1, <2>3 DEF JournalOK, Exists, Alive, serverVars
<1> QED BY <1>1, <1>2, <1>3, <1>4, Typed, ProcessStep

-----------------------------------------------------------------------------
(* The theorems.                                                           *)

\* Nothing changes.
LEMMA StutterOK == ASSUME IndInv, UNCHANGED vars PROVE IndInv'
<1>1. /\ UNCHANGED <<task, job, due, att, cmd, art, regEpoch, session, snap>>
      /\ UNCHANGED <<wire, grants>> /\ UNCHANGED <<wstat, epoch, run, act, procs>>
  BY DEF vars, serverVars, streamVars, workerVars
<1>2. \A m \in wire' : Exists(m[2])
  BY <1>1 DEF IndInv, WireOK
<1> QED BY <1>1, <1>2, Typed, StreamStep DEF workerVars

\* Every step of the system keeps the invariant.
LEMMA NextOK == ASSUME IndInv, Next PROVE IndInv'
<1>1. CASE User
  BY <1>1, SubmitTaskOK, CancelTaskOK, CancelJobOK, ExtendJobDeadlineOK, ManualRetryOK DEF User
<1>2. CASE Controller
  BY <1>2, ReconcileOK, TickSnapshotOK, AdvanceJobOK, AssignExpiredOK, AssignOK DEF Controller
<1>3. CASE Stream
  BY <1>3, ServerRestartOK, ConnectOK, DisconnectOK, SendCommandOK, ReceiveCommandOK, RenewOK,
     CancelRunOK, ReceiveGrantOK DEF Stream
<1>4. CASE Time
  BY <1>4, LeaseExpiresOK, LocalLeaseEndsOK, DeadlinePassesOK DEF Time
<1>5. CASE Processing
  <2>1. PICK a \in Attempts : Execute(a) \/ Fork(a) \/ \E p \in Processes : ProcessExits(a, p)
    BY <1>5 DEF Processing
  <2>2. CASE Execute(a)
    BY <2>2, LeaseLostOK, ExecuteBeginOK, PrepareWorkspaceOK, PrepareFailsOK, MarkInUseOK,
       EnvironmentFailsOK, SpawnOK, SpawnFailsOK, RecordRuntimeStartedOK, RecordFailsOK,
       RuntimeEndsOK, FenceVerifierOK, SpawnVerifierOK, RecordVerifierOK, VerifierEndsOK,
       FinishOK, LeaveOK DEF Execute
  <2> QED BY <2>1, <2>2, ForkOK, ProcessExitsOK
<1>6. CASE Flush
  <2>1. \A answered \in Answers : answered \in BOOLEAN
    BY DEF Answers
  <2> QED BY <1>6, <2>1, UploadRejectedOK, ReportEventsOK, UploadArtifactOK, ReportCompletionOK DEF Flush
<1>7. CASE Restart
  BY <1>7, CrashOK, BootOK, ProbeOK, RecoverRunOK DEF Restart
<1> QED BY <1>1, <1>2, <1>3, <1>4, <1>5, <1>6, <1>7 DEF Next

\* Server, streams and Workers keep their rows consistent with one another and with
\* the processes that really run, in every reachable state (IndInv).
THEOREM Consistent == Spec => []IndInv
<1>1. Init => IndInv
  BY InitOK
<1>2. IndInv /\ [Next]_vars => IndInv'
  BY NextOK, StutterOK
<1> QED BY <1>1, <1>2, PTL DEF Spec

\* Type correctness of the whole system.
THEOREM TypeCorrect == Spec => []TypeOK
<1>1. IndInv => TypeOK
  BY DEF IndInv
<1> QED BY <1>1, Consistent, PTL

\* A runtime that is alive belongs to an open Attempt: the only one of its Task.
LEMMA AliveIsOpen ==
    ASSUME IndInv, NEW a \in Attempts, Alive(a)
    PROVE  Open(a) /\ task[TaskOf(a)].att = Gen(a)
<1>1. RowOK(Exists(a), Up(a), att[a].released, run[a], act[a], TRUE)
  BY ReportFacts
<1>2. Open(a)
  BY <1>1 DEF RowOK, Open
<1>3. AttemptOK(Gen(a), Exists(a), Open(a), task[TaskOf(a)])
  BY DEF IndInv, Ledger
<1> QED BY <1>2, <1>3 DEF AttemptOK

\* The Server releases an Attempt only when its runtime is gone, for any number of
\* Worker restarts and whoever reports the cleanup (CompleteAttempt, recover).
THEOREM ReleaseIsSafe == Spec => []ReleasedMeansStopped
<1>1. IndInv => ReleasedMeansStopped
  <2> SUFFICES ASSUME IndInv, NEW a \in Attempts, att[a].released, Alive(a) PROVE FALSE
    BY DEF ReleasedMeansStopped
  <2> QED BY AliveIsOpen DEF Open
<1> QED BY <1>1, Consistent, PTL

\* Two Attempts of one Task never execute at the same time, for any number of Tasks,
\* Workers, crashes, lost frames and retries.
THEOREM SingleExecution == Spec => []OneLiveExecution
<1>1. IndInv => OneLiveExecution
  <2> SUFFICES ASSUME IndInv, NEW t \in Tasks, NEW a \in Attempts, NEW b \in Attempts,
                      TaskOf(a) = t, TaskOf(b) = t, Alive(a), Alive(b)
               PROVE  a = b
    BY DEF OneLiveExecution, Generations
  <2>1. Gen(a) = Gen(b)
    BY AliveIsOpen
  <2> QED BY <2>1, AttemptParts
<1> QED BY <1>1, Consistent, PTL

\* assign() can never exceed the attempt budget, and work that is not replay-safe is
\* executed at most once (planRetry, ManualRetry).
THEOREM RetriesBounded == Spec => []RetryBounded
<1>1. IndInv => RetryBounded
  BY DEF IndInv, Ledger, TaskOK, RetryBounded
<1> QED BY <1>1, Consistent, PTL

=============================================================================
