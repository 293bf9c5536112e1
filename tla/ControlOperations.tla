------------------------- MODULE ControlOperations -------------------------
(***************************************************************************)
(* Interactive control of one running Task: the single-writer lease, the    *)
(* handler of a control request (its checks, durable acceptance and         *)
(* dispatch are separate transactions), Runtime approvals, delivery of the  *)
(* command on the Worker stream, the Worker's control ledger and the        *)
(* acknowledgement that closes the receipt.                                *)
(*                                                                         *)
(* What changes underneath (assignment and release of Attempts, the Job's   *)
(* version, the run's journal row) is kept only as far as the control code  *)
(* reads it; TaskAttempts models it in full.                               *)
(***************************************************************************)
EXTENDS Integers, FiniteSets

CONSTANTS
    Ops,         \* operation ids (of one principal)
    Clients,     \* control devices, each with one request in progress at most
    Nobody,      \* no holder, no operation
    Kinds,       \* operation types in this instance
    Choices,     \* decisions a client may take in this instance
    MaxGen,      \* bound: Attempts of the Task
    MaxVersion,  \* bound: changes of the Job
    MaxRequest,  \* bound: versions of the Runtime's approval request
    MaxEpoch,    \* bound: Worker processes
    Faults       \* "stream": the stream breaks by itself; "store": a write fails

ASSUME ControlAssumption ==
    /\ Nobody \notin Ops \cup Clients
    /\ Kinds \subseteq {"input", "resume", "approval"}
    /\ Choices \subseteq {"ACCEPT", "REJECT"}
    /\ MaxGen \in Nat \ {0} /\ MaxVersion \in Nat \ {0}
    /\ MaxRequest \in Nat /\ MaxEpoch \in Nat \ {0}
    /\ Faults \subseteq {"stream", "store"}

VARIABLES
    lease,    \* control_write_leases: the holder whose lease has not expired
    task,     \* current_generation, its Attempt unreleased, its epoch, native_session
    job,      \* version, and whether the Job still accepts control
    op,       \* control_operations: state, request and error code of the receipt
    cmd,      \* commands: delivery of the operation's command
    apr,      \* approval_requests, by request_version
    call,     \* requests being handled
    link,     \* the Worker's stream is up
    wire,     \* commands sent and not yet received
    acks,     \* acknowledgements sent and not yet received
    epoch,    \* the Worker process
    row,      \* runs: the current Attempt's row and its runtime_state
    ledger,   \* the Worker's commands table
    exec,     \* what the Worker's receive loop is executing
    asked     \* how often the Runtime was asked to perform an operation (2 = more than once)

dbVars   == <<op, cmd, apr>>
envVars  == <<lease, task, job>>
pipeVars == <<link, wire, acks>>
wrkVars  == <<epoch, row, ledger, exec, asked>>
vars     == <<lease, task, job, op, cmd, apr, call, link, wire, acks, epoch, row, ledger, exec, asked>>

Final    == {"COMPLETED", "REJECTED"}
Requests == 1 .. MaxRequest

Bodies  == [kind : {"none", "input", "resume", "approval"}, gen : 0 .. MaxGen,
            ver : 0 .. MaxVersion, req : 0 .. MaxRequest, dec : {""} \cup Choices]
NoBody  == [kind |-> "none", gen |-> 0, ver |-> 0, req |-> 0, dec |-> ""]
NoOp    == [state |-> "none", body |-> NoBody, code |-> ""]
NoCall  == [at |-> "idle", op |-> Nobody, body |-> NoBody]
NoRow   == [state |-> "none", rt |-> "none"]
Idle    == [op |-> Nobody, result |-> "none"]

\* error_code of a receipt or an acknowledgement, by where it comes from.
Codes   == {"", "EXECUTION_UNVERIFIABLE", "RUNTIME_CONTROL_FAILED"}
Results == {"COMPLETED", "REJECTED", "UNKNOWN"}

TaskRows     == [gen : 0 .. MaxGen, open : BOOLEAN, epoch : 0 .. MaxEpoch, session : BOOLEAN]
JobRows      == [ver : 1 .. MaxVersion, active : BOOLEAN]
Receipts     == [state : {"none", "ACCEPTED", "DISPATCHED"} \cup Final, body : Bodies, code : Codes]
ApprovalRows == [state : {"none", "PENDING", "ACCEPTED", "REJECTED", "EXPIRED", "SUPERSEDED"},
                 dec : {""} \cup Choices, gen : 0 .. MaxGen, due : BOOLEAN]
Calls        == [at : {"idle", "begun", "able", "accepted"}, op : Ops \cup {Nobody}, body : Bodies]
Acks         == [op : Ops, result : Results, code : Codes]
RunRows      == [state : {"none", "live", "done"}, rt : {"none", "RUNNING", "UNKNOWN", "ENDED"}]
LedgerRows   == [state : {"none", "EXECUTING"} \cup Results, code : Codes]
Executions   == [op : Ops \cup {Nobody}, result : {"none", "claimed"} \cup Final]

TypeOK ==
    /\ lease \in Clients \cup {Nobody}
    /\ task \in TaskRows /\ job \in JobRows
    /\ op \in [Ops -> Receipts]
    /\ cmd \in [Ops -> {"none", "pending", "acked"}]
    /\ apr \in [Requests -> ApprovalRows]
    /\ call \in [Clients -> Calls]
    /\ link \in BOOLEAN /\ wire \in SUBSET Ops /\ acks \in SUBSET Acks
    /\ epoch \in 1 .. MaxEpoch /\ row \in RunRows
    /\ ledger \in [Ops -> LedgerRows] /\ exec \in Executions
    /\ asked \in [Ops -> 0 .. 2]

Init ==
    /\ lease = Nobody
    /\ task = [gen |-> 0, open |-> FALSE, epoch |-> 0, session |-> FALSE]
    /\ job = [ver |-> 1, active |-> TRUE]
    /\ op = [o \in Ops |-> NoOp]
    /\ cmd = [o \in Ops |-> "none"]
    /\ apr = [v \in Requests |-> [state |-> "none", dec |-> "", gen |-> 0, due |-> FALSE]]
    /\ call = [c \in Clients |-> NoCall]
    /\ link = FALSE /\ wire = {} /\ acks = {}
    /\ epoch = 1 /\ row = NoRow
    /\ ledger = [o \in Ops |-> [state |-> "none", code |-> ""]]
    /\ exec = Idle
    /\ asked = [o \in Ops |-> 0]

-----------------------------------------------------------------------------
(* The write lease.  A holder keeps the token of its last acquire; renewing *)
(* keeps a lease that has not expired, an expired one is as good as none.   *)

Acquire(c) ==
    /\ lease \in {Nobody, c}
    /\ lease' = c
    /\ UNCHANGED <<task, job, dbVars, call, pipeVars, wrkVars>>

\* releaseControlWriteLease(), or its 30 seconds pass.
LeaseEnds(c) ==
    /\ lease = c
    /\ lease' = Nobody
    /\ UNCHANGED <<task, job, dbVars, call, pipeVars, wrkVars>>

-----------------------------------------------------------------------------
(* The request handler.                                                    *)

\* validateControlFence()
Fence(b) == b.gen = task.gen /\ task.open /\ b.ver = job.ver /\ job.active

\* What a client that has just read the Job may ask for: a decision names a version
\* of the approval request.
NewBodies ==
    {b \in [kind : Kinds, gen : {task.gen}, ver : {job.ver}, req : 0 .. MaxRequest, dec : {""} \cup Choices] :
        IF b.kind = "approval" THEN b.req # 0 /\ b.dec # "" ELSE b.req = 0 /\ b.dec = ""}

Moves(c, p) == call' = [call EXCEPT ![c].at = p]

\* Mutant: expiry also takes requests that a decision is reserved on.
ExpireReserved == [v \in Requests |-> IF apr[v].state = "PENDING" /\ apr[v].due
                                      THEN [apr[v] EXCEPT !.state = "EXPIRED"] ELSE apr[v]]

\* expireJobApprovals()
Expired ==
    [v \in Requests |-> IF apr[v].state = "PENDING" /\ apr[v].dec = "" /\ apr[v].due
                        THEN [apr[v] EXCEPT !.state = "EXPIRED"] ELSE apr[v]]

Undecided(a, b) == a.state = "PENDING" /\ a.dec = "" /\ a.gen = b.gen

\* requireControlWriteLease(), then acceptAndDispatchControlOperation(): the receipt
\* (a request with another body conflicts, one that is dispatched is only answered),
\* the fence and, after expiring what is due, the approval request.  A condition on
\* fence or approval that fails never holds again for this request, and the later
\* transactions repeat them, so checking them at one moment loses nothing.
Begin(c, o, b) ==
    /\ call[c].at = "idle" /\ lease = c
    /\ \/ op[o].state = "none"
       \/ op[o].state = "ACCEPTED" /\ op[o].body = b
    /\ Fence(b)
    /\ IF b.kind = "approval" THEN Undecided(Expired[b.req], b) /\ apr' = Expired
                              ELSE UNCHANGED apr
    /\ call' = [call EXCEPT ![c] = [at |-> "begun", op |-> o, body |-> b]]
    /\ UNCHANGED <<envVars, op, cmd, pipeVars, wrkVars>>

\* workerHasControlCapability(): asked of the connected session.
CheckCapability(c) ==
    /\ call[c].at = "begun" /\ link
    /\ Moves(c, "able")
    /\ UNCHANGED <<envVars, dbVars, pipeVars, wrkVars>>

\* acceptControlOperation()
Accept(c) ==
    LET o == call[c].op
        b == call[c].body IN
    /\ call[c].at = "able"
    /\ IF op[o].state = "none"
       THEN Fence(b) /\ op' = [op EXCEPT ![o] = [state |-> "ACCEPTED", body |-> b, code |-> ""]]
       ELSE op[o].body = b /\ UNCHANGED op
    /\ Moves(c, "accepted")
    /\ UNCHANGED <<envVars, cmd, apr, pipeVars, wrkVars>>

\* Mutant: the reservation of the decision is not conditional.
DispatchUnreserved(c) ==
    LET o == call[c].op
        b == call[c].body IN
    /\ call[c].at = "accepted" /\ call' = [call EXCEPT ![c] = NoCall]
    /\ IF op[o].state # "ACCEPTED" THEN UNCHANGED dbVars
       ELSE /\ Fence(b) /\ (b.kind = "resume" => task.session)
            /\ apr' = IF b.kind = "approval" THEN [apr EXCEPT ![b.req].dec = b.dec] ELSE apr
            /\ op' = [op EXCEPT ![o].state = "DISPATCHED"]
            /\ cmd' = [cmd EXCEPT ![o] = "pending"]
    /\ UNCHANGED <<envVars, pipeVars, wrkVars>>

\* dispatchControlOperation(): all of it or, if a condition fails, nothing.
Dispatch(c) ==
    LET o == call[c].op
        b == call[c].body IN
    /\ call[c].at = "accepted" /\ call' = [call EXCEPT ![c] = NoCall]
    /\ IF op[o].state # "ACCEPTED" THEN UNCHANGED dbVars
       ELSE /\ Fence(b)
            /\ b.kind = "resume" => task.session
            /\ b.kind = "approval" => Undecided(apr[b.req], b)
            /\ apr' = IF b.kind = "approval" THEN [apr EXCEPT ![b.req].dec = b.dec] ELSE apr
            /\ op' = [op EXCEPT ![o].state = "DISPATCHED"]
            /\ cmd' = [cmd EXCEPT ![o] = "pending"]
    /\ UNCHANGED <<envVars, pipeVars, wrkVars>>

\* The handler returns an error, its client goes away or the Server restarts.
CallEnds(c) ==
    /\ call[c].at # "idle"
    /\ call' = [call EXCEPT ![c] = NoCall]
    /\ UNCHANGED <<envVars, dbVars, pipeVars, wrkVars>>

Handler(c) ==
    \/ \E o \in Ops, b \in NewBodies : Begin(c, o, b)
    \/ CheckCapability(c) \/ Accept(c) \/ Dispatch(c)
    \/ CallEnds(c)

-----------------------------------------------------------------------------
(* Approval requests of the Runtime.                                       *)

\* persistApprovalRequested() for a new request_version: an event of the current
\* Attempt's Runtime, perhaps delivered when the run has ended already.
AskApproval(v) ==
    /\ task.open /\ task.epoch = epoch /\ row.rt # "none"
    /\ apr[v].state = "none" /\ \A u \in 1 .. v - 1 : apr[u].state # "none"
    /\ apr' = [u \in Requests |->
                 IF u = v THEN [state |-> "PENDING", dec |-> "", gen |-> task.gen, due |-> FALSE]
                 ELSE IF u < v /\ apr[u].state = "PENDING" THEN [apr[u] EXCEPT !.state = "SUPERSEDED"]
                 ELSE apr[u]]
    /\ UNCHANGED <<envVars, op, cmd, call, pipeVars, wrkVars>>

RequestDue(v) ==
    /\ apr[v].state = "PENDING" /\ ~apr[v].due
    /\ apr' = [apr EXCEPT ![v].due = TRUE]
    /\ UNCHANGED <<envVars, op, cmd, call, pipeVars, wrkVars>>

\* JobApprovals(): reading the list expires what is due.
ListApprovals ==
    /\ Expired # apr
    /\ apr' = Expired
    /\ UNCHANGED <<envVars, op, cmd, call, pipeVars, wrkVars>>

-----------------------------------------------------------------------------
(* Delivery and execution.                                                 *)

Broken == link' = FALSE /\ wire' = {} /\ acks' = {}

\* The receive loop of an earlier stream has returned before the next one begins.
Connect ==
    /\ ~link /\ exec = Idle
    /\ link' = TRUE
    /\ UNCHANGED <<envVars, dbVars, call, wire, acks, wrkVars>>

Disconnect ==
    /\ "stream" \in Faults /\ link
    /\ Broken
    /\ UNCHANGED <<envVars, dbVars, call, wrkVars>>

IsCurrent(o) == op[o].body.gen = task.gen /\ task.open

\* The operation's Attempt has a row without a completion (an older one's is completed).
HasRun(o) == op[o].body.gen = task.gen /\ row.state = "live"

\* Mutant: a command counts as delivered when it is sent.
SendControlOnce(o) ==
    /\ link /\ cmd[o] = "pending"
    /\ wire' = IF op[o].state = "DISPATCHED" /\ IsCurrent(o) /\ task.epoch = epoch
               THEN wire \cup {o} ELSE wire
    /\ cmd' = [cmd EXCEPT ![o] = "acked"]
    /\ UNCHANGED <<envVars, op, apr, call, link, acks, wrkVars>>

\* ConnectWorker's ticker and commandDeliverable().
SendControl(o) ==
    /\ link /\ cmd[o] = "pending"
    /\ IF op[o].state = "DISPATCHED" /\ IsCurrent(o) /\ task.epoch = epoch
       THEN o \notin wire /\ wire' = wire \cup {o} /\ UNCHANGED cmd
       ELSE cmd' = [cmd EXCEPT ![o] = "acked"] /\ UNCHANGED wire
    /\ UNCHANGED <<envVars, op, apr, call, link, acks, wrkVars>>

Ack(o, result, code) == [op |-> o, result |-> result, code |-> code]
Record(o, result, code) == ledger' = [ledger EXCEPT ![o] = [state |-> result, code |-> code]]

\* Mutant: every repetition is answered UNKNOWN.
ReplayUnknown(o) == Ack(o, "UNKNOWN", "EXECUTION_UNVERIFIABLE")

\* What executeControl() answers for a command it has seen before.
Replay(o) ==
    IF ledger[o].state \in Final THEN Ack(o, ledger[o].state, ledger[o].code)
    ELSE Ack(o, "UNKNOWN", "EXECUTION_UNVERIFIABLE")

\* Whether the run's row lets the operation through.
Controllable(o) ==
    IF op[o].body.kind = "resume" THEN row.rt \in {"UNKNOWN", "RUNNING"} ELSE row.rt = "RUNNING"

\* Mutant: an interrupted execution counts as not begun.
TakeControlAgain(o) ==
    /\ link /\ o \in wire /\ exec = Idle
    /\ IF ledger[o].state \in Final
       THEN acks' = acks \cup {Replay(o)} /\ wire' = wire \ {o} /\ UNCHANGED <<link, ledger, exec>>
       ELSE IF ~HasRun(o)
       THEN Broken /\ UNCHANGED <<ledger, exec>>
       ELSE /\ Record(o, "EXECUTING", "") /\ exec' = [op |-> o, result |-> "claimed"]
            /\ wire' = wire \ {o} /\ UNCHANGED <<link, acks>>
    /\ UNCHANGED <<envVars, dbVars, call, epoch, row, asked>>

\* executeControl()'s transaction: replay, error (the receive loop returns it and the
\* stream is gone), rejection, or claim.
TakeControl(o) ==
    /\ link /\ o \in wire /\ exec = Idle
    /\ IF ledger[o].state # "none"
       THEN acks' = acks \cup {Replay(o)} /\ wire' = wire \ {o} /\ UNCHANGED <<link, ledger, exec>>
       ELSE IF ~HasRun(o)
       THEN Broken /\ UNCHANGED <<ledger, exec>>
       ELSE IF ~Controllable(o)
       THEN /\ Record(o, "REJECTED", "EXECUTION_UNVERIFIABLE")
            /\ acks' = acks \cup {Ack(o, "REJECTED", "EXECUTION_UNVERIFIABLE")}
            /\ wire' = wire \ {o} /\ UNCHANGED <<link, exec>>
       ELSE /\ Record(o, "EXECUTING", "") /\ exec' = [op |-> o, result |-> "claimed"]
            /\ wire' = wire \ {o} /\ UNCHANGED <<link, acks>>
    /\ UNCHANGED <<envVars, dbVars, call, epoch, row, asked>>

\* The Provider is called.  It may refuse or fail, and a resumed Runtime is lost when
\* the run was completed meanwhile.
Perform ==
    LET o == exec.op IN
    /\ exec.result = "claimed"
    /\ asked' = [asked EXCEPT ![o] = IF @ = 0 THEN 1 ELSE 2]
    /\ \E result \in Final :
         /\ op[o].body.kind = "resume" /\ result = "COMPLETED" => HasRun(o)
         /\ exec' = [exec EXCEPT !.result = result]
         /\ row' = IF op[o].body.kind = "resume" /\ result = "COMPLETED"
                   THEN [row EXCEPT !.rt = "RUNNING"] ELSE row
    /\ UNCHANGED <<envVars, dbVars, call, pipeVars, epoch, ledger>>

\* The Provider cannot be asked at all (not registered, not certified, or its row
\* cannot be read again; a runtime_ref that does not decode is left out).
RefuseUnasked ==
    /\ exec.result = "claimed"
    /\ exec' = [exec EXCEPT !.result = "REJECTED"]
    /\ UNCHANGED <<envVars, dbVars, call, pipeVars, epoch, row, ledger, asked>>

\* finishControl(): the outcome is stored, then acknowledged.  Both use the context
\* of the stream, so neither is certain once that has ended.
FinishControl ==
    LET o == exec.op
        code == IF exec.result = "REJECTED" THEN "RUNTIME_CONTROL_FAILED" ELSE "" IN
    /\ exec.result \in Final
    /\ exec' = Idle
    /\ \/ /\ Record(o, exec.result, code)
          /\ acks' = IF link THEN acks \cup {Ack(o, exec.result, code)} ELSE acks
          /\ UNCHANGED <<link, wire>>
       \/ ("store" \in Faults \/ ~link) /\ Broken /\ UNCHANGED ledger
    /\ UNCHANGED <<envVars, dbVars, call, epoch, row, asked>>

-----------------------------------------------------------------------------
\* Mutant: an unknown outcome counts as done.
ReceiptOptimistic(k) == [state |-> IF k.result = "REJECTED" THEN "REJECTED" ELSE "COMPLETED", code |-> k.code]

\* The receipt an acknowledgement asks for.
Receipt(k) ==
    [state |-> IF k.result = "COMPLETED" THEN "COMPLETED" ELSE "REJECTED",
     code |-> IF k.result = "UNKNOWN" THEN "EXECUTION_UNVERIFIABLE" ELSE k.code]

Decided(d) == IF d = "ACCEPT" THEN "ACCEPTED" ELSE "REJECTED"
Decides(k) == op[k.op].body.kind = "approval" /\ k.result = "COMPLETED"

\* When applyControlAck() commits: the Attempt is current and an approval is PENDING.
AckApplies(k) ==
    /\ op[k.op].state \notin Final /\ IsCurrent(k.op)
    /\ Decides(k) => /\ apr[op[k.op].body.req].state = "PENDING"
                     /\ apr[op[k.op].body.req].gen = op[k.op].body.gen
AckRepeats(k) == op[k.op].state = Receipt(k).state /\ op[k.op].code = Receipt(k).code

\* receive(): applied, a repetition without effect, or an error that ends the session.
ReceiveAck(k) ==
    LET o == k.op
        b == op[o].body IN
    /\ link /\ k \in acks
    /\ IF AckApplies(k)
       THEN /\ op' = [op EXCEPT ![o].state = Receipt(k).state, ![o].code = Receipt(k).code]
            /\ cmd' = [cmd EXCEPT ![o] = "acked"]
            /\ apr' = IF Decides(k) THEN [apr EXCEPT ![b.req].state = Decided(b.dec)] ELSE apr
            /\ acks' = acks \ {k} /\ UNCHANGED <<link, wire>>
       ELSE /\ UNCHANGED dbVars
            /\ IF AckRepeats(k) THEN acks' = acks \ {k} /\ UNCHANGED <<link, wire>> ELSE Broken
    /\ UNCHANGED <<envVars, call, wrkVars>>

-----------------------------------------------------------------------------
(* What changes underneath.                                                *)

AssignAttempt ==
    /\ ~task.open /\ task.gen < MaxGen /\ job.active /\ link
    /\ task' = [gen |-> task.gen + 1, open |-> TRUE, epoch |-> epoch, session |-> FALSE]
    /\ row' = NoRow
    /\ UNCHANGED <<lease, job, dbVars, call, pipeVars, epoch, ledger, exec, asked>>

\* Only a resume tells a Runtime in doubt from one that has ended.
DoneStates == IF "resume" \in Kinds THEN {"UNKNOWN", "ENDED"} ELSE {"ENDED"}

\* The start command is accepted; the Runtime starts; it ends or its state is in doubt.
RunMoves ==
    /\ \/ row.state = "none" /\ link /\ task.open /\ task.epoch = epoch /\ row' = [NoRow EXCEPT !.state = "live"]
       \/ row.state = "live" /\ row.rt = "none" /\ row' = [row EXCEPT !.rt = "RUNNING"]
       \/ row.state = "live" /\ row.rt = "RUNNING" /\ \E s \in DoneStates : row' = [row EXCEPT !.rt = s]
       \/ row.state = "live" /\ row' = [row EXCEPT !.state = "done"]
    /\ UNCHANGED <<envVars, dbVars, call, pipeVars, epoch, ledger, exec, asked>>

\* persistRuntimeSessionRef()
SessionKnown ==
    /\ "resume" \in Kinds /\ task.open /\ ~task.session /\ row.rt # "none"
    /\ task' = [task EXCEPT !.session = TRUE]
    /\ UNCHANGED <<lease, job, dbVars, call, pipeVars, wrkVars>>

\* CompleteAttempt() with cleanup confirmed; what is still to be delivered to the Attempt is dropped.
ReleaseAttempt ==
    /\ task.open /\ row.state = "done"
    /\ task' = [task EXCEPT !.open = FALSE]
    /\ cmd' = [o \in Ops |-> IF cmd[o] # "none" /\ op[o].body.gen = task.gen THEN "acked" ELSE cmd[o]]
    /\ UNCHANGED <<lease, job, op, apr, call, pipeVars, wrkVars>>

\* transitionJob(), ExtendJobDeadline or a manual retry.
JobMoves ==
    /\ job.ver < MaxVersion
    /\ \E active \in BOOLEAN : job' = [ver |-> job.ver + 1, active |-> active]
    /\ UNCHANGED <<lease, task, dbVars, call, pipeVars, wrkVars>>

\* The Worker dies and recovers: an operation in execution becomes UNKNOWN, an
\* interrupted run is completed.
RestartWorker ==
    /\ epoch < MaxEpoch
    /\ epoch' = epoch + 1
    /\ ledger' = [o \in Ops |-> IF ledger[o].state = "EXECUTING"
                                THEN [state |-> "UNKNOWN", code |-> "EXECUTION_UNVERIFIABLE"]
                                ELSE ledger[o]]
    /\ row' = IF row.state = "live" THEN [row EXCEPT !.state = "done"] ELSE row
    /\ exec' = Idle
    /\ Broken
    /\ UNCHANGED <<envVars, dbVars, call, asked>>

-----------------------------------------------------------------------------
Writer  == \E c \in Clients : Acquire(c) \/ LeaseEnds(c) \/ Handler(c)
Runtime == ListApprovals \/ \E v \in Requests : AskApproval(v) \/ RequestDue(v)
Stream  == Connect \/ Disconnect \/ (\E o \in Ops : SendControl(o)) \/ (\E k \in acks : ReceiveAck(k))
Control == Perform \/ RefuseUnasked \/ FinishControl \/ \E o \in Ops : TakeControl(o)
World   == AssignAttempt \/ RunMoves \/ SessionKnown \/ ReleaseAttempt \/ JobMoves \/ RestartWorker

Next == Writer \/ Runtime \/ Stream \/ Control \/ World
Spec == Init /\ [][Next]_vars

\* The Worker reconnects, its receive loop goes on, and the stream does not break
\* every time before a command is sent, taken or its acknowledgement received.
FairSpec ==
    /\ Spec
    /\ WF_vars(Connect) /\ WF_vars(Perform) /\ WF_vars(FinishControl)
    /\ \A o \in Ops :
         /\ SF_vars(SendControl(o)) /\ SF_vars(TakeControl(o))
         /\ SF_vars(\E k \in acks : k.op = o /\ ReceiveAck(k))

-----------------------------------------------------------------------------
\* The Runtime is asked to perform an operation at most once, whatever is resubmitted,
\* redelivered, interrupted or forgotten (control_execution.go executeControl).
AtMostOnce == \A o \in Ops : asked[o] <= 1

IsDecision(o, v) == op[o].body.kind = "approval" /\ op[o].body.req = v

\* Of the operations that decide one version of an approval request only one is ever
\* dispatched, though two writers may both have passed every check before it
\* (the lease and approval.go are checked outside the dispatching transaction).
OneDecision ==
    \A v \in Requests :
        \A o, p \in Ops : IsDecision(o, v) /\ IsDecision(p, v) /\ cmd[o] # "none" /\ cmd[p] # "none" => o = p

\* A COMPLETED receipt is true: the Runtime was asked exactly once, and the approval it
\* decides has that decision; and an approval is decided only by such a receipt.
ReceiptIsTrue ==
    /\ \A o \in Ops : op[o].state = "COMPLETED" =>
         /\ asked[o] = 1
         /\ op[o].body.kind = "approval" => apr[op[o].body.req].state = Decided(op[o].body.dec)
    /\ \A v \in Requests : apr[v].state \in {"ACCEPTED", "REJECTED"} =>
         \E o \in Ops : IsDecision(o, v) /\ op[o].state = "COMPLETED"

\* No acknowledgement in flight contradicts a final receipt: after redeliveries, broken
\* streams and restarts the Worker still tells the same story (applyControlAck in
\* control_dispatch.go would answer OPERATION_CONFLICT and drop the whole session).
NoConflict ==
    \A k \in acks : op[k.op].state \in Final => AckRepeats(k)

\* agent-control-protocol-plan.md:272, a reserved decision keeps expiry away, so a late
\* acknowledgement does not find the request EXPIRED or decided otherwise.
ReservationHolds ==
    [][\A v \in Requests : apr[v].dec # "" =>
         apr'[v].dec = apr[v].dec /\ (apr'[v].state = "EXPIRED" => apr[v].state = "EXPIRED")]_vars

\* agent-control-protocol-plan.md:216, "structured final ACK -> durable receipt": once the
\* Worker knows how an operation ended, the receipt says so, as long as the Attempt is
\* current and its Worker process lives.
FinalAckIsRecorded ==
    \A o \in Ops :
        op[o].state = "DISPATCHED" /\ ledger[o].state \in Final
          ~> op[o].state \in Final \/ ~IsCurrent(o) \/ task.epoch # epoch
-----------------------------------------------------------------------------
(* The inductive invariant behind the safety properties (ControlProofs).   *)

\* Claiming an operation in the Worker's ledger comes before asking the Runtime, and
\* only the receive loop that claimed it asks.
ClaimOK ==
    /\ \A o \in Ops :
         /\ asked[o] <= 1
         /\ ledger[o].state = "none" => asked[o] = 0
         /\ ledger[o].state = "COMPLETED" => asked[o] = 1
    /\ exec.result = "none" => exec.op = Nobody
    /\ exec.result # "none" => exec.op \in Ops /\ ledger[exec.op].state = "EXECUTING"
    /\ exec.result = "claimed" => asked[exec.op] = 0
    /\ exec.result = "COMPLETED" => asked[exec.op] = 1

\* An execution was interrupted, and its receive loop is gone: it stays unverified.
Unverified(o) == ledger[o].state \in {"EXECUTING", "UNKNOWN"} /\ exec.op # o

\* Commands, acknowledgements and final receipts agree with the ledger.
StoryOK ==
    /\ \A o \in Ops : o \in wire \/ ledger[o].state # "none" => cmd[o] # "none"
    /\ \A k \in acks : IF k.result \in Final
                        THEN ledger[k.op].state = k.result /\ ledger[k.op].code = k.code
                        ELSE Unverified(k.op)
    /\ \A o \in Ops : op[o].state \in Final =>
         IF ledger[o].state \in Final
         THEN op[o].state = ledger[o].state /\ op[o].code = ledger[o].code
         ELSE Unverified(o) /\ op[o].state = "REJECTED" /\ op[o].code = "EXECUTION_UNVERIFIABLE"

BodyOK(b) == b.kind = "approval" => b.req \in Requests /\ b.dec \in Choices

\* A request in progress works on the receipt with its own body, and a dispatched
\* decision is the one reserved on its approval request.
ReserveOK ==
    /\ \A c \in Clients :
         /\ call[c].at # "idle" => call[c].op \in Ops /\ BodyOK(call[c].body)
         /\ call[c].at = "accepted" => /\ op[call[c].op].state # "none"
                                       /\ op[call[c].op].body = call[c].body
    /\ \A o \in Ops :
         /\ op[o].state # "none" => BodyOK(op[o].body)
         /\ cmd[o] # "none" => op[o].state \notin {"none", "ACCEPTED"}
         /\ cmd[o] # "none" /\ op[o].body.kind = "approval" =>
              apr[op[o].body.req].dec = op[o].body.dec
    /\ \A v \in Requests : apr[v].state = "none" => apr[v].dec = ""

\* All of it: claims, stories, reservations and receipts of control operations
\* (executeControl, applyControlAck, dispatchControlOperation).
ControlInv == TypeOK /\ ClaimOK /\ StoryOK /\ ReserveOK /\ OneDecision /\ ReceiptIsTrue
=============================================================================
