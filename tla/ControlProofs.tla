--------------------------- MODULE ControlProofs ---------------------------
(***************************************************************************)
(* Proofs that the invariants of ControlOperations hold for every number    *)
(* of operations, clients, Attempts, approval versions and Worker restarts. *)
(***************************************************************************)
EXTENDS ControlOperations, TLAPS

\* Parts whose variables a step leaves alone.
LEMMA ClaimFrame ==
  ASSUME ClaimOK, UNCHANGED <<asked, ledger, exec>> PROVE ClaimOK'
BY DEF ClaimOK

\* Commands, acknowledgements and receipts, likewise.
LEMMA StoryFrame ==
  ASSUME StoryOK, UNCHANGED <<wire, ledger, cmd, acks, exec, op>> PROVE StoryOK'
BY DEF StoryOK, Unverified

\* Requests in progress and reservations, likewise.
LEMMA ReserveFrame ==
  ASSUME ReserveOK, UNCHANGED <<call, op, cmd, apr>> PROVE ReserveOK'
BY DEF ReserveOK

\* Dispatched decisions, likewise.
LEMMA DecisionFrame ==
  ASSUME OneDecision, UNCHANGED <<op, cmd>> PROVE OneDecision'
BY DEF OneDecision, IsDecision

\* Receipts, likewise.
LEMMA ReceiptFrame ==
  ASSUME ReceiptIsTrue, UNCHANGED <<op, asked, apr>> PROVE ReceiptIsTrue'
BY DEF ReceiptIsTrue, IsDecision

\* A step that touches none of the variables the invariant relates.
LEMMA OutsideFrame ==
  ASSUME ControlInv, TypeOK',
         UNCHANGED <<op, cmd, apr, call, wire, acks, ledger, exec, asked>>
  PROVE  ControlInv'
BY ClaimFrame, StoryFrame, ReserveFrame, DecisionFrame, ReceiptFrame DEF ControlInv

-----------------------------------------------------------------------------
(* The write lease, and what changes underneath.                           *)

\* acquireControlWriteLease() and the end of a lease.
LEMMA LeaseKeeps ==
  ASSUME ControlInv, NEW c \in Clients, Acquire(c) \/ LeaseEnds(c)
  PROVE  ControlInv'
<1>1. TypeOK'
  BY DEF ControlInv, TypeOK, Acquire, LeaseEnds, dbVars, pipeVars, wrkVars
<1>2. UNCHANGED <<op, cmd, apr, call, wire, acks, ledger, exec, asked>>
  BY DEF Acquire, LeaseEnds, dbVars, pipeVars, wrkVars
<1>3. QED BY <1>1, <1>2, OutsideFrame

\* Assignment, the run, its session, the Job and a new stream.
LEMMA WorldKeeps ==
  ASSUME ControlInv,
         AssignAttempt \/ RunMoves \/ SessionKnown \/ JobMoves \/ Connect
  PROVE  ControlInv'
<1>. USE DEF dbVars, envVars, pipeVars, wrkVars
<1>1. UNCHANGED <<op, cmd, apr, call, wire, acks, ledger, exec, asked>>
  BY DEF AssignAttempt, RunMoves, SessionKnown, JobMoves, Connect
<1>2. TypeOK'
  <2>0. TypeOK BY DEF ControlInv
  <2>1. CASE AssignAttempt
    <3>1. task' \in TaskRows BY <2>0, <2>1, ControlAssumption DEF AssignAttempt, TypeOK, TaskRows
    <3>2. row' \in RunRows BY <2>1 DEF AssignAttempt, NoRow, RunRows
    <3>3. QED BY <2>0, <2>1, <3>1, <3>2 DEF AssignAttempt, TypeOK
  <2>2. CASE RunMoves
    <3>1. row' \in RunRows BY <2>0, <2>2 DEF RunMoves, TypeOK, NoRow, RunRows, DoneStates
    <3>2. QED BY <2>0, <2>2, <3>1 DEF RunMoves, TypeOK
  <2>3. CASE SessionKnown
    <3>1. task' \in TaskRows BY <2>0, <2>3 DEF SessionKnown, TypeOK, TaskRows
    <3>2. QED BY <2>0, <2>3, <3>1 DEF SessionKnown, TypeOK
  <2>5. CASE JobMoves
    <3>1. job' \in JobRows BY <2>0, <2>5, ControlAssumption DEF JobMoves, TypeOK, JobRows
    <3>2. QED BY <2>0, <2>5, <3>1 DEF JobMoves, TypeOK
  <2>6. CASE Connect
    BY <2>0, <2>6 DEF Connect, TypeOK
  <2>7. QED BY <2>1, <2>2, <2>3, <2>5, <2>6
<1>3. QED BY <1>1, <1>2, OutsideFrame

-----------------------------------------------------------------------------
(* The request handler.                                                    *)

\* Expiry touches nothing but the state of a request that nobody has decided.
LEMMA ExpiredRows ==
  ASSUME TypeOK
  PROVE  /\ Expired \in [Requests -> ApprovalRows]
         /\ \A v \in Requests :
              /\ Expired[v].dec = apr[v].dec
              /\ Expired[v].state = apr[v].state \/ (apr[v].state = "PENDING" /\ Expired[v].state = "EXPIRED")
<1>1. ASSUME NEW v \in Requests
      PROVE  /\ Expired[v] \in ApprovalRows
             /\ Expired[v].dec = apr[v].dec
             /\ Expired[v].state = apr[v].state \/ (apr[v].state = "PENDING" /\ Expired[v].state = "EXPIRED")
  BY <1>1 DEF Expired, TypeOK, ApprovalRows
<1>2. Expired \in [Requests -> ApprovalRows]
  BY <1>1 DEF Expired
<1>3. QED BY <1>1, <1>2

\* A step that changes approval requests only by superseding, expiring or ageing
\* undecided ones, or asking a new one.
LEMMA ApprovalsMove ==
  ASSUME ReserveOK, ReceiptIsTrue, UNCHANGED <<op, asked, cmd>>,
         \A v \in Requests :
           \/ /\ apr'[v].dec = apr[v].dec
              /\ apr'[v].state = apr[v].state \/ (apr[v].state = "PENDING" /\ apr'[v].state \in {"EXPIRED", "SUPERSEDED"})
           \/ apr[v].state = "none" /\ apr'[v].state = "PENDING" /\ apr'[v].dec = ""
  PROVE  /\ ReceiptIsTrue'
         /\ \A o \in Ops : cmd'[o] # "none" /\ op'[o].body.kind = "approval" => apr'[op'[o].body.req].dec = op'[o].body.dec
         /\ \A v \in Requests : apr'[v].state = "none" => apr'[v].dec = ""
<1>1. ASSUME NEW o \in Ops, op[o].state = "COMPLETED", op[o].body.kind = "approval"
      PROVE  apr'[op[o].body.req].state = Decided(op[o].body.dec)
  <2>1. op[o].body.req \in Requests
    BY <1>1 DEF ReserveOK, BodyOK
  <2>2. apr[op[o].body.req].state = Decided(op[o].body.dec)
    BY <1>1 DEF ReceiptIsTrue
  <2>3. QED BY <2>1, <2>2 DEF Decided
<1>2. ASSUME NEW v \in Requests, apr'[v].state \in {"ACCEPTED", "REJECTED"}
      PROVE  \E o \in Ops : IsDecision(o, v) /\ op[o].state = "COMPLETED"
  <2>1. apr[v].state \in {"ACCEPTED", "REJECTED"}
    BY <1>2
  <2>2. QED BY <2>1 DEF ReceiptIsTrue
<1>3. ReceiptIsTrue'
  BY ZenonT(60), <1>1, <1>2 DEF ReceiptIsTrue, IsDecision
<1>4. ASSUME NEW o \in Ops, cmd[o] # "none", op[o].body.kind = "approval"
      PROVE  apr'[op[o].body.req].dec = op[o].body.dec
  <2>1. op[o].state # "none" /\ apr[op[o].body.req].dec = op[o].body.dec
    BY <1>4 DEF ReserveOK
  <2>2. op[o].body.req \in Requests /\ op[o].body.dec \in Choices
    BY <1>4, <2>1 DEF ReserveOK, BodyOK
  <2>3. op[o].body.dec # ""
    BY <2>2, ControlAssumption
  <2>4. apr[op[o].body.req].state # "none"
    BY <2>1, <2>2, <2>3 DEF ReserveOK
  <2>5. QED BY <2>1, <2>2, <2>4
<1>5. QED BY <1>3, <1>4 DEF ReserveOK

\* The checks of acceptAndDispatchControlOperation().
LEMMA BeginKeeps ==
  ASSUME ControlInv, NEW c \in Clients, NEW o \in Ops, NEW b \in NewBodies, Begin(c, o, b)
  PROVE  ControlInv'
<1>. USE DEF envVars, pipeVars, wrkVars
<1>0. TypeOK /\ ReserveOK /\ ReceiptIsTrue BY DEF ControlInv
<1>1. /\ UNCHANGED <<lease, task, job, op, cmd, link, wire, acks, epoch, row, ledger, exec, asked>>
      /\ call' = [call EXCEPT ![c] = [at |-> "begun", op |-> o, body |-> b]]
      /\ apr' = Expired \/ apr' = apr
  BY DEF Begin
<1>2. b \in Bodies /\ BodyOK(b)
  <2>1. task.gen \in 0 .. MaxGen /\ job.ver \in 0 .. MaxVersion
    BY <1>0 DEF TypeOK, TaskRows, JobRows
  <2>2. b \in Bodies
    BY <2>1, ControlAssumption DEF NewBodies, Bodies
  <2>3. BodyOK(b)
    <3>1. b.kind = "approval" => b.req \in 0 .. MaxRequest /\ b.req # 0 /\ b.dec \in Choices
      BY DEF NewBodies
    <3>2. QED BY <3>1, ControlAssumption DEF BodyOK, Requests
  <2>4. QED BY <2>2, <2>3
<1>3. /\ apr' \in [Requests -> ApprovalRows]
      /\ \A v \in Requests :
              /\ apr'[v].dec = apr[v].dec
              /\ apr'[v].state = apr[v].state \/ (apr[v].state = "PENDING" /\ apr'[v].state = "EXPIRED")
  BY <1>0, <1>1, ExpiredRows DEF TypeOK
<1>4. call' \in [Clients -> Calls]
  BY <1>0, <1>1, <1>2 DEF TypeOK, Calls
<1>5. TypeOK'
  BY <1>0, <1>1, <1>3, <1>4 DEF TypeOK
<1>6. /\ ReceiptIsTrue'
      /\ \A p \in Ops : cmd'[p] # "none" /\ op'[p].body.kind = "approval" => apr'[op'[p].body.req].dec = op'[p].body.dec
      /\ \A v \in Requests : apr'[v].state = "none" => apr'[v].dec = ""
  BY <1>0, <1>1, <1>3, ApprovalsMove
<1>7. ASSUME NEW e \in Clients
      PROVE /\ call'[e].at # "idle" => call'[e].op \in Ops /\ BodyOK(call'[e].body)
            /\ call'[e].at = "accepted" => op'[call'[e].op].state # "none" /\ op'[call'[e].op].body = call'[e].body
  <2>1. CASE e = c BY <1>0, <1>1, <1>2, <2>1 DEF TypeOK
  <2>2. CASE e # c BY <1>0, <1>1, <2>2 DEF TypeOK, ReserveOK
  <2>3. QED BY <2>1, <2>2
<1>8. ReserveOK'
  BY <1>0, <1>1, <1>6, <1>7 DEF ReserveOK, BodyOK
<1>9. QED
  BY <1>1, <1>5, <1>6, <1>8, ClaimFrame, StoryFrame, DecisionFrame DEF ControlInv

\* The state between two requests.
LEMMA NoCallType == NoCall \in Calls
BY ControlAssumption DEF NoCall, NoBody, Calls, Bodies

\* A request moves on or ends, and nothing else changes.
LEMMA CallKeeps ==
  ASSUME ControlInv, NEW c \in Clients,
         UNCHANGED <<lease, task, job, op, cmd, apr, link, wire, acks, epoch, row, ledger, exec, asked>>,
         \/ call[c].at = "begun" /\ call' = [call EXCEPT ![c].at = "able"]
         \/ call' = [call EXCEPT ![c] = NoCall]
  PROVE  ControlInv'
<1>0. TypeOK /\ ReserveOK BY DEF ControlInv
<1>1. NoCall \in Calls BY NoCallType
<1>2. call' \in [Clients -> Calls]
  BY <1>0, <1>1 DEF TypeOK, Calls
<1>3. TypeOK'
  BY <1>0, <1>2 DEF TypeOK
<1>4. ASSUME NEW e \in Clients
      PROVE  /\ call'[e].at # "idle" => call[e].at # "idle" /\ call'[e].op = call[e].op /\ call'[e].body = call[e].body
             /\ call'[e].at = "accepted" => call[e].at = "accepted"
  BY <1>0 DEF TypeOK, Calls, NoCall
<1>5. ReserveOK'
  BY ZenonT(60), <1>0, <1>4 DEF ReserveOK, BodyOK
<1>6. QED
  BY <1>3, <1>5, ClaimFrame, StoryFrame, DecisionFrame, ReceiptFrame DEF ControlInv

\* workerHasControlCapability(), and a request that ends.
LEMMA CheckKeeps ==
  ASSUME ControlInv, NEW c \in Clients, CheckCapability(c) \/ CallEnds(c)
  PROVE  ControlInv'
<1>1. UNCHANGED <<lease, task, job, op, cmd, apr, link, wire, acks, epoch, row, ledger, exec, asked>>
  BY DEF CheckCapability, CallEnds, envVars, dbVars, pipeVars, wrkVars
<1>2. \/ call[c].at = "begun" /\ call' = [call EXCEPT ![c].at = "able"]
      \/ call' = [call EXCEPT ![c] = NoCall]
  BY DEF CheckCapability, CallEnds, Moves
<1>3. QED BY <1>1, <1>2, CallKeeps

\* acceptControlOperation(): the operation was not dispatched before.
LEMMA AcceptKeeps ==
  ASSUME ControlInv, NEW c \in Clients, Accept(c)
  PROVE  ControlInv'
<1>. DEFINE o == call[c].op
            b == call[c].body
<1>0. TypeOK /\ StoryOK /\ ReserveOK /\ OneDecision /\ ReceiptIsTrue BY DEF ControlInv
<1>1. /\ UNCHANGED <<lease, task, job, cmd, apr, link, wire, acks, epoch, row, ledger, exec, asked>>
      /\ call' = [call EXCEPT ![c].at = "accepted"]
      /\ call[c].at = "able"
  BY DEF Accept, Moves, envVars, pipeVars, wrkVars
<1>2. o \in Ops /\ BodyOK(b) /\ b \in Bodies
  BY <1>0, <1>1 DEF ReserveOK, TypeOK, Calls
<1>3. \/ op[o].state = "none" /\ op' = [op EXCEPT ![o] = [state |-> "ACCEPTED", body |-> b, code |-> ""]]
      \/ op[o].state # "none" /\ op[o].body = b /\ op' = op
  BY DEF Accept
<1>4. call' \in [Clients -> Calls] /\ op' \in [Ops -> Receipts]
  <2>1. call' \in [Clients -> Calls]
    BY <1>0, <1>1 DEF TypeOK, Calls
  <2>2. [state |-> "ACCEPTED", body |-> b, code |-> ""] \in Receipts
    BY <1>2 DEF Receipts, Codes
  <2>3. QED BY <1>0, <1>2, <1>3, <2>1, <2>2 DEF TypeOK
<1>5. TypeOK'
  BY <1>0, <1>1, <1>4 DEF TypeOK
<1>6. /\ op'[o].state # "none" /\ op'[o].body = b
      /\ \A p \in Ops : op'[p] = op[p] \/ (p = o /\ op[o].state = "none" /\ op'[o].state = "ACCEPTED" /\ cmd[o] = "none")
  <2>1. op[o].state = "none" => cmd[o] = "none"
    BY <1>0, <1>2 DEF ReserveOK
  <2>2. CASE op[o].state = "none"
    <3>1. op' = [op EXCEPT ![o] = [state |-> "ACCEPTED", body |-> b, code |-> ""]]
      BY <1>3, <2>2
    <3>2. QED BY <1>0, <1>2, <2>1, <2>2, <3>1 DEF TypeOK
  <2>3. CASE op[o].state # "none"
    BY <1>3, <2>3
  <2>4. QED BY <2>2, <2>3
<1>. HIDE DEF o, b
<1>7. StoryOK'
  BY <1>0, <1>1, <1>6 DEF StoryOK, Unverified, Final
<1>8. ReserveOK'
  <2>1. ASSUME NEW e \in Clients
        PROVE /\ call'[e].at # "idle" => call'[e].op \in Ops /\ BodyOK(call'[e].body)
              /\ call'[e].at = "accepted" => op'[call'[e].op].state # "none" /\ op'[call'[e].op].body = call'[e].body
    <3>1. CASE e = c
      <4>1. call'[e].op = o /\ call'[e].body = b
        BY <1>0, <1>1, <3>1 DEF TypeOK, Calls, o, b
      <4>2. QED BY <4>1, <1>2, <1>6
    <3>2. CASE e # c
      <4>1. call'[e] = call[e]
        BY <1>0, <1>1, <3>2 DEF TypeOK
      <4>2. call[e].at = "accepted" => op[call[e].op].state # "none" /\ op[call[e].op].body = call[e].body
        BY <1>0 DEF ReserveOK
      <4>3. call[e].at # "idle" => call[e].op \in Ops /\ BodyOK(call[e].body)
        BY <1>0 DEF ReserveOK
      <4>4. QED BY <4>1, <4>2, <4>3, <1>6
    <3>3. QED BY <3>1, <3>2
  <2>2. ASSUME NEW p \in Ops
        PROVE /\ op'[p].state # "none" => BodyOK(op'[p].body)
              /\ cmd'[p] # "none" => op'[p].state \notin {"none", "ACCEPTED"}
              /\ cmd'[p] # "none" /\ op'[p].body.kind = "approval" => apr'[op'[p].body.req].dec = op'[p].body.dec
    BY <1>0, <1>1, <1>2, <1>6 DEF ReserveOK
  <2>3. QED BY <1>0, <1>1, <2>1, <2>2 DEF ReserveOK, BodyOK
<1>9. OneDecision'
  BY <1>0, <1>1, <1>6 DEF OneDecision, IsDecision
<1>10. ReceiptIsTrue'
  <2>1. \A p \in Ops : op'[p].state = "COMPLETED" => op'[p] = op[p]
    BY <1>6
  <2>2. \A p \in Ops : op[p].state = "COMPLETED" => op'[p] = op[p]
    BY <1>6
  <2>3. QED BY <1>0, <1>1, <2>1, <2>2 DEF ReceiptIsTrue, IsDecision
<1>11. QED
  BY <1>1, <1>5, <1>7, <1>8, <1>9, <1>10, ClaimFrame DEF ControlInv

\* dispatchControlOperation(): whoever reserves finds no other decision dispatched,
\* since a dispatched one is the decision of its request.
LEMMA DispatchKeeps ==
  ASSUME ControlInv, NEW c \in Clients, Dispatch(c)
  PROVE  ControlInv'
<1>. DEFINE o == call[c].op
            b == call[c].body
<1>0. TypeOK /\ StoryOK /\ ReserveOK /\ OneDecision /\ ReceiptIsTrue BY DEF ControlInv
<1>1. /\ UNCHANGED <<lease, task, job, link, wire, acks, epoch, row, ledger, exec, asked>>
      /\ call' = [call EXCEPT ![c] = NoCall]
      /\ call[c].at = "accepted"
  BY DEF Dispatch, envVars, pipeVars, wrkVars
<1>2. CASE op[o].state # "ACCEPTED"
  BY <1>1, <1>2, CallKeeps DEF Dispatch, dbVars
<1>3. CASE op[o].state = "ACCEPTED"
  <2>1. o \in Ops /\ BodyOK(b) /\ op[o].body = b /\ cmd[o] = "none"
    BY <1>0, <1>1, <1>3 DEF ReserveOK
  <2>2. /\ b.kind = "approval" => Undecided(apr[b.req], b)
        /\ apr' = IF b.kind = "approval" THEN [apr EXCEPT ![b.req].dec = b.dec] ELSE apr
        /\ op' = [op EXCEPT ![o].state = "DISPATCHED"]
        /\ cmd' = [cmd EXCEPT ![o] = "pending"]
    BY <1>3 DEF Dispatch
  <2>3. /\ \A p \in Ops : /\ p # o => op'[p] = op[p] /\ cmd'[p] = cmd[p]
                          /\ op'[p].body = op[p].body
        /\ op'[o].state = "DISPATCHED" /\ cmd'[o] = "pending"
        /\ op' \in [Ops -> Receipts] /\ cmd' \in [Ops -> {"none", "pending", "acked"}]
    BY <1>0, <2>1, <2>2 DEF TypeOK, Receipts
  <2>4. /\ apr' \in [Requests -> ApprovalRows]
        /\ \A v \in Requests : /\ apr'[v].state = apr[v].state
                               /\ b.kind # "approval" \/ v # b.req => apr'[v] = apr[v]
        /\ b.kind = "approval" => /\ b.req \in Requests /\ b.dec \in Choices
                                  /\ apr[b.req].dec = "" /\ apr[b.req].state = "PENDING"
                                  /\ apr'[b.req].dec = b.dec
    BY ZenonT(60), <1>0, <2>1, <2>2 DEF TypeOK, ApprovalRows, BodyOK, Undecided
  <2>5. call' \in [Clients -> Calls]
    BY <1>0, <1>1, NoCallType DEF TypeOK
  <2>6. TypeOK'
    BY <1>0, <1>1, <2>3, <2>4, <2>5 DEF TypeOK
  <2>7. \A e \in Clients : call'[e] = call[e] \/ call'[e].at = "idle"
    BY <1>0, <1>1 DEF TypeOK, NoCall
  <2>8. \A p \in Ops : cmd[p] # "none" /\ op[p].body.kind = "approval" /\ b.kind = "approval" => op[p].body.req # b.req
    <3>1. SUFFICES ASSUME NEW p \in Ops, cmd[p] # "none", op[p].body.kind = "approval", b.kind = "approval",
                          op[p].body.req = b.req
                   PROVE  FALSE
      OBVIOUS
    <3>2. op[p].body.dec \in Choices /\ apr[b.req].dec = op[p].body.dec
      BY <1>0, <3>1 DEF ReserveOK, BodyOK
    <3>3. QED BY <2>4, <3>1, <3>2, ControlAssumption
  <2>. HIDE DEF o, b
  <2>9. StoryOK'
    BY <1>0, <1>1, <1>3, <2>1, <2>3 DEF StoryOK, Unverified, Final
  <2>10. ReserveOK'
    <3>1. ASSUME NEW e \in Clients
          PROVE /\ call'[e].at # "idle" => call'[e].op \in Ops /\ BodyOK(call'[e].body)
                /\ call'[e].at = "accepted" => op'[call'[e].op].state # "none" /\ op'[call'[e].op].body = call'[e].body
      <4>1. CASE call'[e].at = "idle" BY <4>1
      <4>2. CASE call'[e] = call[e]
        <5>1. /\ call[e].at # "idle" => call[e].op \in Ops /\ BodyOK(call[e].body)
              /\ call[e].at = "accepted" => op[call[e].op].state # "none" /\ op[call[e].op].body = call[e].body
          BY <1>0 DEF ReserveOK
        <5>2. \A p \in Ops : op[p].state # "none" => op'[p].state # "none"
          BY <2>3
        <5>3. QED BY <2>3, <4>2, <5>1, <5>2
      <4>3. QED BY <2>7, <4>1, <4>2
    <3>2. ASSUME NEW p \in Ops
          PROVE /\ op'[p].state # "none" => BodyOK(op'[p].body)
                /\ cmd'[p] # "none" => op'[p].state \notin {"none", "ACCEPTED"}
                /\ cmd'[p] # "none" /\ op'[p].body.kind = "approval" => apr'[op'[p].body.req].dec = op'[p].body.dec
      <4>1. CASE p = o
        BY <2>1, <2>3, <2>4, <4>1
      <4>2. CASE p # o
        <5>1. op'[p] = op[p] /\ cmd'[p] = cmd[p]
          BY <2>3, <4>2
        <5>2. ASSUME cmd[p] # "none", op[p].body.kind = "approval"
              PROVE  apr'[op[p].body.req].dec = op[p].body.dec
          <6>1. apr[op[p].body.req].dec = op[p].body.dec /\ op[p].body.req \in Requests
            BY <1>0, <5>2 DEF ReserveOK, BodyOK
          <6>2. QED BY <6>1, <2>4, <2>8, <5>2
        <5>3. QED BY <1>0, <5>1, <5>2 DEF ReserveOK
      <4>3. QED BY <4>1, <4>2
    <3>3. ASSUME NEW v \in Requests, apr'[v].state = "none" PROVE apr'[v].dec = ""
      BY <1>0, <2>4, <3>3 DEF ReserveOK
    <3>4. QED BY <3>1, <3>2, <3>3 DEF ReserveOK, BodyOK
  <2>11. OneDecision'
    <3>1. SUFFICES ASSUME NEW v \in Requests, NEW p \in Ops, NEW r \in Ops,
                          IsDecision(p, v)', IsDecision(r, v)', cmd'[p] # "none", cmd'[r] # "none"
                   PROVE  p = r
      BY DEF OneDecision
    <3>2. /\ op[p].body.kind = "approval" /\ op[p].body.req = v
          /\ op[r].body.kind = "approval" /\ op[r].body.req = v
      BY <2>3, <3>1 DEF IsDecision
    <3>3. CASE p # o /\ r # o
      BY <1>0, <2>3, <3>1, <3>2, <3>3 DEF OneDecision, IsDecision
    <3>4. CASE p = o /\ r # o
      BY <2>1, <2>3, <2>8, <3>1, <3>2, <3>4
    <3>5. CASE p # o /\ r = o
      BY <2>1, <2>3, <2>8, <3>1, <3>2, <3>5
    <3>6. QED BY <3>3, <3>4, <3>5
  <2>12. ReceiptIsTrue'
    <3>1. \A p \in Ops : op'[p].state = "COMPLETED" => op'[p] = op[p]
      BY <2>3
    <3>2. \A p \in Ops : op[p].state = "COMPLETED" => op'[p] = op[p]
      BY <1>3, <2>3 DEF o
    <3>3. \A p \in Ops : op[p].state = "COMPLETED" /\ op[p].body.kind = "approval" => op[p].body.req \in Requests
      BY <1>0 DEF ReserveOK, BodyOK
    <3>4. ASSUME NEW p \in Ops, op'[p].state = "COMPLETED"
          PROVE  asked'[p] = 1 /\ (op'[p].body.kind = "approval" => apr'[op'[p].body.req].state = Decided(op'[p].body.dec))
      <4>1. op'[p] = op[p] /\ op[p].state = "COMPLETED" BY <3>1, <3>4
      <4>2. asked[p] = 1 /\ (op[p].body.kind = "approval" => apr[op[p].body.req].state = Decided(op[p].body.dec))
        BY <1>0, <4>1 DEF ReceiptIsTrue
      <4>3. op[p].body.kind = "approval" => apr'[op[p].body.req].state = apr[op[p].body.req].state
        BY <2>4, <3>3, <4>1
      <4>4. QED BY <1>1, <4>1, <4>2, <4>3
    <3>5. ASSUME NEW v \in Requests, apr'[v].state \in {"ACCEPTED", "REJECTED"}
          PROVE  \E p \in Ops : IsDecision(p, v)' /\ op'[p].state = "COMPLETED"
      <4>1. apr[v].state \in {"ACCEPTED", "REJECTED"} BY <2>4, <3>5
      <4>2. PICK p \in Ops : IsDecision(p, v) /\ op[p].state = "COMPLETED" BY <1>0, <4>1 DEF ReceiptIsTrue
      <4>3. QED BY <3>2, <4>2 DEF IsDecision
    <3>6. QED BY <3>4, <3>5 DEF ReceiptIsTrue, IsDecision, Decided
  <2>13. QED
    BY <1>1, <2>6, <2>9, <2>10, <2>11, <2>12, ClaimFrame DEF ControlInv
<1>4. QED BY <1>2, <1>3

-----------------------------------------------------------------------------
(* Approval requests.                                                      *)

\* The same, as a step of the whole invariant.
LEMMA ApprovalsKeep ==
  ASSUME ControlInv, apr' \in [Requests -> ApprovalRows],
         UNCHANGED <<lease, task, job, op, cmd, call, link, wire, acks, epoch, row, ledger, exec, asked>>,
         \A v \in Requests :
           \/ /\ apr'[v].dec = apr[v].dec
              /\ apr'[v].state = apr[v].state \/ (apr[v].state = "PENDING" /\ apr'[v].state \in {"EXPIRED", "SUPERSEDED"})
           \/ apr[v].state = "none" /\ apr'[v].state = "PENDING" /\ apr'[v].dec = ""
  PROVE  ControlInv'
<1>0. TypeOK /\ ReserveOK /\ ReceiptIsTrue BY DEF ControlInv
<1>1. TypeOK' BY <1>0 DEF TypeOK
<1>2. /\ ReceiptIsTrue'
      /\ \A o \in Ops : cmd'[o] # "none" /\ op'[o].body.kind = "approval" => apr'[op'[o].body.req].dec = op'[o].body.dec
      /\ \A v \in Requests : apr'[v].state = "none" => apr'[v].dec = ""
  BY <1>0, ApprovalsMove
<1>3. ReserveOK'
  <2>1. \A o \in Ops : /\ op'[o].state # "none" => BodyOK(op'[o].body)
                       /\ cmd'[o] # "none" => op'[o].state \notin {"none", "ACCEPTED"}
    BY <1>0 DEF ReserveOK
  <2>2. QED BY <1>0, <1>2, <2>1 DEF ReserveOK, BodyOK
<1>4. QED
  BY <1>1, <1>2, <1>3, ClaimFrame, StoryFrame, DecisionFrame DEF ControlInv

\* persistApprovalRequested(), the clock and expireJobApprovals().
LEMMA RuntimeKeeps ==
  ASSUME ControlInv, Runtime
  PROVE  ControlInv'
<1>. USE DEF envVars, pipeVars, wrkVars
<1>0. TypeOK BY DEF ControlInv
<1>1. CASE ListApprovals
  <2>1. /\ apr' = Expired
        /\ UNCHANGED <<lease, task, job, op, cmd, call, link, wire, acks, epoch, row, ledger, exec, asked>>
    BY <1>1 DEF ListApprovals
  <2>2. QED BY <1>0, <2>1, ExpiredRows, ApprovalsKeep
<1>2. ASSUME NEW v \in Requests, AskApproval(v) PROVE ControlInv'
  <2>1. /\ UNCHANGED <<lease, task, job, op, cmd, call, link, wire, acks, epoch, row, ledger, exec, asked>>
        /\ apr[v].state = "none"
        /\ apr' = [u \in Requests |->
                 IF u = v THEN [state |-> "PENDING", dec |-> "", gen |-> task.gen, due |-> FALSE]
                 ELSE IF u < v /\ apr[u].state = "PENDING" THEN [apr[u] EXCEPT !.state = "SUPERSEDED"]
                 ELSE apr[u]]
    BY <1>2 DEF AskApproval
  <2>2. [state |-> "PENDING", dec |-> "", gen |-> task.gen, due |-> FALSE] \in ApprovalRows
    BY <1>0 DEF TypeOK, ApprovalRows, TaskRows
  <2>3. ASSUME NEW u \in Requests
        PROVE  /\ apr'[u] \in ApprovalRows
               /\ \/ /\ apr'[u].dec = apr[u].dec
                     /\ apr'[u].state = apr[u].state \/ (apr[u].state = "PENDING" /\ apr'[u].state \in {"EXPIRED", "SUPERSEDED"})
                  \/ apr[u].state = "none" /\ apr'[u].state = "PENDING" /\ apr'[u].dec = ""
    <3>1. CASE u = v BY <2>1, <2>2, <3>1
    <3>2. CASE u # v /\ u < v /\ apr[u].state = "PENDING"
      <4>1. apr'[u] = [apr[u] EXCEPT !.state = "SUPERSEDED"] BY <2>1, <3>2
      <4>2. QED BY <1>0, <3>2, <4>1 DEF TypeOK, ApprovalRows
    <3>3. CASE u # v /\ ~(u < v /\ apr[u].state = "PENDING")
      <4>1. apr'[u] = apr[u] BY <2>1, <3>3
      <4>2. QED BY <1>0, <4>1 DEF TypeOK
    <3>4. QED BY <3>1, <3>2, <3>3
  <2>4. apr' \in [Requests -> ApprovalRows]
    BY <2>1, <2>3
  <2>5. QED BY <2>1, <2>3, <2>4, ApprovalsKeep
<1>3. ASSUME NEW v \in Requests, RequestDue(v) PROVE ControlInv'
  <2>1. /\ UNCHANGED <<lease, task, job, op, cmd, call, link, wire, acks, epoch, row, ledger, exec, asked>>
        /\ apr' = [apr EXCEPT ![v].due = TRUE]
    BY <1>3 DEF RequestDue
  <2>2. /\ apr' \in [Requests -> ApprovalRows]
        /\ \A u \in Requests : apr'[u].dec = apr[u].dec /\ apr'[u].state = apr[u].state
    BY <1>0, <2>1 DEF TypeOK, ApprovalRows
  <2>3. QED BY <2>1, <2>2, ApprovalsKeep
<1>4. QED BY <1>1, <1>2, <1>3 DEF Runtime

-----------------------------------------------------------------------------
(* Delivery and execution.                                                 *)

\* The stream is gone with what was on it, or a command is taken off it: less to
\* account for.
LEMMA StreamShrinks ==
  ASSUME StoryOK, wire' \subseteq wire, acks' \subseteq acks, UNCHANGED <<ledger, cmd, exec, op>>
  PROVE  StoryOK'
BY DEF StoryOK, Unverified

\* The stream breaks.
LEMMA DisconnectKeeps ==
  ASSUME ControlInv, Disconnect
  PROVE  ControlInv'
<1>1. /\ UNCHANGED <<lease, task, job, op, cmd, apr, call, epoch, row, ledger, exec, asked>>
      /\ link' = FALSE /\ wire' = {} /\ acks' = {}
  BY DEF Disconnect, Broken, envVars, dbVars, wrkVars
<1>2. TypeOK' BY <1>1 DEF ControlInv, TypeOK
<1>3. StoryOK' BY <1>1, StreamShrinks DEF ControlInv
<1>4. QED
  BY <1>1, <1>2, <1>3, ClaimFrame, ReserveFrame, DecisionFrame, ReceiptFrame DEF ControlInv

\* Commands are sent or dropped: nothing is queued that was not, or forgotten.
LEMMA CommandsMove ==
  ASSUME ControlInv, TypeOK', UNCHANGED <<op, apr, call, acks, ledger, exec, asked>>,
         \A p \in Ops : /\ p \in wire' => p \in wire \/ cmd[p] # "none"
                        /\ cmd'[p] # "none" <=> cmd[p] # "none"
  PROVE  ControlInv'
<1>0. StoryOK /\ ReserveOK /\ OneDecision BY DEF ControlInv
<1>1. StoryOK'
  <2>1. \A p \in Ops : p \in wire' \/ ledger'[p].state # "none" => cmd'[p] # "none"
    BY <1>0 DEF StoryOK
  <2>2. QED BY <1>0, <2>1 DEF StoryOK, Unverified
<1>2. ReserveOK'
  BY <1>0 DEF ReserveOK
<1>3. OneDecision'
  BY <1>0 DEF OneDecision, IsDecision
<1>4. QED
  BY <1>1, <1>2, <1>3, ClaimFrame, ReceiptFrame DEF ControlInv

\* ConnectWorker's ticker.
LEMMA SendControlKeeps ==
  ASSUME ControlInv, NEW o \in Ops, SendControl(o)
  PROVE  ControlInv'
<1>0. TypeOK BY DEF ControlInv
<1>1. /\ UNCHANGED <<lease, task, job, op, apr, call, link, acks, epoch, row, ledger, exec, asked>>
      /\ cmd[o] = "pending"
      /\ \/ wire' = wire \cup {o} /\ cmd' = cmd
         \/ wire' = wire /\ cmd' = [cmd EXCEPT ![o] = "acked"]
  BY DEF SendControl, envVars, wrkVars
<1>2. /\ cmd' \in [Ops -> {"none", "pending", "acked"}]
      /\ \A p \in Ops : cmd'[p] # "none" <=> cmd[p] # "none"
  BY <1>0, <1>1 DEF TypeOK
<1>3. TypeOK' BY <1>0, <1>1, <1>2 DEF TypeOK
<1>4. QED BY <1>1, <1>2, <1>3, CommandsMove

\* The release of an Attempt drops its commands.
LEMMA ReleaseKeeps ==
  ASSUME ControlInv, ReleaseAttempt
  PROVE  ControlInv'
<1>0. TypeOK BY DEF ControlInv
<1>1. /\ UNCHANGED <<lease, job, op, apr, call, link, wire, acks, epoch, row, ledger, exec, asked>>
      /\ task' = [task EXCEPT !.open = FALSE]
      /\ cmd' = [o \in Ops |-> IF cmd[o] # "none" /\ op[o].body.gen = task.gen THEN "acked" ELSE cmd[o]]
  BY DEF ReleaseAttempt, pipeVars, wrkVars
<1>2. /\ cmd' \in [Ops -> {"none", "pending", "acked"}]
      /\ \A p \in Ops : cmd'[p] # "none" <=> cmd[p] # "none"
  BY <1>0, <1>1 DEF TypeOK
<1>3. task' \in TaskRows BY <1>0, <1>1 DEF TypeOK, TaskRows
<1>4. TypeOK' BY <1>0, <1>1, <1>2, <1>3 DEF TypeOK
<1>5. QED BY <1>1, <1>2, <1>4, CommandsMove

\* One row of the ledger changes, and what is acknowledged with it.
LEMMA TakeControlKeeps ==
  ASSUME ControlInv, NEW o \in Ops, TakeControl(o)
  PROVE  ControlInv'
<1>0. TypeOK /\ ClaimOK /\ StoryOK BY DEF ControlInv
<1>1. /\ UNCHANGED <<lease, task, job, op, cmd, apr, call, epoch, row, asked>>
      /\ o \in wire /\ exec = Idle
  BY DEF TakeControl, envVars, dbVars
<1>2. exec.op = Nobody /\ exec.result = "none" /\ o # Nobody /\ cmd[o] # "none"
  BY <1>0, <1>1, ControlAssumption DEF Idle, StoryOK
<1>3. CASE ledger[o].state # "none"
  <2>1. /\ acks' = acks \cup {Replay(o)} /\ wire' = wire \ {o}
        /\ UNCHANGED <<link, ledger, exec>>
    BY <1>3 DEF TakeControl
  <2>2. /\ Replay(o) \in Acks
        /\ Replay(o).op = o
        /\ IF Replay(o).result \in Final
           THEN ledger[o].state = Replay(o).result /\ ledger[o].code = Replay(o).code
           ELSE ledger[o].state \in {"EXECUTING", "UNKNOWN"}
    BY <1>0, <1>3 DEF Replay, Ack, Acks, TypeOK, LedgerRows, Final, Results, Codes
  <2>3. TypeOK' BY <1>0, <1>1, <2>1, <2>2 DEF TypeOK
  <2>4. StoryOK'
    <3>1. \A k \in acks' : IF k.result \in Final
                           THEN ledger[k.op].state = k.result /\ ledger[k.op].code = k.code
                           ELSE Unverified(k.op)
      BY <1>0, <1>2, <2>1, <2>2 DEF StoryOK, Unverified
    <3>2. QED BY <1>0, <1>1, <2>1, <3>1 DEF StoryOK, Unverified
  <2>5. QED
    BY <1>1, <2>1, <2>3, <2>4, ClaimFrame, ReserveFrame, DecisionFrame, ReceiptFrame DEF ControlInv
<1>4. CASE ledger[o].state = "none" /\ ~HasRun(o)
  <2>1. link' = FALSE /\ wire' = {} /\ acks' = {} /\ UNCHANGED <<ledger, exec>>
    BY <1>4 DEF TakeControl, Broken
  <2>2. TypeOK' BY <1>0, <1>1, <2>1 DEF TypeOK
  <2>3. StoryOK' BY <1>0, <1>1, <2>1, StreamShrinks
  <2>4. QED
    BY <1>1, <2>1, <2>2, <2>3, ClaimFrame, ReserveFrame, DecisionFrame, ReceiptFrame DEF ControlInv
<1>5. CASE ledger[o].state = "none" /\ HasRun(o)
  <2>1. /\ \/ /\ ledger' = [ledger EXCEPT ![o] = [state |-> "REJECTED", code |-> "EXECUTION_UNVERIFIABLE"]]
              /\ acks' = acks \cup {[op |-> o, result |-> "REJECTED", code |-> "EXECUTION_UNVERIFIABLE"]}
              /\ exec' = exec
           \/ /\ ledger' = [ledger EXCEPT ![o] = [state |-> "EXECUTING", code |-> ""]]
              /\ acks' = acks
              /\ exec' = [op |-> o, result |-> "claimed"]
        /\ wire' = wire \ {o} /\ link' = link
    BY <1>5 DEF TakeControl, Record, Ack
  <2>2. /\ \A p \in Ops : p # o => ledger'[p] = ledger[p]
        /\ \/ ledger'[o].state = "REJECTED" /\ ledger'[o].code = "EXECUTION_UNVERIFIABLE" /\ exec' = exec
           \/ ledger'[o].state = "EXECUTING" /\ exec'.op = o /\ exec'.result = "claimed" /\ acks' = acks
        /\ ledger' \in [Ops -> LedgerRows] /\ exec' \in Executions
    <3>1. /\ [state |-> "REJECTED", code |-> "EXECUTION_UNVERIFIABLE"] \in LedgerRows
          /\ [state |-> "EXECUTING", code |-> ""] \in LedgerRows
          /\ [op |-> o, result |-> "claimed"] \in Executions
      BY DEF LedgerRows, Results, Codes, Executions
    <3>2. CASE /\ ledger' = [ledger EXCEPT ![o] = [state |-> "REJECTED", code |-> "EXECUTION_UNVERIFIABLE"]]
               /\ exec' = exec
      BY <1>0, <3>1, <3>2 DEF TypeOK
    <3>3. CASE /\ ledger' = [ledger EXCEPT ![o] = [state |-> "EXECUTING", code |-> ""]]
               /\ exec' = [op |-> o, result |-> "claimed"] /\ acks' = acks
      BY <1>0, <3>1, <3>3 DEF TypeOK
    <3>4. QED BY <2>1, <3>2, <3>3
  <2>3. acks' \in SUBSET Acks
    <3>1. [op |-> o, result |-> "REJECTED", code |-> "EXECUTION_UNVERIFIABLE"] \in Acks
      BY DEF Acks, Results, Codes
    <3>2. QED BY <1>0, <2>1, <3>1 DEF TypeOK
  <2>4. TypeOK'
    BY <1>0, <1>1, <2>1, <2>2, <2>3 DEF TypeOK
  <2>5. asked[o] = 0 BY <1>0, <1>5 DEF ClaimOK
  <2>6. ClaimOK'
    BY <1>0, <1>1, <1>2, <2>2, <2>5 DEF ClaimOK
  <2>7. op[o].state \notin Final /\ \A k \in acks : k.op # o
    <3>1. ~Unverified(o) /\ ledger[o].state \notin Final BY <1>5 DEF Unverified, Final
    <3>2. QED BY <1>0, <3>1 DEF StoryOK, Final
  <2>8. StoryOK'
    <3>1. \A p \in Ops : p \in wire' \/ ledger'[p].state # "none" => cmd'[p] # "none"
      BY <1>0, <1>1, <1>2, <2>1, <2>2 DEF StoryOK
    <3>2. \A p \in Ops : p # o /\ Unverified(p) => Unverified(p)'
      BY <1>2, <2>2 DEF Unverified
    <3>3. ASSUME NEW k \in acks'
          PROVE  IF k.result \in Final
                 THEN ledger'[k.op].state = k.result /\ ledger'[k.op].code = k.code
                 ELSE Unverified(k.op)'
      <4>1. CASE k \in acks
        <5>1. k.op \in Ops /\ k.op # o BY <1>0, <2>7, <4>1 DEF TypeOK, Acks
        <5>2. QED BY <1>0, <2>2, <3>2, <4>1, <5>1 DEF StoryOK
      <4>2. CASE k \notin acks
        <5>1. /\ k = [op |-> o, result |-> "REJECTED", code |-> "EXECUTION_UNVERIFIABLE"]
              /\ ledger' = [ledger EXCEPT ![o] = [state |-> "REJECTED", code |-> "EXECUTION_UNVERIFIABLE"]]
          BY <2>1, <4>2
        <5>2. QED BY <1>0, <5>1 DEF TypeOK, Final
      <4>3. QED BY <4>1, <4>2
    <3>4. ASSUME NEW p \in Ops, op'[p].state \in Final
          PROVE  IF ledger'[p].state \in Final
                 THEN op'[p].state = ledger'[p].state /\ op'[p].code = ledger'[p].code
                 ELSE Unverified(p)' /\ op'[p].state = "REJECTED" /\ op'[p].code = "EXECUTION_UNVERIFIABLE"
      <4>1. p # o /\ op[p].state \in Final BY <1>1, <2>7, <3>4
      <4>2. QED BY <1>0, <1>1, <2>2, <3>2, <4>1 DEF StoryOK
    <3>5. QED BY <3>1, <3>3, <3>4 DEF StoryOK, Final
  <2>9. QED
    BY <1>1, <2>4, <2>6, <2>8, ReserveFrame, DecisionFrame, ReceiptFrame DEF ControlInv
<1>6. QED BY <1>3, <1>4, <1>5

\* The Provider is called: only on a claim, which nobody has acted on.
LEMMA PerformKeeps ==
  ASSUME ControlInv, Perform
  PROVE  ControlInv'
<1>. DEFINE o == exec.op
<1>0. TypeOK /\ ClaimOK /\ StoryOK /\ ReceiptIsTrue BY DEF ControlInv
<1>1. /\ UNCHANGED <<lease, task, job, op, cmd, apr, call, link, wire, acks, epoch, ledger>>
      /\ exec.result = "claimed"
      /\ asked' = [asked EXCEPT ![o] = IF @ = 0 THEN 1 ELSE 2]
      /\ \E result \in Final : exec' = [exec EXCEPT !.result = result]
      /\ row' = row \/ row' = [row EXCEPT !.rt = "RUNNING"]
  BY DEF Perform, envVars, dbVars, pipeVars
<1>2. o \in Ops /\ asked[o] = 0 /\ ledger[o].state = "EXECUTING"
  BY <1>0, <1>1 DEF ClaimOK
<1>3. /\ exec' \in Executions /\ exec'.op = o /\ exec'.result \in Final
  BY <1>0, <1>1 DEF TypeOK, Executions
<1>4. row' \in RunRows
  BY <1>0, <1>1 DEF TypeOK, RunRows
<1>5. /\ asked' \in [Ops -> 0 .. 2]
      /\ asked'[o] = 1 /\ \A p \in Ops : p # o => asked'[p] = asked[p]
  BY <1>0, <1>1, <1>2 DEF TypeOK
<1>6. TypeOK' BY <1>0, <1>1, <1>3, <1>4, <1>5 DEF TypeOK
<1>. HIDE DEF o
<1>7. ClaimOK'
  <2>1. ASSUME NEW p \in Ops
        PROVE  /\ asked'[p] <= 1
               /\ ledger'[p].state = "none" => asked'[p] = 0
               /\ ledger'[p].state = "COMPLETED" => asked'[p] = 1
    <3>1. CASE p = o BY <1>1, <1>2, <1>5, <3>1
    <3>2. CASE p # o BY <1>0, <1>1, <1>5, <3>2 DEF ClaimOK
    <3>3. QED BY <3>1, <3>2
  <2>2. QED BY <1>1, <1>2, <1>3, <1>5, <2>1 DEF ClaimOK, Final
<1>8. StoryOK'
  <2>1. \A p : Unverified(p)' <=> Unverified(p)
    BY <1>1, <1>3 DEF Unverified, o
  <2>2. QED BY <1>0, <1>1, <2>1 DEF StoryOK
<1>9. ReceiptIsTrue'
  <2>1. op[o].state # "COMPLETED" BY <1>0, <1>2 DEF ReceiptIsTrue
  <2>2. \A p \in Ops : op[p].state = "COMPLETED" => asked'[p] = 1
    BY <1>0, <1>5, <2>1 DEF ReceiptIsTrue
  <2>3. QED BY <1>0, <1>1, <2>2 DEF ReceiptIsTrue, IsDecision
<1>10. QED
  BY <1>1, <1>6, <1>7, <1>8, <1>9, ReserveFrame, DecisionFrame DEF ControlInv

\* A claim that is refused without asking.
LEMMA RefuseKeeps ==
  ASSUME ControlInv, RefuseUnasked
  PROVE  ControlInv'
<1>0. TypeOK /\ ClaimOK /\ StoryOK BY DEF ControlInv
<1>1. /\ UNCHANGED <<lease, task, job, op, cmd, apr, call, link, wire, acks, epoch, row, ledger, asked>>
      /\ exec.result = "claimed" /\ exec' = [exec EXCEPT !.result = "REJECTED"]
  BY DEF RefuseUnasked, envVars, dbVars, pipeVars
<1>2. exec' \in Executions /\ exec'.op = exec.op /\ exec'.result = "REJECTED"
  BY <1>0, <1>1 DEF TypeOK, Executions, Final
<1>3. TypeOK' BY <1>0, <1>1, <1>2 DEF TypeOK
<1>4. ClaimOK' BY <1>0, <1>1, <1>2 DEF ClaimOK
<1>5. StoryOK'
  <2>1. \A p : Unverified(p)' <=> Unverified(p)
    BY <1>1, <1>2 DEF Unverified
  <2>2. QED BY <1>0, <1>1, <2>1 DEF StoryOK
<1>6. QED
  BY <1>1, <1>3, <1>4, <1>5, ReserveFrame, DecisionFrame, ReceiptFrame DEF ControlInv

\* finishControl(): the row was EXECUTING and owned, so no receipt is final yet.
LEMMA FinishKeeps ==
  ASSUME ControlInv, FinishControl
  PROVE  ControlInv'
<1>. DEFINE o == exec.op
            code == IF exec.result = "REJECTED" THEN "RUNTIME_CONTROL_FAILED" ELSE ""
<1>0. TypeOK /\ ClaimOK /\ StoryOK BY DEF ControlInv
<1>1. /\ UNCHANGED <<lease, task, job, op, cmd, apr, call, epoch, row, asked>>
      /\ exec.result \in Final /\ exec' = Idle
  BY DEF FinishControl, envVars, dbVars
<1>2. /\ o \in Ops /\ ledger[o].state = "EXECUTING" /\ (exec.result = "COMPLETED" => asked[o] = 1)
  BY <1>0, <1>1 DEF ClaimOK, Final
<1>3. exec' \in Executions /\ exec'.op = Nobody /\ exec'.result = "none"
  BY <1>1 DEF Executions, Idle
<1>4. CASE link' = FALSE /\ wire' = {} /\ acks' = {} /\ ledger' = ledger
  <2>1. TypeOK' BY <1>0, <1>1, <1>3, <1>4 DEF TypeOK
  <2>2. ClaimOK' BY <1>0, <1>1, <1>3, <1>4 DEF ClaimOK
  <2>3. \A p \in Ops : Unverified(p) => Unverified(p)'
    BY <1>3, <1>4, ControlAssumption DEF Unverified
  <2>4. StoryOK'
    BY <1>0, <1>1, <1>4, <2>3 DEF StoryOK
  <2>5. QED
    BY <1>1, <2>1, <2>2, <2>4, ReserveFrame, DecisionFrame, ReceiptFrame DEF ControlInv
<1>5. CASE /\ ledger' = [ledger EXCEPT ![o] = [state |-> exec.result, code |-> code]]
           /\ acks' = acks \/ acks' = acks \cup {[op |-> o, result |-> exec.result, code |-> code]}
           /\ UNCHANGED <<link, wire>>
  <2>1. /\ ledger' \in [Ops -> LedgerRows]
        /\ ledger'[o].state = exec.result /\ ledger'[o].code = code
        /\ \A p \in Ops : p # o => ledger'[p] = ledger[p]
    <3>1. [state |-> exec.result, code |-> code] \in LedgerRows
      BY <1>1 DEF LedgerRows, Results, Codes, Final
    <3>2. QED BY <1>0, <1>2, <1>5, <3>1 DEF TypeOK
  <2>2. acks' \in SUBSET Acks
    <3>1. [op |-> o, result |-> exec.result, code |-> code] \in Acks
      BY <1>1, <1>2 DEF Acks, Results, Codes, Final
    <3>2. QED BY <1>0, <1>5, <3>1 DEF TypeOK
  <2>3. TypeOK' BY <1>0, <1>1, <1>3, <1>5, <2>1, <2>2 DEF TypeOK
  <2>4. ASSUME NEW k \in acks', k \notin acks PROVE k.op = o /\ k.result = exec.result /\ k.code = code
    <3>1. k = [op |-> o, result |-> exec.result, code |-> code] BY <1>5, <2>4
    <3>2. QED BY <3>1
  <2>. HIDE DEF o, code
  <2>5. ClaimOK'
    <3>1. ASSUME NEW p \in Ops
          PROVE  /\ asked'[p] <= 1
                 /\ ledger'[p].state = "none" => asked'[p] = 0
                 /\ ledger'[p].state = "COMPLETED" => asked'[p] = 1
      <4>1. CASE p = o BY <1>0, <1>1, <1>2, <2>1, <4>1 DEF ClaimOK, Final
      <4>2. CASE p # o BY <1>0, <1>1, <2>1, <4>2 DEF ClaimOK
      <4>3. QED BY <4>1, <4>2
    <3>2. QED BY <1>3, <3>1 DEF ClaimOK
  <2>6. \A p \in Ops : Unverified(p) => p # o /\ Unverified(p)'
    BY <1>3, <2>1, ControlAssumption DEF Unverified, o
  <2>7. op[o].state \notin Final
    <3>1. ~Unverified(o) /\ ledger[o].state \notin Final BY <1>2 DEF Unverified, Final, o
    <3>2. QED BY <1>0, <1>2, <3>1 DEF StoryOK
  <2>8. StoryOK'
    <3>1. \A p \in Ops : p \in wire' \/ ledger'[p].state # "none" => cmd'[p] # "none"
      BY <1>0, <1>1, <1>2, <1>5, <2>1 DEF StoryOK
    <3>2. ASSUME NEW k \in acks'
          PROVE  IF k.result \in Final
                 THEN ledger'[k.op].state = k.result /\ ledger'[k.op].code = k.code
                 ELSE Unverified(k.op)'
      <4>1. CASE k \in acks
        <5>1. k.op \in Ops BY <1>0, <4>1 DEF TypeOK, Acks
        <5>2. CASE k.result \in Final
          <6>1. ledger[k.op].state = k.result /\ ledger[k.op].code = k.code BY <1>0, <4>1, <5>2 DEF StoryOK
          <6>2. k.op # o BY <1>2, <5>2, <6>1 DEF Final
          <6>3. QED BY <2>1, <5>1, <5>2, <6>1, <6>2
        <5>3. CASE k.result \notin Final
          BY <1>0, <2>6, <4>1, <5>1, <5>3 DEF StoryOK
        <5>4. QED BY <5>2, <5>3
      <4>2. CASE k.op = o /\ k.result = exec.result /\ k.code = code
        BY <1>1, <2>1, <4>2
      <4>3. QED BY <2>4, <4>1, <4>2
    <3>3. ASSUME NEW p \in Ops, op'[p].state \in Final
          PROVE  IF ledger'[p].state \in Final
                 THEN op'[p].state = ledger'[p].state /\ op'[p].code = ledger'[p].code
                 ELSE Unverified(p)' /\ op'[p].state = "REJECTED" /\ op'[p].code = "EXECUTION_UNVERIFIABLE"
      <4>1. p # o /\ op[p].state \in Final BY <1>1, <2>7, <3>3
      <4>2. QED BY <1>0, <1>1, <2>1, <2>6, <4>1 DEF StoryOK
    <3>4. QED BY <3>1, <3>2, <3>3 DEF StoryOK, Final
  <2>9. QED
    BY <1>1, <2>3, <2>5, <2>8, ReserveFrame, DecisionFrame, ReceiptFrame DEF ControlInv
<1>6. QED
  BY <1>4, <1>5 DEF FinishControl, Record, Ack, Broken

\* recover(): what was EXECUTING stays unverified as UNKNOWN.
LEMMA RestartKeeps ==
  ASSUME ControlInv, RestartWorker
  PROVE  ControlInv'
<1>0. TypeOK /\ ClaimOK /\ StoryOK BY DEF ControlInv
<1>1. /\ UNCHANGED <<lease, task, job, op, cmd, apr, call, asked>>
      /\ epoch < MaxEpoch /\ epoch' = epoch + 1
      /\ ledger' = [o \in Ops |-> IF ledger[o].state = "EXECUTING"
                                  THEN [state |-> "UNKNOWN", code |-> "EXECUTION_UNVERIFIABLE"]
                                  ELSE ledger[o]]
      /\ row' = row \/ row' = [row EXCEPT !.state = "done"]
      /\ exec' = Idle /\ link' = FALSE /\ wire' = {} /\ acks' = {}
  BY DEF RestartWorker, Broken, envVars, dbVars
<1>2. exec' \in Executions /\ exec'.op = Nobody /\ exec'.result = "none"
  BY <1>1 DEF Executions, Idle
<1>3. ASSUME NEW o \in Ops
      PROVE  /\ ledger'[o] \in LedgerRows
             /\ \/ ledger[o].state # "EXECUTING" /\ ledger'[o] = ledger[o]
                \/ ledger[o].state = "EXECUTING" /\ ledger'[o].state = "UNKNOWN"
  <2>1. [state |-> "UNKNOWN", code |-> "EXECUTION_UNVERIFIABLE"] \in LedgerRows
    BY DEF LedgerRows, Results, Codes
  <2>2. QED BY <1>0, <1>1, <2>1 DEF TypeOK
<1>4. TypeOK'
  <2>1. ledger' \in [Ops -> LedgerRows] BY <1>1, <1>3
  <2>2. epoch' \in 1 .. MaxEpoch BY <1>0, <1>1, ControlAssumption DEF TypeOK
  <2>3. row' \in RunRows BY <1>0, <1>1 DEF TypeOK, RunRows
  <2>4. QED BY <1>0, <1>1, <1>2, <2>1, <2>2, <2>3 DEF TypeOK
<1>5. ClaimOK'
  <2>1. ASSUME NEW o \in Ops
        PROVE  /\ asked'[o] <= 1
               /\ ledger'[o].state = "none" => asked'[o] = 0
               /\ ledger'[o].state = "COMPLETED" => asked'[o] = 1
    BY <1>0, <1>1, <1>3 DEF ClaimOK
  <2>2. QED BY <1>2, <2>1 DEF ClaimOK
<1>6. StoryOK'
  <2>1. ASSUME NEW o \in Ops
        PROVE  /\ Unverified(o) => Unverified(o)' /\ ledger'[o].state \notin Final
               /\ ledger[o].state \in Final => ledger'[o] = ledger[o]
               /\ ledger'[o].state # "none" => ledger[o].state # "none"
    BY <1>2, <1>3, ControlAssumption DEF Unverified, Final
  <2>2. ASSUME NEW o \in Ops, op'[o].state \in Final
        PROVE  IF ledger'[o].state \in Final
               THEN op'[o].state = ledger'[o].state /\ op'[o].code = ledger'[o].code
               ELSE Unverified(o)' /\ op'[o].state = "REJECTED" /\ op'[o].code = "EXECUTION_UNVERIFIABLE"
    <3>1. IF ledger[o].state \in Final
          THEN op[o].state = ledger[o].state /\ op[o].code = ledger[o].code
          ELSE Unverified(o) /\ op[o].state = "REJECTED" /\ op[o].code = "EXECUTION_UNVERIFIABLE"
      BY <1>0, <1>1, <2>2 DEF StoryOK
    <3>2. QED BY <1>1, <2>1, <3>1
  <2>3. \A o \in Ops : o \in wire' \/ ledger'[o].state # "none" => cmd'[o] # "none"
    BY <1>0, <1>1, <2>1 DEF StoryOK
  <2>4. QED BY <1>1, <2>2, <2>3 DEF StoryOK, Final
<1>7. QED
  BY <1>1, <1>4, <1>5, <1>6, ReserveFrame, DecisionFrame, ReceiptFrame DEF ControlInv

-----------------------------------------------------------------------------
(* The acknowledgement.                                                    *)

\* applyControlAck().
LEMMA ReceiveAckKeeps ==
  ASSUME ControlInv, NEW k \in acks, ReceiveAck(k)
  PROVE  ControlInv'
<1>. DEFINE o == k.op
            b == op[o].body
<1>0. TypeOK /\ ClaimOK /\ StoryOK /\ ReserveOK /\ OneDecision /\ ReceiptIsTrue BY DEF ControlInv
<1>1. UNCHANGED <<lease, task, job, call, epoch, row, ledger, exec, asked>>
  BY DEF ReceiveAck, envVars, wrkVars
<1>2. o \in Ops /\ k.result \in Results /\ k.code \in Codes
  BY <1>0 DEF TypeOK, Acks
<1>3. /\ IF k.result \in Final THEN ledger[o].state = k.result /\ ledger[o].code = k.code ELSE Unverified(o)
      /\ cmd[o] # "none" /\ op[o].state # "none"
  <2>1. IF k.result \in Final THEN ledger[o].state = k.result /\ ledger[o].code = k.code ELSE Unverified(o)
    BY <1>0 DEF StoryOK
  <2>2. ledger[o].state # "none" BY <2>1 DEF Unverified, Final
  <2>3. QED BY <1>0, <1>2, <2>1, <2>2 DEF StoryOK, ReserveOK
<1>4. CASE ~AckApplies(k)
  <2>1. /\ UNCHANGED <<op, cmd, apr>>
        /\ wire' \subseteq wire /\ acks' \subseteq acks /\ link' \in BOOLEAN
    BY <1>0, <1>4 DEF ReceiveAck, dbVars, Broken, TypeOK
  <2>2. TypeOK' BY <1>0, <1>1, <2>1 DEF TypeOK
  <2>3. StoryOK' BY <1>0, <1>1, <2>1, StreamShrinks
  <2>4. QED
    BY <1>1, <2>1, <2>2, <2>3, ClaimFrame, ReserveFrame, DecisionFrame, ReceiptFrame DEF ControlInv
<1>5. CASE AckApplies(k)
  <2>1. /\ op' = [op EXCEPT ![o].state = Receipt(k).state, ![o].code = Receipt(k).code]
        /\ cmd' = [cmd EXCEPT ![o] = "acked"]
        /\ apr' = IF Decides(k) THEN [apr EXCEPT ![b.req].state = Decided(b.dec)] ELSE apr
        /\ acks' \subseteq acks /\ UNCHANGED <<link, wire>>
    BY <1>5 DEF ReceiveAck
  <2>2. /\ Receipt(k).state \in Final /\ Receipt(k).code \in Codes
        /\ Receipt(k).state = "COMPLETED" <=> k.result = "COMPLETED"
    BY <1>2 DEF Receipt, Final, Codes, Results
  <2>3. /\ op' \in [Ops -> Receipts]
        /\ op'[o].state = Receipt(k).state /\ op'[o].code = Receipt(k).code
        /\ \A p \in Ops : op'[p].body = op[p].body /\ (p # o => op'[p] = op[p])
    BY <1>0, <1>2, <2>1, <2>2 DEF TypeOK, Receipts
  <2>4. /\ cmd' \in [Ops -> {"none", "pending", "acked"}]
        /\ \A p \in Ops : cmd'[p] # "none" <=> cmd[p] # "none"
    BY <1>0, <1>2, <1>3, <2>1 DEF TypeOK
  <2>5. Decides(k) => b.req \in Requests /\ b.kind = "approval" /\ apr[b.req].state = "PENDING" /\ k.result = "COMPLETED"
    BY <1>0, <1>2, <1>3, <1>5 DEF ReserveOK, BodyOK, Decides, AckApplies
  <2>6. /\ apr' \in [Requests -> ApprovalRows]
        /\ \A v \in Requests : /\ apr'[v].dec = apr[v].dec
                               /\ apr'[v].state = apr[v].state \/ (Decides(k) /\ v = b.req /\ apr[v].state = "PENDING")
        /\ Decides(k) => apr'[b.req].state = Decided(b.dec)
    <3>1. CASE Decides(k)
      <4>1. apr' = [apr EXCEPT ![b.req].state = Decided(b.dec)] BY <2>1, <3>1
      <4>2. Decided(b.dec) \in {"ACCEPTED", "REJECTED"} BY DEF Decided
      <4>3. QED BY <1>0, <2>5, <3>1, <4>1, <4>2 DEF TypeOK, ApprovalRows
    <3>2. CASE ~Decides(k)
      BY <1>0, <2>1, <3>2 DEF TypeOK
    <3>3. QED BY <3>1, <3>2
  <2>7. TypeOK'
    BY <1>0, <1>1, <2>1, <2>3, <2>4, <2>6 DEF TypeOK
  <2>8. op[o].state \notin Final BY <1>5 DEF AckApplies
  <2>. HIDE DEF o, b
  <2>9. StoryOK'
    <3>1. \A p : Unverified(p)' <=> Unverified(p) BY <1>1 DEF Unverified
    <3>2. ASSUME NEW p \in Ops, op'[p].state \in Final
          PROVE  IF ledger'[p].state \in Final
                 THEN op'[p].state = ledger'[p].state /\ op'[p].code = ledger'[p].code
                 ELSE Unverified(p)' /\ op'[p].state = "REJECTED" /\ op'[p].code = "EXECUTION_UNVERIFIABLE"
      <4>1. CASE p # o
        BY <1>0, <1>1, <2>3, <3>1, <3>2, <4>1 DEF StoryOK
      <4>2. CASE p = o /\ k.result \in Final
        BY <1>1, <1>3, <2>3, <4>2 DEF Receipt, Final
      <4>3. CASE p = o /\ k.result \notin Final
        <5>1. k.result = "UNKNOWN" BY <1>2, <4>3 DEF Results, Final
        <5>2. ledger[o].state \notin Final BY <1>3, <4>3 DEF Unverified, Final
        <5>3. QED BY <1>1, <1>3, <2>3, <3>1, <4>3, <5>1, <5>2 DEF Receipt
      <4>4. QED BY <4>1, <4>2, <4>3
    <3>3. \A p \in Ops : p \in wire' \/ ledger'[p].state # "none" => cmd'[p] # "none"
      BY <1>0, <1>1, <2>1, <2>4 DEF StoryOK
    <3>4. \A j \in acks' : IF j.result \in Final
                           THEN ledger'[j.op].state = j.result /\ ledger'[j.op].code = j.code
                           ELSE Unverified(j.op)'
      BY <1>0, <1>1, <2>1, <3>1 DEF StoryOK
    <3>5. QED BY <3>2, <3>3, <3>4 DEF StoryOK, Final
  <2>10. ReserveOK'
    <3>1. \A p \in Ops : op[p].state \notin {"none", "ACCEPTED"} => op'[p].state \notin {"none", "ACCEPTED"}
      BY <2>2, <2>3 DEF Final
    <3>2. \A p \in Ops : op[p].state # "none" <=> op'[p].state # "none"
      BY <1>3, <2>2, <2>3 DEF Final
    <3>3. ASSUME NEW e \in Clients
          PROVE /\ call'[e].at # "idle" => call'[e].op \in Ops /\ BodyOK(call'[e].body)
                /\ call'[e].at = "accepted" => op'[call'[e].op].state # "none" /\ op'[call'[e].op].body = call'[e].body
      <4>1. /\ call[e].at # "idle" => call[e].op \in Ops /\ BodyOK(call[e].body)
            /\ call[e].at = "accepted" => op[call[e].op].state # "none" /\ op[call[e].op].body = call[e].body
        BY <1>0 DEF ReserveOK
      <4>2. QED BY <1>1, <2>3, <3>2, <4>1
    <3>4. ASSUME NEW p \in Ops
          PROVE /\ op'[p].state # "none" => BodyOK(op'[p].body)
                /\ cmd'[p] # "none" => op'[p].state \notin {"none", "ACCEPTED"}
                /\ cmd'[p] # "none" /\ op'[p].body.kind = "approval" => apr'[op'[p].body.req].dec = op'[p].body.dec
      <4>1. op[p].state # "none" => BodyOK(op[p].body) BY <1>0 DEF ReserveOK
      <4>2. cmd[p] # "none" => op[p].state \notin {"none", "ACCEPTED"} BY <1>0 DEF ReserveOK
      <4>3. cmd[p] # "none" /\ op[p].body.kind = "approval" => apr[op[p].body.req].dec = op[p].body.dec
        BY <1>0 DEF ReserveOK
      <4>4. cmd[p] # "none" /\ op[p].body.kind = "approval" => op[p].body.req \in Requests
        BY <4>1, <4>2 DEF BodyOK
      <4>5. QED BY <2>3, <2>4, <2>6, <3>1, <3>2, <4>1, <4>2, <4>3, <4>4
    <3>5. ASSUME NEW v \in Requests, apr'[v].state = "none" PROVE apr'[v].dec = ""
      <4>1. apr[v].state = "none"
        <5>1. CASE apr'[v].state = apr[v].state BY <3>5, <5>1
        <5>2. CASE Decides(k) /\ v = b.req BY <2>6, <3>5, <5>2 DEF Decided
        <5>3. QED BY <2>6, <5>1, <5>2
      <4>2. QED BY <1>0, <2>6, <4>1 DEF ReserveOK
    <3>6. QED BY <3>3, <3>4, <3>5 DEF ReserveOK, BodyOK
  <2>11. OneDecision'
    BY <1>0, <2>3, <2>4 DEF OneDecision, IsDecision
  <2>12. ReceiptIsTrue'
    <3>1. ASSUME NEW p \in Ops, op'[p].state = "COMPLETED"
          PROVE  asked'[p] = 1 /\ (op'[p].body.kind = "approval" => apr'[op'[p].body.req].state = Decided(op'[p].body.dec))
      <4>1. CASE p = o
        <5>1. k.result = "COMPLETED" BY <2>2, <2>3, <3>1, <4>1
        <5>2. asked[o] = 1 BY <1>0, <1>2, <1>3, <5>1 DEF ClaimOK, Final
        <5>3. op[o].body.kind = "approval" => Decides(k) BY <5>1 DEF Decides, o
        <5>4. QED BY <1>1, <2>3, <2>6, <4>1, <5>2, <5>3 DEF b
      <4>2. CASE p # o
        <5>1. op'[p] = op[p] /\ op[p].state = "COMPLETED" BY <2>3, <3>1, <4>2
        <5>2. asked[p] = 1 /\ (op[p].body.kind = "approval" => apr[op[p].body.req].state = Decided(op[p].body.dec))
          BY <1>0, <5>1 DEF ReceiptIsTrue
        <5>3. op[p].body.kind = "approval" => op[p].body.req \in Requests
          BY <1>0, <5>1 DEF ReserveOK, BodyOK
        <5>4. op[p].body.kind = "approval" => apr'[op[p].body.req].state = apr[op[p].body.req].state
          BY <2>6, <5>2, <5>3 DEF Decided
        <5>5. QED BY <1>1, <5>1, <5>2, <5>4
      <4>3. QED BY <4>1, <4>2
    <3>2. ASSUME NEW v \in Requests, apr'[v].state \in {"ACCEPTED", "REJECTED"}
          PROVE  \E p \in Ops : IsDecision(p, v)' /\ op'[p].state = "COMPLETED"
      <4>1. CASE apr'[v].state = apr[v].state
        <5>1. PICK p \in Ops : IsDecision(p, v) /\ op[p].state = "COMPLETED"
          BY <1>0, <3>2, <4>1 DEF ReceiptIsTrue
        <5>2. p # o BY <2>8, <5>1 DEF Final
        <5>3. QED BY <2>3, <5>1, <5>2 DEF IsDecision
      <4>2. CASE Decides(k) /\ v = b.req
        <5>1. IsDecision(o, v)' /\ op'[o].state = "COMPLETED"
          BY <1>2, <2>2, <2>3, <2>5, <4>2 DEF IsDecision, b
        <5>2. QED BY <1>2, <5>1
      <4>3. QED BY <2>6, <4>1, <4>2
    <3>3. QED BY <3>1, <3>2 DEF ReceiptIsTrue, IsDecision, Decided
  <2>13. QED
    BY <1>1, <2>7, <2>9, <2>10, <2>11, <2>12, ClaimFrame DEF ControlInv
<1>6. QED BY <1>4, <1>5

-----------------------------------------------------------------------------
(* The theorems.                                                           *)

\* The empty database.
LEMMA InitInv == Init => ControlInv
<1>1. SUFFICES ASSUME Init PROVE ControlInv OBVIOUS
<1>2. TypeOK
  <2>1. NoOp \in Receipts BY ControlAssumption DEF NoOp, NoBody, Receipts, Bodies, Codes
  <2>2. [state |-> "none", dec |-> "", gen |-> 0, due |-> FALSE] \in ApprovalRows
    BY ControlAssumption DEF ApprovalRows
  <2>3. [state |-> "none", code |-> ""] \in LedgerRows BY DEF LedgerRows, Codes
  <2>4. task \in TaskRows
    <3>1. task = [gen |-> 0, open |-> FALSE, epoch |-> 0, session |-> FALSE] BY <1>1 DEF Init
    <3>2. QED BY <3>1, ControlAssumption DEF TaskRows
  <2>5. job \in JobRows
    <3>1. job = [ver |-> 1, active |-> TRUE] BY <1>1 DEF Init
    <3>2. QED BY <3>1, ControlAssumption DEF JobRows
  <2>6. row \in RunRows /\ exec \in Executions
    BY <1>1 DEF Init, NoRow, RunRows, Idle, Executions
  <2>7. op \in [Ops -> Receipts] /\ cmd \in [Ops -> {"none", "pending", "acked"}]
    BY <1>1, <2>1 DEF Init
  <2>8. apr \in [Requests -> ApprovalRows] /\ call \in [Clients -> Calls]
    BY <1>1, <2>2, NoCallType DEF Init
  <2>9. ledger \in [Ops -> LedgerRows]
    <3>1. ledger = [o \in Ops |-> [state |-> "none", code |-> ""]] BY <1>1 DEF Init
    <3>2. QED BY <2>3, <3>1
  <2>10. asked \in [Ops -> 0 .. 2]
    <3>1. asked = [o \in Ops |-> 0] BY <1>1 DEF Init
    <3>2. QED BY <3>1
  <2>11. lease \in Clients \cup {Nobody} /\ link \in BOOLEAN /\ wire \in SUBSET Ops /\ acks \in SUBSET Acks
    <3>1. lease = Nobody /\ link = FALSE /\ wire = {} /\ acks = {} BY <1>1 DEF Init
    <3>2. QED BY <3>1
  <2>12. epoch \in 1 .. MaxEpoch
    <3>1. epoch = 1 BY <1>1 DEF Init
    <3>2. QED BY <3>1, ControlAssumption
  <2>13. QED
    BY <2>4, <2>5, <2>6, <2>7, <2>8, <2>9, <2>10, <2>11, <2>12 DEF TypeOK
<1>3. \A o \in Ops : op[o].state = "none" /\ cmd[o] = "none" /\ ledger[o].state = "none" /\ asked[o] = 0
  BY <1>1 DEF Init, NoOp
<1>4. ClaimOK
  <2>1. exec.op = Nobody /\ exec.result = "none" BY <1>1 DEF Init, Idle
  <2>2. QED BY <1>3, <2>1 DEF ClaimOK
<1>5. StoryOK
  BY <1>1, <1>3 DEF Init, StoryOK, Final
<1>6. (\A v \in Requests : apr[v].state = "none" /\ apr[v].dec = "") /\ \A c \in Clients : call[c].at = "idle"
  BY <1>1 DEF Init, NoCall
<1>7. ReserveOK
  BY <1>3, <1>6 DEF ReserveOK
<1>8. OneDecision /\ ReceiptIsTrue
  BY <1>3, <1>6 DEF OneDecision, ReceiptIsTrue
<1>9. QED BY <1>2, <1>4, <1>5, <1>7, <1>8 DEF ControlInv

\* The invariant is inductive.
LEMMA NextInv == ControlInv /\ [Next]_vars => ControlInv'
<1>1. SUFFICES ASSUME ControlInv, [Next]_vars PROVE ControlInv' OBVIOUS
<1>2. CASE Writer
  BY <1>1, <1>2, LeaseKeeps, BeginKeeps, CheckKeeps, AcceptKeeps, DispatchKeeps DEF Writer, Handler
<1>3. CASE Runtime
  BY <1>1, <1>3, RuntimeKeeps
<1>4. CASE Stream
  BY <1>1, <1>4, WorldKeeps, DisconnectKeeps, SendControlKeeps, ReceiveAckKeeps DEF Stream
<1>5. CASE Control
  BY <1>1, <1>5, PerformKeeps, RefuseKeeps, FinishKeeps, TakeControlKeeps DEF Control
<1>6. CASE World
  BY <1>1, <1>6, WorldKeeps, ReleaseKeeps, RestartKeeps DEF World
<1>7. CASE UNCHANGED vars
  <2>1. TypeOK' BY <1>1, <1>7 DEF ControlInv, TypeOK, vars
  <2>2. QED BY <1>1, <1>7, <2>1, OutsideFrame DEF vars
<1>8. QED BY <1>1, <1>2, <1>3, <1>4, <1>5, <1>6, <1>7 DEF Next

\* The ledger, the receipts and the reservations of control operations agree in every
\* reachable state, however requests, redeliveries, broken streams and restarts interleave
\* (control_dispatch.go, control_execution.go, approval.go).
THEOREM ControlConsistent == Spec => []ControlInv
BY InitInv, NextInv, PTL DEF Spec

\* executeControl() never asks the Runtime twice for one operation.
THEOREM AskedOnce == Spec => []AtMostOnce
<1>1. ControlInv => AtMostOnce BY DEF ControlInv, ClaimOK, AtMostOnce
<1>2. QED BY ControlConsistent, <1>1, PTL

\* dispatchControlOperation() dispatches one decision for a request version at most.
THEOREM DecidedOnce == Spec => []OneDecision
<1>1. ControlInv => OneDecision BY DEF ControlInv
<1>2. QED BY ControlConsistent, <1>1, PTL

\* A COMPLETED receipt, and an approval that is decided, are true.
THEOREM ReceiptsAreTrue == Spec => []ReceiptIsTrue
<1>1. ControlInv => ReceiptIsTrue BY DEF ControlInv
<1>2. QED BY ControlConsistent, <1>1, PTL

\* applyControlAck() never meets an acknowledgement that contradicts a final receipt.
THEOREM OneStory == Spec => []NoConflict
<1>1. ControlInv => NoConflict
  <2>1. SUFFICES ASSUME ControlInv, NEW k \in acks, op[k.op].state \in Final PROVE AckRepeats(k)
    BY DEF NoConflict
  <2>2. TypeOK /\ StoryOK BY <2>1 DEF ControlInv
  <2>3. k.op \in Ops /\ k.result \in Results BY <2>1, <2>2 DEF TypeOK, Acks
  <2>4. CASE k.result \in Final
    <3>1. ledger[k.op].state = k.result /\ ledger[k.op].code = k.code BY <2>1, <2>2, <2>4 DEF StoryOK
    <3>2. op[k.op].state = k.result /\ op[k.op].code = k.code
      BY <2>1, <2>2, <2>3, <2>4, <3>1 DEF StoryOK
    <3>3. QED BY <2>4, <3>2 DEF AckRepeats, Receipt, Final
  <2>5. CASE k.result \notin Final
    <3>1. k.result = "UNKNOWN" BY <2>3, <2>5 DEF Results, Final
    <3>2. ledger[k.op].state \notin Final BY <2>1, <2>2, <2>5 DEF StoryOK, Unverified, Final
    <3>3. op[k.op].state = "REJECTED" /\ op[k.op].code = "EXECUTION_UNVERIFIABLE"
      BY <2>1, <2>2, <2>3, <3>2 DEF StoryOK
    <3>4. QED BY <3>1, <3>3 DEF AckRepeats, Receipt
  <2>6. QED BY <2>4, <2>5
<1>2. QED BY ControlConsistent, <1>1, PTL

\* What one step may do to a reserved decision.
Reserved(v) ==
    apr[v].dec # "" => apr'[v].dec = apr[v].dec /\ (apr'[v].state = "EXPIRED" => apr[v].state = "EXPIRED")

\* Expiry does not touch a reserved request.
LEMMA ExpiryReserves ==
  ASSUME TypeOK, NEW v \in Requests, apr' = Expired PROVE Reserved(v)
BY DEF Expired, Reserved, TypeOK, ApprovalRows

\* Nor does any other step.
LEMMA StepReserves ==
  ASSUME ControlInv, [Next]_vars, NEW v \in Requests
  PROVE  Reserved(v)
<1>0. TypeOK /\ ReserveOK BY DEF ControlInv
<1>1. CASE apr' = apr BY <1>1 DEF Reserved
<1>2. CASE apr' = Expired BY <1>0, <1>2, ExpiryReserves
<1>3. ASSUME NEW c \in Clients, NEW o \in Ops, NEW b \in NewBodies, Begin(c, o, b) PROVE Reserved(v)
  BY <1>1, <1>2, <1>3 DEF Begin
<1>4. ASSUME NEW c \in Clients, Dispatch(c) PROVE Reserved(v)
  <2>. DEFINE b == call[c].body
  <2>1. CASE UNCHANGED apr BY <1>1, <2>1
  <2>2. CASE /\ b.kind = "approval" /\ apr[b.req].dec = ""
             /\ apr' = [apr EXCEPT ![b.req].dec = b.dec]
    BY <1>0, <2>2 DEF Reserved, TypeOK, ApprovalRows
  <2>3. QED BY <1>4, <2>1, <2>2 DEF Dispatch, Undecided, dbVars
<1>5. ASSUME NEW u \in Requests, AskApproval(u) PROVE Reserved(v)
  <2>1. /\ apr[u].state = "none"
        /\ apr' = [w \in Requests |->
                 IF w = u THEN [state |-> "PENDING", dec |-> "", gen |-> task.gen, due |-> FALSE]
                 ELSE IF w < u /\ apr[w].state = "PENDING" THEN [apr[w] EXCEPT !.state = "SUPERSEDED"]
                 ELSE apr[w]]
    BY <1>5 DEF AskApproval
  <2>2. CASE v = u BY <1>0, <2>1, <2>2 DEF Reserved, ReserveOK
  <2>3. CASE v # u BY <1>0, <2>1, <2>3 DEF Reserved, TypeOK, ApprovalRows
  <2>4. QED BY <2>2, <2>3
<1>6. ASSUME NEW u \in Requests, RequestDue(u) PROVE Reserved(v)
  BY <1>0, <1>6 DEF RequestDue, Reserved, TypeOK, ApprovalRows
<1>7. ASSUME NEW k \in acks, ReceiveAck(k) PROVE Reserved(v)
  <2>. DEFINE b == op[k.op].body
  <2>1. CASE UNCHANGED apr BY <1>1, <2>1
  <2>2. CASE apr' = [apr EXCEPT ![b.req].state = Decided(b.dec)]
    BY <1>0, <2>2 DEF Reserved, Decided, TypeOK, ApprovalRows
  <2>3. QED BY <1>7, <2>1, <2>2 DEF ReceiveAck, dbVars
<1>8. CASE Writer
  <2>1. ASSUME NEW c \in Clients, Acquire(c) \/ LeaseEnds(c) \/ CheckCapability(c) \/ Accept(c) \/ CallEnds(c)
        PROVE  UNCHANGED apr
    BY <2>1 DEF Acquire, LeaseEnds, CheckCapability, Accept, CallEnds, dbVars
  <2>2. QED BY <1>1, <1>3, <1>4, <1>8, <2>1 DEF Writer, Handler
<1>9. CASE Runtime
  BY <1>2, <1>5, <1>6, <1>9 DEF Runtime, ListApprovals
<1>10. CASE Stream
  <2>1. ASSUME Connect \/ Disconnect \/ \E o \in Ops : SendControl(o) PROVE UNCHANGED apr
    BY <2>1 DEF Connect, Disconnect, SendControl, dbVars
  <2>2. QED BY <1>1, <1>7, <1>10, <2>1 DEF Stream
<1>11. CASE Control
  BY <1>1, <1>11 DEF Control, Perform, RefuseUnasked, FinishControl, TakeControl, dbVars
<1>12. CASE World
  BY <1>1, <1>12 DEF World, AssignAttempt, RunMoves, SessionKnown, ReleaseAttempt, JobMoves, RestartWorker, dbVars
<1>13. CASE UNCHANGED vars
  BY <1>1, <1>13 DEF vars
<1>14. QED BY <1>8, <1>9, <1>10, <1>11, <1>12, <1>13 DEF Next

\* A decision reserved by dispatchControlOperation() stays, and expireJobApprovals() does
\* not take its request away.
THEOREM ReservationSafe == Spec => ReservationHolds
<1>1. ControlInv /\ [Next]_vars => [\A v \in Requests : Reserved(v)]_vars
  BY StepReserves
<1>2. [\A v \in Requests : Reserved(v)]_vars <=>
        [\A v \in Requests : apr[v].dec # "" =>
           apr'[v].dec = apr[v].dec /\ (apr'[v].state = "EXPIRED" => apr[v].state = "EXPIRED")]_vars
  BY DEF Reserved
<1>3. QED BY ControlConsistent, <1>1, <1>2, PTL DEF Spec, ReservationHolds

=============================================================================
