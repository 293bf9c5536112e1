--------------------------- MODULE Conversations ---------------------------
(***************************************************************************)
(* Native conversation requests of one profile (conversation_service.go,   *)
(* conversation_http.go): a request is recorded, a Job is submitted for it *)
(* and then bound to it, in three transactions of a call that may be       *)
(* repeated, given up or cut off by a crash between any two of them.       *)
(***************************************************************************)
EXTENDS Naturals, FiniteSets

CONSTANTS
    ConvKeys,     \* idempotency keys
    ConvBodies,   \* decoded requests, by their hash
    ConvCallers,  \* HTTP calls that are served at the same time
    MaxActive,    \* the profile's limit of active requests
    MaxConvJobs   \* Jobs, enough for one Job too many

ASSUME ConversationAssumption ==
    /\ IsFiniteSet(ConvKeys) /\ IsFiniteSet(ConvCallers)
    /\ "" \notin ConvKeys \cup ConvBodies   \* ValidKey; a hash is never empty
    /\ MaxActive \in Nat \ {0} /\ MaxConvJobs \in Nat

VARIABLES
    cvRows,     \* conversation_requests, by key
    cvJobs,     \* the Jobs submitted for them, by identifier
    cvCalls,    \* the calls that are served
    cvAnswers   \* results handed out: key and Job

cvVars == <<cvRows, cvJobs, cvCalls, cvAnswers>>

NoRequestRow == [hash |-> "", state |-> "none", job |-> 0]

NoConvJob == [key |-> "", state |-> "none", retried |-> FALSE]

IdleCall == [pc |-> "idle", key |-> "", job |-> 0, seen |-> ""]

ConvTerminal == {"SUCCEEDED", "FAILED", "CANCELED"}

ConversationsInit ==
    /\ cvRows = [k \in ConvKeys |-> NoRequestRow]
    /\ cvJobs = [j \in 1..MaxConvJobs |-> NoConvJob]
    /\ cvCalls = [c \in ConvCallers |-> IdleCall]
    /\ cvAnswers = {}

\* Mutant: a request counts only once its Job is bound.
ActiveBound ==
    {k \in ConvKeys : cvRows[k].job # 0 /\ cvJobs[cvRows[k].job].state \notin ConvTerminal}

\* The requests that count against the limit: without a Job yet, or with one
\* that has not ended.
Active ==
    {k \in ConvKeys :
        IF cvRows[k].job = 0 THEN cvRows[k].state = "PENDING"
        ELSE cvJobs[cvRows[k].job].state \notin ConvTerminal}

\* beginConversationRequest: a request that is known, or a new one below the limit.
BeginRequest(c, k, body) ==
    /\ cvCalls[c].pc = "idle"
    /\ \/ cvRows[k].hash = body /\ UNCHANGED cvRows
       \/ /\ cvRows[k].state = "none" /\ Cardinality(Active) < MaxActive
          /\ cvRows' = [cvRows EXCEPT ![k] = [hash |-> body, state |-> "PENDING", job |-> 0]]
    /\ cvCalls' = [cvCalls EXCEPT ![c] = [IdleCall EXCEPT !.pc = "submit", !.key = k]]
    /\ UNCHANGED <<cvJobs, cvAnswers>>

\* SubmitJob with a key made of the request: the Job that has it, or a new one.
JobsOf(k) == {j \in DOMAIN cvJobs : cvJobs[j].key = k}

SubmitConversationJob(c) ==
    /\ cvCalls[c].pc = "submit"
    /\ \E j \in DOMAIN cvJobs :
          /\ IF JobsOf(cvCalls[c].key) # {}
             THEN j \in JobsOf(cvCalls[c].key) /\ UNCHANGED cvJobs
             ELSE /\ cvJobs[j] = NoConvJob /\ \A i \in 1..(j - 1) : cvJobs[i] # NoConvJob
                  /\ cvJobs' = [cvJobs EXCEPT ![j] = [NoConvJob EXCEPT !.key = cvCalls[c].key, !.state = "QUEUED"]]
          /\ cvCalls' = [cvCalls EXCEPT ![c].pc = "bind", ![c].job = j]
    /\ UNCHANGED <<cvRows, cvAnswers>>

\* The Job is bound to the request, whatever state that is in by now.
BindConversationJob(c) ==
    LET k == cvCalls[c].key
    IN  /\ cvCalls[c].pc = "bind"
        /\ cvRows' = [cvRows EXCEPT ![k].job = cvCalls[c].job, ![k].state = "SUBMITTED"]
        /\ cvCalls' = [cvCalls EXCEPT ![c].pc = "wait"]
        /\ UNCHANGED <<cvJobs, cvAnswers>>

\* GET /agent/v1/requests/{id} looks at the Job of a request that has one.
ObserveRequest(c, k) ==
    /\ cvCalls[c].pc = "idle" /\ cvRows[k].job # 0
    /\ cvCalls' = [cvCalls EXCEPT ![c] = [pc |-> "wait", key |-> k, job |-> cvRows[k].job, seen |-> ""]]
    /\ UNCHANGED <<cvRows, cvJobs, cvAnswers>>

\* waitConversation: the Job has ended ...
SeeJobEnd(c) ==
    LET j == cvJobs[cvCalls[c].job]
    IN  /\ cvCalls[c].pc = "wait" /\ j.state \in ConvTerminal
        /\ cvCalls' = [cvCalls EXCEPT ![c].pc = "settle", ![c].seen = j.state]
        /\ UNCHANGED <<cvRows, cvJobs, cvAnswers>>

\* ... and the request is updated from what was read.
RequestState(seen) ==
    CASE seen = "SUCCEEDED" -> "COMPLETED" [] seen = "CANCELED" -> "CANCELLED" [] OTHER -> "FAILED"

SettleRequest(c) ==
    LET call == cvCalls[c]
    IN  /\ call.pc = "settle"
        /\ cvRows' = [cvRows EXCEPT ![call.key].state = RequestState(call.seen)]
        /\ cvAnswers' = cvAnswers \cup (IF call.seen = "SUCCEEDED" THEN {[key |-> call.key, job |-> call.job]} ELSE {})
        /\ cvCalls' = [cvCalls EXCEPT ![c] = IdleCall]
        /\ UNCHANGED cvJobs

\* A call ends early: SubmitJob failed, the client left, the wait timed out.
CallEndsEarly(c) ==
    /\ cvCalls[c].pc # "idle"
    /\ cvCalls' = [cvCalls EXCEPT ![c] = IdleCall]
    /\ UNCHANGED <<cvRows, cvJobs, cvAnswers>>

\* A restart of the Server ends every call.
ServerStops ==
    /\ \E c \in ConvCallers : cvCalls[c].pc # "idle"
    /\ cvCalls' = [c \in ConvCallers |-> IdleCall]
    /\ UNCHANGED <<cvRows, cvJobs, cvAnswers>>

\* POST .../cancel reaches the Job of a request that has one.
CancelRequest(k) ==
    /\ cvRows[k].job # 0 /\ cvJobs[cvRows[k].job].state = "QUEUED"
    /\ cvJobs' = [cvJobs EXCEPT ![cvRows[k].job].state = "CANCELING"]
    /\ UNCHANGED <<cvRows, cvCalls, cvAnswers>>

\* The Job runs and ends, or is retried by its owner.
JobEnds(j) ==
    /\ cvJobs[j].state \in {"QUEUED", "CANCELING"}
    /\ \E end \in IF cvJobs[j].state = "CANCELING" THEN {"CANCELED"} ELSE {"SUCCEEDED", "FAILED"} :
          cvJobs' = [cvJobs EXCEPT ![j].state = end]
    /\ UNCHANGED <<cvRows, cvCalls, cvAnswers>>

JobRetried(j) ==
    /\ cvJobs[j].state = "FAILED"
    /\ cvJobs' = [cvJobs EXCEPT ![j].state = "QUEUED", ![j].retried = TRUE]
    /\ UNCHANGED <<cvRows, cvCalls, cvAnswers>>

ConversationsNext ==
    \/ \E c \in ConvCallers :
          \/ \E k \in ConvKeys : (\E b \in ConvBodies : BeginRequest(c, k, b)) \/ ObserveRequest(c, k)
          \/ SubmitConversationJob(c) \/ BindConversationJob(c) \/ SeeJobEnd(c) \/ SettleRequest(c)
          \/ CallEndsEarly(c)
    \/ ServerStops
    \/ \E k \in ConvKeys : CancelRequest(k)
    \/ \E j \in DOMAIN cvJobs : JobEnds(j) \/ JobRetried(j)

----------------------------------------------------------------------------
ConvRow == [hash : ConvBodies \cup {""}, job : 0..MaxConvJobs,
            state : {"none", "PENDING", "SUBMITTED", "COMPLETED", "FAILED", "CANCELLED"}]

ConvJobRow == [key : ConvKeys \cup {""}, retried : BOOLEAN,
               state : {"none", "QUEUED", "CANCELING"} \cup ConvTerminal]

ConvCallRow == [pc : {"idle", "submit", "bind", "wait", "settle"}, key : ConvKeys \cup {""},
                job : 0..MaxConvJobs, seen : ConvTerminal \cup {""}]

ConversationsTypeOK ==
    /\ cvRows \in [ConvKeys -> ConvRow]
    /\ cvJobs \in [1..MaxConvJobs -> ConvJobRow]
    /\ cvCalls \in [ConvCallers -> ConvCallRow]
    /\ cvAnswers \subseteq [key : ConvKeys, job : 1..MaxConvJobs]

(* However calls are repeated, interleaved or cut off, a request has one    *)
(* Job, its row names no other, a result handed out is that of its own      *)
(* Job, and no more Jobs run than the profile allows, retries by the owner  *)
(* of the Jobs aside.                                                       *)
ConversationSound ==
    /\ \A k \in ConvKeys : Cardinality(JobsOf(k)) <= 1
    /\ \A k \in ConvKeys : cvRows[k].job # 0 => cvRows[k].job \in JobsOf(k)
    /\ \A a \in cvAnswers : cvJobs[a.job].key = a.key /\ cvJobs[a.job].state = "SUCCEEDED"
    /\ Cardinality({j \in DOMAIN cvJobs :
                      cvJobs[j].state \in {"QUEUED", "CANCELING"} /\ ~cvJobs[j].retried}) <= MaxActive

ConversationsSpec == ConversationsInit /\ [][ConversationsNext]_cvVars
=============================================================================
