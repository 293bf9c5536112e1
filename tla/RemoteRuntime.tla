--------------------------- MODULE RemoteRuntime ---------------------------
(***************************************************************************)
(* One Attempt executed through the HTTP runtime service: the Worker's     *)
(* side (adapter/http_runtime.go, the container environment, execute() and *)
(* recover()) and the service that owns the container (agenthttp).         *)
(*                                                                         *)
(* A request is a record that a handler of the service moves along; one    *)
(* the Worker no longer waits for keeps running and its answer is lost.    *)
(* The service keeps its runs in memory and a marker file per run on disk. *)
(***************************************************************************)
EXTENDS Naturals, FiniteSets

CONSTANTS
    Environments,   \* the environments an Attempt may ask for
    MaxRtEvents,    \* events a run emits
    MaxRtFaults     \* crashes, lost answers, failing calls of one behaviour

ASSUME RemoteAssumption ==
    /\ Environments \subseteq {"process", "container"}
    /\ MaxRtEvents \in Nat /\ MaxRtFaults \in Nat

VARIABLES
    rtEnv,       \* the environment provider of the Attempt
    rtMarker,    \* the marker file of the run exists
    rtRun,       \* the run in the memory of the service
    rtBox,       \* a container of the Attempt exists
    rtStarts,    \* containers started so far
    rtCall,      \* the request the Worker waits for
    rtStray,     \* requests nobody waits for any more
    rtWk,        \* the Worker's execution
    rtReleased,  \* the service confirmed the release of the environment
    rtFaults

rtVars == <<rtEnv, rtMarker, rtRun, rtBox, rtStarts, rtCall, rtStray, rtWk, rtReleased, rtFaults>>

svcVars == <<rtMarker, rtRun, rtBox, rtStarts, rtReleased>>

NoRun == [step |-> "none", state |-> "UNKNOWN", cleanup |-> "UNKNOWN", cancelled |-> FALSE, events |-> 0]

NewRun == [NoRun EXCEPT !.step = "env", !.state = "STARTING", !.cleanup = "PENDING"]

NoCall == [op |-> "none", pc |-> "none", state |-> "", cleanup |-> "", upto |-> 0, more |-> FALSE]

Request(op) == [NoCall EXCEPT !.op = op, !.pc = "new"]

RemoteInit ==
    /\ rtEnv = "none"
    /\ rtMarker = FALSE /\ rtRun = NoRun /\ rtBox = FALSE /\ rtStarts = 0
    /\ rtCall = NoCall /\ rtStray = {} /\ rtReleased = FALSE /\ rtFaults = 0
    /\ rtWk = [pc |-> "prepare", journalled |-> FALSE, envRef |-> FALSE, cancelled |-> FALSE,
               seq |-> 0, complete |-> FALSE, runtime |-> "", environment |-> "", clean |-> ""]

RtFault == rtFaults < MaxRtFaults /\ rtFaults' = rtFaults + 1

HasRun == rtRun.step # "none"
RunDone == rtRun.step = "done"
RunLive == HasRun /\ ~RunDone

----------------------------------------------------------------------------
(* The service                                                             *)

\* A handler moves request c to d; an answer is kept only if it is waited for.
Move(c, d) ==
    \/ c = rtCall /\ rtCall' = d /\ UNCHANGED rtStray
    \/ /\ c \in rtStray
       /\ rtStray' = (rtStray \ {c}) \cup (IF d.pc \in {"answered", "error"} THEN {} ELSE {d})
       /\ UNCHANGED rtCall

To(c, pc) == Move(c, [c EXCEPT !.pc = pc])

Answers(c, state, cleanup) ==
    Move(c, [c EXCEPT !.pc = "answered", !.state = state, !.cleanup = cleanup])

Pending(op, pc) == {c \in {rtCall} \cup rtStray : c.op = op /\ c.pc = pc}

\* PUT /v1/runs: the same run again is no second one, a marker of an earlier
\* service process or of a release refuses it; a marker that cannot be made
\* durable stays and no run begins.
CreateRun(c) ==
    /\ IF HasRun
       THEN Answers(c, "", "") /\ UNCHANGED <<rtMarker, rtRun, rtFaults>>
       ELSE IF rtMarker
       THEN To(c, "error") /\ UNCHANGED <<rtMarker, rtRun, rtFaults>>
       ELSE /\ rtMarker' = TRUE
            /\ \/ rtRun' = NewRun /\ Answers(c, "", "") /\ UNCHANGED rtFaults
               \/ RtFault /\ To(c, "error") /\ UNCHANGED rtRun
    /\ UNCHANGED <<rtEnv, rtBox, rtStarts, rtWk, rtReleased>>

\* cleanupContainer: list, remove, list again; docker may fail.
CleanUp(ok) ==
    \/ ok = TRUE /\ rtBox' = FALSE /\ UNCHANGED rtFaults
    \/ ok = FALSE /\ RtFault /\ UNCHANGED rtBox

\* execute: the credential file, or a run that ends before it began ...
WriteEnvFile ==
    /\ rtRun.step = "env"
    /\ \/ rtRun' = [rtRun EXCEPT !.step = "launch"] /\ UNCHANGED rtFaults
       \/ RtFault /\ rtRun' = [rtRun EXCEPT !.step = "done", !.state = "EXITED", !.cleanup = "UNKNOWN"]
    /\ UNCHANGED <<rtEnv, rtMarker, rtBox, rtStarts, rtCall, rtStray, rtWk, rtReleased>>

\* ... the docker client runs ...
LaunchClient ==
    /\ rtRun.step = "launch"
    /\ rtRun' = [rtRun EXCEPT !.step = IF rtRun.cancelled THEN "clean" ELSE "client",
                              !.state = IF rtRun.cancelled THEN @ ELSE "RUNNING"]
    /\ UNCHANGED <<rtEnv, rtMarker, rtBox, rtStarts, rtCall, rtStray, rtWk, rtReleased, rtFaults>>

\* ... which creates the container, whose output becomes events ...
ContainerStarts ==
    /\ rtRun.step = "client"
    /\ rtRun' = [rtRun EXCEPT !.step = "attached"]
    /\ rtBox' = TRUE /\ rtStarts' = rtStarts + 1
    /\ UNCHANGED <<rtEnv, rtMarker, rtCall, rtStray, rtWk, rtReleased, rtFaults>>

EmitEvent ==
    /\ rtRun.step = "attached" /\ rtBox /\ rtRun.events < MaxRtEvents
    /\ \/ rtRun' = [rtRun EXCEPT !.events = @ + 1] /\ UNCHANGED rtFaults
       \/ rtRun' = [rtRun EXCEPT !.cancelled = TRUE] /\ RtFault   \* not an event: the run is cancelled
    /\ UNCHANGED <<rtEnv, rtMarker, rtBox, rtStarts, rtCall, rtStray, rtWk, rtReleased>>

\* ... until it exits and is removed, or the client fails or is stopped, which
\* may leave the container ...
ClientEnds ==
    /\ \/ rtRun.step = "attached" /\ rtBox' = FALSE
       \/ rtRun.step = "client" /\ UNCHANGED rtBox
       \/ rtRun.step = "attached" /\ rtRun.cancelled /\ UNCHANGED rtBox
    /\ rtRun' = [rtRun EXCEPT !.step = "clean"]
    /\ UNCHANGED <<rtEnv, rtMarker, rtStarts, rtCall, rtStray, rtWk, rtReleased, rtFaults>>

\* ... and the service proves that no container is left.
ExecuteEnds ==
    /\ rtRun.step = "clean"
    /\ \E ok \in BOOLEAN :
          /\ CleanUp(ok)
          /\ rtRun' = [rtRun EXCEPT !.step = "done", !.state = "EXITED",
                                    !.cleanup = IF ok THEN "CONFIRMED" ELSE "UNKNOWN"]
    /\ UNCHANGED <<rtEnv, rtMarker, rtStarts, rtCall, rtStray, rtWk, rtReleased>>

\* One page of the events after the Worker's cursor.
Page(c) ==
    LET upto == IF c.upto < rtRun.events THEN c.upto + 1 ELSE c.upto
    IN  [c EXCEPT !.pc = "answered", !.state = rtRun.state, !.cleanup = rtRun.cleanup,
                  !.upto = upto, !.more = upto < rtRun.events]

\* find: the run is looked up under the lock, the marker after it.
FindRun(c) ==
    /\ ~HasRun
    /\ To(c, "stat")
    /\ UNCHANGED <<rtEnv, svcVars, rtWk, rtFaults>>

FindMarker(c) ==
    /\ To(c, IF rtMarker THEN "docker" ELSE "error")
    /\ UNCHANGED <<rtEnv, svcVars, rtWk, rtFaults>>

\* GET /v1/runs
InspectRun(c) ==
    /\ HasRun
    /\ Move(c, Page(c))
    /\ UNCHANGED <<rtEnv, svcVars, rtWk, rtFaults>>

InspectUnknown(c) ==
    /\ \/ Answers(c, "UNKNOWN", IF rtBox THEN "PENDING" ELSE "CONFIRMED") /\ UNCHANGED rtFaults
       \/ RtFault /\ Answers(c, "UNKNOWN", "UNKNOWN")
    /\ UNCHANGED <<rtEnv, svcVars, rtWk>>

\* DELETE /v1/runs
StopRun(c) ==
    /\ HasRun
    /\ rtRun' = [rtRun EXCEPT !.cancelled = @ \/ rtRun.state # "EXITED"]
    /\ To(c, "wait")
    /\ UNCHANGED <<rtEnv, rtMarker, rtBox, rtStarts, rtWk, rtReleased, rtFaults>>

StopWaits(c) ==
    /\ \/ RunDone /\ Answers(c, rtRun.state, rtRun.cleanup) /\ UNCHANGED rtFaults
       \/ RtFault /\ Answers(c, "UNKNOWN", "UNKNOWN")
    /\ UNCHANGED <<rtEnv, svcVars, rtWk>>

StopUnknown(c) ==
    /\ \E ok \in BOOLEAN :
          /\ CleanUp(ok)
          /\ IF ok THEN Answers(c, "EXITED", "CONFIRMED") ELSE Answers(c, "UNKNOWN", "UNKNOWN")
    /\ UNCHANGED <<rtEnv, rtMarker, rtRun, rtStarts, rtWk, rtReleased>>

\* GET /v1/environments
InspectEnvironment(c) ==
    /\ \/ c.pc = "new" /\ RunLive /\ Answers(c, "ACTIVE", "PENDING") /\ UNCHANGED rtFaults
       \/ c.pc = "new" /\ ~RunLive /\ To(c, "docker") /\ UNCHANGED rtFaults
       \/ c.pc = "docker" /\ rtBox /\ Answers(c, "ACTIVE", "PENDING") /\ UNCHANGED rtFaults
       \/ c.pc = "docker" /\ ~rtBox /\ To(c, "stat") /\ UNCHANGED rtFaults
       \/ c.pc = "docker" /\ RtFault /\ Answers(c, "UNKNOWN", "UNKNOWN")
       \/ c.pc = "stat" /\ rtMarker /\ Answers(c, "RELEASED", "CONFIRMED") /\ UNCHANGED rtFaults
       \/ c.pc = "stat" /\ ~rtMarker /\ Answers(c, "PREPARED", "PENDING") /\ UNCHANGED rtFaults
    /\ UNCHANGED <<rtEnv, svcVars, rtWk>>

\* Mutant: the release does not fence.
FenceUnmarked(c) ==
    /\ UNCHANGED <<rtMarker, rtFaults>>
    /\ rtRun' = IF HasRun THEN [rtRun EXCEPT !.cancelled = TRUE] ELSE rtRun
    /\ To(c, IF HasRun THEN "wait" ELSE "docker")
    /\ UNCHANGED <<rtEnv, rtBox, rtStarts, rtWk, rtReleased>>

\* DELETE /v1/environments: a marker fences a late PUT, the run is cancelled
\* and waited for, and the container removed.
FenceEnvironment(c) ==
    /\ \/ /\ rtMarker' = TRUE /\ UNCHANGED rtFaults
          /\ rtRun' = IF HasRun THEN [rtRun EXCEPT !.cancelled = TRUE] ELSE rtRun
          /\ To(c, IF HasRun THEN "wait" ELSE "docker")
       \/ /\ ~rtMarker /\ RtFault
          /\ rtMarker' \in BOOLEAN
          /\ Answers(c, "UNKNOWN", "UNKNOWN") /\ UNCHANGED rtRun
    /\ UNCHANGED <<rtEnv, rtBox, rtStarts, rtWk, rtReleased>>

AwaitRun(c) ==
    /\ RunDone
    /\ To(c, "docker")
    /\ UNCHANGED <<rtEnv, svcVars, rtWk, rtFaults>>

ReleaseContainer(c) ==
    /\ \E ok \in BOOLEAN :
          /\ CleanUp(ok)
          /\ IF ok THEN Answers(c, "RELEASED", "CONFIRMED") ELSE Answers(c, "UNKNOWN", "UNKNOWN")
          /\ rtReleased' = (rtReleased \/ ok)
    /\ UNCHANGED <<rtEnv, rtMarker, rtRun, rtStarts, rtWk>>

\* The service dies: its runs and its handlers are gone, markers and the
\* container stay.  A docker client dies with it.
ServiceRestarts ==
    /\ RtFault
    /\ rtRun' = NoRun
    /\ rtCall' = IF rtCall.pc \in {"none", "answered"} THEN rtCall ELSE [rtCall EXCEPT !.pc = "error"]
    /\ rtStray' = {}
    /\ UNCHANGED <<rtEnv, rtMarker, rtBox, rtStarts, rtWk, rtReleased>>

Service ==
    \/ \E c \in Pending("put", "new") : CreateRun(c)
    \/ WriteEnvFile \/ LaunchClient \/ ContainerStarts \/ EmitEvent \/ ClientEnds \/ ExecuteEnds
    \/ \E c \in Pending("inspect", "new") : InspectRun(c) \/ FindRun(c)
    \/ \E c \in Pending("stop", "new") : StopRun(c) \/ FindRun(c)
    \/ \E c \in Pending("inspect", "stat") \cup Pending("stop", "stat") : FindMarker(c)
    \/ \E c \in Pending("inspect", "docker") : InspectUnknown(c)
    \/ \E c \in Pending("stop", "wait") : StopWaits(c)
    \/ \E c \in Pending("stop", "docker") : StopUnknown(c)
    \/ \E c \in {d \in {rtCall} \cup rtStray : d.op = "envget"} : InspectEnvironment(c)
    \/ \E c \in Pending("envdelete", "new") : FenceEnvironment(c)
    \/ \E c \in Pending("envdelete", "wait") : AwaitRun(c)
    \/ \E c \in Pending("envdelete", "docker") : ReleaseContainer(c)
    \/ ServiceRestarts

----------------------------------------------------------------------------
(* The Worker                                                              *)

Calling(op, pc) == rtCall' = [Request(op) EXCEPT !.upto = rtWk.seq] /\ rtWk' = [rtWk EXCEPT !.pc = pc]

Answered(op) == rtCall.op = op /\ rtCall.pc = "answered"

Failed(op) == rtCall.op = op /\ rtCall.pc = "error"

Quiet == UNCHANGED <<rtEnv, svcVars, rtStray>>

\* The environment's reference is durable before anything is asked of it; a
\* container needs a healthy service.
PrepareEnvironment ==
    /\ rtWk.pc = "prepare"
    /\ rtEnv' \in Environments
    /\ \/ rtWk' = [rtWk EXCEPT !.envRef = TRUE, !.pc = "start"] /\ UNCHANGED rtFaults
       \/ /\ rtEnv' = "container" /\ RtFault
          /\ rtWk' = [rtWk EXCEPT !.envRef = TRUE, !.pc = "release", !.runtime = "CONFIRMED"]
    /\ UNCHANGED <<svcVars, rtStray, rtCall>>

\* Start: the reference is journalled, then PUT is sent.
StartRun ==
    /\ rtWk.pc = "start"
    /\ rtCall' = Request("put")
    /\ rtWk' = [rtWk EXCEPT !.journalled = TRUE, !.pc = "put"]
    /\ UNCHANGED rtFaults /\ Quiet

Poll ==
    /\ rtWk.pc = "poll" /\ ~rtWk.cancelled
    /\ Calling("inspect", "polling")
    /\ UNCHANGED rtFaults /\ Quiet

PutAnswered ==
    /\ rtWk.pc = "put" /\ Answered("put")
    /\ rtCall' = NoCall /\ rtWk' = [rtWk EXCEPT !.pc = "poll"]
    /\ UNCHANGED rtFaults /\ Quiet

\* The events of a page follow the cursor; an exited run is read to the end.
PollAnswered ==
    /\ rtWk.pc = "polling" /\ Answered("inspect")
    /\ rtCall' = NoCall
    /\ rtWk' = [rtWk EXCEPT
                  !.seq = rtCall.upto,
                  !.complete = rtCall.state = "EXITED" /\ ~rtCall.more,
                  !.pc = IF rtCall.state \in {"STARTING", "RUNNING"} \/ (rtCall.state = "EXITED" /\ rtCall.more)
                         THEN "poll" ELSE "release",
                  !.runtime = IF rtCall.state = "EXITED" THEN rtCall.cleanup ELSE "UNKNOWN"]
    /\ UNCHANGED rtFaults /\ Quiet

\* A cancelled context, or an event that cannot be recorded, stops the run.
AbortRun ==
    /\ \/ rtWk.pc = "poll" /\ rtWk.cancelled /\ UNCHANGED rtFaults
       \/ rtWk.pc = "polling" /\ Answered("inspect") /\ rtCall.upto > rtWk.seq /\ RtFault
    /\ Calling("stop", "stopping")
    /\ Quiet

StopAnswered ==
    /\ rtWk.pc = "stopping" /\ Answered("stop")
    /\ rtCall' = NoCall
    /\ rtWk' = [rtWk EXCEPT !.runtime = rtCall.cleanup,
                            !.pc = IF rtWk.clean = "recovering" THEN "envget" ELSE "release"]
    /\ UNCHANGED rtFaults /\ Quiet

\* A request that failed, or that is given up: its handler goes on.
CallFails ==
    /\ \/ rtCall.pc = "error" /\ UNCHANGED <<rtStray, rtFaults>>
       \/ /\ rtCall.pc \notin {"none", "answered", "error"}
          /\ RtFault /\ rtStray' = rtStray \cup {rtCall}
    /\ rtCall' = NoCall
    /\ rtWk' =
         CASE rtWk.pc \in {"put", "polling", "stopping"} /\ rtWk.clean # "recovering" ->
                 [rtWk EXCEPT !.runtime = "UNKNOWN",
                              !.pc = IF rtWk.pc = "polling" /\ rtWk.cancelled THEN "poll" ELSE "release"]
           [] rtWk.pc \in {"inspecting", "stopping"} /\ rtWk.clean = "recovering" ->
                 [rtWk EXCEPT !.pc = "envget",
                              !.runtime = IF rtWk.pc = "inspecting" THEN "UNKNOWN" ELSE @]
           [] OTHER -> [rtWk EXCEPT !.environment = IF rtWk.pc = "recoverRelease" THEN @ ELSE "UNKNOWN",
                                    !.pc = "complete"]
    /\ UNCHANGED <<rtEnv, svcVars>>

\* A stop, a deadline or a lost lease cancels the context.
CancelRun ==
    /\ rtWk.pc \in {"put", "poll", "polling"} /\ ~rtWk.cancelled
    /\ rtWk' = [rtWk EXCEPT !.cancelled = TRUE]
    /\ UNCHANGED <<rtCall, rtFaults>> /\ Quiet

\* releaseEnvironment: the process environment owns nothing.
ReleaseEnvironment ==
    /\ rtWk.pc = "release"
    /\ IF rtEnv = "container"
       THEN Calling("envdelete", "releasing")
       ELSE rtWk' = [rtWk EXCEPT !.environment = "CONFIRMED", !.pc = "complete"] /\ UNCHANGED rtCall
    /\ UNCHANGED rtFaults /\ Quiet

ReleaseAnswered ==
    /\ rtWk.pc \in {"releasing", "recoverRelease"} /\ Answered("envdelete")
    /\ rtCall' = NoCall
    /\ rtWk' = [rtWk EXCEPT !.pc = "complete",
                            !.environment = IF rtCall.state = "RELEASED" THEN "CONFIRMED"
                                            ELSE IF rtWk.pc = "recoverRelease" THEN @ ELSE "UNKNOWN"]
    /\ UNCHANGED rtFaults /\ Quiet

\* The completion says that nothing is left when both sides confirmed it.
Complete ==
    /\ rtWk.pc = "complete"
    /\ rtWk' = [rtWk EXCEPT !.pc = "done",
                            !.clean = IF rtWk.runtime = "CONFIRMED" /\ rtWk.environment = "CONFIRMED"
                                      THEN "yes" ELSE "no"]
    /\ UNCHANGED <<rtCall, rtFaults>> /\ Quiet

\* The Worker dies; the new process recovers from its journal.  The workspace
\* is in use by now, so a run without a reference proves nothing.
WorkerRestarts ==
    /\ rtWk.pc # "done" /\ rtWk.clean # "recovering" /\ RtFault
    /\ rtStray' = IF rtCall.pc \in {"none", "answered", "error"} THEN rtStray ELSE rtStray \cup {rtCall}
    /\ rtCall' = NoCall
    /\ rtWk' = [rtWk EXCEPT !.pc = IF rtWk.journalled THEN "inspect" ELSE "envget",
                            !.clean = "recovering", !.complete = FALSE, !.runtime = "UNKNOWN"]
    /\ UNCHANGED <<rtEnv, svcVars>>

\* recover: inspect the run, and stop one that is running ...
RecoverInspect ==
    /\ rtWk.pc = "inspect"
    /\ Calling("inspect", "inspecting")
    /\ UNCHANGED rtFaults /\ Quiet

RecoverAnswered ==
    /\ rtWk.pc = "inspecting" /\ Answered("inspect")
    /\ IF rtCall.state = "RUNNING"
       THEN Calling("stop", "stopping")
       ELSE rtCall' = NoCall /\ rtWk' = [rtWk EXCEPT !.runtime = rtCall.cleanup, !.pc = "envget"]
    /\ UNCHANGED rtFaults /\ Quiet

\* ... then its environment, releasing what is not known to be released.
RecoverEnvironment ==
    /\ rtWk.pc = "envget"
    /\ IF rtEnv = "container" /\ rtWk.envRef
       THEN Calling("envget", "envgetting")
       ELSE rtWk' = [rtWk EXCEPT !.environment = "CONFIRMED", !.pc = "complete"] /\ UNCHANGED rtCall
    /\ UNCHANGED rtFaults /\ Quiet

RecoverRelease ==
    /\ rtWk.pc = "envgetting" /\ Answered("envget")
    /\ IF rtCall.cleanup = "CONFIRMED"
       THEN rtCall' = NoCall /\ rtWk' = [rtWk EXCEPT !.environment = "CONFIRMED", !.pc = "complete"]
       ELSE /\ rtCall' = Request("envdelete")
            /\ rtWk' = [rtWk EXCEPT !.environment = rtCall.cleanup, !.pc = "recoverRelease"]
    /\ UNCHANGED rtFaults /\ Quiet

\* A PUT may be delivered again.
RepeatPut ==
    /\ rtCall.op = "put" /\ rtStray = {} /\ RtFault
    /\ rtStray' = {Request("put")}
    /\ UNCHANGED <<rtEnv, svcVars, rtCall, rtWk>>

RemoteNext ==
    \/ Service
    \/ PrepareEnvironment \/ StartRun \/ PutAnswered \/ Poll \/ PollAnswered \/ AbortRun \/ StopAnswered
    \/ CallFails \/ CancelRun \/ ReleaseEnvironment \/ ReleaseAnswered \/ Complete
    \/ WorkerRestarts \/ RecoverInspect \/ RecoverAnswered \/ RecoverEnvironment \/ RecoverRelease
    \/ RepeatPut

----------------------------------------------------------------------------
Cleanups == {"UNKNOWN", "PENDING", "CONFIRMED"}

RunRow == [step : {"none", "env", "launch", "client", "attached", "clean", "done"},
           state : {"UNKNOWN", "STARTING", "RUNNING", "EXITED"}, cleanup : Cleanups,
           cancelled : BOOLEAN, events : 0..MaxRtEvents]

RtRequestRow == [op : {"none", "put", "inspect", "stop", "envget", "envdelete"},
                 pc : {"none", "new", "stat", "docker", "wait", "answered", "error"},
                 state : {"", "UNKNOWN", "STARTING", "RUNNING", "EXITED", "ACTIVE", "PREPARED",
                          "RELEASED"},
                 cleanup : Cleanups \cup {""}, upto : 0..MaxRtEvents, more : BOOLEAN]

ExecutionRow == [pc : {"prepare", "start", "put", "poll", "polling", "stopping", "release", "releasing",
                       "complete", "done", "inspect", "inspecting", "envget", "envgetting", "recoverRelease"},
                 journalled : BOOLEAN, envRef : BOOLEAN, cancelled : BOOLEAN, seq : 0..MaxRtEvents,
                 complete : BOOLEAN, runtime : Cleanups \cup {""}, environment : Cleanups \cup {""},
                 clean : {"", "recovering", "yes", "no"}]

RemoteTypeOK ==
    /\ rtEnv \in Environments \cup {"none"} /\ rtMarker \in BOOLEAN /\ rtBox \in BOOLEAN
    /\ rtStarts \in Nat /\ rtReleased \in BOOLEAN /\ rtFaults \in 0..MaxRtFaults
    /\ rtRun \in RunRow
    /\ rtCall \in RtRequestRow /\ rtStray \subseteq RtRequestRow
    /\ rtWk \in ExecutionRow

(* A container of the Attempt is started at most once, whatever is repeated *)
(* or restarted; once the service confirmed the release of the environment, *)
(* or a completion in a container environment said that nothing is left, no *)
(* container exists and no request still under way can start one; and a     *)
(* Worker that takes a run for exited has read all of its events.           *)
RemoteRunSound ==
    /\ rtStarts <= 1
    /\ rtReleased \/ (rtWk.clean = "yes" /\ rtEnv = "container") => rtMarker /\ ~RunLive /\ ~rtBox
    /\ rtWk.complete => rtWk.seq = rtRun.events \/ ~HasRun

RemoteSpec == RemoteInit /\ [][RemoteNext]_rtVars
=============================================================================
