----------------------------- MODULE MCServices -----------------------------
(***************************************************************************)
(* Instances, for TLC, of the services around the Attempts: Goals, the     *)
(* model gateway, the relay, the workspaces of a Worker, the HTTP runtime  *)
(* and its environments, the scheduler and the conversation endpoint.  One *)
(* of them moves in a behaviour, chosen at the start, and the others keep  *)
(* their initial state.                                                    *)
(***************************************************************************)
EXTENDS Goals, Gateway, Relay, Workspaces, RemoteRuntime, FairSchedule, Conversations

CONSTANT Parts   \* the components that are looked at

VARIABLE part    \* the one that moves

MCPlans == {[strategy |-> "s", spec |-> 1], [strategy |-> "s", spec |-> 2]}

MCProgress == {[accepted |-> 0, failed |-> 1]}

MCLimits == {[attempts |-> 2, replans |-> 2, cost |-> 2]}

\* Two groups of one project, and one of another with a higher priority.
MCGroups == <<[project |-> 1, base |-> 0], [project |-> 1, base |-> 0], [project |-> 2, base |-> 1]>>

\* Total is the sum: checked on small functions.
ASSUME TotalAdds == \A f \in [1 .. 3 -> 0 .. 3] : Total(f) = SumFunction(f)

----------------------------------------------------------------------------
MCInit ==
    /\ part \in Parts
    /\ GoalsInit /\ GatewayInit /\ RelayInit /\ WorkspacesInit /\ RemoteInit /\ FairInit
    /\ ConversationsInit

MCNext ==
    /\ UNCHANGED part
    /\ \/ part = "goals" /\ GoalsNext /\ UNCHANGED <<gwVars, relayVars, wsVars, rtVars, fsVars, cvVars>>
       \/ part = "gateway" /\ GatewayNext /\ UNCHANGED <<goalVars, relayVars, wsVars, rtVars, fsVars, cvVars>>
       \/ part = "relay" /\ RelayNext /\ UNCHANGED <<goalVars, gwVars, wsVars, rtVars, fsVars, cvVars>>
       \/ part = "workspaces" /\ WorkspacesNext /\ UNCHANGED <<goalVars, gwVars, relayVars, rtVars, fsVars, cvVars>>
       \/ part = "remote" /\ RemoteNext /\ UNCHANGED <<goalVars, gwVars, relayVars, wsVars, fsVars, cvVars>>
       \/ part = "schedule" /\ FairNext /\ UNCHANGED <<goalVars, gwVars, relayVars, wsVars, rtVars, cvVars>>
       \/ part = "conversations" /\ ConversationsNext /\ UNCHANGED <<goalVars, gwVars, relayVars, wsVars, rtVars, fsVars>>

MCSpec == MCInit /\ [][MCNext]_<<part, goalVars, gwVars, relayVars, wsVars, rtVars, fsVars, cvVars>>

\* The type invariant of the services: among others, what the Broker counts as
\* a Worker's pairs never falls below zero (release).
ServicesTypeOK ==
    /\ GoalsTypeOK /\ GatewayTypeOK /\ RelayTypeOK /\ WorkspacesTypeOK
    /\ RemoteTypeOK /\ FairTypeOK /\ ConversationsTypeOK
=============================================================================
