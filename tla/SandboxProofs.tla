--------------------------- MODULE SandboxProofs ---------------------------
(***************************************************************************)
(* What an Attempt runs in: proofs about the Worker's workspaces and about *)
(* the containers of the HTTP runtime service, for any number of Attempts, *)
(* events and faults, and every number of warm slots Prewarm allows.       *)
(***************************************************************************)
EXTENDS Workspaces, RemoteRuntime, TLAPS

----------------------------------------------------------------------------
(* Workspaces *)

\* Where its preparation is says what the row of a workspace may be.
RowFollowsStep ==
    \A a \in WsAttempts :
        /\ wsPc[a] = "idle" => wsRow[a] = "none" /\ a \notin LegacyAttempts
        /\ wsRow[a] = "none" => wsPc[a] = "idle" \/ a \in LegacyAttempts
        /\ wsPc[a] \in {"begun", "shared", "miss", "exclusive", "delete"} =>
              wsRow[a] = "PREPARING"
        /\ wsPc[a] = "ready" => wsRow[a] \in {"PREPARING", "READY"} /\ wsDir[a] = "good"
        /\ wsPc[a] = "delivered" => wsRow[a] \in {"READY", "IN_USE"}

WorkspacesInv == WorkspacesTypeOK /\ RowFollowsStep /\ WorkspaceSound

LEMMA WorkspacesInvInit == WorkspacesInit => WorkspacesInv
<1> SUFFICES ASSUME WorkspacesInit
             PROVE  WorkspacesInv
    OBVIOUS
<1>1. \A a \in WsAttempts :
        /\ wsRow[a] = "none"
        /\ wsDir[a] = IF a \in LegacyAttempts THEN "good" ELSE "none"
        /\ wsPc[a] = IF a \in LegacyAttempts THEN "over" ELSE "idle"
    BY DEF WorkspacesInit
<1>2. WorkspacesTypeOK
    <2>1. wsFaults \in 0 .. MaxFaultsWs
        BY WorkspacesAssumption DEF WorkspacesInit
    <2>2. /\ wsDir \in [WsAttempts -> Trees \cup {"partial"}]
          /\ wsPc \in [WsAttempts -> {"idle", "begun", "shared", "miss", "exclusive", "ready",
                                      "delete", "delivered", "over"}]
        BY DEF WorkspacesInit, Trees
    <2> QED BY <2>1, <2>2, WorkspacesAssumption DEF WorkspacesInit, WorkspacesTypeOK, Trees
<1>3. RowFollowsStep /\ WorkspaceSound
    BY <1>1 DEF RowFollowsStep, WorkspaceSound
<1> QED BY <1>2, <1>3 DEF WorkspacesInv

\* A step of one workspace, by what it does to its row, directory and place.
Moved(a, row, dir, pc) ==
    /\ wsRow' = [wsRow EXCEPT ![a] = row]
    /\ wsDir' = [wsDir EXCEPT ![a] = dir]
    /\ wsPc' = [wsPc EXCEPT ![a] = pc]

LEMMA WorkspaceMoves ==
    ASSUME WorkspacesInv, NEW a \in WsAttempts, NEW row, NEW dir, NEW pc,
           Moved(a, row, dir, pc),
           row \in {"none", "PREPARING", "READY", "IN_USE", "RETAINED",
                    "QUARANTINED", "DELETING", "DELETED"},
           dir \in Trees \cup {"partial"},
           pc \in {"idle", "begun", "shared", "miss", "exclusive", "ready",
                   "delete", "delivered", "over"},
           pc # "idle", row # "none",
           pc \in {"begun", "shared", "miss", "exclusive", "delete"} => row = "PREPARING",
           pc = "ready" => row \in {"PREPARING", "READY"} /\ dir = "good",
           pc = "delivered" => row \in {"READY", "IN_USE"},
           row \in {"READY", "IN_USE"} => dir = "good",
           row = "DELETED" => dir = "none"
    PROVE  /\ wsRow' \in [WsAttempts -> {"none", "PREPARING", "READY", "IN_USE", "RETAINED",
                                         "QUARANTINED", "DELETING", "DELETED"}]
           /\ wsDir' \in [WsAttempts -> Trees \cup {"partial"}]
           /\ wsPc' \in [WsAttempts -> {"idle", "begun", "shared", "miss", "exclusive", "ready",
                                        "delete", "delivered", "over"}]
           /\ RowFollowsStep' /\ WorkspaceSound'
<1>1. /\ wsRow' \in [WsAttempts -> {"none", "PREPARING", "READY", "IN_USE", "RETAINED",
                                    "QUARANTINED", "DELETING", "DELETED"}]
      /\ wsDir' \in [WsAttempts -> Trees \cup {"partial"}]
      /\ wsPc' \in [WsAttempts -> {"idle", "begun", "shared", "miss", "exclusive", "ready",
                                   "delete", "delivered", "over"}]
      /\ wsRow'[a] = row /\ wsDir'[a] = dir /\ wsPc'[a] = pc
      /\ \A b \in WsAttempts \ {a} :
            wsRow'[b] = wsRow[b] /\ wsDir'[b] = wsDir[b] /\ wsPc'[b] = wsPc[b]
    BY DEF WorkspacesInv, WorkspacesTypeOK, Moved
<1>2. RowFollowsStep'
    BY <1>1 DEF WorkspacesInv, RowFollowsStep
<1>3. WorkspaceSound'
    BY <1>1 DEF WorkspacesInv, WorkspaceSound
<1> QED BY <1>1, <1>2, <1>3

\* What the invariant says of one workspace.
LEMMA WorkspaceFacts ==
    ASSUME WorkspacesInv, NEW a \in WsAttempts
    PROVE  /\ wsRow[a] \in {"none", "PREPARING", "READY", "IN_USE", "RETAINED",
                            "QUARANTINED", "DELETING", "DELETED"}
           /\ wsDir[a] \in Trees \cup {"partial"}
           /\ wsRow = [wsRow EXCEPT ![a] = wsRow[a]]
           /\ wsDir = [wsDir EXCEPT ![a] = wsDir[a]]
           /\ wsPc = [wsPc EXCEPT ![a] = wsPc[a]]
           /\ wsPc[a] = "idle" => wsRow[a] = "none" /\ a \notin LegacyAttempts
           /\ wsRow[a] = "none" => wsPc[a] = "idle" \/ a \in LegacyAttempts
           /\ wsPc[a] \in {"begun", "shared", "miss", "exclusive", "delete"} =>
                 wsRow[a] = "PREPARING"
           /\ wsPc[a] = "ready" => wsRow[a] \in {"PREPARING", "READY"} /\ wsDir[a] = "good"
           /\ wsPc[a] = "delivered" => wsRow[a] \in {"READY", "IN_USE"}
           /\ wsRow[a] \in {"READY", "IN_USE"} => wsDir[a] = "good"
           /\ wsRow[a] = "DELETED" => wsDir[a] = "none"
           /\ wsRow[a] = "none" /\ a \notin LegacyAttempts => wsDir[a] = "none"
BY DEF WorkspacesInv, WorkspacesTypeOK, RowFollowsStep, WorkspaceSound

\* The cache, the lock and the journal of completed runs keep their types.
Shelf ==
    /\ wsDone \subseteq WsAttempts
    /\ cacheTree \in Trees /\ cacheOld \in BOOLEAN /\ tombstone \in BOOLEAN
    /\ warmPool \in [{1, 2} -> Trees] \cup {<<>>}
    /\ cacheLock \subseteq WsAttempts \cup {Collector}
    /\ wsFaults \in 0 .. MaxFaultsWs

LEMMA PoolTyped ==
    ASSUME warmPool \in [{1, 2} -> Trees] \cup {<<>>}
    PROVE  /\ FullSlots \subseteq {1, 2}
           /\ \A i \in FullSlots : warmPool \in [{1, 2} -> Trees] /\ warmPool[i] \in Trees
<1>1. CASE warmPool \in [{1, 2} -> Trees]
    BY <1>1 DEF FullSlots
<1>2. CASE warmPool = <<>>
    <2>1. DOMAIN warmPool = {}
        BY <1>2
    <2> QED BY <2>1 DEF FullSlots
<1> QED BY <1>1, <1>2

LEMMA PrepareKeeps ==
    ASSUME WorkspacesInv, NEW a \in WsAttempts,
           \/ RegisterWorkspace(a)
           \/ LookShared(a)
           \/ LockExclusive(a)
           \/ \E quota \in BOOLEAN : MarkReady(a, quota)
           \/ Prewarm(a)
           \/ MarkInUse(a)
    PROVE  WorkspacesInv'
<1> USE WorkspaceFacts
<1>1. Shelf
    BY DEF WorkspacesInv, WorkspacesTypeOK, Shelf
<1>2. ASSUME Shelf', NEW row, NEW dir, NEW pc, Moved(a, row, dir, pc),
             row \in {"PREPARING", "READY", "IN_USE"},
             dir \in Trees \cup {"partial"},
             pc \in {"begun", "shared", "miss", "exclusive", "ready", "delete", "delivered"},
             pc \in {"begun", "shared", "miss", "exclusive", "delete"} => row = "PREPARING",
             pc = "ready" => row \in {"PREPARING", "READY"} /\ dir = "good",
             pc = "delivered" => row \in {"READY", "IN_USE"},
             row \in {"READY", "IN_USE"} => dir = "good"
      PROVE  WorkspacesInv'
    BY <1>2, WorkspaceMoves DEF WorkspacesInv, WorkspacesTypeOK, Shelf
<1>3. CASE RegisterWorkspace(a)
    <2>1. Shelf' /\ wsPc[a] = "idle"
        BY <1>1, <1>3 DEF RegisterWorkspace, Shelf
    <2>2. Moved(a, "PREPARING", wsDir[a], "begun")
        BY <1>3 DEF RegisterWorkspace, Moved
    <2> QED BY <1>2, <2>1, <2>2
<1>4. CASE LookShared(a)
    <2>1. Shelf' /\ wsPc[a] = "begun"
        BY <1>1, <1>4 DEF LookShared, Shelf
    <2>2. Moved(a, wsRow[a], "partial", "shared") \/ Moved(a, wsRow[a], wsDir[a], "miss")
        BY <1>4 DEF LookShared, Moved
    <2> QED BY <1>2, <2>1, <2>2
<1>5. CASE LockExclusive(a)
    <2>1. Shelf' /\ wsPc[a] = "miss"
        BY <1>1, <1>5 DEF LockExclusive, Shelf, Trees
    <2>2. Moved(a, wsRow[a], wsDir[a], "exclusive")
        BY <1>5 DEF LockExclusive, Moved
    <2> QED BY <1>2, <2>1, <2>2
<1>6. CASE \E quota \in BOOLEAN : MarkReady(a, quota)
    <2>1. Shelf' /\ wsPc[a] = "ready" /\ wsRow[a] = "PREPARING"
        BY <1>1, <1>6 DEF MarkReady, Shelf
    <2>2. Moved(a, "READY", wsDir[a], wsPc[a]) \/ Moved(a, wsRow[a], wsDir[a], "delete")
        BY <1>6 DEF MarkReady, Moved
    <2> QED BY <1>2, <2>1, <2>2
<1>7. CASE Prewarm(a)
    <2>1. warmPool' \in [{1, 2} -> Trees] \cup {<<>>}
        BY <1>1, <1>7, PoolTyped DEF Prewarm, Shelf, Trees
    <2>2. Shelf' /\ wsPc[a] = "ready" /\ wsRow[a] = "READY"
        BY <1>1, <1>7, <2>1 DEF Prewarm, Shelf
    <2>3. Moved(a, wsRow[a], wsDir[a], "delivered")
        BY <1>7 DEF Prewarm, Moved
    <2> QED BY <1>2, <2>2, <2>3
<1>8. CASE MarkInUse(a)
    <2>1. Shelf' /\ wsPc[a] = "delivered" /\ wsRow[a] = "READY"
        BY <1>1, <1>8 DEF MarkInUse, Shelf
    <2>2. Moved(a, "IN_USE", wsDir[a], wsPc[a])
        BY <1>8 DEF MarkInUse, Moved
    <2> QED BY <1>2, <2>1, <2>2
<1> QED BY <1>3, <1>4, <1>5, <1>6, <1>7, <1>8

\* A workspace is handed over with the verified content of its source, or given up.
LEMMA DeliverKeeps ==
    ASSUME WorkspacesInv, NEW a \in WsAttempts, CopyShared(a) \/ MaterializeExclusive(a)
    PROVE  WorkspacesInv'
<1>1. /\ wsPc[a] \in {"shared", "exclusive"}
      /\ UNCHANGED <<wsRow, wsDone, cacheTree, tombstone, wsFaults>>
    BY DEF CopyShared, MaterializeExclusive
<1>2. Shelf
    BY DEF WorkspacesInv, WorkspacesTypeOK, Shelf
<1>3. /\ warmPool' \in [{1, 2} -> Trees] \cup {<<>>}
      /\ \E ok \in BOOLEAN : Deliver(a, ok)
    <2>1. CASE CopyShared(a)
        BY <1>2, <2>1 DEF CopyShared, Shelf
    <2>2. CASE MaterializeExclusive(a)
        <3>1. ASSUME NEW i \in FullSlots, TakeWarm(a, i)
              PROVE  /\ warmPool' \in [{1, 2} -> Trees] \cup {<<>>}
                     /\ \E ok \in BOOLEAN : Deliver(a, ok)
            BY <1>2, <3>1, PoolTyped DEF TakeWarm, Shelf, Trees
        <3> QED BY <1>2, <2>2, <3>1 DEF MaterializeExclusive, Shelf
    <2> QED BY <2>1, <2>2
<1>4. PICK ok \in BOOLEAN : Deliver(a, ok)
    BY <1>3
<1>5. Shelf'
    BY <1>1, <1>2, <1>3, <1>4 DEF Shelf, Deliver
<1> DEFINE dir == IF ok THEN "good" ELSE "none"
           pc == IF ok THEN "ready" ELSE "delete"
<1>6. Moved(a, wsRow[a], dir, pc)
    BY <1>1, <1>4, WorkspaceFacts DEF Deliver, Moved
<1>7. wsRow[a] = "PREPARING"
    BY <1>1, WorkspaceFacts
<1> QED BY <1>5, <1>6, <1>7, WorkspaceMoves
        DEF WorkspacesInv, WorkspacesTypeOK, Shelf, Trees

LEMMA EndKeeps ==
    ASSUME WorkspacesInv, NEW a \in WsAttempts,
           \/ \E confirmed \in BOOLEAN : Finalize(a, confirmed) \/ AdoptLegacy(a, confirmed)
           \/ StartDelete(a)
           \/ RemoveWorkspace(a)
           \/ EndDelete(a)
    PROVE  WorkspacesInv'
<1> USE WorkspaceFacts
<1>1. Shelf'
    BY DEF WorkspacesInv, WorkspacesTypeOK, Shelf, Finalize, AdoptLegacy, StartDelete,
           RemoveWorkspace, EndDelete
<1>2. ASSUME NEW row, NEW dir, NEW pc, Moved(a, row, dir, pc), pc = "over",
             row \in {"RETAINED", "QUARANTINED", "DELETING", "DELETED"},
             dir \in Trees \cup {"partial"},
             row = "DELETED" => dir = "none"
      PROVE  WorkspacesInv'
    BY <1>1, <1>2, WorkspaceMoves DEF WorkspacesInv, WorkspacesTypeOK, Shelf
<1>3. wsPc[a] \in {"idle", "begun", "shared", "miss", "exclusive", "ready", "delete",
                   "delivered", "over"}
    BY DEF WorkspacesInv, WorkspacesTypeOK
<1>4. ASSUME NEW confirmed \in BOOLEAN, Finalize(a, confirmed)
      PROVE  WorkspacesInv'
    <2> DEFINE row == IF wsRow[a] \notin Live THEN wsRow[a]
                      ELSE IF confirmed THEN "RETAINED" ELSE "QUARANTINED"
    <2>1. Moved(a, row, wsDir[a], "over") /\ wsPc[a] \in {"delivered", "over"}
        BY <1>4 DEF Finalize, Moved
    <2>2. row \in {"none", "RETAINED", "QUARANTINED", "DELETING", "DELETED"}
          /\ (row = "DELETED" => wsDir[a] = "none") /\ (row = "none" => wsRow[a] = "none")
        BY DEF Live
    <2> HIDE DEF row
    <2>3. CASE row # "none"
        BY <1>2, <2>1, <2>2, <2>3
    <2>4. CASE row = "none"
        <3>1. wsRow[a] = "none" /\ a \in LegacyAttempts /\ wsPc[a] = "over"
            BY <2>1, <2>2, <2>4
        <3>2. wsRow' = wsRow /\ wsDir' = wsDir /\ wsPc' = wsPc
            BY <2>1, <2>4, <3>1 DEF Moved
        <3> QED BY <1>1, <3>2
                DEF WorkspacesInv, WorkspacesTypeOK, Shelf, RowFollowsStep, WorkspaceSound
    <2> QED BY <2>3, <2>4
<1>5. ASSUME NEW confirmed \in BOOLEAN, AdoptLegacy(a, confirmed)
      PROVE  WorkspacesInv'
    <2> DEFINE row == IF confirmed THEN "RETAINED" ELSE "QUARANTINED"
    <2>1. wsPc[a] = "over"
        BY <1>5, <1>3 DEF AdoptLegacy
    <2>2. Moved(a, row, wsDir[a], wsPc[a])
        BY <1>5 DEF AdoptLegacy, Moved
    <2> QED BY <1>2, <2>1, <2>2
<1>6. CASE StartDelete(a)
    <2>1. Moved(a, "DELETING", wsDir[a], "over")
        BY <1>6 DEF StartDelete, Moved
    <2> QED BY <1>2, <2>1
<1>7. CASE RemoveWorkspace(a) \/ EndDelete(a)
    <2>1. wsPc[a] = "over"
        BY <1>3, <1>7 DEF RemoveWorkspace, EndDelete
    <2>2. CASE RemoveWorkspace(a)
        <3>1. Moved(a, "DELETING", "none", "over")
            BY <2>1, <2>2 DEF RemoveWorkspace, Moved
        <3> QED BY <1>2, <3>1 DEF Trees
    <2>3. CASE EndDelete(a)
        <3>1. Moved(a, "DELETED", "none", "over")
            BY <2>1, <2>3 DEF EndDelete, Moved
        <3> QED BY <1>2, <3>1 DEF Trees
    <2> QED BY <1>7, <2>2, <2>3
<1> QED BY <1>4, <1>5, <1>6, <1>7

\* The cache is collected, ages or is corrupted; no workspace is touched.
LEMMA CacheKeeps ==
    ASSUME WorkspacesInv,
           StartCollect \/ EvictTemplate \/ EndCollect \/ AgeTemplate \/ Corrupt
    PROVE  WorkspacesInv'
<1>1. UNCHANGED <<wsRow, wsDir, wsPc, wsDone>>
    BY DEF StartCollect, EvictTemplate, EndCollect, AgeTemplate, Corrupt
<1>2. Shelf
    BY DEF WorkspacesInv, WorkspacesTypeOK, Shelf
<1>3. Shelf'
    <2>1. CASE Corrupt
        <3>1. wsFaults' \in 0 .. MaxFaultsWs
            BY <1>2, <2>1, WorkspacesAssumption DEF Corrupt, WsFault, Shelf
        <3>2. warmPool' \in [{1, 2} -> Trees] \cup {<<>>} /\ cacheTree' \in Trees
            BY <1>2, <2>1, PoolTyped DEF Corrupt, Shelf, Trees
        <3> QED BY <1>2, <2>1, <3>1, <3>2 DEF Corrupt, Shelf
    <2>2. CASE StartCollect \/ EvictTemplate \/ EndCollect \/ AgeTemplate
        BY <1>1, <1>2, <2>2 DEF Shelf, StartCollect, EvictTemplate, EndCollect, AgeTemplate, Trees
    <2> QED BY <2>1, <2>2
<1> QED BY <1>1, <1>3
        DEF WorkspacesInv, WorkspacesTypeOK, Shelf, RowFollowsStep, WorkspaceSound

\* A crash cuts off what was under way; a directory it leaves unfinished has
\* a row that says PREPARING.
LEMMA CrashKeeps ==
    ASSUME WorkspacesInv, WorkerCrashes
    PROVE  WorkspacesInv'
<1>1. Shelf'
    <2>1. wsFaults' \in 0 .. MaxFaultsWs
        BY WorkspacesAssumption DEF WorkspacesInv, WorkspacesTypeOK, WorkerCrashes, WsFault
    <2> QED BY <2>1 DEF WorkspacesInv, WorkspacesTypeOK, Shelf, WorkerCrashes
<1>2. PICK cut \in BOOLEAN :
        wsDir' = [a \in WsAttempts |->
                     IF wsPc[a] = "exclusive" /\ cut THEN "partial" ELSE wsDir[a]]
    BY DEF WorkerCrashes
<1>3. wsRow' = wsRow
      /\ wsPc' = [a \in WsAttempts |-> IF wsPc[a] = "idle" THEN "idle" ELSE "over"]
    BY DEF WorkerCrashes
<1>4. \A a \in WsAttempts :
        /\ wsPc'[a] = IF wsPc[a] = "idle" THEN "idle" ELSE "over"
        /\ wsDir'[a] = wsDir[a] \/ (wsRow[a] = "PREPARING" /\ wsDir'[a] = "partial")
    BY <1>2, <1>3, WorkspaceFacts
<1>5. /\ wsPc' \in [WsAttempts -> {"idle", "begun", "shared", "miss", "exclusive", "ready",
                                   "delete", "delivered", "over"}]
      /\ wsDir' \in [WsAttempts -> Trees \cup {"partial"}]
    BY <1>2, <1>3, WorkspaceFacts
<1>6. RowFollowsStep'
    BY <1>3, <1>4 DEF WorkspacesInv, RowFollowsStep
<1>7. WorkspaceSound'
    BY <1>3, <1>4 DEF WorkspacesInv, WorkspaceSound
<1> QED BY <1>1, <1>3, <1>5, <1>6, <1>7 DEF WorkspacesInv, WorkspacesTypeOK, Shelf

LEMMA WorkspacesInvStep == WorkspacesInv /\ [WorkspacesNext]_wsVars => WorkspacesInv'
<1> SUFFICES ASSUME WorkspacesInv, [WorkspacesNext]_wsVars
             PROVE  WorkspacesInv'
    OBVIOUS
<1>1. CASE UNCHANGED wsVars
    BY <1>1 DEF wsVars, WorkspacesInv, WorkspacesTypeOK, RowFollowsStep, WorkspaceSound
<1>2. ASSUME NEW a \in WsAttempts,
             \/ RegisterWorkspace(a)
             \/ LookShared(a)
             \/ LockExclusive(a)
             \/ \E quota \in BOOLEAN : MarkReady(a, quota)
             \/ Prewarm(a)
             \/ MarkInUse(a)
      PROVE  WorkspacesInv'
    BY <1>2, PrepareKeeps
<1>3. ASSUME NEW a \in WsAttempts, CopyShared(a) \/ MaterializeExclusive(a)
      PROVE  WorkspacesInv'
    BY <1>3, DeliverKeeps
<1>4. ASSUME NEW a \in WsAttempts,
             \/ \E confirmed \in BOOLEAN : Finalize(a, confirmed) \/ AdoptLegacy(a, confirmed)
             \/ StartDelete(a)
             \/ RemoveWorkspace(a)
             \/ EndDelete(a)
      PROVE  WorkspacesInv'
    BY <1>4, EndKeeps
<1> QED BY <1>1, <1>2, <1>3, <1>4, CacheKeeps, CrashKeeps DEF WorkspacesNext

\* The row of a workspace is in step with its preparation and its directory
\* (prepareWorkspace, deleteWorkspace, reconcileWorkspaceLifecycle).
THEOREM WorkspacesSafe == WorkspacesSpec => []WorkspacesInv
BY WorkspacesInvInit, WorkspacesInvStep, PTL DEF WorkspacesSpec

\* The rows, directories, locks and trees of the cache stay well formed
\* (workspaces table, CacheManager).
THEOREM WorkspacesTyped == WorkspacesSpec => []WorkspacesTypeOK
<1>1. WorkspacesInv => WorkspacesTypeOK
    BY DEF WorkspacesInv
<1> QED BY <1>1, WorkspacesSafe, PTL

\* For any number of Attempts, crashes and corruptions: an Attempt
\* works in verified content that nothing removes under it, and what its row
\* says is deleted is gone (prepareWorkspace, takeWarm, deleteWorkspace).
THEOREM WorkspacesSound == WorkspacesSpec => []WorkspaceSound
<1>1. WorkspacesInv => WorkspaceSound
    BY DEF WorkspacesInv
<1> QED BY <1>1, WorkspacesSafe, PTL

----------------------------------------------------------------------------
(* The HTTP runtime service: the inductive invariant *)

\* Nothing of the Attempt runs in the service, and nothing will.
Gone == rtMarker /\ ~RunLive /\ ~rtBox

\* The marker of the run comes before the run and all it starts, and stays; a
\* container is started by the one run there is.
MarkerFirst ==
    /\ HasRun \/ rtBox => rtMarker
    /\ rtRun.state = "EXITED" <=> RunDone
    /\ rtStarts = 0 \/ (rtStarts = 1 /\ rtMarker /\ rtRun.step \notin {"env", "launch", "client"})
    /\ rtReleased => Gone

\* What the place of a request, or its answer, says of the service.
CursorFine(c) == (HasRun => c.upto <= rtRun.events) /\ (~rtMarker => c.upto = 0)

PlaceFine(c) ==
    /\ c.op \in {"inspect", "stop", "envdelete"} /\ c.pc \in {"docker", "wait"} => rtMarker
    /\ c.op = "envdelete" /\ c.pc = "docker" => ~RunLive
    /\ c.op \in {"inspect", "stop"} /\ c.pc = "answered" /\ c.cleanup = "CONFIRMED" => rtMarker
    /\ c.op = "inspect" /\ c.pc = "answered" /\ c.state = "EXITED" =>
          rtMarker /\ (c.more \/ ~HasRun \/ (RunDone /\ c.upto = rtRun.events))
    /\ c.op = "envdelete" /\ c.pc = "answered" /\ c.state = "RELEASED" => rtReleased

RequestFine(c) == c \in RtRequestRow /\ CursorFine(c) /\ PlaceFine(c)

RequestsFine == \A c \in {rtCall} \cup rtStray : RequestFine(c)

\* A Worker that knows that the run is gone learns that the environment is,
\* step by step: the run, the container, the marker.
LookFine(c) ==
    c.op = "envget" /\ rtWk.runtime = "CONFIRMED" =>
        /\ c.pc \in {"docker", "stat"} => ~RunLive
        /\ c.pc = "stat" => ~rtBox
        /\ c.pc = "answered" /\ c.cleanup = "CONFIRMED" => Gone

\* The request the Worker waits for is the one its execution made.
WaitsForOwn ==
    /\ rtWk.pc = "put" => rtCall.op = "put"
    /\ rtWk.pc \in {"polling", "inspecting"} => rtCall.op = "inspect"
    /\ rtWk.pc = "stopping" => rtCall.op = "stop"
    /\ rtWk.pc \in {"releasing", "recoverRelease"} => rtCall.op = "envdelete"
    /\ rtWk.pc = "envgetting" => rtCall.op = "envget"
    /\ rtWk.pc \in {"inspect", "inspecting", "envget", "envgetting"} => rtWk.clean = "recovering"
    /\ rtWk.pc \notin {"put", "polling", "inspecting", "stopping", "releasing",
                       "recoverRelease", "envgetting"} => rtCall = NoCall

\* What the Worker has concluded so far.
WorkerFine ==
    /\ rtWk.pc = "prepare" => rtWk.environment = "" /\ rtWk.clean = "" /\ rtEnv = "none"
    /\ rtEnv # "none" => rtWk.envRef
    /\ HasRun => rtWk.seq <= rtRun.events
    /\ ~rtMarker => rtWk.seq = 0
    /\ rtWk.complete => rtMarker /\ (~HasRun \/ (RunDone /\ rtWk.seq = rtRun.events))
    /\ rtWk.clean = "recovering" /\ rtWk.runtime = "CONFIRMED" => rtMarker
    /\ rtEnv = "container" /\ rtWk.environment = "CONFIRMED" =>
          \/ rtReleased
          \/ /\ rtWk.pc = "done" \/ (rtWk.pc = "complete" /\ rtWk.clean = "recovering")
             /\ rtWk.runtime = "CONFIRMED" => Gone
    /\ rtWk.clean = "yes" =>
          rtWk.pc = "done" /\ rtWk.runtime = "CONFIRMED" /\ rtWk.environment = "CONFIRMED"

RemoteInv ==
    /\ RemoteTypeOK
    /\ MarkerFirst
    /\ RequestsFine
    /\ LookFine(rtCall)
    /\ WaitsForOwn
    /\ WorkerFine

----------------------------------------------------------------------------
(* The HTTP runtime service: what its steps have in common *)

\* Markers and releases stay; only a run without a marker begins, and what has
\* ended stays so.
ServiceMoves ==
    /\ rtMarker => rtMarker'
    /\ rtReleased => rtReleased'
    /\ HasRun' => HasRun \/ ~rtMarker
    /\ RunLive' => RunLive \/ ~rtMarker
    /\ HasRun /\ HasRun' => rtRun.events <= rtRun'.events
    /\ RunDone /\ HasRun' => RunDone' /\ rtRun'.events = rtRun.events
    /\ rtBox' => rtBox \/ RunLive \/ ~rtMarker

\* The service's part of the type invariant.
ServiceTyped ==
    /\ rtMarker \in BOOLEAN /\ rtBox \in BOOLEAN /\ rtStarts \in Nat /\ rtReleased \in BOOLEAN
    /\ rtFaults \in 0..MaxRtFaults
    /\ rtRun \in RunRow

LEMMA RunTyped ==
    ASSUME NEW r \in RunRow
    PROVE  /\ r.step \in {"none", "env", "launch", "client", "attached", "clean", "done"}
           /\ r.state \in {"UNKNOWN", "STARTING", "RUNNING", "EXITED"}
           /\ r.cleanup \in Cleanups
           /\ r.cancelled \in BOOLEAN
           /\ r.events \in 0..MaxRtEvents /\ r.events \in Nat
<1>1. r.events \in 0..MaxRtEvents
    BY DEF RunRow
<1>2. r.events \in Nat
    BY <1>1, RemoteAssumption
<1> QED BY <1>1, <1>2 DEF RunRow

LEMMA RequestTyped ==
    ASSUME NEW c \in RtRequestRow
    PROVE  /\ c.cleanup \in Cleanups \cup {""}
           /\ c.upto \in 0..MaxRtEvents /\ c.upto \in Nat
<1>1. c.upto \in 0..MaxRtEvents
    BY DEF RtRequestRow
<1>2. c.cleanup \in Cleanups \cup {""}
    BY DEF RtRequestRow
<1>3. c.upto \in Nat
    BY <1>1, RemoteAssumption
<1> QED BY <1>1, <1>2, <1>3, Zenon

LEMMA ExecutionTyped ==
    ASSUME NEW w \in ExecutionRow
    PROVE  w.seq \in 0..MaxRtEvents /\ w.seq \in Nat
<1>1. w.seq \in 0..MaxRtEvents
    BY DEF ExecutionRow
<1> QED BY <1>1, RemoteAssumption

LEMMA CursorStays ==
    ASSUME ServiceMoves, RemoteTypeOK, rtRun' \in RunRow, NEW c \in RtRequestRow, CursorFine(c)
    PROVE  CursorFine(c)'
<1>1. c.upto \in Nat /\ rtRun.events \in Nat /\ rtRun'.events \in Nat
    BY RequestTyped, RunTyped DEF RemoteTypeOK
<1>2. CASE HasRun /\ HasRun'
    BY <1>1, <1>2 DEF ServiceMoves, CursorFine
<1>3. CASE ~HasRun /\ HasRun'
    BY <1>1, <1>3 DEF ServiceMoves, CursorFine
<1>4. CASE ~HasRun'
    BY <1>4 DEF ServiceMoves, CursorFine
<1> QED BY <1>2, <1>3, <1>4

LEMMA PlaceStays ==
    ASSUME ServiceMoves, NEW c, PlaceFine(c)
    PROVE  PlaceFine(c)'
BY DEF ServiceMoves, PlaceFine, RunDone, HasRun, RunLive

LEMMA RequestStays ==
    ASSUME ServiceMoves, RemoteTypeOK, rtRun' \in RunRow, NEW c, RequestFine(c)
    PROVE  RequestFine(c)'
BY CursorStays, PlaceStays DEF RequestFine

LEMMA GoneStays ==
    ASSUME ServiceMoves
    PROVE  /\ rtMarker /\ ~RunLive => rtMarker' /\ ~RunLive'
           /\ Gone => Gone'
BY DEF ServiceMoves, Gone

\* A Worker that looks at the environment and knows that the run is gone has
\* seen its marker.
LEMMA LookerMarked ==
    ASSUME RemoteInv, rtCall.op = "envget", rtWk.runtime = "CONFIRMED"
    PROVE  rtMarker
<1>1. rtWk.pc = "envgetting"
    <2>1. NoCall.op = "none"
        BY DEF NoCall
    <2> QED BY <2>1 DEF RemoteInv, WaitsForOwn
<1> QED BY <1>1 DEF RemoteInv, WaitsForOwn, WorkerFine

LEMMA LookStays ==
    ASSUME RemoteInv, ServiceMoves, rtWk' = rtWk, rtCall' = rtCall
    PROVE  LookFine(rtCall)'
<1> SUFFICES ASSUME rtCall.op = "envget", rtWk.runtime = "CONFIRMED"
             PROVE  /\ rtCall.pc \in {"docker", "stat"} => ~RunLive'
                    /\ rtCall.pc = "stat" => ~rtBox'
                    /\ rtCall.pc = "answered" /\ rtCall.cleanup = "CONFIRMED" => Gone'
    BY DEF LookFine
<1>1. rtMarker
    BY LookerMarked
<1>2. /\ rtCall.pc \in {"docker", "stat"} => ~RunLive
      /\ rtCall.pc = "stat" => ~rtBox
      /\ rtCall.pc = "answered" /\ rtCall.cleanup = "CONFIRMED" => Gone
    BY DEF RemoteInv, LookFine
<1> QED BY <1>1, <1>2, GoneStays DEF ServiceMoves

LEMMA WorkerStays ==
    ASSUME RemoteInv, ServiceMoves, ServiceTyped', rtWk' = rtWk, rtEnv' = rtEnv
    PROVE  WorkerFine'
<1>1. rtWk.seq \in Nat /\ rtRun.events \in Nat /\ rtRun'.events \in Nat
    BY ExecutionTyped, RunTyped DEF RemoteInv, RemoteTypeOK, ServiceTyped
<1>2. HasRun' => rtWk.seq <= rtRun'.events
    <2>1. CASE HasRun /\ HasRun'
        <3>1. rtWk.seq <= rtRun.events /\ rtRun.events <= rtRun'.events
            BY <2>1 DEF RemoteInv, WorkerFine, ServiceMoves
        <3> QED BY <1>1, <3>1
    <2>2. CASE ~HasRun /\ HasRun'
        <3>1. rtWk.seq = 0
            BY <2>2 DEF RemoteInv, WorkerFine, ServiceMoves
        <3> QED BY <1>1, <3>1
    <2> QED BY <2>1, <2>2
<1>3. rtWk.complete => rtMarker' /\ (~HasRun' \/ (RunDone' /\ rtWk.seq = rtRun'.events))
    BY DEF RemoteInv, WorkerFine, ServiceMoves
<1>4. rtEnv = "container" /\ rtWk.environment = "CONFIRMED" =>
          \/ rtReleased'
          \/ /\ rtWk.pc = "done" \/ (rtWk.pc = "complete" /\ rtWk.clean = "recovering")
             /\ rtWk.runtime = "CONFIRMED" => Gone'
    BY GoneStays DEF RemoteInv, WorkerFine, ServiceMoves
<1> QED BY <1>2, <1>3, <1>4 DEF RemoteInv, WorkerFine, ServiceMoves

\* A step of the service that moves no request.
LEMMA QuietStep ==
    ASSUME RemoteInv, ServiceMoves, ServiceTyped', MarkerFirst',
           UNCHANGED <<rtEnv, rtWk, rtCall, rtStray>>
    PROVE  RemoteInv'
<1>1. RemoteTypeOK'
    BY DEF RemoteInv, RemoteTypeOK, ServiceTyped
<1>2. RequestsFine'
    <2>1. \A c \in {rtCall} \cup rtStray : RequestFine(c)'
        BY RequestStays DEF RemoteInv, RequestsFine, ServiceTyped
    <2> QED BY <2>1 DEF RequestsFine
<1>3. LookFine(rtCall)'
    BY LookStays
<1>4. WaitsForOwn'
    BY DEF RemoteInv, WaitsForOwn, NoCall
<1>5. WorkerFine'
    BY WorkerStays
<1> QED BY <1>1, <1>2, <1>3, <1>4, <1>5 DEF RemoteInv

\* A step of the service that moves one request.
LEMMA MoveStep ==
    ASSUME RemoteInv, ServiceMoves, ServiceTyped', MarkerFirst', UNCHANGED <<rtEnv, rtWk>>,
           NEW c \in {rtCall} \cup rtStray, NEW d, Move(c, d), c.op # "none", d.op = c.op,
           RequestFine(d)', c = rtCall => LookFine(d)'
    PROVE  RemoteInv'
<1>1. \/ rtCall' = d /\ c = rtCall /\ rtStray' = rtStray
      \/ rtCall' = rtCall /\ rtStray' \subseteq rtStray \cup {d}
    BY DEF Move
<1>2. ASSUME NEW e \in {rtCall'} \cup rtStray'
      PROVE  RequestFine(e)'
    <2>1. e = d \/ e \in {rtCall} \cup rtStray
        BY <1>1
    <2>2. CASE e = d
        BY <2>2
    <2>3. CASE e \in {rtCall} \cup rtStray
        BY <2>3, RequestStays DEF RemoteInv, RequestsFine, ServiceTyped
    <2> QED BY <2>1, <2>2, <2>3
<1>3. RequestsFine'
    BY <1>2 DEF RequestsFine
<1>4. RemoteTypeOK'
    <2>1. \A e \in {rtCall'} \cup rtStray' : e \in RtRequestRow
        BY <1>2 DEF RequestFine
    <2> QED BY <2>1 DEF RemoteInv, RemoteTypeOK, ServiceTyped
<1>5. CASE rtCall' = d /\ c = rtCall
    <2>1. LookFine(rtCall)'
        BY <1>5 DEF LookFine
    <2>2. WaitsForOwn'
        <3>0. NoCall.op = "none"
            BY DEF NoCall
        <3>1. rtCall # NoCall
            BY <1>5, <3>0
        <3> QED BY <1>5, <3>1 DEF RemoteInv, WaitsForOwn
    <2>3. WorkerFine'
        BY WorkerStays
    <2> QED BY <1>3, <1>4, <2>1, <2>2, <2>3 DEF RemoteInv
<1>6. CASE rtCall' = rtCall
    <2>1. LookFine(rtCall)'
        BY <1>6, LookStays
    <2>2. WaitsForOwn'
        BY <1>6 DEF RemoteInv, WaitsForOwn, NoCall
    <2>3. WorkerFine'
        BY WorkerStays
    <2> QED BY <1>3, <1>4, <2>1, <2>2, <2>3 DEF RemoteInv
<1> QED BY <1>1, <1>5, <1>6

----------------------------------------------------------------------------
(* The HTTP runtime service: its run *)

LEMMA ServiceFacts ==
    ASSUME RemoteInv
    PROVE  /\ ServiceTyped /\ MarkerFirst
           /\ rtRun.step \in {"none", "env", "launch", "client", "attached", "clean", "done"}
           /\ RunLive => rtMarker /\ ~rtReleased
BY RunTyped DEF RemoteInv, RemoteTypeOK, ServiceTyped, MarkerFirst, RunLive, Gone

LEMMA FaultsTyped ==
    ASSUME ServiceTyped, UNCHANGED rtFaults \/ RtFault
    PROVE  rtFaults' \in 0..MaxRtFaults
<1>1. rtFaults \in 0..MaxRtFaults
    BY DEF ServiceTyped
<1> QED BY <1>1, RemoteAssumption DEF RtFault

\* The service keeps what it has.
LEMMA Unmoved ==
    ASSUME RemoteInv, UNCHANGED svcVars, UNCHANGED rtFaults \/ RtFault
    PROVE  ServiceMoves /\ ServiceTyped' /\ MarkerFirst'
<1>1. UNCHANGED <<rtMarker, rtRun, rtBox, rtStarts, rtReleased>>
    BY DEF svcVars
<1>2. ServiceTyped /\ MarkerFirst
    BY ServiceFacts
<1>3. ServiceTyped'
    BY <1>1, <1>2, FaultsTyped DEF ServiceTyped
<1>4. MarkerFirst'
    BY <1>1, <1>2 DEF MarkerFirst, HasRun, RunDone, RunLive, Gone
<1>5. rtRun.events <= rtRun.events
    BY <1>2, RunTyped DEF ServiceTyped
<1> QED BY <1>1, <1>3, <1>4, <1>5 DEF ServiceMoves, HasRun, RunDone, RunLive

\* The run goes on: it starts nothing that was not started, or its container.
LEMMA RunMoves ==
    ASSUME RemoteInv, RunLive, rtRun' \in RunRow, UNCHANGED rtFaults \/ RtFault,
           UNCHANGED <<rtEnv, rtMarker, rtCall, rtStray, rtWk, rtReleased>>,
           rtBox' \in BOOLEAN, rtRun'.step # "none", rtRun'.events >= rtRun.events,
           rtRun'.state = "EXITED" <=> rtRun'.step = "done",
           \/ /\ UNCHANGED rtStarts
              /\ (rtRun.step \notin {"env", "launch", "client"} =>
                    rtRun'.step \notin {"env", "launch", "client"})
           \/ rtStarts' = rtStarts + 1 /\ rtRun.step = "client" /\ rtRun'.step = "attached"
    PROVE  RemoteInv'
<1>1. ServiceTyped /\ MarkerFirst /\ rtMarker /\ ~rtReleased /\ HasRun /\ ~RunDone
    BY ServiceFacts DEF RunLive
<1>2. HasRun' /\ (RunDone' <=> rtRun'.step = "done")
    BY DEF HasRun, RunDone
<1>3. rtRun.events \in Nat /\ rtRun'.events \in Nat
    BY <1>1, RunTyped DEF ServiceTyped
<1>4. ServiceMoves
    BY <1>1, <1>2, <1>3 DEF ServiceMoves
<1>5. MarkerFirst'
    BY <1>1, <1>2 DEF MarkerFirst
<1>6. ServiceTyped'
    BY <1>1, FaultsTyped DEF ServiceTyped
<1> QED BY <1>4, <1>5, <1>6, QuietStep

LEMMA RunStep ==
    ASSUME RemoteInv,
           WriteEnvFile \/ LaunchClient \/ ContainerStarts \/ EmitEvent \/ ClientEnds \/ ExecuteEnds
    PROVE  RemoteInv'
<1>1. rtRun \in RunRow /\ ServiceTyped /\ MarkerFirst
    BY ServiceFacts DEF ServiceTyped
<1>2. RunLive
    BY DEF WriteEnvFile, LaunchClient, ContainerStarts, EmitEvent, ClientEnds, ExecuteEnds,
           RunLive, HasRun, RunDone
<1>3. rtRun.state # "EXITED"
    BY <1>1, <1>2 DEF MarkerFirst, RunLive
<1>4. rtRun.events \in Nat /\ rtRun.events >= rtRun.events /\ rtRun.events + 1 >= rtRun.events
    BY <1>1, RunTyped
<1>5. rtBox \in BOOLEAN
    BY <1>1 DEF ServiceTyped
<1>6. CASE WriteEnvFile
    <2> DEFINE r == [rtRun EXCEPT !.step = "launch"]
               s == [rtRun EXCEPT !.step = "done", !.state = "EXITED", !.cleanup = "UNKNOWN"]
    <2>1. /\ r \in RunRow /\ r.step = "launch" /\ r.state = rtRun.state /\ r.events = rtRun.events
          /\ s \in RunRow /\ s.step = "done" /\ s.state = "EXITED" /\ s.events = rtRun.events
        BY <1>1 DEF RunRow, Cleanups
    <2>2. /\ (rtRun' = r /\ UNCHANGED rtFaults) \/ (rtRun' = s /\ RtFault)
          /\ rtRun.step = "env"
          /\ UNCHANGED <<rtEnv, rtMarker, rtBox, rtStarts, rtCall, rtStray, rtWk, rtReleased>>
        BY <1>6 DEF WriteEnvFile
    <2> HIDE DEF r, s
    <2> QED BY <1>2, <1>3, <1>4, <1>5, <2>1, <2>2, RunMoves
<1>7. CASE LaunchClient
    <2> DEFINE r == [rtRun EXCEPT !.step = IF rtRun.cancelled THEN "clean" ELSE "client",
                                  !.state = IF rtRun.cancelled THEN rtRun.state ELSE "RUNNING"]
    <2>1. /\ r \in RunRow /\ r.step \in {"clean", "client"} /\ r.state # "EXITED"
          /\ r.events = rtRun.events
        BY <1>1, <1>3 DEF RunRow
    <2>2. /\ rtRun' = r /\ rtRun.step = "launch"
          /\ UNCHANGED <<rtEnv, rtMarker, rtBox, rtStarts, rtCall, rtStray, rtWk, rtReleased, rtFaults>>
        BY <1>7 DEF LaunchClient
    <2> HIDE DEF r
    <2> QED BY <1>2, <1>4, <1>5, <2>1, <2>2, RunMoves
<1>8. CASE ContainerStarts
    <2> DEFINE r == [rtRun EXCEPT !.step = "attached"]
    <2>1. r \in RunRow /\ r.step = "attached" /\ r.state = rtRun.state /\ r.events = rtRun.events
        BY <1>1 DEF RunRow
    <2>2. /\ rtRun' = r /\ rtRun.step = "client" /\ rtBox' = TRUE /\ rtStarts' = rtStarts + 1
          /\ UNCHANGED <<rtEnv, rtMarker, rtCall, rtStray, rtWk, rtReleased, rtFaults>>
        BY <1>8 DEF ContainerStarts
    <2> HIDE DEF r
    <2> QED BY <1>2, <1>3, <1>4, <2>1, <2>2, RunMoves
<1>9. CASE EmitEvent
    <2> DEFINE r == [rtRun EXCEPT !.events = rtRun.events + 1]
               s == [rtRun EXCEPT !.cancelled = TRUE]
    <2>1. /\ (rtRun' = r /\ UNCHANGED rtFaults) \/ (rtRun' = s /\ RtFault)
          /\ rtRun.step = "attached" /\ rtRun.events < MaxRtEvents
          /\ UNCHANGED <<rtEnv, rtMarker, rtBox, rtStarts, rtCall, rtStray, rtWk, rtReleased>>
        BY <1>9 DEF EmitEvent
    <2>2. rtRun.events + 1 \in 0..MaxRtEvents
        BY <1>4, <2>1, RemoteAssumption
    <2>3. /\ r \in RunRow /\ r.step = rtRun.step /\ r.state = rtRun.state
          /\ r.events = rtRun.events + 1
          /\ s \in RunRow /\ s.step = rtRun.step /\ s.state = rtRun.state
          /\ s.events = rtRun.events
        BY <1>1, <2>2 DEF RunRow
    <2> HIDE DEF r, s
    <2> QED BY <1>2, <1>3, <1>4, <1>5, <2>1, <2>3, RunMoves
<1>10. CASE ClientEnds
    <2> DEFINE r == [rtRun EXCEPT !.step = "clean"]
    <2>1. r \in RunRow /\ r.step = "clean" /\ r.state = rtRun.state /\ r.events = rtRun.events
        BY <1>1 DEF RunRow
    <2>2. /\ rtRun' = r /\ rtBox' \in BOOLEAN
          /\ UNCHANGED <<rtEnv, rtMarker, rtStarts, rtCall, rtStray, rtWk, rtReleased, rtFaults>>
        BY <1>5, <1>10 DEF ClientEnds
    <2> HIDE DEF r
    <2> QED BY <1>2, <1>3, <1>4, <2>1, <2>2, RunMoves
<1>11. CASE ExecuteEnds
    <2>1. PICK ok \in BOOLEAN :
            /\ CleanUp(ok)
            /\ rtRun' = [rtRun EXCEPT !.step = "done", !.state = "EXITED",
                                      !.cleanup = IF ok THEN "CONFIRMED" ELSE "UNKNOWN"]
        BY <1>11 DEF ExecuteEnds
    <2> DEFINE r == [rtRun EXCEPT !.step = "done", !.state = "EXITED",
                                  !.cleanup = IF ok THEN "CONFIRMED" ELSE "UNKNOWN"]
    <2>2. r \in RunRow /\ r.step = "done" /\ r.state = "EXITED" /\ r.events = rtRun.events
        BY <1>1 DEF RunRow, Cleanups
    <2>3. /\ rtRun' = r /\ rtBox' \in BOOLEAN /\ (UNCHANGED rtFaults \/ RtFault)
          /\ UNCHANGED <<rtEnv, rtMarker, rtStarts, rtCall, rtStray, rtWk, rtReleased>>
        BY <1>5, <1>11, <2>1 DEF ExecuteEnds, CleanUp
    <2> HIDE DEF r
    <2> QED BY <1>2, <1>4, <2>2, <2>3, RunMoves
<1> QED BY <1>6, <1>7, <1>8, <1>9, <1>10, <1>11

----------------------------------------------------------------------------
(* The HTTP runtime service: its handlers *)

LEMMA RequestAt ==
    ASSUME RemoteInv, NEW op, NEW pc, NEW c \in Pending(op, pc)
    PROVE  c \in {rtCall} \cup rtStray /\ c.op = op /\ c.pc = pc /\ RequestFine(c)
BY DEF Pending, RemoteInv, RequestsFine

LEMMA ToRow ==
    ASSUME NEW c \in RtRequestRow, NEW p \in {"stat", "docker", "wait", "error"}
    PROVE  /\ [c EXCEPT !.pc = p] \in RtRequestRow
           /\ [c EXCEPT !.pc = p].op = c.op
           /\ [c EXCEPT !.pc = p].pc = p
           /\ [c EXCEPT !.pc = p].upto = c.upto
BY DEF RtRequestRow

\* Request d is request c with an answer.
AnswerOf(c, d, s, k) ==
    /\ c \in RtRequestRow /\ k \in Cleanups \cup {""}
    /\ s \in {"", "UNKNOWN", "STARTING", "RUNNING", "EXITED", "ACTIVE", "PREPARED", "RELEASED"}
    /\ d = [c EXCEPT !.pc = "answered", !.state = s, !.cleanup = k]

LEMMA AnswerRow ==
    ASSUME NEW c, NEW s, NEW k, NEW d, AnswerOf(c, d, s, k)
    PROVE  /\ d \in RtRequestRow /\ d.op = c.op /\ d.pc = "answered" /\ d.upto = c.upto
           /\ d.state = s /\ d.cleanup = k
BY DEF RtRequestRow, AnswerOf

\* A handler moves its request; the cursor of the request stays.
LEMMA HandlerStep ==
    ASSUME RemoteInv, ServiceMoves, ServiceTyped', MarkerFirst', UNCHANGED <<rtEnv, rtWk>>,
           NEW c \in {rtCall} \cup rtStray, NEW d \in RtRequestRow, Move(c, d),
           c.op # "none", d.op = c.op, d.upto = c.upto, PlaceFine(d)',
           c.op # "envget" \/ (c = rtCall => LookFine(d)')
    PROVE  RemoteInv'
<1>1. CursorFine(c)'
    BY RequestStays DEF RemoteInv, RequestsFine, RequestFine, ServiceTyped
<1>2. RequestFine(d)'
    BY <1>1 DEF RequestFine, CursorFine, RtRequestRow
<1>3. c = rtCall => LookFine(d)'
    BY DEF LookFine
<1> QED BY <1>2, <1>3, MoveStep

\* A request moves on to place p, or is answered.
LEMMA ToStep ==
    ASSUME RemoteInv, ServiceMoves, ServiceTyped', MarkerFirst', UNCHANGED <<rtEnv, rtWk>>,
           NEW c \in {rtCall} \cup rtStray, NEW p \in {"stat", "docker", "wait", "error"},
           To(c, p), c.op \in {"put", "inspect", "stop", "envdelete"},
           p \in {"docker", "wait"} /\ c.op # "put" => rtMarker',
           p = "docker" /\ c.op = "envdelete" => ~RunLive'
    PROVE  RemoteInv'
<1> DEFINE d == [c EXCEPT !.pc = p]
<1>1. c \in RtRequestRow
    BY DEF RemoteInv, RequestsFine, RequestFine
<1>2. d \in RtRequestRow /\ d.op = c.op /\ d.pc = p /\ d.upto = c.upto
    BY <1>1, ToRow
<1>3. Move(c, d)
    BY DEF To
<1> HIDE DEF d
<1>4. PlaceFine(d)'
    BY <1>2 DEF PlaceFine
<1> QED BY <1>2, <1>3, <1>4, HandlerStep

LEMMA AnswerStep ==
    ASSUME RemoteInv, ServiceMoves, ServiceTyped', MarkerFirst', UNCHANGED <<rtEnv, rtWk>>,
           NEW c \in {rtCall} \cup rtStray, c.op \in {"put", "inspect", "stop", "envdelete"},
           NEW s, s \in {"", "UNKNOWN", "STARTING", "RUNNING", "EXITED", "RELEASED"},
           NEW k, k \in Cleanups \cup {""}, Answers(c, s, k),
           c.op \in {"inspect", "stop"} /\ k = "CONFIRMED" => rtMarker',
           c.op = "inspect" => s # "EXITED",
           c.op = "envdelete" /\ s = "RELEASED" => rtReleased'
    PROVE  RemoteInv'
<1>1. c \in RtRequestRow
    BY DEF RemoteInv, RequestsFine, RequestFine
<1>2. PICK d : AnswerOf(c, d, s, k)
    BY <1>1 DEF AnswerOf
<1>3. /\ d \in RtRequestRow /\ d.op = c.op /\ d.pc = "answered" /\ d.upto = c.upto
      /\ d.state = s /\ d.cleanup = k
    BY ONLY <1>2, AnswerRow
<1>4. Move(c, d)
    BY <1>2 DEF Answers, AnswerOf
<1>5. PlaceFine(d)'
    BY <1>3 DEF PlaceFine
<1> QED BY <1>3, <1>4, <1>5, HandlerStep

LEMMA CreateStep ==
    ASSUME RemoteInv, NEW c \in Pending("put", "new"), CreateRun(c)
    PROVE  RemoteInv'
<1>1. c \in {rtCall} \cup rtStray /\ c.op = "put"
    BY RequestAt
<1>2. UNCHANGED <<rtEnv, rtBox, rtStarts, rtWk, rtReleased>>
    BY DEF CreateRun
<1>3. CASE HasRun \/ rtMarker
    <2>1. UNCHANGED svcVars /\ UNCHANGED rtFaults
        BY <1>2, <1>3 DEF CreateRun, svcVars
    <2>2. ServiceMoves /\ ServiceTyped' /\ MarkerFirst'
        BY <2>1, Unmoved
    <2>3. Answers(c, "", "") \/ To(c, "error")
        BY <1>3 DEF CreateRun
    <2> QED BY <1>1, <1>2, <2>2, <2>3, ToStep, AnswerStep
<1>4. CASE ~HasRun /\ ~rtMarker
    <2>1. /\ rtMarker' = TRUE
          /\ \/ rtRun' = NewRun /\ Answers(c, "", "") /\ UNCHANGED rtFaults
             \/ RtFault /\ To(c, "error") /\ UNCHANGED rtRun
        BY <1>4 DEF CreateRun
    <2>2. ServiceTyped /\ MarkerFirst
        BY ServiceFacts
    <2>3. ~rtBox /\ ~rtReleased /\ rtStarts = 0
        BY <1>4, <2>2 DEF MarkerFirst, Gone
    <2>4. NewRun \in RunRow /\ NewRun.step = "env" /\ NewRun.state = "STARTING"
        <3>1. 0 \in 0..MaxRtEvents
            BY RemoteAssumption
        <3> QED BY <3>1 DEF NewRun, NoRun, RunRow, Cleanups
    <2>5. ServiceTyped'
        BY <1>2, <2>1, <2>2, <2>4, FaultsTyped DEF ServiceTyped
    <2>6. MarkerFirst'
        <3>1. rtRun.state = "EXITED" <=> rtRun.step = "done"
            BY <2>2 DEF MarkerFirst, RunDone
        <3>2. rtRun'.state = "EXITED" <=> rtRun'.step = "done"
            BY <2>1, <2>4, <3>1
        <3> QED BY <1>2, <2>1, <2>3, <3>2 DEF MarkerFirst, RunDone
    <2>7. ServiceMoves
        BY <1>2, <1>4, <2>1, <2>3 DEF ServiceMoves, RunDone, HasRun
    <2> QED BY <1>1, <1>2, <2>1, <2>5, <2>6, <2>7, ToStep, AnswerStep
<1> QED BY <1>3, <1>4

LEMMA FindStep ==
    ASSUME RemoteInv, NEW c,
           \/ c \in Pending("inspect", "new") \cup Pending("stop", "new") /\ FindRun(c)
           \/ c \in Pending("inspect", "stat") \cup Pending("stop", "stat") /\ FindMarker(c)
    PROVE  RemoteInv'
<1>1. c \in {rtCall} \cup rtStray /\ c.op \in {"inspect", "stop"}
    BY RequestAt
<1>2. UNCHANGED svcVars /\ UNCHANGED <<rtEnv, rtWk, rtFaults>>
    BY DEF FindRun, FindMarker
<1>3. ServiceMoves /\ ServiceTyped' /\ MarkerFirst'
    BY <1>2, Unmoved
<1>4. PICK p \in {"stat", "docker", "error"} : To(c, p) /\ (p = "docker" => rtMarker)
    BY DEF FindRun, FindMarker
<1>5. p = "docker" => rtMarker'
    BY <1>3, <1>4 DEF ServiceMoves
<1> QED BY <1>1, <1>2, <1>3, <1>4, <1>5, ToStep

\* A page of the events of the run, with what the run is by now.
LEMMA PageStep ==
    ASSUME RemoteInv, NEW c \in Pending("inspect", "new"), InspectRun(c)
    PROVE  RemoteInv'
<1>1. c \in {rtCall} \cup rtStray /\ c.op = "inspect" /\ RequestFine(c)
    BY RequestAt
<1>2. /\ HasRun /\ Move(c, Page(c))
      /\ UNCHANGED svcVars /\ UNCHANGED <<rtEnv, rtWk, rtFaults>>
    BY DEF InspectRun
<1>3. ServiceMoves /\ ServiceTyped' /\ MarkerFirst'
    BY <1>2, Unmoved
<1>4. rtRun \in RunRow /\ rtMarker /\ MarkerFirst
    BY <1>2, ServiceFacts DEF ServiceTyped, MarkerFirst
<1>5. /\ rtRun.events \in 0..MaxRtEvents /\ rtRun.events \in Nat
      /\ c.upto \in 0..MaxRtEvents /\ c.upto \in Nat /\ c.upto <= rtRun.events
    BY <1>1, <1>2, <1>4, RunTyped, RequestTyped DEF RequestFine, CursorFine
<1> DEFINE upto == IF c.upto < rtRun.events THEN c.upto + 1 ELSE c.upto
           more == upto < rtRun.events
<1>6. upto \in 0..MaxRtEvents /\ upto \in Nat /\ upto <= rtRun.events
    BY <1>5, RemoteAssumption
<1>7. more \in BOOLEAN /\ (~more => upto = rtRun.events)
    BY <1>5, <1>6
<1>8. PICK d : /\ d = Page(c)
               /\ d = [c EXCEPT !.pc = "answered", !.state = rtRun.state,
                                !.cleanup = rtRun.cleanup, !.upto = upto, !.more = more]
    BY DEF Page
<1> HIDE DEF upto, more
<1>9. /\ d \in RtRequestRow /\ d.op = "inspect" /\ d.pc = "answered" /\ d.upto = upto
      /\ d.state = rtRun.state /\ d.more = more
    <2>1. c \in RtRequestRow
        BY <1>1 DEF RequestFine
    <2>2. /\ rtRun.state \in {"UNKNOWN", "STARTING", "RUNNING", "EXITED"}
          /\ rtRun.cleanup \in Cleanups
        BY <1>4, RunTyped
    <2> QED BY <1>1, <1>6, <1>7, <1>8, <2>1, <2>2 DEF RtRequestRow
<1>10. UNCHANGED <<rtMarker, rtRun>>
    BY <1>2 DEF svcVars
<1>11. CursorFine(d)'
    BY <1>4, <1>6, <1>9, <1>10 DEF CursorFine
<1>12. d.state = "EXITED" => d.more \/ (RunDone' /\ d.upto = rtRun'.events)
    <2>1. rtRun.state = "EXITED" => RunDone'
        BY <1>4, <1>10 DEF MarkerFirst, RunDone
    <2> QED BY <1>7, <1>9, <1>10, <2>1
<1>13. PlaceFine(d)'
    BY <1>4, <1>9, <1>10, <1>12 DEF PlaceFine
<1>14. RequestFine(d)'
    BY <1>9, <1>11, <1>13 DEF RequestFine, RtRequestRow
<1>15. LookFine(d)'
    BY <1>9 DEF LookFine
<1> QED BY <1>1, <1>2, <1>3, <1>8, <1>9, <1>14, <1>15, MoveStep

LEMMA InspectUnknownStep ==
    ASSUME RemoteInv, NEW c \in Pending("inspect", "docker"), InspectUnknown(c)
    PROVE  RemoteInv'
<1>1. c \in {rtCall} \cup rtStray /\ c.op = "inspect" /\ c.pc = "docker" /\ PlaceFine(c)
    BY RequestAt DEF RequestFine
<1>2. UNCHANGED svcVars /\ UNCHANGED <<rtEnv, rtWk>> /\ (UNCHANGED rtFaults \/ RtFault)
    BY DEF InspectUnknown
<1>3. ServiceMoves /\ ServiceTyped' /\ MarkerFirst'
    BY <1>2, Unmoved
<1>4. rtMarker'
    BY <1>1, <1>3 DEF PlaceFine, ServiceMoves
<1>5. PICK k \in Cleanups : Answers(c, "UNKNOWN", k)
    BY DEF InspectUnknown, Cleanups
<1> QED BY <1>1, <1>2, <1>3, <1>4, <1>5, AnswerStep

\* The run is told to stop, or the marker is set that no later run passes.
LEMMA CancelMoves ==
    ASSUME RemoteInv, HasRun, NEW b \in BOOLEAN, rtRun' = [rtRun EXCEPT !.cancelled = b],
           rtMarker' = TRUE, UNCHANGED <<rtBox, rtStarts, rtReleased, rtFaults>>
    PROVE  ServiceMoves /\ ServiceTyped' /\ MarkerFirst' /\ rtMarker
<1>1. ServiceTyped /\ MarkerFirst /\ rtRun \in RunRow
    BY ServiceFacts DEF ServiceTyped
<1>2. /\ rtRun' \in RunRow /\ rtRun'.step = rtRun.step /\ rtRun'.state = rtRun.state
      /\ rtRun'.events = rtRun.events
    BY <1>1 DEF RunRow
<1>3. rtMarker
    BY <1>1 DEF MarkerFirst
<1>4. rtRun.events <= rtRun'.events
    BY <1>1, <1>2, RunTyped
<1>5. (HasRun' <=> HasRun) /\ (RunDone' <=> RunDone) /\ (RunLive' <=> RunLive)
    BY <1>2 DEF HasRun, RunDone, RunLive
<1>6. ServiceMoves
    BY <1>2, <1>4, <1>5 DEF ServiceMoves
<1>7. MarkerFirst'
    BY <1>1, <1>2, <1>3, <1>5 DEF MarkerFirst, Gone
<1> QED BY <1>1, <1>2, <1>3, <1>6, <1>7 DEF ServiceTyped

\* docker list, remove, list again.
LEMMA CleanUpMoves ==
    ASSUME RemoteInv, NEW ok \in BOOLEAN, CleanUp(ok), UNCHANGED <<rtMarker, rtRun, rtStarts>>,
           \/ UNCHANGED rtReleased
           \/ ok /\ rtReleased' \in BOOLEAN /\ rtMarker /\ ~RunLive /\ (rtReleased => rtReleased')
    PROVE  ServiceMoves /\ ServiceTyped' /\ MarkerFirst'
<1>1. ServiceTyped /\ MarkerFirst
    BY ServiceFacts
<1>2. /\ rtBox' \in BOOLEAN /\ (rtBox' => rtBox) /\ (ok => ~rtBox')
      /\ (UNCHANGED rtFaults \/ RtFault)
    <2>1. CASE ok
        BY <2>1 DEF CleanUp
    <2>2. CASE ~ok
        BY <1>1, <2>2 DEF CleanUp, ServiceTyped
    <2> QED BY <2>1, <2>2
<1>3. (HasRun' <=> HasRun) /\ (RunDone' <=> RunDone) /\ (RunLive' <=> RunLive)
    BY DEF HasRun, RunDone, RunLive
<1>4. rtRun.events <= rtRun.events
    BY <1>1, RunTyped DEF ServiceTyped
<1>5. ServiceMoves
    BY <1>2, <1>3, <1>4 DEF ServiceMoves
<1>6. ServiceTyped'
    BY <1>1, <1>2, FaultsTyped DEF ServiceTyped
<1>7. MarkerFirst'
    BY <1>1, <1>2, <1>3 DEF MarkerFirst, Gone
<1> QED BY <1>5, <1>6, <1>7

LEMMA StopStep ==
    ASSUME RemoteInv, NEW c,
           \/ c \in Pending("stop", "new") /\ StopRun(c)
           \/ c \in Pending("stop", "wait") /\ StopWaits(c)
           \/ c \in Pending("stop", "docker") /\ StopUnknown(c)
    PROVE  RemoteInv'
<1>1. c \in {rtCall} \cup rtStray /\ c.op = "stop" /\ PlaceFine(c)
    BY RequestAt DEF RequestFine
<1>2. CASE c \in Pending("stop", "new") /\ StopRun(c)
    <2>1. /\ HasRun /\ To(c, "wait")
          /\ rtRun' = [rtRun EXCEPT !.cancelled = rtRun.cancelled \/ rtRun.state # "EXITED"]
          /\ UNCHANGED <<rtEnv, rtMarker, rtBox, rtStarts, rtWk, rtReleased, rtFaults>>
        BY <1>2 DEF StopRun
    <2>2. PICK b \in BOOLEAN : b = (rtRun.cancelled \/ rtRun.state # "EXITED")
        OBVIOUS
    <2>3. rtMarker
        BY <2>1, ServiceFacts DEF MarkerFirst
    <2>4. rtMarker' = TRUE
        BY <2>1, <2>3, ServiceFacts DEF ServiceTyped
    <2>5. ServiceMoves /\ ServiceTyped' /\ MarkerFirst'
        BY <2>1, <2>2, <2>4, CancelMoves
    <2> QED BY <1>1, <2>1, <2>4, <2>5, ToStep
<1>3. CASE c \in Pending("stop", "wait") /\ StopWaits(c)
    <2>1. c.pc = "wait" /\ UNCHANGED svcVars /\ UNCHANGED <<rtEnv, rtWk>>
          /\ (UNCHANGED rtFaults \/ RtFault)
        BY <1>3, RequestAt DEF StopWaits
    <2>2. ServiceMoves /\ ServiceTyped' /\ MarkerFirst'
        BY <2>1, Unmoved
    <2>3. rtMarker'
        BY <1>1, <2>1, <2>2 DEF PlaceFine, ServiceMoves
    <2>4. /\ rtRun.state \in {"UNKNOWN", "STARTING", "RUNNING", "EXITED"}
          /\ rtRun.cleanup \in Cleanups
        BY ServiceFacts, RunTyped DEF ServiceTyped
    <2>5. PICK s \in {"UNKNOWN", "STARTING", "RUNNING", "EXITED"}, k \in Cleanups :
            Answers(c, s, k)
        BY <1>3, <2>4 DEF StopWaits, Cleanups
    <2> QED BY <1>1, <2>1, <2>2, <2>3, <2>5, AnswerStep
<1>4. CASE c \in Pending("stop", "docker") /\ StopUnknown(c)
    <2>1. c.pc = "docker"
        BY <1>4, RequestAt
    <2>2. PICK ok \in BOOLEAN :
            /\ CleanUp(ok)
            /\ IF ok THEN Answers(c, "EXITED", "CONFIRMED") ELSE Answers(c, "UNKNOWN", "UNKNOWN")
        BY <1>4 DEF StopUnknown
    <2>3. UNCHANGED <<rtEnv, rtMarker, rtRun, rtStarts, rtWk, rtReleased>>
        BY <1>4 DEF StopUnknown
    <2>4. ServiceMoves /\ ServiceTyped' /\ MarkerFirst'
        BY <2>2, <2>3, CleanUpMoves
    <2>5. rtMarker'
        BY <1>1, <2>1, <2>4 DEF PlaceFine, ServiceMoves
    <2>6. PICK s \in {"UNKNOWN", "EXITED"}, k \in Cleanups : Answers(c, s, k)
        BY <2>2 DEF Cleanups
    <2> QED BY <1>1, <2>3, <2>4, <2>5, <2>6, AnswerStep
<1> QED BY <1>2, <1>3, <1>4

\* A look at the environment: the run in memory, the container, the marker.
LEMMA LookStep ==
    ASSUME RemoteInv, NEW c \in {rtCall} \cup rtStray, c.op = "envget", InspectEnvironment(c)
    PROVE  RemoteInv'
<1>1. c \in RtRequestRow
    BY DEF RemoteInv, RequestsFine, RequestFine
<1>2. UNCHANGED svcVars /\ UNCHANGED <<rtEnv, rtWk>> /\ (UNCHANGED rtFaults \/ RtFault)
    BY DEF InspectEnvironment
<1>3. ServiceMoves /\ ServiceTyped' /\ MarkerFirst'
    BY <1>2, Unmoved
<1>4. UNCHANGED <<rtMarker, rtRun, rtBox>> /\ UNCHANGED rtWk
    BY <1>2 DEF svcVars
<1>5. (RunLive' <=> RunLive) /\ (Gone' <=> Gone)
    BY <1>4 DEF RunLive, HasRun, RunDone, Gone
<1>6. c = rtCall => LookFine(c)
    BY DEF RemoteInv
<1>7. \/ To(c, "docker") /\ ~RunLive
      \/ To(c, "stat") /\ c.pc = "docker" /\ ~rtBox
      \/ \E s \in {"ACTIVE", "UNKNOWN", "PREPARED"}, k \in {"PENDING", "UNKNOWN"} : Answers(c, s, k)
      \/ Answers(c, "RELEASED", "CONFIRMED") /\ c.pc = "stat" /\ rtMarker
    BY DEF InspectEnvironment
<1>8. ASSUME NEW d \in RtRequestRow, Move(c, d), d.op = "envget", d.upto = c.upto,
             c = rtCall => LookFine(d)'
      PROVE  RemoteInv'
    <2>1. PlaceFine(d)'
        BY <1>8 DEF PlaceFine
    <2> QED BY <1>2, <1>3, <1>8, <2>1, HandlerStep
<1>9. CASE To(c, "docker") /\ ~RunLive
    <2>1. PICK d : d = [c EXCEPT !.pc = "docker"]
        OBVIOUS
    <2>2. d \in RtRequestRow /\ d.op = "envget" /\ d.pc = "docker" /\ d.upto = c.upto
        BY <1>1, <2>1, ToRow
    <2>3. LookFine(d)'
        BY <1>5, <1>9, <2>2 DEF LookFine
    <2> QED BY <1>8, <1>9, <2>1, <2>2, <2>3 DEF To
<1>10. CASE To(c, "stat") /\ c.pc = "docker" /\ ~rtBox
    <2>1. PICK d : d = [c EXCEPT !.pc = "stat"]
        OBVIOUS
    <2>2. d \in RtRequestRow /\ d.op = "envget" /\ d.pc = "stat" /\ d.upto = c.upto
        BY <1>1, <2>1, ToRow
    <2>3. c = rtCall => LookFine(d)'
        BY <1>4, <1>5, <1>6, <1>10, <2>2 DEF LookFine
    <2> QED BY <1>8, <1>10, <2>1, <2>2, <2>3 DEF To
<1>11. ASSUME NEW s \in {"ACTIVE", "UNKNOWN", "PREPARED"}, NEW k \in {"PENDING", "UNKNOWN"},
              Answers(c, s, k)
       PROVE  RemoteInv'
    <2>2. k \in Cleanups \cup {""}
        BY DEF Cleanups
    <2>1. PICK d : AnswerOf(c, d, s, k)
        BY <1>1, <2>2 DEF AnswerOf
    <2>3. /\ d \in RtRequestRow /\ d.op = "envget" /\ d.pc = "answered" /\ d.upto = c.upto
          /\ d.cleanup = k
        BY <2>1, AnswerRow
    <2>4. LookFine(d)'
        BY <2>3 DEF LookFine
    <2> QED BY <1>8, <1>11, <2>1, <2>3, <2>4 DEF Answers, AnswerOf
<1>12. CASE Answers(c, "RELEASED", "CONFIRMED") /\ c.pc = "stat" /\ rtMarker
    <2>2. "CONFIRMED" \in Cleanups \cup {""}
        BY DEF Cleanups
    <2>1. PICK d : AnswerOf(c, d, "RELEASED", "CONFIRMED")
        BY <1>1, <2>2 DEF AnswerOf
    <2>3. d \in RtRequestRow /\ d.op = "envget" /\ d.pc = "answered" /\ d.upto = c.upto
        BY <2>1, AnswerRow
    <2>4. c = rtCall /\ rtWk.runtime = "CONFIRMED" => Gone
        BY <1>6, <1>12 DEF LookFine, Gone
    <2>5. c = rtCall => LookFine(d)'
        BY <1>4, <1>5, <2>3, <2>4 DEF LookFine
    <2> QED BY <1>8, <1>12, <2>1, <2>3, <2>5 DEF Answers, AnswerOf
<1> QED BY <1>7, <1>9, <1>10, <1>11, <1>12

\* A release: the marker, the end of the run, the container.
LEMMA ReleaseStep ==
    ASSUME RemoteInv, NEW c,
           \/ c \in Pending("envdelete", "new") /\ FenceEnvironment(c)
           \/ c \in Pending("envdelete", "wait") /\ AwaitRun(c)
           \/ c \in Pending("envdelete", "docker") /\ ReleaseContainer(c)
    PROVE  RemoteInv'
<1>1. c \in {rtCall} \cup rtStray /\ c.op = "envdelete" /\ PlaceFine(c)
    BY RequestAt DEF RequestFine
<1>2. ServiceTyped /\ MarkerFirst /\ rtRun \in RunRow
    BY ServiceFacts DEF ServiceTyped
<1>3. CASE c \in Pending("envdelete", "new") /\ FenceEnvironment(c)
    <2>1. UNCHANGED <<rtEnv, rtBox, rtStarts, rtWk, rtReleased>>
        BY <1>3 DEF FenceEnvironment
    <2>2. CASE HasRun /\ rtMarker' = TRUE /\ To(c, "wait") /\ UNCHANGED rtFaults
               /\ rtRun' = [rtRun EXCEPT !.cancelled = TRUE]
        <3>1. ServiceMoves /\ ServiceTyped' /\ MarkerFirst'
            BY <2>1, <2>2, CancelMoves
        <3> QED BY <1>1, <2>1, <2>2, <3>1, ToStep
    <2>3. CASE ~HasRun /\ (rtMarker => rtMarker') /\ rtMarker' \in BOOLEAN /\ UNCHANGED rtRun
               /\ (UNCHANGED rtFaults \/ RtFault)
               /\ \/ To(c, "docker") /\ rtMarker'
                  \/ Answers(c, "UNKNOWN", "UNKNOWN")
        <3>1. ~HasRun' /\ ~RunDone /\ ~RunLive'
            BY <2>3 DEF HasRun, RunDone, RunLive
        <3>2. ServiceTyped'
            BY <1>2, <2>1, <2>3, FaultsTyped DEF ServiceTyped
        <3>3. MarkerFirst'
            BY <1>2, <2>1, <2>3, <3>1 DEF MarkerFirst, RunDone, Gone
        <3>4. ServiceMoves
            BY <2>1, <2>3, <3>1 DEF ServiceMoves
        <3>5. "UNKNOWN" \in Cleanups
            BY DEF Cleanups
        <3> QED BY <1>1, <2>1, <2>3, <3>1, <3>2, <3>3, <3>4, <3>5, ToStep, AnswerStep
    <2>4. ~rtMarker => ~HasRun
        BY <1>2 DEF MarkerFirst
    <2> QED BY <1>3, <2>2, <2>3, <2>4 DEF FenceEnvironment
<1>4. CASE c \in Pending("envdelete", "wait") /\ AwaitRun(c)
    <2>1. /\ c.pc = "wait" /\ RunDone /\ To(c, "docker")
          /\ UNCHANGED svcVars /\ UNCHANGED <<rtEnv, rtWk, rtFaults>>
        BY <1>4, RequestAt DEF AwaitRun
    <2>2. ServiceMoves /\ ServiceTyped' /\ MarkerFirst'
        BY <2>1, Unmoved
    <2>3. rtMarker /\ ~RunLive
        BY <1>1, <2>1 DEF PlaceFine, RunLive
    <2>4. rtMarker' /\ ~RunLive'
        BY <2>2, <2>3, GoneStays
    <2> QED BY <1>1, <2>1, <2>2, <2>4, ToStep
<1>5. CASE c \in Pending("envdelete", "docker") /\ ReleaseContainer(c)
    <2>1. c.pc = "docker"
        BY <1>5, RequestAt
    <2>2. rtMarker /\ ~RunLive
        BY <1>1, <2>1 DEF PlaceFine
    <2>3. PICK ok \in BOOLEAN :
            /\ CleanUp(ok)
            /\ IF ok THEN Answers(c, "RELEASED", "CONFIRMED") ELSE Answers(c, "UNKNOWN", "UNKNOWN")
            /\ rtReleased' = (rtReleased \/ ok)
        BY <1>5 DEF ReleaseContainer
    <2>4. UNCHANGED <<rtEnv, rtMarker, rtRun, rtStarts, rtWk>>
        BY <1>5 DEF ReleaseContainer
    <2>5. rtReleased \in BOOLEAN
        BY <1>2 DEF ServiceTyped
    <2>6. /\ ok => rtReleased' = TRUE
          /\ ~ok => rtReleased' = rtReleased
        BY <2>3, <2>5
    <2>7. ServiceMoves /\ ServiceTyped' /\ MarkerFirst'
        BY <2>2, <2>3, <2>4, <2>6, CleanUpMoves
    <2>8. PICK s \in {"UNKNOWN", "RELEASED"}, k \in Cleanups :
            Answers(c, s, k) /\ (s = "RELEASED" => rtReleased')
        BY <2>3, <2>6 DEF Cleanups
    <2> QED BY <1>1, <2>4, <2>7, <2>8, AnswerStep
<1> QED BY <1>3, <1>4, <1>5

\* The service dies: no run, no handler; what a marker fences stays fenced.
LEMMA RestartStep ==
    ASSUME RemoteInv, ServiceRestarts
    PROVE  RemoteInv'
<1> DEFINE d == [rtCall EXCEPT !.pc = "error"]
<1>1. /\ RtFault /\ rtRun' = NoRun /\ rtStray' = {}
      /\ rtCall' = IF rtCall.pc \in {"none", "answered"} THEN rtCall ELSE d
      /\ UNCHANGED <<rtEnv, rtMarker, rtBox, rtStarts, rtWk, rtReleased>>
    BY DEF ServiceRestarts
<1>2. ServiceTyped /\ MarkerFirst
    BY ServiceFacts
<1>3. NoRun \in RunRow /\ NoRun.step = "none" /\ NoRun.state = "UNKNOWN"
    <2>1. 0 \in 0..MaxRtEvents
        BY RemoteAssumption
    <2> QED BY <2>1 DEF NoRun, RunRow, Cleanups
<1>4. ~HasRun' /\ ~RunDone' /\ ~RunLive'
    BY <1>1, <1>3 DEF HasRun, RunDone, RunLive
<1>5. ServiceTyped'
    BY <1>1, <1>2, <1>3, FaultsTyped DEF ServiceTyped
<1>6. MarkerFirst'
    BY <1>1, <1>2, <1>3, <1>4 DEF MarkerFirst, Gone
<1>7. ServiceMoves
    BY <1>1, <1>4 DEF ServiceMoves
<1>8. CASE rtCall' = rtCall
    <2>1. RequestsFine'
        <3>1. \A c \in {rtCall} : RequestFine(c)'
            BY <1>5, <1>7, RequestStays DEF RemoteInv, RequestsFine, ServiceTyped
        <3> QED BY <1>1, <1>8, <3>1 DEF RequestsFine
    <2>2. RemoteTypeOK'
        BY <1>1, <1>5, <1>8 DEF RemoteInv, RemoteTypeOK, ServiceTyped
    <2>3. LookFine(rtCall)'
        BY <1>1, <1>7, <1>8, LookStays
    <2>4. WaitsForOwn'
        BY <1>1, <1>8 DEF RemoteInv, WaitsForOwn, NoCall
    <2>5. WorkerFine'
        BY <1>1, <1>5, <1>7, WorkerStays
    <2> QED BY <1>6, <2>1, <2>2, <2>3, <2>4, <2>5 DEF RemoteInv
<1>9. CASE rtCall' # rtCall
    <2>1. PICK e : e = d
        OBVIOUS
    <2>2. rtCall' = e /\ rtCall.pc # "none"
        BY <1>1, <1>9, <2>1
    <2>3. rtCall \in RtRequestRow
        BY DEF RemoteInv, RemoteTypeOK
    <2>4. e \in RtRequestRow /\ e.op = rtCall.op /\ e.pc = "error" /\ e.upto = rtCall.upto
        BY <2>1, <2>3, ToRow
    <2>5. CursorFine(e)'
        <3>1. CursorFine(e)
            BY <2>4 DEF RemoteInv, RequestsFine, RequestFine, CursorFine
        <3> QED BY <1>5, <1>7, <2>4, <3>1, CursorStays DEF RemoteInv, ServiceTyped
    <2>6. RequestFine(e)'
        BY <2>4, <2>5 DEF RequestFine, PlaceFine, RtRequestRow
    <2>7. RequestsFine'
        BY <1>1, <2>2, <2>6 DEF RequestsFine
    <2>8. RemoteTypeOK'
        BY <1>1, <1>5, <2>2, <2>4 DEF RemoteInv, RemoteTypeOK, ServiceTyped
    <2>9. LookFine(rtCall)'
        BY <2>2, <2>4 DEF LookFine
    <2>10. WaitsForOwn'
        <3>1. NoCall.pc = "none"
            BY DEF NoCall
        <3> QED BY <1>1, <2>2, <2>4, <3>1 DEF RemoteInv, WaitsForOwn
    <2>11. WorkerFine'
        BY <1>1, <1>5, <1>7, WorkerStays
    <2> QED BY <1>6, <2>7, <2>8, <2>9, <2>10, <2>11 DEF RemoteInv
<1> QED BY <1>8, <1>9

LEMMA ServiceStep ==
    ASSUME RemoteInv, Service
    PROVE  RemoteInv'
<1>1. ASSUME NEW c \in {rtCall} \cup rtStray, c.op = "envget", InspectEnvironment(c)
      PROVE  RemoteInv'
    BY <1>1, LookStep
<1>2. CASE \E c \in {d \in {rtCall} \cup rtStray : d.op = "envget"} : InspectEnvironment(c)
    BY <1>1, <1>2
<1> QED BY <1>2, CreateStep, RunStep, FindStep, PageStep, InspectUnknownStep, StopStep,
           ReleaseStep, RestartStep DEF Service

----------------------------------------------------------------------------
(* The Worker of the HTTP runtime: its execution *)

LEMMA ServiceSame ==
    ASSUME UNCHANGED svcVars
    PROVE  /\ rtMarker' = rtMarker /\ rtRun' = rtRun /\ rtReleased' = rtReleased
           /\ (HasRun' <=> HasRun) /\ (RunDone' <=> RunDone) /\ (RunLive' <=> RunLive)
           /\ (Gone' <=> Gone)
BY DEF svcVars, HasRun, RunDone, RunLive, Gone

LEMMA NoCallFine ==
    ASSUME RemoteInv
    PROVE  RequestFine(NoCall) /\ NoCall.op = "none" /\ NoCall.pc = "none"
<1>1. NoCall \in RtRequestRow
    BY RemoteAssumption DEF NoCall, RtRequestRow, Cleanups
<1>2. NoCall.op = "none" /\ NoCall.pc = "none" /\ NoCall.upto = 0
    BY DEF NoCall
<1>3. rtRun.events \in Nat
    BY RunTyped DEF RemoteInv, RemoteTypeOK
<1>4. CursorFine(NoCall)
    BY <1>2, <1>3 DEF CursorFine
<1>5. PlaceFine(NoCall)
    BY <1>2 DEF PlaceFine
<1> QED BY <1>1, <1>2, <1>4, <1>5 DEF RequestFine

\* A request that was just sent: d asks for op, from the Worker's cursor or
\* from the start.
Fresh(d, op) == d = Request(op) \/ d = [Request(op) EXCEPT !.upto = rtWk.seq]

LEMMA FreshFine ==
    ASSUME RemoteInv, NEW op, op \in {"put", "inspect", "stop", "envget", "envdelete"},
           NEW d, Fresh(d, op)
    PROVE  RequestFine(d) /\ d.op = op /\ d.pc = "new"
<1>1. rtWk.seq \in 0..MaxRtEvents /\ rtWk.seq \in Nat /\ 0 \in 0..MaxRtEvents
    BY ExecutionTyped, RemoteAssumption DEF RemoteInv, RemoteTypeOK
<1>2. /\ d \in RtRequestRow /\ d.op = op /\ d.pc = "new"
      /\ d.upto = 0 \/ d.upto = rtWk.seq
    BY <1>1 DEF Fresh, Request, NoCall, RtRequestRow, Cleanups
<1>3. rtRun.events \in Nat
    BY RunTyped DEF RemoteInv, RemoteTypeOK
<1>4. CursorFine(d)
    <2>1. CASE d.upto = 0
        BY <1>3, <2>1 DEF CursorFine
    <2>2. CASE d.upto = rtWk.seq
        BY <2>2 DEF CursorFine, RemoteInv, WorkerFine
    <2> QED BY <1>2, <2>1, <2>2
<1>5. PlaceFine(d)
    BY <1>2 DEF PlaceFine
<1> QED BY <1>2, <1>4, <1>5 DEF RequestFine

\* A step of the Worker: the service keeps what it has.
LEMMA WorkerStep ==
    ASSUME RemoteInv, UNCHANGED svcVars, UNCHANGED rtFaults \/ RtFault,
           rtEnv' \in Environments \cup {"none"}, rtWk' \in ExecutionRow,
           NEW d, rtCall' = d, RequestFine(d),
           d.pc \in {"none", "new"} \/ (d = rtCall /\ rtWk'.runtime = rtWk.runtime),
           rtStray' \subseteq rtStray \cup {rtCall, Request("put")},
           WaitsForOwn', WorkerFine'
    PROVE  RemoteInv'
<1>1. ServiceMoves /\ ServiceTyped' /\ MarkerFirst'
    BY Unmoved
<1>2. RequestFine(Request("put"))
    BY FreshFine DEF Fresh
<1>3. ASSUME NEW e \in {rtCall'} \cup rtStray'
      PROVE  RequestFine(e)'
    <2>1. RequestFine(e)
        BY <1>2 DEF RemoteInv, RequestsFine
    <2> QED BY <1>1, <2>1, RequestStays DEF RemoteInv, ServiceTyped
<1>4. RequestsFine'
    BY <1>3 DEF RequestsFine
<1>5. RemoteTypeOK'
    <2>1. \A e \in {rtCall'} \cup rtStray' : e \in RtRequestRow
        BY <1>3 DEF RequestFine
    <2> QED BY <1>1, <2>1 DEF RemoteTypeOK, ServiceTyped
<1>6. LookFine(rtCall)'
    <2>1. CASE d.pc \in {"none", "new"}
        BY <2>1 DEF LookFine
    <2>2. CASE d = rtCall /\ rtWk'.runtime = rtWk.runtime
        <3>1. LookFine(rtCall) /\ rtBox' = rtBox
            BY DEF RemoteInv, svcVars
        <3> QED BY <2>2, <3>1, ServiceSame DEF LookFine
    <2> QED BY <2>1, <2>2
<1> QED BY <1>1, <1>4, <1>5, <1>6 DEF RemoteInv

\* What an execution that is not over knows.
LEMMA NotOver ==
    ASSUME RemoteInv, rtWk.pc \notin {"complete", "done"}
    PROVE  /\ rtEnv = "container" /\ rtWk.environment = "CONFIRMED" => rtReleased
           /\ rtWk.clean # "yes"
           /\ rtWk.clean = "recovering" /\ rtWk.runtime = "CONFIRMED" => rtMarker
BY DEF RemoteInv, WorkerFine

\* The same for the environment when the execution goes on as w: what may have
\* been learnt of the run and of its environment.
Learns(w) ==
    /\ w.clean = "recovering" /\ w.runtime = "CONFIRMED" => rtMarker
    /\ rtEnv = "container" /\ w.environment = "CONFIRMED" =>
          \/ rtReleased
          \/ w.pc = "complete" /\ w.clean = "recovering" /\ (w.runtime = "CONFIRMED" => Gone)

LEMMA ExecutionStep ==
    ASSUME RemoteInv, UNCHANGED svcVars, UNCHANGED rtFaults \/ RtFault, UNCHANGED rtEnv,
           NEW d, rtCall' = d, RequestFine(d),
           NEW w \in ExecutionRow, rtWk' = w,
           d.pc \in {"none", "new"} \/ (d = rtCall /\ w.runtime = rtWk.runtime),
           rtStray' \subseteq rtStray \cup {rtCall},
           rtWk.pc \notin {"prepare", "complete", "done"}, w.pc # "prepare",
           w.envRef = rtWk.envRef, w.seq = rtWk.seq, w.complete = rtWk.complete,
           w.clean = rtWk.clean, Learns(w), WaitsForOwn'
    PROVE  RemoteInv'
<1>1. WorkerFine
    BY DEF RemoteInv
<1>2. w.clean # "yes"
    BY NotOver
<1>3. WorkerFine'
    BY <1>1, <1>2, ServiceSame DEF WorkerFine, Learns
<1>4. rtEnv' \in Environments \cup {"none"} /\ rtWk' \in ExecutionRow
    BY DEF RemoteInv, RemoteTypeOK
<1>5. rtStray' \subseteq rtStray \cup {rtCall, Request("put")}
    OBVIOUS
<1> QED BY <1>3, <1>4, <1>5, WorkerStep

\* The Worker keeps its execution but for where it stands, and may send op.
LEMMA PlaceStep ==
    ASSUME RemoteInv, UNCHANGED svcVars, UNCHANGED rtFaults \/ RtFault, UNCHANGED <<rtEnv, rtStray>>,
           NEW d, rtCall' = d, RequestFine(d), d.pc \in {"none", "new"} \/ d = rtCall,
           NEW w \in ExecutionRow, rtWk' = w,
           rtWk.pc \notin {"prepare", "complete", "done"}, w.pc # "prepare",
           w.envRef = rtWk.envRef, w.seq = rtWk.seq, w.complete = rtWk.complete,
           w.clean = rtWk.clean, w.runtime = rtWk.runtime, w.environment = rtWk.environment,
           WaitsForOwn'
    PROVE  RemoteInv'
<1>1. Learns(w)
    BY NotOver DEF Learns
<1> QED BY <1>1, ExecutionStep

LEMMA CallingStep ==
    ASSUME RemoteInv, UNCHANGED rtFaults \/ RtFault, Quiet,
           NEW op, NEW p, Calling(op, p), rtWk.pc \notin {"prepare", "complete", "done"},
           \/ op = "inspect" /\ p = "polling"
           \/ op = "inspect" /\ p = "inspecting" /\ rtWk.clean = "recovering"
           \/ op = "stop" /\ p = "stopping"
           \/ op = "envdelete" /\ p = "releasing"
           \/ op = "envget" /\ p = "envgetting" /\ rtWk.clean = "recovering"
    PROVE  RemoteInv'
<1>1. PICK d : d = [Request(op) EXCEPT !.upto = rtWk.seq]
    OBVIOUS
<1>2. PICK w : w = [rtWk EXCEPT !.pc = p]
    OBVIOUS
<1>3. Fresh(d, op) /\ op \in {"put", "inspect", "stop", "envget", "envdelete"}
    BY <1>1 DEF Fresh
<1>4. RequestFine(d) /\ d.op = op /\ d.pc = "new"
    BY <1>3, FreshFine
<1>5. rtWk \in ExecutionRow
    BY DEF RemoteInv, RemoteTypeOK
<1>6. /\ w \in ExecutionRow /\ w.pc = p /\ w.envRef = rtWk.envRef /\ w.seq = rtWk.seq
      /\ w.complete = rtWk.complete /\ w.clean = rtWk.clean /\ w.runtime = rtWk.runtime
      /\ w.environment = rtWk.environment
    BY <1>2, <1>5 DEF ExecutionRow
<1>7. rtCall' = d /\ rtWk' = w /\ UNCHANGED svcVars /\ UNCHANGED <<rtEnv, rtStray>>
    BY <1>1, <1>2 DEF Calling, Quiet
<1>8. WaitsForOwn'
    BY <1>4, <1>6, <1>7 DEF WaitsForOwn
<1>9. p # "prepare"
    OBVIOUS
<1> QED BY <1>4, <1>6, <1>7, <1>8, <1>9, PlaceStep

\* Where an execution that waits for op waits.
LEMMA StandsAt ==
    ASSUME RemoteInv
    PROVE  /\ rtWk \in ExecutionRow /\ rtCall \in RtRequestRow
           /\ RequestFine(rtCall) /\ LookFine(rtCall)
           /\ rtEnv \in Environments \cup {"none"}
BY DEF RemoteInv, RemoteTypeOK, RequestsFine

LEMMA StartStep ==
    ASSUME RemoteInv, StartRun
    PROVE  RemoteInv'
<1>1. PICK d : d = Request("put")
    OBVIOUS
<1>2. PICK w : w = [rtWk EXCEPT !.journalled = TRUE, !.pc = "put"]
    OBVIOUS
<1>3. Fresh(d, "put")
    BY <1>1 DEF Fresh
<1>4. RequestFine(d) /\ d.op = "put" /\ d.pc = "new"
    BY <1>3, FreshFine
<1>5. /\ w \in ExecutionRow /\ w.pc = "put" /\ w.envRef = rtWk.envRef /\ w.seq = rtWk.seq
      /\ w.complete = rtWk.complete /\ w.clean = rtWk.clean /\ w.runtime = rtWk.runtime
      /\ w.environment = rtWk.environment
    BY <1>2, StandsAt DEF ExecutionRow
<1>6. /\ rtCall' = d /\ rtWk' = w /\ UNCHANGED svcVars /\ UNCHANGED <<rtEnv, rtStray>>
      /\ rtWk.pc = "start" /\ UNCHANGED rtFaults
    BY <1>1, <1>2 DEF StartRun, Quiet
<1>7. WaitsForOwn'
    BY <1>4, <1>5, <1>6 DEF WaitsForOwn
<1> QED BY <1>4, <1>5, <1>6, <1>7, PlaceStep

LEMMA PutStep ==
    ASSUME RemoteInv, PutAnswered
    PROVE  RemoteInv'
<1>1. PICK w : w = [rtWk EXCEPT !.pc = "poll"]
    OBVIOUS
<1>2. /\ w \in ExecutionRow /\ w.pc = "poll" /\ w.envRef = rtWk.envRef /\ w.seq = rtWk.seq
      /\ w.complete = rtWk.complete /\ w.clean = rtWk.clean /\ w.runtime = rtWk.runtime
      /\ w.environment = rtWk.environment
    BY <1>1, StandsAt DEF ExecutionRow
<1>3. /\ rtCall' = NoCall /\ rtWk' = w /\ UNCHANGED svcVars /\ UNCHANGED <<rtEnv, rtStray>>
      /\ rtWk.pc = "put" /\ UNCHANGED rtFaults
    BY <1>1 DEF PutAnswered, Quiet
<1>4. RequestFine(NoCall) /\ NoCall.pc = "none"
    BY NoCallFine
<1>5. WaitsForOwn'
    BY <1>2, <1>3 DEF WaitsForOwn, NoCall
<1> QED BY <1>2, <1>3, <1>4, <1>5, PlaceStep

LEMMA CancelStep ==
    ASSUME RemoteInv, CancelRun
    PROVE  RemoteInv'
<1>1. PICK w : w = [rtWk EXCEPT !.cancelled = TRUE]
    OBVIOUS
<1>2. /\ w \in ExecutionRow /\ w.pc = rtWk.pc /\ w.envRef = rtWk.envRef /\ w.seq = rtWk.seq
      /\ w.complete = rtWk.complete /\ w.clean = rtWk.clean /\ w.runtime = rtWk.runtime
      /\ w.environment = rtWk.environment
    BY <1>1, StandsAt DEF ExecutionRow
<1>3. /\ rtCall' = rtCall /\ rtWk' = w /\ UNCHANGED svcVars /\ UNCHANGED <<rtEnv, rtStray>>
      /\ rtWk.pc \in {"put", "poll", "polling"} /\ UNCHANGED rtFaults
    BY <1>1 DEF CancelRun, Quiet
<1>4. WaitsForOwn'
    BY <1>2, <1>3 DEF WaitsForOwn, RemoteInv, NoCall
<1> QED BY <1>2, <1>3, <1>4, StandsAt, PlaceStep

LEMMA SendStep ==
    ASSUME RemoteInv,
           \/ Poll \/ AbortRun \/ RecoverInspect
           \/ ReleaseEnvironment /\ rtEnv = "container"
    PROVE  RemoteInv'
<1>1. CASE Poll
    BY <1>1, CallingStep DEF Poll
<1>2. CASE AbortRun
    BY <1>2, CallingStep DEF AbortRun
<1>3. CASE RecoverInspect
    BY <1>3, CallingStep DEF RecoverInspect, RemoteInv, WaitsForOwn
<1>4. CASE ReleaseEnvironment /\ rtEnv = "container"
    BY <1>4, CallingStep DEF ReleaseEnvironment
<1> QED BY <1>1, <1>2, <1>3, <1>4

LEMMA StopAnsweredStep ==
    ASSUME RemoteInv, StopAnswered
    PROVE  RemoteInv'
<1>1. PICK w : w = [rtWk EXCEPT !.runtime = rtCall.cleanup,
                                !.pc = IF rtWk.clean = "recovering" THEN "envget" ELSE "release"]
    OBVIOUS
<1>2. rtCall.cleanup \in Cleanups \cup {""}
    BY StandsAt, RequestTyped
<1>3. /\ w \in ExecutionRow /\ w.pc \in {"envget", "release"} /\ w.envRef = rtWk.envRef
      /\ w.seq = rtWk.seq /\ w.complete = rtWk.complete /\ w.clean = rtWk.clean
      /\ w.runtime = rtCall.cleanup /\ w.environment = rtWk.environment
      /\ w.pc = "envget" => rtWk.clean = "recovering"
    BY <1>1, <1>2, StandsAt DEF ExecutionRow
<1>4. /\ rtCall' = NoCall /\ rtWk' = w /\ UNCHANGED svcVars /\ UNCHANGED <<rtEnv, rtStray>>
      /\ rtWk.pc = "stopping" /\ UNCHANGED rtFaults /\ Answered("stop")
    BY <1>1 DEF StopAnswered, Quiet
<1>5. RequestFine(NoCall) /\ NoCall.pc = "none"
    BY NoCallFine
<1>6. WaitsForOwn'
    BY <1>3, <1>4 DEF WaitsForOwn, NoCall
<1>7. rtCall.cleanup = "CONFIRMED" => rtMarker
    BY <1>4, StandsAt DEF RequestFine, PlaceFine, Answered
<1>8. Learns(w)
    BY <1>3, <1>4, <1>7, NotOver DEF Learns
<1>9. rtStray' \subseteq rtStray \cup {rtCall}
    BY <1>4
<1> QED BY <1>3, <1>4, <1>5, <1>6, <1>8, <1>9, ExecutionStep

LEMMA ReleaseEnvironmentStep ==
    ASSUME RemoteInv, ReleaseEnvironment \/ RecoverEnvironment
    PROVE  RemoteInv'
<1>1. PICK w : w = [rtWk EXCEPT !.environment = "CONFIRMED", !.pc = "complete"]
    OBVIOUS
<1>2. /\ w \in ExecutionRow /\ w.pc = "complete" /\ w.envRef = rtWk.envRef
      /\ w.seq = rtWk.seq /\ w.complete = rtWk.complete /\ w.clean = rtWk.clean
      /\ w.runtime = rtWk.runtime
    BY <1>1, StandsAt DEF ExecutionRow, Cleanups
<1>3. /\ UNCHANGED svcVars /\ UNCHANGED <<rtEnv, rtStray>>
      /\ rtWk.pc \in {"release", "envget"} /\ UNCHANGED rtFaults
    BY DEF ReleaseEnvironment, RecoverEnvironment, Quiet
<1>4. rtCall = NoCall /\ (rtWk.pc = "envget" => rtWk.clean = "recovering")
    BY <1>3 DEF RemoteInv, WaitsForOwn
<1>5. rtEnv = "container" => rtWk.envRef
    BY DEF RemoteInv, WorkerFine
<1>6. CASE rtEnv = "container"
    <2>1. \/ Calling("envdelete", "releasing")
          \/ Calling("envget", "envgetting") /\ rtWk.pc = "envget"
        BY <1>5, <1>6 DEF ReleaseEnvironment, RecoverEnvironment
    <2>2. Quiet
        BY DEF ReleaseEnvironment, RecoverEnvironment
    <2>3. CASE Calling("envdelete", "releasing")
        BY <1>3, <2>2, <2>3, CallingStep
    <2>4. CASE Calling("envget", "envgetting") /\ rtWk.pc = "envget"
        BY <1>3, <1>4, <2>2, <2>4, CallingStep
    <2> QED BY <2>1, <2>3, <2>4
<1>7. CASE rtEnv # "container"
    <2>1. rtWk' = w /\ rtCall' = rtCall
        BY <1>1, <1>7 DEF ReleaseEnvironment, RecoverEnvironment
    <2>2. WaitsForOwn'
        BY <1>2, <1>4, <2>1 DEF WaitsForOwn, NoCall
    <2>3. Learns(w)
        BY <1>2, <1>3, <1>7, NotOver DEF Learns
    <2>4. RequestFine(rtCall) /\ rtStray' \subseteq rtStray \cup {rtCall}
        BY <1>3, StandsAt
    <2> QED BY <1>2, <1>3, <2>1, <2>2, <2>3, <2>4, ExecutionStep
<1> QED BY <1>6, <1>7

LEMMA ReleaseAnsweredStep ==
    ASSUME RemoteInv, ReleaseAnswered
    PROVE  RemoteInv'
<1>1. PICK x : x = IF rtCall.state = "RELEASED" THEN "CONFIRMED"
                   ELSE IF rtWk.pc = "recoverRelease" THEN rtWk.environment ELSE "UNKNOWN"
    OBVIOUS
<1>2. PICK w : w = [rtWk EXCEPT !.pc = "complete", !.environment = x]
    OBVIOUS
<1>3. rtWk.environment \in Cleanups \cup {""}
    BY StandsAt DEF ExecutionRow
<1>4. x \in Cleanups \cup {""}
    BY <1>1, <1>3 DEF Cleanups
<1>5. /\ w \in ExecutionRow /\ w.pc = "complete" /\ w.envRef = rtWk.envRef
      /\ w.seq = rtWk.seq /\ w.complete = rtWk.complete /\ w.clean = rtWk.clean
      /\ w.runtime = rtWk.runtime /\ w.environment = x
    BY <1>2, <1>4, StandsAt DEF ExecutionRow
<1>6. /\ rtCall' = NoCall /\ UNCHANGED svcVars /\ UNCHANGED <<rtEnv, rtStray>>
      /\ rtWk.pc \in {"releasing", "recoverRelease"} /\ UNCHANGED rtFaults /\ Answered("envdelete")
    BY DEF ReleaseAnswered, Quiet
<1>7. rtWk' = w
    BY <1>1, <1>2 DEF ReleaseAnswered
<1>8. RequestFine(NoCall) /\ NoCall.pc = "none"
    BY NoCallFine
<1>9. WaitsForOwn'
    BY <1>5, <1>6, <1>7 DEF WaitsForOwn, NoCall
<1>10. rtCall.state = "RELEASED" => rtReleased
    BY <1>6, StandsAt DEF RequestFine, PlaceFine, Answered
<1>11. rtEnv = "container" /\ x = "CONFIRMED" => rtReleased
    BY <1>1, <1>6, <1>10, NotOver
<1>12. Learns(w)
    BY <1>5, <1>6, <1>11, NotOver DEF Learns
<1>13. rtStray' \subseteq rtStray \cup {rtCall}
    BY <1>6
<1> QED BY <1>5, <1>6, <1>7, <1>8, <1>9, <1>12, <1>13, ExecutionStep

LEMMA RecoverAnsweredStep ==
    ASSUME RemoteInv, RecoverAnswered
    PROVE  RemoteInv'
<1>1. PICK w : w = [rtWk EXCEPT !.runtime = rtCall.cleanup, !.pc = "envget"]
    OBVIOUS
<1>2. rtCall.cleanup \in Cleanups \cup {""}
    BY StandsAt, RequestTyped
<1>3. /\ w \in ExecutionRow /\ w.pc = "envget" /\ w.envRef = rtWk.envRef
      /\ w.seq = rtWk.seq /\ w.complete = rtWk.complete /\ w.clean = rtWk.clean
      /\ w.runtime = rtCall.cleanup /\ w.environment = rtWk.environment
    BY <1>1, <1>2, StandsAt DEF ExecutionRow
<1>4. /\ UNCHANGED svcVars /\ UNCHANGED <<rtEnv, rtStray>> /\ Quiet
      /\ rtWk.pc = "inspecting" /\ UNCHANGED rtFaults /\ Answered("inspect")
    BY DEF RecoverAnswered, Quiet
<1>5. CASE rtCall.state = "RUNNING"
    <2>1. Calling("stop", "stopping")
        BY <1>5 DEF RecoverAnswered
    <2> QED BY <1>4, <2>1, CallingStep
<1>6. CASE rtCall.state # "RUNNING"
    <2>1. rtCall' = NoCall /\ rtWk' = w
        BY <1>1, <1>6 DEF RecoverAnswered
    <2>2. RequestFine(NoCall) /\ NoCall.pc = "none"
        BY NoCallFine
    <2>3. rtWk.clean = "recovering"
        BY <1>4 DEF RemoteInv, WaitsForOwn
    <2>4. WaitsForOwn'
        BY <1>3, <2>1, <2>3 DEF WaitsForOwn, NoCall
    <2>5. rtCall.cleanup = "CONFIRMED" => rtMarker
        BY <1>4, StandsAt DEF RequestFine, PlaceFine, Answered
    <2>6. Learns(w)
        BY <1>3, <1>4, <2>5, NotOver DEF Learns
    <2>7. rtStray' \subseteq rtStray \cup {rtCall}
        BY <1>4
    <2> QED BY <1>3, <1>4, <2>1, <2>2, <2>4, <2>6, <2>7, ExecutionStep
<1> QED BY <1>5, <1>6

LEMMA RecoverReleaseStep ==
    ASSUME RemoteInv, RecoverRelease
    PROVE  RemoteInv'
<1>1. rtCall.cleanup \in Cleanups \cup {""}
    BY StandsAt, RequestTyped
<1>2. /\ UNCHANGED svcVars /\ UNCHANGED <<rtEnv, rtStray>>
      /\ rtWk.pc = "envgetting" /\ UNCHANGED rtFaults /\ Answered("envget")
    BY DEF RecoverRelease, Quiet
<1>3. rtWk.clean = "recovering" /\ rtStray' \subseteq rtStray \cup {rtCall}
    BY <1>2 DEF RemoteInv, WaitsForOwn
<1>4. CASE rtCall.cleanup = "CONFIRMED"
    <2>1. PICK w : w = [rtWk EXCEPT !.environment = "CONFIRMED", !.pc = "complete"]
        OBVIOUS
    <2>2. /\ w \in ExecutionRow /\ w.pc = "complete" /\ w.envRef = rtWk.envRef
          /\ w.seq = rtWk.seq /\ w.complete = rtWk.complete /\ w.clean = rtWk.clean
          /\ w.runtime = rtWk.runtime
        BY <2>1, StandsAt DEF ExecutionRow, Cleanups
    <2>3. rtCall' = NoCall /\ rtWk' = w
        BY <1>4, <2>1 DEF RecoverRelease
    <2>4. RequestFine(NoCall) /\ NoCall.pc = "none"
        BY NoCallFine
    <2>5. WaitsForOwn'
        BY <2>2, <2>3 DEF WaitsForOwn, NoCall
    <2>6. rtWk.runtime = "CONFIRMED" => Gone
        BY <1>2, <1>4, StandsAt DEF LookFine, Answered
    <2>7. Learns(w)
        BY <1>2, <1>3, <2>2, <2>6, NotOver DEF Learns
    <2> QED BY <1>2, <1>3, <2>2, <2>3, <2>4, <2>5, <2>7, ExecutionStep
<1>5. CASE rtCall.cleanup # "CONFIRMED"
    <2>1. PICK w : w = [rtWk EXCEPT !.environment = rtCall.cleanup, !.pc = "recoverRelease"]
        OBVIOUS
    <2>2. /\ w \in ExecutionRow /\ w.pc = "recoverRelease" /\ w.envRef = rtWk.envRef
          /\ w.seq = rtWk.seq /\ w.complete = rtWk.complete /\ w.clean = rtWk.clean
          /\ w.runtime = rtWk.runtime /\ w.environment = rtCall.cleanup
        BY <1>1, <2>1, StandsAt DEF ExecutionRow
    <2>3. PICK d : d = Request("envdelete")
        OBVIOUS
    <2>4. Fresh(d, "envdelete")
        BY <2>3 DEF Fresh
    <2>5. RequestFine(d) /\ d.op = "envdelete" /\ d.pc = "new"
        BY <2>4, FreshFine
    <2>6. rtCall' = d /\ rtWk' = w
        BY <1>5, <2>1, <2>3 DEF RecoverRelease
    <2>7. WaitsForOwn'
        BY <2>2, <2>5, <2>6 DEF WaitsForOwn
    <2>8. Learns(w)
        BY <1>2, <1>5, <2>2, NotOver DEF Learns
    <2> QED BY <1>2, <1>3, <2>2, <2>5, <2>6, <2>7, <2>8, ExecutionStep
<1> QED BY <1>4, <1>5

\* Where a failed call leaves the execution.
FailsOut(w) ==
    /\ rtWk.pc \in {"put", "polling", "stopping"} /\ rtWk.clean # "recovering"
    /\ w = [rtWk EXCEPT !.runtime = "UNKNOWN",
                        !.pc = IF rtWk.pc = "polling" /\ rtWk.cancelled THEN "poll" ELSE "release"]

FailsRecovering(w) ==
    /\ rtWk.pc \in {"inspecting", "stopping"} /\ rtWk.clean = "recovering"
    /\ w = [rtWk EXCEPT !.pc = "envget",
                        !.runtime = IF rtWk.pc = "inspecting" THEN "UNKNOWN" ELSE @]

FailsReleasing(w) ==
    w = [rtWk EXCEPT !.environment = IF rtWk.pc = "recoverRelease" THEN @ ELSE "UNKNOWN",
                     !.pc = "complete"]

LEMMA FailsSomehow ==
    ASSUME CallFails
    PROVE  FailsOut(rtWk') \/ FailsRecovering(rtWk') \/ FailsReleasing(rtWk')
<1> DEFINE G == rtWk.pc \in {"put", "polling", "stopping"} /\ rtWk.clean # "recovering"
           H == rtWk.pc \in {"inspecting", "stopping"} /\ rtWk.clean = "recovering"
           f == [rtWk EXCEPT !.runtime = "UNKNOWN",
                             !.pc = IF rtWk.pc = "polling" /\ rtWk.cancelled THEN "poll" ELSE "release"]
           g == [rtWk EXCEPT !.pc = "envget",
                             !.runtime = IF rtWk.pc = "inspecting" THEN "UNKNOWN" ELSE @]
           h == [rtWk EXCEPT !.environment = IF rtWk.pc = "recoverRelease" THEN @ ELSE "UNKNOWN",
                             !.pc = "complete"]
<1>1. rtWk' = CASE G -> f [] H -> g [] OTHER -> h
    BY DEF CallFails
<1>2. ~(G /\ H)
    OBVIOUS
<1>3. FailsOut(f) \/ ~G
    BY DEF FailsOut
<1>4. FailsRecovering(g) \/ ~H
    BY DEF FailsRecovering
<1>5. FailsReleasing(h)
    BY DEF FailsReleasing
<1> HIDE DEF G, H, f, g, h
<1>6. (G /\ rtWk' = f) \/ (H /\ rtWk' = g) \/ rtWk' = h
    BY <1>1, <1>2, Zenon
<1> QED BY <1>3, <1>4, <1>5, <1>6

LEMMA FailsStep ==
    ASSUME RemoteInv, CallFails
    PROVE  RemoteInv'
<1>1. /\ rtCall' = NoCall /\ UNCHANGED svcVars /\ UNCHANGED rtEnv
      /\ rtStray' \subseteq rtStray \cup {rtCall} /\ (UNCHANGED rtFaults \/ RtFault)
      /\ rtCall.pc # "none"
    BY DEF CallFails
<1>2. RequestFine(NoCall) /\ NoCall.pc = "none"
    BY NoCallFine
<1>3. rtWk.pc \in {"put", "polling", "inspecting", "stopping", "releasing", "recoverRelease",
                   "envgetting"}
    BY <1>1, <1>2 DEF RemoteInv, WaitsForOwn
<1>4. PICK w : w = rtWk'
    OBVIOUS
<1>5. CASE FailsOut(w)
    <2>1. /\ w \in ExecutionRow /\ w.pc \in {"poll", "release"} /\ w.envRef = rtWk.envRef
          /\ w.seq = rtWk.seq /\ w.complete = rtWk.complete /\ w.clean = rtWk.clean
          /\ w.runtime = "UNKNOWN" /\ w.environment = rtWk.environment
        BY <1>5, StandsAt DEF ExecutionRow, Cleanups, FailsOut
    <2>2. WaitsForOwn'
        BY <1>1, <1>4, <2>1 DEF WaitsForOwn, NoCall
    <2>3. Learns(w)
        BY <1>3, <2>1, NotOver DEF Learns
    <2> QED BY <1>1, <1>2, <1>3, <1>4, <2>1, <2>2, <2>3, ExecutionStep
<1>6. CASE FailsRecovering(w)
    <2>1. /\ w \in ExecutionRow /\ w.pc = "envget" /\ w.envRef = rtWk.envRef
          /\ w.seq = rtWk.seq /\ w.complete = rtWk.complete /\ w.clean = rtWk.clean
          /\ w.runtime \in {"UNKNOWN", rtWk.runtime} /\ w.environment = rtWk.environment
        BY <1>6, StandsAt DEF ExecutionRow, Cleanups, FailsRecovering
    <2>2. rtWk.clean = "recovering"
        BY <1>6 DEF FailsRecovering
    <2>3. WaitsForOwn'
        BY <1>1, <1>4, <2>1, <2>2 DEF WaitsForOwn, NoCall
    <2>4. Learns(w)
        BY <1>3, <2>1, NotOver DEF Learns
    <2> QED BY <1>1, <1>2, <1>3, <1>4, <2>1, <2>3, <2>4, ExecutionStep
<1>7. CASE FailsReleasing(w)
    <2>1. /\ w \in ExecutionRow /\ w.pc = "complete" /\ w.envRef = rtWk.envRef
          /\ w.seq = rtWk.seq /\ w.complete = rtWk.complete /\ w.clean = rtWk.clean
          /\ w.runtime = rtWk.runtime /\ w.environment \in {"UNKNOWN", rtWk.environment}
        BY <1>7, StandsAt DEF ExecutionRow, Cleanups, FailsReleasing
    <2>2. WaitsForOwn'
        BY <1>1, <1>4, <2>1 DEF WaitsForOwn, NoCall
    <2>3. Learns(w)
        BY <1>3, <2>1, NotOver DEF Learns
    <2> QED BY <1>1, <1>2, <1>3, <1>4, <2>1, <2>2, <2>3, ExecutionStep
<1> QED BY <1>4, <1>5, <1>6, <1>7, FailsSomehow

\* A page that was read to its end moves the cursor to it.
LEMMA PollAnsweredStep ==
    ASSUME RemoteInv, PollAnswered
    PROVE  RemoteInv'
<1> DEFINE exited == rtCall.state = "EXITED" /\ ~rtCall.more
           goes == rtCall.state \in {"STARTING", "RUNNING"} \/ (rtCall.state = "EXITED" /\ rtCall.more)
<1>1. PICK w : w = [rtWk EXCEPT !.seq = rtCall.upto, !.complete = exited,
                                !.pc = IF goes THEN "poll" ELSE "release",
                                !.runtime = IF rtCall.state = "EXITED" THEN rtCall.cleanup
                                            ELSE "UNKNOWN"]
    OBVIOUS
<1>2. /\ rtCall' = NoCall /\ UNCHANGED svcVars /\ UNCHANGED <<rtEnv, rtStray>>
      /\ rtWk.pc = "polling" /\ UNCHANGED rtFaults /\ Answered("inspect")
    BY DEF PollAnswered, Quiet
<1>3. rtWk' = w
    BY <1>1 DEF PollAnswered
<1>4. rtCall.cleanup \in Cleanups \cup {""} /\ rtCall.upto \in 0..MaxRtEvents
    BY StandsAt, RequestTyped
<1>5. exited \in BOOLEAN
    OBVIOUS
<1>6. /\ w.pc \in {"poll", "release"} /\ w.envRef = rtWk.envRef
      /\ w.seq = rtCall.upto /\ (w.complete => exited) /\ w.clean = rtWk.clean
      /\ w.runtime \in {"UNKNOWN", rtCall.cleanup} /\ w.environment = rtWk.environment
    BY <1>1, StandsAt DEF ExecutionRow
<1>7. w \in ExecutionRow
    <2> HIDE DEF exited
    <2> QED BY ZenonT(60), <1>1, <1>4, <1>5, StandsAt DEF ExecutionRow, Cleanups
<1>8. RequestFine(NoCall) /\ NoCall.pc = "none"
    BY NoCallFine
<1>9. WaitsForOwn'
    BY <1>2, <1>3, <1>6 DEF WaitsForOwn, NoCall
<1>10. CursorFine(rtCall) /\ PlaceFine(rtCall)
    BY StandsAt DEF RequestFine
<1>11. rtCall.cleanup = "CONFIRMED" => rtMarker
    BY <1>2, <1>10 DEF PlaceFine, Answered
<1>12. w.complete => rtMarker /\ (~HasRun \/ (RunDone /\ rtCall.upto = rtRun.events))
    BY <1>2, <1>6, <1>10 DEF PlaceFine, Answered
<1>13. (HasRun => rtCall.upto <= rtRun.events) /\ (~rtMarker => rtCall.upto = 0)
    BY <1>10 DEF CursorFine
<1>14. WorkerFine'
    <2>1. WorkerFine
        BY DEF RemoteInv
    <2>2. /\ rtEnv = "container" /\ rtWk.environment = "CONFIRMED" => rtReleased
          /\ rtWk.clean # "yes"
        BY <1>2, NotOver
    <2> QED BY <1>2, <1>3, <1>6, <1>11, <1>12, <1>13, <2>1, <2>2, ServiceSame DEF WorkerFine
<1>15. rtStray' \subseteq rtStray \cup {rtCall, Request("put")}
    BY <1>2
<1> QED BY <1>2, <1>3, <1>7, <1>8, <1>9, <1>14, <1>15, StandsAt, WorkerStep

LEMMA CompleteStep ==
    ASSUME RemoteInv, Complete
    PROVE  RemoteInv'
<1> DEFINE both == rtWk.runtime = "CONFIRMED" /\ rtWk.environment = "CONFIRMED"
<1>1. PICK w : w = [rtWk EXCEPT !.pc = "done", !.clean = IF both THEN "yes" ELSE "no"]
    OBVIOUS
<1>2. /\ w \in ExecutionRow /\ w.pc = "done" /\ w.envRef = rtWk.envRef
      /\ w.seq = rtWk.seq /\ w.complete = rtWk.complete /\ w.clean \in {"yes", "no"}
      /\ w.runtime = rtWk.runtime /\ w.environment = rtWk.environment
      /\ w.clean = "yes" => both
    BY ZenonT(60), <1>1, StandsAt DEF ExecutionRow
<1>3. /\ rtCall' = rtCall /\ UNCHANGED svcVars /\ UNCHANGED <<rtEnv, rtStray>>
      /\ rtWk.pc = "complete" /\ UNCHANGED rtFaults /\ rtWk' = w
    BY <1>1 DEF Complete, Quiet
<1>4. WaitsForOwn'
    BY <1>2, <1>3 DEF RemoteInv, WaitsForOwn, NoCall
<1>5. WorkerFine'
    <2>1. WorkerFine
        BY DEF RemoteInv
    <2> QED BY <1>2, <1>3, <2>1, ServiceSame DEF WorkerFine
<1>6. rtStray' \subseteq rtStray \cup {rtCall, Request("put")}
    BY <1>3
<1> QED BY <1>2, <1>3, <1>4, <1>5, <1>6, StandsAt, WorkerStep

LEMMA WorkerRestartStep ==
    ASSUME RemoteInv, WorkerRestarts
    PROVE  RemoteInv'
<1>1. PICK w : w = [rtWk EXCEPT !.pc = IF rtWk.journalled THEN "inspect" ELSE "envget",
                                !.clean = "recovering", !.complete = FALSE, !.runtime = "UNKNOWN"]
    OBVIOUS
<1>2. /\ w \in ExecutionRow /\ w.pc \in {"inspect", "envget"} /\ w.envRef = rtWk.envRef
      /\ w.seq = rtWk.seq /\ w.complete = FALSE /\ w.clean = "recovering"
      /\ w.runtime = "UNKNOWN" /\ w.environment = rtWk.environment
    BY ZenonT(60), <1>1, StandsAt DEF ExecutionRow, Cleanups
<1>3. /\ rtCall' = NoCall /\ UNCHANGED svcVars /\ UNCHANGED rtEnv /\ RtFault /\ rtWk' = w
      /\ rtWk.pc # "done" /\ rtWk.clean # "recovering"
      /\ rtStray' \subseteq rtStray \cup {rtCall, Request("put")}
    BY <1>1 DEF WorkerRestarts
<1>4. RequestFine(NoCall) /\ NoCall.pc = "none"
    BY NoCallFine
<1>5. WaitsForOwn'
    BY <1>2, <1>3 DEF WaitsForOwn, NoCall
<1>6. WorkerFine'
    <2>1. WorkerFine
        BY DEF RemoteInv
    <2> QED BY <1>2, <1>3, <2>1, ServiceSame DEF WorkerFine
<1> QED BY <1>2, <1>3, <1>4, <1>5, <1>6, StandsAt, WorkerStep

LEMMA RepeatStep ==
    ASSUME RemoteInv, RepeatPut
    PROVE  RemoteInv'
<1>1. /\ rtCall' = rtCall /\ UNCHANGED svcVars /\ rtEnv' = rtEnv /\ rtWk' = rtWk /\ RtFault
      /\ rtStray' \subseteq rtStray \cup {rtCall, Request("put")}
    BY DEF RepeatPut
<1>2. WaitsForOwn'
    BY <1>1 DEF RemoteInv, WaitsForOwn, NoCall
<1>3. WorkerFine'
    <2>1. WorkerFine
        BY DEF RemoteInv
    <2> QED BY <1>1, <2>1, ServiceSame DEF WorkerFine
<1>4. rtWk' \in ExecutionRow /\ rtEnv' \in Environments \cup {"none"} /\ RequestFine(rtCall)
    BY <1>1, StandsAt
<1> QED BY <1>1, <1>2, <1>3, <1>4, WorkerStep

LEMMA PrepareStep ==
    ASSUME RemoteInv, PrepareEnvironment
    PROVE  RemoteInv'
<1>1. PICK p \in {"start", "release"}, r \in {rtWk.runtime, "CONFIRMED"} :
         rtWk' = [rtWk EXCEPT !.envRef = TRUE, !.pc = p, !.runtime = r]
    <2>1. [rtWk EXCEPT !.envRef = TRUE, !.pc = "start"] =
          [rtWk EXCEPT !.envRef = TRUE, !.pc = "start", !.runtime = rtWk.runtime]
        BY StandsAt DEF ExecutionRow
    <2> QED BY <2>1 DEF PrepareEnvironment
<1>2. PICK w : w = rtWk'
    OBVIOUS
<1>2a. rtWk.runtime \in Cleanups \cup {""}
    BY StandsAt DEF ExecutionRow
<1>3. r \in Cleanups \cup {""}
    BY <1>1, <1>2a DEF Cleanups
<1>4. /\ w \in ExecutionRow /\ w.pc = p /\ w.envRef = TRUE
      /\ w.seq = rtWk.seq /\ w.complete = rtWk.complete /\ w.clean = rtWk.clean
      /\ w.environment = rtWk.environment
    BY <1>1, <1>2, <1>3, StandsAt DEF ExecutionRow
<1>5. /\ rtCall' = rtCall /\ UNCHANGED svcVars /\ rtEnv' \in Environments /\ rtStray' = rtStray
      /\ rtWk.pc = "prepare" /\ (UNCHANGED rtFaults \/ RtFault)
    BY DEF PrepareEnvironment
<1>6. rtCall = NoCall /\ rtWk.clean = "" /\ rtWk.environment = ""
    BY <1>5 DEF RemoteInv, WaitsForOwn, WorkerFine
<1>7. WaitsForOwn'
    BY <1>1, <1>2, <1>4, <1>5, <1>6 DEF WaitsForOwn, NoCall
<1>8. WorkerFine'
    <2>1. WorkerFine
        BY DEF RemoteInv
    <2> QED BY <1>1, <1>2, <1>4, <1>5, <1>6, <2>1, ServiceSame DEF WorkerFine
<1>9. RequestFine(NoCall) /\ NoCall.pc = "none"
    BY NoCallFine
<1>10. rtStray' \subseteq rtStray \cup {rtCall, Request("put")} /\ rtEnv' \in Environments \cup {"none"}
    BY <1>5
<1> QED BY <1>2, <1>4, <1>5, <1>6, <1>7, <1>8, <1>9, <1>10, WorkerStep

----------------------------------------------------------------------------
(* The HTTP runtime: the theorems *)

LEMMA RemoteInvInit ==
    ASSUME RemoteInit
    PROVE  RemoteInv
<1>0. 0 \in 0..MaxRtEvents
    BY RemoteAssumption
<1>1. /\ rtWk.pc = "prepare" /\ rtWk.envRef = FALSE /\ rtWk.seq = 0 /\ rtWk.complete = FALSE
      /\ rtWk.runtime = "" /\ rtWk.environment = "" /\ rtWk.clean = ""
    BY DEF RemoteInit
<1>2. rtWk \in ExecutionRow
    BY <1>0 DEF RemoteInit, ExecutionRow, Cleanups
<1>3. rtRun \in RunRow /\ ~HasRun /\ ~RunDone /\ rtRun.state = "UNKNOWN" /\ rtRun.events = 0
    BY <1>0 DEF RemoteInit, NoRun, RunRow, Cleanups, HasRun, RunDone
<1>4. rtCall \in RtRequestRow /\ rtCall.op = "none" /\ rtCall.pc = "none" /\ rtCall.upto = 0
    BY <1>0 DEF RemoteInit, NoCall, RtRequestRow, Cleanups
<1>5. RemoteTypeOK
    <2>1. 0 \in 0..MaxRtFaults /\ 0 \in Nat
        BY RemoteAssumption
    <2> QED BY <1>2, <1>3, <1>4, <2>1 DEF RemoteInit, RemoteTypeOK
<1>6. MarkerFirst
    BY <1>3 DEF RemoteInit, MarkerFirst
<1>7. RequestsFine
    BY <1>3, <1>4 DEF RemoteInit, RequestsFine, RequestFine, CursorFine, PlaceFine
<1>8. LookFine(rtCall)
    BY <1>4 DEF LookFine
<1>9. WaitsForOwn
    BY <1>1 DEF RemoteInit, WaitsForOwn
<1>10. WorkerFine
    BY <1>1, <1>3 DEF RemoteInit, WorkerFine
<1> QED BY <1>5, <1>6, <1>7, <1>8, <1>9, <1>10 DEF RemoteInv

LEMMA RemoteInvStep ==
    ASSUME RemoteInv, [RemoteNext]_rtVars
    PROVE  RemoteInv'
<1>1. CASE UNCHANGED rtVars
    <2>1. UNCHANGED svcVars /\ UNCHANGED rtFaults /\ UNCHANGED <<rtEnv, rtWk, rtCall, rtStray>>
        BY <1>1 DEF rtVars, svcVars
    <2> QED BY <2>1, Unmoved, QuietStep
<1>2. ASSUME ReleaseEnvironment
      PROVE  RemoteInv'
    BY <1>2, ReleaseEnvironmentStep
<1> QED BY <1>1, <1>2, ServiceStep, PrepareStep, StartStep, PutStep, SendStep, PollAnsweredStep,
           StopAnsweredStep, FailsStep, CancelStep, ReleaseEnvironmentStep, ReleaseAnsweredStep,
           CompleteStep, WorkerRestartStep, RecoverAnsweredStep, RecoverReleaseStep, RepeatStep
       DEF RemoteNext

(* RemoteInv is inductive: the marker file comes before the run and all it  *)
(* starts, and neither a restart of the service, a repeated or late request *)
(* nor a recovering Worker gets around it.                                  *)
THEOREM RemoteSafe == RemoteSpec => []RemoteInv
<1>1. RemoteInit => RemoteInv
    BY RemoteInvInit
<1>2. RemoteInv /\ [RemoteNext]_rtVars => RemoteInv'
    BY RemoteInvStep
<1> QED BY <1>1, <1>2, PTL DEF RemoteSpec

(* The runs, the requests and the execution of an Attempt that uses the     *)
(* HTTP runtime keep their types.                                           *)
THEOREM RemoteTyped == RemoteSpec => []RemoteTypeOK
<1>1. RemoteInv => RemoteTypeOK
    BY DEF RemoteInv
<1> QED BY <1>1, RemoteSafe, PTL

(* A container of the Attempt is started at most once; a confirmed release, *)
(* or a completion in a container environment that says that nothing is     *)
(* left, means that no container exists and none can be started; a Worker   *)
(* that takes a run for exited has read all of its events.                  *)
THEOREM RemoteRunsSound == RemoteSpec => []RemoteRunSound
<1>1. ASSUME RemoteInv
      PROVE  RemoteRunSound
    <2>1. rtStarts <= 1
        BY <1>1 DEF RemoteInv, MarkerFirst
    <2>2. rtReleased => rtMarker /\ ~RunLive /\ ~rtBox
        BY <1>1 DEF RemoteInv, MarkerFirst, Gone
    <2>3. rtWk.clean = "yes" /\ rtEnv = "container" => rtMarker /\ ~RunLive /\ ~rtBox
        BY <1>1, <2>2 DEF RemoteInv, WorkerFine, Gone
    <2>4. rtWk.complete => rtWk.seq = rtRun.events \/ ~HasRun
        BY <1>1 DEF RemoteInv, WorkerFine
    <2> QED BY <2>1, <2>2, <2>3, <2>4 DEF RemoteRunSound
<1>2. RemoteInv => RemoteRunSound
    BY <1>1
<1> QED BY <1>2, RemoteSafe, PTL
=============================================================================
