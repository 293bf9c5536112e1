----------------------------- MODULE Workspaces -----------------------------
(***************************************************************************)
(* The Worker's workspaces: a directory per Attempt, filled from the       *)
(* cached template of its repository or from a warm copy of it, the        *)
(* journal rows that own them, retention and deletion, and the collection  *)
(* of the cache.  The Worker may crash between any two steps.              *)
(*                                                                         *)
(* One template.  A tree is "good" when its content has the digest of the  *)
(* manifest.  Storage may corrupt a tree of the cache, but not while the   *)
(* cache's lock is held.                                                   *)
(***************************************************************************)
EXTENDS Naturals, FiniteSets

CONSTANTS
    WsAttempts,     \* Attempts with a workspace
    LegacyAttempts, \* those of a version that kept no rows
    WarmSlots,      \* workspace_warm_slots
    MaxFaultsWs     \* bound on crashes and corruptions

ASSUME WorkspacesAssumption ==
    /\ LegacyAttempts \subseteq WsAttempts
    /\ WarmSlots \in 0 .. 2 /\ MaxFaultsWs \in Nat

VARIABLES
    wsRow,     \* workspaces.state
    wsDir,     \* the directory of the Attempt
    wsPc,      \* where its preparation is
    wsDone,    \* runs.completed
    cacheTree, \* the template
    cacheOld,  \* not used within the retention, or the cache is over budget
    tombstone, \* ".deleting-": a template about to be removed
    warmPool,  \* the warm slots; "none" without a pool
    cacheLock, \* holders of the flock: Attempts that share it, or one exclusive
    wsFaults

wsVars == <<wsRow, wsDir, wsPc, wsDone, cacheTree, cacheOld, tombstone, warmPool,
            cacheLock, wsFaults>>

Trees == {"none", "good", "bad"}

Collector == "gc"

WorkspacesTypeOK ==
    /\ wsRow \in [WsAttempts -> {"none", "PREPARING", "READY", "IN_USE", "RETAINED",
                                 "QUARANTINED", "DELETING", "DELETED"}]
    /\ wsDir \in [WsAttempts -> Trees \cup {"partial"}]
    /\ wsPc \in [WsAttempts -> {"idle", "begun", "shared", "miss", "exclusive", "ready",
                                "delete", "delivered", "over"}]
    /\ wsDone \subseteq WsAttempts
    /\ cacheTree \in Trees /\ cacheOld \in BOOLEAN /\ tombstone \in BOOLEAN
    /\ warmPool \in [{1, 2} -> Trees] \cup {<<>>}
    /\ cacheLock \subseteq WsAttempts \cup {Collector}
    /\ wsFaults \in 0 .. MaxFaultsWs

WorkspacesInit ==
    /\ wsRow = [a \in WsAttempts |-> "none"]
    /\ wsDir = [a \in WsAttempts |-> IF a \in LegacyAttempts THEN "good" ELSE "none"]
    /\ wsPc = [a \in WsAttempts |-> IF a \in LegacyAttempts THEN "over" ELSE "idle"]
    /\ wsDone = LegacyAttempts
    /\ cacheTree = "none" /\ cacheOld = FALSE /\ tombstone = FALSE
    /\ warmPool = <<>> /\ cacheLock = {} /\ wsFaults = 0

WsFault == wsFaults < MaxFaultsWs /\ wsFaults' = wsFaults + 1

Exclusive == \E h \in cacheLock : h = Collector \/ wsPc[h] # "shared"

----------------------------------------------------------------------------
(* prepareWorkspace *)

\* The row is inserted before anything is on disk.
RegisterWorkspace(a) ==
    /\ wsPc[a] = "idle"
    /\ wsRow' = [wsRow EXCEPT ![a] = "PREPARING"]
    /\ wsPc' = [wsPc EXCEPT ![a] = "begun"]
    /\ UNCHANGED <<wsDir, wsDone, cacheTree, cacheOld, tombstone, warmPool, cacheLock, wsFaults>>

\* PrepareAttempt looks for the template under the shared lock, and keeps it
\* on a hit without a warm pool.
LookShared(a) ==
    LET hit == cacheTree # "none" /\ warmPool = <<>> IN
    /\ wsPc[a] = "begun" /\ ~Exclusive
    /\ wsPc' = [wsPc EXCEPT ![a] = IF hit THEN "shared" ELSE "miss"]
    /\ cacheLock' = IF hit THEN cacheLock \cup {a} ELSE cacheLock
    /\ wsDir' = IF hit THEN [wsDir EXCEPT ![a] = "partial"] ELSE wsDir
    /\ UNCHANGED <<wsRow, wsDone, cacheTree, cacheOld, tombstone, warmPool, wsFaults>>

\* A workspace is handed over, or removed and given up.
Deliver(a, ok) ==
    /\ wsDir' = [wsDir EXCEPT ![a] = IF ok THEN "good" ELSE "none"]
    /\ wsPc' = [wsPc EXCEPT ![a] = IF ok THEN "ready" ELSE "delete"]
    /\ cacheLock' = cacheLock \ {a}
    /\ cacheOld' = IF ok THEN FALSE ELSE cacheOld

\* prepareCachedAttempt: the copy counts once the digest of its source is
\* verified; either may fail.
CopyShared(a) ==
    /\ wsPc[a] = "shared"
    /\ \E io \in BOOLEAN : Deliver(a, io /\ cacheTree = "good")
    /\ UNCHANGED <<wsRow, wsDone, cacheTree, tombstone, warmPool, wsFaults>>

\* prepareAttemptLocked: prepareTemplate inspects an existing template or
\* clones one aside and renames it into place.
LockExclusive(a) ==
    /\ wsPc[a] = "miss" /\ cacheLock = {}
    /\ cacheLock' = {a}
    /\ wsPc' = [wsPc EXCEPT ![a] = "exclusive"]
    /\ \E cloned \in BOOLEAN :
          cacheTree' = IF cacheTree = "none" /\ cloned THEN "good" ELSE cacheTree
    /\ UNCHANGED <<wsRow, wsDir, wsDone, cacheOld, tombstone, warmPool, wsFaults>>

FullSlots == {i \in DOMAIN warmPool : warmPool[i] # "none"}

\* Mutant: a warm slot is handed out without its digest.
UncheckedWarm(a, i) ==
    /\ warmPool' = [warmPool EXCEPT ![i] = "none"]
    /\ wsDir' = [wsDir EXCEPT ![a] = warmPool[i]]
    /\ wsPc' = [wsPc EXCEPT ![a] = "ready"]
    /\ cacheLock' = cacheLock \ {a} /\ cacheOld' = FALSE

\* takeWarm: the first full slot is verified and moved, never copied.
TakeWarm(a, i) ==
    IF warmPool[i] = "good"
    THEN warmPool' = [warmPool EXCEPT ![i] = "none"] /\ Deliver(a, TRUE)
    ELSE UNCHANGED warmPool /\ Deliver(a, FALSE)

MaterializeExclusive(a) ==
    /\ wsPc[a] = "exclusive"
    /\ \/ cacheTree # "good" /\ Deliver(a, FALSE) /\ UNCHANGED warmPool
       \/ /\ cacheTree = "good" /\ FullSlots # {}
          /\ \E i \in FullSlots : (\A k \in FullSlots : i <= k) /\ TakeWarm(a, i)
       \/ /\ cacheTree = "good" /\ FullSlots = {}
          /\ \E io \in BOOLEAN : Deliver(a, io)
          /\ UNCHANGED warmPool
    /\ UNCHANGED <<wsRow, wsDone, cacheTree, tombstone, wsFaults>>

\* CheckQuota, then READY; the pool is refilled under a lock of its own.
MarkReady(a, quota) ==
    /\ wsPc[a] = "ready" /\ wsRow[a] = "PREPARING"
    /\ IF quota THEN wsRow' = [wsRow EXCEPT ![a] = "READY"] /\ UNCHANGED wsPc
       ELSE wsPc' = [wsPc EXCEPT ![a] = "delete"] /\ UNCHANGED wsRow
    /\ UNCHANGED <<wsDir, wsDone, cacheTree, cacheOld, tombstone, warmPool, cacheLock, wsFaults>>

Prewarm(a) ==
    /\ wsPc[a] = "ready" /\ wsRow[a] = "READY"
    /\ WarmSlots > 0 => cacheLock = {}
    /\ warmPool' =
          IF WarmSlots = 0 \/ cacheTree # "good" THEN warmPool
          ELSE [i \in {1, 2} |->
                  IF i \in FullSlots THEN warmPool[i]
                  ELSE IF i <= WarmSlots THEN "good" ELSE "none"]
    /\ wsPc' = [wsPc EXCEPT ![a] = "delivered"]
    /\ UNCHANGED <<wsRow, wsDir, wsDone, cacheTree, cacheOld, tombstone, cacheLock, wsFaults>>

MarkInUse(a) ==
    /\ wsPc[a] = "delivered" /\ wsRow[a] = "READY"
    /\ wsRow' = [wsRow EXCEPT ![a] = "IN_USE"]
    /\ UNCHANGED <<wsDir, wsPc, wsDone, cacheTree, cacheOld, tombstone, warmPool, cacheLock, wsFaults>>

----------------------------------------------------------------------------
(* The end of a workspace *)

Live == {"PREPARING", "READY", "IN_USE"}

\* finalizeWorkspace, at the end of a run or when it is recovered: before the
\* spawn cleanup is always confirmed.
Finalize(a, confirmed) ==
    /\ wsPc[a] \in {"delivered", "over"} /\ a \notin wsDone
    /\ wsRow[a] # "IN_USE" => confirmed
    /\ wsRow' = [wsRow EXCEPT ![a] =
          IF @ \notin Live THEN @ ELSE IF confirmed THEN "RETAINED" ELSE "QUARANTINED"]
    /\ wsPc' = [wsPc EXCEPT ![a] = "over"]
    /\ wsDone' = wsDone \cup {a}
    /\ UNCHANGED <<wsDir, cacheTree, cacheOld, tombstone, warmPool, cacheLock, wsFaults>>

\* deleteWorkspace after a failed preparation, or after the retention
\* (reconcileWorkspaceLifecycle); the directory goes between two row states.
StartDelete(a) ==
    /\ \/ wsPc[a] = "delete" /\ wsRow[a] \in {"PREPARING", "READY", "RETAINED"}
       \/ wsRow[a] = "RETAINED" /\ a \in wsDone
    /\ wsRow' = [wsRow EXCEPT ![a] = "DELETING"]
    /\ wsPc' = [wsPc EXCEPT ![a] = "over"]
    /\ UNCHANGED <<wsDir, wsDone, cacheTree, cacheOld, tombstone, warmPool, cacheLock, wsFaults>>

RemoveWorkspace(a) ==
    /\ wsRow[a] = "DELETING" /\ wsDir[a] # "none"
    /\ wsDir' = [wsDir EXCEPT ![a] = "none"]
    /\ UNCHANGED <<wsRow, wsPc, wsDone, cacheTree, cacheOld, tombstone, warmPool, cacheLock, wsFaults>>

EndDelete(a) ==
    /\ wsRow[a] = "DELETING" /\ wsDir[a] = "none"
    /\ wsRow' = [wsRow EXCEPT ![a] = "DELETED"]
    /\ UNCHANGED <<wsDir, wsPc, wsDone, cacheTree, cacheOld, tombstone, warmPool, cacheLock, wsFaults>>

\* bootstrapWorkspaceInventory: a directory without a row but with a run.
AdoptLegacy(a, confirmed) ==
    /\ wsRow[a] = "none" /\ wsDir[a] # "none"
    /\ wsRow' = [wsRow EXCEPT ![a] = IF confirmed THEN "RETAINED" ELSE "QUARANTINED"]
    /\ UNCHANGED <<wsDir, wsPc, wsDone, cacheTree, cacheOld, tombstone, warmPool, cacheLock, wsFaults>>

----------------------------------------------------------------------------
(* CollectCache, and what happens to a Worker *)

\* Tombstones go first, with the pool and the access record of their name.
StartCollect ==
    /\ cacheLock = {}
    /\ cacheLock' = {Collector}
    /\ warmPool' = IF tombstone THEN <<>> ELSE warmPool
    /\ tombstone' = FALSE
    /\ UNCHANGED <<wsRow, wsDir, wsPc, wsDone, cacheTree, cacheOld, wsFaults>>

EvictTemplate ==
    /\ Collector \in cacheLock /\ cacheOld /\ cacheTree # "none" /\ ~tombstone
    /\ cacheTree' = "none" /\ tombstone' = TRUE
    /\ UNCHANGED <<wsRow, wsDir, wsPc, wsDone, cacheOld, warmPool, cacheLock, wsFaults>>

EndCollect ==
    /\ Collector \in cacheLock
    /\ tombstone \/ ~(cacheOld /\ cacheTree # "none")
    /\ warmPool' = IF tombstone THEN <<>> ELSE warmPool
    /\ tombstone' = FALSE /\ cacheLock' = {}
    /\ UNCHANGED <<wsRow, wsDir, wsPc, wsDone, cacheTree, cacheOld, wsFaults>>

AgeTemplate ==
    /\ cacheTree # "none" /\ ~cacheOld /\ cacheOld' = TRUE
    /\ UNCHANGED <<wsRow, wsDir, wsPc, wsDone, cacheTree, tombstone, warmPool, cacheLock, wsFaults>>

Corrupt ==
    /\ WsFault /\ cacheLock = {}
    /\ \/ cacheTree = "good" /\ cacheTree' = "bad" /\ UNCHANGED warmPool
       \/ \E i \in FullSlots : warmPool' = [warmPool EXCEPT ![i] = "bad"] /\ UNCHANGED cacheTree
    /\ UNCHANGED <<wsRow, wsDir, wsPc, wsDone, cacheOld, tombstone, cacheLock>>

\* The process ends: locks are gone, what was under way is recovered.
WorkerCrashes ==
    /\ WsFault
    /\ cacheLock' = {}
    /\ wsPc' = [a \in WsAttempts |-> IF wsPc[a] = "idle" THEN "idle" ELSE "over"]
    /\ \E cut \in BOOLEAN :
          wsDir' = [a \in WsAttempts |->
             IF wsPc[a] = "exclusive" /\ cut THEN "partial" ELSE wsDir[a]]
    /\ UNCHANGED <<wsRow, wsDone, cacheTree, cacheOld, tombstone, warmPool>>

WorkspacesNext ==
    \/ \E a \in WsAttempts :
          \/ RegisterWorkspace(a)
          \/ LookShared(a)
          \/ CopyShared(a)
          \/ LockExclusive(a)
          \/ MaterializeExclusive(a)
          \/ \E quota \in BOOLEAN : MarkReady(a, quota)
          \/ Prewarm(a)
          \/ MarkInUse(a)
          \/ \E confirmed \in BOOLEAN : Finalize(a, confirmed) \/ AdoptLegacy(a, confirmed)
          \/ StartDelete(a)
          \/ RemoveWorkspace(a)
          \/ EndDelete(a)
    \/ StartCollect \/ EvictTemplate \/ EndCollect
    \/ AgeTemplate
    \/ Corrupt
    \/ WorkerCrashes

----------------------------------------------------------------------------
\* An Attempt works in a directory with the verified content of its template,
\* which nothing removes under it; and once its row says DELETED, or there is
\* none, nothing of it is left on disk, whatever crashed, was corrupted or was
\* collected on the way (prepareWorkspace, takeWarm, deleteWorkspace).
WorkspaceSound ==
    \A a \in WsAttempts :
        /\ wsRow[a] \in {"READY", "IN_USE"} => wsDir[a] = "good"
        /\ wsRow[a] = "DELETED" => wsDir[a] = "none"
        /\ wsRow[a] = "none" /\ a \notin LegacyAttempts => wsDir[a] = "none"

WorkspacesSpec == WorkspacesInit /\ [][WorkspacesNext]_wsVars
=============================================================================
