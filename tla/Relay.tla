------------------------------- MODULE Relay -------------------------------
(***************************************************************************)
(* The relay: the issuer of ticket pairs, the Broker that pairs two        *)
(* connections and forwards between them, the Server's loop that asks for  *)
(* a pair while a Worker has no stream, and the Worker's connector, which  *)
(* tries the direct address first.  All of the relay's state is memory: a  *)
(* restart gives it a new epoch.                                           *)
(*                                                                         *)
(* The two tickets of a pair expire together, so the clock is one flag per *)
(* pair.  Signatures hold; a ticket may be presented any number of times.  *)
(***************************************************************************)
EXTENDS Naturals, FiniteSets

CONSTANTS
    RelayWorkers,     \* Workers with a credential
    MaxPairs,         \* bound on issued pairs
    Connections,      \* limits.Connections
    PairsPerWorker,   \* limits.PairsPerWorker
    MaxSpent,         \* entries of the replay table (4096)
    MaxRelayEpoch     \* bound on restarts

ASSUME RelayAssumption ==
    /\ {MaxPairs, Connections, PairsPerWorker, MaxSpent, MaxRelayEpoch}
          \subseteq Nat \ {0}
    /\ RelayWorkers # {}

VARIABLES
    rEpoch,    \* Broker.epoch
    rPairs,    \* what the tickets of a pair say
    rPending,  \* Issuer.pending
    rHeld,     \* tickets handed out
    rConns,    \* Broker.slots: the handler in each of them
    rOpen,     \* Broker.pairs: the connection that waits for a mate
    rCount,    \* Broker.workers
    rSpent,    \* Broker.spent
    rPaired,   \* how often a pair was forwarded
    rDial      \* the Worker's connector: what it tries next, or "up"

relayVars == <<rEpoch, rPairs, rPending, rHeld, rConns, rOpen, rCount, rSpent,
               rPaired, rDial>>

RelayPairs == 1 .. MaxPairs

RelayConns == 1 .. Connections

Roles == {"server", "worker"}

NoPair == [worker |-> "", epoch |-> 0, expired |-> FALSE]

NoConn == [phase |-> "none", pair |-> 0, role |-> "", first |-> 0]

PairRow == [worker : RelayWorkers \cup {""}, epoch : 0 .. MaxRelayEpoch, expired : BOOLEAN]

ConnRow == [phase : {"none", "verified", "waiting", "mated", "paired", "left"},
            pair : 0 .. MaxPairs, role : Roles \cup {""}, first : 0 .. Connections]

RelayTypeOK ==
    /\ rEpoch \in 1 .. MaxRelayEpoch
    /\ rPairs \in [RelayPairs -> PairRow]
    /\ rPending \in [RelayWorkers -> 0 .. MaxPairs]
    /\ rHeld \subseteq RelayPairs \X Roles
    /\ rConns \in [RelayConns -> ConnRow]
    /\ rOpen \in [RelayPairs -> 0 .. Connections]
    /\ rCount \in [RelayWorkers -> Nat]
    /\ rSpent \subseteq RelayPairs \X (Roles \cup {"pair"})
    /\ rPaired \in [RelayPairs -> Nat]
    /\ rDial \in [RelayWorkers -> {"direct", "alternate", "up"}]

RelayInit ==
    /\ rEpoch = 1
    /\ rPairs = [p \in RelayPairs |-> NoPair]
    /\ rPending = [w \in RelayWorkers |-> 0]
    /\ rHeld = {} /\ rSpent = {}
    /\ rConns = [c \in RelayConns |-> NoConn]
    /\ rOpen = [p \in RelayPairs |-> 0]
    /\ rCount = [w \in RelayWorkers |-> 0]
    /\ rPaired = [p \in RelayPairs |-> 0]
    /\ rDial = [w \in RelayWorkers |-> "direct"]

----------------------------------------------------------------------------
(* Issuer *)

\* A ticket the issuer keeps, or the Broker accepts, is still valid.
TicketLives(p) == p # 0 /\ ~rPairs[p].expired

\* relayPeerLoop asks for a pair while the Worker has no stream; issue()
\* refuses a second one while the first is neither claimed nor expired.
IssuePair(w, p) ==
    /\ rDial[w] # "up"
    /\ ~TicketLives(rPending[w])
    /\ rPairs[p] = NoPair /\ \A q \in 1 .. p - 1 : rPairs[q] # NoPair
    /\ rPairs' = [rPairs EXCEPT ![p] = [worker |-> w, epoch |-> rEpoch, expired |-> FALSE]]
    /\ rPending' = [v \in RelayWorkers |->
          IF v = w THEN p ELSE IF TicketLives(rPending[v]) THEN rPending[v] ELSE 0]
    /\ rHeld' = rHeld \cup {<<p, "server">>}
    /\ UNCHANGED <<rEpoch, rConns, rOpen, rCount, rSpent, rPaired, rDial>>

\* One direct attempt, then at most one through the relay.
TryDirect(w, ok) ==
    /\ rDial[w] = "direct"
    /\ rDial' = [rDial EXCEPT ![w] = IF ok THEN "up" ELSE "alternate"]
    /\ UNCHANGED <<rEpoch, rPairs, rPending, rHeld, rConns, rOpen, rCount, rSpent, rPaired>>

\* A claim takes the pending ticket; without one the connector fails.
ClaimPair(w) ==
    /\ rDial[w] = "alternate"
    /\ rDial' = [rDial EXCEPT ![w] = "direct"]
    /\ rPending' = [rPending EXCEPT ![w] = 0]
    /\ rHeld' = IF TicketLives(rPending[w]) THEN rHeld \cup {<<rPending[w], "worker">>}
                ELSE rHeld
    /\ UNCHANGED <<rEpoch, rPairs, rConns, rOpen, rCount, rSpent, rPaired>>

----------------------------------------------------------------------------
(* Broker *)

\* Serve takes a slot, handle reads the ticket and verifies it.  A connection
\* refused here leaves nothing behind.
AcceptConn(c, p, role) ==
    /\ rConns[c] = NoConn /\ \A d \in 1 .. c - 1 : rConns[d] # NoConn
    /\ <<p, role>> \in rHeld /\ TicketLives(p)
    /\ rConns' = [rConns EXCEPT ![c] =
          [NoConn EXCEPT !.phase = "verified", !.pair = p, !.role = role]]
    /\ UNCHANGED <<rEpoch, rPairs, rPending, rHeld, rOpen, rCount, rSpent, rPaired, rDial>>

\* Mutant: the purge drops what is still valid.
PurgeLive == {k \in rSpent : rPairs[k[1]].expired}

PurgeExpired == {k \in rSpent : ~rPairs[k[1]].expired}

\* attach, under the lock: time has passed since the ticket was verified.
AttachConn(c) ==
    LET t     == rConns[c]
        w     == rPairs[t.pair].worker
        spent == PurgeExpired
        close == [rConns EXCEPT ![c] = NoConn]
        other == rOpen[t.pair]
        keep  == UNCHANGED <<rOpen, rCount>>
    IN
    /\ t.phase = "verified"
    /\ IF rPairs[t.pair].epoch # rEpoch
       THEN rConns' = close /\ keep /\ UNCHANGED rSpent
       ELSE IF \/ {<<t.pair, t.role>>, <<t.pair, "pair">>} \cap spent # {}
               \/ Cardinality(spent) + 2 > MaxSpent
       THEN rConns' = close /\ rSpent' = spent /\ keep
       ELSE IF other # 0
       THEN IF rConns[other].role = t.role \/ rPairs[t.pair].expired
            THEN rConns' = close /\ rSpent' = spent /\ keep
            ELSE /\ rConns' = [rConns EXCEPT ![c].phase = "mated", ![c].first = other]
                 /\ rOpen' = [rOpen EXCEPT ![t.pair] = 0]
                 /\ rSpent' = spent \cup {<<t.pair, t.role>>, <<t.pair, "pair">>}
                 /\ UNCHANGED rCount
       ELSE IF rCount[w] >= PairsPerWorker
       THEN rConns' = close /\ rSpent' = spent /\ keep
       ELSE /\ rConns' = [rConns EXCEPT ![c].phase = "waiting"]
            /\ rOpen' = [rOpen EXCEPT ![t.pair] = c]
            /\ rSpent' = spent \cup {<<t.pair, t.role>>}
            /\ rCount' = [rCount EXCEPT ![w] = @ + 1]
    /\ UNCHANGED <<rEpoch, rPairs, rPending, rHeld, rPaired, rDial>>

MatesOf(c) == {d \in RelayConns : rConns[d].phase = "mated" /\ rConns[d].first = c}

\* The first connection takes its mate from the channel and both are ready.
ForwardPair(c) ==
    /\ rConns[c].phase = "waiting" /\ MatesOf(c) # {}
    /\ rConns' = [rConns EXCEPT ![c].phase = "paired"]
    /\ rPaired' = [rPaired EXCEPT ![rConns[c].pair] = @ + 1]
    /\ UNCHANGED <<rEpoch, rPairs, rPending, rHeld, rOpen, rCount, rSpent, rDial>>

\* release, then done: the first connection's time is up, or a copy ended (or
\* the Server closed a pair whose stream did not register).
ReleasePair(c) ==
    LET p == rConns[c].pair
        w == rPairs[p].worker
    IN
    /\ rConns[c].phase \in {"waiting", "paired"}
    /\ rConns' = [d \in RelayConns |->
          IF d = c THEN NoConn
          ELSE IF d \in MatesOf(c) THEN [rConns[d] EXCEPT !.phase = "left", !.first = 0]
          ELSE rConns[d]]
    /\ rOpen' = [rOpen EXCEPT ![p] = IF @ = c THEN 0 ELSE @]
    /\ rCount' = [rCount EXCEPT ![w] = @ - 1]
    /\ UNCHANGED <<rEpoch, rPairs, rPending, rHeld, rSpent, rPaired, rDial>>

\* Mutant: the second connection's handler releases the pair once more.
MateReleases(d) ==
    /\ rConns[d].phase = "left"
    /\ rConns' = [rConns EXCEPT ![d] = NoConn]
    /\ rCount' = [rCount EXCEPT ![rPairs[rConns[d].pair].worker] = @ - 1]
    /\ UNCHANGED <<rEpoch, rPairs, rPending, rHeld, rOpen, rSpent, rPaired, rDial>>

\* The second connection's handler ends when the first's is done.
MateLeaves(d) ==
    /\ rConns[d].phase = "left"
    /\ rConns' = [rConns EXCEPT ![d] = NoConn]
    /\ UNCHANGED <<rEpoch, rPairs, rPending, rHeld, rOpen, rCount, rSpent, rPaired, rDial>>

\* The inner stream registers over a forwarded pair, and breaks.
PeerUp(w) ==
    /\ rDial[w] # "up"
    /\ \E c \in RelayConns : rConns[c].phase = "paired" /\ rPairs[rConns[c].pair].worker = w
    /\ rDial' = [rDial EXCEPT ![w] = "up"]
    /\ UNCHANGED <<rEpoch, rPairs, rPending, rHeld, rConns, rOpen, rCount, rSpent, rPaired>>

PeerDown(w) ==
    /\ rDial[w] = "up"
    /\ rDial' = [rDial EXCEPT ![w] = "direct"]
    /\ UNCHANGED <<rEpoch, rPairs, rPending, rHeld, rConns, rOpen, rCount, rSpent, rPaired>>

ExpirePair(p) ==
    /\ rPairs[p] # NoPair /\ ~rPairs[p].expired
    /\ rPairs' = [rPairs EXCEPT ![p].expired = TRUE]
    /\ UNCHANGED <<rEpoch, rPending, rHeld, rConns, rOpen, rCount, rSpent, rPaired, rDial>>

RelayRestarts ==
    /\ rEpoch < MaxRelayEpoch
    /\ rEpoch' = rEpoch + 1
    /\ rPending' = [w \in RelayWorkers |-> 0]
    /\ rConns' = [c \in RelayConns |-> NoConn]
    /\ rOpen' = [p \in RelayPairs |-> 0]
    /\ rCount' = [w \in RelayWorkers |-> 0]
    /\ rSpent' = {}
    /\ UNCHANGED <<rPairs, rHeld, rPaired, rDial>>

RelayNext ==
    \/ \E w \in RelayWorkers :
          \/ \E p \in RelayPairs : IssuePair(w, p)
          \/ \E ok \in BOOLEAN : TryDirect(w, ok)
          \/ ClaimPair(w)
          \/ PeerUp(w)
          \/ PeerDown(w)
    \/ \E c \in RelayConns :
          \/ \E p \in RelayPairs, role \in Roles : AcceptConn(c, p, role)
          \/ AttachConn(c)
          \/ ForwardPair(c)
          \/ ReleasePair(c)
          \/ MateLeaves(c)
    \/ \E p \in RelayPairs : ExpirePair(p)
    \/ RelayRestarts

----------------------------------------------------------------------------
\* Whatever is presented again, expires between verification and attach, or
\* meets its timeout as its mate arrives: a pair is forwarded at most once,
\* between one connection of each role, and a Worker's count is that of its
\* first connections, within the quota (attach, release, handle).
RelayPairsOnce ==
    /\ \A p \in RelayPairs : rPaired[p] <= 1
    /\ \A c \in RelayConns : rConns[c].phase = "paired" =>
          \A d \in MatesOf(c) : /\ rConns[d].role # rConns[c].role
                                /\ rConns[d].pair = rConns[c].pair
    /\ \A w \in RelayWorkers :
          /\ rCount[w] = Cardinality({c \in RelayConns :
                /\ rConns[c].phase \in {"waiting", "paired"}
                /\ rPairs[rConns[c].pair].worker = w})
          /\ rCount[w] <= PairsPerWorker

RelaySpec == RelayInit /\ [][RelayNext]_relayVars
=============================================================================
