------------------------------ MODULE Gateway ------------------------------
(***************************************************************************)
(* The model gateway: a call takes its slots, an Attempt's call gets what  *)
(* is left of the Attempt's budget, the row of gateway_requests is         *)
(* inserted, the upstream answers (or a local CLI process does), and the   *)
(* row is settled before the slots are given back.  The Server may crash   *)
(* and restart at any point.                                               *)
(*                                                                         *)
(* Slots are taken without waiting, so taking all of them is one step: a   *)
(* call that finds one busy leaves no trace.  Only the slot of the Attempt *)
(* (isolated_only mode) and the Gateway's limit are kept; the limits per   *)
(* identity and route are of the same form.  64-bit saturation in the      *)
(* budget is left out.                                                     *)
(***************************************************************************)
EXTENDS Integers, FiniteSets, FiniteSetsExt, Sums

CONSTANTS
    GwAttempts,       \* Attempts with a model token
    MaxCalls,         \* bound on calls
    MaxInflight,      \* max_inflight
    MaxAttemptTokens, \* max_attempt_tokens
    MaxAttemptCost,   \* max_attempt_cost_micros
    InputPrice, OutputPrice,  \* micros per PriceUnit tokens
    PriceUnit,        \* 1,000,000
    Overhead,         \* 64, allowed for what the gateway adds to a body
    BodyLengths,      \* lengths of request bodies
    Wanted,           \* max_output_tokens a client asks for
    Growth            \* by how much the rewritten body is longer

ASSUME GatewayAssumption ==
    /\ {MaxCalls, MaxInflight, MaxAttemptTokens, MaxAttemptCost,
        InputPrice, OutputPrice, PriceUnit} \subseteq Nat \ {0}
    /\ Overhead \in Nat /\ Growth \subseteq Nat
    /\ BodyLengths \subseteq Nat /\ Wanted \subseteq Nat
    /\ "user" \notin GwAttempts

Calls == 1 .. MaxCalls

NoAttempt == "user"

VARIABLES
    calls,     \* the handlers: serveHTTP, serveAnthropicMessages, serveCLI
    gwRows,    \* the rows of gateway_requests
    gwActive,  \* Attempts attemptIdentity accepts
    gwUp,      \* the Server serves
    cliBlocked,
    cli        \* per call: the journal in its directory, and its process

gwVars == <<calls, gwRows, gwActive, gwUp, cliBlocked, cli>>

\* gatewayOutcome, its code left out.
Outcome(state, known, in, out) == [state |-> state, known |-> known, in |-> in, out |-> out]

Unsettled == Outcome("UNKNOWN", FALSE, 0, 0)

\* "given" is what the call could use at most; the row does not say.
NoRow == [attempt |-> NoAttempt, kind |-> "", outcome |-> Outcome("none", FALSE, 0, 0),
          given |-> Unsettled]

Kinds == {"", "responses", "messages", "cli"}

Idle == [phase |-> "idle", kind |-> "", attempt |-> NoAttempt, len |-> 0, cap |-> 0,
         seen |-> {}, outcome |-> Unsettled]

InFlight == {"slotted", "capped", "sending", "closing", "recorded"}

\* The states of a row, and those a handler may decide on.
Decided == {"COMPLETE", "FAILED", "UNKNOWN"}

OutcomeRow(states) == [state : states, known : BOOLEAN, in : Nat, out : Nat]

Handler == [phase : InFlight \cup {"idle", "done"},
            kind : Kinds,
            attempt : GwAttempts \cup {NoAttempt}, len : Nat, cap : Nat,
            seen : SUBSET {"start", "delta", "stop", "error"},
            outcome : OutcomeRow(Decided)]

GatewayRow == [attempt : GwAttempts \cup {NoAttempt}, kind : Kinds,
               outcome : OutcomeRow(Decided \cup {"none", "STARTED"}),
               given : OutcomeRow(Decided)]

GatewayTypeOK ==
    /\ calls \in [Calls -> Handler]
    /\ gwRows \in [Calls -> GatewayRow]
    /\ cli \in [Calls -> [journal : {"none", "empty", "pid"}, process : BOOLEAN]]
    /\ gwActive \subseteq GwAttempts
    /\ gwUp \in BOOLEAN /\ cliBlocked \in BOOLEAN

GatewayInit ==
    /\ calls = [c \in Calls |-> Idle]
    /\ gwRows = [c \in Calls |-> NoRow]
    /\ gwActive = GwAttempts
    /\ gwUp = TRUE
    /\ cliBlocked = FALSE
    /\ cli = [c \in Calls |-> [journal |-> "none", process |-> FALSE]]

----------------------------------------------------------------------------
(* Budget of an Attempt *)

RowsOf(a) == {c \in Calls : gwRows[c].outcome.state # "none" /\ gwRows[c].attempt = a}

Resolved(a) == \A c \in RowsOf(a) : gwRows[c].outcome.known

tokenCostMicros(tokens, price) == (tokens * price + PriceUnit - 1) \div PriceUnit

costTokenCapacity(cost, price) == (cost * PriceUnit) \div price

CallTokens(o) == o.in + o.out

InputCost(o) == tokenCostMicros(o.in, InputPrice)

CallCost(o) == InputCost(o) + tokenCostMicros(o.out, OutputPrice)

UsedTokens(a) == Total([c \in RowsOf(a) |-> CallTokens(gwRows[c].outcome)])

UsedCostMicros(a) == Total([c \in RowsOf(a) |-> CallCost(gwRows[c].outcome)])

remainingAttemptBudget(a) ==
    [tokens |-> MaxAttemptTokens - UsedTokens(a), cost |-> MaxAttemptCost - UsedCostMicros(a)]

\* applyNamedAttemptTokenLimit: the output the tokens leave room for.
TokenLimit(len, want, grown, tokens) ==
    LET limit == Min({tokens - len - Overhead, want})
    IN  IF len + grown + limit > tokens THEN tokens - len - grown ELSE limit

\* applyNamedAttemptBudget: the output limit of the body it returns, below 1 if
\* the budget is exhausted.
OutputCap(len, want, grown, left) ==
    LET input == tokenCostMicros(len + Overhead, InputPrice)
    IN  IF left.tokens < 1 \/ left.cost <= input \/ left.tokens - len - Overhead < 1 THEN 0
        ELSE Min({TokenLimit(len, want, grown, left.tokens),
                  costTokenCapacity(left.cost - input, OutputPrice)})

\* The limit in the body that is sent.  /v1/messages sends the body returned;
\* serveHTTP writes the body of /v1/responses once more from the fields (to set
\* "store"), and applyNamedAttemptTokenLimit put only the token limit there.
SentCap(kind, len, want, grown, left) ==
    IF kind = "responses" THEN TokenLimit(len, want, grown, left.tokens)
    ELSE OutputCap(len, want, grown, left)

----------------------------------------------------------------------------
(* A call *)

Flying == {c \in Calls : calls[c].phase \in InFlight}

AttemptSlotFree(a) == a = NoAttempt \/ \A c \in Flying : calls[c].attempt # a

\* The slots of call c, taken together.
TakeSlots(c, kind, a) ==
    /\ gwUp
    /\ calls[c].phase = "idle"
    /\ a # NoAttempt => a \in gwActive
    /\ AttemptSlotFree(a)
    /\ Cardinality(Flying) < MaxInflight
    /\ calls' = [calls EXCEPT ![c].phase = "slotted", ![c].kind = kind, ![c].attempt = a]
    /\ UNCHANGED <<gwRows, gwActive, gwUp, cliBlocked, cli>>

\* bindGateway gives an Attempt no token for the CLI.
HasToken(kind, a) == kind = "cli" => a = NoAttempt

BeginCall(c, kind, a) == HasToken(kind, a) /\ TakeSlots(c, kind, a)

\* /v1/messages is for Attempts only, and validates the body first.
BeginMessage(c, a) == TakeSlots(c, "messages", a)

\* Mutant: calls whose usage is not known are not asked for.
CapCallUnresolved(c, len, want, grown) ==
    LET left == remainingAttemptBudget(calls[c].attempt)
    IN  /\ calls[c].phase = "slotted"
        /\ OutputCap(len, want, grown, left) >= 1
        /\ calls' = [calls EXCEPT ![c].phase = "capped", ![c].len = len,
                         ![c].cap = SentCap(calls[c].kind, len, want, grown, left)]
        /\ UNCHANGED <<gwRows, gwActive, gwUp, cliBlocked, cli>>

\* The body is read and bounded.
CapCall(c, len, want, grown) ==
    LET a    == calls[c].attempt
        left == remainingAttemptBudget(a)
    IN  /\ calls[c].phase = "slotted"
        /\ IF a = NoAttempt
           THEN calls' = [calls EXCEPT ![c].phase = "capped"]
           ELSE /\ Resolved(a)
                /\ OutputCap(len, want, grown, left) >= 1
                /\ calls' = [calls EXCEPT ![c].phase = "capped", ![c].len = len,
                                 ![c].cap = SentCap(calls[c].kind, len, want, grown, left)]
        /\ UNCHANGED <<gwRows, gwActive, gwUp, cliBlocked, cli>>

\* Any refusal before the row exists: validation, budget, an Attempt that ended.
RefuseCall(c) ==
    /\ calls[c].phase \in {"slotted", "capped"}
    /\ calls' = [calls EXCEPT ![c].phase = "done"]
    /\ UNCHANGED <<gwRows, gwActive, gwUp, cliBlocked, cli>>

StartCall(c) ==
    LET a == calls[c].attempt
    IN  /\ calls[c].phase = "capped"
        /\ a # NoAttempt => a \in gwActive
        /\ calls' = [calls EXCEPT ![c].phase = "sending"]
        /\ gwRows' = [gwRows EXCEPT ![c] =
               [attempt |-> a, kind |-> calls[c].kind,
                outcome |-> [Unsettled EXCEPT !.state = "STARTED"],
                given |-> Outcome("UNKNOWN", TRUE, calls[c].len, calls[c].cap)]]
        /\ UNCHANGED <<gwActive, gwUp, cliBlocked, cli>>

\* The figures of a row are null unless its usage is complete.
Close(c, outcome) ==
    [calls EXCEPT ![c].phase = "closing", ![c].outcome =
        IF outcome.known THEN outcome ELSE Outcome(outcome.state, FALSE, 0, 0)]

\* What an upstream that keeps to its cap may report: a token is a byte at least.
Reports(c) == {Unsettled} \cup
    {Outcome("UNKNOWN", TRUE, calls[c].len, out) : out \in {1, calls[c].cap} \ {0}}

\* An answer in one piece, or a stream of /v1/responses.  The state is what the
\* upstream said or UNKNOWN if the client went away while it was passed on; the
\* usage is known if it was reported.
Answer(c, state, usage) ==
    /\ calls[c].phase = "sending"
    /\ calls[c].kind = "responses"
    /\ calls' = Close(c, [usage EXCEPT !.state = state])
    /\ UNCHANGED <<gwRows, gwActive, gwUp, cliBlocked, cli>>

\* An answer of /v1/messages in one piece, which completes with usage only.
AnswerMessage(c, state, usage) ==
    /\ calls[c].phase = "sending"
    /\ calls[c].kind = "messages"
    /\ calls[c].seen = {}
    /\ state = "COMPLETE" => usage.known
    /\ state = "FAILED" => ~usage.known
    /\ calls' = Close(c, [usage EXCEPT !.state = state])
    /\ UNCHANGED <<gwRows, gwActive, gwUp, cliBlocked, cli>>

\* Events of a stream of /v1/messages (anthropicSSEUsage).  message_start
\* carries the input, message_delta the output, message_stop settles.  A
\* message_delta may correct what came before.
MessageEvent(c, e, usage) ==
    LET seen == calls[c].seen
    IN  /\ calls[c].phase = "sending"
        /\ calls[c].kind = "messages"
        /\ "stop" \notin seen
        /\ e = "start" => "start" \notin seen
        /\ e = "delta" => "start" \in seen
        /\ e = "stop"  => "delta" \in seen
        /\ usage # Unsettled <=> e = "delta"
        /\ calls' = [calls EXCEPT ![c].seen = @ \cup {e}, ![c].outcome =
              CASE e = "delta" -> [@ EXCEPT !.in = usage.in, !.out = usage.out]
                [] e = "stop"  -> [@ EXCEPT !.known = TRUE, !.state = "COMPLETE"]
                [] e = "error" -> [@ EXCEPT !.state = "FAILED"]
                [] OTHER -> @]
        /\ UNCHANGED <<gwRows, gwActive, gwUp, cliBlocked, cli>>

\* anthropicSSEUsage.finish without an error.
StreamSettled(seen) == "error" \in seen \/ "stop" \in seen

\* The stream ends: an event out of order, an error event, an interruption or a
\* client that went away make it UNKNOWN; an error event withdraws the usage.
EndStream(c, clean) ==
    LET seen == calls[c].seen
        o    == calls[c].outcome
    IN  /\ calls[c].phase = "sending"
        /\ seen # {}
        /\ calls' = Close(c,
              IF ~clean \/ ~StreamSettled(seen)
              THEN [o EXCEPT !.state = "UNKNOWN"]
              ELSE IF "error" \in seen THEN [o EXCEPT !.state = "UNKNOWN", !.known = FALSE]
              ELSE o)
        /\ UNCHANGED <<gwRows, gwActive, gwUp, cliBlocked, cli>>

\* The watchdog finds the Attempt inactive, or a deadline or idle timer fires.
CancelCall(c) ==
    /\ calls[c].phase = "sending"
    /\ calls[c].kind # "cli"
    /\ calls' = Close(c, [calls[c].outcome EXCEPT !.state = "UNKNOWN"])
    /\ UNCHANGED <<gwRows, gwActive, gwUp, cliBlocked, cli>>

\* record, in a deferred call; the write may fail.
RecordCall(c, written) ==
    /\ calls[c].phase = "closing"
    /\ calls' = [calls EXCEPT ![c].phase = "recorded"]
    /\ gwRows' = IF written /\ gwRows[c].outcome.state = "STARTED"
                 THEN [gwRows EXCEPT ![c].outcome = calls[c].outcome] ELSE gwRows
    /\ UNCHANGED <<gwActive, gwUp, cliBlocked, cli>>

\* The slots are given back by the deferred calls that run last.
FreeSlots(c) ==
    /\ calls[c].phase = "recorded"
    /\ calls' = [calls EXCEPT ![c] = [Idle EXCEPT !.phase = "done"]]
    /\ UNCHANGED <<gwRows, gwActive, gwUp, cliBlocked, cli>>

\* The Attempt is released, loses its lease, or its Job stops.
AttemptEnds(a) ==
    /\ a \in gwActive
    /\ gwActive' = gwActive \ {a}
    /\ UNCHANGED <<calls, gwRows, gwUp, cliBlocked, cli>>

----------------------------------------------------------------------------
(* serveCLI *)

\* An empty journal is written before the process is started, unless the
\* request is one the CLI does not support or the directory cannot be made ...
JournalCLI(c, made) ==
    /\ calls[c].phase = "sending" /\ calls[c].kind = "cli"
    /\ cli[c].journal = "none"
    /\ IF cliBlocked \/ ~made
       THEN calls' = Close(c, Outcome("FAILED", FALSE, 0, 0)) /\ UNCHANGED cli
       ELSE cli' = [cli EXCEPT ![c].journal = "empty"] /\ UNCHANGED calls
    /\ UNCHANGED <<gwRows, gwActive, gwUp, cliBlocked>>

SpawnCLI(c) ==
    /\ calls[c].phase = "sending"
    /\ cli[c] = [journal |-> "empty", process |-> FALSE]
    /\ cli' = [cli EXCEPT ![c].process = TRUE]
    /\ UNCHANGED <<calls, gwRows, gwActive, gwUp, cliBlocked>>

\* ... and the process's identity into it afterwards.
IdentifyCLI(c) ==
    /\ calls[c].phase = "sending"
    /\ cli[c] = [journal |-> "empty", process |-> TRUE]
    /\ cli' = [cli EXCEPT ![c].journal = "pid"]
    /\ UNCHANGED <<calls, gwRows, gwActive, gwUp, cliBlocked>>

\* cliOutput: what the process decided is published only as a whole, and a
\* client that is gone by then makes the outcome UNKNOWN.
CliOutcomes(c, cleanup) == {"FAILED"} \cup
    IF cleanup /\ cli[c].journal = "pid" THEN {"COMPLETE", "UNKNOWN"} ELSE {}

\* process.Run returns.  Cleanup that cannot be confirmed keeps the directory
\* and closes the backend.  The usage of the CLI is no Attempt's.
FinishCLI(c, cleanup, state) ==
    /\ calls[c].phase = "sending"
    /\ cli[c].journal # "none"
    /\ ~cleanup => cli[c].process
    /\ state \in CliOutcomes(c, cleanup)
    /\ cli' = IF cleanup THEN [cli EXCEPT ![c] = [journal |-> "none", process |-> FALSE]]
              ELSE cli
    /\ cliBlocked' = (cliBlocked \/ ~cleanup)
    /\ calls' = Close(c, Outcome(state, FALSE, 0, 0))
    /\ UNCHANGED <<gwRows, gwActive, gwUp>>

----------------------------------------------------------------------------
(* Crash and restart *)

ServerCrashes ==
    /\ gwUp
    /\ gwUp' = FALSE
    /\ calls' = [c \in Calls |-> IF calls[c].phase \in InFlight
                                 THEN [Idle EXCEPT !.phase = "done"] ELSE calls[c]]
    /\ cliBlocked' = FALSE
    /\ UNCHANGED <<gwRows, gwActive, cli>>

CliExits(c) ==
    /\ ~gwUp
    /\ cli[c].process
    /\ cli' = [cli EXCEPT ![c].process = FALSE]
    /\ UNCHANGED <<calls, gwRows, gwActive, gwUp, cliBlocked>>

\* Mutant: an empty journal is taken for a process that was never started.
RecoverUnidentified ==
    cli' = [c \in Calls |-> [journal |-> "none",
                            process |-> cli[c].process /\ cli[c].journal = "empty"]]

\* recoverCLI stops the process a journal names and removes the directory; one
\* it cannot stop (an empty journal names none) keeps the Server from starting.
RecoverCLI == /\ \A c \in Calls : cli[c].journal # "empty"
              /\ cli' = [c \in Calls |-> [journal |-> "none", process |-> FALSE]]

ServerStarts ==
    /\ ~gwUp
    /\ RecoverCLI
    /\ gwUp' = TRUE
    /\ gwRows' = [c \in Calls |-> IF gwRows[c].outcome.state = "STARTED"
                                  THEN [gwRows[c] EXCEPT !.outcome = Unsettled] ELSE gwRows[c]]
    /\ UNCHANGED <<calls, gwActive, cliBlocked>>

GatewayNext ==
    \/ \E c \in Calls :
          \/ \E kind \in {"responses", "cli"}, a \in GwAttempts \cup {NoAttempt} :
                BeginCall(c, kind, a)
          \/ \E a \in GwAttempts : BeginMessage(c, a)
          \/ \E len \in BodyLengths, want \in Wanted, grown \in Growth :
                CapCall(c, len, want, grown)
          \/ RefuseCall(c)
          \/ StartCall(c)
          \/ \E state \in {"COMPLETE", "FAILED", "UNKNOWN"}, usage \in Reports(c) :
                Answer(c, state, usage) \/ AnswerMessage(c, state, usage)
          \/ \E e \in {"start", "delta", "stop", "error"}, usage \in Reports(c) :
                MessageEvent(c, e, usage)
          \/ \E clean \in BOOLEAN : EndStream(c, clean)
          \/ CancelCall(c)
          \/ \E written \in BOOLEAN : RecordCall(c, written)
          \/ FreeSlots(c)
          \/ \E made \in BOOLEAN : JournalCLI(c, made)
          \/ SpawnCLI(c)
          \/ IdentifyCLI(c)
          \/ \E cleanup \in BOOLEAN, state \in {"COMPLETE", "FAILED", "UNKNOWN"} :
                FinishCLI(c, cleanup, state)
          \/ CliExits(c)
    \/ \E a \in GwAttempts : AttemptEnds(a)
    \/ ServerCrashes
    \/ ServerStarts

----------------------------------------------------------------------------
(* Properties *)

\* What the calls of an Attempt used never passes its token limit, even if every
\* call whose usage is not known used all it was given, and passes its cost limit
\* at most by the output of one call of /v1/responses (the one whose cap did not
\* count the cost): interrupted calls, failed settlements and restarts never let
\* two calls spend the same remainder (remainingAttemptBudget,
\* acquireAttemptSlot, record).
AttemptWithinBudget ==
    \A a \in GwAttempts :
        LET used(c)    == IF gwRows[c].outcome.known THEN gwRows[c].outcome ELSE gwRows[c].given
            cost(c, e) == IF c = e THEN InputCost(used(c)) ELSE CallCost(used(c))
        IN  /\ Total([c \in RowsOf(a) |-> CallTokens(used(c))]) <= MaxAttemptTokens
            /\ \E e \in {0} \cup {c \in RowsOf(a) : gwRows[c].kind = "responses"} :
                  Total([c \in RowsOf(a) |-> cost(c, e)]) <= MaxAttemptCost

\* While the Server serves, every CLI process belongs to a call under way, or
\* the backend takes no more calls (serveCLI, recoverCLI).
CliContained ==
    gwUp => \A c \in Calls : cli[c].process => calls[c].phase = "sending" \/ cliBlocked

GatewaySpec == GatewayInit /\ [][GatewayNext]_gwVars
============================================================================
