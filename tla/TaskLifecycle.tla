---------------------------- MODULE TaskLifecycle ----------------------------
(***************************************************************************)
(* What the platform promises about one Task, whatever fails underneath: it *)
(* is executed by one Attempt at a time, a new Attempt begins only after    *)
(* the execution of the previous one is known to be over, the number of     *)
(* Attempts is bounded, a Task that is being stopped never succeeds, and    *)
(* what has ended stays ended unless an operator reopens it.                *)
(***************************************************************************)
EXTENDS Naturals

CONSTANT MaxTries        \* how many Attempts the Task may have

VARIABLES
    phase,   \* where the Task is
    tries,   \* generation of its latest Attempt
    live     \* generations whose execution is alive

lifecycleVars == <<phase, tries, live>>

AllPhases == {"absent", "queued", "active", "canceling", "reconciling", "succeeded", "ended"}
Working   == {"active", "canceling", "reconciling"}

LifecycleType ==
    /\ phase \in AllPhases /\ tries \in 0 .. MaxTries
    /\ live \in SUBSET (1 .. MaxTries)

LifecycleInit == phase = "absent" /\ tries = 0 /\ live = {}

Move(from, to) == phase \in from /\ phase' = to /\ UNCHANGED <<tries, live>>

Submit   == Move({"absent"}, "queued")
Dispatch == /\ phase = "queued" /\ live = {} /\ tries < MaxTries
            /\ phase' = "active" /\ tries' = tries + 1 /\ UNCHANGED live

\* The execution of the latest Attempt begins, or any execution ends.
Begin == /\ phase \in Working /\ live = {}
         /\ live' = {tries} /\ UNCHANGED <<phase, tries>>
Halt  == /\ live # {} /\ live' = {} /\ UNCHANGED <<phase, tries>>

Doubt  == Move({"active"}, "reconciling")
Cancel == Move({"active", "reconciling"}, "canceling")

\* The Attempt is over: nothing of it is alive any more.
Succeed == live = {} /\ Move({"active"}, "succeeded")
End     == live = {} /\ Move(Working, "ended")
Requeue == live = {} /\ tries < MaxTries /\ Move({"active", "reconciling"}, "queued")

Drop   == Move({"queued"}, "ended")
Reopen == tries < MaxTries /\ Move({"ended"}, "queued")

LifecycleNext ==
    \/ Submit \/ Dispatch \/ Begin \/ Halt \/ Doubt \/ Cancel
    \/ Succeed \/ End \/ Requeue \/ Drop \/ Reopen

LifecycleSpec == LifecycleInit /\ [][LifecycleNext]_lifecycleVars

\* Only the latest Attempt is ever alive, and only while the Task is worked on.
OnlyLatestLives == live \subseteq {tries} /\ (live # {} => phase \in Working)
=============================================================================
