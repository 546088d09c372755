------------------------------- MODULE Companion -------------------------------
(***************************************************************************)
(* Companion discovery: the glue announces itself to Home Keeper's         *)
(* registry when it is set up, and again whenever Home Keeper asks.  Home  *)
(* Keeper asks at its setup and on reload, after its services are there,   *)
(* and forgets what it knew when it goes away (external, as const.py       *)
(* describes it).  Either may come up first, and either may be reloaded.   *)
(***************************************************************************)
EXTENDS Naturals

CONSTANTS
    MaxChanges,     \* bound on either side coming up or going away
    MaxFaults       \* bound on failed calls

ASSUME CompanionAssumption == {MaxChanges, MaxFaults} \subseteq Nat

VARIABLES
    hk,             \* Home Keeper: "down", "starting" (its services are there) or "up"
    connected,      \* the glue is in its registry
    listening,      \* the glue is set up
    asked,          \* coroutines of _on_register_request that have not run yet
    calls,          \* calls of register_companion under way
    failed,         \* history: a call has failed since the glue last had reason to make one
    changes, faults

vars == <<hk, connected, listening, asked, calls, failed, changes, faults>>

Init ==
    /\ hk = "down"
    /\ connected = FALSE
    /\ listening = FALSE
    /\ asked = 0
    /\ calls = 0
    /\ failed = FALSE
    /\ changes = 0
    /\ faults = 0

Change == changes < MaxChanges /\ changes' = changes + 1

\* _register_companion: the call is not waited for.
register_companion == calls' = IF hk = "down" THEN calls ELSE calls + 1

\* Variant: the glue waits to be asked.
SetUpListensOnly ==
    /\ ~ listening /\ Change
    /\ listening' = TRUE
    /\ failed' = FALSE
    /\ UNCHANGED <<hk, connected, asked, calls, faults>>

\* async_setup: listen, then announce.  The entry is set up, or reloaded.
SetUp ==
    /\ ~ listening /\ Change
    /\ listening' = TRUE
    /\ register_companion
    /\ failed' = FALSE
    /\ UNCHANGED <<hk, connected, asked, faults>>

\* The listener is removed; a coroutine it has started runs on.
Unload ==
    /\ listening /\ Change
    /\ listening' = FALSE
    /\ UNCHANGED <<hk, connected, asked, calls, failed, faults>>

HKStarts ==
    /\ hk = "down" /\ Change
    /\ hk' = "starting"
    /\ UNCHANGED <<connected, listening, asked, calls, failed, faults>>

\* Home Keeper fires the event: a coroutine of each listener is to run.
HKAsks ==
    /\ hk = "starting"
    /\ hk' = "up"
    /\ asked' = IF listening THEN asked + 1 ELSE asked
    /\ failed' = FALSE
    /\ UNCHANGED <<connected, listening, calls, changes, faults>>

\* Its registry is gone with it, and so is what a call under way would have entered.
HKStops ==
    /\ hk # "down" /\ Change
    /\ hk' = "down"
    /\ connected' = FALSE
    /\ calls' = 0
    /\ UNCHANGED <<listening, asked, failed, faults>>

\* _on_register_request.
Answer ==
    /\ asked > 0
    /\ asked' = asked - 1
    /\ register_companion
    /\ UNCHANGED <<hk, connected, listening, failed, changes, faults>>

Entered ==
    /\ calls > 0
    /\ calls' = calls - 1
    /\ connected' = TRUE
    /\ UNCHANGED <<hk, listening, asked, failed, changes, faults>>

\* A call raises: nobody hears of it.
CallFails ==
    /\ calls > 0 /\ faults < MaxFaults
    /\ calls' = calls - 1
    /\ faults' = faults + 1
    /\ failed' = TRUE
    /\ UNCHANGED <<hk, connected, listening, asked, changes>>

Next ==
    \/ SetUp \/ Unload
    \/ HKStarts \/ HKAsks \/ HKStops
    \/ Answer \/ Entered \/ CallFails

Spec == Init /\ [][Next]_vars

\* asyncio runs the coroutine, and Home Keeper's service runs.
FairSpec == Spec /\ WF_vars(Answer) /\ WF_vars(Entered \/ CallFails)

-----------------------------------------------------------------------------
\* "Discovery works regardless of startup order" (const.py): with Home Keeper up
\* and the glue set up, in whatever order and however often either has come and
\* gone, the glue ends up in the registry, unless a call fails.
Discovered == (hk = "up" /\ listening) ~> (connected \/ hk # "up" \/ ~ listening \/ failed)
=============================================================================
