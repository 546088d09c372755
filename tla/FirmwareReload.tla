----------------------------- MODULE FirmwareReload -----------------------------
(***************************************************************************)
(* A reload of the entry: two BambuLabGlue objects over one Home Keeper.   *)
(* __init__.py unloads the entry and sets up a new object at once; the     *)
(* coroutines of the old one go on, with a lock and a memory of their own. *)
(*                                                                         *)
(* FirmwareGlue's variables are one object, its instance Other is another, *)
(* with Home Keeper, the printers and the clock in common.  The objects    *)
(* take turns at being the one that is set up: an object is set up again   *)
(* as a new one when nothing of its last life is in flight, so that at     *)
(* most two have coroutines at a time.                                     *)
(***************************************************************************)
EXTENDS FirmwareGlue

VARIABLES
    phase2, tracked2, cleared2, lock2, waiters2, pc2, job2, snap2, todo2, cur2,
    missed2,        \* of the other object
    overlapped      \* history: coroutines of both have been in flight at a time

Other ==
    INSTANCE FirmwareGlue WITH
        phase <- phase2, tracked <- tracked2, cleared <- cleared2,
        lock <- lock2, waiters <- waiters2, pc <- pc2, job <- job2,
        snap <- snap2, todo <- todo2, cur <- cur2, missed <- missed2

thisObject == <<glueVars, handlerVars, missed>>
otherObject == <<phase2, tracked2, cleared2, lock2, waiters2, pc2, job2, snap2, todo2, cur2, missed2>>

reloadVars == <<vars, otherObject, overlapped>>

ReloadInit ==
    /\ Init
    /\ Other!Init
    /\ overlapped = FALSE

\* Events, the clock and a restart reach both objects; one that is not set up
\* listens to nothing.
Both ==
    \/ \E p \in Printers :
          \/ ChangeReport(p) /\ Other!ChangeReport(p)
          \/ Register(p) /\ Other!Register(p)
          \/ Unregister(p) /\ Other!Unregister(p)
    \/ HKUp /\ Other!HKUp
    \/ HKDown /\ Other!HKDown
    \/ Tick /\ Other!Tick
    \/ Restart /\ Other!Restart

\* Home Assistant sets the entry up when it is not set up.
This ==
    /\ \/ Setup /\ phase2 = "down"
       \/ Started
       \/ Unload
       \/ \E h \in Handlers : HandlerStep(h) \/ Fail(h)
    /\ UNCHANGED otherObject

That ==
    /\ \/ Other!Setup /\ phase = "down"
       \/ Other!Started
       \/ Other!Unload
       \/ \E h \in Handlers : Other!HandlerStep(h) \/ Other!Fail(h)
    /\ UNCHANGED thisObject

ReloadNext ==
    /\ Both \/ This \/ That
    /\ overlapped' = (overlapped \/ ~ (AllIdle' \/ Other!AllIdle'))

ReloadSpec == ReloadInit /\ [][ReloadNext]_reloadVars

-----------------------------------------------------------------------------
\* Properties.

\* It takes an overlap to make a duplicate: as long as no coroutine of the old
\* object is left when one of the new begins, reloads, failed set-ups and the
\* handing over of the listeners never give a printer a second firmware task.
NoDuplicatesUnlessOverlap == ~ overlapped => NoDuplicateTasks

\* Nor do duplicates pile up: each object has a lock, and finds what the other has
\* made once it is there, so that however many reloads overlap a printer gets no
\* more firmware tasks than there are objects at a time.
AtMostOneEach ==
    \A t, u, w \in tasks :
        t.device = u.device /\ u.device = w.device => t = u \/ u = w \/ t = w
=============================================================================
