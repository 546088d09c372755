---------------------------- MODULE FirmwareMirror ----------------------------
(***************************************************************************)
(* What the firmware glue promises, without its machinery: a printer has   *)
(* at most one firmware task; the task is raised and cleared alternately;  *)
(* and a task that was cleared is not raised again within the cooldown for *)
(* the firmware that was just installed, so that one install records one   *)
(* completion.  A restart or reload forgets when tasks were cleared.       *)
(***************************************************************************)
EXTENDS Integers

CONSTANTS Printers, Offers, NoVersion, Cooldown

VARIABLES
    status,     \* status[p]: "none", "dormant" or "armed"
    offer,      \* offer[p]: the version the task was last raised for (at most one)
    window,     \* window[p]: when and at which version it was last cleared
    done,       \* done[p]: how many completions it has recorded
    time

mirrorVars == <<status, offer, window, done, time>>

MirrorInit ==
    /\ status = [p \in Printers |-> "none"]
    /\ offer = [p \in Printers |-> {}]
    /\ window = [p \in Printers |-> {}]
    /\ done = [p \in Printers |-> 0]
    /\ time = 0

\* A cleared task may be raised for v: the last clear is a cooldown away, or
\* both versions are known and differ.
MayRaise(p, v) ==
    \A c \in window[p] :
        \/ time - c.at >= Cooldown
        \/ v # NoVersion /\ c.version # NoVersion /\ v # c.version

Raise(p) ==
    /\ \E v \in Offers :
          /\ status[p] = "none" \/ (status[p] = "dormant" /\ MayRaise(p, v))
          /\ offer' = [offer EXCEPT ![p] = {v}]
    /\ status' = [status EXCEPT ![p] = "armed"]
    /\ UNCHANGED <<window, done, time>>

Clear(p) ==
    /\ status[p] = "armed"
    /\ status' = [status EXCEPT ![p] = "dormant"]
    /\ done' = [done EXCEPT ![p] = @ + 1]
    /\ \E v \in Offers : window' = [window EXCEPT ![p] = {[at |-> time, version |-> v]}]
    /\ UNCHANGED <<offer, time>>

Forget ==
    /\ window' = [p \in Printers |-> {}]
    /\ UNCHANGED <<status, offer, done, time>>

Pass ==
    /\ time' = time + 1
    /\ UNCHANGED <<status, offer, window, done>>

MirrorNext == (\E p \in Printers : Raise(p) \/ Clear(p)) \/ Forget \/ Pass

MirrorSpec == MirrorInit /\ [][MirrorNext]_mirrorVars
=============================================================================
