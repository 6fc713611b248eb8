----------------------------- MODULE LoopMutex -----------------------------
(***************************************************************************)
(* What the lock of the loop promises to those who launch loops, without   *)
(* files, pids and hosts: a launch runs once or not at all, and as long as *)
(* launches do not contend for the lock one of them runs at a time.        *)
(***************************************************************************)
CONSTANT Launch

VARIABLES
    outcome,    \* what has become of each launch
    contended   \* two launches have been after the lock at once

mutexVars == <<outcome, contended>>

MutexInit ==
    /\ outcome = [p \in Launch |-> "waiting"]
    /\ contended = FALSE

Contend ==
    /\ contended' = TRUE
    /\ UNCHANGED outcome

Run(p) ==
    /\ outcome[p] = "waiting"
    /\ contended \/ \A q \in Launch : outcome[q] # "running"
    /\ outcome' = [outcome EXCEPT ![p] = "running"]
    /\ UNCHANGED contended

\* It is refused the lock, it ends, or it is killed.
Leave(p) ==
    /\ outcome[p] # "over"
    /\ outcome' = [outcome EXCEPT ![p] = "over"]
    /\ UNCHANGED contended

MutexNext == Contend \/ \E p \in Launch : Run(p) \/ Leave(p)

MutexSpec == MutexInit /\ [][MutexNext]_mutexVars

=============================================================================
