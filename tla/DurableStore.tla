---------------------------- MODULE DurableStore ----------------------------
(***************************************************************************)
(* What the database (database/ffldb) promises to those who write to it.   *)
(* Transactions are applied one at a time, whole or not at all.  A crash   *)
(* takes the store back to a state it was in after some transaction, and   *)
(* not behind a Sync that reported success.  Whoever is told success has   *)
(* what was asked for, whoever is told an error has changed nothing.       *)
(***************************************************************************)
CONSTANTS None, Barrier

VARIABLES
    current,   \* what a transaction that begins now sees
    stable,    \* what a crash leaves
    pending,   \* its view is what the open write transaction will make of
               \* it; Barrier while Sync runs
    told       \* how the last write transaction or Sync ended

vars == <<current, stable, pending, told>>

Init == current = stable /\ pending = None /\ told = "ok"

Begin ==
    /\ pending = None /\ pending' # None
    /\ UNCHANGED <<current, stable, told>>

Commit ==
    /\ pending \notin {None, Barrier}
    /\ current' = pending.view /\ pending' = None /\ told' = "ok"
    /\ stable' = stable \/ (stable = current /\ stable' = pending.view)

Synced ==
    /\ pending = Barrier /\ stable = current
    /\ pending' = None /\ told' = "ok"
    /\ UNCHANGED <<current, stable>>

Fail ==
    /\ pending # None
    /\ pending' = None /\ told' = "err"
    /\ UNCHANGED <<current, stable>>

Persist ==
    /\ stable' = current
    /\ UNCHANGED <<current, pending, told>>

Crash ==
    /\ current' = stable /\ pending' = None
    /\ UNCHANGED <<stable, told>>

Next == Begin \/ Commit \/ Synced \/ Fail \/ Persist \/ Crash

Spec == Init /\ [][Next]_vars
=============================================================================
