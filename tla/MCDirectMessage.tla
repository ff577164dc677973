---------------------------- MODULE MCDirectMessage ----------------------------
(***************************************************************************)
(* DirectMessage with two cores and one or two messages.                   *)
(***************************************************************************)
EXTENDS DirectMessage, TLC

CONSTANTS x, y, m, n

(* The specification treats all messages alike.                            *)
MessageSymmetry == Permutations(Messages)

Plan(s, v, l, c, f, d, p) ==
    [sends |-> s, moves |-> v, leaves |-> l, crashes |-> c, forgets |-> f, deletes |-> d, prunes |-> p]

(* One message to a recipient that moves twice, deletes it and outlives its *)
(* record; the same with a sender that leaves and comes back; two messages  *)
(* signed at once, one record expiring; two messages, a crash and a         *)
(* forgetful replay window.                                                 *)
SafetyPlans ==
    {Plan(1, 2, 0, 0, 0, 1, 1), Plan(1, 1, 2, 0, 0, 1, 1), Plan(2, 0, 0, 0, 0, 0, 1),
     Plan(2, 0, 0, 1, 1, 0, 0)}

(* The recipient moves twice; or the sender leaves and comes back while the *)
(* recipient moves.                                                         *)
LivePlans == {Plan(1, 2, 0, 0, 1, 0, 0), Plan(1, 1, 2, 0, 0, 0, 0)}
=============================================================================
