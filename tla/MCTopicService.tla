---------------------------- MODULE MCTopicService ----------------------------
(* TopicService from an empty host.  Topic keys are opaque to the service,   *)
(* so the safety runs with two of them treat them as interchangeable.        *)
EXTENDS TopicService, TLC

KeySymmetry == Permutations(Keys)

Plan(k, r, p, c) == [keySeq |-> k, rebinds |-> r, persistFails |-> p, crashes |-> c]

(* Commits over three key sequences with a move, and over two with a failed  *)
(* catalog write and a crash.                                                *)
MovesOrFaults == {Plan(3, 1, 0, 0), Plan(2, 0, 1, 1)}

OneMove == {Plan(2, 1, 0, 0)}
OneFail == {Plan(2, 0, 1, 0)}
=============================================================================
