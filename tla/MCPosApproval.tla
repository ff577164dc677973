----------------------------- MODULE MCPosApproval -----------------------------
(***************************************************************************)
(* PosApproval with one or two blocks and a handful of failures.           *)
(***************************************************************************)
EXTENDS PosApproval

(* The Bootstrap chooses between two candidates at two heights while nodes *)
(* crash, a write fails and an index lags.                                  *)
CommitPlan ==
    [makers |-> {Boot}, copies |-> 2, height |-> 2, crashes |-> 2, fails |-> 1, lags |-> 1, drops |-> 0]

(* The Miner's candidate competes with the Bootstrap's own, over links that *)
(* break and nodes that crash.                                              *)
AckPlan ==
    [makers |-> {Miner, Boot}, copies |-> 1, height |-> 1, crashes |-> 1, fails |-> 0, lags |-> 1, drops |-> 1]

SafetyPlans == {CommitPlan, AckPlan}

(* The Miner's candidate, one write failing anywhere on its way.            *)
LivePlans ==
    {[makers |-> {Miner}, copies |-> 1, height |-> 1, crashes |-> 0, fails |-> 1, lags |-> 0, drops |-> 0]}

(* The Core node sends its own candidate and relays the Miner's; nothing    *)
(* fails.                                                                   *)
TwoSenders ==
    {[makers |-> {Miner, Core}, copies |-> 1, height |-> 1, crashes |-> 0, fails |-> 0, lags |-> 0, drops |-> 0]}
=============================================================================
