---------------------------- MODULE MCChainNode ----------------------------
(***************************************************************************)
(* Two branches that spend the same output, x above p and y above p, with  *)
(* an activation height on y; blocks that break a rule; a branch e that    *)
(* anchors the same funding utxo as p; and a branch s of two blocks that   *)
(* anchor the same funding utxo.  q2 spends what only y2 makes.  n2 has a  *)
(* coinbase, a contract Result and what spends it; i3 spends the coinbase  *)
(* too early.                                                              *)
(***************************************************************************)
EXTENDS ChainNode

MCParent ==
    [p |-> "g", x2 |-> "p", x3 |-> "x2", y2 |-> "p", y3 |-> "y2", y4 |-> "y3", y5 |-> "y4",
     z4 |-> "y3", z5 |-> "z4", w3 |-> "x2", v2 |-> "p", u2 |-> "p", e1 |-> "g", e2 |-> "e1",
     s1 |-> "g", s2 |-> "s1", q2 |-> "p", n2 |-> "p", n3 |-> "n2", i3 |-> "n2"]

MCTxs ==
    [g |-> <<>>, p |-> <<"f">>, x2 |-> <<"a">>, x3 |-> <<"c">>, y2 |-> <<"b">>,
     y3 |-> <<"h", "k">>, y4 |-> <<"d">>, y5 |-> <<>>, z4 |-> <<"d">>, z5 |-> <<>>,
     w3 |-> <<"b">>, v2 |-> <<"f">>, u2 |-> <<>>, e1 |-> <<"f">>, e2 |-> <<>>,
     s1 |-> <<"h">>, s2 |-> <<"j">>, q2 |-> <<"d">>,
     n2 |-> <<"m", "r", "t">>, n3 |-> <<>>, i3 |-> <<"u">>]
MCBlocks == DOMAIN MCTxs

(* f, h and j are anchors, h and j of the same funding utxo; a and b spend *)
(* f, c spends a, d spends b, k spends h made by the same block.  m is a   *)
(* coinbase, r a Result that spends f, t spends r, u spends t and m.       *)
MCIns == [f |-> <<>>, h |-> <<>>, j |-> <<>>, a |-> <<"f">>, b |-> <<"f">>, c |-> <<"a">>,
          d |-> <<"b">>, k |-> <<"h">>, m |-> <<>>, r |-> <<"f">>, t |-> <<"r">>,
          u |-> <<"t", "m">>]
MCTx == DOMAIN MCIns
Payments == {"f", "h", "j", "a", "b", "c", "d", "k"}
MCFunding == [t \in MCTx |-> CASE t = "f" -> "L1" [] t \in {"h", "j"} -> "L2" [] OTHER -> NoFunding]
MCSound == MCBlocks \ {"u2"}
MCFee == [t \in MCTx |-> IF t = "b" THEN 2 ELSE 1]

Quiescent ==
    [tree |-> {}, contracts |-> FALSE, races |-> FALSE, blocks |-> 0, fills |-> 0, fails |-> 0,
     rpc |-> 0, reads |-> 0, flushes |-> 0, crashes |-> 0, txs |-> 0, users |-> Payments]

(* Blocks in any order, a crash anywhere, the cache full at any block.     *)
PReorganise == [Quiescent EXCEPT !.tree = {"p", "x2", "x3", "y2", "y3", "y4"}, !.blocks = 6,
                                 !.fills = 1, !.crashes = 1]

(* The administrator acts between the sync manager's calls.                *)
PAdmin == [Quiescent EXCEPT !.tree = {"p", "x2", "x3", "y2", "y3"}, !.blocks = 5, !.rpc = 2]

(* The administrator acts at any moment.                                   *)
PRaces == [Quiescent EXCEPT !.tree = {"p", "x2", "y2", "y3"}, !.blocks = 4, !.rpc = 1,
                            !.flushes = 1, !.races = TRUE]

(* Across the activation height, with a sibling branch above it.           *)
PPos == [Quiescent EXCEPT !.tree = {"p", "y2", "y3", "y4", "y5", "z4", "z5"}, !.blocks = 7,
                          !.crashes = 1, !.fails = 1, !.flushes = 1]

(* Transactions around a block, and around a branch switch.                *)
PPool == [Quiescent EXCEPT !.tree = {"p", "x2"}, !.blocks = 2, !.txs = 4]
PSwitch == [Quiescent EXCEPT !.tree = {"p", "x2", "y2", "y3"}, !.blocks = 4, !.txs = 2,
                             !.users = Payments \ {"f"}]

(* The administrator moves the chain under a transaction in the pool.      *)
PUndo == [Quiescent EXCEPT !.tree = {"p", "x2", "x3"}, !.blocks = 3, !.rpc = 2, !.txs = 2,
                           !.users = {"a", "b", "c", "d"}]

(* A crash inside the administrator's call leaves a failed status on the   *)
(* best chain.                                                             *)
PTrapped == [Quiescent EXCEPT !.tree = {"p", "x2"}, !.blocks = 2, !.rpc = 2, !.crashes = 1]

(* Blocks that break a rule, a branch that reuses an anchor, and the       *)
(* administrator's choice of a block that breaks a rule.                   *)
PRules(contracts) ==
    [Quiescent EXCEPT !.tree = {"p", "x2", "w3", "v2", "u2", "e1", "e2"}, !.blocks = 7,
                      !.contracts = contracts]
PUnsound == [Quiescent EXCEPT !.tree = {"p", "x2", "u2"}, !.blocks = 3, !.rpc = 3]

(* Readers that fill the cache with the outputs of these blocks, made      *)
(* already or not.                                                         *)
PReads == [Quiescent EXCEPT !.tree = {"p", "x2", "y2", "y3"}, !.blocks = 4, !.reads = 2, !.fills = 1,
                            !.users = {"f", "a", "b", "h", "k"}]

(* A branch whose own blocks lock a funding utxo twice.                    *)
PAnchors == [Quiescent EXCEPT !.tree = {"p", "s1", "s2"}, !.blocks = 3, !.rpc = 1, !.crashes = 1]

(* A commit fails below the activation height, and its transactions stay   *)
(* in the cache.                                                           *)
PFailed == [Quiescent EXCEPT !.tree = {"p", "y2", "y3", "q2"}, !.blocks = 4, !.fails = 1,
                             !.flushes = 1, !.crashes = 1]

(* A flush or a disconnect fails, and the cache has lost entries.          *)
PLost == [Quiescent EXCEPT !.tree = {"p", "x2", "y2", "y3"}, !.blocks = 4, !.fails = 1,
                           !.flushes = 1, !.crashes = 1]

(* A block becomes the tip without a notification, before another one or   *)
(* before the administrator takes it off.                                  *)
PUntold == [Quiescent EXCEPT !.tree = {"p", "x2", "x3"}, !.blocks = 3, !.fails = 1, !.rpc = 1,
                             !.txs = 2, !.users = {"a", "b", "c"}]

(* The coinbase and the Result of a block that is taken off the chain.     *)
PCoinbase == [Quiescent EXCEPT !.tree = {"p", "n2", "n3", "i3"}, !.blocks = 4, !.rpc = 1,
                               !.txs = 2, !.users = {"m", "r", "t", "u"}]

MCPlans == {PReorganise, PAdmin, PRaces, PPos, PPool, PSwitch, PUndo, PTrapped, PRules(TRUE),
            PRules(FALSE), PUnsound, PReads, PAnchors, PFailed, PLost, PUntold, PCoinbase}
=============================================================================
