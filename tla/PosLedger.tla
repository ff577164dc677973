------------------------------ MODULE PosLedger ------------------------------
(***************************************************************************)
(* What the approved chain promises: one ledger that only grows, and at    *)
(* every node a tip that only moves forward along it.  A block stands for  *)
(* its whole branch, as its hash does: it is the sequence of the blocks    *)
(* that lead to it.                                                        *)
(***************************************************************************)
EXTENDS Naturals, Sequences

CONSTANTS Nodes, Variants

VARIABLES ledger, tip

Contains(chain, block) ==
    /\ Len(block) <= Len(chain)
    /\ \A i \in 1 .. Len(block) : block[i] = chain[i]

Init ==
    /\ ledger = <<>>
    /\ tip = [n \in Nodes |-> <<>>]

(* One more block is canonical for good.                                    *)
Extend ==
    /\ \E v \in Variants : ledger' = Append(ledger, v)
    /\ UNCHANGED tip

(* A node moves forward to a block of the ledger.                           *)
Follow(n) ==
    /\ \E k \in Len(tip[n]) + 1 .. Len(ledger') : tip' = [tip EXCEPT ![n] = SubSeq(ledger', 1, k)]
    /\ ledger' = ledger \/ \E v \in Variants : ledger' = Append(ledger, v)

Next == Extend \/ \E n \in Nodes : Follow(n)

Spec == Init /\ [][Next]_<<ledger, tip>>
=============================================================================
