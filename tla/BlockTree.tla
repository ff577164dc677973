------------------------------ MODULE BlockTree ------------------------------
(***************************************************************************)
(* The blocks and transactions a node may meet: a tree of blocks rooted at *)
(* the genesis block, each block a list of transactions.  A transaction is *)
(* abstracted to the outputs it spends and, for an anchor transaction, to  *)
(* the L1 funding utxo it locks; it has one output, named by the           *)
(* transaction itself.  A coinbase spends nothing; a block whose coinbase  *)
(* nothing spends is written without it.  All blocks carry the same work,  *)
(* so a branch's work is its height.                                       *)
(***************************************************************************)
EXTENDS Lists, FiniteSets, TLC

CONSTANTS
    Blocks,        \* every block of the tree
    Genesis,       \* its root
    Parent,        \* Parent[b]: the block that header.PrevBlock of b names
    Txs,           \* Txs[b]: the transactions of b
    Tx,            \* every transaction
    Ins,           \* Ins[t]: the outputs t spends, in the order of its inputs
    Funding,       \* Funding[t]: the L1 utxo the anchor t locks, or NoFunding
    NoFunding,
    Coinbases,     \* the coinbase transactions
    CoinbaseMaturity,
    Sound,         \* blocks that pass the checks that need no chain state
    POSV2Height    \* chainParams.POSV2Height

ASSUME TreeAssumption ==
    /\ Genesis \in Blocks
    /\ Parent \in [Blocks \ {Genesis} -> Blocks]
    /\ Txs \in [Blocks -> Seq(Tx)] /\ Txs[Genesis] = <<>>
    /\ Ins \in [Tx -> Seq(Tx)]
    /\ \A t \in Tx : Funding[t] # NoFunding => Ins[t] = <<>>
    /\ \A t \in Coinbases : t \in Tx /\ Ins[t] = <<>> /\ Funding[t] = NoFunding
    /\ \A b \in Blocks : \A i \in DOMAIN Txs[b] : Txs[b][i] \in Coinbases => i = 1
    /\ CoinbaseMaturity \in Nat
    /\ Sound \subseteq Blocks
    /\ POSV2Height \in Nat \ {0}

Height[b \in Blocks] == IF b = Genesis THEN 0 ELSE Height[Parent[b]] + 1

(* The blocks from the first one after genesis to b.                       *)
Path[b \in Blocks] ==
    IF b = Genesis THEN <<>> ELSE Append(Path[Parent[b]], b)

(* The parents of a block end at the genesis block, so that the two        *)
(* definitions say what they appear to say.                                *)
ASSUME HeightAssumption ==
    /\ Height \in [Blocks -> Nat] /\ Path \in [Blocks -> Seq(Blocks \ {Genesis})]
    /\ Path[Genesis] = <<>>
    /\ \A b \in Blocks \ {Genesis} :
          Height[b] = Height[Parent[b]] + 1 /\ Path[b] = Append(Path[Parent[b]], b)

(* The nodes of a chain view whose tip is b.                               *)
Chain(b) == {Genesis} \cup ToSet(Path[b])

(* b.IsAncestor(a): a lies strictly below b.                               *)
IsAncestor(b, a) == b # a /\ a \in Chain(b)

(* The height at which the chains of a and b part.                         *)
ForkHeight(a, b) == Cardinality({i \in DOMAIN Path[b] : Path[b][i] \in Chain(a)})

(* What has to be attached, in this order, to go from a block of a's chain *)
(* to b, and, read backwards, detached to go back.                         *)
Above(a, b) == SubSeq(Path[b], ForkHeight(a, b) + 1, Len(Path[b]))

(* The blocks of a path that are in keep, the last one first.              *)
Downward(path, keep) ==
    LET From[i \in 0..Len(path)] ==
            IF i = 0 THEN <<>>
            ELSE IF path[i] \in keep THEN <<path[i]>> \o From[i - 1] ELSE From[i - 1]
    IN  From[Len(path)]

(* Seeded fault: the activation height itself is not active yet.           *)
POSV2ActiveLate(height) == height > POSV2Height

POSV2Active(height) == height >= POSV2Height

IsAnchorTx(t) == Funding[t] # NoFunding

(* The transactions of b without its coinbase.                             *)
AfterCoinbase(b) ==
    IF Txs[b] # <<>> /\ Head(Txs[b]) \in Coinbases THEN Tail(Txs[b]) ELSE Txs[b]

(* An output made at one height may be spent at another.                   *)
Mature(o, made, height) == o \in Coinbases => height - made >= CoinbaseMaturity

(***************************************************************************)
(* The reference: what the transactions of a chain leave unspent (with the *)
(* height of the block that made each output), which funding utxos they    *)
(* anchor, whether every block on the way finds what it spends and passes  *)
(* the other checks (ok), and whether no funding utxo is locked twice      *)
(* (once).  It is computed from the chain alone, without caches, journals  *)
(* or flags.                                                               *)
(***************************************************************************)
ApplyTx(s, t, height) ==
    [ok      |-> s.ok /\ \A o \in ToSet(Ins[t]) :
                     o \in DOMAIN s.unspent /\ Mature(o, s.unspent[o], height),
     once    |-> s.once /\ Funding[t] \notin DOMAIN s.anchors,
     unspent |-> [o \in (DOMAIN s.unspent \ ToSet(Ins[t])) \cup {t} |->
                      IF o = t THEN height ELSE s.unspent[o]],
     anchors |-> IF IsAnchorTx(t) THEN (Funding[t] :> t) @@ s.anchors
                                  ELSE s.anchors]

Ledger[b \in Blocks] ==
    IF b = Genesis THEN [ok |-> TRUE, once |-> TRUE, unspent |-> <<>>, anchors |-> <<>>]
    ELSE LET parent == Ledger[Parent[b]]
         IN  FoldLeft(LAMBDA s, t : ApplyTx(s, t, Height[b]),
                      [parent EXCEPT !.ok = @ /\ b \in Sound], Txs[b])

Legit(b) == Ledger[b].ok /\ Ledger[b].once
=============================================================================
