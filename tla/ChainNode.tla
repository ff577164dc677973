------------------------------ MODULE ChainNode ------------------------------
(***************************************************************************)
(* A node's chain and its transaction pool: the sync manager               *)
(* (netsync/manager.go) feeds blocks and transactions to them and brings   *)
(* the pool up to date from the chain's notifications, one transaction of  *)
(* the block at a time, in the goroutine that changed the chain.  An RPC   *)
(* handler submits transactions at any moment.  The node is current, so    *)
(* that connected blocks update the pool.                                  *)
(***************************************************************************)
EXTENDS BlockChain, TxPool

VARIABLES
    pool,
    untold     \* history: transactions whose arrival on the best chain, or
               \* departure from it, the pool did not hear of or act upon

vars == <<chainVars, pool, untold>>

(* A pool operation reads the chain under chainLock.  No chain step looks  *)
(* at the pool, so the whole operation can be taken at that moment.        *)
PoolStep(outcomes) ==
    /\ owner = NoCaller
    /\ \E r \in outcomes : pool' = r.pool /\ cache' = r.cache

Snapshot == [utxo |-> db.utxo, anchors |-> db.anchors, next |-> Height[tip] + 1]

(* handleTxMsg, in the sync manager's goroutine: a peer's transaction.     *)
handleTxMsg(t) ==
    /\ call["sync"] = Idle
    /\ Allowed("txs") /\ Count("txs")
    /\ PoolStep(ProcessTransaction(pool, cache, Snapshot, t, TRUE))
    /\ UNCHANGED <<plan, index, tip, orphans, oldest, db, posErr, owner, call, torn, untold>>

(* sendrawtransaction: no orphans.                                         *)
SendRawTransaction(t) ==
    /\ Allowed("txs") /\ Count("txs")
    /\ PoolStep(ProcessTransaction(pool, cache, Snapshot, t, FALSE))
    /\ UNCHANGED <<plan, index, tip, orphans, oldest, db, posErr, owner, call, torn, untold>>

(* A peer leaves and the orphans it sent go with it.                       *)
RemoveOrphansByTag ==
    /\ Allowed("txs") /\ Count("txs")
    /\ \E sent \in SUBSET pool.orphans :
          sent # {} /\ pool' = removeOrphans(pool, sent)
    /\ UNCHANGED <<plan, index, tip, cache, orphans, oldest, db, posErr, owner, call, torn, untold>>

(* handleBlockchainNotification.  A transaction of a disconnected block    *)
(* that the pool refuses takes what depends on it along.  One that is now  *)
(* missing an input is not an error, and is left out alone.                *)
Confirmed(t) ==
    LET p == RemoveOrphan(RemoveDoubleSpends(removeTransaction(pool, t, FALSE), t), t)
    IN  processOrphans(p, cache, Snapshot, t)

Returning(t) == maybeAcceptTransaction(pool, cache, Snapshot, t, TRUE)

Reinserted(t) ==
    {[cache |-> r.cache,
      pool  |-> IF r.verdict = "refused" THEN removeTransaction(pool, t, TRUE) ELSE r.pool] :
        r \in {Returning(t)}}

handleBlockchainNotification(c) ==
    /\ call[c].stage = "notify" /\ call[c].note # <<>>
    /\ LET t == Head(call[c].note)
           connected == call[c].kind = "connected"
       IN  /\ PoolStep(IF connected THEN Confirmed(t) ELSE Reinserted(t))
           /\ untold' = untold \cup IF ~connected /\ Returning(t).verdict = "missing" THEN {t} ELSE {}
    /\ call' = [call EXCEPT ![c].note = Tail(@)]
    /\ UNCHANGED <<plan, used, index, tip, orphans, oldest, db, posErr, owner, torn>>

(* What a step of the chain moves onto the best chain or off it and no     *)
(* notification is about to tell.  The arrival of a coinbase concerns      *)
(* nothing in the pool.                                                    *)
Moved ==
    IF Height[tip'] > Height[tip] THEN ToSet(AfterCoinbase(tip'))
    ELSE IF Height[tip'] < Height[tip] THEN ToSet(Txs[tip]) ELSE {}

Silent ==
    {t \in Moved : \A c \in Callers : call'[c].stage = "notify" => t \notin ToSet(call'[c].note)}

Init == Start /\ pool = EmptyPool /\ untold = {}

Next ==
    \/ ChainStep /\ pool' = pool /\ untold' = untold \cup Silent
    \/ CrashAndRestart /\ pool' = EmptyPool /\ untold' = {}
    \/ \E t \in plan.users : handleTxMsg(t) \/ SendRawTransaction(t)
    \/ RemoveOrphansByTag
    \/ \E c \in Callers : handleBlockchainNotification(c)

Spec == Init /\ [][Next]_vars

(***************************************************************************)
(* Properties.                                                             *)
(***************************************************************************)
(* What a reader of the UTXO cache sees (FetchUtxoEntry, FetchUtxoView) is *)
(* what the transactions of the best chain leave unspent, at every moment  *)
(* outside connectBlock, through disconnects, flushes, replays after a     *)
(* crash and entries cached by readers.  Left out is a cache into which    *)
(* reorganizeChain has put the transactions of a block that connectBlock   *)
(* then refused or failed to store, and one that lost changed entries to a *)
(* flush whose database transaction failed.                                *)
UtxoMatchesTip ==
    (torn = "no" /\ \A c \in Callers : call[c].stage # "commit")
        => Seen(cache, db.utxo) = Ledger[tip].unspent

(* The consistency marker is on the stored best chain, the blocks of that  *)
(* chain and of every row of the index are stored, and the spend journal   *)
(* has a row for exactly the blocks of that chain.                         *)
Records ==
    /\ db.marker \in Chain(db.best)
    /\ Chain(db.best) \cup DOMAIN db.rows \subseteq db.blocks
    /\ DOMAIN db.journal = Chain(db.best) \ {Genesis}

(* Whenever the process dies, InitConsistentState can bring the node back: *)
(* the records of the stored best chain are there, replaying it from the   *)
(* consistency marker finds every input and ends with the unspent outputs  *)
(* of that chain, and its anchor records are stored.  The latter are left  *)
(* out while a chain that locks a funding utxo twice is known: when it was *)
(* connected, the second lock replaced the record of the first, and        *)
(* disconnectBlock removes it for both.  Left out altogether is a database *)
(* that such a cache has been written to.                                  *)
Recoverable ==
    torn # "db" =>
        LET replayed == Replay(db.utxo, Above(db.marker, db.best))
        IN  /\ Records
            /\ replayed.ok
            /\ Seen(replayed.cache, db.utxo) = Ledger[db.best].unspent
            /\ (\A b \in DOMAIN index : Ledger[b].once) => db.anchors = Ledger[db.best].anchors

(* The funding utxos that the anchors of some blocks lock.                 *)
Locks(blocks) == {Funding[t] : t \in UNION {ToSet(Txs[n]) : n \in blocks}} \ {NoFunding}

(* The blocks of b's chain from height i up may have been attached by one  *)
(* call of reorganizeChain: a known branch leaves the chain below them, or *)
(* a crash, a failed commit or the administrator took them off the chain   *)
(* or kept them from it.                                                   *)
TogetherFrom(b, i) ==
    \/ used.crashes + used.fails + used.rpc > 0
    \/ \E m \in DOMAIN index \ Chain(b) : ForkHeight(b, m) < i

(* No order of blocks, branch switch, retry, crash or administrator's call *)
(* gets a block onto the best chain (connectBestChain, reorganizeChain)    *)
(* that spends a missing output or fails another check, or, one block at a *)
(* time, one that locks a funding utxo a second time.  Blocks attached by  *)
(* one switch are compared with the records of the chain being left and    *)
(* not with each other, so that two of them may lock the same one.  Left   *)
(* out is a block that was checked with a cache left wrong by a refused or *)
(* unstored block or by a failed flush.                                    *)
BestChainLegit ==
    torn # "db" =>
        /\ Ledger[tip].ok
        /\ \/ Ledger[tip].once
           \/ \E i, j \in DOMAIN Path[tip] :
                  /\ i < j /\ Locks({Path[tip][i]}) \cap Locks({Path[tip][j]}) # {}
                  /\ TogetherFrom(tip, i)

(* An anchor of b's chain locks what an anchor of another known branch     *)
(* locks: checkAnchorTxsUnique compares with the records of the chain      *)
(* being left, so the switch to b may be refused for good.                 *)
SharesAnchor(b) == Locks(Chain(b)) \cap Locks(DOMAIN index \ Chain(b)) # {}

(* In whatever order blocks and orphans arrive, once ProcessBlock has      *)
(* returned no valid known branch has more work than the best chain, below *)
(* the activation height and as long as nothing crashed, failed or was     *)
(* administered.                                                           *)
MostWork ==
    (/\ owner = NoCaller /\ \A c \in Callers : call[c] = Idle
     /\ used.crashes + used.fails + used.rpc = 0
     /\ Height[tip] < POSV2Height)
        => \A b \in DOMAIN index : Legit(b) /\ ~SharesAnchor(b) => Height[b] <= Height[tip]

(* Once a block at the activation height or above is on the best chain,    *)
(* only the administrator can take it off: through failures of the commit  *)
(* or of its sync, crashes and restarts, the tip stays or is extended.     *)
PosFinal ==
    [][Height[tip] >= POSV2Height /\ plan.rpc = 0 => tip' = tip \/ Parent[tip'] = tip]_vars

(* The pool's maps agree, whatever blocks, notifications and transactions  *)
(* arrive in whatever order: outpoints and anchorOutpoints name exactly    *)
(* the pool's transactions under what they spend and lock, so that no two  *)
(* spend the same output or lock the same funding utxo and nothing is      *)
(* refused for a transaction that is gone.  The anchors share the entry of *)
(* the null outpoint.  There are never more orphans than MaxOrphanTxs.     *)
PoolIndexed ==
    /\ \A t \in pool.txs :
          IF IsAnchorTx(t) THEN Funding[t] \in DOMAIN pool.anchors /\ pool.anchors[Funding[t]] = t
          ELSE \A o \in ToSet(Ins[t]) : o \in DOMAIN pool.outpoints /\ pool.outpoints[o] = t
    /\ \A o \in DOMAIN pool.outpoints :
          pool.outpoints[o] \in pool.txs /\ o \in Inputs(pool.outpoints[o])
    /\ \A l \in DOMAIN pool.anchors : pool.anchors[l] \in pool.txs /\ Funding[pool.anchors[l]] = l
    /\ \A t, u \in pool.txs :
          t # u => /\ ToSet(Ins[t]) \cap ToSet(Ins[u]) = {}
                   /\ Funding[t] = Funding[u] => Funding[t] = NoFunding
    /\ Cardinality(pool.orphans) <= MaxOrphanTxs

(* Once the notifications have been handled the pool fits the best chain:  *)
(* what a pool transaction spends is unspent on the chain or made in the   *)
(* pool, and none is unspent on the chain already.  The exceptions are     *)
(* exactly what the pool was not told: outputs of the coinbase of a        *)
(* disconnected block, of a transaction of it that came back without its   *)
(* parent (a contract Result, which the pool never takes, or one that a    *)
(* transaction submitted meanwhile conflicts with), and what a block moved *)
(* that was connected without a notification.  The administrator's calls   *)
(* do not overlap the sync manager's: a connected notification handled     *)
(* after the disconnected one breaks this.                                 *)
PoolConsistent ==
    /\ PoolIndexed
    /\ (/\ ~plan.races /\ torn = "no"
        /\ \A c \in Callers : call[c].stage = "notify" => call[c].note = <<>>)
           => LET unspent == DOMAIN Ledger[tip].unspent
                  here  == {t \in untold : \E n \in Chain(tip) : t \in ToSet(Txs[n])}
                  spent == UNION {ToSet(Ins[t]) : t \in here}
              IN  /\ \A t \in pool.txs :
                        ToSet(Ins[t]) \subseteq unspent \cup pool.txs \cup (untold \ here) \cup spent
                  /\ pool.txs \cap unspent \subseteq untold
=============================================================================
