----------------------------- MODULE BlockChain -----------------------------
(***************************************************************************)
(* The block chain of one node (blockchain/): the index of known blocks    *)
(* and their statuses, the best chain, the UTXO cache, the orphan pool and *)
(* what the database holds of them.  Two callers change the chain: the     *)
(* sync manager's goroutine ("sync") processes blocks, an RPC handler      *)
(* ("rpc") invalidates and reconsiders them.  A call holds chainLock from  *)
(* start to end except while it delivers a notification.  A step is one    *)
(* database transaction with the memory changes around it, so a crash may  *)
(* fall between any two transactions of a call.  The database module       *)
(* (database/ffldb) may lose its latest transactions in a crash; what that *)
(* leaves is what a crash right after the last kept one leaves, so a crash *)
(* here keeps all of them.                                                 *)
(***************************************************************************)
EXTENDS UtxoCache

CONSTANTS
    Plans,            \* what may happen in a behaviour, and how often: the
                      \* blocks of tree arrive, users send the transactions
                      \* of users or look up their outputs
    MaxOrphanBlocks,  \* maxOrphanBlocks
    NoBlock, NoCaller

Callers == {"sync", "rpc"}

ASSUME PlansAssumption ==
    \A p \in Plans : p.tree \subseteq Blocks \ {Genesis} /\ p.users \subseteq Tx
ASSUME CallersAssumption == NoCaller \notin Callers

VARIABLES
    plan,      \* the plan of this behaviour
    used,      \* how often each bounded event has happened
    index,     \* index: the statuses of the known blocks
    tip,       \* the tip of bestChain
    cache,     \* utxoCache.cachedEntries
    orphans,   \* the orphan pool, oldest first
    oldest,    \* oldestOrphan
    db,        \* the chain's buckets and block files
    posErr,    \* posDurabilityErr # nil
    owner,     \* who holds chainLock
    call,      \* what each caller is doing
    torn       \* history: the "cache" is not what the best chain leaves: it
               \* has the transactions of a block that did not get there, or
               \* lost entries to a write that failed; or it has been written
               \* to the "db" since, or a block committed that relied on it

chainVars == <<plan, used, index, tip, cache, orphans, oldest, db, posErr, owner, call, torn>>

Statuses == {"stored", "valid", "failed", "ancestor"}
KnownValid(s) == "valid" \in s
KnownInvalid(s) == s \cap {"failed", "ancestor"} # {}

(* Idle, or a call's record: what it was asked to do, the block at hand,   *)
(* the accepted blocks whose orphans are still to be looked up, the blocks *)
(* to detach and attach, the view used for detaching, the journal row of   *)
(* the block about to be committed, and what follows the reorganisation.   *)
Idle == [stage |-> "idle"]
Started(stage, b) ==
    [stage |-> stage, b |-> b, queue |-> <<>>, detach |-> <<>>, attach |-> <<>>,
     view |-> <<>>, stxos |-> <<>>, after |-> "none", note |-> <<>>, kind |-> "none"]

(* The cache, whatever it holds, is written to the database or relied on.  *)
Taint == torn' = IF torn = "cache" THEN "db" ELSE torn

(* A reader of the cache would see something else than before the step,    *)
(* though the stored set stays as it is.                                   *)
Torn == Seen(cache', db.utxo) # Seen(cache, db.utxo)
Tear == torn' = IF torn = "no" /\ Torn THEN "cache" ELSE torn

(* A database transaction with a flush fails.  writeCache takes an entry   *)
(* out of the cache as soon as it has put it into the transaction, so that *)
(* the cache has lost none, some or all of them.                           *)
LoseEntries == \E lost \in SUBSET DOMAIN cache : cache' = Drop(cache, lost)

Busy(c, stage) == owner = c /\ call[c].stage = stage
Continue(c, r) == call' = [call EXCEPT ![c] = r] /\ owner' = c
Return(c) == call' = [call EXCEPT ![c] = Idle] /\ owner' = NoCaller

Count(event) == used' = [used EXCEPT ![event] = @ + 1]
Allowed(event) == used[event] < plan[event]

(***************************************************************************)
(* The block index.                                                        *)
(***************************************************************************)
SetStatusFlags(idx, nodes, flags) ==
    [n \in DOMAIN idx |-> IF n \in nodes THEN idx[n] \cup flags ELSE idx[n]]
UnsetStatusFlags(idx, nodes, flags) ==
    [n \in DOMAIN idx |-> IF n \in nodes THEN idx[n] \ flags ELSE idx[n]]

(* Every status change marks its node dirty, so the rows to write are the  *)
(* rows that differ.                                                       *)
flushToDB(d, idx) == [d EXCEPT !.rows = Overlay(idx, @)]

InactiveTips(idx) ==
    {n \in DOMAIN idx \ Chain(tip) :
        \A m \in DOMAIN idx \ (Chain(tip) \cup {n}) : Parent[m] # n}

(***************************************************************************)
(* Validation.                                                             *)
(***************************************************************************)
(* Seeded fault: only the anchors of the block itself are compared.        *)
AnchorReusedInBlock(b, anchors) ==
    \E i, j \in DOMAIN Txs[b] :
        i # j /\ IsAnchorTx(Txs[b][i]) /\ Funding[Txs[b][i]] = Funding[Txs[b][j]]

(* A funding utxo is anchored twice: in the block, or by the stored record *)
(* of an anchor on the best chain.                                         *)
AnchorReused(b, anchors) ==
    LET locks == {i \in DOMAIN Txs[b] : IsAnchorTx(Txs[b][i])}
    IN  \/ \E i \in locks : Funding[Txs[b][i]] \in DOMAIN anchors
        \/ \E i, j \in locks : i # j /\ Funding[Txs[b][i]] = Funding[Txs[b][j]]

checkConnectBlock(view, c, b) ==
    LET Verdict(fetched, r) ==
            [cache |-> fetched, view |-> r.view, ok |-> r.ok,
             err   |-> IF AnchorReused(b, db.anchors) THEN "anchor"
                       ELSE IF ~r.unspent \/ b \notin Sound THEN "rule" ELSE "none"]
        Check(f) == Verdict(f.cache, viewConnectTransactions(f.view, b))
    IN  Check(fetchInputUtxos(view, c, db.utxo, b))

(***************************************************************************)
(* Reorganisation: which blocks to move, and whether moving them is legal. *)
(***************************************************************************)
getReorganizeNodes(idx, node) ==
    LET branch  == Above(tip, node)
        invalid == {i \in DOMAIN branch : KnownInvalid(idx[branch[i]])}
        none(marked) == [index |-> SetStatusFlags(idx, marked, {"ancestor"}),
                         detach |-> <<>>, attach |-> <<>>]
    IN  IF KnownInvalid(idx[Parent[node]]) THEN none({node})
        ELSE IF invalid # {}
        THEN none({branch[i] : i \in {j \in DOMAIN branch : \A k \in invalid : j > k}})
        ELSE [index |-> idx, detach |-> Reverse(Above(node, tip)), attach |-> branch]

Detached(f, n) == disconnectTransactions(f.view, n, db.journal[n])

VerifyDetach(s, n) ==
    LET Undo(f) == [s EXCEPT !.cache = f.cache, !.view = Detached(f, n)]
    IN  Undo(fetchInputUtxos(s.view, s.cache, db.utxo, n))

(* A block known to be valid only has its inputs spent in the view.  s     *)
(* collects the statuses to set.                                           *)
VerifyAttach(idx, s, n) ==
    LET Attach(chk) ==
            IF KnownValid(idx[n])
            THEN [s EXCEPT !.cache = chk.cache, !.view = chk.view, !.ok = chk.ok]
            ELSE IF chk.err = "none"
            THEN [s EXCEPT !.cache = chk.cache, !.view = chk.view, !.marks = @ \cup {<<n, "valid">>}]
            ELSE [s EXCEPT !.cache = chk.cache, !.ok = FALSE, !.rule = TRUE,
                           !.marks = @ \cup {<<n, "failed">>}]
    IN  IF s.ok THEN Attach(checkConnectBlock(s.view, s.cache, n))
        ELSE [s EXCEPT !.marks = IF s.rule THEN @ \cup {<<n, "ancestor">>} ELSE @]

verifyReorganizationValidity(idx, detach, attach) ==
    LET start == [marks |-> {}, cache |-> cache, view |-> <<>>, ok |-> TRUE, rule |-> FALSE]
        Verdict(s) == [ok |-> s.ok, cache |-> s.cache,
                       index |-> [n \in DOMAIN idx |-> idx[n] \cup {f \in Statuses : <<n, f>> \in s.marks}]]
    IN  IF \/ detach # <<>> /\ Head(detach) # tip
           \/ detach # <<>> /\ attach # <<>> /\ Parent[Head(attach)] # Parent[Last(detach)]
        THEN Verdict([start EXCEPT !.ok = FALSE])
        ELSE Verdict(FoldLeft(LAMBDA s, n : VerifyAttach(idx, s, n),
                              FoldLeft(VerifyDetach, start, detach), attach))

(* reorganizeChain up to its first database write.  The statuses the check *)
(* sets stay in memory; a failed check ends the call, which then writes    *)
(* them.                                                                   *)
BeginReorganize(c, g, after) ==
    \E v \in {verifyReorganizationValidity(g.index, g.detach, g.attach)} :
        /\ index' = v.index
        /\ cache' = v.cache
        /\ IF v.ok
           THEN /\ Continue(c, [call[c] EXCEPT !.stage = "reorganize", !.detach = g.detach,
                                               !.attach = g.attach, !.view = <<>>, !.after = after])
                /\ db' = db
           ELSE Return(c) /\ db' = flushToDB(db, v.index)

(***************************************************************************)
(* ProcessBlock: the sync manager hands the chain a block.                 *)
(***************************************************************************)
RecoverablePOSNode(b) ==
    /\ b \in DOMAIN index \ Chain(tip)
    /\ POSV2Active(Height[b])
    /\ Parent[b] = tip
    /\ "stored" \in index[b] /\ ~KnownInvalid(index[b])

(* The early returns of maybeAcceptBlock for a block with a known parent.  *)
(* A node with a contract engine checks a block on the tip before it       *)
(* stores anything of it.                                                  *)
Prevalidated(b) == plan.contracts /\ Parent[b] = tip
Acceptable(b) ==
    /\ ~KnownInvalid(index[Parent[b]])
    /\ POSV2Active(Height[tip]) => Parent[b] = tip
    /\ Prevalidated(b) => checkConnectBlock(<<>>, cache, b).err = "none"

CacheAfterCheck(b) == IF Prevalidated(b) THEN checkConnectBlock(<<>>, cache, b).cache ELSE cache

(* The sync manager is free.  Whether its calls and the administrator's    *)
(* may overlap is a matter of the plan.                                    *)
CanSync ==
    /\ owner = NoCaller /\ call["sync"] = Idle
    /\ plan.races \/ call["rpc"] = Idle

ProcessBlock(b) ==
    /\ CanSync
    /\ ~posErr
    /\ Allowed("blocks")
    /\ b \notin DOMAIN index \cup ToSet(orphans)
    /\ Parent[b] \in DOMAIN index
    /\ Acceptable(b)
    /\ Count("blocks")
    /\ cache' = CacheAfterCheck(b)
    /\ Continue("sync", Started("store", b))
    /\ UNCHANGED <<plan, index, tip, orphans, oldest, db, posErr, torn>>

(* A stored POS block whose commit a crash cut short is checked again in   *)
(* full and connected.                                                     *)
RecoverStoredPOSBlock(b) ==
    /\ CanSync
    /\ ~posErr
    /\ Allowed("blocks")
    /\ RecoverablePOSNode(b)
    /\ \E chk \in {checkConnectBlock(<<>>, cache, b)} : chk.err = "none" /\ cache' = chk.cache
    /\ Count("blocks")
    /\ Continue("sync", Started("connect", b))
    /\ UNCHANGED <<plan, index, tip, orphans, oldest, db, posErr, torn>>

(* removeOrphanBlock: the pool without o, if it is there.                  *)
Without(pool, o) ==
    LET at == {i \in DOMAIN pool : pool[i] = o}
    IN  IF at = {} THEN {pool} ELSE {RemoveAt(pool, i) : i \in at}

(* A block whose parent is unknown waits in the orphan pool, unless its    *)
(* height needs approval on the exact parent.  The expired orphans go; at  *)
(* the limit, the orphan that the oldest pointer names goes, and the       *)
(* pointer may name one that has already left the pool.                    *)
addOrphanBlock(b) ==
    /\ CanSync
    /\ ~posErr
    /\ Allowed("blocks")
    /\ b \notin DOMAIN index \cup ToSet(orphans)
    /\ Parent[b] \notin DOMAIN index
    /\ ~POSV2Active(Height[b])
    /\ \E expired \in 0..Len(orphans) :
          LET left    == SubSeq(orphans, expired + 1, Len(orphans))
              pointer == IF left = <<>> \/ oldest # NoBlock THEN oldest ELSE Head(left)
              full    == Len(left) + 1 > MaxOrphanBlocks
          IN  /\ \E kept \in IF full THEN Without(left, pointer) ELSE {left} :
                    orphans' = Append(kept, b)
              /\ oldest' = IF full THEN NoBlock ELSE pointer
    /\ Count("blocks")
    /\ UNCHANGED <<plan, index, tip, cache, db, posErr, owner, call, torn>>

(* maybeAcceptBlock, first transaction: the bytes of the block.            *)
StoreBlock(c) ==
    /\ Busy(c, "store")
    /\ db' = [db EXCEPT !.blocks = @ \cup {call[c].b}]
    /\ Continue(c, [call[c] EXCEPT !.stage = "add"])
    /\ UNCHANGED <<plan, used, index, tip, cache, orphans, oldest, posErr, torn>>

(* Second transaction: its row in the index.                               *)
AddNode(c) ==
    LET b == call[c].b
        s == {"stored"} \cup IF Prevalidated(b) THEN {"valid"} ELSE {}
    IN  /\ Busy(c, "add")
        /\ index' = Put(index, b, s)
        /\ db' = flushToDB(db, index')
        /\ Continue(c, [call[c] EXCEPT !.stage = "connect"])
        /\ UNCHANGED <<plan, used, tip, cache, orphans, oldest, posErr, torn>>

(* connectBestChain for a block on the tip that is already known valid.    *)
ExtendKnownValid(c) ==
    LET b == call[c].b
    IN  /\ Busy(c, "connect")
        /\ Parent[b] = tip /\ KnownValid(index[b])
        /\ Continue(c, [call[c] EXCEPT !.stage = "reorganize", !.attach = <<b>>, !.after = "known"])
        /\ UNCHANGED <<plan, used, index, tip, cache, orphans, oldest, db, posErr, torn>>

(* connectBestChain for any other block on the tip: check it, record the   *)
(* verdict.  A block refused for its anchors is forgotten, so that it can  *)
(* be offered again; its row stays in the database.                        *)
ExtendChecked(c) ==
    LET b == call[c].b
        Verdict(err) == IF err = "none" THEN "valid" ELSE "failed"
    IN  /\ Busy(c, "connect")
        /\ Parent[b] = tip /\ ~KnownValid(index[b])
        /\ \E chk \in {checkConnectBlock(<<>>, cache, b)} :
              /\ cache' = chk.cache
              /\ IF chk.err = "anchor"
                 THEN index' = Drop(index, {b}) /\ db' = db
                 ELSE /\ index' = SetStatusFlags(index, {b}, {Verdict(chk.err)})
                      /\ db' = flushToDB(db, index')
              /\ IF chk.err = "none"
                 THEN Continue(c, [call[c] EXCEPT !.stage = "reorganize", !.attach = <<b>>,
                                                  !.after = "checked"])
                 ELSE Return(c)
        /\ UNCHANGED <<plan, used, tip, orphans, oldest, posErr, torn>>

(* Seeded fault: a branch with more work stays a side chain.               *)
KeepSideChainAlways(c) ==
    /\ Busy(c, "connect")
    /\ Parent[call[c].b] # tip
    /\ Continue(c, [call[c] EXCEPT !.stage = "finish"])
    /\ UNCHANGED <<plan, used, index, tip, cache, orphans, oldest, db, posErr, torn>>

(* connectBestChain for a block beside the tip.                            *)
KeepSideChain(c) ==
    /\ Busy(c, "connect")
    /\ Parent[call[c].b] # tip
    /\ POSV2Active(Height[tip]) \/ Height[call[c].b] <= Height[tip]
    /\ Continue(c, [call[c] EXCEPT !.stage = "finish"])
    /\ UNCHANGED <<plan, used, index, tip, cache, orphans, oldest, db, posErr, torn>>

SwitchBranch(c) ==
    /\ Busy(c, "connect")
    /\ Parent[call[c].b] # tip
    /\ ~POSV2Active(Height[tip]) /\ Height[call[c].b] > Height[tip]
    /\ BeginReorganize(c, getReorganizeNodes(index, call[c].b), "switch")
    /\ UNCHANGED <<plan, used, tip, orphans, oldest, posErr, torn>>

(***************************************************************************)
(* The steps of reorganizeChain, also taken with nothing to detach by a    *)
(* block that extends the tip.  A missing input or an assertion that fails *)
(* ends the call; a branch switch and the last part of InvalidateBlock     *)
(* then still write the index.                                             *)
(***************************************************************************)
GiveUp(c) ==
    /\ Return(c)
    /\ db' = IF call[c].after \in {"switch", "chosen"} THEN flushToDB(db, index) ELSE db

(* One block to detach: unspend in the view, check that it is the tip and  *)
(* write the index.                                                        *)
PrepareDisconnect(c) ==
    LET n == Head(call[c].detach)
    IN  /\ Busy(c, "reorganize")
        /\ call[c].detach # <<>>
        /\ \E f \in {fetchInputUtxos(call[c].view, cache, db.utxo, n)} :
              /\ cache' = f.cache
              /\ IF n = tip
                 THEN /\ Continue(c, [call[c] EXCEPT !.stage = "disconnect", !.view = Detached(f, n)])
                      /\ db' = flushToDB(db, index)
                 ELSE GiveUp(c)
        /\ UNCHANGED <<plan, used, index, tip, orphans, oldest, posErr, torn>>

(* disconnectBlock's transaction.  The cache is written first, because the *)
(* view then changes the stored set directly.                              *)
disconnectBlock(c) ==
    LET n == Head(call[c].detach)
        utxo == dbPutUtxoView(writeCache(db.utxo, cache), call[c].view)
        anchored == {l \in DOMAIN db.anchors : db.anchors[l] \in ToSet(Txs[n])}
    IN  /\ Busy(c, "disconnect")
        /\ db' = [db EXCEPT !.best = Parent[n], !.utxo = utxo, !.marker = Parent[n],
                            !.journal = Drop(@, {n}), !.anchors = Drop(@, anchored)]
        /\ cache' = <<>>
        /\ tip' = Parent[n]
        /\ owner' = NoCaller
        /\ call' = [call EXCEPT ![c].stage = "notify", ![c].view = viewCommit(@),
                                ![c].detach = Tail(@), ![c].note = AfterCoinbase(n),
                                ![c].kind = "disconnected"]
        /\ Taint
        /\ UNCHANGED <<plan, used, index, orphans, oldest, posErr>>

(* disconnectBlock's transaction fails, and the call with it.              *)
DisconnectFails(c) ==
    /\ Busy(c, "disconnect")
    /\ Allowed("fails") /\ Count("fails")
    /\ LoseEntries /\ Tear
    /\ Return(c)
    /\ UNCHANGED <<plan, index, tip, orphans, oldest, db, posErr>>

(* One block to attach: its transactions go into the cache, and only then  *)
(* connectBlock checks that it extends the tip and writes the index.       *)
PrepareConnect(c) ==
    LET n == Head(call[c].attach)
    IN  /\ Busy(c, "reorganize")
        /\ call[c].detach = <<>> /\ call[c].attach # <<>>
        /\ \E s \in {connectTransactions(cache, db.utxo, n)} :
              /\ cache' = s.cache
              /\ IF s.ok /\ Parent[n] = tip
                 THEN /\ Continue(c, [call[c] EXCEPT !.stage = "commit", !.stxos = s.stxos])
                      /\ db' = flushToDB(db, index)
                      /\ torn' = torn
                 ELSE GiveUp(c) /\ Tear
        /\ UNCHANGED <<plan, used, index, tip, orphans, oldest, posErr>>

Committed(c) ==
    LET n == Head(call[c].attach)
        anchors == {t \in ToSet(Txs[n]) : IsAnchorTx(t)}
        flushed == POSV2Active(Height[n])
    IN  [db EXCEPT !.best = n,
                   !.journal = Put(@, n, call[c].stxos),
                   !.anchors = [l \in {Funding[t] : t \in anchors} |->
                                    CHOOSE t \in anchors : Funding[t] = l] @@ @,
                   !.utxo = IF flushed THEN writeCache(@, cache) ELSE @,
                   !.marker = IF flushed THEN n ELSE @]

(* connectBlock's transaction, the cache written along with it once POS is *)
(* active, and the flush that follows when the cache is full.              *)
connectBlock(c) ==
    LET n == Head(call[c].attach)
    IN  /\ Busy(c, "commit")
        /\ \E full \in BOOLEAN :
              /\ full => Allowed("fills")
              /\ used' = [used EXCEPT !.fills = IF full THEN @ + 1 ELSE @]
              /\ IF full \/ POSV2Active(Height[n])
                 THEN /\ db' = [Committed(c) EXCEPT !.utxo = writeCache(db.utxo, cache), !.marker = n]
                      /\ cache' = <<>>
                 ELSE db' = Committed(c) /\ cache' = cache
        /\ Taint
        /\ tip' = n
        /\ owner' = NoCaller
        /\ call' = [call EXCEPT ![c].stage = "notify", ![c].attach = Tail(@),
                                ![c].note = AfterCoinbase(n), ![c].kind = "connected",
                                ![c].stxos = <<>>]
        /\ UNCHANGED <<plan, index, orphans, oldest, posErr>>

(* connectBlock fails when the block is already the tip: the asset index   *)
(* is not ready for it, or the flush that follows fails, which with POS    *)
(* has nothing left to write.  The call ends and nobody is notified.       *)
ConnectUnannounced(c) ==
    LET n == Head(call[c].attach)
        pos == POSV2Active(Height[n])
    IN  /\ Busy(c, "commit")
        /\ Allowed("fails") /\ Count("fails")
        /\ db' = Committed(c)
        /\ IF pos THEN cache' = <<>> ELSE LoseEntries
        /\ torn' = IF torn = "cache" THEN "db"
                   ELSE IF torn = "no" /\ ~pos /\ Torn THEN "cache" ELSE torn
        /\ tip' = n
        /\ Return(c)
        /\ UNCHANGED <<plan, index, orphans, oldest, posErr>>

(* connectBlock's transaction fails, or the sync that must follow it once  *)
(* POS is active.  The cache has the block's transactions; with POS it has *)
(* lost some or all of its entries to a transaction that is then rolled    *)
(* back, and the chain refuses blocks and flushes until a restart.         *)
ConnectFails(c) ==
    LET pos == POSV2Active(Height[Head(call[c].attach)])
    IN  /\ Busy(c, "commit")
        /\ Allowed("fails")
        /\ Count("fails")
        /\ \E kept \in BOOLEAN :
              /\ kept => pos
              /\ db' = IF kept THEN Committed(c) ELSE db
              /\ IF kept THEN cache' = <<>> ELSE IF pos THEN LoseEntries ELSE cache' = cache
              /\ torn' = IF torn = "no" THEN "cache" ELSE IF kept THEN "db" ELSE torn
        /\ posErr' = (posErr \/ pos)
        /\ Return(c)
        /\ UNCHANGED <<plan, index, tip, orphans, oldest>>

(* The subscribers have handled the notification; the caller waits for the *)
(* lock and goes on.                                                       *)
Relock(c) ==
    /\ owner = NoCaller
    /\ call[c].stage = "notify" /\ call[c].note = <<>>
    /\ Continue(c, [call[c] EXCEPT !.stage = IF call[c].kind = "accepted" THEN "orphans" ELSE "reorganize",
                                   !.kind = "none"])
    /\ UNCHANGED <<plan, used, index, tip, cache, orphans, oldest, db, posErr, torn>>

(* Nothing is left to move.  What follows depends on the call: a block     *)
(* that extended the tip gets its valid status if it lost it meanwhile, or *)
(* was not checked just now; the others but ReconsiderBlock write the      *)
(* index.                                                                  *)
Reorganized(c) ==
    LET b == call[c].b
        after == call[c].after
        marks == after = "known" \/ (after = "checked" /\ ~KnownValid(index[b]))
    IN  /\ Busy(c, "reorganize")
        /\ call[c].detach = <<>> /\ call[c].attach = <<>>
        /\ index' = IF marks THEN SetStatusFlags(index, {b}, {"valid"}) ELSE index
        /\ db' = IF marks \/ after \in {"switch", "choose", "chosen"} THEN flushToDB(db, index') ELSE db
        /\ CASE after \in {"known", "checked", "switch"} -> Continue(c, [call[c] EXCEPT !.stage = "finish"])
             [] after = "choose" -> Continue(c, [call[c] EXCEPT !.stage = "choose"])
             [] OTHER            -> Return(c)
        /\ UNCHANGED <<plan, used, tip, cache, orphans, oldest, posErr, torn>>

(* finishBlockAcceptance: the block was accepted, wherever it is now.      *)
FinishAcceptance(c) ==
    /\ Busy(c, "finish")
    /\ owner' = NoCaller
    /\ call' = [call EXCEPT ![c].stage = "notify", ![c].kind = "accepted",
                            ![c].queue = Append(@, call[c].b)]
    /\ UNCHANGED <<plan, used, index, tip, cache, orphans, oldest, db, posErr, torn>>

(* The sync of finishBlockAcceptance fails, though the block is committed. *)
AcceptedSyncFails(c) ==
    /\ Busy(c, "finish")
    /\ POSV2Active(Height[call[c].b])
    /\ Allowed("fails") /\ Count("fails")
    /\ posErr' = TRUE
    /\ Return(c)
    /\ UNCHANGED <<plan, index, tip, cache, orphans, oldest, db, torn>>

(* processOrphans: the children of the accepted blocks, first accepted and *)
(* first received first.  A child that is refused ends the call, and its   *)
(* siblings stay in the pool.                                              *)
Children(b) == {j \in DOMAIN orphans : Parent[orphans[j]] = b}
Waiting(c) == {i \in DOMAIN call[c].queue : Children(call[c].queue[i]) # {}}

NextOrphan(c) ==
    /\ Busy(c, "orphans")
    /\ \E i \in Waiting(c) : \E j \in Children(call[c].queue[i]) :
          /\ \A k \in Waiting(c) : i <= k
          /\ \A k \in Children(call[c].queue[i]) : j <= k
          /\ orphans' = RemoveAt(orphans, j)
          /\ cache' = CacheAfterCheck(orphans[j])
          /\ IF Acceptable(orphans[j])
             THEN Continue(c, [Started("store", orphans[j]) EXCEPT !.queue = call[c].queue])
             ELSE Return(c)
    /\ UNCHANGED <<plan, used, index, tip, oldest, db, posErr, torn>>

NoMoreOrphans(c) ==
    /\ Busy(c, "orphans")
    /\ Waiting(c) = {}
    /\ Return(c)
    /\ UNCHANGED <<plan, used, index, tip, cache, orphans, oldest, db, posErr, torn>>

(***************************************************************************)
(* The administrator's calls.                                              *)
(***************************************************************************)
CanAdminister(b) ==
    /\ owner = NoCaller /\ call["rpc"] = Idle
    /\ plan.races \/ call["sync"] = Idle
    /\ Allowed("rpc")
    /\ b \in DOMAIN index

(* A block beside the best chain: it and its descendants become invalid.   *)
InvalidateSide(b) ==
    LET below == {n \in DOMAIN index : IsAncestor(n, b) /\ ~KnownInvalid(index[n])}
        marked == SetStatusFlags(SetStatusFlags(index, {b}, {"failed"}), below, {"ancestor"})
    IN  /\ CanAdminister(b)
        /\ b \notin Chain(tip) /\ ~KnownInvalid(index[b])
        /\ Count("rpc")
        /\ index' = UnsetStatusFlags(marked, below \cup {b}, {"valid"})
        /\ db' = flushToDB(db, index')
        /\ UNCHANGED <<plan, tip, cache, orphans, oldest, posErr, owner, call, torn>>

(* A block on the best chain: it and what is above it become invalid and   *)
(* are detached, blocks that already were invalid left out.                *)
InvalidateBest(b) ==
    LET above == Downward(Path[tip], {n \in DOMAIN index : IsAncestor(n, b) /\ ~KnownInvalid(index[n])})
        marked == SetStatusFlags(SetStatusFlags(index, {b}, {"failed"}), ToSet(above), {"ancestor"})
        idx == UnsetStatusFlags(marked, ToSet(above) \cup {b}, {"valid"})
    IN  /\ CanAdminister(b)
        /\ b \in Chain(tip) \ {Genesis} /\ ~KnownInvalid(index[b])
        /\ Count("rpc")
        /\ \E v \in {verifyReorganizationValidity(idx, Append(above, b), <<>>)} :
              /\ index' = v.index
              /\ cache' = v.cache
              /\ IF v.ok
                 THEN Continue("rpc", [Started("reorganize", b) EXCEPT
                          !.detach = Append(above, b), !.after = "choose"])
                 ELSE UNCHANGED <<owner, call>>
        /\ UNCHANGED <<plan, tip, orphans, oldest, db, posErr, torn>>

(* The best remaining branch.  The tips come in no particular order with   *)
(* the active one last, and only more work displaces an earlier one: a     *)
(* branch with as much work as the active one displaces it.                *)
BestTips ==
    LET side == {n \in InactiveTips(index) : ~KnownInvalid(index[n])}
        top  == {n \in side : \A m \in side : Height[m] <= Height[n]}
    IN  IF \E n \in top : Height[n] >= Height[tip] \/ KnownInvalid(index[tip]) THEN top ELSE {tip}

ChooseBestTip(c) ==
    /\ Busy(c, "choose")
    /\ \E best \in BestTips :
          IF best = tip THEN Return(c) /\ UNCHANGED <<index, cache, db>>
          ELSE BeginReorganize(c, getReorganizeNodes(index, best), "chosen")
    /\ UNCHANGED <<plan, used, tip, orphans, oldest, posErr, torn>>

(* The block and its descendants are no longer invalid; if a tip above it  *)
(* (any one, where there are several) has more work, the chain moves there *)
(* after checking the branch.                                              *)
ReconsiderBlock(b) ==
    LET tips == {n \in InactiveTips(index) \cup {tip} : n = b \/ IsAncestor(n, b)}
        below == {n \in DOMAIN index : IsAncestor(n, b)}
        idx == UnsetStatusFlags(UnsetStatusFlags(index, {b} \cup below, {"ancestor"}), {b}, {"failed"})
    IN  /\ CanAdminister(b)
        /\ ~KnownValid(index[b])
        /\ Count("rpc")
        /\ \E t \in IF tip \in tips THEN {tip} ELSE tips :
           \E g \in {getReorganizeNodes(idx, t)} :
           \E v \in {verifyReorganizationValidity(g.index, g.detach, g.attach)} :
                  IF Height[t] <= Height[tip]
                  THEN index' = idx /\ UNCHANGED <<cache, db, owner, call>>
                  ELSE /\ index' = v.index
                       /\ cache' = v.cache
                       /\ db' = flushToDB(db, v.index)
                       /\ IF v.ok
                          THEN Continue("rpc", [Started("reorganize", b) EXCEPT
                                   !.detach = g.detach, !.attach = g.attach, !.after = "reconsider"])
                          ELSE UNCHANGED <<owner, call>>
        /\ UNCHANGED <<plan, tip, orphans, oldest, posErr, torn>>

(***************************************************************************)
(* Readers, flushes, crashes.                                              *)
(***************************************************************************)
(* FetchUtxoEntry: a reader caches what the database holds, or that it     *)
(* holds nothing.                                                          *)
FetchUtxoEntry(o) ==
    /\ owner = NoCaller
    /\ Allowed("reads")
    /\ o \notin DOMAIN cache
    /\ Count("reads")
    /\ cache' = fetchEntries(cache, db.utxo, {o})
    /\ UNCHANGED <<plan, index, tip, orphans, oldest, db, posErr, owner, call, torn>>

(* Seeded fault: the entries are written, the marker is not.               *)
FlushUtxoCacheKeepsMarker ==
    /\ CanSync
    /\ ~posErr
    /\ Allowed("flushes")
    /\ Count("flushes")
    /\ db' = [db EXCEPT !.utxo = writeCache(@, cache)]
    /\ cache' = <<>>
    /\ Taint
    /\ UNCHANGED <<plan, index, tip, orphans, oldest, posErr, owner, call>>

(* FlushUtxoCache, called by the sync manager.                             *)
FlushUtxoCache ==
    /\ CanSync
    /\ ~posErr
    /\ Allowed("flushes")
    /\ Count("flushes")
    /\ db' = [db EXCEPT !.utxo = writeCache(@, cache), !.marker = tip]
    /\ cache' = <<>>
    /\ Taint
    /\ UNCHANGED <<plan, index, tip, orphans, oldest, posErr, owner, call>>

(* It fails, and the sync manager goes on.                                 *)
FlushFails ==
    /\ CanSync
    /\ ~posErr
    /\ Allowed("flushes") /\ Allowed("fails")
    /\ used' = [used EXCEPT !.flushes = @ + 1, !.fails = @ + 1]
    /\ LoseEntries /\ Tear
    /\ UNCHANGED <<plan, index, tip, orphans, oldest, db, posErr, owner, call>>

(* InitConsistentState: blocks above the consistency marker go through the *)
(* cache again.                                                            *)
Replay(utxo, blocks) ==
    FoldLeft(LAMBDA s, n : IF s.ok THEN connectTransactions(s.cache, utxo, n) ELSE s,
             [cache |-> <<>>, stxos |-> <<>>, ok |-> TRUE], blocks)

(* The database when the cache filled up, and was written, for the last    *)
(* time after the first k of these blocks.                                 *)
FlushedInReplay(blocks, k) ==
    IF k = 0 THEN db
    ELSE [db EXCEPT !.utxo = writeCache(@, Replay(@, SubSeq(blocks, 1, k)).cache),
                    !.marker = blocks[k]]

(* The process dies and comes back: initChainState, InitConsistentState.   *)
CrashAndRestart ==
    /\ Allowed("crashes")
    /\ Count("crashes")
    /\ index' = SetStatusFlags(db.rows, Chain(db.best), {"valid"})
    /\ tip' = db.best
    /\ \E blocks \in {Above(db.marker, db.best)} :
          /\ Replay(db.utxo, blocks).ok
          /\ \E k \in 0..Len(blocks) : \E d \in {FlushedInReplay(blocks, k)} :
                /\ cache' = Replay(d.utxo, SubSeq(blocks, k + 1, Len(blocks))).cache
                /\ db' = flushToDB(d, index')
    /\ orphans' = <<>> /\ oldest' = NoBlock
    /\ posErr' = FALSE
    /\ owner' = NoCaller /\ call' = [c \in Callers |-> Idle]
    /\ torn' = IF torn = "cache" THEN "no" ELSE torn
    /\ plan' = plan

Start ==
    /\ plan \in Plans
    /\ used = [e \in {"blocks", "fills", "fails", "rpc", "reads", "flushes", "crashes", "txs"} |-> 0]
    /\ index = [b \in {Genesis} |-> {"stored", "valid"}]
    /\ tip = Genesis
    /\ cache = <<>>
    /\ orphans = <<>> /\ oldest = NoBlock
    /\ db = [blocks |-> {Genesis}, rows |-> index, best |-> Genesis,
             utxo |-> <<>>, marker |-> Genesis, journal |-> <<>>, anchors |-> <<>>]
    /\ posErr = FALSE
    /\ owner = NoCaller /\ call = [c \in Callers |-> Idle]
    /\ torn = "no"

CallStep(c) ==
    \/ StoreBlock(c) \/ AddNode(c)
    \/ ExtendKnownValid(c) \/ ExtendChecked(c) \/ KeepSideChain(c) \/ SwitchBranch(c)
    \/ PrepareDisconnect(c) \/ disconnectBlock(c) \/ DisconnectFails(c)
    \/ PrepareConnect(c) \/ connectBlock(c) \/ ConnectUnannounced(c) \/ ConnectFails(c)
    \/ Relock(c) \/ Reorganized(c) \/ FinishAcceptance(c) \/ AcceptedSyncFails(c)
    \/ NextOrphan(c) \/ NoMoreOrphans(c) \/ ChooseBestTip(c)

ChainStep ==
    \/ \E b \in plan.tree : ProcessBlock(b) \/ RecoverStoredPOSBlock(b) \/ addOrphanBlock(b)
    \/ \E c \in Callers : CallStep(c)
    \/ \E b \in plan.tree : InvalidateSide(b) \/ InvalidateBest(b) \/ ReconsiderBlock(b)
    \/ \E o \in plan.users : FetchUtxoEntry(o)
    \/ FlushUtxoCache \/ FlushFails
=============================================================================
