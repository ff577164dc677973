----------------------------- MODULE PosApproval -----------------------------
(***************************************************************************)
(* Block approval under POS v2: a Miner, its Core node and the Bootstrap   *)
(* node produce candidates and send them up; the Bootstrap signs one,      *)
(* stores it, makes it canonical, syncs, and only then publishes; every    *)
(* node receives and commits published blocks the same way.                *)
(*                                                                         *)
(* A block is the sequence of the blocks that lead to it, because its hash *)
(* commits to its ancestors; <<>> is the last block before activation.     *)
(* The three nodes are the path of the scheduled slot, so each of them may *)
(* produce; readiness, timing and validity of a candidate decide whether   *)
(* the handler goes on or rejects, and are left open.  Only signed bytes   *)
(* are stored and served, and only the Bootstrap signs.                    *)
(*                                                                         *)
(* A node has one goroutine that generates (own), one that handles the     *)
(* candidates of its child (peer) and one that processes blocks (sync).    *)
(* chainLock is held from the check of the parent to the notification.     *)
(* The database is ffldb: a transaction is seen at once and survives a     *)
(* crash only once flushed, at any later time or by Sync.                  *)
(***************************************************************************)
EXTENDS Naturals, Sequences

CONSTANTS
    Miner, Core, Boot,  \* the nodes
    NoNode,             \* parent of the Bootstrap
    NoBlock,            \* no candidate
    Copies,             \* numbers of a node's different candidates for one parent
    MaxNonce,           \* bound: nonces of one link in use at a time
    Plans               \* bounds explored together: the nodes whose generator
                        \* runs, the candidates they choose from, blocks after
                        \* activation, crashes, failed writes and
                        \* syncs, asset indexes that fall behind, connections lost

Nodes == {Miner, Core, Boot}
Threads == {"own", "peer", "sync"}
Variants == Nodes \X Copies
Father == [n \in Nodes |-> IF n = Miner THEN Core ELSE IF n = Core THEN Boot ELSE NoNode]
Child == [n \in Nodes |-> IF n = Boot THEN Core ELSE IF n = Core THEN Miner ELSE NoNode]
Bounds == [makers: SUBSET Nodes, copies: Nat, height: Nat,
           crashes: Nat, fails: Nat, lags: Nat, drops: Nat]

ASSUME PosAssumption ==
    /\ Miner # Core /\ Core # Boot /\ Miner # Boot /\ NoNode \notin Nodes
    /\ Copies \subseteq Nat /\ MaxNonce \in Nat
    /\ Plans \subseteq Bounds

VARIABLES
    tip,      \* best chain of each node in memory
    index,    \* block index of each node in memory
    db,       \* database of each node as its transactions see it
    disk,     \* database of each node as a crash leaves it
    fault,    \* posDurabilityErr is set
    lag,      \* the asset index is behind the tip
    thread,   \* what each goroutine is doing
    cand,     \* posCandidate
    reqs,     \* mineblock messages on their way, [from, nonce, blk]
    acks,     \* mineack messages on their way, [to, nonce, ok]
    last,     \* lastMineBlockNonce of each node's peer to its parent
    result,   \* lastMineAckResult of that peer
    served,   \* history: blocks whose bytes any node has sent out
    told,     \* history: candidates a sender was told are accepted
    crashes, fails, lags, drops,
    plan      \* the bounds of this behaviour

chainVars == <<tip, index, db, disk, fault, lag>>
linkVars  == <<reqs, acks, last, result>>
bounds    == <<crashes, fails, lags, drops, plan>>
vars == <<tip, index, db, disk, fault, lag, thread, cand, reqs, acks, last, result,
          served, told, bounds>>

Idle == [pc |-> "idle", blk |-> NoBlock, req |-> 0, call |-> 0]
Steps == {"idle", "wait", "woken", "store", "commit", "sync", "notify"}
Holding == {"store", "commit", "sync"}

Init ==
    /\ tip = [n \in Nodes |-> <<>>]
    /\ index = [n \in Nodes |-> {}]
    /\ db = [n \in Nodes |-> [rows |-> {}, best |-> <<>>]]
    /\ disk = db
    /\ fault = [n \in Nodes |-> FALSE]
    /\ lag = [n \in Nodes |-> FALSE]
    /\ thread = [n \in Nodes |-> [t \in Threads |-> Idle]]
    /\ cand = [n \in Nodes |-> NoBlock]
    /\ reqs = {}
    /\ acks = {}
    /\ last = [n \in Nodes |-> 0]
    /\ result = [n \in Nodes |-> TRUE]
    /\ served = {}
    /\ told = {}
    /\ crashes = 0
    /\ fails = 0
    /\ lags = 0
    /\ drops = 0
    /\ plan \in Plans

-----------------------------------------------------------------------------
(* The chain.                                                               *)

Contains(chain, block) ==
    /\ Len(block) <= Len(chain)
    /\ \A i \in 1 .. Len(block) : block[i] = chain[i]

(* The block's parent is the given tip.                                     *)
Extends(block, chain) == Len(block) = Len(chain) + 1 /\ Contains(block, chain)

LockFree(n) == \A t \in Threads : thread[n][t].pc \notin Holding

POSReady(n) == LockFree(n) /\ ~fault[n] /\ ~lag[n]

(* Seeded fault: a stored block is never taken up again.                    *)
recoverablePOSNodeNever(n, b) == FALSE

(* A stored block that extends the tip is an interrupted commit.            *)
recoverablePOSNode(n, b) == b \in index[n] /\ ~fault[n] /\ Extends(b, tip[n])

(* Seeded fault: any block in the index is served.                          *)
CanServeBlockAny(n, b) == LockFree(n) /\ ~fault[n] /\ b \in index[n]

CanServeBlock(n, b) == LockFree(n) /\ ~fault[n] /\ Contains(tip[n], b)

(* A goroutine's chain operation or call ends; the handler of a child's     *)
(* candidate answers the child.                                             *)
Ended(n, t, ok) ==
    /\ thread' = [thread EXCEPT ![n][t] = Idle]
    /\ acks' = IF t = "peer" THEN acks \cup {[to |-> Child[n], nonce |-> thread[n][t].req, ok |-> ok]}
               ELSE acks

At(n, t, pc) == thread[n][t].pc = pc

Goto(n, t, pc) == thread' = [thread EXCEPT ![n][t].pc = pc]

-----------------------------------------------------------------------------
(* Committing a block, under chainLock.                                     *)

(* Take chainLock for a block that extends the tip.  A block that is in the *)
(* index already is recovered from its stored bytes; another one is stored  *)
(* first, after the Bootstrap signs it.                                     *)
Begin(n, t, b, req) ==
    /\ LockFree(n) /\ ~fault[n] /\ ~lag[n]
    /\ Extends(b, tip[n])
    /\ b \in index[n] => recoverablePOSNode(n, b)
    /\ thread' = [thread EXCEPT ![n][t] = [pc |-> IF b \in index[n] THEN "commit" ELSE "store",
                                           blk |-> b, req |-> req, call |-> 0]]

(* dbStoreBlock, AddNode and the flush of the index row.  Bytes without a   *)
(* row are as good as nothing: they are stored once more.                   *)
StoreBlock(n, t) ==
    /\ At(n, t, "store")
    /\ index' = [index EXCEPT ![n] = @ \cup {thread[n][t].blk}]
    /\ db' = [db EXCEPT ![n].rows = @ \cup {thread[n][t].blk}]
    /\ Goto(n, t, "commit")
    /\ UNCHANGED <<tip, disk, fault, lag, cand, linkVars, served, told, bounds>>

(* The transaction that writes the best state, the UTXO set and the indexes.*)
ConnectBlock(n, t) ==
    /\ At(n, t, "commit")
    /\ db' = [db EXCEPT ![n].best = thread[n][t].blk]
    /\ Goto(n, t, "sync")
    /\ UNCHANGED <<tip, index, disk, fault, lag, cand, linkVars, served, told, bounds>>

(* Seeded fault: the tip moves before the transaction is synced.            *)
SetTipUnsynced(n, t) ==
    /\ At(n, t, "sync")
    /\ tip' = [tip EXCEPT ![n] = thread[n][t].blk]
    /\ Goto(n, t, "notify")
    /\ UNCHANGED <<index, db, disk, fault, lag, cand, linkVars, served, told, bounds>>

(* Sync, then the tip moves and the asset index connects the block; the     *)
(* lock is released for the notification.                                   *)
SetTip(n, t) ==
    /\ At(n, t, "sync")
    /\ disk' = [disk EXCEPT ![n] = db[n]]
    /\ tip' = [tip EXCEPT ![n] = thread[n][t].blk]
    /\ Goto(n, t, "notify")
    /\ UNCHANGED <<index, db, fault, lag, cand, linkVars, served, told, bounds>>

(* The same when the asset index cannot follow: the caller gets an error    *)
(* for a block that is canonical and durable.                               *)
SetTipIndexBehind(n, t) ==
    /\ At(n, t, "sync")
    /\ lags < plan.lags
    /\ disk' = [disk EXCEPT ![n] = db[n]]
    /\ tip' = [tip EXCEPT ![n] = thread[n][t].blk]
    /\ lag' = [lag EXCEPT ![n] = TRUE]
    /\ Ended(n, t, FALSE)
    /\ lags' = lags + 1
    /\ UNCHANGED <<index, db, fault, cand, reqs, last, result, served, told, crashes, fails, drops, plan>>

(* The index is brought to the tip, at startup or by the next caller that   *)
(* needs it.                                                                *)
CatchUp(n) ==
    /\ lag[n]
    /\ lag' = [lag EXCEPT ![n] = FALSE]
    /\ UNCHANGED <<tip, index, db, disk, fault, thread, cand, linkVars, served, told, bounds>>

(* After the notification: a second Sync, and the caller's success.         *)
FinishBlockAcceptance(n, t) ==
    /\ At(n, t, "notify")
    /\ LockFree(n)
    /\ disk' = [disk EXCEPT ![n] = db[n]]
    /\ Ended(n, t, TRUE)
    /\ UNCHANGED <<tip, index, db, fault, lag, cand, reqs, last, result, served, told, bounds>>

(* A write or a sync fails: posDurabilityErr stops the node.  The new index *)
(* node may be in memory by then.                                           *)
WriteFails(n, t) ==
    /\ thread[n][t].pc \in Holding \/ (At(n, t, "notify") /\ LockFree(n))
    /\ fails < plan.fails
    /\ fault' = [fault EXCEPT ![n] = TRUE]
    /\ \/ UNCHANGED index
       \/ At(n, t, "store") /\ index' = [index EXCEPT ![n] = @ \cup {thread[n][t].blk}]
    /\ Ended(n, t, FALSE)
    /\ fails' = fails + 1
    /\ UNCHANGED <<tip, db, disk, lag, cand, reqs, last, result, served, told, crashes, lags, drops, plan>>

(* The database cache is flushed on its own.                                *)
Flush(n) ==
    /\ disk[n] # db[n]
    /\ disk' = [disk EXCEPT ![n] = db[n]]
    /\ UNCHANGED <<tip, index, db, fault, lag, thread, cand, linkVars, served, told, bounds>>
-----------------------------------------------------------------------------
(* The link to the parent: mineblock and mineack messages.                  *)

(* Nonces are random and never repeat: one that nothing refers to is fresh. *)
FreshNonces(s) ==
    (1 .. MaxNonce) \ ({r.nonce : r \in {q \in reqs : q.from = s}} \cup {a.nonce : a \in {q \in acks : q.to = s}}
                       \cup {thread[s][t].call : t \in Threads} \cup {thread[Father[s]]["peer"].req})

(* SendMineBlockAndWait: the nonce becomes the peer's last one.             *)
Send(s, t, b, req) ==
    \E k \in FreshNonces(s) :
       /\ \A j \in FreshNonces(s) : k <= j
       /\ last' = [last EXCEPT ![s] = k]
       /\ thread' = [thread EXCEPT ![s][t] = [pc |-> "wait", blk |-> b, req |-> req, call |-> k]]
       /\ reqs' = (reqs \ {r \in reqs : r.from = Child[s] /\ r.nonce = req /\ t = "peer"})
                  \cup {[from |-> s, nonce |-> k, blk |-> b]}

(* HandleMineAckMsg: only the last nonce counts.  The result is left with   *)
(* the peer and the waiter is woken to fetch it.                            *)
HandleMineAck(s, a) ==
    /\ a.to = s
    /\ acks' = acks \ {a}
    /\ \/ /\ last[s] = a.nonce
          /\ last' = [last EXCEPT ![s] = 0]
          /\ result' = [result EXCEPT ![s] = a.ok]
          /\ thread' = [thread EXCEPT ![s] = [t \in Threads |->
                           IF @[t].pc = "wait" /\ @[t].call = a.nonce THEN [@[t] EXCEPT !.pc = "woken"] ELSE @[t]]]
       \/ last[s] # a.nonce /\ UNCHANGED <<last, result, thread>>
    /\ UNCHANGED <<chainVars, cand, reqs, served, told, bounds>>

(* The woken caller reads the result the peer holds by then.                *)
MineAckReceived(s, t) ==
    /\ At(s, t, "woken")
    /\ told' = IF result[s] THEN told \cup {thread[s][t].blk} ELSE told
    /\ Ended(s, t, result[s])
    /\ UNCHANGED <<chainVars, cand, reqs, last, result, served, bounds>>

MineAckTimeout(s, t) ==
    /\ thread[s][t].pc \in {"wait", "woken"}
    /\ Ended(s, t, FALSE)
    /\ UNCHANGED <<chainVars, cand, reqs, last, result, served, told, bounds>>

-----------------------------------------------------------------------------
(* Producing and handling candidates.                                       *)

(* The candidate for the tip is kept and sent again until the tip moves.    *)
Candidates(n) ==
    IF cand[n] # NoBlock /\ Extends(cand[n], tip[n]) THEN {cand[n]}
    ELSE {Append(tip[n], <<n, k>>) : k \in {c \in Copies : c <= plan.copies}}

generatePOSBlock(n) ==
    /\ n \in plan.makers
    /\ thread[n]["own"] = Idle
    /\ POSReady(n)
    /\ Len(tip[n]) < plan.height
    /\ \E b \in Candidates(n) :
          /\ cand' = [cand EXCEPT ![n] = b]
          /\ \/ n = Boot /\ Begin(n, "own", b, 0) /\ UNCHANGED <<reqs, last>>
             \/ n # Boot /\ Send(n, "own", b, 0)
    /\ UNCHANGED <<chainVars, acks, result, served, told, bounds>>

(* handlePOSCandidate answers at once: success for a canonical block, and   *)
(* a rejection whenever a check or the timing says so.                      *)
AnswerCandidate(n, r, ok) ==
    /\ Father[r.from] = n /\ thread[n]["peer"] = Idle
    /\ reqs' = reqs \ {r}
    /\ acks' = acks \cup {[to |-> r.from, nonce |-> r.nonce, ok |-> ok]}
    /\ UNCHANGED <<chainVars, thread, cand, last, result, served, told, bounds>>

(* Seeded fault: success for any block in the index.                        *)
KnownCandidateStored(n, r) == POSReady(n) /\ r.blk \in index[n] /\ AnswerCandidate(n, r, TRUE)

(* BlockByHash finds the candidate on the best chain: an ACK was lost.      *)
KnownCandidate(n, r) == POSReady(n) /\ Contains(tip[n], r.blk) /\ AnswerCandidate(n, r, TRUE)

RejectCandidate(n, r) == AnswerCandidate(n, r, FALSE)

(* ApprovePOSBlock, at the Bootstrap.                                       *)
ApprovePOSBlock(r) ==
    /\ r.from = Core /\ thread[Boot]["peer"] = Idle
    /\ Begin(Boot, "peer", r.blk, r.nonce)
    /\ reqs' = reqs \ {r}
    /\ UNCHANGED <<chainVars, cand, acks, last, result, served, told, bounds>>

(* The Core node checks a candidate against its tip and passes it on.       *)
RelayCandidate(r) ==
    /\ r.from = Miner /\ thread[Core]["peer"] = Idle
    /\ POSReady(Core) /\ Extends(r.blk, tip[Core])
    /\ Send(Core, "peer", r.blk, r.nonce)
    /\ UNCHANGED <<chainVars, cand, acks, result, served, told, bounds>>

-----------------------------------------------------------------------------
(* Publishing and receiving blocks.                                         *)

(* The inventory of the node offers a block and a peer fetches it.          *)
ServeBlock(n, b) ==
    /\ CanServeBlock(n, b)
    /\ b \notin served
    /\ served' = served \cup {b}
    /\ UNCHANGED <<chainVars, thread, cand, linkVars, told, bounds>>

(* ProcessBlock of a block some peer served; a known block, or one that     *)
(* does not extend the tip, is refused.                                     *)
ProcessBlock(n, b) ==
    /\ thread[n]["sync"] = Idle
    /\ Begin(n, "sync", b, 0)
    /\ UNCHANGED <<chainVars, cand, linkVars, served, told, bounds>>

-----------------------------------------------------------------------------
(* Crashes and lost connections.  A new connection is a new peer object; a  *)
(* caller that was woken has read its result before that.                   *)

Woken(s) == \E t \in Threads : At(s, t, "woken")

(* The messages of the link between s and its parent are lost.              *)
Disconnect(s) ==
    /\ drops < plan.drops
    /\ s # Boot /\ ~Woken(s)
    /\ reqs' = {r \in reqs : r.from # s}
    /\ acks' = {a \in acks : a.to # s}
    /\ last' = [last EXCEPT ![s] = 0]
    /\ drops' = drops + 1
    /\ UNCHANGED <<chainVars, thread, cand, result, served, told, crashes, fails, lags, plan>>

(* Seeded fault: the highest block of the index becomes the tip.            *)
RestartAtHighest(n) ==
    /\ crashes < plan.crashes \/ fault[n]
    /\ \A s \in Nodes : Father[s] = n => ~Woken(s)
    /\ tip' = [tip EXCEPT ![n] = CHOOSE b \in disk[n].rows \cup {<<>>} :
                              \A o \in disk[n].rows : Len(o) <= Len(b)]
    /\ index' = [index EXCEPT ![n] = disk[n].rows]
    /\ db' = [db EXCEPT ![n] = disk[n]]
    /\ fault' = [fault EXCEPT ![n] = FALSE]
    /\ lag' = [lag EXCEPT ![n] = disk[n].best # <<>>]
    /\ thread' = [thread EXCEPT ![n] = [t \in Threads |-> Idle]]
    /\ cand' = [cand EXCEPT ![n] = NoBlock]
    /\ reqs' = {r \in reqs : r.from # n /\ Father[r.from] # n}
    /\ acks' = {a \in acks : a.to # n /\ Father[a.to] # n}
    /\ last' = [s \in Nodes |-> IF s = n \/ Father[s] = n THEN 0 ELSE last[s]]
    /\ result' = [result EXCEPT ![n] = TRUE]
    /\ crashes' = IF fault[n] THEN crashes ELSE crashes + 1
    /\ UNCHANGED <<disk, served, told, fails, lags, drops, plan>>

(* A crash and the restart: the chain and the index come back from what the *)
(* disk holds, the asset index from an older snapshot; everything else      *)
(* starts anew.                                                             *)
Restart(n) ==
    /\ crashes < plan.crashes \/ fault[n]
    /\ \A s \in Nodes : Father[s] = n => ~Woken(s)
    /\ tip' = [tip EXCEPT ![n] = disk[n].best]
    /\ index' = [index EXCEPT ![n] = disk[n].rows]
    /\ db' = [db EXCEPT ![n] = disk[n]]
    /\ fault' = [fault EXCEPT ![n] = FALSE]
    /\ lag' = [lag EXCEPT ![n] = disk[n].best # <<>>]
    /\ thread' = [thread EXCEPT ![n] = [t \in Threads |-> Idle]]
    /\ cand' = [cand EXCEPT ![n] = NoBlock]
    /\ reqs' = {r \in reqs : r.from # n /\ Father[r.from] # n}
    /\ acks' = {a \in acks : a.to # n /\ Father[a.to] # n}
    /\ last' = [s \in Nodes |-> IF s = n \/ Father[s] = n THEN 0 ELSE last[s]]
    /\ result' = [result EXCEPT ![n] = TRUE]
    /\ crashes' = IF fault[n] THEN crashes ELSE crashes + 1
    /\ UNCHANGED <<disk, served, told, fails, lags, drops, plan>>

-----------------------------------------------------------------------------
ThreadStep(n, t) ==
    \/ StoreBlock(n, t)
    \/ ConnectBlock(n, t)
    \/ SetTip(n, t)
    \/ FinishBlockAcceptance(n, t)
    \/ MineAckReceived(n, t)

Next ==
    \/ \E n \in Nodes, t \in Threads :
          ThreadStep(n, t) \/ SetTipIndexBehind(n, t) \/ WriteFails(n, t) \/ MineAckTimeout(n, t)
    \/ \E n \in Nodes : CatchUp(n) \/ Flush(n) \/ generatePOSBlock(n) \/ Disconnect(n) \/ Restart(n)
    \/ \E n \in Nodes, a \in acks : HandleMineAck(n, a)
    \/ \E n \in Nodes, r \in reqs : KnownCandidate(n, r) \/ RejectCandidate(n, r)
    \/ \E r \in reqs : ApprovePOSBlock(r) \/ RelayCandidate(r)
    \/ \E n \in Nodes : \E b \in index[n] : ServeBlock(n, b)
    \/ \E n \in Nodes, b \in served : ProcessBlock(n, b)

Spec == Init /\ [][Next]_vars

(* Goroutines run on, the asset index catches up, a node with a storage     *)
(* failure is repaired and restarted, the generator's ticker sends again,   *)
(* acknowledgements arrive or time out, peers offer and fetch blocks.  A    *)
(* candidate sent again and again is at last taken: the checks that turn it *)
(* away for its timing pass.                                                *)
Fairness ==
    /\ \A n \in Nodes :
          /\ WF_vars(\E t \in Threads : ThreadStep(n, t))
          /\ WF_vars(\E t \in Threads : MineAckTimeout(n, t))
          /\ WF_vars(CatchUp(n))
          /\ SF_vars(fault[n] /\ Restart(n))
          /\ WF_vars(generatePOSBlock(n))
          /\ WF_vars(\E a \in acks : HandleMineAck(n, a))
          /\ WF_vars(\E r \in reqs : RejectCandidate(n, r))
          /\ WF_vars(\E b \in index[n] : ServeBlock(n, b))
          /\ SF_vars(\E b \in served : ProcessBlock(n, b))
    /\ SF_vars(\E r \in reqs : ApprovePOSBlock(r))
    /\ SF_vars(\E r \in reqs : RelayCandidate(r))

FairSpec == Spec /\ Fairness

-----------------------------------------------------------------------------
Blocks == Seq(Variants)
Nonces == 0 .. MaxNonce
Database == [rows: SUBSET Blocks, best: Blocks]
Goroutine == [pc: Steps, blk: Blocks \cup {NoBlock}, req: Nonces, call: Nonces]

(* One goroutine of a node at a time holds chainLock, for a block.          *)
ThreadsOK ==
    /\ thread \in [Nodes -> [Threads -> Goroutine]]
    /\ \A n \in Nodes : \A t \in Threads :
          thread[n][t].pc \in Holding =>
             /\ thread[n][t].blk \in Blocks
             /\ \A u \in Threads : thread[n][u].pc \in Holding => u = t

(* The variables have their types, and chainLock excludes.                  *)
TypeOK ==
    /\ tip \in [Nodes -> Blocks]
    /\ index \in [Nodes -> SUBSET Blocks]
    /\ db \in [Nodes -> Database] /\ disk \in [Nodes -> Database]
    /\ fault \in [Nodes -> BOOLEAN] /\ lag \in [Nodes -> BOOLEAN]
    /\ ThreadsOK
    /\ cand \in [Nodes -> Blocks \cup {NoBlock}]
    /\ reqs \subseteq [from: Nodes, nonce: Nonces, blk: Blocks]
    /\ acks \subseteq [to: Nodes \cup {NoNode}, nonce: Nonces, ok: BOOLEAN]
    /\ last \in [Nodes -> Nonces] /\ result \in [Nodes -> BOOLEAN]
    /\ served \subseteq Blocks /\ told \subseteq Blocks \cup {NoBlock}

(* ApprovePOSBlock's promise: "its approval witness cannot escape until     *)
(* canonical commit and sync succeed".  Whatever was ever sent out is on    *)
(* the chain the Bootstrap's disk holds, so no two approved blocks of one   *)
(* height are ever out, across crashes, retries and failed syncs.           *)
ServedIsDurable == \A b \in served : Contains(disk[Boot].best, b)

(* A producer that is told success has a durable canonical block: a mineack *)
(* without an error stands for ApprovePOSBlock's success, its own or the    *)
(* one the Core node relays.                                                *)
ToldIsDurable == \A b \in told : Contains(disk[Boot].best, b)

(* The database is at the tip, or ahead of it by the one block that is      *)
(* being committed or whose commit failed; the disk is at one of the two.   *)
(* A goroutine that holds chainLock builds on the tip it checked.           *)
Committing(n) ==
    /\ db[n].best = tip[n] \/ Extends(db[n].best, tip[n])
    /\ disk[n].best = tip[n] \/ disk[n].best = db[n].best
    /\ LockFree(n) /\ ~fault[n] => db[n].best = tip[n]
    /\ \A t \in Threads : thread[n][t].pc \in Holding =>
          /\ ~fault[n]
          /\ Extends(thread[n][t].blk, tip[n])
          /\ db[n].best = IF At(n, t, "sync") THEN thread[n][t].blk ELSE tip[n]

(* connectBlock's order of writes (transaction, Sync, tip) keeps the tip a  *)
(* node shows on its disk, whoever runs while chainLock is released for the *)
(* notification.                                                            *)
TipIsDurable == \A n \in Nodes : Committing(n)

(* The chain goes on at every node: an interrupted commit, a lost mineack,  *)
(* a stopped node or a failed write never leaves a node that cannot take    *)
(* the next approved block.                                                 *)
ChainGrows == <>(\A n \in Nodes : Len(tip[n]) = plan.height)

(* Together the nodes keep one ledger that only grows, even when the        *)
(* Bootstrap crashes while it commits: what its disk holds.                 *)
Ledger == INSTANCE PosLedger WITH ledger <- disk[Boot].best
OneLedger == Ledger!Spec
=============================================================================
