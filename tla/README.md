# SatoshiNet in TLA+

SatoshiNet is a Bitcoin layer 2: a btcd-derived full node with native assets,
proof-of-stake sequencing under a Bootstrap node, an indexer, contracts, a
replicated key-value store (DKVS) and a message service. This directory models
the parts of it in which several actors, crashes and retries meet, checks them
with TLC on small instances and proves the main safety results with TLAPS.

`PROJECT.json` lists every component, the source lines behind every definition,
the runs, the hazards and the theorems. This file explains them.

## 1. The system and where it is hard

| Part | State | Operations | What is hard |
|---|---|---|---|
| Topic service (`topic_manager.go`, `topic_retry.go`, `topic_delivery_db.go`) | catalog of topics, durable pending deliveries | create, join, reject, leave, membership commit, publish, retry, acknowledgement | a commit writes two stores; the retry loop runs while it does; accounts move between cores |
| Direct messages (`message_manager.go`, `message_retry.go`, `message_acceptance_db.go`, `message_direct_replay.go`) | acceptance records, `next_sender_msg_id`, replay windows | accept, route, retry, receive, acknowledge, expire | two handlers of one message, late acknowledgements of former cores, a window that forgets |
| Mailboxes and bindings (`message_dkvs_store.go`, `message_topic_store.go`, `message_binding.go`, DKVS) | records per recipient, account → core | append, delete, expire, rebind | replicas learn of a move at different times |
| Mining sequence (`indexer/common/sequencemgr.go`, `pos.go`, `indexer/indexer/base`) | tree of Bootstrap, Core and Miner nodes, a cursor | stake, unstake, next slot, reward, restart | the cursor's node leaves; a node joins in the block being processed; replay from an older snapshot |
| POS v2 approval (`blockchain/pos.go`, `mining/posminer/pos.go`) | tip, block index, database, candidates | generate, relay, approve, commit, recover, serve | a crash between store, commit, sync and publication; a rejected candidate that was committed |
| Mine acknowledgement (`peer/peer.go`) | last nonce and last result per connection | send and wait, acknowledge, time out | two callers share one result field |
| Block chain (`blockchain/accept.go`, `process.go`, `chain.go`, `chainio.go`, `blockindex.go`, `chainview.go`) | index of known blocks and statuses, best chain, orphan pool, database buckets | process a block, keep a side chain, switch branch, invalidate, reconsider, recover | a branch switch is many transactions; `chainLock` is released for every notification; statuses survive in part |
| UTXO cache (`blockchain/utxocache.go`, `utxoviewpoint.go`) | cached entries with flags over the stored set, consistency marker | connect through the cache, disconnect through a view, flush, replay | two layers write the same set at different times |
| Transaction pool (`mempool/`) and its updates (`netsync/manager.go`) | pool, spent outpoints, locked funding utxos, orphans | accept, replace, remove, follow the chain | follows the chain one transaction at a time, after the fact |
| Database (`database/ffldb`) | cache over leveldb, flat block files, write cursor | update, flush, sync, prune, reconcile | a committed transaction is not yet durable; files, cache and leveldb change at different moments |
| Contracts, DKVS store, fees and sessions, sync peer choice, indexers of names and assets | see `PROJECT.json` | | planned or out of reach, see sections 7 and 8 |

The parts meet as follows. Stakes in blocks change the mining sequence, which
says whose candidate POS v2 approval accepts. Approval commits blocks through
the block chain, which keeps its UTXO set in a cache over ffldb and notifies the
transaction pool. The message service stores acceptance records and pending
deliveries in ffldb buckets and mailboxes in DKVS; bindings, also in DKVS, say
which core holds an account's mailbox.

## 2. Modules

| Module | Content |
|---|---|
| `TopicRules` | the record of one topic and the rule of each `TopicManager` operation, as operators |
| `TopicMembership` | the abstract level: each operation one atomic step |
| `TopicService` | the same rules over the staged commit, the delivery store, the network, mailboxes, moving accounts and crashes; implements `TopicMembership` |
| `DirectMessage` | one sender, one recipient that moves, any number of messages |
| `MiningSequence` | the ring of slots, with its indexer restarting and replaying |
| `PosLedger` | the abstract level: one ledger that only grows, tips that follow it |
| `PosApproval` | Miner, Core and Bootstrap with their goroutines, databases and links; implements `PosLedger` |
| `Lists` | a few operators on sequences, in a form the proofs can unfold |
| `BlockTree` | the blocks and transactions there are, their heights and paths, and `Ledger`: what a chain leaves unspent, computed from the chain alone |
| `UtxoCache` | the cache and the view over the stored UTXO set, as operators |
| `BlockChain` | the chain of one node: index, best chain, orphans, database, two callers, crashes |
| `TxPool` | the operations of the transaction pool, as operators |
| `ChainNode` | chain and pool composed through the sync manager, and the properties of both |
| `DurableStore` | the abstract level: what the database promises |
| `Ffldb` | transactions, cache, flush, block files, rollback, pruning and reconciliation; implements `DurableStore` |
| `TopicMembershipProofs`, `TopicServiceProofs`, `DirectMessageProofs`, `MiningSequenceProofs`, `PosApprovalProofs`, `FfldbProofs`, `ChainRecordsProofs`, `ChainNodeProofs` | theorems; `ChainNodeProofs` extends `ChainRecordsProofs` |
| `MCTopicMembership`, `MCTopicService`, `MCDirectMessage`, `MCPosApproval`, `MCChainNode`, `MCFfldb` | plans (bounds), instances and symmetry sets for TLC; `MiningSequence` needs none |

Two conventions. A definition introduced by *Seeded fault* is a plausible bug of
the definition that follows it; it is not part of the specification, and
substituting it must make a run fail. A rigid variable `plan` holds the
bounds on moves, crashes, failures and so on: a run explores several
combinations at once instead of all bounds raised together.

### 2.1 Topic service

`topic` is `managedTopic`: `members` (status, role, `JoinedSeq`, `LeftSeq`),
`count` (`MemberCount`), `keySeq` and `last` (the last commit, standing for its
hash). `issued` is a history variable: who got a key package of each key
sequence. `TopicRules` has for each operation a guard (the code's early returns)
and the new record; `CommitAllowed` is the body of `CommitMembershipChange` up to
the candidate, with `validateTopicSnapshot` the check made when a node starts.

`TopicService` splits what is not atomic in the code:

- `StageCommit`, then `PersistCommit` or `PersistFails`: `CommitMembershipChange`
  saves the key packages as pending deliveries, then writes the catalog, and
  rolls the packages back if that fails. `TopicManager.mu` is held throughout
  (`stage` holds the commit, or is empty), so nothing else that takes the lock
  runs in between. The retry loop can read the store meanwhile.
- `ReadRecipients`, then `SavePublish` or `SavePublishFails`: `handlePublish`
  reads members under the lock and stores the fan-out after it.
- `StartRetry`, then `RefreshPending` for each delivery of the snapshot: the loop
  of `message_retry.go`. `Held` is the rule that a key of a future sequence
  is not exposed.
- `HandleFanout` and `handleDeliveryAck`: any routed envelope can be handled any
  number of times or never, so loss, duplication and reordering need no action.
- `Rebind`, `SyncBinding`: an account moves, each core learns of it on its own.
- `Flush`, `Crash`: the delivery store is an ffldb bucket (`pending` as seen,
  `disk` as a crash leaves it); the catalog is written through DKVS and survives.

Abstractions: one topic, because topics are independent under one lock; one batch
per core; the payload, with its recipients and their order, stands for the
DeliveryID, which hashes it (`handlePublish` takes the recipients out of a map, so
that a publish handled twice may come in two orders, two deliveries to the
store); bindings resolve; RETRYABLE acknowledgements change nothing and are omitted; mailbox
deletion and expiry are in `DirectMessage` only; a refusal of the paid-service
authorizer is a step not taken. `FanoutTopicKeyPackages` (used only by tests) and
`RetryPending` (without callers) are left out.

### 2.2 Direct messages

`accepted[m]` is the acceptance record (SenderMsgID, target core, final, last
status) and `next` the counter of `message_acceptance_db.go`; `flushed` is both as
a crash leaves them. `window` is the replay window of each core. `Accept` runs
under the store's lock and is one step (`AcceptNew`, `AcceptAgain` inside
`SendDirectMessage` and `RetryPending`). `handleIncomingDirect` is several:
`ReplayBegin` (or `RecipientMoved`), `AppendDirectMessage` or `AppendFails`,
`ReplayFinish`, because the window, the mailbox and the acknowledgement are
separate critical sections. `from` and `fromView` are the sender's binding and its
replicas: only the core an account is bound to may accept its messages or answer
for them (`validateAccountSource`). `PruneExpiredDirect`, `ForgetReplay` and `DeleteMail`
are the expiries, evictions and deletions.

`Delivered` and `Resolved` say nothing while the sender is bound elsewhere: cores that
know of it drop what its former core sends without an acknowledgement, and that
core goes on retrying until the record expires (`message_manager.go:408`). What they
say is that nothing is lost for a sender that comes back for good.

Abstractions: what the sender sends from another core is in that core's store, with
a counter of its own, and is left out; rate limits and retry-after
delays only decide when a step happens; REJECTED is never sent for Direct
messages.

### 2.3 Mining sequence

A public key is a number; 0 is the Bootstrap. `father` and `join` are the tree,
`cur` the cursor (`currMiningNode`), `height` and `done` how far the indexer is.
`Rank` is the place of a node in the list that `rebuildSequence` builds (Bootstrap,
then each Core followed by its Miners, by key), so the ring is the order of ranks.
`NewOp` is a stake or unstake in the open block, `EndBlock` is the end of
`syncBlock` with `MoveMiningAddr` and now and then a snapshot, `Restart` is
`MiningSequenceMgr.Init`, after which `ReplayOp` and `EndBlock` replay the chain.
`slots` and `due` are history variables for the properties.

Abstractions: one Bootstrap; heights above the first checkpoint; operations
that the code refuses change nothing and are not steps.

`GetMiningHeightWithAddr` (`sequencemgr.go:617`) has no caller and is left out.
Reading it shows that, except for the current node, it answers one height less
than the "next mining height" of its comment.

### 2.4 POS v2 approval

A block is the sequence of blocks leading to it, as its hash commits to its
ancestors. Per node: `tip` and `index` (memory), `db` (what transactions see),
`disk` (what a crash leaves), `fault` (`posDurabilityErr`), `lag` (asset index
behind), `cand` (`posCandidate`) and three goroutines: `own` (the generator's
ticker), `peer` (candidates of the child) and `sync` (`ProcessBlock`). Per link to
the parent: messages on their way, `last` (`lastMineBlockNonce`) and `result`
(`lastMineAckResult`).

`Begin` takes `chainLock`; `StoreBlock`, `ConnectBlock`, `SetTip` (or
`SetTipIndexBehind`) are the three writes of a commit in the code's order; the
lock is released for the notification, and `FinishBlockAcceptance` follows.
`WriteFails` can strike at each of them. A block that is stored but not canonical
is taken up again by `recoverablePOSNode`. `generatePOSBlock`, `ApprovePOSBlock`,
`RelayCandidate`, `KnownCandidate` and `RejectCandidate` are the producer and
`handlePOSCandidate`; `HandleMineAck`, `MineAckReceived` and `MineAckTimeout` the
two halves of `waitForMineAck`; `ServeBlock` is `CanServeBlock` with
`pushBlockMsg`; `Restart` is a crash with `initChainState`.

Abstractions: the three nodes are the path of the scheduled slot, so each may
produce; validity and timing of a candidate are a free choice to reject; only
signed bytes are stored, and only the Bootstrap signs; raw bytes without an index
row are as good as nothing, because they are stored once more; a nonce is used
again only when nothing refers to it, which stands for random nonces; a woken
caller reads its result before the connection is replaced; `served` only grows,
because a published block cannot be recalled. `POSV2Height` is set only by the
`rpctest` configuration so far; the model starts at activation. The chain before
it, reorganisation and the administrator's rollback (`InvalidateBlock`) are in
`BlockChain`, where approval itself is left out.

### 2.5 Chain, UTXO cache and transaction pool

The tree of blocks, what their transactions spend and which funding utxo of
Bitcoin an anchor locks are constants (`BlockTree`). `Ledger` is the reference the
code is compared with: unspent outputs, anchors and validity of a chain, computed
from the chain alone, without caches, journals or statuses.

`index` holds the statuses of known blocks, `tip` the best chain, `cache` the
cached UTXO entries, `orphans` and `oldest` the orphan pool; `db` is the database:
block bytes, index rows, best state, UTXO set, consistency marker, spend journal
and anchor records. `call` is what each of the two callers is doing and `owner`
who holds `chainLock`. A step is one database transaction with the memory changes
around it. A call goes through `StoreBlock`, `AddNode`, `ExtendKnownValid`,
`ExtendChecked`, `KeepSideChain` or `SwitchBranch`; then, block by block,
`PrepareDisconnect`, `disconnectBlock` or `DisconnectFails`, `PrepareConnect`,
`connectBlock`, `ConnectFails` or, when the block is the tip but no notification goes
out, `ConnectUnannounced`; the notification with the lock released, `Relock`; then
`Reorganized`, `FinishAcceptance` and the orphans (`NextOrphan`). The administrator's
calls are `InvalidateSide`, `InvalidateBest` with `ChooseBestTip`, and
`ReconsiderBlock`. `CrashAndRestart` is `initChainState` with the replay of
`InitConsistentState`. A crash that loses the latest transactions leaves what a
crash right after the last kept one leaves, so that a crash keeps them all;
`Ffldb` shows that the database loses only whole transactions, latest first.

`ChainNode` adds the pool. `handleBlockchainNotification` takes one transaction of
the block at a time in the goroutine that changed the chain, while
`SendRawTransaction` may run at any moment and `handleTxMsg` between the sync
manager's calls. Where Go ranges over a map the operators of `TxPool` yield the
set of outcomes.

Abstractions: one output per transaction; work is height; a coinbase is written only
where something spends it (block `n2`); no pruning; `RejectReplacement` off; transactions pass the fee, script and standardness checks
and have one size; the rejected-transaction cache is left out; the node is current;
a pool operation is atomic at the moment it reads the chain. Every check of a block
other than its inputs and anchors is one predicate, `Sound`. Approval
(`checkPOSBlockLocked`) and the readiness of the asset index before an acceptance are
in `PosApproval`.

What the properties leave out is recorded in `torn`: the cache is not what the best
chain leaves, or what it holds has reached the database. It comes about in four ways:

- a block's commit fails after its transactions went into the cache
  (`chain.go:1058`; plan `PFailed`);
- the administrator's call moves the chain while a branch switch waits for its
  notification, and the switch then puts the next block's transactions into the cache
  before it notices (`chain.go:925`; `PRaces`);
- the transaction of a disconnect fails (`chain.go:825`, `DisconnectFails`; `PLost`);
- a flush fails: that of the sync manager, which logs the error and goes on
  (`netsync/manager.go:892`, `FlushFails`; `PLost`), or the one that follows `SetTip`
  (`chain.go:761`, `ConnectUnannounced`).

In the last two, and in a POS block's failed commit, `writeCache` has deleted some or
all of the entries it wrote (`utxocache.go:552`), and the database rolls the writes
back: `LoseEntries` takes any of them. Spent outputs are then unspent again to a
reader and new ones are gone, until a restart replays the chain from the marker.
`reorganizeChain` says that it "never leaves the utxo set in an inconsistent state for
block disconnects" (`chain.go:956`), which holds of the stored set and not, when the
transaction fails, of the cache. The next flush stores such a cache and moves the
marker past the difference, and the next block is checked against it: it may spend
an output that no block of its chain has. `UtxoMatchesTip` is
checked while the cache is right, `Recoverable` and `BestChainLegit` until a wrong one
is flushed or a block is committed on top of it; `PosFinal` is checked without any
such condition.
`BestChainLegit` says of every best chain that each block finds what it spends and
passes the other checks, and of one built block by block that no funding utxo is
locked twice. Blocks attached by one call of `reorganizeChain` are compared with the
records of the chain being left and not with each other, and two of them may lock
the same utxo (plan `PAnchors`); `Recoverable` leaves out the anchor records while
such a branch is known.
`PoolConsistent` has two parts. That the pool's maps of spent outpoints and funding
utxos are exactly those of its transactions, that no two of these conflict and that
the orphans stay within their limit (`PoolIndexed`) is checked without a condition.
That each input is unspent or in the pool, and that nothing in the pool is unspent on
the chain already, is checked while `torn` is "no" and the two
callers do not overlap: a connected notification handled after the disconnected one
of the same block removes transactions of a block that is no longer there. The
exceptions are collected in `untold`, transactions whose arrival on the chain or
departure from it the pool did not hear of or act upon:

- the coinbase of a disconnected block (`netsync/manager.go:1571` starts after it);
- a transaction of a disconnected block that comes back when its parent is missing. It
  is no error, so that what redeems it stays. The parent may be a contract Result, which
  the pool refuses (`contract_admission.go:44`; plan `PCoinbase`), or may conflict with
  a transaction submitted before the notification. What redeems a refused transaction
  itself does leave the pool, by `RemoveTransaction(tx, true)`;
- the transactions of a block that became the tip without a notification, because the
  asset index was not ready or the flush failed (`chain.go:752`; plan `PUntold`): they
  stay in the pool, with what conflicts with them.

`MostWork`
leaves out branches that share a funding utxo with another known branch.

Reading and checking this part shows some behaviour a maintainer may want to know,
none of which contradicts a statement in the repository:

- an anchor on both branches gets the better branch marked as failed, because
  `checkAnchorTxsUnique` compares with the records of the chain being left;
- for the same reason two blocks of a side branch that lock one funding utxo are
  attached together, and disconnecting the second removes the record of both;
- a block on the best chain can be valid and failed at once after a crash inside
  `InvalidateBlock`, since a restart only adds the valid status;
- `ReconsiderBlock` moves to whichever tip above the block it meets first;
- `processOrphans` stops at the first refused orphan, and `oldestOrphan` may name a
  block that left the pool, so that an eviction removes nothing;
- `DeleteNode` leaves the index row in the database, and a crash in a legacy
  commit leaves a stored block that nobody connects until the next one arrives;
- the replay after a crash records the tip as last flushed although the cache is
  not (`utxocache.go:751`); it puts off a flush at that tip, and is what
  `flushNeededAfterPrune`, not modelled, goes by;
- all anchors in the pool share the null outpoint as a spent input; a
  disconnected transaction whose inputs are missing is not reinserted, and its
  redeemers stay where they are; `view.commit` flips the modified flag instead of
  clearing it.

### 2.6 Database

`Ffldb` has the flat files as sequences of cells (`file` as the process sees them,
`disk` what was synced), the write cursor `wc`, leveldb `ldb`, the cache (`puts`,
`dels`), the one write transaction `tx` and one reader. `Update` begins with one of a
set of scripts; `writePendingAndCommit` is `DeleteFile`, `writeBlock` and then
`commitTx`, or `needsFlush` with `syncBlocks`, `commitTreaps`, `ClearCache` and
`commitDirect`. Every one of them may fail; `handleRollback` may fail at each of its
file operations. `ProcessDies` and `PowerFails` end in `openDB`, which scans the
files and reconciles them with the stored cursor; after a power failure any number
of unsynced cells are left with undefined contents. Leveldb commits durably or not
at all (external). Buckets are keys, and the limit on open files is left out.

`DurableStore` is what the other modules assume: transactions are whole, a crash
takes the store back to an earlier state but not behind a successful `Sync`, and
errors change nothing. `Implements` is the refinement; it and `Intact` are proved in
`FfldbProofs`.

`Intact` leaves out what the history variables `unsynced`, `gone`, `pruned` and `stranded`
record, and what a reader does not see. A full file is closed without a sync and
`syncBlocks` syncs only the file of the cursor (`blockio.go:452`), so a flush may
store rows whose bytes a power failure takes. Pruning deletes files before the
transaction that drops their rows is committed, and may overtake the stored cursor
(`db.go:1632`): a database opened then, after a crash or after a `Close` whose flush
failed, starts in a file that is not there. And a snapshot for a reader is taken from leveldb first and from
the cache after it (`dbcache.go:399`): a flush in between moves rows past the
reader, which sees a state that never was; `Intact` covers only the rows it does
see. Left out of the model is pruning of the write file: a file that a failed
rollback leaves behind makes `PruneBlocks` take the write file for an old one, and
what is then written through the open handle has no name.

## 3. What the runs check

States are distinct states.

| Run | Instance | Result |
|---|---|---|
| `topic_membership` | 3 accounts, room for 2, 5 key sequences; 752 states | the catalog always loads, membership is bounded, `JoinedSeq`/`LeftSeq` are exactly the key intervals, a pending request can always be committed, holders change only by a commit, a ban is for ever |
| `topic_service` | 2 accounts, 2 cores, 2 interchangeable keys; either 3 key sequences and a move, or 2 with a failed catalog write and a crash; 369,012 states | no key package is exposed before its commit; membership is that of `TopicMembership`; without failures one key per sequence, no recipient lost, no outsider reached |
| `topic_live` | 2 key sequences, one message, one move; 73,472 states | acknowledged publishes stay covered, messages reach only holders of their key, every key and every acknowledged message arrives |
| `topic_two_keys` | one core, one failed catalog write | **violation**: two keys for one KeySeq (finding 1) |
| `direct_message` | 2 cores; 1 message with 2 moves of the recipient, or 1 and a sender that leaves and returns, a deletion and an expiry; or 2 messages with an expiry, or 2 messages with a crash and an eviction; 424,875 states | an OK or a final record is true, `next_sender_msg_id` and the records agree, one message per SenderMsgID, a deleted entry does not come back |
| `direct_live` | 1 message; 2 moves and an eviction, or 1 move and a sender that leaves and returns; 65,559 states | every accepted message is delivered and its record becomes final |
| `mining_sequence` | 3 keys and the Bootstrap, 6 heights, 4 operations; 2.1 million states | all indexers compute the same slots, nobody is passed over, the walk of `CheckMiningAddr` agrees with the cursor, the reward reaches the producer, the hierarchy holds |
| `pos_approval` | the Bootstrap with two candidates at two heights, two crashes, a failed write and a lagging index; or Miner and Bootstrap competing for one height with a crash, a lag and a lost connection; 1,697,675 states | what is served is durable, the tip is durable, whoever is told success has a durable block, the nodes keep one ledger |
| `pos_live` | a Miner's candidate, one failed write anywhere; 100,276 states | every node reaches the approved block |
| `pos_ack_crossed` | Miner and Core send at once, nothing fails | **violation**: success for a rejected block (finding 2) |
| `chain_node` | 20 blocks and 12 transactions in 17 plans, see below; 749,164 states | the UTXO set read is that of the best chain, the database can be recovered after every write, only valid blocks reach the best chain, it has the most work, POS blocks on it are final, the maps of the pool agree with it and it could be mined |
| `ffldb` | 3 blocks over 3 files, one key, 5 kinds of transaction, up to 4 of them; flushes, failures, a reader, a crash or a power failure in 5 plans; 369,589 states | the database implements `DurableStore`; indexed blocks are readable and it opens again |

Some properties hold only while nothing of a named kind has happened, and say so:
`OneKeyPerSeq` and `KeysToHolders` while no catalog write failed and the host
stayed up; `KeysCovered` and `AckedCovered` while the host stayed up; `OneMessagePerSeq` while no core
crashed (a crash can take the counter back behind a message that was routed);
`Contiguous` while no record expired; `StoredOnce` while no core crashed and the
window forgot nothing; `WalkAgrees`, for past heights, while nobody left
(`CheckMiningAddr` walks the ring as it is now). `ToldIsDurable` is checked with one
outstanding call per link, which is what finding 2 is about. The conditions of the
chain's and the database's properties are explained in sections 2.5 and 2.6.

### Why the bounds are enough to be interesting

Two cores and two moves let a recipient leave and come back, so that
acknowledgements and envelopes of a former core are still about. Three key
sequences allow a member to join and be removed around a retry; the five of
`topic_membership` allow it to rejoin and be removed again. Two keys allow
rival commits for one sequence. Three keys in the ring allow a Core with two
Miners or two Cores, one with a Miner; six heights are more than a full
round of the four nodes, so that turns come again with changes in between. Two crashes allow a crash during the recovery from a
crash; two candidates at two heights allow a second approval to conflict with an
interrupted first.

The plans of `chain_node` each take a part of one tree of blocks: two branches that
spend the same output, the activation height on one of them with a sibling branch
above it, blocks that break a rule, a branch that locks the same funding utxo, a
block that spends what a block whose commit failed has left in the cache, and a block
with a coinbase that matures after two blocks, a contract Result and what spends it.
Six blocks in any order with two orphan places make every order of arrival,
orphan eviction and a branch switch of two blocks against three happen; one crash
falls between any two transactions; a full cache at any block puts the marker
anywhere on the chain. The administrator acts up to three times, between the sync
manager's calls or, in plan `PRaces`, during them. Four transactions around two
blocks fill the orphan pool, replace and double spend; in `PCoinbase` and `PUntold`
two of them spend what a block makes that then leaves the chain, or that was never
announced. One transaction of the database fails, at any point, in four plans. In
`ffldb` a file holds
three cells and the blocks have one or two, so blocks fit, fill and overflow a
file, and two failures let a failed rollback be followed by another failed write.

Combinations beyond a run's plans are not explored; the
theorems of section 5 do not depend on the bounds.

Deadlock is not checked in the topic, POS, chain and database runs: with the
bounds used up and everything delivered the system rests. The other runs check it.

## 4. Fairness

- `TopicService`: weak fairness of the catalog write, the retry loop, the handling
  of envelopes into mailboxes with room, acknowledgements and binding replication.
  `message_retry.go` sends every pending delivery again on every tick, so an
  envelope or acknowledgement that can be lost finitely often gets through.
  Membership operations, publishes and moves are never forced.
- `DirectMessage`: weak fairness of the retry loop, binding replication and a
  handler's last step; strong fairness of receiving an envelope, of the mailbox write
  and of the arrival of an OK, since each is repeated by the retry loop and each may
  be refused (binding not yet known, window busy, mailbox full) any finite number of
  times.
- `PosApproval`: weak fairness of goroutine steps, timeouts, the asset index,
  the generator's ticker, acknowledgements and serving; strong fairness of the
  restart of a node with a storage failure (an operator's duty), of `ProcessBlock`
  (netsync asks again for what it lacks), and of relaying and approving a candidate:
  the generator sends a candidate again until the tip moves, and the timing
  checks that turned it away pass in the end.

## 5. What is proved

### `TopicMembershipProofs`

For any finite set of accounts, any `MaxMembers` > 0 and any number of commits
(`TopicAssumption`, `MaxKeySeqAssumption`): `SnapshotAlwaysLoads`,
`MembersAlwaysBounded`, `KeyIntervalsHold`, `HoldersChangeOnlyByCommit`,
`BanIsForever`, `RequestsAlwaysCommittable`.

The properties are not inductive. `KeyIntervals` alone says nothing about the last
issued set, from which the next commit's intervals follow, and `validateTopicSnapshot`
alone does not keep the owner a member. `IInv` adds: the last issued set is the set
of key holders, only the owner has the owner role, a waiting account has no
`LeftSeq`, the counter is bounded. `RequestInv` handles the requests (one record
changes, the key holders do not), `CandidateFacts` and `CommitInv` the commit with its five kinds of change;
`RecountAgrees` shows that `MemberCount`, which the code adjusts, equals the
recount after any change.

### `TopicServiceProofs`

For any accounts, cores, keys, messages and bounds (`TopicAssumption`,
`ServiceAssumption`: the host is a core, bounds are natural numbers), the invariants of
the two topic runs and the refinement: `AlwaysNoFutureKey`, `AlwaysOneKeyPerSeq`,
`AlwaysKeysToHolders`, `AlwaysMessagesToHolders`, `AlwaysKeysCovered`, `AlwaysAckedCovered`
and `RefinesMembership`, the last with `topic` and `issued` as they are: a staged
commit is a stutter, the catalog write is the commit.

`IInv` has five parts, and each rests on those before it:

- `TopicInv`: the last issued set is the set of key holders;
- `StageInv`: at most one commit is staged and its checks are still true of the topic,
  because nothing else changes it under the lock; so the write is a legal commit;
- `PublishInv`: every delivery of a message, stored, flushed, scanned or routed, is a
  part of a publish whose recipients were given its key. Regrouping (`Resolve`) only
  splits recipients, which is what every step preserves (`Part`);
- `KeyInv`: every key package is one of a committed change or of the staged commit,
  and those of one sequence carry one key. This is where `Undisturbed` is needed: a
  rolled-back commit leaves packages in the scan that are neither (finding 1);
- `CoverInv`: an acknowledged delivery is in all its mailboxes, so that removing it
  uncovers nobody, and the staged commit covers its holders before it is written.

What the modules need of `TopicRules` are lemmas of their own: `TopicMembershipProofs`
shows that a candidate keeps the shape of a topic and that `MemberCount` keeps its
recount, `TopicServiceProofs` that the created topic, a request and a candidate keep
the shape.

### `DirectMessageProofs`

For any cores and messages and any number of moves, crashes, expiries and deletions
(`DirectAssumption`: the absent record and number are no records or numbers):
`OKAlwaysStored`, `FinalAlwaysAtTarget`, `AlwaysContiguous`, `AlwaysOneMessagePerSeq` and the
action property `AlwaysStoredOnce`. `IInv` says of the receiving cores that a handler
owns the pending entry of its window (`Reserved`), that what handlers, windows and
acknowledgements call stored was stored (`SaysStored`), and that the window remembers it
while it forgets nothing; of the sending core that final records, in memory and as
flushed, name a core that has the message, that both are numbered 0 to `next` - 1
while none expired, and that whatever was ever accepted has a number of its own below
`next` while it stayed up (`OneNumber`, which covers envelopes and scanned records whose
acceptance record has expired). The flushed copy is part of the invariant because a
crash brings it back.

### `PosApprovalProofs`

For any plans, numbers of candidates, heights, crashes, failures and nonces
(`PosAssumption`: three different nodes, bounds are natural numbers):

- `TypeCorrect`: types, and at most one goroutine of a node holds `chainLock`;
- `TipAlwaysDurable`: memory, database and disk of a node are never more than the
  block in progress apart, and in the code's order;
- `ServedAlwaysDurable`: "its approval witness cannot escape until canonical commit
  and sync succeed" (`blockchain/pos.go`), for every node and every crash;
- `ImplementsLedger`: refinement to `PosLedger`, the ledger being the best chain on
  the Bootstrap's disk;
- `ToldAlwaysDurable`: whoever is told success has a durable block, in every behaviour
  in which the Core node sends no candidates of its own. The condition is that of
  finding 2 and cannot be dropped: with it each link has one caller at a time.

`Inv` is `TypeOK`, `TipIsDurable` and `Following`: every block another node holds,
and every block ever served, is contained in the Bootstrap's tip. `Following` is
what makes `ServedIsDurable` inductive: a node other than the Bootstrap can
only commit what was served. Every step is the progress of one node while the
others keep their chain state, so each action is shown to be such an advance once,
and the three conjuncts are preserved by advances. `AckInv` adds, for
`ToldAlwaysDurable`, that whatever carries the nonce of a call that waits (the message,
the parent's handler, an answer of success) is about the block of that call, and that a
result a woken caller is about to read is its own.

### `MiningSequenceProofs`

For any number of keys, heights and operations (`SequenceAssumption`): `HierarchyHolds`,
`RewardAlwaysReachesProducer`, `TypeCorrect`, `SlotsAlwaysAgree`, `AlwaysRoundRobin` and
`WalkAlwaysAgrees`. `IInv` says that
the tree has three levels, live and in the snapshot, that the Bootstrap joined before
every block, so that some node is always eligible, and that the cursor is a member.
The last is what makes the rest inductive: `RemoveNode` steps the cursor back to a
node of the ring, which has to be another member.

`RingInv` says that there is a trace: for every block and every operation in it the
tree, the join heights and the cursor right after it, each following from the one
before (`Trace`), with the cursor at the start of each block on its recorded slot, and that
the indexer, live, replaying or in its snapshot, stands on it (`OnTrace`). A replay then
computes what was computed before. `RoundInv` follows the cursor: whoever has to mine
before a node has its next turn lies between the cursor and that node, going round the
ring (`Between`); joins and departures change the ring, and move the cursor, without
breaking that order. `WalkInv` says that, while nobody has left, the members of today
lead from each recorded slot to the next (`Walked`); `PrecedingFollowing` is the fact behind
it, that a step back undoes a step ahead. The walks of `CheckMiningAddr` are recursive
functions. Going back, the recorded slots satisfy the function's equation, and a least
disagreement shows that nothing else does; going ahead, its equation is that of the
live cursor.

### `FfldbProofs`

For any keys, values, blocks, scripts, files and plans (`FfldbAssumption`: the cursor
row, the block index and the callers' keys are apart): `Refinement`, that `Ffldb`
implements `DurableStore`, with `View(Current)` as the current and `View(ldb)` as the stable
state. `InvariantHolds` gives what the mapping needs: a transaction has or will have
an index row for exactly the blocks it stores, which it does not delete; the cursor
row is never removed; leveldb has all of the cache before it is emptied, and the
cache is empty when a transaction goes to leveldb directly. The last is why such a
transaction is not overwritten by older cached rows. Nothing about the contents of
files is needed for this.

`IntactHolds` is about them: `Intact` for any sizes of blocks and files. The induction
is `IntactInv`. Four positions lie in order: the cursor in leveldb, the one in the
cache, the one a failing write goes back to, and the write cursor. No rollback or
opening cuts before the position it goes back to, whichever of its steps fail, so
every row needs its block to lie before a position that nothing goes behind:
leveldb's rows before leveldb's cursor, the cached ones before the cached cursor, a
transaction's own before the write cursor (`Index`, `Writing`). Each of these positions
is covered by a file, unless that file was pruned (`Grounded`); so the scan at an
opening never ends before the stored cursor, and the opening succeeds. While no
flush has passed over unsynced bytes the same holds of what is on the disk, which is
what a power failure leaves (`OnDisk`). Rows only disappear from what a reader or
leveldb still holds when their file is pruned (`RowsIn`), which is why a reader with
an old snapshot can read them. `FfldbAssumption` adds for this that the constant for
a missing file is no contents of a file.

### `ChainRecordsProofs` and `ChainNodeProofs`

For any tree of blocks, any transactions in them and any number of blocks, failures,
flushes, reads, crashes and pool operations (`TreeAssumption`, `HeightAssumption`: parents lead
to the genesis block; `PlansAssumption`). `ChainNodeProofs` has `Finality`: without the
administrator's calls a tip at the activation height or above is only ever extended.
`FinalityInvariant` is the induction. What is being committed extends the tip, because
`PrepareConnect` checks it and nobody else moves the tip before `connectBlock`; what is
being detached is the tip; nothing is left to detach once the tip is at the
activation height, because `SwitchBranch` starts only below it and attaches after the
last detach; and the stored best block is the tip or, after a commit whose sync
failed, its child, in which case no call is under way until a restart.

`ChainRecordsProofs` has `RecordsStored`, the part of `Recoverable` that does not depend on what spends what,
for any tree and with the administrator's calls, also where they overlap the sync
manager's: unless a cache that a refused block, a failed commit or a failed flush
has left wrong has reached the database, the
consistency marker is on the stored best chain, the blocks of that chain and of every
index row are stored, and the spend journal has a row for exactly the blocks of that
chain. `RInv` is the induction:

- `Calls`: a call works on stored blocks (its own block, whose parent is stored before
  it is; what it has to attach; the accepted blocks whose orphans come next); the
  block it is about to detach is the tip, the one it is about to commit extends the
  tip, and in those two stages it holds `chainLock` (`CallersAssumption`: nobody is not
  a caller), so that the other call cannot move the tip in between;
- `Stock`: with a block its whole chain is stored;
- `Written`: the records themselves, and that the stored best block is the tip, or else
  its child, committed by a call whose sync failed (`Ahead`).

`Ahead` is what a failed sync needs. No flush happens then, because of
`posDurabilityErr`, but an administrator's call may still detach or connect blocks
in memory; either of them then writes the cache, whose
contents belong to another chain, and that is the case left out. The blocks that
`InvalidateBlock` detaches come from a recursive function (`Downward`); that it has a
value, and which, follows from a least prefix for which it had none.

`PoolIndexedHolds`, in `ChainNodeProofs`, is the part of `PoolConsistent` about the pool's own maps, for any
transactions, any chain and any overlap of the callers (`PoolAssumption`: finitely many
transactions, none of which is the null outpoint, and orphans are not disabled).
`Coherent` is the induction, over one pool: `outpoints` and `anchors` name the pool's
transactions and nothing else, no two of which share an input or a funding utxo, and
there are at most `MaxOrphanTxs` orphans. Each operation of the pool is shown to keep
it, whatever the chain answers: a removal with its redeemers, an acceptance because
what conflicts is removed first (`AcceptCoherent`), a new orphan because one is
evicted when the pool of orphans is full. `processOrphans` takes the orphans up in turns; every sequence of
turns keeps it by induction on the number of turns (`TurnsRun`). That a call's
notification carries transactions comes from `RInv`.

The deductions rest on the named `ASSUME`s, which TLC evaluates in the runs, and
on the library's theorems about finite sets and well-founded induction.

### Only model-checked

All liveness (`KeysArrive`, `MessagesArrive`, `Delivered`, `Resolved`, `ChainGrows`),
which this prover does not handle. `UtxoMatchesTip`, `Recoverable`, `BestChainLegit`,
`MostWork` and `PoolConsistent`: each compares what folds over the transactions of a
block leave in cache, view, journal and pool with a fold over the chain, an
induction over data for each operator folded, which the library's induction theorems
cannot be instantiated with; `Records`, of `Recoverable`, and `PoolIndexed`, of
`PoolConsistent`, are proved. `ToldIsDurable`
where the Core node sends candidates of its own is refuted (finding 2).

## 6. Findings

1. **Two keys for one key sequence** (`topic_two_keys`, `topic_retry.go:268`). A
   retry pass reads the packages of a staged commit; the catalog write fails and
   they are rolled back; another commit takes the same KeySeq. The pass then looks
   at its copy: the sequence is no longer in the future and the target is unchanged,
   so it is sent without a look whether it is still stored. The design document
   (`docs/message-management-design.md:1178`) rules out two TopicKeys for one KeySeq.
2. **Success read from another call's result** (`pos_ack_crossed`,
   `peer/peer.go:1269`). The waiter is woken by its own acknowledgement but reads the
   peer's last result, which a second call may have replaced meanwhile. A Core node
   that relays a Miner's candidate and sends its own can tell the Miner of a success
   that was not its block's; no node's chain is affected, as the proved theorems show.

A note on durability: a publish is answered with OK once `SavePending`'s transaction is
committed (`topic_manager.go:566`), and ffldb keeps it in its cache until the next flush,
so that a crash before it loses the deliveries. `AckedCovered` is therefore stated for
a host that stays up. Block acceptance, which has the same need, calls `Sync`.

## 7. Not modelled

- Script engine, contract runtimes (EVM and others) and cryptography: byte-level
  interpreters and computations without concurrency of their own, of which a small
  instance says nothing.
- RPC servers and clients, process control, the STP plugin (a binary outside the
  repository), the peer-to-peer server's address book: translation and I/O.
- Block and transaction validation other than inputs and anchors: predicates whose
  answer the models leave open (`Sound`, the free rejection of a candidate). Asset
  conservation is among them. Anchoring checks depend on answers of a Bitcoin node.
- The POS protocol before version 2, superseded at activation.
- Of the chain: failures of the writes of block bytes and index rows
  (`dbStoreBlock`, `flushToDB`), after which nothing of the call has happened yet; the
  way back of the asset index between the detached and the attached blocks of a
  reorganisation (`restoreAssetParentLocked`), which may end the call there; pruning
  with `flushNeededAfterPrune`, the memory accounting of the
  cache (a cache is full when the model says so), and the pool kept across restarts.
- Of block synchronisation: choice of the sync peer, headers-first download and the
  request maps. `PosApproval` assumes that a served block is at last fetched.
- DKVS store, synchronisation, fees, retention and sessions, and the contract
  framework: state machines of their own that the modules above do not need beyond
  what they assume of mailboxes and bindings. They are the next step.
- The index tables of names and assets, derived from blocks.

`PROJECT.json` gives the reason for each component.

## 8. Plan

In this order, each with its runs, then its proofs:

1. `DkvsStore`, `DkvsSync`, `DkvsSession`: versions, pruning, replication, attach and
   detach of a peer's session; then fees and retention. Refines the mailbox and
   binding assumptions of the message modules.
2. `NetSync`: choice of the sync peer and headers-first download, to discharge
   the fairness of `ProcessBlock`.
3. `ContractLifecycle`: deployment, invocation order, managed balances.
4. Asset conservation as an algorithm module checked against a reference definition.
5. Extensions: the sender's record of a publish in `TopicService`; a sender's stores
   at two cores in `DirectMessage`; the rate limiter's buckets; pruning in `BlockChain`.

Theorem still to prove: `UtxoMatchesTip`, from which the rest of `Recoverable` would
follow. `Downward` shows how an induction over a fold can be written out.
