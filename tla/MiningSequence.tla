---------------------------- MODULE MiningSequence ----------------------------
(***************************************************************************)
(* The mining sequence of the indexer: who has the slot at each height,    *)
(* while stakes and unstakes in the blocks add and remove Core nodes and   *)
(* Miners, and while an indexer restarts from a snapshot and replays.      *)
(*                                                                         *)
(* The chain is the list of membership operations of each block, the last  *)
(* one still open.  The indexer applies a block's operations one by one    *)
(* and then advances the cursor (syncBlock, under BaseIndexer.mutex).  A   *)
(* snapshot holds the membership, the height and the cursor as it was      *)
(* before it advanced; a restart loads the last one and replays.  Heights  *)
(* are those above the first checkpoint, where the order is enforced.      *)
(*                                                                         *)
(* A public key is a number, ordered as the keys are.  There is one        *)
(* Bootstrap node, 0, the parent of every Core; a Miner's parent is a Core.*)
(* Operations that the code refuses (a stake of a member, a second parent  *)
(* or role, an unstake of a Core that has Miners) change nothing.          *)
(***************************************************************************)
EXTENDS Integers, Sequences, FiniteSets

CONSTANTS
    N,            \* public keys other than the Bootstrap's are 1 .. N
    DefaultCore,  \* the Core node of a new database
    None,         \* not a member
    MaxHeight,    \* bound: heights explored
    MaxOps        \* bound: stakes and unstakes in the chain

ASSUME SequenceAssumption ==
    /\ N \in Nat /\ DefaultCore \in 1 .. N /\ None \notin 0 .. N
    /\ MaxHeight \in Nat /\ MaxOps \in Nat

Bootstrap == 0
Nodes == 0 .. N

VARIABLES
    chain,   \* chain[h]: membership operations of block h
    father,  \* parent of each member; the Bootstrap is its own
    join,    \* JoinHeight of each member
    cur,     \* currMiningNode
    height,  \* currHeight, the block being processed
    done,    \* how many of its operations are applied
    saved,   \* the snapshot in the database
    slots,   \* history: the slot first computed for each height
    due,     \* history: nodes that must mine before each node mines again
    used     \* stakes and unstakes so far

vars == <<chain, father, join, cur, height, done, saved, slots, due, used>>

-----------------------------------------------------------------------------
(* The Father of every node, None where it is no member.                   *)

Parents == [Nodes -> Nodes \cup {None}]

(* The ring.  rebuildSequence lists the Bootstrap, then every Core followed *)
(* by its Miners, all by public key; Rank is a node's place in that order.  *)

Members == {n \in Nodes : father[n] # None}

Rank(f, n) == IF n = Bootstrap THEN 0 ELSE IF f[n] = Bootstrap THEN n * (N + 1) ELSE f[n] * (N + 1) + n

First(f, S) == CHOOSE n \in S : \A o \in S : Rank(f, n) <= Rank(f, o)
Last(f, S) == CHOOSE n \in S : \A o \in S : Rank(f, o) <= Rank(f, n)

(* The first node of S after n, around the ring to n itself.                *)
Following(f, n, S) ==
    LET later == {o \in S : Rank(f, o) > Rank(f, n)}
    IN  IF later # {} THEN First(f, later) ELSE First(f, S)

Preceding(f, n, S) ==
    LET earlier == {o \in S : Rank(f, o) < Rank(f, n)}
    IN  IF earlier # {} THEN Last(f, earlier) ELSE Last(f, S)

(* A node that joined in block h does not take the slot after h.            *)
Eligible(f, j, h) == {n \in Nodes : f[n] # None /\ j[n] < h}

nextEligibleNode(f, j, n, h) == Following(f, n, Eligible(f, j, h))

-----------------------------------------------------------------------------
(* Membership operations of a block.                                        *)

Children(n) == {o \in Nodes \ {Bootstrap} : father[o] = n}

(* addMinerNode: a Core under the Bootstrap or a Miner under a Core; a      *)
(* member keeps its parent, its role and its JoinHeight.                    *)
MayAdd(op) ==
    /\ father[op.node] = None
    /\ op.parent = Bootstrap \/ father[op.parent] = Bootstrap

AddNode(op) ==
    /\ father' = [father EXCEPT ![op.node] = op.parent]
    /\ join' = [join EXCEPT ![op.node] = height]
    /\ UNCHANGED cur

(* Seeded fault: a Core leaves although Miners are connected to it.         *)
MayRemoveWithChildren(op) ==
    /\ op.node # Bootstrap
    /\ father[op.node] # None

(* removeMinerNode: not the Bootstrap and not a node with children.         *)
MayRemove(op) ==
    /\ op.node # Bootstrap
    /\ father[op.node] # None
    /\ Children(op.node) = {}

(* Seeded fault: the cursor of a node that leaves moves on at once.         *)
RemoveNodeToNext(op) ==
    /\ father' = [father EXCEPT ![op.node] = None]
    /\ cur' = IF cur = op.node THEN Following(father, cur, Members) ELSE cur
    /\ UNCHANGED join

(* When the current node leaves, the cursor steps back to its predecessor.  *)
RemoveNode(op) ==
    /\ father' = [father EXCEPT ![op.node] = None]
    /\ cur' = IF cur = op.node THEN Preceding(father, cur, Members) ELSE cur
    /\ UNCHANGED join

Apply(op) ==
    \/ op.kind = "STAKE" /\ MayAdd(op) /\ AddNode(op)
    \/ op.kind = "UNSTAKE" /\ MayRemove(op) /\ RemoveNode(op)

Ops == [kind: {"STAKE"}, node: 1 .. N, parent: 0 .. N] \cup [kind: {"UNSTAKE"}, node: 1 .. N]

Tip == Len(chain)

(* A transaction of the open block; the indexer follows the tip.            *)
NewOp(op) ==
    /\ used < MaxOps
    /\ height = Tip /\ done = Len(chain[Tip])
    /\ Apply(op)
    /\ chain' = [chain EXCEPT ![Tip] = Append(@, op)]
    /\ done' = done + 1
    /\ used' = used + 1
    /\ due' = IF op.kind = "STAKE" THEN due
              ELSE [n \in Nodes |-> IF n = op.node THEN {} ELSE due[n] \ {op.node}]
    /\ UNCHANGED <<height, saved, slots>>

(* After a restart the same operations are applied again.                   *)
ReplayOp ==
    /\ done < Len(chain[height])
    /\ Apply(chain[height][done + 1])
    /\ done' = done + 1
    /\ UNCHANGED <<chain, height, saved, slots, due, used>>

-----------------------------------------------------------------------------
(* The end of a block.                                                      *)

Snapshot == [father |-> father, join |-> join, height |-> height, cursor |-> cur]

MoveMiningAddr ==
    /\ cur' = nextEligibleNode(father, join, cur, height)
    /\ height' = height + 1
    /\ done' = 0

(* syncBlock: note the cursor, advance it, and now and then write the       *)
(* snapshot.                                                                *)
EndBlock ==
    /\ done = Len(chain[height])
    /\ height < MaxHeight
    /\ MoveMiningAddr
    /\ saved' \in {saved, Snapshot}
    /\ IF height = Tip
       THEN /\ chain' = Append(chain, <<>>)
            /\ slots' = Append(slots, cur')
            /\ due' = LET s == slots[height] IN
                 [n \in Nodes |-> IF n = s /\ s \in Eligible(father, join, height)
                                  THEN Eligible(father, join, height) \ {s}
                                  ELSE due[n] \ {s}]
       ELSE UNCHANGED <<chain, slots, due>>
    /\ UNCHANGED <<father, join, used>>

(* Seeded fault: a restart takes the saved cursor for the current slot.     *)
RestartAtCursor ==
    /\ father' = saved.father
    /\ join' = saved.join
    /\ height' = saved.height + 1
    /\ done' = 0
    /\ cur' = saved.cursor
    /\ UNCHANGED <<chain, saved, slots, due, used>>

(* MiningSequenceMgr.Init: rebuild from the snapshot and advance; on an     *)
(* empty database the sequence starts at its first node.                    *)
Restart ==
    /\ father' = saved.father
    /\ join' = saved.join
    /\ height' = saved.height + 1
    /\ done' = 0
    /\ cur' = IF saved.height = 0 THEN Bootstrap
              ELSE nextEligibleNode(saved.father, saved.join, saved.cursor, saved.height)
    /\ UNCHANGED <<chain, saved, slots, due, used>>

-----------------------------------------------------------------------------

Init ==
    /\ chain = << <<>> >>
    /\ father = [n \in Nodes |-> IF n \in {Bootstrap, DefaultCore} THEN Bootstrap ELSE None]
    /\ join = [n \in Nodes |-> 0]
    /\ cur = Bootstrap
    /\ height = 1
    /\ done = 0
    /\ saved = [father |-> father, join |-> join, height |-> 0, cursor |-> Bootstrap]
    /\ slots = <<Bootstrap>>
    /\ due = [n \in Nodes |-> {}]
    /\ used = 0

Next ==
    \/ \E op \in Ops : NewOp(op)
    \/ ReplayOp
    \/ EndBlock
    \/ Restart

Spec == Init /\ [][Next]_vars

-----------------------------------------------------------------------------
(* Other uses of the ring.                                                  *)

(* Seeded fault: a node counts from the height it joined at.                *)
SlotAtHeightEarly(h) ==
    LET back[i \in h .. height] ==
          IF i = height THEN cur ELSE Preceding(father, back[i + 1], {n \in Members : join[n] <= i})
        ahead[i \in height .. h] ==
          IF i = height THEN cur ELSE Following(father, ahead[i - 1], {n \in Members : join[n] < i})
    IN  IF h < height THEN back[h] ELSE ahead[h]

(* CheckMiningAddr walks the ring from the current slot to another height,  *)
(* passing over nodes that joined at or after the height it is at.          *)
SlotAtHeight(h) ==
    LET back[i \in h .. height] ==
          IF i = height THEN cur ELSE Preceding(father, back[i + 1], {n \in Members : join[n] < i})
        ahead[i \in height .. h] ==
          IF i = height THEN cur ELSE Following(father, ahead[i - 1], {n \in Members : join[n] < i})
    IN  IF h < height THEN back[h] ELSE ahead[h]

(* It accepts the node it arrives at, its parent and its grandparent.       *)
CheckMiningAddr(h, n) ==
    LET s == SlotAtHeight(h) IN n \in {s, father[s], father[father[s]]}

(* The block of a slot may come from its node, the parent or the            *)
(* grandparent.                                                             *)
Producers == {cur, father[cur], father[father[cur]]}

(* Seeded fault: the reward always goes to the slot's own channel.          *)
POSRewardOwnChannel(p) == cur

(* POSReward: the node whose mining address is paid.  That address is the   *)
(* channel of the node with its parent; a Bootstrap that stands in for a    *)
(* Miner is paid into the channel of the Core between them.                 *)
POSReward(p) ==
    IF father[cur] # Bootstrap /\ p = father[father[cur]] THEN father[cur] ELSE cur

-----------------------------------------------------------------------------
(* Properties.                                                              *)

AtBlockStart == done = 0 /\ (height = Tip => chain[Tip] = <<>>)

(* The variables have their types; the cursor, and that of the snapshot,    *)
(* is always a member, and a restart finds the block after the snapshot.    *)
TypeOK ==
    /\ chain \in Seq(Seq(Ops)) /\ height \in 1 .. Tip /\ done \in Nat
    /\ father \in Parents /\ join \in [Nodes -> Nat] /\ cur \in Members
    /\ saved \in [father: Parents, join: [Nodes -> Nat], height: 0 .. Tip - 1, cursor: Nodes]
    /\ saved.father[saved.cursor] # None

(* The hierarchy has three levels, and every parent is a member: a Core's   *)
(* parent is the Bootstrap, a Miner's is a Core, also when stakes and       *)
(* unstakes of parent and child meet in one block.                          *)
Hierarchy ==
    \A n \in Members : father[n] \in Members /\ father[father[n]] = Bootstrap

(* Whatever snapshot an indexer restarts from, it computes for every height *)
(* the slot that was computed when the block first came: Init and the live  *)
(* cursor agree.                                                            *)
SlotsAgree == done = 0 => cur = slots[height]

(* Nobody is passed over: a node's turn does not come again before every    *)
(* other node that was eligible at its last turn, and has been a member     *)
(* since, has had one, although nodes join and leave in between and the     *)
(* current node itself may leave.                                           *)
RoundRobin == (height = Tip /\ AtBlockStart) => due[cur] = {}

(* Whoever produces the block of a slot, the Miner, the Core or the         *)
(* Bootstrap, is a party of the channel the reward is paid into.            *)
RewardReachesProducer == \A p \in Producers : p \in {POSReward(p), father[POSReward(p)]}

(* Slots as the live cursor will compute them if nobody joins or leaves.    *)
Ahead(h) ==
    LET next[i \in height .. h] == IF i = height THEN cur ELSE nextEligibleNode(father, join, next[i - 1], i - 1)
    IN  next[h]

(* The walk of CheckMiningAddr finds the slots of the live cursor: for an   *)
(* earlier height it accepts the node that had the slot, as long as nobody  *)
(* has left, and for a later one the node that is to have it.               *)
WalkAgrees ==
    AtBlockStart =>
      /\ (\A h \in 1 .. Tip : \A i \in DOMAIN chain[h] : chain[h][i].kind = "STAKE") =>
           \A h \in 1 .. height - 1 : CheckMiningAddr(h, slots[h])
      /\ \A h \in height .. MaxHeight : CheckMiningAddr(h, Ahead(h))
=============================================================================
