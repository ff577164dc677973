------------------------ MODULE MiningSequenceProofs ------------------------
(***************************************************************************)
(* The mining sequence for any number of public keys, any number of        *)
(* heights and of stakes: the hierarchy holds, the cursor is always a      *)
(* member, whoever produces a block is paid, a restart finds the slots of  *)
(* the live cursor, slots go round, and CheckMiningAddr walks to the right *)
(* one.                                                                    *)
(***************************************************************************)
EXTENDS MiningSequence, WellFoundedInduction, TLAPS

(* A set of natural numbers has a smallest and, below a bound, a largest.  *)
LEMMA Smallest ==
    ASSUME NEW T \in SUBSET Nat, T # {}
    PROVE  \E m \in T : \A y \in T : m <= y
<1> DEFINE R == {ss \in Nat \X Nat : ss[1] < ss[2]}
<1>1. IsWellFoundedOn(R, Nat)
  BY Zenon, NatLessThanWellFounded DEF OpToRel
<1> HIDE DEF R
<1>2. PICK m \in T : \A y \in T : ~(<<y, m>> \in R)
  BY Zenon, <1>1, WFMin
<1>3. \A y \in Nat : y < m => <<y, m>> \in R
  BY Zenon DEF R
<1>4. \A y \in T : m <= y
  <2> TAKE y \in T
  <2>1. y \in Nat /\ m \in Nat
    BY Zenon, <1>2
  <2>2. ~(y < m)
    BY Zenon, <1>2, <1>3, <2>1
  <2> QED
    BY <2>1, <2>2
<1> QED
  BY Zenon, <1>4

LEMMA Largest ==
    ASSUME NEW T \in SUBSET Nat, T # {}, NEW B \in Nat, \A y \in T : y <= B
    PROVE  \E m \in T : \A y \in T : y <= m
<1> DEFINE U == {B - y : y \in T}
<1>1. U \in SUBSET Nat /\ U # {}
  <2>1. \A y \in T : B - y \in Nat
    OBVIOUS
  <2> QED
    BY Zenon, <2>1
<1>2. PICK u \in U : \A y \in U : u <= y
  BY Zenon, <1>1, Smallest
<1>3. PICK m \in T : u = B - m
  BY Zenon, <1>2
<1>4. \A y \in T : y <= m
  <2> TAKE y \in T
  <2>1. B - y \in U
    BY Zenon
  <2>2. B - m <= B - y
    BY Zenon, <1>2, <1>3, <2>1
  <2> QED
    BY <2>2
<1> QED
  BY Zenon, <1>4

LEMMA RankType ==
    ASSUME NEW f \in Parents, NEW n \in Nodes, f[n] # None
    PROVE  Rank(f, n) \in Nat /\ Rank(f, n) <= N * (N + 1) + N
<1>1. N \in Nat /\ n \in 0..N /\ f[n] \in 0..N
  BY Zenon, SequenceAssumption DEF Parents, Nodes
<1>2. \A a \in 0..N : a * (N + 1) \in Nat /\ a * (N + 1) <= N * (N + 1)
  <2> TAKE a \in 0..N
  <2>1. a * (N + 1) \in Nat /\ (N - a) * (N + 1) \in Nat
    BY <1>1
  <2>2. (N - a) * (N + 1) = N * (N + 1) - a * (N + 1)
    BY <1>1
  <2> QED
    BY <1>1, <2>1, <2>2
<1>3. N * (N + 1) \in Nat
  BY <1>1
<1>4. n * (N + 1) \in Nat /\ n * (N + 1) <= N * (N + 1) /\ f[n] * (N + 1) \in Nat /\ f[n] * (N + 1) <= N * (N + 1)
  BY Zenon, <1>1, <1>2
<1> DEFINE a == n * (N + 1)
           b == f[n] * (N + 1)
           c == N * (N + 1)
<1>5. a \in Nat /\ b \in Nat /\ c \in Nat /\ a <= c /\ b <= c
  BY Zenon, <1>3, <1>4
<1>6. Rank(f, n) \in {0, a, b + n}
  BY Zenon DEF Rank
<1> HIDE DEF a, b, c
<1>7. Rank(f, n) \in Nat /\ Rank(f, n) <= c + N
  BY <1>1, <1>5, <1>6
<1> QED
  BY Zenon, <1>7 DEF c

(* First, Last and with them Following and Preceding pick a node of S.     *)
LEMMA Extremes ==
    ASSUME NEW f \in Parents, NEW S \in SUBSET Nodes, S # {}, \A n \in S : f[n] # None
    PROVE  First(f, S) \in S /\ Last(f, S) \in S
<1> DEFINE T == {Rank(f, n) : n \in S}
<1>1. T \in SUBSET Nat /\ T # {} /\ \A y \in T : y <= N * (N + 1) + N
  BY Zenon, RankType
<1>2. N * (N + 1) + N \in Nat
  BY SequenceAssumption
<1> HIDE DEF T
<1>3. \E m \in T : \A y \in T : m <= y
  BY Zenon, <1>1, Smallest
<1>4. \E m \in T : \A y \in T : y <= m
  BY Zenon, <1>1, <1>2, Largest
<1>5. \E n \in S : \A o \in S : Rank(f, n) <= Rank(f, o)
  BY Zenon, <1>3 DEF T
<1>6. \E n \in S : \A o \in S : Rank(f, o) <= Rank(f, n)
  BY Zenon, <1>4 DEF T
<1> QED
  BY Zenon, <1>5, <1>6 DEF First, Last

LEMMA FollowingIn ==
    ASSUME NEW f \in Parents, NEW S \in SUBSET Nodes, S # {}, \A n \in S : f[n] # None, NEW n
    PROVE  Following(f, n, S) \in S
<1> DEFINE later == {o \in S : Rank(f, o) > Rank(f, n)}
<1>1. later # {} => First(f, later) \in later
  BY Zenon, Extremes
<1> QED
  BY Zenon, <1>1, Extremes DEF Following

(* The node before one that is not the Bootstrap is another one.           *)
LEMMA PrecedingIn ==
    ASSUME NEW f \in Parents, f[Bootstrap] = Bootstrap, NEW n \in Nodes \ {Bootstrap}, f[n] # None
    PROVE  Preceding(f, n, {o \in Nodes : f[o] # None}) \in {o \in Nodes : f[o] # None} \ {n}
<1> DEFINE S == {o \in Nodes : f[o] # None}
           earlier == {o \in S : Rank(f, o) < Rank(f, n)}
<1>1. N \in Nat /\ n \in 1..N /\ f[n] \in 0..N /\ None \notin 0..N
  BY SequenceAssumption DEF Nodes, Bootstrap, Parents
<1>2. n * (N + 1) \in Nat \ {0} /\ f[n] * (N + 1) \in Nat
  BY <1>1
<1>3. Rank(f, n) > 0
  BY <1>1, <1>2 DEF Rank, Bootstrap
<1>4. Bootstrap \in earlier
  BY <1>1, <1>3 DEF Rank, Bootstrap, Nodes
<1>5. Last(f, earlier) \in earlier
  BY Zenon, <1>4, Extremes
<1>6. Rank(f, n) \in Nat
  BY Zenon, RankType
<1>7. n \notin earlier
  BY <1>6
<1> QED
  BY Zenon, <1>4, <1>5, <1>7 DEF Preceding

-----------------------------------------------------------------------------
(* The hierarchy of a table of parents, for the one in use and the saved   *)
(* one; the Bootstrap joined before every block, so that some node is      *)
(* always eligible.                                                        *)
Tree(f) ==
    /\ f[Bootstrap] = Bootstrap
    /\ \A n \in Nodes : f[n] # None => f[n] \in Nodes /\ f[f[n]] = Bootstrap

IInv ==
    /\ TypeOK
    /\ Tree(father) /\ Tree(saved.father)
    /\ join[Bootstrap] = 0 /\ saved.join[Bootstrap] = 0

LEMMA NextIn ==
    ASSUME NEW f \in Parents, Tree(f), NEW j, j[Bootstrap] = 0, NEW n, NEW h \in Nat \ {0}
    PROVE  nextEligibleNode(f, j, n, h) \in {o \in Nodes : f[o] # None}
<1>1. Bootstrap \in Eligible(f, j, h)
  BY SequenceAssumption DEF Eligible, Tree, Nodes, Bootstrap
<1>2. Eligible(f, j, h) \in SUBSET Nodes /\ \A o \in Eligible(f, j, h) : f[o] # None
  BY Zenon DEF Eligible
<1>3. Following(f, n, Eligible(f, j, h)) \in Eligible(f, j, h)
  BY Zenon, <1>1, <1>2, FollowingIn
<1> QED
  BY Zenon, <1>2, <1>3 DEF nextEligibleNode

(* An operation of a block keeps the hierarchy and the cursor in it.       *)
LEMMA ApplyKeeps ==
    ASSUME IInv, NEW op \in Ops, Apply(op)
    PROVE  /\ father' \in Parents /\ Tree(father)' /\ cur' \in Members'
           /\ join' \in [Nodes -> Nat] /\ join'[Bootstrap] = 0
<1>0. /\ father \in Parents /\ cur \in Nodes /\ father[cur] # None /\ height \in Nat
      /\ join \in [Nodes -> Nat] /\ join[Bootstrap] = 0 /\ Tree(father)
  BY DEF IInv, TypeOK, Members, Tip
<1>1. op.node \in Nodes \ {Bootstrap} /\ op.node \in Nodes /\ Bootstrap \in Nodes /\ None \notin Nodes
  BY SequenceAssumption DEF Ops, Nodes, Bootstrap
<1>2. CASE op.kind = "STAKE" /\ MayAdd(op) /\ AddNode(op)
  <2>1. op.parent \in Nodes
    BY Zenon, <1>2 DEF Ops, Nodes
  <2>2. father' = [father EXCEPT ![op.node] = op.parent] /\ cur' = cur
    BY Zenon, <1>2 DEF AddNode
  <2>3. father[op.node] = None /\ op.parent # op.node /\ father[op.parent] = Bootstrap
    BY Zenon, <1>0, <1>1, <1>2 DEF MayAdd, Tree
  <2>4. father' \in Parents
    BY Zenon, <1>0, <1>1, <2>1, <2>2 DEF Parents
  <2>5. \A n \in Nodes : n # op.node => father'[n] = father[n]
    BY Zenon, <1>0, <2>2 DEF Parents
  <2>6. father'[op.node] = op.parent
    BY Zenon, <1>0, <1>1, <2>2 DEF Parents
  <2>7. \A n \in Nodes : father'[n] # None => father'[n] \in Nodes /\ father'[father'[n]] = Bootstrap
    <3> SUFFICES ASSUME NEW n \in Nodes, father'[n] # None
                 PROVE  father'[n] \in Nodes /\ father'[father'[n]] = Bootstrap
      BY Zenon
    <3>1. CASE n = op.node
      BY Zenon, <3>1, <2>1, <2>3, <2>5, <2>6
    <3>2. CASE n # op.node
      <4>1. father'[n] = father[n] /\ father[n] \in Nodes /\ father[father[n]] = Bootstrap
        BY Zenon, <1>0, <2>5, <3>2 DEF Tree
      <4>2. father[n] # op.node
        BY Zenon, <1>1, <2>3, <4>1
      <4> QED
        BY Zenon, <2>5, <4>1, <4>2
    <3> QED
      BY Zenon, <3>1, <3>2
  <2>8. father'[Bootstrap] = Bootstrap
    BY Zenon, <1>0, <1>1, <2>5 DEF Tree
  <2>9. cur' \in Members'
    BY Zenon, <1>0, <1>1, <2>2, <2>3, <2>5 DEF Members
  <2>10. join' \in [Nodes -> Nat] /\ join'[Bootstrap] = 0
    BY Zenon, <1>0, <1>1, <1>2 DEF AddNode
  <2> QED
    BY Zenon, <2>4, <2>7, <2>8, <2>9, <2>10 DEF Tree
<1>3. CASE op.kind = "UNSTAKE" /\ MayRemove(op) /\ RemoveNode(op)
  <2>1. father' = [father EXCEPT ![op.node] = None] /\ join' = join
    BY Zenon, <1>3 DEF RemoveNode
  <2>2. father' \in Parents
    BY Zenon, <1>0, <1>1, <2>1 DEF Parents
  <2>3. father'[op.node] = None /\ \A n \in Nodes : n # op.node => father'[n] = father[n]
    BY Zenon, <1>0, <1>1, <2>1 DEF Parents
  <2>4. \A n \in Nodes : father'[n] # None => father'[n] \in Nodes /\ father'[father'[n]] = Bootstrap
    <3> SUFFICES ASSUME NEW n \in Nodes, father'[n] # None
                 PROVE  father'[n] \in Nodes /\ father'[father'[n]] = Bootstrap
      BY Zenon
    <3>1. n # op.node /\ father'[n] = father[n] /\ father[n] \in Nodes /\ father[father[n]] = Bootstrap
      BY Zenon, <1>0, <2>3 DEF Tree
    <3>2. father[n] # op.node
      BY Zenon, <1>0, <1>1, <1>3, <3>1 DEF MayRemove, Children, Tree
    <3> QED
      BY Zenon, <2>3, <3>1, <3>2
  <2>5. father'[Bootstrap] = Bootstrap
    BY Zenon, <1>0, <1>1, <2>3 DEF Tree
  <2>6. cur' \in Nodes /\ father[cur'] # None /\ cur' # op.node
    <3>1. CASE cur = op.node
      <4>1. Preceding(father, cur, Members) \in Members \ {cur}
        BY Zenon, <1>0, <1>1, <3>1, PrecedingIn DEF Members, Tree
      <4> QED
        BY Zenon, <1>3, <3>1, <4>1 DEF RemoveNode, Members
    <3>2. CASE cur # op.node
      BY Zenon, <1>0, <1>3, <3>2 DEF RemoveNode
    <3> QED
      BY Zenon, <3>1, <3>2
  <2> QED
    BY Zenon, <1>0, <2>1, <2>2, <2>3, <2>4, <2>5, <2>6 DEF Tree, Members
<1> QED
  BY Zenon, <1>2, <1>3 DEF Apply

-----------------------------------------------------------------------------
LEMMA NewOpKeeps ==
    ASSUME IInv, NEW op \in Ops, NewOp(op)
    PROVE  IInv'
<1>1. /\ father' \in Parents /\ Tree(father)' /\ cur' \in Members'
      /\ join' \in [Nodes -> Nat] /\ join'[Bootstrap] = 0
  BY Zenon, ApplyKeeps DEF NewOp
<1>2. chain' \in Seq(Seq(Ops)) /\ Len(chain') = Len(chain)
  <2>1. chain \in Seq(Seq(Ops)) /\ Tip \in 1 .. Len(chain)
    BY DEF IInv, TypeOK, Tip
  <2>2. Append(chain[Tip], op) \in Seq(Ops)
    BY <2>1
  <2> QED
    BY <2>1, <2>2 DEF NewOp
<1> QED
  BY SMTT(60), <1>1, <1>2 DEF NewOp, IInv, TypeOK, Tip

LEMMA ReplayOpKeeps ==
    ASSUME IInv, ReplayOp
    PROVE  IInv'
<1>1. chain[height][done + 1] \in Ops
  <2>1. chain[height] \in Seq(Ops) /\ done \in Nat
    BY DEF IInv, TypeOK, Tip
  <2>2. done + 1 \in 1 .. Len(chain[height])
    BY <2>1 DEF ReplayOp
  <2> QED
    BY <2>1, <2>2
<1>2. /\ father' \in Parents /\ Tree(father)' /\ cur' \in Members'
      /\ join' \in [Nodes -> Nat] /\ join'[Bootstrap] = 0
  BY Zenon, <1>1, ApplyKeeps DEF ReplayOp
<1>3. /\ height \in 1 .. Tip /\ done \in Nat /\ UNCHANGED <<chain, height, saved>> /\ done' = done + 1
  BY Zenon DEF ReplayOp, IInv, TypeOK
<1>4. done' \in Nat /\ Tip' = Tip
  BY <1>3 DEF Tip
<1> QED
  BY Zenon, <1>2, <1>3, <1>4 DEF IInv, TypeOK

LEMMA EndBlockKeeps ==
    ASSUME IInv, EndBlock
    PROVE  IInv'
<1>0. /\ chain \in Seq(Seq(Ops)) /\ height \in 1 .. Len(chain) /\ father \in Parents
      /\ Tree(father) /\ join[Bootstrap] = 0
  BY Zenon DEF IInv, TypeOK, Tip
<1>1. cur' \in Members /\ Members' = Members /\ father' = father /\ join' = join
  <2>1. father' = father /\ join' = join /\ cur' = nextEligibleNode(father, join, cur, height)
    BY Zenon DEF EndBlock, MoveMiningAddr
  <2>2. height \in Nat \ {0}
    BY <1>0
  <2>3. nextEligibleNode(father, join, cur, height) \in {o \in Nodes : father[o] # None}
    BY Zenon, <1>0, <2>2, NextIn
  <2> QED
    BY Zenon, <2>1, <2>3 DEF Members
<1>2. chain' \in Seq(Seq(Ops)) /\ height' \in 1 .. Len(chain') /\ done' = 0 /\ Len(chain') >= Len(chain)
  <2>1. height' = height + 1 /\ done' = 0
    BY Zenon DEF EndBlock, MoveMiningAddr
  <2>2. CASE height = Tip
    <3>1. chain' = Append(chain, <<>>) /\ <<>> \in Seq(Ops)
      BY <2>2 DEF EndBlock
    <3> QED
      BY <1>0, <2>1, <2>2, <3>1 DEF Tip
  <2>3. CASE height # Tip
    BY <1>0, <2>1, <2>3 DEF Tip, EndBlock
  <2> QED
    BY Zenon, <2>2, <2>3
<1>3. saved' \in [father: Parents, join: [Nodes -> Nat], height: 0 .. Tip' - 1, cursor: Nodes]
      /\ saved'.father[saved'.cursor] # None /\ Tree(saved.father)' /\ saved'.join[Bootstrap] = 0
  <2>1. CASE saved' = saved
    <3>1. /\ saved \in [father: Parents, join: [Nodes -> Nat], height: 0 .. Len(chain) - 1, cursor: Nodes]
          /\ saved.father[saved.cursor] # None /\ Tree(saved.father) /\ saved.join[Bootstrap] = 0
      BY Zenon DEF IInv, TypeOK, Tip
    <3>2. 0 .. Len(chain) - 1 \subseteq 0 .. Len(chain') - 1
      BY <1>0, <1>2
    <3>3. saved.height \in 0 .. Len(chain') - 1
      BY Zenon, <3>1, <3>2
    <3> QED
      BY Zenon, <2>1, <3>1, <3>3 DEF Tip, Tree
  <2>2. CASE saved' = Snapshot
    <3>1. height \in 0 .. Len(chain') - 1
      BY <1>0, <1>2 DEF EndBlock, MoveMiningAddr
    <3> QED
      BY Zenon, <1>0, <2>2, <3>1 DEF Snapshot, IInv, TypeOK, Tip, Tree, Members
  <2> QED
    BY Zenon, <2>1, <2>2 DEF EndBlock
<1> QED
  BY Zenon, <1>0, <1>1, <1>2, <1>3 DEF IInv, TypeOK, Tip, Tree

LEMMA RestartKeeps ==
    ASSUME IInv, Restart
    PROVE  IInv'
<1>0. /\ saved \in [father: Parents, join: [Nodes -> Nat], height: 0 .. Tip - 1, cursor: Nodes]
      /\ Tree(saved.father) /\ saved.join[Bootstrap] = 0 /\ Tip \in Nat
  BY SMTT(60) DEF IInv, TypeOK, Tip
<1>1. father' = saved.father /\ join' = saved.join /\ saved' = saved /\ chain' = chain
  BY Zenon DEF Restart
<1>2. cur' \in Members'
  <2>1. CASE saved.height = 0
    BY <1>0, <1>1, <2>1, SequenceAssumption DEF Restart, Members, Tree, Nodes, Bootstrap
  <2>2. CASE saved.height # 0
    <3>1. cur' = nextEligibleNode(saved.father, saved.join, saved.cursor, saved.height)
      BY Zenon, <2>2 DEF Restart
    <3>2. saved.height \in Nat \ {0} /\ saved.father \in Parents
      BY <1>0, <2>2
    <3> QED
      BY Zenon, <1>0, <1>1, <3>1, <3>2, NextIn DEF Members
  <2> QED
    BY Zenon, <2>1, <2>2
<1>3. height' \in 1 .. Tip /\ done' = 0
  BY <1>0 DEF Restart
<1> QED
  BY Zenon, <1>0, <1>1, <1>2, <1>3 DEF IInv, TypeOK, Tip, Tree

LEMMA Invariance == Spec => []IInv
<1>1. Init => IInv
  <2> SUFFICES ASSUME Init PROVE IInv
    BY Zenon
  <2>1. Bootstrap \in Nodes /\ DefaultCore \in Nodes /\ None \notin Nodes
    BY SequenceAssumption DEF Nodes, Bootstrap
  <2>2. father \in Parents /\ father[Bootstrap] = Bootstrap /\ Tree(father)
    BY Zenon, <2>1 DEF Init, Parents, Tree
  <2>3. chain \in Seq(Seq(Ops)) /\ Len(chain) = 1
    BY DEF Init
  <2> QED
    BY <2>1, <2>2, <2>3 DEF Init, IInv, TypeOK, Tip, Members, Tree
<1>2. IInv /\ [Next]_vars => IInv'
  <2> SUFFICES ASSUME IInv, [Next]_vars PROVE IInv'
    BY Zenon
  <2>1. ASSUME NEW op \in Ops, NewOp(op) PROVE IInv'
    BY Zenon, <2>1, NewOpKeeps
  <2>2. CASE UNCHANGED vars
    BY Zenon, <2>2 DEF vars, IInv, TypeOK, Tip, Tree, Members
  <2> QED
    BY Zenon, <2>1, <2>2, ReplayOpKeeps, EndBlockKeeps, RestartKeeps DEF Next
<1> QED
  BY <1>1, <1>2, PTL DEF Spec

(* The types hold; the cursor, live or saved, is always a member of the    *)
(* ring (RemoveNode steps back to another member, MoveMiningAddr and Init  *)
(* always find an eligible one).                                           *)
THEOREM TypeCorrect == Spec => []TypeOK
<1>1. IInv => TypeOK
  BY Zenon DEF IInv
<1> QED
  BY <1>1, Invariance, PTL

(* addMinerNode and removeMinerNode keep three levels: every parent is a   *)
(* member whose parent is the Bootstrap, however stakes and unstakes of    *)
(* parents and children meet, live or after a restart.                     *)
THEOREM HierarchyHolds == Spec => []Hierarchy
<1>1. IInv => Hierarchy
  <2> SUFFICES ASSUME IInv, NEW n \in Members
               PROVE  father[n] \in Members /\ father[father[n]] = Bootstrap
    BY Zenon DEF Hierarchy
  <2>1. father[n] \in Nodes /\ father[father[n]] = Bootstrap
    BY Zenon DEF IInv, Tree, Members
  <2>2. Bootstrap # None
    BY SequenceAssumption DEF Bootstrap
  <2> QED
    BY Zenon, <2>1, <2>2 DEF Members
<1> QED
  BY <1>1, Invariance, PTL

(* POSReward pays a channel that the producer of the block belongs to,     *)
(* also when the Core or the Bootstrap stands in for the slot's node.      *)
THEOREM RewardAlwaysReachesProducer == Spec => []RewardReachesProducer
<1>1. IInv => RewardReachesProducer
  <2> SUFFICES ASSUME IInv PROVE RewardReachesProducer
    BY Zenon
  <2>1. /\ cur \in Nodes /\ father[cur] \in Nodes
        /\ father[father[cur]] = Bootstrap /\ father[Bootstrap] = Bootstrap
    BY Zenon DEF IInv, TypeOK, Members, Tree
  <2> QED
    BY Zenon, <2>1 DEF RewardReachesProducer, Producers, POSReward
<1> QED
  BY <1>1, Invariance, PTL

-----------------------------------------------------------------------------
(* The states the sequence goes through.                                   *)

State == [father |-> father, join |-> join, cur |-> cur]

States == [father: Parents, join: [Nodes -> Nat], cur: Nodes]

MembersOf(f) == {n \in Nodes : f[n] # None}

(* The state after an operation of block h, and after the end of block h.  *)
After(s, op, h) ==
    IF op.kind = "STAKE"
    THEN [father |-> [s.father EXCEPT ![op.node] = op.parent],
          join   |-> [s.join EXCEPT ![op.node] = h],
          cur    |-> s.cur]
    ELSE [father |-> [s.father EXCEPT ![op.node] = None],
          join   |-> s.join,
          cur    |-> IF s.cur = op.node THEN Preceding(s.father, s.cur, MembersOf(s.father)) ELSE s.cur]

Advanced(s, h) == [s EXCEPT !.cur = nextEligibleNode(s.father, s.join, s.cur, h)]

(* tr[<<h, k>>] is the state after k operations of block h.                *)
Trace(tr) ==
    /\ tr \in [Nat \X Nat -> States]
    /\ tr[<<1, 0>>].cur = Bootstrap
    /\ \A h \in 1 .. Tip : \A k \in 1 .. Len(chain[h]) : tr[<<h, k>>] = After(tr[<<h, k - 1>>], chain[h][k], h)
    /\ \A h \in 1 .. Tip - 1 : tr[<<h + 1, 0>>] = Advanced(tr[<<h, Len(chain[h])>>], h)
    /\ \A h \in 1 .. Tip : tr[<<h, 0>>].cur = slots[h]

(* The indexer is somewhere on the trace, and so is the snapshot.          *)
OnTrace(tr) ==
    /\ done <= Len(chain[height])
    /\ State = tr[<<height, done>>]
    /\ saved.height = 0 => tr[<<1, 0>>].father = saved.father /\ tr[<<1, 0>>].join = saved.join
    /\ saved.height # 0 =>
         tr[<<saved.height, Len(chain[saved.height])>>]
           = [father |-> saved.father, join |-> saved.join, cur |-> saved.cursor]

(* Around the ring from a, o comes before n; from a to a itself, every     *)
(* other node does.                                                        *)
Between(f, a, o, n) ==
    IF Rank(f, a) < Rank(f, n)
    THEN Rank(f, a) < Rank(f, o) /\ Rank(f, o) < Rank(f, n)
    ELSE Rank(f, a) < Rank(f, o) \/ Rank(f, o) < Rank(f, n)

(* At the tip, t: whoever must mine before n has its turn before n, the    *)
(* cursor leaves the slot's node only when that node leaves.               *)
RoundInv(t) ==
    /\ due \in [Nodes -> SUBSET Nodes]
    /\ \A n \in Nodes : \A o \in due[n] :
         /\ n \in MembersOf(t.father) /\ o \in Eligible(t.father, t.join, Tip)
         /\ o # slots[Tip] => Between(t.father, t.cur, o, n)
    /\ slots[Tip] \in Eligible(t.father, t.join, Tip) => t.cur = slots[Tip]
    /\ chain[Tip] = <<>> => t.cur = slots[Tip] /\ due[slots[Tip]] = {}

RingInv ==
    /\ slots \in Seq(Nodes) /\ Len(slots) = Tip
    /\ \E tr : Trace(tr) /\ OnTrace(tr) /\ RoundInv(tr[<<Tip, Len(chain[Tip])>>])

-----------------------------------------------------------------------------
(* The order of the ring.                                                  *)

LEMMA Digits ==
    ASSUME NEW a \in 0 .. N, NEW b \in 0 .. N, NEW r \in 0 .. N, NEW q \in 0 .. N,
           a * (N + 1) + r = b * (N + 1) + q
    PROVE  a = b /\ r = q
<1>0. N \in Nat
  BY Zenon, SequenceAssumption
<1>1. ASSUME NEW x \in 0 .. N, NEW y \in 0 .. N, x < y PROVE x * (N + 1) + N < y * (N + 1)
  <2>1. y * (N + 1) = x * (N + 1) + (y - x) * (N + 1)
    BY <1>0
  <2>2. (y - x - 1) * (N + 1) >= 0
    BY <1>0, <1>1
  <2>3. (y - x) * (N + 1) = (y - x - 1) * (N + 1) + (N + 1)
    BY <1>0
  <2> QED
    BY <1>0, <2>1, <2>2, <2>3
<1>2. \A x \in 0 .. N : x * (N + 1) \in Nat
  BY <1>0
<1> DEFINE A == a * (N + 1)
           B == b * (N + 1)
<1>3. A \in Nat /\ B \in Nat /\ A + r = B + q
  BY Zenon, <1>2
<1>4. (a < b => A + N < B) /\ (b < a => B + N < A)
  BY Zenon, <1>1
<1> HIDE DEF A, B
<1>5. ~(a < b) /\ ~(b < a)
  BY <1>0, <1>3, <1>4
<1>6. a = b
  BY <1>0, <1>5
<1> QED
  BY <1>0, <1>3, <1>6 DEF A, B

(* No two members of the hierarchy have the same rank.                     *)
LEMMA RankInjective ==
    ASSUME NEW f \in Parents, Tree(f), NEW m \in MembersOf(f), NEW n \in MembersOf(f), Rank(f, m) = Rank(f, n)
    PROVE  m = n
<1> DEFINE high(x) == IF x # Bootstrap /\ f[x] # Bootstrap THEN f[x] ELSE x
           low(x) == IF x # Bootstrap /\ f[x] # Bootstrap THEN x ELSE 0
<1>0. N \in Nat
  BY Zenon, SequenceAssumption
<1>1. ASSUME NEW x \in MembersOf(f) PROVE x \in 0 .. N /\ f[x] \in 0 .. N
  BY Zenon DEF MembersOf, Tree, Nodes
<1>2. ASSUME NEW x \in MembersOf(f)
      PROVE  high(x) \in 0 .. N /\ low(x) \in 0 .. N /\ Rank(f, x) = high(x) * (N + 1) + low(x)
  BY <1>0, <1>1 DEF Rank, Bootstrap
<1>3. high(m) = high(n) /\ low(m) = low(n)
  <2> HIDE DEF high, low
  <2> QED
    BY <1>2, Digits
<1> QED
  BY Zenon, <1>1, <1>3 DEF Bootstrap

LEMMA MemberRank ==
    ASSUME NEW f \in Parents, NEW n \in MembersOf(f)
    PROVE  Rank(f, n) \in Nat
BY Zenon, RankType DEF MembersOf

LEMMA FirstLeast ==
    ASSUME NEW f \in Parents, NEW S \in SUBSET MembersOf(f), S # {}
    PROVE  /\ First(f, S) \in S /\ \A o \in S : Rank(f, First(f, S)) <= Rank(f, o)
           /\ Last(f, S) \in S /\ \A o \in S : Rank(f, o) <= Rank(f, Last(f, S))
<1> DEFINE T == {Rank(f, n) : n \in S}
<1>1. T \in SUBSET Nat /\ T # {} /\ \A y \in T : y <= N * (N + 1) + N
  BY Zenon, RankType DEF MembersOf
<1>2. N * (N + 1) + N \in Nat
  BY SequenceAssumption
<1> HIDE DEF T
<1>3. \E m \in T : \A y \in T : m <= y
  BY Zenon, <1>1, Smallest
<1>4. \E m \in T : \A y \in T : y <= m
  BY Zenon, <1>1, <1>2, Largest
<1>5. \E n \in S : \A o \in S : Rank(f, n) <= Rank(f, o)
  BY Zenon, <1>3 DEF T
<1>6. \E n \in S : \A o \in S : Rank(f, o) <= Rank(f, n)
  BY Zenon, <1>4 DEF T
<1> QED
  BY Zenon, <1>5, <1>6 DEF First, Last

(* Going on from n, e is the first of S.                                   *)
LEMMA FollowingFirst ==
    ASSUME NEW f \in Parents, NEW S \in SUBSET MembersOf(f), S # {}, NEW n \in MembersOf(f), NEW e,
           e = Following(f, n, S)
    PROVE  /\ e \in S
           /\ \A o \in S : Rank(f, o) > Rank(f, n) => Rank(f, n) < Rank(f, e) /\ Rank(f, e) <= Rank(f, o)
           /\ \A o \in S : Rank(f, e) > Rank(f, n) \/ Rank(f, e) <= Rank(f, o)
<1> DEFINE later == {o \in S : Rank(f, o) > Rank(f, n)}
<1>1. later # {} => First(f, later) \in later /\ \A o \in later : Rank(f, First(f, later)) <= Rank(f, o)
  BY Zenon, FirstLeast
<1>2. First(f, S) \in S /\ \A o \in S : Rank(f, First(f, S)) <= Rank(f, o)
  BY Zenon, FirstLeast
<1>3. CASE later # {}
  <2>1. e = First(f, later)
    BY Zenon, <1>3 DEF Following
  <2>2. \A o \in S : Rank(f, o) \in Nat
    BY Zenon, MemberRank
  <2>3. Rank(f, n) \in Nat
    BY Zenon, MemberRank
  <2> QED
    BY Zenon, <1>1, <1>3, <2>1, <2>2, <2>3
<1>4. CASE later = {}
  BY Zenon, <1>2, <1>4 DEF Following
<1> QED
  BY Zenon, <1>3, <1>4

(* The node before one that is not the Bootstrap.                          *)
LEMMA PrecedingLast ==
    ASSUME NEW f \in Parents, Tree(f), NEW n \in MembersOf(f) \ {Bootstrap}, NEW p,
           p = Preceding(f, n, MembersOf(f))
    PROVE  /\ p \in MembersOf(f) /\ Rank(f, p) < Rank(f, n)
           /\ \A o \in MembersOf(f) : Rank(f, o) < Rank(f, n) => Rank(f, o) <= Rank(f, p)
<1> DEFINE earlier == {o \in MembersOf(f) : Rank(f, o) < Rank(f, n)}
<1>1. Bootstrap \in earlier
  <2>1. N \in Nat /\ n \in 1 .. N /\ f[n] \in 0 .. N /\ None \notin 0 .. N
    BY SequenceAssumption DEF Nodes, Bootstrap, Tree, MembersOf
  <2>2. n * (N + 1) \in Nat \ {0} /\ f[n] * (N + 1) \in Nat
    BY <2>1
  <2>3. Rank(f, n) > 0
    BY <2>1, <2>2 DEF Rank, Bootstrap
  <2> QED
    BY <2>1, <2>3 DEF Rank, Bootstrap, Nodes, MembersOf, Tree
<1>2. Last(f, earlier) \in earlier /\ \A o \in earlier : Rank(f, o) <= Rank(f, Last(f, earlier))
  BY Zenon, <1>1, FirstLeast
<1> QED
  BY Zenon, <1>1, <1>2 DEF Preceding

-----------------------------------------------------------------------------
(* Turns, at the tip of the chain.                                         *)

LEMMA ApplyAfter ==
    ASSUME NEW op, Apply(op)
    PROVE  State' = After(State, op, height)
<1>1. CASE op.kind = "STAKE" /\ MayAdd(op) /\ AddNode(op)
  BY Zenon, <1>1 DEF AddNode, After, State
<1>2. CASE op.kind = "UNSTAKE" /\ MayRemove(op) /\ RemoveNode(op)
  BY Zenon, <1>2 DEF RemoveNode, After, State, Members, MembersOf
<1> QED
  BY Zenon, <1>1, <1>2 DEF Apply

LEMMA StakeRound ==
    ASSUME IInv, NEW op \in Ops, height = Tip, op.kind = "STAKE", MayAdd(op), AddNode(op),
           RoundInv(State), due' = due, slots' = slots, Tip' = Tip, chain'[Tip] # <<>>
    PROVE  RoundInv(State)'
<1>0. /\ father \in Parents /\ join \in [Nodes -> Nat] /\ op.node \in Nodes \ {Bootstrap}
      /\ op.parent \in Nodes /\ None \notin Nodes /\ Tip \in Nat
  <2>1. father \in Parents /\ join \in [Nodes -> Nat] /\ chain \in Seq(Seq(Ops))
    BY Zenon DEF IInv, TypeOK
  <2>2. Tip \in Nat
    BY <2>1 DEF Tip
  <2>3. op \in [kind: {"STAKE"}, node: 1 .. N, parent: 0 .. N]
    BY Zenon DEF Ops
  <2>4. op.node \in 1 .. N /\ op.parent \in 0 .. N
    BY Zenon, <2>3
  <2> HIDE DEF Tip
  <2> QED
    BY SMTT(60), <2>1, <2>2, <2>4, SequenceAssumption DEF Nodes, Bootstrap
<1>1. father' = [father EXCEPT ![op.node] = op.parent] /\ join' = [join EXCEPT ![op.node] = Tip] /\ cur' = cur
  BY Zenon DEF AddNode
<1>2. father[op.node] = None /\ cur \in MembersOf(father)
  BY Zenon DEF MayAdd, IInv, TypeOK, Members, MembersOf
<1>3. \A n \in MembersOf(father) : father'[n] = father[n] /\ join'[n] = join[n] /\ n \in MembersOf(father')
  BY Zenon, <1>0, <1>1, <1>2 DEF MembersOf, Parents
<1>4. \A n \in MembersOf(father) : Rank(father', n) = Rank(father, n)
  BY Zenon, <1>3 DEF Rank
<1>5. ASSUME NEW n \in Nodes, NEW o \in due[n]
      PROVE  /\ n \in MembersOf(father') /\ o \in Eligible(father', join', Tip)
             /\ o # slots[Tip] => Between(father', cur', o, n)
  <2>1. /\ n \in MembersOf(father) /\ o \in Eligible(father, join, Tip) /\ o \in MembersOf(father)
        /\ o # slots[Tip] => Between(father, cur, o, n)
    BY Zenon, SMTT(30) DEF RoundInv, State, Eligible, MembersOf
  <2>2. o \in Eligible(father', join', Tip)
    BY Zenon, <1>3, <2>1 DEF Eligible, MembersOf
  <2> QED
    BY Zenon, <1>1, <1>2, <1>3, <1>4, <2>1, <2>2 DEF Between
<1>6. slots[Tip] \in Eligible(father', join', Tip) => cur' = slots[Tip]
  <2>1. ASSUME NEW n \in Eligible(father', join', Tip) PROVE n \in Eligible(father, join, Tip)
    BY <1>0, <1>1, <2>1 DEF Eligible, Parents
  <2> QED
    BY Zenon, <1>1, <2>1 DEF RoundInv, State
<1>7. due \in [Nodes -> SUBSET Nodes]
  BY Zenon DEF RoundInv
<1> QED
  BY Zenon, <1>5, <1>6, <1>7 DEF RoundInv, State

LEMMA UnstakeRound ==
    ASSUME IInv, NEW op \in Ops, height = Tip, MayRemove(op), RemoveNode(op),
           RoundInv(State), slots' = slots, Tip' = Tip, chain'[Tip] # <<>>,
           due' = [n \in Nodes |-> IF n = op.node THEN {} ELSE due[n] \ {op.node}]
    PROVE  RoundInv(State)'
<1>0. /\ father \in Parents /\ join \in [Nodes -> Nat] /\ op.node \in Nodes \ {Bootstrap}
      /\ None \notin Nodes /\ Tip \in Nat /\ Tree(father)
  <2>1. op.node \in Nodes \ {Bootstrap} /\ None \notin Nodes
    BY SequenceAssumption DEF Ops, Nodes, Bootstrap
  <2> QED
    BY <2>1 DEF IInv, TypeOK, Tip
<1>1. /\ father' = [father EXCEPT ![op.node] = None] /\ join' = join
      /\ cur' = IF cur = op.node THEN Preceding(father, cur, MembersOf(father)) ELSE cur
  BY Zenon DEF RemoveNode, Members, MembersOf
<1>2. op.node \in MembersOf(father) /\ cur \in MembersOf(father)
  BY Zenon, <1>0 DEF MayRemove, IInv, TypeOK, Members, MembersOf
<1>3. \A n \in MembersOf(father) \ {op.node} : father'[n] = father[n] /\ n \in MembersOf(father')
  BY Zenon, <1>0, <1>1 DEF MembersOf, Parents
<1>4. \A n \in MembersOf(father) \ {op.node} : Rank(father', n) = Rank(father, n)
  BY Zenon, <1>3 DEF Rank
<1>5. cur' \in MembersOf(father) \ {op.node}
  <2>1. CASE cur = op.node
    <3>1. cur' = Preceding(father, cur, MembersOf(father)) /\ cur \in MembersOf(father) \ {Bootstrap}
      BY Zenon, <1>0, <1>1, <1>2, <2>1
    <3>2. cur' \in MembersOf(father) /\ Rank(father, cur') < Rank(father, cur)
      BY Zenon, <1>0, <3>1, PrecedingLast
    <3>3. Rank(father, cur) \in Nat
      BY ZenonT(60), SMTT(30), <1>0, <1>2, MemberRank
    <3> QED
      BY <2>1, <3>2, <3>3
  <2> QED
    BY Zenon, <1>1, <1>2, <2>1
<1>6. ASSUME NEW n \in Nodes, NEW o \in due'[n]
      PROVE  /\ n \in MembersOf(father') /\ o \in Eligible(father', join', Tip)
             /\ o # slots[Tip] => Between(father', cur', o, n)
  <2>1. n # op.node /\ o # op.node /\ o \in due[n]
    BY Zenon, <1>6
  <2>2. /\ n \in MembersOf(father) /\ o \in Eligible(father, join, Tip) /\ o \in MembersOf(father)
        /\ o # slots[Tip] => Between(father, cur, o, n)
    BY Zenon, <2>1 DEF RoundInv, State, Eligible, MembersOf
  <2>3. o \in Eligible(father', join', Tip) /\ n \in MembersOf(father')
    BY Zenon, <1>1, <1>3, <2>1, <2>2 DEF Eligible, MembersOf
  <2>4. ASSUME o # slots[Tip] PROVE Between(father, cur', o, n)
    <3>1. Between(father, cur, o, n)
      BY Zenon, <2>2, <2>4
    <3>2. CASE cur # op.node
      BY ZenonT(60), <1>1, <3>1, <3>2
    <3>3. CASE cur = op.node
      <4>1. cur' = Preceding(father, cur, MembersOf(father)) /\ cur \in MembersOf(father) \ {Bootstrap}
        BY Zenon, <1>0, <1>1, <1>2, <3>3
      <4>2. /\ Rank(father, cur') < Rank(father, cur)
            /\ Rank(father, o) < Rank(father, cur) => Rank(father, o) <= Rank(father, cur')
            /\ Rank(father, n) < Rank(father, cur) => Rank(father, n) <= Rank(father, cur')
        BY Zenon, <1>0, <2>2, <4>1, PrecedingLast
      <4>3. /\ Rank(father, o) \in Nat /\ Rank(father, n) \in Nat /\ Rank(father, cur) \in Nat
            /\ Rank(father, cur') \in Nat
        BY ZenonT(30), <1>0, <1>2, <1>5, <2>2, MemberRank
      <4>4. Rank(father, n) # Rank(father, cur)
        BY ZenonT(60), SMTT(30), <1>0, <1>2, <2>1, <2>2, <3>3, RankInjective
      <4> QED
        BY SMTT(60), <3>1, <4>2, <4>3, <4>4 DEF Between
    <3> QED
      BY Zenon, <3>2, <3>3
  <2> QED
    BY SMTT(60), <1>4, <1>5, <2>1, <2>2, <2>3, <2>4 DEF Between
<1>7. slots[Tip] \in Eligible(father', join', Tip) => cur' = slots[Tip]
  <2>1. ASSUME NEW n \in Eligible(father', join', Tip) PROVE n \in Eligible(father, join, Tip) /\ n # op.node
    BY Zenon, <1>0, <1>1, <2>1 DEF Eligible, Parents
  <2> QED
    BY Zenon, <1>1, <2>1 DEF RoundInv, State
<1>8. due' \in [Nodes -> SUBSET Nodes]
  BY Zenon, SMTT(30) DEF RoundInv
<1> QED
  BY ZenonT(60), <1>6, <1>7, <1>8 DEF RoundInv, State

LEMMA EndBlockRound ==
    ASSUME IInv, EndBlock, height = Tip, RoundInv(State), Len(slots) = Tip, slots \in Seq(Nodes)
    PROVE  RoundInv(State)'
<1> DEFINE E == Eligible(father, join, Tip)
           s == slots[Tip]
<1>0. /\ father \in Parents /\ join \in [Nodes -> Nat] /\ Tree(father) /\ join[Bootstrap] = 0
      /\ chain \in Seq(Seq(Ops)) /\ Tip \in Nat \ {0} /\ cur \in MembersOf(father)
  BY DEF IInv, TypeOK, Tip, Members, MembersOf
<1>1. /\ father' = father /\ join' = join /\ cur' = Following(father, cur, E)
      /\ chain' = Append(chain, <<>>) /\ slots' = Append(slots, cur')
      /\ due' = [n \in Nodes |-> IF n = s /\ s \in E THEN E \ {s} ELSE due[n] \ {s}]
  BY Zenon DEF EndBlock, MoveMiningAddr, nextEligibleNode
<1>2. E \in SUBSET MembersOf(father) /\ Bootstrap \in E
  BY SMTT(60), <1>0, SequenceAssumption DEF Eligible, MembersOf, Tree, Nodes, Bootstrap
<1>3. Tip' = Tip + 1 /\ chain'[Tip'] = <<>>
  BY <1>0, <1>1 DEF Tip
<1>4. slots'[Tip'] = cur'
  BY <1>0, <1>1, <1>3
<1> HIDE DEF E
<1>5. /\ cur' \in E
      /\ \A o \in E : Rank(father, o) > Rank(father, cur)
                        => Rank(father, cur) < Rank(father, cur') /\ Rank(father, cur') <= Rank(father, o)
      /\ \A o \in E : Rank(father, cur') > Rank(father, cur) \/ Rank(father, cur') <= Rank(father, o)
  BY ZenonT(60), <1>0, <1>1, <1>2, FollowingFirst
<1>6. \A n \in MembersOf(father) : Rank(father, n) \in Nat
  BY Zenon, <1>0, MemberRank
<1>7. ASSUME NEW n \in Nodes, NEW o \in due'[n]
      PROVE  n \in MembersOf(father) /\ o \in E /\ Between(father, cur, o, n)
  <2>1. CASE n = s /\ s \in E
    <3>1. o \in E /\ o # s /\ cur = s
      BY Zenon, <1>1, <1>7, <2>1 DEF RoundInv, State, E
    <3>2. Rank(father, o) # Rank(father, s)
      BY Zenon, SMTT(30), <1>0, <1>2, <2>1, <3>1, RankInjective
    <3> QED
      BY <1>2, <1>6, <2>1, <3>1, <3>2 DEF Between
  <2>2. CASE ~(n = s /\ s \in E)
    <3>1. o \in due[n] /\ o # s
      BY Zenon, <1>1, <1>7, <2>2
    <3> QED
      BY Zenon, <3>1 DEF RoundInv, State, E
  <2> QED
    BY Zenon, SMTT(30), <2>1, <2>2
<1>8. ASSUME NEW n \in Nodes, NEW o \in due'[n]
      PROVE  n # cur' /\ (o # cur' => Between(father, cur', o, n))
  <2>1. n \in MembersOf(father) /\ o \in E /\ Between(father, cur, o, n)
    BY Zenon, <1>7
  <2>2. /\ Rank(father, n) \in Nat /\ Rank(father, o) \in Nat /\ Rank(father, cur) \in Nat
        /\ Rank(father, cur') \in Nat
    BY ZenonT(30), <1>0, <1>2, <1>5, <1>6, <2>1
  <2>3. o # cur' => Rank(father, o) # Rank(father, cur')
    BY ZenonT(30), <1>0, <1>2, <1>5, <2>1, RankInjective
  <2>4. /\ Rank(father, o) > Rank(father, cur)
             => Rank(father, cur) < Rank(father, cur') /\ Rank(father, cur') <= Rank(father, o)
        /\ Rank(father, cur') > Rank(father, cur) \/ Rank(father, cur') <= Rank(father, o)
    BY Zenon, <1>5, <2>1
  <2>5. Rank(father, n) # Rank(father, cur')
    BY SMTT(60), <2>1, <2>2, <2>4 DEF Between
  <2> QED
    BY <2>1, <2>2, <2>3, <2>4, <2>5 DEF Between
<1>9. E \subseteq Eligible(father, join, Tip + 1)
  BY <1>0 DEF E, Eligible
<1>10. due' \in [Nodes -> SUBSET Nodes]
  BY Zenon, <1>1, <1>2 DEF RoundInv, MembersOf
<1>11. cur' \in Nodes /\ due'[cur'] = {}
  BY Zenon, <1>2, <1>5, <1>8 DEF MembersOf
<1> QED
  BY ZenonT(30), <1>1, <1>3, <1>4, <1>7, <1>8, <1>9, <1>10, <1>11 DEF RoundInv, State

-----------------------------------------------------------------------------
(* The trace.                                                              *)

LEMMA StateType == IInv' => State' \in States
BY Zenon DEF IInv, TypeOK, State, States, Members

LEMMA NewOpRing ==
    ASSUME IInv, IInv', RingInv, NEW op \in Ops, NewOp(op)
    PROVE  RingInv'
<1>0. /\ chain \in Seq(Seq(Ops)) /\ Tip \in Nat \ {0} /\ height = Tip /\ done = Len(chain[Tip])
      /\ done \in Nat /\ chain[Tip] \in Seq(Ops)
      /\ saved.height \in 0 .. Tip - 1
  BY SMTT(60) DEF NewOp, IInv, TypeOK, Tip
<1>1. PICK tr : Trace(tr) /\ OnTrace(tr) /\ RoundInv(tr[<<Tip, Len(chain[Tip])>>])
  BY Zenon DEF RingInv
<1>2. State = tr[<<Tip, done>>] /\ RoundInv(State)
  BY Zenon, <1>0, <1>1 DEF OnTrace
<1>3. /\ chain' = [chain EXCEPT ![Tip] = Append(@, op)] /\ done' = done + 1 /\ Apply(op)
      /\ UNCHANGED <<height, saved, slots>>
  BY Zenon DEF NewOp
<1>4. /\ Tip' = Tip /\ Len(chain'[Tip]) = done + 1 /\ chain'[Tip][done + 1] = op
      /\ \A h \in 1 .. Tip : h # Tip => chain'[h] = chain[h]
      /\ \A k \in 1 .. done : chain'[Tip][k] = chain[Tip][k]
  BY SMTT(60), <1>0, <1>3 DEF Tip
<1>5. RoundInv(State)'
  <2>1. chain'[Tip] # <<>>
    BY <1>0, <1>4
  <2>2. CASE op.kind = "STAKE" /\ MayAdd(op) /\ AddNode(op)
    <3>1. due' = due
      BY Zenon, <2>2 DEF NewOp
    <3> QED
      BY ZenonT(30), SMTT(30), <1>0, <1>2, <1>3, <1>4, <2>1, <2>2, <3>1, StakeRound
  <2>3. CASE op.kind = "UNSTAKE" /\ MayRemove(op) /\ RemoveNode(op)
    <3>1. due' = [n \in Nodes |-> IF n = op.node THEN {} ELSE due[n] \ {op.node}]
      BY Zenon, <2>3 DEF NewOp
    <3> QED
      BY ZenonT(30), <1>0, <1>2, <1>3, <1>4, <2>1, <2>3, <3>1, UnstakeRound
  <2> QED
    BY Zenon, <1>3, <2>2, <2>3 DEF Apply
<1>6. PICK ts : ts = [tr EXCEPT ![<<Tip, done + 1>>] = State']
  BY Zenon
<1>7. tr \in [Nat \X Nat -> States] /\ State' \in States
  BY Zenon, <1>1, StateType DEF Trace
<1>8. /\ ts \in [Nat \X Nat -> States]
      /\ ts[<<Tip, done + 1>>] = State'
      /\ \A h, k \in Nat : ~(h = Tip /\ k = done + 1) => ts[<<h, k>>] = tr[<<h, k>>]
  BY SMTT(60), <1>0, <1>6, <1>7
<1>9. Trace(ts)'
  <2>1. ASSUME NEW h \in 1 .. Tip, NEW k \in 1 .. Len(chain'[h])
        PROVE  ts[<<h, k>>] = After(ts[<<h, k - 1>>], chain'[h][k], h)
    <3>1. CASE h = Tip /\ k = done + 1
      <4>1. ts[<<h, k - 1>>] = State
        BY SMTT(60), <1>0, <1>2, <1>8, <3>1
      <4> QED
        BY SMTT(60), <1>0, <1>3, <1>4, <1>8, <3>1, <4>1, ApplyAfter
    <3>2. CASE h = Tip /\ k # done + 1
      <4>1. k \in 1 .. done
        BY SMTT(60), <1>0, <1>4, <2>1, <3>2
      <4>2. tr[<<h, k>>] = After(tr[<<h, k - 1>>], chain[h][k], h)
        BY Zenon, <1>0, <1>1, <3>2, <4>1 DEF Trace
      <4>3. k \in Nat /\ k - 1 \in Nat /\ k - 1 # done + 1
        BY <1>0, <4>1
      <4>4. ts[<<h, k>>] = tr[<<h, k>>] /\ ts[<<h, k - 1>>] = tr[<<h, k - 1>>]
        BY Zenon, <1>0, <1>8, <3>2, <4>3
      <4>5. chain'[h][k] = chain[h][k]
        BY ZenonT(30), <1>4, <3>2, <4>1
      <4> QED
        BY Zenon, <4>2, <4>4, <4>5
    <3>3. CASE h # Tip
      <4>1. chain'[h] = chain[h]
        BY Zenon, <1>4, <3>3
      <4>2. tr[<<h, k>>] = After(tr[<<h, k - 1>>], chain[h][k], h)
        BY ZenonT(30), <1>1, <2>1, <4>1 DEF Trace
      <4>3. h \in Nat /\ k \in Nat /\ k - 1 \in Nat
        BY <1>0, <2>1
      <4> QED
        BY ZenonT(30), <1>8, <3>3, <4>1, <4>2, <4>3
    <3> QED
      BY Zenon, <3>1, <3>2, <3>3
  <2>2. ASSUME NEW h \in 1 .. Tip - 1
        PROVE  ts[<<h + 1, 0>>] = Advanced(ts[<<h, Len(chain'[h])>>], h)
    <3>1. chain'[h] = chain[h] /\ Len(chain[h]) \in Nat /\ h # Tip
      BY SMTT(60), <1>0, <1>4 DEF Tip
    <3>2. tr[<<h + 1, 0>>] = Advanced(tr[<<h, Len(chain[h])>>], h)
      BY Zenon, <1>1 DEF Trace
    <3>3. h \in Nat /\ h + 1 \in Nat
      BY <1>0
    <3>4. ts[<<h + 1, 0>>] = tr[<<h + 1, 0>>]
      BY SMTT(60), <1>0, <1>8, <3>3
    <3>5. ts[<<h, Len(chain[h])>>] = tr[<<h, Len(chain[h])>>]
      BY ZenonT(30), <1>8, <3>1, <3>3
    <3> QED
      BY Zenon, <3>1, <3>2, <3>4, <3>5
  <2>3. ASSUME NEW h \in 1 .. Tip PROVE ts[<<h, 0>>].cur = slots[h]
    <3>1. h \in Nat /\ 0 # done + 1
      BY <1>0
    <3>2. ts[<<h, 0>>] = tr[<<h, 0>>]
      BY ZenonT(30), <1>8, <3>1
    <3> QED
      BY ZenonT(30), <1>1, <3>2 DEF Trace
  <2>4. ts[<<1, 0>>].cur = Bootstrap
    BY SMTT(60), <1>0, <1>1, <1>8 DEF Trace
  <2> QED
    BY Zenon, <1>3, <1>4, <1>8, <2>1, <2>2, <2>3, <2>4 DEF Trace
<1>10. OnTrace(ts)'
  <2>1. ts[<<1, 0>>] = tr[<<1, 0>>]
    BY SMTT(60), <1>0, <1>8
  <2>2. saved.height # 0 =>
          /\ chain'[saved.height] = chain[saved.height]
          /\ ts[<<saved.height, Len(chain[saved.height])>>] = tr[<<saved.height, Len(chain[saved.height])>>]
    <3> SUFFICES ASSUME saved.height # 0
                 PROVE  /\ chain'[saved.height] = chain[saved.height]
                        /\ ts[<<saved.height, Len(chain[saved.height])>>] = tr[<<saved.height, Len(chain[saved.height])>>]
      BY Zenon
    <3>1. saved.height \in 1 .. Tip /\ saved.height # Tip /\ Len(chain[saved.height]) \in Nat
      BY SMTT(60), <1>0 DEF Tip
    <3> QED
      BY SMTT(60), <1>0, <1>4, <1>8, <3>1
  <2>3. State' = ts[<<height, done'>>] /\ done' <= Len(chain'[height])
    BY SMTT(30), <1>0, <1>3, <1>4, <1>8
  <2> QED
    BY Zenon, <1>1, <1>3, <2>1, <2>2, <2>3 DEF OnTrace
<1>11. RoundInv(ts[<<Tip, Len(chain[Tip])>>])'
  <2>1. ts[<<Tip, Len(chain'[Tip])>>] = State'
    BY ZenonT(30), SMTT(30), <1>4, <1>8
  <2> QED
    BY ZenonT(30), SMTT(30), <1>4, <1>5, <2>1 DEF RoundInv
<1> QED
  BY ZenonT(30), <1>3, <1>4, <1>9, <1>10, <1>11 DEF RingInv

(* A replayed operation is the next step of the trace.                     *)
LEMMA ReplayOpRing ==
    ASSUME IInv, RingInv, ReplayOp
    PROVE  RingInv'
<1>0. height \in 1 .. Tip /\ done \in Nat /\ done + 1 \in 1 .. Len(chain[height])
  <2>1. chain \in Seq(Seq(Ops)) /\ height \in 1 .. Len(chain) /\ done \in Nat
    BY Zenon DEF IInv, TypeOK, Tip
  <2>2. Len(chain[height]) \in Nat
    BY <2>1
  <2> QED
    BY SMTT(60), <2>1, <2>2 DEF ReplayOp, Tip
<1>1. PICK tr : Trace(tr) /\ OnTrace(tr) /\ RoundInv(tr[<<Tip, Len(chain[Tip])>>])
  BY Zenon DEF RingInv
<1>2. UNCHANGED <<chain, height, saved, slots, due>> /\ done' = done + 1 /\ Apply(chain[height][done + 1])
  BY Zenon DEF ReplayOp
<1>3. State' = tr[<<height, done + 1>>]
  <2>1. State' = After(tr[<<height, done>>], chain[height][done + 1], height)
    BY Zenon, <1>1, <1>2, ApplyAfter DEF OnTrace
  <2>2. tr[<<height, done + 1>>] = After(tr[<<height, (done + 1) - 1>>], chain[height][done + 1], height)
    BY ZenonT(30), SMTT(30), <1>0, <1>1 DEF Trace
  <2>3. (done + 1) - 1 = done
    BY <1>0
  <2> QED
    BY Zenon, <2>1, <2>2, <2>3
<1>4. Trace(tr)' /\ RoundInv(tr[<<Tip, Len(chain[Tip])>>])'
  BY ZenonT(30), <1>1, <1>2 DEF Trace, RoundInv, Tip
<1>5. OnTrace(tr)'
  BY SMTT(60), <1>0, <1>1, <1>2, <1>3 DEF OnTrace
<1> QED
  BY ZenonT(30), <1>2, <1>4, <1>5 DEF RingInv, Tip

(* Restart continues where the snapshot's block ended.                     *)
LEMMA RestartRing ==
    ASSUME IInv, RingInv, Restart
    PROVE  RingInv'
<1>0. /\ saved.height \in 0 .. Tip - 1 /\ Tip \in Nat
      /\ \A h \in 1 .. Tip : Len(chain[h]) \in Nat
      /\ saved = [father |-> saved.father, join |-> saved.join, height |-> saved.height, cursor |-> saved.cursor]
  BY SMTT(60) DEF IInv, TypeOK, Tip
<1>1. PICK tr : Trace(tr) /\ OnTrace(tr) /\ RoundInv(tr[<<Tip, Len(chain[Tip])>>])
  BY Zenon DEF RingInv
<1>2. UNCHANGED <<chain, saved, slots, due>> /\ done' = 0 /\ height' = saved.height + 1
  BY Zenon DEF Restart
<1>3. State' = tr[<<saved.height + 1, 0>>]
  <2>1. CASE saved.height = 0
    <3>1. State' = [father |-> saved.father, join |-> saved.join, cur |-> Bootstrap]
      BY Zenon, SMTT(30), <2>1 DEF Restart, State
    <3>2. /\ tr[<<1, 0>>].father = saved.father /\ tr[<<1, 0>>].join = saved.join
          /\ tr[<<1, 0>>].cur = Bootstrap /\ tr[<<1, 0>>] \in States
      BY ZenonT(30), SMTT(30), <1>1, <2>1 DEF OnTrace, Trace
    <3> QED
      BY SMTT(60), <2>1, <3>1, <3>2 DEF States
  <2>2. CASE saved.height # 0
    <3>1. State' = Advanced([father |-> saved.father, join |-> saved.join, cur |-> saved.cursor], saved.height)
      BY <2>2 DEF Restart, State, Advanced
    <3>2. saved.height \in 1 .. Tip - 1
      BY SMTT(30), <1>0, <2>2
    <3> QED
      BY Zenon, <1>1, <2>2, <3>1, <3>2 DEF Trace, OnTrace
  <2> QED
    BY Zenon, SMTT(30), <2>1, <2>2
<1>4. Trace(tr)' /\ RoundInv(tr[<<Tip, Len(chain[Tip])>>])'
  BY ZenonT(30), <1>1, <1>2 DEF Trace, RoundInv, Tip
<1>5. OnTrace(tr)'
  <2>1. 0 <= Len(chain[saved.height + 1])
    BY <1>0
  <2> QED
    BY ZenonT(30), SMTT(30), <1>1, <1>2, <1>3, <2>1 DEF OnTrace
<1> QED
  BY ZenonT(30), <1>2, <1>4, <1>5 DEF RingInv, Tip

(* The snapshot written at the end of a block is the block's last state.   *)
LEMMA SnapshotOnTrace ==
    ASSUME IInv, EndBlock, NEW tr, NEW ts, OnTrace(tr), ts[<<1, 0>>] = tr[<<1, 0>>],
           \A h \in 1 .. Tip : chain'[h] = chain[h] /\ ts[<<h, Len(chain[h])>>] = tr[<<h, Len(chain[h])>>]
    PROVE  /\ saved'.height = 0 => ts[<<1, 0>>].father = saved'.father /\ ts[<<1, 0>>].join = saved'.join
           /\ saved'.height # 0 =>
                ts[<<saved'.height, Len(chain'[saved'.height])>>]
                  = [father |-> saved'.father, join |-> saved'.join, cur |-> saved'.cursor]
<1>0. /\ height \in 1 .. Tip /\ saved.height \in 0 .. Tip - 1 /\ Tip \in Nat /\ done = Len(chain[height])
  BY DEF IInv, TypeOK, Tip, EndBlock
<1>1. CASE saved' = saved
  <2>1. saved.height # 0 => saved.height \in 1 .. Tip
    BY <1>0
  <2> QED
    BY ZenonT(30), <1>1, <2>1 DEF OnTrace
<1>2. CASE saved' = Snapshot
  <2>1. /\ saved'.height = height /\ height # 0 /\ saved'.father = father /\ saved'.join = join
        /\ saved'.cursor = cur
    BY <1>0, <1>2 DEF Snapshot
  <2>2. tr[<<height, Len(chain[height])>>] = [father |-> father, join |-> join, cur |-> cur]
    BY Zenon, <1>0 DEF OnTrace, State
  <2> QED
    BY ZenonT(60), <1>0, <2>1, <2>2
<1> QED
  BY ZenonT(30), <1>1, <1>2 DEF EndBlock

LEMMA AppendFacts ==
    ASSUME NEW S, NEW q \in Seq(S), NEW e \in S
    PROVE  /\ Append(q, e) \in Seq(S) /\ Len(Append(q, e)) = Len(q) + 1
           /\ Append(q, e)[Len(q) + 1] = e
           /\ \A i \in 1 .. Len(q) : Append(q, e)[i] = q[i]
OBVIOUS

LEMMA EndBlockRing ==
    ASSUME IInv, IInv', RingInv, EndBlock
    PROVE  RingInv'
<1>0. /\ chain \in Seq(Seq(Ops)) /\ Tip \in Nat \ {0} /\ height \in 1 .. Tip
      /\ \A h \in 1 .. Tip : Len(chain[h]) \in Nat
      /\ done = Len(chain[height])
  <2>1. chain \in Seq(Seq(Ops)) /\ height \in 1 .. Len(chain)
    BY Zenon DEF IInv, TypeOK, Tip
  <2>2. done = Len(chain[height])
    BY Zenon, SMTT(30) DEF EndBlock
  <2> QED
    BY SMTT(60), <2>1, <2>2 DEF Tip
<1>1. PICK tr : Trace(tr) /\ OnTrace(tr) /\ RoundInv(tr[<<Tip, Len(chain[Tip])>>])
  BY Zenon DEF RingInv
<1>2. State' = Advanced(State, height) /\ done' = 0 /\ height' = height + 1
  BY SMTT(30) DEF EndBlock, MoveMiningAddr, State, Advanced
<1>3. State = tr[<<height, Len(chain[height])>>]
  BY Zenon, <1>0, <1>1 DEF OnTrace
<1>4. CASE height # Tip
  <2>1. UNCHANGED <<chain, slots, due>>
    BY Zenon, <1>4 DEF EndBlock
  <2>2. Trace(tr)' /\ RoundInv(tr[<<Tip, Len(chain[Tip])>>])'
    BY ZenonT(30), <1>1, <2>1 DEF Trace, RoundInv, Tip
  <2>3. State' = tr[<<height + 1, 0>>]
    <3>1. height \in 1 .. Tip - 1
      BY SMTT(30), <1>0, <1>4
    <3> QED
      BY ZenonT(30), <1>1, <1>2, <1>3, <3>1 DEF Trace
  <2>4. OnTrace(tr)'
    <3>1. 0 <= Len(chain[height + 1])
      BY <1>0, <1>4
    <3> QED
      BY ZenonT(30), SMTT(30), <1>1, <1>2, <2>1, <2>3, <3>1, SnapshotOnTrace DEF OnTrace
  <2> QED
    BY ZenonT(30), <2>1, <2>2, <2>4 DEF RingInv, Tip
<1>5. CASE height = Tip
  <2>1. chain' = Append(chain, <<>>) /\ slots' = Append(slots, cur')
    BY ZenonT(30), <1>5 DEF EndBlock
  <2>2. slots \in Seq(Nodes) /\ Len(slots) = Tip /\ cur' \in Nodes
    BY Zenon DEF RingInv, IInv, TypeOK, Members
  <2>3. /\ Tip' = Tip + 1 /\ chain'[Tip + 1] = <<>> /\ \A h \in 1 .. Tip : chain'[h] = chain[h]
        /\ slots' \in Seq(Nodes) /\ Len(slots') = Tip + 1 /\ slots'[Tip + 1] = cur'
        /\ \A h \in 1 .. Tip : slots'[h] = slots[h]
    <3>0. <<>> \in Seq(Ops)
      OBVIOUS
    <3>1. PICK e \in Seq(Ops) : e = <<>>
      BY ZenonT(30), <3>0
    <3>2. /\ Len(Append(chain, e)) = Len(chain) + 1 /\ Append(chain, e)[Len(chain) + 1] = e
          /\ \A h \in 1 .. Len(chain) : Append(chain, e)[h] = chain[h]
      BY <1>0, AppendFacts
    <3>3. /\ Append(slots, cur') \in Seq(Nodes) /\ Len(Append(slots, cur')) = Len(slots) + 1
          /\ Append(slots, cur')[Len(slots) + 1] = cur'
          /\ \A h \in 1 .. Len(slots) : Append(slots, cur')[h] = slots[h]
      BY <2>2, AppendFacts
    <3>4. /\ Len(chain') = Len(chain) + 1 /\ chain'[Len(chain) + 1] = <<>>
          /\ \A h \in 1 .. Len(chain) : chain'[h] = chain[h]
      BY ZenonT(30), <2>1, <3>1, <3>2
    <3> QED
      BY ZenonT(30), <2>1, <2>2, <3>3, <3>4 DEF Tip
  <2>4. RoundInv(State)'
    BY ZenonT(30), <1>1, <1>3, <1>5, <2>2, EndBlockRound
  <2>5. PICK ts : ts = [tr EXCEPT ![<<Tip + 1, 0>>] = State']
    BY Zenon
  <2>6. tr \in [Nat \X Nat -> States] /\ State' \in States
    BY ZenonT(30), SMTT(30), <1>1, StateType DEF Trace
  <2>7. /\ ts \in [Nat \X Nat -> States]
        /\ ts[<<Tip + 1, 0>>] = State'
        /\ \A h, k \in Nat : h # Tip + 1 => ts[<<h, k>>] = tr[<<h, k>>]
    BY SMTT(60), <1>0, <2>5, <2>6
  <2>8. \A h \in 1 .. Tip : h \in Nat /\ h # Tip + 1
    BY <1>0
  <2>9. ASSUME NEW h \in 1 .. Tip, NEW k \in 1 .. Len(chain'[h])
        PROVE  ts[<<h, k>>] = After(ts[<<h, k - 1>>], chain'[h][k], h)
    <3>1. k \in Nat /\ k - 1 \in Nat /\ chain'[h] = chain[h]
      BY <1>0, <2>3, <2>9
    <3>2. ts[<<h, k>>] = tr[<<h, k>>] /\ ts[<<h, k - 1>>] = tr[<<h, k - 1>>]
      BY ZenonT(30), <2>7, <2>8, <3>1
    <3>3. tr[<<h, k>>] = After(tr[<<h, k - 1>>], chain[h][k], h)
      BY ZenonT(30), <1>1, <2>9, <3>1 DEF Trace
    <3> QED
      BY Zenon, <3>1, <3>2, <3>3
  <2>10. ASSUME NEW h \in 1 .. Tip
         PROVE  ts[<<h + 1, 0>>] = Advanced(ts[<<h, Len(chain'[h])>>], h)
    <3>1. ts[<<h, Len(chain[h])>>] = tr[<<h, Len(chain[h])>>] /\ chain'[h] = chain[h]
      BY ZenonT(30), <1>0, <2>3, <2>7, <2>8
    <3>2. CASE h = Tip
      BY ZenonT(30), SMTT(30), <1>2, <1>3, <1>5, <2>7, <3>1, <3>2
    <3>3. CASE h # Tip
      <4>1. h \in 1 .. Tip - 1 /\ h + 1 \in Nat /\ h + 1 # Tip + 1
        BY <1>0, <3>3
      <4>2. ts[<<h + 1, 0>>] = tr[<<h + 1, 0>>]
        BY ZenonT(30), <2>7, <4>1
      <4>3. tr[<<h + 1, 0>>] = Advanced(tr[<<h, Len(chain[h])>>], h)
        BY ZenonT(30), <1>1, <4>1 DEF Trace
      <4> QED
        BY ZenonT(30), <3>1, <4>2, <4>3
    <3> QED
      BY ZenonT(30), <3>2, <3>3
  <2>11. \A h \in 1 .. Tip + 1 : ts[<<h, 0>>].cur = slots'[h]
    <3> TAKE h \in 1 .. Tip + 1
    <3>1. CASE h = Tip + 1
      BY SMTT(30), <2>3, <2>7, <3>1 DEF State
    <3>2. CASE h \in 1 .. Tip
      <4>1. ts[<<h, 0>>] = tr[<<h, 0>>]
        BY ZenonT(30), SMTT(30), <2>7, <2>8, <3>2
      <4> QED
        BY Zenon, SMTT(30), <1>1, <2>3, <3>2, <4>1 DEF Trace
    <3> QED
      BY SMTT(60), <1>0, <3>1, <3>2
  <2>12. Trace(ts)'
    <3>1. \A h \in 1 .. Tip + 1 : \A k \in 1 .. Len(chain'[h]) :
            ts[<<h, k>>] = After(ts[<<h, k - 1>>], chain'[h][k], h)
      <4> TAKE h \in 1 .. Tip + 1
      <4>1. CASE h = Tip + 1
        <5>1. 1 .. Len(chain'[h]) = {}
          BY <2>3, <4>1
        <5> QED
          BY Zenon, <5>1
      <4>2. CASE h \in 1 .. Tip
        BY ZenonT(30), <2>9, <4>2
      <4>3. h = Tip + 1 \/ h \in 1 .. Tip
        BY <1>0
      <4> QED
        BY ZenonT(30), <4>1, <4>2, <4>3
    <3>2. (Tip + 1) - 1 = Tip
      BY SMTT(60), <1>0
    <3>3. ts[<<1, 0>>].cur = Bootstrap
      BY SMTT(60), <1>0, <1>1, <2>7 DEF Trace
    <3> QED
      BY ZenonT(30), <2>3, <2>7, <2>10, <2>11, <3>1, <3>2, <3>3 DEF Trace
  <2>13. OnTrace(ts)'
    <3>1. ts[<<1, 0>>] = tr[<<1, 0>>]
      BY SMTT(30), <1>0, <2>7
    <3>2. \A h \in 1 .. Tip : chain'[h] = chain[h] /\ ts[<<h, Len(chain[h])>>] = tr[<<h, Len(chain[h])>>]
      BY ZenonT(30), SMTT(30), <1>0, <2>3, <2>7, <2>8
    <3>3. done' <= Len(chain'[height']) /\ State' = ts[<<height', done'>>]
      BY SMTT(60), <1>2, <1>5, <2>3, <2>7
    <3> QED
      <4>1. /\ saved'.height = 0 => ts[<<1, 0>>].father = saved'.father /\ ts[<<1, 0>>].join = saved'.join
            /\ saved'.height # 0 =>
                 ts[<<saved'.height, Len(chain'[saved'.height])>>]
                   = [father |-> saved'.father, join |-> saved'.join, cur |-> saved'.cursor]
        BY Zenon, <1>1, <3>1, <3>2, SnapshotOnTrace
      <4> QED
        BY Zenon, SMTT(30), <3>3, <4>1 DEF OnTrace
  <2>14. RoundInv(ts[<<Tip, Len(chain[Tip])>>])'
    <3>1. ts[<<Tip', Len(chain'[Tip'])>>] = State'
      BY ZenonT(30), <2>3, <2>7
    <3> QED
      BY ZenonT(30), <2>4, <3>1 DEF RoundInv
  <2> QED
    BY ZenonT(30), <2>3, <2>12, <2>13, <2>14 DEF RingInv
<1> QED
  BY Zenon, <1>4, <1>5

LEMMA InitRing ==
    ASSUME Init, IInv
    PROVE  RingInv
<1>1. /\ chain = << <<>> >> /\ Tip = 1 /\ chain[1] = <<>> /\ Len(chain[1]) = 0
      /\ slots = <<Bootstrap>> /\ Len(slots) = 1 /\ slots[1] = Bootstrap /\ Bootstrap \in Nodes
      /\ height = 1 /\ done = 0 /\ cur = Bootstrap
      /\ saved.height = 0 /\ saved.father = father /\ saved.join = join
      /\ due = [n \in Nodes |-> {}]
  <2>1. Bootstrap \in Nodes
    BY SequenceAssumption DEF Bootstrap, Nodes
  <2> QED
    BY Zenon, <2>1 DEF Init, Tip
<1>2. State \in States
  BY Zenon DEF IInv, TypeOK, State, States, Members
<1>3. PICK tr : tr = [x \in Nat \X Nat |-> State]
  BY Zenon
<1>4. tr \in [Nat \X Nat -> States] /\ tr[<<1, 0>>] = State
  BY Zenon, <1>2, <1>3
<1>5. State.cur = Bootstrap /\ State.father = father /\ State.join = join
  BY ZenonT(30), <1>1 DEF State
<1>6. Trace(tr)
  <2>1. /\ 1 .. Tip = {1} /\ 1 .. Tip - 1 = {} /\ 1 .. Len(chain[1]) = {}
    BY SMTT(60), <1>1
  <2> QED
    BY ZenonT(30), <1>1, <1>4, <1>5, <2>1 DEF Trace
<1>7. OnTrace(tr)
  BY <1>1, <1>4, <1>5 DEF OnTrace
<1>8. RoundInv(tr[<<Tip, Len(chain[Tip])>>])
  <2>1. tr[<<Tip, Len(chain[Tip])>>] = State
    BY Zenon, <1>1, <1>4
  <2>2. due \in [Nodes -> SUBSET Nodes] /\ \A n \in Nodes : due[n] = {}
    BY Zenon, <1>1
  <2> QED
    BY ZenonT(30), <1>1, <1>5, <2>1, <2>2 DEF RoundInv
<1>9. slots \in Seq(Nodes)
  BY <1>1
<1> QED
  BY ZenonT(30), <1>1, <1>6, <1>7, <1>8, <1>9 DEF RingInv

(* Whatever snapshot a restart takes, the indexer replays the states it    *)
(* went through live, and the last of them is fair to every member.        *)
LEMMA RingInvariance == Spec => [](IInv /\ RingInv)
<1>1. Init /\ IInv => IInv /\ RingInv
  BY Zenon, InitRing
<1>2. IInv /\ IInv' /\ RingInv /\ [Next]_vars => RingInv'
  <2> SUFFICES ASSUME IInv, IInv', RingInv, [Next]_vars PROVE RingInv'
    BY Zenon
  <2>1. ASSUME NEW op \in Ops, NewOp(op) PROVE RingInv'
    BY Zenon, <2>1, NewOpRing
  <2>2. CASE ReplayOp
    BY Zenon, <2>2, ReplayOpRing
  <2>3. CASE EndBlock
    BY ZenonT(30), <2>3, EndBlockRing
  <2>4. CASE Restart
    BY Zenon, <2>4, RestartRing
  <2>5. CASE UNCHANGED vars
    <3>0. Tip' = Tip /\ chain' = chain /\ slots' = slots
      BY ZenonT(60), <2>5 DEF vars, Tip
    <3>1. PICK tr : Trace(tr) /\ OnTrace(tr) /\ RoundInv(tr[<<Tip, Len(chain[Tip])>>])
      BY ZenonT(60) DEF RingInv
    <3>2. Trace(tr)'
      BY ZenonT(60), <3>0, <3>1 DEF Trace
    <3>3. OnTrace(tr)'
      BY ZenonT(60), <2>5, <3>1 DEF vars, OnTrace, State
    <3>4. RoundInv(tr[<<Tip, Len(chain[Tip])>>])'
      BY ZenonT(60), <2>5, <3>0, <3>1 DEF vars, RoundInv
    <3> QED
      BY ZenonT(60), <3>0, <3>2, <3>3, <3>4 DEF RingInv
  <2> QED
    BY ZenonT(30), <2>1, <2>2, <2>3, <2>4, <2>5 DEF Next
<1> QED
  BY <1>1, <1>2, Invariance, PTL DEF Spec

LEMMA SlotAgrees == IInv /\ RingInv => SlotsAgree
<1> SUFFICES ASSUME IInv, RingInv, done = 0 PROVE cur = slots[height]
  BY Zenon DEF SlotsAgree
<1>1. PICK tr : Trace(tr) /\ OnTrace(tr)
  BY Zenon DEF RingInv
<1>2. height \in 1 .. Tip
  BY Zenon DEF IInv, TypeOK
<1>3. State = tr[<<height, 0>>]
  BY Zenon, <1>1 DEF OnTrace
<1>4. tr[<<height, 0>>].cur = slots[height]
  BY ZenonT(30), <1>1, <1>2 DEF Trace
<1> QED
  BY SMTT(30), <1>3, <1>4 DEF State

LEMMA SlotAgreesNext == IInv' /\ RingInv' => SlotsAgree'
BY SlotAgrees, PTL

(* MiningSequenceMgr.Init rebuilds the sequence that syncBlock advanced    *)
(* live: from any snapshot, for any number of nodes and of blocks, the     *)
(* replay arrives at the slot every block had when it first came.          *)
THEOREM SlotsAlwaysAgree == Spec => []SlotsAgree
BY RingInvariance, SlotAgrees, PTL

(* nextEligibleNode is fair: nobody has a second slot before every other   *)
(* node that was eligible at the first, and is still a member, had one,    *)
(* although addMinerNode and removeMinerNode change the ring in between.   *)
THEOREM AlwaysRoundRobin == Spec => []RoundRobin
<1>1. IInv /\ RingInv => RoundRobin
  <2> SUFFICES ASSUME IInv, RingInv, height = Tip, done = 0, chain[Tip] = <<>> PROVE due[cur] = {}
    BY Zenon DEF RoundRobin, AtBlockStart
  <2>1. cur = slots[Tip]
    BY ZenonT(30), SlotAgrees DEF SlotsAgree
  <2> QED
    BY ZenonT(30), <2>1 DEF RingInv, RoundInv
<1> QED
  BY <1>1, RingInvariance, PTL

-----------------------------------------------------------------------------
(* The walk of CheckMiningAddr.                                            *)

OnlyStakes == \A h \in 1 .. Tip : \A i \in DOMAIN chain[h] : chain[h][i].kind = "STAKE"

(* The members of today lead from each slot of q to the next, up to g.     *)
Walked(q, f, j, g) ==
    \A h \in 1 .. g :
      /\ q[h] \in Eligible(f, j, h)
      /\ h < g => q[h + 1] = Following(f, q[h], Eligible(f, j, h))

(* Before a block has operations, everybody joined in an earlier one; and  *)
(* as long as nobody left, the ring of today still holds all past turns.   *)
WalkInv ==
    /\ \A n \in Nodes : join[n] <= height /\ (done = 0 => join[n] < height) /\ saved.join[n] <= saved.height
    /\ OnlyStakes => /\ Walked(slots, father, join, height) /\ cur = slots[height]
                     /\ Walked(slots, saved.father, saved.join, saved.height + 1)

LEMMA FirstSame ==
    ASSUME NEW f, NEW g, NEW S, \A o \in S : Rank(f, o) = Rank(g, o)
    PROVE  First(f, S) = First(g, S)
<1> DEFINE P(n) == n \in S /\ \A o \in S : Rank(f, n) <= Rank(f, o)
           Q(n) == n \in S /\ \A o \in S : Rank(g, n) <= Rank(g, o)
<1>1. \A n : P(n) <=> Q(n)
  BY Zenon
<1> QED
  BY Zenon, <1>1 DEF First

LEMMA FollowingSame ==
    ASSUME NEW f, NEW g, NEW S, NEW n \in S, \A o \in S : Rank(f, o) = Rank(g, o)
    PROVE  Following(f, n, S) = Following(g, n, S)
<1> DEFINE later == {o \in S : Rank(f, o) > Rank(f, n)}
<1>1. later = {o \in S : Rank(g, o) > Rank(g, n)}
  BY ZenonT(30)
<1>2. First(f, later) = First(g, later) /\ First(f, S) = First(g, S)
  BY FirstSame
<1> HIDE DEF later
<1>3. /\ Following(f, n, S) = IF later # {} THEN First(f, later) ELSE First(f, S)
      /\ Following(g, n, S) = IF later # {} THEN First(g, later) ELSE First(g, S)
  <2>1. Following(f, n, S) = IF later # {} THEN First(f, later) ELSE First(f, S)
    BY Zenon  DEF Following, later
  <2>2. Following(g, n, S) = IF later # {} THEN First(g, later) ELSE First(g, S)
    BY Zenon, <1>1 DEF Following
  <2> QED
    BY Zenon, <2>1, <2>2
<1> QED
  BY <1>2, <1>3

(* On a set of members, the node before the next one is the node itself.   *)
LEMMA PrecedingFollowing ==
    ASSUME NEW f \in Parents, Tree(f), NEW S \in SUBSET MembersOf(f), NEW n \in S
    PROVE  Preceding(f, Following(f, n, S), S) = n
<1>1. PICK e : e = Following(f, n, S)
  BY Zenon, SMTT(30)
<1>2. /\ e \in S
      /\ \A o \in S : Rank(f, o) > Rank(f, n) => Rank(f, n) < Rank(f, e) /\ Rank(f, e) <= Rank(f, o)
      /\ \A o \in S : Rank(f, e) > Rank(f, n) \/ Rank(f, e) <= Rank(f, o)
  BY ZenonT(30), <1>1, FollowingFirst
<1>3. \A o \in S : Rank(f, o) \in Nat
  BY Zenon, MemberRank
<1> DEFINE earlier == {o \in S : Rank(f, o) < Rank(f, e)}
<1>4. CASE Rank(f, e) > Rank(f, n)
  <2>1. n \in earlier
    BY ZenonT(30), <1>4
  <2>2. Last(f, earlier) \in earlier /\ \A o \in earlier : Rank(f, o) <= Rank(f, Last(f, earlier))
    BY ZenonT(30), <2>1, FirstLeast
  <2>3. PICK l : l = Last(f, earlier)
    BY Zenon
  <2>4. l \in S /\ Rank(f, l) < Rank(f, e) /\ Rank(f, n) <= Rank(f, l)
    BY ZenonT(30), <2>1, <2>2, <2>3
  <2>5. Rank(f, l) = Rank(f, n)
    BY <1>2, <1>3, <2>4
  <2>6. l = n
    BY ZenonT(30), <2>4, <2>5, RankInjective
  <2>7. Preceding(f, e, S) = Last(f, earlier)
    BY Zenon, <2>1 DEF Preceding
  <2> QED
    BY ZenonT(30), <1>1, <2>3, <2>6, <2>7
<1>5. CASE ~(Rank(f, e) > Rank(f, n))
  <2>1. \A o \in S : Rank(f, e) <= Rank(f, o) /\ Rank(f, o) <= Rank(f, n)
    BY SMTT(60), <1>2, <1>3, <1>5
  <2>2. earlier = {}
    BY <1>2, <1>3, <2>1
  <2>3. Last(f, S) \in S /\ \A o \in S : Rank(f, o) <= Rank(f, Last(f, S))
    BY Zenon, FirstLeast
  <2>4. PICK l : l = Last(f, S)
    BY Zenon
  <2>5. l \in S /\ Rank(f, l) = Rank(f, n)
    BY SMTT(60), <1>3, <2>1, <2>3, <2>4
  <2>6. l = n
    BY ZenonT(30), <2>5, RankInjective
  <2>7. Preceding(f, e, S) = Last(f, S)
    BY Zenon, <2>2 DEF Preceding
  <2> QED
    BY ZenonT(30), <1>1, <2>4, <2>6, <2>7
<1> QED
  BY ZenonT(30), <1>4, <1>5

LEMMA StakeWalked ==
    ASSUME IInv, NEW op \in Ops, MayAdd(op), AddNode(op), NEW q, Walked(q, father, join, height)
    PROVE  Walked(q, father', join', height)
<1>0. /\ father \in Parents /\ join \in [Nodes -> Nat] /\ op.node \in Nodes /\ father[op.node] = None
      /\ height \in Nat
  <2>1. father \in Parents /\ join \in [Nodes -> Nat] /\ height \in Nat
    BY SMTT(30) DEF IInv, TypeOK, Tip
  <2>2. op.node \in Nodes /\ father[op.node] = None
    BY SequenceAssumption DEF MayAdd, Ops, Nodes
  <2> QED
    BY Zenon, <2>1, <2>2
<1>1. \A o \in Nodes : o # op.node => father'[o] = father[o] /\ join'[o] = join[o]
  BY Zenon, <1>0 DEF AddNode, Parents
<1>2. join'[op.node] = height
  BY Zenon, <1>0 DEF AddNode
<1> SUFFICES ASSUME NEW h \in 1 .. height
             PROVE  /\ q[h] \in Eligible(father', join', h)
                    /\ h < height => q[h + 1] = Following(father', q[h], Eligible(father', join', h))
  BY Zenon DEF Walked
<1> DEFINE E == Eligible(father, join, h)
<1>3. E \in SUBSET Nodes /\ op.node \notin E
  BY Zenon, <1>0 DEF Eligible
<1>4. Eligible(father', join', h) = E
  <2>1. ~(height < h)
    BY <1>0
  <2>2. op.node \notin Eligible(father', join', h)
    BY ZenonT(30), SMTT(30), <1>2, <2>1 DEF Eligible
  <2> QED
    BY Zenon, <1>1, <1>3, <2>2 DEF Eligible
<1>5. \A o \in E : Rank(father, o) = Rank(father', o)
  BY Zenon, <1>1, <1>3 DEF Rank
<1>6. q[h] \in E /\ (h < height => q[h + 1] = Following(father, q[h], E))
  BY Zenon DEF Walked
<1> HIDE DEF E
<1>7. Following(father, q[h], E) = Following(father', q[h], E)
  BY SMTT(60), <1>5, <1>6, FollowingSame
<1> QED
  BY ZenonT(30), <1>4, <1>6, <1>7

LEMMA AdvanceWalked ==
    ASSUME NEW f \in Parents, NEW j \in [Nodes -> Nat], NEW g \in Nat \ {0}, NEW q,
           Walked(q, f, j, g), q[g + 1] = nextEligibleNode(f, j, q[g], g)
    PROVE  Walked(q, f, j, g + 1)
<1> SUFFICES ASSUME NEW h \in 1 .. g + 1
             PROVE  /\ q[h] \in Eligible(f, j, h)
                    /\ h < g + 1 => q[h + 1] = Following(f, q[h], Eligible(f, j, h))
  BY Zenon DEF Walked
<1>1. q[g] \in Eligible(f, j, g)
  BY DEF Walked
<1>2. CASE h = g
  BY ZenonT(60), <1>1, <1>2 DEF nextEligibleNode
<1>3. CASE h = g + 1
  <2>1. q[g + 1] \in Eligible(f, j, g)
    BY Zenon, <1>1, FollowingIn DEF nextEligibleNode, Eligible
  <2>2. Eligible(f, j, g) \subseteq Eligible(f, j, g + 1)
    BY DEF Eligible
  <2> QED
    BY SMTT(60), <1>3, <2>1, <2>2
<1>4. CASE h \in 1 .. g /\ h < g
  BY Zenon, <1>4 DEF Walked
<1>5. h = g \/ h = g + 1 \/ (h \in 1 .. g /\ h < g)
  OBVIOUS
<1> QED
  BY ZenonT(60), <1>2, <1>3, <1>4, <1>5

LEMMA WalkedSame ==
    ASSUME NEW f, NEW j, NEW g \in Nat, NEW q, NEW r, \A h \in 1 .. g : q[h] = r[h], Walked(q, f, j, g)
    PROVE  Walked(r, f, j, g)
<1> SUFFICES ASSUME NEW h \in 1 .. g
             PROVE  /\ r[h] \in Eligible(f, j, h)
                    /\ h < g => r[h + 1] = Following(f, r[h], Eligible(f, j, h))
  BY Zenon DEF Walked
<1>1. q[h] = r[h] /\ (h < g => q[h + 1] = r[h + 1])
  <2>1. h < g => h + 1 \in 1 .. g
    OBVIOUS
  <2> QED
    BY Zenon, <2>1
<1> QED
  BY Zenon, <1>1 DEF Walked

(* Going back from the current slot.                                       *)
LEMMA BackAgrees ==
    ASSUME IInv, Walked(slots, father, join, height), cur = slots[height], NEW h \in 1 .. height - 1
    PROVE  SlotAtHeight(h) = slots[h]
<1>0. father \in Parents /\ Tree(father) /\ height \in Nat /\ h \in Nat /\ h < height
  BY SMTT(30) DEF IInv, TypeOK
<1> DEFINE Step(x, i) == Preceding(father, x, {n \in Members : join[n] < i})
           P(b) == b = [i \in h .. height |-> IF i = height THEN cur ELSE Step(b[i + 1], i)]
<1>1. \A i \in h .. height : i # height => Step(slots[i + 1], i) = slots[i]
  <2> SUFFICES ASSUME NEW i \in h .. height, i # height PROVE Step(slots[i + 1], i) = slots[i]
    BY Zenon
  <2>1. i \in 1 .. height /\ i < height
    BY <1>0
  <2>2. {n \in Members : join[n] < i} = Eligible(father, join, i)
    BY Zenon DEF Members, Eligible
  <2>3. slots[i] \in Eligible(father, join, i) /\ slots[i + 1] = Following(father, slots[i], Eligible(father, join, i))
    BY Zenon, <2>1 DEF Walked
  <2>4. Eligible(father, join, i) \in SUBSET MembersOf(father)
    BY Zenon DEF Eligible, MembersOf
  <2>5. Preceding(father, Following(father, slots[i], Eligible(father, join, i)), Eligible(father, join, i)) = slots[i]
    BY ZenonT(30), <1>0, <2>3, <2>4, PrecedingFollowing
  <2> QED
    BY Zenon, <2>2, <2>3, <2>5
<1>2. \E b : P(b)
  <2> DEFINE w == [i \in h .. height |-> slots[i]]
  <2>1. \A i \in h .. height : slots[i] = IF i = height THEN cur ELSE Step(w[i + 1], i)
    <3> SUFFICES ASSUME NEW i \in h .. height PROVE slots[i] = IF i = height THEN cur ELSE Step(w[i + 1], i)
      BY Zenon
    <3>1. i # height => i + 1 \in h .. height
      BY <1>0
    <3>2. i # height => w[i + 1] = slots[i + 1]
      BY Zenon, <3>1
    <3> HIDE DEF Step, w
    <3> QED
      BY ZenonT(30), SMTT(30), <1>1, <3>2
  <2> HIDE DEF Step
  <2>2. P(w)
    BY Zenon, <2>1
  <2> QED
    BY Zenon, <2>2
<1>3. PICK b : b = CHOOSE x : P(x)
  BY Zenon
<1>4. P(b)
  BY Zenon, <1>2, <1>3
<1>5. SlotAtHeight(h) = b[h]
  BY Zenon, <1>0, <1>3 DEF SlotAtHeight
<1> HIDE DEF Step
<1>6. b[height] = cur /\ \A i \in h .. height : i # height => b[i] = Step(b[i + 1], i)
  BY <1>0, <1>4
<1> HIDE DEF P
<1> DEFINE T == {k \in Nat : k <= height - h /\ b[height - k] # slots[height - k]}
<1>7. T = {}
  <2> SUFFICES ASSUME T # {} PROVE FALSE
    BY Zenon
  <2>1. PICK m \in T : \A k \in T : m <= k
    BY Zenon, Smallest
  <2>2. m \in Nat /\ m <= height - h /\ b[height - m] # slots[height - m]
    BY ZenonT(30), SMTT(30), <2>1
  <2>3. m # 0
    BY SMTT(60), <1>0, <1>6, <2>2
  <2>4. m - 1 \in Nat /\ m - 1 <= height - h /\ ~(m <= m - 1)
    BY <1>0, <2>2, <2>3
  <2>5. b[height - (m - 1)] = slots[height - (m - 1)]
    BY ZenonT(30), <2>1, <2>4
  <2>6. /\ height - m \in h .. height /\ height - m # height
        /\ height - (m - 1) = (height - m) + 1
    BY <1>0, <2>2, <2>3
  <2>7. b[height - m] = Step(b[(height - m) + 1], height - m)
    BY ZenonT(30), SMTT(30), <1>6, <2>6
  <2>8. Step(slots[(height - m) + 1], height - m) = slots[height - m]
    BY ZenonT(30), <1>1, <2>6
  <2> QED
    BY ZenonT(30), <2>2, <2>5, <2>6, <2>7, <2>8
<1>8. b[h] = slots[h]
  <2>1. height - h \in Nat /\ height - (height - h) = h
    BY <1>0
  <2> QED
    BY SMTT(60), <1>7, <2>1
<1> QED
  BY Zenon, <1>5, <1>8

(* Going forward from the current slot, at the start of a block.           *)
LEMMA AheadAgrees ==
    ASSUME IInv, \A n \in Nodes : join[n] < height, NEW h \in Nat, ~(h < height)
    PROVE  SlotAtHeight(h) = Ahead(h)
<1>0. height \in Nat /\ join \in [Nodes -> Nat]
  BY DEF IInv, TypeOK
<1> DEFINE Walk(x, i) == Following(father, x, {n \in Members : join[n] < i})
           Live(x, i) == nextEligibleNode(father, join, x, i - 1)
           P(b) == b = [i \in height .. h |-> IF i = height THEN cur ELSE Walk(b[i - 1], i)]
           Q(b) == b = [i \in height .. h |-> IF i = height THEN cur ELSE Live(b[i - 1], i)]
<1>1. \A x : \A i \in height .. h : i # height => Walk(x, i) = Live(x, i)
  <2> SUFFICES ASSUME NEW i \in height .. h, i # height
               PROVE  {n \in Members : join[n] < i} = Eligible(father, join, i - 1)
    BY Zenon DEF nextEligibleNode
  <2>1. \A n \in Nodes : join[n] \in Nat /\ join[n] < i /\ join[n] < i - 1
    BY <1>0
  <2> QED
    BY Zenon, <2>1 DEF Members, Eligible
<1>2. SlotAtHeight(h) = (CHOOSE b : P(b))[h]
  BY Zenon  DEF SlotAtHeight
<1>3. Ahead(h) = (CHOOSE b : Q(b))[h]
  BY Zenon  DEF Ahead
<1> HIDE DEF Walk, Live
<1>4. \A b : P(b) <=> Q(b)
  BY ZenonT(30), <1>1
<1>5. (CHOOSE b : P(b)) = (CHOOSE b : Q(b))
  BY ZenonT(30), <1>4
<1> HIDE DEF P, Q
<1> QED
  BY ZenonT(30), <1>2, <1>3, <1>5

LEMMA ApplyWalk ==
    ASSUME IInv, WalkInv, NEW op \in Ops, Apply(op), done' = done + 1, UNCHANGED <<height, saved, slots>>,
           OnlyStakes' => OnlyStakes /\ op.kind = "STAKE"
    PROVE  WalkInv'
<1>0. /\ height \in Nat /\ done \in Nat /\ join \in [Nodes -> Nat] /\ op.node \in Nodes
      /\ saved.height \in Nat
  <2>1. op.node \in Nodes
    BY SMTT(60), SequenceAssumption DEF Ops, Nodes
  <2>2. /\ height \in Nat /\ done \in Nat /\ join \in [Nodes -> Nat] /\ saved.height \in Nat
    BY DEF IInv, TypeOK, Tip
  <2> QED
    BY ZenonT(30), <2>1, <2>2
<1>1. \A n \in Nodes : join'[n] <= height
  <2>1. join' = join \/ join' = [join EXCEPT ![op.node] = height]
    BY Zenon DEF Apply, AddNode, RemoveNode
  <2>2. \A n \in Nodes : join[n] \in Nat /\ join[n] <= height
    BY Zenon, <1>0 DEF WalkInv
  <2> QED
    BY <1>0, <2>1, <2>2
<1>2. done' # 0
  BY <1>0
<1>3. ASSUME OnlyStakes'
      PROVE  Walked(slots, father', join', height) /\ cur' = cur
  <2>1. OnlyStakes /\ MayAdd(op) /\ AddNode(op)
    BY ZenonT(30), <1>3 DEF Apply
  <2>2. Walked(slots, father, join, height)
    BY ZenonT(30), <2>1 DEF WalkInv
  <2> QED
    BY ZenonT(30), <2>1, <2>2, StakeWalked DEF AddNode
<1> QED
  BY Zenon, <1>1, <1>2, <1>3 DEF WalkInv

LEMMA NewOpWalk ==
    ASSUME IInv, WalkInv, NEW op \in Ops, NewOp(op)
    PROVE  WalkInv'
<1>1. /\ chain \in Seq(Seq(Ops)) /\ Tip \in 1 .. Len(chain) /\ chain[Tip] \in Seq(Ops)
      /\ Tip = Len(chain) /\ Len(chain) \in Nat
  BY SMTT(60) DEF IInv, TypeOK, Tip
<1>2. PICK q : q = Append(chain[Tip], op)
  BY Zenon
<1>3. /\ Len(q) = Len(chain[Tip]) + 1 /\ DOMAIN q = 1 .. Len(q) /\ q[Len(chain[Tip]) + 1] = op
      /\ \A i \in DOMAIN chain[Tip] : i \in DOMAIN q /\ q[i] = chain[Tip][i]
      /\ Len(q) \in Nat \ {0} /\ Len(chain[Tip]) + 1 \in DOMAIN q
  BY SMTT(60), <1>1, <1>2
<1>4. /\ Tip' = Tip /\ chain'[Tip] = q /\ \A h \in 1 .. Tip : h # Tip => chain'[h] = chain[h]
  <2>1. chain' = [chain EXCEPT ![Tip] = q]
    BY ZenonT(30), <1>2 DEF NewOp
  <2> QED
    BY <1>1, <2>1 DEF Tip
<1>5. OnlyStakes' => OnlyStakes /\ op.kind = "STAKE"
  <2> SUFFICES ASSUME OnlyStakes' PROVE OnlyStakes /\ op.kind = "STAKE"
    BY ZenonT(30)
  <2>1. \A h \in 1 .. Tip : \A i \in DOMAIN chain'[h] : chain'[h][i].kind = "STAKE"
    BY ZenonT(30), <1>4 DEF OnlyStakes
  <2>2. \A i \in DOMAIN q : q[i].kind = "STAKE"
    BY ZenonT(30), <1>1, <1>4, <2>1
  <2>3. op.kind = "STAKE"
    BY ZenonT(30), <1>3, <2>2
  <2>4. ASSUME NEW h \in 1 .. Tip, NEW i \in DOMAIN chain[h] PROVE chain[h][i].kind = "STAKE"
    <3>1. CASE h = Tip
      BY ZenonT(30), <1>3, <2>2, <2>4, <3>1
    <3>2. CASE h # Tip
      BY ZenonT(30), <1>4, <2>1, <2>4, <3>2
    <3> QED
      BY ZenonT(30), <3>1, <3>2
  <2> QED
    BY ZenonT(30), <2>3, <2>4 DEF OnlyStakes
<1>6. Apply(op) /\ done' = done + 1 /\ UNCHANGED <<height, saved, slots>>
  BY ZenonT(30) DEF NewOp
<1> QED
  BY ZenonT(30), <1>5, <1>6, ApplyWalk

LEMMA ReplayOpWalk ==
    ASSUME IInv, WalkInv, ReplayOp
    PROVE  WalkInv'
<1>1. /\ chain \in Seq(Seq(Ops)) /\ height \in 1 .. Tip /\ chain[height] \in Seq(Ops) /\ done \in Nat
  BY DEF IInv, TypeOK, Tip
<1>2. done + 1 \in DOMAIN chain[height] /\ chain[height][done + 1] \in Ops
  BY <1>1 DEF ReplayOp
<1>3. UNCHANGED <<chain, height, saved, slots>> /\ done' = done + 1 /\ Apply(chain[height][done + 1])
  BY Zenon, SMTT(30) DEF ReplayOp
<1>4. OnlyStakes' => OnlyStakes /\ chain[height][done + 1].kind = "STAKE"
  BY ZenonT(30), <1>1, <1>2, <1>3 DEF OnlyStakes, Tip
<1> QED
  BY ZenonT(30), <1>2, <1>3, <1>4, ApplyWalk

LEMMA EndBlockWalk ==
    ASSUME IInv, IInv', RingInv, RingInv', WalkInv, EndBlock
    PROVE  WalkInv'
<1>0. /\ height \in 1 .. Tip /\ Tip \in Nat /\ height \in Nat \ {0}
      /\ father \in Parents /\ join \in [Nodes -> Nat] /\ saved.height \in 0 .. Tip - 1
      /\ saved.join \in [Nodes -> Nat]
      /\ height' = height + 1 /\ done' = 0 /\ father' = father /\ join' = join
      /\ saved' = saved \/ saved' = [father |-> father, join |-> join, height |-> height, cursor |-> cur]
      /\ cur' = nextEligibleNode(father, join, cur, height)
  <2>1. /\ height \in 1 .. Tip /\ Tip \in Nat
        /\ father \in Parents /\ join \in [Nodes -> Nat] /\ saved.height \in 0 .. Tip - 1
        /\ saved.join \in [Nodes -> Nat]
    <3>0. chain \in Seq(Seq(Ops)) /\ height \in 1 .. Tip /\ father \in Parents /\ join \in [Nodes -> Nat]
      BY Zenon DEF IInv, TypeOK
    <3>1. Tip \in Nat
      BY SMTT(30), <3>0 DEF Tip
    <3>2. saved \in [father: Parents, join: [Nodes -> Nat], height: 0 .. Tip - 1, cursor: Nodes]
      BY Zenon, SMTT(30) DEF IInv, TypeOK
    <3> QED
      BY ZenonT(30), <3>0, <3>1, <3>2
  <2>2. /\ height' = height + 1 /\ done' = 0 /\ father' = father /\ join' = join
        /\ saved' = saved \/ saved' = [father |-> father, join |-> join, height |-> height, cursor |-> cur]
        /\ cur' = nextEligibleNode(father, join, cur, height)
    BY ZenonT(30), SMTT(30) DEF EndBlock, MoveMiningAddr, Snapshot
  <2> QED
    BY SMTT(60), <2>1, <2>2
<1>1. cur' = slots'[height + 1]
  <2>1. SlotsAgree'
    BY ZenonT(30), SMTT(30), SlotAgreesNext
  <2> QED
    BY ZenonT(30), <1>0, <2>1 DEF SlotsAgree
<1>2. \A h \in 1 .. Tip : slots'[h] = slots[h]
  <2>1. slots' = slots \/ slots' = Append(slots, cur')
    BY DEF EndBlock
  <2>2. slots \in Seq(Nodes) /\ Len(slots) = Tip
    BY Zenon  DEF RingInv
  <2>3. cur' \in Nodes
    BY Zenon DEF IInv, TypeOK, Members
  <2> QED
    BY SMTT(60), <2>1, <2>2, <2>3, AppendFacts
<1>3. OnlyStakes' => OnlyStakes
  <2>1. chain' = chain \/ chain' = Append(chain, <<>>)
    BY Zenon DEF EndBlock
  <2>2. chain \in Seq(Seq(Ops)) /\ <<>> \in Seq(Ops)
    BY DEF IInv, TypeOK
  <2>3. PICK e \in Seq(Ops) : e = <<>>
    BY ZenonT(60), <2>2
  <2>4. /\ Len(Append(chain, e)) = Len(chain) + 1
        /\ \A h \in 1 .. Len(chain) : Append(chain, e)[h] = chain[h]
    BY SMTT(60), <2>2, AppendFacts
  <2>5. Len(chain) \in Nat
    BY <2>2
  <2>6. Len(chain) <= Len(chain') /\ \A h \in 1 .. Len(chain) : chain'[h] = chain[h]
    BY SMTT(60), <2>1, <2>3, <2>4, <2>5
  <2>7. Len(chain') \in Nat
    BY SMTT(60), <2>1, <2>3, <2>4, <2>5
  <2>8. \A h \in 1 .. Len(chain) : h \in 1 .. Len(chain')
    BY SMTT(60), <2>5, <2>6, <2>7
  <2> QED
    BY ZenonT(30), <2>6, <2>8 DEF OnlyStakes, Tip
<1>4. ASSUME OnlyStakes'
      PROVE  /\ Walked(slots', father, join, height + 1)
             /\ Walked(slots', saved.father, saved.join, saved.height + 1)
  <2>1. /\ Walked(slots, father, join, height) /\ cur = slots[height]
        /\ Walked(slots, saved.father, saved.join, saved.height + 1)
    BY SMTT(30), <1>3, <1>4 DEF WalkInv
  <2>2. Walked(slots', father, join, height)
    <3>1. \A h \in 1 .. height : slots[h] = slots'[h]
      BY SMTT(60), <1>0, <1>2
    <3> QED
      BY ZenonT(60), SMTT(30), <1>0, <2>1, <3>1, WalkedSame
  <2>3. slots'[height] = cur
    BY ZenonT(60), SMTT(30), <1>0, <1>2, <2>1
  <2>4. Walked(slots', father, join, height + 1)
    BY ZenonT(30), <1>0, <1>1, <2>2, <2>3, AdvanceWalked
  <2>5. Walked(slots', saved.father, saved.join, saved.height + 1)
    <3>1. saved.height + 1 \in Nat /\ \A h \in 1 .. saved.height + 1 : slots[h] = slots'[h]
      BY SMTT(60), <1>0, <1>2
    <3> QED
      BY ZenonT(30), <2>1, <3>1, WalkedSame
  <2> QED
    BY ZenonT(30), SMTT(30), <2>4, <2>5
<1>5. \A n \in Nodes : join[n] \in Nat /\ join[n] <= height /\ saved.join[n] \in Nat /\ saved.join[n] <= saved.height
  BY ZenonT(30), <1>0 DEF WalkInv
<1>6. \A n \in Nodes : join'[n] <= height' /\ join'[n] < height'
  BY SMTT(60), <1>0, <1>5
<1>7. CASE saved' = saved
  BY ZenonT(60), <1>0, <1>1, <1>4, <1>5, <1>6, <1>7 DEF WalkInv
<1>8. CASE saved' = [father |-> father, join |-> join, height |-> height, cursor |-> cur]
  <2>1. saved'.father = father /\ saved'.join = join /\ saved'.height = height
    BY SMTT(30), <1>8
  <2> QED
    BY ZenonT(30), <1>0, <1>1, <1>4, <1>5, <1>6, <2>1 DEF WalkInv
<1> QED
  BY ZenonT(30), SMTT(30), <1>0, <1>7, <1>8

LEMMA RestartWalk ==
    ASSUME IInv, IInv', RingInv', WalkInv, Restart
    PROVE  WalkInv'
<1>1. /\ UNCHANGED <<chain, saved, slots>> /\ done' = 0 /\ height' = saved.height + 1
      /\ father' = saved.father /\ join' = saved.join
  BY Zenon DEF Restart
<1>2. cur' = slots'[height']
  BY SMTT(60), <1>1, SlotAgreesNext DEF SlotsAgree
<1>3. \A n \in Nodes : saved.join[n] \in Nat /\ saved.join[n] <= saved.height /\ saved.height \in Nat
  <2>1. saved.join \in [Nodes -> Nat] /\ saved.height \in Nat
    BY SMTT(60) DEF IInv, TypeOK, Tip
  <2> QED
    BY ZenonT(30), <2>1 DEF WalkInv
<1>4. \A n \in Nodes : join'[n] <= height' /\ join'[n] < height'
  BY SMTT(30), <1>1, <1>3
<1>5. OnlyStakes' => OnlyStakes
  BY SMTT(30), <1>1 DEF OnlyStakes, Tip
<1> QED
  BY ZenonT(30), <1>1, <1>2, <1>3, <1>4, <1>5 DEF WalkInv

LEMMA InitWalk ==
    ASSUME Init, IInv
    PROVE  WalkInv
<1>1. /\ height = 1 /\ saved.height = 0 /\ saved.father = father /\ saved.join = join /\ cur = Bootstrap
      /\ slots[1] = Bootstrap /\ \A n \in Nodes : join[n] = 0
  BY ZenonT(30), SMTT(30) DEF Init
<1>2. Bootstrap \in Eligible(father, join, 1)
  <2>1. Bootstrap \in Nodes /\ Bootstrap # None
    BY SequenceAssumption DEF Bootstrap, Nodes
  <2>2. father[Bootstrap] = Bootstrap /\ join[Bootstrap] = 0
    BY ZenonT(30) DEF IInv, Tree
  <2> QED
    BY SMTT(60), <2>1, <2>2 DEF Eligible
<1>3. Walked(slots, father, join, 1)
  <2>1. 1 .. 1 = {1} /\ ~(1 < 1)
    OBVIOUS
  <2> QED
    BY ZenonT(30), <1>1, <1>2, <2>1 DEF Walked
<1>4. 0 + 1 = 1
  OBVIOUS
<1> QED
  BY SMTT(60), <1>1, <1>3, <1>4 DEF WalkInv

LEMMA WalkInvariance == Spec => []WalkInv
<1>1. Init /\ IInv => WalkInv
  BY ZenonT(30), InitWalk
<1>2. IInv /\ RingInv /\ IInv' /\ RingInv' /\ WalkInv /\ [Next]_vars => WalkInv'
  <2> SUFFICES ASSUME IInv, IInv', RingInv, RingInv', WalkInv, [Next]_vars PROVE WalkInv'
    BY Zenon
  <2>1. ASSUME NEW op \in Ops, NewOp(op) PROVE WalkInv'
    BY SMTT(60), <2>1, NewOpWalk
  <2>2. CASE ReplayOp
    BY ZenonT(30), <2>2, ReplayOpWalk
  <2>3. CASE EndBlock
    BY ZenonT(30), <2>3, EndBlockWalk
  <2>4. CASE Restart
    BY ZenonT(30), SMTT(30), <2>4, RestartWalk
  <2>5. CASE UNCHANGED vars
    BY ZenonT(30), <2>5 DEF vars, WalkInv, OnlyStakes, Tip
  <2> QED
    BY ZenonT(30), <2>1, <2>2, <2>3, <2>4, <2>5 DEF Next
<1> QED
  BY <1>1, <1>2, Invariance, RingInvariance, PTL DEF Spec

(* CheckMiningAddr walks to the right slot: back over every block mined so *)
(* far when nobody has left, and ahead to the slot that nextEligibleNode   *)
(* will give, for any number of blocks.                                    *)
THEOREM WalkAlwaysAgrees == Spec => []WalkAgrees
<1>1. IInv /\ WalkInv => WalkAgrees
  <2> SUFFICES ASSUME IInv, WalkInv, done = 0
               PROVE  /\ OnlyStakes => \A h \in 1 .. height - 1 : CheckMiningAddr(h, slots[h])
                      /\ \A h \in height .. MaxHeight : CheckMiningAddr(h, Ahead(h))
    BY Zenon DEF WalkAgrees, AtBlockStart, OnlyStakes
  <2>0. height \in Nat
    BY DEF IInv, TypeOK, Tip
  <2>1. ASSUME OnlyStakes, NEW h \in 1 .. height - 1 PROVE CheckMiningAddr(h, slots[h])
    <3>1. SlotAtHeight(h) = slots[h]
      BY Zenon, <2>1, BackAgrees DEF WalkInv
    <3> QED
      BY Zenon, SMTT(30), <3>1 DEF CheckMiningAddr
  <2>2. ASSUME NEW h \in height .. MaxHeight PROVE CheckMiningAddr(h, Ahead(h))
    <3>1. h \in Nat /\ ~(h < height)
      BY SMTT(30), <2>0, SequenceAssumption
    <3>2. SlotAtHeight(h) = Ahead(h)
      BY Zenon, <3>1, AheadAgrees DEF WalkInv
    <3> QED
      BY Zenon, <3>2 DEF CheckMiningAddr
  <2> QED
    BY ZenonT(30), SMTT(30), <2>1, <2>2
<1> QED
  BY <1>1, Invariance, WalkInvariance, PTL
=============================================================================
