-------------------------- MODULE ChainRecordsProofs --------------------------
(***************************************************************************)
(* What a restart needs of the stored best chain is stored, whatever       *)
(* blocks, transactions and orphans arrive, whatever the administrator     *)
(* does, and wherever commits fail and the process dies, for any tree of   *)
(* blocks.  What spends what does not matter.                              *)
(***************************************************************************)
EXTENDS ChainNode, FiniteSetTheorems, WellFoundedInduction, TLAPS

Real == Blocks \ {Genesis}

Fields == {"stage", "b", "queue", "detach", "attach", "view", "stxos", "after", "note", "kind"}
Buckets == {"blocks", "rows", "best", "utxo", "marker", "journal", "anchors"}

-----------------------------------------------------------------------------
(* What the operators that pick blocks return.                             *)

LEMMA AboveType ==
    ASSUME NEW a \in Blocks, NEW b \in Blocks
    PROVE  Above(a, b) \in Seq(Real)
<1> DEFINE common == {i \in DOMAIN Path[b] : Path[b][i] \in Chain(a)}
<1>1. Path[b] \in Seq(Real)
  BY Zenon, HeightAssumption DEF Real
<1>2. IsFiniteSet(common)
  <2>1. common \in SUBSET (1..Len(Path[b])) /\ Len(Path[b]) \in Nat
    BY SMTT(60), <1>1
  <2>2. IsFiniteSet(1..Len(Path[b]))
    BY SMTT(60), <2>1, FS_Interval
  <2>3. QED
    BY ZenonT(30), <2>1, <2>2, FS_Subset
<1>3. ForkHeight(a, b) \in Nat
  BY ZenonT(60), <1>2, FS_CardinalityType DEF ForkHeight
<1>4. QED
  BY SMTT(60), <1>1, <1>3 DEF Above

LEMMA ReverseType ==
    ASSUME NEW S, NEW s \in Seq(S)
    PROVE  Reverse(s) \in Seq(S)
BY DEF Reverse

LEMMA RemoveAtType ==
    ASSUME NEW S, NEW s \in Seq(S), NEW i \in DOMAIN s
    PROVE  RemoveAt(s, i) \in Seq(S)
<1>1. i \in 1..Len(s)
  OBVIOUS
<1>2. SubSeq(s, 1, i - 1) \in Seq(S) /\ SubSeq(s, i + 1, Len(s)) \in Seq(S)
  BY SMTT(60), <1>1
<1>3. QED
  BY <1>2 DEF RemoveAt

(* No step changes the plan.                                               *)
LEMMA PlanStays == Next => plan' = plan
<1> USE DEF Next
<1>1. ASSUME NEW b, ProcessBlock(b) \/ RecoverStoredPOSBlock(b) \/ addOrphanBlock(b) PROVE plan' = plan
  BY ZenonT(60), <1>1 DEF ProcessBlock, RecoverStoredPOSBlock, addOrphanBlock
<1>2. ASSUME NEW b, InvalidateSide(b) \/ InvalidateBest(b) \/ ReconsiderBlock(b) PROVE plan' = plan
  BY ZenonT(60), <1>2 DEF InvalidateSide, InvalidateBest, ReconsiderBlock
<1>3. ASSUME NEW c, StoreBlock(c) \/ AddNode(c) \/ ExtendKnownValid(c) \/ ExtendChecked(c)
                    \/ KeepSideChain(c) \/ SwitchBranch(c) \/ PrepareDisconnect(c) \/ disconnectBlock(c)
                    \/ DisconnectFails(c)
      PROVE  plan' = plan
  BY ZenonT(60), <1>3 DEF StoreBlock, AddNode, ExtendKnownValid, ExtendChecked, KeepSideChain, SwitchBranch,
              PrepareDisconnect, disconnectBlock, DisconnectFails
<1>4. ASSUME NEW c, PrepareConnect(c) \/ connectBlock(c) \/ ConnectUnannounced(c) \/ ConnectFails(c)
                    \/ Relock(c) \/ Reorganized(c) \/ FinishAcceptance(c) \/ AcceptedSyncFails(c)
                    \/ NextOrphan(c) \/ NoMoreOrphans(c) \/ ChooseBestTip(c)
      PROVE  plan' = plan
  BY ZenonT(60), <1>4 DEF PrepareConnect, connectBlock, ConnectUnannounced, ConnectFails, Relock,
              Reorganized, FinishAcceptance, AcceptedSyncFails, NextOrphan, NoMoreOrphans, ChooseBestTip
<1>5. ASSUME NEW t, FetchUtxoEntry(t) \/ handleTxMsg(t) \/ SendRawTransaction(t) PROVE plan' = plan
  BY ZenonT(60), <1>5 DEF FetchUtxoEntry, handleTxMsg, SendRawTransaction
<1>6. FlushUtxoCache \/ FlushFails \/ CrashAndRestart \/ RemoveOrphansByTag => plan' = plan
  BY Zenon DEF FlushUtxoCache, FlushFails, CrashAndRestart, RemoveOrphansByTag
<1>7. ASSUME NEW c, handleBlockchainNotification(c) PROVE plan' = plan
  BY ZenonT(60), <1>7 DEF handleBlockchainNotification
<1>8. QED
  BY ZenonT(60), <1>1, <1>2, <1>3, <1>4, <1>5, <1>6, <1>7 DEF ChainStep, CallStep

-----------------------------------------------------------------------------
(* The records of the stored best chain, whoever moves it.                 *)

(* A call's record: its block is stored unless that is its next step, and  *)
(* so is all it has to attach.                                             *)
Doing(r, stored) ==
    /\ DOMAIN r = Fields
    /\ r.b \in Real
    /\ IF r.stage = "store" THEN Parent[r.b] \in stored ELSE r.b \in stored
    /\ r.detach \in Seq(Real)
    /\ r.attach \in Seq(Real \cap stored)
    /\ r.queue \in Seq(stored)
    /\ r.note \in Seq(Tx)

(* The block about to be detached is the tip; the one about to be          *)
(* committed extends it.                                                   *)
Poised(r, t) ==
    /\ r.stage = "disconnect" => r.detach # <<>> /\ Head(r.detach) = t
    /\ r.stage = "commit" => r.attach # <<>> /\ Parent[Head(r.attach)] = t

Exclusive == {"disconnect", "commit"}

Engaged(c) ==
    /\ Doing(call[c], db.blocks)
    /\ Poised(call[c], tip)
    /\ call[c].stage \in Exclusive => owner = c

Calls == DOMAIN call = Callers /\ \A c \in Callers : call[c] = Idle \/ Engaged(c)

(* The stored blocks are closed under parents.                             *)
Stock ==
    /\ DOMAIN db = Buckets
    /\ db.blocks \subseteq Blocks
    /\ \A b \in db.blocks : Chain(b) \subseteq db.blocks
    /\ DOMAIN index \subseteq db.blocks /\ DOMAIN db.rows \subseteq db.blocks
    /\ tip \in db.blocks /\ db.best \in db.blocks
    /\ orphans \in Seq(Real)

(* The stored best block is the tip, or was committed by a call whose sync *)
(* then failed.                                                            *)
Ahead ==
    /\ torn = "cache" /\ posErr
    /\ db.best \in Real /\ Parent[db.best] = tip

Written ==
    torn # "db" =>
        /\ db.marker \in Chain(db.best)
        /\ DOMAIN db.journal = Chain(db.best) \ {Genesis}
        /\ db.best = tip \/ Ahead

RInv == Calls /\ Stock /\ Written

(* Chains and paths.                                                       *)

LEMMA SeqMono ==
    ASSUME NEW S, NEW T, S \subseteq T, NEW s \in Seq(S)
    PROVE  s \in Seq(T)
OBVIOUS

LEMMA ChainSteps ==
    /\ Chain(Genesis) = {Genesis}
    /\ \A b \in Real : Parent[b] \in Blocks /\ Chain(b) = Chain(Parent[b]) \cup {b}
<1>1. Chain(Genesis) = {Genesis}
  BY SMTT(60), HeightAssumption DEF Chain, ToSet
<1>2. ASSUME NEW b \in Real PROVE Parent[b] \in Blocks /\ Chain(b) = Chain(Parent[b]) \cup {b}
  <2>1. Parent[b] \in Blocks
    BY ZenonT(60), TreeAssumption DEF Real
  <2>2. Path[Parent[b]] \in Seq(Blocks) /\ Path[b] = Append(Path[Parent[b]], b)
    <3>1. Path[Parent[b]] \in Seq(Real) /\ Path[b] = Append(Path[Parent[b]], b)
      BY ZenonT(60), <2>1, HeightAssumption DEF Real
    <3>2. QED
      BY SMTT(60), <3>1, SeqMono DEF Real
  <2> DEFINE s == Path[Parent[b]]
  <2>3. ToSet(Append(s, b)) = ToSet(s) \cup {b}
    <3> HIDE DEF s
    <3>1. s \in Seq(Blocks)
      BY SMTT(60), <2>2 DEF s
    <3>2. /\ DOMAIN Append(s, b) = 1..(Len(s) + 1) /\ DOMAIN s = 1..Len(s) /\ Len(s) \in Nat
          /\ Append(s, b)[Len(s) + 1] = b /\ \A i \in 1..Len(s) : Append(s, b)[i] = s[i]
      BY SMTT(60), <3>1
    <3>3. QED
      BY SMTT(60), <3>2 DEF ToSet
  <2>4. QED
    BY ZenonT(60), <2>1, <2>2, <2>3 DEF Chain
<1>3. QED
  BY ZenonT(60), <1>1, <1>2

LEMMA TipOnChain ==
    /\ \A b \in Blocks : b \in Chain(b) /\ Genesis \in Chain(b)
    /\ \A b \in Real : Parent[b] \in Chain(b)
BY ZenonT(60), ChainSteps DEF Real, Chain

(* Nothing on a chain is higher than its last block.                       *)
LEMMA ChainBelow ==
    ASSUME NEW b \in Blocks, NEW n \in Chain(b)
    PROVE  n \in Blocks /\ Height[n] <= Height[b]
<1> DEFINE Good(x) == \A m \in Chain(x) : m \in Blocks /\ Height[m] <= Height[x]
           T == {Height[x] : x \in {y \in Blocks : ~Good(y)}}
           R == {ss \in Nat \X Nat : ss[1] < ss[2]}
<1>1. SUFFICES ASSUME ~Good(b) PROVE FALSE
  BY Zenon
<1>2. T \in SUBSET Nat /\ T # {}
  BY ZenonT(60), <1>1, HeightAssumption
<1>3. IsWellFoundedOn(R, Nat)
  BY Zenon, NatLessThanWellFounded DEF OpToRel
<1>4. \A x, y \in Nat : x < y => <<x, y>> \in R
  BY Zenon
<1> HIDE DEF R
<1>5. PICK t \in T : \A y \in T : ~(<<y, t>> \in R)
  BY ZenonT(60), <1>2, <1>3, WFMin
<1>6. PICK x \in Blocks : t = Height[x] /\ ~Good(x)
  BY ZenonT(60), <1>5
<1>7. x \in Real
  BY SMTT(60), <1>6, ChainSteps, HeightAssumption, TreeAssumption DEF Real
<1>8. Parent[x] \in Blocks /\ Chain(x) = Chain(Parent[x]) \cup {x}
  BY Zenon, <1>7, ChainSteps
<1>9. Height[x] = Height[Parent[x]] + 1 /\ Height[x] \in Nat /\ Height[Parent[x]] \in Nat
  BY Zenon, <1>7, <1>8, HeightAssumption DEF Real
<1>10. CASE Good(Parent[x])
  <2>1. \A m \in Chain(Parent[x]) : m \in Blocks /\ Height[m] \in Nat /\ Height[m] <= Height[Parent[x]]
    BY Zenon, <1>10, HeightAssumption
  <2>2. Good(x)
    BY <1>8, <1>9, <2>1
  <2>3. QED
    BY Zenon, <1>6, <2>2
<1>11. CASE ~Good(Parent[x])
  <2>1. Height[Parent[x]] \in T
    BY Zenon, <1>8, <1>11
  <2>2. Height[Parent[x]] < Height[x]
    BY <1>9
  <2>3. QED
    BY Zenon, <1>4, <1>5, <1>6, <1>9, <2>1, <2>2
<1>12. QED
  BY ZenonT(60), <1>10, <1>11

LEMMA NotOnParentsChain ==
    ASSUME NEW b \in Real
    PROVE  b \notin Chain(Parent[b])
<1>1. Parent[b] \in Blocks /\ Height[b] = Height[Parent[b]] + 1 /\ Height[Parent[b]] \in Nat
  BY Zenon, ChainSteps, HeightAssumption DEF Real
<1>2. ~(Height[b] <= Height[Parent[b]])
  BY SMTT(60), <1>1
<1>3. QED
  BY Zenon, <1>1, <1>2, ChainBelow

(* What Above picks is on the chain.                                       *)
LEMMA AboveOnChain ==
    ASSUME NEW a \in Blocks, NEW b \in Blocks
    PROVE  Above(a, b) \in Seq(Real \cap Chain(b))
<1>1. Path[b] \in Seq(Real)
  BY Zenon, HeightAssumption DEF Real
<1>2. Path[b] \in Seq(Real \cap Chain(b))
  <2>1. \A i \in DOMAIN Path[b] : Path[b][i] \in Real \cap Chain(b)
    BY SMTT(60), <1>1 DEF Chain, ToSet
  <2>2. QED
    BY SMTT(60), <1>1, <2>1
<1>3. ForkHeight(a, b) \in Nat
  <2> DEFINE common == {i \in DOMAIN Path[b] : Path[b][i] \in Chain(a)}
  <2>1. common \in SUBSET (1..Len(Path[b])) /\ Len(Path[b]) \in Nat
    BY SMTT(60), <1>1
  <2>2. IsFiniteSet(1..Len(Path[b]))
    BY <2>1, FS_Interval
  <2>3. IsFiniteSet(common)
    BY ZenonT(30), <2>1, <2>2, FS_Subset
  <2>4. QED
    BY Zenon, <2>3, FS_CardinalityType DEF ForkHeight
<1>4. QED
  BY SMTT(60), <1>2, <1>3 DEF Above

LEMMA LeastNat ==
    ASSUME NEW S \in SUBSET Nat, S # {}
    PROVE  \E n \in S : \A m \in S : ~(m < n)
<1> DEFINE R == {ss \in Nat \X Nat : ss[1] < ss[2]}
<1>1. IsWellFoundedOn(R, Nat)
  BY ZenonT(60), NatLessThanWellFounded DEF OpToRel
<1>2. \A x, y \in Nat : x < y => <<x, y>> \in R
  BY Zenon
<1> HIDE DEF R
<1>3. PICK n \in S : \A m \in S : ~(<<m, n>> \in R)
  BY ZenonT(60), <1>1, WFMin
<1>4. QED
  BY ZenonT(60), <1>2, <1>3

(* Downward keeps only members of the path.  Its recursive function exists *)
(* because a function for each shorter prefix does.                        *)
LEMMA DownwardType ==
    ASSUME NEW S, NEW s \in Seq(S), NEW keep
    PROVE  Downward(s, keep) \in Seq(S)
<1> DEFINE At(f, i) == IF i = 0 THEN <<>>
                       ELSE IF s[i] \in keep THEN <<s[i]>> \o f[i - 1] ELSE f[i - 1]
           F == CHOOSE f : f = [i \in 0..Len(s) |-> At(f, i)]
           Ok(f, n) == f \in [0..n -> Seq(S)] /\ \A i \in 0..n : f[i] = At(f, i)
           Bad == {n \in Nat : n <= Len(s) /\ ~\E f : Ok(f, n)}
<1>1. Len(s) \in Nat /\ \A i \in 1..Len(s) : s[i] \in S
  OBVIOUS
<1>2. Bad = {}
  <2>1. SUFFICES ASSUME Bad # {} PROVE FALSE
    BY Zenon
  <2>2. PICK n \in Bad : \A m \in Bad : ~(m < n)
    <3>1. Bad \in SUBSET Nat
      BY Zenon
    <3> HIDE DEF Bad
    <3>2. QED
      BY ZenonT(60), <2>1, <3>1, LeastNat
  <2>3. n \in Nat /\ n <= Len(s) /\ ~\E f : Ok(f, n)
    BY ZenonT(60), <2>2
  <2>4. CASE n = 0
    <3> DEFINE f == [i \in 0..0 |-> <<>>]
    <3>1. Ok(f, 0)
      <4>1. 0..0 = {0} /\ <<>> \in Seq(S)
        OBVIOUS
      <4>2. QED
        BY ZenonT(60), <4>1
    <3>2. QED
      BY ZenonT(60), <2>3, <2>4, <3>1
  <2>5. CASE n # 0
    <3>1. n - 1 \in Nat /\ n - 1 <= Len(s) /\ n - 1 < n /\ n \in 1..Len(s)
      BY SMTT(60), <1>1, <2>3, <2>5
    <3>2. PICK g : Ok(g, n - 1)
      BY ZenonT(60), <2>2, <3>1
    <3> DEFINE e == At(g, n)
               f == [i \in 0..n |-> IF i = n THEN e ELSE g[i]]
    <3>3. g[n - 1] \in Seq(S) /\ s[n] \in S
      BY SMTT(60), <1>1, <3>1, <3>2
    <3>4. e \in Seq(S)
      <4>1. <<s[n]>> \o g[n - 1] \in Seq(S)
        BY SMTT(60), <3>3
      <4>2. QED
        BY ZenonT(60), <2>5, <3>3, <4>1
    <3> HIDE DEF e
    <3>5. f \in [0..n -> Seq(S)]
      BY SMTT(60), <2>3, <3>1, <3>2, <3>4
    <3>6. ASSUME NEW i \in 0..n PROVE f[i] = At(f, i)
      <4>1. CASE i = n
        <5>1. f[n] = e /\ f[n - 1] = g[n - 1]
          BY SMTT(60), <2>3, <3>1
        <5>2. QED
          BY ZenonT(60), <4>1, <5>1 DEF e
      <4>2. CASE i # n
        <5>1. i \in 0..(n - 1) /\ f[i] = g[i] /\ (i # 0 => i - 1 \in 0..n /\ i - 1 # n /\ f[i - 1] = g[i - 1])
          BY SMTT(60), <2>3, <3>1, <4>2
        <5>2. g[i] = At(g, i)
          BY ZenonT(60), <3>2, <5>1
        <5> HIDE DEF f
        <5>3. QED
          BY ZenonT(60), <5>1, <5>2
      <4>3. QED
        BY ZenonT(60), <4>1, <4>2
    <3> HIDE DEF f
    <3>7. QED
      BY ZenonT(60), <2>3, <3>5, <3>6
  <2>6. QED
    BY ZenonT(60), <2>4, <2>5
<1>3. PICK g : Ok(g, Len(s))
  <2>1. Len(s) <= Len(s)
    BY SMTT(60), <1>1
  <2>2. QED
    BY ZenonT(60), <1>1, <1>2, <2>1
<1>4. g = [i \in 0..Len(s) |-> At(g, i)]
  BY SMTT(60), <1>3
<1>5. F = [i \in 0..Len(s) |-> At(F, i)]
  BY ZenonT(60), <1>4
<1>6. Downward(s, keep) = F[Len(s)]
  BY DEF Downward
<1> HIDE DEF F
<1>7. F[Len(s)] \in Seq(S)
  <2> DEFINE Wrong == {n \in Nat : n <= Len(s) /\ F[n] \notin Seq(S)}
  <2>1. SUFFICES ASSUME Wrong # {} PROVE FALSE
    <3>1. Len(s) <= Len(s)
      BY SMTT(60), <1>1
    <3>2. QED
      BY ZenonT(60), <1>1, <3>1
  <2>2. PICK n \in Wrong : \A m \in Wrong : ~(m < n)
    <3>1. Wrong \in SUBSET Nat
      BY ZenonT(60)
    <3> HIDE DEF Wrong
    <3>2. QED
      BY Zenon, <2>1, <3>1, LeastNat
  <2>3. n \in Nat /\ n <= Len(s) /\ F[n] \notin Seq(S) /\ n \in 0..Len(s)
    BY SMTT(60), <1>1, <2>2
  <2>4. F[n] = At(F, n)
    BY ZenonT(60), <1>5, <2>3
  <2>5. n # 0
    <3>1. <<>> \in Seq(S)
      BY SMTT(60)
    <3>2. QED
      BY ZenonT(60), <2>3, <2>4, <3>1
  <2>6. n - 1 \in Nat /\ n - 1 <= Len(s) /\ n - 1 < n /\ s[n] \in S
    BY SMTT(60), <1>1, <2>3, <2>5
  <2>7. F[n - 1] \in Seq(S)
    BY ZenonT(60), <2>2, <2>6
  <2>8. <<s[n]>> \o F[n - 1] \in Seq(S)
    BY SMTT(60), <2>6, <2>7
  <2>9. QED
    BY ZenonT(60), <2>3, <2>4, <2>5, <2>7, <2>8
<1>8. QED
  BY ZenonT(60), <1>6, <1>7

(* A block of the index and the branch to it are stored.                   *)
LEMMA ReorganizeNodes ==
    ASSUME Stock, NEW idx, NEW node \in db.blocks
    PROVE  LET g == getReorganizeNodes(idx, node)
           IN  /\ g.detach \in Seq(Real)
               /\ g.attach \in Seq(Real \cap db.blocks)
               /\ DOMAIN g.index = DOMAIN idx
<1>1. node \in Blocks /\ tip \in Blocks
  BY ZenonT(60) DEF Stock
<1>2. Reverse(Above(node, tip)) \in Seq(Real) /\ <<>> \in Seq(Real) /\ <<>> \in Seq(Real \cap db.blocks)
  <2>1. Reverse(Above(node, tip)) \in Seq(Real)
    BY ZenonT(60), <1>1, AboveType, ReverseType
  <2>2. QED
    BY SMTT(60), <2>1
<1>3. Above(tip, node) \in Seq(Real \cap db.blocks)
  <2>1. Real \cap Chain(node) \subseteq Real \cap db.blocks
    BY Zenon DEF Stock
  <2>2. Above(tip, node) \in Seq(Real \cap Chain(node))
    BY ZenonT(60), <1>1, AboveOnChain
  <2>3. QED
    BY ZenonT(60), <2>1, <2>2, SeqMono
<1>4. \A marked, flags : DOMAIN SetStatusFlags(idx, marked, flags) = DOMAIN idx
  BY Zenon DEF SetStatusFlags
<1>5. QED
  BY ZenonT(60), <1>2, <1>3, <1>4 DEF getReorganizeNodes

LEMMA VerdictDomain ==
    ASSUME NEW idx, NEW detach, NEW attach
    PROVE  DOMAIN verifyReorganizationValidity(idx, detach, attach).index = DOMAIN idx
BY Zenon DEF verifyReorganizationValidity

(* What most steps leave of the database, and how torn may change.         *)
Kept ==
    /\ DOMAIN db' = Buckets
    /\ db'.blocks = db.blocks /\ db'.best = db.best
    /\ db'.marker = db.marker /\ db'.journal = db.journal
    /\ DOMAIN db'.rows \subseteq db.blocks

Later == torn' = torn \/ torn' = "db" \/ (torn = "no" /\ torn' = "cache")

LEMMA TearLater == ASSUME Tear PROVE Later
BY ZenonT(60) DEF Tear, Later

LEMMA SameDbKept == ASSUME RInv, db' = db PROVE Kept
BY Zenon DEF RInv, Stock, Kept

LEMMA FlushToDBKept ==
    ASSUME RInv, NEW idx, DOMAIN idx \subseteq db.blocks, db' = flushToDB(db, idx)
    PROVE  Kept
<1>1. /\ DOMAIN db' = Buckets
      /\ db'.blocks = db.blocks /\ db'.best = db.best
      /\ db'.marker = db.marker /\ db'.journal = db.journal
      /\ db'.rows = Overlay(idx, db.rows)
  BY Zenon DEF RInv, Stock, flushToDB, Buckets
<1>2. DOMAIN Overlay(idx, db.rows) = DOMAIN idx \cup DOMAIN db.rows
  BY Zenon DEF Overlay
<1>3. QED
  BY Zenon, <1>1, <1>2 DEF Kept, RInv, Stock

(* A step that leaves the best chain where it is.                          *)
LEMMA ChainStays ==
    ASSUME RInv, Kept, DOMAIN index' \subseteq db.blocks, tip' = tip, posErr => posErr', Later,
           orphans' \in Seq(Real)
    PROVE  Stock' /\ Written'
<1>1. Stock'
  BY Zenon DEF RInv, Stock, Kept
<1>2. CASE torn' = "db"
  BY ZenonT(60), <1>1, <1>2 DEF Written
<1>3. CASE torn' # "db"
  <2>1. torn # "db" /\ (torn = "cache" => torn' = "cache")
    BY SMTT(60), <1>3 DEF Later
  <2>2. Ahead => Ahead'
    BY ZenonT(60), <2>1 DEF Ahead, Kept
  <2>3. QED
    BY ZenonT(60), <1>1, <2>1, <2>2 DEF RInv, Written, Kept
<1>4. QED
  BY Zenon, <1>2, <1>3

(* Only c's call changes.                                                  *)
Touches(c) == DOMAIN call' = Callers /\ \A d \in Callers \ {c} : call'[d] = call[d]

LEMMA ReturnTouches == ASSUME RInv, NEW c \in Callers, Return(c) PROVE Touches(c) /\ call'[c] = Idle
BY ZenonT(60) DEF RInv, Calls, Return, Touches

LEMMA ContinueTouches ==
    ASSUME RInv, NEW c \in Callers, NEW STATE r, Continue(c, r)
    PROVE  Touches(c) /\ call'[c] = r /\ owner' = c
BY ZenonT(60) DEF RInv, Calls, Continue, Touches

LEMMA DoingMono ==
    ASSUME NEW r, NEW S, NEW T, S \subseteq T, Doing(r, S)
    PROVE  Doing(r, T)
<1>1. r.queue \in Seq(T)
  BY ZenonT(60), SeqMono DEF Doing
<1>2. r.attach \in Seq(Real \cap T)
  <2>1. Real \cap S \subseteq Real \cap T
    BY ZenonT(60)
  <2>2. QED
    BY ZenonT(60), <2>1, SeqMono DEF Doing
<1>3. QED
  BY ZenonT(60), <1>1, <1>2 DEF Doing

(* The other caller cannot be about to move the chain.                     *)
LEMMA CallerMoves ==
    ASSUME RInv, NEW c \in Callers, Touches(c), owner = c \/ owner = NoCaller,
           db.blocks \subseteq db'.blocks,
           call'[c] = Idle \/ Engaged(c)'
    PROVE  Calls'
<1>1. ASSUME NEW d \in Callers, d # c PROVE call'[d] = Idle \/ Engaged(d)'
  <2>1. call'[d] = call[d]
    BY ZenonT(60), <1>1 DEF Touches
  <2>2. CASE call[d] = Idle
    BY ZenonT(60), <2>1, <2>2
  <2>3. CASE Engaged(d)
    <3>1. call[d].stage \notin Exclusive
      BY ZenonT(60), <1>1, <2>3, CallersAssumption DEF Engaged
    <3>2. Doing(call[d], db'.blocks)
      BY ZenonT(60), <2>3, DoingMono DEF Engaged
    <3>3. Poised(call[d], tip')
      BY ZenonT(60), <3>1 DEF Poised, Exclusive
    <3>4. QED
      BY ZenonT(60), <2>1, <3>1, <3>2, <3>3 DEF Engaged
  <2>4. QED
    BY ZenonT(60), <2>2, <2>3 DEF RInv, Calls
<1>2. QED
  BY ZenonT(60), <1>1 DEF Calls, Touches

LEMMA CallsStay ==
    ASSUME RInv, call' = call, owner' = owner, db'.blocks = db.blocks, tip' = tip
    PROVE  Calls'
<1>1. ASSUME NEW d \in Callers PROVE call'[d] = Idle \/ Engaged(d)'
  BY ZenonT(60) DEF RInv, Calls, Engaged
<1>2. QED
  BY ZenonT(60), <1>1 DEF RInv, Calls

LEMMA BusyEngaged ==
    ASSUME RInv, NEW c \in Callers, call[c].stage # "idle"
    PROVE  Engaged(c)
<1>1. call[c] # Idle
  BY SMTT(60) DEF Idle
<1>2. QED
  BY ZenonT(60), <1>1 DEF RInv, Calls

(* The common form of a step of c's call.                                  *)
LEMMA CallAdvances ==
    ASSUME RInv, NEW c \in Callers, Kept, DOMAIN index' \subseteq db.blocks, tip' = tip,
           posErr => posErr', Later, orphans' \in Seq(Real),
           owner = c \/ owner = NoCaller, Touches(c),
           \/ call'[c] = Idle
           \/ /\ Doing(call'[c], db.blocks) /\ Poised(call'[c], tip)
              /\ call'[c].stage \in Exclusive => owner' = c
    PROVE  RInv'
<1>1. call'[c] = Idle \/ Engaged(c)'
  BY ZenonT(60) DEF Engaged, Kept
<1>2. QED
  BY ZenonT(60), <1>1, ChainStays, CallerMoves DEF RInv, Kept

(* A step that leaves the calls alone.                                     *)
LEMMA NoCallMoves ==
    ASSUME RInv, Kept, DOMAIN index' \subseteq db.blocks, UNCHANGED <<tip, posErr, owner, call>>, Later,
           orphans' \in Seq(Real)
    PROVE  RInv'
BY ZenonT(60), ChainStays, CallsStay DEF RInv, Kept

LEMMA BlockTxs == \A n \in Real : AfterCoinbase(n) \in Seq(Tx)
<1>1. SUFFICES ASSUME NEW n \in Real PROVE AfterCoinbase(n) \in Seq(Tx)
  BY Zenon
<1>2. Txs[n] \in Seq(Tx)
  BY ZenonT(60), TreeAssumption DEF Real
<1>3. Txs[n] # <<>> => Tail(Txs[n]) \in Seq(Tx)
  BY SMTT(60), <1>2
<1>4. QED
  BY ZenonT(60), <1>2, <1>3 DEF AfterCoinbase

(* The steps of the calls.                                                 *)

LEMMA StartedDoing ==
    ASSUME NEW stage, NEW b \in Real, NEW S,
           IF stage = "store" THEN Parent[b] \in S ELSE b \in S
    PROVE  Doing(Started(stage, b), S)
<1>1. <<>> \in Seq(Real) /\ <<>> \in Seq(Real \cap S) /\ <<>> \in Seq(S) /\ <<>> \in Seq(Tx)
  BY SMTT(60)
<1>2. QED
  BY ZenonT(60), <1>1 DEF Doing, Started, Fields

Unexclusive == {"store", "add", "connect", "reorganize", "finish", "orphans", "choose", "notify"}

LEMMA UnexclusivePoised ==
    ASSUME NEW r, NEW t, r.stage \in Unexclusive
    PROVE  Poised(r, t) /\ r.stage \notin Exclusive
BY SMTT(60) DEF Poised, Exclusive, Unexclusive

LEMMA RProcessBlock == ASSUME RInv, NEW b \in Real, ProcessBlock(b) PROVE RInv'
<1> DEFINE r == Started("store", b)
<1>1. Continue("sync", r) /\ owner = NoCaller /\ "sync" \in Callers
  BY ZenonT(60) DEF ProcessBlock, CanSync, Callers
<1>2. Kept /\ Later /\ DOMAIN index' \subseteq db.blocks /\ tip' = tip /\ posErr' = posErr /\ orphans' \in Seq(Real)
  BY ZenonT(60), SameDbKept DEF ProcessBlock, Later, RInv, Stock
<1>3. Touches("sync") /\ call'["sync"] = r
  BY ZenonT(60), <1>1, ContinueTouches
<1>4. Doing(r, db.blocks)
  <2>1. Parent[b] \in db.blocks
    BY ZenonT(60) DEF ProcessBlock, RInv, Stock
  <2>2. QED
    BY ZenonT(60), <2>1, StartedDoing
<1>5. r.stage \in Unexclusive
  BY ZenonT(60) DEF Started, Unexclusive
<1>6. QED
  BY ZenonT(60), <1>1, <1>2, <1>3, <1>4, <1>5, UnexclusivePoised, CallAdvances

LEMMA RRecover == ASSUME RInv, NEW b \in Real, RecoverStoredPOSBlock(b) PROVE RInv'
<1> DEFINE r == Started("connect", b)
<1>1. Continue("sync", r) /\ owner = NoCaller /\ "sync" \in Callers
  BY ZenonT(60) DEF RecoverStoredPOSBlock, CanSync, Callers
<1>2. Kept /\ Later /\ DOMAIN index' \subseteq db.blocks /\ tip' = tip /\ posErr' = posErr /\ orphans' \in Seq(Real)
  BY ZenonT(60), SameDbKept DEF RecoverStoredPOSBlock, Later, RInv, Stock
<1>3. Touches("sync") /\ call'["sync"] = r
  BY ZenonT(60), <1>1, ContinueTouches
<1>4. Doing(r, db.blocks)
  <2>1. b \in db.blocks /\ "connect" # "store"
    BY ZenonT(60) DEF RecoverStoredPOSBlock, RecoverablePOSNode, RInv, Stock
  <2>2. QED
    BY ZenonT(60), <2>1, StartedDoing
<1>5. r.stage \in Unexclusive
  BY ZenonT(60) DEF Started, Unexclusive
<1>6. QED
  BY ZenonT(60), <1>1, <1>2, <1>3, <1>4, <1>5, UnexclusivePoised, CallAdvances

LEMMA RaddOrphan == ASSUME RInv, NEW b \in Real, addOrphanBlock(b) PROVE RInv'
<1>1. /\ Kept /\ Later /\ DOMAIN index' \subseteq db.blocks
      /\ UNCHANGED <<tip, posErr, owner, call>> /\ orphans \in Seq(Real)
  BY ZenonT(60), SameDbKept DEF addOrphanBlock, Later, RInv, Stock
<1>2. PICK expired \in 0..Len(orphans) : \E pointer, kept :
        /\ \/ kept \in Without(SubSeq(orphans, expired + 1, Len(orphans)), pointer)
           \/ kept = SubSeq(orphans, expired + 1, Len(orphans))
        /\ orphans' = Append(kept, b)
  BY Zenon  DEF addOrphanBlock
<1>3. PICK pointer, kept :
        /\ \/ kept \in Without(SubSeq(orphans, expired + 1, Len(orphans)), pointer)
           \/ kept = SubSeq(orphans, expired + 1, Len(orphans))
        /\ orphans' = Append(kept, b)
  BY Zenon, <1>2
<1>4. SubSeq(orphans, expired + 1, Len(orphans)) \in Seq(Real)
  BY SMTT(60), <1>1
<1>5. kept \in Seq(Real)
  BY ZenonT(60), <1>3, <1>4, RemoveAtType DEF Without
<1>6. orphans' \in Seq(Real)
  BY <1>3, <1>5
<1>7. QED
  BY ZenonT(60), <1>1, <1>6, NoCallMoves

(* The bytes of the block whose parent is stored.                          *)
LEMMA RStoreBlock == ASSUME RInv, NEW c \in Callers, StoreBlock(c) PROVE RInv'
<1> DEFINE b == call[c].b
           r == [call[c] EXCEPT !.stage = "add"]
<1>1. Busy(c, "store") /\ Continue(c, r) /\ owner = c /\ call[c].stage = "store"
  BY ZenonT(60) DEF StoreBlock, Busy
<1>2. Engaged(c) /\ b \in Real /\ Parent[b] \in db.blocks
  BY ZenonT(60), <1>1, BusyEngaged DEF Engaged, Doing
<1>3. Touches(c) /\ call'[c] = r /\ owner' = c
  BY ZenonT(60), <1>1, ContinueTouches
<1>4. /\ DOMAIN db' = Buckets /\ db'.blocks = db.blocks \cup {b}
      /\ db'.best = db.best /\ db'.marker = db.marker /\ db'.journal = db.journal /\ db'.rows = db.rows
  BY ZenonT(60) DEF StoreBlock, RInv, Stock, Buckets
<1>5. UNCHANGED <<index, tip, orphans, posErr, torn>>
  BY ZenonT(60) DEF StoreBlock
<1>6. Stock'
  <2>1. Chain(b) = Chain(Parent[b]) \cup {b} /\ Chain(Parent[b]) \subseteq db.blocks
    BY ZenonT(60), <1>2, ChainSteps DEF RInv, Stock
  <2>2. \A n \in db'.blocks : Chain(n) \subseteq db'.blocks
    BY ZenonT(60), <1>4, <2>1 DEF RInv, Stock
  <2>3. b \in Blocks
    BY ZenonT(60), <1>2 DEF Real
  <2>4. QED
    BY ZenonT(60), <1>4, <1>5, <2>2, <2>3 DEF RInv, Stock
<1>7. Written'
  BY ZenonT(60), <1>4, <1>5 DEF RInv, Written, Ahead
<1>8. Doing(r, db'.blocks)
  <2>1. /\ DOMAIN r = Fields /\ r.b = b /\ r.stage = "add"
        /\ r.detach = call[c].detach /\ r.attach = call[c].attach /\ r.queue = call[c].queue
        /\ r.note = call[c].note
    BY ZenonT(60), <1>2 DEF Engaged, Doing, Fields
  <2> HIDE DEF r
  <2>2. r.queue \in Seq(db'.blocks) /\ r.attach \in Seq(Real \cap db'.blocks)
    <3>1. db.blocks \subseteq db'.blocks
      BY ZenonT(60), <1>4
    <3>2. Real \cap db.blocks \subseteq Real \cap db'.blocks
      BY ZenonT(60), <3>1
    <3>3. r.queue \in Seq(db.blocks) /\ r.attach \in Seq(Real \cap db.blocks)
      BY ZenonT(60), <1>2, <2>1 DEF Engaged, Doing
    <3>4. r.queue \in Seq(db'.blocks)
      BY ZenonT(60), <3>1, <3>3, SeqMono
    <3>5. r.attach \in Seq(Real \cap db'.blocks)
      BY ZenonT(60), <3>2, <3>3, SeqMono
    <3>6. QED
      BY ZenonT(60), <3>4, <3>5
  <2>3. r.stage # "store" /\ b \in db'.blocks
    BY SMTT(60), <1>4, <2>1
  <2>4. QED
    BY ZenonT(60), <1>2, <2>1, <2>2, <2>3 DEF Doing, Engaged
<1>9. r.stage \in Unexclusive
  BY ZenonT(60), <1>2 DEF Engaged, Doing, Fields, Unexclusive
<1>10. Engaged(c)'
  BY ZenonT(60), <1>3, <1>8, <1>9, UnexclusivePoised DEF Engaged
<1>11. db.blocks \subseteq db'.blocks
  BY Zenon, <1>4
<1>12. QED
  BY ZenonT(60), <1>1, <1>3, <1>6, <1>7, <1>10, <1>11, CallerMoves DEF RInv

(* Another stage of the same call.                                         *)
LEMMA Restaged ==
    ASSUME NEW r, NEW S, Doing(r, S), r.stage # "store", NEW stage \in Unexclusive \ {"store"}
    PROVE  LET q == [r EXCEPT !.stage = stage]
           IN  Doing(q, S) /\ \A t : Poised(q, t) /\ q.stage \notin Exclusive
<1> DEFINE q == [r EXCEPT !.stage = stage]
<1>1. /\ DOMAIN q = Fields /\ q.b = r.b /\ q.stage = stage
      /\ q.detach = r.detach /\ q.attach = r.attach /\ q.queue = r.queue
      /\ q.note = r.note
  BY ZenonT(60) DEF Doing, Fields
<1> HIDE DEF q
<1>2. Doing(q, S)
  BY ZenonT(60), <1>1 DEF Doing
<1>3. \A t : Poised(q, t) /\ q.stage \notin Exclusive
  BY ZenonT(60), <1>1, UnexclusivePoised
<1>4. QED
  BY ZenonT(60), <1>2, <1>3 DEF q

LEMMA RAddNode == ASSUME RInv, NEW c \in Callers, AddNode(c) PROVE RInv'
<1> DEFINE r == [call[c] EXCEPT !.stage = "connect"]
<1>1. Continue(c, r) /\ owner = c /\ call[c].stage = "add"
  BY ZenonT(60) DEF AddNode, Busy
<1>2. Engaged(c) /\ call[c].stage # "store" /\ call[c].stage # "idle"
  <2>1. call[c].stage # "store" /\ call[c].stage # "idle"
    BY SMTT(60), <1>1
  <2>2. QED
    BY ZenonT(60), <2>1, BusyEngaged
<1>3. call[c].b \in db.blocks
  BY ZenonT(60), <1>2 DEF Engaged, Doing
<1>4. DOMAIN index' \subseteq db.blocks
  BY ZenonT(60), <1>3 DEF AddNode, Put, Overlay, RInv, Stock
<1>5. Kept
  BY ZenonT(60), <1>4, FlushToDBKept DEF AddNode
<1>6. Later /\ tip' = tip /\ posErr' = posErr /\ orphans' \in Seq(Real)
  BY ZenonT(60) DEF AddNode, Later, RInv, Stock
<1>7. Touches(c) /\ call'[c] = r
  BY ZenonT(60), <1>1, ContinueTouches
<1>8. Doing(r, db.blocks) /\ Poised(r, tip) /\ r.stage \notin Exclusive
  BY ZenonT(60), <1>2, Restaged DEF Engaged, Unexclusive
<1>9. QED
  BY ZenonT(60), <1>1, <1>4, <1>5, <1>6, <1>7, <1>8, CallAdvances

LEMMA RKeepSideChain == ASSUME RInv, NEW c \in Callers, KeepSideChain(c) PROVE RInv'
<1> DEFINE r == [call[c] EXCEPT !.stage = "finish"]
<1>1. Continue(c, r) /\ owner = c /\ call[c].stage = "connect"
  BY ZenonT(60) DEF KeepSideChain, Busy
<1>2. Engaged(c) /\ call[c].stage # "store" /\ call[c].stage # "idle"
  <2>1. call[c].stage # "store" /\ call[c].stage # "idle"
    BY SMTT(60), <1>1
  <2>2. QED
    BY Zenon, <2>1, BusyEngaged
<1>3. Kept /\ DOMAIN index' \subseteq db.blocks /\ Later /\ tip' = tip /\ posErr' = posErr /\ orphans' \in Seq(Real)
  BY ZenonT(60), SameDbKept DEF KeepSideChain, Later, RInv, Stock
<1>4. Touches(c) /\ call'[c] = r
  BY ZenonT(60), <1>1, ContinueTouches
<1>5. Doing(r, db.blocks) /\ Poised(r, tip) /\ r.stage \notin Exclusive
  BY ZenonT(60), <1>2, Restaged DEF Engaged, Unexclusive
<1>6. QED
  BY ZenonT(60), <1>1, <1>3, <1>4, <1>5, CallAdvances

(* A block on the tip: one block to attach.                                *)
LEMMA Attaching ==
    ASSUME NEW r, NEW S, Doing(r, S), r.stage # "store", NEW after
    PROVE  LET q == [r EXCEPT !.stage = "reorganize", !.attach = <<r.b>>, !.after = after]
           IN  Doing(q, S) /\ \A t : Poised(q, t) /\ q.stage \notin Exclusive
<1> DEFINE q == [r EXCEPT !.stage = "reorganize", !.attach = <<r.b>>, !.after = after]
<1>1. /\ DOMAIN q = Fields /\ q.b = r.b /\ q.stage = "reorganize"
      /\ q.detach = r.detach /\ q.attach = <<r.b>> /\ q.queue = r.queue
      /\ q.note = r.note
  BY ZenonT(60) DEF Doing, Fields
<1>2. <<r.b>> \in Seq(Real \cap S)
  <2>1. r.b \in Real \cap S
    BY ZenonT(60) DEF Doing
  <2>2. QED
    BY SMTT(60), <2>1
<1> HIDE DEF q
<1>3. Doing(q, S)
  <2>1. q.stage # "store" /\ q.b \in S
    BY SMTT(60), <1>1 DEF Doing
  <2>2. QED
    BY ZenonT(60), <1>1, <1>2, <2>1 DEF Doing
<1>4. \A t : Poised(q, t) /\ q.stage \notin Exclusive
  <2>1. q.stage \in Unexclusive
    BY SMTT(60), <1>1 DEF Unexclusive
  <2>2. QED
    BY ZenonT(60), <2>1, UnexclusivePoised
<1>5. QED
  BY ZenonT(60), <1>3, <1>4 DEF q

LEMMA RExtendKnownValid == ASSUME RInv, NEW c \in Callers, ExtendKnownValid(c) PROVE RInv'
<1> DEFINE r == [call[c] EXCEPT !.stage = "reorganize", !.attach = <<call[c].b>>, !.after = "known"]
<1>1. Continue(c, r) /\ owner = c /\ call[c].stage = "connect"
  BY ZenonT(60) DEF ExtendKnownValid, Busy
<1>2. Engaged(c) /\ call[c].stage # "store" /\ call[c].stage # "idle"
  <2>1. call[c].stage # "store" /\ call[c].stage # "idle"
    BY SMTT(60), <1>1
  <2>2. QED
    BY Zenon, <2>1, BusyEngaged
<1>3. Kept /\ DOMAIN index' \subseteq db.blocks /\ Later /\ tip' = tip /\ posErr' = posErr /\ orphans' \in Seq(Real)
  BY ZenonT(60), SameDbKept DEF ExtendKnownValid, Later, RInv, Stock
<1>4. Touches(c) /\ call'[c] = r
  BY ZenonT(60), <1>1, ContinueTouches
<1>5. Doing(r, db.blocks) /\ Poised(r, tip) /\ r.stage \notin Exclusive
  BY ZenonT(60), <1>2, Attaching DEF Engaged
<1>6. QED
  BY ZenonT(60), <1>1, <1>3, <1>4, <1>5, CallAdvances

LEMMA StatusDomains ==
    /\ \A idx, nodes, flags : DOMAIN SetStatusFlags(idx, nodes, flags) = DOMAIN idx
    /\ \A idx, nodes, flags : DOMAIN UnsetStatusFlags(idx, nodes, flags) = DOMAIN idx
    /\ \A idx, keys : DOMAIN Drop(idx, keys) = DOMAIN idx \ keys
BY ZenonT(60) DEF SetStatusFlags, UnsetStatusFlags, Drop

LEMMA RExtendChecked == ASSUME RInv, NEW c \in Callers, ExtendChecked(c) PROVE RInv'
<1> DEFINE r == [call[c] EXCEPT !.stage = "reorganize", !.attach = <<call[c].b>>, !.after = "checked"]
<1>1. (Continue(c, r) \/ Return(c)) /\ owner = c /\ call[c].stage = "connect"
  BY ZenonT(60) DEF ExtendChecked, Busy
<1>2. Engaged(c) /\ call[c].stage # "store" /\ call[c].stage # "idle"
  <2>1. call[c].stage # "store" /\ call[c].stage # "idle"
    BY SMTT(60), <1>1
  <2>2. QED
    BY Zenon, <2>1, BusyEngaged
<1>3. DOMAIN index \subseteq db.blocks
  BY ZenonT(60) DEF RInv, Stock
<1>4. DOMAIN index' \subseteq db.blocks /\ (db' = db \/ db' = flushToDB(db, index'))
  <2>1. \/ index' = Drop(index, {call[c].b}) /\ db' = db
        \/ \E flags : index' = SetStatusFlags(index, {call[c].b}, flags) /\ db' = flushToDB(db, index')
    BY ZenonT(60) DEF ExtendChecked
  <2>2. DOMAIN Drop(index, {call[c].b}) \subseteq DOMAIN index
    BY ZenonT(60) DEF Drop
  <2>3. \A flags : DOMAIN SetStatusFlags(index, {call[c].b}, flags) = DOMAIN index
    BY ZenonT(60), StatusDomains
  <2>4. DOMAIN index' \subseteq DOMAIN index
    BY ZenonT(60), <2>1, <2>2, <2>3
  <2>5. db' = db \/ db' = flushToDB(db, index')
    BY ZenonT(60), <2>1
  <2>6. QED
    BY ZenonT(60), <1>3, <2>4, <2>5
<1>5. Kept
  BY ZenonT(60), <1>4, SameDbKept, FlushToDBKept
<1>6. Later /\ tip' = tip /\ posErr' = posErr /\ orphans' \in Seq(Real)
  BY ZenonT(60) DEF ExtendChecked, Later, RInv, Stock
<1>7. CASE Return(c)
  BY ZenonT(60), <1>1, <1>4, <1>5, <1>6, <1>7, ReturnTouches, CallAdvances
<1>8. CASE Continue(c, r)
  <2>1. Touches(c) /\ call'[c] = r
    BY ZenonT(60), <1>8, ContinueTouches
  <2>2. Doing(r, db.blocks) /\ Poised(r, tip) /\ r.stage \notin Exclusive
    BY ZenonT(60), <1>2, Attaching DEF Engaged
  <2>3. QED
    BY ZenonT(60), <1>1, <1>4, <1>5, <1>6, <2>1, <2>2, CallAdvances
<1>9. QED
  BY ZenonT(60), <1>1, <1>7, <1>8

(* What a reorganisation is given to do.                                   *)
LEMMA Reorganizing ==
    ASSUME NEW r, NEW S, Doing(r, S), r.stage # "store", NEW g, NEW after,
           g.detach \in Seq(Real), g.attach \in Seq(Real \cap S)
    PROVE  LET q == [r EXCEPT !.stage = "reorganize", !.detach = g.detach, !.attach = g.attach,
                              !.view = <<>>, !.after = after]
           IN  Doing(q, S) /\ \A t : Poised(q, t) /\ q.stage \notin Exclusive
<1> DEFINE q == [r EXCEPT !.stage = "reorganize", !.detach = g.detach, !.attach = g.attach,
                          !.view = <<>>, !.after = after]
<1>1. /\ DOMAIN q = Fields /\ q.b = r.b /\ q.stage = "reorganize"
      /\ q.detach = g.detach /\ q.attach = g.attach /\ q.queue = r.queue
      /\ q.note = r.note
  BY ZenonT(60) DEF Doing, Fields
<1> HIDE DEF q
<1>2. Doing(q, S)
  <2>1. q.stage # "store" /\ q.b \in S
    BY SMTT(60), <1>1 DEF Doing
  <2>2. QED
    BY ZenonT(60), <1>1, <2>1 DEF Doing
<1>3. \A t : Poised(q, t) /\ q.stage \notin Exclusive
  <2>1. q.stage \in Unexclusive
    BY SMTT(60), <1>1 DEF Unexclusive
  <2>2. QED
    BY ZenonT(60), <2>1, UnexclusivePoised
<1>4. QED
  BY ZenonT(60), <1>2, <1>3 DEF q

LEMMA RBeginReorganize ==
    ASSUME RInv, NEW c \in Callers, owner = c, call[c].stage # "store", call[c].stage # "idle",
           NEW node \in db.blocks, NEW after,
           BeginReorganize(c, getReorganizeNodes(index, node), after),
           UNCHANGED <<tip, posErr, torn, orphans>>
    PROVE  RInv'
<1> DEFINE g == getReorganizeNodes(index, node)
           r == [call[c] EXCEPT !.stage = "reorganize", !.detach = g.detach, !.attach = g.attach,
                                !.view = <<>>, !.after = after]
<1>1. /\ g.detach \in Seq(Real) /\ g.attach \in Seq(Real \cap db.blocks)
      /\ DOMAIN g.index = DOMAIN index
  BY ZenonT(60), ReorganizeNodes DEF RInv
<1> HIDE DEF g
<1>2. PICK v : /\ v = verifyReorganizationValidity(g.index, g.detach, g.attach)
               /\ index' = v.index
               /\ \/ Continue(c, r) /\ db' = db
                  \/ Return(c) /\ db' = flushToDB(db, v.index)
  BY ZenonT(60) DEF BeginReorganize, g
<1>3. DOMAIN v.index \subseteq db.blocks
  <2>1. DOMAIN v.index = DOMAIN g.index
    BY ZenonT(60), <1>2, VerdictDomain
  <2>2. QED
    BY ZenonT(60), <1>1, <2>1 DEF RInv, Stock
<1>4. Kept /\ DOMAIN index' \subseteq db.blocks
  BY ZenonT(60), <1>2, <1>3, SameDbKept, FlushToDBKept
<1>5. Later /\ orphans' \in Seq(Real)
  BY ZenonT(60) DEF Later, RInv, Stock
<1>6. Engaged(c)
  BY ZenonT(60), BusyEngaged
<1>7. Doing(r, db.blocks) /\ Poised(r, tip) /\ r.stage \notin Exclusive
  BY ZenonT(60), <1>1, <1>6, Reorganizing DEF Engaged
<1> HIDE DEF r
<1>8. CASE Return(c)
  BY ZenonT(60), <1>4, <1>5, <1>8, ReturnTouches, CallAdvances
<1>9. CASE Continue(c, r)
  <2>1. Touches(c) /\ call'[c] = r
    BY ZenonT(60), <1>9, ContinueTouches DEF r
  <2>2. QED
    BY ZenonT(60), <1>4, <1>5, <1>7, <2>1, CallAdvances
<1>10. QED
  BY ZenonT(60), <1>2, <1>8, <1>9

LEMMA RSwitchBranch == ASSUME RInv, NEW c \in Callers, SwitchBranch(c) PROVE RInv'
<1>1. owner = c /\ call[c].stage = "connect"
  BY ZenonT(60) DEF SwitchBranch, Busy
<1>2. call[c].stage # "store" /\ call[c].stage # "idle"
  BY SMTT(60), <1>1
<1>3. call[c].b \in db.blocks
  BY ZenonT(60), <1>2, BusyEngaged DEF Engaged, Doing
<1>4. /\ BeginReorganize(c, getReorganizeNodes(index, call[c].b), "switch")
      /\ UNCHANGED <<tip, posErr, torn, orphans>>
  BY ZenonT(60) DEF SwitchBranch
<1>5. QED
  BY ZenonT(60), <1>1, <1>2, <1>3, <1>4, RBeginReorganize

LEMMA RChooseBestTip == ASSUME RInv, NEW c \in Callers, ChooseBestTip(c) PROVE RInv'
<1>1. owner = c /\ call[c].stage = "choose"
  BY ZenonT(60) DEF ChooseBestTip, Busy
<1>2. call[c].stage # "store" /\ call[c].stage # "idle"
  BY SMTT(60), <1>1
<1>3. UNCHANGED <<tip, posErr, torn, orphans>>
  BY ZenonT(60) DEF ChooseBestTip
<1>4. PICK best \in BestTips :
        \/ Return(c) /\ UNCHANGED <<index, db>>
        \/ BeginReorganize(c, getReorganizeNodes(index, best), "chosen")
  BY ZenonT(60) DEF ChooseBestTip
<1>5. best \in db.blocks
  <2>1. BestTips \subseteq DOMAIN index \cup {tip}
    BY ZenonT(60) DEF BestTips, InactiveTips
  <2>2. QED
    BY ZenonT(60), <2>1 DEF RInv, Stock
<1>6. CASE Return(c) /\ UNCHANGED <<index, db>>
  <2>1. Kept /\ DOMAIN index' \subseteq db.blocks /\ Later /\ orphans' \in Seq(Real)
    BY ZenonT(60), <1>3, <1>6, SameDbKept DEF Later, RInv, Stock
  <2>2. QED
    BY ZenonT(60), <1>1, <1>3, <1>6, <2>1, ReturnTouches, CallAdvances
<1>7. CASE BeginReorganize(c, getReorganizeNodes(index, best), "chosen")
  BY ZenonT(60), <1>1, <1>2, <1>3, <1>5, <1>7, RBeginReorganize
<1>8. QED
  BY ZenonT(60), <1>4, <1>6, <1>7

(* Up to the transaction that detaches a block.                            *)
LEMMA RPrepareDisconnect == ASSUME RInv, NEW c \in Callers, PrepareDisconnect(c) PROVE RInv'
<1>1. owner = c /\ call[c].stage = "reorganize" /\ call[c].detach # <<>>
  BY ZenonT(60) DEF PrepareDisconnect, Busy
<1>2. call[c].stage # "store" /\ call[c].stage # "idle"
  BY SMTT(60), <1>1
<1>3. Engaged(c)
  BY ZenonT(60), <1>2, BusyEngaged
<1>4. UNCHANGED <<index, tip, posErr, torn, orphans>>
  BY ZenonT(60) DEF PrepareDisconnect
<1>5. DOMAIN index' \subseteq db.blocks /\ Later /\ orphans' \in Seq(Real) /\ DOMAIN index \subseteq db.blocks
  BY ZenonT(60), <1>4 DEF Later, RInv, Stock
<1>6. Kept
  <2>1. db' = db \/ db' = flushToDB(db, index)
    BY ZenonT(60) DEF PrepareDisconnect, GiveUp
  <2>2. QED
    BY ZenonT(60), <1>5, <2>1, SameDbKept, FlushToDBKept
<1>7. CASE Return(c)
  BY ZenonT(60), <1>1, <1>4, <1>5, <1>6, <1>7, ReturnTouches, CallAdvances
<1>8. ASSUME NEW STATE v, Head(call[c].detach) = tip,
             Continue(c, [call[c] EXCEPT !.stage = "disconnect", !.view = v])
      PROVE  RInv'
  <2> DEFINE r == [call[c] EXCEPT !.stage = "disconnect", !.view = v]
  <2>1. Touches(c) /\ call'[c] = r /\ owner' = c
    BY ZenonT(60), <1>8, ContinueTouches
  <2>2. /\ DOMAIN r = Fields /\ r.b = call[c].b /\ r.stage = "disconnect"
        /\ r.detach = call[c].detach /\ r.attach = call[c].attach /\ r.queue = call[c].queue
        /\ r.note = call[c].note
    BY ZenonT(60), <1>3 DEF Engaged, Doing, Fields
  <2> HIDE DEF r
  <2>3. r.stage # "store" /\ r.stage # "commit"
    BY SMTT(60), <2>2
  <2>4. Doing(r, db.blocks)
    BY ZenonT(60), <1>2, <1>3, <2>2, <2>3 DEF Engaged, Doing
  <2>5. Poised(r, tip)
    BY ZenonT(60), <1>1, <1>8, <2>2, <2>3 DEF Poised
  <2>6. QED
    BY ZenonT(60), <1>1, <1>4, <1>5, <1>6, <2>1, <2>4, <2>5, CallAdvances
<1>9. QED
  BY ZenonT(60), <1>7, <1>8 DEF PrepareDisconnect, GiveUp

LEMMA RPrepareConnect == ASSUME RInv, NEW c \in Callers, PrepareConnect(c) PROVE RInv'
<1>1. owner = c /\ call[c].stage = "reorganize" /\ call[c].attach # <<>>
  BY ZenonT(60) DEF PrepareConnect, Busy
<1>2. call[c].stage # "store" /\ call[c].stage # "idle"
  BY SMTT(60), <1>1
<1>3. Engaged(c)
  BY Zenon, <1>2, BusyEngaged
<1>4. UNCHANGED <<index, tip, posErr, orphans>>
  BY ZenonT(60) DEF PrepareConnect
<1>5. DOMAIN index' \subseteq db.blocks /\ orphans' \in Seq(Real) /\ DOMAIN index \subseteq db.blocks
  BY ZenonT(60), <1>4 DEF RInv, Stock
<1>6. Later
  BY ZenonT(60), TearLater DEF PrepareConnect, Later
<1>7. Kept
  <2>1. db' = db \/ db' = flushToDB(db, index)
    BY ZenonT(60) DEF PrepareConnect, GiveUp
  <2>2. QED
    BY ZenonT(60), <1>5, <2>1, SameDbKept, FlushToDBKept
<1>8. CASE Return(c)
  BY ZenonT(60), <1>1, <1>4, <1>5, <1>6, <1>7, <1>8, ReturnTouches, CallAdvances
<1>9. ASSUME NEW STATE v, Parent[Head(call[c].attach)] = tip,
             Continue(c, [call[c] EXCEPT !.stage = "commit", !.stxos = v])
      PROVE  RInv'
  <2> DEFINE r == [call[c] EXCEPT !.stage = "commit", !.stxos = v]
  <2>1. Touches(c) /\ call'[c] = r /\ owner' = c
    BY ZenonT(60), <1>9, ContinueTouches
  <2>2. /\ DOMAIN r = Fields /\ r.b = call[c].b /\ r.stage = "commit"
        /\ r.detach = call[c].detach /\ r.attach = call[c].attach /\ r.queue = call[c].queue
        /\ r.note = call[c].note
    BY ZenonT(60), <1>3 DEF Engaged, Doing, Fields
  <2> HIDE DEF r
  <2>3. r.stage # "store" /\ r.stage # "disconnect"
    BY SMTT(60), <2>2
  <2>4. Doing(r, db.blocks)
    BY ZenonT(60), <1>2, <1>3, <2>2, <2>3 DEF Engaged, Doing
  <2>5. Poised(r, tip)
    BY ZenonT(60), <1>1, <1>9, <2>2, <2>3 DEF Poised
  <2>6. QED
    BY ZenonT(60), <1>1, <1>4, <1>5, <1>6, <1>7, <2>1, <2>4, <2>5, CallAdvances
<1>10. QED
  BY ZenonT(60), <1>8, <1>9 DEF PrepareConnect, GiveUp

(* The transactions that move the stored best chain.                       *)

LEMMA HeadTail ==
    ASSUME NEW S, NEW s \in Seq(S), s # <<>>
    PROVE  Head(s) \in S /\ Tail(s) \in Seq(S)
BY SMTT(60)

LEMMA CommittedForm ==
    ASSUME RInv, NEW c \in Callers
    PROVE  LET d == Committed(c)
               n == Head(call[c].attach)
           IN  /\ DOMAIN d = Buckets /\ d.blocks = db.blocks /\ d.rows = db.rows /\ d.best = n
               /\ DOMAIN d.journal = DOMAIN db.journal \cup {n}
               /\ d.marker = IF POSV2Active(Height[n]) THEN n ELSE db.marker
<1> DEFINE d == Committed(c)
           n == Head(call[c].attach)
<1>1. /\ DOMAIN d = Buckets /\ d.blocks = db.blocks /\ d.rows = db.rows /\ d.best = n
      /\ d.journal = Put(db.journal, n, call[c].stxos)
      /\ d.marker = IF POSV2Active(Height[n]) THEN n ELSE db.marker
  BY ZenonT(30) DEF Committed, RInv, Stock, Buckets
<1>2. DOMAIN Put(db.journal, n, call[c].stxos) = DOMAIN db.journal \cup {n}
  BY ZenonT(60) DEF Put, Overlay
<1>3. QED
  BY ZenonT(60), <1>1, <1>2

(* The block about to be committed.                                        *)
LEMMA Committing ==
    ASSUME RInv, NEW c \in Callers, Busy(c, "commit")
    PROVE  LET n == Head(call[c].attach)
           IN  /\ Engaged(c) /\ n \in Real \cap db.blocks /\ Parent[n] = tip
               /\ Tail(call[c].attach) \in Seq(Real \cap db.blocks)
<1>1. call[c].stage = "commit" /\ call[c].stage # "idle"
  BY SMTT(60) DEF Busy
<1>2. Engaged(c)
  BY ZenonT(60), <1>1, BusyEngaged
<1>3. /\ call[c].attach \in Seq(Real \cap db.blocks) /\ call[c].attach # <<>>
      /\ Parent[Head(call[c].attach)] = tip
  BY ZenonT(60), <1>1, <1>2 DEF Engaged, Doing, Poised
<1>4. Head(call[c].attach) \in Real \cap db.blocks /\ Tail(call[c].attach) \in Seq(Real \cap db.blocks)
  BY ZenonT(60), <1>3, HeadTail
<1>5. QED
  BY ZenonT(60), <1>2, <1>3, <1>4

(* The stored best chain grows by a block on the tip.                      *)
LEMMA RecordsGrow ==
    ASSUME RInv, torn # "db", db.best = tip, NEW n \in Real \cap db.blocks, Parent[n] = tip,
           NEW d, d.best = n, DOMAIN d.journal = DOMAIN db.journal \cup {n},
           d.marker \in {n, db.marker}
    PROVE  d.marker \in Chain(d.best) /\ DOMAIN d.journal = Chain(d.best) \ {Genesis}
<1>1. Chain(n) = Chain(tip) \cup {n}
  BY ZenonT(60), ChainSteps
<1>2. db.marker \in Chain(tip) /\ DOMAIN db.journal = Chain(tip) \ {Genesis}
  BY ZenonT(60) DEF RInv, Written
<1>3. n # Genesis
  BY ZenonT(60) DEF Real
<1>4. QED
  BY ZenonT(60), <1>1, <1>2, <1>3

LEMMA RconnectBlock == ASSUME RInv, NEW c \in Callers, connectBlock(c) PROVE RInv'
<1> DEFINE n == Head(call[c].attach)
<1>1. /\ owner = c /\ Engaged(c) /\ n \in Real \cap db.blocks /\ Parent[n] = tip
      /\ Tail(call[c].attach) \in Seq(Real \cap db.blocks)
  BY ZenonT(60), Committing DEF connectBlock, Busy
<1>2. tip' = n /\ UNCHANGED <<index, orphans, posErr>> /\ Taint
  BY ZenonT(60) DEF connectBlock
<1>3. \/ db' = [Committed(c) EXCEPT !.utxo = writeCache(db.utxo, cache), !.marker = n]
      \/ db' = Committed(c)
  BY ZenonT(60) DEF connectBlock
<1>4. /\ DOMAIN db' = Buckets /\ db'.blocks = db.blocks /\ db'.rows = db.rows /\ db'.best = n
      /\ DOMAIN db'.journal = DOMAIN db.journal \cup {n} /\ db'.marker \in {n, db.marker}
  <2>1. CASE db' = [Committed(c) EXCEPT !.utxo = writeCache(db.utxo, cache), !.marker = n]
    BY ZenonT(30), <2>1, CommittedForm DEF Buckets
  <2>2. CASE db' = Committed(c)
    BY ZenonT(60), <2>2, CommittedForm
  <2>3. QED
    BY ZenonT(60), <1>3, <2>1, <2>2
<1>5. Stock'
  BY ZenonT(60), <1>1, <1>2, <1>4 DEF RInv, Stock
<1>6. ASSUME torn' # "db" PROVE torn # "db" /\ db.best = tip
  <2>1. torn # "db" /\ torn # "cache"
    BY SMTT(60), <1>2, <1>6 DEF Taint
  <2>2. QED
    BY ZenonT(60), <2>1 DEF RInv, Written, Ahead
<1>7. Written'
  <2>1. SUFFICES ASSUME torn' # "db"
                 PROVE  /\ db'.marker \in Chain(db'.best)
                        /\ DOMAIN db'.journal = Chain(db'.best) \ {Genesis}
                        /\ db'.best = tip'
    BY ZenonT(60) DEF Written
  <2>2. db'.marker \in Chain(db'.best) /\ DOMAIN db'.journal = Chain(db'.best) \ {Genesis}
    BY ZenonT(60), <1>1, <1>4, <1>6, <2>1, RecordsGrow
  <2>3. QED
    BY ZenonT(60), <1>2, <1>4, <2>2
<1>8. Touches(c)
  BY ZenonT(60) DEF connectBlock, Touches, RInv, Calls
<1>9. /\ DOMAIN call'[c] = Fields /\ call'[c].b = call[c].b /\ call'[c].stage = "notify"
      /\ call'[c].detach = call[c].detach /\ call'[c].attach = Tail(call[c].attach)
      /\ call'[c].queue = call[c].queue /\ call'[c].note = AfterCoinbase(n)
  BY ZenonT(60), <1>1 DEF connectBlock, Engaged, Doing, Fields, RInv, Calls
<1>10. call'[c].stage # "store" /\ call'[c].stage \in Unexclusive /\ call[c].stage # "store"
  BY ZenonT(60), <1>9 DEF Unexclusive, connectBlock, Busy
<1>11. Doing(call'[c], db'.blocks)
  BY ZenonT(60), <1>1, <1>4, <1>9, <1>10, BlockTxs DEF Engaged, Doing
<1>12. Engaged(c)'
  BY ZenonT(60), <1>10, <1>11, UnexclusivePoised DEF Engaged
<1>13. db.blocks \subseteq db'.blocks
  BY ZenonT(60), <1>4
<1>14. QED
  BY ZenonT(60), <1>1, <1>5, <1>7, <1>8, <1>12, <1>13, CallerMoves DEF RInv

LEMMA RConnectUnannounced == ASSUME RInv, NEW c \in Callers, ConnectUnannounced(c) PROVE RInv'
<1> DEFINE n == Head(call[c].attach)
           pos == POSV2Active(Height[n])
<1>1. owner = c /\ n \in Real \cap db.blocks /\ Parent[n] = tip
  BY ZenonT(60), Committing DEF ConnectUnannounced, Busy
<1>2. /\ tip' = n /\ UNCHANGED <<index, orphans, posErr>> /\ Return(c) /\ db' = Committed(c)
      /\ torn' = IF torn = "cache" THEN "db"
                 ELSE IF torn = "no" /\ ~pos /\ Torn THEN "cache" ELSE torn
  BY ZenonT(60) DEF ConnectUnannounced
<1>3. Touches(c) /\ call'[c] = Idle
  BY ZenonT(60), <1>2, ReturnTouches
<1>4. /\ DOMAIN db' = Buckets /\ db'.blocks = db.blocks /\ db'.rows = db.rows /\ db'.best = n
      /\ DOMAIN db'.journal = DOMAIN db.journal \cup {n} /\ db'.marker \in {n, db.marker}
  BY ZenonT(60), <1>2, CommittedForm
<1>5. Stock'
  BY ZenonT(60), <1>1, <1>2, <1>4 DEF RInv, Stock
<1>6. ASSUME torn' # "db" PROVE torn # "db" /\ db.best = tip
  <2>1. torn # "db" /\ torn # "cache"
    BY ZenonT(60), <1>2, <1>6
  <2>2. QED
    BY ZenonT(60), <2>1 DEF RInv, Written, Ahead
<1>7. Written'
  <2>1. SUFFICES ASSUME torn' # "db"
                 PROVE  /\ db'.marker \in Chain(db'.best)
                        /\ DOMAIN db'.journal = Chain(db'.best) \ {Genesis}
                        /\ db'.best = tip'
    BY ZenonT(60) DEF Written
  <2>2. db'.marker \in Chain(db'.best) /\ DOMAIN db'.journal = Chain(db'.best) \ {Genesis}
    BY ZenonT(60), <1>1, <1>4, <1>6, <2>1, RecordsGrow
  <2>3. QED
    BY ZenonT(60), <1>2, <1>4, <2>2
<1>8. db.blocks \subseteq db'.blocks
  BY ZenonT(60), <1>4
<1>9. QED
  BY ZenonT(60), <1>1, <1>3, <1>5, <1>7, <1>8, CallerMoves DEF RInv

LEMMA RConnectFails == ASSUME RInv, NEW c \in Callers, ConnectFails(c) PROVE RInv'
<1> DEFINE n == Head(call[c].attach)
           pos == POSV2Active(Height[n])
<1>1. owner = c /\ n \in Real \cap db.blocks /\ Parent[n] = tip
  BY ZenonT(60), Committing DEF ConnectFails, Busy
<1>2. UNCHANGED <<tip, index, orphans>> /\ posErr' = (posErr \/ pos) /\ Return(c)
  BY ZenonT(60) DEF ConnectFails
<1>3. Touches(c) /\ call'[c] = Idle
  BY ZenonT(60), <1>2, ReturnTouches
<1>4. DOMAIN index' \subseteq db.blocks /\ orphans' \in Seq(Real)
  BY ZenonT(60), <1>2 DEF RInv, Stock
<1>5. PICK kept \in BOOLEAN :
        /\ kept => pos
        /\ db' = IF kept THEN Committed(c) ELSE db
        /\ torn' = IF torn = "no" THEN "cache" ELSE IF kept THEN "db" ELSE torn
  BY ZenonT(60) DEF ConnectFails
<1>6. CASE ~kept
  <2>1. Kept
    BY ZenonT(60), <1>5, <1>6, SameDbKept
  <2>2. Later
    BY ZenonT(60), <1>5, <1>6 DEF Later
  <2>3. posErr => posErr'
    BY ZenonT(60), <1>2
  <2>4. QED
    BY ZenonT(60), <1>1, <1>2, <1>3, <1>4, <2>1, <2>2, <2>3, CallAdvances
<1>7. CASE kept
  <2>1. pos /\ posErr'
    BY Zenon, <1>2, <1>5, <1>7
  <2>2. /\ DOMAIN db' = Buckets /\ db'.blocks = db.blocks /\ db'.rows = db.rows /\ db'.best = n
        /\ DOMAIN db'.journal = DOMAIN db.journal \cup {n} /\ db'.marker \in {n, db.marker}
    BY Zenon, <1>5, <1>7, CommittedForm
  <2>3. Stock'
    BY Zenon, <1>1, <1>2, <2>2 DEF RInv, Stock
  <2>4. Written'
    <3>1. SUFFICES ASSUME torn' # "db" PROVE Written'
      BY ZenonT(60) DEF Written
    <3>2. torn = "no" /\ torn' = "cache"
      BY SMTT(60), <1>5, <1>7, <3>1
    <3>3. torn # "db" /\ db.best = tip
      <4>1. torn # "db" /\ torn # "cache"
        BY SMTT(60), <3>2
      <4>2. QED
        BY ZenonT(60), <4>1 DEF RInv, Written, Ahead
    <3>4. db'.marker \in Chain(db'.best) /\ DOMAIN db'.journal = Chain(db'.best) \ {Genesis}
      BY ZenonT(60), <1>1, <2>2, <3>3, RecordsGrow
    <3>5. Ahead'
      BY ZenonT(60), <1>1, <1>2, <2>1, <2>2, <3>2 DEF Ahead
    <3>6. QED
      BY ZenonT(60), <3>4, <3>5 DEF Written
  <2>5. db.blocks \subseteq db'.blocks
    BY ZenonT(60), <2>2
  <2>6. QED
    BY ZenonT(60), <1>1, <1>3, <2>3, <2>4, <2>5, CallerMoves DEF RInv
<1>8. QED
  BY ZenonT(60), <1>6, <1>7

LEMMA RdisconnectBlock == ASSUME RInv, NEW c \in Callers, disconnectBlock(c) PROVE RInv'
<1> DEFINE n == Head(call[c].detach)
<1>1. owner = c /\ call[c].stage = "disconnect"
  BY ZenonT(60) DEF disconnectBlock, Busy
<1>2. call[c].stage # "idle" /\ call[c].stage # "store"
  BY SMTT(60), <1>1
<1>3. Engaged(c)
  BY ZenonT(60), <1>2, BusyEngaged
<1>4. n = tip /\ n \in Real /\ Tail(call[c].detach) \in Seq(Real)
  <2>1. call[c].detach \in Seq(Real) /\ call[c].detach # <<>> /\ Head(call[c].detach) = tip
    BY ZenonT(60), <1>1, <1>3 DEF Engaged, Doing, Poised
  <2>2. QED
    BY ZenonT(60), <2>1, HeadTail
<1>5. tip' = Parent[n] /\ UNCHANGED <<index, orphans, posErr>> /\ Taint
  BY ZenonT(60) DEF disconnectBlock
<1>6. /\ DOMAIN db' = Buckets /\ db'.blocks = db.blocks /\ db'.rows = db.rows /\ db'.best = Parent[n]
      /\ db'.journal = Drop(db.journal, {n}) /\ db'.marker = Parent[n]
  BY ZenonT(30) DEF disconnectBlock, RInv, Stock, Buckets
<1>7. Parent[n] \in db.blocks /\ Parent[n] \in Chain(Parent[n])
  <2>1. Parent[n] \in Chain(n) /\ Chain(n) \subseteq db.blocks
    BY ZenonT(60), <1>4, TipOnChain DEF RInv, Stock
  <2>2. Parent[n] \in Blocks
    BY ZenonT(60), <1>4, ChainSteps
  <2>3. QED
    BY ZenonT(60), <2>1, <2>2, TipOnChain
<1>8. Stock'
  BY ZenonT(60), <1>5, <1>6, <1>7 DEF RInv, Stock
<1>9. Written'
  <2>1. SUFFICES ASSUME torn' # "db" PROVE Written'
    BY ZenonT(60) DEF Written
  <2>2. torn # "db" /\ torn # "cache"
    BY SMTT(60), <1>5, <2>1 DEF Taint
  <2>3. DOMAIN db.journal = Chain(n) \ {Genesis}
    BY ZenonT(60), <1>4, <2>2 DEF RInv, Written, Ahead
  <2>4. Chain(n) = Chain(Parent[n]) \cup {n} /\ n \notin Chain(Parent[n])
    BY ZenonT(60), <1>4, ChainSteps, NotOnParentsChain
  <2>5. DOMAIN db'.journal = DOMAIN db.journal \ {n}
    BY ZenonT(60), <1>6 DEF Drop
  <2>6. DOMAIN db'.journal = Chain(Parent[n]) \ {Genesis}
    BY ZenonT(60), <2>3, <2>4, <2>5
  <2>7. QED
    BY ZenonT(60), <1>5, <1>6, <1>7, <2>6 DEF Written
<1>10. Touches(c)
  BY ZenonT(60) DEF disconnectBlock, Touches, RInv, Calls
<1>11. /\ DOMAIN call'[c] = Fields /\ call'[c].b = call[c].b /\ call'[c].stage = "notify"
       /\ call'[c].attach = call[c].attach /\ call'[c].detach = Tail(call[c].detach)
       /\ call'[c].queue = call[c].queue /\ call'[c].note = AfterCoinbase(n)
  BY ZenonT(60), <1>3 DEF disconnectBlock, Engaged, Doing, Fields, RInv, Calls
<1>12. call'[c].stage # "store" /\ call'[c].stage \in Unexclusive
  BY SMTT(60), <1>11 DEF Unexclusive
<1>13. Doing(call'[c], db'.blocks)
  BY ZenonT(60), <1>2, <1>3, <1>4, <1>6, <1>11, <1>12, BlockTxs DEF Engaged, Doing
<1>14. Engaged(c)'
  BY ZenonT(60), <1>12, <1>13, UnexclusivePoised DEF Engaged
<1>15. db.blocks \subseteq db'.blocks
  BY ZenonT(60), <1>6
<1>16. QED
  BY ZenonT(60), <1>1, <1>8, <1>9, <1>10, <1>14, <1>15, CallerMoves DEF RInv

(* The rest of a call.                                                     *)

(* A record with the same block and branch, and perhaps more to look up.   *)
LEMMA SameWork ==
    ASSUME NEW r, NEW S, Doing(r, S), r.stage # "store",
           NEW q, DOMAIN q = Fields, q.b = r.b, q.detach = r.detach, q.attach = r.attach,
           q.queue \in Seq(S), q.note \in Seq(Tx), q.stage \in Unexclusive \ {"store"}
    PROVE  Doing(q, S) /\ \A t : Poised(q, t) /\ q.stage \notin Exclusive
<1>1. Doing(q, S)
  BY ZenonT(60) DEF Doing
<1>2. QED
  BY ZenonT(60), <1>1, UnexclusivePoised

LEMMA RRelock == ASSUME RInv, NEW c \in Callers, Relock(c) PROVE RInv'
<1> DEFINE stage == IF call[c].kind = "accepted" THEN "orphans" ELSE "reorganize"
           r == [call[c] EXCEPT !.stage = stage, !.kind = "none"]
<1>1. Continue(c, r) /\ owner = NoCaller /\ call[c].stage = "notify"
  BY ZenonT(60) DEF Relock
<1>2. call[c].stage # "store" /\ call[c].stage # "idle"
  BY SMTT(60), <1>1
<1>3. Engaged(c)
  BY Zenon, <1>2, BusyEngaged
<1>4. Kept /\ DOMAIN index' \subseteq db.blocks /\ Later /\ tip' = tip /\ posErr' = posErr /\ orphans' \in Seq(Real)
  BY ZenonT(60), SameDbKept DEF Relock, Later, RInv, Stock
<1>5. Touches(c) /\ call'[c] = r
  BY ZenonT(60), <1>1, ContinueTouches
<1>6. stage \in Unexclusive \ {"store"}
  BY SMTT(60) DEF Unexclusive
<1> HIDE DEF stage
<1>7. /\ DOMAIN r = Fields /\ r.b = call[c].b /\ r.detach = call[c].detach /\ r.attach = call[c].attach
      /\ r.queue = call[c].queue /\ r.note = call[c].note /\ r.stage = stage
  BY ZenonT(60), <1>3 DEF Engaged, Doing, Fields
<1> HIDE DEF r
<1>8. r.queue \in Seq(db.blocks) /\ r.note \in Seq(Tx) /\ Doing(call[c], db.blocks)
  BY ZenonT(60), <1>3, <1>7 DEF Engaged, Doing
<1>9. Doing(r, db.blocks) /\ Poised(r, tip) /\ r.stage \notin Exclusive
  BY ZenonT(60), <1>2, <1>6, <1>7, <1>8, SameWork
<1>10. QED
  BY ZenonT(60), <1>1, <1>4, <1>5, <1>9, CallAdvances

LEMMA RReorganized == ASSUME RInv, NEW c \in Callers, Reorganized(c) PROVE RInv'
<1>1. owner = c /\ call[c].stage = "reorganize"
  BY ZenonT(60) DEF Reorganized, Busy
<1>2. call[c].stage # "store" /\ call[c].stage # "idle"
  BY SMTT(60), <1>1
<1>3. Engaged(c)
  BY Zenon, <1>2, BusyEngaged
<1>4. Later /\ tip' = tip /\ posErr' = posErr /\ orphans' \in Seq(Real)
  BY ZenonT(60) DEF Reorganized, Later, RInv, Stock
<1>5. DOMAIN index' \subseteq db.blocks
  <2>1. index' = SetStatusFlags(index, {call[c].b}, {"valid"}) \/ index' = index
    BY ZenonT(60) DEF Reorganized
  <2>2. DOMAIN index' = DOMAIN index
    BY ZenonT(60), <2>1 DEF SetStatusFlags
  <2>3. QED
    BY ZenonT(60), <2>2 DEF RInv, Stock
<1>6. Kept
  <2>1. db' = db \/ db' = flushToDB(db, index')
    BY ZenonT(60) DEF Reorganized
  <2>2. QED
    BY ZenonT(60), <1>5, <2>1, SameDbKept, FlushToDBKept
<1>7. CASE Return(c)
  BY ZenonT(60), <1>1, <1>4, <1>5, <1>6, <1>7, ReturnTouches, CallAdvances
<1>8. ASSUME NEW stage \in {"finish", "choose"}, Continue(c, [call[c] EXCEPT !.stage = stage])
      PROVE  RInv'
  <2> DEFINE r == [call[c] EXCEPT !.stage = stage]
  <2>1. Touches(c) /\ call'[c] = r
    BY ZenonT(60), <1>8, ContinueTouches
  <2>2. stage \in Unexclusive \ {"store"}
    BY SMTT(60), <1>8 DEF Unexclusive
  <2>3. Doing(r, db.blocks) /\ Poised(r, tip) /\ r.stage \notin Exclusive
    BY ZenonT(60), <1>2, <1>3, <2>2, Restaged DEF Engaged
  <2>4. QED
    BY ZenonT(60), <1>1, <1>4, <1>5, <1>6, <2>1, <2>3, CallAdvances
<1>9. \/ Return(c)
      \/ \E stage \in {"finish", "choose"} : Continue(c, [call[c] EXCEPT !.stage = stage])
  BY ZenonT(60) DEF Reorganized
<1>10. QED
  BY ZenonT(60), <1>7, <1>8, <1>9

LEMMA AppendType ==
    ASSUME NEW S, NEW s \in Seq(S), NEW e \in S
    PROVE  Append(s, e) \in Seq(S)
BY SMTT(60)

LEMMA RFinishAcceptance == ASSUME RInv, NEW c \in Callers, FinishAcceptance(c) PROVE RInv'
<1>1. owner = c /\ call[c].stage = "finish"
  BY ZenonT(60) DEF FinishAcceptance, Busy
<1>2. call[c].stage # "store" /\ call[c].stage # "idle"
  BY SMTT(60), <1>1
<1>3. Engaged(c)
  BY Zenon, <1>2, BusyEngaged
<1>4. Kept /\ DOMAIN index' \subseteq db.blocks /\ Later /\ tip' = tip /\ posErr' = posErr /\ orphans' \in Seq(Real)
  BY ZenonT(60), SameDbKept DEF FinishAcceptance, Later, RInv, Stock
<1>5. Touches(c)
  BY ZenonT(60) DEF FinishAcceptance, Touches, RInv, Calls
<1>6. /\ DOMAIN call'[c] = Fields /\ call'[c].b = call[c].b /\ call'[c].stage = "notify"
      /\ call'[c].attach = call[c].attach /\ call'[c].detach = call[c].detach
      /\ call'[c].queue = Append(call[c].queue, call[c].b) /\ call'[c].note = call[c].note
  BY ZenonT(30), <1>3 DEF FinishAcceptance, Engaged, Doing, Fields, RInv, Calls
<1>7. call'[c].queue \in Seq(db.blocks) /\ call'[c].note \in Seq(Tx)
  <2>1. call[c].queue \in Seq(db.blocks) /\ call[c].b \in db.blocks
    BY ZenonT(60), <1>2, <1>3 DEF Engaged, Doing
  <2>2. Append(call[c].queue, call[c].b) \in Seq(db.blocks)
    BY ZenonT(60), <2>1, AppendType
  <2>3. QED
    BY ZenonT(60), <1>3, <1>6, <2>2 DEF Engaged, Doing
<1>8. call'[c].stage \in Unexclusive \ {"store"}
  BY SMTT(60), <1>6 DEF Unexclusive
<1>9. Doing(call'[c], db.blocks) /\ Poised(call'[c], tip) /\ call'[c].stage \notin Exclusive
  BY ZenonT(60), <1>2, <1>3, <1>6, <1>7, <1>8, SameWork DEF Engaged
<1>10. QED
  BY ZenonT(60), <1>1, <1>4, <1>5, <1>9, CallAdvances

LEMMA RCallEnds ==
    ASSUME RInv, NEW c \in Callers, AcceptedSyncFails(c) \/ NoMoreOrphans(c) \/ DisconnectFails(c)
    PROVE  RInv'
<1>1. /\ owner = c /\ Return(c) /\ UNCHANGED <<db, index, tip, orphans>>
      /\ (posErr => posErr')
  <2>1. owner = c /\ Return(c) /\ UNCHANGED <<db, index, tip, orphans>>
    BY ZenonT(60) DEF AcceptedSyncFails, NoMoreOrphans, DisconnectFails, Busy
  <2>2. posErr => posErr'
    BY ZenonT(60) DEF AcceptedSyncFails, NoMoreOrphans, DisconnectFails
  <2>3. QED
    BY ZenonT(60), <2>1, <2>2
<1>2. Later
  BY ZenonT(60), TearLater DEF AcceptedSyncFails, NoMoreOrphans, DisconnectFails, Later
<1>3. Kept /\ DOMAIN index' \subseteq db.blocks /\ orphans' \in Seq(Real)
  BY ZenonT(60), <1>1, SameDbKept DEF RInv, Stock
<1>4. QED
  BY ZenonT(60), <1>1, <1>2, <1>3, ReturnTouches, CallAdvances

(* The orphan's parent is one of the accepted blocks.                      *)
LEMMA RNextOrphan == ASSUME RInv, NEW c \in Callers, NextOrphan(c) PROVE RInv'
<1>1. owner = c /\ call[c].stage = "orphans"
  BY ZenonT(60) DEF NextOrphan, Busy
<1>2. call[c].stage # "store" /\ call[c].stage # "idle"
  BY SMTT(60), <1>1
<1>3. Engaged(c)
  BY Zenon, <1>2, BusyEngaged
<1>4. Kept /\ DOMAIN index' \subseteq db.blocks /\ Later /\ tip' = tip /\ posErr' = posErr
  BY ZenonT(60), SameDbKept DEF NextOrphan, Later, RInv, Stock
<1>5. PICK i, j :
        /\ i \in Waiting(c)
        /\ j \in Children(call[c].queue[i])
        /\ orphans' = RemoveAt(orphans, j)
        /\ \/ Continue(c, [Started("store", orphans[j]) EXCEPT !.queue = call[c].queue])
           \/ Return(c)
  BY ZenonT(60) DEF NextOrphan
<1>6. i \in DOMAIN call[c].queue /\ j \in DOMAIN orphans /\ Parent[orphans[j]] = call[c].queue[i]
  BY ZenonT(60), <1>5 DEF Waiting, Children
<1>7. orphans \in Seq(Real) /\ call[c].queue \in Seq(db.blocks)
  BY ZenonT(60), <1>3 DEF RInv, Stock, Engaged, Doing
<1>8. orphans[j] \in Real /\ Parent[orphans[j]] \in db.blocks
  BY SMTT(60), <1>6, <1>7
<1>9. orphans' \in Seq(Real)
  BY ZenonT(60), <1>5, <1>6, <1>7, RemoveAtType
<1>10. CASE Return(c)
  BY ZenonT(60), <1>1, <1>4, <1>9, <1>10, ReturnTouches, CallAdvances
<1>11. CASE Continue(c, [Started("store", orphans[j]) EXCEPT !.queue = call[c].queue])
  <2> DEFINE s == Started("store", orphans[j])
             r == [s EXCEPT !.queue = call[c].queue]
  <2>1. Touches(c) /\ call'[c] = r
    BY ZenonT(60), <1>11, ContinueTouches
  <2>2. Doing(s, db.blocks) /\ s.b = orphans[j] /\ s.stage = "store"
    BY ZenonT(60), <1>8, StartedDoing DEF Started
  <2> HIDE DEF s
  <2>3. /\ DOMAIN r = Fields /\ r.b = s.b /\ r.stage = "store"
        /\ r.detach = s.detach /\ r.attach = s.attach /\ r.queue = call[c].queue
        /\ r.note = s.note
    BY ZenonT(60), <2>2 DEF Doing, Fields
  <2> HIDE DEF r
  <2>4. Doing(r, db.blocks)
    BY ZenonT(60), <1>7, <2>2, <2>3 DEF Doing
  <2>5. r.stage \in Unexclusive
    BY SMTT(60), <2>3 DEF Unexclusive
  <2>6. QED
    BY ZenonT(60), <1>1, <1>4, <1>9, <2>1, <2>4, <2>5, UnexclusivePoised, CallAdvances
<1>12. QED
  BY ZenonT(60), <1>5, <1>10, <1>11

(* The administrator's calls.                                              *)

LEMMA RInvalidateSide == ASSUME RInv, NEW b \in Real, InvalidateSide(b) PROVE RInv'
<1>1. PICK one, two, three, four, five, six :
        index' = UnsetStatusFlags(SetStatusFlags(SetStatusFlags(index, one, two), three, four), five, six)
  BY ZenonT(60) DEF InvalidateSide
<1>2. DOMAIN index' = DOMAIN index
  <2> DEFINE failed == SetStatusFlags(index, one, two)
             marked == SetStatusFlags(failed, three, four)
  <2>1. index' = UnsetStatusFlags(marked, five, six)
    BY ZenonT(60), <1>1
  <2>2. DOMAIN failed = DOMAIN index
    BY ZenonT(60) DEF SetStatusFlags
  <2> HIDE DEF failed
  <2>3. DOMAIN marked = DOMAIN failed
    BY ZenonT(60) DEF SetStatusFlags
  <2> HIDE DEF marked
  <2>4. DOMAIN UnsetStatusFlags(marked, five, six) = DOMAIN marked
    BY ZenonT(60) DEF UnsetStatusFlags
  <2>5. QED
    BY SMTT(60), <2>1, <2>2, <2>3, <2>4
<1>3. DOMAIN index' \subseteq db.blocks
  BY Zenon, <1>2 DEF RInv, Stock
<1>4. Kept
  BY Zenon, <1>3, FlushToDBKept DEF InvalidateSide
<1>5. UNCHANGED <<tip, posErr, owner, call>> /\ Later /\ orphans' \in Seq(Real)
  BY Zenon DEF InvalidateSide, Later, RInv, Stock
<1>6. QED
  BY ZenonT(60), <1>3, <1>4, <1>5, NoCallMoves

(* A reorganisation the administrator asked for.                           *)
LEMMA Administering ==
    ASSUME NEW S, NEW q, DOMAIN q = Fields, q.b \in Real \cap S, q.stage = "reorganize", q.queue = <<>>,
           q.note = <<>>,
           q.detach \in Seq(Real), q.attach \in Seq(Real \cap S)
    PROVE  Doing(q, S) /\ \A t : Poised(q, t) /\ q.stage \notin Exclusive
<1>1. q.stage \in Unexclusive /\ q.stage # "store" /\ <<>> \in Seq(S) /\ <<>> \in Seq(Tx)
  BY SMTT(60) DEF Unexclusive
<1>2. Doing(q, S)
  BY ZenonT(60), <1>1 DEF Doing
<1>3. QED
  BY Zenon, <1>1, <1>2, UnexclusivePoised

LEMMA RInvalidateBest == ASSUME RInv, NEW b \in Real, InvalidateBest(b) PROVE RInv'
<1> DEFINE above == Downward(Path[tip], {n \in DOMAIN index : IsAncestor(n, b) /\ ~KnownInvalid(index[n])})
           marked == SetStatusFlags(SetStatusFlags(index, {b}, {"failed"}), ToSet(above), {"ancestor"})
           idx == UnsetStatusFlags(marked, ToSet(above) \cup {b}, {"valid"})
           r == [Started("reorganize", b) EXCEPT !.detach = Append(above, b), !.after = "choose"]
<1>1. DOMAIN idx = DOMAIN index
  BY ZenonT(60) DEF SetStatusFlags, UnsetStatusFlags
<1>2. above \in Seq(Real)
  <2>1. Path[tip] \in Seq(Real)
    BY ZenonT(60), HeightAssumption DEF RInv, Stock, Real
  <2>2. QED
    BY ZenonT(60), <2>1, DownwardType
<1>3. owner = NoCaller /\ "rpc" \in Callers /\ b \in db.blocks
  BY ZenonT(60) DEF InvalidateBest, CanAdminister, Callers, RInv, Stock
<1>4. Kept /\ Later /\ tip' = tip /\ posErr' = posErr /\ orphans' \in Seq(Real)
  BY ZenonT(60), SameDbKept DEF InvalidateBest, Later, RInv, Stock
<1>5. PICK v : /\ v = verifyReorganizationValidity(idx, Append(above, b), <<>>)
               /\ index' = v.index
               /\ Continue("rpc", r) \/ UNCHANGED <<owner, call>>
  BY ZenonT(60) DEF InvalidateBest
<1> HIDE DEF above, idx
<1>6. DOMAIN index' \subseteq db.blocks
  <2>1. DOMAIN v.index = DOMAIN idx
    BY ZenonT(60), <1>5, VerdictDomain
  <2>2. QED
    BY ZenonT(60), <1>1, <1>5, <2>1 DEF RInv, Stock
<1>7. CASE UNCHANGED <<owner, call>>
  BY ZenonT(60), <1>4, <1>6, <1>7, NoCallMoves
<1>8. CASE Continue("rpc", r)
  <2>1. Touches("rpc") /\ call'["rpc"] = r
    BY ZenonT(60), <1>3, <1>8, ContinueTouches
  <2>2. Append(above, b) \in Seq(Real) /\ <<>> \in Seq(Real \cap db.blocks)
    BY SMTT(60), <1>2
  <2>3. /\ DOMAIN r = Fields /\ r.b = b /\ r.stage = "reorganize" /\ r.queue = <<>> /\ r.note = <<>>
        /\ r.detach = Append(above, b) /\ r.attach = <<>>
    BY ZenonT(60) DEF Started, Fields
  <2> HIDE DEF r
  <2>4. Doing(r, db.blocks) /\ Poised(r, tip) /\ r.stage \notin Exclusive
    BY ZenonT(60), <1>3, <2>2, <2>3, Administering
  <2>5. QED
    BY ZenonT(60), <1>3, <1>4, <1>6, <2>1, <2>4, CallAdvances
<1>9. QED
  BY ZenonT(60), <1>5, <1>7, <1>8

LEMMA RReconsiderBlock == ASSUME RInv, NEW b \in Real, ReconsiderBlock(b) PROVE RInv'
<1> DEFINE below == {n \in DOMAIN index : IsAncestor(n, b)}
           idx == UnsetStatusFlags(UnsetStatusFlags(index, {b} \cup below, {"ancestor"}), {b}, {"failed"})
<1>1. DOMAIN idx = DOMAIN index /\ DOMAIN index \subseteq db.blocks
  BY ZenonT(60) DEF UnsetStatusFlags, RInv, Stock
<1>2. owner = NoCaller /\ "rpc" \in Callers /\ b \in db.blocks
  BY ZenonT(60) DEF ReconsiderBlock, CanAdminister, Callers, RInv, Stock
<1>3. Later /\ tip' = tip /\ posErr' = posErr /\ orphans' \in Seq(Real)
  BY ZenonT(60) DEF ReconsiderBlock, Later, RInv, Stock
<1>4. PICK t, g, v :
        /\ t \in InactiveTips(index) \cup {tip}
        /\ g = getReorganizeNodes(idx, t)
        /\ v = verifyReorganizationValidity(g.index, g.detach, g.attach)
        /\ \/ index' = idx /\ UNCHANGED <<db, owner, call>>
           \/ /\ index' = v.index /\ db' = flushToDB(db, v.index)
              /\ \/ Continue("rpc", [Started("reorganize", b) EXCEPT
                          !.detach = g.detach, !.attach = g.attach, !.after = "reconsider"])
                 \/ UNCHANGED <<owner, call>>
  BY ZenonT(60) DEF ReconsiderBlock
<1> HIDE DEF idx
<1>5. t \in db.blocks
  BY Zenon, <1>4 DEF InactiveTips, RInv, Stock
<1>6. g.detach \in Seq(Real) /\ g.attach \in Seq(Real \cap db.blocks) /\ DOMAIN g.index = DOMAIN idx
  BY ZenonT(60), <1>4, <1>5, ReorganizeNodes DEF RInv
<1>7. CASE index' = idx /\ UNCHANGED <<db, owner, call>>
  BY ZenonT(60), <1>1, <1>3, <1>7, SameDbKept, NoCallMoves
<1>8. CASE index' = v.index /\ db' = flushToDB(db, v.index)
  <2>1. DOMAIN v.index = DOMAIN g.index
    <3>1. v = verifyReorganizationValidity(g.index, g.detach, g.attach)
      BY ZenonT(60), <1>4
    <3>2. DOMAIN verifyReorganizationValidity(g.index, g.detach, g.attach).index = DOMAIN g.index
      BY ZenonT(60), VerdictDomain
    <3>3. QED
      BY ZenonT(60), <3>1, <3>2
  <2>2. DOMAIN v.index \subseteq db.blocks
    BY ZenonT(60), <1>1, <1>6, <2>1
  <2>3. Kept /\ DOMAIN index' \subseteq db.blocks
    BY ZenonT(60), <1>8, <2>2, FlushToDBKept
  <2>4. CASE UNCHANGED <<owner, call>>
    BY ZenonT(60), <1>3, <2>3, <2>4, NoCallMoves
  <2>5. CASE Continue("rpc", [Started("reorganize", b) EXCEPT
                          !.detach = g.detach, !.attach = g.attach, !.after = "reconsider"])
    <3> DEFINE r == [Started("reorganize", b) EXCEPT
                          !.detach = g.detach, !.attach = g.attach, !.after = "reconsider"]
    <3>1. Touches("rpc") /\ call'["rpc"] = r
      BY ZenonT(60), <1>2, <2>5, ContinueTouches
    <3>2. /\ DOMAIN r = Fields /\ r.b = b /\ r.stage = "reorganize" /\ r.queue = <<>> /\ r.note = <<>>
          /\ r.detach = g.detach /\ r.attach = g.attach
      BY ZenonT(60) DEF Started, Fields
    <3> HIDE DEF r
    <3>3. Doing(r, db.blocks) /\ Poised(r, tip) /\ r.stage \notin Exclusive
      BY ZenonT(60), <1>2, <1>6, <3>2, Administering
    <3>4. QED
      BY ZenonT(60), <1>2, <1>3, <2>3, <3>1, <3>3, CallAdvances
  <2>6. CASE index' = idx /\ UNCHANGED <<db, owner, call>>
    BY ZenonT(60), <1>7, <2>6
  <2>7. QED
    BY ZenonT(60), <1>4, <2>4, <2>5, <2>6
<1>9. QED
  BY ZenonT(60), <1>4, <1>7, <1>8

(* Readers, flushes, restarts and the pool.                                *)

LEMMA ROther ==
    ASSUME RInv, UNCHANGED <<index, tip, orphans, db, posErr, owner, call, torn>>
    PROVE  RInv'
<1>1. Kept /\ Later /\ DOMAIN index' \subseteq db.blocks /\ orphans' \in Seq(Real)
  BY ZenonT(60), SameDbKept DEF Later, RInv, Stock
<1>2. QED
  BY ZenonT(60), <1>1, NoCallMoves

(* No flush after a failed sync, so the stored best block is the tip.      *)
LEMMA RFlushUtxoCache == ASSUME RInv, FlushUtxoCache PROVE RInv'
<1>1. /\ UNCHANGED <<index, tip, orphans, posErr, owner, call>> /\ ~posErr /\ Taint
      /\ DOMAIN db' = Buckets /\ db'.blocks = db.blocks /\ db'.rows = db.rows
      /\ db'.best = db.best /\ db'.journal = db.journal /\ db'.marker = tip
  BY ZenonT(30) DEF FlushUtxoCache, RInv, Stock, Buckets
<1>2. Stock' /\ Calls'
  BY ZenonT(60), <1>1, CallsStay DEF RInv, Stock
<1>3. ASSUME torn' # "db" PROVE Written'
  <2>1. torn # "db"
    BY SMTT(60), <1>1, <1>3 DEF Taint
  <2>2. db.best = tip /\ tip \in Chain(tip)
    BY ZenonT(60), <1>1, <2>1, TipOnChain DEF RInv, Written, Ahead, Stock
  <2>3. QED
    BY ZenonT(60), <1>1, <2>1, <2>2 DEF RInv, Written
<1>4. QED
  BY ZenonT(60), <1>2, <1>3 DEF RInv, Written

LEMMA RFlushFails == ASSUME RInv, FlushFails PROVE RInv'
<1>1. UNCHANGED <<index, tip, orphans, db, posErr, owner, call>> /\ Tear
  BY ZenonT(60) DEF FlushFails
<1>2. Kept /\ Later /\ DOMAIN index' \subseteq db.blocks /\ orphans' \in Seq(Real)
  BY ZenonT(60), <1>1, SameDbKept, TearLater DEF RInv, Stock
<1>3. QED
  BY ZenonT(60), <1>1, <1>2, NoCallMoves

(* Whatever was flushed in the replay is above the marker on the chain.    *)
LEMMA RCrashAndRestart == ASSUME RInv, CrashAndRestart PROVE RInv'
<1>1. /\ index' = SetStatusFlags(db.rows, Chain(db.best), {"valid"})
      /\ tip' = db.best /\ orphans' = <<>>
      /\ call' = [c \in Callers |-> Idle]
      /\ torn' = IF torn = "cache" THEN "no" ELSE torn
  BY ZenonT(60) DEF CrashAndRestart
<1> DEFINE blocks == Above(db.marker, db.best)
<1>2. PICK k, d : k \in 0..Len(blocks) /\ d = FlushedInReplay(blocks, k) /\ db' = flushToDB(d, index')
  BY ZenonT(60) DEF CrashAndRestart
<1> HIDE DEF blocks
<1>3. /\ DOMAIN d = Buckets /\ d.blocks = db.blocks /\ d.best = db.best /\ d.rows = db.rows
      /\ d.journal = db.journal /\ d.marker = IF k = 0 THEN db.marker ELSE blocks[k]
  <2>1. CASE k = 0
    BY ZenonT(60), <1>2, <2>1 DEF FlushedInReplay, RInv, Stock
  <2>2. CASE k # 0
    <3>1. \E u : d = [db EXCEPT !.utxo = u, !.marker = blocks[k]]
      BY ZenonT(60), <1>2, <2>2 DEF FlushedInReplay
    <3>2. QED
      BY ZenonT(60), <2>2, <3>1 DEF RInv, Stock, Buckets
  <2>3. QED
    BY ZenonT(60), <2>1, <2>2
<1>4. /\ DOMAIN db' = Buckets /\ db'.blocks = db.blocks /\ db'.best = db.best
      /\ db'.journal = db.journal /\ db'.marker = d.marker
      /\ db'.rows = Overlay(index', db.rows)
  BY ZenonT(60), <1>2, <1>3 DEF flushToDB, Buckets
<1>5. DOMAIN index' = DOMAIN db.rows /\ DOMAIN db'.rows = DOMAIN db.rows
  <2>1. DOMAIN index' = DOMAIN db.rows
    BY ZenonT(60), <1>1 DEF SetStatusFlags
  <2>2. QED
    BY ZenonT(60), <1>4, <2>1 DEF Overlay
<1>6. Stock'
  <2>1. orphans' \in Seq(Real)
    BY SMTT(60), <1>1
  <2>2. QED
    BY ZenonT(60), <1>1, <1>4, <1>5, <2>1 DEF RInv, Stock
<1>7. Written'
  <2>1. SUFFICES ASSUME torn' # "db" PROVE Written'
    BY ZenonT(60) DEF Written
  <2>2. torn # "db"
    BY SMTT(60), <1>1, <2>1
  <2>3. db.marker \in Chain(db.best) /\ DOMAIN db.journal = Chain(db.best) \ {Genesis}
    BY ZenonT(60), <2>2 DEF RInv, Written
  <2>4. d.marker \in Chain(db.best)
    <3>1. CASE k = 0
      BY ZenonT(60), <1>3, <2>3, <3>1
    <3>2. CASE k # 0
      <4>1. blocks \in Seq(Real \cap Chain(db.best))
        BY ZenonT(60), <2>3, AboveOnChain DEF RInv, Stock, blocks
      <4>2. k \in 1..Len(blocks)
        BY SMTT(60), <1>2, <3>2, <4>1
      <4>3. blocks[k] \in Chain(db.best)
        BY SMTT(60), <4>1, <4>2
      <4>4. QED
        BY ZenonT(60), <1>3, <3>2, <4>3
    <3>3. QED
      BY ZenonT(60), <3>1, <3>2
  <2>5. QED
    BY ZenonT(60), <1>1, <1>4, <2>3, <2>4 DEF Written
<1>8. Calls'
  BY ZenonT(60), <1>1 DEF Calls
<1>9. QED
  BY ZenonT(60), <1>6, <1>7, <1>8 DEF RInv

LEMMA RNotification == ASSUME RInv, NEW c \in Callers, handleBlockchainNotification(c) PROVE RInv'
<1>1. owner = NoCaller /\ call[c].stage = "notify"
  BY ZenonT(60) DEF handleBlockchainNotification, PoolStep
<1>2. call[c].stage # "store" /\ call[c].stage # "idle"
  BY SMTT(60), <1>1
<1>3. Engaged(c)
  BY Zenon, <1>2, BusyEngaged
<1>4. Kept /\ DOMAIN index' \subseteq db.blocks /\ Later /\ tip' = tip /\ posErr' = posErr /\ orphans' \in Seq(Real)
  BY ZenonT(60), SameDbKept DEF handleBlockchainNotification, Later, RInv, Stock
<1>5. Touches(c)
  BY ZenonT(60) DEF handleBlockchainNotification, Touches, RInv, Calls
<1>6. /\ DOMAIN call'[c] = Fields /\ call'[c].b = call[c].b /\ call'[c].stage = "notify"
      /\ call'[c].attach = call[c].attach /\ call'[c].detach = call[c].detach
      /\ call'[c].queue = call[c].queue /\ call'[c].note = Tail(call[c].note)
  BY ZenonT(60), <1>1, <1>3 DEF handleBlockchainNotification, Engaged, Doing, Fields, RInv, Calls
<1>7. call'[c].queue \in Seq(db.blocks) /\ call'[c].note \in Seq(Tx)
  <2>1. call[c].note \in Seq(Tx) /\ call[c].note # <<>>
    BY ZenonT(60), <1>3 DEF Engaged, Doing, handleBlockchainNotification
  <2>2. Tail(call[c].note) \in Seq(Tx)
    BY ZenonT(60), <2>1, HeadTail
  <2>3. QED
    BY ZenonT(60), <1>3, <1>6, <2>2 DEF Engaged, Doing
<1>8. call'[c].stage \in Unexclusive \ {"store"}
  BY SMTT(60), <1>6 DEF Unexclusive
<1>9. Doing(call'[c], db.blocks) /\ Poised(call'[c], tip) /\ call'[c].stage \notin Exclusive
  BY ZenonT(60), <1>2, <1>3, <1>6, <1>7, <1>8, SameWork DEF Engaged
<1>10. QED
  BY ZenonT(60), <1>1, <1>4, <1>5, <1>9, CallAdvances

LEMMA RInit == Init => RInv
<1>1. SUFFICES ASSUME Init PROVE RInv
  BY Zenon
<1>2. /\ call = [c \in Callers |-> Idle] /\ orphans = <<>> /\ tip = Genesis /\ posErr = FALSE
      /\ DOMAIN index = {Genesis} /\ DOMAIN db = Buckets
      /\ db.blocks = {Genesis} /\ DOMAIN db.rows = {Genesis} /\ db.best = Genesis
      /\ db.marker = Genesis /\ db.journal = <<>>
  BY ZenonT(60), <1>1 DEF Init, Start, Buckets
<1>3. orphans \in Seq(Real) /\ DOMAIN db.journal = {}
  BY SMTT(60), <1>2
<1>4. Genesis \in Blocks /\ Chain(Genesis) = {Genesis}
  BY ZenonT(60), TreeAssumption, ChainSteps
<1>5. Stock
  BY ZenonT(60), <1>2, <1>3, <1>4 DEF Stock
<1>6. Written
  BY ZenonT(60), <1>2, <1>3, <1>4 DEF Written
<1>7. Calls
  BY ZenonT(60), <1>2 DEF Calls
<1>8. QED
  BY ZenonT(60), <1>5, <1>6, <1>7 DEF RInv

LEMMA RCallStep == ASSUME RInv, NEW c \in Callers, CallStep(c) PROVE RInv'
BY ZenonT(60), RStoreBlock, RAddNode, RExtendKnownValid, RExtendChecked, RKeepSideChain, RSwitchBranch,
   RPrepareDisconnect, RdisconnectBlock, RPrepareConnect, RconnectBlock, RConnectUnannounced, RConnectFails, RRelock,
   RReorganized, RFinishAcceptance, RCallEnds, RNextOrphan, RChooseBestTip
   DEF CallStep

LEMMA RStep == ASSUME RInv, plan \in Plans, [Next]_vars PROVE RInv'
<1>1. plan.tree \subseteq Real
  BY ZenonT(60), PlansAssumption DEF Real
<1>2. ASSUME NEW b \in plan.tree,
             \/ ProcessBlock(b) \/ RecoverStoredPOSBlock(b) \/ addOrphanBlock(b)
             \/ InvalidateSide(b) \/ InvalidateBest(b) \/ ReconsiderBlock(b)
      PROVE  RInv'
  BY ZenonT(60), <1>1, <1>2, RProcessBlock, RRecover, RaddOrphan, RInvalidateSide, RInvalidateBest,
     RReconsiderBlock
<1>3. ASSUME NEW o \in plan.users, FetchUtxoEntry(o) PROVE RInv'
  BY ZenonT(60), <1>3, ROther DEF FetchUtxoEntry
<1>4. ASSUME NEW t \in plan.users, handleTxMsg(t) \/ SendRawTransaction(t) PROVE RInv'
  BY ZenonT(60), <1>4, ROther DEF handleTxMsg, SendRawTransaction
<1>5. CASE RemoveOrphansByTag
  BY ZenonT(60), <1>5, ROther DEF RemoveOrphansByTag
<1>6. CASE UNCHANGED vars
  BY ZenonT(60), <1>6, ROther DEF vars, chainVars
<1>7. CASE ChainStep
  BY ZenonT(60), <1>2, <1>3, <1>7, RCallStep, RFlushUtxoCache, RFlushFails DEF ChainStep
<1>8. QED
  BY ZenonT(60), <1>4, <1>5, <1>6, <1>7, RCrashAndRestart, RNotification DEF Next

LEMMA RStepKeeps == (plan \in Plans /\ RInv) /\ [Next]_vars => (plan \in Plans /\ RInv)'
<1>1. SUFFICES ASSUME plan \in Plans, RInv, [Next]_vars PROVE plan' \in Plans /\ RInv'
  BY ZenonT(60)
<1>2. plan' = plan
  BY ZenonT(60), <1>1, PlanStays DEF vars, chainVars
<1>3. QED
  BY ZenonT(60), <1>1, <1>2, RStep

(* Whatever blocks, administrator's calls, failed transactions and         *)
(* crashes, in whatever order, and for any tree of blocks: unless a cache  *)
(* that a refused or unstored block, or a failed flush, left wrong has     *)
(* reached the database, what InitConsistentState starts from is there.    *)
(* The consistency marker is on the stored best chain, so that the blocks  *)
(* to replay are the ones above it; the bytes of every block of that chain *)
(* and of every row of the index are stored, though dbStoreBlock, the row  *)
(* and the commit are transactions of their own; and the spend journal has *)
(* a row for exactly the blocks of that chain, so that each of them can be *)
(* disconnected.                                                           *)
THEOREM RecordsStored == Spec => [](torn # "db" => Records)
<1> DEFINE SInv == plan \in Plans /\ RInv
<1>1. Init => SInv
  BY ZenonT(60), RInit DEF Init, Start
<1>2. RInv => (torn # "db" => Records)
  BY ZenonT(60) DEF RInv, Stock, Written, Records
<1>3. SInv /\ [Next]_vars => SInv'
  BY ZenonT(60), RStepKeeps
<1>4. SInv => (torn # "db" => Records)
  BY ZenonT(60), <1>2
<1> HIDE DEF SInv
<1>5. QED
  BY <1>1, <1>3, <1>4, PTL DEF Spec
=============================================================================
