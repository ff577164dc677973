-------------------------- MODULE PosApprovalProofs --------------------------
(***************************************************************************)
(* What PosApproval promises holds for any number of blocks, candidates,   *)
(* crashes, failed writes, lagging indexes and lost connections.           *)
(***************************************************************************)
EXTENDS PosApproval, TLAPS

(* One goroutine moves on; it may hold chainLock only if no other does.     *)
LEMMA OneGoroutine ==
    ASSUME ThreadsOK, NEW n \in Nodes, NEW t \in Threads, NEW g \in Goroutine,
           thread' = [thread EXCEPT ![n][t] = g],
           g.pc \in Holding =>
              g.blk \in Blocks /\ \A u \in Threads \ {t} : thread[n][u].pc \notin Holding
    PROVE  ThreadsOK'
<1>1. thread' \in [Nodes -> [Threads -> Goroutine]]
  BY Zenon DEF ThreadsOK
<1>2. ASSUME NEW m \in Nodes, NEW v \in Threads
      PROVE  thread'[m][v] = IF m = n /\ v = t THEN g ELSE thread[m][v]
  BY Zenon DEF ThreadsOK
<1>3. ASSUME NEW m \in Nodes, NEW v \in Threads, thread'[m][v].pc \in Holding
      PROVE  thread'[m][v].blk \in Blocks /\ \A u \in Threads : thread'[m][u].pc \in Holding => u = v
  BY ZenonT(60), <1>2, <1>3 DEF ThreadsOK
<1> QED
  BY Zenon, <1>1, <1>3 DEF ThreadsOK

(* A goroutine that ends, waits or is woken does not hold chainLock.        *)
LEMMA GotoType ==
    ASSUME ThreadsOK, NEW n \in Nodes, NEW t \in Threads, NEW pc \in Steps, Goto(n, t, pc),
           thread[n][t].pc \in Holding
    PROVE  ThreadsOK'
<1> DEFINE g == [thread[n][t] EXCEPT !.pc = pc]
<1>1. thread[n][t] \in Goroutine
  BY DEF ThreadsOK
<1>2. g \in Goroutine /\ g.blk = thread[n][t].blk
  BY Zenon, <1>1 DEF Goroutine
<1>3. thread' = [thread EXCEPT ![n][t] = g]
  BY Zenon DEF Goto
<1>4. thread[n][t].blk \in Blocks /\ \A u \in Threads \ {t} : thread[n][u].pc \notin Holding
  BY Zenon DEF ThreadsOK
<1> HIDE DEF g
<1> QED
  BY Zenon, <1>2, <1>3, <1>4, OneGoroutine

LEMMA IdleType == Idle \in Goroutine /\ Idle.pc \notin Holding
BY PosAssumption DEF Idle, Goroutine, Steps, Nonces, Holding

LEMMA ChildType == ASSUME NEW n \in Nodes PROVE Child[n] \in Nodes \cup {NoNode}
BY Zenon DEF Child, Nodes

LEMMA EndedType ==
    ASSUME TypeOK, NEW n \in Nodes, NEW t \in Threads, NEW ok \in BOOLEAN, Ended(n, t, ok)
    PROVE  ThreadsOK' /\ acks' \subseteq [to: Nodes \cup {NoNode}, nonce: Nonces, ok: BOOLEAN]
<1>1. ThreadsOK'
  BY Zenon, IdleType, OneGoroutine DEF Ended, TypeOK
<1>2. thread[n][t].req \in Nonces
  BY DEF TypeOK, ThreadsOK, Goroutine
<1>3. acks' \subseteq [to: Nodes \cup {NoNode}, nonce: Nonces, ok: BOOLEAN]
  BY <1>2, ChildType DEF Ended, TypeOK
<1> QED
  BY Zenon, <1>1, <1>3

LEMMA BeginType ==
    ASSUME TypeOK, NEW n \in Nodes, NEW t \in Threads, NEW b \in Blocks, NEW req \in Nonces,
           Begin(n, t, b, req)
    PROVE  ThreadsOK'
<1> DEFINE g == [pc |-> IF b \in index[n] THEN "commit" ELSE "store", blk |-> b, req |-> req, call |-> 0]
<1>1. g \in Goroutine /\ g.blk = b
  BY PosAssumption DEF Goroutine, Steps, Nonces
<1>2. thread' = [thread EXCEPT ![n][t] = g] /\ LockFree(n)
  BY Zenon DEF Begin
<1> HIDE DEF g
<1> QED
  BY Zenon, <1>1, <1>2, OneGoroutine DEF LockFree, TypeOK

LEMMA SendType ==
    ASSUME TypeOK, NEW s \in Nodes, NEW t \in Threads, NEW b \in Blocks, NEW req \in Nonces,
           Send(s, t, b, req)
    PROVE  /\ ThreadsOK'
           /\ last' \in [Nodes -> Nonces]
           /\ reqs' \subseteq [from: Nodes, nonce: Nonces, blk: Blocks]
<1>1. PICK k \in FreshNonces(s) :
         /\ last' = [last EXCEPT ![s] = k]
         /\ thread' = [thread EXCEPT ![s][t] = [pc |-> "wait", blk |-> b, req |-> req, call |-> k]]
         /\ reqs' \subseteq reqs \cup {[from |-> s, nonce |-> k, blk |-> b]}
  BY Zenon  DEF Send
<1>2. k \in Nonces
  BY PosAssumption DEF FreshNonces, Nonces
<1> DEFINE g == [pc |-> "wait", blk |-> b, req |-> req, call |-> k]
<1>3. g \in Goroutine /\ g.pc \notin Holding
  BY Zenon, <1>2 DEF Goroutine, Steps, Holding
<1>4. thread' = [thread EXCEPT ![s][t] = g]
  BY Zenon, <1>1
<1> HIDE DEF g
<1>5. ThreadsOK'
  BY Zenon, <1>3, <1>4, OneGoroutine DEF TypeOK
<1> QED
  BY <1>1, <1>2, <1>5 DEF TypeOK

(* Facts of TypeOK about one goroutine and one database.                    *)
LEMMA NodeTypes ==
    ASSUME TypeOK, NEW n \in Nodes, NEW t \in Threads
    PROVE  /\ tip[n] \in Blocks /\ db[n] \in Database /\ disk[n] \in Database
           /\ db[n].best \in Blocks /\ disk[n].best \in Blocks
           /\ disk[n].rows \subseteq Blocks /\ index[n] \subseteq Blocks
           /\ thread[n][t] \in Goroutine
           /\ thread[n][t].pc \in Holding => thread[n][t].blk \in Blocks
           /\ thread[n][t].blk \in Blocks \cup {NoBlock}
BY DEF TypeOK, ThreadsOK, Database, Goroutine

(* One database changes.                                                    *)
LEMMA DatabaseType ==
    ASSUME TypeOK, NEW n \in Nodes, NEW d \in Database, db' = [db EXCEPT ![n] = d]
    PROVE  db' \in [Nodes -> Database]
BY Zenon DEF TypeOK

(* The steps of a commit keep the types.                                    *)
LEMMA CommitType ==
    ASSUME TypeOK, NEW n \in Nodes, NEW t \in Threads,
           \/ StoreBlock(n, t) \/ ConnectBlock(n, t) \/ SetTip(n, t) \/ SetTipIndexBehind(n, t)
           \/ FinishBlockAcceptance(n, t) \/ WriteFails(n, t)
    PROVE  TypeOK'
<1>1. CASE StoreBlock(n, t)
  <2>1. thread[n][t].blk \in Blocks
    BY Zenon, <1>1, NodeTypes DEF StoreBlock, At, Holding
  <2>2. ThreadsOK'
    BY Zenon, <1>1, GotoType DEF StoreBlock, At, Holding, Steps, TypeOK
  <2>3. [db[n] EXCEPT !.rows = @ \cup {thread[n][t].blk}] \in Database
    <3>1. db[n] \in Database
      BY Zenon, NodeTypes
    <3> QED
      BY Zenon, <2>1, <3>1 DEF Database
  <2>4. db' \in [Nodes -> Database]
    BY Zenon, <1>1, <2>3, DatabaseType DEF StoreBlock
  <2> QED
    BY ZenonT(60), <1>1, <2>1, <2>2, <2>4 DEF StoreBlock, TypeOK, linkVars
<1>2. CASE ConnectBlock(n, t)
  <2>1. thread[n][t].blk \in Blocks
    BY Zenon, <1>2, NodeTypes DEF ConnectBlock, At, Holding
  <2>2. ThreadsOK'
    BY Zenon, <1>2, GotoType DEF ConnectBlock, At, Holding, Steps, TypeOK
  <2>3. [db[n] EXCEPT !.best = thread[n][t].blk] \in Database
    <3>1. db[n] \in Database
      BY Zenon, NodeTypes
    <3> QED
      BY Zenon, <2>1, <3>1 DEF Database
  <2>4. db' \in [Nodes -> Database]
    BY Zenon, <1>2, <2>3, DatabaseType DEF ConnectBlock
  <2> QED
    BY Zenon, <1>2, <2>2, <2>4 DEF ConnectBlock, TypeOK, linkVars
<1>3. CASE SetTip(n, t)
  <2>1. thread[n][t].blk \in Blocks
    BY Zenon, <1>3, NodeTypes DEF SetTip, At, Holding
  <2>2. ThreadsOK'
    BY Zenon, <1>3, GotoType DEF SetTip, At, Holding, Steps, TypeOK
  <2> QED
    BY Zenon, <1>3, <2>1, <2>2 DEF SetTip, TypeOK, linkVars
<1>4. CASE SetTipIndexBehind(n, t)
  <2>1. thread[n][t].blk \in Blocks
    BY Zenon, <1>4, NodeTypes DEF SetTipIndexBehind, At, Holding
  <2>2. ThreadsOK' /\ acks' \subseteq [to: Nodes \cup {NoNode}, nonce: Nonces, ok: BOOLEAN]
    BY Zenon, <1>4, EndedType DEF SetTipIndexBehind
  <2> QED
    BY Zenon, <1>4, <2>1, <2>2 DEF SetTipIndexBehind, TypeOK
<1>5. CASE FinishBlockAcceptance(n, t)
  <2>1. ThreadsOK' /\ acks' \subseteq [to: Nodes \cup {NoNode}, nonce: Nonces, ok: BOOLEAN]
    BY Zenon, <1>5, EndedType DEF FinishBlockAcceptance
  <2> QED
    BY Zenon, <1>5, <2>1 DEF FinishBlockAcceptance, TypeOK
<1>6. CASE WriteFails(n, t)
  <2>1. ThreadsOK' /\ acks' \subseteq [to: Nodes \cup {NoNode}, nonce: Nonces, ok: BOOLEAN]
    BY Zenon, <1>6, EndedType DEF WriteFails
  <2>2. index' \in [Nodes -> SUBSET Blocks]
    <3>1. CASE UNCHANGED index
      BY Zenon, <3>1 DEF TypeOK
    <3>2. CASE At(n, t, "store") /\ index' = [index EXCEPT ![n] = @ \cup {thread[n][t].blk}]
      <4>1. thread[n][t].blk \in Blocks
        BY Zenon, <3>2, NodeTypes DEF At, Holding
      <4> QED
        BY Zenon, <3>2, <4>1 DEF TypeOK
    <3> QED
      BY Zenon, <1>6, <3>1, <3>2 DEF WriteFails
  <2> QED
    BY Zenon, <1>6, <2>1, <2>2 DEF WriteFails, TypeOK
<1> QED
  BY Zenon, <1>1, <1>2, <1>3, <1>4, <1>5, <1>6

(* So do the steps of the link.                                             *)
LEMMA LinkType ==
    ASSUME TypeOK, NEW s \in Nodes,
           \/ \E t \in Threads : MineAckReceived(s, t) \/ MineAckTimeout(s, t)
           \/ \E a \in acks : HandleMineAck(s, a)
           \/ \E r \in reqs : KnownCandidate(s, r) \/ RejectCandidate(s, r)
           \/ Disconnect(s)
    PROVE  TypeOK'
<1>1. CASE \E t \in Threads : MineAckReceived(s, t) \/ MineAckTimeout(s, t)
  <2>1. PICK t \in Threads : MineAckReceived(s, t) \/ MineAckTimeout(s, t)
    BY Zenon, <1>1
  <2>2. ThreadsOK' /\ acks' \subseteq [to: Nodes \cup {NoNode}, nonce: Nonces, ok: BOOLEAN]
    <3>1. result[s] \in BOOLEAN
      BY Zenon DEF TypeOK
    <3> QED
      BY Zenon, <2>1, <3>1, EndedType DEF MineAckReceived, MineAckTimeout
  <2>3. told' \subseteq Blocks \cup {NoBlock}
    <3>1. told' = told \/ told' = told \cup {thread[s][t].blk}
      BY Zenon, <2>1 DEF MineAckReceived, MineAckTimeout
    <3>2. thread[s][t].blk \in Blocks \cup {NoBlock}
      BY Zenon, NodeTypes
    <3> QED
      BY Zenon, <3>1, <3>2 DEF TypeOK
  <2>4. UNCHANGED <<chainVars, cand, reqs, last, result, served>>
    BY Zenon, <2>1 DEF MineAckReceived, MineAckTimeout
  <2> QED
    BY Zenon, <2>2, <2>3, <2>4 DEF TypeOK, chainVars
<1>2. CASE \E a \in acks : HandleMineAck(s, a)
  <2>1. PICK a \in acks : HandleMineAck(s, a)
    BY Zenon, <1>2
  <2>2. a.ok \in BOOLEAN /\ 0 \in Nonces
    BY SMTT(60), PosAssumption DEF TypeOK, Nonces
  <2>3. last' \in [Nodes -> Nonces] /\ result' \in [Nodes -> BOOLEAN] /\ acks' \subseteq acks
    BY SMTT(60), <2>1, <2>2 DEF HandleMineAck, TypeOK
  <2>4. ThreadsOK'
    <3>1. CASE UNCHANGED thread
      BY Zenon, <3>1 DEF TypeOK, ThreadsOK
    <3>2. CASE thread' = [thread EXCEPT ![s] = [t \in Threads |->
                 IF @[t].pc = "wait" /\ @[t].call = a.nonce THEN [@[t] EXCEPT !.pc = "woken"] ELSE @[t]]]
      <4>1. ASSUME NEW t \in Threads
            PROVE  [thread[s][t] EXCEPT !.pc = "woken"] \in Goroutine
        BY Zenon, NodeTypes DEF Goroutine, Steps
      <4>2. thread' \in [Nodes -> [Threads -> Goroutine]]
        BY SMTT(60), <3>2, <4>1 DEF TypeOK, ThreadsOK
      <4>3. ASSUME NEW m \in Nodes, NEW t \in Threads, thread'[m][t].pc \in Holding
            PROVE  thread'[m][t] = thread[m][t]
        BY <3>2, <4>3, NodeTypes DEF TypeOK, ThreadsOK, Goroutine, Holding
      <4> QED
        BY <4>2, <4>3 DEF TypeOK, ThreadsOK
    <3> QED
      BY Zenon, <2>1, <3>1, <3>2 DEF HandleMineAck
  <2> QED
    BY Zenon, <2>1, <2>3, <2>4 DEF HandleMineAck, TypeOK, chainVars
<1>3. CASE \E r \in reqs : KnownCandidate(s, r) \/ RejectCandidate(s, r)
  <2>1. PICK r \in reqs, ok \in BOOLEAN : AnswerCandidate(s, r, ok)
    BY Zenon, <1>3 DEF KnownCandidate, RejectCandidate
  <2>2. r.from \in Nodes /\ r.nonce \in Nonces
    BY Zenon, SMTT(30) DEF TypeOK
  <2>3. reqs' \subseteq reqs /\ acks' \subseteq [to: Nodes \cup {NoNode}, nonce: Nonces, ok: BOOLEAN]
    BY SMTT(60), <2>1, <2>2 DEF AnswerCandidate, TypeOK
  <2> QED
    BY Zenon, <2>1, <2>3 DEF AnswerCandidate, TypeOK, ThreadsOK, chainVars
<1>4. CASE Disconnect(s)
  BY <1>4, PosAssumption DEF Disconnect, TypeOK, ThreadsOK, chainVars, Nonces
<1> QED
  BY Zenon, <1>1, <1>2, <1>3, <1>4

LEMMA CandidatesType ==
    ASSUME TypeOK, NEW n \in Nodes
    PROVE  Candidates(n) \subseteq Blocks
<1>1. tip[n] \in Seq(Variants)
  BY Zenon DEF TypeOK, Blocks
<1>2. \A k \in Copies : Append(tip[n], <<n, k>>) \in Seq(Variants)
  BY <1>1 DEF Variants
<1>3. cand[n] # NoBlock => cand[n] \in Blocks
  BY Zenon DEF TypeOK
<1> QED
  BY Zenon, <1>2, <1>3 DEF Candidates, Blocks

(* Starting a commit or a call keeps the types.                             *)
LEMMA CandidateType ==
    ASSUME TypeOK, 0 \in Nonces,
           \/ \E n \in Nodes : generatePOSBlock(n)
           \/ \E r \in reqs : ApprovePOSBlock(r) \/ RelayCandidate(r)
           \/ \E n \in Nodes, b \in served : ProcessBlock(n, b)
    PROVE  TypeOK'
<1>1. CASE \E n \in Nodes : generatePOSBlock(n)
  <2>1. PICK n \in Nodes : generatePOSBlock(n)
    BY Zenon, <1>1
  <2>2. PICK b \in Candidates(n) :
           /\ cand' = [cand EXCEPT ![n] = b]
           /\ \/ Begin(n, "own", b, 0) /\ UNCHANGED <<reqs, last>>
              \/ Send(n, "own", b, 0)
    BY Zenon, <2>1 DEF generatePOSBlock
  <2>3. b \in Blocks
    BY Zenon, CandidatesType
  <2>4. "own" \in Threads
    BY Zenon DEF Threads
  <2>5. /\ ThreadsOK'
        /\ last' \in [Nodes -> Nonces]
        /\ reqs' \subseteq [from: Nodes, nonce: Nonces, blk: Blocks]
    <3>1. CASE Begin(n, "own", b, 0) /\ UNCHANGED <<reqs, last>>
      <4>1. ThreadsOK'
        BY Zenon, <2>3, <2>4, <3>1, BeginType
      <4> QED
        BY Zenon, <3>1, <4>1 DEF TypeOK
    <3>2. CASE Send(n, "own", b, 0)
      BY Zenon, <2>3, <2>4, <3>2, SendType
    <3> QED
      BY Zenon, <2>2, <3>1, <3>2
  <2>6. UNCHANGED <<chainVars, acks, result, served, told>>
    BY Zenon, <2>1 DEF generatePOSBlock
  <2> QED
    BY Zenon, <2>2, <2>3, <2>5, <2>6 DEF TypeOK, chainVars
<1>2. CASE \E r \in reqs : ApprovePOSBlock(r)
  <2>1. PICK r \in reqs : ApprovePOSBlock(r)
    BY Zenon, <1>2
  <2>2. r.blk \in Blocks /\ r.nonce \in Nonces /\ Boot \in Nodes /\ "peer" \in Threads
    BY Zenon DEF TypeOK, Nodes, Threads
  <2>3. ThreadsOK' /\ reqs' \subseteq reqs
    BY Zenon, <2>1, <2>2, BeginType DEF ApprovePOSBlock
  <2> QED
    BY Zenon, <2>1, <2>3 DEF ApprovePOSBlock, TypeOK, chainVars
<1>3. CASE \E r \in reqs : RelayCandidate(r)
  <2>1. PICK r \in reqs : RelayCandidate(r)
    BY Zenon, <1>3
  <2>2. r.blk \in Blocks /\ r.nonce \in Nonces /\ Core \in Nodes /\ "peer" \in Threads
    BY Zenon DEF TypeOK, Nodes, Threads
  <2>3. /\ ThreadsOK'
        /\ last' \in [Nodes -> Nonces]
        /\ reqs' \subseteq [from: Nodes, nonce: Nonces, blk: Blocks]
    BY Zenon, <2>1, <2>2, SendType DEF RelayCandidate
  <2> QED
    BY Zenon, <2>1, <2>3 DEF RelayCandidate, TypeOK, chainVars
<1>4. CASE \E n \in Nodes, b \in served : ProcessBlock(n, b)
  <2>1. PICK n \in Nodes, b \in served : ProcessBlock(n, b)
    BY Zenon, <1>4
  <2>2. b \in Blocks /\ "sync" \in Threads
    BY Zenon DEF TypeOK, Threads
  <2>3. ThreadsOK'
    BY Zenon, <2>1, <2>2, BeginType DEF ProcessBlock
  <2> QED
    BY Zenon, <2>1, <2>3 DEF ProcessBlock, TypeOK, chainVars, linkVars
<1> QED
  BY Zenon, <1>1, <1>2, <1>3, <1>4

LEMMA RestartType == ASSUME TypeOK, NEW n \in Nodes, Restart(n) PROVE TypeOK'
<1>1. thread' = [thread EXCEPT ![n] = [t \in Threads |-> Idle]]
  BY Zenon DEF Restart
<1>2. ThreadsOK'
  BY <1>1, IdleType DEF TypeOK, ThreadsOK
<1>3. disk[n] \in Database /\ disk[n].best \in Blocks /\ disk[n].rows \subseteq Blocks
  BY Zenon, SMTT(30) DEF TypeOK, Database
<1>4. tip' \in [Nodes -> Blocks] /\ index' \in [Nodes -> SUBSET Blocks]
  BY Zenon, <1>3 DEF Restart, TypeOK
<1>5. db' \in [Nodes -> Database] /\ disk' \in [Nodes -> Database]
  BY Zenon, <1>3 DEF Restart, TypeOK
<1>6. fault' \in [Nodes -> BOOLEAN] /\ lag' \in [Nodes -> BOOLEAN] /\ result' \in [Nodes -> BOOLEAN]
  BY Zenon, SMTT(30) DEF Restart, TypeOK
<1>7. cand' \in [Nodes -> Blocks \cup {NoBlock}] /\ last' \in [Nodes -> Nonces]
  BY SMTT(30), PosAssumption DEF Restart, TypeOK, Nonces
<1>8. reqs' \subseteq reqs /\ acks' \subseteq acks /\ served' = served /\ told' = told
  BY Zenon, SMTT(30) DEF Restart
<1> QED
  BY Zenon, <1>2, <1>4, <1>5, <1>6, <1>7, <1>8 DEF TypeOK

LEMMA TypeStep == TypeOK /\ [Next]_vars => TypeOK'
<1> SUFFICES ASSUME TypeOK, [Next]_vars PROVE TypeOK'
  BY Zenon
<1>0. 0 \in Nonces
  BY PosAssumption DEF Nonces
<1>1. ASSUME NEW n \in Nodes, NEW t \in Threads,
             ThreadStep(n, t) \/ SetTipIndexBehind(n, t) \/ WriteFails(n, t) \/ MineAckTimeout(n, t)
      PROVE  TypeOK'
  BY Zenon, <1>1, CommitType, LinkType DEF ThreadStep
<1>2. ASSUME NEW n \in Nodes, CatchUp(n) \/ Flush(n)
      PROVE  TypeOK'
  BY ZenonT(30), <1>2 DEF CatchUp, Flush, TypeOK, ThreadsOK, linkVars
<1>3. ASSUME NEW n \in Nodes, NEW b \in index[n], ServeBlock(n, b)
      PROVE  TypeOK'
  BY <1>3 DEF ServeBlock, TypeOK, ThreadsOK, linkVars, chainVars
<1>4. CASE UNCHANGED vars
  BY Zenon, <1>4 DEF vars, TypeOK, ThreadsOK
<1> QED
  BY Zenon, <1>0, <1>1, <1>2, <1>3, <1>4, LinkType, CandidateType, RestartType DEF Next

(* The variables of the approval protocol keep their types, and the         *)
(* goroutines of a node that commit a block (maybeAcceptBlock under         *)
(* chainLock) exclude one another.                                          *)
THEOREM TypeCorrect == Spec => []TypeOK
<1>1. Init => TypeOK
  <2> SUFFICES ASSUME Init PROVE TypeOK
    BY Zenon
  <2>1. <<>> \in Blocks
    BY DEF Blocks
  <2>2. ThreadsOK
    BY Zenon, IdleType DEF Init, ThreadsOK
  <2> QED
    BY <2>1, <2>2, PosAssumption DEF Init, TypeOK, Database, Nonces
<1> QED
  BY <1>1, TypeStep, PTL DEF Spec

-----------------------------------------------------------------------------
(* Durability, publication and the ledger.                                 *)

(* One node at a time takes a step of its commit; the other nodes stay.     *)

(* The blocks a node has, or is about to have, on its chain.                *)
Held(n) == {tip[n], db[n].best, disk[n].best}
           \cup {thread[n][t].blk : t \in {u \in Threads : thread[n][u].pc \in Holding}}

Same(n) ==
    /\ tip'[n] = tip[n] /\ db'[n] = db[n] /\ disk'[n] = disk[n]
    /\ fault'[n] = fault[n] /\ thread'[n] = thread[n]

(* What any step does at the node that takes it: its tip stays or moves to  *)
(* the next block, its disk stays or takes over the database, and only the  *)
(* Bootstrap's chain gets a block that was not published.                   *)
Advance(n) ==
    /\ Committing(n)'
    /\ tip'[n] = tip[n] \/ Extends(tip'[n], tip[n])
    /\ disk'[n].best = disk[n].best \/ disk'[n].best = db[n].best
    /\ n # Boot => Held(n)' \subseteq Held(n) \cup served
    /\ \A m \in Nodes \ {n} : Same(m)

LEMMA SameCommitting ==
    ASSUME NEW n \in Nodes, Committing(n), Same(n)
    PROVE  Committing(n)'
BY Zenon, SMTT(30) DEF Same, Committing, LockFree, At

(* Goroutines that do not hold chainLock may do as they please.             *)
LEMMA QuietAdvance ==
    ASSUME TypeOK, TypeOK', NEW n \in Nodes, Committing(n),
           tip' = tip, db' = db, disk' = disk, fault' = fault,
           \A m \in Nodes \ {n} : thread'[m] = thread[m],
           \A t \in Threads : thread[n][t].pc \in Holding \/ thread'[n][t].pc \in Holding
                                 => thread'[n][t] = thread[n][t]
    PROVE  Advance(n)
<1>1. Committing(n)'
  BY ZenonT(30) DEF Committing, LockFree, At
<1>2. Held(n)' \subseteq Held(n)
  BY ZenonT(30) DEF Held
<1> QED
  BY Zenon, <1>1, <1>2 DEF Advance, Same

LEMMA EndedThread ==
    ASSUME TypeOK, NEW n \in Nodes, NEW t \in Threads, NEW ok \in BOOLEAN, Ended(n, t, ok)
    PROVE  /\ thread'[n][t] = Idle
           /\ \A u \in Threads \ {t} : thread'[n][u] = thread[n][u]
           /\ \A m \in Nodes \ {n} : thread'[m] = thread[m]
BY ZenonT(30) DEF Ended, TypeOK, ThreadsOK

LEMMA GotoThread ==
    ASSUME TypeOK, NEW n \in Nodes, NEW t \in Threads, NEW pc \in Steps, Goto(n, t, pc)
    PROVE  /\ thread'[n][t].pc = pc /\ thread'[n][t].blk = thread[n][t].blk
           /\ thread'[n][t].req = thread[n][t].req
           /\ \A u \in Threads \ {t} : thread'[n][u] = thread[n][u]
           /\ \A m \in Nodes \ {n} : thread'[m] = thread[m]
<1>1. thread[n][t] \in Goroutine
  BY Zenon, NodeTypes
<1>2. thread'[n][t] = [thread[n][t] EXCEPT !.pc = pc]
  BY ZenonT(30), SMTT(30) DEF Goto, TypeOK, ThreadsOK
<1>3. /\ thread'[n][t].pc = pc /\ thread'[n][t].blk = thread[n][t].blk
      /\ thread'[n][t].req = thread[n][t].req
  BY Zenon, <1>1, <1>2 DEF Goroutine
<1>4. /\ \A u \in Threads \ {t} : thread'[n][u] = thread[n][u]
      /\ \A m \in Nodes \ {n} : thread'[m] = thread[m]
  BY ZenonT(30) DEF Goto, TypeOK, ThreadsOK
<1> QED
  BY Zenon, <1>3, <1>4

(* The holder of chainLock, and what Committing says of it.                 *)
LEMMA Holder ==
    ASSUME TypeOK, NEW n \in Nodes, NEW t \in Threads, Committing(n), thread[n][t].pc \in Holding
    PROVE  /\ \A u \in Threads \ {t} : thread[n][u].pc \notin Holding
           /\ ~fault[n]
           /\ Extends(thread[n][t].blk, tip[n])
           /\ At(n, t, "sync") => db[n].best = thread[n][t].blk
           /\ ~At(n, t, "sync") => db[n].best = tip[n]
           /\ thread[n][t].blk \in Held(n)
BY ZenonT(60), SMTT(30) DEF TypeOK, ThreadsOK, Committing, Held

LEMMA StoreAdvance ==
    ASSUME TypeOK, TypeOK', NEW n \in Nodes, NEW t \in Threads, Committing(n), StoreBlock(n, t)
    PROVE  Advance(n)
<1>1. thread[n][t].pc = "store" /\ thread[n][t].pc \in Holding
  BY Zenon DEF StoreBlock, At, Holding
<1>2. /\ thread'[n][t].pc = "commit" /\ thread'[n][t].blk = thread[n][t].blk
      /\ \A u \in Threads \ {t} : thread'[n][u] = thread[n][u]
      /\ \A m \in Nodes \ {n} : thread'[m] = thread[m]
  BY Zenon, GotoThread DEF StoreBlock, Steps
<1>3. db'[n].best = db[n].best /\ \A m \in Nodes \ {n} : db'[m] = db[m]
  BY DEF StoreBlock, TypeOK, Database
<1>4. tip' = tip /\ disk' = disk /\ fault' = fault
  BY Zenon DEF StoreBlock
<1>5. db[n].best = tip[n]
  BY ZenonT(60), SMTT(30), <1>1, Holder DEF At
<1>6. Committing(n)'
  BY ZenonT(60), <1>1, <1>2, <1>3, <1>4, <1>5, Holder DEF Committing, LockFree, At, Holding
<1>7. Held(n)' \subseteq Held(n)
  BY <1>1, <1>2, <1>3, <1>4 DEF Held
<1> QED
  BY Zenon, <1>2, <1>3, <1>4, <1>6, <1>7 DEF Advance, Same

LEMMA ConnectAdvance ==
    ASSUME TypeOK, TypeOK', NEW n \in Nodes, NEW t \in Threads, Committing(n), ConnectBlock(n, t)
    PROVE  Advance(n)
<1>1. thread[n][t].pc = "commit" /\ thread[n][t].pc \in Holding
  BY Zenon DEF ConnectBlock, At, Holding
<1>2. /\ thread'[n][t].pc = "sync" /\ thread'[n][t].blk = thread[n][t].blk
      /\ \A u \in Threads \ {t} : thread'[n][u] = thread[n][u]
      /\ \A m \in Nodes \ {n} : thread'[m] = thread[m]
  BY Zenon, GotoThread DEF ConnectBlock, Steps
<1>3. db'[n].best = thread[n][t].blk /\ \A m \in Nodes \ {n} : db'[m] = db[m]
  BY DEF ConnectBlock, TypeOK, Database
<1>4. tip' = tip /\ disk' = disk /\ fault' = fault
  BY Zenon DEF ConnectBlock
<1>5. db[n].best = tip[n]
  BY ZenonT(60), SMTT(30), <1>1, Holder DEF At
<1>6. Committing(n)'
  BY ZenonT(60), <1>1, <1>2, <1>3, <1>4, <1>5, Holder DEF Committing, LockFree, At, Holding
<1>7. Held(n)' \subseteq Held(n)
  BY SMTT(30), <1>1, <1>2, <1>3, <1>4 DEF Held
<1> QED
  BY Zenon, <1>2, <1>3, <1>4, <1>6, <1>7 DEF Advance, Same

LEMMA SetTipAdvance ==
    ASSUME TypeOK, TypeOK', NEW n \in Nodes, NEW t \in Threads, Committing(n),
           SetTip(n, t) \/ SetTipIndexBehind(n, t)
    PROVE  Advance(n)
<1>1. thread[n][t].pc = "sync" /\ thread[n][t].pc \in Holding
  BY Zenon  DEF SetTip, SetTipIndexBehind, At, Holding
<1>2. /\ thread'[n][t].pc \notin Holding
      /\ \A u \in Threads \ {t} : thread'[n][u] = thread[n][u]
      /\ \A m \in Nodes \ {n} : thread'[m] = thread[m]
  <2>1. CASE SetTip(n, t)
    BY Zenon, <2>1, GotoThread DEF SetTip, Steps, Holding
  <2>2. CASE SetTipIndexBehind(n, t)
    BY ZenonT(30), <2>2, EndedThread, IdleType DEF SetTipIndexBehind
  <2> QED
    BY Zenon, SMTT(30), <2>1, <2>2
<1>3. /\ tip'[n] = thread[n][t].blk /\ disk'[n] = db[n]
      /\ \A m \in Nodes \ {n} : tip'[m] = tip[m] /\ disk'[m] = disk[m]
  BY ZenonT(30)  DEF SetTip, SetTipIndexBehind, TypeOK
<1>4. db' = db /\ fault' = fault
  BY Zenon  DEF SetTip, SetTipIndexBehind
<1>5. db[n].best = thread[n][t].blk /\ Extends(thread[n][t].blk, tip[n])
      /\ \A u \in Threads : thread'[n][u].pc \notin Holding
  BY ZenonT(60), <1>1, <1>2, Holder DEF At
<1>6. Committing(n)'
  BY Zenon, SMTT(30), <1>3, <1>4, <1>5 DEF Committing
<1>7. Held(n)' \subseteq Held(n)
  BY Zenon, SMTT(30), <1>1, <1>3, <1>4, <1>5 DEF Held
<1> QED
  BY Zenon, <1>2, <1>3, <1>4, <1>5, <1>6, <1>7 DEF Advance, Same

(* A second Sync, or a flush of the cache: the disk takes over the database.*)
LEMMA FlushAdvance ==
    ASSUME TypeOK, TypeOK', NEW n \in Nodes, Committing(n),
           Flush(n) \/ \E t \in Threads : FinishBlockAcceptance(n, t)
    PROVE  Advance(n)
<1>1. /\ disk'[n] = db[n] /\ \A m \in Nodes \ {n} : disk'[m] = disk[m]
      /\ tip' = tip /\ db' = db /\ fault' = fault
  BY Zenon  DEF Flush, FinishBlockAcceptance, TypeOK
<1>2. /\ \A m \in Nodes \ {n} : thread'[m] = thread[m]
      /\ \A u \in Threads : thread[n][u].pc \in Holding \/ thread'[n][u].pc \in Holding
                               => thread'[n][u] = thread[n][u]
  <2>1. CASE Flush(n)
    BY Zenon, <2>1 DEF Flush
  <2>2. ASSUME NEW t \in Threads, FinishBlockAcceptance(n, t)
        PROVE  /\ \A m \in Nodes \ {n} : thread'[m] = thread[m]
               /\ \A u \in Threads : thread[n][u].pc \in Holding \/ thread'[n][u].pc \in Holding
                                        => thread'[n][u] = thread[n][u]
    <3>1. thread[n][t].pc \notin Holding
      BY Zenon, <2>2 DEF FinishBlockAcceptance, At, Holding
    <3> QED
      BY Zenon, <2>2, <3>1, EndedThread, IdleType DEF FinishBlockAcceptance
  <2> QED
    BY Zenon, <2>1, <2>2
<1>3. Committing(n)'
  BY ZenonT(60), <1>1, <1>2 DEF Committing, LockFree, At
<1>4. Held(n)' \subseteq Held(n)
  BY SMTT(30), <1>1, <1>2 DEF Held
<1> QED
  BY Zenon, <1>1, <1>2, <1>3, <1>4 DEF Advance, Same

LEMMA WriteFailsAdvance ==
    ASSUME TypeOK, TypeOK', NEW n \in Nodes, NEW t \in Threads, Committing(n), WriteFails(n, t)
    PROVE  Advance(n)
<1>1. /\ fault'[n] /\ \A m \in Nodes \ {n} : fault'[m] = fault[m]
      /\ tip' = tip /\ db' = db /\ disk' = disk
  BY Zenon DEF WriteFails, TypeOK
<1>2. /\ thread'[n][t] = Idle
      /\ \A u \in Threads \ {t} : thread'[n][u] = thread[n][u]
      /\ \A m \in Nodes \ {n} : thread'[m] = thread[m]
  BY Zenon, EndedThread DEF WriteFails
<1>3. \A u \in Threads \ {t} : thread[n][u].pc \notin Holding
  BY Zenon, Holder DEF WriteFails, LockFree
<1>4. \A u \in Threads : thread'[n][u].pc \notin Holding
  BY Zenon, <1>2, <1>3, IdleType
<1>5. Committing(n)'
  BY Zenon, <1>1, <1>4 DEF Committing
<1>6. Held(n)' \subseteq Held(n)
  BY Zenon, <1>1, <1>4 DEF Held
<1> QED
  BY Zenon, SMTT(30), <1>1, <1>2, <1>5, <1>6 DEF Advance, Same

(* A commit starts: at the Bootstrap for any block, at another node for a   *)
(* published one.                                                           *)
LEMMA BeginAdvance ==
    ASSUME TypeOK, TypeOK', NEW n \in Nodes, NEW t \in Threads, NEW b \in Blocks, NEW req \in Nonces,
           Committing(n), Begin(n, t, b, req), UNCHANGED chainVars, n = Boot \/ b \in served
    PROVE  Advance(n)
<1>1. tip' = tip /\ db' = db /\ disk' = disk /\ fault' = fault
  BY Zenon DEF chainVars
<1> DEFINE g == [pc |-> IF b \in index[n] THEN "commit" ELSE "store", blk |-> b, req |-> req, call |-> 0]
<1>a. g.pc \in {"commit", "store"} /\ g.blk = b
  BY Zenon
<1>b. thread' = [thread EXCEPT ![n][t] = g]
  BY Zenon  DEF Begin
<1>c. thread \in [Nodes -> [Threads -> Goroutine]]
  BY Zenon DEF TypeOK, ThreadsOK
<1> HIDE DEF g
<1>2. /\ thread'[n][t] = g
      /\ \A u \in Threads \ {t} : thread'[n][u] = thread[n][u]
      /\ \A m \in Nodes \ {n} : thread'[m] = thread[m]
  BY Zenon, <1>b, <1>c
<1>3. thread'[n][t].pc \in {"commit", "store"} /\ thread'[n][t].blk = b
  BY Zenon, <1>2, <1>a
<1>4. LockFree(n) /\ ~fault[n] /\ Extends(b, tip[n])
  BY Zenon, SMTT(30) DEF Begin
<1>5. db[n].best = tip[n]
  BY Zenon, <1>4 DEF Committing
<1>6. Committing(n)'
  BY ZenonT(60), <1>1, <1>2, <1>3, <1>4, <1>5 DEF Committing, LockFree, At, Holding
<1>7. Held(n)' \subseteq Held(n) \cup {b}
  BY <1>1, <1>2, <1>3 DEF Held
<1> QED
  BY Zenon, <1>1, <1>2, <1>6, <1>7 DEF Advance, Same

LEMMA RestartAdvance ==
    ASSUME TypeOK, TypeOK', NEW n \in Nodes, Committing(n), Restart(n)
    PROVE  Advance(n)
<1>a. /\ tip' = [tip EXCEPT ![n] = disk[n].best] /\ db' = [db EXCEPT ![n] = disk[n]]
      /\ fault' = [fault EXCEPT ![n] = FALSE] /\ disk' = disk
      /\ thread' = [thread EXCEPT ![n] = [t \in Threads |-> Idle]]
  BY ZenonT(60) DEF Restart
<1>b. /\ DOMAIN tip = Nodes /\ DOMAIN db = Nodes /\ DOMAIN fault = Nodes /\ DOMAIN thread = Nodes
  BY ZenonT(60) DEF TypeOK, ThreadsOK
<1>1. /\ tip'[n] = disk[n].best /\ db'[n] = disk[n] /\ disk' = disk
      /\ \A t \in Threads : thread'[n][t] = Idle
  BY ZenonT(60), <1>a, <1>b
<1>2. \A m \in Nodes \ {n} : Same(m)
  BY ZenonT(60), <1>a, <1>b DEF Same
<1>3. Committing(n)'
  BY Zenon, ZenonT(30), <1>1, IdleType DEF Committing
<1>4. Held(n)' \subseteq Held(n)
  BY Zenon, SMTT(30), <1>1, IdleType DEF Held
<1>5. tip'[n] = tip[n] \/ Extends(tip'[n], tip[n])
  BY Zenon, <1>1 DEF Committing
<1> QED
  BY Zenon, ZenonT(60), <1>1, <1>2, <1>3, <1>4, <1>5 DEF Advance

(* A call to the parent starts in a goroutine that holds nothing.           *)
LEMMA SendThread ==
    ASSUME TypeOK, NEW s \in Nodes, NEW t \in Threads, NEW b, NEW req, Send(s, t, b, req),
           thread[s][t] = Idle
    PROVE  /\ \A m \in Nodes \ {s} : thread'[m] = thread[m]
           /\ \A u \in Threads : thread[s][u].pc \in Holding \/ thread'[s][u].pc \in Holding
                                    => thread'[s][u] = thread[s][u]
<1>1. PICK k : thread' = [thread EXCEPT ![s][t] = [pc |-> "wait", blk |-> b, req |-> req, call |-> k]]
  BY Zenon  DEF Send
<1>2. thread'[s][t].pc = "wait"
  BY <1>1 DEF TypeOK, ThreadsOK
<1>3. /\ \A m \in Nodes \ {s} : thread'[m] = thread[m]
      /\ \A u \in Threads \ {t} : thread'[s][u] = thread[s][u]
  BY ZenonT(30), <1>1 DEF TypeOK, ThreadsOK
<1> QED
  BY Zenon, <1>2, <1>3, IdleType DEF Holding

(* The steps of a goroutine.                                                *)
LEMMA ThreadAdvance ==
    ASSUME TypeOK, TypeOK', NEW n \in Nodes, NEW t \in Threads, Committing(n),
           ThreadStep(n, t) \/ SetTipIndexBehind(n, t) \/ WriteFails(n, t) \/ MineAckTimeout(n, t)
    PROVE  Advance(n) /\ served' = served
<1>1. CASE MineAckReceived(n, t) \/ MineAckTimeout(n, t)
  <2>1. thread[n][t].pc \notin Holding
    BY Zenon, <1>1 DEF MineAckReceived, MineAckTimeout, At, Holding
  <2>2. PICK ok \in BOOLEAN : Ended(n, t, ok)
    BY Zenon, <1>1 DEF MineAckReceived, MineAckTimeout, TypeOK
  <2>3. /\ \A m \in Nodes \ {n} : thread'[m] = thread[m]
        /\ \A u \in Threads : thread[n][u].pc \in Holding \/ thread'[n][u].pc \in Holding
                                 => thread'[n][u] = thread[n][u]
    BY ZenonT(30), <2>1, <2>2, EndedThread, IdleType
  <2>4. tip' = tip /\ db' = db /\ disk' = disk /\ fault' = fault /\ served' = served
    BY Zenon, <1>1 DEF MineAckReceived, MineAckTimeout, chainVars
  <2> QED
    BY Zenon, <2>3, <2>4, QuietAdvance
<1>2. CASE StoreBlock(n, t) \/ ConnectBlock(n, t) \/ SetTip(n, t) \/ SetTipIndexBehind(n, t)
  <2>1. served' = served
    BY Zenon, <1>2 DEF StoreBlock, ConnectBlock, SetTip, SetTipIndexBehind
  <2> QED
    BY Zenon, <1>2, <2>1, StoreAdvance, ConnectAdvance, SetTipAdvance
<1>3. CASE FinishBlockAcceptance(n, t) \/ WriteFails(n, t)
  <2>1. served' = served
    BY Zenon, <1>3 DEF FinishBlockAcceptance, WriteFails
  <2> QED
    BY Zenon, <1>3, <2>1, FlushAdvance, WriteFailsAdvance
<1> QED
  BY Zenon, SMTT(30), <1>1, <1>2, <1>3 DEF ThreadStep

(* The generator, at the Bootstrap and elsewhere.                           *)
LEMMA GenerateAdvance ==
    ASSUME TypeOK, TypeOK', NEW n \in Nodes, Committing(n), generatePOSBlock(n)
    PROVE  Advance(n) /\ served' = served
<1>1. PICK b \in Candidates(n) :
         \/ n = Boot /\ Begin(n, "own", b, 0)
         \/ n # Boot /\ Send(n, "own", b, 0)
  BY Zenon DEF generatePOSBlock
<1>2. b \in Blocks /\ "own" \in Threads /\ 0 \in Nonces
  BY SMTT(30), CandidatesType, PosAssumption DEF Threads, Nonces
<1>3. UNCHANGED chainVars /\ served' = served /\ thread[n]["own"] = Idle
  BY Zenon DEF generatePOSBlock
<1>4. CASE n = Boot /\ Begin(n, "own", b, 0)
  BY Zenon, <1>2, <1>3, <1>4, BeginAdvance
<1>5. CASE Send(n, "own", b, 0)
  <2>1. /\ \A m \in Nodes \ {n} : thread'[m] = thread[m]
        /\ \A u \in Threads : thread[n][u].pc \in Holding \/ thread'[n][u].pc \in Holding
                                 => thread'[n][u] = thread[n][u]
    BY Zenon, SMTT(30), <1>2, <1>3, <1>5, SendThread
  <2> QED
    BY Zenon, <1>3, <2>1, QuietAdvance DEF chainVars
<1> QED
  BY Zenon, <1>1, <1>4, <1>5

(* Handlers of the link and of candidates.                                  *)
LEMMA HandlerAdvance ==
    ASSUME TypeOK, TypeOK', NEW n \in Nodes, Committing(n),
           \/ CatchUp(n) \/ Disconnect(n)
           \/ \E a \in acks : HandleMineAck(n, a)
           \/ \E r \in reqs : KnownCandidate(n, r) \/ RejectCandidate(n, r)
           \/ n = Core /\ \E r \in reqs : RelayCandidate(r)
    PROVE  Advance(n) /\ served' = served
<1>1. tip' = tip /\ db' = db /\ disk' = disk /\ fault' = fault /\ served' = served
  BY Zenon DEF CatchUp, Disconnect, HandleMineAck, KnownCandidate, RejectCandidate, AnswerCandidate,
         RelayCandidate, chainVars
<1>2. CASE UNCHANGED thread
  BY Zenon, <1>1, <1>2, QuietAdvance
<1>3. CASE \E a \in acks : HandleMineAck(n, a)
  <2>1. PICK a \in acks : HandleMineAck(n, a)
    BY Zenon, SMTT(30), <1>3
  <2>2. CASE thread' = [thread EXCEPT ![n] = [t \in Threads |->
               IF @[t].pc = "wait" /\ @[t].call = a.nonce THEN [@[t] EXCEPT !.pc = "woken"] ELSE @[t]]]
    <3>1. \A m \in Nodes \ {n} : thread'[m] = thread[m]
      BY SMTT(30), <2>2 DEF TypeOK, ThreadsOK
    <3>2. ASSUME NEW u \in Threads, thread[n][u].pc \in Holding \/ thread'[n][u].pc \in Holding
          PROVE  thread'[n][u] = thread[n][u]
      <4>1. thread[n][u] \in Goroutine
        BY Zenon, SMTT(30), NodeTypes
      <4>2. CASE thread[n][u].pc = "wait" /\ thread[n][u].call = a.nonce
        <5>1. thread'[n][u] = [thread[n][u] EXCEPT !.pc = "woken"]
          BY ZenonT(60), <2>2, <4>2 DEF TypeOK, ThreadsOK
        <5>2. thread'[n][u].pc = "woken"
          BY ZenonT(30), <4>1, <5>1 DEF Goroutine
        <5> QED
          BY Zenon, <3>2, <4>2, <5>2 DEF Holding
      <4>3. CASE ~(thread[n][u].pc = "wait" /\ thread[n][u].call = a.nonce)
        BY ZenonT(30), SMTT(30), <2>2, <4>3 DEF TypeOK, ThreadsOK
      <4> QED
        BY Zenon, SMTT(30), <4>2, <4>3
    <3> QED
      BY ZenonT(30), <1>1, <3>1, <3>2, QuietAdvance
  <2> QED
    BY Zenon, <1>2, <2>1, <2>2 DEF HandleMineAck
<1>4. CASE n = Core /\ \E r \in reqs : RelayCandidate(r)
  <2>1. PICK r \in reqs : Send(n, "peer", r.blk, r.nonce) /\ thread[n]["peer"] = Idle
    BY Zenon, SMTT(30), <1>4 DEF RelayCandidate
  <2>2. /\ \A m \in Nodes \ {n} : thread'[m] = thread[m]
        /\ \A u \in Threads : thread[n][u].pc \in Holding \/ thread'[n][u].pc \in Holding
                                 => thread'[n][u] = thread[n][u]
    BY Zenon, <2>1, SendThread DEF Threads
  <2> QED
    BY Zenon, SMTT(30), <1>1, <2>2, QuietAdvance
<1> QED
  BY Zenon, <1>2, <1>3, <1>4 DEF CatchUp, Disconnect, KnownCandidate, RejectCandidate, AnswerCandidate

(* Every step is a step of one node, and only blocks on that node's chain   *)
(* are served.                                                              *)
LEMMA EveryStep ==
    ASSUME TypeOK, TypeOK', TipIsDurable, Next
    PROVE  \E n \in Nodes : Advance(n) /\ \A b \in served' \ served : Contains(tip[n], b)
<1>0. \A n \in Nodes : Committing(n)
  BY Zenon DEF TipIsDurable
<1>1. ASSUME NEW n \in Nodes, Advance(n) /\ served' = served
      PROVE  \E m \in Nodes : Advance(m) /\ \A b \in served' \ served : Contains(tip[m], b)
  BY Zenon, <1>1
<1>2. ASSUME NEW n \in Nodes, NEW t \in Threads,
             ThreadStep(n, t) \/ SetTipIndexBehind(n, t) \/ WriteFails(n, t) \/ MineAckTimeout(n, t)
      PROVE  \E m \in Nodes : Advance(m) /\ \A b \in served' \ served : Contains(tip[m], b)
  BY Zenon, <1>0, <1>1, <1>2, ThreadAdvance
<1>3. ASSUME NEW n \in Nodes, Flush(n) \/ Restart(n)
      PROVE  \E m \in Nodes : Advance(m) /\ \A b \in served' \ served : Contains(tip[m], b)
  <2>1. served' = served
    BY Zenon, <1>3 DEF Flush, Restart
  <2> QED
    BY ZenonT(30), SMTT(30), <1>0, <1>1, <1>3, <2>1, FlushAdvance, RestartAdvance
<1>4. ASSUME NEW n \in Nodes, generatePOSBlock(n)
      PROVE  \E m \in Nodes : Advance(m) /\ \A b \in served' \ served : Contains(tip[m], b)
  BY Zenon, <1>0, <1>1, <1>4, GenerateAdvance
<1>5. ASSUME NEW n \in Nodes,
             \/ CatchUp(n) \/ Disconnect(n)
             \/ \E a \in acks : HandleMineAck(n, a)
             \/ \E r \in reqs : KnownCandidate(n, r) \/ RejectCandidate(n, r)
             \/ n = Core /\ \E r \in reqs : RelayCandidate(r)
      PROVE  \E m \in Nodes : Advance(m) /\ \A b \in served' \ served : Contains(tip[m], b)
  BY Zenon, <1>0, <1>1, <1>5, HandlerAdvance
<1>6. ASSUME NEW r \in reqs, ApprovePOSBlock(r)
      PROVE  \E m \in Nodes : Advance(m) /\ \A b \in served' \ served : Contains(tip[m], b)
  <2>1. r.blk \in Blocks /\ r.nonce \in Nonces /\ Boot \in Nodes /\ "peer" \in Threads
    BY ZenonT(30), SMTT(30) DEF TypeOK, Nodes, Threads
  <2>2. Begin(Boot, "peer", r.blk, r.nonce) /\ UNCHANGED chainVars /\ served' = served
    BY Zenon, <1>6 DEF ApprovePOSBlock
  <2> QED
    BY ZenonT(30), <1>0, <1>1, <2>1, <2>2, BeginAdvance
<1>7. ASSUME NEW n \in Nodes, NEW b \in served, ProcessBlock(n, b)
      PROVE  \E m \in Nodes : Advance(m) /\ \A c \in served' \ served : Contains(tip[m], c)
  <2>1. b \in Blocks /\ 0 \in Nonces /\ "sync" \in Threads
    BY PosAssumption DEF TypeOK, Threads, Nonces
  <2>2. Begin(n, "sync", b, 0) /\ UNCHANGED chainVars /\ served' = served
    BY Zenon, <1>7 DEF ProcessBlock
  <2> QED
    BY ZenonT(30), <1>0, <1>1, <2>1, <2>2, BeginAdvance
<1>8. ASSUME NEW n \in Nodes, NEW b \in index[n], ServeBlock(n, b)
      PROVE  \E m \in Nodes : Advance(m) /\ \A c \in served' \ served : Contains(tip[m], c)
  <2>1. UNCHANGED chainVars /\ UNCHANGED thread /\ served' = served \cup {b} /\ Contains(tip[n], b)
    BY Zenon, <1>8 DEF ServeBlock, CanServeBlock
  <2>2. Advance(n)
    BY Zenon, <1>0, <2>1, QuietAdvance DEF chainVars
  <2> QED
    BY Zenon, SMTT(30), <2>1, <2>2
<1>9. Core \in Nodes
  BY Zenon DEF Nodes
<1> QED
  BY ZenonT(30), <1>2, <1>3, <1>4, <1>5, <1>6, <1>7, <1>8, <1>9 DEF Next

-----------------------------------------------------------------------------
(* The chains.                                                              *)

LEMMA BlockLen == ASSUME NEW b \in Blocks PROVE Len(b) \in Nat
BY DEF Blocks

LEMMA ContainsSelf == ASSUME NEW b \in Blocks PROVE Contains(b, b)
BY BlockLen DEF Contains

LEMMA ContainsTransitive ==
    ASSUME NEW a \in Blocks, NEW b \in Blocks, NEW c \in Blocks, Contains(a, b), Contains(b, c)
    PROVE  Contains(a, c)
BY SMTT(30), BlockLen DEF Contains

(* Every other node's chain, and everything that was published, is part of  *)
(* the Bootstrap's chain.                                                   *)
Following ==
    /\ \A n \in Nodes \ {Boot} : \A b \in Held(n) : Contains(tip[Boot], b)
    /\ \A b \in served : Contains(tip[Boot], b)

(* The inductive invariant.                                                 *)
Inv == TypeOK /\ TipIsDurable /\ Following

LEMMA HeldType == ASSUME TypeOK, NEW n \in Nodes PROVE Held(n) \subseteq Blocks
BY ZenonT(30), NodeTypes DEF Held, Threads

LEMMA FollowingStep ==
    ASSUME Inv, TypeOK', NEW n \in Nodes, Advance(n), \A b \in served' \ served : Contains(tip[n], b)
    PROVE  Following'
<1>0. Boot \in Nodes
  BY Zenon DEF Nodes
<1>1. tip[Boot] \in Blocks /\ tip'[Boot] \in Blocks /\ tip[n] \in Blocks
  BY ZenonT(30), SMTT(30), <1>0 DEF Inv, TypeOK
<1>2. Contains(tip'[Boot], tip[Boot])
  BY Zenon, <1>0, <1>1, ContainsSelf DEF Advance, Same, Extends
<1>3. \A b \in Blocks : Contains(tip[Boot], b) => Contains(tip'[Boot], b)
  BY Zenon, <1>1, <1>2, ContainsTransitive
<1>4. tip[n] \in Held(n)
  BY Zenon DEF Held
<1>5. Contains(tip[Boot], tip[n])
  BY Zenon, <1>1, <1>4, ContainsSelf DEF Inv, Following
<1>6. ASSUME NEW b \in served' PROVE Contains(tip'[Boot], b)
  <2>1. b \in Blocks
    BY Zenon DEF TypeOK
  <2>2. b \in served => Contains(tip[Boot], b)
    BY Zenon DEF Inv, Following
  <2>3. b \notin served => Contains(tip[Boot], b)
    BY Zenon, <1>1, <1>5, <2>1, ContainsTransitive
  <2> QED
    BY ZenonT(30), <1>3, <2>1, <2>2, <2>3
<1>7. ASSUME NEW m \in Nodes \ {Boot}, NEW b \in Held(m)' PROVE Contains(tip'[Boot], b)
  <2>1. b \in Held(m) \cup served
    <3>1. CASE m = n
      BY ZenonT(60), SMTT(30), <1>7, <3>1 DEF Advance
    <3>2. CASE m # n
      BY <1>7, <3>2 DEF Advance, Same, Held
    <3> QED
      BY Zenon, SMTT(30), <3>1, <3>2
  <2>2. b \in Blocks
    BY Zenon, <2>1, HeldType DEF Inv, TypeOK
  <2>3. Contains(tip[Boot], b)
    BY Zenon, <2>1 DEF Inv, Following
  <2> QED
    BY Zenon, <1>3, <2>2, <2>3
<1> QED
  BY Zenon, <1>6, <1>7 DEF Following

LEMMA InvInit == Init => Inv
<1> SUFFICES ASSUME Init PROVE Inv
  BY Zenon
<1>1. <<>> \in Blocks
  BY DEF Blocks
<1>2. TypeOK
  <2>1. ThreadsOK
    BY Zenon, IdleType DEF Init, ThreadsOK
  <2> QED
    BY <1>1, <2>1, PosAssumption DEF Init, TypeOK, Database, Nonces
<1>3. \A n \in Nodes : tip[n] = <<>> /\ db[n].best = <<>> /\ disk[n].best = <<>>
  BY Zenon DEF Init
<1>4. \A n \in Nodes, t \in Threads : thread[n][t].pc \notin Holding
  BY Zenon, SMTT(30), IdleType DEF Init
<1>5. TipIsDurable
  BY ZenonT(30), SMTT(30), <1>3, <1>4 DEF TipIsDurable, Committing
<1>6. \A n \in Nodes : Held(n) = {<<>>}
  BY Zenon, <1>3, <1>4 DEF Held
<1>7. Boot \in Nodes /\ served = {}
  BY Zenon DEF Init, Nodes
<1>8. Following
  BY Zenon, <1>1, <1>3, <1>6, <1>7, ContainsSelf DEF Following
<1> QED
  BY ZenonT(60), <1>2, <1>5, <1>8 DEF Inv

LEMMA InvStep == Inv /\ [Next]_vars => Inv'
<1> SUFFICES ASSUME Inv, [Next]_vars PROVE Inv'
  BY Zenon
<1>1. TypeOK'
  BY Zenon, TypeStep DEF Inv
<1>2. CASE Next
  <2>1. PICK n \in Nodes : Advance(n) /\ \A b \in served' \ served : Contains(tip[n], b)
    BY Zenon, <1>1, <1>2, EveryStep DEF Inv
  <2>2. Following'
    BY Zenon, SMTT(30), <1>1, <2>1, FollowingStep
  <2>3. ASSUME NEW m \in Nodes PROVE Committing(m)'
    <3>1. Committing(m)
      BY Zenon DEF Inv, TipIsDurable
    <3> QED
      BY Zenon, <2>1, <3>1, SameCommitting DEF Advance
  <2> QED
    BY Zenon, <1>1, <2>2, <2>3 DEF Inv, TipIsDurable
<1>3. CASE UNCHANGED vars
  <2>1. /\ tip' = tip /\ db' = db /\ disk' = disk /\ fault' = fault
        /\ thread' = thread /\ served' = served
    BY Zenon, ZenonT(60), <1>3 DEF vars
  <2>2. \A n \in Nodes : Committing(n)' = Committing(n)
    BY <2>1 DEF Committing, LockFree, At
  <2>3. Following' = Following
    <3>1. \A n : Held(n)' = Held(n)
      BY Zenon, <2>1 DEF Held
    <3> QED
      BY Zenon, <2>1, <3>1 DEF Following
  <2> QED
    BY Zenon, <1>1, <2>2, <2>3 DEF Inv, TipIsDurable
<1> QED
  BY Zenon, <1>2, <1>3

(* The inductive invariant holds: every step is the progress of one node    *)
(* along the Bootstrap's chain.                                             *)
THEOREM InvHolds == Spec => []Inv
BY InvInit, InvStep, PTL DEF Spec

(* connectBlock's order of writes keeps the tip a node shows on its disk,   *)
(* at every node, across crashes, failed writes and the release of          *)
(* chainLock for the notification.                                          *)
THEOREM TipAlwaysDurable == Spec => []TipIsDurable
<1>1. Inv => TipIsDurable
  BY Zenon, SMTT(30) DEF Inv
<1> QED
  BY <1>1, InvHolds, PTL

LEMMA DiskContainsTip ==
    ASSUME TypeOK, NEW n \in Nodes, Committing(n)
    PROVE  Contains(disk[n].best, tip[n])
<1>1. tip[n] \in Blocks
  BY Zenon DEF TypeOK
<1> QED
  BY Zenon, <1>1, ContainsSelf DEF Committing, Extends

(* "its approval witness cannot escape until canonical commit and sync      *)
(* succeed": whatever CanServeBlock ever let out is on the chain that the   *)
(* Bootstrap's disk holds, so one approved block per height is ever out.    *)
THEOREM ServedAlwaysDurable == Spec => []ServedIsDurable
<1>1. Inv => ServedIsDurable
  <2> SUFFICES ASSUME Inv, NEW b \in served PROVE Contains(disk[Boot].best, b)
    BY Zenon DEF ServedIsDurable
  <2>1. Boot \in Nodes
    BY Zenon DEF Nodes
  <2>2. Contains(disk[Boot].best, tip[Boot]) /\ Contains(tip[Boot], b)
    BY Zenon, <2>1, DiskContainsTip DEF Inv, TipIsDurable, Following
  <2>3. disk[Boot].best \in Blocks /\ tip[Boot] \in Blocks /\ b \in Blocks
    BY Zenon, <2>1 DEF Inv, TypeOK, Database
  <2> QED
    BY Zenon, <2>2, <2>3, ContainsTransitive
<1> QED
  BY <1>1, InvHolds, PTL

-----------------------------------------------------------------------------
(* The protocol implements PosLedger.                                       *)

(* Sequences of the same length and with the same elements are equal.       *)
LEMMA SameSeq ==
    ASSUME NEW S, NEW s \in Seq(S), NEW u \in Seq(S), Len(s) = Len(u),
           \A i \in 1 .. Len(s) : s[i] = u[i]
    PROVE  s = u
OBVIOUS

(* A block that another one contains is a prefix of it.                     *)
LEMMA ContainsPrefix ==
    ASSUME NEW a \in Blocks, NEW b \in Blocks, Contains(a, b)
    PROVE  b = SubSeq(a, 1, Len(b))
<1>1. Len(b) \in Nat /\ Len(a) \in Nat /\ Len(b) <= Len(a)
  BY Zenon, BlockLen DEF Contains
<1>2. SubSeq(a, 1, Len(b)) \in Seq(Variants) /\ Len(SubSeq(a, 1, Len(b))) = Len(b)
  BY <1>1 DEF Blocks
<1>3. \A i \in 1 .. Len(b) : SubSeq(a, 1, Len(b))[i] = b[i]
  BY <1>1 DEF Contains, Blocks
<1>4. b \in Seq(Variants)
  BY Zenon DEF Blocks
<1> QED
  BY Zenon, <1>2, <1>3, <1>4, SameSeq

(* A block is its parent and one more element.                              *)
LEMMA ExtendsAppend ==
    ASSUME NEW a \in Blocks, NEW b \in Blocks, Extends(b, a)
    PROVE  \E v \in Variants : b = Append(a, v)
<1>1. Len(a) \in Nat /\ Len(b) = Len(a) + 1 /\ \A i \in 1 .. Len(a) : a[i] = b[i]
  BY Zenon, BlockLen DEF Extends, Contains
<1>2. a \in Seq(Variants) /\ b \in Seq(Variants)
  BY Zenon DEF Blocks
<1> DEFINE v == b[Len(b)]
<1>3. v \in Variants
  BY <1>1, <1>2
<1> HIDE DEF v
<1>4. Append(a, v) \in Seq(Variants) /\ Len(Append(a, v)) = Len(b)
  BY <1>1, <1>2, <1>3
<1>5. \A i \in 1 .. Len(b) : b[i] = Append(a, v)[i]
  BY <1>1, <1>2, <1>3 DEF v
<1>6. b = Append(a, v)
  BY ZenonT(60), <1>2, <1>4, <1>5, SameSeq
<1> QED
  BY Zenon, <1>3, <1>6

LEMMA LedgerInit == Init => Ledger!Init
BY DEF Init, Ledger!Init, Nodes

(* The Bootstrap's disk stays or grows by a block.                          *)
LEMMA LedgerGrows ==
    ASSUME Inv, NEW n \in Nodes, Advance(n)
    PROVE  \/ disk'[Boot].best = disk[Boot].best
           \/ n = Boot /\ \E v \in Variants : disk'[Boot].best = Append(disk[Boot].best, v)
<1>1. CASE n # Boot
  BY Zenon, SMTT(30), <1>1 DEF Advance, Same, Nodes
<1>2. CASE n = Boot /\ disk'[Boot].best # disk[Boot].best
  <2>1. disk'[Boot].best = db[Boot].best /\ disk[Boot].best = tip[Boot]
        /\ Extends(db[Boot].best, disk[Boot].best)
    BY Zenon, <1>2 DEF Advance, Inv, TipIsDurable, Committing
  <2>2. disk[Boot].best \in Blocks /\ db[Boot].best \in Blocks
    BY Zenon, <1>2 DEF Inv, TypeOK, Database
  <2> QED
    BY Zenon, <1>2, <2>1, <2>2, ExtendsAppend
<1> QED
  BY Zenon, <1>1, <1>2

LEMMA LedgerStep ==
    ASSUME Inv, Inv', NEW n \in Nodes, Advance(n)
    PROVE  [Ledger!Next]_<<disk[Boot].best, tip>>
<1>0. Boot \in Nodes
  BY Zenon DEF Nodes
<1>1. /\ tip'[n] \in Blocks /\ tip[n] \in Blocks /\ disk'[Boot].best \in Blocks
      /\ tip'[Boot] \in Blocks
      /\ tip \in [Nodes -> Blocks] /\ tip' \in [Nodes -> Blocks]
  BY Zenon, <1>0 DEF Inv, TypeOK, Database
<1>2. tip' = [tip EXCEPT ![n] = tip'[n]]
  BY Zenon, ZenonT(30), <1>1 DEF Advance, Same
<1>3. CASE tip'[n] = tip[n]
  <2>1. tip' = tip
    BY Zenon, <1>1, <1>2, <1>3
  <2> QED
    BY Zenon, <2>1, LedgerGrows DEF Ledger!Next, Ledger!Extend
<1>4. CASE tip'[n] # tip[n]
  <2>1. Len(tip'[n]) = Len(tip[n]) + 1
    BY Zenon, SMTT(30), <1>4 DEF Advance, Extends
  <2>2. Contains(disk'[Boot].best, tip'[Boot])
    <3>1. Committing(Boot)' /\ TypeOK'
      BY Zenon, <1>0 DEF Inv, TipIsDurable
    <3> QED
      BY Zenon, <1>0, <1>1, <3>1, ContainsSelf DEF Committing, Extends
  <2>3. Contains(tip'[Boot], tip'[n])
    <3>1. CASE n = Boot
      BY Zenon, SMTT(30), <1>1, <3>1, ContainsSelf
    <3>2. CASE n # Boot
      BY Zenon, <3>2 DEF Inv, Following, Held
    <3> QED
      BY Zenon, <3>1, <3>2
  <2>4. Contains(disk'[Boot].best, tip'[n])
    BY Zenon, <1>1, <2>2, <2>3, ContainsTransitive
  <2> DEFINE k == Len(tip'[n])
  <2>5. tip'[n] = SubSeq(disk'[Boot].best, 1, k)
    BY Zenon, <1>1, <2>4, ContainsPrefix
  <2>6. k \in Len(tip[n]) + 1 .. Len(disk'[Boot].best)
    BY SMTT(60), <1>1, <2>1, <2>4, BlockLen DEF Contains
  <2> HIDE DEF k
  <2>7. \E j \in Len(tip[n]) + 1 .. Len(disk'[Boot].best) :
           tip' = [tip EXCEPT ![n] = SubSeq(disk'[Boot].best, 1, j)]
    BY Zenon, <1>2, <2>5, <2>6
  <2>8. \/ disk'[Boot].best = disk[Boot].best
        \/ \E v \in Variants : disk'[Boot].best = Append(disk[Boot].best, v)
    BY Zenon, LedgerGrows
  <2> QED
    BY Zenon, <2>7, <2>8 DEF Ledger!Next, Ledger!Follow
<1> QED
  BY Zenon, <1>3, <1>4

(* Together the nodes implement one ledger that only grows and tips that    *)
(* only move forward along it: the Bootstrap's disk is that ledger, also    *)
(* while it crashes in the middle of ApprovePOSBlock.                       *)
THEOREM ImplementsLedger == Spec => OneLedger
<1>1. Inv /\ Inv' /\ [Next]_vars => [Ledger!Next]_<<disk[Boot].best, tip>>
  <2> SUFFICES ASSUME Inv, Inv', [Next]_vars PROVE [Ledger!Next]_<<disk[Boot].best, tip>>
    BY Zenon
  <2>1. CASE Next
    <3>1. \E n \in Nodes : Advance(n)
      BY Zenon, <2>1, EveryStep DEF Inv
    <3> QED
      BY Zenon, <3>1, LedgerStep
  <2>2. CASE UNCHANGED vars
    BY Zenon, <2>2 DEF vars
  <2> QED
    BY Zenon, <2>1, <2>2
<1> QED
  BY <1>1, LedgerInit, InvHolds, PTL DEF Spec, OneLedger, Ledger!Spec

-----------------------------------------------------------------------------
(* Acknowledgements, where the Core node only relays.                      *)

Durable(b) == b \in Blocks /\ Contains(disk[Boot].best, b)

(* The goroutines that call the parent: one for each link.                 *)
Caller(s, t) == (s = Miner /\ t = "own") \/ (s = Core /\ t = "peer")

(* Whatever carries the nonce of a call is about the block of the call: its *)
(* message, the parent's handler, and an answer of success.                 *)
Waiting(s, t) ==
    /\ \A r \in reqs : r.from = s /\ r.nonce = thread[s][t].call => r.blk = thread[s][t].blk
    /\ \A a \in acks : a.to = s /\ a.nonce = thread[s][t].call /\ a.ok => Durable(thread[s][t].blk)
    /\ LET p == thread[Father[s]]["peer"] IN
         p.pc # "idle" /\ p.req = thread[s][t].call => p.blk = thread[s][t].blk

CallOK(s, t) ==
    /\ thread[s][t].pc \in {"wait", "woken"} => Caller(s, t) /\ thread[s][t].blk \in Blocks
    /\ At(s, t, "wait") => Waiting(s, t)
    /\ At(s, t, "woken") => last[s] = 0 /\ (result[s] => Durable(thread[s][t].blk))
    /\ At(s, t, "notify") => thread[s][t].blk \in Blocks /\ Contains(tip[s], thread[s][t].blk)

PeerOK(n) ==
    thread[n]["peer"].pc # "idle" =>
      /\ thread[n]["peer"].req # 0 /\ n # Miner
      /\ n = Core => thread[n]["peer"].pc \in {"wait", "woken"}

AckInv ==
    /\ Core \notin plan.makers
    /\ \A n \in Nodes : PeerOK(n) /\ \A t \in Threads : CallOK(n, t)
    /\ \A r \in reqs : r.nonce # 0
    /\ \A a \in acks : a.nonce # 0
    /\ \A b \in told : Durable(b)

LEMMA Distinct == Miner # Core /\ Core # Boot /\ Miner # Boot
BY Zenon, SMTT(30), PosAssumption

(* The links: each of the two has one child and one parent.                *)
LEMMA Links ==
    /\ Father[Miner] = Core /\ Father[Core] = Boot /\ Father[Boot] = NoNode
    /\ Child[Boot] = Core /\ Child[Core] = Miner /\ Child[Miner] = NoNode
    /\ NoNode \notin Nodes /\ Miner \in Nodes /\ Core \in Nodes /\ Boot \in Nodes
    /\ "peer" \in Threads /\ "own" \in Threads
BY Zenon, SMTT(30), PosAssumption DEF Father, Child, Nodes, Threads

(* A block of this state is durable in the next.                           *)
Lasting(b) == b \in Blocks /\ Contains(disk'[Boot].best, b)

LEMMA Monotone ==
    ASSUME Inv, Inv', Next
    PROVE  /\ \A b : Durable(b) => Lasting(b)
           /\ \A s \in Nodes, b \in Blocks : Contains(tip[s], b) => Contains(tip'[s], b)
<1>1. PICK n \in Nodes : Advance(n)
  BY Zenon, EveryStep DEF Inv
<1>2. /\ disk[Boot].best \in Blocks /\ disk'[Boot].best \in Blocks /\ Boot \in Nodes
      /\ \A s \in Nodes : tip[s] \in Blocks /\ tip'[s] \in Blocks
  BY Zenon, ZenonT(60), Links DEF Inv, TypeOK, Database
<1>3. Contains(disk'[Boot].best, disk[Boot].best)
  <2>1. CASE disk'[Boot].best = disk[Boot].best
    BY Zenon, <1>2, <2>1, ContainsSelf
  <2>2. ASSUME NEW v \in Variants, disk'[Boot].best = Append(disk[Boot].best, v)
        PROVE  Contains(disk'[Boot].best, disk[Boot].best)
    <3>1. PICK d \in Seq(Variants) : d = disk[Boot].best
      BY Zenon, ZenonT(30), <1>2 DEF Blocks
    <3>2. Contains(Append(d, v), d)
      BY SMTT(30) DEF Contains
    <3> QED
      BY Zenon, <2>2, <3>1, <3>2
  <2> QED
    BY Zenon, SMTT(30), <1>1, <2>1, <2>2, LedgerGrows
<1>4. \A b : Durable(b) => Lasting(b)
  BY Zenon, SMTT(30), <1>2, <1>3, ContainsTransitive DEF Durable, Lasting
<1>5. \A s \in Nodes : Contains(tip'[s], tip[s])
  BY Zenon, <1>1, <1>2, ContainsSelf DEF Advance, Same, Extends
<1> QED
  BY Zenon, <1>2, <1>4, <1>5, ContainsTransitive

(* A parent's handler goes on with its request, or takes one that came.    *)
Passed(n) ==
    \/ thread'[n]["peer"].pc = "idle"
    \/ /\ thread[n]["peer"].pc # "idle"
       /\ thread'[n]["peer"].req = thread[n]["peer"].req /\ thread'[n]["peer"].blk = thread[n]["peer"].blk
    \/ \E r \in reqs : /\ Father[r.from] = n
                       /\ thread'[n]["peer"].req = r.nonce /\ thread'[n]["peer"].blk = r.blk

(* What is left to show of a step: the goroutines that change, new         *)
(* messages, and what was told.                                            *)
LEMMA AckFrame ==
    ASSUME Inv, Inv', Next, AckInv, plan' = plan,
           \A s \in Nodes, t \in Threads : thread'[s][t] = thread[s][t] \/ CallOK(s, t)',
           \A n \in Nodes : Passed(n),
           thread'[Miner]["peer"].pc = "idle", thread'[Core]["peer"].pc \in {"idle", "wait", "woken"},
           \A r \in reqs' \ reqs :
              r.nonce # 0 /\ \A t \in Threads : thread'[r.from][t] = thread[r.from][t] => ~At(r.from, t, "wait"),
           \A a \in acks' \ acks :
              /\ a.nonce # 0
              /\ a.ok /\ a.to \in Nodes =>
                   \A t \in Threads : At(a.to, t, "wait") /\ thread[a.to][t].call = a.nonce
                                        => Lasting(thread[a.to][t].blk),
           \A s \in Nodes, t \in Threads :
              thread'[s][t] = thread[s][t] /\ At(s, t, "woken") => last'[s] = 0 /\ result'[s] = result[s],
           \A b \in told' \ told : Lasting(b)
    PROVE  AckInv'
<1>1. (\A r \in reqs' : r.nonce # 0) /\ (\A a \in acks' : a.nonce # 0)
  BY Zenon  DEF AckInv
<1>2. \A b \in told' : Durable(b)'
  <2>1. \A b \in told' : Lasting(b)
    BY Zenon, Monotone DEF AckInv
  <2> QED
    BY Zenon, <2>1 DEF Lasting, Durable
<1>3. ASSUME NEW n \in Nodes PROVE PeerOK(n)'
  <2>1. thread'[n]["peer"].pc # "idle" => thread'[n]["peer"].req # 0
    BY SMTT(60) DEF Passed, AckInv, PeerOK
  <2> QED
    BY ZenonT(60), <2>1 DEF PeerOK
<1>4. ASSUME NEW s \in Nodes, NEW t \in Threads, thread'[s][t] = thread[s][t] PROVE CallOK(s, t)'
  <2>0. CallOK(s, t)
    BY Zenon  DEF AckInv
  <2>1. thread'[s][t].pc \in {"wait", "woken"} => Caller(s, t) /\ thread'[s][t].blk \in Blocks
    BY Zenon, <1>4, <2>0 DEF CallOK
  <2>2. At(s, t, "notify")' => thread'[s][t].blk \in Blocks /\ Contains(tip'[s], thread'[s][t].blk)
    BY Zenon, <1>4, <2>0, Monotone DEF CallOK, At
  <2>3. At(s, t, "woken")' => last'[s] = 0 /\ (result'[s] => Lasting(thread'[s][t].blk))
    <3> SUFFICES ASSUME At(s, t, "woken") PROVE last'[s] = 0 /\ (result'[s] => Lasting(thread[s][t].blk))
      BY Zenon, SMTT(30), <1>4 DEF At
    <3>1. last'[s] = 0 /\ result'[s] = result[s]
      BY Zenon, <1>4
    <3>2. result[s] => Durable(thread[s][t].blk)
      BY Zenon, <2>0 DEF CallOK
    <3> QED
      BY Zenon, ZenonT(30), <3>1, <3>2, Monotone
  <2>4. At(s, t, "wait")' => Waiting(s, t)'
    <3> SUFFICES ASSUME At(s, t, "wait") PROVE Waiting(s, t)'
      BY Zenon, <1>4 DEF At
    <3>0. Waiting(s, t) /\ Caller(s, t)
      BY Zenon, <2>0 DEF CallOK, At
    <3> DEFINE g == thread[s][t]
    <3>1. ASSUME NEW r \in reqs', r.from = s, r.nonce = g.call PROVE r.blk = g.blk
      <4>1. r \in reqs
        BY Zenon, SMTT(30), <1>4, <3>1
      <4> QED
        BY Zenon, <3>0, <3>1, <4>1 DEF Waiting
    <3>2. ASSUME NEW a \in acks', a.to = s, a.nonce = g.call, a.ok PROVE Lasting(g.blk)
      <4>1. CASE a \in acks
        <5>1. Durable(g.blk)
          BY Zenon, <3>0, <3>2, <4>1 DEF Waiting
        <5> QED
          BY Zenon, <5>1, Monotone
      <4>2. CASE a \notin acks
        BY Zenon, SMTT(30), <3>2, <4>2
      <4> QED
        BY Zenon, <4>1, <4>2
    <3>3. PICK f : f = Father[s]
      BY ZenonT(60), SMTT(30)
    <3>4. f \in Nodes /\ \A r \in reqs : Father[r.from] = f => r.from = s
      <4>1. \A r \in reqs : r.from \in Nodes
        BY Zenon, ZenonT(60) DEF Inv, TypeOK
      <4>2. (s = Miner \/ s = Core) /\ Nodes = {Miner, Core, Boot}
        BY Zenon, <3>0 DEF Caller, Nodes
      <4> QED
        BY SMTT(60), ZenonT(60), <3>3, <4>1, <4>2, Links, Distinct
    <3>5. thread'[f]["peer"].pc # "idle" /\ thread'[f]["peer"].req = g.call => thread'[f]["peer"].blk = g.blk
      <4> SUFFICES ASSUME thread'[f]["peer"].pc # "idle", thread'[f]["peer"].req = g.call
                   PROVE  thread'[f]["peer"].blk = g.blk
        BY Zenon
      <4>1. CASE /\ thread[f]["peer"].pc # "idle"
                 /\ thread'[f]["peer"].req = thread[f]["peer"].req /\ thread'[f]["peer"].blk = thread[f]["peer"].blk
        BY Zenon, <3>0, <3>3, <4>1 DEF Waiting
      <4>2. ASSUME NEW r \in reqs, Father[r.from] = f, thread'[f]["peer"].req = r.nonce,
                   thread'[f]["peer"].blk = r.blk
            PROVE  thread'[f]["peer"].blk = g.blk
        BY ZenonT(30), ZenonT(30), <3>0, <3>4, <4>2 DEF Waiting
      <4> QED
        BY Zenon, ZenonT(60), <3>4, <4>1, <4>2 DEF Passed
    <3> HIDE DEF g
    <3>6. g = thread'[s][t]
      BY Zenon, <1>4 DEF g
    <3>7. /\ \A r \in reqs' : r.from = s /\ r.nonce = thread'[s][t].call => r.blk = thread'[s][t].blk
          /\ \A a \in acks' : a.to = s /\ a.nonce = thread'[s][t].call /\ a.ok => Lasting(thread'[s][t].blk)
          /\ thread'[f]["peer"].pc # "idle" /\ thread'[f]["peer"].req = thread'[s][t].call
               => thread'[f]["peer"].blk = thread'[s][t].blk
      BY Zenon, <3>1, <3>2, <3>5, <3>6
    <3> QED
      BY Zenon, <3>3, <3>7 DEF Waiting, Lasting, Durable
  <2> QED
    BY Zenon, <2>1, <2>2, <2>3, <2>4 DEF CallOK, Caller, Lasting, Durable
<1> QED
  BY Zenon, <1>1, <1>2, <1>3, <1>4 DEF AckInv

(* Where each goroutine is, by AckInv.                                     *)
LEMMA PeerPlaces ==
    ASSUME AckInv
    PROVE  /\ thread[Miner]["peer"].pc = "idle" /\ thread[Core]["peer"].pc \in {"idle", "wait", "woken"}
           /\ \A n \in Nodes, t \in Threads : CallOK(n, t) /\ PeerOK(n)
BY Zenon, Links DEF AckInv, PeerOK

(* A goroutine that ends: a parent's success is about a durable block.     *)
LEMMA EndedAck ==
    ASSUME Inv, Inv', Next, AckInv, NEW n \in Nodes, NEW t \in Threads, NEW ok \in BOOLEAN,
           Ended(n, t, ok), thread[n][t].pc # "idle", ok => Lasting(thread[n][t].blk),
           UNCHANGED <<reqs, last, result, plan>>, \A b \in told' \ told : Lasting(b)
    PROVE  AckInv'
<1>1. /\ thread'[n][t] = Idle
      /\ \A u \in Threads \ {t} : thread'[n][u] = thread[n][u]
      /\ \A m \in Nodes \ {n} : thread'[m] = thread[m]
  BY ZenonT(60), SMTT(30), EndedThread DEF Inv
<1>2. Idle.pc = "idle"
  BY Zenon, SMTT(30) DEF Idle
<1>3. \A s \in Nodes, u \in Threads : thread'[s][u] = thread[s][u] \/ CallOK(s, u)'
  BY ZenonT(60), SMTT(30), <1>1, <1>2 DEF CallOK, At
<1>4. \A m \in Nodes : Passed(m)
  BY ZenonT(30), SMTT(30), <1>1, <1>2, Links DEF Passed
<1>5. thread'[Miner]["peer"].pc = "idle" /\ thread'[Core]["peer"].pc \in {"idle", "wait", "woken"}
  BY ZenonT(30), SMTT(30), <1>1, <1>2, PeerPlaces, Links
<1>6. ASSUME NEW a \in acks' \ acks
      PROVE  /\ a.nonce # 0
             /\ a.ok /\ a.to \in Nodes =>
                  \A u \in Threads : At(a.to, u, "wait") /\ thread[a.to][u].call = a.nonce
                                       => Lasting(thread[a.to][u].blk)
  <2>1. t = "peer" /\ a = [to |-> Child[n], nonce |-> thread[n][t].req, ok |-> ok]
    BY Zenon, <1>6 DEF Ended
  <2>2. a.to = Child[n] /\ a.nonce = thread[n]["peer"].req /\ a.ok = ok
    BY Zenon, SMTT(30), <2>1
  <2>3. a.nonce # 0
    BY ZenonT(60), SMTT(30), <2>1, <2>2, PeerPlaces DEF PeerOK
  <2>4. a.to \in Nodes => Father[a.to] = n
    BY ZenonT(30), SMTT(30), <2>2, Links DEF Nodes
  <2>5. ASSUME a.ok, a.to \in Nodes, NEW u \in Threads, At(a.to, u, "wait"), thread[a.to][u].call = a.nonce
        PROVE  Lasting(thread[a.to][u].blk)
    <3>1. Waiting(a.to, u)
      BY Zenon, <2>5, PeerPlaces DEF CallOK
    <3>2. thread[n]["peer"].blk = thread[a.to][u].blk
      BY ZenonT(60), <2>1, <2>2, <2>4, <2>5, <3>1 DEF Waiting
    <3> QED
      BY Zenon, <2>1, <2>2, <2>5, <3>2
  <2> QED
    BY Zenon, <2>3, <2>5
<1>7. \A s \in Nodes, u \in Threads :
         thread'[s][u] = thread[s][u] /\ At(s, u, "woken") => last'[s] = 0 /\ result'[s] = result[s]
  BY Zenon, PeerPlaces DEF CallOK
<1> QED
  BY Zenon, ZenonT(60), <1>3, <1>4, <1>5, <1>6, <1>7, AckFrame

(* A goroutine of a commit that goes on.                                   *)
LEMMA GotoAck ==
    ASSUME Inv, Inv', Next, AckInv, NEW n \in Nodes, NEW t \in Threads, NEW pc \in {"commit", "sync", "notify"},
           Goto(n, t, pc), thread[n][t].pc \in Holding,
           pc = "notify" => tip'[n] = thread[n][t].blk,
           UNCHANGED <<reqs, acks, last, result, told, plan>>
    PROVE  AckInv'
<1>1. /\ thread'[n][t].pc = pc /\ thread'[n][t].blk = thread[n][t].blk
      /\ thread'[n][t].req = thread[n][t].req
      /\ \A u \in Threads \ {t} : thread'[n][u] = thread[n][u]
      /\ \A m \in Nodes \ {n} : thread'[m] = thread[m]
  BY ZenonT(60), GotoThread DEF Inv, Steps
<1>2. thread[n][t].pc \notin {"idle", "wait", "woken"} /\ thread[n][t].blk \in Blocks
  BY Zenon, NodeTypes DEF Holding, Inv
<1>3. CallOK(n, t)'
  <2>1. pc = "notify" => Contains(tip'[n], thread'[n][t].blk)
    BY Zenon, <1>1, <1>2, ContainsSelf
  <2> QED
    BY Zenon, <1>1, <1>2, <2>1 DEF CallOK, At
<1>4. \A s \in Nodes, u \in Threads : thread'[s][u] = thread[s][u] \/ CallOK(s, u)'
  BY Zenon, <1>1, <1>3
<1>5. \A m \in Nodes : Passed(m)
  <2> SUFFICES ASSUME NEW m \in Nodes PROVE Passed(m)
    BY Zenon, SMTT(30)
  <2>1. CASE m = n /\ t = "peer"
    BY Zenon, <1>1, <1>2, <2>1 DEF Passed
  <2>2. CASE ~(m = n /\ t = "peer")
    BY Zenon, ZenonT(60), <1>1, <2>2, Links DEF Passed
  <2> QED
    BY Zenon, <2>1, <2>2
<1>6. thread'[Miner]["peer"].pc = "idle" /\ thread'[Core]["peer"].pc \in {"idle", "wait", "woken"}
  <2>1. (n # Miner /\ n # Core) \/ t # "peer"
    BY Zenon, <1>2, PeerPlaces
  <2> QED
    BY ZenonT(60), <1>1, <2>1, PeerPlaces, Links
<1>7. \A s \in Nodes, u \in Threads :
         thread'[s][u] = thread[s][u] /\ At(s, u, "woken") => last'[s] = 0 /\ result'[s] = result[s]
  BY Zenon, PeerPlaces DEF CallOK
<1> QED
  BY ZenonT(60), <1>4, <1>5, <1>6, <1>7, AckFrame

(* A goroutine that takes chainLock.                                       *)
LEMMA BeginAck ==
    ASSUME Inv, Inv', Next, AckInv, NEW n \in Nodes, NEW t \in Threads, NEW b, NEW req, Begin(n, t, b, req),
           t = "peer" => n = Boot /\ \E r \in reqs : r.from = Core /\ r.blk = b /\ r.nonce = req,
           reqs' \subseteq reqs, UNCHANGED <<acks, last, result, told, plan>>
    PROVE  AckInv'
<1>1. /\ thread'[n][t].pc \in {"commit", "store"} /\ thread'[n][t].blk = b /\ thread'[n][t].req = req
      /\ \A u \in Threads \ {t} : thread'[n][u] = thread[n][u]
      /\ \A m \in Nodes \ {n} : thread'[m] = thread[m]
  <2> DEFINE g == [pc |-> IF b \in index[n] THEN "commit" ELSE "store", blk |-> b, req |-> req, call |-> 0]
  <2>1. g.pc \in {"commit", "store"} /\ g.blk = b /\ g.req = req
    BY Zenon
  <2>2. thread' = [thread EXCEPT ![n][t] = g]
    BY ZenonT(60) DEF Begin
  <2>3. thread \in [Nodes -> [Threads -> Goroutine]]
    BY ZenonT(60) DEF Inv, TypeOK, ThreadsOK
  <2> HIDE DEF g
  <2>4. /\ thread'[n][t] = g
        /\ \A u \in Threads \ {t} : thread'[n][u] = thread[n][u]
        /\ \A m \in Nodes \ {n} : thread'[m] = thread[m]
    BY ZenonT(60), <2>2, <2>3
  <2> QED
    BY ZenonT(60), <2>1, <2>4
<1>2. \A s \in Nodes, u \in Threads : thread'[s][u] = thread[s][u] \/ CallOK(s, u)'
  BY Zenon, <1>1 DEF CallOK, At
<1>3. \A m \in Nodes : Passed(m)
  BY ZenonT(60), <1>1, Links DEF Passed
<1>4. thread'[Miner]["peer"].pc = "idle" /\ thread'[Core]["peer"].pc \in {"idle", "wait", "woken"}
  BY ZenonT(60), <1>1, PeerPlaces, Links, Distinct
<1>5. \A s \in Nodes, u \in Threads :
         thread'[s][u] = thread[s][u] /\ At(s, u, "woken") => last'[s] = 0 /\ result'[s] = result[s]
  BY Zenon, PeerPlaces DEF CallOK
<1> QED
  BY Zenon, ZenonT(60), <1>2, <1>3, <1>4, <1>5, AckFrame

(* Steps that leave the goroutines alone; an answer of success is about a  *)
(* durable block.                                                          *)
LEMMA QuietAck ==
    ASSUME Inv, Inv', Next, AckInv, UNCHANGED <<thread, result, told, plan>>, reqs' \subseteq reqs,
           \A s \in Nodes : last'[s] \in {last[s], 0},
           \A a \in acks' \ acks : \E r \in reqs : a.to = r.from /\ a.nonce = r.nonce /\ (a.ok => Lasting(r.blk))
    PROVE  AckInv'
<1>1. \A n \in Nodes : Passed(n)
  BY Zenon  DEF Passed
<1>2. thread'[Miner]["peer"].pc = "idle" /\ thread'[Core]["peer"].pc \in {"idle", "wait", "woken"}
  BY Zenon, SMTT(30), PeerPlaces
<1>3. ASSUME NEW a \in acks' \ acks
      PROVE  /\ a.nonce # 0
             /\ a.ok /\ a.to \in Nodes =>
                  \A u \in Threads : At(a.to, u, "wait") /\ thread[a.to][u].call = a.nonce
                                       => Lasting(thread[a.to][u].blk)
  <2>1. PICK r \in reqs : a.to = r.from /\ a.nonce = r.nonce /\ (a.ok => Lasting(r.blk))
    BY Zenon, SMTT(30), <1>3
  <2>2. a.nonce # 0
    BY Zenon, SMTT(30), <2>1 DEF AckInv
  <2>3. ASSUME a.ok, a.to \in Nodes, NEW u \in Threads, At(a.to, u, "wait"), thread[a.to][u].call = a.nonce
        PROVE  Lasting(thread[a.to][u].blk)
    <3>1. Waiting(a.to, u)
      BY Zenon, <2>3, PeerPlaces DEF CallOK
    <3> QED
      BY Zenon, <2>1, <2>3, <3>1 DEF Waiting
  <2> QED
    BY Zenon, <2>2, <2>3
<1>4. \A s \in Nodes, u \in Threads :
         thread'[s][u] = thread[s][u] /\ At(s, u, "woken") => last'[s] = 0 /\ result'[s] = result[s]
  BY Zenon, PeerPlaces DEF CallOK
<1> QED
  BY Zenon, <1>1, <1>2, <1>3, <1>4, AckFrame

LEMMA HandleAck ==
    ASSUME Inv, Inv', Next, AckInv, NEW s \in Nodes, NEW a \in acks, HandleMineAck(s, a)
    PROVE  AckInv'
<1>0. acks' = acks \ {a} /\ a.to = s /\ a.nonce # 0 /\ UNCHANGED <<reqs, told, plan>>
  BY Zenon, SMTT(30) DEF HandleMineAck, AckInv, bounds
<1>1. CASE last[s] # a.nonce /\ UNCHANGED <<last, result, thread>>
  BY Zenon, <1>0, <1>1, QuietAck
<1>2. CASE /\ last[s] = a.nonce
           /\ last' = [last EXCEPT ![s] = 0]
           /\ result' = [result EXCEPT ![s] = a.ok]
           /\ thread' = [thread EXCEPT ![s] = [t \in Threads |->
                 IF @[t].pc = "wait" /\ @[t].call = a.nonce THEN [@[t] EXCEPT !.pc = "woken"] ELSE @[t]]]
  <2>0. /\ last'[s] = 0 /\ result'[s] = a.ok
        /\ \A m \in Nodes \ {s} : last'[m] = last[m] /\ result'[m] = result[m] /\ thread'[m] = thread[m]
    BY ZenonT(60), <1>2 DEF Inv, TypeOK, ThreadsOK
  <2>1. \A u \in Threads : \/ thread'[s][u] = thread[s][u]
                           \/ /\ At(s, u, "wait") /\ thread[s][u].call = a.nonce
                              /\ thread'[s][u].pc = "woken"
                              /\ thread'[s][u].blk = thread[s][u].blk /\ thread'[s][u].req = thread[s][u].req
    <3> TAKE u \in Threads
    <3>1. thread[s][u] \in Goroutine
      BY Zenon, NodeTypes DEF Inv
    <3>2. thread'[s][u] = IF thread[s][u].pc = "wait" /\ thread[s][u].call = a.nonce
                          THEN [thread[s][u] EXCEPT !.pc = "woken"] ELSE thread[s][u]
      BY ZenonT(30), SMTT(30), <1>2 DEF Inv, TypeOK, ThreadsOK
    <3> QED
      BY ZenonT(60), SMTT(30), <3>1, <3>2 DEF Goroutine, At
  <2>2. ASSUME NEW u \in Threads, thread'[s][u] # thread[s][u] PROVE CallOK(s, u)'
    <3>1. /\ At(s, u, "wait") /\ thread[s][u].call = a.nonce
          /\ thread'[s][u].pc = "woken" /\ thread'[s][u].blk = thread[s][u].blk
      BY Zenon, <2>1, <2>2
    <3>2. Caller(s, u) /\ thread[s][u].blk \in Blocks /\ Waiting(s, u)
      BY Zenon, <3>1, PeerPlaces DEF CallOK, At
    <3>3. a.ok => Lasting(thread[s][u].blk)
      BY Zenon, <1>0, <3>1, <3>2, Monotone DEF Waiting
    <3>4. result'[s] => Lasting(thread'[s][u].blk)
      BY Zenon, <2>0, <3>1, <3>3
    <3> QED
      BY ZenonT(30), SMTT(30), <2>0, <3>1, <3>2, <3>4 DEF CallOK, At, Caller, Lasting, Durable
  <2>3. \A m \in Nodes, u \in Threads : thread'[m][u] = thread[m][u] \/ CallOK(m, u)'
    BY Zenon, <2>0, <2>2
  <2>4. \A m \in Nodes : Passed(m)
    <3> SUFFICES ASSUME NEW m \in Nodes PROVE Passed(m)
      BY Zenon, SMTT(30)
    <3>1. CASE m = s /\ thread'[s]["peer"] # thread[s]["peer"]
      BY ZenonT(30), SMTT(30), <2>1, <3>1, Links DEF Passed, At
    <3>2. CASE thread'[m]["peer"] = thread[m]["peer"]
      BY Zenon, <3>2 DEF Passed
    <3> QED
      BY Zenon, <2>0, <3>1, <3>2
  <2>5. thread'[Miner]["peer"].pc = "idle" /\ thread'[Core]["peer"].pc \in {"idle", "wait", "woken"}
    BY SMTT(60), ZenonT(60), <2>0, <2>1, PeerPlaces, Links DEF At
  <2>6. ASSUME NEW m \in Nodes, NEW u \in Threads, At(m, u, "woken")
        PROVE  last'[m] = 0 /\ result'[m] = result[m]
    <3>1. last[m] = 0
      BY Zenon, <2>6, PeerPlaces DEF CallOK
    <3> QED
      BY Zenon, <1>0, <1>2, <2>0, <3>1
  <2> QED
    BY ZenonT(60), <1>0, <2>3, <2>4, <2>5, <2>6, AckFrame
<1> QED
  BY Zenon, <1>1, <1>2 DEF HandleMineAck

(* A call to the parent, with a nonce that nothing refers to.              *)
LEMMA SendAck ==
    ASSUME Inv, Inv', Next, AckInv, NEW s \in Nodes, NEW t \in Threads, NEW b \in Blocks, NEW req,
           Caller(s, t), thread[s][t] = Idle, Send(s, t, b, req),
           t = "peer" => \E r \in reqs : Father[r.from] = s /\ r.blk = b /\ r.nonce = req,
           UNCHANGED <<acks, result, told, plan>>
    PROVE  AckInv'
<1>1. PICK k \in FreshNonces(s) :
         /\ last' = [last EXCEPT ![s] = k]
         /\ thread' = [thread EXCEPT ![s][t] = [pc |-> "wait", blk |-> b, req |-> req, call |-> k]]
         /\ reqs' \subseteq reqs \cup {[from |-> s, nonce |-> k, blk |-> b]}
  BY Zenon  DEF Send
<1>2. /\ k \in 1 .. MaxNonce
      /\ \A r \in reqs : r.from = s => r.nonce # k
      /\ \A a \in acks : a.to = s => a.nonce # k
      /\ thread[Father[s]]["peer"].req # k
  BY Zenon  DEF FreshNonces
<1>3. k # 0
  BY SMTT(60), <1>2
<1>4. /\ thread'[s][t].pc = "wait" /\ thread'[s][t].blk = b /\ thread'[s][t].req = req /\ thread'[s][t].call = k
      /\ \A u \in Threads \ {t} : thread'[s][u] = thread[s][u]
      /\ \A m \in Nodes \ {s} : thread'[m] = thread[m]
      /\ \A m \in Nodes \ {s} : last'[m] = last[m]
  <2> DEFINE g == [pc |-> "wait", blk |-> b, req |-> req, call |-> k]
  <2>1. g.pc = "wait" /\ g.blk = b /\ g.req = req /\ g.call = k
    BY Zenon
  <2>2. thread' = [thread EXCEPT ![s][t] = g] /\ last' = [last EXCEPT ![s] = k]
    BY ZenonT(60), <1>1
  <2>3. thread \in [Nodes -> [Threads -> Goroutine]] /\ last \in [Nodes -> Nonces]
    BY ZenonT(60) DEF Inv, TypeOK, ThreadsOK
  <2> HIDE DEF g
  <2>4. /\ thread'[s][t] = g
        /\ \A u \in Threads \ {t} : thread'[s][u] = thread[s][u]
        /\ \A m \in Nodes \ {s} : thread'[m] = thread[m]
    BY ZenonT(60), <2>2, <2>3
  <2>5. \A m \in Nodes \ {s} : last'[m] = last[m]
    BY ZenonT(60), <2>2, <2>3
  <2> QED
    BY ZenonT(60), <2>1, <2>4, <2>5
<1>5. PICK f : f = Father[s]
  BY Zenon
<1>6. f \in Nodes \ {s} /\ (s = Miner \/ s = Core)
  BY ZenonT(60), SMTT(30), <1>5, Links, Distinct DEF Caller
<1>7. \A u \in Threads : ~At(s, u, "wait") /\ ~At(s, u, "woken")
  <2> SUFFICES ASSUME NEW u \in Threads, At(s, u, "wait") \/ At(s, u, "woken") PROVE FALSE
    BY Zenon
  <2>1. Caller(s, u)
    BY Zenon, PeerPlaces DEF CallOK, At
  <2>2. u = t
    BY Zenon, <2>1, Distinct DEF Caller
  <2> QED
    <3>1. Idle.pc = "idle"
      BY Zenon DEF Idle
    <3> QED
      BY ZenonT(60), <2>2, <3>1 DEF At
<1>8. CallOK(s, t)'
  <2>1. \A r \in reqs' : r.from = s /\ r.nonce = k => r.blk = b
    BY SMTT(30), <1>1, <1>2
  <2>2. \A a \in acks' : ~(a.to = s /\ a.nonce = k)
    BY Zenon, <1>2
  <2>3. thread'[f]["peer"].req # k
    BY Zenon, <1>2, <1>4, <1>5, <1>6
  <2>4. Waiting(s, t)'
    BY ZenonT(60), <1>4, <1>5, <2>1, <2>2, <2>3 DEF Waiting
  <2> QED
    BY ZenonT(60), <1>4, <2>4 DEF CallOK, At, Caller
<1>9. \A m \in Nodes, u \in Threads : thread'[m][u] = thread[m][u] \/ CallOK(m, u)'
  BY Zenon, SMTT(30), <1>4, <1>8
<1>10. \A m \in Nodes : Passed(m)
  <2> SUFFICES ASSUME NEW m \in Nodes PROVE Passed(m)
    BY Zenon
  <2>1. CASE m = s /\ t = "peer"
    BY Zenon, ZenonT(30), <1>4, <2>1 DEF Passed
  <2>2. CASE ~(m = s /\ t = "peer")
    BY ZenonT(30), <1>4, <2>2, Links DEF Passed
  <2> QED
    BY Zenon, SMTT(30), <2>1, <2>2
<1>11. thread'[Miner]["peer"].pc = "idle" /\ thread'[Core]["peer"].pc \in {"idle", "wait", "woken"}
  <2>1. thread'[Miner]["peer"] = thread[Miner]["peer"]
    BY ZenonT(60), <1>4, Links, Distinct DEF Caller
  <2>2. thread'[Core]["peer"].pc = "wait" \/ thread'[Core]["peer"] = thread[Core]["peer"]
    BY Zenon, ZenonT(60), <1>4, Links
  <2> QED
    BY Zenon, <2>1, <2>2, PeerPlaces
<1>12. ASSUME NEW r \in reqs' \ reqs
       PROVE  r.nonce # 0 /\ \A u \in Threads : thread'[r.from][u] = thread[r.from][u] => ~At(r.from, u, "wait")
  <2>1. r.from = s /\ r.nonce = k
    BY SMTT(30), <1>1, <1>12
  <2> QED
    BY ZenonT(60), SMTT(30), <1>3, <1>7, <2>1
<1>13. ASSUME NEW m \in Nodes, NEW u \in Threads, At(m, u, "woken")
       PROVE  last'[m] = 0 /\ result'[m] = result[m]
  <2>1. last[m] = 0
    BY Zenon, <1>13, PeerPlaces DEF CallOK
  <2>2. m # s
    BY Zenon, <1>7, <1>13
  <2> QED
    BY ZenonT(60), <1>4, <2>1, <2>2
<1> QED
  BY Zenon, <1>9, <1>10, <1>11, <1>12, <1>13, AckFrame

LEMMA RestartAck ==
    ASSUME Inv, Inv', Next, AckInv, NEW n \in Nodes, Restart(n)
    PROVE  AckInv'
<1>1. /\ \A t \in Threads : thread'[n][t] = Idle
      /\ \A m \in Nodes \ {n} : thread'[m] = thread[m] /\ result'[m] = result[m]
      /\ \A m \in Nodes : last'[m] \in {last[m], 0}
      /\ reqs' \subseteq reqs /\ acks' \subseteq acks /\ told' = told /\ plan' = plan
  <2>1. /\ thread' = [thread EXCEPT ![n] = [t \in Threads |-> Idle]]
        /\ result' = [result EXCEPT ![n] = TRUE]
        /\ last' = [s \in Nodes |-> IF s = n \/ Father[s] = n THEN 0 ELSE last[s]]
        /\ told' = told /\ plan' = plan
    BY ZenonT(60) DEF Restart
  <2>2. reqs' \subseteq reqs /\ acks' \subseteq acks
    BY ZenonT(60) DEF Restart
  <2>3. DOMAIN thread = Nodes /\ DOMAIN result = Nodes
    BY ZenonT(60) DEF Inv, TypeOK, ThreadsOK
  <2>4. \A m \in Nodes : last'[m] \in {last[m], 0}
    BY ZenonT(60), <2>1
  <2> QED
    BY ZenonT(60), <2>1, <2>2, <2>3, <2>4
<1>2. Idle.pc = "idle"
  BY Zenon DEF Idle
<1>3. \A s \in Nodes, u \in Threads : thread'[s][u] = thread[s][u] \/ CallOK(s, u)'
  BY Zenon, <1>1, <1>2 DEF CallOK, At
<1>4. \A m \in Nodes : Passed(m)
  BY Zenon, <1>1, <1>2, Links DEF Passed
<1>5. thread'[Miner]["peer"].pc = "idle" /\ thread'[Core]["peer"].pc \in {"idle", "wait", "woken"}
  BY ZenonT(60), SMTT(30), <1>1, <1>2, PeerPlaces, Links
<1>6. ASSUME NEW s \in Nodes, NEW u \in Threads, thread'[s][u] = thread[s][u], At(s, u, "woken")
      PROVE  last'[s] = 0 /\ result'[s] = result[s]
  <2>1. s # n
    BY Zenon, SMTT(30), <1>1, <1>2, <1>6 DEF At
  <2>2. last[s] = 0
    BY Zenon, SMTT(30), <1>6, PeerPlaces DEF CallOK
  <2> QED
    BY Zenon, <1>1, <2>1, <2>2
<1> QED
  BY ZenonT(60), <1>1, <1>3, <1>4, <1>5, <1>6, AckFrame

(* What any node shows as its chain is durable at the Bootstrap.           *)
LEMMA ShownDurable ==
    ASSUME Inv, NEW n \in Nodes, NEW b \in Blocks, Contains(tip[n], b)
    PROVE  Durable(b)
<1>1. disk[Boot].best \in Blocks /\ tip[Boot] \in Blocks /\ tip[n] \in Blocks
  BY ZenonT(60), Links DEF Inv, TypeOK, Database
<1>2. Contains(disk[Boot].best, tip[Boot])
  BY Zenon, Links, DiskContainsTip DEF Inv, TipIsDurable
<1>3. Contains(tip[Boot], tip[n])
  BY Zenon, <1>1, ContainsSelf DEF Inv, Following, Held
<1> QED
  BY ZenonT(60), SMTT(30), <1>1, <1>2, <1>3, ContainsTransitive DEF Durable

LEMMA ThreadAck ==
    ASSUME Inv, Inv', Next, AckInv, NEW n \in Nodes, NEW t \in Threads,
           ThreadStep(n, t) \/ SetTipIndexBehind(n, t) \/ WriteFails(n, t) \/ MineAckTimeout(n, t)
    PROVE  AckInv'
<1>0. CallOK(n, t)
  BY Zenon, PeerPlaces
<1>1. CASE StoreBlock(n, t)
  <2>1. /\ Goto(n, t, "commit") /\ thread[n][t].pc \in Holding
        /\ UNCHANGED <<reqs, acks, last, result, told, plan>>
    BY Zenon, SMTT(30), <1>1 DEF StoreBlock, At, Holding, linkVars, bounds
  <2> QED
    BY Zenon, <2>1, GotoAck
<1>2. CASE ConnectBlock(n, t)
  <2>1. /\ Goto(n, t, "sync") /\ thread[n][t].pc \in Holding
        /\ UNCHANGED <<reqs, acks, last, result, told, plan>>
    BY Zenon, SMTT(30), <1>2 DEF ConnectBlock, At, Holding, linkVars, bounds
  <2> QED
    BY Zenon, <2>1, GotoAck
<1>3. CASE SetTip(n, t)
  <2>1. /\ Goto(n, t, "notify") /\ thread[n][t].pc \in Holding
        /\ UNCHANGED <<reqs, acks, last, result, told, plan>>
    BY Zenon, <1>3 DEF SetTip, At, Holding, linkVars, bounds
  <2>2. tip'[n] = thread[n][t].blk
    BY ZenonT(60), <1>3 DEF SetTip, Inv, TypeOK
  <2> QED
    BY Zenon, SMTT(30), <2>1, <2>2, GotoAck
<1>4. CASE FinishBlockAcceptance(n, t)
  <2>1. /\ At(n, t, "notify") /\ thread[n][t].pc # "idle" /\ Ended(n, t, TRUE)
        /\ UNCHANGED <<reqs, last, result, told, plan>>
    BY Zenon, <1>4 DEF FinishBlockAcceptance, At, bounds
  <2>2. Durable(thread[n][t].blk)
    BY Zenon, <1>0, <2>1, ShownDurable DEF CallOK
  <2>3. Lasting(thread[n][t].blk)
    BY Zenon, ZenonT(30), <2>2, Monotone
  <2> QED
    BY Zenon, ZenonT(60), <2>1, <2>3, EndedAck
<1>5. CASE SetTipIndexBehind(n, t) \/ WriteFails(n, t) \/ MineAckTimeout(n, t)
  <2>1. /\ thread[n][t].pc # "idle" /\ Ended(n, t, FALSE)
        /\ UNCHANGED <<reqs, last, result, told, plan>>
    BY Zenon, <1>5 DEF SetTipIndexBehind, WriteFails, MineAckTimeout, At, Holding, bounds
  <2> QED
    BY Zenon, <2>1, EndedAck
<1>6. CASE MineAckReceived(n, t)
  <2>1. /\ At(n, t, "woken") /\ thread[n][t].pc # "idle" /\ Ended(n, t, result[n]) /\ result[n] \in BOOLEAN
        /\ UNCHANGED <<reqs, last, result, plan>>
        /\ told' = IF result[n] THEN told \cup {thread[n][t].blk} ELSE told
    BY ZenonT(30), <1>6 DEF MineAckReceived, At, bounds, Inv, TypeOK
  <2>2. result[n] => Lasting(thread[n][t].blk)
    BY Zenon, <1>0, <2>1, Monotone DEF CallOK
  <2>3. \A b \in told' \ told : Lasting(b)
    BY Zenon, <2>1, <2>2
  <2> QED
    BY ZenonT(30), <2>1, <2>2, <2>3, EndedAck
<1> QED
  BY ZenonT(60), SMTT(30), <1>1, <1>2, <1>3, <1>4, <1>5, <1>6 DEF ThreadStep

LEMMA CandidateAck ==
    ASSUME Inv, Inv', Next, AckInv, NEW r \in reqs,
           \/ ApprovePOSBlock(r) \/ RelayCandidate(r)
           \/ \E n \in Nodes : KnownCandidate(n, r) \/ RejectCandidate(n, r)
    PROVE  AckInv'
<1>0. r.blk \in Blocks /\ r.from \in Nodes
  BY Zenon DEF Inv, TypeOK
<1>1. CASE ApprovePOSBlock(r)
  <2>1. /\ Begin(Boot, "peer", r.blk, r.nonce) /\ r.from = Core /\ reqs' \subseteq reqs
        /\ UNCHANGED <<acks, last, result, told, plan>>
    BY Zenon, SMTT(30), <1>1 DEF ApprovePOSBlock, bounds
  <2> QED
    BY Zenon, ZenonT(60), <2>1, Links, BeginAck
<1>2. CASE RelayCandidate(r)
  <2>1. /\ Send(Core, "peer", r.blk, r.nonce) /\ r.from = Miner /\ thread[Core]["peer"] = Idle
        /\ UNCHANGED <<acks, result, told, plan>>
    BY Zenon, <1>2 DEF RelayCandidate, bounds
  <2>2. Caller(Core, "peer")
    BY Zenon, SMTT(30) DEF Caller
  <2> QED
    BY ZenonT(30), <1>0, <2>1, <2>2, Links, SendAck
<1>3. ASSUME NEW n \in Nodes, NEW ok \in BOOLEAN, AnswerCandidate(n, r, ok), ok => Contains(tip[n], r.blk)
      PROVE  AckInv'
  <2>1. /\ UNCHANGED <<thread, result, told, plan>> /\ reqs' \subseteq reqs /\ last' = last
        /\ acks' = acks \cup {[to |-> r.from, nonce |-> r.nonce, ok |-> ok]}
    BY Zenon, <1>3 DEF AnswerCandidate, bounds
  <2>2. ok => Lasting(r.blk)
    BY ZenonT(30), <1>0, <1>3, ShownDurable, Monotone
  <2>3. \A a \in acks' \ acks : a.to = r.from /\ a.nonce = r.nonce /\ (a.ok => Lasting(r.blk))
    BY <2>1, <2>2
  <2> QED
    BY Zenon, <2>1, <2>3, QuietAck
<1>4. ASSUME NEW n \in Nodes, KnownCandidate(n, r) PROVE AckInv'
  BY Zenon, <1>3, <1>4 DEF KnownCandidate
<1>5. ASSUME NEW n \in Nodes, RejectCandidate(n, r) PROVE AckInv'
  BY Zenon, <1>3, <1>5 DEF RejectCandidate
<1> QED
  BY ZenonT(60), SMTT(30), <1>1, <1>2, <1>4, <1>5

LEMMA NodeAck ==
    ASSUME Inv, Inv', Next, AckInv, NEW n \in Nodes,
           \/ CatchUp(n) \/ Flush(n) \/ generatePOSBlock(n) \/ Disconnect(n)
           \/ \E b \in index[n] : ServeBlock(n, b)
           \/ \E b \in served : ProcessBlock(n, b)
    PROVE  AckInv'
<1>1. CASE CatchUp(n) \/ Flush(n) \/ \E b \in index[n] : ServeBlock(n, b)
  <2>1. UNCHANGED <<thread, reqs, acks, last, result, told, plan>>
    BY Zenon, <1>1 DEF CatchUp, Flush, ServeBlock, linkVars, bounds
  <2> QED
    BY Zenon, <2>1, QuietAck
<1>2. CASE Disconnect(n)
  <2>1. UNCHANGED <<thread, result, told, plan>> /\ reqs' \subseteq reqs /\ acks' \subseteq acks
    BY ZenonT(30), SMTT(30), <1>2 DEF Disconnect
  <2>2. \A s \in Nodes : last'[s] \in {last[s], 0}
    BY ZenonT(30), <1>2 DEF Disconnect, Inv, TypeOK
  <2> QED
    BY Zenon, ZenonT(30), <2>1, <2>2, QuietAck
<1>3. CASE \E b \in served : ProcessBlock(n, b)
  <2>1. PICK b \in served : ProcessBlock(n, b)
    BY Zenon, SMTT(30), <1>3
  <2>2. Begin(n, "sync", b, 0) /\ UNCHANGED <<reqs, acks, last, result, told, plan>> /\ "sync" \in Threads
    BY Zenon, <2>1 DEF ProcessBlock, linkVars, bounds, Threads
  <2> QED
    BY Zenon, <2>2, BeginAck
<1>4. CASE generatePOSBlock(n)
  <2>1. PICK b \in Candidates(n) :
           \/ n = Boot /\ Begin(n, "own", b, 0) /\ UNCHANGED <<reqs, last>>
           \/ n # Boot /\ Send(n, "own", b, 0)
    BY Zenon, <1>4 DEF generatePOSBlock
  <2>2. /\ n \in plan.makers /\ thread[n]["own"] = Idle
        /\ UNCHANGED <<acks, result, told, plan>>
    BY Zenon, <1>4 DEF generatePOSBlock, bounds
  <2>3. CASE n = Boot /\ Begin(n, "own", b, 0) /\ UNCHANGED <<reqs, last>>
    BY ZenonT(60), <2>2, <2>3, Links, BeginAck
  <2>4. CASE n # Boot /\ Send(n, "own", b, 0)
    <3>1. Caller(n, "own")
      BY Zenon, ZenonT(60), <2>2, <2>4 DEF AckInv, Caller, Nodes
    <3>2. b \in Blocks
      BY Zenon, CandidatesType DEF Inv
    <3> QED
      BY ZenonT(30), <2>2, <2>4, <3>1, <3>2, Links, SendAck
  <2> QED
    BY Zenon, <2>1, <2>3, <2>4
<1> QED
  BY ZenonT(30), <1>1, <1>2, <1>3, <1>4

LEMMA AckStep == Inv /\ Inv' /\ AckInv /\ [Next]_vars => AckInv'
<1> SUFFICES ASSUME Inv, Inv', AckInv, [Next]_vars PROVE AckInv'
  BY Zenon
<1>1. CASE Next
  <2>1. ASSUME NEW n \in Nodes, NEW t \in Threads,
               ThreadStep(n, t) \/ SetTipIndexBehind(n, t) \/ WriteFails(n, t) \/ MineAckTimeout(n, t)
        PROVE  AckInv'
    BY Zenon, <1>1, <2>1, ThreadAck
  <2>2. ASSUME NEW n \in Nodes,
               \/ CatchUp(n) \/ Flush(n) \/ generatePOSBlock(n) \/ Disconnect(n)
               \/ \E b \in index[n] : ServeBlock(n, b)
               \/ \E b \in served : ProcessBlock(n, b)
        PROVE  AckInv'
    BY Zenon, <1>1, <2>2, NodeAck
  <2>3. ASSUME NEW n \in Nodes, Restart(n) PROVE AckInv'
    BY Zenon, <1>1, <2>3, RestartAck
  <2>4. ASSUME NEW n \in Nodes, NEW a \in acks, HandleMineAck(n, a) PROVE AckInv'
    BY Zenon, <1>1, <2>4, HandleAck
  <2>5. ASSUME NEW r \in reqs,
               \/ ApprovePOSBlock(r) \/ RelayCandidate(r)
               \/ \E n \in Nodes : KnownCandidate(n, r) \/ RejectCandidate(n, r)
        PROVE  AckInv'
    BY Zenon, <1>1, <2>5, CandidateAck
  <2> QED
    BY ZenonT(30), <1>1, <2>1, <2>2, <2>3, <2>4, <2>5 DEF Next
<1>2. CASE UNCHANGED vars
  <2>1. UNCHANGED <<tip, disk, thread, reqs, acks, last, result, told, plan>>
    BY Zenon, <1>2 DEF vars, bounds
  <2>2. /\ \A b : Durable(b)' = Durable(b)
        /\ \A n : PeerOK(n)' = PeerOK(n)
    BY Zenon, <2>1 DEF Durable, PeerOK
  <2>3. \A n, t : CallOK(n, t)' = CallOK(n, t)
    <3> TAKE n, t
    <3>1. Waiting(n, t)' = Waiting(n, t)
      BY Zenon, <2>1 DEF Waiting, Durable
    <3>2. Durable(thread[n][t].blk)' = Durable(thread[n][t].blk)
      BY Zenon, <2>1 DEF Durable
    <3> QED
      BY Zenon, <2>1, <3>1, <3>2 DEF CallOK, At, Caller
  <2> QED
    BY Zenon, <2>1, <2>2, <2>3 DEF AckInv
<1> QED
  BY Zenon, <1>1, <1>2

(* A mineack of success means a durable canonical block for the node that  *)
(* asked, through SendMineBlockAndWait, handlePOSCandidate and             *)
(* ApprovePOSBlock, timeouts, crashes and lost connections included, as    *)
(* long as the Core node sends no candidates of its own over the peer that *)
(* it relays through.                                                      *)
THEOREM ToldAlwaysDurable == Spec /\ Core \notin plan.makers => []ToldIsDurable
<1>1. Init /\ Core \notin plan.makers => AckInv
  <2> SUFFICES ASSUME Init, Core \notin plan.makers PROVE AckInv
    BY Zenon
  <2>1. \A n \in Nodes, t \in Threads : thread[n][t] = Idle
    BY Zenon  DEF Init
  <2>2. Idle.pc = "idle" /\ "peer" \in Threads
    BY Zenon DEF Idle, Threads
  <2>3. reqs = {} /\ acks = {} /\ told = {}
    BY Zenon  DEF Init
  <2> QED
    BY Zenon, ZenonT(30), <2>1, <2>2, <2>3 DEF AckInv, PeerOK, CallOK, At
<1>2. AckInv => ToldIsDurable
  BY Zenon DEF AckInv, ToldIsDurable, Durable
<1> QED
  BY <1>1, <1>2, AckStep, InvHolds, PTL DEF Spec
=============================================================================
