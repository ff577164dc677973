--------------------------- MODULE ChainNodeProofs ---------------------------
(***************************************************************************)
(* Two facts about a node, whatever blocks, transactions and orphans       *)
(* arrive, and wherever transactions of the database fail and the process  *)
(* dies, for any tree of blocks.  The maps of the pool are those of its    *)
(* transactions, whatever the administrator does.  And a block of the best *)
(* chain at the activation height or above is final: here the              *)
(* administrator's calls are excluded, and what spends what does not       *)
(* matter.                                                                 *)
(***************************************************************************)
EXTENDS ChainRecordsProofs

-----------------------------------------------------------------------------
(* The pool, whatever the chain does.                                      *)

(* What PoolIndexed says of the maps, of any pool.                         *)
PoolParts == {"txs", "outpoints", "anchors", "orphans"}

Indexed(p) ==
    /\ \A t \in p.txs :
          IF IsAnchorTx(t) THEN Funding[t] \in DOMAIN p.anchors /\ p.anchors[Funding[t]] = t
          ELSE \A o \in ToSet(Ins[t]) : o \in DOMAIN p.outpoints /\ p.outpoints[o] = t
    /\ \A o \in DOMAIN p.outpoints : p.outpoints[o] \in p.txs /\ o \in Inputs(p.outpoints[o])
    /\ \A l \in DOMAIN p.anchors : p.anchors[l] \in p.txs /\ Funding[p.anchors[l]] = l

Coherent(p) ==
    /\ DOMAIN p = PoolParts
    /\ p.txs \subseteq Tx /\ p.orphans \subseteq Tx
    /\ Indexed(p)
    /\ Cardinality(p.orphans) <= MaxOrphanTxs

LEMMA InputsReal == ASSUME NEW t \in Tx, ~IsAnchorTx(t) PROVE NullOut \notin Inputs(t)
<1>1. \A i \in DOMAIN Ins[t] : Ins[t][i] \in Tx
  <2>1. Ins[t] \in Seq(Tx)
    BY ZenonT(60), TreeAssumption
  <2>2. QED
    BY SMTT(60), <2>1
<1>2. QED
  BY ZenonT(60), <1>1, PoolAssumption DEF Inputs, ToSet

(* A pool whose orphans are among the ones of a coherent pool.             *)
LEMMA FewerOrphans ==
    ASSUME NEW p, Coherent(p), NEW q, DOMAIN q = PoolParts, q.orphans \subseteq p.orphans,
           q.txs = p.txs, q.outpoints = p.outpoints, q.anchors = p.anchors
    PROVE  Coherent(q)
<1>1. IsFiniteSet(p.orphans)
  BY ZenonT(60), PoolAssumption, FS_Subset DEF Coherent
<1>2. IsFiniteSet(q.orphans) /\ Cardinality(q.orphans) <= Cardinality(p.orphans)
  BY ZenonT(60), <1>1, FS_Subset
<1>3. Cardinality(q.orphans) \in Nat /\ Cardinality(p.orphans) \in Nat
  BY ZenonT(60), <1>1, <1>2, FS_CardinalityType
<1>4. Cardinality(q.orphans) <= MaxOrphanTxs
  BY SMTT(60), <1>2, <1>3, PoolAssumption DEF Coherent
<1>5. Indexed(q)
  BY ZenonT(60) DEF Coherent, Indexed
<1>6. QED
  BY ZenonT(60), <1>4, <1>5 DEF Coherent

LEMMA RemoveOrphanCoherent ==
    ASSUME NEW p, Coherent(p), NEW S
    PROVE  Coherent([p EXCEPT !.orphans = @ \ S])
<1> DEFINE q == [p EXCEPT !.orphans = @ \ S]
<1>1. /\ DOMAIN q = PoolParts /\ q.orphans = p.orphans \ S
      /\ q.txs = p.txs /\ q.outpoints = p.outpoints /\ q.anchors = p.anchors
  BY ZenonT(60) DEF Coherent, PoolParts
<1>2. q.orphans \subseteq p.orphans
  BY ZenonT(60), <1>1
<1> HIDE DEF q
<1>3. Coherent(q)
  BY ZenonT(60), <1>1, <1>2, FewerOrphans
<1>4. QED
  BY ZenonT(60), <1>3 DEF q

(* Removing any set of transactions, their descendants or not.             *)
LEMMA RemoveAllCoherent ==
    ASSUME NEW p, Coherent(p), NEW S
    PROVE  LET q == RemoveAll(p, S)
           IN  /\ Coherent(q) /\ q.orphans = p.orphans
               /\ DOMAIN q.anchors \subseteq DOMAIN p.anchors
               /\ DOMAIN q.outpoints =
                     DOMAIN p.outpoints \ UNION {Inputs(x) : x \in S \cap p.txs}
<1> DEFINE gone == S \cap p.txs
           spent == UNION {Inputs(x) : x \in gone}
           locked == {l \in DOMAIN p.anchors : p.anchors[l] \in gone}
           q == RemoveAll(p, S)
<1>1. /\ DOMAIN q = PoolParts /\ q.orphans = p.orphans /\ q.txs = p.txs \ gone
      /\ q.outpoints = Drop(p.outpoints, spent) /\ q.anchors = Drop(p.anchors, locked)
  BY ZenonT(60) DEF RemoveAll, Coherent, PoolParts
<1>2. /\ DOMAIN q.outpoints = DOMAIN p.outpoints \ spent
      /\ \A o \in DOMAIN q.outpoints : q.outpoints[o] = p.outpoints[o]
      /\ DOMAIN q.anchors = DOMAIN p.anchors \ locked
      /\ \A l \in DOMAIN q.anchors : q.anchors[l] = p.anchors[l]
  BY ZenonT(60), <1>1 DEF Drop
<1> HIDE DEF q
<1>3. ASSUME NEW t \in q.txs, IsAnchorTx(t)
      PROVE  Funding[t] \in DOMAIN q.anchors /\ q.anchors[Funding[t]] = t
  BY ZenonT(60), <1>1, <1>2, <1>3 DEF Coherent, Indexed
<1>4. ASSUME NEW t \in q.txs, ~IsAnchorTx(t), NEW o \in ToSet(Ins[t])
      PROVE  o \in DOMAIN q.outpoints /\ q.outpoints[o] = t
  <2>1. t \in Tx /\ t \in p.txs /\ t \notin gone /\ o \in DOMAIN p.outpoints /\ p.outpoints[o] = t
    BY ZenonT(60), <1>1, <1>4 DEF Coherent, Indexed
  <2>2. o # NullOut
    BY ZenonT(60), <1>4, <2>1, InputsReal DEF Inputs
  <2>3. ASSUME NEW x \in gone, o \in Inputs(x) PROVE FALSE
    <3>1. x \in p.txs /\ ~IsAnchorTx(x)
      BY ZenonT(60), <2>2, <2>3 DEF Inputs
    <3>2. p.outpoints[o] = x
      BY ZenonT(60), <2>3, <3>1 DEF Coherent, Indexed, Inputs
    <3>3. QED
      BY ZenonT(60), <2>1, <3>2
  <2>4. o \notin spent
    BY ZenonT(60), <2>3
  <2> HIDE DEF spent
  <2>5. o \in DOMAIN q.outpoints
    BY ZenonT(60), <1>2, <2>1, <2>4
  <2>6. QED
    BY Zenon, <1>2, <2>1, <2>5
<1>5. ASSUME NEW o \in DOMAIN q.outpoints
      PROVE  q.outpoints[o] \in q.txs /\ o \in Inputs(q.outpoints[o])
  <2>1. q.outpoints[o] = p.outpoints[o] /\ o \in DOMAIN p.outpoints /\ o \notin spent
    BY ZenonT(60), <1>2
  <2>2. p.outpoints[o] \in p.txs /\ o \in Inputs(p.outpoints[o])
    BY ZenonT(60), <2>1 DEF Coherent, Indexed
  <2>3. p.outpoints[o] \notin gone
    BY ZenonT(60), <2>1, <2>2
  <2>4. QED
    BY ZenonT(60), <1>1, <2>1, <2>2, <2>3
<1>6. ASSUME NEW l \in DOMAIN q.anchors PROVE q.anchors[l] \in q.txs /\ Funding[q.anchors[l]] = l
  BY ZenonT(60), <1>1, <1>2 DEF Coherent, Indexed
<1>7. Indexed(q)
  BY ZenonT(60), <1>3, <1>4, <1>5, <1>6 DEF Indexed
<1>8. Coherent(q)
  BY ZenonT(60), <1>1, <1>7 DEF Coherent
<1>9. QED
  BY ZenonT(60), <1>1, <1>2, <1>8 DEF q

LEMMA RemovedCoherent == ASSUME NEW p, Coherent(p), NEW S PROVE Coherent(RemoveAll(p, S))
BY ZenonT(60), RemoveAllCoherent

(* Adding a transaction that conflicts with nothing in the pool.           *)
LEMMA AddCoherent ==
    ASSUME NEW p, Coherent(p), NEW t \in Tx,
           \A o \in Inputs(t) \cap DOMAIN p.outpoints : o = NullOut,
           IsAnchorTx(t) => Funding[t] \notin DOMAIN p.anchors
    PROVE  Coherent(addTransaction(p, t))
<1> DEFINE q == addTransaction(p, t)
<1>1. /\ DOMAIN q = PoolParts /\ q.orphans = p.orphans /\ q.txs = p.txs \cup {t}
      /\ q.outpoints = Overlay([o \in Inputs(t) |-> t], p.outpoints)
      /\ q.anchors = IF IsAnchorTx(t) THEN Put(p.anchors, Funding[t], t) ELSE p.anchors
  BY ZenonT(60) DEF addTransaction, Coherent, PoolParts
<1>2. /\ DOMAIN q.outpoints = Inputs(t) \cup DOMAIN p.outpoints
      /\ \A o \in DOMAIN q.outpoints :
            q.outpoints[o] = IF o \in Inputs(t) THEN t ELSE p.outpoints[o]
  BY ZenonT(60), <1>1 DEF Overlay
<1>3. CASE IsAnchorTx(t)
  <2>1. /\ DOMAIN q.anchors = {Funding[t]} \cup DOMAIN p.anchors
        /\ \A l \in DOMAIN q.anchors : q.anchors[l] = IF l = Funding[t] THEN t ELSE p.anchors[l]
    BY ZenonT(60), <1>1, <1>3 DEF Put, Overlay
  <2> HIDE DEF q
  <2>2. ASSUME NEW u \in q.txs, IsAnchorTx(u)
        PROVE  Funding[u] \in DOMAIN q.anchors /\ q.anchors[Funding[u]] = u
    BY Zenon, <1>1, <1>3, <2>1, <2>2 DEF Coherent, Indexed
  <2>3. ASSUME NEW l \in DOMAIN q.anchors PROVE q.anchors[l] \in q.txs /\ Funding[q.anchors[l]] = l
    BY ZenonT(60), <1>1, <2>1 DEF Coherent, Indexed
  <2>4. ASSUME NEW u \in q.txs, ~IsAnchorTx(u), NEW o \in ToSet(Ins[u])
        PROVE  o \in DOMAIN q.outpoints /\ q.outpoints[o] = u
    <3>1. u \in p.txs /\ u \in Tx
      BY ZenonT(60), <1>1, <1>3, <2>4 DEF Coherent
    <3>2. o \notin Inputs(t)
      BY ZenonT(60), <1>3, <2>4, <3>1, InputsReal DEF Inputs
    <3>3. QED
      BY ZenonT(60), <1>2, <2>4, <3>1, <3>2 DEF Coherent, Indexed
  <2>5. ASSUME NEW o \in DOMAIN q.outpoints
        PROVE  q.outpoints[o] \in q.txs /\ o \in Inputs(q.outpoints[o])
    BY ZenonT(60), <1>1, <1>2 DEF Coherent, Indexed
  <2>6. Indexed(q)
    BY ZenonT(60), <2>2, <2>3, <2>4, <2>5 DEF Indexed
  <2>7. QED
    BY ZenonT(60), <1>1, <2>6 DEF Coherent, q
<1>4. CASE ~IsAnchorTx(t)
  <2>1. q.anchors = p.anchors
    BY ZenonT(60), <1>1, <1>4
  <2>2. \A o \in Inputs(t) : o \notin DOMAIN p.outpoints
    BY ZenonT(60), <1>4, InputsReal
  <2> HIDE DEF q
  <2>3. ASSUME NEW u \in q.txs, ~IsAnchorTx(u), NEW o \in ToSet(Ins[u])
        PROVE  o \in DOMAIN q.outpoints /\ q.outpoints[o] = u
    <3>1. CASE u = t
      BY ZenonT(60), <1>2, <1>4, <2>3, <3>1 DEF Inputs
    <3>2. CASE u # t
      <4>1. o \in DOMAIN p.outpoints /\ p.outpoints[o] = u
        BY ZenonT(60), <1>1, <2>3, <3>2 DEF Coherent, Indexed
      <4>2. QED
        BY ZenonT(60), <1>2, <2>2, <4>1
    <3>3. QED
      BY ZenonT(60), <3>1, <3>2
  <2>4. ASSUME NEW o \in DOMAIN q.outpoints
        PROVE  q.outpoints[o] \in q.txs /\ o \in Inputs(q.outpoints[o])
    BY Zenon, <1>1, <1>2 DEF Coherent, Indexed
  <2>5. ASSUME NEW u \in q.txs, IsAnchorTx(u)
        PROVE  Funding[u] \in DOMAIN q.anchors /\ q.anchors[Funding[u]] = u
    BY ZenonT(60), <1>1, <1>4, <2>1, <2>5 DEF Coherent, Indexed
  <2>6. ASSUME NEW l \in DOMAIN q.anchors PROVE q.anchors[l] \in q.txs /\ Funding[q.anchors[l]] = l
    BY ZenonT(60), <1>1, <2>1 DEF Coherent, Indexed
  <2>7. Indexed(q)
    BY ZenonT(60), <2>3, <2>4, <2>5, <2>6 DEF Indexed
  <2>8. QED
    BY Zenon, <1>1, <2>7 DEF Coherent, q
<1>5. QED
  BY ZenonT(60), <1>3, <1>4

(* The conflicts of what is accepted are removed first, so that it meets   *)
(* none: every redeemer of its inputs is in the pool.                      *)
LEMMA AcceptCoherent ==
    ASSUME NEW p, Coherent(p), NEW c, NEW chain, NEW t \in Tx, NEW dup
    PROVE  Coherent(maybeAcceptTransaction(p, c, chain, t, dup).pool)
<1> DEFINE r == checkMempoolAcceptance(p, c, chain, t, dup)
           m == maybeAcceptTransaction(p, c, chain, t, dup)
           q == RemoveAll(p, r.conflicts)
<1>1. m.pool = IF r.verdict = "accepted" THEN addTransaction(q, t) ELSE p
  BY ZenonT(60) DEF maybeAcceptTransaction
<1>2. r.conflicts = IF IsAnchorTx(t) THEN {} ELSE txConflicts(p, t)
  BY ZenonT(60) DEF checkMempoolAcceptance
<1>3. r.verdict = "accepted" /\ IsAnchorTx(t) => Funding[t] \notin DOMAIN p.anchors
  BY SMTT(60) DEF checkMempoolAcceptance
<1> HIDE DEF r, m
<1>4. /\ Coherent(q) /\ DOMAIN q.anchors \subseteq DOMAIN p.anchors
      /\ DOMAIN q.outpoints = DOMAIN p.outpoints \ UNION {Inputs(x) : x \in r.conflicts \cap p.txs}
  BY ZenonT(60), RemoveAllCoherent
<1> HIDE DEF q
<1>5. ASSUME NEW o \in Inputs(t) \cap DOMAIN q.outpoints PROVE o = NullOut
  <2>1. CASE IsAnchorTx(t)
    BY ZenonT(60), <2>1 DEF Inputs
  <2>2. CASE ~IsAnchorTx(t)
    <3>1. p.outpoints[o] \in r.conflicts
      <4>1. o \in Inputs(t) \cap DOMAIN p.outpoints
        BY ZenonT(60), <1>4
      <4>2. r.conflicts = txConflicts(p, t)
        BY ZenonT(60), <1>2, <2>2
      <4>3. QED
        BY ZenonT(60), <4>1, <4>2 DEF txConflicts
    <3>2. p.outpoints[o] \in p.txs /\ o \in Inputs(p.outpoints[o])
      BY Zenon, <1>4 DEF Coherent, Indexed
    <3>3. QED
      BY ZenonT(60), <1>4, <3>1, <3>2
  <2>3. QED
    BY ZenonT(60), <2>1, <2>2
<1>6. CASE r.verdict = "accepted"
  <2>1. Coherent(addTransaction(q, t))
    BY ZenonT(60), <1>3, <1>4, <1>5, <1>6, AddCoherent
  <2>2. QED
    BY Zenon, <1>1, <1>6, <2>1 DEF m
<1>7. QED
  BY ZenonT(60), <1>1, <1>6 DEF m

(* The orphans that an accepted transaction releases.                      *)
Running(s) == DOMAIN s = {"item", "done", "cache", "pool"} /\ Coherent(s.pool)

LEMMA removeOrphansCoherent ==
    ASSUME NEW p, Coherent(p), NEW S
    PROVE  Coherent(removeOrphans(p, S))
<1> DEFINE gone == Reach([x \in Tx |-> {o \in p.orphans : x \in ToSet(Ins[o])}], S \cap p.orphans)
<1>1. removeOrphans(p, S) = [p EXCEPT !.orphans = @ \ gone]
  BY Zenon DEF removeOrphans
<1> HIDE DEF gone
<1>2. Coherent([p EXCEPT !.orphans = @ \ gone])
  BY ZenonT(60), RemoveOrphanCoherent
<1>3. QED
  BY ZenonT(60), <1>1, <1>2

LEMMA OrphanTurnRuns ==
    ASSUME NEW s, Running(s), NEW chain, NEW e \in OrphanTurn(s, chain)
    PROVE  Running(e)
<1> DEFINE redeemers == {o \in s.pool.orphans : \E t \in s.item : t \in ToSet(Ins[o])}
           try == [o \in redeemers |-> maybeAcceptTransaction(s.pool, s.cache, chain, o, FALSE)]
           looked == UNION {{o} \cup ToSet(Ins[o]) : o \in redeemers}
           Refused(o) == [s EXCEPT !.item = {}, !.cache = try[o].cache, !.pool = removeOrphans(@, {o})]
           Accepted(o) == [item |-> {o}, done |-> s.done \cup {o}, cache |-> try[o].cache,
                           pool |-> RemoveOrphan(try[o].pool, o)]
           Over == [s EXCEPT !.item = {}, !.cache = fetchEntries(@, chain.utxo, looked)]
<1>1. e = Over \/ \E o \in redeemers : e = Refused(o) \/ e = Accepted(o)
  BY Zenon DEF OrphanTurn
<1>2. CASE e = Over
  <2>1. DOMAIN e = {"item", "done", "cache", "pool"} /\ e.pool = s.pool
    BY ZenonT(60), <1>2 DEF Running
  <2>2. QED
    BY Zenon, <2>1 DEF Running
<1>3. ASSUME NEW o \in redeemers, e = Refused(o) PROVE Running(e)
  <2>1. DOMAIN e = {"item", "done", "cache", "pool"} /\ e.pool = removeOrphans(s.pool, {o})
    BY ZenonT(60), <1>3 DEF Running
  <2>2. QED
    BY ZenonT(60), <2>1, removeOrphansCoherent DEF Running
<1>4. ASSUME NEW o \in redeemers, e = Accepted(o) PROVE Running(e)
  <2>1. DOMAIN e = {"item", "done", "cache", "pool"} /\ e.pool = RemoveOrphan(try[o].pool, o)
    BY ZenonT(60), <1>4
  <2>2. o \in Tx
    BY ZenonT(60) DEF Running, Coherent
  <2>3. Coherent(try[o].pool)
    BY ZenonT(60), <2>2, AcceptCoherent DEF Running
  <2>4. Coherent(RemoveOrphan(try[o].pool, o))
    BY ZenonT(60), <2>3, RemoveOrphanCoherent DEF RemoveOrphan
  <2>5. QED
    BY ZenonT(60), <2>1, <2>4 DEF Running
<1>5. QED
  BY Zenon, <1>1, <1>2, <1>3, <1>4

(* The outcomes of processOrphans' fold after each number of turns.        *)
Turns(start, chain, N) ==
    CHOOSE f : f = [i \in 0..N |->
        IF i = 0 THEN {start} ELSE UNION {OrphanTurn(s, chain) : s \in f[i - 1]}]

(* All the outcomes after any number of turns.  The fold's recursive       *)
(* function exists because one for each smaller number of turns does.      *)
LEMMA TurnsRun ==
    ASSUME NEW start, Running(start), NEW chain, NEW N \in Nat, NEW end \in Turns(start, chain, N)[N]
    PROVE  Running(end)
<1> DEFINE At(f, i) == IF i = 0 THEN {start} ELSE UNION {OrphanTurn(s, chain) : s \in f[i - 1]}
           Ok(f, n) == f = [i \in 0..n |-> f[i]] /\ \A i \in 0..n : f[i] = At(f, i)
           Bad == {n \in Nat : n <= N /\ ~\E f : Ok(f, n)}
           F == Turns(start, chain, N)
<1>1. N <= N
  BY SMTT(60)
<1>2. Bad = {}
  <2>1. SUFFICES ASSUME Bad # {} PROVE FALSE
    BY ZenonT(60)
  <2>2. PICK n \in Bad : \A m \in Bad : ~(m < n)
    <3>1. Bad \in SUBSET Nat
      BY ZenonT(60)
    <3> HIDE DEF Bad
    <3>2. QED
      BY ZenonT(60), <2>1, <3>1, LeastNat
  <2>3. n \in Nat /\ n <= N /\ ~\E f : Ok(f, n)
    BY ZenonT(60), <2>2
  <2>4. CASE n = 0
    <3> DEFINE f == [i \in 0..0 |-> {start}]
    <3>1. Ok(f, 0)
      <4>1. 0..0 = {0}
        BY SMTT(60)
      <4>2. QED
        BY ZenonT(60), <4>1
    <3>2. QED
      BY ZenonT(60), <2>3, <2>4, <3>1
  <2>5. CASE n # 0
    <3>1. n - 1 \in Nat /\ n - 1 <= N /\ n - 1 < n
      BY SMTT(60), <2>3, <2>5
    <3>2. PICK g : Ok(g, n - 1)
      BY ZenonT(60), <2>2, <3>1
    <3> DEFINE e == At(g, n)
               f == [i \in 0..n |-> IF i = n THEN e ELSE g[i]]
    <3> HIDE DEF e
    <3>3. f = [i \in 0..n |-> f[i]]
      BY ZenonT(60)
    <3>4. ASSUME NEW i \in 0..n PROVE f[i] = At(f, i)
      <4>1. CASE i = n
        <5>1. f[n] = e /\ f[n - 1] = g[n - 1]
          BY SMTT(60), <2>3, <3>1
        <5>2. QED
          BY ZenonT(60), <4>1, <5>1 DEF e
      <4>2. CASE i # n
        <5>1. i \in 0..(n - 1) /\ f[i] = g[i] /\ (i # 0 => f[i - 1] = g[i - 1])
          BY SMTT(60), <2>3, <3>1, <4>2
        <5>2. g[i] = At(g, i)
          BY ZenonT(60), <3>2, <5>1
        <5> HIDE DEF f
        <5>3. QED
          BY ZenonT(60), <5>1, <5>2
      <4>3. QED
        BY ZenonT(60), <4>1, <4>2
    <3> HIDE DEF f
    <3>5. QED
      BY ZenonT(60), <2>3, <3>3, <3>4
  <2>6. QED
    BY ZenonT(60), <2>4, <2>5
<1>3. PICK g : Ok(g, N)
  BY ZenonT(60), <1>1, <1>2
<1>4. g = [i \in 0..N |-> At(g, i)]
  BY ZenonT(60), <1>3
<1>5. F = [i \in 0..N |-> At(F, i)]
  BY ZenonT(60), <1>4 DEF Turns
<1> HIDE DEF F
<1> DEFINE Wrong == {n \in Nat : n <= N /\ \E s \in F[n] : ~Running(s)}
<1>6. Wrong = {}
  <2>1. SUFFICES ASSUME Wrong # {} PROVE FALSE
    BY ZenonT(60)
  <2>2. PICK n \in Wrong : \A m \in Wrong : ~(m < n)
    <3>1. Wrong \in SUBSET Nat
      BY ZenonT(60)
    <3> HIDE DEF Wrong
    <3>2. QED
      BY Zenon, <2>1, <3>1, LeastNat
  <2>3. n \in Nat /\ n <= N /\ n \in 0..N
    BY SMTT(60), <2>2
  <2>4. F[n] = At(F, n)
    BY ZenonT(60), <1>5, <2>3
  <2>5. PICK x \in F[n] : ~Running(x)
    BY ZenonT(60), <2>2
  <2>6. n # 0
    <3>1. ASSUME n = 0 PROVE x = start
      BY ZenonT(60), <2>4, <2>5, <3>1
    <3>2. QED
      BY ZenonT(60), <2>5, <3>1
  <2>7. n - 1 \in Nat /\ n - 1 <= N /\ n - 1 < n
    BY SMTT(60), <2>3, <2>6
  <2>8. \A s \in F[n - 1] : Running(s)
    BY ZenonT(60), <2>2, <2>7
  <2>9. F[n] = UNION {OrphanTurn(s, chain) : s \in F[n - 1]}
    BY ZenonT(60), <2>4, <2>6
  <2>10. PICK s \in F[n - 1] : x \in OrphanTurn(s, chain)
    BY ZenonT(60), <2>5, <2>9
  <2>11. QED
    BY ZenonT(60), <2>5, <2>8, <2>10, OrphanTurnRuns
<1>7. QED
  BY ZenonT(60), <1>1, <1>6 DEF F

LEMMA ProcessOrphansCoherent ==
    ASSUME NEW p, Coherent(p), NEW c, NEW chain, NEW t, NEW r \in processOrphans(p, c, chain, t)
    PROVE  Coherent(r.pool)
<1> DEFINE start == [item |-> {t}, done |-> {t}, cache |-> c, pool |-> p]
           turns == [i \in 1..(Cardinality(Tx) + 1) |-> i]
<1>1. PICK s \in Turns(start, chain, Len(turns))[Len(turns)] :
         r = [cache |-> s.cache, pool |-> removeOrphanDoubleSpends(s.pool, s.done)]
  BY ZenonT(60) DEF processOrphans, FoldLeft, Turns
<1>2. Len(turns) \in Nat
  <2>1. Cardinality(Tx) \in Nat
    BY ZenonT(60), PoolAssumption, FS_CardinalityType
  <2>2. QED
    BY SMTT(60), <2>1
<1>3. Running(start)
  BY ZenonT(60) DEF Running
<1> HIDE DEF start, turns
<1>4. Running(s)
  BY ZenonT(60), <1>1, <1>2, <1>3, TurnsRun
<1> DEFINE gone == {o \in s.pool.orphans : \E u \in s.done : Inputs(o) \cap Inputs(u) # {}}
<1>5. r.pool = removeOrphans(s.pool, gone)
  BY ZenonT(60), <1>1 DEF removeOrphanDoubleSpends
<1> HIDE DEF gone
<1>6. QED
  BY ZenonT(60), <1>4, <1>5, removeOrphansCoherent DEF Running

(* A transaction's outcomes.                                               *)
LEMMA AddOrphanCoherent ==
    ASSUME NEW p, Coherent(p), NEW t \in Tx, NEW e \in addOrphan(p, t)
    PROVE  Coherent(e)
<1> DEFINE Limit(q) == IF Cardinality(q.orphans) + 1 <= MaxOrphanTxs THEN {q}
                       ELSE {RemoveOrphan(q, o) : o \in q.orphans}
<1>1. PICK q \in UNION {Limit(removeOrphans(p, x)) : x \in SUBSET p.orphans} :
         e = [q EXCEPT !.orphans = @ \cup {t}]
  BY ZenonT(60) DEF addOrphan
<1>2. PICK w : Coherent(w) /\ q \in Limit(w)
  BY ZenonT(60), <1>1, removeOrphansCoherent
<1>3. Coherent(q) /\ Cardinality(q.orphans) + 1 <= MaxOrphanTxs
  <2>1. CASE q = w /\ Cardinality(q.orphans) + 1 <= MaxOrphanTxs
    BY ZenonT(60), <1>2, <2>1
  <2>2. ASSUME NEW o \in w.orphans, q = RemoveOrphan(w, o) 
        PROVE  Coherent(q) /\ Cardinality(q.orphans) + 1 <= MaxOrphanTxs
    <3>1. Coherent(q)
      BY ZenonT(60), <1>2, <2>2, RemoveOrphanCoherent DEF RemoveOrphan
    <3>2. q.orphans = w.orphans \ {o}
      BY ZenonT(60), <1>2, <2>2 DEF RemoveOrphan, Coherent, PoolParts
    <3>3. IsFiniteSet(w.orphans)
      BY ZenonT(60), <1>2, PoolAssumption, FS_Subset DEF Coherent
    <3>4. Cardinality(q.orphans) = Cardinality(w.orphans) - 1 /\ Cardinality(w.orphans) \in Nat
      BY ZenonT(60), <2>2, <3>2, <3>3, FS_RemoveElement, FS_CardinalityType
    <3>5. Cardinality(w.orphans) <= MaxOrphanTxs
      BY ZenonT(60), <1>2 DEF Coherent
    <3>6. Cardinality(q.orphans) + 1 <= MaxOrphanTxs
      BY SMTT(60), <3>4, <3>5, PoolAssumption
    <3>7. QED
      BY ZenonT(60), <3>1, <3>6
  <2>3. QED
    <3>1. CASE Cardinality(w.orphans) + 1 <= MaxOrphanTxs
      <4>1. q = w
        BY ZenonT(60), <1>2, <3>1
      <4>2. QED
        BY ZenonT(60), <2>1, <3>1, <4>1
    <3>2. CASE ~(Cardinality(w.orphans) + 1 <= MaxOrphanTxs)
      BY ZenonT(60), <1>2, <2>2, <3>2
    <3>3. QED
      BY ZenonT(60), <3>1, <3>2
<1>4. /\ DOMAIN e = PoolParts /\ e.orphans = q.orphans \cup {t}
      /\ e.txs = q.txs /\ e.outpoints = q.outpoints /\ e.anchors = q.anchors
  BY ZenonT(60), <1>1, <1>3 DEF Coherent, PoolParts
<1>5. Cardinality(e.orphans) <= MaxOrphanTxs
  <2>1. IsFiniteSet(q.orphans)
    BY ZenonT(60), <1>3, PoolAssumption, FS_Subset DEF Coherent
  <2>2. Cardinality(q.orphans) \in Nat
    BY ZenonT(60), <2>1, FS_CardinalityType
  <2>3. Cardinality(e.orphans) =
           IF t \in q.orphans THEN Cardinality(q.orphans) ELSE Cardinality(q.orphans) + 1
    <3>1. Cardinality(q.orphans \cup {t}) =
             IF t \in q.orphans THEN Cardinality(q.orphans) ELSE Cardinality(q.orphans) + 1
      BY ZenonT(60), <2>1, FS_AddElement
    <3>2. QED
      BY ZenonT(60), <1>4, <3>1
  <2>4. QED
    BY SMTT(60), <1>3, <2>2, <2>3, PoolAssumption
<1>6. Indexed(e)
  BY ZenonT(60), <1>3, <1>4 DEF Coherent, Indexed
<1>7. QED
  BY ZenonT(60), <1>3, <1>4, <1>5, <1>6 DEF Coherent

LEMMA ProcessCoherent ==
    ASSUME NEW p, Coherent(p), NEW c, NEW chain, NEW t \in Tx, NEW allow,
           NEW r \in ProcessTransaction(p, c, chain, t, allow)
    PROVE  Coherent(r.pool)
<1> DEFINE m == maybeAcceptTransaction(p, c, chain, t, TRUE)
           rest == IF m.verdict = "missing" /\ allow THEN addOrphan(p, t) ELSE {p}
<1>1. r \in IF m.verdict = "accepted" THEN processOrphans(m.pool, m.cache, chain, t)
            ELSE {[cache |-> m.cache, pool |-> q] : q \in rest}
  BY ZenonT(60) DEF ProcessTransaction
<1>2. Coherent(m.pool)
  BY Zenon, AcceptCoherent
<1> HIDE DEF m
<1>3. \A q \in rest : Coherent(q)
  BY Zenon, AddOrphanCoherent
<1> HIDE DEF rest
<1>4. CASE m.verdict = "accepted"
  BY Zenon, <1>1, <1>2, <1>4, ProcessOrphansCoherent
<1>5. CASE m.verdict # "accepted"
  <2>1. PICK q \in rest : r = [cache |-> m.cache, pool |-> q]
    BY ZenonT(60), <1>1, <1>5
  <2>2. r.pool = q
    BY ZenonT(60), <2>1
  <2>3. QED
    BY ZenonT(60), <1>3, <2>2
<1>6. QED
  BY ZenonT(60), <1>4, <1>5

(* A block's transactions leave the pool, or come back to it.              *)
LEMMA ConfirmedCoherent ==
    ASSUME Coherent(pool), NEW t \in Tx, NEW r \in Confirmed(t)
    PROVE  Coherent(r.pool)
<1> DEFINE p == removeTransaction(pool, t, FALSE)
           q == RemoveDoubleSpends(p, t)
<1>1. Coherent(p)
  BY ZenonT(60), RemovedCoherent DEF removeTransaction
<1>2. Coherent(q)
  <2> HIDE DEF p
  <2>1. \E S : q = RemoveAll(p, S)
    BY ZenonT(60) DEF RemoveDoubleSpends
  <2> HIDE DEF q
  <2>2. QED
    BY ZenonT(60), <1>1, <2>1, RemovedCoherent
<1>3. r \in processOrphans(RemoveOrphan(q, t), cache, Snapshot, t)
  BY ZenonT(60) DEF Confirmed
<1> HIDE DEF q
<1>4. Coherent(RemoveOrphan(q, t))
  BY ZenonT(60), <1>2, RemoveOrphanCoherent DEF RemoveOrphan
<1>5. QED
  BY ZenonT(60), <1>3, <1>4, ProcessOrphansCoherent

LEMMA ReinsertedCoherent ==
    ASSUME Coherent(pool), NEW t \in Tx, NEW r \in Reinserted(t)
    PROVE  Coherent(r.pool)
<1> DEFINE m == Returning(t)
<1>1. r.pool = removeTransaction(pool, t, TRUE) \/ r.pool = m.pool
  <2>1. r = [cache |-> m.cache,
             pool |-> IF m.verdict = "refused" THEN removeTransaction(pool, t, TRUE) ELSE m.pool]
    BY ZenonT(60) DEF Reinserted
  <2> HIDE DEF m
  <2>2. QED
    BY ZenonT(60), <2>1
<1>2. Coherent(m.pool)
  BY ZenonT(60), AcceptCoherent DEF Returning
<1>3. \E S : removeTransaction(pool, t, TRUE) = RemoveAll(pool, S)
  BY ZenonT(60) DEF removeTransaction
<1> HIDE DEF m
<1>4. QED
  BY ZenonT(60), <1>1, <1>2, <1>3, RemovedCoherent

LEMMA EmptyCoherent == Coherent(EmptyPool)
<1>1. /\ DOMAIN EmptyPool = PoolParts /\ EmptyPool.txs = {} /\ EmptyPool.orphans = {}
      /\ EmptyPool.outpoints = <<>> /\ EmptyPool.anchors = <<>>
  BY ZenonT(60) DEF EmptyPool, PoolParts
<1>2. DOMAIN EmptyPool.outpoints = {} /\ DOMAIN EmptyPool.anchors = {}
  BY SMTT(60), <1>1
<1>3. Cardinality({}) <= MaxOrphanTxs
  <2>1. Cardinality({}) = 0
    BY ZenonT(60), FS_EmptySet
  <2>2. QED
    BY SMTT(60), <2>1, PoolAssumption
<1>4. Indexed(EmptyPool)
  BY ZenonT(60), <1>1, <1>2 DEF Indexed
<1>5. QED
  BY ZenonT(60), <1>1, <1>3, <1>4 DEF Coherent

(* What the index implies: no two conflict.                                *)
LEMMA CoherentIndexed == ASSUME Coherent(pool) PROVE PoolIndexed
<1>1. ASSUME NEW t \in pool.txs, NEW u \in pool.txs, t # u
      PROVE  ToSet(Ins[t]) \cap ToSet(Ins[u]) = {} /\ (Funding[t] = Funding[u] => Funding[t] = NoFunding)
  <2>1. t \in Tx /\ u \in Tx
    BY ZenonT(60) DEF Coherent
  <2>2. Funding[t] = Funding[u] => Funding[t] = NoFunding
    BY ZenonT(60), <1>1 DEF Coherent, Indexed, IsAnchorTx
  <2>3. ASSUME NEW x \in Tx, IsAnchorTx(x) PROVE ToSet(Ins[x]) = {}
    <3>1. Ins[x] = <<>>
      BY ZenonT(60), <2>3, TreeAssumption DEF IsAnchorTx
    <3>2. DOMAIN Ins[x] = {}
      BY SMTT(60), <3>1
    <3>3. QED
      BY ZenonT(60), <3>2 DEF ToSet
  <2>4. ASSUME NEW o \in ToSet(Ins[t]), o \in ToSet(Ins[u]) PROVE FALSE
    <3>1. ~IsAnchorTx(t) /\ ~IsAnchorTx(u)
      BY ZenonT(60), <2>1, <2>3, <2>4
    <3>2. pool.outpoints[o] = t /\ pool.outpoints[o] = u
      BY ZenonT(60), <2>4, <3>1 DEF Coherent, Indexed
    <3>3. QED
      BY ZenonT(60), <1>1, <3>2
  <2>5. QED
    BY ZenonT(60), <2>2, <2>4
<1>2. QED
  BY ZenonT(60), <1>1 DEF Coherent, Indexed, PoolIndexed

LEMMA PoolStepKeeps ==
    ASSUME plan \in Plans, RInv, Coherent(pool), [Next]_vars
    PROVE  Coherent(pool')
<1>1. CASE ChainStep /\ pool' = pool
  BY ZenonT(60), <1>1
<1>2. CASE CrashAndRestart /\ pool' = EmptyPool
  BY ZenonT(60), <1>2, EmptyCoherent
<1>3. ASSUME NEW t \in plan.users, handleTxMsg(t) \/ SendRawTransaction(t) PROVE Coherent(pool')
  <2>1. \E allow : \E r \in ProcessTransaction(pool, cache, Snapshot, t, allow) : pool' = r.pool
    BY ZenonT(60), <1>3 DEF handleTxMsg, SendRawTransaction, PoolStep
  <2>2. t \in Tx
    BY ZenonT(60), PlansAssumption
  <2>3. QED
    BY ZenonT(60), <2>1, <2>2, ProcessCoherent
<1>4. CASE RemoveOrphansByTag
  BY ZenonT(60), <1>4, removeOrphansCoherent DEF RemoveOrphansByTag
<1>5. ASSUME NEW c \in Callers, handleBlockchainNotification(c) PROVE Coherent(pool')
  <2>1. call[c].stage = "notify" /\ call[c].note # <<>>
    BY ZenonT(60), <1>5 DEF handleBlockchainNotification
  <2>2. call[c].stage # "idle"
    BY SMTT(60), <2>1
  <2>3. call[c].note \in Seq(Tx)
    BY ZenonT(60), <2>2, BusyEngaged DEF Engaged, Doing
  <2> DEFINE t == Head(call[c].note)
  <2>4. t \in Tx
    BY ZenonT(60), <2>1, <2>3, HeadTail
  <2>5. \E r \in IF call[c].kind = "connected" THEN Confirmed(t) ELSE Reinserted(t) : pool' = r.pool
    BY ZenonT(60), <1>5 DEF handleBlockchainNotification, PoolStep
  <2> HIDE DEF t
  <2>6. QED
    BY ZenonT(60), <2>4, <2>5, ConfirmedCoherent, ReinsertedCoherent
<1>6. CASE UNCHANGED vars
  BY ZenonT(60), <1>6 DEF vars
<1>7. QED
  BY ZenonT(60), <1>1, <1>2, <1>3, <1>4, <1>5, <1>6 DEF Next

(* For any transactions and blocks, and however the pool's operations, the *)
(* chain's notifications, overlapping calls, failed commits, flushes and   *)
(* disconnects, and crashes interleave: the maps by which the pool finds   *)
(* the spender of an output and the anchor of a funding utxo name exactly  *)
(* its transactions, no two of which conflict, and the orphans stay within *)
(* MaxOrphanTxs.                                                           *)
THEOREM PoolIndexedHolds == Spec => []PoolIndexed
<1> DEFINE PInv == plan \in Plans /\ RInv /\ Coherent(pool)
<1>1. Init => PInv
  BY ZenonT(60), RInit, EmptyCoherent DEF Init, Start
<1>2. PInv /\ [Next]_vars => PInv'
  <2>1. SUFFICES ASSUME PInv, [Next]_vars PROVE PInv'
    BY ZenonT(60)
  <2>2. plan' \in Plans /\ RInv'
    BY ZenonT(60), <2>1, RStepKeeps
  <2>3. Coherent(pool')
    BY ZenonT(60), <2>1, PoolStepKeeps
  <2>4. QED
    BY ZenonT(60), <2>2, <2>3
<1>3. PInv => PoolIndexed
  BY ZenonT(60), CoherentIndexed
<1> HIDE DEF PInv
<1>4. QED
  BY <1>1, <1>2, <1>3, PTL DEF Spec

-----------------------------------------------------------------------------
(* A block at the activation height is final.                              *)

sync == call["sync"]

(* Only the sync manager acts; its record is complete while it does.       *)
Shapes ==
    /\ "rpc" \in DOMAIN used /\ used["rpc"] = 0
    /\ DOMAIN db = Buckets
    /\ DOMAIN call = Callers /\ call["rpc"] = Idle
    /\ tip \in Blocks
    /\ orphans \in Seq(Real)

Working(r) ==
    /\ DOMAIN r = Fields
    /\ r.stage \in {"store", "add", "connect", "reorganize", "disconnect", "commit", "notify",
                    "finish", "orphans"}
    /\ r.after \in {"none", "known", "checked", "switch"}
    /\ r.b \in Real /\ r.detach \in Seq(Real) /\ r.attach \in Seq(Real)

(* The block being committed extends the tip, the one being detached is    *)
(* the tip, and nothing is detached once the tip is final.                 *)
Moves(r, t) ==
    /\ r.stage = "commit" => r.detach = <<>> /\ r.attach # <<>> /\ Parent[Head(r.attach)] = t
    /\ r.stage = "disconnect" => r.detach # <<>> /\ Head(r.detach) = t
    /\ r.detach # <<>> => Height[t] < POSV2Height

(* The stored best block is the tip, or extends it after a sync that       *)
(* failed; then the node waits for a restart.                              *)
StoredBest(d, t, err) == d.best = t \/ (err /\ d.best \in Real /\ Parent[d.best] = t)

Inv ==
    /\ Shapes
    /\ sync = Idle \/ (Working(sync) /\ Moves(sync, tip) /\ ~posErr)
    /\ StoredBest(db, tip, posErr)

IInv == plan \in Plans /\ (plan.rpc = 0 => Inv)

-----------------------------------------------------------------------------
(* The branches of a reorganisation.                                       *)

LEMMA ReorganizeNodesType ==
    ASSUME NEW idx, NEW node \in Blocks, tip \in Blocks
    PROVE  /\ getReorganizeNodes(idx, node).detach \in Seq(Real)
           /\ getReorganizeNodes(idx, node).attach \in Seq(Real)
<1>1. Above(tip, node) \in Seq(Real) /\ Reverse(Above(node, tip)) \in Seq(Real)
  BY ZenonT(60), AboveType, ReverseType
<1>2. <<>> \in Seq(Real)
  OBVIOUS
<1>3. QED
  BY ZenonT(60), <1>1, <1>2 DEF getReorganizeNodes

-----------------------------------------------------------------------------
(* What most steps leave as it is.                                         *)

UsedKept == "rpc" \in DOMAIN used' /\ used'["rpc"] = 0
BestKept == DOMAIN db' = Buckets /\ db'.best = db.best

LEMMA CountKeeps ==
    ASSUME Inv, NEW e, e # "rpc", Count(e)
    PROVE  UsedKept
BY Zenon DEF Inv, Shapes, UsedKept, Count

LEMMA SameUsed ==
    ASSUME Inv, used' = used
    PROVE  UsedKept
BY Zenon DEF Inv, Shapes, UsedKept

LEMMA SameDb ==
    ASSUME Inv, db' = db
    PROVE  BestKept
BY Zenon DEF Inv, Shapes, BestKept

LEMMA FlushIndexKeeps ==
    ASSUME Inv, NEW STATE idx, db' = flushToDB(db, idx)
    PROVE  BestKept
BY Zenon  DEF Inv, Shapes, BestKept, flushToDB, Buckets

(* A step that leaves the calls alone.                                     *)
LEMMA QuietStep ==
    ASSUME Inv, UsedKept, BestKept, UNCHANGED <<tip, posErr, call>>, orphans' \in Seq(Real)
    PROVE  Inv'
BY Zenon  DEF Inv, Shapes, UsedKept, BestKept, sync, StoredBest, Working, Moves

(* A step of the sync manager that leaves the best chain alone.            *)
LEMMA SyncStep ==
    ASSUME Inv, UsedKept, BestKept, UNCHANGED <<tip, posErr>>, orphans' \in Seq(Real),
           DOMAIN call' = Callers, call'["rpc"] = Idle,
           sync' = Idle \/ (Working(sync') /\ Moves(sync', tip) /\ ~posErr)
    PROVE  Inv'
BY Zenon DEF Inv, Shapes, UsedKept, BestKept, sync, StoredBest, Working, Moves

LEMMA ReturnStep ==
    ASSUME Inv, Return("sync")
    PROVE  DOMAIN call' = Callers /\ call'["rpc"] = Idle /\ sync' = Idle
BY Zenon DEF Inv, Shapes, Return, Callers, sync

LEMMA ContinueStep ==
    ASSUME Inv, NEW STATE r, Continue("sync", r)
    PROVE  DOMAIN call' = Callers /\ call'["rpc"] = Idle /\ sync' = r
BY Zenon DEF Inv, Shapes, Continue, Callers, sync

(* Nobody but the sync manager has a step of a call to take.               *)
LEMMA OnlySync ==
    ASSUME Inv, NEW c \in Callers, call[c] # Idle
    PROVE  c = "sync" /\ Working(sync) /\ Moves(sync, tip) /\ ~posErr
BY Zenon DEF Inv, Shapes, Callers, sync

LEMMA BusySync ==
    ASSUME Inv, NEW c \in Callers, NEW stage, stage # "idle", call[c].stage = stage
    PROVE  c = "sync" /\ Working(sync) /\ Moves(sync, tip) /\ ~posErr /\ sync.stage = stage
BY SMTT(60), OnlySync DEF Idle, sync

(* The record of a new call.                                               *)
LEMMA StartedWorks ==
    ASSUME NEW stage \in {"store", "connect"}, NEW b \in Real
    PROVE  Working(Started(stage, b)) /\ \A t : Moves(Started(stage, b), t)
<1>1. <<>> \in Seq(Real)
  OBVIOUS
<1>2. QED
  BY Zenon, <1>1 DEF Working, Moves, Started, Fields

Plain == {"add", "connect", "reorganize", "finish", "orphans"}

(* A call that goes on to another stage, the moves as they were.           *)
LEMMA RestageWorks ==
    ASSUME NEW r, NEW t, Working(r), Moves(r, t), NEW stage \in Plain
    PROVE  Working([r EXCEPT !.stage = stage]) /\ Moves([r EXCEPT !.stage = stage], t)
BY Zenon DEF Working, Moves, Fields, Plain

-----------------------------------------------------------------------------
(* The steps.                                                              *)

LEMMA ProcessBlockKeeps == ASSUME Inv, NEW b \in Real, ProcessBlock(b) PROVE Inv' /\ tip' = tip
<1>1. UsedKept /\ BestKept /\ UNCHANGED <<tip, posErr>> /\ orphans' \in Seq(Real) /\ ~posErr
  BY ZenonT(60), CountKeeps, SameDb DEF ProcessBlock, Inv, Shapes
<1>2. DOMAIN call' = Callers /\ call'["rpc"] = Idle /\ sync' = Started("store", b)
  BY Zenon, ContinueStep DEF ProcessBlock
<1>3. QED
  BY ZenonT(30), <1>1, <1>2, StartedWorks, SyncStep

LEMMA RecoverKeeps == ASSUME Inv, NEW b \in Real, RecoverStoredPOSBlock(b) PROVE Inv' /\ tip' = tip
<1>1. UsedKept /\ BestKept /\ UNCHANGED <<tip, posErr>> /\ orphans' \in Seq(Real) /\ ~posErr
  BY ZenonT(60), CountKeeps, SameDb DEF RecoverStoredPOSBlock, Inv, Shapes
<1>2. DOMAIN call' = Callers /\ call'["rpc"] = Idle /\ sync' = Started("connect", b)
  BY Zenon, ContinueStep DEF RecoverStoredPOSBlock
<1>3. QED
  BY ZenonT(30), <1>1, <1>2, StartedWorks, SyncStep

LEMMA addOrphanKeeps == ASSUME Inv, NEW b \in Real, addOrphanBlock(b) PROVE Inv' /\ tip' = tip
<1>1. UsedKept /\ BestKept /\ UNCHANGED <<tip, posErr, call>>
  BY ZenonT(60), CountKeeps, SameDb DEF addOrphanBlock
<1>2. PICK expired \in 0..Len(orphans) : \E pointer, kept :
        /\ \/ kept \in Without(SubSeq(orphans, expired + 1, Len(orphans)), pointer)
           \/ kept = SubSeq(orphans, expired + 1, Len(orphans))
        /\ orphans' = Append(kept, b)
  BY Zenon  DEF addOrphanBlock
<1>3. PICK pointer, kept :
        /\ \/ kept \in Without(SubSeq(orphans, expired + 1, Len(orphans)), pointer)
           \/ kept = SubSeq(orphans, expired + 1, Len(orphans))
        /\ orphans' = Append(kept, b)
  BY ZenonT(60), <1>2
<1>4. SubSeq(orphans, expired + 1, Len(orphans)) \in Seq(Real)
  BY DEF Inv, Shapes
<1>5. kept \in Seq(Real)
  BY ZenonT(30), <1>3, <1>4, RemoveAtType DEF Without
<1>6. orphans' \in Seq(Real)
  BY SMTT(60), <1>3, <1>5
<1>7. QED
  BY ZenonT(60), <1>1, <1>6, QuietStep

(* The steps that only go on to another stage.                             *)
LEMMA StoreBlockKeeps == ASSUME Inv, NEW c \in Callers, StoreBlock(c) PROVE Inv' /\ tip' = tip
<1>1. c = "sync" /\ Working(sync) /\ Moves(sync, tip) /\ ~posErr
  BY ZenonT(60), BusySync DEF StoreBlock, Busy
<1>2. UsedKept /\ UNCHANGED <<tip, posErr>> /\ orphans' \in Seq(Real)
  BY ZenonT(60), SameUsed DEF StoreBlock, Inv, Shapes
<1>3. BestKept
  BY Zenon DEF StoreBlock, Inv, Shapes, BestKept, Buckets
<1>4. DOMAIN call' = Callers /\ call'["rpc"] = Idle /\ sync' = [sync EXCEPT !.stage = "add"]
  BY ZenonT(60), <1>1, ContinueStep DEF StoreBlock, sync
<1>5. QED
  BY ZenonT(60), <1>1, <1>2, <1>3, <1>4, RestageWorks, SyncStep DEF Plain

LEMMA AddNodeKeeps == ASSUME Inv, NEW c \in Callers, AddNode(c) PROVE Inv' /\ tip' = tip
<1>1. c = "sync" /\ Working(sync) /\ Moves(sync, tip) /\ ~posErr
  BY ZenonT(60), BusySync DEF AddNode, Busy
<1>2. UsedKept /\ UNCHANGED <<tip, posErr>> /\ orphans' \in Seq(Real)
  BY Zenon, SameUsed DEF AddNode, Inv, Shapes
<1>3. BestKept
  BY Zenon DEF AddNode, Inv, Shapes, BestKept, Buckets, flushToDB
<1>4. DOMAIN call' = Callers /\ call'["rpc"] = Idle /\ sync' = [sync EXCEPT !.stage = "connect"]
  BY ZenonT(60), <1>1, ContinueStep DEF AddNode, sync
<1>5. QED
  BY ZenonT(30), <1>1, <1>2, <1>3, <1>4, RestageWorks, SyncStep DEF Plain

LEMMA KeepSideChainKeeps == ASSUME Inv, NEW c \in Callers, KeepSideChain(c) PROVE Inv' /\ tip' = tip
<1>1. c = "sync" /\ Working(sync) /\ Moves(sync, tip) /\ ~posErr
  BY Zenon, BusySync DEF KeepSideChain, Busy
<1>2. UsedKept /\ BestKept /\ UNCHANGED <<tip, posErr>> /\ orphans' \in Seq(Real)
  BY ZenonT(30), SameUsed, SameDb DEF KeepSideChain, Inv, Shapes
<1>3. DOMAIN call' = Callers /\ call'["rpc"] = Idle /\ sync' = [sync EXCEPT !.stage = "finish"]
  BY ZenonT(60), <1>1, ContinueStep DEF KeepSideChain, sync
<1>4. QED
  BY ZenonT(30), <1>1, <1>2, <1>3, RestageWorks, SyncStep DEF Plain

(* A block that extends the tip: one block to attach.                      *)
LEMMA AttachWorks ==
    ASSUME NEW r, NEW t, Working(r), Moves(r, t), NEW after \in {"known", "checked"}
    PROVE  LET s == [r EXCEPT !.stage = "reorganize", !.attach = <<r.b>>, !.after = after]
           IN  Working(s) /\ Moves(s, t)
<1>1. <<r.b>> \in Seq(Real)
  BY DEF Working
<1>2. QED
  BY ZenonT(60), <1>1 DEF Working, Moves, Fields

LEMMA ExtendKnownValidKeeps == ASSUME Inv, NEW c \in Callers, ExtendKnownValid(c) PROVE Inv' /\ tip' = tip
<1>1. c = "sync" /\ Working(sync) /\ Moves(sync, tip) /\ ~posErr
  BY ZenonT(60), BusySync DEF ExtendKnownValid, Busy
<1>2. UsedKept /\ BestKept /\ UNCHANGED <<tip, posErr>> /\ orphans' \in Seq(Real)
  BY ZenonT(60), SameUsed, SameDb DEF ExtendKnownValid, Inv, Shapes
<1>3. /\ DOMAIN call' = Callers /\ call'["rpc"] = Idle
      /\ sync' = [sync EXCEPT !.stage = "reorganize", !.attach = <<sync.b>>, !.after = "known"]
  BY ZenonT(60), <1>1, ContinueStep DEF ExtendKnownValid, sync
<1>4. Working(sync') /\ Moves(sync', tip)
  BY ZenonT(60), <1>1, <1>3, AttachWorks
<1>5. QED
  BY ZenonT(60), <1>1, <1>2, <1>3, <1>4, SyncStep

LEMMA ExtendCheckedKeeps == ASSUME Inv, NEW c \in Callers, ExtendChecked(c) PROVE Inv' /\ tip' = tip
<1>1. c = "sync" /\ Working(sync) /\ Moves(sync, tip) /\ ~posErr
  BY ZenonT(60), BusySync DEF ExtendChecked, Busy
<1>2. UsedKept /\ UNCHANGED <<tip, posErr>> /\ orphans' \in Seq(Real)
  BY ZenonT(60), SameUsed DEF ExtendChecked, Inv, Shapes
<1>3. BestKept
  BY Zenon DEF ExtendChecked, Inv, Shapes, BestKept, Buckets, flushToDB
<1>4. CASE Return("sync")
  BY ZenonT(30), <1>2, <1>3, <1>4, ReturnStep, SyncStep
<1>5. CASE Continue("sync", [sync EXCEPT !.stage = "reorganize", !.attach = <<sync.b>>, !.after = "checked"])
  <2>1. /\ DOMAIN call' = Callers /\ call'["rpc"] = Idle
        /\ sync' = [sync EXCEPT !.stage = "reorganize", !.attach = <<sync.b>>, !.after = "checked"]
    BY ZenonT(60), <1>5, ContinueStep
  <2>2. Working(sync') /\ Moves(sync', tip)
    BY ZenonT(60), <1>1, <2>1, AttachWorks
  <2>3. QED
    BY ZenonT(60), <1>1, <1>2, <1>3, <2>1, <2>2, SyncStep
<1>6. QED
  BY ZenonT(60), <1>1, <1>4, <1>5 DEF ExtendChecked, sync

LEMMA SwitchBranchKeeps == ASSUME Inv, NEW c \in Callers, SwitchBranch(c) PROVE Inv' /\ tip' = tip
<1>1. c = "sync" /\ Working(sync) /\ Moves(sync, tip) /\ ~posErr
  BY ZenonT(60), BusySync DEF SwitchBranch, Busy
<1>2. UsedKept /\ UNCHANGED <<tip, posErr>> /\ orphans' \in Seq(Real)
  BY Zenon, SameUsed DEF SwitchBranch, Inv, Shapes
<1> DEFINE g == getReorganizeNodes(index, sync.b)
<1>3. g.detach \in Seq(Real) /\ g.attach \in Seq(Real)
  BY ZenonT(60), <1>1, ReorganizeNodesType DEF Working, Real, Inv, Shapes
<1>4. Height[tip] < POSV2Height
  BY SMTT(60), HeightAssumption, TreeAssumption DEF SwitchBranch, POSV2Active, Inv, Shapes
<1>5. BeginReorganize("sync", g, "switch")
  BY ZenonT(60), <1>1 DEF SwitchBranch, sync
<1> HIDE DEF g
<1>6. BestKept
  BY ZenonT(60), <1>5 DEF BeginReorganize, Inv, Shapes, BestKept, Buckets, flushToDB
<1> DEFINE r == [sync EXCEPT !.stage = "reorganize", !.detach = g.detach, !.attach = g.attach,
                             !.view = <<>>, !.after = "switch"]
<1>7. CASE Return("sync")
  BY Zenon, <1>2, <1>6, <1>7, ReturnStep, SyncStep
<1>8. CASE Continue("sync", r)
  <2>1. DOMAIN call' = Callers /\ call'["rpc"] = Idle /\ sync' = r
    BY ZenonT(60), <1>8, ContinueStep
  <2>2. Working(r) /\ Moves(r, tip)
    BY ZenonT(60), <1>1, <1>3, <1>4 DEF Working, Moves, Fields
  <2>3. QED
    BY ZenonT(60), <1>1, <1>2, <1>6, <2>1, <2>2, SyncStep
<1>9. QED
  BY ZenonT(30), <1>5, <1>7, <1>8 DEF BeginReorganize, sync

LEMMA PrepareDisconnectKeeps == ASSUME Inv, NEW c \in Callers, PrepareDisconnect(c) PROVE Inv' /\ tip' = tip
<1>1. c = "sync" /\ Working(sync) /\ Moves(sync, tip) /\ ~posErr
  BY ZenonT(60), BusySync DEF PrepareDisconnect, Busy
<1>2. UsedKept /\ UNCHANGED <<tip, posErr>> /\ orphans' \in Seq(Real)
  BY ZenonT(60), SameUsed DEF PrepareDisconnect, Inv, Shapes
<1>3. BestKept
  BY ZenonT(30) DEF PrepareDisconnect, GiveUp, Inv, Shapes, BestKept, Buckets, flushToDB
<1>4. CASE Return("sync")
  BY Zenon, <1>2, <1>3, <1>4, ReturnStep, SyncStep
<1>5. ASSUME NEW STATE v, Head(sync.detach) = tip,
             Continue("sync", [sync EXCEPT !.stage = "disconnect", !.view = v])
      PROVE  Inv' /\ tip' = tip
  <2> DEFINE r == [sync EXCEPT !.stage = "disconnect", !.view = v]
  <2>1. DOMAIN call' = Callers /\ call'["rpc"] = Idle /\ sync' = r
    BY ZenonT(60), <1>5, ContinueStep
  <2>2. Working(r) /\ Moves(r, tip)
    BY ZenonT(60), <1>1, <1>5 DEF Working, Moves, Fields, PrepareDisconnect, sync
  <2>3. QED
    BY ZenonT(30), <1>1, <1>2, <1>3, <2>1, <2>2, SyncStep
<1>6. QED
  BY ZenonT(60), <1>1, <1>4, <1>5 DEF PrepareDisconnect, GiveUp, sync

LEMMA PrepareConnectKeeps == ASSUME Inv, NEW c \in Callers, PrepareConnect(c) PROVE Inv' /\ tip' = tip
<1>1. c = "sync" /\ Working(sync) /\ Moves(sync, tip) /\ ~posErr
  BY ZenonT(60), BusySync DEF PrepareConnect, Busy
<1>2. UsedKept /\ UNCHANGED <<tip, posErr>> /\ orphans' \in Seq(Real)
  BY ZenonT(60), SameUsed DEF PrepareConnect, Inv, Shapes
<1>3. BestKept
  BY ZenonT(60)  DEF PrepareConnect, GiveUp, Inv, Shapes, BestKept, Buckets, flushToDB
<1>4. CASE Return("sync")
  BY Zenon, <1>2, <1>3, <1>4, ReturnStep, SyncStep
<1>5. ASSUME NEW STATE v, Parent[Head(sync.attach)] = tip,
             Continue("sync", [sync EXCEPT !.stage = "commit", !.stxos = v])
      PROVE  Inv' /\ tip' = tip
  <2> DEFINE r == [sync EXCEPT !.stage = "commit", !.stxos = v]
  <2>1. DOMAIN call' = Callers /\ call'["rpc"] = Idle /\ sync' = r
    BY ZenonT(60), <1>5, ContinueStep
  <2>2. Working(r) /\ Moves(r, tip)
    BY ZenonT(60), <1>1, <1>5 DEF Working, Moves, Fields, PrepareConnect, sync
  <2>3. QED
    BY ZenonT(60), <1>1, <1>2, <1>3, <2>1, <2>2, SyncStep
<1>6. QED
  BY ZenonT(30), <1>1, <1>4, <1>5 DEF PrepareConnect, GiveUp, sync

(* A block leaves the best chain, which was not final.                     *)
LEMMA disconnectBlockKeeps ==
    ASSUME Inv, NEW c \in Callers, disconnectBlock(c)
    PROVE  Inv' /\ Height[tip] < POSV2Height
<1>1. c = "sync" /\ Working(sync) /\ Moves(sync, tip) /\ ~posErr /\ sync.stage = "disconnect"
  BY ZenonT(60), BusySync DEF disconnectBlock, Busy
<1>2. sync.detach \in Seq(Real) /\ sync.detach # <<>> /\ Head(sync.detach) = tip /\ tip \in Real
      /\ Height[tip] < POSV2Height
  BY SMTT(60), <1>1 DEF Working, Moves
<1>3. Parent[tip] \in Blocks /\ Height[Parent[tip]] < POSV2Height
  <2>1. Parent[tip] \in Blocks
    BY ZenonT(60), <1>2, TreeAssumption DEF Real
  <2>2. Height[tip] = Height[Parent[tip]] + 1 /\ Height[Parent[tip]] \in Nat /\ POSV2Height \in Nat
    BY ZenonT(30), <1>2, <2>1, TreeAssumption, HeightAssumption DEF Real
  <2>3. QED
    BY SMTT(60), <1>2, <2>1, <2>2
<1>4. tip' = Parent[tip] /\ posErr' = posErr /\ orphans' = orphans /\ UsedKept
  BY ZenonT(60), <1>1, <1>2, SameUsed DEF disconnectBlock, sync
<1>5. DOMAIN db' = Buckets /\ db'.best = Parent[tip]
  BY ZenonT(60), <1>1, <1>2 DEF disconnectBlock, sync, Inv, Shapes, Buckets
<1>6. DOMAIN call' = Callers /\ call'["rpc"] = Idle
  BY ZenonT(60), <1>1 DEF disconnectBlock, Inv, Shapes, Callers
<1>7. /\ DOMAIN sync' = Fields /\ sync'.stage = "notify" /\ sync'.after = sync.after /\ sync'.b = sync.b
      /\ sync'.detach = Tail(sync.detach) /\ sync'.attach = sync.attach
  BY ZenonT(60), <1>1 DEF disconnectBlock, Inv, Shapes, Callers, sync, Working, Fields
<1>8. Working(sync') /\ Moves(sync', tip')
  BY <1>1, <1>2, <1>3, <1>4, <1>7 DEF Working, Moves
<1>9. QED
  BY ZenonT(60), <1>1, <1>2, <1>3, <1>4, <1>5, <1>6, <1>8 DEF Inv, Shapes, UsedKept, StoredBest, sync

(* A block on the tip joins the best chain.                                *)
LEMMA connectBlockKeeps ==
    ASSUME Inv, NEW c \in Callers, connectBlock(c)
    PROVE  Inv' /\ Parent[tip'] = tip
<1>1. c = "sync" /\ Working(sync) /\ Moves(sync, tip) /\ ~posErr /\ sync.stage = "commit"
  BY ZenonT(60), BusySync DEF connectBlock, Busy
<1> DEFINE n == Head(sync.attach)
<1>2. sync.attach \in Seq(Real) /\ sync.attach # <<>> /\ n \in Real /\ sync.detach = <<>> /\ Parent[n] = tip
  BY SMTT(60), <1>1 DEF Working, Moves
<1>3. tip' = n /\ posErr' = posErr /\ orphans' = orphans
  BY ZenonT(60), <1>1 DEF connectBlock, sync
<1>4. UsedKept
  BY Zenon  DEF connectBlock, Inv, Shapes, UsedKept
<1>5. DOMAIN db' = Buckets /\ db'.best = n
  BY ZenonT(60), <1>1 DEF connectBlock, Committed, sync, Inv, Shapes, Buckets
<1>6. DOMAIN call' = Callers /\ call'["rpc"] = Idle
  BY Zenon, SMTT(30), <1>1 DEF connectBlock, Inv, Shapes, Callers
<1>7. /\ DOMAIN sync' = Fields /\ sync'.stage = "notify" /\ sync'.after = sync.after /\ sync'.b = sync.b
      /\ sync'.detach = sync.detach /\ sync'.attach = Tail(sync.attach)
  BY ZenonT(60), <1>1 DEF connectBlock, Inv, Shapes, Callers, sync, Working, Fields
<1>8. Working(sync') /\ Moves(sync', tip')
  BY <1>1, <1>2, <1>3, <1>7 DEF Working, Moves
<1>9. QED
  BY ZenonT(30), <1>1, <1>2, <1>3, <1>4, <1>5, <1>6, <1>8 DEF Inv, Shapes, UsedKept, StoredBest, sync, Real

(* So it does when no notification tells of it.                            *)
LEMMA ConnectUnannouncedKeeps ==
    ASSUME Inv, NEW c \in Callers, ConnectUnannounced(c)
    PROVE  Inv' /\ Parent[tip'] = tip
<1>1. c = "sync" /\ Working(sync) /\ Moves(sync, tip) /\ ~posErr /\ sync.stage = "commit"
  BY ZenonT(60), BusySync DEF ConnectUnannounced, Busy
<1> DEFINE n == Head(sync.attach)
<1>2. n \in Real /\ Parent[n] = tip
  BY SMTT(60), <1>1 DEF Working, Moves
<1>3. tip' = n /\ posErr' = posErr /\ orphans' = orphans /\ UsedKept
  BY ZenonT(60), <1>1, CountKeeps DEF ConnectUnannounced, sync
<1>4. DOMAIN call' = Callers /\ call'["rpc"] = Idle /\ sync' = Idle
  BY ZenonT(60), <1>1, ReturnStep DEF ConnectUnannounced
<1>5. DOMAIN db' = Buckets /\ db'.best = n
  BY ZenonT(60), <1>1 DEF ConnectUnannounced, Committed, sync, Inv, Shapes, Buckets
<1>6. QED
  BY ZenonT(60), <1>2, <1>3, <1>4, <1>5 DEF Inv, Shapes, UsedKept, StoredBest, sync, Real

LEMMA DisconnectFailsKeeps == ASSUME Inv, NEW c \in Callers, DisconnectFails(c) PROVE Inv' /\ tip' = tip
<1>1. c = "sync"
  BY ZenonT(60), BusySync DEF DisconnectFails, Busy
<1>2. UsedKept /\ BestKept /\ UNCHANGED <<tip, posErr>> /\ orphans' \in Seq(Real)
  BY ZenonT(60), CountKeeps, SameDb DEF DisconnectFails, Inv, Shapes
<1>3. QED
  BY ZenonT(60), <1>1, <1>2, ReturnStep, SyncStep DEF DisconnectFails

LEMMA ConnectFailsKeeps == ASSUME Inv, NEW c \in Callers, ConnectFails(c) PROVE Inv' /\ tip' = tip
<1>1. c = "sync" /\ Working(sync) /\ Moves(sync, tip) /\ ~posErr /\ sync.stage = "commit"
  BY ZenonT(60), BusySync DEF ConnectFails, Busy
<1> DEFINE n == Head(sync.attach)
<1>2. n \in Real /\ Parent[n] = tip
  BY SMTT(60), <1>1 DEF Working, Moves
<1>3. UsedKept /\ tip' = tip /\ orphans' = orphans
  BY ZenonT(60), CountKeeps DEF ConnectFails
<1>4. DOMAIN call' = Callers /\ call'["rpc"] = Idle /\ sync' = Idle
  BY ZenonT(30), <1>1, ReturnStep DEF ConnectFails
<1>5. db.best = tip
  BY ZenonT(60), <1>1 DEF Inv, StoredBest
<1>6. DOMAIN db' = Buckets /\ (db'.best = tip \/ (db'.best = n /\ posErr'))
  BY ZenonT(30), <1>1, <1>5 DEF ConnectFails, Committed, sync, Inv, Shapes, Buckets
<1>7. QED
  BY ZenonT(30), <1>2, <1>3, <1>4, <1>6 DEF Inv, Shapes, UsedKept, StoredBest, sync

LEMMA RelockKeeps == ASSUME Inv, NEW c \in Callers, Relock(c) PROVE Inv' /\ tip' = tip
<1>1. c = "sync" /\ Working(sync) /\ Moves(sync, tip) /\ ~posErr
  BY ZenonT(60), BusySync DEF Relock
<1>2. UsedKept /\ BestKept /\ UNCHANGED <<tip, posErr>> /\ orphans' \in Seq(Real)
  BY ZenonT(60), SameUsed, SameDb DEF Relock, Inv, Shapes
<1> DEFINE stage == IF sync.kind = "accepted" THEN "orphans" ELSE "reorganize"
           r == [sync EXCEPT !.stage = stage, !.kind = "none"]
<1>3. DOMAIN call' = Callers /\ call'["rpc"] = Idle /\ sync' = r
  BY ZenonT(60), <1>1, ContinueStep DEF Relock, sync
<1>4. Working(r) /\ Moves(r, tip)
  BY ZenonT(60), <1>1 DEF Working, Moves, Fields
<1>5. QED
  BY ZenonT(60), <1>1, <1>2, <1>3, <1>4, SyncStep

LEMMA ReorganizedKeeps == ASSUME Inv, NEW c \in Callers, Reorganized(c) PROVE Inv' /\ tip' = tip
<1>1. c = "sync" /\ Working(sync) /\ Moves(sync, tip) /\ ~posErr
  BY ZenonT(60), BusySync DEF Reorganized, Busy
<1>2. UsedKept /\ UNCHANGED <<tip, posErr>> /\ orphans' \in Seq(Real)
  BY ZenonT(60), SameUsed DEF Reorganized, Inv, Shapes
<1>3. BestKept
  BY Zenon DEF Reorganized, Inv, Shapes, BestKept, Buckets, flushToDB
<1>4. Return("sync") \/ Continue("sync", [sync EXCEPT !.stage = "finish"])
  BY ZenonT(60), <1>1 DEF Reorganized, Working, sync
<1>5. CASE Return("sync")
  BY Zenon, <1>2, <1>3, <1>5, ReturnStep, SyncStep
<1>6. CASE Continue("sync", [sync EXCEPT !.stage = "finish"])
  <2>1. DOMAIN call' = Callers /\ call'["rpc"] = Idle /\ sync' = [sync EXCEPT !.stage = "finish"]
    BY ZenonT(60), <1>6, ContinueStep
  <2>2. QED
    BY ZenonT(60), <1>1, <1>2, <1>3, <2>1, RestageWorks, SyncStep DEF Plain
<1>7. QED
  BY ZenonT(30), <1>4, <1>5, <1>6

LEMMA FinishAcceptanceKeeps == ASSUME Inv, NEW c \in Callers, FinishAcceptance(c) PROVE Inv' /\ tip' = tip
<1>1. c = "sync" /\ Working(sync) /\ Moves(sync, tip) /\ ~posErr
  BY ZenonT(60), BusySync DEF FinishAcceptance, Busy
<1>2. UsedKept /\ BestKept /\ UNCHANGED <<tip, posErr>> /\ orphans' \in Seq(Real)
  BY ZenonT(30), SameUsed, SameDb DEF FinishAcceptance, Inv, Shapes
<1>3. DOMAIN call' = Callers /\ call'["rpc"] = Idle
  BY ZenonT(60), <1>1 DEF FinishAcceptance, Inv, Shapes, Callers
<1>4. /\ DOMAIN sync' = Fields /\ sync'.stage = "notify" /\ sync'.after = sync.after /\ sync'.b = sync.b
      /\ sync'.detach = sync.detach /\ sync'.attach = sync.attach
  BY ZenonT(60), <1>1 DEF FinishAcceptance, Inv, Shapes, Callers, sync, Working, Fields
<1>5. Working(sync') /\ Moves(sync', tip)
  BY ZenonT(30), SMTT(30), <1>1, <1>4 DEF Working, Moves
<1>6. QED
  BY ZenonT(60), <1>1, <1>2, <1>3, <1>5, SyncStep

LEMMA AcceptedSyncFailsKeeps == ASSUME Inv, NEW c \in Callers, AcceptedSyncFails(c) PROVE Inv' /\ tip' = tip
<1>1. c = "sync" /\ ~posErr
  BY ZenonT(60), BusySync DEF AcceptedSyncFails, Busy
<1>2. UsedKept /\ UNCHANGED <<tip, orphans, db>> /\ posErr'
  BY ZenonT(60), CountKeeps DEF AcceptedSyncFails
<1>3. DOMAIN call' = Callers /\ call'["rpc"] = Idle /\ sync' = Idle
  BY ZenonT(30), <1>1, ReturnStep DEF AcceptedSyncFails
<1>4. QED
  BY ZenonT(30), <1>1, <1>2, <1>3 DEF Inv, Shapes, UsedKept, StoredBest, sync

LEMMA NextOrphanKeeps == ASSUME Inv, NEW c \in Callers, NextOrphan(c) PROVE Inv' /\ tip' = tip
<1>1. c = "sync" /\ Working(sync) /\ Moves(sync, tip) /\ ~posErr
  BY ZenonT(60), BusySync DEF NextOrphan, Busy
<1>2. PICK j \in DOMAIN orphans :
        /\ orphans' = RemoveAt(orphans, j)
        /\ \/ Continue("sync", [Started("store", orphans[j]) EXCEPT !.queue = call["sync"].queue])
           \/ Return("sync")
  BY ZenonT(60), <1>1 DEF NextOrphan, Children
<1>3. orphans[j] \in Real /\ orphans' \in Seq(Real)
  BY SMTT(60), <1>2, RemoveAtType DEF Inv, Shapes
<1>4. UsedKept /\ BestKept /\ UNCHANGED <<tip, posErr>>
  BY ZenonT(60), SameUsed, SameDb DEF NextOrphan
<1>5. CASE Return("sync")
  BY ZenonT(60), <1>3, <1>4, <1>5, ReturnStep, SyncStep
<1>6. CASE Continue("sync", [Started("store", orphans[j]) EXCEPT !.queue = call["sync"].queue])
  <2> DEFINE s == Started("store", orphans[j])
             r == [s EXCEPT !.queue = call["sync"].queue]
  <2>1. DOMAIN call' = Callers /\ call'["rpc"] = Idle /\ sync' = r
    BY ZenonT(60), <1>6, ContinueStep
  <2>2. Working(s) /\ Moves(s, tip)
    BY ZenonT(30), <1>3, StartedWorks
  <2> HIDE DEF s
  <2>3. Working(r) /\ Moves(r, tip)
    BY ZenonT(60), <2>2 DEF Working, Moves, Fields
  <2>4. QED
    BY ZenonT(60), <1>1, <1>3, <1>4, <2>1, <2>3, SyncStep
<1>7. QED
  BY ZenonT(30), <1>2, <1>5, <1>6

(* A restart takes the tip from the database.                              *)
LEMMA CrashKeeps ==
    ASSUME Inv, CrashAndRestart
    PROVE  Inv' /\ (tip' = tip \/ Parent[tip'] = tip)
<1>1. UsedKept
  BY ZenonT(60), SMTT(30), CountKeeps DEF CrashAndRestart
<1>2. tip' = db.best /\ posErr' = FALSE /\ orphans' = <<>> /\ call' = [c \in Callers |-> Idle]
  BY Zenon DEF CrashAndRestart
<1>3. DOMAIN db' = Buckets /\ db'.best = db.best
  <2>1. PICK blocks, k : db' = flushToDB(FlushedInReplay(blocks, k), index')
    BY ZenonT(60) DEF CrashAndRestart
  <2>2. DOMAIN FlushedInReplay(blocks, k) = Buckets /\ FlushedInReplay(blocks, k).best = db.best
    BY ZenonT(60) DEF FlushedInReplay, Inv, Shapes, Buckets
  <2>3. QED
    BY ZenonT(30), SMTT(30), <2>1, <2>2 DEF flushToDB, Buckets
<1>4. <<>> \in Seq(Real) /\ db.best \in Blocks /\ (db.best = tip \/ Parent[db.best] = tip)
  BY SMTT(30) DEF Inv, Shapes, StoredBest, Real
<1>5. QED
  BY ZenonT(60), <1>1, <1>2, <1>3, <1>4 DEF Inv, Shapes, UsedKept, StoredBest, sync, Callers

Extends == tip' = tip \/ Parent[tip'] = tip \/ Height[tip] < POSV2Height

LEMMA CallStepKeeps == ASSUME Inv, NEW c \in Callers, CallStep(c) PROVE Inv' /\ Extends
<1>1. CASE StoreBlock(c)
  BY ZenonT(30), <1>1, StoreBlockKeeps DEF Extends
<1>2. CASE AddNode(c)
  BY ZenonT(60), <1>2, AddNodeKeeps DEF Extends
<1>3. CASE ExtendKnownValid(c)
  BY Zenon, <1>3, ExtendKnownValidKeeps DEF Extends
<1>4. CASE ExtendChecked(c)
  BY Zenon, <1>4, ExtendCheckedKeeps DEF Extends
<1>5. CASE KeepSideChain(c)
  BY Zenon, <1>5, KeepSideChainKeeps DEF Extends
<1>6. CASE SwitchBranch(c)
  BY Zenon, <1>6, SwitchBranchKeeps DEF Extends
<1>7. CASE PrepareDisconnect(c)
  BY Zenon, <1>7, PrepareDisconnectKeeps DEF Extends
<1>8. CASE disconnectBlock(c)
  BY ZenonT(30), <1>8, disconnectBlockKeeps DEF Extends
<1>9. CASE PrepareConnect(c)
  BY Zenon, <1>9, PrepareConnectKeeps DEF Extends
<1>10. CASE connectBlock(c)
  BY ZenonT(60), <1>10, connectBlockKeeps DEF Extends
<1>11. CASE ConnectFails(c)
  BY Zenon, <1>11, ConnectFailsKeeps DEF Extends
<1>12. CASE Relock(c)
  BY Zenon, <1>12, RelockKeeps DEF Extends
<1>13. CASE Reorganized(c)
  BY Zenon, <1>13, ReorganizedKeeps DEF Extends
<1>14. CASE FinishAcceptance(c)
  BY Zenon, <1>14, FinishAcceptanceKeeps DEF Extends
<1>15. CASE AcceptedSyncFails(c)
  BY Zenon, <1>15, AcceptedSyncFailsKeeps DEF Extends
<1>16. CASE NextOrphan(c)
  BY Zenon, <1>16, NextOrphanKeeps DEF Extends
<1>17. CASE NoMoreOrphans(c)
  <2>1. c = "sync"
    BY ZenonT(30), SMTT(30), <1>17, BusySync DEF NoMoreOrphans, Busy
  <2>2. UsedKept /\ BestKept /\ UNCHANGED <<tip, posErr>> /\ orphans' \in Seq(Real)
    BY ZenonT(30), SMTT(30), <1>17, SameUsed, SameDb DEF NoMoreOrphans, Inv, Shapes
  <2>3. QED
    BY ZenonT(30), <1>17, <2>1, <2>2, ReturnStep, SyncStep DEF NoMoreOrphans, Extends
<1>18. CASE ChooseBestTip(c)
  BY ZenonT(30), <1>18, BusySync DEF ChooseBestTip, Busy, Working
<1>19. CASE DisconnectFails(c)
  BY Zenon, <1>19, DisconnectFailsKeeps DEF Extends
<1>20. CASE ConnectUnannounced(c)
  BY ZenonT(60), <1>20, ConnectUnannouncedKeeps DEF Extends
<1>21. QED
  BY ZenonT(60), <1>1, <1>2, <1>3, <1>4, <1>5, <1>6, <1>7, <1>8, <1>9, <1>10, <1>11, <1>12, <1>13, <1>14, <1>15,
     <1>16, <1>17, <1>18, <1>19, <1>20 DEF CallStep

(* The administrator has no call to make.                                  *)
LEMMA NotAdministered ==
    ASSUME Inv, plan.rpc = 0, NEW b
    PROVE  ~InvalidateSide(b) /\ ~InvalidateBest(b) /\ ~ReconsiderBlock(b)
<1>1. ~Allowed("rpc")
  BY SMTT(30) DEF Inv, Shapes, Allowed
<1>2. QED
  BY ZenonT(60), <1>1 DEF InvalidateSide, InvalidateBest, ReconsiderBlock, CanAdminister

LEMMA ChainStepKeeps == ASSUME Inv, plan \in Plans, plan.rpc = 0, ChainStep PROVE Inv' /\ Extends
<1>1. ASSUME NEW b \in plan.tree, ProcessBlock(b) \/ RecoverStoredPOSBlock(b) \/ addOrphanBlock(b)
      PROVE  Inv' /\ Extends
  <2>1. b \in Real
    BY ZenonT(30), PlansAssumption DEF Real
  <2>2. QED
    BY ZenonT(30), <1>1, <2>1, ProcessBlockKeeps, RecoverKeeps, addOrphanKeeps DEF Extends
<1>2. ASSUME NEW o \in plan.users, FetchUtxoEntry(o) PROVE Inv' /\ Extends
  <2>1. UsedKept /\ BestKept /\ UNCHANGED <<tip, posErr, call>> /\ orphans' \in Seq(Real)
    BY ZenonT(30), <1>2, CountKeeps, SameDb DEF FetchUtxoEntry, Inv, Shapes
  <2>2. QED
    BY ZenonT(30), <2>1, QuietStep DEF Extends
<1>3. CASE FlushUtxoCache
  <2>1. UsedKept /\ UNCHANGED <<tip, posErr, call>> /\ orphans' \in Seq(Real)
    BY ZenonT(30), <1>3, CountKeeps DEF FlushUtxoCache, Inv, Shapes
  <2>2. BestKept
    BY ZenonT(60), <1>3 DEF FlushUtxoCache, Inv, Shapes, BestKept, Buckets
  <2>3. QED
    BY ZenonT(30), <2>1, <2>2, QuietStep DEF Extends
<1>4. CASE FlushFails
  <2>1. UsedKept
    BY ZenonT(60), <1>4 DEF FlushFails, Inv, Shapes, UsedKept
  <2>2. BestKept /\ UNCHANGED <<tip, posErr, call>> /\ orphans' \in Seq(Real)
    BY ZenonT(60), <1>4, SameDb DEF FlushFails, Inv, Shapes
  <2>3. QED
    BY ZenonT(60), <2>1, <2>2, QuietStep DEF Extends
<1>5. QED
  BY ZenonT(60), <1>1, <1>2, <1>3, <1>4, CallStepKeeps, NotAdministered DEF ChainStep

(* The pool's notifications are the sync manager's.                        *)
LEMMA NotificationKeeps ==
    ASSUME Inv, NEW c \in Callers, handleBlockchainNotification(c)
    PROVE  Inv' /\ tip' = tip
<1>1. c = "sync" /\ Working(sync) /\ Moves(sync, tip) /\ ~posErr
  BY ZenonT(60), BusySync DEF handleBlockchainNotification
<1>2. UsedKept /\ BestKept /\ UNCHANGED <<tip, posErr>> /\ orphans' \in Seq(Real)
  BY ZenonT(30), SameUsed, SameDb DEF handleBlockchainNotification, Inv, Shapes
<1>3. DOMAIN call' = Callers /\ call'["rpc"] = Idle /\ sync' = [sync EXCEPT !.note = Tail(@)]
  BY ZenonT(60), <1>1 DEF handleBlockchainNotification, Inv, Shapes, Callers, sync
<1>4. Working(sync') /\ Moves(sync', tip)
  BY ZenonT(30), <1>1, <1>3 DEF Working, Moves, Fields
<1>5. QED
  BY ZenonT(30), <1>1, <1>2, <1>3, <1>4, SyncStep

LEMMA NextKeeps == ASSUME Inv, plan \in Plans, plan.rpc = 0, Next PROVE Inv' /\ Extends
<1>1. CASE ChainStep
  BY ZenonT(30), <1>1, ChainStepKeeps
<1>2. CASE CrashAndRestart
  BY ZenonT(30), <1>2, CrashKeeps DEF Extends
<1>3. CASE \E t \in plan.users : handleTxMsg(t) \/ SendRawTransaction(t)
  <2>1. UsedKept /\ BestKept /\ UNCHANGED <<tip, posErr, call>> /\ orphans' \in Seq(Real)
    BY ZenonT(60), <1>3, CountKeeps, SameDb DEF handleTxMsg, SendRawTransaction, Inv, Shapes
  <2>2. QED
    BY ZenonT(30), SMTT(30), <2>1, QuietStep DEF Extends
<1>4. CASE RemoveOrphansByTag
  <2>1. UsedKept /\ BestKept /\ UNCHANGED <<tip, posErr, call>> /\ orphans' \in Seq(Real)
    BY ZenonT(30), <1>4, CountKeeps, SameDb DEF RemoveOrphansByTag, Inv, Shapes
  <2>2. QED
    BY Zenon, <2>1, QuietStep DEF Extends
<1>5. ASSUME NEW c \in Callers, handleBlockchainNotification(c) PROVE Inv' /\ Extends
  BY ZenonT(30), SMTT(30), <1>5, NotificationKeeps DEF Extends
<1>6. QED
  BY ZenonT(30), <1>1, <1>2, <1>3, <1>4, <1>5 DEF Next

LEMMA InitHolds == Init => IInv
<1> SUFFICES ASSUME Init PROVE IInv
  BY ZenonT(60)
<1>1. Shapes
  BY SMTT(60), TreeAssumption DEF Init, Start, Shapes, Buckets, Callers, Real
<1>2. sync = Idle /\ db.best = tip /\ plan \in Plans
  BY Zenon DEF Init, Start, sync, Callers
<1>3. QED
  BY ZenonT(30), <1>1, <1>2 DEF IInv, Inv, StoredBest

Final == Height[tip] >= POSV2Height /\ plan.rpc = 0 => tip' = tip \/ Parent[tip'] = tip

LEMMA StepKeeps == IInv /\ [Next]_vars => IInv' /\ [Final]_vars
<1> SUFFICES ASSUME IInv, [Next]_vars PROVE IInv' /\ [Final]_vars
  BY Zenon
<1>1. CASE Next
  <2>1. plan' = plan
    BY ZenonT(60), <1>1, PlanStays
  <2>2. CASE plan.rpc = 0
    <3>1. Inv' /\ Extends
      BY ZenonT(30), <1>1, <2>2, NextKeeps DEF IInv
    <3>2. Height[tip] \in Nat /\ POSV2Height \in Nat
      BY ZenonT(30), <2>2, TreeAssumption, HeightAssumption DEF IInv, Inv, Shapes
    <3>3. Final
      BY SMTT(30), <3>1, <3>2 DEF Extends, Final
    <3>4. QED
      BY ZenonT(30), <2>1, <3>1, <3>3 DEF IInv
  <2>3. CASE plan.rpc # 0
    BY ZenonT(60), SMTT(30), <2>1, <2>3 DEF IInv, Final
  <2>4. QED
    BY ZenonT(60), <2>2, <2>3
<1>2. CASE UNCHANGED vars
  BY ZenonT(30), <1>2 DEF IInv, Inv, Shapes, sync, Working, Moves, StoredBest, vars, chainVars
<1>3. QED
  BY ZenonT(60), <1>1, <1>2

(* The stored best block is the tip or, after a sync that failed, its      *)
(* child; the block being committed (connectBlock) extends the tip; and    *)
(* nothing is detached (disconnectBlock) from a final tip.                 *)
THEOREM FinalityInvariant == Spec => []IInv
BY InitHolds, StepKeeps, PTL DEF Spec

(* Once the tip is at the activation height, ProcessBlock, branch          *)
(* switches, failed commits and restarts keep it or extend it.             *)
THEOREM Finality == Spec => PosFinal
<1>1. Spec => [][Final]_vars
  BY InitHolds, StepKeeps, PTL DEF Spec
<1>2. QED
  BY ZenonT(60), <1>1 DEF PosFinal, Final
=============================================================================
