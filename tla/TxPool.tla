------------------------------- MODULE TxPool -------------------------------
(***************************************************************************)
(* The transaction pool (mempool/mempool.go, mempool/anchortx.go): its     *)
(* operations as functions of the pool and of the chain as the pool reads  *)
(* it.  Every operation runs under the pool's lock; Go ranges over its     *)
(* maps in any order, so an operation that depends on the order yields the *)
(* set of its outcomes.  Transactions that get here pass the sanity,       *)
(* standardness, script and relay fee checks, and have one size.           *)
(***************************************************************************)
EXTENDS UtxoCache

LOCAL INSTANCE Folds

CONSTANTS
    NullOut,                  \* the outpoint that every anchor transaction names
    Fee,                      \* Fee[t]
    MinFee,                   \* calcMinRequiredTxRelayFee
    Results,                  \* contract Result transactions, made by block execution
    Signals,                  \* transactions with a sequence <= MaxRBFSequence
    MaxOrphanTxs,             \* Policy.MaxOrphanTxs
    MaxReplacementEvictions

(* The null outpoint names no transaction, and orphans are not disabled.   *)
ASSUME PoolAssumption ==
    /\ IsFiniteSet(Tx) /\ NullOut \notin Tx
    /\ Results \subseteq Tx
    /\ MaxOrphanTxs \in Nat \ {0}

(* The main pool, who spends an outpoint, who anchors a funding utxo, and  *)
(* the orphan pool.  orphansByPrev always indexes exactly the orphans.     *)
EmptyPool == [txs |-> {}, outpoints |-> <<>>, anchors |-> <<>>, orphans |-> {}]

(* The outpoints named by the inputs of t.                                 *)
Inputs(t) == IF IsAnchorTx(t) THEN {NullOut} ELSE ToSet(Ins[t])

(* What can be reached from the members of S, themselves included.         *)
Reach(next, S) ==
    LET R[X \in SUBSET Tx] ==
            LET more == X \cup UNION {next[x] : x \in X}
            IN  IF more = X THEN X ELSE R[more]
    IN  R[S]

txDescendants(p, t) ==
    Reach([x \in Tx |-> IF x \in DOMAIN p.outpoints THEN {p.outpoints[x]} ELSE {}], {t}) \ {t}
txAncestors(p, t) == Reach([x \in Tx |-> ToSet(Ins[x]) \cap p.txs], {t}) \ {t}

(***************************************************************************)
(* Adding and removing.                                                    *)
(***************************************************************************)
RemoveAll(p, txs) ==
    LET gone == txs \cap p.txs
    IN  [p EXCEPT !.txs = @ \ gone,
                  !.outpoints = Drop(@, UNION {Inputs(x) : x \in gone}),
                  !.anchors = Drop(@, {l \in DOMAIN p.anchors : p.anchors[l] \in gone})]

removeTransaction(p, t, removeRedeemers) ==
    RemoveAll(p, {t} \cup IF removeRedeemers THEN txDescendants(p, t) ELSE {})

(* Seeded fault: what redeems a removed transaction stays.                 *)
RemoveDoubleSpendsAlone(p, t) ==
    RemoveAll(p, {p.outpoints[o] : o \in Inputs(t) \cap DOMAIN p.outpoints} \ {t})

RemoveDoubleSpends(p, t) ==
    LET redeemers == {p.outpoints[o] : o \in Inputs(t) \cap DOMAIN p.outpoints} \ {t}
    IN  RemoveAll(p, redeemers \cup UNION {txDescendants(p, r) : r \in redeemers})

addTransaction(p, t) ==
    [p EXCEPT !.txs = @ \cup {t},
              !.outpoints = Overlay([o \in Inputs(t) |-> t], @),
              !.anchors = IF IsAnchorTx(t) THEN Put(@, Funding[t], t) ELSE @]

(* Orphans go alone, or with the orphans that redeem them.                 *)
RemoveOrphan(p, t) == [p EXCEPT !.orphans = @ \ {t}]
removeOrphans(p, txs) ==
    [p EXCEPT !.orphans = @ \ Reach([x \in Tx |-> {o \in p.orphans : x \in ToSet(Ins[o])}],
                                    txs \cap p.orphans)]

removeOrphanDoubleSpends(p, txs) ==
    removeOrphans(p, {o \in p.orphans : \E t \in txs : Inputs(o) \cap Inputs(t) # {}})

(* The expired orphans go first, then one at random if there is no room.   *)
addOrphan(p, t) ==
    LET Limit(q) == IF Cardinality(q.orphans) + 1 <= MaxOrphanTxs THEN {q}
                    ELSE {RemoveOrphan(q, o) : o \in q.orphans}
    IN  {[q EXCEPT !.orphans = @ \cup {t}] :
            q \in UNION {Limit(removeOrphans(p, expired)) : expired \in SUBSET p.orphans}}

(***************************************************************************)
(* Acceptance.                                                             *)
(***************************************************************************)
signalsReplacement(p, t) == ({t} \cup txAncestors(p, t)) \cap Signals # {}

txConflicts(p, t) ==
    LET direct == {p.outpoints[o] : o \in Inputs(t) \cap DOMAIN p.outpoints}
    IN  direct \cup UNION {txDescendants(p, d) : d \in direct}

validateReplacement(p, t) ==
    LET conflicts == txConflicts(p, t)
        conflictsFee == MapThenFoldSet(+, 0, LAMBDA x : Fee[x], LAMBDA S : CHOOSE x \in S : TRUE, conflicts)
    IN  /\ Cardinality(conflicts) <= MaxReplacementEvictions
        /\ txAncestors(p, t) \cap conflicts = {}
        /\ \A x \in conflicts : Fee[t] > Fee[x]
        /\ Fee[t] >= conflictsFee + MinFee
        /\ ToSet(Ins[t]) \cap p.txs \subseteq UNION {Inputs(x) : x \in conflicts}

(* The checks, in their order, on a pool and the cache it reads the chain  *)
(* through; chain is what the database holds and the height of the next    *)
(* block.                                                                  *)
checkMempoolAcceptance(p, cache, chain, t, rejectDupOrphans) ==
    LET early == \/ t \in p.txs
                 \/ rejectDupOrphans /\ t \in p.orphans
                 \/ t \in Coinbases \cup Results
                 \/ IsAnchorTx(t) /\ Funding[t] \in DOMAIN chain.anchors \cup DOMAIN p.anchors
                 \/ /\ ~IsAnchorTx(t)
                    /\ \E o \in Inputs(t) \cap DOMAIN p.outpoints :
                           ~signalsReplacement(p, p.outpoints[o])
        view == fetchEntries(cache, chain.utxo, {t} \cup ToSet(Ins[t]))
        missing == {o \in ToSet(Ins[t]) : ~Live(view[o]) /\ o \notin p.txs}
        immature == {o \in ToSet(Ins[t]) : Live(view[o]) /\ ~Mature(o, view[o].height, chain.next)}
        replacement == ~IsAnchorTx(t) /\ Inputs(t) \cap DOMAIN p.outpoints # {}
    IN  [cache |-> IF early THEN cache ELSE view,
         conflicts |-> IF IsAnchorTx(t) THEN {} ELSE txConflicts(p, t),
         verdict |-> IF early \/ (~IsAnchorTx(t) /\ Live(view[t])) THEN "refused"
                     ELSE IF missing # {} THEN "missing"
                     ELSE IF immature # {} THEN "refused"
                     ELSE IF replacement /\ ~validateReplacement(p, t) THEN "refused"
                     ELSE "accepted"]

maybeAcceptTransaction(p, cache, chain, t, rejectDupOrphans) ==
    LET Apply(r) ==
            [verdict |-> r.verdict,
             cache   |-> r.cache,
             pool    |-> IF r.verdict = "accepted"
                         THEN addTransaction(RemoveAll(p, r.conflicts), t) ELSE p]
    IN  Apply(checkMempoolAcceptance(p, cache, chain, t, rejectDupOrphans))

(* One turn of processOrphans: the orphans that redeem the item's output   *)
(* are tried until one is accepted, which is the next item, or refused.    *)
(* The ones still missing something stay.  An empty item ends it.          *)
OrphanTurn(s, chain) ==
    LET redeemers == {o \in s.pool.orphans : \E t \in s.item : t \in ToSet(Ins[o])}
        After(o, r) ==
            IF r.verdict = "refused"
            THEN [s EXCEPT !.item = {}, !.cache = r.cache, !.pool = removeOrphans(@, {o})]
            ELSE [item |-> {o}, done |-> s.done \cup {o}, cache |-> r.cache,
                  pool |-> RemoveOrphan(r.pool, o)]
        looked    == UNION {{o} \cup ToSet(Ins[o]) : o \in redeemers}
        Ends(try) ==
            LET decided == {o \in redeemers : try[o].verdict # "missing"}
            IN  IF decided # {} THEN {After(o, try[o]) : o \in decided}
                ELSE {[s EXCEPT !.item = {}, !.cache = fetchEntries(@, chain.utxo, looked)]}
    IN  Ends([o \in redeemers |-> maybeAcceptTransaction(s.pool, s.cache, chain, o, FALSE)])

processOrphans(p, cache, chain, t) ==
    LET start == [item |-> {t}, done |-> {t}, cache |-> cache, pool |-> p]
        ends  == FoldLeft(LAMBDA S, i : UNION {OrphanTurn(s, chain) : s \in S},
                          {start}, [i \in 1..(Cardinality(Tx) + 1) |-> i])
    IN  {[cache |-> s.cache, pool |-> removeOrphanDoubleSpends(s.pool, s.done)] : s \in ends}

ProcessTransaction(p, cache, chain, t, allowOrphan) ==
    LET After(r) ==
            IF r.verdict = "accepted" THEN processOrphans(r.pool, r.cache, chain, t)
            ELSE {[cache |-> r.cache, pool |-> q] :
                     q \in IF r.verdict = "missing" /\ allowOrphan THEN addOrphan(p, t) ELSE {p}}
    IN  After(maybeAcceptTransaction(p, cache, chain, t, TRUE))
=============================================================================
