------------------------------ MODULE UtxoCache ------------------------------
(***************************************************************************)
(* The two in-memory layers over the stored UTXO set: the cache that       *)
(* connecting a block changes (blockchain/utxocache.go) and the view that  *)
(* validation and disconnecting use (blockchain/utxoviewpoint.go).  Both   *)
(* map outputs to entries; an entry is its height and its flags.  The      *)
(* stored set maps an unspent output to its height.                        *)
(***************************************************************************)
EXTENDS BlockTree

CONSTANT NoEntry      \* a nil entry: the database is known not to hold it

Flags == {"fresh", "modified", "spent"}
Entry(height, flags) == [height |-> height, flags |-> flags]
IsSpent(e) == "spent" \in e.flags
Live(e) == e # NoEntry /\ ~IsSpent(e)

Spend(e) ==
    IF IsSpent(e) THEN e ELSE [e EXCEPT !.flags = @ \cup {"spent", "modified"}]

Drop(f, keys) == [o \in DOMAIN f \ keys |-> f[o]]

(* TLC's @@ and :>, written out for the proofs.                            *)
Overlay(new, old) ==
    [k \in DOMAIN new \cup DOMAIN old |-> IF k \in DOMAIN new THEN new[k] ELSE old[k]]
Put(f, key, value) == Overlay([k \in {key} |-> value], f)

(***************************************************************************)
(* The cache.                                                              *)
(***************************************************************************)
fetchEntries(cache, utxo, outs) ==
    [o \in DOMAIN cache \cup outs |->
        IF o \in DOMAIN cache THEN cache[o]
        ELSE IF o \in DOMAIN utxo THEN Entry(utxo[o], {}) ELSE NoEntry]

(* s is the cache, the heights of the outputs spent so far (the future     *)
(* spend journal row) and whether no input was missing.                    *)
addTxIn(s, utxo, o) ==
    LET SpendIn(c) ==
            IF c[o] = NoEntry THEN [s EXCEPT !.cache = c, !.ok = FALSE]
            ELSE [s EXCEPT !.stxos = (o :> c[o].height) @@ @,
                           !.cache = IF "fresh" \in c[o].flags THEN Drop(c, {o})
                                     ELSE [c EXCEPT ![o] = Spend(@)]]
    IN  IF s.ok THEN SpendIn(fetchEntries(s.cache, utxo, {o})) ELSE s

addTxOuts(s, t, height) ==
    IF ~s.ok THEN s
    ELSE [s EXCEPT !.cache = (t :> Entry(height, {"fresh", "modified"})) @@ @]

connectTransaction(s, utxo, t, height) ==
    addTxOuts(FoldLeft(LAMBDA r, o : addTxIn(r, utxo, o), s, Ins[t]), t, height)

connectTransactions(cache, utxo, b) ==
    FoldLeft(LAMBDA s, t : connectTransaction(s, utxo, t, Height[b]),
             [cache |-> cache, stxos |-> <<>>, ok |-> TRUE], Txs[b])

(* The stored set after every cached entry has been written to it.         *)
Gone(cache) == {o \in DOMAIN cache : ~Live(cache[o])}
Changed(cache) == {o \in DOMAIN cache \ Gone(cache) : "modified" \in cache[o].flags}

writeCache(utxo, cache) ==
    [o \in (DOMAIN utxo \ Gone(cache)) \cup Changed(cache) |->
        IF o \in Changed(cache) THEN cache[o].height ELSE utxo[o]]

(* What a reader of the cache sees: cached entries first, then the store.  *)
Seen(cache, utxo) ==
    [o \in (DOMAIN utxo \ Gone(cache)) \cup (DOMAIN cache \ Gone(cache)) |->
        IF o \in DOMAIN cache THEN cache[o].height ELSE utxo[o]]

(***************************************************************************)
(* The view.                                                               *)
(***************************************************************************)
Before(b, t) ==
    LET i == CHOOSE j \in DOMAIN Txs[b] : Txs[b][j] = t
    IN  {Txs[b][j] : j \in 1..(i - 1)}

InputsOf(b) == UNION {ToSet(Ins[t]) : t \in ToSet(Txs[b])}

(* Inputs made earlier in the same block are added to the view, the others *)
(* are copied from the cache unless the view has them.                     *)
MadeInBlock(b) == UNION {ToSet(Ins[t]) \cap Before(b, t) : t \in ToSet(Txs[b])}

fetchInputUtxos(view, cache, utxo, b) ==
    LET needed == InputsOf(b) \ (MadeInBlock(b) \cup DOMAIN view)
        From(c) == [cache |-> c,
                    view  |-> [o \in needed |-> c[o]]
                              @@ [o \in MadeInBlock(b) |-> Entry(Height[b], {"fresh", "modified"})]
                              @@ view]
    IN  From(fetchEntries(cache, utxo, needed))

(* r is a view, whether no input was nil and whether each was also unspent *)
(* and, if a coinbase's, mature.                                           *)
ViewSpend(r, o, height) ==
    IF ~r.ok THEN r
    ELSE IF r.view[o] = NoEntry THEN [r EXCEPT !.ok = FALSE, !.unspent = FALSE]
    ELSE [view |-> [r.view EXCEPT ![o] = Spend(@)], ok |-> TRUE,
          unspent |-> r.unspent /\ ~IsSpent(r.view[o]) /\ Mature(o, r.view[o].height, height)]

ViewConnectTx(r, t, height) ==
    LET AddOut(s) == IF ~s.ok THEN s
                     ELSE [s EXCEPT !.view = (t :> Entry(height, {"fresh", "modified"})) @@ @]
    IN  AddOut(FoldLeft(LAMBDA s, o : ViewSpend(s, o, height), r, Ins[t]))

viewConnectTransactions(view, b) ==
    FoldLeft(LAMBDA r, t : ViewConnectTx(r, t, Height[b]),
             [view |-> view, ok |-> TRUE, unspent |-> TRUE], Txs[b])

(* Undo b, last transaction first: its outputs become spent, the outputs   *)
(* it spent come back with the height the journal row stxos recorded.      *)
disconnectTransaction(view, t, height, stxos) ==
    LET made == IF t \in DOMAIN view /\ view[t] # NoEntry THEN view[t] ELSE Entry(height, {})
    IN  [o \in ToSet(Ins[t]) |-> Entry(stxos[o], {"modified"})]
        @@ (t :> Spend(made)) @@ view

(* Seeded fault: the first transaction is undone first.                    *)
disconnectTransactionsForward(view, b, stxos) ==
    FoldLeft(LAMBDA v, t : disconnectTransaction(v, t, Height[b], stxos), view, Txs[b])

disconnectTransactions(view, b, stxos) ==
    FoldLeft(LAMBDA v, t : disconnectTransaction(v, t, Height[b], stxos),
             view, Reverse(Txs[b]))

dbPutUtxoView(utxo, view) ==
    LET modified == {o \in DOMAIN view : view[o] # NoEntry /\ "modified" \in view[o].flags}
        spent    == {o \in modified : IsSpent(view[o])}
    IN  [o \in (DOMAIN utxo \cup modified) \ spent |->
            IF o \in modified THEN view[o].height ELSE utxo[o]]

(* The modified flag of what stays is flipped, not cleared.                *)
viewCommit(view) ==
    LET gone == {o \in DOMAIN view :
                    view[o] = NoEntry \/ {"modified", "spent"} \subseteq view[o].flags}
        Flip(flags) == IF "modified" \in flags THEN flags \ {"modified"}
                                               ELSE flags \cup {"modified"}
    IN  [o \in DOMAIN view \ gone |-> [view[o] EXCEPT !.flags = Flip(@)]]
=============================================================================
