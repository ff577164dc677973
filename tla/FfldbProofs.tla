---------------------------- MODULE FfldbProofs ----------------------------
(***************************************************************************)
(* The database implements DurableStore, and keeps the blocks its index    *)
(* names: for any keys, blocks, file sizes, transactions and numbers of    *)
(* flushes, failures and crashes.                                          *)
(***************************************************************************)
EXTENDS Ffldb, WellFoundedInduction, TLAPS

Listed(seq) == {seq[i] : i \in DOMAIN seq}

Transactions ==
    [stage: {"idle", "write", "sync", "ldb", "clear", "direct", "closed"},
     why: {"none", "commit", "sync", "close"}, puts: Rows, dels: SUBSET Items, left: Seq(Blocks),
     stored: SUBSET Blocks, drop: SUBSET FileNums, old: Locations]

TypeOK ==
    /\ ldb \in Rows /\ puts \in Rows /\ dels \in SUBSET Items
    /\ wc \in [num: Nat, off: Nat, open: BOOLEAN]
    /\ tx \in Transactions

(* The cursor row is never removed, and holds a location.                  *)
CursorKept(m, d) == m[Cursor] \in Locations \cup {Absent} /\ Cursor \notin d

(* The transaction has an index row for each block it has written, and     *)
(* will have one for each that is left.                                    *)
RowsFollowBlocks(t) ==
    /\ \A b \in Blocks : b \in t.stored <=> t.puts[b] # Absent \/ b \in Listed(t.left)
    /\ t.stored \cap t.dels = {}

Stages(t) ==
    /\ t.stage \in {"sync", "ldb", "clear", "direct"} => t.left = <<>> /\ t.why # "none"
    /\ t.stage \in {"write", "direct"} => t.why = "commit"

(* Where a flush is: leveldb has what the cache adds once it is committed, *)
(* and the cache is empty when the transaction is.                         *)
FlushOrder ==
    /\ Holds("clear") => \A i \in Items : ldb[i] = Current[i]
    /\ Holds("direct") => CacheEmpty

IInv ==
    /\ TypeOK
    /\ ldb[Cursor] \in Locations /\ CursorKept(puts, dels) /\ CursorKept(tx.puts, tx.dels)
    /\ RowsFollowBlocks(tx)
    /\ Stages(tx)
    /\ FlushOrder

-----------------------------------------------------------------------------
(* What Overlay does.                                                      *)

LEMMA OverlayType ==
    ASSUME NEW m \in Rows, NEW p \in Rows, NEW d
    PROVE  Overlay(m, p, d) \in Rows
BY Zenon DEF Overlay, Rows

LEMMA OverlayNothing ==
    ASSUME NEW m \in Rows
    PROVE  Overlay(m, Nothing, {}) = m
BY Zenon DEF Overlay, Rows, Nothing

(* What the cache added stays as it is when it is added once more.         *)
LEMMA OverlayTwice ==
    ASSUME NEW m \in Rows, NEW p \in Rows, NEW d
    PROVE  Overlay(Overlay(m, p, d), p, d) = Overlay(m, p, d)
BY Zenon DEF Overlay, Rows

(* commitTx: the transaction over the cache over leveldb is the merged     *)
(* cache over leveldb.                                                     *)
LEMMA OverlayMerge ==
    ASSUME NEW p \in Rows, NEW d \in SUBSET Items, ldb \in Rows, puts \in Rows
    PROVE  Overlay(ldb, Overlay(puts, p, d), CachedRemove(p, d)) = Overlay(Current, p, d)
BY Zenon DEF Overlay, Rows, Current, CachedRemove

LEMMA ListedTail ==
    ASSUME NEW S, NEW s \in Seq(S), s # <<>>
    PROVE  Tail(s) \in Seq(S) /\ Listed(s) = {Head(s)} \cup Listed(Tail(s))
<1>1. /\ Tail(s) \in Seq(S) /\ Len(Tail(s)) = Len(s) - 1 /\ Len(s) \in Nat \ {0}
      /\ DOMAIN s = 1..Len(s) /\ DOMAIN Tail(s) = 1..Len(Tail(s)) /\ Head(s) = s[1]
  OBVIOUS
<1>2. \A i \in 1..(Len(s) - 1) : Tail(s)[i] = s[i + 1]
  OBVIOUS
<1>3. ASSUME NEW x \in Listed(s) PROVE x \in {Head(s)} \cup Listed(Tail(s))
  <2>1. PICK i \in 1..Len(s) : x = s[i]
    BY Zenon, <1>1 DEF Listed
  <2>2. CASE i = 1
    BY Zenon, <1>1, <2>1, <2>2
  <2>3. CASE i # 1
    <3>1. i - 1 \in 1..(Len(s) - 1) /\ Tail(s)[i - 1] = s[(i - 1) + 1] /\ (i - 1) + 1 = i
      BY <1>1, <1>2, <2>3
    <3>2. QED
      BY Zenon, <1>1, <2>1, <3>1 DEF Listed
  <2>4. QED
    BY Zenon, <2>2, <2>3
<1>4. ASSUME NEW x \in {Head(s)} \cup Listed(Tail(s)) PROVE x \in Listed(s)
  <2>1. CASE x = Head(s)
    BY <1>1, <2>1 DEF Listed
  <2>2. CASE x \in Listed(Tail(s))
    <3>1. PICK i \in 1..(Len(s) - 1) : x = Tail(s)[i]
      BY Zenon, <1>1, <2>2 DEF Listed
    <3>2. i + 1 \in 1..Len(s) /\ x = s[i + 1]
      BY <1>1, <1>2, <3>1
    <3>3. QED
      BY Zenon, <1>1, <3>2 DEF Listed
  <2>3. QED
    BY Zenon, <1>4, <2>1, <2>2
<1>5. QED
  BY Zenon, <1>1, <1>3, <1>4

LEMMA NothingType == Nothing \in Rows
BY Zenon DEF Rows, Nothing

LEMMA CurrentType ==
    ASSUME ldb \in Rows, puts \in Rows
    PROVE  Current \in Rows
BY Zenon, OverlayType DEF Current

LEMMA WithCursorType ==
    ASSUME tx \in Transactions, wc \in [num: Nat, off: Nat, open: BOOLEAN]
    PROVE  /\ WithCursor \in Rows /\ WithCursor[Cursor] \in Locations
           /\ \A i \in Items \ {Cursor} : WithCursor[i] = tx.puts[i]
BY Zenon DEF WithCursor, Transactions, Rows, Location, Locations, Items

LEMMA BegunType ==
    ASSUME NEW stage \in {"idle", "write", "sync"}, NEW why \in {"none", "commit", "sync", "close"},
           NEW old \in Locations
    PROVE  Begun(stage, why, old) \in Transactions
<1>1. <<>> \in Seq(Blocks)
  OBVIOUS
<1>2. QED
  BY Zenon, <1>1, NothingType DEF Begun, Transactions

LEMMA IdleIsType ==
    /\ Idle \in Transactions /\ CursorKept(Idle.puts, Idle.dels) /\ RowsFollowBlocks(Idle)
    /\ Stages(Idle) /\ Idle.stage = "idle"
<1>1. Idle \in Transactions
  BY NothingType DEF Idle, Begun, Transactions, Location, Locations
<1>2. CursorKept(Idle.puts, Idle.dels)
  BY Zenon DEF Idle, Begun, CursorKept, Nothing, Items
<1>3. RowsFollowBlocks(Idle)
  BY DEF Idle, Begun, RowsFollowBlocks, Nothing, Items, Listed
<1>4. QED
  BY Zenon, <1>1, <1>2, <1>3 DEF Stages, Idle, Begun

(* A rollback leaves the cursor where it was told to.                      *)
LEMMA RollbackType ==
    ASSUME NEW f, NEW d, NEW w, w.open \in BOOLEAN, NEW old \in Locations,
           handleRollback(f, d, w, old)
    PROVE  wc' \in [num: Nat, off: Nat, open: BOOLEAN]
<1>1. \E isOpen \in BOOLEAN : wc' = [num |-> old.num, off |-> old.off, open |-> isOpen]
  BY Zenon  DEF handleRollback, RollbackFails, RollbackEnds
<1>2. QED
  BY <1>1 DEF Locations

LEMMA InitHolds == Init => IInv
<1> SUFFICES ASSUME Init PROVE IInv
  BY Zenon
<1>1. ldb \in Rows /\ ldb[Cursor] \in Locations
  BY Zenon, NothingType DEF Init, Rows, Location, Locations, Items
<1>2. puts \in Rows /\ CursorKept(puts, dels) /\ dels \in SUBSET Items
  BY Zenon, NothingType DEF Init, CursorKept, Nothing, Items
<1>3. wc \in [num: Nat, off: Nat, open: BOOLEAN]
  BY Zenon DEF Init
<1>4. tx = Idle
  BY Zenon DEF Init
<1>5. QED
  BY Zenon, <1>1, <1>2, <1>3, <1>4, IdleIsType DEF IInv, TypeOK, FlushOrder, Holds

(* Whoever ends the transaction and leaves the rest valid keeps IInv.      *)
LEMMA ReturnKeeps ==
    ASSUME IInv, tx' = Idle, ldb' \in Rows, ldb'[Cursor] \in Locations,
           puts' \in Rows, dels' \in SUBSET Items, CursorKept(puts, dels)',
           wc' \in [num: Nat, off: Nat, open: BOOLEAN]
    PROVE  IInv'
BY Zenon, IdleIsType DEF IInv, TypeOK, FlushOrder, Holds

(* Whoever moves the transaction on, and touches neither leveldb nor the   *)
(* cache, has only the transaction to account for.                         *)
LEMMA StepKeeps ==
    ASSUME IInv, UNCHANGED <<ldb, puts, dels>>, wc' \in [num: Nat, off: Nat, open: BOOLEAN],
           tx' \in Transactions, CursorKept(tx.puts, tx.dels)', RowsFollowBlocks(tx'), Stages(tx'),
           tx'.stage # "clear", tx'.stage = "direct" => CacheEmpty
    PROVE  IInv'
BY Zenon DEF IInv, TypeOK, FlushOrder, Holds, CursorKept, CacheEmpty

(* Likewise with only the stage changed, to one that keeps the order.      *)
LEMMA StageKeeps ==
    ASSUME IInv, UNCHANGED <<ldb, puts, dels, wc>>,
           NEW stage \in {"write", "sync", "ldb", "direct", "closed"}, Step(stage),
           stage \in {"write", "direct"} => tx.why = "commit",
           tx.left = <<>>, tx.why # "none", stage = "direct" => CacheEmpty
    PROVE  IInv'
<1>1. tx' \in Transactions /\ tx'.stage = stage
  BY Zenon DEF IInv, TypeOK, Transactions, Step
<1>2. tx'.puts = tx.puts /\ tx'.dels = tx.dels /\ tx'.stored = tx.stored /\ tx'.left = tx.left
      /\ tx'.why = tx.why
  BY Zenon DEF IInv, TypeOK, Transactions, Step
<1>3. RowsFollowBlocks(tx') /\ CursorKept(tx.puts, tx.dels)'
  BY Zenon, <1>2 DEF IInv, RowsFollowBlocks, CursorKept
<1>4. Stages(tx')
  BY Zenon, <1>1, <1>2 DEF Stages
<1>5. QED
  BY Zenon, <1>1, <1>3, <1>4, StepKeeps DEF IInv, TypeOK

LEMMA UpdateKeeps == ASSUME IInv, NEW s \in Scripts, Update(s) PROVE IInv'
<1> DEFINE drop == IF s.prune THEN PrunedFiles ELSE {}
           rows == UNION {Stored(Current, n) : n \in drop}
<1>1. /\ s.puts \in Rows /\ \A i \in Blocks \cup {Cursor} : s.puts[i] = Absent
      /\ s.dels \subseteq Keys /\ s.blocks \in Seq(Blocks)
  BY Zenon, FfldbAssumption
<1>2. drop \in SUBSET FileNums
  BY Zenon DEF PrunedFiles
<1>3. rows \in SUBSET Blocks /\ \A b \in rows : Current[b] # Absent
  BY Zenon DEF Stored
<1>4. tx' = [stage |-> "write", why |-> "commit", puts |-> s.puts, dels |-> s.dels \cup rows,
             left |-> s.blocks, stored |-> Listed(s.blocks), drop |-> drop,
             old |-> Location(wc.num, wc.off)]
  BY Zenon  DEF Update, Started, Begun, Listed
<1>5. Listed(s.blocks) \in SUBSET Blocks /\ \A b \in Listed(s.blocks) : Current[b] = Absent
  BY <1>1 DEF Update, Listed
<1> HIDE DEF drop, rows
<1>6. tx' \in Transactions
  BY Zenon, <1>1, <1>2, <1>3, <1>4, <1>5 DEF Transactions, Items, Location, Locations, IInv, TypeOK
<1>7. CursorKept(tx.puts, tx.dels)'
  BY Zenon, <1>1, <1>3, <1>4, FfldbAssumption DEF CursorKept
<1>8. RowsFollowBlocks(tx')
  <2>1. Listed(s.blocks) \cap (s.dels \cup rows) = {}
    BY Zenon, <1>1, <1>3, <1>5, FfldbAssumption
  <2>2. QED
    BY Zenon, <1>1, <1>4, <2>1 DEF RowsFollowBlocks
<1>9. Stages(tx')
  BY Zenon, <1>4 DEF Stages
<1>10. UNCHANGED <<ldb, puts, dels>> /\ wc' = wc
  BY Zenon DEF Update, metaVars, fileVars
<1>11. QED
  BY Zenon, <1>4, <1>6, <1>7, <1>8, <1>9, <1>10, StepKeeps DEF IInv, TypeOK

LEMMA writeBlockKeeps == ASSUME IInv, writeBlock PROVE IInv'
<1> DEFINE b == Head(tx.left)
           at == Target(b)
<1>1. b \in Blocks /\ tx.left \in Seq(Blocks) /\ tx.left # <<>> /\ b \in Items
  BY DEF writeBlock, IInv, TypeOK, Transactions, Items
<1>2. at \in Locations
  BY <1>1, FfldbAssumption DEF Target, Location, Locations, IInv, TypeOK
<1>3. Tail(tx.left) \in Seq(Blocks) /\ Listed(tx.left) = {b} \cup Listed(Tail(tx.left))
  BY Zenon, <1>1, ListedTail
<1>4. tx' = [tx EXCEPT !.left = Tail(@), !.puts[b] = at]
  BY Zenon DEF writeBlock
<1> HIDE DEF b, at
<1>5. /\ tx'.left = Tail(tx.left) /\ tx'.puts = [tx.puts EXCEPT ![b] = at]
      /\ tx'.dels = tx.dels /\ tx'.stored = tx.stored /\ tx'.stage = tx.stage /\ tx'.why = tx.why
      /\ tx'.drop = tx.drop /\ tx'.old = tx.old
  BY Zenon, <1>4 DEF IInv, TypeOK, Transactions
<1>6. tx'.puts \in Rows
  BY ZenonT(60), <1>1, <1>2, <1>5 DEF IInv, TypeOK, Transactions, Rows
<1>7. tx' \in Transactions
  BY Zenon, <1>3, <1>4, <1>6 DEF IInv, TypeOK, Transactions
<1>8. RowsFollowBlocks(tx')
  <2>1. at # Absent
    BY Zenon, <1>2, FfldbAssumption
  <2>2. \A c \in Blocks : tx'.puts[c] = IF c = b THEN at ELSE tx.puts[c]
    BY Zenon, <1>5 DEF IInv, TypeOK, Transactions, Rows, Items
  <2>3. QED
    BY Zenon, <1>1, <1>3, <1>5, <2>1, <2>2 DEF IInv, RowsFollowBlocks
<1>9. CursorKept(tx.puts, tx.dels)'
  <2>1. tx'.puts[Cursor] = tx.puts[Cursor]
    BY Zenon, <1>1, <1>5, FfldbAssumption DEF IInv, TypeOK, Transactions, Rows, Items
  <2>2. QED
    BY Zenon, <1>5, <2>1 DEF IInv, CursorKept
<1>10. Stages(tx') /\ tx'.stage = "write"
  BY ZenonT(60), <1>5 DEF Stages, IInv, writeBlock, Holds
<1>11. wc' \in [num: Nat, off: Nat, open: BOOLEAN]
  BY SMTT(60), <1>1, <1>2, FfldbAssumption DEF writeBlock, Locations, b, at
<1>12. UNCHANGED <<ldb, puts, dels>>
  BY Zenon DEF writeBlock, metaVars
<1>13. QED
  BY ZenonT(60), <1>7, <1>8, <1>9, <1>10, <1>11, <1>12, StepKeeps

LEMMA DeleteFileKeeps == ASSUME IInv, DeleteFile PROVE IInv'
<1>1. PICK n : tx' = [tx EXCEPT !.drop = @ \ {n}]
  BY Zenon  DEF DeleteFile
<1>2. tx' \in Transactions
  BY Zenon, <1>1 DEF IInv, TypeOK, Transactions
<1>3. /\ tx'.left = tx.left /\ tx'.puts = tx.puts /\ tx'.dels = tx.dels /\ tx'.stored = tx.stored
      /\ tx'.stage = tx.stage /\ tx'.why = tx.why
  BY Zenon, <1>1 DEF IInv, TypeOK, Transactions
<1>4. CursorKept(tx.puts, tx.dels)' /\ RowsFollowBlocks(tx') /\ Stages(tx') /\ tx'.stage = "write"
  BY Zenon, <1>3 DEF IInv, CursorKept, RowsFollowBlocks, Stages, DeleteFile, Holds
<1>5. UNCHANGED <<ldb, puts, dels>> /\ wc' = wc
  BY Zenon DEF DeleteFile, metaVars
<1>6. QED
  BY Zenon, <1>2, <1>4, <1>5, StepKeeps DEF IInv, TypeOK

LEMMA writeBlockFailsKeeps == ASSUME IInv, writeBlockFails PROVE IInv'
<1>1. tx.old \in Locations
  BY Zenon DEF IInv, TypeOK, Transactions
<1> DEFINE b  == Head(tx.left)
           at == Target(b)
           f  == openWriteFile(file, at.num)
           w(n, opens) == IF opens THEN [num |-> at.num, off |-> at.off + n, open |-> TRUE]
                          ELSE [num |-> at.num, off |-> at.off, open |-> FALSE]
           g(n, opens) == IF opens THEN [f EXCEPT ![at.num] = WriteAt(@, at.off, SubSeq(Record(b), 1, n))]
                          ELSE file
<1>2. PICK n \in 0..(Size[Head(tx.left)] - 1), opens \in BOOLEAN :
         handleRollback(g(n, opens), disk, w(n, opens), tx.old)
  BY Zenon  DEF writeBlockFails
<1>3. wc' \in [num: Nat, off: Nat, open: BOOLEAN]
  <2>1. w(n, opens).open \in BOOLEAN
    BY Zenon, SMTT(30)
  <2> HIDE DEF w, g
  <2>2. QED
    BY <1>1, <1>2, <2>1, RollbackType
<1>4. tx' = Idle /\ UNCHANGED <<ldb, puts, dels>>
  BY Zenon DEF writeBlockFails, Return, metaVars
<1>5. QED
  BY Zenon, <1>3, <1>4, ReturnKeeps DEF IInv, TypeOK, CursorKept

LEMMA commitTxKeeps == ASSUME IInv, commitTx PROVE IInv'
<1>1. WithCursor \in Rows /\ WithCursor[Cursor] \in Locations
  BY Zenon, WithCursorType DEF IInv, TypeOK
<1>2. puts' \in Rows
  BY Zenon, <1>1, OverlayType DEF commitTx, IInv, TypeOK
<1>3. dels' \in SUBSET Items
  BY Zenon DEF commitTx, CachedRemove, IInv, TypeOK, Transactions
<1>4. CursorKept(puts, dels)'
  BY Zenon, <1>1 DEF commitTx, CachedRemove, CursorKept, IInv, Overlay, Items
<1>5. tx' = Idle /\ ldb' = ldb /\ wc' = wc
  BY Zenon DEF commitTx, Return, fileVars
<1>6. QED
  BY Zenon, <1>2, <1>3, <1>4, <1>5, ReturnKeeps DEF IInv, TypeOK

LEMMA needsFlushKeeps == ASSUME IInv, needsFlush PROVE IInv'
<1>1. /\ WithCursor \in Rows /\ WithCursor[Cursor] \in Locations
      /\ \A b \in Blocks : WithCursor[b] = tx.puts[b]
  BY Zenon, WithCursorType, FfldbAssumption DEF IInv, TypeOK, Items
<1>2. /\ tx'.left = <<>> /\ tx.left = <<>> /\ tx'.puts = WithCursor /\ tx'.dels = tx.dels
      /\ tx'.stored = tx.stored /\ tx'.stage = "sync" /\ tx'.why = "commit"
  BY Zenon DEF IInv, TypeOK, Transactions, needsFlush, Stages, Holds
<1>3. tx' \in Transactions
  BY Zenon, <1>1 DEF IInv, TypeOK, Transactions, needsFlush
<1>4. CursorKept(tx.puts, tx.dels)'
  BY Zenon, <1>1, <1>2 DEF CursorKept, IInv
<1>5. RowsFollowBlocks(tx') /\ Stages(tx')
  BY Zenon, <1>1, <1>2 DEF RowsFollowBlocks, Stages, IInv
<1>6. UNCHANGED <<ldb, puts, dels>> /\ wc' = wc
  BY Zenon DEF needsFlush, metaVars, fileVars
<1>7. QED
  BY Zenon, <1>2, <1>3, <1>4, <1>5, <1>6, StepKeeps DEF IInv, TypeOK

(* Sync and Close take the lock with nothing to commit.                    *)
LEMMA StartKeeps ==
    ASSUME IInv, NEW why \in {"sync", "close"}, tx' = Started("sync", why),
           UNCHANGED <<ldb, puts, dels, wc>>
    PROVE  IInv'
<1>1. tx' = [stage |-> "sync", why |-> why, puts |-> Nothing, dels |-> {}, left |-> <<>>,
             stored |-> {}, drop |-> {}, old |-> Location(wc.num, wc.off)]
  BY Zenon DEF Started, Begun
<1>2. tx' \in Transactions
  <2>1. Location(wc.num, wc.off) \in Locations
    BY Zenon DEF Location, Locations, IInv, TypeOK
  <2>2. QED
    BY Zenon, <2>1, BegunType DEF Started
<1>3. CursorKept(tx.puts, tx.dels)' /\ tx'.stage = "sync" /\ Stages(tx')
  BY <1>1 DEF CursorKept, Stages, Nothing, Items
<1>4. RowsFollowBlocks(tx')
  BY <1>1 DEF RowsFollowBlocks, Listed, Nothing, Items
<1>5. QED
  BY Zenon, <1>2, <1>3, <1>4, StepKeeps DEF IInv, TypeOK

LEMMA openDBKeeps == ASSUME IInv, NEW f, NEW d, openDB(f, d) PROVE IInv'
<1>1. ldb[Cursor] \in Locations
  BY Zenon DEF IInv
<1>2. wc' \in [num: Nat, off: Nat, open: BOOLEAN]
  <2> DEFINE w == [num |-> scanBlockFiles(f).num, off |-> scanBlockFiles(f).off, open |-> FALSE]
  <2>1. CASE handleRollback(f, d, w, ldb[Cursor])
    <3>1. w.open \in BOOLEAN
      BY Zenon
    <3> HIDE DEF w
    <3>2. QED
      BY <1>1, <2>1, <3>1, RollbackType
  <2>2. CASE RollbackEnds(f, d, ldb[Cursor], FALSE)
    BY Zenon, <1>1, <2>2 DEF RollbackEnds, Locations
  <2>3. QED
    BY Zenon, <2>1, <2>2 DEF openDB
<1>3. tx' = Idle /\ puts' = Nothing /\ dels' = {} /\ ldb' = ldb
  BY Zenon DEF openDB
<1>4. CursorKept(puts, dels)'
  BY Zenon, <1>3 DEF CursorKept, Nothing, Items
<1>5. QED
  BY Zenon, <1>2, <1>3, <1>4, NothingType, ReturnKeeps DEF IInv, TypeOK

(* A flush that ends leaves the cache empty.                               *)
LEMMA FlushedKeeps ==
    ASSUME IInv, Flushed, Holds("ldb") \/ Holds("clear"), UNCHANGED <<ldb, wc>>,
           puts' = Nothing, dels' = {}
    PROVE  IInv'
<1>1. CursorKept(puts, dels)' /\ puts' \in Rows /\ dels' \in SUBSET Items
  BY Zenon, NothingType DEF CursorKept, Nothing, Items
<1>2. CASE tx' = Idle
  BY Zenon, <1>1, <1>2, ReturnKeeps DEF IInv, TypeOK
<1>3. CASE \E stage \in {"direct", "closed"} : Step(stage) /\ (stage = "direct" => tx.why = "commit")
  <2>1. PICK stage \in {"direct", "closed"} : Step(stage) /\ (stage = "direct" => tx.why = "commit")
    BY Zenon, <1>3
  <2>2. tx' \in Transactions /\ tx'.stage = stage
    BY Zenon, SMTT(30), <2>1 DEF IInv, TypeOK, Transactions, Step
  <2>3. tx'.puts = tx.puts /\ tx'.dels = tx.dels /\ tx'.stored = tx.stored /\ tx'.left = tx.left
        /\ tx'.why = tx.why
    BY Zenon, <2>1 DEF IInv, TypeOK, Transactions, Step
  <2>4. RowsFollowBlocks(tx') /\ CursorKept(tx.puts, tx.dels)'
    BY Zenon, <2>3 DEF IInv, RowsFollowBlocks, CursorKept
  <2>5. Stages(tx')
    BY Zenon, <2>1, <2>2, <2>3 DEF Stages, IInv, Holds
  <2>6. FlushOrder'
    BY Zenon, <2>1, <2>2 DEF FlushOrder, Holds, CacheEmpty
  <2>7. QED
    BY Zenon, <1>1, <2>2, <2>4, <2>5, <2>6 DEF IInv, TypeOK
<1>4. tx.why \in {"commit", "sync", "close"}
  BY Zenon DEF IInv, TypeOK, Transactions, Stages, Holds
<1>5. QED
  BY Zenon, <1>2, <1>3, <1>4 DEF Flushed, Return

LEMMA commitTreapsKeeps == ASSUME IInv, commitTreaps PROVE IInv'
<1>1. CASE CacheEmpty
  BY Zenon, <1>1, FlushedKeeps DEF commitTreaps, CacheEmpty, fileVars
<1>2. CASE ~CacheEmpty
  <2>1. ldb' = Current /\ Step("clear") /\ UNCHANGED <<puts, dels, wc>>
    BY Zenon, <1>2 DEF commitTreaps, fileVars
  <2>2. ldb' \in Rows /\ ldb'[Cursor] \in Locations
    BY Zenon, <2>1, CurrentType DEF IInv, TypeOK, Current, Overlay, CursorKept, Items
  <2>3. tx' \in Transactions /\ tx'.stage = "clear"
    BY Zenon, <2>1 DEF IInv, TypeOK, Transactions, Step
  <2>4. tx'.puts = tx.puts /\ tx'.dels = tx.dels /\ tx'.stored = tx.stored /\ tx'.left = tx.left
        /\ tx'.why = tx.why
    BY Zenon, <2>1 DEF IInv, TypeOK, Transactions, Step
  <2>5. RowsFollowBlocks(tx') /\ CursorKept(tx.puts, tx.dels)' /\ CursorKept(puts, dels)'
    BY Zenon, <2>1, <2>4 DEF IInv, RowsFollowBlocks, CursorKept
  <2>6. Stages(tx')
    BY Zenon, <2>3, <2>4 DEF Stages, IInv, Holds, commitTreaps
  <2>7. Current' = ldb'
    <3>1. Current' = Overlay(Current, puts, dels)
      BY Zenon, <2>1 DEF Current, Overlay
    <3>2. QED
      BY Zenon, <2>1, <3>1, OverlayTwice DEF IInv, TypeOK, Current
  <2>8. FlushOrder'
    BY Zenon, <2>3, <2>7 DEF FlushOrder, Holds
  <2>9. QED
    BY Zenon, <2>1, <2>2, <2>3, <2>5, <2>6, <2>8 DEF IInv, TypeOK
<1>3. QED
  BY Zenon, <1>1, <1>2

LEMMA Invariance == IInv /\ [Next]_vars => IInv'
<1> SUFFICES ASSUME IInv, [Next]_vars PROVE IInv'
  BY Zenon
<1>1. ASSUME NEW s \in Scripts, Update(s) PROVE IInv'
  BY Zenon, <1>1, UpdateKeeps
<1>2. CASE DeleteFile
  BY Zenon, SMTT(30), <1>2, DeleteFileKeeps
<1>3. CASE DeleteFileFails
  BY ZenonT(60), <1>3, ReturnKeeps DEF DeleteFileFails, Return, IInv, TypeOK, CursorKept, metaVars, fileVars
<1>4. CASE writeBlock
  BY Zenon, <1>4, writeBlockKeeps
<1>5. CASE writeBlockFails
  BY Zenon, <1>5, writeBlockFailsKeeps
<1>6. CASE commitTx
  BY Zenon, <1>6, commitTxKeeps
<1>7. CASE needsFlush
  BY Zenon, <1>7, needsFlushKeeps
<1>8. CASE Sync \/ Close
  BY Zenon, <1>8, StartKeeps DEF Sync, Close, metaVars, fileVars
<1>9. CASE Reopen \/ ProcessDies \/ PowerFails
  BY Zenon, <1>9, openDBKeeps DEF Reopen, ProcessDies, PowerFails
<1>10. CASE syncBlocks
  <2>1. tx.left = <<>> /\ tx.why # "none" /\ Step("ldb") /\ UNCHANGED <<ldb, puts, dels, wc>>
    BY Zenon, <1>10 DEF syncBlocks, Holds, IInv, Stages, metaVars
  <2>2. QED
    BY Zenon, <2>1, StageKeeps
<1>11. CASE commitTreaps
  BY Zenon, <1>11, commitTreapsKeeps
<1>12. CASE ClearCache
  BY Zenon, <1>12, FlushedKeeps DEF ClearCache, fileVars
<1>13. CASE commitDirect
  <2>1. ldb' \in Rows /\ ldb'[Cursor] \in Locations
    <3>1. tx.puts \in Rows /\ ldb' = Overlay(ldb, tx.puts, tx.dels)
      BY Zenon, <1>13 DEF commitDirect, IInv, TypeOK, Transactions
    <3>2. ldb' \in Rows
      BY Zenon, <3>1, OverlayType DEF IInv, TypeOK
    <3>3. ldb'[Cursor] \in Locations
      BY Zenon, <3>1 DEF IInv, CursorKept, Overlay, Items
    <3>4. QED
      BY Zenon, <3>2, <3>3
  <2>2. tx' = Idle /\ UNCHANGED <<puts, dels, wc>>
    BY Zenon, <1>13 DEF commitDirect, Return, fileVars
  <2>3. QED
    BY Zenon, <2>1, <2>2, ReturnKeeps DEF IInv, TypeOK, CursorKept
<1>14. CASE FlushFails
  <2>1. UNCHANGED <<ldb, puts, dels, wc>> /\ tx.left = <<>> /\ tx.why # "none"
    BY Zenon, <1>14 DEF FlushFails, metaVars, fileVars, Holds, IInv, Stages
  <2>2. CASE tx' = Idle
    BY Zenon, <2>1, <2>2, ReturnKeeps DEF IInv, TypeOK, CursorKept
  <2>3. CASE Step("closed")
    BY Zenon, SMTT(30), <2>1, <2>3, StageKeeps
  <2>4. QED
    BY Zenon, <1>14, <2>2, <2>3 DEF FlushFails, Return
<1>15. CASE BeginRead \/ Snapshot \/ EndRead \/ UNCHANGED vars
  <2>1. UNCHANGED <<ldb, puts, dels, wc, tx>>
    BY Zenon, <1>15 DEF BeginRead, Snapshot, EndRead, vars, metaVars, fileVars
  <2>2. QED
    BY Zenon, SMTT(30), <2>1 DEF IInv, TypeOK, CursorKept, RowsFollowBlocks, Stages, FlushOrder, Holds, Current,
                Overlay, CacheEmpty
<1>16. QED
  BY ZenonT(60), <1>1, <1>2, <1>3, <1>4, <1>5, <1>6, <1>7, <1>8, <1>9, <1>10, <1>11, <1>12, <1>13, <1>14, <1>15
     DEF Next

(* The invariant behind the refinement: the index rows of a transaction    *)
(* follow the blocks it writes, the cursor row is never removed, and a     *)
(* flush empties the cache only after leveldb has it.                      *)
THEOREM InvariantHolds == Spec => []IInv
BY InitHolds, Invariance, PTL DEF Spec

-----------------------------------------------------------------------------
(* The database implements DurableStore.                                  *)

LEMMA ViewsStay ==
    ASSUME UNCHANGED <<ldb, puts, dels>>
    PROVE  UNCHANGED <<View(Current), View(ldb)>> /\ Current' = Current
BY DEF View, Current, Overlay

(* Pending depends on what is asked for, and not on how far the            *)
(* transaction is.                                                         *)
LEMMA PendingStays ==
    ASSUME Current' = Current, tx'.why = tx.why, tx'.dels = tx.dels, tx'.stored = tx.stored,
           \A k \in Keys : tx'.puts[k] = tx.puts[k],
           tx.stage \notin {"idle", "closed"}, tx'.stage \notin {"idle", "closed"}
    PROVE  Pending' = Pending
<1>1. [k \in Keys |-> Overlay(Current, tx.puts, tx.dels)[k]]' = [k \in Keys |-> Overlay(Current, tx.puts, tx.dels)[k]]
  BY Zenon DEF Overlay, Items
<1>2. View(Current)' = View(Current)
  BY Zenon DEF View
<1>3. Requested' = Requested
  BY Zenon, <1>1, <1>2 DEF Requested
<1>4. QED
  BY Zenon, <1>3 DEF Pending, Holds, Barrier

(* What the transaction asked for is what is seen once it is applied.      *)
LEMMA RequestedIsOverlay ==
    ASSUME IInv, tx.left = <<>>, NEW p \in Rows, \A i \in Items \ {Cursor} : p[i] = tx.puts[i]
    PROVE  Requested = View(Overlay(Current, p, tx.dels))
<1>1. [k \in Keys |-> Overlay(Current, tx.puts, tx.dels)[k]] = [k \in Keys |-> Overlay(Current, p, tx.dels)[k]]
  BY Zenon, FfldbAssumption DEF Overlay, Items
<1>2. ASSUME NEW b \in Blocks
      PROVE  Overlay(Current, p, tx.dels)[b] # Absent <=> (Current[b] # Absent /\ b \notin tx.dels) \/ b \in tx.stored
  <2>1. b \in Items /\ p[b] = tx.puts[b]
    BY Zenon, FfldbAssumption DEF Items
  <2>2. b \in tx.stored <=> tx.puts[b] # Absent
    BY DEF IInv, RowsFollowBlocks, Listed
  <2>3. b \in tx.stored => b \notin tx.dels
    BY Zenon DEF IInv, RowsFollowBlocks
  <2>4. QED
    BY Zenon, <2>1, <2>2, <2>3 DEF Overlay
<1>3. tx.stored \in SUBSET Blocks
  BY Zenon DEF IInv, TypeOK, Transactions
<1>4. (View(Current).blocks \ tx.dels) \cup tx.stored = {b \in Blocks : Overlay(Current, p, tx.dels)[b] # Absent}
  BY Zenon, <1>2, <1>3 DEF View
<1>5. QED
  BY Zenon, <1>1, <1>4 DEF Requested, View

LEMMA PendingKinds ==
    /\ tx.stage \in {"idle", "closed"} => Pending = NoneOpen
    /\ tx.stage \notin {"idle", "closed"} => Pending # NoneOpen
    /\ tx.stage \notin {"idle", "closed"} /\ tx.why = "commit" => Pending \notin {NoneOpen, Barrier}
    /\ tx.stage \notin {"idle", "closed"} /\ tx.why = "commit" => Pending.view = Requested
    /\ tx.stage \notin {"idle", "closed"} /\ tx.why # "commit" => Pending = Barrier
BY Zenon DEF Pending, Holds, NoneOpen, Barrier

LEMMA PendingKindsNext ==
    /\ tx'.stage \in {"idle", "closed"} => Pending' = NoneOpen
    /\ tx'.stage \notin {"idle", "closed"} => Pending' # NoneOpen
BY Zenon DEF Pending, Holds, NoneOpen, Barrier

(* Ending a transaction with an error and all rows as they were.           *)
LEMMA FailSteps ==
    ASSUME tx.stage \notin {"idle", "closed"}, tx'.stage \in {"idle", "closed"}, told' = "err",
           UNCHANGED <<ldb, puts, dels>>
    PROVE  D!Fail
BY Zenon, ViewsStay, PendingKinds, PendingKindsNext DEF D!Fail

LEMMA BeginSteps ==
    ASSUME tx.stage = "idle", tx'.stage \notin {"idle", "closed"}, UNCHANGED <<ldb, puts, dels, told>>
    PROVE  D!Begin
BY Zenon, ViewsStay, PendingKinds, PendingKindsNext DEF D!Begin

(* A transaction under way that changes no row is not seen.                *)
LEMMA StutterSteps ==
    ASSUME UNCHANGED <<ldb, puts, dels, told>>,
           tx'.why = tx.why, tx'.dels = tx.dels, tx'.stored = tx.stored,
           \A k \in Keys : tx'.puts[k] = tx.puts[k],
           tx.stage \notin {"idle", "closed"}, tx'.stage \notin {"idle", "closed"}
    PROVE  UNCHANGED D!vars
BY Zenon, ViewsStay, PendingStays DEF D!vars

(* A crash, and a clean restart, leave what leveldb holds.                 *)
LEMMA openDBSteps == ASSUME IInv, NEW f, NEW d, openDB(f, d) PROVE D!Crash
<1>1. tx'.stage = "idle" /\ ldb' = ldb /\ told' = told
  BY Zenon, SMTT(30), IdleIsType DEF openDB
<1>2. Current' = ldb
  <2>1. Current' = Overlay(ldb, Nothing, {})
    BY Zenon DEF openDB, Current, Overlay
  <2>2. QED
    BY Zenon, SMTT(30), <2>1, OverlayNothing DEF IInv, TypeOK
<1>3. View(Current)' = View(ldb) /\ View(ldb)' = View(ldb)
  BY Zenon, <1>1, <1>2 DEF View
<1>4. QED
  BY Zenon, SMTT(30), <1>1, <1>3, PendingKindsNext DEF D!Crash

(* Whoever returns nil at the end of a flush has it all in leveldb; a      *)
(* transaction goes on.                                                    *)
LEMMA FlushedSteps ==
    ASSUME IInv, Flushed, Holds("ldb") \/ Holds("clear"), Current = ldb, Current' = Current, ldb' = ldb
    PROVE  D!Synced \/ UNCHANGED D!vars
<1>1. UNCHANGED <<View(Current), View(ldb)>> /\ View(Current) = View(ldb)
  BY Zenon DEF View
<1>2. tx.stage \notin {"idle", "closed"} /\ tx.why \in {"commit", "sync", "close"}
  BY Zenon DEF IInv, TypeOK, Transactions, Stages, Holds
<1>3. CASE tx.why = "commit"
  <2>1. told' = told /\ Step("direct")
    BY Zenon, <1>3 DEF Flushed
  <2>2. /\ tx'.why = tx.why /\ tx'.dels = tx.dels /\ tx'.stored = tx.stored /\ tx'.puts = tx.puts
        /\ tx'.stage = "direct"
    BY Zenon, <2>1 DEF Step, IInv, TypeOK, Transactions
  <2>3. Pending' = Pending
    BY Zenon, <1>2, <2>2, PendingStays
  <2>4. QED
    BY Zenon, <1>1, <2>1, <2>3 DEF D!vars
<1>4. CASE tx.why # "commit"
  <2>1. told' = "ok" /\ (tx' = Idle \/ Step("closed"))
    BY Zenon, <1>2, <1>4 DEF Flushed, Return
  <2>2. tx'.stage \in {"idle", "closed"}
    BY Zenon, <2>1, IdleIsType DEF Step, IInv, TypeOK, Transactions
  <2>3. QED
    BY ZenonT(60), <1>1, <1>2, <1>4, <2>1, <2>2, PendingKinds, PendingKindsNext DEF D!Synced
<1>5. QED
  BY Zenon, <1>3, <1>4

LEMMA commitTreapsSteps == ASSUME IInv, commitTreaps PROVE [D!Next]_(D!vars)
<1>1. CASE CacheEmpty
  <2>1. Current = ldb
    BY Zenon, <1>1, OverlayNothing DEF Current, CacheEmpty, IInv, TypeOK
  <2>2. Current' = Current /\ ldb' = ldb
    BY Zenon, <1>1, ViewsStay DEF commitTreaps
  <2>3. QED
    BY Zenon, <1>1, <2>1, <2>2, FlushedSteps DEF commitTreaps, D!Next
<1>2. CASE ~CacheEmpty
  <2>1. ldb' = Current /\ Step("clear") /\ UNCHANGED <<puts, dels, told>>
    BY Zenon, SMTT(30), <1>2 DEF commitTreaps
  <2>2. Current' = Current
    <3>1. Current' = Overlay(Current, puts, dels)
      BY Zenon, <2>1 DEF Current, Overlay
    <3>2. QED
      BY ZenonT(60), <3>1, OverlayTwice DEF IInv, TypeOK, Current
  <2>3. /\ tx'.why = tx.why /\ tx'.dels = tx.dels /\ tx'.stored = tx.stored /\ tx'.puts = tx.puts
        /\ tx'.stage = "clear" /\ tx.stage = "ldb"
    BY Zenon, <2>1 DEF Step, IInv, TypeOK, Transactions, commitTreaps, Holds
  <2>4. Pending' = Pending
    BY Zenon, <2>2, <2>3, PendingStays
  <2>5. View(ldb)' = View(Current) /\ View(Current)' = View(Current)
    BY Zenon, <2>1, <2>2 DEF View
  <2>6. D!Persist
    BY Zenon, <2>1, <2>4, <2>5 DEF D!Persist
  <2>7. QED
    BY Zenon, <2>6 DEF D!Next
<1>3. QED
  BY Zenon, <1>1, <1>2

LEMMA ClearCacheSteps == ASSUME IInv, ClearCache PROVE [D!Next]_(D!vars)
<1>1. Current \in Rows /\ ldb \in Rows
  BY Zenon, CurrentType DEF IInv, TypeOK
<1>2. Current = ldb
  BY <1>1 DEF ClearCache, IInv, FlushOrder, Rows
<1>3. Current' = Current
  <2>1. Current' = Overlay(ldb, Nothing, {})
    BY Zenon DEF ClearCache, Current, Overlay
  <2>2. QED
    BY Zenon, <1>1, <1>2, <2>1, OverlayNothing
<1>4. QED
  BY Zenon, <1>2, <1>3, FlushedSteps DEF ClearCache, D!Next

LEMMA commitTxSteps == ASSUME IInv, commitTx PROVE D!Commit
<1>1. /\ WithCursor \in Rows /\ \A i \in Items \ {Cursor} : WithCursor[i] = tx.puts[i]
      /\ tx.dels \in SUBSET Items /\ ldb \in Rows /\ puts \in Rows
  BY Zenon, SMTT(30), WithCursorType DEF IInv, TypeOK, Transactions
<1>2. tx.left = <<>> /\ tx.stage = "write" /\ tx.why = "commit"
  BY Zenon, SMTT(30) DEF commitTx, Holds, IInv, Stages
<1>3. Current' = Overlay(Current, WithCursor, tx.dels)
  <2>1. Current' = Overlay(ldb, Overlay(puts, WithCursor, tx.dels), CachedRemove(WithCursor, tx.dels))
    BY Zenon DEF commitTx, Current, Overlay
  <2>2. QED
    BY Zenon, <1>1, <2>1, OverlayMerge
<1>4. View(Current)' = Requested
  <2>1. Requested = View(Overlay(Current, WithCursor, tx.dels))
    BY Zenon, SMTT(30), <1>1, <1>2, RequestedIsOverlay
  <2>2. QED
    BY Zenon, SMTT(30), <1>3, <2>1 DEF View
<1>5. View(ldb)' = View(ldb) /\ told' = "ok" /\ tx'.stage = "idle"
  BY Zenon, SMTT(30), IdleIsType DEF commitTx, View, Return
<1>6. QED
  BY ZenonT(60), SMTT(30), <1>2, <1>4, <1>5, PendingKinds, PendingKindsNext DEF D!Commit

LEMMA commitDirectSteps == ASSUME IInv, commitDirect PROVE D!Commit
<1>1. tx.puts \in Rows /\ tx.dels \in SUBSET Items /\ ldb \in Rows
  BY Zenon DEF IInv, TypeOK, Transactions
<1>2. tx.left = <<>> /\ tx.stage = "direct" /\ tx.why = "commit" /\ CacheEmpty
  BY Zenon DEF commitDirect, Holds, IInv, Stages, FlushOrder
<1>3. Current = ldb
  BY Zenon, <1>1, <1>2, OverlayNothing DEF Current, CacheEmpty
<1>4. ldb' = Overlay(Current, tx.puts, tx.dels) /\ ldb' \in Rows
  BY Zenon, <1>1, <1>3, OverlayType DEF commitDirect
<1>5. Current' = ldb'
  <2>1. Current' = Overlay(ldb', Nothing, {})
    BY Zenon, <1>2 DEF Current, Overlay, commitDirect, CacheEmpty
  <2>2. QED
    BY Zenon, <1>4, <2>1, OverlayNothing
<1>6. View(Current)' = Requested /\ View(ldb)' = Requested /\ View(Current) = View(ldb)
  <2>1. Requested = View(Overlay(Current, tx.puts, tx.dels))
    BY Zenon, <1>1, <1>2, RequestedIsOverlay
  <2>2. QED
    BY Zenon, <1>3, <1>4, <1>5, <2>1 DEF View
<1>7. told' = "ok" /\ tx'.stage = "idle"
  BY Zenon, IdleIsType DEF commitDirect, Return
<1>8. QED
  BY Zenon, <1>2, <1>6, <1>7, PendingKinds, PendingKindsNext DEF D!Commit

LEMMA StepSimulation == IInv /\ [Next]_vars => [D!Next]_(D!vars)
<1> SUFFICES ASSUME IInv, [Next]_vars PROVE [D!Next]_(D!vars)
  BY Zenon
<1> USE DEF D!Next
<1>1. ASSUME NEW s \in Scripts, Update(s) PROVE D!Begin
  <2>1. tx'.stage = "write" /\ tx.stage = "idle" /\ UNCHANGED <<ldb, puts, dels, told>>
    BY Zenon, <1>1 DEF Update, Holds, Started, Begun, metaVars
  <2>2. QED
    BY Zenon, <2>1, BeginSteps
<1>2. CASE DeleteFile
  <2>1. PICK n : tx' = [tx EXCEPT !.drop = @ \ {n}]
    BY Zenon, <1>2 DEF DeleteFile
  <2>2. /\ tx'.puts = tx.puts /\ tx'.dels = tx.dels /\ tx'.stored = tx.stored
        /\ tx'.stage = "write" /\ tx.stage = "write" /\ tx'.why = tx.why
    BY Zenon, <1>2, <2>1 DEF DeleteFile, Holds, IInv, TypeOK, Transactions
  <2>3. QED
    BY Zenon, <1>2, <2>2, StutterSteps DEF DeleteFile, metaVars
<1>3. CASE DeleteFileFails \/ writeBlockFails
  <2>1. tx.stage = "write" /\ tx'.stage = "idle" /\ told' = "err" /\ UNCHANGED <<ldb, puts, dels>>
    BY Zenon, <1>3, IdleIsType DEF DeleteFileFails, writeBlockFails, Return, Holds, metaVars
  <2>2. QED
    BY Zenon, <2>1, FailSteps
<1>4. CASE writeBlock
  <2>1. PICK b, at : b = Head(tx.left) /\ tx' = [tx EXCEPT !.left = Tail(@), !.puts[b] = at]
    BY ZenonT(60), <1>4 DEF writeBlock
  <2>2. b \in Blocks
    BY SMTT(60), <1>4, <2>1 DEF writeBlock, IInv, TypeOK, Transactions
  <2>3. /\ tx'.puts = [tx.puts EXCEPT ![b] = at] /\ tx'.dels = tx.dels /\ tx'.stored = tx.stored
        /\ tx'.stage = "write" /\ tx.stage = "write" /\ tx'.why = tx.why
    BY ZenonT(60), <1>4, <2>1 DEF writeBlock, Holds, IInv, TypeOK, Transactions
  <2>4. \A k \in Keys : tx'.puts[k] = tx.puts[k]
    BY SMTT(60), <2>2, <2>3, FfldbAssumption DEF IInv, TypeOK, Transactions, Rows, Items
  <2>5. QED
    BY Zenon, <1>4, <2>3, <2>4, StutterSteps DEF writeBlock, metaVars
<1>5. CASE commitTx
  BY Zenon, <1>5, commitTxSteps
<1>6. CASE needsFlush
  <2>1. \A k \in Keys : WithCursor[k] = tx.puts[k]
    BY Zenon, WithCursorType, FfldbAssumption DEF IInv, TypeOK, Items
  <2>2. /\ tx'.puts = WithCursor /\ tx'.dels = tx.dels /\ tx'.stored = tx.stored
        /\ tx'.stage = "sync" /\ tx.stage = "write" /\ tx'.why = tx.why
    BY Zenon, <1>6 DEF needsFlush, Holds, IInv, TypeOK, Transactions
  <2>3. QED
    BY Zenon, SMTT(30), <1>6, <2>1, <2>2, StutterSteps DEF needsFlush, metaVars
<1>7. CASE Sync \/ Close
  <2>1. tx'.stage = "sync" /\ tx.stage = "idle" /\ UNCHANGED <<ldb, puts, dels, told>>
    BY <1>7 DEF Sync, Close, Holds, Started, Begun, metaVars
  <2>2. QED
    BY ZenonT(60), SMTT(30), <2>1, BeginSteps
<1>8. CASE Reopen \/ ProcessDies \/ PowerFails
  BY Zenon, SMTT(30), <1>8, openDBSteps DEF Reopen, ProcessDies, PowerFails
<1>9. CASE syncBlocks
  <2>1. /\ tx'.puts = tx.puts /\ tx'.dels = tx.dels /\ tx'.stored = tx.stored
        /\ tx'.stage = "ldb" /\ tx.stage = "sync" /\ tx'.why = tx.why
    BY Zenon, <1>9 DEF syncBlocks, Step, Holds, IInv, TypeOK, Transactions
  <2>2. QED
    BY Zenon, <1>9, <2>1, StutterSteps DEF syncBlocks, metaVars
<1>10. CASE commitTreaps
  BY Zenon, <1>10, commitTreapsSteps
<1>11. CASE ClearCache
  BY ZenonT(60), <1>11, ClearCacheSteps
<1>12. CASE commitDirect
  BY Zenon, <1>12, commitDirectSteps
<1>13. CASE FlushFails
  <2>1. tx.stage \notin {"idle", "closed"} /\ told' = "err" /\ UNCHANGED <<ldb, puts, dels>>
    BY Zenon, <1>13 DEF FlushFails, Holds, Return, metaVars
  <2>2. tx'.stage \in {"idle", "closed"}
    BY Zenon, <1>13, IdleIsType DEF FlushFails, Return, Step, IInv, TypeOK, Transactions
  <2>3. QED
    BY Zenon, <2>1, <2>2, FailSteps
<1>14. CASE BeginRead \/ Snapshot \/ EndRead \/ UNCHANGED vars
  <2>1. UNCHANGED <<ldb, puts, dels, tx, told>>
    BY ZenonT(60), SMTT(30), <1>14 DEF BeginRead, Snapshot, EndRead, vars, metaVars
  <2>2. Pending' = Pending
    BY SMTT(60), <2>1, ViewsStay DEF Pending, Requested, Holds, Overlay, NoneOpen, Barrier
  <2>3. QED
    BY ZenonT(60), SMTT(30), <2>1, <2>2, ViewsStay DEF D!vars
<1>15. QED
  BY ZenonT(60), <1>1, <1>2, <1>3, <1>4, <1>5, <1>6, <1>7, <1>8, <1>9, <1>10, <1>11, <1>12, <1>13, <1>14 DEF Next

LEMMA InitSimulation == Init => D!Init
<1> SUFFICES ASSUME Init PROVE D!Init
  BY Zenon
<1>1. Current = ldb
  BY Zenon, InitHolds, OverlayNothing DEF Init, Current, IInv, TypeOK
<1>2. Pending = NoneOpen
  BY Zenon, IdleIsType, PendingKinds DEF Init
<1>3. QED
  BY ZenonT(60), SMTT(30), <1>1, <1>2 DEF D!Init, Init

(* writePendingAndCommit, the cache and its flushes, failures and crashes  *)
(* at any point keep the promises of DurableStore.                         *)
THEOREM Refinement == Spec => Implements
BY InvariantHolds, InitSimulation, StepSimulation, PTL DEF Spec, Implements, D!Spec

-----------------------------------------------------------------------------
(* The block files.  A row of the index is safe when its block lies below  *)
(* a position behind which no rollback cuts; every position a rollback or  *)
(* an opening may return to is covered by a file, or pruning has deleted   *)
(* that file.                                                              *)

AtMost(p, q) == p.num < q.num \/ (p.num = q.num /\ p.off <= q.off)
End(b, loc) == Location(loc.num, loc.off + Size[b])

Files == [FileNums -> Seq(Cells) \cup {NoFile}]

Covers(f, p) == (p.num = 0 /\ p.off = 0) \/ (f[p.num] # NoFile /\ Len(f[p.num]) >= p.off)
Safe(f, p, lost) == p.num \in lost \/ Covers(f, p)

(* The rows of m, but for the lost ones, name blocks that lie in the files *)
(* f before p.                                                             *)
Placed(m, f, p, lost) ==
    \A b \in Blocks :
        m[b] # Absent => \/ <<b, m[b]>> \in lost
                         \/ m[b] \in Locations /\ Readable(f, b, m[b]) /\ AtMost(End(b, m[b]), p)

(* The rows of m, but for the lost ones, are rows of cur.                  *)
RowsIn(m, cur, lost) ==
    \A b \in Blocks : m[b] # Absent => <<b, m[b]>> \in lost \/ m[b] = cur[b]

Here == Location(wc.num, wc.off)

(* Where a failed write takes the files back to.                           *)
Limit == IF Holds("write") THEN tx.old ELSE Here

Order ==
    /\ AtMost(ldb[Cursor], Current[Cursor]) /\ AtMost(Current[Cursor], Limit) /\ AtMost(Limit, Here)
    /\ wc.num \in FileNums

Index ==
    /\ Placed(Current, file, Current[Cursor], pruned) /\ Placed(ldb, file, ldb[Cursor], pruned)
    /\ RowsIn(ldb, Current, pruned)

Read ==
    reader # NoReader => /\ reader.stage = "begin" => RowsIn(reader.ldb, Current, pruned)
                         /\ reader.stage = "open" => RowsIn(reader.seen, Current, pruned)

Grounded ==
    /\ Safe(file, ldb[Cursor], gone) /\ Safe(file, Current[Cursor], gone)
    /\ Safe(file, Limit, gone) /\ Safe(file, Here, gone)

(* The write transaction: its blocks are new and lie before the cursor it  *)
(* will store, and a row it removes is in a file that was or will be       *)
(* pruned.                                                                 *)
Writing ==
    /\ Placed(tx.puts, file, Here, pruned)
    /\ \A b \in tx.stored : Current[b] = Absent
    /\ \A b \in Blocks \cap tx.dels :
          Current[b] # Absent => <<b, Current[b]>> \in pruned \/ Current[b].num \in tx.drop
    /\ tx.drop # {} => Holds("write") /\ \A b \in Blocks : tx.puts[b] = Absent
    /\ tx.stage \in {"sync", "ldb", "clear", "direct"} /\ tx.why = "commit" => tx.puts[Cursor] = Here

AllSynced == \A n \in FileNums : file[n] # NoFile => disk[n] = file[n]

(* What leveldb names is on the disk, and all of the files is while        *)
(* leveldb is written.                                                     *)
OnDisk ==
    /\ Placed(ldb, disk, ldb[Cursor], pruned)
    /\ Safe(disk, ldb[Cursor], gone)
    /\ tx.stage \in {"ldb", "clear", "direct"} => AllSynced

Exempt == (unsynced /\ used.power > 0) \/ stranded

FilesInv ==
    /\ file \in Files /\ disk \in Files /\ state = "open"
    /\ Order /\ Index /\ Read /\ Grounded /\ Writing
    /\ ~unsynced => OnDisk

Events == {"txs", "flushes", "fails", "reads", "crashes", "power"}

IntactInv ==
    /\ IInv
    /\ used \in [Events -> Nat] /\ unsynced \in BOOLEAN
    /\ Exempt \/ FilesInv

-----------------------------------------------------------------------------
(* Sequences of cells.                                                     *)

LEMMA TableSeq ==
    ASSUME NEW S, NEW n \in Nat, NEW g \in [1..n -> S]
    PROVE  /\ SubSeq(g, 1, n) \in Seq(S) /\ Len(SubSeq(g, 1, n)) = n
           /\ \A i \in 1..n : SubSeq(g, 1, n)[i] = g[i]
<1>1. g \in Seq(S) /\ Len(g) = n
  OBVIOUS
<1> QED
  BY <1>1

LEMMA SameSeq ==
    ASSUME NEW S, NEW s \in Seq(S), NEW t \in Seq(S), Len(s) = Len(t),
           \A i \in 1..Len(s) : s[i] = t[i]
    PROVE  s = t
OBVIOUS

LEMMA RecordSeq ==
    ASSUME NEW b \in Blocks
    PROVE  /\ Record(b) \in Seq(Cells) /\ Len(Record(b)) = Size[b] /\ Size[b] \in Nat
           /\ \A i \in 1..Size[b] : Record(b)[i] = <<b, i>>
<1>1. Size[b] \in Nat
  BY Zenon, FfldbAssumption
<1>2. \A i \in 1..Size[b] : <<b, i>> \in Cells
  BY <1>1 DEF Cells
<1> DEFINE g == [i \in 1..Size[b] |-> <<b, i>>]
<1>3. g \in [1..Size[b] -> Cells] /\ Record(b) = SubSeq(g, 1, Size[b]) /\ \A i \in 1..Size[b] : g[i] = <<b, i>>
  BY Zenon, <1>2 DEF Record
<1> HIDE DEF g
<1>4. /\ SubSeq(g, 1, Size[b]) \in Seq(Cells) /\ Len(SubSeq(g, 1, Size[b])) = Size[b]
      /\ \A i \in 1..Size[b] : SubSeq(g, 1, Size[b])[i] = g[i]
  BY ZenonT(60), <1>1, <1>3, TableSeq
<1> QED
  BY ZenonT(60), <1>1, <1>3, <1>4

LEMMA TruncateSeq ==
    ASSUME NEW s \in Seq(Cells), NEW off \in Nat
    PROVE  /\ Truncate(s, off) \in Seq(Cells) /\ Len(Truncate(s, off)) = off
           /\ \A i \in 1..off : i <= Len(s) => Truncate(s, off)[i] = s[i]
<1> DEFINE g == [i \in 1..off |-> IF i <= Len(s) THEN s[i] ELSE Garbage]
<1>1. g \in [1..off -> Cells]
  BY DEF Cells
<1>2. \A i \in 1..off : i <= Len(s) => g[i] = s[i]
  BY Zenon
<1> HIDE DEF g
<1>3. /\ SubSeq(g, 1, off) \in Seq(Cells) /\ Len(SubSeq(g, 1, off)) = off
      /\ \A i \in 1..off : SubSeq(g, 1, off)[i] = g[i]
  BY Zenon, <1>1, TableSeq
<1>4. Truncate(s, off) = SubSeq(g, 1, off)
  BY Zenon DEF Truncate, g
<1> QED
  BY ZenonT(60), <1>2, <1>3, <1>4

(* A write leaves what is before it, and covers what it writes.            *)
LEMMA WriteAtSeq ==
    ASSUME NEW s \in Seq(Cells), NEW off \in Nat, NEW cells \in Seq(Cells)
    PROVE  /\ WriteAt(s, off, cells) \in Seq(Cells)
           /\ Len(WriteAt(s, off, cells)) >= off + Len(cells)
           /\ \A i \in 1..off : i <= Len(s) => WriteAt(s, off, cells)[i] = s[i]
           /\ \A i \in 1..Len(cells) : WriteAt(s, off, cells)[off + i] = cells[i]
<1> DEFINE t == Truncate(s, off)
           r == SubSeq(s, off + Len(cells) + 1, Len(s))
<1>1. /\ t \in Seq(Cells) /\ Len(t) = off
      /\ \A i \in 1..off : i <= Len(s) => t[i] = s[i]
  BY Zenon, TruncateSeq
<1>2. r \in Seq(Cells)
  <2>1. CASE off + Len(cells) <= Len(s)
    BY <2>1
  <2>2. CASE off + Len(cells) > Len(s)
    BY <2>2
  <2> QED
    BY SMTT(60), <2>1, <2>2
<1>3. WriteAt(s, off, cells) = t \o cells \o r
  BY Zenon DEF WriteAt
<1> HIDE DEF t, r
<1> DEFINE u == t \o cells
           w == u \o r
<1>4. u \in Seq(Cells) /\ Len(u) = off + Len(cells)
  BY SMTT(60), <1>1
<1>5. \A i \in 1..off : u[i] = t[i]
  BY <1>1
<1>6. \A i \in 1..Len(cells) : u[off + i] = cells[i]
  BY SMTT(60), <1>1
<1>7. Len(cells) \in Nat
  OBVIOUS
<1> HIDE DEF u
<1>8. w \in Seq(Cells) /\ Len(w) >= off + Len(cells)
  BY <1>2, <1>4, <1>7
<1>9. \A i \in 1..(off + Len(cells)) : w[i] = u[i]
  BY <1>2, <1>4, <1>7
<1>10. WriteAt(s, off, cells) = w
  BY Zenon, <1>3 DEF u
<1> HIDE DEF w
<1>11. \A i \in 1..off : i <= Len(s) => w[i] = s[i]
  BY SMTT(60), <1>1, <1>5, <1>7, <1>9
<1>12. \A i \in 1..Len(cells) : w[off + i] = cells[i]
  BY SMTT(60), <1>6, <1>7, <1>9
<1> QED
  BY ZenonT(60), <1>8, <1>10, <1>11, <1>12

(* Readable, cell by cell.                                                 *)
LEMMA ReadableCells ==
    ASSUME NEW f, NEW b \in Blocks, NEW loc \in Locations, f[loc.num] \in Seq(Cells) \cup {NoFile}
    PROVE  Readable(f, b, loc) <=> /\ f[loc.num] # NoFile /\ f[loc.num] \in Seq(Cells)
                                   /\ Len(f[loc.num]) >= loc.off + Size[b]
                                   /\ \A i \in 1..Size[b] : f[loc.num][loc.off + i] = <<b, i>>
<1> DEFINE s == f[loc.num]
           sub == SubSeq(s, loc.off + 1, loc.off + Size[b])
<1>1. /\ Record(b) \in Seq(Cells) /\ Len(Record(b)) = Size[b] /\ Size[b] \in Nat
      /\ \A i \in 1..Size[b] : Record(b)[i] = <<b, i>>
  BY Zenon, RecordSeq
<1>2. loc.off \in Nat
  BY Zenon DEF Locations
<1>3. CASE s # NoFile /\ Len(s) >= loc.off + Size[b]
  <2>1. s \in Seq(Cells)
    BY Zenon, <1>3
  <2>2. loc.off + Size[b] <= Len(s)
    BY SMTT(60), <1>1, <1>2, <1>3, <2>1
  <2> HIDE DEF s
  <2>3. /\ sub \in Seq(Cells) /\ Len(sub) = Size[b]
        /\ \A i \in 1..Size[b] : sub[i] = s[loc.off + i]
    <3>1. sub \in Seq(Cells)
      BY SMTT(60), <1>1, <1>2, <2>1, <2>2
    <3>2. Len(sub) = Size[b]
      BY SMTT(60), <1>1, <1>2, <2>1, <2>2
    <3>3. \A i \in 1..Size[b] : sub[i] = s[loc.off + i]
      BY SMTT(60), <1>1, <1>2, <2>1, <2>2
    <3> QED
      BY ZenonT(60), <3>1, <3>2, <3>3
  <2>4. sub = Record(b) <=> \A i \in 1..Size[b] : s[loc.off + i] = <<b, i>>
    <3>1. ASSUME sub = Record(b), NEW i \in 1..Size[b] PROVE s[loc.off + i] = <<b, i>>
      BY ZenonT(60), <1>1, <2>3, <3>1
    <3>2. ASSUME \A i \in 1..Size[b] : s[loc.off + i] = <<b, i>> PROVE sub = Record(b)
      <4>1. Len(sub) = Len(Record(b)) /\ \A i \in 1..Len(sub) : sub[i] = Record(b)[i]
        BY ZenonT(60), <1>1, <2>3, <3>2
      <4> HIDE DEF sub
      <4> QED
        BY ZenonT(60), <1>1, <2>3, <4>1, SameSeq
    <3> QED
      BY Zenon, <3>1, <3>2
  <2> QED
    BY ZenonT(60), <1>3, <2>1, <2>4 DEF Readable, s
<1>4. CASE ~(s # NoFile /\ Len(s) >= loc.off + Size[b])
  BY Zenon, <1>4 DEF Readable
<1> QED
  BY Zenon, <1>3, <1>4

-----------------------------------------------------------------------------
(* What leaves the cells before a position as they are, keeps what lies    *)
(* there.                                                                  *)

Preserves(f, g, p) ==
    /\ \A n \in FileNums : n < p.num => g[n] = f[n]
    /\ f[p.num] # NoFile =>
          /\ g[p.num] # NoFile
          /\ \A i \in 1..p.off : i <= Len(f[p.num]) => i <= Len(g[p.num]) /\ g[p.num][i] = f[p.num][i]

LEMMA Below ==
    ASSUME NEW p \in Locations, NEW q \in Locations, AtMost(q, p), p.num \in FileNums
    PROVE  q.num \in FileNums /\ (q.num < p.num \/ (q.num = p.num /\ q.off <= p.off))
BY FfldbAssumption DEF Locations, AtMost, FileNums

LEMMA StaysReadable ==
    ASSUME NEW f \in Files, NEW g \in Files, NEW p \in Locations, p.num \in FileNums, Preserves(f, g, p),
           NEW b \in Blocks, NEW loc \in Locations, Readable(f, b, loc), AtMost(End(b, loc), p)
    PROVE  Readable(g, b, loc)
<1>1. /\ loc.num \in Nat /\ loc.off \in Nat /\ Size[b] \in Nat
      /\ End(b, loc) \in Locations /\ End(b, loc).num = loc.num /\ End(b, loc).off = loc.off + Size[b]
  BY RecordSeq DEF Locations, End, Location
<1>2. loc.num \in FileNums /\ (loc.num < p.num \/ (loc.num = p.num /\ loc.off + Size[b] <= p.off))
  <2>1. /\ End(b, loc).num \in FileNums
        /\ End(b, loc).num < p.num \/ (End(b, loc).num = p.num /\ End(b, loc).off <= p.off)
    BY Zenon, <1>1, Below
  <2> QED
    BY Zenon, <1>1, <2>1
<1>3. f[loc.num] \in Seq(Cells) \cup {NoFile} /\ g[loc.num] \in Seq(Cells) \cup {NoFile}
  BY Zenon, <1>2 DEF Files
<1>4. /\ f[loc.num] # NoFile /\ f[loc.num] \in Seq(Cells) /\ Len(f[loc.num]) >= loc.off + Size[b]
      /\ \A i \in 1..Size[b] : f[loc.num][loc.off + i] = <<b, i>>
  BY Zenon, <1>3, ReadableCells
<1>5. CASE loc.num < p.num
  <2>1. g[loc.num] = f[loc.num]
    BY Zenon, <1>2, <1>5 DEF Preserves
  <2> QED
    BY Zenon, <2>1 DEF Readable
<1>6. CASE loc.num = p.num /\ loc.off + Size[b] <= p.off
  <2>1. g[loc.num] # NoFile /\ g[loc.num] \in Seq(Cells) /\ p.off \in Nat
    BY ZenonT(60), <1>3, <1>4, <1>6 DEF Preserves, Locations
  <2>2. \A i \in 1..p.off : i <= Len(f[loc.num]) => i <= Len(g[loc.num]) /\ g[loc.num][i] = f[loc.num][i]
    BY ZenonT(60), <1>4, <1>6 DEF Preserves
  <2>3. \A i \in 1..Size[b] : loc.off + i \in 1..p.off /\ loc.off + i <= Len(f[loc.num])
    BY SMTT(60), <1>1, <1>4, <1>6, <2>1
  <2>4. \A i \in 1..Size[b] : g[loc.num][loc.off + i] = <<b, i>> /\ loc.off + i <= Len(g[loc.num])
    BY Zenon, <1>4, <2>2, <2>3
  <2>5. Len(g[loc.num]) >= loc.off + Size[b]
    <3>1. CASE loc.off + Size[b] = 0
      BY <2>1, <3>1
    <3>2. CASE loc.off + Size[b] # 0
      <4>1. loc.off + Size[b] \in 1..p.off /\ loc.off + Size[b] <= Len(f[loc.num])
        BY SMTT(60), <1>1, <1>4, <1>6, <2>1, <3>2
      <4>2. loc.off + Size[b] <= Len(g[loc.num])
        BY ZenonT(60), <2>2, <4>1
      <4> QED
        BY SMTT(60), <1>1, <2>1, <4>2
    <3> QED
      BY Zenon, <3>1, <3>2
  <2> QED
    BY ZenonT(60), <1>3, <2>1, <2>4, <2>5, ReadableCells
<1> QED
  BY ZenonT(60), <1>2, <1>5, <1>6

LEMMA StaysCovered ==
    ASSUME NEW f \in Files, NEW g \in Files, NEW p \in Locations, p.num \in FileNums, Preserves(f, g, p),
           NEW q \in Locations, Covers(f, q), AtMost(q, p)
    PROVE  Covers(g, q)
<1>1. q.num \in FileNums /\ (q.num < p.num \/ (q.num = p.num /\ q.off <= p.off)) /\ q.off \in Nat /\ p.off \in Nat
  BY Zenon, Below DEF Locations
<1>2. CASE q.num = 0 /\ q.off = 0
  BY Zenon, <1>2 DEF Covers
<1>3. CASE f[q.num] # NoFile /\ Len(f[q.num]) >= q.off /\ q.num < p.num
  BY ZenonT(60), <1>1, <1>3 DEF Covers, Preserves
<1>4. CASE f[q.num] # NoFile /\ Len(f[q.num]) >= q.off /\ q.num = p.num /\ q.off <= p.off
  <2>1. f[q.num] \in Seq(Cells) /\ g[q.num] # NoFile /\ g[q.num] \in Seq(Cells)
    BY ZenonT(60), <1>1, <1>4 DEF Files, Preserves
  <2>2. CASE q.off = 0
    BY SMTT(60), <2>1, <2>2 DEF Covers
  <2>3. CASE q.off # 0
    <3>1. q.off \in 1..p.off /\ q.off <= Len(f[q.num])
      BY SMTT(60), <1>1, <1>4, <2>1, <2>3
    <3>2. q.off <= Len(g[q.num])
      BY ZenonT(60), <1>4, <3>1 DEF Preserves
    <3> QED
      BY SMTT(60), <1>1, <2>1, <3>2 DEF Covers
  <2> QED
    BY ZenonT(60), <2>2, <2>3
<1> QED
  BY ZenonT(60), <1>1, <1>2, <1>3, <1>4 DEF Covers

-----------------------------------------------------------------------------
(* What writing, rolling back and a power failure do to the files.         *)

LEMMA SameBelow ==
    ASSUME NEW f, NEW g, NEW p \in Locations, p.num \in FileNums,
           \A n \in FileNums : n <= p.num => g[n] = f[n]
    PROVE  Preserves(f, g, p)
<1>1. p.num \in Nat /\ p.num <= p.num /\ \A n \in FileNums : n \in Nat /\ (n < p.num => n <= p.num)
  BY FfldbAssumption DEF Locations, FileNums
<1>2. g[p.num] = f[p.num] /\ \A n \in FileNums : n < p.num => g[n] = f[n]
  BY Zenon, <1>1
<1> QED
  BY ZenonT(60), <1>2 DEF Preserves

LEMMA OpenedFile ==
    ASSUME NEW f \in Files, NEW num \in FileNums
    PROVE  /\ openWriteFile(f, num) \in Files
           /\ openWriteFile(f, num)[num] # NoFile /\ openWriteFile(f, num)[num] \in Seq(Cells)
           /\ f[num] # NoFile => openWriteFile(f, num)[num] = f[num]
           /\ \A n \in FileNums \ {num} : openWriteFile(f, num)[n] = f[n]
<1>1. <<>> \in Seq(Cells) /\ NoFile \notin Seq(Cells)
  BY FfldbAssumption
<1>2. f[num] \in Seq(Cells) \cup {NoFile}
  BY Zenon DEF Files
<1>3. CASE f[num] = NoFile
  <2>1. openWriteFile(f, num) = [f EXCEPT ![num] = <<>>]
    BY Zenon, <1>3 DEF openWriteFile
  <2> QED
    BY Zenon, <1>1, <1>3, <2>1 DEF Files
<1>4. CASE f[num] # NoFile
  BY Zenon, <1>2, <1>4 DEF openWriteFile
<1> QED
  BY ZenonT(60), <1>3, <1>4

(* A file put in the place of num keeps what is before p when it keeps it  *)
(* in that file.                                                           *)
SameUnder(f, h, p) == \A n \in FileNums : n < p.num => h[n] = f[n]

KeepsStart(f, s, p) ==
    f[p.num] # NoFile => \A i \in 1..p.off : i <= Len(f[p.num]) => i <= Len(s) /\ s[i] = f[p.num][i]

LEMMA ReplacedFile ==
    ASSUME NEW f \in Files, NEW h \in Files, NEW p \in Locations, p.num \in FileNums, NEW s \in Seq(Cells),
           SameUnder(f, h, p), KeepsStart(f, s, p)
    PROVE  /\ [h EXCEPT ![p.num] = s] \in Files /\ [h EXCEPT ![p.num] = s][p.num] = s /\ s # NoFile
           /\ Preserves(f, [h EXCEPT ![p.num] = s], p)
<1>1. s # NoFile
  BY Zenon, FfldbAssumption
<1>2. [h EXCEPT ![p.num] = s] \in Files /\ [h EXCEPT ![p.num] = s][p.num] = s
  BY Zenon DEF Files
<1>3. \A n \in FileNums : n < p.num => n # p.num
  BY FfldbAssumption DEF FileNums, Locations
<1>4. \A n \in FileNums : n < p.num => [h EXCEPT ![p.num] = s][n] = f[n]
  BY Zenon, <1>3 DEF Files, SameUnder
<1> QED
  BY ZenonT(60), <1>1, <1>2, <1>4 DEF Preserves, KeepsStart

Wrote(f, at, cells, g) == g = [openWriteFile(f, at.num) EXCEPT ![at.num] = WriteAt(@, at.off, cells)]

Contains(s, off, cells) ==
    /\ s # NoFile /\ s \in Seq(Cells) /\ Len(s) >= off + Len(cells)
    /\ \A i \in 1..Len(cells) : s[off + i] = cells[i]

LEMMA WrittenFile ==
    ASSUME NEW f \in Files, NEW at \in Locations, at.num \in FileNums, NEW cells \in Seq(Cells),
           NEW g, Wrote(f, at, cells, g)
    PROVE  g \in Files /\ Preserves(f, g, at) /\ Contains(g[at.num], at.off, cells)
<1> DEFINE h == openWriteFile(f, at.num)
           s == WriteAt(h[at.num], at.off, cells)
<1>1. /\ h \in Files /\ h[at.num] # NoFile /\ h[at.num] \in Seq(Cells)
      /\ f[at.num] # NoFile => h[at.num] = f[at.num]
      /\ \A n \in FileNums \ {at.num} : h[n] = f[n]
  BY Zenon, OpenedFile
<1> HIDE DEF h
<1>2. at.off \in Nat
  BY Zenon DEF Locations
<1>3. /\ s \in Seq(Cells) /\ Len(s) >= at.off + Len(cells)
      /\ \A i \in 1..at.off : i <= Len(h[at.num]) => s[i] = h[at.num][i]
      /\ \A i \in 1..Len(cells) : s[at.off + i] = cells[i]
  BY ZenonT(60), <1>1, <1>2, WriteAtSeq
<1>4. g = [h EXCEPT ![at.num] = s]
  BY Zenon, <1>1 DEF h, Files, Wrote
<1> HIDE DEF s
<1>5. \A i \in 1..at.off : i <= Len(s)
  BY <1>2, <1>3
<1>6. SameUnder(f, h, at)
  <2>1. \A n \in FileNums : n < at.num => n \in FileNums \ {at.num}
    BY SMTT(60), FfldbAssumption DEF FileNums, Locations
  <2> QED
    BY ZenonT(60), <1>1, <2>1 DEF SameUnder
<1>7. KeepsStart(f, s, at)
  BY ZenonT(60), <1>1, <1>3, <1>5 DEF KeepsStart
<1>8. /\ [h EXCEPT ![at.num] = s] \in Files /\ [h EXCEPT ![at.num] = s][at.num] = s /\ s # NoFile
      /\ Preserves(f, [h EXCEPT ![at.num] = s], at)
  BY ZenonT(60), <1>1, <1>3, <1>6, <1>7, ReplacedFile
<1>9. Contains(s, at.off, cells)
  BY ZenonT(60), <1>3, <1>8 DEF Contains
<1> QED
  BY ZenonT(60), <1>4, <1>8, <1>9

(* handleRollback, whether it succeeds or fails, leaves what lies before   *)
(* the position it goes back to.                                           *)
LEMMA RollbackKeepsFiles ==
    ASSUME NEW f \in Files, NEW d \in Files, NEW w, NEW old \in Locations, old.num \in FileNums,
           handleRollback(f, d, w, old)
    PROVE  /\ file' \in Files /\ disk' \in Files /\ Preserves(f, file', old)
           /\ disk' = d \/ disk' = [d EXCEPT ![old.num] = file'[old.num]]
           /\ wc'.num = old.num /\ wc'.off = old.off
<1> DEFINE newer == Newer(w, old)
           left == Deleted(f, newer)
           opened == openWriteFile(left, old.num)
           cut == [opened EXCEPT ![old.num] = Truncate(@, old.off)]
<1>1. ASSUME NEW N \in SUBSET newer
      PROVE  /\ Deleted(f, N) \in Files /\ Preserves(f, Deleted(f, N), old)
             /\ \A n \in FileNums : n <= old.num => Deleted(f, N)[n] = f[n]
  <2>1. Deleted(f, N) \in Files
    BY Zenon DEF Deleted, Files
  <2>2. \A n \in FileNums : n <= old.num => n \notin N
    BY FfldbAssumption DEF Newer, FileNums, Locations
  <2>3. \A n \in FileNums : n <= old.num => Deleted(f, N)[n] = f[n]
    BY Zenon, <2>2 DEF Deleted
  <2> QED
    BY ZenonT(60), <2>1, <2>3, SameBelow
<1>2. /\ left \in Files /\ Preserves(f, left, old) /\ left[old.num] = f[old.num]
      /\ \A n \in FileNums : n <= old.num => left[n] = f[n]
  <2>1. old.num <= old.num
    BY DEF Locations
  <2>2. newer \in SUBSET newer
    BY Zenon
  <2> HIDE DEF newer
  <2>3. /\ left \in Files /\ Preserves(f, left, old)
        /\ \A n \in FileNums : n <= old.num => left[n] = f[n]
    BY ZenonT(60), <1>1, <2>2
  <2> HIDE DEF left
  <2> QED
    BY ZenonT(60), <2>1, <2>3
<1> HIDE DEF left
<1>3. /\ opened \in Files /\ opened[old.num] \in Seq(Cells) /\ opened[old.num] # NoFile
      /\ f[old.num] # NoFile => opened[old.num] = f[old.num]
      /\ SameUnder(f, opened, old)
  <2>1. \A n \in FileNums : n < old.num => n <= old.num /\ n \in FileNums \ {old.num}
    BY FfldbAssumption DEF FileNums, Locations
  <2>2. /\ opened \in Files /\ opened[old.num] # NoFile /\ opened[old.num] \in Seq(Cells)
        /\ left[old.num] # NoFile => opened[old.num] = left[old.num]
        /\ \A n \in FileNums \ {old.num} : opened[n] = left[n]
    BY ZenonT(60), <1>2, OpenedFile
  <2> HIDE DEF opened
  <2> QED
    BY ZenonT(60), <1>2, <2>1, <2>2 DEF SameUnder
<1>4. Preserves(f, opened, old)
  BY Zenon, <1>3 DEF Preserves, SameUnder
<1>5. cut \in Files /\ Preserves(f, cut, old)
  <2> DEFINE s == Truncate(opened[old.num], old.off)
  <2>1. old.off \in Nat
    BY Zenon DEF Locations
  <2>2. /\ s \in Seq(Cells) /\ Len(s) = old.off
        /\ \A i \in 1..old.off : i <= Len(opened[old.num]) => s[i] = opened[old.num][i]
    BY ZenonT(60), <1>3, <2>1, TruncateSeq
  <2>3. cut = [opened EXCEPT ![old.num] = s]
    BY ZenonT(60), <1>3 DEF Files
  <2> HIDE DEF s, opened, cut
  <2>4. \A i \in 1..old.off : i <= Len(s)
    BY SMTT(60), <2>1, <2>2
  <2>5. KeepsStart(f, s, old)
    BY ZenonT(60), <1>3, <2>2, <2>4 DEF KeepsStart
  <2> QED
    BY Zenon, <1>3, <2>2, <2>3, <2>5, ReplacedFile
<1>6. Preserves(f, f, old)
  BY Zenon, SameBelow
<1>7. ASSUME NEW g, NEW e, NEW isOpen, RollbackEnds(g, e, old, isOpen), g \in Files, Preserves(f, g, old),
             e = d \/ (g = cut /\ e = [d EXCEPT ![old.num] = cut[old.num]])
      PROVE  /\ file' \in Files /\ disk' \in Files /\ Preserves(f, file', old)
             /\ disk' = d \/ disk' = [d EXCEPT ![old.num] = file'[old.num]]
             /\ wc'.num = old.num /\ wc'.off = old.off
  <2>1. file' = g /\ disk' = e /\ wc' = [num |-> old.num, off |-> old.off, open |-> isOpen]
    BY Zenon, <1>7 DEF RollbackEnds
  <2>2. wc'.num = old.num /\ wc'.off = old.off
    BY ZenonT(60), <2>1
  <2>3. [d EXCEPT ![old.num] = cut[old.num]] \in Files
    BY Zenon, <1>5 DEF Files
  <2> QED
    BY ZenonT(60), <1>7, <2>1, <2>2, <2>3
<1>8. CASE w.num = old.num /\ w.off = old.off
  BY ZenonT(60), <1>6, <1>7, <1>8 DEF handleRollback
<1>9. CASE ~(w.num = old.num /\ w.off = old.off)
  <2>1. \/ RollbackEnds(cut, [d EXCEPT ![old.num] = cut[old.num]], old, TRUE)
        \/ RollbackFails(f, d, w, old, newer, left, cut)
    BY Zenon, <1>9 DEF handleRollback, left
  <2>2. ASSUME NEW n \in newer, RollbackEnds(Deleted(f, {m \in newer : m > n}), d, old, FALSE)
        PROVE  /\ file' \in Files /\ disk' \in Files /\ Preserves(f, file', old)
               /\ disk' = d \/ disk' = [d EXCEPT ![old.num] = file'[old.num]]
               /\ wc'.num = old.num /\ wc'.off = old.off
    <3>1. {m \in newer : m > n} \in SUBSET newer
      BY Zenon
    <3> QED
      BY ZenonT(60), <1>1, <1>7, <2>2, <3>1
  <2> HIDE DEF newer, cut, opened
  <2>3. CASE RollbackFails(f, d, w, old, newer, left, cut)
    <3>1. \/ \E n \in newer : RollbackEnds(Deleted(f, {m \in newer : m > n}), d, old, FALSE)
          \/ RollbackEnds(left, d, old, FALSE)
          \/ RollbackEnds(opened, d, old, TRUE)
          \/ RollbackEnds(cut, d, old, TRUE)
      BY Zenon, <2>3 DEF RollbackFails, opened
    <3> QED
      BY ZenonT(60), <1>2, <1>3, <1>4, <1>5, <1>7, <2>2, <3>1
  <2> QED
    BY ZenonT(60), <1>5, <1>7, <2>1, <2>3
<1> QED
  BY Zenon, <1>8, <1>9

LEMMA ScrambledSeq ==
    ASSUME NEW d \in Seq(Cells), NEW f \in Seq(Cells), NEW len \in Nat
    PROVE  /\ Scrambled(d, f, len) \in Seq(Cells) /\ Len(Scrambled(d, f, len)) = len
           /\ \A i \in 1..len : i <= Len(d) /\ i <= Len(f) /\ d[i] = f[i] => Scrambled(d, f, len)[i] = f[i]
<1> DEFINE Kept(i) == i <= Len(d) /\ i <= Len(f) /\ d[i] = f[i]
           g == [i \in 1..len |-> IF Kept(i) THEN d[i] ELSE Garbage]
<1>1. g \in [1..len -> Cells]
  BY DEF Cells
<1>2. Scrambled(d, f, len) = SubSeq(g, 1, len)
  BY Zenon DEF Scrambled
<1>3. \A i \in 1..len : Kept(i) => g[i] = f[i]
  BY Zenon
<1> HIDE DEF g
<1>4. /\ SubSeq(g, 1, len) \in Seq(Cells) /\ Len(SubSeq(g, 1, len)) = len
      /\ \A i \in 1..len : SubSeq(g, 1, len)[i] = g[i]
  BY Zenon, <1>1, TableSeq
<1> QED
  BY ZenonT(60), <1>2, <1>3, <1>4

(* A file that was there and on the disk is there after a power failure,   *)
(* no shorter than either, with the cells on which they agree.             *)
LEMMA SurvivorKeeps ==
    ASSUME file \in Files, disk \in Files, NEW n \in FileNums, NEW s \in Survivors(n)
    PROVE  /\ s \in Seq(Cells) \cup {NoFile}
           /\ file[n] # NoFile /\ disk[n] # NoFile =>
                 /\ s # NoFile
                 /\ Len(s) >= Len(file[n]) \/ Len(s) >= Len(disk[n])
                 /\ \A i \in 1..Len(s) : i <= Len(disk[n]) /\ i <= Len(file[n]) /\ disk[n][i] = file[n][i]
                                            => s[i] = file[n][i]
<1>1. file[n] \in Seq(Cells) \cup {NoFile} /\ disk[n] \in Seq(Cells) \cup {NoFile} /\ NoFile \notin Seq(Cells)
  BY Zenon, FfldbAssumption DEF Files
<1> DEFINE d == IF disk[n] = NoFile THEN <<>> ELSE disk[n]
<1>2. d \in Seq(Cells)
  BY <1>1
<1>3. CASE file[n] = NoFile
  BY Zenon, <1>1, <1>3 DEF Survivors
<1>4. CASE file[n] # NoFile
  <2>1. file[n] \in Seq(Cells)
    BY ZenonT(60), <1>1, <1>4
  <2>2. \/ \E len \in Len(d)..Len(file[n]) \cup Len(file[n])..Len(d) : s = Scrambled(d, file[n], len)
        \/ disk[n] = NoFile /\ s = NoFile
    BY ZenonT(60), <1>4 DEF Survivors
  <2>3. CASE disk[n] = NoFile /\ s = NoFile
    BY ZenonT(60), <2>3
  <2>4. CASE \E len \in Len(d)..Len(file[n]) \cup Len(file[n])..Len(d) : s = Scrambled(d, file[n], len)
    <3>1. PICK len \in Len(d)..Len(file[n]) \cup Len(file[n])..Len(d) : s = Scrambled(d, file[n], len)
      BY ZenonT(60), <2>4
    <3> HIDE DEF d
    <3>2. len \in Nat /\ (len >= Len(file[n]) \/ len >= Len(d))
      BY SMTT(60), <1>2, <2>1
    <3>3. /\ s \in Seq(Cells) /\ Len(s) = len
          /\ \A i \in 1..len : i <= Len(d) /\ i <= Len(file[n]) /\ d[i] = file[n][i] => s[i] = file[n][i]
      BY ZenonT(60), <1>2, <2>1, <3>1, <3>2, ScrambledSeq
    <3>4. disk[n] # NoFile => d = disk[n]
      BY Zenon DEF d
    <3> QED
      BY ZenonT(60), <1>1, <3>2, <3>3, <3>4
  <2> QED
    BY ZenonT(60), <2>2, <2>3, <2>4
<1> QED
  BY Zenon, <1>3, <1>4

LEMMA SurvivesPower ==
    ASSUME file \in Files, disk \in Files, NEW left, left \in [FileNums -> UNION {Survivors(n) : n \in FileNums}],
           \A n \in FileNums : left[n] \in Survivors(n)
    PROVE  /\ left \in Files
           /\ \A b \in Blocks, loc \in Locations :
                 loc.num \in FileNums /\ Readable(file, b, loc) /\ Readable(disk, b, loc) => Readable(left, b, loc)
           /\ \A p \in Locations :
                 p.num \in FileNums /\ Covers(file, p) /\ Covers(disk, p) => Covers(left, p)
<1>1. left \in Files
  <2>1. \A n \in FileNums : left[n] \in Seq(Cells) \cup {NoFile}
    BY Zenon, SurvivorKeeps
  <2> QED
    BY Zenon, <2>1 DEF Files
<1>2. ASSUME NEW n \in FileNums, file[n] # NoFile, disk[n] # NoFile
      PROVE  /\ file[n] \in Seq(Cells) /\ disk[n] \in Seq(Cells) /\ left[n] \in Seq(Cells) /\ left[n] # NoFile
             /\ Len(left[n]) >= Len(file[n]) \/ Len(left[n]) >= Len(disk[n])
             /\ \A i \in 1..Len(left[n]) :
                   i <= Len(disk[n]) /\ i <= Len(file[n]) /\ disk[n][i] = file[n][i] => left[n][i] = file[n][i]
  BY ZenonT(60), <1>2, SurvivorKeeps DEF Files
<1>3. ASSUME NEW b \in Blocks, NEW loc \in Locations, loc.num \in FileNums,
             Readable(file, b, loc), Readable(disk, b, loc)
      PROVE  Readable(left, b, loc)
  <2> DEFINE n == loc.num
  <2>1. /\ file[n] \in Seq(Cells) \cup {NoFile} /\ disk[n] \in Seq(Cells) \cup {NoFile}
        /\ left[n] \in Seq(Cells) \cup {NoFile}
    BY ZenonT(60), <1>1, <1>3 DEF Files
  <2>2. /\ file[n] # NoFile /\ Len(file[n]) >= loc.off + Size[b]
        /\ \A i \in 1..Size[b] : file[n][loc.off + i] = <<b, i>>
    BY ZenonT(60), <1>3, <2>1, ReadableCells
  <2>3. /\ disk[n] # NoFile /\ Len(disk[n]) >= loc.off + Size[b]
        /\ \A i \in 1..Size[b] : disk[n][loc.off + i] = <<b, i>>
    BY ZenonT(60), <1>3, <2>1, ReadableCells
  <2>4. /\ file[n] \in Seq(Cells) /\ disk[n] \in Seq(Cells) /\ left[n] \in Seq(Cells) /\ left[n] # NoFile
        /\ Len(left[n]) >= Len(file[n]) \/ Len(left[n]) >= Len(disk[n])
        /\ \A i \in 1..Len(left[n]) :
              i <= Len(disk[n]) /\ i <= Len(file[n]) /\ disk[n][i] = file[n][i] => left[n][i] = file[n][i]
    BY ZenonT(60), <1>2, <1>3, <2>2, <2>3
  <2>5. loc.off \in Nat /\ Size[b] \in Nat
    BY ZenonT(60), RecordSeq DEF Locations
  <2> HIDE DEF n
  <2>6. Len(left[n]) >= loc.off + Size[b]
    BY SMTT(60), <2>2, <2>3, <2>4, <2>5
  <2>7. \A i \in 1..Size[b] : /\ loc.off + i \in 1..Len(left[n])
                              /\ loc.off + i <= Len(disk[n]) /\ loc.off + i <= Len(file[n])
    <3>1. /\ Len(left[n]) \in Nat /\ Len(disk[n]) \in Nat /\ Len(file[n]) \in Nat
          /\ Len(disk[n]) >= loc.off + Size[b] /\ Len(file[n]) >= loc.off + Size[b]
      BY SMTT(60), <2>2, <2>3, <2>4
    <3> QED
      BY SMTT(60), <2>5, <2>6, <3>1
  <2>8. \A i \in 1..Size[b] : left[n][loc.off + i] = <<b, i>>
    BY ZenonT(60), <2>2, <2>3, <2>4, <2>7
  <2> QED
    BY ZenonT(60), <2>1, <2>4, <2>6, <2>8, ReadableCells DEF n
<1>4. ASSUME NEW p \in Locations, p.num \in FileNums, Covers(file, p), Covers(disk, p)
      PROVE  Covers(left, p)
  <2>1. CASE p.num = 0 /\ p.off = 0
    BY Zenon, <2>1 DEF Covers
  <2>2. CASE ~(p.num = 0 /\ p.off = 0)
    <3>1. /\ file[p.num] # NoFile /\ Len(file[p.num]) >= p.off
          /\ disk[p.num] # NoFile /\ Len(disk[p.num]) >= p.off
      BY ZenonT(60), <1>4, <2>2 DEF Covers
    <3>2. /\ file[p.num] \in Seq(Cells) /\ disk[p.num] \in Seq(Cells) /\ left[p.num] \in Seq(Cells)
          /\ left[p.num] # NoFile
          /\ Len(left[p.num]) >= Len(file[p.num]) \/ Len(left[p.num]) >= Len(disk[p.num])
      BY ZenonT(60), <1>2, <1>4, <3>1
    <3>3. p.off \in Nat
      BY Zenon DEF Locations
    <3>4. Len(left[p.num]) >= p.off
      BY SMTT(60), <3>1, <3>2, <3>3
    <3> QED
      BY Zenon, <3>2, <3>4 DEF Covers
  <2> QED
    BY Zenon, <2>1, <2>2
<1> QED
  BY ZenonT(60), <1>1, <1>3, <1>4

-----------------------------------------------------------------------------
(* Rows and positions.                                                     *)

LEMMA Reach ==
    ASSUME NEW p \in Locations, NEW q \in Locations, NEW r \in Locations
    PROVE  AtMost(p, p) /\ (AtMost(p, q) /\ AtMost(q, r) => AtMost(p, r))
BY SMTT(60) DEF Locations, AtMost

LEMMA EndType ==
    ASSUME NEW b \in Blocks, NEW loc \in Locations
    PROVE  End(b, loc) \in Locations /\ End(b, loc).num = loc.num /\ End(b, loc).off = loc.off + Size[b]
BY RecordSeq DEF Locations, End, Location

LEMMA PlacedFurther ==
    ASSUME NEW m, NEW f, NEW lost, NEW p \in Locations, NEW q \in Locations, AtMost(p, q),
           Placed(m, f, p, lost)
    PROVE  Placed(m, f, q, lost)
<1>1. \A b \in Blocks : \A loc \in Locations : AtMost(End(b, loc), p) => AtMost(End(b, loc), q)
  BY Zenon, EndType, Reach
<1> QED
  BY Zenon, <1>1 DEF Placed

LEMMA PlacedMoves ==
    ASSUME NEW m, NEW f \in Files, NEW g \in Files, NEW lost, NEW p \in Locations, NEW q \in Locations,
           q.num \in FileNums, AtMost(p, q), Preserves(f, g, q), Placed(m, f, p, lost)
    PROVE  Placed(m, g, p, lost)
<1>1. \A b \in Blocks : \A loc \in Locations : AtMost(End(b, loc), p) => AtMost(End(b, loc), q)
  BY Zenon, EndType, Reach
<1>2. \A b \in Blocks : \A loc \in Locations :
         Readable(f, b, loc) /\ AtMost(End(b, loc), q) => Readable(g, b, loc)
  BY Zenon, StaysReadable
<1> QED
  BY Zenon, <1>1, <1>2 DEF Placed

LEMMA SafeMoves ==
    ASSUME NEW f \in Files, NEW g \in Files, NEW lost, NEW p \in Locations, NEW q \in Locations,
           q.num \in FileNums, AtMost(p, q), Preserves(f, g, q), Safe(f, p, lost)
    PROVE  Safe(g, p, lost)
BY Zenon, StaysCovered DEF Safe

(* What is in two sets of files is in one whose every file is from either. *)
LEMMA MixedFiles ==
    ASSUME NEW f \in Files, NEW d \in Files, NEW e \in Files, \A n \in FileNums : e[n] = f[n] \/ e[n] = d[n],
           NEW m, NEW lost, NEW files, NEW p \in Locations, p.num \in FileNums
    PROVE  /\ Placed(m, f, p, lost) /\ Placed(m, d, p, lost) => Placed(m, e, p, lost)
           /\ Safe(f, p, files) /\ Safe(d, p, files) => Safe(e, p, files)
<1>1. ASSUME NEW b \in Blocks, NEW loc \in Locations, AtMost(End(b, loc), p), Readable(f, b, loc), Readable(d, b, loc)
      PROVE  Readable(e, b, loc)
  <2>1. loc.num \in FileNums
    BY ZenonT(60), <1>1, EndType, Below
  <2> QED
    BY ZenonT(60), <1>1, <2>1 DEF Readable
<1> QED
  BY Zenon, <1>1 DEF Placed, Safe, Covers

(* The types of the positions.                                             *)
LEMMA Positions ==
    ASSUME IInv, FilesInv
    PROVE  /\ ldb[Cursor] \in Locations /\ Current[Cursor] \in Locations /\ Limit \in Locations /\ Here \in Locations
           /\ Here.num = wc.num /\ Here.off = wc.off /\ wc.num \in FileNums
           /\ Limit.num \in FileNums /\ Current[Cursor].num \in FileNums /\ ldb[Cursor].num \in FileNums
           /\ AtMost(ldb[Cursor], Current[Cursor]) /\ AtMost(Current[Cursor], Limit) /\ AtMost(Limit, Here)
           /\ AtMost(ldb[Cursor], Limit) /\ AtMost(ldb[Cursor], Here) /\ AtMost(Current[Cursor], Here)
<1>1. ldb[Cursor] \in Locations /\ wc \in [num: Nat, off: Nat, open: BOOLEAN] /\ tx.old \in Locations
  BY Zenon DEF IInv, TypeOK, Transactions
<1>2. Here \in Locations /\ Here.num = wc.num /\ Here.off = wc.off
  BY SMTT(60), <1>1 DEF Here, Location, Locations
<1>3. Current[Cursor] \in Locations
  BY ZenonT(60), <1>1 DEF IInv, CursorKept, Current, Overlay, Items
<1>4. Limit \in Locations
  BY ZenonT(60), <1>1, <1>2 DEF Limit
<1>5. /\ wc.num \in FileNums
      /\ AtMost(ldb[Cursor], Current[Cursor]) /\ AtMost(Current[Cursor], Limit) /\ AtMost(Limit, Here)
  BY Zenon DEF FilesInv, Order
<1>6. AtMost(ldb[Cursor], Limit) /\ AtMost(ldb[Cursor], Here) /\ AtMost(Current[Cursor], Here)
  BY ZenonT(60), <1>1, <1>2, <1>3, <1>4, <1>5, Reach
<1>7. Limit.num \in FileNums /\ Current[Cursor].num \in FileNums /\ ldb[Cursor].num \in FileNums
  BY ZenonT(60), <1>1, <1>2, <1>3, <1>4, <1>5, <1>6, Below
<1> QED
  BY ZenonT(60), <1>1, <1>2, <1>3, <1>4, <1>5, <1>6, <1>7

-----------------------------------------------------------------------------
(* Steps of the write transaction that leave files and metadata alone.     *)

FilesSame == UNCHANGED <<file, disk, wc, ldb, puts, dels, state, unsynced, gone, pruned>>

LEMMA SameViews ==
    ASSUME FilesSame
    PROVE  Current' = Current /\ Here' = Here /\ AllSynced' = AllSynced
BY Zenon DEF FilesSame, Current, Overlay, Here, Location, AllSynced

LEMMA TxMoves ==
    ASSUME IInv, FilesInv, FilesSame, reader' = reader,
           Limit' = Here \/ Limit' = Limit, Writing',
           tx'.stage \in {"ldb", "clear", "direct"} /\ ~unsynced => AllSynced
    PROVE  FilesInv'
<1>1. Current' = Current /\ Here' = Here /\ AllSynced' = AllSynced
  BY Zenon, SameViews
<1>2. /\ AtMost(Current[Cursor], Limit') /\ AtMost(Limit', Here) /\ Safe(file, Limit', gone)
  BY ZenonT(60), Positions, Reach DEF FilesInv, Grounded
<1>3. Order' /\ Index' /\ Read' /\ Grounded'
  BY ZenonT(60), <1>1, <1>2 DEF FilesSame, FilesInv, Order, Index, Read, Grounded
<1>4. ~unsynced' => OnDisk'
  BY Zenon, <1>1 DEF FilesSame, FilesInv, OnDisk
<1> QED
  BY ZenonT(60), <1>3, <1>4 DEF FilesSame, FilesInv

LEMMA ReaderMoves ==
    ASSUME FilesInv, FilesSame, tx' = tx, Read'
    PROVE  FilesInv'
<1>1. Current' = Current /\ Here' = Here /\ AllSynced' = AllSynced /\ Limit' = Limit
  BY ZenonT(60), SameViews DEF Limit, Holds
<1> QED
  BY Zenon, <1>1 DEF FilesSame, FilesInv, Order, Index, Grounded, Writing, OnDisk, Holds

LEMMA NoRows ==
    ASSUME NEW m, NEW f, NEW p, NEW lost, \A b \in Blocks : m[b] = Absent
    PROVE  Placed(m, f, p, lost)
BY Zenon DEF Placed

(* A transaction without blocks and removals.                              *)
LEMMA PlainTx ==
    ASSUME NEW st, NEW why, NEW old, tx' = Begun(st, why, old) \/ tx' = [Begun(st, why, old) EXCEPT !.stage = "closed"],
           why # "commit"
    PROVE  Writing'
<1>1. /\ tx'.puts = Nothing /\ tx'.dels = {} /\ tx'.stored = {} /\ tx'.drop = {} /\ tx'.why = why
  BY DEF Begun
<1>2. \A b \in Blocks : tx'.puts[b] = Absent
  BY Zenon, <1>1 DEF Nothing, Items
<1>3. Placed(tx'.puts, file', Here', pruned')
  BY ZenonT(60), <1>2, NoRows
<1> QED
  BY ZenonT(60), <1>1, <1>3 DEF Writing

LEMMA IdleTx ==
    ASSUME tx' = Idle
    PROVE  Writing' /\ Limit' = Here' /\ tx'.stage = "idle"
<1>1. tx' = Begun("idle", "none", Location(0, 0)) /\ "none" # "commit"
  BY Zenon DEF Idle
<1>2. Writing'
  BY ZenonT(60), <1>1, PlainTx
<1>3. tx'.stage = "idle"
  BY <1>1 DEF Begun
<1>4. ~(tx'.stage = "write")
  BY Zenon, <1>3
<1> QED
  BY ZenonT(60), <1>2, <1>3, <1>4 DEF Limit, Holds

LEMMA ReturnsFiles ==
    ASSUME IInv, FilesInv, FilesSame, reader' = reader, tx' = Idle
    PROVE  FilesInv'
BY ZenonT(60), IdleTx, SameViews, TxMoves

LEMMA UpdateFiles == ASSUME IInv, FilesInv, NEW s \in Scripts, Update(s) PROVE FilesInv'
<1> DEFINE drop == IF s.prune THEN PrunedFiles ELSE {}
           rows == UNION {Stored(Current, n) : n \in drop}
<1>1. /\ FilesSame /\ reader' = reader
      /\ \A b \in Listed(s.blocks) : Current[b] = Absent
      /\ tx' = [Started("write", "commit") EXCEPT
                    !.puts = s.puts, !.dels = s.dels \cup rows,
                    !.left = s.blocks, !.stored = {s.blocks[i] : i \in DOMAIN s.blocks}, !.drop = drop]
  BY Zenon DEF Update, FilesSame, fileVars, metaVars, history, Listed
<1>2. /\ tx'.stage = "write" /\ tx'.puts = s.puts /\ tx'.dels = s.dels \cup rows /\ tx'.drop = drop
      /\ tx'.stored = Listed(s.blocks) /\ tx'.old = Here
  BY Zenon, <1>1 DEF Started, Begun, Here, Listed
<1>3. Current' = Current /\ Here' = Here
  BY ZenonT(60), <1>1, SameViews
<1>4. Limit' = Here
  BY ZenonT(60), <1>2 DEF Limit, Holds
<1>5. s.dels \cap Blocks = {} /\ \A b \in Blocks : s.puts[b] = Absent
  BY ZenonT(60), FfldbAssumption
<1>6. \A b \in Blocks \cap tx'.dels : Current'[b].num \in tx'.drop
  <2> SUFFICES ASSUME NEW b \in Blocks \cap tx'.dels PROVE Current[b].num \in drop
    BY ZenonT(60), <1>2, <1>3
  <2>1. b \in rows
    BY ZenonT(60), <1>2, <1>5
  <2>2. PICK n \in drop : b \in Stored(Current, n)
    BY Zenon, <2>1
  <2> QED
    BY ZenonT(60), <2>2 DEF Stored
<1>7. Placed(tx'.puts, file', Here', pruned')
  BY ZenonT(60), <1>2, <1>5, NoRows
<1>8. tx'.stage \notin {"ldb", "clear", "direct"} /\ tx'.stage \notin {"sync", "ldb", "clear", "direct"}
  BY Zenon, <1>2
<1> HIDE DEF drop, rows
<1>9. Writing'
  BY ZenonT(60), <1>1, <1>2, <1>3, <1>5, <1>6, <1>7, <1>8 DEF Writing, Holds
<1> QED
  BY ZenonT(60), <1>1, <1>4, <1>8, <1>9, TxMoves

(* The stage of a transaction moves on.                                    *)
LEMMA StageFiles ==
    ASSUME IInv, FilesInv, FilesSame, reader' = reader, NEW st \in {"sync", "ldb", "clear", "direct", "closed"}, Step(st),
           ~Holds("write"), tx.why = "commit" /\ tx.stage \notin {"sync", "ldb", "clear", "direct"} => st = "closed",
           st \in {"ldb", "clear", "direct"} /\ ~unsynced => AllSynced
    PROVE  FilesInv'
<1>1. tx' = [tx EXCEPT !.stage = st] /\ tx \in Transactions
  BY Zenon DEF Step, IInv, TypeOK
<1>2. /\ tx'.stage = st /\ tx'.puts = tx.puts /\ tx'.dels = tx.dels /\ tx'.stored = tx.stored /\ tx'.drop = tx.drop
      /\ tx'.why = tx.why
  BY Zenon, <1>1 DEF Transactions
<1>3. Current' = Current /\ Here' = Here
  BY ZenonT(60), SameViews
<1>4. Limit' = Here
  BY ZenonT(60), <1>2, <1>3 DEF Limit, Holds
<1>5. tx.drop = {}
  BY Zenon DEF FilesInv, Writing
<1>6. Writing'
  BY ZenonT(60), <1>2, <1>3, <1>5 DEF FilesSame, FilesInv, Writing
<1> QED
  BY ZenonT(60), <1>2, <1>4, <1>6, TxMoves

LEMMA needsFlushFiles == ASSUME IInv, FilesInv, needsFlush PROVE FilesInv'
<1>1. /\ FilesSame /\ reader' = reader /\ Holds("write") /\ tx.drop = {}
      /\ tx' = [tx EXCEPT !.stage = "sync", !.puts = WithCursor] /\ tx \in Transactions
  BY Zenon DEF needsFlush, FilesSame, fileVars, metaVars, history, IInv, TypeOK
<1>2. /\ tx'.stage = "sync" /\ tx'.puts = WithCursor /\ tx'.dels = tx.dels /\ tx'.stored = tx.stored
      /\ tx'.drop = tx.drop /\ tx'.why = tx.why
  BY Zenon, <1>1 DEF Transactions
<1>3. Current' = Current /\ Here' = Here
  BY ZenonT(60), <1>1, SameViews
<1>4. Limit' = Here
  BY ZenonT(60), <1>2, <1>3 DEF Limit, Holds
<1>5. WithCursor[Cursor] = Here /\ \A b \in Blocks : WithCursor[b] = tx.puts[b]
  <2>1. tx.puts \in [Items -> Values \cup Locations \cup {Absent}]
    BY Zenon, <1>1 DEF Transactions, Rows
  <2> QED
    BY SMTT(60), <2>1, FfldbAssumption DEF WithCursor, Here, Items
<1>6. Placed(tx'.puts, file', Here', pruned')
  <2>1. Placed(tx.puts, file, Here, pruned)
    BY Zenon DEF FilesInv, Writing
  <2>2. Placed(WithCursor, file, Here, pruned)
    BY ZenonT(60), <1>5, <2>1 DEF Placed
  <2> QED
    BY ZenonT(60), <1>1, <1>2, <1>3, <2>2 DEF FilesSame
<1>7. Writing'
  BY ZenonT(60), <1>1, <1>2, <1>3, <1>5, <1>6 DEF FilesSame, FilesInv, Writing
<1> QED
  BY ZenonT(60), <1>1, <1>2, <1>4, <1>7, TxMoves

LEMMA StartFiles ==
    ASSUME IInv, FilesInv, FilesSame, reader' = reader, tx' = Started("sync", "sync") \/ tx' = Started("sync", "close")
    PROVE  FilesInv'
<1>1. Writing'
  BY ZenonT(60), PlainTx DEF Started
<1>2. tx'.stage = "sync"
  BY SMTT(60) DEF Started, Begun
<1>3. Limit' = Here
  BY ZenonT(60), <1>2, SameViews DEF Limit, Holds
<1> QED
  BY ZenonT(60), <1>1, <1>2, <1>3, TxMoves

LEMMA DeleteFileFiles == ASSUME IInv, FilesInv, DeleteFile PROVE FilesInv'
<1> DEFINE n == CHOOSE m \in tx.drop : \A k \in tx.drop : m <= k
           lost == UNION {{<<b, m[b]>> : b \in Stored(m, n)} : m \in {Current, ldb}}
<1>1. /\ Holds("write") /\ tx.drop # {} /\ file' = Deleted(file, {n}) /\ tx' = [tx EXCEPT !.drop = @ \ {n}]
      /\ gone' = gone \cup {n} /\ pruned' = pruned \cup lost
      /\ UNCHANGED <<disk, wc, ldb, puts, dels, reader, state, unsynced>>
  BY Zenon DEF DeleteFile, metaVars
<1>2. /\ \A b \in Blocks : Current[b] # Absent /\ Current[b].num = n => <<b, Current[b]>> \in pruned'
      /\ \A b \in Blocks : ldb[b] # Absent /\ ldb[b].num = n => <<b, ldb[b]>> \in pruned'
      /\ pruned \subseteq pruned' /\ gone \subseteq gone' /\ n \in gone'
  <2> HIDE DEF n
  <2>1. ASSUME NEW m \in {Current, ldb}, NEW b \in Blocks, m[b] # Absent, m[b].num = n
        PROVE  <<b, m[b]>> \in lost
    <3>1. b \in Stored(m, n)
      BY Zenon, <2>1 DEF Stored
    <3>2. <<b, m[b]>> \in {<<x, m[x]>> : x \in Stored(m, n)}
      BY ZenonT(60), <3>1
    <3> QED
      BY Zenon, <3>2
  <2> HIDE DEF lost
  <2> QED
    BY ZenonT(60), <1>1, <2>1
<1> HIDE DEF lost, n
<1>3. tx \in Transactions /\ file \in Files
  BY Zenon DEF IInv, TypeOK, FilesInv
<1>4. /\ tx'.stage = "write" /\ tx'.puts = tx.puts /\ tx'.dels = tx.dels /\ tx'.stored = tx.stored
      /\ tx'.drop = tx.drop \ {n} /\ tx'.why = tx.why /\ tx'.old = tx.old
  BY ZenonT(60), <1>1, <1>3 DEF Transactions, Holds
<1>5. Current' = Current /\ Here' = Here /\ Limit' = Limit
  BY ZenonT(60), <1>1, <1>4 DEF Current, Overlay, Here, Location, Limit, Holds
<1>6. file' \in Files /\ \A k \in FileNums : k # n => file'[k] = file[k]
  BY ZenonT(60), <1>1, <1>3 DEF Deleted, Files
<1>7. \A b \in Blocks : \A loc \in Locations :
         loc.num \in FileNums /\ loc.num # n /\ Readable(file, b, loc) => Readable(file', b, loc)
  BY ZenonT(60), <1>6 DEF Readable
<1>8. ASSUME NEW m, NEW p \in Locations, p.num \in FileNums, Placed(m, file, p, pruned),
             \A b \in Blocks : m[b] # Absent /\ m[b].num = n => <<b, m[b]>> \in pruned'
      PROVE  Placed(m, file', p, pruned')
  <2>1. \A b \in Blocks : \A loc \in Locations : AtMost(End(b, loc), p) => loc.num \in FileNums
    BY ZenonT(60), <1>8, EndType, Below
  <2> QED
    BY ZenonT(60), <1>2, <1>7, <1>8, <2>1 DEF Placed
<1>9. \A p \in Locations : p.num \in FileNums /\ Safe(file, p, gone) => Safe(file', p, gone')
  BY ZenonT(60), <1>2, <1>6 DEF Safe, Covers
<1>10. Order' /\ Grounded'
  BY ZenonT(60), <1>1, <1>5, <1>9, Positions DEF FilesInv, Order, Grounded
<1>11. Index'
  BY ZenonT(60), <1>1, <1>2, <1>5, <1>8, Positions DEF FilesInv, Index, RowsIn
<1>12. Read'
  BY ZenonT(60), <1>1, <1>2, <1>5 DEF FilesInv, Read, RowsIn
<1>13. Writing'
  <2>1. \A b \in Blocks : tx'.puts[b] = Absent
    BY ZenonT(60), <1>1, <1>4 DEF FilesInv, Writing
  <2>2. Placed(tx'.puts, file', Here', pruned')
    BY ZenonT(60), <2>1, NoRows
  <2>3. ASSUME NEW b \in Blocks \cap tx'.dels, Current'[b] # Absent
        PROVE  <<b, Current'[b]>> \in pruned' \/ Current'[b].num \in tx'.drop
    BY ZenonT(60), <1>2, <1>4, <1>5, <2>3 DEF FilesInv, Writing
  <2>4. tx'.stage \notin {"sync", "ldb", "clear", "direct"}
    BY ZenonT(60), <1>4
  <2> QED
    BY ZenonT(60), <1>4, <1>5, <2>1, <2>2, <2>3, <2>4 DEF FilesInv, Writing, Holds
<1>14. ~unsynced' => OnDisk'
  <2>1. tx'.stage \notin {"ldb", "clear", "direct"}
    BY ZenonT(60), <1>4
  <2> QED
    BY ZenonT(60), <1>1, <1>2, <2>1 DEF FilesInv, OnDisk, Placed, Safe
<1> QED
  BY ZenonT(60), <1>1, <1>6, <1>10, <1>11, <1>12, <1>13, <1>14 DEF FilesInv

(* Where writeBlock puts a block.                                          *)
LEMMA TargetPlace ==
    ASSUME IInv, FilesInv, NEW b \in Blocks, Target(b).num <= MaxFileNum
    PROVE  Target(b) \in Locations /\ Target(b).num \in FileNums /\ AtMost(Here, Target(b))
<1>1. wc.num \in Nat /\ wc.off \in Nat
  BY Zenon DEF IInv, TypeOK
<1> DEFINE at == Target(b)
<1>2. at = Location(wc.num + 1, 0) \/ at = Location(wc.num, wc.off)
  BY ZenonT(60) DEF Target
<1>3. at \in Locations /\ (at.num = wc.num + 1 \/ (at.num = wc.num /\ at.off = wc.off))
  BY SMTT(60), <1>1, <1>2 DEF Location, Locations
<1>4. Here.num = wc.num /\ Here.off = wc.off
  BY SMTT(60) DEF Here, Location
<1> HIDE DEF at
<1>5. AtMost(Here, at)
  BY SMTT(60), <1>1, <1>3, <1>4 DEF AtMost
<1>6. at.num \in FileNums
  BY SMTT(60), <1>1, <1>3, FfldbAssumption DEF FileNums, at
<1> QED
  BY ZenonT(60), <1>3, <1>5, <1>6 DEF at

LEMMA writeBlockFiles == ASSUME IInv, FilesInv, writeBlock PROVE FilesInv'
<1> DEFINE b == Head(tx.left)
           at == Target(b)
           cells == Record(b)
<1>1. /\ Holds("write") /\ tx.drop = {} /\ tx.left # <<>> /\ at.num <= MaxFileNum
      /\ file' = [openWriteFile(file, at.num) EXCEPT ![at.num] = WriteAt(@, at.off, cells)]
      /\ wc' = [num |-> at.num, off |-> at.off + Size[b], open |-> TRUE]
      /\ tx' = [tx EXCEPT !.left = Tail(@), !.puts[b] = at]
      /\ UNCHANGED <<disk, ldb, puts, dels, reader, state, unsynced, gone, pruned>>
  BY Zenon DEF writeBlock, metaVars, history
<1>2. tx \in Transactions /\ file \in Files /\ disk \in Files
  BY ZenonT(60) DEF IInv, TypeOK, FilesInv
<1>3. b \in Blocks
  <2>1. tx.left \in Seq(Blocks)
    BY Zenon, <1>2 DEF Transactions
  <2> QED
    BY SMTT(60), <1>1, <2>1
<1> HIDE DEF b
<1>4. at \in Locations /\ at.num \in FileNums /\ AtMost(Here, at)
  BY ZenonT(60), <1>1, <1>3, TargetPlace
<1> HIDE DEF at
<1>5. /\ cells \in Seq(Cells) /\ Len(cells) = Size[b] /\ Size[b] \in Nat
      /\ \A i \in 1..Size[b] : cells[i] = <<b, i>>
  BY ZenonT(60), <1>3, RecordSeq
<1> HIDE DEF cells
<1>6. file' \in Files /\ Preserves(file, file', at) /\ Contains(file'[at.num], at.off, cells)
  <2>1. Wrote(file, at, cells, file')
    BY Zenon, <1>1 DEF Wrote
  <2> QED
    BY ZenonT(60), <1>2, <1>4, <1>5, <2>1, WrittenFile
<1>7. Readable(file', b, at)
  BY ZenonT(60), <1>3, <1>4, <1>5, <1>6, ReadableCells DEF Contains
<1>8. /\ Here' = End(b, at) /\ Here' \in Locations /\ AtMost(at, Here') /\ Here'.num = at.num
      /\ Here'.off = at.off + Size[b] /\ wc'.num = at.num
  <2>1. Here' = End(b, at) /\ wc'.num = at.num
    BY <1>1 DEF Here, End
  <2>2. End(b, at) \in Locations /\ End(b, at).num = at.num /\ End(b, at).off = at.off + Size[b]
    BY ZenonT(60), <1>3, <1>4, EndType
  <2>3. AtMost(at, End(b, at))
    BY SMTT(60), <1>4, <1>5, <2>2 DEF AtMost, Locations
  <2> QED
    BY Zenon, <2>1, <2>2, <2>3
<1>9. /\ tx'.stage = "write" /\ tx'.dels = tx.dels /\ tx'.stored = tx.stored /\ tx'.drop = {}
      /\ tx'.old = tx.old /\ tx'.puts = [tx.puts EXCEPT ![b] = at]
  BY ZenonT(60), <1>1, <1>2 DEF Transactions, Holds
<1>10. Current' = Current /\ Limit' = Limit
  BY ZenonT(60), <1>1, <1>9 DEF Current, Overlay, Limit, Holds
<1>11. /\ AtMost(ldb[Cursor], at) /\ AtMost(Current[Cursor], at) /\ AtMost(Limit, at) /\ AtMost(Here, at)
       /\ ldb[Cursor] \in Locations /\ Current[Cursor] \in Locations /\ Limit \in Locations /\ Here \in Locations
  BY ZenonT(60), <1>4, Positions, Reach
<1>12. Order'
  <2>1. AtMost(Limit, Here')
    BY ZenonT(60), <1>4, <1>8, <1>11, Reach
  <2> QED
    BY ZenonT(60), <1>1, <1>4, <1>8, <1>10, <2>1, Positions DEF Order
<1>13. Index'
  BY ZenonT(60), <1>1, <1>2, <1>4, <1>6, <1>10, <1>11, PlacedMoves DEF FilesInv, Index
<1>14. Read'
  BY Zenon, <1>1, <1>10 DEF FilesInv, Read
<1>15. Grounded'
  <2>1. Covers(file', Here')
    BY ZenonT(60), <1>5, <1>6, <1>8 DEF Covers, Contains
  <2> QED
    BY ZenonT(60), <1>1, <1>2, <1>4, <1>6, <1>10, <1>11, <2>1, SafeMoves DEF FilesInv, Grounded, Safe
<1>16. Placed(tx'.puts, file', Here', pruned')
  <2>1. Placed(tx.puts, file, Here, pruned)
    BY Zenon DEF FilesInv, Writing
  <2>2. Placed(tx.puts, file', Here, pruned)
    BY ZenonT(60), <1>2, <1>4, <1>6, <1>11, <2>1, PlacedMoves
  <2>3. AtMost(Here, Here')
    BY ZenonT(60), <1>4, <1>8, <1>11, Reach
  <2>4. Placed(tx.puts, file', Here', pruned)
    BY ZenonT(60), <1>8, <1>11, <2>2, <2>3, PlacedFurther
  <2>5. tx.puts \in [Items -> Values \cup Locations \cup {Absent}] /\ Blocks \subseteq Items
    BY ZenonT(60), <1>2 DEF Transactions, Rows, Items
  <2>6. tx'.puts[b] = at /\ \A x \in Blocks \ {b} : tx'.puts[x] = tx.puts[x]
    BY ZenonT(60), <1>3, <1>9, <2>5
  <2>7. AtMost(End(b, at), Here')
    BY ZenonT(60), <1>8, Reach
  <2>8. pruned' = pruned
    BY ZenonT(60), <1>1
  <2>9. \A x \in Blocks \ {b} :
          tx'.puts[x] # Absent => \/ <<x, tx'.puts[x]>> \in pruned
                                  \/ /\ tx'.puts[x] \in Locations /\ Readable(file', x, tx'.puts[x])
                                     /\ AtMost(End(x, tx'.puts[x]), Here')
    BY ZenonT(60), <2>4, <2>6 DEF Placed
  <2>10. tx'.puts[b] \in Locations /\ Readable(file', b, tx'.puts[b]) /\ AtMost(End(b, tx'.puts[b]), Here')
    BY ZenonT(60), <1>4, <1>7, <2>6, <2>7
  <2> QED
    BY ZenonT(60), <2>8, <2>9, <2>10 DEF Placed
<1>17. Writing'
  <2>1. tx'.stage \notin {"sync", "ldb", "clear", "direct"}
    BY ZenonT(60), <1>9
  <2> QED
    BY ZenonT(60), <1>1, <1>9, <1>10, <1>16, <2>1 DEF FilesInv, Writing
<1>18. ~unsynced' => OnDisk'
  <2>1. tx'.stage \notin {"ldb", "clear", "direct"}
    BY ZenonT(60), <1>9
  <2> QED
    BY ZenonT(60), <1>1, <2>1 DEF FilesInv, OnDisk
<1> QED
  BY ZenonT(60), <1>1, <1>2, <1>6, <1>12, <1>13, <1>14, <1>15, <1>17, <1>18 DEF FilesInv

(* A rollback ends the write transaction; the cursor is where it was, and  *)
(* so is everything that lies before it.                                   *)
LEMMA RolledBack ==
    ASSUME IInv, FilesInv, NEW g \in Files, Holds("write"),
           Placed(Current, g, Current[Cursor], pruned), Placed(ldb, g, ldb[Cursor], pruned),
           Safe(g, ldb[Cursor], gone), Safe(g, Current[Cursor], gone), Safe(g, Limit, gone),
           NEW w, handleRollback(g, disk, w, tx.old), tx' = Idle,
           UNCHANGED <<ldb, puts, dels, reader, state, unsynced, gone, pruned>>
    PROVE  FilesInv'
<1>1. Limit = tx.old
  BY Zenon DEF Limit
<1>2. /\ tx.old \in Locations /\ tx.old.num \in FileNums
      /\ AtMost(ldb[Cursor], tx.old) /\ AtMost(Current[Cursor], tx.old)
      /\ ldb[Cursor] \in Locations /\ Current[Cursor] \in Locations /\ ldb[Cursor].num \in FileNums
  BY ZenonT(60), <1>1, Positions
<1>3. disk \in Files
  BY ZenonT(60) DEF FilesInv
<1>4. /\ file' \in Files /\ disk' \in Files /\ Preserves(g, file', tx.old)
      /\ disk' = disk \/ disk' = [disk EXCEPT ![tx.old.num] = file'[tx.old.num]]
      /\ wc'.num = tx.old.num /\ wc'.off = tx.old.off
  BY SMTT(60), <1>2, <1>3, RollbackKeepsFiles
<1>5. Here' = tx.old
  BY SMTT(60), <1>2, <1>4 DEF Here, Location, Locations
<1>6. Writing' /\ Limit' = tx.old /\ tx'.stage = "idle"
  BY ZenonT(60), <1>5, IdleTx
<1>7. Current' = Current
  BY ZenonT(60) DEF Current, Overlay
<1>8. /\ Placed(Current, file', Current[Cursor], pruned) /\ Placed(ldb, file', ldb[Cursor], pruned)
      /\ Safe(file', ldb[Cursor], gone) /\ Safe(file', Current[Cursor], gone) /\ Safe(file', tx.old, gone)
  BY ZenonT(60), <1>1, <1>2, <1>4, PlacedMoves, SafeMoves, Reach
<1>9. Order'
  BY ZenonT(60), <1>2, <1>4, <1>5, <1>6, <1>7, Positions, Reach DEF Order
<1>10. Index' /\ Read'
  BY ZenonT(60), <1>7, <1>8 DEF FilesInv, Index, Read
<1>11. Grounded'
  BY ZenonT(60), <1>5, <1>6, <1>7, <1>8 DEF Grounded
<1>12. ~unsynced' => OnDisk'
  <2>1. tx'.stage \notin {"ldb", "clear", "direct"}
    BY ZenonT(60), <1>6
  <2>2. \A n \in FileNums : disk'[n] = file'[n] \/ disk'[n] = disk[n]
    BY ZenonT(60), <1>3, <1>4 DEF Files
  <2>3. ~unsynced => Placed(ldb, disk', ldb[Cursor], pruned) /\ Safe(disk', ldb[Cursor], gone)
    BY ZenonT(60), <1>2, <1>3, <1>4, <1>8, <2>2, MixedFiles DEF FilesInv, OnDisk
  <2> QED
    BY ZenonT(60), <2>1, <2>3 DEF OnDisk
<1> QED
  BY ZenonT(60), <1>4, <1>6, <1>9, <1>10, <1>11, <1>12 DEF FilesInv

LEMMA writeBlockFailsFiles == ASSUME IInv, FilesInv, writeBlockFails PROVE FilesInv'
<1> DEFINE b == Head(tx.left)
           at == Target(b)
<1>1. /\ Holds("write") /\ tx.left # <<>> /\ tx' = Idle
      /\ UNCHANGED <<ldb, puts, dels, reader, state, unsynced, gone, pruned>>
  BY ZenonT(60) DEF writeBlockFails, metaVars, history, Return
<1>2. PICK n \in 0..(Size[b] - 1), opens \in BOOLEAN :
         /\ at.num <= MaxFileNum
         /\ handleRollback(IF opens THEN [openWriteFile(file, at.num) EXCEPT ![at.num] = WriteAt(@, at.off, SubSeq(Record(b), 1, n))]
                           ELSE file,
                           disk,
                           IF opens THEN [num |-> at.num, off |-> at.off + n, open |-> TRUE]
                           ELSE [num |-> at.num, off |-> at.off, open |-> FALSE],
                           tx.old)
  BY ZenonT(60) DEF writeBlockFails
<1>3. file \in Files /\ tx \in Transactions
  BY ZenonT(60) DEF FilesInv, IInv, TypeOK
<1>4. b \in Blocks
  <2>1. tx.left \in Seq(Blocks)
    BY ZenonT(60), <1>3 DEF Transactions
  <2> QED
    BY SMTT(60), <1>1, <2>1
<1> HIDE DEF b
<1>5. at \in Locations /\ at.num \in FileNums /\ AtMost(Here, at)
  BY ZenonT(60), <1>2, <1>4, TargetPlace
<1>6. SubSeq(Record(b), 1, n) \in Seq(Cells)
  BY SMTT(60), <1>4, RecordSeq
<1> DEFINE cells == SubSeq(Record(b), 1, n)
           g == IF opens THEN [openWriteFile(file, at.num) EXCEPT ![at.num] = WriteAt(@, at.off, cells)]
                ELSE file
           w == IF opens THEN [num |-> at.num, off |-> at.off + n, open |-> TRUE]
                ELSE [num |-> at.num, off |-> at.off, open |-> FALSE]
<1>7. handleRollback(g, disk, w, tx.old)
  BY ZenonT(60), <1>2
<1> HIDE DEF at, w, cells
<1>8. g \in Files /\ Preserves(file, g, at)
  <2>1. CASE opens
    <3>1. Wrote(file, at, cells, g)
      BY ZenonT(60), <2>1 DEF Wrote
    <3> HIDE DEF g
    <3> QED
      BY ZenonT(60), <1>3, <1>5, <1>6, <3>1, WrittenFile DEF cells
  <2>2. CASE ~opens
    BY ZenonT(60), <1>3, <1>5, <2>2, SameBelow
  <2> QED
    BY ZenonT(60), <2>1, <2>2
<1> HIDE DEF g
<1>9. /\ AtMost(ldb[Cursor], at) /\ AtMost(Current[Cursor], at) /\ AtMost(Limit, at)
      /\ ldb[Cursor] \in Locations /\ Current[Cursor] \in Locations /\ Limit \in Locations
  BY ZenonT(60), <1>5, Positions, Reach
<1>10. Placed(Current, g, Current[Cursor], pruned) /\ Placed(ldb, g, ldb[Cursor], pruned)
  BY ZenonT(60), <1>3, <1>5, <1>8, <1>9, PlacedMoves DEF FilesInv, Index
<1>11. Safe(g, ldb[Cursor], gone) /\ Safe(g, Current[Cursor], gone) /\ Safe(g, Limit, gone)
  BY ZenonT(60), <1>3, <1>5, <1>8, <1>9, SafeMoves DEF FilesInv, Grounded
<1> QED
  BY ZenonT(60), <1>1, <1>7, <1>8, <1>10, <1>11, RolledBack

-----------------------------------------------------------------------------
(* Commits, to the cache and to leveldb.                                   *)

(* What is in a synced file is on the disk.                                *)
LEMMA SyncedPlaced ==
    ASSUME file \in Files, AllSynced, NEW m, NEW p \in Locations, p.num \in FileNums, NEW lost, NEW files
    PROVE  /\ Placed(m, file, p, lost) => Placed(m, disk, p, lost)
           /\ Safe(file, p, files) => Safe(disk, p, files)
<1>1. ASSUME NEW b \in Blocks, NEW loc \in Locations, AtMost(End(b, loc), p), Readable(file, b, loc)
      PROVE  Readable(disk, b, loc)
  <2>1. loc.num \in FileNums
    BY ZenonT(60), <1>1, EndType, Below
  <2>2. disk[loc.num] = file[loc.num]
    BY ZenonT(60), <1>1, <2>1 DEF Readable, AllSynced
  <2> QED
    BY ZenonT(60), <1>1, <2>2 DEF Readable
<1>2. Covers(file, p) => Covers(disk, p)
  BY ZenonT(60) DEF Covers, AllSynced
<1> QED
  BY ZenonT(60), <1>1, <1>2 DEF Placed, Safe

Quiet == UNCHANGED <<file, disk, wc, reader, state, unsynced, gone, pruned>>

(* The metadata become new, in the cache or in leveldb too.                *)
LEMMA CommitFiles ==
    ASSUME IInv, FilesInv, Quiet, NEW new, Current' = new, RowsIn(Current, new, pruned),
           new[Cursor] = Here \/ new[Cursor] = Current[Cursor], Placed(new, file, new[Cursor], pruned),
           ldb' = ldb \/ (ldb' = new /\ (~unsynced => AllSynced)), Writing', Limit' = Here',
           tx'.stage \in {"ldb", "clear", "direct"} /\ ~unsynced => AllSynced
    PROVE  FilesInv'
<1>1. Here' = Here /\ AllSynced' = AllSynced
  BY ZenonT(60) DEF Quiet, Here, Location, AllSynced
<1>2. /\ new[Cursor] \in Locations /\ new[Cursor].num \in FileNums /\ AtMost(ldb[Cursor], new[Cursor])
      /\ AtMost(new[Cursor], Here) /\ AtMost(new[Cursor], new[Cursor]) /\ AtMost(Here, Here)
  <2>1. new[Cursor] \in Locations /\ new[Cursor].num \in FileNums /\ AtMost(ldb[Cursor], new[Cursor])
    BY ZenonT(60), Positions
  <2> QED
    BY ZenonT(60), <2>1, Positions, Reach
<1>3. Safe(file, new[Cursor], gone) /\ Safe(file, Here, gone)
  BY ZenonT(60) DEF FilesInv, Grounded
<1>4. Order'
  BY ZenonT(60), <1>1, <1>2, Positions DEF Order, Quiet
<1>5. RowsIn(ldb, new, pruned) /\ RowsIn(new, new, pruned)
  BY ZenonT(60) DEF FilesInv, Index, RowsIn
<1>6. Index'
  BY ZenonT(60), <1>5 DEF FilesInv, Index, Quiet
<1>7. Read'
  BY ZenonT(60) DEF FilesInv, Read, RowsIn, Quiet
<1>8. Grounded'
  BY ZenonT(60), <1>1, <1>3 DEF FilesInv, Grounded, Quiet
<1>9. ~unsynced' => OnDisk'
  <2>1. file \in Files
    BY ZenonT(60) DEF FilesInv
  <2>2. ~unsynced /\ ldb' = new => Placed(new, disk, new[Cursor], pruned) /\ Safe(disk, new[Cursor], gone)
    <3> SUFFICES ASSUME ~unsynced, ldb' = new
                 PROVE  Placed(new, disk, new[Cursor], pruned) /\ Safe(disk, new[Cursor], gone)
      BY Zenon
    <3>1. CASE ldb' = ldb
      BY ZenonT(60), <3>1 DEF FilesInv, OnDisk
    <3>2. CASE ~unsynced => AllSynced
      BY ZenonT(60), <1>2, <1>3, <2>1, <3>2, SyncedPlaced
    <3> QED
      BY ZenonT(60), <3>1, <3>2
  <2> QED
    BY ZenonT(60), <1>1, <2>2 DEF FilesInv, OnDisk, Quiet
<1> QED
  BY ZenonT(60), <1>4, <1>6, <1>7, <1>8, <1>9 DEF FilesInv, Quiet

(* The rows p of the transaction, with the cursor, over the current ones.  *)
LEMMA CommitCurrent ==
    ASSUME IInv, FilesInv, tx.drop = {}, NEW p, p[Cursor] = Here, \A b \in Blocks : p[b] = tx.puts[b]
    PROVE  /\ Overlay(Current, p, tx.dels)[Cursor] = Here
           /\ RowsIn(Current, Overlay(Current, p, tx.dels), pruned)
           /\ Placed(Overlay(Current, p, tx.dels), file, Here, pruned)
<1> DEFINE new == Overlay(Current, p, tx.dels)
<1>1. Here \in Locations /\ Here # Absent
  BY ZenonT(60), Positions, FfldbAssumption
<1>2. /\ new[Cursor] = Here
      /\ \A b \in Blocks : new[b] = IF b \in tx.dels THEN Absent
                                    ELSE IF tx.puts[b] # Absent THEN tx.puts[b] ELSE Current[b]
  BY ZenonT(60), <1>1 DEF Overlay, Items, IInv, CursorKept
<1> HIDE DEF new
<1>3. \A b \in Blocks : tx.puts[b] # Absent => Current[b] = Absent
  BY ZenonT(60) DEF IInv, RowsFollowBlocks, FilesInv, Writing
<1>4. \A b \in Blocks \cap tx.dels : Current[b] # Absent => <<b, Current[b]>> \in pruned
  BY ZenonT(60) DEF FilesInv, Writing
<1>5. RowsIn(Current, new, pruned)
  BY ZenonT(60), <1>2, <1>3, <1>4 DEF RowsIn
<1>6. Placed(tx.puts, file, Here, pruned)
  BY ZenonT(60) DEF FilesInv, Writing
<1>7. Placed(Current, file, Here, pruned)
  BY ZenonT(60), Positions, PlacedFurther DEF FilesInv, Index
<1>8. Placed(new, file, Here, pruned)
  BY ZenonT(60), <1>2, <1>6, <1>7 DEF Placed
<1> QED
  BY ZenonT(60), <1>2, <1>5, <1>8 DEF new

LEMMA commitTxFiles == ASSUME IInv, FilesInv, commitTx PROVE FilesInv'
<1>1. /\ Quiet /\ ldb' = ldb /\ tx' = Idle /\ tx.drop = {}
      /\ puts' = Overlay(puts, WithCursor, tx.dels) /\ dels' = CachedRemove(WithCursor, tx.dels)
  BY ZenonT(60) DEF commitTx, Quiet, fileVars, history, Return
<1>2. tx \in Transactions /\ ldb \in Rows /\ puts \in Rows /\ wc \in [num: Nat, off: Nat, open: BOOLEAN]
  BY Zenon DEF IInv, TypeOK
<1>3. WithCursor \in Rows /\ tx.dels \in SUBSET Items /\ \A b \in Blocks : WithCursor[b] = tx.puts[b]
  BY ZenonT(60), <1>2, WithCursorType, FfldbAssumption DEF Transactions, Items
<1>4. WithCursor[Cursor] = Here
  <2>1. tx.puts \in [Items -> Values \cup Locations \cup {Absent}]
    BY ZenonT(60), <1>2 DEF Transactions, Rows
  <2> QED
    BY SMTT(60), <2>1 DEF WithCursor, Here, Items
<1> DEFINE new == Overlay(Current, WithCursor, tx.dels)
<1>5. Current' = new
  BY ZenonT(60), <1>1, <1>2, <1>3, OverlayMerge DEF Current
<1>6. new[Cursor] = Here /\ RowsIn(Current, new, pruned) /\ Placed(new, file, Here, pruned)
  BY ZenonT(60), <1>1, <1>3, <1>4, CommitCurrent
<1> HIDE DEF new
<1>7. Writing' /\ Limit' = Here' /\ tx'.stage \notin {"ldb", "clear", "direct"}
  BY ZenonT(60), <1>1, IdleTx
<1> QED
  BY ZenonT(60), <1>1, <1>5, <1>6, <1>7, CommitFiles

LEMMA commitDirectFiles == ASSUME IInv, FilesInv, commitDirect PROVE FilesInv'
<1>1. /\ Quiet /\ UNCHANGED <<puts, dels>> /\ tx' = Idle /\ Holds("direct")
      /\ ldb' = Overlay(ldb, tx.puts, tx.dels)
  BY ZenonT(60) DEF commitDirect, Quiet, fileVars, history, Return
<1>2. puts = Nothing /\ dels = {} /\ tx.why = "commit" /\ ldb \in Rows /\ tx.puts \in Rows
  BY ZenonT(60), <1>1 DEF IInv, FlushOrder, CacheEmpty, Stages, TypeOK, Transactions, Holds
<1>3. Current = ldb
  BY ZenonT(60), <1>2, OverlayNothing DEF Current
<1> DEFINE new == Overlay(Current, tx.puts, tx.dels)
<1>4. ldb' = new /\ new \in Rows
  BY ZenonT(60), <1>1, <1>2, <1>3, OverlayType
<1>5. tx.drop = {} /\ tx.puts[Cursor] = Here
  BY ZenonT(60), <1>1, <1>2 DEF FilesInv, Writing, Holds
<1>6. new[Cursor] = Here /\ RowsIn(Current, new, pruned) /\ Placed(new, file, Here, pruned)
  BY ZenonT(60), <1>5, CommitCurrent
<1> HIDE DEF new
<1>7. Current' = new
  BY ZenonT(60), <1>1, <1>2, <1>4, OverlayNothing DEF Current
<1>8. Writing' /\ Limit' = Here' /\ tx'.stage \notin {"ldb", "clear", "direct"}
  BY ZenonT(60), <1>1, IdleTx
<1>9. ~unsynced => AllSynced
  BY ZenonT(60), <1>1 DEF FilesInv, OnDisk, Holds
<1> QED
  BY ZenonT(60), <1>1, <1>4, <1>6, <1>7, <1>8, <1>9, CommitFiles

-----------------------------------------------------------------------------
(* Flushes.                                                                *)

LEMMA StageWriting ==
    ASSUME IInv, FilesInv, UNCHANGED <<file, wc, pruned>>, Current' = Current, ~Holds("write"),
           NEW st \in {"ldb", "clear", "direct", "closed"}, Step(st),
           tx.stage \in {"sync", "ldb", "clear", "direct"}
    PROVE  Writing' /\ Limit' = Here' /\ tx'.stage = st
<1>1. tx' = [tx EXCEPT !.stage = st] /\ tx \in Transactions
  BY ZenonT(60) DEF Step, IInv, TypeOK
<1>2. /\ tx'.stage = st /\ tx'.puts = tx.puts /\ tx'.dels = tx.dels /\ tx'.stored = tx.stored /\ tx'.drop = tx.drop
      /\ tx'.why = tx.why
  BY ZenonT(60), <1>1 DEF Transactions
<1>3. Here' = Here
  BY Zenon DEF Here, Location
<1>4. Limit' = Here'
  BY ZenonT(60), <1>2 DEF Limit, Holds
<1>5. tx.drop = {}
  BY ZenonT(60) DEF FilesInv, Writing
<1>6. Writing'
  BY ZenonT(60), <1>2, <1>3, <1>5 DEF FilesInv, Writing
<1> QED
  BY ZenonT(60), <1>2, <1>4, <1>6

LEMMA FlushedWriting ==
    ASSUME IInv, FilesInv, UNCHANGED <<file, wc, pruned>>, Current' = Current, Holds("ldb") \/ Holds("clear"), Flushed
    PROVE  Writing' /\ Limit' = Here'
<1>1. tx.why \in {"commit", "sync", "close"} /\ tx.stage \in {"sync", "ldb", "clear", "direct"} /\ ~Holds("write")
  BY ZenonT(60) DEF IInv, TypeOK, Transactions, Stages, Holds
<1>2. CASE tx.why = "commit"
  BY ZenonT(60), <1>1, <1>2, StageWriting DEF Flushed
<1>3. CASE tx.why = "sync"
  <2>1. tx' = Idle
    BY ZenonT(60), <1>3 DEF Flushed, Return
  <2> QED
    BY ZenonT(60), <2>1, IdleTx
<1>4. CASE tx.why = "close"
  <2>1. Step("closed")
    BY ZenonT(60), <1>4 DEF Flushed
  <2> QED
    BY ZenonT(60), <1>1, <2>1, StageWriting
<1> QED
  BY ZenonT(60), <1>1, <1>2, <1>3, <1>4

LEMMA syncBlocksFiles == ASSUME IInv, FilesInv, syncBlocks PROVE FilesInv'
<1>1. /\ Holds("sync") /\ Step("ldb") /\ UNCHANGED <<file, wc, ldb, puts, dels, reader, state, gone, pruned>>
      /\ disk' = [n \in FileNums |-> IF Covered(n) THEN file[n] ELSE disk[n]]
      /\ unsynced' = (unsynced \/ \E n \in FileNums : ~Covered(n) /\ file[n] \notin {NoFile, disk[n]})
  BY ZenonT(60) DEF syncBlocks, metaVars
<1>2. file \in Files /\ disk \in Files
  BY ZenonT(60) DEF FilesInv
<1>3. disk' \in Files /\ \A n \in FileNums : disk'[n] = IF Covered(n) THEN file[n] ELSE disk[n]
  BY ZenonT(60), <1>1, <1>2 DEF Files
<1>4. Current' = Current /\ Here' = Here
  BY ZenonT(60), <1>1 DEF Current, Overlay, Here, Location
<1>5. Writing' /\ Limit' = Here' /\ tx'.stage = "ldb" /\ Limit = Here
  <2>1. ~Holds("write") /\ tx.stage \in {"sync", "ldb", "clear", "direct"}
    BY ZenonT(60), <1>1 DEF Holds
  <2> QED
    BY ZenonT(60), <1>1, <1>4, <2>1, StageWriting DEF Limit
<1>6. Order' /\ Index' /\ Read' /\ Grounded'
  BY ZenonT(60), <1>1, <1>4, <1>5 DEF FilesInv, Order, Index, Read, Grounded
<1>7. ASSUME ~unsynced' PROVE OnDisk'
  <2>1. ~unsynced /\ \A n \in FileNums : Covered(n) \/ file[n] \in {NoFile, disk[n]}
    BY ZenonT(60), <1>1, <1>7
  <2>2. AllSynced'
    BY ZenonT(60), <1>1, <1>3, <2>1 DEF AllSynced
  <2>3. Placed(ldb, disk, ldb[Cursor], pruned) /\ Safe(disk, ldb[Cursor], gone)
    BY ZenonT(60), <2>1 DEF FilesInv, OnDisk
  <2>4. Placed(ldb, file, ldb[Cursor], pruned) /\ Safe(file, ldb[Cursor], gone)
    BY ZenonT(60) DEF FilesInv, Index, Grounded
  <2>5. \A n \in FileNums : disk'[n] = file[n] \/ disk'[n] = disk[n]
    BY ZenonT(60), <1>3
  <2>6. Placed(ldb, disk', ldb[Cursor], pruned) /\ Safe(disk', ldb[Cursor], gone)
    BY ZenonT(60), <1>2, <1>3, <2>3, <2>4, <2>5, Positions, MixedFiles
  <2> QED
    BY ZenonT(60), <1>1, <2>2, <2>6 DEF OnDisk
<1> QED
  BY ZenonT(60), <1>1, <1>2, <1>3, <1>5, <1>6, <1>7 DEF FilesInv

LEMMA SameCurrent ==
    ASSUME IInv, FilesInv
    PROVE  RowsIn(Current, Current, pruned) /\ Placed(Current, file, Current[Cursor], pruned)
BY Zenon DEF RowsIn, FilesInv, Index

LEMMA commitTreapsFiles == ASSUME IInv, FilesInv, commitTreaps PROVE FilesInv'
<1>1. /\ Holds("ldb") /\ Quiet /\ UNCHANGED <<puts, dels, file, wc, pruned>>
      /\ IF CacheEmpty THEN Flushed /\ ldb' = ldb ELSE ldb' = Current /\ Step("clear") /\ told' = told
  BY ZenonT(60) DEF commitTreaps, Quiet, fileVars, history
<1>2. ~unsynced => AllSynced
  BY ZenonT(60), <1>1 DEF FilesInv, OnDisk, Holds
<1>3. CASE CacheEmpty
  <2>1. Flushed /\ ldb' = ldb
    BY ZenonT(60), <1>1, <1>3
  <2>2. Current' = Current
    BY ZenonT(60), <1>1, <2>1 DEF Current, Overlay
  <2>3. Writing' /\ Limit' = Here'
    BY ZenonT(60), <1>1, <2>1, <2>2, FlushedWriting
  <2> QED
    BY ZenonT(60), <1>1, <1>2, <2>1, <2>2, <2>3, SameCurrent, CommitFiles
<1>4. CASE ~CacheEmpty
  <2>1. ldb' = Current /\ Step("clear")
    BY ZenonT(60), <1>1, <1>4
  <2>2. Current' = Current
    <3>1. Current' = Overlay(Current, puts, dels)
      BY ZenonT(60), <1>1, <2>1 DEF Current, Overlay
    <3> QED
      BY ZenonT(60), <3>1, OverlayTwice DEF IInv, TypeOK, Current
  <2>3. ~Holds("write") /\ tx.stage \in {"sync", "ldb", "clear", "direct"}
    BY ZenonT(60), <1>1 DEF Holds
  <2>4. Writing' /\ Limit' = Here'
    BY ZenonT(60), <1>1, <2>1, <2>2, <2>3, StageWriting
  <2> QED
    BY ZenonT(60), <1>1, <1>2, <2>1, <2>2, <2>4, SameCurrent, CommitFiles
<1> QED
  BY ZenonT(60), <1>3, <1>4

LEMMA ClearCacheFiles == ASSUME IInv, FilesInv, ClearCache PROVE FilesInv'
<1>1. /\ Holds("clear") /\ Quiet /\ Flushed /\ puts' = Nothing /\ dels' = {} /\ ldb' = ldb
      /\ UNCHANGED <<file, wc, pruned>>
  BY ZenonT(60) DEF ClearCache, Quiet, fileVars, history
<1>2. ~unsynced => AllSynced
  BY ZenonT(60), <1>1 DEF FilesInv, OnDisk, Holds
<1>3. Current' = ldb
  BY ZenonT(60), <1>1, OverlayNothing DEF Current, IInv, TypeOK
<1>4. Current = ldb
  <2>1. Current \in Rows /\ ldb \in Rows
    BY ZenonT(60), CurrentType DEF IInv, TypeOK
  <2>2. \A i \in Items : ldb[i] = Current[i]
    BY ZenonT(60), <1>1 DEF IInv, FlushOrder
  <2> QED
    BY SMTT(60), <2>1, <2>2 DEF Rows
<1>5. Writing' /\ Limit' = Here'
  BY ZenonT(60), <1>1, <1>3, <1>4, FlushedWriting
<1> QED
  BY ZenonT(60), <1>1, <1>2, <1>3, <1>4, <1>5, SameCurrent, CommitFiles

LEMMA FlushFailsFiles == ASSUME IInv, FilesInv, FlushFails PROVE FilesInv'
<1>1. /\ FilesSame /\ reader' = reader /\ (Step("closed") \/ tx' = Idle)
      /\ tx.stage \in {"sync", "ldb", "direct"}
  BY ZenonT(60) DEF FlushFails, Return, FilesSame, fileVars, metaVars, history, Holds
<1>2. CASE tx' = Idle
  BY ZenonT(60), <1>1, <1>2, ReturnsFiles
<1>3. CASE Step("closed")
  <2>1. ~Holds("write") /\ tx.stage \in {"sync", "ldb", "clear", "direct"}
    BY ZenonT(60), <1>1 DEF Holds
  <2> QED
    BY ZenonT(60), <1>1, <1>3, <2>1, StageFiles
<1> QED
  BY ZenonT(60), <1>1, <1>2, <1>3

LEMMA ReaderFiles == ASSUME IInv, FilesInv, BeginRead \/ Snapshot \/ EndRead PROVE FilesInv'
<1>1. FilesSame /\ tx' = tx
  BY ZenonT(60) DEF BeginRead, Snapshot, EndRead, FilesSame, fileVars, metaVars, history
<1>2. Current' = Current /\ pruned' = pruned
  BY ZenonT(60), <1>1, SameViews DEF FilesSame
<1>3. CASE BeginRead
  <2>1. reader'.ldb = ldb /\ reader'.stage = "begin"
    BY ZenonT(60), <1>3 DEF BeginRead
  <2>2. Read'
    BY ZenonT(60), <1>2, <2>1 DEF FilesInv, Index, Read
  <2> QED
    BY ZenonT(60), <1>1, <2>2, ReaderMoves
<1>4. CASE Snapshot
  <2>1. /\ reader'.seen = Overlay(reader.ldb, puts, dels) /\ reader'.stage = "open"
        /\ reader # NoReader /\ reader.stage = "begin"
    BY ZenonT(60), <1>4 DEF Snapshot
  <2>2. RowsIn(reader.ldb, Current, pruned)
    BY ZenonT(60), <2>1 DEF FilesInv, Read
  <2>3. RowsIn(reader'.seen, Current, pruned)
    BY ZenonT(60), <2>1, <2>2 DEF RowsIn, Current, Overlay, Items
  <2>4. Read'
    BY ZenonT(60), <1>2, <2>1, <2>3 DEF Read
  <2> QED
    BY Zenon, <1>1, <2>4, ReaderMoves
<1>5. CASE EndRead
  <2>1. Read'
    BY ZenonT(60), <1>5 DEF EndRead, Read
  <2> QED
    BY Zenon, <1>1, <2>1, ReaderMoves
<1> QED
  BY ZenonT(60), <1>3, <1>4, <1>5

-----------------------------------------------------------------------------
(* Openings.                                                               *)

(* Of the files there are, one is the newest.                              *)
LEMMA Newest ==
    ASSUME NEW S \in SUBSET FileNums, S # {}
    PROVE  \E n \in S : \A m \in S : n >= m
<1> DEFINE T == {MaxFileNum - n : n \in S}
           R == {ss \in Nat \X Nat : ss[1] < ss[2]}
<1>1. \A n \in FileNums : n \in Nat /\ MaxFileNum - n \in Nat
  BY SMTT(60), FfldbAssumption DEF FileNums
<1>2. T \in SUBSET Nat /\ T # {}
  BY ZenonT(60), <1>1
<1>3. IsWellFoundedOn(R, Nat)
  BY ZenonT(60), NatLessThanWellFounded DEF OpToRel
<1>4. \A x, y \in Nat : x < y => <<x, y>> \in R
  BY ZenonT(60)
<1> HIDE DEF R
<1>5. PICK t \in T : \A y \in T : ~(<<y, t>> \in R)
  BY ZenonT(60), <1>2, <1>3, WFMin
<1>6. PICK n \in S : t = MaxFileNum - n
  BY ZenonT(60), <1>5
<1>7. \A m \in S : n >= m
  <2> TAKE m \in S
  <2>1. MaxFileNum - m \in T /\ MaxFileNum - m \in Nat /\ MaxFileNum - n \in Nat /\ m \in Nat /\ n \in Nat
    BY ZenonT(60), <1>1
  <2>2. ~(MaxFileNum - m < MaxFileNum - n)
    BY ZenonT(60), <1>4, <1>5, <1>6, <2>1
  <2> QED
    BY SMTT(60), <2>1, <2>2, FfldbAssumption
<1> QED
  BY ZenonT(60), <1>7

(* The scan finds the end of the files at or after any position that they  *)
(* cover.                                                                  *)
LEMMA ScanReaches ==
    ASSUME NEW f \in Files, NEW p \in Locations, p.num \in FileNums, Covers(f, p)
    PROVE  LET s == scanBlockFiles(f)
           IN  ~Before([num |-> s.num, off |-> s.off, open |-> FALSE], p)
<1> DEFINE there == {n \in FileNums : f[n] # NoFile}
           last == CHOOSE n \in there : \A m \in there : n >= m
           s == scanBlockFiles(f)
           w == [num |-> s.num, off |-> s.off, open |-> FALSE]
<1>1. p.num \in Nat /\ p.off \in Nat /\ w.num = s.num /\ w.off = s.off
  BY ZenonT(60) DEF Locations
<1> SUFFICES ~Before(w, p)
  BY ZenonT(60)
<1>2. CASE there = {}
  <2>1. s.num = 0 /\ s.off = 0
    BY ZenonT(60), <1>2 DEF scanBlockFiles
  <2>2. p.num = 0 /\ p.off = 0
    BY ZenonT(60), <1>2 DEF Covers
  <2> HIDE DEF s, w
  <2>3. ~(0 < 0)
    BY SMTT(60)
  <2> QED
    BY ZenonT(60), <1>1, <2>1, <2>2, <2>3 DEF Before
<1>3. CASE there # {}
  <2>1. s.num = last /\ s.off = Len(f[last])
    BY ZenonT(60), <1>3 DEF scanBlockFiles
  <2>2. last \in there /\ \A m \in there : last >= m
    BY ZenonT(60), <1>3, Newest
  <2>3. (p.num = 0 /\ p.off = 0) \/ (p.num \in there /\ Len(f[p.num]) >= p.off)
    BY ZenonT(60) DEF Covers
  <2>4. last \in Nat /\ Len(f[last]) \in Nat
    <3> HIDE DEF last
    <3>1. f[last] \in Seq(Cells) /\ last \in FileNums
      BY ZenonT(60), <2>2 DEF Files
    <3> QED
      BY SMTT(60), <3>1, FfldbAssumption DEF FileNums
  <2> HIDE DEF s, w, last, there
  <2>5. ~(last < p.num) /\ (last = p.num => ~(Len(f[last]) < p.off))
    BY SMTT(60), <1>1, <2>2, <2>3, <2>4
  <2> QED
    BY ZenonT(60), <1>1, <2>1, <2>5 DEF Before
<1> QED
  BY ZenonT(60), <1>2, <1>3

(* openDB of files that hold what leveldb names.                           *)
LEMMA openDBFiles ==
    ASSUME IInv, ldb[Cursor].num \in FileNums, NEW f \in Files, NEW d \in Files, openDB(f, d),
           Placed(ldb, f, ldb[Cursor], pruned), Covers(f, ldb[Cursor]),
           ~unsynced => Placed(ldb, d, ldb[Cursor], pruned) /\ Safe(d, ldb[Cursor], gone)
    PROVE  FilesInv'
<1> DEFINE s == scanBlockFiles(f)
           w == [num |-> s.num, off |-> s.off, open |-> FALSE]
           at == ldb[Cursor]
<1>1. /\ IF Before(at, w) THEN handleRollback(f, d, w, at) ELSE RollbackEnds(f, d, at, FALSE)
      /\ state' = IF Before(w, at) THEN "corrupt" ELSE "open"
      /\ puts' = Nothing /\ dels' = {} /\ tx' = Idle /\ reader' = NoReader
      /\ UNCHANGED <<ldb, unsynced, gone, pruned>>
  BY ZenonT(60) DEF openDB
<1>2. at \in Locations /\ at.num \in FileNums /\ ldb \in Rows
  BY ZenonT(60) DEF IInv, TypeOK
<1>3. ~Before(w, at)
  BY ZenonT(60), <1>2, ScanReaches
<1> HIDE DEF w, s
<1>4. state' = "open"
  BY ZenonT(60), <1>1, <1>3
<1>5. /\ file' \in Files /\ disk' \in Files /\ Preserves(f, file', at)
      /\ disk' = d \/ disk' = [d EXCEPT ![at.num] = file'[at.num]]
      /\ wc'.num = at.num /\ wc'.off = at.off
  <2>1. CASE Before(at, w)
    <3>1. handleRollback(f, d, w, at)
      BY ZenonT(60), <1>1, <2>1
    <3> HIDE DEF at
    <3> QED
      BY SMTT(60), <1>2, <3>1, RollbackKeepsFiles
  <2>2. CASE ~Before(at, w)
    <3>1. file' = f /\ disk' = d /\ wc' = [num |-> at.num, off |-> at.off, open |-> FALSE]
      BY ZenonT(60), <1>1, <2>2 DEF RollbackEnds
    <3>2. wc'.num = at.num /\ wc'.off = at.off
      BY ZenonT(60), <3>1
    <3>3. Preserves(f, file', at)
      BY ZenonT(60), <1>2, <3>1, SameBelow
    <3> QED
      BY ZenonT(60), <3>1, <3>2, <3>3
  <2> QED
    BY ZenonT(60), <2>1, <2>2
<1>6. Current' = ldb
  BY ZenonT(60), <1>1, <1>2, OverlayNothing DEF Current
<1>7. Here' = at /\ AtMost(at, at)
  BY SMTT(60), <1>2, <1>5 DEF Here, Location, Locations, AtMost
<1>8. Writing' /\ Limit' = at /\ tx'.stage = "idle"
  BY ZenonT(60), <1>1, <1>7, IdleTx
<1>9. Placed(ldb, file', at, pruned) /\ Safe(file', at, gone)
  <2>1. Safe(f, at, gone)
    BY ZenonT(60) DEF Safe
  <2> QED
    BY ZenonT(60), <1>2, <1>5, <1>7, <2>1, PlacedMoves, SafeMoves
<1>10. Order'
  BY ZenonT(60), <1>1, <1>2, <1>5, <1>6, <1>7, <1>8 DEF Order
<1>11. Index' /\ Read' /\ Grounded'
  <2>1. RowsIn(ldb, ldb, pruned)
    BY ZenonT(60) DEF RowsIn
  <2> QED
    BY ZenonT(60), <1>1, <1>6, <1>7, <1>8, <1>9, <2>1 DEF Index, Read, Grounded
<1>12. ~unsynced' => OnDisk'
  <2>1. tx'.stage \notin {"ldb", "clear", "direct"}
    BY ZenonT(60), <1>8
  <2>2. \A n \in FileNums : disk'[n] = file'[n] \/ disk'[n] = d[n]
    BY ZenonT(60), <1>5 DEF Files
  <2>3. ~unsynced => Placed(ldb, disk', at, pruned) /\ Safe(disk', at, gone)
    BY ZenonT(60), <1>2, <1>5, <1>9, <2>2, MixedFiles
  <2> QED
    BY ZenonT(60), <1>1, <2>1, <2>3 DEF OnDisk
<1> QED
  BY ZenonT(60), <1>4, <1>5, <1>8, <1>10, <1>11, <1>12 DEF FilesInv

(* An opening of the files as they are, after Close or a crash of the      *)
(* process.                                                                *)
LEMMA OpensFiles == ASSUME IInv, FilesInv, openDB(file, disk) PROVE stranded' \/ FilesInv'
<1> SUFFICES ASSUME ~stranded' PROVE FilesInv'
  BY ZenonT(60)
<1>1. ldb[Cursor].num \notin gone /\ ldb[Cursor].num \in FileNums
  BY ZenonT(60), Positions DEF openDB
<1>2. file \in Files /\ disk \in Files /\ Placed(ldb, file, ldb[Cursor], pruned) /\ Covers(file, ldb[Cursor])
  BY ZenonT(60), <1>1 DEF FilesInv, Index, Grounded, Safe
<1>3. ~unsynced => Placed(ldb, disk, ldb[Cursor], pruned) /\ Safe(disk, ldb[Cursor], gone)
  BY ZenonT(60) DEF FilesInv, OnDisk
<1> QED
  BY ZenonT(60), <1>1, <1>2, <1>3, openDBFiles

(* An opening of what a power failure has left.                            *)
LEMMA PowerFailsFiles == ASSUME IInv, FilesInv, PowerFails, ~unsynced PROVE stranded' \/ FilesInv'
<1> SUFFICES ASSUME ~stranded' PROVE FilesInv'
  BY ZenonT(60)
<1>1. PICK left \in [FileNums -> UNION {Survivors(n) : n \in FileNums}] :
         (\A n \in FileNums : left[n] \in Survivors(n)) /\ openDB(left, left)
  BY ZenonT(60) DEF PowerFails
<1>2. ldb[Cursor].num \notin gone /\ ldb[Cursor].num \in FileNums /\ ldb[Cursor] \in Locations
  BY ZenonT(60), <1>1, Positions DEF openDB
<1>3. /\ file \in Files /\ disk \in Files
      /\ Placed(ldb, file, ldb[Cursor], pruned) /\ Covers(file, ldb[Cursor])
      /\ Placed(ldb, disk, ldb[Cursor], pruned) /\ Covers(disk, ldb[Cursor])
  BY ZenonT(60), <1>2 DEF FilesInv, Index, Grounded, OnDisk, Safe
<1>4. /\ left \in Files
      /\ \A b \in Blocks, loc \in Locations :
            loc.num \in FileNums /\ Readable(file, b, loc) /\ Readable(disk, b, loc) => Readable(left, b, loc)
      /\ Covers(left, ldb[Cursor])
  BY ZenonT(60), <1>1, <1>2, <1>3, SurvivesPower
<1>5. Placed(ldb, left, ldb[Cursor], pruned)
  <2>1. \A b \in Blocks : \A loc \in Locations : AtMost(End(b, loc), ldb[Cursor]) => loc.num \in FileNums
    BY ZenonT(60), <1>2, EndType, Below
  <2> QED
    BY ZenonT(60), <1>3, <1>4, <2>1 DEF Placed
<1>6. Safe(left, ldb[Cursor], gone)
  BY Zenon, <1>4 DEF Safe
<1> QED
  BY ZenonT(60), <1>1, <1>2, <1>4, <1>5, <1>6, openDBFiles

-----------------------------------------------------------------------------
(* All the steps.                                                          *)

LEMMA CountKeeps ==
    ASSUME used \in [Events -> Nat], used' = used \/ (\E e \in Events : Count(e))
    PROVE  used' \in [Events -> Nat] /\ (used.power > 0 => used'.power > 0)
<1>1. CASE used' = used
  BY ZenonT(60), <1>1
<1>2. ASSUME NEW e \in Events, Count(e) PROVE used' \in [Events -> Nat] /\ (used["power"] > 0 => used'["power"] > 0)
  <2>1. used' = [used EXCEPT ![e] = used[e] + 1] /\ "power" \in Events
    BY ZenonT(60), <1>2 DEF Count, Events
  <2>2. used[e] \in Nat /\ used["power"] \in Nat /\ used[e] + 1 \in Nat
    BY SMTT(60), <2>1
  <2>3. used' \in [Events -> Nat]
    BY ZenonT(60), <2>1, <2>2
  <2>4. used'["power"] = IF e = "power" THEN used[e] + 1 ELSE used["power"]
    BY ZenonT(60), <2>1
  <2>5. used["power"] > 0 => used[e] + 1 > 0
    BY SMTT(60), <2>2
  <2> QED
    BY ZenonT(60), <2>3, <2>4, <2>5
<1> QED
  BY Zenon, <1>1, <1>2

LEMMA NextCounts ==
    ASSUME [Next]_vars
    PROVE  used' = used \/ (\E e \in Events : Count(e))
<1>1. CASE UNCHANGED vars
  BY ZenonT(60), <1>1 DEF vars
<1>2. CASE \E s \in Scripts : Update(s)
  BY ZenonT(60), <1>2 DEF Update, Events
<1>3. CASE \/ DeleteFile \/ writeBlock \/ commitTx \/ Reopen
           \/ syncBlocks \/ commitTreaps \/ ClearCache \/ commitDirect \/ Snapshot \/ EndRead
  BY ZenonT(60), <1>3 DEF DeleteFile, writeBlock, commitTx, Reopen, syncBlocks, commitTreaps, ClearCache,
       commitDirect, Snapshot, EndRead
<1>4. CASE DeleteFileFails \/ writeBlockFails \/ FlushFails
  BY ZenonT(60), <1>4 DEF DeleteFileFails, writeBlockFails, FlushFails, Events
<1>5. CASE needsFlush \/ Sync \/ Close \/ BeginRead
  BY ZenonT(60), <1>5 DEF needsFlush, Sync, Close, BeginRead, Events
<1>6. CASE ProcessDies \/ PowerFails
  BY ZenonT(60), <1>6 DEF ProcessDies, PowerFails, Events
<1> QED
  BY ZenonT(60), <1>1, <1>2, <1>3, <1>4, <1>5, <1>6 DEF Next

(* What unsynced and stranded record stays recorded.                       *)
LEMMA HistoryStays ==
    ASSUME [Next]_vars, unsynced \in BOOLEAN
    PROVE  unsynced' \in BOOLEAN /\ (unsynced => unsynced') /\ (stranded => stranded')
<1>1. CASE UNCHANGED <<unsynced, stranded>>
  BY SMTT(60), <1>1
<1>2. CASE syncBlocks
  BY ZenonT(60), <1>2 DEF syncBlocks
<1>3. CASE Reopen \/ ProcessDies \/ PowerFails
  <2>1. PICK f, d : openDB(f, d)
    BY ZenonT(60), <1>3 DEF Reopen, ProcessDies, PowerFails
  <2> QED
    BY ZenonT(60), <2>1 DEF openDB
<1>4. CASE UNCHANGED vars
  BY ZenonT(60), <1>1, <1>4 DEF vars, history
<1>5. CASE \E s \in Scripts : Update(s)
  BY ZenonT(60), <1>1, <1>5 DEF Update, history
<1>6. CASE DeleteFile \/ writeBlock \/ commitTx \/ commitTreaps \/ ClearCache \/ commitDirect \/ Snapshot \/ EndRead
  BY ZenonT(60), <1>1, <1>6 DEF DeleteFile, writeBlock, commitTx, commitTreaps, ClearCache, commitDirect, Snapshot,
       EndRead, history
<1>7. CASE DeleteFileFails \/ writeBlockFails \/ FlushFails
  BY ZenonT(60), <1>1, <1>7 DEF DeleteFileFails, writeBlockFails, FlushFails, history
<1>8. CASE needsFlush \/ Sync \/ Close \/ BeginRead
  BY ZenonT(60), <1>1, <1>8 DEF needsFlush, Sync, Close, BeginRead, history
<1> QED
  BY ZenonT(60), <1>2, <1>3, <1>4, <1>5, <1>6, <1>7, <1>8 DEF Next

LEMMA FilesStep ==
    ASSUME IInv, FilesInv, used \in [Events -> Nat], unsynced \in BOOLEAN, [Next]_vars
    PROVE  Exempt' \/ FilesInv'
<1>1. CASE UNCHANGED vars
  <2>1. FilesSame /\ tx' = tx /\ reader' = reader
    BY ZenonT(60), <1>1 DEF vars, FilesSame, fileVars, metaVars, history
  <2>2. Read'
    BY ZenonT(60), <2>1, SameViews DEF FilesInv, Read, FilesSame
  <2> QED
    BY ZenonT(60), <2>1, <2>2, ReaderMoves
<1>2. CASE \E s \in Scripts : Update(s)
  BY ZenonT(60), <1>2, UpdateFiles
<1>3. CASE DeleteFile \/ writeBlock \/ writeBlockFails \/ commitTx \/ needsFlush
  BY ZenonT(60), <1>3, DeleteFileFiles, writeBlockFiles, writeBlockFailsFiles, commitTxFiles, needsFlushFiles
<1>4. CASE syncBlocks \/ commitTreaps \/ ClearCache \/ commitDirect \/ FlushFails
  BY ZenonT(60), <1>4, syncBlocksFiles, commitTreapsFiles, ClearCacheFiles, commitDirectFiles, FlushFailsFiles
<1>5. CASE DeleteFileFails
  <2>1. FilesSame /\ reader' = reader /\ tx' = Idle
    BY ZenonT(60), <1>5 DEF DeleteFileFails, FilesSame, fileVars, metaVars, history, Return
  <2> QED
    BY ZenonT(60), <2>1, ReturnsFiles
<1>6. CASE Sync \/ Close
  <2>1. FilesSame /\ reader' = reader /\ (tx' = Started("sync", "sync") \/ tx' = Started("sync", "close"))
    BY ZenonT(60), <1>6 DEF Sync, Close, FilesSame, fileVars, metaVars, history
  <2> QED
    BY ZenonT(60), <2>1, StartFiles
<1>7. CASE BeginRead \/ Snapshot \/ EndRead
  BY ZenonT(60), <1>7, ReaderFiles
<1>8. CASE Reopen \/ ProcessDies
  <2>1. openDB(file, disk)
    BY ZenonT(60), <1>8 DEF Reopen, ProcessDies
  <2> QED
    BY ZenonT(60), <2>1, OpensFiles DEF Exempt
<1>9. CASE PowerFails
  <2>1. CASE unsynced
    <3>1. used' = [used EXCEPT !["power"] = used["power"] + 1] /\ unsynced' = unsynced
      BY ZenonT(60), <1>9 DEF PowerFails, Count, openDB
    <3>2. used["power"] \in Nat /\ used'["power"] = used["power"] + 1
      BY ZenonT(60), <3>1 DEF Events
    <3>3. used'.power > 0
      BY SMTT(60), <3>2
    <3> QED
      BY ZenonT(60), <2>1, <3>1, <3>3 DEF Exempt
  <2>2. CASE ~unsynced
    BY ZenonT(60), <1>9, <2>2, PowerFailsFiles DEF Exempt
  <2> QED
    BY ZenonT(60), <2>1, <2>2
<1> QED
  BY ZenonT(60), <1>1, <1>2, <1>3, <1>4, <1>5, <1>6, <1>7, <1>8, <1>9 DEF Next

LEMMA IntactStep == IntactInv /\ [Next]_vars => IntactInv'
<1> SUFFICES ASSUME IntactInv, [Next]_vars PROVE IntactInv'
  BY Zenon
<1>1. IInv /\ used \in [Events -> Nat] /\ unsynced \in BOOLEAN /\ (Exempt \/ FilesInv)
  BY Zenon DEF IntactInv
<1>2. IInv'
  BY ZenonT(60), <1>1, Invariance
<1>3. used' \in [Events -> Nat] /\ (used.power > 0 => used'.power > 0)
  BY ZenonT(60), <1>1, NextCounts, CountKeeps
<1>4. unsynced' \in BOOLEAN /\ (unsynced => unsynced') /\ (stranded => stranded')
  BY ZenonT(60), <1>1, HistoryStays
<1>5. Exempt => Exempt'
  BY ZenonT(60), <1>3, <1>4 DEF Exempt
<1>6. Exempt' \/ FilesInv'
  BY ZenonT(60), <1>1, <1>5, FilesStep
<1> QED
  BY ZenonT(60), <1>2, <1>3, <1>4, <1>6 DEF IntactInv

LEMMA IntactInit == Init => IntactInv
<1> SUFFICES ASSUME Init PROVE IntactInv
  BY Zenon
<1>1. IInv /\ Current = ldb
  BY ZenonT(60), InitHolds, OverlayNothing DEF Init, Current, IInv, TypeOK
<1>2. used \in [Events -> Nat] /\ unsynced \in BOOLEAN
  BY ZenonT(60) DEF Init, Events
<1>3. file \in Files /\ disk \in Files /\ state = "open"
  BY Zenon DEF Init, Files
<1>4. wc.num = 0 /\ wc.off = 0 /\ Here = Location(0, 0) /\ 0 \in FileNums
  BY SMTT(60), FfldbAssumption DEF Init, Here, FileNums
<1>5. ldb[Cursor] = Location(0, 0) /\ \A b \in Blocks : ldb[b] = Absent
  BY Zenon, FfldbAssumption DEF Init, Nothing, Items
<1>6. /\ tx.stage = "idle" /\ tx.puts = Nothing /\ tx.dels = {} /\ tx.stored = {} /\ tx.drop = {}
      /\ reader = NoReader
  BY DEF Init, Idle, Begun
<1>7. Limit = Here
  <2>1. tx.stage # "write"
    BY Zenon, <1>6
  <2> QED
    BY Zenon, <2>1 DEF Limit, Holds
<1>8. /\ AtMost(Location(0, 0), Location(0, 0)) /\ Location(0, 0).num = 0 /\ Location(0, 0).off = 0
  BY DEF AtMost, Location
<1>9. Order
  BY Zenon, <1>1, <1>4, <1>5, <1>7, <1>8 DEF Order
<1>10. Index /\ Read /\ Grounded
  BY ZenonT(60), <1>1, <1>4, <1>5, <1>6, <1>7, <1>8, NoRows DEF Index, RowsIn, Read, Grounded, Safe, Covers
<1>11. Writing
  <2>1. \A b \in Blocks : tx.puts[b] = Absent
    BY ZenonT(60), <1>6 DEF Nothing, Items
  <2>2. tx.stage \notin {"sync", "ldb", "clear", "direct"}
    BY ZenonT(60), <1>6
  <2> QED
    BY ZenonT(60), <1>6, <2>1, <2>2, NoRows DEF Writing
<1>12. OnDisk
  <2>1. tx.stage \notin {"ldb", "clear", "direct"}
    BY ZenonT(60), <1>6
  <2> QED
    BY ZenonT(60), <1>5, <1>8, <2>1, NoRows DEF OnDisk, Safe, Covers
<1> QED
  BY ZenonT(60), <1>1, <1>2, <1>3, <1>9, <1>10, <1>11, <1>12 DEF IntactInv, FilesInv

LEMMA IntactFollows == IntactInv => Intact
<1> SUFFICES ASSUME IntactInv, ~Exempt PROVE Intact
  BY ZenonT(60) DEF Exempt, Intact
<1>1. FilesInv
  BY ZenonT(60) DEF IntactInv
<1>2. /\ Placed(Current, file, Current[Cursor], pruned) /\ Placed(ldb, file, ldb[Cursor], pruned)
      /\ (reader # NoReader /\ reader.stage = "open") => RowsIn(reader.seen, Current, pruned)
      /\ state = "open"
  BY ZenonT(60), <1>1 DEF FilesInv, Index, Read
<1> DEFINE Sees(m) == \A b \in Blocks : m[b] # Absent => <<b, m[b]>> \in pruned \/ Readable(file, b, m[b])
<1>3. Sees(Current) /\ Sees(ldb)
  BY ZenonT(60), <1>2 DEF Placed
<1>4. (reader # NoReader /\ reader.stage = "open") => Sees(reader.seen)
  BY ZenonT(60), <1>2, <1>3 DEF RowsIn
<1> QED
  BY ZenonT(60), <1>2, <1>3, <1>4 DEF Intact

(* writeBlock, handleRollback, flush, PruneBlocks and reconcileDB keep     *)
(* every block that the index names readable, and every opening succeeds:  *)
(* whichever write, rollback or flush fails, whenever the process or the   *)
(* power does, but for what Intact leaves out.                             *)
THEOREM IntactHolds == Spec => []Intact
BY IntactInit, IntactStep, IntactFollows, PTL DEF Spec
=============================================================================
