------------------------------- MODULE Ffldb -------------------------------
(***************************************************************************)
(* The database under the chain and the message stores (database/ffldb):   *)
(* blocks in numbered flat files, everything else in leveldb behind a      *)
(* cache.  One write transaction at a time; readers come and go.  A block  *)
(* is stored as a number of cells, so that a write can be cut short.  The  *)
(* file system keeps what was synced; what was not may be lost when the    *)
(* power fails.  Leveldb commits a transaction durably or not at all.      *)
(***************************************************************************)
EXTENDS Integers, Sequences, FiniteSets

CONSTANTS
    Keys, Values,     \* keys of the metadata buckets, and their values
    Blocks,           \* block hashes, the keys of the block index
    Cursor,           \* the key of the write cursor row
    Absent,           \* no value for a key
    Size,             \* Size[b]: cells of the record of block b
    Garbage,          \* a cell with undefined contents
    NoFile, NoReader,
    MaxBlockFileSize, \* maxBlockFileSize, in cells
    PruneTarget,      \* targetSize of PruneBlocks, in cells
    MaxFileNum,       \* bound: highest file number
    Scripts,          \* what write transactions do
    Plans

VARIABLES
    plan, used,
    file,      \* the block files as the process sees them
    disk,      \* what of them was synced
    wc,        \* writeCursor: number, offset, whether the file is open
    ldb,       \* leveldb
    puts, dels, \* cachedKeys, cachedRemove
    tx,        \* the holder of writeLock
    reader,    \* a read transaction
    told,      \* what the last Update or Sync returned
    state,     \* "open", or "corrupt" when opening the database failed
    unsynced,  \* history: a flush passed over a file with unsynced bytes
    gone,      \* history: the files deleted by pruning
    pruned,    \* history: blocks with their places in those files
    stranded   \* history: the database was opened when pruning had deleted
               \* the file of the stored cursor

history == <<unsynced, gone, pruned, stranded>>

fileVars == <<file, disk, wc>>
metaVars == <<ldb, puts, dels>>
vars == <<plan, used, fileVars, metaVars, tx, reader, told, state, history>>

FileNums == 0..MaxFileNum
Items == Keys \cup Blocks \cup {Cursor}
Locations == [num: Nat, off: Nat]
Rows == [Items -> Values \cup Locations \cup {Absent}]
Cells == (Blocks \X Nat) \cup {Garbage}
Nothing == [i \in Items |-> Absent]

(* Transactions neither name the block index nor the cursor row as keys.   *)
ASSUME FfldbAssumption ==
    /\ Cursor \notin Keys \cup Blocks /\ Keys \cap Blocks = {}
    /\ Absent \notin Values \cup Locations
    /\ Size \in [Blocks -> Nat] /\ MaxFileNum \in Nat
    /\ NoFile \notin Seq(Cells)
    /\ \A s \in Scripts :
          /\ s.puts \in Rows /\ \A i \in Blocks \cup {Cursor} : s.puts[i] = Absent
          /\ s.dels \subseteq Keys /\ s.blocks \in Seq(Blocks)

Count(event) == used' = [used EXCEPT ![event] = @ + 1]
Allowed(event) == used[event] < plan[event]

(***************************************************************************)
(* The metadata.  Reading through additions p and removals d over m, and   *)
(* committing them to m, come to the same: commitTreaps adds, then         *)
(* removes; Get looks at the removals first.                               *)
(***************************************************************************)
Overlay(m, p, d) ==
    [i \in Items |-> IF i \in d THEN Absent ELSE IF p[i] # Absent THEN p[i] ELSE m[i]]

Current == Overlay(ldb, puts, dels)

(* Seeded fault: a key added again stays removed.                          *)
CachedRemoveKept(p, d) == dels \cup d

(* commitTx: the removals of the cache after a transaction.                *)
CachedRemove(p, d) == {i \in dels : p[i] = Absent} \cup d

(***************************************************************************)
(* The block files.                                                        *)
(***************************************************************************)
Record(b) == SubSeq([i \in 1..Size[b] |-> <<b, i>>], 1, Size[b])
Location(num, off) == [num |-> num, off |-> off]

Before(p, q) == p.num < q.num \/ (p.num = q.num /\ p.off < q.off)

openWriteFile(f, num) == IF f[num] = NoFile THEN [f EXCEPT ![num] = <<>>] ELSE f

(* The file system: cutting or filling a file, and writing into it.        *)
Truncate(s, off) ==
    SubSeq([i \in 1..off |-> IF i <= Len(s) THEN s[i] ELSE Garbage], 1, off)

WriteAt(s, off, cells) ==
    Truncate(s, off) \o cells \o SubSeq(s, off + Len(cells) + 1, Len(s))

Readable(f, b, loc) ==
    /\ f[loc.num] # NoFile
    /\ Len(f[loc.num]) >= loc.off + Size[b]
    /\ SubSeq(f[loc.num], loc.off + 1, loc.off + Size[b]) = Record(b)

scanBlockFiles(f) ==
    LET there == {n \in FileNums : f[n] # NoFile}
    IN  IF there = {} THEN [first |-> 0, num |-> 0, off |-> 0]
        ELSE [first |-> CHOOSE n \in there : \A m \in there : n <= m,
              num   |-> CHOOSE n \in there : \A m \in there : n >= m,
              off   |-> Len(f[CHOOSE n \in there : \A m \in there : n >= m])]

(* Where writeBlock puts b.                                                *)
Rotates(b) == wc.off + Size[b] > MaxBlockFileSize
Target(b) == IF Rotates(b) THEN Location(wc.num + 1, 0) ELSE Location(wc.num, wc.off)

(***************************************************************************)
(* handleRollback from position w to position old, given the files f and   *)
(* what is synced of them, d.  Newer files are deleted, latest first, and  *)
(* the file is cut (or filled, when it is too short).  Every operation may *)
(* fail, and the first failure ends it; the cursor is repositioned anyway. *)
(***************************************************************************)
Newer(w, old) == {n \in FileNums : old.num < n /\ n <= w.num}
Deleted(f, nums) == [n \in FileNums |-> IF n \in nums THEN NoFile ELSE f[n]]

RollbackEnds(f, d, old, isOpen) ==
    /\ file' = f /\ disk' = d
    /\ wc' = [num |-> old.num, off |-> old.off, open |-> isOpen]

(* newer is Newer(w, old), left the files without those, cut the same with *)
(* the write file cut.                                                     *)
RollbackFails(f, d, w, old, newer, left, cut) ==
    \/ \E n \in newer :
          /\ \A m \in newer : m > n => f[m] # NoFile
          /\ f[n] = NoFile \/ plan.badUndo
          /\ RollbackEnds(Deleted(f, {m \in newer : m > n}), d, old, FALSE)
    \/ /\ plan.badUndo /\ \A n \in newer : f[n] # NoFile
       /\ \/ (newer # {} \/ ~w.open) /\ RollbackEnds(left, d, old, FALSE)
          \/ RollbackEnds(openWriteFile(left, old.num), d, old, TRUE)
          \/ RollbackEnds(cut, d, old, TRUE)

handleRollback(f, d, w, old) ==
    IF w.num = old.num /\ w.off = old.off THEN RollbackEnds(f, d, old, w.open)
    ELSE \E newer \in {Newer(w, old)} : \E left \in {Deleted(f, newer)} :
         \E cut \in {[openWriteFile(left, old.num) EXCEPT ![old.num] = Truncate(@, old.off)]} :
            \/ /\ \A n \in newer : f[n] # NoFile
               /\ RollbackEnds(cut, [d EXCEPT ![old.num] = cut[old.num]], old, TRUE)
            \/ RollbackFails(f, d, w, old, newer, left, cut)

(***************************************************************************)
(* A write transaction.  Update begins it, runs the caller's function and  *)
(* commits; a caller that returns an error changes nothing.  Left out is   *)
(* pruning of the write file itself, which is open and would be written on *)
(* without a name: PruneBlocks spares only the newest file there is, and a *)
(* rollback that failed may have left a newer one.                         *)
(***************************************************************************)
Begun(stage, why, old) ==
    [stage |-> stage, why |-> why, puts |-> Nothing, dels |-> {}, left |-> <<>>, stored |-> {},
     drop |-> {}, old |-> old]

Idle == Begun("idle", "none", Location(0, 0))
Started(stage, why) == Begun(stage, why, Location(wc.num, wc.off))

Holds(stage) == tx.stage = stage
Step(stage) == tx' = [tx EXCEPT !.stage = stage]
Return(result) == tx' = Idle /\ told' = result

(* PruneBlocks: the oldest files, as many as bring the total down to the   *)
(* target, but not the last; the rows of the blocks in them go.            *)
PrunedFiles ==
    LET s == scanBlockFiles(file)
        Total(n) == s.off + MaxBlockFileSize * (s.num - n)
    IN  {n \in FileNums :
           s.first <= n /\ n < s.num /\ \A m \in s.first..n : Total(m) > PruneTarget}

Stored(m, n) == {b \in Blocks : m[b] # Absent /\ m[b].num = n}

Update(s) ==
    /\ state = "open" /\ Holds("idle")
    /\ Allowed("txs")
    /\ \A b \in {s.blocks[i] : i \in DOMAIN s.blocks} : Current[b] = Absent
    /\ Count("txs")
    /\ LET drop == IF s.prune THEN PrunedFiles ELSE {}
           rows == UNION {Stored(Current, n) : n \in drop}
       IN  /\ wc.num \notin drop
           /\ tx' = [Started("write", "commit") EXCEPT
                       !.puts = s.puts, !.dels = s.dels \cup rows,
                       !.left = s.blocks, !.stored = {s.blocks[i] : i \in DOMAIN s.blocks}, !.drop = drop]
    /\ UNCHANGED <<plan, fileVars, metaVars, reader, told, state, history>>

(* writePendingAndCommit, first the files to prune.                        *)
DeleteFile ==
    /\ Holds("write") /\ tx.drop # {}
    /\ LET n == CHOOSE m \in tx.drop : \A k \in tx.drop : m <= k
       IN  /\ file' = Deleted(file, {n})
           /\ tx' = [tx EXCEPT !.drop = @ \ {n}]
           /\ gone' = gone \cup {n}
           /\ pruned' = pruned \cup UNION {{<<b, m[b]>> : b \in Stored(m, n)} : m \in {Current, ldb}}
    /\ UNCHANGED <<plan, used, disk, wc, metaVars, reader, told, state, unsynced, stranded>>

DeleteFileFails ==
    /\ Holds("write") /\ tx.drop # {}
    /\ Allowed("fails") /\ Count("fails")
    /\ Return("err")
    /\ UNCHANGED <<plan, fileVars, metaVars, reader, state, history>>

(* Then the blocks, one after the other.                                   *)
writeBlock ==
    /\ Holds("write") /\ tx.drop = {} /\ tx.left # <<>>
    /\ LET b == Head(tx.left)
           at == Target(b)
           f  == openWriteFile(file, at.num)
       IN  /\ at.num <= MaxFileNum
           /\ file' = [f EXCEPT ![at.num] = WriteAt(@, at.off, Record(b))]
           /\ wc' = [num |-> at.num, off |-> at.off + Size[b], open |-> TRUE]
           /\ tx' = [tx EXCEPT !.left = Tail(@), !.puts[b] = at]
    /\ UNCHANGED <<plan, used, disk, metaVars, reader, told, state, history>>

(* Only n cells are written, or the next file cannot be opened: what the   *)
(* transaction has written is rolled back.                                 *)
writeBlockFails ==
    /\ Holds("write") /\ tx.drop = {} /\ tx.left # <<>>
    /\ Allowed("fails") /\ Count("fails")
    /\ \E n \in 0..(Size[Head(tx.left)] - 1), opens \in BOOLEAN :
          LET b  == Head(tx.left)
              at == Target(b)
              f  == openWriteFile(file, at.num)
              w  == IF opens THEN [num |-> at.num, off |-> at.off + n, open |-> TRUE]
                    ELSE [num |-> at.num, off |-> at.off, open |-> FALSE]
              g  == IF opens THEN [f EXCEPT ![at.num] = WriteAt(@, at.off, SubSeq(Record(b), 1, n))]
                    ELSE file
          IN  /\ at.num <= MaxFileNum
              /\ opens \/ (n = 0 /\ (Rotates(b) \/ ~wc.open))
              /\ handleRollback(g, disk, w, tx.old)
    /\ Return("err")
    /\ UNCHANGED <<plan, metaVars, reader, state, history>>

WithCursor == [tx.puts EXCEPT ![Cursor] = Location(wc.num, wc.off)]

(* commitTx when no flush is due.                                          *)
commitTx ==
    /\ Holds("write") /\ tx.drop = {} /\ tx.left = <<>>
    /\ puts' = Overlay(puts, WithCursor, tx.dels)
    /\ dels' = CachedRemove(WithCursor, tx.dels)
    /\ Return("ok")
    /\ UNCHANGED <<plan, used, fileVars, ldb, reader, state, history>>

(* commitTx when one is due: the cache is flushed first.                   *)
needsFlush ==
    /\ Holds("write") /\ tx.drop = {} /\ tx.left = <<>>
    /\ Allowed("flushes") /\ Count("flushes")
    /\ tx' = [tx EXCEPT !.stage = "sync", !.puts = WithCursor]
    /\ UNCHANGED <<plan, fileVars, metaVars, reader, told, state, history>>

Sync ==
    /\ state = "open" /\ Holds("idle")
    /\ Allowed("flushes") /\ Count("flushes")
    /\ tx' = Started("sync", "sync")
    /\ UNCHANGED <<plan, fileVars, metaVars, reader, told, state, history>>

(* Close waits for the readers; then the process ends.                     *)
Close ==
    /\ state = "open" /\ Holds("idle") /\ reader = NoReader
    /\ Allowed("flushes") /\ Count("flushes")
    /\ tx' = Started("sync", "close")
    /\ UNCHANGED <<plan, fileVars, metaVars, reader, told, state, history>>

(***************************************************************************)
(* flush: sync the write file, commit the cache to leveldb, empty it.      *)
(***************************************************************************)
(* How a flush ends that was asked for by why.                             *)
Flushed ==
    CASE tx.why = "commit" -> Step("direct") /\ told' = told
      [] tx.why = "sync"   -> Return("ok")
      [] tx.why = "close"  -> Step("closed") /\ told' = "ok"

CacheEmpty == puts = Nothing /\ dels = {}

FlushFails ==
    /\ \/ Holds("sync") /\ wc.open
       \/ Holds("ldb") /\ ~CacheEmpty
       \/ Holds("direct")
    /\ Allowed("fails") /\ Count("fails")
    /\ IF tx.why = "close" THEN Step("closed") /\ told' = "err" ELSE Return("err")
    /\ UNCHANGED <<plan, fileVars, metaVars, reader, state, history>>

Covered(n) == n = wc.num /\ wc.open

(* Seeded fault: the write file is not synced.                             *)
syncBlocksOmitted ==
    /\ Holds("sync")
    /\ Step("ldb")
    /\ unsynced' = (unsynced \/ \E n \in FileNums : ~Covered(n) /\ file[n] \notin {NoFile, disk[n]})
    /\ UNCHANGED <<plan, used, fileVars, metaVars, reader, told, state, gone, pruned, stranded>>

syncBlocks ==
    /\ Holds("sync")
    /\ disk' = [n \in FileNums |-> IF Covered(n) THEN file[n] ELSE disk[n]]
    /\ Step("ldb")
    /\ unsynced' = (unsynced \/ \E n \in FileNums : ~Covered(n) /\ file[n] \notin {NoFile, disk[n]})
    /\ UNCHANGED <<plan, used, file, wc, metaVars, reader, told, state, gone, pruned, stranded>>

(* commitTreaps of the cache, unless it is empty.                          *)
commitTreaps ==
    /\ Holds("ldb")
    /\ IF CacheEmpty THEN Flushed /\ ldb' = ldb
       ELSE ldb' = Current /\ Step("clear") /\ told' = told
    /\ UNCHANGED <<plan, used, fileVars, puts, dels, reader, state, history>>

ClearCache ==
    /\ Holds("clear")
    /\ puts' = Nothing /\ dels' = {}
    /\ Flushed
    /\ UNCHANGED <<plan, used, fileVars, ldb, reader, state, history>>

(* The transaction that found a flush due goes straight to leveldb.        *)
commitDirect ==
    /\ Holds("direct")
    /\ ldb' = Overlay(ldb, tx.puts, tx.dels)
    /\ Return("ok")
    /\ UNCHANGED <<plan, used, fileVars, puts, dels, reader, state, history>>

(***************************************************************************)
(* A read transaction: the snapshots of leveldb and of the cache are taken *)
(* one after the other, without the lock that writers hold.                *)
(***************************************************************************)
BeginRead ==
    /\ state = "open" /\ reader = NoReader
    /\ tx.why # "close"
    /\ Allowed("reads") /\ Count("reads")
    /\ reader' = [ldb |-> ldb, stage |-> "begin"]
    /\ UNCHANGED <<plan, fileVars, metaVars, tx, told, state, history>>

Snapshot ==
    /\ reader # NoReader /\ reader.stage = "begin"
    /\ reader' = [seen |-> Overlay(reader.ldb, puts, dels), stage |-> "open"]
    /\ UNCHANGED <<plan, used, fileVars, metaVars, tx, told, state, history>>

EndRead ==
    /\ reader # NoReader /\ reader.stage = "open"
    /\ reader' = NoReader
    /\ UNCHANGED <<plan, used, fileVars, metaVars, tx, told, state, history>>

(***************************************************************************)
(* Crashes.  openDB scans the block files f, of which d is synced, and     *)
(* reconcileDB compares the end it finds with the stored cursor: what is   *)
(* beyond is rolled back, an end before it is corruption, and otherwise    *)
(* the two are equal.                                                      *)
(***************************************************************************)
openDB(f, d) ==
    LET s == scanBlockFiles(f)
        w == [num |-> s.num, off |-> s.off, open |-> FALSE]
    IN  /\ IF Before(ldb[Cursor], w) THEN handleRollback(f, d, w, ldb[Cursor])
           ELSE RollbackEnds(f, d, ldb[Cursor], FALSE)
        /\ state' = IF Before(w, ldb[Cursor]) THEN "corrupt" ELSE "open"
        /\ puts' = Nothing /\ dels' = {}
        /\ tx' = Idle /\ reader' = NoReader
        /\ stranded' = (stranded \/ ldb[Cursor].num \in gone)
        /\ UNCHANGED <<plan, ldb, told, unsynced, gone, pruned>>

Reopen ==
    /\ Holds("closed")
    /\ openDB(file, disk)
    /\ used' = used

ProcessDies ==
    /\ state = "open"
    /\ Allowed("crashes") /\ Count("crashes")
    /\ openDB(file, disk)

(* Of the bytes that were not synced, any number are left, with undefined  *)
(* contents, and a deleted file may be back.                               *)
Scrambled(d, f, len) ==
    LET Kept(i) == i <= Len(d) /\ i <= Len(f) /\ d[i] = f[i]
    IN  SubSeq([i \in 1..len |-> IF Kept(i) THEN d[i] ELSE Garbage], 1, len)

Survivors(n) ==
    LET f == file[n]
        d == IF disk[n] = NoFile THEN <<>> ELSE disk[n]
    IN  IF f = NoFile THEN {NoFile, disk[n]}
        ELSE {Scrambled(d, f, len) : len \in Len(d)..Len(f) \cup Len(f)..Len(d)}
             \cup (IF disk[n] = NoFile THEN {NoFile} ELSE {})

PowerFails ==
    /\ state = "open"
    /\ Allowed("power") /\ Count("power")
    /\ \E left \in [FileNums -> UNION {Survivors(n) : n \in FileNums}] :
          /\ \A n \in FileNums : left[n] \in Survivors(n)
          /\ openDB(left, left)

(***************************************************************************)
(* The specification.                                                      *)
(***************************************************************************)
Init ==
    /\ plan \in Plans
    /\ used = [e \in {"txs", "flushes", "fails", "reads", "crashes", "power"} |-> 0]
    /\ file = [n \in FileNums |-> NoFile] /\ disk = file
    /\ wc = [num |-> 0, off |-> 0, open |-> FALSE]
    /\ ldb = [Nothing EXCEPT ![Cursor] = Location(0, 0)]
    /\ puts = Nothing /\ dels = {}
    /\ tx = Idle /\ reader = NoReader
    /\ told = "ok" /\ state = "open"
    /\ unsynced = FALSE /\ gone = {} /\ pruned = {} /\ stranded = FALSE

Next ==
    \/ \E s \in Scripts : Update(s)
    \/ DeleteFile \/ DeleteFileFails \/ writeBlock \/ writeBlockFails \/ commitTx \/ needsFlush
    \/ Sync \/ Close \/ Reopen
    \/ syncBlocks \/ commitTreaps \/ ClearCache \/ commitDirect \/ FlushFails
    \/ BeginRead \/ Snapshot \/ EndRead
    \/ ProcessDies \/ PowerFails

Spec == Init /\ [][Next]_vars

(***************************************************************************)
(* Properties.                                                             *)
(***************************************************************************)
View(m) == [values |-> [k \in Keys |-> m[k]], blocks |-> {b \in Blocks : m[b] # Absent}]

Requested ==
    [values |-> [k \in Keys |-> Overlay(Current, tx.puts, tx.dels)[k]],
     blocks |-> (View(Current).blocks \ tx.dels) \cup tx.stored]

NoneOpen == [kind |-> "none"]
Barrier == [kind |-> "sync"]

Pending ==
    IF Holds("idle") \/ Holds("closed") THEN NoneOpen
    ELSE IF tx.why # "commit" THEN Barrier
    ELSE [kind |-> "tx", view |-> Requested]

(* The database keeps the promises of DurableStore, whatever the order of  *)
(* additions and removals, of flushes and crashes: what leveldb holds is   *)
(* the whole of what some prefix of the transactions left, Sync returns    *)
(* nil only when that is all of them, and a failed Update leaves nothing.  *)
D == INSTANCE DurableStore WITH
        current <- View(Current), stable <- View(ldb), pending <- Pending, None <- NoneOpen

Implements == D!Spec

(* A block that the index names can be read, by a new transaction and by   *)
(* the open reader, and the database opens after every crash: through file *)
(* changes, failed writes, rollbacks that fail in turn, and blocks cut     *)
(* short by a crash.  Left out are files removed by pruning, power         *)
(* failures once a flush has relied on bytes it did not sync, and what     *)
(* follows an opening that finds the stored cursor in a file that pruning  *)
(* has removed.                                                            *)
Intact ==
    LET Sees(m) == \A b \in Blocks :
                      m[b] # Absent => <<b, m[b]>> \in pruned \/ Readable(file, b, m[b])
    IN  \/ unsynced /\ used.power > 0
        \/ stranded
        \/ /\ state = "open"
           /\ Sees(Current) /\ Sees(ldb)
           /\ (reader # NoReader /\ reader.stage = "open") => Sees(reader.seen)
=============================================================================
