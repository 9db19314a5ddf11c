---------------------------------- MODULE Lsm ----------------------------------
(***************************************************************************)
(* The lsmkv storage engine (10-database-internals/src) on a disk that can *)
(* lose power: db.rs with wal.rs, memtable.rs, sstable.rs, compaction.rs.  *)
(*                                                                         *)
(* One action per step that changes the disk, with the in-memory work that *)
(* the code does beside it.  `&mut self` makes the store single threaded,  *)
(* so pc says how far the one call in progress has got.  What the disk     *)
(* holds is kept twice: as the process and a later process see it (dir,    *)
(* wal), and as of the last fsync (dirDurable, walDurable).                *)
(***************************************************************************)
EXTENDS LsmRecords, FiniteSets

CONSTANTS
    FlushAt,    \* memtable entries that trigger a flush (memtable_flush_bytes)
    Exposed,    \* situations to include that the engine does not survive
    MaxSeq,     \* bound: last sequence number handed out
    MaxTables,  \* bound: SSTable ids
    MaxStops,   \* bound: process kills and power losses
    MaxErrors   \* bound: failing system calls

(***************************************************************************)
(* Kills, power losses and failing system calls happen in every run.       *)
(* Four situations need naming, because the engine loses data in them:     *)
(* "write_after_torn" clients go on writing while wal.log holds a damaged  *)
(*                    frame, which nothing removes before the next flush   *)
(* "cut_removal"      a stop or an error falls among a compaction's        *)
(*                    unlinks although it dropped a tombstone              *)
(* "leftover_input"   a compaction drops the tombstone of a key that a     *)
(*                    file has which an earlier one failed to unlink       *)
(* "slow_writeback"   what a killed process wrote and did not fsync is     *)
(*                    still only in the page cache when the next process   *)
(*                    opens the store                                      *)
(***************************************************************************)
ASSUME ExposedAssumption ==
    Exposed \subseteq {"write_after_torn", "cut_removal", "leftover_input", "slow_writeback"}

ASSUME BoundsAssumption ==
    /\ FlushAt \in Nat \ {0}
    /\ {MaxSeq, MaxTables, MaxStops, MaxErrors} \subseteq Nat

VARIABLES
    \* the process
    pc,         \* where the call in progress is; "down" when no process runs
    mem,        \* memtable
    tables,     \* live SSTables, newest first: [id, recs]
    seq,        \* next sequence number
    nextId,     \* id of the next SSTable
    old,        \* ids a compaction has yet to unlink
    lossy,      \* whether that compaction dropped a tombstone
    \* the disk
    dir,        \* SSTable files by id, as a reader sees them
    dirDurable, \* the same as of the last directory fsync
    wal,        \* frames of wal.log
    walDurable, \* the same as of its last fsync
    \* history, for the properties
    settled,    \* last value of each key whose write took effect
    doubt,      \* values of unfinished writes that may still surface
    issued,     \* highest sequence number of a write that took effect
    \* budget
    stops, errors

process == <<pc, mem, tables, seq, nextId, old, lossy>>
disk    == <<dir, dirDurable, wal, walDurable>>
history == <<settled, doubt, issued>>
budget  == <<stops, errors>>
vars    == <<process, disk, history, budget>>

Table == [id: Nat, recs: SUBSET Record]

NoFiles == [i \in {} |-> {}]

\* The file system's reading of a directory without one name, or with one more.
Without(d, id) == [i \in DOMAIN d \ {id} |-> d[i]]
With(d, id, recs) == [i \in DOMAIN d \cup {id} |-> IF i = id THEN recs ELSE d[i]]

Init ==
    /\ pc = "down" /\ mem = {} /\ tables = <<>> /\ seq = 0 /\ nextId = 0
    /\ old = <<>> /\ lossy = FALSE
    /\ dir = NoFiles /\ dirDurable = NoFiles
    /\ wal = <<>> /\ walDurable = <<>>
    /\ settled = [k \in Keys |-> Gone]
    /\ doubt = [k \in Keys |-> {}]
    /\ issued = 0
    /\ stops = 0 /\ errors = 0

(***************************************************************************)
(* Reads.                                                                  *)
(***************************************************************************)
LiveTableRecords == UNION {tables[i].recs : i \in DOMAIN tables}

\* Reading the tables before the memtable.
TablesBeforeMem == [i \in DOMAIN tables |-> tables[i].recs] \o <<mem>>

\* get walks memtable first, then the tables in order; the first hit decides.
Sources == <<mem>> \o [i \in DOMAIN tables |-> tables[i].recs]

Get(k) ==
    LET hit == {i \in DOMAIN Sources : k \in KeysOf(Sources[i])}
    IN IF hit = {} THEN Gone
       ELSE LET first == CHOOSE i \in hit : \A j \in hit : i <= j
            IN (CHOOSE r \in Sources[first] : r.key = k).val

\* scan ignores the order of the sources and goes by sequence number.
Scan(k) ==
    LET best == {r \in NewestPerKey(mem \cup LiveTableRecords) : r.key = k}
    IN IF best = {} THEN Gone ELSE (CHOOSE r \in best : TRUE).val

(***************************************************************************)
(* Opening: load every table, replay the log, restore the counters.        *)
(***************************************************************************)

\* The ways to list a set of ids in descending order (there is one).
NewestFirst(ids) ==
    {o \in [1..Cardinality(ids) -> ids] : \A i, j \in DOMAIN o : i < j => o[i] > o[j]}

\* Recovery that forgets the footers' max_seq.
SeqsInLog == {r.seq : r \in Replay(wal)}

\* Every sequence number recovery sees: the replayed log and the footers.
SeqsOnDisk == {r.seq : r \in Replay(wal) \cup UNION {dir[i] : i \in DOMAIN dir}}

Open ==
    /\ pc = "down"
    /\ \E order \in NewestFirst(DOMAIN dir) :
          /\ tables' = [i \in DOMAIN order |-> [id |-> order[i], recs |-> dir[order[i]]]]
          /\ nextId' = IF order = <<>> THEN 0 ELSE order[1] + 1
    /\ mem' = Replay(wal)
    /\ \E top \in {0} \cup SeqsOnDisk :
          /\ \A s \in SeqsOnDisk : s <= top
          /\ seq' = top + 1
    /\ pc' = "idle"
    /\ UNCHANGED <<old, lossy, disk, history, budget>>

(***************************************************************************)
(* put and delete: append to the log, fsync it, insert, maybe flush.       *)
(***************************************************************************)

LogDamaged == \E i \in DOMAIN wal : wal[i] = Torn

MayWrite ==
    /\ pc = "idle" /\ seq <= MaxSeq
    /\ LogDamaged => "write_after_torn" \in Exposed

Write(k, x) ==
    /\ MayWrite
    /\ wal' = Append(wal, [seq |-> seq, key |-> k, val |-> x])
    /\ seq' = seq + 1
    /\ doubt' = [doubt EXCEPT ![k] = @ \cup {x}]
    /\ pc' = "sync"
    /\ UNCHANGED <<mem, tables, nextId, old, lossy, dir, dirDurable, walDurable, settled, issued, budget>>

\* write_all fails: the number is spent, and part of the frame may be in the log.
\* A process killed inside the append leaves the same log, after a Kill.
AppendFails ==
    /\ MayWrite /\ errors < MaxErrors
    /\ seq' = seq + 1
    /\ wal' \in {wal, Append(wal, Torn)}
    /\ errors' = errors + 1
    /\ UNCHANGED <<pc, mem, tables, nextId, old, lossy, dir, dirDurable,
                   walDurable, history, stops>>

\* fsync of the log succeeds.  The write is durable from here on, and the
\* memtable insert makes it visible: this is where the write takes effect.
Pending == wal[Len(wal)]

SyncInsert ==
    /\ pc = "sync"
    /\ walDurable' = wal
    /\ mem' = MemInsert(mem, Pending)
    /\ pc' = IF Cardinality(mem') >= FlushAt THEN "flush" ELSE "idle"
    /\ settled' = [settled EXCEPT ![Pending.key] = Pending.val]
    /\ doubt' = [doubt EXCEPT ![Pending.key] = {}]
    /\ issued' = IF Pending.seq > issued THEN Pending.seq ELSE issued
    /\ UNCHANGED <<tables, seq, nextId, old, lossy, dir, dirDurable, wal, budget>>

(***************************************************************************)
(* flush, called by a client or by maybe_flush: write the memtable as a    *)
(* table, make it durable and live, and only then empty the log.           *)
(***************************************************************************)

\* Temporary file written, fsynced and renamed to its final name.  Until the
\* rename a reader of the directory sees nothing (parse_sst_id skips .tmp).
FlushWrite ==
    /\ pc = "flush" \/ (pc = "idle" /\ mem # {})
    /\ nextId < MaxTables
    /\ dir' = With(dir, nextId, mem)
    /\ pc' = "flushDir"
    /\ UNCHANGED <<mem, tables, seq, nextId, old, lossy, dirDurable, wal,
                   walDurable, history, budget>>

\* A flush that forgets to clear the memtable.
MemKept == mem

MemAfterFlush == {}

\* Directory fsynced; the table opens, goes to the front, the memtable clears.
FlushInstall ==
    /\ pc = "flushDir"
    /\ dirDurable' = dir
    /\ tables' = <<[id |-> nextId, recs |-> dir[nextId]]>> \o tables
    /\ nextId' = nextId + 1
    /\ mem' = MemAfterFlush
    /\ pc' = "reset"
    /\ UNCHANGED <<seq, old, lossy, dir, wal, walDurable, history, budget>>

ResetTruncate ==
    /\ pc = "reset"
    /\ wal' = <<>>
    /\ pc' = "resetSync"
    /\ UNCHANGED <<mem, tables, seq, nextId, old, lossy, dir, dirDurable,
                   walDurable, history, budget>>

ResetSync ==
    /\ pc = "resetSync"
    /\ walDurable' = wal
    /\ pc' = "idle"
    /\ UNCHANGED <<mem, tables, seq, nextId, old, lossy, dir, dirDurable, wal,
                   history, budget>>

(***************************************************************************)
(* compact: merge all tables into one, swap it in, unlink the inputs.      *)
(***************************************************************************)

Dropped == Tombstones(NewestPerKey(LiveTableRecords))

\* The records in files that an earlier compaction should have unlinked.  (A file
\* with the next id is what a failed flush or merge left: it is overwritten.)
LeftoverRecords ==
    UNION {dir[i] : i \in {j \in DOMAIN dir : j < nextId} \ {tables[n].id : n \in DOMAIN tables}}

MayDrop == KeysOf(Dropped) \cap KeysOf(LeftoverRecords) # {} => "leftover_input" \in Exposed

CompactWrite ==
    /\ pc = "idle" /\ Len(tables) >= 2 /\ nextId < MaxTables /\ MayDrop
    /\ dir' = With(dir, nextId, Merge(LiveTableRecords))
    /\ pc' = "mergeDir"
    /\ UNCHANGED <<mem, tables, seq, nextId, old, lossy, dirDurable, wal,
                   walDurable, history, budget>>

\* Listing the files to unlink after the merged table has been swapped in.
InputsAfterSwap == <<nextId>>

Inputs == [i \in DOMAIN tables |-> tables[i].id]

CompactSwap ==
    /\ pc = "mergeDir"
    /\ dirDurable' = dir
    /\ tables' = <<[id |-> nextId, recs |-> dir[nextId]]>>
    /\ old' = Inputs
    /\ lossy' = (Dropped # {})
    /\ nextId' = nextId + 1
    /\ pc' = "unlink"
    /\ UNCHANGED <<mem, seq, dir, wal, walDurable, history, budget>>

UnlinkOne ==
    /\ pc = "unlink" /\ old # <<>>
    /\ dir' = Without(dir, Head(old))
    /\ old' = Tail(old)
    /\ pc' = IF old' = <<>> THEN "unlinkDir" ELSE "unlink"
    /\ UNCHANGED <<mem, tables, seq, nextId, lossy, dirDurable, wal, walDurable, history, budget>>

UnlinkSync ==
    /\ pc = "unlinkDir"
    /\ dirDurable' = dir
    /\ pc' = "idle" /\ lossy' = FALSE
    /\ UNCHANGED <<mem, tables, seq, nextId, old, dir, wal, walDurable, history,
                   budget>>

(***************************************************************************)
(* Failures.                                                               *)
(***************************************************************************)

\* Whether the call in progress may be interrupted here.
MayCut == lossy => "cut_removal" \in Exposed

\* A system call of the call in progress returns an error and `?` passes it on:
\* what was done stays done.  A failing directory fsync may have persisted.  The
\* inputs a compaction did not get to unlink stay on disk, and in no open table.
IoError ==
    /\ pc \notin {"down", "idle"} /\ errors < MaxErrors /\ MayCut
    /\ dirDurable' \in IF pc \in {"flushDir", "mergeDir", "unlinkDir"}
                      THEN {dirDurable, dir} ELSE {dirDurable}
    /\ pc' = "idle" /\ old' = <<>> /\ lossy' = FALSE
    /\ errors' = errors + 1
    /\ UNCHANGED <<mem, tables, seq, nextId, dir, wal, walDurable,
                   history, stops>>

\* The process is gone; its memory with it.
ProcessDies ==
    /\ pc # "down" /\ stops < MaxStops /\ MayCut
    /\ pc' = "down" /\ mem' = {} /\ tables' = <<>> /\ old' = <<>> /\ lossy' = FALSE
    /\ seq' = 0 /\ nextId' = 0
    /\ stops' = stops + 1
    /\ UNCHANGED <<history, errors>>

\* A killed process leaves everything it wrote in the page cache, which the
\* kernel has written out before the next process comes, or has not.
Kill ==
    /\ ProcessDies
    /\ UNCHANGED <<dir, wal>>
    /\ IF "slow_writeback" \in Exposed
       THEN UNCHANGED <<dirDurable, walDurable>>
       ELSE dirDurable' = dir /\ walDurable' = wal

\* The log after a power loss: as fsynced, or with some of what followed.
WalAfterPowerLoss ==
    LET extends == /\ Len(walDurable) <= Len(wal)
                   /\ SubSeq(wal, 1, Len(walDurable)) = walDurable
        kept == (IF extends THEN Len(walDurable) ELSE 0) .. Len(wal)
    IN {walDurable} \cup {SubSeq(wal, 1, n) : n \in kept}
       \cup {Append(SubSeq(wal, 1, n), Torn) : n \in kept \ {Len(wal)}}

\* The directory after a power loss: for some of the names the latest change is
\* found, for the others what the last fsync of the directory left.
DirsAfterPowerLoss ==
    LET names == DOMAIN dir \cup DOMAIN dirDurable
    IN {[i \in (DOMAIN dir \cap new) \cup (DOMAIN dirDurable \ new) |->
            IF i \in new THEN dir[i] ELSE dirDurable[i]] : new \in SUBSET names}

PowerLoss ==
    /\ ProcessDies
    /\ wal' \in WalAfterPowerLoss /\ walDurable' = wal'
    /\ dir' \in DirsAfterPowerLoss /\ dirDurable' = dir'

Next ==
    \/ Open
    \/ \E k \in Keys, x \in Values \cup {Gone} : Write(k, x)
    \/ AppendFails
    \/ SyncInsert
    \/ FlushWrite \/ FlushInstall \/ ResetTruncate \/ ResetSync
    \/ CompactWrite \/ CompactSwap \/ UnlinkOne \/ UnlinkSync
    \/ IoError \/ Kill \/ PowerLoss

Spec == Init /\ [][Next]_vars
===============================================================================
