-------------------------------- MODULE LsmProps --------------------------------
(***************************************************************************)
(* What the storage engine of Lsm promises, as invariants and as the       *)
(* implementation of the durable map of KvStore.                           *)
(***************************************************************************)
EXTENDS Lsm

Up == pc # "down"

ProcessTypeOK ==
    /\ pc \in {"down", "idle", "sync", "flush", "flushDir", "reset", "resetSync",
               "mergeDir", "unlink", "unlinkDir"}
    /\ mem \subseteq Record /\ OnePerKey(mem)
    /\ tables \in Seq(Table)
    /\ seq \in Nat /\ nextId \in Nat
    /\ old \in Seq(Nat) /\ lossy \in BOOLEAN

\* Finitely many numbered files of records.
Files(d) == /\ IsFiniteSet(DOMAIN d) /\ DOMAIN d \subseteq Nat
            /\ \A i \in DOMAIN d : d[i] \subseteq Record

DiskTypeOK ==
    /\ Files(dir) /\ Files(dirDurable)
    /\ wal \in Seq(Frame) /\ walDurable \in Seq(Frame)

HistoryTypeOK ==
    /\ settled \in [Keys -> Values \cup {Gone}]
    /\ doubt \in [Keys -> SUBSET (Values \cup {Gone})]
    /\ issued \in Nat /\ stops \in Nat /\ errors \in Nat

\* Every variable has its type, and the memtable is a map: one record per key.
TypeOK == ProcessTypeOK /\ DiskTypeOK /\ HistoryTypeOK

(***************************************************************************)
(* Every crash, restart, flush, compaction and failed call considered, the *)
(* engine is a durable map: a put or delete that took effect is found      *)
(* after any later restart, one that did not is found or not, and flushing *)
(* and compacting are invisible to readers.                                *)
(***************************************************************************)
Promised == INSTANCE KvStore WITH
    up   <- Up,
    view <- IF Up THEN [k \in Keys |-> Get(k)] ELSE [k \in Keys |-> Gone]

ImplementsKvStore == Promised!Spec

(***************************************************************************)
(* An acknowledged write is what a reader finds, unless a later unfinished *)
(* write of the key has surfaced: the part of the promise above that       *)
(* bin/kv.rs states ("the next command still sees every acknowledged       *)
(* write").                                                                *)
(***************************************************************************)
AcknowledgedSurvive == Up => \A k \in Keys : Get(k) \in {settled[k]} \cup doubt[k]

(***************************************************************************)
(* encoding.rs on sequence numbers: "Never reused, never goes backwards    *)
(* (even across a restart)".  A write being made durable has a higher      *)
(* number than every write that took effect before it.                     *)
(***************************************************************************)
SeqNeverReused == pc = "sync" => Pending.seq > issued

(***************************************************************************)
(* get goes by the order of its sources (memtable, newest table, oldest),  *)
(* scan by sequence number: they give the same answer for every key,       *)
(* whatever recovery found on disk.                                        *)
(***************************************************************************)
ReadPathsAgree == Up => \A k \in Keys : Get(k) = Scan(k)

(***************************************************************************)
(* A sequence number identifies a write: two live records of one key with  *)
(* one number are the same record, and the next number is above all of     *)
(* them.  newest_per_key and keep_newest pick by number alone and would    *)
(* otherwise depend on the order they meet the records in.                 *)
(***************************************************************************)
SeqIdentifiesWrite ==
    Up => LET live == mem \cup LiveTableRecords
          IN /\ \A r, q \in live : r.key = q.key /\ r.seq = q.seq => r = q
             /\ \A r \in live : r.seq < seq

(***************************************************************************)
(* Write-ahead: every memtable entry is in the log, so that dropping the   *)
(* memtable at any moment drops nothing.                                   *)
(***************************************************************************)
MemtableIsLogged == \A r \in mem : \E i \in DOMAIN wal : wal[i] = r

(***************************************************************************)
(* The file of a live table is never unlinked nor replaced: the directory  *)
(* holds what the open handle reads, and the ids are in descending order.  *)
(***************************************************************************)
LiveTablesOnDisk ==
    /\ \A i \in DOMAIN tables : /\ tables[i].id \in DOMAIN dir
                                /\ dir[tables[i].id] = tables[i].recs
    /\ \A i, j \in DOMAIN tables : i < j => tables[i].id > tables[j].id
===============================================================================
