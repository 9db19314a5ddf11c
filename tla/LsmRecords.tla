------------------------------ MODULE LsmRecords ------------------------------
(***************************************************************************)
(* Records of the lsmkv store (10-database-internals) and the pure         *)
(* operations on collections of them.                                      *)
(*                                                                         *)
(* A collection with at most one record per key (a memtable, an SSTable)   *)
(* is a set of records: the code keeps such collections sorted by key, and *)
(* only the membership matters to the store's contents.  The log is a      *)
(* sequence of frames, a frame being a record or Torn: a frame whose bytes *)
(* are incomplete or fail their checksum.                                  *)
(***************************************************************************)
EXTENDS Naturals, Sequences

CONSTANTS
    Keys,       \* the keys clients write
    Values,     \* the values clients write
    Gone,       \* a tombstone's value; also what reading an unknown key gives
    Torn        \* a frame cut short

ASSUME GoneAssumption == Gone \notin Values

Record == [seq: Nat, key: Keys, val: Values \cup {Gone}]

ASSUME TornAssumption == Torn \notin Record

Frame == Record \cup {Torn}

KeysOf(R) == {r.key : r \in R}

\* At most one record per key: what a map keyed by the key holds.
OnePerKey(R) == \A r, q \in R : r.key = q.key => r = q

(***************************************************************************)
(* Reducing many versions to the newest one per key.                       *)
(***************************************************************************)

\* The record with the highest sequence number of each key.
NewestPerKey(R) == {r \in R : \A q \in R : q.key = r.key => q.seq <= r.seq}

Tombstones(R) == {r \in R : r.val = Gone}

\* Merging that drops tombstones before it reduces, un-shadowing old values.
MergeDropsFirst(R) == NewestPerKey(R \ Tombstones(R))

\* What a full compaction keeps of the records of all tables.
Merge(R) == NewestPerKey(R) \ Tombstones(NewestPerKey(R))

(***************************************************************************)
(* The memtable.                                                           *)
(***************************************************************************)

\* Inserting beside the entry the key already has.
InsertBeside(M, r) == M \cup {r}

\* Inserting a record replaces the entry of its key.
MemInsert(M, r) == {q \in M : q.key # r.key} \cup {r}

(***************************************************************************)
(* Replaying the log: the intact prefix, inserted in write order.          *)
(***************************************************************************)

\* The positions replay gets to: everything before the first damaged frame.
Intact(w) == {i \in DOMAIN w : \A j \in 1..i : w[j] # Torn}

\* The memtable that results: the last intact record of every key.
Replay(w) == {w[i] : i \in {n \in Intact(w) :
                            \A m \in Intact(w) : m > n => w[m].key # w[n].key}}
===============================================================================
