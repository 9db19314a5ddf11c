-------------------------------- MODULE LsmProofs --------------------------------
(***************************************************************************)
(* Proofs about the storage engine for every set of keys and values, every *)
(* flush threshold and every bound: first what holds whatever is Exposed,  *)
(* then that the engine is a durable map, through any number of kills,     *)
(* power losses and failing calls, where nothing it does not survive is.   *)
(***************************************************************************)
EXTENDS LsmProps, SequenceTheorems, FiniteSetTheorems, WellFoundedInduction, TLAPS

(***************************************************************************)
(* What the three safety properties need besides themselves: how far the   *)
(* call in progress has got says what it has left to rely on.              *)
(***************************************************************************)
CallState ==
    /\ pc = "down" => mem = {} /\ tables = <<>>
    /\ pc \in {"reset", "resetSync"} => mem = {}
    /\ pc = "sync" => wal # <<>> /\ Pending \in Record
    /\ pc \in {"flushDir", "mergeDir"} => nextId \in DOMAIN dir
    /\ pc = "unlink" => \A i \in DOMAIN old, j \in DOMAIN tables : old[i] < tables[j].id
    /\ \A j \in DOMAIN tables : tables[j].id < nextId

IInv == TypeOK /\ MemtableIsLogged /\ LiveTablesOnDisk /\ CallState

(***************************************************************************)
(* Lemmas about the pure operations.                                       *)
(***************************************************************************)

\* Replaying a log gives a memtable: records of the log, one per key.
LEMMA ReplayIsMemtable ==
    ASSUME NEW w \in Seq(Frame)
    PROVE  /\ Replay(w) \subseteq Record
           /\ OnePerKey(Replay(w))
           /\ \A r \in Replay(w) : \E i \in DOMAIN w : w[i] = r
<1>1. \A i \in Intact(w) : i \in DOMAIN w /\ i \in Nat /\ w[i] \in Record
  BY DEF Intact, Frame
<1>2. \A r \in Replay(w) : \E n \in Intact(w) :
         /\ w[n] = r
         /\ \A m \in Intact(w) : m > n => w[m].key # w[n].key
  BY DEF Replay
<1>3. OnePerKey(Replay(w))
  <2> SUFFICES ASSUME NEW r \in Replay(w), NEW q \in Replay(w), r.key = q.key
               PROVE  r = q
    BY DEF OnePerKey
  <2>1. PICK n \in Intact(w) :
           w[n] = r /\ \A m \in Intact(w) : m > n => w[m].key # w[n].key
    BY <1>2
  <2>2. PICK o \in Intact(w) :
           w[o] = q /\ \A m \in Intact(w) : m > o => w[m].key # w[o].key
    BY <1>2
  <2>3. n = o
    BY <1>1, <2>1, <2>2
  <2> QED BY <2>1, <2>2, <2>3
<1> QED BY <1>1, <1>2, <1>3

\* Inserting keeps the memtable a map and adds only the record.
LEMMA MemInsertIsMemtable ==
    ASSUME NEW M \in SUBSET Record, NEW r \in Record, OnePerKey(M)
    PROVE  /\ MemInsert(M, r) \subseteq Record
           /\ OnePerKey(MemInsert(M, r))
           /\ MemInsert(M, r) \subseteq M \cup {r}
BY DEF MemInsert, OnePerKey

\* A full compaction keeps records of its inputs.
LEMMA MergeKeepsRecords ==
    ASSUME NEW R \in SUBSET Record
    PROVE  Merge(R) \subseteq R
BY DEF Merge, NewestPerKey

\* A full compaction is invisible to readers: for every key the newest record of
\* the merged table is the newest one of the inputs, unless that is a tombstone,
\* and then the key is gone from the merged table.
THEOREM MergeInvisible ==
    ASSUME NEW R \in SUBSET Record, NEW k \in Keys
    PROVE  {r \in NewestPerKey(Merge(R)) : r.key = k}
             = {r \in NewestPerKey(R) : r.key = k /\ r.val # Gone}
<1> DEFINE L == {r \in NewestPerKey(Merge(R)) : r.key = k}
           S == {r \in NewestPerKey(R) : r.key = k /\ r.val # Gone}
<1>1. \A r \in R : r.seq \in Nat
  BY DEF Record
<1>2. \A r, q \in NewestPerKey(R) : r.key = q.key => r.seq = q.seq
  BY <1>1 DEF NewestPerKey
<1>3. L \subseteq S
  BY DEF NewestPerKey, Merge, Tombstones
<1>4. ASSUME NEW r \in S PROVE r \in L
  BY <1>1, <1>2 DEF NewestPerKey, Merge, Tombstones
<1> QED BY <1>3, <1>4

\* What is left of a log after a power loss is a log.
LEMMA LogPrefixes ==
    ASSUME NEW w \in Seq(Frame), NEW n \in 0..Len(w)
    PROVE  /\ SubSeq(w, 1, n) \in Seq(Frame)
           /\ Append(SubSeq(w, 1, n), Torn) \in Seq(Frame)
BY DEF Frame

\* Clearing the tables, the list of unlinks or the log leaves a sequence.
LEMMA EmptySeqs == <<>> \in Seq(Nat) /\ <<>> \in Seq(Table) /\ <<>> \in Seq(Frame)
OBVIOUS

\* The parts of the live tables.
LEMMA LiveTableTypes ==
    ASSUME tables \in Seq(Table)
    PROVE  /\ DOMAIN tables = 1..Len(tables) /\ Len(tables) \in Nat
           /\ \A i \in DOMAIN tables : /\ tables[i].id \in Nat
                                       /\ tables[i].recs \subseteq Record
<1>1. DOMAIN tables = 1..Len(tables) /\ Len(tables) \in Nat
  OBVIOUS
<1>2. \A i \in DOMAIN tables : tables[i] \in Table
  OBVIOUS
<1> QED BY <1>1, <1>2 DEF Table

\* The empty store satisfies the invariant.
LEMMA InitInvariant == Init => IInv
<1> SUFFICES ASSUME Init PROVE IInv
  OBVIOUS
<1>1. DOMAIN dir = {} /\ DOMAIN dirDurable = {}
  BY DEF Init, NoFiles
<1>2. tables = <<>> /\ DOMAIN tables = {} /\ tables \in Seq(Table)
  BY DEF Init
<1>3. old \in Seq(Nat) /\ wal \in Seq(Frame) /\ walDurable \in Seq(Frame)
  BY DEF Init
<1>4. TypeOK
  BY <1>1, <1>2, <1>3, FS_EmptySet
     DEF Init, TypeOK, ProcessTypeOK, DiskTypeOK, HistoryTypeOK, Files, OnePerKey
<1>5. MemtableIsLogged /\ LiveTablesOnDisk /\ CallState
  BY <1>2 DEF Init, MemtableIsLogged, LiveTablesOnDisk, CallState
<1> QED BY <1>4, <1>5 DEF IInv

(***************************************************************************)
(* Every step keeps every variable in its type.                            *)
(***************************************************************************)
\* The history kept for the properties.
LEMMA HistoryTypeStep == IInv /\ [Next]_vars => HistoryTypeOK'
<1> SUFFICES ASSUME IInv, [Next]_vars PROVE HistoryTypeOK'
  OBVIOUS
<1> USE DEF IInv, TypeOK, HistoryTypeOK
<1>1. ASSUME NEW k \in Keys, NEW x \in Values \cup {Gone}, Write(k, x)
      PROVE  HistoryTypeOK'
  BY <1>1 DEF Write, budget
<1>2. CASE SyncInsert
  <2>1. Pending.key \in Keys /\ Pending.val \in Values \cup {Gone} /\ Pending.seq \in Nat
    BY <1>2 DEF SyncInsert, CallState, Record
  <2>2. settled' \in [Keys -> Values \cup {Gone}] /\ doubt' \in [Keys -> SUBSET (Values \cup {Gone})]
    BY <1>2, <2>1 DEF SyncInsert
  <2>3. issued' \in Nat
    BY <1>2, <2>1 DEF SyncInsert
  <2> QED BY <1>2, <2>2, <2>3 DEF SyncInsert, budget
<1>3. CASE AppendFails \/ IoError
  BY <1>3 DEF AppendFails, IoError, history
<1>4. CASE Kill \/ PowerLoss
  BY <1>4 DEF Kill, PowerLoss, ProcessDies, history
<1>5. CASE Open \/ CompactWrite \/ CompactSwap \/ UnlinkOne \/ UnlinkSync
  BY <1>5 DEF Open, CompactWrite, CompactSwap, UnlinkOne, UnlinkSync, history, budget
<1>6. CASE FlushWrite \/ FlushInstall \/ ResetTruncate \/ ResetSync \/ UNCHANGED vars
  BY <1>6 DEF FlushWrite, FlushInstall, ResetTruncate, ResetSync, vars, history, budget
<1> QED BY <1>1, <1>2, <1>3, <1>4, <1>5, <1>6 DEF Next

\* The memory of the process: the memtable stays a map of records, recovery
\* lists the files of the directory, counters stay numbers.
LEMMA ProcessTypeStep == IInv /\ [Next]_vars => ProcessTypeOK'
<1> SUFFICES ASSUME IInv, [Next]_vars PROVE ProcessTypeOK'
  OBVIOUS
<1> USE DEF IInv, TypeOK, ProcessTypeOK
<1>1. ASSUME NEW k \in Keys, NEW x \in Values \cup {Gone}, Write(k, x)
      PROVE  ProcessTypeOK'
  BY <1>1 DEF Write, MayWrite
<1>2. CASE Open
  <2>1. PICK order \in NewestFirst(DOMAIN dir) :
           /\ tables' = [i \in DOMAIN order |-> [id |-> order[i], recs |-> dir[order[i]]]]
           /\ nextId' = IF order = <<>> THEN 0 ELSE order[1] + 1
    BY <1>2 DEF Open
  <2>2. DOMAIN order = 1..Cardinality(DOMAIN dir) /\ Cardinality(DOMAIN dir) \in Nat
    BY FS_CardinalityType DEF NewestFirst, DiskTypeOK, Files
  <2>3. \A i \in DOMAIN order : order[i] \in Nat /\ dir[order[i]] \subseteq Record
    BY DEF NewestFirst, DiskTypeOK, Files
  <2>4. tables' \in Seq(Table)
    <3>1. \A i \in DOMAIN order : [id |-> order[i], recs |-> dir[order[i]]] \in Table
      BY <2>3 DEF Table
    <3>2. tables' \in [1..Cardinality(DOMAIN dir) -> Table]
      BY <2>1, <2>2, <3>1
    <3>3. Seq(Table) = UNION {[1..n -> Table] : n \in Nat}
      BY SeqDef
    <3> QED BY <2>2, <3>2, <3>3
  <2>5. order \in Seq(Nat)
    BY <2>2, <2>3 DEF NewestFirst
  <2>6. nextId' \in Nat
    BY <2>1, <2>5
  <2>7. mem' \subseteq Record /\ OnePerKey(mem')
    BY <1>2, ReplayIsMemtable DEF Open, DiskTypeOK
  <2>8. seq' \in Nat
    <3>1. PICK top \in {0} \cup SeqsOnDisk : seq' = top + 1
      BY <1>2 DEF Open
    <3>2. SeqsOnDisk \subseteq Nat
      <4>1. Replay(wal) \subseteq Record
        BY ReplayIsMemtable DEF DiskTypeOK
      <4>2. UNION {dir[i] : i \in DOMAIN dir} \subseteq Record
        BY DEF DiskTypeOK, Files
      <4> QED BY <4>1, <4>2 DEF SeqsOnDisk, Record
    <3> QED BY <3>1, <3>2
  <2> QED BY <1>2, <2>4, <2>6, <2>7, <2>8 DEF Open
<1>3. CASE SyncInsert
  <2>1. Pending \in Record
    BY <1>3 DEF SyncInsert, CallState
  <2>2. mem' \subseteq Record /\ OnePerKey(mem')
    BY <1>3, <2>1, MemInsertIsMemtable DEF SyncInsert
  <2> QED BY <1>3, <2>2 DEF SyncInsert
<1>4. CASE FlushInstall
  <2>1. [id |-> nextId, recs |-> dir[nextId]] \in Table
    BY <1>4 DEF FlushInstall, CallState, DiskTypeOK, Files, Table
  <2>2. tables' \in Seq(Table)
    BY <1>4, <2>1 DEF FlushInstall
  <2> QED BY <1>4, <2>2 DEF FlushInstall, MemAfterFlush, OnePerKey
<1>5. CASE CompactSwap
  <2>1. [id |-> nextId, recs |-> dir[nextId]] \in Table
    BY <1>5 DEF CompactSwap, CallState, DiskTypeOK, Files, Table
  <2>2. tables' \in Seq(Table)
    BY <1>5, <2>1 DEF CompactSwap
  <2>3. DOMAIN tables = 1..Len(tables) /\ \A i \in DOMAIN tables : tables[i].id \in Nat
    BY LiveTableTypes
  <2>4. old' \in Seq(Nat)
    BY <1>5, <2>3 DEF CompactSwap, Inputs
  <2> QED BY <1>5, <2>2, <2>4 DEF CompactSwap
<1>6. CASE UnlinkOne
  BY <1>6 DEF UnlinkOne
<1>7. CASE UnlinkSync \/ IoError
  <2>1. pc' = "idle" /\ lossy' = FALSE /\ (old' = old \/ old' = <<>>)
    BY <1>7 DEF UnlinkSync, IoError
  <2>2. old' \in Seq(Nat)
    BY <2>1, EmptySeqs
  <2>3. mem' = mem /\ tables' = tables /\ seq' = seq /\ nextId' = nextId
    BY <1>7 DEF UnlinkSync, IoError
  <2> QED BY <2>1, <2>2, <2>3 DEF OnePerKey
<1>8. CASE Kill \/ PowerLoss
  <2>1. /\ pc' = "down" /\ mem' = {} /\ tables' = <<>> /\ old' = <<>>
        /\ lossy' = FALSE /\ seq' = 0 /\ nextId' = 0
    BY <1>8 DEF Kill, PowerLoss, ProcessDies
  <2>2. old' \in Seq(Nat) /\ tables' \in Seq(Table)
    BY <2>1, EmptySeqs
  <2>3. mem' \subseteq Record /\ OnePerKey(mem')
    BY <2>1 DEF OnePerKey
  <2> QED BY <2>1, <2>2, <2>3
<1>9. CASE AppendFails \/ FlushWrite \/ ResetTruncate \/ ResetSync \/ CompactWrite
  BY <1>9 DEF AppendFails, MayWrite, FlushWrite, ResetTruncate, ResetSync, CompactWrite
<1>10. CASE UNCHANGED vars
  BY <1>10 DEF vars, process
<1> QED BY <1>1, <1>2, <1>3, <1>4, <1>5, <1>6, <1>7, <1>8, <1>9, <1>10 DEF Next

\* Writing a file, removing one, and a power loss leave a directory of files.
LEMMA FilesStayFiles ==
    ASSUME Files(dir), Files(dirDurable)
    PROVE  /\ \A id \in Nat, recs \in SUBSET Record : Files(With(dir, id, recs))
           /\ \A id \in Nat : Files(Without(dir, id))
           /\ \A d \in DirsAfterPowerLoss : Files(d)
<1>1. ASSUME NEW id \in Nat, NEW recs \in SUBSET Record PROVE Files(With(dir, id, recs))
  BY FS_AddElement DEF Files, With
<1>2. ASSUME NEW id \in Nat PROVE Files(Without(dir, id))
  BY FS_RemoveElement DEF Files, Without
<1>3. ASSUME NEW d \in DirsAfterPowerLoss PROVE Files(d)
  <2>1. PICK new \in SUBSET (DOMAIN dir \cup DOMAIN dirDurable) :
           d = [i \in (DOMAIN dir \cap new) \cup (DOMAIN dirDurable \ new) |->
                  IF i \in new THEN dir[i] ELSE dirDurable[i]]
    BY <1>3 DEF DirsAfterPowerLoss
  <2>2. IsFiniteSet(DOMAIN dir \cup DOMAIN dirDurable)
    BY FS_Union DEF Files
  <2>3. DOMAIN d \subseteq DOMAIN dir \cup DOMAIN dirDurable
    BY <2>1
  <2>4. IsFiniteSet(DOMAIN d)
    BY <2>2, <2>3, FS_Subset
  <2> QED BY <2>1, <2>4 DEF Files
<1> QED BY <1>1, <1>2, <1>3

\* The disk: directories of record files, logs of frames, after a power loss too.
LEMMA DiskTypeStep == IInv /\ [Next]_vars => DiskTypeOK'
<1> SUFFICES ASSUME IInv, [Next]_vars PROVE DiskTypeOK'
  OBVIOUS
<1> USE DEF IInv, TypeOK, DiskTypeOK
<1>1. ASSUME NEW k \in Keys, NEW x \in Values \cup {Gone}, Write(k, x)
      PROVE  DiskTypeOK'
  <2>1. [seq |-> seq, key |-> k, val |-> x] \in Frame
    BY DEF ProcessTypeOK, Record, Frame
  <2> QED BY <1>1, <2>1 DEF Write, Files
<1>2. CASE AppendFails
  <2>1. Torn \in Frame
    BY DEF Frame
  <2>2. wal' \in Seq(Frame)
    BY <1>2, <2>1 DEF AppendFails
  <2> QED BY <1>2, <2>2 DEF AppendFails, Files
<1>3. CASE FlushWrite
  <2>1. Files(dir')
    BY <1>3, FilesStayFiles DEF FlushWrite, ProcessTypeOK
  <2> QED BY <1>3, <2>1 DEF FlushWrite, Files
<1>4. CASE CompactWrite
  <2>1. \A i \in DOMAIN tables : tables[i].recs \subseteq Record
    BY LiveTableTypes DEF ProcessTypeOK
  <2>2. LiveTableRecords \subseteq Record
    BY <2>1 DEF LiveTableRecords
  <2>3. Merge(LiveTableRecords) \subseteq Record
    BY <2>2, MergeKeepsRecords
  <2>4. Files(dir')
    BY <1>4, <2>3, FilesStayFiles DEF CompactWrite, ProcessTypeOK
  <2> QED BY <1>4, <2>4 DEF CompactWrite, Files
<1>5. CASE UnlinkOne
  <2>1. Head(old) \in Nat
    BY <1>5 DEF UnlinkOne, ProcessTypeOK
  <2>2. Files(dir')
    BY <1>5, <2>1, FilesStayFiles DEF UnlinkOne
  <2> QED BY <1>5, <2>2 DEF UnlinkOne, Files
<1>6. CASE FlushInstall \/ CompactSwap \/ UnlinkSync
  BY <1>6 DEF FlushInstall, CompactSwap, UnlinkSync, Files
<1>7. CASE SyncInsert \/ ResetTruncate \/ ResetSync
  <2>1. dir' = dir /\ dirDurable' = dirDurable
    BY <1>7 DEF SyncInsert, ResetTruncate, ResetSync
  <2>2. wal' = wal \/ wal' = <<>>
    BY <1>7 DEF SyncInsert, ResetTruncate, ResetSync
  <2>3. walDurable' = wal \/ walDurable' = walDurable
    BY <1>7 DEF SyncInsert, ResetTruncate, ResetSync
  <2> QED BY <2>1, <2>2, <2>3, EmptySeqs DEF Files
<1>8. CASE IoError
  <2>1. dirDurable' = dirDurable \/ dirDurable' = dir
    BY <1>8 DEF IoError
  <2> QED BY <1>8, <2>1 DEF IoError, Files
<1>9. CASE Kill
  <2>1. dirDurable' = dirDurable \/ dirDurable' = dir
    BY <1>9 DEF Kill
  <2>2. walDurable' = walDurable \/ walDurable' = wal
    BY <1>9 DEF Kill
  <2> QED BY <1>9, <2>1, <2>2 DEF Kill, Files
<1>10. CASE PowerLoss
  <2>1. wal' \in Seq(Frame)
    <3>1. PICK w \in WalAfterPowerLoss : w = wal'
      BY <1>10 DEF PowerLoss
    <3>2. CASE w = walDurable
      BY <3>1, <3>2
    <3>3. CASE \E n \in 0..Len(wal) : w = SubSeq(wal, 1, n) \/ w = Append(SubSeq(wal, 1, n), Torn)
      BY <3>1, <3>3, LogPrefixes
    <3> QED BY <3>1, <3>2, <3>3 DEF WalAfterPowerLoss
  <2>2. Files(dir')
    BY <1>10, FilesStayFiles DEF PowerLoss
  <2> QED BY <1>10, <2>1, <2>2 DEF PowerLoss, Files
<1>11. CASE Open \/ UNCHANGED vars
  BY <1>11 DEF Open, vars, disk, Files
<1> QED BY <1>1, <1>2, <1>3, <1>4, <1>5, <1>6, <1>7, <1>8, <1>9, <1>10, <1>11 DEF Next

(***************************************************************************)
(* Every step keeps the memtable covered by the log: what replay inserts   *)
(* came from the log, what a write inserts is the frame just fsynced, and  *)
(* the log is emptied only while the memtable is empty.                    *)
(***************************************************************************)
LEMMA LoggedStep == IInv /\ [Next]_vars => MemtableIsLogged'
<1> SUFFICES ASSUME IInv, [Next]_vars PROVE MemtableIsLogged'
  OBVIOUS
<1> USE DEF IInv, MemtableIsLogged
<1>0. wal \in Seq(Frame)
  BY DEF TypeOK, DiskTypeOK
<1>a. ASSUME NEW f, wal' = Append(wal, f), mem' = mem PROVE MemtableIsLogged'
  <2>1. \A i \in DOMAIN wal : i \in DOMAIN wal' /\ wal'[i] = wal[i]
    BY <1>0, <1>a
  <2> QED BY <1>a, <2>1
<1>1. ASSUME NEW k \in Keys, NEW x \in Values \cup {Gone}, Write(k, x)
      PROVE  MemtableIsLogged'
  BY <1>1, <1>a DEF Write
<1>2. CASE AppendFails
  BY <1>2, <1>a DEF AppendFails
<1>3. CASE Open
  BY <1>0, <1>3, ReplayIsMemtable DEF Open, disk
<1>4. CASE SyncInsert
  <2>1. Len(wal) \in DOMAIN wal /\ Pending = wal[Len(wal)]
    BY <1>0, <1>4 DEF SyncInsert, CallState, Pending
  <2>2. mem' \subseteq mem \cup {Pending} /\ wal' = wal
    BY <1>4 DEF SyncInsert, MemInsert
  <2> QED BY <2>1, <2>2
<1>5. CASE FlushInstall \/ ResetTruncate \/ Kill \/ PowerLoss
  <2>1. mem' = {}
    BY <1>5 DEF FlushInstall, MemAfterFlush, ResetTruncate, CallState, Kill, PowerLoss, ProcessDies
  <2> QED BY <2>1
<1>6. CASE FlushWrite \/ ResetSync \/ CompactWrite \/ CompactSwap
  BY <1>6 DEF FlushWrite, ResetSync, CompactWrite, CompactSwap
<1>7. CASE UnlinkOne \/ UnlinkSync \/ IoError \/ UNCHANGED vars
  BY <1>7 DEF UnlinkOne, UnlinkSync, IoError, vars, process, disk
<1> QED BY <1>1, <1>2, <1>3, <1>4, <1>5, <1>6, <1>7 DEF Next

(***************************************************************************)
(* Every step keeps the files of the live tables: a flush or a compaction  *)
(* writes under an id above theirs, and a compaction unlinks only ids      *)
(* below the one it made live.                                             *)
(***************************************************************************)
LEMMA LiveTablesStep ==
    IInv /\ [Next]_vars => LiveTablesOnDisk' /\ \A j \in DOMAIN tables' : tables'[j].id < nextId'
<1> DEFINE Below == \A j \in DOMAIN tables : tables[j].id < nextId
<1> SUFFICES ASSUME IInv, [Next]_vars PROVE LiveTablesOnDisk' /\ Below'
  OBVIOUS
<1> USE DEF LiveTablesOnDisk
<1>0. LiveTablesOnDisk /\ Below /\ TypeOK /\ CallState
  BY DEF IInv, CallState
<1>t. /\ tables \in Seq(Table) /\ nextId \in Nat /\ DOMAIN dir \subseteq Nat
      /\ DOMAIN tables = 1..Len(tables) /\ Len(tables) \in Nat
      /\ \A i \in DOMAIN tables : tables[i].id \in Nat
  BY <1>0, LiveTableTypes DEF TypeOK, ProcessTypeOK, DiskTypeOK, Files
<1>1. CASE Open
  <2>1. PICK order \in NewestFirst(DOMAIN dir) :
           /\ tables' = [i \in DOMAIN order |-> [id |-> order[i], recs |-> dir[order[i]]]]
           /\ nextId' = IF order = <<>> THEN 0 ELSE order[1] + 1
    BY <1>1 DEF Open
  <2>2. /\ DOMAIN order = 1..Cardinality(DOMAIN dir) /\ Cardinality(DOMAIN dir) \in Nat
        /\ \A i \in DOMAIN order : order[i] \in DOMAIN dir /\ order[i] \in Nat
        /\ \A i, j \in DOMAIN order : i < j => order[i] > order[j]
    BY <1>0, <1>t, FS_CardinalityType DEF NewestFirst, TypeOK, DiskTypeOK, Files
  <2>3. DOMAIN tables' = DOMAIN order /\ \A i \in DOMAIN order : tables'[i].id = order[i] /\ tables'[i].recs = dir[order[i]]
    BY <2>1
  <2>4. dir' = dir
    BY <1>1 DEF Open, disk
  <2>5. LiveTablesOnDisk'
    BY <2>2, <2>3, <2>4
  <2>6. ASSUME NEW j \in DOMAIN order PROVE order[j] < nextId'
    <3>1. 1 \in DOMAIN order /\ order # <<>>
      BY <2>2
    <3>2. order[1] >= order[j]
      BY <2>2, <3>1
    <3> QED BY <2>1, <2>2, <3>1, <3>2
  <2> QED BY <2>3, <2>5, <2>6
<1>2. CASE FlushWrite \/ CompactWrite
  <2>1. tables' = tables /\ nextId' = nextId
    BY <1>2 DEF FlushWrite, CompactWrite
  <2>2. \A i \in DOMAIN dir : i # nextId => i \in DOMAIN dir' /\ dir'[i] = dir[i]
    BY <1>2 DEF FlushWrite, CompactWrite, With
  <2>3. \A j \in DOMAIN tables : tables[j].id # nextId
    BY <1>0, <1>t
  <2> QED BY <1>0, <2>1, <2>2, <2>3
<1>3. CASE FlushInstall
  <2>1. /\ tables' = <<[id |-> nextId, recs |-> dir[nextId]]>> \o tables
        /\ nextId' = nextId + 1 /\ dir' = dir /\ nextId \in DOMAIN dir
    BY <1>0, <1>3 DEF FlushInstall, CallState
  <2>2. DOMAIN tables' = 1..(Len(tables) + 1)
    BY <1>t, <2>1
  <2>3. tables'[1] = [id |-> nextId, recs |-> dir[nextId]]
    BY <1>t, <2>1
  <2>4. \A i \in DOMAIN tables' : i # 1 => i - 1 \in DOMAIN tables /\ tables'[i] = tables[i - 1]
    BY <1>t, <2>1, <2>2
  <2>5. ASSUME NEW i \in DOMAIN tables'
        PROVE  /\ tables'[i].id \in DOMAIN dir' /\ dir'[tables'[i].id] = tables'[i].recs
               /\ tables'[i].id < nextId'
    BY <1>0, <1>t, <2>1, <2>2, <2>3, <2>4
  <2>6. ASSUME NEW i \in DOMAIN tables', NEW j \in DOMAIN tables', i < j
        PROVE  tables'[i].id > tables'[j].id
    BY <1>0, <1>t, <2>1, <2>2, <2>3, <2>4, <2>6
  <2> QED BY <2>5, <2>6
<1>4. CASE CompactSwap
  <2>1. /\ tables' = <<[id |-> nextId, recs |-> dir[nextId]]>>
        /\ nextId' = nextId + 1 /\ dir' = dir /\ nextId \in DOMAIN dir
    BY <1>0, <1>4 DEF CompactSwap, CallState
  <2>2. DOMAIN tables' = {1} /\ tables'[1].id = nextId /\ tables'[1].recs = dir[nextId]
    BY <2>1
  <2> QED BY <1>t, <2>1, <2>2
<1>5. CASE UnlinkOne
  <2>1. tables' = tables /\ nextId' = nextId /\ dir' = Without(dir, Head(old)) /\ old # <<>>
    BY <1>5 DEF UnlinkOne
  <2>2. \A j \in DOMAIN tables : Head(old) < tables[j].id
    <3>1. old \in Seq(Nat) /\ 1 \in DOMAIN old /\ Head(old) = old[1]
      BY <1>0, <2>1 DEF TypeOK, ProcessTypeOK
    <3> QED BY <1>0, <1>5, <3>1 DEF CallState, UnlinkOne
  <2>3. \A j \in DOMAIN tables : tables[j].id # Head(old)
    <3>1. Head(old) \in Nat
      BY <1>0, <2>1 DEF TypeOK, ProcessTypeOK
    <3> QED BY <1>t, <2>2, <3>1
  <2> QED BY <1>0, <2>1, <2>3 DEF Without
<1>6. CASE Kill \/ PowerLoss
  <2>1. tables' = <<>> /\ DOMAIN tables' = {}
    BY <1>6 DEF Kill, PowerLoss, ProcessDies
  <2> QED BY <2>1
<1>7. CASE AppendFails \/ SyncInsert \/ ResetTruncate \/ ResetSync \/ UnlinkSync
  BY <1>0, <1>7 DEF AppendFails, SyncInsert, ResetTruncate, ResetSync, UnlinkSync
<1>8. CASE IoError \/ UNCHANGED vars
  BY <1>0, <1>8 DEF IoError, vars, process, disk
<1>9. ASSUME NEW k \in Keys, NEW x \in Values \cup {Gone}, Write(k, x)
      PROVE  LiveTablesOnDisk' /\ Below'
  BY <1>0, <1>9 DEF Write
<1> QED BY <1>1, <1>2, <1>3, <1>4, <1>5, <1>6, <1>7, <1>8, <1>9 DEF Next

(***************************************************************************)
(* Every step leaves the call in progress with what it relies on.          *)
(***************************************************************************)
LEMMA CallStateStep == IInv /\ [Next]_vars => CallState'
<1> SUFFICES ASSUME IInv, [Next]_vars PROVE CallState'
  OBVIOUS
<1>0. CallState /\ TypeOK /\ \A j \in DOMAIN tables' : tables'[j].id < nextId'
  BY LiveTablesStep DEF IInv
<1>w. wal \in Seq(Frame) /\ nextId \in Nat
  BY <1>0 DEF TypeOK, DiskTypeOK, ProcessTypeOK
<1>1. ASSUME NEW k \in Keys, NEW x \in Values \cup {Gone}, Write(k, x)
      PROVE  CallState'
  <2> DEFINE r == [seq |-> seq, key |-> k, val |-> x]
  <2>1. r \in Record
    BY <1>0 DEF TypeOK, ProcessTypeOK, Record
  <2>2. wal' = Append(wal, r) /\ pc' = "sync"
    BY <1>1 DEF Write
  <2>3. wal' # <<>> /\ wal'[Len(wal')] = r
    BY <1>w, <2>2
  <2>4. Pending' = r
    BY <2>3 DEF Pending
  <2> QED BY <1>0, <2>1, <2>2, <2>3, <2>4 DEF CallState
<1>2. CASE Open
  <2>1. pc' = "idle"
    BY <1>2 DEF Open
  <2> QED BY <1>0, <2>1 DEF CallState
<1>3. CASE SyncInsert \/ AppendFails \/ IoError \/ ResetSync \/ UnlinkSync
  <2>1. pc' \in {"idle", "flush"}
    BY <1>3 DEF SyncInsert, AppendFails, MayWrite, IoError, ResetSync, UnlinkSync
  <2> QED BY <1>0, <2>1 DEF CallState
<1>4. CASE FlushWrite \/ CompactWrite
  <2>1. pc' \in {"flushDir", "mergeDir"} /\ nextId' = nextId /\ nextId \in DOMAIN dir'
    BY <1>4 DEF FlushWrite, CompactWrite, With
  <2> QED BY <1>0, <2>1 DEF CallState
<1>5. CASE FlushInstall \/ ResetTruncate
  <2>1. pc' \in {"reset", "resetSync"} /\ mem' = {}
    BY <1>0, <1>5 DEF FlushInstall, MemAfterFlush, ResetTruncate, CallState
  <2> QED BY <1>0, <2>1 DEF CallState
<1>6. CASE CompactSwap
  <2>1. /\ pc' = "unlink"
        /\ tables' = <<[id |-> nextId, recs |-> dir[nextId]]>>
        /\ old' = [i \in DOMAIN tables |-> tables[i].id]
    BY <1>6 DEF CompactSwap, Inputs
  <2>2. DOMAIN tables' = {1} /\ tables'[1].id = nextId
    BY <2>1
  <2>3. \A i \in DOMAIN old', j \in DOMAIN tables' : old'[i] < tables'[j].id
    BY <1>0, <2>1, <2>2 DEF CallState
  <2> QED BY <1>0, <2>1, <2>3 DEF CallState
<1>7. CASE UnlinkOne
  <2>1. /\ pc = "unlink" /\ pc' \in {"unlink", "unlinkDir"} /\ tables' = tables
        /\ old # <<>> /\ old' = Tail(old) /\ old \in Seq(Nat)
    BY <1>0, <1>7 DEF UnlinkOne, TypeOK, ProcessTypeOK
  <2>2. \A i \in DOMAIN old' : i + 1 \in DOMAIN old /\ old'[i] = old[i + 1]
    BY <2>1
  <2>3. \A i \in DOMAIN old', j \in DOMAIN tables' : old'[i] < tables'[j].id
    BY <1>0, <2>1, <2>2 DEF CallState
  <2> QED BY <1>0, <2>1, <2>3 DEF CallState
<1>8. CASE Kill \/ PowerLoss
  <2>1. pc' = "down" /\ mem' = {} /\ tables' = <<>>
    BY <1>8 DEF Kill, PowerLoss, ProcessDies
  <2> QED BY <1>0, <2>1 DEF CallState
<1>9. CASE UNCHANGED vars
  BY <1>0, <1>9 DEF CallState, Pending, vars, process, disk
<1> QED BY <1>1, <1>2, <1>3, <1>4, <1>5, <1>6, <1>7, <1>8, <1>9 DEF Next

(***************************************************************************)
(* The theorems.                                                           *)
(***************************************************************************)

\* The inductive invariant holds in every state of the store.
THEOREM Invariance == Spec => []IInv
<1>1. IInv /\ [Next]_vars => IInv'
  BY HistoryTypeStep, ProcessTypeStep, DiskTypeStep, LoggedStep, LiveTablesStep, CallStateStep
     DEF IInv, TypeOK
<1> QED BY InitInvariant, <1>1, PTL DEF Spec

\* Whatever fails and whenever it stops, the store's memory and its disk are
\* well formed; the memtable in particular has one record per key.
THEOREM TypeCorrect == Spec => []TypeOK
<1>1. IInv => TypeOK
  BY DEF IInv
<1> QED BY Invariance, <1>1, PTL

\* The log is ahead of the memtable: put, delete, recovery, flush and reset never
\* leave an entry in memory that a kill would take with it.
THEOREM WriteAhead == Spec => []MemtableIsLogged
<1>1. IInv => MemtableIsLogged
  BY DEF IInv
<1> QED BY Invariance, <1>1, PTL

\* Flush, compaction and its unlinks never touch the file of a live table, and
\* the tables are kept newest first.
THEOREM LiveTablesStay == Spec => []LiveTablesOnDisk
<1>1. IInv => LiveTablesOnDisk
  BY DEF IInv
<1> QED BY Invariance, <1>1, PTL
-----------------------------------------------------------------------------
(***************************************************************************)
(* The durable map.                                                        *)
(***************************************************************************)

(***************************************************************************)
(* What the invariant speaks about.                                        *)
(***************************************************************************)

\* q is a newer version than r, or r itself, if they are of the same key.
Above(q, r) == q.key = r.key => r.seq <= q.seq /\ (r.seq = q.seq => r = q)

RecordsOf(d) == UNION {d[i] : i \in DOMAIN d}

\* Every record a directory may hold after a power loss.
FileRecords == RecordsOf(dir) \cup RecordsOf(dirDurable)

\* What a reader may find for a key after a restart.
Allowed(k) == {settled[k]} \cup doubt[k]

(***************************************************************************)
(* A log w and what of it was fsynced, v: either v was extended since, or  *)
(* the log was emptied since and nothing of it is durable.                 *)
(***************************************************************************)
Extends(w, v) == Len(v) <= Len(w) /\ SubSeq(w, 1, Len(v)) = v

SyncedTo(w, v) == IF Extends(w, v) THEN Len(v) ELSE 0

\* The records that come back from any of the logs a power loss may leave.
SurfacingOf(w, v) == Replay(v) \cup {w[i] : i \in {j \in Intact(w) : j > SyncedTo(w, v)}}

Surfacing == SurfacingOf(wal, walDurable)

\* A key that is in each of these logs.
Covered(w, v, k) == Extends(w, v) /\ k \in KeysOf(Replay(v))

\* Damage is at the end only, and numbers ascend.
LogInOrder(w) ==
    /\ \A i \in DOMAIN w : w[i] = Torn => i = Len(w)
    /\ \A i, j \in Intact(w) : i < j => w[i].seq < w[j].seq

(***************************************************************************)
(* What reading finds in sources that are in order.                        *)
(***************************************************************************)
SourcesOf(m, ts) == <<m>> \o [i \in DOMAIN ts |-> ts[i].recs]

AllIn(s) == UNION {s[i] : i \in DOMAIN s}

SourceGet(s, k) ==
    LET hit == {i \in DOMAIN s : k \in KeysOf(s[i])}
    IN IF hit = {} THEN Gone
       ELSE LET first == CHOOSE i \in hit : \A j \in hit : i <= j
            IN (CHOOSE r \in s[first] : r.key = k).val

Ordered(s) ==
    /\ \A i \in DOMAIN s : s[i] \subseteq Record /\ OnePerKey(s[i])
    /\ \A i, j \in DOMAIN s : i < j => \A r \in s[i], q \in s[j] : Above(r, q)

(***************************************************************************)
(* Numbers: the least and the greatest of some.                            *)
(***************************************************************************)
LEMMA LeastNumber ==
    ASSUME NEW S, S # {}, S \subseteq Nat
    PROVE  \E x \in S : \A y \in S : x <= y
<1>1. PICK x \in S : \A y \in S : ~(<<y, x>> \in OpToRel(<, Nat))
  BY NatLessThanWellFounded, WFMin
<1>2. ASSUME NEW y \in S PROVE x <= y
  <2>1. x \in Nat /\ y \in Nat
    OBVIOUS
  <2>2. ~(y < x)
    BY <1>1, <2>1 DEF OpToRel
  <2> QED BY <2>1, <2>2
<1> QED BY <1>2

LEMMA GreatestNumber ==
    ASSUME NEW n \in Nat, NEW S, S # {}, S \subseteq 1..n
    PROVE  \E x \in S : \A y \in S : y <= x
<1> DEFINE T == {n - x : x \in S}
<1>0. \A x \in S : x \in 1..n /\ x \in Nat /\ n - x \in Nat
  OBVIOUS
<1>1. T # {} /\ T \subseteq Nat
  <2>1. \A t \in T : t \in Nat
    BY <1>0
  <2>2. PICK x \in S : TRUE
    OBVIOUS
  <2>3. n - x \in T
    BY <2>2
  <2> QED BY <2>1, <2>3
<1>2. PICK t \in T : \A u \in T : t <= u
  BY <1>1, LeastNumber
<1>3. PICK x \in S : t = n - x
  BY <1>2
<1>4. ASSUME NEW y \in S PROVE y <= x
  <2>1. n - x <= n - y
    BY <1>2, <1>3
  <2>2. x \in Nat /\ y \in Nat
    BY <1>0
  <2> HIDE DEF T
  <2> QED BY <2>1, <2>2
<1> QED BY <1>4

(***************************************************************************)
(* Replay.                                                                 *)
(***************************************************************************)
LEMMA IntactPositions ==
    ASSUME NEW w \in Seq(Frame)
    PROVE  /\ Intact(w) \subseteq 1..Len(w)
           /\ \A i \in Intact(w) : w[i] \in Record
           /\ \A i \in Intact(w), j \in 1..Len(w) : j <= i => j \in Intact(w)
<1>1. DOMAIN w = 1..Len(w) /\ Len(w) \in Nat
  OBVIOUS
<1>2. \A i \in Intact(w) : i \in 1..Len(w) /\ w[i] # Torn
  BY <1>1 DEF Intact
<1>3. \A i \in 1..Len(w) : w[i] \in Frame
  BY <1>1
<1>4. \A i \in Intact(w), j \in 1..Len(w) : j <= i => j \in Intact(w)
  BY <1>1 DEF Intact
<1> QED BY <1>2, <1>3, <1>4 DEF Frame

\* What replay leaves is the last intact record of each key.
LEMMA ReplayIsLast ==
    ASSUME NEW w
    PROVE  \A q : q \in Replay(w) <=>
             \E n \in Intact(w) : /\ w[n] = q
                                  /\ \A m \in Intact(w) : m > n => w[m].key # q.key
BY DEF Replay

\* A key that is in the intact part is replayed.
LEMMA ReplayFinds ==
    ASSUME NEW w \in Seq(Frame), NEW i \in Intact(w)
    PROVE  w[i].key \in KeysOf(Replay(w))
<1> DEFINE S == {j \in Intact(w) : w[j].key = w[i].key}
<1>1. S # {} /\ S \subseteq 1..Len(w) /\ Len(w) \in Nat
  BY IntactPositions
<1>2. PICK n \in S : \A m \in S : m <= n
  BY <1>1, GreatestNumber
<1>3. \A m \in Intact(w) : m > n => w[m].key # w[n].key
  BY <1>1, <1>2, IntactPositions
<1>4. w[n] \in Replay(w)
  BY <1>3, ReplayIsLast
<1> QED BY <1>4 DEF KeysOf

LEMMA ReplayedKeys ==
    ASSUME NEW w \in Seq(Frame), NEW k \in KeysOf(Replay(w))
    PROVE  \E i \in Intact(w) : w[i].key = k
BY ReplayIsLast DEF KeysOf

(***************************************************************************)
(* The logs a power loss may leave.                                        *)
(***************************************************************************)
LEMMA SyncedPart ==
    ASSUME NEW w \in Seq(Frame), NEW v \in Seq(Frame)
    PROVE  /\ SyncedTo(w, v) \in 0..Len(w)
           /\ Extends(w, v) <=> /\ Len(v) <= Len(w)
                                /\ \A i \in 1..Len(v) : w[i] = v[i]
           /\ \A i \in 1..SyncedTo(w, v) : Extends(w, v) /\ i \in 1..Len(v) /\ w[i] = v[i]
           /\ Extends(w, v) => SyncedTo(w, v) = Len(v)
<1>1. Len(w) \in Nat /\ Len(v) \in Nat /\ DOMAIN v = 1..Len(v)
  OBVIOUS
<1>2. ASSUME Len(v) <= Len(w)
      PROVE  SubSeq(w, 1, Len(v)) = v <=> \A i \in 1..Len(v) : w[i] = v[i]
  <2>1. /\ SubSeq(w, 1, Len(v)) \in Seq(Frame) /\ Len(SubSeq(w, 1, Len(v))) = Len(v)
        /\ \A i \in 1..Len(v) : SubSeq(w, 1, Len(v))[i] = w[i]
    BY <1>1, <1>2
  <2>2. (\A i \in 1..Len(v) : SubSeq(w, 1, Len(v))[i] = v[i]) => SubSeq(w, 1, Len(v)) = v
    BY <2>1, SeqEqual
  <2> QED BY <2>1, <2>2
<1> QED BY <1>1, <1>2 DEF SyncedTo, Extends

\* Only surfacing records come back from what is left of a log.
LEMMA PrefixSurfaces ==
    ASSUME NEW w \in Seq(Frame), NEW v \in Seq(Frame), NEW u \in Seq(Frame),
           NEW n \in SyncedTo(w, v) .. Len(w),
           Len(u) >= n, \A i \in 1..n : u[i] = w[i],
           Intact(u) \subseteq 1..n
    PROVE  Replay(u) \subseteq SurfacingOf(w, v)
<1> SUFFICES ASSUME NEW q \in Replay(u) PROVE q \in SurfacingOf(w, v)
  OBVIOUS
<1>0. Len(w) \in Nat /\ Len(v) \in Nat /\ Len(u) \in Nat /\ n \in Nat /\ n <= Len(w)
      /\ DOMAIN w = 1..Len(w) /\ DOMAIN v = 1..Len(v) /\ DOMAIN u = 1..Len(u)
      /\ SyncedTo(w, v) <= n /\ SyncedTo(w, v) \in Nat
  BY SyncedPart
<1>1. PICK p \in Intact(u) : u[p] = q /\ \A m \in Intact(u) : m > p => u[m].key # q.key
  BY ReplayIsLast
<1>2. p \in 1..n /\ w[p] = q
  BY <1>1
<1>3. \A i \in 1..p : i \in 1..n /\ w[i] # Torn
  BY <1>0, <1>1, <1>2 DEF Intact
<1>4. p \in Intact(w)
  BY <1>0, <1>2, <1>3 DEF Intact
<1>5. CASE p > SyncedTo(w, v)
  BY <1>2, <1>4, <1>5 DEF SurfacingOf
<1>6. CASE p <= SyncedTo(w, v)
  <2>1. Extends(w, v) /\ SyncedTo(w, v) = Len(v) /\ \A i \in 1..Len(v) : w[i] = v[i]
    <3>1. p \in 1..SyncedTo(w, v)
      BY <1>0, <1>2, <1>6
    <3>2. Extends(w, v)
      BY <3>1, SyncedPart
    <3> QED BY <3>2, SyncedPart
  <2>2. p \in Intact(v) /\ v[p] = q
    <3>1. \A i \in 1..p : v[i] # Torn
      BY <1>0, <1>2, <1>3, <1>6, <2>1
    <3> QED BY <1>0, <1>2, <1>6, <2>1, <3>1 DEF Intact
  <2>3. ASSUME NEW m \in Intact(v), m > p PROVE v[m].key # q.key
    <3>1. m \in 1..Len(v) /\ \A i \in 1..m : v[i] # Torn
      BY <1>0 DEF Intact
    <3>2. m \in 1..n /\ \A i \in 1..m : u[i] = v[i] /\ i \in 1..Len(v)
      BY <1>0, <2>1, <3>1
    <3>3. m \in Intact(u)
      BY <1>0, <3>1, <3>2 DEF Intact
    <3> QED BY <1>1, <2>3, <3>2, <3>3
  <2>4. q \in Replay(v)
    BY <2>2, <2>3, ReplayIsLast
  <2> QED BY <2>4 DEF SurfacingOf
<1> QED BY <1>0, <1>2, <1>5, <1>6

\* The first n frames of a log, and perhaps a damaged one.
Agree(u, w, n) == \A i \in 1..n : u[i] = w[i]

LEMMA PrefixPositions ==
    ASSUME NEW n \in Nat, NEW a \in Nat, NEW b \in Nat, n <= a, b = n \/ (b = n + 1 /\ n < a)
    PROVE  /\ 1..n \subseteq 1..a
           /\ \A i \in 1..n : i = a => i = b
           /\ \A i \in 1..b : i \notin 1..n => i = b
OBVIOUS

LEMMA PrefixInOrder ==
    ASSUME NEW w \in Seq(Frame), NEW u \in Seq(Frame), NEW n \in Nat, n <= Len(w), LogInOrder(w),
           \/ Len(u) = n
           \/ n < Len(w) /\ Len(u) = n + 1 /\ u[n + 1] = Torn,
           Agree(u, w, n)
    PROVE  LogInOrder(u) /\ Intact(u) \subseteq 1..n
<1>0. /\ Len(w) \in Nat /\ DOMAIN w = 1..Len(w) /\ DOMAIN u = 1..Len(u)
      /\ Len(u) \in Nat
      /\ Len(u) = n \/ (Len(u) = n + 1 /\ u[n + 1] = Torn /\ n < Len(w))
  OBVIOUS
<1>p. /\ 1..n \subseteq DOMAIN w
      /\ \A i \in 1..n : i = Len(w) => i = Len(u)
      /\ \A i \in 1..Len(u) : i \notin 1..n => i = Len(u)
  <2>1. Len(u) = n \/ (Len(u) = n + 1 /\ n < Len(w))
    BY <1>0
  <2>2. Len(w) \in Nat /\ Len(u) \in Nat /\ n <= Len(w)
    BY <1>0
  <2>3. /\ 1..n \subseteq 1..Len(w)
        /\ \A i \in 1..n : i = Len(w) => i = Len(u)
        /\ \A i \in 1..Len(u) : i \notin 1..n => i = Len(u)
    BY ONLY <2>1, <2>2, PrefixPositions
  <2> QED BY <1>0, <2>3
<1>1. Intact(u) \subseteq 1..n
  <2> SUFFICES ASSUME NEW i \in Intact(u) PROVE i \in 1..n
    OBVIOUS
  <2>1. i \in 1..Len(u) /\ u[i] # Torn
    BY IntactPositions, TornAssumption
  <2>2. i = n + 1 => u[n + 1] # Torn
    BY <2>1
  <2>3. CASE Len(u) = n
    BY <2>1, <2>3
  <2>4. CASE Len(u) = n + 1 /\ u[n + 1] = Torn
    <3>1. i # n + 1
      BY <2>2, <2>4
    <3> QED BY <2>1, <2>4, <3>1
  <2> QED BY <1>0, <2>3, <2>4
<1>2. \A i \in Intact(u) : i \in Intact(w) /\ u[i] = w[i]
  <2> TAKE i \in Intact(u)
  <2>1. i \in 1..n
    BY <1>1
  <2>2. \A j \in 1..i : j \in 1..n
    BY <2>1
  <2>3. \A j \in 1..i : u[j] # Torn
    BY DEF Intact
  <2>4. \A j \in 1..i : w[j] # Torn
    BY <2>2, <2>3 DEF Agree
  <2>5. i \in DOMAIN w
    BY <1>p, <2>1
  <2> QED BY <2>1, <2>4, <2>5 DEF Intact, Agree
<1>3. \A i \in DOMAIN u : u[i] = Torn => i = Len(u)
  <2> SUFFICES ASSUME NEW i \in 1..Len(u), u[i] = Torn PROVE i = Len(u)
    BY <1>0
  <2>1. CASE i \in 1..n
    <3>1. w[i] = Torn
      BY <2>1 DEF Agree
    <3>2. i \in DOMAIN w
      BY <1>p, <2>1
    <3>3. i = Len(w)
      BY <3>1, <3>2 DEF LogInOrder
    <3> QED BY <1>p, <2>1, <3>3
  <2>2. CASE i \notin 1..n
    BY <1>p, <2>2
  <2> QED BY <2>1, <2>2
<1>4. \A i, j \in Intact(u) : i < j => u[i].seq < u[j].seq
  BY <1>2 DEF LogInOrder
<1> QED BY <1>1, <1>3, <1>4 DEF LogInOrder

LEMMA LogLeft ==
    ASSUME NEW w \in Seq(Frame), NEW v \in Seq(Frame), LogInOrder(w), LogInOrder(v), NEW u,
           \/ u = v
           \/ \E n \in SyncedTo(w, v) .. Len(w) :
                 u = SubSeq(w, 1, n) \/ (n < Len(w) /\ u = Append(SubSeq(w, 1, n), Torn))
    PROVE  /\ u \in Seq(Frame) /\ LogInOrder(u)
           /\ Replay(u) \subseteq SurfacingOf(w, v)
           /\ \A k : Covered(w, v, k) => k \in KeysOf(Replay(u))
<1>1. CASE u = v
  BY <1>1 DEF SurfacingOf, Covered
<1>2. ASSUME NEW n \in SyncedTo(w, v) .. Len(w),
             u = SubSeq(w, 1, n) \/ (n < Len(w) /\ u = Append(SubSeq(w, 1, n), Torn))
      PROVE  /\ u \in Seq(Frame) /\ LogInOrder(u)
             /\ Replay(u) \subseteq SurfacingOf(w, v)
             /\ \A k : Covered(w, v, k) => k \in KeysOf(Replay(u))
  <2>0. /\ Len(w) \in Nat /\ Len(v) \in Nat /\ DOMAIN v = 1..Len(v)
        /\ n \in Nat /\ n <= Len(w) /\ n \in 0..Len(w) /\ SyncedTo(w, v) <= n
        /\ SyncedTo(w, v) \in Nat
    BY SyncedPart
  <2>1. /\ SubSeq(w, 1, n) \in Seq(Frame) /\ Len(SubSeq(w, 1, n)) = n
        /\ \A i \in 1..n : SubSeq(w, 1, n)[i] = w[i]
    BY <2>0
  <2>2. u \in Seq(Frame)
    BY <1>2, <2>0, LogPrefixes
  <2>3. /\ Len(u) = n \/ (n < Len(w) /\ Len(u) = n + 1 /\ u[n + 1] = Torn)
        /\ \A i \in 1..n : u[i] = w[i]
    <3>1. CASE u = SubSeq(w, 1, n)
      BY <2>1, <3>1
    <3>2. CASE n < Len(w) /\ u = Append(SubSeq(w, 1, n), Torn)
      <4> DEFINE p == SubSeq(w, 1, n)
      <4>1. p \in Seq(Frame) /\ Torn \in Frame /\ Len(p) = n
        BY <2>1 DEF Frame
      <4> HIDE DEF p
      <4>2. /\ Len(Append(p, Torn)) = n + 1 /\ Append(p, Torn)[n + 1] = Torn
            /\ \A i \in 1..n : Append(p, Torn)[i] = p[i]
        BY <2>0, <4>1
      <4> QED BY <2>1, <3>2, <4>2 DEF p
    <3> QED BY <1>2, <3>1, <3>2
  <2>4. LogInOrder(u) /\ Intact(u) \subseteq 1..n
    BY <2>0, <2>2, <2>3, PrefixInOrder DEF Agree
  <2>5. Len(u) >= n
    BY <2>0, <2>3
  <2>6. Replay(u) \subseteq SurfacingOf(w, v)
    BY <2>2, <2>3, <2>4, <2>5, PrefixSurfaces
  <2>7. ASSUME NEW k, Covered(w, v, k) PROVE k \in KeysOf(Replay(u))
    <3>1. Extends(w, v) /\ SyncedTo(w, v) = Len(v) /\ \A i \in 1..Len(v) : w[i] = v[i]
      BY <2>7, SyncedPart DEF Covered
    <3>2. PICK p \in Intact(v) : v[p].key = k
      BY <2>7, ReplayedKeys DEF Covered
    <3>3. p \in 1..Len(v) /\ \A j \in 1..p : v[j] # Torn
      BY <2>0 DEF Intact
    <3>4. \A j \in 1..p : j \in 1..n /\ u[j] = v[j]
      BY <2>0, <2>3, <3>1, <3>3
    <3>5. p \in Intact(u) /\ u[p].key = k
      BY <2>0, <2>2, <2>5, <3>2, <3>3, <3>4 DEF Intact
    <3> QED BY <2>2, <3>5, ReplayFinds
  <2> QED BY <2>2, <2>4, <2>6, <2>7
<1> QED BY <1>1, <1>2

\* The log as it stands is one of them.
LEMMA LogStands ==
    ASSUME NEW w \in Seq(Frame), NEW v \in Seq(Frame), LogInOrder(w), LogInOrder(v)
    PROVE  /\ Replay(w) \subseteq SurfacingOf(w, v)
           /\ \A k : Covered(w, v, k) => k \in KeysOf(Replay(w))
<1>1. Len(w) \in SyncedTo(w, v) .. Len(w) /\ Len(w) \in Nat
  BY SyncedPart
<1>2. SubSeq(w, 1, Len(w)) = w
  BY <1>1
<1>3. \E n \in SyncedTo(w, v) .. Len(w) : w = SubSeq(w, 1, n)
  BY <1>1, <1>2
<1> QED BY <1>3, LogLeft

\* A log that was fsynced whole, and an empty one.
LEMMA LogSynced ==
    ASSUME NEW w \in Seq(Frame)
    PROVE  /\ SurfacingOf(w, w) = Replay(w)
           /\ \A k : Covered(w, w, k) <=> k \in KeysOf(Replay(w))
<1>1. Extends(w, w) /\ SyncedTo(w, w) = Len(w) /\ Len(w) \in Nat
  BY SyncedPart
<1>2. {j \in Intact(w) : j > SyncedTo(w, w)} = {}
  BY <1>1, IntactPositions
<1> QED BY <1>1, <1>2 DEF SurfacingOf, Covered

LEMMA LogEmpty ==
    /\ LogInOrder(<<>>)
    /\ \A v : SurfacingOf(<<>>, v) = Replay(v)
    /\ Replay(<<>>) = {}
<1>1. Intact(<<>>) = {} /\ DOMAIN <<>> = {}
  BY DEF Intact
<1> QED BY <1>1 DEF LogInOrder, SurfacingOf, Replay

\* A frame more at the end of an undamaged log.
LEMMA LogGrows ==
    ASSUME NEW w \in Seq(Frame), NEW v \in Seq(Frame), NEW f \in Frame,
           \A i \in DOMAIN w : w[i] # Torn, LogInOrder(w),
           f # Torn => \A i \in Intact(w) : w[i].seq < f.seq
    PROVE  /\ LogInOrder(Append(w, f))
           /\ \A q \in SurfacingOf(Append(w, f), v) :
                 q \in SurfacingOf(w, v) \/ (q = f /\ f # Torn)
           /\ \A i \in Intact(Append(w, f)) :
                 (i \in Intact(w) /\ Append(w, f)[i] = w[i]) \/ (Append(w, f)[i] = f /\ f # Torn)
           /\ \A k : Covered(w, v, k) => Covered(Append(w, f), v, k)
<1> DEFINE u == Append(w, f)
<1>0. /\ Len(w) \in Nat /\ Len(v) \in Nat /\ u \in Seq(Frame) /\ Len(u) = Len(w) + 1
      /\ DOMAIN w = 1..Len(w) /\ DOMAIN u = 1..Len(u)
      /\ \A i \in 1..Len(w) : u[i] = w[i]
      /\ u[Len(u)] = f
  OBVIOUS
<1> HIDE DEF u
<1>1. \A i \in Intact(u) : (i \in Intact(w) /\ u[i] = w[i]) \/ (i = Len(u) /\ f # Torn)
  <2> TAKE i \in Intact(u)
  <2>1. i \in 1..Len(u) /\ u[i] # Torn
    BY <1>0 DEF Intact
  <2>2. CASE i \in 1..Len(w)
    <3>1. \A j \in 1..i : j \in DOMAIN w
      BY <1>0, <2>2
    <3> QED BY <1>0, <2>2, <3>1 DEF Intact
  <2> QED BY <1>0, <2>1, <2>2
<1>2. \A i \in DOMAIN u : u[i] = Torn => i = Len(u)
  BY <1>0
<1>3. \A i, j \in Intact(u) : i < j => u[i].seq < u[j].seq
  <2> SUFFICES ASSUME NEW i \in Intact(u), NEW j \in Intact(u), i < j
               PROVE  u[i].seq < u[j].seq
    OBVIOUS
  <2>1. i \in 1..Len(u) /\ j \in 1..Len(u)
    BY <1>0, IntactPositions
  <2>2. i \in Intact(w) /\ u[i] = w[i]
    BY <1>0, <1>1, <2>1
  <2> QED BY <1>0, <1>1, <2>2 DEF LogInOrder
<1>4. Extends(w, v) => Extends(u, v)
  BY <1>0, SyncedPart
<1>5. SyncedTo(w, v) <= SyncedTo(u, v)
  BY <1>0, <1>4, SyncedPart DEF SyncedTo
<1>6. ASSUME NEW q \in SurfacingOf(u, v)
      PROVE  q \in SurfacingOf(w, v) \/ (q = f /\ f # Torn)
  <2>1. CASE q \in Replay(v)
    BY <2>1 DEF SurfacingOf
  <2>2. ASSUME NEW i \in Intact(u), i > SyncedTo(u, v), q = u[i]
        PROVE  q \in SurfacingOf(w, v) \/ (q = f /\ f # Torn)
    <3>1. SyncedTo(w, v) \in Nat /\ SyncedTo(u, v) \in Nat /\ i \in Nat
      BY <1>0, SyncedPart, IntactPositions
    <3>2. i > SyncedTo(w, v)
      BY <1>5, <2>2, <3>1
    <3> QED BY <1>0, <1>1, <2>2, <3>2 DEF SurfacingOf
  <2> QED BY <2>1, <2>2 DEF SurfacingOf
<1>7. \A k : Covered(w, v, k) => Covered(u, v, k)
  BY <1>4 DEF Covered
<1> QED BY <1>0, <1>1, <1>2, <1>3, <1>6, <1>7 DEF u, LogInOrder

\* The last frame of a log, if it is a record, is what replay leaves of its key.
LEMMA LogLast ==
    ASSUME NEW w \in Seq(Frame), LogInOrder(w), w # <<>>, w[Len(w)] \in Record
    PROVE  /\ w[Len(w)] \in Replay(w) /\ Len(w) \in Intact(w)
           /\ \A q \in Replay(w) : q.key = w[Len(w)].key => q = w[Len(w)]
<1>0. Len(w) \in Nat /\ Len(w) \in 1..Len(w) /\ DOMAIN w = 1..Len(w)
  OBVIOUS
<1>1. \A i \in 1..Len(w) : w[i] # Torn
  BY <1>0, TornAssumption DEF LogInOrder
<1>2. Len(w) \in Intact(w)
  BY <1>0, <1>1 DEF Intact
<1>3. \A m \in Intact(w) : ~(m > Len(w))
  BY <1>0, IntactPositions
<1>4. w[Len(w)] \in Replay(w)
  BY <1>2, <1>3, ReplayIsLast
<1> QED BY <1>2, <1>4, ReplayIsMemtable DEF OnePerKey

(***************************************************************************)
(* Reading.                                                                *)
(***************************************************************************)

\* In ordered sources the first hit is the newest record of its key, and the only
\* one of its number.
LEMMA FirstHit ==
    ASSUME NEW s, NEW n \in Nat, DOMAIN s = 1..n, Ordered(s), NEW k
    PROVE  /\ k \notin KeysOf(AllIn(s)) => SourceGet(s, k) = Gone
           /\ k \in KeysOf(AllIn(s)) => \E r \in NewestPerKey(AllIn(s)) : r.key = k
           /\ \A r \in NewestPerKey(AllIn(s)) : r.key = k => SourceGet(s, k) = r.val
<1> DEFINE hit == {i \in DOMAIN s : k \in KeysOf(s[i])}
           first == CHOOSE i \in hit : \A j \in hit : i <= j
<1>1. \A r : r \in AllIn(s) <=> \E i \in DOMAIN s : r \in s[i]
  BY DEF AllIn
<1>2. hit = {} <=> k \notin KeysOf(AllIn(s))
  BY <1>1 DEF KeysOf
<1>3. hit = {} => SourceGet(s, k) = Gone
  BY DEF SourceGet
<1>4. ASSUME hit # {}
      PROVE  \E r \in NewestPerKey(AllIn(s)) :
                /\ r.key = k /\ SourceGet(s, k) = r.val
                /\ \A q \in NewestPerKey(AllIn(s)) : q.key = k => q = r
  <2>1. hit \subseteq Nat /\ hit \subseteq 1..n
    OBVIOUS
  <2>2. \E i \in hit : \A j \in hit : i <= j
    BY <1>4, <2>1, LeastNumber
  <2>3. first \in hit /\ \A j \in hit : first <= j
    BY <2>2
  <2> DEFINE r0 == CHOOSE r \in s[first] : r.key = k
  <2>4. SourceGet(s, k) = r0.val
    BY <1>4 DEF SourceGet
  <2> HIDE DEF first
  <2>5. \E r \in s[first] : r.key = k
    BY <2>3 DEF KeysOf
  <2>6. r0 \in s[first] /\ r0.key = k
    BY <2>5
  <2> HIDE DEF r0
  <2>7. first \in DOMAIN s /\ r0 \in AllIn(s)
    BY <1>1, <2>3, <2>6
  <2>8. ASSUME NEW q \in AllIn(s), q.key = k
        PROVE  q.seq <= r0.seq /\ (q.seq = r0.seq => q = r0)
    <3>1. PICK j \in DOMAIN s : q \in s[j]
      BY <1>1
    <3>2. j \in hit
      BY <2>8, <3>1 DEF KeysOf
    <3>3. CASE j = first
      <4>1. q = r0
        BY <2>6, <2>7, <2>8, <3>1, <3>3 DEF Ordered, OnePerKey
      <4>2. r0 \in Record
        BY <2>6, <2>7 DEF Ordered
      <4> QED BY <4>1, <4>2 DEF Record
    <3>4. CASE first < j
      BY <2>6, <2>7, <2>8, <3>1, <3>4 DEF Ordered, Above
    <3> QED BY <2>1, <2>3, <3>2, <3>3, <3>4
  <2>9. \A q \in AllIn(s) : q.seq \in Nat
    BY <1>1 DEF Ordered, Record
  <2>10. r0 \in NewestPerKey(AllIn(s))
    BY <2>6, <2>7, <2>8 DEF NewestPerKey
  <2>11. \A q \in NewestPerKey(AllIn(s)) : q.key = k => q = r0
    BY <2>6, <2>7, <2>8, <2>9 DEF NewestPerKey
  <2> QED BY <2>4, <2>6, <2>10, <2>11
<1>5. \A r \in NewestPerKey(AllIn(s)) : r.key = k => k \in KeysOf(AllIn(s))
  BY DEF NewestPerKey, KeysOf
<1> HIDE DEF hit
<1> QED BY <1>2, <1>3, <1>4, <1>5

\* The newest record of the first source decides.
LEMMA FirstSource ==
    ASSUME NEW s, NEW n \in Nat, DOMAIN s = 1..n, Ordered(s), NEW i \in 1..n,
           NEW r \in s[i], \A j \in 1..(i - 1) : r.key \notin KeysOf(s[j])
    PROVE  SourceGet(s, r.key) = r.val
<1>1. r \in AllIn(s)
  BY DEF AllIn
<1>2. ASSUME NEW q \in AllIn(s), q.key = r.key
      PROVE  q.seq <= r.seq
  <2>1. PICK j \in DOMAIN s : q \in s[j]
    BY DEF AllIn
  <2>2. ~(j \in 1..(i - 1))
    BY <1>2, <2>1 DEF KeysOf
  <2>3. j = i \/ i < j
    BY <2>2
  <2>4. CASE j = i
    <3>1. q = r
      BY <1>2, <2>1, <2>4 DEF Ordered, OnePerKey
    <3>2. r \in Record
      BY DEF Ordered
    <3> QED BY <3>1, <3>2 DEF Record
  <2>5. CASE i < j
    BY <1>2, <2>1, <2>5 DEF Ordered, Above
  <2> QED BY <2>3, <2>4, <2>5
<1>3. r \in NewestPerKey(AllIn(s))
  BY <1>1, <1>2 DEF NewestPerKey
<1> QED BY <1>3, FirstHit

\* Two ordered collections of sources with the same records of a key read the same.
LEMMA SameReads ==
    ASSUME NEW s, NEW n \in Nat, DOMAIN s = 1..n, Ordered(s),
           NEW t, NEW m \in Nat, DOMAIN t = 1..m, Ordered(t), NEW k,
           \A r : r.key = k => (r \in AllIn(s) <=> r \in AllIn(t))
    PROVE  SourceGet(s, k) = SourceGet(t, k)
<1>1. \A r : r.key = k => (r \in NewestPerKey(AllIn(s)) <=> r \in NewestPerKey(AllIn(t)))
  BY DEF NewestPerKey
<1>2. k \in KeysOf(AllIn(s)) <=> k \in KeysOf(AllIn(t))
  BY DEF KeysOf
<1>3. CASE k \in KeysOf(AllIn(s))
  <2>1. PICK r \in NewestPerKey(AllIn(s)) : r.key = k
    BY <1>3, FirstHit
  <2>2. r \in NewestPerKey(AllIn(t))
    BY <1>1, <2>1
  <2>3. SourceGet(s, k) = r.val
    BY <2>1, FirstHit
  <2>4. SourceGet(t, k) = r.val
    BY <2>1, <2>2, FirstHit
  <2> QED BY <2>3, <2>4
<1>4. CASE k \notin KeysOf(AllIn(s))
  <2>1. SourceGet(s, k) = Gone
    BY <1>4, FirstHit
  <2>2. SourceGet(t, k) = Gone
    BY <1>2, <1>4, FirstHit
  <2> QED BY <2>1, <2>2
<1> QED BY <1>3, <1>4

\* The memtable and the tables as sources.
LEMMA SourcesParts ==
    ASSUME NEW m \in SUBSET Record, NEW ts \in Seq(Table)
    PROVE  /\ DOMAIN SourcesOf(m, ts) = 1..(Len(ts) + 1) /\ Len(ts) + 1 \in Nat
           /\ SourcesOf(m, ts)[1] = m
           /\ \A i \in 1..Len(ts) : SourcesOf(m, ts)[i + 1] = ts[i].recs
           /\ \A i \in 2..(Len(ts) + 1) :
                 i - 1 \in DOMAIN ts /\ SourcesOf(m, ts)[i] = ts[i - 1].recs
           /\ AllIn(SourcesOf(m, ts)) = m \cup UNION {ts[i].recs : i \in DOMAIN ts}
<1> DEFINE rs == [i \in DOMAIN ts |-> ts[i].recs]
           s == <<m>> \o rs
<1>1. DOMAIN ts = 1..Len(ts) /\ Len(ts) \in Nat /\ \A i \in DOMAIN ts : ts[i] \in Table
  OBVIOUS
<1>2. rs \in Seq(SUBSET Record) /\ Len(rs) = Len(ts) /\ \A i \in 1..Len(ts) : rs[i] = ts[i].recs
  BY <1>1 DEF Table
<1> HIDE DEF rs
<1>3. /\ Len(s) = Len(ts) + 1 /\ DOMAIN s = 1..(Len(ts) + 1) /\ s[1] = m
      /\ \A i \in 1..Len(ts) : s[i + 1] = rs[i]
  BY <1>1, <1>2
<1> HIDE DEF s
<1>4. \A i \in 1..Len(ts) : s[i + 1] = ts[i].recs
  BY <1>2, <1>3
<1>5. \A i \in 2..(Len(ts) + 1) : i - 1 \in DOMAIN ts /\ s[i] = ts[i - 1].recs
  <2> TAKE i \in 2..(Len(ts) + 1)
  <2>1. i - 1 \in 1..Len(ts) /\ (i - 1) + 1 = i
    BY <1>1
  <2> QED BY <1>1, <1>4, <2>1
<1>6. AllIn(s) = m \cup UNION {ts[i].recs : i \in DOMAIN ts}
  <2>1. ASSUME NEW r \in AllIn(s) PROVE r \in m \cup UNION {ts[i].recs : i \in DOMAIN ts}
    <3>1. PICK i \in DOMAIN s : r \in s[i]
      BY DEF AllIn
    <3>2. i = 1 \/ i \in 2..(Len(ts) + 1)
      BY <1>1, <1>3
    <3> QED BY <1>3, <1>5, <3>1, <3>2
  <2>2. m \subseteq AllIn(s)
    BY <1>1, <1>3 DEF AllIn
  <2>3. ASSUME NEW i \in DOMAIN ts PROVE ts[i].recs \subseteq AllIn(s)
    <3>1. i + 1 \in DOMAIN s /\ s[i + 1] = ts[i].recs
      BY <1>1, <1>3, <1>4
    <3> QED BY <3>1 DEF AllIn
  <2> QED BY <2>1, <2>2, <2>3
<1> QED BY <1>1, <1>3, <1>4, <1>5, <1>6 DEF s, rs, SourcesOf

(***************************************************************************)
(* A memtable m and tables ts as sources that are in order.                *)
(***************************************************************************)
RecordsIn(ts) == UNION {ts[i].recs : i \in DOMAIN ts}

InOrder(m, ts) == m \in SUBSET Record /\ ts \in Seq(Table) /\ Ordered(SourcesOf(m, ts))

\* In ordered sources a number identifies a record of a key.
LEMMA Identified ==
    ASSUME NEW s, NEW n \in Nat, DOMAIN s = 1..n, Ordered(s),
           NEW r \in AllIn(s), NEW q \in AllIn(s), r.key = q.key, r.seq = q.seq
    PROVE  r = q
<1>1. PICK i \in DOMAIN s, j \in DOMAIN s : r \in s[i] /\ q \in s[j]
  BY DEF AllIn
<1>2. i < j \/ i = j \/ j < i
  OBVIOUS
<1> QED BY <1>1, <1>2 DEF Ordered, OnePerKey, Above

\* A memtable above files that are in order, and tables that are some of these
\* files listed newest first, are ordered sources.
LEMMA SourcesOrdered ==
    ASSUME NEW m \in SUBSET Record, OnePerKey(m), NEW ts \in Seq(Table), NEW d,
           \A i \in DOMAIN ts : ts[i].id \in DOMAIN d /\ d[ts[i].id] = ts[i].recs,
           \A i, j \in DOMAIN ts : i < j => ts[i].id > ts[j].id,
           \A i \in DOMAIN d : OnePerKey(d[i]),
           \A i, j \in DOMAIN d : i < j => \A r \in d[i], q \in d[j] : Above(q, r),
           \A q \in m, r \in RecordsOf(d) : Above(q, r)
    PROVE  InOrder(m, ts)
<1> DEFINE s == SourcesOf(m, ts)
<1>0. Len(ts) \in Nat /\ \A i \in DOMAIN ts : ts[i] \in Table
  OBVIOUS
<1>1. /\ DOMAIN s = 1..(Len(ts) + 1) /\ Len(ts) \in Nat /\ s[1] = m
      /\ \A i \in 2..(Len(ts) + 1) : i - 1 \in DOMAIN ts /\ s[i] = ts[i - 1].recs
  BY ONLY <1>0, SourcesParts, m \in SUBSET Record, ts \in Seq(Table)
<1> HIDE DEF s
<1>2. \A i \in DOMAIN ts : ts[i].id \in Nat /\ ts[i].recs \subseteq Record
  BY <1>0 DEF Table
<1>3. \A i \in DOMAIN s : i = 1 \/ i \in 2..(Len(ts) + 1)
  BY <1>1
<1>4. \A i \in DOMAIN s : s[i] \subseteq Record /\ OnePerKey(s[i])
  BY <1>1, <1>2, <1>3
<1>5. ASSUME NEW i \in DOMAIN s, NEW j \in DOMAIN s, i < j, NEW r \in s[i], NEW q \in s[j]
      PROVE  Above(r, q)
  <2>1. j \in 2..(Len(ts) + 1)
    BY <1>1, <1>5
  <2>2. j - 1 \in DOMAIN ts /\ q \in d[ts[j - 1].id]
    BY <1>1, <1>5, <2>1
  <2>3. CASE i = 1
    <3>1. r \in m /\ q \in RecordsOf(d)
      BY <1>1, <1>5, <2>2, <2>3 DEF RecordsOf
    <3> QED BY <3>1
  <2>4. CASE i \in 2..(Len(ts) + 1)
    <3>1. i - 1 \in DOMAIN ts /\ r \in d[ts[i - 1].id]
      BY <1>1, <1>5, <2>4
    <3>2. i - 1 < j - 1
      BY <1>1, <1>5, <2>1, <2>4
    <3>3. ts[j - 1].id < ts[i - 1].id
      BY <1>2, <2>2, <3>1, <3>2
    <3> QED BY <2>2, <3>1, <3>3
  <2> QED BY <1>3, <2>3, <2>4
<1> QED BY <1>4, <1>5 DEF Ordered, InOrder, s

\* An entry of the memtable decides; for the other keys the tables do.
LEMMA MemDecides ==
    ASSUME NEW m, NEW ts, InOrder(m, ts), NEW r \in m
    PROVE  SourceGet(SourcesOf(m, ts), r.key) = r.val
<1> DEFINE s == SourcesOf(m, ts)
<1>1. DOMAIN s = 1..(Len(ts) + 1) /\ Len(ts) + 1 \in Nat /\ s[1] = m /\ Ordered(s)
  BY SourcesParts DEF InOrder
<1>2. 1 \in 1..(Len(ts) + 1) /\ 1..(1 - 1) = {}
  <2>1. Len(ts) \in Nat
    BY DEF InOrder
  <2> QED BY <2>1
<1> HIDE DEF s
<1>3. SourceGet(s, r.key) = r.val
  BY <1>1, <1>2, FirstSource
<1> QED BY <1>3 DEF s

LEMMA TablesDecide ==
    ASSUME NEW m, NEW ts, InOrder(m, ts), NEW k, k \notin KeysOf(m)
    PROVE  /\ k \notin KeysOf(RecordsIn(ts)) => SourceGet(SourcesOf(m, ts), k) = Gone
           /\ k \in KeysOf(RecordsIn(ts)) => \E r \in NewestPerKey(RecordsIn(ts)) : r.key = k
           /\ \A r \in NewestPerKey(RecordsIn(ts)) :
                 r.key = k => SourceGet(SourcesOf(m, ts), k) = r.val
<1> DEFINE s == SourcesOf(m, ts)
<1>1. /\ DOMAIN s = 1..(Len(ts) + 1) /\ Len(ts) + 1 \in Nat /\ Ordered(s)
      /\ AllIn(s) = m \cup RecordsIn(ts)
  BY SourcesParts DEF InOrder, RecordsIn
<1> HIDE DEF s
<1>2. \A r : r.key = k => (r \in AllIn(s) <=> r \in RecordsIn(ts))
  BY <1>1 DEF KeysOf
<1>3. \A r : r.key = k => (r \in NewestPerKey(AllIn(s)) <=> r \in NewestPerKey(RecordsIn(ts)))
  BY <1>2 DEF NewestPerKey
<1>4. k \in KeysOf(AllIn(s)) <=> k \in KeysOf(RecordsIn(ts))
  BY <1>2 DEF KeysOf
<1>5. /\ k \notin KeysOf(AllIn(s)) => SourceGet(s, k) = Gone
      /\ k \in KeysOf(AllIn(s)) => \E r \in NewestPerKey(AllIn(s)) : r.key = k
      /\ \A r \in NewestPerKey(AllIn(s)) : r.key = k => SourceGet(s, k) = r.val
  BY <1>1, FirstHit
<1>6. /\ k \notin KeysOf(RecordsIn(ts)) => SourceGet(s, k) = Gone
      /\ k \in KeysOf(RecordsIn(ts)) => \E r \in NewestPerKey(RecordsIn(ts)) : r.key = k
      /\ \A r \in NewestPerKey(RecordsIn(ts)) : r.key = k => SourceGet(s, k) = r.val
  BY <1>3, <1>4, <1>5
<1> QED BY <1>6 DEF s

\* The newest records of the tables are a map.
LEMMA NewestIsMap ==
    ASSUME NEW m, NEW ts, InOrder(m, ts)
    PROVE  /\ OnePerKey(NewestPerKey(RecordsIn(ts)))
           /\ \A r, q \in RecordsIn(ts) : r.key = q.key /\ r.seq = q.seq => r = q
           /\ RecordsIn(ts) \subseteq Record
<1> DEFINE s == SourcesOf(m, ts)
<1>1. /\ DOMAIN s = 1..(Len(ts) + 1) /\ Len(ts) + 1 \in Nat /\ Ordered(s)
      /\ AllIn(s) = m \cup RecordsIn(ts)
  BY SourcesParts DEF InOrder, RecordsIn
<1> HIDE DEF s
<1>2. \A r, q \in RecordsIn(ts) : r.key = q.key /\ r.seq = q.seq => r = q
  BY <1>1, Identified
<1>3. RecordsIn(ts) \subseteq Record
  BY <1>1 DEF Ordered, AllIn
<1>4. \A r \in RecordsIn(ts) : r.seq \in Nat
  BY <1>3 DEF Record
<1>5. OnePerKey(NewestPerKey(RecordsIn(ts)))
  BY <1>2, <1>4 DEF OnePerKey, NewestPerKey
<1> QED BY <1>2, <1>3, <1>5

\* Each of their keys has a newest record.
LEMMA NewestOfTables ==
    ASSUME NEW m, NEW ts, InOrder(m, ts), NEW k \in KeysOf(RecordsIn(ts))
    PROVE  \E r \in NewestPerKey(RecordsIn(ts)) : r.key = k
<1>1. m \in SUBSET Record /\ ts \in Seq(Table) /\ Ordered(SourcesOf(m, ts))
  BY DEF InOrder
<1> DEFINE s == SourcesOf({}, ts)
           o == SourcesOf(m, ts)
<1>0. {} \in SUBSET Record /\ Len(ts) \in Nat
  BY <1>1
<1>2. /\ DOMAIN s = 1..(Len(ts) + 1) /\ s[1] = {}
      /\ \A i \in 2..(Len(ts) + 1) : i - 1 \in DOMAIN ts /\ s[i] = ts[i - 1].recs
  BY ONLY <1>0, <1>1, SourcesParts
<1>3. /\ DOMAIN o = 1..(Len(ts) + 1)
      /\ \A i \in 2..(Len(ts) + 1) : o[i] = ts[i - 1].recs
  BY ONLY <1>1, SourcesParts
<1> HIDE DEF s, o
<1>4. Ordered(o)
  BY <1>1 DEF o
<1>5. \A i \in DOMAIN s : i \in DOMAIN o /\ (s[i] = {} \/ s[i] = o[i])
  <2>1. \A i \in 1..(Len(ts) + 1) : i = 1 \/ i \in 2..(Len(ts) + 1)
    BY <1>0
  <2> QED BY <1>2, <1>3, <2>1
<1>6. Ordered(s)
  BY <1>4, <1>5 DEF Ordered, OnePerKey
<1>7. InOrder({}, ts) /\ k \notin KeysOf({})
  BY <1>1, <1>6 DEF InOrder, KeysOf, s
<1> QED BY <1>7, TablesDecide

\* Merging the tables into one is invisible to get.
LEMMA MergeReads ==
    ASSUME NEW m, NEW ts, NEW us, InOrder(m, ts), InOrder(m, us),
           RecordsIn(us) = Merge(RecordsIn(ts)), NEW k \in Keys
    PROVE  SourceGet(SourcesOf(m, us), k) = SourceGet(SourcesOf(m, ts), k)
<1>1. CASE k \in KeysOf(m)
  BY <1>1, MemDecides DEF KeysOf
<1>2. CASE k \notin KeysOf(m)
  <2> DEFINE R == RecordsIn(ts)
  <2>1. R \in SUBSET Record
    BY NewestIsMap
  <2> HIDE DEF R
  <2>2. {r \in NewestPerKey(Merge(R)) : r.key = k}
          = {r \in NewestPerKey(R) : r.key = k /\ r.val # Gone}
    BY <2>1, MergeInvisible
  <2>3. CASE k \notin KeysOf(R)
    <3>1. k \notin KeysOf(Merge(R))
      BY <2>1, <2>3, MergeKeepsRecords DEF KeysOf
    <3> QED BY <1>2, <2>3, <3>1, TablesDecide DEF R
  <2>4. CASE k \in KeysOf(R)
    <3>1. PICK r \in NewestPerKey(R) : r.key = k
      BY <1>2, <2>4, TablesDecide DEF R
    <3>2. SourceGet(SourcesOf(m, ts), k) = r.val
      BY <1>2, <3>1, TablesDecide DEF R
    <3>3. CASE r.val # Gone
      <4>1. r \in NewestPerKey(Merge(R))
        BY <2>2, <3>1, <3>3
      <4> QED BY <1>2, <3>1, <3>2, <4>1, TablesDecide DEF R
    <3>4. CASE r.val = Gone
      <4>1. \A q \in NewestPerKey(R) : q.key = k => q = r
        BY <3>1, NewestIsMap DEF R, OnePerKey
      <4>2. ~\E q \in NewestPerKey(Merge(R)) : q.key = k
        BY <2>2, <3>4, <4>1
      <4>3. k \notin KeysOf(Merge(R))
        BY <1>2, <4>2, TablesDecide DEF R
      <4> QED BY <1>2, <3>2, <3>4, <4>3, TablesDecide DEF R
    <3> QED BY <3>3, <3>4
  <2> QED BY <2>3, <2>4
<1> QED BY <1>1, <1>2

LEMMA SourcesNow ==
    /\ \A k : Get(k) = SourceGet(SourcesOf(mem, tables), k)
    /\ \A k : Get(k)' = SourceGet(SourcesOf(mem', tables'), k)
BY DEF Get, Sources, SourceGet, SourcesOf

(***************************************************************************)
(* The inductive invariant.                                                *)
(*                                                                         *)
(* The logs: whatever a power loss leaves of the log, a record that comes  *)
(* back from it is newer than every other of its key in memory or in the   *)
(* files, a reader may find it, and every entry of the memtable is in it.  *)
(***************************************************************************)
LogsInOrder == LogInOrder(wal) /\ LogInOrder(walDurable)

NumbersBelow ==
    Up => /\ \A i \in Intact(wal) : wal[i].seq < seq
          /\ \A r \in mem \cup FileRecords : r.seq < seq

LogAbove == \A q \in Surfacing, r \in mem \cup FileRecords : Above(q, r)

LogAllowed == \A q \in Surfacing : q.val \in Allowed(q.key)

MemCovered == \A r \in mem : Covered(wal, walDurable, r.key)

(***************************************************************************)
(* The files: a higher id holds newer versions, and the memtable holds the *)
(* newest, whichever of the latest directory and the last durable one a    *)
(* file is found in.                                                       *)
(***************************************************************************)
FilesInOrder ==
    \A d, e \in {dir, dirDurable} : \A i \in DOMAIN d, j \in DOMAIN e :
       i < j => \A r \in d[i], q \in e[j] : Above(q, r)

FileMaps == \A d \in {dir, dirDurable} : \A i \in DOMAIN d : OnePerKey(d[i])

MemAbove == \A q \in mem, r \in FileRecords : Above(q, r)

(***************************************************************************)
(* The directories: the live tables are durable, and no id is above the    *)
(* next one.  A file under the next id is what a flush or a compaction     *)
(* that failed has left, with entries the log still has or the newest ones *)
(* of the live tables.  A file below it that is not live is an input that  *)
(* a compaction has yet to unlink or failed to: it is older than every     *)
(* live table, and unless it is about to be unlinked by a compaction that  *)
(* dropped a tombstone, the live tables have every key in it.              *)
(***************************************************************************)
LiveIds == {tables[i].id : i \in DOMAIN tables}

LiveDurable ==
    Up => \A i \in DOMAIN tables : /\ tables[i].id \in DOMAIN dirDurable
                                   /\ dirDurable[tables[i].id] = tables[i].recs

IdsKnown == Up => \A n \in DOMAIN dir \cup DOMAIN dirDurable : n <= nextId

Unfinished ==
    Up => \A d \in {dir, dirDurable} : nextId \in DOMAIN d =>
       /\ pc \notin {"reset", "resetSync"}
       /\ \A r \in d[nextId] : \/ Covered(wal, walDurable, r.key)
                               \/ r \in NewestPerKey(LiveTableRecords)

Stale(d) == {n \in DOMAIN d : n < nextId} \ LiveIds

StaleBelow == Up => \A d \in {dir, dirDurable} : \A n \in Stale(d), m \in LiveIds : n < m

Hidden(recs) == KeysOf(recs) \subseteq KeysOf(LiveTableRecords)

StaleHidden ==
    Up => /\ \A n \in Stale(dir) : Hidden(dir[n]) \/ (lossy /\ \E i \in DOMAIN old : old[i] = n)
          /\ ~lossy => \A n \in Stale(dirDurable) : Hidden(dirDurable[n])

UnlinkState ==
    /\ lossy => pc \in {"unlink", "unlinkDir"}
    /\ pc = "unlinkDir" => old = <<>>

MergeHides == pc = "mergeDir" => KeysOf(Dropped) \cap KeysOf(LeftoverRecords) = {}

(***************************************************************************)
(* The call in progress, and a store that is closed.                       *)
(***************************************************************************)
CallContents ==
    /\ pc = "flushDir" => dir[nextId] = mem
    /\ pc = "mergeDir" => dir[nextId] = Merge(LiveTableRecords)
    /\ pc = "sync" => /\ Pending.val \in doubt[Pending.key]
                      /\ \A r \in mem \cup FileRecords : r.seq < Pending.seq

FilesAllowed(d, k) ==
    /\ \A r \in NewestPerKey(RecordsOf(d)) : r.key = k => r.val \in Allowed(k)
    /\ k \notin KeysOf(RecordsOf(d)) => Gone \in Allowed(k)

Closed ==
    ~Up => /\ dir = dirDurable /\ wal = walDurable
           /\ \A k \in Keys : k \notin KeysOf(Replay(wal)) => FilesAllowed(dir, k)

LogPart == LogsInOrder /\ NumbersBelow /\ LogAbove /\ LogAllowed /\ MemCovered
FilePart == FilesInOrder /\ FileMaps /\ MemAbove
DirPart ==
    /\ LiveDurable /\ IdsKnown /\ Unfinished /\ StaleBelow /\ StaleHidden
    /\ UnlinkState /\ MergeHides

Durable ==
    /\ IInv /\ LogPart /\ FilePart /\ DirPart
    /\ CallContents /\ Closed /\ AcknowledgedSurvive

LEMMA LogTypes ==
    ASSUME IInv
    PROVE  wal \in Seq(Frame) /\ walDurable \in Seq(Frame)
BY DEF IInv, TypeOK, DiskTypeOK

LEMMA PrimedLogs ==
    /\ Surfacing = SurfacingOf(wal, walDurable)
    /\ Surfacing' = SurfacingOf(wal', walDurable')
BY DEF Surfacing

(***************************************************************************)
(* The steps of the logs: nothing comes back that would not have come back *)
(* before, but the record just written.                                    *)
(***************************************************************************)
LEMMA LogSteps ==
    ASSUME IInv, LogsInOrder, NumbersBelow, Exposed = {}, [Next]_vars
    PROVE  /\ LogsInOrder'
           /\ \A q \in Surfacing' :
                 \/ q \in Surfacing
                 \/ \E k \in Keys, x \in Values \cup {Gone} :
                       Write(k, x) /\ q = [seq |-> seq, key |-> k, val |-> x]
           /\ \/ pc \in {"reset", "resetSync"} \/ pc' = "down"
              \/ \A k : Covered(wal, walDurable, k) => Covered(wal', walDurable', k)
           /\ pc' = "down" /\ pc # "down" =>
                 \A k : Covered(wal, walDurable, k) => k \in KeysOf(Replay(wal'))
<1> DEFINE Grown(q) == \E k \in Keys, x \in Values \cup {Gone} :
                          Write(k, x) /\ q = [seq |-> seq, key |-> k, val |-> x]
           Goal == /\ LogsInOrder'
                   /\ \A q \in Surfacing' : q \in Surfacing \/ Grown(q)
                   /\ \/ pc \in {"reset", "resetSync"} \/ pc' = "down"
                      \/ \A k : Covered(wal, walDurable, k) => Covered(wal', walDurable', k)
                   /\ pc' = "down" /\ pc # "down" =>
                         \A k : Covered(wal, walDurable, k) => k \in KeysOf(Replay(wal'))
<1> SUFFICES Goal
  OBVIOUS
<1> HIDE DEF Grown, Goal
<1>t. wal \in Seq(Frame) /\ walDurable \in Seq(Frame)
  BY LogTypes
<1>o. LogInOrder(wal) /\ LogInOrder(walDurable)
  BY DEF LogsInOrder
<1>d. /\ Replay(wal) \subseteq SurfacingOf(wal, walDurable)
      /\ \A k : Covered(wal, walDurable, k) => k \in KeysOf(Replay(wal))
  BY <1>t, <1>o, LogStands
<1>1. ASSUME NEW k \in Keys, NEW x \in Values \cup {Gone}, Write(k, x)
      PROVE  Goal
  <2> DEFINE r == [seq |-> seq, key |-> k, val |-> x]
  <2>1. /\ pc = "idle" /\ pc' = "sync" /\ wal' = Append(wal, r) /\ walDurable' = walDurable
        /\ \A i \in DOMAIN wal : wal[i] # Torn
    BY <1>1 DEF Write, MayWrite, LogDamaged
  <2>2. r \in Record /\ r \in Frame
    BY DEF IInv, TypeOK, ProcessTypeOK, Record, Frame
  <2>3. \A i \in Intact(wal) : wal[i].seq < r.seq
    BY <2>1 DEF NumbersBelow, Up
  <2>4. Grown(r)
    BY <1>1 DEF Grown
  <2> HIDE DEF r
  <2>5. /\ LogInOrder(wal')
        /\ \A q \in SurfacingOf(wal', walDurable') : q \in SurfacingOf(wal, walDurable) \/ q = r
        /\ \A j : Covered(wal, walDurable, j) => Covered(wal', walDurable', j)
    BY <1>t, <1>o, <2>1, <2>2, <2>3, LogGrows
  <2>6. LogsInOrder'
    BY <1>o, <2>1, <2>5 DEF LogsInOrder
  <2>7. \A q \in Surfacing' : q \in Surfacing \/ Grown(q)
    BY <2>1, <2>4, <2>5, PrimedLogs
  <2>8. pc' # "down" /\ \A j : Covered(wal, walDurable, j) => Covered(wal', walDurable', j)
    BY <2>1, <2>5
  <2> QED BY <2>6, <2>7, <2>8 DEF Goal
<1>2. ASSUME wal' = wal, walDurable' = walDurable, pc' # "down" \/ pc = "down"
      PROVE  Goal
  <2>1. LogsInOrder'
    BY <1>2, <1>o DEF LogsInOrder
  <2>2. \A q \in Surfacing' : q \in Surfacing \/ Grown(q)
    BY <1>2, PrimedLogs
  <2> QED BY <1>2, <2>1, <2>2 DEF Goal
<1>3. CASE AppendFails
  <2>1. /\ pc = "idle" /\ pc' = "idle" /\ walDurable' = walDurable
        /\ wal' = wal \/ wal' = Append(wal, Torn)
        /\ \A i \in DOMAIN wal : wal[i] # Torn
    BY <1>3 DEF AppendFails, MayWrite, LogDamaged
  <2>2. CASE wal' = Append(wal, Torn)
    <3>1. Torn \in Frame
      BY DEF Frame
    <3>2. /\ LogInOrder(wal')
          /\ \A q \in SurfacingOf(wal', walDurable') : q \in SurfacingOf(wal, walDurable)
          /\ \A j : Covered(wal, walDurable, j) => Covered(wal', walDurable', j)
      BY <1>t, <1>o, <2>1, <2>2, <3>1, LogGrows
    <3> QED BY <1>o, <2>1, <3>2, PrimedLogs DEF Goal, LogsInOrder
  <2> QED BY <1>2, <2>1, <2>2
<1>4. CASE SyncInsert \/ ResetSync
  <2>1. walDurable' = wal /\ wal' = wal /\ pc # "down" /\ pc' # "down"
    BY <1>4 DEF SyncInsert, ResetSync
  <2>2. /\ SurfacingOf(wal', walDurable') = Replay(wal)
        /\ \A k : Covered(wal', walDurable', k) <=> k \in KeysOf(Replay(wal))
    BY <1>t, <2>1, LogSynced
  <2> QED BY <1>o, <1>d, <2>1, <2>2, PrimedLogs DEF Goal, LogsInOrder
<1>5. CASE ResetTruncate
  <2>1. wal' = <<>> /\ walDurable' = walDurable /\ pc = "reset" /\ pc' = "resetSync"
    BY <1>5 DEF ResetTruncate
  <2>2. SurfacingOf(wal', walDurable') = Replay(walDurable)
    BY <2>1, LogEmpty
  <2> QED BY <1>o, <2>1, <2>2, LogEmpty, PrimedLogs DEF Goal, LogsInOrder, SurfacingOf
<1>6. CASE Kill \/ PowerLoss
  <2>1. /\ pc' = "down" /\ walDurable' = wal'
        /\ wal' = wal \/ wal' \in WalAfterPowerLoss
    BY <1>6 DEF Kill, PowerLoss, ProcessDies
  <2>2. /\ wal' \in Seq(Frame) /\ LogInOrder(wal')
        /\ Replay(wal') \subseteq SurfacingOf(wal, walDurable)
        /\ \A k : Covered(wal, walDurable, k) => k \in KeysOf(Replay(wal'))
    <3>1. CASE wal' = wal
      BY <1>t, <1>o, <1>d, <3>1
    <3>2. CASE wal' \in WalAfterPowerLoss
      <4>1. \/ wal' = walDurable
            \/ \E n \in SyncedTo(wal, walDurable) .. Len(wal) :
                  \/ wal' = SubSeq(wal, 1, n)
                  \/ n # Len(wal) /\ wal' = Append(SubSeq(wal, 1, n), Torn)
        BY <3>2 DEF WalAfterPowerLoss, SyncedTo, Extends
      <4>2. \A n \in SyncedTo(wal, walDurable) .. Len(wal) : n # Len(wal) => n < Len(wal)
        BY <1>t, SyncedPart
      <4> QED BY <1>t, <1>o, <4>1, <4>2, LogLeft
    <3> QED BY <2>1, <3>1, <3>2
  <2>3. SurfacingOf(wal', walDurable') = Replay(wal')
    BY <2>1, <2>2, LogSynced
  <2> QED BY <2>1, <2>2, <2>3, PrimedLogs DEF Goal, LogsInOrder
<1>7. CASE Open \/ FlushWrite \/ FlushInstall \/ CompactWrite \/ CompactSwap
  <2>1. wal' = wal /\ walDurable' = walDurable /\ pc' # "down"
    BY <1>7 DEF Open, FlushWrite, FlushInstall, CompactWrite, CompactSwap, disk
  <2> QED BY <1>2, <2>1
<1>8. CASE UnlinkOne \/ UnlinkSync \/ IoError \/ UNCHANGED vars
  <2>1. wal' = wal /\ walDurable' = walDurable /\ (pc' # "down" \/ pc = "down")
    BY <1>8 DEF UnlinkOne, UnlinkSync, IoError, vars, disk, process
  <2> QED BY <1>2, <2>1
<1> QED
  BY <1>1, <1>3, <1>4, <1>5, <1>6, <1>7, <1>8 DEF Next

(***************************************************************************)
(* The steps of the files and the memtable: a file is as it was, or it is  *)
(* the one that a flush or a compaction writes under the next id.          *)
(***************************************************************************)
FlushWrites(f) == FlushWrite /\ f = mem
CompactWrites(f) == CompactWrite /\ f = Merge(LiveTableRecords)

LEMMA FileSteps ==
    ASSUME IInv, [Next]_vars, NEW d \in {dir', dirDurable'}, NEW i \in DOMAIN d
    PROVE  \/ i \in DOMAIN dir /\ d[i] = dir[i]
           \/ i \in DOMAIN dirDurable /\ d[i] = dirDurable[i]
           \/ i = nextId /\ (FlushWrites(d[i]) \/ CompactWrites(d[i]))
<1> DEFINE Was(e, j) == \/ j \in DOMAIN dir /\ e[j] = dir[j]
                        \/ j \in DOMAIN dirDurable /\ e[j] = dirDurable[j]
           New(e, j) == j = nextId /\ (FlushWrites(e[j]) \/ CompactWrites(e[j]))
           Each == \A e \in {dir', dirDurable'} : \A j \in DOMAIN e : Was(e, j) \/ New(e, j)
<1> SUFFICES Each
  OBVIOUS
<1>1. CASE FlushWrite \/ CompactWrite
  <2>1. dirDurable' = dirDurable
    BY <1>1 DEF FlushWrite, CompactWrite
  <2>2. \A j \in DOMAIN dir' : Was(dir', j) \/ New(dir', j)
    BY <1>1 DEF FlushWrite, CompactWrite, FlushWrites, CompactWrites, With
  <2> QED BY <2>1, <2>2
<1>2. CASE UnlinkOne
  BY <1>2 DEF UnlinkOne, Without
<1>3. CASE PowerLoss
  <2>1. dirDurable' = dir' /\ dir' \in DirsAfterPowerLoss
    BY <1>3 DEF PowerLoss
  <2>2. \A j \in DOMAIN dir' : Was(dir', j)
    BY <2>1 DEF DirsAfterPowerLoss
  <2> QED BY <2>1, <2>2
<1>4. CASE Kill \/ IoError \/ FlushInstall \/ CompactSwap \/ UnlinkSync
  <2>1. dir' = dir /\ dirDurable' \in {dir, dirDurable}
    BY <1>4 DEF Kill, IoError, FlushInstall, CompactSwap, UnlinkSync
  <2> QED BY <2>1
<1>5. CASE \/ Open \/ AppendFails \/ SyncInsert \/ ResetTruncate \/ ResetSync
           \/ UNCHANGED vars \/ \E k \in Keys, x \in Values \cup {Gone} : Write(k, x)
  <2>1. dir' = dir /\ dirDurable' = dirDurable
    BY <1>5 DEF Open, AppendFails, SyncInsert, ResetTruncate, ResetSync, Write, vars, disk
  <2> QED BY <2>1
<1> HIDE DEF Each
<1> QED BY <1>1, <1>2, <1>3, <1>4, <1>5 DEF Next

\* What a compaction writes are newest versions of the live tables' records, which
\* are in the files already.
LEMMA LiveRecords ==
    ASSUME IInv
    PROVE  /\ LiveTableRecords = RecordsIn(tables)
           /\ LiveTableRecords \subseteq RecordsOf(dir)
           /\ Merge(LiveTableRecords) \subseteq NewestPerKey(LiveTableRecords)
           /\ NewestPerKey(LiveTableRecords) \subseteq LiveTableRecords
<1>1. LiveTableRecords \subseteq RecordsOf(dir)
  BY DEF IInv, LiveTablesOnDisk, LiveTableRecords, RecordsOf
<1> QED BY <1>1 DEF LiveTableRecords, RecordsIn, Merge, NewestPerKey

Held == mem \cup FileRecords

LEMMA FileRecordSteps ==
    ASSUME IInv, [Next]_vars, NEW r \in FileRecords'
    PROVE  r \in FileRecords \/ (FlushWrite /\ r \in mem)
<1>0. PICK d \in {dir', dirDurable'} : \E i \in DOMAIN d : r \in d[i]
  BY DEF FileRecords, RecordsOf
<1>1. PICK i \in DOMAIN d : r \in d[i]
  BY <1>0
<1>2. CASE (i \in DOMAIN dir /\ d[i] = dir[i]) \/ (i \in DOMAIN dirDurable /\ d[i] = dirDurable[i])
  BY <1>1, <1>2 DEF FileRecords, RecordsOf
<1>3. CASE FlushWrites(d[i])
  BY <1>1, <1>3 DEF FlushWrites
<1>4. CASE CompactWrites(d[i])
  BY <1>1, <1>4, LiveRecords DEF CompactWrites, FileRecords
<1> QED BY <1>1, <1>2, <1>3, <1>4, FileSteps

\* The memtable only loses entries, but for the one inserted or what replay finds.
LEMMA MemSteps ==
    ASSUME [Next]_vars
    PROVE  \/ mem' \subseteq mem
           \/ SyncInsert /\ mem' = MemInsert(mem, Pending)
           \/ Open /\ mem' = Replay(wal)
<1>1. CASE \/ AppendFails \/ ResetTruncate \/ ResetSync \/ UNCHANGED vars
           \/ \E k \in Keys, x \in Values \cup {Gone} : Write(k, x)
  BY <1>1 DEF AppendFails, ResetTruncate, ResetSync, Write, vars, process
<1>2. CASE FlushWrite \/ FlushInstall \/ CompactWrite \/ CompactSwap
  BY <1>2 DEF FlushWrite, FlushInstall, MemAfterFlush, CompactWrite, CompactSwap
<1>3. CASE UnlinkOne \/ UnlinkSync \/ IoError \/ Kill \/ PowerLoss
  BY <1>3 DEF UnlinkOne, UnlinkSync, IoError, Kill, PowerLoss, ProcessDies
<1>4. CASE SyncInsert
  BY <1>4 DEF SyncInsert
<1>5. CASE Open
  BY <1>5 DEF Open
<1> QED BY <1>1, <1>2, <1>3, <1>4, <1>5 DEF Next

\* The write being made durable is the log's last record.
LEMMA PendingSurfaces ==
    ASSUME IInv, LogsInOrder, pc = "sync"
    PROVE  /\ Pending \in Record /\ Pending \in Replay(wal) /\ Pending \in Surfacing
           /\ Len(wal) \in Intact(wal) /\ wal[Len(wal)] = Pending
           /\ \A q \in Replay(wal) : q.key = Pending.key => q = Pending
<1>1. wal \in Seq(Frame) /\ walDurable \in Seq(Frame) /\ wal # <<>> /\ wal[Len(wal)] \in Record
      /\ LogInOrder(wal) /\ LogInOrder(walDurable)
  BY LogTypes DEF IInv, CallState, Pending, LogsInOrder
<1>2. Replay(wal) \subseteq Surfacing
  BY <1>1, LogStands DEF Surfacing
<1> QED BY <1>1, <1>2, LogLast DEF Pending

\* In a closed store all of the log is durable.
LEMMA ClosedLog ==
    ASSUME IInv, LogsInOrder, Closed, pc = "down"
    PROVE  /\ Surfacing = Replay(wal) /\ dirDurable = dir /\ walDurable = wal
           /\ FileRecords = RecordsOf(dir)
           /\ \A k : Covered(wal, walDurable, k) <=> k \in KeysOf(Replay(wal))
<1>1. walDurable = wal /\ dirDurable = dir /\ wal \in Seq(Frame)
  BY LogTypes DEF Closed, Up
<1> QED BY <1>1, LogSynced DEF Surfacing, FileRecords

\* A new record in memory or in the files is one that surfaces.
LEMMA HeldSteps ==
    ASSUME IInv, LogsInOrder, Closed, [Next]_vars, NEW r \in Held'
    PROVE  \/ r \in Held
           \/ SyncInsert /\ r = Pending
           \/ Open /\ r \in Replay(wal)
<1>1. CASE r \in FileRecords'
  BY <1>1, FileRecordSteps DEF Held
<1>2. CASE r \in mem'
  BY <1>2, MemSteps DEF Held, MemInsert
<1> QED BY <1>1, <1>2 DEF Held

(***************************************************************************)
(* The steps of the log part of the invariant.                             *)
(***************************************************************************)

\* Replay leaves of a key a record as new as any in the intact part.
LEMMA ReplayNewest ==
    ASSUME NEW w \in Seq(Frame), LogInOrder(w), NEW i \in Intact(w)
    PROVE  \E r \in Replay(w) : w[i].seq <= r.seq
<1>1. PICK r \in Replay(w) : r.key = w[i].key
  BY ReplayFinds DEF KeysOf
<1>2. PICK n \in Intact(w) : w[n] = r /\ \A m \in Intact(w) : m > n => w[m].key # r.key
  BY ReplayIsLast
<1>3. i \in Nat /\ n \in Nat /\ w[i].seq \in Nat /\ w[n].seq \in Nat
  BY IntactPositions DEF Record
<1>4. i < n \/ i = n
  BY <1>1, <1>2, <1>3
<1>5. w[i].seq <= w[n].seq
  BY <1>3, <1>4 DEF LogInOrder
<1> QED BY <1>2, <1>5

LEMMA NumbersStep ==
    ASSUME IInv, LogsInOrder, NumbersBelow, Closed, Exposed = {}, [Next]_vars
    PROVE  NumbersBelow'
<1> DEFINE Logged == \A i \in Intact(wal) : wal[i].seq < seq
           Below == \A r \in Held : r.seq < seq
<1> SUFFICES ASSUME Up' PROVE Logged' /\ Below'
  BY DEF NumbersBelow, Held
<1>u. Up => Logged /\ Below
  BY DEF NumbersBelow, Held
<1>t. /\ wal \in Seq(Frame) /\ seq \in Nat /\ LogInOrder(wal)
      /\ \A r \in Held : r.seq \in Nat
      /\ \A i \in Intact(wal) : wal[i].seq \in Nat
  <2>1. wal \in Seq(Frame) /\ seq \in Nat /\ LogInOrder(wal)
    BY LogTypes DEF IInv, TypeOK, ProcessTypeOK, LogsInOrder
  <2>2. Held \subseteq Record
    BY DEF IInv, TypeOK, ProcessTypeOK, DiskTypeOK, Files, Held, FileRecords, RecordsOf
  <2> QED BY <2>1, <2>2, IntactPositions DEF Record
<1> HIDE DEF Below, Logged
<1>h. ASSUME Below, seq' \in Nat, seq <= seq', ~SyncInsert, ~Open PROVE Below'
  <2> SUFFICES ASSUME NEW r \in Held' PROVE r.seq < seq'
    BY DEF Below
  <2>1. r \in Held
    BY <1>h, HeldSteps
  <2> QED BY <1>h, <1>t, <2>1 DEF Below
<1>1. ASSUME NEW k \in Keys, NEW x \in Values \cup {Gone}, Write(k, x)
      PROVE  Logged' /\ Below'
  <2> DEFINE r == [seq |-> seq, key |-> k, val |-> x]
  <2>1. /\ pc = "idle" /\ wal' = Append(wal, r) /\ seq' = seq + 1
        /\ \A i \in DOMAIN wal : wal[i] # Torn
    BY <1>1 DEF Write, MayWrite, LogDamaged
  <2>2. r \in Record /\ r \in Frame /\ r.seq = seq
    BY <1>t DEF Record, Frame
  <2> HIDE DEF r
  <2>3. Logged /\ Below
    BY <1>u, <2>1 DEF Up
  <2>4. \A i \in Intact(wal') : (i \in Intact(wal) /\ wal'[i] = wal[i]) \/ wal'[i] = r
    BY <1>t, <2>1, <2>2, <2>3, LogGrows DEF Logged
  <2>5. ASSUME NEW i \in Intact(wal') PROVE wal'[i].seq < seq + 1
    <3>1. CASE i \in Intact(wal) /\ wal'[i] = wal[i]
      BY <1>t, <2>3, <3>1 DEF Logged
    <3> QED BY <1>t, <2>2, <2>4, <3>1
  <2>l. Logged'
    BY <2>1, <2>5 DEF Logged
  <2>6. ~SyncInsert /\ ~Open
    BY <2>1 DEF SyncInsert, Open
  <2> QED BY <1>h, <1>t, <2>1, <2>3, <2>l, <2>6
<1>2. CASE AppendFails
  <2>1. /\ wal' = wal \/ wal' = Append(wal, Torn)
        /\ seq' = seq + 1 /\ \A i \in DOMAIN wal : wal[i] # Torn
    BY <1>2 DEF AppendFails, MayWrite, LogDamaged
  <2>p. pc = "idle"
    BY <1>2 DEF AppendFails, MayWrite
  <2>3. Logged /\ Below
    BY <1>u, <2>p DEF Up
  <2>4. \A i \in Intact(wal') : i \in Intact(wal) /\ wal'[i] = wal[i]
    <3>1. Torn \in Frame
      BY DEF Frame
    <3>2. CASE wal' = Append(wal, Torn)
      BY <1>t, <2>1, <3>1, <3>2, LogGrows
    <3> QED BY <2>1, <3>2
  <2>5. Logged'
    BY <1>t, <2>1, <2>3, <2>4 DEF Logged
  <2>6. ~SyncInsert /\ ~Open
    BY <2>p DEF SyncInsert, Open
  <2> QED BY <1>h, <1>t, <2>1, <2>3, <2>5, <2>6
<1>3. CASE SyncInsert
  <2>1. pc = "sync" /\ wal' = wal /\ seq' = seq
    BY <1>3 DEF SyncInsert
  <2>2. Logged /\ Below
    BY <1>u, <2>1 DEF Up
  <2>3. Pending.seq < seq
    BY <2>1, <2>2, PendingSurfaces DEF Logged
  <2>4. \A r \in Held' : r \in Held \/ r = Pending
    BY <1>3, <2>1, HeldSteps DEF Open
  <2> QED BY <2>1, <2>2, <2>3, <2>4 DEF Below, Logged
<1>4. CASE Open
  <2>1. /\ pc = "down" /\ wal' = wal /\ dir' = dir /\ dirDurable' = dirDurable
        /\ mem' = Replay(wal)
    BY <1>4 DEF Open, disk
  <2>2. PICK top \in {0} \cup SeqsOnDisk : (\A n \in SeqsOnDisk : n <= top) /\ seq' = top + 1
    BY <1>4 DEF Open
  <2>3. Held' = Replay(wal) \cup RecordsOf(dir)
    BY <2>1, ClosedLog DEF Held, FileRecords
  <2>4. Replay(wal) \subseteq Record /\ RecordsOf(dir) \subseteq Record
    BY <1>t, ReplayIsMemtable DEF IInv, TypeOK, DiskTypeOK, Files, RecordsOf
  <2>5. \A r \in Replay(wal) \cup RecordsOf(dir) : r.seq \in SeqsOnDisk /\ r.seq \in Nat
    BY <2>4 DEF SeqsOnDisk, RecordsOf, Record
  <2>6. top \in Nat
    BY <2>4 DEF SeqsOnDisk, RecordsOf, Record
  <2>7. \A r \in Replay(wal) \cup RecordsOf(dir) : r.seq < seq'
    BY <2>2, <2>5, <2>6
  <2>8. Logged'
    <3> SUFFICES ASSUME NEW i \in Intact(wal) PROVE wal[i].seq < seq'
      BY <2>1 DEF Logged
    <3>1. PICK r \in Replay(wal) : wal[i].seq <= r.seq
      BY <1>t, ReplayNewest
    <3> QED BY <1>t, <2>2, <2>5, <2>6, <2>7, <3>1
  <2> QED BY <2>3, <2>7, <2>8 DEF Below
<1>5. CASE Kill \/ PowerLoss
  BY <1>5 DEF Kill, PowerLoss, ProcessDies, Up
<1>6. ASSUME seq' = seq, wal' = wal \/ wal' = <<>>, pc # "down", ~SyncInsert, ~Open
      PROVE  Logged' /\ Below'
  <2>1. Logged /\ Below
    BY <1>6, <1>u DEF Up
  <2>2. Intact(<<>>) = {}
    BY DEF Intact
  <2>3. Logged'
    BY <1>6, <2>1, <2>2 DEF Logged
  <2> QED BY <1>6, <1>h, <1>t, <2>1, <2>3
<1>7. CASE FlushWrite \/ FlushInstall \/ ResetTruncate \/ ResetSync \/ CompactWrite \/ CompactSwap
  <2>1. /\ seq' = seq /\ (wal' = wal \/ wal' = <<>>)
        /\ pc # "down" /\ pc # "sync"
    BY <1>7 DEF FlushWrite, FlushInstall, ResetTruncate, ResetSync, CompactWrite, CompactSwap
  <2>2. seq' = seq
    BY <1>7 DEF FlushWrite, FlushInstall, ResetTruncate, ResetSync, CompactWrite, CompactSwap
  <2> QED BY <1>6, <2>1, <2>2 DEF SyncInsert, Open
<1>8. CASE UnlinkOne \/ UnlinkSync
  <2>1. seq' = seq /\ wal' = wal /\ pc # "down" /\ pc # "sync"
    BY <1>8 DEF UnlinkOne, UnlinkSync
  <2> QED BY <1>6, <2>1 DEF SyncInsert, Open
<1>9. CASE IoError \/ UNCHANGED vars
  <2>1. seq' = seq /\ wal' = wal /\ pc # "down"
    BY <1>9 DEF IoError, vars, process, disk, Up
  <2> QED BY <1>3, <1>4, <1>6, <2>1
<1> QED BY <1>1, <1>2, <1>3, <1>4, <1>5, <1>7, <1>8, <1>9 DEF Next

LEMMA SurfacingTypes ==
    ASSUME IInv
    PROVE  Surfacing \subseteq Record
<1>1. wal \in Seq(Frame) /\ walDurable \in Seq(Frame)
  BY LogTypes
<1>2. Replay(walDurable) \subseteq Record /\ \A i \in Intact(wal) : wal[i] \in Record
  BY <1>1, ReplayIsMemtable, IntactPositions
<1> QED BY <1>2 DEF Surfacing, SurfacingOf

\* What comes back from the log is above everything held.
LEMMA LogAboveStep ==
    ASSUME IInv, LogsInOrder, NumbersBelow, LogAbove, Closed, Exposed = {}, [Next]_vars
    PROVE  LogAbove'
<1> SUFFICES ASSUME NEW q \in Surfacing', NEW r \in Held' PROVE Above(q, r)
  BY DEF LogAbove, Held
<1>0. \A s \in Replay(wal) : s.seq \in Nat
  BY LogTypes, ReplayIsMemtable DEF Record
<1>1. CASE q \in Surfacing /\ r \in Held
  BY <1>1 DEF LogAbove, Held
<1>2. ASSUME NEW k \in Keys, NEW x \in Values \cup {Gone}, Write(k, x),
             q = [seq |-> seq, key |-> k, val |-> x]
      PROVE  Above(q, r)
  <2>1. pc = "idle" /\ ~SyncInsert /\ ~Open
    BY <1>2 DEF Write, MayWrite, SyncInsert, Open
  <2>2. r \in Held
    BY <2>1, HeldSteps
  <2>3. r.seq < seq
    BY <2>1, <2>2 DEF NumbersBelow, Held, Up
  <2>4. r.seq \in Nat /\ seq \in Nat
    BY <2>2 DEF IInv, TypeOK, ProcessTypeOK, DiskTypeOK, Files, Held, FileRecords, RecordsOf, Record
  <2> QED BY <1>2, <2>3, <2>4 DEF Above
<1>3. CASE SyncInsert /\ r = Pending
  <2>1. pc = "sync" /\ wal' = wal /\ walDurable' = wal
    BY <1>3 DEF SyncInsert
  <2>2. q \in Replay(wal)
    BY <2>1, LogTypes, LogSynced, PrimedLogs
  <2>3. q.key = r.key => q = r
    BY <1>3, <2>1, <2>2, PendingSurfaces
  <2> QED BY <1>0, <2>2, <2>3 DEF Above
<1>4. CASE Open /\ r \in Replay(wal)
  <2>1. pc = "down" /\ wal' = wal /\ walDurable' = walDurable
    BY <1>4 DEF Open, disk
  <2>2. q \in Replay(wal)
    BY <2>1, ClosedLog, PrimedLogs
  <2>3. q.key = r.key => q = r
    BY <1>4, <2>2, LogTypes, ReplayIsMemtable DEF OnePerKey
  <2> QED BY <1>0, <2>2, <2>3 DEF Above
<1>5. \/ q \in Surfacing
      \/ \E k \in Keys, x \in Values \cup {Gone} :
            Write(k, x) /\ q = [seq |-> seq, key |-> k, val |-> x]
  BY LogSteps
<1> QED BY <1>1, <1>2, <1>3, <1>4, <1>5, HeldSteps

\* It is what a reader may find: an unfinished write, or the last of its key that
\* took effect.
LEMMA LogAllowedStep ==
    ASSUME IInv, LogsInOrder, NumbersBelow, LogAllowed, Exposed = {}, [Next]_vars
    PROVE  LogAllowed'
<1> SUFFICES ASSUME NEW q \in Surfacing' PROVE q.val \in Allowed(q.key)'
  BY DEF LogAllowed, Allowed
<1>0. doubt \in [Keys -> SUBSET (Values \cup {Gone})] /\ settled \in [Keys -> Values \cup {Gone}]
  BY DEF IInv, TypeOK, HistoryTypeOK
<1>1. ASSUME NEW k \in Keys, NEW x \in Values \cup {Gone}, Write(k, x)
      PROVE  q.val \in Allowed(q.key)'
  <2>1. doubt' = [doubt EXCEPT ![k] = @ \cup {x}] /\ settled' = settled
        /\ wal' = Append(wal, [seq |-> seq, key |-> k, val |-> x]) /\ seq \in Nat
    BY <1>1 DEF Write, IInv, TypeOK, ProcessTypeOK
  <2>2. \A j \in Keys : doubt[j] \subseteq doubt'[j]
    BY <1>0, <2>1
  <2>3. q \in Surfacing \/ q = [seq |-> seq, key |-> k, val |-> x]
    <3>1. ASSUME NEW j \in Keys, NEW y \in Values \cup {Gone}, Write(j, y)
          PROVE  [seq |-> seq, key |-> j, val |-> y] = [seq |-> seq, key |-> k, val |-> x]
      <4> DEFINE f == [seq |-> seq, key |-> j, val |-> y]
                 g == [seq |-> seq, key |-> k, val |-> x]
      <4>1. f \in Frame /\ g \in Frame
        BY <2>1 DEF Frame, Record
      <4>2. wal \in Seq(Frame) /\ Append(wal, f) = Append(wal, g)
        BY <2>1, <3>1, LogTypes DEF Write
      <4> HIDE DEF f, g
      <4>3. Append(wal, f)[Len(wal) + 1] = f /\ Append(wal, g)[Len(wal) + 1] = g
        BY <4>1, <4>2
      <4>4. f = g
        BY <4>2, <4>3
      <4> QED BY <4>4 DEF f, g
    <3> QED BY <3>1, LogSteps
  <2>4. CASE q \in Surfacing
    <3>1. q.val \in Allowed(q.key) /\ q.key \in Keys
      BY <2>4, SurfacingTypes DEF LogAllowed, Record
    <3> QED BY <2>1, <2>2, <3>1 DEF Allowed
  <2>5. CASE q = [seq |-> seq, key |-> k, val |-> x]
    <3>1. x \in doubt'[k]
      BY <1>0, <2>1
    <3> QED BY <2>5, <3>1 DEF Allowed
  <2> QED BY <2>3, <2>4, <2>5
<1>2. CASE SyncInsert
  <2>1. /\ pc = "sync" /\ wal' = wal /\ walDurable' = wal
        /\ settled' = [settled EXCEPT ![Pending.key] = Pending.val]
        /\ doubt' = [doubt EXCEPT ![Pending.key] = {}]
    BY <1>2 DEF SyncInsert
  <2>2. q \in Replay(wal)
    BY <2>1, LogTypes, LogSynced, PrimedLogs
  <2>3. q \in Surfacing
    BY <2>2, LogTypes, LogStands DEF Surfacing, LogsInOrder
  <2>4. q.val \in Allowed(q.key) /\ q.key \in Keys /\ Pending.key \in Keys
    BY <2>1, <2>3, SurfacingTypes, PendingSurfaces DEF LogAllowed, Record
  <2>5. CASE q.key = Pending.key
    <3>1. q = Pending
      BY <2>1, <2>2, <2>5, PendingSurfaces
    <3> QED BY <1>0, <2>1, <2>4, <3>1 DEF Allowed
  <2>6. CASE q.key # Pending.key
    BY <1>0, <2>1, <2>4, <2>6 DEF Allowed
  <2> QED BY <2>5, <2>6
<1>3. ASSUME settled' = settled, doubt' = doubt,
             ~\E k \in Keys, x \in Values \cup {Gone} : Write(k, x)
      PROVE  q.val \in Allowed(q.key)'
  <2>1. q \in Surfacing
    BY <1>3, LogSteps
  <2> QED BY <1>3, <2>1 DEF LogAllowed, Allowed
<1>4. CASE AppendFails \/ Open \/ IoError \/ Kill \/ PowerLoss \/ UNCHANGED vars
  <2>1. settled' = settled /\ doubt' = doubt
    BY <1>4 DEF AppendFails, Open, IoError, Kill, PowerLoss, ProcessDies, history, vars
  <2> QED BY <1>1, <1>3, <2>1
<1>5. CASE FlushWrite \/ FlushInstall \/ ResetTruncate \/ ResetSync
           \/ CompactWrite \/ CompactSwap \/ UnlinkOne \/ UnlinkSync
  <2>1. settled' = settled /\ doubt' = doubt
    BY <1>5 DEF FlushWrite, FlushInstall, ResetTruncate, ResetSync, CompactWrite, CompactSwap,
                UnlinkOne, UnlinkSync, history
  <2> QED BY <1>1, <1>3, <2>1
<1> QED BY <1>1, <1>2, <1>4, <1>5 DEF Next

\* The memtable's entries come back from the log, whatever a power loss leaves of it.
LEMMA MemCoveredStep ==
    ASSUME IInv, LogsInOrder, NumbersBelow, MemCovered, Closed, Exposed = {}, [Next]_vars
    PROVE  MemCovered'
<1> SUFFICES ASSUME NEW r \in mem' PROVE Covered(wal', walDurable', r.key)
  BY DEF MemCovered
<1>1. CASE SyncInsert
  <2>1. /\ pc = "sync" /\ wal' = wal /\ walDurable' = wal /\ mem' = MemInsert(mem, Pending)
    BY <1>1 DEF SyncInsert
  <2>2. \A k : Covered(wal', walDurable', k) <=> k \in KeysOf(Replay(wal))
    BY <2>1, LogTypes, LogSynced
  <2>3. CASE r \in mem
    <3>1. Covered(wal, walDurable, r.key)
      BY <2>3 DEF MemCovered
    <3> QED BY <2>2, <3>1, LogTypes, LogStands DEF LogsInOrder
  <2>4. CASE r = Pending
    BY <2>1, <2>2, <2>4, PendingSurfaces DEF KeysOf
  <2> QED BY <2>1, <2>3, <2>4 DEF MemInsert
<1>2. CASE Open
  <2>1. pc = "down" /\ wal' = wal /\ walDurable' = walDurable /\ mem' = Replay(wal)
    BY <1>2 DEF Open, disk
  <2> QED BY <2>1, ClosedLog DEF KeysOf
<1>3. CASE mem' \subseteq mem
  <2>1. pc \notin {"reset", "resetSync"}
    BY <1>3 DEF IInv, CallState
  <2>2. pc' # "down"
    <3>1. pc' = "down" => mem' = {}
      BY CallStateStep DEF CallState
    <3> QED BY <3>1
  <2>3. \A k : Covered(wal, walDurable, k) => Covered(wal', walDurable', k)
    BY <2>1, <2>2, LogSteps
  <2> QED BY <1>3, <2>3 DEF MemCovered
<1> QED BY <1>1, <1>2, <1>3, MemSteps

(***************************************************************************)
(* The steps of the file part.                                             *)
(***************************************************************************)
LEMMA LiveInOrder == IInv /\ FilePart => InOrder(mem, tables)
<1> SUFFICES ASSUME IInv, FilePart PROVE InOrder(mem, tables)
  OBVIOUS
<1>1. mem \in SUBSET Record /\ OnePerKey(mem) /\ tables \in Seq(Table)
  BY DEF IInv, TypeOK, ProcessTypeOK
<1>2. /\ \A i \in DOMAIN tables : tables[i].id \in DOMAIN dir /\ dir[tables[i].id] = tables[i].recs
      /\ \A i, j \in DOMAIN tables : i < j => tables[i].id > tables[j].id
  BY DEF IInv, LiveTablesOnDisk
<1>3. \A i \in DOMAIN dir : OnePerKey(dir[i])
  BY DEF FilePart, FileMaps
<1>4. \A i, j \in DOMAIN dir : i < j => \A r \in dir[i], q \in dir[j] : Above(q, r)
  BY DEF FilePart, FilesInOrder
<1>5. \A q \in mem, r \in RecordsOf(dir) : Above(q, r)
  BY DEF FilePart, MemAbove, FileRecords
<1> QED BY ONLY <1>1, <1>2, <1>3, <1>4, <1>5, SourcesOrdered

\* The memtable stays above the files.
LEMMA MemAboveStep ==
    ASSUME IInv, LogPart, FilePart, CallContents, Closed, Exposed = {}, [Next]_vars
    PROVE  MemAbove'
<1> SUFFICES ASSUME NEW q \in mem', NEW r \in FileRecords' PROVE Above(q, r)
  BY DEF MemAbove
<1> USE DEF LogPart, FilePart
<1>0. \A s \in Held : s.seq \in Nat
  BY DEF IInv, TypeOK, ProcessTypeOK, DiskTypeOK, Files, Held, FileRecords, RecordsOf, Record
<1>1. CASE q \in mem /\ r \in FileRecords
  BY <1>1 DEF MemAbove
<1>2. CASE q \in mem /\ r \in mem
  BY <1>0, <1>2 DEF Above, IInv, TypeOK, ProcessTypeOK, OnePerKey, Held
<1>3. CASE SyncInsert /\ q = Pending
  <2>1. pc = "sync" /\ ~FlushWrite
    BY <1>3 DEF SyncInsert, FlushWrite
  <2>2. r \in FileRecords
    BY <2>1, FileRecordSteps
  <2>3. r.seq < q.seq /\ q.seq \in Nat
    BY <1>3, <2>1, <2>2, PendingSurfaces DEF CallContents, Record
  <2> QED BY <1>0, <2>2, <2>3 DEF Above, Held
<1>4. CASE Open /\ q \in Replay(wal)
  <2>1. pc = "down" /\ mem = {}
    BY <1>4 DEF Open, IInv, CallState
  <2>2. r \in FileRecords /\ q \in Surfacing
    BY <1>4, <2>1, FileRecordSteps, ClosedLog
  <2> QED BY <2>2 DEF LogAbove
<1>5. q \in mem \/ (SyncInsert /\ q = Pending) \/ (Open /\ q \in Replay(wal))
  BY MemSteps DEF MemInsert
<1> QED BY <1>1, <1>2, <1>3, <1>4, <1>5, FileRecordSteps

\* What a flush or a compaction writes is a map.
LEMMA FileMapsStep ==
    ASSUME IInv, FilePart, [Next]_vars
    PROVE  FileMaps'
<1> SUFFICES ASSUME NEW d \in {dir', dirDurable'}, NEW i \in DOMAIN d PROVE OnePerKey(d[i])
  BY DEF FileMaps
<1>1. CASE (i \in DOMAIN dir /\ d[i] = dir[i]) \/ (i \in DOMAIN dirDurable /\ d[i] = dirDurable[i])
  BY <1>1 DEF FilePart, FileMaps
<1>2. CASE FlushWrites(d[i])
  BY <1>2 DEF FlushWrites, IInv, TypeOK, ProcessTypeOK
<1>3. CASE CompactWrites(d[i])
  <2>1. OnePerKey(NewestPerKey(LiveTableRecords))
    BY LiveInOrder, NewestIsMap, LiveRecords
  <2> QED BY <1>3, <2>1, LiveRecords DEF CompactWrites, OnePerKey
<1> QED BY <1>1, <1>2, <1>3, FileSteps

\* It is newer than every file with a lower id, and no file has a higher one.
LEMMA FilesInOrderStep ==
    ASSUME IInv, FilePart, DirPart, [Next]_vars
    PROVE  FilesInOrder'
<1> SUFFICES ASSUME NEW d \in {dir', dirDurable'}, NEW e \in {dir', dirDurable'},
                    NEW i \in DOMAIN d, NEW j \in DOMAIN e, i < j,
                    NEW r \in d[i], NEW q \in e[j]
             PROVE  Above(q, r)
  BY DEF FilesInOrder
<1> DEFINE Was(f, n) == \/ n \in DOMAIN dir /\ f = dir[n]
                        \/ n \in DOMAIN dirDurable /\ f = dirDurable[n]
<1>0. /\ nextId \in Nat
      /\ \A f, n : Was(f, n) => n \in Nat /\ f \subseteq FileRecords
      /\ \A s \in FileRecords : s.seq \in Nat
  BY DEF IInv, TypeOK, ProcessTypeOK, DiskTypeOK, Files, FileRecords, RecordsOf, Record
<1>1. CASE Was(d[i], i) /\ Was(e[j], j)
  BY <1>1 DEF FilePart, FilesInOrder
<1>2. ASSUME FlushWrite \/ CompactWrite
      PROVE  /\ Up
             /\ \A n \in DOMAIN dir \cup DOMAIN dirDurable : n <= nextId
             /\ \A n \in LiveIds : n < nextId /\ n \in Nat
  <2>1. Up
    BY <1>2 DEF FlushWrite, CompactWrite, Up
  <2>2. \A n \in LiveIds : n < nextId /\ n \in Nat
    <3>1. tables \in Seq(Table)
      BY DEF IInv, TypeOK, ProcessTypeOK
    <3> QED BY <3>1, LiveTableTypes DEF IInv, CallState, LiveIds
  <2> QED BY <2>1, <2>2 DEF DirPart, IdsKnown
<1>3. CASE i = nextId /\ (FlushWrites(d[i]) \/ CompactWrites(d[i]))
  <2>1. FlushWrite \/ CompactWrite
    BY <1>3 DEF FlushWrites, CompactWrites
  <2>2. (j \in DOMAIN dir \cup DOMAIN dirDurable /\ j \in Nat) \/ j = nextId
    BY FileSteps DEF IInv, TypeOK, DiskTypeOK, Files
  <2>3. ~(nextId < j)
    BY <1>0, <1>2, <2>1, <2>2
  <2> QED BY <1>3, <2>3
<1>4. CASE Was(d[i], i) /\ j = nextId /\ FlushWrites(e[j])
  BY <1>0, <1>4 DEF FlushWrites, FilePart, MemAbove
<1>5. CASE Was(d[i], i) /\ j = nextId /\ CompactWrites(e[j])
  <2>1. CompactWrite /\ q \in NewestPerKey(LiveTableRecords)
    BY <1>5, LiveRecords DEF CompactWrites
  <2>2. q \in LiveTableRecords
    BY <2>1, LiveRecords
  <2>3. CASE i \in LiveIds
    <3>1. PICK n \in DOMAIN tables : i = tables[n].id
      BY <2>3 DEF LiveIds
    <3>2. dir[i] = tables[n].recs /\ dirDurable[i] = tables[n].recs
      BY <1>2, <2>1, <3>1 DEF IInv, LiveTablesOnDisk, DirPart, LiveDurable
    <3>3. r \in LiveTableRecords
      BY <1>5, <3>2 DEF LiveTableRecords
    <3>4. r.key = q.key => r.seq <= q.seq
      BY <2>1, <3>3 DEF NewestPerKey
    <3>5. r.key = q.key /\ r.seq = q.seq => r = q
      BY <2>2, <3>3, LiveInOrder, LiveRecords, NewestIsMap
    <3> QED BY <3>4, <3>5 DEF Above
  <2>4. CASE i \notin LiveIds
    <3>1. PICK n \in DOMAIN tables : q \in dir[tables[n].id] /\ tables[n].id \in DOMAIN dir
      BY <2>2 DEF LiveTableRecords, IInv, LiveTablesOnDisk
    <3>2. i < tables[n].id
      BY <1>2, <1>5, <2>1, <2>4, <3>1 DEF DirPart, StaleBelow, Stale, LiveIds
    <3> QED BY <1>5, <3>1, <3>2 DEF FilePart, FilesInOrder
  <2> QED BY <2>3, <2>4
<1> QED BY <1>1, <1>3, <1>4, <1>5, FileSteps

(***************************************************************************)
(* The steps of the directory part.                                        *)
(***************************************************************************)

\* A list of all of a set's ids in descending order leaves none out.
LEMMA AllListed ==
    ASSUME NEW ids, IsFiniteSet(ids), ids \subseteq Nat, NEW o \in NewestFirst(ids), NEW x \in ids
    PROVE  \E i \in DOMAIN o : o[i] = x
<1> DEFINE n == Cardinality(ids)
<1>1. n \in Nat /\ o \in [1..n -> ids] /\ \A i, j \in 1..n : i < j => o[i] > o[j]
  BY FS_CardinalityType DEF NewestFirst
<1>2. IsFiniteSet(ids \ {x}) /\ Cardinality(ids \ {x}) = n - 1
  BY FS_RemoveElement
<1> HIDE DEF n
<1>3. IsFiniteSet(1..n) /\ Cardinality(1..n) = n
  BY <1>1, FS_Interval
<1> SUFFICES ASSUME ~\E i \in 1..n : o[i] = x PROVE FALSE
  BY <1>1
<1>4. o \in [1..n -> ids \ {x}]
  BY <1>1
<1>5. Cardinality(ids \ {x}) < Cardinality(1..n)
  BY <1>1, <1>2, <1>3
<1>6. \E i, j \in 1..n : i # j /\ o[i] = o[j]
  <2> DEFINE S == 1..n
             T == ids \ {x}
  <2>1. IsFiniteSet(S) /\ IsFiniteSet(T) /\ Cardinality(T) < Cardinality(S) /\ o \in [S -> T]
    BY <1>2, <1>3, <1>4, <1>5
  <2> HIDE DEF S, T
  <2>2. \E i, j \in S : i # j /\ o[i] = o[j]
    BY <2>1, FS_PigeonHole
  <2> QED BY <2>2 DEF S
<1>7. PICK i \in 1..n, j \in 1..n : i # j /\ o[i] = o[j]
  BY <1>6
<1>8. i < j \/ j < i
  BY <1>1, <1>7
<1>9. o[i] \in Nat /\ o[j] \in Nat
  BY <1>1
<1> QED BY <1>1, <1>7, <1>8, <1>9

\* Opening the store makes every file a live table.
LEMMA OpenLoads ==
    ASSUME IInv, Open
    PROVE  DOMAIN dir \subseteq LiveIds' /\ RecordsIn(tables') = RecordsOf(dir)
<1>1. PICK o \in NewestFirst(DOMAIN dir) :
         tables' = [i \in DOMAIN o |-> [id |-> o[i], recs |-> dir[o[i]]]]
  BY DEF Open
<1>2. IsFiniteSet(DOMAIN dir) /\ DOMAIN dir \subseteq Nat
  BY DEF IInv, TypeOK, DiskTypeOK, Files
<1>3. \A x \in DOMAIN dir : \E i \in DOMAIN o : o[i] = x
  BY <1>2, AllListed
<1>4. \A i \in DOMAIN o : o[i] \in DOMAIN dir
  BY DEF NewestFirst
<1>5. DOMAIN dir \subseteq LiveIds'
  BY <1>1, <1>3 DEF LiveIds
<1>6. RecordsIn(tables') = RecordsOf(dir)
  BY <1>1, <1>3, <1>4 DEF RecordsIn, RecordsOf
<1> QED BY <1>5, <1>6

LEMMA LiveDurableStep ==
    ASSUME IInv, LiveDurable, Closed, [Next]_vars
    PROVE  LiveDurable'
<1> SUFFICES ASSUME Up', NEW i \in DOMAIN tables'
             PROVE  /\ tables'[i].id \in DOMAIN dirDurable'
                    /\ dirDurable'[tables'[i].id] = tables'[i].recs
  BY DEF LiveDurable
<1>1. CASE dirDurable' = dir'
  BY <1>1, LiveTablesStep DEF LiveTablesOnDisk
<1>2. CASE tables' = tables /\ dirDurable' \in {dir, dirDurable} /\ Up
  BY <1>2 DEF IInv, LiveTablesOnDisk, LiveDurable
<1>3. CASE Open
  <2>1. dirDurable' = dir'
    BY <1>3 DEF Open, disk, Closed, Up
  <2> QED BY <1>1, <2>1
<1>4. CASE FlushInstall \/ CompactSwap \/ UnlinkSync
  BY <1>1, <1>4 DEF FlushInstall, CompactSwap, UnlinkSync
<1>5. CASE Kill \/ PowerLoss
  BY <1>5 DEF Kill, PowerLoss, ProcessDies, Up
<1>6. CASE \/ AppendFails \/ SyncInsert \/ FlushWrite \/ ResetTruncate \/ ResetSync
           \/ CompactWrite \/ UnlinkOne \/ IoError \/ UNCHANGED vars
           \/ \E k \in Keys, x \in Values \cup {Gone} : Write(k, x)
  <2>1. tables' = tables /\ dirDurable' \in {dir, dirDurable}
    BY <1>6 DEF AppendFails, SyncInsert, FlushWrite, ResetTruncate, ResetSync, CompactWrite,
                UnlinkOne, IoError, Write, vars, process, disk
  <2>2. Up
    BY <1>6 DEF AppendFails, MayWrite, SyncInsert, FlushWrite, ResetTruncate, ResetSync,
                CompactWrite, UnlinkOne, IoError, Write, vars, process, Up
  <2> QED BY <1>2, <2>1, <2>2
<1> QED BY <1>3, <1>4, <1>5, <1>6 DEF Next

\* A process starts by opening the store.
LEMMA StartsByOpen == ASSUME [Next]_vars, Up' PROVE Up \/ Open
<1> SUFFICES ASSUME pc = "down", pc' # "down" PROVE Open
  BY DEF Up
<1>1. ~UNCHANGED vars /\ \A k, x : ~Write(k, x)
  BY DEF vars, process, Write, MayWrite
<1> QED BY <1>1 DEF Next, AppendFails, MayWrite, SyncInsert, FlushWrite, FlushInstall, ResetTruncate,
            ResetSync, CompactWrite, CompactSwap, UnlinkOne, UnlinkSync, IoError, Kill, PowerLoss,
            ProcessDies

\* The log is only reset once the flushed table is installed.
LEMMA ResetEntered ==
    ASSUME [Next]_vars, ~FlushInstall, pc' \in {"reset", "resetSync"}
    PROVE  pc \in {"reset", "resetSync"}
<1>1. CASE \/ Open \/ AppendFails \/ SyncInsert \/ FlushWrite \/ ResetTruncate \/ ResetSync
           \/ UNCHANGED vars \/ \E k \in Keys, x \in Values \cup {Gone} : Write(k, x)
  BY <1>1 DEF Open, AppendFails, MayWrite, SyncInsert, FlushWrite, ResetTruncate, ResetSync, Write,
              vars, process
<1>2. CASE CompactWrite \/ CompactSwap \/ UnlinkOne \/ UnlinkSync \/ IoError \/ Kill \/ PowerLoss
  BY <1>2 DEF CompactWrite, CompactSwap, UnlinkOne, UnlinkSync, IoError, Kill, PowerLoss, ProcessDies
<1> QED BY <1>1, <1>2 DEF Next

\* Where nothing is exposed, a compaction that dropped a tombstone ends with its unlinks
\* done and durable.
LEMMA LossyEnds ==
    ASSUME UnlinkState, Exposed = {}, [Next]_vars, Up, Up', ~FlushInstall, ~CompactSwap, ~UnlinkOne
    PROVE  \/ lossy' = lossy /\ old' = old /\ dirDurable' = dirDurable
           \/ ~lossy' /\ (~lossy \/ (dirDurable' = dir /\ old = <<>>))
<1>1. CASE \/ AppendFails \/ SyncInsert \/ FlushWrite \/ ResetTruncate \/ ResetSync \/ CompactWrite
           \/ UNCHANGED vars \/ \E k \in Keys, x \in Values \cup {Gone} : Write(k, x)
  BY <1>1 DEF AppendFails, SyncInsert, FlushWrite, ResetTruncate, ResetSync, CompactWrite, Write,
              vars, process, disk
<1>2. CASE UnlinkSync
  BY <1>2 DEF UnlinkSync, UnlinkState
<1>3. CASE IoError
  BY <1>3 DEF IoError, MayCut
<1>4. ~Open /\ ~Kill /\ ~PowerLoss
  BY DEF Open, Kill, PowerLoss, ProcessDies, Up
<1> QED BY <1>1, <1>2, <1>3, <1>4 DEF Next

\* The ids in use stay below the next one.
LEMMA LiveIdsBelow ==
    ASSUME IInv
    PROVE  nextId \in Nat /\ \A n \in LiveIds : n < nextId /\ n \in Nat
<1>1. tables \in Seq(Table) /\ nextId \in Nat
  BY DEF IInv, TypeOK, ProcessTypeOK
<1> QED BY <1>1, LiveTableTypes DEF IInv, CallState, LiveIds

\* The same in the next state, with the ids of the files.
LEMMA IdsNext ==
    ASSUME IInv, [Next]_vars
    PROVE  /\ nextId \in Nat /\ nextId' \in Nat
           /\ \A n \in LiveIds : n < nextId /\ n \in Nat
           /\ \A n \in LiveIds' : n < nextId' /\ n \in Nat
           /\ \A n \in DOMAIN dir \cup DOMAIN dirDurable : n \in Nat
           /\ \A n \in DOMAIN dir' \cup DOMAIN dirDurable' : n \in Nat
<1>1. tables' \in Seq(Table) /\ nextId' \in Nat
  BY ProcessTypeStep DEF ProcessTypeOK
<1>2. \A i \in DOMAIN tables' : tables'[i] \in Table
  BY <1>1
<1>3. \A i \in DOMAIN tables' : tables'[i].id \in Nat
  BY <1>2 DEF Table
<1>4. \A n \in LiveIds' : n < nextId' /\ n \in Nat
  BY <1>3, LiveTablesStep DEF LiveIds
<1>5. \A n \in DOMAIN dir' \cup DOMAIN dirDurable' : n \in Nat
  BY DiskTypeStep DEF DiskTypeOK, Files
<1>6. \A n \in DOMAIN dir \cup DOMAIN dirDurable : n \in Nat
  BY DEF IInv, TypeOK, DiskTypeOK, Files
<1> QED BY <1>1, <1>4, <1>5, <1>6, LiveIdsBelow

\* A flush puts its table before the others, and keeps them.
LEMMA InstallLists ==
    ASSUME IInv, FlushInstall
    PROVE  /\ LiveIds' = LiveIds \cup {nextId}
           /\ LiveTableRecords \subseteq LiveTableRecords'
<1>1. /\ tables' = <<[id |-> nextId, recs |-> dir[nextId]]>> \o tables
      /\ tables \in Seq(Table)
  BY DEF FlushInstall, IInv, TypeOK, ProcessTypeOK
<1>2. /\ Len(tables) \in Nat /\ DOMAIN tables' = 1..(Len(tables) + 1)
      /\ DOMAIN tables = 1..Len(tables)
      /\ tables'[1] = [id |-> nextId, recs |-> dir[nextId]]
      /\ \A i \in 1..Len(tables) : tables'[i + 1] = tables[i]
  BY <1>1
<1>3. /\ 1 \in DOMAIN tables' /\ \A i \in 1..Len(tables) : i + 1 \in DOMAIN tables'
      /\ \A i \in DOMAIN tables' : i = 1 \/ (i - 1 \in 1..Len(tables) /\ i = (i - 1) + 1)
  BY <1>2
<1>4. \A i \in DOMAIN tables' : tables'[i].id = nextId \/ tables'[i].id \in LiveIds
  BY <1>2, <1>3 DEF LiveIds
<1>5. nextId \in LiveIds' /\ LiveIds \subseteq LiveIds'
  BY <1>2, <1>3 DEF LiveIds
<1>6. LiveIds' \subseteq LiveIds \cup {nextId}
  BY <1>4 DEF LiveIds
<1>7. LiveTableRecords \subseteq LiveTableRecords'
  BY <1>2, <1>3 DEF LiveTableRecords
<1> QED BY <1>5, <1>6, <1>7

\* A compaction leaves one live table, the merged one.
LEMMA SwapLists ==
    ASSUME IInv, CompactSwap
    PROVE  /\ LiveIds' = {nextId} /\ LiveTableRecords' = dir[nextId]
           /\ {old'[i] : i \in DOMAIN old'} = LiveIds
<1>1. /\ tables' = <<[id |-> nextId, recs |-> dir[nextId]]>>
      /\ old' = [i \in DOMAIN tables |-> tables[i].id]
  BY DEF CompactSwap, Inputs
<1>2. DOMAIN tables' = {1} /\ tables'[1].id = nextId /\ tables'[1].recs = dir[nextId]
  BY <1>1
<1> QED BY <1>1, <1>2 DEF LiveIds, LiveTableRecords

\* Steps that neither change the live tables nor the next id, and leave the directories
\* or make the durable one the latest.
Steady ==
    /\ Up /\ tables' = tables /\ nextId' = nextId
    /\ dir' = dir /\ dirDurable' \in {dir, dirDurable}

LEMMA SteadySteps ==
    ASSUME [Next]_vars, Up, Up', ~FlushWrite, ~CompactWrite, ~FlushInstall, ~CompactSwap, ~UnlinkOne
    PROVE  Steady
<1>1. CASE \/ AppendFails \/ SyncInsert \/ ResetTruncate \/ ResetSync \/ UnlinkSync \/ IoError
           \/ UNCHANGED vars \/ \E k \in Keys, x \in Values \cup {Gone} : Write(k, x)
  BY <1>1 DEF AppendFails, SyncInsert, ResetTruncate, ResetSync, UnlinkSync, IoError, Write, vars,
              process, disk, Steady
<1>2. ~Open /\ ~Kill /\ ~PowerLoss
  BY DEF Open, Kill, PowerLoss, ProcessDies, Up
<1> QED BY <1>1, <1>2 DEF Next

\* No file has an id above the next one.
LEMMA IdsKnownStep ==
    ASSUME IInv, DirPart, Closed, [Next]_vars
    PROVE  IdsKnown'
<1> DEFINE Ids == DOMAIN dir \cup DOMAIN dirDurable
<1> SUFFICES ASSUME Up' PROVE \A n \in Ids' : n <= nextId'
  BY DEF IdsKnown
<1>0. /\ nextId \in Nat /\ nextId' \in Nat /\ \A n \in Ids : n \in Nat
      /\ \A n \in LiveIds' : n < nextId' /\ n \in Nat
  BY IdsNext
<1>1. CASE Open
  <2>1. dir' = dir /\ dirDurable' = dir
    BY <1>1 DEF Open, disk, Closed, Up
  <2>2. Ids' \subseteq LiveIds'
    BY <1>1, <2>1, OpenLoads
  <2> QED BY <1>0, <2>2
<1>2. CASE Up
  <2>0. \A n \in Ids : n <= nextId
    BY <1>2 DEF DirPart, IdsKnown
  <2>1. CASE FlushWrite \/ CompactWrite
    <3>1. nextId' = nextId /\ DOMAIN dir' = DOMAIN dir \cup {nextId} /\ dirDurable' = dirDurable
      BY <2>1 DEF FlushWrite, CompactWrite, With
    <3> QED BY <1>0, <2>0, <3>1
  <2>2. CASE FlushInstall \/ CompactSwap
    <3>1. dir' = dir /\ dirDurable' = dir /\ nextId' = nextId + 1
      BY <2>2 DEF FlushInstall, CompactSwap
    <3> QED BY <1>0, <2>0, <3>1
  <2>3. CASE UnlinkOne
    <3>1. nextId' = nextId /\ DOMAIN dir' \subseteq DOMAIN dir /\ dirDurable' = dirDurable
      BY <2>3 DEF UnlinkOne, Without
    <3> QED BY <2>0, <3>1
  <2>4. CASE Steady
    BY <2>0, <2>4 DEF Steady
  <2> QED BY <1>2, <2>1, <2>2, <2>3, <2>4, SteadySteps
<1>3. Up \/ Open
  BY StartsByOpen
<1> QED BY <1>1, <1>2, <1>3

\* A file under the next id adds nothing to what the log and the live tables give.
LEMMA UnfinishedStep ==
    ASSUME IInv, LogPart, DirPart, Closed, Exposed = {}, [Next]_vars
    PROVE  Unfinished'
<1> SUFFICES ASSUME Up', NEW d \in {dir', dirDurable'}, nextId' \in DOMAIN d
             PROVE  /\ pc' \notin {"reset", "resetSync"}
                    /\ \A r \in d[nextId'] : \/ Covered(wal', walDurable', r.key)
                                             \/ r \in NewestPerKey(LiveTableRecords)'
  BY DEF Unfinished
<1> USE DEF LogPart, DirPart
<1>0. /\ nextId \in Nat /\ nextId' \in Nat
      /\ \A n \in LiveIds' : n < nextId' /\ n \in Nat
      /\ \A n \in DOMAIN dir \cup DOMAIN dirDurable : n \in Nat
  BY IdsNext
<1>c. \A k : Covered(wal, walDurable, k) /\ pc \notin {"reset", "resetSync"}
               => Covered(wal', walDurable', k)
  BY LogSteps DEF Up
<1>1. CASE Open
  <2>1. dir' = dir /\ dirDurable' = dir
    BY <1>1 DEF Open, disk, Closed, Up
  <2>2. nextId' \in LiveIds'
    BY <1>1, <2>1, OpenLoads
  <2> QED BY <1>0, <2>2
<1>2. CASE FlushInstall \/ CompactSwap
  <2>1. Up /\ dir' = dir /\ dirDurable' = dir /\ nextId' = nextId + 1
    BY <1>2 DEF FlushInstall, CompactSwap, Up
  <2>2. \A n \in DOMAIN dir : n <= nextId
    BY <2>1 DEF IdsKnown
  <2> QED BY <1>0, <2>1, <2>2
<1>3. ASSUME Up, nextId' = nextId, tables' = tables,
             pc \in {"reset", "resetSync"} \/ pc' \notin {"reset", "resetSync"},
             \/ nextId \in DOMAIN dir /\ d[nextId] = dir[nextId]
             \/ nextId \in DOMAIN dirDurable /\ d[nextId] = dirDurable[nextId]
      PROVE  /\ pc' \notin {"reset", "resetSync"}
             /\ \A r \in d[nextId'] : \/ Covered(wal', walDurable', r.key)
                                      \/ r \in NewestPerKey(LiveTableRecords)'
  <2>1. LiveTableRecords' = LiveTableRecords
    BY <1>3 DEF LiveTableRecords
  <2>2. NewestPerKey(LiveTableRecords)' = NewestPerKey(LiveTableRecords)
    BY <2>1 DEF NewestPerKey
  <2>3. /\ pc \notin {"reset", "resetSync"}
        /\ \A r \in d[nextId] : \/ Covered(wal, walDurable, r.key)
                                \/ r \in NewestPerKey(LiveTableRecords)
    BY <1>3 DEF Unfinished
  <2> QED BY <1>3, <1>c, <2>2, <2>3
<1>4. CASE FlushWrite \/ CompactWrite
  <2>1. /\ Up /\ tables' = tables /\ nextId' = nextId
        /\ pc' \notin {"reset", "resetSync"} /\ pc \notin {"reset", "resetSync"}
    BY <1>4 DEF FlushWrite, CompactWrite, Up
  <2>2. CASE FlushWrites(d[nextId])
    BY <1>c, <2>1, <2>2 DEF FlushWrites, MemCovered
  <2>3. CASE CompactWrites(d[nextId])
    <3>1. LiveTableRecords' = LiveTableRecords
      BY <2>1 DEF LiveTableRecords
    <3>2. NewestPerKey(LiveTableRecords)' = NewestPerKey(LiveTableRecords)
      BY <3>1 DEF NewestPerKey
    <3> QED BY <2>1, <2>3, <3>2, LiveRecords DEF CompactWrites
  <2>4. \/ nextId \in DOMAIN dir /\ d[nextId] = dir[nextId]
        \/ nextId \in DOMAIN dirDurable /\ d[nextId] = dirDurable[nextId]
        \/ FlushWrites(d[nextId]) \/ CompactWrites(d[nextId])
    BY <2>1, FileSteps
  <2> QED BY <1>3, <2>1, <2>2, <2>3, <2>4
<1>5. CASE UnlinkOne
  <2>1. /\ Up /\ tables' = tables /\ nextId' = nextId /\ pc' \notin {"reset", "resetSync"}
    BY <1>5 DEF UnlinkOne, Up
  <2>2. \/ nextId \in DOMAIN dir /\ d[nextId] = dir[nextId]
        \/ nextId \in DOMAIN dirDurable /\ d[nextId] = dirDurable[nextId]
    BY <1>5, <2>1 DEF UnlinkOne, Without
  <2> QED BY <1>3, <2>1, <2>2
<1>6. CASE Steady /\ ~FlushInstall
  <2>1. /\ Up /\ tables' = tables /\ nextId' = nextId
        /\ \/ nextId \in DOMAIN dir /\ d[nextId] = dir[nextId]
           \/ nextId \in DOMAIN dirDurable /\ d[nextId] = dirDurable[nextId]
    BY <1>6 DEF Steady
  <2>2. pc \in {"reset", "resetSync"} \/ pc' \notin {"reset", "resetSync"}
    BY <1>6, ResetEntered
  <2> QED BY <1>3, <2>1, <2>2
<1>7. Up \/ Open
  BY StartsByOpen
<1> QED BY <1>1, <1>2, <1>4, <1>5, <1>6, <1>7, SteadySteps

\* A compaction's input that stays behind is below every table opened later.
LEMMA StaleBelowStep ==
    ASSUME IInv, DirPart, Closed, [Next]_vars
    PROVE  StaleBelow'
<1> SUFFICES ASSUME Up', NEW d \in {dir', dirDurable'}, NEW n \in DOMAIN d, n < nextId',
                    n \notin LiveIds', NEW m \in LiveIds'
             PROVE  n < m
  BY DEF StaleBelow, Stale
<1>0. /\ nextId \in Nat /\ n \in Nat
      /\ \A i \in LiveIds : i < nextId /\ i \in Nat
      /\ \A i \in DOMAIN dir \cup DOMAIN dirDurable : i \in Nat
  BY IdsNext
<1>1. CASE Open
  <2>1. dir' = dir /\ dirDurable' = dir
    BY <1>1 DEF Open, disk, Closed, Up
  <2> QED BY <1>1, <2>1, OpenLoads
<1>2. ASSUME Up, n \in DOMAIN dir \cup DOMAIN dirDurable, n < nextId, n \notin LiveIds
      PROVE  \A i \in LiveIds : n < i
  BY <1>2 DEF DirPart, StaleBelow, Stale
<1>3. CASE FlushInstall
  <2>1. Up /\ dir' = dir /\ dirDurable' = dir /\ LiveIds' = LiveIds \cup {nextId} /\ nextId' = nextId + 1
    BY <1>3, InstallLists DEF FlushInstall, Up
  <2> QED BY <1>0, <1>2, <2>1
<1>4. CASE CompactSwap
  <2>1. Up /\ dir' = dir /\ dirDurable' = dir /\ LiveIds' = {nextId} /\ nextId' = nextId + 1
    BY <1>4, SwapLists DEF CompactSwap, Up
  <2> QED BY <1>0, <2>1
<1>5. CASE FlushWrite \/ CompactWrite \/ UnlinkOne
  <2>1. Up /\ LiveIds' = LiveIds /\ nextId' = nextId
    BY <1>5 DEF FlushWrite, CompactWrite, UnlinkOne, LiveIds, Up
  <2>2. n \in DOMAIN dir \cup DOMAIN dirDurable
    BY <1>0, <1>5, <2>1 DEF FlushWrite, CompactWrite, UnlinkOne, With, Without
  <2> QED BY <1>2, <2>1, <2>2
<1>6. CASE Steady
  <2>1. /\ Up /\ LiveIds' = LiveIds /\ nextId' = nextId /\ n \in DOMAIN dir \cup DOMAIN dirDurable
    BY <1>6 DEF Steady, LiveIds
  <2> QED BY <1>2, <2>1
<1>7. Up \/ Open
  BY StartsByOpen
<1> QED BY <1>1, <1>3, <1>4, <1>5, <1>6, <1>7, SteadySteps

\* Until its unlinks are done a compaction is known to drop a tombstone or not to.
LEMMA UnlinkStateStep == ASSUME UnlinkState, [Next]_vars PROVE UnlinkState'
<1>1. CASE \/ Open \/ AppendFails \/ SyncInsert \/ FlushWrite \/ FlushInstall \/ ResetTruncate
           \/ ResetSync \/ CompactWrite \/ \E k \in Keys, x \in Values \cup {Gone} : Write(k, x)
  <2>1. lossy' = lossy /\ pc \notin {"unlink", "unlinkDir"} /\ pc' # "unlinkDir"
    BY <1>1 DEF Open, AppendFails, MayWrite, SyncInsert, FlushWrite, FlushInstall, ResetTruncate,
                ResetSync, CompactWrite, Write
  <2> QED BY <2>1 DEF UnlinkState
<1>3. CASE UNCHANGED vars
  BY <1>3 DEF UnlinkState, vars, process
<1>2. CASE CompactSwap \/ UnlinkOne \/ UnlinkSync \/ IoError \/ Kill \/ PowerLoss
  BY <1>2 DEF CompactSwap, UnlinkOne, UnlinkSync, IoError, Kill, PowerLoss, ProcessDies, UnlinkState
<1> QED BY <1>1, <1>2, <1>3 DEF Next

\* A merge that is being written drops no tombstone of a key in a file left over.
LEMMA MergeHidesStep ==
    ASSUME IInv, MergeHides, Exposed = {}, [Next]_vars
    PROVE  MergeHides'
<1> SUFFICES ASSUME pc' = "mergeDir"
             PROVE  KeysOf(Dropped)' \cap KeysOf(LeftoverRecords)' = {}
  BY DEF MergeHides
<1>0. nextId \in Nat
  BY LiveIdsBelow
<1>1. CASE CompactWrite
  <2>1. /\ tables' = tables /\ nextId' = nextId /\ dir' = With(dir, nextId, Merge(LiveTableRecords))
        /\ KeysOf(Dropped) \cap KeysOf(LeftoverRecords) = {}
    BY <1>1 DEF CompactWrite, MayDrop
  <2>2. LiveTableRecords' = LiveTableRecords
    BY <2>1 DEF LiveTableRecords
  <2>3. KeysOf(Dropped)' = KeysOf(Dropped)
    BY <2>2 DEF Dropped, KeysOf, NewestPerKey, Tombstones
  <2> DEFINE Left(d) == {j \in DOMAIN d : j < nextId} \ {tables[n].id : n \in DOMAIN tables}
  <2>4. Left(dir') = Left(dir) /\ \A j \in Left(dir) : dir'[j] = dir[j]
    BY <1>0, <2>1 DEF With
  <2>5. LeftoverRecords' = UNION {dir'[i] : i \in Left(dir')} /\ LeftoverRecords = UNION {dir[i] : i \in Left(dir)}
    BY <2>1 DEF LeftoverRecords
  <2> HIDE DEF Left
  <2>6. LeftoverRecords' = LeftoverRecords
    BY <2>4, <2>5
  <2> QED BY <2>1, <2>3, <2>6 DEF KeysOf
<1>2. CASE UNCHANGED vars
  <2>1. /\ pc = "mergeDir" /\ tables' = tables /\ nextId' = nextId /\ dir' = dir
    BY <1>2 DEF vars, process, disk
  <2>2. Dropped' = Dropped /\ LeftoverRecords' = LeftoverRecords
    BY <2>1 DEF Dropped, LeftoverRecords, LiveTableRecords, NewestPerKey, Tombstones
  <2> QED BY <2>1, <2>2 DEF MergeHides, KeysOf
<1>3. CASE \/ Open \/ AppendFails \/ SyncInsert \/ FlushWrite \/ FlushInstall \/ ResetTruncate
           \/ ResetSync \/ CompactSwap \/ UnlinkOne \/ UnlinkSync \/ IoError \/ Kill \/ PowerLoss
           \/ \E k \in Keys, x \in Values \cup {Gone} : Write(k, x)
  BY <1>3 DEF Open, AppendFails, MayWrite, SyncInsert, FlushWrite, FlushInstall, ResetTruncate,
              ResetSync, CompactSwap, UnlinkOne, UnlinkSync, IoError, Kill, PowerLoss, ProcessDies, Write
<1> QED BY <1>1, <1>2, <1>3 DEF Next

\* What a compaction swaps in has every key of the files that it will not unlink, and
\* of its inputs, too, if it drops no tombstone.
LEMMA SwapHides ==
    ASSUME IInv, FilePart, DirPart, CallContents, CompactSwap
    PROVE  \A n \in DOMAIN dir : n < nextId =>
              \/ KeysOf(dir[n]) \subseteq KeysOf(dir[nextId])
              \/ lossy' /\ n \in LiveIds
<1>1. /\ pc = "mergeDir" /\ Up /\ ~lossy /\ dir[nextId] = Merge(LiveTableRecords)
      /\ lossy' = (Dropped # {})
  BY DEF CompactSwap, CallContents, DirPart, UnlinkState, Up
<1>2. dir[nextId] = NewestPerKey(LiveTableRecords) \ Dropped
  BY <1>1 DEF Merge, Dropped
<1>3. ASSUME NEW k \in KeysOf(LiveTableRecords)
      PROVE  k \in KeysOf(dir[nextId]) \/ k \in KeysOf(Dropped)
  <2>1. PICK r \in NewestPerKey(LiveTableRecords) : r.key = k
    BY <1>3, LiveInOrder, LiveRecords, NewestOfTables
  <2> QED BY <1>2, <2>1 DEF KeysOf
<1> SUFFICES ASSUME NEW n \in DOMAIN dir, n < nextId, ~(lossy' /\ n \in LiveIds), NEW r \in dir[n]
             PROVE  r.key \in KeysOf(dir[nextId])
  BY DEF KeysOf
<1>4. CASE n \in LiveIds
  <2>1. r \in LiveTableRecords
    BY <1>4 DEF LiveIds, IInv, LiveTablesOnDisk, LiveTableRecords
  <2>2. Dropped = {} /\ r.key \in KeysOf(LiveTableRecords)
    BY <1>1, <1>4, <2>1 DEF KeysOf
  <2> QED BY <1>3, <2>2 DEF KeysOf
<1>5. CASE n \notin LiveIds
  <2>1. n \in Stale(dir)
    BY <1>5 DEF Stale
  <2>2. r.key \in KeysOf(LiveTableRecords)
    BY <1>1, <2>1 DEF DirPart, StaleHidden, Hidden, KeysOf
  <2>3. r \in LeftoverRecords
    BY <2>1 DEF Stale, LiveIds, LeftoverRecords
  <2>4. r.key \notin KeysOf(Dropped)
    BY <1>1, <2>3 DEF DirPart, MergeHides, KeysOf
  <2> QED BY <1>3, <2>2, <2>4
<1> QED BY <1>4, <1>5

\* An input that stays behind has no key that the live tables do not have.
LEMMA StaleHiddenStep ==
    ASSUME IInv, FilePart, DirPart, CallContents, Closed, Exposed = {}, [Next]_vars
    PROVE  StaleHidden'
<1> SUFFICES ASSUME Up' PROVE StaleHidden'
  BY DEF StaleHidden
<1> DEFINE AboutToGo(n) == lossy /\ \E i \in DOMAIN old : old[i] = n
<1>0. /\ nextId \in Nat
      /\ \A n \in DOMAIN dir \cup DOMAIN dirDurable : n \in Nat
  BY IdsNext
<1>h. Up => /\ \A n \in Stale(dir) : Hidden(dir[n]) \/ AboutToGo(n)
            /\ ~lossy => \A n \in Stale(dirDurable) : Hidden(dirDurable[n])
  BY DEF DirPart, StaleHidden
<1>1. CASE Open
  <2>1. dir' = dir /\ dirDurable' = dir
    BY <1>1 DEF Open, disk, Closed, Up
  <2>2. Stale(dir)' = {} /\ Stale(dirDurable)' = {}
    BY <1>1, <2>1, OpenLoads DEF Stale
  <2> QED BY <2>2 DEF StaleHidden
<1>2. CASE FlushInstall
  <2>1. /\ Up /\ ~lossy /\ dir' = dir /\ dirDurable' = dir /\ nextId' = nextId + 1
        /\ LiveIds' = LiveIds \cup {nextId} /\ LiveTableRecords \subseteq LiveTableRecords'
    BY <1>2, InstallLists DEF FlushInstall, Up, DirPart, UnlinkState
  <2>2. \A n \in Stale(dir)' : n \in Stale(dir)
    BY <1>0, <2>1 DEF Stale
  <2>3. \A n \in Stale(dir) : Hidden(dir[n])'
    BY <1>h, <2>1 DEF Hidden, KeysOf
  <2>4. Stale(dirDurable)' = Stale(dir)' /\ \A n \in Stale(dir) : Hidden(dirDurable[n])'
    BY <2>1, <2>3 DEF Stale, Hidden
  <2> QED BY <2>2, <2>3, <2>4 DEF StaleHidden
<1>3. CASE CompactSwap
  <2>1. /\ dir' = dir /\ dirDurable' = dir /\ nextId' = nextId + 1
        /\ LiveIds' = {nextId} /\ LiveTableRecords' = dir[nextId]
        /\ {old'[i] : i \in DOMAIN old'} = LiveIds
    BY <1>3, SwapLists DEF CompactSwap
  <2>2. \A n \in Stale(dir)' : n \in DOMAIN dir /\ n < nextId
    BY <1>0, <2>1 DEF Stale
  <2>3. \A n \in Stale(dir)' : KeysOf(dir[n]) \subseteq KeysOf(dir[nextId]) \/ (lossy' /\ n \in LiveIds)
    BY <1>3, <2>2, SwapHides
  <2>4. \A n \in Stale(dir)' : Hidden(dir[n])' \/ AboutToGo(n)'
    BY <2>1, <2>3 DEF Hidden
  <2>5. ~lossy' => \A n \in Stale(dirDurable)' : Hidden(dirDurable[n])'
    <3>1. Stale(dirDurable)' = Stale(dir)'
      BY <2>1 DEF Stale
    <3>2. \A n \in Stale(dir)' : dirDurable'[n] = dir[n]
      BY <2>1
    <3> QED BY <2>1, <2>3, <3>1, <3>2 DEF Hidden
  <2> QED BY <2>4, <2>5 DEF StaleHidden
<1>4. ASSUME Up, tables' = tables
      PROVE  LiveIds' = LiveIds /\ \A recs : Hidden(recs)' <=> KeysOf(recs') \subseteq KeysOf(LiveTableRecords)
  BY <1>4 DEF LiveIds, Hidden, LiveTableRecords
<1>5. CASE FlushWrite \/ CompactWrite
  <2>1. /\ Up /\ ~lossy /\ lossy' = lossy /\ tables' = tables /\ nextId' = nextId /\ dirDurable' = dirDurable
        /\ \A n \in DOMAIN dir' : n = nextId \/ (n \in DOMAIN dir /\ dir'[n] = dir[n])
    BY <1>5 DEF FlushWrite, CompactWrite, Up, With, DirPart, UnlinkState
  <2>l. LiveIds' = LiveIds /\ LiveTableRecords' = LiveTableRecords
    BY <2>1 DEF LiveIds, LiveTableRecords
  <2>2. \A n \in Stale(dir)' : n \in Stale(dir) /\ dir'[n] = dir[n]
    BY <1>0, <2>1, <2>l DEF Stale
  <2>3. Stale(dirDurable)' = Stale(dirDurable)
    BY <2>1, <2>l DEF Stale
  <2> QED BY <1>h, <2>1, <2>l, <2>2, <2>3 DEF StaleHidden, Hidden
<1>6. CASE UnlinkOne
  <2>1. /\ Up /\ lossy' = lossy /\ tables' = tables /\ nextId' = nextId /\ dirDurable' = dirDurable
        /\ dir' = Without(dir, Head(old)) /\ old # <<>> /\ old' = Tail(old) /\ old \in Seq(Nat)
    BY <1>6 DEF UnlinkOne, Up, IInv, TypeOK, ProcessTypeOK
  <2>l. LiveIds' = LiveIds /\ LiveTableRecords' = LiveTableRecords
    BY <2>1 DEF LiveIds, LiveTableRecords
  <2>d. \A n \in DOMAIN dir' : n # Head(old) /\ n \in DOMAIN dir /\ dir'[n] = dir[n]
    BY <2>1 DEF Without
  <2>2. \A n \in Stale(dir)' : n # Head(old) /\ n \in Stale(dir) /\ dir'[n] = dir[n]
    BY <2>1, <2>l, <2>d DEF Stale
  <2>3. Stale(dirDurable)' = Stale(dirDurable)
    BY <2>1, <2>l DEF Stale
  <2>4. \A i \in DOMAIN old : old[i] = Head(old) \/ \E j \in DOMAIN old' : old'[j] = old[i]
    <3> TAKE i \in DOMAIN old
    <3>1. /\ Len(old) \in Nat /\ DOMAIN old = 1..Len(old) /\ Head(old) = old[1]
          /\ DOMAIN old' = 1..(Len(old) - 1) /\ \A j \in 1..(Len(old) - 1) : old'[j] = old[j + 1]
      BY <2>1
    <3>2. CASE i # 1
      <4>1. i - 1 \in 1..(Len(old) - 1) /\ (i - 1) + 1 = i
        BY <3>1, <3>2
      <4> QED BY <3>1, <4>1
    <3> QED BY <3>1, <3>2
  <2>5. \A n \in Stale(dir)' : AboutToGo(n) => AboutToGo(n)'
    BY <2>1, <2>2, <2>4
  <2>6. \A n \in Stale(dir)' : Hidden(dir[n]) \/ AboutToGo(n)
    BY <1>h, <2>1, <2>2
  <2>7. \A n \in Stale(dir)' : Hidden(dir[n])' \/ AboutToGo(n)'
    BY <2>2, <2>5, <2>6, <2>l DEF Hidden
  <2> QED BY <1>h, <2>1, <2>3, <2>7, <2>l DEF StaleHidden, Hidden
<1>7. CASE Steady /\ ~FlushInstall /\ ~CompactSwap /\ ~UnlinkOne
  <2>1. /\ Up /\ tables' = tables /\ nextId' = nextId /\ dir' = dir /\ dirDurable' \in {dir, dirDurable}
    BY <1>7 DEF Steady
  <2>l. LiveIds' = LiveIds /\ LiveTableRecords' = LiveTableRecords
    BY <2>1 DEF LiveIds, LiveTableRecords
  <2>s. \A n : /\ n \in Stale(dir)' => n \in Stale(dir)
               /\ n \in Stale(dirDurable)' => n \in Stale(dirDurable) \/ n \in Stale(dir)
    BY <2>1, <2>l DEF Stale
  <2>2. CASE lossy' = lossy /\ old' = old /\ dirDurable' = dirDurable
    BY <1>h, <2>1, <2>2, <2>l DEF StaleHidden, Stale, Hidden
  <2>3. CASE ~lossy' /\ (~lossy \/ (dirDurable' = dir /\ old = <<>>))
    <3>1. \A n \in Stale(dir) : Hidden(dir[n])
      BY <1>h, <2>1, <2>3
    <3>2. CASE dirDurable' = dir
      BY <2>1, <2>l, <3>1, <3>2 DEF StaleHidden, Stale, Hidden
    <3>3. CASE ~lossy /\ dirDurable' = dirDurable
      BY <1>h, <2>1, <2>3, <2>l, <3>1, <3>3 DEF StaleHidden, Stale, Hidden
    <3> QED BY <2>1, <2>3, <3>2, <3>3
  <2>4. UnlinkState
    BY DEF DirPart
  <2> QED BY <1>7, <2>1, <2>2, <2>3, <2>4, LossyEnds
<1>8. Up \/ Open
  BY StartsByOpen
<1> QED BY <1>1, <1>2, <1>3, <1>5, <1>6, <1>7, <1>8, SteadySteps

(***************************************************************************)
(* The steps of what readers find.                                         *)
(***************************************************************************)
LEMMA LiveInOrderNext == IInv' /\ FilePart' => InOrder(mem', tables')
<1>1. (IInv /\ FilePart => InOrder(mem, tables))'
  BY LiveInOrder, PTL
<1> QED BY <1>1

\* Each call finds the contents it was started with.
LEMMA CallContentsStep ==
    ASSUME IInv, LogsInOrder, NumbersBelow, CallContents, Closed, [Next]_vars
    PROVE  CallContents'
<1>1. ASSUME NEW k \in Keys, NEW x \in Values \cup {Gone}, Write(k, x)
      PROVE  CallContents'
  <2> DEFINE f == [seq |-> seq, key |-> k, val |-> x]
  <2>1. /\ pc = "idle" /\ pc' = "sync" /\ wal' = Append(wal, f) /\ wal \in Seq(Frame)
        /\ doubt' = [doubt EXCEPT ![k] = @ \cup {x}] /\ f \in Frame
        /\ doubt \in [Keys -> SUBSET (Values \cup {Gone})]
    BY <1>1, LogTypes DEF Write, MayWrite, IInv, TypeOK, HistoryTypeOK, ProcessTypeOK, Frame, Record
  <2>2. Pending' = f
    <3> HIDE DEF f
    <3>1. wal' \in Seq(Frame) /\ wal'[Len(wal')] = f
      BY <2>1
    <3> QED BY <3>1 DEF Pending
  <2>3. \A r \in Held' : r \in Held
    BY <2>1, HeldSteps DEF SyncInsert, Open
  <2>4. \A r \in Held' : r.seq < seq
    BY <2>1, <2>3 DEF NumbersBelow, Held, Up
  <2>5. f.val \in doubt'[f.key] /\ f.seq = seq
    BY <2>1
  <2> QED BY <2>1, <2>2, <2>4, <2>5 DEF CallContents, Held
<1>2. CASE FlushWrite \/ CompactWrite
  <2>1. /\ pc' \in {"flushDir", "mergeDir"} /\ nextId' = nextId /\ mem' = mem /\ tables' = tables
        /\ pc' = "flushDir" => dir'[nextId] = mem
        /\ pc' = "mergeDir" => dir'[nextId] = Merge(LiveTableRecords)
    BY <1>2 DEF FlushWrite, CompactWrite, With
  <2>2. Merge(LiveTableRecords)' = Merge(LiveTableRecords)
    <3>1. LiveTableRecords' = LiveTableRecords
      BY <2>1 DEF LiveTableRecords
    <3> QED BY <3>1 DEF Merge, NewestPerKey, Tombstones
  <2> QED BY <2>1, <2>2 DEF CallContents
<1>3. CASE UNCHANGED vars
  BY <1>3 DEF CallContents, Pending, LiveTableRecords, Merge, NewestPerKey, Tombstones,
              FileRecords, RecordsOf, vars, process, disk, history
<1>4. CASE \/ Open \/ AppendFails \/ SyncInsert \/ FlushInstall \/ ResetTruncate \/ ResetSync
           \/ CompactSwap \/ UnlinkOne \/ UnlinkSync \/ IoError \/ Kill \/ PowerLoss
  BY <1>4 DEF Open, AppendFails, MayWrite, SyncInsert, FlushInstall, ResetTruncate, ResetSync,
              CompactSwap, UnlinkOne, UnlinkSync, IoError, Kill, PowerLoss, ProcessDies, CallContents
<1> QED BY <1>1, <1>2, <1>3, <1>4 DEF Next

\* What get finds changes with the write that takes effect, and with nothing else.
LEMMA ReadSteps ==
    ASSUME IInv, FilePart, IInv', FilePart', CallContents, Up, Up', [Next]_vars,
           NEW k \in Keys
    PROVE  Get(k)' = IF SyncInsert /\ k = Pending.key THEN Pending.val ELSE Get(k)
<1>0. /\ InOrder(mem, tables) /\ InOrder(mem', tables')
      /\ Get(k) = SourceGet(SourcesOf(mem, tables), k)
      /\ Get(k)' = SourceGet(SourcesOf(mem', tables'), k)
      /\ LiveTableRecords = RecordsIn(tables)
  BY LiveInOrder, LiveInOrderNext, SourcesNow, LiveRecords
<1>1. CASE SyncInsert
  <2>1. mem' = MemInsert(mem, Pending) /\ tables' = tables
    BY <1>1 DEF SyncInsert
  <2>2. CASE k = Pending.key
    <3>1. Pending \in mem'
      BY <2>1 DEF MemInsert
    <3> QED BY <1>0, <1>1, <2>2, <3>1, MemDecides
  <2>3. CASE k # Pending.key
    <3>1. \A r : r.key = k => (r \in mem' <=> r \in mem)
      BY <2>1, <2>3 DEF MemInsert
    <3>2. CASE k \in KeysOf(mem)
      <4>1. PICK r \in mem : r.key = k
        BY <3>2 DEF KeysOf
      <4>2. r \in mem'
        BY <3>1, <4>1
      <4> QED BY <1>0, <2>3, <4>1, <4>2, MemDecides
    <3>3. CASE k \notin KeysOf(mem)
      <4>1. k \notin KeysOf(mem')
        BY <3>1, <3>3 DEF KeysOf
      <4>2. CASE k \in KeysOf(RecordsIn(tables))
        <5>1. PICK r \in NewestPerKey(RecordsIn(tables)) : r.key = k
          BY <1>0, <3>3, <4>2, TablesDecide
        <5>2. SourceGet(SourcesOf(mem, tables), k) = r.val
          BY <1>0, <3>3, <5>1, TablesDecide
        <5>3. SourceGet(SourcesOf(mem', tables), k) = r.val
          BY <1>0, <2>1, <4>1, <5>1, TablesDecide
        <5> QED BY <1>0, <2>1, <2>3, <5>2, <5>3
      <4>3. CASE k \notin KeysOf(RecordsIn(tables))
        BY <1>0, <2>1, <2>3, <3>3, <4>1, <4>3, TablesDecide
      <4> QED BY <4>2, <4>3
    <3> QED BY <3>2, <3>3
  <2> QED BY <2>2, <2>3
<1>2. CASE FlushInstall
  <2>1. /\ mem' = {} /\ dir[nextId] = mem /\ pc # "sync"
        /\ tables' = <<[id |-> nextId, recs |-> mem]>> \o tables
    BY <1>2 DEF FlushInstall, MemAfterFlush, CallContents
  <2>2. RecordsIn(tables') = mem \cup RecordsIn(tables)
    <3>1. tables \in Seq(Table)
      BY DEF IInv, TypeOK, ProcessTypeOK
    <3>2. /\ Len(tables) \in Nat /\ DOMAIN tables' = 1..(Len(tables) + 1)
          /\ DOMAIN tables = 1..Len(tables)
          /\ tables'[1] = [id |-> nextId, recs |-> mem]
          /\ \A i \in 1..Len(tables) : tables'[i + 1] = tables[i]
      BY <2>1, <3>1
    <3>3. /\ 1 \in DOMAIN tables' /\ \A i \in 1..Len(tables) : i + 1 \in DOMAIN tables'
          /\ \A i \in DOMAIN tables' : i = 1 \/ \E j \in 1..Len(tables) : i = j + 1
      <4> DEFINE n == Len(tables)
      <4>1. n \in Nat
        BY <3>2
      <4> HIDE DEF n
      <4>2. /\ 1 \in 1..(n + 1) /\ \A i \in 1..n : i + 1 \in 1..(n + 1)
            /\ \A i \in 1..(n + 1) : i = 1 \/ (i - 1 \in 1..n /\ i = (i - 1) + 1)
        BY ONLY <4>1
      <4>3. \A i \in 1..(n + 1) : i = 1 \/ \E j \in 1..n : i = j + 1
        BY <4>2
      <4> QED BY <3>2, <4>2, <4>3 DEF n
    <3>4. mem \subseteq RecordsIn(tables')
      BY <3>2, <3>3 DEF RecordsIn
    <3>5. ASSUME NEW i \in DOMAIN tables PROVE tables[i].recs \subseteq RecordsIn(tables')
      BY <3>2, <3>3 DEF RecordsIn
    <3>6. ASSUME NEW i \in DOMAIN tables'
          PROVE  tables'[i].recs \subseteq mem \cup RecordsIn(tables)
      BY <3>2, <3>3 DEF RecordsIn
    <3> QED BY <3>4, <3>5, <3>6 DEF RecordsIn
  <2>3. SourceGet(SourcesOf(mem', tables'), k) = SourceGet(SourcesOf(mem, tables), k)
    <3> DEFINE s == SourcesOf(mem, tables)
               t == SourcesOf(mem', tables')
    <3>1. /\ DOMAIN s = 1..(Len(tables) + 1) /\ Len(tables) + 1 \in Nat /\ Ordered(s)
          /\ AllIn(s) = mem \cup RecordsIn(tables)
      BY <1>0, SourcesParts DEF InOrder, RecordsIn
    <3>2. /\ DOMAIN t = 1..(Len(tables') + 1) /\ Len(tables') + 1 \in Nat /\ Ordered(t)
          /\ AllIn(t) = mem' \cup RecordsIn(tables')
      BY <1>0, SourcesParts DEF InOrder, RecordsIn
    <3> HIDE DEF s, t
    <3>3. AllIn(s) = AllIn(t)
      BY <2>1, <2>2, <3>1, <3>2
    <3>4. SourceGet(t, k) = SourceGet(s, k)
      BY <3>1, <3>2, <3>3, SameReads
    <3> QED BY <3>4 DEF s, t
  <2> QED BY <1>0, <2>1, <2>3 DEF SyncInsert
<1>3. CASE CompactSwap
  <2>1. /\ mem' = mem /\ dir[nextId] = Merge(LiveTableRecords) /\ pc # "sync"
        /\ tables' = <<[id |-> nextId, recs |-> dir[nextId]]>>
    BY <1>3 DEF CompactSwap, CallContents
  <2>2. RecordsIn(tables') = Merge(RecordsIn(tables))
    <3>1. DOMAIN tables' = {1} /\ tables'[1].recs = dir[nextId]
      BY <2>1
    <3> QED BY <1>0, <2>1, <3>1 DEF RecordsIn
  <2>3. SourceGet(SourcesOf(mem, tables'), k) = SourceGet(SourcesOf(mem, tables), k)
    BY <1>0, <2>1, <2>2, MergeReads
  <2> QED BY <1>0, <2>1, <2>3 DEF SyncInsert
<1>4. ASSUME mem' = mem, tables' = tables, ~SyncInsert
      PROVE  Get(k)' = IF SyncInsert /\ k = Pending.key THEN Pending.val ELSE Get(k)
  BY <1>0, <1>4
<1>5. CASE FlushWrite \/ CompactWrite \/ UnlinkOne \/ UnlinkSync \/ AppendFails \/ IoError
  <2>1. mem' = mem /\ tables' = tables
    BY <1>5 DEF FlushWrite, CompactWrite, UnlinkOne, UnlinkSync, AppendFails, IoError
  <2> QED BY <1>1, <1>4, <2>1
<1>6. CASE ResetTruncate \/ ResetSync \/ UNCHANGED vars
           \/ \E j \in Keys, x \in Values \cup {Gone} : Write(j, x)
  <2>1. mem' = mem /\ tables' = tables
    BY <1>6 DEF ResetTruncate, ResetSync, Write, vars, process
  <2> QED BY <1>1, <1>4, <2>1
<1>7. ~Open /\ ~Kill /\ ~PowerLoss
  BY DEF Open, Kill, PowerLoss, ProcessDies, Up
<1> QED BY <1>1, <1>2, <1>3, <1>5, <1>6, <1>7 DEF Next

\* What is left of the directory when the process stops: for a key that is not sure
\* to come back from the log it reads as the live tables did.
LEMMA FilesAfterStop ==
    ASSUME IInv, LogPart, FilePart, DirPart, AcknowledgedSurvive, Up, ~lossy, NEW d,
           \A i \in DOMAIN d : \/ i \in DOMAIN dir /\ d[i] = dir[i]
                               \/ i \in DOMAIN dirDurable /\ d[i] = dirDurable[i],
           \A i \in DOMAIN tables : tables[i].id \in DOMAIN d,
           NEW k \in Keys, ~Covered(wal, walDurable, k)
    PROVE  FilesAllowed(d, k)
<1> DEFINE Live == RecordsIn(tables)
           All == RecordsOf(d)
<1>0. /\ InOrder(mem, tables) /\ Get(k) = SourceGet(SourcesOf(mem, tables), k)
      /\ LiveTableRecords = Live /\ Get(k) \in Allowed(k)
      /\ \A r \in Live : r.seq \in Nat
  <2>1. InOrder(mem, tables)
    BY LiveInOrder
  <2>2. \A r \in Live : r.seq \in Nat
    BY <2>1, NewestIsMap DEF Record
  <2> QED BY <2>1, <2>2, SourcesNow, LiveRecords DEF AcknowledgedSurvive, Allowed
<1>1. k \notin KeysOf(mem)
  BY DEF LogPart, MemCovered, KeysOf
<1>2. \A i \in DOMAIN tables : d[tables[i].id] = tables[i].recs
  BY DEF IInv, LiveTablesOnDisk, DirPart, LiveDurable
<1>3. Live \subseteq All
  BY <1>2 DEF RecordsIn, RecordsOf
<1>4. ASSUME NEW i \in DOMAIN d, i \in LiveIds PROVE d[i] \subseteq Live
  BY <1>2, <1>4 DEF LiveIds, RecordsIn
<1>5. ASSUME NEW i \in DOMAIN d, NEW r \in d[i], r.key = k
      PROVE  \/ r \in Live
             \/ \E q \in Live : q.key = k /\ r.seq <= q.seq /\ (r.seq = q.seq => r = q)
  <2>0. i \in DOMAIN dir \cup DOMAIN dirDurable /\ i <= nextId /\ i \in Nat /\ nextId \in Nat
    BY LiveIdsBelow DEF DirPart, IdsKnown, IInv, TypeOK, DiskTypeOK, Files
  <2>1. CASE i \in LiveIds
    BY <1>4, <1>5, <2>1
  <2>2. CASE i = nextId
    <3>1. r \in NewestPerKey(LiveTableRecords)
      BY <1>5, <2>2 DEF DirPart, Unfinished
    <3> QED BY <1>0, <3>1, LiveRecords
  <2>3. CASE i < nextId /\ i \notin LiveIds
    <3>1. k \in KeysOf(LiveTableRecords)
      BY <1>5, <2>0, <2>3 DEF DirPart, StaleHidden, Stale, Hidden, KeysOf
    <3>2. PICK q \in Live : q.key = k
      BY <1>0, <3>1 DEF KeysOf
    <3>3. PICK n \in DOMAIN tables : q \in dir[tables[n].id] /\ tables[n].id \in DOMAIN dir
      BY <3>2 DEF RecordsIn, IInv, LiveTablesOnDisk
    <3>4. i < tables[n].id
      BY <2>0, <2>3 DEF DirPart, StaleBelow, Stale, LiveIds
    <3>5. Above(q, r)
      BY <1>5, <3>3, <3>4 DEF FilePart, FilesInOrder
    <3> QED BY <1>5, <3>2, <3>5 DEF Above
  <2> QED BY <2>0, <2>1, <2>2, <2>3
<1>6. ASSUME NEW r \in All, r.key = k
      PROVE  \E q \in Live : q.key = k /\ r.seq <= q.seq /\ (r.seq = q.seq => r = q)
  <2>1. PICK i \in DOMAIN d : r \in d[i]
    BY <1>6 DEF RecordsOf
  <2>2. CASE r \in Live
    <3>1. r.seq <= r.seq
      BY <1>0, <2>2
    <3> QED BY <1>6, <2>2, <3>1
  <2> QED BY <1>5, <1>6, <2>1, <2>2
<1>7. ASSUME NEW r \in NewestPerKey(All), r.key = k PROVE r.val = Get(k)
  <2>1. r \in All /\ \A q \in All : q.key = k => q.seq <= r.seq
    BY <1>7 DEF NewestPerKey
  <2>2. PICK q \in Live : q.key = k /\ r.seq <= q.seq /\ (r.seq = q.seq => r = q)
    BY <1>6, <1>7, <2>1
  <2>3. q.seq <= r.seq
    BY <1>3, <2>1, <2>2
  <2>4. r \in Record
    BY <2>1 DEF IInv, TypeOK, DiskTypeOK, Files, RecordsOf
  <2>5. r.seq \in Nat /\ q.seq \in Nat
    BY <1>0, <2>4 DEF Record
  <2>6. r = q
    BY <2>2, <2>3, <2>5
  <2>7. r \in NewestPerKey(Live)
    BY <1>3, <1>7, <2>1, <2>2, <2>6 DEF NewestPerKey
  <2> QED BY <1>0, <1>1, <1>7, <2>7, TablesDecide
<1>8. ASSUME k \notin KeysOf(All) PROVE Gone \in Allowed(k)
  <2>1. k \notin KeysOf(Live)
    BY <1>3, <1>8 DEF KeysOf
  <2> QED BY <1>0, <1>1, <2>1, TablesDecide
<1> QED BY <1>0, <1>7, <1>8 DEF FilesAllowed

\* The store that a kill or a power loss leaves gives its readers what they may find.
LEMMA ClosedStep ==
    ASSUME IInv, LogPart, FilePart, DirPart, AcknowledgedSurvive, Closed, Exposed = {}, [Next]_vars
    PROVE  Closed'
<1> SUFFICES ASSUME ~Up' PROVE Closed'
  BY DEF Closed
<1>1. CASE Kill \/ PowerLoss
  <2>1. /\ Up /\ ~lossy /\ settled' = settled /\ doubt' = doubt
        /\ wal' = walDurable' /\ dir' = dirDurable' /\ pc' = "down" /\ pc # "down"
    BY <1>1 DEF Kill, PowerLoss, ProcessDies, MayCut, history, Up, IInv, TypeOK, ProcessTypeOK
  <2>2. /\ \A i \in DOMAIN dir' : \/ i \in DOMAIN dir /\ dir'[i] = dir[i]
                                  \/ i \in DOMAIN dirDurable /\ dir'[i] = dirDurable[i]
        /\ \A i \in DOMAIN tables : tables[i].id \in DOMAIN dir'
    <3>1. \A i \in DOMAIN tables : tables[i].id \in DOMAIN dir /\ tables[i].id \in DOMAIN dirDurable
      BY <2>1 DEF IInv, LiveTablesOnDisk, DirPart, LiveDurable
    <3>2. CASE dir' = dir
      BY <3>1, <3>2
    <3>3. CASE dir' \in DirsAfterPowerLoss
      <4>1. PICK new \in SUBSET (DOMAIN dir \cup DOMAIN dirDurable) :
               dir' = [i \in (DOMAIN dir \cap new) \cup (DOMAIN dirDurable \ new) |->
                         IF i \in new THEN dir[i] ELSE dirDurable[i]]
        BY <3>3 DEF DirsAfterPowerLoss
      <4> QED BY <3>1, <4>1
    <3> QED BY <1>1, <3>2, <3>3 DEF Kill, PowerLoss
  <2>3. ASSUME NEW k \in Keys, k \notin KeysOf(Replay(wal'))
        PROVE  /\ \A r \in NewestPerKey(RecordsOf(dir')) : r.key = k => r.val \in Allowed(k)'
               /\ k \notin KeysOf(RecordsOf(dir')) => Gone \in Allowed(k)'
    <3>1. ~Covered(wal, walDurable, k)
      BY <2>1, <2>3, LogSteps DEF LogPart
    <3>2. FilesAllowed(dir', k)
      BY <2>1, <2>2, <3>1, FilesAfterStop
    <3> QED BY <2>1, <3>2 DEF FilesAllowed, Allowed
  <2> QED BY <2>1, <2>3 DEF Closed, FilesAllowed
<1>2. CASE UNCHANGED vars
  BY <1>2 DEF Closed, Up, FilesAllowed, Allowed, vars, process, disk, history
<1>3. CASE \/ AppendFails \/ SyncInsert \/ FlushWrite \/ FlushInstall \/ ResetTruncate \/ ResetSync
           \/ \E k \in Keys, x \in Values \cup {Gone} : Write(k, x)
  BY <1>3 DEF AppendFails, MayWrite, SyncInsert, FlushWrite, FlushInstall, ResetTruncate,
              ResetSync, Write, Up
<1>4. CASE Open \/ CompactWrite \/ CompactSwap \/ UnlinkOne \/ UnlinkSync \/ IoError
  BY <1>4 DEF Open, CompactWrite, CompactSwap, UnlinkOne, UnlinkSync, IoError, Up
<1> QED BY <1>1, <1>2, <1>3, <1>4 DEF Next

\* What readers find stays what they may find.
LEMMA SurviveStep ==
    ASSUME IInv, FilePart, IInv', FilePart', LogPart, LogAllowed', CallContents, Closed,
           AcknowledgedSurvive, Exposed = {}, [Next]_vars
    PROVE  AcknowledgedSurvive'
<1> SUFFICES ASSUME Up', NEW k \in Keys PROVE Get(k)' \in Allowed(k)'
  BY DEF AcknowledgedSurvive, Allowed
<1>0. doubt \in [Keys -> SUBSET (Values \cup {Gone})] /\ settled \in [Keys -> Values \cup {Gone}]
  BY DEF IInv, TypeOK, HistoryTypeOK
<1>1. CASE Open
  <2>1. /\ pc = "down" /\ mem' = Replay(wal) /\ settled' = settled /\ doubt' = doubt
        /\ wal' = wal /\ walDurable' = walDurable
    BY <1>1 DEF Open, disk, history
  <2>2. /\ InOrder(mem', tables') /\ RecordsIn(tables') = RecordsOf(dir)
        /\ Get(k)' = SourceGet(SourcesOf(mem', tables'), k)
    BY <1>1, LiveInOrderNext, SourcesNow, OpenLoads
  <2>3. CASE k \in KeysOf(mem')
    <3>1. PICK r \in mem' : r.key = k
      BY <2>3 DEF KeysOf
    <3>2. r \in Surfacing
      BY <2>1, <3>1, ClosedLog DEF LogPart
    <3> QED BY <2>1, <2>2, <3>1, <3>2, MemDecides DEF LogPart, LogAllowed, Allowed
  <2>4. CASE k \notin KeysOf(mem')
    <3>1. FilesAllowed(dir, k)
      BY <2>1, <2>4 DEF Closed, Up
    <3>2. CASE k \notin KeysOf(RecordsOf(dir))
      BY <2>1, <2>2, <2>4, <3>1, <3>2, TablesDecide DEF FilesAllowed, Allowed
    <3>3. CASE k \in KeysOf(RecordsOf(dir))
      <4>1. PICK r \in NewestPerKey(RecordsOf(dir)) : r.key = k
        BY <2>2, <2>4, <3>3, TablesDecide
      <4>2. Get(k)' = r.val
        BY <2>2, <2>4, <4>1, TablesDecide
      <4> QED BY <2>1, <3>1, <4>1, <4>2 DEF FilesAllowed, Allowed
    <3> QED BY <3>2, <3>3
  <2> QED BY <2>3, <2>4
<1>2. CASE Up
  <2>1. Get(k)' = IF SyncInsert /\ k = Pending.key THEN Pending.val ELSE Get(k)
    BY <1>2, ReadSteps
  <2>2. Get(k) \in Allowed(k)
    BY <1>2 DEF AcknowledgedSurvive, Allowed
  <2>3. CASE SyncInsert
    <3>1. /\ settled' = [settled EXCEPT ![Pending.key] = Pending.val]
          /\ doubt' = [doubt EXCEPT ![Pending.key] = {}]
      BY <2>3 DEF SyncInsert
    <3> QED BY <1>0, <2>1, <2>2, <2>3, <3>1 DEF Allowed
  <2>4. ASSUME NEW j \in Keys, NEW x \in Values \cup {Gone}, Write(j, x)
        PROVE  Get(k)' \in Allowed(k)'
    <3>1. /\ settled' = settled /\ doubt' = [doubt EXCEPT ![j] = @ \cup {x}]
          /\ ~SyncInsert
      BY <2>4 DEF Write, MayWrite, SyncInsert
    <3> QED BY <1>0, <2>1, <2>2, <3>1 DEF Allowed
  <2>5. ASSUME settled' = settled, doubt' = doubt, ~SyncInsert PROVE Get(k)' \in Allowed(k)'
    BY <2>1, <2>2, <2>5 DEF Allowed
  <2>6. CASE FlushWrite \/ FlushInstall \/ ResetTruncate \/ ResetSync \/ CompactWrite \/ CompactSwap
    <3>1. settled' = settled /\ doubt' = doubt
      BY <2>6 DEF FlushWrite, FlushInstall, ResetTruncate, ResetSync, CompactWrite, CompactSwap,
                  history
    <3> QED BY <2>3, <2>5, <3>1
  <2>7. CASE Open \/ AppendFails \/ UnlinkOne \/ UnlinkSync \/ IoError \/ Kill \/ PowerLoss
             \/ UNCHANGED vars
    <3>1. settled' = settled /\ doubt' = doubt
      BY <2>7 DEF Open, AppendFails, UnlinkOne, UnlinkSync, IoError, Kill, PowerLoss, ProcessDies,
                  vars, history
    <3> QED BY <2>3, <2>5, <3>1
  <2> QED BY <2>3, <2>4, <2>6, <2>7 DEF Next
<1>3. Up \/ Open
  <2>1. CASE ~Up
    <3>1. pc = "down" /\ pc' # "down"
      BY <2>1 DEF Up
    <3>2. ~UNCHANGED vars
      BY <3>1 DEF vars, process
    <3>3. \A j, x : ~Write(j, x)
      BY <3>1 DEF Write, MayWrite
    <3> QED BY <3>1, <3>2, <3>3
            DEF Next, AppendFails, MayWrite, SyncInsert, FlushWrite, FlushInstall, ResetTruncate,
                ResetSync, CompactWrite, CompactSwap, UnlinkOne, UnlinkSync, IoError, Kill,
                PowerLoss, ProcessDies
  <2> QED BY <2>1
<1> QED BY <1>1, <1>2, <1>3

(***************************************************************************)
(* The invariant holds in every state.                                     *)
(***************************************************************************)
LEMMA InitDurable == Init => Durable
<1> SUFFICES ASSUME Init PROVE Durable
  OBVIOUS
<1>1. IInv
  BY InitInvariant
<1>2. /\ pc = "down" /\ mem = {} /\ wal = <<>> /\ walDurable = <<>>
      /\ DOMAIN dir = {} /\ DOMAIN dirDurable = {} /\ dir = dirDurable
      /\ settled = [k \in Keys |-> Gone]
  BY DEF Init, NoFiles
<1>3. Surfacing = {} /\ RecordsOf(dir) = {} /\ FileRecords = {} /\ LogInOrder(<<>>)
  BY <1>2, LogEmpty DEF Surfacing, RecordsOf, FileRecords
<1>4. LogPart
  BY <1>2, <1>3 DEF LogPart, LogsInOrder, NumbersBelow, LogAbove, LogAllowed, MemCovered, Up
<1>5. FilePart
  BY <1>2 DEF FilePart, FilesInOrder, FileMaps, MemAbove
<1>6. DirPart /\ CallContents /\ AcknowledgedSurvive
  BY <1>2 DEF Init, DirPart, LiveDurable, IdsKnown, Unfinished, StaleBelow, StaleHidden, UnlinkState,
              MergeHides, Up, CallContents, AcknowledgedSurvive
<1>7. Closed
  BY <1>2, <1>3 DEF Closed, FilesAllowed, NewestPerKey, Allowed
<1> QED BY <1>1, <1>4, <1>5, <1>6, <1>7 DEF Durable

LEMMA DurableStep ==
    ASSUME Exposed = {}, Durable, [Next]_vars
    PROVE  Durable'
<1>1. /\ IInv /\ LogPart /\ FilePart /\ DirPart /\ CallContents /\ Closed /\ AcknowledgedSurvive
      /\ LogsInOrder /\ NumbersBelow /\ LogAbove /\ LogAllowed /\ MemCovered /\ LiveDurable
      /\ UnlinkState /\ MergeHides
  BY DEF Durable, LogPart, DirPart
<1>2. IInv'
  BY <1>1, HistoryTypeStep, ProcessTypeStep, DiskTypeStep, LoggedStep, LiveTablesStep, CallStateStep
     DEF IInv, TypeOK
<1>3. LogPart'
  BY <1>1, LogSteps, NumbersStep, LogAboveStep, LogAllowedStep, MemCoveredStep DEF LogPart
<1>4. FilePart'
  BY <1>1, FilesInOrderStep, FileMapsStep, MemAboveStep DEF FilePart
<1>5. DirPart'
  BY <1>1, LiveDurableStep, IdsKnownStep, UnfinishedStep, StaleBelowStep, StaleHiddenStep,
     UnlinkStateStep, MergeHidesStep DEF DirPart
<1>6. CallContents' /\ Closed'
  BY <1>1, CallContentsStep, ClosedStep
<1>7. AcknowledgedSurvive'
  BY <1>1, <1>2, <1>3, <1>4, SurviveStep DEF LogPart
<1> QED BY <1>2, <1>3, <1>4, <1>5, <1>6, <1>7 DEF Durable

LEMMA AlwaysDurable ==
    ASSUME Exposed = {}
    PROVE  Spec => []Durable
<1>1. Durable /\ [Next]_vars => Durable'
  BY DurableStep
<1> QED BY InitDurable, <1>1, PTL DEF Spec

(***************************************************************************)
(* The theorems.                                                           *)
(***************************************************************************)

\* Outside the four situations that Exposed names, failing unlinks and the files they
\* leave included: after any kills, power losses, restarts and failing calls a reader finds the last write of each key that took effect, or a later one of it
\* that was begun and not finished.
THEOREM WritesSurvive ==
    ASSUME Exposed = {}
    PROVE  Spec => []AcknowledgedSurvive
<1>1. Durable => AcknowledgedSurvive
  BY DEF Durable
<1> QED BY <1>1, AlwaysDurable, PTL

\* get, which goes by the order of its sources, and scan, which goes by sequence
\* number, agree on every key.
THEOREM ReadsAgree ==
    ASSUME Exposed = {}
    PROVE  Spec => []ReadPathsAgree
<1>1. Durable => ReadPathsAgree
  <2> SUFFICES ASSUME Durable, NEW k \in Keys PROVE Get(k) = Scan(k)
    BY DEF ReadPathsAgree
  <2> DEFINE s == SourcesOf(mem, tables)
             best == {r \in NewestPerKey(AllIn(s)) : r.key = k}
  <2>1. /\ DOMAIN s = 1..(Len(tables) + 1) /\ Len(tables) + 1 \in Nat /\ Ordered(s)
        /\ AllIn(s) = mem \cup LiveTableRecords
    <3>1. InOrder(mem, tables)
      BY LiveInOrder DEF Durable
    <3> QED BY <3>1, SourcesParts DEF InOrder, LiveTableRecords
  <2>2. Get(k) = SourceGet(s, k)
    BY SourcesNow
  <2>3. Scan(k) = IF best = {} THEN Gone ELSE (CHOOSE r \in best : TRUE).val
    BY <2>1 DEF Scan
  <2> HIDE DEF s
  <2>4. CASE best = {}
    <3>1. k \notin KeysOf(AllIn(s))
      BY <2>1, <2>4, FirstHit
    <3>2. SourceGet(s, k) = Gone
      BY <2>1, <3>1, FirstHit
    <3> QED BY <2>2, <2>3, <2>4, <3>2
  <2>5. CASE best # {}
    <3> DEFINE r0 == CHOOSE r \in best : TRUE
    <3>1. r0 \in best
      BY <2>5
    <3>2. Scan(k) = r0.val
      BY <2>3, <2>5
    <3> HIDE DEF r0
    <3>3. SourceGet(s, k) = r0.val
      BY <2>1, <3>1, FirstHit
    <3> QED BY <2>2, <3>2, <3>3
  <2> QED BY <2>4, <2>5
<1> QED BY <1>1, AlwaysDurable, PTL

\* A sequence number identifies a write of a key among the live records, and the next
\* number is above all of them.
THEOREM NumbersIdentify ==
    ASSUME Exposed = {}
    PROVE  Spec => []SeqIdentifiesWrite
<1>1. Durable => SeqIdentifiesWrite
  <2> SUFFICES ASSUME Durable, Up
               PROVE  /\ \A r, q \in mem \cup LiveTableRecords :
                            r.key = q.key /\ r.seq = q.seq => r = q
                      /\ \A r \in mem \cup LiveTableRecords : r.seq < seq
    BY DEF SeqIdentifiesWrite
  <2> DEFINE s == SourcesOf(mem, tables)
  <2>1. /\ DOMAIN s = 1..(Len(tables) + 1) /\ Len(tables) + 1 \in Nat /\ Ordered(s)
        /\ AllIn(s) = mem \cup LiveTableRecords
    <3>1. InOrder(mem, tables)
      BY LiveInOrder DEF Durable
    <3> QED BY <3>1, SourcesParts DEF InOrder, LiveTableRecords
  <2> HIDE DEF s
  <2>2. \A r, q \in AllIn(s) : r.key = q.key /\ r.seq = q.seq => r = q
    BY <2>1, Identified
  <2>3. \A r \in mem \cup LiveTableRecords : r \in mem \cup FileRecords
    BY LiveRecords DEF Durable, FileRecords
  <2> QED BY <2>1, <2>2, <2>3 DEF Durable, LogPart, NumbersBelow
<1> QED BY <1>1, AlwaysDurable, PTL

(***************************************************************************)
(* The engine implements the durable map of KvStore: a write begins when   *)
(* it reaches the log and takes effect when its fsync has returned; a stop *)
(* and a restart are those of the map; whatever a flush, a compaction, a   *)
(* failing call or an unlink does changes nothing that a reader finds.     *)
(***************************************************************************)
View == IF Up THEN [k \in Keys |-> Get(k)] ELSE [k \in Keys |-> Gone]

LEMMA MapInit == Init => Promised!Init
BY DEF Init, Promised!Init, Up

LEMMA MapStep ==
    ASSUME Exposed = {}, Durable, Durable', [Next]_vars
    PROVE  [Promised!Next]_Promised!vars
<1> DEFINE Quiet == Up' = Up /\ View' = View /\ settled' = settled /\ doubt' = doubt
<1>0. /\ IInv /\ FilePart /\ IInv' /\ FilePart' /\ CallContents /\ LogsInOrder
      /\ doubt \in [Keys -> SUBSET (Values \cup {Gone})] /\ settled \in [Keys -> Values \cup {Gone}]
  BY DEF Durable, LogPart, IInv, TypeOK, HistoryTypeOK
<1>q. ASSUME Quiet PROVE UNCHANGED Promised!vars
  BY <1>q DEF Promised!vars, View
<1>v. ASSUME Up, Up', ~SyncInsert PROVE View' = View
  <2>1. \A k \in Keys : Get(k)' = Get(k)
    BY <1>0, <1>v, ReadSteps
  <2> QED BY <1>v, <2>1 DEF View
<1>1. ASSUME NEW k \in Keys, NEW x \in Values \cup {Gone}, Write(k, x)
      PROVE  Promised!Attempt(k, x)
  <2>1. /\ Up /\ Up' /\ ~SyncInsert /\ settled' = settled
        /\ doubt' = [doubt EXCEPT ![k] = @ \cup {x}]
    BY <1>1 DEF Write, MayWrite, SyncInsert, Up
  <2> QED BY <1>v, <2>1 DEF Promised!Attempt, View
<1>2. CASE SyncInsert
  <2>1. /\ Up /\ Up' /\ pc = "sync"
        /\ settled' = [settled EXCEPT ![Pending.key] = Pending.val]
        /\ doubt' = [doubt EXCEPT ![Pending.key] = {}]
    BY <1>2 DEF SyncInsert, Up
  <2>2. /\ Pending.key \in Keys /\ Pending.val \in Values \cup {Gone}
        /\ Pending.val \in doubt[Pending.key]
    BY <1>0, <2>1, PendingSurfaces DEF CallContents, Record
  <2>3. \A k \in Keys : Get(k)' = IF k = Pending.key THEN Pending.val ELSE Get(k)
    BY <1>0, <1>2, <2>1, ReadSteps
  <2>4. View' = [View EXCEPT ![Pending.key] = Pending.val]
    BY <2>1, <2>2, <2>3 DEF View
  <2>5. Promised!Commit(Pending.key, Pending.val)
    BY <2>1, <2>2, <2>4 DEF Promised!Commit, View
  <2> QED BY <2>2, <2>5 DEF Promised!Next
<1>3. CASE Open
  <2>1. ~Up /\ Up' /\ settled' = settled /\ doubt' = doubt
    BY <1>3 DEF Open, Up, history
  <2>2. \A k \in Keys : Get(k)' \in Allowed(k)
    BY <2>1 DEF Durable, AcknowledgedSurvive, Allowed
  <2>3. \A k \in Keys : Get(k)' \in Values \cup {Gone}
    BY <1>0, <2>2 DEF Allowed
  <2>4. View' = [k \in Keys |-> Get(k)']
    BY <2>1 DEF View
  <2>5. View' \in [Keys -> Values \cup {Gone}] /\ \A k \in Keys : View'[k] \in {settled[k]} \cup doubt[k]
    BY <2>2, <2>3, <2>4 DEF Allowed
  <2>6. Promised!Start
    BY <2>1, <2>5 DEF Promised!Start, Promised!Recoverable, Promised!Contents, View
  <2> QED BY <2>6 DEF Promised!Next
<1>4. CASE Kill \/ PowerLoss
  <2>1. Up /\ ~Up' /\ settled' = settled /\ doubt' = doubt
    BY <1>4 DEF Kill, PowerLoss, ProcessDies, Up, history
  <2>2. Promised!Stop
    BY <2>1 DEF Promised!Stop
  <2> QED BY <2>2 DEF Promised!Next
<1>5. CASE FlushWrite \/ FlushInstall \/ ResetTruncate \/ ResetSync \/ CompactWrite \/ CompactSwap
  <2>1. /\ Up /\ Up' /\ pc # "sync" /\ settled' = settled /\ doubt' = doubt
    BY <1>5 DEF FlushWrite, FlushInstall, ResetTruncate, ResetSync, CompactWrite, CompactSwap,
                Up, history
  <2> QED BY <1>q, <1>v, <2>1 DEF SyncInsert
<1>6. CASE AppendFails \/ UnlinkOne \/ UnlinkSync \/ (IoError /\ ~SyncInsert)
  <2>1. /\ Up /\ Up' /\ ~SyncInsert /\ settled' = settled /\ doubt' = doubt
    BY <1>6 DEF AppendFails, MayWrite, UnlinkOne, UnlinkSync, IoError, SyncInsert, Up, history
  <2> QED BY <1>q, <1>v, <2>1
<1>7. CASE UNCHANGED vars
  <2>1. Quiet
    <3>1. /\ Up' = Up /\ settled' = settled /\ doubt' = doubt /\ mem' = mem /\ tables' = tables
      BY <1>7 DEF vars, process, history, Up
    <3>2. \A k \in Keys : Get(k)' = Get(k)
      BY <3>1, SourcesNow
    <3> QED BY <3>1, <3>2 DEF View
  <2> QED BY <1>q, <2>1
<1>8. \A k \in Keys, x \in Values \cup {Gone} : Promised!Attempt(k, x) => Promised!Next
  BY DEF Promised!Next
<1> QED BY <1>1, <1>2, <1>3, <1>4, <1>5, <1>6, <1>7, <1>8 DEF Next

\* Outside the four situations that Exposed names, the store is a durable map, for every
\* number of keys, values, writes, tables and failures: the refinement a run checks.
THEOREM StoreIsDurableMap ==
    ASSUME Exposed = {}
    PROVE  Spec => ImplementsKvStore
<1>1. Durable /\ Durable' /\ [Next]_vars => [Promised!Next]_Promised!vars
  BY MapStep
<1> QED BY MapInit, <1>1, AlwaysDurable, PTL DEF Spec, ImplementsKvStore, Promised!Spec

=============================================================================
