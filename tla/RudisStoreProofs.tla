--------------------------- MODULE RudisStoreProofs ---------------------------
(***************************************************************************)
(* Theorems about the keyspace of rudis, for any keys, values, deadlines   *)
(* and any number of commands, saves, kills and restarts.                  *)
(***************************************************************************)
EXTENDS RudisStore, TLAPS

(***************************************************************************)
(* What is left of a keyspace at an instant.                               *)
(***************************************************************************)
DeadAt(e, t) == e.exp # Never /\ t >= e.exp
AliveAt(m, t) == [k \in {j \in DOMAIN m : ~DeadAt(m[j], t)} |-> m[k]]

\* The store, now and after a step, and the map it implements.
LEMMA LeftNow ==
    ASSUME NEW m
    PROVE  Unexpired(m) = AliveAt(m, now)
  BY DEF Unexpired, IsExpired, AliveAt, DeadAt

LEMMA LeftOfMap ==
    /\ Unexpired(map) = AliveAt(map, now)
    /\ Unexpired(map)' = AliveAt(map', now')
    /\ Unexpired(Loaded(saved)) = AliveAt(Loaded(saved), now)
    /\ Unexpired(Loaded(saved))' = AliveAt(Loaded(saved'), now')
  BY DEF Unexpired, IsExpired, AliveAt, DeadAt, Loaded, FromFile

LEMMA LeftOfPromised ==
    ASSUME NEW m, Keyed(m, Entry), NEW t \in Nat
    PROVE  AliveAt(m, t) = Promised!UnexpiredAt(m, t)
  <1>1. \A j \in DOMAIN m : ~DeadAt(m[j], t) <=> m[j].exp = Never \/ t < m[j].exp
    BY StoreNamesAssumption DEF Keyed, Entry, DeadAt
  <1> QED BY <1>1 DEF AliveAt, Promised!UnexpiredAt

LEMMA LeftIsKeyed ==
    ASSUME NEW m, NEW R, Keyed(m, R), NEW t
    PROVE  Keyed(AliveAt(m, t), R)
  BY DEF Keyed, AliveAt

\* Time takes entries away and brings none back.
LEMMA LeftLater ==
    ASSUME NEW m, Keyed(m, Entry), NEW t \in Nat, NEW u \in Nat, t <= u
    PROVE  AliveAt(AliveAt(m, t), u) = AliveAt(m, u)
  <1>1. \A j \in DOMAIN m : DeadAt(m[j], t) => DeadAt(m[j], u)
    BY DEF Keyed, Entry, DeadAt
  <1> QED BY <1>1 DEF AliveAt

LEMMA LeftOfRemove ==
    ASSUME NEW m, NEW k, NEW t
    PROVE  /\ AliveAt(Remove(m, k), t) = Remove(AliveAt(m, t), k)
           /\ k \notin DOMAIN AliveAt(m, t) => AliveAt(Remove(m, k), t) = AliveAt(m, t)
  BY DEF AliveAt, Remove

LEMMA LeftOfInsert ==
    ASSUME NEW m, NEW k, NEW v, NEW e, NEW t
    PROVE  AliveAt(Insert(m, k, v, e), t) = AliveAt(Insert(AliveAt(m, t), k, v, e), t)
  BY DEF AliveAt, Insert

\* An entry that lives on is still there.
LEMMA LeftOfLiveInsert ==
    ASSUME NEW m, NEW k, NEW v, NEW e, NEW t, ~DeadAt([val |-> v, exp |-> e], t)
    PROVE  AliveAt(Insert(m, k, v, e), t) = Insert(AliveAt(m, t), k, v, e)
  BY DEF AliveAt, Insert

\* A snapshot read back is what lived when it was taken.
LEMMA ReadBack ==
    ASSUME Keyed(map, Entry), now \in Nat
    PROVE  Keyed(Snapshot, FileEntry) /\ Loaded(Snapshot) = AliveAt(map, now)
  <1>1. \A k \in Live : /\ k \in DOMAIN map /\ map[k] \in Entry /\ map[k].exp # 0
                        /\ AliveAt(map, now)[k] = map[k]
    <2> SUFFICES ASSUME NEW k \in Live
                 PROVE  /\ k \in DOMAIN map /\ map[k] \in Entry /\ map[k].exp # 0
                        /\ AliveAt(map, now)[k] = map[k]
      OBVIOUS
    <2>1. k \in DOMAIN map /\ ~DeadAt(map[k], now)
      BY DEF Live, Unexpired, IsExpired, DeadAt
    <2>2. map[k] \in Entry
      BY <2>1 DEF Keyed
    <2>3. map[k].exp = Never \/ now < map[k].exp
      BY <2>1, <2>2 DEF DeadAt, Entry
    <2>4. map[k].exp # 0
      BY <2>3, StoreNamesAssumption
    <2> QED BY <2>1, <2>2, <2>4 DEF AliveAt
  <1>2. Live = DOMAIN AliveAt(map, now)
    BY DEF Live, Unexpired, IsExpired, AliveAt, DeadAt
  <1>3. \A k \in Live : /\ FromFile(ToFile(map[k].exp)) = map[k].exp
                        /\ ToFile(map[k].exp) \in Nat
    BY <1>1, StoreNamesAssumption DEF FromFile, ToFile, Entry
  <1>4. \A k \in Live : map[k] = [val |-> map[k].val, exp |-> map[k].exp] /\ map[k].val \in Values
    BY <1>1 DEF Entry
  <1>5. Keyed(Snapshot, FileEntry)
    BY <1>1, <1>3, <1>4 DEF Keyed, Snapshot, FileEntry
  <1>6. Loaded(Snapshot) = [k \in Live |-> map[k]]
    BY <1>3, <1>4 DEF Loaded, Snapshot
  <1>7. AliveAt(map, now) = [k \in Live |-> map[k]]
    BY <1>1, <1>2 DEF AliveAt
  <1> QED BY <1>5, <1>6, <1>7

LEMMA LoadedIsKeyed ==
    ASSUME NEW m, Keyed(m, FileEntry)
    PROVE  Keyed(Loaded(m), Entry)
  BY StoreNamesAssumption DEF Keyed, Loaded, FileEntry, Entry, FromFile

(***************************************************************************)
(* Types, whatever the code is exposed to.                                 *)
(***************************************************************************)
LEMMA KeyedRemove ==
    ASSUME NEW m, NEW R, Keyed(m, R), NEW k
    PROVE  Keyed(Remove(m, k), R)
  BY DEF Keyed, Remove

LEMMA KeyedInsert ==
    ASSUME NEW m, Keyed(m, Entry), NEW k \in Keys, NEW v \in Values, NEW e \in Nat \cup {Never}
    PROVE  Keyed(Insert(m, k, v, e), Entry)
  <1>1. [val |-> v, exp |-> e] \in Entry
    BY DEF Entry
  <1> QED BY <1>1 DEF Keyed, Insert

LEMMA KeyedNothing ==
    ASSUME NEW R
    PROVE  Keyed(Nothing, R)
  BY DEF Keyed, Nothing

LEMMA KeyedTouched ==
    ASSUME Keyed(map, Entry), NEW k
    PROVE  Keyed(Touched(k), Entry)
  BY KeyedRemove DEF Touched

LEMMA Successor ==
    ASSUME NEW n \in Numbers \ {MaxInt}
    PROVE  n + 1 \in Values
  BY StoreNumbersAssumption DEF Values, Numbers, MinInt

\* The deadline EXPIRE computes is an instant.
LEMMA SpanNat ==
    ASSUME NEW s \in Spans, now \in Nat
    PROVE  now + s * Second \in Nat
  <1>1. s \in Nat /\ Second \in Nat
    BY StoreNumbersAssumption
  <1>2. s * Second \in Nat
    BY <1>1
  <1> QED BY <1>2

\* What a live key holds.
LEMMA LiveEntry ==
    ASSUME Keyed(map, Entry), now \in Nat, NEW k \in Live
    PROVE  /\ k \in Keys /\ k \in DOMAIN map /\ map[k] \in Entry
           /\ map[k].val \in Values /\ map[k].exp \in Nat \cup {Never}
           /\ map[k] = [val |-> map[k].val, exp |-> map[k].exp]
           /\ ~DeadAt(map[k], now)
  <1>1. k \in DOMAIN map /\ ~DeadAt(map[k], now)
    BY DEF Live, Unexpired, IsExpired, DeadAt
  <1>2. k \in Keys /\ map[k] \in Entry
    BY <1>1 DEF Keyed
  <1> QED BY <1>1, <1>2 DEF Entry

LEMMA TypeInit == Init => TypeOK
  BY KeyedNothing DEF Init, TypeOK

LEMMA TypeCommand ==
    ASSUME TypeOK, NEW k \in Keys
    PROVE  /\ Get(k) \/ Exists(k) \/ Del(k) \/ Incr(k) \/ Ttl(k) => TypeOK'
           /\ \A v \in Written, t \in Deadlines \cup {Never} : Set(k, v, t) => TypeOK'
           /\ \A s \in Spans : Expire(k, s) => TypeOK'
  <1> DEFINE Rest == /\ pc' \in {"down", "idle"} /\ now' = now
                     /\ UNCHANGED <<file, buf, saved>>
  <1>0. ASSUME Rest, Keyed(map', Entry)
        PROVE  TypeOK'
    BY <1>0 DEF TypeOK, Keyed
  <1>a. \A op, key, r : Reply(op, key, r) => Rest
    BY DEF Reply
  <1>b. Keyed(map, Entry) /\ now \in Nat
    BY DEF TypeOK
  <1> HIDE DEF Rest
  <1>1. Get(k) \/ Exists(k) => TypeOK'
    BY <1>0, <1>a, <1>b, KeyedTouched DEF Get, Exists
  <1>2. Del(k) => TypeOK'
    BY <1>0, <1>a, <1>b, KeyedRemove DEF Del
  <1>3. Ttl(k) => TypeOK'
    BY <1>0, <1>a, <1>b DEF Ttl
  <1>4. ASSUME Incr(k)
        PROVE  TypeOK'
    <2> DEFINE current == IF k \in Existing THEN map[k].val ELSE 0
               ttl == IF k \in Existing THEN map[k].exp ELSE Never
    <2>1. ttl \in Nat \cup {Never}
      BY <1>b, LiveEntry DEF Existing
    <2>2. CASE Reply("INCR", k, Err) /\ UNCHANGED map
      BY <2>2, <1>0, <1>a, <1>b
    <2>3. CASE /\ current \in Numbers \ {MaxInt}
               /\ Reply("INCR", k, current + 1)
               /\ map' = Insert(map, k, current + 1, ttl)
      <3> HIDE DEF current, ttl
      <3>1. Keyed(map', Entry)
        BY <2>1, <2>3, <1>b, KeyedInsert, Successor
      <3> QED BY <3>1, <2>3, <1>0, <1>a
    <2>4. CASE Reply("INCR", k, MinInt) /\ map' = Insert(map, k, MinInt, ttl)
      <3> HIDE DEF ttl
      <3>1. MinInt \in Values
        BY StoreNumbersAssumption DEF Values, Numbers, MinInt
      <3>2. Keyed(map', Entry)
        BY <2>1, <2>4, <3>1, <1>b, KeyedInsert
      <3> QED BY <3>2, <2>4, <1>0, <1>a
    <2>5. CASE pc' = "down" /\ map' = Nothing /\ UNCHANGED <<now, file, buf, saved>>
      BY <2>5, <1>0, KeyedNothing DEF Rest
    <2> QED BY <1>4, <2>2, <2>3, <2>4, <2>5 DEF Incr
  <1>5. ASSUME NEW v \in Written, NEW t \in Deadlines \cup {Never}, Set(k, v, t)
        PROVE  TypeOK'
    <2>1. v \in Values /\ t \in Nat \cup {Never}
      BY StoreNumbersAssumption, StoreNamesAssumption
    <2> QED BY <1>5, <2>1, <1>0, <1>a, <1>b, KeyedInsert DEF Set
  <1>6. ASSUME NEW s \in Spans, Expire(k, s)
        PROVE  TypeOK'
    <2>1. k \in Live => map[k].val \in Values
      BY <1>b, LiveEntry
    <2>2. now + s * Second \in Nat
      BY <1>b, SpanNat
    <2>3. Keyed(map', Entry)
      BY <1>6, <1>b, <2>1, <2>2, KeyedInsert DEF Expire
    <2> QED BY <1>6, <2>3, <1>0, <1>a DEF Expire
  <1> QED BY <1>1, <1>2, <1>3, <1>4, <1>5, <1>6

LEMMA TypeStep == TypeOK /\ [Next]_vars => TypeOK'
  <1> SUFFICES ASSUME TypeOK, [Next]_vars
               PROVE  TypeOK'
    OBVIOUS
  <1>b. Keyed(map, Entry) /\ now \in Nat
    BY DEF TypeOK
  <1>1. CASE UNCHANGED vars
    BY <1>1 DEF vars, TypeOK, Keyed
  <1>2. CASE DbSize
    BY <1>2 DEF DbSize, Reply, TypeOK, Keyed
  <1>3. CASE Tick
    BY <1>3 DEF Tick, TypeOK, Keyed
  <1>4. CASE PurgeExpired
    <2>1. Keyed(map', Entry)
      BY <1>4, <1>b, LeftNow, LeftIsKeyed DEF PurgeExpired, Kept
    <2> QED BY <1>4, <2>1 DEF PurgeExpired, TypeOK, Keyed
  <1>5. CASE SaveCreate
    <2>1. Keyed(Snapshot, FileEntry)
      BY <1>b, ReadBack
    <2> QED BY <1>5, <2>1, KeyedNothing DEF SaveCreate, TypeOK, Keyed
  <1>6. ASSUME NEW f \in Cut
        PROVE  Keyed(f.recs, FileEntry) /\ f.whole \in BOOLEAN
    <2>1. CASE f = [whole |-> FALSE, recs |-> Nothing]
      BY <2>1, KeyedNothing
    <2>2. ASSUME NEW part \in SUBSET DOMAIN buf,
                 f = [whole |-> TRUE, recs |-> [k \in part |-> buf[k]]]
          PROVE  Keyed(f.recs, FileEntry) /\ f.whole \in BOOLEAN
      BY <2>2 DEF TypeOK, Keyed
    <2> QED BY <2>1, <2>2 DEF Cut
  <1>7. CASE SaveEnds
    <2>1. /\ pc' \in {"idle", "down"} /\ now' = now /\ buf' = Nothing
          /\ map' = map \/ map' = Nothing
      BY <1>7 DEF SaveEnds, SaveReturns
    <2>2. /\ Keyed(file'.recs, FileEntry) /\ file'.whole \in BOOLEAN
          /\ Keyed(saved', FileEntry)
      <3>1. CASE file' = [whole |-> TRUE, recs |-> buf] /\ saved' = buf
        BY <3>1 DEF TypeOK
      <3>2. CASE file' \in Cut /\ UNCHANGED saved
        BY <3>2, <1>6 DEF TypeOK
      <3> QED BY <1>7, <3>1, <3>2 DEF SaveEnds
    <2>3. Keyed(map', Entry) /\ Keyed(buf', FileEntry)
      BY <2>1, <1>b, KeyedNothing
    <2> QED BY <2>1, <2>2, <2>3, <1>b DEF TypeOK, Keyed
  <1>8. CASE SaveRefused
    BY <1>8, KeyedNothing DEF SaveRefused, TypeOK, Keyed
  <1>9. CASE Kill
    <2>1. /\ pc' = "down" /\ map' = Nothing /\ buf' = Nothing
          /\ UNCHANGED <<now, saved>>
      BY <1>9 DEF Kill
    <2>2. Keyed(file'.recs, FileEntry) /\ file'.whole \in BOOLEAN
      BY <1>9, <1>6 DEF Kill, TypeOK
    <2> QED BY <2>1, <2>2, KeyedNothing DEF TypeOK, Keyed
  <1>10. CASE Boot
    <2>1. Keyed(Loaded(file.recs), Entry)
      BY LoadedIsKeyed DEF TypeOK
    <2>2. Keyed(map', Entry)
      BY <1>10, <2>1, LeftNow, LeftIsKeyed DEF Boot
    <2> QED BY <1>10, <2>2 DEF Boot, TypeOK, Keyed
  <1> QED BY TypeCommand, <1>1, <1>2, <1>3, <1>4, <1>5, <1>7, <1>8, <1>9, <1>10 DEF Next

(***************************************************************************)
(* In memory a deadline is an instant or none; in a snapshot it is always  *)
(* a number, and every key is one of the keys.                             *)
(***************************************************************************)
THEOREM TypeCorrect == Spec => []TypeOK
  BY TypeInit, TypeStep, PTL DEF Spec

(***************************************************************************)
(* Where no save is cut short, the file is the last completed save outside *)
(* of a save, and the buffer of a save stays what lives in memory: nothing *)
(* but the clock moves until it is written.                                *)
(***************************************************************************)
FileIsSaved == ~Saving => file = [whole |-> TRUE, recs |-> saved]

BufferIsLive == Saving => Unexpired(Loaded(buf)) = Unexpired(map)

IInv == TypeOK /\ FileIsSaved /\ BufferIsLive

LEMMA FileInit == Init => FileIsSaved /\ BufferIsLive
  BY DEF Init, FileIsSaved, BufferIsLive, Saving

LEMMA LeftOfBuffer ==
    /\ Unexpired(Loaded(buf)) = AliveAt(Loaded(buf), now)
    /\ Unexpired(Loaded(buf))' = AliveAt(Loaded(buf'), now')
  BY DEF Unexpired, IsExpired, AliveAt, DeadAt, Loaded, FromFile

LEMMA FileStep ==
    ASSUME "cut_save" \notin Exposed, IInv, [Next]_vars
    PROVE  FileIsSaved' /\ BufferIsLive'
  <1>b. Keyed(map, Entry) /\ now \in Nat /\ Keyed(buf, FileEntry)
    BY DEF IInv, TypeOK
  <1>1. CASE UNCHANGED vars
    BY <1>1, LeftOfMap, LeftOfBuffer DEF vars, IInv, FileIsSaved, BufferIsLive, Saving
  \* Only the loop's own commands and the sweep run outside of a save, ...
  <1>2. ASSUME pc = "idle", pc' \in {"idle", "down"}, UNCHANGED <<file, saved>>
        PROVE  FileIsSaved' /\ BufferIsLive'
    BY <1>2 DEF IInv, FileIsSaved, BufferIsLive, Saving
  <1>a. \A op, key, r : Reply(op, key, r) =>
          pc = "idle" /\ pc' \in {"idle", "down"} /\ UNCHANGED <<file, saved>>
    BY DEF Reply
  <1>3. ASSUME NEW k \in Keys, Get(k) \/ Exists(k) \/ Del(k) \/ Ttl(k)
        PROVE  FileIsSaved' /\ BufferIsLive'
    BY <1>2, <1>a, <1>3 DEF Get, Exists, Del, Ttl
  <1>4. ASSUME NEW k \in Keys, Incr(k)
        PROVE  FileIsSaved' /\ BufferIsLive'
    <2>1. pc = "idle" /\ pc' \in {"idle", "down"} /\ UNCHANGED <<file, saved>>
      BY <1>4, <1>a DEF Incr
    <2> QED BY <2>1, <1>2
  <1>5. ASSUME NEW k \in Keys, NEW v, NEW t, Set(k, v, t) \/ Expire(k, t)
        PROVE  FileIsSaved' /\ BufferIsLive'
    BY <1>2, <1>a, <1>5 DEF Set, Expire
  <1>6. CASE DbSize \/ PurgeExpired \/ SaveRefused
    <2>1. pc = "idle" /\ pc' \in {"idle", "down"} /\ UNCHANGED <<file, saved>>
      BY <1>6, <1>a DEF DbSize, PurgeExpired, SaveRefused
    <2> QED BY <2>1, <1>2
  \* ... and the clock runs on during one.
  <1>7. CASE Tick
    <2>1. now' \in Nat /\ now <= now' /\ UNCHANGED <<pc, map, file, buf, saved>>
      BY <1>7, <1>b DEF Tick
    <2>2. FileIsSaved'
      BY <2>1 DEF IInv, FileIsSaved, Saving
    <2>3. ASSUME Saving
          PROVE  Unexpired(Loaded(buf))' = Unexpired(map)'
      <3>1. AliveAt(Loaded(buf), now) = AliveAt(map, now)
        BY <2>3, LeftOfMap, LeftOfBuffer DEF IInv, BufferIsLive
      <3>2. Keyed(Loaded(buf), Entry)
        BY <1>b, LoadedIsKeyed
      <3>3. AliveAt(Loaded(buf), now') = AliveAt(map, now')
        BY <2>1, <3>1, <3>2, <1>b, LeftLater
      <3> QED BY <2>1, <3>3, LeftOfMap, LeftOfBuffer
    <2> QED BY <2>1, <2>2, <2>3 DEF BufferIsLive, Saving
  <1>8. CASE SaveCreate
    <2>1. Loaded(Snapshot) = AliveAt(map, now)
      BY <1>b, ReadBack
    <2>2. AliveAt(Loaded(Snapshot), now) = AliveAt(map, now)
      BY <2>1, <1>b, LeftLater
    <2>3. buf' = Snapshot /\ map' = map /\ now' = now /\ pc' \in {"save", "lastSave"}
      BY <1>8 DEF SaveCreate
    <2> QED BY <2>2, <2>3, LeftOfMap, LeftOfBuffer DEF FileIsSaved, BufferIsLive, Saving
  <1>9. CASE SaveEnds
    <2>1. pc' \in {"idle", "down"} /\ file' = [whole |-> TRUE, recs |-> buf] /\ saved' = buf
      BY <1>9 DEF SaveEnds, SaveReturns
    <2> QED BY <2>1 DEF FileIsSaved, BufferIsLive, Saving
  <1>10. CASE Kill
    <2>1. ~Saving /\ file' = file /\ saved' = saved /\ pc' = "down"
      BY <1>10 DEF Kill
    <2> QED BY <2>1 DEF IInv, FileIsSaved, BufferIsLive, Saving
  <1>11. CASE Boot
    BY <1>11 DEF Boot, IInv, FileIsSaved, BufferIsLive, Saving
  <1> QED
    BY <1>1, <1>3, <1>4, <1>5, <1>6, <1>7, <1>8, <1>9, <1>10, <1>11 DEF Next

LEMMA Invariance ==
    ASSUME "cut_save" \notin Exposed
    PROVE  Spec => []IInv
  <1>1. Init => IInv
    BY TypeInit, FileInit DEF IInv
  <1>2. IInv /\ [Next]_vars => IInv'
    BY TypeStep, FileStep DEF IInv
  <1> QED BY <1>1, <1>2, PTL DEF Spec

(***************************************************************************)
(* Where no save fails or is killed halfway, what the last one wrote is    *)
(* what the next process finds, whenever else a process ends.              *)
(***************************************************************************)
THEOREM SnapshotsKept ==
    ASSUME "cut_save" \notin Exposed
    PROVE  Spec => []SnapshotKept
  <1>1. IInv => SnapshotKept
    BY DEF IInv, FileIsSaved, SnapshotKept, Saving
  <1> QED BY <1>1, Invariance, PTL

(***************************************************************************)
(* The refinement: every step of the store is a step of the map or, when   *)
(* it only throws dead entries away or opens the file, no step at all.     *)
(***************************************************************************)
LEMMA MapInit == Init => Promised!Init
  BY DEF Init, Promised!Init, Unexpired, Loaded, Nothing, Promised!Nothing

LEMMA Answers ==
    ASSUME NEW op, NEW k, NEW r, Reply(op, k, r)
    PROVE  /\ Promised!Answer(op, k, r)
           /\ now' = now /\ pc # "down" /\ pc' = pc
           /\ Unexpired(Loaded(saved))' = Unexpired(Loaded(saved))
  <1>1. now' = now /\ saved' = saved /\ pc = "idle" /\ pc' = "idle"
    BY DEF Reply
  <1>2. Unexpired(Loaded(saved))' = Unexpired(Loaded(saved))
    BY <1>1, LeftOfMap
  <1> QED BY <1>1, <1>2 DEF Reply, Promised!Answer

LEMMA LiveIs ==
    /\ Live = DOMAIN Unexpired(map)
    /\ \A k \in Live : Unexpired(map)[k] = map[k]
  BY DEF Live, Unexpired

\* Looking at a dead entry removes nothing that lived.
LEMMA TouchedSame ==
    ASSUME NEW k, map' = Touched(k), now' = now
    PROVE  Unexpired(map)' = Unexpired(map)
  <1>1. CASE k \in Live
    BY <1>1, LeftOfMap DEF Touched
  <1>2. CASE k \notin Live
    <2>1. k \notin DOMAIN AliveAt(map, now)
      BY <1>2, LiveIs, LeftOfMap
    <2>2. map' = Remove(map, k)
      BY <1>2 DEF Touched
    <2> QED BY <2>1, <2>2, LeftOfRemove, LeftOfMap
  <1> QED BY <1>1, <1>2

\* An entry that is written is there unless its deadline has passed.
LEMMA InsertPuts ==
    ASSUME Keyed(map, Entry), now \in Nat, now' = now, NEW k \in Keys,
           NEW v \in Values, NEW e \in Nat \cup {Never}, map' = Insert(map, k, v, e)
    PROVE  Unexpired(map)' = Promised!UnexpiredAt(Promised!Put(Unexpired(map), k, v, e), now)
  <1>1. Keyed(AliveAt(map, now), Entry)
    BY LeftIsKeyed
  <1>2. Keyed(Insert(AliveAt(map, now), k, v, e), Entry)
    BY <1>1, KeyedInsert
  <1>3. AliveAt(Insert(map, k, v, e), now) = AliveAt(Insert(AliveAt(map, now), k, v, e), now)
    BY LeftOfInsert
  <1>4. AliveAt(Insert(map, k, v, e), now)
          = Promised!UnexpiredAt(Insert(AliveAt(map, now), k, v, e), now)
    BY <1>2, <1>3, LeftOfPromised
  <1>5. Insert(AliveAt(map, now), k, v, e) = Promised!Put(AliveAt(map, now), k, v, e)
    BY DEF Insert, Promised!Put
  <1> QED BY <1>4, <1>5, LeftOfMap

LEMMA LookSteps ==
    ASSUME IInv, NEW k \in Keys, Get(k) \/ Exists(k) \/ Ttl(k)
    PROVE  Promised!Look(k)
  <1>1. CASE Get(k)
    <2>1. Promised!Answer("GET", k, IF k \in Live THEN map[k].val ELSE Nil)
      BY <1>1, Answers DEF Get
    <2>2. UNCHANGED <<Unexpired(map), Unexpired(Loaded(saved))>>
      BY <1>1, Answers, TouchedSame DEF Get
    <2> QED BY <2>1, <2>2, LiveIs DEF Promised!Look
  <1>2. CASE Exists(k)
    <2>1. Promised!Answer("EXISTS", k, IF k \in Live THEN 1 ELSE 0)
      BY <1>2, Answers DEF Exists
    <2>2. UNCHANGED <<Unexpired(map), Unexpired(Loaded(saved))>>
      BY <1>2, Answers, TouchedSame DEF Exists
    <2> QED BY <2>1, <2>2, LiveIs DEF Promised!Look
  <1>3. CASE Ttl(k)
    <2>1. Promised!Answer("TTL", k, IF k \notin Live THEN -2
                                    ELSE IF map[k].exp = Never THEN -1
                                    ELSE (map[k].exp - now) \div Second)
      BY <1>3, Answers DEF Ttl
    <2>2. UNCHANGED <<Unexpired(map), Unexpired(Loaded(saved))>>
      BY <1>3, Answers, LeftOfMap DEF Ttl
    <2> QED BY <2>1, <2>2, LiveIs DEF Promised!Look
  <1> QED BY <1>1, <1>2, <1>3

\* The map counts with its own copy of the operator.
LEMMA SameCount ==
    ASSUME NEW S
    PROVE  Promised!Cardinality(S) = Cardinality(S)
  BY Zenon DEF Cardinality, Promised!Cardinality

LEMMA SizeSteps ==
    ASSUME DbSize
    PROVE  Promised!Size
  <1>1. Promised!Answer("DBSIZE", Nil, Cardinality(Live))
    BY Answers DEF DbSize
  <1>2. UNCHANGED <<Unexpired(map), Unexpired(Loaded(saved))>>
    BY Answers, LeftOfMap DEF DbSize
  <1> QED BY <1>1, <1>2, LiveIs, SameCount DEF Promised!Size

LEMMA SetSteps ==
    ASSUME IInv, NEW k \in Keys, NEW v \in Written, NEW t \in Deadlines \cup {Never}, Set(k, v, t)
    PROVE  Promised!Set(k, v, t)
  <1>1. v \in Values /\ t \in Nat \cup {Never}
    BY StoreNumbersAssumption, StoreNamesAssumption
  <1>2. Promised!Answer("SET", k, Ok) /\ UNCHANGED <<now, Unexpired(Loaded(saved))>>
    BY Answers DEF Set
  <1>3. Unexpired(map)' = Promised!UnexpiredAt(Promised!Put(Unexpired(map), k, v, t), now)
    BY <1>1, <1>2, InsertPuts DEF Set, IInv, TypeOK
  <1> QED BY <1>2, <1>3 DEF Promised!Set

LEMMA DelSteps ==
    ASSUME NEW k \in Keys, Del(k)
    PROVE  Promised!Del(k)
  <1>1. Promised!Answer("DEL", k, IF k \in Live THEN 1 ELSE 0)
        /\ UNCHANGED <<now, Unexpired(Loaded(saved))>>
    BY Answers DEF Del
  <1>2. Unexpired(map)' = Remove(Unexpired(map), k)
    BY <1>1, LeftOfMap, LeftOfRemove DEF Del
  <1>3. Unexpired(map)' = Promised!Drop(Unexpired(map), k)
    BY <1>2 DEF Remove, Promised!Drop
  <1> QED BY <1>1, <1>3, LiveIs DEF Promised!Del

LEMMA ExpireSteps ==
    ASSUME IInv, NEW k \in Keys, NEW s \in Spans, Expire(k, s)
    PROVE  Promised!Expire(k, s)
  <1>b. Keyed(map, Entry) /\ now \in Nat
    BY DEF IInv, TypeOK
  <1>1. Promised!Answer("EXPIRE", k, IF k \in Live THEN 1 ELSE 0)
        /\ UNCHANGED <<now, Unexpired(Loaded(saved))>>
    BY Answers DEF Expire
  <1>2. CASE k \in Live
    <2>1. map[k].val \in Values /\ now + s * Second \in Nat
      BY <1>2, <1>b, LiveEntry, SpanNat
    <2>2. map' = Insert(map, k, map[k].val, now + s * Second)
      BY <1>2 DEF Expire
    <2>3. Unexpired(map)' = Promised!UnexpiredAt(
              Promised!Put(Unexpired(map), k, map[k].val, now + s * Second), now)
      BY <2>1, <2>2, <1>1, <1>b, InsertPuts
    <2> QED BY <1>1, <1>2, <2>3, LiveIs DEF Promised!Expire
  <1>3. CASE k \notin Live
    <2>1. Unexpired(map)' = Unexpired(map)
      BY <1>1, <1>3, LeftOfMap DEF Expire
    <2> QED BY <1>1, <1>3, <2>1, LiveIs DEF Promised!Expire
  <1> QED BY <1>2, <1>3

LEMMA IncrSteps ==
    ASSUME "incr_overflow" \notin Exposed, IInv, NEW k \in Keys, Incr(k)
    PROVE  Promised!Incr(k)
  <1>b. Keyed(map, Entry) /\ now \in Nat
    BY DEF IInv, TypeOK
  <1>0. Text # 0
    BY StoreNumbersAssumption, StoreNamesAssumption DEF Numbers, MinInt
  <1>1. CASE k \in Live /\ map[k].val = Text
    <2>1. Reply("INCR", k, Err) /\ UNCHANGED map
      BY <1>1, StoreNumbersAssumption, StoreNamesAssumption DEF Incr, Existing, Numbers, MinInt
    <2>2. Promised!Answer("INCR", k, Err) /\ UNCHANGED <<now, Unexpired(Loaded(saved))>>
      BY <2>1, Answers
    <2>3. Unexpired(map)' = Unexpired(map)
      BY <2>1, <2>2, LeftOfMap
    <2> QED BY <1>1, <2>2, <2>3, LiveIs DEF Promised!Incr
  <1>2. CASE k \in Live /\ map[k].val # Text
    <2> DEFINE v == map[k].val
    <2>1. /\ v \in Numbers \ {MaxInt} /\ Reply("INCR", k, v + 1)
          /\ map' = Insert(map, k, v + 1, map[k].exp)
      BY <1>2 DEF Incr, Existing
    <2>2. Promised!Answer("INCR", k, v + 1) /\ UNCHANGED <<now, Unexpired(Loaded(saved))>>
      BY <2>1, Answers
    <2>3. ~DeadAt([val |-> v + 1, exp |-> map[k].exp], now)
      BY <1>2, <1>b, LiveEntry DEF DeadAt
    <2>4. Unexpired(map)' = Insert(Unexpired(map), k, v + 1, map[k].exp)
      BY <2>1, <2>2, <2>3, LeftOfLiveInsert, LeftOfMap
    <2>5. Unexpired(map)' = Promised!Put(Unexpired(map), k, v + 1, map[k].exp)
      BY <2>4 DEF Insert, Promised!Put
    <2>6. v \in Promised!Numbers \ {MaxInt}
      BY <2>1 DEF Numbers, MinInt, Promised!Numbers, Promised!MinInt
    <2> HIDE DEF v
    <2> QED BY <1>2, <2>2, <2>5, <2>6, LiveIs DEF v, Promised!Incr
  <1>3. CASE k \notin Live
    <2>1. Reply("INCR", k, 1) /\ map' = Insert(map, k, 1, Never)
      BY <1>0, <1>3 DEF Incr, Existing
    <2>2. Promised!Answer("INCR", k, 1) /\ UNCHANGED <<now, Unexpired(Loaded(saved))>>
      BY <2>1, Answers
    <2>3. ~DeadAt([val |-> 1, exp |-> Never], now)
      BY DEF DeadAt
    <2>4. Unexpired(map)' = Insert(Unexpired(map), k, 1, Never)
      BY <2>1, <2>2, <2>3, LeftOfLiveInsert, LeftOfMap
    <2>5. Unexpired(map)' = Promised!Put(Unexpired(map), k, 1, Never)
      BY <2>4 DEF Insert, Promised!Put
    <2> QED BY <1>3, <2>2, <2>5, LiveIs DEF Promised!Incr
  <1> QED BY <1>1, <1>2, <1>3

LEMMA TickSteps ==
    ASSUME IInv, Tick
    PROVE  Promised!Pass
  <1>b. Keyed(map, Entry) /\ now \in Nat /\ Keyed(Loaded(saved), Entry)
    BY LoadedIsKeyed DEF IInv, TypeOK
  <1>1. now' \in Nat /\ now < now' /\ UNCHANGED <<pc, map, saved, reply>>
    BY <1>b DEF Tick
  <1>2. ASSUME NEW m, Keyed(m, Entry)
        PROVE  AliveAt(m, now') = Promised!UnexpiredAt(AliveAt(m, now), now')
    <2>1. Keyed(AliveAt(m, now), Entry)
      BY <1>2, LeftIsKeyed
    <2>2. AliveAt(AliveAt(m, now), now') = Promised!UnexpiredAt(AliveAt(m, now), now')
      BY <2>1, <1>1, LeftOfPromised
    <2> QED BY <2>2, <1>1, <1>2, <1>b, LeftLater
  <1>3. Unexpired(map)' = Promised!UnexpiredAt(Unexpired(map), now')
    BY <1>1, <1>2, <1>b, LeftOfMap
  <1>4. Unexpired(Loaded(saved))' = Promised!UnexpiredAt(Unexpired(Loaded(saved)), now')
    BY <1>1, <1>2, <1>b, LeftOfMap
  <1> QED BY <1>1, <1>3, <1>4 DEF Promised!Pass

LEMMA PurgeStutters ==
    ASSUME IInv, PurgeExpired
    PROVE  UNCHANGED Promised!vars
  <1>1. map' = AliveAt(map, now) /\ UNCHANGED <<pc, now, saved, reply>>
    BY LeftNow DEF PurgeExpired, Kept
  <1>2. AliveAt(map', now') = AliveAt(map, now)
    BY <1>1, LeftLater DEF IInv, TypeOK
  <1> QED BY <1>1, <1>2, LeftOfMap DEF Promised!vars

LEMMA SaveCreateStutters ==
    ASSUME SaveCreate
    PROVE  UNCHANGED Promised!vars
  <1>1. /\ UNCHANGED <<now, map, saved, reply>>
        /\ pc # "down" /\ pc' # "down"
    BY DEF SaveCreate
  <1> QED BY <1>1, LeftOfMap DEF Promised!vars

\* Nothing lives in a process that ended.
LEMMA NothingLives == map' = Nothing => Unexpired(map)' = Promised!Nothing
  BY LeftOfMap DEF AliveAt, Nothing, Promised!Nothing

LEMMA SaveEndsSteps ==
    ASSUME "cut_save" \notin Exposed, IInv, SaveEnds
    PROVE  Promised!Save \/ Promised!Stop
  <1>1. saved' = buf /\ now' = now /\ SaveReturns(Ok) /\ pc # "down"
    BY DEF SaveEnds, Saving
  <1>2. Unexpired(Loaded(saved))' = Unexpired(map)
    <2>1. Unexpired(Loaded(saved))' = Unexpired(Loaded(buf))
      BY <1>1, LeftOfMap, LeftOfBuffer
    <2> QED BY <2>1 DEF IInv, BufferIsLive, SaveEnds
  <1>3. CASE /\ pc = "save" /\ pc' = "idle"
             /\ reply' = [op |-> "SAVE", key |-> Nil, res |-> Ok]
             /\ UNCHANGED map
    <2>1. Unexpired(map)' = Unexpired(map)
      BY <1>1, <1>3, LeftOfMap
    <2> QED BY <1>1, <1>2, <1>3, <2>1 DEF Promised!Save, Promised!Answer
  <1>4. CASE pc' = "down" /\ map' = Nothing /\ UNCHANGED reply
    BY <1>1, <1>2, <1>4, NothingLives DEF Promised!Stop
  <1> QED BY <1>1, <1>3, <1>4 DEF SaveReturns

LEMMA SaveRefusedSteps ==
    ASSUME SaveRefused
    PROVE  Promised!Save \/ Promised!Stop
  <1>1. /\ now' = now /\ pc # "down"
        /\ Unexpired(Loaded(saved))' = Unexpired(Loaded(saved))
    BY LeftOfMap DEF SaveRefused
  <1>2. CASE /\ reply' = [op |-> "SAVE", key |-> Nil, res |-> Err]
             /\ UNCHANGED <<pc, map>>
    <2>1. Unexpired(map)' = Unexpired(map)
      BY <1>1, <1>2, LeftOfMap
    <2> QED BY <1>1, <1>2, <2>1 DEF Promised!Save, Promised!Answer
  <1>3. CASE pc' = "down" /\ map' = Nothing /\ UNCHANGED reply
    BY <1>1, <1>3, NothingLives DEF Promised!Stop
  <1> QED BY <1>2, <1>3 DEF SaveRefused

LEMMA KillSteps ==
    ASSUME Kill
    PROVE  Promised!Stop
  <1>1. /\ now' = now /\ pc # "down" /\ pc' = "down" /\ map' = Nothing /\ reply' = reply
        /\ Unexpired(Loaded(saved))' = Unexpired(Loaded(saved))
    BY LeftOfMap DEF Kill
  <1> QED BY <1>1, NothingLives DEF Promised!Stop

LEMMA BootSteps ==
    ASSUME IInv, Boot
    PROVE  Promised!Start
  <1>1. /\ pc = "down" /\ pc' # "down" /\ UNCHANGED <<now, saved, reply>>
        /\ file.recs = saved
    BY DEF Boot, IInv, FileIsSaved, Saving
  <1>2. map' = AliveAt(Loaded(saved), now)
    BY <1>1, LeftNow DEF Boot
  <1>3. AliveAt(map', now') = AliveAt(Loaded(saved), now)
    BY <1>1, <1>2, LoadedIsKeyed, LeftLater DEF IInv, TypeOK
  <1> QED BY <1>1, <1>3, LeftOfMap DEF Promised!Start

LEMMA MapStep ==
    ASSUME Exposed = {}, IInv, [Next]_vars
    PROVE  [Promised!Next]_(Promised!vars)
  <1>1. CASE UNCHANGED vars
    BY <1>1, LeftOfMap DEF vars, Promised!vars
  <1>2. ASSUME NEW k \in Keys, Get(k) \/ Exists(k) \/ Del(k) \/ Incr(k) \/ Ttl(k)
        PROVE  Promised!Next
    BY <1>2, LookSteps, DelSteps, IncrSteps DEF Promised!Next
  <1>3. ASSUME NEW k \in Keys, NEW v \in Written, NEW t \in Deadlines \cup {Never}, Set(k, v, t)
        PROVE  Promised!Next
    BY <1>3, SetSteps DEF Promised!Next
  <1>4. ASSUME NEW k \in Keys, NEW s \in Spans, Expire(k, s)
        PROVE  Promised!Next
    BY <1>4, ExpireSteps DEF Promised!Next
  <1>5. CASE DbSize \/ Tick
    BY <1>5, SizeSteps, TickSteps DEF Promised!Next
  <1>6. CASE PurgeExpired \/ SaveCreate
    BY <1>6, PurgeStutters, SaveCreateStutters
  <1>7. CASE SaveEnds \/ SaveRefused \/ Kill \/ Boot
    BY <1>7, SaveEndsSteps, SaveRefusedSteps, KillSteps, BootSteps DEF Promised!Next
  <1> QED BY <1>1, <1>2, <1>3, <1>4, <1>5, <1>6, <1>7 DEF Next

(***************************************************************************)
(* The store implements the map its clients are promised: four places      *)
(* decide whether an entry is dead, and no command, sweep, save, kill or   *)
(* restart lets a client see that one of them has not looked yet.          *)
(***************************************************************************)
THEOREM StoreImplementsMap ==
    ASSUME Exposed = {}
    PROVE  Spec => ImplementsTtlMap
  <1>1. Spec => []IInv
    BY Invariance
  <1>2. Init => Promised!Init
    BY MapInit
  <1>3. IInv /\ [Next]_vars => [Promised!Next]_(Promised!vars)
    BY MapStep
  <1> QED BY <1>1, <1>2, <1>3, PTL DEF Spec, ImplementsTtlMap, Promised!Spec

=============================================================================
