------------------------------ MODULE RudisStore ------------------------------
(***************************************************************************)
(* The keyspace of rudis (07-systems-programming/src): store.rs as         *)
(* command.rs drives it, persistence.rs, and the boot and shutdown of      *)
(* bin/rudis.rs and server.rs.                                             *)
(*                                                                         *)
(* The server is single threaded, so a command is one step; only SAVE and  *)
(* the save of a shutdown are more, because the process can die between    *)
(* emptying the file and filling it.  DEL and EXISTS of several keys are   *)
(* as many steps: each key looks at the clock for itself.                  *)
(***************************************************************************)
EXTENDS Integers, FiniteSets

CONSTANTS
    Keys,
    Text,           \* a value that is no number
    MaxInt,         \* i64::MAX
    Second,         \* milliseconds in a second
    Written,        \* values SET may carry
    Deadlines,      \* absolute deadlines SET may carry
    Spans,          \* seconds EXPIRE may carry
    Never,          \* expires_at = None
    Nil, Ok, Err,   \* Resp::Null, Resp::ok() and Resp::Error
    MaxTime,        \* bound: the last instant
    Exposed         \* situations to include that the code does not survive

(***************************************************************************)
(* "incr_overflow" INCR of i64::MAX                                        *)
(* "cut_save"      a save that fails, or a process that dies, after the    *)
(*                 snapshot file was emptied                               *)
(***************************************************************************)
ASSUME StoreExposedAssumption == Exposed \subseteq {"incr_overflow", "cut_save"}

ASSUME StoreNumbersAssumption ==
    /\ {MaxInt, MaxTime} \subseteq Nat /\ Second \in Nat \ {0}
    /\ Deadlines \subseteq Nat /\ Spans \subseteq Nat

MinInt == -MaxInt - 1
Numbers == MinInt .. MaxInt
Values == Numbers \cup {Text}

ASSUME StoreNamesAssumption ==
    /\ Text \notin Numbers /\ Never \notin Nat
    /\ Written \subseteq Values

VARIABLES
    pc,     \* "down", "idle", or where a save has got: "save", "lastSave"
    now,    \* the wall clock
    map,    \* key |-> [val, exp]; entries past their deadline may linger
    file,   \* the snapshot: [whole, recs]; a missing file is whole and empty
    buf,    \* what the save in progress is about to write
    saved,  \* history: what the last completed save wrote
    reply   \* the last reply

vars == <<pc, now, map, file, buf, saved, reply>>

Entry == [val: Values, exp: Nat \cup {Never}]
FileEntry == [val: Values, exp: Nat]

Nothing == [k \in {} |-> Nil]

Init ==
    /\ pc = "down" /\ now = 0
    /\ map = Nothing /\ buf = Nothing /\ saved = Nothing
    /\ file = [whole |-> TRUE, recs |-> Nothing]
    /\ reply = [op |-> "NONE", key |-> Nil, res |-> Nil]

(***************************************************************************)
(* Expiry.                                                                 *)
(***************************************************************************)
IsExpired(e) == e.exp # Never /\ now >= e.exp

\* What is left of a keyspace or a snapshot without its expired entries.
Unexpired(m) == [k \in {j \in DOMAIN m : ~IsExpired(m[j])} |-> m[k]]

Live == DOMAIN Unexpired(map)

Remove(m, k) == [j \in DOMAIN m \ {k} |-> m[j]]
Insert(m, k, v, t) ==
    [j \in DOMAIN m \cup {k} |-> IF j = k THEN [val |-> v, exp |-> t] ELSE m[j]]

(***************************************************************************)
(* Commands.                                                               *)
(***************************************************************************)
Reply(op, k, r) ==
    /\ pc = "idle"
    /\ reply' = [op |-> op, key |-> k, res |-> r]
    /\ UNCHANGED <<pc, now, file, buf, saved>>

\* Lazy expiry: looking at a dead entry removes it.
Touched(k) == IF k \in Live THEN map ELSE Remove(map, k)

Get(k) ==
    /\ Reply("GET", k, IF k \in Live THEN map[k].val ELSE Nil)
    /\ map' = Touched(k)

Exists(k) ==
    /\ Reply("EXISTS", k, IF k \in Live THEN 1 ELSE 0)
    /\ map' = Touched(k)

\* EX and PX were turned into a deadline when the request was parsed.
Set(k, v, t) ==
    /\ Reply("SET", k, Ok)
    /\ map' = Insert(map, k, v, t)

Del(k) ==
    /\ Reply("DEL", k, IF k \in Live THEN 1 ELSE 0)
    /\ map' = Remove(map, k)

\* Looking at whatever is stored, dead or not.
StoredEntry == DOMAIN map

\* INCR works on the entry that is there and alive.
Existing == Live

Incr(k) ==
    LET current == IF k \in Existing THEN map[k].val ELSE 0
        ttl     == IF k \in Existing THEN map[k].exp ELSE Never
    IN /\ \/ /\ current = Text
             /\ Reply("INCR", k, Err)
             /\ UNCHANGED map
          \/ /\ current \in Numbers \ {MaxInt}
             /\ Reply("INCR", k, current + 1)
             /\ map' = Insert(map, k, current + 1, ttl)
          \/ \* `current + 1` wraps around (overflow checks off) ...
             /\ current = MaxInt /\ "incr_overflow" \in Exposed
             /\ Reply("INCR", k, MinInt)
             /\ map' = Insert(map, k, MinInt, ttl)
          \/ \* ... or panics, and takes the server with it
             /\ current = MaxInt /\ "incr_overflow" \in Exposed
             /\ pc' = "down" /\ map' = Nothing
             /\ UNCHANGED <<now, file, buf, saved, reply>>
       /\ pc = "idle"

Expire(k, s) ==
    /\ Reply("EXPIRE", k, IF k \in Live THEN 1 ELSE 0)
    /\ map' = IF k \in Live THEN Insert(map, k, map[k].val, now + s * Second) ELSE map

Ttl(k) ==
    /\ Reply("TTL", k, IF k \notin Live THEN -2
                       ELSE IF map[k].exp = Never THEN -1
                       ELSE (map[k].exp - now) \div Second)
    /\ UNCHANGED map

DbSize ==
    /\ Reply("DBSIZE", Nil, Cardinality(Live))
    /\ UNCHANGED map

(***************************************************************************)
(* The clock, and the sweep at the end of every pass of the event loop.    *)
(***************************************************************************)
Tick ==
    /\ now < MaxTime
    /\ now' = now + 1
    /\ UNCHANGED <<pc, map, file, buf, saved, reply>>

\* A sweep that compares the wrong way round.
DeadOnly == [k \in {j \in DOMAIN map : IsExpired(map[j])} |-> map[k]]

\* What the sweep keeps.
Kept == Unexpired(map)

PurgeExpired ==
    /\ pc = "idle"
    /\ map' = Kept
    /\ UNCHANGED <<pc, now, file, buf, saved, reply>>

(***************************************************************************)
(* SAVE, and the save of a graceful shutdown: collect the live entries,    *)
(* empty the file, write it, fsync it.                                     *)
(***************************************************************************)

\* A writer without the sentinel.
DeadlineAsIs(t) == t

\* In the file, deadline 0 stands for none.
ToFile(t) == IF t = Never THEN 0 ELSE t

FromFile(t) == IF t = 0 THEN Never ELSE t

\* snapshot_iter: the live entries, as they go to the file.
Snapshot == [k \in Live |-> [val |-> map[k].val, exp |-> ToFile(map[k].exp)]]

Loaded(recs) == [k \in DOMAIN recs |-> [val |-> recs[k].val, exp |-> FromFile(recs[k].exp)]]

\* Emptying the file.
SaveCreate ==
    /\ pc = "idle"
    /\ buf' = Snapshot
    /\ file' = [whole |-> FALSE, recs |-> Nothing]
    /\ pc' \in {"save", "lastSave"}
    /\ UNCHANGED <<now, map, saved, reply>>

Saving == pc \in {"save", "lastSave"}

\* After the save of a shutdown, the process ends whether it worked or not.
SaveReturns(r) ==
    \/ /\ pc = "save" /\ pc' = "idle"
       /\ reply' = [op |-> "SAVE", key |-> Nil, res |-> r]
       /\ UNCHANGED map
    \/ /\ pc = "lastSave" /\ pc' = "down" /\ map' = Nothing
       /\ UNCHANGED reply

\* File::create itself fails: nothing was emptied.
SaveRefused ==
    /\ pc = "idle"
    /\ \/ /\ reply' = [op |-> "SAVE", key |-> Nil, res |-> Err]
          /\ UNCHANGED <<pc, map>>
       \/ pc' = "down" /\ map' = Nothing /\ UNCHANGED reply
    /\ UNCHANGED <<now, file, buf, saved>>

\* What a write cut short leaves: a torn record or, if the cut falls between two
\* records, a file that reads as a snapshot of fewer keys.
Cut == {[whole |-> FALSE, recs |-> Nothing]}
       \cup {[whole |-> TRUE, recs |-> [k \in part |-> buf[k]]] : part \in SUBSET DOMAIN buf}

SaveEnds ==
    /\ Saving
    /\ \/ /\ SaveReturns(Ok)
          /\ file' = [whole |-> TRUE, recs |-> buf] /\ saved' = buf
       \/ /\ "cut_save" \in Exposed /\ SaveReturns(Err)
          /\ file' \in Cut /\ UNCHANGED saved
    /\ buf' = Nothing
    /\ UNCHANGED now

(***************************************************************************)
(* The end of a process and the start of the next.                         *)
(***************************************************************************)
Kill ==
    /\ pc # "down"
    /\ Saving => "cut_save" \in Exposed
    /\ file' \in IF Saving THEN Cut ELSE {file}
    /\ pc' = "down" /\ map' = Nothing /\ buf' = Nothing
    /\ UNCHANGED <<now, saved, reply>>

\* Loading skips what has expired; a torn file ends the boot with an error.
Boot ==
    /\ pc = "down" /\ file.whole
    /\ pc' = "idle"
    /\ map' = Unexpired(Loaded(file.recs))
    /\ UNCHANGED <<now, file, buf, saved, reply>>

Next ==
    \/ \E k \in Keys :
          \/ Get(k) \/ Exists(k) \/ Del(k) \/ Incr(k) \/ Ttl(k)
          \/ \E v \in Written, t \in Deadlines \cup {Never} : Set(k, v, t)
          \/ \E s \in Spans : Expire(k, s)
    \/ DbSize \/ Tick \/ PurgeExpired
    \/ SaveCreate \/ SaveEnds \/ SaveRefused \/ Kill \/ Boot

(***************************************************************************)
(* The loop comes back to the sweep after every batch of events, however   *)
(* many commands and saves lie between two sweeps; a save returns.         *)
(***************************************************************************)
Spec == Init /\ [][Next]_vars /\ SF_vars(PurgeExpired) /\ WF_vars(SaveEnds)

(***************************************************************************)
(* Properties.                                                             *)
(***************************************************************************)
Keyed(m, R) == DOMAIN m \subseteq Keys /\ \A k \in DOMAIN m : m[k] \in R

\* Every variable has its type; in memory a deadline is a time or Never, in a
\* snapshot always a number.
TypeOK ==
    /\ pc \in {"down", "idle", "save", "lastSave"} /\ now \in Nat
    /\ Keyed(map, Entry)
    /\ Keyed(buf, FileEntry) /\ Keyed(saved, FileEntry) /\ Keyed(file.recs, FileEntry)
    /\ file.whole \in BOOLEAN

(***************************************************************************)
(* Lazy expiry, the sweep, the snapshot's filter and the loader's: to the  *)
(* clients an entry is gone the instant its deadline comes, and a restart  *)
(* goes back to the last snapshot with the deadlines it had.               *)
(***************************************************************************)
Promised == INSTANCE TtlMap WITH
    up    <- pc # "down",
    live  <- Unexpired(map),
    saved <- Unexpired(Loaded(saved))

ImplementsTtlMap == Promised!Spec

(***************************************************************************)
(* README-LEARN.md: "anything written since the last snapshot is lost on a *)
(* crash", so what the last snapshot holds is not: between processes the   *)
(* file is the last completed save, once there is one.                     *)
(***************************************************************************)
SnapshotKept == pc = "down" /\ saved # Nothing => file = [whole |-> TRUE, recs |-> saved]

(***************************************************************************)
(* command.rs on INCR: a number out of range is refused.  No successor is  *)
(* the smallest number, so no reply is.                                    *)
(***************************************************************************)
IncrInRange == reply.op = "INCR" => reply.res # MinInt

(***************************************************************************)
(* Active expiry: an entry past its deadline leaves memory even if nobody  *)
(* touches it again (or a SET or a restart renews it).                     *)
(***************************************************************************)
DeadAreReclaimed ==
    \A k \in Keys : (k \in DOMAIN map /\ k \notin Live) ~> (k \in DOMAIN map => k \in Live)
===============================================================================
