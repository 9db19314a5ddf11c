-------------------------------- MODULE TtlMap --------------------------------
(***************************************************************************)
(* What rudis' keyspace promises to its clients: a map whose entries are   *)
(* gone the instant their deadline comes, and a snapshot that a restart    *)
(* goes back to.  There is no sweep here and no dead entry: whether and    *)
(* when the store throws expired entries away cannot be observed.          *)
(***************************************************************************)
EXTENDS Integers, FiniteSets

CONSTANTS
    Keys,
    Text,           \* a value that is no number
    MaxInt,         \* the largest number a value can hold
    Second,         \* milliseconds in a second
    Written,        \* the values a client may write
    Deadlines,      \* the instants a client may name
    Spans,          \* the times to live a client may name, in seconds
    Never,          \* the deadline of an entry that does not expire
    Nil, Ok, Err    \* replies: no such key, done, refused

MinInt == -MaxInt - 1
Numbers == MinInt .. MaxInt

VARIABLES
    up,     \* whether the server runs
    now,    \* the clock, in milliseconds
    live,   \* the entries: key |-> [val, exp]
    saved,  \* the entries of the last snapshot
    reply   \* the last reply: [op, key, res]

vars == <<up, now, live, saved, reply>>

Drop(m, k) == [j \in DOMAIN m \ {k} |-> m[j]]
Put(m, k, v, t) ==
    [j \in DOMAIN m \cup {k} |-> IF j = k THEN [val |-> v, exp |-> t] ELSE m[j]]
UnexpiredAt(m, t) == [k \in {j \in DOMAIN m : m[j].exp = Never \/ t < m[j].exp} |-> m[k]]
Nothing == [k \in {} |-> Nil]

Init ==
    /\ up = FALSE /\ now = 0
    /\ live = Nothing /\ saved = Nothing
    /\ reply = [op |-> "NONE", key |-> Nil, res |-> Nil]

Pass ==
    /\ now' > now
    /\ live' = UnexpiredAt(live, now')
    /\ saved' = UnexpiredAt(saved, now')
    /\ UNCHANGED <<up, reply>>

Answer(op, k, r) ==
    /\ up
    /\ reply' = [op |-> op, key |-> k, res |-> r]
    /\ UNCHANGED <<up, now>>

Look(k) ==
    /\ \/ Answer("GET", k, IF k \in DOMAIN live THEN live[k].val ELSE Nil)
       \/ Answer("EXISTS", k, IF k \in DOMAIN live THEN 1 ELSE 0)
       \/ Answer("TTL", k, IF k \notin DOMAIN live THEN -2
                           ELSE IF live[k].exp = Never THEN -1
                           ELSE (live[k].exp - now) \div Second)
    /\ UNCHANGED <<live, saved>>

Size ==
    /\ Answer("DBSIZE", Nil, Cardinality(DOMAIN live))
    /\ UNCHANGED <<live, saved>>

\* The deadline was computed when the request was parsed and may have passed.
Set(k, v, t) ==
    /\ Answer("SET", k, Ok)
    /\ live' = UnexpiredAt(Put(live, k, v, t), now)
    /\ UNCHANGED saved

Del(k) ==
    /\ Answer("DEL", k, IF k \in DOMAIN live THEN 1 ELSE 0)
    /\ live' = Drop(live, k)
    /\ UNCHANGED saved

Expire(k, s) ==
    /\ Answer("EXPIRE", k, IF k \in DOMAIN live THEN 1 ELSE 0)
    /\ live' = IF k \in DOMAIN live
               THEN UnexpiredAt(Put(live, k, live[k].val, now + s * Second), now)
               ELSE live
    /\ UNCHANGED saved

\* A missing key counts as 0; a deadline the key has is kept; a value that is
\* no number, or has no successor, is refused.
Incr(k) ==
    /\ \/ /\ k \in DOMAIN live /\ live[k].val \in Numbers \ {MaxInt}
          /\ Answer("INCR", k, live[k].val + 1)
          /\ live' = Put(live, k, live[k].val + 1, live[k].exp)
       \/ /\ k \notin DOMAIN live
          /\ Answer("INCR", k, 1)
          /\ live' = Put(live, k, 1, Never)
       \/ /\ k \in DOMAIN live /\ live[k].val \in {Text, MaxInt}
          /\ Answer("INCR", k, Err)
          /\ UNCHANGED live
    /\ UNCHANGED saved

Save ==
    /\ \/ Answer("SAVE", Nil, Ok) /\ saved' = live
       \/ Answer("SAVE", Nil, Err) /\ UNCHANGED saved
    /\ UNCHANGED live

\* The server ends: on a signal with a snapshot, or killed.
Stop ==
    /\ up /\ up' = FALSE
    /\ live' = Nothing
    /\ saved' \in {saved, live}
    /\ UNCHANGED <<now, reply>>

Start ==
    /\ ~up /\ up' = TRUE
    /\ live' = saved
    /\ UNCHANGED <<now, saved, reply>>

Next ==
    \/ Pass \/ Size \/ Save \/ Stop \/ Start
    \/ \E k \in Keys :
          \/ Look(k) \/ Del(k) \/ Incr(k)
          \/ \E s \in Spans : Expire(k, s)
          \/ \E v \in Written, t \in Deadlines \cup {Never} : Set(k, v, t)

Spec == Init /\ [][Next]_vars
===============================================================================
