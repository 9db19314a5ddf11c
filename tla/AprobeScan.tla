------------------------------- MODULE AprobeScan -------------------------------
(***************************************************************************)
(* The port scanner of aprobe (05-async-tokio/src): parse_target of        *)
(* target.rs, scan, scan_sequential and probe_port of scanner.rs.          *)
(*                                                                         *)
(* scan spawns one task per port and holds back when as many probes are in *)
(* flight as there are permits; the tasks end in any order.                *)
(***************************************************************************)
EXTENDS Integers, SequencesExt

CONSTANTS
    Ports,          \* u16
    Specs,          \* port lists a user may give: sequences of [lo, hi]
    Concurrency,    \* cfg.concurrency
    Prompt, Refusing, Silent, Slow   \* how a port may behave

ASSUME ScanNumbersAssumption ==
    /\ Ports \subseteq Nat /\ Concurrency \in Nat
    /\ Specs \subseteq Seq([lo: Ports, hi: Ports])

Behaviours == {Prompt, Refusing, Silent, Slow}

(***************************************************************************)
(* parse_target: a single port is the range from itself to itself.         *)
(***************************************************************************)
EmptyRange(ps) == \E i \in DOMAIN ps : ps[i].lo > ps[i].hi

\* `ports` as the tokens fill it.
Expanded(ps) ==
    FlattenSeq([i \in DOMAIN ps |->
        [j \in 1 .. ps[i].hi - ps[i].lo + 1 |-> ps[i].lo + j - 1]])

(***************************************************************************)
(* Sorting is stable: positions in the order of their keys, equal keys in  *)
(* the order they came in.                                                 *)
(***************************************************************************)
Order(key) ==
    CHOOSE at \in [DOMAIN key -> DOMAIN key] :
       \A i, j \in DOMAIN key : i < j =>
          key[at[i]] < key[at[j]] \/ (key[at[i]] = key[at[j]] /\ at[i] < at[j])

InOrderOf(s, key) == LET at == Order(key) IN [n \in DOMAIN s |-> s[at[n]]]

Sorted(s) == InOrderOf(s, s)

\* dedup drops an element that equals the one before it.
Kept(s) == {i \in DOMAIN s : i = 1 \/ s[i] # s[i - 1]}

Dedup(s) ==
    LET at == CHOOSE at \in [1 .. Cardinality(Kept(s)) -> Kept(s)] :
                 \A i, j \in DOMAIN at : i < j => at[i] < at[j]
    IN [n \in DOMAIN at |-> s[at[n]]]

\* Removing duplicates before they are neighbours.
DedupThenSort(ps) == Sorted(Dedup(Expanded(ps)))

TargetPorts(ps) == Dedup(Sorted(Expanded(ps)))

VARIABLES
    step,       \* scan: "spawning", "joining", "returned"; "refused" by parse_target
    spec,       \* the port list of the command line
    target,     \* its ports, as parse_target returns them
    net,        \* how each port behaves
    next,       \* index of the port to spawn next
    permits,    \* the semaphore's
    probing,    \* ports whose probe is in flight
    finished,   \* port |-> state, for tasks that ended and are not joined
    outcomes    \* [port, state] in the order they were collected

scanVars == <<step, spec, target, net, next, permits, probing, finished, outcomes>>

\* concurrency.max(1)
Width == IF Concurrency = 0 THEN 1 ELSE Concurrency

ScanInit ==
    /\ spec \in Specs /\ net \in [Ports -> Behaviours]
    /\ step = IF EmptyRange(spec) THEN "refused" ELSE "spawning"
    /\ target = IF EmptyRange(spec) THEN <<>> ELSE TargetPorts(spec)
    /\ next = 1 /\ permits = Width /\ probing = {}
    /\ finished = [p \in {} |-> "Open"] /\ outcomes = <<>>

(***************************************************************************)
(* probe_port: the connect races the timeout.  A slow port answers at      *)
(* about the time the timeout fires.                                       *)
(***************************************************************************)
Probes(p) == CASE net[p] = Prompt   -> {"Open"}
               [] net[p] = Refusing -> {"Closed"}
               [] net[p] = Silent   -> {"Filtered"}
               [] net[p] = Slow     -> {"Open", "Filtered"}

\* Spawning without asking the semaphore.
AnyTime == TRUE

PermitFree == permits > 0

\* Once the port's turn has come, wait for a permit and spawn.
Spawn ==
    /\ step = "spawning" /\ next <= Len(target) /\ PermitFree
    /\ permits' = permits - 1
    /\ probing' = probing \cup {target[next]}
    /\ next' = next + 1
    /\ UNCHANGED <<step, spec, target, net, finished, outcomes>>

\* A permit that is forgotten instead of dropped.
Forgotten == permits

Released == permits + 1

\* The probe ends, and its task drops the permit.
ProbeEnds(p) ==
    /\ p \in probing
    /\ \E s \in Probes(p) :
          finished' = [q \in DOMAIN finished \cup {p} |-> IF q = p THEN s ELSE finished[q]]
    /\ probing' = probing \ {p}
    /\ permits' = Released
    /\ UNCHANGED <<step, spec, target, net, next, outcomes>>

AllSpawned ==
    /\ step = "spawning" /\ next > Len(target)
    /\ step' = "joining"
    /\ UNCHANGED <<spec, target, net, next, permits, probing, finished, outcomes>>

Join(p) ==
    /\ step = "joining" /\ p \in DOMAIN finished
    /\ outcomes' = Append(outcomes, [port |-> p, state |-> finished[p]])
    /\ finished' = [q \in DOMAIN finished \ {p} |-> finished[q]]
    /\ UNCHANGED <<step, spec, target, net, next, permits, probing>>

\* Leaving the outcomes in the order the tasks ended.
AsCollected(os) == os

ByPort(os) == InOrderOf(os, [i \in DOMAIN os |-> os[i].port])

ScanReturns ==
    /\ step = "joining" /\ probing = {} /\ finished = <<>>
    /\ outcomes' = ByPort(outcomes)
    /\ step' = "returned"
    /\ UNCHANGED <<spec, target, net, next, permits, probing, finished>>

ScanNext ==
    \/ Spawn \/ AllSpawned \/ ScanReturns
    \/ \E p \in Ports : ProbeEnds(p) \/ Join(p)

\* Every probe ends, by its timeout at the latest, and the runtime polls what is ready.
ScanFairness == WF_scanVars(ScanNext)

ScanSpec == ScanInit /\ [][ScanNext]_scanVars /\ ScanFairness

(***************************************************************************)
(* Properties.                                                             *)
(***************************************************************************)

(***************************************************************************)
(* The port list: whatever the user repeats or overlaps, each port of the  *)
(* union of the ranges comes once, in ascending order.                     *)
(***************************************************************************)
PortsOnceInOrder ==
    step # "refused" =>
       /\ ToSet(target) = UNION {spec[i].lo .. spec[i].hi : i \in DOMAIN spec}
       /\ \A i, j \in DOMAIN target : i < j => target[i] < target[j]

(***************************************************************************)
(* The permits bound the probes in flight, and come back: probes and free  *)
(* permits together are always the concurrency asked for.                  *)
(***************************************************************************)
InFlightBounded == permits >= 0 /\ permits + Cardinality(probing) = Width

(***************************************************************************)
(* scan_sequential, the oracle scanner.rs names: the ports one at a time.  *)
(* Whatever order the tasks end in, scan returns one of its results.       *)
(***************************************************************************)
SequentialResults ==
    {os \in [DOMAIN target -> [port: Ports, state: {"Open", "Closed", "Filtered"}]] :
        \A i \in DOMAIN target : os[i].port = target[i] /\ os[i].state \in Probes(target[i])}

SameAsSequential == step = "returned" => outcomes \in SequentialResults

(***************************************************************************)
(* The scan comes to its end, even with a concurrency of 0 on the way in,  *)
(* and with more ports than permits.                                       *)
(***************************************************************************)
ScanEnds == <>(step \in {"returned", "refused"})
===============================================================================
