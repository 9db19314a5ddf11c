-------------------------------- MODULE KvStore --------------------------------
(***************************************************************************)
(* What lsmkv promises to its callers: a durable map.                      *)
(*                                                                         *)
(* A write takes effect in one step, and once it has, no crash undoes it.  *)
(* A write that was started and not finished (its call failed, or the      *)
(* process died inside it) may or may not be found after a restart, until  *)
(* a later write of the same key settles the matter.  Nothing else changes *)
(* what a read returns: flushing and compacting cannot be observed.        *)
(***************************************************************************)
CONSTANTS Keys, Values, Gone

VARIABLES
    up,       \* whether a process has the store open
    view,     \* what get returns for each key while the store is open
    settled,  \* the last write of each key that took effect
    doubt     \* values of unfinished writes that a restart may surface

vars == <<up, view, settled, doubt>>

Contents == [Keys -> Values \cup {Gone}]

Init ==
    /\ up = FALSE
    /\ view = [k \in Keys |-> Gone]
    /\ settled = [k \in Keys |-> Gone]
    /\ doubt = [k \in Keys |-> {}]

\* What a restart may make of the store.
Recoverable == {v \in Contents : \A k \in Keys : v[k] \in {settled[k]} \cup doubt[k]}

Start ==
    /\ ~up
    /\ up' = TRUE
    /\ view' \in Recoverable
    /\ UNCHANGED <<settled, doubt>>

Attempt(k, x) ==
    /\ up
    /\ doubt' = [doubt EXCEPT ![k] = @ \cup {x}]
    /\ UNCHANGED <<up, view, settled>>

Commit(k, x) ==
    /\ up
    /\ x \in doubt[k]
    /\ view' = [view EXCEPT ![k] = x]
    /\ settled' = [settled EXCEPT ![k] = x]
    /\ doubt' = [doubt EXCEPT ![k] = {}]
    /\ UNCHANGED up

Stop ==
    /\ up
    /\ up' = FALSE
    /\ view' = [k \in Keys |-> Gone]
    /\ UNCHANGED <<settled, doubt>>

Next ==
    \/ Start
    \/ Stop
    \/ \E k \in Keys, x \in Values \cup {Gone} : Attempt(k, x) \/ Commit(k, x)

Spec == Init /\ [][Next]_vars
===============================================================================
