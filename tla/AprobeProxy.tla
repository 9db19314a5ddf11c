------------------------------ MODULE AprobeProxy ------------------------------
(***************************************************************************)
(* The graceful TCP proxy of aprobe (05-async-tokio/src): run_proxy and    *)
(* handle_conn of proxy.rs, and the Shutdown flag of shutdown.rs.          *)
(*                                                                         *)
(* The accept loop, one task per connection, the task that triggers the    *)
(* shutdown, the clients and the upstream all run concurrently; every      *)
(* await is a point where the others go on.                                *)
(***************************************************************************)
EXTENDS Naturals, FiniteSets

CONSTANTS
    Conns,          \* connections that clients may make, each once
    DrainTimeout,   \* instants the drain waits for the tasks
    MaxTriggers     \* bound: how often the shutdown is triggered

ASSUME ProxyNumbersAssumption == DrainTimeout \in Nat /\ MaxTriggers \in Nat

VARIABLES
    phase,      \* run_proxy: "accepting", "draining", "aborting", "returned", "failed"
    arm,        \* the cancelled() arm of its select: "check", "wait", "parked"
    seen,       \* the version of the flag that arm's receiver has seen
    version,    \* how often the flag was set: it is TRUE once this is not 0
    elapsed,    \* time since the drain began
    conn,       \* connection |-> where it has got
    half        \* connections of which one end has closed

proxyVars == <<phase, arm, seen, version, elapsed, conn, half>>

(***************************************************************************)
(* A connection is "new", then in the listener's "backlog", then a task:   *)
(* "dialling" upstream and "copying".  It "ended" by itself, was "cut"     *)
(* while its task was alive, or is "reset" by the listener's end.          *)
(***************************************************************************)
ConnStates == {"new", "backlog", "dialling", "copying", "ended", "cut", "reset"}

Triggered == version # 0
Alive == {c \in Conns : conn[c] \in {"dialling", "copying"}}

ProxyInit ==
    /\ phase = "accepting" /\ arm = "check" /\ seen = 0 /\ version = 0 /\ elapsed = 0
    /\ conn = [c \in Conns |-> "new"] /\ half = {}

Move(c, from, to) == conn[c] = from /\ conn' = [conn EXCEPT ![c] = to]

(***************************************************************************)
(* The peers.  The listener stays open until run_proxy returns, so clients *)
(* get into the backlog during the drain, too.                             *)
(***************************************************************************)
Arrive(c) ==
    /\ phase \in {"accepting", "draining", "aborting"}
    /\ Move(c, "new", "backlog")
    /\ UNCHANGED <<phase, arm, seen, version, elapsed, half>>

\* One end closes, then the other; copying goes on in the direction left.
CloseOneEnd(c) ==
    /\ conn[c] = "copying" /\ c \notin half
    /\ half' = half \cup {c}
    /\ UNCHANGED <<phase, arm, seen, version, elapsed, conn>>

(***************************************************************************)
(* The task of a connection.  Its result is thrown away: an error ends     *)
(* that task and nothing else.                                             *)
(***************************************************************************)
Dialled(c) ==
    /\ Move(c, "dialling", "copying")
    /\ UNCHANGED <<phase, arm, seen, version, elapsed, half>>

DialFails(c) ==
    /\ Move(c, "dialling", "ended")
    /\ UNCHANGED <<phase, arm, seen, version, elapsed, half>>

\* copy_bidirectional returns when both directions have ended, or on a reset.
CopyEnds(c) ==
    /\ c \in half
    /\ Move(c, "copying", "ended")
    /\ UNCHANGED <<phase, arm, seen, version, elapsed, half>>

CopyFails(c) ==
    /\ Move(c, "copying", "ended")
    /\ UNCHANGED <<phase, arm, seen, version, elapsed, half>>

(***************************************************************************)
(* The accept loop.  select! polls its two arms in random order; the       *)
(* cancelled() future is a new one in every round of the loop.             *)
(***************************************************************************)

\* Waiting for the task of the last connection before the next accept.
AcceptAfterTask == Alive = {}

\* The task is spawned and not awaited.
MayAccept == TRUE

Accept(c) ==
    /\ phase = "accepting" /\ MayAccept
    /\ Move(c, "backlog", "dialling")
    /\ arm' = "check"
    /\ UNCHANGED <<phase, seen, version, elapsed, half>>

\* A listener that something else holds on to.
ListenerKept == conn

\* The listener goes with run_proxy, and with it what is left in the backlog.
ListenerDropped == [c \in Conns |-> IF conn[c] = "backlog" THEN "reset" ELSE conn[c]]

\* `accepted?` returns at once, told to or not.  The JoinSet it drops asks every task to
\* abort and waits for none: they are still alive when run_proxy has returned.
AcceptFails ==
    /\ phase = "accepting"
    /\ phase' = "failed"
    /\ conn' = ListenerDropped
    /\ UNCHANGED <<arm, seen, version, elapsed, half>>

Break == phase' = "draining" /\ elapsed' = 0

\* A receiver made after the check has already seen what was sent before.
LatestVersion == version

\* The receiver is cloned before the check from one that has seen nothing.
VersionOfClone == 0

\* cancelled(): return at once if the flag is set, ...
CheckFlag ==
    /\ phase = "accepting" /\ arm = "check"
    /\ IF Triggered THEN Break /\ UNCHANGED arm
       ELSE arm' = "wait" /\ UNCHANGED <<phase, elapsed>>
    /\ UNCHANGED <<seen, version, conn, half>>

\* ... otherwise wait for a version the receiver has not seen.
AwaitChange ==
    /\ phase = "accepting" /\ arm = "wait"
    /\ arm' = "parked" /\ seen' = VersionOfClone
    /\ UNCHANGED <<phase, version, elapsed, conn, half>>

Changed ==
    /\ phase = "accepting" /\ arm = "parked" /\ version # seen
    /\ Break
    /\ UNCHANGED <<arm, seen, version, conn, half>>

\* Another task: the first Ctrl-C, or a caller's.
Trigger ==
    /\ version < MaxTriggers
    /\ version' = version + 1
    /\ UNCHANGED <<phase, arm, seen, elapsed, conn, half>>

(***************************************************************************)
(* The drain: join every task, for DrainTimeout at most; then abort the    *)
(* ones that are left and wait for them to be gone.                        *)
(***************************************************************************)
Tick ==
    /\ phase = "draining" /\ elapsed < DrainTimeout
    /\ elapsed' = elapsed + 1
    /\ UNCHANGED <<phase, arm, seen, version, conn, half>>

Return ==
    /\ phase' = "returned"
    /\ conn' = ListenerDropped
    /\ UNCHANGED <<arm, seen, version, elapsed, half>>

Drained == phase = "draining" /\ Alive = {} /\ Return

\* The timer may fire late, and never early.
TimesOut ==
    /\ phase = "draining" /\ elapsed = DrainTimeout /\ Alive # {}
    /\ phase' = "aborting"
    /\ UNCHANGED <<arm, seen, version, elapsed, conn, half>>

\* An abort reaches a task at its next await: it may still end by itself before.
Abort(c) ==
    /\ phase \in {"aborting", "failed"} /\ c \in Alive
    /\ conn' = [conn EXCEPT ![c] = "cut"]
    /\ UNCHANGED <<phase, arm, seen, version, elapsed, half>>

\* Returning without waiting for the aborted tasks.
NoWait == TRUE

AllGone == Alive = {}

Aborted == phase = "aborting" /\ AllGone /\ Return

RunProxy ==
    \/ CheckFlag \/ AwaitChange \/ Changed
    \/ Tick \/ Drained \/ TimesOut \/ Aborted
    \/ \E c \in Conns : Abort(c)

ProxyNext ==
    \/ RunProxy \/ AcceptFails \/ Trigger
    \/ \E c \in Conns :
          \/ Accept(c) \/ Arrive(c) \/ CloseOneEnd(c)
          \/ Dialled(c) \/ DialFails(c) \/ CopyEnds(c) \/ CopyFails(c)

(***************************************************************************)
(* The runtime polls run_proxy when something it waits for is ready, and   *)
(* drops the tasks that are to abort; select! prefers neither arm.  Dials  *)
(* and transfers may take for ever.                                        *)
(***************************************************************************)
ProxyFairness == WF_proxyVars(RunProxy) /\ \A c \in Conns : WF_proxyVars(Accept(c))

ProxySpec == ProxyInit /\ [][ProxyNext]_proxyVars /\ ProxyFairness

(***************************************************************************)
(* Properties.                                                             *)
(***************************************************************************)

\* Every variable has its type, an end only closes once it is being copied, and no
\* client is left waiting in the backlog of a proxy that is gone.
ProxyTypeOK ==
    /\ phase \in {"accepting", "draining", "aborting", "returned", "failed"}
    /\ arm \in {"check", "wait", "parked"}
    /\ version \in 0 .. MaxTriggers /\ seen \in 0 .. version
    /\ elapsed \in 0 .. DrainTimeout
    /\ conn \in [Conns -> ConnStates] /\ half \subseteq Conns
    /\ \A c \in half : conn[c] \in {"copying", "ended", "cut"}
    /\ phase \in {"returned", "failed"} => \A c \in Conns : conn[c] # "backlog"

(***************************************************************************)
(* Graceful means bounded, and nothing else is cut off: told to shut down, *)
(* run_proxy aborts a task only after the whole drain timeout, and does    *)
(* not return before the aborted tasks are gone.  The one exception is the *)
(* failing accept (proxy.rs:60), which leaves the loop untold and has the  *)
(* transfers under way cut, be they new or nearly done: it ends in         *)
(* "failed", and every other way out of the loop is by a trigger.          *)
(***************************************************************************)
CutOnlyLate ==
    /\ \A c \in Conns : conn[c] = "cut" => elapsed = DrainTimeout \/ phase = "failed"
    /\ phase \in {"draining", "aborting", "returned"} => Triggered
    /\ phase = "returned" => Alive = {}

(***************************************************************************)
(* A shutdown that is requested at any moment, also between the check of   *)
(* the flag and the wait for its change, ends the proxy, even if clients   *)
(* keep coming and no transfer ever ends.                                  *)
(***************************************************************************)
ShutdownEnds == Triggered ~> phase \in {"returned", "failed"}

(***************************************************************************)
(* A connection in the backlog is accepted, unless the proxy stops,        *)
(* however long the dials and transfers of the others take.  Each comes    *)
(* once, so from some moment on none is there while the loop runs.         *)
(***************************************************************************)
AcceptedRegardless == <>[](phase = "accepting" => \A c \in Conns : conn[c] # "backlog")
===============================================================================
