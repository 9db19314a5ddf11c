-------------------------------- MODULE Taskline --------------------------------
(***************************************************************************)
(* The to-do service taskline (06-web-services/src): handlers.rs behind    *)
(* the extractor of auth.rs and the layers of app.rs, over a database that *)
(* may be slow, fail, or hang.                                             *)
(*                                                                         *)
(* A handler runs up to its one statement, waits for a connection of the   *)
(* pool and then for the statement, and turns the result into a reply.     *)
(* The timeout drops it at either await; a statement that was sent by then *)
(* may run all the same.  A client is who knows a password.                *)
(***************************************************************************)
EXTENDS Integers, FiniteSets

CONSTANTS
    Clients, Emails, Titles, ValidTitles,
    Queries,        \* request |-> what a client may ask in it
    Databases,      \* what may be there when the server starts: users, tasks, tokens
    MaxConnections, \* of the pool
    MaxRequests,    \* bound
    MaxFaults,      \* bound: requests that meet a failure of the database
    NotGiven        \* a field that is not given

Requests == 1 .. MaxRequests

\* A row's id is fresh; here it is the number of the request that inserts it, or one
\* of an earlier life of the server.
Ids == Int

User == [id: Ids, email: Emails, password: Clients]
Task == [id: Ids, user: Ids, title: Titles, done: BOOLEAN]
Token == [client: Clients, sub: Ids]

Body ==
    [op: {"register"}, client: Clients, email: Emails, valid: BOOLEAN]
    \cup [op: {"login"}, client: Clients, email: Emails]
    \cup [op: {"list"}, client: Clients]
    \cup [op: {"create"}, client: Clients, title: Titles]
    \cup [op: {"get", "delete"}, client: Clients, task: Ids]
    \cup [op: {"update"}, client: Clients, task: Ids, title: Titles \cup {NotGiven},
          done: BOOLEAN \cup {NotGiven}]

\* An account is its password's owner's, and each e-mail has one.
Sound(users, tokens) ==
    /\ \A u, v \in users : u.id = v.id \/ u.email = v.email => u = v
    /\ \A t \in tokens : \E u \in users : u.id = t.sub /\ u.password = t.client

ASSUME TasklineAssumption ==
    /\ {MaxConnections, MaxRequests, MaxFaults} \subseteq Nat
    /\ ValidTitles \subseteq Titles /\ NotGiven \notin Titles \cup BOOLEAN \cup Ids
    /\ Queries \in [Requests -> SUBSET Body]
    /\ \A d \in Databases :
          /\ d.users \subseteq User /\ d.tasks \subseteq Task /\ d.tokens \subseteq Token
          /\ Sound(d.users, d.tokens)
          /\ \A t \in d.tasks : \E u \in d.users : u.id = t.user
          /\ \A x \in d.users \cup d.tasks : x.id \notin Requests

VARIABLES
    users, tasks,   \* the tables
    tokens,         \* what login has signed, and for whom
    call,           \* request |-> how far its handler and its statement have got
    server          \* "up", "draining" after Ctrl-C, "stopped"

tlVars == <<users, tasks, tokens, call, server>>

NoCall == [phase |-> "free", stmt |-> "none", what |-> NotGiven, user |-> NotGiven,
         rows |-> {}, failed |-> "no", wrote |-> FALSE, status |-> 0]

TasklineInit ==
    /\ \E d \in Databases : users = d.users /\ tasks = d.tasks /\ tokens = d.tokens
    /\ call = [r \in Requests |-> NoCall]
    /\ server = "up"

Op(r) == call[r].what.op
Arrived == {r \in Requests : call[r].phase # "free"}

(***************************************************************************)
(* Arrival: the extractors, then validate(), up to the first await.        *)
(***************************************************************************)
Open(q) == q.op \in {"register", "login"}

\* What the handler's validate() accepts; update_task does not call its own.
Validates(q) ==
    CASE q.op = "register" -> q.valid
      [] q.op = "create"   -> q.title \in ValidTitles
      [] OTHER             -> TRUE

Begun(r, q, user, phase, status) ==
    call' = [call EXCEPT ![r] = [NoCall EXCEPT !.what = q, !.user = user,
                                             !.phase = phase, !.status = status]]

Admitted(r, q, user) ==
    \/ ~Validates(q) /\ Begun(r, q, user, "answered", 422)
    \/ Validates(q) /\ Begun(r, q, user, "waiting", 0)

\* The token of a task request names the user; without one, or with one that has
\* expired meanwhile, the request ends at 401.
Handle(r, q) ==
    /\ server = "up" /\ r = Cardinality(Arrived) + 1
    /\ \/ Open(q) /\ Admitted(r, q, NotGiven)
       \/ ~Open(q) /\ Begun(r, q, NotGiven, "answered", 401)
       \/ /\ ~Open(q)
          /\ \E t \in tokens : t.client = q.client /\ Admitted(r, q, t.sub)
    /\ UNCHANGED <<users, tasks, tokens, server>>

(***************************************************************************)
(* The pool.                                                               *)
(***************************************************************************)

\* A connection is taken until its statement has ended and nobody reads the result.
Busy == {r \in Requests : call[r].phase = "running" \/ call[r].stmt = "sent"}

\* A connection per request.
Unpooled == TRUE

ConnectionFree == Cardinality(Busy) < MaxConnections

Acquire(r) ==
    /\ call[r].phase = "waiting" /\ ConnectionFree
    /\ call' = [call EXCEPT ![r].phase = "running", ![r].stmt = "sent"]
    /\ UNCHANGED <<users, tasks, tokens, server>>

FaultLeft == Cardinality({r \in Requests : call[r].failed = "other"}) < MaxFaults

AcquireFails(r) ==
    /\ call[r].phase = "waiting" /\ FaultLeft
    /\ call' = [call EXCEPT ![r].phase = "answered", ![r].status = 500,
                            ![r].failed = "other"]
    /\ UNCHANGED <<users, tasks, tokens, server>>

(***************************************************************************)
(* The statements.  Each runs at once in the database, at any time after   *)
(* it was sent, or never.                                                  *)
(***************************************************************************)
Returns(r, rows, failed, wrote) ==
    /\ call[r].stmt = "sent"
    /\ call' = [call EXCEPT ![r].stmt = "done", ![r].rows = rows,
                            ![r].failed = failed, ![r].wrote = wrote]
    /\ UNCHANGED <<tokens, server>>

InsertUser(r) ==
    LET q == call[r].what
        row == [id |-> r, email |-> q.email, password |-> q.client]
    IN /\ q.op = "register"
       /\ \/ /\ \E u \in users : u.email = q.email
             /\ Returns(r, {}, "unique", FALSE) /\ UNCHANGED users
          \/ /\ \A u \in users : u.email # q.email
             /\ Returns(r, {row}, "no", TRUE) /\ users' = users \cup {row}
       /\ UNCHANGED tasks

SelectUser(r) ==
    /\ Op(r) = "login"
    /\ Returns(r, {u \in users : u.email = call[r].what.email}, "no", FALSE)
    /\ UNCHANGED <<users, tasks>>

SelectTasks(r) ==
    /\ Op(r) = "list"
    /\ Returns(r, {t \in tasks : t.user = call[r].user}, "no", FALSE)
    /\ UNCHANGED <<users, tasks>>

InsertTask(r) ==
    LET row == [id |-> r, user |-> call[r].user, title |-> call[r].what.title, done |-> FALSE]
    IN /\ Op(r) = "create"
       /\ Returns(r, {row}, "no", TRUE)
       /\ tasks' = tasks \cup {row}
       /\ UNCHANGED users

\* Forgetting the second half of the WHERE.
ById(r) == {t \in tasks : t.id = call[r].what.task}

\* WHERE id = ... AND user_id = ...
Selected(r) == {t \in tasks : t.id = call[r].what.task /\ t.user = call[r].user}

SelectTask(r) ==
    /\ Op(r) = "get"
    /\ Returns(r, Selected(r), "no", FALSE)
    /\ UNCHANGED <<users, tasks>>

Coalesce(new, old) == IF new = NotGiven THEN old ELSE new

UpdateTask(r) ==
    LET q == call[r].what
        rows == {[t EXCEPT !.title = Coalesce(q.title, @), !.done = Coalesce(q.done, @)]
                    : t \in Selected(r)}
    IN /\ q.op = "update"
       /\ Returns(r, rows, "no", rows # {})
       /\ tasks' = (tasks \ Selected(r)) \cup rows
       /\ UNCHANGED users

DeleteTask(r) ==
    /\ Op(r) = "delete"
    /\ Returns(r, Selected(r), "no", Selected(r) # {})
    /\ tasks' = tasks \ Selected(r)
    /\ UNCHANGED users

\* The connection is lost, before the statement ran or after it.
Breaks(r) ==
    /\ FaultLeft /\ (call[r].stmt = "sent" \/ call[r].phase = "running")
    /\ call' = [call EXCEPT ![r].stmt = "done", ![r].failed = "other"]
    /\ UNCHANGED <<users, tasks, tokens, server>>

(***************************************************************************)
(* The handler goes on with the result.                                    *)
(***************************************************************************)
Replies(r, status) ==
    /\ call[r].phase = "running" /\ call[r].stmt = "done"
    /\ call' = [call EXCEPT ![r].phase = "answered", ![r].status = status]
    /\ UNCHANGED <<users, tasks, server>>

QueryFails(r) ==
    /\ call[r].failed # "no"
    /\ Replies(r, IF call[r].failed = "unique" THEN 409 ELSE 500)
    /\ UNCHANGED tokens

\* Whether an account exists is all that counts.
AnyPassword(r, u) == TRUE

VerifyPassword(r, u) == u.password = call[r].what.client

LoginEnds(r) ==
    /\ call[r].phase = "running" /\ Op(r) = "login" /\ call[r].failed = "no"
    /\ \/ /\ \A u \in call[r].rows : ~VerifyPassword(r, u)
          /\ Replies(r, 401) /\ UNCHANGED tokens
       \/ \E u \in call[r].rows :
             /\ VerifyPassword(r, u)
             /\ Replies(r, 200)
             /\ tokens' = tokens \cup {[client |-> call[r].what.client, sub |-> u.id]}

\* A deletion that found nothing is a success like any other.
Blind(op, rows) == FALSE

\* fetch_one without a row is RowNotFound; delete_task looks at rows_affected.
Missing(op, rows) == op \in {"get", "update", "delete"} /\ rows = {}

Success(op) == CASE op \in {"register", "create"} -> 201
                 [] op = "delete" -> 204
                 [] OTHER -> 200

Finishes(r) ==
    /\ call[r].phase = "running" /\ Op(r) # "login" /\ call[r].failed = "no"
    /\ Replies(r, IF Missing(Op(r), call[r].rows) THEN 404 ELSE Success(Op(r)))
    /\ UNCHANGED tokens

(***************************************************************************)
(* The timeout, and the shutdown.                                          *)
(***************************************************************************)

\* A router without the timeout layer.
NoLimit == FALSE

TimeLimit == TRUE

TimeoutFires(r) ==
    /\ TimeLimit /\ call[r].phase \in {"waiting", "running"}
    /\ call' = [call EXCEPT ![r].phase = "answered", ![r].status = 408]
    /\ UNCHANGED <<users, tasks, tokens, server>>

CtrlC ==
    /\ server = "up" /\ server' = "draining"
    /\ UNCHANGED <<users, tasks, tokens, call>>

\* Graceful shutdown waits for the requests in flight.
Stop ==
    /\ server = "draining" /\ \A r \in Arrived : call[r].phase = "answered"
    /\ server' = "stopped"
    /\ UNCHANGED <<users, tasks, tokens, call>>

Statement(r) ==
    \/ InsertUser(r) \/ SelectUser(r) \/ SelectTasks(r) \/ InsertTask(r)
    \/ SelectTask(r) \/ UpdateTask(r) \/ DeleteTask(r)

TasklineNext ==
    \/ \E r \in Requests :
          \/ \E q \in Queries[r] : Handle(r, q)
          \/ Acquire(r) \/ AcquireFails(r) \/ Breaks(r)
          \/ call[r].stmt = "sent" /\ Statement(r)
          \/ QueryFails(r) \/ LoginEnds(r) \/ Finishes(r) \/ TimeoutFires(r)
    \/ CtrlC \/ Stop

\* The runtime's timers fire and axum notices the end of the last request; the
\* database owes nothing.
TasklineFairness == WF_tlVars(Stop) /\ \A r \in Requests : WF_tlVars(TimeoutFires(r))

TasklineSpec == TasklineInit /\ [][TasklineNext]_tlVars /\ TasklineFairness

(***************************************************************************)
(* Properties.                                                             *)
(***************************************************************************)

\* The tables keep their types and keys, and no more statements are at the database
\* than the pool has connections, the ones whose requests were given up included.
TasklineTypeOK ==
    /\ users \subseteq User /\ tasks \subseteq Task /\ tokens \subseteq Token
    /\ \A u, v \in users : u.id = v.id \/ u.email = v.email => u = v
    /\ \A t \in tasks : \E u \in users : u.id = t.user
    /\ Cardinality(Busy) <= MaxConnections

\* Clients whose password the account u has.
OwnedBy(id, c) == \E u \in users : u.id = id /\ u.password = c

(***************************************************************************)
(* A token for an account is only ever with a client who knows the         *)
(* account's password (login verifies, issue signs), also when clients     *)
(* race for one e-mail.                                                    *)
(***************************************************************************)
TokensEarned == \A t \in tokens : OwnedBy(t.sub, t.client)

(***************************************************************************)
(* handlers.rs: "someone else's id is a clean 404, never a leak".  No task *)
(* is in the result of a client who does not own it, and a step changes    *)
(* only tasks of the client whose statement ran in it.                     *)
(***************************************************************************)
ResultsOwn ==
    \A r \in Arrived : ~Open(call[r].what) =>
       \A t \in call[r].rows : OwnedBy(t.user, call[r].what.client)

ChangesOwn ==
    \A t \in (tasks \ tasks') \cup (tasks' \ tasks) :
       \E r \in Requests :
          /\ call[r].stmt = "sent" /\ call'[r].stmt = "done"
          /\ OwnedBy(t.user, call[r].what.client)

OwnerScoped == [][ResultsOwn' /\ ChangesOwn]_tlVars

(***************************************************************************)
(* What clients are told is what happened: a success means that the row    *)
(* was written, a refusal (401, 404, 409, 422) that nothing was and        *)
(* nothing will be; only 408 and 500 leave it open.  A created task stays  *)
(* until a deletion found it.                                              *)
(***************************************************************************)
Writes(op) == op \in {"register", "create", "update", "delete"}

RepliesTrue ==
    \A r \in Arrived :
       LET c == call[r] IN
       /\ c.status \in {200, 201, 204} /\ Writes(c.what.op) => c.wrote
       /\ c.status \in {401, 404, 409, 422} => ~c.wrote /\ c.stmt # "sent"
       /\ c.status = 201 /\ c.what.op = "create" =>
             \/ \E t \in tasks : t.id = r
             \/ \E d \in Arrived : Op(d) = "delete" /\ call[d].what.task = r /\ call[d].wrote

(***************************************************************************)
(* Every request is answered though the database may hang, and so Ctrl-C   *)
(* ends the server: a request comes once and an answer is final, so from   *)
(* some moment on none is open, and the server does not drain.             *)
(***************************************************************************)
RequestsAnswered ==
    <>[](server # "draining" /\ \A r \in Arrived : call[r].phase = "answered")
===============================================================================
