----------------------------- MODULE ServiceProofs ------------------------------
(***************************************************************************)
(* Theorems about the three programs that serve or ask over a network:     *)
(* taskline, for any clients, databases, number of requests and size of    *)
(* the pool; aprobe's proxy, for every set of connections, every drain     *)
(* timeout and any number of triggers; and aprobe's scanner, for every set *)
(* of ports and port list, any concurrency and however the ports behave.   *)
(***************************************************************************)
EXTENDS Taskline, AprobeProxy, AprobeScan, FiniteSetTheorems, SequenceTheorems,
        WellFoundedInduction, TLAPS

(***************************************************************************)
(* taskline.                                                               *)
(***************************************************************************)

(***************************************************************************)
(* The inductive invariant.  What a request's record says of how far it    *)
(* got, ...                                                                *)
(***************************************************************************)
Call ==
    [phase: {"free", "waiting", "running", "answered"}, stmt: {"none", "sent", "done"},
     what: Body \cup {NotGiven}, user: Ids \cup {NotGiven}, rows: SUBSET (User \cup Task),
     failed: {"no", "unique", "other"}, wrote: BOOLEAN, status: Nat]

\* ... a statement that ran and did not fail wrote what its kind writes, ...
Effect(op, rows, wrote) ==
    /\ op \in {"register", "create"} => wrote
    /\ op \in {"update", "delete"} => (wrote <=> rows # {})
    /\ op \in {"login", "list", "get"} => ~wrote

Progress(c) ==
    /\ c.phase = "free" => c.stmt = "none"
    /\ c.phase # "free" => c.what \in Body
    /\ c.phase = "waiting" => c.stmt = "none" /\ c.status = 0 /\ c.failed = "no"
    /\ c.phase = "running" => c.stmt # "none" /\ c.status = 0
    /\ c.phase = "free" => c.status = 0
    /\ c.stmt # "done" => ~c.wrote /\ c.rows = {}
    /\ c.stmt = "sent" => c.failed = "no"
    /\ c.failed = "unique" => ~c.wrote
    /\ c.stmt = "done" /\ c.failed = "no" => Effect(c.what.op, c.rows, c.wrote)

\* ... and the status of its answer does not say more.
Honest(c) ==
    /\ c.status \in {200, 201, 204} /\ Writes(c.what.op) => c.wrote
    /\ c.status \in {401, 404, 409, 422} => ~c.wrote /\ c.stmt # "sent"

CallsOK ==
    /\ call \in [Requests -> Call]
    /\ \A r \in Requests : Progress(call[r]) /\ Honest(call[r])

\* Requests are numbered as they arrive.
InOrder == \E n \in 0 .. MaxRequests : Arrived = 1 .. n

\* An account comes from the statement of its request, if not from an earlier life.
AccountsFresh == \A u \in users : u.id \in Requests => call[u.id].stmt = "done"

\* A login sees accounts that are there, a task request acts for its client's account,
\* and its rows are that account's tasks.
Authorised ==
    \A r \in Arrived :
       LET c == call[r] IN
       /\ c.what.op = "login" => c.rows \subseteq users
       /\ ~Open(c.what) =>
             /\ c.phase \in {"waiting", "running"} \/ c.stmt # "none" => c.user # NotGiven
             /\ c.user # NotGiven => OwnedBy(c.user, c.what.client)
             /\ \A t \in c.rows : t \in Task /\ t.user = c.user /\ c.user # NotGiven

\* A created task is there, or its deletion is.
CreatedStay ==
    \A r \in Arrived : Op(r) = "create" /\ call[r].wrote =>
       \/ \E t \in tasks : t.id = r
       \/ \E d \in Arrived : Op(d) = "delete" /\ call[d].what.task = r /\ call[d].wrote

TasklineInv ==
    /\ TasklineTypeOK /\ TokensEarned
    /\ CallsOK /\ InOrder /\ AccountsFresh /\ Authorised /\ CreatedStay

(***************************************************************************)
(* The server starts on a sound database, without a request.               *)
(***************************************************************************)
LEMMA RequestsFinite ==
    /\ IsFiniteSet(Requests)
    /\ \A n \in 0 .. MaxRequests : Cardinality(1 .. n) = n
<1>1. MaxRequests \in Nat
  BY TasklineAssumption
<1>2. IsFiniteSet(Requests)
  BY <1>1, FS_Interval DEF Requests
<1>3. ASSUME NEW n \in 0 .. MaxRequests PROVE Cardinality(1 .. n) = n
  <2>1. n \in Int /\ 1 \in Int
    BY <1>1
  <2> QED
    BY <1>1, <2>1, FS_Interval
<1> QED
  BY <1>2, <1>3

LEMMA InitInv == TasklineInit => TasklineInv
<1> SUFFICES ASSUME TasklineInit PROVE TasklineInv
  OBVIOUS
<1>1. PICK d \in Databases : users = d.users /\ tasks = d.tasks /\ tokens = d.tokens
  BY DEF TasklineInit
<1>2. /\ users \subseteq User /\ tasks \subseteq Task /\ tokens \subseteq Token
      /\ Sound(users, tokens)
      /\ \A t \in tasks : \E u \in users : u.id = t.user
      /\ \A u \in users : u.id \notin Requests
  BY <1>1, TasklineAssumption
<1>3. call = [r \in Requests |-> NoCall]
  BY DEF TasklineInit
<1>4. Arrived = {} /\ Busy = {}
  BY <1>3 DEF Arrived, Busy, NoCall
<1>5. TasklineTypeOK
  BY <1>2, <1>4, FS_EmptySet, TasklineAssumption DEF TasklineTypeOK, Sound
<1>6. TokensEarned
  BY <1>2 DEF TokensEarned, OwnedBy, Sound
<1>7. CallsOK
  BY <1>3 DEF CallsOK, NoCall, Call, Progress, Honest, Effect
<1>8. InOrder
  <2>1. 0 \in 0 .. MaxRequests /\ 1 .. 0 = {}
    BY TasklineAssumption
  <2> QED
    BY <1>4, <2>1 DEF InOrder
<1> QED
  BY <1>2, <1>4, <1>5, <1>6, <1>7, <1>8 DEF TasklineInv, AccountsFresh, Authorised, CreatedStay

(***************************************************************************)
(* A step changes the record of one request.                               *)
(***************************************************************************)
LEMMA OneCall ==
    ASSUME CallsOK, NEW r \in Requests, NEW c \in Call, Progress(c), Honest(c),
           call' = [call EXCEPT ![r] = c]
    PROVE  CallsOK'
<1>1. call' \in [Requests -> Call]
  BY DEF CallsOK
<1>2. ASSUME NEW q \in Requests PROVE call'[q] = IF q = r THEN c ELSE call[q]
  BY DEF CallsOK
<1>3. \A q \in Requests : Progress(call'[q]) /\ Honest(call'[q])
  BY <1>2 DEF CallsOK
<1> QED
  BY <1>1, <1>3 DEF CallsOK

\* The result of a statement comes back.
LEMMA ReturnStep ==
    ASSUME CallsOK, NEW r \in Requests, NEW rows \in SUBSET (User \cup Task),
           NEW failed \in {"no", "unique"}, NEW wrote \in BOOLEAN,
           Returns(r, rows, failed, wrote),
           failed = "unique" => ~wrote,
           failed = "no" => Effect(Op(r), rows, wrote)
    PROVE  CallsOK'
<1> DEFINE c == [call[r] EXCEPT !.stmt = "done", !.rows = rows, !.failed = failed,
                                !.wrote = wrote]
<1>1. /\ call[r] \in Call /\ Progress(call[r]) /\ Honest(call[r])
      /\ call[r].stmt = "sent" /\ call' = [call EXCEPT ![r] = c]
  BY DEF CallsOK, Returns
<1>2. c \in Call
  BY <1>1 DEF Call
<1>3. Progress(c)
  BY <1>1, <1>2 DEF Progress, Call, Op
<1>4. Honest(c)
  BY <1>1 DEF Honest, Progress, Call
<1> QED
  BY <1>1, <1>2, <1>3, <1>4, OneCall

\* An update keeps the rows it selects tasks of their owner.
LEMMA UpdatedRows ==
    ASSUME TasklineInv, NEW r \in Requests, call[r].stmt = "sent", UpdateTask(r)
    PROVE  LET q == call[r].what
               rows == {[t EXCEPT !.title = Coalesce(q.title, @), !.done = Coalesce(q.done, @)]
                           : t \in Selected(r)}
           IN  /\ Op(r) = "update"
               /\ Returns(r, rows, "no", rows # {})
               /\ tasks' = (tasks \ Selected(r)) \cup rows /\ UNCHANGED <<users, tokens>>
               /\ \A t \in rows : /\ t \in Task /\ t.id = q.task /\ t.user = call[r].user
               /\ Selected(r) = {} => rows = {}
               /\ Selected(r) # {} => \E t \in rows : t.id = q.task
<1> DEFINE q == call[r].what
           New(t) == [t EXCEPT !.title = Coalesce(q.title, @), !.done = Coalesce(q.done, @)]
           rows == {New(t) : t \in Selected(r)}
<1>1. /\ Op(r) = "update" /\ Returns(r, rows, "no", rows # {})
      /\ tasks' = (tasks \ Selected(r)) \cup rows /\ UNCHANGED <<users, tokens>>
  BY DEF UpdateTask, Op, Returns
<1>2. q \in Body
  BY DEF TasklineInv, CallsOK, Progress
<1>3. q.title \in Titles \cup {NotGiven} /\ q.done \in BOOLEAN \cup {NotGiven}
  BY <1>1, <1>2 DEF Body, Op
<1>4. ASSUME NEW t \in Selected(r)
      PROVE  New(t) \in Task /\ New(t).id = q.task /\ New(t).user = call[r].user
  <2>1. t \in Task /\ t.id = q.task /\ t.user = call[r].user
    BY DEF Selected, TasklineInv, TasklineTypeOK
  <2>2. Coalesce(q.title, t.title) \in Titles
    BY <1>3, <2>1 DEF Coalesce, Task
  <2>3. Coalesce(q.done, t.done) \in BOOLEAN
    BY <1>3, <2>1 DEF Coalesce, Task
  <2> QED
    BY <2>1, <2>2, <2>3 DEF Task
<1>5. \A t \in rows : t \in Task /\ t.id = q.task /\ t.user = call[r].user
  <2> HIDE DEF New
  <2> QED
    BY <1>4
<1>6. Selected(r) = {} => rows = {}
  OBVIOUS
<1>7. Selected(r) # {} => \E t \in rows : t.id = q.task
  <2> HIDE DEF New
  <2> QED
    BY <1>4
<1> QED
  BY <1>1, <1>5, <1>6, <1>7

LEMMA CallsStep == TasklineInv /\ TasklineNext => CallsOK'
<1> SUFFICES ASSUME TasklineInv, TasklineNext PROVE CallsOK'
  OBVIOUS
<1>0. /\ CallsOK /\ users \subseteq User /\ tasks \subseteq Task
      /\ \A r \in Requests : call[r] \in Call /\ Progress(call[r]) /\ Honest(call[r])
  BY DEF TasklineInv, CallsOK, TasklineTypeOK
<1>1. ASSUME NEW r \in Requests, NEW q \in Queries[r], Handle(r, q) PROVE CallsOK'
  <2>1. q \in Body
    BY TasklineAssumption
  <2>2. \A t \in tokens : t.sub \in Ids
    BY DEF TasklineInv, TasklineTypeOK, Token
  <2>3. PICK u \in Ids \cup {NotGiven}, p \in {"waiting", "answered"}, s \in {0, 401, 422} :
          /\ Begun(r, q, u, p, s)
          /\ p = "waiting" => s = 0
    BY <1>1, <2>2 DEF Handle, Admitted
  <2> DEFINE c == [NoCall EXCEPT !.what = q, !.user = u, !.phase = p, !.status = s]
  <2>4. call' = [call EXCEPT ![r] = c]
    BY <2>3 DEF Begun
  <2>5. NoCall \in Call /\ s \in Nat
    BY DEF NoCall, Call
  <2>6. c \in Call
    <3>1. [NoCall EXCEPT !.what = q] \in Call
      BY <2>1, <2>5 DEF Call
    <3>2. [NoCall EXCEPT !.what = q, !.user = u] \in Call
      BY <3>1 DEF Call
    <3>3. [NoCall EXCEPT !.what = q, !.user = u, !.phase = p] \in Call
      BY <3>2 DEF Call
    <3>4. \A d \in Call, n \in Nat : [d EXCEPT !.status = n] \in Call
      BY DEF Call
    <3>5. c = [[NoCall EXCEPT !.what = q, !.user = u, !.phase = p] EXCEPT !.status = s]
      OBVIOUS
    <3> QED
      BY <2>5, <3>3, <3>4, <3>5
  <2>7. /\ c.phase = p /\ c.what = q /\ c.status = s /\ c.stmt = "none" /\ c.rows = {}
        /\ c.failed = "no" /\ c.wrote = FALSE
    BY DEF NoCall
  <2>8. Progress(c)
    BY <2>1, <2>3, <2>7 DEF Progress
  <2>9. Honest(c)
    BY <2>3, <2>7 DEF Honest
  <2>10. \E d \in Call : Progress(d) /\ Honest(d) /\ call' = [call EXCEPT ![r] = d]
    BY <2>4, <2>6, <2>8, <2>9
  <2> QED
    BY <1>0, <2>10, OneCall
<1>2. ASSUME NEW r \in Requests, Acquire(r) PROVE CallsOK'
  <2> DEFINE c == [call[r] EXCEPT !.phase = "running", !.stmt = "sent"]
  <2>1. call' = [call EXCEPT ![r] = c] /\ call[r].phase = "waiting"
    BY <1>0, <1>2 DEF Acquire, CallsOK
  <2>2. c \in Call
    BY <1>0, <2>1 DEF Call
  <2>3. Progress(c) /\ Honest(c)
    BY <1>0, <2>1 DEF Call, Progress, Honest
  <2> QED
    BY <1>0, <2>1, <2>2, <2>3, OneCall
<1>3. ASSUME NEW r \in Requests, AcquireFails(r) PROVE CallsOK'
  BY <1>0, <1>3 DEF AcquireFails, CallsOK, Call, Progress, Honest
<1>4. ASSUME NEW r \in Requests, Breaks(r) PROVE CallsOK'
  <2> DEFINE c == [call[r] EXCEPT !.stmt = "done", !.failed = "other"]
  <2>1. call' = [call EXCEPT ![r] = c] /\ (call[r].stmt = "sent" \/ call[r].phase = "running")
    BY <1>0, <1>4 DEF Breaks, CallsOK
  <2>2. c \in Call
    BY <1>0 DEF Call
  <2>3. Progress(c) /\ Honest(c)
    BY <1>0, <2>1 DEF Call, Progress, Honest
  <2> QED
    BY <1>0, <2>1, <2>2, <2>3, OneCall
<1>5. ASSUME NEW r \in Requests, call[r].stmt = "sent", Statement(r) PROVE CallsOK'
  <2>1. call[r].what \in Body /\ r \in Ids
    BY <1>0, <1>5, TasklineAssumption DEF Progress, Requests, Ids
  <2>2. CASE InsertUser(r)
    <3> DEFINE row == [id |-> r, email |-> call[r].what.email, password |-> call[r].what.client]
    <3>1. row \in User /\ Op(r) = "register"
      BY <2>1, <2>2 DEF InsertUser, Body, User, Op
    <3>2. Returns(r, {row}, "no", TRUE) \/ Returns(r, {}, "unique", FALSE)
      BY <2>2 DEF InsertUser
    <3>3. Effect(Op(r), {row}, TRUE)
      BY <3>1 DEF Effect
    <3> HIDE DEF row
    <3> QED
      BY <1>0, <3>1, <3>2, <3>3, ReturnStep
  <2>3. CASE SelectUser(r)
    BY <1>0, <2>3, ReturnStep DEF SelectUser, Effect
  <2>4. CASE SelectTasks(r)
    BY <1>0, <2>4, ReturnStep DEF SelectTasks, Effect
  <2>5. CASE InsertTask(r)
    <3> DEFINE row == [id |-> r, user |-> call[r].user, title |-> call[r].what.title,
                       done |-> FALSE]
    <3>1. Op(r) = "create" /\ Returns(r, {row}, "no", TRUE)
      BY <2>5 DEF InsertTask
    <3>2. call[r].user \in Ids
      BY <1>0, <1>5, <3>1 DEF TasklineInv, Authorised, Arrived, Op, Open, Progress, Call
    <3>3. row \in Task
      BY <2>1, <3>1, <3>2 DEF Op, Body, Task
    <3> HIDE DEF row
    <3> QED
      BY <1>0, <3>1, <3>3, ReturnStep DEF Effect
  <2>6. CASE SelectTask(r)
    BY <1>0, <2>6, ReturnStep DEF SelectTask, Selected, Effect
  <2>7. CASE UpdateTask(r)
    <3> DEFINE q == call[r].what
               rows == {[t EXCEPT !.title = Coalesce(q.title, @), !.done = Coalesce(q.done, @)]
                           : t \in Selected(r)}
    <3>1. Op(r) = "update" /\ Returns(r, rows, "no", rows # {}) /\ \A t \in rows : t \in Task
      BY <1>5, <2>7, UpdatedRows
    <3> HIDE DEF rows
    <3> QED
      BY <1>0, <3>1, ReturnStep DEF Effect
  <2>8. CASE DeleteTask(r)
    BY <1>0, <2>8, ReturnStep DEF DeleteTask, Selected, Effect
  <2> QED
    BY <1>5, <2>2, <2>3, <2>4, <2>5, <2>6, <2>7, <2>8 DEF Statement
<1>6. ASSUME NEW r \in Requests, QueryFails(r) PROVE CallsOK'
  BY <1>0, <1>6 DEF QueryFails, Replies, CallsOK, Call, Progress, Honest
<1>7. ASSUME NEW r \in Requests, LoginEnds(r) PROVE CallsOK'
  BY <1>0, <1>7 DEF LoginEnds, Replies, Op, Writes, CallsOK, Call, Progress, Effect, Honest
<1>8. ASSUME NEW r \in Requests, Finishes(r) PROVE CallsOK'
  <2> DEFINE c == call[r]
  <2>1. /\ c.what \in Body /\ c.phase = "running" /\ c.stmt = "done"
        /\ Effect(c.what.op, c.rows, c.wrote)
    BY <1>0, <1>8 DEF Finishes, Replies, Progress
  <2> DEFINE s == IF Missing(Op(r), c.rows) THEN 404 ELSE Success(Op(r))
             d == [c EXCEPT !.phase = "answered", !.status = s]
  <2>2. call' = [call EXCEPT ![r] = d]
    BY <1>0, <1>8 DEF Finishes, Replies, CallsOK
  <2>3. s \in {200, 201, 204, 404} /\ (s = 404 <=> Missing(Op(r), c.rows))
    BY DEF Success
  <2>4. s = 404 => ~c.wrote
    BY <2>1, <2>3 DEF Missing, Effect, Op
  <2>5. s # 404 /\ Writes(c.what.op) => c.wrote
    BY <2>1, <2>3 DEF Missing, Writes, Effect, Op
  <2> HIDE DEF s
  <2>6. d \in Call
    <3>1. s \in Nat
      BY <2>3
    <3> QED
      BY <1>0, <3>1 DEF Call
  <2>7. Progress(d)
    BY <1>0, <2>1 DEF Call, Progress
  <2>8. Honest(d)
    BY <1>0, <2>1, <2>3, <2>4, <2>5 DEF Call, Honest
  <2> QED
    BY <1>0, <2>2, <2>6, <2>7, <2>8, OneCall
<1>9. ASSUME NEW r \in Requests, TimeoutFires(r) PROVE CallsOK'
  BY <1>0, <1>9 DEF TimeoutFires, CallsOK, Call, Progress, Honest
<1>10. CASE CtrlC \/ Stop
  BY <1>0, <1>10 DEF CtrlC, Stop, CallsOK
<1> QED
  BY <1>1, <1>2, <1>3, <1>4, <1>5, <1>6, <1>7, <1>8, <1>9, <1>10 DEF TasklineNext

(***************************************************************************)
(* What steps there are, as far as the tables and the results go: a        *)
(* request comes, or one gets on without a result, or a statement runs.    *)
(***************************************************************************)
Others(r) == \A q \in Requests \ {r} : call'[q] = call[q]

Comes(r, q, user) ==
    /\ r = Cardinality(Arrived) + 1 /\ call[r].phase = "free" /\ Others(r)
    /\ call'[r].what = q /\ call'[r].user = user /\ call'[r].rows = {}
    /\ call'[r].phase \in {"waiting", "answered"} /\ call'[r].stmt = "none"
    /\ ~call'[r].wrote
    /\ user # NotGiven => \E t \in tokens : t.client = q.client /\ t.sub = user
    /\ ~Open(q) /\ call'[r].phase = "waiting" => user # NotGiven
    /\ UNCHANGED <<users, tasks, tokens>>

InWork(c) == c.phase \in {"waiting", "running"} \/ c.stmt # "none"

GetsOn(r) ==
    LET c == call[r] d == call'[r] IN
    /\ Others(r)
    /\ d.what = c.what /\ d.user = c.user /\ d.rows = c.rows /\ d.wrote = c.wrote
    /\ c.phase # "free" /\ d.phase # "free"
    /\ c.stmt = "done" => d.stmt = "done"
    /\ InWork(c)
    /\ UNCHANGED <<users, tasks>>

Runs(r, rows, wrote) ==
    LET c == call[r] d == call'[r] IN
    /\ Others(r)
    /\ d.what = c.what /\ d.user = c.user /\ d.phase = c.phase
    /\ d.rows = rows /\ d.wrote = wrote
    /\ c.stmt = "sent" /\ d.stmt = "done" /\ UNCHANGED tokens

\* What a statement does to the tables.
Does(r, rows, wrote) ==
    LET q == call[r].what IN
    /\ \/ users' = users
       \/ \E u \in User : /\ q.op = "register" /\ u.id = r /\ users' = users \cup {u}
                          /\ \A v \in users : v.email # u.email
    /\ q.op = "login" => rows \subseteq users
    /\ ~Open(q) => \A t \in rows : t \in Task /\ t.user = call[r].user
    /\ tasks' \subseteq Task
    /\ \A t \in (tasks \ tasks') \cup (tasks' \ tasks) : ~Open(q) /\ t.user = call[r].user
    /\ \A t \in tasks : \/ \E s \in tasks' : s.id = t.id
                        \/ q.op = "delete" /\ q.task = t.id /\ wrote
    /\ q.op = "create" => \E t \in tasks' : t.id = r

LEMMA ComesStep ==
    ASSUME TasklineInv, NEW r \in Requests, NEW q \in Queries[r], Handle(r, q)
    PROVE  \E user \in Ids \cup {NotGiven} : Comes(r, q, user)
<1>1. CallsOK /\ InOrder /\ tokens \subseteq Token
  BY DEF TasklineInv, TasklineTypeOK
<1>2. call[r].phase = "free"
  <2>1. PICK n \in 0 .. MaxRequests : Arrived = 1 .. n
    BY <1>1 DEF InOrder
  <2>2. r = n + 1
    BY <2>1, RequestsFinite DEF Handle
  <2>3. r \notin Arrived
    BY <2>1, <2>2
  <2> QED
    BY <2>3 DEF Arrived
<1>3. \A t \in tokens : t.sub \in Ids /\ t.sub # NotGiven
  BY <1>1, TasklineAssumption DEF Token
<1>4. PICK user \in Ids \cup {NotGiven}, p \in {"waiting", "answered"}, s \in {0, 401, 422} :
         /\ Begun(r, q, user, p, s)
         /\ user # NotGiven => \E t \in tokens : t.client = q.client /\ t.sub = user
         /\ ~Open(q) /\ p = "waiting" => user # NotGiven
  BY <1>3 DEF Handle, Admitted
<1>5. /\ Others(r)
      /\ call'[r] = [NoCall EXCEPT !.what = q, !.user = user, !.phase = p, !.status = s]
  BY <1>1, <1>4 DEF CallsOK, Begun, Others
<1>6. /\ call'[r].what = q /\ call'[r].user = user /\ call'[r].rows = {}
      /\ call'[r].phase = p /\ call'[r].stmt = "none" /\ ~call'[r].wrote
  BY <1>5 DEF NoCall
<1>7. Comes(r, q, user)
  BY <1>2, <1>4, <1>5, <1>6 DEF Comes, Handle
<1> QED
  BY <1>7

LEMMA GetsOnStep ==
    ASSUME TasklineInv, NEW r \in Requests,
           \/ Acquire(r) \/ AcquireFails(r) \/ Breaks(r)
           \/ QueryFails(r) \/ LoginEnds(r) \/ Finishes(r) \/ TimeoutFires(r)
    PROVE  GetsOn(r) /\ (UNCHANGED tokens \/ LoginEnds(r))
<1>1. call \in [Requests -> Call] /\ call[r] \in Call /\ Progress(call[r])
  BY DEF TasklineInv, CallsOK
<1>2. CASE Acquire(r)
  BY <1>1, <1>2 DEF Acquire, GetsOn, Others, InWork, Progress, Call
<1>3. CASE AcquireFails(r)
  BY <1>1, <1>3 DEF AcquireFails, GetsOn, Others, InWork, Call
<1>4. CASE Breaks(r)
  BY <1>1, <1>4 DEF Breaks, GetsOn, Others, InWork, Progress, Call
<1>5. CASE QueryFails(r)
  BY <1>1, <1>5 DEF QueryFails, Replies, GetsOn, Others, InWork, Call
<1>6. CASE LoginEnds(r)
  BY <1>1, <1>6 DEF LoginEnds, Replies, GetsOn, Others, InWork, Call
<1>7. CASE Finishes(r)
  BY <1>1, <1>7 DEF Finishes, Replies, GetsOn, Others, InWork, Call
<1>8. CASE TimeoutFires(r)
  BY <1>1, <1>8 DEF TimeoutFires, GetsOn, Others, InWork, Call
<1> QED
  BY <1>2, <1>3, <1>4, <1>5, <1>6, <1>7, <1>8

LEMMA RunsStep ==
    ASSUME CallsOK, NEW r \in Requests, NEW rows, NEW failed, NEW wrote \in BOOLEAN,
           Returns(r, rows, failed, wrote)
    PROVE  Runs(r, rows, wrote)
BY DEF CallsOK, Call, Returns, Runs, Others

LEMMA StatementStep ==
    ASSUME TasklineInv, NEW r \in Requests, call[r].stmt = "sent", Statement(r)
    PROVE  \E rows, wrote : Runs(r, rows, wrote) /\ Does(r, rows, wrote)
<1>1. /\ CallsOK /\ call[r] \in Call /\ Progress(call[r]) /\ Authorised
      /\ users \subseteq User /\ tasks \subseteq Task
  BY DEF TasklineInv, CallsOK, TasklineTypeOK
<1>2. call[r].what \in Body /\ r \in Ids /\ r \in Arrived
  BY <1>1, TasklineAssumption DEF Progress, Requests, Ids, Arrived
<1>3. CASE InsertUser(r)
  <2> DEFINE row == [id |-> r, email |-> call[r].what.email, password |-> call[r].what.client]
  <2>1. row \in User /\ call[r].what.op = "register" /\ row.id = r
    BY <1>2, <1>3 DEF InsertUser, Body, User
  <2>2. CASE Returns(r, {}, "unique", FALSE) /\ UNCHANGED users
    BY <1>1, <1>3, <2>1, <2>2, RunsStep DEF InsertUser, Does, Open
  <2>3. CASE /\ \A u \in users : u.email # row.email
             /\ Returns(r, {row}, "no", TRUE) /\ users' = users \cup {row}
    <3> HIDE DEF row
    <3> QED
      BY <1>1, <1>3, <2>1, <2>3, RunsStep DEF InsertUser, Does, Open
  <2> QED
    BY <1>3, <2>2, <2>3 DEF InsertUser
<1>4. CASE SelectUser(r)
  BY <1>1, <1>4, RunsStep DEF SelectUser, Does, Open, Op
<1>5. CASE SelectTasks(r)
  BY <1>1, <1>5, RunsStep DEF SelectTasks, Does, Open, Op
<1>6. CASE InsertTask(r)
  <2> DEFINE row == [id |-> r, user |-> call[r].user, title |-> call[r].what.title,
                     done |-> FALSE]
  <2>1. call[r].what.op = "create" /\ ~Open(call[r].what)
    BY <1>6 DEF InsertTask, Op, Open
  <2>2. call[r].user \in Ids
    BY <1>1, <1>2, <2>1 DEF Authorised, Call
  <2>3. row \in Task /\ row.id = r /\ row.user = call[r].user
    BY <1>2, <2>1, <2>2 DEF Body, Task
  <2>4. Returns(r, {row}, "no", TRUE) /\ tasks' = tasks \cup {row} /\ UNCHANGED users
    BY <1>6 DEF InsertTask
  <2> HIDE DEF row
  <2>5. Does(r, {row}, TRUE)
    BY <1>1, <2>1, <2>3, <2>4 DEF Does
  <2> QED
    BY <1>1, <2>4, <2>5, RunsStep
<1>7. CASE SelectTask(r)
  BY <1>1, <1>7, RunsStep DEF SelectTask, Selected, Does, Open, Op
<1>8. CASE UpdateTask(r)
  <2> DEFINE q == call[r].what
             rows == {[t EXCEPT !.title = Coalesce(q.title, @), !.done = Coalesce(q.done, @)]
                         : t \in Selected(r)}
  <2>1. /\ Op(r) = "update" /\ Returns(r, rows, "no", rows # {})
        /\ tasks' = (tasks \ Selected(r)) \cup rows /\ UNCHANGED <<users, tokens>>
        /\ \A t \in rows : t \in Task /\ t.id = q.task /\ t.user = call[r].user
        /\ Selected(r) # {} => \E t \in rows : t.id = q.task
    BY <1>8, UpdatedRows
  <2> HIDE DEF rows
  <2>2. \A t \in Selected(r) : t.id = q.task /\ t.user = call[r].user
    BY DEF Selected
  <2>3. Does(r, rows, rows # {})
    BY <1>1, <2>1, <2>2 DEF Does, Op, Open
  <2> QED
    BY <1>1, <2>1, <2>3, RunsStep
<1>9. CASE DeleteTask(r)
  <2>1. \A t \in Selected(r) : t.id = call[r].what.task /\ t.user = call[r].user
    BY DEF Selected
  <2>2. Does(r, Selected(r), Selected(r) # {})
    BY <1>1, <1>9, <2>1 DEF DeleteTask, Selected, Does, Op, Open
  <2> QED
    BY <1>1, <1>9, <2>2, RunsStep DEF DeleteTask
<1> QED
  BY <1>3, <1>4, <1>5, <1>6, <1>7, <1>8, <1>9 DEF Statement

LEMMA Kinds ==
    ASSUME TasklineInv, TasklineNext
    PROVE  \/ \E r \in Requests, q \in Body, user \in Ids \cup {NotGiven} : Comes(r, q, user)
           \/ \E r \in Requests : GetsOn(r) /\ (UNCHANGED tokens \/ LoginEnds(r))
           \/ \E r \in Requests : \E rows, wrote : Runs(r, rows, wrote) /\ Does(r, rows, wrote)
           \/ UNCHANGED <<users, tasks, tokens, call>>
<1>1. ASSUME NEW r \in Requests, NEW q \in Queries[r], Handle(r, q)
      PROVE  \E p \in Body, user \in Ids \cup {NotGiven} : Comes(r, p, user)
  BY <1>1, ComesStep, TasklineAssumption
<1>2. CASE CtrlC \/ Stop
  BY <1>2 DEF CtrlC, Stop
<1> QED
  BY <1>1, <1>2, GetsOnStep, StatementStep DEF TasklineNext

(***************************************************************************)
(* The invariant's parts, one by one.                                      *)
(***************************************************************************)
LEMMA UsersGrow ==
    ASSUME TasklineInv, TasklineNext
    PROVE  /\ users \subseteq users' /\ users' \subseteq User
           /\ \A id, c : OwnedBy(id, c) => OwnedBy(id, c)'
<1>1. users \subseteq users' /\ users' \subseteq User
  BY Kinds DEF Comes, GetsOn, Does, TasklineInv, TasklineTypeOK
<1> QED
  BY <1>1 DEF OwnedBy

LEMMA OneAccount ==
    ASSUME TasklineInv, TasklineNext
    PROVE  /\ \A u, v \in users' : u.id = v.id \/ u.email = v.email => u = v
           /\ AccountsFresh'
<1>1. /\ AccountsFresh /\ CallsOK
      /\ \A u, v \in users : u.id = v.id \/ u.email = v.email => u = v
  BY DEF TasklineInv, TasklineTypeOK
<1>2. ASSUME NEW r \in Requests, NEW q, NEW user, Comes(r, q, user)
      PROVE  /\ \A u, v \in users' : u.id = v.id \/ u.email = v.email => u = v
             /\ AccountsFresh'
  <2>1. users' = users /\ call[r].stmt = "none"
    BY <1>1, <1>2 DEF Comes, CallsOK, Progress
  <2>2. \A p \in Requests : call[p].stmt = "done" => call'[p].stmt = "done"
    BY <1>2, <2>1 DEF Comes, Others
  <2> QED
    BY <1>1, <2>1, <2>2 DEF AccountsFresh
<1>3. CASE \E r \in Requests : GetsOn(r)
  BY <1>1, <1>3 DEF GetsOn, Others, AccountsFresh
<1>4. ASSUME NEW r \in Requests, NEW rows, NEW wrote, Runs(r, rows, wrote), Does(r, rows, wrote)
      PROVE  /\ \A u, v \in users' : u.id = v.id \/ u.email = v.email => u = v
             /\ AccountsFresh'
  <2>1. \A q \in Requests : call[q].stmt = "done" => call'[q].stmt = "done"
    BY <1>4 DEF Runs, Others
  <2>2. CASE users' = users
    BY <1>1, <2>1, <2>2 DEF AccountsFresh
  <2>3. CASE \E u \in User : /\ u.id = r /\ users' = users \cup {u}
                             /\ \A v \in users : v.email # u.email
    <3>1. \A v \in users : v.id # r
      BY <1>1, <1>4 DEF AccountsFresh, Runs
    <3>2. call'[r].stmt = "done"
      BY <1>4 DEF Runs
    <3> QED
      BY <1>1, <2>1, <2>3, <3>1, <3>2 DEF AccountsFresh
  <2> QED
    BY <1>4, <2>2, <2>3 DEF Does
<1>5. CASE UNCHANGED <<users, tasks, tokens, call>>
  BY <1>1, <1>5 DEF AccountsFresh
<1> QED
  BY <1>2, <1>3, <1>4, <1>5, Kinds

LEMMA OrderStep == ASSUME TasklineInv, TasklineNext PROVE InOrder'
<1>1. PICK n \in 0 .. MaxRequests : Arrived = 1 .. n
  BY DEF TasklineInv, InOrder
<1>2. ASSUME NEW r \in Requests, NEW q \in Body, NEW user, Comes(r, q, user)
      PROVE  InOrder'
  <2>1. r = n + 1
    BY <1>1, <1>2, RequestsFinite DEF Comes
  <2>2. Arrived' = Arrived \cup {r}
    BY <1>2 DEF Arrived, Comes, Others
  <2>3. MaxRequests \in Nat
    BY TasklineAssumption
  <2>4. n + 1 \in 0 .. MaxRequests /\ Arrived' = 1 .. n + 1
    BY <1>1, <2>1, <2>2, <2>3 DEF Requests
  <2> QED
    BY <2>4 DEF InOrder
<1>3. ASSUME NEW r \in Requests, GetsOn(r) PROVE Arrived' = Arrived
  BY <1>3 DEF GetsOn, Arrived, Others
<1>4. ASSUME NEW r \in Requests, NEW rows, NEW wrote, Runs(r, rows, wrote)
      PROVE  Arrived' = Arrived
  BY <1>4 DEF Runs, Arrived, Others
<1>5. CASE UNCHANGED <<users, tasks, tokens, call>>
  BY <1>1, <1>5 DEF Arrived, InOrder
<1> QED
  BY <1>1, <1>2, <1>3, <1>4, <1>5, Kinds DEF InOrder

LEMMA TokensStep ==
    ASSUME TasklineInv, TasklineNext PROVE TokensEarned' /\ tokens' \subseteq Token
<1>1. /\ TokensEarned /\ tokens \subseteq Token /\ Authorised /\ CallsOK
      /\ users \subseteq User
  BY DEF TasklineInv, TasklineTypeOK
<1>2. CASE UNCHANGED tokens
  BY <1>1, <1>2, UsersGrow DEF TokensEarned
<1>3. ASSUME NEW r \in Requests, LoginEnds(r) PROVE TokensEarned' /\ tokens' \subseteq Token
  <2>1. CASE UNCHANGED tokens
    BY <1>1, <2>1, UsersGrow DEF TokensEarned
  <2>2. ASSUME NEW u \in call[r].rows, VerifyPassword(r, u),
               tokens' = tokens \cup {[client |-> call[r].what.client, sub |-> u.id]}
        PROVE  TokensEarned' /\ tokens' \subseteq Token
    <3>1. call[r].what \in Body /\ call[r].what.op = "login" /\ r \in Arrived
      BY <1>1, <1>3 DEF LoginEnds, Op, CallsOK, Progress, Arrived
    <3>2. u \in users /\ u.password = call[r].what.client
      BY <1>1, <2>2, <3>1 DEF Authorised, VerifyPassword
    <3>3. call[r].what.client \in Clients /\ u.id \in Ids
      BY <1>1, <3>1, <3>2 DEF Body, User
    <3>4. OwnedBy(u.id, call[r].what.client)
      BY <3>2 DEF OwnedBy
    <3>5. [client |-> call[r].what.client, sub |-> u.id] \in Token
      BY <3>3 DEF Token
    <3> QED
      BY <1>1, <2>2, <3>4, <3>5, UsersGrow DEF TokensEarned
  <2> QED
    BY <1>3, <2>1, <2>2 DEF LoginEnds
<1>4. UNCHANGED tokens \/ \E r \in Requests : LoginEnds(r)
  BY Kinds DEF Comes, Runs
<1> QED
  BY <1>2, <1>3, <1>4

LEMMA AuthorisedStep == ASSUME TasklineInv, TasklineNext PROVE Authorised'
<1>1. /\ TokensEarned /\ Authorised /\ CallsOK /\ users \subseteq users'
      /\ \A id, c : OwnedBy(id, c) => OwnedBy(id, c)'
  BY UsersGrow DEF TasklineInv
<1> DEFINE Sees(c) ==
             /\ c.what.op = "login" => c.rows \subseteq users
             /\ ~Open(c.what) =>
                   /\ InWork(c) => c.user # NotGiven
                   /\ c.user # NotGiven => OwnedBy(c.user, c.what.client)
                   /\ \A t \in c.rows : t \in Task /\ t.user = c.user /\ c.user # NotGiven
<1>2. Authorised <=> \A r \in Arrived : Sees(call[r])
  BY DEF Authorised, InWork
<1>3. Authorised' <=> \A r \in Arrived' : Sees(call[r])'
  BY DEF Authorised, InWork
<1>4. ASSUME NEW r \in Arrived, call'[r] = call[r] PROVE Sees(call[r])'
  BY <1>1, <1>2, <1>4 DEF InWork
<1>5. ASSUME NEW r \in Requests, NEW q \in Body, NEW user, Comes(r, q, user)
      PROVE  Authorised'
  <2>1. Arrived' = Arrived \cup {r} /\ r \notin Arrived
    BY <1>5 DEF Arrived, Comes, Others
  <2>2. user # NotGiven => OwnedBy(user, q.client)
    BY <1>1, <1>5 DEF Comes, TokensEarned
  <2>3. ~Open(q) /\ InWork(call'[r]) => user # NotGiven
    BY <1>5 DEF Comes, InWork
  <2>4. call'[r].what = q /\ call'[r].user = user /\ call'[r].rows = {}
    BY <1>5 DEF Comes
  <2>5. Sees(call[r])'
    BY <1>1, <2>2, <2>3, <2>4 DEF InWork
  <2>6. \A s \in Arrived : call'[s] = call[s]
    BY <1>5, <2>1 DEF Comes, Others, Arrived
  <2> QED
    BY <1>3, <1>4, <2>1, <2>5, <2>6
<1>6. ASSUME NEW r \in Requests, GetsOn(r) PROVE Authorised'
  <2>1. Arrived' = Arrived /\ r \in Arrived
    BY <1>6 DEF Arrived, GetsOn, Others
  <2>2. /\ call'[r].what = call[r].what /\ call'[r].user = call[r].user
        /\ call'[r].rows = call[r].rows /\ InWork(call[r])
    BY <1>6 DEF GetsOn
  <2>3. Sees(call[r])'
    BY <1>1, <1>2, <2>1, <2>2 DEF InWork
  <2>4. \A s \in Arrived \ {r} : call'[s] = call[s]
    BY <1>6 DEF GetsOn, Others, Arrived
  <2> QED
    BY <1>3, <1>4, <2>1, <2>3, <2>4
<1>7. ASSUME NEW r \in Requests, NEW rows, NEW wrote, Runs(r, rows, wrote), Does(r, rows, wrote)
      PROVE  Authorised'
  <2>1. Arrived' = Arrived /\ r \in Arrived
    BY <1>1, <1>7 DEF Arrived, Runs, Others, CallsOK, Progress
  <2>2. /\ call'[r].what = call[r].what /\ call'[r].user = call[r].user
        /\ call'[r].rows = rows /\ InWork(call[r])
    BY <1>7 DEF Runs, InWork
  <2>3. /\ call[r].what.op = "login" => rows \subseteq users
        /\ ~Open(call[r].what) => \A t \in rows : t \in Task /\ t.user = call[r].user
    BY <1>7 DEF Does
  <2>4. Sees(call[r])'
    BY <1>1, <1>2, <2>1, <2>2, <2>3
  <2>5. \A s \in Arrived \ {r} : call'[s] = call[s]
    BY <1>7 DEF Runs, Others, Arrived
  <2> QED
    BY <1>3, <1>4, <2>1, <2>4, <2>5
<1>8. CASE UNCHANGED <<users, tasks, tokens, call>>
  BY <1>1, <1>8 DEF Authorised, Arrived
<1> QED
  BY <1>5, <1>6, <1>7, <1>8, Kinds

\* Only a request that gets a connection adds to the busy ones, and only if one is free.
LEMMA PoolStep ==
    ASSUME TasklineInv, TasklineNext PROVE Cardinality(Busy') <= MaxConnections
<1>1. /\ CallsOK /\ Cardinality(Busy) <= MaxConnections /\ MaxConnections \in Nat
      /\ call \in [Requests -> Call] /\ \A r \in Requests : Progress(call[r])
  BY TasklineAssumption DEF TasklineInv, TasklineTypeOK, CallsOK
<1>2. IsFiniteSet(Busy) /\ Cardinality(Busy) \in Nat
  BY RequestsFinite, FS_Subset, FS_CardinalityType DEF Busy
<1>3. ASSUME NEW r \in Requests, Acquire(r) PROVE Cardinality(Busy') <= MaxConnections
  <2>1. Busy' = Busy \cup {r}
    BY <1>1, <1>3 DEF Acquire, Busy, Call
  <2>2. Cardinality(Busy) < MaxConnections
    BY <1>3 DEF Acquire, ConnectionFree
  <2>3. Cardinality(Busy \cup {r}) = Cardinality(Busy)
        \/ Cardinality(Busy \cup {r}) = Cardinality(Busy) + 1
    BY <1>2, FS_AddElement
  <2> QED
    BY <1>1, <1>2, <2>1, <2>2, <2>3
<1>4. ASSUME Busy' \subseteq Busy PROVE Cardinality(Busy') <= MaxConnections
  <2>1. Cardinality(Busy') <= Cardinality(Busy) /\ IsFiniteSet(Busy')
    BY <1>2, <1>4, FS_Subset
  <2>2. Cardinality(Busy') \in Nat
    BY <2>1, FS_CardinalityType
  <2> QED
    BY <1>1, <1>2, <2>1, <2>2
<1>5. ASSUME NEW r \in Requests, NEW q \in Body, NEW user, Comes(r, q, user)
      PROVE  Busy' \subseteq Busy
  BY <1>5 DEF Comes, Busy, Others
<1>6. ASSUME NEW r \in Requests, NEW rows, NEW wrote, Runs(r, rows, wrote)
      PROVE  Busy' \subseteq Busy
  BY <1>6 DEF Runs, Busy, Others
<1>7. ASSUME NEW r \in Requests,
             \/ AcquireFails(r) \/ Breaks(r) \/ QueryFails(r) \/ LoginEnds(r)
             \/ Finishes(r) \/ TimeoutFires(r)
      PROVE  Busy' \subseteq Busy
  <2>1. CASE AcquireFails(r)
    BY <1>1, <2>1 DEF AcquireFails, Busy, Call, Progress
  <2>2. CASE Breaks(r)
    BY <1>1, <2>2 DEF Breaks, Busy, Call
  <2>3. CASE QueryFails(r) \/ LoginEnds(r) \/ Finishes(r)
    BY <1>1, <2>3 DEF QueryFails, LoginEnds, Finishes, Replies, Busy, Call
  <2>4. CASE TimeoutFires(r)
    BY <1>1, <2>4 DEF TimeoutFires, Busy, Call
  <2> QED
    BY <1>7, <2>1, <2>2, <2>3, <2>4
<1>8. ASSUME NEW r \in Requests, NEW q \in Queries[r], Handle(r, q) PROVE Busy' \subseteq Busy
  BY <1>5, <1>8, ComesStep, TasklineAssumption
<1>9. ASSUME NEW r \in Requests, call[r].stmt = "sent", Statement(r) PROVE Busy' \subseteq Busy
  BY <1>6, <1>9, StatementStep
<1>10. CASE CtrlC \/ Stop
  BY <1>4, <1>10 DEF CtrlC, Stop, Busy
<1> QED
  BY <1>3, <1>4, <1>7, <1>8, <1>9, <1>10 DEF TasklineNext

LEMMA TypeStep == ASSUME TasklineInv, TasklineNext PROVE TasklineTypeOK'
<1>1. /\ tasks \subseteq Task /\ Authorised /\ CallsOK
      /\ \A t \in tasks : \E u \in users : u.id = t.user
      /\ users \subseteq users'
  BY UsersGrow DEF TasklineInv, TasklineTypeOK
<1>2. tasks' \subseteq Task /\ \A t \in tasks' : \E u \in users' : u.id = t.user
  <2>1. CASE UNCHANGED tasks
    BY <1>1, <2>1
  <2>2. ASSUME NEW r \in Requests, NEW rows, NEW wrote, Runs(r, rows, wrote),
               Does(r, rows, wrote)
        PROVE  tasks' \subseteq Task /\ \A t \in tasks' : \E u \in users' : u.id = t.user
    <3>1. r \in Arrived /\ call[r].stmt # "none"
      BY <1>1, <2>2 DEF Runs, Arrived, CallsOK, Progress
    <3>2. ~Open(call[r].what) => \E u \in users : u.id = call[r].user
      BY <1>1, <3>1 DEF Authorised, OwnedBy
    <3>3. /\ tasks' \subseteq Task
          /\ \A t \in tasks' \ tasks : ~Open(call[r].what) /\ t.user = call[r].user
      BY <2>2 DEF Does
    <3> QED
      BY <1>1, <3>2, <3>3
  <2>3. \/ UNCHANGED tasks
        \/ \E r \in Requests : \E rows, wrote : Runs(r, rows, wrote) /\ Does(r, rows, wrote)
    BY Kinds DEF Comes, GetsOn
  <2> QED
    BY <2>1, <2>2, <2>3
<1>3. Cardinality(Busy)' <= MaxConnections
  BY PoolStep
<1> QED
  BY <1>2, <1>3, UsersGrow, OneAccount, TokensStep DEF TasklineTypeOK

LEMMA CreatedStep == ASSUME TasklineInv, TasklineNext PROVE CreatedStay'
<1>1. /\ CreatedStay /\ CallsOK /\ \A r \in Requests : Progress(call[r])
  BY DEF TasklineInv, CallsOK
<1>2. CASE \E r \in Requests, q \in Body, user \in Ids \cup {NotGiven} : Comes(r, q, user)
  <2>1. PICK r \in Requests, q \in Body, user \in Ids \cup {NotGiven} : Comes(r, q, user)
    BY <1>2
  <2>2. Arrived' = Arrived \cup {r} /\ r \notin Arrived /\ ~call'[r].wrote /\ tasks' = tasks
    BY <2>1 DEF Arrived, Comes, Others
  <2>3. \A s \in Arrived : call'[s] = call[s]
    BY <2>1, <2>2 DEF Comes, Others, Arrived
  <2> QED
    BY <1>1, <2>2, <2>3 DEF CreatedStay, Op
<1>3. ASSUME NEW r \in Requests, GetsOn(r) PROVE CreatedStay'
  <2>1. Arrived' = Arrived /\ tasks' = tasks
    BY <1>3 DEF Arrived, GetsOn, Others
  <2>2. \A s \in Requests : call'[s].what = call[s].what /\ call'[s].wrote = call[s].wrote
    BY <1>3 DEF GetsOn, Others
  <2>3. Arrived \subseteq Requests
    BY DEF Arrived
  <2> QED
    BY <1>1, <2>1, <2>2, <2>3 DEF CreatedStay, Op
<1>4. ASSUME NEW r \in Requests, NEW rows, NEW wrote, Runs(r, rows, wrote), Does(r, rows, wrote)
      PROVE  CreatedStay'
  <2>1. Arrived' = Arrived /\ r \in Arrived /\ ~call[r].wrote
    BY <1>1, <1>4 DEF Arrived, Runs, Others, Progress
  <2>2. \A s \in Arrived : call'[s].what = call[s].what /\ (s # r => call'[s] = call[s])
    BY <1>4 DEF Runs, Others, Arrived
  <2>3. ASSUME NEW s \in Arrived, Op(s) = "create", call'[s].wrote
        PROVE  \/ \E t \in tasks' : t.id = s
               \/ \E d \in Arrived : Op(d) = "delete" /\ call[d].what.task = s /\ call'[d].wrote
    <3>1. CASE s = r
      BY <1>4, <2>3, <3>1 DEF Does, Op
    <3>2. CASE s # r
      <4>1. call[s].wrote
        BY <2>2, <2>3, <3>2
      <4>2. CASE \E t \in tasks : t.id = s
        <5>1. \/ \E t \in tasks' : t.id = s
              \/ Op(r) = "delete" /\ call[r].what.task = s /\ wrote
          BY <1>4, <4>2 DEF Does, Op
        <5>2. call'[r].wrote = wrote
          BY <1>4 DEF Runs
        <5> QED
          BY <2>1, <5>1, <5>2
      <4>3. CASE \E d \in Arrived : Op(d) = "delete" /\ call[d].what.task = s /\ call[d].wrote
        BY <2>1, <2>2, <4>3
      <4> QED
        BY <1>1, <2>3, <4>1, <4>2, <4>3 DEF CreatedStay
    <3> QED
      BY <3>1, <3>2
  <2> QED
    BY <2>1, <2>2, <2>3 DEF CreatedStay, Op
<1>5. CASE UNCHANGED <<users, tasks, tokens, call>>
  BY <1>1, <1>5 DEF CreatedStay, Arrived, Op
<1> QED
  BY <1>2, <1>3, <1>4, <1>5, Kinds

(***************************************************************************)
(* The invariant is inductive.                                             *)
(***************************************************************************)
LEMMA StepInv == TasklineInv /\ [TasklineNext]_tlVars => TasklineInv'
<1> SUFFICES ASSUME TasklineInv, [TasklineNext]_tlVars PROVE TasklineInv'
  OBVIOUS
<1>1. CASE TasklineNext
  BY <1>1, TypeStep, TokensStep, CallsStep, OrderStep, OneAccount, AuthorisedStep,
     CreatedStep DEF TasklineInv
<1>2. CASE UNCHANGED tlVars
  BY <1>2 DEF tlVars, TasklineInv, TasklineTypeOK, Busy, TokensEarned, OwnedBy, CallsOK, InOrder,
     Arrived, AccountsFresh, Authorised, CreatedStay, Op
<1> QED
  BY <1>1, <1>2

LEMMA TasklineInvariance == TasklineSpec => []TasklineInv
BY InitInv, StepInv, PTL DEF TasklineSpec

(***************************************************************************)
(* Whatever the requests and however the database fails, the tables keep   *)
(* their keys and references, and no more statements are at the database   *)
(* than the pool has connections.                                          *)
(***************************************************************************)
THEOREM TasklineTypeCorrect == TasklineSpec => []TasklineTypeOK
<1>1. TasklineInv => TasklineTypeOK
  BY DEF TasklineInv
<1> QED
  BY <1>1, TasklineInvariance, PTL

(***************************************************************************)
(* A token is only ever issued to a client who knows the password of the   *)
(* account it names.                                                       *)
(***************************************************************************)
THEOREM TokensAreEarned == TasklineSpec => []TokensEarned
<1>1. TasklineInv => TokensEarned
  BY DEF TasklineInv
<1> QED
  BY <1>1, TasklineInvariance, PTL

(***************************************************************************)
(* No reply says that something happened which did not, or that nothing    *)
(* did when it did or still may.                                           *)
(***************************************************************************)
THEOREM RepliesAreTrue == TasklineSpec => []RepliesTrue
<1>1. ASSUME TasklineInv PROVE RepliesTrue
  <2> SUFFICES ASSUME NEW r \in Arrived PROVE
        LET c == call[r] IN
        /\ c.status \in {200, 201, 204} /\ Writes(c.what.op) => c.wrote
        /\ c.status \in {401, 404, 409, 422} => ~c.wrote /\ c.stmt # "sent"
        /\ c.status = 201 /\ c.what.op = "create" => CreatedStay /\ c.wrote
    BY <1>1 DEF RepliesTrue, CreatedStay, Op
  <2>1. Honest(call[r])
    BY <1>1 DEF TasklineInv, CallsOK, Arrived
  <2> QED
    BY <1>1, <2>1 DEF Honest, Writes, TasklineInv
<1> QED
  BY <1>1, TasklineInvariance, PTL

(***************************************************************************)
(* A client sees and changes tasks of its own account only.                *)
(***************************************************************************)
THEOREM OwnersOnly == TasklineSpec => OwnerScoped
<1>1. ASSUME TasklineInv, TasklineInv', TasklineNext PROVE ResultsOwn' /\ ChangesOwn
  <2>1. ResultsOwn'
    BY <1>1 DEF TasklineInv, Authorised, ResultsOwn
  <2>2. CASE UNCHANGED tasks
    BY <2>1, <2>2 DEF ChangesOwn
  <2>3. ASSUME NEW r \in Requests, NEW rows, NEW wrote, Runs(r, rows, wrote),
               Does(r, rows, wrote)
        PROVE  ChangesOwn
    <3>1. call[r].stmt = "sent" /\ call'[r].stmt = "done" /\ r \in Arrived
      BY <1>1, <2>3 DEF Runs, TasklineInv, CallsOK, Progress, Arrived
    <3>2. ~Open(call[r].what) => OwnedBy(call[r].user, call[r].what.client)
      BY <1>1, <3>1 DEF TasklineInv, Authorised
    <3>3. \A t \in (tasks \ tasks') \cup (tasks' \ tasks) :
             ~Open(call[r].what) /\ t.user = call[r].user
      BY <2>3 DEF Does
    <3> QED
      BY <3>1, <3>2, <3>3 DEF ChangesOwn
  <2>4. \/ UNCHANGED tasks
        \/ \E r \in Requests : \E rows, wrote : Runs(r, rows, wrote) /\ Does(r, rows, wrote)
    BY <1>1, Kinds DEF Comes, GetsOn
  <2> QED
    BY <2>1, <2>2, <2>3, <2>4
<1>2. TasklineInv /\ TasklineInv' /\ [TasklineNext]_tlVars => [ResultsOwn' /\ ChangesOwn]_tlVars
  BY <1>1
<1> QED
  BY <1>2, TasklineInvariance, PTL DEF TasklineSpec, OwnerScoped

(***************************************************************************)
(* The proxy.                                                              *)
(***************************************************************************)

(***************************************************************************)
(* Why nothing is cut early: while the loop runs or the drain's timer does *)
(* no task has been cut, and aborting starts only when the timer is up.    *)
(***************************************************************************)
DrainState ==
    /\ phase \in {"accepting", "draining"} => \A c \in Conns : conn[c] # "cut"
    /\ phase = "aborting" => elapsed = DrainTimeout

ProxyInv == ProxyTypeOK /\ CutOnlyLate /\ DrainState

\* The proxy starts with no connection and no trigger.
LEMMA ProxyInitInv == ProxyInit => ProxyInv
  BY ProxyNumbersAssumption
  DEF ProxyInit, ProxyInv, ProxyTypeOK, CutOnlyLate, DrainState, ConnStates, Triggered, Alive

(***************************************************************************)
(* Every step of the proxy, its peers and its drain keeps the invariant.   *)
(***************************************************************************)
LEMMA ProxyStepInv == ProxyInv /\ [ProxyNext]_proxyVars => ProxyInv'
<1> SUFFICES ASSUME ProxyInv, [ProxyNext]_proxyVars PROVE ProxyInv'
  OBVIOUS
<1> USE ProxyNumbersAssumption
<1> USE DEF ProxyInv, ProxyTypeOK, CutOnlyLate, DrainState, ConnStates, Triggered, Alive
<1>1. ASSUME NEW c \in Conns, Arrive(c) PROVE ProxyInv'
  BY <1>1 DEF Arrive, Move
<1>2. ASSUME NEW c \in Conns, CloseOneEnd(c) PROVE ProxyInv'
  BY <1>2 DEF CloseOneEnd
<1>3. ASSUME NEW c \in Conns, Dialled(c) PROVE ProxyInv'
  BY <1>3 DEF Dialled, Move
<1>4. ASSUME NEW c \in Conns, DialFails(c) PROVE ProxyInv'
  BY <1>4 DEF DialFails, Move
<1>5. ASSUME NEW c \in Conns, CopyEnds(c) \/ CopyFails(c) PROVE ProxyInv'
  BY <1>5 DEF CopyEnds, CopyFails, Move
<1>6. ASSUME NEW c \in Conns, Accept(c) PROVE ProxyInv'
  BY <1>6 DEF Accept, Move
<1>7. CASE AcceptFails
  BY <1>7 DEF AcceptFails, ListenerDropped
<1>8. CASE CheckFlag
  BY <1>8 DEF CheckFlag, Break
<1>9. CASE AwaitChange
  BY <1>9 DEF AwaitChange, VersionOfClone
<1>10. CASE Changed
  BY <1>10 DEF Changed, Break
<1>11. CASE Trigger
  BY <1>11 DEF Trigger
<1>12. CASE Tick
  BY <1>12 DEF Tick
<1>13. CASE Drained
  BY <1>13 DEF Drained, Return, ListenerDropped
<1>14. CASE TimesOut
  BY <1>14 DEF TimesOut
<1>15. ASSUME NEW c \in Conns, Abort(c) PROVE ProxyInv'
  BY <1>15 DEF Abort
<1>16. CASE Aborted
  BY <1>16 DEF Aborted, AllGone, Return, ListenerDropped
<1>17. CASE UNCHANGED proxyVars
  BY <1>17 DEF proxyVars
<1> QED
  BY <1>1, <1>2, <1>3, <1>4, <1>5, <1>6, <1>7, <1>8, <1>9, <1>10, <1>11, <1>12, <1>13,
     <1>14, <1>15, <1>16, <1>17 DEF ProxyNext, RunProxy

\* The inductive invariant holds in every reachable state.
LEMMA ProxyInvariance == ProxySpec => []ProxyInv
  BY ProxyInitInv, ProxyStepInv, PTL DEF ProxySpec

(***************************************************************************)
(* The proxy's variables keep their types, ends close in transfers only,   *)
(* and once run_proxy has returned, by the drain or by a failing accept,   *)
(* no client waits in the backlog.  (Tasks may be left after a failing     *)
(* accept; that none is after a drain is in DrainsFirst.)                  *)
(***************************************************************************)
THEOREM ProxyTypeCorrect == ProxySpec => []ProxyTypeOK
  BY ProxyInvariance, PTL DEF ProxyInv

(***************************************************************************)
(* Unless an accept fails, a connection is cut only when the whole drain   *)
(* timeout has passed, the loop is left only after a trigger, and every    *)
(* task is gone before run_proxy returns.                                  *)
(***************************************************************************)
THEOREM DrainsFirst == ProxySpec => []CutOnlyLate
  BY ProxyInvariance, PTL DEF ProxyInv

(***************************************************************************)
(* The scanner.                                                            *)
(***************************************************************************)

(***************************************************************************)
(* Sorting.  The position an element comes to is one more than the number  *)
(* of those before it, which gives Order a witness for every list of keys. *)
(***************************************************************************)
Before(key, j, i) == key[j] < key[i] \/ (key[j] = key[i] /\ j < i)

UpTo(key, i) == {j \in DOMAIN key : Before(key, j, i) \/ j = i}

Place(key, i) == Cardinality(UpTo(key, i))

LEMMA BeforeIsOrder ==
    ASSUME NEW n \in Nat, NEW key \in [1 .. n -> Int],
           NEW i \in 1 .. n, NEW j \in 1 .. n, NEW k \in 1 .. n
    PROVE  /\ Before(key, i, j) /\ Before(key, j, k) => Before(key, i, k)
           /\ ~Before(key, i, i)
           /\ i # j => Before(key, i, j) \/ Before(key, j, i)
<1>1. key[i] \in Int /\ key[j] \in Int /\ key[k] \in Int
  OBVIOUS
<1> QED BY <1>1 DEF Before

LEMMA PlaceInRange ==
    ASSUME NEW n \in Nat, NEW key \in [1 .. n -> Int], NEW i \in 1 .. n
    PROVE  Place(key, i) \in 1 .. n
<1>1. IsFiniteSet(1 .. n) /\ Cardinality(1 .. n) = n
  BY FS_Interval
<1>2. UpTo(key, i) \in SUBSET (1 .. n) /\ i \in UpTo(key, i)
  BY DEF UpTo
<1>3. IsFiniteSet(UpTo(key, i)) /\ Cardinality(UpTo(key, i)) <= n
  BY <1>1, <1>2, FS_Subset
<1>4. Cardinality(UpTo(key, i)) \in Nat /\ Cardinality(UpTo(key, i)) # 0
  BY <1>2, <1>3, FS_CardinalityType, FS_EmptySet
<1> QED BY <1>3, <1>4 DEF Place

LEMMA PlaceAscends ==
    ASSUME NEW n \in Nat, NEW key \in [1 .. n -> Int],
           NEW i \in 1 .. n, NEW j \in 1 .. n, Before(key, i, j)
    PROVE  Place(key, i) < Place(key, j)
<1>1. UpTo(key, i) \subseteq UpTo(key, j)
  BY BeforeIsOrder DEF UpTo
<1>2. j \in UpTo(key, j) /\ j \notin UpTo(key, i)
  BY BeforeIsOrder DEF UpTo
<1>3. IsFiniteSet(UpTo(key, j))
  <2>1. IsFiniteSet(1 .. n) /\ UpTo(key, j) \in SUBSET (1 .. n)
    BY FS_Interval DEF UpTo
  <2> QED BY <2>1, FS_Subset
<1>4. /\ Cardinality(UpTo(key, i)) <= Cardinality(UpTo(key, j))
      /\ Cardinality(UpTo(key, i)) # Cardinality(UpTo(key, j))
  BY <1>1, <1>2, <1>3, FS_Subset
<1>5. Cardinality(UpTo(key, i)) \in Nat /\ Cardinality(UpTo(key, j)) \in Nat
  BY PlaceInRange DEF Place
<1> QED BY <1>4, <1>5 DEF Place

\* An injection of 1..n into itself takes every value.
LEMMA EveryPlaceTaken ==
    ASSUME NEW n \in Nat, NEW f \in [1 .. n -> 1 .. n],
           \A i, j \in 1 .. n : i # j => f[i] # f[j], NEW m \in 1 .. n
    PROVE  \E i \in 1 .. n : f[i] = m
<1>1. SUFFICES ASSUME \A i \in 1 .. n : f[i] # m PROVE FALSE
  OBVIOUS
<1> DEFINE T == (1 .. n) \ {m}
<1>2. IsFiniteSet(1 .. n) /\ Cardinality(1 .. n) = n
  BY FS_Interval
<1>3. IsFiniteSet(T) /\ Cardinality(T) = n - 1
  BY <1>2, FS_RemoveElement
<1>4. f \in [1 .. n -> T]
  BY <1>1
<1>5. Cardinality(T) < Cardinality(1 .. n)
  BY <1>2, <1>3
<1> HIDE DEF T
<1>6. \E i, j \in 1 .. n : i # j /\ f[i] = f[j]
  BY <1>2, <1>3, <1>4, <1>5, FS_PigeonHole
<1> QED BY <1>6

LEMMA OrderSorts ==
    ASSUME NEW n \in Nat, NEW key \in [1 .. n -> Int]
    PROVE  /\ Order(key) \in [1 .. n -> 1 .. n]
           /\ \A i, j \in 1 .. n : i < j => Before(key, Order(key)[i], Order(key)[j])
           /\ \A m \in 1 .. n : \E i \in 1 .. n : Order(key)[i] = m
<1> DEFINE f == [i \in 1 .. n |-> Place(key, i)]
           at == [m \in 1 .. n |-> CHOOSE i \in 1 .. n : f[i] = m]
           Ascends(a) == \A i, j \in 1 .. n : i < j => Before(key, a[i], a[j])
<1>1. f \in [1 .. n -> 1 .. n]
  BY PlaceInRange
<1>2. \A i, j \in 1 .. n : i # j => f[i] # f[j]
  <2> SUFFICES ASSUME NEW i \in 1 .. n, NEW j \in 1 .. n, i # j PROVE f[i] # f[j]
    OBVIOUS
  <2>1. Place(key, i) < Place(key, j) \/ Place(key, j) < Place(key, i)
    BY BeforeIsOrder, PlaceAscends
  <2>2. Place(key, i) \in Int /\ Place(key, j) \in Int
    BY PlaceInRange
  <2> QED BY <2>1, <2>2
<1>3. \A m \in 1 .. n : \E i \in 1 .. n : f[i] = m
  <2> HIDE DEF f
  <2> QED BY <1>1, <1>2, EveryPlaceTaken
<1>4. at \in [1 .. n -> 1 .. n] /\ \A m \in 1 .. n : f[at[m]] = m
  <2> HIDE DEF f
  <2> QED BY <1>3
<1>5. Ascends(at)
  <2> SUFFICES ASSUME NEW i \in 1 .. n, NEW j \in 1 .. n, i < j PROVE Before(key, at[i], at[j])
    OBVIOUS
  <2>1. at[i] \in 1 .. n /\ at[j] \in 1 .. n /\ f[at[i]] = i /\ f[at[j]] = j
    BY <1>4
  <2> HIDE DEF at
  <2>2. Place(key, at[i]) = i /\ Place(key, at[j]) = j
    BY <2>1
  <2>3. at[i] # at[j] /\ ~(j < i)
    BY <2>2
  <2> QED BY <2>1, <2>2, <2>3, BeforeIsOrder, PlaceAscends
<1> HIDE DEF at, f
<1>6. Order(key) \in [1 .. n -> 1 .. n] /\ Ascends(Order(key))
  <2>1. DOMAIN key = 1 .. n
    OBVIOUS
  <2>2. Order(key) = CHOOSE a \in [1 .. n -> 1 .. n] : Ascends(a)
    BY <2>1 DEF Order, Before
  <2> HIDE DEF Ascends
  <2> QED BY <1>4, <1>5, <2>2
<1>7. \A i, j \in 1 .. n : i # j => Order(key)[i] # Order(key)[j]
  <2> SUFFICES ASSUME NEW i \in 1 .. n, NEW j \in 1 .. n, i # j,
                      Order(key)[i] = Order(key)[j]
               PROVE  FALSE
    OBVIOUS
  <2>1. i < j \/ j < i
    OBVIOUS
  <2>2. Before(key, Order(key)[i], Order(key)[i])
    BY <1>6, <2>1
  <2> QED BY <1>6, <2>2, BeforeIsOrder
<1> QED BY <1>6, <1>7, EveryPlaceTaken

(***************************************************************************)
(* What parse_target's sort and dedup return.                              *)
(***************************************************************************)
Ascending(s) == \A i, j \in DOMAIN s : i < j => s[i] < s[j]

LEMMA SortedSorts ==
    ASSUME NEW n \in Nat, NEW s \in [1 .. n -> Int]
    PROVE  /\ Sorted(s) \in [1 .. n -> Int]
           /\ \A i, j \in 1 .. n : i < j => Sorted(s)[i] <= Sorted(s)[j]
           /\ ToSet(Sorted(s)) = ToSet(s)
<1> DEFINE at == Order(s)
<1>1. /\ at \in [1 .. n -> 1 .. n]
      /\ \A i, j \in 1 .. n : i < j => Before(s, at[i], at[j])
      /\ \A m \in 1 .. n : \E i \in 1 .. n : at[i] = m
  BY OrderSorts
<1>2. Sorted(s) = [m \in 1 .. n |-> s[at[m]]]
  BY DEF Sorted, InOrderOf
<1> HIDE DEF at
<1>3. Sorted(s) \in [1 .. n -> Int]
  BY <1>1, <1>2
<1>4. ASSUME NEW i \in 1 .. n, NEW j \in 1 .. n, i < j PROVE Sorted(s)[i] <= Sorted(s)[j]
  <2>1. at[i] \in 1 .. n /\ at[j] \in 1 .. n
    BY <1>1
  <2>2. s[at[i]] \in Int /\ s[at[j]] \in Int
    BY <2>1
  <2>3. Before(s, at[i], at[j])
    BY <1>1, <1>4
  <2>4. s[at[i]] <= s[at[j]]
    BY <2>2, <2>3 DEF Before
  <2> QED BY <1>2, <2>4
<1>5. ToSet(Sorted(s)) = ToSet(s)
  <2>1. ToSet(s) = {s[m] : m \in 1 .. n} /\ ToSet(Sorted(s)) = {s[at[i]] : i \in 1 .. n}
    BY <1>2 DEF ToSet
  <2>2. \A i \in 1 .. n : at[i] \in 1 .. n
    BY <1>1
  <2>3. \A m \in 1 .. n : \E i \in 1 .. n : at[i] = m
    BY <1>1
  <2>4. ToSet(Sorted(s)) \subseteq ToSet(s)
    BY ONLY <2>1, <2>2
  <2>5. ToSet(s) \subseteq ToSet(Sorted(s))
    <3> SUFFICES ASSUME NEW m \in 1 .. n PROVE s[m] \in ToSet(Sorted(s))
      BY <2>1
    <3>1. PICK i \in 1 .. n : at[i] = m
      BY <2>3
    <3> QED BY <2>1, <3>1
  <2> QED BY <2>4, <2>5
<1> QED BY <1>3, <1>4, <1>5

LEMMA LeastNumber ==
    ASSUME NEW S, S # {}, S \subseteq Nat
    PROVE  \E x \in S : \A y \in S : x <= y
<1>1. PICK x \in S : \A y \in S : ~(<<y, x>> \in OpToRel(<, Nat))
  BY NatLessThanWellFounded, WFMin
<1>2. ASSUME NEW y \in S PROVE x <= y
  <2>1. x \in Nat /\ y \in Nat
    OBVIOUS
  <2>2. ~(y < x)
    BY <1>1, <2>1 DEF OpToRel
  <2> QED BY <2>1, <2>2
<1> QED BY <1>2

\* A finite set of positions can be listed in ascending order.
LEMMA Listing ==
    ASSUME NEW S, IsFiniteSet(S), S \subseteq Nat
    PROVE  \E at \in [1 .. Cardinality(S) -> S] : Ascending(at)
<1> DEFINE n == Cardinality(S)
<1>1. n \in Nat /\ ExistsBijection(1 .. n, S)
  BY FS_CardinalityType
<1>2. PICK e \in [1 .. n -> S] : \A i, j \in 1 .. n : i # j => e[i] # e[j]
  BY <1>1 DEF ExistsBijection, Bijection, Injection, Surjection, IsInjective
<1> HIDE DEF n
<1>3. e \in [1 .. n -> Int]
  <2>1. \A x \in S : x \in Int
    OBVIOUS
  <2> QED BY <1>2, <2>1
<1> DEFINE o == Order(e)
           at == [m \in 1 .. n |-> e[o[m]]]
<1>4. /\ o \in [1 .. n -> 1 .. n]
      /\ \A i, j \in 1 .. n : i < j => Before(e, o[i], o[j])
      /\ \A m \in 1 .. n : \E i \in 1 .. n : o[i] = m
  BY <1>1, <1>3, OrderSorts
<1> HIDE DEF o
<1>5. at \in [1 .. n -> S]
  BY <1>4
<1>6. ASSUME NEW i \in 1 .. n, NEW j \in 1 .. n, i < j PROVE at[i] < at[j]
  <2>1. Before(e, o[i], o[j]) /\ o[i] \in 1 .. n /\ o[j] \in 1 .. n
    BY <1>4, <1>6
  <2>2. o[i] # o[j]
    BY <2>1, <1>3, <1>1, BeforeIsOrder
  <2>3. e[o[i]] # e[o[j]]
    BY <1>2, <2>1, <2>2
  <2> QED BY <2>1, <2>3 DEF Before
<1>7. Ascending(at)
  BY <1>6 DEF Ascending
<1> HIDE DEF at
<1> QED BY <1>5, <1>7 DEF n

LEMMA DedupOfSorted ==
    ASSUME NEW n \in Nat, NEW s \in [1 .. n -> Int],
           \A i, j \in 1 .. n : i < j => s[i] <= s[j]
    PROVE  /\ \E m \in Nat : Dedup(s) \in [1 .. m -> Int]
           /\ Ascending(Dedup(s))
           /\ ToSet(Dedup(s)) = ToSet(s)
<1> DEFINE K == Kept(s)
           m == Cardinality(K)
           at == CHOOSE a \in [1 .. m -> K] : \A i, j \in DOMAIN a : i < j => a[i] < a[j]
<1>1. K \subseteq 1 .. n /\ \A i \in 1 .. n : i \in K <=> i = 1 \/ s[i] # s[i - 1]
  BY DEF Kept
<1>2. IsFiniteSet(K) /\ m \in Nat
  <2>1. IsFiniteSet(1 .. n) /\ K \in SUBSET (1 .. n)
    BY <1>1, FS_Interval
  <2>2. IsFiniteSet(K)
    BY <2>1, FS_Subset
  <2> QED BY <2>2, FS_CardinalityType
<1>3. \E a \in [1 .. m -> K] : \A i, j \in DOMAIN a : i < j => a[i] < a[j]
  <2>1. K \subseteq Nat
    BY <1>1
  <2> HIDE DEF K
  <2> QED BY <1>2, <2>1, Listing DEF Ascending
<1>4. Dedup(s) = [k \in DOMAIN at |-> s[at[k]]]
  BY DEF Dedup
<1> HIDE DEF K, m
<1>5. at \in [1 .. m -> K] /\ \A i, j \in DOMAIN at : i < j => at[i] < at[j]
  BY <1>3
<1> HIDE DEF at
<1>6. \A i \in 1 .. m : at[i] \in K /\ at[i] \in 1 .. n
  BY <1>1, <1>5
<1>p. Dedup(s) \in [1 .. m -> Int]
  <2>1. \A i \in 1 .. m : s[at[i]] \in Int
    BY <1>6
  <2>2. Dedup(s) = [k \in 1 .. m |-> s[at[k]]]
    BY <1>4, <1>5
  <2> QED BY <2>1, <2>2
<1>7. \A i, j \in 1 .. m : at[i] = at[j] => i = j
  <2> SUFFICES ASSUME NEW i \in 1 .. m, NEW j \in 1 .. m, at[i] = at[j], i # j PROVE FALSE
    OBVIOUS
  <2>1. at[i] \in Int /\ at[j] \in Int
    BY <1>6
  <2>2. i < j \/ j < i
    BY <1>2
  <2> QED BY <1>5, <2>1, <2>2
<1>8. ASSUME NEW i \in 1 .. m, NEW j \in 1 .. m, i < j PROVE s[at[i]] < s[at[j]]
  <2> DEFINE a == at[i]
             b == at[j]
  <2>1. a \in 1 .. n /\ b \in 1 .. n /\ b \in K /\ a < b
    BY <1>1, <1>5, <1>8
  <2> HIDE DEF a, b
  <2>2. b # 1 /\ b - 1 \in 1 .. n /\ (a = b - 1 \/ a < b - 1)
    BY <2>1
  <2>3. s[a] <= s[b - 1] /\ s[b - 1] <= s[b] /\ s[b - 1] # s[b]
    <3>1. s[a] \in Int /\ s[b - 1] \in Int /\ s[b] \in Int
      BY <2>1, <2>2
    <3>2. s[a] <= s[b - 1]
      BY <2>1, <2>2, <3>1
    <3>3. s[b - 1] <= s[b]
      BY <2>1, <2>2
    <3> QED BY <1>1, <2>1, <2>2, <3>2, <3>3
  <2>4. s[a] < s[b]
    BY <2>1, <2>2, <2>3
  <2> QED BY <2>4 DEF a, b
<1>9. Ascending(Dedup(s))
  BY <1>4, <1>5, <1>8 DEF Ascending
<1>10. \A x \in K : \E i \in 1 .. m : at[i] = x
  <2> SUFFICES ASSUME NEW x \in K, \A i \in 1 .. m : at[i] # x PROVE FALSE
    OBVIOUS
  <2> DEFINE T == K \ {x}
  <2>1. IsFiniteSet(T) /\ Cardinality(T) = m - 1 /\ at \in [1 .. m -> T]
    BY <1>2, <1>5, FS_RemoveElement DEF m
  <2>2. IsFiniteSet(1 .. m) /\ Cardinality(1 .. m) = m
    BY <1>2, FS_Interval
  <2> HIDE DEF T
  <2>3. \E i, j \in 1 .. m : i # j /\ at[i] = at[j]
    <3>1. Cardinality(T) < Cardinality(1 .. m)
      BY <1>2, <2>1, <2>2
    <3> QED BY <2>1, <2>2, <3>1, FS_PigeonHole
  <2> QED BY <1>7, <2>3
<1>11. \A i \in 1 .. n : \E k \in K : s[k] = s[i]
  <2> SUFFICES ASSUME NEW i \in 1 .. n PROVE \E k \in K : s[k] = s[i]
    OBVIOUS
  <2> DEFINE S == {j \in 1 .. n : s[j] = s[i]}
  <2>1. PICK k \in S : \A j \in S : k <= j
    <3>1. S # {} /\ S \subseteq Nat
      OBVIOUS
    <3> QED BY <3>1, LeastNumber
  <2>2. k \in 1 .. n /\ s[k] = s[i] /\ (k # 1 => k - 1 \in 1 .. n /\ k - 1 \notin S)
    BY <2>1
  <2> QED BY <1>1, <2>2
<1>12. ToSet(Dedup(s)) = ToSet(s)
  <2>1. ToSet(s) = {s[i] : i \in 1 .. n} /\ ToSet(Dedup(s)) = {s[at[i]] : i \in 1 .. m}
    BY <1>4, <1>5 DEF ToSet
  <2>2. ToSet(Dedup(s)) \subseteq ToSet(s)
    BY <1>1, <1>5, <2>1
  <2>3. ToSet(s) \subseteq ToSet(Dedup(s))
    <3> SUFFICES ASSUME NEW i \in 1 .. n PROVE s[i] \in ToSet(Dedup(s))
      BY <2>1
    <3>1. PICK k \in K : s[k] = s[i]
      BY <1>11
    <3>2. PICK j \in 1 .. m : at[j] = k
      BY <1>10
    <3> QED BY <2>1, <3>1, <3>2
  <2> QED BY <2>2, <2>3
<1> QED BY <1>2, <1>p, <1>9, <1>12

(***************************************************************************)
(* The ports of a list, range after range.                                 *)
(***************************************************************************)
LEMMA ConcatRange ==
    ASSUME NEW T, NEW s \in Seq(T), NEW t \in Seq(T)
    PROVE  s \o t \in Seq(T) /\ ToSet(s \o t) = ToSet(s) \cup ToSet(t)
<1> DEFINE u == s \o t
           m == Len(s)
           n == Len(t)
<1>1. /\ u \in Seq(T) /\ m \in Nat /\ n \in Nat
      /\ DOMAIN s = 1 .. m /\ DOMAIN t = 1 .. n /\ DOMAIN u = 1 .. (m + n)
  OBVIOUS
<1>2. \A i \in 1 .. m : u[i] = s[i]
  OBVIOUS
<1>3. \A i \in 1 .. n : u[m + i] = t[i]
  OBVIOUS
<1> HIDE DEF u, m, n
<1>4. ToSet(u) \subseteq ToSet(s) \cup ToSet(t)
  <2> SUFFICES ASSUME NEW i \in 1 .. (m + n) PROVE u[i] \in ToSet(s) \cup ToSet(t)
    BY <1>1 DEF ToSet
  <2>1. CASE i \in 1 .. m
    BY <1>1, <1>2, <2>1 DEF ToSet
  <2>2. CASE i \notin 1 .. m
    <3>1. i - m \in 1 .. n /\ i = m + (i - m)
      BY <1>1, <2>2
    <3>2. u[i] = t[i - m]
      BY <1>3, <3>1
    <3> QED BY <1>1, <3>1, <3>2 DEF ToSet
  <2> QED BY <2>1, <2>2
<1>5. ToSet(s) \subseteq ToSet(u)
  <2> SUFFICES ASSUME NEW i \in 1 .. m PROVE s[i] \in ToSet(u)
    BY <1>1 DEF ToSet
  <2>1. i \in 1 .. (m + n) /\ s[i] = u[i]
    BY <1>1, <1>2
  <2> QED BY <1>1, <2>1 DEF ToSet
<1>6. ToSet(t) \subseteq ToSet(u)
  <2> SUFFICES ASSUME NEW i \in 1 .. n PROVE t[i] \in ToSet(u)
    BY <1>1 DEF ToSet
  <2>1. m + i \in 1 .. (m + n) /\ t[i] = u[m + i]
    BY <1>1, <1>3
  <2> QED BY <1>1, <2>1 DEF ToSet
<1>7. u \in Seq(T) /\ ToSet(u) = ToSet(s) \cup ToSet(t)
  BY <1>1, <1>4, <1>5, <1>6
<1> QED BY <1>7 DEF u

\* f[i] is the concatenation of the first i sequences.
Concats(ss, k, f) == f = [i \in 1 .. k |-> IF i = 1 THEN ss[i] ELSE f[i - 1] \o ss[i]]

\* What is in one of the first k sequences.
Among(ss, k) == UNION {ToSet(ss[i]) : i \in 1 .. k}

LEMMA ConcatsExist ==
    ASSUME NEW n \in Nat, NEW ss
    PROVE  \E f : Concats(ss, n, f)
<1> DEFINE S == {k \in Nat : ~ \E f : Concats(ss, k, f)}
<1>1. SUFFICES ASSUME S # {} PROVE FALSE
  OBVIOUS
<1>2. PICK k \in S : \A j \in S : k <= j
  BY <1>1, LeastNumber
<1>3. k \in Nat /\ ~ \E f : Concats(ss, k, f)
  OBVIOUS
<1>4. k # 0
  <2>1. Concats(ss, 0, [i \in 1 .. 0 |-> ss])
    BY DEF Concats
  <2> QED BY <1>3, <2>1
<1>5. PICK g : Concats(ss, k - 1, g)
  <2>1. k - 1 \in Nat /\ k - 1 \notin S
    BY <1>2, <1>3, <1>4
  <2> QED BY <2>1
<1> HIDE DEF S
<1> DEFINE last == IF k = 1 THEN ss[k] ELSE g[k - 1] \o ss[k]
           f == [i \in 1 .. k |-> IF i = k THEN last ELSE g[i]]
           h == [i \in 1 .. k |-> IF i = 1 THEN ss[i] ELSE f[i - 1] \o ss[i]]
<1>6. \A i \in 1 .. (k - 1) : g[i] = IF i = 1 THEN ss[i] ELSE g[i - 1] \o ss[i]
  BY <1>5 DEF Concats
<1>7. ASSUME NEW i \in 1 .. k PROVE f[i] = h[i]
  <2>1. i # 1 => i - 1 \in 1 .. (k - 1) /\ f[i - 1] = g[i - 1]
    BY <1>3, <1>4
  <2>2. h[i] = IF i = 1 THEN ss[i] ELSE g[i - 1] \o ss[i]
    BY <2>1
  <2>3. CASE i = k
    BY <2>2, <2>3
  <2>4. CASE i # k
    <3>1. i \in 1 .. (k - 1) /\ f[i] = g[i]
      BY <1>3, <1>4, <2>4
    <3> HIDE DEF f, h
    <3> QED BY <1>6, <2>2, <3>1
  <2> QED BY <2>3, <2>4
<1>8. f = h
  <2>1. f = [i \in 1 .. k |-> f[i]] /\ h = [i \in 1 .. k |-> h[i]]
    OBVIOUS
  <2> HIDE DEF f, h
  <2> QED BY <1>7, <2>1
<1>9. Concats(ss, k, f)
  <2> HIDE DEF f
  <2> QED BY <1>8 DEF Concats, h
<1> QED BY <1>3, <1>9

LEMMA ConcatsRange ==
    ASSUME NEW T, NEW n \in Nat, NEW ss \in [1 .. n -> Seq(T)], NEW f, Concats(ss, n, f),
           NEW k \in 1 .. n
    PROVE  f[k] \in Seq(T) /\ ToSet(f[k]) = Among(ss, k)
<1> DEFINE Good(j) ==
             f[j] \in Seq(T) /\ ToSet(f[j]) = Among(ss, j)
           S == {j \in 1 .. n : ~Good(j)}
<1>0. \A i \in 1 .. n : f[i] = IF i = 1 THEN ss[i] ELSE f[i - 1] \o ss[i]
  BY DEF Concats
<1>1. SUFFICES ASSUME S # {} PROVE FALSE
  OBVIOUS
<1>2. S \subseteq Nat
  OBVIOUS
<1>3. PICK j \in S : \A i \in S : j <= i
  BY <1>1, <1>2, LeastNumber
<1>4. j \in 1 .. n /\ ~Good(j)
  BY <1>3
<1>5. CASE j = 1
  <2>1. f[j] = ss[1] /\ ss[1] \in Seq(T)
    BY <1>0, <1>4, <1>5
  <2>2. Among(ss, 1) = ToSet(ss[1])
    <3>1. 1 .. 1 = {1}
      OBVIOUS
    <3> QED BY <3>1 DEF Among
  <2> QED BY <1>4, <1>5, <2>1, <2>2
<1>6. CASE j # 1
  <2>1. j - 1 \in 1 .. n /\ j - 1 \notin S
    <3>1. j - 1 \in 1 .. n /\ ~(j <= j - 1)
      BY <1>4, <1>6
    <3> HIDE DEF S
    <3> QED BY <1>3, <3>1
  <2>2. Good(j - 1)
    BY <2>1
  <2>3. f[j] = f[j - 1] \o ss[j] /\ ss[j] \in Seq(T)
    BY <1>0, <1>4, <1>6
  <2>4. f[j] \in Seq(T) /\ ToSet(f[j]) = ToSet(f[j - 1]) \cup ToSet(ss[j])
    BY <2>2, <2>3, ConcatRange
  <2>5. 1 .. j = (1 .. (j - 1)) \cup {j}
    BY <1>4, <1>6
  <2>6. Among(ss, j) = Among(ss, j - 1) \cup ToSet(ss[j])
    BY <2>5 DEF Among
  <2> QED BY <1>4, <2>2, <2>4, <2>6
<1> QED BY <1>5, <1>6

LEMMA FlattenRange ==
    ASSUME NEW T, NEW n \in Nat, NEW ss \in [1 .. n -> Seq(T)]
    PROVE  FlattenSeq(ss) \in Seq(T) /\ ToSet(FlattenSeq(ss)) = Among(ss, n)
<1>1. Len(ss) = n
  OBVIOUS
<1>2. CASE n = 0
  <2>1. FlattenSeq(ss) = <<>>
    BY <1>1, <1>2 DEF FlattenSeq
  <2>2. ToSet(<<>>) = {} /\ <<>> \in Seq(T)
    BY DEF ToSet
  <2>3. Among(ss, n) = {}
    BY <1>2 DEF Among
  <2> QED BY <2>1, <2>2, <2>3
<1>3. CASE n # 0
  <2> DEFINE f == CHOOSE g : Concats(ss, n, g)
  <2>1. FlattenSeq(ss) = f[n]
    BY <1>1, <1>3 DEF FlattenSeq, Concats
  <2>2. Concats(ss, n, f)
    BY ConcatsExist
  <2>3. n \in 1 .. n
    BY <1>3
  <2> HIDE DEF f
  <2> QED BY <2>1, <2>2, <2>3, ConcatsRange
<1> QED BY <1>2, <1>3

LEMMA ExpandedRange ==
    ASSUME NEW ps \in Specs
    PROVE  /\ Expanded(ps) \in Seq(Nat)
           /\ ToSet(Expanded(ps)) = UNION {ps[i].lo .. ps[i].hi : i \in DOMAIN ps}
<1> DEFINE n == Len(ps)
           ss == [i \in 1 .. n |-> [j \in 1 .. ps[i].hi - ps[i].lo + 1 |-> ps[i].lo + j - 1]]
<1>1. n \in Nat /\ DOMAIN ps = 1 .. n /\ \A i \in 1 .. n : ps[i].lo \in Nat /\ ps[i].hi \in Nat
  <2> DEFINE R == [lo: Ports, hi: Ports]
  <2>1. ps \in Seq(R)
    BY ScanNumbersAssumption
  <2>2. \A i \in 1 .. n : ps[i] \in R
    <3> HIDE DEF R
    <3> QED BY <2>1
  <2>3. \A i \in 1 .. n : ps[i].lo \in Ports /\ ps[i].hi \in Ports
    BY <2>2
  <2>4. \A p \in Ports : p \in Nat
    BY ScanNumbersAssumption
  <2> QED BY <2>1, <2>3, <2>4
<1>2. Expanded(ps) = FlattenSeq(ss)
  BY <1>1 DEF Expanded
<1>3. ASSUME NEW i \in 1 .. n
      PROVE  ss[i] \in Seq(Nat) /\ ToSet(ss[i]) = ps[i].lo .. ps[i].hi
  <2> DEFINE lo == ps[i].lo
             hi == ps[i].hi
             r == [j \in 1 .. hi - lo + 1 |-> lo + j - 1]
             m == IF lo <= hi THEN hi - lo + 1 ELSE 0
  <2>1. lo \in Nat /\ hi \in Nat /\ ss[i] = r
    BY <1>1
  <2> HIDE DEF lo, hi
  <2>2. m \in Nat /\ 1 .. hi - lo + 1 = 1 .. m
    BY <2>1
  <2>3. \A j \in 1 .. m : r[j] \in Nat
    BY <2>1, <2>2
  <2>4. r \in Seq(Nat)
    <3>1. r \in [1 .. m -> Nat]
      BY <2>1, <2>2
    <3> HIDE DEF r, m
    <3> QED BY <2>2, <3>1
  <2>5. ToSet(r) \subseteq lo .. hi
    BY <2>1 DEF ToSet
  <2>6. lo .. hi \subseteq ToSet(r)
    <3> SUFFICES ASSUME NEW p \in lo .. hi PROVE p \in ToSet(r)
      OBVIOUS
    <3>1. p - lo + 1 \in 1 .. hi - lo + 1 /\ r[p - lo + 1] = p
      BY <2>1
    <3> QED BY <3>1 DEF ToSet
  <2> HIDE DEF r
  <2> QED BY <2>1, <2>4, <2>5, <2>6 DEF lo, hi
<1>4. ss \in [1 .. n -> Seq(Nat)]
  <2>1. ss = [i \in 1 .. n |-> ss[i]]
    OBVIOUS
  <2> HIDE DEF ss
  <2> QED BY <1>3, <2>1
<1> HIDE DEF ss, n
<1>5. FlattenSeq(ss) \in Seq(Nat) /\ ToSet(FlattenSeq(ss)) = Among(ss, n)
  BY <1>1, <1>4, FlattenRange
<1>6. Among(ss, n) = UNION {ps[i].lo .. ps[i].hi : i \in 1 .. n}
  BY <1>3 DEF Among
<1> QED BY <1>1, <1>2, <1>5, <1>6

\* Whatever the user repeats or overlaps.
LEMMA TargetPortsRight ==
    ASSUME NEW ps \in Specs
    PROVE  /\ TargetPorts(ps) \in Seq(Int)
           /\ Ascending(TargetPorts(ps))
           /\ ToSet(TargetPorts(ps)) = UNION {ps[i].lo .. ps[i].hi : i \in DOMAIN ps}
<1> DEFINE e == Expanded(ps)
           n == Len(e)
           s == Sorted(e)
<1>1. n \in Nat /\ e \in [1 .. n -> Int]
  <2>1. e \in Seq(Nat)
    BY ExpandedRange
  <2> HIDE DEF e
  <2> QED BY <2>1
<1> HIDE DEF e, n
<1>2. /\ s \in [1 .. n -> Int] /\ ToSet(s) = ToSet(e)
      /\ \A i, j \in 1 .. n : i < j => s[i] <= s[j]
  BY <1>1, SortedSorts
<1> HIDE DEF s
<1>3. PICK m \in Nat : Dedup(s) \in [1 .. m -> Int]
  BY <1>1, <1>2, DedupOfSorted
<1>4. Ascending(Dedup(s)) /\ ToSet(Dedup(s)) = ToSet(s)
  BY <1>1, <1>2, DedupOfSorted
<1>5. Dedup(s) \in Seq(Int)
  BY <1>3
<1> QED BY <1>2, <1>4, <1>5, ExpandedRange DEF TargetPorts, e, s

\* There is one way to list a set of numbers in ascending order.
LEMMA AscendingUnique ==
    ASSUME NEW n \in Nat, NEW m \in Nat, NEW f \in [1 .. n -> Int], NEW g \in [1 .. m -> Int],
           Ascending(f), Ascending(g), ToSet(f) = ToSet(g)
    PROVE  f = g
<1>1. /\ \A i \in 1 .. n : \E j \in 1 .. m : f[i] = g[j]
      /\ \A j \in 1 .. m : \E i \in 1 .. n : f[i] = g[j]
  <2>1. ToSet(f) = {f[i] : i \in 1 .. n} /\ ToSet(g) = {g[j] : j \in 1 .. m}
    BY DEF ToSet
  <2>2. \A i \in 1 .. n : f[i] \in ToSet(g)
    BY <2>1
  <2>3. \A j \in 1 .. m : g[j] \in ToSet(f)
    BY <2>1
  <2> QED BY <2>1, <2>2, <2>3
<1>2. /\ \A i, j \in 1 .. n : i < j => f[i] < f[j]
      /\ \A i, j \in 1 .. m : i < j => g[i] < g[j]
  BY DEF Ascending
<1>3. \A i \in 1 .. n : i \in 1 .. m => f[i] = g[i]
  <2> DEFINE S == {i \in 1 .. n : i \in 1 .. m /\ f[i] # g[i]}
  <2>1. SUFFICES ASSUME S # {} PROVE FALSE
    OBVIOUS
  <2>2. PICK i \in S : \A j \in S : i <= j
    <3>1. S \subseteq Nat
      OBVIOUS
    <3> QED BY <2>1, <3>1, LeastNumber
  <2>3. i \in 1 .. n /\ i \in 1 .. m /\ f[i] # g[i] /\ f[i] \in Int /\ g[i] \in Int
    OBVIOUS
  <2>4. \A j \in 1 .. n : j < i => j \in 1 .. m /\ f[j] = g[j]
    <3> SUFFICES ASSUME NEW j \in 1 .. n, j < i PROVE j \in 1 .. m /\ f[j] = g[j]
      OBVIOUS
    <3>1. j \in 1 .. m /\ ~(i <= j)
      BY <2>3
    <3>2. j \notin S
      BY <2>2, <3>1
    <3> QED BY <3>1, <3>2
  <2> HIDE DEF S
  <2>5. f[i] > g[i]
    <3>1. PICK j \in 1 .. m : f[i] = g[j]
      BY <1>1, <2>3
    <3>2. j # i /\ g[j] \in Int
      BY <2>3, <3>1
    <3>3. ~(j < i)
      <4>1. ASSUME j < i PROVE FALSE
        <5>1. j \in 1 .. n /\ f[j] < f[i]
          BY <1>2, <2>3, <4>1
        <5>2. f[j] = g[j]
          BY <2>4, <4>1, <5>1
        <5> QED BY <2>3, <3>1, <5>1, <5>2
      <4> QED BY <4>1
    <3>4. i < j
      BY <2>3, <3>2, <3>3
    <3>5. g[i] < g[j]
      BY <1>2, <2>3, <3>4
    <3> QED BY <2>3, <3>1, <3>2, <3>5
  <2>6. g[i] > f[i]
    <3>1. PICK j \in 1 .. n : f[j] = g[i]
      BY <1>1, <2>3
    <3>2. j # i /\ f[j] \in Int
      BY <2>3, <3>1
    <3>3. ~(j < i)
      <4>1. ASSUME j < i PROVE FALSE
        <5>1. f[j] = g[j] /\ j \in 1 .. m
          BY <2>4, <4>1
        <5>2. g[j] < g[i]
          BY <1>2, <2>3, <4>1, <5>1
        <5> QED BY <2>3, <3>1, <5>1, <5>2
      <4> QED BY <4>1
    <3>4. i < j
      BY <2>3, <3>2, <3>3
    <3>5. f[i] < f[j]
      BY <1>2, <2>3, <3>4
    <3> QED BY <2>3, <3>1, <3>2, <3>5
  <2> QED BY <2>3, <2>5, <2>6
<1>4. ~(n < m)
  <2> SUFFICES ASSUME n < m PROVE FALSE
    OBVIOUS
  <2>1. n + 1 \in 1 .. m
    OBVIOUS
  <2>2. PICK i \in 1 .. n : f[i] = g[n + 1]
    BY <1>1, <2>1
  <2>3. i \in 1 .. m /\ i < n + 1
    OBVIOUS
  <2>4. f[i] = g[i] /\ g[i] < g[n + 1]
    BY <1>2, <1>3, <2>1, <2>3
  <2>5. g[i] \in Int
    BY <2>3
  <2> QED BY <2>2, <2>4, <2>5
<1>5. ~(m < n)
  <2> SUFFICES ASSUME m < n PROVE FALSE
    OBVIOUS
  <2>1. m + 1 \in 1 .. n
    OBVIOUS
  <2>2. PICK j \in 1 .. m : f[m + 1] = g[j]
    BY <1>1, <2>1
  <2>3. j \in 1 .. n /\ j < m + 1
    OBVIOUS
  <2>4. f[j] = g[j] /\ f[j] < f[m + 1]
    BY <1>2, <1>3, <2>1, <2>3
  <2>5. f[j] \in Int
    BY <2>3
  <2> QED BY <2>2, <2>4, <2>5
<1>6. n = m
  BY <1>4, <1>5
<1> QED BY <1>3, <1>6

(***************************************************************************)
(* The inductive invariant.  A port that was spawned is in flight, ended   *)
(* or collected, and only one of these; the permits are the width less the *)
(* probes in flight.                                                       *)
(***************************************************************************)
States == {"Open", "Closed", "Filtered"}

Spawned == {target[i] : i \in 1 .. next - 1}

Collected == {outcomes[i].port : i \in DOMAIN outcomes}

Parsed ==
    /\ spec \in Specs /\ net \in [Ports -> Behaviours]
    /\ target \in Seq(Int) /\ Ascending(target)
    /\ step # "refused" => ToSet(target) = UNION {spec[i].lo .. spec[i].hi : i \in DOMAIN spec}

Counted ==
    /\ step \in {"spawning", "joining", "returned", "refused"}
    /\ next \in 1 .. Len(target) + 1
    /\ step \in {"joining", "returned"} => next = Len(target) + 1
    /\ IsFiniteSet(probing) /\ permits \in Nat
    /\ permits + Cardinality(probing) = Width

OnceEach ==
    /\ Spawned = probing \cup DOMAIN finished \cup Collected
    /\ probing \cap DOMAIN finished = {}
    /\ probing \cap Collected = {}
    /\ DOMAIN finished \cap Collected = {}
    /\ \A i, j \in DOMAIN outcomes : outcomes[i].port = outcomes[j].port => i = j

Observed ==
    /\ \A p \in DOMAIN finished : p \in Ports /\ finished[p] \in Probes(p)
    /\ outcomes \in Seq([port: Ports, state: States])
    /\ \A i \in DOMAIN outcomes : outcomes[i].state \in Probes(outcomes[i].port)

Returned ==
    step = "returned" =>
       /\ probing = {} /\ DOMAIN finished = {}
       /\ DOMAIN outcomes = DOMAIN target
       /\ \A i \in DOMAIN target : outcomes[i].port = target[i]

ScanInv == Parsed /\ Counted /\ OnceEach /\ Observed /\ Returned

LEMMA ProbeStates ==
    ASSUME net \in [Ports -> Behaviours], NEW p \in Ports, NEW s \in Probes(p)
    PROVE  s \in States
BY DEF Behaviours, Probes, States

LEMMA ScanInitInv == ScanInit => ScanInv
<1> SUFFICES ASSUME ScanInit PROVE ScanInv
  OBVIOUS
<1> USE DEF ScanInit
<1>1. target \in Seq(Int) /\ Ascending(target)
  <2>1. CASE EmptyRange(spec)
    BY <2>1 DEF Ascending
  <2>2. CASE ~EmptyRange(spec)
    BY <2>2, TargetPortsRight
  <2> QED BY <2>1, <2>2
<1>2. step # "refused" => ToSet(target) = UNION {spec[i].lo .. spec[i].hi : i \in DOMAIN spec}
  BY TargetPortsRight
<1>3. Parsed
  BY <1>1, <1>2 DEF Parsed
<1>4. Width \in Nat
  BY ScanNumbersAssumption DEF Width
<1>5. Len(target) \in Nat
  BY <1>1
<1>6. IsFiniteSet(probing) /\ Cardinality(probing) = 0
  BY FS_EmptySet
<1>7. Counted
  BY <1>4, <1>5, <1>6 DEF Counted
<1>8. OnceEach
  BY DEF OnceEach, Spawned, Collected
<1>9. Observed /\ Returned
  BY DEF Observed, Returned
<1> QED BY <1>3, <1>7, <1>8, <1>9 DEF ScanInv

\* What a position of the list that was not spawned yet names was not met before.
LEMMA NextIsNew ==
    ASSUME ScanInv, next <= Len(target)
    PROVE  target[next] \notin Spawned /\ target[next] \in Int
<1>1. /\ target \in Seq(Int) /\ Ascending(target) /\ next \in 1 .. Len(target) + 1
  BY DEF ScanInv, Parsed, Counted
<1>2. next \in 1 .. Len(target) /\ DOMAIN target = 1 .. Len(target) /\ Len(target) \in Nat
  BY <1>1
<1>3. ASSUME NEW i \in 1 .. next - 1 PROVE target[i] # target[next]
  <2>1. i \in 1 .. Len(target) /\ i < next
    BY <1>2
  <2>2. target[i] < target[next]
    BY <1>1, <1>2, <2>1 DEF Ascending
  <2>3. target[i] \in Int /\ target[next] \in Int
    BY <1>1, <1>2, <2>1
  <2> QED BY <2>2, <2>3
<1> QED BY <1>1, <1>2, <1>3 DEF Spawned

LEMMA SpawnStep == ScanInv /\ Spawn => ScanInv'
<1> SUFFICES ASSUME ScanInv, Spawn PROVE ScanInv'
  OBVIOUS
<1> DEFINE p == target[next]
<1>1. /\ step = "spawning" /\ next <= Len(target) /\ permits > 0
      /\ permits' = permits - 1 /\ next' = next + 1 /\ probing' = probing \cup {p}
      /\ UNCHANGED <<step, spec, target, net, finished, outcomes>>
  BY DEF Spawn, PermitFree
<1>2. /\ next \in 1 .. Len(target) + 1 /\ Len(target) \in Nat
      /\ IsFiniteSet(probing) /\ permits \in Nat /\ permits + Cardinality(probing) = Width
  BY DEF ScanInv, Parsed, Counted
<1>3. p \notin Spawned
  BY <1>1, NextIsNew
<1>4. Spawned' = Spawned \cup {p}
  <2>1. 1 .. next' - 1 = (1 .. next - 1) \cup {next}
    BY <1>1, <1>2
  <2> QED BY <1>1, <2>1 DEF Spawned
<1> HIDE DEF p
<1>5. Collected' = Collected
  BY <1>1 DEF Collected
<1>6. p \notin probing
  BY <1>3 DEF ScanInv, OnceEach
<1>7. IsFiniteSet(probing') /\ Cardinality(probing') = Cardinality(probing) + 1
  BY <1>1, <1>2, <1>6, FS_AddElement
<1>8. Cardinality(probing) \in Nat
  BY <1>2, FS_CardinalityType
<1>9. Counted'
  <2>1. permits' \in Nat /\ permits' + Cardinality(probing') = Width
    BY <1>1, <1>2, <1>7, <1>8
  <2>2. next' \in 1 .. Len(target') + 1
    BY <1>1, <1>2
  <2> QED BY <1>1, <1>7, <2>1, <2>2 DEF Counted, Width
<1>10. Parsed'
  BY <1>1 DEF ScanInv, Parsed
<1>11. OnceEach'
  BY <1>1, <1>3, <1>4, <1>5 DEF ScanInv, OnceEach
<1>12. Observed' /\ Returned'
  BY <1>1 DEF ScanInv, Observed, Returned, Probes
<1> QED BY <1>9, <1>10, <1>11, <1>12 DEF ScanInv

LEMMA ProbeEndsStep == ASSUME ScanInv, NEW p \in Ports, ProbeEnds(p) PROVE ScanInv'
<1>1. PICK s \in Probes(p) :
         finished' = [q \in DOMAIN finished \cup {p} |-> IF q = p THEN s ELSE finished[q]]
  BY DEF ProbeEnds
<1>2. /\ p \in probing /\ probing' = probing \ {p} /\ permits' = permits + 1
      /\ UNCHANGED <<step, spec, target, net, next, outcomes>>
  BY DEF ProbeEnds, Released
<1>3. IsFiniteSet(probing) /\ permits \in Nat /\ permits + Cardinality(probing) = Width
  BY DEF ScanInv, Counted
<1>4. IsFiniteSet(probing') /\ Cardinality(probing') = Cardinality(probing) - 1
  BY <1>2, <1>3, FS_RemoveElement
<1>5. Cardinality(probing) \in Nat
  BY <1>3, FS_CardinalityType
<1>6. Counted'
  <2>1. permits' \in Nat /\ permits' + Cardinality(probing') = Width
    BY <1>2, <1>3, <1>4, <1>5
  <2> QED BY <1>2, <1>4, <2>1 DEF ScanInv, Counted, Width
<1>7. Parsed'
  BY <1>2 DEF ScanInv, Parsed
<1>8. Spawned' = Spawned /\ Collected' = Collected /\ DOMAIN finished' = DOMAIN finished \cup {p}
  BY <1>1, <1>2 DEF Spawned, Collected
<1>9. OnceEach'
  BY <1>2, <1>8 DEF ScanInv, OnceEach
<1>10. Observed'
  BY <1>1, <1>2 DEF ScanInv, Observed, Probes
<1>11. Returned'
  BY <1>2 DEF ScanInv, Returned
<1> QED BY <1>6, <1>7, <1>9, <1>10, <1>11 DEF ScanInv

LEMMA AllSpawnedStep == ScanInv /\ AllSpawned => ScanInv'
<1> SUFFICES ASSUME ScanInv, AllSpawned PROVE ScanInv'
  OBVIOUS
<1>1. /\ step = "spawning" /\ next > Len(target) /\ step' = "joining"
      /\ UNCHANGED <<spec, target, net, next, permits, probing, finished, outcomes>>
  BY DEF AllSpawned
<1>2. Parsed'
  BY <1>1 DEF ScanInv, Parsed
<1>3. Counted'
  <2>1. Len(target) \in Nat /\ next \in 1 .. Len(target) + 1
    BY DEF ScanInv, Parsed, Counted
  <2>2. next = Len(target) + 1
    BY <1>1, <2>1
  <2> QED BY <1>1, <2>2 DEF ScanInv, Counted, Width
<1>4. OnceEach'
  BY <1>1 DEF ScanInv, OnceEach, Spawned, Collected
<1>5. Observed' /\ Returned'
  BY <1>1 DEF ScanInv, Observed, Probes, Returned
<1> QED BY <1>2, <1>3, <1>4, <1>5 DEF ScanInv

LEMMA JoinStep == ASSUME ScanInv, NEW p \in Ports, Join(p) PROVE ScanInv'
<1> DEFINE o == [port |-> p, state |-> finished[p]]
           n == Len(outcomes)
<1>1. /\ step = "joining" /\ p \in DOMAIN finished /\ outcomes' = Append(outcomes, o)
      /\ DOMAIN finished' = DOMAIN finished \ {p}
      /\ \A q \in DOMAIN finished' : finished'[q] = finished[q]
      /\ UNCHANGED <<step, spec, target, net, next, permits, probing>>
  BY DEF Join
<1>2. net \in [Ports -> Behaviours] /\ finished[p] \in Probes(p)
  BY <1>1 DEF ScanInv, Parsed, Observed
<1>3. outcomes \in Seq([port: Ports, state: States]) /\ o \in [port: Ports, state: States]
  BY <1>2, ProbeStates DEF ScanInv, Observed
<1>4. o.port = p /\ o.state \in Probes(p)
  BY <1>2
<1> HIDE DEF o
<1>5. /\ n \in Nat /\ DOMAIN outcomes = 1 .. n /\ DOMAIN outcomes' = 1 .. n + 1
      /\ outcomes' \in Seq([port: Ports, state: States])
      /\ outcomes'[n + 1] = o /\ \A i \in 1 .. n : outcomes'[i] = outcomes[i]
  <2> DEFINE u == Append(outcomes, o)
  <2>1. /\ n \in Nat /\ DOMAIN outcomes = 1 .. n /\ DOMAIN u = 1 .. n + 1
        /\ u \in Seq([port: Ports, state: States])
        /\ u[n + 1] = o /\ \A i \in 1 .. n : u[i] = outcomes[i]
    BY <1>3
  <2> QED BY <1>1, <2>1
<1> HIDE DEF n
<1>6. 1 .. n + 1 = (1 .. n) \cup {n + 1}
  BY <1>5
<1>7. Collected' = Collected \cup {p} /\ Spawned' = Spawned
  <2>1. Collected' = {outcomes'[i].port : i \in 1 .. n + 1} /\ Collected = {outcomes[i].port : i \in 1 .. n}
    BY <1>5 DEF Collected
  <2>2. \A i \in 1 .. n : outcomes'[i].port = outcomes[i].port
    BY <1>5
  <2>3. outcomes'[n + 1].port = p
    BY <1>4, <1>5
  <2>4. Collected' = {outcomes'[i].port : i \in 1 .. n} \cup {p}
    BY <1>6, <2>1, <2>3
  <2>5. {outcomes'[i].port : i \in 1 .. n} = Collected
    BY <2>1, <2>2
  <2> QED BY <1>1, <2>4, <2>5 DEF Spawned
<1>8. p \notin Collected
  BY <1>1 DEF ScanInv, OnceEach
<1>9. \A i \in 1 .. n : outcomes'[i].port # p
  BY <1>5, <1>8 DEF Collected
<1>10. OnceEach'
  <2>1. ASSUME NEW i \in DOMAIN outcomes', NEW j \in DOMAIN outcomes',
               outcomes'[i].port = outcomes'[j].port
        PROVE  i = j
    <3>1. outcomes'[n + 1].port = p
      BY <1>4, <1>5
    <3>2. CASE i \in 1 .. n /\ j \in 1 .. n
      BY <1>5, <2>1, <3>2 DEF ScanInv, OnceEach
    <3>3. CASE i = n + 1 \/ j = n + 1
      BY <1>5, <1>6, <1>9, <2>1, <3>1, <3>3
    <3> QED BY <1>5, <1>6, <3>2, <3>3
  <2>2. Spawned' = probing' \cup DOMAIN finished' \cup Collected'
    BY <1>1, <1>7 DEF ScanInv, OnceEach
  <2>3. /\ probing' \cap DOMAIN finished' = {} /\ probing' \cap Collected' = {}
        /\ DOMAIN finished' \cap Collected' = {}
    BY <1>1, <1>7 DEF ScanInv, OnceEach
  <2> QED BY <2>1, <2>2, <2>3 DEF OnceEach
<1>11. Observed'
  <2>1. ASSUME NEW i \in 1 .. n + 1 PROVE outcomes'[i].state \in Probes(outcomes'[i].port)
    <3>1. CASE i \in 1 .. n
      BY <1>5, <3>1 DEF ScanInv, Observed
    <3>2. CASE i = n + 1
      BY <1>4, <1>5, <3>2
    <3> QED BY <1>6, <3>1, <3>2
  <2>2. \A q \in DOMAIN finished' : q \in Ports /\ finished'[q] \in Probes(q)
    BY <1>1 DEF ScanInv, Observed
  <2> QED BY <1>1, <1>5, <2>1, <2>2 DEF Observed, Probes
<1>12. Parsed' /\ Counted' /\ Returned'
  BY <1>1 DEF ScanInv, Parsed, Counted, Returned, Width
<1> QED BY <1>10, <1>11, <1>12 DEF ScanInv

(***************************************************************************)
(* scan returns: every port was collected once, so sorting the outcomes by *)
(* port puts them in the order of the target.                              *)
(***************************************************************************)
LEMMA ScanReturnStep == ScanInv /\ ScanReturns => ScanInv'
<1> SUFFICES ASSUME ScanInv, ScanReturns PROVE ScanInv'
  OBVIOUS
<1> DEFINE n == Len(outcomes)
           R == [port: Ports, state: States]
           key == [i \in DOMAIN outcomes |-> outcomes[i].port]
           at == Order(key)
           ports == [i \in 1 .. n |-> outcomes'[i].port]
<1>1. /\ step = "joining" /\ probing = {} /\ DOMAIN finished = {}
      /\ outcomes' = ByPort(outcomes) /\ step' = "returned"
      /\ UNCHANGED <<spec, target, net, next, permits, probing, finished>>
  BY DEF ScanReturns
<1>2. outcomes \in Seq(R)
  BY DEF ScanInv, Observed
<1>3. n \in Nat /\ DOMAIN outcomes = 1 .. n /\ \A i \in 1 .. n : outcomes[i] \in R
  <2> HIDE DEF R
  <2> QED BY <1>2
<1>4. \A i \in 1 .. n : outcomes[i].port \in Int
  <2>1. \A i \in 1 .. n : outcomes[i].port \in Ports
    BY <1>3
  <2>2. \A p \in Ports : p \in Int
    BY ScanNumbersAssumption
  <2> QED BY <2>1, <2>2
<1>5. key \in [1 .. n -> Int] /\ \A i \in 1 .. n : key[i] = outcomes[i].port
  BY <1>3, <1>4
<1>6. outcomes' = [i \in 1 .. n |-> outcomes[at[i]]]
  BY <1>1, <1>3 DEF ByPort, InOrderOf
<1> HIDE DEF key, n
<1>7. /\ at \in [1 .. n -> 1 .. n]
      /\ \A i, j \in 1 .. n : i < j => Before(key, at[i], at[j])
      /\ \A m \in 1 .. n : \E i \in 1 .. n : at[i] = m
  BY <1>3, <1>5, OrderSorts
<1> HIDE DEF at, R
<1>8. /\ DOMAIN outcomes' = 1 .. n
      /\ \A i \in 1 .. n : at[i] \in 1 .. n /\ outcomes'[i] = outcomes[at[i]] /\ outcomes'[i] \in R
  BY <1>3, <1>6, <1>7
<1>9. outcomes' \in Seq(R)
  <2>1. outcomes' \in [1 .. n -> R]
    BY <1>6, <1>8
  <2> QED BY <1>3, <2>1
<1>10. ASSUME NEW i \in 1 .. n, NEW j \in 1 .. n, i < j
       PROVE  outcomes'[i].port < outcomes'[j].port
  <2>1. at[i] \in 1 .. n /\ at[j] \in 1 .. n /\ Before(key, at[i], at[j])
    BY <1>7, <1>10
  <2>2. at[i] # at[j]
    BY <1>3, <1>5, <2>1, BeforeIsOrder
  <2>3. outcomes[at[i]].port # outcomes[at[j]].port
    BY <1>3, <2>1, <2>2 DEF ScanInv, OnceEach
  <2>4. key[at[i]] < key[at[j]]
    BY <1>5, <2>1, <2>3 DEF Before
  <2> QED BY <1>5, <1>8, <2>1, <2>4
<1>11. ports \in [1 .. n -> Int] /\ Ascending(ports)
  <2>1. \A i \in 1 .. n : outcomes'[i].port \in Int
    BY <1>4, <1>8
  <2> QED BY <1>10, <2>1 DEF Ascending
<1>12. ToSet(ports) = Collected
  <2>1. ToSet(ports) = {outcomes[at[i]].port : i \in 1 .. n}
    BY <1>8 DEF ToSet
  <2>2. Collected = {outcomes[i].port : i \in 1 .. n}
    BY <1>3 DEF Collected
  <2>3. ToSet(ports) \subseteq Collected
    BY <1>8, <2>1, <2>2
  <2>4. Collected \subseteq ToSet(ports)
    <3> SUFFICES ASSUME NEW m \in 1 .. n PROVE outcomes[m].port \in ToSet(ports)
      BY <2>2
    <3>1. PICK i \in 1 .. n : at[i] = m
      BY <1>7
    <3> QED BY <2>1, <3>1
  <2> QED BY <2>3, <2>4
<1>13. /\ Len(target) \in Nat /\ target \in [1 .. Len(target) -> Int] /\ Ascending(target)
       /\ next = Len(target) + 1
  BY <1>1 DEF ScanInv, Parsed, Counted
<1>14. ToSet(target) = Collected
  <2>1. Spawned = Collected
    BY <1>1 DEF ScanInv, OnceEach
  <2>2. next - 1 = Len(target) /\ DOMAIN target = 1 .. Len(target)
    BY <1>13
  <2>3. ToSet(target) = Spawned
    BY <2>2 DEF ToSet, Spawned
  <2> QED BY <2>1, <2>3
<1> HIDE DEF ports
<1>15. ports = target
  BY <1>3, <1>11, <1>12, <1>13, <1>14, AscendingUnique
<1>16. DOMAIN outcomes' = DOMAIN target /\ \A i \in DOMAIN target : outcomes'[i].port = target[i]
  <2>1. DOMAIN ports = 1 .. n /\ \A i \in 1 .. n : ports[i] = outcomes'[i].port
    BY DEF ports
  <2> QED BY <1>8, <1>15, <2>1
<1>17. Parsed' /\ Counted'
  BY <1>1 DEF ScanInv, Parsed, Counted, Width
<1>18. OnceEach'
  <2>1. Collected' = Collected
    <3>1. Collected' = {outcomes'[i].port : i \in 1 .. n}
      BY <1>8 DEF Collected
    <3>2. ToSet(ports) = {outcomes'[i].port : i \in 1 .. n}
      BY DEF ToSet, ports
    <3> QED BY <1>12, <3>1, <3>2
  <2>2. \A i, j \in DOMAIN outcomes' : outcomes'[i].port = outcomes'[j].port => i = j
    <3> SUFFICES ASSUME NEW i \in 1 .. n, NEW j \in 1 .. n,
                        outcomes'[i].port = outcomes'[j].port, i # j
                 PROVE  FALSE
      BY <1>8
    <3>1. i < j \/ j < i
      BY <1>3
    <3>2. outcomes'[i].port \in Int /\ outcomes'[j].port \in Int
      BY <1>4, <1>8
    <3> QED BY <1>10, <3>1, <3>2
  <2>3. Spawned' = Spawned
    BY <1>1 DEF Spawned
  <2> QED BY <1>1, <2>1, <2>2, <2>3 DEF ScanInv, OnceEach
<1>19. Observed'
  <2>1. \A i \in 1 .. n : outcomes'[i].state \in Probes(outcomes'[i].port)
    BY <1>3, <1>8 DEF ScanInv, Observed
  <2>2. \A q \in DOMAIN finished' : q \in Ports /\ finished'[q] \in Probes(q)
    BY <1>1
  <2> QED BY <1>1, <1>8, <1>9, <2>1, <2>2 DEF Observed, Probes, R
<1>20. Returned'
  BY <1>1, <1>16 DEF Returned
<1> QED BY <1>17, <1>18, <1>19, <1>20 DEF ScanInv

LEMMA ScanStepInv == ScanInv /\ [ScanNext]_scanVars => ScanInv'
<1> SUFFICES ASSUME ScanInv, [ScanNext]_scanVars PROVE ScanInv'
  OBVIOUS
<1>1. CASE Spawn
  BY <1>1, SpawnStep
<1>2. CASE AllSpawned
  BY <1>2, AllSpawnedStep
<1>3. CASE ScanReturns
  BY <1>3, ScanReturnStep
<1>4. ASSUME NEW p \in Ports, ProbeEnds(p) PROVE ScanInv'
  BY <1>4, ProbeEndsStep
<1>5. ASSUME NEW p \in Ports, Join(p) PROVE ScanInv'
  BY <1>5, JoinStep
<1>6. CASE UNCHANGED scanVars
  <2>1. Parsed' /\ Counted'
    BY <1>6 DEF scanVars, ScanInv, Parsed, Counted, Width
  <2>2. OnceEach'
    BY <1>6 DEF scanVars, ScanInv, OnceEach, Spawned, Collected
  <2>3. Observed' /\ Returned'
    BY <1>6 DEF scanVars, ScanInv, Observed, Probes, Returned
  <2> QED BY <2>1, <2>2, <2>3 DEF ScanInv
<1> QED BY <1>1, <1>2, <1>3, <1>4, <1>5, <1>6 DEF ScanNext

(***************************************************************************)
(* parse_target gives each port of the ranges once, in ascending order,    *)
(* for every list it does not refuse.                                      *)
(***************************************************************************)
THEOREM PortsAreOnceInOrder == ScanSpec => []PortsOnceInOrder
<1>1. ScanInv => PortsOnceInOrder
  BY DEF ScanInv, Parsed, Ascending, PortsOnceInOrder
<1> QED BY <1>1, ScanInitInv, ScanStepInv, PTL DEF ScanSpec

(***************************************************************************)
(* The semaphore holds scan to its concurrency and gets every permit back. *)
(***************************************************************************)
THEOREM ProbesAreBounded == ScanSpec => []InFlightBounded
<1>1. ScanInv => InFlightBounded
  BY DEF ScanInv, Counted, InFlightBounded
<1> QED BY <1>1, ScanInitInv, ScanStepInv, PTL DEF ScanSpec

(***************************************************************************)
(* Whatever order the probes end in and are joined in, scan returns what   *)
(* scan_sequential may return.                                             *)
(***************************************************************************)
THEOREM ConcurrentIsSequential == ScanSpec => []SameAsSequential
<1>1. ScanInv => SameAsSequential
  <2> SUFFICES ASSUME ScanInv, step = "returned" PROVE outcomes \in SequentialResults
    BY DEF SameAsSequential
  <2> DEFINE R == [port: Ports, state: States]
  <2>1. outcomes \in Seq(R)
    BY DEF ScanInv, Observed
  <2>2. DOMAIN outcomes = DOMAIN target /\ \A i \in DOMAIN target : outcomes[i].port = target[i]
    BY DEF ScanInv, Returned
  <2>3. outcomes \in [DOMAIN target -> R]
    <3> HIDE DEF R
    <3> QED BY <2>1, <2>2
  <2>4. \A i \in DOMAIN target : outcomes[i].state \in Probes(target[i])
    BY <2>2 DEF ScanInv, Observed
  <2> QED BY <2>2, <2>3, <2>4 DEF SequentialResults, States
<1> QED BY <1>1, ScanInitInv, ScanStepInv, PTL DEF ScanSpec
=================================================================================
