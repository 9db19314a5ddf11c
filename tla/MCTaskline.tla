------------------------------ MODULE MCTaskline ------------------------------
(* Model checking of taskline, on a database with two accounts. *)
EXTENDS Taskline, TLC

CONSTANTS ann, bob, ae, be, ce, title, blank

Account(i, e, c) == [id |-> i, email |-> e, password |-> c]
Todo(i, u) == [id |-> i, user |-> u, title |-> title, done |-> FALSE]

\* Ann and Bob are registered and logged in; the task is Ann's.
Used == [users  |-> {Account(-1, ae, ann), Account(-2, be, bob)},
         tasks  |-> {Todo(-3, -1)},
         tokens |-> {[client |-> ann, sub |-> -1], [client |-> bob, sub |-> -2]}]

Populated == {Used}

AskRegister(c) == [op |-> "register", client |-> c, email |-> ce, valid |-> TRUE]
AskLogin(c) == [op |-> "login", client |-> c, email |-> ce]
AskList(c) == [op |-> "list", client |-> c]
AskCreate(c, t) == [op |-> "create", client |-> c, title |-> t]
AskGet(c, i) == [op |-> "get", client |-> c, task |-> i]
AskDelete(c, i) == [op |-> "delete", client |-> c, task |-> i]
AskUpdate(c, i, t, d) == [op |-> "update", client |-> c, task |-> i, title |-> t, done |-> d]

\* Two registrations of one e-mail and a login with it; a task that is created and
\* deleted; changes of a task by its owner, to a title create would refuse, and by the other.
Asked ==
    << {AskRegister(ann), AskCreate(ann, title), AskList(bob)},
       {AskRegister(bob), AskDelete(ann, 1), AskUpdate(ann, -3, blank, NotGiven)},
       {AskLogin(bob), AskGet(ann, 1), AskUpdate(bob, -3, NotGiven, TRUE)} >>
===============================================================================
