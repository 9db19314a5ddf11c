------------------------------ MODULE RudisServer ------------------------------
(***************************************************************************)
(* The event loop of rudis (07-systems-programming/src): server.rs and     *)
(* connection.rs between a mio Poll and the clients' sockets.              *)
(*                                                                         *)
(* One thread handles one readiness event at a time, and mio reports an    *)
(* edge once: a wake-up the loop loses never comes back.  The kernel and   *)
(* the clients act between any two handlers.  Every request is an INCR of  *)
(* one key shared by all clients, so a reply tells which execution it      *)
(* answers; a request arrives in Parts pieces, a reply is sent whole.      *)
(***************************************************************************)
EXTENDS Naturals, Sequences, FiniteSets

CONSTANTS
    Clients,     \* connections that may come, each once
    LastToken,   \* the largest token, FIRST_CONN being 0
    Listener, Signals,  \* the other two sources of the Poll
    Parts,       \* pieces a request may arrive in
    SendCap,     \* replies the kernel's send buffer holds
    Requests,    \* bound: how many requests each client sends at most
    MaxLive,     \* bound: connections at a time
    FirstToken   \* where earlier connections have left next_token

ASSUME ServerNumbersAssumption ==
    /\ {Parts, SendCap, MaxLive} \subseteq Nat \ {0} /\ LastToken \in Nat
    /\ Requests \in [Clients -> Nat]
ASSUME SourcesAssumption == Listener \notin Nat /\ Signals \notin Nat /\ Listener # Signals
\* There are more tokens than connections (2^64 of them in the code).
ASSUME TokensAssumption == LastToken >= MaxLive /\ FirstToken \in 0 .. LastToken

Tokens == 0 .. LastToken

VARIABLES
    \* the server
    mode,       \* "poll", "batch", "accept", "stopped" (by a signal), "dead" (by an error)
    conns,      \* token |-> [sock, read, out]: read_buf and write_buf
    armed,      \* tokens registered for WRITABLE too
    nextToken,
    batch,      \* events of this poll not yet handled: [token, r, w]
    counter,    \* the key all clients increment
    \* the kernel
    sock,       \* client |-> "new", "pending", "aborted", "open", "shut"
    inq,        \* pieces in the receive buffer
    junk,       \* whether bytes that are no RESP follow them
    eof,        \* whether the client has closed
    outq,       \* replies in the send buffer
    ready,      \* sources with an edge to report
    \* the clients
    sent,       \* pieces sent
    got,        \* replies received
    done        \* history: requests of the client that were executed

server  == <<mode, conns, armed, nextToken, batch, counter>>
kernel  == <<sock, inq, junk, eof, outq, ready>>
clients == <<sent, got, done>>
vars    == <<server, kernel, clients>>

Running == mode \in {"poll", "batch", "accept"}

Init ==
    /\ mode = "poll" /\ conns = [t \in {} |-> 0] /\ armed = {} /\ batch = {} /\ counter = 0
    /\ nextToken = FirstToken
    /\ sock = [c \in Clients |-> "new"]
    /\ inq = [c \in Clients |-> 0] /\ sent = [c \in Clients |-> 0] /\ done = [c \in Clients |-> 0]
    /\ junk = [c \in Clients |-> FALSE] /\ eof = [c \in Clients |-> FALSE]
    /\ outq = [c \in Clients |-> <<>>] /\ got = [c \in Clients |-> <<>>]
    /\ ready = {}

TokensOf(c) == {t \in DOMAIN conns : conns[t].sock = c}

Room(c) == SendCap - Len(outq[c])
Readable(c) == inq[c] > 0 \/ junk[c] \/ eof[c]

(***************************************************************************)
(* The clients and the kernel.                                             *)
(***************************************************************************)
Connect(c) ==
    /\ sock[c] = "new" /\ Running
    /\ Cardinality(DOMAIN conns) + Cardinality({d \in Clients : sock[d] = "pending"}) < MaxLive
    /\ sock' = [sock EXCEPT ![c] = "pending"]
    /\ ready' = ready \cup {Listener}
    /\ UNCHANGED <<server, inq, junk, eof, outq, clients>>

\* The client goes away before it was accepted: accept will report ECONNABORTED.
Abort(c) ==
    /\ sock[c] = "pending"
    /\ sock' = [sock EXCEPT ![c] = "aborted"]
    /\ eof' = [eof EXCEPT ![c] = TRUE]
    /\ UNCHANGED <<server, inq, junk, outq, ready, clients>>

Talking(c) == sock[c] \in {"pending", "open"} /\ ~junk[c] /\ ~eof[c] /\ Running

SendPiece(c) ==
    /\ Talking(c) /\ sent[c] < Parts * Requests[c]
    /\ inq' = [inq EXCEPT ![c] = @ + 1]
    /\ sent' = [sent EXCEPT ![c] = @ + 1]
    /\ ready' = ready \cup TokensOf(c)
    /\ UNCHANGED <<server, sock, junk, eof, outq, got, done>>

\* After whole requests, bytes that cannot begin one.
SendJunk(c) ==
    /\ Talking(c) /\ sent[c] % Parts = 0
    /\ junk' = [junk EXCEPT ![c] = TRUE]
    /\ ready' = ready \cup TokensOf(c)
    /\ UNCHANGED <<server, sock, inq, eof, outq, clients>>

Close(c) ==
    /\ Talking(c) /\ sock[c] = "open"
    /\ eof' = [eof EXCEPT ![c] = TRUE]
    /\ ready' = ready \cup TokensOf(c)
    /\ UNCHANGED <<server, sock, inq, junk, outq, clients>>

\* Room in a full send buffer is an edge for a socket registered for WRITABLE.
Receive(c) ==
    /\ outq[c] # <<>> /\ ~eof[c]
    /\ got' = [got EXCEPT ![c] = Append(@, Head(outq[c]))]
    /\ outq' = [outq EXCEPT ![c] = Tail(@)]
    /\ ready' = IF Room(c) = 0 THEN ready \cup (TokensOf(c) \cap armed) ELSE ready
    /\ UNCHANGED <<server, sock, inq, junk, eof, sent, done>>

Interrupt ==
    /\ Running /\ Signals \notin ready
    /\ ready' = ready \cup {Signals}
    /\ UNCHANGED <<server, sock, inq, junk, eof, outq, clients>>

(***************************************************************************)
(* The event loop.                                                         *)
(***************************************************************************)
Event(s) ==
    IF s \in DOMAIN conns
    THEN [token |-> s, r |-> Readable(conns[s].sock),
          w |-> s \in armed /\ Room(conns[s].sock) > 0]
    ELSE [token |-> s, r |-> TRUE, w |-> FALSE]

\* poll() returns what has become ready, in no particular order.
DoPoll ==
    /\ mode = "poll" /\ ready # {}
    /\ batch' = {e \in {Event(s) : s \in ready} : e.r \/ e.w}
    /\ ready' = {}
    /\ mode' = "batch"
    /\ UNCHANGED <<conns, armed, nextToken, counter, sock, inq, junk, eof, outq, clients>>

\* Any error of poll but EINTR ends the server, without a snapshot.
PollFails ==
    /\ mode = "poll"
    /\ mode' = "dead"
    /\ UNCHANGED <<conns, armed, nextToken, batch, counter, kernel, clients>>

\* The batch is handled; the sweep of expired keys has nothing to do here.
EndBatch ==
    /\ mode = "batch" /\ batch = {}
    /\ mode' = "poll"
    /\ UNCHANGED <<conns, armed, nextToken, batch, counter, kernel, clients>>

\* A counter that is read and not advanced.
SameToken(t) == t

\* The first token after t, wrapping around, that no connection has.
NextFreeToken(t) ==
    LET steps(u) == IF u > t THEN u - t ELSE u + LastToken + 1 - t
        free == Tokens \ DOMAIN conns
    IN CHOOSE u \in free : \A v \in free : steps(u) <= steps(v)

AcceptOne(c) ==
    /\ mode \in {"batch", "accept"} /\ Event(Listener) \in batch
    /\ sock[c] = "pending"
    /\ conns' = [t \in DOMAIN conns \cup {nextToken} |->
                    IF t = nextToken THEN [sock |-> c, read |-> 0, out |-> <<>>] ELSE conns[t]]
    /\ nextToken' = NextFreeToken(nextToken)
    /\ sock' = [sock EXCEPT ![c] = "open"]
    /\ ready' = IF Readable(c) THEN ready \cup {nextToken} ELSE ready
    /\ mode' = "accept"
    /\ UNCHANGED <<armed, batch, counter, inq, junk, eof, outq, clients>>

\* is_transient: that connection is lost, the loop goes on.
AcceptAborted(c) ==
    /\ mode \in {"batch", "accept"} /\ Event(Listener) \in batch
    /\ sock[c] = "aborted"
    /\ sock' = [sock EXCEPT ![c] = "shut"]
    /\ mode' = "accept"
    /\ UNCHANGED <<conns, armed, nextToken, batch, counter, inq, junk, eof, outq, ready, clients>>

\* So does any other error of accept, or one of register.
AcceptFails ==
    /\ mode \in {"batch", "accept"} /\ Event(Listener) \in batch
    /\ \E c \in Clients : sock[c] = "pending"
    /\ mode' = "dead"
    /\ UNCHANGED <<conns, armed, nextToken, batch, counter, kernel, clients>>

AcceptWouldBlock ==
    /\ mode \in {"batch", "accept"} /\ Event(Listener) \in batch
    /\ \A c \in Clients : sock[c] \notin {"pending", "aborted"}
    /\ batch' = batch \ {Event(Listener)}
    /\ mode' = "batch"
    /\ UNCHANGED <<conns, armed, nextToken, counter, kernel, clients>>

\* A break that leaves only the loop over the batch.
NextPoll == "batch"

\* A signal ends the loop at once: the rest of the batch is not handled.
AfterSignal == "stopped"

Shutdown ==
    /\ mode = "batch" /\ Event(Signals) \in batch
    /\ mode' = AfterSignal
    /\ UNCHANGED <<conns, armed, nextToken, batch, counter, kernel, clients>>

(***************************************************************************)
(* One client's event: read until the socket would block, run the complete *)
(* requests, write until it would block, ask for WRITABLE if replies are   *)
(* left.                                                                   *)
(***************************************************************************)

\* Parsing one request for each time the socket became readable.
OneRequest(pieces) == IF pieces >= Parts THEN 1 ELSE 0

\* process runs every complete request in the read buffer.
CompleteIn(pieces) == pieces \div Parts

\* A flush that keeps what it wrote.
AllOf(out, k) == out

\* flush_write_buf drops what the socket took.
Unsent(out, k) == SubSeq(out, k + 1, Len(out))

\* A loop that asks for READABLE only.
ReadOnly(out) == FALSE

\* Interest in WRITABLE while output is pending.
WantsWrite(out) == out # <<>>

\* What remains of a connection, or nothing if it is dropped.
Keep(t, c, pieces, out) ==
    /\ conns' = [conns EXCEPT ![t] = [sock |-> c, read |-> pieces, out |-> out]]
    /\ armed' = IF WantsWrite(out) THEN armed \cup {t} ELSE armed \ {t}
    /\ mode' \in {"batch", "dead"}      \* an error of reregister is fatal
    /\ UNCHANGED sock

DropConn(t, c) ==
    /\ conns' = [u \in DOMAIN conns \ {t} |-> conns[u]]
    /\ armed' = armed \ {t}
    /\ sock' = [sock EXCEPT ![c] = "shut"]
    /\ ready' = ready \ {t}
    /\ UNCHANGED mode

\* Reading may fail if the client is gone; nothing read then is run.
ReadFails(e, c) ==
    /\ e.r /\ eof[c]
    /\ DropConn(e.token, c)
    /\ inq' = [inq EXCEPT ![c] = 0]
    /\ UNCHANGED <<counter, done, outq>>

\* The requests read are run; their replies are queued, and lost if the client has
\* closed or what follows is no RESP.
ReadAndRun(e, c) ==
    LET t       == e.token
        pieces  == conns[t].read + IF e.r THEN inq[c] ELSE 0
        n       == IF e.r THEN CompleteIn(pieces) ELSE 0
        out     == conns[t].out \o [i \in 1..n |-> counter + i]
        over    == e.r /\ (eof[c] \/ (junk[c] /\ pieces % Parts = 0))
        k       == IF Len(out) <= Room(c) THEN Len(out) ELSE Room(c)
    IN /\ inq' = [inq EXCEPT ![c] = IF e.r THEN 0 ELSE @]
       /\ counter' = counter + n
       /\ done' = [done EXCEPT ![c] = @ + n]
       /\ \/ over /\ DropConn(t, c) /\ UNCHANGED outq
          \/ /\ ~over
             /\ Keep(t, c, pieces - n * Parts, Unsent(out, k))
             /\ outq' = [outq EXCEPT ![c] = @ \o SubSeq(out, 1, k)]
             \* re-arming reports again what is ready now
             /\ ready' = IF ~e.r /\ Readable(c) THEN ready \cup {t} ELSE ready
          \/ \* writing may fail if the client is gone
             ~over /\ eof[c] /\ out # <<>> /\ DropConn(t, c) /\ UNCHANGED outq

ClientEvent(e) ==
    /\ mode = "batch" /\ e \in batch /\ e.token \in DOMAIN conns
    /\ LET c == conns[e.token].sock IN ReadFails(e, c) \/ ReadAndRun(e, c)
    /\ batch' = batch \ {e}
    /\ UNCHANGED <<nextToken, junk, eof, sent, got>>

Serve ==
    \/ DoPoll \/ EndBatch \/ Shutdown \/ AcceptWouldBlock
    \/ \E c \in Clients : AcceptOne(c) \/ AcceptAborted(c)
    \/ \E e \in batch : ClientEvent(e)

Next ==
    \/ Serve \/ PollFails \/ AcceptFails \/ Interrupt
    \/ \E c \in Clients :
          \/ Connect(c) \/ Abort(c) \/ SendPiece(c) \/ SendJunk(c) \/ Close(c) \/ Receive(c)

(***************************************************************************)
(* The server's thread is scheduled, and a client that waits for a reply   *)
(* reads what arrives.                                                     *)
(***************************************************************************)
Spec ==
    /\ Init /\ [][Next]_vars
    /\ WF_vars(Serve)
    /\ \A c \in Clients : WF_vars(Receive(c))

(***************************************************************************)
(* Properties.                                                             *)
(***************************************************************************)

\* Every variable has its type, and a connection's buffers their bounds.
TypeOK ==
    /\ mode \in {"poll", "batch", "accept", "stopped", "dead"}
    /\ DOMAIN conns \subseteq Tokens /\ armed \subseteq DOMAIN conns /\ nextToken \in Tokens
    /\ \A t \in DOMAIN conns :
          /\ conns[t].sock \in Clients /\ conns[t].read \in 0 .. Parts - 1
          /\ conns[t].out \in Seq(Nat)
    /\ \A e \in batch : e.token \in Tokens \cup {Listener, Signals} /\ {e.r, e.w} \subseteq BOOLEAN
    /\ counter \in Nat
    /\ sock \in [Clients -> {"new", "pending", "aborted", "open", "shut"}]
    /\ inq \in [Clients -> Nat] /\ sent \in [Clients -> Nat] /\ done \in [Clients -> Nat]
    /\ junk \in [Clients -> BOOLEAN] /\ eof \in [Clients -> BOOLEAN]
    /\ ready \subseteq Tokens \cup {Listener, Signals}
    /\ \A c \in Clients : outq[c] \in Seq(Nat) /\ Len(outq[c]) <= SendCap /\ got[c] \in Seq(Nat)

\* What the server has answered to c, wherever the replies are by now.
Replies(c) ==
    got[c] \o outq[c] \o (IF TokensOf(c) = {} THEN <<>>
                          ELSE conns[CHOOSE t \in TokensOf(c) : TRUE].out)

(***************************************************************************)
(* Partial reads, pipelined requests and partial writes considered, every  *)
(* request that ran has one reply, the replies of a client come in the     *)
(* order its requests ran, and no two clients get the same one.            *)
(***************************************************************************)
RepliesInOrder ==
    \A c \in Clients :
       /\ \A i, j \in DOMAIN Replies(c) : i < j => Replies(c)[i] < Replies(c)[j]
       /\ TokensOf(c) # {} => Len(Replies(c)) = done[c]
       /\ \A d \in Clients \ {c} :
             \A i \in DOMAIN Replies(c), j \in DOMAIN Replies(d) : Replies(c)[i] # Replies(d)[j]

(***************************************************************************)
(* No lost wake-up: while the loop runs, input nobody has read and room    *)
(* for output that waits are edges still to be reported, or events of the  *)
(* batch being handled; WRITABLE is asked for while output waits and only  *)
(* then, the backpressure the README describes.                            *)
(***************************************************************************)
Noticed(s) == s \in ready \/ \E e \in batch : e.token = s

NoLostWakeup ==
    Running =>
       /\ (\E c \in Clients : sock[c] \in {"pending", "aborted"}) => Noticed(Listener)
       /\ \A t \in DOMAIN conns :
             LET c == conns[t].sock
             IN /\ Readable(c) => t \in ready \/ \E e \in batch : e.token = t /\ e.r
                /\ conns[t].out # <<>> /\ Room(c) > 0 => Noticed(t)
                /\ t \in armed <=> conns[t].out # <<>>

(***************************************************************************)
(* Accepting never takes over the token of a live connection: as long as   *)
(* the server has not closed a socket, one entry of the table is its.      *)
(***************************************************************************)
OneTokenEach == \A c \in Clients : sock[c] = "open" => Cardinality(TokensOf(c)) = 1

(***************************************************************************)
(* A client that keeps its connection open and sends no junk gets a reply  *)
(* to every request it has sent, unless the server ends first.             *)
(***************************************************************************)
Answered ==
    \A c \in Clients : \A n \in 1 .. Requests[c] :
       sent[c] >= n * Parts ~> Len(got[c]) >= n \/ eof[c] \/ junk[c] \/ ~Running

(***************************************************************************)
(* A signal ends the loop, whatever the clients go on sending.             *)
(***************************************************************************)
SignalStops == Signals \in ready ~> ~Running
===============================================================================
