--------------------------- MODULE RudisServerProofs ---------------------------
(***************************************************************************)
(* Theorems about the event loop of rudis, for any clients, any number of  *)
(* tokens and connections, any size of a request and of a send buffer.     *)
(***************************************************************************)
EXTENDS RudisServer, FiniteSetTheorems, SequenceTheorems, WellFoundedInduction, TLAPS

(***************************************************************************)
(* The inductive invariant.  The types, those of functions as functions:   *)
(***************************************************************************)
Conn == [sock: Clients, read: 0 .. Parts - 1, out: Seq(Nat)]
Sources == Tokens \cup {Listener, Signals}

ServerTyped ==
    /\ mode \in {"poll", "batch", "accept", "stopped", "dead"}
    /\ conns \in [DOMAIN conns -> Conn]
    /\ DOMAIN conns \subseteq Tokens /\ armed \subseteq DOMAIN conns /\ nextToken \in Tokens
    /\ batch \subseteq [token: Sources, r: BOOLEAN, w: BOOLEAN]
    /\ mode = "poll" => batch = {}
    /\ counter \in Nat

SocketsTyped ==
    /\ sock \in [Clients -> {"new", "pending", "aborted", "open", "shut"}]
    /\ inq \in [Clients -> Nat] /\ sent \in [Clients -> Nat] /\ done \in [Clients -> Nat]
    /\ junk \in [Clients -> BOOLEAN] /\ eof \in [Clients -> BOOLEAN]
    /\ ready \subseteq Sources

RepliesTyped ==
    /\ outq \in [Clients -> Seq(Nat)] /\ got \in [Clients -> Seq(Nat)]
    /\ \A c \in Clients : Len(outq[c]) <= SendCap

Typed == ServerTyped /\ SocketsTyped /\ RepliesTyped

\* Connections, counted from the moment they arrive, are fewer than tokens, ...
Waiting == {c \in Clients : sock[c] = "pending"}

Bounded ==
    /\ IsFiniteSet(DOMAIN conns) /\ IsFiniteSet(Waiting)
    /\ Cardinality(DOMAIN conns) + Cardinality(Waiting) <= MaxLive

\* ... so the next token is free; open sockets and tokens belong to each other.
Table ==
    /\ nextToken \notin DOMAIN conns
    /\ \A t \in DOMAIN conns : sock[conns[t].sock] = "open"
    /\ \A t, u \in DOMAIN conns : conns[t].sock = conns[u].sock => t = u
    /\ \A c \in Clients : sock[c] = "open" => \E t \in DOMAIN conns : conns[t].sock = c

\* A client that was not accepted was not read from, and has no replies.
Fresh ==
    \A c \in Clients : sock[c] \in {"new", "pending"} =>
       /\ sent[c] = inq[c] /\ done[c] = 0 /\ got[c] = <<>> /\ outq[c] = <<>>
       /\ sock[c] = "new" => ~junk[c] /\ ~eof[c]

\* The pieces sent are in the socket, in the read buffer, or in a request that ran.
Counted ==
    \A t \in DOMAIN conns :
       LET c == conns[t].sock IN sent[c] = inq[c] + conns[t].read + Parts * done[c]

JunkLast == \A c \in Clients : junk[c] => sent[c] % Parts = 0

\* No reply is from an execution that is still to come.
Past == \A c \in Clients : \A i \in DOMAIN Replies(c) : Replies(c)[i] <= counter

IInv ==
    /\ Typed /\ Bounded /\ Table
    /\ Fresh /\ Counted /\ JunkLast
    /\ NoLostWakeup /\ RepliesInOrder /\ Past

(***************************************************************************)
(* Numbers.                                                                *)
(***************************************************************************)
LEMMA DivisionRemainder ==
    ASSUME NEW x \in Nat, NEW p \in Nat \ {0}
    PROVE  x \div p \in Nat /\ x - (x \div p) * p \in 0 .. p - 1
OBVIOUS

LEMMA ProductNat ==
    ASSUME NEW a \in Nat, NEW b \in Nat
    PROVE  a * b \in Nat
OBVIOUS

\* What the socket takes of a queue and what stays are the queue.
LEMMA SentAndUnsent ==
    ASSUME NEW q \in Seq(Nat), NEW k \in 0 .. Len(q)
    PROVE  /\ SubSeq(q, 1, k) \in Seq(Nat) /\ Len(SubSeq(q, 1, k)) = k
           /\ Unsent(q, k) \in Seq(Nat)
           /\ k = Len(q) => Unsent(q, k) = <<>>
           /\ SubSeq(q, 1, k) \o Unsent(q, k) = q
<1>1. Len(q) \in Nat /\ k \in Nat /\ \A i \in 1 .. Len(q) : q[i] \in Nat
  BY LenProperties, ElementOfSeq
<1>2. (\A i \in 1 .. k : q[i] \in Nat) /\ (\A i \in k + 1 .. Len(q) : q[i] \in Nat)
  BY <1>1
<1>3. SubSeq(q, 1, k) \in Seq(Nat) /\ Len(SubSeq(q, 1, k)) = IF 1 <= k THEN k - 1 + 1 ELSE 0
  BY <1>1, <1>2, SubSeqProperties
<1>4. SubSeq(q, k + 1, Len(q)) \in Seq(Nat)
  BY <1>1, <1>2, SubSeqProperties
<1>5. SubSeq(q, 1, k) \o SubSeq(q, k + 1, Len(q)) = SubSeq(q, 1, Len(q))
  <2>1. 1 \in 1 .. Len(q) + 1 /\ k \in 1 - 1 .. Len(q) /\ Len(q) \in k .. Len(q)
    BY <1>1
  <2> QED
    BY <2>1, ConcatAdjacentSubSeq
<1>6. k = Len(q) => SubSeq(q, k + 1, Len(q)) = <<>>
  <2>1. k = Len(q) => k + 1 \in Int /\ Len(q) \in Int /\ Len(q) < k + 1
    BY <1>1
  <2> QED
    BY <2>1, SubSeqEmpty
<1>7. Len(SubSeq(q, 1, k)) = k
  BY <1>1, <1>3
<1>8. SubSeq(q, 1, Len(q)) = q
  BY SubSeqFull
<1> QED
  BY <1>3, <1>4, <1>5, <1>6, <1>7, <1>8 DEF Unsent

LEMMA Associative ==
    ASSUME NEW x \in Seq(Nat), NEW y \in Seq(Nat), NEW z \in Seq(Nat)
    PROVE  (x \o y) \o z = x \o (y \o z)
BY ConcatAssociative, SMTT(60)

LEMMA WholeRequestsLeft ==
    ASSUME NEW s \in Nat, NEW k \in Nat, NEW p \in Nat \ {0}, s % p = 0
    PROVE  (s - p * k) % p = 0
<1>1. s = p * (s \div p) /\ s \div p \in Int
  OBVIOUS
<1>2. s - p * k = p * ((s \div p) - k)
  BY <1>1
<1>3. \A m \in Int : (p * m) % p = 0
  OBVIOUS
<1> QED
  BY <1>1, <1>2, <1>3

LEMMA LeastNumber ==
    ASSUME NEW S, S # {}, S \subseteq Nat
    PROVE  \E x \in S : \A y \in S : x <= y
<1>1. PICK x \in S : \A y \in S : ~(<<y, x>> \in OpToRel(<, Nat))
  BY NatLessThanWellFounded, WFMin
<1>2. ASSUME NEW y \in S PROVE x <= y
  <2>1. x \in Nat /\ y \in Nat
    OBVIOUS
  <2>2. ~(y < x)
    BY <1>1, <2>1 DEF OpToRel
  <2> QED
    BY <2>1, <2>2
<1> QED
  BY <1>2

(***************************************************************************)
(* While two tokens are free, the next free one is free and another one.   *)
(***************************************************************************)
LEMMA NextFreeTokenIsFree ==
    ASSUME NEW t \in Tokens, IsFiniteSet(DOMAIN conns), Cardinality(DOMAIN conns) < LastToken
    PROVE  NextFreeToken(t) \in Tokens \ (DOMAIN conns \cup {t})
<1> DEFINE steps(u) == IF u > t THEN u - t ELSE u + LastToken + 1 - t
           free == Tokens \ DOMAIN conns
           S == {steps(u) : u \in free}
<1>1. LastToken \in Nat /\ Tokens = 0 .. LastToken
  BY ServerNumbersAssumption DEF Tokens
<1>2. \A u \in Tokens : steps(u) \in Nat /\ steps(u) <= LastToken + 1
  BY <1>1
<1>3. steps(t) = LastToken + 1 /\ \A u \in Tokens : steps(u) = LastToken + 1 => u = t
  BY <1>1
<1>4. PICK v \in free : v # t
  <2>1. SUFFICES ASSUME Tokens \subseteq DOMAIN conns \cup {t} PROVE FALSE
    OBVIOUS
  <2>2. /\ IsFiniteSet(DOMAIN conns \cup {t})
        /\ \/ Cardinality(DOMAIN conns \cup {t}) = Cardinality(DOMAIN conns)
           \/ Cardinality(DOMAIN conns \cup {t}) = Cardinality(DOMAIN conns) + 1
    BY FS_AddElement
  <2>3. Cardinality(DOMAIN conns) \in Nat /\ Cardinality(DOMAIN conns \cup {t}) \in Nat
    BY <2>2, FS_CardinalityType
  <2>4. Cardinality(Tokens) = LastToken + 1
    <3>1. 0 \in Int /\ LastToken \in Int /\ ~(0 > LastToken)
      BY <1>1
    <3> QED
      BY <3>1, <1>1, FS_Interval
  <2>5. Cardinality(Tokens) <= Cardinality(DOMAIN conns \cup {t})
    BY <2>1, <2>2, FS_Subset
  <2> QED
    BY <1>1, <2>2, <2>3, <2>4, <2>5
<1>5. PICK m \in S : \A n \in S : m <= n
  <2>1. S # {} /\ S \subseteq Nat
    BY <1>2, <1>4
  <2> QED
    BY <2>1, LeastNumber
<1>6. \E u \in free : \A w \in free : steps(u) <= steps(w)
  BY <1>5
<1>7. NextFreeToken(t) = CHOOSE u \in free : \A w \in free : steps(u) <= steps(w)
  BY DEF NextFreeToken
<1>8. NextFreeToken(t) \in free /\ \A w \in free : steps(NextFreeToken(t)) <= steps(w)
  <2> HIDE DEF steps, free
  <2> QED
    BY <1>6, <1>7
<1>9. steps(NextFreeToken(t)) <= steps(v) /\ steps(v) < LastToken + 1
  <2>1. v \in Tokens /\ steps(v) \in Nat
    BY <1>2
  <2> QED
    BY <1>1, <1>2, <1>3, <1>4, <1>8, <2>1
<1> QED
  BY <1>1, <1>2, <1>3, <1>8, <1>9

(***************************************************************************)
(* The initial state.                                                      *)
(***************************************************************************)
LEMMA InitInv == Init => IInv
<1> SUFFICES ASSUME Init PROVE IInv
  OBVIOUS
<1> USE DEF Init
<1>1. /\ DOMAIN conns = {} /\ Waiting = {}
      /\ \A c \in Clients : TokensOf(c) = {} /\ ~Readable(c)
  BY DEF Waiting, TokensOf, Readable
<1>2. Parts \in Nat \ {0} /\ SendCap \in Nat \ {0} /\ MaxLive \in Nat \ {0} /\ FirstToken \in Tokens
  BY ServerNumbersAssumption, TokensAssumption DEF Tokens
<1>3. Typed
  <2>1. \A c \in Clients : Len(outq[c]) = 0
    BY EmptySeq
  <2> QED
    BY <1>1, <1>2, <2>1, EmptySeq DEF Typed, ServerTyped, SocketsTyped, RepliesTyped
<1>4. Bounded
  BY <1>1, <1>2, FS_EmptySet DEF Bounded
<1>5. Table /\ Fresh /\ Counted /\ JunkLast /\ NoLostWakeup
  <2>1. \A c \in Clients : sent[c] = 0 /\ inq[c] = 0 /\ done[c] = 0
    OBVIOUS
  <2> QED
    BY <1>1, <2>1 DEF Table, Fresh, Counted, JunkLast, NoLostWakeup
<1>6. \A c \in Clients : Replies(c) = <<>>
  <2>1. \A c \in Clients : Replies(c) = <<>> \o <<>> \o <<>>
    BY <1>1 DEF Replies
  <2> QED
    BY <2>1, EmptySeq, ConcatEmptySeq
<1>7. RepliesInOrder /\ Past
  BY <1>1, <1>6 DEF RepliesInOrder, Past
<1> QED
  BY <1>3, <1>4, <1>5, <1>7 DEF IInv

(***************************************************************************)
(* A step is one of these: it changes no connection and no request, ...    *)
(***************************************************************************)
Quiet ==
    /\ UNCHANGED <<conns, armed, nextToken, counter, sock, inq, junk, eof, outq, clients>>
    /\ \/ Interrupt \/ DoPoll \/ PollFails \/ EndBatch
       \/ AcceptFails \/ AcceptWouldBlock \/ Shutdown

\* ... or a client's event costs its connection, ...
Dropped(e, c) ==
    /\ DropConn(e.token, c)
    /\ inq' \in [Clients -> Nat] /\ \A d \in Clients \ {c} : inq'[d] = inq[d]
    /\ done' \in [Clients -> Nat] /\ \A d \in Clients \ {c} : done'[d] = done[d]
    /\ counter' \in Nat /\ counter' >= counter
    /\ UNCHANGED outq

\* ... or n requests ran, r pieces are left, and k replies went to the socket, ...
Queued(e, n) == conns[e.token].out \o [i \in 1 .. n |-> counter + i]

Kept(e, c, n, r, k) ==
    /\ n \in Nat /\ r \in 0 .. Parts - 1
    /\ k \in 0 .. Len(Queued(e, n)) /\ k <= Room(c) /\ k \in {Len(Queued(e, n)), Room(c)}
    /\ sent[c] = (IF e.r THEN 0 ELSE inq[c]) + r + Parts * (done[c] + n)
    /\ e.r => ~junk[c] /\ ~eof[c]
    /\ Keep(e.token, c, r, Unsent(Queued(e, n), k))
    /\ outq' = [outq EXCEPT ![c] = @ \o SubSeq(Queued(e, n), 1, k)]
    /\ inq' = [inq EXCEPT ![c] = IF e.r THEN 0 ELSE @]
    /\ counter' = counter + n /\ done' = [done EXCEPT ![c] = @ + n]
    /\ ready' = IF ~e.r /\ Readable(c) THEN ready \cup {e.token} ELSE ready

Handled(e) ==
    /\ mode = "batch" /\ e \in batch /\ e.token \in DOMAIN conns
    /\ \/ Dropped(e, conns[e.token].sock)
       \/ \E n, r, k : Kept(e, conns[e.token].sock, n, r, k)
    /\ batch' = batch \ {e}
    /\ UNCHANGED <<nextToken, junk, eof, sent, got>>

\* ... or one of the actions that concern one client.
ByClient(c) ==
    \/ Connect(c) \/ Abort(c) \/ SendPiece(c) \/ SendJunk(c) \/ Close(c) \/ Receive(c)
    \/ AcceptOne(c) \/ AcceptAborted(c)

LEMMA TypedIsTypeOK == Typed => TypeOK
<1> SUFFICES ASSUME Typed PROVE TypeOK
  OBVIOUS
<1>1. \A t \in DOMAIN conns :
         conns[t].sock \in Clients /\ conns[t].read \in 0 .. Parts - 1 /\ conns[t].out \in Seq(Nat)
  BY DEF Typed, ServerTyped, Conn
<1>2. \A e \in batch : e.token \in Tokens \cup {Listener, Signals} /\ {e.r, e.w} \subseteq BOOLEAN
  BY DEF Typed, ServerTyped, Sources
<1> QED
  BY <1>1, <1>2 DEF Typed, ServerTyped, SocketsTyped, RepliesTyped, TypeOK, Sources

LEMMA ConnTyped ==
    ASSUME Typed, NEW t \in DOMAIN conns
    PROVE  /\ conns[t] \in Conn
           /\ conns[t].sock \in Clients /\ conns[t].read \in 0 .. Parts - 1
           /\ conns[t].out \in Seq(Nat) /\ conns[t].read \in Nat
<1>1. conns[t] \in Conn
  BY DEF Typed, ServerTyped
<1>2. Parts \in Nat
  BY ServerNumbersAssumption
<1> QED
  BY <1>1, <1>2 DEF Conn

\* The replies to the requests that ran are numbers, as many as those.
LEMMA QueuedTyped ==
    ASSUME Typed, NEW e \in batch, e.token \in DOMAIN conns, NEW n \in Nat
    PROVE  /\ Queued(e, n) \in Seq(Nat)
           /\ Len(Queued(e, n)) = Len(conns[e.token].out) + n
           /\ [i \in 1 .. n |-> counter + i] \in Seq(Nat)
           /\ Len([i \in 1 .. n |-> counter + i]) = n
<1>1. counter \in Nat /\ conns[e.token].out \in Seq(Nat)
  BY ConnTyped DEF Typed, ServerTyped, SocketsTyped, RepliesTyped
<1>2. [i \in 1 .. n |-> counter + i] \in [1 .. n -> Nat]
  BY <1>1
<1>3. [i \in 1 .. n |-> counter + i] \in Seq(Nat) /\ Len([i \in 1 .. n |-> counter + i]) = n
  BY <1>2
<1> QED
  BY <1>1, <1>3, ConcatProperties DEF Queued

LEMMA EventHandled ==
    ASSUME IInv, NEW e \in batch, ClientEvent(e)
    PROVE  Handled(e)
<1> DEFINE t == e.token
           c == conns[t].sock
<1>1. /\ mode = "batch" /\ t \in DOMAIN conns /\ batch' = batch \ {e}
      /\ UNCHANGED <<nextToken, junk, eof, sent, got>>
      /\ ReadFails(e, c) \/ ReadAndRun(e, c)
  BY DEF ClientEvent
<1>2. /\ c \in Clients /\ conns[t].read \in 0 .. Parts - 1 /\ conns[t].out \in Seq(Nat)
      /\ e.r \in BOOLEAN /\ counter \in Nat
      /\ inq \in [Clients -> Nat] /\ done \in [Clients -> Nat] /\ sent \in [Clients -> Nat]
      /\ Parts \in Nat \ {0} /\ SendCap \in Nat
      /\ Len(outq[c]) \in Nat /\ Len(outq[c]) <= SendCap
  BY <1>1, ConnTyped, LenProperties, ServerNumbersAssumption DEF IInv, Typed, ServerTyped, SocketsTyped, RepliesTyped
<1>3. sent[c] = inq[c] + conns[t].read + Parts * done[c] /\ (junk[c] => sent[c] % Parts = 0)
  BY <1>1, <1>2 DEF IInv, Counted, JunkLast
<1>4. CASE ReadFails(e, c)
  <2>1. inq' = [inq EXCEPT ![c] = 0] /\ done' = done /\ counter' = counter /\ outq' = outq
    BY <1>4 DEF ReadFails
  <2>2. inq' \in [Clients -> Nat] /\ done' \in [Clients -> Nat] /\ counter' \in Nat /\ counter' >= counter
    BY <1>2, <2>1
  <2>3. Dropped(e, c)
    BY <1>2, <1>4, <2>1, <2>2 DEF ReadFails, Dropped
  <2> QED
    BY <1>1, <2>3 DEF Handled
<1>5. CASE ReadAndRun(e, c)
  <2> DEFINE pieces == conns[t].read + IF e.r THEN inq[c] ELSE 0
             n == IF e.r THEN CompleteIn(pieces) ELSE 0
             out == conns[t].out \o [i \in 1..n |-> counter + i]
             over == e.r /\ (eof[c] \/ (junk[c] /\ pieces % Parts = 0))
             k == IF Len(out) <= Room(c) THEN Len(out) ELSE Room(c)
             r == pieces - n * Parts
  <2>1. pieces \in Nat /\ n \in Nat /\ r \in 0 .. Parts - 1
    <3>1. pieces \in Nat
      BY <1>2
    <3>2. pieces \div Parts \in Nat /\ pieces - (pieces \div Parts) * Parts \in 0 .. Parts - 1
      BY <1>2, <3>1, DivisionRemainder
    <3>3. CASE e.r
      BY <3>1, <3>2, <3>3 DEF CompleteIn
    <3>4. CASE ~e.r
      BY <1>2, <3>1, <3>4
    <3> QED
      BY <3>3, <3>4
  <2>2. out = Queued(e, n) /\ Len(out) \in Nat
    BY <1>1, <2>1, QueuedTyped, LenProperties DEF Queued, IInv
  <2>3. Room(c) \in Nat /\ k \in 0 .. Len(out) /\ k <= Room(c) /\ k \in {Len(out), Room(c)}
    <3> HIDE DEF out, n, pieces
    <3>1. Room(c) \in Nat
      BY <1>2 DEF Room
    <3> QED
      BY <2>2, <3>1
  <2>4. inq' = [inq EXCEPT ![c] = IF e.r THEN 0 ELSE @] /\ counter' = counter + n
        /\ done' = [done EXCEPT ![c] = @ + n]
    BY <1>5 DEF ReadAndRun
  <2>5. CASE DropConn(t, c) /\ UNCHANGED outq
    <3>1. inq' \in [Clients -> Nat] /\ done' \in [Clients -> Nat] /\ counter' \in Nat /\ counter' >= counter
      <4> HIDE DEF n, pieces, c
      <4>1. counter' \in Nat /\ counter' >= counter
        BY <1>2, <2>1, <2>4
      <4>2. inq' \in [Clients -> Nat]
        BY <1>2, <2>4
      <4>3. done' \in [Clients -> Nat]
        BY <1>2, <2>1, <2>4
      <4> QED
        BY <4>1, <4>2, <4>3
    <3>2. Dropped(e, c)
      BY <1>2, <2>4, <2>5, <3>1 DEF Dropped
    <3> QED
      BY <1>1, <3>2 DEF Handled
  <2>6. CASE /\ ~over
             /\ Keep(t, c, r, Unsent(out, k))
             /\ outq' = [outq EXCEPT ![c] = @ \o SubSeq(out, 1, k)]
             /\ ready' = IF ~e.r /\ Readable(c) THEN ready \cup {t} ELSE ready
    <3>1. sent[c] = (IF e.r THEN 0 ELSE inq[c]) + r + Parts * (done[c] + n)
      <4>1. done[c] \in Nat /\ inq[c] \in Nat /\ conns[t].read \in Nat
        BY <1>2
      <4>2. Parts * (done[c] + n) = Parts * done[c] + n * Parts
        BY <1>2, <2>1, <4>1
      <4>3. Parts * done[c] \in Nat /\ n * Parts \in Nat
        <5>1. Parts \in Nat /\ n \in Nat /\ done[c] \in Nat
          BY <1>2, <2>1, <4>1
        <5> HIDE DEF n, pieces
        <5> QED
          BY <5>1, ProductNat
      <4>4. (IF e.r THEN 0 ELSE inq[c]) + r + n * Parts = inq[c] + conns[t].read
        <5>1. (IF e.r THEN 0 ELSE inq[c]) + pieces = inq[c] + conns[t].read
          BY <4>1
        <5> QED
          BY <2>1, <4>1, <4>3, <5>1
      <4> QED
        BY <1>3, <2>1, <4>1, <4>2, <4>3, <4>4
    <3>2. e.r => ~junk[c] /\ ~eof[c]
      <4>1. SUFFICES ASSUME e.r, junk[c] PROVE pieces % Parts = 0
        BY <2>6
      <4>2. pieces = sent[c] - Parts * done[c] /\ sent[c] \in Nat /\ done[c] \in Nat /\ sent[c] % Parts = 0
        <5>1. inq[c] \in Nat /\ done[c] \in Nat /\ Parts * done[c] \in Nat /\ conns[t].read \in Nat
          BY <1>2
        <5> QED
          BY <1>2, <1>3, <4>1, <5>1
      <4>3. (sent[c] - Parts * done[c]) % Parts = 0
        <5>1. Parts \in Nat \ {0}
          BY <1>2
        <5> HIDE DEF c, n, pieces, over, k
        <5> QED
          BY <4>2, <5>1, WholeRequestsLeft
      <4> QED
        BY <4>2, <4>3
    <3>3. Kept(e, c, n, r, k)
      <4> HIDE DEF pieces, n, over, k, r
      <4> QED
        BY <2>1, <2>2, <2>3, <2>4, <2>6, <3>1, <3>2 DEF Kept
    <3> QED
      BY <1>1, <3>3 DEF Handled
  <2> QED
    BY <1>5, <2>5, <2>6 DEF ReadAndRun
<1> QED
  BY <1>1, <1>4, <1>5

LEMMA Kinds ==
    ASSUME IInv, Next
    PROVE  Quiet \/ (\E c \in Clients : ByClient(c)) \/ (\E e \in batch : Handled(e))
<1>1. CASE Interrupt \/ DoPoll \/ PollFails \/ EndBatch \/ AcceptFails \/ AcceptWouldBlock \/ Shutdown
  BY <1>1 DEF Quiet, Interrupt, DoPoll, PollFails, EndBatch, AcceptFails, AcceptWouldBlock, Shutdown,
              kernel, clients, server
<1>2. CASE \E e \in batch : ClientEvent(e)
  BY <1>2, EventHandled
<1> QED
  BY <1>1, <1>2 DEF Next, Serve, ByClient

(***************************************************************************)
(* Types.                                                                  *)
(***************************************************************************)
LEMMA EventTyped ==
    ASSUME Typed, NEW s \in Sources
    PROVE  Event(s) \in [token: Sources, r: BOOLEAN, w: BOOLEAN] /\ Event(s).token = s
<1>1. \A c \in Clients : Readable(c) \in BOOLEAN
  BY DEF Typed, SocketsTyped, Readable
<1>2. CASE s \in DOMAIN conns
  BY <1>1, <1>2, ConnTyped DEF Event
<1>3. CASE s \notin DOMAIN conns
  BY <1>3 DEF Event
<1> QED
  BY <1>2, <1>3

LEMMA QuietTyped ==
    ASSUME Typed, Quiet
    PROVE  Typed'
<1>1. UNCHANGED <<conns, armed, nextToken, counter, sock, inq, junk, eof, outq, sent, got, done>>
  BY DEF Quiet, clients
<1>2. /\ mode' \in {"poll", "batch", "accept", "stopped", "dead"}
      /\ batch' \subseteq [token: Sources, r: BOOLEAN, w: BOOLEAN]
      /\ mode' = "poll" => batch' = {}
      /\ ready' \subseteq Sources
  <2>1. CASE DoPoll
    <3>1. \A s \in ready : Event(s) \in [token: Sources, r: BOOLEAN, w: BOOLEAN]
      BY EventTyped DEF Typed, SocketsTyped
    <3> QED
      BY <2>1, <3>1 DEF DoPoll
  <2>2. CASE EndBatch \/ PollFails \/ AcceptFails \/ AcceptWouldBlock \/ Shutdown
    BY <2>2 DEF EndBatch, PollFails, AcceptFails, AcceptWouldBlock, Shutdown, AfterSignal, kernel,
                Typed, ServerTyped, SocketsTyped
  <2>3. CASE Interrupt
    BY <2>3 DEF Interrupt, server, Typed, ServerTyped, SocketsTyped, Sources
  <2> QED
    BY <2>1, <2>2, <2>3 DEF Quiet
<1> QED
  BY <1>1, <1>2 DEF Typed, ServerTyped, SocketsTyped, RepliesTyped

LEMMA ClientTyped ==
    ASSUME IInv, NEW c \in Clients, ByClient(c)
    PROVE  Typed'
<1>1. Typed /\ LastToken \in Nat /\ SendCap \in Nat /\ Parts \in Nat \ {0}
  BY ServerNumbersAssumption DEF IInv
<1>2. TokensOf(c) \subseteq Tokens /\ Tokens \subseteq Sources /\ Listener \in Sources
  BY <1>1 DEF TokensOf, Typed, ServerTyped, Sources
<1>3. CASE Connect(c) \/ Abort(c) \/ SendPiece(c) \/ SendJunk(c) \/ Close(c)
  <2>1. UNCHANGED <<mode, conns, armed, nextToken, batch, counter, outq, got>>
    BY <1>3 DEF Connect, Abort, SendPiece, SendJunk, Close, server, clients
  <2>2. SocketsTyped'
    <3>1. CASE Connect(c)
      BY <1>1, <1>2, <3>1 DEF Connect, clients, Typed, SocketsTyped
    <3>2. CASE Abort(c)
      BY <1>1, <1>2, <3>2 DEF Abort, clients, Typed, SocketsTyped
    <3>3. CASE SendPiece(c)
      BY <1>1, <1>2, <3>3 DEF SendPiece, Typed, SocketsTyped
    <3>4. CASE SendJunk(c)
      BY <1>1, <1>2, <3>4 DEF SendJunk, clients, Typed, SocketsTyped
    <3>5. CASE Close(c)
      BY <1>1, <1>2, <3>5 DEF Close, clients, Typed, SocketsTyped
    <3> QED
      BY <1>3, <3>1, <3>2, <3>3, <3>4, <3>5
  <2> QED
    BY <1>1, <2>1, <2>2 DEF Typed, ServerTyped, RepliesTyped
<1>4. CASE Receive(c)
  <2>1. /\ UNCHANGED <<mode, conns, armed, nextToken, batch, counter, sock, inq, junk, eof, sent, done>>
        /\ outq[c] # <<>>
        /\ got' = [got EXCEPT ![c] = Append(@, Head(outq[c]))] /\ outq' = [outq EXCEPT ![c] = Tail(@)]
        /\ ready' \subseteq ready \cup TokensOf(c)
    BY <1>4 DEF Receive, server
  <2>2. outq[c] \in Seq(Nat) /\ got[c] \in Seq(Nat) /\ Len(outq[c]) <= SendCap
    BY <1>1 DEF Typed, RepliesTyped
  <2>3. /\ Head(outq[c]) \in Nat /\ Tail(outq[c]) \in Seq(Nat)
        /\ Len(Tail(outq[c])) = Len(outq[c]) - 1
        /\ Append(got[c], Head(outq[c])) \in Seq(Nat)
    BY <2>1, <2>2, HeadTailProperties, AppendProperties
  <2>4. Len(Tail(outq[c])) <= SendCap
    BY <1>1, <2>2, <2>3, LenProperties
  <2>5. RepliesTyped'
    BY <1>1, <2>1, <2>3, <2>4 DEF Typed, RepliesTyped
  <2>6. SocketsTyped'
    BY <1>1, <1>2, <2>1 DEF Typed, SocketsTyped
  <2> QED
    BY <1>1, <2>1, <2>5, <2>6 DEF Typed, ServerTyped
<1>5. CASE AcceptOne(c)
  <2>1. /\ UNCHANGED <<armed, batch, counter, inq, junk, eof, outq, sent, got, done>>
        /\ conns' = [t \in DOMAIN conns \cup {nextToken} |->
                       IF t = nextToken THEN [sock |-> c, read |-> 0, out |-> <<>>] ELSE conns[t]]
        /\ nextToken' = NextFreeToken(nextToken) /\ mode' = "accept"
        /\ sock' = [sock EXCEPT ![c] = "open"] /\ ready' \subseteq ready \cup {nextToken}
        /\ sock[c] = "pending"
    BY <1>5 DEF AcceptOne, clients
  <2>2. nextToken' \in Tokens
    <3>1. Cardinality(Waiting) >= 1
      <4>1. IsFiniteSet(Waiting) /\ c \in Waiting
        BY <2>1 DEF IInv, Bounded, Waiting
      <4>2. Cardinality(Waiting) \in Nat /\ Cardinality(Waiting) # 0
        BY <4>1, FS_EmptySet, FS_CardinalityType
      <4> QED
        BY <4>2
    <3>2. Cardinality(DOMAIN conns) < LastToken
      <4>1. /\ IsFiniteSet(DOMAIN conns) /\ IsFiniteSet(Waiting)
            /\ Cardinality(DOMAIN conns) + Cardinality(Waiting) <= MaxLive
        BY DEF IInv, Bounded
      <4>2. Cardinality(DOMAIN conns) \in Nat /\ Cardinality(Waiting) \in Nat
        BY <4>1, FS_CardinalityType
      <4>3. MaxLive \in Nat /\ MaxLive <= LastToken
        BY ServerNumbersAssumption, TokensAssumption
      <4> QED
        BY <1>1, <3>1, <4>1, <4>2, <4>3
    <3> QED
      BY <1>1, <2>1, <3>2, NextFreeTokenIsFree DEF IInv, Bounded, Typed, ServerTyped
  <2>3. [sock |-> c, read |-> 0, out |-> <<>>] \in Conn
    BY <1>1, EmptySeq DEF Conn
  <2>4. /\ DOMAIN conns' = DOMAIN conns \cup {nextToken} /\ nextToken \in Tokens
        /\ conns' \in [DOMAIN conns' -> Conn]
    BY <1>1, <2>1, <2>3 DEF Typed, ServerTyped
  <2>5. ServerTyped'
    BY <1>1, <2>1, <2>2, <2>4 DEF Typed, ServerTyped
  <2>6. SocketsTyped'
    BY <1>1, <1>2, <2>1, <2>4 DEF Typed, SocketsTyped
  <2> QED
    BY <1>1, <2>1, <2>5, <2>6 DEF Typed, RepliesTyped
<1>6. CASE AcceptAborted(c)
  BY <1>1, <1>6 DEF AcceptAborted, clients, Typed, ServerTyped, SocketsTyped, RepliesTyped
<1> QED
  BY <1>3, <1>4, <1>5, <1>6 DEF ByClient

LEMMA HandledTyped ==
    ASSUME IInv, NEW e \in batch, Handled(e)
    PROVE  Typed'
<1> DEFINE t == e.token
           c == conns[t].sock
<1>1. /\ mode = "batch" /\ t \in DOMAIN conns /\ batch' = batch \ {e}
      /\ UNCHANGED <<nextToken, junk, eof, sent, got>>
  BY DEF Handled
<1>2. Typed /\ SendCap \in Nat /\ t \in Tokens /\ Tokens \subseteq Sources
  BY <1>1, ServerNumbersAssumption DEF IInv, Typed, ServerTyped, Sources
<1>3. c \in Clients
  BY <1>1, <1>2, ConnTyped
<1> HIDE DEF c, t
<1>4. CASE Dropped(e, c)
  <2>1. /\ conns' = [u \in DOMAIN conns \ {t} |-> conns[u]] /\ armed' = armed \ {t}
        /\ sock' = [sock EXCEPT ![c] = "shut"] /\ ready' \subseteq ready /\ mode' = mode
        /\ inq' \in [Clients -> Nat] /\ done' \in [Clients -> Nat] /\ counter' \in Nat
        /\ outq' = outq
    BY <1>4 DEF Dropped, DropConn, t
  <2> QED
    BY <1>1, <1>2, <1>3, <2>1 DEF Typed, ServerTyped, SocketsTyped, RepliesTyped
<1>5. ASSUME NEW n, NEW r, NEW k, Kept(e, c, n, r, k)
      PROVE  Typed'
  <2> DEFINE q == Queued(e, n)
  <2>1. /\ n \in Nat /\ r \in 0 .. Parts - 1 /\ k \in 0 .. Len(q) /\ k <= Room(c)
        /\ Keep(t, c, r, Unsent(q, k)) /\ outq' = [outq EXCEPT ![c] = @ \o SubSeq(q, 1, k)]
        /\ inq' = [inq EXCEPT ![c] = IF e.r THEN 0 ELSE @]
        /\ counter' = counter + n /\ done' = [done EXCEPT ![c] = @ + n]
        /\ ready' \subseteq ready \cup {t}
    BY <1>5 DEF Kept, t
  <2>2. q \in Seq(Nat) /\ Len(q) \in Nat
    BY <1>1, <1>2, <2>1, QueuedTyped, LenProperties DEF t
  <2>3. /\ SubSeq(q, 1, k) \in Seq(Nat) /\ Len(SubSeq(q, 1, k)) = k
        /\ Unsent(q, k) \in Seq(Nat)
    BY <2>1, <2>2, SentAndUnsent
  <2> HIDE DEF q
  <2>4. /\ outq[c] \o SubSeq(q, 1, k) \in Seq(Nat)
        /\ Len(outq[c] \o SubSeq(q, 1, k)) <= SendCap
    <3>1. outq[c] \in Seq(Nat) /\ Len(outq[c]) \in Nat
      BY <1>2, <1>3, LenProperties DEF Typed, RepliesTyped
    <3>2. /\ outq[c] \o SubSeq(q, 1, k) \in Seq(Nat)
          /\ Len(outq[c] \o SubSeq(q, 1, k)) = Len(outq[c]) + k
      BY <2>3, <3>1, ConcatProperties
    <3>3. k <= SendCap - Len(outq[c]) /\ k \in Nat
      BY <2>1, <2>2 DEF Room
    <3>4. Len(outq[c]) + k <= SendCap
      BY <1>2, <3>1, <3>3
    <3> QED
      BY <3>2, <3>4
  <2>5. RepliesTyped'
    BY <1>1, <1>2, <1>3, <2>1, <2>4 DEF Typed, RepliesTyped
  <2>6. SocketsTyped'
    BY <1>1, <1>2, <1>3, <2>1 DEF Keep, Typed, SocketsTyped
  <2>7. ServerTyped'
    <3>1. [sock |-> c, read |-> r, out |-> Unsent(q, k)] \in Conn
      BY <1>3, <2>1, <2>3 DEF Conn
    <3>2. conns' \in [DOMAIN conns' -> Conn] /\ DOMAIN conns' = DOMAIN conns
      BY <1>1, <1>2, <2>1, <3>1 DEF Keep, Typed, ServerTyped
    <3>3. armed' \subseteq DOMAIN conns /\ mode' \in {"batch", "dead"}
      BY <1>1, <1>2, <2>1 DEF Keep, Typed, ServerTyped
    <3> QED
      BY <1>1, <1>2, <2>1, <3>2, <3>3 DEF Typed, ServerTyped
  <2> QED
    BY <2>5, <2>6, <2>7 DEF Typed
<1> QED
  BY <1>4, <1>5 DEF Handled, c, t

(***************************************************************************)
(* The table of connections: how it and the sockets change together.       *)
(***************************************************************************)
LEMMA Accepted ==
    ASSUME IInv, NEW c \in Clients, AcceptOne(c)
    PROVE  /\ sock[c] = "pending" /\ sock' = [sock EXCEPT ![c] = "open"]
           /\ nextToken \in Tokens \ DOMAIN conns
           /\ DOMAIN conns' = DOMAIN conns \cup {nextToken}
           /\ conns'[nextToken] = [sock |-> c, read |-> 0, out |-> <<>>]
           /\ \A t \in DOMAIN conns : conns'[t] = conns[t] /\ t # nextToken
           /\ nextToken' \notin DOMAIN conns'
           /\ IsFiniteSet(DOMAIN conns) /\ IsFiniteSet(Waiting)
           /\ Cardinality(DOMAIN conns) + 1 <= LastToken
<1>1. /\ conns' = [t \in DOMAIN conns \cup {nextToken} |->
                      IF t = nextToken THEN [sock |-> c, read |-> 0, out |-> <<>>] ELSE conns[t]]
      /\ nextToken' = NextFreeToken(nextToken)
      /\ sock' = [sock EXCEPT ![c] = "open"] /\ sock[c] = "pending"
  BY DEF AcceptOne
<1>2. nextToken \in Tokens \ DOMAIN conns
  BY DEF IInv, Typed, ServerTyped, Table
<1>3. /\ IsFiniteSet(DOMAIN conns) /\ IsFiniteSet(Waiting)
      /\ Cardinality(DOMAIN conns) + Cardinality(Waiting) <= MaxLive
  BY DEF IInv, Bounded
<1>4. Cardinality(DOMAIN conns) \in Nat /\ Cardinality(Waiting) \in Nat \ {0}
  <2>1. c \in Waiting
    BY <1>1 DEF Waiting
  <2> QED
    BY <1>3, <2>1, FS_EmptySet, FS_CardinalityType
<1>5. Cardinality(DOMAIN conns) + 1 <= LastToken
  BY <1>3, <1>4, ServerNumbersAssumption, TokensAssumption
<1>6. nextToken' \in Tokens \ (DOMAIN conns \cup {nextToken})
  <2>1. Cardinality(DOMAIN conns) < LastToken
    BY <1>4, <1>5, ServerNumbersAssumption
  <2> QED
    BY <1>1, <1>2, <1>3, <2>1, NextFreeTokenIsFree
<1> QED
  BY <1>1, <1>2, <1>3, <1>5, <1>6

LEMMA BoundedStep ==
    ASSUME IInv, Next
    PROVE  Bounded'
<1>1. /\ IsFiniteSet(DOMAIN conns) /\ IsFiniteSet(Waiting)
      /\ Cardinality(DOMAIN conns) + Cardinality(Waiting) <= MaxLive
      /\ Cardinality(DOMAIN conns) \in Nat /\ Cardinality(Waiting) \in Nat
      /\ MaxLive \in Nat
      /\ sock \in [Clients -> {"new", "pending", "aborted", "open", "shut"}]
  BY FS_CardinalityType, ServerNumbersAssumption DEF IInv, Bounded, Typed, SocketsTyped
<1>2. CASE DOMAIN conns' = DOMAIN conns /\ Waiting' = Waiting
  BY <1>1, <1>2 DEF Bounded
<1>3. CASE Quiet
  BY <1>2, <1>3 DEF Quiet, Waiting
<1>4. ASSUME NEW c \in Clients, Connect(c)
      PROVE  Bounded'
  <2>1. /\ DOMAIN conns' = DOMAIN conns /\ Waiting' = Waiting \cup {c} /\ c \notin Waiting
        /\ Cardinality(DOMAIN conns) + Cardinality(Waiting) < MaxLive
    BY <1>1, <1>4 DEF Connect, server, Waiting
  <2>2. IsFiniteSet(Waiting') /\ Cardinality(Waiting') = Cardinality(Waiting) + 1
    BY <1>1, <2>1, FS_AddElement
  <2> QED
    BY <1>1, <2>1, <2>2 DEF Bounded
<1>5. ASSUME NEW c \in Clients, Abort(c)
      PROVE  Bounded'
  <2>1. DOMAIN conns' = DOMAIN conns /\ Waiting' = Waiting \ {c} /\ c \in Waiting
    BY <1>1, <1>5 DEF Abort, server, Waiting
  <2>2. IsFiniteSet(Waiting') /\ Cardinality(Waiting') = Cardinality(Waiting) - 1
    BY <1>1, <2>1, FS_RemoveElement
  <2> QED
    BY <1>1, <2>1, <2>2 DEF Bounded
<1>6. ASSUME NEW c \in Clients, AcceptOne(c)
      PROVE  Bounded'
  <2>1. /\ sock[c] = "pending" /\ sock' = [sock EXCEPT ![c] = "open"] /\ nextToken \notin DOMAIN conns
        /\ DOMAIN conns' = DOMAIN conns \cup {nextToken}
    BY <1>6, Accepted
  <2>2. Waiting' = Waiting \ {c} /\ c \in Waiting
    BY <1>1, <2>1 DEF Waiting
  <2>3. IsFiniteSet(Waiting') /\ Cardinality(Waiting') = Cardinality(Waiting) - 1
    BY <1>1, <2>2, FS_RemoveElement
  <2>4. IsFiniteSet(DOMAIN conns') /\ Cardinality(DOMAIN conns') = Cardinality(DOMAIN conns) + 1
    BY <1>1, <2>1, FS_AddElement
  <2> QED
    BY <1>1, <2>3, <2>4 DEF Bounded
<1>7. ASSUME NEW c \in Clients,
             SendPiece(c) \/ SendJunk(c) \/ Close(c) \/ Receive(c) \/ AcceptAborted(c)
      PROVE  Bounded'
  <2>1. conns' = conns /\ \A d \in Clients : sock'[d] = "pending" <=> sock[d] = "pending"
    BY <1>1, <1>7 DEF SendPiece, SendJunk, Close, Receive, AcceptAborted, server
  <2> QED
    BY <1>2, <2>1 DEF Waiting
<1>8. ASSUME NEW e \in batch, Handled(e)
      PROVE  Bounded'
  <2> DEFINE c == conns[e.token].sock
  <2>1. e.token \in DOMAIN conns /\ c \in Clients /\ sock[c] = "open"
    BY <1>8, ConnTyped DEF Handled, IInv, Table
  <2>2. CASE Dropped(e, c)
    <3>1. DOMAIN conns' = DOMAIN conns \ {e.token} /\ Waiting' = Waiting
      BY <1>1, <2>1, <2>2 DEF Dropped, DropConn, Waiting
    <3>2. IsFiniteSet(DOMAIN conns') /\ Cardinality(DOMAIN conns') = Cardinality(DOMAIN conns) - 1
      BY <1>1, <2>1, <3>1, FS_RemoveElement
    <3> QED
      BY <1>1, <3>1, <3>2 DEF Bounded
  <2>3. CASE \E n, r, k : Kept(e, c, n, r, k)
    <3>1. DOMAIN conns' = DOMAIN conns /\ sock' = sock
      BY <2>3 DEF Kept, Keep
    <3> QED
      BY <1>2, <3>1 DEF Waiting
  <2> QED
    BY <1>8, <2>2, <2>3 DEF Handled
<1> QED
  BY <1>3, <1>4, <1>5, <1>6, <1>7, <1>8, Kinds DEF ByClient

LEMMA TableStep ==
    ASSUME IInv, Next
    PROVE  Table'
<1>1. /\ nextToken \notin DOMAIN conns
      /\ \A t \in DOMAIN conns : conns[t].sock \in Clients /\ sock[conns[t].sock] = "open"
      /\ \A t, u \in DOMAIN conns : conns[t].sock = conns[u].sock => t = u
      /\ \A c \in Clients : sock[c] = "open" => \E t \in DOMAIN conns : conns[t].sock = c
      /\ sock \in [Clients -> {"new", "pending", "aborted", "open", "shut"}]
  BY ConnTyped DEF IInv, Table, Typed, SocketsTyped
<1>2. CASE /\ DOMAIN conns' = DOMAIN conns /\ nextToken' = nextToken
           /\ \A t \in DOMAIN conns : conns'[t].sock = conns[t].sock
           /\ \A c \in Clients : sock'[c] = "open" <=> sock[c] = "open"
  BY <1>1, <1>2 DEF Table
<1>3. CASE Quiet
  BY <1>2, <1>3 DEF Quiet
<1>4. ASSUME NEW c \in Clients, Connect(c) \/ Abort(c) \/ AcceptAborted(c)
      PROVE  Table'
  <2>1. conns' = conns /\ nextToken' = nextToken /\ \A d \in Clients : sock'[d] = "open" <=> sock[d] = "open"
    BY <1>1, <1>4 DEF Connect, Abort, AcceptAborted, server
  <2> QED
    BY <1>2, <2>1
<1>5. ASSUME NEW c \in Clients, SendPiece(c) \/ SendJunk(c) \/ Close(c) \/ Receive(c)
      PROVE  Table'
  BY <1>2, <1>5 DEF SendPiece, SendJunk, Close, Receive, server
<1>6. ASSUME NEW c \in Clients, AcceptOne(c)
      PROVE  Table'
  <2>1. /\ sock[c] = "pending" /\ sock' = [sock EXCEPT ![c] = "open"]
        /\ DOMAIN conns' = DOMAIN conns \cup {nextToken}
        /\ conns'[nextToken] = [sock |-> c, read |-> 0, out |-> <<>>]
        /\ \A t \in DOMAIN conns : conns'[t] = conns[t] /\ t # nextToken
        /\ nextToken' \notin DOMAIN conns'
    BY <1>6, Accepted
  <2>2. \A t \in DOMAIN conns : conns[t].sock # c
    BY <1>1, <2>1
  <2> QED
    BY <1>1, <2>1, <2>2 DEF Table
<1>7. ASSUME NEW e \in batch, Handled(e)
      PROVE  Table'
  <2> DEFINE c == conns[e.token].sock
  <2>1. e.token \in DOMAIN conns /\ c \in Clients /\ sock[c] = "open" /\ nextToken' = nextToken
    BY <1>1, <1>7 DEF Handled
  <2>2. CASE Dropped(e, c)
    <3>1. /\ DOMAIN conns' = DOMAIN conns \ {e.token}
          /\ \A u \in DOMAIN conns' : conns'[u] = conns[u]
          /\ sock' = [sock EXCEPT ![c] = "shut"]
      BY <2>2 DEF Dropped, DropConn
    <3>2. \A u \in DOMAIN conns' : conns[u].sock # c
      BY <1>1, <2>1, <3>1
    <3> QED
      BY <1>1, <2>1, <3>1, <3>2 DEF Table
  <2>3. CASE \E n, r, k : Kept(e, c, n, r, k)
    <3>1. PICK n, r, k : Kept(e, c, n, r, k)
      BY <2>3
    <3>2. DOMAIN conns' = DOMAIN conns /\ sock' = sock /\ \A t \in DOMAIN conns : conns'[t].sock = conns[t].sock
      BY <2>1, <3>1 DEF Kept, Keep
    <3> QED
      BY <1>2, <2>1, <3>2
  <2> QED
    BY <1>7, <2>2, <2>3 DEF Handled
<1> QED
  BY <1>3, <1>4, <1>5, <1>6, <1>7, Kinds DEF ByClient

(***************************************************************************)
(* The books of a client's requests.                                       *)
(***************************************************************************)
LEMMA FreshStep ==
    ASSUME IInv, Next
    PROVE  Fresh'
<1>1. /\ inq \in [Clients -> Nat] /\ sent \in [Clients -> Nat] /\ done \in [Clients -> Nat]
      /\ junk \in [Clients -> BOOLEAN] /\ eof \in [Clients -> BOOLEAN]
      /\ sock \in [Clients -> {"new", "pending", "aborted", "open", "shut"}]
      /\ outq \in [Clients -> Seq(Nat)] /\ got \in [Clients -> Seq(Nat)]
      /\ Fresh
  BY DEF IInv, Typed, SocketsTyped, RepliesTyped
<1>2. CASE Quiet
  BY <1>1, <1>2 DEF Quiet, clients, Fresh
<1>3. ASSUME NEW c \in Clients, ByClient(c)
      PROVE  Fresh'
  <2>1. CASE Connect(c) \/ Abort(c) \/ AcceptAborted(c)
    BY <1>1, <2>1 DEF Connect, Abort, AcceptAborted, clients, Fresh
  <2>2. CASE SendPiece(c)
    BY <1>1, <2>2 DEF SendPiece, Talking, Fresh
  <2>3. CASE SendJunk(c) \/ Close(c)
    BY <1>1, <2>3 DEF SendJunk, Close, Talking, clients, Fresh
  <2>4. CASE Receive(c)
    BY <1>1, <2>4 DEF Receive, Fresh
  <2>5. CASE AcceptOne(c)
    BY <1>1, <2>5 DEF AcceptOne, clients, Fresh
  <2> QED
    BY <1>3, <2>1, <2>2, <2>3, <2>4, <2>5 DEF ByClient
<1>4. ASSUME NEW e \in batch, Handled(e)
      PROVE  Fresh'
  <2> DEFINE c == conns[e.token].sock
  <2>1. /\ e.token \in DOMAIN conns /\ c \in Clients /\ sock[c] = "open"
        /\ UNCHANGED <<junk, eof, sent, got>>
    BY <1>4, ConnTyped DEF Handled, IInv, Table
  <2> HIDE DEF c
  <2>2. /\ sock'[c] \notin {"new", "pending"}
        /\ \A d \in Clients \ {c} :
              sock'[d] = sock[d] /\ inq'[d] = inq[d] /\ done'[d] = done[d] /\ outq'[d] = outq[d]
    <3>1. CASE Dropped(e, c)
      BY <1>1, <2>1, <3>1 DEF Dropped, DropConn
    <3>2. CASE \E n, r, k : Kept(e, c, n, r, k)
      BY <1>1, <2>1, <3>2 DEF Kept, Keep
    <3> QED
      BY <1>4, <3>1, <3>2 DEF Handled, c
  <2> QED
    BY <1>1, <2>1, <2>2 DEF Fresh
<1> QED
  BY <1>2, <1>3, <1>4, Kinds

LEMMA JunkLastStep ==
    ASSUME IInv, Next
    PROVE  JunkLast'
<1>1. /\ sent \in [Clients -> Nat] /\ junk \in [Clients -> BOOLEAN] /\ JunkLast
  BY DEF IInv, Typed, SocketsTyped
<1>2. CASE UNCHANGED <<junk, sent>>
  BY <1>1, <1>2 DEF JunkLast
<1>3. ASSUME NEW c \in Clients, SendPiece(c)
      PROVE  JunkLast'
  BY <1>1, <1>3 DEF SendPiece, Talking, JunkLast
<1>4. ASSUME NEW c \in Clients, SendJunk(c)
      PROVE  JunkLast'
  BY <1>1, <1>4 DEF SendJunk, clients, JunkLast
<1>5. ASSUME NEW c \in Clients, Connect(c) \/ Abort(c) \/ Close(c) \/ Receive(c) \/ AcceptOne(c) \/ AcceptAborted(c)
      PROVE  UNCHANGED <<junk, sent>>
  BY <1>5 DEF Connect, Abort, Close, Receive, AcceptOne, AcceptAborted, clients
<1>6. (Quiet => UNCHANGED <<junk, sent>>) /\ \A e \in batch : Handled(e) => UNCHANGED <<junk, sent>>
  BY DEF Quiet, Handled, clients
<1> QED
  BY <1>2, <1>3, <1>4, <1>5, <1>6, Kinds DEF ByClient

LEMMA CountedStep ==
    ASSUME IInv, Next
    PROVE  Counted'
<1>1. /\ inq \in [Clients -> Nat] /\ sent \in [Clients -> Nat] /\ done \in [Clients -> Nat]
      /\ \A t \in DOMAIN conns : conns[t].sock \in Clients /\ conns[t].read \in Nat
      /\ Parts \in Nat
      /\ Counted
  BY ConnTyped, ServerNumbersAssumption DEF IInv, Typed, SocketsTyped
<1>2. CASE UNCHANGED <<conns, inq, sent, done>>
  BY <1>1, <1>2 DEF Counted
<1>3. ASSUME NEW c \in Clients, SendPiece(c)
      PROVE  Counted'
  <2>1. UNCHANGED <<conns, done>> /\ inq' = [inq EXCEPT ![c] = @ + 1] /\ sent' = [sent EXCEPT ![c] = @ + 1]
    BY <1>3 DEF SendPiece, server
  <2>2. ASSUME NEW t \in DOMAIN conns, NEW d \in Clients, d = conns[t].sock
        PROVE  sent'[d] = inq'[d] + conns[t].read + Parts * done[d]
    <3>1. sent[d] = inq[d] + conns[t].read + Parts * done[d] /\ Parts * done[d] \in Nat
      BY <1>1, <2>2, ProductNat DEF Counted
    <3>2. CASE d = c
      BY <1>1, <2>1, <3>1, <3>2
    <3> QED
      BY <1>1, <2>1, <3>1, <3>2
  <2> QED
    BY <1>1, <2>1, <2>2 DEF Counted
<1>4. ASSUME NEW c \in Clients, AcceptOne(c)
      PROVE  Counted'
  <2>1. /\ sock[c] = "pending"
        /\ DOMAIN conns' = DOMAIN conns \cup {nextToken}
        /\ conns'[nextToken] = [sock |-> c, read |-> 0, out |-> <<>>]
        /\ \A t \in DOMAIN conns : conns'[t] = conns[t]
        /\ UNCHANGED <<inq, sent, done>>
    BY <1>4, Accepted DEF AcceptOne, clients
  <2>2. sent[c] = inq[c] /\ done[c] = 0 /\ inq[c] \in Nat
    BY <1>1, <2>1 DEF IInv, Fresh
  <2>3. sent[c] = inq[c] + 0 + Parts * done[c]
    BY <1>1, <2>2
  <2>4. \A t \in DOMAIN conns' : sent[conns'[t].sock] = inq[conns'[t].sock] + conns'[t].read + Parts * done[conns'[t].sock]
    BY <1>1, <2>1, <2>3 DEF Counted
  <2> QED
    BY <2>1, <2>4 DEF Counted
<1>5. ASSUME NEW c \in Clients,
             Connect(c) \/ Abort(c) \/ SendJunk(c) \/ Close(c) \/ Receive(c) \/ AcceptAborted(c)
      PROVE  UNCHANGED <<conns, inq, sent, done>>
  BY <1>5 DEF Connect, Abort, SendJunk, Close, Receive, AcceptAborted, server, clients
<1>6. ASSUME NEW e \in batch, Handled(e)
      PROVE  Counted'
  <2> DEFINE t == e.token
             c == conns[t].sock
  <2>1. /\ t \in DOMAIN conns /\ c \in Clients /\ sent' = sent
        /\ \A u \in DOMAIN conns : u # t => conns[u].sock # c
    BY <1>1, <1>6 DEF Handled, IInv, Table
  <2> HIDE DEF c, t
  <2>2. CASE Dropped(e, c)
    <3>1. /\ DOMAIN conns' = DOMAIN conns \ {t} /\ \A u \in DOMAIN conns' : conns'[u] = conns[u]
          /\ \A d \in Clients \ {c} : inq'[d] = inq[d] /\ done'[d] = done[d]
      BY <2>2 DEF Dropped, DropConn, t
    <3> QED
      BY <1>1, <2>1, <3>1 DEF Counted
  <2>3. CASE \E n, r, k : Kept(e, c, n, r, k)
    <3>1. PICK n, r, k : Kept(e, c, n, r, k)
      BY <2>3
    <3>2. /\ sent[c] = (IF e.r THEN 0 ELSE inq[c]) + r + Parts * (done[c] + n)
          /\ inq' = [inq EXCEPT ![c] = IF e.r THEN 0 ELSE @] /\ done' = [done EXCEPT ![c] = @ + n]
          /\ conns' = [conns EXCEPT ![t] = [sock |-> c, read |-> r, out |-> Unsent(Queued(e, n), k)]]
      BY <3>1 DEF Kept, Keep, t
    <3>3. sent[c] = inq'[c] + r + Parts * done'[c]
      BY <1>1, <2>1, <3>2
    <3>4. DOMAIN conns' = DOMAIN conns /\ conns'[t].sock = c /\ conns'[t].read = r
      BY <2>1, <3>2
    <3>5. \A u \in DOMAIN conns : u # t => /\ conns'[u] = conns[u]
                                          /\ inq'[conns[u].sock] = inq[conns[u].sock]
                                          /\ done'[conns[u].sock] = done[conns[u].sock]
      BY <1>1, <2>1, <3>2
    <3> QED
      BY <1>1, <2>1, <3>3, <3>4, <3>5 DEF Counted
  <2> QED
    BY <1>6, <2>2, <2>3 DEF Handled, c, t
<1> QED
  BY <1>2, <1>3, <1>4, <1>5, <1>6, Kinds DEF ByClient, Quiet, clients

(***************************************************************************)
(* Wake-ups.  What NoLostWakeup says of the listener and of one token:     *)
(***************************************************************************)
ListenerAlert == (\E c \in Clients : sock[c] \in {"pending", "aborted"}) => Noticed(Listener)

Alert(t) ==
    LET c == conns[t].sock
    IN /\ Readable(c) => t \in ready \/ \E e \in batch : e.token = t /\ e.r
       /\ conns[t].out # <<>> /\ Room(c) > 0 => Noticed(t)
       /\ t \in armed <=> conns[t].out # <<>>

LEMMA ListenerNoToken ==
    ASSUME IInv
    PROVE  /\ Listener \notin Tokens /\ Listener \notin DOMAIN conns
           /\ Event(Listener) = [token |-> Listener, r |-> TRUE, w |-> FALSE]
<1>1. Listener \notin Tokens
  BY SourcesAssumption, ServerNumbersAssumption DEF Tokens
<1>2. Listener \notin DOMAIN conns
  BY <1>1 DEF IInv, Typed, ServerTyped
<1> QED
  BY <1>1, <1>2 DEF Event

LEMMA PollNotices ==
    ASSUME IInv, DoPoll
    PROVE  ListenerAlert' /\ \A t \in DOMAIN conns' : Alert(t)'
<1>1. /\ NoLostWakeup /\ Running /\ batch = {}
      /\ batch' = {e \in {Event(s) : s \in ready} : e.r \/ e.w}
      /\ UNCHANGED <<conns, armed, sock, inq, junk, eof, outq>>
  BY DEF DoPoll, IInv, Running, Typed, ServerTyped
<1>2. \A s \in ready : s \in Sources
  BY DEF IInv, Typed, SocketsTyped
<1>3. \A s \in ready : (Event(s).r \/ Event(s).w) => Event(s) \in batch' /\ Event(s).token = s
  BY <1>1, <1>2, EventTyped DEF IInv
<1>4. ListenerAlert'
  <2>1. Listener \in ready => Noticed(Listener)'
    BY <1>3, ListenerNoToken DEF Noticed
  <2> QED
    BY <1>1, <2>1 DEF NoLostWakeup, Noticed, ListenerAlert
<1>5. ASSUME NEW t \in DOMAIN conns
      PROVE  Alert(t)'
  <2> DEFINE c == conns[t].sock
  <2>1. /\ Readable(c) => t \in ready
        /\ conns[t].out # <<>> /\ Room(c) > 0 => t \in ready
        /\ t \in armed <=> conns[t].out # <<>>
    BY <1>1 DEF NoLostWakeup, Noticed
  <2>2. /\ Event(t).r = Readable(c)
        /\ Event(t).w = (t \in armed /\ Room(c) > 0)
    BY DEF Event
  <2>3. Readable(c) => \E e \in batch' : e.token = t /\ e.r
    BY <1>3, <2>1, <2>2
  <2>4. conns[t].out # <<>> /\ Room(c) > 0 => Noticed(t)'
    BY <1>3, <2>1, <2>2 DEF Noticed
  <2> QED
    BY <1>1, <2>1, <2>3, <2>4 DEF Alert, Readable, Room
<1> QED
  BY <1>1, <1>4, <1>5

LEMMA HandlingNotices ==
    ASSUME IInv, Running, NEW e \in batch, Handled(e), NEW c, c = conns[e.token].sock
    PROVE  ListenerAlert' /\ \A t \in DOMAIN conns' : Alert(t)'
<1> DEFINE t == e.token
<1>1. /\ t \in DOMAIN conns /\ c \in Clients /\ sock[c] = "open" /\ batch' = batch \ {e}
      /\ UNCHANGED <<junk, eof>>
      /\ \A u \in DOMAIN conns : conns[u].sock \in Clients /\ (u # t => conns[u].sock # c)
      /\ t # Listener /\ t \in Tokens
  BY ConnTyped, ListenerNoToken DEF Handled, IInv, Table, Typed, ServerTyped
<1>2. ListenerAlert /\ \A u \in DOMAIN conns : Alert(u)
  BY DEF IInv, NoLostWakeup, ListenerAlert, Alert
<1>3. /\ inq \in [Clients -> Nat] /\ outq \in [Clients -> Seq(Nat)] /\ conns \in [DOMAIN conns -> Conn]
      /\ sock \in [Clients -> {"new", "pending", "aborted", "open", "shut"}]
      /\ junk \in [Clients -> BOOLEAN] /\ eof \in [Clients -> BOOLEAN] /\ e.r \in BOOLEAN
      /\ Len(outq[c]) \in Nat /\ SendCap \in Nat
  BY <1>1, LenProperties, ServerNumbersAssumption DEF IInv, Typed, ServerTyped, SocketsTyped, RepliesTyped
<1> HIDE DEF t
<1>4. ASSUME /\ \A u \in DOMAIN conns \ {t} : conns'[u] = conns[u] /\ (u \in armed' <=> u \in armed)
             /\ ready \ {t} \subseteq ready'
             /\ \A d \in Clients \ {c} : inq'[d] = inq[d] /\ outq'[d] = outq[d]
      PROVE  \A u \in DOMAIN conns \ {t} : Alert(u)'
  <2> SUFFICES ASSUME NEW u \in DOMAIN conns \ {t} PROVE Alert(u)'
    OBVIOUS
  <2>1. conns[u].sock \in Clients \ {c} /\ Alert(u)
    BY <1>1, <1>2
  <2>2. /\ inq'[conns[u].sock] = inq[conns[u].sock] /\ outq'[conns[u].sock] = outq[conns[u].sock]
        /\ conns'[u] = conns[u]
    BY <1>4, <2>1
  <2>3. /\ (inq'[conns[u].sock] > 0 \/ junk'[conns[u].sock] \/ eof'[conns[u].sock]) => Readable(conns[u].sock)
        /\ SendCap - Len(outq'[conns[u].sock]) = Room(conns[u].sock)
    BY <1>1, <2>2 DEF Readable, Room
  <2>4. \A f \in batch : f.token = u => f \in batch'
    BY <1>1 DEF t
  <2> QED
    BY <1>4, <2>1, <2>2, <2>3, <2>4 DEF Alert, Noticed, Readable, Room
<1>5. ASSUME ready \ {t} \subseteq ready', sock' = sock \/ sock' = [sock EXCEPT ![c] = "shut"]
      PROVE  ListenerAlert'
  <2>1. Noticed(Listener) => Noticed(Listener)'
    BY <1>1, <1>5 DEF Noticed, t
  <2> QED
    BY <1>1, <1>2, <1>3, <1>5, <2>1 DEF ListenerAlert
<1>6. CASE Dropped(e, c)
  <2>1. /\ conns' = [u \in DOMAIN conns \ {t} |-> conns[u]] /\ armed' = armed \ {t}
        /\ sock' = [sock EXCEPT ![c] = "shut"] /\ ready' = ready \ {t}
        /\ outq' = outq /\ \A d \in Clients \ {c} : inq'[d] = inq[d]
    BY <1>6 DEF Dropped, DropConn, t
  <2> QED
    BY <1>4, <1>5, <2>1
<1>7. ASSUME NEW n, NEW r, NEW k, Kept(e, c, n, r, k)
      PROVE  ListenerAlert' /\ \A u \in DOMAIN conns' : Alert(u)'
  <2> DEFINE q == Queued(e, n)
  <2>1. /\ n \in Nat /\ k \in 0 .. Len(q) /\ k <= Room(c) /\ k \in {Len(q), Room(c)}
        /\ e.r => ~junk[c] /\ ~eof[c]
        /\ conns' = [conns EXCEPT ![t] = [sock |-> c, read |-> r, out |-> Unsent(q, k)]]
        /\ armed' = IF WantsWrite(Unsent(q, k)) THEN armed \cup {t} ELSE armed \ {t}
        /\ sock' = sock
        /\ outq' = [outq EXCEPT ![c] = @ \o SubSeq(q, 1, k)]
        /\ inq' = [inq EXCEPT ![c] = IF e.r THEN 0 ELSE @]
        /\ ready' = IF ~e.r /\ Readable(c) THEN ready \cup {t} ELSE ready
    BY <1>7 DEF Kept, Keep, t
  <2>2. \A u \in DOMAIN conns \ {t} : Alert(u)'
    BY <1>3, <1>4, <2>1
  <2>3. ListenerAlert'
    BY <1>5, <2>1
  <2>4. q \in Seq(Nat) /\ Len(q) \in Nat
    BY <1>1, <2>1, QueuedTyped, LenProperties DEF IInv, t
  <2> HIDE DEF q
  <2>5. conns'[t].sock = c /\ conns'[t].out = Unsent(q, k) /\ DOMAIN conns' = DOMAIN conns
    BY <1>1, <2>1
  <2>6. t \in armed' <=> Unsent(q, k) # <<>>
    BY <2>1 DEF WantsWrite
  <2>7. Readable(c)' => t \in ready'
    BY <1>1, <1>3, <2>1 DEF Readable
  <2>8. Unsent(q, k) # <<>> => ~(Room(c)' > 0)
    <3> SUFFICES ASSUME Unsent(q, k) # <<>> PROVE ~(Room(c)' > 0)
      OBVIOUS
    <3>1. k # Len(q)
      BY <2>1, <2>4, SentAndUnsent
    <3>2. k = Room(c) /\ k = SendCap - Len(outq[c]) /\ k \in Nat /\ k <= Len(q)
      BY <2>1, <2>4, <3>1 DEF Room
    <3>3. SubSeq(q, 1, k) \in Seq(Nat) /\ Len(SubSeq(q, 1, k)) = k
      BY <2>1, <2>4, SentAndUnsent
    <3>4. outq'[c] = outq[c] \o SubSeq(q, 1, k) /\ outq[c] \in Seq(Nat)
      BY <1>1, <1>3, <2>1
    <3>5. Len(outq'[c]) = Len(outq[c]) + k
      BY <3>3, <3>4, ConcatProperties
    <3>6. SendCap - Len(outq'[c]) = 0
      BY <1>3, <3>2, <3>5
    <3> QED
      BY <1>1, <3>6 DEF Room
  <2>9. Alert(t)'
    BY <2>5, <2>6, <2>7, <2>8 DEF Alert
  <2> QED
    BY <2>2, <2>3, <2>5, <2>9
<1> QED
  <2>1. CASE \E n, r, k : Kept(e, c, n, r, k)
    BY <1>7, <2>1
  <2> QED
    BY <1>6, <2>1 DEF Handled, t

LEMMA ClientNotices ==
    ASSUME IInv, Running, NEW c \in Clients, ByClient(c)
    PROVE  ListenerAlert' /\ \A t \in DOMAIN conns' : Alert(t)'
<1>1. /\ ListenerAlert /\ \A t \in DOMAIN conns : Alert(t)
      /\ \A t \in DOMAIN conns : conns[t].sock \in Clients /\ sock[conns[t].sock] = "open" /\ t # Listener
  BY ConnTyped, ListenerNoToken DEF IInv, NoLostWakeup, ListenerAlert, Alert, Table
<1>2. /\ inq \in [Clients -> Nat] /\ outq \in [Clients -> Seq(Nat)]
      /\ sock \in [Clients -> {"new", "pending", "aborted", "open", "shut"}]
      /\ junk \in [Clients -> BOOLEAN] /\ eof \in [Clients -> BOOLEAN]
  BY DEF IInv, Typed, SocketsTyped, RepliesTyped
<1>3. CASE Connect(c) \/ Abort(c)
  <2>1. /\ UNCHANGED <<conns, armed, batch, inq, junk, outq>> /\ ready \subseteq ready'
        /\ sock[c] # "open" /\ \A d \in Clients \ {c} : eof'[d] = eof[d] /\ sock'[d] = sock[d]
        /\ Connect(c) => Listener \in ready'
        /\ Abort(c) => ready' = ready /\ sock[c] = "pending"
    BY <1>2, <1>3 DEF Connect, Abort, server
  <2>2. ASSUME NEW t \in DOMAIN conns PROVE Alert(t)'
    <3>1. conns[t].sock \in Clients \ {c}
      BY <1>1, <2>1
    <3> QED
      BY <1>1, <2>1, <3>1 DEF Alert, Readable, Room, Noticed
  <2>3. ListenerAlert'
    BY <1>1, <1>3, <2>1 DEF ListenerAlert, Noticed
  <2> QED
    BY <2>1, <2>2, <2>3
<1>4. CASE SendPiece(c) \/ SendJunk(c) \/ Close(c)
  <2>1. /\ UNCHANGED <<conns, armed, batch, sock, outq>> /\ ready' = ready \cup TokensOf(c)
        /\ \A d \in Clients \ {c} : inq'[d] = inq[d] /\ junk'[d] = junk[d] /\ eof'[d] = eof[d]
    BY <1>2, <1>4 DEF SendPiece, SendJunk, Close, server
  <2>2. ASSUME NEW t \in DOMAIN conns PROVE Alert(t)'
    <3>1. conns[t].sock = c => t \in ready'
      BY <2>1 DEF TokensOf
    <3> QED
      BY <1>1, <2>1, <3>1 DEF Alert, Readable, Room, Noticed
  <2>3. ListenerAlert'
    BY <1>1, <2>1 DEF ListenerAlert, Noticed
  <2> QED
    BY <2>1, <2>2, <2>3
<1>5. CASE Receive(c)
  <2>1. /\ UNCHANGED <<conns, armed, batch, sock, inq, junk, eof>>
        /\ ready' = IF Room(c) = 0 THEN ready \cup (TokensOf(c) \cap armed) ELSE ready
        /\ \A d \in Clients \ {c} : outq'[d] = outq[d]
    BY <1>2, <1>5 DEF Receive, server
  <2>2. SendCap - Len(outq[c]) \in Nat
    <3>1. Len(outq[c]) \in Nat /\ Len(outq[c]) <= SendCap
      BY <1>2, LenProperties DEF IInv, Typed, RepliesTyped
    <3> QED
      BY <3>1, ServerNumbersAssumption
  <2>3. ASSUME NEW t \in DOMAIN conns PROVE Alert(t)'
    <3>1. CASE conns[t].sock = c
      <4>1. conns[t].out # <<>> => Noticed(t)'
        <5>1. SUFFICES ASSUME conns[t].out # <<>> PROVE Noticed(t)'
          OBVIOUS
        <5>2. t \in armed /\ t \in TokensOf(c)
          BY <1>1, <3>1, <5>1 DEF Alert, TokensOf
        <5>3. CASE Room(c) = 0
          BY <2>1, <5>2, <5>3 DEF Noticed
        <5>4. CASE Room(c) > 0
          BY <1>1, <2>1, <3>1, <5>1, <5>4 DEF Alert, Noticed
        <5> QED
          BY <2>2, <5>3, <5>4 DEF Room
      <4> QED
        BY <1>1, <2>1, <4>1 DEF Alert, Readable
    <3>2. CASE conns[t].sock # c
      BY <1>1, <2>1, <3>2 DEF Alert, Readable, Room, Noticed
    <3> QED
      BY <3>1, <3>2
  <2>4. ListenerAlert'
    BY <1>1, <2>1 DEF ListenerAlert, Noticed
  <2> QED
    BY <2>1, <2>3, <2>4
<1>6. CASE AcceptOne(c)
  <2>1. /\ UNCHANGED <<armed, batch, inq, junk, eof, outq>>
        /\ ready' = IF Readable(c) THEN ready \cup {nextToken} ELSE ready
        /\ Event(Listener) \in batch
    BY <1>6 DEF AcceptOne
  <2>2. /\ DOMAIN conns' = DOMAIN conns \cup {nextToken} /\ nextToken \notin DOMAIN conns
        /\ conns'[nextToken] = [sock |-> c, read |-> 0, out |-> <<>>]
        /\ \A t \in DOMAIN conns : conns'[t] = conns[t]
    BY <1>6, Accepted
  <2>3. ASSUME NEW n, n = nextToken PROVE Alert(n)'
    <3>1. n \notin armed
      BY <2>2, <2>3 DEF IInv, Typed, ServerTyped
    <3>2. conns'[n].sock = c /\ conns'[n].out = <<>>
      BY <2>2, <2>3
    <3> QED
      BY <2>1, <2>3, <3>1, <3>2 DEF Alert, Readable
  <2>4. \A t \in DOMAIN conns : Alert(t)'
    BY <1>1, <2>1, <2>2 DEF Alert, Readable, Room, Noticed
  <2>5. ListenerAlert'
    BY <2>1, ListenerNoToken DEF ListenerAlert, Noticed
  <2> QED
    BY <2>2, <2>3, <2>4, <2>5
<1>7. CASE AcceptAborted(c)
  <2>1. UNCHANGED <<conns, armed, batch, inq, junk, eof, outq, ready>> /\ Event(Listener) \in batch
    BY <1>7 DEF AcceptAborted
  <2>2. \A t \in DOMAIN conns : Alert(t)'
    BY <1>1, <2>1 DEF Alert, Readable, Room, Noticed
  <2>3. ListenerAlert'
    BY <2>1, ListenerNoToken DEF ListenerAlert, Noticed
  <2> QED
    BY <2>1, <2>2, <2>3
<1> QED
  BY <1>3, <1>4, <1>5, <1>6, <1>7 DEF ByClient

LEMMA NoticedStep ==
    ASSUME IInv, Next
    PROVE  NoLostWakeup'
<1> SUFFICES ASSUME Running' PROVE ListenerAlert' /\ \A t \in DOMAIN conns' : Alert(t)'
  BY DEF NoLostWakeup, ListenerAlert, Alert
<1>1. CASE Quiet
  <2>1. CASE DoPoll
    BY <2>1, PollNotices
  <2>2. CASE PollFails \/ AcceptFails \/ Shutdown
    BY <2>2 DEF PollFails, AcceptFails, Shutdown, AfterSignal, Running
  <2>3. CASE Interrupt \/ EndBatch \/ AcceptWouldBlock
    <3>1. Running /\ ListenerAlert /\ \A t \in DOMAIN conns : Alert(t) /\ t # Listener
      BY <2>3, ListenerNoToken
      DEF Interrupt, EndBatch, AcceptWouldBlock, Running, IInv, NoLostWakeup, ListenerAlert, Alert
    <3>2. /\ UNCHANGED <<conns, armed, sock, inq, junk, eof, outq>> /\ ready \subseteq ready'
          /\ \A e \in batch : e.token = Listener \/ e \in batch'
          /\ batch' = batch \/ \A c \in Clients : sock[c] \notin {"pending", "aborted"}
      BY <2>3, ListenerNoToken DEF Interrupt, EndBatch, AcceptWouldBlock, kernel, server
    <3>3. \A t \in DOMAIN conns : Alert(t)'
      BY <3>1, <3>2 DEF Alert, Readable, Room, Noticed
    <3>4. ListenerAlert'
      BY <3>1, <3>2 DEF ListenerAlert, Noticed
    <3> QED
      BY <3>2, <3>3, <3>4
  <2> QED
    BY <1>1, <2>1, <2>2, <2>3 DEF Quiet
<1>2. ASSUME NEW c \in Clients, ByClient(c)
      PROVE  Running
  BY <1>2 DEF ByClient, Connect, Abort, SendPiece, SendJunk, Close, Receive, AcceptOne, AcceptAborted,
              server, Running
<1>3. ASSUME NEW e \in batch, Handled(e)
      PROVE  ListenerAlert' /\ \A t \in DOMAIN conns' : Alert(t)'
  <2>1. Running /\ \E c : c = conns[e.token].sock
    BY <1>3 DEF Handled, Running
  <2> QED
    BY <1>3, <2>1, HandlingNotices
<1> QED
  BY <1>1, <1>2, <1>3, ClientNotices, Kinds

(***************************************************************************)
(* Replies.  What waits in a table of connections for a client:            *)
(***************************************************************************)
OutOf(table, c) ==
    IF {t \in DOMAIN table : table[t].sock = c} = {} THEN <<>>
    ELSE table[CHOOSE t \in {t \in DOMAIN table : table[t].sock = c} : TRUE].out

LEMMA OutOfToken ==
    ASSUME NEW table, NEW c, NEW t \in DOMAIN table, table[t].sock = c,
           \A u \in DOMAIN table : table[u].sock = c => u = t
    PROVE  OutOf(table, c) = table[t].out
<1>1. {u \in DOMAIN table : table[u].sock = c} = {t}
  OBVIOUS
<1>2. (CHOOSE u \in {t} : TRUE) = t
  OBVIOUS
<1> QED
  BY <1>1, <1>2 DEF OutOf

LEMMA OutOfNobody ==
    ASSUME NEW table, NEW c, \A u \in DOMAIN table : table[u].sock # c
    PROVE  OutOf(table, c) = <<>>
<1>1. {u \in DOMAIN table : table[u].sock = c} = {}
  OBVIOUS
<1> QED
  BY <1>1 DEF OutOf

LEMMA OutOfSame ==
    ASSUME NEW table, NEW other, NEW c,
           \A u \in DOMAIN table : table[u].sock = c => u \in DOMAIN other /\ other[u] = table[u],
           \A u \in DOMAIN other : other[u].sock = c => u \in DOMAIN table /\ other[u] = table[u]
    PROVE  OutOf(other, c) = OutOf(table, c)
<1> DEFINE at == {u \in DOMAIN table : table[u].sock = c}
<1>1. {u \in DOMAIN other : other[u].sock = c} = at
  OBVIOUS
<1>2. CASE at = {}
  BY <1>1, <1>2 DEF OutOf
<1>3. CASE at # {}
  <2> DEFINE x == CHOOSE t \in at : TRUE
  <2>1. x \in DOMAIN table /\ table[x].sock = c
    <3>1. x \in at
      BY <1>3
    <3> QED
      BY <3>1
  <2>2. OutOf(table, c) = table[x].out
    BY <1>3 DEF OutOf
  <2>3. OutOf(other, c) = other[x].out
    BY <1>1, <1>3 DEF OutOf
  <2>4. other[x] = table[x]
    BY <2>1
  <2> QED
    BY <2>2, <2>3, <2>4
<1> QED
  BY <1>2, <1>3

LEMMA RepliesAre ==
    /\ \A c : Replies(c) = (got[c] \o outq[c]) \o OutOf(conns, c)
    /\ \A c : Replies(c)' = (got'[c] \o outq'[c]) \o OutOf(conns', c)
BY DEF Replies, TokensOf, OutOf

LEMMA RepliesAreNumbers ==
    ASSUME Typed, NEW c \in Clients
    PROVE  /\ got[c] \in Seq(Nat) /\ outq[c] \in Seq(Nat) /\ OutOf(conns, c) \in Seq(Nat)
           /\ Replies(c) \in Seq(Nat)
<1>1. got[c] \in Seq(Nat) /\ outq[c] \in Seq(Nat)
  BY DEF Typed, RepliesTyped
<1>2. OutOf(conns, c) \in Seq(Nat)
  <2>1. CASE TokensOf(c) = {}
    BY <2>1, EmptySeq DEF OutOf, TokensOf
  <2>2. CASE TokensOf(c) # {}
    <3>1. (CHOOSE t \in TokensOf(c) : TRUE) \in DOMAIN conns
      BY <2>2 DEF TokensOf
    <3> QED
      BY <2>2, <3>1, ConnTyped DEF OutOf, TokensOf
  <2> QED
    BY <2>1, <2>2
<1>3. got[c] \o outq[c] \in Seq(Nat)
  BY <1>1, ConcatProperties
<1>4. (got[c] \o outq[c]) \o OutOf(conns, c) \in Seq(Nat)
  BY <1>2, <1>3, ConcatProperties
<1> QED
  BY <1>1, <1>2, <1>4, RepliesAre

(***************************************************************************)
(* A step lets every client's replies as they are, or takes those away     *)
(* that a lost connection had not sent, or adds those of n requests.       *)
(***************************************************************************)
Same(c) ==
    /\ Replies(c)' = Replies(c)
    /\ TokensOf(c)' # {} => Len(Replies(c)) = done'[c]

CutOff(c) ==
    /\ TokensOf(c)' = {}
    /\ Replies(c) = Replies(c)' \o OutOf(conns, c)

Grown(c, n) ==
    /\ n \in Nat /\ counter' = counter + n
    /\ Replies(c)' = Replies(c) \o [i \in 1 .. n |-> counter + i]
    /\ TokensOf(c) # {} /\ done'[c] = done[c] + n

LEMMA ReceiveKeeps ==
    ASSUME IInv, NEW c \in Clients, Receive(c)
    PROVE  Replies(c)' = Replies(c)
<1>1. /\ conns' = conns /\ outq[c] # <<>>
      /\ got' = [got EXCEPT ![c] = Append(@, Head(outq[c]))] /\ outq' = [outq EXCEPT ![c] = Tail(@)]
  BY DEF Receive, server
<1> DEFINE g == got[c]
           q == outq[c]
<1>2. g \in Seq(Nat) /\ q \in Seq(Nat) /\ q # <<>>
  BY <1>1, RepliesAreNumbers DEF IInv
<1>3. got'[c] = Append(g, Head(q)) /\ outq'[c] = Tail(q)
  BY <1>1 DEF IInv, Typed, RepliesTyped
<1> HIDE DEF g, q
<1>4. /\ Head(q) \in Nat /\ Tail(q) \in Seq(Nat) /\ Len(Tail(q)) = Len(q) - 1
      /\ \A i \in 1 .. Len(Tail(q)) : Tail(q)[i] = q[i + 1]
  BY <1>2, HeadTailProperties
<1>5. q = <<Head(q)>> \o Tail(q)
  <2>1. Len(q) \in Nat /\ Len(q) # 0 /\ Len(q) >= 1
    BY <1>2, EmptySeq
  <2>2. SubSeq(q, 1, Len(q)) = <<q[1]>> \o SubSeq(q, 1 + 1, Len(q))
    <3>1. 1 \in 1 .. Len(q) /\ Len(q) \in 1 .. Len(q)
      BY <2>1
    <3> QED
      BY <1>2, <3>1, SubSeqRecursiveFirst
  <2>3. SubSeq(q, 1, Len(q)) = q /\ Tail(q) = SubSeq(q, 2, Len(q)) /\ Head(q) = q[1] /\ 1 + 1 = 2
    BY <1>2, SubSeqFull, TailIsSubSeq
  <2> QED
    BY <2>2, <2>3
<1>6. Append(g, Head(q)) = g \o <<Head(q)>>
  BY <1>2, <1>4, AppendIsConcat
<1>7. (g \o <<Head(q)>>) \o Tail(q) = g \o (<<Head(q)>> \o Tail(q))
  <2>1. <<Head(q)>> \in Seq(Nat)
    BY <1>4
  <2> QED
    BY <1>2, <1>4, <2>1, Associative
<1>8. got'[c] \o outq'[c] = g \o q
  BY <1>3, <1>5, <1>6, <1>7
<1> QED
  BY <1>1, <1>8, RepliesAre DEF g, q

LEMMA KeptGrows ==
    ASSUME IInv, NEW e \in batch, e.token \in DOMAIN conns, NEW c, c = conns[e.token].sock,
           NEW n, NEW r, NEW k, Kept(e, c, n, r, k), got' = got
    PROVE  Grown(c, n)
<1> DEFINE t == e.token
           q == Queued(e, n)
           a == SubSeq(q, 1, k)
           b == Unsent(q, k)
           new == [i \in 1 .. n |-> counter + i]
<1>1. /\ n \in Nat /\ k \in 0 .. Len(q)
      /\ conns' = [conns EXCEPT ![t] = [sock |-> c, read |-> r, out |-> b]]
      /\ outq' = [outq EXCEPT ![c] = @ \o a]
      /\ counter' = counter + n /\ done' = [done EXCEPT ![c] = @ + n]
  BY DEF Kept, Keep
<1>2. /\ Typed /\ c \in Clients /\ done \in [Clients -> Nat]
      /\ \A u \in DOMAIN conns : conns[u].sock = c => u = t
      /\ t \in DOMAIN conns /\ conns[t].sock = c /\ conns[t].out \in Seq(Nat)
  BY ConnTyped DEF IInv, Table, Typed, SocketsTyped
<1>3. /\ q \in Seq(Nat) /\ Len(q) \in Nat /\ q = conns[t].out \o new /\ new \in Seq(Nat)
  BY <1>1, <1>2, QueuedTyped, LenProperties DEF Queued
<1>4. a \in Seq(Nat) /\ b \in Seq(Nat) /\ a \o b = q
  BY <1>1, <1>3, SentAndUnsent
<1> DEFINE g == got[c]
           o == outq[c]
           p == conns[t].out
<1>5. OutOf(conns, c) = p
  BY <1>2, OutOfToken
<1>6. OutOf(conns', c) = b
  <2>1. /\ t \in DOMAIN conns' /\ conns'[t].sock = c /\ conns'[t].out = b
        /\ \A u \in DOMAIN conns' : conns'[u].sock = c => u = t
    BY <1>1, <1>2
  <2> QED
    BY <2>1, OutOfToken
<1>7. g \in Seq(Nat) /\ o \in Seq(Nat) /\ p \in Seq(Nat)
  BY <1>2, RepliesAreNumbers
<1>8. outq'[c] = o \o a /\ got'[c] = g
  BY <1>1, <1>2 DEF Typed, RepliesTyped
<1>9. (g \o (o \o a)) \o b = ((g \o o) \o p) \o new
  <2>1. a \o b = p \o new
    BY <1>3, <1>4
  <2>2. a \in Seq(Nat) /\ b \in Seq(Nat) /\ new \in Seq(Nat)
    BY <1>3, <1>4
  <2> HIDE DEF g, o, a, b, p, new
  <2>3. g \o o \in Seq(Nat) /\ (g \o o) \o a = g \o (o \o a)
    BY <1>7, <2>2, Associative, ConcatProperties
  <2>4. ((g \o o) \o a) \o b = (g \o o) \o (a \o b)
    BY <2>2, <2>3, Associative
  <2>5. ((g \o o) \o p) \o new = (g \o o) \o (p \o new)
    BY <1>7, <2>2, <2>3, Associative
  <2> QED
    BY <2>1, <2>3, <2>4, <2>5
<1>10. Replies(c)' = Replies(c) \o new
  BY <1>5, <1>6, <1>8, <1>9, RepliesAre
<1>11. TokensOf(c) # {} /\ done'[c] = done[c] + n
  BY <1>1, <1>2 DEF TokensOf
<1> QED
  BY <1>1, <1>10, <1>11 DEF Grown

LEMMA SameIf ==
    ASSUME IInv, NEW d \in Clients,
           got'[d] = got[d], outq'[d] = outq[d], done'[d] = done[d],
           \A u \in DOMAIN conns : conns[u].sock = d => u \in DOMAIN conns' /\ conns'[u] = conns[u],
           \A u \in DOMAIN conns' : conns'[u].sock = d => u \in DOMAIN conns /\ conns'[u] = conns[u]
    PROVE  Same(d)
<1>1. OutOf(conns', d) = OutOf(conns, d)
  BY OutOfSame
<1>2. Replies(d)' = Replies(d)
  BY <1>1, RepliesAre
<1>3. TokensOf(d)' # {} => TokensOf(d) # {}
  BY DEF TokensOf
<1> QED
  BY <1>2, <1>3 DEF Same, IInv, RepliesInOrder

LEMMA ClientReplies ==
    ASSUME IInv, NEW c \in Clients, ByClient(c)
    PROVE  \A d \in Clients : Same(d)
<1>1. CASE UNCHANGED <<conns, got, outq, done>>
  BY <1>1, SameIf
<1>2. CASE Receive(c)
  <2>1. /\ UNCHANGED <<conns, done>>
        /\ \A d \in Clients \ {c} : got'[d] = got[d] /\ outq'[d] = outq[d]
    BY <1>2 DEF Receive, server, IInv, Typed, RepliesTyped
  <2>2. Same(c)
    <3>1. Replies(c)' = Replies(c) /\ TokensOf(c)' = TokensOf(c)
      BY <1>2, <2>1, ReceiveKeeps DEF TokensOf
    <3> QED
      BY <2>1, <3>1 DEF Same, IInv, RepliesInOrder
  <2>3. \A d \in Clients \ {c} : Same(d)
    BY <2>1, SameIf
  <2> QED
    BY <2>2, <2>3
<1>3. CASE AcceptOne(c)
  <2>1. /\ sock[c] = "pending"
        /\ DOMAIN conns' = DOMAIN conns \cup {nextToken} /\ nextToken \notin DOMAIN conns
        /\ conns'[nextToken] = [sock |-> c, read |-> 0, out |-> <<>>]
        /\ \A t \in DOMAIN conns : conns'[t] = conns[t]
        /\ UNCHANGED <<got, outq, done>>
    BY <1>3, Accepted DEF AcceptOne, clients
  <2>2. \A t \in DOMAIN conns : conns[t].sock # c
    BY <2>1 DEF IInv, Table
  <2>3. conns'[nextToken].sock = c /\ conns'[nextToken].out = <<>>
    BY <2>1
  <2>4. Same(c)
    <3>1. OutOf(conns, c) = <<>>
      BY <2>2, OutOfNobody
    <3>2. OutOf(conns', c) = <<>>
      <4>1. /\ nextToken \in DOMAIN conns' /\ conns'[nextToken].sock = c
            /\ \A u \in DOMAIN conns' : conns'[u].sock = c => u = nextToken
        BY <2>1, <2>2, <2>3
      <4> QED
        BY <2>3, <4>1, OutOfToken
    <3>3. Replies(c)' = Replies(c)
      BY <2>1, <3>1, <3>2, RepliesAre
    <3>4. Replies(c) = <<>> /\ done[c] = 0
      <4>1. got[c] = <<>> /\ outq[c] = <<>> /\ done[c] = 0
        BY <2>1 DEF IInv, Fresh
      <4>2. (<<>> \o <<>>) \o <<>> = <<>>
        OBVIOUS
      <4> QED
        BY <3>1, <4>1, <4>2, RepliesAre
    <3> QED
      BY <2>1, <3>3, <3>4 DEF Same
  <2>5. \A d \in Clients \ {c} : Same(d)
    BY <2>1, <2>3, SameIf
  <2> QED
    BY <2>4, <2>5
<1> QED
  BY <1>1, <1>2, <1>3 DEF ByClient, Connect, Abort, SendPiece, SendJunk, Close, AcceptAborted, server, clients

LEMMA HandledReplies ==
    ASSUME IInv, NEW e \in batch, Handled(e), NEW c, c = conns[e.token].sock
    PROVE  /\ c \in Clients
           /\ \/ CutOff(c) /\ counter' \in Nat /\ counter' >= counter
              \/ \E n : Grown(c, n)
           /\ \A d \in Clients \ {c} : Same(d)
<1> DEFINE t == e.token
<1>1. /\ t \in DOMAIN conns /\ c \in Clients /\ got' = got
      /\ \A u \in DOMAIN conns : conns[u].sock = c => u = t
  BY ConnTyped DEF Handled, IInv, Table
<1>2. CASE Dropped(e, c)
  <2>1. /\ DOMAIN conns' = DOMAIN conns \ {t} /\ \A u \in DOMAIN conns' : conns'[u] = conns[u]
        /\ outq' = outq /\ \A d \in Clients \ {c} : done'[d] = done[d]
        /\ counter' \in Nat /\ counter' >= counter
    BY <1>2 DEF Dropped, DropConn
  <2>2. CutOff(c)
    <3>1. \A u \in DOMAIN conns' : conns'[u].sock # c
      BY <1>1, <2>1
    <3>2. OutOf(conns', c) = <<>>
      BY <3>1, OutOfNobody
    <3>3. got[c] \in Seq(Nat) /\ outq[c] \in Seq(Nat)
      BY <1>1, RepliesAreNumbers DEF IInv
    <3>4. (got[c] \o outq[c]) \o <<>> = got[c] \o outq[c]
      BY <3>3, ConcatProperties, ConcatEmptySeq
    <3>5. Replies(c)' = got[c] \o outq[c]
      BY <1>1, <2>1, <3>2, <3>4, RepliesAre
    <3>6. TokensOf(c)' = {}
      BY <3>1 DEF TokensOf
    <3> QED
      BY <3>5, <3>6, RepliesAre DEF CutOff
  <2>3. \A d \in Clients \ {c} : Same(d)
    BY <1>1, <2>1, SameIf
  <2> QED
    BY <1>1, <2>1, <2>2, <2>3
<1>3. ASSUME NEW n, NEW r, NEW k, Kept(e, c, n, r, k)
      PROVE  Grown(c, n) /\ \A d \in Clients \ {c} : Same(d)
  <2>1. Grown(c, n)
    BY <1>1, <1>3, KeptGrows
  <2>2. /\ DOMAIN conns' = DOMAIN conns /\ conns'[t].sock = c
        /\ \A u \in DOMAIN conns \ {t} : conns'[u] = conns[u]
        /\ \A d \in Clients \ {c} : outq'[d] = outq[d] /\ done'[d] = done[d]
    BY <1>1, <1>3 DEF Kept, Keep, IInv, Typed, SocketsTyped, RepliesTyped
  <2>3. \A d \in Clients \ {c} : Same(d)
    BY <1>1, <2>2, SameIf
  <2> QED
    BY <2>1, <2>3
<1> QED
  BY <1>1, <1>2, <1>3 DEF Handled

(***************************************************************************)
(* Numbers above all the earlier ones keep a sequence in order.            *)
(***************************************************************************)
UpTo(s, k) ==
    /\ s \in Seq(Nat) /\ \A i \in DOMAIN s : s[i] <= k
    /\ \A i, j \in DOMAIN s : i < j => s[i] < s[j]

Successors(new, k, n) == new \in Seq(Nat) /\ Len(new) = n /\ \A i \in 1 .. n : new[i] = k + i

Extends(r, s, k, n) ==
    /\ Len(r) = Len(s) + n
    /\ \A i \in DOMAIN r : r[i] <= k + n /\ (r[i] > k \/ (i \in DOMAIN s /\ r[i] = s[i]))
    /\ \A i, j \in DOMAIN r : i < j => r[i] < r[j]

LEMMA GrowsInOrder ==
    ASSUME NEW k \in Nat, NEW n \in Nat, NEW s, UpTo(s, k), NEW new, Successors(new, k, n),
           NEW r, r = s \o new
    PROVE  Extends(r, s, k, n)
<1>1. /\ s \in Seq(Nat) /\ (\A i \in DOMAIN s : s[i] <= k) /\ (\A i, j \in DOMAIN s : i < j => s[i] < s[j])
      /\ new \in Seq(Nat) /\ Len(new) = n /\ \A i \in 1 .. n : new[i] = k + i
  BY DEF UpTo, Successors
<1>2. Len(s) \in Nat /\ DOMAIN s = 1 .. Len(s) /\ \A i \in DOMAIN s : s[i] \in Nat
  BY <1>1, LenProperties, ElementOfSeq
<1>3. /\ r \in Seq(Nat) /\ Len(r) = Len(s) + n
      /\ \A i \in 1 .. Len(s) + n : r[i] = IF i <= Len(s) THEN s[i] ELSE new[i - Len(s)]
  BY <1>1, ConcatProperties
<1>4. DOMAIN r = 1 .. Len(s) + n
  BY <1>3, LenProperties
<1>5. ASSUME NEW i \in DOMAIN r
      PROVE  \/ i \in DOMAIN s /\ r[i] = s[i] /\ r[i] <= k
             \/ i > Len(s) /\ r[i] = k + (i - Len(s))
  <2>1. CASE i <= Len(s)
    BY <1>1, <1>2, <1>3, <1>4, <2>1
  <2>2. CASE i > Len(s)
    <3>1. i - Len(s) \in 1 .. n /\ ~(i <= Len(s))
      BY <1>2, <1>4, <2>2
    <3> QED
      BY <1>1, <1>3, <1>4, <2>2, <3>1
  <2> QED
    BY <1>2, <1>4, <2>1, <2>2
<1>6. ASSUME NEW i \in DOMAIN r
      PROVE  r[i] <= k + n /\ (r[i] > k \/ (i \in DOMAIN s /\ r[i] = s[i]))
  <2>1. i \in Int /\ i <= Len(s) + n
    BY <1>2, <1>4
  <2>2. i \in DOMAIN s => s[i] \in Nat
    BY <1>2
  <2> QED
    BY <1>2, <1>5, <2>1, <2>2
<1>7. ASSUME NEW i \in DOMAIN r, NEW j \in DOMAIN r, i < j
      PROVE  r[i] < r[j]
  <2>1. i \in Int /\ j \in Int /\ i >= 1 /\ Len(s) \in Int
    BY <1>2, <1>4
  <2>2. CASE i > Len(s)
    <3>1. r[i] = k + (i - Len(s)) /\ r[j] = k + (j - Len(s))
      BY <1>2, <1>5, <1>7, <2>1, <2>2
    <3> QED
      BY <1>7, <2>1, <3>1
  <2>3. CASE i <= Len(s)
    <3>1. i \in DOMAIN s /\ r[i] = s[i] /\ r[i] <= k /\ s[i] \in Nat
      BY <1>2, <1>5, <2>1, <2>3
    <3>2. CASE j \in DOMAIN s /\ r[j] = s[j]
      BY <1>1, <1>7, <3>1, <3>2
    <3>3. CASE j > Len(s) /\ r[j] = k + (j - Len(s))
      BY <2>1, <3>1, <3>3
    <3> QED
      BY <1>5, <3>2, <3>3
  <2> QED
    BY <2>1, <2>2, <2>3
<1> QED
  BY <1>3, <1>6, <1>7 DEF Extends

LEMMA PrefixInOrder ==
    ASSUME NEW p \in Seq(Nat), NEW q \in Seq(Nat), NEW s, s = p \o q
    PROVE  \A i \in DOMAIN p : i \in DOMAIN s /\ s[i] = p[i]
<1>1. Len(p) \in Nat /\ Len(q) \in Nat /\ DOMAIN p = 1 .. Len(p)
  BY LenProperties
<1>2. /\ s \in Seq(Nat) /\ Len(s) = Len(p) + Len(q)
      /\ \A i \in 1 .. Len(p) + Len(q) : s[i] = IF i <= Len(p) THEN p[i] ELSE q[i - Len(p)]
  BY ConcatProperties
<1>3. DOMAIN s = 1 .. Len(p) + Len(q)
  BY <1>2, LenProperties
<1> QED
  BY <1>1, <1>2, <1>3

LEMMA RepliesStep ==
    ASSUME IInv, Next
    PROVE  RepliesInOrder' /\ Past'
<1>1. /\ \A c \in Clients :
             /\ Replies(c) \in Seq(Nat) /\ (TokensOf(c) # {} => Len(Replies(c)) = done[c])
             /\ \A i \in DOMAIN Replies(c) : Replies(c)[i] \in Nat /\ Replies(c)[i] <= counter
             /\ \A i, j \in DOMAIN Replies(c) : i < j => Replies(c)[i] < Replies(c)[j]
      /\ \A c, d \in Clients : c # d =>
             \A i \in DOMAIN Replies(c), j \in DOMAIN Replies(d) : Replies(c)[i] # Replies(d)[j]
      /\ counter \in Nat
  <2>1. ASSUME NEW c \in Clients
        PROVE  Replies(c) \in Seq(Nat) /\ \A i \in DOMAIN Replies(c) : Replies(c)[i] \in Nat
    BY RepliesAreNumbers, LenProperties, ElementOfSeq DEF IInv
  <2> QED
    BY <2>1 DEF IInv, RepliesInOrder, Past, Typed, ServerTyped
<1>2. CASE counter' = counter /\ \A d \in Clients : Same(d)
  <2>1. \A c \in Clients : Replies(c)' = Replies(c) /\ (TokensOf(c)' # {} => Len(Replies(c)') = done'[c])
    BY <1>2 DEF Same
  <2> QED
    BY <1>1, <1>2, <2>1 DEF RepliesInOrder, Past
<1>3. ASSUME NEW c \in Clients, CutOff(c), counter' \in Nat, counter' >= counter,
             \A d \in Clients \ {c} : Same(d)
      PROVE  RepliesInOrder' /\ Past'
  <2>1. \A d \in Clients \ {c} : Replies(d)' = Replies(d) /\ (TokensOf(d)' # {} => Len(Replies(d)') = done'[d])
    BY <1>3 DEF Same
  <2>2. /\ TokensOf(c)' = {}
        /\ \A i \in DOMAIN Replies(c)' : i \in DOMAIN Replies(c) /\ Replies(c)[i] = Replies(c)'[i]
    <3>1. Replies(c) = Replies(c)' \o OutOf(conns, c) /\ TokensOf(c)' = {} /\ OutOf(conns, c) \in Seq(Nat)
      BY <1>3, RepliesAreNumbers DEF CutOff, IInv
    <3>2. Replies(c)' \in Seq(Nat)
      <4>1. OutOf(conns', c) = <<>>
        BY <3>1, OutOfNobody DEF TokensOf
      <4>2. Typed'
        BY Kinds, QuietTyped, ClientTyped, HandledTyped DEF IInv
      <4>3. got'[c] \in Seq(Nat) /\ outq'[c] \in Seq(Nat)
        BY <4>2 DEF Typed, RepliesTyped
      <4>4. (got'[c] \o outq'[c]) \in Seq(Nat) /\ (got'[c] \o outq'[c]) \o <<>> = got'[c] \o outq'[c]
        BY <4>3, ConcatProperties, ConcatEmptySeq
      <4> QED
        BY <4>1, <4>4, RepliesAre
    <3> QED
      BY <3>1, <3>2, PrefixInOrder
  <2>3. \A d \in Clients : \A i \in DOMAIN Replies(d)' : i \in DOMAIN Replies(d) /\ Replies(d)[i] = Replies(d)'[i]
    BY <2>1, <2>2
  <2>4. Past'
    <3> SUFFICES ASSUME NEW d \in Clients, NEW i \in DOMAIN Replies(d)' PROVE Replies(d)'[i] <= counter'
      BY DEF Past
    <3>1. Replies(d)'[i] \in Nat /\ Replies(d)'[i] <= counter
      BY <1>1, <2>3
    <3> QED
      BY <1>1, <1>3, <3>1
  <2>5. RepliesInOrder'
    BY <1>1, <2>1, <2>2, <2>3 DEF RepliesInOrder
  <2> QED
    BY <2>4, <2>5
<1>4. ASSUME NEW c \in Clients, NEW n, Grown(c, n), \A d \in Clients \ {c} : Same(d)
      PROVE  RepliesInOrder' /\ Past'
  <2>1. \A d \in Clients \ {c} : Replies(d)' = Replies(d) /\ (TokensOf(d)' # {} => Len(Replies(d)') = done'[d])
    BY <1>4 DEF Same
  <2>2. /\ n \in Nat /\ counter' = counter + n /\ TokensOf(c) # {} /\ done'[c] = done[c] + n
        /\ Replies(c)' = Replies(c) \o [i \in 1 .. n |-> counter + i]
    BY <1>4 DEF Grown
  <2>3. /\ Len(Replies(c)') = Len(Replies(c)) + n
        /\ \A i \in DOMAIN Replies(c)' :
              /\ Replies(c)'[i] <= counter + n
              /\ Replies(c)'[i] > counter \/ (i \in DOMAIN Replies(c) /\ Replies(c)'[i] = Replies(c)[i])
        /\ \A i, j \in DOMAIN Replies(c)' : i < j => Replies(c)'[i] < Replies(c)'[j]
    <3>1. PICK s, q, new : s = Replies(c) /\ q = Replies(c)' /\ new = [i \in 1 .. n |-> counter + i]
      OBVIOUS
    <3>2. counter \in Nat /\ n \in Nat /\ q = s \o new
      BY <1>1, <2>2, <3>1
    <3>3. UpTo(s, counter)
      BY <1>1, <3>1 DEF UpTo
    <3>4. Successors(new, counter, n)
      <4>1. new \in [1 .. n -> Nat]
        BY <3>1, <3>2
      <4> QED
        BY <3>1, <3>2, <4>1 DEF Successors
    <3>5. Extends(q, s, counter, n)
      BY <3>2, <3>3, <3>4, GrowsInOrder
    <3> QED
      BY <3>1, <3>5 DEF Extends
  <2>4. ASSUME NEW d \in Clients \ {c}
        PROVE  /\ \A i \in DOMAIN Replies(d)' : Replies(d)'[i] <= counter /\ Replies(d)'[i] \in Nat
               /\ \A i \in DOMAIN Replies(c)', j \in DOMAIN Replies(d)' : Replies(c)'[i] # Replies(d)'[j]
    <3>1. \A i \in DOMAIN Replies(d)' : Replies(d)'[i] <= counter /\ Replies(d)'[i] \in Nat
      BY <1>1, <2>1
    <3>2. ASSUME NEW i \in DOMAIN Replies(c)', NEW j \in DOMAIN Replies(d)'
          PROVE  Replies(c)'[i] # Replies(d)'[j]
      <4>1. CASE Replies(c)'[i] > counter
        BY <1>1, <3>1, <3>2, <4>1
      <4>2. CASE i \in DOMAIN Replies(c) /\ Replies(c)'[i] = Replies(c)[i]
        BY <1>1, <2>1, <3>2, <4>2
      <4> QED
        BY <2>3, <3>2, <4>1, <4>2
    <3> QED
      BY <3>1, <3>2
  <2>5. Past'
    <3> SUFFICES ASSUME NEW d \in Clients, NEW i \in DOMAIN Replies(d)' PROVE Replies(d)'[i] <= counter'
      BY DEF Past
    <3>1. CASE d = c
      BY <2>2, <2>3, <3>1
    <3>2. CASE d # c
      <4>1. Replies(d)'[i] \in Nat /\ Replies(d)'[i] <= counter
        BY <2>4, <3>2
      <4> QED
        BY <1>1, <2>2, <4>1
    <3> QED
      BY <3>1, <3>2
  <2>6. \A d \in Clients \ {c} : \A f \in Clients \ {d} :
           \A i \in DOMAIN Replies(d)', j \in DOMAIN Replies(f)' : Replies(d)'[i] # Replies(f)'[j]
    <3> SUFFICES ASSUME NEW d \in Clients \ {c}, NEW f \in Clients \ {d},
                        NEW i \in DOMAIN Replies(d)', NEW j \in DOMAIN Replies(f)'
                 PROVE  Replies(d)'[i] # Replies(f)'[j]
      OBVIOUS
    <3>1. CASE f = c
      BY <2>4, <3>1
    <3>2. CASE f # c
      BY <1>1, <2>1, <3>2
    <3> QED
      BY <3>1, <3>2
  <2>7. Len(Replies(c)') = done'[c]
    BY <1>1, <2>2, <2>3
  <2>8. \A d \in Clients : \A i, j \in DOMAIN Replies(d)' : i < j => Replies(d)'[i] < Replies(d)'[j]
    BY <1>1, <2>1, <2>3
  <2>9. RepliesInOrder'
    BY <2>1, <2>4, <2>6, <2>7, <2>8 DEF RepliesInOrder
  <2> QED
    BY <2>5, <2>9
<1>5. CASE Quiet
  <2>1. UNCHANGED <<conns, got, outq, done, counter>>
    BY <1>5 DEF Quiet, clients
  <2> QED
    BY <1>2, <2>1, SameIf
<1>6. ASSUME NEW c \in Clients, ByClient(c)
      PROVE  RepliesInOrder' /\ Past'
  <2>1. counter' = counter
    BY <1>6 DEF ByClient, Connect, Abort, SendPiece, SendJunk, Close, Receive, AcceptOne, AcceptAborted, server
  <2> QED
    BY <1>2, <1>6, <2>1, ClientReplies
<1>7. ASSUME NEW e \in batch, Handled(e)
      PROVE  RepliesInOrder' /\ Past'
  <2>1. PICK c : c = conns[e.token].sock
    OBVIOUS
  <2> QED
    BY <1>3, <1>4, <1>7, <2>1, HandledReplies
<1> QED
  BY <1>5, <1>6, <1>7, Kinds

(***************************************************************************)
(* The invariant is inductive.                                             *)
(***************************************************************************)
LEMMA StepInv == IInv /\ [Next]_vars => IInv'
<1> SUFFICES ASSUME IInv, [Next]_vars PROVE IInv'
  OBVIOUS
<1>1. CASE Next
  <2>1. Typed'
    BY <1>1, Kinds, QuietTyped, ClientTyped, HandledTyped DEF IInv
  <2> QED
    BY <1>1, <2>1, BoundedStep, TableStep, FreshStep, CountedStep, JunkLastStep, NoticedStep, RepliesStep
    DEF IInv
<1>2. CASE UNCHANGED vars
  <2>1. UNCHANGED <<mode, conns, armed, nextToken, batch, counter, sock, inq, junk, eof, outq, ready, sent, got, done>>
    BY <1>2 DEF vars, server, kernel, clients
  <2>2. \A c : Replies(c)' = Replies(c) /\ TokensOf(c)' = TokensOf(c)
    BY <2>1, RepliesAre DEF TokensOf
  <2>3. RepliesInOrder' /\ Past'
    BY <2>1, <2>2 DEF IInv, RepliesInOrder, Past
  <2>4. Typed' /\ Bounded' /\ Table' /\ Fresh' /\ Counted' /\ JunkLast'
    BY <2>1 DEF IInv, Typed, ServerTyped, SocketsTyped, RepliesTyped, Bounded, Waiting, Table, Fresh,
                Counted, JunkLast
  <2>5. NoLostWakeup'
    BY <2>1 DEF IInv, NoLostWakeup, Running, Noticed, Readable, Room
  <2> QED
    BY <2>3, <2>4, <2>5 DEF IInv
<1> QED
  BY <1>1, <1>2

LEMMA Invariance == Spec => []IInv
<1>1. Init => IInv
  BY InitInv
<1>2. IInv /\ [Next]_vars => IInv'
  BY StepInv
<1> QED
  BY <1>1, <1>2, PTL DEF Spec

(***************************************************************************)
(* Every variable has its type, for any clients and numbers: whatever      *)
(* arrives, read_buf holds less than a request after process, and the send *)
(* buffer never more than the socket takes.                                *)
(***************************************************************************)
THEOREM TypeCorrect == Spec => []TypeOK
<1>1. IInv => TypeOK
  BY TypedIsTypeOK DEF IInv
<1> QED
  BY <1>1, Invariance, PTL

(***************************************************************************)
(* server.rs never gives the token of a live connection to another one,    *)
(* however the tokens wrap around: a socket the server has not closed has  *)
(* exactly one entry in the table.                                         *)
(***************************************************************************)
THEOREM TokensUnique == Spec => []OneTokenEach
<1>1. IInv => OneTokenEach
  <2> SUFFICES ASSUME IInv, NEW c \in Clients, sock[c] = "open"
               PROVE  Cardinality(TokensOf(c)) = 1
    BY DEF OneTokenEach
  <2>1. PICK t \in DOMAIN conns : conns[t].sock = c
    BY DEF IInv, Table
  <2>2. TokensOf(c) = {t}
    BY <2>1 DEF IInv, Table, TokensOf
  <2> QED
    BY <2>2, FS_Singleton
<1> QED
  BY <1>1, Invariance, PTL

(***************************************************************************)
(* The loop of server.rs loses no wake-up, although mio reports an edge    *)
(* once: input and room for output are always still to be noticed.         *)
(***************************************************************************)
THEOREM WakeupsKept == Spec => []NoLostWakeup
<1>1. IInv => NoLostWakeup
  BY DEF IInv
<1> QED
  BY <1>1, Invariance, PTL

(***************************************************************************)
(* connection.rs answers every request it runs once and in order, through  *)
(* partial reads, pipelining, partial writes and lost connections.         *)
(***************************************************************************)
THEOREM RepliesOrdered == Spec => []RepliesInOrder
<1>1. IInv => RepliesInOrder
  BY DEF IInv
<1> QED
  BY <1>1, Invariance, PTL

================================================================================
