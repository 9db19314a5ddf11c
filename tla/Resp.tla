---------------------------------- MODULE Resp ----------------------------------
(***************************************************************************)
(* The wire of rudis (07-systems-programming/src): resp.rs parses and      *)
(* encodes, command.rs tells requests from other values, and connection.rs *)
(* does both on a stream of bytes that arrives, and is taken, in pieces of *)
(* any length.  What a command does to the keyspace is in RudisStore; here *)
(* only the shape of its reply counts.                                     *)
(*                                                                         *)
(* A byte is a string of one character, or has a name; a command's name is *)
(* one byte.                                                               *)
(***************************************************************************)
EXTENDS Integers, SequencesExt

CONSTANTS
    Byte,           \* characters, and the bytes named below
    Conversations,  \* what a client may send: a sequence of values, and bytes that are no RESP
    I64Max,         \* i64::MAX
    MaxItems,       \* items an array can be given room for; beyond that the process ends
    MaxDepth,       \* bound: arrays within arrays
    MaxPiece        \* bound: bytes that arrive, or are taken, at once

CR == "CR"
LF == "LF"
NotUtf8 == "FF"
Replacement == "FFFD"
Digits == <<"0", "1", "2", "3", "4", "5", "6", "7", "8", "9">>

Crlf == <<CR, LF>>

ASSUME ByteAssumption ==
    ToSet(Digits) \cup {CR, LF, NotUtf8, Replacement, "+", "-", ":", "$", "*", "E", "P", "O", "K"}
       \subseteq Byte

(***************************************************************************)
(* Values.  Each holds a sequence: of bytes, of one integer, of values.    *)
(***************************************************************************)
Value(t, v) == [t |-> t, v |-> v]
Null == Value("null", <<>>)

IsText(line) == NotUtf8 \notin ToSet(line)
LineEnds(buf) == {i \in 1 .. Len(buf) - 1 : buf[i] = CR /\ buf[i + 1] = LF}

Text == {s \in Seq(Byte) : IsText(s)}
Line == {s \in Text : LineEnds(s) = {}}
I64 == -I64Max - 1 .. I64Max
AtMost(n, S) == {s \in Seq(S) : Len(s) <= n}

Flat(texts) ==
    [t : {"simple", "error"}, v : texts] \cup [t : {"int"}, v : [1 .. 1 -> I64]]
    \cup [t : {"bulk"}, v : AtMost(I64Max, Byte)] \cup {Null}

Nested(texts, below) == Flat(texts) \cup [t : {"array"}, v : AtMost(MaxItems, below)]

\* Values nested at most d deep, of any text; and those whose lines are lines.
Level[d \in Nat] == IF d = 0 THEN Flat(Text) ELSE Nested(Text, Level[d - 1])
Plain[d \in Nat] == IF d = 0 THEN Flat(Line) ELSE Nested(Line, Plain[d - 1])

Values == Level[MaxDepth]

(***************************************************************************)
(* Encoding.                                                               *)
(***************************************************************************)
Numeral[n \in Nat] ==
    IF n < 10 THEN <<Digits[n + 1]>> ELSE Append(Numeral[n \div 10], Digits[(n % 10) + 1])

Decimal(n) == IF n < 0 THEN <<"-">> \o Numeral[-n] ELSE Numeral[n]

Cat(a, b) == a \o b
Header(c, line) == <<c>> \o line \o Crlf

\* A value, given the encoding of its elements.
EncodedWith(x, encode) ==
    CASE x.t = "simple" -> Header("+", x.v)
      [] x.t = "error"  -> Header("-", x.v)
      [] x.t = "int"    -> Header(":", Decimal(x.v[1]))
      [] x.t = "bulk"   -> Header("$", Decimal(Len(x.v))) \o x.v \o Crlf
      [] x.t = "null"   -> Header("$", <<"-", "1">>)
      [] x.t = "array"  -> FoldLeft(Cat, Header("*", Decimal(Len(x.v))),
                                    [i \in DOMAIN x.v |-> encode[x.v[i]]])

Encoder[d \in Nat] == [x \in Level[d] |-> EncodedWith(x, IF d = 0 THEN <<>> ELSE Encoder[d - 1])]

Encode(x) == Encoder[MaxDepth][x]

EncodeAll(xs) == FoldLeft(Cat, <<>>, [i \in DOMAIN xs |-> Encode(xs[i])])

(***************************************************************************)
(* Parsing one value from the front of a buffer: the value and the bytes   *)
(* it took, "partial", "invalid", or "panic".                              *)
(***************************************************************************)
Outcome(kind) == [kind |-> kind, used |-> 0, value |-> Null]
Parsed(x, used) == [kind |-> "value", used |-> used, value |-> x]

Unsigned(line) == IF line # <<>> /\ line[1] \in {"+", "-"} THEN Tail(line) ELSE line

Shift(n, c) == 10 * n + (CHOOSE d \in 0 .. 9 : Digits[d + 1] = c)

Number(line) ==
    LET n == FoldLeft(Shift, 0, Unsigned(line))
    IN IF line[1] = "-" THEN -n ELSE n

IsNumber(line) ==
    /\ Unsigned(line) # <<>> /\ ToSet(Unsigned(line)) \subseteq ToSet(Digits)
    /\ Number(line) \in I64

\* Seconds and milliseconds are u64.
IsUnsigned(line) ==
    /\ Unsigned(line) # <<>> /\ ToSet(Unsigned(line)) \subseteq ToSet(Digits)
    /\ line[1] # "-" /\ Number(line) <= 2 * I64Max + 1

Rest(buf, used) == SubSeq(buf, used + 1, Len(buf))

\* A value whose bytes are all there, but for the line end behind them.
WithoutEnd(n) == n

\* The two bytes behind the value are waited for, whatever they are.
WithEnd(n) == n + 2

\* One more element of an array, unless one before it could not be parsed.
NextElement(got, parse) ==
    LET e == parse[Rest(got.buf, got.used)]
    IN IF got.kind # "value" THEN got
       ELSE [got EXCEPT !.kind = e.kind, !.used = @ + e.used, !.items = Append(@, e.value)]

Elements(buf, after, n, parse) ==
    LET got == FoldLeft(NextElement, [buf |-> buf, kind |-> "value", used |-> after, items |-> <<>>],
                        [i \in 1 .. n |-> parse])
    IN IF got.kind = "value" THEN Parsed(Value("array", got.items), got.used) ELSE Outcome(got.kind)

\* What is behind a first line that ends after so many bytes, given how elements are parsed.
Opened(buf, line, after, parse) ==
    LET n == Number(line)
    IN CASE buf[1] \in {"+", "-"} ->
              IF IsText(line)
              THEN Parsed(Value(IF buf[1] = "+" THEN "simple" ELSE "error", line), after)
              ELSE Outcome("invalid")
         [] buf[1] = ":" ->
              IF IsNumber(line) THEN Parsed(Value("int", <<n>>), after) ELSE Outcome("invalid")
         [] buf[1] \in {"$", "*"} /\ ~IsNumber(line) -> Outcome("invalid")
         [] buf[1] \in {"$", "*"} /\ IsNumber(line) /\ n < 0 -> Parsed(Null, after)
         [] buf[1] = "$" /\ IsNumber(line) /\ n >= 0 ->
              IF Len(buf) < WithEnd(after + n) THEN Outcome("partial")
              ELSE Parsed(Value("bulk", SubSeq(buf, after + 1, after + n)), after + n + 2)
         [] buf[1] = "*" /\ IsNumber(line) /\ n >= 0 ->
              IF n > MaxItems THEN Outcome("panic") ELSE Elements(buf, after, n, parse)
         [] OTHER -> Outcome("invalid")

ParsedWith(buf, parse) ==
    LET end == Min(LineEnds(buf))
    IN IF LineEnds(buf) = {} THEN Outcome("partial")
       ELSE IF end = 1 THEN Outcome("panic")
       ELSE Opened(buf, SubSeq(buf, 2, end - 1), end + 1, parse)

\* Calls nested at most d deep; each takes bytes, so a buffer's length is deep enough.
Parser[d \in Nat] ==
    [buf \in Seq(Byte) |-> IF d = 0 THEN Outcome("partial") ELSE ParsedWith(buf, Parser[d - 1])]

Parse(buf) == Parser[Len(buf)][buf]

ASSUME RespAssumption ==
    /\ I64Max \in Nat \ {0} /\ MaxItems \in 0 .. I64Max
    /\ MaxDepth \in Nat \ {0} /\ MaxPiece \in Nat \ {0}
    /\ \A c \in Conversations :
          /\ c.values \in Seq(Values) /\ c.junk \in Seq(Byte)
          /\ \A n \in 0 .. Len(c.junk) : Parse(SubSeq(c.junk, 1, n)).kind # "value"

(***************************************************************************)
(* Requests and their replies.                                             *)
(***************************************************************************)

\* Numbers of arguments, the name included.
Arity == [PING |-> Nat \ {0}, ECHO |-> {2}, GET |-> {2}, INCR |-> {2}, TTL |-> {2},
          DEL |-> Nat \ {0, 1}, EXISTS |-> Nat \ {0, 1}, EXPIRE |-> {3}, SET |-> {3, 5},
          DBSIZE |-> Nat \ {0}, SAVE |-> Nat \ {0}, COMMAND |-> Nat \ {0}]

IsCommand(x) == x.t = "array" /\ x.v # <<>> /\ \A i \in DOMAIN x.v : x.v[i].t = "bulk"

\* A name is one byte here.
Name(x) == IF Len(x.v[1].v) = 1 THEN x.v[1].v[1] ELSE "unknown"

WellFormed(x) ==
    LET args == x.v IN
    /\ IsCommand(x) /\ Name(x) \in DOMAIN Arity /\ Len(args) \in Arity[Name(x)]
    /\ Name(x) = "EXPIRE" => IsUnsigned(args[3].v)
    /\ Name(x) = "SET" /\ Len(args) = 5 => args[4].v \in {<<"EX">>, <<"PX">>} /\ IsUnsigned(args[5].v)

Lossy(name) == [i \in DOMAIN name |-> IF name[i] = NotUtf8 THEN Replacement ELSE name[i]]

Refusal(x) ==
    Value("error", <<"E">> \o
             IF IsCommand(x) /\ Name(x) \notin DOMAIN Arity THEN Lossy(x.v[1].v) ELSE <<>>)

Reply(x) ==
    IF ~WellFormed(x) THEN Refusal(x)
    ELSE CASE Name(x) = "PING" -> IF Len(x.v) = 1 THEN Value("simple", <<"P">>) ELSE x.v[2]
           [] Name(x) = "ECHO" -> x.v[2]
           [] Name(x) = "GET" -> Null
           [] Name(x) = "COMMAND" -> Value("array", <<>>)
           [] Name(x) \in {"SET", "SAVE"} -> Value("simple", <<"O", "K">>)
           [] OTHER -> Value("int", <<0>>)

\* An unknown name is quoted in a line of the reply.
PlainSpoken ==
    \A c \in Conversations :
       /\ c.values \in Seq(Plain[MaxDepth])
       /\ \A i \in DOMAIN c.values :
             IsCommand(c.values[i]) => LineEnds(c.values[i].v[1].v) = {}

(***************************************************************************)
(* A connection.                                                           *)
(***************************************************************************)
VARIABLES
    talk,           \* what the client sends: `values`, then `junk` that is no RESP
    coming,         \* bytes that have not arrived
    rbuf, wbuf,     \* read_buf and write_buf
    inbox,          \* bytes the client has got
    served,         \* history: the values parsed, in order
    link            \* "open", "dropped", or "dead" with the whole server

respVars == <<talk, coming, rbuf, wbuf, inbox, served, link>>

RespInit ==
    /\ talk \in Conversations
    /\ coming = EncodeAll(talk.values) \o talk.junk
    /\ rbuf = <<>> /\ wbuf = <<>> /\ inbox = <<>> /\ served = <<>>
    /\ link = "open"

\* A complete value is taken out of the buffer and answered; an error ends the loop.
LoopTurn(s, i) ==
    LET p == Parse(s.rbuf)
    IN CASE p.kind = "partial" -> s
         [] p.kind = "invalid" -> [s EXCEPT !.link = "dropped"]
         [] p.kind = "panic"   -> [s EXCEPT !.link = "dead"]
         [] p.kind = "value"   ->
               [s EXCEPT !.rbuf = Rest(@, p.used), !.wbuf = @ \o Encode(Reply(p.value)),
                         !.served = Append(@, p.value)]

\* Every turn but the last takes bytes out of the buffer.
Process(s) == FoldLeft(LoopTurn, s, [i \in 1 .. Len(s.rbuf) + 1 |-> i])

\* Some bytes arrive, and are read and processed.
ReadIntoBuf(n) ==
    LET s == Process([rbuf |-> rbuf \o SubSeq(coming, 1, n), wbuf |-> wbuf,
                      served |-> served, link |-> link])
    IN /\ link = "open" /\ n <= Len(coming)
       /\ coming' = SubSeq(coming, n + 1, Len(coming))
       /\ rbuf' = s.rbuf /\ wbuf' = s.wbuf /\ served' = s.served /\ link' = s.link
       /\ UNCHANGED <<talk, inbox>>

\* The socket takes some bytes; the others stay queued.
FlushWriteBuf(n) ==
    /\ link = "open" /\ n <= Len(wbuf)
    /\ inbox' = inbox \o SubSeq(wbuf, 1, n)
    /\ wbuf' = SubSeq(wbuf, n + 1, Len(wbuf))
    /\ UNCHANGED <<talk, coming, rbuf, served, link>>

RespNext == \E n \in 1 .. MaxPiece : ReadIntoBuf(n) \/ FlushWriteBuf(n)

RespSpec == RespInit /\ [][RespNext]_respVars

(***************************************************************************)
(* Properties.                                                             *)
(***************************************************************************)

\* How many of the client's values are complete in its first n bytes.
CompleteWithin(n) ==
    Max({i \in 0 .. Len(talk.values) : Len(EncodeAll(SubSeq(talk.values, 1, i))) <= n})

SentBut(b) == Len(EncodeAll(talk.values) \o talk.junk) - Len(b)

\* What a client makes of the bytes it has.
Received(r, i) ==
    LET p == Parse(r.rest)
    IN IF p.kind # "value" THEN r
       ELSE [values |-> Append(r.values, p.value), rest |-> Rest(r.rest, p.used)]

Decoded(buf) == FoldLeft(Received, [values |-> <<>>, rest |-> buf], [i \in 1 .. Len(buf) |-> i])

(***************************************************************************)
(* However the stream is cut into reads, the server has served exactly the *)
(* values that are complete in what arrived, unchanged and in order, and   *)
(* drops no client that sends RESP; and however the replies are cut into   *)
(* writes, they are one value a request for a client that parses them      *)
(* (encode is "the inverse of Resp::parse").                               *)
(***************************************************************************)
WireFaithful ==
    /\ served = SubSeq(talk.values, 1, CompleteWithin(SentBut(coming)))
    /\ link # "open" => talk.junk # <<>>
    /\ link = "open" => Decoded(inbox \o wbuf) =
                           [values |-> [i \in DOMAIN served |-> Reply(served[i])], rest |-> <<>>]
===============================================================================
