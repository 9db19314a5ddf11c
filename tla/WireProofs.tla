------------------------------- MODULE WireProofs -------------------------------
(***************************************************************************)
(* Theorems about the wire of rudis, for any conversations, any depth of   *)
(* arrays and any way the stream is cut into reads and writes.             *)
(***************************************************************************)
EXTENDS Resp, FiniteSetTheorems, SequenceTheorems, TLAPS

LevelStep(below, d) == Nested(Text, below)
PlainStep(below, d) == Nested(Line, below)
EncoderStep(below, d) == [x \in Level[d] |-> EncodedWith(x, below)]
ParserStep(below, d) == [buf \in Seq(Byte) |-> ParsedWith(buf, below)]
NumeralStep(below, d) ==
    [n \in Nat |-> IF n < 10 THEN <<Digits[n + 1]>>
                   ELSE Append(below[n \div 10], Digits[(n % 10) + 1])]

Levels   == INSTANCE FoldTheorems WITH Op <- LevelStep
Plains   == INSTANCE FoldTheorems WITH Op <- PlainStep
Encoders == INSTANCE FoldTheorems WITH Op <- EncoderStep
Parsers  == INSTANCE FoldTheorems WITH Op <- ParserStep
Numerals == INSTANCE FoldTheorems WITH Op <- NumeralStep
Shifts   == INSTANCE FoldTheorems WITH Op <- Shift
Cats     == INSTANCE FoldTheorems WITH Op <- Cat
Nexts    == INSTANCE FoldTheorems WITH Op <- NextElement
Turns    == INSTANCE FoldTheorems WITH Op <- LoopTurn
Receipts == INSTANCE FoldTheorems WITH Op <- Received

LEMMA ShiftedIs ==
    ASSUME NEW n, NEW s
    PROVE  FoldLeft(Shift, n, s) = Shifts!Left(n, s)
BY DEF FoldLeft, MapThenFoldSet, Max, Shifts!Left, Shifts!Folds, Shifts!LastOf

LEMMA CatIs ==
    ASSUME NEW b, NEW s
    PROVE  FoldLeft(Cat, b, s) = Cats!Left(b, s)
BY DEF FoldLeft, MapThenFoldSet, Max, Cats!Left, Cats!Folds, Cats!LastOf

LEMMA NextIs ==
    ASSUME NEW b, NEW s
    PROVE  FoldLeft(NextElement, b, s) = Nexts!Left(b, s)
BY DEF FoldLeft, MapThenFoldSet, Max, Nexts!Left, Nexts!Folds, Nexts!LastOf

LEMMA TurnedIs ==
    ASSUME NEW b, NEW s
    PROVE  FoldLeft(LoopTurn, b, s) = Turns!Left(b, s)
BY DEF FoldLeft, MapThenFoldSet, Max, Turns!Left, Turns!Folds, Turns!LastOf

LEMMA ReceivedIs ==
    ASSUME NEW b, NEW s
    PROVE  FoldLeft(Received, b, s) = Receipts!Left(b, s)
BY DEF FoldLeft, MapThenFoldSet, Max, Receipts!Left, Receipts!Folds, Receipts!LastOf

(***************************************************************************)
(* The recursive functions are what their definitions say.                 *)
(***************************************************************************)
LEMMA LevelIs ==
    Level = [d \in Nat |-> IF d = 0 THEN Flat(Text) ELSE Nested(Text, Level[d - 1])]
<1> DEFINE L(f) == [d \in Nat |-> IF d = 0 THEN Flat(Text) ELSE Nested(Text, f[d - 1])]
<1>1. PICK h : h = [d \in Nat |-> IF d = 0 THEN Flat(Text) ELSE LevelStep(h[d - 1], d)]
  BY Levels!RecursionExists
<1>2. h = L(h)
  BY <1>1 DEF LevelStep
<1>3. Level = CHOOSE f : f = L(f)
  BY DEF Level
<1> HIDE DEF L
<1>4. Level = L(Level)
  BY <1>2, <1>3
<1> QED BY <1>4 DEF L

LEMMA PlainIs ==
    Plain = [d \in Nat |-> IF d = 0 THEN Flat(Line) ELSE Nested(Line, Plain[d - 1])]
<1> DEFINE L(f) == [d \in Nat |-> IF d = 0 THEN Flat(Line) ELSE Nested(Line, f[d - 1])]
<1>1. PICK h : h = [d \in Nat |-> IF d = 0 THEN Flat(Line) ELSE PlainStep(h[d - 1], d)]
  BY Plains!RecursionExists
<1>2. h = L(h)
  BY <1>1 DEF PlainStep
<1>3. Plain = CHOOSE f : f = L(f)
  BY DEF Plain
<1> HIDE DEF L
<1>4. Plain = L(Plain)
  BY <1>2, <1>3
<1> QED BY <1>4 DEF L

LEMMA EncoderIs ==
    Encoder = [d \in Nat |-> [x \in Level[d] |->
                 EncodedWith(x, IF d = 0 THEN <<>> ELSE Encoder[d - 1])]]
<1> DEFINE E(f) == [d \in Nat |-> [x \in Level[d] |->
                      EncodedWith(x, IF d = 0 THEN <<>> ELSE f[d - 1])]]
           base == [x \in Level[0] |-> EncodedWith(x, <<>>)]
<1>1. PICK h : h = [d \in Nat |-> IF d = 0 THEN base ELSE EncoderStep(h[d - 1], d)]
  BY Encoders!RecursionExists
<1>2. ASSUME NEW d \in Nat
      PROVE  (IF d = 0 THEN base ELSE EncoderStep(h[d - 1], d)) =
                [x \in Level[d] |-> EncodedWith(x, IF d = 0 THEN <<>> ELSE h[d - 1])]
  BY DEF EncoderStep
<1>3. h = E(h)
  <2> HIDE DEF base
  <2> QED BY <1>1, <1>2
<1>4. Encoder = CHOOSE f : f = E(f)
  BY DEF Encoder
<1> HIDE DEF E
<1>5. Encoder = E(Encoder)
  BY <1>3, <1>4
<1> QED BY <1>5 DEF E

LEMMA ParserIs ==
    Parser = [d \in Nat |-> [buf \in Seq(Byte) |->
                IF d = 0 THEN Outcome("partial") ELSE ParsedWith(buf, Parser[d - 1])]]
<1> DEFINE P(f) == [d \in Nat |-> [buf \in Seq(Byte) |->
                      IF d = 0 THEN Outcome("partial") ELSE ParsedWith(buf, f[d - 1])]]
           base == [buf \in Seq(Byte) |-> Outcome("partial")]
<1>1. PICK h : h = [d \in Nat |-> IF d = 0 THEN base ELSE ParserStep(h[d - 1], d)]
  BY Parsers!RecursionExists
<1>2. ASSUME NEW d \in Nat
      PROVE  (IF d = 0 THEN base ELSE ParserStep(h[d - 1], d)) =
                [buf \in Seq(Byte) |->
                   IF d = 0 THEN Outcome("partial") ELSE ParsedWith(buf, h[d - 1])]
  BY DEF ParserStep
<1>3. h = P(h)
  <2> HIDE DEF base
  <2> QED BY <1>1, <1>2
<1>4. Parser = CHOOSE f : f = P(f)
  BY DEF Parser
<1> HIDE DEF P
<1>5. Parser = P(Parser)
  BY <1>3, <1>4
<1> QED BY <1>5 DEF P

LEMMA NumeralIs ==
    Numeral = [n \in Nat |-> IF n < 10 THEN <<Digits[n + 1]>>
                             ELSE Append(Numeral[n \div 10], Digits[(n % 10) + 1])]
<1> DEFINE N(f) == [n \in Nat |-> IF n < 10 THEN <<Digits[n + 1]>>
                                  ELSE Append(f[n \div 10], Digits[(n % 10) + 1])]
           base == [n \in Nat |-> <<>>]
<1>1. PICK h : h = [d \in Nat |-> IF d = 0 THEN base ELSE NumeralStep(h[d - 1], d)]
  BY Numerals!RecursionExists
<1> HIDE DEF base
<1>2. ASSUME NEW k \in Nat, NEW n \in Nat
      PROVE  h[k + 1][n] = IF n < 10 THEN <<Digits[n + 1]>>
                           ELSE Append(h[k][n \div 10], Digits[(n % 10) + 1])
  <2>1. k + 1 \in Nat /\ k + 1 # 0 /\ (k + 1) - 1 = k
    OBVIOUS
  <2>2. h[k + 1] = NumeralStep(h[k], k + 1)
    BY <1>1, <2>1
  <2> QED BY <2>2 DEF NumeralStep
<1>3. ASSUME NEW n \in Nat, n >= 10 PROVE n \div 10 \in Nat /\ n \div 10 < n
  BY <1>3
  \* Deep enough is deep enough.
<1> DEFINE Agree(k) == \A n \in 0 .. k : \A i, j \in Nat : i >= k /\ j >= k => h[i + 1][n] = h[j + 1][n]
           S == {k \in Nat : Agree(k)}
<1>4. 0 \in S
  <2>1. ASSUME NEW i \in Nat PROVE h[i + 1][0] = <<Digits[0 + 1]>>
    <3>1. 0 \in Nat /\ 0 < 10
      OBVIOUS
    <3> HIDE DEF Agree
    <3> QED BY <1>2, <3>1, Zenon
  <2>2. \A n \in 0 .. 0 : n = 0
    OBVIOUS
  <2> QED BY <2>1, <2>2
<1>5. ASSUME NEW k \in Nat, k \in S PROVE k + 1 \in S
  <2>1. ASSUME NEW n \in 0 .. k + 1, NEW i \in Nat, NEW j \in Nat, i >= k + 1, j >= k + 1
        PROVE  h[i + 1][n] = h[j + 1][n]
    <3>1. CASE n < 10
      <4>1. n \in Nat
        OBVIOUS
      <4>2. h[i + 1][n] = <<Digits[n + 1]>> /\ h[j + 1][n] = <<Digits[n + 1]>>
        BY <1>2, <3>1, <4>1, Zenon
      <4> QED BY <4>2
    <3>2. CASE n >= 10
      <4>1. n \in Nat /\ n \div 10 \in Nat /\ n \div 10 < n /\ ~(n < 10)
        BY <1>3, <3>2
      <4>2. n \div 10 \in 0 .. k /\ i - 1 \in Nat /\ j - 1 \in Nat /\ i - 1 >= k /\ j - 1 >= k
        BY <2>1, <4>1
      <4>3. h[(i - 1) + 1][n \div 10] = h[(j - 1) + 1][n \div 10]
        BY <1>5, <4>2
      <4>4. (i - 1) + 1 = i /\ (j - 1) + 1 = j
        OBVIOUS
      <4>5. /\ h[i + 1][n] = Append(h[i][n \div 10], Digits[(n % 10) + 1])
            /\ h[j + 1][n] = Append(h[j][n \div 10], Digits[(n % 10) + 1])
        BY <1>2, <4>1
      <4> QED BY <4>3, <4>4, <4>5
    <3> QED BY <3>1, <3>2
  <2> QED BY <2>1
<1>6. \A k \in Nat : Agree(k)
  <2> HIDE DEF Agree
  <2>1. \A k \in Nat : k \in S
    <3> HIDE DEF S
    <3> QED BY <1>4, <1>5, Numerals!NaturalInduction
  <2> QED BY <2>1
<1> DEFINE f == [n \in Nat |-> h[n + 1][n]]
<1>7. ASSUME NEW n \in Nat
      PROVE  f[n] = IF n < 10 THEN <<Digits[n + 1]>>
                    ELSE Append(f[n \div 10], Digits[(n % 10) + 1])
  <2>1. CASE n < 10
    BY <1>2, <2>1
  <2>2. CASE n >= 10
    <3> DEFINE m == n \div 10
    <3>1. m \in Nat /\ m < n /\ ~(n < 10) /\ m \in 0 .. m /\ n - 1 \in Nat /\ n - 1 >= m
      BY <1>3, <2>2
    <3>2. h[(n - 1) + 1][m] = h[m + 1][m] /\ (n - 1) + 1 = n
      <4> HIDE DEF m
      <4>1. Agree(m) /\ m >= m
        <5> HIDE DEF Agree
        <5> QED BY <1>6, <3>1
      <4>2. h[(n - 1) + 1][m] = h[m + 1][m]
        BY <3>1, <4>1
      <4> QED BY <3>1, <4>2
    <3>3. h[n + 1][n] = Append(h[n][m], Digits[(n % 10) + 1])
      BY <1>2, <3>1
    <3>4. f[n] = h[n + 1][n] /\ f[m] = h[m + 1][m]
      BY <3>1
    <3> HIDE DEF f
    <3> QED BY <3>1, <3>2, <3>3, <3>4
  <2> QED BY <2>1, <2>2
<1>8. f = N(f)
  <2>1. f = [n \in Nat |-> f[n]]
    OBVIOUS
  <2> HIDE DEF f
  <2> QED BY <1>7, <2>1
<1>9. Numeral = CHOOSE g : g = N(g)
  BY DEF Numeral
<1> HIDE DEF N, f
<1>10. Numeral = N(Numeral)
  BY <1>8, <1>9
<1> QED BY <1>10 DEF N

(***************************************************************************)
(* One level, one value, one byte at a time.                               *)
(***************************************************************************)
LEMMA LevelAt ==
    /\ Level[0] = Flat(Text)
    /\ \A d \in Nat \ {0} : Level[d] = Nested(Text, Level[d - 1])
BY LevelIs

LEMMA PlainAt ==
    /\ Plain[0] = Flat(Line)
    /\ \A d \in Nat \ {0} : Plain[d] = Nested(Line, Plain[d - 1])
BY PlainIs

LEMMA EncoderAt ==
    ASSUME NEW d \in Nat, NEW x \in Level[d]
    PROVE  Encoder[d][x] = EncodedWith(x, IF d = 0 THEN <<>> ELSE Encoder[d - 1])
<1> DEFINE below == IF d = 0 THEN <<>> ELSE Encoder[d - 1]
<1>1. Encoder[d] = [y \in Level[d] |-> EncodedWith(y, below)]
  BY EncoderIs
<1> HIDE DEF below
<1>2. Encoder[d][x] = EncodedWith(x, below)
  BY <1>1
<1> QED BY <1>2 DEF below

LEMMA ParserAt ==
    ASSUME NEW buf \in Seq(Byte)
    PROVE  /\ Parser[0][buf] = Outcome("partial")
           /\ \A d \in Nat \ {0} : Parser[d][buf] = ParsedWith(buf, Parser[d - 1])
<1>1. \A d \in Nat : Parser[d] = [b \in Seq(Byte) |-> IF d = 0 THEN Outcome("partial")
                                  ELSE ParsedWith(b, Parser[d - 1])]
  BY ParserIs
<1> QED BY <1>1

LEMMA NumeralAt ==
    ASSUME NEW n \in Nat
    PROVE  Numeral[n] = IF n < 10 THEN <<Digits[n + 1]>>
                        ELSE Append(Numeral[n \div 10], Digits[(n % 10) + 1])
BY NumeralIs

(***************************************************************************)
(* Sequences, cut in two.                                                  *)
(***************************************************************************)
LEMMA Pieces ==
    ASSUME NEW S, NEW a \in Seq(S), NEW n \in 0 .. Len(a)
    PROVE  /\ SubSeq(a, 1, n) \in Seq(S) /\ Len(SubSeq(a, 1, n)) = n
           /\ Rest(a, n) \in Seq(S) /\ Len(Rest(a, n)) = Len(a) - n
           /\ a = SubSeq(a, 1, n) \o Rest(a, n)
<1>1. Len(a) \in Nat /\ n \in Int /\ n + 1 \in Int /\ \A i \in 1 .. Len(a) : a[i] \in S
  OBVIOUS
<1>2. /\ SubSeq(a, 1, n) \in Seq(S) /\ Len(SubSeq(a, 1, n)) = n
      /\ \A i \in 1 .. n : SubSeq(a, 1, n)[i] = a[i]
  BY <1>1
<1>3. /\ Rest(a, n) \in Seq(S) /\ Len(Rest(a, n)) = Len(a) - n
      /\ \A i \in 1 .. Len(a) - n : Rest(a, n)[i] = a[n + i]
  BY <1>1 DEF Rest
<1> DEFINE h == SubSeq(a, 1, n)
           t == Rest(a, n)
<1> HIDE DEF h, t
<1>4. h \o t \in Seq(S) /\ Len(h \o t) = Len(a)
  BY <1>1, <1>2, <1>3 DEF h, t
<1>5. ASSUME NEW i \in 1 .. Len(a) PROVE (h \o t)[i] = a[i]
  <2>1. (h \o t)[i] = IF i <= n THEN h[i] ELSE t[i - n]
    <3>1. h \in Seq(S) /\ t \in Seq(S) /\ Len(h) = n /\ i \in 1 .. Len(h) + Len(t)
      BY <1>1, <1>2, <1>3 DEF h, t
    <3>2. (h \o t)[i] = IF i <= Len(h) THEN h[i] ELSE t[i - Len(h)]
      BY <3>1, ConcatProperties, Zenon
    <3> QED BY <3>1, <3>2
  <2>2. CASE i <= n
    BY <1>2, <2>1, <2>2 DEF h
  <2>3. CASE i > n
    <3>1. i - n \in 1 .. Len(a) - n /\ n + (i - n) = i /\ ~(i <= n)
      BY <1>1, <2>3
    <3> QED BY <1>3, <2>1, <3>1 DEF t
  <2>4. i <= n \/ i > n
    BY <1>1
  <2> QED BY <2>2, <2>3, <2>4, Zenon
<1>6. h \o t = a
  BY <1>4, <1>5, SeqEqual
<1> QED BY <1>2, <1>3, <1>6 DEF h, t

LEMMA RestOfConcat ==
    ASSUME NEW S, NEW a \in Seq(S), NEW b \in Seq(S)
    PROVE  /\ SubSeq(a \o b, 1, Len(a)) = a /\ Rest(a \o b, Len(a)) = b
           /\ a \o b \in Seq(S) /\ Len(a \o b) = Len(a) + Len(b)
<1> DEFINE c == a \o b
           m == Len(a)
           n == Len(b)
<1>1. c \in Seq(S) /\ Len(c) = m + n /\ m \in Nat /\ n \in Nat
  BY ConcatProperties
<1>2. \A i \in 1 .. m + n : c[i] = IF i <= m THEN a[i] ELSE b[i - m]
  BY ConcatProperties
<1>3. /\ SubSeq(c, 1, m) \in Seq(S) /\ Len(SubSeq(c, 1, m)) = m
      /\ Rest(c, m) \in Seq(S) /\ Len(Rest(c, m)) = n
  <2> HIDE DEF c, m, n
  <2>1. m \in 0 .. Len(c)
    BY <1>1
  <2> QED BY <1>1, <2>1, Pieces
<1>4. ASSUME NEW i \in 1 .. m PROVE SubSeq(c, 1, m)[i] = a[i]
  <2>1. i \in 1 .. m + n /\ i <= m
    BY <1>1
  <2> HIDE DEF c, m, n
  <2>2. SubSeq(c, 1, m)[i] = c[i]
    BY <1>1
  <2> QED BY <1>2, <2>1, <2>2
<1>5. ASSUME NEW i \in 1 .. n PROVE Rest(c, m)[i] = b[i]
  <2>1. m + i \in 1 .. m + n /\ ~(m + i <= m) /\ (m + i) - m = i
    BY <1>1
  <2> HIDE DEF c, m, n
  <2>2. Rest(c, m)[i] = c[m + i]
    BY <1>1 DEF Rest
  <2> QED BY <1>2, <2>1, <2>2
<1>6. SubSeq(c, 1, m) = a
  <2> HIDE DEF c
  <2> QED BY <1>3, <1>4, SeqEqual
<1>7. Rest(c, m) = b
  <2> HIDE DEF c
  <2> QED BY <1>3, <1>5, SeqEqual
<1> QED BY <1>1, <1>6, <1>7

\* (The provers find instances of a named relation more easily than of an equation.)
Regrouped(a, b, c) == (a \o b) \o c = a \o (b \o c)

LEMMA Regrouping ==
    \A S : \A a, b, c \in Seq(S) : Regrouped(a, b, c)
<1> SUFFICES ASSUME NEW S, NEW a \in Seq(S), NEW b \in Seq(S), NEW c \in Seq(S)
             PROVE  (a \o b) \o c = a \o (b \o c)
  BY DEF Regrouped
<1> QED BY ConcatAssociative

LEMMA FrontOfConcat ==
    ASSUME NEW S, NEW a \in Seq(S), NEW b \in Seq(S)
    PROVE  /\ a \o b \in Seq(S) /\ Len(a \o b) = Len(a) + Len(b)
           /\ Len(a) \in Nat /\ Len(b) \in Nat
           /\ \A i \in 1 .. Len(a) : (a \o b)[i] = a[i]
OBVIOUS

LEMMA CutEarlier ==
    ASSUME NEW S, NEW c \in Seq(S), NEW d \in Seq(S), NEW n \in 0 .. Len(c)
    PROVE  c \o d = SubSeq(c, 1, n) \o (Rest(c, n) \o d)
<1> DEFINE h == SubSeq(c, 1, n)
           q == Rest(c, n)
<1>1. h \in Seq(S) /\ q \in Seq(S) /\ c = h \o q
  BY Pieces
<1> HIDE DEF h, q
<1>2. (h \o q) \o d = h \o (q \o d)
  BY <1>1, ConcatAssociative
<1>3. c \o d = h \o (q \o d)
  BY <1>1, <1>2
<1> QED BY <1>3 DEF h, q

\* Two ways to cut the same sequence: the longer front begins with the shorter one.
CutTwice(S, a, b, c, d) ==
    /\ a \in Seq(S) /\ b \in Seq(S) /\ c \in Seq(S) /\ d \in Seq(S)
    /\ a \o b = c \o d /\ Len(a) <= Len(c)

Between(S, a, b, c, d) ==
    /\ Rest(c, Len(a)) \in Seq(S)
    /\ c = a \o Rest(c, Len(a)) /\ b = Rest(c, Len(a)) \o d

LEMMA TwoCuts ==
    \A S, a, b, c, d : CutTwice(S, a, b, c, d) => Between(S, a, b, c, d)
<1> SUFFICES ASSUME NEW S, NEW a \in Seq(S), NEW b \in Seq(S), NEW c \in Seq(S), NEW d \in Seq(S),
                    a \o b = c \o d, Len(a) <= Len(c)
             PROVE  Between(S, a, b, c, d)
  BY DEF CutTwice
<1> DEFINE h == SubSeq(c, 1, Len(a))
           q == Rest(c, Len(a))
           e == q \o d
<1>1. Len(a) \in 0 .. Len(c)
  OBVIOUS
<1>2. h \in Seq(S) /\ q \in Seq(S) /\ Len(h) = Len(a) /\ c = h \o q
  BY <1>1, Pieces
<1>3. c \o d = h \o e
  BY <1>1, CutEarlier
<1>4. e \in Seq(S)
  BY <1>2, ConcatProperties
<1> HIDE DEF h, q, e
<1>5. SubSeq(a \o b, 1, Len(a)) = a /\ Rest(a \o b, Len(a)) = b
  BY RestOfConcat
<1>6. SubSeq(h \o e, 1, Len(h)) = h /\ Rest(h \o e, Len(h)) = e
  BY <1>2, <1>4, RestOfConcat
<1>7. a = h /\ b = e
  BY <1>2, <1>3, <1>5, <1>6, Zenon
<1> QED BY <1>2, <1>7 DEF e, q, Between

LEMMA SameRest ==
    ASSUME NEW S, NEW a \in Seq(S), NEW b \in Seq(S), NEW c \in Seq(S), a \o b = a \o c
    PROVE  b = c
<1>1. Rest(a \o b, Len(a)) = b
  BY RestOfConcat
<1>2. Rest(a \o c, Len(a)) = c
  BY RestOfConcat
<1> QED BY <1>1, <1>2

(***************************************************************************)
(* Numbers.                                                                *)
(***************************************************************************)
Digit == {Digits[d + 1] : d \in 0 .. 9}

LEMMA DigitFacts ==
    /\ Digit \subseteq Byte /\ ToSet(Digits) = Digit
    /\ \A c \in Digit : c \notin {"+", "-", CR, LF, NotUtf8}
    /\ \A d \in 0 .. 9 : Digits[d + 1] \in Digit
    /\ \A n \in Int : \A d \in 0 .. 9 : Shift(n, Digits[d + 1]) = 10 * n + d
<1>1. \A d \in 0 .. 9 : Digits[d + 1] \in Byte \ {"+", "-", CR, LF, NotUtf8}
  <2> TAKE d \in 0 .. 9
  <2>1. d \in {0, 1, 2, 3, 4, 5, 6, 7, 8, 9}
    OBVIOUS
  <2>2. Digits[d + 1] \in {"0", "1", "2", "3", "4", "5", "6", "7", "8", "9"}
    BY <2>1 DEF Digits
  <2>3. {"0", "1", "2", "3", "4", "5", "6", "7", "8", "9"} \subseteq Byte \ {"+", "-", CR, LF, NotUtf8}
    <3>1. ASSUME NEW c \in {"0", "1", "2", "3", "4", "5", "6", "7", "8", "9"}
          PROVE  c \in Byte /\ c \notin {"+", "-", CR, LF, NotUtf8}
      <4>1. c \in Byte
        BY ByteAssumption DEF Digits, ToSet
      <4>2. c # "+" /\ c # "-" /\ c # CR /\ c # LF /\ c # NotUtf8
        BY DEF CR, LF, NotUtf8
      <4> QED BY <4>1, <4>2
    <3> QED BY <3>1
  <2> QED BY <2>2, <2>3, Zenon
<1>2. ToSet(Digits) = Digit
  <2>1. DOMAIN Digits = 1 .. 10
    BY DEF Digits
  <2>2. \A i \in 1 .. 10 : i - 1 \in 0 .. 9 /\ (i - 1) + 1 = i
    OBVIOUS
  <2>3. \A d \in 0 .. 9 : d + 1 \in 1 .. 10
    OBVIOUS
  <2> QED BY <2>1, <2>2, <2>3 DEF ToSet, Digit
<1>3. ASSUME NEW d \in 0 .. 9, NEW e \in 0 .. 9, Digits[d + 1] = Digits[e + 1] PROVE d = e
  <2>1. d \in {0, 1, 2, 3, 4, 5, 6, 7, 8, 9} /\ e \in {0, 1, 2, 3, 4, 5, 6, 7, 8, 9}
    OBVIOUS
  <2> QED BY <1>3, <2>1 DEF Digits
<1>4. ASSUME NEW n \in Int, NEW d \in 0 .. 9
      PROVE  Shift(n, Digits[d + 1]) = 10 * n + d
  <2> DEFINE e == CHOOSE k \in 0 .. 9 : Digits[k + 1] = Digits[d + 1]
  <2>1. e \in 0 .. 9 /\ Digits[e + 1] = Digits[d + 1]
    OBVIOUS
  <2>2. e = d
    BY <1>3, <2>1
  <2> QED BY <2>2 DEF Shift
<1> QED BY <1>1, <1>2, <1>4 DEF Digit

LEMMA NumeralReads ==
    ASSUME NEW n \in Nat
    PROVE  /\ Numeral[n] \in Seq(Digit) /\ Numeral[n] # <<>>
           /\ Shifts!Left(0, Numeral[n]) = n
<1> DEFINE Good(k) == /\ Numeral[k] \in Seq(Digit) /\ Numeral[k] # <<>>
                      /\ Shifts!Left(0, Numeral[k]) = k
           S == {k \in Nat : \A i \in 0 .. k : Good(i)}
<1>1. ASSUME NEW k \in Nat, k < 10 PROVE Good(k)
  <2>1. Numeral[k] = <<Digits[k + 1]>> /\ k \in 0 .. 9
    <3> HIDE DEF Good
    <3>1. Numeral[k] = IF k < 10 THEN <<Digits[k + 1]>>
                       ELSE Append(Numeral[k \div 10], Digits[(k % 10) + 1])
      BY NumeralAt
    <3>2. k \in 0 .. 9
      BY <1>1
    <3> QED BY <1>1, <3>1, <3>2, Zenon
  <2> DEFINE c == Digits[k + 1]
  <2>2. c \in Digit /\ Shift(0, c) = k
    <3> HIDE DEF Good
    <3>1. 0 \in Int /\ k \in 0 .. 9
      BY <2>1
    <3>2. c \in Digit /\ Shift(0, c) = 10 * 0 + k
      BY <3>1, DigitFacts, Zenon
    <3> QED BY <3>2
  <2> HIDE DEF c
  <2>3. <<>> \in Seq(Digit) /\ <<c>> = Append(<<>>, c) /\ <<c>> \in Seq(Digit) /\ <<c>> # <<>>
    BY <2>2
  <2>4. Shifts!Left(0, Append(<<>>, c)) = Shift(Shifts!Left(0, <<>>), c)
    BY <2>2, <2>3, Shifts!LeftAppend
  <2>5. Shifts!Left(0, <<>>) = 0
    BY Shifts!LeftEmpty
  <2> QED BY <2>1, <2>2, <2>3, <2>4, <2>5 DEF c
<1>2. ASSUME NEW k \in Nat, k >= 10, Good(k \div 10) PROVE Good(k)
  <2> DEFINE m == k \div 10
             r == k % 10
  <2>1. m \in Nat /\ r \in 0 .. 9 /\ 10 * m + r = k /\ ~(k < 10)
    BY <1>2
  <2>2. Numeral[k] = Append(Numeral[m], Digits[r + 1])
    BY <2>1, NumeralAt
  <2>3. Good(m)
    BY <1>2
  <2> HIDE DEF m, r
  <2> DEFINE c == Digits[r + 1]
             s == Numeral[m]
  <2>4. c \in Digit /\ Shift(m, c) = 10 * m + r
    <3> HIDE DEF Good
    <3>1. m \in Int
      BY <2>1
    <3> QED BY <2>1, <3>1, DigitFacts, Zenon
  <2>5. s \in Seq(Digit) /\ Shifts!Left(0, s) = m
    BY <2>3
  <2> HIDE DEF c, s
  <2>6. Shifts!Left(0, Append(s, c)) = Shift(Shifts!Left(0, s), c)
    BY <2>4, <2>5, Shifts!LeftAppend
  <2>7. Append(s, c) \in Seq(Digit) /\ Append(s, c) # <<>>
    BY <2>4, <2>5, AppendProperties
  <2>8. Numeral[k] = Append(s, c)
    BY <2>2 DEF c, s
  <2> QED BY <2>1, <2>4, <2>5, <2>6, <2>7, <2>8
<1> HIDE DEF Good
<1>3. 0 \in S
  <2>1. Good(0) /\ \A i \in 0 .. 0 : i = 0
    BY <1>1
  <2> QED BY <2>1
<1>4. ASSUME NEW k \in Nat, k \in S PROVE k + 1 \in S
  <2>1. ASSUME NEW i \in 0 .. k + 1 PROVE Good(i)
    <3>1. CASE i < 10
      BY <1>1, <3>1
    <3>2. CASE i >= 10
      <4>1. i \in Nat /\ i \div 10 \in 0 .. k
        BY <3>2
      <4>2. Good(i \div 10)
        BY <1>4, <4>1
      <4> QED BY <1>2, <3>2, <4>1, <4>2
    <3> QED BY <3>1, <3>2
  <2> QED BY <2>1
<1>5. n \in S
  <2> HIDE DEF S
  <2> QED BY <1>3, <1>4, Shifts!NaturalInduction
<1>6. Good(n)
  BY <1>5
<1> QED BY <1>6 DEF Good

LEMMA ConstantFacts ==
    I64Max \in Nat \ {0} /\ MaxItems \in 0 .. I64Max /\ MaxDepth \in Nat \ {0} /\ MaxPiece \in Nat \ {0}
BY RespAssumption

LEMMA NumberIs ==
    ASSUME NEW line
    PROVE  Number(line) = IF line[1] = "-" THEN -Shifts!Left(0, Unsigned(line))
                          ELSE Shifts!Left(0, Unsigned(line))
BY ShiftedIs DEF Number

\* What is a numeral behind its sign is read as a number.
LEMMA SignedReads ==
    ASSUME NEW line, NEW k \in Nat, Unsigned(line) = Numeral[k],
           (IF line[1] = "-" THEN -k ELSE k) \in I64
    PROVE  IsNumber(line) /\ Number(line) = IF line[1] = "-" THEN -k ELSE k
<1> DEFINE s == Numeral[k]
<1>1. s \in Seq(Digit) /\ s # <<>> /\ Shifts!Left(0, s) = k
  BY NumeralReads
<1>2. Number(line) = IF line[1] = "-" THEN -k ELSE k
  BY <1>1, NumberIs
<1>3. ToSet(s) \subseteq ToSet(Digits)
  <2> HIDE DEF s
  <2>1. \A i \in DOMAIN s : s[i] \in Digit
    BY <1>1
  <2> QED BY <2>1, DigitFacts DEF ToSet
<1> QED BY <1>1, <1>2, <1>3 DEF IsNumber

LEMMA DecimalReads ==
    ASSUME NEW n \in I64
    PROVE  /\ Decimal(n) \in Seq(Digit \cup {"-"}) /\ Decimal(n) # <<>>
           /\ IsNumber(Decimal(n)) /\ Number(Decimal(n)) = n
<1>1. n \in Int
  BY ConstantFacts DEF I64
<1>2. CASE n >= 0
  <2> DEFINE s == Numeral[n]
  <2>1. n \in Nat /\ ~(n < 0)
    BY <1>1, <1>2
  <2>2. Decimal(n) = s
    BY <2>1 DEF Decimal
  <2>3. s \in Seq(Digit) /\ s # <<>>
    BY <2>1, NumeralReads
  <2>4. s[1] \in Digit
    <3> HIDE DEF s
    <3> QED BY <2>3
  <2>5. s[1] # "-" /\ s[1] # "+"
    BY <2>4, DigitFacts
  <2>6. Unsigned(s) = s
    BY <2>5 DEF Unsigned
  <2>7. s \in Seq(Digit \cup {"-"})
    <3> HIDE DEF s
    <3> QED BY <2>3
  <2>8. IsNumber(s) /\ Number(s) = n
    <3>1. Unsigned(s) = Numeral[n]
      BY <2>6
    <3> HIDE DEF s
    <3> QED BY <2>1, <2>5, <3>1, SignedReads
  <2> HIDE DEF s
  <2> QED BY <2>2, <2>3, <2>7, <2>8
<1>3. CASE n < 0
  <2> DEFINE s == Numeral[-n]
             t == <<"-">> \o s
  <2>1. -n \in Nat /\ -(-n) = n
    BY <1>1, <1>3
  <2>2. Decimal(n) = t
    BY <1>3 DEF Decimal
  <2>3. s \in Seq(Digit) /\ s # <<>>
    BY <2>1, NumeralReads
  <2> HIDE DEF s
  <2>4. t \in Seq(Digit \cup {"-"}) /\ t # <<>> /\ t[1] = "-" /\ Tail(t) = s
    <3> DEFINE D == Digit \cup {"-"}
    <3>1. s \in Seq(D) /\ <<"-">> \in Seq(D) /\ Len(<<"-">>) = 1 /\ <<"-">>[1] = "-"
      BY <2>3
    <3> HIDE DEF D
    <3>2. /\ t \in Seq(D) /\ Len(t) = 1 + Len(s) /\ Len(s) \in Nat
          /\ t[1] = "-" /\ \A i \in 1 .. Len(s) : t[i + 1] = s[i]
      BY <3>1
    <3> HIDE DEF t
    <3>3. t # <<>>
      BY <3>2
    <3>4. Tail(t) \in Seq(D) /\ Len(Tail(t)) = Len(s)
          /\ \A i \in 1 .. Len(s) : Tail(t)[i] = t[i + 1]
      BY <3>2, <3>3
    <3>5. Tail(t) = s
      BY <3>1, <3>2, <3>4, SeqEqual
    <3> QED BY <3>2, <3>3, <3>5 DEF D
  <2> HIDE DEF t
  <2>5. Unsigned(t) = Numeral[-n]
    BY <2>4 DEF Unsigned, s
  <2>6. IsNumber(t) /\ Number(t) = n
    BY <2>1, <2>4, <2>5, SignedReads
  <2> QED BY <2>2, <2>4, <2>6
<1> QED BY <1>1, <1>2, <1>3

LEMMA DecimalIsLine ==
    ASSUME NEW n \in I64
    PROVE  /\ Decimal(n) \in Seq(Byte) /\ LineEnds(Decimal(n)) = {}
<1> DEFINE s == Decimal(n)
<1>1. s \in Seq(Digit \cup {"-"})
  BY DecimalReads
<1> HIDE DEF s
<1>2. Digit \cup {"-"} \subseteq Byte
  BY DigitFacts, ByteAssumption
<1>3. \A i \in 1 .. Len(s) : s[i] \in Digit \cup {"-"}
  BY <1>1
<1>4. \A c \in Digit \cup {"-"} : c # CR
  BY DigitFacts DEF CR
<1>5. s \in Seq(Byte)
  BY <1>1, <1>2
<1>6. LineEnds(s) = {}
  <2>1. \A i \in 1 .. Len(s) - 1 : i \in 1 .. Len(s)
    BY <1>1
  <2> QED BY <1>3, <1>4, <2>1 DEF LineEnds
<1> QED BY <1>5, <1>6 DEF s

(***************************************************************************)
(* The first line of a value, and its end.                                 *)
(***************************************************************************)
Marks == {"+", "-", ":", "$", "*"}

LEMMA ByteFacts ==
    /\ Marks \subseteq Byte /\ CR \in Byte /\ LF \in Byte /\ CR # LF
    /\ \A c \in Marks : c # CR
    /\ Crlf \in Seq(Byte) /\ Len(Crlf) = 2 /\ Crlf[1] = CR /\ Crlf[2] = LF
<1>1. Marks \subseteq Byte /\ CR \in Byte /\ LF \in Byte
  BY ByteAssumption DEF Marks
<1>2. CR # LF /\ \A c \in Marks : c # CR
  BY DEF CR, LF, Marks
<1> QED BY <1>1, <1>2 DEF Crlf

LEMMA HeaderShape ==
    ASSUME NEW c \in Byte, NEW line \in Seq(Byte)
    PROVE  /\ Header(c, line) \in Seq(Byte) /\ Len(Header(c, line)) = Len(line) + 3
           /\ Header(c, line)[1] = c
           /\ \A i \in 1 .. Len(line) : Header(c, line)[i + 1] = line[i]
           /\ Header(c, line)[Len(line) + 2] = CR /\ Header(c, line)[Len(line) + 3] = LF
<1> DEFINE n == Len(line)
           a == <<c>> \o line
           h == a \o Crlf
<1>1. n \in Nat /\ <<c>> \in Seq(Byte) /\ Len(<<c>>) = 1 /\ <<c>>[1] = c
  OBVIOUS
<1>2. /\ a \in Seq(Byte) /\ Len(a) = n + 1 /\ a[1] = c
      /\ \A i \in 1 .. n : a[i + 1] = line[i]
  BY <1>1
<1> HIDE DEF a
<1>3. /\ h \in Seq(Byte) /\ Len(h) = n + 3
      /\ \A i \in 1 .. n + 1 : h[i] = a[i]
      /\ h[n + 2] = CR /\ h[n + 3] = LF
  <2> DEFINE e == Crlf
  <2>1. e \in Seq(Byte) /\ Len(e) = 2 /\ e[1] = CR /\ e[2] = LF
    BY ByteFacts
  <2> HIDE DEF e
  <2>2. /\ a \o e \in Seq(Byte) /\ Len(a \o e) = (n + 1) + 2
        /\ \A i \in 1 .. (n + 1) + 2 : (a \o e)[i] = IF i <= n + 1 THEN a[i] ELSE e[i - (n + 1)]
    <3>1. Len(a) = n + 1 /\ Len(e) = 2 /\ a \in Seq(Byte) /\ e \in Seq(Byte)
      BY <1>2, <2>1
    <3>2. /\ a \o e \in Seq(Byte) /\ Len(a \o e) = Len(a) + Len(e)
          /\ \A i \in 1 .. Len(a) + Len(e) : (a \o e)[i] = IF i <= Len(a) THEN a[i] ELSE e[i - Len(a)]
      BY <3>1, ConcatProperties
    <3> QED BY <3>1, <3>2, Zenon
  <2>3. /\ n + 2 \in 1 .. (n + 1) + 2 /\ ~(n + 2 <= n + 1) /\ (n + 2) - (n + 1) = 1
        /\ n + 3 \in 1 .. (n + 1) + 2 /\ ~(n + 3 <= n + 1) /\ (n + 3) - (n + 1) = 2
        /\ \A i \in 1 .. n + 1 : i \in 1 .. (n + 1) + 2 /\ i <= n + 1
        /\ (n + 1) + 2 = n + 3
    BY <1>1
  <2>4. \A i \in 1 .. n + 1 : (a \o e)[i] = a[i]
    BY <2>2, <2>3, Zenon
  <2>5. (a \o e)[n + 2] = CR /\ (a \o e)[n + 3] = LF
    BY <2>1, <2>2, <2>3
  <2> QED BY <2>2, <2>3, <2>4, <2>5 DEF e
<1>4. Header(c, line) = h
  BY DEF Header, a
<1> HIDE DEF h
<1>5. h[1] = c /\ \A i \in 1 .. n : h[i + 1] = line[i]
  <2>1. 1 \in 1 .. n + 1 /\ \A i \in 1 .. n : i + 1 \in 1 .. n + 1
    BY <1>1
  <2> QED BY <1>2, <1>3, <2>1
<1> QED BY <1>3, <1>4, <1>5

LEMMA HeaderPairs ==
    ASSUME NEW c \in Byte, c # CR, NEW line \in Seq(Byte), LineEnds(line) = {},
           NEW i \in 1 .. Len(line) + 1
    PROVE  ~(Header(c, line)[i] = CR /\ Header(c, line)[i + 1] = LF)
<1> DEFINE h == Header(c, line)
           n == Len(line)
<1> SUFFICES ~(h[i] = CR /\ h[i + 1] = LF)
  OBVIOUS
<1>1. h[1] = c /\ (\A k \in 1 .. n : h[k + 1] = line[k]) /\ h[n + 2] = CR
  BY HeaderShape, Zenon
<1>2. n \in Nat /\ \A k \in 1 .. n - 1 : ~(line[k] = CR /\ line[k + 1] = LF)
  <2> HIDE DEF h
  <2>1. n \in Nat
    OBVIOUS
  <2>2. {k \in 1 .. n - 1 : line[k] = CR /\ line[k + 1] = LF} = {}
    BY DEF LineEnds
  <2> HIDE DEF n
  <2> QED BY <2>1, <2>2
<1>6. i \in 1 .. n + 1
  OBVIOUS
<1> HIDE DEF h, n
<1>3. CASE i = 1
  BY <1>1, <1>3
<1>4. CASE i = n + 1
  <2>1. i + 1 = n + 2
    BY <1>2, <1>4
  <2> QED BY <1>1, <2>1, ByteFacts
<1>5. CASE i # 1 /\ i # n + 1
  <2>1. /\ i - 1 \in 1 .. n - 1 /\ i - 1 \in 1 .. n /\ (i - 1) + 1 = i
        /\ i \in 1 .. n
    BY <1>2, <1>5, <1>6
  <2>2. h[i] = line[i - 1] /\ h[i + 1] = line[i]
    BY <1>1, <2>1
  <2>3. ~(line[i - 1] = CR /\ line[i] = LF)
    BY <1>2, <2>1
  <2> QED BY <2>2, <2>3
<1> QED BY <1>3, <1>4, <1>5

LEMMA HeaderEnds ==
    ASSUME NEW c \in Byte, c # CR, NEW line \in Seq(Byte), LineEnds(line) = {},
           NEW rest \in Seq(Byte)
    PROVE  LET buf == Header(c, line) \o rest
           IN /\ buf \in Seq(Byte) /\ buf[1] = c
              /\ LineEnds(buf) # {} /\ Min(LineEnds(buf)) = Len(line) + 2
              /\ SubSeq(buf, 2, (Len(line) + 2) - 1) = line
<1> DEFINE h == Header(c, line)
           n == Len(line)
           buf == h \o rest
<1>0. n \in Nat
  OBVIOUS
<1>1. /\ n \in Nat /\ h \in Seq(Byte) /\ Len(h) = n + 3 /\ h[1] = c
      /\ (\A k \in 1 .. n : h[k + 1] = line[k])
      /\ h[n + 2] = CR /\ h[n + 3] = LF
  BY <1>0, HeaderShape, Zenon
<1>2. \A i \in 1 .. n + 1 : ~(h[i] = CR /\ h[i + 1] = LF)
  BY HeaderPairs
<1> HIDE DEF h, n
<1>3. /\ buf \in Seq(Byte) /\ Len(buf) = (n + 3) + Len(rest) /\ Len(rest) \in Nat
      /\ \A i \in 1 .. n + 3 : buf[i] = h[i]
  <2>1. /\ buf \in Seq(Byte) /\ Len(buf) = Len(h) + Len(rest) /\ Len(rest) \in Nat
        /\ \A i \in 1 .. Len(h) : buf[i] = h[i]
    BY <1>1, FrontOfConcat
  <2> HIDE DEF buf
  <2> QED BY <1>1, <2>1, Zenon
<1> HIDE DEF buf
<1>4. n + 2 \in LineEnds(buf)
  <2>1. n + 2 \in 1 .. Len(buf) - 1 /\ n + 2 \in 1 .. n + 3 /\ n + 3 \in 1 .. n + 3
        /\ (n + 2) + 1 = n + 3
    BY <1>1, <1>3
  <2> QED BY <1>1, <1>3, <2>1 DEF LineEnds
<1>5. ASSUME NEW i \in LineEnds(buf) PROVE i \in Nat /\ n + 2 <= i
  <2>1. i \in 1 .. Len(buf) - 1 /\ buf[i] = CR /\ buf[i + 1] = LF
    BY DEF LineEnds
  <2>2. CASE i < n + 2
    <3>1. i \in 1 .. n + 1 /\ i \in 1 .. n + 3 /\ i + 1 \in 1 .. n + 3
      BY <1>1, <1>3, <2>1, <2>2
    <3> QED BY <1>2, <1>3, <2>1, <3>1
  <2> QED BY <1>1, <1>3, <2>1, <2>2
<1>6. Min(LineEnds(buf)) = n + 2
  <2>1. \E x \in LineEnds(buf) : \A y \in LineEnds(buf) : x <= y
    BY <1>4, <1>5
  <2> DEFINE m == CHOOSE x \in LineEnds(buf) : \A y \in LineEnds(buf) : x <= y
  <2>2. m \in LineEnds(buf) /\ m <= n + 2
    BY <1>4, <2>1
  <2>3. m = n + 2
    <3> HIDE DEF m
    <3> QED BY <1>1, <1>5, <2>2
  <2> QED BY <2>3 DEF Min
<1>7. SubSeq(buf, 2, n + 1) = line
  <2>1. \A i \in 2 .. n + 1 : buf[i] \in Byte
    BY <1>1, <1>3
  <2>2. 2 \in Int /\ n + 1 \in Int /\ (n + 1) - 2 + 1 = n
    BY <1>1
  <2>3. /\ SubSeq(buf, 2, n + 1) \in Seq(Byte) /\ Len(SubSeq(buf, 2, n + 1)) = n
        /\ \A i \in 1 .. n : SubSeq(buf, 2, n + 1)[i] = buf[2 + i - 1]
    <3> DEFINE k == n + 1
    <3>1. k \in Int /\ k - 2 + 1 = n /\ (IF 2 <= k THEN k - 2 + 1 ELSE 0) = n
      BY <1>1
    <3> HIDE DEF k
    <3>2. /\ SubSeq(buf, 2, k) \in Seq(Byte)
          /\ Len(SubSeq(buf, 2, k)) = IF 2 <= k THEN k - 2 + 1 ELSE 0
          /\ \A i \in 1 .. k - 2 + 1 : SubSeq(buf, 2, k)[i] = buf[2 + i - 1]
      BY <2>1, <3>1, SubSeqProperties DEF k
    <3> QED BY <3>1, <3>2 DEF k
  <2>4. \A i \in 1 .. n : buf[2 + i - 1] = line[i]
    <3> TAKE i \in 1 .. n
    <3>1. 2 + i - 1 = i + 1 /\ i + 1 \in 1 .. n + 3
      BY <1>1
    <3> QED BY <1>1, <1>3, <3>1
  <2>5. line \in Seq(Byte) /\ Len(line) = n
    BY DEF n
  <2> HIDE DEF n
  <2> QED BY <2>3, <2>4, <2>5, SeqEqual
<1>8. buf[1] = c /\ (n + 2) - 1 = n + 1
  <2>1. 1 \in 1 .. n + 3
    BY <1>1
  <2> QED BY <1>1, <1>3, <2>1
<1> QED BY <1>3, <1>4, <1>6, <1>7, <1>8 DEF buf, h, n

LEMMA HeaderCut ==
    ASSUME NEW c \in Byte, c # CR, NEW line \in Seq(Byte), LineEnds(line) = {},
           NEW p \in Seq(Byte), NEW q \in Seq(Byte), q # <<>>, p \o q = Header(c, line)
    PROVE  LineEnds(p) = {}
<1> DEFINE h == Header(c, line)
           n == Len(line)
<1>1. n \in Nat /\ Len(h) = n + 3
  <2>1. Len(Header(c, line)) = Len(line) + 3
    BY HeaderShape, Zenon
  <2> QED BY <2>1
<1>2. \A i \in 1 .. n + 1 : ~(h[i] = CR /\ h[i + 1] = LF)
  BY HeaderPairs
<1>3. Len(p) \in Nat /\ Len(q) \in Nat \ {0} /\ Len(h) = Len(p) + Len(q)
      /\ \A i \in 1 .. Len(p) : h[i] = p[i]
  <2>1. \A i \in 1 .. Len(p) : (p \o q)[i] = p[i]
    OBVIOUS
  <2>2. Len(p \o q) = Len(p) + Len(q) /\ Len(q) \in Nat \ {0} /\ Len(p) \in Nat
    OBVIOUS
  <2> QED BY <2>1, <2>2
<1> HIDE DEF h
<1>4. ASSUME NEW i \in 1 .. Len(p) - 1, p[i] = CR, p[i + 1] = LF PROVE FALSE
  <2>1. i \in 1 .. n + 1 /\ i \in 1 .. Len(p) /\ i + 1 \in 1 .. Len(p)
    BY <1>1, <1>3
  <2> QED BY <1>2, <1>3, <1>4, <2>1
<1> QED BY <1>4 DEF LineEnds

LEMMA OpensAfterHeader ==
    ASSUME NEW c \in Marks, NEW line \in Seq(Byte), LineEnds(line) = {},
           NEW rest \in Seq(Byte), NEW parse
    PROVE  LET buf == Header(c, line) \o rest
           IN /\ ParsedWith(buf, parse) = Opened(buf, line, Len(line) + 3, parse)
              /\ buf[1] = c /\ buf \in Seq(Byte) /\ Len(buf) = Len(line) + 3 + Len(rest)
<1> DEFINE buf == Header(c, line) \o rest
           n == Len(line)
<1>1. c \in Byte /\ c # CR /\ n \in Nat
  BY ByteFacts
<1>2. /\ buf \in Seq(Byte) /\ buf[1] = c
      /\ LineEnds(buf) # {} /\ Min(LineEnds(buf)) = n + 2
      /\ SubSeq(buf, 2, (n + 2) - 1) = line
  BY <1>1, HeaderEnds
<1>3. Len(buf) = n + 3 + Len(rest)
  <2> DEFINE h == Header(c, line)
  <2>1. h \in Seq(Byte) /\ Len(h) = n + 3
    BY <1>1, HeaderShape
  <2> HIDE DEF h
  <2>2. Len(h \o rest) = Len(h) + Len(rest)
    BY <2>1, FrontOfConcat
  <2> QED BY <2>1, <2>2 DEF h
<1>4. ParsedWith(buf, parse) = Opened(buf, line, n + 3, parse)
  <2> HIDE DEF buf, n
  <2>1. n + 2 # 1 /\ (n + 2) + 1 = n + 3
    BY <1>1
  <2> QED BY <1>2, <2>1 DEF ParsedWith
<1> QED BY <1>2, <1>3, <1>4

\* Each kind of value, once its first line is there.
LEMMA OpensText ==
    ASSUME NEW buf, buf[1] \in {"+", "-"}, NEW line \in Line, NEW after, NEW parse
    PROVE  Opened(buf, line, after, parse)
             = Parsed(Value(IF buf[1] = "+" THEN "simple" ELSE "error", line), after)
BY DEF Opened, Line, Text

LEMMA OpensInt ==
    ASSUME NEW buf, buf[1] = ":", NEW line, IsNumber(line), NEW after, NEW parse
    PROVE  Opened(buf, line, after, parse) = Parsed(Value("int", <<Number(line)>>), after)
BY DEF Opened

LEMMA OpensNull ==
    ASSUME NEW buf, buf[1] = "$", NEW line, IsNumber(line), Number(line) = -1, NEW after, NEW parse
    PROVE  Opened(buf, line, after, parse) = Parsed(Null, after)
BY DEF Opened

LEMMA OpensArray ==
    ASSUME NEW buf, buf[1] = "*", NEW line, IsNumber(line), NEW n \in 0 .. MaxItems,
           Number(line) = n, NEW after, NEW parse
    PROVE  Opened(buf, line, after, parse) = Elements(buf, after, n, parse)
BY ConstantFacts DEF Opened

(***************************************************************************)
(* A cut within a value: in its first line, or behind it.                  *)
(***************************************************************************)
LEMMA CutInHeader ==
    ASSUME NEW c \in Marks, NEW line \in Seq(Byte), LineEnds(line) = {}, NEW body \in Seq(Byte),
           NEW p \in Seq(Byte), NEW q \in Seq(Byte), p \o q = Header(c, line) \o body,
           Len(p) < Len(line) + 3, NEW parse
    PROVE  ParsedWith(p, parse) = Outcome("partial")
<1> DEFINE h == Header(c, line)
<1>1. c \in Byte /\ c # CR
  BY ByteFacts
<1>2. h \in Seq(Byte) /\ Len(h) = Len(line) + 3
  BY <1>1, HeaderShape
<1> DEFINE r == Rest(h, Len(p))
<1>3. r \in Seq(Byte) /\ h = p \o r
  <2> HIDE DEF h
  <2>1. CutTwice(Byte, p, q, h, body)
    BY <1>2 DEF CutTwice, h
  <2>2. Between(Byte, p, q, h, body)
    BY <2>1, TwoCuts, Zenon
  <2> QED BY <2>2 DEF Between
<1> HIDE DEF r
<1>5. r # <<>>
  <2> SUFFICES ASSUME r = <<>> PROVE FALSE
    OBVIOUS
  <2> HIDE DEF h
  <2>1. p \o r = p
    BY ConcatEmptySeq
  <2>2. h = p
    BY <1>3, <2>1
  <2> QED BY <1>2, <2>2
<1>6. LineEnds(p) = {}
  BY <1>1, <1>3, <1>5, HeaderCut
<1> QED BY <1>6 DEF ParsedWith

LEMMA Middle ==
    ASSUME NEW S, NEW a \in Seq(S), NEW b \in Seq(S), NEW t \in Seq(S)
    PROVE  SubSeq(a \o (b \o t), Len(a) + 1, Len(a) + Len(b)) = b
<1> DEFINE m == Len(a)
           n == Len(b)
           e == b \o t
           c == a \o e
<1>1. m \in Nat /\ n \in Nat /\ e \in Seq(S) /\ Len(e) = n + Len(t) /\ Len(t) \in Nat
      /\ \A i \in 1 .. n : e[i] = b[i]
  BY FrontOfConcat
<1> HIDE DEF e
<1>2. c \in Seq(S) /\ Len(c) = m + Len(e) /\ \A i \in 1 .. Len(e) : c[m + i] = e[i]
  <2>1. c \in Seq(S) /\ Len(c) = Len(a) + Len(e)
        /\ \A i \in 1 .. Len(a) + Len(e) : c[i] = IF i <= Len(a) THEN a[i] ELSE e[i - Len(a)]
    <3> HIDE DEF m, n
    <3>1. e \in Seq(S)
      BY <1>1
    <3> QED BY <3>1, ConcatProperties
  <2> HIDE DEF c
  <2>2. ASSUME NEW i \in 1 .. Len(e) PROVE c[m + i] = e[i]
    <3>1. Len(e) \in Nat /\ m + i \in 1 .. m + Len(e) /\ ~(m + i <= m) /\ (m + i) - m = i
      BY <1>1
    <3> QED BY <2>1, <3>1
  <2> QED BY <2>1, <2>2
<1> HIDE DEF c
<1>3. \A i \in 1 .. n : c[m + i] = b[i]
  <2> HIDE DEF m, n
  <2>1. \A i \in 1 .. n : i \in 1 .. Len(e)
    BY <1>1
  <2> QED BY <1>1, <1>2, <2>1
<1>4. \A i \in m + 1 .. m + n : c[i] \in S
  <2> HIDE DEF m, n
  <2>1. \A i \in m + 1 .. m + n : i \in 1 .. Len(c)
    BY <1>1, <1>2
  <2> QED BY <1>2, <2>1
<1>5. /\ SubSeq(c, m + 1, m + n) \in Seq(S) /\ Len(SubSeq(c, m + 1, m + n)) = n
      /\ \A i \in 1 .. n : SubSeq(c, m + 1, m + n)[i] = c[m + i]
  <2> DEFINE k == m + 1
             l == m + n
  <2>1. k \in Int /\ l \in Int /\ l - k + 1 = n /\ (IF k <= l THEN l - k + 1 ELSE 0) = n
        /\ \A i \in 1 .. n : k + i - 1 = m + i
    <3> HIDE DEF m, n
    <3> QED BY <1>1
  <2> HIDE DEF k, l, m, n
  <2>2. /\ SubSeq(c, k, l) \in Seq(S) /\ Len(SubSeq(c, k, l)) = IF k <= l THEN l - k + 1 ELSE 0
        /\ \A i \in 1 .. l - k + 1 : SubSeq(c, k, l)[i] = c[k + i - 1]
    <3>1. \A i \in k .. l : c[i] \in S
      BY <1>4 DEF k, l
    <3> QED BY <2>1, <3>1, SubSeqProperties
  <2>3. \A i \in 1 .. n : SubSeq(c, k, l)[i] = c[m + i]
    BY <2>1, <2>2
  <2> QED BY <2>1, <2>2, <2>3 DEF k, l
<1>6. SubSeq(c, m + 1, m + n) = b
  <2> DEFINE u == SubSeq(c, m + 1, m + n)
  <2>1. u \in Seq(S) /\ Len(u) = n /\ \A i \in 1 .. n : u[i] = b[i]
    BY <1>3, <1>5
  <2> HIDE DEF u
  <2> QED BY <2>1, SeqEqual DEF u
<1> QED BY <1>6 DEF c, e

(***************************************************************************)
(* Values that hold no others.                                             *)
(***************************************************************************)

\* The bytes e are read as x whatever follows them, and waited for while any is missing.
Reads(x, e, parse) ==
    /\ e \in Seq(Byte) /\ e # <<>>
    /\ \A rest \in Seq(Byte) : ParsedWith(e \o rest, parse) = Parsed(x, Len(e))
    /\ \A p, q \in Seq(Byte) :
          p \o q = e /\ q # <<>> => ParsedWith(p, parse) = Outcome("partial")

LEMMA HeaderReads ==
    ASSUME NEW c \in Marks, NEW line \in Seq(Byte), LineEnds(line) = {}, NEW x, NEW parse,
           \A buf : buf[1] = c =>
              Opened(buf, line, Len(line) + 3, parse) = Parsed(x, Len(line) + 3)
    PROVE  Reads(x, Header(c, line), parse)
<1> DEFINE h == Header(c, line)
<1>1. h \in Seq(Byte) /\ Len(h) = Len(line) + 3 /\ h # <<>>
  <2>1. h \in Seq(Byte) /\ Len(h) = Len(line) + 3
    BY ByteFacts, HeaderShape
  <2> HIDE DEF h
  <2> QED BY <2>1
<1>2. ASSUME NEW rest \in Seq(Byte) PROVE ParsedWith(h \o rest, parse) = Parsed(x, Len(h))
  <2>1. /\ ParsedWith(h \o rest, parse) = Opened(h \o rest, line, Len(line) + 3, parse)
        /\ (h \o rest)[1] = c
    <3>1. ParsedWith(h \o rest, parse) = Opened(h \o rest, line, Len(line) + 3, parse)
      BY OpensAfterHeader
    <3>2. (h \o rest)[1] = c
      BY OpensAfterHeader
    <3> QED BY <3>1, <3>2
  <2> HIDE DEF h
  <2> QED BY <1>1, <2>1
<1>3. ASSUME NEW p \in Seq(Byte), NEW q \in Seq(Byte), p \o q = h, q # <<>>
      PROVE  ParsedWith(p, parse) = Outcome("partial")
  <2>1. h = h \o <<>> /\ <<>> \in Seq(Byte)
    <3> HIDE DEF h
    <3> QED BY <1>1
  <2>2. Len(p) < Len(line) + 3
    <3> HIDE DEF h
    <3>1. Len(p \o q) = Len(p) + Len(q) /\ Len(p) \in Nat /\ Len(q) \in Nat
      BY FrontOfConcat
    <3>2. Len(q) # 0
      BY <1>3
    <3> QED BY <1>1, <1>3, <3>1, <3>2
  <2>3. p \o q = h \o <<>>
    BY <1>3, <2>1, Zenon
  <2> QED BY <2>1, <2>2, <2>3, CutInHeader
<1> HIDE DEF h
<1>4. Reads(x, h, parse)
  BY <1>1, <1>2, <1>3, Zenon DEF Reads
<1> QED BY <1>4 DEF h

LEMMA TextReads ==
    ASSUME NEW x \in [t : {"simple", "error"}, v : Line], NEW encode, NEW parse
    PROVE  Reads(x, EncodedWith(x, encode), parse)
<1> DEFINE c == IF x.t = "simple" THEN "+" ELSE "-"
<1>1. x.t \in {"simple", "error"} /\ x.v \in Line /\ x = Value(x.t, x.v)
  BY DEF Value
<1>2. x.v \in Seq(Byte) /\ LineEnds(x.v) = {}
  BY <1>1 DEF Line, Text
<1>3. c \in Marks /\ c \in {"+", "-"} /\ (IF c = "+" THEN "simple" ELSE "error") = x.t
  BY <1>1 DEF Marks
<1>4. EncodedWith(x, encode) = Header(c, x.v)
  BY <1>1 DEF EncodedWith
<1> HIDE DEF c
<1>5. ASSUME NEW buf, buf[1] = c
      PROVE  Opened(buf, x.v, Len(x.v) + 3, parse) = Parsed(x, Len(x.v) + 3)
  <2>1. Opened(buf, x.v, Len(x.v) + 3, parse)
           = Parsed(Value(IF buf[1] = "+" THEN "simple" ELSE "error", x.v), Len(x.v) + 3)
    BY <1>1, <1>3, <1>5, OpensText
  <2>2. Value(IF buf[1] = "+" THEN "simple" ELSE "error", x.v) = x
    BY <1>1, <1>3, <1>5
  <2> QED BY <2>1, <2>2
<1>6. Reads(x, Header(c, x.v), parse)
  BY <1>2, <1>3, <1>5, HeaderReads
<1> QED BY <1>4, <1>6

LEMMA IntReads ==
    ASSUME NEW x \in [t : {"int"}, v : [1 .. 1 -> I64]], NEW encode, NEW parse
    PROVE  Reads(x, EncodedWith(x, encode), parse)
<1> DEFINE n == x.v[1]
           line == Decimal(n)
<1>1. x.t = "int" /\ x.v \in [1 .. 1 -> I64] /\ x = Value("int", x.v)
  BY DEF Value
<1>2. n \in I64 /\ x.v = <<n>>
  BY <1>1
<1>3. EncodedWith(x, encode) = Header(":", line)
  BY <1>1 DEF EncodedWith
<1> HIDE DEF n
<1>4. line \in Seq(Byte) /\ LineEnds(line) = {} /\ IsNumber(line) /\ Number(line) = n
  BY <1>2, DecimalReads, DecimalIsLine
<1> HIDE DEF line
<1>5. ASSUME NEW buf, buf[1] = ":"
      PROVE  Opened(buf, line, Len(line) + 3, parse) = Parsed(x, Len(line) + 3)
  <2>1. Opened(buf, line, Len(line) + 3, parse) = Parsed(Value("int", <<Number(line)>>), Len(line) + 3)
    BY <1>4, <1>5, OpensInt
  <2>2. Value("int", <<Number(line)>>) = x
    BY <1>1, <1>2, <1>4
  <2> QED BY <2>1, <2>2
<1>6. ":" \in Marks
  BY DEF Marks
<1>7. Reads(x, Header(":", line), parse)
  BY <1>4, <1>5, <1>6, HeaderReads
<1> QED BY <1>3, <1>7

LEMMA NullReads ==
    ASSUME NEW encode, NEW parse
    PROVE  Reads(Null, EncodedWith(Null, encode), parse)
<1> DEFINE line == <<"-", "1">>
<1>1. EncodedWith(Null, encode) = Header("$", line)
  BY DEF EncodedWith, Null, Value
<1> DEFINE m == -1
<1>2. m \in Int /\ m + 1 = 0
  OBVIOUS
<1> HIDE DEF m
<1>3. line = Decimal(m) /\ m \in I64
  <2>1. Numeral[1] = <<Digits[2]>>
    <3>1. 1 < 10 /\ 1 \in Nat /\ 1 + 1 = 2
      OBVIOUS
    <3> QED BY <3>1, NumeralAt
  <2>2. Digits[2] = "1"
    BY DEF Digits
  <2>3. m < 0 /\ -m = 1
    BY <1>2
  <2>4. Decimal(m) = <<"-">> \o Numeral[1]
    BY <2>3 DEF Decimal
  <2>5. <<"-">> \o <<"1">> = line
    <3> DEFINE a == <<"-">> \o <<"1">>
    <3>1. a \in Seq({"-", "1"}) /\ Len(a) = 2 /\ a[1] = "-" /\ a[2] = "1"
      OBVIOUS
    <3>2. line \in Seq({"-", "1"}) /\ Len(line) = 2 /\ line[1] = "-" /\ line[2] = "1"
      OBVIOUS
    <3> HIDE DEF a, line
    <3>3. a = line
      BY <3>1, <3>2, SeqEqual
    <3> QED BY <3>3 DEF a
  <2>6. m \in I64
    BY <1>2, ConstantFacts DEF I64
  <2> QED BY <2>1, <2>2, <2>4, <2>5, <2>6
<1> HIDE DEF line
<1>4. line \in Seq(Byte) /\ LineEnds(line) = {} /\ IsNumber(line) /\ Number(line) = -1
  BY <1>3, DecimalReads, DecimalIsLine DEF m
<1>5. "$" \in Marks
  BY DEF Marks
<1>6. ASSUME NEW buf, buf[1] = "$"
      PROVE  Opened(buf, line, Len(line) + 3, parse) = Parsed(Null, Len(line) + 3)
  BY <1>4, <1>6, OpensNull
<1>7. Reads(Null, Header("$", line), parse)
  BY <1>4, <1>5, <1>6, HeaderReads
<1> QED BY <1>1, <1>7

LEMMA BulkReads ==
    ASSUME NEW x \in [t : {"bulk"}, v : AtMost(I64Max, Byte)], NEW encode, NEW parse
    PROVE  Reads(x, EncodedWith(x, encode), parse)
<1> DEFINE v == x.v
           n == Len(v)
           line == Decimal(n)
           h == Header("$", line)
           tail == v \o Crlf
           e == h \o v \o Crlf
<1>1. x.t = "bulk" /\ v \in Seq(Byte) /\ n \in 0 .. I64Max /\ x = Value("bulk", v)
  <2>1. x.t = "bulk" /\ v \in AtMost(I64Max, Byte) /\ x = Value("bulk", v)
    BY DEF Value
  <2> HIDE DEF v
  <2> QED BY <2>1 DEF AtMost
<1>2. EncodedWith(x, encode) = e
  BY <1>1 DEF EncodedWith
<1> HIDE DEF v
<1>3. n \in Nat /\ n \in I64
  BY <1>1, ConstantFacts DEF I64
<1> HIDE DEF n
<1>4. line \in Seq(Byte) /\ LineEnds(line) = {} /\ IsNumber(line) /\ Number(line) = n
  BY <1>3, DecimalReads, DecimalIsLine
<1>5. "$" \in Marks
  BY DEF Marks
<1> HIDE DEF line
<1> DEFINE m == Len(line) + 3
<1>6. h \in Seq(Byte) /\ Len(h) = m /\ m \in Nat
  BY <1>4, <1>5, ByteFacts, HeaderShape
<1>7. tail \in Seq(Byte) /\ Len(tail) = n + 2
  <2>1. v \in Seq(Byte) /\ Crlf \in Seq(Byte) /\ Len(Crlf) = 2
    BY <1>1, ByteFacts
  <2>2. tail \in Seq(Byte) /\ Len(tail) = Len(v) + Len(Crlf)
    BY <2>1, FrontOfConcat
  <2> QED BY <2>1, <2>2 DEF n
<1>8. e = h \o tail
  <2> HIDE DEF h
  <2>1. h \in Seq(Byte) /\ v \in Seq(Byte) /\ Crlf \in Seq(Byte)
    BY <1>1, <1>6, ByteFacts
  <2>2. (h \o v) \o Crlf = h \o (v \o Crlf)
    BY <2>1, ConcatAssociative
  <2> QED BY <2>2, Zenon
<1>9. e \in Seq(Byte) /\ Len(e) = m + n + 2 /\ e # <<>>
  <2> HIDE DEF h, tail, e, m
  <2>1. e \in Seq(Byte) /\ Len(e) = m + (n + 2)
    <3>1. h \in Seq(Byte) /\ tail \in Seq(Byte)
      BY <1>6, <1>7
    <3>2. h \o tail \in Seq(Byte) /\ Len(h \o tail) = Len(h) + Len(tail)
      BY <3>1, FrontOfConcat
    <3> QED BY <1>6, <1>7, <1>8, <3>2
  <2> QED BY <1>3, <1>6, <2>1
  \* The bytes behind the first line, for a buffer that holds it.
<1>10. ASSUME NEW r \in Seq(Byte)
       PROVE  /\ ParsedWith(h \o r, parse) =
                    IF Len(h \o r) < m + n + 2 THEN Outcome("partial")
                    ELSE Parsed(Value("bulk", SubSeq(h \o r, m + 1, m + n)), m + n + 2)
  <2>1. ParsedWith(h \o r, parse) = Opened(h \o r, line, m, parse)
    BY <1>4, <1>5, OpensAfterHeader
  <2>2. (h \o r)[1] = "$"
    BY <1>4, <1>5, OpensAfterHeader
  <2> DEFINE buf == h \o r
  <2> HIDE DEF h, m, buf
  <2>3. Opened(buf, line, m, parse) =
           IF Len(buf) < m + n + 2 THEN Outcome("partial")
           ELSE Parsed(Value("bulk", SubSeq(buf, m + 1, m + n)), m + n + 2)
    <3>1. buf[1] = "$" /\ IsNumber(line) /\ n \in Nat /\ Number(line) = n
      BY <1>3, <1>4, <2>2 DEF buf
    <3> QED BY <3>1 DEF Opened, WithEnd
  <2> QED BY <2>1, <2>3, Zenon DEF buf
<1>11. ASSUME NEW rest \in Seq(Byte) PROVE ParsedWith(e \o rest, parse) = Parsed(x, Len(e))
  <2> DEFINE end == Crlf \o rest
             r == v \o end
  <2> HIDE DEF h, m
  <2>1. end \in Seq(Byte)
    BY ByteFacts, FrontOfConcat
  <2>2. tail \o rest = r
    <3>1. v \in Seq(Byte) /\ Crlf \in Seq(Byte) /\ rest \in Seq(Byte)
      BY <1>1, ByteFacts
    <3>2. (v \o Crlf) \o rest = v \o (Crlf \o rest)
      BY <3>1, ConcatAssociative
    <3> QED BY <3>2, Zenon
  <2>3. e \o rest = h \o r
    <3> HIDE DEF tail, e, r
    <3>1. h \in Seq(Byte) /\ tail \in Seq(Byte) /\ rest \in Seq(Byte)
      BY <1>6, <1>7
    <3>2. (h \o tail) \o rest = h \o (tail \o rest)
      BY <3>1, ConcatAssociative
    <3> QED BY <1>8, <2>2, <3>2, Zenon
  <2> HIDE DEF tail, e, end
  <2>4. r \in Seq(Byte)
    BY <1>1, <2>1, FrontOfConcat
  <2>5. SubSeq(h \o r, m + 1, m + n) = v
    <3>1. SubSeq(h \o (v \o end), Len(h) + 1, Len(h) + Len(v)) = v
      BY <1>1, <1>6, <2>1, Middle
    <3> QED BY <1>6, <3>1 DEF n
  <2>6. ~(Len(h \o r) < m + n + 2)
    <3>1. Len(e \o rest) = Len(e) + Len(rest) /\ Len(rest) \in Nat
      BY <1>9, FrontOfConcat
    <3> HIDE DEF r
    <3> QED BY <1>3, <1>6, <1>9, <2>3, <3>1
  <2>7. ParsedWith(h \o r, parse) = Parsed(Value("bulk", v), m + n + 2)
    <3> HIDE DEF r
    <3> QED BY <1>10, <2>4, <2>5, <2>6
  <2> HIDE DEF r
  <2> QED BY <1>1, <1>9, <2>3, <2>7
<1>12. ASSUME NEW p \in Seq(Byte), NEW q \in Seq(Byte), p \o q = e, q # <<>>
       PROVE  ParsedWith(p, parse) = Outcome("partial")
  <2>1. p \o q = h \o tail
    BY <1>8, <1>12
  <2>2. Len(p) < m + n + 2 /\ Len(p) \in Nat
    <3> HIDE DEF h, m, tail, e
    <3>1. Len(p \o q) = Len(p) + Len(q) /\ Len(p) \in Nat /\ Len(q) \in Nat
      BY FrontOfConcat
    <3>2. Len(q) # 0
      BY <1>12
    <3> QED BY <1>3, <1>6, <1>9, <1>12, <3>1, <3>2
  <2> HIDE DEF tail
  <2>3. CASE Len(p) < Len(line) + 3
    BY <1>4, <1>5, <1>7, <2>1, <2>3, CutInHeader
  <2>4. CASE Len(p) >= Len(line) + 3
    <3> DEFINE r == Rest(p, Len(h))
    <3>1. CutTwice(Byte, h, tail, p, q)
      <4> HIDE DEF h
      <4> QED BY <1>6, <1>7, <2>1, <2>4 DEF CutTwice
    <3> HIDE DEF h, m
    <3>2. Between(Byte, h, tail, p, q)
      BY <3>1, TwoCuts, Zenon
    <3>3. r \in Seq(Byte) /\ p = h \o r
      BY <3>2 DEF Between
    <3> HIDE DEF r
    <3> QED BY <1>10, <2>2, <3>3
  <2> QED BY <1>6, <2>2, <2>3, <2>4
<1> HIDE DEF e
<1>13. Reads(x, e, parse)
  BY <1>9, <1>11, <1>12, Zenon DEF Reads
<1> QED BY <1>2, <1>13

(***************************************************************************)
(* Arrays: their elements are encoded one behind the other, and parsed one *)
(* after the other.                                                        *)
(***************************************************************************)

\* The elements' encodings, and how far a parser can be trusted with them.
Encodes(S, encode) == \A y \in S : encode[y] \in Seq(Byte) /\ encode[y] # <<>>

Knows(S, encode, parse, far) ==
    /\ \A y \in S : \A rest \in Seq(Byte) :
          Len(encode[y]) <= far => parse[encode[y] \o rest] = Parsed(y, Len(encode[y]))
    /\ \A y \in S : \A p, q \in Seq(Byte) :
          p \o q = encode[y] /\ q # <<>> /\ Len(p) <= far => parse[p] = Outcome("partial")

\* The encoding up to each element, and what is parsed up to it.
Joined(head, v, encode, h) ==
    h[0] = head /\ \A k \in 1 .. Len(v) : h[k] = h[k - 1] \o encode[v[k]]

Start(buf, after) == [buf |-> buf, kind |-> "value", used |-> after, items |-> <<>>]

Scanned(buf, after, n, parse, g) ==
    g[0] = Start(buf, after) /\ \A k \in 1 .. n : g[k] = NextElement(g[k - 1], parse)

LEMMA JoinedExists ==
    ASSUME NEW S, NEW v \in Seq(S), NEW head, NEW encode
    PROVE  \E h : /\ Joined(head, v, encode, h)
                  /\ h[Len(v)] = FoldLeft(Cat, head, [i \in DOMAIN v |-> encode[v[i]]])
<1> DEFINE T == {encode[y] : y \in S}
           s == [i \in DOMAIN v |-> encode[v[i]]]
<1>1. s \in Seq(T) /\ Len(s) = Len(v) /\ \A i \in 1 .. Len(v) : s[i] = encode[v[i]]
  <2>1. DOMAIN v = 1 .. Len(v) /\ Len(v) \in Nat /\ \A i \in 1 .. Len(v) : v[i] \in S
    OBVIOUS
  <2> QED BY <2>1
<1> HIDE DEF T, s
<1>2. PICK h : Cats!Runs(head, s, h) /\ h[Len(s)] = Cats!Left(head, s)
  BY <1>1, Cats!LeftRuns
<1>3. Joined(head, v, encode, h)
  BY <1>1, <1>2 DEF Cats!Runs, Joined, Cat
<1>4. h[Len(v)] = FoldLeft(Cat, head, s)
  BY <1>1, <1>2, CatIs
<1> QED BY <1>3, <1>4 DEF s

Scans(buf, after, n, parse) ==
    \E g : /\ Scanned(buf, after, n, parse, g)
           /\ Elements(buf, after, n, parse) =
                 IF g[n].kind = "value" THEN Parsed(Value("array", g[n].items), g[n].used)
                 ELSE Outcome(g[n].kind)

LEMMA ScannedExists ==
    \A buf, after, parse : \A n \in Nat : Scans(buf, after, n, parse)
<1> SUFFICES ASSUME NEW buf, NEW after, NEW n \in Nat, NEW parse
             PROVE  Scans(buf, after, n, parse)
  OBVIOUS
<1> DEFINE s == [i \in 1 .. n |-> parse]
           start == Start(buf, after)
<1>1. s \in Seq({parse}) /\ Len(s) = n /\ \A i \in 1 .. n : s[i] = parse
  OBVIOUS
<1>2. FoldLeft(NextElement, start, s) = Nexts!Left(start, s)
  BY NextIs
<1>3. Elements(buf, after, n, parse) =
         LET got == FoldLeft(NextElement, start, s)
         IN IF got.kind = "value" THEN Parsed(Value("array", got.items), got.used)
            ELSE Outcome(got.kind)
  BY DEF Elements, Start
<1> HIDE DEF s, start
<1>4. PICK g : Nexts!Runs(start, s, g) /\ g[Len(s)] = Nexts!Left(start, s)
  BY <1>1, Nexts!LeftRuns
<1>5. Scanned(buf, after, n, parse, g)
  BY <1>1, <1>4 DEF Nexts!Runs, Scanned, start
<1>6. g[n] = FoldLeft(NextElement, start, s)
  BY <1>1, <1>2, <1>4
<1> QED BY <1>3, <1>5, <1>6 DEF Scans

\* What is encoded only grows.
Continues(b, a) == \E t \in Seq(Byte) : b = a \o t

LEMMA ContinuesFacts ==
    /\ \A a \in Seq(Byte) : Continues(a, a)
    /\ \A a, b, e \in Seq(Byte) : Continues(b, a) => Continues(b \o e, a)
<1>1. ASSUME NEW a \in Seq(Byte) PROVE Continues(a, a)
  <2>1. a \o <<>> = a /\ <<>> \in Seq(Byte)
    BY ConcatEmptySeq
  <2> QED BY <2>1 DEF Continues
<1>2. ASSUME NEW a \in Seq(Byte), NEW e \in Seq(Byte), NEW t \in Seq(Byte)
      PROVE  Continues((a \o t) \o e, a)
  <2>1. (a \o t) \o e = a \o (t \o e)
    BY ConcatAssociative
  <2>2. t \o e \in Seq(Byte)
    BY FrontOfConcat
  <2> QED BY <2>1, <2>2 DEF Continues
<1>3. ASSUME NEW a \in Seq(Byte), NEW b \in Seq(Byte), NEW e \in Seq(Byte), Continues(b, a)
      PROVE  Continues(b \o e, a)
  <2>1. PICK t \in Seq(Byte) : b = a \o t
    BY <1>3 DEF Continues
  <2> QED BY <1>2, <2>1
<1> QED BY <1>1, <1>3, Zenon

LEMMA JoinedTyped ==
    ASSUME NEW S, NEW v \in Seq(S), NEW head \in Seq(Byte), NEW encode, Encodes(S, encode),
           NEW h, Joined(head, v, encode, h)
    PROVE  /\ \A k \in 0 .. Len(v) : h[k] \in Seq(Byte)
           /\ \A k \in 1 .. Len(v) : encode[v[k]] \in Seq(Byte) /\ h[k - 1] \in Seq(Byte)
<1> DEFINE n == Len(v)
           K == {k \in 0 .. n : h[k] \in Seq(Byte)}
<1>1. n \in Nat /\ \A k \in 1 .. n : v[k] \in S
  OBVIOUS
<1> HIDE DEF n
<1>2. 0 \in K
  BY <1>1 DEF Joined
<1>3. \A k \in 1 .. n : encode[v[k]] \in Seq(Byte)
  BY <1>1 DEF Encodes
<1>4. ASSUME NEW k \in 0 .. n - 1, k \in K PROVE k + 1 \in K
  <2> DEFINE e == encode[v[k + 1]]
             a == h[k]
  <2>1. k + 1 \in 1 .. n /\ k + 1 \in 0 .. n /\ (k + 1) - 1 = k
    BY <1>1
  <2>2. h[k + 1] = a \o e
    BY <2>1 DEF Joined, n
  <2>3. e \in Seq(Byte) /\ a \in Seq(Byte)
    BY <1>3, <1>4, <2>1
  <2> HIDE DEF e, a
  <2>4. a \o e \in Seq(Byte)
    BY <2>3, FrontOfConcat
  <2> QED BY <2>1, <2>2, <2>4
<1>5. \A k \in 0 .. n : k \in K
  <2> HIDE DEF K
  <2> QED BY <1>1, <1>2, <1>4, Cats!Induction
<1>6. \A k \in 1 .. n : k - 1 \in 0 .. n
  BY <1>1
<1> QED BY <1>3, <1>5, <1>6 DEF n

LEMMA JoinedGrows ==
    ASSUME NEW S, NEW v \in Seq(S), NEW head \in Seq(Byte), NEW encode, Encodes(S, encode),
           NEW h, Joined(head, v, encode, h)
    PROVE  \A k \in 0 .. Len(v) : \A j \in 0 .. k : Continues(h[k], h[j])
<1> DEFINE n == Len(v)
           Grown(k) == \A j \in 0 .. k : Continues(h[k], h[j])
           K == {k \in 0 .. n : Grown(k)}
<1>1. n \in Nat
  OBVIOUS
<1>2. /\ \A k \in 0 .. n : h[k] \in Seq(Byte)
      /\ \A k \in 1 .. n : encode[v[k]] \in Seq(Byte)
  BY JoinedTyped
<1>3. \A k \in 1 .. n : h[k] = h[k - 1] \o encode[v[k]]
  BY DEF Joined
<1> HIDE DEF n
<1>4. 0 \in K
  <2>1. Continues(h[0], h[0]) /\ 0 \in 0 .. n
    BY <1>1, <1>2, ContinuesFacts
  <2>2. \A j \in 0 .. 0 : j = 0
    OBVIOUS
  <2> QED BY <2>1, <2>2
<1>5. ASSUME NEW k \in 0 .. n - 1, k \in K PROVE k + 1 \in K
  <2> DEFINE e == encode[v[k + 1]]
             m == k + 1
  <2>1. m \in 1 .. n /\ m \in 0 .. n /\ m - 1 = k /\ k \in 0 .. n /\ k \in Nat
    BY <1>1
  <2>2. h[m] = h[k] \o e
    BY <1>3, <2>1
  <2>3. e \in Seq(Byte) /\ h[k] \in Seq(Byte) /\ h[m] \in Seq(Byte)
    BY <1>2, <2>1
  <2>4. \A j \in 0 .. m : j \in 0 .. n /\ (j \in 0 .. k \/ j = m)
    BY <1>1
  <2> HIDE DEF e, m
  <2>5. ASSUME NEW j \in 0 .. m PROVE Continues(h[m], h[j])
    <3>1. CASE j = m
      BY <2>3, <3>1, ContinuesFacts
    <3>2. CASE j \in 0 .. k
      <4>1. Continues(h[k], h[j])
        BY <1>5, <3>2
      <4>2. h[j] \in Seq(Byte)
        BY <1>2, <2>4
      <4>3. Continues(h[k] \o e, h[j])
        BY <2>3, <4>1, <4>2, ContinuesFacts, Zenon
      <4> QED BY <2>2, <4>3
    <3> QED BY <2>4, <3>1, <3>2
  <2>6. Grown(m)
    BY <2>5
  <2> HIDE DEF Grown
  <2> QED BY <2>1, <2>6 DEF m
<1>6. \A k \in 0 .. n : k \in K
  <2> HIDE DEF K
  <2> QED BY <1>1, <1>4, <1>5, Cats!Induction
<1> QED BY <1>6 DEF n

LEMMA OneMore ==
    ASSUME NEW S, NEW v \in Seq(S), NEW k \in 0 .. Len(v) - 1
    PROVE  SubSeq(v, 1, k + 1) = Append(SubSeq(v, 1, k), v[k + 1])
<1> DEFINE a == SubSeq(v, 1, k)
           b == SubSeq(v, 1, k + 1)
           x == v[k + 1]
<1>1. k \in Nat /\ k \in 0 .. Len(v) /\ k + 1 \in 0 .. Len(v) /\ k + 1 \in 1 .. Len(v)
  OBVIOUS
<1>2. x \in S
  BY <1>1
<1>3. /\ a \in Seq(S) /\ Len(a) = k /\ b \in Seq(S) /\ Len(b) = k + 1
  BY <1>1, Pieces
<1>4. (\A i \in 1 .. k : a[i] = v[i]) /\ (\A i \in 1 .. k + 1 : b[i] = v[i])
  BY <1>1
<1> HIDE DEF a, b, x
<1>5. /\ Append(a, x) \in Seq(S) /\ Len(Append(a, x)) = k + 1
      /\ (\A i \in 1 .. k : Append(a, x)[i] = a[i]) /\ Append(a, x)[k + 1] = x
  BY <1>1, <1>2, <1>3
<1>6. \A i \in 1 .. k + 1 : Append(a, x)[i] = b[i]
  <2> TAKE i \in 1 .. k + 1
  <2>1. CASE i = k + 1
    BY <1>1, <1>4, <1>5, <2>1 DEF x
  <2>2. CASE i \in 1 .. k
    BY <1>4, <1>5, <2>2
  <2>3. i = k + 1 \/ i \in 1 .. k
    BY <1>1
  <2> QED BY <2>1, <2>2, <2>3, Zenon
<1>7. Append(a, x) = b
  BY <1>3, <1>5, <1>6, SeqEqual
<1> QED BY <1>7 DEF a, b, x

ScannedTo(buf, v, h, k) ==
    [buf |-> buf, kind |-> "value", used |-> Len(h[k]), items |-> SubSeq(v, 1, k)]

\* An element that is there is parsed.
LEMMA ScanStep ==
    ASSUME NEW S, NEW v \in Seq(S), NEW head \in Seq(Byte), NEW encode, Encodes(S, encode),
           NEW h, Joined(head, v, encode, h),
           NEW parse, NEW far, Knows(S, encode, parse, far),
           NEW k \in 0 .. Len(v) - 1, Len(encode[v[k + 1]]) <= far,
           NEW buf \in Seq(Byte), Continues(buf, h[k + 1])
    PROVE  NextElement(ScannedTo(buf, v, h, k), parse) = ScannedTo(buf, v, h, k + 1)
<1> DEFINE m == k + 1
           x == v[m]
           e == encode[x]
           a == h[k]
           b == h[m]
<1>1. k \in 0 .. Len(v) /\ m \in 1 .. Len(v) /\ m \in 0 .. Len(v) /\ m - 1 = k
  OBVIOUS
<1>2. x \in S
  BY <1>1
<1>3. a \in Seq(Byte) /\ e \in Seq(Byte) /\ b \in Seq(Byte)
  BY <1>1, JoinedTyped
<1>4. b = a \o e
  BY <1>1 DEF Joined
<1>5. Len(e) <= far
  OBVIOUS
<1> HIDE DEF m
<1>6. SubSeq(v, 1, m) = Append(SubSeq(v, 1, k), x)
  BY OneMore DEF m
<1>7. \A rest \in Seq(Byte) : parse[e \o rest] = Parsed(x, Len(e))
  BY <1>2, <1>5 DEF Knows
<1>8. PICK u \in Seq(Byte) : buf = b \o u
  BY DEF Continues, m
<1> HIDE DEF x, e, a, b
<1>9. Len(b) = Len(a) + Len(e)
  BY <1>3, <1>4, FrontOfConcat
<1>10. Rest(buf, Len(a)) = e \o u
  <2> DEFINE w == e \o u
  <2>1. (a \o e) \o u = a \o w
    <3>1. Regrouped(a, e, u)
      BY <1>3, Regrouping, Zenon
    <3> QED BY <3>1 DEF Regrouped
  <2>2. w \in Seq(Byte)
    BY <1>3, FrontOfConcat
  <2> HIDE DEF w
  <2>3. buf = a \o w
    BY <1>4, <1>8, <2>1
  <2>4. Rest(a \o w, Len(a)) = w
    BY <1>3, <2>2, RestOfConcat
  <2> QED BY <2>3, <2>4 DEF w
<1>11. parse[Rest(buf, Len(a))] = Parsed(x, Len(e))
  BY <1>7, <1>10
<1> DEFINE got == ScannedTo(buf, v, h, k)
<1>12. got = [buf |-> buf, kind |-> "value", used |-> Len(a), items |-> SubSeq(v, 1, k)]
  BY DEF ScannedTo, a
<1>13. NextElement(got, parse) = [buf |-> buf, kind |-> "value", used |-> Len(a) + Len(e),
                                  items |-> Append(SubSeq(v, 1, k), x)]
  <2> DEFINE items == SubSeq(v, 1, k)
             r == Rest(buf, Len(a))
             l == Len(a)
  <2>1. parse[r] = Parsed(x, Len(e))
    BY <1>11
  <2>2. got = [buf |-> buf, kind |-> "value", used |-> l, items |-> items]
    BY <1>12
  <2>3. r = Rest(buf, l)
    OBVIOUS
  <2> HIDE DEF items, r, l, got
  <2> DEFINE p == parse[r]
  <2>4. got.kind = "value" /\ Rest(got.buf, got.used) = r
    BY <2>2, <2>3
  <2>5. NextElement(got, parse) =
           [got EXCEPT !.kind = p.kind, !.used = @ + p.used, !.items = Append(@, p.value)]
    BY <2>4 DEF NextElement
  <2>6. p.kind = "value" /\ p.used = Len(e) /\ p.value = x
    BY <2>1 DEF Parsed
  <2> HIDE DEF p
  <2>7. NextElement(got, parse) =
           [got EXCEPT !.kind = "value", !.used = @ + Len(e), !.items = Append(@, x)]
    BY <2>5, <2>6
  <2>8. NextElement(got, parse) = [buf |-> buf, kind |-> "value", used |-> l + Len(e),
                                   items |-> Append(items, x)]
    BY <2>2, <2>7
  <2> QED BY <2>8 DEF items, l
<1>14. ScannedTo(buf, v, h, k + 1)
          = [buf |-> buf, kind |-> "value", used |-> Len(b), items |-> SubSeq(v, 1, m)]
  BY DEF ScannedTo, b, m
<1> QED BY <1>6, <1>9, <1>13, <1>14

LEMMA ContinuesLonger ==
    ASSUME NEW a \in Seq(Byte), NEW b, Continues(b, a)
    PROVE  /\ b \in Seq(Byte) /\ Len(a) <= Len(b) /\ Len(a) \in Nat /\ Len(b) \in Nat
           /\ \A u \in Seq(Byte) : Continues(b \o u, a)
<1>1. PICK t \in Seq(Byte) : b = a \o t
  BY DEF Continues
<1>2. b \in Seq(Byte) /\ Len(b) = Len(a) + Len(t) /\ Len(a) \in Nat /\ Len(t) \in Nat
  BY <1>1, FrontOfConcat
<1>3. \A u \in Seq(Byte) : Continues(b \o u, a)
  BY <1>2, ContinuesFacts, Zenon
<1> QED BY <1>2, <1>3

LEMMA JoinedLonger ==
    ASSUME NEW S, NEW v \in Seq(S), NEW head \in Seq(Byte), NEW encode, Encodes(S, encode),
           NEW h, Joined(head, v, encode, h), NEW k \in 0 .. Len(v), NEW j \in 1 .. k
    PROVE  /\ Len(encode[v[j]]) \in Nat \ {0} /\ Len(h[j]) = Len(h[j - 1]) + Len(encode[v[j]])
           /\ Len(head) \in Nat /\ Len(head) <= Len(h[j - 1])
           /\ Len(h[j]) <= Len(h[k]) /\ Len(h[k]) \in Nat
<1> DEFINE i == j - 1
           e == encode[v[j]]
<1>1. Len(v) \in Nat /\ j \in 1 .. Len(v) /\ j \in 0 .. Len(v) /\ i \in 0 .. Len(v)
      /\ j \in 0 .. k /\ 0 \in 0 .. i
  OBVIOUS
<1>2. h[i] \in Seq(Byte) /\ h[j] \in Seq(Byte) /\ h[k] \in Seq(Byte) /\ e \in Seq(Byte)
      /\ h[0] = head
  <2>1. \A l \in 0 .. Len(v) : h[l] \in Seq(Byte)
    BY JoinedTyped
  <2>2. \A l \in 1 .. Len(v) : encode[v[l]] \in Seq(Byte)
    BY JoinedTyped
  <2>3. e \in Seq(Byte)
    BY <1>1, <2>2
  <2>4. h[0] = head
    BY DEF Joined
  <2> HIDE DEF i, e
  <2> QED BY <1>1, <2>1, <2>3, <2>4
<1>3. e # <<>>
  BY <1>1 DEF Encodes
<1>4. h[j] = h[i] \o e
  BY <1>1 DEF Joined
<1>5. Continues(h[i], h[0]) /\ Continues(h[k], h[j])
  BY <1>1, JoinedGrows
<1> HIDE DEF i, e
<1>6. Len(h[j]) = Len(h[i]) + Len(e) /\ Len(e) \in Nat \ {0}
  <2>1. Len(h[i] \o e) = Len(h[i]) + Len(e) /\ Len(e) \in Nat
    BY <1>2, FrontOfConcat
  <2>2. Len(e) # 0
    BY <1>2, <1>3
  <2> QED BY <1>4, <2>1, <2>2
<1>7. Len(head) <= Len(h[i]) /\ Len(h[j]) <= Len(h[k]) /\ Len(head) \in Nat /\ Len(h[k]) \in Nat
  <2>1. Len(h[0]) <= Len(h[i]) /\ Len(h[0]) \in Nat
    BY <1>2, <1>5, ContinuesLonger
  <2>2. Len(h[j]) <= Len(h[k]) /\ Len(h[k]) \in Nat
    BY <1>2, <1>5, ContinuesLonger
  <2> QED BY <1>2, <2>1, <2>2
<1> QED BY <1>6, <1>7 DEF i, e

\* Every element that is there is parsed.
LEMMA ScansUpTo ==
    ASSUME NEW S, NEW v \in Seq(S), NEW head \in Seq(Byte), head # <<>>,
           NEW encode, Encodes(S, encode), NEW h, Joined(head, v, encode, h),
           NEW parse, NEW far \in Nat, Knows(S, encode, parse, far),
           NEW buf \in Seq(Byte), NEW g, Scanned(buf, Len(head), Len(v), parse, g),
           NEW k \in 0 .. Len(v), Continues(buf, h[k]), Len(h[k]) <= far + 1
    PROVE  g[k] = ScannedTo(buf, v, h, k)
<1> DEFINE n == Len(v)
           J == {j \in 0 .. k : g[j] = ScannedTo(buf, v, h, j)}
<1>1. n \in Nat /\ k \in Nat
  OBVIOUS
<1>2. 0 \in J
  <2>1. SubSeq(v, 1, 0) = <<>>
    BY SubSeqEmpty
  <2>2. g[0] = Start(buf, Len(head)) /\ h[0] = head
    BY DEF Scanned, Joined
  <2>3. g[0] = ScannedTo(buf, v, h, 0)
    BY <2>1, <2>2 DEF Start, ScannedTo
  <2> QED BY <1>1, <2>3
<1>3. ASSUME NEW j \in 0 .. k - 1, j \in J PROVE j + 1 \in J
  <2> DEFINE m == j + 1
  <2>1. m \in 1 .. k /\ m \in 1 .. n /\ m \in 0 .. k /\ m - 1 = j /\ j \in 0 .. n - 1 /\ k \in 0 .. n
    BY <1>1
  <2>2. Len(encode[v[m]]) <= far
    <3>1. /\ Len(encode[v[m]]) \in Nat \ {0} /\ Len(h[m]) = Len(h[m - 1]) + Len(encode[v[m]])
          /\ Len(head) \in Nat /\ Len(head) <= Len(h[m - 1])
          /\ Len(h[m]) <= Len(h[k]) /\ Len(h[k]) \in Nat
      <4> HIDE DEF m
      <4> QED BY <2>1, JoinedLonger
    <3>2. Len(head) # 0
      OBVIOUS
    <3>3. h[m - 1] \in Seq(Byte)
      <4> HIDE DEF m
      <4> QED BY <2>1, JoinedTyped
    <3>4. Len(h[m - 1]) \in Nat
      BY <3>3
    <3> DEFINE l == Len(encode[v[m]])
               a == Len(h[m - 1])
               b == Len(h[m])
               c == Len(h[k])
               d == Len(head)
    <3>5. l \in Nat /\ b = a + l /\ d \in Nat /\ d <= a /\ b <= c /\ c \in Nat /\ d # 0 /\ a \in Nat
      BY <3>1, <3>2, <3>4
    <3>6. c <= far + 1 /\ far \in Nat
      OBVIOUS
    <3> HIDE DEF l, a, b, c, d, m
    <3>7. l <= far
      BY <3>5, <3>6
    <3> QED BY <3>7 DEF l
  <2>3. Continues(buf, h[m])
    <3>1. PICK u \in Seq(Byte) : buf = h[k] \o u
      BY DEF Continues
    <3> HIDE DEF m
    <3>2. Continues(h[k], h[m]) /\ h[m] \in Seq(Byte)
      BY <2>1, JoinedGrows, JoinedTyped
    <3>3. Continues(h[k] \o u, h[m])
      BY <3>2, ContinuesLonger
    <3> QED BY <3>1, <3>3
  <2>4. NextElement(ScannedTo(buf, v, h, j), parse) = ScannedTo(buf, v, h, j + 1)
    BY <2>1, <2>2, <2>3, ScanStep
  <2>5. g[m] = NextElement(g[j], parse)
    BY <2>1 DEF Scanned
  <2>6. g[j] = ScannedTo(buf, v, h, j)
    BY <1>3
  <2> QED BY <2>1, <2>4, <2>5, <2>6
<1>4. k \in J
  <2>1. k \in 0 .. k
    BY <1>1
  <2> HIDE DEF J
  <2> QED BY <1>1, <1>2, <1>3, <2>1, Cats!Induction
<1> QED BY <1>4

\* An element that is cut is waited for, and no other is looked at.
LEMMA ScanWaits ==
    ASSUME NEW buf, NEW after, NEW n \in Nat, NEW parse, NEW g, Scanned(buf, after, n, parse, g),
           NEW k \in 0 .. n, g[k].kind = "partial"
    PROVE  g[n].kind = "partial"
<1> DEFINE m == n - k
           K == {j \in 0 .. m : g[k + j].kind = "partial"}
<1>1. m \in Nat /\ k \in Nat /\ k + m = n /\ k + 0 = k
  OBVIOUS
<1>2. 0 \in K
  BY <1>1
<1>3. ASSUME NEW j \in 0 .. m - 1, j \in K PROVE j + 1 \in K
  <2> DEFINE i == k + j + 1
  <2>1. i \in 1 .. n /\ i - 1 = k + j /\ i = k + (j + 1) /\ j + 1 \in 0 .. m
    BY <1>1
  <2> HIDE DEF i, m
  <2>2. g[i] = NextElement(g[i - 1], parse)
    BY <2>1 DEF Scanned
  <2>3. g[i - 1].kind = "partial"
    BY <1>3, <2>1
  <2>4. g[i] = g[i - 1]
    BY <2>2, <2>3 DEF NextElement
  <2> QED BY <2>1, <2>3, <2>4
<1>4. m \in K
  <2>1. m \in 0 .. m
    BY <1>1
  <2> HIDE DEF K, m
  <2> QED BY <1>1, <1>2, <1>3, <2>1, Cats!Induction
<1> HIDE DEF m
<1> QED BY <1>1, <1>4

LEMMA JoinedCut ==
    ASSUME NEW n \in Nat, NEW h, NEW l \in Nat, Len(h[0]) <= l,
           \A k \in 0 .. n : Len(h[k]) \in Nat, l < Len(h[n])
    PROVE  \E k \in 0 .. n - 1 : Len(h[k]) <= l /\ l < Len(h[k + 1])
<1> SUFFICES ASSUME \A k \in 0 .. n - 1 : Len(h[k]) <= l => Len(h[k + 1]) <= l
             PROVE  FALSE
  <2>1. \A k \in 0 .. n - 1 : k + 1 \in 0 .. n
    OBVIOUS
  <2> QED BY <2>1
<1> DEFINE K == {k \in 0 .. n : Len(h[k]) <= l}
<1>1. 0 \in K
  OBVIOUS
<1>2. \A k \in 0 .. n - 1 : k \in K => k + 1 \in K
  OBVIOUS
<1>3. n \in 0 .. n
  OBVIOUS
<1>4. n \in K
  <2> HIDE DEF K
  <2> QED BY <1>1, <1>2, <1>3, Cats!Induction
<1> QED BY <1>3, <1>4

\* The bytes e are read as x, and waited for, by a parser that can be trusted so far.
ReadsWithin(x, e, parse, far) ==
    /\ e \in Seq(Byte) /\ e # <<>>
    /\ \A rest \in Seq(Byte) : Len(e) <= far => ParsedWith(e \o rest, parse) = Parsed(x, Len(e))
    /\ \A p, q \in Seq(Byte) :
          p \o q = e /\ q # <<>> /\ Len(p) <= far => ParsedWith(p, parse) = Outcome("partial")

Trusted(S, v, head, encode, h, parse, far) ==
    /\ v \in Seq(S) /\ head \in Seq(Byte) /\ head # <<>>
    /\ Encodes(S, encode) /\ Joined(head, v, encode, h)
    /\ far \in Nat /\ Knows(S, encode, parse, far)

WholeWithin(v, h, far, buf) ==
    buf \in Seq(Byte) /\ Continues(buf, h[Len(v)]) /\ Len(h[Len(v)]) <= far + 1

CutBehind(v, head, h, far, p, q) ==
    /\ p \in Seq(Byte) /\ q \in Seq(Byte) /\ p \o q = h[Len(v)] /\ q # <<>>
    /\ Len(head) <= Len(p) /\ Len(p) <= far + 1

LEMMA ArrayComplete ==
    \A S, v, head, encode, h, parse, far, buf :
       Trusted(S, v, head, encode, h, parse, far) /\ WholeWithin(v, h, far, buf)
       => Elements(buf, Len(head), Len(v), parse) = Parsed(Value("array", v), Len(h[Len(v)]))
<1> SUFFICES ASSUME NEW S, NEW v \in Seq(S), NEW head \in Seq(Byte), head # <<>>,
                    NEW encode, Encodes(S, encode), NEW h, Joined(head, v, encode, h),
                    NEW parse, NEW far \in Nat, Knows(S, encode, parse, far),
                    NEW buf \in Seq(Byte), Continues(buf, h[Len(v)]), Len(h[Len(v)]) <= far + 1
             PROVE  Elements(buf, Len(head), Len(v), parse) = Parsed(Value("array", v), Len(h[Len(v)]))
  BY DEF Trusted, WholeWithin
<1> DEFINE n == Len(v)
           after == Len(head)
<1>1. n \in Nat /\ n \in 0 .. n
  OBVIOUS
<1>2. PICK g : /\ Scanned(buf, after, n, parse, g)
               /\ Elements(buf, after, n, parse) =
                     IF g[n].kind = "value" THEN Parsed(Value("array", g[n].items), g[n].used)
                     ELSE Outcome(g[n].kind)
  <2> HIDE DEF n, after
  <2>1. Scans(buf, after, n, parse)
    BY <1>1, ScannedExists, Zenon
  <2> QED BY <2>1 DEF Scans
<1>3. g[n] = ScannedTo(buf, v, h, n)
  BY <1>1, <1>2, ScansUpTo
<1>4. SubSeq(v, 1, n) = v
  BY SubSeqFull
<1> HIDE DEF n, after
<1>5. g[n].kind = "value" /\ g[n].items = v /\ g[n].used = Len(h[n])
  BY <1>3, <1>4 DEF ScannedTo
<1>6. Elements(buf, after, n, parse) = Parsed(Value("array", v), Len(h[n]))
  BY <1>2, <1>5
<1> QED BY <1>6 DEF n, after

\* A cut between the encodings of two elements, or within the second of them.
CutWithin(a, e, t, p, q) ==
    /\ a \in Seq(Byte) /\ e \in Seq(Byte) /\ t \in Seq(Byte)
    /\ p \in Seq(Byte) /\ q \in Seq(Byte) /\ p \o q = (a \o e) \o t
    /\ Len(a) <= Len(p) /\ Len(p) < Len(a \o e)

CutOff(a, e, p) ==
    LET r == Rest(p, Len(a))
    IN /\ r \in Seq(Byte) /\ p = a \o r
       /\ \E s \in Seq(Byte) : r \o s = e /\ s # <<>>

LEMMA CutElement ==
    \A a, e, t, p, q : CutWithin(a, e, t, p, q) => CutOff(a, e, p)
<1> SUFFICES ASSUME NEW a \in Seq(Byte), NEW e \in Seq(Byte), NEW t \in Seq(Byte),
                    NEW p \in Seq(Byte), NEW q \in Seq(Byte), p \o q = (a \o e) \o t,
                    Len(a) <= Len(p), Len(p) < Len(a \o e)
             PROVE  CutOff(a, e, p)
  BY DEF CutWithin
<1> DEFINE r == Rest(p, Len(a))
           b == a \o e
           u == e \o t
<1>1. b \in Seq(Byte) /\ u \in Seq(Byte)
  BY FrontOfConcat
<1>2. b \o t = a \o u
  <2>1. Regrouped(a, e, t)
    BY Regrouping, Zenon
  <2> QED BY <2>1 DEF Regrouped
<1> HIDE DEF b, u
<1>3. CutTwice(Byte, a, u, p, q)
  BY <1>1, <1>2 DEF CutTwice, b
<1>4. Between(Byte, a, u, p, q)
  BY <1>3, TwoCuts, Zenon
<1>5. r \in Seq(Byte) /\ p = a \o r
  BY <1>4 DEF Between
<1>6. CutTwice(Byte, p, q, b, t)
  <2>1. Len(p) <= Len(b)
    <3>1. Len(p) < Len(b) /\ Len(p) \in Nat /\ Len(b) \in Nat
      BY <1>1 DEF b
    <3> QED BY <3>1
  <2>2. p \o q = b \o t
    BY DEF b
  <2> QED BY <1>1, <2>1, <2>2 DEF CutTwice
<1> DEFINE s == Rest(b, Len(p))
<1>7. Between(Byte, p, q, b, t)
  BY <1>6, TwoCuts, Zenon
<1>8. s \in Seq(Byte) /\ b = p \o s
  BY <1>7 DEF Between
<1> HIDE DEF r, s
<1>9. r \o s = e
  <2> DEFINE w == r \o s
  <2>1. (a \o r) \o s = a \o w
    <3>1. Regrouped(a, r, s)
      BY <1>5, <1>8, Regrouping, Zenon
    <3> QED BY <3>1 DEF Regrouped
  <2>2. w \in Seq(Byte)
    BY <1>5, <1>8, FrontOfConcat
  <2> HIDE DEF w
  <2>3. a \o e = a \o w
    BY <1>5, <1>8, <2>1 DEF b
  <2>4. e = w
    BY <2>2, <2>3, SameRest
  <2> QED BY <2>4 DEF w
<1>10. s # <<>>
  <2> SUFFICES ASSUME s = <<>> PROVE FALSE
    OBVIOUS
  <2>1. p \o s = p
    BY ConcatEmptySeq
  <2>2. Len(p) < Len(b) /\ Len(p) \in Nat
    BY DEF b
  <2> QED BY <1>8, <2>1, <2>2
<1> QED BY <1>5, <1>8, <1>9, <1>10 DEF r, CutOff

LEMMA ArrayWaits ==
    \A S, v, head, encode, h, parse, far, p, q :
       Trusted(S, v, head, encode, h, parse, far) /\ CutBehind(v, head, h, far, p, q)
       => Elements(p, Len(head), Len(v), parse) = Outcome("partial")
<1> TAKE S, v, head, encode, h, parse, far, p, q
<1> HAVE Trusted(S, v, head, encode, h, parse, far) /\ CutBehind(v, head, h, far, p, q)
<1> /\ v \in Seq(S) /\ head \in Seq(Byte) /\ head # <<>>
    /\ Encodes(S, encode) /\ Joined(head, v, encode, h)
    /\ far \in Nat /\ Knows(S, encode, parse, far)
  BY DEF Trusted
<1> /\ p \in Seq(Byte) /\ q \in Seq(Byte) /\ p \o q = h[Len(v)] /\ q # <<>>
    /\ Len(head) <= Len(p) /\ Len(p) <= far + 1
  BY DEF CutBehind
<1> DEFINE n == Len(v)
           after == Len(head)
           l == Len(p)
<1>1. n \in Nat /\ n \in 0 .. n /\ l \in Nat /\ after \in Nat \ {0}
  OBVIOUS
<1>2. /\ \A k \in 0 .. n : h[k] \in Seq(Byte)
      /\ \A k \in 1 .. n : encode[v[k]] \in Seq(Byte)
  <2>1. \A k \in 0 .. n : h[k] \in Seq(Byte)
    BY JoinedTyped
  <2>2. \A k \in 1 .. n : encode[v[k]] \in Seq(Byte)
    BY JoinedTyped
  <2> QED BY <2>1, <2>2
<1>3. \A k \in 0 .. n : Len(h[k]) \in Nat
  BY <1>2
<1>4. l < Len(h[n])
  <2>1. Len(p \o q) = Len(p) + Len(q) /\ Len(q) \in Nat
    BY FrontOfConcat
  <2>2. Len(q) # 0
    OBVIOUS
  <2>3. Len(h[n]) = l + Len(q)
    BY <2>1
  <2> HIDE DEF l, n
  <2> QED BY <1>1, <2>1, <2>2, <2>3
<1>5. PICK k \in 0 .. n - 1 : Len(h[k]) <= l /\ l < Len(h[k + 1])
  <2>1. h[0] = head
    BY DEF Joined
  <2>2. Len(h[0]) <= l
    BY <2>1
  <2> HIDE DEF n, l
  <2> QED BY <1>1, <1>3, <1>4, <2>2, JoinedCut
<1> DEFINE m == k + 1
           a == h[k]
           x == v[m]
           e == encode[x]
<1>6. k \in 0 .. n /\ m \in 1 .. n /\ m \in 0 .. n /\ m - 1 = k /\ x \in S /\ 0 \in 0 .. k
  BY <1>1
<1>7. a \in Seq(Byte) /\ e \in Seq(Byte) /\ h[m] = a \o e
  <2>1. h[m] = h[m - 1] \o encode[v[m]]
    <3> HIDE DEF m
    <3> QED BY <1>6 DEF Joined
  <2> HIDE DEF m, n
  <2>2. a \in Seq(Byte) /\ encode[v[m]] \in Seq(Byte)
    BY <1>2, <1>6
  <2> QED BY <1>6, <2>1, <2>2
<1>8. Continues(h[n], h[m])
  <2> HIDE DEF m
  <2> QED BY <1>1, <1>6, JoinedGrows
<1>9. Len(a) <= Len(p) /\ Len(p) < Len(a \o e)
  <2> HIDE DEF e
  <2> QED BY <1>5, <1>7
<1>10. Len(head) <= Len(a)
  <2>1. Continues(h[k], h[0])
    BY <1>6, JoinedGrows
  <2>2. h[0] = head
    BY DEF Joined
  <2>3. Continues(a, head)
    BY <2>1, <2>2
  <2> HIDE DEF a
  <2> QED BY <2>3, ContinuesLonger
<1>11. PICK t \in Seq(Byte) : h[n] = h[m] \o t
  BY <1>8 DEF Continues
<1> DEFINE r == Rest(p, Len(a))
<1> HIDE DEF a, e, m, x
<1>12. p \o q = (a \o e) \o t
  BY <1>7, <1>11
<1>13. /\ r \in Seq(Byte) /\ p = a \o r
       /\ \E s \in Seq(Byte) : r \o s = e /\ s # <<>>
  <2>1. CutWithin(a, e, t, p, q)
    BY <1>7, <1>9, <1>12 DEF CutWithin
  <2>2. CutOff(a, e, p)
    BY <2>1, CutElement, Zenon
  <2> QED BY <2>2 DEF CutOff
<1>14. Len(r) <= far
  <2> HIDE DEF r, l, after
  <2>1. Len(a \o r) = Len(a) + Len(r) /\ Len(a) \in Nat /\ Len(r) \in Nat
    BY <1>7, <1>13, FrontOfConcat
  <2>2. Len(p) = Len(a) + Len(r)
    BY <1>13, <2>1
  <2>3. Len(head) \in Nat \ {0} /\ Len(p) <= far + 1
    BY <1>1 DEF after
  <2> QED BY <1>10, <2>1, <2>2, <2>3
<1>15. parse[r] = Outcome("partial")
  <2>1. PICK s \in Seq(Byte) : r \o s = e /\ s # <<>>
    BY <1>13
  <2>2. x \in S /\ encode[x] = e
    BY <1>6 DEF e
  <2> HIDE DEF r
  <2> QED BY <1>13, <1>14, <2>1, <2>2 DEF Knows
<1>16. PICK g : /\ Scanned(p, after, n, parse, g)
                /\ Elements(p, after, n, parse) =
                      IF g[n].kind = "value" THEN Parsed(Value("array", g[n].items), g[n].used)
                      ELSE Outcome(g[n].kind)
  <2> HIDE DEF n, after
  <2>1. Scans(p, after, n, parse)
    BY <1>1, ScannedExists, Zenon
  <2> QED BY <2>1 DEF Scans
<1>17. g[k] = ScannedTo(p, v, h, k)
  <2>1. Continues(p, h[k])
    BY <1>13 DEF Continues, a
  <2>2. Len(h[k]) <= far + 1
    <3> DEFINE c == Len(h[k])
    <3>1. c \in Nat /\ c <= l /\ l \in Nat /\ l <= far + 1 /\ far \in Nat
      BY <1>1, <1>3, <1>5, <1>6
    <3> HIDE DEF c, l
    <3>2. c <= far + 1
      BY <3>1
    <3> QED BY <3>2 DEF c
  <2> QED BY <1>6, <1>16, <2>1, <2>2, ScansUpTo
<1>18. g[m].kind = "partial"
  <2>1. g[m] = NextElement(g[m - 1], parse)
    <3> HIDE DEF n
    <3> QED BY <1>6, <1>16 DEF Scanned
  <2>2. g[m - 1] = [buf |-> p, kind |-> "value", used |-> Len(a), items |-> SubSeq(v, 1, k)]
    BY <1>6, <1>17 DEF ScannedTo, a
  <2> DEFINE items == SubSeq(v, 1, k)
             u == Len(a)
             got == g[m - 1]
  <2>3. parse[Rest(p, u)] = Outcome("partial")
    BY <1>15
  <2>4. got = [buf |-> p, kind |-> "value", used |-> u, items |-> items]
    BY <2>2
  <2> HIDE DEF items, u, got
  <2>5. NextElement(got, parse).kind = "partial"
    BY <2>3, <2>4 DEF NextElement, Outcome
  <2> QED BY <2>1, <2>5 DEF got
<1>19. g[n].kind = "partial"
  <2> HIDE DEF after, n
  <2> QED BY <1>1, <1>6, <1>16, <1>18, ScanWaits
<1> HIDE DEF n, after
<1>20. Elements(p, after, n, parse) = Outcome("partial")
  BY <1>16, <1>19
<1> QED BY <1>20 DEF n, after

LEMMA ArrayReads ==
    ASSUME NEW S, NEW x \in [t : {"array"}, v : AtMost(MaxItems, S)],
           NEW encode, Encodes(S, encode),
           NEW parse, NEW far \in Nat, Knows(S, encode, parse, far)
    PROVE  ReadsWithin(x, EncodedWith(x, encode), parse, far + 1)
<1> DEFINE v == x.v
           n == Len(v)
           line == Decimal(n)
           head == Header("*", line)
           e == EncodedWith(x, encode)
<1>1. x.t = "array" /\ v \in Seq(S) /\ n \in 0 .. MaxItems /\ x = Value("array", v)
  <2>1. x.t = "array" /\ v \in AtMost(MaxItems, S) /\ x = Value("array", v)
    BY DEF Value
  <2> HIDE DEF v
  <2> QED BY <2>1 DEF AtMost
<1>2. e = FoldLeft(Cat, head, [i \in DOMAIN v |-> encode[v[i]]])
  BY <1>1 DEF EncodedWith
<1> HIDE DEF v
<1>3. n \in Nat /\ n \in I64 /\ n \in 0 .. n
  BY <1>1, ConstantFacts DEF I64
<1> HIDE DEF n
<1>4. line \in Seq(Byte) /\ LineEnds(line) = {} /\ IsNumber(line) /\ Number(line) = n
  BY <1>3, DecimalReads, DecimalIsLine
<1>5. "*" \in Marks
  BY DEF Marks
<1> HIDE DEF line
<1>6. head \in Seq(Byte) /\ Len(head) = Len(line) + 3 /\ head # <<>>
  <2>1. head \in Seq(Byte) /\ Len(head) = Len(line) + 3
    BY <1>4, <1>5, ByteFacts, HeaderShape
  <2>2. Len(head) # 0
    BY <1>4, <2>1
  <2> HIDE DEF head
  <2> QED BY <2>1, <2>2
<1>7. ASSUME NEW r \in Seq(Byte)
      PROVE  ParsedWith(head \o r, parse) = Elements(head \o r, Len(head), n, parse)
  <2> DEFINE buf == head \o r
  <2>1. ParsedWith(buf, parse) = Opened(buf, line, Len(line) + 3, parse) /\ buf[1] = "*"
    BY <1>4, <1>5, OpensAfterHeader
  <2> HIDE DEF head, buf
  <2>2. Opened(buf, line, Len(head), parse) = Elements(buf, Len(head), n, parse)
    BY <1>1, <1>4, <2>1, OpensArray
  <2> QED BY <1>6, <2>1, <2>2 DEF buf
<1> HIDE DEF head
<1>8. PICK h : Joined(head, v, encode, h)
               /\ h[Len(v)] = FoldLeft(Cat, head, [i \in DOMAIN v |-> encode[v[i]]])
  <2>1. v \in Seq(S) /\ head \in Seq(Byte) /\ Encodes(S, encode)
    BY <1>1, <1>6
  <2> QED BY <2>1, JoinedExists, Zenon
<1>9. e = h[n]
  BY <1>2, <1>8 DEF n
<1> HIDE DEF e
<1>10. Continues(e, head) /\ e \in Seq(Byte)
  <2>1. \A k \in 0 .. Len(v) : h[k] \in Seq(Byte)
    BY <1>1, <1>6, <1>8, JoinedTyped
  <2>2. Continues(h[n], h[0])
    <3>1. n \in 0 .. Len(v) /\ 0 \in 0 .. n
      BY <1>3 DEF n
    <3> QED BY <1>1, <1>6, <1>8, <3>1, JoinedGrows
  <2>3. h[0] = head
    BY <1>8 DEF Joined
  <2> QED BY <1>3, <1>9, <2>1, <2>2, <2>3 DEF n
<1>11. PICK t \in Seq(Byte) : e = head \o t
  BY <1>10 DEF Continues
<1>12. e # <<>>
  <2>1. Len(head \o t) = Len(head) + Len(t) /\ Len(t) \in Nat /\ Len(head) \in Nat /\ Len(head) # 0
    BY <1>6, FrontOfConcat
  <2> QED BY <1>11, <2>1
<1>13. ASSUME NEW rest \in Seq(Byte), Len(e) <= far + 1
       PROVE  ParsedWith(e \o rest, parse) = Parsed(x, Len(e))
  <2> DEFINE r == t \o rest
             buf == e \o rest
  <2>1. r \in Seq(Byte) /\ buf \in Seq(Byte)
    BY <1>10, FrontOfConcat
  <2>2. buf = head \o r
    <3>1. Regrouped(head, t, rest)
      BY <1>6, Regrouping, Zenon
    <3> QED BY <1>11, <3>1 DEF Regrouped
  <2>3. Continues(buf, h[Len(v)])
    BY <1>9 DEF Continues, n
  <2>4. Len(h[Len(v)]) <= far + 1
    BY <1>9, <1>13 DEF n
  <2> HIDE DEF r, buf
  <2>5. Elements(buf, Len(head), Len(v), parse) = Parsed(Value("array", v), Len(h[Len(v)]))
    <3>1. Trusted(S, v, head, encode, h, parse, far)
      BY <1>1, <1>6, <1>8 DEF Trusted
    <3>2. WholeWithin(v, h, far, buf)
      BY <2>1, <2>3, <2>4 DEF WholeWithin
    <3> QED BY <3>1, <3>2, ArrayComplete
  <2>6. ParsedWith(buf, parse) = Elements(buf, Len(head), n, parse)
    BY <1>7, <2>1, <2>2
  <2>7. ParsedWith(buf, parse) = Parsed(x, Len(e))
    BY <1>1, <1>9, <2>5, <2>6 DEF n
  <2> QED BY <2>7 DEF buf
<1>14. ASSUME NEW p \in Seq(Byte), NEW q \in Seq(Byte), p \o q = e, q # <<>>, Len(p) <= far + 1
       PROVE  ParsedWith(p, parse) = Outcome("partial")
  <2>1. p \o q = head \o t
    BY <1>11, <1>14
  <2>2. CASE Len(p) < Len(line) + 3
    BY <1>4, <1>5, <2>1, <2>2, CutInHeader DEF head
  <2>3. CASE Len(p) >= Len(line) + 3
    <3>1. CutTwice(Byte, head, t, p, q)
      BY <1>6, <2>1, <2>3 DEF CutTwice
    <3>2. Between(Byte, head, t, p, q)
      BY <3>1, TwoCuts, Zenon
    <3> DEFINE r == Rest(p, Len(head))
    <3>3. r \in Seq(Byte) /\ p = head \o r
      BY <3>2 DEF Between
    <3> HIDE DEF r
    <3>4. p \o q = h[Len(v)] /\ Len(head) <= Len(p)
      BY <1>6, <1>9, <1>14, <2>3 DEF n
    <3>5. Elements(p, Len(head), Len(v), parse) = Outcome("partial")
      <4>1. Trusted(S, v, head, encode, h, parse, far)
        BY <1>1, <1>6, <1>8 DEF Trusted
      <4>2. CutBehind(v, head, h, far, p, q)
        BY <1>14, <3>4 DEF CutBehind
      <4> QED BY <4>1, <4>2, ArrayWaits, Zenon
    <3> QED BY <1>7, <3>3, <3>5 DEF n
  <2>4. Len(p) < Len(line) + 3 \/ Len(p) >= Len(line) + 3
    BY <1>4
  <2> QED BY <2>2, <2>3, <2>4, Zenon
<1>15. ReadsWithin(x, e, parse, far + 1)
  BY <1>10, <1>12, <1>13, <1>14, Zenon DEF ReadsWithin
<1> QED BY <1>15 DEF e

LEMMA FlatReads ==
    ASSUME NEW x \in Flat(Line), NEW encode, NEW parse, NEW far
    PROVE  ReadsWithin(x, EncodedWith(x, encode), parse, far)
<1> DEFINE e == EncodedWith(x, encode)
<1>1. Reads(x, e, parse)
  <2>1. CASE x \in [t : {"simple", "error"}, v : Line]
    BY <2>1, TextReads
  <2>2. CASE x \in [t : {"int"}, v : [1 .. 1 -> I64]]
    BY <2>2, IntReads
  <2>3. CASE x \in [t : {"bulk"}, v : AtMost(I64Max, Byte)]
    BY <2>3, BulkReads
  <2>4. CASE x = Null
    BY <2>4, NullReads
  <2> HIDE DEF e
  <2>5. \/ x \in [t : {"simple", "error"}, v : Line] \/ x \in [t : {"int"}, v : [1 .. 1 -> I64]]
        \/ x \in [t : {"bulk"}, v : AtMost(I64Max, Byte)] \/ x = Null
    BY Zenon DEF Flat
  <2> QED BY <2>1, <2>2, <2>3, <2>4, <2>5
<1> HIDE DEF e
<1>2. ReadsWithin(x, e, parse, far)
  BY <1>1, Zenon DEF Reads, ReadsWithin
<1> QED BY <1>2 DEF e

(***************************************************************************)
(* Any value, by induction on its depth.                                   *)
(***************************************************************************)
LEMMA AtMostGrows ==
    ASSUME NEW A, NEW B, A \subseteq B, NEW n
    PROVE  AtMost(n, A) \subseteq AtMost(n, B)
<1>1. Seq(A) \subseteq Seq(B)
  OBVIOUS
<1> QED BY <1>1, Zenon DEF AtMost

LEMMA PlainIsLevel ==
    \A d \in Nat : Plain[d] \subseteq Level[d]
<1> DEFINE K == {d \in Nat : Plain[d] \subseteq Level[d]}
<1>1. Line \subseteq Text /\ Flat(Line) \subseteq Flat(Text)
  BY DEF Line, Flat
<1>2. 0 \in K
  BY <1>1, LevelAt, PlainAt
<1>3. ASSUME NEW d \in Nat, d \in K PROVE d + 1 \in K
  <2>1. Plain[d] \subseteq Level[d]
    BY <1>3
  <2>2. AtMost(MaxItems, Plain[d]) \subseteq AtMost(MaxItems, Level[d])
    BY <2>1, AtMostGrows
  <2> DEFINE A == AtMost(MaxItems, Plain[d])
             B == AtMost(MaxItems, Level[d])
  <2>3. [t : {"array"}, v : A] \subseteq [t : {"array"}, v : B]
    <3>1. A \subseteq B
      BY <2>2
    <3> HIDE DEF A, B
    <3> QED BY <3>1
  <2>4. Nested(Line, Plain[d]) \subseteq Nested(Text, Level[d])
    BY <1>1, <2>3 DEF Nested
  <2>5. d + 1 \in Nat \ {0} /\ (d + 1) - 1 = d
    OBVIOUS
  <2>6. Plain[d + 1] = Nested(Line, Plain[d]) /\ Level[d + 1] = Nested(Text, Level[d])
    <3> DEFINE m == d + 1
    <3>1. m \in Nat \ {0} /\ m - 1 = d
      BY <2>5
    <3> HIDE DEF m
    <3>2. Plain[m] = Nested(Line, Plain[m - 1]) /\ Level[m] = Nested(Text, Level[m - 1])
      BY <3>1, LevelAt, PlainAt
    <3>3. Plain[m] = Nested(Line, Plain[d]) /\ Level[m] = Nested(Text, Level[d])
      BY <3>1, <3>2
    <3> QED BY <3>3 DEF m
  <2> QED BY <2>4, <2>5, <2>6
<1>4. \A d \in Nat : d \in K
  <2> HIDE DEF K
  <2> QED BY <1>2, <1>3, Cats!NaturalInduction
<1> QED BY <1>4

\* What is encoded at some depth is read and waited for by a parser with so many calls left.
Understood(d) ==
    /\ Encodes(Plain[d], Encoder[d])
    /\ \A f \in Nat : Knows(Plain[d], Encoder[d], Parser[f], f)

LEMMA ReadsAtDepth ==
    ASSUME NEW S, NEW encode,
           \A y \in S : \A f \in Nat \ {0} : ReadsWithin(y, encode[y], Parser[f - 1], f)
    PROVE  Encodes(S, encode) /\ \A f \in Nat : Knows(S, encode, Parser[f], f)
<1>1. \A y \in S : encode[y] \in Seq(Byte) /\ encode[y] # <<>>
  <2>1. 1 \in Nat \ {0}
    OBVIOUS
  <2> QED BY <2>1 DEF ReadsWithin
<1>2. Encodes(S, encode)
  BY <1>1 DEF Encodes
<1>3. ASSUME NEW f \in Nat, NEW y \in S, NEW rest \in Seq(Byte), Len(encode[y]) <= f
      PROVE  Parser[f][encode[y] \o rest] = Parsed(y, Len(encode[y]))
  <2> DEFINE e == encode[y]
             buf == e \o rest
  <2>1. e \in Seq(Byte) /\ e # <<>>
    BY <1>1
  <2> HIDE DEF e
  <2>2. buf \in Seq(Byte)
    BY <2>1, FrontOfConcat
  <2>3. f \in Nat \ {0}
    BY <1>3, <2>1 DEF e
  <2>4. ReadsWithin(y, e, Parser[f - 1], f)
    BY <2>3 DEF e
  <2>5. Len(e) <= f
    BY <1>3 DEF e
  <2> HIDE DEF buf
  <2>6. ParsedWith(e \o rest, Parser[f - 1]) = Parsed(y, Len(e))
    BY <2>4, <2>5 DEF ReadsWithin
  <2>7. Parser[f][buf] = ParsedWith(buf, Parser[f - 1])
    BY <2>2, <2>3, ParserAt
  <2> QED BY <2>6, <2>7 DEF buf, e
<1>4. ASSUME NEW f \in Nat, NEW y \in S, NEW p \in Seq(Byte), NEW q \in Seq(Byte),
             p \o q = encode[y], q # <<>>, Len(p) <= f
      PROVE  Parser[f][p] = Outcome("partial")
  <2>1. CASE f = 0
    BY <2>1, ParserAt
  <2>2. CASE f # 0
    <3>1. f \in Nat \ {0}
      BY <2>2
    <3>2. ReadsWithin(y, encode[y], Parser[f - 1], f)
      BY <3>1
    <3>3. ParsedWith(p, Parser[f - 1]) = Outcome("partial")
      BY <1>4, <3>2, Zenon DEF ReadsWithin
    <3>4. Parser[f][p] = ParsedWith(p, Parser[f - 1])
      BY <3>1, ParserAt
    <3> QED BY <3>3, <3>4
  <2> QED BY <2>1, <2>2
<1>5. ASSUME NEW f \in Nat PROVE Knows(S, encode, Parser[f], f)
  BY <1>3, <1>4, Zenon DEF Knows
<1> QED BY <1>2, <1>5

LEMMA EveryDepth ==
    \A d \in Nat : Understood(d)
<1> DEFINE K == {d \in Nat : Understood(d)}
<1>1. 0 \in K
  <2>1. ASSUME NEW y \in Plain[0], NEW f \in Nat \ {0}
        PROVE  ReadsWithin(y, Encoder[0][y], Parser[f - 1], f)
    <3>1. y \in Flat(Line) /\ y \in Level[0]
      BY PlainAt, PlainIsLevel
    <3>2. Encoder[0][y] = EncodedWith(y, <<>>)
      BY <3>1, EncoderAt
    <3>3. ReadsWithin(y, EncodedWith(y, <<>>), Parser[f - 1], f)
      BY <3>1, FlatReads
    <3> QED BY <3>2, <3>3
  <2>2. Understood(0)
    BY <2>1, ReadsAtDepth DEF Understood
  <2> QED BY <2>2
<1>2. ASSUME NEW c \in Nat, c \in K PROVE c + 1 \in K
  <2> DEFINE d == c + 1
  <2>1. d \in Nat \ {0} /\ d - 1 = c
    OBVIOUS
  <2>2. /\ Encodes(Plain[c], Encoder[c])
        /\ \A f \in Nat : Knows(Plain[c], Encoder[c], Parser[f], f)
    BY <1>2 DEF Understood
  <2> HIDE DEF d
  <2>3. Plain[d] = Nested(Line, Plain[c])
    BY <2>1, PlainAt
  <2>4. ASSUME NEW y \in Plain[d], NEW f \in Nat \ {0}
        PROVE  ReadsWithin(y, Encoder[d][y], Parser[f - 1], f)
    <3>1. y \in Level[d]
      BY <2>1, PlainIsLevel
    <3>2. Encoder[d][y] = EncodedWith(y, Encoder[c])
      BY <2>1, <3>1, EncoderAt
    <3>3. CASE y \in Flat(Line)
      BY <3>2, <3>3, FlatReads
    <3>4. CASE y \in [t : {"array"}, v : AtMost(MaxItems, Plain[c])]
      <4> DEFINE g == f - 1
      <4>1. g \in Nat /\ g + 1 = f
        OBVIOUS
      <4> HIDE DEF g
      <4>2. Knows(Plain[c], Encoder[c], Parser[g], g)
        BY <2>2, <4>1
      <4>3. ReadsWithin(y, EncodedWith(y, Encoder[c]), Parser[g], g + 1)
        BY <2>2, <3>4, <4>1, <4>2, ArrayReads
      <4> QED BY <3>2, <4>1, <4>3 DEF g
    <3> QED BY <2>3, <3>3, <3>4 DEF Nested
  <2>5. Understood(d)
    BY <2>4, ReadsAtDepth DEF Understood
  <2> QED BY <2>1, <2>5 DEF d
<1>3. \A d \in Nat : d \in K
  <2> HIDE DEF K
  <2> QED BY <1>1, <1>2, Cats!NaturalInduction
<1> QED BY <1>3

(***************************************************************************)
(* `encode` is "the inverse of Resp::parse" (resp.rs): whatever value the  *)
(* server or a client sends, its texts being lines, and whatever follows   *)
(* it in the buffer, it is parsed from exactly its own bytes.              *)
(***************************************************************************)
THEOREM ParseInvertsEncode ==
    \A x \in Plain[MaxDepth] : \A rest \in Seq(Byte) :
       /\ Encode(x) \in Seq(Byte) /\ Encode(x) # <<>>
       /\ Parse(Encode(x) \o rest) = Parsed(x, Len(Encode(x)))
<1> SUFFICES ASSUME NEW x \in Plain[MaxDepth], NEW rest \in Seq(Byte)
             PROVE  /\ Encode(x) \in Seq(Byte) /\ Encode(x) # <<>>
                    /\ Parse(Encode(x) \o rest) = Parsed(x, Len(Encode(x)))
  OBVIOUS
<1> DEFINE e == Encoder[MaxDepth][x]
           f == Len(e \o rest)
<1>1. Encode(x) = e
  BY DEF Encode
<1>2. Understood(MaxDepth)
  BY EveryDepth, ConstantFacts
<1>3. e \in Seq(Byte) /\ e # <<>>
  BY <1>2 DEF Understood, Encodes
<1> HIDE DEF e
<1>4. f \in Nat /\ Len(e) <= f
  BY <1>3, FrontOfConcat
<1>5. Parser[f][e \o rest] = Parsed(x, Len(e))
  <2> HIDE DEF f
  <2>1. Knows(Plain[MaxDepth], Encoder[MaxDepth], Parser[f], f)
    BY <1>2, <1>4 DEF Understood
  <2> QED BY <1>4, <2>1 DEF Knows, e
<1> QED BY <1>1, <1>3, <1>5 DEF Parse

(***************************************************************************)
(* A value is not answered, dropped or parsed as another while any of its  *)
(* bytes is missing: wherever the stream is cut within it, the parser      *)
(* waits (Ok(None), resp.rs).                                              *)
(***************************************************************************)
THEOREM ParseWaits ==
    \A x \in Plain[MaxDepth] : \A p, q \in Seq(Byte) :
       p \o q = Encode(x) /\ q # <<>> => Parse(p) = Outcome("partial")
<1> SUFFICES ASSUME NEW x \in Plain[MaxDepth], NEW p \in Seq(Byte), NEW q \in Seq(Byte),
                    p \o q = Encode(x), q # <<>>
             PROVE  Parse(p) = Outcome("partial")
  OBVIOUS
<1> DEFINE f == Len(p)
<1>1. Understood(MaxDepth) /\ f \in Nat /\ f <= f
  BY EveryDepth, ConstantFacts
<1>2. p \o q = Encoder[MaxDepth][x]
  BY DEF Encode
<1>3. Parser[f][p] = Outcome("partial")
  <2>1. Len(p) <= f
    BY <1>1
  <2> HIDE DEF f
  <2>2. Knows(Plain[MaxDepth], Encoder[MaxDepth], Parser[f], f)
    BY <1>1 DEF Understood
  <2> QED BY <1>2, <2>1, <2>2 DEF Knows
<1> QED BY <1>3 DEF Parse

(***************************************************************************)
(* Whatever bytes arrive, the parser comes to one of four outcomes.        *)
(***************************************************************************)
Kinds == {"value", "partial", "invalid", "panic"}

Sound(o) == o.kind \in Kinds /\ o.used \in Nat

LEMMA SoundOutcomes ==
    /\ \A kind \in Kinds : Sound(Outcome(kind))
    /\ \A x : \A n \in Nat : Sound(Parsed(x, n))
BY DEF Sound, Outcome, Parsed, Kinds

LEMMA RestTyped ==
    ASSUME NEW S, NEW buf \in Seq(S), NEW n \in Nat
    PROVE  Rest(buf, n) \in Seq(S)
<1>1. \A i \in n + 1 .. Len(buf) : i \in 1 .. Len(buf)
  OBVIOUS
<1>2. n + 1 \in Int /\ Len(buf) \in Int /\ \A i \in n + 1 .. Len(buf) : buf[i] \in S
  BY <1>1
<1> DEFINE k == n + 1
<1> HIDE DEF k
<1>3. SubSeq(buf, k, Len(buf)) \in Seq(S)
  <2>1. k \in Int /\ Len(buf) \in Int /\ \A i \in k .. Len(buf) : buf[i] \in S
    BY <1>2 DEF k
  <2> QED BY <2>1, SubSeqProperties
<1> QED BY <1>3 DEF Rest, k

LEMMA ElementsSound ==
    ASSUME NEW buf \in Seq(Byte), NEW after \in Nat, NEW n \in Nat, NEW parse,
           \A b \in Seq(Byte) : Sound(parse[b])
    PROVE  Sound(Elements(buf, after, n, parse))
<1>1. Scans(buf, after, n, parse)
  BY ScannedExists, Zenon
<1>2. PICK g : /\ Scanned(buf, after, n, parse, g)
               /\ Elements(buf, after, n, parse) =
                     IF g[n].kind = "value" THEN Parsed(Value("array", g[n].items), g[n].used)
                     ELSE Outcome(g[n].kind)
  BY <1>1 DEF Scans
<1> DEFINE Fine(k) == g[k].buf = buf /\ g[k].kind \in Kinds /\ g[k].used \in Nat
                      /\ DOMAIN g[k] = {"buf", "kind", "used", "items"}
           K == {k \in 0 .. n : Fine(k)}
<1>3. 0 \in K
  <2>1. g[0] = Start(buf, after)
    BY <1>2 DEF Scanned
  <2>2. Fine(0)
    BY <2>1 DEF Start, Kinds
  <2> QED BY <2>2
<1>4. ASSUME NEW k \in 0 .. n - 1, k \in K PROVE k + 1 \in K
  <2> DEFINE m == k + 1
             got == g[k]
             r == Rest(got.buf, got.used)
  <2>1. m \in 1 .. n /\ m \in 0 .. n /\ m - 1 = k
    OBVIOUS
  <2>2. got.buf = buf /\ got.kind \in Kinds /\ got.used \in Nat
        /\ DOMAIN got = {"buf", "kind", "used", "items"}
    BY <1>4
  <2>3. r \in Seq(Byte)
    <3> HIDE DEF got
    <3> QED BY <2>2, RestTyped
  <2>4. g[m] = NextElement(g[m - 1], parse)
    <3> HIDE DEF m
    <3> QED BY <1>2, <2>1 DEF Scanned
  <2>5. g[m] = NextElement(got, parse)
    BY <2>1, <2>4
  <2> HIDE DEF got
  <2>6. Sound(parse[r])
    BY <2>3
  <2>7. CASE got.kind # "value"
    <3>1. NextElement(got, parse) = got
      BY <2>7 DEF NextElement
    <3> QED BY <2>1, <2>2, <2>5, <3>1
  <2>8. CASE got.kind = "value"
    <3> DEFINE e == parse[r]
    <3>1. NextElement(got, parse) =
             [got EXCEPT !.kind = e.kind, !.used = @ + e.used, !.items = Append(@, e.value)]
      BY <2>8 DEF NextElement
    <3> HIDE DEF r, e, m
    <3>2. e.kind \in Kinds /\ e.used \in Nat
      BY <2>6 DEF Sound, e
    <3>3. Fine(m)
      BY <2>2, <2>5, <3>1, <3>2
    <3> QED BY <2>1, <3>3 DEF m
  <2> QED BY <2>7, <2>8
<1>5. n \in K
  <2>1. n \in 0 .. n
    OBVIOUS
  <2> HIDE DEF K
  <2> QED BY <1>3, <1>4, <2>1, Cats!Induction
<1>6. g[n].kind \in Kinds /\ g[n].used \in Nat
  BY <1>5
<1> QED BY <1>2, <1>6, SoundOutcomes

LEMMA OpenedSound ==
    ASSUME NEW buf \in Seq(Byte), NEW line, NEW after \in Nat, NEW parse,
           \A b \in Seq(Byte) : Sound(parse[b])
    PROVE  Sound(Opened(buf, line, after, parse))
<1> DEFINE n == Number(line)
<1>1. IsNumber(line) /\ n >= 0 => n \in Nat /\ after + n + 2 \in Nat
  BY ConstantFacts DEF IsNumber, I64
<1>2. \A kind \in {"partial", "invalid", "panic"} : Sound(Outcome(kind))
  BY SoundOutcomes DEF Kinds
<1>3. \A x : Sound(Parsed(x, after))
  BY SoundOutcomes
<1>4. IsNumber(line) /\ n >= 0 => \A x : Sound(Parsed(x, after + n + 2))
  BY <1>1, SoundOutcomes
<1>5. IsNumber(line) /\ n >= 0 => Sound(Elements(buf, after, n, parse))
  BY <1>1, ElementsSound
<1>6. CASE buf[1] \in {"+", "-"}
  BY <1>2, <1>3, <1>6 DEF Opened
<1>7. CASE buf[1] = ":"
  BY <1>2, <1>3, <1>7 DEF Opened
<1>8. CASE buf[1] \in {"$", "*"} /\ ~IsNumber(line)
  <2>1. Opened(buf, line, after, parse) = Outcome("invalid")
    BY <1>8 DEF Opened
  <2> QED BY <1>2, <2>1
<1>9. CASE buf[1] \in {"$", "*"} /\ IsNumber(line) /\ n < 0
  <2>1. Opened(buf, line, after, parse) = Parsed(Null, after)
    BY <1>1, <1>9 DEF Opened
  <2> QED BY <1>3, <2>1
<1>10. CASE buf[1] = "$" /\ IsNumber(line) /\ n >= 0
  <2>1. Opened(buf, line, after, parse) \in
           {Outcome("partial"),
            Parsed(Value("bulk", SubSeq(buf, after + 1, after + n)), after + n + 2)}
    BY <1>1, <1>10 DEF Opened
  <2> QED BY <1>2, <1>4, <1>10, <2>1
<1>11. CASE buf[1] = "*" /\ IsNumber(line) /\ n >= 0
  <2>1. Opened(buf, line, after, parse) \in {Outcome("panic"), Elements(buf, after, n, parse)}
    BY <1>1, <1>11 DEF Opened
  <2> QED BY <1>2, <1>5, <1>11, <2>1
<1>12. CASE buf[1] \notin {"+", "-", ":", "$", "*"}
  <2>1. Opened(buf, line, after, parse) = Outcome("invalid")
    BY <1>12 DEF Opened
  <2> QED BY <1>2, <2>1
<1>13. IsNumber(line) => n \in Int
  BY ConstantFacts DEF IsNumber, I64
<1> HIDE DEF n
<1>14. IsNumber(line) => n < 0 \/ n >= 0
  BY <1>13
<1> QED BY <1>6, <1>7, <1>8, <1>9, <1>10, <1>11, <1>12, <1>14

LEMMA ParseKinds ==
    \A buf \in Seq(Byte) : Parse(buf).kind \in Kinds
<1> DEFINE P(f) == \A b \in Seq(Byte) : Sound(Parser[f][b])
           K == {f \in Nat : P(f)}
<1>1. 0 \in K
  <2>1. Sound(Outcome("partial"))
    BY SoundOutcomes DEF Kinds
  <2> QED BY <2>1, ParserAt
<1>2. ASSUME NEW f \in Nat, f \in K PROVE f + 1 \in K
  <2> DEFINE g == f + 1
  <2>1. g \in Nat \ {0} /\ g - 1 = f
    OBVIOUS
  <2> HIDE DEF g
  <2>2. ASSUME NEW b \in Seq(Byte) PROVE Sound(Parser[g][b])
    <3> DEFINE end == Min(LineEnds(b))
               line == SubSeq(b, 2, end - 1)
    <3>1. Parser[g][b] = ParsedWith(b, Parser[f])
      BY <2>1, ParserAt
    <3>2. CASE LineEnds(b) = {}
      <4>1. ParsedWith(b, Parser[f]) = Outcome("partial")
        BY <3>2 DEF ParsedWith
      <4> QED BY <3>1, <4>1, SoundOutcomes DEF Kinds
    <3>3. CASE LineEnds(b) # {} /\ end = 1
      <4>1. ParsedWith(b, Parser[f]) = Outcome("panic")
        BY <3>3 DEF ParsedWith
      <4> QED BY <3>1, <4>1, SoundOutcomes DEF Kinds
    <3>4. CASE LineEnds(b) # {} /\ end # 1
      <4>1. ParsedWith(b, Parser[f]) = Opened(b, line, end + 1, Parser[f])
        <5> HIDE DEF line
        <5> QED BY <3>4 DEF ParsedWith, line
      <4>2. end + 1 \in Nat
        <5>1. LineEnds(b) \subseteq Nat
          BY DEF LineEnds
        <5>2. PICK i \in LineEnds(b) : \A j \in LineEnds(b) : i <= j
          BY <3>4, <5>1, Cats!LeastExists
        <5>3. end \in LineEnds(b)
          BY <5>2 DEF Min
        <5> QED BY <5>1, <5>3
      <4> DEFINE after == end + 1
      <4> HIDE DEF line, end, after
      <4>3. after \in Nat /\ \A c \in Seq(Byte) : Sound(Parser[f][c])
        BY <1>2, <4>2 DEF after
      <4>4. Sound(Opened(b, line, after, Parser[f]))
        BY <4>3, OpenedSound
      <4> QED BY <3>1, <4>1, <4>4 DEF after
    <3> QED BY <3>2, <3>3, <3>4
  <2> QED BY <2>1, <2>2 DEF g
<1>3. \A f \in Nat : f \in K
  <2> HIDE DEF K
  <2> QED BY <1>1, <1>2, Cats!NaturalInduction
<1>4. ASSUME NEW buf \in Seq(Byte) PROVE Parse(buf).kind \in Kinds
  <2>1. Len(buf) \in Nat
    OBVIOUS
  <2>2. P(Len(buf))
    BY <1>3, <2>1
  <2> QED BY <2>2 DEF Parse, Sound
<1> QED BY <1>4

(***************************************************************************)
(* Sequences of values, encoded and decoded.                               *)
(***************************************************************************)
Spoken == Plain[MaxDepth]

LEMMA SpokenFacts ==
    /\ Encodes(Spoken, Encoder[MaxDepth])
    /\ \A x \in Spoken : Encode(x) \in Seq(Byte) /\ Encode(x) = Encoder[MaxDepth][x]
                         /\ Len(Encode(x)) \in Nat \ {0}
<1>1. Encodes(Spoken, Encoder[MaxDepth])
  BY EveryDepth, ConstantFacts DEF Understood, Spoken
<1>2. ASSUME NEW x \in Spoken
      PROVE  Encode(x) \in Seq(Byte) /\ Encode(x) = Encoder[MaxDepth][x]
             /\ Len(Encode(x)) \in Nat \ {0}
  <2> DEFINE e == Encode(x)
  <2>1. e = Encoder[MaxDepth][x]
    BY DEF Encode
  <2>2. e \in Seq(Byte) /\ e # <<>>
    BY <1>1, <2>1 DEF Encodes
  <2> HIDE DEF e
  <2>3. Len(e) \in Nat \ {0}
    BY <2>2
  <2> QED BY <2>1, <2>2, <2>3 DEF e
<1> QED BY <1>1, <1>2

Pieced(xs) == [i \in DOMAIN xs |-> Encode(xs[i])]

LEMMA EncodeNone ==
    EncodeAll(<<>>) = <<>>
<1>1. Pieced(<<>>) = <<>>
  <2> DEFINE f == [i \in 1 .. 0 |-> Encode(<<>>[i])]
  <2>1. Pieced(<<>>) = f
    <3>1. DOMAIN <<>> = 1 .. 0
      OBVIOUS
    <3> QED BY <3>1 DEF Pieced
  <2>2. f \in Seq({}) /\ Len(f) = 0
    <3>1. \A i \in 1 .. 0 : Encode(<<>>[i]) \in {}
      OBVIOUS
    <3> QED BY <3>1
  <2> HIDE DEF f
  <2>3. f = <<>>
    BY <2>2
  <2> QED BY <2>1, <2>3
<1>2. EncodeAll(<<>>) = Cats!Left(<<>>, <<>>)
  BY <1>1, CatIs DEF EncodeAll, Pieced
<1> QED BY <1>2, Cats!LeftEmpty

LEMMA EncodeMore ==
    ASSUME NEW xs \in Seq(Spoken), NEW x \in Spoken
    PROVE  EncodeAll(Append(xs, x)) = EncodeAll(xs) \o Encode(x)
<1> DEFINE n == Len(xs)
           ys == Append(xs, x)
           e == Encode(x)
           s == Pieced(xs)
           t == Pieced(ys)
<1>1. n \in Nat /\ DOMAIN xs = 1 .. n /\ \A i \in 1 .. n : xs[i] \in Spoken
  OBVIOUS
<1>2. DOMAIN ys = 1 .. n + 1 /\ (\A i \in 1 .. n : ys[i] = xs[i]) /\ ys[n + 1] = x
  BY <1>1
<1>3. s \in Seq(Seq(Byte)) /\ Len(s) = n /\ \A i \in 1 .. n : s[i] = Encode(xs[i])
  <2>1. \A i \in 1 .. n : Encode(xs[i]) \in Seq(Byte)
    BY <1>1, SpokenFacts
  <2> HIDE DEF n
  <2>2. s = [i \in 1 .. n |-> Encode(xs[i])]
    BY <1>1 DEF Pieced
  <2> HIDE DEF s
  <2> QED BY <1>1, <2>1, <2>2
<1>4. e \in Seq(Byte)
  BY SpokenFacts
<1> HIDE DEF ys, s, e, n
<1>5. t = Append(s, e)
  <2>1. t = [i \in 1 .. n + 1 |-> Encode(ys[i])]
    BY <1>2 DEF Pieced
  <2>2. /\ Append(s, e) \in Seq(Seq(Byte)) /\ Len(Append(s, e)) = n + 1
        /\ (\A i \in 1 .. n : Append(s, e)[i] = s[i]) /\ Append(s, e)[n + 1] = e
    BY <1>1, <1>3, <1>4
  <2>3. \A i \in 1 .. n + 1 : Encode(ys[i]) = Append(s, e)[i]
    <3> TAKE i \in 1 .. n + 1
    <3>1. i \in 1 .. n \/ i = n + 1
      BY <1>1
    <3>2. CASE i \in 1 .. n
      BY <1>2, <1>3, <2>2, <3>2
    <3>3. CASE i = n + 1
      BY <1>2, <2>2, <3>3 DEF e
    <3> QED BY <3>1, <3>2, <3>3, Zenon
  <2> DEFINE u == Append(s, e)
  <2> HIDE DEF t, u
  <2>4. u \in Seq(Seq(Byte)) /\ Len(u) = n + 1 /\ (\A i \in 1 .. n + 1 : Encode(ys[i]) = u[i])
    BY <2>2, <2>3 DEF u
  <2>5. t \in Seq(Seq(Byte)) /\ Len(t) = n + 1 /\ \A i \in 1 .. n + 1 : t[i] = u[i]
    <3>1. \A i \in 1 .. n + 1 : u[i] \in Seq(Byte)
      BY <2>4
    <3>2. t = [i \in 1 .. n + 1 |-> u[i]]
      BY <2>1, <2>4
    <3> QED BY <1>1, <3>1, <3>2
  <2>6. t = u
    BY <2>4, <2>5, SeqEqual
  <2> QED BY <2>6 DEF u
<1>6. EncodeAll(ys) = Cats!Left(<<>>, t) /\ EncodeAll(xs) = Cats!Left(<<>>, s)
  BY CatIs DEF EncodeAll, Pieced, s
<1>7. Cats!Left(<<>>, Append(s, e)) = Cat(Cats!Left(<<>>, s), e)
  BY <1>3, <1>4, Cats!LeftAppend
<1> QED BY <1>5, <1>6, <1>7 DEF Cat, ys, e

\* What is encoded up to each value.
Upto(xs) == [k \in 0 .. Len(xs) |-> EncodeAll(SubSeq(xs, 1, k))]

LEMMA UptoJoins ==
    ASSUME NEW xs \in Seq(Spoken)
    PROVE  /\ Joined(<<>>, xs, Encoder[MaxDepth], Upto(xs))
           /\ Upto(xs)[Len(xs)] = EncodeAll(xs)
<1> DEFINE n == Len(xs)
           h == Upto(xs)
<1>1. n \in Nat /\ 0 \in 0 .. n /\ n \in 0 .. n
  OBVIOUS
<1>2. \A k \in 0 .. n : h[k] = EncodeAll(SubSeq(xs, 1, k))
  BY DEF Upto
<1>3. SubSeq(xs, 1, n) = xs /\ SubSeq(xs, 1, 0) = <<>>
  BY SubSeqFull, SubSeqEmpty
<1> HIDE DEF h, n
<1>4. h[0] = <<>> /\ h[n] = EncodeAll(xs)
  BY <1>1, <1>2, <1>3, EncodeNone
<1>5. ASSUME NEW m \in 1 .. n PROVE h[m] = h[m - 1] \o Encoder[MaxDepth][xs[m]]
  <2> DEFINE k == m - 1
             ys == SubSeq(xs, 1, k)
             x == xs[m]
  <2>1. k \in 0 .. n - 1 /\ k \in 0 .. n /\ k + 1 = m /\ m \in 0 .. n
    BY <1>1
  <2> HIDE DEF k
  <2>2. x \in Spoken
    BY DEF n
  <2>3. ys \in Seq(Spoken)
    BY <2>1, Pieces DEF n
  <2>4. SubSeq(xs, 1, k + 1) = Append(ys, xs[k + 1])
    BY <2>1, OneMore DEF n
  <2> HIDE DEF ys, x
  <2>5. EncodeAll(Append(ys, x)) = EncodeAll(ys) \o Encode(x)
    BY <2>2, <2>3, EncodeMore
  <2>6. Encode(x) = Encoder[MaxDepth][x]
    BY <2>2, SpokenFacts
  <2>7. h[m] = EncodeAll(Append(ys, x)) /\ h[k] = EncodeAll(ys)
    BY <1>2, <2>1, <2>4 DEF x, ys
  <2> QED BY <2>5, <2>6, <2>7 DEF k, x
<1> QED BY <1>4, <1>5 DEF Joined, h, n

LEMMA UptoFacts ==
    ASSUME NEW xs \in Seq(Spoken)
    PROVE  /\ \A k \in 0 .. Len(xs) : /\ Upto(xs)[k] \in Seq(Byte) /\ Len(Upto(xs)[k]) \in Nat
                                      /\ Continues(EncodeAll(xs), Upto(xs)[k])
                                      /\ Upto(xs)[k] = EncodeAll(SubSeq(xs, 1, k))
           /\ \A k \in 0 .. Len(xs) - 1 :
                 /\ xs[k + 1] \in Spoken
                 /\ Upto(xs)[k + 1] = Upto(xs)[k] \o Encode(xs[k + 1])
           /\ \A k \in 0 .. Len(xs) : \A j \in 0 .. k : Len(Upto(xs)[j]) <= Len(Upto(xs)[k])
           /\ Upto(xs)[0] = <<>> /\ Upto(xs)[Len(xs)] = EncodeAll(xs)
           /\ EncodeAll(xs) \in Seq(Byte)
<1> DEFINE n == Len(xs)
           h == Upto(xs)
           encode == Encoder[MaxDepth]
<1>1. Joined(<<>>, xs, encode, h) /\ h[n] = EncodeAll(xs)
  BY UptoJoins
<1>2. Encodes(Spoken, encode)
  BY SpokenFacts
<1>3. n \in Nat /\ n \in 0 .. n /\ 0 \in 0 .. n /\ <<>> \in Seq(Byte)
        /\ \A k \in 0 .. n - 1 : xs[k + 1] \in Spoken
  OBVIOUS
<1> HIDE DEF h, encode
<1>4. \A k \in 0 .. n : h[k] \in Seq(Byte)
  BY <1>1, <1>2, <1>3, JoinedTyped
<1>5. \A k \in 0 .. n : \A j \in 0 .. k : Continues(h[k], h[j])
  BY <1>1, <1>2, <1>3, JoinedGrows
<1>6. \A k \in 0 .. n : Continues(h[n], h[k])
  BY <1>3, <1>5
<1>7. ASSUME NEW k \in 0 .. n, NEW j \in 0 .. k PROVE Len(h[j]) <= Len(h[k])
  <2>1. Continues(h[k], h[j])
    BY <1>5
  <2>2. h[j] \in Seq(Byte)
    <3>1. j \in 0 .. n
      BY <1>3
    <3> QED BY <1>4, <3>1
  <2> QED BY <2>1, <2>2, ContinuesLonger
<1>8. ASSUME NEW k \in 0 .. n - 1 PROVE h[k + 1] = h[k] \o Encode(xs[k + 1])
  <2> DEFINE m == k + 1
             x == xs[m]
  <2>1. m \in 1 .. n /\ m - 1 = k
    BY <1>3
  <2>2. x \in Spoken
    BY <1>3
  <2> HIDE DEF m
  <2>3. h[m] = h[m - 1] \o encode[xs[m]]
    BY <1>1, <2>1 DEF Joined
  <2>4. Encode(x) = encode[x]
    BY <2>2, SpokenFacts DEF encode
  <2> QED BY <2>1, <2>3, <2>4 DEF m
<1>9. h[0] = <<>>
  BY <1>1 DEF Joined
<1>10. \A k \in 0 .. n : Len(h[k]) \in Nat
  BY <1>4
<1>11. \A k \in 0 .. n : h[k] = EncodeAll(SubSeq(xs, 1, k))
  BY DEF h, Upto
<1> HIDE DEF n
<1>12. h[n] \in Seq(Byte)
  BY <1>3, <1>4
<1>13. \A k \in 0 .. n : Continues(EncodeAll(xs), h[k])
  BY <1>1, <1>6
<1> QED BY <1>1, <1>3, <1>4, <1>7, <1>8, <1>9, <1>10, <1>11, <1>12, <1>13 DEF h, n

(***************************************************************************)
(* A stream of values, cut anywhere: k of them are gone, some bytes are in *)
(* a buffer, and more are to come.                                         *)
(***************************************************************************)
Stream(xs, tail, k, buf, more) ==
    /\ k \in 0 .. Len(xs) /\ tail \in Seq(Byte) /\ buf \in Seq(Byte) /\ more \in Seq(Byte)
    /\ (Upto(xs)[k] \o buf) \o more = EncodeAll(xs) \o tail

\* The next value is parsed when it is there, and waited for when it is not.
LEMMA NextValue ==
    ASSUME NEW xs \in Seq(Spoken), NEW tail, NEW k, NEW buf, NEW more,
           Stream(xs, tail, k, buf, more), k # Len(xs)
    PROVE  LET x == xs[k + 1]
               e == Encode(x)
           IN /\ k + 1 \in 0 .. Len(xs) /\ x \in Spoken
              /\ Len(e) <= Len(buf) =>
                    /\ Parse(buf) = Parsed(x, Len(e))
                    /\ Len(Rest(buf, Len(e))) = Len(buf) - Len(e) /\ Len(e) \in Nat \ {0}
                    /\ Stream(xs, tail, k + 1, Rest(buf, Len(e)), more)
              /\ Len(buf) < Len(e) => Parse(buf) = Outcome("partial")
<1> DEFINE n == Len(xs)
           x == xs[k + 1]
           e == Encode(x)
           a == Upto(xs)[k]
           b == Upto(xs)[k + 1]
           all == EncodeAll(xs)
<1>1. /\ k \in 0 .. n /\ n \in Nat /\ tail \in Seq(Byte) /\ buf \in Seq(Byte) /\ more \in Seq(Byte)
      /\ (a \o buf) \o more = all \o tail
  BY DEF Stream
<1>2. k \in 0 .. n - 1 /\ k + 1 \in 0 .. n
  BY <1>1
<1>3. a \in Seq(Byte) /\ b \in Seq(Byte) /\ Continues(all, b)
  BY <1>2, <1>1, UptoFacts
<1>4. x \in Spoken /\ b = a \o e
  BY <1>2, UptoFacts
<1>5. PICK t \in Seq(Byte) : all = b \o t
  BY <1>3 DEF Continues
<1> HIDE DEF x
<1>6. e \in Seq(Byte) /\ Len(e) \in Nat \ {0} /\ e # <<>>
  <2>1. e \in Seq(Byte) /\ Len(e) \in Nat \ {0}
    BY <1>4, SpokenFacts
  <2> QED BY <2>1
<1> HIDE DEF e, a, b, all, n
<1> DEFINE u == t \o tail
           v == buf \o more
           w == e \o u
<1>7. u \in Seq(Byte) /\ v \in Seq(Byte)
  BY <1>1, FrontOfConcat
<1> HIDE DEF u
<1>8. w \in Seq(Byte)
  BY <1>6, <1>7, FrontOfConcat
<1>9. all \o tail = b \o u
  <2>1. Regrouped(b, t, tail)
    BY <1>1, <1>3, Regrouping, Zenon
  <2> QED BY <1>5, <2>1 DEF Regrouped, u
<1>10. v = w
  <2>1. Regrouped(a, e, u) /\ Regrouped(a, buf, more)
    BY <1>1, <1>3, <1>6, <1>7, Regrouping, Zenon
  <2>2. (a \o e) \o u = a \o w
    BY <2>1 DEF Regrouped
  <2>3. (a \o buf) \o more = a \o v
    BY <2>1 DEF Regrouped
  <2> HIDE DEF v, w
  <2>4. a \o v = a \o w
    BY <1>1, <1>4, <1>9, <2>2, <2>3
  <2> QED BY <1>3, <1>7, <1>8, <2>4, SameRest
<1>11. buf \o more = e \o u
  BY <1>10
<1>12. ASSUME Len(e) <= Len(buf)
       PROVE  /\ Parse(buf) = Parsed(x, Len(e))
              /\ Len(Rest(buf, Len(e))) = Len(buf) - Len(e)
              /\ Stream(xs, tail, k + 1, Rest(buf, Len(e)), more)
  <2> DEFINE r == Rest(buf, Len(e))
  <2>1. CutTwice(Byte, e, u, buf, more)
    BY <1>1, <1>6, <1>7, <1>11, <1>12 DEF CutTwice
  <2>2. Between(Byte, e, u, buf, more)
    BY <2>1, TwoCuts, Zenon
  <2>3. r \in Seq(Byte) /\ buf = e \o r /\ u = r \o more
    BY <2>2 DEF Between
  <2> HIDE DEF r
  <2>4. Parse(e \o r) = Parsed(x, Len(e))
    <3>1. Parse(Encode(x) \o r) = Parsed(x, Len(Encode(x)))
      BY <1>4, <2>3, ParseInvertsEncode DEF Spoken
    <3> QED BY <3>1 DEF e
  <2>5. Len(r) = Len(buf) - Len(e)
    <3>1. Len(e \o r) = Len(e) + Len(r) /\ Len(r) \in Nat
      BY <1>6, <2>3, FrontOfConcat
    <3>2. Len(buf) = Len(e) + Len(r)
      BY <2>3, <3>1
    <3> QED BY <1>6, <3>1, <3>2
  <2>6. (b \o r) \o more = all \o tail
    <3>1. Regrouped(b, r, more)
      BY <1>1, <1>3, <2>3, Regrouping, Zenon
    <3> QED BY <1>9, <2>3, <3>1 DEF Regrouped
  <2>7. Stream(xs, tail, k + 1, r, more)
    BY <1>1, <1>2, <2>3, <2>6 DEF Stream, b, all, n
  <2>8. Parse(buf) = Parsed(x, Len(e))
    BY <2>3, <2>4
  <2> QED BY <2>5, <2>7, <2>8 DEF r
<1>13. ASSUME Len(buf) < Len(e) PROVE Parse(buf) = Outcome("partial")
  <2> DEFINE q == Rest(e, Len(buf))
  <2>1. Len(buf) \in Nat /\ Len(buf) <= Len(e)
    BY <1>1, <1>6, <1>13
  <2>2. CutTwice(Byte, buf, more, e, u)
    BY <1>1, <1>6, <1>7, <1>11, <2>1 DEF CutTwice
  <2>3. Between(Byte, buf, more, e, u)
    BY <2>2, TwoCuts, Zenon
  <2>4. q \in Seq(Byte) /\ e = buf \o q
    BY <2>3 DEF Between
  <2> HIDE DEF q
  <2>5. q # <<>>
    <3>1. Len(buf \o q) = Len(buf) + Len(q)
      BY <1>1, <2>4, FrontOfConcat
    <3>2. Len(e) = Len(buf) + Len(q)
      BY <2>4, <3>1
    <3> SUFFICES ASSUME q = <<>> PROVE FALSE
      OBVIOUS
    <3>3. Len(q) = 0
      OBVIOUS
    <3> QED BY <1>6, <1>13, <2>1, <3>2, <3>3
  <2>6. buf \o q = Encode(x)
    BY <2>4 DEF e
  <2> QED BY <1>1, <1>4, <2>4, <2>5, <2>6, ParseWaits, Zenon DEF Spoken
<1> QED BY <1>2, <1>4, <1>6, <1>12, <1>13 DEF x, e, n

LEMMA LastBytes ==
    ASSUME NEW xs \in Seq(Spoken), NEW tail, NEW buf, NEW more,
           Stream(xs, tail, Len(xs), buf, more)
    PROVE  buf \o more = tail
<1> DEFINE n == Len(xs)
           a == Upto(xs)[n]
           v == buf \o more
<1>1. tail \in Seq(Byte) /\ buf \in Seq(Byte) /\ more \in Seq(Byte)
      /\ (a \o buf) \o more = EncodeAll(xs) \o tail
  BY DEF Stream
<1>2. a = EncodeAll(xs) /\ EncodeAll(xs) \in Seq(Byte)
  BY UptoFacts
<1>3. v \in Seq(Byte)
  BY <1>1, FrontOfConcat
<1> HIDE DEF a
<1>4. (a \o buf) \o more = a \o v
  <2>1. Regrouped(a, buf, more)
    BY <1>1, <1>2, Regrouping, Zenon
  <2> QED BY <2>1 DEF Regrouped
<1> HIDE DEF v
<1>5. a \o v = a \o tail
  BY <1>1, <1>2, <1>4
<1>6. v = tail
  BY <1>1, <1>2, <1>3, <1>5, SameRest
<1> QED BY <1>6 DEF v

LEMMA NothingParsed ==
    Parse(<<>>) = Outcome("partial")
<1>1. <<>> \in Seq(Byte) /\ Len(<<>>) = 0
  OBVIOUS
<1> QED BY <1>1, ParserAt DEF Parse

\* A client, after so many turns.
Heard(xs, buf, r, i) ==
    \E k \in 0 .. Len(xs) :
       /\ r = [values |-> SubSeq(xs, 1, k), rest |-> r.rest]
       /\ Stream(xs, <<>>, k, r.rest, <<>>)
       /\ k = Len(xs) \/ Len(r.rest) + i <= Len(buf)

LEMMA HeardMore ==
    ASSUME NEW xs \in Seq(Spoken), NEW buf \in Seq(Byte), NEW r, NEW i \in Nat, Heard(xs, buf, r, i)
    PROVE  Heard(xs, buf, Received(r, i + 1), i + 1)
<1> DEFINE n == Len(xs)
           b == r.rest
<1>1. PICK k \in 0 .. n : /\ r = [values |-> SubSeq(xs, 1, k), rest |-> b]
                          /\ Stream(xs, <<>>, k, b, <<>>)
                          /\ k = n \/ Len(b) + i <= Len(buf)
  BY DEF Heard
<1>2. b \in Seq(Byte) /\ n \in Nat
  BY <1>1 DEF Stream
<1>3. CASE k = n
  <2>1. b \o <<>> = <<>>
    BY <1>1, <1>3, LastBytes
  <2>2. b \o <<>> = b
    BY <1>2, ConcatEmptySeq
  <2>3. Parse(b).kind # "value"
    BY <2>1, <2>2, NothingParsed DEF Outcome
  <2>4. Received(r, i + 1) = r
    BY <2>3 DEF Received
  <2> HIDE DEF b, n
  <2>5. Heard(xs, buf, r, i + 1)
    BY <1>1, <1>3 DEF Heard, n, b
  <2> QED BY <2>4, <2>5
<1>4. CASE k # n
  <2> DEFINE x == xs[k + 1]
             e == Encode(x)
             m == k + 1
             c == Rest(b, Len(e))
  <2>1. /\ m \in 0 .. n /\ x \in Spoken
        /\ Len(e) <= Len(b) =>
              /\ Parse(b) = Parsed(x, Len(e))
              /\ Len(c) = Len(b) - Len(e) /\ Len(e) \in Nat \ {0}
              /\ Stream(xs, <<>>, m, c, <<>>)
    <3> HIDE DEF b
    <3> QED BY <1>1, <1>4, NextValue
  <2>2. Len(e) <= Len(b)
    <3> DEFINE h == Upto(xs)
    <3>1. /\ (h[k] \o b) \o <<>> = EncodeAll(xs) \o <<>> /\ h[k] \in Seq(Byte)
          /\ EncodeAll(xs) \in Seq(Byte) /\ h[n] = EncodeAll(xs)
      BY <1>1, UptoFacts DEF Stream
    <3>2. h[m] = h[k] \o e /\ Len(h[m]) <= Len(h[n]) /\ Len(h[m]) \in Nat /\ Len(h[n]) \in Nat
      <4>1. k \in 0 .. n - 1 /\ n \in 0 .. n /\ m \in 0 .. n
        BY <1>2, <1>4, <2>1
      <4>2. h[k + 1] = h[k] \o Encode(xs[k + 1])
        BY <4>1, UptoFacts
      <4> HIDE DEF m, h
      <4>3. Len(h[m]) <= Len(h[n])
        BY <4>1, UptoFacts DEF h
      <4>4. Len(h[m]) \in Nat /\ Len(h[n]) \in Nat
        BY <4>1, UptoFacts DEF h
      <4> QED BY <4>2, <4>3, <4>4 DEF m
    <3> HIDE DEF h, b, e, m
    <3>3. e \in Seq(Byte)
      BY <2>1, SpokenFacts DEF e
    <3>4. h[k] \o b \in Seq(Byte) /\ Len(h[k] \o b) = Len(h[k]) + Len(b) /\ Len(b) \in Nat
          /\ Len(h[k]) \in Nat
      BY <1>2, <3>1, FrontOfConcat
    <3>5. Len(h[k] \o e) = Len(h[k]) + Len(e) /\ Len(e) \in Nat
      BY <3>1, <3>3, FrontOfConcat
    <3>6. h[k] \o b = h[n]
      <4> DEFINE d == h[k] \o b
                 all == EncodeAll(xs)
      <4> HIDE DEF d, all
      <4>1. d \o <<>> = d /\ all \o <<>> = all
        <5>1. d \in Seq(Byte) /\ all \in Seq(Byte)
          BY <3>1, <3>4 DEF d, all
        <5> QED BY <5>1, ConcatEmptySeq
      <4>2. d \o <<>> = all \o <<>>
        BY <3>1 DEF d, all
      <4> QED BY <3>1, <4>1, <4>2 DEF d, all
    <3>7. Len(h[n]) = Len(h[k]) + Len(b) /\ Len(h[m]) = Len(h[k]) + Len(e)
      BY <3>2, <3>4, <3>5, <3>6
    <3> DEFINE l1 == Len(h[n])
               l2 == Len(h[k])
               l3 == Len(b)
               l4 == Len(e)
               l5 == Len(h[m])
    <3>8. l1 = l2 + l3 /\ l5 = l2 + l4 /\ l5 <= l1 /\ l1 \in Nat /\ l2 \in Nat /\ l3 \in Nat /\ l4 \in Nat
      BY <3>2, <3>4, <3>5, <3>7
    <3> HIDE DEF l1, l2, l3, l4, l5
    <3>9. l4 <= l3
      BY <3>8
    <3> QED BY <3>9 DEF l3, l4
  <2>3. SubSeq(xs, 1, k + 1) = Append(SubSeq(xs, 1, k), x)
    <3>1. k \in 0 .. Len(xs) - 1
      BY <1>2, <1>4
    <3> QED BY <3>1, OneMore
  <2>4. Received(r, i + 1) = [values |-> SubSeq(xs, 1, m), rest |-> c]
    <3> DEFINE ys == SubSeq(xs, 1, k)
               zs == SubSeq(xs, 1, k + 1)
               l == Len(e)
               p == Parse(b)
    <3>1. p = Parsed(x, l) /\ zs = Append(ys, x) /\ c = Rest(b, l)
      BY <2>1, <2>2, <2>3
    <3>2. r.values = ys /\ r.rest = b
      BY <1>1
    <3> HIDE DEF ys, zs, l, c, x
    <3>3. p.kind = "value" /\ p.value = x /\ p.used = l
      BY <3>1 DEF Parsed
    <3>4. Received(r, i + 1) = [values |-> Append(r.values, p.value), rest |-> Rest(r.rest, p.used)]
      BY <3>3 DEF Received
    <3>5. Received(r, i + 1) = [values |-> zs, rest |-> c]
      <4> HIDE DEF p, b
      <4> QED BY <3>1, <3>2, <3>3, <3>4
    <3> QED BY <3>5 DEF zs
  <2> DEFINE s == Received(r, i + 1)
  <2>5. Len(c) + (i + 1) <= Len(buf) /\ Stream(xs, <<>>, m, c, <<>>)
    <3>1. Len(b) + i <= Len(buf) /\ Len(b) \in Nat /\ Len(buf) \in Nat
      BY <1>1, <1>2, <1>4
    <3> DEFINE l1 == Len(b)
               l2 == Len(e)
               l3 == Len(c)
               l4 == Len(buf)
    <3>2. l1 + i <= l4 /\ l1 \in Nat /\ l4 \in Nat /\ l3 = l1 - l2 /\ l2 \in Nat \ {0}
      BY <2>1, <2>2, <3>1
    <3> HIDE DEF l1, l2, l3, l4
    <3>3. l3 + (i + 1) <= l4
      BY <3>2
    <3> QED BY <2>1, <2>2, <3>3 DEF l3, l4
  <2> HIDE DEF c, m
  <2>6. s = [values |-> SubSeq(xs, 1, m), rest |-> c]
    BY <2>4
  <2> HIDE DEF s
  <2>7. s.rest = c
    BY <2>6
  <2>8. Heard(xs, buf, s, i + 1)
    BY <2>1, <2>5, <2>6, <2>7 DEF Heard
  <2> QED BY <2>8 DEF s
<1> QED BY <1>3, <1>4

(***************************************************************************)
(* A client that parses what the server has encoded gets the same values,  *)
(* in the same order, and no bytes are left.                               *)
(***************************************************************************)
THEOREM DecodedIsEncoded ==
    \A xs \in Seq(Plain[MaxDepth]) : Decoded(EncodeAll(xs)) = [values |-> xs, rest |-> <<>>]
<1> SUFFICES ASSUME NEW xs \in Seq(Spoken)
             PROVE  Decoded(EncodeAll(xs)) = [values |-> xs, rest |-> <<>>]
  BY DEF Spoken
<1> DEFINE buf == EncodeAll(xs)
           n == Len(xs)
           l == Len(buf)
           s == [i \in 1 .. l |-> i]
           start == [values |-> <<>>, rest |-> buf]
<1>1. buf \in Seq(Byte) /\ n \in Nat /\ Upto(xs)[0] = <<>>
  <2>1. EncodeAll(xs) \in Seq(Byte) /\ Upto(xs)[0] = <<>>
    BY UptoFacts
  <2> QED BY <2>1
<1> HIDE DEF buf
<1>2. l \in Nat /\ s \in Seq(1 .. l) /\ Len(s) = l /\ \A i \in 1 .. l : s[i] = i
  BY <1>1
<1>3. Decoded(buf) = Receipts!Left(start, s)
  BY ReceivedIs DEF Decoded
<1>4. PICK g : Receipts!Runs(start, s, g) /\ g[Len(s)] = Receipts!Left(start, s)
  BY <1>2, Receipts!LeftRuns
<1> HIDE DEF s, l
<1> DEFINE K == {i \in 0 .. l : Heard(xs, buf, g[i], i)}
<1>5. 0 \in K
  <2>1. g[0] = start
    BY <1>4 DEF Receipts!Runs
  <2>2. SubSeq(xs, 1, 0) = <<>>
    BY SubSeqEmpty
  <2>3. Stream(xs, <<>>, 0, buf, <<>>)
    <3>1. <<>> \o buf = buf
      BY <1>1, ConcatEmptySeq
    <3> QED BY <1>1, <3>1 DEF Stream, buf
  <2>4. 0 \in 0 .. Len(xs) /\ Len(buf) + 0 <= Len(buf)
    BY <1>1
  <2>5. start.rest = buf /\ start = [values |-> SubSeq(xs, 1, 0), rest |-> buf]
    BY <2>2
  <2> HIDE DEF start
  <2>6. Heard(xs, buf, start, 0)
    BY <2>3, <2>4, <2>5 DEF Heard
  <2> QED BY <1>2, <2>1, <2>6
<1>6. ASSUME NEW i \in 0 .. l - 1, i \in K PROVE i + 1 \in K
  <2> DEFINE m == i + 1
  <2>1. m \in 1 .. l /\ m \in 0 .. l /\ m - 1 = i /\ i \in Nat
    BY <1>2
  <2>2. Heard(xs, buf, g[i], i)
    BY <1>6
  <2>3. Heard(xs, buf, Received(g[i], i + 1), i + 1)
    BY <1>1, <2>1, <2>2, HeardMore
  <2> HIDE DEF m
  <2>4. g[m] = Received(g[m - 1], s[m]) /\ s[m] = m
    BY <1>2, <1>4, <2>1 DEF Receipts!Runs
  <2> QED BY <2>1, <2>3, <2>4 DEF m
<1>7. l \in K
  <2>1. l \in 0 .. l
    BY <1>2
  <2> HIDE DEF K
  <2> QED BY <1>2, <1>5, <1>6, <2>1, Cats!Induction
<1> DEFINE r == g[l]
<1>8. Heard(xs, buf, r, l)
  BY <1>7
<1>9. PICK k \in 0 .. n : /\ r = [values |-> SubSeq(xs, 1, k), rest |-> r.rest]
                          /\ Stream(xs, <<>>, k, r.rest, <<>>)
                          /\ k = n \/ Len(r.rest) + l <= Len(buf)
  BY <1>8 DEF Heard
<1>10. r.rest \in Seq(Byte)
  BY <1>9 DEF Stream
<1> HIDE DEF r
<1>11. k = n
  <2> SUFFICES ASSUME k # n PROVE FALSE
    OBVIOUS
  <2>1. Len(r.rest) = 0
    <3>1. Len(r.rest) \in Nat /\ Len(r.rest) + l <= l /\ l \in Nat
      BY <1>2, <1>9, <1>10 DEF l
    <3> QED BY <3>1
  <2>2. r.rest = <<>>
    BY <1>10, <2>1
  <2>3. Upto(xs)[k] = EncodeAll(xs)
    <3>1. (Upto(xs)[k] \o <<>>) \o <<>> = EncodeAll(xs) \o <<>> /\ Upto(xs)[k] \in Seq(Byte)
          /\ EncodeAll(xs) \in Seq(Byte)
      BY <1>9, <2>2, UptoFacts DEF Stream
    <3> QED BY <3>1, ConcatEmptySeq
  <2> DEFINE h == Upto(xs)
             m == k + 1
             e == Encode(xs[m])
  <2>4. k \in 0 .. n - 1 /\ m \in 0 .. n /\ n \in 0 .. n
    BY <1>1, <1>9
  <2>5. h[m] = h[k] \o e /\ xs[m] \in Spoken
    BY <2>4, UptoFacts
  <2> HIDE DEF m
  <2>6. /\ Len(h[m]) <= Len(h[n]) /\ h[n] = EncodeAll(xs) /\ h[k] \in Seq(Byte) /\ e \in Seq(Byte)
        /\ Len(e) \in Nat \ {0}
    BY <2>4, <2>5, SpokenFacts, UptoFacts
  <2> HIDE DEF e, h
  <2>7. Len(h[k] \o e) = Len(h[k]) + Len(e) /\ Len(h[k]) \in Nat
    BY <2>6, FrontOfConcat
  <2>8. Len(h[k]) + Len(e) <= Len(h[k])
    BY <2>3, <2>5, <2>6, <2>7 DEF h
  <2> QED BY <2>6, <2>7, <2>8
<1>12. r.rest \o <<>> = <<>> /\ r.rest \o <<>> = r.rest
  BY <1>9, <1>10, <1>11, LastBytes, ConcatEmptySeq
<1>13. SubSeq(xs, 1, n) = xs
  BY SubSeqFull
<1>14. r = [values |-> xs, rest |-> <<>>]
  BY <1>9, <1>11, <1>12, <1>13
<1> QED BY <1>2, <1>3, <1>4, <1>14 DEF r, buf

(***************************************************************************)
(* Replies.                                                                *)
(***************************************************************************)
LEMMA FlatIsSpoken ==
    Flat(Line) \subseteq Spoken /\ Spoken = Nested(Line, Plain[MaxDepth - 1])
    /\ \A d \in Nat : Flat(Line) \subseteq Plain[d]
<1>1. ASSUME NEW d \in Nat PROVE Flat(Line) \subseteq Plain[d]
  <2>1. CASE d = 0
    BY <2>1, PlainAt
  <2>2. CASE d # 0
    BY <2>2, PlainAt DEF Nested
  <2> QED BY <2>1, <2>2
<1>2. MaxDepth \in Nat \ {0}
  BY ConstantFacts
<1> QED BY <1>1, <1>2, PlainAt DEF Spoken

LEMMA BulkIsFlat ==
    ASSUME NEW d \in Nat, NEW y \in Plain[d], y.t = "bulk"
    PROVE  y \in Flat(Line) /\ y.v \in Seq(Byte)
<1>1. y \in Flat(Line)
  <2>1. CASE d = 0
    BY <2>1, PlainAt
  <2>2. CASE d # 0
    <3>1. Plain[d] = Nested(Line, Plain[d - 1])
      BY <2>2, PlainAt
    <3>2. y \notin [t : {"array"}, v : AtMost(MaxItems, Plain[d - 1])]
      OBVIOUS
    <3> QED BY <3>1, <3>2 DEF Nested
  <2> QED BY <2>1, <2>2
<1>2. y \in [t : {"bulk"}, v : AtMost(I64Max, Byte)]
  <2>1. y \notin [t : {"simple", "error"}, v : Line] /\ y \notin [t : {"int"}, v : [1 .. 1 -> I64]]
    OBVIOUS
  <2>2. y # Null
    BY DEF Null, Value
  <2> QED BY <1>1, <2>1, <2>2 DEF Flat
<1>3. y.v \in AtMost(I64Max, Byte)
  BY <1>2
<1> QED BY <1>1, <1>3 DEF AtMost

LEMMA CommandParts ==
    ASSUME NEW x \in Spoken, IsCommand(x)
    PROVE  /\ Len(x.v) \in Nat \ {0} /\ x.v[1].v \in Seq(Byte)
           /\ \A i \in 1 .. Len(x.v) : x.v[i] \in Flat(Line)
<1> DEFINE P == Plain[MaxDepth - 1]
           v == x.v
<1>1. MaxDepth - 1 \in Nat
  BY ConstantFacts
<1>2. x.t = "array" /\ v # <<>> /\ \A i \in DOMAIN v : v[i].t = "bulk"
  BY DEF IsCommand
<1>3. v \in Seq(P)
  <2>1. x \notin Flat(Line)
    BY <1>2 DEF Flat, Null, Value
  <2>2. x \in [t : {"array"}, v : AtMost(MaxItems, P)]
    BY <2>1, FlatIsSpoken DEF Nested
  <2>3. v \in AtMost(MaxItems, P)
    BY <2>2
  <2> HIDE DEF v, P
  <2> QED BY <2>3 DEF AtMost
<1> HIDE DEF v
<1>4. DOMAIN v = 1 .. Len(v) /\ Len(v) \in Nat \ {0} /\ \A i \in 1 .. Len(v) : v[i] \in P
  <2> HIDE DEF P
  <2> QED BY <1>2, <1>3
<1>5. \A i \in 1 .. Len(v) : v[i] \in Flat(Line) /\ v[i].v \in Seq(Byte)
  BY <1>1, <1>2, <1>4, BulkIsFlat
<1>6. 1 \in 1 .. Len(v)
  BY <1>4
<1> QED BY <1>4, <1>5, <1>6 DEF v

LEMMA TextIsFlat ==
    ASSUME NEW kind \in {"simple", "error"}, NEW line \in Line
    PROVE  Value(kind, line) \in Flat(Line)
BY DEF Value, Flat

LEMMA LossyIsText ==
    ASSUME NEW name \in Seq(Byte), LineEnds(name) = {}
    PROVE  <<"E">> \o Lossy(name) \in Line
<1> DEFINE n == Len(name)
           l == Lossy(name)
           s == <<"E">> \o l
<1>1. n \in Nat /\ DOMAIN name = 1 .. n /\ \A i \in 1 .. n : name[i] \in Byte
  OBVIOUS
<1>2. "E" \in Byte /\ Replacement \in Byte /\ "E" # CR /\ "E" # NotUtf8 /\ Replacement # NotUtf8
      /\ Replacement # CR /\ Replacement # LF
  <2>1. "E" \in Byte /\ Replacement \in Byte
    BY ByteAssumption
  <2> QED BY <2>1 DEF CR, LF, NotUtf8, Replacement
<1>3. \A i \in 1 .. n : l[i] = IF name[i] = NotUtf8 THEN Replacement ELSE name[i]
  BY <1>1 DEF Lossy
<1>4. l \in Seq(Byte) /\ Len(l) = n
  <2> DEFINE f == [i \in 1 .. n |-> IF name[i] = NotUtf8 THEN Replacement ELSE name[i]]
  <2>1. l = f
    BY <1>1 DEF Lossy
  <2>2. \A i \in 1 .. n : (IF name[i] = NotUtf8 THEN Replacement ELSE name[i]) \in Byte
    BY <1>1, <1>2
  <2> HIDE DEF l, n
  <2>3. f \in Seq(Byte) /\ Len(f) = n
    BY <1>1, <2>2
  <2> QED BY <2>1, <2>3
<1> HIDE DEF l, n
<1>5. s \in Seq(Byte) /\ Len(s) = n + 1 /\ s[1] = "E" /\ \A i \in 1 .. n : s[i + 1] = l[i]
  <2> DEFINE a == <<"E">>
  <2>1. a \in Seq(Byte) /\ Len(a) = 1 /\ a[1] = "E"
    BY <1>2
  <2> HIDE DEF a
  <2>2. a \o l \in Seq(Byte) /\ Len(a \o l) = 1 + n
        /\ \A i \in 1 .. 1 + n : (a \o l)[i] = IF i <= 1 THEN a[i] ELSE l[i - 1]
    <3>1. a \o l \in Seq(Byte) /\ Len(a \o l) = Len(a) + Len(l)
          /\ \A i \in 1 .. Len(a) + Len(l) : (a \o l)[i] = IF i <= Len(a) THEN a[i] ELSE l[i - Len(a)]
      BY <1>4, <2>1, ConcatProperties
    <3> QED BY <1>4, <2>1, <3>1
  <2>3. s = a \o l
    BY DEF a
  <2> HIDE DEF s
  <2>4. \A i \in 1 .. n : i + 1 \in 1 .. 1 + n /\ ~(i + 1 <= 1) /\ (i + 1) - 1 = i
    BY <1>1
  <2>5. 1 \in 1 .. 1 + n /\ 1 + n = n + 1
    BY <1>1
  <2> QED BY <2>1, <2>2, <2>3, <2>4, <2>5
<1> HIDE DEF s
<1>6. \A i \in 1 .. n + 1 : i = 1 \/ (i - 1 \in 1 .. n /\ (i - 1) + 1 = i)
  BY <1>1
<1>7. NotUtf8 \notin ToSet(s)
  <2>1. \A i \in 1 .. n : l[i] # NotUtf8
    BY <1>2, <1>3
  <2>2. ASSUME NEW i \in 1 .. n + 1 PROVE s[i] # NotUtf8
    <3>1. CASE i = 1
      BY <1>2, <1>5, <3>1
    <3>2. CASE i # 1
      <4> DEFINE j == i - 1
      <4>1. j \in 1 .. n /\ j + 1 = i
        BY <1>6, <3>2
      <4> HIDE DEF j
      <4> QED BY <1>5, <2>1, <4>1
    <3> QED BY <3>1, <3>2
  <2>3. DOMAIN s = 1 .. n + 1
    BY <1>5
  <2> QED BY <2>2, <2>3 DEF ToSet
<1>8. LineEnds(s) = {}
  <2>1. ASSUME NEW i \in 1 .. Len(s) - 1, s[i] = CR, s[i + 1] = LF PROVE FALSE
    <3>1. CASE i = 1
      BY <1>2, <1>5, <2>1, <3>1
    <3>2. CASE i # 1
      <4> DEFINE j == i - 1
      <4>1. j \in 1 .. n - 1 /\ j \in 1 .. n /\ j + 1 \in 1 .. n /\ j + 1 = i
        BY <1>1, <1>5, <3>2
      <4> HIDE DEF j
      <4>2. l[j] = CR /\ l[j + 1] = LF
        BY <1>5, <2>1, <4>1
      <4>3. name[j] = CR /\ name[j + 1] = LF
        BY <1>2, <1>3, <4>1, <4>2
      <4> QED BY <4>1, <4>3 DEF LineEnds, n
    <3> QED BY <3>1, <3>2
  <2> QED BY <2>1 DEF LineEnds
<1> QED BY <1>5, <1>7, <1>8 DEF Line, Text, IsText, s, l

LEMMA ShortLines ==
    <<"P">> \in Line /\ <<"E">> \o <<>> \in Line /\ <<"O", "K">> \in Line
<1>1. {"P", "E", "O", "K"} \subseteq Byte
  BY ByteAssumption
<1>2. \A c \in {"P", "E", "O", "K"} : c # CR /\ c # NotUtf8
  BY DEF CR, NotUtf8
<1>3. ASSUME NEW c \in {"P", "E"} PROVE <<c>> \in Line
  <2> DEFINE s == <<c>>
  <2>1. s \in Seq(Byte) /\ Len(s) = 1 /\ DOMAIN s = 1 .. 1 /\ s[1] = c /\ c # NotUtf8
    BY <1>1, <1>2
  <2> HIDE DEF s
  <2>2. NotUtf8 \notin ToSet(s)
    BY <2>1 DEF ToSet
  <2>3. LineEnds(s) = {}
    BY <2>1 DEF LineEnds
  <2> QED BY <2>1, <2>2, <2>3 DEF Line, Text, IsText, s
<1>4. <<"O", "K">> \in Line
  <2> DEFINE s == <<"O", "K">>
  <2>1. s \in Seq(Byte) /\ Len(s) = 2 /\ DOMAIN s = 1 .. 2 /\ s[1] = "O" /\ s[2] = "K"
    BY <1>1
  <2> HIDE DEF s
  <2>2. NotUtf8 \notin ToSet(s)
    BY <1>2, <2>1 DEF ToSet
  <2>3. LineEnds(s) = {}
    <3>1. s[1] # CR /\ 1 .. Len(s) - 1 = {1}
      BY <1>2, <2>1
    <3> QED BY <3>1 DEF LineEnds
  <2> QED BY <2>1, <2>2, <2>3 DEF Line, Text, IsText, s
<1>5. <<"E">> \o <<>> = <<"E">>
  <2>1. <<"E">> \in Seq(Byte)
    BY <1>1
  <2> QED BY <2>1, ConcatEmptySeq
<1> QED BY <1>3, <1>4, <1>5

\* A request whose name has no line end in it is answered with one value, of one line a line.
LEMMA ReplyIsSpoken ==
    ASSUME NEW x \in Spoken, IsCommand(x) => LineEnds(x.v[1].v) = {}
    PROVE  Reply(x) \in Spoken
<1>1. Flat(Line) \subseteq Spoken /\ Spoken = Nested(Line, Plain[MaxDepth - 1])
  BY FlatIsSpoken
<1>2. CASE ~WellFormed(x)
  <2>1. Refusal(x) \in Flat(Line)
    <3>1. CASE IsCommand(x) /\ Name(x) \notin DOMAIN Arity
      <4> DEFINE name == x.v[1].v
      <4>1. name \in Seq(Byte) /\ LineEnds(name) = {}
        BY <3>1, CommandParts
      <4>2. Refusal(x) = Value("error", <<"E">> \o Lossy(name))
        BY <3>1 DEF Refusal
      <4> HIDE DEF name
      <4>3. <<"E">> \o Lossy(name) \in Line
        BY <4>1, LossyIsText
      <4> QED BY <4>2, <4>3, TextIsFlat
    <3>2. CASE ~(IsCommand(x) /\ Name(x) \notin DOMAIN Arity)
      <4>1. Refusal(x) = Value("error", <<"E">> \o <<>>)
        BY <3>2 DEF Refusal
      <4> QED BY <4>1, ShortLines, TextIsFlat
    <3> QED BY <3>1, <3>2
  <2> QED BY <1>1, <1>2, <2>1 DEF Reply
<1>3. CASE WellFormed(x)
  <2>1. IsCommand(x) /\ Name(x) \in DOMAIN Arity /\ Len(x.v) \in Arity[Name(x)]
    BY <1>3 DEF WellFormed
  <2>2. Len(x.v) \in Nat \ {0} /\ \A i \in 1 .. Len(x.v) : x.v[i] \in Flat(Line)
    BY <2>1, CommandParts
  <2>3. Value("simple", <<"P">>) \in Flat(Line) /\ Value("simple", <<"O", "K">>) \in Flat(Line)
    BY ShortLines, TextIsFlat
  <2>4. Null \in Flat(Line)
    BY DEF Flat
  <2>5. Value("int", <<0>>) \in Flat(Line)
    <3>1. 0 \in I64
      BY ConstantFacts DEF I64
    <3>2. <<0>> \in [1 .. 1 -> I64]
      BY <3>1
    <3> QED BY <3>2 DEF Flat, Value
  <2>6. Value("array", <<>>) \in Spoken
    <3>1. <<>> \in AtMost(MaxItems, Plain[MaxDepth - 1])
      <4> DEFINE P == Plain[MaxDepth - 1]
      <4> HIDE DEF P
      <4>1. <<>> \in Seq(P) /\ Len(<<>>) = 0 /\ 0 <= MaxItems
        BY ConstantFacts
      <4> QED BY <4>1 DEF AtMost, P
    <3> QED BY <1>1, <3>1 DEF Nested, Value
  <2> DEFINE n == Len(x.v)
  <2>7. CASE Name(x) = "PING"
    <3>1. Reply(x) = IF n = 1 THEN Value("simple", <<"P">>) ELSE x.v[2]
      BY <1>3, <2>7 DEF Reply
    <3>2. n # 1 => 2 \in 1 .. n
      <4>1. n \in Nat \ {0}
        BY <2>2
      <4> HIDE DEF n
      <4> QED BY <4>1
    <3> QED BY <1>1, <2>2, <2>3, <3>1, <3>2
  <2>8. CASE Name(x) = "ECHO"
    <3>1. Reply(x) = x.v[2]
      BY <1>3, <2>8 DEF Reply
    <3>2. Arity["ECHO"] = {2}
      BY DEF Arity
    <3>3. 2 \in 1 .. n
      BY <2>1, <2>8, <3>2
    <3> QED BY <1>1, <2>2, <3>1, <3>3
  <2>9. CASE Name(x) \notin {"PING", "ECHO"}
    <3>1. Reply(x) \in {Null, Value("array", <<>>), Value("simple", <<"O", "K">>), Value("int", <<0>>)}
      BY <1>3, <2>9 DEF Reply
    <3> QED BY <1>1, <2>3, <2>4, <2>5, <2>6, <3>1
  <2> QED BY <2>7, <2>8, <2>9
<1> QED BY <1>2, <1>3

Replies(xs) == [i \in DOMAIN xs |-> Reply(xs[i])]

LEMMA OneMoreReply ==
    ASSUME NEW xs \in Seq(Spoken), NEW x \in Spoken,
           \A i \in 1 .. Len(xs) : Reply(xs[i]) \in Spoken, Reply(x) \in Spoken
    PROVE  /\ Replies(xs) \in Seq(Spoken)
           /\ Replies(Append(xs, x)) = Append(Replies(xs), Reply(x))
           /\ Replies(Append(xs, x)) \in Seq(Spoken)
<1> DEFINE n == Len(xs)
           ys == Append(xs, x)
           s == Replies(xs)
           t == Replies(ys)
           y == Reply(x)
<1>1. n \in Nat /\ DOMAIN xs = 1 .. n
  OBVIOUS
<1>2. DOMAIN ys = 1 .. n + 1 /\ (\A i \in 1 .. n : ys[i] = xs[i]) /\ ys[n + 1] = x
  BY <1>1
<1>3. s \in Seq(Spoken) /\ Len(s) = n /\ \A i \in 1 .. n : s[i] = Reply(xs[i])
  <2>1. \A i \in 1 .. n : Reply(xs[i]) \in Spoken
    OBVIOUS
  <2> HIDE DEF n
  <2>2. s = [i \in 1 .. n |-> Reply(xs[i])]
    BY <1>1 DEF Replies
  <2> HIDE DEF s
  <2> QED BY <1>1, <2>1, <2>2
<1>4. y \in Spoken
  OBVIOUS
<1> HIDE DEF ys, s, y, n
<1> DEFINE u == Append(s, y)
<1>5. /\ u \in Seq(Spoken) /\ Len(u) = n + 1
      /\ (\A i \in 1 .. n : u[i] = s[i]) /\ u[n + 1] = y
  BY <1>1, <1>3, <1>4
<1> HIDE DEF u
<1>6. \A i \in 1 .. n + 1 : Reply(ys[i]) = u[i]
  <2> TAKE i \in 1 .. n + 1
  <2>1. i \in 1 .. n \/ i = n + 1
    BY <1>1
  <2>2. CASE i \in 1 .. n
    BY <1>2, <1>3, <1>5, <2>2
  <2>3. CASE i = n + 1
    BY <1>2, <1>5, <2>3 DEF y
  <2> QED BY <2>1, <2>2, <2>3, Zenon
<1>7. t = [i \in 1 .. n + 1 |-> u[i]]
  <2>1. t = [i \in 1 .. n + 1 |-> Reply(ys[i])]
    BY <1>2 DEF Replies
  <2> QED BY <1>6, <2>1
<1> HIDE DEF t
<1>8. t \in Seq(Spoken) /\ Len(t) = n + 1 /\ \A i \in 1 .. n + 1 : t[i] = u[i]
  <2>1. \A i \in 1 .. n + 1 : u[i] \in Spoken
    BY <1>5
  <2> QED BY <1>1, <1>7, <2>1
<1>9. t = u
  BY <1>5, <1>8, SeqEqual
<1> QED BY <1>3, <1>5, <1>9 DEF t, u, s, y, ys

(***************************************************************************)
(* One turn of the loop, and the loop.                                     *)
(***************************************************************************)
Talk(xs, junk) ==
    /\ xs \in Seq(Spoken) /\ \A i \in 1 .. Len(xs) : Reply(xs[i]) \in Spoken
    /\ junk \in Seq(Byte) /\ \A n \in 0 .. Len(junk) : Parse(SubSeq(junk, 1, n)).kind # "value"

\* The values that are gone have been answered, and only what is no RESP ends the connection.
Answered(xs, junk, got, more, s) ==
    /\ s.wbuf \in Seq(Byte) /\ got \o s.wbuf = EncodeAll(Replies(s.served))
    /\ \E k \in 0 .. Len(xs) :
          /\ s = [rbuf |-> s.rbuf, wbuf |-> s.wbuf, served |-> SubSeq(xs, 1, k), link |-> s.link]
          /\ Stream(xs, junk, k, s.rbuf, more)
          /\ s.link # "open" => k = Len(xs) /\ junk # <<>>

Settled(s) == s.link # "open" \/ Parse(s.rbuf).kind = "partial"

LEMMA ServedReplies ==
    ASSUME NEW xs, NEW junk, Talk(xs, junk), NEW k \in 0 .. Len(xs)
    PROVE  /\ SubSeq(xs, 1, k) \in Seq(Spoken) /\ Replies(SubSeq(xs, 1, k)) \in Seq(Spoken)
           /\ \A i \in 1 .. Len(SubSeq(xs, 1, k)) : Reply(SubSeq(xs, 1, k)[i]) \in Spoken
<1> DEFINE ys == SubSeq(xs, 1, k)
           s == Replies(ys)
<1>1. xs \in Seq(Spoken) /\ Len(xs) \in Nat /\ \A i \in 1 .. Len(xs) : Reply(xs[i]) \in Spoken
  BY DEF Talk
<1>2. ys \in Seq(Spoken) /\ Len(ys) = k
  BY <1>1, Pieces
<1>3. \A i \in 1 .. k : ys[i] = xs[i] /\ i \in 1 .. Len(xs)
  BY <1>1
<1> HIDE DEF ys
<1>4. \A i \in 1 .. k : Reply(ys[i]) \in Spoken
  BY <1>1, <1>3
<1>5. DOMAIN ys = 1 .. k /\ k \in Nat
  BY <1>2
<1>6. s = [i \in 1 .. k |-> Reply(ys[i])]
  BY <1>5 DEF Replies
<1> HIDE DEF s
<1>7. s \in Seq(Spoken)
  BY <1>4, <1>5, <1>6
<1> QED BY <1>2, <1>4, <1>7 DEF ys, s

LEMMA OneMoreAnswered ==
    ASSUME NEW xs, NEW junk, Talk(xs, junk), NEW k \in 0 .. Len(xs), k # Len(xs),
           NEW got \in Seq(Byte), NEW queued \in Seq(Byte),
           got \o queued = EncodeAll(Replies(SubSeq(xs, 1, k)))
    PROVE  LET out == queued \o Encode(Reply(xs[k + 1]))
           IN /\ out \in Seq(Byte)
              /\ SubSeq(xs, 1, k + 1) = Append(SubSeq(xs, 1, k), xs[k + 1])
              /\ got \o out = EncodeAll(Replies(SubSeq(xs, 1, k + 1)))
<1> DEFINE ys == SubSeq(xs, 1, k)
           zs == SubSeq(xs, 1, k + 1)
           x == xs[k + 1]
           y == Reply(x)
           e == Encode(y)
           out == queued \o e
<1>1. xs \in Seq(Spoken) /\ k \in 0 .. Len(xs) - 1 /\ k + 1 \in 1 .. Len(xs)
  BY DEF Talk
<1>2. y \in Spoken
  BY <1>1 DEF Talk
<1>3. x \in Spoken
  BY <1>1
<1>4. /\ ys \in Seq(Spoken) /\ Replies(ys) \in Seq(Spoken)
      /\ \A i \in 1 .. Len(ys) : Reply(ys[i]) \in Spoken
  BY ServedReplies
<1>5. zs = Append(ys, x)
  BY <1>1, OneMore
<1> HIDE DEF ys, zs, x
<1>6. Replies(zs) = Append(Replies(ys), y)
  BY <1>2, <1>3, <1>4, <1>5, OneMoreReply
<1> HIDE DEF y
<1>7. EncodeAll(Replies(zs)) = EncodeAll(Replies(ys)) \o e
  BY <1>2, <1>4, <1>6, EncodeMore
<1>8. e \in Seq(Byte)
  BY <1>2, SpokenFacts
<1> HIDE DEF e
<1>9. out \in Seq(Byte)
  BY <1>8, FrontOfConcat
<1>10. got \o out = (got \o queued) \o e
  <2>1. Regrouped(got, queued, e)
    BY <1>8, Regrouping, Zenon
  <2> QED BY <2>1 DEF Regrouped
<1>11. got \o out = EncodeAll(Replies(zs))
  BY <1>7, <1>10 DEF ys
<1> QED BY <1>5, <1>9, <1>11 DEF ys, zs, x, y, e

LEMMA JunkWaits ==
    ASSUME NEW xs, NEW junk, Talk(xs, junk), NEW buf, NEW more,
           Stream(xs, junk, Len(xs), buf, more)
    PROVE  /\ Parse(buf).kind \in {"partial", "invalid", "panic"}
           /\ Parse(buf).kind # "partial" => junk # <<>>
<1>1. xs \in Seq(Spoken) /\ junk \in Seq(Byte) /\ buf \in Seq(Byte) /\ more \in Seq(Byte)
  BY DEF Talk, Stream
<1>2. buf \o more = junk
  BY <1>1, LastBytes
<1>3. SubSeq(buf \o more, 1, Len(buf)) = buf /\ Len(buf \o more) = Len(buf) + Len(more)
  BY <1>1, RestOfConcat
<1>4. Len(buf) \in 0 .. Len(junk) /\ SubSeq(junk, 1, Len(buf)) = buf
  <2>1. Len(buf) \in Nat /\ Len(more) \in Nat
    BY <1>1
  <2>2. Len(junk) = Len(buf) + Len(more)
    BY <1>2, <1>3
  <2>3. SubSeq(junk, 1, Len(buf)) = buf
    BY <1>2, <1>3
  <2> QED BY <2>1, <2>2, <2>3
<1>5. Parse(buf).kind # "value"
  BY <1>4 DEF Talk
<1>6. Parse(buf).kind \in Kinds
  BY <1>1, ParseKinds
<1>7. junk = <<>> => Parse(buf).kind = "partial"
  <2> SUFFICES ASSUME junk = <<>> PROVE Parse(buf).kind = "partial"
    OBVIOUS
  <2>1. Len(buf) = 0
    <3>1. Len(junk) = 0
      OBVIOUS
    <3> QED BY <1>4, <3>1
  <2>2. buf = <<>>
    BY <1>1, <2>1
  <2> QED BY <2>2, NothingParsed DEF Outcome
<1> QED BY <1>5, <1>6, <1>7 DEF Kinds

LEMMA OneTurn ==
    ASSUME NEW xs, NEW junk, Talk(xs, junk), NEW got \in Seq(Byte), NEW more,
           NEW s, Answered(xs, junk, got, more, s), NEW i
    PROVE  LET t == LoopTurn(s, i)
           IN /\ Answered(xs, junk, got, more, t)
              /\ Settled(s) => Settled(t)
              /\ Settled(t) \/ Len(t.rbuf) < Len(s.rbuf)
<1> DEFINE n == Len(xs)
           b == s.rbuf
           w == s.wbuf
           l == s.link
           t == LoopTurn(s, i)
           p == Parse(b)
<1>1. xs \in Seq(Spoken) /\ n \in Nat
  BY DEF Talk
<1>2. PICK k \in 0 .. n :
         /\ s = [rbuf |-> b, wbuf |-> w, served |-> SubSeq(xs, 1, k), link |-> l]
         /\ Stream(xs, junk, k, b, more)
         /\ l # "open" => k = n /\ junk # <<>>
  BY DEF Answered
<1> DEFINE ys == SubSeq(xs, 1, k)
<1>3. w \in Seq(Byte) /\ got \o w = EncodeAll(Replies(ys))
  <2>1. s.served = ys
    BY <1>2
  <2> HIDE DEF ys
  <2> QED BY <2>1 DEF Answered
<1>4. b \in Seq(Byte) /\ Len(b) \in Nat
  BY <1>2 DEF Stream
<1>5. CASE p.kind = "partial"
  <2>1. t = s
    BY <1>5 DEF LoopTurn
  <2>2. Settled(s)
    BY <1>5 DEF Settled
  <2> QED BY <2>1, <2>2
<1>6. CASE k = n /\ p.kind # "partial"
  <2>1. p.kind \in {"invalid", "panic"} /\ junk # <<>>
    <3>1. Stream(xs, junk, Len(xs), b, more)
      BY <1>2, <1>6
    <3> HIDE DEF b
    <3> QED BY <1>6, <3>1, JunkWaits DEF b
  <2> DEFINE m == IF p.kind = "invalid" THEN "dropped" ELSE "dead"
  <2>2. t = [s EXCEPT !.link = m]
    BY <2>1 DEF LoopTurn
  <2>3. m # "open"
    OBVIOUS
  <2> HIDE DEF m, b, w, l, p, ys
  <2>4. t = [rbuf |-> b, wbuf |-> w, served |-> ys, link |-> m]
    BY <1>2, <2>2 DEF ys
  <2> HIDE DEF t
  <2>5. t.rbuf = b /\ t.wbuf = w /\ t.served = ys /\ t.link = m
    BY <2>4
  <2>6. Answered(xs, junk, got, more, t)
    BY <1>2, <1>3, <1>6, <2>1, <2>4, <2>5 DEF Answered, ys, n
  <2>7. Settled(t)
    BY <2>3, <2>5 DEF Settled
  <2> QED BY <2>6, <2>7 DEF t
<1>7. CASE k # n /\ p.kind # "partial"
  <2> DEFINE j == k + 1
             x == xs[j]
             e == Encode(x)
             r == Rest(b, Len(e))
             out == w \o Encode(Reply(x))
  <2>1. /\ j \in 0 .. n /\ x \in Spoken
        /\ Len(e) <= Len(b) =>
              /\ p = Parsed(x, Len(e)) /\ Len(r) = Len(b) - Len(e) /\ Len(e) \in Nat \ {0}
              /\ Stream(xs, junk, j, r, more)
        /\ Len(b) < Len(e) => p = Outcome("partial")
    <3>1. k # Len(xs)
      BY <1>7
    <3> HIDE DEF b
    <3> QED BY <1>1, <1>2, <3>1, NextValue DEF p
  <2>2. Len(e) \in Nat
    BY <2>1, SpokenFacts
  <2>3. Len(e) <= Len(b)
    <3>1. ~(Len(b) < Len(e))
      BY <1>7, <2>1 DEF Outcome
    <3> QED BY <1>4, <2>2, <3>1
  <2>4. out \in Seq(Byte) /\ SubSeq(xs, 1, j) = Append(ys, x)
        /\ got \o out = EncodeAll(Replies(SubSeq(xs, 1, j)))
    <3>1. k # Len(xs)
      BY <1>7
    <3> HIDE DEF w
    <3> QED BY <1>3, <3>1, OneMoreAnswered
  <2> DEFINE zs == SubSeq(xs, 1, j)
             len == Len(e)
  <2>5. p = Parsed(x, len) /\ r = Rest(b, len) /\ zs = Append(ys, x)
    BY <2>1, <2>3, <2>4
  <2>6. l = "open"
    BY <1>2, <1>7
  <2>7. Stream(xs, junk, j, r, more) /\ Len(r) < Len(b)
    <3>1. Len(r) = Len(b) - Len(e) /\ Len(e) \in Nat \ {0} /\ Stream(xs, junk, j, r, more)
      BY <2>1, <2>3
    <3> HIDE DEF r, b, e
    <3>2. Len(b) \in Nat
      BY <1>4
    <3> QED BY <3>1, <3>2
  <2>8. p.kind = "value" /\ p.value = x /\ p.used = len
    <3> HIDE DEF p, x, len
    <3> QED BY <2>5 DEF Parsed
  <2>9. t = [s EXCEPT !.rbuf = Rest(@, p.used), !.wbuf = @ \o Encode(Reply(p.value)),
                      !.served = Append(@, p.value)]
    BY <2>8 DEF LoopTurn
  <2>10. t = [s EXCEPT !.rbuf = Rest(@, len), !.wbuf = @ \o Encode(Reply(x)), !.served = Append(@, x)]
    <3> HIDE DEF p, x, len, t
    <3> QED BY <2>8, <2>9
  <2>11. t = [rbuf |-> r, wbuf |-> out, served |-> zs, link |-> l]
    <3> DEFINE a == Encode(Reply(x))
    <3>1. s = [rbuf |-> b, wbuf |-> w, served |-> ys, link |-> l]
      BY <1>2
    <3>2. out = w \o a /\ r = Rest(b, len) /\ zs = Append(ys, x)
      BY <2>5
    <3>3. t = [s EXCEPT !.rbuf = Rest(@, len), !.wbuf = @ \o a, !.served = Append(@, x)]
      BY <2>10
    <3> HIDE DEF b, w, ys, l, r, out, zs, a, x, len, t
    <3>4. t = [rbuf |-> Rest(b, len), wbuf |-> w \o a, served |-> Append(ys, x), link |-> l]
      BY <3>1, <3>3
    <3> QED BY <3>2, <3>4
  <2> HIDE DEF t, r, out, zs, l, j
  <2>12. t.rbuf = r /\ t.wbuf = out /\ t.served = zs /\ t.link = l
    BY <2>11
  <2>13. out \in Seq(Byte) /\ got \o out = EncodeAll(Replies(zs))
    BY <2>4 DEF out, zs
  <2>14. Answered(xs, junk, got, more, t)
    BY <2>1, <2>6, <2>7, <2>11, <2>12, <2>13 DEF Answered, zs, n
  <2>15. ~Settled(s)
    <3>1. s.link = "open" /\ Parse(s.rbuf).kind = "value"
      BY <2>6, <2>8 DEF l
    <3> QED BY <3>1 DEF Settled
  <2> QED BY <2>7, <2>12, <2>14, <2>15 DEF t
<1> QED BY <1>5, <1>6, <1>7

LEMMA ProcessAnswers ==
    ASSUME NEW xs, NEW junk, Talk(xs, junk), NEW got \in Seq(Byte), NEW more,
           NEW s, Answered(xs, junk, got, more, s)
    PROVE  Answered(xs, junk, got, more, Process(s)) /\ Settled(Process(s))
<1> DEFINE c == Len(s.rbuf)
           l == c + 1
           q == [i \in 1 .. l |-> i]
<1>1. c \in Nat /\ l \in Nat
  <2>1. s.rbuf \in Seq(Byte)
    BY DEF Answered, Stream
  <2> QED BY <2>1
<1>2. q \in Seq(1 .. l) /\ Len(q) = l
  <2> HIDE DEF l
  <2> QED BY <1>1
<1>3. Process(s) = Turns!Left(s, q)
  BY TurnedIs DEF Process
<1> HIDE DEF q
<1>4. PICK g : Turns!Runs(s, q, g) /\ g[Len(q)] = Turns!Left(s, q)
  BY <1>2, Turns!LeftRuns
<1> DEFINE Fine(i) == /\ Answered(xs, junk, got, more, g[i])
                      /\ Settled(g[i]) \/ Len(g[i].rbuf) + i <= c
           K == {i \in 0 .. l : Fine(i)}
<1>5. 0 \in K
  <2>1. g[0] = s
    BY <1>4 DEF Turns!Runs
  <2>2. Len(s.rbuf) + 0 <= c
    BY <1>1
  <2>3. Fine(0)
    BY <2>1, <2>2
  <2> HIDE DEF Fine, l
  <2> QED BY <1>1, <2>3
<1>6. ASSUME NEW i \in 0 .. l - 1, i \in K PROVE i + 1 \in K
  <2> DEFINE m == i + 1
             t == g[m]
             u == g[i]
  <2>1. m \in 1 .. l /\ m \in 0 .. l /\ m - 1 = i /\ i \in Nat
    <3> HIDE DEF l
    <3> QED BY <1>1
  <2>2. Answered(xs, junk, got, more, u) /\ (Settled(u) \/ Len(u.rbuf) + i <= c)
    BY <1>6
  <2> HIDE DEF m, l, c
  <2>3. g[m] = LoopTurn(g[m - 1], q[m])
    BY <1>2, <1>4, <2>1 DEF Turns!Runs
  <2>4. t = LoopTurn(u, q[m])
    BY <2>1, <2>3
  <2> HIDE DEF t, u
  <2>5. Answered(xs, junk, got, more, t) /\ (Settled(u) => Settled(t))
        /\ (Settled(t) \/ Len(t.rbuf) < Len(u.rbuf))
    BY <2>2, <2>4, OneTurn
  <2>6. Settled(t) \/ Len(t.rbuf) + m <= c
    <3>1. t.rbuf \in Seq(Byte) /\ u.rbuf \in Seq(Byte)
      BY <2>2, <2>5 DEF Answered, Stream
    <3>2. Len(t.rbuf) \in Nat /\ Len(u.rbuf) \in Nat
      BY <3>1
    <3> DEFINE l1 == Len(t.rbuf)
               l2 == Len(u.rbuf)
    <3>3. CASE ~Settled(t)
      <4>1. l1 < l2 /\ l2 + i <= c /\ l1 \in Nat /\ l2 \in Nat
        BY <2>2, <2>5, <3>2, <3>3
      <4> HIDE DEF l1, l2
      <4>2. l1 + m <= c
        BY <1>1, <2>1, <4>1 DEF m
      <4> QED BY <4>2 DEF l1
    <3> QED BY <3>3
  <2>7. Fine(m)
    BY <2>5, <2>6 DEF t
  <2> HIDE DEF Fine
  <2> QED BY <2>1, <2>7 DEF m
<1>7. l \in K
  <2> HIDE DEF l
  <2>1. l \in 0 .. l
    BY <1>1
  <2> HIDE DEF K
  <2> QED BY <1>1, <1>5, <1>6, <2>1, Cats!Induction
<1> DEFINE t == g[l]
<1>8. Answered(xs, junk, got, more, t) /\ (Settled(t) \/ Len(t.rbuf) + l <= c)
  <2> HIDE DEF l, c
  <2> QED BY <1>7
<1>9. Process(s) = t
  <2> HIDE DEF l
  <2> QED BY <1>2, <1>3, <1>4
<1> HIDE DEF t
<1>10. Settled(t)
  <2>1. t.rbuf \in Seq(Byte)
    BY <1>8 DEF Answered, Stream
  <2> DEFINE l1 == Len(t.rbuf)
  <2>2. l1 \in Nat
    BY <2>1
  <2>3. ~(l1 + l <= c)
    <3> HIDE DEF l1, c
    <3> QED BY <1>1, <2>2
  <2> QED BY <1>8, <2>3
<1> QED BY <1>8, <1>9, <1>10

(***************************************************************************)
(* A connection.                                                           *)
(***************************************************************************)
Now == [rbuf |-> rbuf, wbuf |-> wbuf, served |-> served, link |-> link]

WireInv ==
    /\ talk \in Conversations /\ inbox \in Seq(Byte)
    /\ Answered(talk.values, talk.junk, inbox, coming, Now) /\ Settled(Now)

LEMMA Talks ==
    ASSUME PlainSpoken, NEW c \in Conversations
    PROVE  Talk(c.values, c.junk)
<1> DEFINE xs == c.values
           junk == c.junk
<1>1. junk \in Seq(Byte) /\ \A n \in 0 .. Len(junk) : Parse(SubSeq(junk, 1, n)).kind # "value"
  BY RespAssumption
<1>2. xs \in Seq(Spoken) /\ \A i \in DOMAIN xs : IsCommand(xs[i]) => LineEnds(xs[i].v[1].v) = {}
  BY DEF PlainSpoken, Spoken
<1> HIDE DEF xs
<1>3. \A i \in 1 .. Len(xs) : i \in DOMAIN xs /\ xs[i] \in Spoken
  BY <1>2
<1>4. \A i \in 1 .. Len(xs) : Reply(xs[i]) \in Spoken
  BY <1>2, <1>3, ReplyIsSpoken
<1> QED BY <1>1, <1>2, <1>4 DEF Talk, xs

LEMMA WireStarts ==
    ASSUME PlainSpoken, RespInit
    PROVE  WireInv
<1> DEFINE xs == talk.values
           junk == talk.junk
<1>1. talk \in Conversations /\ coming = EncodeAll(xs) \o junk /\ rbuf = <<>> /\ wbuf = <<>>
      /\ inbox = <<>> /\ served = <<>> /\ link = "open"
  BY DEF RespInit
<1>2. Talk(xs, junk)
  BY <1>1, Talks
<1> HIDE DEF xs, junk
<1>3. xs \in Seq(Spoken) /\ junk \in Seq(Byte)
  BY <1>2 DEF Talk
<1>4. EncodeAll(xs) \in Seq(Byte) /\ Upto(xs)[0] = <<>>
  BY <1>3, UptoFacts
<1>5. coming \in Seq(Byte)
  <2>1. EncodeAll(xs) \o junk \in Seq(Byte)
    BY <1>3, <1>4, FrontOfConcat
  <2> QED BY <1>1, <2>1
<1>6. Stream(xs, junk, 0, <<>>, coming)
  <2>1. <<>> \o <<>> = <<>> /\ <<>> \o coming = coming /\ <<>> \in Seq(Byte)
    <3>1. <<>> \in Seq(Byte)
      OBVIOUS
    <3> QED BY <1>5, <3>1, ConcatEmptySeq
  <2>2. 0 \in 0 .. Len(xs)
    BY <1>3
  <2> QED BY <1>1, <1>3, <1>4, <1>5, <2>1, <2>2 DEF Stream
<1>7. SubSeq(xs, 1, 0) = <<>>
  BY SubSeqEmpty
<1>8. <<>> \o <<>> = EncodeAll(Replies(<<>>)) /\ <<>> \in Seq(Byte)
  <2>1. Replies(<<>>) = <<>>
    <3>1. <<>> \in Seq(Spoken) /\ Len(<<>>) = 0 /\ DOMAIN <<>> = 1 .. 0
      OBVIOUS
    <3> DEFINE f == [i \in 1 .. 0 |-> Reply(<<>>[i])]
    <3>2. Replies(<<>>) = f
      BY <3>1 DEF Replies
    <3>3. f \in Seq({}) /\ Len(f) = 0
      <4>1. \A i \in 1 .. 0 : Reply(<<>>[i]) \in {}
        OBVIOUS
      <4> QED BY <4>1
    <3> HIDE DEF f
    <3>4. f = <<>>
      BY <3>3
    <3> QED BY <3>2, <3>4
  <2>2. <<>> \in Seq(Byte) /\ <<>> \o <<>> = <<>>
    <3>1. <<>> \in Seq(Byte)
      OBVIOUS
    <3> QED BY <3>1, ConcatEmptySeq
  <2> QED BY <2>1, <2>2, EncodeNone
<1> DEFINE s == Now
<1>9. s = [rbuf |-> <<>>, wbuf |-> <<>>, served |-> <<>>, link |-> "open"]
  BY <1>1 DEF Now
<1> HIDE DEF s
<1>10. s.rbuf = <<>> /\ s.wbuf = <<>> /\ s.served = <<>> /\ s.link = "open"
  BY <1>9
<1>11. 0 \in 0 .. Len(xs)
  BY <1>3
<1>12. Answered(xs, junk, <<>>, coming, s)
  BY <1>6, <1>7, <1>8, <1>9, <1>10, <1>11 DEF Answered
<1>13. Settled(s)
  BY <1>10, NothingParsed DEF Settled, Outcome
<1> QED BY <1>1, <1>8, <1>12, <1>13 DEF WireInv, s, xs, junk

\* Bytes that move from one end of a stream to the other.
Moves(a, b, c, n) ==
    /\ SubSeq(c, 1, n) \in Seq(Byte) /\ Rest(c, n) \in Seq(Byte)
    /\ b \o SubSeq(c, 1, n) \in Seq(Byte)
    /\ (a \o (b \o SubSeq(c, 1, n))) \o Rest(c, n) = (a \o b) \o c

LEMMA Moved ==
    \A a, b, c \in Seq(Byte) : \A n \in 0 .. Len(c) : Moves(a, b, c, n)
<1> SUFFICES ASSUME NEW a \in Seq(Byte), NEW b \in Seq(Byte), NEW c \in Seq(Byte),
                    NEW n \in 0 .. Len(c)
             PROVE  Moves(a, b, c, n)
  OBVIOUS
<1> DEFINE d == SubSeq(c, 1, n)
           e == Rest(c, n)
           f == a \o b
<1>1. d \in Seq(Byte) /\ e \in Seq(Byte) /\ c = d \o e
  BY Pieces
<1>2. f \in Seq(Byte)
  BY FrontOfConcat
<1> HIDE DEF d, e
<1>3. b \o d \in Seq(Byte)
  BY <1>1, FrontOfConcat
<1>4. Regrouped(a, b, d) /\ Regrouped(f, d, e)
  <2> HIDE DEF f
  <2> QED BY <1>1, <1>2, Regrouping, Zenon
<1>5. a \o (b \o d) = f \o d
  BY <1>4 DEF Regrouped
<1> HIDE DEF f
<1>6. (f \o d) \o e = f \o c
  BY <1>1, <1>4 DEF Regrouped
<1>7. (a \o (b \o d)) \o e = f \o c
  BY <1>5, <1>6
<1> QED BY <1>1, <1>3, <1>7 DEF d, e, f, Moves

LEMMA ReadKeeps ==
    ASSUME PlainSpoken, WireInv, NEW n \in 1 .. MaxPiece, ReadIntoBuf(n)
    PROVE  WireInv'
<1> DEFINE xs == talk.values
           junk == talk.junk
           piece == SubSeq(coming, 1, n)
           s == [rbuf |-> rbuf \o piece, wbuf |-> wbuf, served |-> served, link |-> link]
           t == Process(s)
<1>1. /\ link = "open" /\ n <= Len(coming) /\ coming' = Rest(coming, n)
      /\ rbuf' = t.rbuf /\ wbuf' = t.wbuf /\ served' = t.served /\ link' = t.link
      /\ talk' = talk /\ inbox' = inbox
  BY DEF ReadIntoBuf, Rest
<1>2. talk \in Conversations /\ inbox \in Seq(Byte) /\ Answered(xs, junk, inbox, coming, Now)
  BY DEF WireInv
<1>3. Talk(xs, junk)
  BY <1>2, Talks
<1> HIDE DEF xs, junk
<1>4. Now.rbuf = rbuf /\ Now.wbuf = wbuf /\ Now.served = served /\ Now.link = link
  BY DEF Now
<1>5. PICK k \in 0 .. Len(xs) : served = SubSeq(xs, 1, k) /\ Stream(xs, junk, k, rbuf, coming)
  <2>1. PICK k \in 0 .. Len(xs) :
           /\ Now = [rbuf |-> rbuf, wbuf |-> wbuf, served |-> SubSeq(xs, 1, k), link |-> link]
           /\ Stream(xs, junk, k, rbuf, coming)
    BY <1>2, <1>4 DEF Answered
  <2>2. Now.served = SubSeq(xs, 1, k)
    BY <2>1
  <2> QED BY <1>4, <2>1, <2>2
<1>6. wbuf \in Seq(Byte) /\ inbox \o wbuf = EncodeAll(Replies(served))
  BY <1>2, <1>4 DEF Answered
<1> DEFINE a == Upto(xs)[k]
<1>7. /\ junk \in Seq(Byte) /\ rbuf \in Seq(Byte) /\ coming \in Seq(Byte)
      /\ (a \o rbuf) \o coming = EncodeAll(xs) \o junk
  BY <1>5 DEF Stream
<1>8. a \in Seq(Byte)
  <2>1. xs \in Seq(Spoken)
    BY <1>3 DEF Talk
  <2> QED BY <1>5, <2>1, UptoFacts
<1>9. n \in 0 .. Len(coming)
  BY <1>1, <1>7, ConstantFacts
<1> HIDE DEF a
<1>10. Stream(xs, junk, k, rbuf \o piece, coming')
  <2>1. /\ piece \in Seq(Byte) /\ Rest(coming, n) \in Seq(Byte) /\ rbuf \o piece \in Seq(Byte)
        /\ (a \o (rbuf \o piece)) \o Rest(coming, n) = (a \o rbuf) \o coming
    <3>1. Moves(a, rbuf, coming, n)
      BY <1>7, <1>8, <1>9, Moved, Zenon
    <3> QED BY <3>1 DEF Moves
  <2> HIDE DEF piece
  <2> QED BY <1>1, <1>5, <1>7, <2>1 DEF Stream, a
<1> HIDE DEF piece, t
<1>11. Answered(xs, junk, inbox, coming', s)
  <2> DEFINE b == rbuf \o piece
  <2>1. s = [rbuf |-> b, wbuf |-> wbuf, served |-> SubSeq(xs, 1, k), link |-> "open"]
    BY <1>1, <1>5
  <2>2. Stream(xs, junk, k, b, coming')
    BY <1>10
  <2>3. inbox \o wbuf = EncodeAll(Replies(SubSeq(xs, 1, k)))
    BY <1>5, <1>6
  <2> HIDE DEF b, s
  <2>4. s.rbuf = b /\ s.wbuf = wbuf /\ s.served = SubSeq(xs, 1, k) /\ s.link = "open"
    BY <2>1
  <2> QED BY <1>5, <1>6, <2>1, <2>2, <2>3, <2>4 DEF Answered
<1> HIDE DEF s
<1>12. Answered(xs, junk, inbox, coming', t) /\ Settled(t)
  BY <1>2, <1>3, <1>11, ProcessAnswers DEF t
<1>13. Now' = t
  <2>1. t = [rbuf |-> t.rbuf, wbuf |-> t.wbuf, served |-> t.served, link |-> t.link]
    <3>1. PICK j : t = [rbuf |-> t.rbuf, wbuf |-> t.wbuf, served |-> SubSeq(xs, 1, j), link |-> t.link]
      BY <1>12 DEF Answered
    <3>2. t.served = SubSeq(xs, 1, j)
      BY <3>1
    <3> QED BY <3>1, <3>2
  <2> QED BY <1>1, <2>1 DEF Now
<1> QED BY <1>1, <1>2, <1>12, <1>13 DEF WireInv, xs, junk

LEMMA FlushKeeps ==
    ASSUME WireInv, NEW n \in 1 .. MaxPiece, FlushWriteBuf(n)
    PROVE  WireInv'
<1> DEFINE xs == talk.values
           junk == talk.junk
           piece == SubSeq(wbuf, 1, n)
<1>1. /\ link = "open" /\ n <= Len(wbuf) /\ inbox' = inbox \o piece /\ wbuf' = Rest(wbuf, n)
      /\ talk' = talk /\ coming' = coming /\ rbuf' = rbuf /\ served' = served /\ link' = link
  BY DEF FlushWriteBuf, Rest
<1>2. talk \in Conversations /\ inbox \in Seq(Byte) /\ Answered(xs, junk, inbox, coming, Now)
      /\ Settled(Now)
  BY DEF WireInv
<1> HIDE DEF xs, junk
<1>3. Now.rbuf = rbuf /\ Now.wbuf = wbuf /\ Now.served = served /\ Now.link = link
  BY DEF Now
<1>4. wbuf \in Seq(Byte) /\ inbox \o wbuf = EncodeAll(Replies(served))
  BY <1>2, <1>3 DEF Answered
<1>5. n \in 0 .. Len(wbuf)
  BY <1>1, <1>4, ConstantFacts
<1>6. /\ piece \in Seq(Byte) /\ Rest(wbuf, n) \in Seq(Byte) /\ wbuf = piece \o Rest(wbuf, n)
  BY <1>4, <1>5, Pieces
<1> DEFINE r == Rest(wbuf, n)
<1> HIDE DEF piece, r
<1>7. inbox' \in Seq(Byte) /\ wbuf' \in Seq(Byte) /\ inbox' \o wbuf' = inbox \o wbuf
  <2>1. piece \in Seq(Byte) /\ r \in Seq(Byte) /\ wbuf = piece \o r /\ wbuf' = r
    BY <1>1, <1>6 DEF r
  <2>2. inbox \o piece \in Seq(Byte)
    BY <1>2, <2>1, FrontOfConcat
  <2>3. Regrouped(inbox, piece, r)
    BY <1>2, <2>1, Regrouping, Zenon
  <2>4. (inbox \o piece) \o r = inbox \o wbuf
    BY <2>1, <2>3 DEF Regrouped
  <2> QED BY <1>1, <2>1, <2>2, <2>4
<1> DEFINE s == Now
           t == Now'
<1>8. PICK k \in 0 .. Len(xs) :
         /\ Now = [rbuf |-> rbuf, wbuf |-> wbuf, served |-> SubSeq(xs, 1, k), link |-> link]
         /\ Stream(xs, junk, k, rbuf, coming)
  BY <1>2, <1>3 DEF Answered
<1>9. served = SubSeq(xs, 1, k)
  <2>1. Now.served = SubSeq(xs, 1, k)
    BY <1>8
  <2> QED BY <1>3, <2>1
<1>10. t = [rbuf |-> rbuf, wbuf |-> wbuf', served |-> SubSeq(xs, 1, k), link |-> "open"]
  BY <1>1, <1>9 DEF Now
<1> HIDE DEF s, t
<1>11. t.rbuf = rbuf /\ t.wbuf = wbuf' /\ t.served = SubSeq(xs, 1, k) /\ t.link = "open"
  BY <1>10
<1>12. Answered(xs, junk, inbox', coming, t)
  BY <1>4, <1>7, <1>8, <1>9, <1>10, <1>11 DEF Answered
<1>13. Settled(t)
  BY <1>1, <1>2, <1>3, <1>11 DEF Settled
<1> QED BY <1>1, <1>2, <1>7, <1>12, <1>13 DEF WireInv, xs, junk, t

(***************************************************************************)
(* The inductive invariant of a connection (process, connection.rs): what  *)
(* it has served is a prefix of the client's values, the bytes behind that *)
(* prefix are the read buffer and what is yet to come, and the replies are *)
(* the client's inbox and the write buffer, one behind the other.          *)
(***************************************************************************)
THEOREM WireInvariant ==
    ASSUME PlainSpoken
    PROVE  RespSpec => []WireInv
<1>1. RespInit => WireInv
  BY WireStarts
<1>2. WireInv /\ [RespNext]_respVars => WireInv'
  <2> SUFFICES ASSUME WireInv, [RespNext]_respVars PROVE WireInv'
    OBVIOUS
  <2>1. CASE RespNext
    <3>1. ASSUME NEW n \in 1 .. MaxPiece, ReadIntoBuf(n) PROVE WireInv'
      BY <3>1, ReadKeeps
    <3>2. ASSUME NEW n \in 1 .. MaxPiece, FlushWriteBuf(n) PROVE WireInv'
      BY <3>2, FlushKeeps
    <3> QED BY <2>1, <3>1, <3>2 DEF RespNext
  <2>2. CASE UNCHANGED respVars
    BY <2>2 DEF respVars, WireInv, Now
  <2> QED BY <2>1, <2>2
<1> QED BY <1>1, <1>2, PTL DEF RespSpec

\* The values that have been served are those complete in what has arrived.
LEMMA ServedIsComplete ==
    ASSUME PlainSpoken, WireInv
    PROVE  served = SubSeq(talk.values, 1, CompleteWithin(SentBut(coming)))
<1> DEFINE xs == talk.values
           junk == talk.junk
           n == Len(xs)
           h == Upto(xs)
<1>1. Talk(xs, junk) /\ Answered(xs, junk, inbox, coming, Now) /\ Settled(Now)
  BY Talks DEF WireInv
<1>2. Now.rbuf = rbuf /\ Now.served = served /\ Now.link = link
  BY DEF Now
<1> HIDE DEF xs, junk
<1>3. PICK k \in 0 .. n : /\ served = SubSeq(xs, 1, k) /\ Stream(xs, junk, k, rbuf, coming)
                          /\ link # "open" => k = n
  <2>1. PICK k \in 0 .. Len(xs) :
           /\ Now = [rbuf |-> rbuf, wbuf |-> Now.wbuf, served |-> SubSeq(xs, 1, k), link |-> link]
           /\ Stream(xs, junk, k, rbuf, coming)
           /\ link # "open" => k = Len(xs)
    BY <1>1, <1>2 DEF Answered
  <2>2. Now.served = SubSeq(xs, 1, k)
    BY <2>1
  <2> QED BY <1>2, <2>1, <2>2
<1>4. xs \in Seq(Spoken) /\ n \in Nat
  BY <1>1 DEF Talk
<1>5. /\ junk \in Seq(Byte) /\ rbuf \in Seq(Byte) /\ coming \in Seq(Byte)
      /\ (h[k] \o rbuf) \o coming = EncodeAll(xs) \o junk
  BY <1>3 DEF Stream
<1>6. /\ \A i \in 0 .. n : Len(h[i]) \in Nat /\ h[i] = EncodeAll(SubSeq(xs, 1, i))
      /\ \A i \in 0 .. n : \A j \in 0 .. i : Len(h[j]) <= Len(h[i])
      /\ h[k] \in Seq(Byte)
  BY <1>3, <1>4, UptoFacts
<1> DEFINE sent == SentBut(coming)
<1>7. sent = Len(h[k]) + Len(rbuf) /\ Len(rbuf) \in Nat
  <2> DEFINE a == h[k]
             all == EncodeAll(xs) \o junk
             b == a \o rbuf
  <2>1. a \in Seq(Byte) /\ Len(a) \in Nat
    BY <1>6
  <2> HIDE DEF a
  <2>2. b \in Seq(Byte) /\ Len(b) = Len(a) + Len(rbuf) /\ Len(rbuf) \in Nat
    BY <1>5, <2>1, FrontOfConcat
  <2> HIDE DEF b
  <2>3. Len(b \o coming) = Len(b) + Len(coming) /\ Len(coming) \in Nat
    BY <1>5, <2>2, FrontOfConcat
  <2>4. all = b \o coming
    BY <1>5 DEF b, a
  <2>5. sent = Len(all) - Len(coming)
    BY DEF SentBut, xs, junk
  <2> HIDE DEF all, sent
  <2>6. sent = Len(a) + Len(rbuf)
    BY <2>1, <2>2, <2>3, <2>4, <2>5
  <2> QED BY <2>2, <2>6 DEF a
<1> HIDE DEF sent
<1>8. ASSUME NEW i \in 0 .. n, i > k PROVE Len(h[i]) > sent
  <2>1. k # n /\ k + 1 \in 0 .. i /\ k \in 0 .. n - 1 /\ k + 1 \in 0 .. n
    BY <1>4, <1>8
  <2>2. Parse(rbuf).kind = "partial"
    BY <1>1, <1>2, <1>3, <2>1 DEF Settled
  <2> DEFINE x == xs[k + 1]
             e == Encode(x)
  <2>3. x \in Spoken /\ (Len(e) <= Len(rbuf) => Parse(rbuf) = Parsed(x, Len(e)))
    BY <1>3, <1>4, <2>1, NextValue
  <2>4. ~(Len(e) <= Len(rbuf))
    BY <2>2, <2>3 DEF Parsed
  <2>5. h[k + 1] = h[k] \o e
    BY <1>4, <2>1, UptoFacts
  <2>6. e \in Seq(Byte) /\ Len(e) \in Nat
    BY <2>3, SpokenFacts
  <2> HIDE DEF e, h
  <2>7. Len(h[k] \o e) = Len(h[k]) + Len(e)
    BY <1>6, <2>6, FrontOfConcat
  <2> DEFINE m == k + 1
             l1 == Len(h[m])
             l2 == Len(h[k])
             l3 == Len(e)
             l4 == Len(rbuf)
             l5 == Len(h[i])
  <2>8. l1 = l2 + l3
    BY <2>5, <2>7
  <2>9. l1 <= l5
    BY <1>6, <2>1
  <2>10. l1 \in Nat /\ l2 \in Nat /\ l3 \in Nat /\ l4 \in Nat /\ l5 \in Nat
    BY <1>3, <1>6, <1>7, <2>1, <2>6
  <2>11. sent = l2 + l4 /\ ~(l3 <= l4)
    BY <1>7, <2>4
  <2> HIDE DEF l1, l2, l3, l4, l5
  <2>12. l5 > sent
    BY <2>8, <2>9, <2>10, <2>11
  <2> QED BY <2>12 DEF l5
<1>9. Len(h[k]) <= sent
  <2> DEFINE l2 == Len(h[k])
             l4 == Len(rbuf)
  <2>1. l2 \in Nat /\ l4 \in Nat /\ sent = l2 + l4
    BY <1>3, <1>6, <1>7
  <2> HIDE DEF l2, l4
  <2>2. l2 <= sent
    BY <2>1
  <2> QED BY <2>2 DEF l2
<1> DEFINE S == {i \in 0 .. n : Len(EncodeAll(SubSeq(xs, 1, i))) <= sent}
<1>10. CompleteWithin(sent) = Max(S)
  BY DEF CompleteWithin, xs
<1>11. S = {i \in 0 .. n : Len(h[i]) <= sent}
  BY <1>6
<1> HIDE DEF h, S, n
<1>12. k \in S /\ \A i \in S : k >= i
  <2>1. k \in S
    BY <1>3, <1>9, <1>11
  <2>2. ASSUME NEW i \in S PROVE k >= i
    <3>1. i \in 0 .. n /\ Len(h[i]) <= sent
      BY <1>11
    <3>2. Len(h[i]) \in Nat /\ sent \in Nat
      BY <1>3, <1>6, <1>7, <3>1
    <3>3. ~(Len(h[i]) > sent)
      <4> DEFINE l == Len(h[i])
      <4>1. l <= sent /\ l \in Nat /\ sent \in Nat
        BY <3>1, <3>2
      <4> HIDE DEF l
      <4>2. ~(l > sent)
        BY <4>1
      <4> QED BY <4>2 DEF l
    <3>4. ~(i > k)
      BY <1>8, <3>1, <3>3
    <3> QED BY <1>3, <1>4, <3>1, <3>4
  <2> QED BY <2>1, <2>2
<1>13. Max(S) = k
  <2>1. S \subseteq Int
    BY <1>4, <1>11
  <2>2. Max(S) \in S /\ \A y \in S : Max(S) >= y
    BY <1>12 DEF Max
  <2>3. Max(S) >= k /\ k >= Max(S) /\ Max(S) \in Int /\ k \in Int
    BY <1>12, <2>1, <2>2
  <2> HIDE DEF S
  <2> DEFINE m == Max(S)
  <2>4. m >= k /\ k >= m /\ m \in Int /\ k \in Int
    BY <2>3
  <2> HIDE DEF m
  <2>5. m = k
    BY <2>4
  <2> QED BY <2>5 DEF m
<1> QED BY <1>3, <1>10, <1>13 DEF xs, sent

(***************************************************************************)
(* WireFaithful, for any conversations of plain values, any depth, and     *)
(* pieces of any length: the server serves exactly the values complete in  *)
(* what has arrived, in order (the loop of process, connection.rs), drops  *)
(* nobody who sends RESP, and its replies are one value a request for a    *)
(* client that parses them.                                                *)
(***************************************************************************)
THEOREM WireStaysFaithful ==
    ASSUME PlainSpoken
    PROVE  RespSpec => []WireFaithful
<1>1. WireInv => WireFaithful
  <2> SUFFICES ASSUME WireInv PROVE WireFaithful
    OBVIOUS
  <2> DEFINE xs == talk.values
             junk == talk.junk
  <2>1. Talk(xs, junk) /\ Answered(xs, junk, inbox, coming, Now)
    BY Talks DEF WireInv
  <2>2. Now.wbuf = wbuf /\ Now.served = served /\ Now.link = link
    BY DEF Now
  <2> HIDE DEF xs, junk
  <2>3. PICK k \in 0 .. Len(xs) : served = SubSeq(xs, 1, k) /\ (link # "open" => junk # <<>>)
    <3>1. PICK k \in 0 .. Len(xs) :
             /\ Now = [rbuf |-> Now.rbuf, wbuf |-> Now.wbuf, served |-> SubSeq(xs, 1, k),
                       link |-> link]
             /\ link # "open" => junk # <<>>
      BY <2>1, <2>2 DEF Answered
    <3>2. Now.served = SubSeq(xs, 1, k)
      BY <3>1
    <3> QED BY <2>2, <3>1, <3>2
  <2>4. Replies(served) \in Seq(Spoken)
    BY <2>1, <2>3, ServedReplies
  <2>5. inbox \o wbuf = EncodeAll(Replies(served))
    BY <2>1, <2>2 DEF Answered
  <2>6. Decoded(inbox \o wbuf) = [values |-> Replies(served), rest |-> <<>>]
    BY <2>4, <2>5, DecodedIsEncoded DEF Spoken
  <2>7. Replies(served) = [i \in DOMAIN served |-> Reply(served[i])]
    BY DEF Replies
  <2> QED BY <2>3, <2>6, <2>7, ServedIsComplete DEF WireFaithful, junk
<1> QED BY <1>1, WireInvariant, PTL

=============================================================================
