------------------------------ MODULE CrunchProofs ------------------------------
(***************************************************************************)
(* Theorems about the log analyser, for any logs, number of threads, size  *)
(* of a batch and of the channel, and any way rayon splits the lines.      *)
(***************************************************************************)
EXTENDS Logcrunch, FiniteSetTheorems, SequenceTheorems, TLAPS

Cat(a, b) == a \o b

RecordedFold == INSTANCE FoldTheorems WITH Op <- Recorded
MergeFold    == INSTANCE FoldTheorems WITH Op <- Merge
ReadFold     == INSTANCE FoldTheorems WITH Op <- ReadByte
ChunkFold    == INSTANCE FoldTheorems WITH Op <- AddChunk
CatFold      == INSTANCE FoldTheorems WITH Op <- Cat

LEMMA FoldedIs ==
    ASSUME NEW ls, NEW s
    PROVE  Folded(ls, s) = RecordedFold!Left(s, ls)
BY DEF Folded, FoldLeft, MapThenFoldSet, Max, RecordedFold!Left, RecordedFold!Folds, RecordedFold!LastOf

LEMMA MergedIs ==
    ASSUME NEW ss, NEW s
    PROVE  FoldLeft(Merge, s, ss) = MergeFold!Left(s, ss)
BY DEF FoldLeft, MapThenFoldSet, Max, MergeFold!Left, MergeFold!Folds, MergeFold!LastOf

LEMMA ReadIs ==
    ASSUME NEW d, NEW r
    PROVE  FoldLeft(ReadByte, r, d) = ReadFold!Left(r, d)
BY DEF FoldLeft, MapThenFoldSet, Max, ReadFold!Left, ReadFold!Folds, ReadFold!LastOf

LEMMA AddedIs ==
    ASSUME NEW cs, NEW ps
    PROVE  FoldLeft(AddChunk, cs, ps) = ChunkFold!Left(cs, ps)
BY DEF FoldLeft, MapThenFoldSet, Max, ChunkFold!Left, ChunkFold!Folds, ChunkFold!LastOf

(***************************************************************************)
(* Statistics are compared by what can be asked of them: a counter, the    *)
(* malformed lines, and how many samples are in a set.                     *)
(***************************************************************************)
Line == Seq(Bytes) \ {<<>>}
Stat == [counts: [Bytes -> Nat], malformed: Nat, times: Seq(Bytes)]

NumIn(t, P) == Cardinality({i \in DOMAIN t : t[i] \in P})

Questions == ({"count"} \X Bytes) \cup ({"samples"} \X SUBSET Bytes) \cup {<<"malformed", {}>>}

Answer(s, q) ==
    IF q[1] = "count" THEN s.counts[q[2]]
    ELSE IF q[1] = "malformed" THEN s.malformed ELSE NumIn(s.times, q[2])

Alike(a, b) == \A q \in Questions : Answer(a, q) = Answer(b, q)

LEMMA NumInConcat ==
    ASSUME NEW t \in Seq(Bytes), NEW u \in Seq(Bytes), NEW P
    PROVE  /\ NumIn(t \o u, P) = NumIn(t, P) + NumIn(u, P)
           /\ NumIn(t, P) \in Nat
<1> DEFINE m == Len(t)
           n == Len(u)
           v == t \o u
           A == {i \in 1 .. m : t[i] \in P}
           B == {i \in 1 .. n : u[i] \in P}
           C == {i \in m + 1 .. m + n : v[i] \in P}
<1>1. /\ m \in Nat /\ n \in Nat /\ DOMAIN t = 1 .. m /\ DOMAIN u = 1 .. n /\ DOMAIN v = 1 .. m + n
      /\ \A i \in 1 .. m : v[i] = t[i]
      /\ \A i \in m + 1 .. m + n : v[i] = u[i - m]
  OBVIOUS
<1>2. NumIn(t, P) = Cardinality(A) /\ NumIn(u, P) = Cardinality(B)
  BY <1>1 DEF NumIn
<1> HIDE DEF m, n, v
<1>3. IsFiniteSet(A) /\ IsFiniteSet(B) /\ IsFiniteSet(C)
  <2>1. IsFiniteSet(1 .. m) /\ IsFiniteSet(1 .. n) /\ IsFiniteSet(m + 1 .. m + n)
    <3>1. m \in Int /\ n \in Int /\ m + 1 \in Int /\ m + n \in Int /\ 1 \in Int
      BY <1>1
    <3>2. \A i, j \in Int : IsFiniteSet(i .. j)
      BY FS_Interval
    <3> QED BY <3>1, <3>2
  <2>2. A \subseteq 1 .. m /\ B \subseteq 1 .. n /\ C \subseteq m + 1 .. m + n
    OBVIOUS
  <2> QED BY <2>1, <2>2, FS_Subset
<1>4. {i \in DOMAIN v : v[i] \in P} = A \cup C /\ A \cap C = {}
  <2>1. \A i \in 1 .. m + n : i \in 1 .. m \/ i \in m + 1 .. m + n
    BY <1>1
  <2>2. \A i \in 1 .. m : i \in 1 .. m + n /\ i \notin m + 1 .. m + n
    BY <1>1
  <2>3. \A i \in m + 1 .. m + n : i \in 1 .. m + n
    BY <1>1
  <2> QED BY <1>1, <2>1, <2>2, <2>3
<1>5. Cardinality(A \cup C) = Cardinality(A) + Cardinality(C)
  <2>1. Cardinality(A \cap C) = 0
    BY <1>4, FS_EmptySet
  <2>2. Cardinality(A) \in Nat /\ Cardinality(C) \in Nat
    BY <1>3, FS_CardinalityType
  <2>3. Cardinality(A \cup C) = Cardinality(A) + Cardinality(C) - Cardinality(A \cap C)
    BY <1>3, FS_Union
  <2> QED BY <2>1, <2>2, <2>3
<1>6. Cardinality(C) = Cardinality(B)
  <2> DEFINE f == [i \in B |-> i + m]
  <2>1. \A i \in B : i + m \in C
    <3>1. \A i \in 1 .. n : i + m \in m + 1 .. m + n /\ (i + m) - m = i
      BY <1>1
    <3> QED BY <1>1, <3>1
  <2>2. \A j \in C : \E i \in B : j = i + m
    <3>1. \A j \in m + 1 .. m + n : j - m \in 1 .. n /\ (j - m) + m = j
      BY <1>1
    <3> QED BY <1>1, <3>1
  <2>3. \A i, j \in B : i + m = j + m => i = j
    BY <1>1
  <2> HIDE DEF B, C
  <2>4. f \in [B -> C] /\ \A i, j \in B : f[i] = f[j] => i = j
    BY <2>1, <2>3
  <2>5. \A j \in C : \E i \in B : f[i] = j
    BY <2>2
  <2>6. f \in Bijection(B, C)
    <3> HIDE DEF f
    <3> QED BY <2>4, <2>5 DEF Bijection, Injection, Surjection, IsInjective
  <2>7. ExistsBijection(B, C)
    BY <2>6 DEF ExistsBijection
  <2> QED BY <1>3, <2>7, FS_Bijection
<1>7. NumIn(v, P) = Cardinality(A \cup C)
  BY <1>4 DEF NumIn
<1>8. Cardinality(A) \in Nat
  BY <1>3, FS_CardinalityType
<1> QED BY <1>2, <1>5, <1>6, <1>7, <1>8 DEF v

LEMMA NumInNone == ASSUME NEW P PROVE NumIn(<<>>, P) = 0
<1>1. {i \in DOMAIN <<>> : <<>>[i] \in P} = {}
  OBVIOUS
<1> QED BY <1>1, FS_EmptySet DEF NumIn

LEMMA MergeAdds ==
    ASSUME NEW a \in Stat, NEW b \in Stat
    PROVE  /\ Merge(a, b) \in Stat
           /\ \A q \in Questions : Answer(Merge(a, b), q) = Answer(a, q) + Answer(b, q)
<1> DEFINE m == Merge(a, b)
<1>1. /\ m.counts = [k \in Bytes |-> a.counts[k] + b.counts[k]]
      /\ m.malformed = a.malformed + b.malformed /\ m.times = a.times \o b.times
      /\ m = [counts |-> m.counts, malformed |-> m.malformed, times |-> m.times]
  BY DEF Merge
<1>2. /\ a.counts \in [Bytes -> Nat] /\ b.counts \in [Bytes -> Nat]
      /\ a.malformed \in Nat /\ b.malformed \in Nat
      /\ a.times \in Seq(Bytes) /\ b.times \in Seq(Bytes)
  BY DEF Stat
<1> HIDE DEF m
<1>3. m.times \in Seq(Bytes)
  BY <1>1, <1>2
<1>4. m.counts \in [Bytes -> Nat] /\ m.malformed \in Nat
  BY <1>1, <1>2
<1>5. m \in Stat
  BY <1>1, <1>3, <1>4 DEF Stat
<1>6. ASSUME NEW q \in Questions PROVE Answer(m, q) = Answer(a, q) + Answer(b, q)
  <2>1. q[1] = "count" => q[2] \in Bytes
    BY DEF Questions
  <2>2. NumIn(m.times, q[2]) = NumIn(a.times, q[2]) + NumIn(b.times, q[2])
    BY <1>1, <1>2, NumInConcat
  <2>3. q[1] = "count" => m.counts[q[2]] = a.counts[q[2]] + b.counts[q[2]]
    BY <1>1, <2>1
  <2> QED BY <1>1, <2>2, <2>3 DEF Answer
<1> QED BY <1>5, <1>6 DEF m

LEMMA NoStatsIsNone ==
    NoStats \in Stat /\ \A q \in Questions : Answer(NoStats, q) = 0
<1>1. NoStats \in Stat
  BY DEF NoStats, Stat
<1>2. ASSUME NEW q \in Questions PROVE Answer(NoStats, q) = 0
  <2>1. q[1] = "count" => q[2] \in Bytes
    BY DEF Questions
  <2> QED BY <2>1, NumInNone DEF NoStats, Answer
<1> QED BY <1>1, <1>2

LEMMA AnswersAreNumbers ==
    ASSUME NEW a \in Stat, NEW q \in Questions
    PROVE  Answer(a, q) \in Nat
<1>1. q[1] = "count" => q[2] \in Bytes
  BY DEF Questions
<1>2. a.counts \in [Bytes -> Nat] /\ a.malformed \in Nat /\ a.times \in Seq(Bytes)
  BY DEF Stat
<1>3. NumIn(a.times, q[2]) \in Nat
  BY <1>2, NumInConcat
<1> QED BY <1>1, <1>2, <1>3 DEF Answer

\* A line adds the same to all statistics.
LEMMA RecordedAdds ==
    ASSUME NEW a \in Stat, NEW ln \in Line
    PROVE  /\ Recorded(a, ln) \in Stat
           /\ \A q \in Questions :
                 Answer(Recorded(a, ln), q) = Answer(a, q) + Answer(Recorded(NoStats, ln), q)
<1>1. /\ a.counts \in [Bytes -> Nat] /\ a.malformed \in Nat /\ a.times \in Seq(Bytes)
      /\ a = [counts |-> a.counts, malformed |-> a.malformed, times |-> a.times]
  BY DEF Stat
<1>2. /\ NoStats.counts = [k \in Bytes |-> 0] /\ NoStats.malformed = 0 /\ NoStats.times = <<>>
      /\ NoStats \in Stat
  BY NoStatsIsNone DEF NoStats
<1>3. CASE Len(ln) = 1
  <2> DEFINE b == ln[1]
             one == [k \in Bytes |-> IF k = b THEN 1 ELSE 0]
             r == Recorded(a, ln)
             o == Recorded(NoStats, ln)
  <2>1. b \in Bytes
    BY <1>3 DEF Line
  <2>2. /\ r = [counts |-> r.counts, malformed |-> r.malformed, times |-> r.times]
        /\ r.malformed = a.malformed /\ r.times = Append(a.times, b)
        /\ r.counts = [a.counts EXCEPT ![b] = @ + 1]
    BY <1>1, <1>3 DEF Recorded
  <2>3. /\ o.malformed = 0 /\ o.times = Append(<<>>, b)
        /\ o.counts = [NoStats.counts EXCEPT ![b] = @ + 1]
    BY <1>2, <1>3 DEF Recorded, NoStats
  <2> HIDE DEF b, r, o
  <2>4. r.times = a.times \o o.times /\ o.times \in Seq(Bytes) /\ r.times \in Seq(Bytes)
    BY <1>1, <2>1, <2>2, <2>3
  <2>5. /\ r.counts \in [Bytes -> Nat]
        /\ \A k \in Bytes : r.counts[k] = a.counts[k] + o.counts[k]
    BY <1>1, <1>2, <2>1, <2>2, <2>3
  <2>6. r \in Stat
    BY <1>1, <2>2, <2>4, <2>5 DEF Stat
  <2>7. ASSUME NEW q \in Questions PROVE Answer(r, q) = Answer(a, q) + Answer(o, q)
    <3>1. q[1] = "count" => q[2] \in Bytes
      BY DEF Questions
    <3>2. NumIn(r.times, q[2]) = NumIn(a.times, q[2]) + NumIn(o.times, q[2])
      BY <1>1, <2>4, NumInConcat
    <3> QED BY <1>1, <2>2, <2>3, <2>5, <3>1, <3>2 DEF Answer
  <2> QED BY <2>6, <2>7 DEF r, o
<1>4. CASE Len(ln) # 1
  <2> DEFINE r == Recorded(a, ln)
             o == Recorded(NoStats, ln)
  <2>1. /\ r = [counts |-> r.counts, malformed |-> r.malformed, times |-> r.times]
        /\ r.counts = a.counts /\ r.times = a.times /\ r.malformed = a.malformed + 1
    BY <1>1, <1>4 DEF Recorded
  <2>2. o.counts = NoStats.counts /\ o.times = <<>> /\ o.malformed = 0 + 1
    BY <1>2, <1>4 DEF Recorded, NoStats
  <2> HIDE DEF r, o
  <2>3. r \in Stat
    BY <1>1, <2>1 DEF Stat
  <2>4. ASSUME NEW q \in Questions PROVE Answer(r, q) = Answer(a, q) + Answer(o, q)
    <3>1. q[1] = "count" => q[2] \in Bytes
      BY DEF Questions
    <3>2. NumIn(o.times, q[2]) = 0 /\ NumIn(a.times, q[2]) \in Nat
      BY <1>1, <2>2, NumInNone, NumInConcat
    <3>3. q[1] = "count" => r.counts[q[2]] = a.counts[q[2]] + o.counts[q[2]]
      BY <1>1, <1>2, <2>1, <2>2, <3>1
    <3> QED BY <2>1, <2>2, <3>2, <3>3 DEF Answer
  <2> QED BY <2>3, <2>4 DEF r, o
<1> QED BY <1>3, <1>4

(***************************************************************************)
(* Folds of lines and of statistics: their answers add up.                 *)
(***************************************************************************)
LEMMA FoldedAdds ==
    ASSUME NEW ls \in Seq(Line), NEW s \in Stat
    PROVE  /\ Folded(ls, s) \in Stat
           /\ \A q \in Questions :
                 Answer(Folded(ls, s), q) = Answer(s, q) + Answer(Folded(ls, NoStats), q)
<1>1. \A a \in Stat : \A ln \in Line : Recorded(a, ln) \in Stat
  BY RecordedAdds
<1>2. RecordedFold!Left(s, ls) \in Stat /\ RecordedFold!Left(NoStats, ls) \in Stat
  <2>1. NoStats \in Stat
    BY NoStatsIsNone
  <2> QED BY <1>1, <2>1, RecordedFold!LeftType
<1>3. ASSUME NEW q \in Questions
      PROVE  Answer(Folded(ls, s), q) = Answer(s, q) + Answer(Folded(ls, NoStats), q)
  <2> DEFINE asked == [a \in Stat |-> Answer(a, q)]
             adds  == [ln \in Line |-> Answer(Recorded(NoStats, ln), q)]
  <2>1. NoStats \in Stat /\ Answer(NoStats, q) = 0
    BY NoStatsIsNone
  <2>2. asked \in [Stat -> Int]
    <3>1. \A a \in Stat : Answer(a, q) \in Int
      BY AnswersAreNumbers
    <3> QED BY <3>1
  <2>3. adds \in [Line -> Int]
    <3>1. \A ln \in Line : Answer(Recorded(NoStats, ln), q) \in Int
      BY <1>1, <2>1, AnswersAreNumbers
    <3> QED BY <3>1
  <2>4. RecordedFold!Additive(Stat, Line, asked, adds)
    BY <2>2, <2>3, RecordedAdds DEF RecordedFold!Additive
  <2>5. /\ asked[RecordedFold!Left(s, ls)] = Answer(Folded(ls, s), q)
        /\ asked[RecordedFold!Left(NoStats, ls)] = Answer(Folded(ls, NoStats), q)
        /\ asked[s] = Answer(s, q) /\ asked[NoStats] = 0
        /\ asked[s] \in Int /\ asked[RecordedFold!Left(s, ls)] \in Int
        /\ asked[RecordedFold!Left(NoStats, ls)] \in Int
    BY <1>2, <2>1, <2>2, FoldedIs
  <2> HIDE DEF asked, adds
  <2>6. asked[RecordedFold!Left(s, ls)] - asked[s]
           = asked[RecordedFold!Left(NoStats, ls)] - asked[NoStats]
    BY <2>1, <2>4, RecordedFold!LeftAdds
  <2>7. asked[RecordedFold!Left(s, ls)] = asked[s] + asked[RecordedFold!Left(NoStats, ls)]
    BY <2>5, <2>6
  <2> QED BY <2>5, <2>7
<1> QED BY <1>2, <1>3, FoldedIs

LEMMA FoldedConcat ==
    ASSUME NEW ls \in Seq(Line), NEW ms \in Seq(Line), NEW s
    PROVE  Folded(ls \o ms, s) = Folded(ms, Folded(ls, s))
BY FoldedIs, RecordedFold!LeftConcat

LEMMA FoldedNone == ASSUME NEW s PROVE Folded(<<>>, s) = s
BY FoldedIs, RecordedFold!LeftEmpty

\* Main's loop over statistics.
SumUp(ss) == MergeFold!Left(NoStats, ss)

LEMMA SumAdds ==
    ASSUME NEW ss \in Seq(Stat), NEW s \in Stat
    PROVE  /\ FoldLeft(Merge, s, ss) \in Stat /\ SumUp(ss) \in Stat
           /\ \A q \in Questions :
                 Answer(FoldLeft(Merge, s, ss), q) = Answer(s, q) + Answer(SumUp(ss), q)
<1>1. \A a, b \in Stat : Merge(a, b) \in Stat
  BY MergeAdds
<1>2. MergeFold!Left(s, ss) \in Stat /\ MergeFold!Left(NoStats, ss) \in Stat
  <2>1. NoStats \in Stat
    BY NoStatsIsNone
  <2> QED BY <1>1, <2>1, MergeFold!LeftType
<1>3. ASSUME NEW q \in Questions
      PROVE  Answer(FoldLeft(Merge, s, ss), q) = Answer(s, q) + Answer(SumUp(ss), q)
  <2> DEFINE asked == [a \in Stat |-> Answer(a, q)]
  <2>1. NoStats \in Stat /\ Answer(NoStats, q) = 0
    BY NoStatsIsNone
  <2>2. asked \in [Stat -> Int]
    <3>1. \A a \in Stat : Answer(a, q) \in Int
      BY AnswersAreNumbers
    <3> QED BY <3>1
  <2>4. MergeFold!Additive(Stat, Stat, asked, asked)
    BY <2>2, MergeAdds DEF MergeFold!Additive
  <2>5. /\ asked[MergeFold!Left(s, ss)] = Answer(FoldLeft(Merge, s, ss), q)
        /\ asked[MergeFold!Left(NoStats, ss)] = Answer(SumUp(ss), q)
        /\ asked[s] = Answer(s, q) /\ asked[NoStats] = 0
        /\ asked[s] \in Int /\ asked[MergeFold!Left(s, ss)] \in Int
        /\ asked[MergeFold!Left(NoStats, ss)] \in Int
    BY <1>2, <2>1, <2>2, MergedIs DEF SumUp
  <2> HIDE DEF asked
  <2>6. asked[MergeFold!Left(s, ss)] - asked[s]
           = asked[MergeFold!Left(NoStats, ss)] - asked[NoStats]
    BY <2>1, <2>4, MergeFold!LeftAdds
  <2>7. asked[MergeFold!Left(s, ss)] = asked[s] + asked[MergeFold!Left(NoStats, ss)]
    BY <2>5, <2>6
  <2> QED BY <2>5, <2>7
<1> QED BY <1>2, <1>3, MergedIs DEF SumUp

LEMMA SumConcat ==
    ASSUME NEW ss \in Seq(Stat), NEW ts \in Seq(Stat)
    PROVE  \A q \in Questions : Answer(SumUp(ss \o ts), q) = Answer(SumUp(ss), q) + Answer(SumUp(ts), q)
<1>1. SumUp(ss \o ts) = FoldLeft(Merge, SumUp(ss), ts)
  BY MergedIs, MergeFold!LeftConcat DEF SumUp
<1>2. SumUp(ss) \in Stat
  BY SumAdds, NoStatsIsNone
<1> QED BY <1>1, <1>2, SumAdds

LEMMA SumOne ==
    ASSUME NEW s \in Stat
    PROVE  \A q \in Questions : Answer(SumUp(<<s>>), q) = Answer(s, q)
<1>1. <<>> \in Seq(Stat) /\ Append(<<>>, s) = <<s>>
  OBVIOUS
<1>2. MergeFold!Left(NoStats, Append(<<>>, s)) = Merge(MergeFold!Left(NoStats, <<>>), s)
  BY <1>1, MergeFold!LeftAppend
<1>3. SumUp(<<s>>) = Merge(NoStats, s)
  BY <1>1, <1>2, MergeFold!LeftEmpty DEF SumUp
<1>4. ASSUME NEW q \in Questions PROVE Answer(SumUp(<<s>>), q) = Answer(s, q)
  <2>1. Answer(SumUp(<<s>>), q) = Answer(NoStats, q) + Answer(s, q) /\ Answer(NoStats, q) = 0
    BY <1>3, MergeAdds, NoStatsIsNone
  <2>2. Answer(s, q) \in Nat
    BY AnswersAreNumbers
  <2> QED BY <2>1, <2>2
<1> QED BY <1>4

(***************************************************************************)
(* Statistics with the same answers make the same report.                  *)
(***************************************************************************)
LEMMA NumInAll ==
    ASSUME NEW t \in Seq(Bytes)
    PROVE  NumIn(t, Bytes) = Len(t)
<1>1. {i \in DOMAIN t : t[i] \in Bytes} = 1 .. Len(t) /\ Len(t) \in Nat
  OBVIOUS
<1>2. Cardinality(1 .. Len(t)) = Len(t)
  <2>1. 1 \in Int /\ Len(t) \in Int /\ 1 .. Len(t) # {} => Len(t) - 1 + 1 = Len(t)
    BY <1>1
  <2>2. Len(t) = 0 => Cardinality(1 .. Len(t)) = 0
    BY FS_Interval
  <2>3. Len(t) > 0 => Cardinality(1 .. Len(t)) = Len(t) - 1 + 1
    BY <1>1, FS_Interval
  <2> QED BY <1>1, <2>1, <2>2, <2>3
<1> QED BY <1>1, <1>2 DEF NumIn

LEMMA NumInSome ==
    ASSUME NEW t \in Seq(Bytes), NEW P
    PROVE  NumIn(t, P) = 0 <=> \A i \in DOMAIN t : t[i] \notin P
<1> DEFINE A == {i \in DOMAIN t : t[i] \in P}
<1>1. IsFiniteSet(A)
  <2>1. DOMAIN t = 1 .. Len(t) /\ Len(t) \in Int /\ 1 \in Int
    OBVIOUS
  <2>2. IsFiniteSet(1 .. Len(t))
    BY <2>1, FS_Interval
  <2> QED BY <2>1, <2>2, FS_Subset
<1>2. Cardinality(A) = 0 <=> A = {}
  BY <1>1, FS_EmptySet
<1> QED BY <1>2 DEF NumIn

\* The samples that the rank falls on.
Ranked(t, index) ==
    {x \in ToSet(t) : /\ Cardinality({i \in DOMAIN t : t[i] < x}) <= index
                      /\ index < Cardinality({i \in DOMAIN t : t[i] <= x})}

LEMMA PercentileIs ==
    ASSUME NEW t, NEW p
    PROVE  Percentile(t, p) =
              IF t = <<>> THEN Nil
              ELSE CHOOSE x : x \in Ranked(t, (2 * p * (Len(t) - 1) + 100) \div 200)
BY DEF Percentile, Ranked

LEMMA SamePercentile ==
    ASSUME NEW t \in Seq(Bytes), NEW u \in Seq(Bytes), NEW p,
           \A P \in SUBSET Bytes : NumIn(t, P) = NumIn(u, P)
    PROVE  Percentile(t, p) = Percentile(u, p) /\ Len(t) = Len(u) /\ ToSet(t) = ToSet(u)
<1>1. Len(t) = Len(u)
  BY NumInAll
<1>2. ASSUME NEW v \in Seq(Bytes), NEW w \in Seq(Bytes),
             \A P \in SUBSET Bytes : NumIn(v, P) = NumIn(w, P)
      PROVE  ToSet(v) \subseteq ToSet(w)
  <2>1. SUFFICES ASSUME NEW i \in DOMAIN v PROVE v[i] \in ToSet(w)
    BY DEF ToSet
  <2>2. v[i] \in Bytes /\ v[i] \in {v[i]} /\ {v[i]} \in SUBSET Bytes
    OBVIOUS
  <2>3. NumIn(v, {v[i]}) # 0
    BY <2>2, NumInSome
  <2>4. NumIn(w, {v[i]}) # 0
    BY <1>2, <2>2, <2>3
  <2>5. PICK j \in DOMAIN w : w[j] \in {v[i]}
    BY <2>4, NumInSome
  <2> QED BY <2>5 DEF ToSet
<1>3. ToSet(t) = ToSet(u)
  BY <1>2
<1>4. ASSUME NEW v \in Seq(Bytes), NEW x
      PROVE  /\ Cardinality({i \in DOMAIN v : v[i] < x}) = NumIn(v, {b \in Bytes : b < x})
             /\ Cardinality({i \in DOMAIN v : v[i] <= x}) = NumIn(v, {b \in Bytes : b <= x})
  <2>1. \A i \in DOMAIN v : v[i] \in Bytes
    OBVIOUS
  <2>2. {i \in DOMAIN v : v[i] < x} = {i \in DOMAIN v : v[i] \in {b \in Bytes : b < x}}
    BY <2>1
  <2>3. {i \in DOMAIN v : v[i] <= x} = {i \in DOMAIN v : v[i] \in {b \in Bytes : b <= x}}
    BY <2>1
  <2> QED BY <2>2, <2>3 DEF NumIn
<1>5. ASSUME NEW x
      PROVE  /\ Cardinality({i \in DOMAIN t : t[i] < x}) = Cardinality({i \in DOMAIN u : u[i] < x})
             /\ Cardinality({i \in DOMAIN t : t[i] <= x}) = Cardinality({i \in DOMAIN u : u[i] <= x})
  <2>1. {b \in Bytes : b < x} \in SUBSET Bytes /\ {b \in Bytes : b <= x} \in SUBSET Bytes
    OBVIOUS
  <2> QED BY <1>4, <2>1
<1>6. ASSUME NEW index PROVE Ranked(t, index) = Ranked(u, index)
  BY <1>3, <1>5 DEF Ranked
<1>7. t = <<>> <=> u = <<>>
  BY <1>1
<1>8. Percentile(t, p) = Percentile(u, p)
  <2> DEFINE index == (2 * p * (Len(t) - 1) + 100) \div 200
  <2>1. Ranked(t, index) = Ranked(u, index)
    BY <1>6
  <2>2. /\ Percentile(t, p) = IF t = <<>> THEN Nil ELSE CHOOSE x : x \in Ranked(t, index)
        /\ Percentile(u, p) = IF u = <<>> THEN Nil ELSE CHOOSE x : x \in Ranked(u, index)
    BY <1>1, PercentileIs
  <2> HIDE DEF index
  <2> QED BY <1>7, <2>1, <2>2
<1> QED BY <1>1, <1>3, <1>8

LEMMA AlikeReports ==
    ASSUME NEW a \in Stat, NEW b \in Stat, Alike(a, b)
    PROVE  /\ Report(a) = Report(b)
           /\ a.counts = b.counts /\ a.malformed = b.malformed /\ Len(a.times) = Len(b.times)
<1>1. /\ a.counts \in [Bytes -> Nat] /\ b.counts \in [Bytes -> Nat]
      /\ a.times \in Seq(Bytes) /\ b.times \in Seq(Bytes)
  BY DEF Stat
<1>2. a.counts = b.counts
  <2>1. ASSUME NEW k \in Bytes PROVE a.counts[k] = b.counts[k]
    <3>1. <<"count", k>> \in Questions /\ <<"count", k>>[1] = "count" /\ <<"count", k>>[2] = k
      BY DEF Questions
    <3>2. Answer(a, <<"count", k>>) = Answer(b, <<"count", k>>)
      BY <3>1 DEF Alike
    <3> QED BY <3>1, <3>2 DEF Answer
  <2> QED BY <1>1, <2>1
<1>3. a.malformed = b.malformed
  <2> DEFINE q == <<"malformed", {}>>
  <2>1. q \in Questions /\ q[1] = "malformed"
    BY DEF Questions
  <2> HIDE DEF q
  <2>2. Answer(a, q) = Answer(b, q)
    BY <2>1 DEF Alike
  <2> QED BY <2>1, <2>2 DEF Answer
<1>4. ASSUME NEW P \in SUBSET Bytes PROVE NumIn(a.times, P) = NumIn(b.times, P)
  <2> DEFINE q == <<"samples", P>>
  <2>1. q \in Questions /\ q[1] = "samples" /\ q[2] = P
    BY DEF Questions
  <2> HIDE DEF q
  <2>2. Answer(a, q) = Answer(b, q)
    BY <2>1 DEF Alike
  <2> QED BY <2>1, <2>2 DEF Answer
<1>5. /\ Len(a.times) = Len(b.times) /\ ToSet(a.times) = ToSet(b.times)
      /\ \A p : Percentile(a.times, p) = Percentile(b.times, p)
  BY <1>1, <1>4, SamePercentile
<1> QED BY <1>2, <1>3, <1>5 DEF Report

(***************************************************************************)
(* Lines: of a log that is cut after the end of a line, the lines of the   *)
(* parts.                                                                  *)
(***************************************************************************)
Byte    == Bytes \cup {Newline}
Reading == [lines: Seq(Line), line: Seq(Bytes)]

LEMMA ReadType ==
    ASSUME NEW r \in Reading, NEW b \in Byte
    PROVE  ReadByte(r, b) \in Reading /\ WithLine(r) \in Seq(Line)
<1>1. r.lines \in Seq(Line) /\ r.line \in Seq(Bytes)
  BY DEF Reading
<1>2. WithLine(r) \in Seq(Line)
  <2>1. CASE r.line = <<>>
    BY <1>1, <2>1 DEF WithLine
  <2>2. CASE r.line # <<>>
    <3>1. r.line \in Line
      BY <1>1, <2>2 DEF Line
    <3>2. WithLine(r) = Append(r.lines, r.line)
      BY <2>2 DEF WithLine
    <3> QED BY <1>1, <3>1, <3>2
  <2> QED BY <2>1, <2>2
<1>3. ReadByte(r, b) \in Reading
  <2>1. CASE b = Newline
    <3>1. ReadByte(r, b) = [lines |-> WithLine(r), line |-> <<>>]
      BY <2>1 DEF ReadByte
    <3> QED BY <1>2, <3>1 DEF Reading
  <2>2. CASE b # Newline
    <3>1. ReadByte(r, b) = [lines |-> r.lines, line |-> Append(r.line, b)] /\ b \in Bytes
      BY <2>2 DEF ReadByte, Reading, Byte
    <3>2. Append(r.line, b) \in Seq(Bytes)
      BY <1>1, <3>1
    <3> QED BY <1>1, <3>1, <3>2 DEF Reading
  <2> QED BY <2>1, <2>2
<1> QED BY <1>2, <1>3

LEMMA NothingReadType == NothingRead \in Reading
BY DEF NothingRead, Reading

LEMMA LinesType ==
    ASSUME NEW d \in Seq(Byte)
    PROVE  ReadFold!Left(NothingRead, d) \in Reading /\ Lines(d) \in Seq(Line)
<1>1. \A r \in Reading : \A b \in Byte : ReadByte(r, b) \in Reading
  BY ReadType
<1>2. ReadFold!Left(NothingRead, d) \in Reading
  BY <1>1, NothingReadType, ReadFold!LeftType
<1>3. Newline \in Byte
  BY DEF Byte
<1> QED BY <1>2, <1>3, ReadIs, ReadType DEF Lines

\* What was read before stands in front of what is read now.
LEMMA ReadAfter ==
    ASSUME NEW ls \in Seq(Line), NEW d \in Seq(Byte)
    PROVE  WithLine(ReadFold!Left([lines |-> ls, line |-> <<>>], d)) = ls \o Lines(d)
<1> DEFINE f == [r \in Reading |-> [lines |-> ls \o r.lines, line |-> r.line]]
<1>1. f \in [Reading -> Reading]
  BY DEF Reading
<1>2. ASSUME NEW r \in Reading PROVE WithLine(f[r]) = ls \o WithLine(r)
  <2>1. f[r].lines = ls \o r.lines /\ f[r].line = r.line /\ r.lines \in Seq(Line) /\ r.line \in Seq(Bytes)
    BY DEF Reading
  <2> HIDE DEF f
  <2>2. CASE r.line = <<>>
    BY <2>1, <2>2 DEF WithLine
  <2>3. CASE r.line # <<>>
    <3> DEFINE l == r.line
    <3>1. l \in Line
      BY <2>1, <2>3 DEF Line
    <3>2. WithLine(f[r]) = Append(ls \o r.lines, l) /\ WithLine(r) = Append(r.lines, l)
      BY <2>1, <2>3 DEF WithLine
    <3> HIDE DEF l
    <3>3. Append(ls \o r.lines, l) = ls \o Append(r.lines, l)
      <4> DEFINE one == <<l>>
                 m == r.lines
      <4>1. one \in Seq(Line) /\ m \in Seq(Line)
        BY <2>1, <3>1
      <4> HIDE DEF m
      <4>2. Append(ls \o m, l) = (ls \o m) \o one /\ Append(m, l) = m \o one
        BY <3>1, <4>1, AppendIsConcat, ConcatProperties
      <4> HIDE DEF one
      <4>3. (ls \o m) \o one = ls \o (m \o one)
        BY <4>1, ConcatAssociative
      <4> QED BY <4>2, <4>3 DEF m
    <3> QED BY <3>2, <3>3
  <2> QED BY <2>2, <2>3
<1>3. ASSUME NEW r \in Reading, NEW b \in Byte PROVE f[ReadByte(r, b)] = ReadByte(f[r], b)
  <2>1. ReadByte(r, b) \in Reading
    BY ReadType
  <2>2. CASE b = Newline
    <3>1. f[ReadByte(r, b)] = [lines |-> ls \o WithLine(r), line |-> <<>>]
      BY <2>1, <2>2 DEF ReadByte
    <3>2. ReadByte(f[r], b) = [lines |-> WithLine(f[r]), line |-> <<>>]
      BY <2>2 DEF ReadByte
    <3> HIDE DEF f
    <3> QED BY <1>2, <3>1, <3>2
  <2>3. CASE b # Newline
    <3>1. ReadByte(r, b) = [lines |-> r.lines, line |-> Append(r.line, b)]
      BY <2>3 DEF ReadByte, Reading
    <3>2. \A v \in Reading : f[v] = [lines |-> ls \o v.lines, line |-> v.line]
      OBVIOUS
    <3> DEFINE v == ReadByte(r, b)
               w == f[r]
    <3>3. v.lines = r.lines /\ v.line = Append(r.line, b) /\ v \in Reading
      BY <2>1, <3>1
    <3>4. w = [lines |-> ls \o r.lines, line |-> r.line]
      BY <3>2
    <3>5. ReadByte(w, b) = [w EXCEPT !.line = Append(@, b)]
      BY <2>3 DEF ReadByte
    <3> HIDE DEF f, v, w
    <3>6. f[v] = [lines |-> ls \o r.lines, line |-> Append(r.line, b)]
      BY <3>2, <3>3
    <3>7. ReadByte(w, b) = [lines |-> ls \o r.lines, line |-> Append(r.line, b)]
      BY <3>4, <3>5
    <3> USE DEF v, w
    <3> QED BY <3>6, <3>7
  <2> QED BY <2>2, <2>3
<1>4. f[NothingRead] = [lines |-> ls, line |-> <<>>]
  <2>1. ls \o <<>> = ls
    OBVIOUS
  <2> QED BY <2>1, NothingReadType DEF NothingRead
<1> HIDE DEF f
<1>5. ReadFold!Commutes(Reading, Byte, f)
  BY <1>1, <1>3, ReadType DEF ReadFold!Commutes
<1>6. ReadFold!Left(f[NothingRead], d) = f[ReadFold!Left(NothingRead, d)]
  BY <1>5, NothingReadType, ReadFold!LeftMaps
<1>7. WithLine(f[ReadFold!Left(NothingRead, d)]) = ls \o WithLine(ReadFold!Left(NothingRead, d))
  BY <1>2, LinesType
<1> QED BY <1>4, <1>6, <1>7, ReadIs DEF Lines

LEMMA LinesConcat ==
    ASSUME NEW d \in Seq(Byte), NEW e \in Seq(Byte), d = <<>> \/ Last(d) = Newline
    PROVE  Lines(d \o e) = Lines(d) \o Lines(e)
<1> DEFINE r == ReadFold!Left(NothingRead, d)
<1>1. r.line = <<>> /\ r = [lines |-> r.lines, line |-> r.line] /\ r.lines \in Seq(Line)
  <2>1. r \in Reading
    BY LinesType
  <2>2. CASE d = <<>>
    <3>1. r = NothingRead
      BY <2>2, ReadFold!LeftEmpty
    <3> QED BY <2>1, <3>1 DEF NothingRead, Reading
  <2>3. CASE d # <<>> /\ Last(d) = Newline
    <3> DEFINE front == SubSeq(d, 1, Len(d) - 1)
    <3>1. front \in Seq(Byte) /\ d = Append(front, Newline) /\ Newline \in Byte
      BY <2>3 DEF Last, Byte
    <3> HIDE DEF front
    <3>2. r = ReadByte(ReadFold!Left(NothingRead, front), Newline)
      BY <3>1, ReadFold!LeftAppend
    <3>3. r = [lines |-> WithLine(ReadFold!Left(NothingRead, front)), line |-> <<>>]
      BY <3>2 DEF ReadByte
    <3> QED BY <2>1, <3>3 DEF Reading
  <2> QED BY <2>2, <2>3
<1> HIDE DEF r
<1>2. Lines(d) = r.lines
  BY <1>1, ReadIs DEF Lines, WithLine, r
<1>3. Lines(d \o e) = WithLine(ReadFold!Left(r, e))
  BY ReadIs, ReadFold!LeftConcat DEF Lines, r
<1>4. WithLine(ReadFold!Left([lines |-> r.lines, line |-> <<>>], e)) = r.lines \o Lines(e)
  BY <1>1, ReadAfter
<1> QED BY <1>1, <1>2, <1>3, <1>4

(***************************************************************************)
(* FlattenSeq is the fold that concatenates.                               *)
(***************************************************************************)
LEMMA FlattenIs ==
    ASSUME NEW T, NEW ss \in Seq(Seq(T))
    PROVE  FlattenSeq(ss) = CatFold!Left(<<>>, ss)
<1>1. PICK h : CatFold!Runs(<<>>, ss, h) /\ h[Len(ss)] = CatFold!Left(<<>>, ss)
  BY CatFold!LeftRuns
<1> DEFINE n == Len(ss)
           Flattens(f) == f = [i \in 1 .. n |-> IF i = 1 THEN ss[i] ELSE f[i - 1] \o ss[i]]
           flatten == CHOOSE f : Flattens(f)
<1>2. n \in Nat /\ \A i \in 1 .. n : ss[i] \in Seq(T)
  OBVIOUS
<1>3. h[0] = <<>> /\ \A k \in 1 .. n : h[k] = h[k - 1] \o ss[k]
  BY <1>1 DEF CatFold!Runs, Cat
<1>4. CASE n = 0
  <2>1. ss = <<>>
    BY <1>4
  <2>2. FlattenSeq(ss) = ss
    BY <1>4 DEF FlattenSeq
  <2> QED BY <2>1, <2>2, CatFold!LeftEmpty
<1>5. CASE n # 0
  <2>1. FlattenSeq(ss) = flatten[n]
    BY <1>5 DEF FlattenSeq
  <2>2. Flattens(flatten)
    <3> DEFINE f == [i \in 1 .. n |-> h[i]]
               e == [i \in 1 .. n |-> IF i = 1 THEN ss[i] ELSE f[i - 1] \o ss[i]]
    <3>1. ASSUME NEW i \in 1 .. n PROVE f[i] = e[i]
      <4>1. CASE i = 1
        <5>1. h[1] = <<>> \o ss[1] /\ ss[1] \in Seq(T)
          <6>1. 1 \in 1 .. n /\ 1 - 1 = 0
            BY <1>2, <1>5
          <6> QED BY <1>2, <1>3, <6>1
        <5>2. h[1] = ss[1]
          BY <5>1, ConcatEmptySeq
        <5> QED BY <4>1, <5>2
      <4>2. CASE i # 1
        <5>1. i - 1 \in 1 .. n
          BY <1>2, <4>2
        <5> QED BY <1>3, <4>2, <5>1
      <4> QED BY <4>1, <4>2
    <3>2. f = e
      <4>1. f = [i \in 1 .. n |-> f[i]] /\ e = [i \in 1 .. n |-> e[i]]
        OBVIOUS
      <4> HIDE DEF f, e
      <4> QED BY <3>1, <4>1
    <3>3. Flattens(f)
      <4> HIDE DEF f
      <4> QED BY <3>2
    <3> HIDE DEF Flattens
    <3> QED BY <3>3
  <2> HIDE DEF flatten
  <2>3. \A i \in 1 .. n : flatten[i] = IF i = 1 THEN ss[i] ELSE flatten[i - 1] \o ss[i]
    <3> HIDE DEF n
    <3> QED BY <2>2
  <2> DEFINE S == {k \in 0 .. n : k # 0 => flatten[k] = h[k]}
  <2>4. 0 \in S
    BY <1>2
  <2>5. ASSUME NEW k \in 0 .. n - 1, k \in S PROVE k + 1 \in S
    <3>1. /\ k + 1 \in 1 .. n /\ k + 1 \in 0 .. n /\ (k + 1) - 1 = k
          /\ k # 0 => flatten[k] = h[k]
      BY <1>2, <2>5
    <3>2. h[k + 1] = h[k] \o ss[k + 1] /\ ss[k + 1] \in Seq(T)
      BY <1>2, <1>3, <3>1
    <3>3. CASE k = 0
      <4>1. h[k + 1] = ss[k + 1]
        BY <1>3, <3>2, <3>3, ConcatEmptySeq
      <4>2. flatten[k + 1] = ss[k + 1]
        BY <2>3, <3>1, <3>3
      <4> QED BY <3>1, <4>1, <4>2
    <3>4. CASE k # 0
      <4>1. k + 1 # 1
        BY <3>4
      <4>2. flatten[k + 1] = flatten[k] \o ss[k + 1]
        BY <2>3, <3>1, <4>1
      <4> QED BY <3>1, <3>2, <3>4, <4>2
    <3> QED BY <3>3, <3>4
  <2>6. n \in S
    <3>1. n \in 0 .. n
      BY <1>2
    <3> HIDE DEF S, n
    <3> QED BY <1>2, <2>4, <2>5, <3>1, CatFold!Induction
  <2> QED BY <1>1, <1>5, <2>1, <2>6
<1> QED BY <1>4, <1>5

LEMMA FlattenType ==
    ASSUME NEW T, NEW ss \in Seq(Seq(T))
    PROVE  FlattenSeq(ss) \in Seq(T)
<1>1. \A a \in Seq(T) : \A b \in Seq(T) : Cat(a, b) \in Seq(T)
  BY DEF Cat
<1>2. <<>> \in Seq(T)
  OBVIOUS
<1>3. CatFold!Left(<<>>, ss) \in Seq(T)
  BY <1>1, <1>2, CatFold!LeftType
<1> QED BY <1>3, FlattenIs

LEMMA FlattenAppend ==
    ASSUME NEW T, NEW ss \in Seq(Seq(T)), NEW s \in Seq(T)
    PROVE  FlattenSeq(Append(ss, s)) = FlattenSeq(ss) \o s
<1>1. Append(ss, s) \in Seq(Seq(T))
  BY AppendProperties
<1>2. CatFold!Left(<<>>, Append(ss, s)) = Cat(CatFold!Left(<<>>, ss), s)
  BY CatFold!LeftAppend
<1> QED BY <1>1, <1>2, FlattenIs DEF Cat

LEMMA FlattenAfter ==
    ASSUME NEW T, NEW ss \in Seq(Seq(T)), NEW s \in Seq(T)
    PROVE  CatFold!Left(s, ss) = s \o FlattenSeq(ss)
<1> DEFINE f == [a \in Seq(T) |-> s \o a]
<1>1. \A a \in Seq(T) : f[a] = s \o a /\ s \o a \in Seq(T)
  BY ConcatProperties
<1>2. f \in [Seq(T) -> Seq(T)]
  BY <1>1
<1> HIDE DEF f
<1>3. ASSUME NEW a \in Seq(T), NEW b \in Seq(T)
      PROVE  Cat(a, b) \in Seq(T) /\ f[Cat(a, b)] = Cat(f[a], b)
  <2>1. a \o b \in Seq(T)
    BY ConcatProperties
  <2>2. (s \o a) \o b = s \o (a \o b)
    BY ConcatAssociative
  <2>3. f[a \o b] = s \o (a \o b) /\ f[a] = s \o a
    BY <1>1, <2>1
  <2> QED BY <2>1, <2>2, <2>3 DEF Cat
<1>4. CatFold!Commutes(Seq(T), Seq(T), f)
  BY <1>2, <1>3 DEF CatFold!Commutes
<1>5. <<>> \in Seq(T)
  OBVIOUS
<1>6. CatFold!Left(f[<<>>], ss) = f[CatFold!Left(<<>>, ss)]
  <2> DEFINE S == Seq(T)
             none == <<>>
  <2>1. CatFold!Commutes(S, S, f) /\ ss \in Seq(S) /\ none \in S
    BY <1>4, <1>5
  <2> HIDE DEF S, none
  <2>2. CatFold!Left(f[none], ss) = f[CatFold!Left(none, ss)]
    BY <2>1, CatFold!LeftMaps
  <2> QED BY <2>2 DEF none
<1>7. f[<<>>] = s
  BY <1>1, <1>5, ConcatEmptySeq
<1>8. f[FlattenSeq(ss)] = s \o FlattenSeq(ss)
  BY <1>1, FlattenType
<1> QED BY <1>6, <1>7, <1>8, FlattenIs

LEMMA FlattenHead ==
    ASSUME NEW T, NEW ss \in Seq(Seq(T)), ss # <<>>
    PROVE  FlattenSeq(ss) = Head(ss) \o FlattenSeq(Tail(ss))
<1> DEFINE hd == Head(ss)
           tl == Tail(ss)
           one == <<hd>>
<1>1. hd \in Seq(T) /\ tl \in Seq(Seq(T)) /\ ss = one \o tl /\ one \in Seq(Seq(T))
  OBVIOUS
<1>2. <<>> \in Seq(T) /\ one = Append(<<>>, hd) /\ <<>> \in Seq(Seq(T))
  BY <1>1
<1> HIDE DEF one, hd, tl
<1>3. CatFold!Left(<<>>, one) = hd
  <2>1. CatFold!Left(<<>>, Append(<<>>, hd)) = Cat(CatFold!Left(<<>>, <<>>), hd)
    BY <1>1, <1>2, CatFold!LeftAppend
  <2>2. CatFold!Left(<<>>, <<>>) = <<>> /\ <<>> \o hd = hd
    BY <1>1, CatFold!LeftEmpty, ConcatEmptySeq
  <2> QED BY <1>2, <2>1, <2>2 DEF Cat
<1>4. CatFold!Left(<<>>, ss) = CatFold!Left(hd, tl)
  BY <1>1, <1>3, CatFold!LeftConcat
<1>5. CatFold!Left(hd, tl) = hd \o FlattenSeq(tl)
  BY <1>1, FlattenAfter
<1> QED BY <1>4, <1>5, FlattenIs DEF hd, tl

LEMMA DivUp ==
    ASSUME NEW x \in Nat, NEW y \in Nat, NEW n \in Nat \ {0}, x <= y
    PROVE  x \div n <= y \div n /\ x \div n \in Nat
OBVIOUS

LEMMA DivBelow ==
    ASSUME NEW x \in Nat, NEW n \in Nat \ {0}, NEW l \in Nat, x <= n * l
    PROVE  x \div n <= l
OBVIOUS

(***************************************************************************)
(* split_into_chunks.                                                      *)
(***************************************************************************)
LEMMA CutIs ==
    ASSUME NEW d \in Seq(Byte), NEW raw \in 0 .. Len(d)
    PROVE  /\ Cut(d, raw) \in raw .. Len(d)
           /\ Cut(d, raw) = Len(d) \/ (Cut(d, raw) > raw /\ d[Cut(d, raw)] = Newline)
           /\ \A f \in raw + 1 .. Cut(d, raw) - 1 : d[f] # Newline
<1> DEFINE n == Len(d)
           E == {e \in raw .. n : e = n \/ (e > raw /\ d[e] = Newline)}
<1>1. n \in Nat /\ raw \in Nat /\ raw <= n
  OBVIOUS
<1> HIDE DEF n
<1>2. E \subseteq Nat /\ n \in E
  BY <1>1
<1>3. PICK e \in E : \A f \in E : e <= f
  BY <1>2, ReadFold!LeastExists
<1>4. \A f \in raw + 1 .. e - 1 : d[f] # Newline
  <2>1. SUFFICES ASSUME NEW f \in raw + 1 .. e - 1, d[f] = Newline PROVE FALSE
    OBVIOUS
  <2>2. e \in Nat /\ e <= n /\ f \in Nat
    BY <1>1, <1>2
  <2>3. f \in raw .. n /\ f > raw /\ f < e
    BY <1>1, <2>2
  <2>4. f \in E
    BY <2>1, <2>3
  <2> QED BY <1>3, <2>2, <2>3, <2>4
<1>5. \E c \in raw .. Len(d) : /\ c = Len(d) \/ (c > raw /\ d[c] = Newline)
                               /\ \A f \in raw + 1 .. c - 1 : d[f] # Newline
  BY <1>4 DEF n
<1> QED BY <1>5 DEF Cut

LEMMA CutsInOrder ==
    ASSUME NEW d \in Seq(Byte), NEW i \in 0 .. Len(d), NEW j \in 0 .. Len(d), i <= j
    PROVE  Cut(d, i) <= Cut(d, j)
<1> DEFINE n == Len(d)
           a == Cut(d, i)
           b == Cut(d, j)
<1>1. n \in Nat
  OBVIOUS
<1>2. a \in i .. n /\ \A f \in i + 1 .. a - 1 : d[f] # Newline
  BY CutIs
<1>3. b \in j .. n /\ (b = n \/ (b > j /\ d[b] = Newline))
  BY CutIs
<1> HIDE DEF a, b
<1>4. SUFFICES ASSUME b < a PROVE FALSE
  BY <1>1, <1>2, <1>3 DEF a, b
<1>5. b # n
  BY <1>1, <1>2, <1>3, <1>4
<1>6. b \in i + 1 .. a - 1
  BY <1>1, <1>2, <1>3, <1>4, <1>5
<1> QED BY <1>2, <1>3, <1>5, <1>6

\* Where the chunks are cut.
Bounds(d, n) ==
    [i \in 0 .. n |-> IF i = 0 THEN 0 ELSE IF i = n THEN Len(d)
                      ELSE Cut(d, (i * Len(d)) \div n)]

Between(d, n) ==
    [i \in 1 .. n |-> SubSeq(d, Bounds(d, n)[i - 1] + 1, Bounds(d, n)[i])]

LEMMA BoundsInOrder ==
    ASSUME NEW d \in Seq(Byte), NEW n \in Nat \ {0}
    PROVE  /\ Bounds(d, n)[0] = 0 /\ Bounds(d, n)[n] = Len(d)
           /\ \A i \in 0 .. n : /\ Bounds(d, n)[i] \in 0 .. Len(d)
                                /\ \/ Bounds(d, n)[i] \in {0, Len(d)}
                                   \/ d[Bounds(d, n)[i]] = Newline
           /\ \A i \in 1 .. n : Bounds(d, n)[i - 1] <= Bounds(d, n)[i]
<1> DEFINE l == Len(d)
           b == Bounds(d, n)
           raw(i) == (i * l) \div n
<1>1. l \in Nat
  OBVIOUS
<1>2. /\ b[0] = 0 /\ b[n] = l
      /\ \A i \in 1 .. n - 1 : b[i] = Cut(d, raw(i))
  BY DEF Bounds
<1> HIDE DEF l, b
<1>3. ASSUME NEW i \in 0 .. n PROVE raw(i) \in 0 .. l
  <2>1. i * l \in Nat /\ i * l <= n * l
    BY <1>1
  <2> QED BY <1>1, <2>1, DivBelow, DivUp
<1>4. ASSUME NEW i \in 1 .. n PROVE raw(i - 1) <= raw(i)
  <2>1. (i - 1) * l \in Nat /\ i * l \in Nat /\ (i - 1) * l <= i * l
    BY <1>1
  <2> QED BY <2>1, DivUp
<1> HIDE DEF raw
<1>5. ASSUME NEW i \in 1 .. n - 1
      PROVE  b[i] \in 0 .. l /\ (b[i] = l \/ d[b[i]] = Newline)
  <2>1. raw(i) \in 0 .. l
    BY <1>3
  <2>2. Cut(d, raw(i)) \in raw(i) .. l
    BY <2>1, CutIs DEF l
  <2>3. Cut(d, raw(i)) = l \/ d[Cut(d, raw(i))] = Newline
    BY <2>1, CutIs DEF l
  <2> QED BY <1>1, <1>2, <2>1, <2>2, <2>3
<1>6. ASSUME NEW i \in 0 .. n
      PROVE  b[i] \in 0 .. l /\ (b[i] \in {0, l} \/ d[b[i]] = Newline)
  <2>1. CASE i = 0
    BY <1>1, <1>2, <2>1
  <2>2. CASE i = n
    BY <1>1, <1>2, <2>2
  <2>3. CASE i \in 1 .. n - 1
    BY <1>5, <2>3
  <2> QED BY <2>1, <2>2, <2>3
<1>7. ASSUME NEW i \in 1 .. n PROVE b[i - 1] <= b[i]
  <2>1. i - 1 \in 0 .. n /\ i \in 0 .. n
    OBVIOUS
  <2>2. b[i - 1] \in 0 .. l /\ b[i] \in 0 .. l
    BY <1>6, <2>1
  <2>3. CASE i = 1
    BY <1>2, <2>2, <2>3
  <2>4. CASE i = n
    BY <1>1, <1>2, <2>2, <2>4
  <2>5. CASE i \in 2 .. n - 1
    <3>1. i \in 1 .. n - 1 /\ i - 1 \in 1 .. n - 1 /\ raw(i - 1) <= raw(i)
      BY <1>4, <2>5
    <3>2. raw(i - 1) \in 0 .. l /\ raw(i) \in 0 .. l
      BY <1>3, <2>1
    <3>3. Cut(d, raw(i - 1)) <= Cut(d, raw(i))
      BY <3>1, <3>2, CutsInOrder DEF l
    <3> QED BY <1>2, <3>1, <3>3
  <2> QED BY <2>3, <2>4, <2>5
<1> QED BY <1>2, <1>6, <1>7 DEF l, b

LEMMA ChunksIs ==
    ASSUME NEW d, NEW n
    PROVE  Chunks(d, n) = ChunkFold!Left(<<>>, Between(d, n))
<1>1. Chunks(d, n) = FoldLeft(AddChunk, <<>>, Between(d, n))
  BY DEF Chunks, Between, Bounds
<1> QED BY <1>1, AddedIs

Analyzed(cs) == [i \in DOMAIN cs |-> Sequential(cs[i])]

LEMMA SequentialType == ASSUME NEW d \in Seq(Byte) PROVE Sequential(d) \in Stat
BY LinesType, NoStatsIsNone, FoldedAdds DEF Sequential

LEMMA AnalyzedType ==
    ASSUME NEW cs \in Seq(Seq(Byte))
    PROVE  Analyzed(cs) \in Seq(Stat) /\ Len(Analyzed(cs)) = Len(cs)
<1>1. \A i \in 1 .. Len(cs) : Sequential(cs[i]) \in Stat
  BY SequentialType
<1>2. DOMAIN cs = 1 .. Len(cs) /\ Len(cs) \in Nat
  OBVIOUS
<1> QED BY <1>1, <1>2 DEF Analyzed

LEMMA AnalyzedAppend ==
    ASSUME NEW cs \in Seq(Seq(Byte)), NEW c \in Seq(Byte)
    PROVE  Analyzed(Append(cs, c)) = Append(Analyzed(cs), Sequential(c))
<1> DEFINE n == Len(cs)
           a == Analyzed(Append(cs, c))
           b == Append(Analyzed(cs), Sequential(c))
<1>1. /\ Append(cs, c) \in Seq(Seq(Byte)) /\ Len(Append(cs, c)) = n + 1 /\ n \in Nat
      /\ \A i \in 1 .. n : Append(cs, c)[i] = cs[i]
      /\ Append(cs, c)[n + 1] = c
  BY AppendProperties
<1>2. a \in Seq(Stat) /\ Len(a) = n + 1 /\ Analyzed(cs) \in Seq(Stat) /\ Len(Analyzed(cs)) = n
  BY <1>1, AnalyzedType
<1>3. /\ b \in Seq(Stat) /\ Len(b) = n + 1
      /\ \A i \in 1 .. n : b[i] = Analyzed(cs)[i]
      /\ b[n + 1] = Sequential(c)
  <2>1. Sequential(c) \in Stat
    BY SequentialType
  <2> QED BY <1>2, <2>1, AppendProperties
<1>4. \A i \in 1 .. n + 1 : a[i] = Sequential(Append(cs, c)[i])
  BY <1>1 DEF Analyzed
<1>5. \A i \in 1 .. n : Analyzed(cs)[i] = Sequential(cs[i])
  BY <1>1 DEF Analyzed
<1>6. ASSUME NEW i \in 1 .. n + 1 PROVE a[i] = b[i]
  <2>1. i \in 1 .. n \/ i = n + 1
    BY <1>1
  <2>2. CASE i \in 1 .. n
    <3>1. a[i] = Sequential(cs[i]) /\ b[i] = Sequential(cs[i])
      BY <1>1, <1>3, <1>4, <1>5, <2>2
    <3> QED BY <3>1
  <2>3. CASE i = n + 1
    BY <1>1, <1>3, <1>4, <2>3
  <2> QED BY <2>1, <2>2, <2>3
<1> HIDE DEF a, b, n
<1>7. a = b
  BY <1>2, <1>3, <1>6, SeqEqual
<1> QED BY <1>7 DEF a, b

\* What the chunks that have been cut off make up, of the first m bytes.
CutOff(d, m, cs) ==
    /\ cs \in Seq(Seq(Byte))
    /\ FlattenSeq(cs) = SubSeq(d, 1, m)
    /\ \A i \in 1 .. Len(cs) : /\ cs[i] # <<>>
                               /\ Last(cs[i]) = Newline \/ (i = Len(cs) /\ m = Len(d))
    /\ \A q \in Questions :
          Answer(Sequential(SubSeq(d, 1, m)), q) = Answer(SumUp(Analyzed(cs)), q)

LEMMA SequentialConcat ==
    ASSUME NEW d \in Seq(Byte), NEW e \in Seq(Byte), d = <<>> \/ Last(d) = Newline,
           NEW q \in Questions
    PROVE  Answer(Sequential(d \o e), q) = Answer(Sequential(d), q) + Answer(Sequential(e), q)
<1>1. Lines(d \o e) = Lines(d) \o Lines(e) /\ Lines(d) \in Seq(Line) /\ Lines(e) \in Seq(Line)
  BY LinesConcat, LinesType
<1>2. Sequential(d \o e) = Folded(Lines(e), Sequential(d))
  BY <1>1, FoldedConcat DEF Sequential
<1>3. Sequential(d) \in Stat
  BY SequentialType
<1>4. Answer(Folded(Lines(e), Sequential(d)), q)
         = Answer(Sequential(d), q) + Answer(Folded(Lines(e), NoStats), q)
  BY <1>1, <1>3, FoldedAdds
<1> QED BY <1>2, <1>4 DEF Sequential

LEMMA CutOffMore ==
    ASSUME NEW d \in Seq(Byte), NEW m \in 0 .. Len(d), NEW n \in 0 .. Len(d), m < n,
           m = 0 \/ d[m] = Newline, n = Len(d) \/ d[n] = Newline,
           NEW cs, CutOff(d, m, cs)
    PROVE  CutOff(d, n, Append(cs, SubSeq(d, m + 1, n)))
<1> DEFINE c == SubSeq(d, m + 1, n)
           before == SubSeq(d, 1, m)
           ds == Append(cs, c)
<1>1. /\ Len(d) \in Nat /\ m \in Nat /\ n \in Nat /\ m # Len(d)
      /\ c \in Seq(Byte) /\ before \in Seq(Byte) /\ Len(c) = n - m /\ Len(before) = m
      /\ c[n - m] = d[n] /\ (m # 0 => before[m] = d[m])
  <2>1. Len(d) \in Nat /\ m \in Nat /\ n \in Nat /\ m # Len(d)
    OBVIOUS
  <2>2. c \in Seq(Byte) /\ Len(c) = n - m /\ c[n - m] = d[n]
    OBVIOUS
  <2>3. before \in Seq(Byte) /\ Len(before) = m
    OBVIOUS
  <2>4. m # 0 => before[m] = d[m]
    OBVIOUS
  <2> QED BY <2>1, <2>2, <2>3, <2>4
<1>2. cs \in Seq(Seq(Byte)) /\ FlattenSeq(cs) = before
  BY DEF CutOff
<1>3. SubSeq(d, 1, n) = before \o c
  <2>1. 1 \in 1 .. Len(d) + 1 /\ m \in 1 - 1 .. Len(d) /\ n \in m .. Len(d)
    BY <1>1
  <2> QED BY <2>1, ConcatAdjacentSubSeq
<1> HIDE DEF c, before, ds
<1>4. /\ ds \in Seq(Seq(Byte)) /\ Len(ds) = Len(cs) + 1 /\ Len(cs) \in Nat
      /\ \A i \in 1 .. Len(cs) : ds[i] = cs[i]
      /\ ds[Len(cs) + 1] = c
  BY <1>1, <1>2, AppendProperties DEF ds
<1>5. FlattenSeq(ds) = SubSeq(d, 1, n)
  BY <1>1, <1>2, <1>3, FlattenAppend DEF ds
<1>6. before = <<>> \/ Last(before) = Newline
  <2>1. CASE m = 0
    BY <1>1, <2>1
  <2>2. CASE m # 0
    BY <1>1, <2>2 DEF Last
  <2> QED BY <2>1, <2>2
<1>7. c # <<>> /\ Last(c) = d[n]
  <2>1. Len(c) # 0
    BY <1>1
  <2> QED BY <1>1, <2>1 DEF Last
<1>8. ASSUME NEW i \in 1 .. Len(ds)
      PROVE  ds[i] # <<>> /\ (Last(ds[i]) = Newline \/ (i = Len(ds) /\ n = Len(d)))
  <2>1. CASE i \in 1 .. Len(cs)
    <3>1. cs[i] # <<>> /\ Last(cs[i]) = Newline
      BY <1>1, <2>1 DEF CutOff
    <3> QED BY <1>4, <2>1, <3>1
  <2>2. CASE i = Len(cs) + 1
    BY <1>4, <1>7, <2>2
  <2> QED BY <1>4, <2>1, <2>2
<1>9. ASSUME NEW q \in Questions
      PROVE  Answer(Sequential(SubSeq(d, 1, n)), q) = Answer(SumUp(Analyzed(ds)), q)
  <2>1. Answer(Sequential(before \o c), q) = Answer(Sequential(before), q) + Answer(Sequential(c), q)
    BY <1>1, <1>6, SequentialConcat
  <2>2. Answer(Sequential(before), q) = Answer(SumUp(Analyzed(cs)), q)
    BY DEF CutOff, before
  <2>3. Sequential(c) \in Stat /\ Analyzed(cs) \in Seq(Stat)
    BY <1>1, <1>2, SequentialType, AnalyzedType
  <2>4. Analyzed(ds) = Append(Analyzed(cs), Sequential(c))
    BY <1>1, <1>2, AnalyzedAppend DEF ds
  <2>5. SumUp(Append(Analyzed(cs), Sequential(c))) = Merge(SumUp(Analyzed(cs)), Sequential(c))
    BY <2>3, MergeFold!LeftAppend DEF SumUp
  <2>6. SumUp(Analyzed(cs)) \in Stat
    BY <2>3, SumAdds, NoStatsIsNone
  <2>7. Answer(Merge(SumUp(Analyzed(cs)), Sequential(c)), q)
           = Answer(SumUp(Analyzed(cs)), q) + Answer(Sequential(c), q)
    BY <2>3, <2>6, MergeAdds
  <2> QED BY <1>3, <2>1, <2>2, <2>4, <2>5, <2>7
<1>10. CutOff(d, n, ds)
  BY <1>4, <1>5, <1>8, <1>9 DEF CutOff
<1> QED BY <1>10 DEF ds, c

LEMMA CutOffNone == ASSUME NEW d \in Seq(Byte) PROVE CutOff(d, 0, <<>>)
<1>1. <<>> \in Seq(Seq(Byte)) /\ SubSeq(d, 1, 0) = <<>> /\ Len(<<>>) = 0 /\ <<>> \in Seq(Byte)
  OBVIOUS
<1>2. FlattenSeq(<<>>) = <<>>
  BY DEF FlattenSeq
<1>3. Analyzed(<<>>) = <<>>
  <2>1. Analyzed(<<>>) \in Seq(Stat) /\ Len(Analyzed(<<>>)) = 0
    BY <1>1, AnalyzedType
  <2> QED BY <2>1, EmptySeq
<1>4. Sequential(<<>>) = NoStats
  <2>1. Lines(<<>>) = <<>>
    BY ReadIs, ReadFold!LeftEmpty DEF Lines, WithLine, NothingRead
  <2> QED BY <2>1, FoldedNone DEF Sequential
<1>5. SumUp(<<>>) = NoStats
  BY MergeFold!LeftEmpty DEF SumUp
<1> DEFINE none == <<>>
<1>6. /\ none \in Seq(Seq(Byte)) /\ FlattenSeq(none) = SubSeq(d, 1, 0) /\ Len(none) = 0
      /\ Sequential(SubSeq(d, 1, 0)) = SumUp(Analyzed(none))
  BY <1>1, <1>2, <1>3, <1>4, <1>5
<1> HIDE DEF none
<1>7. CutOff(d, 0, none)
  BY <1>6 DEF CutOff
<1> QED BY <1>7 DEF none

LEMMA ChunksAreCutOff ==
    ASSUME NEW d \in Seq(Byte), NEW n \in Nat \ {0}
    PROVE  CutOff(d, Len(d), Chunks(d, n))
<1> DEFINE b == Bounds(d, n)
           ps == Between(d, n)
<1>1. /\ b[0] = 0 /\ b[n] = Len(d)
      /\ \A i \in 0 .. n : b[i] \in 0 .. Len(d) /\ (b[i] \in {0, Len(d)} \/ d[b[i]] = Newline)
      /\ \A i \in 1 .. n : b[i - 1] <= b[i]
  BY BoundsInOrder
<1> HIDE DEF b
<1>2. /\ \A i \in 1 .. n : ps[i] = SubSeq(d, b[i - 1] + 1, b[i])
      /\ Len(ps) = n /\ ps \in Seq(Seq(Byte))
  <2>1. \A i \in 1 .. n : SubSeq(d, b[i - 1] + 1, b[i]) \in Seq(Byte)
    <3>1. SUFFICES ASSUME NEW i \in 1 .. n PROVE SubSeq(d, b[i - 1] + 1, b[i]) \in Seq(Byte)
      OBVIOUS
    <3>2. i \in 0 .. n /\ i - 1 \in 0 .. n
      OBVIOUS
    <3>3. b[i - 1] \in 0 .. Len(d) /\ b[i] \in 0 .. Len(d)
      BY <1>1, <3>2
    <3> QED BY <3>3
  <2>2. ps = [i \in 1 .. n |-> SubSeq(d, b[i - 1] + 1, b[i])]
    BY DEF Between, b
  <2>3. \A i \in 1 .. n : ps[i] = SubSeq(d, b[i - 1] + 1, b[i])
    BY <2>2
  <2>4. DOMAIN ps = 1 .. n /\ ps = [i \in 1 .. n |-> ps[i]]
    BY <2>2
  <2> HIDE DEF ps
  <2>5. ps \in [1 .. n -> Seq(Byte)]
    <3>1. \A i \in 1 .. n : ps[i] \in Seq(Byte)
      BY <2>1, <2>3
    <3> QED BY <2>4, <3>1
  <2> QED BY <2>3, <2>5
<1> HIDE DEF ps
<1>3. PICK h : ChunkFold!Runs(<<>>, ps, h) /\ h[n] = ChunkFold!Left(<<>>, ps)
  BY <1>2, ChunkFold!LeftRuns
<1> DEFINE S == {k \in 0 .. n : CutOff(d, b[k], h[k])}
<1>4. 0 \in S
  BY <1>1, <1>3, CutOffNone DEF ChunkFold!Runs
<1>5. ASSUME NEW k \in 0 .. n - 1, k \in S PROVE k + 1 \in S
  <2>1. k + 1 \in 1 .. n /\ (k + 1) - 1 = k /\ k + 1 \in 0 .. n /\ k \in 0 .. n
    OBVIOUS
  <2> DEFINE i == b[k]
             j == b[k + 1]
             c == SubSeq(d, i + 1, j)
  <2>2. /\ i \in 0 .. Len(d) /\ (i \in {0, Len(d)} \/ d[i] = Newline)
        /\ j \in 0 .. Len(d) /\ (j \in {0, Len(d)} \/ d[j] = Newline)
    BY <1>1, <2>1
  <2>3. i <= j
    BY <1>1, <2>1
  <2>4. h[k + 1] = AddChunk(h[k], c)
    <3>1. h[k + 1] = AddChunk(h[k], ps[k + 1])
      BY <1>2, <1>3, <2>1 DEF ChunkFold!Runs
    <3> QED BY <1>2, <2>1, <3>1
  <2>5. CutOff(d, i, h[k])
    BY <1>5
  <2> HIDE DEF i, j
  <2>6. CutOff(d, j, h[k + 1])
    <3>1. CASE i = j
      <4>1. c = <<>>
        BY <2>2, <3>1, SubSeqEmpty
      <4> QED BY <2>4, <2>5, <3>1, <4>1 DEF AddChunk
    <3>2. CASE i < j
      <4>1. i # Len(d) /\ j # 0
        BY <2>2, <3>2
      <4>2. (i = 0 \/ d[i] = Newline) /\ (j = Len(d) \/ d[j] = Newline)
        BY <2>2, <4>1
      <4>3. c # <<>>
        <5>1. Len(c) = j - i
          BY <2>2, <3>2
        <5> QED BY <2>2, <3>2, <5>1
      <4>4. h[k + 1] = Append(h[k], c)
        BY <2>4, <4>3 DEF AddChunk
      <4>5. CutOff(d, j, Append(h[k], c))
        BY <2>2, <2>5, <3>2, <4>2, CutOffMore
      <4> QED BY <4>4, <4>5
    <3> QED BY <2>2, <2>3, <3>1, <3>2
  <2> QED BY <2>1, <2>6 DEF j
<1>6. n \in S
  <2>1. n \in 0 .. n
    OBVIOUS
  <2> HIDE DEF S
  <2> QED BY <1>4, <1>5, <2>1, ChunkFold!Induction
<1> QED BY <1>1, <1>3, <1>6, ChunksIs DEF ps

(***************************************************************************)
(* Sums after a step of a worker, of main or of rayon.                     *)
(***************************************************************************)
LEMMA ThreeParts ==
    ASSUME NEW T, NEW p \in Seq(T), NEW o \in Seq(T), NEW r \in Seq(T),
           NEW s \in Seq(T), Len(s) = Len(p) + Len(o) + Len(r),
           \A j \in 1 .. Len(p) : s[j] = p[j],
           \A j \in 1 .. Len(o) : s[Len(p) + j] = o[j],
           \A j \in 1 .. Len(r) : s[Len(p) + Len(o) + j] = r[j]
    PROVE  s = (p \o o) \o r
<1> DEFINE k == Len(p)
           l == Len(o)
           m == Len(r)
           v == p \o o
           u == v \o r
<1>1. k \in Nat /\ l \in Nat /\ m \in Nat
  OBVIOUS
<1>2. v \in Seq(T) /\ Len(v) = k + l /\ \A j \in 1 .. k + l : v[j] = IF j <= k THEN p[j] ELSE o[j - k]
  BY ConcatProperties
<1>a. v \in Seq(T) /\ Len(v) = k + l
  BY <1>2
<1> HIDE DEF v
<1>3. /\ u \in Seq(T) /\ Len(u) = (k + l) + m
      /\ \A j \in 1 .. (k + l) + m : u[j] = IF j <= k + l THEN v[j] ELSE r[j - (k + l)]
  <2>1. /\ u \in Seq(T) /\ Len(u) = Len(v) + Len(r)
        /\ \A j \in 1 .. Len(v) + Len(r) : u[j] = IF j <= Len(v) THEN v[j] ELSE r[j - Len(v)]
    BY <1>a, ConcatProperties
  <2> HIDE DEF u
  <2> QED BY <1>a, <2>1
<1> HIDE DEF u, k, l, m
<1>4. /\ \A j \in 1 .. k : s[j] = p[j]
      /\ \A j \in 1 .. l : s[k + j] = o[j]
      /\ \A j \in 1 .. m : s[k + l + j] = r[j]
      /\ Len(s) = (k + l) + m
  BY DEF k, l, m
<1>5. ASSUME NEW j \in 1 .. Len(s) PROVE s[j] = u[j]
  <2>1. CASE j <= k
    <3>1. j \in 1 .. k /\ j \in 1 .. k + l /\ j \in 1 .. (k + l) + m
      BY <1>1, <2>1
    <3> QED BY <1>2, <1>3, <1>4, <3>1
  <2>2. CASE j > k /\ j <= k + l
    <3>1. /\ j - k \in 1 .. l /\ k + (j - k) = j /\ ~(j <= k)
          /\ j \in 1 .. k + l /\ j \in 1 .. (k + l) + m
      BY <1>1, <2>2
    <3>2. s[k + (j - k)] = o[j - k]
      BY <1>4, <3>1
    <3> QED BY <1>2, <1>3, <2>2, <3>1, <3>2
  <2>3. CASE j > k + l
    <3>1. /\ j - (k + l) \in 1 .. m /\ k + l + (j - (k + l)) = j /\ ~(j <= k + l)
          /\ j \in 1 .. (k + l) + m
      BY <1>1, <1>4, <2>3
    <3>2. s[k + l + (j - (k + l))] = r[j - (k + l)]
      BY <1>4, <3>1
    <3> QED BY <1>3, <3>1, <3>2
  <2> QED BY <1>1, <2>1, <2>2, <2>3
<1>6. s = u
  BY <1>3, <1>4, <1>5, SeqEqual
<1> QED BY <1>6 DEF u, v

LEMMA SumChange ==
    ASSUME NEW ss \in Seq(Stat), NEW i \in 1 .. Len(ss), NEW x \in Stat, NEW q \in Questions
    PROVE  /\ [ss EXCEPT ![i] = x] \in Seq(Stat)
           /\ Answer(SumUp([ss EXCEPT ![i] = x]), q) + Answer(ss[i], q)
                 = Answer(SumUp(ss), q) + Answer(x, q)
<1> DEFINE pre == SubSeq(ss, 1, i - 1)
           post == SubSeq(ss, i + 1, Len(ss))
           old == <<ss[i]>>
           new == <<x>>
           ts == [ss EXCEPT ![i] = x]
<1>1. /\ pre \in Seq(Stat) /\ post \in Seq(Stat) /\ old \in Seq(Stat) /\ new \in Seq(Stat)
      /\ ts \in Seq(Stat) /\ ss[i] \in Stat
  OBVIOUS
<1>2. /\ Len(pre) = i - 1 /\ Len(post) = Len(ss) - i /\ Len(old) = 1 /\ Len(new) = 1
      /\ Len(ts) = Len(ss) /\ Len(ss) \in Nat
      /\ \A j \in 1 .. i - 1 : pre[j] = ss[j] /\ ts[j] = ss[j]
      /\ \A j \in 1 .. Len(ss) - i : post[j] = ss[i + j] /\ ts[i + j] = ss[i + j]
      /\ old[1] = ss[i] /\ new[1] = x /\ ts[i] = x
  OBVIOUS
<1>a. ss = (pre \o old) \o post
  <2> HIDE DEF pre, old, post, ts
  <2>1. Len(ss) = Len(pre) + Len(old) + Len(post) /\ Len(pre) + 1 = i
    BY <1>2
  <2>2. \A j \in 1 .. Len(pre) : ss[j] = pre[j]
    BY <1>2
  <2>3. ASSUME NEW j \in 1 .. Len(old) PROVE ss[Len(pre) + j] = old[j]
    <3>1. j = 1
      BY <1>2
    <3> QED BY <1>2, <2>1, <3>1
  <2>4. ASSUME NEW j \in 1 .. Len(post) PROVE ss[Len(pre) + Len(old) + j] = post[j]
    <3>1. j \in 1 .. Len(ss) - i /\ Len(pre) + Len(old) + j = i + j
      BY <1>2
    <3> QED BY <1>2, <3>1
  <2>5. ss \in Seq(Stat) /\ pre \in Seq(Stat) /\ old \in Seq(Stat) /\ post \in Seq(Stat)
    BY <1>1
  <2> QED BY <2>1, <2>2, <2>3, <2>4, <2>5, ThreeParts
<1>b. ts = (pre \o new) \o post
  <2> HIDE DEF pre, new, post, ts
  <2>1. Len(ts) = Len(pre) + Len(new) + Len(post) /\ Len(pre) + 1 = i
    BY <1>2
  <2>2. \A j \in 1 .. Len(pre) : ts[j] = pre[j]
    BY <1>2
  <2>3. ASSUME NEW j \in 1 .. Len(new) PROVE ts[Len(pre) + j] = new[j]
    <3>1. j = 1
      BY <1>2
    <3> QED BY <1>2, <2>1, <3>1
  <2>4. ASSUME NEW j \in 1 .. Len(post) PROVE ts[Len(pre) + Len(new) + j] = post[j]
    <3>1. j \in 1 .. Len(ss) - i /\ Len(pre) + Len(new) + j = i + j
      BY <1>2
    <3> QED BY <1>2, <3>1
  <2>5. ts \in Seq(Stat) /\ pre \in Seq(Stat) /\ new \in Seq(Stat) /\ post \in Seq(Stat)
    BY <1>1
  <2> QED BY <2>1, <2>2, <2>3, <2>4, <2>5, ThreeParts, ZenonT(60)
<1> HIDE DEF pre, post, ts
<1>3. /\ Answer(SumUp(pre), q) \in Nat /\ Answer(SumUp(post), q) \in Nat
      /\ Answer(ss[i], q) \in Nat /\ Answer(x, q) \in Nat
  BY <1>1, SumAdds, NoStatsIsNone, AnswersAreNumbers
<1>4. Answer(SumUp(old), q) = Answer(ss[i], q) /\ Answer(SumUp(new), q) = Answer(x, q)
  BY <1>1, SumOne
<1> HIDE DEF old, new
<1>5. /\ Answer(SumUp(ss), q) = (Answer(SumUp(pre), q) + Answer(SumUp(old), q)) + Answer(SumUp(post), q)
      /\ Answer(SumUp(ts), q) = (Answer(SumUp(pre), q) + Answer(SumUp(new), q)) + Answer(SumUp(post), q)
  <2>1. pre \o old \in Seq(Stat) /\ pre \o new \in Seq(Stat)
    BY <1>1, ConcatProperties
  <2>2. /\ Answer(SumUp(pre \o old), q) = Answer(SumUp(pre), q) + Answer(SumUp(old), q)
        /\ Answer(SumUp(pre \o new), q) = Answer(SumUp(pre), q) + Answer(SumUp(new), q)
    BY <1>1, SumConcat
  <2>3. /\ Answer(SumUp((pre \o old) \o post), q) = Answer(SumUp(pre \o old), q) + Answer(SumUp(post), q)
        /\ Answer(SumUp((pre \o new) \o post), q) = Answer(SumUp(pre \o new), q) + Answer(SumUp(post), q)
    BY <1>1, <2>1, SumConcat
  <2> QED BY <1>a, <1>b, <2>2, <2>3
<1>6. Answer(SumUp(ts), q) + Answer(ss[i], q) = Answer(SumUp(ss), q) + Answer(x, q)
  BY <1>3, <1>4, <1>5
<1> QED BY <1>1, <1>6 DEF ts

LEMMA SumFirst ==
    ASSUME NEW ss \in Seq(Stat), ss # <<>>, NEW q \in Questions
    PROVE  Answer(SumUp(ss), q) = Answer(Head(ss), q) + Answer(SumUp(Tail(ss)), q)
<1> DEFINE one == <<Head(ss)>>
           tl == Tail(ss)
<1>1. one \in Seq(Stat) /\ tl \in Seq(Stat) /\ ss = one \o tl /\ Head(ss) \in Stat
  OBVIOUS
<1>2. Answer(SumUp(one), q) = Answer(Head(ss), q)
  BY <1>1, SumOne
<1> HIDE DEF one, tl
<1>3. Answer(SumUp(one \o tl), q) = Answer(SumUp(one), q) + Answer(SumUp(tl), q)
  BY <1>1, SumConcat
<1> QED BY <1>1, <1>2, <1>3 DEF tl, Cat

\* Neighbours i and i + 1 reduced to one.
Reduction(ss, i) ==
    [j \in 1 .. Len(ss) - 1 |->
        IF j < i THEN ss[j] ELSE IF j = i THEN Merge(ss[i], ss[i + 1]) ELSE ss[j + 1]]

LEMMA ReductionType ==
    ASSUME NEW ss \in Seq(Stat), NEW i \in 1 .. Len(ss) - 1
    PROVE  Reduction(ss, i) \in Seq(Stat) /\ Len(Reduction(ss, i)) = Len(ss) - 1
<1> DEFINE m == Merge(ss[i], ss[i + 1])
<1>1. /\ ss[i] \in Stat /\ ss[i + 1] \in Stat /\ Len(ss) \in Nat
      /\ \A j \in 1 .. Len(ss) : ss[j] \in Stat
  OBVIOUS
<1>2. m \in Stat
  BY <1>1, MergeAdds
<1>3. Reduction(ss, i)
         = [j \in 1 .. Len(ss) - 1 |-> IF j < i THEN ss[j] ELSE IF j = i THEN m ELSE ss[j + 1]]
  BY DEF Reduction
<1> HIDE DEF m
<1> QED BY <1>1, <1>2, <1>3

LEMMA SumReduction ==
    ASSUME NEW ss \in Seq(Stat), NEW i \in 1 .. Len(ss) - 1, NEW q \in Questions
    PROVE  /\ Reduction(ss, i) \in Seq(Stat) /\ Len(Reduction(ss, i)) = Len(ss) - 1
           /\ Answer(SumUp(Reduction(ss, i)), q) = Answer(SumUp(ss), q)
<1> DEFINE pre == SubSeq(ss, 1, i - 1)
           post == SubSeq(ss, i + 2, Len(ss))
           a == ss[i]
           b == ss[i + 1]
           m == Merge(a, b)
           both == <<a, b>>
           one == <<m>>
           ts == Reduction(ss, i)
<1>1. a \in Stat /\ b \in Stat /\ Len(ss) \in Nat /\ \A j \in 1 .. Len(ss) : ss[j] \in Stat
  OBVIOUS
<1>2. m \in Stat /\ Answer(m, q) = Answer(a, q) + Answer(b, q)
  BY <1>1, MergeAdds
<1>3. /\ ts = [j \in 1 .. Len(ss) - 1 |-> IF j < i THEN ss[j] ELSE IF j = i THEN m ELSE ss[j + 1]]
  BY DEF Reduction
<1> HIDE DEF m, ts
<1>4. ts \in Seq(Stat) /\ Len(ts) = Len(ss) - 1
  BY <1>1, <1>2, <1>3
<1>5. /\ pre \in Seq(Stat) /\ post \in Seq(Stat) /\ both \in Seq(Stat) /\ one \in Seq(Stat)
      /\ Len(pre) = i - 1 /\ Len(post) = Len(ss) - (i + 1)
      /\ \A j \in 1 .. i - 1 : pre[j] = ss[j]
      /\ \A j \in 1 .. Len(ss) - (i + 1) : post[j] = ss[(i + 1) + j]
  BY <1>1, <1>2
<1>6. /\ Len(both) = 2 /\ both[1] = a /\ both[2] = b /\ Len(one) = 1 /\ one[1] = m
      /\ \A j \in 1 .. i - 1 : ts[j] = ss[j]
      /\ ts[i] = m
      /\ \A j \in i + 1 .. Len(ss) - 1 : ts[j] = ss[j + 1]
  BY <1>1, <1>3
<1>a. ss = (pre \o both) \o post
  <2>1. a = ss[i] /\ b = ss[i + 1]
    OBVIOUS
  <2> HIDE DEF pre, both, post, a, b
  <2>2. Len(ss) = Len(pre) + Len(both) + Len(post) /\ Len(pre) + 1 = i /\ Len(pre) + 2 = i + 1
    BY <1>1, <1>5, <1>6
  <2>3. \A j \in 1 .. Len(pre) : ss[j] = pre[j]
    BY <1>5
  <2>4. ASSUME NEW j \in 1 .. Len(both) PROVE ss[Len(pre) + j] = both[j]
    <3>1. j = 1 \/ j = 2
      BY <1>6
    <3> QED BY <1>6, <2>1, <2>2, <3>1
  <2>5. \A j \in 1 .. Len(post) : ss[Len(pre) + Len(both) + j] = post[j]
    BY <1>1, <1>5, <1>6
  <2> QED BY <1>5, <2>2, <2>3, <2>4, <2>5, ThreeParts
<1>7. ts = (pre \o one) \o post
  <2> HIDE DEF pre, one, post, a, b
  <2>1. Len(ts) = Len(pre) + Len(one) + Len(post) /\ Len(pre) + 1 = i
    BY <1>1, <1>4, <1>5, <1>6
  <2>2. \A j \in 1 .. Len(pre) : ts[j] = pre[j]
    BY <1>5, <1>6
  <2>3. \A j \in 1 .. Len(one) : ts[Len(pre) + j] = one[j]
    BY <1>6, <2>1
  <2>4. ASSUME NEW j \in 1 .. Len(post) PROVE ts[Len(pre) + Len(one) + j] = post[j]
    <3>1. /\ j \in 1 .. Len(ss) - (i + 1) /\ i + j \in i + 1 .. Len(ss) - 1
          /\ Len(pre) + Len(one) + j = i + j /\ (i + j) + 1 = (i + 1) + j
      BY <1>1, <1>5, <1>6
    <3> QED BY <1>5, <1>6, <3>1
  <2> QED BY <1>4, <1>5, <2>1, <2>2, <2>3, <2>4, ThreeParts
<1>8. Answer(SumUp(one), q) = Answer(m, q)
  BY <1>2, SumOne
<1>9. Answer(SumUp(both), q) = Answer(m, q)
  <2> DEFINE p == <<a>>
             r == <<b>>
  <2>1. p \in Seq(Stat) /\ r \in Seq(Stat) /\ both = p \o r
    BY <1>1
  <2>2. Answer(SumUp(p), q) = Answer(a, q) /\ Answer(SumUp(r), q) = Answer(b, q)
    BY <1>1, SumOne
  <2> HIDE DEF p, r, both
  <2>3. Answer(SumUp(p \o r), q) = Answer(SumUp(p), q) + Answer(SumUp(r), q)
    BY <2>1, SumConcat
  <2> QED BY <1>2, <2>1, <2>2, <2>3
<1> HIDE DEF pre, post, both, one
<1>10. /\ Answer(SumUp(ss), q) = (Answer(SumUp(pre), q) + Answer(SumUp(both), q)) + Answer(SumUp(post), q)
       /\ Answer(SumUp(ts), q) = (Answer(SumUp(pre), q) + Answer(SumUp(one), q)) + Answer(SumUp(post), q)
  <2>1. pre \o both \in Seq(Stat) /\ pre \o one \in Seq(Stat)
    BY <1>5, ConcatProperties
  <2>2. /\ Answer(SumUp(pre \o both), q) = Answer(SumUp(pre), q) + Answer(SumUp(both), q)
        /\ Answer(SumUp(pre \o one), q) = Answer(SumUp(pre), q) + Answer(SumUp(one), q)
    BY <1>5, SumConcat
  <2>3. /\ Answer(SumUp((pre \o both) \o post), q) = Answer(SumUp(pre \o both), q) + Answer(SumUp(post), q)
        /\ Answer(SumUp((pre \o one) \o post), q) = Answer(SumUp(pre \o one), q) + Answer(SumUp(post), q)
    BY <1>5, <2>1, SumConcat
  <2> QED BY <1>a, <1>7, <2>2, <2>3
<1> QED BY <1>4, <1>8, <1>9, <1>10 DEF ts

LEMMA FoldedSplit ==
    ASSUME NEW ls \in Seq(Line), NEW ms \in Seq(Line), NEW q \in Questions
    PROVE  Answer(Folded(ls \o ms, NoStats), q)
              = Answer(Folded(ls, NoStats), q) + Answer(Folded(ms, NoStats), q)
<1>1. NoStats \in Stat
  BY NoStatsIsNone
<1>2. Folded(ls, NoStats) \in Stat
  BY <1>1, FoldedAdds
<1> QED BY <1>2, FoldedAdds, FoldedConcat

(***************************************************************************)
(* However rayon splits the lines, the pieces add up to them.              *)
(***************************************************************************)
LEMMA PiecesAddUp ==
    ASSUME NEW ls \in Seq(Line), NEW n \in Nat, NEW c \in [0 .. n -> 0 .. Len(ls)],
           c[0] = 0, c[n] = Len(ls), \A i \in 1 .. n : c[i - 1] <= c[i],
           NEW ss, ss = [i \in 1 .. n |-> Folded(SubSeq(ls, c[i - 1] + 1, c[i]), NoStats)]
    PROVE  /\ ss \in Seq(Stat) /\ Len(ss) = n
           /\ \A q \in Questions : Answer(SumUp(ss), q) = Answer(Folded(ls, NoStats), q)
<1>1. ASSUME NEW i \in 1 .. n
      PROVE  /\ SubSeq(ls, c[i - 1] + 1, c[i]) \in Seq(Line)
             /\ SubSeq(ls, 1, c[i]) = SubSeq(ls, 1, c[i - 1]) \o SubSeq(ls, c[i - 1] + 1, c[i])
             /\ SubSeq(ls, 1, c[i - 1]) \in Seq(Line)
  <2>1. c[i - 1] \in 0 .. Len(ls) /\ c[i] \in 0 .. Len(ls) /\ c[i - 1] <= c[i]
    OBVIOUS
  <2> DEFINE j == c[i - 1]
             k == c[i]
  <2> HIDE DEF j, k
  <2>2. j \in 0 .. Len(ls) /\ k \in 0 .. Len(ls) /\ j <= k /\ Len(ls) \in Nat
    BY <2>1 DEF j, k
  <2>3. SubSeq(ls, j + 1, k) \in Seq(Line) /\ SubSeq(ls, 1, j) \in Seq(Line)
    BY <2>2
  <2>4. SubSeq(ls, 1, j) \o SubSeq(ls, j + 1, k) = SubSeq(ls, 1, k)
    <3>1. 1 \in 1 .. Len(ls) + 1 /\ j \in 1 - 1 .. Len(ls) /\ k \in j .. Len(ls)
      BY <2>2
    <3> QED BY <3>1, ConcatAdjacentSubSeq
  <2> QED BY <2>3, <2>4 DEF j, k
<1>2. \A i \in 1 .. n : Folded(SubSeq(ls, c[i - 1] + 1, c[i]), NoStats) \in Stat
  BY <1>1, FoldedAdds, NoStatsIsNone
<1>3. ss \in Seq(Stat) /\ Len(ss) = n
  BY <1>2
<1>4. PICK h : MergeFold!Runs(NoStats, ss, h) /\ h[n] = SumUp(ss)
  BY <1>3, MergeFold!LeftRuns DEF SumUp
<1>5. SUFFICES ASSUME NEW q \in Questions
               PROVE  Answer(SumUp(ss), q) = Answer(Folded(ls, NoStats), q)
  BY <1>3
<1> DEFINE S == {k \in 0 .. n : /\ h[k] \in Stat
                                /\ Answer(h[k], q) = Answer(Folded(SubSeq(ls, 1, c[k]), NoStats), q)}
<1>6. 0 \in S
  <2>1. SubSeq(ls, 1, c[0]) = <<>> /\ h[0] = NoStats
    BY <1>4 DEF MergeFold!Runs
  <2> QED BY <2>1, FoldedNone, NoStatsIsNone
<1>7. ASSUME NEW k \in 0 .. n - 1, k \in S PROVE k + 1 \in S
  <2>1. k + 1 \in 1 .. n /\ (k + 1) - 1 = k /\ k + 1 \in 0 .. n
    OBVIOUS
  <2> DEFINE piece == SubSeq(ls, c[k] + 1, c[k + 1])
  <2>2. h[k + 1] = Merge(h[k], ss[k + 1])
    BY <1>3, <1>4, <2>1 DEF MergeFold!Runs
  <2>3. ss[k + 1] = Folded(piece, NoStats) /\ ss[k + 1] \in Stat
    BY <1>2, <2>1
  <2>4. /\ piece \in Seq(Line) /\ SubSeq(ls, 1, c[k]) \in Seq(Line)
        /\ SubSeq(ls, 1, c[k + 1]) = SubSeq(ls, 1, c[k]) \o piece
    BY <1>1, <2>1
  <2>5. h[k] \in Stat /\ Answer(h[k], q) = Answer(Folded(SubSeq(ls, 1, c[k]), NoStats), q)
    BY <1>7
  <2> HIDE DEF piece
  <2>6. h[k + 1] \in Stat /\ Answer(h[k + 1], q) = Answer(h[k], q) + Answer(Folded(piece, NoStats), q)
    BY <2>2, <2>3, <2>5, MergeAdds
  <2>7. Answer(Folded(SubSeq(ls, 1, c[k]) \o piece, NoStats), q)
           = Answer(Folded(SubSeq(ls, 1, c[k]), NoStats), q) + Answer(Folded(piece, NoStats), q)
    BY <2>4, FoldedSplit
  <2> QED BY <2>1, <2>4, <2>5, <2>6, <2>7
<1>8. n \in S
  <2>1. n \in 0 .. n
    OBVIOUS
  <2> HIDE DEF S
  <2> QED BY <1>6, <1>7, <2>1, MergeFold!Induction
<1>9. SubSeq(ls, 1, c[n]) = ls
  BY SubSeqFull
<1> QED BY <1>4, <1>8, <1>9

LEMMA SumOfNone ==
    ASSUME NEW ss \in Seq({NoStats}), NEW q \in Questions
    PROVE  Answer(SumUp(ss), q) = 0
<1> DEFINE S == {s \in Stat : Answer(s, q) = 0}
<1>1. NoStats \in S
  BY NoStatsIsNone
<1>2. \A a \in S : \A s \in {NoStats} : Merge(a, s) \in S
  BY <1>1, MergeAdds
<1> HIDE DEF S
<1>3. SumUp(ss) \in S
  BY <1>1, <1>2, MergeFold!LeftType DEF SumUp
<1> QED BY <1>3 DEF S

(***************************************************************************)
(* The invariant.  The types, ...                                          *)
(***************************************************************************)
NumWorkers ==
    IF mode = "par" THEN Len(Chunks(data, threads))
    ELSE IF mode = "pipeline" THEN threads ELSE 0

CrunchTypes ==
    /\ mode \in Modes /\ data \in Logs /\ threads \in Threads
    /\ todo \in Seq(Line) /\ batch \in Seq(Line) /\ Len(batch) <= BATCH
    /\ chan \in Seq(Seq(Line)) /\ Len(chan) <= Cap /\ txOpen \in BOOLEAN
    /\ local \in [Workers -> Stat] /\ ended \subseteq Workers
    /\ parts \in Seq(Stat) /\ acc \in Stat
    /\ joined \in Nat /\ 1 .. joined \subseteq ended

\* ... the end of the pipeline: nothing is left where nobody will fetch it, ...
Drained ==
    /\ txOpen => mode = "pipeline"
    /\ ~txOpen => todo = <<>> /\ batch = <<>>
    /\ mode # "pipeline" => chan = <<>>
    /\ mode = "pipeline" /\ ended # {} => ~txOpen /\ chan = <<>>

\* ... rayon's pieces, reduced before main has anything, ...
Unreduced == parts # <<>> => mode = "rayon" /\ acc = NoStats

\* ... what the answers of a running analysis add up to, ...
Rest == [i \in 1 .. NumWorkers - joined |-> local[joined + i]]

Held(q) == ((Answer(acc, q) + Answer(SumUp(Rest), q)) + Answer(SumUp(parts), q)) + Answer(Unseen, q)

Conserved ==
    mode \in {"pipeline", "rayon"} => \A q \in Questions : Held(q) = Answer(Sequential(data), q)

\* ... and the analysis by chunks and by one thread.
Done == Analyzed(Chunks(data, threads))

ByChunks ==
    mode = "par" =>
       /\ \A w \in ended : local[w] = Done[w]
       /\ \A q \in Questions : Answer(acc, q) = Answer(SumUp(SubSeq(Done, 1, joined)), q)

ByOne == mode = "seq" => acc = Sequential(data)

CrunchInv ==
    CrunchTypes /\ Drained /\ Unreduced /\ Conserved /\ ByChunks /\ ByOne /\ SameReport

LEMMA Parameters ==
    ASSUME data \in Logs, threads \in Threads
    PROVE  /\ data \in Seq(Byte) /\ threads \in Nat \ {0} /\ BATCH \in Nat \ {0} /\ Cap \in Nat \ {0}
           /\ Pieces \in Nat \ {0}
BY CrunchAssumption DEF Byte

LEMMA ChunksType ==
    ASSUME data \in Logs, threads \in Threads
    PROVE  /\ Chunks(data, threads) \in Seq(Seq(Byte))
           /\ Done \in Seq(Stat) /\ Len(Done) = Len(Chunks(data, threads))
           /\ \A w \in 1 .. Len(Done) : Done[w] = Sequential(Chunks(data, threads)[w])
           /\ \A q \in Questions : Answer(Sequential(data), q) = Answer(SumUp(Done), q)
<1> DEFINE cs == Chunks(data, threads)
<1>1. data \in Seq(Byte) /\ threads \in Nat \ {0}
  BY Parameters
<1>2. CutOff(data, Len(data), cs) /\ SubSeq(data, 1, Len(data)) = data
  BY <1>1, ChunksAreCutOff, SubSeqFull
<1> HIDE DEF cs
<1>3. /\ cs \in Seq(Seq(Byte))
      /\ \A q \in Questions : Answer(Sequential(data), q) = Answer(SumUp(Analyzed(cs)), q)
  BY <1>2 DEF CutOff
<1>4. Analyzed(cs) \in Seq(Stat) /\ Len(Analyzed(cs)) = Len(cs)
  BY <1>3, AnalyzedType
<1>5. \A w \in 1 .. Len(cs) : Analyzed(cs)[w] = Sequential(cs[w])
  <2>1. DOMAIN cs = 1 .. Len(cs)
    BY <1>3
  <2> QED BY <2>1 DEF Analyzed
<1> QED BY <1>3, <1>4, <1>5 DEF cs, Done

LEMMA WorkersAre ==
    ASSUME mode \in Modes, data \in Logs, threads \in Threads
    PROVE  NumWorkers \in Nat /\ Workers = 1 .. NumWorkers /\ Cardinality(Workers) = NumWorkers
<1>1. threads \in Nat /\ Chunks(data, threads) \in Seq(Seq(Byte))
  BY Parameters, ChunksType
<1>2. NumWorkers \in Nat
  BY <1>1 DEF NumWorkers
<1>3. Workers = 1 .. NumWorkers
  <2>1. CASE mode = "par"
    <3>1. Workers = DOMAIN Chunks(data, threads)
      BY <2>1 DEF Workers
    <3> QED BY <1>1, <2>1, <3>1 DEF NumWorkers
  <2>2. CASE mode = "pipeline"
    <3>1. Workers = 1 .. threads
      BY <2>2 DEF Workers
    <3> QED BY <2>2, <3>1 DEF NumWorkers
  <2>3. CASE mode # "par" /\ mode # "pipeline"
    <3>1. Workers = {}
      BY <2>3 DEF Workers
    <3>2. NumWorkers = 0
      BY <2>3 DEF NumWorkers
    <3> QED BY <3>1, <3>2
  <2> QED BY <2>1, <2>2, <2>3
<1>4. Cardinality(1 .. NumWorkers) = NumWorkers
  <2>1. NumWorkers = 0 => Cardinality(1 .. NumWorkers) = 0
    BY FS_Interval
  <2>2. NumWorkers > 0 => Cardinality(1 .. NumWorkers) = NumWorkers - 1 + 1
    BY <1>2, FS_Interval
  <2> QED BY <1>2, <2>1, <2>2
<1> QED BY <1>2, <1>3, <1>4

LEMMA RestType ==
    ASSUME CrunchTypes
    PROVE  /\ joined \in 0 .. NumWorkers /\ NumWorkers \in Nat
           /\ Rest \in Seq(Stat) /\ Len(Rest) = NumWorkers - joined
           /\ \A i \in 1 .. NumWorkers - joined : Rest[i] = local[joined + i]
<1>1. NumWorkers \in Nat /\ Workers = 1 .. NumWorkers
  BY WorkersAre DEF CrunchTypes
<1>2. joined \in Nat /\ 1 .. joined \subseteq 1 .. NumWorkers
  BY <1>1 DEF CrunchTypes
<1>3. joined <= NumWorkers
  <2>1. joined # 0 => joined \in 1 .. joined
    BY <1>2
  <2> QED BY <1>1, <1>2, <2>1
<1>4. \A i \in 1 .. NumWorkers - joined : local[joined + i] \in Stat
  <2>1. \A i \in 1 .. NumWorkers - joined : joined + i \in 1 .. NumWorkers
    BY <1>1, <1>2, <1>3
  <2> QED BY <1>1, <2>1 DEF CrunchTypes
<1> QED BY <1>1, <1>2, <1>3, <1>4 DEF Rest

LEMMA UnseenType ==
    ASSUME CrunchTypes
    PROVE  /\ FlattenSeq(chan) \in Seq(Line) /\ FlattenSeq(chan) \o batch \o todo \in Seq(Line)
           /\ Unseen \in Stat
<1>1. FlattenSeq(chan) \in Seq(Line) /\ batch \in Seq(Line) /\ todo \in Seq(Line)
  BY FlattenType DEF CrunchTypes
<1>2. FlattenSeq(chan) \o batch \o todo \in Seq(Line)
  BY <1>1, ConcatProperties
<1> QED BY <1>1, <1>2, FoldedAdds, NoStatsIsNone DEF Unseen

LEMMA NoneLeft ==
    ASSUME todo = <<>>, batch = <<>>, chan = <<>>
    PROVE  Unseen = NoStats
<1>1. FlattenSeq(chan) = <<>>
  BY DEF FlattenSeq
<1>2. FlattenSeq(chan) \o batch \o todo = <<>>
  BY <1>1
<1> QED BY <1>2, FoldedNone DEF Unseen

LEMMA InitTypes == CrunchInit => CrunchTypes
<1> SUFFICES ASSUME CrunchInit PROVE CrunchTypes
  OBVIOUS
<1>1. mode \in Modes /\ data \in Logs /\ threads \in Threads
  BY DEF CrunchInit
<1>2. data \in Seq(Byte) /\ BATCH \in Nat /\ Cap \in Nat /\ Pieces \in Nat
  BY <1>1, Parameters
<1>3. Lines(data) \in Seq(Line) /\ Sequential(data) \in Stat /\ NoStats \in Stat
  BY <1>2, LinesType, SequentialType, NoStatsIsNone
<1>4. todo \in Seq(Line)
  BY <1>3 DEF CrunchInit
<1>5. batch \in Seq(Line) /\ Len(batch) <= BATCH /\ chan \in Seq(Seq(Line)) /\ Len(chan) <= Cap
  BY <1>2 DEF CrunchInit
<1>6. local \in [Workers -> Stat] /\ ended \subseteq Workers /\ txOpen \in BOOLEAN
  BY <1>3 DEF CrunchInit
<1>7. parts \in Seq(Stat)
  <2>1. CASE mode = "rayon"
    <3>1. parts \in Partials
      BY <2>1 DEF CrunchInit
    <3> DEFINE ls == Lines(data)
    <3>2. PICK c \in [0 .. Pieces -> 0 .. Len(ls)] :
             /\ c[0] = 0 /\ c[Pieces] = Len(ls) /\ \A i \in 1 .. Pieces : c[i - 1] <= c[i]
             /\ parts = [i \in 1 .. Pieces |-> Folded(SubSeq(ls, c[i - 1] + 1, c[i]), NoStats)]
      BY <3>1 DEF Partials
    <3>3. ls \in Seq(Line) /\ Pieces \in Nat
      BY <1>2, <1>3
    <3> HIDE DEF ls
    <3> QED BY <3>2, <3>3, PiecesAddUp, ZenonT(60)
  <2>2. CASE mode # "rayon"
    BY <2>2 DEF CrunchInit
  <2> QED BY <2>1, <2>2
<1>8. acc \in Stat
  BY <1>3 DEF CrunchInit
<1>9. joined \in Nat /\ 1 .. joined \subseteq ended
  BY DEF CrunchInit
<1> QED BY <1>1, <1>4, <1>5, <1>6, <1>7, <1>8, <1>9 DEF CrunchTypes

LEMMA InitConserved == CrunchInit => Conserved
<1> SUFFICES ASSUME CrunchInit, mode \in {"pipeline", "rayon"}, NEW q \in Questions
             PROVE  Held(q) = Answer(Sequential(data), q)
  BY DEF Conserved
<1>1. CrunchTypes
  BY InitTypes
<1>2. /\ mode \in Modes /\ data \in Seq(Byte) /\ Pieces \in Nat
      /\ Lines(data) \in Seq(Line) /\ Sequential(data) \in Stat
  BY <1>1, Parameters, LinesType, SequentialType DEF CrunchTypes
<1>3. acc = NoStats /\ Answer(acc, q) = 0 /\ joined = 0 /\ Answer(Sequential(data), q) \in Nat
  BY <1>2, NoStatsIsNone, AnswersAreNumbers DEF CrunchInit
<1>4. Answer(SumUp(Rest), q) = 0
  <2>1. /\ Rest \in Seq(Stat) /\ Len(Rest) = NumWorkers /\ NumWorkers \in Nat
        /\ \A i \in 1 .. NumWorkers : Rest[i] = local[i] /\ i \in Workers
    <3>1. /\ Rest \in Seq(Stat) /\ Len(Rest) = NumWorkers - 0 /\ NumWorkers \in Nat
          /\ \A i \in 1 .. NumWorkers - 0 : Rest[i] = local[0 + i]
      BY <1>1, <1>3, RestType
    <3>2. Workers = 1 .. NumWorkers
      BY <1>1, WorkersAre DEF CrunchTypes
    <3> QED BY <3>1, <3>2
  <2>2. \A w \in Workers : local[w] = NoStats
    BY DEF CrunchInit
  <2>3. \A i \in 1 .. Len(Rest) : Rest[i] \in {NoStats}
    BY <2>1, <2>2
  <2>4. Rest \in Seq({NoStats})
    BY <2>1, <2>3
  <2> QED BY <2>4, SumOfNone
<1>5. Answer(NoStats, q) = 0 /\ Answer(SumUp(<<>>), q) = 0
  BY NoStatsIsNone, MergeFold!LeftEmpty DEF SumUp
<1>6. CASE mode = "pipeline"
  <2>1. parts = <<>> /\ chan = <<>> /\ batch = <<>> /\ todo = Lines(data)
    BY <1>6 DEF CrunchInit
  <2>2. FlattenSeq(chan) \o batch \o todo = Lines(data)
    <3>1. FlattenSeq(chan) = <<>>
      BY <2>1 DEF FlattenSeq
    <3> QED BY <1>2, <2>1, <3>1
  <2>3. Unseen = Sequential(data)
    BY <2>2 DEF Unseen, Sequential
  <2> QED BY <1>3, <1>4, <1>5, <2>1, <2>3 DEF Held
<1>7. CASE mode = "rayon"
  <2>1. parts \in Partials /\ todo = <<>> /\ batch = <<>> /\ chan = <<>>
    BY <1>7 DEF CrunchInit
  <2>2. PICK c \in [0 .. Pieces -> 0 .. Len(Lines(data))] :
           /\ c[0] = 0 /\ c[Pieces] = Len(Lines(data)) /\ \A i \in 1 .. Pieces : c[i - 1] <= c[i]
           /\ parts = [i \in 1 .. Pieces |->
                          Folded(SubSeq(Lines(data), c[i - 1] + 1, c[i]), NoStats)]
    BY <2>1 DEF Partials
  <2>3. Answer(SumUp(parts), q) = Answer(Sequential(data), q)
    BY <1>2, <2>2, PiecesAddUp DEF Sequential
  <2>4. Unseen = NoStats
    BY <2>1, NoneLeft
  <2> QED BY <1>3, <1>4, <1>5, <2>3, <2>4 DEF Held
<1> QED BY <1>6, <1>7

LEMMA CrunchInitInv == CrunchInit => CrunchInv
<1> SUFFICES ASSUME CrunchInit PROVE CrunchInv
  OBVIOUS
<1>1. CrunchTypes /\ Conserved
  BY InitTypes, InitConserved
<1>2. Drained
  BY DEF CrunchInit, Drained
<1>3. Unreduced
  BY DEF CrunchInit, Unreduced
<1>4. ByChunks
  <2>1. SUFFICES ASSUME mode = "par", NEW q \in Questions
                 PROVE  Answer(acc, q) = Answer(SumUp(SubSeq(Done, 1, joined)), q)
    BY DEF CrunchInit, ByChunks
  <2>2. acc = NoStats /\ joined = 0
    BY <2>1 DEF CrunchInit
  <2>3. SubSeq(Done, 1, joined) = <<>>
    BY <2>2, SubSeqEmpty
  <2> QED BY <2>2, <2>3, MergeFold!LeftEmpty DEF SumUp
<1>5. ByOne /\ SameReport
  BY DEF CrunchInit, ByOne, SameReport
<1> QED BY <1>1, <1>2, <1>3, <1>4, <1>5 DEF CrunchInv

(***************************************************************************)
(* Steps.                                                                  *)
(***************************************************************************)
LEMMA CommandLine ==
    ASSUME [CrunchNext]_crunchVars
    PROVE  /\ mode' = mode /\ data' = data /\ threads' = threads
           /\ Workers' = Workers /\ NumWorkers' = NumWorkers /\ Done' = Done
<1>1. mode' = mode /\ data' = data /\ threads' = threads
  BY DEF CrunchNext, crunchVars, Read, Send, ProducerEnds, Receive, WorkerEnds, AnalyzeChunk,
         JoinNext, Reduced, Prints, Reduce
<1> QED BY <1>1 DEF Workers, NumWorkers, Done

LEMMA StepTypes ==
    ASSUME CrunchTypes, [CrunchNext]_crunchVars
    PROVE  CrunchTypes'
<1>1. /\ mode' \in Modes /\ data' \in Logs /\ threads' \in Threads
      /\ Workers' = Workers
  BY CommandLine DEF CrunchTypes
<1>2. data \in Seq(Byte) /\ BATCH \in Nat \ {0} /\ Cap \in Nat \ {0} /\ threads \in Nat \ {0}
  BY Parameters DEF CrunchTypes
<1>3. /\ todo \in Seq(Line) /\ batch \in Seq(Line) /\ Len(batch) <= BATCH
      /\ chan \in Seq(Seq(Line)) /\ Len(chan) <= Cap /\ txOpen \in BOOLEAN
      /\ local \in [Workers -> Stat] /\ ended \subseteq Workers
      /\ parts \in Seq(Stat) /\ acc \in Stat
      /\ joined \in Nat /\ 1 .. joined \subseteq ended
  BY DEF CrunchTypes
<1> DEFINE Producing == /\ todo' \in Seq(Line) /\ batch' \in Seq(Line) /\ Len(batch') <= BATCH
                        /\ chan' \in Seq(Seq(Line)) /\ Len(chan') <= Cap /\ txOpen' \in BOOLEAN
           Working == local' \in [Workers -> Stat] /\ ended' \subseteq Workers
           Joining == parts' \in Seq(Stat) /\ acc' \in Stat
                      /\ joined' \in Nat /\ 1 .. joined' \subseteq ended'
<1>4. CASE Read
  <2>1. Head(todo) \in Line /\ Tail(todo) \in Seq(Line)
    BY <1>3, <1>4, HeadTailProperties DEF Read
  <2>2. Append(batch, Head(todo)) \in Seq(Line) /\ Len(Append(batch, Head(todo))) = Len(batch) + 1
    BY <1>3, <2>1, AppendProperties
  <2>3. Len(batch) + 1 <= BATCH
    BY <1>2, <1>3, <1>4 DEF Read
  <2>4. Producing
    BY <1>3, <1>4, <2>1, <2>2, <2>3 DEF Read
  <2>5. Working /\ Joining
    BY <1>3, <1>4 DEF Read
  <2> QED BY <1>1, <2>4, <2>5 DEF CrunchTypes
<1>5. CASE Send
  <2>1. Append(chan, batch) \in Seq(Seq(Line)) /\ Len(Append(chan, batch)) = Len(chan) + 1
    BY <1>3, AppendProperties
  <2>2. Len(chan) + 1 <= Cap
    BY <1>2, <1>3, <1>5 DEF Send, Room
  <2>3. Producing
    BY <1>2, <1>3, <1>5, <2>1, <2>2 DEF Send
  <2>4. Working /\ Joining
    BY <1>3, <1>5 DEF Send
  <2> QED BY <1>1, <2>3, <2>4 DEF CrunchTypes
<1>6. CASE ProducerEnds
  <2>1. Producing /\ Working /\ Joining
    BY <1>3, <1>6 DEF ProducerEnds, SenderAfter
  <2> QED BY <1>1, <2>1 DEF CrunchTypes
<1>7. ASSUME NEW w \in Workers, Receive(w) PROVE CrunchTypes'
  <2>1. Head(chan) \in Seq(Line) /\ Tail(chan) \in Seq(Seq(Line)) /\ Len(Tail(chan)) = Len(chan) - 1
    BY <1>3, <1>7, HeadTailProperties DEF Receive
  <2>2. Folded(Head(chan), local[w]) \in Stat
    BY <1>3, <2>1, FoldedAdds
  <2>3. Len(chan) - 1 <= Cap
    BY <1>2, <1>3
  <2>4. Producing
    BY <1>3, <1>7, <2>1, <2>3 DEF Receive
  <2>5. Working
    BY <1>3, <1>7, <2>2 DEF Receive
  <2>6. Joining
    BY <1>3, <1>7 DEF Receive
  <2> QED BY <1>1, <2>4, <2>5, <2>6 DEF CrunchTypes
<1>8. ASSUME NEW w \in Workers, WorkerEnds(w) PROVE CrunchTypes'
  <2>1. Producing /\ Working /\ Joining
    BY <1>3, <1>8 DEF WorkerEnds
  <2> QED BY <1>1, <2>1 DEF CrunchTypes
<1>9. ASSUME NEW w \in Workers, AnalyzeChunk(w) PROVE CrunchTypes'
  <2>1. w \in DOMAIN Chunks(data, threads)
    BY <1>9 DEF AnalyzeChunk, Workers
  <2>2. Chunks(data, threads)[w] \in Seq(Byte)
    BY <2>1, ChunksType DEF CrunchTypes
  <2>3. Sequential(Chunks(data, threads)[w]) \in Stat
    BY <2>2, SequentialType
  <2>4. Working
    BY <1>3, <1>9, <2>3 DEF AnalyzeChunk
  <2>5. Producing /\ Joining
    BY <1>3, <1>9 DEF AnalyzeChunk
  <2> QED BY <1>1, <2>4, <2>5 DEF CrunchTypes
<1>10. CASE JoinNext
  <2>1. joined + 1 \in Workers /\ local[joined + 1] \in Stat
    BY <1>3, <1>10 DEF JoinNext
  <2>2. Merge(acc, local[joined + 1]) \in Stat
    BY <1>3, <2>1, MergeAdds
  <2>3. joined + 1 \in Nat /\ 1 .. joined + 1 \subseteq ended
    <3>1. \A i \in 1 .. joined + 1 : i \in 1 .. joined \/ i = joined + 1
      BY <1>3
    <3> QED BY <1>3, <1>10, <3>1 DEF JoinNext
  <2>4. Joining
    BY <1>3, <1>10, <2>2, <2>3 DEF JoinNext
  <2>5. Producing /\ Working
    BY <1>3, <1>10 DEF JoinNext
  <2> QED BY <1>1, <2>4, <2>5 DEF CrunchTypes
<1>11. CASE Reduced
  <2>1. parts[1] \in Stat
    <3>1. 1 \in 1 .. Len(parts)
      BY <1>11 DEF Reduced
    <3> QED BY <1>3, <3>1, ElementOfSeq
  <2>2. Joining
    BY <1>3, <1>11, <2>1 DEF Reduced
  <2>3. Producing /\ Working
    BY <1>3, <1>11 DEF Reduced
  <2> QED BY <1>1, <2>2, <2>3 DEF CrunchTypes
<1>12. CASE Prints
  <2>1. Producing /\ Working /\ Joining
    BY <1>3, <1>12 DEF Prints
  <2> QED BY <1>1, <2>1 DEF CrunchTypes
<1>13. ASSUME NEW i \in DOMAIN parts, Reduce(i) PROVE CrunchTypes'
  <2>1. i \in 1 .. Len(parts) - 1 /\ parts' = Reduction(parts, i)
    BY <1>3, <1>13 DEF Reduce, Reduction
  <2>2. parts' \in Seq(Stat)
    BY <1>3, <2>1, ReductionType
  <2>3. Joining
    BY <1>3, <1>13, <2>2 DEF Reduce
  <2>4. Producing /\ Working
    BY <1>3, <1>13 DEF Reduce
  <2> QED BY <1>1, <2>3, <2>4 DEF CrunchTypes
<1>14. CASE UNCHANGED crunchVars
  <2>1. Producing /\ Working /\ Joining
    BY <1>3, <1>14 DEF crunchVars
  <2> QED BY <1>1, <2>1 DEF CrunchTypes
<1> QED
  BY <1>4, <1>5, <1>6, <1>7, <1>8, <1>9, <1>10, <1>11, <1>12, <1>13, <1>14 DEF CrunchNext

LEMMA StepDrained ==
    ASSUME CrunchTypes, Drained, Unreduced, [CrunchNext]_crunchVars
    PROVE  Drained' /\ Unreduced'
<1>1. mode' = mode
  BY CommandLine
<1>2. BATCH \in Nat \ {0} /\ NoStats \in Stat
  BY Parameters, NoStatsIsNone DEF CrunchTypes
<1>3. CASE Read
  BY <1>1, <1>3 DEF Read, Drained, Unreduced
<1>4. CASE Send
  <2>1. batch # <<>>
    <3>1. Len(batch) = BATCH => batch # <<>>
      BY <1>2
    <3> QED BY <1>4, <3>1 DEF Send
  <2> QED BY <1>1, <1>4, <2>1 DEF Send, Drained, Unreduced
<1>5. CASE ProducerEnds
  BY <1>1, <1>5 DEF ProducerEnds, SenderAfter, Drained, Unreduced
<1>6. ASSUME NEW w \in Workers, Receive(w) PROVE Drained' /\ Unreduced'
  BY <1>1, <1>6 DEF Receive, Drained, Unreduced
<1>7. ASSUME NEW w \in Workers, WorkerEnds(w) PROVE Drained' /\ Unreduced'
  BY <1>1, <1>7 DEF WorkerEnds, Drained, Unreduced
<1>8. ASSUME NEW w \in Workers, AnalyzeChunk(w) PROVE Drained' /\ Unreduced'
  BY <1>1, <1>8 DEF AnalyzeChunk, Drained, Unreduced
<1>9. CASE JoinNext
  <2>1. mode # "rayon"
    <3>1. Workers # {}
      BY <1>9 DEF JoinNext, CrunchTypes
    <3>2. mode = "rayon" => Workers = {}
      BY DEF Workers
    <3> QED BY <3>1, <3>2
  <2> QED BY <1>1, <1>9, <2>1 DEF JoinNext, Drained, Unreduced
<1>10. CASE Reduced
  BY <1>1, <1>10 DEF Reduced, Drained, Unreduced
<1>11. CASE Prints
  BY <1>1, <1>11 DEF Prints, Drained, Unreduced
<1>12. ASSUME NEW i \in DOMAIN parts, Reduce(i) PROVE Drained' /\ Unreduced'
  <2>1. parts # <<>>
    BY <1>12
  <2> QED BY <1>1, <1>12, <2>1 DEF Reduce, Drained, Unreduced
<1>13. CASE UNCHANGED crunchVars
  BY <1>13 DEF crunchVars, Drained, Unreduced
<1> QED
  BY <1>3, <1>4, <1>5, <1>6, <1>7, <1>8, <1>9, <1>10, <1>11, <1>12, <1>13 DEF CrunchNext

LEMMA CatAssociative ==
    ASSUME NEW T, NEW a \in Seq(T), NEW b \in Seq(T), NEW c \in Seq(T)
    PROVE  Cat(Cat(a, b), c) = Cat(a, Cat(b, c)) /\ Cat(a, b) \in Seq(T)
BY ConcatAssociative, ConcatProperties DEF Cat

LEMMA Regroup ==
    ASSUME NEW T, NEW a \in Seq(T), NEW b \in Seq(T), NEW c \in Seq(T), NEW d \in Seq(T)
    PROVE  /\ Cat(Cat(a, Cat(b, c)), d) = Cat(Cat(a, b), Cat(c, d))
           /\ Cat(Cat(Cat(a, b), c), d) = Cat(a, Cat(Cat(b, c), d))
<1> DEFINE S == Seq(T)
<1>1. \A x, y, z \in S : Cat(Cat(x, y), z) = Cat(x, Cat(y, z)) /\ Cat(x, y) \in S
  BY CatAssociative
<1>2. a \in S /\ b \in S /\ c \in S /\ d \in S
  OBVIOUS
<1> HIDE DEF S
<1>3. /\ Cat(Cat(a, Cat(b, c)), d) = Cat(Cat(Cat(a, b), c), d)
      /\ Cat(Cat(Cat(a, b), c), d) = Cat(Cat(a, b), Cat(c, d))
      /\ Cat(Cat(a, b), Cat(c, d)) = Cat(a, Cat(b, Cat(c, d)))
      /\ Cat(b, Cat(c, d)) = Cat(Cat(b, c), d)
  BY <1>1, <1>2
<1> QED BY <1>3

LEMMA MoveOne ==
    ASSUME NEW T, NEW f \in Seq(T), NEW b \in Seq(T), NEW t \in Seq(T), t # <<>>
    PROVE  Cat(Cat(f, Append(b, Head(t))), Tail(t)) = Cat(Cat(f, b), t)
<1> DEFINE one == <<Head(t)>>
           tl == Tail(t)
<1>1. one \in Seq(T) /\ tl \in Seq(T) /\ t = one \o tl /\ Head(t) \in T
  OBVIOUS
<1>2. Append(b, Head(t)) = b \o one
  BY <1>1, AppendIsConcat
<1>a. one \in Seq(T) /\ tl \in Seq(T)
  BY <1>1
<1> HIDE DEF one, tl
<1>3. Cat(Cat(f, Cat(b, one)), tl) = Cat(Cat(f, b), Cat(one, tl))
  BY <1>a, Regroup
<1> QED BY <1>1, <1>2, <1>3 DEF tl, Cat

LEMMA SameRest ==
    ASSUME [CrunchNext]_crunchVars, local' = local, joined' = joined
    PROVE  Rest' = Rest
BY CommandLine DEF Rest

LEMMA SameUnseen ==
    ASSUME chan' = chan, batch' = batch, todo' = todo
    PROVE  Unseen' = Unseen
BY DEF Unseen

\* A message received moves from what is unseen to a worker's statistics.
LEMMA ReceiveMoves ==
    ASSUME CrunchTypes, [CrunchNext]_crunchVars, NEW w \in Workers, Receive(w), NEW q \in Questions
    PROVE  Answer(SumUp(Rest'), q) + Answer(Unseen', q) = Answer(SumUp(Rest), q) + Answer(Unseen, q)
<1> DEFINE hd == Head(chan)
           flat == FlattenSeq(Tail(chan))
           i == w - joined
           new == Folded(hd, local[w])
<1>1. /\ chan # <<>> /\ w \notin ended /\ local' = [local EXCEPT ![w] = new]
      /\ chan' = Tail(chan) /\ batch' = batch /\ todo' = todo /\ joined' = joined
  BY DEF Receive
<1>2. /\ chan \in Seq(Seq(Line)) /\ batch \in Seq(Line) /\ todo \in Seq(Line)
      /\ local \in [Workers -> Stat] /\ 1 .. joined \subseteq ended /\ joined \in Nat
  BY DEF CrunchTypes
<1>3. hd \in Seq(Line) /\ Tail(chan) \in Seq(Seq(Line))
  BY <1>1, <1>2, HeadTailProperties
<1>4. flat \in Seq(Line) /\ FlattenSeq(chan) = hd \o flat
  BY <1>1, <1>2, <1>3, FlattenType, FlattenHead
<1>5. NumWorkers \in Nat /\ Workers = 1 .. NumWorkers
  BY WorkersAre DEF CrunchTypes
<1>6. w \in 1 .. NumWorkers /\ w > joined
  <2>1. w \notin 1 .. joined
    BY <1>1, <1>2
  <2> QED BY <1>2, <1>5, <2>1
<1> HIDE DEF hd, flat
<1>7. /\ new \in Stat /\ local[w] \in Stat
      /\ Answer(new, q) = Answer(local[w], q) + Answer(Folded(hd, NoStats), q)
  BY <1>2, <1>3, FoldedAdds
<1> HIDE DEF new
<1>8. /\ Rest \in Seq(Stat) /\ Len(Rest) = NumWorkers - joined
      /\ i \in 1 .. Len(Rest) /\ Rest[i] = local[w]
  <2>1. /\ Rest \in Seq(Stat) /\ Len(Rest) = NumWorkers - joined
        /\ \A k \in 1 .. NumWorkers - joined : Rest[k] = local[joined + k]
    BY RestType
  <2>2. i \in 1 .. NumWorkers - joined /\ joined + i = w
    BY <1>2, <1>5, <1>6
  <2> QED BY <2>1, <2>2
<1>9. Rest' = [Rest EXCEPT ![i] = new]
  <2>1. Rest' = [k \in 1 .. NumWorkers - joined |-> local'[joined + k]]
    BY <1>1, CommandLine DEF Rest
  <2>2. Rest = [k \in 1 .. NumWorkers - joined |-> local[joined + k]]
    BY DEF Rest
  <2>3. ASSUME NEW k \in 1 .. NumWorkers - joined
        PROVE  local'[joined + k] = IF k = i THEN new ELSE local[joined + k]
    <3>1. joined + k \in Workers /\ (joined + k = w <=> k = i)
      BY <1>2, <1>5, <1>6
    <3> QED BY <1>1, <1>2, <3>1
  <2>4. [Rest EXCEPT ![i] = new]
           = [k \in 1 .. NumWorkers - joined |-> IF k = i THEN new ELSE local[joined + k]]
    BY <2>2
  <2> QED BY <2>1, <2>3, <2>4
<1> HIDE DEF i
<1>10. Answer(SumUp(Rest'), q) + Answer(local[w], q) = Answer(SumUp(Rest), q) + Answer(new, q)
  BY <1>7, <1>8, <1>9, SumChange
<1>11. Rest' \in Seq(Stat)
  BY <1>7, <1>8, <1>9, SumChange
<1>12. Answer(Unseen, q) = Answer(Folded(hd, NoStats), q) + Answer(Unseen', q)
  <2> DEFINE left == flat \o batch \o todo
  <2>1. flat \o batch \in Seq(Line) /\ left \in Seq(Line)
    BY <1>2, <1>4, ConcatProperties
  <2>2. FlattenSeq(chan) \o batch \o todo = hd \o left
    <3>1. Cat(Cat(Cat(hd, flat), batch), todo) = Cat(hd, Cat(Cat(flat, batch), todo))
      <4>1. hd \in Seq(Line) /\ flat \in Seq(Line) /\ batch \in Seq(Line) /\ todo \in Seq(Line)
        BY <1>2, <1>3, <1>4
      <4> QED BY <4>1, Regroup
    <3> QED BY <1>4, <3>1 DEF Cat
  <2>3. Unseen' = Folded(left, NoStats)
    BY <1>1 DEF Unseen, flat
  <2> HIDE DEF left
  <2>4. Answer(Folded(hd \o left, NoStats), q)
           = Answer(Folded(hd, NoStats), q) + Answer(Folded(left, NoStats), q)
    BY <1>3, <2>1, FoldedSplit
  <2>5. Unseen = Folded(hd \o left, NoStats)
    BY <2>2 DEF Unseen
  <2> QED BY <2>3, <2>4, <2>5
<1>13. /\ Answer(SumUp(Rest'), q) \in Nat /\ Answer(SumUp(Rest), q) \in Nat /\ Answer(local[w], q) \in Nat
       /\ Answer(Folded(hd, NoStats), q) \in Nat /\ Answer(Unseen, q) \in Nat /\ Answer(new, q) \in Nat
       /\ Answer(Unseen', q) \in Nat
  <2>1. SumUp(Rest') \in Stat /\ SumUp(Rest) \in Stat
    BY <1>8, <1>11, SumAdds, NoStatsIsNone
  <2>2. Folded(hd, NoStats) \in Stat /\ Unseen \in Stat
    BY <1>3, FoldedAdds, NoStatsIsNone, UnseenType
  <2>3. Unseen' \in Stat
    <3>1. flat \o batch \o todo \in Seq(Line)
      BY <1>2, <1>4, ConcatProperties
    <3> QED BY <1>1, <3>1, FoldedAdds, NoStatsIsNone DEF Unseen, flat
  <2> QED BY <1>7, <2>1, <2>2, <2>3, AnswersAreNumbers
<1> QED BY <1>7, <1>10, <1>12, <1>13

\* A worker joined moves from the local statistics to main's.
LEMMA JoinMoves ==
    ASSUME CrunchTypes, [CrunchNext]_crunchVars, JoinNext, NEW q \in Questions
    PROVE  Answer(acc', q) + Answer(SumUp(Rest'), q) = Answer(acc, q) + Answer(SumUp(Rest), q)
<1> DEFINE w == joined + 1
           n == NumWorkers - joined
<1>1. acc' = Merge(acc, local[w]) /\ joined' = joined + 1 /\ local' = local /\ w \in ended
  BY DEF JoinNext
<1>2. /\ local \in [Workers -> Stat] /\ acc \in Stat /\ w \in Workers /\ local[w] \in Stat
      /\ joined \in Nat
  BY <1>1 DEF CrunchTypes
<1>3. /\ NumWorkers \in Nat /\ Workers = 1 .. NumWorkers
      /\ Rest \in Seq(Stat) /\ Len(Rest) = n
      /\ \A i \in 1 .. n : Rest[i] = local[joined + i]
  BY RestType, WorkersAre DEF CrunchTypes
<1>4. n \in Nat \ {0} /\ Rest # <<>> /\ Head(Rest) = local[w]
  <2>1. n \in Nat \ {0}
    BY <1>2, <1>3
  <2>2. 1 \in 1 .. n
    BY <2>1
  <2>3. Rest # <<>> /\ Head(Rest) = Rest[1]
    BY <1>3, <2>1
  <2> QED BY <1>3, <2>1, <2>2, <2>3
<1>5. Rest' = Tail(Rest)
  <2>1. Rest' = [i \in 1 .. n - 1 |-> local[(joined + 1) + i]]
    <3>1. Rest' = [i \in 1 .. NumWorkers - (joined + 1) |-> local[(joined + 1) + i]]
      BY <1>1, CommandLine DEF Rest
    <3>2. NumWorkers - (joined + 1) = n - 1
      BY <1>2, <1>3
    <3> QED BY <3>1, <3>2
  <2>2. /\ Tail(Rest) \in Seq(Stat) /\ Len(Tail(Rest)) = n - 1
        /\ \A i \in 1 .. n - 1 : Tail(Rest)[i] = Rest[i + 1]
    BY <1>3, <1>4, HeadTailProperties
  <2>3. ASSUME NEW i \in 1 .. n - 1 PROVE local[(joined + 1) + i] = Tail(Rest)[i]
    <3>1. i + 1 \in 1 .. n /\ joined + (i + 1) = (joined + 1) + i
      BY <1>2, <1>4
    <3> QED BY <1>3, <2>2, <3>1
  <2>4. DOMAIN Tail(Rest) = 1 .. n - 1 /\ Tail(Rest) = [i \in 1 .. n - 1 |-> Tail(Rest)[i]]
    <3> DEFINE tl == Tail(Rest)
    <3>1. tl \in Seq(Stat) /\ Len(tl) = n - 1
      BY <2>2
    <3> HIDE DEF tl
    <3>2. tl \in [1 .. Len(tl) -> Stat]
      BY <3>1, LenProperties
    <3>3. DOMAIN tl = 1 .. n - 1 /\ tl = [i \in 1 .. n - 1 |-> tl[i]]
      BY <3>1, <3>2
    <3> QED BY <3>3 DEF tl
  <2> QED BY <2>1, <2>3, <2>4
<1>6. Answer(SumUp(Rest), q) = Answer(local[w], q) + Answer(SumUp(Rest'), q)
  BY <1>3, <1>4, <1>5, SumFirst
<1>7. Answer(acc', q) = Answer(acc, q) + Answer(local[w], q)
  BY <1>1, <1>2, MergeAdds
<1>8. Answer(acc, q) \in Nat /\ Answer(local[w], q) \in Nat /\ Answer(SumUp(Rest'), q) \in Nat
  <2>1. Rest' \in Seq(Stat)
    BY <1>3, <1>4, <1>5, HeadTailProperties
  <2>2. SumUp(Rest') \in Stat
    BY <2>1, SumAdds, NoStatsIsNone
  <2> QED BY <1>2, <2>2, AnswersAreNumbers
<1> QED BY <1>6, <1>7, <1>8

HeldNumbers ==
    \A q \in Questions : /\ Answer(acc, q) \in Nat /\ Answer(SumUp(Rest), q) \in Nat
                         /\ Answer(SumUp(parts), q) \in Nat /\ Answer(Unseen, q) \in Nat

LEMMA NumbersHeld == CrunchTypes => HeldNumbers
<1> SUFFICES ASSUME CrunchTypes PROVE HeldNumbers
  OBVIOUS
<1>1. Rest \in Seq(Stat) /\ parts \in Seq(Stat) /\ acc \in Stat /\ Unseen \in Stat
  BY RestType, UnseenType DEF CrunchTypes
<1>2. SumUp(Rest) \in Stat /\ SumUp(parts) \in Stat
  BY <1>1, SumAdds, NoStatsIsNone
<1> QED BY <1>1, <1>2, AnswersAreNumbers DEF HeldNumbers

LEMMA OnlyOne ==
    ASSUME NEW ss \in Seq(Stat), Len(ss) = 1
    PROVE  ss[1] \in Stat /\ ss = <<ss[1]>>
<1>1. ss[1] \in Stat
  <2>1. 1 \in 1 .. Len(ss)
    OBVIOUS
  <2> QED BY <2>1, ElementOfSeq
<1> DEFINE one == <<ss[1]>>
<1>2. one \in Seq(Stat) /\ Len(one) = 1 /\ one[1] = ss[1]
  BY <1>1
<1> HIDE DEF one
<1>3. \A i \in 1 .. Len(ss) : ss[i] = one[i]
  <2>1. \A i \in 1 .. Len(ss) : i = 1
    OBVIOUS
  <2> QED BY <1>2, <2>1
<1>4. ss = one
  BY <1>2, <1>3, SeqEqual
<1> QED BY <1>1, <1>4 DEF one

LEMMA Shift ==
    ASSUME NEW a \in Nat, NEW r \in Nat, NEW p \in Nat, NEW u \in Nat,
           NEW s \in Nat, NEW v \in Nat, s + v = r + u
    PROVE  ((a + s) + p) + v = ((a + r) + p) + u
OBVIOUS

LEMMA StepHeld ==
    ASSUME CrunchTypes, Drained, Unreduced, [CrunchNext]_crunchVars,
           mode \in {"pipeline", "rayon"}, NEW q \in Questions
    PROVE  Held(q)' = Held(q)
<1> DEFINE a == Answer(acc, q)
           r == Answer(SumUp(Rest), q)
           p == Answer(SumUp(parts), q)
           u == Answer(Unseen, q)
<1>1. Held(q)' = ((a' + r') + p') + u' /\ Held(q) = ((a + r) + p) + u
  BY DEF Held
<1>2. a \in Nat /\ r \in Nat /\ p \in Nat /\ u \in Nat
  BY NumbersHeld DEF HeldNumbers
<1>3. a' \in Nat /\ r' \in Nat /\ p' \in Nat /\ u' \in Nat
  <2>1. CrunchTypes'
    BY StepTypes
  <2>2. HeldNumbers'
    BY <2>1, NumbersHeld, PTL
  <2> QED BY <2>2 DEF HeldNumbers
<1>4. chan \in Seq(Seq(Line)) /\ batch \in Seq(Line) /\ todo \in Seq(Line) /\ parts \in Seq(Stat)
  BY DEF CrunchTypes
<1>5. FlattenSeq(chan) \in Seq(Line)
  BY UnseenType
<1>6. CASE Read
  <2>1. acc' = acc /\ local' = local /\ joined' = joined /\ parts' = parts
    BY <1>6 DEF Read
  <2>2. Rest' = Rest
    BY <2>1, SameRest
  <2>3. FlattenSeq(chan) \o batch' \o todo' = FlattenSeq(chan) \o batch \o todo /\ chan' = chan
    <3> DEFINE f == FlattenSeq(chan)
    <3>1. /\ batch' = Append(batch, Head(todo)) /\ todo' = Tail(todo) /\ chan' = chan
          /\ todo # <<>>
      BY <1>6 DEF Read
    <3>2. f \in Seq(Line)
      BY <1>5
    <3> HIDE DEF f
    <3>3. Cat(Cat(f, Append(batch, Head(todo))), Tail(todo)) = Cat(Cat(f, batch), todo)
      BY <1>4, <3>1, <3>2, MoveOne
    <3> QED BY <3>1, <3>3 DEF f, Cat
  <2>4. Unseen' = Unseen
    BY <2>3 DEF Unseen
  <2> QED BY <2>1, <2>2, <2>4 DEF Held
<1>7. CASE Send
  <2>1. acc' = acc /\ local' = local /\ joined' = joined /\ parts' = parts
    BY <1>7 DEF Send
  <2>2. Rest' = Rest
    BY <2>1, SameRest
  <2>3. FlattenSeq(chan') = FlattenSeq(chan) \o batch /\ batch' = <<>> /\ todo' = todo
    BY <1>4, <1>7, FlattenAppend DEF Send
  <2>4. FlattenSeq(chan') \o batch' = FlattenSeq(chan) \o batch
    <3>1. FlattenSeq(chan) \o batch \in Seq(Line)
      BY <1>4, <1>5, ConcatProperties
    <3> QED BY <2>3, <3>1, ConcatEmptySeq
  <2>5. Unseen' = Unseen
    BY <2>3, <2>4 DEF Unseen
  <2> QED BY <2>1, <2>2, <2>5 DEF Held
<1>8. CASE ProducerEnds
  <2>1. /\ acc' = acc /\ local' = local /\ joined' = joined /\ parts' = parts
        /\ chan' = chan /\ batch' = batch /\ todo' = todo
    BY <1>8 DEF ProducerEnds
  <2> QED BY <2>1, SameRest, SameUnseen DEF Held
<1>9. ASSUME NEW w \in Workers, Receive(w) PROVE Held(q)' = Held(q)
  <2>1. acc' = acc /\ parts' = parts
    BY <1>9 DEF Receive
  <2>2. r' + u' = r + u
    BY <1>9, ReceiveMoves
  <2>3. a' = a /\ p' = p
    BY <2>1
  <2> HIDE DEF a, r, p, u
  <2>4. \A s, v \in Nat : s + v = r + u => ((a + s) + p) + v = ((a + r) + p) + u
    BY <1>2, Shift
  <2>5. r' \in Nat /\ u' \in Nat
    BY <1>3
  <2>6. ((a + r') + p) + u' = ((a + r) + p) + u
    BY <2>2, <2>4, <2>5
  <2> QED BY <1>1, <2>3, <2>6
<1>10. ASSUME NEW w \in Workers, WorkerEnds(w) PROVE Held(q)' = Held(q)
  <2>1. /\ acc' = acc /\ local' = local /\ joined' = joined /\ parts' = parts
        /\ chan' = chan /\ batch' = batch /\ todo' = todo
    BY <1>10 DEF WorkerEnds
  <2> QED BY <2>1, SameRest, SameUnseen DEF Held
<1>11. ASSUME NEW w \in Workers, AnalyzeChunk(w) PROVE Held(q)' = Held(q)
  BY <1>11 DEF AnalyzeChunk
<1>12. CASE JoinNext
  <2>1. parts' = parts /\ chan' = chan /\ batch' = batch /\ todo' = todo
    BY <1>12 DEF JoinNext
  <2>2. a' + r' = a + r
    BY <1>12, JoinMoves
  <2>3. u' = u /\ p' = p
    BY <2>1, SameUnseen
  <2> HIDE DEF a, r, p, u
  <2> QED BY <1>1, <1>2, <1>3, <2>2, <2>3
<1>13. CASE Reduced
  <2>1. /\ acc' = parts[1] /\ parts' = <<>> /\ Len(parts) = 1
        /\ local' = local /\ joined' = joined
        /\ chan' = chan /\ batch' = batch /\ todo' = todo
    BY <1>13 DEF Reduced
  <2>2. acc = NoStats
    BY <2>1 DEF Unreduced
  <2>3. Rest' = Rest /\ Unseen' = Unseen
    BY <2>1, SameRest, SameUnseen
  <2>4. p = Answer(parts[1], q)
    <3>1. parts[1] \in Stat /\ parts = <<parts[1]>>
      BY <1>4, <2>1, OnlyOne
    <3>2. Answer(SumUp(<<parts[1]>>), q) = Answer(parts[1], q)
      BY <3>1, SumOne
    <3> QED BY <3>1, <3>2
  <2>5. p' = 0
    <3>1. SumUp(parts') = NoStats
      BY <2>1, MergeFold!LeftEmpty DEF SumUp
    <3> QED BY <3>1, NoStatsIsNone
  <2>6. a = 0 /\ a' = p /\ r' = r /\ u' = u
    BY <2>1, <2>2, <2>3, <2>4, NoStatsIsNone
  <2> HIDE DEF a, r, p, u
  <2> QED BY <1>1, <1>2, <1>3, <2>5, <2>6
<1>14. CASE Prints
  <2>1. /\ acc' = acc /\ local' = local /\ joined' = joined /\ parts' = parts
        /\ chan' = chan /\ batch' = batch /\ todo' = todo
    BY <1>14 DEF Prints
  <2> QED BY <2>1, SameRest, SameUnseen DEF Held
<1>15. ASSUME NEW i \in DOMAIN parts, Reduce(i) PROVE Held(q)' = Held(q)
  <2>1. /\ acc' = acc /\ local' = local /\ joined' = joined
        /\ chan' = chan /\ batch' = batch /\ todo' = todo
    BY <1>15 DEF Reduce
  <2>2. i \in 1 .. Len(parts) - 1 /\ parts' = Reduction(parts, i)
    BY <1>4, <1>15 DEF Reduce, Reduction
  <2>3. Answer(SumUp(parts'), q) = Answer(SumUp(parts), q)
    BY <1>4, <2>2, SumReduction
  <2> QED BY <2>1, <2>3, SameRest, SameUnseen DEF Held
<1>16. CASE UNCHANGED crunchVars
  <2>1. /\ acc' = acc /\ local' = local /\ joined' = joined /\ parts' = parts
        /\ chan' = chan /\ batch' = batch /\ todo' = todo
    BY <1>16 DEF crunchVars
  <2> QED BY <2>1, SameRest, SameUnseen DEF Held
<1> QED
  BY <1>6, <1>7, <1>8, <1>9, <1>10, <1>11, <1>12, <1>13, <1>14, <1>15, <1>16 DEF CrunchNext

LEMMA StepConserved ==
    ASSUME CrunchTypes, Drained, Unreduced, Conserved, [CrunchNext]_crunchVars
    PROVE  Conserved'
<1>1. mode' = mode /\ data' = data
  BY CommandLine
<1>2. SUFFICES ASSUME mode \in {"pipeline", "rayon"}, NEW q \in Questions
               PROVE  Held(q)' = Answer(Sequential(data), q)
  BY <1>1 DEF Conserved
<1>3. Held(q) = Answer(Sequential(data), q)
  BY <1>2 DEF Conserved
<1> QED BY <1>2, <1>3, StepHeld

LEMMA StepByChunks ==
    ASSUME CrunchTypes, Unreduced, ByChunks, [CrunchNext]_crunchVars, mode = "par"
    PROVE  ByChunks'
<1>1. mode' = mode /\ Done' = Done /\ Workers = DOMAIN Chunks(data, threads)
  BY CommandLine DEF Workers
<1>2. /\ Done \in Seq(Stat) /\ Len(Done) = Len(Chunks(data, threads))
      /\ \A w \in 1 .. Len(Done) : Done[w] = Sequential(Chunks(data, threads)[w])
      /\ Chunks(data, threads) \in Seq(Seq(Byte))
  BY ChunksType DEF CrunchTypes
<1>3. /\ local \in [Workers -> Stat] /\ ended \subseteq Workers /\ acc \in Stat /\ joined \in Nat
      /\ Workers = 1 .. Len(Done)
  BY <1>1, <1>2 DEF CrunchTypes
<1>4. /\ \A w \in ended : local[w] = Done[w]
      /\ \A q \in Questions : Answer(acc, q) = Answer(SumUp(SubSeq(Done, 1, joined)), q)
  BY DEF ByChunks
<1>5. ASSUME NEW w \in Workers, AnalyzeChunk(w) PROVE ByChunks'
  <2>1. \A v \in ended' : local'[v] = Done[v]
    <3>1. /\ local' = [local EXCEPT ![w] = Sequential(Chunks(data, threads)[w])]
          /\ ended' = ended \cup {w}
      BY <1>5 DEF AnalyzeChunk
    <3>2. Sequential(Chunks(data, threads)[w]) = Done[w]
      BY <1>2, <1>3
    <3> QED BY <1>3, <1>4, <3>1, <3>2
  <2>2. acc' = acc /\ joined' = joined
    BY <1>5 DEF AnalyzeChunk
  <2> QED BY <1>1, <1>4, <2>1, <2>2 DEF ByChunks
<1>6. CASE JoinNext
  <2> DEFINE w == joined + 1
             before == SubSeq(Done, 1, joined)
  <2>1. w \in ended /\ acc' = Merge(acc, local[w]) /\ joined' = w /\ local' = local /\ ended' = ended
    BY <1>6 DEF JoinNext
  <2>2. w \in 1 .. Len(Done) /\ local[w] = Done[w] /\ local[w] \in Stat
    BY <1>3, <1>4, <2>1
  <2>3. before \in Seq(Stat) /\ SubSeq(Done, 1, w) = Append(before, Done[w])
    <3>1. joined \in 0 .. Len(Done) /\ Len(Done) \in Nat
      BY <1>2, <1>3, <2>2
    <3>2. before \in Seq(Stat)
      BY <1>2, <3>1
    <3>3. w - 1 = joined /\ 1 \in 1 .. Len(Done) /\ w \in 1 .. Len(Done)
      BY <1>3, <2>2
    <3>4. SubSeq(Done, 1, w) = SubSeq(Done, 1, w - 1) \o <<Done[w]>>
      BY <1>2, <3>3, SubSeqRecursiveSecond
    <3>5. Append(before, Done[w]) = before \o <<Done[w]>>
      BY <2>2, <3>2, AppendIsConcat
    <3> QED BY <3>2, <3>3, <3>4, <3>5
  <2> HIDE DEF before
  <2>4. SumUp(SubSeq(Done, 1, w)) = Merge(SumUp(before), Done[w])
    <3>1. MergeFold!Left(NoStats, Append(before, Done[w]))
             = Merge(MergeFold!Left(NoStats, before), Done[w])
      BY <2>2, <2>3, MergeFold!LeftAppend
    <3> QED BY <2>3, <3>1 DEF SumUp
  <2>5. SumUp(before) \in Stat
    BY <2>3, SumAdds, NoStatsIsNone
  <2>6. ASSUME NEW q \in Questions PROVE Answer(acc', q) = Answer(SumUp(SubSeq(Done, 1, w)), q)
    <3>1. Answer(acc', q) = Answer(acc, q) + Answer(local[w], q)
      BY <1>3, <2>1, <2>2, MergeAdds
    <3>2. Answer(SumUp(SubSeq(Done, 1, w)), q) = Answer(SumUp(before), q) + Answer(Done[w], q)
      BY <2>2, <2>4, <2>5, MergeAdds
    <3>3. Answer(acc, q) = Answer(SumUp(before), q)
      BY <1>4 DEF before
    <3> QED BY <2>2, <3>1, <3>2, <3>3
  <2> HIDE DEF w
  <2> QED BY <1>1, <1>4, <2>1, <2>6 DEF ByChunks
<1>7. ASSUME acc' = acc, joined' = joined, local' = local, ended' = ended PROVE ByChunks'
  BY <1>1, <1>4, <1>7 DEF ByChunks
<1>8. CASE Read
  BY <1>7, <1>8 DEF Read
<1>9. CASE Send
  BY <1>7, <1>9 DEF Send
<1>10. CASE ProducerEnds
  BY <1>7, <1>10 DEF ProducerEnds
<1>11. CASE Prints
  BY <1>7, <1>11 DEF Prints
<1>12. ASSUME NEW i \in DOMAIN parts, Reduce(i) PROVE ByChunks'
  BY <1>7, <1>12 DEF Reduce
<1>13. CASE UNCHANGED crunchVars
  BY <1>7, <1>13 DEF crunchVars
<1>14. ASSUME NEW w \in Workers PROVE ~Receive(w) /\ ~WorkerEnds(w)
  BY DEF Receive, WorkerEnds
<1>15. ~Reduced
  BY DEF Reduced, Unreduced
<1> QED BY <1>5, <1>6, <1>8, <1>9, <1>10, <1>11, <1>12, <1>13, <1>14, <1>15 DEF CrunchNext

LEMMA StepByOne ==
    ASSUME CrunchTypes, Unreduced, ByOne, [CrunchNext]_crunchVars
    PROVE  ByOne'
<1>1. mode' = mode /\ data' = data
  BY CommandLine
<1>2. SUFFICES ASSUME mode = "seq" PROVE acc' = acc
  BY <1>1 DEF ByOne
<1>3. Workers = {}
  BY <1>2 DEF Workers
<1>4. ~JoinNext
  BY <1>3 DEF JoinNext, CrunchTypes
<1>5. ~Reduced
  BY <1>2 DEF Reduced, Unreduced
<1> QED BY <1>3, <1>4, <1>5 DEF CrunchNext, crunchVars, Read, Send, ProducerEnds, Prints, Reduce

(***************************************************************************)
(* When main prints, it has everything.                                    *)
(***************************************************************************)
LEMMA AllIsIn ==
    ASSUME CrunchTypes, Drained, Conserved, ByChunks, ByOne,
           joined = NumWorkers, parts = <<>>, ~txOpen
    PROVE  Alike(acc, Sequential(data))
<1> SUFFICES ASSUME NEW q \in Questions PROVE Answer(acc, q) = Answer(Sequential(data), q)
  BY DEF Alike
<1>1. mode \in Modes /\ data \in Logs /\ threads \in Threads /\ acc \in Stat
  BY DEF CrunchTypes
<1>2. CASE mode = "seq"
  BY <1>2 DEF ByOne
<1>3. CASE mode = "par"
  <2>1. NumWorkers = Len(Chunks(data, threads))
    BY <1>3 DEF NumWorkers
  <2>2. /\ Done \in Seq(Stat) /\ Len(Done) = joined
        /\ Answer(Sequential(data), q) = Answer(SumUp(Done), q)
    BY <1>1, <2>1, ChunksType
  <2>3. SubSeq(Done, 1, joined) = Done
    BY <2>2, SubSeqFull
  <2>4. Answer(acc, q) = Answer(SumUp(SubSeq(Done, 1, joined)), q)
    BY <1>3 DEF ByChunks
  <2> QED BY <2>2, <2>3, <2>4
<1>4. CASE mode \in {"pipeline", "rayon"}
  <2>1. todo = <<>> /\ batch = <<>>
    BY DEF Drained
  <2>2. chan = <<>>
    <3>1. CASE mode = "rayon"
      BY <3>1 DEF Drained
    <3>2. CASE mode = "pipeline"
      <4>1. joined = threads /\ threads \in Nat \ {0}
        BY <1>1, <3>2, Parameters DEF NumWorkers
      <4>2. 1 \in 1 .. joined
        BY <4>1
      <4>3. ended # {}
        BY <4>2 DEF CrunchTypes
      <4> QED BY <3>2, <4>3 DEF Drained
    <3> QED BY <1>4, <3>1, <3>2
  <2>3. Unseen = NoStats
    BY <2>1, <2>2, NoneLeft
  <2>4. Rest = <<>>
    <3>1. Rest \in Seq(Stat) /\ Len(Rest) = NumWorkers - joined /\ NumWorkers \in Nat
      BY RestType
    <3>2. Len(Rest) = 0
      BY <3>1
    <3> QED BY <3>1, <3>2, EmptySeq
  <2>5. SumUp(<<>>) = NoStats
    BY MergeFold!LeftEmpty DEF SumUp
  <2>6. Answer(NoStats, q) = 0 /\ Answer(acc, q) \in Nat
    BY <1>1, NoStatsIsNone, AnswersAreNumbers
  <2>7. Held(q) = ((Answer(acc, q) + 0) + 0) + 0
    BY <2>3, <2>4, <2>5, <2>6 DEF Held
  <2>8. Held(q) = Answer(Sequential(data), q)
    BY <1>4 DEF Conserved
  <2> QED BY <2>6, <2>7, <2>8
<1> QED BY <1>1, <1>2, <1>3, <1>4 DEF Modes

LEMMA StepSameReport ==
    ASSUME CrunchInv, [CrunchNext]_crunchVars
    PROVE  SameReport'
<1>1. data' = data
  BY CommandLine
<1>2. CASE Prints
  <2>1. report' = Report(acc) /\ joined = Cardinality(Workers) /\ parts = <<>> /\ ~txOpen
    BY <1>2 DEF Prints
  <2>2. joined = NumWorkers
    BY <2>1, WorkersAre DEF CrunchInv, CrunchTypes
  <2>3. Alike(acc, Sequential(data))
    BY <2>1, <2>2, AllIsIn DEF CrunchInv
  <2>4. acc \in Stat /\ Sequential(data) \in Stat
    BY Parameters, SequentialType DEF CrunchInv, CrunchTypes
  <2>5. Report(acc) = Report(Sequential(data))
    BY <2>3, <2>4, AlikeReports
  <2> QED BY <1>1, <2>1, <2>5 DEF SameReport
<1>3. CASE report' = report
  BY <1>1, <1>3 DEF CrunchInv, SameReport
<1>4. Prints \/ report' = report
  BY DEF CrunchNext, crunchVars, Read, Send, ProducerEnds, Receive, WorkerEnds, AnalyzeChunk,
         JoinNext, Reduced, Reduce
<1> QED BY <1>2, <1>3, <1>4

LEMMA CrunchStepInv == CrunchInv /\ [CrunchNext]_crunchVars => CrunchInv'
<1> SUFFICES ASSUME CrunchInv, [CrunchNext]_crunchVars PROVE CrunchInv'
  OBVIOUS
<1>1. CrunchTypes /\ Drained /\ Unreduced /\ Conserved /\ ByChunks /\ ByOne
  BY DEF CrunchInv
<1>2. CrunchTypes' /\ Drained' /\ Unreduced' /\ Conserved'
  BY <1>1, StepTypes, StepDrained, StepConserved
<1>3. ByChunks'
  <2>1. CASE mode = "par"
    BY <1>1, <2>1, StepByChunks
  <2>2. CASE mode # "par"
    BY <2>2, CommandLine DEF ByChunks
  <2> QED BY <2>1, <2>2
<1>4. ByOne' /\ SameReport'
  BY <1>1, StepByOne, StepSameReport
<1> QED BY <1>2, <1>3, <1>4 DEF CrunchInv

\* The inductive invariant holds throughout: whatever the threads do and in whatever order,
\* the lines on their way, the channel and the partial statistics account for the whole log.
THEOREM CrunchInvariance == CrunchSpec => []CrunchInv
BY CrunchInitInv, CrunchStepInv, PTL DEF CrunchSpec

(***************************************************************************)
(* The properties.                                                         *)
(***************************************************************************)

\* The channel keeps its bound, a batch its size, and main joins only threads that have
\* ended (pipeline.rs, parallel.rs).
THEOREM CrunchTypeCorrect == CrunchSpec => []CrunchTypeOK
<1>1. CrunchInv => CrunchTypeOK
  BY DEF CrunchInv, CrunchTypes, CrunchTypeOK
<1> QED BY <1>1, CrunchInvariance, PTL

\* At every moment of a pipeline or of rayon's reduction, what has been counted and what is
\* still on its way add up to the log: no line is lost or counted twice.
THEOREM EveryLineCounted == CrunchSpec => []LinesConserved
<1>1. CrunchInv => LinesConserved
  <2> DEFINE withLocal == FoldLeft(Merge, acc, Rest)
             all == Merge(FoldLeft(Merge, withLocal, parts), Unseen)
             oracle == Sequential(data)
  <2> SUFFICES ASSUME CrunchInv, mode \in {"pipeline", "rayon"}
               PROVE  /\ [i \in 1 .. Cardinality(Pending) |-> local[joined + i]] = Rest
                      /\ all.counts = oracle.counts /\ all.malformed = oracle.malformed
                      /\ Len(all.times) = Len(oracle.times)
    BY DEF LinesConserved
  <2>1. CrunchTypes /\ Conserved
    BY DEF CrunchInv
  <2>2. /\ joined \in 0 .. NumWorkers /\ NumWorkers \in Nat /\ Rest \in Seq(Stat)
        /\ Workers = 1 .. NumWorkers
    BY <2>1, RestType, WorkersAre DEF CrunchTypes
  <2>3. Cardinality(Pending) = NumWorkers - joined
    <3>1. Pending = joined + 1 .. NumWorkers
      <4>1. CASE mode = "pipeline"
        BY <2>2, <4>1 DEF Pending
      <4>2. CASE mode = "rayon"
        <5>1. NumWorkers = 0
          BY <4>2 DEF NumWorkers
        <5> QED BY <2>2, <5>1 DEF Pending
      <4> QED BY <4>1, <4>2
    <3>2. joined + 1 \in Int /\ NumWorkers \in Int
      BY <2>2
    <3>3. CASE joined = NumWorkers
      <4>1. joined + 1 .. NumWorkers = {}
        BY <2>2, <3>3
      <4> QED BY <2>2, <3>1, <3>3, <4>1, FS_EmptySet
    <3>4. CASE joined < NumWorkers
      <4>1. Cardinality(joined + 1 .. NumWorkers) = NumWorkers - (joined + 1) + 1
        BY <2>2, <3>2, <3>4, FS_Interval
      <4> QED BY <2>2, <3>1, <4>1
    <3> QED BY <2>2, <3>3, <3>4
  <2>4. [i \in 1 .. Cardinality(Pending) |-> local[joined + i]] = Rest
    BY <2>3 DEF Rest
  <2>5. acc \in Stat /\ parts \in Seq(Stat) /\ Unseen \in Stat /\ oracle \in Stat
    BY <2>1, UnseenType, Parameters, SequentialType DEF CrunchTypes
  <2>6. withLocal \in Stat /\ FoldLeft(Merge, withLocal, parts) \in Stat
    BY <2>2, <2>5, SumAdds
  <2> HIDE DEF withLocal, oracle
  <2>7. all \in Stat
    BY <2>5, <2>6, MergeAdds
  <2>8. ASSUME NEW q \in Questions PROVE Answer(all, q) = Answer(oracle, q)
    <3>1. Answer(withLocal, q) = Answer(acc, q) + Answer(SumUp(Rest), q)
      BY <2>2, <2>5, SumAdds DEF withLocal
    <3>2. Answer(FoldLeft(Merge, withLocal, parts), q) = Answer(withLocal, q) + Answer(SumUp(parts), q)
      BY <2>5, <2>6, SumAdds
    <3>3. Answer(all, q) = Answer(FoldLeft(Merge, withLocal, parts), q) + Answer(Unseen, q)
      BY <2>5, <2>6, MergeAdds
    <3>4. Held(q) = Answer(oracle, q)
      BY <2>1 DEF Conserved, oracle
    <3> QED BY <3>1, <3>2, <3>3, <3>4 DEF Held
  <2> HIDE DEF all
  <2>9. Alike(all, oracle)
    BY <2>8 DEF Alike
  <2>10. /\ all.counts = oracle.counts /\ all.malformed = oracle.malformed
         /\ Len(all.times) = Len(oracle.times)
    BY <2>5, <2>7, <2>9, AlikeReports
  <2> QED BY <2>4, <2>10
<1> QED BY <1>1, CrunchInvariance, PTL

\* Every mode prints the report of sequential.rs, its "correctness oracle".
THEOREM EveryModeAgrees == CrunchSpec => []SameReport
<1>1. CrunchInv => SameReport
  BY DEF CrunchInv
<1> QED BY <1>1, CrunchInvariance, PTL

\* split_into_chunks (parallel.rs) gives whole lines, in order and complete.
THEOREM ChunksAreWhole == CrunchSpec => []ChunksAreLines
<1>1. CrunchInv => ChunksAreLines
  <2> DEFINE cs == Chunks(data, threads)
  <2> SUFFICES ASSUME CrunchInv, mode = "par"
               PROVE  /\ FlattenSeq(cs) = data
                      /\ \A i \in DOMAIN cs : cs[i] # <<>> /\ (i < Len(cs) => Last(cs[i]) = Newline)
    BY DEF ChunksAreLines
  <2>1. data \in Seq(Byte) /\ threads \in Nat \ {0}
    BY Parameters DEF CrunchInv, CrunchTypes
  <2>2. CutOff(data, Len(data), cs) /\ SubSeq(data, 1, Len(data)) = data
    BY <2>1, ChunksAreCutOff, SubSeqFull
  <2> HIDE DEF cs
  <2>3. DOMAIN cs = 1 .. Len(cs) /\ Len(cs) \in Nat /\ FlattenSeq(cs) = data
    BY <2>2 DEF CutOff
  <2>4. ASSUME NEW i \in 1 .. Len(cs)
        PROVE  cs[i] # <<>> /\ (i < Len(cs) => Last(cs[i]) = Newline)
    <3>1. cs[i] # <<>> /\ (Last(cs[i]) = Newline \/ i = Len(cs))
      BY <2>2 DEF CutOff
    <3>2. \A n \in Nat : i < n => i # n
      OBVIOUS
    <3>3. i < Len(cs) => i # Len(cs)
      BY <2>3, <3>2
    <3> QED BY <3>1, <3>3
  <2> QED BY <2>3, <2>4
<1> QED BY <1>1, CrunchInvariance, PTL

==============================================================================
