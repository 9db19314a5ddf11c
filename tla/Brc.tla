---------------------------------- MODULE Brc ----------------------------------
(***************************************************************************)
(* The measurement aggregator brc (08-performance/src): a mapped file is   *)
(* cut into chunks at line ends (io.rs), a scoped thread aggregates each   *)
(* one into its own map, and the maps are merged (runner.rs, aggregate.rs).*)
(*                                                                         *)
(* A file is a sequence of bytes.  A station that is in no row of any file *)
(* is left out; the map's hash function and the printing are, too.         *)
(***************************************************************************)
EXTENDS Integers, SequencesExt

CONSTANTS
    Files,          \* files to aggregate
    BrcThreads,     \* values of --threads
    OverflowChecks, \* whether the build has them: cargo's debug build has, the release build has not
    Unset,          \* no result yet
    Panicked

Octets == 0 .. 255

\* '\n', ';', '-', '.' and '0'
Eol == 10
Semicolon == 59
Dash == 45
Dot == 46
Naught == 48

I32Max == 2147483647
I32Min == -I32Max - 1

(***************************************************************************)
(* Rows: a name, the first semicolon, a temperature.  Of the temperature   *)
(* the sign and the shape are looked at, d.d or dd.d, and not the digits:  *)
(* any byte there counts as its distance from '0'.  A byte below '0' wraps *)
(* around modulo 256, or panics in a build with overflow checks.           *)
(***************************************************************************)

\* The lines memchr_iter delimits; bytes behind the last line end are in none.
Delimit(r, b) ==
    IF b = Eol THEN [lines |-> Append(r.lines, r.line), line |-> <<>>]
    ELSE [r EXCEPT !.line = Append(@, b)]

Undelimited == [lines |-> <<>>, line |-> <<>>]

Terminated(d) == FoldLeft(Delimit, Undelimited, d).lines

Semicolons(line) == {i \in DOMAIN line : line[i] = Semicolon}

NameOf(line) == SubSeq(line, 1, Min(Semicolons(line)) - 1)

Temperature(line) == SubSeq(line, Min(Semicolons(line)) + 1, Len(line))

Negative(temp) == temp # <<>> /\ temp[1] = Dash

Magnitude(temp) == IF Negative(temp) THEN Tail(temp) ELSE temp

Shaped(ds) == Len(ds) \in {3, 4} /\ ds[Len(ds) - 1] = Dot

Below(ds) == \E i \in DOMAIN ds \ {Len(ds) - 1} : ds[i] < Naught

Digit(b) == (b - Naught) % 256

InTenths(ds) ==
    100 * (IF Len(ds) = 4 THEN Digit(ds[1]) ELSE 0) + 10 * Digit(ds[Len(ds) - 2]) + Digit(ds[Len(ds)])

TempOf(line) ==
    LET temp == Temperature(line)
    IN IF Negative(temp) THEN -InTenths(Magnitude(temp)) ELSE InTenths(Magnitude(temp))

\* split_line and parse_temp panic on any other line.
Parses(line) ==
    /\ Semicolons(line) # {}
    /\ Shaped(Magnitude(Temperature(line)))
    /\ OverflowChecks => ~Below(Magnitude(Temperature(line)))

\* The names in the files.
Stations == {NameOf(line) : line \in {l \in UNION {ToSet(Terminated(d)) : d \in Files} : Parses(l)}}

(***************************************************************************)
(* Aggregation.  A station that is not in a map has the default there.     *)
(***************************************************************************)
DefaultStats == [min |-> I32Max, max |-> I32Min, sum |-> 0, count |-> 0]

Least(a, b) == IF a < b THEN a ELSE b
Greatest(a, b) == IF a > b THEN a ELSE b

Measured(s, temp) ==
    [min |-> Least(s.min, temp), max |-> Greatest(s.max, temp),
     sum |-> s.sum + temp, count |-> s.count + 1]

\* Taking the later chunk's extremes.
MergedLate(s, other) == [other EXCEPT !.sum = @ + s.sum, !.count = @ + s.count]

Merged(s, other) ==
    [min |-> Least(s.min, other.min), max |-> Greatest(s.max, other.max),
     sum |-> s.sum + other.sum, count |-> s.count + other.count]

Zero == [s \in Stations |-> DefaultStats]

Tallied(m, line) == [m EXCEPT ![NameOf(line)] = Measured(@, TempOf(line))]

Aggregate(d) ==
    LET lines == Terminated(d)
    IN IF \A k \in DOMAIN lines : Parses(lines[k]) THEN FoldLeft(Tallied, Zero, lines)
       ELSE Panicked

ASSUME BrcAssumption ==
    /\ \A d \in Files : d \in Seq(Octets)
    /\ BrcThreads \subseteq Nat
    /\ OverflowChecks \in BOOLEAN
    /\ Unset # Panicked
    /\ {Unset, Panicked} \cap [Stations -> [min : Int, max : Int, sum : Int, count : Int]] = {}

(***************************************************************************)
(* split_chunks: each cut is about a share of the file behind the one      *)
(* before it, and goes on to the next line end.                            *)
(***************************************************************************)

\* Cutting in front of the line end.
InFrontOf(eol) == eol - 1

Behind(eol) == eol

\* The end of a chunk of about `share` bytes behind the first `start`.
ChunkEnd(d, start, share) ==
    LET rough == Least(start + share, Len(d))
        eols  == {i \in DOMAIN d : d[i] = Eol /\ i > rough}
    IN IF eols = {} THEN Len(d) ELSE Behind(Min(eols))

\* Chunks past the end of the file are not pushed.
Pushed(cs, c) == IF c = <<>> THEN cs ELSE Append(cs, c)

SplitChunks(d, n) ==
    LET share == Len(d) \div n
        cut[k \in 0 .. n] == IF k = 0 THEN 0 ELSE IF k = n THEN Len(d)
                             ELSE ChunkEnd(d, cut[k - 1], share)
    IN FoldLeft(Pushed, <<>>, [k \in 1 .. n |-> SubSeq(d, cut[k - 1] + 1, cut[k])])

VARIABLES
    mapped, workers,    \* the file and --threads
    partial,            \* thread |-> its map, once it has ended
    joins,              \* threads joined
    answer

brcVars == <<mapped, workers, partial, joins, answer>>

Spawned == IF workers <= 1 THEN {} ELSE DOMAIN SplitChunks(mapped, workers)

BrcInit ==
    /\ mapped \in Files /\ workers \in BrcThreads
    /\ partial = [t \in Spawned |-> Unset]
    /\ joins = 0 /\ answer = Unset

RunSequential ==
    /\ workers <= 1 /\ answer = Unset
    /\ answer' = Aggregate(mapped)
    /\ UNCHANGED <<mapped, workers, partial, joins>>

ThreadEnds(t) ==
    /\ partial[t] = Unset
    /\ partial' = [partial EXCEPT ![t] = Aggregate(SplitChunks(mapped, workers)[t])]
    /\ UNCHANGED <<mapped, workers, joins, answer>>

\* Joining a thread that panicked panics.
JoinThread ==
    /\ joins + 1 \in Spawned /\ partial[joins + 1] # Unset /\ answer = Unset
    /\ \/ partial[joins + 1] = Panicked /\ answer' = Panicked /\ UNCHANGED joins
       \/ partial[joins + 1] # Panicked /\ joins' = joins + 1 /\ UNCHANGED answer
    /\ UNCHANGED <<mapped, workers, partial>>

Combined(m, p) == [s \in Stations |-> Merged(m[s], p[s])]

MergeMaps ==
    /\ workers > 1 /\ answer = Unset /\ joins = Cardinality(Spawned)
    /\ answer' = FoldLeft(Combined, Zero, [t \in 1 .. joins |-> partial[t]])
    /\ UNCHANGED <<mapped, workers, partial, joins>>

BrcNext == RunSequential \/ (\E t \in Spawned : ThreadEnds(t)) \/ JoinThread \/ MergeMaps

BrcSpec == BrcInit /\ [][BrcNext]_brcVars

(***************************************************************************)
(* Properties.                                                             *)
(***************************************************************************)

\* What a file says of a station, told without going through its lines in order.
Told(d) ==
    LET lines == Terminated(d)
        rows(s) == {k \in DOMAIN lines : NameOf(lines[k]) = s}
        temps(s) == {TempOf(lines[k]) : k \in rows(s)}
    IN IF \E k \in DOMAIN lines : ~Parses(lines[k]) THEN Panicked
       ELSE [s \in Stations |->
               [min |-> Min(temps(s) \cup {I32Max}), max |-> Max(temps(s) \cup {I32Min}),
                sum |-> SumFunctionOnSet([k \in DOMAIN lines |-> TempOf(lines[k])], rows(s)),
                count |-> Cardinality(rows(s))]]

(***************************************************************************)
(* The parallel path "agrees with the sequential one", and both with the   *)
(* file: for any number of threads, more than lines or bytes included, and *)
(* in whatever order they end, no row that a line end completes is lost,   *)
(* cut or counted twice.  A row without a semicolon or of another shape    *)
(* stops the program with a panic, wherever it stands; one of the right    *)
(* shape counts, whatever its digits are; and a last row without a line    *)
(* end counts in neither path, though baseline.rs:23 counts it.            *)
(***************************************************************************)
AnswerIsTold == answer # Unset => answer = Told(mapped)
===============================================================================
