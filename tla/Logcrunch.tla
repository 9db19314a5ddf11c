------------------------------- MODULE Logcrunch -------------------------------
(***************************************************************************)
(* The log analyser logcrunch (04-concurrency/src): the same statistics    *)
(* computed by one thread (sequential.rs), by a thread per line-aligned    *)
(* chunk (parallel.rs), by a producer and workers around a bounded channel *)
(* (pipeline.rs) and by rayon's fold and reduce (rayon_impl.rs).           *)
(*                                                                         *)
(* A log is a sequence of bytes, a byte being a number or Newline.  What   *)
(* parse_line makes of a line matters only in so far as it depends on the  *)
(* whole line: a line of one byte is a record, any longer one malformed.   *)
(***************************************************************************)
EXTENDS Integers, SequencesExt

CONSTANTS
    Bytes, Newline,
    NaNs,       \* bytes whose records have a latency that is not a number
    Logs,       \* logs to analyse
    Threads,    \* values of --threads
    BATCH,      \* lines to a message
    Cap,        \* messages the channel holds
    Pieces,     \* bound: pieces rayon splits the lines into
    Nil, Panic

ASSUME CrunchAssumption ==
    /\ Bytes \subseteq Nat /\ Newline \notin Bytes /\ NaNs \subseteq Bytes
    /\ Logs \subseteq Seq(Bytes \cup {Newline})
    /\ Threads \cup {BATCH, Cap, Pieces} \subseteq Nat \ {0}

Modes == {"seq", "par", "pipeline", "rayon"}

(***************************************************************************)
(* Lines and statistics.                                                   *)
(***************************************************************************)

\* What has been read of a log: its lines, blank ones skipped, and the line read now.
WithLine(r) == IF r.line = <<>> THEN r.lines ELSE Append(r.lines, r.line)

ReadByte(r, b) ==
    IF b = Newline THEN [lines |-> WithLine(r), line |-> <<>>]
    ELSE [r EXCEPT !.line = Append(@, b)]

NothingRead == [lines |-> <<>>, line |-> <<>>]

Lines(d) == WithLine(FoldLeft(ReadByte, NothingRead, d))

\* Every map of counters that is keyed by a field of the record is one of `counts`.
NoStats == [counts |-> [b \in Bytes |-> 0], malformed |-> 0, times |-> <<>>]

\* parse_line, then record or record_malformed.
Recorded(s, line) ==
    IF Len(line) = 1
    THEN [s EXCEPT !.counts[line[1]] = @ + 1, !.times = Append(@, line[1])]
    ELSE [s EXCEPT !.malformed = @ + 1]

\* Taking over the other's maps instead of adding them up.
Extend(a, b) ==
    [counts    |-> [k \in Bytes |-> IF b.counts[k] = 0 THEN a.counts[k] ELSE b.counts[k]],
     malformed |-> a.malformed + b.malformed,
     times     |-> a.times \o b.times]

Merge(a, b) ==
    [counts    |-> [k \in Bytes |-> a.counts[k] + b.counts[k]],
     malformed |-> a.malformed + b.malformed,
     times     |-> a.times \o b.times]

Folded(ls, s) == FoldLeft(Recorded, s, ls)

Sequential(d) == Folded(Lines(d), NoStats)

\* The percentile p of the samples: the one at the index nearest to the rank, were they
\* sorted.
Percentile(times, p) ==
    LET index   == (2 * p * (Len(times) - 1) + 100) \div 200
        Below(x) == Cardinality({i \in DOMAIN times : times[i] < x})
        UpTo(x)  == Cardinality({i \in DOMAIN times : times[i] <= x})
    IN IF times = <<>> THEN Nil
       ELSE CHOOSE x \in ToSet(times) : Below(x) <= index /\ index < UpTo(x)

\* Sorting the samples panics when it compares one that is not a number.
Report(s) ==
    IF Len(s.times) > 1 /\ ToSet(s.times) \cap NaNs # {} THEN Panic
    ELSE [counts |-> s.counts, malformed |-> s.malformed,
          p50 |-> Percentile(s.times, 50), p95 |-> Percentile(s.times, 95),
          p99 |-> Percentile(s.times, 99)]

(***************************************************************************)
(* split_into_chunks: cut at n - 1 rough places, each moved on to the end  *)
(* of the line it falls in.                                                *)
(***************************************************************************)

\* Cutting in front of the line's end.
CutAtRaw(d, raw) == raw

\* How many bytes come before the cut.
Cut(d, raw) ==
    CHOOSE e \in raw .. Len(d) :
       /\ e = Len(d) \/ (e > raw /\ d[e] = Newline)
       /\ \A f \in raw + 1 .. e - 1 : d[f] # Newline

\* Empty chunks are filtered out.
AddChunk(cs, c) == IF c = <<>> THEN cs ELSE Append(cs, c)

Chunks(d, n) ==
    LET bounds == [i \in 0 .. n |-> IF i = 0 THEN 0 ELSE IF i = n THEN Len(d)
                                    ELSE Cut(d, (i * Len(d)) \div n)]
        pairs  == [i \in 1 .. n |-> SubSeq(d, bounds[i - 1] + 1, bounds[i])]
    IN FoldLeft(AddChunk, <<>>, pairs)

VARIABLES
    mode, data, threads,    \* the command line
    \* pipeline: the producer
    todo,       \* lines it has not read yet
    batch,      \* lines read and not sent
    txOpen,     \* whether its end of the channel is open
    chan,       \* the channel: a sequence of batches
    \* the workers
    local,      \* worker |-> its statistics
    ended,      \* workers whose thread has ended
    \* main
    parts,      \* rayon: partial statistics not reduced yet, in order
    joined,     \* workers joined
    acc,        \* statistics merged so far
    report

crunchVars == <<mode, data, threads, todo, batch, txOpen, chan, local, ended, parts, joined, acc, report>>

\* The threads main starts; par has one for every chunk.
Workers ==
    CASE mode = "par"      -> DOMAIN Chunks(data, threads)
      [] mode = "pipeline" -> 1 .. threads
      [] OTHER             -> {}

\* The ways to split the lines into at most Pieces runs, folded one by one.
Partials ==
    LET ls == Lines(data)
        cuts == {c \in [0 .. Pieces -> 0 .. Len(ls)] :
                    /\ c[0] = 0 /\ c[Pieces] = Len(ls)
                    /\ \A i \in 1 .. Pieces : c[i - 1] <= c[i]}
    IN {[i \in 1 .. Pieces |-> Folded(SubSeq(ls, c[i - 1] + 1, c[i]), NoStats)] : c \in cuts}

CrunchInit ==
    /\ mode \in Modes /\ data \in Logs /\ threads \in Threads
    /\ todo = IF mode = "pipeline" THEN Lines(data) ELSE <<>>
    /\ batch = <<>> /\ chan = <<>> /\ txOpen = (mode = "pipeline")
    /\ local = [w \in Workers |-> NoStats] /\ ended = {}
    /\ parts \in IF mode = "rayon" THEN Partials ELSE {<<>>}
    /\ joined = 0
    /\ acc = IF mode = "seq" THEN Sequential(data) ELSE NoStats
    /\ report = Nil

(***************************************************************************)
(* The producer of the pipeline.                                           *)
(***************************************************************************)
Read ==
    /\ todo # <<>> /\ Len(batch) < BATCH
    /\ batch' = Append(batch, Head(todo)) /\ todo' = Tail(todo)
    /\ UNCHANGED <<mode, data, threads, txOpen, chan, local, ended, parts, joined, acc, report>>

\* A channel without a bound.
NeverFull == TRUE

\* send blocks while the channel is full.
Room == Len(chan) < Cap

Send ==
    /\ Len(batch) = BATCH \/ (todo = <<>> /\ batch # <<>>)
    /\ Room
    /\ chan' = Append(chan, batch) /\ batch' = <<>>
    /\ UNCHANGED <<mode, data, threads, todo, txOpen, local, ended, parts, joined, acc, report>>

\* A sender that outlives the producer's closure.
SenderKept == TRUE

SenderAfter == FALSE

ProducerEnds ==
    /\ txOpen /\ todo = <<>> /\ batch = <<>>
    /\ txOpen' = SenderAfter
    /\ UNCHANGED <<mode, data, threads, todo, batch, chan, local, ended, parts, joined, acc, report>>

(***************************************************************************)
(* The workers.                                                            *)
(***************************************************************************)
Receive(w) ==
    /\ mode = "pipeline" /\ w \notin ended /\ chan # <<>>
    /\ local' = [local EXCEPT ![w] = Folded(Head(chan), @)]
    /\ chan' = Tail(chan)
    /\ UNCHANGED <<mode, data, threads, todo, batch, txOpen, ended, parts, joined, acc, report>>

\* `for batch in rx` ends when the channel is empty and has no sender left.
WorkerEnds(w) ==
    /\ mode = "pipeline" /\ w \notin ended /\ chan = <<>> /\ ~txOpen
    /\ ended' = ended \cup {w}
    /\ UNCHANGED <<mode, data, threads, todo, batch, txOpen, chan, local, parts, joined, acc, report>>

AnalyzeChunk(w) ==
    /\ mode = "par" /\ w \notin ended
    /\ local' = [local EXCEPT ![w] = Sequential(Chunks(data, threads)[w])]
    /\ ended' = ended \cup {w}
    /\ UNCHANGED <<mode, data, threads, todo, batch, txOpen, chan, parts, joined, acc, report>>

(***************************************************************************)
(* Main: join the workers in the order they were started, or let rayon     *)
(* reduce neighbours.                                                      *)
(***************************************************************************)
JoinNext ==
    /\ joined + 1 \in ended
    /\ acc' = Merge(acc, local[joined + 1]) /\ joined' = joined + 1
    /\ UNCHANGED <<mode, data, threads, todo, batch, txOpen, chan, local, ended, parts, report>>

Reduce(i) ==
    /\ i + 1 \in DOMAIN parts
    /\ parts' = [j \in 1 .. Len(parts) - 1 |->
                    IF j < i THEN parts[j]
                    ELSE IF j = i THEN Merge(parts[i], parts[i + 1]) ELSE parts[j + 1]]
    /\ UNCHANGED <<mode, data, threads, todo, batch, txOpen, chan, local, ended, joined, acc, report>>

Reduced ==
    /\ Len(parts) = 1
    /\ acc' = parts[1] /\ parts' = <<>>
    /\ UNCHANGED <<mode, data, threads, todo, batch, txOpen, chan, local, ended, joined, report>>

\* The scope ends when all its threads have, the producer included.
Prints ==
    /\ report = Nil
    /\ joined = Cardinality(Workers) /\ parts = <<>> /\ ~txOpen
    /\ report' = Report(acc)
    /\ UNCHANGED <<mode, data, threads, todo, batch, txOpen, chan, local, ended, parts, joined, acc>>

Producer  == Read \/ Send \/ ProducerEnds
Worker(w) == Receive(w) \/ WorkerEnds(w) \/ AnalyzeChunk(w)
Main      == JoinNext \/ (\E i \in DOMAIN parts : Reduce(i)) \/ Reduced \/ Prints

CrunchNext ==
    \/ Read \/ Send \/ ProducerEnds
    \/ \E w \in Workers : Receive(w) \/ WorkerEnds(w) \/ AnalyzeChunk(w)
    \/ JoinNext \/ Reduced \/ Prints
    \/ \E i \in DOMAIN parts : Reduce(i)

\* Every thread is scheduled.
CrunchFairness ==
    /\ WF_crunchVars(Producer) /\ WF_crunchVars(Main)
    /\ WF_crunchVars(\E w \in Workers : Worker(w))

CrunchSpec == CrunchInit /\ [][CrunchNext]_crunchVars /\ CrunchFairness

(***************************************************************************)
(* Properties.                                                             *)
(***************************************************************************)

\* The channel keeps its bound (the back-pressure the code is after), a batch its size,
\* and only threads that have ended are joined.
CrunchTypeOK ==
    /\ mode \in Modes /\ data \in Logs /\ threads \in Threads
    /\ Len(chan) <= Cap /\ Len(batch) <= BATCH /\ txOpen \in BOOLEAN
    /\ ended \subseteq Workers /\ 1 .. joined \subseteq ended

(***************************************************************************)
(* No line is lost or seen twice: what the threads have in their local     *)
(* statistics, in the channel and before it adds up to the log at every    *)
(* moment, whatever the batches, the back-pressure and the pieces are.     *)
(***************************************************************************)
Unseen == Folded(FlattenSeq(chan) \o batch \o todo, NoStats)

Pending == {w \in Workers : w > joined /\ (mode = "pipeline" \/ w \in ended)}

LinesConserved ==
    mode \in {"pipeline", "rayon"} =>
       LET withLocal == FoldLeft(Merge, acc, [i \in 1 .. Cardinality(Pending) |-> local[joined + i]])
           all == Merge(FoldLeft(Merge, withLocal, parts), Unseen)
           oracle == Sequential(data)
       IN /\ all.counts = oracle.counts /\ all.malformed = oracle.malformed
          /\ Len(all.times) = Len(oracle.times)

(***************************************************************************)
(* sequential.rs is "the correctness oracle": every mode prints its report *)
(* for every log, number of threads, and order of the threads.             *)
(***************************************************************************)
SameReport == report # Nil => report = Report(Sequential(data))

(***************************************************************************)
(* The chunks are whole lines, in order and complete: none is empty, all   *)
(* but the last end with the end of a line, and put together they are the  *)
(* log.                                                                    *)
(***************************************************************************)
ChunksAreLines ==
    mode = "par" =>
       LET cs == Chunks(data, threads)
       IN /\ FlattenSeq(cs) = data
          /\ \A i \in DOMAIN cs : cs[i] # <<>> /\ (i < Len(cs) => Last(cs[i]) = Newline)

\* The analysis ends: no thread waits for ever on the channel or on another thread.
ReportComes == <>(report # Nil)
===============================================================================
