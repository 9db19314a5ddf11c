# Verification of the rust-fundamentals programs

The repository is a course of ten Rust crates, each of them a complete small
program. This directory holds TLA+ models of the ones whose behaviour is hard
to get right and hard to test, the TLC configurations that check the models,
and proofs about them. Every definition is translated from the Rust code; the
comments of the modules name what they translate, and `PROJECT.json` maps each
definition to its lines.

## 1. Inventory

| crate | program | state | hard behaviour | treated here |
|---|---|---|---|---|
| `10-database-internals` | `lsmkv`, an LSM-tree key-value store | memtable, `wal.log`, SSTable files, sequence number | kills and power losses between any two system calls, failing calls, recovery | modelled, proved |
| `07-systems-programming` | `rudis`, an in-memory Redis-like server | keyspace with deadlines, snapshot file; connections, tokens, buffers | edge-triggered readiness, partial reads and writes, expiry against the clock, a save cut short | modelled, proved |
| `05-async-tokio` | `aprobe`, port scanner and TCP proxy | spawned tasks, shutdown flag, semaphore | `select!`, cancellation, bounded drain, task order | modelled, proved |
| `04-concurrency` | `logcrunch`, log analyser | bounded channel, per-worker statistics | back-pressure, end of the channel, merge order, chunk boundaries | modelled, proved |
| `08-performance` | `brc`, temperature aggregation | a mapped file, per-thread maps | chunk boundaries, merge, rows that panic in a thread | modelled, proved |
| `06-web-services` | `taskline`, a to-do REST service | users, tasks, tokens in a database; a pool of connections | concurrent handlers, races decided by constraints, timeouts, lost connections | modelled, proved |
| `09-unsafe-ffi` | `cbloom`, a Bloom filter with a C interface | bit array; handles and buffers owned across the boundary | ownership protocol, serialised form, hashing arithmetic | modelled, proved |
| `03-error-handling-api-design` | `envtyped`, typed environment variables | the values and the errors collected so far | every error is reported; redeclarations; an environment that changes meanwhile | modelled, proved |
| `01-rust-fundamentals` | expense tracker | a list and the file it is saved to | a failed load followed by a save | modelled, proved |
| `02-ownership-types-traits` | door, traffic light, observer | current state | none: one fixed order of states | not modelled |

### lsmkv (10-database-internals)

* **State.** `Db` (`db.rs`) owns a memtable (one record per key), the live
  SSTables newest first, the next sequence number and the next table id. On disk
  are `wal.log` and the files `NNNNNNNNNN.sst`.
* **Operations.** `open_with` lists the tables, replays the log and restores the
  counters; `put`/`delete` append a frame, fsync, insert and maybe flush; `flush`
  writes the memtable as a table (temporary file, fsync, rename, directory fsync),
  installs it and empties the log; `compact` merges all tables into one and unlinks
  the inputs; `get` walks memtable and tables and stops at the first hit; `scan`
  merges everything by sequence number.
* **Interaction.** All calls go through `&mut self`; there is one process at a
  time. What interacts with it is the file system and its failures.
* **Correct when** acknowledged writes survive any crash, flush and compaction are
  invisible, the two read paths agree, sequence numbers identify writes, and the
  file of a live table stays.

### rudis (07-systems-programming)

* **State.** `Store` maps keys to a value and an optional absolute deadline; dead
  entries linger until touched or swept. The snapshot file holds the entries of the
  last save. The event loop (`server.rs`) keeps one `Connection` per token with the
  bytes read and not parsed and the replies not yet taken by the socket.
* **Operations.** Commands (`command.rs`), the sweep at the end of each pass, `SAVE`
  and the save at shutdown, the load at boot; poll, accept, read, process, flush,
  re-arm, drop.
* **Interaction.** One thread; clients and the kernel act between any two handlers,
  and `mio` reports an edge once.
* **Correct when** to clients an entry is gone the instant its deadline comes and a
  restart goes back to the last snapshot; no wake-up is lost; every request that ran
  has one reply, in order, on the right connection; a signal ends the loop.

### aprobe (05-async-tokio)

* **State.** The proxy has its listener, a `JoinSet` with a task per connection, and
  the `Shutdown` flag, a watch channel whose version counts how often it was set. The
  scanner has a semaphore, a `JoinSet` with a task per port, and the outcomes so far.
* **Operations.** `run_proxy`: a `select!` between accept and `cancelled()`, then the
  drain with its timeout; `handle_conn`: dial, copy both ways. `parse_target`, `scan`,
  `probe_port`.
* **Interaction.** Tasks of one runtime, which run on at every await; clients, the
  upstream and the probed hosts.
* **Correct when** a shutdown requested at any moment ends the proxy within the drain's
  timeout, which cuts no connection before it and waits for all of them to be gone; one
  connection does not hold up the next; a scan comes to its end and returns what the sequential scan
  would, each port once and in order, with no more probes in flight than asked for.

### logcrunch (04-concurrency)

* **State.** The log in memory; statistics local to each thread; for the pipeline a
  bounded channel of batches of lines.
* **Operations.** Split at line ends, record, merge, report; produce, send, receive.
* **Interaction.** Scoped threads that share nothing but the channel; main joins them.
* **Correct when** every mode prints the report of the sequential one, no line is lost
  or counted twice, and no thread waits for ever.

### taskline (06-web-services)

* **State.** The tables `users` and `tasks`, the tokens that were issued, a pool of
  connections, and per request how far its handler has got.
* **Operations.** `register`, `login`, `list_tasks`, `create_task`, `get_task`,
  `update_task`, `delete_task` (`handlers.rs`), each behind the token extractor
  (`auth.rs`), `validate()` and the timeout layer (`app.rs`); graceful shutdown.
* **Interaction.** Handlers run concurrently and meet only in the database, one
  statement each. The timeout drops a handler at an await; its statement may run all
  the same.
* **Correct when** an e-mail has one account, a token is with a client who knows the
  account's password, a client sees and changes his own tasks only, a status code says
  what happened, every request is answered though the database hangs, and the pool's
  size bounds the statements at the database.

### rudis's wire (07-systems-programming)

* **State.** The bytes read and not parsed, the bytes of replies not yet taken.
* **Operations.** `Resp::parse`, `Resp::encode`, `Command::parse`, the loop of
  `Connection::process`.
* **Correct when** the requests served are those of the stream however it is cut into
  reads, and the replies one value a request however they are cut into writes; that is, when
  `parse` undoes `encode` and asks for more bytes exactly while a value is incomplete.

### brc, cbloom, envtyped, expense tracker

* **brc** maps a file, cuts it into chunks at line ends, aggregates each on a thread and
  merges the maps: it must compute the sequential result for every split and order.
  A row is a name, a `;` and a temperature, whose shape is checked and whose digits are not.
* **cbloom** must have no false negatives, also after round trips through bytes, must
  spread the probes of an item, and must free every handle and buffer once, with its size.
* **envtyped** must report every missing or malformed variable, and answer for the others
  with what the last declaration found.
* **The expense tracker** must bring back at every start what was added and not deleted.

## 2. Modules

| module | what it is |
|---|---|
| `LsmRecords` | records, frames, and the pure operations of the store: newest-per-key, merge, memtable insert, log replay |
| `KvStore` | abstract: a durable map in which an unfinished write may or may not surface after a restart |
| `Lsm` | the storage engine on a disk that can lose power, one action per disk operation |
| `LsmProps` | its properties, and the refinement to `KvStore` |
| `LsmProofs` | theorems: first those that hold in every situation (types, write-ahead, live files), then those about what the engine survives (durability, the two read paths, sequence numbers, the refinement of `KvStore`) |
| `MCLsm` | symmetry for the runs |
| `TtlMap` | abstract: a map whose entries vanish at their deadline, with a snapshot to go back to; no dead entry, no sweep |
| `RudisStore` | the keyspace: commands, clock, sweep, save in two steps, kill, boot; refines `TtlMap` |
| `RudisStoreProofs` | theorems about `RudisStore`, the refinement included |
| `RudisServer` | the event loop against clients, kernel sockets and edge-triggered readiness |
| `RudisServerProofs` | theorems about `RudisServer` |
| `Resp` | the wire: parser, encoder, requests and replies, and a connection's two buffers |
| `WireProofs` | theorems about `Resp` |
| `Taskline` | the REST service: handlers, pool, statements, timeout, shutdown |
| `AprobeProxy` | accept loop, connection tasks, shutdown flag and drain of the proxy |
| `AprobeScan` | port list, semaphore, probe tasks and collection of the scanner |
| `ServiceProofs` | theorems about `Taskline`, `AprobeProxy` and `AprobeScan` |
| `Logcrunch` | the four ways to analyse a log, threads and channel included |
| `Brc` | chunks, threads, joins and merge of the aggregator |
| `Cbloom` | the filter, its bytes, and the ownership of what crosses to C and back |
| `EnvTyped` | loader and environment |
| `Expenses` | the list, its file, and the commands between two starts |
| `FoldTheorems` | what a left fold computes, for any operator, and that a function defined by recursion exists: induction over data, once for all |
| `CrunchProofs` | theorems about `Logcrunch` |
| `ProgramProofs` | theorems about `Brc`, `Expenses`, `EnvTyped` and `Cbloom` |
| `MCRudisStore`, `MCRudisServer`, `MCTaskline`, `MCExpenses` | instances for the runs |
| `MCPrograms` | the instances of the programs that keep no database of their own, in one run |

`MCPrograms` composes by choice: `Init` picks the program that runs, and the variables of
the others are fixed and take no step. The programs share nothing, as in the repository;
one run covers all nine, and each property is about its own program's states.

### How Lsm corresponds to the code

`pc` says how far the one call in progress has got; every value of it is a point
between two system calls where the process can die or the call can fail.

* `Write`, `AppendFails`, `SyncInsert`: `Db::put` and `Db::delete`
  (`append`; `sync`, `insert`, `maybe_flush`).
* `FlushWrite`, `FlushInstall`, `ResetTruncate`, `ResetSync`: `Db::flush`, that is
  `SsTable::write`, the directory fsync and installation, `Wal::reset`.
* `CompactWrite`, `CompactSwap`, `UnlinkOne`, `UnlinkSync`: `Db::compact`.
* `Open`: `Db::open_with`. `IoError`: the `?` of every call. `Get`, `Scan`: the reads.
* An unlink that fails, or the stop of the process, leaves inputs of a compaction behind that
  are in no open table (`LeftoverRecords`). The next `Open` loads every file there is, and a
  compaction knows the open tables only: `MayDrop` and `MayCut` name the two situations in which
  it drops a tombstone too early (see "Exposed" in section 3).
* `Kill` and `PowerLoss` are the environment. The disk is kept twice, as a later
  process sees it (`dir`, `wal`) and as of the last fsync (`dirDurable`,
  `walDurable`). A kill leaves the first. A power loss leaves the second plus any
  part of what followed: of the log some prefix, perhaps with a torn frame; of the
  directory, each name on its own either way.

Tables and the memtable are sets of records, because the code keeps them sorted by
key and only membership matters to what a reader sees. A frame that is cut short or
fails its checksum is the single value `Torn`. The byte layouts (varints, CRC, sparse
index, footer) are abstracted to that.

`settled`, `doubt` and `issued` are history variables for the properties; they guard
nothing.

### How RudisStore corresponds to the code

A command is one step because the server is single threaded. `DEL` and `EXISTS` of
several keys are several steps, because each key asks the clock for itself. A save is
two steps, `SaveCreate` (`File::create`, which empties the file) and `SaveEnds`
(`write_all`, `sync_all`), because the process can die in between; `SaveRefused` is
`File::create` failing. `PurgeExpired` is the sweep. `Boot` is `load`, which refuses a
torn file. Persistence is configured (`SNAPSHOT_PATH` set); without it `SAVE` is an
error reply and nothing else. The deadline of `SET ... EX/PX` is a parameter, since it
is computed when the request is parsed; it may have passed by the time it is stored.

### How RudisServer corresponds to the code

`DoPoll` is `poll.poll` returning the sources that became ready since the last time;
`AcceptOne`, `AcceptAborted`, `AcceptFails` and `AcceptWouldBlock` are the four ways the
accept loop goes on; `ClientEvent` is the arm of a connection: read until it would block
(`read_into_buf`), run the complete requests (`process`), write (`flush_write_buf`),
re-register, or drop. The clients (`Connect`, `Abort`, `SendPiece`, `SendJunk`, `Close`,
`Receive`) and the kernel's buffers are external, and act between any two of these
steps. Inside one `ClientEvent` nothing else acts: the socket calls of one event are
taken as one step, which leaves out input that arrives between the last `read` of an
event and its re-registration; re-registering reports such input again, so it is the
same as its arriving just after.

A request is an INCR of one key that all clients share, so each reply identifies the
execution it answers. A request arrives in `Parts` pieces, `SendCap` replies fit in the
send buffer.

### How AprobeProxy and AprobeScan correspond to the code

`phase` is where `run_proxy` is. `arm` is how far the `cancelled()` arm of its `select!`
has got: the check of the flag (`CheckFlag`), the first poll of `changed()`
(`AwaitChange`), parked (`Changed`). The arm starts over after every accept, with a new
clone of the receiver. A clone takes over the version its original has seen, which here
is always the first, so `changed()` returns at once if the flag was set since the check:
`VersionOfClone` is that version, and `LatestVersion` what a receiver subscribed at that
point would have.

`TimesOut` is the drain's timer and `Abort` what an abort does to each task, which may still
end by itself first. `JoinSet::shutdown` waits for the aborted tasks (`AllGone`). `AcceptFails`
is the `?` behind `accept`: the function returns, and the `JoinSet` that is dropped with it only
requests the aborts, so the tasks come to theirs, or to their end, after the return, in the phase
`failed`. In `aprobe` itself the process exits soon after. `ListenerDropped` is what either return does to
the clients still in the backlog. Clients, upstream and dials
(`Arrive`, `CloseOneEnd`, `Dialled`, ...) are external; a half-closed connection goes on
in its other direction, as `copy_bidirectional` does.

In `AprobeScan` a probe's outcome is nondeterministic only for a port that answers at about
the time of the timeout. `spec` is the port list as ranges, in the user's order, with
repetitions and overlaps; `target` is what `parse_target` made of it. Sorting is stated by what
`sort` and `sort_by_key` promise and not with `SortSeq`, about which the prover knows nothing:
`Order(key)` are the positions of a sequence in the order of their keys, equal keys as they
came. `Dedup` keeps the elements that differ from the one before them.

### How Logcrunch corresponds to the code

A log is a sequence of bytes, some of them newlines, so that splitting is about the bytes
the code looks at. Parsing is reduced to one fact that depends on the whole line: a line of
one byte is a record with that byte as key and latency, a longer one is malformed. A
wrongly cut line therefore shows. All maps of counters have the same shape and are one.
`Lines` reads a log byte by byte, as `text.lines()` does, skipping blank lines. `Merge`
keeps the order of the samples, which differs from run to run; `Percentile` picks the sample
of the rank the code computes, the one that would be there were they sorted. A byte in `NaNs` is a record whose latency does not compare: the report then panics
when there are two samples, in every mode alike. `Init` starts with the command line
parsed and, for rayon, with any split of the lines into folded pieces; `Reduce` merges any
two neighbours. The leaderboards of the report are functions of the counters and left out.

### How Taskline corresponds to the code

A request's record `call[r]` has two sides that go on independently: `phase` is the handler
(waiting for a connection, running, answered), `stmt` the statement at the database (sent,
done). `TimeoutFires` ends the first and not the second: the connection stays `Busy` until the
statement has ended, which is how sqlx returns a connection to its pool. `Handle` is everything
before the first await: the extractor (401), `validate()` (422). `InsertUser` ... `DeleteTask`
are the SQL statements as the handlers write them, each atomic, the unique index on the e-mail
included. `QueryFails`, `LoginEnds` and `Finishes` are the code behind the await. `Breaks`
is a connection lost before or after its statement ran. A password is the client who knows it; a token is what
`issue` signed for a user; an expired token is one that a request does not have. Requests are
numbered as they come, and a row's id is the number of the request that inserted it, since the
code's random ids are fresh.

### How Resp corresponds to the code

A byte is a one-character string, so that the parser's view of line ends, digits and lengths
is literal; `FF` stands for a byte that is not UTF-8. `Parse` has the four outcomes of
`Resp::parse`: a value and the bytes it used, partial, invalid, and a panic. It panics on an empty
line (`&buf[1..0]`) and on an array for which there is no memory (`Vec::with_capacity` beyond
`MaxItems`). A number is read digit by digit (`Shift`) and must be in `I64`.

Values nest, so encoder and parser are recursive. `Level[d]` are the values with arrays nested at most
`d` deep, `Encoder[d]` encodes them, and `Parser[d]` is `parse` with at most `d` calls within each
other: three recursive functions of the depth, each one turn (`EncodedWith`, `ParsedWith`) given
the function one level below. A call takes bytes before it calls itself, so the length of the
buffer is deep enough, and `Parse` starts with that. `Elements` is the loop over the items of an
array, which ends at the first that is partial or invalid.

`LoopTurn` is one turn of the loop of `Connection::process`, which is `Process`;
`ReadIntoBuf(n)` delivers any number of bytes, `FlushWriteBuf(n)` takes any number. `Reply` is the
shape of what each command answers on an empty keyspace, since what it does there is
`RudisStore`'s subject. Command names are one byte or a keyword; an unknown one is quoted in the
refusal as `from_utf8_lossy` has it (`Lossy`).

### How Brc, Cbloom, Expenses and EnvTyped correspond to the code

`Brc`: a file is a sequence of bytes: `Terminated` folds `Delimit` over it and has the lines that
`memchr_iter` delimits, which leaves out bytes behind the last line end. `NameOf` is what stands
before the first `;`, possibly nothing. Of the bytes behind it `parse_temp` takes the sign and
matches the shape, `d.d` or `dd.d` (`Shaped`), and then computes with whatever the digits are:
`Digit` is the subtraction of `b'0'` in a `u8`, modulo 256, and with overflow checks a panic if
it would be negative (`Below`). `OverflowChecks` says which of the two builds it is. Only a missing `;`
or another shape is a panic in both (`Parses`). A panic in a thread reaches main at its join; in
the release build, whose panics abort, the process is gone at once, which comes to the same
answer. `Tallied` puts one row
into a map, `Combined` one map into another. `SplitChunks` is `split_chunks` with its cuts
relative to the previous one; `Pushed` leaves out the chunks past the end of the file.
`ThreadEnds` is a scoped thread, `JoinThread` the join that passes a panic on, `MergeMaps` the
final fold. A map has an entry for every name in the files (`Stations`); a name that is not in
the code's map yet has the default statistics there.

`Cbloom`: a filter is the set of its bits that are 1; `heap` is what Rust has allocated, `held`
what C holds. A buffer is freed with the length C passes, so it must be the allocation's size:
`Boxed` is `into_boxed_slice`. The two FNV hashes are arbitrary functions, 2^64 is the constant
`U`, 64 the constant `W`. `Damaged` is what may come to `cbloom_deserialize` instead of the
bytes that were written; `ForeignBits` are the `num_bits` fields of headers that nobody wrote.

`Expenses`: every command that changes the list ends in `Saved`. `Mishaps` names what the list
does not survive; the passing run leaves them out.

`EnvTyped`: a declaration reads the environment at once; `SetVar` is another part of the
program. Which text parses as which type is the constant `Literal`. A value that is not Unicode
counts as `Absent`, because `env::var(..).ok()` does not tell the two apart.

## 3. Runs

| run | expected | question |
|---|---|---|
| `lsm` | pass | is the engine a durable map under kills, power losses and failing calls at every point? |
| `lsm_torn` | violation | do writes after a restart over a torn log survive? |
| `lsm_cut` | violation | does a compaction that is interrupted among its unlinks stay invisible? |
| `lsm_left` | violation | does a value stay deleted when a compaction could not unlink a file that has it? |
| `lsm_slow` | violation | do the read paths agree when recovery read a log that was not durable? |
| `lsm_seq` | violation | are sequence numbers never reused, as `encoding.rs` says? |
| `rudis_store` | pass | do lazy expiry, sweep, snapshot filter and loader make one map with deadlines? is dead memory reclaimed? |
| `rudis_save` | violation | does the last snapshot survive a crash in SAVE? |
| `rudis_incr` | violation | does INCR refuse a number out of range? |
| `rudis_server` | pass | wake-ups, reply order, tokens, liveness of the loop |
| `programs` | pass | each of the other programs on its own instance, see below |
| `expenses_nan` | violation | do expenses survive between runs, whatever amount the prompt takes? |

`programs` asks: does a shutdown end the proxy, cutting nothing early and leaving nothing behind, and is
each client accepted however long the others take (`ShutdownEnds`, `CutOnlyLate`, `AcceptedRegardless`)? Is the concurrent scan the sequential
one (`SameAsSequential`, `PortsOnceInOrder`, `InFlightBounded`, `ScanEnds`)? Do all modes of
`logcrunch` print one report, and always get there (`SameReport`, `LinesConserved`,
`ChunksAreLines`, `ReportComes`)? Are taskline's tokens, tasks and status codes right under
races, timeouts and lost connections (`TokensEarned`, `OwnerScoped`, `RepliesTrue`,
`RequestsAnswered`)? Is `brc`'s answer what the file says (`AnswerIsTold`)? Does C hold what
Rust has allocated, and does a filter report what was added to it, on probes that differ
(`HeldIsLive`, `Faithful`, `ProbesDiffer`)? Are the books kept (`BooksKept`)? Is every problem
of the environment told (`EnvKeepsItsWord`)? Is a stream of RESP served alike however it is cut
(`WireFaithful`)?

**Exposed.** The code does not survive some situations. Each is a name in the constant
`Exposed`; a passing run leaves it out and a violation run puts in exactly one. The
excluded situations are narrow: writing while the log holds a damaged frame
(`write_after_torn`), a stop or a failing call among the unlinks of a compaction that dropped a
tombstone (`cut_removal`), a compaction that drops the tombstone of a key which a file has that an
earlier compaction failed to unlink (`leftover_input`), page-cache writes of a killed process that are still not durable when
the next one opens (`slow_writeback`), INCR of the largest number (`incr_overflow`), a
save cut short (`cut_save`). `Mishaps` of `Expenses` works the same way. Everything else is in the
passing runs: torn logs, and failing unlinks of compactions that dropped no tombstone, with the
files these leave and their return at the next start.

**What the violations are.**

* `lsm_torn`: `Wal::open` appends behind a torn last frame, `replay` stops at it, and
  nothing truncates it: acknowledged writes are gone after the next restart.
* `lsm_cut`: `compact` unlinks its inputs newest first; a stop in between leaves an
  older table whose tombstone has been dropped, and the deleted value comes back.
* `lsm_left`: an unlink fails, and its file stays with a value of the key; the key is deleted, and
  the next compaction merges the open tables and drops the tombstone; the next start loads the
  file, and the deleted value is back.
* `lsm_slow`: recovery builds the memtable from frames it does not fsync; a flush makes
  them durable in a table, a power loss brings back an older log, and the older records
  of the replayed memtable hide the newer ones of the table from `get`.
* `lsm_seq`: compaction drops the tombstone that carried the highest number, and the next
  open hands it out again. No property that readers can see depends on it in the passing
  run (`SeqIdentifiesWrite` holds), so this is a divergence of the comment.
* `rudis_save`: `File::create` empties the old snapshot before the new one is written.
* `rudis_incr`: `current + 1` has no check.
* `expenses_nan`: `nan` parses as an amount, is saved as `null`, and the next start cannot read
  the file, warns, begins with an empty list and overwrites the file at its first save.

**Bounds.** `lsm`: two keys, one value and the tombstone, three writes, a flush at two
entries, five tables, two stops, one failing call. That is enough for a write, a crash,
recovery, a second write over it, a flush, a compaction and a crash in any of these, and
for an error to leave a file behind, under an id that is used again or as an input that the
next start loads. `rudis_store`: one
key over four instants with deadlines in the past and lives of zero seconds, and a second key
(`Other`) that exists in the first two instants only, with one value and one deadline: two keys
are needed for `DEL`/`EXISTS` of several keys and for a sweep that finds some entries dead; one
second is one instant.
`rudis_server`: two clients and two connections, three tokens starting at the last one,
so that the counter wraps onto live connections; two pieces to a request, one reply in the
send buffer, two pipelined requests from one client and one from the other: partial
requests, pipelining and a full buffer all occur. In `programs`, aprobe: three connections, so that one
can be copying, one arriving and one waiting; a drain of two instants; two triggers, the
second of which changes nothing; three ports on two permits, port lists with repetitions,
overlaps, descending order and an empty range, every assignment of behaviours. logcrunch:
every log of up to five bytes over two bytes and the newline (five bytes hold three records,
or a cut in the middle of a long line), one to three threads, two lines to a batch (1024 in
the code), one batch in the channel (64), three pieces: batches that are not full, a
producer that waits for room, and threads without a line all occur. taskline: three requests of two
clients on a pool of two connections, over a database with two accounts and a task: two
registrations of one e-mail race, with a login behind them; a task is created, deleted and read
at once; its owner changes it, to a title that `create_task` refuses, and so does the other client; one statement or connection fails. brc: every
file of up to three rows of two stations and two temperatures, with and without the last line
end; and files with one strange row among two others: an empty one, one without `;`, one of
another shape, an empty name, a second `;`, and digits that are none, one of them below `0`; on up
to four threads, so more threads than rows and several cuts in one row. The run is of the release
build, whose digits wrap; the theorem is about both. cbloom:
two items, hashes modulo 16, four bits to a word, filters of one and three words, three
addresses that are used again, two additions, and a foreign header. Expenses: three additions,
any deletions and restarts. envtyped: two declarations of every kind for one name and one bad
name, one change of the environment in between. RESP: conversations with every kind of
value, arrays within arrays, requests refused for each reason, CRLF inside bulk strings and junk
behind (a bad type byte, a length that is no number, a number beyond `I64Max` = 99, an array beyond
`MaxItems` = 8), cut into pieces of up to four bytes in each direction. `CHECK_DEADLOCK FALSE` is set because
every model ends when its bounds are used up, and the programs may stop.

**Symmetry.** `lsm` permutes keys and values (it has no liveness property). The rudis runs
use none.

**Fairness.** The `lsm` runs have no liveness properties. `RudisStore`: a save returns
(WF), and the sweep happens whenever it is possible again and again (SF), because the loop
ends each pass with it and commands and saves lie between two passes. `RudisServer`: the
server's thread runs (WF of `Serve`), and a client that has replies waiting reads them (WF
of `Receive`). Clients need not send anything.
`AprobeProxy`: the runtime polls `run_proxy` when what it waits for is ready (WF of `RunProxy`),
and its `select!` prefers neither arm, so that a connection in the backlog is accepted (WF of
`Accept` for each); dials and transfers may take for ever. `AprobeScan`: every probe ends, by its
timeout at the latest. `Logcrunch`: every thread is scheduled. `Taskline`: the runtime's timers fire
(WF of `TimeoutFires` for each request) and axum notices that the last request has ended (WF of
`Stop`); the database owes nothing, so no statement need ever run. `AcceptedRegardless` and
`RequestsAnswered` are stated as `<>[]`: a connection or request comes once and is not undone,
so "each one leads to an end" is the same as "from some moment on none is open".

## 4. Proofs

`LsmProofs` proves, for every set of keys and values, every flush threshold, all bounds and
every choice of `Exposed`, so also in the situations the engine does not survive:

* `TypeCorrect`: `Spec => []TypeOK`, the memtable being a map included;
* `WriteAhead`: `Spec => []MemtableIsLogged`, every memtable entry is in the log;
* `LiveTablesStay`: `Spec => []LiveTablesOnDisk`, the file of a live table is neither
  unlinked nor overwritten, and tables are ordered newest first;
* `MergeInvisible`: what a full compaction does to the newest record of every key.

None of the three invariants is inductive alone. The inductive invariant `IInv` adds
`CallState`, what each point of a call relies on: a stopped process has no memory; between
installing a table and emptying the log the memtable is empty (otherwise the truncation
would break write-ahead); at `sync` the last frame is the pending record; at `flushDir` and
`mergeDir` the new file exists; every id still to be unlinked is below every live id, and
every live id is below the next one (otherwise an unlink or a rename could hit a live table).
`Invariance` combines one lemma per conjunct, each with a step per action. Lemmas about the
pure operations (replaying a log gives a memtable, inserting keeps it one, merging keeps
records of the inputs) carry the data part.

Its second part proves, under the hypothesis `Exposed = {}`:

* `WritesSurvive`: `Spec => []AcknowledgedSurvive`, after any kills, power losses, restarts and
  failing calls a reader finds the last acknowledged write of a key or a later one in doubt;
* `ReadsAgree`: `Spec => []ReadPathsAgree`;
* `NumbersIdentify`: `Spec => []SeqIdentifiesWrite`;
* `StoreIsDurableMap`: `Spec => ImplementsKvStore`, every step is a step of the durable map or
  a stutter.

The hypothesis excludes the four situations under "Exposed" in section 3, each of which a
violation run shows to be fatal, so it cannot be weaker than leaving out all four; torn logs, kills,
power losses and failing calls at every point remain, failing unlinks among them. The inductive
invariant `Durable` has four parts beside `IInv`. `LogPart` is about every log that a power loss may
leave and not only the latest: the records that can come back from any of them (`Surfacing`) are
newer than every other record of their key and are ones a reader may find, and every memtable key
is in all of these logs (`MemCovered`). `FilePart` orders the files by id, in the latest and in the
durable directory alike (`FilesInOrder`, `MemAbove`). `DirPart` says what a directory may hold
beyond the live tables, as the next start would load it. No id is above the next one (`IdsKnown`), and
a file under the next one is what a failed flush or compaction wrote, whose entries the log still
has or the live tables (`Unfinished`). Any other file that is not live is an input of a compaction that was
not or not yet unlinked: it is older than every live table (`StaleBelow`), and the live tables have
every key in it (`StaleHidden`), except while a compaction that dropped a tombstone is still
unlinking. `MergeHides` keeps the latter true over the swap of a compaction, and is where
`leftover_input` is needed. `Closed` is what the next `Open` starts from. Without the quantification over logs
and directories none of it is inductive, because a power loss picks one of them.

`RudisServerProofs` proves, for every set of clients, number of tokens and connections, size of a
request and of a send buffer:

* `TypeCorrect`: `Spec => []TypeOK`;
* `TokensUnique`: `Spec => []OneTokenEach`;
* `WakeupsKept`: `Spec => []NoLostWakeup`;
* `RepliesOrdered`: `Spec => []RepliesInOrder`.

`OneTokenEach` rests on a counting argument: connections and pending clients together are fewer
than tokens (`Bounded`), so the wrapped counter comes to a free one (`Table`). `RepliesInOrder`
rests on `Counted`: the pieces a client sent are in the socket, in the read buffer, or in a request
that ran, so nothing is run twice or skipped; `Past` keeps replies below the shared counter.
The actions are first reduced to kinds (quiet ones, those of a client, those that handle a
connection), and each conjunct is preserved by each kind.

`RudisStoreProofs` proves, for every set of keys, values and deadlines:

* `TypeCorrect`: `Spec => []TypeOK`, in every situation;
* `SnapshotsKept`: `Spec => []SnapshotKept` if no save is cut short (`"cut_save" \notin Exposed`);
* `StoreImplementsMap`: `Spec => ImplementsTtlMap`, if `Exposed = {}`.

The refinement needs two facts that are not about the map: outside a save the file is the last
completed save (`FileIsSaved`), and during one the buffer about to be written has the same live
entries as the keyspace (`BufferIsLive`), since only the clock moves. The entries the mapping
compares are those that are alive at an instant (`AliveAt`); each of the four places where the code
decides that an entry is dead has its lemma.

`ServiceProofs` proves of the proxy, for every set of connections, drain timeout and number of triggers:

* `ProxyTypeCorrect`: `ProxySpec => []ProxyTypeOK`, types, and no client waits in the backlog of a
  `run_proxy` that has returned, in whichever way;
* `DrainsFirst`: `ProxySpec => []CutOnlyLate`: the loop is left after a trigger only, a transfer is cut
  after the whole drain only, and none is left when `run_proxy` returns; a failing accept is the
  exception, and stated as one;

and of the scanner, for every port list, concurrency and behaviour of the ports:

* `PortsAreOnceInOrder`: `ScanSpec => []PortsOnceInOrder`;
* `ProbesAreBounded`: `ScanSpec => []InFlightBounded`;
* `ConcurrentIsSequential`: `ScanSpec => []SameAsSequential`.

The proxy's invariants need `DrainState` beside each other: nothing is cut while the loop runs or
the drain waits, and aborting starts with the timer up. The scanner's needs that a port that was
spawned is in flight, ended or collected, and only one of these (`OnceEach`), which in turn rests
on the ports being distinct: were a port spawned twice, the set of probes in flight would count it
once and permits would go missing. That the ports are distinct is a theorem about sorting and
dedup. That the order of the ports is all that sorting the outcomes can give rests on there being
one ascending sequence of a set (`AscendingUnique`).

`ServiceProofs` proves of `Taskline`, for every set of clients, e-mails, titles and databases, any number of
requests and any size of the pool:

* `TasklineTypeCorrect`: `TasklineSpec => []TasklineTypeOK`, keys, references and the pool's bound;
* `TokensAreEarned`: `TasklineSpec => []TokensEarned`;
* `RepliesAreTrue`: `TasklineSpec => []RepliesTrue`;
* `OwnersOnly`: `TasklineSpec => OwnerScoped`, the action property.

The inductive invariant `TasklineInv` ties a request's record to the tables: what its statement wrote
(`Effect`) and what its status says of that (`Honest`); that it acts for an account whose password
its client knows, with rows of that account only (`Authorised`); that an account carries the
number of a request whose statement has run (`AccountsFresh`, without which two accounts could
have one id); that requests are numbered as they arrive (`InOrder`); and that a created task is
there unless a deletion found it (`CreatedStay`). The steps are first reduced to three kinds
(`Kinds`): a request comes, a request gets on without touching the tables, a statement runs
(`Does` says what it may do). Each conjunct is then preserved by each kind; the pool's bound alone
goes action by action.

`ProgramProofs` proves of `Cbloom`, for any items, addresses, filter sizes, word size and any two
hash functions:

* `HeldStaysLive`: `CbloomSpec => []HeldIsLive`;
* `StaysFaithful`: `CbloomSpec => []Faithful`, under the hypothesis `WholeForeign` that a header
  nobody wrote promises whole words;
* `ProbesStayDifferent`: `CbloomSpec => []ProbesDiffer`, under `WholeForeign` and the hypothesis that
  the word has a power of two bits, which 64 is (`SixtyFour`).

The second rests on `FilterOK` (whole words of bits, no probe out of range, the set bits are
exactly the probes of the items), on the arithmetic of words and bits (`UnpackedPacked`: bits
come back from their words), and on what `from_bytes` accepts (`ReadAny`). Without `WholeForeign`
it is false: with a header of, say, five bits to a four-bit word the deserialised filter has fewer
words than its probes need, `add` stops at an index out of range, and the item is not reported.
The third needs that `FilterOK` too, because 2^64 and the number of bits are both whole words: two
probes that meet then differ by a multiple of a word (`ProbesMeet`). The least number of steps of an
odd `h2` that comes to a multiple of `W` divides `W` with an odd quotient, which only 1 is
(`OddMultiples`), so it is `W` itself. With an even `h2` there would be a shorter way.

`CrunchProofs` proves, for any logs, number of threads, size of a batch and of the channel, and any
way rayon splits the lines:

* `CrunchTypeCorrect`: `CrunchSpec => []CrunchTypeOK`, the channel's bound included;
* `EveryLineCounted`: `CrunchSpec => []LinesConserved`;
* `EveryModeAgrees`: `CrunchSpec => []SameReport`;
* `ChunksAreWhole`: `CrunchSpec => []ChunksAreLines`.

Statistics that were merged in another order are not equal, since the samples are in another order.
They are compared by what can be asked of them (`Questions`): a counter, the malformed lines, and how
many samples are in a set. Every `Answer` is additive in `Recorded`, `Merge` and `Folded`, and
statistics with the same answers give the same report (`AlikeReports`), because a percentile is a
matter of how many samples are below a value. The inductive invariant `CrunchInv` says for each way of
working that the answers add up: what is in `acc`, in the workers' `local` that are not joined, in
`parts`, in the channel and before it (`Conserved`), that a chunk's thread has exactly the answers of
its chunk (`ByChunks`), that nothing is left when main goes on (`Drained`, `Unreduced`). The chunks
are lines because a cut is at an end of a line (`CutOff`, kept from one cut to the next), and the
lines of two texts are the lines of both put together when the first ends with its line
(`LinesConcat`).

What folds compute is proved once, in `FoldTheorems`, for an operator that is a CONSTANT of the module:
its value on a sequence and one more element, on two sequences put together, its type, that a measure
which every element adds to is additive (`LeftAdds`), and that a map which commutes with the operator
commutes with the fold (`LeftMaps`). `CrunchProofs` instantiates it with `Recorded`, `Merge`,
`ReadByte` and `AddChunk`, `ProgramProofs` with `Delimit`, `Tallied`, `Pushed` and `Combined`,
`WireProofs` with `Shift`, `Cat`, `NextElement`, `LoopTurn` and `Received`. This is how an induction
over data is done although a theorem with an operator as a parameter cannot be used: the parameter
is the module's. In the same way `RecursionExists` shows that a function `f` on the numbers exists
with `f[0]` given and `f[n]` equal to `Op(f[n - 1], n)`, from which the recursive definitions of
`Resp` get their equations.

`WireProofs` proves, for any conversations, any depth of arrays, any largest number and any way
the streams are cut into reads and writes:

* `WireStaysFaithful`: `RespSpec => []WireFaithful`;
* `ParseInvertsEncode`: the value encoded at the front of a buffer is parsed, with exactly its
  own bytes, whatever is behind it ("The inverse of `Resp::parse`", `resp.rs`);
* `ParseWaits`: of a proper prefix of a value's bytes, `parse` says that more are needed;
* `DecodedIsEncoded`: values encoded one behind the other are decoded to the same values, with no
  byte left.

The hypothesis of the first is `PlainSpoken`: the texts of the client's status lines and the names of
its commands have no line end in them. It is what the code needs, since a text with a line end is
encoded as it is (`resp.rs:150`) and an unknown name is quoted in a status line
(`command.rs:181`); `MCPrograms` has TLC evaluate it on the conversations of the run. Bulk strings are
any bytes, line ends included, and what stands behind the client's last value is anything of which no
prefix is a value.

The argument goes from the inside out. A line is found where it ends, because nothing before that end
looks like one (`LineEnds` of a line and what is behind it); a numeral is read back as its number
(`Numeral` against `Shift`). One turn of the parser then undoes one turn of the encoder if the
parser one level below does so for the elements, which go through `NextElement` one by one: the
first is at the front of what the array's header left, and what the others get begins where it
ended. `EveryDepth` is the induction on the depth, for the whole value and for a proper prefix of
it together, since an array that is cut is cut within an element or between two.

The inductive invariant `WireInv` says that the values served are a prefix of the client's,
that the bytes of that prefix, the read buffer and the bytes to come are the whole stream (`Stream`),
that the client's inbox and the write buffer together are the encoded replies (`Answered`), and
that outside a step the read buffer has no whole value in it, or the connection has ended
(`Settled`). Without `Settled` the next bytes would not tell how many values get served. A turn of the loop
keeps the first three (`OneTurn`); as every turn that parses takes bytes, the loop has come to rest
after one turn more than there are bytes (`ProcessAnswers`). That the connection ends only on bytes that
are no RESP is `ParseWaits` again: as long as the client's own values last, the buffer has one of
them or a part of one. Replies are values whose texts are lines too (`ReplyIsSpoken`), so the client
decodes them by the same theorems.

`ProgramProofs` proves of `Brc`, for any files of bytes, number of threads, and order in which they
end, with and without overflow checks:

* `AnswerStaysTold`: `BrcSpec => []AnswerIsTold`.

The inductive invariant `BrcInv` is short: a thread that ended has the map of its chunk, and those
that main has joined did not panic. The work is in the data. A cut exists for every chunk and lies
at a line end, in order (`CutsExist`, `CutsAre`), so the chunks put together are the file
(`ChunksCover`). The lines of two texts are the lines of both put together if the first ends with
its line (`TerminatedConcat`), and the map of all rows is the maps of its parts combined
(`TallyConcat`); the code's defaults for minimum and maximum are neutral there because every
temperature lies between them, also one whose digits are none (`RowIs`). Row by row, that map is what `Told` says of the file without going
through it in order (`TallyTells`, `AggregateTells`).

It proves of `Expenses`, for any categories, amounts, length of a month and number of additions:

* `BooksStayKept`: `Mishaps = {} => (ExpensesSpec => []BooksKept)`.

The hypothesis cannot be left out: `expenses_nan` shows one of the mishaps to be fatal, and the two
others garble the file outright. `BooksInv` adds that the list at the prompt is the one on disk and
that no date lies ahead of the clock, which keeps the dates distinct. That the totals of the
categories and of the months add up to the whole is `SumsByKey`: a finite set cut up by any key
sums to what its parts sum to. It rests on an induction over finite sets (`FiniteInduction`), from
which the equation of `FoldFunctionOnSet` follows in any order of the elements.

It proves of `EnvTyped`, for any names, values, types, parsers and defaults, any number of declarations
and any changes of the environment:

* `LoaderKeepsItsWord`: `EnvSpec => []EnvKeepsItsWord`.

Every declaration is first reduced to one of three outcomes (`Outcome`: an error is put down, a
value is put in the bag, nothing happens), tied to what the history of calls says of it. The
invariant then relates the errors to the calls by counting: the error of call `i` is at the place
that the number of complaints up to `i` gives (`Complained`); and the bag to the last call that gives a
name a value (`Kept`), also before the loader is done, which is when the property says nothing.

The assumptions are the named ones of the modules: the tombstone is not a value, `Torn` is not
a record, the bounds are numbers. TLC evaluates them in every run.

Two techniques recur. Where an induction over numbers is needed, it is done by hand: a
counterexample has a least one (`LeastNumber`, from `WFMin`), and its predecessor gives the
contradiction. Where the model uses a recursive function of the community modules (`FlattenSeq`), a
function that satisfies its equation is shown to exist, and the definition picks one that does.

Only model-checked:

* liveness (`ShutdownEnds`, `AcceptedRegardless`, `ScanEnds`, `RequestsAnswered`, `ReportComes`,
  `Answered`, `SignalStops`, `DeadAreReclaimed`), which is out of the prover's reach.

Every invariant of a passing run, both refinements and the action property of `Taskline` are theorems.

## 5. Not modelled

* **State machines** (`02-ownership-types-traits`): the light goes through three states in one
  fixed order and tells its observers in the order they subscribed, the door's transitions are
  methods of its types. A model would restate the match arms.
* **lsmkv's command line**: one call of `Db` per process; the restarts of `Lsm` are what it adds.
* **Generators and benchmarks**: input and timing, no state.
* fsync failures that discard dirty pages.
* Byte formats of frames, tables and snapshot records.
* `PING`, `ECHO`, `COMMAND` in `RudisStore`, which touch no state; `Resp` has their replies.
* Bytes through the proxy; the durations a scan reports; the fields of a log line; the hash table
  and the printing of `brc`; taskline's configuration, OpenAPI document and `/health`; the
  logarithms that size a filter and the statistics `cbloom_get_stats` reports; the descriptions of
  expenses; the text of errors.

### Hazards no property covers

Seen in the code, and outside what the models can tell apart or what a property could ask:

* `wal.rs:43`: the directory entry of a new `wal.log` is never fsynced, so a power loss may take
  the whole log. `Lsm` takes an fsync of a new file to make its name durable.
* `store.rs:173`, `command.rs:163`: `seconds * 1000` and the sum with the clock overflow `u64` for
  lives of more than half a billion years.
* `store.rs:17`: deadlines are compared with the wall clock; set back, it revives an entry that
  was dead and not yet swept. `TtlMap` has no such clock to be compared with.
* `server.rs:148`: a client that sends requests and half-closes gets no replies, because the
  connection is dropped before they are written; `RepliesInOrder` and `Answered` speak of
  connections that stay open.
* `server.rs:112`: a failing accept, register or poll returns from `run` without the snapshot of
  a graceful stop.
* `handlers.rs:130`: `update_task` never calls the `validate()` that exists for its body, so a PATCH
  stores a title that POST refuses, though `validation.rs:9` says "every layer below deals only in
  already-valid data". The run has such a PATCH; no property asks for valid titles, since one step
  refutes it.
* `proxy.rs:60`: an accept error, for which a client that aborts before it is accepted is enough, ends
  the proxy and aborts every transfer, though `proxy.rs:103` says "one bad connection must never
  take the proxy down". `AcceptFails` does that, and `CutOnlyLate` states it as its exception.
* `stats.rs:57`: a latency of NaN parses and panics the report, though `parser.rs:24` says a
  malformed line must never panic the analyser. `SameReport` says that the panic comes alike in every
  mode, and not that there is none.
* `runner.rs:25`: a last row without a line end is dropped, in every mode alike; the baseline
  (`baseline.rs:23`, `.lines()`) counts it. `AnswerIsTold` is about the rows that a line end completes.
* `parse.rs:40`: a digit that is none is counted as a number, where the baseline would panic.
* `handlers.rs:38`: argon2 runs on the runtime's own threads and holds up other requests, and
  their timeouts; `Taskline`'s timers fire in time.
* `bloom.rs:163`: a header whose `num_bits` is not a multiple of 64 is accepted; see
  `WholeForeign` above. `bloom.rs:51`: a false-positive rate at the edge of (0, 1) makes a filter
  of no or absurdly many bits.
* `resp.rs:80`: where `parse` promises an `Err` for bytes that are no RESP, an empty line makes it
  slice `buf[1..0]`, which panics. An array count that no memory can hold
  panics likewise (`resp.rs:127`). `Resp` has that outcome (`panic`, and the link is `dead`), one
  conversation of the run comes to it, and `WireFaithful` does not tell it from a drop.
* `resp.rs:150`, `command.rs:181`: the text of a status or error that has a line end in it is
  encoded as it is and breaks the framing; `resp.rs:112`: the two bytes behind a bulk string are
  skipped whatever they are.
* `expense.rs:54`: `fs::write` empties the file before it writes (`"write"` of `Mishaps`);
  `main.rs:121`: at the end of its input the prompt spins for ever (`InputEnds`).
* `loader.rs:64`, `loader.rs:151`: a value that is not Unicode counts as not set, so that
  `optional_or` silently takes the default.

## 6. Maintenance

The parts that are modelled are complete, and what the prover can reach is proved. A change of the code
starts at its lines in `PROJECT.json`: the definitions that name them, then the runs, then the
proofs of the module, whose lemmas go action by action. Were a hazard of section 5 fixed (an `Err` for an
empty line, a refusal of line ends in a status text), the outcome `panic` and the hypothesis
`PlainSpoken` could go.
