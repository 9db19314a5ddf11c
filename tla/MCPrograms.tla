------------------------------- MODULE MCPrograms -------------------------------
(* Model checking of the programs that keep no database of their own.  One *)
(* of them runs, picked by Init; the others take no step.                  *)
EXTENDS AprobeProxy, AprobeScan, MCTaskline, Logcrunch, Brc, Cbloom, EnvTyped, MCExpenses, Resp

CONSTANT Idle   \* the network of a process that does not scan

(***************************************************************************)
(* Instances.                                                              *)
(***************************************************************************)
R(lo, hi) == [lo |-> lo, hi |-> hi]

\* Repeated, overlapping, descending and refused port lists.
Lists == {<<R(1, 3)>>, <<R(2, 3), R(1, 2)>>, <<R(3, 3), R(1, 1), R(3, 3)>>, <<R(2, 2), R(3, 1)>>}

CONSTANT MaxLen

\* Every log of up to MaxLen bytes.
ShortLogs == UNION {[1 .. n -> Bytes \cup {Newline}] : n \in 0 .. MaxLen}

\* Up to three rows of a and b with 0.5 and -1.2; the same without the last line end; and
\* around an empty row and the rows "a", "a;12", ";9.9", "b;;0.1" and "a;-/x.0".
Half == <<48, Dot, 53>>
Cold == <<Dash, 49, Dot, 50>>
Row == {<<s, Semicolon>> \o t \o <<Eol>> : s \in {97, 98}, t \in {Half, Cold}}
Rows == {FlattenSeq(r) : r \in UNION {[1 .. n -> Row] : n \in 0 .. 3}}
Strange == {<<>>, <<97>>, <<97, Semicolon, 49, 50>>, <<Semicolon, 57, Dot, 57>>,
            <<98, Semicolon, Semicolon, 48, Dot, 49>>, <<97, Semicolon, Dash, 47, 120, Dot, 48>>}
Measurements ==
    Rows \cup {Front(r) : r \in Rows \ {<<>>}}
    \cup {r \o o \o <<Eol>> \o r : r \in Row, o \in Strange}

\* Hashes modulo 16: an even second hash, and one that is odd.
Hash1 == [x \in Items |-> IF x = 1 THEN 3 ELSE 14]
Hash2 == [x \in Items |-> IF x = 1 THEN 6 ELSE 5]
Computed == {[bits |-> 0, hashes |-> 0], [bits |-> 12, hashes |-> 4]}

TypeLiterals == [u16    |-> ("1" :> "1u16"),
                 bool   |-> ("1" :> "TRUE" @@ "true" :> "TRUE"),
                 String |-> [r \in Raws |-> r]]
TypeDefaults == [u16 |-> "8080u16", bool |-> "FALSE", String |-> "info"]

Characters == STRING

\* Requests whole and refused, values that are no requests, bytes that are no RESP.
Bulks(args) == Value("array", [i \in DOMAIN args |-> Value("bulk", args[i])])
Says(vs, tail) == [values |-> vs, junk |-> tail]
Talks ==
    {Says(<<Bulks(<<<<"PING">>>>), Bulks(<<<<"ECHO">>, <<CR, LF>>>>)>>, <<>>),
     Says(<<Value("array", <<Value("int", <<-12>>), Value("array", <<Null>>)>>),
            Bulks(<<<<"GET">>, <<>>>>)>>, <<"x", CR, LF>>),
     Says(<<Value("array", <<>>), Bulks(<<<<"x">>>>),
            Bulks(<<<<"SET">>, <<"x">>, <<"x">>, <<"EX">>, <<"1">>>>)>>,
          <<"*", "1", CR, LF, ":", "x", CR, LF>>),
     Says(<<Bulks(<<<<"COMMAND">>, <<"x">>>>), Bulks(<<<<"DEL">>>>), Bulks(<<<<"TTL">>, <<NotUtf8>>>>)>>,
          <<"+", NotUtf8, CR, LF>>),
     Says(<<Value("simple", <<"x">>), Value("bulk", <<"$", "1", CR>>), Value("error", <<>>)>>,
          <<"$", "x", CR, LF>>),
     Says(<<Value("int", <<99>>)>>, <<":", "1", "0", "0", CR, LF>>),
     Says(<<Value("error", <<"x">>)>>, <<"*", "9", CR, LF>>)}

\* Nobody sends a line end within a line, or a name with one.
ASSUME TalksArePlain == PlainSpoken

(***************************************************************************)
(* Programs that do not run.                                               *)
(***************************************************************************)
NoProxy ==
    /\ phase = "returned" /\ arm = "check" /\ seen = 0 /\ version = MaxTriggers /\ elapsed = 0
    /\ conn = [c \in Conns |-> "reset"] /\ half = {}

NoScan ==
    /\ step = "refused" /\ spec = <<>> /\ target = <<>> /\ net = Idle /\ next = 1 /\ permits = Width
    /\ probing = {} /\ finished = <<>> /\ outcomes = <<>>

NoTaskline ==
    /\ users = {} /\ tasks = {} /\ tokens = {} /\ server = "stopped"
    /\ call = [r \in Requests |-> NoCall]

NoCrunch ==
    /\ mode = "seq" /\ data = <<>> /\ threads = 1 /\ todo = <<>> /\ batch = <<>> /\ txOpen = FALSE
    /\ chan = <<>> /\ local = <<>> /\ ended = {} /\ parts = <<>> /\ joined = 0 /\ acc = NoStats
    /\ report = Report(NoStats)

NoBrc ==
    /\ mapped = <<>> /\ workers = 1 /\ partial = <<>> /\ joins = 0 /\ answer = Aggregate(<<>>)

NoEnv ==
    /\ environ = [n \in VarNames |-> Absent] /\ changes = 0 /\ values = << >>
    /\ problems = <<>> /\ calls = <<>> /\ stage = "env"

NoResp ==
    /\ talk = Says(<<>>, <<>>) /\ coming = <<>> /\ rbuf = <<>> /\ wbuf = <<>> /\ inbox = <<>>
    /\ served = <<>> /\ link = "open"

VARIABLE program    \* the one that runs

Programs == {"proxy", "scan", "taskline", "logcrunch", "brc", "cbloom", "expenses", "envtyped", "resp"}

Init ==
    /\ program \in Programs
    /\ IF program = "proxy" THEN ProxyInit ELSE NoProxy
    /\ IF program = "scan" THEN ScanInit ELSE NoScan
    /\ IF program = "taskline" THEN TasklineInit ELSE NoTaskline
    /\ IF program = "logcrunch" THEN CrunchInit ELSE NoCrunch
    /\ IF program = "brc" THEN BrcInit ELSE NoBrc
    /\ IF program = "envtyped" THEN EnvInit ELSE NoEnv
    /\ IF program = "resp" THEN RespInit ELSE NoResp
    /\ CbloomInit /\ ExpensesInit

\* What does not belong to program p stays.
Others(p) ==
    /\ UNCHANGED program /\ program = p
    /\ IF p = "proxy" THEN TRUE ELSE UNCHANGED proxyVars
    /\ IF p = "scan" THEN TRUE ELSE UNCHANGED scanVars
    /\ IF p = "taskline" THEN TRUE ELSE UNCHANGED tlVars
    /\ IF p = "logcrunch" THEN TRUE ELSE UNCHANGED crunchVars
    /\ IF p = "brc" THEN TRUE ELSE UNCHANGED brcVars
    /\ IF p = "cbloom" THEN TRUE ELSE UNCHANGED cbVars
    /\ IF p = "expenses" THEN TRUE ELSE UNCHANGED expVars
    /\ IF p = "envtyped" THEN TRUE ELSE UNCHANGED envVars
    /\ IF p = "resp" THEN TRUE ELSE UNCHANGED respVars

Next ==
    \/ Others("proxy") /\ ProxyNext
    \/ Others("scan") /\ ScanNext
    \/ Others("taskline") /\ TasklineNext
    \/ Others("logcrunch") /\ CrunchNext
    \/ Others("brc") /\ BrcNext
    \/ Others("cbloom") /\ CbloomNext
    \/ Others("expenses") /\ ExpensesNext
    \/ Others("envtyped") /\ EnvNext
    \/ Others("resp") /\ RespNext

allVars ==
    <<program, proxyVars, scanVars, tlVars, crunchVars, brcVars, cbVars, expVars, envVars, respVars>>

Spec ==
    /\ Init /\ [][Next]_allVars
    /\ ProxyFairness /\ ScanFairness /\ TasklineFairness /\ CrunchFairness
===============================================================================
