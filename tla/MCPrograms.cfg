\* Each program on its own small instance.
CONSTANTS
    \* aprobe: three connections and two triggers; three ports, two probes at a time
    Conns = {c1, c2, c3}
    DrainTimeout = 2
    MaxTriggers = 2
    Ports = {1, 2, 3}
    Specs <- Lists
    Concurrency = 2
    Prompt = Prompt
    Refusing = Refusing
    Silent = Silent
    Slow = Slow
    Idle = Idle
    \* taskline: three requests of two clients on two connections
    ann = ann
    bob = bob
    ae = ae
    be = be
    ce = ce
    title = title
    blank = blank
    NotGiven = NotGiven
    Clients = {ann, bob}
    Emails = {ae, be, ce}
    Titles = {title, blank}
    ValidTitles = {title}
    Queries <- Asked
    Databases <- Populated
    MaxConnections = 2
    MaxRequests = 3
    MaxFaults = 1
    \* logcrunch: logs of up to five bytes, batches of two lines
    Bytes = {1, 2}
    Newline = Newline
    NaNs = {2}
    Logs <- ShortLogs
    MaxLen = 5
    Threads = {1, 2, 3}
    BATCH = 2
    Cap = 1
    Pieces = 3
    Nil = Nil
    Panic = Panic
    \* brc: up to three rows, zero to four threads, a release build
    Files <- Measurements
    BrcThreads = {0, 2, 3, 4}
    OverflowChecks = FALSE
    Unset = Unset
    Panicked = Panicked
    \* cbloom: two items, three addresses, a foreign header
    Items = {1, 2}
    H1 <- Hash1
    H2 <- Hash2
    U = 16
    W = 4
    Sizes <- Computed
    Pointers = {p1, p2, p3}
    MaxAdditions = 2
    ForeignBits = {4}
    \* expense tracker: three expenses
    Categories = {food, rent}
    Amounts = {1, 2}
    NaN = NaN
    MonthLength = 2
    MaxAdds = 3
    Mishaps = {}
    \* envtyped: two declarations and a change in between
    VarNames = {"PORT"}
    BadNames = {"port"}
    Raws = {"1", "true", "70000"}
    Types = {"u16", "bool", "String"}
    Literal <- TypeLiterals
    Defaults <- TypeDefaults
    Absent = Absent
    MaxDeclared = 2
    MaxChanges = 1
    \* resp: streams cut anywhere
    Byte <- Characters
    Conversations <- Talks
    I64Max = 99
    MaxItems = 8
    MaxDepth = 2
    MaxPiece = 4
SPECIFICATION Spec
INVARIANTS
    ProxyTypeOK CutOnlyLate PortsOnceInOrder InFlightBounded SameAsSequential
    TasklineTypeOK TokensEarned RepliesTrue
    CrunchTypeOK LinesConserved SameReport ChunksAreLines
    AnswerIsTold HeldIsLive Faithful ProbesDiffer BooksKept EnvKeepsItsWord WireFaithful
PROPERTIES
    ShutdownEnds AcceptedRegardless ScanEnds OwnerScoped RequestsAnswered ReportComes
CHECK_DEADLOCK FALSE
