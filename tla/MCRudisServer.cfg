\* Two connections at a time, requests in two pieces, a send buffer of one reply.
CONSTANTS
    c1 = c1
    c2 = c2
    Clients <- TwoClients
    LastToken = 2
    Listener = Listener
    Signals = Signals
    Parts = 2
    SendCap = 1
    Requests <- TwoAndOne
    FirstToken = 2
    MaxLive = 2
SPECIFICATION Spec
INVARIANTS TypeOK RepliesInOrder NoLostWakeup OneTokenEach
PROPERTIES Answered SignalStops
CHECK_DEADLOCK FALSE
