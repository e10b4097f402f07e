CONSTANTS
    Cap = 3
    Writers = {w1, w2}
    Lengths = {2, 4}
    LogClients = {l1}
    EventClients = {e1}
    ChanSize = 1
    QueueLimit = 1
    MaxChunks = 3
    MaxStreams = 1
    None = None
SPECIFICATION LogFairSpec
INVARIANTS HistoryIsTheTail NothingGoesPast
PROPERTIES WritesReturn StreamsEnd
CHECK_DEADLOCK FALSE
