SPECIFICATION PartsSpec
CONSTANTS
    None = None
    c1 = c1
    c2 = c2
    t1 = t1
    k1 = k1
    k2 = k2
    m1 = m1
    m2 = m2
    p1 = p1
    p2 = p2
    p3 = p3
    w1 = w1
    w2 = w2
    Jobs <- MCJobs
    PageSize = 2
    GapChannel = 1
    SigChannel = 1
    Crawlers = {c1, c2}
    TxWorkers = {t1}
    Keys = {k1, k2}
    Commands <- MCCommands
    Chunk = 1
    Markers = {m1, m2}
    Purgers = {p1, p2}
    Messages = {m1, m2}
    Undecodable = {m2}
    NewWorkers = {w1, w2}
    Starts <- MCStarts
    Batch = 2
    MaxTries = 1
    MaxCrashes = 1
    MaxAckErrors = 1
    Pushers = {p1, p2, p3}
    Connections = 2
    Streams = {"ACC", "TXN"}
    MaxFailures = 2
INVARIANTS
    AckedWasHandled
    BackfillsExactlyMissed
    PurgesExactlyGone
    ConnectionsAccountedFor
PROPERTY
    NothingWaitsForever
