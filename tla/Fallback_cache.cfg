SPECIFICATION FairSpec
CONSTANTS
    r1 = r1
    r2 = r2
    r3 = r3
    Requests = {r1, r2}
    MaxVersion = 3
    Opaque = {2}
    TTL = 2
    Timeout = 2
    StoreTime = 1
    DbErrors = TRUE
    None = None
INVARIANTS
    AnswerIsRecent
    LocalWins
PROPERTY
    CallIsAnswered
