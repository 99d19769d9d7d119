SPECIFICATION MCSpec
CONSTANTS
    MaxDisturbances = 1
    u1 = u1
    u2 = u2
    r1 = r1
    r2 = r2
    Assets = {1}
    Empty = Empty
    Urls = {u1, u2, Empty}
    BadUrls = {u2, Empty}
    Trim <- MCTrimPadded
    MaxAttempts = 1
    Batch = 2
    PageSize = 1
    ProcessNow = TRUE
    Runs = {r1, r2}
    MaxWrites = 3
    MaxDisturbedWrites = 2
    Faults = TRUE
    Tools = {"reindex", "delete", "create"}
    None = None
    Processing = Processing
    InvalidUri = InvalidUri
    GaveUp = GaveUp
PROPERTIES KeepsDocumentPromise UndisturbedOwedIsAccountedFor
CHECK_DEADLOCK FALSE
