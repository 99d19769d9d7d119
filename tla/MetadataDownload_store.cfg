SPECIFICATION FairSpec
CONSTANTS
    w1 = w1
    w2 = w2
    Assets = {1, 2}
    Urls <- MCUrls
    Gateway = "gateway"
    PublicGateways = {"pinata"}
    PrivateHosts = {"127.0.0.1"}
    RewritePublic = TRUE
    Workers = {w1}
    QueueSize = 1
    PerHost = 1
    MaxAttempts = 1
    RedriveBatch = 1
    MaxWrites = 2
    MaxCrashes = 1
    None = None
    Processing = Processing
    InvalidUri = InvalidUri
    GaveUp = GaveUp
INVARIANT OneJobPerPendingAsset
PROPERTIES KeepsDocumentPromise OwedIsSettled
