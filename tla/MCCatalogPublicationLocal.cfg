SPECIFICATION FairSpec
CONSTANTS
    Managers = {g1}
    Calls = {c1, c2}
    k1 = k1
    Keys = {k1, k2}
    Objects = {1, 2, 3, 4}
    Ids = {1, 2, 3, 4}
    Grace = 1
    RequestTimeout = 1
    UrlTtl = 3
    RetainTtl = 3
    MaxTime = 4
    MaxCached = 1
    Durable = FALSE
    Foreign <- MCForeign
    NoManifest = NoManifest
    NoCall = NoCall
    NoManager = NoManager
PROPERTY
    CallsEnd
CHECK_DEADLOCK FALSE
