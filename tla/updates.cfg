\* Two trackers on one socket; the gains of each are set by one thread.
CONSTANTS
    old = old
    new = new
    Value <- MCValue
    None = None
    CRITICAL = CRITICAL
    CRITICAL_DAMPING = CRITICAL_DAMPING
    s1 = s1
    s2 = s2
    Session <- MCSession
    Rpc = Rpc
    InitialGains <- MCInitialGains
    AsksOf <- MCAsksOf
    MaxReferences = 2
    OneGainWriter = TRUE
    NoRequest = NoRequest
    NoReference = NoReference
    NoUpdate = NoUpdate
SPECIFICATION FairSpec
INVARIANT
    TypeOK
PROPERTIES
    ReferencesKeepLatest
    RetunesAsAsked
    StoppedIsQuiet
    LatestArrives
