SPECIFICATION FairSpec
CONSTANTS
    Proc = {p1, p2}
    p1 = p1
    p2 = p2
    Content = {good, bad}
    good = good
    bad = bad
    Partial = partial
    Uri = {primary, backup}
    primary = primary
    backup = backup
    None = none
    Failure = failure
    Uris <- TwoUris
    NoCheck <- CheckAll
    HashFiles <- SamePinned
    Served <- BackupReliable
    OldFile = bad
    MayFail = {"ln", "cp"}
    MaxRuns = 2
    MaxKills = 1
INVARIANTS
    TypeOK
    UsedIsVerified
PROPERTIES
    Answered
    MirrorSaves
    CacheSpec
CHECK_DEADLOCK FALSE
