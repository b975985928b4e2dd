SPECIFICATION Spec
CONSTANTS
    Proc = {p1, p2}
    p1 = p1
    p2 = p2
    Content = {good, bad}
    good = good
    bad = bad
    Partial = partial
    Uri = {primary, backup}
    primary = primary
    backup = backup
    None = none
    Failure = failure
    Uris <- TwoUris
    NoCheck <- CheckAll
    HashFiles <- AllUnhashed
    Served <- OnlyGood
    OldFile = good
    MayFail = {"ln", "cp"}
    MaxRuns = 1
    MaxKills = 0
INVARIANTS
    FallsBackToDownload
CHECK_DEADLOCK FALSE
