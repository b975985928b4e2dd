SPECIFICATION Spec
CONSTANTS
    Proc = {p1, p2}
    p1 = p1
    p2 = p2
    Content = {good, bad}
    good = good
    bad = bad
    Partial = partial
    Uri = {primary, backup}
    primary = primary
    backup = backup
    None = none
    Failure = failure
    Uris <- TwoUris
    NoCheck <- CheckAll
    HashFiles <- OneUnlisted
    Served <- AnythingServed
    OldFile = none
    MayFail = {"mktemp -d", "mktemp", "chmod", "cat", "mv", "rm"}
    MaxRuns = 2
    MaxKills = 1
INVARIANTS
    VerifiedAtExit
    DlDirUncluttered
PROPERTIES
    KeepsDecidedFile
CHECK_DEADLOCK FALSE
