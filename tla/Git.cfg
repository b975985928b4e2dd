SPECIFICATION Spec
CONSTANTS
    Commit = {c1, c2}
    c1 = c1
    c2 = c2
    tag = tag
    light = light
    pull = pull
    Annotated = {tag}
    Lightweight = {light}
    Special = {pull}
    Before <- History
    WithSubmodule = {c1}
    MayFail <- AnyStep
    Requests <- AnyRequest
    None = none
    Garbage = garbage
    Today = today
    MaxNames = 1
    MaxRuns = 2
    MaxMoves = 1
    MaxMishaps = 1
INVARIANTS
    TypeOK
    ArchivesChangeset
    ArchiveReproducible
    MissingIsMissing
    Recovers
PROPERTIES
    Terminates
CHECK_DEADLOCK FALSE
