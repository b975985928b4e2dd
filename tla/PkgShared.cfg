CONSTANTS
    app = app
    lib = lib
    Pkg = {app, lib}
    Order <- Sorted
    Override = {app}
    HasPatches = {lib}
    Installs <- TargetOnly
    Needs <- AppNeedsLib
    PerPackage = FALSE
    Jobs = 2
    GoalLines <- Serially
    MaxEdits = 1
    MaxFaults = 1
    None = None
    Torn = Torn
SPECIFICATION FairSpec
INVARIANTS
    ImageHasEdit
PROPERTIES
    Converges
