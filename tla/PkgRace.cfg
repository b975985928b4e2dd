CONSTANTS
    app = app
    lib = lib
    Pkg = {app, lib}
    Order <- Sorted
    Override = {app}
    HasPatches = {lib}
    Installs <- LibForApp
    Needs <- AppNeedsLib
    PerPackage = TRUE
    Jobs = 2
    GoalLines <- RebuildAll
    MaxEdits = 1
    MaxFaults = 0
    None = None
    Torn = Torn
SPECIFICATION Spec
INVARIANT
    ImageHasEdit
