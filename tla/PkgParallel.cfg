CONSTANTS
    app = app
    lib = lib
    Pkg = {app, lib}
    Order <- Sorted
    Override = {app}
    HasPatches = {lib}
    Installs <- LibForApp
    Needs <- AppNeedsLib
    PerPackage = TRUE
    Jobs = 2
    GoalLines <- InParallel
    MaxEdits = 0
    MaxFaults = 1
    None = None
    Torn = Torn
SPECIFICATION Spec
INVARIANTS
    SoundStamps
    DepsWhole
PROPERTIES
    KeepsConfiguration
