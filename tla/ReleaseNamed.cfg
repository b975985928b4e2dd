SPECIFICATION Spec
CONSTANTS
    i1 = i1
    i2 = i2
    k1 = k1
    k2 = k2
    None = none
    Torn = torn
    SignedImage = "sdcard.img"
    Image = {i1, i2}
    Key = {k1, k2}
    Oversized = {}
    EnforceEnv = {"unset", "0"}
    MaxFaults = 0
    MaxFlashes = 1
    MaxScripts = 2
    MaxDeploys = 0
    Sha256sumMayFail = FALSE
INVARIANTS
    ReleaseBoots
CHECK_DEADLOCK FALSE
