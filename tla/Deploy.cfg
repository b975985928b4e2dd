SPECIFICATION FairSpec
CONSTANTS
    i1 = i1
    i2 = i2
    k1 = k1
    k2 = k2
    None = none
    Torn = torn
    SignedImage = "zImage"
    Image = {i1, i2}
    Key = {k1}
    Oversized = {i2}
    EnforceEnv = {"unset", "1"}
    MaxFaults = 1
    MaxFlashes = 1
    MaxScripts = 1
    MaxDeploys = 1
    Sha256sumMayFail = FALSE
PROPERTIES
    AuthenticBoot
    SealedStays
    SealedBoots
CHECK_DEADLOCK FALSE
