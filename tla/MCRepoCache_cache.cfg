CONSTANTS
    root = root
    user = user
    primary = primary
    updateinfo = updateinfo
    Procs = {root, user}
    Root <- Privileged
    Parts = {primary, updateinfo}
    NMirrors = 2
    MaxVersion = 2
    ZeroCookies = {2}
    MaxAge = 1
    Confs <- Sources
    Faults = {"net", "io", "crash"}
    MaxFaults = 1
    Cleans = {"metadata", "expire", "all"}
SPECIFICATION Spec
INVARIANTS TypeOK LoadsOneVersion SolvHonest MarkerHonest RefreshIsCurrent FailsOnce CacheSuffices
