CONSTANTS
    a = a
    b = b
    s = s
    k1 = k1
    k2 = k2
    signed = signed
    plain = plain
    Pkgs = {a, b, s}
    Keys = {k1, k2}
    Repos = {signed, plain}
    RepoOf <- RepoOfPkgs
    KeyOf <- KeyOfPkgs
    Summed <- WithChecksum
    Sources <- SourcePkgs
    NUrls = 2
    NRetries = 1
    Confs <- Configurations
    Jobs <- JobList
    Opts <- Options
    Faults = {"net", "damage", "rpm", "io", "crash"}
    MaxFaults = 2
SPECIFICATION Spec
INVARIANTS StrictIsVerified SummedIsGood  NothingLeft
