SPECIFICATION Spec
CONSTANTS
    Order <- MCOrderLast
    RepoOf <- Repo
    Rank <- MCRank
    Version <- MCVersion
    Arch <- MCArch
    Signed = {"a1", "a2", "c1"}
    GpgRepos = {"main"}
    Arguments <- MCNewest
    FirstTree <- MCFirstTree
    MaxFaults = 0
INVARIANT TouchesNewest
CHECK_DEADLOCK TRUE
