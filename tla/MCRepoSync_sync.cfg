SPECIFICATION Spec
CONSTANTS
    Order <- MCOrder
    RepoOf <- Repo
    Rank <- MCRank
    Version <- MCVersion
    Arch <- MCArch
    Signed = {"a1", "a2", "c1"}
    GpgRepos = {"main"}
    Arguments <- MCArguments
    FirstTree <- MCFirstTree
    MaxFaults = 2
 
PROPERTIES FreshIsKept 
CHECK_DEADLOCK TRUE
