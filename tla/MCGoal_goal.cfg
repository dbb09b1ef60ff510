SPECIFICATION Spec
CONSTANTS
    Ids <- MCIds
    Name <- MCName
    Version <- MCVersion
    Requires <- MCRequires
    Obsoletes <- MCObsoletes
    Available <- MCAvailable
    InstallOnly = {"kernel"}
    InstallOnlyLimit = 1
    Protected = {"base"}
    Locks = {"pin"}
    MinVersion <- MCMinVersion
    CleanRequirements = TRUE
    FirstInstalled <- MCFirstInstalled
    FirstAuto <- MCFirstAuto
    Specs <- MCSpecs
    Filters <- MCFilters
    Advisories <- MCAdvisories
    Options <- MCOptions
    MaxArguments = 2
INVARIANTS TypeOK ProtectedStay LimitKept UserStays   AdvisedIsClosed ListsAgree
CHECK_DEADLOCK TRUE
