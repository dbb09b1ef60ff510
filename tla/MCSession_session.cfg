SPECIFICATION Spec
CONSTANTS
    Sessions <- MCSessions
    Section <- MCSection
    Base <- MCBase
    Glob <- MCGlob
    Link <- MCLink
    Mirrors = {"m1", "m2", "m3"}
    MaxVersion = 2
    MaxFaults = 2
INVARIANTS LastOptionDecides NothingIsLost 
PROPERTIES VerifiedBeforeUse MatchesMetalink
CHECK_DEADLOCK TRUE
