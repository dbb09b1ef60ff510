SPECIFICATION Spec
CONSTANTS
    Sessions <- MCSessions
    Section <- MCSection
    Base <- MCBase
    Glob <- MCGlob
    Link <- MCLink
    Mirrors = {"m1", "m2", "m3"}
    MaxVersion = 2
    MaxFaults = 1
PROPERTIES HashChecked
CHECK_DEADLOCK TRUE
