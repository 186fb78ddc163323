SPECIFICATION FairSpec
CONSTANTS
    Providers <- MCProviders
    Responses <- MCResponses
    LineMax = 3
    SizeMax = 7
    ResolveTries = 1
    FirstTries = 2
    LaterTries = 1
    MaxBoot = 2
    MaxCrashes = 1
    Absent = Absent
INVARIANTS
    TypeOK
    UcdGetsEverything
    OnlyWholeSectionsStay
PROPERTIES
    ExecutedOnce
    FetchEnds
