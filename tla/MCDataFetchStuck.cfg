SPECIFICATION Spec
CONSTANTS
    Providers <- MCProviders
    Responses <- MCResponses
    LineMax = 3
    SizeMax = 7
    ResolveTries = 1
    FirstTries = 1
    LaterTries = 1
    MaxBoot = 2
    MaxCrashes = 0
    Absent = Absent
INVARIANTS
    FileMeansExecuted
