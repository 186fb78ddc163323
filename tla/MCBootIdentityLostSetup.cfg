SPECIFICATION Spec
CONSTANTS
    Modes = {"datasource"}
    MaxBoot = 3
    MaxInstance = 2
    MaxRuns = 2
    MaxFaults = 1
    Absent = Absent
    Empty = Empty
    Nobody = Nobody
INVARIANTS
    InstanceSetUp
