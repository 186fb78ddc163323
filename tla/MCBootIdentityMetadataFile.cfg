SPECIFICATION Spec
CONSTANTS
    Modes = {"metadata_file"}
    MaxBoot = 2
    MaxInstance = 2
    MaxRuns = 1
    MaxFaults = 0
    Absent = Absent
    Empty = Empty
    Nobody = Nobody
INVARIANTS
    InstanceIdFirst
