SPECIFICATION Spec
CONSTANTS
    Modes = {"datasource", "metadata_file"}
    MaxBoot = 3
    MaxInstance = 2
    MaxRuns = 2
    MaxFaults = 2
    Absent = Absent
    Empty = Empty
    Nobody = Nobody
INVARIANTS
    TypeOK
    FirstBootOncePerInstance
    SameBootSameAnswer
    InstanceIdFirstInService
    InstanceSetUpUnlessKilled
    RecordTruthfulUnlessKilled
    UserDataOnce
PROPERTIES
    NoReprocessing
