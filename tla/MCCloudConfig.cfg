SPECIFICATION Spec
CONSTANTS
    Documents <- MCDocuments
    EventsOf <- Stream
    Yaml <- MCYaml
    Level <- MCLevel
    FileName = "file"
    NULL = NULL
    TrueTexts = {"true", "1"}
    FalseTexts = {"false", "0"}
    DefaultUser = "clear"
INVARIANTS
    TypeOK
    ScalarsKept
    SimplifiedTree
    BlocksAsWritten
    EveryItemHandled
    KeysGoToFirstUser
    NetworkAsTold
    WaitsAsTold
