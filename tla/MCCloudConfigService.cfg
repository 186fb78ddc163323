SPECIFICATION Spec
CONSTANTS
    Documents <- MCNetworkExample
    EventsOf <- Stream
    Yaml <- MCNetworkYaml
    Level <- MCNetworkLevel
    FileName = "file"
    NULL = NULL
    TrueTexts = {"true", "1"}
    FalseTexts = {"false", "0"}
    DefaultUser = "clear"
INVARIANTS
    ServicesActedOn
