SPECIFICATION Spec
CONSTANTS
    Documents <- MCDocuments
    UserCalls <- MCUserCalls
    Keys <- MCKeys
    Demands <- MCDemands
    Starts <- MCStarts
    Absent = Absent
    NULL = NULL
    Json <- MCJson
    Depth <- MCDepth
INVARIANTS
    KeysDeliveredToFile
    NoDuplicates
    MetadataCarriedOut
PROPERTIES
    KeysKept
