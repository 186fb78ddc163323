SPECIFICATION Spec
CONSTANTS
    Documents <- MCDocumentsOneKey
    UserCalls <- MCUserCallsOne
    Keys <- MCKeys
    Demands <- MCDemandsOneKey
    Starts <- MCStartsAbsent
    Absent = Absent
    NULL = NULL
    Json <- MCJsonOneKey
    Depth <- MCDepthOneKey
INVARIANTS
    KeysDelivered
