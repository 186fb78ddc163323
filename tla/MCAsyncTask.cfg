SPECIFICATION FairSpec
CONSTANTS
    Tasks = {t1, t2, t3}
    Commands = {c1, c2, c3}
    NProcs = 2
    GuintMax = 5
    Main = Main
    None = None
INVARIANTS
    TypeOK
    CounterExact
    CallbackAlone
    JoinComplete
PROPERTIES
    JoinReturns
    ImplementsJoin
