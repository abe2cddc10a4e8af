SPECIFICATION Spec
CONSTANTS
    w1 = w1
    w2 = w2
    continent = continent
    dungeon = dungeon
    i1 = i1
    i2 = i2
    Lfg = Lfg
    NoRequest = NoRequest
    Workers = {w1, w2}
    BaseMaps <- MCBaseMaps
    Instances <- MCInstances
    Parent <- MCParent
    UpdateStep <- MCUpdateStep
INVARIANTS
    PendingMatches
    MainExclusive
    NoConcurrentUpdate
    NoDeadMap
    NoNullCall
PROPERTIES
    FrameCompletes
    WorkersJoined
    ImplementsFrame
