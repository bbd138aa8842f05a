SPECIFICATION Spec
CONSTANTS
    Songs <- MCSongs
    Options <- MCOptions
    ReadSizes <- MCReadSizes
    SkipLimit = 2
    InstrPerFrame = 2
    PipeCapacity = 4
    None = None
INVARIANTS
    TypeOK
    CoreNeverFaults
    AnswerIsExact
    RepliesAreCurrent
    OptionsInForce
PROPERTIES
    UsesIpcCorrectly
    RequestIsAnswered
    NoOrphanCore
CHECK_DEADLOCK FALSE
