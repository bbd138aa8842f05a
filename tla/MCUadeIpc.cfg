SPECIFICATION IpcSpec
CONSTANTS
    tok = tok
    short = short
    long = long
    None = None
    Msg <- MCMsg
    Token = tok
    WithBody <- MCWithBody
    PipeCapacity = 4
INVARIANTS
    ExactlyOneTurn
    HalfDuplex
    Framed
PROPERTY
    TurnsRefined
CHECK_DEADLOCK FALSE
