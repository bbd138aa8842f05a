SPECIFICATION Spec
CONSTANTS
    Processes = {a, b}
    Songs = {1, 2}
    Times <- MCTimes
    Options = {x, y}
    None = None
    Calls <- MCCalls
INVARIANTS
    TypeOK
    EntriesAreReal
    SavedIsThere
    OwnTimeIsFound
    OptionIsKept
PROPERTIES
    CallsReturn
CHECK_DEADLOCK FALSE
