SPECIFICATION SincSpec
CONSTANTS
    Length = 4
    MaxAge = 8
    Half = 14
    MinGap = 2
    Outputs = {0, 1}
    Turns = {0, 1, 2, 3}
INVARIANT
    AgesInTable
