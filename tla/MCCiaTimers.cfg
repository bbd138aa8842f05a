SPECIFICATION Spec
CONSTANTS
    Chips = {a}
    DIV10 = 2
    Byte = 2
    IntMod = 1024
    LinePeriod = 2
    MaxIdle = 2
    Programmed <- OnlyA
    Onces <- OneShotB
    Masks <- Both
INVARIANTS
    TempoIsExact
    EventInTime
PROPERTIES
    UnderflowInterrupts
