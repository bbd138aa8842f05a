SPECIFICATION Spec
CONSTANTS
    Chips = {a}
    DIV10 = 2
    Byte = 2
    IntMod = 16
    LinePeriod = 3
    MaxIdle = 2
    Programmed <- OnlyA
    Onces <- NoOneShot
    Masks = {}
INVARIANT UpdateAssertHolds
