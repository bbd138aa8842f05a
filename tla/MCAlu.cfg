SPECIFICATION Spec
CONSTANTS
    H = 8
    Regs = {0, 1}
PROPERTY BorrowIsKept
