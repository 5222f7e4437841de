SPECIFICATION Spec
CONSTANTS
    Second = 4
    Clks = {2, 3}
    ResetClk = 3
    Limit = 3
    Word = 16
    Horizon = 5
INVARIANTS ArmsNextUpdate
