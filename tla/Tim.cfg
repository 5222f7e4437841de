SPECIFICATION Spec
CONSTANTS
    Second = 4
    Clks = {2, 3}
    ResetClk = 3
    Limit = 2
    Word = 16
    Horizon = 3
INVARIANTS ArmedWhileCounting RingsAtNextOverflow
PROPERTIES TickMovesOn
