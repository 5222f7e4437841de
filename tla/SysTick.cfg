SPECIFICATION Spec
CONSTANTS
    Second = 20
    Hclks = {8, 17}
    Hsi = 8
    Half = 3
    Horizon = 6
INVARIANTS ArmedWhileRunning RingsNearWrap MtipHasFlag
PROPERTIES TickMovesOn
