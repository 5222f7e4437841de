SPECIFICATION BusSpec
CONSTANTS
    BusSizes = {0, 4092, 4096, 16777216, 16777220}
INVARIANTS AfioAnswers
CHECK_DEADLOCK FALSE
