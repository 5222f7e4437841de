SPECIFICATION DmaSpec
CONSTANTS
    DmaUsed = {15}
    DmaCount = 1
INVARIANTS DmaTransferEnds
