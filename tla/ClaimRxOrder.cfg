SPECIFICATION Spec
CONSTANTS
    Frames = {"f1", "f2"}
    NoFrame = "none"
    RxRing = 3
    TxRing = 1
    MaxRing = 4
    MaxQueue = 1
    Phy = "ch182"
    Peer = TRUE
    Tracked = {}
    Reinit = FALSE
PROPERTIES ImplementsLossyQueue
