SPECIFICATION Spec
CONSTANTS
    Frames = {}
    NoFrame = "none"
    RxRing = 1
    TxRing = 2
    MaxRing = 2
    MaxQueue = 1
    Phy = "phy10m"
    Peer = TRUE
    Tracked = {"T","PHYLINK"}
    Reinit = FALSE
PROPERTIES TxGetsSent LinkAnnounced EventHeard
