SPECIFICATION BoardSpec
CONSTANTS
    FlashSectors = 3
    FlashBlock = 2
    FlashLastBit = 1
    FlashWords = {{"LOCK"}, {}, {"OPTWRE"}, {"STRT","PER"}, {"STRT","BER32"}, {"STRT","PER","PAGE_ER"}, {"STRT","PAGE_ER"}, {"STRT","MER","PER"}, {"STRT","OPTER","BER32"}, {"LOCK","STRT","MER"}, {"PG_STRT"}, {"STRT"}}
    DogPrescalers = {0, 1}
    DogReloads = {0, 1}
    RtcBase = 2
    HsiHz = 16
    HseHz = 12
    RccHpres = {0, 8}
    RccPpres = {0, 4}
    RccMuls = {0, 15}
    PinSet = {1, 2}
    CrcWidth = 3
    CrcPoly = {0, 1}
    RngCap = 1
    SdioCommands = {0, 8}
    UsbSent = {"SETUP"}
    Eth10mQueue = 2
    DmaUsed = {16}
    DmaCount = 1
    LiteDepth = 3
    LiteBytes = {0, 1}
    PhyRegs = {17}
    PlainBytes = {0, 1}
    PlainTim = {"CTLR2", "CCER", "RPTCR"}
    PlainChannels = {3}
    PlainSctlr = {"SEVONPEND", "SYSRST"}
    BusSizes = {0, 4092, 4096, 16777216, 16777220}
    BootFlash = 2
    BootBase = 16
    BootJump = 1
    BootBadJump = 1
    HartBanks = 1
    HartNest = 2
    HartValues = {0, 1}
    HartUser = TRUE
    HartRegions = {1}
    HartRules = {{}, {"rule","read"}}
    IsaUsed = {"V4F", "V4A", "V4B", "V4C", "V4J", "V3A", "V3B", "V3C", "V3F", "V3V", "V2A", "V2C", "V5F"}
    IsaRegs = {0, 7}
    McpySize = 3
    McpyBytes = {0, 1}
INVARIANTS DogWatches RccTimersKnowClock UsbRequestKept UsbDeviceAnnounced Eth10mFrameTold Eth10mLinkInTime MapDevicesAnswer BootStartsInImage LiteRingIsQueue HartBooksMatch IsaRunsWhatWasWritten
PROPERTIES FlashProtects DogBites McpyCopiesOnce
CHECK_DEADLOCK FALSE
