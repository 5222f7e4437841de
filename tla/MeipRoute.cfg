SPECIFICATION Spec
CONSTANTS
    Irqs = {77, 61, 53}
    Pended = {}
    MaxHandlers = 2
    Faults = "thread"
    GuestReset = FALSE
INVARIANTS MeipMatchesOwner VtfMatchesHandlers UsartKeepsSlot NobodyWaitsForFreeSlot
