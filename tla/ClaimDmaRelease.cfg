SPECIFICATION Spec
CONSTANTS
    Irqs = {27, 53}
    Pended = {}
    MaxHandlers = 1
    Faults = "none"
    GuestReset = FALSE
INVARIANTS ReleaseServesWaiters
