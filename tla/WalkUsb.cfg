SPECIFICATION HandlerSpec
CONSTANTS
    Irqs = {27, 85}
    Pended = {}
    MaxHandlers = 1
    Faults = "none"
    GuestReset = FALSE
PROPERTIES ImplementsMeipSlot
