SPECIFICATION Spec
CONSTANTS
    Irqs = {16}
    Pended = {16}
    MaxHandlers = 1
    Faults = "none"
    GuestReset = FALSE
PROPERTIES MretEndsItsOwnIrq
