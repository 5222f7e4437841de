SPECIFICATION Spec
CONSTANTS
    Irqs = {27, 85}
    Pended = {2}
    MaxHandlers = 1
    Faults = "none"
    GuestReset = TRUE
INVARIANTS OwnerAsks
PROPERTIES OwnerNeverPreempted
