SPECIFICATION Spec
CONSTANTS
    Irqs = {53, 85}
    Pended = {}
    MaxHandlers = 1
    Faults = "none"
    GuestReset = FALSE
INVARIANTS OwnerIsDeliverable
