SPECIFICATION Spec
CONSTANTS
    Irqs = {77}
    Pended = {}
    MaxHandlers = 1
    Faults = "none"
    GuestReset = FALSE
INVARIANTS EthCanReinject
