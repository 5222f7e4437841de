SPECIFICATION Spec
CONSTANTS
    Second = 20
    Hclks = {8}
    Hsi = 8
    Half = 3
    Horizon = 10
PROPERTIES WrapSetsFlag
