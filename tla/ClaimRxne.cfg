SPECIFICATION Spec
CONSTANTS
    Bytes = {1, 2}
    NoByte = 0
    RxDepth = 3
    TxDepth = 2
INVARIANTS RxneRaisesIrq
