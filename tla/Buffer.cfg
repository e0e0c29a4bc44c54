CONSTANTS
    Byte = {0, 1}
    Zero = 0
    kCheapPrepend = 1
    kInitialSize = 2
    ExtraBuf = 2
    MaxReadable = 4
SPECIFICATION Spec
INVARIANTS
    TypeOK
    CapacityBounded
PROPERTY AbstractSpec
