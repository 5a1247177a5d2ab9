CONSTANTS
    Byte = {0, 1}
    kCheapPrepend = 2
    kInitialSize = 3
    ExtraSize = 3
    MaxLen = 5
SPECIFICATION Spec
INVARIANTS IndicesOrdered GrowthBounded
PROPERTY ImplementsQueue
