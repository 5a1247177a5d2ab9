CONSTANTS
    Conns = {c1, c2}
    Kept = {c1}
    ThreadNums = {0, 1, 2}
SPECIFICATION Spec
INVARIANTS NoUseAfterFree NothingLeaks
PROPERTIES ClosedIsFreed DestructorReturns ImplementsLife
