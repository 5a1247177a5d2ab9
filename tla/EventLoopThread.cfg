CONSTANTS
    Callers = {o, c}
    Functors = {f, g}
    Owner = o
    Freedoms = {"initQueues", "selfQuits", "dtorEarly"}
SPECIFICATION Spec
INVARIANTS PtrValid DestroyedThreadGone
PROPERTIES StartLoopReturns DtorReturns
