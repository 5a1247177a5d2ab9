CONSTANTS
    Workers = {w1, w2}
    WorkerOps = {"send", "shutdown"}
    Msgs = {m1, m2}
    MsgLen = 2
    HighWaterMark = 3
    MaxInbound = 1
    KeepsBuffer = FALSE
SPECIFICATION Spec
SYMMETRY Symmetry
INVARIANTS StreamIntact BacklogArmed UpThenDownOnce ClosedStaysOff
PROPERTY FinAfterData
