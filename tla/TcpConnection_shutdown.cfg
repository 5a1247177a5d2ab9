CONSTANTS
    Workers = {w1}
    WorkerOps = {"send", "shutdown"}
    Msgs = {m1, m2}
    MsgLen = 2
    HighWaterMark = 3
    MaxInbound = 1
    KeepsBuffer = TRUE
SPECIFICATION Spec
PROPERTY ShutdownCompletes
