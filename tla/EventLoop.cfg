CONSTANTS
    Callers = {c1, c2}
    Functors = {f1, f2, f3}
SPECIFICATION Spec
INVARIANTS NoLostWakeup NoLostQuit
PROPERTIES QueuedIsRun QuitStops ImplementsExecutor
