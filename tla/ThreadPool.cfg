CONSTANTS
    Submitters = {s1, s2}
    Tasks = {k1, k2, k3}
    NoTask = NoTask
    Modes = {"FIXED", "CACHED"}
    QueMaxima = {0, 1, 2}
    ThreadMaxima = {2, 3}
    InitThreads = 1
    FirstThreadId = 0
    MaxThreadId = 3
SPECIFICATION Spec
INVARIANTS NobodyForgotten TaskInOnePlace CountersExact DestroyedClean
PROPERTIES SubmittedIsAnswered FixedDestructorReturns
