CONSTANTS
    Submitters = {s1}
    Tasks = {k1, k2}
    NoTask = NoTask
    Modes = {"CACHED"}
    QueMaxima = {1}
    ThreadMaxima = {2}
    InitThreads = 1
    FirstThreadId = 0
    MaxThreadId = 2
SPECIFICATION Spec
PROPERTY DestructorReturns
