CONSTANTS
    Callers = {o, c}
    Functors = {f}
    Owner = o
    Freedoms = {"dtorEarly"}
SPECIFICATION Spec
PROPERTY EarlyDtorReturns
