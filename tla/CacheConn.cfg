CONSTANTS
    Commands = {"get", "mget", "hset", "isExists"}
    Backoff = 4
SPECIFICATION ConnSpec
INVARIANT NoContextLeak
PROPERTIES WrongDbReported Recovers
