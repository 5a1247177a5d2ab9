CONSTANTS
    Threads = {t1, t2, t3, t4, t5}
    MinConn = 2
    MaxConn = 4
SPECIFICATION Spec
INVARIANTS Exclusive NoneLost NoSleepOnFree
PROPERTY WaiterWoken
