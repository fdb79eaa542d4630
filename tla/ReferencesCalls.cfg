SPECIFICATION Spec
CONSTANTS
    Objects = {o1, o2}
    NoObject = NoObject
    Wrappers = {w1, w2}
    NoWrapper = NoWrapper
    Threads = {t1}
    Operations = {"executeCode", "call"}
    KeepsReceivers = TRUE
    MaxCount = 4
    MaxPython = 1
    MaxLost = 1
INVARIANT WrappersKeepTheirObjects
CHECK_DEADLOCK FALSE
