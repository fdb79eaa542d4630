SPECIFICATION Spec
CONSTANTS
    Objects = {o1, o2}
    NoObject = NoObject
    Wrappers = {w1, w2}
    NoWrapper = NoWrapper
    Threads = {t1, t2}
    Operations = {"getType", "getAttribute", "getAttributeValue", "setAttribute",
                  "setValue", "call", "proxyTyped", "proxyUntyped", "executeCode", "importModule", "newDict", "copyDict",
                  "passToJava", "returnToPython"}
    KeepsReceivers = TRUE
    MaxCount = 4
    MaxPython = 1
    MaxLost = 0
SYMMETRY Symmetry
INVARIANTS
    TypeOK
    ReferencesAreAccounted
    OwnersKeepAlive
    UsesAreSafe
CHECK_DEADLOCK FALSE
