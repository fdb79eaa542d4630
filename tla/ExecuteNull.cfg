SPECIFICATION Spec
CONSTANTS
    Threads = {t1}
    Maps = {m1}
    Unmodifiable = {}
    Choosy = {}
    Values = {"null", "narrow"}
INVARIANT MapsCanBeCopied
