\* Two threads, a map that takes all values, one that cannot be modified and one that
\* does not take null
SPECIFICATION Spec
CONSTANTS
    t1 = t1
    t2 = t2
    Threads = {t1, t2}
    m1 = m1
    m2 = m2
    m3 = m3
    Maps = {m1, m2, m3}
    Unmodifiable = {m2}
    Choosy = {m3}
    Values = {"null", "wide", "narrow"}
SYMMETRY Symmetry
CONSTRAINTS OneModified OneOfTwoMaps
INVARIANTS
    TypeOK
    FirstFailureIsThrown
PROPERTIES
    EntriesAreCopiedBack
