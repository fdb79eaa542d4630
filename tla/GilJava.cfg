\* A JVM that starts and stops Python: two Java threads and a Python thread
CONSTANTS
  j = j
  m = m
  p = p
  Threads = {m, j, p}
  PyThreads = {p}
  NoThread = NoThread
  Host = NoThread
  HasMonitor = FALSE
  MaxLeaks = 1
  MaxDepth = 3
SPECIFICATION Spec
INVARIANTS TypeOK PythonHoldsGil JavaLeavesGil NoFatalError CounterMatchesSections
PROPERTIES SectionRestoresGil ImplementsLock
CONSTRAINT Explored
\* after a fatal error the process has ended
CHECK_DEADLOCK FALSE
