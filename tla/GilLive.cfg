\* The same JVM under fair scheduling, with a Java monitor, while it is careful
CONSTANTS
  j = j
  m = m
  p = p
  Threads = {m, j, p}
  PyThreads = {p}
  NoThread = NoThread
  Host = NoThread
  HasMonitor = TRUE
  MaxLeaks = 0
  MaxDepth = 1
SPECIFICATION FairSpec
PROPERTIES GilIsGranted
CONSTRAINT Careful
\* nothing obliges a thread to call anything
CHECK_DEADLOCK FALSE
