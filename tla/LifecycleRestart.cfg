\* A JVM that restarts Python while the finalizer thread has wrappers to release
CONSTANTS
  main = main
  finalizer = finalizer
  w1 = w1
  Threads = {main, finalizer}
  Controllers = {main}
  Wrappers = {w1}
  NoWrapper = NoWrapper
  Hosts = {"java"}
  MaxStarts = 2
  MaxFailures = 0
SPECIFICATION Spec
INVARIANTS DecRefsReachTheirObject
\* undefined behaviour ends the process
CHECK_DEADLOCK FALSE
