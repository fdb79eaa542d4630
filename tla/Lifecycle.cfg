\* A JVM that starts Python up to three times, or Python that creates a JVM;
\* one thread controls Python, and another one uses and finalizes objects
CONSTANTS
  main = main
  finalizer = finalizer
  w1 = w1
  w2 = w2
  Threads = {main, finalizer}
  Controllers = {main}
  Wrappers = {w1, w2}
  NoWrapper = NoWrapper
  Hosts = {"java", "python"}
  MaxStarts = 3
  MaxFailures = 1
SPECIFICATION Spec
INVARIANTS TypeOK GlobalsAreCurrent ModuleIsCurrent JvmIsAlive NullsOnlyInTrouble
PROPERTIES OnlyOwnJvmIsDestroyed
\* undefined behaviour ends the process
CHECK_DEADLOCK FALSE
