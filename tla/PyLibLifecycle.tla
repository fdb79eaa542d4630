---------------------------- MODULE PyLibLifecycle ----------------------------
(***************************************************************************)
(* The life cycle of the two runtimes (jpy_module.c, jni/org_jpy_PyLib.c,  *)
(* PyLib.java) and of the globals that jpy keeps about them.               *)
(*                                                                         *)
(* Either a JVM hosts Python, which PyLib.startPython and stopPython start *)
(* and stop, any number of times; or Python hosts a JVM, which             *)
(* jpy.create_jvm and destroy_jvm create and destroy, once in the life of  *)
(* a process.  JPy_InitGlobalVars fills some ninety globals with class     *)
(* references and type objects as soon as both run.  Their last user does  *)
(* not wait for anyone: Java threads may be on their way into Python, the  *)
(* finalizer thread among them, when Python stops.                         *)
(*                                                                         *)
(* Interpreters are numbered, and so are the initialisations of the module *)
(* (PyInit_jpy): a global has the number of the initialisation it dates    *)
(* from, 0 if it is NULL.                                                  *)
(***************************************************************************)
EXTENDS Naturals, Sequences

CONSTANTS
  Threads,       \* Java threads, the finalizer thread among them
  Controllers,   \* the threads that start and stop Python
  Wrappers,      \* Java objects of class PyObject
  NoWrapper,     \* no wrapper
  Hosts,         \* who may host the process: "java", "python"
  MaxStarts,     \* bound on interpreters of a process
  MaxFailures    \* bound on failures of JPy_InitGlobalVars

ASSUME ConstantsAssumption ==
  /\ NoWrapper \notin Wrappers
  /\ Controllers \subseteq Threads
  /\ Hosts \subseteq {"java", "python"}
  /\ MaxStarts \in Nat \ {0}
  /\ MaxFailures \in Nat

VARIABLES
  host,          \* who hosts the process
  vm,            \* the JVM: "none", "alive" or "destroyed"
  jvm,           \* is JPy_JVM set
  mustDestroy,   \* JPy_MustDestroyJVM
  loaded,        \* has Java loaded the library
  started,       \* interpreters started so far; the last one is current
  initialized,   \* Py_IsInitialized()
  imported,      \* is jpy in sys.modules
  inits,         \* initialisations of the module so far
  module,        \* JPy_Module, JPy_Types and their like
  globals,       \* what JPy_InitGlobalVars sets
  failures,      \* failures of JPy_InitGlobalVars so far
  wraps,         \* the interpreter that a wrapper's object belongs to, or 0
  calls,         \* what each Java thread is doing in a native method
  undefined      \* the undefined behaviour the process has met, if any

vars == <<host, vm, jvm, mustDestroy, loaded, started, initialized, imported, inits,
          module, globals, failures, wraps, calls, undefined>>

pythonVars == <<started, initialized, imported, inits, module, globals, failures>>
jvmVars    == <<host, vm, jvm, mustDestroy, loaded>>

-----------------------------------------------------------------------------
(* The globals *)

\* Groups of globals that have the same fate, in the order of JPy_InitGlobalVars.
Order ==
  <<"Comparable", "Map", "RuntimeException", "JInt", "JObject", "JClass",
    "JIntegerObj", "JString", "JThrowable", "JPyObject">>

Globals == {Order[i] : i \in DOMAIN Order}

\* org.jpy.PyObject may not be on the class path.
Required == Globals \ {"JPyObject"}

Position(g) == CHOOSE i \in DOMAIN Order : Order[i] = g

\* Those that JPy_ClearGlobalVars sets to NULL.
Cleared == Globals \ {"Map", "JObject", "JClass", "JThrowable"}

\* Mutant: the first class reference is forgotten.
ClearGlobalVarsButOne ==
  globals' = [g \in Globals |-> IF g \in Cleared \ {"Comparable"} THEN 0 ELSE globals[g]]

ClearGlobalVars ==
  globals' = [g \in Globals |-> IF g \in Cleared THEN 0 ELSE globals[g]]

\* JPy_InitGlobalVars on behalf of the e-th initialisation of the module gets as
\* far as the n-th group.  It does nothing if the first one is there.
InitGlobalVars(e, n) ==
  IF globals["Comparable"] # 0
  THEN UNCHANGED <<globals, failures>>
  ELSE /\ globals' = [g \in Globals |-> IF Position(g) <= n THEN e ELSE globals[g]]
       /\ failures' = IF n < Len(Order) - 1 THEN failures + 1 ELSE failures

\* How far it may get.
Reach == {n \in 0..Len(Order) : n < Len(Order) - 1 => failures < MaxFailures}

Succeeds(n) == globals["Comparable"] # 0 \/ n >= Len(Order) - 1

-----------------------------------------------------------------------------
(* Helpers *)

\* Nothing is said of what follows undefined behaviour.
Defined == undefined = "no"

IsPythonRunning == initialized /\ module # 0

Idle == [op |-> "idle", wrapper |-> NoWrapper]

Enter(t, operation, w) == calls' = [calls EXCEPT ![t] = [op |-> operation, wrapper |-> w]]
Leave(t) == calls' = [calls EXCEPT ![t] = Idle]

Doing(t, operation) == Defined /\ calls[t].op = operation

Finalizing == \E t \in Threads : calls[t].op = "finalize"

PythonCodeRuns == initialized /\ ~Finalizing

Meet(behaviour) ==
  /\ undefined' = behaviour
  /\ UNCHANGED <<jvmVars, pythonVars, wraps, calls>>

Init ==
  /\ host \in Hosts
  /\ vm = IF host = "java" THEN "alive" ELSE "none"
  /\ jvm = FALSE
  /\ mustDestroy = FALSE
  /\ loaded = FALSE
  /\ started = IF host = "java" THEN 0 ELSE 1
  /\ initialized = (host = "python")
  /\ imported = FALSE
  /\ inits = 0
  /\ module = 0
  /\ globals = [g \in Globals |-> 0]
  /\ failures = 0
  /\ wraps = [w \in Wrappers |-> 0]
  /\ calls = [t \in Threads |-> Idle]
  /\ undefined = "no"

-----------------------------------------------------------------------------
(* Java loads and unloads the library *)

\* Mutant: whoever loads the library becomes responsible for the JVM.
OnLoadOwner ==
  /\ Defined
  /\ vm = "alive"
  /\ ~loaded
  /\ loaded' = TRUE
  /\ jvm' = TRUE
  /\ mustDestroy' = IF jvm THEN mustDestroy ELSE TRUE
  /\ UNCHANGED <<host, vm, pythonVars, wraps, calls, undefined>>

\* JNI_OnLoad, when the class PyLib is initialised.
OnLoad ==
  /\ Defined
  /\ vm = "alive"
  /\ ~loaded
  /\ loaded' = TRUE
  /\ jvm' = TRUE
  /\ mustDestroy' = IF jvm THEN mustDestroy ELSE FALSE
  /\ UNCHANGED <<host, vm, pythonVars, wraps, calls, undefined>>

\* JNI_OnUnload, when the class loader of PyLib is gone: no method and no object
\* of its classes is left.  Py_Finalize needs the GIL, which no one takes.
OnUnload ==
  /\ Defined
  /\ loaded
  /\ \A t \in Threads : calls[t] = Idle
  /\ \A w \in Wrappers : wraps[w] = 0
  /\ IF initialized
     THEN Meet("no GIL")
     ELSE /\ loaded' = FALSE
          /\ IF mustDestroy
             THEN UNCHANGED <<jvm, globals>>
             ELSE jvm' = FALSE /\ ClearGlobalVars
          /\ UNCHANGED <<host, vm, mustDestroy, started, initialized, imported, inits,
                         module, failures, wraps, calls, undefined>>

-----------------------------------------------------------------------------
(* Python code *)

\* Mutant: a JVM that runs already is not looked at.
InitModuleOnly ==
  /\ inits' = inits + 1
  /\ module' = inits + 1
  /\ imported' = TRUE
  /\ UNCHANGED <<globals, failures>>

\* PyInit_jpy; on failure JPy_Module and its like stay set.
InitModule ==
  \E n \in Reach :
    /\ inits' = inits + 1
    /\ module' = inits + 1
    /\ IF jvm
       THEN InitGlobalVars(inits + 1, n) /\ imported' = Succeeds(n)
       ELSE imported' = TRUE /\ UNCHANGED <<globals, failures>>

\* import jpy, in a process that Python hosts.
ImportJpy ==
  /\ Defined
  /\ host = "python"
  /\ PythonCodeRuns
  /\ ~imported
  /\ inits < MaxStarts
  /\ InitModule
  /\ UNCHANGED <<jvmVars, started, initialized, wraps, calls, undefined>>

\* jpy.create_jvm: without effect if there is a JVM; JNI_CreateJavaVM fails if
\* there has been one, or for bad options.
CreateJvm ==
  /\ Defined
  /\ imported
  /\ ~jvm
  /\ mustDestroy' = TRUE
  /\ \/ UNCHANGED <<vm, jvm, globals, failures>>
     \/ /\ vm = "none"
        /\ vm' = "alive"
        /\ jvm' = TRUE
        /\ \E n \in Reach : InitGlobalVars(module, n)
  /\ UNCHANGED <<host, loaded, started, initialized, imported, inits, module, wraps, calls,
                 undefined>>

\* Mutant: the pointer to the JVM is kept.
DestroyJvmOnly ==
  /\ Defined
  /\ imported
  /\ jvm /\ mustDestroy
  /\ \A t \in Threads : calls[t] = Idle
  /\ vm' = "destroyed"
  /\ loaded' = FALSE
  /\ wraps' = [w \in Wrappers |-> 0]
  /\ ClearGlobalVars
  /\ UNCHANGED <<host, jvm, mustDestroy, started, initialized, imported, inits, module,
                 failures, calls, undefined>>

\* jpy.destroy_jvm.  DestroyJavaVM waits until no Java thread is left.
DestroyJvm ==
  /\ Defined
  /\ imported
  /\ jvm /\ mustDestroy
  /\ \A t \in Threads : calls[t] = Idle
  /\ vm' = "destroyed"
  /\ jvm' = FALSE
  /\ loaded' = FALSE
  /\ wraps' = [w \in Wrappers |-> 0]
  /\ ClearGlobalVars
  /\ UNCHANGED <<host, mustDestroy, started, initialized, imported, inits, module,
                 failures, calls, undefined>>

\* Python code asks for a type or uses a Java object, which jpy allows as soon as
\* JPy_GetJNIEnv finds a JVM.  (jpy.get_type tests JPy_Types, but JObj_FromType
\* uses JPy_Type_Translations at once.)
UseJava ==
  /\ Defined
  /\ imported
  /\ jvm
  /\ module = 0 \/ \E g \in Required : globals[g] = 0
  /\ Meet("null global")

-----------------------------------------------------------------------------
(* PyLib.startPython *)

\* Mutant: Py_IsInitialized is not tested.
StartPythonAgain(t) ==
  /\ Doing(t, "idle")
  /\ loaded
  /\ ~initialized => started < MaxStarts
  /\ started' = started + 1
  /\ initialized' = TRUE
  /\ imported' = FALSE
  /\ Enter(t, "start", NoWrapper)
  /\ UNCHANGED <<jvmVars, inits, module, globals, failures, wraps, undefined>>

\* Py_Initialize, unless there is an interpreter.
StartPython(t) ==
  /\ Doing(t, "idle")
  /\ loaded
  /\ ~initialized => started < MaxStarts
  /\ IF initialized
     THEN UNCHANGED <<started, initialized, imported>>
     ELSE started' = started + 1 /\ initialized' = TRUE /\ imported' = FALSE
  /\ Enter(t, "start", NoWrapper)
  /\ UNCHANGED <<jvmVars, inits, module, globals, failures, wraps, undefined>>

\* The rest of startPython0: if the module is missing, it is imported, and if it
\* is still missing or the import fails, ThrowNew gets JPy_RuntimeException_JClass.
ImportModule(t) ==
  /\ Doing(t, "start")
  /\ IF ~initialized
     THEN Meet("no interpreter")
     ELSE \/ /\ module # 0
             /\ Leave(t)
             /\ UNCHANGED <<jvmVars, pythonVars, wraps, undefined>>
          \/ /\ module = 0
             /\ ~imported
             /\ inits < MaxStarts
             /\ InitModule
             /\ Leave(t)
             /\ undefined' = IF ~imported' /\ globals'["RuntimeException"] = 0
                             THEN "null class" ELSE "no"
             /\ UNCHANGED <<jvmVars, started, initialized, wraps>>
          \/ \* jpy is not found, or is in sys.modules
             /\ module = 0
             /\ IF globals["RuntimeException"] = 0
                THEN Meet("null class")
                ELSE Leave(t) /\ UNCHANGED <<jvmVars, pythonVars, wraps, undefined>>

-----------------------------------------------------------------------------
(* PyLib.stopPython *)

StopPython(t) ==
  /\ Doing(t, "idle")
  /\ loaded
  /\ initialized
  /\ Enter(t, "stop", NoWrapper)
  /\ UNCHANGED <<jvmVars, pythonVars, wraps, undefined>>

\* Mutant: JPy_free leaves the module.
FreeModuleNot(t) ==
  /\ Doing(t, "stop")
  /\ IF ~initialized \/ Finalizing
     THEN Meet("no interpreter")
     ELSE /\ ClearGlobalVars
          /\ Enter(t, "finalize", NoWrapper)
          /\ UNCHANGED <<jvmVars, started, initialized, imported, inits, module, failures, wraps,
                         undefined>>

\* PyGILState_Ensure, JPy_free, and Py_Finalize begins: it runs Python code, and
\* other threads may get the GIL.
FreeModule(t) ==
  /\ Doing(t, "stop")
  /\ IF ~initialized \/ Finalizing
     THEN Meet("no interpreter")
     ELSE /\ ClearGlobalVars
          /\ module' = 0
          /\ Enter(t, "finalize", NoWrapper)
          /\ UNCHANGED <<jvmVars, started, initialized, imported, inits, failures, wraps,
                         undefined>>

\* Py_Finalize ends.  It calls JPy_free again when it deletes the module object,
\* unless some reference to it has been leaked.
FinalizePython(t) ==
  /\ Doing(t, "finalize")
  /\ initialized' = FALSE
  /\ imported' = FALSE
  /\ \/ module' = 0 /\ ClearGlobalVars
     \/ UNCHANGED <<module, globals>>
  /\ Leave(t)
  /\ UNCHANGED <<jvmVars, started, inits, failures, wraps, undefined>>

-----------------------------------------------------------------------------
(* PyObject: a Java thread gets a Python object, uses it, and the finalizer     *)
(* thread releases it.                                                          *)

\* assertPythonRuns
UseObject(t, w) ==
  /\ Doing(t, "idle")
  /\ loaded
  /\ IsPythonRunning
  /\ Enter(t, "use", w)
  /\ UNCHANGED <<jvmVars, pythonVars, wraps, undefined>>

\* finalize and decRef, which tests Py_IsInitialized only.
Finalize(t, w) ==
  /\ Doing(t, "idle")
  /\ loaded
  /\ wraps[w] # 0
  /\ \A u \in Threads : calls[u].wrapper # w
  /\ IF initialized
     THEN Enter(t, "decRef", w) /\ UNCHANGED wraps
     ELSE wraps' = [wraps EXCEPT ![w] = 0] /\ UNCHANGED calls
  /\ UNCHANGED <<jvmVars, pythonVars, undefined>>

\* The native method has the GIL.
Proceed(t) ==
  /\ Defined
  /\ calls[t].op \in {"use", "decRef"}
  /\ LET w == calls[t].wrapper IN
     CASE ~initialized                 -> Meet("no interpreter")
       [] initialized /\ wraps[w] \notin {0, started} -> Meet("stale object")
       [] OTHER ->
            /\ wraps' = [wraps EXCEPT ![w] = IF calls[t].op = "use" THEN started ELSE 0]
            /\ Leave(t)
            /\ UNCHANGED <<jvmVars, pythonVars, undefined>>

-----------------------------------------------------------------------------

Next ==
  \/ OnLoad
  \/ OnUnload
  \/ ImportJpy
  \/ CreateJvm
  \/ DestroyJvm
  \/ UseJava
  \/ \E t \in Threads :
       \/ t \in Controllers /\ (StartPython(t) \/ StopPython(t))
       \/ ImportModule(t)
       \/ FreeModule(t)
       \/ FinalizePython(t)
       \/ \E w \in Wrappers : UseObject(t, w) \/ Finalize(t, w)
       \/ Proceed(t)

Spec == Init /\ [][Next]_vars

-----------------------------------------------------------------------------
(* Properties *)

Operations == {"idle", "start", "stop", "finalize", "use", "decRef"}

UndefinedBehaviours ==
  {"no", "no GIL", "no interpreter", "null global", "null class", "stale object"}

TypeOK ==
  /\ host \in Hosts
  /\ vm \in {"none", "alive", "destroyed"}
  /\ jvm \in BOOLEAN /\ mustDestroy \in BOOLEAN /\ loaded \in BOOLEAN
  /\ initialized \in BOOLEAN /\ imported \in BOOLEAN
  /\ started \in 0..MaxStarts
  /\ inits \in 0..MaxStarts
  /\ module \in 0..inits
  /\ globals \in [Globals -> 0..inits]
  /\ failures \in 0..MaxFailures
  /\ wraps \in [Wrappers -> 0..started]
  /\ calls \in [Threads -> [op : Operations, wrapper : Wrappers \cup {NoWrapper}]]
  /\ undefined \in UndefinedBehaviours

\* Whatever has been stopped and started before: Python code that runs with a
\* JVM finds the globals of this initialisation of the module.  The types among
\* them are those of jpy.types; conversions compare types by their addresses.
GlobalsAreCurrent ==
  IsPythonRunning /\ imported /\ jvm /\ failures = 0 =>
    \A g \in Required : globals[g] = module

\* JPy_Module does not survive its interpreter, so that the next startPython
\* imports the module again (as long as one thread controls Python).
ModuleIsCurrent == module # 0 => initialized

\* JPy_GetJNIEnv never asks a JVM that has gone.
JvmIsAlive == jvm => vm = "alive"

\* jpy.destroy_jvm "has no effect" on a JVM that jpy has not created
\* (JPy_MustDestroyJVM).
OnlyOwnJvmIsDestroyed ==
  [][vm = "alive" /\ vm' # "alive" => host = "python"]_vars

\* Python code that uses Java meets a NULL among the globals only while Python
\* is being stopped, or after an error of JPy_InitGlobalVars.
NullsOnlyInTrouble ==
  undefined = "null global" => Finalizing \/ failures > 0

\* startPython "throws RuntimeException if Python could not be started or if the
\* 'jpy' extension module could not be loaded" (PyLib.java).
FailuresAreThrown == undefined # "null class"

\* finalize "decrements the reference count of the Python object which this class
\* represents" (PyObject.java), whatever interpreter runs by then.
DecRefsReachTheirObject == undefined # "stale object"

=============================================================================
