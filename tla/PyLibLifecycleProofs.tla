------------------------- MODULE PyLibLifecycleProofs -------------------------
(***************************************************************************)
(* What PyLibLifecycle has for any number of threads, wrappers, restarts   *)
(* and failures, as long as one thread at most controls Python.            *)
(***************************************************************************)
EXTENDS PyLibLifecycle, TLAPS

\* PyLib.startPython and stopPython are not synchronized: the application has to
\* see to it that one thread calls them.
OneController == \A c, d \in Controllers : c = d

-----------------------------------------------------------------------------
(* The inductive invariant *)

\* Who has which JVM.
VmInv ==
  /\ jvm => vm = "alive"
  /\ host = "python" /\ vm = "alive" => jvm /\ mustDestroy
  /\ host = "java" => ~mustDestroy
  /\ loaded => jvm
  /\ host = "java" /\ initialized => loaded

\* What threads do; an interpreter that ends has no module any more.
CallsInv ==
  /\ \A t \in Threads : calls[t].op \in {"start", "stop", "finalize"} => t \in Controllers
  /\ Finalizing => module = 0 /\ initialized

\* The module and its interpreter.
ModuleInv ==
  /\ module # 0 => initialized
  /\ imported => initialized
  /\ imported => module # 0 \/ Finalizing
  /\ failures = 0 /\ module # 0 => imported

\* The first global tells whether JPy_InitGlobalVars has run for this module.
GlobalsInv ==
  /\ module = 0 => globals["Comparable"] = 0
  /\ ~jvm => globals["Comparable"] = 0
  /\ failures = 0 /\ module # 0 /\ jvm => \A g \in Required : globals[g] = module

IInv ==
  /\ TypeOK
  /\ VmInv
  /\ CallsInv
  /\ ModuleInv
  /\ GlobalsInv
  /\ NullsOnlyInTrouble

-----------------------------------------------------------------------------
(* The globals *)

\* Where the groups are in Order: org.jpy.PyObject, the only one that may be
\* missing, is the last one.
LEMMA OrderFacts ==
  /\ Len(Order) = 10
  /\ "Comparable" \in Required /\ "Comparable" \in Cleared
  /\ Required \subseteq Globals /\ Cleared \subseteq Globals
  /\ \A g \in Globals : Position(g) \in 1..10
  /\ \A g \in Required : Position(g) \in 1..9
<1>1. Len(Order) = 10 /\ DOMAIN Order = 1..10
  BY DEF Order
<1>2. Globals = {"Comparable", "Map", "RuntimeException", "JInt", "JObject", "JClass",
                 "JIntegerObj", "JString", "JThrowable", "JPyObject"}
  <2>1. ASSUME NEW i \in 1..10
        PROVE  Order[i] \in {"Comparable", "Map", "RuntimeException", "JInt", "JObject", "JClass",
                             "JIntegerObj", "JString", "JThrowable", "JPyObject"}
    BY DEF Order
  <2>2. /\ Order[1] = "Comparable" /\ Order[2] = "Map" /\ Order[3] = "RuntimeException"
        /\ Order[4] = "JInt" /\ Order[5] = "JObject" /\ Order[6] = "JClass"
        /\ Order[7] = "JIntegerObj" /\ Order[8] = "JString" /\ Order[9] = "JThrowable"
        /\ Order[10] = "JPyObject"
    BY DEF Order
  <2> QED BY <1>1, <2>1, <2>2 DEF Globals
<1>3. ASSUME NEW g \in Globals
      PROVE  Position(g) \in 1..10 /\ Order[Position(g)] = g
  <2>1. \E i \in DOMAIN Order : Order[i] = g
    BY DEF Globals
  <2> QED BY <1>1, <2>1 DEF Position
<1>4. ASSUME NEW g \in Required
      PROVE  Position(g) \in 1..9
  <2>1. g \in Globals /\ g # "JPyObject"
    BY DEF Required
  <2>2. Order[10] = "JPyObject"
    BY DEF Order
  <2>3. Position(g) # 10
    BY <1>3, <2>1, <2>2
  <2> QED BY <1>3, <2>1, <2>3
<1> QED BY <1>1, <1>2, <1>3, <1>4 DEF Required, Cleared

\* Clearing sets the first global to NULL and introduces nothing.
LEMMA ClearGlobalVarsFacts ==
  ASSUME TypeOK, ClearGlobalVars
  PROVE  /\ globals' \in [Globals -> 0..inits]
         /\ globals'["Comparable"] = 0
<1>1. \A g \in Globals : globals[g] \in 0..inits
  BY DEF TypeOK
<1>2. inits \in Nat
  BY ConstantsAssumption DEF TypeOK
<1> QED BY <1>1, <1>2, OrderFacts DEF ClearGlobalVars

\* JPy_InitGlobalVars sets everything that is required, unless it fails.
LEMMA InitGlobalVarsFacts ==
  ASSUME TypeOK, NEW e \in Nat, NEW k \in Nat, e <= k, inits <= k,
         NEW n \in Reach, InitGlobalVars(e, n)
  PROVE  /\ globals' \in [Globals -> 0..k]
         /\ failures' \in 0..MaxFailures
         /\ failures' = 0 => failures = 0 /\ Succeeds(n)
         /\ globals["Comparable"] # 0 => globals' = globals
         /\ globals["Comparable"] = 0 /\ failures' = 0 =>
              \A g \in Required : globals'[g] = e
         /\ globals["Comparable"] = 0 /\ e = 0 => globals'["Comparable"] = 0
<1>0. /\ inits \in Nat /\ globals \in [Globals -> 0..inits]
      /\ failures \in 0..MaxFailures /\ MaxFailures \in Nat
  BY ConstantsAssumption DEF TypeOK
<1>1. CASE globals["Comparable"] # 0
  BY <1>0, <1>1 DEF InitGlobalVars, Succeeds
<1>2. CASE globals["Comparable"] = 0
  <2>1. /\ globals' = [g \in Globals |-> IF Position(g) <= n THEN e ELSE globals[g]]
        /\ failures' = IF n < 9 THEN failures + 1 ELSE failures
    BY <1>2, OrderFacts DEF InitGlobalVars
  <2>2. n \in 0..10 /\ (n < 9 => failures < MaxFailures)
    BY OrderFacts DEF Reach
  <2>3. globals' \in [Globals -> 0..k]
    BY <1>0, <2>1
  <2>4. failures' \in 0..MaxFailures /\ (failures' = 0 => failures = 0 /\ n >= 9)
    BY <1>0, <2>1, <2>2
  <2>5. n >= 9 => Succeeds(n)
    BY OrderFacts DEF Succeeds
  <2>6. ASSUME failures' = 0, NEW g \in Required
        PROVE  globals'[g] = e
    BY <2>1, <2>2, <2>4, <2>6, OrderFacts
  <2>7. e = 0 => globals'["Comparable"] = 0
    BY <1>2, <2>1, OrderFacts
  <2> QED BY <1>2, <2>3, <2>4, <2>5, <2>6, <2>7
<1> QED BY <1>1, <1>2

-----------------------------------------------------------------------------
(* Actions of the JVM and of Python code *)

\* Init establishes the invariant.
LEMMA InitIInv == Init => IInv
<1> SUFFICES ASSUME Init PROVE IInv
  OBVIOUS
<1>0. MaxStarts \in Nat \ {0} /\ MaxFailures \in Nat
  BY ConstantsAssumption
<1>1. TypeOK
  <2>1. /\ jvm \in BOOLEAN /\ mustDestroy \in BOOLEAN /\ loaded \in BOOLEAN
        /\ initialized \in BOOLEAN /\ imported \in BOOLEAN
    BY Zenon DEF Init
  <2>2. /\ started \in 0..MaxStarts /\ inits \in 0..MaxStarts /\ module \in 0..inits
        /\ failures \in 0..MaxFailures
    BY <1>0 DEF Init
  <2>3. globals \in [Globals -> 0..inits] /\ wraps \in [Wrappers -> 0..started]
    BY <1>0 DEF Init
  <2>4. calls \in [Threads -> [op : Operations, wrapper : Wrappers \cup {NoWrapper}]]
    BY DEF Init, Idle, Operations
  <2>5. /\ host \in Hosts /\ vm \in {"none", "alive", "destroyed"}
        /\ undefined \in UndefinedBehaviours
    BY DEF Init, UndefinedBehaviours
  <2> QED BY <2>1, <2>2, <2>3, <2>4, <2>5 DEF TypeOK
<1>2. VmInv
  BY DEF Init, VmInv
<1>3. CallsInv
  BY DEF Init, CallsInv, Finalizing, Idle
<1>4. ModuleInv /\ NullsOnlyInTrouble
  BY DEF Init, ModuleInv, NullsOnlyInTrouble
<1>5. GlobalsInv
  BY OrderFacts DEF Init, GlobalsInv
<1> QED BY <1>1, <1>2, <1>3, <1>4, <1>5 DEF IInv

\* Undefined behaviour changes nothing else.
LEMMA MeetIInv ==
  ASSUME IInv, NEW b \in UndefinedBehaviours, Meet(b),
         b = "null global" => Finalizing \/ failures > 0
  PROVE  IInv'
<1>1. /\ UNCHANGED <<host, vm, jvm, mustDestroy, loaded, started, initialized, imported, inits,
                     module, globals, failures, wraps, calls>>
      /\ undefined' = b
  BY DEF Meet, jvmVars, pythonVars
<1>2. TypeOK' /\ VmInv'
  BY <1>1 DEF IInv, TypeOK, VmInv
<1>3. Finalizing' <=> Finalizing
  BY <1>1 DEF Finalizing
<1>4. CallsInv' /\ ModuleInv' /\ GlobalsInv'
  BY <1>1, <1>3 DEF IInv, CallsInv, ModuleInv, GlobalsInv
<1>5. NullsOnlyInTrouble'
  BY <1>1, <1>3 DEF NullsOnlyInTrouble
<1> QED BY <1>2, <1>4, <1>5 DEF IInv

\* JNI_OnLoad: a JVM that jpy has created is known already.
LEMMA OnLoadIInv == ASSUME IInv, OnLoad PROVE IInv'
<1>1. /\ UNCHANGED <<host, vm, started, initialized, imported, inits, module, globals,
                     failures, wraps, calls, undefined>>
      /\ vm = "alive" /\ ~loaded /\ loaded' = TRUE /\ jvm' = TRUE
      /\ mustDestroy' = IF jvm THEN mustDestroy ELSE FALSE
  BY DEF OnLoad, pythonVars
<1>2. TypeOK' /\ VmInv'
  BY <1>1 DEF IInv, TypeOK, VmInv
<1>3. Finalizing' <=> Finalizing
  BY <1>1 DEF Finalizing
<1>4. CallsInv' /\ ModuleInv' /\ NullsOnlyInTrouble'
  BY <1>1, <1>3 DEF IInv, CallsInv, ModuleInv, NullsOnlyInTrouble
<1>5. host \in {"java", "python"}
  BY ConstantsAssumption DEF IInv, TypeOK
<1>6. jvm \/ module = 0
  BY <1>1, <1>5 DEF IInv, VmInv, ModuleInv
<1>7. GlobalsInv'
  BY <1>1, <1>6 DEF IInv, GlobalsInv
<1> QED BY <1>2, <1>4, <1>7 DEF IInv

\* JNI_OnUnload: without an interpreter there is no module either.
LEMMA OnUnloadIInv == ASSUME IInv, OnUnload PROVE IInv'
<1>1. CASE initialized
  BY <1>1, MeetIInv DEF OnUnload, UndefinedBehaviours
<1>2. CASE ~initialized
  <2>1. /\ UNCHANGED <<host, vm, mustDestroy, started, initialized, imported, inits, module,
                       failures, wraps, calls, undefined>>
        /\ loaded' = FALSE
        /\ \/ mustDestroy /\ jvm' = jvm /\ globals' = globals
           \/ ~mustDestroy /\ jvm' = FALSE /\ ClearGlobalVars
    BY <1>2 DEF OnUnload
  <2>2. /\ globals' \in [Globals -> 0..inits]
        /\ globals["Comparable"] = 0 => globals'["Comparable"] = 0
        /\ jvm' # jvm => globals'["Comparable"] = 0
    BY <2>1, ClearGlobalVarsFacts DEF IInv, TypeOK
  <2>3. TypeOK'
    BY <2>1, <2>2 DEF IInv, TypeOK
  <2>4. VmInv'
    BY <1>2, <2>1 DEF IInv, VmInv
  <2>5. Finalizing' <=> Finalizing
    BY <2>1 DEF Finalizing
  <2>6. CallsInv' /\ ModuleInv' /\ NullsOnlyInTrouble'
    BY <2>1, <2>5 DEF IInv, CallsInv, ModuleInv, NullsOnlyInTrouble
  <2>7. module = 0
    BY <1>2 DEF IInv, ModuleInv
  <2>8. GlobalsInv'
    BY <2>1, <2>2, <2>7 DEF IInv, GlobalsInv
  <2> QED BY <2>3, <2>4, <2>6, <2>8 DEF IInv
<1> QED BY <1>1, <1>2

\* PyInit_jpy, when there is no module yet or an earlier attempt has failed.
LEMMA InitModuleFacts ==
  ASSUME IInv, InitModule, initialized, ~Finalizing, ~imported, inits < MaxStarts
  PROVE  /\ inits' \in 0..MaxStarts /\ module' \in 0..inits' /\ inits <= inits'
         /\ module' # 0
         /\ globals' \in [Globals -> 0..inits'] /\ failures' \in 0..MaxFailures
         /\ imported' \in BOOLEAN
         /\ failures' = 0 => failures = 0 /\ imported'
         /\ ~jvm => globals'["Comparable"] = 0
         /\ failures' = 0 /\ jvm => \A g \in Required : globals'[g] = module'
<1>0. /\ inits \in Nat /\ globals \in [Globals -> 0..inits] /\ MaxStarts \in Nat
      /\ failures \in 0..MaxFailures /\ MaxFailures \in Nat
      /\ jvm \in BOOLEAN
  BY ConstantsAssumption DEF IInv, TypeOK
<1>1. failures = 0 => globals["Comparable"] = 0
  BY DEF IInv, ModuleInv, GlobalsInv
<1>2. PICK n \in Reach :
        /\ inits' = inits + 1
        /\ module' = inits + 1
        /\ IF jvm
           THEN InitGlobalVars(inits + 1, n) /\ imported' = Succeeds(n)
           ELSE imported' = TRUE /\ UNCHANGED <<globals, failures>>
  BY DEF InitModule
<1>3. CASE jvm
  <2>1. /\ globals' \in [Globals -> 0..inits + 1]
        /\ failures' \in 0..MaxFailures
        /\ failures' = 0 => failures = 0 /\ Succeeds(n)
        /\ globals["Comparable"] = 0 /\ failures' = 0 =>
             \A g \in Required : globals'[g] = inits + 1
    BY <1>0, <1>2, <1>3, InitGlobalVarsFacts DEF IInv
  <2>2. imported' = Succeeds(n)
    BY <1>2, <1>3
  <2>3. Succeeds(n) \in BOOLEAN
    BY DEF Succeeds
  <2>4. imported' \in BOOLEAN /\ (failures' = 0 => failures = 0 /\ imported')
    BY <2>1, <2>2, <2>3
  <2>5. inits' \in 0..MaxStarts /\ module' \in 0..inits' /\ inits <= inits' /\ module' # 0
    BY <1>0, <1>2
  <2> QED BY <1>1, <1>2, <1>3, <2>1, <2>4, <2>5
<1>4. CASE ~jvm
  <2>1. globals["Comparable"] = 0
    BY <1>4 DEF IInv, GlobalsInv
  <2>2. /\ inits' = inits + 1 /\ module' = inits + 1
        /\ imported' = TRUE /\ globals' = globals /\ failures' = failures
    BY <1>2, <1>4
  <2>3. globals' \in [Globals -> 0..inits']
    BY <1>0, <2>2
  <2> QED BY <1>0, <1>4, <2>1, <2>2, <2>3
<1> QED BY <1>3, <1>4

\* import jpy
LEMMA ImportJpyIInv == ASSUME IInv, ImportJpy PROVE IInv'
<1>1. /\ UNCHANGED <<host, vm, jvm, mustDestroy, loaded, started, initialized, wraps, calls,
                     undefined>>
      /\ initialized /\ ~Finalizing /\ ~imported /\ inits < MaxStarts /\ InitModule
  BY DEF ImportJpy, jvmVars, PythonCodeRuns
<1>2. /\ inits' \in 0..MaxStarts /\ module' \in 0..inits' /\ module' # 0
      /\ globals' \in [Globals -> 0..inits'] /\ failures' \in 0..MaxFailures
      /\ imported' \in BOOLEAN
      /\ failures' = 0 => failures = 0 /\ imported'
      /\ ~jvm => globals'["Comparable"] = 0
      /\ failures' = 0 /\ jvm => \A g \in Required : globals'[g] = module'
  BY <1>1, InitModuleFacts
<1>3. TypeOK'
  BY <1>1, <1>2 DEF IInv, TypeOK
<1>4. VmInv'
  BY <1>1 DEF IInv, VmInv
<1>5. Finalizing' <=> Finalizing
  BY <1>1 DEF Finalizing
<1>6. CallsInv'
  BY <1>1, <1>5 DEF IInv, CallsInv
<1>7. ModuleInv' /\ GlobalsInv'
  BY <1>1, <1>2 DEF ModuleInv, GlobalsInv
<1>8. undefined # "null global"
  BY DEF ImportJpy, Defined
<1>9. NullsOnlyInTrouble'
  BY <1>1, <1>8 DEF NullsOnlyInTrouble
<1> QED BY <1>3, <1>4, <1>6, <1>7, <1>9 DEF IInv

\* jpy.create_jvm: the globals get the number of the module that Python code uses.
LEMMA CreateJvmIInv == ASSUME IInv, CreateJvm PROVE IInv'
<1>0. /\ inits \in Nat /\ module \in 0..inits /\ MaxFailures \in Nat
      /\ jvm \in BOOLEAN /\ host \in {"java", "python"}
  BY ConstantsAssumption DEF IInv, TypeOK
<1>1. /\ UNCHANGED <<host, loaded, started, initialized, imported, inits, module, wraps, calls,
                     undefined>>
      /\ imported /\ ~jvm /\ mustDestroy' = TRUE /\ undefined = "no"
  BY DEF CreateJvm, Defined
<1>2. host = "python" /\ globals["Comparable"] = 0 /\ vm # "alive" /\ ~loaded
  BY <1>0, <1>1 DEF IInv, VmInv, ModuleInv, GlobalsInv
<1>3. Finalizing' <=> Finalizing
  BY <1>1 DEF Finalizing
<1>4. CallsInv'
  BY <1>1, <1>3 DEF IInv, CallsInv
<1>5. NullsOnlyInTrouble'
  BY <1>1 DEF NullsOnlyInTrouble
<1>6. CASE UNCHANGED <<vm, jvm, globals, failures>>
  <2>1. TypeOK'
    BY <1>1, <1>6 DEF IInv, TypeOK
  <2>2. VmInv'
    BY <1>1, <1>2, <1>6 DEF IInv, VmInv
  <2>3. ModuleInv' /\ GlobalsInv'
    BY <1>1, <1>3, <1>6 DEF IInv, ModuleInv, GlobalsInv
  <2> QED BY <1>4, <1>5, <2>1, <2>2, <2>3 DEF IInv
<1>7. CASE vm' = "alive" /\ jvm' = TRUE /\ \E n \in Reach : InitGlobalVars(module, n)
  <2>1. PICK n \in Reach : InitGlobalVars(module, n)
    BY <1>7
  <2>2. /\ globals' \in [Globals -> 0..inits] /\ failures' \in 0..MaxFailures
        /\ failures' = 0 => failures = 0
        /\ failures' = 0 => \A g \in Required : globals'[g] = module
        /\ module = 0 => globals'["Comparable"] = 0
    BY <1>0, <1>2, <2>1, InitGlobalVarsFacts DEF IInv
  <2>3. TypeOK'
    BY <1>1, <1>7, <2>2 DEF IInv, TypeOK
  <2>4. VmInv'
    BY <1>1, <1>2, <1>7 DEF IInv, VmInv
  <2>5. ModuleInv' /\ GlobalsInv'
    BY <1>1, <1>3, <1>7, <2>2 DEF IInv, ModuleInv, GlobalsInv
  <2> QED BY <1>4, <1>5, <2>3, <2>4, <2>5 DEF IInv
<1> QED BY <1>6, <1>7 DEF CreateJvm

\* jpy.destroy_jvm
LEMMA DestroyJvmIInv == ASSUME IInv, DestroyJvm PROVE IInv'
<1>1. /\ UNCHANGED <<host, mustDestroy, started, initialized, imported, inits, module,
                     failures, calls, undefined>>
      /\ vm' = "destroyed" /\ jvm' = FALSE /\ loaded' = FALSE /\ mustDestroy
      /\ wraps' = [w \in Wrappers |-> 0] /\ ClearGlobalVars
  BY DEF DestroyJvm
<1>2. globals' \in [Globals -> 0..inits] /\ globals'["Comparable"] = 0
  BY <1>1, ClearGlobalVarsFacts DEF IInv
<1>3. wraps' \in [Wrappers -> 0..started]
  BY <1>1, ConstantsAssumption DEF IInv, TypeOK
<1>4. TypeOK'
  BY <1>1, <1>2, <1>3 DEF IInv, TypeOK
<1>5. VmInv'
  BY <1>1, ConstantsAssumption DEF IInv, VmInv, TypeOK
<1>6. Finalizing' <=> Finalizing
  BY <1>1 DEF Finalizing
<1>7. CallsInv' /\ ModuleInv' /\ NullsOnlyInTrouble'
  BY <1>1, <1>6 DEF IInv, CallsInv, ModuleInv, NullsOnlyInTrouble
<1>8. GlobalsInv'
  BY <1>1, <1>2 DEF GlobalsInv
<1> QED BY <1>4, <1>5, <1>7, <1>8 DEF IInv

\* A NULL among the globals means that Python is being stopped, or a failure.
LEMMA UseJavaIInv == ASSUME IInv, UseJava PROVE IInv'
<1>1. /\ imported /\ jvm /\ Meet("null global")
      /\ module = 0 \/ \E g \in Required : globals[g] = 0
  BY DEF UseJava
<1>2. failures \in Nat
  BY ConstantsAssumption DEF IInv, TypeOK
<1>3. Finalizing \/ failures # 0
  BY <1>1 DEF IInv, ModuleInv, GlobalsInv
<1>4. Finalizing \/ failures > 0
  BY <1>2, <1>3
<1> QED BY <1>1, <1>4, MeetIInv DEF UndefinedBehaviours

-----------------------------------------------------------------------------
(* Native methods *)

\* A thread that enters a method, other than to finalize, or leaves one.
LEMMA CallsFacts ==
  ASSUME IInv, NEW t \in Threads, NEW op \in Operations, op # "finalize",
         NEW w \in Wrappers \cup {NoWrapper},
         op \in {"start", "stop"} => t \in Controllers,
         calls' = [calls EXCEPT ![t] = [op |-> op, wrapper |-> w]]
  PROVE  /\ calls' \in [Threads -> [op : Operations, wrapper : Wrappers \cup {NoWrapper}]]
         /\ \A u \in Threads : calls'[u].op \in {"start", "stop", "finalize"} => u \in Controllers
         /\ Finalizing' => Finalizing
         /\ calls[t].op # "finalize" => (Finalizing <=> Finalizing')
<1>1. calls \in [Threads -> [op : Operations, wrapper : Wrappers \cup {NoWrapper}]]
  BY DEF IInv, TypeOK
<1>2. calls' \in [Threads -> [op : Operations, wrapper : Wrappers \cup {NoWrapper}]]
  BY <1>1
<1>3. calls'[t].op = op
  BY <1>1
<1>4. \A u \in Threads \ {t} : calls'[u] = calls[u]
  BY <1>1
<1>5. \A u \in Threads : calls'[u].op \in {"start", "stop", "finalize"} => u \in Controllers
  BY <1>3, <1>4 DEF IInv, CallsInv
<1>6. Finalizing' => Finalizing
  BY <1>3, <1>4 DEF Finalizing
<1>7. calls[t].op # "finalize" => (Finalizing <=> Finalizing')
  BY <1>3, <1>4 DEF Finalizing
<1> QED BY <1>2, <1>5, <1>6, <1>7

\* PyLib.startPython
LEMMA StartPythonIInv ==
  ASSUME IInv, NEW t \in Controllers, StartPython(t)
  PROVE  IInv'
<1>0. t \in Threads /\ MaxStarts \in Nat /\ started \in 0..MaxStarts
  BY ConstantsAssumption DEF IInv, TypeOK
<1>1. /\ UNCHANGED <<host, vm, jvm, mustDestroy, loaded, inits, module, globals, failures, wraps,
                     undefined>>
      /\ loaded /\ undefined = "no" /\ calls[t].op = "idle"
      /\ calls' = [calls EXCEPT ![t] = [op |-> "start", wrapper |-> NoWrapper]]
      /\ \/ UNCHANGED <<started, initialized, imported>>
         \/ /\ ~initialized /\ started < MaxStarts
            /\ started' = started + 1 /\ initialized' = TRUE /\ imported' = FALSE
  BY DEF StartPython, Doing, Defined, Enter, jvmVars
<1>2. /\ calls' \in [Threads -> [op : Operations, wrapper : Wrappers \cup {NoWrapper}]]
      /\ \A u \in Threads : calls'[u].op \in {"start", "stop", "finalize"} => u \in Controllers
      /\ Finalizing <=> Finalizing'
  BY <1>0, <1>1, CallsFacts DEF Operations
<1>3. started' \in 0..MaxStarts /\ started <= started'
  BY <1>0, <1>1
<1>4. wraps' \in [Wrappers -> 0..started']
  BY <1>0, <1>1, <1>3 DEF IInv, TypeOK
<1>5. TypeOK'
  BY <1>1, <1>2, <1>3, <1>4 DEF IInv, TypeOK
<1>6. VmInv'
  BY <1>1 DEF IInv, VmInv
<1>7. CallsInv'
  BY <1>1, <1>2 DEF IInv, CallsInv
<1>8. ModuleInv' /\ GlobalsInv'
  BY <1>1, <1>2 DEF IInv, ModuleInv, GlobalsInv
<1>9. NullsOnlyInTrouble'
  BY <1>1 DEF NullsOnlyInTrouble
<1> QED BY <1>5, <1>6, <1>7, <1>8, <1>9 DEF IInv

\* The rest of startPython: the one controller is here, so that nobody finalizes.
LEMMA ImportModuleIInv ==
  ASSUME IInv, OneController, NEW t \in Threads, ImportModule(t)
  PROVE  IInv'
<1>0. calls[t].op = "start" /\ undefined = "no"
  BY DEF ImportModule, Doing, Defined
<1>1. ~Finalizing
  BY <1>0 DEF IInv, CallsInv, Finalizing, OneController
<1>2. CASE \E b \in {"no interpreter", "null class"} : Meet(b)
  BY <1>2, MeetIInv DEF UndefinedBehaviours
<1>3. CASE /\ calls' = [calls EXCEPT ![t] = [op |-> "idle", wrapper |-> NoWrapper]]
           /\ UNCHANGED <<host, vm, jvm, mustDestroy, loaded, started, initialized, wraps>>
           /\ undefined' \in {"no", "null class"}
           /\ \/ UNCHANGED <<imported, inits, module, globals, failures>>
              \/ initialized /\ ~imported /\ inits < MaxStarts /\ InitModule
  <2>1. /\ calls' \in [Threads -> [op : Operations, wrapper : Wrappers \cup {NoWrapper}]]
        /\ \A u \in Threads : calls'[u].op \in {"start", "stop", "finalize"} => u \in Controllers
        /\ ~Finalizing'
    BY <1>0, <1>1, <1>3, CallsFacts DEF Operations
  <2>2. VmInv' /\ CallsInv' /\ NullsOnlyInTrouble'
    BY <1>3, <2>1 DEF IInv, VmInv, CallsInv, NullsOnlyInTrouble
  <2>3. CASE UNCHANGED <<imported, inits, module, globals, failures>>
    <3>1. TypeOK'
      BY <1>3, <2>1, <2>3 DEF IInv, TypeOK, UndefinedBehaviours
    <3>2. ModuleInv' /\ GlobalsInv'
      BY <1>1, <1>3, <2>3 DEF IInv, ModuleInv, GlobalsInv
    <3> QED BY <2>2, <3>1, <3>2 DEF IInv
  <2>4. CASE initialized /\ ~imported /\ inits < MaxStarts /\ InitModule
    <3>1. /\ inits' \in 0..MaxStarts /\ module' \in 0..inits' /\ module' # 0
          /\ globals' \in [Globals -> 0..inits'] /\ failures' \in 0..MaxFailures
          /\ imported' \in BOOLEAN
          /\ failures' = 0 => failures = 0 /\ imported'
          /\ ~jvm => globals'["Comparable"] = 0
          /\ failures' = 0 /\ jvm => \A g \in Required : globals'[g] = module'
      BY <1>1, <2>4, InitModuleFacts
    <3>2. TypeOK'
      BY <1>3, <2>1, <3>1 DEF IInv, TypeOK, UndefinedBehaviours
    <3>3. ModuleInv' /\ GlobalsInv'
      BY <1>3, <2>4, <3>1 DEF ModuleInv, GlobalsInv
    <3> QED BY <2>2, <3>2, <3>3 DEF IInv
  <2> QED BY <1>3, <2>3, <2>4
<1> QED
  <2>1. CASE ~initialized
    BY <1>2, <2>1 DEF ImportModule
  <2>2. CASE /\ initialized /\ module # 0 /\ Leave(t)
             /\ UNCHANGED <<jvmVars, pythonVars, wraps, undefined>>
    BY <1>0, <1>3, <2>2 DEF Leave, Idle, jvmVars, pythonVars
  <2>3. CASE /\ initialized /\ module = 0 /\ ~imported /\ inits < MaxStarts /\ InitModule /\ Leave(t)
             /\ undefined' = IF ~imported' /\ globals'["RuntimeException"] = 0
                             THEN "null class" ELSE "no"
             /\ UNCHANGED <<jvmVars, started, initialized, wraps>>
    BY <1>3, <2>3 DEF Leave, Idle, jvmVars
  <2>4. CASE /\ initialized /\ module = 0
             /\ IF globals["RuntimeException"] = 0
                THEN Meet("null class")
                ELSE Leave(t) /\ UNCHANGED <<jvmVars, pythonVars, wraps, undefined>>
    <3>1. CASE globals["RuntimeException"] = 0
      BY <1>2, <2>4, <3>1
    <3>2. CASE globals["RuntimeException"] # 0
      BY <1>0, <1>3, <2>4, <3>2 DEF Leave, Idle, jvmVars, pythonVars
    <3> QED BY <3>1, <3>2
  <2> QED BY <2>1, <2>2, <2>3, <2>4 DEF ImportModule

\* A step of thread t that enters or leaves a method and changes, at most,
\* which objects wrappers refer to.
LEMMA QuietIInv ==
  ASSUME IInv, NEW t \in Threads, NEW op \in Operations, NEW w \in Wrappers \cup {NoWrapper},
         op # "finalize", calls[t].op # "finalize",
         op \in {"start", "stop"} => t \in Controllers,
         calls' = [calls EXCEPT ![t] = [op |-> op, wrapper |-> w]],
         wraps' \in [Wrappers -> 0..started],
         UNCHANGED <<host, vm, jvm, mustDestroy, loaded, started, initialized, imported, inits,
                     module, globals, failures, undefined>>
  PROVE  IInv'
<1>1. /\ calls' \in [Threads -> [op : Operations, wrapper : Wrappers \cup {NoWrapper}]]
      /\ \A u \in Threads : calls'[u].op \in {"start", "stop", "finalize"} => u \in Controllers
      /\ Finalizing <=> Finalizing'
  BY CallsFacts
<1>2. TypeOK' /\ VmInv'
  BY <1>1 DEF IInv, TypeOK, VmInv
<1>3. CallsInv' /\ ModuleInv' /\ GlobalsInv' /\ NullsOnlyInTrouble'
  BY <1>1 DEF IInv, CallsInv, ModuleInv, GlobalsInv, NullsOnlyInTrouble
<1> QED BY <1>2, <1>3 DEF IInv

\* PyLib.stopPython
LEMMA StopPythonIInv ==
  ASSUME IInv, NEW t \in Controllers, StopPython(t)
  PROVE  IInv'
<1>1. /\ UNCHANGED <<host, vm, jvm, mustDestroy, loaded, started, initialized, imported, inits,
                     module, globals, failures, wraps, undefined>>
      /\ calls' = [calls EXCEPT ![t] = [op |-> "stop", wrapper |-> NoWrapper]]
      /\ calls[t].op = "idle"
  BY DEF StopPython, Doing, Enter, jvmVars, pythonVars
<1>2. t \in Threads /\ wraps' \in [Wrappers -> 0..started]
  BY <1>1, ConstantsAssumption DEF IInv, TypeOK
<1> QED BY <1>1, <1>2, QuietIInv DEF Operations

\* JPy_free and the beginning of Py_Finalize
LEMMA FreeModuleIInv ==
  ASSUME IInv, NEW t \in Threads, FreeModule(t)
  PROVE  IInv'
<1>0. calls[t].op = "stop" /\ undefined = "no"
  BY DEF FreeModule, Doing, Defined
<1>1. CASE ~initialized \/ Finalizing
  BY <1>1, MeetIInv DEF FreeModule, UndefinedBehaviours
<1>2. CASE initialized /\ ~Finalizing
  <2>1. /\ UNCHANGED <<host, vm, jvm, mustDestroy, loaded, started, initialized, imported, inits,
                       failures, wraps, undefined>>
        /\ module' = 0 /\ ClearGlobalVars
        /\ calls' = [calls EXCEPT ![t] = [op |-> "finalize", wrapper |-> NoWrapper]]
    BY <1>2 DEF FreeModule, Enter, jvmVars
  <2>2. globals' \in [Globals -> 0..inits] /\ globals'["Comparable"] = 0
    BY <2>1, ClearGlobalVarsFacts DEF IInv
  <2>3. calls' \in [Threads -> [op : Operations, wrapper : Wrappers \cup {NoWrapper}]]
    BY <2>1 DEF IInv, TypeOK, Operations
  <2>4. \A u \in Threads : calls'[u].op \in {"start", "stop", "finalize"} => u \in Controllers
    BY <1>0, <2>1 DEF IInv, TypeOK, CallsInv
  <2>5. calls'[t].op = "finalize"
    BY <2>1 DEF IInv, TypeOK
  <2>6. Finalizing'
    BY <2>5 DEF Finalizing
  <2>7. inits \in Nat
    BY ConstantsAssumption DEF IInv, TypeOK
  <2>8. TypeOK'
    BY <2>1, <2>2, <2>3, <2>7 DEF IInv, TypeOK
  <2>9. VmInv' /\ CallsInv'
    BY <1>2, <2>1, <2>4 DEF IInv, VmInv, CallsInv
  <2>10. ModuleInv' /\ GlobalsInv' /\ NullsOnlyInTrouble'
    BY <1>0, <2>1, <2>2, <2>6, <1>2 DEF ModuleInv, GlobalsInv, NullsOnlyInTrouble
  <2> QED BY <2>8, <2>9, <2>10 DEF IInv
<1> QED BY <1>1, <1>2

\* The end of Py_Finalize: nobody else finalizes, there is one controller.
LEMMA FinalizePythonIInv ==
  ASSUME IInv, OneController, NEW t \in Threads, FinalizePython(t)
  PROVE  IInv'
<1>1. /\ UNCHANGED <<host, vm, jvm, mustDestroy, loaded, started, inits, failures, wraps, undefined>>
      /\ undefined = "no" /\ calls[t].op = "finalize"
      /\ initialized' = FALSE /\ imported' = FALSE
      /\ calls' = [calls EXCEPT ![t] = [op |-> "idle", wrapper |-> NoWrapper]]
      /\ \/ module' = 0 /\ ClearGlobalVars
         \/ module' = module /\ globals' = globals
  BY DEF FinalizePython, Doing, Defined, Leave, Idle, jvmVars
<1>2. module = 0
  BY <1>1 DEF IInv, CallsInv, Finalizing
<1>3. module' = 0
  BY <1>1, <1>2
<1>4. globals' \in [Globals -> 0..inits] /\ globals'["Comparable"] = 0
  BY <1>1, <1>2, ClearGlobalVarsFacts DEF IInv, TypeOK, GlobalsInv
<1>5. /\ calls' \in [Threads -> [op : Operations, wrapper : Wrappers \cup {NoWrapper}]]
      /\ calls'[t].op = "idle"
      /\ \A u \in Threads \ {t} : calls'[u] = calls[u]
  BY <1>1 DEF IInv, TypeOK, Operations
<1>6. ~Finalizing'
  BY <1>1, <1>5 DEF IInv, CallsInv, Finalizing, OneController
<1>7. CallsInv'
  BY <1>5, <1>6 DEF IInv, CallsInv
<1>8. inits \in Nat
  BY ConstantsAssumption DEF IInv, TypeOK
<1>9. TypeOK'
  <2>1. initialized' \in BOOLEAN /\ imported' \in BOOLEAN
    BY <1>1, Zenon
  <2>2. module' \in 0..inits
    BY <1>3, <1>8
  <2> QED BY <1>1, <1>4, <1>5, <2>1, <2>2 DEF IInv, TypeOK
<1>10. VmInv'
  BY <1>1 DEF IInv, VmInv
<1>11. ModuleInv' /\ GlobalsInv' /\ NullsOnlyInTrouble'
  BY <1>1, <1>3, <1>4 DEF ModuleInv, GlobalsInv, NullsOnlyInTrouble
<1> QED BY <1>7, <1>9, <1>10, <1>11 DEF IInv

\* A Java thread uses a Python object.
LEMMA UseObjectIInv ==
  ASSUME IInv, NEW t \in Threads, NEW w \in Wrappers, UseObject(t, w)
  PROVE  IInv'
<1>1. /\ UNCHANGED <<host, vm, jvm, mustDestroy, loaded, started, initialized, imported, inits,
                     module, globals, failures, wraps, undefined>>
      /\ calls' = [calls EXCEPT ![t] = [op |-> "use", wrapper |-> w]]
      /\ calls[t].op = "idle"
  BY DEF UseObject, Doing, Enter, jvmVars, pythonVars
<1>2. wraps' \in [Wrappers -> 0..started]
  BY <1>1 DEF IInv, TypeOK
<1> QED BY <1>1, <1>2, QuietIInv DEF Operations

\* The finalizer thread begins to release a wrapper, or finds no interpreter.
LEMMA FinalizeIInv ==
  ASSUME IInv, NEW t \in Threads, NEW w \in Wrappers, Finalize(t, w)
  PROVE  IInv'
<1>0. calls[t].op = "idle"
  BY DEF Finalize, Doing
<1>1. CASE initialized
  <2>1. /\ UNCHANGED <<host, vm, jvm, mustDestroy, loaded, started, initialized, imported, inits,
                       module, globals, failures, wraps, undefined>>
        /\ calls' = [calls EXCEPT ![t] = [op |-> "decRef", wrapper |-> w]]
    BY <1>1 DEF Finalize, Enter, jvmVars, pythonVars
  <2>2. wraps' \in [Wrappers -> 0..started]
    BY <2>1 DEF IInv, TypeOK
  <2> QED BY <1>0, <2>1, <2>2, QuietIInv DEF Operations
<1>2. CASE ~initialized
  <2>1. /\ UNCHANGED <<host, vm, jvm, mustDestroy, loaded, started, initialized, imported, inits,
                       module, globals, failures, calls, undefined>>
        /\ wraps' = [wraps EXCEPT ![w] = 0]
    BY <1>2 DEF Finalize, jvmVars, pythonVars
  <2>2. wraps' \in [Wrappers -> 0..started]
    BY <2>1, ConstantsAssumption DEF IInv, TypeOK
  <2>3. TypeOK' /\ VmInv'
    BY <2>1, <2>2 DEF IInv, TypeOK, VmInv
  <2>4. Finalizing' <=> Finalizing
    BY <2>1 DEF Finalizing
  <2>5. CallsInv' /\ ModuleInv' /\ GlobalsInv' /\ NullsOnlyInTrouble'
    BY <2>1, <2>4 DEF IInv, CallsInv, ModuleInv, GlobalsInv, NullsOnlyInTrouble
  <2> QED BY <2>3, <2>5 DEF IInv
<1> QED BY <1>1, <1>2

\* A native method that has the GIL.
LEMMA ProceedIInv ==
  ASSUME IInv, NEW t \in Threads, Proceed(t)
  PROVE  IInv'
<1>1. CASE \E b \in {"no interpreter", "stale object"} : Meet(b)
  BY <1>1, MeetIInv DEF UndefinedBehaviours
<1>2. CASE /\ wraps' = [wraps EXCEPT ![calls[t].wrapper] =
                           IF calls[t].op = "use" THEN started ELSE 0]
           /\ Leave(t)
           /\ UNCHANGED <<jvmVars, pythonVars, undefined>>
  <2>1. /\ UNCHANGED <<host, vm, jvm, mustDestroy, loaded, started, initialized, imported, inits,
                       module, globals, failures, undefined>>
        /\ calls' = [calls EXCEPT ![t] = [op |-> "idle", wrapper |-> NoWrapper]]
    BY <1>2 DEF Leave, Idle, jvmVars, pythonVars
  <2>2. calls[t].op \in {"use", "decRef"}
    BY DEF Proceed
  <2>3. (IF calls[t].op = "use" THEN started ELSE 0) \in 0..started
    BY ConstantsAssumption DEF IInv, TypeOK
  <2>4. wraps' \in [Wrappers -> 0..started]
    BY <1>2, <2>3 DEF IInv, TypeOK
  <2> QED BY <2>1, <2>2, <2>4, QuietIInv DEF Operations
<1> QED BY <1>1, <1>2 DEF Proceed

-----------------------------------------------------------------------------
(* Theorems *)

\* Every step preserves the invariant.
LEMMA StepIInv == ASSUME IInv, OneController, [Next]_vars PROVE IInv'
<1>1. CASE UNCHANGED vars
  <2>1. UNCHANGED <<host, vm, jvm, mustDestroy, loaded, started, initialized, imported, inits,
                    module, globals, failures, wraps, calls, undefined>>
    BY <1>1 DEF vars
  <2>2. Finalizing' <=> Finalizing
    BY <2>1 DEF Finalizing
  <2>3. TypeOK' /\ VmInv'
    BY <2>1 DEF IInv, TypeOK, VmInv
  <2>4. CallsInv' /\ ModuleInv' /\ GlobalsInv' /\ NullsOnlyInTrouble'
    BY <2>1, <2>2 DEF IInv, CallsInv, ModuleInv, GlobalsInv, NullsOnlyInTrouble
  <2> QED BY <2>3, <2>4 DEF IInv
<1>2. CASE OnLoad
  BY <1>2, OnLoadIInv
<1>3. CASE OnUnload
  BY <1>3, OnUnloadIInv
<1>4. CASE ImportJpy
  BY <1>4, ImportJpyIInv
<1>5. CASE CreateJvm
  BY <1>5, CreateJvmIInv
<1>6. CASE DestroyJvm
  BY <1>6, DestroyJvmIInv
<1>7. CASE UseJava
  BY <1>7, UseJavaIInv
<1>8. ASSUME NEW t \in Threads, t \in Controllers, StartPython(t) \/ StopPython(t)
      PROVE  IInv'
  BY <1>8, StartPythonIInv, StopPythonIInv
<1>9. ASSUME NEW t \in Threads, ImportModule(t)
      PROVE  IInv'
  BY <1>9, ImportModuleIInv
<1>10. ASSUME NEW t \in Threads, FreeModule(t)
       PROVE  IInv'
  BY <1>10, FreeModuleIInv
<1>11. ASSUME NEW t \in Threads, FinalizePython(t)
       PROVE  IInv'
  BY <1>11, FinalizePythonIInv
<1>12. ASSUME NEW t \in Threads, NEW w \in Wrappers, UseObject(t, w) \/ Finalize(t, w)
       PROVE  IInv'
  BY <1>12, UseObjectIInv, FinalizeIInv
<1>13. ASSUME NEW t \in Threads, Proceed(t)
       PROVE  IInv'
  BY <1>13, ProceedIInv
<1> QED BY <1>1, <1>2, <1>3, <1>4, <1>5, <1>6, <1>7, <1>8, <1>9, <1>10, <1>11, <1>12, <1>13 DEF Next

\* The inductive invariant holds in every behaviour with one controller.
THEOREM Invariance == OneController => (Spec => []IInv)
<1> SUFFICES ASSUME OneController PROVE Spec => []IInv
  OBVIOUS
<1>1. IInv /\ [Next]_vars => IInv'
  BY StepIInv
<1> QED BY InitIInv, <1>1, PTL DEF Spec

\* The variables of the life cycle keep their types (jpy_module.c, org_jpy_PyLib.c).
THEOREM TypeCorrect == OneController => (Spec => []TypeOK)
<1>1. IInv => TypeOK
  BY DEF IInv
<1> QED BY <1>1, Invariance, PTL

\* JPy_Module does not survive its interpreter (JPy_free, Py_Finalize).
THEOREM ModuleEndsWithInterpreter == OneController => (Spec => []ModuleIsCurrent)
<1>1. IInv => ModuleIsCurrent
  BY DEF IInv, ModuleInv, ModuleIsCurrent
<1> QED BY <1>1, Invariance, PTL

\* After any number of restarts, and whatever JPy_ClearGlobalVars forgets, Python
\* code finds the globals of the module that it has imported.
THEOREM GlobalsAreReplaced == OneController => (Spec => []GlobalsAreCurrent)
<1>1. IInv => GlobalsAreCurrent
  BY DEF IInv, GlobalsInv, GlobalsAreCurrent, IsPythonRunning
<1> QED BY <1>1, Invariance, PTL

\* JPy_JVM never points to a JVM that has gone (jpy.destroy_jvm).
THEOREM JvmPointerIsValid == OneController => (Spec => []JvmIsAlive)
<1>1. IInv => JvmIsAlive
  BY DEF IInv, VmInv, JvmIsAlive
<1> QED BY <1>1, Invariance, PTL

\* Python code that uses Java meets a NULL among the globals only while Python is
\* being stopped, or after a failure of JPy_InitGlobalVars.
THEOREM NullsAreExplained == OneController => (Spec => []NullsOnlyInTrouble)
<1>1. IInv => NullsOnlyInTrouble
  BY DEF IInv
<1> QED BY <1>1, Invariance, PTL

\* jpy.destroy_jvm leaves the JVM of a process that a JVM hosts alone.
THEOREM HostJvmIsKept == OneController => (Spec => OnlyOwnJvmIsDestroyed)
<1> SUFFICES ASSUME OneController PROVE Spec => OnlyOwnJvmIsDestroyed
  OBVIOUS
<1>1. Spec => []IInv
  BY Invariance
<1>2. IInv /\ [Next]_vars => [vm = "alive" /\ vm' # "alive" => host = "python"]_vars
  <2> SUFFICES ASSUME IInv, [Next]_vars, vm = "alive", vm' # "alive"
               PROVE  host = "python"
    OBVIOUS
  <2>1. host \in {"java", "python"}
    BY ConstantsAssumption DEF IInv, TypeOK
  <2>2. DestroyJvm
    BY DEF Next, vars, OnLoad, OnUnload, ImportJpy, CreateJvm, UseJava, StartPython, StopPython,
           ImportModule, FreeModule, FinalizePython, UseObject, Finalize, Proceed, Meet,
           jvmVars, pythonVars
  <2>3. mustDestroy
    BY <2>2 DEF DestroyJvm
  <2> QED BY <2>1, <2>3 DEF IInv, VmInv
<1> QED BY <1>1, <1>2, PTL DEF Spec, OnlyOwnJvmIsDestroyed

=============================================================================
