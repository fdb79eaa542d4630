------------------------------- MODULE GilState -------------------------------
(***************************************************************************)
(* The GIL protocol of the native half of org.jpy.PyLib.                   *)
(*                                                                         *)
(* Most native methods of PyLib bracket their use of Python objects with   *)
(* JPy_BEGIN_GIL_STATE and JPy_END_GIL_STATE (jni/org_jpy_PyLib.c), macros *)
(* over CPython's PyGILState_Ensure and PyGILState_Release, with a lazy    *)
(* initialisation guarded by the static flag JPy_InitThreads.  newDict and *)
(* copyDict have no brackets, nor has what getMainGlobals does after its   *)
(* own ones: they use Python objects whoever owns the GIL.  The opposite   *)
(* direction, Python code calling a Java method, has no bracket either:    *)
(* the GIL stays with the caller while Java runs (jpy_jmethod.c contains   *)
(* no Py_BEGIN_ALLOW_THREADS).                                             *)
(*                                                                         *)
(* An operating system thread alternates between Java and Python code.     *)
(* Its stack is the sequence frames[t] of the open GIL sections; pc[t] says *)
(* where its top-most code is:                                             *)
(*   "java"     Java code (the bottom of the stack, or called from Python) *)
(*   "monitor"  Java code that waits for a Java monitor                    *)
(*   "begin"    a native method about to test JPy_InitThreads              *)
(*   "init"     a native method that found it unset, about to set it       *)
(*   "save"     a native method that has set it, about to save the thread  *)
(*   "ensure"   in PyGILState_Ensure                                       *)
(*   "python"   inside the brackets, or plain Python code                  *)
(*   "retake"   Python code that gave the GIL up and wants it again        *)
(*   "bare"     a native method outside brackets that uses Python objects  *)
(*   "hung"     a thread that Py_Finalize keeps from ever getting the GIL  *)
(***************************************************************************)
EXTENDS Naturals, Sequences

CONSTANTS
  Threads,             \* operating system threads of the process
  PyThreads,           \* the threads whose bottom frame is Python code
  Host,                \* the Python thread that made the JVM, or NoThread
  NoThread,            \* no thread
  HasMonitor,          \* does the application use a Java monitor
  MaxLeaks,            \* bound on failures of PyImport_AddModule per thread
  MaxDepth             \* bound on nested GIL sections of a thread

ASSUME ThreadsAssumption ==
  /\ PyThreads \subseteq Threads
  /\ NoThread \notin Threads
  /\ Host \in PyThreads \cup {NoThread}

ASSUME BoundsAssumption ==
  /\ HasMonitor \in BOOLEAN
  /\ MaxDepth \in Nat
  /\ MaxLeaks \in Nat

VARIABLES
  current,      \* the thread whose Python thread state is current: the GIL's owner
  counter,      \* gilstate_counter of each thread's thread state, 0 if it has none
  initThreads,  \* JPy_InitThreads
  pc,           \* where each thread's top-most code is
  opening,      \* what the section is for that a thread is about to open
  frames,       \* each thread's open GIL sections, the outermost first
  starter,      \* the thread that called Py_Initialize, NoThread without interpreter
  jpyModule,    \* JPy_Module # NULL
  monitor,      \* owner of the Java monitor and the depth it was entered at
  fatal         \* has CPython called Py_FatalError

\* History variables, which only the properties read.
VARIABLES
  kept,         \* threads in which getMainGlobals has left with the GIL
  careless      \* has a native method been under way without a running Python

vars == <<current, counter, initThreads, pc, opening, frames, starter, jpyModule,
          monitor, fatal, kept, careless>>

-----------------------------------------------------------------------------
(* Types *)

PCs == {"java", "monitor", "begin", "init", "save", "ensure", "python", "retake",
        "bare", "hung"}

\* PyGILState_STATE: was the GIL already held when the section was opened?
GilStates == {"LOCKED", "UNLOCKED"}

\* The two sections of startPython0; the section of any other native method;
\* the section of getMainGlobals called from Java, and (inner) the one that
\* it opens inside the section of executeInternal.
Kinds == {"paths", "import", "method", "globals", "inner"}

Frames == [gil : GilStates, kind : Kinds]

NoMonitor == [owner |-> NoThread, depth |-> 0]

TypeOK ==
  /\ current \in Threads \cup {NoThread}
  /\ counter \in [Threads -> Nat]
  /\ initThreads \in BOOLEAN
  /\ pc \in [Threads -> PCs]
  /\ opening \in [Threads -> Kinds]
  /\ frames \in [Threads -> Seq(Frames)]
  /\ starter \in Threads \cup {NoThread}
  /\ jpyModule \in BOOLEAN
  /\ monitor \in [owner : Threads \cup {NoThread}, depth : Nat]
  /\ fatal \in BOOLEAN
  /\ kept \in SUBSET Threads
  /\ careless \in BOOLEAN

-----------------------------------------------------------------------------
(* Helpers *)

Depth(t) == Len(frames[t])

Top(t) == frames[t][Depth(t)]

\* Is t in a section of kind k?
InSection(t, k) == Depth(t) > 0 /\ Top(t).kind = k

\* Is t in a section that runs nothing but C code of jpy?
InPlainC(t) == \E k \in {"paths", "globals", "inner"} : InSection(t, k)

Goto(t, label) == pc' = [pc EXCEPT ![t] = label]

\* Enter the brackets of a section of kind k.
Open(t, k) == Goto(t, "begin") /\ opening' = [opening EXCEPT ![t] = k]

Push(t) ==
  frames' = [frames EXCEPT ![t] =
               Append(@, [gil  |-> IF current = t THEN "LOCKED" ELSE "UNLOCKED",
                          kind |-> opening[t]])]

Pop(t) == frames' = [frames EXCEPT ![t] = SubSeq(@, 1, Len(@) - 1)]

\* Is the code above the innermost section (or the bottom frame) Python's?
CalledFromPython(t) == Depth(t) > 0 \/ t \in PyThreads

\* What the counter starts from: 1 if CPython itself made the thread state
\* (threading, Py_Initialize), so that no section deletes it.
Base(t) == IF t \in PyThreads \/ t = starter THEN 1 ELSE 0

\* PyLib.isPythonRunning: Py_IsInitialized() && JPy_Module != NULL.
Running == starter # NoThread /\ jpyModule

Die == fatal' = TRUE /\ UNCHANGED <<current, counter, initThreads, pc, opening,
                          frames, starter, jpyModule, monitor, kept, careless>>

-----------------------------------------------------------------------------
(* The life of the interpreter *)

\* In a process of a JVM nothing of Python is there; in one of Python the
\* interpreter runs and jpy has been imported.
Init ==
  /\ current = Host
  /\ counter = [t \in Threads |-> IF t \in PyThreads THEN 1 ELSE 0]
  /\ initThreads = FALSE
  /\ pc = [t \in Threads |-> IF t \notin PyThreads THEN "java"
                             ELSE IF t = Host THEN "python" ELSE "retake"]
  /\ opening = [t \in Threads |-> "method"]
  /\ frames = [t \in Threads |-> <<>>]
  /\ starter = Host
  /\ jpyModule = (Host # NoThread)
  /\ monitor = NoMonitor
  /\ fatal = FALSE
  /\ kept = {}
  /\ careless = FALSE

\* startPython0: Py_Initialize, unless there is an interpreter, makes the
\* thread the owner of the GIL.  Then come the section that extends sys.path,
\* skipped without paths, and the one that imports jpy, skipped if JPy_Module
\* is set.  Nothing keeps two threads from starting Python together.
StartPython(t) ==
  /\ pc[t] = "java"
  /\ Depth(t) < MaxDepth
  /\ \/ Open(t, "paths")
     \/ ~jpyModule /\ Open(t, "import")
  /\ IF starter = NoThread
     THEN /\ starter' = t
          /\ current' = t
          /\ counter' = [counter EXCEPT ![t] = 1]
          /\ UNCHANGED careless
     ELSE /\ careless' = (careless \/ ~initThreads)
          /\ UNCHANGED <<starter, current, counter>>
  /\ UNCHANGED <<initThreads, frames, jpyModule, monitor, fatal, kept>>

\* PyInit_jpy sets JPy_Module, in the section of startPython0 or in a script.
\* When the import fails startPython0 throws, with the interpreter running.
ImportJpy(t) ==
  /\ pc[t] = "python"
  /\ InSection(t, "import") \/ InSection(t, "method")
  /\ current = t
  /\ jpyModule' = TRUE
  /\ UNCHANGED <<current, counter, initThreads, pc, opening, frames, starter,
                 monitor, fatal, kept, careless>>

\* Mutant: JPy_InitThreads survives the interpreter.
StopPythonInitialised(t) ==
  /\ t \notin PyThreads
  /\ pc[t] = "java"
  /\ Depth(t) = 0
  /\ starter # NoThread
  /\ current \in {t, NoThread}
  /\ \E late \in SUBSET {u \in Threads : pc[u] = "ensure"} :
       pc' = [u \in Threads |-> IF u \in PyThreads THEN "retake"
                                ELSE IF Depth(u) > 0 \/ u \in late THEN "hung"
                                ELSE pc[u]]
  /\ careless' = (careless \/ \E u \in Threads :
                     pc[u] \in {"begin", "init", "save", "ensure"})
  /\ current' = NoThread
  /\ counter' = [u \in Threads |-> IF u \in PyThreads THEN 1 ELSE 0]
  /\ frames' = [u \in Threads |-> <<>>]
  /\ starter' = NoThread
  /\ jpyModule' = FALSE
  /\ kept' = {}
  /\ UNCHANGED <<initThreads, opening, monitor, fatal>>

\* stopPython0, if (Py_IsInitialized()): waits in PyGILState_Ensure, clears the
\* globals (JPy_free), finalizes the interpreter and resets JPy_InitThreads.
\* Thread states and open sections are gone.  A Java thread with Python frames
\* or in PyGILState_Ensure may never get the GIL again; a Python thread ends,
\* and stands for one of the next interpreter.  Java code that Python has
\* called does not stop it.
StopPython(t) ==
  /\ t \notin PyThreads
  /\ pc[t] = "java"
  /\ Depth(t) = 0
  /\ starter # NoThread
  /\ current \in {t, NoThread}
  /\ \E late \in SUBSET {u \in Threads : pc[u] = "ensure"} :
       pc' = [u \in Threads |-> IF u \in PyThreads THEN "retake"
                                ELSE IF Depth(u) > 0 \/ u \in late THEN "hung"
                                ELSE pc[u]]
  /\ careless' = (careless \/ \E u \in Threads :
                     pc[u] \in {"begin", "init", "save", "ensure"})
  /\ current' = NoThread
  /\ counter' = [u \in Threads |-> IF u \in PyThreads THEN 1 ELSE 0]
  /\ initThreads' = FALSE
  /\ frames' = [u \in Threads |-> <<>>]
  /\ starter' = NoThread
  /\ jpyModule' = FALSE
  /\ kept' = {}
  /\ UNCHANGED <<opening, monitor, fatal>>

-----------------------------------------------------------------------------
(* JPy_BEGIN_GIL_STATE *)

\* A Java method enters a native method with brackets.  Those of PyObject and
\* PyModule mostly call assertPythonRuns before, which another thread's
\* stopPython may overtake; execScript, executeCode, getMainGlobals, incRef and
\* decRef are entered without.
CallNative(t) ==
  /\ pc[t] = "java"
  /\ Depth(t) < MaxDepth
  /\ \E kind \in {"method", "globals"} : Open(t, kind)
  /\ careless' = (careless \/ ~Running)
  /\ UNCHANGED <<current, counter, initThreads, frames, starter, jpyModule,
                 monitor, fatal, kept>>

\* executeInternal calls getMainGlobals, which opens a section of its own.
MainGlobals(t) ==
  /\ pc[t] = "python"
  /\ InSection(t, "method")
  /\ Depth(t) < MaxDepth
  /\ current = t
  /\ Open(t, "inner")
  /\ UNCHANGED <<current, counter, initThreads, frames, starter, jpyModule,
                 monitor, fatal, kept, careless>>

\* if (!JPy_InitThreads) { ...
TestInitThreads(t) ==
  /\ pc[t] = "begin"
  /\ Goto(t, IF initThreads THEN "ensure" ELSE "init")
  /\ UNCHANGED <<current, counter, initThreads, opening, frames, starter,
                 jpyModule, monitor, fatal, kept, careless>>

\* Mutant: JPy_InitThreads is never set.
ForgetInitThreads(t) ==
  /\ pc[t] = "init"
  /\ Goto(t, "save")
  /\ UNCHANGED <<current, counter, initThreads, opening, frames, starter,
                 jpyModule, monitor, fatal, kept, careless>>

\* ... JPy_InitThreads = 1; PyEval_InitThreads(); ...
SetInitThreads(t) ==
  /\ pc[t] = "init"
  /\ initThreads' = TRUE
  /\ Goto(t, "save")
  /\ UNCHANGED <<current, counter, opening, frames, starter, jpyModule, monitor,
                 fatal, kept, careless>>

\* ... PyEval_SaveThread(): makes no thread state current and drops the GIL,
\* whoever's thread state was current; a fatal error when none was.
SaveThread(t) ==
  /\ pc[t] = "save"
  /\ IF current = NoThread
     THEN Die
     ELSE /\ current' = NoThread
          /\ Goto(t, "ensure")
          /\ UNCHANGED <<counter, initThreads, opening, frames, starter,
                         jpyModule, monitor, fatal, kept, careless>>

\* Mutants: JPy_GIL_AWARE is off, nobody waits; the nesting is not counted.
EnsureUnaware(t) ==
  /\ pc[t] = "ensure"
  /\ IF starter = NoThread
     THEN Die
     ELSE /\ current' = t
          /\ counter' = [counter EXCEPT ![t] = @ + 1]
          /\ Push(t)
          /\ Goto(t, "python")
          /\ opening' = [opening EXCEPT ![t] = "method"]
          /\ UNCHANGED <<initThreads, starter, jpyModule, monitor, fatal, kept,
                         careless>>

EnsureUncounted(t) ==
  /\ pc[t] = "ensure"
  /\ current \in {t, NoThread}
  /\ IF starter = NoThread
     THEN Die
     ELSE /\ current' = t
          /\ Push(t)
          /\ Goto(t, "python")
          /\ opening' = [opening EXCEPT ![t] = "method"]
          /\ UNCHANGED <<counter, initThreads, starter, jpyModule, monitor, fatal,
                         kept, careless>>

\* gilState = PyGILState_Ensure(): blocks while another thread has the GIL;
\* without an interpreter it aborts.
Ensure(t) ==
  /\ pc[t] = "ensure"
  /\ current \in {t, NoThread}
  /\ IF starter = NoThread
     THEN Die
     ELSE /\ current' = t
          /\ counter' = [counter EXCEPT ![t] = @ + 1]
          /\ Push(t)
          /\ Goto(t, "python")
          /\ opening' = [opening EXCEPT ![t] = "method"]
          /\ UNCHANGED <<initThreads, starter, jpyModule, monitor, fatal, kept,
                         careless>>

-----------------------------------------------------------------------------
(* JPy_END_GIL_STATE *)

\* Mutants: a nested section forgets gilState and drops the GIL; an outermost
\* section keeps it; a nested section is left without PyGILState_Release.
ReleaseDrops(t) ==
  counter' = [counter EXCEPT ![t] = @ - 1] /\ current' = NoThread /\ Pop(t)

ReleaseKeeps(t) ==
  counter' = [counter EXCEPT ![t] = @ - 1] /\ current' = t /\ Pop(t)

ReleaseOutermostOnly(t) ==
  /\ counter' = IF Depth(t) = 1 THEN [counter EXCEPT ![t] = @ - 1] ELSE counter
  /\ current' = IF Top(t).gil = "UNLOCKED" THEN NoThread ELSE t
  /\ Pop(t)

\* PyGILState_Release(gilState): a fatal error if the thread state is not
\* current; deletes the thread state when its counter drops to zero, and
\* otherwise restores the state that Ensure found.
Release(t) ==
  /\ counter' = [counter EXCEPT ![t] = @ - 1]
  /\ current' = IF counter[t] = 1 \/ Top(t).gil = "UNLOCKED"
                THEN NoThread ELSE t
  /\ Pop(t)

\* What follows the section: getMainGlobals returns to executeInternal or goes
\* on without the GIL, startPython0 comes to its second section, and any
\* other native method returns to Java.
Continue(t) ==
  \/ /\ InSection(t, "inner")
     /\ Goto(t, "python")
     /\ UNCHANGED opening
  \/ /\ InSection(t, "globals")
     /\ Goto(t, "bare")
     /\ UNCHANGED opening
  \/ /\ InSection(t, "paths") /\ ~jpyModule
     /\ Open(t, "import")
  \/ /\ InSection(t, "import") \/ InSection(t, "method") \/ (InSection(t, "paths") /\ jpyModule)
     /\ Goto(t, "java")
     /\ UNCHANGED opening

EndSection(t) ==
  /\ pc[t] = "python"
  /\ Depth(t) > 0
  /\ IF current # t
     THEN Die
     ELSE /\ Release(t)
          /\ Continue(t)
          /\ UNCHANGED <<initThreads, starter, jpyModule, monitor, fatal, kept,
                         careless>>

\* getMainGlobals returns NULL from between its brackets when PyImport_AddModule
\* fails: the section is left without PyGILState_Release.  If it is the
\* outermost one its thread goes on with the GIL.
MainGlobalsFails(t) ==
  /\ pc[t] = "python"
  /\ InSection(t, "globals") \/ InSection(t, "inner")
  /\ counter[t] < Base(t) + Depth(t) + MaxLeaks
  /\ Pop(t)
  /\ Goto(t, IF Top(t).kind = "inner" THEN "python" ELSE "bare")
  /\ kept' = IF Top(t).gil = "UNLOCKED" THEN kept \cup {t} ELSE kept
  /\ UNCHANGED <<current, counter, initThreads, opening, starter, jpyModule,
                 monitor, fatal, careless>>

-----------------------------------------------------------------------------
(* Native methods without brackets *)

\* newDict and copyDict use Python objects at once.
CallBare(t) ==
  /\ pc[t] = "java"
  /\ Goto(t, "bare")
  /\ UNCHANGED <<current, counter, initThreads, opening, frames, starter,
                 jpyModule, monitor, fatal, kept, careless>>

\* They, or getMainGlobals after its section, convert the result and return.
ReturnBare(t) ==
  /\ pc[t] = "bare"
  /\ Goto(t, "java")
  /\ UNCHANGED <<current, counter, initThreads, opening, frames, starter,
                 jpyModule, monitor, fatal, kept, careless>>

-----------------------------------------------------------------------------
(* Python code between the brackets, or at the bottom of a Python thread *)

\* JMethod_InvokeMethod: Python calls a Java method and keeps the GIL.
CallJava(t) ==
  /\ pc[t] = "python"
  /\ ~InPlainC(t)
  /\ Goto(t, "java")
  /\ UNCHANGED <<current, counter, initThreads, opening, frames, starter,
                 jpyModule, monitor, fatal, kept, careless>>

\* The Java method returns to Python.
ReturnToPython(t) ==
  /\ pc[t] = "java"
  /\ CalledFromPython(t)
  /\ monitor # [owner |-> t, depth |-> Depth(t)]
  /\ Goto(t, "python")
  /\ UNCHANGED <<current, counter, initThreads, opening, frames, starter,
                 jpyModule, monitor, fatal, kept, careless>>

\* The interpreter loop gives the GIL up when its switch interval is over, and
\* takes it again; "tstate mix-up" is a fatal error.
Yield(t) ==
  /\ pc[t] = "python"
  /\ ~InPlainC(t)
  /\ IF current # t
     THEN Die
     ELSE /\ current' = NoThread
          /\ Goto(t, "retake")
          /\ UNCHANGED <<counter, initThreads, opening, frames, starter,
                         jpyModule, monitor, fatal, kept, careless>>

\* A Python thread begins this way, too, in an interpreter that runs.
Retake(t) ==
  /\ pc[t] = "retake"
  /\ Running \/ Depth(t) > 0
  /\ current = NoThread
  /\ current' = t
  /\ Goto(t, "python")
  /\ UNCHANGED <<counter, initThreads, opening, frames, starter, jpyModule,
                 monitor, fatal, kept, careless>>

-----------------------------------------------------------------------------
(* Java code of the application that synchronises on a monitor *)

RequestMonitor(t) ==
  /\ HasMonitor
  /\ pc[t] = "java"
  /\ monitor.owner # t
  /\ Goto(t, "monitor")
  /\ UNCHANGED <<current, counter, initThreads, opening, frames, starter,
                 jpyModule, monitor, fatal, kept, careless>>

EnterMonitor(t) ==
  /\ pc[t] = "monitor"
  /\ monitor = NoMonitor
  /\ monitor' = [owner |-> t, depth |-> Depth(t)]
  /\ Goto(t, "java")
  /\ UNCHANGED <<current, counter, initThreads, opening, frames, starter,
                 jpyModule, fatal, kept, careless>>

ExitMonitor(t) ==
  /\ pc[t] = "java"
  /\ monitor = [owner |-> t, depth |-> Depth(t)]
  /\ monitor' = NoMonitor
  /\ UNCHANGED <<current, counter, initThreads, pc, opening, frames, starter,
                 jpyModule, fatal, kept, careless>>

-----------------------------------------------------------------------------

Step(t) ==
  \/ StartPython(t)
  \/ ImportJpy(t)
  \/ StopPython(t)
  \/ CallNative(t)
  \/ MainGlobals(t)
  \/ TestInitThreads(t)
  \/ SetInitThreads(t)
  \/ SaveThread(t)
  \/ Ensure(t)
  \/ EndSection(t)
  \/ MainGlobalsFails(t)
  \/ CallBare(t)
  \/ ReturnBare(t)
  \/ CallJava(t)
  \/ ReturnToPython(t)
  \/ Yield(t)
  \/ Retake(t)
  \/ RequestMonitor(t)
  \/ EnterMonitor(t)
  \/ ExitMonitor(t)

Next == ~fatal /\ \E t \in Threads : Step(t)

Spec == Init /\ [][Next]_vars

(***************************************************************************)
(* Fairness.  A native method that has been entered goes on, and a section *)
(* whose code stops calling out ends (WF).  CPython asks the owner of the  *)
(* GIL to give it up after the switch interval and makes the owner wait    *)
(* until another thread got it, hence SF for the thread that waits and for *)
(* the interpreter loop that yields.  Java methods that Python calls       *)
(* return, and monitors are left (SF).  Nothing obliges a thread to call   *)
(* anything.                                                               *)
(***************************************************************************)
Fairness ==
  /\ SF_vars(~fatal /\ \E t \in Threads : Yield(t))
  /\ \A t \in Threads :
       /\ WF_vars(~fatal /\ \/ TestInitThreads(t) \/ SetInitThreads(t) \/ SaveThread(t)
                            \/ EndSection(t) \/ ReturnBare(t))
       /\ SF_vars(~fatal /\ (Ensure(t) \/ Retake(t)))
       /\ SF_vars(~fatal /\ (ReturnToPython(t) \/ ExitMonitor(t)))

FairSpec == Spec /\ Fairness

-----------------------------------------------------------------------------
(* Safety.  An application is careless that lets a native method run into a *)
(* Python that is not running: it calls one before startPython or after     *)
(* stopPython without asking isPythonRunning, starts Python in two threads  *)
(* together, or stops it under a native method of another thread.  Then     *)
(* two threads may both find JPy_InitThreads unset, and nothing is promised. *)

\* Code in a section, or Python code, has the current thread state, however the
\* other threads nest, leak sections, use newDict and copyDict, start and stop
\* Python (JPy_BEGIN_GIL_STATE, JPy_END_GIL_STATE).
PythonHoldsGil == careless \/ \A t \in Threads : pc[t] = "python" => current = t

\* A Java thread outside its sections, in Java, in newDict, copyDict or at the
\* end of getMainGlobals, owns the GIL exactly if a getMainGlobals of its own
\* has failed in this interpreter; then it never gives it back.
JavaLeavesGil ==
  careless \/ \A t \in Threads \ PyThreads :
    pc[t] \in {"java", "monitor", "bare"} /\ Depth(t) = 0 =>
      (current = t <=> t \in kept)

\* A thread's counter counts its open sections: no thread state is deleted
\* under a section, and none is left behind by the last one unless
\* getMainGlobals left a section open (MaxLeaks).
CounterMatchesSections ==
  \A t \in Threads :
    counter[t] \in Base(t) + Depth(t) .. Base(t) + Depth(t) + MaxLeaks

\* The calls of PyEval_SaveThread, PyGILState_Ensure and PyGILState_Release in
\* the brackets hit CPython's fatal errors only in careless applications:
\* asking isPythonRunning before is enough, also while startPython imports
\* jpy, after an import that failed and after a restart.
NoFatalError == fatal => careless

\* Leaving a section nested in Python code gives that code back the GIL it
\* called Java with; leaving an outermost one of a Java thread drops it,
\* unless getMainGlobals left a section open before.
SectionRestoresGil ==
  [][\A t \in Threads :
       Depth(t) > 0 /\ Len(frames'[t]) < Depth(t) =>
         \/ careless' \/ starter' = NoThread
         \/ current' = t <=> (Len(frames'[t]) > 0 \/ t \in PyThreads \cup kept')]_vars

(* Liveness *)

\* Java code that Python has called waits for a monitor, with the GIL.
GilIsBlocked == \E t \in Threads : pc[t] = "monitor" /\ current = t

\* A native method that asks for the GIL gets it, unless Python is stopped or
\* the application is careless.
GilIsGranted ==
  \A t \in Threads :
    pc[t] = "ensure" ~> (pc[t] \in {"python", "hung"} \/ careless \/ GilIsBlocked)

-----------------------------------------------------------------------------
(* Refinement: the threads with sections or Python frames, unless they gave *)
(* the GIL up, are the users of an interpreter lock.  Code outside brackets *)
(* (newDict, copyDict) is no user of it, and not protected by it.           *)

Inside ==
  {t \in Threads : \/ pc[t] = "python"
                   \/ /\ pc[t] \in {"java", "monitor", "begin", "ensure", "bare"}
                      /\ CalledFromPython(t)}

Lock == INSTANCE InterpreterLock WITH
          inside <- IF careless THEN {} ELSE Inside

\* The brackets implement the interpreter lock: sections and Python frames of
\* two threads never run together, also when one of them is inside a Java
\* method, across starts and stops of Python.
ImplementsLock == Lock!Spec
=============================================================================
