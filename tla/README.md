# A TLA+ project for jpy

jpy is a bridge between Python and Java that works in both directions.  One
shared library is a Python extension module (`jpy`) and the native half of a
Java library (`jpy.jar`) at the same time.  Two runtimes with their own threads,
heaps and object life times share one process, and the C code in
`src/main/c` keeps them consistent.  This directory specifies that code in
TLA+, checks it with TLC and proves theorems about it with TLAPS.

Paths below are relative to the root of the repository.

## Inventory

| Part | State it keeps | Operations | What makes it correct |
|---|---|---|---|
| GIL protocol (`jni/org_jpy_PyLib.c`) | `JPy_InitThreads`, one `gilState` per open bracket; CPython's current thread state and counters | `JPy_BEGIN_GIL_STATE`, `JPy_END_GIL_STATE` around most native methods; `startPython0`, `stopPython0`, `getMainGlobals`; `newDict` and `copyDict`, which have no bracket; `JMethod_InvokeMethod` in the other direction | whoever uses Python objects owns the GIL; leaving a bracket restores what was there; nobody waits for ever |
| Life cycle (`PyLib.java`, `org_jpy_PyLib.c`, `jpy_module.c`) | `JPy_JVM`, `JPy_MustDestroyJVM`, `JPy_Module`, `JPy_Types`, some sixty global references to Java classes and types | `JNI_OnLoad`, `startPython0`, `stopPython0`, `create_jvm`, `destroy_jvm`, `JPy_InitGlobalVars`, `JPy_ClearGlobalVars`, `JPy_free` | no global refers to a type of an interpreter that has ended; no object is used after its interpreter |
| Type registry (`jpy_jtype.c`, `jpy_jobj.c`) | `jpy.types`, and per type `tp_base`, `tp_mro`, `tp_dict`, `isResolving`, `isResolved` | `JType_GetType`, `JType_ResolveType`, `JType_InitSlots`, the callbacks of `jpy.type_callbacks` | each class has one type; types that are given out are complete; class hierarchies survive the translation |
| Overloads (`jpy_jmethod.c`, match functions of `jpy_jtype.c`) | the methods of a name, those without variable arguments first | `JOverloadedMethod_AddMethod`, `JMethod_MatchPyArgs`, `JOverloadedMethod_FindMethod` | the method that is called fits the arguments, best of all, whatever order reflection lists methods in |
| Arguments (`jpy_jmethod.c`, `jpy_jtype.c`) | `jvalue`s and disposers of a call, buffers that are held | `JMethod_CreateJArgs`, `JMethod_InvokeMethod`, `JMethod_DisposeJArgs` | what a call acquires it releases once, output arguments are written back |
| Java arrays as buffers (`jpy_jarray.c`) | `bufferExportCount`, the native copy behind each export | `JArray_GetBufferProc`, `JArray_ReleaseBufferProc` | what is written through a buffer reaches the Java array |
| Java wrappers of Python objects (`PyObject.java`, `org_jpy_PyLib.c`) | the reference count that a wrapper owns | constructor (`incRef`), `finalize` (`decRef`), `call`, `getAttribute`, `setAttribute` | an object lives exactly as long as it is referenced |
| Execution of code (`executeInternal`) | globals and locals, as Python dictionaries and Java maps | `executeCode`, `executeScript`, copies in and out | what the code assigns arrives in the Java maps, also when it fails |
| Collections (`PyListWrapper`, `PyDictWrapper`) | none of their own | the methods of `List` and `Map` | the contracts of the Java interfaces |
| Proxies (`PyProxyHandler`) | the Python object | `invoke` | Java interfaces implemented in Python |
| Configuration (`PyLibConfig.java`, `jpyutil.py`) | system properties, configuration modules, environment | look-ups with a precedence; loading of shared libraries | the same answer on each look-up; no second JVM |
| Conversions (`jpy_conv.c`), exceptions (`JPy_HandleJavaException`, `PyLib_HandlePythonException`) | none | strings, numbers, exceptions | value preserving |
| Diagnostics, JSR 223 engine, DL, build scripts | flags | - | - |

How the parts interact:

* Java calls Python through native methods of `PyLib`; most open a bracket, and
  code inside a bracket may call Java again through `JMethod_InvokeMethod`, on
  the same thread, with the GIL held.
* Each Java object that reaches Python gets the type of its class from the
  registry.  Types are created unresolved where they are only mentioned and are
  resolved on the first access to an attribute (`JObj_getattro`).  Resolution
  fills the overloaded methods of the type, and calls Python code of the
  application through `jpy.type_callbacks`.
* The garbage collector of Java calls `PyObject.finalize` on a thread of its own,
  at any time, also before, after and during a restart of the interpreter.
* `stopPython` releases the globals of the library, while Java objects that wrap
  Python objects live on.

The hard behaviours are therefore: the hand-over of the GIL between nested calls
and threads; the recursion of the type registry through cyclic class graphs,
during which other threads run; state that survives a stop of the interpreter;
overload resolution that depends on the order of methods; buffers and
references with several owners.  `PROJECT.json` lists each of these hazards at
its line.

## Modules

### GilState, InterpreterLock, GilStateProofs

`GilState` models the two macros and everything that is nested in them.  A
thread's stack is `frames[t]`, the open brackets with the `gilState` each of them
keeps, and `pc[t]` says what its top-most code does.  Java code enters a native
method (`CallNative`), tests `JPy_InitThreads` (`TestInitThreads`), perhaps sets it
and calls `PyEval_SaveThread` (`SetInitThreads`, `SaveThread`: three steps, because
no lock is held), waits in `PyGILState_Ensure` (`Ensure`), runs Python code, which
may call Java (`CallJava`, `ReturnToPython`) or lose the GIL to the interpreter loop
(`Yield`, `Retake`), and leaves the bracket (`EndSection`).  `current` and `counter`
are CPython's: the owner of the GIL and the `gilstate_counter` of the thread
states.  A fatal error of CPython ends the behaviour.

* `StartPython` begins `startPython0`, in any thread and also when another one is
  starting Python: `Py_Initialize` unless there is an interpreter, then the
  brackets that extend `sys.path` and import jpy.  The import may fail
  (`ImportJpy` need not happen).
* `StopPython` is `stopPython0`, after which `JPy_InitThreads` is unset and Python
  can be started again.  Threads that wait for the GIL or have Python frames may
  never get on (`"hung"`).
* `MainGlobals` is the bracket of `getMainGlobals` inside that of
  `executeInternal`; as a native method of its own `getMainGlobals` is a
  `CallNative`.  `MainGlobalsFails` is its early return, which leaves the bracket
  open: called from Java the thread goes on with the GIL (`kept`).
* `CallBare` and `ReturnBare` are the native methods that use Python objects
  without a bracket: `newDict`, `copyDict` and the end of `getMainGlobals`.

Nothing checks, when a native method is entered, that Python is running:
`execScript`, `executeCode`, `getMainGlobals`, `incRef` and `decRef` are called
without `assertPythonRuns`, and another thread may stop Python after that test.
The ghost `careless` says that this has happened: a native method with a bracket
was entered while `PyLib.isPythonRunning()` was false, was under way when Python
was stopped, or Python was started in two threads at once.  The properties promise
nothing to such an application, and cannot: without this excuse TLC finds
`PythonHoldsGil` and `NoFatalError` violated.  What they say is that nothing
else is needed.  `isPythonRunning` is true as soon as `PyInit_jpy` begins, while
`startPython0` is still in its bracket, and stays true after an import that
failed; native methods of other threads that come in then are safe, because
`JPy_InitThreads` is set by the bracket that the import is in.

`InterpreterLock` is what the brackets promise: Python frames of one thread at a
time.  `Inside` maps `GilState` to it.  Code without a bracket is not part of
this promise.  What the access of such code does to an object that another thread
changes is undefined and not modelled; `PythonHoldsGil` and `ImplementsLock` say
that it takes the GIL from nobody.

Runs:

* `GilJava` - a JVM that starts, stops and restarts Python, two Java threads, one
  Python thread, three nested brackets, one leaked section per thread.  Three levels
  are enough for Java-Python-Java-Python with `getMainGlobals` on top; every
  hand-over is between two threads, and a third makes a waiting thread be
  overtaken.  The constraint `Explored` lets TLC go on after an application has
  become careless only as long as no bracket is open: two threads that both find
  `JPy_InitThreads` unset get that far, and after it nothing is promised.
* `GilLive` - the same with a Java monitor, one level of brackets and no leaks, as
  long as the application is careful.  Fairness: a native method goes on; the
  interpreter loop gives the GIL up when another thread asks for it, and CPython
  makes the owner wait until somebody else has had it, so that waiting for the
  GIL is strongly fair; Java methods return and leave the monitor.  No thread has
  to call anything.  jpy keeps the GIL while Python calls Java, so that a thread
  may wait for a monitor, with the GIL, while the owner of the monitor waits
  for the GIL.  The run reaches this deadlock; `GilIsGranted` says that a Java
  method that waits in this way (`GilIsBlocked`) is the only thing that keeps a
  native method from the GIL, besides a stop of Python.

Only one level, because what waits is the outermost bracket: a nested one finds
the GIL with its own thread.

In a process that Python hosts (`Host` a Python thread) TLC finds `PythonHoldsGil`
violated: the first bracket calls `PyEval_SaveThread` although Python code is
running.  `doc/intro.rst:11` promises "Support of Java multi-threading".

`GilStateProofs` proves the safety properties for all sets of threads and all
bounds.  `SectionsInv` holds in any process and for any application: types, no
open section without an interpreter (`IdleInv`), and counters between the depth of
the stack and the depth plus the leaks (`CounterInv`).  `CarefulInv` holds in a
process that a JVM hosts until the application becomes careless: nothing fatal
has happened; the owner of the GIL is the thread at `"python"`, in Java code called
from Python, in Java with a GIL that it has kept, or the one that has started
Python and not come to `PyEval_SaveThread` (`OwnerInv`); jpy is imported only
after `JPy_InitThreads` has been set, and without an interpreter nobody is on
the way into a bracket (`StartInv`); which labels go with `JPy_InitThreads`
(`PcInv`); only the outermost frame of a Java thread that does not keep the GIL
remembers `UNLOCKED` (`FrameInv`); and the counter of a thread that keeps it
never drops to zero (`KeptInv`).  None of the properties is inductive alone: that
`Release` restores the right state depends on what `Ensure` found, and that it is
no fatal error depends on who may take the GIL in between.  The assumption
`JavaHosted` (`Host = NoThread`) is necessary, as the violation above shows.

Not modelled: `stopPython` called by Java code that Python has called, and
Windows, where it does nothing (`PyLib.java:61`).

### TypeRegistry, MCTypeRegistry, TypeRegistryProofs

`TypeRegistry` models `JType_GetType`, `JType_ResolveType` and `JType_InitSlots`
over a class graph given by constants.  The recursion of the C functions is the
sequence `stack[t]` of open calls: a `"get"` frame creates a type, a `"resolve"`
frame fills one and is at a member and at one of the classes that the member
mentions.  A step runs to the next point where control enters or leaves such a
call.  The GIL makes calls atomic except at callbacks, where Python code runs and
`Switch` may hand the GIL over.  `Ready` is CPython's `PyType_Ready`, as far as
base types are concerned.  A member is the sequence of classes that it mentions;
the type of the value of a constant counts as mentioned by it.  A field and a
method of a class have different names.  An interface takes `JPy_JObject` as its
super type without asking for it (`jpy_jtype.c:963`), which is not modelled.  A type that jpy has put into `jpy.types` but not made a
Python type yet is in `registered \ slotted`.

Runs:

* `TypesFamily` - two classes that are members of each other, a class and its
  array, a callback that rejects a method, a static field that is not final, up
  to two failures of `JType_New` or `PyType_Ready`. One thread: failures with
  two threads need types that were dropped while somebody else uses them, which
  the model does not tell apart from their successors. Two failures are enough
  for one on the way out of another one's clean-up and a retry that fails again.
  `ResolvedIsComplete` is about runs without failures and leaves out what jpy
  leaves out: methods that the callback rejects and `public static` fields that
  are not `final`, which `JType_ProcessField` drops with a warning
  (`jpy_jtype.c:1236`; `Variables`). `CallsReturn` needs that what was begun
  goes on and that callbacks return.
* `TypesThreads` - two threads and callbacks that call `jpy.get_type`.

`HierarchyIsTranslated` is about `FamilyMembers`.  With the class graph of
`FactorySuper`, `FactoryComponent`, `FactoryMembers`, `NoFields` (for `Fields` and
`Variables`) and `NoneRejected` TLC finds it violated: a super class that mentions
a grandchild gives the class between them a method resolution order without the
super class, although `doc/intro.rst:9` says that jpy "Fully translates Java class
hierarchies to Python".

`GivenIsResolved` and `ResolvedIsComplete` belong to `TypesFamily` because they
hold for one thread only.  With the constants of `TypesThreads` TLC finds both
violated: `JType_ResolveType` returns at once for a type that is being resolved,
so a thread that asks for a type while another one is in a callback gets it with
part of its members, and a member whose type has no `__dict__` yet is dropped.

`TypeRegistryProofs` proves all invariants, and `CompleteIsFinal`, for all class
graphs, `HierarchyIsTranslated` for those in which no class mentions a grandchild.
A step of jpy may be an early return, a new type, a new resolution or a failure,
whoever asks for the type, so the proof first separates the two: who asks
(`Calls`, `Inherits`, `Mentions`, `Leaves`, `Derives`) and what comes of it
(`Returns`, `Resolves`, `Creates`, `Fails`).  `NextCases` says that each step is
one of these pairs, or a call that fails, makes a type complete, goes on with the
next member or finishes (`Abandons`, `Readies`, `MovesOn`, `Finishes`), and what
these do to the calls of all threads is one of four relations: `Steps`, `Grows`,
`Shrinks`, `Cuts`.  On top of that:

* `Core` holds for any threads and callbacks.  Its part `Registration` says that a
  type is in `jpy.types` exactly while it is complete or being created by one
  call, and that a call which is about to return its type is the innermost one; a
  failure therefore drops no complete type.  `ResolvingHaveCalls` says that
  `isResolving` is not left behind.  `TypeOK` and `InProgressIsOnStack` follow.
* `NoFailure` holds until `JType_New` or `PyType_Ready` fails: no type is resolved twice,
  the super class of a type is registered once `JType_InitSuperType` has returned,
  and a complete type has a `tp_dict`.  `ResolvingIsOnStack` and
  `CompleteIsFinal` follow.  After a failure a type may be dropped and created
  again while its sub types still refer to the old one; both share one state in
  the model, so nothing is claimed of the time after.
* `OneByOne` is about one thread whose callbacks do not call `jpy.get_type`: only
  the innermost call waits for a callback, hence `jpy.get_type` always begins with
  nothing in progress.  `GivenIsResolved` follows, failures included.
* `MembersOK` adds that the members so far are in the dictionary of each type that
  is being resolved, and that a type is only asked for to be resolved on behalf of
  its sub types and arrays.  With a class hierarchy that ends (`IsRank`, which
  Java guarantees; `RankExists` shows that the runs have it) such a type is new
  or complete, so that no member is lost to a missing `tp_dict`.
  `ResolvedIsComplete` follows.

* `HierarchyOK` is about the same programs, failures included.  `PyType_Ready`
  derives the method resolution order from the super class, so that has to be
  complete by then.  `SupersFirst` says that a call which is past
  `JType_InitSuperType` has a complete super class, or creates it right above;
  `Derived` that the order of a complete type continues that of its super class.
  What breaks this is a super class that is found in `jpy.types` while it is still
  being created further down the stack.  `Nested` excludes that: a type is only
  created above another one if the other one leads to it (`Leads`), by its super
  classes and components or by what these mention, and under
  `NoGrandchildMentioned` no class is led to by its super class
  (`SuperLeadsNot`).  `HierarchyIsTranslated` follows by induction over the rank
  (`DerivedSupers`).

That there is one thread and no re-entrance is necessary for `GivenIsResolved` and
`ResolvedIsComplete`, as TLC shows (above), and `NoGrandchildMentioned` for
`HierarchyIsTranslated`: `GrandchildOfFactory` in `MCTypeRegistry` is the
assumption that the class graph of the runs has it and that of `FactoryMembers`,
which violates the property, does not.

### MethodOverload, MCMethodOverload, MethodSearchProofs, MethodOverloadProofs

`MethodOverload` models the methods of one name.  Reflection lists the methods of
a class in any order: `AddMethod` takes one of `unlisted` and puts it in its place
in `lists`, as `JOverloadedMethod_AddMethod` does.  `Call` chooses arguments and
computes `outcome`, the method that `JOverloadedMethod_FindMethod` finds and
whether its arguments convert; `Return` forgets it.  `FindMethod` is a recursion
over the methods of a class and then over its super classes, written as recursive
functions.
An argument is a record of what the match functions look at: its Python type, the
Java class of a Java object, the format and the item size of a buffer.  Of a
number it knows its type, and of an int whether a C long (`"wide"`: it does not)
and a double (`"huge"`) hold it.  `family` says which set of methods the behaviour is about.

Runs:

* `Overloads` - four families: instance methods of a class and its super class,
  with and without variable arguments, constructors, and static methods that lose
  to a perfect match of the super class.  Five overloads at most.
  Two classes, because the search looks at one class at a time and passes on the
  best match, and three would repeat the step from the first to the second.
  The super class is resolved first, as `JType_InitSuperType` makes sure.
  Arguments: bool, int (of three widths), float, str, None, lists, buffers, Java strings, boxes and
  arrays.  In Python 3 a bool is an int.  Java sizes are those of any JVM, and a C
  long has eight bytes, like a Java long.

Two more formulas of the module are violated with the constants of `Overloads`,
and no run checks them.  `FixedArityWins`, from the comment at
`jpy_jmethod.c:741`: if `Sub` declares `m(double)` and inherits `m(int...)`, `m(5)`
calls `m(int...)`, because the search goes on with the super class.
`ChosenConverts`, from the comment at `jpy_jmethod.c:243`: a buffer of format `'l'`
matches `int[]` whatever its item size (`jpy_jtype.c:1929`) and then cannot be
converted where a C long has eight bytes.

`ScalarsConvert` says that what the match functions accept can be converted when
the arguments are scalars or Java objects, with one exception.  The match functions
do not look at the size of an int, and the conversions of single parameters do not
look at the error that `PyLong_AsLong` leaves: the int is cut.  Only
`JType_CreateJavaArray` asks `PyErr_Occurred` (`jpy_jtype.c:612`), so that an int
wider than a C long among variable arguments of a primitive type is refused
after it has matched - and so is an array after it if the wide int went to a
parameter in front of it and its error is still set, which the model has too
(`LeavesError`, `ErrorLeft`).

`RefusalsAreJustified` and `TiesArePerfect` say when a call is refused as
ambiguous and when the order of reflection decides.  It does for perfect
matches: `m(int)` and `m(long)` both match a Python int with 100, the search
stops at the first, and a large number is cut to 32 bits if that is `m(int)`.
The table of match values in `doc/reference.rst:345-392` differs from the code in
places (a bool for a `double` parameter is documented as 1 and matches with 50);
the model has the values of the code.

Not modelled: lists of floats, arrays of arrays, class objects as arguments, and
callbacks that reject a method, which `TypeRegistry` has.

`MethodOverloadProofs` proves all properties of `Overloads` for any types, classes
and methods, any arguments and any order of reflection.  The constants are assumed
to be what reflection returns (`MethodsAssumption`: a method with variable
arguments has a last parameter of an array type, inherited methods are listed with
the class) and the types that the match functions know by name are no arrays
(`TypesAssumption`).  That a list has each method once and that methods with
variable arguments come last has to be proved at once: insertion before the first
method with variable arguments keeps the order only if the list is ordered, and
that this first index exists is a fact about well-founded orders (`WFMin`).

What the search finds is the subject of `MethodSearchProofs`.  Its loops are
recursive functions over the method list and over the classes; `NaturalsUp` is
induction over the natural numbers in the form of a set that is closed under
successor, which the provers can use where the library's theorem with an operator
parameter is of no use.  `SearchSteps` and `VisitSteps` show with it that the
recursive definitions define a function, and `SearchResult` and `FoundInClass`
carry the invariant `Search` through the turns of the loop: the best method so
far, how many are worth the same, and that the search may stop at a perfect match.
The last part rests on `ValueFacts`, the bound of match values: 100 for each
argument unless the method has variable arguments, and on the order of the list.
`ScalarConverts` compares the match functions with the conversions, type by type.

The proof changed one property.  That no method of the class asked is better
than the one called is not true of every class: a method with variable arguments
of which none is passed is worth 20 in addition, more than a perfect match,
and if two of them tie, the search goes on, and a perfect match of a super class
ends it although its value is smaller (`jpy_jmethod.c:815-819`).
`NoBetterOverload` states this exception, and the fourth family reaches it.

### PyLibLifecycle, PyLibLifecycleProofs

`PyLibLifecycle` models what the two runtimes know of each other while they start
and stop.  `vm` is the JVM and `jvm` the pointer `JPy_JVM`; `started` counts
interpreters and `initialized` is `Py_IsInitialized()`; `module` stands for
`JPy_Module`, `JPy_Types` and the other pointers that `JPy_free` resets.
`globals` are those of `JPy_InitGlobalVars`, in groups that have the same fate, in
the order in which they are set; each remembers the initialisation of the module
that it is from.  Failures of `JPy_InitGlobalVars` leave a prefix set.  A native
method of a Java thread has two steps, the test that it makes without the GIL
(`UseObject`, `Finalize`) and its work with the GIL (`Proceed`); `stopPython` has
three, because `Py_Finalize` runs Python code and lets other threads in.
What the process does after undefined behaviour is not said: `undefined` names
it and the behaviour ends.

Runs:

* `Lifecycle` - both hosts; three interpreters, because the third is the first
  that follows a restart of a restart; one thread that controls Python and one
  that uses and finalizes two objects; one failure of `JPy_InitGlobalVars`.
* `LifecycleRestart` (violated) - a wrapper outlives its interpreter and is
  released in the next one.

`PyLib.java:230-235` warns that stopping Python again after a restart "currently
causes a fatal error" in `Py_Finalize`.  The model has no such error: it says what
jpy does with its own state, in the third interpreter too, and `Py_Finalize` in it
does what CPython documents.

`GlobalsAreCurrent` is about the groups that `JPy_ClearGlobalVars` forgets as
well: the next initialisation overwrites them, since the group it looks at is
always cleared.  `NullsOnlyInTrouble` does not say that Python code never meets a
NULL: code that runs during `Py_Finalize`, an exit handler for instance, does.
`FailuresAreThrown`, which no run checks, is violated: when the first import of jpy
fails, the class of the exception that `PyLib.java:177` documents is still NULL
(`org_jpy_PyLib.c:295`), since the import would have set it.
Not modelled: a failure of `Py_Initialize`, `setPythonHome`, stopping on
Windows (where it does nothing), and Java threads that `DestroyJavaVM` waits for.

`PyLibLifecycleProofs` proves the properties of `Lifecycle` for any threads,
wrappers and numbers of restarts and failures, provided that one thread controls
Python (`OneController`).  The proviso is needed: with a second controller TLC
finds that `startPython` imports the module while `stopPython` of the other
thread is in `Py_Finalize`, and `JPy_Module` outlives its interpreter.  The
invariant has these parts: who has which JVM (`VmInv`: in a process that Python
hosts a living JVM is jpy's own, in a process that a JVM hosts none is); a thread
that finalizes has freed the module before (`CallsInv`); a module without failure
is imported (`ModuleInv`); and the first global, at which `JPy_InitGlobalVars`
looks, is NULL without a module and without a JVM, and otherwise everything
that is required dates from this module (`GlobalsInv`).  The last part is not
inductive without the others: an early return of `JPy_InitGlobalVars` is harmless
only because there is no way to a new module with the first global still set,
unless something has failed before.

### ArrayBuffers, CallArguments, MCCallArguments, CallArgumentsProofs

`ArrayBuffers` models the views of one primitive Java array, `view`, and the count
of exports of each `JPy_JArray` that refers to it.  `Get<Type>ArrayElements`
returns a copy in HotSpot, so that each view has its own; `ReleaseBuffer` copies
back the view that is released last and forgets the others.  `ideal` is what the
array would contain if there were no copies, and `quiet` says whether everybody
has used the innermost copy only; both are ghosts.

`CallArguments` extends it by calls of Java methods.  `stack` has a frame per
running call with its arguments, the `jvalue`s converted so far and the disposer of
each.  `PassValue`, `PassObject`, `PassVarArgs` and `PassBuffer` are the converters,
one argument at a time; `RefuseArg` and `RefuseBuffer` their failures, after which
nobody knows any more what the arguments before have acquired (`lost`).
`ReturnArray` and `ReturnOrThrow` are the end of `JMethod_InvokeMethod`, where the
result is made before the arguments are disposed; `ReturnObject` and
`ThrowFromConstructor` are that of `JObj_init`.  While a call is in Java, Python
callbacks may use the views and call Java again.

Run `Arguments`: two views through two `JPy_JArray` objects of one array, four
methods that have between them every kind of parameter (mutable, output, return,
variable arguments, constructor), calls nested once, five local references, which
are enough for two calls with two arguments each and one that is lost, and one
call that does not give everything back.  Two contents tell a current copy from
a stale one.  Third views and third calls repeat what the second ones do.
`LikeOneArray` is the abstract specification: one array that everybody shares.  It
needs `quiet`, since copies of overlapping views are lost, and that is how the code
works: `jpy_jarray.c:187` releases the elements of the last view only.

`CallArgumentsProofs` proves the five properties of the run for any methods with at
least one parameter, any contents and arrays, any finite sets of views and local
references, and any depth of nested calls.  Two of them had to be strengthened.
`ExportsAreHeld` is inductive with the fact that an exported view is open and, if an
export was lost, that there are never fewer exports than arguments which hold the
view (`ExportsCounted`).  `LikeOneArray` says nothing of a view that is exported,
but what a call leaves behind in the view when it returns is what has to be
current afterwards: `Current` says that a view is current as soon as all its
exports are held by arguments none of which is to be copied back.  A writable
argument makes the view stale until the last writable argument of the call, whose
array is current, has been copied to it (`CurrentReleased`).  `RefsOwned` needs
that a reference belongs to one argument of one frame, and that the next
reference can always be found (`Room`), which `BeginCall` makes sure of.  An
argument keeps the disposer that its parameter requires (`Fitting`), so that the
array of a mutable return parameter is the one that is copied back
(`ReturnCopiesBack`).  The lemmas take the stack as a parameter and speak of what
a push, a pop and a new argument do to what calls owe, hold and have copied; each
action then cites one of each kind.

Abstracted: the elements of an array are one value; `GetPrimitiveArrayCritical`
succeeds; the slice of the tuple that variable arguments are taken from is not
counted (`jpy_jtype.c:1531` never releases it); shape and format of a view.

### ObjectReferences, MCObjectReferences, ObjectReferencesProofs

`ObjectReferences` models who owns references to Python objects.  `refcnt` is
`ob_refcnt`; `python` are the references of Python code; `wraps` the pointers of
instances of `org.jpy.PyObject`; `pc[t]` a native method with the pointers it was
given and the references it has in its hands.  A native method starts with
pointers that Java has read before (`Enter`), does its work under the GIL, and
returns a pointer that Java wraps afterwards (`Wrap`).  Calls of Python code are
two steps (`BeginCall`; `CallAndReturnObject`, `CallAndReturnValue` or `Raise`), for
Python code and other threads run in between.  `stolen` and `lost` count what the
native methods give away without having it and what they forget: the ghosts make
the balance `ReferencesAreAccounted` exact.  They name what the code does wrong
and do not rule it out: the property says that no reference is lost or given away
on any other path.  `NewDict` and `CopyDict` (`PyLib.newDict`, `copyDict`) lose one
reference each.  They run without the GIL, and the model has them atomic like the
other steps; `GilState` says what else may be running.

Runs:

* `References` - two threads, two objects and two wrappers, the native methods that
  create references or pass them on.
  With two objects an argument and a receiver or result differ or are the
  same; four references to an object are what a call and a wrapper can give it
  at once; one reference of Python code, because a second one is dropped like
  the first; an object from which references have leaked gets no more.  The
  behaviour ends when no address is left or at undefined behaviour, so that a
  deadlock is no error.
* `ReferencesCalls` (violated) - `PyObject.call` gives the tuple of arguments a
  reference that it does not have.  The second call with the same argument frees
  the object under its wrapper.

The program keeps the receiver of a method reachable while it runs
(`KeepsReceivers`); it need not, since `PyObject` reads its pointer before it calls
the native method, and then a finalizer on another thread may free the object:
with `KeepsReceivers = FALSE` `UsesAreSafe` claims nothing, and TLC finds the use
of a freed object if it does.

`ObjectReferencesProofs` proves the four properties of `References` for any
finite sets of objects, wrappers and threads.  None of them is inductive alone: an
object may be used because somebody owns it, and the count of owners is right
only while native methods have the pointers they were given.  `IInv` joins them
with two facts: `KnowsBorn`, that only objects that were created have owners, and
`FrameInv`, that the wrappers a native method was entered with still have the
pointers it has read, and that what it borrows belongs to Python code.  The owners
are counted as one sum of cardinalities (`Counted`), and the lemmas before the
actions say how one wrapper or one thread changes it (`OwnersOfInstance`,
`OwnersOfThread`, `OwnersOfBoth`).  Each action then shows by how much it changes
the references that should be there (`Due`) and that `refcnt` changes by the same
number (`Balanced`); `BalancedStep` turns that into the invariant.  That threads
do not disturb each other's frames is `FramesStep`.

Not modelled: the reference to a callable that `getAttributeObject` gets and
gives back within one step, conversions of values (`getObjectValue`,
`getObjectArrayValue`, `str`, `repr`), and objects that refer to others.

### ExecuteCode, MCExecuteCode, ExecuteCodeProofs

`ExecuteCode` models `executeInternal`.  Java maps are shared; `pc[t]` is an
execution that copies first the globals and then the locals to dictionaries
(`UseArgument`, `CopyIn`, `RefuseMap`, `CopyNull`), runs the code (`RunCode`, any
change of the dictionaries, with or without an exception) and copies back
(`SkipCopy`, `RefuseDict`, `RefuseClear`, `Clear`, and `Fill` or `RefusePut`), also
when something has failed.  A map is `Unmodifiable` (`clear` throws), `Choosy` (`put`
throws for null, like that of a `ConcurrentHashMap`) or takes everything.  The GIL is held except while the code runs; `PutInJava` is a Java
thread that needs no GIL.  `disturbed` is a ghost: the maps that Java has changed
since this execution has cleared them.

Runs:

* `Execute` - two executions, a map that takes everything, one that cannot be
  changed and one that refuses null, each for globals, locals or both.  One name with four contents: absent, None, a
  number that keeps its value on the way back and one that does not.
  Two constraints: of the two maps that can be changed one is used until it is
  empty again (`OneModified`), since what happens to one does not depend on the
  other, and one execution at a time has maps for both scopes (`OneOfTwoMaps`),
  since the other one gets to a map of it through one scope as well as through two.
  The theorem has neither.
* `ExecuteNull` (violated) - a map with a value that is null brings the JVM down,
  although the code itself puts null into the map when it copies None back.

`EntriesAreCopiedBack` does not say that nothing is ever lost.  If the code leaves
None for a choosy map, `clear` has succeeded when `put` throws
(`org_jpy_PyLib.c:622-625`), and what was in the map is gone; the property says that
the map is then empty and that Java gets an exception.

`ExecuteCodeProofs` proves the three properties of `Execute` for any threads and
maps, with an invariant that says of each frame what its exception is
(`FailureInv`), and what the maps contain between `Clear` and the end of the
execution (`CopyInv`): empty while they are being filled, equal to what the map takes
of the converted globals while the locals are copied, unless Java has changed them or both scopes
are one map.  That other executions do not disturb this is the point of the lemma
`ThreadStep`: while a thread copies back nobody else has the GIL.

Abstracted: dictionaries with a key that is no string, or with a value that cannot
be converted, are `odd`.  A map has one entry, and `put` refuses nothing but null:
with several entries the loop goes on after a `put` that threw and calls Java with
the exception pending, which JNI leaves undefined.  For the same reason `hasNext`
does not throw: its exception is not looked at (`org_jpy_PyLib.c:524`), and the
calls that follow are undefined.

## Proved, checked, not covered

| Module | Proved for all constants | Checked by TLC only |
|---|---|---|
| `GilState` | `TypeOK`, `PythonHoldsGil`, `JavaLeavesGil`, `NoFatalError`, `SectionRestoresGil`, `CounterMatchesSections`, `ImplementsLock`; `TypeOK` and `CounterMatchesSections` in any process, the others for a process that a JVM hosts and an application that calls nothing while Python is not running | `GilIsGranted` |
| `TypeRegistry` | `TypeOK`, `InProgressIsOnStack`; `ResolvingIsOnStack` and `CompleteIsFinal` until `JType_New` or `PyType_Ready` fails; `GivenIsResolved`, `ResolvedIsComplete` and (no grandchild mentioned) `HierarchyIsTranslated` for one thread without re-entrance | `CallsReturn` |
| `MethodOverload` | `TypeOK`, `FixedFirst`, `NoBetterOverload`, `TiesArePerfect`, `RefusalsAreJustified`, `ScalarsConvert` (with its exception for wide ints) | - |
| `PyLibLifecycle` | `TypeOK`, `GlobalsAreCurrent`, `ModuleIsCurrent`, `JvmIsAlive`, `NullsOnlyInTrouble`, `OnlyOwnJvmIsDestroyed`, with one controller | - |
| `ArrayBuffers`, `CallArguments` | `TypeOK`, `ExportsAreHeld`, `RefsAreOwned`, `LikeOneArray`, `ReturnedArgumentIsCurrent` | - |
| `ObjectReferences` | `TypeOK`, `ReferencesAreAccounted`, `OwnersKeepAlive` and `UsesAreSafe`, the last two for programs that keep receivers | - |
| `ExecuteCode` | `TypeOK`, `FirstFailureIsThrown`, `EntriesAreCopiedBack` (maps that refuse null may lose what they had, with an exception) | - |

Liveness under fairness and `ENABLED` are beyond TLAPS.  Induction over data is
done with `NaturalsUp`, since the library's theorems that take an operator cannot
be instantiated with the provers at hand.  No module that is proved about reaches a
RECURSIVE operator.

Each property of a passing run has a mutant in `PROJECT.json`, a plausible bug in
one definition that makes TLC find the property violated.

## Not modelled

* Collections (`PyListWrapper`, `PyDictWrapper`): each method is one call of a
  Python method or of the native methods of `ObjectReferences`.
* Configuration (`PyLibConfig`, `jpyutil`): look-ups in files, properties and the
  environment that one thread makes at start-up; a model would be a table.
* Conversions of numbers and strings: pure functions.  That a number of more than
  32 bits comes back narrow is part of `ExecuteCode`.
* Exceptions and messages: one exception is formatted as another one.
* Diagnostics, the JSR 223 engine, `DL.java` and the build scripts keep no state
  that anything else depends on.

## Plan

Every safety property of the passing runs is proved, under the conditions in the
table above, so that what remains is to be modelled: the callable of a call and
attributes of types, as parts of `ObjectReferences` and `PyLibLifecycle`.
