-------------------------- MODULE ObjectReferences --------------------------
(***************************************************************************)
(* The references to Python objects that Java holds (PyObject.java and the *)
(* native methods of jni/org_jpy_PyLib.c): each instance of PyObject owns  *)
(* one, from its constructor, which calls incRef, to its finalizer, which  *)
(* calls decRef on whatever thread the JVM likes.  In between the native   *)
(* methods, and the conversions of jpy_jtype.c, create references and pass *)
(* pointers on, with or without the reference that goes with them.         *)
(*                                                                         *)
(* A native method is one step under the GIL, but it gets a pointer that   *)
(* Java has read before and returns one that Java wraps after it; a call   *)
(* of Python code is two steps.  newDict and copyDict are one step too,    *)
(* although they do not take the GIL (GilState): what becomes of counts    *)
(* that two threads change at once is not considered here.  Only the objects a program is about are   *)
(* modelled, with their reference counts; what they refer to in turn is    *)
(* the business of Python code.                                            *)
(***************************************************************************)
EXTENDS Integers, FiniteSets

CONSTANTS
    Objects,         \* addresses of Python objects; none is used twice
    NoObject,        \* the pointer 0
    Wrappers,        \* instances of org.jpy.PyObject
    NoWrapper,
    Threads,         \* Java threads
    Operations,      \* the native methods the program uses
    KeepsReceivers,  \* does the program keep a receiver while its method runs
    MaxCount,        \* bound on the references to an object
    MaxPython,       \* bound on those that Python code owns
    MaxLost          \* an object that has lost more gets no more references

\* Native methods by what they do to references; those that only look at an object,
\* such as getObjectValue, str and repr, are left out.  "executeCode" stands for
\* executeScript too; "setAttribute" is given a PyObject,
\* "setValue" anything else; "call" is PyObject.call and callMethod, which pass
\* no parameter classes; a proxy passes those of the Java method it implements,
\* "proxyTyped" when the parameter is a PyObject, "proxyUntyped" when it is of
\* another class, such as Object.
Calls == {"call", "proxyTyped", "proxyUntyped"}
WithArgument == Calls \cup {"setAttribute"}
WithReceiver == WithArgument \cup {"getType", "getAttribute", "getAttributeValue", "setValue", "copyDict"}
AllOperations == WithReceiver \cup {"executeCode", "importModule", "newDict", "passToJava", "returnToPython"}

ASSUME ReferencesAssumption ==
    /\ IsFiniteSet(Wrappers) /\ IsFiniteSet(Threads)
    /\ NoObject \notin Objects
    /\ NoWrapper \notin Wrappers
    /\ Operations \subseteq AllOperations
    /\ KeepsReceivers \in BOOLEAN
    /\ MaxCount \in Nat /\ MaxPython \in Nat /\ MaxLost \in Nat

VARIABLES
    refcnt,     \* [Objects -> ob_refcnt]; an object without references is freed
    born,       \* the objects that have been created
    python,     \* [Objects -> references that Python code owns]
    wraps,      \* [Wrappers -> the pointer of the instance of PyObject]
    pc,         \* [Threads -> what the thread does in a native method]
    stolen,     \* ghost: references that were given away by somebody who keeps them
    lost,       \* ghost: references that everybody has forgotten
    faults      \* ghost: objects that were used after they had been freed

vars == <<refcnt, born, python, wraps, pc, stolen, lost, faults>>

-----------------------------------------------------------------------------
(* Threads in native methods *)

\* "self" and "arg" are the pointers of the receiver and of the argument, which
\* the instances "by" and "with" had when the method was called; "owned" is the
\* number of references to "result" that the thread has in its hands.
Idle == [at |-> "java", op |-> "none", self |-> NoObject, by |-> NoWrapper,
         arg |-> NoObject, with |-> NoWrapper, result |-> NoObject, owned |-> 0]

Pointers == Objects \cup {NoObject}
Instances == Wrappers \cup {NoWrapper}

Frames == [at : {"java", "entered", "running", "wrapping"}, op : AllOperations \cup {"none"},
           self : Pointers, by : Instances, arg : Pointers, with : Instances,
           result : Pointers, owned : 0..2]

\* The variables keep their types; no count is ever negative.
TypeOK ==
    /\ refcnt \in [Objects -> Nat]
    /\ born \subseteq Objects
    /\ python \in [Objects -> Nat]
    /\ wraps \in [Wrappers -> Pointers]
    /\ pc \in [Threads -> Frames]
    /\ stolen \in [Objects -> Nat] /\ lost \in [Objects -> Nat]
    /\ faults \subseteq born

Init ==
    /\ \E o \in Objects : /\ born = {o}
                          /\ refcnt = [x \in Objects |-> IF x = o THEN 1 ELSE 0]
                          /\ python = refcnt
    /\ wraps = [w \in Wrappers |-> NoObject]
    /\ pc = [t \in Threads |-> Idle]
    /\ stolen = [o \in Objects |-> 0] /\ lost = [o \in Objects |-> 0]
    /\ faults = {}

Alive(o) == refcnt[o] > 0
Unused == {w \in Wrappers : wraps[w] = NoObject}
Unborn == Objects \ born

Go(t, frame) == pc' = [pc EXCEPT ![t] = frame]
Leave(t) == Go(t, Idle)
Entered(t, op) == pc[t].at = "entered" /\ pc[t].op = op

\* The native method returns a pointer to Java, with k references.
Wrapping(t, o, k) ==
    [Idle EXCEPT !.at = "wrapping", !.by = pc[t].by, !.result = o, !.owned = k]

\* Objects that Python code can reach: its own and the arguments of a call.
Reached == {o \in born : \/ python[o] > 0
                         \/ \E t \in Threads : pc[t].at = "running" /\ pc[t].arg = o}

\* Undefined behaviour when an object of the set has been freed: the behaviour is
\* not followed any further.
Use(S) == faults = {} /\ faults' = {o \in S \cap born : ~Alive(o)}

\* decRef without its look at the count.
PlusUnchecked(f, o, k) == [f EXCEPT ![o] = IF @ > 0 \/ k < 0 \/ o \notin born THEN @ + k ELSE 0]

\* f with k references to o more, or less; an object that was freed stays freed.
Plus(f, o, k) == [f EXCEPT ![o] = IF @ + k > 0 /\ (@ > 0 \/ o \notin born) THEN @ + k ELSE 0]

Count(f, o, k) == [f EXCEPT ![o] = @ + k]
Known(o) == o \in Reached \/ o \in Unborn
Roomy(o, k) == k = 0 \/ (refcnt[o] + k <= MaxCount /\ lost[o] <= MaxLost)

\* The native method comes up with k references to o, which is new or an object
\* that Python code has.
Obtain(o, k) ==
    /\ Known(o) /\ Roomy(o, k)
    /\ refcnt' = Plus(refcnt, o, k)
    /\ born' = born \cup {o}

-----------------------------------------------------------------------------
(* PyObject.java *)

\* A method of PyObject reads the pointers of its receiver and its argument and
\* calls the native method.
Enter(t, op, w, x) ==
    /\ pc[t] = Idle
    /\ op \in Operations \cap WithReceiver
    /\ w \in Wrappers \ Unused
    /\ IF op \in WithArgument THEN x \in Wrappers \ Unused ELSE x = NoWrapper
    /\ Go(t, [Idle EXCEPT !.at = "entered", !.op = op, !.by = w, !.with = x,
                !.self = wraps[w],
                !.arg = IF x = NoWrapper THEN NoObject ELSE wraps[x]])
    /\ Use({})
    /\ UNCHANGED <<refcnt, born, python, wraps, stolen, lost>>

\* A constructor that takes the pointer for a new reference.
WrapNewReference(t, w) ==
    LET o == pc[t].result IN
    /\ pc[t].at = "wrapping"
    /\ w \in Unused
    /\ wraps' = [wraps EXCEPT ![w] = o]
    /\ lost' = lost
    /\ Use({o})
    /\ Leave(t)
    /\ UNCHANGED <<refcnt, born, python, stolen>>

\* The constructor of PyObject: incRef, for a pointer that the native method has
\* returned.  The references that came with the pointer are forgotten.
Wrap(t, w) ==
    LET o == pc[t].result IN
    /\ pc[t].at = "wrapping"
    /\ w \in Unused /\ Roomy(o, 1)
    /\ wraps' = [wraps EXCEPT ![w] = o]
    /\ refcnt' = Plus(refcnt, o, 1)
    /\ lost' = Count(lost, o, pc[t].owned)
    /\ Use({o})
    /\ Leave(t)
    /\ UNCHANGED <<born, python, stolen>>

\* A thread keeps the argument, which is in the array of arguments, until the
\* native method returns.
Held(w) == \E t \in Threads : pc[t].with = w \/ (KeepsReceivers /\ pc[t].by = w)

\* The finalizer: decRef, which does nothing when the count is 0.
Finalize(w) ==
    /\ w \in Wrappers \ Unused /\ ~Held(w)
    /\ wraps' = [wraps EXCEPT ![w] = NoObject]
    /\ refcnt' = Plus(refcnt, wraps[w], -1)
    /\ Use({wraps[w]})
    /\ UNCHANGED <<born, python, pc, stolen, lost>>

-----------------------------------------------------------------------------
(* Native methods without calls of Python code *)

\* Any of them may fail, before it has acquired anything.
Fail(t) ==
    /\ pc[t].at = "entered"
    /\ Use({pc[t].self})
    /\ Leave(t)
    /\ UNCHANGED <<refcnt, born, python, wraps, stolen, lost>>

\* The type of an object, a borrowed reference.
GetType(t, o) ==
    /\ Entered(t, "getType")
    /\ python[o] > 0
    /\ Use({pc[t].self})
    /\ Go(t, Wrapping(t, o, 0))
    /\ UNCHANGED <<refcnt, born, python, wraps, stolen, lost>>

\* A new reference is returned to Java.
ReturnNew(t, o) ==
    /\ Obtain(o, 1)
    /\ Use({pc[t].self})
    /\ Go(t, Wrapping(t, o, 1))
    /\ UNCHANGED <<python, wraps, stolen, lost>>

GetAttributeObject(t, o) == Entered(t, "getAttribute") /\ ReturnNew(t, o)
ExecuteCode(t, o) == pc[t] = Idle /\ "executeCode" \in Operations /\ ReturnNew(t, o)
ImportModule(t, o) == pc[t] = Idle /\ "importModule" \in Operations /\ ReturnNew(t, o)

\* newDict makes the instance of PyObject itself and keeps the new reference in vain,
\* and so does copyDict, which reads the dictionary of its receiver.
MakeDict(o) ==
    /\ o \in Unborn /\ Obtain(o, 2)
    /\ \E w \in Unused : wraps' = [wraps EXCEPT ![w] = o]
    /\ lost' = Count(lost, o, 1)
    /\ UNCHANGED <<python, stolen>>

NewDict(t, o) ==
    /\ pc[t] = Idle /\ "newDict" \in Operations
    /\ MakeDict(o)
    /\ Use({})
    /\ UNCHANGED pc

CopyDict(t, o) ==
    /\ Entered(t, "copyDict")
    /\ MakeDict(o)
    /\ Use({pc[t].self})
    /\ Leave(t)

\* The value of a new reference that nobody gives back is returned, or thrown
\* away because its conversion fails; or an instance of PyObject is returned.
GetAttributeValue(t, o) ==
    /\ Entered(t, "getAttributeValue")
    /\ \/ Obtain(o, 1) /\ wraps' = wraps
       \/ \E w \in Unused : Obtain(o, 2) /\ wraps' = [wraps EXCEPT ![w] = o]
    /\ lost' = Count(lost, o, 1)
    /\ Use({pc[t].self})
    /\ Leave(t)
    /\ UNCHANGED <<python, stolen>>

\* setAttributeValue with a PyObject: the pointer is lent to PyObject_SetAttrString.
SetAttribute(t) ==
    LET o == pc[t].arg IN
    /\ Entered(t, "setAttribute")
    /\ python[o] < MaxPython /\ Roomy(o, 1)
    /\ refcnt' = Plus(refcnt, o, 1)
    /\ python' = Count(python, o, 1)
    /\ Use({pc[t].self, o})
    /\ Leave(t)
    /\ UNCHANGED <<born, wraps, stolen, lost>>

\* setAttributeValue with another value: the object made of it is not given back
\* after PyObject_SetAttrString, whether that succeeds or not.
SetValue(t, o) ==
    /\ Entered(t, "setValue")
    /\ \/ Obtain(o, 2) /\ python[o] < MaxPython /\ python' = Count(python, o, 1)
       \/ Obtain(o, 1) /\ python' = python
    /\ lost' = Count(lost, o, 1)
    /\ Use({pc[t].self})
    /\ Leave(t)
    /\ UNCHANGED <<wraps, stolen>>

-----------------------------------------------------------------------------
(* Calls of Python code *)

\* PyLib_CallAndReturnObject up to PyObject_CallObject.  PyTuple_SetItem takes a
\* reference to the argument, and only for a parameter of the class PyObject has
\* it been created.
BeginCall(t) ==
    LET o == pc[t].arg
        created == IF pc[t].op = "proxyTyped" THEN 1 ELSE 0
    IN
    /\ pc[t].at = "entered" /\ pc[t].op \in Calls
    /\ Roomy(o, created)
    /\ refcnt' = Plus(refcnt, o, created)
    /\ stolen' = Count(stolen, o, 1 - created)
    /\ Use({pc[t].self, o})
    /\ Go(t, [pc[t] EXCEPT !.at = "running"])
    /\ UNCHANGED <<born, python, wraps, lost>>

\* PyObject_CallObject has returned o; Py_INCREF doubles its reference, of which k
\* are kept, and the tuple of arguments is released.
Returned(t, o, k) ==
    /\ pc[t].at = "running"
    /\ Known(o) /\ Roomy(o, k)
    /\ refcnt' = Plus(Plus(refcnt, o, k), pc[t].arg, -1)
    /\ born' = born \cup {o}
    /\ Use({pc[t].arg})

\* A call that gives the reference to its result back before Java has one.
CallAndReturnBorrowed(t, o) ==
    /\ pc[t].op = "call"
    /\ o \in Reached /\ Returned(t, o, 0)
    /\ Go(t, Wrapping(t, o, 0))
    /\ UNCHANGED <<python, wraps, stolen, lost>>

\* callAndReturnObject: both references come with the pointer that Java gets.
CallAndReturnObject(t, o) ==
    /\ pc[t].op = "call"
    /\ Returned(t, o, 2)
    /\ Go(t, Wrapping(t, o, 2))
    /\ UNCHANGED <<python, wraps, stolen, lost>>

\* callAndReturnValue: Java gets a value, or an instance of PyObject with a third
\* reference; only when the conversion fails one of the two is given back.
CallAndReturnValue(t, o) ==
    /\ pc[t].op \in {"proxyTyped", "proxyUntyped"}
    /\ \/ \E k \in 1..2 : /\ Returned(t, o, k)
                          /\ lost' = Count(lost, o, k)
                          /\ wraps' = wraps
       \/ \E w \in Unused : /\ Returned(t, o, 3)
                            /\ lost' = Count(lost, o, 2)
                            /\ wraps' = [wraps EXCEPT ![w] = o]
    /\ Leave(t)
    /\ UNCHANGED <<python, stolen>>

\* A failing call that does not release the tuple.
RaiseOnly(t) ==
    /\ pc[t].at = "running"
    /\ Use({pc[t].arg})
    /\ Leave(t)
    /\ UNCHANGED <<refcnt, born, python, wraps, stolen, lost>>

\* The code raises an exception; the tuple of arguments is released.
Raise(t) ==
    /\ pc[t].at = "running"
    /\ refcnt' = Plus(refcnt, pc[t].arg, -1)
    /\ Use({pc[t].arg})
    /\ Leave(t)
    /\ UNCHANGED <<born, python, wraps, stolen, lost>>

-----------------------------------------------------------------------------
(* Python code *)

\* An object is passed to Java as a PyObject (JType_CreateJavaPyObject).
PassToJava(w, o) ==
    /\ "passToJava" \in Operations
    /\ w \in Unused /\ o \in Reached /\ Roomy(o, 1)
    /\ wraps' = [wraps EXCEPT ![w] = o]
    /\ refcnt' = Plus(refcnt, o, 1)
    /\ Use({o})
    /\ UNCHANGED <<born, python, pc, stolen, lost>>

\* A Java method returns a PyObject to Python, which gets the pointer
\* (JType_ConvertJavaToPythonObject) as if it were a new reference.
ReturnToPython(w) ==
    LET o == wraps[w] IN
    /\ "returnToPython" \in Operations
    /\ w \notin Unused /\ python[o] < MaxPython
    /\ python' = Count(python, o, 1)
    /\ stolen' = Count(stolen, o, 1)
    /\ Use({o})
    /\ UNCHANGED <<refcnt, born, wraps, pc, lost>>

PythonCreates(o) ==
    /\ o \in Unborn
    /\ refcnt' = Plus(refcnt, o, 1)
    /\ born' = born \cup {o}
    /\ python' = Count(python, o, 1)
    /\ Use({})
    /\ UNCHANGED <<wraps, pc, stolen, lost>>

PythonKeeps(o) ==
    /\ o \in Reached /\ python[o] < MaxPython /\ Roomy(o, 1)
    /\ refcnt' = Plus(refcnt, o, 1)
    /\ python' = Count(python, o, 1)
    /\ Use({o})
    /\ UNCHANGED <<born, wraps, pc, stolen, lost>>

\* A receiver that is kept keeps its type.
IsBorrowed(o) ==
    KeepsReceivers /\ \E t \in Threads : pc[t].result = o /\ pc[t].owned = 0

PythonDrops(o) ==
    /\ python[o] > (IF IsBorrowed(o) THEN 1 ELSE 0)
    /\ refcnt' = Plus(refcnt, o, -1)
    /\ python' = Count(python, o, -1)
    /\ Use({o})
    /\ UNCHANGED <<born, wraps, pc, stolen, lost>>

-----------------------------------------------------------------------------
Native(t) ==
    \/ \E op \in WithReceiver, w \in Wrappers, x \in Instances : Enter(t, op, w, x)
    \/ \E w \in Wrappers : Wrap(t, w)
    \/ \E o \in Objects : GetType(t, o) \/ GetAttributeObject(t, o) \/ GetAttributeValue(t, o)
    \/ \E o \in Objects : ExecuteCode(t, o) \/ ImportModule(t, o) \/ SetValue(t, o)
    \/ \E o \in Objects : NewDict(t, o) \/ CopyDict(t, o)
    \/ \E o \in Objects : CallAndReturnObject(t, o) \/ CallAndReturnValue(t, o)
    \/ Fail(t) \/ SetAttribute(t) \/ BeginCall(t) \/ Raise(t)

Next ==
    \/ \E t \in Threads : Native(t)
    \/ \E w \in Wrappers : Finalize(w) \/ ReturnToPython(w)
    \/ \E w \in Wrappers, o \in Objects : PassToJava(w, o)
    \/ \E o \in Objects : PythonCreates(o) \/ PythonKeeps(o) \/ PythonDrops(o)

Spec == Init /\ [][Next]_vars

-----------------------------------------------------------------------------
(* Properties *)

\* The references that somebody counts on: Python code, instances of PyObject, and
\* native methods for their results and the tuples of arguments.
InstancesOf(o) == {w \in Wrappers : wraps[w] = o}
Returning(o, k) == {t \in Threads : pc[t].result = o /\ pc[t].owned >= k}
Passing(o) == {t \in Threads : pc[t].at = "running" /\ pc[t].arg = o}
Owners(o) == python[o] + Cardinality(InstancesOf(o)) + Cardinality(Passing(o))
               + Cardinality(Returning(o, 1)) + Cardinality(Returning(o, 2))

\* The count of a live object is that of its owners, but for what the native methods
\* above are known to lose (getAttributeObject, getAttributeValue, setAttributeValue with
\* a value, executeCode, importModule, newDict, copyDict: one; call: two; a proxy: one or
\* two) and to give away (arguments of calls and results of Java methods): the other
\* conversions balance, in every interleaving of threads, finalizers and Python code.
ReferencesAreAccounted ==
    \A o \in born : Alive(o) => refcnt[o] + stolen[o] = Owners(o) + lost[o]

\* An object from which no native method has given a reference away lives as long as
\* anybody counts on it.
OwnersKeepAlive ==
    \A o \in born : stolen[o] = 0 /\ Owners(o) > 0 => Alive(o)

\* None of these native methods, no constructor and no finalizer touches a freed object, unless references
\* to it were given away or the program lets go of a receiver while its method runs.
UsesAreSafe == KeepsReceivers => \A o \in faults : stolen[o] > 0

\* The comment in PyLib_CallAndReturnObject: "We must keep unchanged the reference
\* counter when calling a Python method with a complex Python object as parameter."
\* Then the object of an instance of PyObject stays alive, however often it is passed.
WrappersKeepTheirObjects == \A w \in Wrappers \ Unused : Alive(wraps[w])
=============================================================================
