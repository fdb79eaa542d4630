---------------------------- MODULE CallArguments ----------------------------
(***************************************************************************)
(* The arguments of a call from Python to Java (jpy_jmethod.c,             *)
(* jpy_jobj.c, jpy_jtype.c): what JMethod_CreateJArgs acquires for them -  *)
(* Python buffers and JNI local references - and what JMethod_InvokeMethod *)
(* and JObj_init give back through the disposers.                          *)
(*                                                                         *)
(* The buffers are views of a Java array, so that a call adds a second     *)
(* copy to the one of ArrayBuffers: array, view, argument.  Java may call  *)
(* back Python code, which may use the views and call Java in its turn.    *)
(* The GIL is held from the conversion of the first argument to the        *)
(* disposal of the last except within such callbacks: calls form a stack.  *)
(* A local reference lives until someone deletes it, as it does in a       *)
(* Python program, where no native method returns to Java.                 *)
(***************************************************************************)
EXTENDS ArrayBuffers, Sequences

CONSTANTS
    Methods,      \* the methods and constructors that are called
    Refs,         \* JNI local references
    NoRef,        \* the value is no local reference
    NoView,       \* the result is not an argument
    MaxDepth,     \* bound on nested calls
    MaxLosses     \* bound on calls that do not give everything back

\* The type of a parameter: a primitive array, another class, a primitive, or
\* the array of the variable arguments
ParamTypes == {"array", "object", "primitive", "varargs"}
Params == [type : ParamTypes, isMutable : BOOLEAN, isOutput : BOOLEAN]

\* "paramIndex" is that of the returnDescriptor, 0 for none
ASSUME CallsAssumption ==
    /\ \A m \in Methods : /\ m.params \in Seq(Params) \ {<<>>}
                          /\ m.paramIndex \in 0..Len(m.params)
                          /\ m.isConstructor \in BOOLEAN
    /\ IsFiniteSet(Refs)
    /\ NoRef \notin Refs
    /\ NoView \notin Views
    \* no view is one of the other kinds of arguments
    /\ Views \cap {"reference", "object", "misfit"} = {}
    /\ MaxDepth \in Nat /\ MaxLosses \in Nat

VARIABLES
    stack,      \* frames of the running calls, the innermost last
    local,      \* [Refs -> what the local references refer to]
    exports,    \* [Views -> Py_buffer structures obtained from the view]
    result,     \* of the call that returned last
    lost,       \* ghost: what calls have failed to give back
    losses      \* ghost: how many of them did

callVars == <<stack, local, exports, result, lost, losses>>
vars == <<bufferVars, callVars>>

-----------------------------------------------------------------------------
(* Arguments and frames *)

\* None or a jpy object, another Python object that can be converted, one that
\* cannot, or a view
Args == {"reference", "object", "misfit"} \cup Views

\* what JMethod_MatchPyArgs lets through
Fits(arg, type) ==
    CASE type = "array" -> TRUE
      [] type \in {"object", "varargs"} -> arg \notin Views
      [] type = "primitive" -> arg = "object"

Free == [kind |-> "free", data |-> Zero]
Object == [kind |-> "object", data |-> Zero]
Array(x) == [kind |-> "array", data |-> x]

NewRef == CHOOSE r \in Refs : local[r] = Free
FreeRefs == {r \in Refs : local[r] = Free}

\* what JMethod_CreateJArgs keeps of an argument: a jvalue and an argDisposer
JArg(r, dispose) == [ref |-> r, dispose |-> dispose]

ArgIndices == UNION {DOMAIN m.params : m \in Methods}

Frame(m, args) == [method |-> m, args |-> args, jargs |-> <<>>, phase |-> "convert"]

\* the arguments of a frame that are to be disposed by one of some disposers
Disposers == {"ref", "readonly", "writable"}
With(f, disposers) == {i \in DOMAIN f.jargs : f.jargs[i].dispose \in disposers}

Busy == stack # <<>>
Top == stack[Len(stack)]
SetTop(f) == stack' = [stack EXCEPT ![Len(stack)] = f]
Pop == stack' = SubSeq(stack, 1, Len(stack) - 1)

Arity(f) == Len(f.method.params)
Converting == Busy /\ Top.phase = "convert"
InJava == Busy /\ Top.phase = "java"

\* Python code runs at the bottom and in callbacks.
PythonRuns == ~Busy \/ InJava

\* the argument that is converted next, and its paramDescriptor
Arg == Top.args[Len(Top.jargs) + 1]
Param == Top.method.params[Len(Top.jargs) + 1]

\* Java is called as soon as the last argument has been converted.
Keep(jarg) ==
    SetTop([Top EXCEPT !.jargs = Append(@, jarg),
                       !.phase = IF Len(Top.jargs) + 1 = Arity(Top) THEN "java" ELSE @])

NoResult == [of |-> NoView, data |-> Zero]

TypeOK ==
    /\ BufferTypeOK
    /\ \A k \in 1..Len(stack) :
         LET f == stack[k] IN
         /\ f.method \in Methods
         /\ f.args \in Seq(Args) /\ Len(f.args) = Arity(f)
         /\ f.jargs \in Seq([ref : Refs \cup {NoRef},
                             dispose : Disposers \cup {"nothing"}])
         /\ Len(f.jargs) <= Arity(f)
         /\ f.phase \in {"convert", "java"}
         \* only the innermost call is not in Java
         /\ k < Len(stack) => f.phase = "java"
    /\ local \in [Refs -> [kind : {"free", "object", "array"}, data : Contents]]
    /\ exports \in [Views -> Nat]
    /\ result \in [of : Views \cup {NoView}, data : Contents]
    /\ lost \subseteq {"exports", "refs"}
    /\ losses \in 0..MaxLosses

Init ==
    /\ BufferInit
    /\ stack = <<>>
    /\ local = [r \in Refs |-> Free]
    /\ exports = [v \in Views |-> 0]
    /\ result = NoResult
    /\ lost = {}
    /\ losses = 0

-----------------------------------------------------------------------------
(* Python code and Java threads, between the steps of the calls *)

OpenView(v, a, flags) == PythonRuns /\ GetBuffer(v, a, flags) /\ UNCHANGED callVars

\* memoryview.release refuses while the view is exported in its turn.
CloseView(v) ==
    /\ PythonRuns
    /\ exports[v] = 0
    /\ ReleaseBuffer(v)
    /\ UNCHANGED callVars

AssignView(v, x) ==
    /\ PythonRuns
    /\ WriteView(v, x, exports[v] > 0)
    /\ UNCHANGED callVars

\* by a[i] = x, by Java code that has got the array or by any Java thread
AssignArray(x) == WriteArray(x) /\ UNCHANGED callVars

-----------------------------------------------------------------------------
(* JMethod_CreateJArgs: the conversion of the arguments, one after the other *)

BeginCall(m, args) ==
    /\ PythonRuns
    /\ Len(stack) < MaxDepth
    /\ Cardinality(FreeRefs) > Len(m.params) + Len(stack)
    /\ Len(args) = Len(m.params)
    /\ \A i \in 1..Len(args) :
         Fits(args[i], m.params[i].type) /\ (args[i] \in Views => IsOpen(args[i]))
    /\ stack' = Append(stack, Frame(m, args))
    /\ result' = NoResult
    /\ UNCHANGED <<bufferVars, local, exports, lost, losses>>

\* None is null; a jpy object has a global reference; a primitive is a value.
PassValue ==
    /\ Converting
    /\ Arg = "reference" \/ Param.type = "primitive"
    /\ Keep(JArg(NoRef, "nothing"))
    /\ UNCHANGED <<bufferVars, local, exports, result, lost, losses>>

KeepNew(object, dispose) ==
    /\ local' = [local EXCEPT ![NewRef] = object]
    /\ Keep(JArg(NewRef, dispose))

\* JType_ConvertPythonToJavaObject: a new local reference, to be deleted
PassObject ==
    /\ Converting
    /\ Arg = "object" /\ Param.type \in {"array", "object"}
    /\ KeepNew(Object, "ref")
    /\ UNCHANGED <<bufferVars, exports, result, lost, losses>>

\* A new Java array of what is left of the arguments.  "object" stands for all
\* of them: they come in a slice of the tuple, which is neither None nor a jpy
\* object nor a buffer, whatever it contains.
PassVarArgs ==
    /\ Converting
    /\ Arg = "object" /\ Param.type = "varargs"
    /\ KeepNew(Object, "ref")
    /\ UNCHANGED <<bufferVars, exports, result, lost, losses>>

Grants(v, p) == p.isMutable => ~view[v].readonly

\* The buffer is locked and copied to a new Java array, unless the parameter
\* is a mere output.  With an output parameter the array starts as zeros, and
\* these replace what was in the buffer.
PassBuffer ==
    /\ Converting
    /\ Arg \in Views /\ Grants(Arg, Param)
    /\ LET v == Arg
           x == IF Param.isOutput THEN Zero ELSE view[v].buf
           replaces == Param.isOutput /\ Param.isMutable
       IN /\ exports' = [exports EXCEPT ![v] = @ + 1]
          /\ KeepNew(Array(x), IF Param.isMutable THEN "writable" ELSE "readonly")
          /\ Track(x, quiet /\ (x = ideal \/ (replaces /\ Open = {v} /\ exports[v] = 0)))
    /\ UNCHANGED <<array, bufferExportCount, view, result, lost, losses>>

\* The call gives up; nothing is known any more of what it has acquired.
Lose(things) ==
    /\ things # {} => losses < MaxLosses
    /\ losses' = IF things # {} THEN losses + 1 ELSE losses
    /\ lost' = lost \cup things

\* The two arrays of JMethod_CreateJArgs are given up, and with them all that
\* the arguments before have acquired.
AbandonJArgs(leftArray) ==
    /\ Lose({t \in {"exports"} : With(Top, {"readonly", "writable"}) # {}}
            \cup {t \in {"refs"} : leftArray \/ With(Top, Disposers) # {}})
    /\ Pop

\* an argument that cannot be converted, or a view that cannot be written
RefuseArg ==
    /\ Converting
    /\ \/ Arg = "misfit"
       \/ Arg \in Views /\ ~Grants(Arg, Param)
    /\ AbandonJArgs(FALSE)
    /\ UNCHANGED <<bufferVars, local, exports, result>>

\* The buffer has no items or the item size is not that of the array, or there
\* is no memory.  The buffer is released; a Java array that has already been
\* created is not.
RefuseBuffer(leftArray) ==
    /\ Converting
    /\ Arg \in Views /\ Grants(Arg, Param)
    /\ local' = IF leftArray THEN [local EXCEPT ![NewRef] = Array(Zero)] ELSE local
    /\ AbandonJArgs(leftArray)
    /\ UNCHANGED <<bufferVars, exports, result>>

\* Java code assigns an item of an array that was made for an argument.
AssignArgument(i, x) ==
    /\ InJava
    /\ i \in DOMAIN Top.jargs /\ Top.args[i] \in Views
    /\ LET v == Top.args[i]
       IN /\ local' = [local EXCEPT ![Top.jargs[i].ref] = Array(x)]
          /\ Track(x, quiet /\ Open = {v} /\ exports[v] = 1
                            /\ Top.jargs[i].dispose = "writable")
    /\ UNCHANGED <<array, bufferExportCount, view, stack, exports, result, lost, losses>>

-----------------------------------------------------------------------------
(* JMethod_DisposeJArgs and the end of a call *)

BufferArgs(f, v) == {i \in With(f, {"readonly", "writable"}) : f.args[i] = v}
WritableArgs(f, v) == {i \in With(f, {"writable"}) : f.args[i] = v}

Latest(I) == CHOOSE i \in I : \A k \in I : k <= i

\* JType_DisposeWritableBufferArg copies the array to the buffer, one argument
\* after the other: of a buffer that was passed twice the last one stays.
CopiedBack(f) ==
    [v \in Views |->
        IF WritableArgs(f, v) = {} THEN view[v]
        ELSE [view[v] EXCEPT !.buf = local[f.jargs[Latest(WritableArgs(f, v))].ref].data]]

\* Mutant: the disposer of writable buffers releases them in both of its branches.
ReleasedTwice(f) ==
    [v \in Views |->
        exports[v] - Cardinality(BufferArgs(f, v)) - Cardinality(WritableArgs(f, v))]

\* Mutant: the disposer of read-only buffers only deletes the reference.
ReleasedIfWritable(f) == [v \in Views |-> exports[v] - Cardinality(WritableArgs(f, v))]

\* Both disposers of buffers release them.
Released(f) == [v \in Views |-> exports[v] - Cardinality(BufferArgs(f, v))]

\* Mutant: the disposer of writable buffers keeps the reference.
DeletedUnlessWritable(f) ==
    [r \in Refs |->
        IF \E i \in With(f, {"ref", "readonly"}) : f.jargs[i].ref = r THEN Free ELSE local[r]]

\* All disposers delete the local reference.
Deleted(f) ==
    [r \in Refs |->
        IF \E i \in With(f, Disposers) : f.jargs[i].ref = r
        THEN Free ELSE local[r]]

DisposeJArgs(f) ==
    /\ view' = CopiedBack(f)
    /\ exports' = Released(f)
    /\ local' = Deleted(f)

\* Mutant: whatever array Java returns, the result is the argument.
FromJObjectUnlikeIt(f, i) ==
    LET k == f.method.paramIndex
    IN IF k > 0 /\ f.args[k] \in Views
       THEN [of |-> f.args[k], data |-> local[f.jargs[i].ref].data]
       ELSE NoResult

\* JMethod_FromJObject: if Java returns the array that was made for the argument
\* of the return parameter, the result is that argument.
FromJObject(f, i) ==
    IF i = f.method.paramIndex
    THEN [of |-> f.args[i], data |-> local[f.jargs[i].ref].data]
    ELSE NoResult

\* JMethod_InvokeMethod makes the result of what Java returns, the array made for
\* the i-th argument, and disposes the arguments then.
ReturnArray(i) ==
    /\ InJava /\ ~Top.method.isConstructor
    /\ i \in DOMAIN Top.args /\ Top.args[i] \in Views
    /\ result' = FromJObject(Top, i)
    /\ DisposeJArgs(Top)
    /\ Pop
    /\ UNCHANGED <<array, bufferExportCount, ideal, quiet, lost, losses>>

\* ... and also if Java throws or returns something else.
ReturnOrThrow ==
    /\ InJava /\ ~Top.method.isConstructor
    /\ DisposeJArgs(Top)
    /\ Pop
    /\ result' = NoResult
    /\ UNCHANGED <<array, bufferExportCount, ideal, quiet, lost, losses>>

\* JObj_init disposes the arguments of a constructor that has returned; the
\* local reference to the new object is replaced by a global one and stays.
ReturnObject ==
    /\ InJava /\ Top.method.isConstructor
    /\ view' = CopiedBack(Top)
    /\ exports' = Released(Top)
    /\ local' = [Deleted(Top) EXCEPT ![NewRef] = Object]
    /\ Lose({"refs"})
    /\ Pop
    /\ UNCHANGED <<array, bufferExportCount, ideal, quiet, result>>

\* JObj_init returns when a constructor has thrown, and disposes of nothing.
ThrowFromConstructor ==
    /\ InJava /\ Top.method.isConstructor
    /\ AbandonJArgs(FALSE)
    /\ UNCHANGED <<bufferVars, local, exports, result>>

Next ==
    \/ \E v \in Views, a \in JArrays, flags \in {"simple", "writable"} : OpenView(v, a, flags)
    \/ \E v \in Views : CloseView(v)
    \/ \E v \in Views, x \in Contents : AssignView(v, x)
    \/ \E x \in Contents : AssignArray(x)
    \/ \E m \in Methods : \E args \in [1..Len(m.params) -> Args] : BeginCall(m, args)
    \/ PassValue
    \/ PassObject
    \/ PassVarArgs
    \/ PassBuffer
    \/ RefuseArg
    \/ \E leftArray \in BOOLEAN : RefuseBuffer(leftArray)
    \/ \E i \in ArgIndices, x \in Contents : AssignArgument(i, x)
    \/ \E i \in ArgIndices : ReturnArray(i)
    \/ ReturnOrThrow
    \/ ReturnObject
    \/ ThrowFromConstructor

Spec == Init /\ [][Next]_vars

-----------------------------------------------------------------------------
(* Properties *)

\* the arguments that running calls have to dispose: frame and position
ToDispose(disposers) ==
    UNION {{<<k, i>> : i \in With(stack[k], disposers)} : k \in 1..Len(stack)}
HeldOf(v) ==
    {h \in ToDispose({"readonly", "writable"}) : stack[h[1]].args[h[2]] = v}
RefOf(h) == stack[h[1]].jargs[h[2]].ref

(***************************************************************************)
(* The count that decides which release copies back is the number of open  *)
(* views, and each Py_buffer that a call has got is released once, on      *)
(* every path out of the call - except the two that give up the disposers: *)
(* the failing conversion of a later argument and the throwing             *)
(* constructor.  A view that stays exported can never be released, and     *)
(* then the array never gets what was written to it.                       *)
(***************************************************************************)
ExportsAreHeld ==
    /\ ExportsAreCounted
    /\ "exports" \notin lost => \A v \in Views : exports[v] = Cardinality(HeldOf(v))

(***************************************************************************)
(* Each local reference that a call has made for an argument is deleted    *)
(* once and not while the call still needs it, for whatever nesting of     *)
(* calls, with the exceptions of ExportsAreHeld, of a refused buffer whose *)
(* Java array exists already and of the result of a constructor.           *)
(***************************************************************************)
RefsAreOwned ==
    LET owned == {RefOf(h) : h \in ToDispose(Disposers)}
    IN /\ owned \cap FreeRefs = {}
       /\ Cardinality(owned) = Cardinality(ToDispose(Disposers))
       /\ "refs" \notin lost => Refs \ FreeRefs = owned

(***************************************************************************)
(* Array, view and argument are three copies of the same elements.  Python *)
(* and Java see one array, as the buffer protocol and "mutable" promise,   *)
(* as long as each of them writes to the innermost copy only, each copy is *)
(* made of a current one and a parameter that is written is mutable.       *)
(***************************************************************************)
LikeOneArray ==
    quiet =>
      /\ Open = {} => array = ideal
      /\ \A v \in Open : exports[v] = 0 => view[v].buf = ideal
      /\ \A h \in ToDispose({"readonly", "writable"}) : local[RefOf(h)].data = ideal

(***************************************************************************)
(* A method that returns its "return" parameter gives Python the argument  *)
(* back in place of the Java array.  If the parameter is mutable, the      *)
(* argument then contains what the array that was returned contained,      *)
(* although it is copied back only after the result has been made, by the  *)
(* disposers of all arguments - unless the buffer was passed twice.        *)
(***************************************************************************)
IsMutableOnce(f, v) == /\ f.method.params[f.method.paramIndex].isMutable
                       /\ Cardinality(WritableArgs(f, v)) = 1

ReturnedArgumentIsCurrent ==
    [][result'.of \in Views /\ result' # result /\ IsMutableOnce(Top, result'.of)
         => view'[result'.of].buf = result'.data]_vars
=============================================================================
