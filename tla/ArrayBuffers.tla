---------------------------- MODULE ArrayBuffers ----------------------------
(***************************************************************************)
(* One primitive Java array as a Python buffer (jpy_jarray.c): the views   *)
(* that JArray_GetBufferProc opens and JArray_ReleaseBufferProc closes.    *)
(* Get<Type>ArrayElements returns a copy of the elements (HotSpot never    *)
(* pins an array), so each view has a copy of its own; only the release    *)
(* that finds bufferExportCount at zero copies elements back.  The count   *)
(* belongs to the JPy_JArray, of which there may be several for one array. *)
(* The length, shape and format of a view never change and are left out;   *)
(* the elements are one value of Contents.                                 *)
(***************************************************************************)
EXTENDS Naturals, FiniteSets

CONSTANTS
    JArrays,    \* JPy_JArray objects whose objectRef is the Java array
    NoJArray,   \* the exporter of a view that is not open
    Views,      \* Py_buffer structures that Python code holds
    Contents,   \* what an array may contain
    Zero        \* the content of a new Java array

ASSUME BuffersAssumption ==
    /\ IsFiniteSet(Views)
    /\ Zero \in Contents
    /\ NoJArray \notin JArrays

VARIABLES
    array,              \* the elements of the Java array
    bufferExportCount,  \* [JArrays -> Nat]
    view,               \* [Views -> what Python holds]
    ideal,              \* ghost: the content, if there were no copies
    quiet               \* ghost: nobody has used a copy that is not current

bufferVars == <<array, bufferExportCount, view, ideal, quiet>>

Closed == [obj |-> NoJArray, readonly |-> TRUE, buf |-> Zero]

IsOpen(v) == view[v].obj # NoJArray
Open == {v \in Views : IsOpen(v)}

BufferTypeOK ==
    /\ array \in Contents
    /\ bufferExportCount \in [JArrays -> Nat]
    /\ view \in [Views -> [obj : JArrays \cup {NoJArray}, readonly : BOOLEAN, buf : Contents]]
    /\ ideal \in Contents
    /\ quiet \in BOOLEAN

BufferInit ==
    /\ array = Zero
    /\ bufferExportCount = [a \in JArrays |-> 0]
    /\ view = [v \in Views |-> Closed]
    /\ ideal = Zero
    /\ quiet = TRUE

-----------------------------------------------------------------------------
\* The ghosts: x is the content from now on, unless there is no single one.
Track(x, current) ==
    /\ quiet' = current
    /\ ideal' = IF current THEN x ELSE Zero

(***************************************************************************)
(* Python code asks for a buffer, with or without PyBUF_WRITABLE.  While   *)
(* no view is open the array itself is the only copy: the ghosts start     *)
(* afresh.                                                                 *)
(***************************************************************************)
GetBuffer(v, a, flags) ==
    /\ ~IsOpen(v)
    /\ view' = [view EXCEPT ![v] = [obj |-> a,
                                    readonly |-> flags # "writable",
                                    buf |-> array]]
    /\ bufferExportCount' = [bufferExportCount EXCEPT ![a] = @ + 1]
    /\ IF Open = {}
       THEN Track(array, TRUE)
       ELSE Track(ideal, quiet /\ ideal = array)
    /\ UNCHANGED array

\* Mutant: the elements are released with JNI_ABORT.
ReleaseBufferAborting(v) ==
    LET a == view[v].obj IN
    /\ IsOpen(v)
    /\ bufferExportCount' = [bufferExportCount EXCEPT ![a] = @ - 1]
    /\ view' = [view EXCEPT ![v] = Closed]
    /\ UNCHANGED <<array, ideal, quiet>>

\* The view whose release makes the count zero is copied back.  The copies
\* of the views released before it are neither copied back nor freed.
ReleaseBuffer(v) ==
    LET a == view[v].obj IN
    /\ IsOpen(v)
    /\ bufferExportCount' = [bufferExportCount EXCEPT ![a] = @ - 1]
    /\ array' = IF bufferExportCount'[a] = 0 THEN view[v].buf ELSE array
    /\ view' = [view EXCEPT ![v] = Closed]
    /\ UNCHANGED <<ideal, quiet>>

\* an item of the array is assigned, by Java or by Python as a[i] = x
WriteArray(x) ==
    /\ array' = x
    /\ Track(x, quiet /\ Open = {})
    /\ UNCHANGED <<bufferExportCount, view>>

\* Python code assigns an item of a view; "held" says whether a running call
\* has exported the view in its turn
WriteView(v, x, held) ==
    /\ IsOpen(v) /\ ~view[v].readonly
    /\ view' = [view EXCEPT ![v].buf = x]
    /\ Track(x, quiet /\ Open = {v} /\ ~held)
    /\ UNCHANGED <<array, bufferExportCount>>

-----------------------------------------------------------------------------
(***************************************************************************)
(* The count that decides which release copies back is the number of open  *)
(* views of the object.                                                    *)
(***************************************************************************)
ExportsAreCounted ==
    \A a \in JArrays :
        bufferExportCount[a] = Cardinality({v \in Views : view[v].obj = a})
=============================================================================
