------------------------------ MODULE ExecuteCode ------------------------------
(***************************************************************************)
(* Execution of Python code with Java maps as namespaces (executeInternal  *)
(* of jni/org_jpy_PyLib.c, behind PyObject.executeCode and executeScript): *)
(* the maps given for globals and locals are copied to new dictionaries,   *)
(* the code runs, and on every path out the dictionaries are copied back,  *)
(* the globals first.  Other Java threads may use the maps at any time,    *)
(* other executions whenever the GIL is given up, that is, while the code  *)
(* runs.  One name stands for all that a map or a dictionary may contain.  *)
(***************************************************************************)
CONSTANTS
    Threads,       \* Java threads that execute code
    Maps,          \* instances of java.util.Map, which may be shared
    Unmodifiable,  \* those whose clear and put throw
    Choosy,        \* those whose put throws for null, such as a ConcurrentHashMap
    Values         \* what code and Java put into them

\* "null" is None in Python; "wide" is a number of more than 32 bits, which comes
\* back to Java as an Integer, "narrow" (JPy_AS_JINT).
AllValues == {"null", "wide", "narrow"}
Contents == Values \cup {"absent"}

\* JPy_AsJObject, of what JType_ConvertJavaToPythonObject or the code has made
ToJava(v) == IF v = "wide" THEN "narrow" ELSE v

Refuses(m, v) == m \in Choosy /\ ToJava(v) = "null"

\* What v becomes in m, once it has been cleared.
Stored(m, v) == IF Refuses(m, v) THEN "absent" ELSE ToJava(v)

Scopes == {"globals", "locals"}

\* NULL or a dictionary (PyObject, PyDictWrapper), which are used as they are, an
\* instance of another class, or a map
Arguments == {"dict", "other"} \cup Maps

ASSUME ExecuteAssumption ==
    /\ Values \subseteq AllValues /\ "narrow" \in Values
    /\ Unmodifiable \subseteq Maps /\ Choosy \subseteq Maps
    /\ Maps \cap {"dict", "other"} = {}

VARIABLES
    map,        \* [Maps -> what the map contains]
    pc,         \* [Threads -> frame of executeInternal]
    disturbed,  \* ghost: [Threads -> maps of the frame that Java has changed since Clear]
    crashed     \* has the JVM been brought down

vars == <<map, pc, disturbed, crashed>>

-----------------------------------------------------------------------------
(* Frames *)

\* "dict" are the dictionaries made of maps, "odd" says whether they have a key that
\* is no string, "copy" whether they are to be copied back; "raised" is a ghost.
Frames == [at : {"java", "in", "running", "out", "fill", "returned"}, scope : Scopes,
           arg : [Scopes -> Arguments], dict : [Scopes -> Contents],
           odd : [Scopes -> BOOLEAN], copy : [Scopes -> BOOLEAN],
           exception : {"none", "argument", "python", "map"}, raised : BOOLEAN]

Neither == [s \in Scopes |-> FALSE]
Empty == [s \in Scopes |-> "absent"]
Idle == [at |-> "java", scope |-> "globals", arg |-> [s \in Scopes |-> "dict"],
         dict |-> Empty, odd |-> Neither, copy |-> Neither,
         exception |-> "none", raised |-> FALSE]

\* The variables keep their types; only maps are copied back.
TypeOK ==
    /\ map \in [Maps -> Contents]
    /\ pc \in [Threads -> Frames]
    /\ \A t \in Threads, s \in Scopes : pc[t].copy[s] => pc[t].arg[s] \in Maps
    /\ disturbed \in [Threads -> SUBSET Maps]
    /\ crashed \in BOOLEAN

Init ==
    /\ map = [m \in Maps |-> "absent"]
    /\ pc = [t \in Threads |-> Idle]
    /\ disturbed = [t \in Threads |-> {}]
    /\ crashed = FALSE

\* Code gives up the GIL; a thread that converts or copies keeps it.
HasGil(t) == pc[t].at \in {"in", "out", "fill"}

CanRun(t) == ~crashed /\ \A u \in Threads \ {t} : ~HasGil(u)

At(t, place, s) == CanRun(t) /\ pc[t].at = place /\ pc[t].scope = s
Go(t, frame) == pc' = [pc EXCEPT ![t] = frame]
Arg(t) == pc[t].arg[pc[t].scope]
Dict(t) == pc[t].dict[pc[t].scope]
Odd(t) == pc[t].odd[pc[t].scope]

\* The maps that t has copied.
MapsOf(t) == {m \in Maps : \E s \in Scopes : pc[t].copy[s] /\ pc[t].arg[s] = m}

-----------------------------------------------------------------------------
(* executeInternal up to the code *)

Begin(t, g, l) ==
    /\ CanRun(t) /\ pc[t].at = "java"
    /\ Go(t, [Idle EXCEPT !.at = "in",
                          !.arg = [s \in Scopes |-> IF s = "globals" THEN g ELSE l]])
    /\ UNCHANGED <<map, disturbed, crashed>>

\* Globals first, then locals, then the code; an error goes on with copying back.
Proceed(f) == IF f.scope = "globals" THEN [f EXCEPT !.scope = "locals"]
              ELSE [f EXCEPT !.at = "running", !.scope = "globals"]
GiveUp(f) == [f EXCEPT !.at = "out", !.scope = "globals", !.exception = "argument"]

\* Dictionaries are copied back like maps.
UseArgumentCopied(t, s) ==
    /\ At(t, "in", s) /\ Arg(t) \notin Maps
    /\ Go(t, IF Arg(t) = "other" THEN GiveUp(pc[t])
             ELSE Proceed([pc[t] EXCEPT !.copy[s] = TRUE]))
    /\ UNCHANGED <<map, disturbed, crashed>>

\* Another class than those above is not supported.
UseArgument(t, s) ==
    /\ At(t, "in", s) /\ Arg(t) \notin Maps
    /\ Go(t, IF Arg(t) = "other" THEN GiveUp(pc[t]) ELSE Proceed(pc[t]))
    /\ UNCHANGED <<map, disturbed, crashed>>

\* copyJavaStringObjectMapToPyDict, of a map without values that are null
CopyIn(t, s) ==
    /\ At(t, "in", s) /\ Arg(t) \in Maps
    /\ map[Arg(t)] # "null"
    /\ Go(t, Proceed([pc[t] EXCEPT !.dict[s] = map[Arg(t)], !.copy[s] = TRUE]))
    /\ UNCHANGED <<map, disturbed, crashed>>

\* A key that is no string, or an exception of entrySet, iterator, next or getKey.
\* What hasNext throws, which no map of java.util does, is not noticed.
RefuseMap(t, s) ==
    /\ At(t, "in", s) /\ Arg(t) \in Maps
    /\ Go(t, GiveUp(pc[t]))
    /\ UNCHANGED <<map, disturbed, crashed>>

\* JType_GetTypeForObject calls GetObjectClass for a value that is null, which
\* brings down the JVM.
CopyNull(t, s) ==
    /\ At(t, "in", s) /\ Arg(t) \in Maps
    /\ map[Arg(t)] = "null"
    /\ crashed' = TRUE
    /\ UNCHANGED <<map, pc, disturbed>>

-----------------------------------------------------------------------------
(* The code *)

\* The code leaves dictionaries behind, and a value or an exception.  Of those that
\* other code shares, or that cannot be converted, nothing is copied back.
RunCode(t, dict, odd, raises) ==
    /\ CanRun(t) /\ pc[t].at = "running"
    /\ \A s \in Scopes : /\ odd[s] => pc[t].copy[s]
                         /\ odd[s] \/ ~pc[t].copy[s] => dict[s] = "absent"
    /\ Go(t, [pc[t] EXCEPT !.at = "out", !.dict = dict, !.odd = odd, !.raised = raises,
                           !.exception = IF raises THEN "python" ELSE "none"])
    /\ UNCHANGED <<map, disturbed, crashed>>

\* Any Java thread, at any time.
PutInJava(m, v) ==
    /\ ~crashed /\ m \notin Unmodifiable /\ ~Refuses(m, v)
    /\ map' = [map EXCEPT ![m] = v]
    /\ disturbed' = [t \in Threads |-> disturbed[t] \cup ({m} \cap MapsOf(t))]
    /\ UNCHANGED <<pc, crashed>>

-----------------------------------------------------------------------------
(* Copying back *)

Finish(f) == IF f.scope = "globals" THEN [f EXCEPT !.at = "out", !.scope = "locals"]
             ELSE [f EXCEPT !.at = "returned", !.scope = "globals",
                            !.dict = Empty, !.odd = Neither]

SkipCopy(t, s) ==
    /\ At(t, "out", s) /\ ~pc[t].copy[s]
    /\ Go(t, Finish(pc[t]))
    /\ UNCHANGED <<map, disturbed, crashed>>

\* A key cannot be converted: the map is left alone, and nothing is thrown but the
\* exception that there was before.
RefuseDict(t, s) ==
    /\ At(t, "out", s) /\ pc[t].copy[s]
    /\ Odd(t)
    /\ Go(t, Finish(pc[t]))
    /\ UNCHANGED <<map, disturbed, crashed>>

\* The exception of the map replaces the one that is pending.
ThrowOnly(f) == [f EXCEPT !.exception = "map"]

\* A pending exception is saved before the copying and thrown again after it.
Throw(f) == [f EXCEPT !.exception = IF @ = "none" THEN "map" ELSE @]

RefuseClear(t, s) ==
    /\ At(t, "out", s) /\ pc[t].copy[s]
    /\ ~Odd(t) /\ Arg(t) \in Unmodifiable
    /\ Go(t, Finish(Throw(pc[t])))
    /\ UNCHANGED <<map, disturbed, crashed>>

\* The map is not cleared: names that the code has deleted stay.
ClearNothing(t, s) ==
    /\ At(t, "out", s) /\ pc[t].copy[s]
    /\ ~Odd(t) /\ Arg(t) \notin Unmodifiable
    /\ disturbed' = [disturbed EXCEPT ![t] = @ \ {Arg(t)}]
    /\ Go(t, [pc[t] EXCEPT !.at = "fill"])
    /\ UNCHANGED <<map, crashed>>

\* When all entries have been converted the map is cleared, of all that others may
\* have put into it ...
Clear(t, s) ==
    /\ At(t, "out", s) /\ pc[t].copy[s]
    /\ ~Odd(t) /\ Arg(t) \notin Unmodifiable
    /\ map' = [map EXCEPT ![Arg(t)] = "absent"]
    /\ disturbed' = [disturbed EXCEPT ![t] = @ \ {Arg(t)}]
    /\ Go(t, [pc[t] EXCEPT !.at = "fill"])
    /\ UNCHANGED crashed

\* ... and filled, while Java threads may use it.
Fill(t, s) ==
    /\ At(t, "fill", s) /\ ~Refuses(Arg(t), Dict(t))
    /\ map' = [map EXCEPT ![Arg(t)] = IF Dict(t) = "absent" THEN @ ELSE ToJava(Dict(t))]
    /\ Go(t, Finish(pc[t]))
    /\ UNCHANGED <<disturbed, crashed>>

\* When put throws, what the map had before it was cleared is lost.
RefusePut(t, s) ==
    /\ At(t, "fill", s) /\ Refuses(Arg(t), Dict(t))
    /\ Go(t, Finish(Throw(pc[t])))
    /\ UNCHANGED <<map, disturbed, crashed>>

Return(t) ==
    /\ CanRun(t) /\ pc[t].at = "returned"
    /\ Go(t, Idle)
    /\ disturbed' = [disturbed EXCEPT ![t] = {}]
    /\ UNCHANGED <<map, crashed>>

Execute(t) ==
    \/ \E g, l \in Arguments : Begin(t, g, l)
    \/ \E s \in Scopes : UseArgument(t, s) \/ CopyIn(t, s) \/ RefuseMap(t, s) \/ CopyNull(t, s)
    \/ \E dict \in [Scopes -> Contents], odd \in [Scopes -> BOOLEAN], raises \in BOOLEAN :
         RunCode(t, dict, odd, raises)
    \/ \E s \in Scopes : SkipCopy(t, s) \/ RefuseDict(t, s) \/ RefuseClear(t, s)
    \/ \E s \in Scopes : Clear(t, s) \/ Fill(t, s) \/ RefusePut(t, s)
    \/ Return(t)

Down == crashed /\ UNCHANGED vars

Next ==
    \/ \E t \in Threads : Execute(t)
    \/ \E m \in Maps, v \in Contents : PutInJava(m, v)
    \/ Down

Spec == Init /\ [][Next]_vars

-----------------------------------------------------------------------------
(* Properties *)

\* The scopes whose dictionaries are written to m.
Written(f, m) == {s \in Scopes : f.copy[s] /\ f.arg[s] = m /\ ~f.odd[s]}

\* When an execution ends, whether the code or an argument has failed or not, each map
\* contains what the code has left in the dictionary, converted, and nothing else - in
\* that of the locals, if it was given for both - unless a Java thread has changed the
\* map since it was cleared.  Other executions do not interfere.  A map is changed only
\* if all entries can be converted; a value that put refuses is missing in the map,
\* which has lost what it had, but then Java gets an exception.
EntriesAreCopiedBack ==
    [][\A t \in Threads :
         LET f == pc[t] IN
         /\ f.at # "returned" /\ pc'[t].at = "returned" =>
              /\ \A m \in MapsOf(t) \ (disturbed'[t] \cup Unmodifiable) :
                   LET s == IF "locals" \in Written(f, m) THEN "locals" ELSE "globals"
                   IN Written(f, m) # {} => map'[m] = Stored(m, f.dict[s])
              /\ \A m \in MapsOf(t) \ Unmodifiable : \A s \in Written(f, m) :
                   Refuses(m, f.dict[s]) => pc'[t].exception # "none"
         /\ pc'[t] # f =>
              \A m \in Maps : map'[m] # map[m] => Written(f, m) # {}]_vars

\* The exception that Java gets is the first one: what goes wrong when the dictionaries
\* are copied back does not hide that the code has raised one or that an argument could
\* not be used.
FirstFailureIsThrown ==
    \A t \in Threads :
      pc[t].at = "returned" =>
        /\ pc[t].raised => pc[t].exception = "python"
        /\ (\E s \in Scopes : pc[t].arg[s] # "dict" /\ ~pc[t].copy[s])
             => pc[t].exception = "argument"

\* The comment at executeInternal: "they must be a map from String to Object, and will
\* be copied to a new python dictionary", also a map to which an execution has copied
\* None back.
MapsCanBeCopied == ~crashed
=============================================================================
