---------------------------- MODULE MethodOverload ----------------------------
(***************************************************************************)
(* How a Python call finds its Java method (jpy_jmethod.c and the match    *)
(* functions of jpy_jtype.c).                                              *)
(*                                                                         *)
(* All public methods of one name make the JOverloadedMethod of a class,   *)
(* whose method list JOverloadedMethod_AddMethod fills in the order of     *)
(* reflection, which Java does not specify.  A call compares its arguments *)
(* with the parameters of each method.  The match values are added up, the *)
(* greatest wins, and the super classes are searched too as long as a      *)
(* better match may exist.                                                 *)
(*                                                                         *)
(* Java types are named by strings.  A Python argument is a record:        *)
(*   kind   "none", "bool", "int" (that a C long holds), "wide" (an int    *)
(*          that only a double holds), "huge" (an int that none does),     *)
(*          "float", "number" (any other number), "str", "list" (any       *)
(*          sequence), "buffer", "java" (a wrapped Java object) or "other" *)
(*   type   of a buffer its format, of a Java object the type it has in    *)
(*          Python, which jpy.cast may change                              *)
(*   class  of a Java object its class                                     *)
(*   items  of a sequence the kinds of its elements                        *)
(* Python is Python 3: bool is a subtype of int, and PyLong_Check, which   *)
(* is JPy_IS_CLONG, holds for both and for ints of any size.  A C long is  *)
(* as long as a Java long.                                                 *)
(***************************************************************************)
EXTENDS Integers, Sequences, SequencesExt, FiniteSets

CONSTANTS
  Chain,          \* the classes that have methods of the name, each followed
                  \* by its next super class that has
  Families,       \* the families of methods of one name to consider:
                  \*   methods  those that reflection lists, per class, each
                  \*            [params, isStatic, isVarArgs]
                  \*   constructors  is the name __jinit__
                  \*   calls    the argument tuples of calls; self is the first
                  \*            argument of a call of an instance method
  Supertypes,     \* the types that an object of a type is an instance of
  Component,      \* the component type of each array type
  ItemSize        \* the platform's size of an item of each buffer format

Primitives == {"boolean", "char", "byte", "short", "int", "long", "float", "double"}
Arrays     == DOMAIN Component
Classes    == {Chain[i] : i \in 1..Len(Chain)}

Arguments == [kind : STRING, type : STRING, class : STRING, items : SUBSET STRING]

\* Class.getMethods lists inherited methods too, unless they are overridden;
\* getDeclaredConstructors does not, and no constructor has a self argument.
ASSUME MethodsAssumption ==
  /\ Chain \in Seq(Classes)
  /\ \A f \in Families : \A c \in Classes :
       /\ IsFiniteSet(f.methods[c])
       /\ \A m \in f.methods[c] :
            /\ m.params \in Seq(STRING)
            /\ m.isStatic \in BOOLEAN
            /\ m.isVarArgs \in BOOLEAN
            /\ m.isVarArgs => m.params # <<>> /\ m.params[Len(m.params)] \in Arrays
            /\ f.constructors => m.isStatic
  /\ \A f \in Families : \A i, j \in 1..Len(Chain) :
       ~f.constructors /\ i < j => f.methods[Chain[j]] \subseteq f.methods[Chain[i]]
  /\ \A f \in Families : f.calls \subseteq Seq(Arguments)

VARIABLES
  family,     \* the family of methods, which never changes
  unlisted,   \* the methods that JType_ProcessClassMethods has still to add
  lists,      \* the method list of the name, per class
  outcome     \* of the last call

vars == <<family, unlisted, lists, outcome>>

Methods      == family.methods
Constructors == family.constructors
ArgLists     == family.calls

-----------------------------------------------------------------------------
(* Match values of one argument *)

WideInts == {"wide", "huge"}

\* The Python type of a kind of argument: JPy_IS_CLONG does not look at values.
PythonType(kind) == IF kind \in WideInts THEN "int" ELSE kind

\* The match value of a kind of argument; no entry means no match.
Lookup(table, kind) ==
  IF PythonType(kind) \in DOMAIN table THEN table[PythonType(kind)] ELSE 0

\* JType_MatchPyArgAsJBooleanParam to JType_MatchPyArgAsJDoubleParam.  The last
\* tests of some of them, for bool after JPy_IS_CLONG, are never reached.
MatchPrimitive(type, arg) ==
  Lookup(CASE type = "boolean" -> [bool |-> 100, int |-> 10]
           [] type = "float"   -> [float |-> 90, number |-> 50, int |-> 50, bool |-> 50]
           [] type = "double"  -> [float |-> 100, number |-> 50, int |-> 50, bool |-> 50]
           [] OTHER            -> [int |-> 100, bool |-> 100],
         arg.kind)

MatchString(arg) == Lookup([none |-> 1, str |-> 100], arg.kind)

\* A wrapped Java object, in JType_MatchPyArgAsJObject.
MatchJavaObject(type, arg) ==
  LET areArrays   == type \in Arrays /\ arg.type \in Arrays
      sameArrays  == areArrays /\ Component[type] = Component[arg.type]
      neitherIs   == type \notin Arrays /\ arg.type \notin Arrays
  IN IF arg.type = type THEN 100
     ELSE IF type \notin Supertypes[arg.class] THEN 0
     ELSE IF sameArrays \/ neitherIs THEN 90
     ELSE IF areArrays /\ Component[type] \in Supertypes[Component[arg.type]] THEN 80
     ELSE 10

JavaSize ==
  [boolean |-> 1, byte |-> 1, char |-> 2, short |-> 2, int |-> 4, float |-> 4,
   long |-> 8, double |-> 8]

\* A buffer for an array of a primitive type.
MatchBuffer(component, format) ==
  LET exact == [boolean |-> {"b", "B"}, byte |-> {"b"}, char |-> {"u"}, short |-> {"h"},
                int |-> {"i", "l"}, long |-> {"q"}, float |-> {"f"}, double |-> {"d"}]
      close == [boolean |-> {}, byte |-> {"B"}, char |-> {"H"}, short |-> {"H"},
                int |-> {"I", "L"}, long |-> {"Q"}, float |-> {}, double |-> {}]
  IN IF format \in exact[component] THEN 100
     ELSE IF format \in close[component] THEN 90
     ELSE IF component = "char" /\ format = "h" THEN 80
     ELSE IF ItemSize[format] = JavaSize[component] THEN 10
     ELSE 0

IsSequence(arg) == arg.kind \in {"str", "list", "buffer"}

MatchArray(type, arg) ==
  IF Component[type] \in Primitives /\ arg.kind = "buffer"
  THEN MatchBuffer(Component[type], arg.type)
  ELSE IF ~IsSequence(arg) \/ (Component[type] = "String" /\ ~(arg.items \subseteq {"str"}))
  THEN 0
  ELSE IF Component[type] = "String" THEN 80 ELSE 10

\* The Java classes that a Python value may become.
BoxesOf(kind) ==
  CASE kind = "str"             -> {"String"}
    [] kind = "bool"            -> {"Boolean"}
    [] PythonType(kind) = "int" -> {"Integer", "Long"}
    [] kind = "float"           -> {"Double", "Float"}
    [] OTHER                    -> {}

IntegralBoxes == {"Character", "Byte", "Short", "Integer", "Long"}

\* The types that the match functions know are no arrays.
ASSUME TypesAssumption ==
  Arrays \cap (Primitives \cup IntegralBoxes
                \cup {"Object", "String", "Boolean", "Float", "Double"}) = {}

\* Mutant: a value fits all types that have no box of their own.
MatchValueLoose(type, arg) == IF type = "Object" THEN 10 ELSE 80

MatchValue(type, arg) ==
  CASE type = "Object"            -> 10
    [] type = "Boolean"           -> Lookup([bool |-> 100, int |-> 10], arg.kind)
    [] type \in IntegralBoxes     -> Lookup([int |-> 100, bool |-> 100], arg.kind)
    [] type \in {"Float", "Double"} -> Lookup([float |-> 100, int |-> 90, bool |-> 90], arg.kind)
    [] OTHER -> IF \E box \in BoxesOf(arg.kind) : type \in Supertypes[box] THEN 80 ELSE 0

MatchObject(type, arg) ==
  IF arg.kind = "none" THEN 1
  ELSE IF arg.kind = "java" THEN MatchJavaObject(type, arg)
  ELSE IF type \in Arrays THEN MatchArray(type, arg)
  ELSE MatchValue(type, arg)

\* The match function that JType_InitParamDescriptorFunctions selects.
MatchPyArg(type, arg) ==
  CASE type \in Primitives -> MatchPrimitive(type, arg)
    [] type = "String"     -> MatchString(arg)
    [] OTHER               -> MatchObject(type, arg)

Least(values)   == CHOOSE v \in values : \A w \in values : v <= w
Greater(v, w)   == IF v > w THEN v ELSE w

\* The JType_MatchVarArgPyArg functions: the least match of the arguments that
\* are left, all of which have to match.
MatchVarArgs(type, rest) ==
  IF rest = <<>>
  THEN 10
  ELSE Least({MatchPyArg(Component[type], rest[i]) : i \in DOMAIN rest})

-----------------------------------------------------------------------------
(* Match values of a method *)

SelfCount(m)  == IF m.isStatic THEN 0 ELSE 1
FixedCount(m) == IF m.isVarArgs THEN Len(m.params) - 1 ELSE Len(m.params)

FixedArgs(m, args) == SubSeq(args, SelfCount(m) + 1, SelfCount(m) + FixedCount(m))
RestArgs(m, args)  == SubSeq(args, SelfCount(m) + FixedCount(m) + 1, Len(args))

CountMatches(m, args) ==
  IF m.isVarArgs
  THEN Len(args) >= SelfCount(m) + FixedCount(m)
  ELSE Len(args) = SelfCount(m) + FixedCount(m)

\* A self argument has to be a Java object.
MatchSelf(c, m, args) ==
  IF ~m.isStatic /\ args[1].kind = "java" THEN MatchJavaObject(c, args[1]) ELSE 0

FixedMatches(m, args) ==
  LET fixed == FixedArgs(m, args)
  IN [i \in 1..FixedCount(m) |-> MatchPyArg(m.params[i], fixed[i])]

\* One argument that is left may be the whole array.
SingleMatch(m, args) ==
  LET rest == RestArgs(m, args)
  IN IF Len(rest) = 1 THEN MatchPyArg(m.params[Len(m.params)], rest[1]) ELSE 0

RestMatch(m, args) == MatchVarArgs(m.params[Len(m.params)], RestArgs(m, args))

\* isVarArgsArray
PassesArray(m, args) == m.isVarArgs /\ SingleMatch(m, args) >= RestMatch(m, args)

\* The match of the variable arguments; without any, 10 is added twice.
VarArgsMatch(m, args) ==
  (IF RestArgs(m, args) = <<>> THEN 10 ELSE 0)
    + Greater(RestMatch(m, args), SingleMatch(m, args))

Sum(values) ==
  LET sum[n \in 0..Len(values)] == IF n = 0 THEN 0 ELSE sum[n - 1] + values[n]
  IN sum[Len(values)]

\* JMethod_MatchPyArgs
MatchPyArgs(c, m, args) ==
  IF \/ ~CountMatches(m, args)
     \/ ~m.isStatic /\ MatchSelf(c, m, args) = 0
     \/ \E i \in 1..FixedCount(m) : FixedMatches(m, args)[i] = 0
     \/ m.isVarArgs /\ RestMatch(m, args) = 0 /\ SingleMatch(m, args) = 0
  THEN 0
  ELSE IF m.isStatic /\ m.params = <<>> THEN 100
  ELSE MatchSelf(c, m, args) + Sum(FixedMatches(m, args))
         + (IF m.isVarArgs THEN VarArgsMatch(m, args) ELSE 0)

-----------------------------------------------------------------------------
(* Finding the method *)

\* JPy_MethodFindResult, and whether the search is over.
NotFound == [class |-> "", method |-> [params |-> <<>>, isStatic |-> FALSE, isVarArgs |-> FALSE],
             value |-> 0, count |-> 0, asArray |-> FALSE, done |-> FALSE]

\* Mutant: the sum of match values is compared with that of one argument.
PerfectOne(args) == 100

Perfect(args) == 100 * Len(args)

NewBest(c, m, args, value) ==
  [class |-> c, method |-> m, value |-> value, count |-> 1,
   asArray |-> PassesArray(m, args), done |-> FALSE]

\* Mutants: ties are not counted; the count is not reset.
CompareNoTies(c, m, args, best, value) ==
  IF value > best.value THEN NewBest(c, m, args, value) ELSE best

CompareCounts(c, m, args, best, value) ==
  IF value > best.value THEN [NewBest(c, m, args, value) EXCEPT !.count = best.count + 1]
  ELSE IF value = best.value THEN [best EXCEPT !.count = @ + 1]
  ELSE best

\* What a method that fits makes of the best one so far.
Compare(c, m, args, best, value) ==
  IF value > best.value THEN NewBest(c, m, args, value)
  ELSE IF value = best.value THEN [best EXCEPT !.count = @ + 1]
  ELSE best

\* One turn of the loop of JOverloadedMethod_FindMethod0.  A fixed method that
\* fits rules out methods with variable arguments.
TryMethod(c, args, best, m) ==
  LET value     == MatchPyArgs(c, m, args)
      unbeaten  == ~m.isVarArgs /\ value >= Perfect(args)
  IN IF best.done THEN best
     ELSE IF m.isVarArgs /\ best.count > 0 /\ ~best.method.isVarArgs
     THEN [best EXCEPT !.done = TRUE]
     ELSE IF value = 0 THEN best
     ELSE [Compare(c, m, args, best, value) EXCEPT !.done = unbeaten]

FindMethod0(c, list, args) ==
  LET best[n \in 0..Len(list)] ==
        IF n = 0 THEN NotFound ELSE TryMethod(c, args, best[n - 1], list[n])
  IN best[Len(list)]

\* One turn of the loop of JOverloadedMethod_FindMethod.
VisitClass(ls, args, best, c) ==
  LET result == FindMethod0(c, ls[c], args)
  IN IF best.done THEN best
     ELSE IF result.count = 1 /\ result.value >= Perfect(args) THEN [result EXCEPT !.done = TRUE]
     ELSE IF result.value > best.value THEN [result EXCEPT !.done = FALSE]
     ELSE best

\* The classes of the search that starts with the i-th, JType_GetOverloadedMethod.
Visited(i) == IF Constructors THEN <<Chain[i]>> ELSE SubSeq(Chain, i, Len(Chain))

FindMethod(ls, i, args) ==
  LET best[n \in 0..Len(Visited(i))] ==
        IF n = 0 THEN NotFound ELSE VisitClass(ls, args, best[n - 1], Visited(i)[n])
  IN best[Len(Visited(i))]

-----------------------------------------------------------------------------
(* Converting the arguments *)

\* JType_ConvertPythonToJavaObject and, for the elements of arrays of primitive
\* types, JType_CreateJavaArray.  None is 0 among them.
ConvertsKind(type, kind) ==
  LET python == PythonType(kind)
  IN \/ python = "none"
     \/ type \in {"float", "double"} /\ python \in {"bool", "int", "float", "number"}
     \/ type \in Primitives \cup IntegralBoxes \cup {"Boolean"} /\ python \in {"bool", "int"}
     \/ type \in {"Float", "Double"} /\ python \in {"bool", "int", "float"}
     \/ /\ type \notin Primitives \cup IntegralBoxes \cup {"Boolean", "Float", "Double"}
        /\ \E box \in BoxesOf(kind) : type \in Supertypes[box] \cup {"Object"}

\* PyLong_AsLong, PyLong_AsLongLong or PyFloat_AsDouble sets an error, because
\* the int is too wide.
Overflows(type, kind) ==
  kind = "huge" \/ (kind = "wide" /\ type \notin {"float", "double"})

\* The error is noticed in JType_CreateJavaArray only, for elements of a
\* primitive type.  Parameters of primitive types and of those with boxes are
\* converted all the same, and the error stays set.
LeavesError(type, arg) ==
  IF type \notin Arrays THEN Overflows(type, arg.kind)
  ELSE /\ arg.kind = "list" /\ Component[type] \notin Primitives
       /\ \E kind \in arg.items : Overflows(Component[type], kind)

\* JType_CreateJavaArray looks for an error after each element of a primitive
\* type, and finds one that an argument before has left too.
CreatesJavaArray(component, kinds, error) ==
  component \in Primitives /\ kinds # {} =>
    ~error /\ \A kind \in kinds : ~Overflows(component, kind)

\* JType_ConvertPyArgToJObjectArg: a buffer that goes into an array of a
\* primitive type is copied, which needs items of the same size.
Converts(type, arg, error) ==
  IF arg.kind \in {"none", "java"} THEN TRUE
  ELSE IF type \notin Arrays THEN ConvertsKind(type, arg.kind)
  ELSE IF arg.kind = "buffer" /\ Component[type] \in Primitives
  THEN ItemSize[arg.type] = JavaSize[Component[type]]
  ELSE /\ IsSequence(arg)
       /\ \A kind \in arg.items : ConvertsKind(Component[type], kind)
       /\ CreatesJavaArray(Component[type], arg.items, error)

\* One of the first n arguments has left an error.
ErrorLeft(m, fixed, n) == \E i \in 1..n : LeavesError(m.params[i], fixed[i])

\* JMethod_CreateJArgs
CreatesJArgs(found, args) ==
  LET m     == found.method
      fixed == FixedArgs(m, args)
      rest  == RestArgs(m, args)
      last  == m.params[Len(m.params)]
      error == ErrorLeft(m, fixed, FixedCount(m))
  IN /\ \A i \in 1..FixedCount(m) :
          Converts(m.params[i], fixed[i], ErrorLeft(m, fixed, i - 1))
     /\ m.isVarArgs =>
          IF found.asArray
          THEN Converts(last, rest[1], error)
          ELSE /\ \A i \in DOMAIN rest : Converts(Component[last], rest[i], error)
               /\ CreatesJavaArray(Component[last], {rest[i].kind : i \in DOMAIN rest}, error)

Verdict(found, args) ==
  IF found.count = 0 THEN "no match"
  ELSE IF found.count > 1 THEN "ambiguous"
  ELSE IF CreatesJArgs(found, args) THEN "invoked"
  ELSE "not converted"

-----------------------------------------------------------------------------
(* Actions *)

Idle == [kind |-> "idle", start |-> 1, args |-> <<>>, found |-> NotFound]

Init ==
  /\ family \in Families
  /\ unlisted = [c \in Classes |-> Methods[c]]
  /\ lists = [c \in Classes |-> <<>>]
  /\ outcome = Idle

\* JType_ResolveType has filled the lists of the classes from the i-th on.
Resolved(i) == \A j \in i..Len(Chain) : unlisted[Chain[j]] = {}

\* Mutant: every method is appended.
DestinationLast(list, m) == Len(list) + 1

\* Where JOverloadedMethod_AddMethod puts a method: before the first one with
\* variable arguments, unless it has variable arguments itself.
Destination(list, m) ==
  IF m.isVarArgs \/ \A i \in DOMAIN list : ~list[i].isVarArgs
  THEN Len(list) + 1
  ELSE CHOOSE i \in DOMAIN list :
         /\ list[i].isVarArgs
         /\ \A j \in 1..(i - 1) : ~list[j].isVarArgs

\* Mutant: JType_AddMethod makes a new JOverloadedMethod of each method.
AddMethodNew(i, m) ==
  LET c == Chain[i]
  IN /\ Resolved(i + 1)
     /\ m \in unlisted[c]
     /\ unlisted' = [unlisted EXCEPT ![c] = @ \ {m}]
     /\ lists' = [lists EXCEPT ![c] = <<m>>]
     /\ UNCHANGED <<family, outcome>>

\* JType_ProcessClassMethods takes the next method of reflection, and
\* JType_AddMethod adds it.  The super type has been resolved before.
AddMethod(i, m) ==
  LET c == Chain[i]
  IN /\ Resolved(i + 1)
     /\ m \in unlisted[c]
     /\ unlisted' = [unlisted EXCEPT ![c] = @ \ {m}]
     /\ lists' = [lists EXCEPT ![c] = InsertAt(@, Destination(@, m), m)]
     /\ UNCHANGED <<family, outcome>>

\* JOverloadedMethod_call and JObj_init.
Call(i, args) ==
  LET found == FindMethod(lists, i, args)
  IN /\ Resolved(i)
     /\ outcome.kind = "idle"
     /\ outcome' = [kind |-> Verdict(found, args), start |-> i, args |-> args, found |-> found]
     /\ UNCHANGED <<family, unlisted, lists>>

Return ==
  /\ outcome.kind # "idle"
  /\ outcome' = Idle
  /\ UNCHANGED <<family, unlisted, lists>>

Next ==
  \/ \E i \in 1..Len(Chain) : \E m \in unlisted[Chain[i]] : AddMethod(i, m)
  \/ \E i \in 1..Len(Chain), args \in ArgLists : Call(i, args)
  \/ Return

Spec == Init /\ [][Next]_vars

-----------------------------------------------------------------------------
(* Properties *)

Verdicts == {"idle", "no match", "ambiguous", "invoked", "not converted"}

\* Each method of a class is either in its method list, once, or still to be
\* added; a call has one of the outcomes of JOverloadedMethod_call.
TypeOK ==
  /\ unlisted \in [Classes -> SUBSET UNION {Methods[c] : c \in Classes}]
  /\ lists \in [Classes -> Seq(UNION {Methods[c] : c \in Classes})]
  /\ \A c \in Classes :
       /\ ToSet(lists[c]) = Methods[c] \ unlisted[c]
       /\ Len(lists[c]) = Cardinality(Methods[c] \ unlisted[c])
  /\ outcome.kind \in Verdicts

\* In a method list no method with variable arguments precedes one without, in
\* whatever order they were added: the search of JOverloadedMethod_FindMethod0
\* stops at the first one if a method without fits.
FixedFirst ==
  \A c \in Classes : \A i, j \in DOMAIN lists[c] :
    i < j /\ lists[c][i].isVarArgs => lists[c][j].isVarArgs

Value(c, m) == MatchPyArgs(c, m, outcome.args)
Fits(c, m)  == Value(c, m) > 0

\* The methods that may be called: with variable arguments only if no method
\* without them fits.
Eligible(c) ==
  {m \in Methods[c] :
     Fits(c, m) /\ (m.isVarArgs => \A n \in Methods[c] : Fits(c, n) => n.isVarArgs)}

Chosen   == outcome.kind \in {"invoked", "not converted"}
Receiver == Chain[outcome.start]

\* The search ends early, and keeps only the best of each class, but no method
\* of the class that was asked is better than the one it finds; and a method of
\* a super class is only found if it is better than all of them.  The exception
\* are methods with variable arguments that are worth more than a perfect match,
\* because none of them is passed: if they tie, a perfect match of a super class
\* comes before them.
NoBetterOverload ==
  Chosen => \A m \in Eligible(Receiver) :
    \/ Value(Receiver, m) < outcome.found.value
    \/ outcome.found.class = Receiver /\ Value(Receiver, m) = outcome.found.value
    \/ /\ outcome.found.class # Receiver
       /\ m.isVarArgs /\ outcome.found.value >= Perfect(outcome.args)

\* If another method fits as well as the one that is called, both match all
\* arguments perfectly, so that the order of reflection decides in no other
\* case (JOverloadedMethod_FindMethod0 ends the search at the first of them).
TiesArePerfect ==
  Chosen => \A m \in Eligible(outcome.found.class) \ {outcome.found.method} :
    Value(outcome.found.class, m) >= outcome.found.value =>
      ~m.isVarArgs /\ outcome.found.value >= Perfect(outcome.args)

\* "No matching Java method overloads found" means that no method of the class
\* and of its super classes fits, and "ambiguous" that two methods of one class
\* do, equally well.
RefusalsAreJustified ==
  /\ outcome.kind = "no match" =>
       \A c \in ToSet(Visited(outcome.start)) : Eligible(c) = {}
  /\ outcome.kind = "ambiguous" =>
       \E c \in ToSet(Visited(outcome.start)) : \E m, n \in Eligible(c) :
         m # n /\ Value(c, m) = outcome.found.value /\ Value(c, n) = outcome.found.value

\* What matches also converts, as long as the values are None, bool, int, float
\* or Java objects: the match functions and the conversions of jpy_jtype.c
\* decide independently of each other.  The exception are ints that no C long
\* holds, which only make an array of variable arguments of a primitive type
\* fail: the match functions do not look at the size of an int.
ScalarsConvert ==
  outcome.kind = "not converted" =>
    \/ \E i \in DOMAIN outcome.args :
         outcome.args[i].kind \notin {"none", "bool", "int", "float", "java"} \cup WideInts
    \/ /\ outcome.found.method.isVarArgs /\ ~outcome.found.asArray
       /\ Component[Last(outcome.found.method.params)] \in Primitives
       /\ \E i \in DOMAIN outcome.args : outcome.args[i].kind \in WideInts

\* "We should not process varargs if we have already found a suitable fixed
\* arity method" (jpy_jmethod.c): a method with variable arguments is only
\* called if no method of the class without them fits.
FixedArityWins ==
  Chosen /\ outcome.found.method.isVarArgs =>
    \A m \in Methods[Receiver] : Fits(Receiver, m) => m.isVarArgs

\* "We have already ensured that the Python arguments and expected Java
\* parameters match" (jpy_jmethod.c, JMethod_InvokeMethod).
ChosenConverts == outcome.kind # "not converted"

=============================================================================
