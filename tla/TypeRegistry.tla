----------------------------- MODULE TypeRegistry -----------------------------
(***************************************************************************)
(* How jpy turns Java classes into Python types (jpy_jtype.c).             *)
(*                                                                         *)
(* JType_GetType looks a class up in the dictionary JPy_Types and creates  *)
(* its type on the first request: it registers the incomplete type, gets   *)
(* the types of the super class and of the array component (recursively,   *)
(* and resolved, if the caller wants its own type resolved) and then makes *)
(* it a Python type with PyType_Ready (JType_InitSlots).  JType_ResolveType *)
(* fills the type's dictionary with one member after the other; to do so   *)
(* it gets the types the member mentions, and calls the application's      *)
(* entry of JPy_Type_Callbacks.  Classes mention each other in cycles, so  *)
(* both functions meet types that are still in progress further down the   *)
(* stack - or on the stack of another thread, because a callback is Python *)
(* code that may lose the GIL.                                             *)
(*                                                                         *)
(* stack[t] holds thread t's open calls, the outermost first:              *)
(*   [op |-> "get", class, resolve, at]     in JType_GetType, creating     *)
(*   [op |-> "resolve", class, member, use, at]  in JType_ResolveType, at  *)
(*     the use-th type that the member-th member mentions                  *)
(***************************************************************************)
EXTENDS Naturals, Sequences

CONSTANTS
  Classes,       \* Java classes
  NoClass,       \* no class
  Threads,       \* Python threads
  Super,         \* what GetSuperclass returns, per class (that an interface gets
                 \* JPy_JObject, which is complete by then, is left out)
  Component,     \* the component class of an array class, per class
  Members,       \* per class, the public members in the order of reflection:
                 \* each the sequence of the classes it mentions; a field and
                 \* a method of a class have different names
  Fields,        \* the <<class, member>> pairs that are fields
  Variables,     \* those of them that are static, but not final
  Hooked,        \* the classes with a callback in JPy_Type_Callbacks
  Rejected,      \* the <<class, member>> pairs whose callback returns False
  Reentrant,     \* do callbacks call jpy.get_type
  MaxFailures    \* bound on allocations that fail

ASSUME ClassesAssumption ==
  /\ NoClass \notin Classes
  /\ Super \in [Classes -> Classes \cup {NoClass}]
  /\ Component \in [Classes -> Classes \cup {NoClass}]
  /\ Members \in [Classes -> Seq(Seq(Classes))]
  /\ Hooked \subseteq Classes
  /\ Fields \subseteq Classes \X (Nat \ {0})
  /\ Variables \subseteq Fields
  /\ Rejected \subseteq (Hooked \X (Nat \ {0})) \ Fields

\* A class whose type was dropped and created again shares the state of both
\* types, so that failures come with one thread and without re-entrance.
ASSUME BoundsAssumption ==
  /\ Reentrant \in BOOLEAN
  /\ MaxFailures \in Nat
  /\ MaxFailures > 0 => ~Reentrant /\ \A t, u \in Threads : t = u

\* The super classes and the components of a class end: Java refuses a class that
\* is its own super class, and arrays have finitely many dimensions.
IsRank(rank) ==
  \A c \in Classes : /\ Super[c] # NoClass => rank[Super[c]] < rank[c]
                     /\ Component[c] # NoClass => rank[Component[c]] < rank[c]

\* The relations of classes to their super classes and components, to theirs, and
\* so on, and the least one.
Ancestries ==
  {R \in SUBSET (Classes \X Classes) :
     /\ \A c \in Classes : /\ Super[c] # NoClass => <<c, Super[c]>> \in R
                           /\ Component[c] # NoClass => <<c, Component[c]>> \in R
     /\ \A c, d, e \in Classes : <<c, d>> \in R /\ <<d, e>> \in R => <<c, e>> \in R}

Ancestors ==
  [c \in Classes |-> {d \in Classes : \A R \in Ancestries : <<c, d>> \in R}]

\* The classes that the members of c mention.
MentionedBy(c) ==
  {d \in Classes : \E m \in 1 .. Len(Members[c]) :
                     \E i \in 1 .. Len(Members[c][m]) : Members[c][m][i] = d}

\* No member needs the type of a class whose super class is a sub class of the
\* member's own class, or an array of it.
NoGrandchildMentioned ==
  \A c \in Classes : \A d \in MentionedBy(c) : \A e \in {d} \cup Ancestors[d] :
    Super[e] # NoClass => c \notin Ancestors[Super[e]]

VARIABLES
  registered,   \* the keys of JPy_Types
  slotted,      \* the types that JType_InitSlots has completed
  mro,          \* tp_mro, <<>> before PyType_Ready; tp_dict exists if it does
  resolving,    \* the types with isResolving
  resolved,     \* the types with isResolved
  dict,         \* the members in each type's dictionary
  stack,        \* the open calls of each thread
  gil,          \* the thread that runs
  given,        \* the type that each thread's last jpy.get_type returned
  failures      \* allocations that have failed

vars == <<registered, slotted, mro, resolving, resolved, dict, stack, gil, given,
          failures>>

-----------------------------------------------------------------------------
(* Types *)

GetFrames ==
  [op : {"get"}, class : Classes, resolve : BOOLEAN,
   at : {"super", "component", "slots", "resolve"}]

ResolveFrames ==
  [op : {"resolve"}, class : Classes, member : Nat \ {0}, use : Nat \ {0},
   at : {"base", "member", "callback"}]

TypeOK ==
  /\ registered \subseteq Classes
  /\ slotted \subseteq Classes
  /\ mro \in [Classes -> Seq(Classes)]
  /\ resolving \subseteq Classes
  /\ resolved \subseteq Classes
  /\ dict \in [Classes -> SUBSET (Nat \ {0})]
  /\ stack \in [Threads -> Seq(GetFrames \cup ResolveFrames)]
  /\ gil \in Threads
  /\ given \in [Threads -> Classes \cup {NoClass}]
  /\ failures \in 0 .. MaxFailures

-----------------------------------------------------------------------------
(* Helpers *)

HasDict(c) == mro[c] # <<>>

\* tp_base, as far as it is a Java type: set by JType_InitSlots.
Base(c) == IF c \in slotted THEN Super[c] ELSE NoClass

Top(t) == stack[t][Len(stack[t])]

Below(t) == SubSeq(stack[t], 1, Len(stack[t]) - 1)

Running(t, operation, label) ==
  /\ gil = t
  /\ stack[t] # <<>>
  /\ Top(t).op = operation
  /\ Top(t).at = label

\* Does Python code of the application run above the calls s?
PythonAbove(s) == s # <<>> => s[Len(s)].at = "callback"

At(t, label) == Append(Below(t), [Top(t) EXCEPT !.at = label])

NextMember(f) == [f EXCEPT !.member = @ + 1, !.use = 1, !.at = "member"]

SetStack(t, s) == stack' = [stack EXCEPT ![t] = s]

\* The calls s go on with type c as the result of the call above them.
Give(t, c, s) ==
  given' = [given EXCEPT ![t] = IF PythonAbove(s) THEN c ELSE @]

-----------------------------------------------------------------------------
(* JType_GetType and JType_ResolveType, called by t with the calls s open *)

\* Mutant: JType_GetType fails without PyDict_DelItem.
FailRegistered(t, s) ==
  /\ failures < MaxFailures
  /\ failures' = failures + 1
  /\ \E i \in 0 .. Len(s) :
       /\ i > 0 => s[i].op = "resolve"
       /\ \A j \in i + 1 .. Len(s) : s[j].op = "get"
       /\ SetStack(t, IF PythonAbove(SubSeq(s, 1, i)) THEN SubSeq(s, 1, i)
                      ELSE Append(SubSeq(s, 1, i - 1), NextMember(s[i])))
  /\ UNCHANGED <<registered, slotted, mro, resolving, resolved, dict, gil, given>>

\* JType_New or PyType_Ready is out of memory: each JType_GetType of s removes
\* its type from JPy_Types and returns NULL, down to Python code or to a
\* JType_ResolveType, which skips the member.
Fail(t, s) ==
  /\ failures < MaxFailures
  /\ failures' = failures + 1
  /\ \E i \in 0 .. Len(s) :
       /\ i > 0 => s[i].op = "resolve"
       /\ \A j \in i + 1 .. Len(s) : s[j].op = "get"
       /\ registered' = registered \ {s[j].class : j \in i + 1 .. Len(s)}
       /\ SetStack(t, IF PythonAbove(SubSeq(s, 1, i)) THEN SubSeq(s, 1, i)
                      ELSE Append(SubSeq(s, 1, i - 1), NextMember(s[i])))
  /\ UNCHANGED <<slotted, mro, resolving, resolved, dict, gil, given>>

\* if (type->isResolved || type->isResolving) return 0;
ResolveType(t, c, s) ==
  IF c \in resolved \cup resolving
  THEN /\ SetStack(t, s)
       /\ Give(t, c, s)
       /\ UNCHANGED resolving
  ELSE /\ SetStack(t, Append(s, [op |-> "resolve", class |-> c, member |-> 1,
                                 use |-> 1, at |-> "base"]))
       /\ resolving' = resolving \cup {c}
       /\ UNCHANGED given

\* Mutant: a type that is there is returned as it is.
FoundOnly(t, c, resolve, s) ==
  /\ c \in registered
  /\ SetStack(t, s)
  /\ Give(t, IF resolve THEN c ELSE given[t], s)
  /\ UNCHANGED <<registered, slotted, mro, resolving, resolved, dict, gil, failures>>

\* typeValue != NULL: the type is there, perhaps still in progress.
Found(t, c, resolve, s) ==
  /\ c \in registered
  /\ IF resolve THEN ResolveType(t, c, s)
     ELSE SetStack(t, s) /\ UNCHANGED <<resolving, given>>
  /\ UNCHANGED <<registered, slotted, mro, resolved, dict, gil, failures>>

\* Mutant: a new type for every request.
CreateAlways(t, c, resolve, s) ==
  /\ registered' = registered \cup {c}
  /\ slotted' = slotted \ {c}
  /\ mro' = [mro EXCEPT ![c] = <<>>]
  /\ resolving' = resolving \ {c}
  /\ resolved' = resolved \ {c}
  /\ dict' = [dict EXCEPT ![c] = {}]
  /\ SetStack(t, Append(s, [op |-> "get", class |-> c, resolve |-> resolve,
                            at |-> "super"]))
  /\ UNCHANGED <<gil, given, failures>>

\* JType_New, and the new type is registered before it is complete.
Create(t, c, resolve, s) ==
  /\ c \notin registered
  /\ registered' = registered \cup {c}
  /\ slotted' = slotted \ {c}
  /\ mro' = [mro EXCEPT ![c] = <<>>]
  /\ resolving' = resolving \ {c}
  /\ resolved' = resolved \ {c}
  /\ dict' = [dict EXCEPT ![c] = {}]
  /\ SetStack(t, Append(s, [op |-> "get", class |-> c, resolve |-> resolve,
                            at |-> "super"]))
  /\ UNCHANGED <<gil, given, failures>>

\* Mutant: the result of GetSuperclass is not compared with NULL.
GetTypeUnchecked(t, c, resolve, s) ==
  \/ Found(t, c, resolve, s)
  \/ Create(t, c, resolve, s)
  \/ c \notin registered /\ Fail(t, s)

GetType(t, c, resolve, s) ==
  IF c = NoClass
  THEN /\ SetStack(t, s)
       /\ UNCHANGED <<registered, slotted, mro, resolving, resolved, dict, gil,
                      given, failures>>
  ELSE \/ Found(t, c, resolve, s)
       \/ Create(t, c, resolve, s)
       \/ c \notin registered /\ Fail(t, s)

-----------------------------------------------------------------------------
(* Python code *)

Init ==
  /\ registered = {}
  /\ slotted = {}
  /\ mro = [c \in Classes |-> <<>>]
  /\ resolving = {}
  /\ resolved = {}
  /\ dict = [c \in Classes |-> {}]
  /\ stack = [t \in Threads |-> <<>>]
  /\ gil \in Threads
  /\ given = [t \in Threads |-> NoClass]
  /\ failures = 0

\* jpy.get_type(c) and jpy.cast resolve the type; the wrapper of an object that
\* a Java method returns does not.
Call(t) ==
  /\ gil = t
  /\ PythonAbove(stack[t])
  /\ stack[t] # <<>> => Reentrant
  /\ \E c \in Classes, resolve \in BOOLEAN : GetType(t, c, resolve, stack[t])

\* The interpreter loop hands the GIL over to t.
Switch(t) ==
  /\ gil # t
  /\ PythonAbove(stack[gil])
  /\ gil' = t
  /\ UNCHANGED <<registered, slotted, mro, resolving, resolved, dict, stack, given,
                 failures>>

-----------------------------------------------------------------------------
(* JType_GetType, once the new type is registered *)

\* Mutant: JType_InitSuperType is left out.
InitSuperTypeNot(t) ==
  /\ Running(t, "get", "super")
  /\ SetStack(t, At(t, "component"))
  /\ UNCHANGED <<registered, slotted, mro, resolving, resolved, dict, gil, given,
                 failures>>

InitSuperType(t) ==
  /\ Running(t, "get", "super")
  /\ GetType(t, Super[Top(t).class], Top(t).resolve, At(t, "component"))

InitComponentType(t) ==
  /\ Running(t, "get", "component")
  /\ GetType(t, Component[Top(t).class], Top(t).resolve, At(t, "slots"))

\* PyType_Ready: readies a base that has no tp_dict first - whose own tp_base is
\* not set, for it is in progress - and derives the mro from tp_bases, which
\* stays what it was when the type was readied on behalf of a sub type.
Ready(c, base) ==
  LET baseMro == IF base = NoClass THEN <<>>
                 ELSE IF HasDict(base) THEN mro[base] ELSE <<base>>
  IN mro' = [d \in Classes |->
               IF d = base THEN baseMro
               ELSE IF d = c /\ ~HasDict(c) THEN <<c>> \o baseMro ELSE mro[d]]

InitSlots(t) ==
  /\ Running(t, "get", "slots")
  /\ LET c == Top(t).class IN
       \/ /\ Ready(c, Super[c])
          /\ slotted' = slotted \cup {c}
          /\ SetStack(t, At(t, "resolve"))
          /\ UNCHANGED <<registered, resolving, resolved, dict, gil, given, failures>>
       \/ Fail(t, stack[t])

\* if (!type->isResolved && resolve) JType_ResolveType(...); return type;
ReturnType(t) ==
  /\ Running(t, "get", "resolve")
  /\ LET c == Top(t).class IN
       IF Top(t).resolve THEN ResolveType(t, c, Below(t))
       ELSE SetStack(t, Below(t)) /\ UNCHANGED <<resolving, given>>
  /\ UNCHANGED <<registered, slotted, mro, resolved, dict, gil, failures>>

-----------------------------------------------------------------------------
(* JType_ResolveType, once isResolving is set *)

ResolveBase(t) ==
  /\ Running(t, "resolve", "base")
  /\ LET base == Base(Top(t).class) IN
       IF base = NoClass
       THEN SetStack(t, At(t, "member")) /\ UNCHANGED <<resolving, given>>
       ELSE ResolveType(t, base, At(t, "member"))
  /\ UNCHANGED <<registered, slotted, mro, resolved, dict, gil, failures>>

\* The member that t is at, and the classes that it mentions.
MemberLeft(t) == Top(t).member <= Len(Members[Top(t).class])

Uses(t) == Members[Top(t).class][Top(t).member]

\* Mutant: the loop over the parameters does not advance.
ProcessUseAgain(t) ==
  /\ Running(t, "resolve", "member")
  /\ MemberLeft(t)
  /\ Top(t).use <= Len(Uses(t))
  /\ GetType(t, Uses(t)[Top(t).use], FALSE, stack[t])

\* JType_CreateParamDescriptors, JType_CreateReturnDescriptor, JType_ProcessField
\* (which gets the type of the field, and of the value of a constant)
ProcessUse(t) ==
  /\ Running(t, "resolve", "member")
  /\ MemberLeft(t)
  /\ Top(t).use <= Len(Uses(t))
  /\ GetType(t, Uses(t)[Top(t).use], FALSE,
             Append(Below(t), [Top(t) EXCEPT !.use = @ + 1]))

\* Mutant: JType_ProcessField has no branch of its own for static fields that
\* are not final.
AddMemberAlways(t) ==
  LET c == Top(t).class IN
  /\ dict' = IF HasDict(c) THEN [dict EXCEPT ![c] = @ \cup {Top(t).member}] ELSE dict
  /\ SetStack(t, Append(Below(t), NextMember(Top(t))))

\* JType_AddMethod, JType_AddField and (for constants) JType_AddFieldAttribute:
\* without tp_dict an error that the callers ignore.  JType_ProcessField leaves
\* static fields out that are not final.
AddMember(t) ==
  LET c == Top(t).class IN
  /\ dict' = IF HasDict(c) /\ <<c, Top(t).member>> \notin Variables
             THEN [dict EXCEPT ![c] = @ \cup {Top(t).member}] ELSE dict
  /\ SetStack(t, Append(Below(t), NextMember(Top(t))))

\* JType_AcceptMethod calls the callback, if the class has one.
\* JType_AcceptField accepts every field, and constants are not even shown to it.
AcceptMember(t) ==
  /\ Running(t, "resolve", "member")
  /\ MemberLeft(t)
  /\ Top(t).use > Len(Uses(t))
  /\ IF Top(t).class \in Hooked /\ <<Top(t).class, Top(t).member>> \notin Fields
     THEN SetStack(t, At(t, "callback")) /\ UNCHANGED dict
     ELSE AddMember(t)
  /\ UNCHANGED <<registered, slotted, mro, resolving, resolved, gil, given, failures>>

\* The callback returns False or None, or anything else (an exception, too).
CallbackReturns(t) ==
  /\ Running(t, "resolve", "callback")
  /\ IF <<Top(t).class, Top(t).member>> \in Rejected
     THEN SetStack(t, Append(Below(t), NextMember(Top(t)))) /\ UNCHANGED dict
     ELSE AddMember(t)
  /\ UNCHANGED <<registered, slotted, mro, resolving, resolved, gil, given, failures>>

\* Mutant: isResolving is left set.
FinishResolveOnly(t) ==
  /\ Running(t, "resolve", "member")
  /\ ~MemberLeft(t)
  /\ LET c == Top(t).class IN
       /\ resolved' = resolved \cup {c}
       /\ Give(t, c, Below(t))
  /\ SetStack(t, Below(t))
  /\ UNCHANGED <<registered, slotted, mro, resolving, dict, gil, failures>>

FinishResolve(t) ==
  /\ Running(t, "resolve", "member")
  /\ ~MemberLeft(t)
  /\ LET c == Top(t).class IN
       /\ resolving' = resolving \ {c}
       /\ resolved' = resolved \cup {c}
       /\ Give(t, c, Below(t))
  /\ SetStack(t, Below(t))
  /\ UNCHANGED <<registered, slotted, mro, dict, gil, failures>>

-----------------------------------------------------------------------------

Work(t) ==
  \/ InitSuperType(t)
  \/ InitComponentType(t)
  \/ InitSlots(t)
  \/ ReturnType(t)
  \/ ResolveBase(t)
  \/ ProcessUse(t)
  \/ AcceptMember(t)
  \/ CallbackReturns(t)
  \/ FinishResolve(t)

Next == \E t \in Threads : Call(t) \/ Switch(t) \/ Work(t)

Spec == Init /\ [][Next]_vars

(***************************************************************************)
(* Fairness.  Only Python code can lose the GIL, and gets it back (SF on   *)
(* Switch); what JType_GetType has begun goes on (WF); a callback returns  *)
(* (SF, as it may be interrupted again and again).  No one has to call     *)
(* jpy.get_type.                                                           *)
(***************************************************************************)
Fairness ==
  \A t \in Threads : /\ WF_vars(Work(t))
                     /\ SF_vars(CallbackReturns(t))
                     /\ SF_vars(Switch(t))

FairSpec == Spec /\ Fairness

-----------------------------------------------------------------------------
(* Safety *)

FrameOf(c, operation) ==
  \E t \in Threads : \E i \in 1 .. Len(stack[t]) :
    stack[t][i].op = operation /\ stack[t][i].class = c

\* A type in JPy_Types that is not a complete Python type yet is being created
\* by an open call: a failure on the way takes it out of JPy_Types again.
InProgressIsOnStack ==
  \A c \in registered \ slotted : FrameOf(c, "get")

\* isResolving is set as long as a call fills the type's dictionary, and never
\* together with isResolved: no type is left half resolved for ever.
ResolvingIsOnStack ==
  \A c \in Classes : /\ c \in resolving <=> FrameOf(c, "resolve")
                     /\ c \in resolving => c \notin resolved

\* The members that a type does not get.
LeftOut == Rejected \cup Variables

\* A resolved type has all its constructors, methods, constants and instance
\* fields that the callback has not rejected, and no others (JType_ProcessField
\* leaves out static fields that are not final), unless the type of a parameter
\* could not be created.
ResolvedIsComplete ==
  failures = 0 => \A c \in resolved :
    \A m \in 1 .. Len(Members[c]) : m \in dict[c] <=> <<c, m>> \notin LeftOut

\* The type that jpy.get_type returns has its members: it "can be used to
\* create Java object instances" and "to access the type's static fields and
\* methods" (doc/reference.rst).
GivenIsResolved ==
  \A t \in Threads : given[t] # NoClass => given[t] \in slotted \cap resolved

\* The super classes of c, nearest first.
Supers(c) ==
  LET chain[d \in Classes] ==
        IF Super[d] = NoClass THEN <<d>> ELSE <<d>> \o chain[Super[d]]
  IN chain[c]

\* A Java class is a sub type of all its super classes in Python, too.
HierarchyIsTranslated ==
  \A c \in registered \cap slotted : mro[c] = Supers(c)

\* A type is never taken back or changed once it is complete and resolved.
CompleteIsFinal ==
  [][\A c \in registered \cap slotted \cap resolved :
       /\ c \in registered' \cap slotted' \cap resolved'
       /\ mro'[c] = mro[c] /\ dict'[c] = dict[c]]_vars

(* Liveness *)

\* Every call of jpy.get_type returns, however the classes mention each other.
CallsReturn == \A t \in Threads : stack[t] # <<>> ~> stack[t] = <<>>
=============================================================================
