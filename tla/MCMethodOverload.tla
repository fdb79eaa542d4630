--------------------------- MODULE MCMethodOverload ---------------------------
(* Families of overloaded methods and the calls to try on them. *)
EXTENDS MethodOverload, TLC

Method(params)  == [params |-> params, isStatic |-> FALSE, isVarArgs |-> FALSE]
VarArgs(params) == [params |-> params, isStatic |-> FALSE, isVarArgs |-> TRUE]
Static(m)       == [m EXCEPT !.isStatic = TRUE]

Python(kind)      == [kind |-> kind, type |-> "", class |-> "", items |-> {}]
Str               == [Python("str") EXCEPT !.items = {"str"}]
List(items)       == [Python("list") EXCEPT !.items = items]
Buffer(format, i) == [Python("buffer") EXCEPT !.type = format, !.items = {i}]
Java(class)       == [Python("java") EXCEPT !.type = class, !.class = class]
CastTo(type, arg) == [arg EXCEPT !.type = type]

Scalars == {Python(kind) : kind \in {"none", "bool", "int", "float"}}
Ints    == {Python(kind) : kind \in {"int", "wide", "huge"}}

FamilySupertypes ==
  "Sub"      :> {"Sub", "Super", "Object"} @@
  "Super"    :> {"Super", "Object"} @@
  "Object"   :> {"Object"} @@
  "String"   :> {"String", "Comparable", "Object"} @@
  "Boolean"  :> {"Boolean", "Comparable", "Object"} @@
  "Integer"  :> {"Integer", "Number", "Comparable", "Object"} @@
  "Long"     :> {"Long", "Number", "Comparable", "Object"} @@
  "Float"    :> {"Float", "Number", "Comparable", "Object"} @@
  "Double"   :> {"Double", "Number", "Comparable", "Object"} @@
  "int[]"    :> {"int[]", "Object"} @@
  "Sub[]"    :> {"Sub[]", "Super[]", "Object[]", "Object"} @@
  "String[]" :> {"String[]", "Object[]", "Object"}

FamilyComponent ==
  "int[]" :> "int" @@ "long[]" :> "long" @@ "double[]" :> "double" @@
  "String[]" :> "String" @@ "Object[]" :> "Object" @@ "Sub[]" :> "Sub" @@ "Super[]" :> "Super"

\* Linux on a 64-bit machine.
LP64 ==
  [b |-> 1, B |-> 1, h |-> 2, H |-> 2, i |-> 4, I |-> 4, f |-> 4, u |-> 4,
   l |-> 8, L |-> 8, q |-> 8, Q |-> 8, d |-> 8]

Family == <<"Sub", "Super">>
Self   == {Java("Sub"), CastTo("Super", Java("Sub"))}

\* Sub adds two methods to those it inherits.
ScalarSuper   == {Method(<<"int">>), Method(<<"double">>), Method(<<"String">>)}
ScalarMethods == [c \in {"Sub", "Super"} |->
  ScalarSuper \cup (IF c = "Sub" THEN {Method(<<"Object">>), Method(<<"Number">>)} ELSE {})]
ScalarCalls   == {<<s, a>> : s \in Self, a \in Scalars \cup Ints \cup {Str, Java("Super"), Java("String")}}
                   \cup {<<s>> : s \in Self}

\* Overloads with and without variable arguments, a static one among them:
\* called on an object, it takes the object for its first argument.
RestSuper   == {VarArgs(<<"int[]">>), VarArgs(<<"String[]">>), Method(<<"int">>)}
RestMethods == [c \in {"Sub", "Super"} |->
  RestSuper \cup (IF c = "Sub"
                  THEN {VarArgs(<<"int", "double[]">>), Static(VarArgs(<<"Object[]">>))}
                  ELSE {})]
RestArgsToTry == Scalars \cup Ints \cup {Str, List({"wide"}), List({"int"}), List({"str"}), Buffer("i", "int"), Java("int[]")}
RestCalls   ==
  {<<Java("Sub")>>} \cup {<<Java("Sub"), a>> : a \in RestArgsToTry}
    \cup {<<Java("Sub"), a, b>> : a, b \in Scalars \cup {Str}}
    \cup {<<Java("Sub"), a, b>> : a, b \in Ints}

\* Constructors, with two parameters.
NewMethods == [c \in {"Sub", "Super"} |->
  {Static(Method(<<"Object", "int">>)), Static(Method(<<"Comparable", "float">>)),
   Static(Method(<<"Super[]", "Object">>)), Static(VarArgs(<<"Boolean", "double[]">>))}]
NewCalls   == {<<a, b>> : a \in Scalars \cup {Str, Java("Sub[]"), Java("Sub")},
                          b \in Scalars \cup {Python("number")}}

\* Sub has m(double) and inherits m(int...).
ArityMethods == [c \in {"Sub", "Super"} |->
  {VarArgs(<<"int[]">>)} \cup (IF c = "Sub" THEN {Method(<<"double">>)} ELSE {})]
ArityCalls   == {<<Java("Sub"), a>> : a \in Scalars}

\* Buffers that m(int[]) matches better than m(long[]).
BufferMethods == [c \in {"Sub", "Super"} |-> {Method(<<"int[]">>), Method(<<"long[]">>)}]
BufferCalls   == {<<Java("Sub"), Buffer(f, "int")>> : f \in {"i", "l", "q"}}

\* Static methods of Sub with variable arguments that an object of Super fits as
\* well as its own m(), which Sub inherits.
UnboundMethods == [c \in {"Sub", "Super"} |->
  {Method(<<>>)} \cup (IF c = "Sub"
                      THEN {Static(VarArgs(<<"Super", "int[]">>)),
                            Static(VarArgs(<<"Super", "String[]">>))}
                      ELSE {})]
UnboundCalls   == {<<Java("Super")>>, <<Java("Sub")>>}

FamilyOf(methods, constructors, calls) ==
  [methods |-> methods, constructors |-> constructors, calls |-> calls]

AllFamilies    == {FamilyOf(ScalarMethods, FALSE, ScalarCalls),
                   FamilyOf(RestMethods, FALSE, RestCalls),
                   FamilyOf(NewMethods, TRUE, NewCalls),
                   FamilyOf(UnboundMethods, FALSE, UnboundCalls)}
ArityFamilies  == {FamilyOf(ArityMethods, FALSE, ArityCalls)}
BufferFamilies == {FamilyOf(BufferMethods, FALSE, BufferCalls)}

===============================================================================
