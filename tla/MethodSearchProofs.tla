------------------------- MODULE MethodSearchProofs -------------------------
(***************************************************************************)
(* Facts about the match values and the search of MethodOverload, for any  *)
(* types, methods and arguments: how great a match value may be, what the  *)
(* loops of JOverloadedMethod_FindMethod0 and JOverloadedMethod_FindMethod *)
(* know after each turn, and which matches can be converted.               *)
(*                                                                         *)
(* The loops are recursive functions.  That such a function exists, and    *)
(* what it computes, is shown by induction on the length of the list.      *)
(***************************************************************************)
EXTENDS MethodOverload, FiniteSetTheorems, TLAPS

Sorted(list) ==
  \A i, j \in DOMAIN list : i < j /\ list[i].isVarArgs => list[j].isVarArgs

Lists(list, set) ==
  /\ IsFiniteSet(set)
  /\ ToSet(list) = set
  /\ Len(list) = Cardinality(set)

-----------------------------------------------------------------------------
(* Match values *)

\* Match values of one argument.
Percent == 0..100

LEMMA PercentFacts == \A v \in Percent : v \in Nat /\ v <= 100
  BY DEF Percent

\* Induction over the natural numbers, as a statement about sets.
LEMMA NaturalsUp ==
  ASSUME NEW S, S \subseteq Nat, 0 \in S, \A n \in S : n + 1 \in S
  PROVE  S = Nat
<1> SUFFICES ASSUME Nat \ S # {} PROVE FALSE
  OBVIOUS
<1> DEFINE T == {1..n : n \in Nat \ S}
<1>1. T \subseteq FiniteSubsetsOf(Nat) /\ T # {}
  <2>1. ASSUME NEW n \in Nat PROVE IsFiniteSet(1..n) /\ 1..n \subseteq Nat
    BY FS_Interval
  <2>2. \A n \in Nat : 1..n \in FiniteSubsetsOf(Nat)
    BY <2>1 DEF FiniteSubsetsOf
  <2> QED
    BY <2>2
<1>2. PICK x \in T : \A y \in T : ~(<<y, x>> \in StrictSubsetOrdering(Nat))
  <2> HIDE DEF T
  <2> QED
    BY <1>1, FS_StrictSubsetOrderingWellFounded, WFMin
<1>3. PICK n \in Nat \ S : x = 1..n
  OBVIOUS
<1>4. n # 0 /\ n - 1 \in Nat /\ n - 1 \notin S
  OBVIOUS
<1>5. 1..(n - 1) \in T /\ 1..(n - 1) \subseteq x /\ 1..(n - 1) # x
  BY <1>3, <1>4
<1>6. <<1..(n - 1), x>> \in StrictSubsetOrdering(Nat)
  <2> HIDE DEF T
  <2>1. x \subseteq Nat
    BY <1>3
  <2> QED
    BY <1>5, <2>1 DEF StrictSubsetOrdering
<1> QED
  BY <1>2, <1>5, <1>6

LEMMA MatchPrimitiveBound ==
  ASSUME NEW type, NEW arg PROVE MatchPrimitive(type, arg) \in Percent
<1>1. CASE type = "boolean"
  BY <1>1 DEF MatchPrimitive, Lookup, Percent
<1>2. CASE type = "float"
  BY <1>2 DEF MatchPrimitive, Lookup, Percent
<1>3. CASE type = "double"
  BY <1>3 DEF MatchPrimitive, Lookup, Percent
<1>4. CASE type \notin {"boolean", "float", "double"}
  BY <1>4 DEF MatchPrimitive, Lookup, Percent
<1> QED
  BY <1>1, <1>2, <1>3, <1>4

\* Every match value of one argument is a percentage.
LEMMA MatchPyArgBound ==
  ASSUME NEW type, NEW arg PROVE MatchPyArg(type, arg) \in Percent
<1>1. MatchString(arg) \in Percent
  BY DEF MatchString, Lookup, Percent
<1>2. MatchJavaObject(type, arg) \in Percent
  BY DEF MatchJavaObject, Percent
<1>3. MatchArray(type, arg) \in Percent
  <2>1. MatchBuffer(Component[type], arg.type) \in Percent
    BY DEF MatchBuffer, Percent
  <2> QED
    BY <2>1 DEF MatchArray, Percent
<1>4. MatchValue(type, arg) \in Percent
  <2>1. Lookup([bool |-> 100, int |-> 10], arg.kind) \in Percent
    BY DEF Lookup, Percent
  <2>2. Lookup([int |-> 100, bool |-> 100], arg.kind) \in Percent
    BY DEF Lookup, Percent
  <2>3. Lookup([float |-> 100, int |-> 90, bool |-> 90], arg.kind) \in Percent
    BY DEF Lookup, Percent
  <2>4. 0 \in Percent /\ 10 \in Percent /\ 80 \in Percent
    BY DEF Percent
  <2> QED
    BY <2>1, <2>2, <2>3, <2>4 DEF MatchValue
<1>5. MatchObject(type, arg) \in Percent
  <2>1. 1 \in Percent
    BY DEF Percent
  <2> QED
    BY <1>2, <1>3, <1>4, <2>1 DEF MatchObject
<1> QED
  BY <1>1, <1>5, MatchPrimitiveBound DEF MatchPyArg

\* A set of natural numbers has a least element.
LEMMA LeastOf ==
  ASSUME NEW V, V \subseteq Nat, V # {}
  PROVE  Least(V) \in V /\ \A w \in V : Least(V) <= w
<1>1. \E v \in V : \A w \in V : v <= w
  <2> SUFFICES ASSUME \A v \in V : \E w \in V : ~(v <= w) PROVE FALSE
    OBVIOUS
  <2> DEFINE S == {n \in Nat : \A v \in V : v > n}
  <2>1. 0 \in S
    OBVIOUS
  <2>2. \A n \in S : n + 1 \in S
    OBVIOUS
  <2>3. S = Nat
    <3>1. S \subseteq Nat
      OBVIOUS
    <3> HIDE DEF S
    <3> QED
      BY <2>1, <2>2, <3>1, NaturalsUp
  <2>4. PICK v \in V : TRUE
    OBVIOUS
  <2> QED
    BY <2>3, <2>4
<1> QED
  BY <1>1 DEF Least

\* The running sums of match values.
LEMMA SumSteps ==
  ASSUME NEW values, Len(values) \in Nat
  PROVE  \E f : /\ Sum(values) = f[Len(values)]
                /\ f[0] = 0
                /\ \A n \in 1..Len(values) : f[n] = f[n - 1] + values[n]
<1> DEFINE IsSum(f, N) ==
             f = [n \in 0..N |-> IF n = 0 THEN 0
                                 ELSE f[n - 1] + values[n]]
           S == {N \in Nat : \E f : IsSum(f, N)}
<1>1. 0 \in S
  <2>1. IsSum([n \in 0..0 |-> 0], 0)
    OBVIOUS
  <2> QED
    BY <2>1
<1>2. ASSUME NEW N \in S PROVE N + 1 \in S
  <2>1. PICK f : IsSum(f, N)
    OBVIOUS
  <2> DEFINE g == [n \in 0..(N + 1) |-> IF n = N + 1 THEN f[N] + values[N + 1]
                                        ELSE f[n]]
  <2>2. IsSum(g, N + 1)
    <3>1. \A n \in 0..N : g[n] = f[n]
      OBVIOUS
    <3>2. g[N + 1] = g[N] + values[N + 1]
      BY <3>1
    <3>3. \A n \in 1..N : g[n] = g[n - 1] + values[n]
      <4>1. \A n \in 1..N : f[n] = f[n - 1] + values[n] /\ n - 1 \in 0..N
        BY <2>1
      <4>2. \A n \in 1..N : g[n] = f[n] /\ g[n - 1] = f[n - 1]
        BY <3>1, <4>1
      <4> HIDE DEF g
      <4> QED
        BY <4>1, <4>2
    <3>4. g[0] = 0
      BY <2>1, <3>1
    <3>5. g = [n \in 0..(N + 1) |-> g[n]]
      OBVIOUS
    <3> HIDE DEF g
    <3>6. \A n \in 0..(N + 1) :
            g[n] = IF n = 0 THEN 0 ELSE g[n - 1] + values[n]
      <4> TAKE n \in 0..(N + 1)
      <4>1. n = 0 \/ (n = N + 1 /\ n - 1 = N /\ n # 0) \/ (n \in 1..N /\ n # 0)
        OBVIOUS
      <4> QED
        BY <3>2, <3>3, <3>4, <4>1, Zenon
    <3> QED
      BY <3>5, <3>6
  <2>3. N + 1 \in Nat
    OBVIOUS
  <2> HIDE DEF g, IsSum
  <2> QED
    BY <2>2, <2>3
<1> HIDE DEF IsSum
<1>3. \E f : IsSum(f, Len(values))
  <2>1. S = Nat
    <3> HIDE DEF S
    <3>1. S \subseteq Nat
      BY DEF S
    <3> QED
      BY <1>1, <1>2, <3>1, NaturalsUp
  <2> QED
    BY <2>1
<1>4. Sum(values) = (CHOOSE f : IsSum(f, Len(values)))[Len(values)]
  BY DEF Sum, IsSum
<1>5. IsSum(CHOOSE f : IsSum(f, Len(values)), Len(values))
  BY <1>3
<1> DEFINE h == CHOOSE f : IsSum(f, Len(values))
<1>6. IsSum(h, Len(values)) /\ Sum(values) = h[Len(values)]
  BY <1>4, <1>5
<1> HIDE DEF h
<1>7. h = [n \in 0..Len(values) |-> IF n = 0 THEN 0
                                 ELSE h[n - 1] + values[n]]
  BY <1>6 DEF IsSum
<1>8. h[0] = 0 /\ \A n \in 1..Len(values) : h[n] = h[n - 1] + values[n]
  BY <1>7
<1> QED
  BY <1>6, <1>8

\* JMethod_MatchPyArgs adds up at most 100 for each argument.
LEMMA SumBound ==
  ASSUME NEW values \in Seq(Percent)
  PROVE  Sum(values) \in Nat /\ Sum(values) <= 100 * Len(values)
<1>1. Len(values) \in Nat /\ \A n \in 1..Len(values) : values[n] \in Percent
  OBVIOUS
<1>2. PICK f : /\ Sum(values) = f[Len(values)]
               /\ f[0] = 0
               /\ \A n \in 1..Len(values) : f[n] = f[n - 1] + values[n]
  BY <1>1, SumSteps
<1> DEFINE S == {n \in Nat : n <= Len(values) => f[n] \in Nat /\ f[n] <= 100 * n}
<1>3. 0 \in S
  BY <1>2
<1>4. ASSUME NEW n \in S PROVE n + 1 \in S
  <2> DEFINE k == n + 1
  <2> SUFFICES ASSUME k <= Len(values) PROVE f[k] \in Nat /\ f[k] <= 100 * k
    OBVIOUS
  <2>1. f[n] \in Nat /\ f[n] <= 100 * n /\ n \in Nat
    BY <1>1
  <2>2. k \in 1..Len(values) /\ k - 1 = n
    BY <1>1, <2>1
  <2> HIDE DEF k
  <2>3. values[k] \in Percent /\ f[k] = f[n] + values[k]
    BY <1>1, <1>2, <2>2
  <2>4. values[k] \in Nat /\ values[k] <= 100
    BY <2>3, PercentFacts
  <2>5. \A a, v, i \in Nat : a <= 100 * i /\ v <= 100 => a + v <= 100 * (i + 1)
    OBVIOUS
  <2>6. f[k] \in Nat /\ f[k] <= 100 * (n + 1)
    BY <2>1, <2>3, <2>4, <2>5
  <2> QED
    BY <2>6 DEF k
<1>5. S = Nat
  <2>1. S \subseteq Nat
    OBVIOUS
  <2> HIDE DEF S
  <2> QED
    BY <1>3, <1>4, <2>1, NaturalsUp
<1> QED
  BY <1>1, <1>2, <1>5

\* What MethodsAssumption says of a method.
IsMethod(m) ==
  /\ m.params \in Seq(STRING)
  /\ m.isStatic \in BOOLEAN
  /\ m.isVarArgs \in BOOLEAN
  /\ m.isVarArgs => m.params # <<>>

LEMMA Counts ==
  ASSUME NEW m, IsMethod(m)
  PROVE  /\ SelfCount(m) \in {0, 1}
         /\ m.isStatic <=> SelfCount(m) = 0
         /\ FixedCount(m) \in Nat
         /\ ~m.isVarArgs => FixedCount(m) = Len(m.params)
  BY DEF IsMethod, SelfCount, FixedCount

LEMMA FixedMatchesFacts ==
  ASSUME NEW m, IsMethod(m), NEW args
  PROVE  FixedMatches(m, args) \in Seq(Percent) /\ Len(FixedMatches(m, args)) = FixedCount(m)
<1> DEFINE e(i) == MatchPyArg(m.params[i], FixedArgs(m, args)[i])
<1>1. FixedCount(m) \in Nat
  BY Counts
<1>2. \A i \in 1..FixedCount(m) : e(i) \in Percent
  BY MatchPyArgBound
<1>3. FixedMatches(m, args) = [i \in 1..FixedCount(m) |-> e(i)]
  BY DEF FixedMatches
<1> HIDE DEF e
<1> QED
  BY <1>1, <1>2, <1>3

\* Variable arguments match as well as the worst of them.
LEMMA MatchVarArgsBound ==
  ASSUME NEW type, NEW rest \in Seq(Arguments)
  PROVE  /\ MatchVarArgs(type, rest) \in Percent
         /\ MatchVarArgs(type, rest) > 0 =>
              \A i \in DOMAIN rest : MatchPyArg(Component[type], rest[i]) > 0
<1>1. CASE rest = <<>>
  BY <1>1 DEF MatchVarArgs, Percent
<1>2. CASE rest # <<>>
  <2> DEFINE V == {MatchPyArg(Component[type], rest[i]) : i \in DOMAIN rest}
  <2>1. V \subseteq Percent /\ Percent \subseteq Nat
    BY MatchPyArgBound, PercentFacts
  <2>2. V # {}
    <3>1. 1 \in DOMAIN rest
      BY <1>2
    <3> QED
      BY <3>1
  <2>3. MatchVarArgs(type, rest) = Least(V)
    BY <1>2 DEF MatchVarArgs
  <2>4. \A i \in DOMAIN rest : MatchPyArg(Component[type], rest[i]) \in V
    OBVIOUS
  <2> HIDE DEF V
  <2>5. Least(V) \in V /\ \A w \in V : Least(V) <= w
    BY <2>1, <2>2, LeastOf
  <2>6. ASSUME Least(V) > 0, NEW i \in DOMAIN rest
        PROVE  MatchPyArg(Component[type], rest[i]) > 0
    <3>1. MatchPyArg(Component[type], rest[i]) \in Nat /\ Least(V) \in Nat
      BY <2>1, <2>4, <2>5
    <3>2. Least(V) <= MatchPyArg(Component[type], rest[i])
      BY <2>4, <2>5
    <3> QED
      BY <2>6, <3>1, <3>2
  <2> QED
    BY <2>1, <2>3, <2>5, <2>6
<1> QED
  BY <1>1, <1>2

LEMMA VarArgsMatchFacts ==
  ASSUME NEW m, IsMethod(m), NEW args \in Seq(Arguments)
  PROVE  /\ RestArgs(m, args) \in Seq(Arguments)
         /\ RestMatch(m, args) \in Percent
         /\ SingleMatch(m, args) \in Percent
         /\ VarArgsMatch(m, args) \in Nat
<1>1. RestArgs(m, args) \in Seq(Arguments)
  BY Counts DEF RestArgs
<1>2. RestMatch(m, args) \in Percent
  BY <1>1, MatchVarArgsBound DEF RestMatch
<1>3. SingleMatch(m, args) \in Percent
  BY MatchPyArgBound DEF SingleMatch, Percent
<1>4. Greater(RestMatch(m, args), SingleMatch(m, args)) \in Nat
  BY <1>2, <1>3, PercentFacts DEF Greater
<1> QED
  BY <1>1, <1>2, <1>3, <1>4 DEF VarArgsMatch

LEMMA MatchSelfBound ==
  ASSUME NEW c, NEW m, IsMethod(m), NEW args
  PROVE  MatchSelf(c, m, args) \in Percent /\ (m.isStatic => MatchSelf(c, m, args) = 0)
<1>1. MatchJavaObject(c, args[1]) \in Percent /\ 0 \in Percent
  BY DEF MatchJavaObject, Percent
<1>2. m.isStatic \in BOOLEAN
  BY DEF IsMethod
<1> QED
  BY <1>1, <1>2 DEF MatchSelf

\* The match value of a method; only that of a method with variable arguments may be
\* more than 100 for each argument.
LEMMA ValueFacts ==
  ASSUME NEW c, NEW m, IsMethod(m), NEW args \in Seq(Arguments)
  PROVE  /\ MatchPyArgs(c, m, args) \in Nat
         /\ ~m.isVarArgs /\ args # <<>> => MatchPyArgs(c, m, args) <= Perfect(args)
         /\ ~m.isVarArgs /\ args = <<>> => MatchPyArgs(c, m, args) \in {0, 100}
<1> DEFINE self == MatchSelf(c, m, args)
           sum  == Sum(FixedMatches(m, args))
           rest == IF m.isVarArgs THEN VarArgsMatch(m, args) ELSE 0
           V    == MatchPyArgs(c, m, args)
<1>1. self \in Nat /\ self <= 100 /\ (m.isStatic => self = 0)
  BY MatchSelfBound, PercentFacts
<1>2. sum \in Nat /\ sum <= 100 * FixedCount(m)
  BY FixedMatchesFacts, SumBound
<1>3. rest \in Nat /\ (~m.isVarArgs => rest = 0)
  BY VarArgsMatchFacts DEF IsMethod
<1>4. V \in {0, 100} \/ V = self + sum + rest
  BY DEF MatchPyArgs
<1>5. V = 0 \/ CountMatches(m, args)
  <2>1. CASE ~CountMatches(m, args)
    BY <2>1 DEF MatchPyArgs
  <2> QED
    BY <2>1
<1>6. \/ V = 100 /\ m.isStatic /\ m.params = <<>>
      \/ V = 0
      \/ V = self + sum + rest
  BY DEF MatchPyArgs
<1>7. Len(args) \in Nat /\ Perfect(args) = 100 * Len(args) /\ (args # <<>> <=> Len(args) > 0)
  BY DEF Perfect
<1>8. /\ SelfCount(m) \in {0, 1} /\ FixedCount(m) \in Nat
      /\ m.isStatic <=> SelfCount(m) = 0
      /\ ~m.isVarArgs => FixedCount(m) = Len(m.params)
  BY Counts
<1>9. ~m.isVarArgs /\ V # 0 => Len(args) = SelfCount(m) + FixedCount(m)
  BY <1>5 DEF CountMatches
<1> HIDE DEF self, sum, rest, V
<1>10. V \in Nat
  BY <1>1, <1>2, <1>3, <1>4
<1>11. ASSUME ~m.isVarArgs, args # <<>> PROVE V <= Perfect(args)
  <2>1. self <= 100 * SelfCount(m)
    BY <1>1, <1>8
  <2>2. self + sum + rest <= 100 * (SelfCount(m) + FixedCount(m))
    BY <1>1, <1>2, <1>3, <1>8, <1>11, <2>1
  <2> QED
    BY <1>6, <1>7, <1>9, <1>10, <1>11, <2>2
<1>12. ASSUME ~m.isVarArgs, args = <<>> PROVE V \in {0, 100}
  <2>1. V # 0 => m.isStatic /\ FixedCount(m) = 0 /\ m.params = <<>>
    <3>1. m.params \in Seq(STRING)
      BY DEF IsMethod
    <3> QED
      BY <1>7, <1>8, <1>9, <1>12, <3>1
  <2>2. V # 0 => V = 100
    BY <2>1 DEF MatchPyArgs, V, IsMethod
  <2> QED
    BY <2>2
<1> QED
  BY <1>10, <1>11, <1>12 DEF V

-----------------------------------------------------------------------------
(* The search in one class *)

\* The turns of the loop of JOverloadedMethod_FindMethod0.
LEMMA SearchSteps ==
  ASSUME NEW c, NEW list, NEW args, Len(list) \in Nat
  PROVE  \E f : /\ FindMethod0(c, list, args) = f[Len(list)]
                /\ f[0] = NotFound
                /\ \A n \in 1..Len(list) : f[n] = TryMethod(c, args, f[n - 1], list[n])
<1> DEFINE IsSearch(f, N) ==
             f = [n \in 0..N |-> IF n = 0 THEN NotFound
                                 ELSE TryMethod(c, args, f[n - 1], list[n])]
           S == {N \in Nat : \E f : IsSearch(f, N)}
<1>1. 0 \in S
  <2>1. IsSearch([n \in 0..0 |-> NotFound], 0)
    OBVIOUS
  <2> QED
    BY <2>1
<1>2. ASSUME NEW N \in S PROVE N + 1 \in S
  <2>1. PICK f : IsSearch(f, N)
    OBVIOUS
  <2> DEFINE g == [n \in 0..(N + 1) |-> IF n = N + 1 THEN TryMethod(c, args, f[N], list[N + 1])
                                        ELSE f[n]]
  <2>2. IsSearch(g, N + 1)
    <3>1. \A n \in 0..N : g[n] = f[n]
      OBVIOUS
    <3>2. g[N + 1] = TryMethod(c, args, g[N], list[N + 1])
      BY <3>1
    <3>3. \A n \in 1..N : g[n] = TryMethod(c, args, g[n - 1], list[n])
      <4>1. \A n \in 1..N : f[n] = TryMethod(c, args, f[n - 1], list[n]) /\ n - 1 \in 0..N
        BY <2>1
      <4> QED
        BY <3>1, <4>1
    <3>4. g[0] = NotFound
      BY <2>1, <3>1
    <3>5. g = [n \in 0..(N + 1) |-> g[n]]
      OBVIOUS
    <3> HIDE DEF g
    <3>6. \A n \in 0..(N + 1) :
            g[n] = IF n = 0 THEN NotFound ELSE TryMethod(c, args, g[n - 1], list[n])
      <4>1. \A n \in 0..(N + 1) : n = 0 \/ n = N + 1 \/ n \in 1..N
        OBVIOUS
      <4> QED
        BY <3>2, <3>3, <3>4, <4>1
    <3> QED
      BY <3>5, <3>6
  <2>3. N + 1 \in Nat
    OBVIOUS
  <2> HIDE DEF g, IsSearch
  <2> QED
    BY <2>2, <2>3
<1> HIDE DEF IsSearch
<1>3. \E f : IsSearch(f, Len(list))
  <2>1. S = Nat
    <3> HIDE DEF S
    <3>1. S \subseteq Nat
      BY DEF S
    <3> QED
      BY <1>1, <1>2, <3>1, NaturalsUp
  <2> QED
    BY <2>1
<1>4. FindMethod0(c, list, args) = (CHOOSE f : IsSearch(f, Len(list)))[Len(list)]
  BY DEF FindMethod0, IsSearch
<1>5. IsSearch(CHOOSE f : IsSearch(f, Len(list)), Len(list))
  BY <1>3
<1> DEFINE h == CHOOSE f : IsSearch(f, Len(list))
<1>6. IsSearch(h, Len(list)) /\ FindMethod0(c, list, args) = h[Len(list)]
  BY <1>4, <1>5
<1> HIDE DEF h
<1>7. h = [n \in 0..Len(list) |-> IF n = 0 THEN NotFound
                                 ELSE TryMethod(c, args, h[n - 1], list[n])]
  BY <1>6 DEF IsSearch
<1>8. h[0] = NotFound /\ \A n \in 1..Len(list) : h[n] = TryMethod(c, args, h[n - 1], list[n])
  BY <1>7
<1> QED
  BY <1>6, <1>8

\* If a method without variable arguments matches perfectly, none matches better.
LEMMA PerfectIsBest ==
  ASSUME NEW c, NEW m, NEW n, IsMethod(m), IsMethod(n), ~m.isVarArgs, ~n.isVarArgs,
         NEW args \in Seq(Arguments),
         MatchPyArgs(c, m, args) > 0, MatchPyArgs(c, m, args) >= Perfect(args)
  PROVE  MatchPyArgs(c, n, args) <= MatchPyArgs(c, m, args)
<1> DEFINE v == MatchPyArgs(c, m, args)
           w == MatchPyArgs(c, n, args)
<1>1. /\ v \in Nat /\ v > 0 /\ v >= Perfect(args)
      /\ args # <<>> => v <= Perfect(args)
      /\ args = <<>> => v \in {0, 100}
  BY ValueFacts
<1>2. /\ w \in Nat
      /\ args # <<>> => w <= Perfect(args)
      /\ args = <<>> => w \in {0, 100}
  BY ValueFacts
<1>3. Perfect(args) \in Nat
  BY DEF Perfect
<1> HIDE DEF v, w
<1>4. w <= v
  <2>1. CASE args = <<>>
    BY <1>1, <1>2, <2>1
  <2>2. CASE args # <<>>
    BY <1>1, <1>2, <1>3, <2>2
  <2> QED
    BY <2>1, <2>2
<1> QED
  BY <1>4 DEF v, w

\* The match value of the i-th method of a list.
Worth(c, list, args, i) == MatchPyArgs(c, list[i], args)

\* A JPy_MethodFindResult that found a method.
Result(c, m, args, count, done) ==
  [class |-> c, method |-> m, value |-> MatchPyArgs(c, m, args), count |-> count,
   asArray |-> PassesArray(m, args), done |-> done]

\* What the search knows of the first n methods of a list if the k-th is the best.
Best(c, list, args, n, k, count, done) ==
  /\ Worth(c, list, args, k) > 0
  /\ \A i \in 1..n : i # k =>
       \/ Worth(c, list, args, i) < Worth(c, list, args, k)
       \/ Worth(c, list, args, i) = Worth(c, list, args, k) /\ count > 1
       \/ list[i].isVarArgs /\ ~list[k].isVarArgs
       \/ /\ ~list[i].isVarArgs /\ ~list[k].isVarArgs
          /\ Worth(c, list, args, i) <= Worth(c, list, args, k)
          /\ Worth(c, list, args, k) >= Perfect(args)
  /\ count > 1 =>
       \E j \in 1..n : /\ j # k /\ (list[j].isVarArgs <=> list[k].isVarArgs)
                       /\ Worth(c, list, args, j) = Worth(c, list, args, k)
  /\ list[k].isVarArgs =>
       ~done /\ \A i \in 1..n : Worth(c, list, args, i) > 0 => list[i].isVarArgs
  /\ ~list[k].isVarArgs =>
       \/ ~done /\ Worth(c, list, args, k) < Perfect(args)
       \/ done /\ count = 1 /\ Worth(c, list, args, k) >= Perfect(args)
       \/ done /\ Worth(c, list, args, k) < Perfect(args) /\ \E i \in 1..n : list[i].isVarArgs

\* The result after n turns of the loop.
Search(c, list, args, n, best) ==
  \/ best = NotFound /\ \A i \in 1..n : Worth(c, list, args, i) = 0
  \/ \E k \in 1..n, count \in Nat \ {0}, done \in BOOLEAN :
       /\ best = Result(c, list[k], args, count, done)
       /\ Best(c, list, args, n, k, count, done)

\* A method without variable arguments that matches perfectly ends the search.
Unbeaten(c, m, args) == ~m.isVarArgs /\ MatchPyArgs(c, m, args) >= Perfect(args)

LEMMA UnbeatenIsBoolean == \A c, m, args : Unbeaten(c, m, args) \in BOOLEAN
  BY DEF Unbeaten

\* One turn of the loop, before and after a method that fits has been found.
LEMMA TryFirst ==
  ASSUME NEW c, NEW args, NEW m, MatchPyArgs(c, m, args) \in Nat
  PROVE  TryMethod(c, args, NotFound, m) =
           IF MatchPyArgs(c, m, args) = 0 THEN NotFound
           ELSE Result(c, m, args, 1, Unbeaten(c, m, args))
<1> DEFINE value    == MatchPyArgs(c, m, args)
           unbeaten == Unbeaten(c, m, args)
<1>1. NotFound.count = 0 /\ NotFound.value = 0 /\ NotFound.done = FALSE
  BY DEF NotFound
<1>2. value # 0 => value > NotFound.value
  BY <1>1
<1>3. [NewBest(c, m, args, value) EXCEPT !.done = unbeaten] = Result(c, m, args, 1, unbeaten)
  BY UnbeatenIsBoolean DEF NewBest, Result
<1>4. ~(NotFound.count > 0)
  BY <1>1
<1>5. CASE value = 0
  <2>1. TryMethod(c, args, NotFound, m) = NotFound
    BY <1>1, <1>4, <1>5 DEF TryMethod
  <2> QED
    BY <1>5, <2>1
<1>6. CASE value # 0
  <2>1. Compare(c, m, args, NotFound, value) = NewBest(c, m, args, value)
    BY <1>2, <1>6 DEF Compare
  <2>2. TryMethod(c, args, NotFound, m) = [NewBest(c, m, args, value) EXCEPT !.done = unbeaten]
    BY <1>1, <1>4, <1>6, <2>1 DEF TryMethod, Unbeaten
  <2> QED
    BY <1>3, <1>6, <2>2
<1> QED
  BY <1>5, <1>6

LEMMA ResultFacts ==
  ASSUME NEW c, NEW k, NEW args, NEW count, NEW done \in BOOLEAN
  PROVE  /\ Result(c, k, args, count, done).class = c
         /\ Result(c, k, args, count, done).method = k
         /\ Result(c, k, args, count, done).value = MatchPyArgs(c, k, args)
         /\ Result(c, k, args, count, done).count = count
         /\ Result(c, k, args, count, done).asArray = PassesArray(k, args)
         /\ Result(c, k, args, count, done).done = done
  BY DEF Result

LEMMA TryDone ==
  ASSUME NEW c, NEW args, NEW m, NEW k, NEW count \in Nat \ {0}
  PROVE  TryMethod(c, args, Result(c, k, args, count, TRUE), m) = Result(c, k, args, count, TRUE)
  BY ResultFacts DEF TryMethod

LEMMA TryNext ==
  ASSUME NEW c, NEW args, NEW m, NEW k, NEW count \in Nat \ {0}
  PROVE  TryMethod(c, args, Result(c, k, args, count, FALSE), m) =
           IF m.isVarArgs /\ ~k.isVarArgs THEN Result(c, k, args, count, TRUE)
           ELSE IF MatchPyArgs(c, m, args) = 0 THEN Result(c, k, args, count, FALSE)
           ELSE IF MatchPyArgs(c, m, args) > MatchPyArgs(c, k, args)
           THEN Result(c, m, args, 1, Unbeaten(c, m, args))
           ELSE IF MatchPyArgs(c, m, args) = MatchPyArgs(c, k, args)
           THEN Result(c, k, args, count + 1, Unbeaten(c, m, args))
           ELSE Result(c, k, args, count, Unbeaten(c, m, args))
<1> DEFINE b == Result(c, k, args, count, FALSE)
           v == MatchPyArgs(c, m, args)
           w == MatchPyArgs(c, k, args)
           unbeaten == Unbeaten(c, m, args)
<1>1. b.done = FALSE /\ b.count = count /\ b.value = w /\ b.method = k
  <2>1. b.done = FALSE
    BY DEF Result
  <2>2. b.count = count
    BY DEF Result
  <2>3. b.value = w /\ b.method = k
    BY DEF Result
  <2> QED
    BY <2>1, <2>2, <2>3
<1>2. /\ [b EXCEPT !.done = TRUE] = Result(c, k, args, count, TRUE)
      /\ [b EXCEPT !.done = unbeaten] = Result(c, k, args, count, unbeaten)
      /\ [[b EXCEPT !.count = @ + 1] EXCEPT !.done = unbeaten]
           = Result(c, k, args, count + 1, unbeaten)
      /\ [NewBest(c, m, args, v) EXCEPT !.done = unbeaten] = Result(c, m, args, 1, unbeaten)
  <2>1. [NewBest(c, m, args, v) EXCEPT !.done = unbeaten] = Result(c, m, args, 1, unbeaten)
    BY UnbeatenIsBoolean DEF Result, NewBest
  <2>2. PICK yes \in BOOLEAN : yes
    OBVIOUS
  <2>3. PICK no \in BOOLEAN : ~no
    OBVIOUS
  <2>4. yes = TRUE /\ no = FALSE
    BY <2>2, <2>3
  <2>5. PICK u \in BOOLEAN : u = unbeaten
    BY UnbeatenIsBoolean
  <2>6. [Result(c, k, args, count, no) EXCEPT !.done = yes] = Result(c, k, args, count, yes)
    BY DEF Result
  <2>7. [Result(c, k, args, count, no) EXCEPT !.done = u] = Result(c, k, args, count, u)
    BY DEF Result
  <2>8. [Result(c, k, args, count, no) EXCEPT !.count = @ + 1] = Result(c, k, args, count + 1, no)
    BY DEF Result
  <2>9. [Result(c, k, args, count + 1, no) EXCEPT !.done = u] = Result(c, k, args, count + 1, u)
    BY DEF Result
  <2> QED
    BY <2>1, <2>4, <2>5, <2>6, <2>7, <2>8, <2>9
<1>3. TryMethod(c, args, b, m) =
        IF b.done THEN b
        ELSE IF m.isVarArgs /\ b.count > 0 /\ ~b.method.isVarArgs THEN [b EXCEPT !.done = TRUE]
        ELSE IF v = 0 THEN b
        ELSE [Compare(c, m, args, b, v) EXCEPT !.done = unbeaten]
  BY Zenon DEF TryMethod, Unbeaten
<1>4. Compare(c, m, args, b, v) =
        IF v > w THEN NewBest(c, m, args, v)
        ELSE IF v = w THEN [b EXCEPT !.count = @ + 1] ELSE b
  BY <1>1 DEF Compare
<1>5. b.count > 0
  <2> HIDE DEF b
  <2> QED
    BY <1>1
<1> HIDE DEF v, w, unbeaten
<1>6. TryMethod(c, args, b, m) =
        IF m.isVarArgs /\ ~k.isVarArgs THEN Result(c, k, args, count, TRUE)
        ELSE IF v = 0 THEN b
        ELSE IF v > w THEN Result(c, m, args, 1, unbeaten)
        ELSE IF v = w THEN Result(c, k, args, count + 1, unbeaten)
        ELSE Result(c, k, args, count, unbeaten)
  <2> HIDE DEF b
  <2> QED
    BY <1>1, <1>2, <1>3, <1>4, <1>5, Zenon
<1> QED
  BY <1>6 DEF v, w, unbeaten

\* Each turn of the loop keeps what the search knows.
LEMMA SearchStep ==
  ASSUME NEW c, NEW list, NEW N \in Nat, DOMAIN list = 1..N, \A i \in 1..N : IsMethod(list[i]),
         Sorted(list), NEW args \in Seq(Arguments),
         NEW n \in Nat, NEW next \in 1..N, next = n + 1, NEW best, Search(c, list, args, n, best)
  PROVE  Search(c, list, args, next, TryMethod(c, args, best, list[next]))
<1> DEFINE W(i)  == Worth(c, list, args, i)
           Var   == {i \in 1..N : list[i].isVarArgs}
           VA(i) == i \in Var
           P     == Perfect(args)
           m     == list[next]
           unbeaten == Unbeaten(c, m, args)
           new   == TryMethod(c, args, best, m)
<1>1. \A i \in 1..N : W(i) \in Nat
  BY ValueFacts DEF Worth
<1>2. \A i \in 1..N : VA(i) <=> list[i].isVarArgs
  OBVIOUS
<1>3. P \in Nat
  BY DEF Perfect
<1>4. \A i, j \in 1..N : i < j /\ VA(i) => VA(j)
  BY DEF Sorted
<1>5. /\ \A i \in 1..n : i \in 1..N /\ i < next /\ i \in 1..next
      /\ \A i \in 1..next : i \in 1..n \/ i = next
      /\ next \in 1..next
  OBVIOUS
<1>6. MatchPyArgs(c, m, args) = W(next)
  BY DEF Worth
<1>7. unbeaten <=> (~VA(next) /\ W(next) >= P)
  BY <1>2, <1>6 DEF Unbeaten
<1>8. CASE best = NotFound /\ \A i \in 1..n : W(i) = 0
  <2>1. CASE W(next) = 0
    <3>1. new = NotFound
      BY <1>1, <1>6, <1>8, <2>1, TryFirst
    <3>2. \A i \in 1..next : W(i) = 0
      BY <1>5, <1>8, <2>1
    <3> QED
      BY <3>1, <3>2 DEF Search
  <2>2. CASE W(next) # 0
    <3>1. new = Result(c, list[next], args, 1, unbeaten)
      BY <1>1, <1>6, <1>8, <2>2, TryFirst
    <3>2. Best(c, list, args, next, next, 1, unbeaten)
      <4> HIDE DEF unbeaten, W, m
      <4>1. W(next) > 0
        BY <1>1, <2>2
      <4>2. \A i \in 1..next : i # next => W(i) < W(next)
        BY <1>5, <1>8, <4>1
      <4>3. VA(next) => ~unbeaten /\ \A i \in 1..next : W(i) > 0 => VA(i)
        BY <1>5, <1>7, <1>8
      <4>4. ~VA(next) => \/ ~unbeaten /\ W(next) < P
                         \/ unbeaten /\ W(next) >= P
        BY <1>1, <1>3, <1>5, <1>7
      <4> QED
        BY <4>1, <4>2, <4>3, <4>4 DEF Best, W
    <3>3. unbeaten \in BOOLEAN /\ 1 \in Nat \ {0}
      BY UnbeatenIsBoolean
    <3> HIDE DEF unbeaten
    <3> QED
      BY <1>5, <3>1, <3>2, <3>3 DEF Search
  <2> QED
    BY <2>1, <2>2
<1>9. ASSUME NEW k \in 1..n, NEW count \in Nat \ {0}, NEW done \in BOOLEAN,
             best = Result(c, list[k], args, count, done),
             Best(c, list, args, n, k, count, done)
      PROVE  Search(c, list, args, next, new)
  <2>1. /\ W(k) > 0
        /\ \A i \in 1..n : i # k =>
             \/ W(i) < W(k)
             \/ W(i) = W(k) /\ count > 1
             \/ VA(i) /\ ~VA(k)
             \/ ~VA(i) /\ ~VA(k) /\ W(i) <= W(k) /\ W(k) >= P
        /\ count > 1 => \E j \in 1..n : j # k /\ (VA(j) <=> VA(k)) /\ W(j) = W(k)
        /\ VA(k) => ~done /\ \A i \in 1..n : W(i) > 0 => VA(i)
        /\ ~VA(k) =>
             \/ ~done /\ W(k) < P
             \/ done /\ count = 1 /\ W(k) >= P
             \/ done /\ W(k) < P /\ \E i \in 1..n : VA(i)
    BY <1>9 DEF Best
  <2>2. k \in 1..N /\ k \in 1..next /\ k # next
    BY <1>5
  <2>3. ASSUME NEW b \in 1..next, NEW ct \in Nat \ {0}, NEW d \in BOOLEAN,
               new = Result(c, list[b], args, ct, d),
               W(b) > 0,
               \A i \in 1..next : i # b =>
                 \/ W(i) < W(b)
                 \/ W(i) = W(b) /\ ct > 1
                 \/ VA(i) /\ ~VA(b)
                 \/ ~VA(i) /\ ~VA(b) /\ W(i) <= W(b) /\ W(b) >= P,
               ct > 1 => \E j \in 1..next : j # b /\ (VA(j) <=> VA(b)) /\ W(j) = W(b),
               VA(b) => ~d /\ \A i \in 1..next : W(i) > 0 => VA(i),
               ~VA(b) =>
                 \/ ~d /\ W(b) < P
                 \/ d /\ ct = 1 /\ W(b) >= P
                 \/ d /\ W(b) < P /\ \E i \in 1..next : VA(i)
        PROVE  Search(c, list, args, next, new)
    <3>1. Best(c, list, args, next, b, ct, d)
      BY <2>3 DEF Best
    <3> HIDE DEF new
    <3> QED
      BY <2>3, <3>1 DEF Search
  <2>4. unbeaten \in BOOLEAN
    BY UnbeatenIsBoolean
  <2>5. /\ done => new = Result(c, list[k], args, count, TRUE)
        /\ ~done =>
             new = IF VA(next) /\ ~VA(k) THEN Result(c, list[k], args, count, TRUE)
                   ELSE IF W(next) = 0 THEN Result(c, list[k], args, count, FALSE)
                   ELSE IF W(next) > W(k) THEN Result(c, list[next], args, 1, unbeaten)
                   ELSE IF W(next) = W(k) THEN Result(c, list[k], args, count + 1, unbeaten)
                   ELSE Result(c, list[k], args, count, unbeaten)
    <3>1. CASE done
      <4>1. new = TryMethod(c, args, Result(c, list[k], args, count, TRUE), m)
        BY <1>9, <3>1
      <4> QED
        BY <3>1, <4>1, TryDone
    <3>2. CASE ~done
      <4>1. new = TryMethod(c, args, Result(c, list[k], args, count, FALSE), m)
        BY <1>9, <3>2
      <4>2. (VA(next) <=> m.isVarArgs) /\ (VA(k) <=> list[k].isVarArgs)
        BY <1>2, <2>2
      <4>3. W(next) = MatchPyArgs(c, m, args) /\ W(k) = MatchPyArgs(c, list[k], args)
        BY <1>6 DEF Worth
      <4>4. TryMethod(c, args, Result(c, list[k], args, count, FALSE), m) =
              IF m.isVarArgs /\ ~list[k].isVarArgs THEN Result(c, list[k], args, count, TRUE)
              ELSE IF MatchPyArgs(c, m, args) = 0 THEN Result(c, list[k], args, count, FALSE)
              ELSE IF MatchPyArgs(c, m, args) > MatchPyArgs(c, list[k], args)
              THEN Result(c, m, args, 1, unbeaten)
              ELSE IF MatchPyArgs(c, m, args) = MatchPyArgs(c, list[k], args)
              THEN Result(c, list[k], args, count + 1, unbeaten)
              ELSE Result(c, list[k], args, count, unbeaten)
        BY TryNext
      <4> HIDE DEF W, Var, unbeaten
      <4> QED
        BY <3>2, <4>1, <4>2, <4>3, <4>4, Zenon
    <3> QED
      BY <3>1, <3>2
  <2>6. W(k) >= P /\ ~VA(k) /\ ~VA(next) => W(next) <= W(k)
    <3>1. MatchPyArgs(c, list[k], args) = W(k)
      BY DEF Worth
    <3>2. ASSUME W(k) >= P, ~VA(k), ~VA(next) PROVE W(next) <= W(k)
      <4>1. MatchPyArgs(c, list[k], args) > 0 /\ MatchPyArgs(c, list[k], args) >= Perfect(args)
        BY <2>1, <3>1, <3>2
      <4>2. IsMethod(list[k]) /\ IsMethod(m) /\ ~list[k].isVarArgs /\ ~m.isVarArgs
        BY <2>2, <3>2
      <4>3. MatchPyArgs(c, m, args) <= MatchPyArgs(c, list[k], args)
        BY <4>1, <4>2, PerfectIsBest
      <4> QED
        BY <1>6, <3>1, <4>3
    <3> QED
      BY <3>2
  <2> HIDE DEF W, Var, P, m, unbeaten, new
  <2>7. W(next) \in Nat /\ W(k) \in Nat
    BY <1>1, <2>2
  <2>8. ~done /\ W(next) <= W(k) /\ ~(VA(next) /\ ~VA(k)) => unbeaten = FALSE
    BY <1>2, <1>3, <1>4, <1>5, <1>7, <2>1, <2>2, <2>4, <2>7
  <2>9. /\ W(next) > W(k) => W(next) # 0
        /\ W(next) = W(k) => W(next) # 0 /\ ~(W(next) > W(k))
        /\ W(next) < W(k) => W(next) # W(k) /\ ~(W(next) > W(k))
    BY <2>1, <2>7
  <2>10. CASE done
    <3>1. new = Result(c, list[k], args, count, TRUE)
      BY <2>5, <2>10
    <3>2. ~VA(k) /\ (W(k) >= P \/ \E i \in 1..n : VA(i))
      BY <2>1, <2>10
    <3>3. VA(next) \/ (~VA(next) /\ W(next) <= W(k) /\ W(k) >= P)
      <4>1. ASSUME NEW i \in 1..n, VA(i) PROVE VA(next)
        BY <1>4, <1>5, <4>1
      <4> QED
        BY <2>6, <3>2, <4>1
    <3>4. \A i \in 1..next : i # k =>
            \/ W(i) < W(k)
            \/ W(i) = W(k) /\ count > 1
            \/ VA(i) /\ ~VA(k)
            \/ ~VA(i) /\ ~VA(k) /\ W(i) <= W(k) /\ W(k) >= P
      BY <1>5, <2>1, <2>7, <2>10, <3>2, <3>3
    <3>5. count > 1 => \E j \in 1..next : j # k /\ (VA(j) <=> VA(k)) /\ W(j) = W(k)
      BY <1>5, <2>1, <2>10
    <3>6. VA(k) => ~TRUE /\ \A i \in 1..next : W(i) > 0 => VA(i)
      BY <1>4, <1>5, <2>1, <2>2, <2>10, <3>2
    <3>7. ~VA(k) =>
            \/ ~TRUE /\ W(k) < P
            \/ TRUE /\ count = 1 /\ W(k) >= P
            \/ TRUE /\ W(k) < P /\ \E i \in 1..next : VA(i)
      BY <1>5, <2>1, <2>10, <3>2
    <3>8. W(k) > 0 /\ count \in Nat \ {0}
      BY <2>1, <2>10, <2>7
    <3> QED
      BY <1>5, <2>2, <2>3, <3>1, <3>4, <3>5, <3>6, <3>7, <3>8
  <2>11. CASE ~done /\ VA(next) /\ ~VA(k)
    <3>1. new = Result(c, list[k], args, count, TRUE)
      BY <2>5, <2>11
    <3>2. \A i \in 1..next : i # k =>
            \/ W(i) < W(k)
            \/ W(i) = W(k) /\ count > 1
            \/ VA(i) /\ ~VA(k)
            \/ ~VA(i) /\ ~VA(k) /\ W(i) <= W(k) /\ W(k) >= P
      BY <1>5, <2>1, <2>7, <2>11
    <3>3. count > 1 => \E j \in 1..next : j # k /\ (VA(j) <=> VA(k)) /\ W(j) = W(k)
      BY <1>5, <2>1, <2>11
    <3>4. VA(k) => ~TRUE /\ \A i \in 1..next : W(i) > 0 => VA(i)
      BY <1>4, <1>5, <2>1, <2>2, <2>11
    <3>5. ~VA(k) =>
            \/ ~TRUE /\ W(k) < P
            \/ TRUE /\ count = 1 /\ W(k) >= P
            \/ TRUE /\ W(k) < P /\ \E i \in 1..next : VA(i)
      BY <1>5, <2>1, <2>11
    <3>6. W(k) > 0 /\ count \in Nat \ {0}
      BY <2>1, <2>11, <2>7
    <3> QED
      BY <1>5, <2>2, <2>3, <3>1, <3>2, <3>3, <3>4, <3>5, <3>6
  <2>12. CASE ~done /\ ~(VA(next) /\ ~VA(k)) /\ W(next) = 0
    <3>1. new = Result(c, list[k], args, count, FALSE)
      BY <2>5, <2>12
    <3>2. \A i \in 1..next : i # k =>
            \/ W(i) < W(k)
            \/ W(i) = W(k) /\ count > 1
            \/ VA(i) /\ ~VA(k)
            \/ ~VA(i) /\ ~VA(k) /\ W(i) <= W(k) /\ W(k) >= P
      BY <1>5, <2>1, <2>7, <2>12
    <3>3. count > 1 => \E j \in 1..next : j # k /\ (VA(j) <=> VA(k)) /\ W(j) = W(k)
      BY <1>5, <2>1, <2>12
    <3>4. VA(k) => ~FALSE /\ \A i \in 1..next : W(i) > 0 => VA(i)
      BY <1>4, <1>5, <2>1, <2>2, <2>12
    <3>5. ~VA(k) =>
            \/ ~FALSE /\ W(k) < P
            \/ FALSE /\ count = 1 /\ W(k) >= P
            \/ FALSE /\ W(k) < P /\ \E i \in 1..next : VA(i)
      BY <1>5, <2>1, <2>12
    <3>6. W(k) > 0 /\ count \in Nat \ {0}
      BY <2>1, <2>12, <2>7
    <3> QED
      BY <1>5, <2>2, <2>3, <3>1, <3>2, <3>3, <3>4, <3>5, <3>6
  <2>13. CASE ~done /\ ~(VA(next) /\ ~VA(k)) /\ W(next) > W(k)
    <3>1. new = Result(c, list[next], args, 1, unbeaten)
      BY <2>5, <2>13, <2>9, Zenon
    <3>2. ~done /\ (~VA(k) => W(k) < P)
      BY <2>1, <2>13
    <3>3. \A i \in 1..n : W(i) < W(next)
      <4> SUFFICES ASSUME NEW i \in 1..n PROVE W(i) < W(next)
        OBVIOUS
      <4>1. W(i) \in Nat
        BY <1>1, <1>5
      <4>2. CASE W(i) <= W(k)
        BY <2>13, <2>7, <4>1, <4>2
      <4>3. CASE VA(i) /\ ~VA(k)
        BY <1>4, <1>5, <2>13, <4>3
      <4> QED
        BY <2>1, <2>7, <4>1, <4>2, <4>3
    <3>4. VA(next) => VA(k) /\ ~unbeaten
      BY <1>7, <2>13
    <3>5. \A i \in 1..next : i # next =>
            \/ W(i) < W(next)
            \/ W(i) = W(next) /\ 1 > 1
            \/ VA(i) /\ ~VA(next)
            \/ ~VA(i) /\ ~VA(next) /\ W(i) <= W(next) /\ W(next) >= P
      BY <1>5, <2>1, <2>7, <2>13, <3>3
    <3>6. 1 > 1 => \E j \in 1..next : j # next /\ (VA(j) <=> VA(next)) /\ W(j) = W(next)
      BY <1>5, <2>1, <2>13
    <3>7. VA(next) => ~unbeaten /\ \A i \in 1..next : W(i) > 0 => VA(i)
      BY <1>4, <1>5, <2>1, <2>2, <2>13, <3>4
    <3>8. ~VA(next) =>
            \/ ~unbeaten /\ W(next) < P
            \/ unbeaten /\ 1 = 1 /\ W(next) >= P
            \/ unbeaten /\ W(next) < P /\ \E i \in 1..next : VA(i)
      BY <1>3, <1>7, <2>4, <2>7
    <3>9. W(next) > 0 /\ 1 \in Nat \ {0}
      BY <2>1, <2>13, <2>7
    <3> QED
      BY <1>5, <2>2, <2>3, <2>4, <3>1, <3>5, <3>6, <3>7, <3>8, <3>9
  <2>14. CASE ~done /\ ~(VA(next) /\ ~VA(k)) /\ W(next) = W(k)
    <3>1. new = Result(c, list[k], args, (count + 1), FALSE)
      <4>1. unbeaten = FALSE
        BY <2>7, <2>8, <2>14
      <4>2. new = Result(c, list[k], args, (count + 1), unbeaten)
        BY <2>5, <2>9, <2>14, Zenon
      <4> QED
        BY <4>1, <4>2
    <3>2. k \in 1..n /\ (VA(next) <=> VA(k)) /\ next # k /\ next \in 1..next
      BY <1>2, <1>4, <1>5, <2>2, <2>14
    <3>3. \A i \in 1..next : i # k =>
            \/ W(i) < W(k)
            \/ W(i) = W(k) /\ (count + 1) > 1
            \/ VA(i) /\ ~VA(k)
            \/ ~VA(i) /\ ~VA(k) /\ W(i) <= W(k) /\ W(k) >= P
      BY <1>5, <2>1, <2>7, <2>14
    <3>4. (count + 1) > 1 => \E j \in 1..next : j # k /\ (VA(j) <=> VA(k)) /\ W(j) = W(k)
      BY <1>5, <2>1, <2>14, <3>2
    <3>5. VA(k) => ~FALSE /\ \A i \in 1..next : W(i) > 0 => VA(i)
      BY <1>4, <1>5, <2>1, <2>2, <2>14
    <3>6. ~VA(k) =>
            \/ ~FALSE /\ W(k) < P
            \/ FALSE /\ (count + 1) = 1 /\ W(k) >= P
            \/ FALSE /\ W(k) < P /\ \E i \in 1..next : VA(i)
      BY <1>5, <2>1, <2>14
    <3>7. W(k) > 0 /\ (count + 1) \in Nat \ {0}
      BY <2>1, <2>14, <2>7
    <3> QED
      BY <1>5, <2>2, <2>3, <3>1, <3>3, <3>4, <3>5, <3>6, <3>7
  <2>15. CASE ~done /\ ~(VA(next) /\ ~VA(k)) /\ W(next) # 0 /\ W(next) < W(k)
    <3>1. new = Result(c, list[k], args, count, FALSE)
      <4>1. unbeaten = FALSE
        BY <2>7, <2>8, <2>15
      <4>2. new = Result(c, list[k], args, count, unbeaten)
        BY <2>5, <2>9, <2>15, Zenon
      <4> QED
        BY <4>1, <4>2
    <3>2. \A i \in 1..next : i # k =>
            \/ W(i) < W(k)
            \/ W(i) = W(k) /\ count > 1
            \/ VA(i) /\ ~VA(k)
            \/ ~VA(i) /\ ~VA(k) /\ W(i) <= W(k) /\ W(k) >= P
      BY <1>5, <2>1, <2>7, <2>15
    <3>3. count > 1 => \E j \in 1..next : j # k /\ (VA(j) <=> VA(k)) /\ W(j) = W(k)
      BY <1>5, <2>1, <2>15
    <3>4. VA(k) => ~FALSE /\ \A i \in 1..next : W(i) > 0 => VA(i)
      BY <1>4, <1>5, <2>1, <2>2, <2>15
    <3>5. ~VA(k) =>
            \/ ~FALSE /\ W(k) < P
            \/ FALSE /\ count = 1 /\ W(k) >= P
            \/ FALSE /\ W(k) < P /\ \E i \in 1..next : VA(i)
      BY <1>5, <2>1, <2>15
    <3>6. W(k) > 0 /\ count \in Nat \ {0}
      BY <2>1, <2>15, <2>7
    <3> QED
      BY <1>5, <2>2, <2>3, <3>1, <3>2, <3>3, <3>4, <3>5, <3>6
  <2> QED
    BY <2>10, <2>11, <2>12, <2>13, <2>14, <2>15, <2>7, <2>4
<1> QED
  BY <1>8, <1>9 DEF Search

\* What the loop of JOverloadedMethod_FindMethod0 knows at its end.
LEMMA SearchResult ==
  ASSUME NEW c, NEW S, NEW list \in Seq(S), \A m \in S : IsMethod(m), Sorted(list),
         NEW args \in Seq(Arguments)
  PROVE  Search(c, list, args, Len(list), FindMethod0(c, list, args))
<1>1. Len(list) \in Nat /\ DOMAIN list = 1..Len(list) /\ \A i \in 1..Len(list) : IsMethod(list[i])
  OBVIOUS
<1>2. PICK f : /\ FindMethod0(c, list, args) = f[Len(list)]
               /\ f[0] = NotFound
               /\ \A n \in 1..Len(list) : f[n] = TryMethod(c, args, f[n - 1], list[n])
  BY <1>1, SearchSteps
<1> DEFINE T == {n \in Nat : n <= Len(list) => Search(c, list, args, n, f[n])}
<1>3. 0 \in T
  <2>1. Search(c, list, args, 0, NotFound)
    BY DEF Search
  <2> QED
    BY <1>2, <2>1
<1>4. ASSUME NEW n \in T PROVE n + 1 \in T
  <2> DEFINE next == n + 1
  <2> SUFFICES ASSUME next <= Len(list) PROVE Search(c, list, args, next, f[next])
    OBVIOUS
  <2>1. n \in Nat /\ Search(c, list, args, n, f[n])
    BY <1>1
  <2>2. next \in 1..Len(list) /\ next - 1 = n /\ next = n + 1
    BY <1>1, <2>1
  <2> HIDE DEF next
  <2>3. f[next] = TryMethod(c, args, f[n], list[next])
    BY <1>2, <2>2
  <2>4. Search(c, list, args, next, TryMethod(c, args, f[n], list[next]))
    BY <1>1, <2>1, <2>2, SearchStep
  <2> QED
    BY <2>3, <2>4
<1>5. T = Nat
  <2>1. T \subseteq Nat
    OBVIOUS
  <2> HIDE DEF T
  <2> QED
    BY <1>3, <1>4, <2>1, NaturalsUp
<1> QED
  BY <1>1, <1>2, <1>5

\* No method is in a list twice.
LEMMA ListsOnce ==
  ASSUME NEW S, NEW list \in Seq(S), NEW set, Lists(list, set)
  PROVE  \A i, j \in 1..Len(list) : list[i] = list[j] => i = j
<1>1. Len(list) \in Nat /\ list = [i \in 1..Len(list) |-> list[i]] /\ DOMAIN list = 1..Len(list)
  OBVIOUS
<1>2. list \in Surjection(1..Len(list), set)
  <2>1. \A i \in 1..Len(list) : list[i] \in set
    BY <1>1 DEF Lists, ToSet
  <2>2. list \in [1..Len(list) -> set]
    BY <1>1, <2>1
  <2>3. \A m \in set : \E i \in 1..Len(list) : list[i] = m
    BY <1>1 DEF Lists, ToSet
  <2> QED
    BY <2>2, <2>3 DEF Surjection
<1>3. IsFiniteSet(1..Len(list)) /\ Cardinality(1..Len(list)) = Len(list)
  <2>1. \A n \in Nat : IsFiniteSet(1..n) /\ Cardinality(1..n) = IF 1 > n THEN 0 ELSE n - 1 + 1
    BY FS_Interval
  <2> QED
    BY <1>1, <2>1
<1>4. list \in Injection(1..Len(list), set)
  BY <1>2, <1>3, FS_Surjection DEF Lists
<1> QED
  BY <1>4 DEF Injection, IsInjective

\* The methods of a set that may be called with some arguments.
EligibleOf(c, methods, args) ==
  {m \in methods :
     /\ MatchPyArgs(c, m, args) > 0
     /\ m.isVarArgs => \A n \in methods : MatchPyArgs(c, n, args) > 0 => n.isVarArgs}

\* The best method of a class among those, and when it is ambiguous.
BestOf(c, methods, args, m, count) ==
  /\ m \in EligibleOf(c, methods, args)
  /\ \A n \in EligibleOf(c, methods, args) \ {m} :
       \/ MatchPyArgs(c, n, args) < MatchPyArgs(c, m, args)
       \/ /\ MatchPyArgs(c, n, args) = MatchPyArgs(c, m, args)
          /\ count > 1 \/ (~n.isVarArgs /\ MatchPyArgs(c, m, args) >= Perfect(args))
  /\ count > 1 =>
       \E n \in EligibleOf(c, methods, args) \ {m} :
         MatchPyArgs(c, n, args) = MatchPyArgs(c, m, args)
  /\ ~m.isVarArgs /\ MatchPyArgs(c, m, args) >= Perfect(args) => count = 1

IsResult(found, c, m, args, count) ==
  \E done \in BOOLEAN : found = Result(c, m, args, count, done)

\* The result for a class.
FoundIn(c, methods, args, found) ==
  \/ found = NotFound /\ EligibleOf(c, methods, args) = {}
  \/ \E m \in methods, count \in Nat \ {0} :
       /\ IsResult(found, c, m, args, count)
       /\ BestOf(c, methods, args, m, count)

\* What JOverloadedMethod_FindMethod0 finds in a list that is sorted.
LEMMA FoundInClass ==
  ASSUME NEW c, NEW S, NEW list \in Seq(S), \A m \in S : IsMethod(m), Sorted(list),
         NEW methods, Lists(list, methods), NEW args \in Seq(Arguments)
  PROVE  FoundIn(c, methods, args, FindMethod0(c, list, args))
<1> DEFINE N    == Len(list)
           W(i) == Worth(c, list, args, i)
           P    == Perfect(args)
           E    == EligibleOf(c, methods, args)
           V(m) == MatchPyArgs(c, m, args)
           found == FindMethod0(c, list, args)
<1>1. N \in Nat /\ DOMAIN list = 1..N /\ \A i \in 1..N : IsMethod(list[i])
  OBVIOUS
<1>2. /\ \A m \in methods : \E i \in 1..N : list[i] = m
      /\ \A i \in 1..N : list[i] \in methods
  BY <1>1 DEF Lists, ToSet
<1>3. \A i \in 1..N : W(i) = V(list[i]) /\ W(i) \in Nat
  BY <1>1, ValueFacts DEF Worth
<1>4. \A i \in 1..N : list[i].isVarArgs \in BOOLEAN
  BY <1>1 DEF IsMethod
<1>5. P \in Nat
  BY DEF Perfect
<1>6. Search(c, list, args, N, found)
  BY SearchResult
<1>7. CASE found = NotFound /\ \A i \in 1..N : W(i) = 0
  <2>1. \A m \in methods : ~(V(m) > 0)
    BY <1>2, <1>3, <1>7
  <2>2. E = {}
    BY <2>1 DEF EligibleOf
  <2> QED
    BY <1>7, <2>2 DEF FoundIn
<1>8. ASSUME NEW k \in 1..N, NEW count \in Nat \ {0}, NEW done \in BOOLEAN,
             found = Result(c, list[k], args, count, done),
             Best(c, list, args, N, k, count, done)
      PROVE  FoundIn(c, methods, args, found)
  <2> DEFINE m == list[k]
  <2>1. /\ W(k) > 0
        /\ \A i \in 1..N : i # k =>
             \/ W(i) < W(k)
             \/ W(i) = W(k) /\ count > 1
             \/ list[i].isVarArgs /\ ~list[k].isVarArgs
             \/ ~list[i].isVarArgs /\ ~list[k].isVarArgs /\ W(i) <= W(k) /\ W(k) >= P
        /\ count > 1 =>
             \E j \in 1..N : j # k /\ (list[j].isVarArgs <=> list[k].isVarArgs) /\ W(j) = W(k)
        /\ list[k].isVarArgs => \A i \in 1..N : W(i) > 0 => list[i].isVarArgs
        /\ ~list[k].isVarArgs => W(k) < P \/ (count = 1 /\ W(k) >= P)
    BY <1>8 DEF Best
  <2>2. m \in methods /\ V(m) = W(k)
    BY <1>2, <1>3
  <2>3. m.isVarArgs => \A n \in methods : V(n) > 0 => n.isVarArgs
    <3> SUFFICES ASSUME m.isVarArgs, NEW n \in methods, V(n) > 0 PROVE n.isVarArgs
      OBVIOUS
    <3>1. PICK i \in 1..N : list[i] = n
      BY <1>2
    <3>2. W(i) > 0
      BY <1>3, <3>1
    <3> HIDE DEF W, V
    <3> QED
      BY <2>1, <3>1, <3>2
  <2>4. m \in E
    BY <2>1, <2>2, <2>3 DEF EligibleOf
  <2>5. ASSUME NEW n \in E \ {m}
        PROVE  \/ V(n) < V(m)
               \/ V(n) = V(m) /\ (count > 1 \/ (~n.isVarArgs /\ V(m) >= P))
    <3>1. /\ n \in methods /\ V(n) > 0
          /\ n.isVarArgs => \A o \in methods : V(o) > 0 => o.isVarArgs
      BY DEF EligibleOf
    <3>2. PICK i \in 1..N : list[i] = n
      BY <1>2, <3>1
    <3>3. i # k
      BY <3>2
    <3>4. ~(n.isVarArgs /\ ~m.isVarArgs)
      BY <2>1, <2>2, <3>1
    <3>5. V(n) = W(i) /\ V(n) \in Nat /\ V(m) \in Nat
      BY <1>3, <2>2, <3>2
    <3> HIDE DEF V, W, P
    <3> QED
      BY <1>5, <2>1, <2>2, <3>2, <3>3, <3>4, <3>5
  <2>6. count > 1 => \E n \in E \ {m} : V(n) = V(m)
    <3> SUFFICES ASSUME count > 1 PROVE \E n \in E \ {m} : V(n) = V(m)
      OBVIOUS
    <3>1. PICK j \in 1..N : j # k /\ (list[j].isVarArgs <=> list[k].isVarArgs) /\ W(j) = W(k)
      BY <2>1
    <3>2. list[j] # m
      BY <3>1, ListsOnce
    <3>3. list[j] \in methods /\ V(list[j]) = V(m) /\ V(m) > 0
      BY <1>2, <1>3, <2>1, <2>2, <3>1
    <3>4. list[j] \in E
      BY <2>3, <3>1, <3>3 DEF EligibleOf
    <3> QED
      BY <3>2, <3>3, <3>4
  <2>7. ~m.isVarArgs /\ V(m) >= P => count = 1
    <3>1. W(k) \in Nat
      BY <1>3
    <3> HIDE DEF W, V, P
    <3> QED
      BY <1>5, <2>1, <2>2, <3>1
  <2>8. BestOf(c, methods, args, m, count)
    BY <2>4, <2>5, <2>6, <2>7 DEF BestOf
  <2> HIDE DEF found
  <2> QED
    BY <1>8, <2>2, <2>8 DEF FoundIn, IsResult
<1> QED
  BY <1>6, <1>7, <1>8 DEF Search

-----------------------------------------------------------------------------
(* The search in the super classes *)

\* The turns of the loop of JOverloadedMethod_FindMethod.
LEMMA VisitSteps ==
  ASSUME NEW ls, NEW i, NEW args, Len(Visited(i)) \in Nat
  PROVE  \E f : /\ FindMethod(ls, i, args) = f[Len(Visited(i))]
                /\ f[0] = NotFound
                /\ \A n \in 1..Len(Visited(i)) :
                     f[n] = VisitClass(ls, args, f[n - 1], Visited(i)[n])
<1> DEFINE IsVisit(f, N) ==
             f = [n \in 0..N |-> IF n = 0 THEN NotFound
                                 ELSE VisitClass(ls, args, f[n - 1], Visited(i)[n])]
           S == {N \in Nat : \E f : IsVisit(f, N)}
<1>1. 0 \in S
  <2>1. IsVisit([n \in 0..0 |-> NotFound], 0)
    OBVIOUS
  <2> QED
    BY <2>1
<1>2. ASSUME NEW N \in S PROVE N + 1 \in S
  <2>1. PICK f : IsVisit(f, N)
    OBVIOUS
  <2> DEFINE g == [n \in 0..(N + 1) |->
                     IF n = N + 1 THEN VisitClass(ls, args, f[N], Visited(i)[N + 1])
                                  ELSE f[n]]
  <2>2. IsVisit(g, N + 1)
    <3>1. \A n \in 0..N : g[n] = f[n]
      OBVIOUS
    <3>2. g[N + 1] = VisitClass(ls, args, g[N], Visited(i)[N + 1])
      BY <3>1
    <3>3. \A n \in 1..N : g[n] = VisitClass(ls, args, g[n - 1], Visited(i)[n])
      <4>1. \A n \in 1..N : f[n] = VisitClass(ls, args, f[n - 1], Visited(i)[n]) /\ n - 1 \in 0..N
        BY <2>1
      <4> QED
        BY <3>1, <4>1
    <3>4. g[0] = NotFound
      BY <2>1, <3>1
    <3>5. g = [n \in 0..(N + 1) |-> g[n]]
      OBVIOUS
    <3> HIDE DEF g
    <3>6. \A n \in 0..(N + 1) :
            g[n] = IF n = 0 THEN NotFound ELSE VisitClass(ls, args, g[n - 1], Visited(i)[n])
      <4>1. \A n \in 0..(N + 1) : n = 0 \/ n = N + 1 \/ n \in 1..N
        OBVIOUS
      <4> QED
        BY <3>2, <3>3, <3>4, <4>1
    <3> QED
      BY <3>5, <3>6
  <2>3. N + 1 \in Nat
    OBVIOUS
  <2> HIDE DEF g, IsVisit
  <2> QED
    BY <2>2, <2>3
<1> HIDE DEF IsVisit
<1>3. \E f : IsVisit(f, Len(Visited(i)))
  <2>1. S = Nat
    <3> HIDE DEF S
    <3>1. S \subseteq Nat
      BY DEF S
    <3> QED
      BY <1>1, <1>2, <3>1, NaturalsUp
  <2> QED
    BY <2>1
<1>4. FindMethod(ls, i, args) = (CHOOSE f : IsVisit(f, Len(Visited(i))))[Len(Visited(i))]
  BY DEF FindMethod, IsVisit
<1>5. IsVisit(CHOOSE f : IsVisit(f, Len(Visited(i))), Len(Visited(i)))
  BY <1>3
<1> DEFINE h == CHOOSE f : IsVisit(f, Len(Visited(i)))
<1>6. IsVisit(h, Len(Visited(i))) /\ FindMethod(ls, i, args) = h[Len(Visited(i))]
  BY <1>4, <1>5
<1> HIDE DEF h
<1>7. h = [n \in 0..Len(Visited(i)) |-> IF n = 0 THEN NotFound
                                 ELSE VisitClass(ls, args, h[n - 1], Visited(i)[n])]
  BY <1>6 DEF IsVisit
<1>8. /\ h[0] = NotFound
      /\ \A n \in 1..Len(Visited(i)) : h[n] = VisitClass(ls, args, h[n - 1], Visited(i)[n])
  BY <1>7
<1> QED
  BY <1>6, <1>8

\* The fields of the result of a search.
Is(found, c, m, args, count, done) ==
  /\ found.class = c /\ found.method = m /\ found.value = MatchPyArgs(c, m, args)
  /\ found.count = count /\ found.asArray = PassesArray(m, args) /\ found.done = done

\* One turn of the loop, without and with a method that fits in the class.
LEMMA VisitNothing ==
  ASSUME NEW ls, NEW args, NEW best, NEW c, best.done \/ FindMethod0(c, ls[c], args) = NotFound,
         best.value \in Nat
  PROVE  VisitClass(ls, args, best, c) = best
<1>1. NotFound.count = 0 /\ NotFound.value = 0
  BY DEF NotFound
<1>2. ~(NotFound.value > best.value)
  BY <1>1
<1>3. NotFound.count # 1
  BY <1>1
<1> QED
  BY <1>2, <1>3 DEF VisitClass

LEMMA VisitResult ==
  ASSUME NEW ls, NEW args, NEW best, NEW c, ~best.done, NEW m, NEW count \in Nat \ {0},
         IsResult(FindMethod0(c, ls[c], args), c, m, args, count)
  PROVE  /\ count = 1 /\ MatchPyArgs(c, m, args) >= Perfect(args) =>
              Is(VisitClass(ls, args, best, c), c, m, args, count, TRUE)
         /\ ~(count = 1 /\ MatchPyArgs(c, m, args) >= Perfect(args)) =>
              /\ MatchPyArgs(c, m, args) > best.value =>
                   Is(VisitClass(ls, args, best, c), c, m, args, count, FALSE)
              /\ ~(MatchPyArgs(c, m, args) > best.value) =>
                   VisitClass(ls, args, best, c) = best
<1>1. PICK done \in BOOLEAN : FindMethod0(c, ls[c], args) = Result(c, m, args, count, done)
  BY DEF IsResult
<1> DEFINE r == Result(c, m, args, count, done)
<1>2. r.count = count /\ r.value = MatchPyArgs(c, m, args)
  BY ResultFacts
<1>3. Is([r EXCEPT !.done = TRUE], c, m, args, count, TRUE)
  BY DEF Result, Is
<1>4. Is([r EXCEPT !.done = FALSE], c, m, args, count, FALSE)
  BY DEF Result, Is
<1> HIDE DEF r
<1>5. VisitClass(ls, args, best, c) =
        IF r.count = 1 /\ r.value >= Perfect(args) THEN [r EXCEPT !.done = TRUE]
        ELSE IF r.value > best.value THEN [r EXCEPT !.done = FALSE]
        ELSE best
  BY <1>1 DEF VisitClass, r
<1> QED
  BY <1>2, <1>3, <1>4, <1>5

\* The methods of the i-th class that may be called, and their match values.
ClassEligible(visited, args, i) == EligibleOf(visited[i], Methods[visited[i]], args)

ClassWorth(visited, args, i, m) == MatchPyArgs(visited[i], m, args)

\* What the search knows of the first n classes if the best method is of the j-th.
BestVisited(visited, args, n, found, j, m, count, done) ==
  /\ Is(found, visited[j], m, args, count, done)
  /\ BestOf(visited[j], Methods[visited[j]], args, m, count)
  /\ \A i \in 1..(j - 1) : \A o \in ClassEligible(visited, args, i) :
       \/ ClassWorth(visited, args, i, o) < ClassWorth(visited, args, j, m)
       \/ o.isVarArgs /\ ClassWorth(visited, args, j, m) >= Perfect(args)
  /\ ~done =>
       \A i \in 1..n : \A o \in ClassEligible(visited, args, i) :
         /\ ClassWorth(visited, args, i, o) <= ClassWorth(visited, args, j, m)
         /\ ~o.isVarArgs => ClassWorth(visited, args, i, o) < Perfect(args)

\* The result after n classes.
Visit(visited, args, n, found) ==
  \/ found = NotFound /\ \A i \in 1..n : ClassEligible(visited, args, i) = {}
  \/ \E j \in 1..n, count \in Nat \ {0}, done \in BOOLEAN :
       \E m \in ClassEligible(visited, args, j) :
         BestVisited(visited, args, n, found, j, m, count, done)

\* No method of a class is worth more than the best of the class.
LEMMA BestOfClass ==
  ASSUME NEW c, NEW methods, NEW args \in Seq(Arguments), NEW m, NEW count \in Nat \ {0},
         \A o \in methods : IsMethod(o),
         BestOf(c, methods, args, m, count)
  PROVE  /\ m \in EligibleOf(c, methods, args)
         /\ MatchPyArgs(c, m, args) \in Nat /\ MatchPyArgs(c, m, args) > 0
         /\ \A o \in EligibleOf(c, methods, args) :
              /\ MatchPyArgs(c, o, args) \in Nat
              /\ MatchPyArgs(c, o, args) <= MatchPyArgs(c, m, args)
              /\ ~o.isVarArgs => ~m.isVarArgs
         /\ ~m.isVarArgs /\ MatchPyArgs(c, m, args) >= Perfect(args) => count = 1
<1> DEFINE V(o) == MatchPyArgs(c, o, args)
           E == EligibleOf(c, methods, args)
<1>1. /\ m \in E
      /\ \A o \in E \ {m} : V(o) < V(m) \/ V(o) = V(m)
      /\ ~m.isVarArgs /\ V(m) >= Perfect(args) => count = 1
  BY DEF BestOf
<1>2. \A o \in E : o \in methods /\ V(o) \in Nat /\ V(o) > 0
  BY ValueFacts DEF EligibleOf
<1>3. ASSUME NEW o \in E, ~o.isVarArgs PROVE ~m.isVarArgs
  BY <1>1, <1>2, <1>3 DEF EligibleOf
<1> HIDE DEF V, E
<1>4. m \in E /\ V(m) \in Nat /\ V(m) > 0
  BY <1>1, <1>2
<1>5. ASSUME NEW o \in E PROVE V(o) \in Nat /\ V(o) <= V(m) /\ (~o.isVarArgs => ~m.isVarArgs)
  <2>1. o = m \/ V(o) < V(m) \/ V(o) = V(m)
    BY <1>1
  <2> QED
    BY <1>2, <1>3, <1>4, <2>1
<1> QED
  BY <1>1, <1>4, <1>5 DEF V, E

\* Each turn of the loop of JOverloadedMethod_FindMethod keeps what it knows.
LEMMA VisitStep ==
  ASSUME NEW ls, NEW visited, NEW args \in Seq(Arguments), NEW n \in Nat, NEW next, next = n + 1,
         \A i \in 1..next : \A o \in Methods[visited[i]] : IsMethod(o),
         FoundIn(visited[next], Methods[visited[next]], args,
                 FindMethod0(visited[next], ls[visited[next]], args)),
         NEW best, Visit(visited, args, n, best)
  PROVE  Visit(visited, args, next, VisitClass(ls, args, best, visited[next]))
<1> DEFINE E(i) == ClassEligible(visited, args, i)
           V(i, o) == ClassWorth(visited, args, i, o)
           P == Perfect(args)
           c == visited[next]
           new == VisitClass(ls, args, best, c)
           r == FindMethod0(c, ls[c], args)
<1>1. /\ \A i \in 1..n : i \in 1..next /\ i \in 1..(next - 1)
      /\ \A i \in 1..next : i \in 1..n \/ i = next
      /\ \A i \in 1..(next - 1) : i \in 1..n
      /\ next \in 1..next
  OBVIOUS
<1>2. P \in Nat
  BY DEF Perfect
<1>3. \A i \in 1..next : \A o \in E(i) : V(i, o) \in Nat /\ o.isVarArgs \in BOOLEAN
  BY ValueFacts DEF ClassEligible, ClassWorth, EligibleOf, IsMethod
<1>4. CASE r = NotFound /\ E(next) = {}
  <2>1. CASE best = NotFound /\ \A i \in 1..n : E(i) = {}
    <3>1. best.value \in Nat
      BY <2>1 DEF NotFound
    <3>2. new = best
      BY <1>4, <3>1, VisitNothing
    <3>3. \A i \in 1..next : E(i) = {}
      BY <1>1, <1>4, <2>1
    <3> QED
      BY <2>1, <3>2, <3>3 DEF Visit
  <2>2. ASSUME NEW j \in 1..n, NEW count \in Nat \ {0}, NEW done \in BOOLEAN, NEW m \in E(j),
               BestVisited(visited, args, n, best, j, m, count, done)
        PROVE  Visit(visited, args, next, new)
    <3>1. best.value \in Nat
      BY <1>1, <1>3, <2>2 DEF BestVisited, Is, ClassWorth
    <3>2. new = best
      BY <1>4, <3>1, VisitNothing
    <3>3. BestVisited(visited, args, next, best, j, m, count, done)
      BY <1>1, <1>4, <2>2 DEF BestVisited
    <3> QED
      BY <1>1, <2>2, <3>2, <3>3 DEF Visit
  <2> QED
    BY <2>1, <2>2 DEF Visit
<1>5. ASSUME NEW m \in Methods[c], NEW count \in Nat \ {0},
             IsResult(r, c, m, args, count), BestOf(c, Methods[c], args, m, count)
      PROVE  Visit(visited, args, next, new)
  <2>1. /\ m \in E(next) /\ V(next, m) \in Nat /\ V(next, m) > 0
        /\ \A o \in E(next) : /\ V(next, o) \in Nat /\ V(next, o) <= V(next, m)
                              /\ ~o.isVarArgs => ~m.isVarArgs
        /\ ~m.isVarArgs /\ V(next, m) >= P => count = 1
    BY <1>1, <1>5, BestOfClass DEF ClassEligible, ClassWorth
  <2>2. ASSUME ~best.done
        PROVE  /\ count = 1 /\ V(next, m) >= P => Is(new, c, m, args, count, TRUE)
               /\ ~(count = 1 /\ V(next, m) >= P) =>
                    /\ V(next, m) > best.value => Is(new, c, m, args, count, FALSE)
                    /\ ~(V(next, m) > best.value) => new = best
    <3> HIDE DEF new, c, P
    <3>1. IsResult(FindMethod0(c, ls[c], args), c, m, args, count)
      BY <1>5 DEF c
    <3>2. V(next, m) = MatchPyArgs(c, m, args) /\ P = Perfect(args)
      BY DEF ClassWorth, c, P
    <3>3. new = VisitClass(ls, args, best, c)
      BY DEF new
    <3> HIDE DEF V
    <3>4. /\ count = 1 /\ MatchPyArgs(c, m, args) >= Perfect(args) =>
               Is(VisitClass(ls, args, best, c), c, m, args, count, TRUE)
          /\ ~(count = 1 /\ MatchPyArgs(c, m, args) >= Perfect(args)) =>
               /\ MatchPyArgs(c, m, args) > best.value =>
                    Is(VisitClass(ls, args, best, c), c, m, args, count, FALSE)
               /\ ~(MatchPyArgs(c, m, args) > best.value) =>
                    VisitClass(ls, args, best, c) = best
      BY <1>5, <2>2, <3>1, VisitResult
    <3> QED
      BY <3>2, <3>3, <3>4, Zenon
  <2>3. CASE best = NotFound /\ \A i \in 1..n : E(i) = {}
    <3>1. ~best.done /\ best.value = 0
      BY <2>3 DEF NotFound
    <3>2. PICK done \in BOOLEAN :
            Is(new, c, m, args, count, done) /\ (~done => ~(count = 1 /\ V(next, m) >= P))
      <4> HIDE DEF V, P
      <4> QED
        BY <2>1, <2>2, <3>1
    <3>3. BestVisited(visited, args, next, new, next, m, count, done)
      <4>1. ~done => \A i \in 1..next : \A o \in E(i) :
              V(i, o) <= V(next, m) /\ (~o.isVarArgs => V(i, o) < P)
        <5> HIDE DEF V, P, E
        <5> QED
          BY <1>1, <1>2, <1>3, <2>1, <2>3, <3>2
      <4>2. \A i \in 1..(next - 1) : E(i) = {}
        BY <1>1, <2>3
      <4> QED
        BY <1>5, <3>2, <4>1, <4>2 DEF BestVisited
    <3> QED
      BY <1>1, <2>1, <3>3 DEF Visit
  <2>4. ASSUME NEW j \in 1..n, NEW ct \in Nat \ {0}, NEW done \in BOOLEAN, NEW b \in E(j),
               BestVisited(visited, args, n, best, j, b, ct, done)
        PROVE  Visit(visited, args, next, new)
    <3>1. best.value = V(j, b) /\ best.done = done /\ V(j, b) \in Nat
      BY <1>1, <1>3, <2>4 DEF BestVisited, Is, ClassWorth
    <3>2. ~done => \A i \in 1..n : \A o \in E(i) :
                     V(i, o) <= V(j, b) /\ (~o.isVarArgs => V(i, o) < P)
      BY <2>4 DEF BestVisited
    <3>3. CASE done
      <4>1. new = best
        <5>1. best.done
          BY <3>1, <3>3
        <5> QED
          BY <3>1, <5>1, VisitNothing
      <4>2. BestVisited(visited, args, next, best, j, b, ct, done)
        BY <2>4, <3>3 DEF BestVisited
      <4> QED
        BY <1>1, <2>4, <4>1, <4>2 DEF Visit
    <3>4. CASE ~done /\ count = 1 /\ V(next, m) >= P
      <4>1. Is(new, c, m, args, count, TRUE)
        BY <2>2, <3>1, <3>4
      <4>2. \A i \in 1..(next - 1) : \A o \in E(i) :
              V(i, o) < V(next, m) \/ (o.isVarArgs /\ V(next, m) >= P)
        <5> HIDE DEF V, P, E
        <5> QED
          BY <1>1, <1>2, <1>3, <2>1, <3>2, <3>4
      <4>3. BestVisited(visited, args, next, new, next, m, count, TRUE)
        BY <1>5, <4>1, <4>2 DEF BestVisited
      <4> QED
        BY <1>1, <2>1, <4>3 DEF Visit
    <3>5. CASE ~done /\ ~(count = 1 /\ V(next, m) >= P) /\ V(next, m) > V(j, b)
      <4>1. Is(new, c, m, args, count, FALSE)
        BY <2>2, <3>1, <3>5
      <4>2. \A i \in 1..(next - 1) : \A o \in E(i) : V(i, o) < V(next, m)
        <5> HIDE DEF V, P, E
        <5> QED
          BY <1>1, <1>3, <2>1, <3>1, <3>2, <3>5
      <4>3. \A i \in 1..next : \A o \in E(i) :
              V(i, o) <= V(next, m) /\ (~o.isVarArgs => V(i, o) < P)
        <5> HIDE DEF V, P, E
        <5>1. ASSUME NEW o \in E(next), ~o.isVarArgs PROVE V(next, o) < P
          BY <1>2, <2>1, <3>5, <5>1
        <5>2. ASSUME NEW i \in 1..n, NEW o \in E(i) PROVE V(i, o) <= V(next, m)
          BY <4>2, <1>1, <1>3, <2>1
        <5> QED
          BY <1>1, <2>1, <3>2, <3>5, <5>1, <5>2
      <4>4. BestVisited(visited, args, next, new, next, m, count, FALSE)
        BY <1>5, <4>1, <4>2, <4>3 DEF BestVisited
      <4> QED
        BY <1>1, <2>1, <4>4 DEF Visit
    <3>6. CASE ~done /\ ~(count = 1 /\ V(next, m) >= P) /\ ~(V(next, m) > V(j, b))
      <4>1. new = best
        BY <2>2, <3>1, <3>6
      <4>2. \A i \in 1..next : \A o \in E(i) : V(i, o) <= V(j, b) /\ (~o.isVarArgs => V(i, o) < P)
        <5> HIDE DEF V, P, E
        <5>1. ASSUME NEW o \in E(next)
              PROVE  V(next, o) <= V(j, b) /\ (~o.isVarArgs => V(next, o) < P)
          <6>1. V(next, o) \in Nat /\ V(next, o) <= V(next, m) /\ V(next, m) <= V(j, b)
            BY <2>1, <3>1, <3>6
          <6>2. ASSUME ~o.isVarArgs PROVE V(next, m) < P
            BY <1>2, <2>1, <3>6, <6>2
          <6> QED
            BY <1>2, <2>1, <3>1, <6>1, <6>2
        <5> QED
          BY <1>1, <3>2, <3>6, <5>1
      <4>3. BestVisited(visited, args, next, best, j, b, ct, done)
        BY <2>4, <4>2 DEF BestVisited
      <4> QED
        BY <1>1, <2>4, <4>1, <4>3 DEF Visit
    <3> QED
      BY <3>3, <3>4, <3>5, <3>6
  <2> QED
    BY <2>3, <2>4 DEF Visit
<1>6. \/ r = NotFound /\ E(next) = {}
      \/ \E m \in Methods[c], count \in Nat \ {0} :
           IsResult(r, c, m, args, count) /\ BestOf(c, Methods[c], args, m, count)
  BY DEF FoundIn, ClassEligible
<1> HIDE DEF r, E
<1> QED
  BY <1>4, <1>5, <1>6

-----------------------------------------------------------------------------
(* Matches and conversions *)

\* The values whose matches and conversions agree.
Scalars == {"none", "bool", "int", "float", "java"}

\* The Python types of scalars.
LEMMA ScalarTypes ==
  ASSUME NEW kind \in Scalars \cup WideInts, kind \notin {"none", "java"}
  PROVE  /\ PythonType(kind) \in {"bool", "int", "float"}
         /\ kind \notin {"none", "java", "str", "list", "buffer"}
         /\ \E box \in BoxesOf(kind) : TRUE
<1>1. kind \in {"bool", "int", "float", "wide", "huge"}
  BY DEF Scalars, WideInts
<1>2. /\ PythonType(kind) \in {"bool", "int", "float"}
      /\ kind \notin {"none", "java", "str", "list", "buffer"}
  BY <1>1 DEF PythonType, WideInts
<1>3. CASE kind = "bool"
  BY <1>3 DEF BoxesOf, PythonType, WideInts
<1>4. CASE kind = "float"
  BY <1>4 DEF BoxesOf, PythonType, WideInts
<1>5. CASE kind \in {"int", "wide", "huge"}
  <2>1. PythonType(kind) = "int"
    BY <1>5 DEF PythonType, WideInts
  <2> QED
    BY <1>5, <2>1 DEF BoxesOf
<1> QED
  BY <1>1, <1>2, <1>3, <1>4, <1>5

\* What matches a parameter also converts to its type: of the arguments
\* considered, only Java objects go into arrays.
LEMMA ScalarConverts ==
  ASSUME NEW type, NEW arg, arg.kind \in Scalars \cup WideInts, MatchPyArg(type, arg) > 0,
         NEW error
  PROVE  Converts(type, arg, error)
<1> DEFINE python == PythonType(arg.kind)
<1>1. CASE arg.kind \in {"none", "java"}
  BY <1>1 DEF Converts
<1>2. CASE arg.kind \notin {"none", "java"}
  <2>0. /\ python \in {"bool", "int", "float"}
        /\ arg.kind \notin {"none", "java", "str", "list", "buffer"}
        /\ \E box \in BoxesOf(arg.kind) : TRUE
    BY <1>2, ScalarTypes
  <2>1. ~(0 > 0)
    OBVIOUS
  <2>2. ASSUME type \notin Arrays, ConvertsKind(type, arg.kind) PROVE Converts(type, arg, error)
    BY <1>2, <2>2 DEF Converts
  <2>3. CASE type \in Primitives
    <3>1. type \notin Arrays
      BY <2>3, TypesAssumption
    <3>2. MatchPrimitive(type, arg) > 0
      <4>1. type # "String"
        BY <2>3 DEF Primitives
      <4> QED
        BY <2>3, <4>1 DEF MatchPyArg
    <3>3. CASE type \in {"float", "double"}
      BY <2>0, <2>2, <3>1, <3>3 DEF ConvertsKind
    <3>4. CASE type \notin {"float", "double"}
      <4>1. python \in {"bool", "int"}
        BY <2>0, <2>1, <3>2, <3>4 DEF MatchPrimitive, Lookup
      <4> QED
        BY <2>2, <2>3, <3>1, <4>1 DEF ConvertsKind
    <3> QED
      BY <3>3, <3>4
  <2>4. CASE type = "String"
    <3>1. type \notin Primitives
      BY <2>4 DEF Primitives
    <3>2. MatchString(arg) > 0
      BY <2>4, <3>1 DEF MatchPyArg
    <3> QED
      BY <2>0, <2>1, <3>2 DEF MatchString, Lookup
  <2>5. CASE type \notin Primitives /\ type # "String"
    <3>1. MatchObject(type, arg) > 0
      BY <2>5 DEF MatchPyArg
    <3>2. arg.kind # "none" /\ arg.kind # "java" /\ ~IsSequence(arg) /\ arg.kind # "buffer"
      BY <2>0 DEF IsSequence
    <3>3. type \notin Arrays /\ MatchValue(type, arg) > 0
      BY <2>1, <3>1, <3>2 DEF MatchObject, MatchArray
    <3>5. CASE type = "Object"
      <4>1. "Object" \notin Primitives \cup IntegralBoxes \cup {"Boolean", "Float", "Double"}
        BY DEF Primitives, IntegralBoxes
      <4> QED
        BY <2>0, <2>2, <3>3, <3>5, <4>1 DEF ConvertsKind
    <3>6. CASE type \in IntegralBoxes \cup {"Boolean"}
      <4>1. python \in {"bool", "int"}
        BY <2>0, <2>1, <3>3, <3>6 DEF MatchValue, Lookup, IntegralBoxes
      <4> QED
        BY <2>2, <3>3, <3>6, <4>1 DEF ConvertsKind
    <3>7. CASE type \in {"Float", "Double"}
      BY <2>0, <2>2, <3>3, <3>7 DEF ConvertsKind
    <3>8. CASE type \notin IntegralBoxes \cup {"Object", "Boolean", "Float", "Double"}
      <4>1. \E box \in BoxesOf(arg.kind) : type \in Supertypes[box]
        BY <2>1, <3>3, <3>8 DEF MatchValue
      <4> QED
        BY <2>2, <2>5, <3>3, <3>8, <4>1 DEF ConvertsKind
    <3> QED
      BY <3>5, <3>6, <3>7, <3>8
  <2> QED
    BY <2>3, <2>4, <2>5
<1> QED
  BY <1>1, <1>2

\* No error is left as long as ints are not too wide.
LEMMA NoErrorLeft ==
  ASSUME NEW m, NEW fixed, NEW n \in Nat,
         \A i \in 1..n : fixed[i].kind \in Scalars \ WideInts
  PROVE  ~ErrorLeft(m, fixed, n)
  BY DEF ErrorLeft, LeavesError, Overflows, Scalars, WideInts

\* If a method fits scalar arguments, JMethod_CreateJArgs converts all of them,
\* unless it has to put some into an array of a primitive type and ints are too
\* wide.
LEMMA ScalarsCreate ==
  ASSUME NEW c, NEW found, NEW args \in Seq(Arguments), IsMethod(found.method),
         found.asArray = PassesArray(found.method, args),
         MatchPyArgs(c, found.method, args) > 0,
         \A i \in DOMAIN args : args[i].kind \in Scalars \cup WideInts,
         \/ ~found.method.isVarArgs \/ found.asArray
         \/ Component[Last(found.method.params)] \notin Primitives
         \/ \A i \in DOMAIN args : args[i].kind \notin WideInts
  PROVE  CreatesJArgs(found, args)
<1> DEFINE m     == found.method
           fixed == FixedArgs(m, args)
           rest  == RestArgs(m, args)
           last  == m.params[Len(m.params)]
           error == ErrorLeft(m, fixed, FixedCount(m))
           first == SelfCount(m) + FixedCount(m)
<1>1. /\ SelfCount(m) \in Nat /\ FixedCount(m) \in Nat /\ first \in Nat
      /\ Len(args) \in Nat /\ DOMAIN args = 1..Len(args)
  BY Counts
<1>2. ~(0 > 0)
  OBVIOUS
<1>3. /\ CountMatches(m, args)
      /\ \A i \in 1..FixedCount(m) : FixedMatches(m, args)[i] # 0
      /\ m.isVarArgs => RestMatch(m, args) # 0 \/ SingleMatch(m, args) # 0
  BY <1>2 DEF MatchPyArgs
<1>4. Len(args) >= first
  BY <1>1, <1>3 DEF CountMatches
<1>11. ASSUME NEW i \in 1..FixedCount(m)
       PROVE  fixed[i] = args[SelfCount(m) + i] /\ SelfCount(m) + i \in DOMAIN args
  <2>1. fixed[i] = args[SelfCount(m) + i] /\ SelfCount(m) + i \in DOMAIN args
    <3>1. SelfCount(m) + i \in 1..Len(args)
      BY <1>1, <1>4
    <3>2. fixed = SubSeq(args, SelfCount(m) + 1, first)
      BY DEF FixedArgs
    <3> QED
      BY <1>1, <1>4, <3>1, <3>2
  <2> QED
    BY <2>1
<1>5. ASSUME NEW i \in 1..FixedCount(m), NEW left PROVE Converts(m.params[i], fixed[i], left)
  <2>2. MatchPyArg(m.params[i], fixed[i]) # 0
    BY <1>3 DEF FixedMatches
  <2>3. MatchPyArg(m.params[i], fixed[i]) > 0
    BY <2>2, MatchPyArgBound, PercentFacts
  <2> QED
    BY <1>11, <2>3, ScalarConverts
<1>6. ASSUME NEW i \in DOMAIN rest
      PROVE  /\ rest[i].kind \in Scalars \cup WideInts
             /\ \E k \in DOMAIN args : rest[i] = args[k]
  <2>1. rest = SubSeq(args, first + 1, Len(args))
    BY DEF RestArgs
  <2> HIDE DEF first
  <2>2. rest[i] = args[first + i] /\ first + i \in DOMAIN args
    BY <1>1, <1>4, <2>1
  <2> QED
    BY <2>2
<1>7. rest \in Seq(Arguments) /\ RestMatch(m, args) \in Nat /\ SingleMatch(m, args) \in Nat
  BY VarArgsMatchFacts, PercentFacts
<1>8. m.isVarArgs =>
         (found.asArray <=> SingleMatch(m, args) >= RestMatch(m, args))
  BY DEF PassesArray
<1>9. ASSUME m.isVarArgs, found.asArray PROVE Converts(last, rest[1], error)
  <2>1. SingleMatch(m, args) > 0
    BY <1>3, <1>7, <1>9, <1>8
  <2>2. Len(rest) = 1 /\ MatchPyArg(last, rest[1]) > 0
    BY <1>2, <2>1 DEF SingleMatch
  <2>3. 1 \in DOMAIN rest
    BY <1>7, <2>2
  <2> QED
    BY <1>6, <2>2, <2>3, ScalarConverts
<1>10. ASSUME m.isVarArgs, ~found.asArray, NEW i \in DOMAIN rest
       PROVE  Converts(Component[last], rest[i], error)
  <2>1. MatchVarArgs(last, rest) > 0
    BY <1>3, <1>7, <1>10, <1>8 DEF RestMatch
  <2>2. MatchPyArg(Component[last], rest[i]) > 0
    BY <1>7, <2>1, MatchVarArgsBound
  <2> QED
    BY <1>6, <2>2, ScalarConverts
<1>12. ASSUME m.isVarArgs, ~found.asArray, Component[last] \in Primitives
       PROVE  /\ ~error
              /\ \A i \in DOMAIN rest : ~Overflows(Component[last], rest[i].kind)
  <2>1. \A k \in DOMAIN args : args[k].kind \in Scalars /\ args[k].kind \notin WideInts
    BY <1>12 DEF Last
  <2>2. \A i \in 1..FixedCount(m) : fixed[i].kind \in Scalars \ WideInts
    BY <1>11, <2>1
  <2>3. ~error
    BY <1>1, <2>2, NoErrorLeft
  <2>4. ASSUME NEW i \in DOMAIN rest PROVE ~Overflows(Component[last], rest[i].kind)
    BY <1>6, <2>1 DEF Overflows, WideInts
  <2> QED
    BY <2>3, <2>4
<1>13. ASSUME m.isVarArgs, ~found.asArray
       PROVE  CreatesJavaArray(Component[last], {rest[i].kind : i \in DOMAIN rest}, error)
  BY <1>12, <1>13 DEF CreatesJavaArray
<1>14. \A i \in 1..FixedCount(m) : Converts(m.params[i], fixed[i], ErrorLeft(m, fixed, i - 1))
  BY <1>5
<1> HIDE DEF error
<1> QED
  BY <1>9, <1>10, <1>13, <1>14 DEF CreatesJArgs, error

=============================================================================
