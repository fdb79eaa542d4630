------------------------ MODULE MethodOverloadProofs ------------------------
(***************************************************************************)
(* Proofs about MethodOverload, for any classes and any methods, in any    *)
(* order of reflection: the method lists, and the outcome of calls.        *)
(***************************************************************************)
EXTENDS MethodSearchProofs

AllMethods == UNION {Methods[c] : c \in Classes}

-----------------------------------------------------------------------------
(* Lemmas about lists *)

\* A list with a method with variable arguments has a first one: among the
\* intervals below such methods one is minimal.
LEMMA FirstVarArgs ==
  ASSUME NEW S, NEW list \in Seq(S), NEW k \in DOMAIN list, list[k].isVarArgs
  PROVE  \E i \in DOMAIN list :
           /\ list[i].isVarArgs
           /\ \A j \in 1..(i - 1) : ~list[j].isVarArgs
<1> DEFINE D == DOMAIN list
           Below(i) == 1..(i - 1)
           V == {i \in D : list[i].isVarArgs}
           T == {Below(i) : i \in V}
<1>1. D = 1..Len(list) /\ Len(list) \in Nat
  OBVIOUS
<1>2. T \subseteq FiniteSubsetsOf(D)
  <2> SUFFICES ASSUME NEW i \in V PROVE Below(i) \in FiniteSubsetsOf(D)
    OBVIOUS
  <2>1. Below(i) \subseteq D
    BY <1>1
  <2>2. IsFiniteSet(Below(i))
    BY <1>1, FS_Interval
  <2> QED
    BY <2>1, <2>2 DEF FiniteSubsetsOf
<1>3. Below(k) \in T
  OBVIOUS
<1>4. PICK x \in T : \A y \in T : ~(<<y, x>> \in StrictSubsetOrdering(D))
  <2>1. IsWellFoundedOn(StrictSubsetOrdering(D), FiniteSubsetsOf(D))
    BY FS_StrictSubsetOrderingWellFounded
  <2>2. T # {}
    BY <1>3
  <2> HIDE DEF T, D
  <2> QED
    BY <1>2, <2>1, <2>2, WFMin
<1>5. PICK i \in V : x = Below(i)
  OBVIOUS
<1>6. ASSUME NEW j \in 1..(i - 1), list[j].isVarArgs PROVE FALSE
  <2>1. j \in V /\ j \in Int /\ i \in Int
    BY <1>1, <1>6
  <2>2. Below(j) \in T /\ Below(j) \subseteq Below(i) /\ Below(i) \subseteq D
    BY <1>1, <2>1
  <2>3. j \in Below(i) /\ j \notin Below(j)
    BY <2>1
  <2>4. <<Below(j), x>> \in StrictSubsetOrdering(D)
    <3> HIDE DEF Below, D
    <3> QED
      BY <1>5, <2>2, <2>3 DEF StrictSubsetOrdering
  <2> QED
    BY <1>4, <2>2, <2>4
<1> QED
  BY <1>5, <1>6

\* JOverloadedMethod_AddMethod finds a place within the list or at its end,
\* behind all methods without variable arguments.
LEMMA DestinationFacts ==
  ASSUME NEW S, NEW list \in Seq(S), NEW m, m.isVarArgs \in BOOLEAN,
         \A e \in S : e.isVarArgs \in BOOLEAN
  PROVE  /\ Destination(list, m) \in 1..(Len(list) + 1)
         /\ m.isVarArgs => Destination(list, m) = Len(list) + 1
         /\ ~m.isVarArgs =>
              /\ \A j \in 1..(Destination(list, m) - 1) : ~list[j].isVarArgs
              /\ Destination(list, m) \in DOMAIN list => list[Destination(list, m)].isVarArgs
<1>1. CASE m.isVarArgs \/ \A i \in DOMAIN list : ~list[i].isVarArgs
  BY <1>1 DEF Destination
<1>2. CASE ~m.isVarArgs /\ \E i \in DOMAIN list : list[i].isVarArgs
  <2>1. PICK k \in DOMAIN list : list[k].isVarArgs
    BY <1>2
  <2>2. \E i \in DOMAIN list :
          /\ list[i].isVarArgs
          /\ \A j \in 1..(i - 1) : ~list[j].isVarArgs
    BY <2>1, FirstVarArgs
  <2> DEFINE d == Destination(list, m)
  <2>3. d = CHOOSE i \in DOMAIN list :
              /\ list[i].isVarArgs
              /\ \A j \in 1..(i - 1) : ~list[j].isVarArgs
    BY <1>2 DEF Destination
  <2>4. /\ d \in DOMAIN list
        /\ list[d].isVarArgs
        /\ \A j \in 1..(d - 1) : ~list[j].isVarArgs
    BY <2>2, <2>3
  <2>5. DOMAIN list = 1..Len(list) /\ Len(list) \in Nat
    OBVIOUS
  <2> QED
    BY <1>2, <2>4, <2>5
<1> QED
  BY <1>1, <1>2

\* What InsertAt does, element by element.
LEMMA InsertAtFacts ==
  ASSUME NEW S, NEW list \in Seq(S), NEW d \in 1..(Len(list) + 1), NEW m \in S
  PROVE  /\ InsertAt(list, d, m) \in Seq(S)
         /\ Len(InsertAt(list, d, m)) = Len(list) + 1
         /\ \A j \in 1..(Len(list) + 1) :
              InsertAt(list, d, m)[j] = IF j < d THEN list[j]
                                        ELSE IF j = d THEN m ELSE list[j - 1]
<1> DEFINE before == SubSeq(list, 1, d - 1)
           after  == SubSeq(list, d, Len(list))
<1>1. before \in Seq(S) /\ Len(before) = d - 1 /\ \A j \in 1..(d - 1) : before[j] = list[j]
  OBVIOUS
<1>2. /\ after \in Seq(S)
      /\ Len(after) = Len(list) - d + 1
      /\ \A j \in 1..(Len(list) - d + 1) : after[j] = list[d + j - 1]
  OBVIOUS
<1>3. InsertAt(list, d, m) = before \o <<m>> \o after
  BY DEF InsertAt
<1> HIDE DEF before, after
<1> DEFINE front == before \o <<m>>
<1>4. /\ front \in Seq(S) /\ Len(front) = d
      /\ \A j \in 1..d : front[j] = IF j < d THEN list[j] ELSE m
  BY <1>1
<1>5. InsertAt(list, d, m) = front \o after
  BY <1>3
<1> HIDE DEF front
<1>6. /\ front \o after \in Seq(S)
      /\ Len(front \o after) = Len(list) + 1
      /\ \A j \in 1..(Len(list) + 1) :
           (front \o after)[j] = IF j <= d THEN front[j] ELSE after[j - d]
  <2>1. front \in Seq(S) /\ after \in Seq(S) /\ front \o after \in Seq(S)
    BY <1>2, <1>4
  <2>2. Len(front) = d /\ Len(after) = Len(list) - d + 1 /\ Len(list) \in Nat /\ d \in Nat
    BY <1>2, <1>4
  <2>3. Len(front \o after) = Len(front) + Len(after)
    BY <2>1
  <2>4. \A j \in 1..(Len(front) + Len(after)) :
          (front \o after)[j] = IF j <= Len(front) THEN front[j] ELSE after[j - Len(front)]
    BY <2>1
  <2> QED
    BY <2>1, <2>2, <2>3, <2>4
<1>7. ASSUME NEW j \in 1..(Len(list) + 1), j > d
      PROVE  after[j - d] = list[j - 1]
  <2>1. j - d \in 1..(Len(list) - d + 1) /\ d + (j - d) - 1 = j - 1
    BY <1>7
  <2> QED
    BY <1>2, <2>1
<1> QED
  BY <1>4, <1>5, <1>6, <1>7

\* Adding a method to a sorted list leaves it sorted.
LEMMA InsertKeepsSorted ==
  ASSUME NEW S, NEW list \in Seq(S), NEW m \in S,
         \A e \in S : e.isVarArgs \in BOOLEAN,
         Sorted(list)
  PROVE  Sorted(InsertAt(list, Destination(list, m), m))
<1> DEFINE d   == Destination(list, m)
           new == InsertAt(list, d, m)
<1>1. /\ d \in 1..(Len(list) + 1)
      /\ m.isVarArgs => d = Len(list) + 1
      /\ ~m.isVarArgs =>
           /\ \A j \in 1..(d - 1) : ~list[j].isVarArgs
           /\ d \in DOMAIN list => list[d].isVarArgs
  BY DestinationFacts
<1> HIDE DEF d
<1>2. /\ new \in Seq(S)
      /\ Len(new) = Len(list) + 1
      /\ \A j \in 1..(Len(list) + 1) :
           new[j] = IF j < d THEN list[j] ELSE IF j = d THEN m ELSE list[j - 1]
  BY <1>1, InsertAtFacts
<1> HIDE DEF new
<1>3. DOMAIN list = 1..Len(list) /\ Len(list) \in Nat /\ DOMAIN new = 1..(Len(list) + 1)
  BY <1>2
<1>4. ASSUME NEW i \in DOMAIN new, NEW j \in DOMAIN new, i < j, new[i].isVarArgs
      PROVE  new[j].isVarArgs
  <2>1. CASE m.isVarArgs
    <3>1. d = Len(list) + 1 /\ i < d
      BY <1>1, <1>3, <1>4, <2>1
    <3>2. new[i] = list[i] /\ i \in DOMAIN list
      BY <1>2, <1>3, <3>1
    <3>3. CASE j = d
      BY <1>2, <1>3, <2>1, <3>1, <3>3
    <3>4. CASE j # d
      <4>1. new[j] = list[j] /\ j \in DOMAIN list
        BY <1>2, <1>3, <3>1, <3>4
      <4> QED
        BY <1>4, <3>2, <4>1 DEF Sorted
    <3> QED
      BY <3>3, <3>4
  <2>2. CASE ~m.isVarArgs
    <3>1. ~(i < d)
      BY <1>1, <1>2, <1>3, <1>4, <2>2
    <3>2. i # d
      BY <1>2, <1>3, <1>4, <2>2
    <3>3. /\ new[i] = list[i - 1] /\ i - 1 \in DOMAIN list
          /\ new[j] = list[j - 1] /\ j - 1 \in DOMAIN list
          /\ i - 1 < j - 1
      BY <1>1, <1>2, <1>3, <1>4, <3>1, <3>2
    <3> QED
      BY <1>4, <3>3 DEF Sorted
  <2> QED
    BY <2>1, <2>2
<1> QED
  BY <1>4 DEF Sorted, new, d

\* Adding a method that was not in a list adds it to its elements, once.
LEMMA InsertLists ==
  ASSUME NEW S, NEW list \in Seq(S), NEW d \in 1..(Len(list) + 1), NEW m \in S,
         NEW set, Lists(list, set), m \notin set
  PROVE  Lists(InsertAt(list, d, m), set \cup {m})
<1> DEFINE new == InsertAt(list, d, m)
<1>1. /\ new \in Seq(S)
      /\ Len(new) = Len(list) + 1
      /\ \A j \in 1..(Len(list) + 1) :
           new[j] = IF j < d THEN list[j] ELSE IF j = d THEN m ELSE list[j - 1]
  BY InsertAtFacts
<1> HIDE DEF new
<1>2. DOMAIN list = 1..Len(list) /\ Len(list) \in Nat /\ DOMAIN new = 1..(Len(list) + 1)
  BY <1>1
<1>3. ASSUME NEW j \in DOMAIN new PROVE new[j] \in ToSet(list) \cup {m}
  <2>1. CASE j < d
    <3>1. new[j] = list[j] /\ j \in DOMAIN list
      BY <1>1, <1>2, <2>1
    <3> QED
      BY <3>1 DEF ToSet
  <2>2. CASE j = d
    BY <1>1, <1>2, <2>2
  <2>3. CASE j > d
    <3>1. new[j] = list[j - 1] /\ j - 1 \in DOMAIN list
      BY <1>1, <1>2, <2>3
    <3> QED
      BY <3>1 DEF ToSet
  <2> QED
    BY <1>2, <2>1, <2>2, <2>3
<1>4. m \in ToSet(new)
  <2>1. new[d] = m /\ d \in DOMAIN new
    BY <1>1, <1>2
  <2> QED
    BY <2>1 DEF ToSet
<1>5. ASSUME NEW i \in DOMAIN list PROVE list[i] \in ToSet(new)
  <2>1. CASE i < d
    <3>1. new[i] = list[i] /\ i \in DOMAIN new
      BY <1>1, <1>2, <2>1
    <3> QED
      BY <3>1 DEF ToSet
  <2>2. CASE ~(i < d)
    <3>1. new[i + 1] = list[i] /\ i + 1 \in DOMAIN new
      BY <1>1, <1>2, <2>2
    <3> QED
      BY <3>1 DEF ToSet
  <2> QED
    BY <2>1, <2>2
<1>6. ToSet(new) = set \cup {m}
  BY <1>3, <1>4, <1>5 DEF Lists, ToSet
<1>7. IsFiniteSet(set \cup {m}) /\ Cardinality(set \cup {m}) = Cardinality(set) + 1
  BY FS_AddElement DEF Lists
<1> QED
  BY <1>1, <1>6, <1>7 DEF Lists, new

-----------------------------------------------------------------------------
(* The invariant *)

\* Each method list is sorted and lists what reflection has listed.
ListInv ==
  \A c \in Classes :
    /\ unlisted[c] \subseteq Methods[c]
    /\ Lists(lists[c], Methods[c] \ unlisted[c])
    /\ Sorted(lists[c])

\* The last call, if there is one, had the outcome it should have.
OutcomeInv ==
  /\ NoBetterOverload
  /\ TiesArePerfect
  /\ RefusalsAreJustified
  /\ ScalarsConvert

IInv ==
  /\ family \in Families
  /\ unlisted \in [Classes -> SUBSET AllMethods]
  /\ lists \in [Classes -> Seq(AllMethods)]
  /\ outcome.kind \in Verdicts
  /\ ListInv
  /\ OutcomeInv

LEMMA VarArgsAreBoolean ==
  family \in Families => \A m \in AllMethods : m.isVarArgs \in BOOLEAN
  BY MethodsAssumption DEF AllMethods, Methods

LEMMA MethodsAreMethods ==
  family \in Families => \A m \in AllMethods : IsMethod(m)
  BY MethodsAssumption DEF AllMethods, Methods, IsMethod

LEMMA ChainElements == \A i \in 1..Len(Chain) : Chain[i] \in Classes
  BY DEF Classes

\* The outcome says nothing until there is a call, and keeps its properties until
\* the next one.
LEMMA IdleOutcome == outcome = Idle => OutcomeInv
  BY DEF Idle, OutcomeInv, NoBetterOverload, TiesArePerfect, RefusalsAreJustified,
         ScalarsConvert, Chosen

LEMMA SameOutcome ==
  ASSUME OutcomeInv, family' = family, outcome' = outcome
  PROVE  OutcomeInv'
<1>1. NoBetterOverload'
  BY DEF OutcomeInv, NoBetterOverload, Chosen, Receiver, Eligible, Fits, Value, Methods
<1>2. TiesArePerfect'
  BY DEF OutcomeInv, TiesArePerfect, Chosen, Eligible, Fits, Value, Methods
<1>3. RefusalsAreJustified'
  <2>1. Methods' = Methods /\ Constructors' = Constructors
    BY DEF Methods, Constructors
  <2>2. \A c : Eligible(c)' = Eligible(c) /\ \A m : Value(c, m)' = Value(c, m)
    BY <2>1 DEF Eligible, Fits, Value
  <2>3. RefusalsAreJustified
    BY DEF OutcomeInv
  <2>4. \A i : Visited(i)' = Visited(i)
    BY <2>1 DEF Visited
  <2> QED
    BY <2>2, <2>3, <2>4 DEF RefusalsAreJustified
<1>4. ScalarsConvert'
  BY DEF OutcomeInv, ScalarsConvert
<1> QED
  BY <1>1, <1>2, <1>3, <1>4 DEF OutcomeInv

LEMMA InitIInv == Init => IInv
<1> SUFFICES ASSUME Init PROVE IInv
  OBVIOUS
<1>1. /\ family \in Families
      /\ unlisted \in [Classes -> SUBSET AllMethods]
      /\ lists \in [Classes -> Seq(AllMethods)]
  BY DEF Init, AllMethods
<1>2. outcome.kind \in Verdicts
  BY DEF Init, Idle, Verdicts
<1>3. ASSUME NEW c \in Classes
      PROVE  /\ unlisted[c] \subseteq Methods[c]
             /\ Lists(lists[c], Methods[c] \ unlisted[c])
             /\ Sorted(lists[c])
  <2>1. lists[c] = <<>> /\ unlisted[c] = Methods[c]
    BY DEF Init
  <2>2. Lists(<<>>, {})
    BY FS_EmptySet DEF Lists, ToSet
  <2>3. Sorted(<<>>)
    BY DEF Sorted
  <2> QED
    BY <2>1, <2>2, <2>3
<1>4. OutcomeInv
  BY IdleOutcome DEF Init
<1> QED
  BY <1>1, <1>2, <1>3, <1>4 DEF IInv, ListInv

LEMMA AddMethodKeepsIInv ==
  ASSUME IInv, NEW i \in 1..Len(Chain), NEW m \in unlisted[Chain[i]], AddMethod(i, m)
  PROVE  IInv'
<1> DEFINE c   == Chain[i]
           set == Methods[c] \ unlisted[c]
           d   == Destination(lists[c], m)
<1>1. c \in Classes
  BY ChainElements
<1>2. /\ unlisted' = [unlisted EXCEPT ![c] = @ \ {m}]
      /\ lists' = [lists EXCEPT ![c] = InsertAt(@, Destination(@, m), m)]
      /\ outcome' = outcome
      /\ family' = family /\ Methods' = Methods /\ AllMethods' = AllMethods
  BY DEF AddMethod, Methods, AllMethods
<1>3. /\ family \in Families
      /\ unlisted \in [Classes -> SUBSET AllMethods]
      /\ lists \in [Classes -> Seq(AllMethods)]
      /\ unlisted[c] \subseteq Methods[c]
      /\ Lists(lists[c], set)
      /\ Sorted(lists[c])
  BY <1>1 DEF IInv, ListInv
<1>4. m \in AllMethods /\ lists[c] \in Seq(AllMethods)
  BY <1>1, <1>3
<1>5. unlisted'[c] = unlisted[c] \ {m} /\ lists'[c] = InsertAt(lists[c], d, m)
  BY <1>1, <1>2, <1>3
<1>6. \A b \in Classes \ {c} : unlisted'[b] = unlisted[b] /\ lists'[b] = lists[b]
  BY <1>2, <1>3
<1>7. d \in 1..(Len(lists[c]) + 1)
  BY <1>3, <1>4, VarArgsAreBoolean, DestinationFacts
<1>8. lists'[c] \in Seq(AllMethods)
  BY <1>4, <1>5, <1>7, InsertAtFacts
<1>9. Sorted(lists'[c])
  BY <1>3, <1>4, <1>5, VarArgsAreBoolean, InsertKeepsSorted
<1>10. Methods[c] \ unlisted'[c] = set \cup {m}
  BY <1>3, <1>5
<1>11. Lists(lists'[c], Methods[c] \ unlisted'[c])
  <2>1. m \notin set
    OBVIOUS
  <2> HIDE DEF set, d, c
  <2>2. Lists(InsertAt(lists[c], d, m), set \cup {m})
    BY <1>3, <1>4, <1>7, <2>1, InsertLists
  <2> QED
    BY <1>5, <1>10, <2>2
<1>12. unlisted' \in [Classes -> SUBSET AllMethods] /\ lists' \in [Classes -> Seq(AllMethods)]
  BY <1>1, <1>2, <1>3, <1>5, <1>8
<1>13. outcome'.kind \in Verdicts
  BY <1>2 DEF IInv
<1>14. ListInv'
  <2> SUFFICES ASSUME NEW b \in Classes
               PROVE  /\ unlisted'[b] \subseteq Methods[b]
                      /\ Lists(lists'[b], Methods[b] \ unlisted'[b])
                      /\ Sorted(lists'[b])
    BY <1>2 DEF ListInv
  <2>1. CASE b = c
    BY <1>3, <1>5, <1>9, <1>11, <2>1
  <2>2. CASE b # c
    BY <1>6, <2>2 DEF IInv, ListInv
  <2> QED
    BY <2>1, <2>2
<1>15. OutcomeInv'
  BY <1>2, SameOutcome DEF IInv
<1> QED
  BY <1>2, <1>3, <1>12, <1>13, <1>14, <1>15 DEF IInv

\* What the loop of JOverloadedMethod_FindMethod knows at its end.
LEMMA VisitsResult ==
  ASSUME NEW ls, NEW i, Len(Visited(i)) \in Nat, NEW args \in Seq(Arguments),
         \A j \in 1..Len(Visited(i)) :
           /\ \A m \in Methods[Visited(i)[j]] : IsMethod(m)
           /\ FoundIn(Visited(i)[j], Methods[Visited(i)[j]], args,
                      FindMethod0(Visited(i)[j], ls[Visited(i)[j]], args))
  PROVE  Visit(Visited(i), args, Len(Visited(i)), FindMethod(ls, i, args))
<1> DEFINE visited == Visited(i)
           N == Len(visited)
<1>1. PICK f : /\ FindMethod(ls, i, args) = f[N]
               /\ f[0] = NotFound
               /\ \A n \in 1..N : f[n] = VisitClass(ls, args, f[n - 1], visited[n])
  BY VisitSteps
<1>2. N \in Nat
  OBVIOUS
<1>3. \A j \in 1..N :
        /\ \A m \in Methods[visited[j]] : IsMethod(m)
        /\ FoundIn(visited[j], Methods[visited[j]], args,
                   FindMethod0(visited[j], ls[visited[j]], args))
  OBVIOUS
<1> HIDE DEF visited, N
<1> DEFINE T == {n \in Nat : n <= N => Visit(visited, args, n, f[n])}
<1>4. 0 \in T
  <2>1. Visit(visited, args, 0, NotFound)
    BY DEF Visit
  <2> QED
    BY <1>1, <2>1
<1>5. ASSUME NEW n \in T PROVE n + 1 \in T
  <2> DEFINE next == n + 1
  <2> SUFFICES ASSUME next <= N PROVE Visit(visited, args, next, f[next])
    OBVIOUS
  <2>1. n \in Nat /\ Visit(visited, args, n, f[n])
    BY <1>2
  <2>2. next \in 1..N /\ next - 1 = n /\ next = n + 1 /\ \A j \in 1..next : j \in 1..N
    BY <1>2, <2>1
  <2> HIDE DEF next
  <2>3. f[next] = VisitClass(ls, args, f[n], visited[next])
    BY <1>1, <2>2
  <2>4. /\ \A j \in 1..next : \A o \in Methods[visited[j]] : IsMethod(o)
        /\ FoundIn(visited[next], Methods[visited[next]], args,
                   FindMethod0(visited[next], ls[visited[next]], args))
    BY <1>3, <2>2
  <2>5. Visit(visited, args, next, VisitClass(ls, args, f[n], visited[next]))
    BY <2>1, <2>2, <2>4, VisitStep
  <2> QED
    BY <2>3, <2>5
<1>6. T = Nat
  <2>1. T \subseteq Nat
    OBVIOUS
  <2> HIDE DEF T
  <2> QED
    BY <1>4, <1>5, <2>1, NaturalsUp
<1>7. Visit(visited, args, N, f[N])
  BY <1>2, <1>6
<1> QED
  BY <1>1, <1>7 DEF visited, N

\* The search starts with the class that is asked, and only visits resolved ones.
LEMMA VisitedClasses ==
  ASSUME NEW i \in 1..Len(Chain)
  PROVE  /\ Len(Visited(i)) \in Nat /\ Len(Visited(i)) > 0
         /\ DOMAIN Visited(i) = 1..Len(Visited(i))
         /\ Visited(i)[1] = Chain[i]
         /\ \A j \in 1..Len(Visited(i)) :
              \E k \in i..Len(Chain) : k \in 1..Len(Chain) /\ Visited(i)[j] = Chain[k]
<1>1. Chain \in Seq(Classes) /\ Len(Chain) \in Nat /\ i \in Nat
  BY MethodsAssumption
<1>2. CASE Constructors
  BY <1>1, <1>2 DEF Visited
<1>3. CASE ~Constructors
  <2>1. Visited(i) = SubSeq(Chain, i, Len(Chain))
    BY <1>3 DEF Visited
  <2>2. /\ Len(Visited(i)) = Len(Chain) - i + 1
        /\ DOMAIN Visited(i) = 1..Len(Visited(i))
        /\ \A j \in 1..Len(Visited(i)) : Visited(i)[j] = Chain[i + j - 1]
    BY <1>1, <2>1
  <2>3. \A j \in 1..Len(Visited(i)) :
          i + j - 1 \in i..Len(Chain) /\ i + j - 1 \in 1..Len(Chain)
    BY <1>1, <2>2
  <2>4. 1 \in 1..Len(Visited(i)) /\ Visited(i)[1] = Chain[i]
    BY <1>1, <2>2
  <2> QED
    BY <2>2, <2>3, <2>4
<1> QED
  BY <1>2, <1>3

LEMMA CallResult ==
  ASSUME IInv, NEW i \in 1..Len(Chain), Resolved(i), NEW args \in ArgLists
  PROVE  /\ args \in Seq(Arguments)
         /\ Visit(Visited(i), args, Len(Visited(i)), FindMethod(lists, i, args))
         /\ \A j \in 1..Len(Visited(i)) : \A m \in Methods[Visited(i)[j]] : IsMethod(m)
<1>1. args \in Seq(Arguments)
  BY MethodsAssumption DEF IInv, ArgLists
<1>2. \A m \in AllMethods : IsMethod(m)
  BY MethodsAreMethods DEF IInv
<1>3. ASSUME NEW j \in 1..Len(Visited(i))
      PROVE  /\ \A m \in Methods[Visited(i)[j]] : IsMethod(m)
             /\ FoundIn(Visited(i)[j], Methods[Visited(i)[j]], args,
                        FindMethod0(Visited(i)[j], lists[Visited(i)[j]], args))
  <2> DEFINE c == Visited(i)[j]
  <2>1. c \in Classes /\ unlisted[c] = {}
    <3>1. PICK k \in i..Len(Chain) : k \in 1..Len(Chain) /\ c = Chain[k]
      BY VisitedClasses
    <3> QED
      BY <3>1, ChainElements DEF Resolved
  <2> HIDE DEF c
  <2>2. lists[c] \in Seq(AllMethods) /\ Sorted(lists[c]) /\ Lists(lists[c], Methods[c])
    <3>1. Lists(lists[c], Methods[c] \ {})
      BY <2>1 DEF IInv, ListInv
    <3>2. Methods[c] \ {} = Methods[c]
      OBVIOUS
    <3> QED
      BY <2>1, <3>1, <3>2 DEF IInv, ListInv
  <2>3. \A m \in Methods[c] : IsMethod(m)
    BY <1>2, <2>1 DEF AllMethods
  <2>4. FoundIn(c, Methods[c], args, FindMethod0(c, lists[c], args))
    BY <1>1, <1>2, <2>2, FoundInClass
  <2> QED
    BY <2>3, <2>4 DEF c
<1> QED
  BY <1>1, <1>3, VisitedClasses, VisitsResult

\* A call makes the properties of its outcome true.
LEMMA CallOutcome ==
  ASSUME IInv, NEW i \in 1..Len(Chain), NEW args \in ArgLists, Call(i, args)
  PROVE  OutcomeInv'
<1> DEFINE visited == Visited(i)
           N       == Len(visited)
           found   == FindMethod(lists, i, args)
           E(j)    == ClassEligible(visited, args, j)
           V(j, m) == ClassWorth(visited, args, j, m)
           P       == Perfect(args)
<1>1. /\ Resolved(i)
      /\ outcome' = [kind |-> Verdict(found, args), start |-> i, args |-> args, found |-> found]
      /\ family' = family /\ Methods' = Methods /\ Constructors' = Constructors
      /\ Visited(i)' = visited
  BY DEF Call, Methods, Constructors, Visited
<1>2. /\ outcome'.kind = Verdict(found, args) /\ outcome'.start = i
      /\ outcome'.args = args /\ outcome'.found = found
  BY <1>1
<1>3. /\ args \in Seq(Arguments)
      /\ Visit(visited, args, N, found)
      /\ \A j \in 1..N : \A m \in Methods[visited[j]] : IsMethod(m)
  BY <1>1, CallResult
<1>4. /\ N \in Nat /\ N > 0 /\ visited[1] = Chain[i] /\ DOMAIN visited = 1..N
  BY VisitedClasses
<1>5. \A c : Eligible(c)' = EligibleOf(c, Methods[c], args)
  BY <1>1, <1>2 DEF Eligible, Fits, Value, EligibleOf
<1>6. \A c, m : Value(c, m)' = MatchPyArgs(c, m, args)
  BY <1>2 DEF Value
<1>7. Receiver' = Chain[i] /\ (Chosen' <=> Verdict(found, args) \in {"invoked", "not converted"})
  BY <1>2 DEF Receiver, Chosen
<1>8. ToSet(Visited(outcome.start))' = {visited[j] : j \in 1..N}
  BY <1>1, <1>2, <1>4 DEF ToSet
<1>9. CASE found = NotFound /\ \A j \in 1..N : E(j) = {}
  <2>1. Verdict(found, args) = "no match"
    <3> HIDE DEF found
    <3>1. found.count = 0
      BY <1>9 DEF NotFound
    <3> QED
      BY <3>1 DEF Verdict
  <2>2. \A c \in ToSet(Visited(outcome.start))' : Eligible(c)' = {}
    BY <1>5, <1>8, <1>9 DEF ClassEligible
  <2> QED
    BY <1>2, <1>7, <2>1, <2>2
    DEF OutcomeInv, NoBetterOverload, TiesArePerfect, RefusalsAreJustified, ScalarsConvert
<1>10. ASSUME NEW j \in 1..N, NEW count \in Nat \ {0}, NEW done \in BOOLEAN, NEW m \in E(j),
              BestVisited(visited, args, N, found, j, m, count, done)
       PROVE  OutcomeInv'
  <2> DEFINE c == visited[j]
             v == MatchPyArgs(c, m, args)
  <2>1. /\ found.class = c /\ found.method = m /\ found.value = v /\ found.count = count
        /\ found.asArray = PassesArray(m, args)
        /\ BestOf(c, Methods[c], args, m, count)
    BY <1>10 DEF BestVisited, Is
  <2>2. \A k \in 1..(j - 1) : \A o \in E(k) : V(k, o) < V(j, m) \/ (o.isVarArgs /\ V(j, m) >= P)
    BY <1>10 DEF BestVisited
  <2>3. /\ m \in EligibleOf(c, Methods[c], args) /\ v \in Nat /\ v > 0
        /\ \A o \in EligibleOf(c, Methods[c], args) :
             MatchPyArgs(c, o, args) \in Nat /\ MatchPyArgs(c, o, args) <= v
    <3>1. \A o \in Methods[c] : IsMethod(o)
      BY <1>3
    <3> HIDE DEF c
    <3> QED
      BY <1>3, <2>1, <3>1, BestOfClass
  <2>4. /\ count = 1 => Verdict(found, args) \in {"invoked", "not converted"}
        /\ count # 1 => Verdict(found, args) = "ambiguous"
        /\ Verdict(found, args) = "not converted" => ~CreatesJArgs(found, args)
    BY <2>1 DEF Verdict
  <2>5. IsMethod(m)
    BY <1>3 DEF ClassEligible, EligibleOf
  <2> HIDE DEF found, c, v
  <2>6. NoBetterOverload'
    <3> SUFFICES ASSUME NEW o \in EligibleOf(Chain[i], Methods[Chain[i]], args)
                 PROVE  \/ MatchPyArgs(Chain[i], o, args) < v
                        \/ c = Chain[i] /\ MatchPyArgs(Chain[i], o, args) = v
                        \/ c # Chain[i] /\ o.isVarArgs /\ v >= P
      BY <1>2, <1>5, <1>6, <1>7, <2>1 DEF NoBetterOverload
    <3>1. CASE c = Chain[i]
      BY <2>3, <3>1
    <3>2. CASE c # Chain[i]
      <4>1. 1 \in 1..(j - 1)
        BY <1>4, <3>2 DEF c
      <4>2. o \in E(1) /\ V(1, o) = MatchPyArgs(Chain[i], o, args) /\ V(j, m) = v
        BY <1>4 DEF ClassEligible, ClassWorth, c, v
      <4> HIDE DEF V, P
      <4> QED
        BY <2>2, <3>2, <4>1, <4>2
    <3> QED
      BY <3>1, <3>2
  <2>7. TiesArePerfect'
    <3> SUFFICES ASSUME count = 1, NEW o \in EligibleOf(c, Methods[c], args) \ {m},
                        MatchPyArgs(c, o, args) >= v
                 PROVE  ~o.isVarArgs /\ v >= P
      BY <1>2, <1>5, <1>6, <1>7, <2>1, <2>4 DEF TiesArePerfect
    <3>1. \/ MatchPyArgs(c, o, args) < v
          \/ ~o.isVarArgs /\ v >= P
      BY <2>1 DEF BestOf, v
    <3> QED
      BY <2>3, <3>1
  <2>8. RefusalsAreJustified'
    <3>1. Verdict(found, args) # "no match"
      BY <2>4
    <3>2. ASSUME count # 1
          PROVE  \E o \in EligibleOf(c, Methods[c], args) : o # m /\ MatchPyArgs(c, o, args) = v
      BY <2>1, <3>2 DEF BestOf, v
    <3>3. c \in ToSet(Visited(outcome.start))'
      BY <1>8 DEF c
    <3>4. Verdict(found, args) = "ambiguous" =>
            \E d \in ToSet(Visited(outcome.start))' : \E o, p \in Eligible(d)' :
              o # p /\ Value(d, o)' = v /\ Value(d, p)' = v
      BY <1>5, <1>6, <2>3, <2>4, <3>2, <3>3 DEF v
    <3> QED
      BY <1>2, <2>1, <3>1, <3>4 DEF RefusalsAreJustified
  <2>9. ScalarsConvert'
    <3>1. ASSUME \A k \in DOMAIN args : args[k].kind \in Scalars \cup WideInts,
                 \/ ~m.isVarArgs \/ found.asArray
                 \/ Component[Last(m.params)] \notin Primitives
                 \/ \A k \in DOMAIN args : args[k].kind \notin WideInts
          PROVE  CreatesJArgs(found, args)
      BY <1>3, <2>1, <2>3, <2>5, <3>1, ScalarsCreate DEF v
    <3> QED
      BY <1>2, <2>1, <2>4, <3>1 DEF ScalarsConvert, Scalars
  <2> QED
    BY <2>6, <2>7, <2>8, <2>9 DEF OutcomeInv
<1> QED
  BY <1>3, <1>9, <1>10 DEF Visit

\* Calls only change the outcome.
LEMMA CallKeepsIInv ==
  ASSUME IInv, UNCHANGED <<family, unlisted, lists>>, outcome'.kind \in Verdicts, OutcomeInv'
  PROVE  IInv'
<1>1. Methods' = Methods /\ AllMethods' = AllMethods
  BY DEF Methods, AllMethods
<1>2. ListInv'
  BY <1>1 DEF IInv, ListInv
<1> QED
  BY <1>1, <1>2 DEF IInv

LEMMA NextIInv == IInv /\ [Next]_vars => IInv'
<1> SUFFICES ASSUME IInv, [Next]_vars PROVE IInv'
  OBVIOUS
<1>1. CASE \E i \in 1..Len(Chain) : \E m \in unlisted[Chain[i]] : AddMethod(i, m)
  BY <1>1, AddMethodKeepsIInv
<1>2. ASSUME NEW i \in 1..Len(Chain), NEW args \in ArgLists, Call(i, args) PROVE IInv'
  <2>1. /\ outcome'.kind = Verdict(FindMethod(lists, i, args), args)
        /\ UNCHANGED <<family, unlisted, lists>>
    BY <1>2 DEF Call
  <2>2. \A found : Verdict(found, args) \in Verdicts
    BY DEF Verdict, Verdicts
  <2>3. OutcomeInv'
    BY <1>2, CallOutcome
  <2> QED
    BY <2>1, <2>2, <2>3, CallKeepsIInv
<1>3. CASE Return
  <2>1. outcome' = Idle /\ Idle' = Idle
    BY <1>3 DEF Return, Idle, NotFound
  <2>2. OutcomeInv'
    BY <2>1 DEF Idle, OutcomeInv, NoBetterOverload, TiesArePerfect, RefusalsAreJustified,
                ScalarsConvert, Chosen
  <2> QED
    BY <1>3, <2>2, CallKeepsIInv DEF Return, Idle, Verdicts
<1>4. CASE UNCHANGED vars
  <2>1. OutcomeInv'
    BY <1>4, SameOutcome DEF vars, IInv
  <2> QED
    BY <1>4, <2>1, CallKeepsIInv DEF vars, IInv
<1> QED
  BY <1>1, <1>2, <1>3, <1>4 DEF Next

THEOREM Invariant == Spec => []IInv
  BY InitIInv, NextIInv, PTL DEF Spec

\* Type correctness: each method that reflection has listed is in the method
\* list of its class, once (JOverloadedMethod_AddMethod).
THEOREM TypeCorrect == Spec => []TypeOK
<1>1. IInv => TypeOK
  BY DEF IInv, ListInv, Lists, TypeOK, AllMethods
<1> QED
  BY <1>1, Invariant, PTL

\* In every method list the methods with variable arguments come last, in
\* whatever order reflection lists them (JOverloadedMethod_AddMethod).
THEOREM FixedFirstInvariant == Spec => []FixedFirst
<1>1. IInv => FixedFirst
  BY DEF IInv, ListInv, Sorted, FixedFirst
<1> QED
  BY <1>1, Invariant, PTL

\* No eligible method of the class that is asked is better than the one that is
\* called, but for methods with variable arguments of which none is passed
\* (JOverloadedMethod_FindMethod).
THEOREM NoBetterOverloadInvariant == Spec => []NoBetterOverload
<1>1. IInv => NoBetterOverload
  BY DEF IInv, OutcomeInv
<1> QED
  BY <1>1, Invariant, PTL

\* The order of reflection decides only between perfect matches
\* (JOverloadedMethod_FindMethod0).
THEOREM TiesArePerfectInvariant == Spec => []TiesArePerfect
<1>1. IInv => TiesArePerfect
  BY DEF IInv, OutcomeInv
<1> QED
  BY <1>1, Invariant, PTL

\* A call is refused only if no method fits, or two fit equally well
\* (JOverloadedMethod_FindMethod, JOverloadedMethod_call).
THEOREM RefusalsAreJustifiedInvariant == Spec => []RefusalsAreJustified
<1>1. IInv => RefusalsAreJustified
  BY DEF IInv, OutcomeInv
<1> QED
  BY <1>1, Invariant, PTL

\* The conversions accept all scalars that the match functions accept, but for
\* wide ints among variable arguments of a primitive type
\* (JMethod_MatchPyArgs, JMethod_CreateJArgs, JType_CreateJavaArray).
THEOREM ScalarsConvertInvariant == Spec => []ScalarsConvert
<1>1. IInv => ScalarsConvert
  BY DEF IInv, OutcomeInv
<1> QED
  BY <1>1, Invariant, PTL

=============================================================================
