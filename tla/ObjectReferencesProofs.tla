------------------------ MODULE ObjectReferencesProofs ------------------------
(***************************************************************************)
(* What ObjectReferences has for any number of objects, instances of       *)
(* PyObject and threads.                                                   *)
(***************************************************************************)
EXTENDS ObjectReferences, FiniteSetTheorems, TLAPS

-----------------------------------------------------------------------------
(* The inductive invariant *)

\* Freed objects are not accounted for any more; those to come are, with nothing.
Live(o) == refcnt[o] > 0 \/ o \notin born

Account(o) == Live(o) => refcnt[o] + stolen[o] = Owners(o) + lost[o]

\* A native method (f) has pointers to objects that were created (b).  Its argument, and
\* its receiver if the program keeps it, are those of instances (ws) until it returns,
\* and somebody in Python (py) has what it borrows.
FrameInv(f, b, py, ws) ==
  /\ f.at # "wrapping" => f.result = NoObject /\ f.owned = 0
  /\ f.at = "wrapping" =>
       f.result \in b /\ (KeepsReceivers /\ f.owned = 0 => py[f.result] > 0)
  /\ f.at = "running" => f.op \in Calls
  /\ f.at \in {"entered", "running"} =>
       /\ f.self \in b
       /\ KeepsReceivers => f.by \in Wrappers /\ ws[f.by] = f.self
       /\ f.op \in WithArgument => f.arg \in b /\ f.with \in Wrappers /\ ws[f.with] = f.arg

\* Instances and Python code have only objects that were created.
KnowsBorn ==
  /\ \A w \in Wrappers : wraps[w] \in born \cup {NoObject}
  /\ \A o \in Objects \ born : python[o] = 0

IInv ==
  /\ TypeOK
  /\ KnowsBorn
  /\ \A t \in Threads : FrameInv(pc[t], born, python, wraps)
  /\ \A o \in Objects : Account(o)
  /\ KeepsReceivers => OwnersKeepAlive
  /\ UsesAreSafe

-----------------------------------------------------------------------------
(* Counting owners *)

\* The owners of an object among instances (ws) and native methods (p), and all of them.
Wrapped(ws, o) == Cardinality({w \in Wrappers : ws[w] = o})

PassedIn(p, o) == Cardinality({t \in Threads : p[t].at = "running" /\ p[t].arg = o})

ReturnedIn(p, o, k) == Cardinality({t \in Threads : p[t].result = o /\ p[t].owned >= k})

Counted(py, ws, p, o) ==
  py[o] + Wrapped(ws, o) + PassedIn(p, o) + ReturnedIn(p, o, 1) + ReturnedIn(p, o, 2)

\* The references to an object that there should be: those of its owners, without the
\* stolen (st) and with the lost (ls) ones.
Due(py, ws, p, st, ls, o) == Counted(py, ws, p, o) - st[o] + ls[o]

\* The number k, if the object o is x.
Only(x, o, k) == IF o = x THEN k ELSE 0

\* The references that a native method has in its hands.
Weight(f, o) == (IF f.at = "running" /\ f.arg = o THEN 1 ELSE 0)
                  + (IF f.result = o THEN f.owned ELSE 0)

LEMMA OwnersCounted ==
  \A o : Owners(o) = Counted(python, wraps, pc, o)
         /\ Owners(o)' = Counted(python', wraps', pc', o)
BY DEF Owners, Counted, Wrapped, PassedIn, ReturnedIn, InstancesOf, Passing, Returning

\* Two finite sets that agree but for one element.
LEMMA CardinalityStep ==
  ASSUME NEW S, NEW T, NEW x, IsFiniteSet(S), IsFiniteSet(T), S \ {x} = T \ {x}
  PROVE  /\ Cardinality(S) \in Nat /\ Cardinality(T) \in Nat
         /\ Cardinality(T) = Cardinality(S) + (IF x \in T THEN 1 ELSE 0)
                                            - (IF x \in S THEN 1 ELSE 0)
<1>1. Cardinality(S) \in Nat /\ Cardinality(T) \in Nat
  BY FS_CardinalityType
<1>2. Cardinality(S \ {x}) = IF x \in S THEN Cardinality(S) - 1 ELSE Cardinality(S)
  BY FS_RemoveElement
<1>3. Cardinality(T \ {x}) = IF x \in T THEN Cardinality(T) - 1 ELSE Cardinality(T)
  BY FS_RemoveElement
<1> QED BY <1>1, <1>2, <1>3

LEMMA FiniteParts ==
  \A S : S \subseteq Wrappers \/ S \subseteq Threads => IsFiniteSet(S)
BY FS_Subset, ReferencesAssumption

\* The number of owners is positive as soon as somebody owns a reference.
LEMMA CountedFacts ==
  ASSUME NEW py \in [Objects -> Nat], NEW ws \in [Wrappers -> Pointers],
         NEW p \in [Threads -> Frames], NEW o \in Objects
  PROVE  /\ Counted(py, ws, p, o) \in Nat
         /\ Wrapped(ws, o) \in Nat
         /\ PassedIn(p, o) \in Nat /\ ReturnedIn(p, o, 1) \in Nat /\ ReturnedIn(p, o, 2) \in Nat
         /\ py[o] > 0 => Counted(py, ws, p, o) > 0
         /\ \A w \in Wrappers : ws[w] = o => Counted(py, ws, p, o) > 0
         /\ \A t \in Threads : Weight(p[t], o) > 0 => Counted(py, ws, p, o) > 0
<1> DEFINE W == {w \in Wrappers : ws[w] = o}
           P == {t \in Threads : p[t].at = "running" /\ p[t].arg = o}
           R(k) == {t \in Threads : p[t].result = o /\ p[t].owned >= k}
<1>1. IsFiniteSet(W) /\ IsFiniteSet(P) /\ IsFiniteSet(R(1)) /\ IsFiniteSet(R(2))
  BY FiniteParts
<1>2. /\ Cardinality(W) \in Nat /\ Cardinality(P) \in Nat
      /\ Cardinality(R(1)) \in Nat /\ Cardinality(R(2)) \in Nat
  BY <1>1, FS_CardinalityType
<1>3. /\ W # {} => Cardinality(W) > 0
      /\ P # {} => Cardinality(P) > 0
      /\ R(1) # {} => Cardinality(R(1)) > 0
  <2>1. ASSUME NEW S, IsFiniteSet(S), S # {} PROVE Cardinality(S) > 0
    BY <2>1, FS_EmptySet, FS_CardinalityType
  <2> HIDE DEF W, P, R
  <2> QED BY <1>1, <2>1
<1>4. \A w \in Wrappers : ws[w] = o => W # {}
  OBVIOUS
<1>5. ASSUME NEW t \in Threads, Weight(p[t], o) > 0
      PROVE  P # {} \/ R(1) # {}
  <2>1. p[t].owned \in 0..2
    BY DEF Frames
  <2>2. CASE p[t].at = "running" /\ p[t].arg = o
    BY <2>2
  <2>3. CASE ~(p[t].at = "running" /\ p[t].arg = o)
    BY <1>5, <2>1, <2>3 DEF Weight
  <2> QED BY <2>2, <2>3
<1>6. /\ Wrapped(ws, o) = Cardinality(W) /\ PassedIn(p, o) = Cardinality(P)
      /\ ReturnedIn(p, o, 1) = Cardinality(R(1)) /\ ReturnedIn(p, o, 2) = Cardinality(R(2))
  BY DEF Wrapped, PassedIn, ReturnedIn
<1> HIDE DEF W, P, R
<1>7. py[o] \in Nat
  OBVIOUS
<1> QED BY <1>2, <1>3, <1>4, <1>5, <1>6, <1>7 DEF Counted

\* One instance gets another pointer.
LEMMA WrappedStep ==
  ASSUME NEW ws \in [Wrappers -> Pointers], NEW w \in Wrappers, NEW q \in Pointers,
         NEW v, v = [ws EXCEPT ![w] = q], NEW o \in Objects
  PROVE  /\ v \in [Wrappers -> Pointers]
         /\ Wrapped(v, o) = Wrapped(ws, o) + (Only(q, o, 1) - Only(ws[w], o, 1))
<1> DEFINE S == {x \in Wrappers : ws[x] = o}
           T == {x \in Wrappers : v[x] = o}
<1>1. IsFiniteSet(S) /\ IsFiniteSet(T)
  BY FiniteParts
<1>2. S \ {w} = T \ {w} /\ (w \in S <=> ws[w] = o) /\ (w \in T <=> q = o)
  OBVIOUS
<1>3. Wrapped(ws, o) = Cardinality(S) /\ Wrapped(v, o) = Cardinality(T)
  BY DEF Wrapped
<1> HIDE DEF S, T
<1>4. /\ Cardinality(S) \in Nat
      /\ Cardinality(T) = Cardinality(S) + (IF w \in T THEN 1 ELSE 0)
                                         - (IF w \in S THEN 1 ELSE 0)
  BY <1>1, <1>2, CardinalityStep
<1> QED BY <1>2, <1>3, <1>4 DEF Only

\* One thread goes to another frame.
LEMMA HandedStep ==
  ASSUME NEW p \in [Threads -> Frames], NEW t \in Threads, NEW f \in Frames, NEW o \in Objects
  PROVE  LET q == [p EXCEPT ![t] = f] IN
         PassedIn(q, o) + ReturnedIn(q, o, 1) + ReturnedIn(q, o, 2)
           = PassedIn(p, o) + ReturnedIn(p, o, 1) + ReturnedIn(p, o, 2)
               + Weight(f, o) - Weight(p[t], o)
<1> DEFINE q == [p EXCEPT ![t] = f]
           P(r) == {u \in Threads : r[u].at = "running" /\ r[u].arg = o}
           R(r, k) == {u \in Threads : r[u].result = o /\ r[u].owned >= k}
<1>1. /\ IsFiniteSet(P(p)) /\ IsFiniteSet(R(p, 1)) /\ IsFiniteSet(R(p, 2))
      /\ IsFiniteSet(P(q)) /\ IsFiniteSet(R(q, 1)) /\ IsFiniteSet(R(q, 2))
  BY FiniteParts
<1>2. /\ P(p) \ {t} = P(q) \ {t}
      /\ R(p, 1) \ {t} = R(q, 1) \ {t} /\ R(p, 2) \ {t} = R(q, 2) \ {t}
  OBVIOUS
<1>3. /\ t \in P(p) <=> p[t].at = "running" /\ p[t].arg = o
      /\ t \in P(q) <=> f.at = "running" /\ f.arg = o
      /\ t \in R(p, 1) <=> p[t].result = o /\ p[t].owned >= 1
      /\ t \in R(q, 1) <=> f.result = o /\ f.owned >= 1
      /\ t \in R(p, 2) <=> p[t].result = o /\ p[t].owned >= 2
      /\ t \in R(q, 2) <=> f.result = o /\ f.owned >= 2
  OBVIOUS
<1>4. f.owned \in 0..2 /\ p[t].owned \in 0..2
  BY DEF Frames
<1>5. /\ PassedIn(p, o) = Cardinality(P(p)) /\ PassedIn(q, o) = Cardinality(P(q))
      /\ ReturnedIn(p, o, 1) = Cardinality(R(p, 1)) /\ ReturnedIn(p, o, 2) = Cardinality(R(p, 2))
      /\ ReturnedIn(q, o, 1) = Cardinality(R(q, 1)) /\ ReturnedIn(q, o, 2) = Cardinality(R(q, 2))
  BY DEF PassedIn, ReturnedIn
<1> HIDE DEF P, R, q
<1>6. /\ Cardinality(P(p)) \in Nat
      /\ Cardinality(P(q)) = Cardinality(P(p)) + (IF t \in P(q) THEN 1 ELSE 0)
                                               - (IF t \in P(p) THEN 1 ELSE 0)
  BY <1>1, <1>2, CardinalityStep
<1>7. /\ Cardinality(R(p, 1)) \in Nat
      /\ Cardinality(R(q, 1)) = Cardinality(R(p, 1)) + (IF t \in R(q, 1) THEN 1 ELSE 0)
                                                     - (IF t \in R(p, 1) THEN 1 ELSE 0)
  BY <1>1, <1>2, CardinalityStep
<1>8. /\ Cardinality(R(p, 2)) \in Nat
      /\ Cardinality(R(q, 2)) = Cardinality(R(p, 2)) + (IF t \in R(q, 2) THEN 1 ELSE 0)
                                                     - (IF t \in R(p, 2) THEN 1 ELSE 0)
  BY <1>1, <1>2, CardinalityStep
<1>9. /\ Weight(f, o) = (IF t \in P(q) THEN 1 ELSE 0)
                          + (IF t \in R(q, 1) THEN 1 ELSE 0) + (IF t \in R(q, 2) THEN 1 ELSE 0)
      /\ Weight(p[t], o) = (IF t \in P(p) THEN 1 ELSE 0)
                          + (IF t \in R(p, 1) THEN 1 ELSE 0) + (IF t \in R(p, 2) THEN 1 ELSE 0)
  BY <1>3, <1>4 DEF Weight
<1>10. PassedIn(q, o) + ReturnedIn(q, o, 1) + ReturnedIn(q, o, 2)
         = PassedIn(p, o) + ReturnedIn(p, o, 1) + ReturnedIn(p, o, 2)
             + Weight(f, o) - Weight(p[t], o)
  BY <1>5, <1>6, <1>7, <1>8, <1>9
<1> QED BY <1>10 DEF q

-----------------------------------------------------------------------------
(* Steps *)

\* A step gives d more references to the object o, or fewer, and d owners more, but for
\* what is stolen or lost; nobody gets hold of a freed object who could not before.
Balanced(o, d) ==
  /\ d >= 0 \/ o \in born
  /\ Live(o) => refcnt'[o] = IF refcnt[o] + d > 0 THEN refcnt[o] + d ELSE 0
  /\ ~Live(o) => refcnt'[o] = 0
  /\ Due(python', wraps', pc', stolen', lost', o) = Due(python, wraps, pc, stolen, lost, o) + d
  /\ stolen'[o] >= stolen[o]
  /\ KeepsReceivers /\ ~Live(o) /\ Counted(python, wraps, pc, o) = 0
       => Counted(python', wraps', pc', o) = 0

\* Objects are not unmade, instances that a native method has keep their pointers, and
\* Python code keeps what a native method has borrowed.
Stable ==
  /\ born \subseteq born' /\ python' \in [Objects -> Nat]
  /\ \A w \in Wrappers : wraps'[w] = wraps[w] \/ wraps[w] = NoObject \/ ~Held(w)
  /\ \A o \in Objects : python'[o] >= python[o] \/ python'[o] > 0 \/ ~IsBorrowed(o)

\* Then the counts, the lives of objects and the uses are as they should be.
LEMMA BalancedStep ==
  ASSUME IInv, TypeOK', KnowsBorn', born \subseteq born',
         \A t \in Threads : FrameInv(pc[t], born, python, wraps)',
         \A o \in Objects : \E d \in Int : Balanced(o, d),
         NEW S, Use(S),
         KeepsReceivers => \A o \in S \cap born : Counted(python, wraps, pc, o) > 0
  PROVE  IInv'
<1>1. ASSUME NEW o \in Objects
      PROVE  /\ Account(o)'
             /\ KeepsReceivers /\ o \in born' /\ stolen'[o] = 0 /\ Owners(o)' > 0 => refcnt'[o] > 0
  <2>1. PICK d \in Int : Balanced(o, d)
    OBVIOUS
  <2>2. /\ refcnt[o] \in Nat /\ refcnt'[o] \in Nat /\ stolen[o] \in Nat /\ stolen'[o] \in Nat
        /\ lost[o] \in Nat /\ lost'[o] \in Nat
    BY DEF IInv, TypeOK
  <2>3. Counted(python, wraps, pc, o) \in Nat /\ Counted(python', wraps', pc', o) \in Nat
    BY CountedFacts DEF IInv, TypeOK
  <2> DEFINE n == Counted(python, wraps, pc, o)
             m == Counted(python', wraps', pc', o)
  <2>4. Owners(o) = n /\ Owners(o)' = m
    BY OwnersCounted
  <2>5. CASE Live(o)
    <3>1. refcnt[o] = Due(python, wraps, pc, stolen, lost, o)
      <4>1. refcnt[o] + stolen[o] = n + lost[o]
        BY <2>4, <2>5 DEF IInv, Account
      <4> QED BY <2>2, <2>3, <4>1 DEF Due
    <3>2. refcnt'[o] = refcnt[o] + d \/ (refcnt'[o] = 0 /\ refcnt[o] + d < 0 /\ o \in born)
      BY <2>1, <2>2, <2>5 DEF Balanced, Live
    <3>3. CASE refcnt'[o] = refcnt[o] + d
      <4>1. refcnt'[o] = Due(python', wraps', pc', stolen', lost', o)
        BY <2>1, <2>2, <3>1, <3>3 DEF Balanced
      <4>3. refcnt'[o] + stolen'[o] = m + lost'[o]
        BY <2>2, <2>3, <4>1 DEF Due
      <4>4. stolen'[o] = 0 /\ m > 0 => refcnt'[o] > 0
        BY <2>2, <2>3, <4>3
      <4> QED BY <2>4, <4>3, <4>4 DEF Account
    <3>4. CASE refcnt'[o] = 0 /\ refcnt[o] + d < 0 /\ o \in born
      <4>1. Due(python', wraps', pc', stolen', lost', o) < 0
        BY <2>1, <2>2, <3>1, <3>4 DEF Balanced
      <4>2. stolen'[o] > 0
        BY <2>2, <2>3, <4>1 DEF Due
      <4> QED BY <4>2, <3>4 DEF Account, Live
    <3> QED BY <3>2, <3>3, <3>4
  <2>6. CASE ~Live(o)
    <3>1. o \in born /\ refcnt[o] = 0 /\ refcnt'[o] = 0
      BY <2>1, <2>2, <2>6 DEF Live, Balanced
    <3>2. KeepsReceivers /\ stolen[o] = 0 => Owners(o) = 0
      BY <2>3, <2>4, <3>1 DEF IInv, OwnersKeepAlive, Alive
    <3>3. KeepsReceivers /\ stolen'[o] = 0 => Owners(o)' = 0
      BY <2>1, <2>2, <2>4, <2>6, <3>2 DEF Balanced
    <3> QED BY <3>1, <3>3 DEF Account, Live
  <2> QED BY <2>5, <2>6
<1>2. KeepsReceivers => OwnersKeepAlive'
  BY <1>1 DEF OwnersKeepAlive, Alive, TypeOK
<1>3. ASSUME KeepsReceivers, NEW o \in faults' PROVE stolen'[o] > 0
  <2>1. o \in S \cap born /\ ~Alive(o) /\ o \in Objects
    BY DEF Use, IInv, TypeOK
  <2>2. Owners(o) > 0
    BY <1>3, <2>1, OwnersCounted
  <2>3. stolen[o] # 0
    BY <1>3, <2>1, <2>2 DEF IInv, OwnersKeepAlive
  <2>4. stolen[o] \in Nat /\ stolen'[o] \in Nat /\ stolen'[o] >= stolen[o]
    BY <2>1 DEF IInv, TypeOK, Balanced
  <2> QED BY <2>3, <2>4
<1>4. UsesAreSafe'
  BY <1>3 DEF UsesAreSafe
<1> QED BY <1>1, <1>2, <1>4 DEF IInv

\* What a thread knows stays true in stable steps of others.
LEMMA FrameKept ==
  ASSUME IInv, Stable, NEW u \in Threads
  PROVE  FrameInv(pc[u], born', python', wraps')
<1> DEFINE f == pc[u]
<1>1. /\ FrameInv(f, born, python, wraps) /\ f \in Frames
      /\ born \subseteq Objects /\ born \subseteq born'
  BY DEF IInv, TypeOK, Stable
<1>2. ASSUME f.at = "wrapping", KeepsReceivers, f.owned = 0
      PROVE  python'[f.result] > 0
  <2>1. IsBorrowed(f.result) /\ f.result \in Objects /\ python[f.result] > 0
    BY <1>1, <1>2 DEF IsBorrowed, FrameInv
  <2>2. python[f.result] \in Nat /\ python'[f.result] \in Nat
    BY <2>1 DEF IInv, TypeOK, Stable
  <2>3. python'[f.result] >= python[f.result] \/ python'[f.result] > 0
    BY <2>1 DEF Stable
  <2> QED BY <2>1, <2>2, <2>3
<1>3. ASSUME f.at \in {"entered", "running"}, KeepsReceivers
      PROVE  f.by \in Wrappers /\ wraps'[f.by] = f.self
  <2>1. f.by \in Wrappers /\ wraps[f.by] = f.self /\ f.self \in Objects
    BY <1>1, <1>3 DEF FrameInv
  <2>2. Held(f.by) /\ wraps[f.by] # NoObject
    BY <1>3, <2>1, ReferencesAssumption DEF Held
  <2> QED BY <2>1, <2>2 DEF Stable
<1>4. ASSUME f.at \in {"entered", "running"}, f.op \in WithArgument
      PROVE  f.with \in Wrappers /\ wraps'[f.with] = f.arg
  <2>1. f.with \in Wrappers /\ wraps[f.with] = f.arg /\ f.arg \in Objects
    BY <1>1, <1>4 DEF FrameInv
  <2>2. Held(f.with) /\ wraps[f.with] # NoObject
    BY <2>1, ReferencesAssumption DEF Held
  <2> QED BY <2>1, <2>2 DEF Stable
<1> HIDE DEF f
<1>5. FrameInv(f, born', python', wraps')
  BY <1>1, <1>2, <1>3, <1>4 DEF FrameInv
<1> QED BY <1>5 DEF f

LEMMA FramesStep ==
  ASSUME IInv, Stable, NEW t \in Threads, NEW f \in Frames, Go(t, f),
         FrameInv(f, born', python', wraps')
  PROVE  /\ pc' \in [Threads -> Frames]
         /\ \A u \in Threads : FrameInv(pc[u], born, python, wraps)'
<1>1. pc' \in [Threads -> Frames] /\ pc'[t] = f /\ \A u \in Threads \ {t} : pc'[u] = pc[u]
  BY DEF Go, IInv, TypeOK
<1>2. ASSUME NEW u \in Threads PROVE FrameInv(pc'[u], born', python', wraps')
  BY <1>1, FrameKept
<1> QED BY <1>1, <1>2

-----------------------------------------------------------------------------
(* Counts of a step *)

LEMMA PlusFacts ==
  ASSUME NEW f \in [Objects -> Nat], NEW x \in Objects, NEW k \in Int
  PROVE  /\ Plus(f, x, k) \in [Objects -> Nat]
         /\ \A o \in Objects : o # x => Plus(f, x, k)[o] = f[o]
         /\ f[x] > 0 \/ x \notin born
              => Plus(f, x, k)[x] = IF f[x] + k > 0 THEN f[x] + k ELSE 0
         /\ ~(f[x] > 0 \/ x \notin born) => Plus(f, x, k)[x] = 0
BY DEF Plus

LEMMA PlusAt ==
  ASSUME NEW f \in [Objects -> Nat], NEW x \in Objects, NEW k \in Int, NEW o \in Objects
  PROVE  Plus(f, x, k)[o] = IF o # x THEN f[o]
                            ELSE IF f[o] + k > 0 /\ (f[o] > 0 \/ o \notin born)
                                 THEN f[o] + k ELSE 0
BY DEF Plus

LEMMA CountFacts ==
  ASSUME NEW f \in [Objects -> Nat], NEW x \in Objects, NEW k \in Int, f[x] + k >= 0
  PROVE  /\ Count(f, x, k) \in [Objects -> Nat]
         /\ Count(f, x, k)[x] = f[x] + k
         /\ \A o \in Objects : o # x => Count(f, x, k)[o] = f[o]
BY DEF Count

LEMMA BalancedPlus ==
  ASSUME TypeOK, NEW x \in Objects, NEW k \in Int, refcnt' = Plus(refcnt, x, k),
         NEW o \in Objects, k >= 0 \/ x \in born, stolen'[o] >= stolen[o],
         Due(python', wraps', pc', stolen', lost', o)
           = Due(python, wraps, pc, stolen, lost, o) + (IF o = x THEN k ELSE 0),
         KeepsReceivers /\ ~Live(o) /\ Counted(python, wraps, pc, o) = 0
           => Counted(python', wraps', pc', o) = 0
  PROVE  \E d \in Int : Balanced(o, d)
<1>1. refcnt \in [Objects -> Nat] /\ refcnt[o] \in Nat
  BY DEF TypeOK
<1>2. CASE o = x
  <2>1. Balanced(o, k)
    BY <1>1, <1>2, PlusFacts DEF Balanced, Live
  <2> QED BY <2>1
<1>3. CASE o # x
  <2>1. refcnt'[o] = refcnt[o]
    BY <1>1, <1>3, PlusFacts
  <2>2. Balanced(o, 0)
    <3>1. Due(python', wraps', pc', stolen', lost', o)
            = Due(python, wraps, pc, stolen, lost, o) + 0
      BY <1>3
    <3> QED BY <1>1, <2>1, <3>1 DEF Balanced, Live
  <2> QED BY <2>2
<1> QED BY <1>2, <1>3

\* Owners after a step of a thread, of an instance, of both, or of Python code alone.
LEMMA OwnersStep ==
  ASSUME TypeOK, python' \in [Objects -> Nat], NEW o \in Objects
  PROVE  LET n == Counted(python, wraps, pc, o) + python'[o] - python[o] IN
         /\ pc' = pc /\ wraps' = wraps => Counted(python', wraps', pc', o) = n
         /\ \A t \in Threads, f \in Frames : Go(t, f) /\ wraps' = wraps =>
              Counted(python', wraps', pc', o) = n + (Weight(f, o) - Weight(pc[t], o))
         /\ \A w \in Wrappers, q \in Pointers : pc' = pc /\ wraps' = [wraps EXCEPT ![w] = q] =>
              Counted(python', wraps', pc', o) = n + (Only(q, o, 1) - Only(wraps[w], o, 1))
         /\ \A t \in Threads, f \in Frames, w \in Wrappers, q \in Pointers :
              Go(t, f) /\ wraps' = [wraps EXCEPT ![w] = q] =>
              Counted(python', wraps', pc', o)
                = n + (Weight(f, o) - Weight(pc[t], o)) + (Only(q, o, 1) - Only(wraps[w], o, 1))
<1> DEFINE H(p) == PassedIn(p, o) + ReturnedIn(p, o, 1) + ReturnedIn(p, o, 2)
           n == Counted(python, wraps, pc, o) + python'[o] - python[o]
<1>1. /\ python[o] \in Nat /\ python'[o] \in Nat
      /\ wraps \in [Wrappers -> Pointers] /\ pc \in [Threads -> Frames]
  BY DEF TypeOK
<1>2. ASSUME NEW p \in [Threads -> Frames], NEW ws \in [Wrappers -> Pointers],
             NEW py \in [Objects -> Nat]
      PROVE  /\ Counted(py, ws, p, o) = py[o] + Wrapped(ws, o) + H(p)
             /\ H(p) \in Nat /\ Wrapped(ws, o) \in Nat
  BY CountedFacts DEF Counted
<1>3. ASSUME NEW t \in Threads, NEW f \in Frames, Go(t, f)
      PROVE  /\ pc' \in [Threads -> Frames] /\ H(pc') = H(pc) + Weight(f, o) - Weight(pc[t], o)
             /\ Weight(f, o) \in Nat /\ Weight(pc[t], o) \in Nat
  <2>1. pc' \in [Threads -> Frames] /\ H(pc') = H(pc) + Weight(f, o) - Weight(pc[t], o)
    BY <1>1, <1>3, HandedStep DEF Go
  <2>2. f.owned \in 0..2 /\ pc[t].owned \in 0..2
    BY <1>1 DEF Frames
  <2> QED BY <2>1, <2>2 DEF Weight
<1>4. ASSUME NEW w \in Wrappers, NEW q \in Pointers, wraps' = [wraps EXCEPT ![w] = q]
      PROVE  /\ wraps' \in [Wrappers -> Pointers]
             /\ \E k \in Int : k = Only(q, o, 1) - Only(wraps[w], o, 1)
                               /\ Wrapped(wraps', o) = Wrapped(wraps, o) + k
  <2>1. /\ wraps' \in [Wrappers -> Pointers]
        /\ Wrapped(wraps', o) = Wrapped(wraps, o) + (Only(q, o, 1) - Only(wraps[w], o, 1))
    BY <1>1, <1>4, WrappedStep
  <2>2. Only(q, o, 1) - Only(wraps[w], o, 1) \in Int
    BY DEF Only
  <2> QED BY <2>1, <2>2
<1> HIDE DEF H
<1>5. Counted(python, wraps, pc, o) = python[o] + Wrapped(wraps, o) + H(pc)
      /\ H(pc) \in Nat /\ Wrapped(wraps, o) \in Nat
  BY <1>1, <1>2 DEF TypeOK
<1>6. ASSUME pc' \in [Threads -> Frames], wraps' \in [Wrappers -> Pointers],
             NEW dw \in Int, NEW dh \in Int,
             Wrapped(wraps', o) = Wrapped(wraps, o) + dw, H(pc') = H(pc) + dh
      PROVE  Counted(python', wraps', pc', o) = n + dh + dw
  <2>1. Counted(python', wraps', pc', o) = python'[o] + Wrapped(wraps', o) + H(pc')
    BY <1>2, <1>6
  <2> QED BY <2>1, <1>1, <1>5, <1>6
<1>7. ASSUME pc' = pc, wraps' = wraps
      PROVE  Counted(python', wraps', pc', o) = n
  <2>1. Counted(python', wraps', pc', o) = n + 0 + 0
    <3>1. Wrapped(wraps', o) = Wrapped(wraps, o) + 0 /\ H(pc') = H(pc) + 0
      BY <1>5, <1>7
    <3> QED BY <3>1, <1>1, <1>6, <1>7
  <2> HIDE DEF n
  <2>2. n \in Int
    BY <1>1, <1>5 DEF n
  <2> QED BY <2>1, <2>2
<1>8. ASSUME NEW t \in Threads, NEW f \in Frames, Go(t, f), wraps' = wraps
      PROVE  Counted(python', wraps', pc', o) = n + (Weight(f, o) - Weight(pc[t], o))
  <2>1. /\ Wrapped(wraps', o) = Wrapped(wraps, o) + 0
        /\ H(pc') = H(pc) + (Weight(f, o) - Weight(pc[t], o))
    BY <1>3, <1>5, <1>8
  <2>2. Counted(python', wraps', pc', o) = n + (Weight(f, o) - Weight(pc[t], o)) + 0
    BY <2>1, <1>1, <1>3, <1>6, <1>8
  <2> QED BY <2>2, <1>1, <1>3, <1>5, <1>8
<1>9. ASSUME NEW w \in Wrappers, NEW q \in Pointers, pc' = pc, wraps' = [wraps EXCEPT ![w] = q]
      PROVE  Counted(python', wraps', pc', o) = n + (Only(q, o, 1) - Only(wraps[w], o, 1))
  <2>1. PICK k \in Int : k = Only(q, o, 1) - Only(wraps[w], o, 1)
                         /\ Wrapped(wraps', o) = Wrapped(wraps, o) + k
    BY <1>4, <1>9
  <2>2. H(pc') = H(pc) + 0
    BY <1>5, <1>9
  <2>3. Counted(python', wraps', pc', o) = n + 0 + k
    <3>1. wraps' \in [Wrappers -> Pointers] /\ pc' \in [Threads -> Frames]
      BY <1>1, <1>4, <1>9
    <3> QED BY <2>1, <2>2, <3>1, <1>6
  <2> QED BY <2>1, <2>3, <1>1, <1>5
<1>10. ASSUME NEW t \in Threads, NEW f \in Frames, NEW w \in Wrappers, NEW q \in Pointers,
              Go(t, f), wraps' = [wraps EXCEPT ![w] = q]
       PROVE  Counted(python', wraps', pc', o)
                = n + (Weight(f, o) - Weight(pc[t], o)) + (Only(q, o, 1) - Only(wraps[w], o, 1))
  <2>1. PICK k \in Int : k = Only(q, o, 1) - Only(wraps[w], o, 1)
                         /\ Wrapped(wraps', o) = Wrapped(wraps, o) + k
    BY <1>4, <1>10
  <2>2. H(pc') = H(pc) + (Weight(f, o) - Weight(pc[t], o))
    BY <1>3, <1>5, <1>10
  <2>3. Counted(python', wraps', pc', o) = n + (Weight(f, o) - Weight(pc[t], o)) + k
    <3>1. /\ wraps' \in [Wrappers -> Pointers] /\ pc' \in [Threads -> Frames]
          /\ Weight(f, o) - Weight(pc[t], o) \in Int
      BY <1>1, <1>3, <1>4, <1>10
    <3> QED BY <2>1, <2>2, <3>1, <1>6
  <2> QED BY <2>1, <2>3
<1> QED BY <1>7, <1>8, <1>9, <1>10

LEMMA OwnersOfThread ==
  ASSUME IInv, python' \in [Objects -> Nat], NEW o \in Objects,
         NEW t \in Threads, NEW f \in Frames, Go(t, f), wraps' = wraps
  PROVE  Counted(python', wraps', pc', o)
           = Counted(python, wraps, pc, o) + python'[o] - python[o]
               + (Weight(f, o) - Weight(pc[t], o))
BY OwnersStep DEF IInv

LEMMA OwnersOfInstance ==
  ASSUME IInv, python' \in [Objects -> Nat], NEW o \in Objects,
         NEW w \in Wrappers, NEW q \in Pointers, pc' = pc, wraps' = [wraps EXCEPT ![w] = q]
  PROVE  Counted(python', wraps', pc', o)
           = Counted(python, wraps, pc, o) + python'[o] - python[o]
               + (Only(q, o, 1) - Only(wraps[w], o, 1))
BY OwnersStep DEF IInv

LEMMA OwnersOfBoth ==
  ASSUME IInv, python' \in [Objects -> Nat], NEW o \in Objects,
         NEW t \in Threads, NEW f \in Frames, Go(t, f),
         NEW w \in Wrappers, NEW q \in Pointers, wraps' = [wraps EXCEPT ![w] = q]
  PROVE  Counted(python', wraps', pc', o)
           = Counted(python, wraps, pc, o) + python'[o] - python[o]
               + (Weight(f, o) - Weight(pc[t], o)) + (Only(q, o, 1) - Only(wraps[w], o, 1))
BY OwnersStep DEF IInv

LEMMA OwnersOfNeither ==
  ASSUME IInv, python' \in [Objects -> Nat], NEW o \in Objects, pc' = pc, wraps' = wraps
  PROVE  Counted(python', wraps', pc', o)
           = Counted(python, wraps, pc, o) + python'[o] - python[o]
BY OwnersStep DEF IInv


-----------------------------------------------------------------------------
(* Actions *)

\* TypeOK without the variables that each action changes in the same way.
CountsOK ==
  /\ refcnt \in [Objects -> Nat] /\ born \subseteq Objects /\ python \in [Objects -> Nat]
  /\ wraps \in [Wrappers -> Pointers]
  /\ stolen \in [Objects -> Nat] /\ lost \in [Objects -> Nat]

LEMMA UseFacts ==
  ASSUME NEW S, Use(S), CountsOK', born \subseteq born', pc' \in [Threads -> Frames]
  PROVE  TypeOK'
BY DEF Use, CountsOK, TypeOK

LEMMA ThreadStep ==
  ASSUME IInv, CountsOK', KnowsBorn', Stable, NEW t \in Threads, NEW f \in Frames, Go(t, f),
         FrameInv(f, born', python', wraps'),
         \A o \in Objects : \E d \in Int : Balanced(o, d),
         NEW S, Use(S),
         KeepsReceivers => \A o \in S \cap born : Counted(python, wraps, pc, o) > 0
  PROVE  IInv'
<1>1. /\ pc' \in [Threads -> Frames]
      /\ \A u \in Threads : FrameInv(pc[u], born, python, wraps)'
  BY FramesStep
<1>2. TypeOK' /\ born \subseteq born'
  BY <1>1, UseFacts DEF Stable
<1> QED BY <1>1, <1>2, BalancedStep

LEMMA OtherStep ==
  ASSUME IInv, CountsOK', KnowsBorn', Stable, pc' = pc,
         \A o \in Objects : \E d \in Int : Balanced(o, d),
         NEW S, Use(S),
         KeepsReceivers => \A o \in S \cap born : Counted(python, wraps, pc, o) > 0
  PROVE  IInv'
<1>1. \A u \in Threads : FrameInv(pc[u], born, python, wraps)'
  BY FrameKept
<1>2. TypeOK' /\ born \subseteq born'
  BY UseFacts DEF Stable, IInv, TypeOK
<1> QED BY <1>1, <1>2, BalancedStep

LEMMA IdleFacts ==
  /\ Idle \in Frames /\ Idle.at = "java" /\ Idle.result = NoObject /\ Idle.owned = 0
  /\ Idle.self = NoObject
  /\ \A o \in Objects : Weight(Idle, o) = 0
  /\ \A b, py, ws : FrameInv(Idle, b, py, ws)
<1>1. /\ Idle \in Frames /\ Idle.at = "java" /\ Idle.result = NoObject /\ Idle.owned = 0
      /\ Idle.self = NoObject
  BY DEF Idle, Frames, Pointers, Instances
<1>2. \A o \in Objects : Weight(Idle, o) = 0
  BY <1>1, ReferencesAssumption DEF Weight
<1>3. \A b, py, ws : FrameInv(Idle, b, py, ws)
  BY <1>1 DEF FrameInv
<1> QED BY <1>1, <1>2, <1>3

LEMMA WrappingFacts ==
  ASSUME TypeOK, NEW t \in Threads, NEW x \in Objects, NEW k \in 0..2
  PROVE  /\ Wrapping(t, x, k) \in Frames
         /\ \A o \in Objects : Weight(Wrapping(t, x, k), o) = IF o = x THEN k ELSE 0
         /\ \A b, py, ws : x \in b /\ (KeepsReceivers /\ k = 0 => py[x] > 0)
                             => FrameInv(Wrapping(t, x, k), b, py, ws)
<1> DEFINE f == Wrapping(t, x, k)
<1>1. pc[t].by \in Instances
  BY DEF TypeOK, Frames
<1>2. /\ f \in Frames /\ f.at = "wrapping" /\ f.result = x /\ f.owned = k
  BY <1>1 DEF Wrapping, Idle, Frames, Pointers, Instances
<1> HIDE DEF f
<1>3. \A o \in Objects : Weight(f, o) = IF o = x THEN k ELSE 0
  BY <1>2 DEF Weight
<1>4. \A b, py, ws : x \in b /\ (KeepsReceivers /\ k = 0 => py[x] > 0) => FrameInv(f, b, py, ws)
  BY <1>2 DEF FrameInv
<1> QED BY <1>2, <1>3, <1>4 DEF f

\* What a native method has in its hands and can use.
LEMMA ThreadFacts ==
  ASSUME IInv, NEW t \in Threads
  PROVE  /\ pc[t] \in Frames
         /\ pc[t].at \in {"java", "entered"} => \A o \in Objects : Weight(pc[t], o) = 0
         /\ pc[t].at = "running" =>
              /\ pc[t].arg \in born
              /\ \A o \in Objects : Weight(pc[t], o) = IF o = pc[t].arg THEN 1 ELSE 0
         /\ pc[t].at = "wrapping" =>
              \A o \in Objects : Weight(pc[t], o) = IF o = pc[t].result THEN pc[t].owned ELSE 0
         /\ KeepsReceivers /\ (pc[t].at = "entered" \/ pc[t] = Idle) =>
              \A o \in {pc[t].self} \cap born : Counted(python, wraps, pc, o) > 0
         /\ pc[t].at \in {"entered", "running"} /\ pc[t].op \in WithArgument =>
              pc[t].arg \in born /\ Counted(python, wraps, pc, pc[t].arg) > 0
<1> DEFINE f == pc[t]
<1>1. /\ f \in Frames /\ FrameInv(f, born, python, wraps) /\ born \subseteq Objects
      /\ python \in [Objects -> Nat] /\ wraps \in [Wrappers -> Pointers]
      /\ pc \in [Threads -> Frames]
  BY DEF IInv, TypeOK
<1>2. f.at \in {"java", "entered"} => \A o \in Objects : Weight(f, o) = 0
  <2>1. f.at \in {"java", "entered"} => f.result = NoObject
    BY <1>1 DEF FrameInv
  <2> HIDE DEF f
  <2> QED BY <2>1, ReferencesAssumption DEF Weight
<1>3. f.at = "running" =>
        f.arg \in born /\ \A o \in Objects : Weight(f, o) = IF o = f.arg THEN 1 ELSE 0
  <2>1. f.at = "running" => f.result = NoObject /\ f.arg \in born
    BY <1>1 DEF FrameInv, WithArgument
  <2> HIDE DEF f
  <2> QED BY <2>1, ReferencesAssumption DEF Weight
<1>4. f.at = "wrapping" =>
        \A o \in Objects : Weight(f, o) = IF o = f.result THEN f.owned ELSE 0
  <2>1. f.owned \in 0..2
    BY <1>1 DEF Frames
  <2> HIDE DEF f
  <2> QED BY <2>1 DEF Weight
<1>5. ASSUME KeepsReceivers, f.at = "entered" \/ f = Idle, NEW o \in {f.self} \cap born
      PROVE  Counted(python, wraps, pc, o) > 0
  <2>1. f.at = "entered"
    BY <1>1, <1>5, IdleFacts, ReferencesAssumption
  <2>2. f.by \in Wrappers /\ wraps[f.by] = o /\ o \in Objects
    BY <1>1, <1>5, <2>1 DEF FrameInv
  <2> QED BY <1>1, <2>2, CountedFacts
<1>6. ASSUME f.at \in {"entered", "running"}, f.op \in WithArgument
      PROVE  f.arg \in born /\ Counted(python, wraps, pc, f.arg) > 0
  <2>1. f.with \in Wrappers /\ wraps[f.with] = f.arg /\ f.arg \in born /\ f.arg \in Objects
    BY <1>1, <1>6 DEF FrameInv
  <2> QED BY <1>1, <2>1, CountedFacts
<1> QED BY <1>1, <1>2, <1>3, <1>4, <1>5, <1>6

LEMMA ReachedFacts ==
  ASSUME IInv, NEW x \in Objects, x \in Reached
  PROVE  x \in born /\ Counted(python, wraps, pc, x) > 0
<1>1. /\ python \in [Objects -> Nat] /\ wraps \in [Wrappers -> Pointers]
      /\ pc \in [Threads -> Frames]
  BY DEF IInv, TypeOK
<1>2. ASSUME NEW t \in Threads, pc[t].at = "running", pc[t].arg = x
      PROVE  Counted(python, wraps, pc, x) > 0
  <2>1. Weight(pc[t], x) > 0
    BY <1>2, ThreadFacts
  <2> QED BY <1>1, <2>1, CountedFacts
<1>3. python[x] > 0 => Counted(python, wraps, pc, x) > 0
  BY <1>1, CountedFacts
<1> QED BY <1>2, <1>3 DEF Reached

LEMMA KnownFacts ==
  ASSUME IInv, NEW x \in Objects, Known(x)
  PROVE  Live(x) \/ Counted(python, wraps, pc, x) > 0
BY ReachedFacts DEF Known, Unborn, Live

\* A step in which an object x gets k references and c owners, while s references to it
\* are stolen and l are lost; nothing happens to the other objects.
Changes(x, k, c, s, l) ==
  /\ refcnt' = Plus(refcnt, x, k)
  /\ c + l = k + s
  /\ \A o \in Objects :
       /\ Counted(python', wraps', pc', o) = Counted(python, wraps, pc, o) + Only(x, o, c)
       /\ stolen'[o] = stolen[o] + Only(x, o, s)
       /\ lost'[o] = lost[o] + Only(x, o, l)

LEMMA ChangesStep ==
  ASSUME IInv, CountsOK', pc' \in [Threads -> Frames],
         NEW x \in Objects, NEW k \in Int, NEW c \in Int, NEW s \in Nat, NEW l \in Int,
         Changes(x, k, c, s, l), k >= 0 \/ x \in born,
         c <= 0 \/ Live(x) \/ (KeepsReceivers => Counted(python, wraps, pc, x) > 0)
  PROVE  \A o \in Objects : \E d \in Int : Balanced(o, d)
<1>1. ASSUME NEW o \in Objects PROVE \E d \in Int : Balanced(o, d)
  <2>1. /\ stolen[o] \in Nat /\ stolen'[o] \in Nat /\ lost[o] \in Nat /\ lost'[o] \in Nat
        /\ Counted(python, wraps, pc, o) \in Nat /\ Counted(python', wraps', pc', o) \in Nat
    BY CountedFacts DEF IInv, TypeOK, CountsOK
  <2>2. CASE o = x
    <3> USE DEF Only
    <3>1. stolen'[o] >= stolen[o]
      BY <2>1, <2>2 DEF Changes
    <3>2. Due(python', wraps', pc', stolen', lost', o)
            = Due(python, wraps, pc, stolen, lost, o) + k
      BY <2>1, <2>2 DEF Due, Changes
    <3>3. KeepsReceivers /\ ~Live(o) /\ Counted(python, wraps, pc, o) = 0
            => Counted(python', wraps', pc', o) = 0
      BY <2>1, <2>2 DEF Changes
    <3> QED BY <2>2, <3>1, <3>2, <3>3, BalancedPlus DEF IInv, Changes
  <2>3. CASE o # x
    <3>1. /\ Counted(python', wraps', pc', o) = Counted(python, wraps, pc, o)
          /\ stolen'[o] = stolen[o] /\ lost'[o] = lost[o]
      BY <2>1, <2>3 DEF Changes, Only
    <3>2. Due(python', wraps', pc', stolen', lost', o)
            = Due(python, wraps, pc, stolen, lost, o) + 0
      BY <2>1, <3>1 DEF Due
    <3> QED BY <2>1, <2>3, <3>1, <3>2, BalancedPlus DEF IInv, Changes
  <2> QED BY <2>2, <2>3
<1> QED BY <1>1

LEMMA PlusType ==
  ASSUME IInv, NEW x \in Objects, NEW k \in Int
  PROVE  Plus(refcnt, x, k) \in [Objects -> Nat]
BY PlusFacts DEF IInv, TypeOK

LEMMA NumberFacts ==
  ASSUME IInv, NEW o \in Objects
  PROVE  /\ refcnt[o] \in Nat /\ stolen[o] \in Nat /\ lost[o] \in Nat /\ python[o] \in Nat
         /\ Counted(python, wraps, pc, o) \in Nat
         /\ Counted(python, wraps, pc, o) + python[o] - python[o] = Counted(python, wraps, pc, o)
BY CountedFacts DEF IInv, TypeOK

\* A thread goes on without any references.
LEMMA QuietStep ==
  ASSUME IInv, NEW t \in Threads, NEW f \in Frames, Go(t, f),
         FrameInv(f, born, python, wraps),
         \A o \in Objects : Weight(f, o) = Weight(pc[t], o),
         UNCHANGED <<refcnt, born, python, wraps, stolen, lost>>,
         NEW S, Use(S),
         KeepsReceivers => \A o \in S \cap born : Counted(python, wraps, pc, o) > 0
  PROVE  IInv'
<1>1. CountsOK' /\ KnowsBorn' /\ Stable /\ FrameInv(f, born', python', wraps')
  BY DEF IInv, TypeOK, CountsOK, KnowsBorn, Stable
<1>2. ASSUME NEW o \in Objects PROVE Balanced(o, 0)
  <2>1. /\ refcnt[o] \in Nat /\ stolen[o] \in Nat /\ lost[o] \in Nat
        /\ Counted(python, wraps, pc, o) \in Nat /\ python[o] \in Nat
    BY CountedFacts DEF IInv, TypeOK
  <2>2. Weight(f, o) - Weight(pc[t], o) = 0
    <3>1. pc[t] \in Frames
      BY DEF IInv, TypeOK
    <3>2. pc[t].owned \in 0..2
      BY <3>1 DEF Frames
    <3>3. Weight(pc[t], o) \in Int
      BY <3>2 DEF Weight
    <3> QED BY <3>3
  <2>3. Counted(python', wraps', pc', o) = Counted(python, wraps, pc, o)
    <3>1. Counted(python', wraps', pc', o)
            = Counted(python, wraps, pc, o) + python'[o] - python[o] + 0
      BY <2>2, OwnersStep DEF IInv, TypeOK
    <3> QED BY <2>1, <3>1
  <2>4. Due(python', wraps', pc', stolen', lost', o)
          = Due(python, wraps, pc, stolen, lost, o) + 0
    BY <2>1, <2>3 DEF Due
  <2> QED BY <2>1, <2>3, <2>4 DEF Balanced, Live
<1> QED BY <1>1, <1>2, ThreadStep

LEMMA EnterIInv ==
  ASSUME IInv, NEW t \in Threads, NEW op \in WithReceiver, NEW w \in Wrappers,
         NEW x \in Instances, Enter(t, op, w, x)
  PROVE  IInv'
<1> DEFINE f == [Idle EXCEPT !.at = "entered", !.op = op, !.by = w, !.with = x,
                   !.self = wraps[w],
                   !.arg = IF x = NoWrapper THEN NoObject ELSE wraps[x]]
<1>1. /\ wraps[w] \in born /\ wraps[w] \in Pointers
      /\ op \in WithArgument => x \in Wrappers /\ wraps[x] \in born
      /\ x # NoWrapper => x \in Wrappers /\ wraps[x] \in Pointers
      /\ op \in AllOperations
  BY DEF Enter, Unused, IInv, KnowsBorn, TypeOK, Instances, AllOperations
<1>2. f \in Frames /\ f.at = "entered" /\ f.result = NoObject
  <2> DEFINE a == IF x = NoWrapper THEN NoObject ELSE wraps[x]
  <2>1. a \in Pointers /\ w \in Instances
    BY <1>1 DEF Pointers, Instances
  <2> HIDE DEF a
  <2>2. [Idle EXCEPT !.at = "entered", !.op = op, !.by = w, !.with = x, !.self = wraps[w],
                     !.arg = a]
          \in Frames
    BY <1>1, <2>1, IdleFacts DEF Frames
  <2> QED BY <2>2 DEF Idle, a
<1>3. FrameInv(f, born, python, wraps)
  <2>1. /\ f.at = "entered" /\ f.result = NoObject /\ f.owned = 0 /\ f.self = wraps[w]
        /\ f.by = w /\ f.op = op /\ f.with = x
        /\ x # NoWrapper => f.arg = wraps[x]
    BY DEF Idle
  <2> HIDE DEF f
  <2> QED BY <1>1, <2>1, ReferencesAssumption DEF FrameInv
<1>4. \A o \in Objects : Weight(f, o) = Weight(pc[t], o)
  <2>1. pc[t].at = "java"
    BY IdleFacts DEF Enter
  <2>2. \A o \in Objects : Weight(pc[t], o) = 0
    BY <2>1, ThreadFacts
  <2> HIDE DEF f
  <2> QED BY <1>2, <2>2, ReferencesAssumption DEF Weight
<1>5. Go(t, f) /\ Use({}) /\ UNCHANGED <<refcnt, born, python, wraps, stolen, lost>>
  BY DEF Enter
<1> HIDE DEF f
<1> QED BY <1>2, <1>3, <1>4, <1>5, QuietStep

LEMMA FailIInv ==
  ASSUME IInv, NEW t \in Threads, Fail(t)
  PROVE  IInv'
<1>1. \A o \in Objects : Weight(Idle, o) = Weight(pc[t], o)
  BY IdleFacts, ThreadFacts DEF Fail
<1>2. KeepsReceivers => \A o \in {pc[t].self} \cap born : Counted(python, wraps, pc, o) > 0
  BY ThreadFacts DEF Fail
<1>3. Go(t, Idle) /\ Use({pc[t].self}) /\ UNCHANGED <<refcnt, born, python, wraps, stolen, lost>>
  BY DEF Fail, Leave
<1> QED BY <1>1, <1>2, <1>3, IdleFacts, QuietStep

LEMMA GetTypeIInv ==
  ASSUME IInv, NEW t \in Threads, NEW x \in Objects, GetType(t, x)
  PROVE  IInv'
<1> DEFINE f == Wrapping(t, x, 0)
<1>1. TypeOK /\ x \in born /\ python[x] > 0
  BY DEF GetType, IInv, KnowsBorn, TypeOK
<1>2. /\ f \in Frames /\ FrameInv(f, born, python, wraps)
      /\ \A o \in Objects : Weight(f, o) = 0
  BY <1>1, WrappingFacts
<1>3. pc[t].at = "entered" /\ Go(t, f) /\ Use({pc[t].self})
      /\ UNCHANGED <<refcnt, born, python, wraps, stolen, lost>>
  BY DEF GetType, Entered
<1> HIDE DEF f
<1>4. /\ \A o \in Objects : Weight(f, o) = Weight(pc[t], o)
      /\ KeepsReceivers => \A o \in {pc[t].self} \cap born : Counted(python, wraps, pc, o) > 0
  BY <1>2, <1>3, ThreadFacts
<1> QED BY <1>2, <1>3, <1>4, QuietStep

LEMMA RaiseIInv ==
  ASSUME IInv, NEW t \in Threads, Raise(t)
  PROVE  IInv'
<1> DEFINE x == pc[t].arg
<1>1. /\ pc[t].at = "running" /\ x \in born /\ x \in Objects
      /\ Counted(python, wraps, pc, x) > 0
      /\ \A o \in Objects : Weight(pc[t], o) = IF o = x THEN 1 ELSE 0
  <2>1. pc[t].at = "running" /\ pc[t].op \in WithArgument /\ born \subseteq Objects
    BY DEF Raise, IInv, FrameInv, WithArgument, TypeOK
  <2> QED BY <2>1, ThreadFacts
<1> HIDE DEF x
<1>2. /\ refcnt' = Plus(refcnt, x, -1) /\ Use({x}) /\ Go(t, Idle)
      /\ UNCHANGED <<born, python, wraps, stolen, lost>>
  BY DEF Raise, Leave, x
<1>3. CountsOK' /\ KnowsBorn' /\ Stable /\ pc' \in [Threads -> Frames]
  <2>1. refcnt' \in [Objects -> Nat]
    <3>1. refcnt \in [Objects -> Nat] /\ -1 \in Int
      BY DEF IInv, TypeOK
    <3> QED BY <1>1, <1>2, <3>1, PlusFacts
  <2>2. pc' \in [Threads -> Frames]
    BY <1>2, IdleFacts DEF Go, IInv, TypeOK
  <2> QED BY <1>2, <2>1, <2>2 DEF IInv, TypeOK, CountsOK, KnowsBorn, Stable
<1>4. Changes(x, -1, -1, 0, 0)
  <2>1. ASSUME NEW o \in Objects
        PROVE  /\ Counted(python', wraps', pc', o)
                    = Counted(python, wraps, pc, o) + Only(x, o, -1)
               /\ stolen'[o] = stolen[o] + Only(x, o, 0) /\ lost'[o] = lost[o] + Only(x, o, 0)
    <3>1. Counted(python', wraps', pc', o)
            = Counted(python, wraps, pc, o) + python'[o] - python[o]
                + (Weight(Idle, o) - Weight(pc[t], o))
      BY <1>2, <1>3, OwnersOfThread, IdleFacts DEF CountsOK
    <3>2. Weight(Idle, o) = 0
      BY IdleFacts
    <3> QED BY <1>1, <1>2, <3>1, <3>2, NumberFacts DEF Only
  <2> QED BY <1>2, <2>1 DEF Changes
<1>5. \A o \in Objects : \E d \in Int : Balanced(o, d)
  BY <1>1, <1>3, <1>4, ChangesStep
<1> QED BY <1>1, <1>2, <1>3, <1>5, IdleFacts, ThreadStep

LEMMA ObtainFacts ==
  ASSUME IInv, NEW x \in Objects, NEW k \in Nat, Obtain(x, k)
  PROVE  /\ refcnt' \in [Objects -> Nat] /\ refcnt' = Plus(refcnt, x, k)
         /\ born \subseteq born' /\ born' \subseteq Objects /\ x \in born'
         /\ Live(x) \/ Counted(python, wraps, pc, x) > 0
<1>1. Live(x) \/ Counted(python, wraps, pc, x) > 0
  BY KnownFacts DEF Obtain
<1>2. refcnt \in [Objects -> Nat] /\ k \in Int
  BY DEF IInv, TypeOK
<1>3. refcnt' \in [Objects -> Nat]
  BY <1>2, PlusFacts DEF Obtain
<1> QED BY <1>1, <1>3 DEF Obtain, IInv, TypeOK

LEMMA ReturnNewIInv ==
  ASSUME IInv, NEW t \in Threads, NEW x \in Objects,
         pc[t].at = "entered" \/ pc[t] = Idle, ReturnNew(t, x)
  PROVE  IInv'
<1> DEFINE f == Wrapping(t, x, 1)
<1>1. /\ Obtain(x, 1) /\ Use({pc[t].self}) /\ Go(t, f) /\ UNCHANGED <<python, wraps, stolen, lost>>
  BY DEF ReturnNew
<1>2. /\ refcnt' \in [Objects -> Nat] /\ refcnt' = Plus(refcnt, x, 1)
      /\ born \subseteq born' /\ born' \subseteq Objects /\ x \in born'
      /\ Live(x) \/ Counted(python, wraps, pc, x) > 0
  BY <1>1, ObtainFacts
<1>3. /\ f \in Frames /\ FrameInv(f, born', python', wraps')
      /\ \A o \in Objects : Weight(f, o) = IF o = x THEN 1 ELSE 0
  BY <1>2, WrappingFacts DEF IInv
<1> HIDE DEF f
<1>4. CountsOK' /\ KnowsBorn' /\ Stable /\ pc' \in [Threads -> Frames]
  BY <1>1, <1>2, <1>3 DEF Go, IInv, TypeOK, CountsOK, KnowsBorn, Stable
<1>5. Changes(x, 1, 1, 0, 0)
  <2>1. ASSUME NEW o \in Objects
        PROVE  /\ Counted(python', wraps', pc', o)
                    = Counted(python, wraps, pc, o) + Only(x, o, 1)
               /\ stolen'[o] = stolen[o] + Only(x, o, 0) /\ lost'[o] = lost[o] + Only(x, o, 0)
    <3>1. Weight(pc[t], o) = 0
      BY ThreadFacts, IdleFacts
    <3>2. Counted(python', wraps', pc', o)
            = Counted(python, wraps, pc, o) + python'[o] - python[o]
                + (Weight(f, o) - Weight(pc[t], o))
      BY <1>1, <1>3, <1>4, OwnersOfThread DEF CountsOK
    <3> QED BY <1>1, <1>3, <3>1, <3>2, NumberFacts DEF Only
  <2> QED BY <1>2, <2>1 DEF Changes
<1>6. \A o \in Objects : \E d \in Int : Balanced(o, d)
  BY <1>2, <1>4, <1>5, ChangesStep
<1>7. KeepsReceivers => \A o \in {pc[t].self} \cap born : Counted(python, wraps, pc, o) > 0
  BY ThreadFacts
<1> QED BY <1>1, <1>3, <1>4, <1>6, <1>7, ThreadStep

LEMMA WrapIInv ==
  ASSUME IInv, NEW t \in Threads, NEW w \in Wrappers, Wrap(t, w)
  PROVE  IInv'
<1> DEFINE x == pc[t].result
           k == pc[t].owned
<1>1. /\ pc[t].at = "wrapping" /\ x \in born /\ x \in Objects /\ k \in 0..2
      /\ KeepsReceivers /\ k = 0 => python[x] > 0
      /\ \A o \in Objects : Weight(pc[t], o) = IF o = x THEN k ELSE 0
  <2>1. pc[t].at = "wrapping" /\ born \subseteq Objects /\ FrameInv(pc[t], born, python, wraps)
        /\ pc[t] \in Frames
    BY DEF Wrap, IInv, TypeOK
  <2>2. x \in born /\ k \in 0..2 /\ (KeepsReceivers /\ k = 0 => python[x] > 0)
    BY <2>1 DEF FrameInv, Frames
  <2> QED BY <2>1, <2>2, ThreadFacts
<1> HIDE DEF x, k
<1>2. /\ wraps[w] = NoObject /\ wraps' = [wraps EXCEPT ![w] = x] /\ refcnt' = Plus(refcnt, x, 1)
      /\ lost' = Count(lost, x, k) /\ Use({x}) /\ Go(t, Idle) /\ UNCHANGED <<born, python, stolen>>
  BY DEF Wrap, Leave, Unused, x, k
<1>3. /\ refcnt' \in [Objects -> Nat] /\ wraps' \in [Wrappers -> Pointers]
      /\ lost' \in [Objects -> Nat] /\ lost'[x] = lost[x] + k
      /\ \A o \in Objects : o # x => lost'[o] = lost[o]
  <2>1. refcnt \in [Objects -> Nat] /\ wraps \in [Wrappers -> Pointers] /\ lost \in [Objects -> Nat]
    BY DEF IInv, TypeOK
  <2>2. refcnt' \in [Objects -> Nat]
    BY <1>1, <1>2, PlusType
  <2>3. wraps' \in [Wrappers -> Pointers]
    BY <1>1, <1>2, <2>1 DEF Pointers
  <2>4. lost[x] \in Nat /\ k \in Int /\ lost[x] + k >= 0
    BY <1>1, <2>1
  <2> QED BY <1>1, <1>2, <2>1, <2>2, <2>3, <2>4, CountFacts
<1>4. CountsOK' /\ KnowsBorn' /\ Stable /\ pc' \in [Threads -> Frames]
  BY <1>1, <1>2, <1>3, IdleFacts DEF Go, IInv, TypeOK, CountsOK, KnowsBorn, Stable
<1>5. Changes(x, 1, 1 - k, 0, k)
  <2>1. ASSUME NEW o \in Objects
        PROVE  /\ Counted(python', wraps', pc', o)
                    = Counted(python, wraps, pc, o) + Only(x, o, 1 - k)
               /\ stolen'[o] = stolen[o] + Only(x, o, 0) /\ lost'[o] = lost[o] + Only(x, o, k)
    <3>1. Weight(Idle, o) = 0 /\ Weight(pc[t], o) = Only(x, o, k)
      BY <1>1, IdleFacts DEF Only
    <3>2. Only(x, o, 1) - Only(wraps[w], o, 1) = Only(x, o, 1)
      BY <1>2, ReferencesAssumption DEF Only
    <3>3. Counted(python', wraps', pc', o)
            = Counted(python, wraps, pc, o) + python'[o] - python[o]
                + (Weight(Idle, o) - Weight(pc[t], o)) + (Only(x, o, 1) - Only(wraps[w], o, 1))
      <4>1. x \in Pointers /\ Idle \in Frames /\ python' \in [Objects -> Nat]
        BY <1>1, <1>4, IdleFacts DEF Pointers, CountsOK
      <4> QED BY <1>2, <4>1, OwnersOfBoth
    <3>4. stolen'[o] = stolen[o] + Only(x, o, 0) /\ lost'[o] = lost[o] + Only(x, o, k)
      BY <1>1, <1>2, <1>3, NumberFacts DEF Only
    <3> QED BY <1>1, <1>2, <3>1, <3>2, <3>3, <3>4, NumberFacts DEF Only
  <2>2. (1 - k) + k = 1 + 0
    BY <1>1
  <2> QED BY <1>2, <2>1, <2>2 DEF Changes
<1>6. KeepsReceivers => Counted(python, wraps, pc, x) > 0
  <2>1. k > 0 => Weight(pc[t], x) > 0
    BY <1>1
  <2>2. /\ python \in [Objects -> Nat] /\ wraps \in [Wrappers -> Pointers]
        /\ pc \in [Threads -> Frames]
    BY DEF IInv, TypeOK
  <2>3. k > 0 => Counted(python, wraps, pc, x) > 0
    BY <1>1, <2>1, <2>2, CountedFacts
  <2>4. python[x] > 0 => Counted(python, wraps, pc, x) > 0
    BY <1>1, <2>2, CountedFacts
  <2> QED BY <1>1, <2>3, <2>4
<1>7. \A o \in Objects : \E d \in Int : Balanced(o, d)
  <2>1. (1 - k) \in Int /\ k \in Int
    BY <1>1
  <2> QED BY <1>1, <1>4, <1>5, <1>6, <2>1, ChangesStep
<1>8. KeepsReceivers => \A o \in {x} \cap born : Counted(python, wraps, pc, o) > 0
  BY <1>6
<1> QED BY <1>2, <1>4, <1>7, <1>8, IdleFacts, ThreadStep

LEMMA FinalizeIInv ==
  ASSUME IInv, NEW w \in Wrappers, Finalize(w)
  PROVE  IInv'
<1> DEFINE x == wraps[w]
<1>1. x \in born /\ x \in Objects
  BY DEF Finalize, Unused, IInv, KnowsBorn, TypeOK
<1>2. ~Held(w) /\ pc' = pc /\ Use({x}) /\ UNCHANGED <<born, python, stolen, lost>>
      /\ refcnt' = Plus(refcnt, x, -1) /\ wraps' = [wraps EXCEPT ![w] = NoObject]
  BY DEF Finalize
<1>3. Counted(python, wraps, pc, x) > 0
  BY <1>1, CountedFacts DEF IInv, TypeOK
<1> HIDE DEF x
<1>4. refcnt' \in [Objects -> Nat] /\ wraps' \in [Wrappers -> Pointers]
  <2>1. refcnt \in [Objects -> Nat] /\ -1 \in Int /\ wraps \in [Wrappers -> Pointers]
    BY DEF IInv, TypeOK
  <2>2. refcnt' \in [Objects -> Nat]
    BY <1>1, <1>2, PlusType
  <2> QED BY <1>2, <2>1, <2>2 DEF Pointers
<1>5. CountsOK' /\ KnowsBorn' /\ Stable /\ pc' \in [Threads -> Frames]
  BY <1>2, <1>4 DEF IInv, TypeOK, CountsOK, KnowsBorn, Stable
<1>6. Changes(x, -1, -1, 0, 0)
  <2>1. ASSUME NEW o \in Objects
        PROVE  /\ Counted(python', wraps', pc', o)
                    = Counted(python, wraps, pc, o) + Only(x, o, -1)
               /\ stolen'[o] = stolen[o] + Only(x, o, 0) /\ lost'[o] = lost[o] + Only(x, o, 0)
    <3>1. Only(NoObject, o, 1) - Only(wraps[w], o, 1) = Only(x, o, -1)
      BY ReferencesAssumption DEF Only, x
    <3>2. Counted(python', wraps', pc', o)
            = Counted(python, wraps, pc, o) + python'[o] - python[o]
                + (Only(NoObject, o, 1) - Only(wraps[w], o, 1))
      <4>1. NoObject \in Pointers
        BY DEF Pointers
      <4> QED BY <1>2, <1>5, <4>1, OwnersOfInstance DEF CountsOK
    <3> QED BY <1>2, <3>1, <3>2, NumberFacts DEF Only
  <2> QED BY <1>2, <2>1 DEF Changes
<1>7. \A o \in Objects : \E d \in Int : Balanced(o, d)
  BY <1>1, <1>5, <1>6, ChangesStep
<1> QED BY <1>2, <1>3, <1>5, <1>7, OtherStep

\* Nothing is counted.
LEMMA CountNothing ==
  ASSUME NEW f \in [Objects -> Nat], NEW x \in Objects
  PROVE  Plus(f, x, 0) = f
BY DEF Plus

LEMMA CountType ==
  ASSUME NEW f \in [Objects -> Nat], NEW x \in Objects, NEW k \in Nat
  PROVE  /\ Count(f, x, k) \in [Objects -> Nat]
         /\ \A o \in Objects : Count(f, x, k)[o] = f[o] + Only(x, o, k)
BY DEF Count, Only

LEMMA Types ==
  ASSUME IInv
  PROVE  /\ refcnt \in [Objects -> Nat] /\ python \in [Objects -> Nat]
         /\ stolen \in [Objects -> Nat] /\ lost \in [Objects -> Nat]
BY DEF IInv, TypeOK

LEMMA PythonGains ==
  ASSUME IInv, NEW x \in Objects, python' = Count(python, x, 1)
  PROVE  /\ python' \in [Objects -> Nat]
         /\ \A o \in Objects : python'[o] = python[o] + Only(x, o, 1) /\ python'[o] >= python[o]
<1>1. python \in [Objects -> Nat]
  BY Types
<1>2. Count(python, x, 1) \in [Objects -> Nat]
  BY <1>1, CountType
<1>3. \A o \in Objects : Count(python, x, 1)[o] = python[o] + Only(x, o, 1)
  BY <1>1, CountType
<1>4. \A o \in Objects : python[o] + Only(x, o, 1) >= python[o]
  BY <1>1 DEF Only
<1> QED BY <1>2, <1>3, <1>4

LEMMA LostGrows ==
  ASSUME IInv, NEW x \in Objects, NEW l \in Nat, lost' = Count(lost, x, l)
  PROVE  /\ lost' \in [Objects -> Nat]
         /\ \A o \in Objects : lost'[o] = lost[o] + Only(x, o, l)
<1>1. lost \in [Objects -> Nat]
  BY Types
<1>2. Count(lost, x, l) \in [Objects -> Nat]
  BY <1>1, CountType
<1>3. \A o \in Objects : Count(lost, x, l)[o] = lost[o] + Only(x, o, l)
  BY <1>1, CountType
<1> QED BY <1>2, <1>3

LEMMA StolenGrows ==
  ASSUME IInv, NEW x \in Objects, NEW l \in Nat, stolen' = Count(stolen, x, l)
  PROVE  /\ stolen' \in [Objects -> Nat]
         /\ \A o \in Objects : stolen'[o] = stolen[o] + Only(x, o, l)
<1>1. stolen \in [Objects -> Nat]
  BY Types
<1>2. Count(stolen, x, l) \in [Objects -> Nat]
  BY <1>1, CountType
<1>3. \A o \in Objects : Count(stolen, x, l)[o] = stolen[o] + Only(x, o, l)
  BY <1>1, CountType
<1> QED BY <1>2, <1>3

\* New or known references of an object go to an instance of PyObject, for which l of
\* them are lost.
LEMMA WrapObtained ==
  ASSUME IInv, NEW x \in Objects, NEW k \in Nat, NEW l \in Nat, NEW w \in Unused,
         Obtain(x, k), wraps' = [wraps EXCEPT ![w] = x], lost' = Count(lost, x, l),
         UNCHANGED <<python, stolen>>
  PROVE  CountsOK' /\ KnowsBorn' /\ Stable
<1>1. /\ refcnt' \in [Objects -> Nat]
      /\ born \subseteq born' /\ born' \subseteq Objects /\ x \in born'
  BY ObtainFacts
<1>2. lost' \in [Objects -> Nat] /\ wraps' \in [Wrappers -> Pointers] /\ wraps[w] = NoObject
  <2>1. lost \in [Objects -> Nat] /\ wraps \in [Wrappers -> Pointers]
    BY DEF IInv, TypeOK
  <2>2. lost' \in [Objects -> Nat]
    BY LostGrows
  <2> QED BY <2>1, <2>2 DEF Unused, Pointers
<1>3. w \in Wrappers
  BY DEF Unused
<1>4. CountsOK'
  BY <1>1, <1>2 DEF IInv, TypeOK, CountsOK
<1>5. KnowsBorn'
  BY <1>1, <1>3 DEF IInv, TypeOK, KnowsBorn
<1>6. Stable
  BY <1>1, <1>2, <1>3 DEF IInv, TypeOK, Stable
<1> QED BY <1>4, <1>5, <1>6

LEMMA NewDictIInv ==
  ASSUME IInv, NEW t \in Threads, NEW x \in Objects, NewDict(t, x)
  PROVE  IInv'
<1>1. PICK w \in Unused : wraps' = [wraps EXCEPT ![w] = x]
  BY DEF NewDict, MakeDict
<1>2. /\ Obtain(x, 2) /\ lost' = Count(lost, x, 1) /\ Use({}) /\ UNCHANGED <<python, pc, stolen>>
  BY DEF NewDict, MakeDict
<1>3. /\ refcnt' = Plus(refcnt, x, 2)
      /\ Live(x) \/ Counted(python, wraps, pc, x) > 0
  BY <1>2, ObtainFacts
<1>4. CountsOK' /\ KnowsBorn' /\ Stable /\ pc' \in [Threads -> Frames]
  BY <1>1, <1>2, WrapObtained DEF IInv, TypeOK
<1>5. Changes(x, 2, 1, 0, 1)
  <2>1. ASSUME NEW o \in Objects
        PROVE  /\ Counted(python', wraps', pc', o)
                    = Counted(python, wraps, pc, o) + Only(x, o, 1)
               /\ stolen'[o] = stolen[o] + Only(x, o, 0)
               /\ lost'[o] = lost[o] + Only(x, o, 1)
    <3>1. Only(x, o, 1) - Only(wraps[w], o, 1) = Only(x, o, 1)
      BY ReferencesAssumption DEF Only, Unused
    <3>2. Counted(python', wraps', pc', o)
            = Counted(python, wraps, pc, o) + python'[o] - python[o]
                + (Only(x, o, 1) - Only(wraps[w], o, 1))
      <4>1. x \in Pointers /\ w \in Wrappers
        BY DEF Pointers, Unused
      <4> QED BY <1>1, <1>2, <1>4, <4>1, OwnersOfInstance DEF CountsOK
    <3>3. lost'[o] = lost[o] + Only(x, o, 1)
      BY <1>2, LostGrows
    <3> QED BY <1>2, <3>1, <3>2, <3>3, NumberFacts DEF Only
  <2> QED BY <1>3, <2>1 DEF Changes
<1>6. \A o \in Objects : \E d \in Int : Balanced(o, d)
  BY <1>3, <1>4, <1>5, ChangesStep
<1> QED BY <1>2, <1>4, <1>6, OtherStep

LEMMA GetAttributeValueIInv ==
  ASSUME IInv, NEW t \in Threads, NEW x \in Objects,
         GetAttributeValue(t, x) \/ CopyDict(t, x)
  PROVE  IInv'
<1>1. /\ pc[t].at = "entered" /\ lost' = Count(lost, x, 1) /\ Use({pc[t].self}) /\ Go(t, Idle)
      /\ UNCHANGED <<python, stolen>>
  BY DEF GetAttributeValue, CopyDict, MakeDict, Entered, Leave
<1>2. KeepsReceivers => \A o \in {pc[t].self} \cap born : Counted(python, wraps, pc, o) > 0
  BY <1>1, ThreadFacts
<1>3. /\ Idle \in Frames /\ FrameInv(Idle, born', python', wraps')
      /\ \A o \in Objects : Weight(Idle, o) = 0 /\ Weight(pc[t], o) = 0
      /\ pc' \in [Threads -> Frames]
  BY <1>1, IdleFacts, ThreadFacts DEF Go, IInv, TypeOK
<1>4. ASSUME NEW o \in Objects
      PROVE  stolen'[o] = stolen[o] + Only(x, o, 0) /\ lost'[o] = lost[o] + Only(x, o, 1)
  <2>1. lost'[o] = lost[o] + Only(x, o, 1)
    BY <1>1, LostGrows
  <2> QED BY <1>1, <2>1, NumberFacts DEF Only
<1>5. CASE Obtain(x, 1) /\ wraps' = wraps
  <2>1. /\ refcnt' \in [Objects -> Nat] /\ refcnt' = Plus(refcnt, x, 1)
        /\ born \subseteq born' /\ born' \subseteq Objects
    BY <1>5, ObtainFacts
  <2>2. lost' \in [Objects -> Nat]
    BY <1>1, LostGrows
  <2>3. CountsOK' /\ KnowsBorn' /\ Stable
    BY <1>1, <1>5, <2>1, <2>2 DEF IInv, TypeOK, CountsOK, KnowsBorn, Stable
  <2>4. ASSUME NEW o \in Objects
        PROVE  Counted(python', wraps', pc', o) = Counted(python, wraps, pc, o) + Only(x, o, 0)
    <3>1. Counted(python', wraps', pc', o)
            = Counted(python, wraps, pc, o) + python'[o] - python[o]
                + (Weight(Idle, o) - Weight(pc[t], o))
      BY <1>1, <1>3, <1>5, <2>3, OwnersOfThread DEF CountsOK
    <3> QED BY <1>1, <1>3, <3>1, NumberFacts DEF Only
  <2>5. Changes(x, 1, 0, 0, 1)
    BY <1>4, <2>1, <2>4 DEF Changes
  <2>6. \A o \in Objects : \E d \in Int : Balanced(o, d)
    BY <1>3, <2>3, <2>5, ChangesStep
  <2> QED BY <1>1, <1>2, <1>3, <2>3, <2>6, ThreadStep
<1>6. ASSUME NEW w \in Unused, Obtain(x, 2), wraps' = [wraps EXCEPT ![w] = x]
      PROVE  IInv'
  <2>1. /\ refcnt' = Plus(refcnt, x, 2)
        /\ Live(x) \/ Counted(python, wraps, pc, x) > 0
    BY <1>6, ObtainFacts
  <2>2. CountsOK' /\ KnowsBorn' /\ Stable
    BY <1>1, <1>6, WrapObtained
  <2>3. ASSUME NEW o \in Objects
        PROVE  Counted(python', wraps', pc', o) = Counted(python, wraps, pc, o) + Only(x, o, 1)
    <3>1. Only(x, o, 1) - Only(wraps[w], o, 1) = Only(x, o, 1)
      BY ReferencesAssumption DEF Only, Unused
    <3>2. Counted(python', wraps', pc', o)
            = Counted(python, wraps, pc, o) + python'[o] - python[o]
                + (Weight(Idle, o) - Weight(pc[t], o)) + (Only(x, o, 1) - Only(wraps[w], o, 1))
      <4>1. x \in Pointers /\ w \in Wrappers /\ python' \in [Objects -> Nat]
        BY <2>2 DEF Pointers, Unused, CountsOK
      <4> QED BY <1>1, <1>3, <1>6, <4>1, OwnersOfBoth
    <3> QED BY <1>1, <1>3, <3>1, <3>2, NumberFacts DEF Only
  <2>4. Changes(x, 2, 1, 0, 1)
    BY <1>4, <2>1, <2>3 DEF Changes
  <2>5. \A o \in Objects : \E d \in Int : Balanced(o, d)
    BY <1>3, <2>1, <2>2, <2>4, ChangesStep
  <2> QED BY <1>1, <1>2, <1>3, <2>2, <2>5, ThreadStep
<1> QED BY <1>5, <1>6 DEF GetAttributeValue, CopyDict, MakeDict

LEMMA SetAttributeIInv ==
  ASSUME IInv, NEW t \in Threads, SetAttribute(t)
  PROVE  IInv'
<1> DEFINE x == pc[t].arg
           y == pc[t].self
<1>1. /\ pc[t].at = "entered" /\ x \in born /\ x \in Objects
      /\ Counted(python, wraps, pc, x) > 0
      /\ KeepsReceivers => \A o \in {y} \cap born : Counted(python, wraps, pc, o) > 0
  <2>1. pc[t].at = "entered" /\ pc[t].op \in WithArgument /\ born \subseteq Objects
    BY DEF SetAttribute, Entered, IInv, WithArgument, TypeOK
  <2> QED BY <2>1, ThreadFacts
<1>2. \A o \in Objects : Weight(Idle, o) = 0 /\ Weight(pc[t], o) = 0
  BY <1>1, ThreadFacts, IdleFacts
<1> HIDE DEF x, y
<1>3. /\ refcnt' = Plus(refcnt, x, 1) /\ python' = Count(python, x, 1) /\ Use({y, x})
      /\ Go(t, Idle) /\ UNCHANGED <<born, wraps, stolen, lost>>
  BY DEF SetAttribute, Leave, x, y
<1>4. /\ refcnt' \in [Objects -> Nat] /\ python' \in [Objects -> Nat]
      /\ \A o \in Objects : python'[o] = python[o] + Only(x, o, 1)
  BY <1>1, <1>3, PlusType, PythonGains
<1>5. KnowsBorn' /\ \A o \in Objects : python'[o] >= python[o]
  BY <1>1, <1>3, <1>4, NumberFacts DEF IInv, TypeOK, KnowsBorn, Only
<1>6. CountsOK' /\ Stable /\ pc' \in [Threads -> Frames]
  BY <1>3, <1>4, <1>5, IdleFacts DEF Go, IInv, TypeOK, CountsOK, Stable
<1>7. Changes(x, 1, 1, 0, 0)
  <2>1. ASSUME NEW o \in Objects
        PROVE  /\ Counted(python', wraps', pc', o)
                    = Counted(python, wraps, pc, o) + Only(x, o, 1)
               /\ stolen'[o] = stolen[o] + Only(x, o, 0)
               /\ lost'[o] = lost[o] + Only(x, o, 0)
    <3>1. Counted(python', wraps', pc', o)
            = Counted(python, wraps, pc, o) + python'[o] - python[o]
                + (Weight(Idle, o) - Weight(pc[t], o))
      BY <1>3, <1>4, IdleFacts, OwnersOfThread
    <3> QED BY <1>2, <1>3, <1>4, <3>1, NumberFacts DEF Only
  <2> QED BY <1>3, <2>1 DEF Changes
<1>8. \A o \in Objects : \E d \in Int : Balanced(o, d)
  <2>1. CountsOK' /\ pc' \in [Threads -> Frames]
    BY <1>6
  <2>2. /\ x \in Objects /\ 1 \in Int /\ 0 \in Int /\ 0 \in Nat /\ 1 >= 0
        /\ KeepsReceivers => Counted(python, wraps, pc, x) > 0
    BY <1>1
  <2> QED BY <1>7, <2>1, <2>2, ChangesStep
<1>9. KeepsReceivers => \A o \in {y, x} \cap born : Counted(python, wraps, pc, o) > 0
  BY <1>1
<1> QED BY <1>3, <1>5, <1>6, <1>8, <1>9, IdleFacts, ThreadStep

\* Python code gets a reference.
LEMMA PythonStep ==
  ASSUME IInv, NEW x \in Objects, NEW k \in Nat, refcnt' = Plus(refcnt, x, k),
         python' = Count(python, x, 1), born \subseteq born', born' \subseteq Objects, x \in born',
         wraps' = wraps, stolen' \in [Objects -> Nat], lost' \in [Objects -> Nat]
  PROVE  CountsOK' /\ KnowsBorn' /\ Stable
<1>1. /\ python' \in [Objects -> Nat]
      /\ \A o \in Objects : python'[o] = python[o] + Only(x, o, 1) /\ python'[o] >= python[o]
  BY PythonGains
<1>2. refcnt' \in [Objects -> Nat]
  BY PlusType
<1>3. CountsOK' /\ Stable
  BY <1>1, <1>2 DEF IInv, TypeOK, CountsOK, Stable
<1>4. ASSUME NEW o \in Objects \ born' PROVE python'[o] = 0
  <2>1. python[o] = 0 /\ o # x
    BY DEF IInv, KnowsBorn
  <2> QED BY <1>1, <2>1 DEF Only
<1>5. KnowsBorn'
  BY <1>4 DEF IInv, KnowsBorn
<1> QED BY <1>3, <1>5

LEMMA SetValueIInv ==
  ASSUME IInv, NEW t \in Threads, NEW x \in Objects, SetValue(t, x)
  PROVE  IInv'
<1>1. /\ pc[t].at = "entered" /\ lost' = Count(lost, x, 1) /\ Use({pc[t].self}) /\ Go(t, Idle)
      /\ UNCHANGED <<wraps, stolen>>
  BY DEF SetValue, Entered, Leave
<1>2. KeepsReceivers => \A o \in {pc[t].self} \cap born : Counted(python, wraps, pc, o) > 0
  BY <1>1, ThreadFacts
<1>3. /\ Idle \in Frames /\ FrameInv(Idle, born', python', wraps')
      /\ \A o \in Objects : Weight(Idle, o) = 0 /\ Weight(pc[t], o) = 0
      /\ pc' \in [Threads -> Frames]
  BY <1>1, IdleFacts, ThreadFacts DEF Go, IInv, TypeOK
<1>4. /\ lost' \in [Objects -> Nat] /\ stolen' \in [Objects -> Nat]
      /\ \A o \in Objects : stolen'[o] = stolen[o] + Only(x, o, 0)
                            /\ lost'[o] = lost[o] + Only(x, o, 1)
  <2>1. lost' \in [Objects -> Nat] /\ \A o \in Objects : lost'[o] = lost[o] + Only(x, o, 1)
    BY <1>1, LostGrows
  <2>2. stolen' \in [Objects -> Nat] /\ \A o \in Objects : stolen'[o] = stolen[o] + Only(x, o, 0)
    BY <1>1, Types DEF Only
  <2> QED BY <2>1, <2>2
<1>5. CASE Obtain(x, 2) /\ python' = Count(python, x, 1)
  <2>1. /\ refcnt' = Plus(refcnt, x, 2) /\ born \subseteq born' /\ born' \subseteq Objects
        /\ x \in born' /\ (Live(x) \/ Counted(python, wraps, pc, x) > 0)
    BY <1>5, ObtainFacts
  <2>2. CountsOK' /\ KnowsBorn' /\ Stable
    BY <1>1, <1>4, <1>5, <2>1, PythonStep
  <2>3. ASSUME NEW o \in Objects
        PROVE  Counted(python', wraps', pc', o) = Counted(python, wraps, pc, o) + Only(x, o, 1)
    <3>1. python' \in [Objects -> Nat] /\ python'[o] = python[o] + Only(x, o, 1)
      BY <1>5, PythonGains
    <3>2. Counted(python', wraps', pc', o)
            = Counted(python, wraps, pc, o) + python'[o] - python[o]
                + (Weight(Idle, o) - Weight(pc[t], o))
      BY <1>1, <1>3, <3>1, OwnersOfThread
    <3> QED BY <1>3, <3>1, <3>2, NumberFacts DEF Only
  <2>4. Changes(x, 2, 1, 0, 1)
    BY <1>4, <2>1, <2>3 DEF Changes
  <2>5. \A o \in Objects : \E d \in Int : Balanced(o, d)
    BY <1>3, <2>1, <2>2, <2>4, ChangesStep
  <2> QED BY <1>1, <1>2, <1>3, <2>2, <2>5, ThreadStep
<1>6. CASE Obtain(x, 1) /\ python' = python
  <2>1. /\ refcnt' \in [Objects -> Nat] /\ refcnt' = Plus(refcnt, x, 1)
        /\ born \subseteq born' /\ born' \subseteq Objects
    BY <1>6, ObtainFacts
  <2>2. CountsOK' /\ KnowsBorn' /\ Stable
    BY <1>1, <1>4, <1>6, <2>1 DEF IInv, TypeOK, CountsOK, KnowsBorn, Stable
  <2>3. ASSUME NEW o \in Objects
        PROVE  Counted(python', wraps', pc', o) = Counted(python, wraps, pc, o) + Only(x, o, 0)
    <3>1. Counted(python', wraps', pc', o)
            = Counted(python, wraps, pc, o) + python'[o] - python[o]
                + (Weight(Idle, o) - Weight(pc[t], o))
      BY <1>1, <1>3, <1>6, Types, OwnersOfThread
    <3> QED BY <1>3, <1>6, <3>1, NumberFacts DEF Only
  <2>4. Changes(x, 1, 0, 0, 1)
    BY <1>4, <2>1, <2>3 DEF Changes
  <2>5. \A o \in Objects : \E d \in Int : Balanced(o, d)
    BY <1>3, <2>2, <2>4, ChangesStep
  <2> QED BY <1>1, <1>2, <1>3, <2>2, <2>5, ThreadStep
<1> QED BY <1>5, <1>6 DEF SetValue

LEMMA BeginCallIInv ==
  ASSUME IInv, NEW t \in Threads, BeginCall(t)
  PROVE  IInv'
<1> DEFINE x == pc[t].arg
           y == pc[t].self
           k == IF pc[t].op = "proxyTyped" THEN 1 ELSE 0
           f == [pc[t] EXCEPT !.at = "running"]
<1>1. /\ pc[t].at = "entered" /\ pc[t].op \in Calls /\ x \in born /\ x \in Objects /\ k \in 0..1
      /\ Counted(python, wraps, pc, x) > 0
      /\ KeepsReceivers => \A o \in {y} \cap born : Counted(python, wraps, pc, o) > 0
  <2>1. pc[t].at = "entered" /\ pc[t].op \in Calls /\ pc[t].op \in WithArgument
        /\ born \subseteq Objects
    BY DEF BeginCall, IInv, WithArgument, TypeOK
  <2> QED BY <2>1, ThreadFacts
<1>2. /\ refcnt' = Plus(refcnt, x, k) /\ stolen' = Count(stolen, x, 1 - k) /\ Use({y, x})
      /\ Go(t, f) /\ UNCHANGED <<born, python, wraps, lost>>
  BY DEF BeginCall
<1>3. /\ f \in Frames /\ FrameInv(f, born', python', wraps')
      /\ \A o \in Objects : Weight(f, o) = Only(x, o, 1) /\ Weight(pc[t], o) = 0
  <2>1. pc[t] \in Frames /\ FrameInv(pc[t], born, python, wraps)
    BY DEF IInv, TypeOK
  <2>2. /\ f \in Frames /\ f.at = "running" /\ f.op = pc[t].op /\ f.self = pc[t].self
        /\ f.by = pc[t].by /\ f.arg = x /\ f.with = pc[t].with /\ f.result = pc[t].result
        /\ f.owned = pc[t].owned
    BY <2>1 DEF Frames
  <2>3. pc[t].result = NoObject /\ \A o \in Objects : Weight(pc[t], o) = 0
    BY <1>1, <2>1, ThreadFacts DEF FrameInv
  <2> HIDE DEF f
  <2>4. FrameInv(f, born', python', wraps')
    BY <1>1, <1>2, <2>1, <2>2 DEF FrameInv
  <2>5. \A o \in Objects : Weight(f, o) = Only(x, o, 1)
    BY <2>2, <2>3, ReferencesAssumption DEF Weight, Only
  <2> QED BY <2>2, <2>3, <2>4, <2>5
<1> HIDE DEF x, y, k, f
<1>4. /\ refcnt' \in [Objects -> Nat] /\ stolen' \in [Objects -> Nat]
      /\ \A o \in Objects : stolen'[o] = stolen[o] + Only(x, o, 1 - k)
  <2>1. k \in Int /\ 1 - k \in Nat
    BY <1>1
  <2> QED BY <1>1, <1>2, <2>1, PlusType, StolenGrows
<1>5. CountsOK' /\ KnowsBorn' /\ Stable /\ pc' \in [Threads -> Frames]
  BY <1>2, <1>3, <1>4 DEF Go, IInv, TypeOK, CountsOK, KnowsBorn, Stable
<1>6. Changes(x, k, 1, 1 - k, 0)
  <2>1. ASSUME NEW o \in Objects
        PROVE  /\ Counted(python', wraps', pc', o)
                    = Counted(python, wraps, pc, o) + Only(x, o, 1)
               /\ stolen'[o] = stolen[o] + Only(x, o, 1 - k)
               /\ lost'[o] = lost[o] + Only(x, o, 0)
    <3>1. Counted(python', wraps', pc', o)
            = Counted(python, wraps, pc, o) + python'[o] - python[o]
                + (Weight(f, o) - Weight(pc[t], o))
      BY <1>2, <1>3, Types, OwnersOfThread
    <3>2. Weight(f, o) = Only(x, o, 1) /\ Weight(pc[t], o) = 0
      BY <1>3
    <3> QED BY <1>2, <1>4, <3>1, <3>2, NumberFacts DEF Only
  <2>2. 1 + 0 = k + (1 - k)
    BY <1>1
  <2> QED BY <1>2, <2>2, <2>1 DEF Changes
<1>7. \A o \in Objects : \E d \in Int : Balanced(o, d)
  <2>1. k \in Int /\ k >= 0 /\ 1 - k \in Nat
    BY <1>1
  <2> QED BY <1>1, <1>5, <1>6, <2>1, ChangesStep
<1>8. KeepsReceivers => \A o \in {y, x} \cap born : Counted(python, wraps, pc, o) > 0
  BY <1>1
<1> QED BY <1>2, <1>3, <1>5, <1>7, <1>8, ThreadStep

\* A call of Python code returns k references to x, with c owners, and l of them are lost;
\* the reference to the argument a is given up.
LEMMA CallChanges ==
  ASSUME IInv, CountsOK', pc' \in [Threads -> Frames],
         NEW x \in Objects, NEW a \in Objects, a \in born,
         NEW k \in Nat, NEW c \in Nat, NEW l \in Nat, c + l = k,
         refcnt' = Plus(Plus(refcnt, x, k), a, -1),
         Live(x) \/ Counted(python, wraps, pc, x) > 0, stolen' = stolen,
         \A o \in Objects :
           /\ Counted(python', wraps', pc', o)
                = Counted(python, wraps, pc, o) + Only(x, o, c) + Only(a, o, -1)
           /\ lost'[o] = lost[o] + Only(x, o, l)
  PROVE  \A o \in Objects : \E d \in Int : Balanced(o, d)
<1>1. ASSUME NEW o \in Objects PROVE \E d \in Int : Balanced(o, d)
  <2> DEFINE d == Only(x, o, k) + Only(a, o, -1)
             n == Counted(python, wraps, pc, o)
             m == Counted(python', wraps', pc', o)
             p == Plus(refcnt, x, k)
  <2>1. /\ refcnt[o] \in Nat /\ stolen[o] \in Nat /\ lost[o] \in Nat /\ lost'[o] \in Nat
        /\ n \in Nat /\ m \in Nat
    BY CountedFacts DEF IInv, TypeOK, CountsOK
  <2>2. d \in Int /\ (d >= 0 \/ o \in born)
    BY DEF Only
  <2>3. /\ p \in [Objects -> Nat]
        /\ Live(o) => p[o] = refcnt[o] + Only(x, o, k)
        /\ ~Live(o) => p[o] = 0
    <3>1. refcnt \in [Objects -> Nat] /\ k \in Int
      BY Types
    <3>2. p \in [Objects -> Nat]
      BY <3>1, PlusFacts
    <3>3. CASE o = x
      <4>1. p[o] = IF refcnt[o] + k > 0 /\ (refcnt[o] > 0 \/ o \notin born)
                   THEN refcnt[o] + k ELSE 0
        BY <3>1, <3>3, PlusAt
      <4> HIDE DEF p
      <4>2. Only(x, o, k) = k
        BY <3>3 DEF Only
      <4> QED BY <2>1, <3>2, <3>3, <4>1, <4>2 DEF Live
    <3>4. CASE o # x
      <4>1. p[o] = refcnt[o]
        BY <3>1, <3>4, PlusAt
      <4> QED BY <2>1, <3>2, <3>4, <4>1 DEF Live, Only
    <3> QED BY <3>3, <3>4
  <2> HIDE DEF p
  <2>4. /\ Live(o) => refcnt'[o] = IF refcnt[o] + d > 0 THEN refcnt[o] + d ELSE 0
        /\ ~Live(o) => refcnt'[o] = 0
    <3>1. refcnt' = Plus(p, a, -1) /\ -1 \in Int
      BY DEF p
    <3>2. CASE o = a
      <4>1. refcnt'[o] = IF p[o] + -1 > 0 /\ (p[o] > 0 \/ o \notin born)
                         THEN p[o] + -1 ELSE 0
        BY <2>3, <3>1, <3>2, PlusAt
      <4> QED BY <2>1, <2>3, <3>2, <4>1 DEF Live, Only
    <3>3. CASE o # a
      <4>1. refcnt'[o] = p[o]
        BY <2>3, <3>1, <3>3, PlusAt
      <4> QED BY <2>1, <2>3, <3>3, <4>1 DEF Only
    <3> QED BY <3>2, <3>3
  <2>5. Due(python', wraps', pc', stolen', lost', o)
          = Due(python, wraps, pc, stolen, lost, o) + d
    <3>1. m = n + Only(x, o, c) + Only(a, o, -1) /\ lost'[o] = lost[o] + Only(x, o, l)
      OBVIOUS
    <3>2. Only(x, o, k) = Only(x, o, c) + Only(x, o, l)
      BY DEF Only
    <3>3. /\ Only(x, o, c) \in Int /\ Only(x, o, l) \in Int /\ Only(a, o, -1) \in Int
      BY DEF Only
    <3> HIDE DEF n, m
    <3>4. m - stolen[o] + lost'[o]
            = (n - stolen[o] + lost[o]) + ((Only(x, o, c) + Only(x, o, l)) + Only(a, o, -1))
      BY <2>1, <3>1, <3>3
    <3> QED BY <3>2, <3>4 DEF Due, n, m
  <2>6. KeepsReceivers /\ ~Live(o) /\ n = 0 => m = 0
    BY <2>1 DEF Only
  <2> HIDE DEF d
  <2>7. stolen'[o] >= stolen[o]
    BY <2>1
  <2>8. Balanced(o, d)
    BY <2>2, <2>4, <2>5, <2>6, <2>7 DEF Balanced
  <2> QED BY <2>2, <2>8
<1> QED BY <1>1

\* What every call does on its return.
LEMMA ReturnedFacts ==
  ASSUME IInv, NEW t \in Threads, NEW x \in Objects, NEW k \in Nat, Returned(t, x, k)
  PROVE  /\ pc[t].arg \in born /\ pc[t].arg \in Objects
         /\ \A o \in Objects : Weight(pc[t], o) = Only(pc[t].arg, o, 1)
         /\ refcnt' = Plus(Plus(refcnt, x, k), pc[t].arg, -1)
         /\ refcnt' \in [Objects -> Nat]
         /\ born \subseteq born' /\ born' \subseteq Objects /\ x \in born'
         /\ Live(x) \/ Counted(python, wraps, pc, x) > 0
         /\ Use({pc[t].arg})
         /\ KeepsReceivers =>
              \A o \in {pc[t].arg} \cap born : Counted(python, wraps, pc, o) > 0
<1>1. pc[t].at = "running" /\ pc[t].op \in WithArgument /\ born \subseteq Objects
  BY DEF Returned, IInv, FrameInv, WithArgument, TypeOK
<1>2. /\ pc[t].arg \in born /\ pc[t].arg \in Objects
      /\ \A o \in Objects : Weight(pc[t], o) = Only(pc[t].arg, o, 1)
      /\ Counted(python, wraps, pc, pc[t].arg) > 0
  BY <1>1, ThreadFacts DEF Only
<1>3. refcnt' \in [Objects -> Nat]
  <2>1. Plus(refcnt, x, k) \in [Objects -> Nat]
    BY PlusType
  <2>2. -1 \in Int
    OBVIOUS
  <2> QED BY <1>2, <2>1, <2>2, PlusFacts DEF Returned
<1>4. Live(x) \/ Counted(python, wraps, pc, x) > 0
  BY KnownFacts DEF Returned
<1> QED BY <1>1, <1>2, <1>3, <1>4 DEF Returned

LEMMA CallAndReturnObjectIInv ==
  ASSUME IInv, NEW t \in Threads, NEW x \in Objects, CallAndReturnObject(t, x)
  PROVE  IInv'
<1> DEFINE f == Wrapping(t, x, 2)
           a == pc[t].arg
<1>1. Returned(t, x, 2) /\ Go(t, f) /\ UNCHANGED <<python, wraps, stolen, lost>>
  BY DEF CallAndReturnObject
<1>2. /\ a \in born /\ a \in Objects
      /\ \A o \in Objects : Weight(pc[t], o) = Only(a, o, 1)
      /\ refcnt' = Plus(Plus(refcnt, x, 2), a, -1) /\ refcnt' \in [Objects -> Nat]
      /\ born \subseteq born' /\ born' \subseteq Objects /\ x \in born'
      /\ Live(x) \/ Counted(python, wraps, pc, x) > 0
      /\ Use({a})
      /\ KeepsReceivers => \A o \in {a} \cap born : Counted(python, wraps, pc, o) > 0
  BY <1>1, ReturnedFacts
<1>3. /\ f \in Frames /\ FrameInv(f, born', python', wraps')
      /\ \A o \in Objects : Weight(f, o) = Only(x, o, 2)
  BY <1>2, WrappingFacts DEF IInv, Only
<1> HIDE DEF f, a
<1>4. CountsOK' /\ KnowsBorn' /\ Stable /\ pc' \in [Threads -> Frames]
  BY <1>1, <1>2, <1>3 DEF Go, IInv, TypeOK, CountsOK, KnowsBorn, Stable
<1>5. ASSUME NEW o \in Objects
      PROVE  /\ Counted(python', wraps', pc', o)
                  = Counted(python, wraps, pc, o) + Only(x, o, 2) + Only(a, o, -1)
             /\ lost'[o] = lost[o] + Only(x, o, 0)
  <2>1. Counted(python', wraps', pc', o)
          = Counted(python, wraps, pc, o) + python'[o] - python[o]
              + (Weight(f, o) - Weight(pc[t], o))
    BY <1>1, <1>3, Types, OwnersOfThread
  <2>2. /\ Weight(f, o) = Only(x, o, 2) /\ Weight(pc[t], o) = Only(a, o, 1)
        /\ python'[o] = python[o] /\ lost'[o] = lost[o]
    BY <1>1, <1>2, <1>3
  <2>3. python[o] \in Nat /\ lost[o] \in Nat /\ Counted(python, wraps, pc, o) \in Nat
    BY NumberFacts
  <2> QED BY <2>1, <2>2, <2>3 DEF Only
<1>6. \A o \in Objects : \E d \in Int : Balanced(o, d)
  <2>1. CountsOK' /\ pc' \in [Threads -> Frames] /\ stolen' = stolen
    BY <1>1, <1>4
  <2>2. /\ a \in Objects /\ a \in born /\ refcnt' = Plus(Plus(refcnt, x, 2), a, -1)
        /\ Live(x) \/ Counted(python, wraps, pc, x) > 0
    BY <1>2
  <2>3. 2 \in Nat /\ 0 \in Nat /\ 2 + 0 = 2
    OBVIOUS
  <2>4. \A o \in Objects :
          /\ Counted(python', wraps', pc', o)
               = Counted(python, wraps, pc, o) + Only(x, o, 2) + Only(a, o, -1)
          /\ lost'[o] = lost[o] + Only(x, o, 0)
    BY <1>5
  <2> QED BY <2>1, <2>2, <2>3, <2>4, CallChanges
<1> QED BY <1>1, <1>2, <1>3, <1>4, <1>6, ThreadStep

LEMMA CallAndReturnValueIInv ==
  ASSUME IInv, NEW t \in Threads, NEW x \in Objects, CallAndReturnValue(t, x)
  PROVE  IInv'
<1> DEFINE a == pc[t].arg
<1>1. Go(t, Idle) /\ UNCHANGED <<python, stolen>>
  BY DEF CallAndReturnValue, Leave
<1>2. /\ Idle \in Frames /\ FrameInv(Idle, born', python', wraps')
      /\ \A o \in Objects : Weight(Idle, o) = 0
      /\ pc' \in [Threads -> Frames]
  BY <1>1, IdleFacts DEF Go, IInv, TypeOK
<1>3. ASSUME NEW k \in 1..2, Returned(t, x, k), lost' = Count(lost, x, k), wraps' = wraps
      PROVE  IInv'
  <2>1. /\ a \in born /\ a \in Objects
        /\ \A o \in Objects : Weight(pc[t], o) = Only(a, o, 1)
        /\ refcnt' = Plus(Plus(refcnt, x, k), a, -1) /\ refcnt' \in [Objects -> Nat]
        /\ born \subseteq born' /\ born' \subseteq Objects /\ x \in born'
        /\ Live(x) \/ Counted(python, wraps, pc, x) > 0
        /\ Use({a})
        /\ KeepsReceivers => \A o \in {a} \cap born : Counted(python, wraps, pc, o) > 0
    <3>1. k \in Nat
      OBVIOUS
    <3> QED BY <1>3, <3>1, ReturnedFacts
  <2> HIDE DEF a
  <2>2. lost' \in [Objects -> Nat] /\ \A o \in Objects : lost'[o] = lost[o] + Only(x, o, k)
    BY <1>3, LostGrows
  <2>3. CountsOK' /\ KnowsBorn' /\ Stable
    BY <1>1, <1>3, <2>1, <2>2 DEF IInv, TypeOK, CountsOK, KnowsBorn, Stable
  <2>4. ASSUME NEW o \in Objects
        PROVE  Counted(python', wraps', pc', o)
                 = Counted(python, wraps, pc, o) + Only(x, o, 0) + Only(a, o, -1)
    <3>1. Counted(python', wraps', pc', o)
            = Counted(python, wraps, pc, o) + python'[o] - python[o]
                + (Weight(Idle, o) - Weight(pc[t], o))
      BY <1>1, <1>2, <1>3, Types, OwnersOfThread
    <3> QED BY <1>1, <1>2, <2>1, <3>1, NumberFacts DEF Only
  <2>5. \A o \in Objects : \E d \in Int : Balanced(o, d)
    <3>1. 0 + k = k /\ k \in Nat /\ 0 \in Nat
      OBVIOUS
    <3>2. \A o \in Objects :
            /\ Counted(python', wraps', pc', o)
                 = Counted(python, wraps, pc, o) + Only(x, o, 0) + Only(a, o, -1)
            /\ lost'[o] = lost[o] + Only(x, o, k)
      BY <2>2, <2>4
    <3>3. stolen' = stolen
      BY <1>1
    <3> QED BY <1>2, <2>1, <2>3, <3>1, <3>2, <3>3, CallChanges
  <2> QED BY <1>1, <1>2, <2>1, <2>3, <2>5, ThreadStep
<1>4. ASSUME NEW w \in Unused, Returned(t, x, 3), lost' = Count(lost, x, 2),
             wraps' = [wraps EXCEPT ![w] = x]
      PROVE  IInv'
  <2>1. /\ a \in born /\ a \in Objects
        /\ \A o \in Objects : Weight(pc[t], o) = Only(a, o, 1)
        /\ refcnt' = Plus(Plus(refcnt, x, 3), a, -1) /\ refcnt' \in [Objects -> Nat]
        /\ born \subseteq born' /\ born' \subseteq Objects /\ x \in born'
        /\ Live(x) \/ Counted(python, wraps, pc, x) > 0
        /\ Use({a})
        /\ KeepsReceivers => \A o \in {a} \cap born : Counted(python, wraps, pc, o) > 0
    BY <1>4, ReturnedFacts
  <2> HIDE DEF a
  <2>2. lost' \in [Objects -> Nat] /\ \A o \in Objects : lost'[o] = lost[o] + Only(x, o, 2)
    BY <1>4, LostGrows
  <2>3. w \in Wrappers /\ wraps[w] = NoObject /\ x \in Pointers
    BY DEF Unused, Pointers
  <2>4. CountsOK' /\ KnowsBorn' /\ Stable
    BY <1>1, <1>4, <2>1, <2>2, <2>3 DEF IInv, TypeOK, CountsOK, KnowsBorn, Stable
  <2>5. ASSUME NEW o \in Objects
        PROVE  Counted(python', wraps', pc', o)
                 = Counted(python, wraps, pc, o) + Only(x, o, 1) + Only(a, o, -1)
    <3>1. Only(x, o, 1) - Only(wraps[w], o, 1) = Only(x, o, 1)
      BY <2>3, ReferencesAssumption DEF Only
    <3>2. Counted(python', wraps', pc', o)
            = Counted(python, wraps, pc, o) + python'[o] - python[o]
                + (Weight(Idle, o) - Weight(pc[t], o)) + (Only(x, o, 1) - Only(wraps[w], o, 1))
      <4>1. python' \in [Objects -> Nat]
        BY <1>1, Types
      <4> QED BY <1>1, <1>2, <1>4, <2>3, <4>1, OwnersOfBoth
    <3>3. Weight(Idle, o) = 0 /\ Weight(pc[t], o) = Only(a, o, 1) /\ python'[o] = python[o]
      BY <1>1, <1>2, <2>1
    <3>4. python[o] \in Nat /\ Counted(python, wraps, pc, o) \in Nat
      BY NumberFacts
    <3> QED BY <3>1, <3>2, <3>3, <3>4 DEF Only
  <2>6. \A o \in Objects : \E d \in Int : Balanced(o, d)
    <3>1. \A o \in Objects :
            /\ Counted(python', wraps', pc', o)
                 = Counted(python, wraps, pc, o) + Only(x, o, 1) + Only(a, o, -1)
            /\ lost'[o] = lost[o] + Only(x, o, 2)
      BY <2>2, <2>5
    <3>2. CountsOK' /\ pc' \in [Threads -> Frames] /\ stolen' = stolen
      BY <1>1, <1>2, <2>4
    <3>3. /\ a \in Objects /\ a \in born /\ refcnt' = Plus(Plus(refcnt, x, 3), a, -1)
          /\ Live(x) \/ Counted(python, wraps, pc, x) > 0
      BY <2>1
    <3>4. 1 \in Nat /\ 2 \in Nat /\ 3 \in Nat /\ 1 + 2 = 3
      OBVIOUS
    <3> QED BY <3>1, <3>2, <3>3, <3>4, CallChanges
  <2> QED BY <1>1, <1>2, <2>1, <2>4, <2>6, ThreadStep
<1> QED BY <1>3, <1>4 DEF CallAndReturnValue

LEMMA PassToJavaIInv ==
  ASSUME IInv, NEW w \in Wrappers, NEW x \in Objects, PassToJava(w, x)
  PROVE  IInv'
<1>1. x \in born /\ Counted(python, wraps, pc, x) > 0
  BY ReachedFacts DEF PassToJava
<1>2. /\ wraps[w] = NoObject /\ wraps' = [wraps EXCEPT ![w] = x] /\ refcnt' = Plus(refcnt, x, 1)
      /\ Use({x}) /\ pc' = pc /\ UNCHANGED <<born, python, stolen, lost>>
  BY DEF PassToJava, Unused
<1>3. /\ refcnt' \in [Objects -> Nat] /\ wraps' \in [Wrappers -> Pointers]
      /\ x \in Pointers /\ python' \in [Objects -> Nat]
  <2>1. refcnt' \in [Objects -> Nat]
    BY <1>2, PlusType
  <2> QED BY <1>2, <2>1 DEF IInv, TypeOK, Pointers
<1>4. CountsOK' /\ KnowsBorn' /\ Stable /\ pc' \in [Threads -> Frames]
  BY <1>1, <1>2, <1>3 DEF IInv, TypeOK, CountsOK, KnowsBorn, Stable
<1>5. Changes(x, 1, 1, 0, 0)
  <2>1. ASSUME NEW o \in Objects
        PROVE  /\ Counted(python', wraps', pc', o)
                    = Counted(python, wraps, pc, o) + Only(x, o, 1)
               /\ stolen'[o] = stolen[o] + Only(x, o, 0)
               /\ lost'[o] = lost[o] + Only(x, o, 0)
    <3>1. Only(x, o, 1) - Only(wraps[w], o, 1) = Only(x, o, 1)
      BY <1>2, ReferencesAssumption DEF Only
    <3>2. Counted(python', wraps', pc', o)
            = Counted(python, wraps, pc, o) + python'[o] - python[o]
                + (Only(x, o, 1) - Only(wraps[w], o, 1))
      BY <1>2, <1>3, OwnersOfInstance
    <3> QED BY <1>2, <3>1, <3>2, NumberFacts DEF Only
  <2> QED BY <1>2, <2>1 DEF Changes
<1>6. \A o \in Objects : \E d \in Int : Balanced(o, d)
  BY <1>1, <1>4, <1>5, ChangesStep
<1> QED BY <1>1, <1>2, <1>4, <1>6, OtherStep

LEMMA ReturnToPythonIInv ==
  ASSUME IInv, NEW w \in Wrappers, ReturnToPython(w)
  PROVE  IInv'
<1> DEFINE x == wraps[w]
<1>1. x \in born /\ x \in Objects /\ Counted(python, wraps, pc, x) > 0
  <2>1. x \in born /\ x \in Objects
    BY DEF ReturnToPython, Unused, IInv, KnowsBorn, TypeOK
  <2> QED BY <2>1, CountedFacts DEF IInv, TypeOK
<1> HIDE DEF x
<1>2. /\ refcnt' = Plus(refcnt, x, 0) /\ python' = Count(python, x, 1)
      /\ stolen' = Count(stolen, x, 1) /\ Use({x}) /\ pc' = pc /\ wraps' = wraps
      /\ UNCHANGED <<born, lost>>
  <2>1. Plus(refcnt, x, 0) = refcnt
    BY <1>1, Types, CountNothing
  <2> QED BY <2>1 DEF ReturnToPython, x
<1>3. /\ python' \in [Objects -> Nat] /\ stolen' \in [Objects -> Nat]
      /\ \A o \in Objects : python'[o] = python[o] + Only(x, o, 1)
                            /\ stolen'[o] = stolen[o] + Only(x, o, 1)
  <2>1. stolen' \in [Objects -> Nat] /\ \A o \in Objects : stolen'[o] = stolen[o] + Only(x, o, 1)
    BY <1>1, <1>2, StolenGrows
  <2> QED BY <1>1, <1>2, <2>1, PythonGains
<1>4. CountsOK' /\ KnowsBorn' /\ Stable
  BY <1>1, <1>2, <1>3, Types, PythonStep DEF IInv, TypeOK
<1>5. Changes(x, 0, 1, 1, 0)
  <2>1. ASSUME NEW o \in Objects
        PROVE  /\ Counted(python', wraps', pc', o)
                    = Counted(python, wraps, pc, o) + Only(x, o, 1)
               /\ stolen'[o] = stolen[o] + Only(x, o, 1)
               /\ lost'[o] = lost[o] + Only(x, o, 0)
    <3>1. Counted(python', wraps', pc', o)
            = Counted(python, wraps, pc, o) + python'[o] - python[o]
      BY <1>2, <1>3, OwnersOfNeither
    <3> QED BY <1>2, <1>3, <3>1, NumberFacts DEF Only
  <2> QED BY <1>2, <2>1 DEF Changes
<1>6. \A o \in Objects : \E d \in Int : Balanced(o, d)
  BY <1>1, <1>2, <1>4, <1>5, ChangesStep DEF IInv, TypeOK
<1> QED BY <1>1, <1>2, <1>4, <1>6, OtherStep

\* Python code gets one more reference to an object, a new one or another.
LEMMA PythonReferenceIInv ==
  ASSUME IInv, NEW x \in Objects, refcnt' = Plus(refcnt, x, 1), python' = Count(python, x, 1),
         born' = born \cup {x}, Live(x) \/ Counted(python, wraps, pc, x) > 0,
         UNCHANGED <<wraps, pc, stolen, lost>>,
         NEW S, Use(S),
         KeepsReceivers => \A o \in S \cap born : Counted(python, wraps, pc, o) > 0
  PROVE  IInv'
<1>2. pc' = pc /\ wraps' = wraps /\ stolen' = stolen /\ lost' = lost
  OBVIOUS
<1>3. /\ python' \in [Objects -> Nat]
      /\ \A o \in Objects : python'[o] = python[o] + Only(x, o, 1)
  BY PythonGains
<1>4. CountsOK' /\ KnowsBorn' /\ Stable
  BY <1>2, Types, PythonStep DEF IInv, TypeOK
<1>5. Changes(x, 1, 1, 0, 0)
  <2>1. ASSUME NEW o \in Objects
        PROVE  /\ Counted(python', wraps', pc', o)
                    = Counted(python, wraps, pc, o) + Only(x, o, 1)
               /\ stolen'[o] = stolen[o] + Only(x, o, 0)
               /\ lost'[o] = lost[o] + Only(x, o, 0)
    <3>1. Counted(python', wraps', pc', o)
            = Counted(python, wraps, pc, o) + python'[o] - python[o]
      BY <1>2, <1>3, OwnersOfNeither
    <3> QED BY <1>2, <1>3, <3>1, NumberFacts DEF Only
  <2> QED BY <1>2, <2>1 DEF Changes
<1>6. \A o \in Objects : \E d \in Int : Balanced(o, d)
  BY <1>2, <1>4, <1>5, ChangesStep DEF IInv, TypeOK
<1> QED BY <1>2, <1>4, <1>6, OtherStep

LEMMA PythonCreatesIInv ==
  ASSUME IInv, NEW x \in Objects, PythonCreates(x)
  PROVE  IInv'
<1>1. /\ Live(x) /\ refcnt' = Plus(refcnt, x, 1) /\ python' = Count(python, x, 1)
      /\ born' = born \cup {x} /\ Use({}) /\ UNCHANGED <<wraps, pc, stolen, lost>>
  BY DEF PythonCreates, Unborn, Live
<1> QED BY <1>1, PythonReferenceIInv

LEMMA PythonKeepsIInv ==
  ASSUME IInv, NEW x \in Objects, PythonKeeps(x)
  PROVE  IInv'
<1>1. x \in born /\ Counted(python, wraps, pc, x) > 0
  BY ReachedFacts DEF PythonKeeps
<1>2. /\ refcnt' = Plus(refcnt, x, 1) /\ python' = Count(python, x, 1)
      /\ born' = born \cup {x} /\ Use({x}) /\ UNCHANGED <<wraps, pc, stolen, lost>>
  BY <1>1 DEF PythonKeeps
<1> QED BY <1>1, <1>2, PythonReferenceIInv

LEMMA PythonDropsIInv ==
  ASSUME IInv, NEW x \in Objects, PythonDrops(x)
  PROVE  IInv'
<1>1. /\ python[x] > 0 /\ (IsBorrowed(x) => python[x] > 1)
      /\ refcnt' = Plus(refcnt, x, -1) /\ python' = Count(python, x, -1) /\ Use({x})
      /\ pc' = pc /\ wraps' = wraps /\ UNCHANGED <<born, stolen, lost>>
  BY Types DEF PythonDrops
<1>2. x \in born /\ Counted(python, wraps, pc, x) > 0
  <2>1. x \in born
    BY <1>1 DEF IInv, KnowsBorn
  <2> QED BY <1>1, <2>1, CountedFacts DEF IInv, TypeOK
<1>3. /\ python' \in [Objects -> Nat] /\ refcnt' \in [Objects -> Nat]
      /\ \A o \in Objects : python'[o] = python[o] + Only(x, o, -1)
  <2>1. python \in [Objects -> Nat] /\ python[x] \in Nat /\ -1 \in Int
    BY Types
  <2>2. python[x] + (-1) >= 0
    BY <1>1, <2>1
  <2>3. /\ Count(python, x, -1) \in [Objects -> Nat] /\ Count(python, x, -1)[x] = python[x] + (-1)
        /\ \A o \in Objects : o # x => Count(python, x, -1)[o] = python[o]
    BY <2>1, <2>2, CountFacts
  <2>4. \A o \in Objects : Count(python, x, -1)[o] = python[o] + Only(x, o, -1)
    BY <2>1, <2>3 DEF Only
  <2>5. refcnt' \in [Objects -> Nat]
    BY <1>1, <2>1, PlusType
  <2> QED BY <1>1, <2>3, <2>4, <2>5
<1>4. Stable
  <2>1. ASSUME NEW o \in Objects
        PROVE  python'[o] >= python[o] \/ python'[o] > 0 \/ ~IsBorrowed(o)
    BY <1>1, <1>3, <2>1, NumberFacts DEF Only
  <2> QED BY <1>1, <1>3, <2>1 DEF Stable
<1>5. KnowsBorn'
  <2>1. ASSUME NEW o \in Objects \ born' PROVE python'[o] = 0
    <3>1. python[o] = 0 /\ o # x
      BY <1>1, <1>2 DEF IInv, KnowsBorn
    <3> QED BY <1>3, <3>1 DEF Only
  <2> QED BY <1>1, <2>1 DEF IInv, KnowsBorn
<1>6. CountsOK' /\ pc' \in [Threads -> Frames]
  BY <1>1, <1>3 DEF IInv, TypeOK, CountsOK
<1>7. Changes(x, -1, -1, 0, 0)
  <2>1. ASSUME NEW o \in Objects
        PROVE  /\ Counted(python', wraps', pc', o)
                    = Counted(python, wraps, pc, o) + Only(x, o, -1)
               /\ stolen'[o] = stolen[o] + Only(x, o, 0)
               /\ lost'[o] = lost[o] + Only(x, o, 0)
    <3>1. Counted(python', wraps', pc', o)
            = Counted(python, wraps, pc, o) + python'[o] - python[o]
      BY <1>1, <1>3, OwnersOfNeither
    <3> QED BY <1>1, <1>3, <3>1, NumberFacts DEF Only
  <2> QED BY <1>1, <2>1 DEF Changes
<1>8. \A o \in Objects : \E d \in Int : Balanced(o, d)
  BY <1>2, <1>6, <1>7, ChangesStep
<1> QED BY <1>1, <1>2, <1>4, <1>5, <1>6, <1>8, OtherStep

-----------------------------------------------------------------------------
(* Theorems *)

LEMMA InitIInv == Init => IInv
<1> SUFFICES ASSUME Init PROVE IInv
  OBVIOUS
<1>1. PICK x \in Objects :
        /\ born = {x}
        /\ refcnt = [o \in Objects |-> IF o = x THEN 1 ELSE 0]
        /\ python = refcnt
  BY DEF Init
<1>2. /\ wraps = [w \in Wrappers |-> NoObject] /\ pc = [t \in Threads |-> Idle] /\ faults = {}
      /\ stolen = [o \in Objects |-> 0] /\ lost = [o \in Objects |-> 0]
  BY DEF Init
<1>3. TypeOK
  BY <1>1, <1>2, IdleFacts DEF TypeOK, Pointers
<1>4. KnowsBorn /\ UsesAreSafe
  BY <1>1, <1>2 DEF KnowsBorn, UsesAreSafe
<1>5. \A t \in Threads : FrameInv(pc[t], born, python, wraps)
  BY <1>2, IdleFacts
<1>6. ASSUME NEW o \in Objects
      PROVE  Counted(python, wraps, pc, o) = refcnt[o]
  <2>1. {w \in Wrappers : wraps[w] = o} = {}
    BY <1>2, ReferencesAssumption
  <2>2. {t \in Threads : pc[t].at = "running" /\ pc[t].arg = o} = {}
    BY <1>2, IdleFacts
  <2>3. \A k : {t \in Threads : pc[t].result = o /\ pc[t].owned >= k} = {}
    BY <1>2, IdleFacts, ReferencesAssumption
  <2>4. Wrapped(wraps, o) = 0 /\ PassedIn(pc, o) = 0
        /\ ReturnedIn(pc, o, 1) = 0 /\ ReturnedIn(pc, o, 2) = 0
    BY <2>1, <2>2, <2>3, FS_EmptySet DEF Wrapped, PassedIn, ReturnedIn
  <2> QED BY <1>1, <2>4 DEF Counted
<1>7. ASSUME NEW o \in Objects
      PROVE  Account(o) /\ (Owners(o) > 0 => Alive(o))
  <2>1. Owners(o) = refcnt[o] /\ refcnt[o] \in Nat /\ stolen[o] = 0 /\ lost[o] = 0
    BY <1>1, <1>2, <1>6, OwnersCounted
  <2> QED BY <2>1 DEF Account, Alive
<1>8. OwnersKeepAlive
  BY <1>3, <1>7 DEF OwnersKeepAlive, TypeOK
<1> QED BY <1>3, <1>4, <1>5, <1>7, <1>8 DEF IInv

LEMMA StutterIInv ==
  ASSUME IInv, UNCHANGED vars
  PROVE  IInv'
<1>1. /\ refcnt' = refcnt /\ born' = born /\ python' = python /\ wraps' = wraps /\ pc' = pc
      /\ stolen' = stolen /\ lost' = lost /\ faults' = faults
  BY DEF vars
<1>2. TypeOK' /\ KnowsBorn' /\ \A t \in Threads : FrameInv(pc[t], born, python, wraps)'
  BY <1>1 DEF IInv, TypeOK, KnowsBorn
<1>3. \A o : Owners(o)' = Owners(o)
  BY <1>1, OwnersCounted
<1>4. (\A o \in Objects : Account(o))' /\ (KeepsReceivers => OwnersKeepAlive)' /\ UsesAreSafe'
  BY <1>1, <1>3 DEF IInv, Account, Live, OwnersKeepAlive, Alive, UsesAreSafe
<1> QED BY <1>2, <1>4 DEF IInv

LEMMA NativeIInv ==
  ASSUME IInv, NEW t \in Threads, Native(t)
  PROVE  IInv'
<1>1. CASE \E op \in WithReceiver, w \in Wrappers, x \in Instances : Enter(t, op, w, x)
  BY <1>1, EnterIInv
<1>2. CASE \E w \in Wrappers : Wrap(t, w)
  BY <1>2, WrapIInv
<1>3. ASSUME NEW o \in Objects,
             GetType(t, o) \/ GetAttributeObject(t, o) \/ GetAttributeValue(t, o)
      PROVE  IInv'
  BY <1>3, GetTypeIInv, ReturnNewIInv, GetAttributeValueIInv DEF GetAttributeObject, Entered
<1>4. ASSUME NEW o \in Objects,
             ExecuteCode(t, o) \/ ImportModule(t, o) \/ SetValue(t, o)
      PROVE  IInv'
  BY <1>4, ReturnNewIInv, SetValueIInv DEF ExecuteCode, ImportModule
<1>5. ASSUME NEW o \in Objects, CallAndReturnObject(t, o) \/ CallAndReturnValue(t, o)
      PROVE  IInv'
  BY <1>5, CallAndReturnObjectIInv, CallAndReturnValueIInv
<1>6. CASE Fail(t) \/ SetAttribute(t) \/ BeginCall(t) \/ Raise(t)
  BY <1>6, FailIInv, SetAttributeIInv, BeginCallIInv, RaiseIInv
<1>7. ASSUME NEW o \in Objects, NewDict(t, o) \/ CopyDict(t, o)
      PROVE  IInv'
  BY <1>7, NewDictIInv, GetAttributeValueIInv
<1> QED BY <1>1, <1>2, <1>3, <1>4, <1>5, <1>6, <1>7 DEF Native

LEMMA NextIInv ==
  ASSUME IInv, [Next]_vars
  PROVE  IInv'
<1>1. ASSUME NEW t \in Threads, Native(t) PROVE IInv'
  BY <1>1, NativeIInv
<1>2. ASSUME NEW w \in Wrappers, Finalize(w) \/ ReturnToPython(w) PROVE IInv'
  BY <1>2, FinalizeIInv, ReturnToPythonIInv
<1>3. ASSUME NEW w \in Wrappers, NEW o \in Objects, PassToJava(w, o) PROVE IInv'
  BY <1>3, PassToJavaIInv
<1>4. ASSUME NEW o \in Objects, PythonCreates(o) \/ PythonKeeps(o) \/ PythonDrops(o) PROVE IInv'
  BY <1>4, PythonCreatesIInv, PythonKeepsIInv, PythonDropsIInv
<1>5. CASE UNCHANGED vars
  BY <1>5, StutterIInv
<1> QED BY <1>1, <1>2, <1>3, <1>4, <1>5 DEF Next

LEMMA Invariance == Spec => []IInv
BY InitIInv, NextIInv, PTL DEF Spec

\* No count of references ever becomes negative, and every variable keeps its type.
THEOREM TypeCorrect == Spec => []TypeOK
<1>1. IInv => TypeOK
  BY DEF IInv
<1> QED BY <1>1, Invariance, PTL

\* The count of a live object is that of its owners, with what the native methods lose and
\* without what they give away, for any number of objects, wrappers and threads.
THEOREM Accounted == Spec => []ReferencesAreAccounted
<1>1. IInv => ReferencesAreAccounted
  BY DEF IInv, TypeOK, ReferencesAreAccounted, Account, Live, Alive
<1> QED BY <1>1, Invariance, PTL

\* If programs keep the receivers of native methods, objects that nothing was given away
\* of live as long as anybody counts on them.
THEOREM KeptAlive == KeepsReceivers => (Spec => []OwnersKeepAlive)
<1> SUFFICES ASSUME KeepsReceivers PROVE Spec => []OwnersKeepAlive
  OBVIOUS
<1>1. IInv => OwnersKeepAlive
  BY DEF IInv
<1> QED BY <1>1, Invariance, PTL

\* No native method, constructor or finalizer uses a freed object that nothing was given away
\* of, if programs keep the receivers of native methods.
THEOREM SafeUses == Spec => []UsesAreSafe
<1>1. IInv => UsesAreSafe
  BY DEF IInv
<1> QED BY <1>1, Invariance, PTL
=============================================================================
